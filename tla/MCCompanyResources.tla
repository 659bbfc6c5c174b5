------------------------- MODULE MCCompanyResources -------------------------
(* A small instance of CompanyResources for TLC.                           *)
EXTENDS CompanyResources, TLC

CONSTANTS h1, h2, co1, co2, j1, j2, w1, w2

\* A charger of the first company, and one without a company; a job and a
\* journal of each company.
MCCompanyOf == (h1 :> co1) @@ (h2 :> None) @@ (j1 :> co1) @@ (j2 :> co2)
               @@ (w1 :> co1) @@ (w2 :> co2)

\* Reads are taken when no request is in flight: they depend on the rows
\* alone, and every combination of rows is met so, the requests in flight
\* having been aborted.
ReadsBetweenRequests == answer' # answer => \A s \in Slots : req[s] = Idle

Symmetry == Permutations(Slots)
            \cup Permutations(Texts) \cup Permutations(Comments)

=============================================================================
