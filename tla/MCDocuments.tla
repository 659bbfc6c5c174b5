----------------------------- MODULE MCDocuments -----------------------------
(* Small instances of Documents for TLC.                                   *)
EXTENDS Documents, TLC

CONSTANTS admin, c1, c2

MCRole == (admin :> "ADMIN") @@ (c1 :> "CAREGIVER") @@ (c2 :> "CAREGIVER")

\* An upload of each kind the checks tell apart.
MCUploads == [size : {0, 1, 2}, mime : {"allowed", "other"}, name : {"clean", "bad", None}]

Symmetry == Permutations(Slots) \cup Permutations(Docs) \cup Permutations(Relations)
            \cup Permutations(Actors \ {admin})

=============================================================================
