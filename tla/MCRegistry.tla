----------------------------- MODULE MCRegistry -----------------------------
(* A small instance of Registry for TLC.                                   *)
EXTENDS Registry, TLC

Symmetry == Permutations(Slots) \cup Permutations(Users \ {FirstWorker})
            \cup Permutations(Members) \cup Permutations(Assignments)
            \cup Permutations(Usernames)

=============================================================================
