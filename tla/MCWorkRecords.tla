---------------------------- MODULE MCWorkRecords ----------------------------
(* Small instances of WorkRecords for TLC.                                 *)
EXTENDS WorkRecords, TLC

\* Slots and instants are interchangeable.
Symmetry == Permutations(Requests) \cup Permutations(Times)

=============================================================================
