--------------------------- MODULE MCJobProcesses ---------------------------
(* A small instance of JobProcesses for TLC.                               *)
EXTENDS JobProcesses, TLC

Symmetry == Permutations(Slots)

=============================================================================
