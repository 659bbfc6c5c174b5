---------------------------- MODULE MCAuthSession ----------------------------
(* Small instances of AuthSession for TLC.                                 *)
EXTENDS AuthSession, TLC

\* Slots are interchangeable: no action tells one from another.
Symmetry == Permutations(Requests)

=============================================================================
