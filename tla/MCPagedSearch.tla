--------------------------- MODULE MCPagedSearch ----------------------------
(* A small instance of PagedSearch for TLC.                                *)
EXTENDS PagedSearch

=============================================================================
