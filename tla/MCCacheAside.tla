---------------------------- MODULE MCCacheAside ----------------------------
(* Small instances of CacheAside for TLC: one company, one standard of it. *)
EXTENDS CacheAside

MCCompanyOf == [s \in Standards |-> CHOOSE c \in Companies : TRUE]

=============================================================================
