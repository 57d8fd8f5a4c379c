------------------------ MODULE MCCatalogPublication ------------------------
(* CatalogPublication on small instances for TLC.                          *)
EXTENDS CatalogPublication, TLC

CONSTANTS k1

\* Made elsewhere: one manifest whose object may have gone missing.
MCForeign == {[id |-> 1, key |-> k1, obj |-> 1, exp |-> 4, ret |-> 4]}
MCNoForeign == {}

Sym == Permutations(Calls) \cup Permutations(Managers)

=============================================================================
