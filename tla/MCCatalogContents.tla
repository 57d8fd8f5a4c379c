-------------------------- MODULE MCCatalogContents --------------------------
(***************************************************************************)
(* Instance of CatalogContents: two workers, and a list whose changes the  *)
(* version does not count.  Only a catalog that sets                       *)
(* catalogContentsAttachIndependent promises that it counts all that its   *)
(* contents depend on (catalog/interface.ts:585-595).                      *)
(***************************************************************************)
EXTENDS CatalogContents, TLC

MCSymmetry == Permutations(Clients) \cup Permutations(Workers)
=============================================================================
