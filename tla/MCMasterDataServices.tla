------------------------ MODULE MCMasterDataServices -------------------------
(* Model-checking instance of the services facade: two servers, of which one *)
(* offers no monitored items.                                                *)
EXTENDS MasterDataServices, TLC

CONSTANTS live, bare

MCSessions == {live, bare}
MCWithItems == {live}
MCSymmetry == Permutations(Items) \cup Permutations(Notifiers)
=============================================================================
