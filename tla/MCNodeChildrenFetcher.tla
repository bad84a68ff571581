------------------------ MODULE MCNodeChildrenFetcher ------------------------
(* NodeChildrenFetcher for TLC: three nodes, two of which fit into a Browse. *)
EXTENDS NodeChildrenFetcher

CONSTANTS n1, n2, n3
MCIds == {n1, n2, n3}
=============================================================================
