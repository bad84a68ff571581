-------------------------- MODULE MCTimedDataService --------------------------
(* Two specs that move between a node, an alias that may turn out to be that *)
(* node, an expression over both and one over the alias alone.               *)
EXTENDS TimedDataService, TLC

CONSTANTS n1, a1, e1, e2, s1, s2

TwoExpressions == e1 :> {a1, n1} @@ e2 :> {a1}

Symmetric == Permutations(Specs)
=============================================================================
