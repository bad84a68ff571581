--------------------------- MODULE MCNodeService ---------------------------
(* Model-checking instance of the node service: a parent with one child, and *)
(* the reference type that links them.                                       *)
EXTENDS NodeService

CONSTANTS parent, child, type

MCNodes == {parent, child, type}
MCParent == [n \in MCNodes |-> IF n = child THEN parent ELSE NoParent]
MCRefers == [n \in MCNodes |-> IF n = child THEN {parent} ELSE {}]
MCTargets == [n \in MCNodes |-> IF n = parent THEN <<child, type>> ELSE <<>>]
\* Views of the parent that want it alone, or with its children.
MCParentViews == [n \in MCNodes |-> IF n = parent THEN {{"node"}, {"node", "children"}} ELSE {}]
MCWants == [n \in MCNodes |-> CASE n = parent -> {{"node", "children"}}
                              [] n = child  -> {{"node"}}
                              [] OTHER      -> {}]
=============================================================================
