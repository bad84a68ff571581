--------------------------- MODULE MCNodeFetcher ---------------------------
(***************************************************************************)
(* The node fetcher for TLC: an object of a type that is declared with one *)
(* property.  The type and its property depend on each other; the object   *)
(* refers to its type, and the data type of the property refers back to    *)
(* the object.                                                             *)
(***************************************************************************)
EXTENDS NodeFetcher

MCIds == {"root", "object", "type", "property"}

None == [n \in MCIds |-> {}]

MCChildren == [None EXCEPT !["type"] = {"property"}]
MCForward == [None EXCEPT !["object"] = {"type"}]
MCInverse == [None EXCEPT !["type"] = {"object"}]
MCParents == [None EXCEPT !["object"] = {"root"}, !["type"] = {"root"},
                          !["property"] = {"type"}]
MCDataTypes == [None EXCEPT !["property"] = {"object"}]
MCStatuses == {{"NodeOnly"}, {"NodeOnly", "ChildrenOnly"}}
=============================================================================
