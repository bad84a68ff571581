--------------------------- MODULE MCEventClient ---------------------------
(* Model-checking instances of the event client: events below and above the  *)
(* higher severity limit, with and without a source.  Reads are              *)
(* interchangeable.                                                          *)
EXTENDS EventClient

CONSTANTS e1, n1, t1

MCSeverity == [e \in EventIds |-> IF e = e1 THEN 1 ELSE 2]
MCOfItem == {[source |-> n1, time |-> t1]}
MCAnyOrigin == Origins
ReadSymmetry == Permutations(ReadSlots)
=============================================================================
