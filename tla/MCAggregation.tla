---------------------------- MODULE MCAggregation ----------------------------
(* Aggregation for TLC: up to four samples at seven times around the start   *)
(* time of the aggregation, of which some lie on a border of intervals, and  *)
(* intervals of either sign.                                                 *)
EXTENDS Aggregation

MCValues == {-2, 4}
MCIntervals == {-2, 0, 2, 3}
=============================================================================
