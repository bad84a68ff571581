---------------------------- MODULE MCTimedData ----------------------------
(* Model-checking instance of the time series: observers that ask for its    *)
(* start, its end or all of it.                                              *)
EXTENDS TimedData

MCRanges == {<<0, 1>>, <<2, 3>>, <<0, 3>>}
=============================================================================
