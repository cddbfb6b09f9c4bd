--------------------------- MODULE MCVideoReceive ---------------------------
(* Model-checking instance of VideoReceive: PayloadMax = 2, so a unit of   *)
(* length 1 or 2 gives a single packet, 4 two fragments, 8 four.           *)
EXTENDS VideoReceive

Unit(type, len) == [type |-> type, len |-> len]

(* Key frames and slices across the wrap; parameter sets in front of a key *)
(* frame; a delimiter and SEI in between; a unit of four fragments; a unit *)
(* one byte longer than the payload limit, which makes one fragment; two   *)
(* key frames a cycle of numbers apart, so that a fragment of the first    *)
(* that came late over the wrap can take its place in the second.          *)
MCScripts ==
  {<<Unit("idr", 4), Unit("slice", 1), Unit("idr", 4), Unit("slice", 1)>>,
   <<Unit("slice", 1), Unit("idr", 4), Unit("slice", 3), Unit("slice", 1)>>,
   <<Unit("sps", 1), Unit("pps", 1), Unit("slice", 1), Unit("idr", 4), Unit("slice", 1)>>,
   <<Unit("aud", 1), Unit("idr", 2), Unit("sei", 1), Unit("slice", 8)>>,
   <<Unit("slice", 1), Unit("idr", 4), Unit("slice", 6), Unit("idr", 4)>>}
=============================================================================
