------------------------------- MODULE MCRemux -------------------------------
(* Instance of Remux for TLC.                                              *)
EXTENDS Remux

Shape(kind, codec, key, seq, cts, units) ==
  [kind |-> kind, codec |-> codec, key |-> key, seq |-> seq, cts |-> cts, units |-> units]
Video(key, cts, units) == Shape("video", "h264", key, FALSE, cts, units)

Sps == <<"sps", 1>>
Pps == <<"pps", 1>>

(* A key frame whose parameter sets are in the frame, one that with its    *)
(* parameter sets leaves part of a transport packet free, one with SEI     *)
(* before it; frames of one and of several transport packets; audio with   *)
(* its headers; and what the demuxer or the muxers refuse.                 *)
MCShapes ==
  {Video(TRUE, 0, <<Sps, Pps, <<"idr", 4>>>>),
   Video(TRUE, 0, <<Pps, <<"idr", 4>>>>),
   Video(TRUE, 0, <<<<"sei", 1>>, <<"idr", 3>>>>),
   Video(FALSE, 1, <<<<"slice", 1>>, <<"slice", 6>>>>),
   Shape("video", "h264", TRUE, TRUE, 0, <<Sps, Pps>>),
   Shape("video", "h264", TRUE, TRUE, 0, <<Sps, <<"pps", 4>>>>),
   Shape("video", "h265", FALSE, FALSE, 0, <<<<"slice", 2>>>>),
   Shape("video", "vp8", FALSE, FALSE, 0, <<<<"vp8", 1>>>>),
   Shape("audio", "opus", FALSE, TRUE, 0, <<>>),
   Shape("audio", "opus", FALSE, FALSE, 0, <<<<"opus", 1>>>>),
   Shape("audio", "aac", FALSE, TRUE, 0, <<<<"asc", 2>>>>),
   Shape("audio", "aac", FALSE, TRUE, 0, <<<<"asc", 5>>>>),
   Shape("audio", "aac", FALSE, FALSE, 0, <<<<"aac", 9>>>>),
   Shape("audio", "speex", FALSE, FALSE, 0, <<<<"speex", 1>>>>),
   Shape("meta", "none", FALSE, FALSE, 0, <<<<"meta", 1>>>>),
   Shape("other", "none", FALSE, FALSE, 0, <<<<"other", 1>>>>)}
=============================================================================
