----------------------------- MODULE MCRtcReport ----------------------------
(* Model-checking instance of RtcReport: numbers modulo 6 that wrap at the *)
(* third packet, a compact time of 3 units per second that wraps after     *)
(* four seconds, and starts on both sides of that wrap.                    *)
EXTENDS RtcReport

(* The ring, the numbers, the SR/RR times and the RRT/DLRR times share     *)
(* nothing but the clock, so each is explored over a network of its own.   *)
MCLinks == {[sent |-> 8, rtp |-> FALSE, rtcp |-> {"nack"}],
            [sent |-> 5, rtp |-> TRUE, rtcp |-> {}],
            [sent |-> 1, rtp |-> TRUE, rtcp |-> {"sr", "rr", "pli"}],
            [sent |-> 0, rtp |-> FALSE, rtcp |-> {"rrt", "dlrr"}]}
=============================================================================
