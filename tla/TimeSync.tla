------------------------------ MODULE TimeSync ------------------------------
(***************************************************************************)
(* The streamer between mspull and the MPEG-TS muxer that puts audio and   *)
(* video, whose RTP clocks start anywhere, on one time line                *)
(* (timesync/timesync.cpp).  A track is one medium's base_, last_ and      *)
(* output times; audio has no pts of its own.                              *)
(***************************************************************************)
EXTENDS Integers

Track == [base_dts |-> -1, base_pts |-> -1, last |-> -1, dts |-> -1, pts |-> -1]

SyncInit == [video |-> Track, audio |-> Track]

(* How far the other medium has come.  A base of 0 counts as none.         *)
Elapsed(o) == IF o.base_dts > 0 /\ o.last > o.base_dts THEN o.last - o.base_dts ELSE 0

(* The first packet: the base is its time less what the other has played.  *)
FirstPacket(o, dts, pts) ==
  [base_dts |-> dts - Elapsed(o), base_pts |-> pts - Elapsed(o), last |-> dts,
   dts |-> Elapsed(o), pts |-> Elapsed(o)]

(* A time that is not beyond the last output time moves the base so that   *)
(* the output goes on, and the output goes on by 10 ms.                    *)
Reversed(t, dts, pts) ==
  [base_dts |-> dts - t.dts, base_pts |-> pts - t.pts, last |-> dts,
   dts |-> t.dts + 10, pts |-> t.pts + 10]

Handle(t, o, dts, pts) ==
  IF t.base_dts < 0 THEN FirstPacket(o, dts, pts)
  ELSE IF dts <= t.dts THEN Reversed(t, dts, pts)
  ELSE [t EXCEPT !.last = dts, !.dts = dts - t.base_dts, !.pts = pts - t.base_pts]

(* Mutant of HandleVideoPacket: video begins at 0 whatever audio has done. *)
HandleVideoPacketAlone(s, dts, pts) ==
  [s EXCEPT !.video = Handle(s.video, Track, dts, pts)]

HandleVideoPacket(s, dts, pts) ==
  [s EXCEPT !.video = Handle(s.video, s.audio, dts, pts)]

HandleAudioPacket(s, dts) ==
  [s EXCEPT !.audio = Handle(s.audio, s.video, dts, dts)]

(* SourceData: the state, and in its track the times of the packet sent on.*)
SyncSourceData(s, m, dts, pts) ==
  IF m = "video" THEN HandleVideoPacket(s, dts, pts) ELSE HandleAudioPacket(s, dts)
=============================================================================
