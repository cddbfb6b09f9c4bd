----------------------------- MODULE RtmpMedia -----------------------------
(***************************************************************************)
(* What RtmpPublish makes of media packets, the RTMP message as the other  *)
(* side reads it, and what RtmpPlay hands to its sinkers                   *)
(* (rtmp_publish.cpp, rtmp_session_base.cpp, rtmp_play.cpp).  Units are    *)
(* those of MediaPacket; the transport is RtmpChunk.                       *)
(***************************************************************************)
EXTENDS MediaPacket, Integers

MinVideoLen == 2      \* data_len < 5: a start code with nothing behind it

(* The messages out holds: video and audio tags without the FLV framing.   *)
Message(type, codec, key, seq, dts, cts, data) ==
  [type |-> type, codec |-> codec, key |-> key, seq |-> seq, dts |-> dts,
   cts |-> cts, data |-> data]

-----------------------------------------------------------------------------
(* RtmpPublish                                                             *)

PublishInit == [sps_ |-> <<>>, pps_ |-> <<>>, first_video_ |-> FALSE, out |-> <<>>]

(* get_video_extradata                                                     *)
get_video_extradata(pps, sps) == <<[sps |-> sps, pps |-> pps]>>

(* SendVideo; key frames and sequence headers carry the key flag, and a    *)
(* sequence header is told by its packet type.                             *)
SendVideo(x, p) ==
  IF p.codec_type_ \notin {"h264", "h265", "vp8", "vp9"} THEN x
  ELSE [x EXCEPT !.out = Append(@,
         Message("video", p.codec_type_, p.is_key_frame_ \/ p.is_seq_hdr_, p.is_seq_hdr_,
                 p.dts_, IF p.pts_ > p.dts_ THEN p.pts_ - p.dts_ ELSE 0, p.data))]

(* One unit of a frame.  flag is what H264_IS_KEYFRAME makes of a byte     *)
(* behind the unit's header, for p was moved before p[nalu_type_pos] is    *)
(* read.                                                                   *)
HandleNalu(x, p, u, flag) ==
  LET header == [p EXCEPT !.is_seq_hdr_ = TRUE, !.is_key_frame_ = FALSE,
                          !.data = get_video_extradata(x.pps_, x.sps_)]
      headed == IF IsKeyFrame(u) \/ ~x.first_video_
                THEN SendVideo([x EXCEPT !.first_video_ = TRUE], header) ELSE x
  IN  CASE IsSps(u) -> [x EXCEPT !.sps_ = u]
        [] IsPps(u) -> [x EXCEPT !.pps_ = u]
        [] IsAud(u) -> x
        [] OTHER -> IF x.sps_ = <<>> \/ x.pps_ = <<>> THEN x
                    ELSE SendVideo(headed, [p EXCEPT !.is_seq_hdr_ = FALSE,
                                      !.is_key_frame_ = flag, !.data = ToAvcc(u)])

(* Mutant of HandleVideoData: the slices of a frame share one message.     *)
HandleVideoDataJoined(x, p, flag) ==
  LET units == AnnexB2Nalus(p.data)
      kept == FoldLeft(LAMBDA y, u : IF IsSps(u) \/ IsPps(u) THEN HandleNalu(y, p, u, flag) ELSE y,
                       x, units)
      slices == SelectSeq(units, LAMBDA u : ~(IsSps(u) \/ IsPps(u) \/ IsAud(u)))
  IN  IF slices = <<>> \/ kept.sps_ = <<>> \/ kept.pps_ = <<>> THEN kept
      ELSE LET y == HandleNalu(kept, p, slices[1], flag)
           IN  [y EXCEPT !.out[Len(y.out)].data =
                  FlattenSeq([i \in DOMAIN slices |-> ToAvcc(slices[i])])]

HandleVideoData(x, p, flag) ==
  IF Len(p.data) < MinVideoLen THEN x
  ELSE FoldLeft(LAMBDA y, u : HandleNalu(y, p, u, flag), x, AnnexB2Nalus(p.data))

HandleAudioData(x, p) ==
  IF p.codec_type_ \notin {"aac", "opus"} THEN x
  ELSE [x EXCEPT !.out = Append(@,
         Message("audio", p.codec_type_, FALSE, p.is_seq_hdr_, p.dts_, 0, p.data))]

(* HandleMediaData, the raw packets.                                       *)
HandleRawData(x, p, flag) ==
  CASE p.av_type_ = "video" -> HandleVideoData(x, p, flag)
    [] p.av_type_ = "audio" -> HandleAudioData(x, p)
    [] OTHER -> x

-----------------------------------------------------------------------------
(* RtmpSessionBase and RtmpPlay                                            *)

(* GetMediaPacket of a message of this publisher.                          *)
GetMediaPacket(m) ==
  Packet(m.type, m.codec, m.seq, m.type = "video" /\ m.key /\ ~m.seq, m.dts, m.dts + m.cts, m.data)

GetSpsPpsFromExtraData(data) == data[1]

(* RtmpPlay::OnMessage: a sequence header becomes two packets, a frame the *)
(* packet of its first unit, audio goes on as it is.                       *)
OnMessage(played, p) ==
  IF p.av_type_ # "video" THEN Append(played, p)
  ELSE IF p.is_seq_hdr_
  THEN LET sets == GetSpsPpsFromExtraData(p.data)
       IN  played \o <<[p EXCEPT !.data = sets.sps], [p EXCEPT !.data = sets.pps]>>
  ELSE LET nalus == Avcc2Nalus(p.data)
       IN  IF nalus = <<>> THEN played ELSE Append(played, [p EXCEPT !.data = nalus[1]])
=============================================================================
