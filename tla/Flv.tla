--------------------------------- MODULE Flv --------------------------------
(***************************************************************************)
(* FlvDemuxer (flv_demux.cpp): parts of an FLV file go into buffer_ as     *)
(* they are read, HandlePacket takes one tag.  A file is a sequence of     *)
(* parts, which the demuxer asks for as a whole: the file header, the      *)
(* header of a tag, the data of a tag.  A session is a record; HandlePacket*)
(* returns it with the packets for the sinkers and the return code.        *)
(*                                                                         *)
(* FlvMuxer (flv_mux.cpp): media packets in, FLV tags out.  x.out collects *)
(* the tags.                                                               *)
(***************************************************************************)
EXTENDS MediaPacket

CONSTANT ExtraMax       \* 512: an H.264 sequence header of this size is not taken apart

ASSUME FlvDemuxConstants == ExtraMax \in Nat

(* A tag: what its first bytes say, its timestamps and its data.  kind is  *)
(* "video", "audio", "meta" or "other"; size counts the data after the     *)
(* media header.                                                           *)
Tag(kind, codec, key, seq, dts, cts, data) ==
  [kind |-> kind, codec |-> codec, key |-> key, seq |-> seq, dts |-> dts, cts |-> cts,
   data |-> data]

FileHeader == [p |-> "file"]
TagParts(tag) == <<[p |-> "head", tag |-> tag], [p |-> "data"]>>

FlvDemuxInit ==
  [buffer_ |-> <<>>, flv_header_ready_ |-> FALSE, tag_header_ready_ |-> FALSE,
   tag |-> [kind |-> "none"]]

Ok(d, pkts) == [d |-> d, pkts |-> pkts, ret |-> "ok"]
NeedMore(d) == [d |-> d, pkts |-> <<>>, ret |-> "more"]

Consumed(d) == [d EXCEPT !.buffer_ = Tail(@), !.tag_header_ready_ = FALSE]

(* A sequence header of H.264 is handed on as two packets, one of H.265    *)
(* as it is; both return before the tag is taken out of the buffer.        *)
SeqHeader(d) ==
  LET t == d.tag
      Part(u) == Packet("video", t.codec, TRUE, FALSE, t.dts, t.dts + t.cts, u)
      units == Avcc2Nalus(t.data)
  IN  Ok(d, IF t.codec = "h264" THEN [j \in DOMAIN units |-> Part(units[j])]
            ELSE <<Part(t.data)>>)

(* A frame: one packet for each unit, marked by its own type where that is *)
(* a parameter set or a key frame and by the tag otherwise.  A sequence    *)
(* header that was not taken apart comes here too: Avcc2Nalus reads its    *)
(* first bytes as a length above kMaxLen and gives up.                     *)
VideoFrame(d) ==
  LET t == d.tag
      units == Avcc2Nalus(t.data)
      Mark(u) == Packet("video", t.codec, IsSps(u) \/ IsPps(u),
                        IF IsSps(u) \/ IsPps(u) THEN FALSE ELSE t.key \/ IsKeyFrame(u),
                        t.dts, t.dts + t.cts, u)
      Whole == Packet("video", t.codec, t.seq, t.key, t.dts, t.dts + t.cts, t.data)
  IN  Ok(Consumed(d),
         IF t.codec = "h264" /\ t.seq THEN <<>>
         ELSE IF t.codec \in {"h264", "h265"} THEN [j \in DOMAIN units |-> Mark(units[j])]
         ELSE IF t.data = <<>> THEN <<>> ELSE <<Whole>>)

(* Audio.  An unknown codec leaves the tag in the buffer.  The config of   *)
(* AAC is parsed with two bytes less than it has, which an assertion of    *)
(* GetAudioInfoByAsc refuses unless there are two more.                    *)
AudioFrame(d) ==
  LET t == d.tag
      pkt == [Packet("audio", t.codec, t.seq, ~t.seq, t.dts, t.dts, t.data) EXCEPT
                !.has_flv_audio_asc_ = t.seq /\ t.codec = "aac"]
  IN  IF t.codec \notin {"aac", "opus", "mp3"} THEN [d |-> d, pkts |-> <<>>, ret |-> "error"]
      ELSE IF t.codec = "aac" /\ t.seq /\ Len(t.data) \in 1..3
           THEN [d |-> d, pkts |-> <<>>, ret |-> "abort"]
      ELSE Ok(Consumed(d), IF t.data = <<>> THEN <<>> ELSE <<pkt>>)

(* DecodeMetaData: the values are reported and go on as metadata_.         *)
DecodeMetaData(t) == Packet("meta", "none", FALSE, FALSE, t.dts, t.dts, t.data)

(* Mutant of OtherTag: a tag of another type stays in the buffer.          *)
OtherTagKeep(d) ==
  IF d.tag.kind = "meta"
  THEN Ok(Consumed(d), <<DecodeMetaData(d.tag)>>)
  ELSE Ok(d, <<>>)

(* Metadata is decoded, reported and handed on; a tag of another type is   *)
(* skipped.                                                                *)
OtherTag(d) ==
  Ok(Consumed(d), IF d.tag.kind = "meta" THEN <<DecodeMetaData(d.tag)>> ELSE <<>>)

IsSeqHeader(t) ==
  /\ t.kind = "video" /\ t.seq
  /\ t.codec = "h265" \/ (t.codec = "h264" /\ Len(t.data) < ExtraMax)

(* The header of the file, and the header of a tag, once for each.         *)
TakeFileHeader(d) ==
  IF d.flv_header_ready_ THEN d ELSE [d EXCEPT !.buffer_ = Tail(@), !.flv_header_ready_ = TRUE]
TakeTagHeader(d) ==
  IF d.tag_header_ready_ THEN d
  ELSE [d EXCEPT !.tag_header_ready_ = TRUE, !.tag = Head(d.buffer_).tag, !.buffer_ = Tail(@)]

HandlePacket(d) ==
  LET filed == TakeFileHeader(d)
      headed == TakeTagHeader(filed)
  IN  IF d.buffer_ = <<>> THEN NeedMore(d)
      ELSE IF filed.buffer_ = <<>> THEN NeedMore(filed)
      ELSE IF headed.buffer_ = <<>> THEN NeedMore(headed)
      ELSE CASE IsSeqHeader(headed.tag) -> SeqHeader(headed)
             [] headed.tag.kind = "video" /\ ~IsSeqHeader(headed.tag) -> VideoFrame(headed)
             [] headed.tag.kind = "audio" -> AudioFrame(headed)
             [] OTHER -> OtherTag(headed)

-----------------------------------------------------------------------------
CONSTANT FlvTsMod       \* 2^24: the extended timestamp is always written as 0

ASSUME FlvMuxConstants == FlvTsMod \in Nat \ {0}

FlvMuxInit ==
  [sps_ |-> <<>>, pps_ |-> <<>>, first_video_ |-> FALSE, header_ready_ |-> FALSE,
   headless |-> FALSE, out |-> <<>>]

(* InputPacket: a tag for every medium and codec that FLV has.  The file   *)
(* header goes out with the first packet, or not at all if FLV has no tag  *)
(* for that one.                                                           *)
WriteTag(x, p) ==
  LET known == \/ p.av_type_ = "video" /\ p.codec_type_ \in {"h264", "h265", "vp8"}
               \/ p.av_type_ = "audio" /\ p.codec_type_ \in {"aac", "opus"}
               \/ p.av_type_ = "meta"
      cts == IF p.pts_ > p.dts_ THEN p.pts_ - p.dts_ ELSE 0
      tag == Tag(p.av_type_, p.codec_type_, p.is_key_frame_ \/ p.is_seq_hdr_, p.is_seq_hdr_,
                 p.dts_ % FlvTsMod, IF p.av_type_ = "video" THEN cts ELSE 0, p.data)
  IN  [x EXCEPT !.header_ready_ = TRUE, !.headless = @ \/ (~x.header_ready_ /\ ~known),
                !.out = IF known THEN Append(@, tag) ELSE @]

(* Mutant of SourceData: the sequence header is written once only.         *)
SourceDataOnce(x, p) ==
  LET u == p.data
      header == [p EXCEPT !.is_seq_hdr_ = TRUE, !.is_key_frame_ = FALSE,
                          !.data = ToAvcc(x.sps_) \o ToAvcc(x.pps_)]
      headed == IF ~x.first_video_
                THEN WriteTag([x EXCEPT !.first_video_ = TRUE], header) ELSE x
  IN  IF p.av_type_ # "video" THEN WriteTag(x, p)
      ELSE IF IsSps(u) THEN [x EXCEPT !.sps_ = u]
      ELSE IF IsPps(u) THEN [x EXCEPT !.pps_ = u]
      ELSE IF x.sps_ = <<>> \/ x.pps_ = <<>> THEN x
      ELSE WriteTag(headed, [p EXCEPT !.data = ToAvcc(u)])

(* SourceData: parameter sets are kept; a sequence header with them goes   *)
(* before every key frame and before the first frame.                      *)
SourceData(x, p) ==
  LET u == p.data
      header == [p EXCEPT !.is_seq_hdr_ = TRUE, !.is_key_frame_ = FALSE,
                          !.data = ToAvcc(x.sps_) \o ToAvcc(x.pps_)]
      headed == IF IsKeyFrame(u) \/ ~x.first_video_
                THEN WriteTag([x EXCEPT !.first_video_ = TRUE], header) ELSE x
  IN  IF p.av_type_ # "video" THEN WriteTag(x, p)
      ELSE IF IsSps(u) THEN [x EXCEPT !.sps_ = u]
      ELSE IF IsPps(u) THEN [x EXCEPT !.pps_ = u]
      ELSE IF x.sps_ = <<>> \/ x.pps_ = <<>> THEN x
      ELSE WriteTag(headed, [p EXCEPT !.data = ToAvcc(u)])
=============================================================================
