------------------------------- MODULE MpegTs -------------------------------
(***************************************************************************)
(* MpegtsMux (mpegts_mux.cpp): media packets in, transport stream packets  *)
(* out.  A transport packet has TS_DEF_DATALEN atoms after its header:     *)
(* an adaptation field that begins with its length, the PES header and     *)
(* data.  A muxer is a record; m.out collects what TsOutput was given, and *)
(* m.muxed (history) the PES packets in the order of WritePes.             *)
(*                                                                         *)
(* MpegtsDemux (mpegts_demux.cpp): transport packets in, media packets     *)
(* out.  All streams share one buffer; a PES packet is handed on when the  *)
(* next one of any stream begins.  d.out collects what Output was given,   *)
(* d.taken (history) the PES packets as OnCallback got them.               *)
(***************************************************************************)
EXTENDS MediaPacket, Integers

CONSTANTS
  TS_DEF_DATALEN,  \* atoms after the header of a transport packet
  PcrLen,          \* atoms of the adaptation field with a PCR
  WaitMax,         \* 30: packets that wait for the other medium
  PatInterval      \* patpmt_interval_

ASSUME TsMuxConstants ==
  /\ TS_DEF_DATALEN \in Nat /\ PcrLen \in Nat \ {0, 1} /\ WaitMax \in Nat
  /\ PatInterval \in Nat /\ TS_DEF_DATALEN > PcrLen + 3

TsMuxInit ==
  [ready_ |-> FALSE, video_ready_ |-> FALSE, audio_ready_ |-> FALSE,
   wait_queue_ |-> <<>>, last_patpmt_ts_ |-> -1, video_codec_type_ |-> "h264",
   audio_codec_type_ |-> "aac", sps_ |-> <<>>, pps_ |-> <<>>, keyframe_ready_ |-> FALSE,
   aac_ready |-> FALSE, out |-> <<>>, muxed |-> <<>>]

TsOutput(m, packet) == [m EXCEPT !.out = Append(@, packet)]

(* The tables: the program table names both streams, whether they exist or *)
(* not.                                                                    *)
GeneratePat == [pid |-> "pat", start |-> TRUE, adapt |-> FALSE, body |-> <<>>]
GeneratePmt(m) ==
  [pid |-> "pmt", start |-> TRUE, adapt |-> FALSE,
   body |-> <<m.video_codec_type_, m.audio_codec_type_>>]

WritePatPmt(m) == TsOutput(TsOutput(m, GeneratePat), GeneratePmt(m))

-----------------------------------------------------------------------------
(* WritePesHeader: a PTS, and a DTS if it differs (video only).            *)
PesHeader(p) ==
  IF p.av_type_ = "video" /\ p.dts_ # p.pts_
  THEN <<<<"pes", p.pts_>>, <<"pes", p.dts_>>, <<"pes", 0>>>>
  ELSE <<<<"pes", p.pts_>>, <<"pes", 0>>>>

(* AdaptationBufInit: n atoms that say they are n - 1 long.                *)
Stuffing(n) == [i \in 1..n |-> IF i = 1 THEN <<"fill", n - 1>> ELSE <<"fill", 0>>]
PcrField == [i \in 1..PcrLen |-> IF i = 1 THEN <<"fill", PcrLen - 1>> ELSE <<"fill", 0>>]

(* What memcpy finds behind the end of the data.                           *)
Junk(n) == [i \in 1..n |-> <<"junk">>]

(* The first transport packet of a PES packet with `pes` atoms.  With a    *)
(* PCR, stuffing is written after the adaptation field and not into it;    *)
(* if PCR and rest do not fit, the count of stuffing bytes wraps around    *)
(* and no PES header is written at all.                                    *)
FirstPacket(pid, pes, pcr) ==
  LET lead == IF pcr THEN PcrField ELSE <<>>
      room == TS_DEF_DATALEN - Len(lead)
      full == Len(pes) >= TS_DEF_DATALEN
      body == IF full THEN lead \o SubSeq(pes, 1, room)
              ELSE IF Len(pes) <= room
              THEN lead \o Stuffing(room - Len(pes)) \o pes
              ELSE lead \o Stuffing(room)
  IN  [pid |-> pid, start |-> TRUE, adapt |-> pcr \/ ~full, body |-> body]

(* Mutant of NextPacket: the last packet is not filled up.                 *)
NextPacketBare(pid, part) ==
  [pid |-> pid, start |-> FALSE, adapt |-> FALSE, body |-> part]

(* A later one, for the last atoms of the PES packet or for as many as fit.*)
NextPacket(pid, part) ==
  [pid |-> pid, start |-> FALSE, adapt |-> Len(part) < TS_DEF_DATALEN,
   body |-> Stuffing(TS_DEF_DATALEN - Len(part)) \o part]

WritePes(m, p) ==
  LET pid == p.av_type_
      header == PesHeader(p)
      pes == header \o p.data
      pcr == pid = "video" /\ p.is_key_frame_
      room == TS_DEF_DATALEN - (IF pcr THEN PcrLen ELSE 0)
      wrapped == pcr /\ Len(pes) > room /\ Len(pes) < TS_DEF_DATALEN
      rest == IF wrapped THEN p.data \o Junk(Len(header)) ELSE SubSeq(pes, room + 1, Len(pes))
      count == (Len(rest) + TS_DEF_DATALEN - 1) \div TS_DEF_DATALEN
      Later == [j \in 1..count |->
                  NextPacket(pid, SubSeq(rest, (j - 1) * TS_DEF_DATALEN + 1,
                     IF j = count THEN Len(rest) ELSE j * TS_DEF_DATALEN))]
  IN  [m EXCEPT !.out = @ \o <<FirstPacket(pid, pes, pcr)>> \o Later,
                !.muxed = Append(@, [pid |-> pid, dts |-> p.dts_, pts |-> p.pts_, data |-> p.data])]

-----------------------------------------------------------------------------
(* The access unit delimiter and the ADTS header, one atom each.           *)
MakeAdts == <<"adts">>
Aud == Unit("aud", 0, 1)

(* One unit of a frame: an access unit delimiter is dropped, parameter     *)
(* sets are kept, others wait for the first key frame, which carries the   *)
(* parameter sets.                                                         *)
HandleUnit(m, p, u) ==
  LET params == IF IsKeyFrame(u) THEN m.sps_ \o m.pps_ ELSE <<>>
      seen == [m EXCEPT !.keyframe_ready_ = @ \/ IsKeyFrame(u)]
  IN  CASE IsAud(u) -> m
        [] IsSps(u) -> [m EXCEPT !.sps_ = u]
        [] IsPps(u) -> [m EXCEPT !.pps_ = u]
        [] OTHER -> IF seen.keyframe_ready_
                    THEN WritePes(seen, [p EXCEPT !.data = Aud \o params \o u])
                    ELSE seen

(* HandleH264, for packets in Annex B notation (is_annexb_).               *)
HandleH264(m, p) == FoldLeft(LAMBDA s, u : HandleUnit(s, p, u), m, AnnexB2Nalus(p.data))

(* HandleH265 keeps the parameter sets of a header.  Of a frame it reads   *)
(* lengths where the demuxer wrote start codes, and gives up.              *)
HandleH265(m, p) == IF p.is_seq_hdr_ THEN [m EXCEPT !.sps_ = p.data] ELSE m

HandleVideo(m, p) ==
  CASE p.codec_type_ = "h264" -> HandleH264(m, p)
    [] p.codec_type_ = "h265" -> HandleH265(m, p)
    [] p.codec_type_ = "vp8" -> WritePes(m, p)
    [] OTHER -> m

(* An AAC header gives the parameters of the ADTS headers that the frames  *)
(* get.                                                                    *)
HandleAudioAac(m, p) ==
  CASE p.is_seq_hdr_ /\ p.has_flv_audio_asc_ ->
         [m EXCEPT !.aac_ready = TRUE, !.audio_codec_type_ = "aac"]
    [] ~(p.is_seq_hdr_ /\ p.has_flv_audio_asc_) /\ m.aac_ready ->
         WritePes(m, [p EXCEPT !.data = <<MakeAdts>> \o @])
    [] OTHER -> m

HandleAudio(m, p) ==
  CASE p.codec_type_ = "opus" -> WritePes(m, p)
    [] p.codec_type_ = "aac" -> HandleAudioAac(m, p)
    [] OTHER -> m

HandleMux(m, p) ==
  CASE p.av_type_ = "video" -> HandleVideo([m EXCEPT !.video_codec_type_ = p.codec_type_], p)
    [] p.av_type_ = "audio" -> HandleAudio([m EXCEPT !.audio_codec_type_ = p.codec_type_], p)
    [] OTHER -> m

(* InputPacket: packets wait until both media were seen, or WaitMax of     *)
(* them wait; then tables and packets are written.                         *)
InputPacket(m, p) ==
  LET waits == ~m.ready_ /\ ~(m.video_ready_ /\ m.audio_ready_) /\ Len(m.wait_queue_) < WaitMax
      due == m.last_patpmt_ts_ < 0 \/ p.dts_ - m.last_patpmt_ts_ >= PatInterval
      begun == [m EXCEPT !.ready_ = TRUE, !.wait_queue_ = <<>>]
      tables == IF due THEN [WritePatPmt(begun) EXCEPT !.last_patpmt_ts_ = p.dts_]
                ELSE begun
  IN  CASE p.av_type_ = "meta" -> m
        [] p.av_type_ # "meta" /\ waits ->
             [m EXCEPT !.wait_queue_ = Append(@, p),
                       !.video_ready_ = @ \/ p.av_type_ = "video",
                       !.audio_ready_ = @ \/ p.av_type_ = "audio",
                       !.video_codec_type_ = IF p.av_type_ = "video" THEN p.codec_type_ ELSE @,
                       !.audio_codec_type_ = IF p.av_type_ = "audio" THEN p.codec_type_ ELSE @]
        [] OTHER -> FoldLeft(HandleMux, tables, Append(m.wait_queue_, p))

-----------------------------------------------------------------------------
CONSTANT TsLimit        \* 2^31 / 90: PTS and DTS are put together in an int

ASSUME TsDemuxConstants == TsLimit \in Nat \ {0}

TsDemuxInit ==
  [pat |-> FALSE, pmt |-> <<>>, data_buffer_vec |-> <<>>, last_pid |-> "none",
   last_dts |-> 0, last_pts |-> 0, out |-> <<>>, taken |-> <<>>]

(* GetMediaInfoByStreamtype knows three stream types, GetMediaInfoByPid    *)
(* private data of Opus besides; VP8 and VP9 have none.                    *)
StreamTypes == {"h264", "h265", "aac"}
MediaInfo(d, pid) ==
  LET codec == IF pid = "video" THEN d.pmt[1] ELSE d.pmt[2]
  IN  IF codec \in StreamTypes \cup {"opus"} THEN <<pid, codec>> ELSE <<"unknown", "unknown">>

(* The packets made of one PES packet: of H.264 its units without empty    *)
(* ones and delimiters, of Opus its frames (an Opus header is not one).    *)
Media(d, pes) ==
  LET info == MediaInfo(d, pes.pid)
      units == SelectSeq(AnnexB2Nalus(pes.data), LAMBDA u : ~IsEmpty(u) /\ ~IsAud(u))
      Of(seq, key, data) == Packet(info[1], info[2], seq, key, pes.dts, pes.pts, data)
  IN  CASE info[1] = "video" -> [j \in DOMAIN units |->
             Of(IsSps(units[j]) \/ IsPps(units[j]), IsKeyFrame(units[j]), units[j])]
        [] info[2] = "opus" /\ pes.data[1][1] = "opushead" -> <<>>
        [] OTHER -> <<Of(FALSE, FALSE, pes.data)>>

(* Mutant of OnCallback: the buffer is kept.                               *)
OnCallbackKeep(d) ==
  LET pes == [pid |-> d.last_pid, dts |-> d.last_dts, pts |-> d.last_pts,
              data |-> d.data_buffer_vec]
  IN  IF d.data_buffer_vec = <<>> THEN d
      ELSE [d EXCEPT !.out = @ \o Media(d, pes), !.taken = Append(@, pes)]

OnCallback(d) ==
  LET pes == [pid |-> d.last_pid, dts |-> d.last_dts, pts |-> d.last_pts,
              data |-> d.data_buffer_vec]
  IN  IF d.data_buffer_vec = <<>> THEN d
      ELSE [d EXCEPT !.data_buffer_vec = <<>>, !.out = @ \o Media(d, pes),
                     !.taken = Append(@, pes)]

InsertIntoDatabuf(d, pid, data) ==
  IF data = <<>> THEN d ELSE [d EXCEPT !.last_pid = pid, !.data_buffer_vec = @ \o data]

(* A timestamp whose bit 31 is set becomes a huge one.                     *)
ReadTs(ts) == IF ts < TsLimit THEN ts ELSE ts + TsLimit * TsLimit

(* PesParse: how many atoms the header has, 0 if there is none.            *)
PesHeaderLen(payload) ==
  LET n == Len(SelectSeq(payload, LAMBDA a : a[1] = "pes"))
  IN  IF payload # <<>> /\ payload[1][1] = "pes" THEN n ELSE 0

(* Mutant of BeginPes: the timestamps are set before the packet with the   *)
(* old ones is handed on.                                                  *)
BeginPesEarly(d, pid, payload) ==
  LET n == PesHeaderLen(payload)
      pts == ReadTs(payload[1][2])
      dts == IF n = 3 THEN ReadTs(payload[2][2]) ELSE 0
      done == OnCallback([d EXCEPT !.last_pts = pts, !.last_dts = IF dts = 0 THEN pts ELSE dts])
  IN  IF n = 0 THEN [d |-> OnCallback(d), ret |-> "error"]
      ELSE [ret |-> "ok", d |-> InsertIntoDatabuf(done, pid, SubSeq(payload, n + 1, Len(payload)))]

(* The start of a PES packet: the one before is complete.  A DTS of zero   *)
(* counts as none.                                                         *)
BeginPes(d, pid, payload) ==
  LET done == OnCallback(d)
      n == PesHeaderLen(payload)
      pts == ReadTs(payload[1][2])
      dts == IF n = 3 THEN ReadTs(payload[2][2]) ELSE 0
  IN  IF n = 0 THEN [d |-> done, ret |-> "error"]
      ELSE [ret |-> "ok",
            d |-> InsertIntoDatabuf([done EXCEPT !.last_pts = pts,
                                                 !.last_dts = IF dts = 0 THEN pts ELSE dts],
                                    pid, SubSeq(payload, n + 1, Len(payload)))]

(* What follows the adaptation field, which begins with its length.        *)
Payload(packet) ==
  SubSeq(packet.body, 1 + (IF packet.adapt THEN 1 + packet.body[1][2] ELSE 0), Len(packet.body))

(* The tables: a program table counts once the association table named it. *)
DecodePat(d) == [d EXCEPT !.pat = TRUE]
DecodePmt(d, body) == IF d.pat THEN [d EXCEPT !.pmt = body] ELSE d

(* A packet of a stream that the program table names.                      *)
DecodePes(d, packet) ==
  IF d.pmt = <<>> THEN [d |-> d, ret |-> "ok"]
  ELSE IF packet.start THEN BeginPes(d, packet.pid, Payload(packet))
  ELSE [d |-> InsertIntoDatabuf(d, packet.pid, Payload(packet)), ret |-> "ok"]

(* DecodeUnit: one transport packet.                                       *)
DecodeUnit(d, packet) ==
  CASE packet.pid = "pat" -> [d |-> DecodePat(d), ret |-> "ok"]
    [] packet.pid = "pmt" -> [d |-> DecodePmt(d, packet.body), ret |-> "ok"]
    [] OTHER -> DecodePes(d, packet)

(* Decode: an error skips the packets that were read with the bad one.     *)
Decode(d, packets) ==
  LET Step(r, packet) == IF r.ret = "error" THEN r ELSE DecodeUnit(r.d, packet)
  IN  FoldLeft(Step, [d |-> d, ret |-> "ok"], packets).d
=============================================================================
