----------------------------- MODULE Negotiation ----------------------------
(***************************************************************************)
(* SdpTransform (format/sdp/sdp.cpp): a session description as the record  *)
(* its members form, the text it generates and what reading a text line by *)
(* line does to it.  A line is a record of the fields the code reads or    *)
(* writes; k is the prefix ParseLine tells it by.  The random identifiers  *)
(* are model values of the caller; SSRCs keep their order, for             *)
(* ssrc_info_map_ is walked in it.                                         *)
(*                                                                         *)
(* How the media parameters of a WebRTC session are agreed on: the offer   *)
(* PeerConnection builds, the answer it reads (WHIP and WHEP), the RTP     *)
(* parameters MsPush sends in its produce requests and MsPull reads from   *)
(* the consume responses, and the streams created from them.  The server   *)
(* is external: it answers with any parameters of its own, in any of the   *)
(* orders of lines and codecs such servers use.                            *)
(***************************************************************************)
EXTENDS Integers, Sequences, FiniteSets, TLC
LOCAL INSTANCE SequencesExt
LOCAL INSTANCE FiniteSetsExt

Media == {"video", "audio"}
Uris == <<"toffset", "abs-send-time", "video-orientation", "transport-cc",
          "playout-delay", "video-content-type", "video-timing",
          "color-space", "sdes-mid", "rtp-stream-id",
          "repaired-rtp-stream-id", "ssrc-audio-level">>

(* The members as the constructor leaves them.                             *)
NewSdp ==
  [current   |-> "video",
   pt_vec    |-> [m \in Media |-> <<>>],
   rtp_map   |-> [m \in Media |-> <<>>],   \* payload type -> codec
   fmtp_vec  |-> [m \in Media |-> <<>>],
   rtcpfb    |-> [m \in Media |-> <<>>],
   ext_map   |-> <<>>,                     \* id -> URI
   ssrc_info |-> <<>>,                     \* ssrc_info_map_
   video_ssrc |-> 0, video_rtx_ssrc |-> 0, audio_ssrc |-> 0,
   clock_rate |-> [video |-> 90000, rtx |-> 90000, audio |-> 48000],
   channel   |-> 2,
   em        |-> [u \in {Uris[i] : i \in 1..Len(Uris)} |-> -1],
   msid      |-> [m \in Media |-> ""],
   cname     |-> [m \in Media |-> ""],
   mid       |-> [m \in Media |-> -1],
   direction |-> "sendonly",
   session_id |-> "", session_name |-> "",
   local |-> [ufrag |-> "", pwd |-> ""],   \* of dtls_
   ice_infos |-> <<>>, remote_fragment |-> "", remote_pwd |-> ""]

(* The keys of a std::map in the order of its iterator.                    *)
KeysOf(map) == SetToSortSeq(DOMAIN map, <)

(* The first key whose value passes, else def.                             *)
FirstKey(map, Test(_), def) ==
  LET keys == {k \in DOMAIN map : Test(map[k])}
  IN  IF keys = {} THEN def ELSE Min(keys)

(* The field pt of the first element of a vector that passes, else def.    *)
FirstPt(vec, Test(_), def) ==
  LET good == SelectSeq(vec, Test)
  IN  IF good = <<>> THEN def ELSE good[1].pt

-----------------------------------------------------------------------------
(* What the parsed or built description says.                              *)

GetVideoSsrc(s) ==
  FirstKey(s.ssrc_info, LAMBDA i : i.is_video /\ ~i.is_rtx, 0)

GetAudioSsrc(s) == FirstKey(s.ssrc_info, LAMBDA i : ~i.is_video, 0)

GetVideoRtxSsrc(s) ==
  FirstKey(s.ssrc_info, LAMBDA i : i.is_video /\ i.is_rtx, 0)

GetVideoPayloadType(s) ==
  FirstPt(s.fmtp_vec["video"], LAMBDA f : ~f.is_rtx,
    FirstKey(s.rtp_map["video"],
             LAMBDA c : c.codec \in {"H264", "VP8", "VP9"}, -1))

GetVideoRtxPayloadType(s) ==
  FirstPt(s.fmtp_vec["video"], LAMBDA f : f.is_rtx, -1)

GetAudioPayloadType(s) ==
  FirstPt(s.fmtp_vec["audio"], LAMBDA f : TRUE,
    FirstKey(s.rtp_map["audio"], LAMBDA c : c.codec = "opus", -1))

(* A line "nack pli" counts as "nack" does.                                *)
IsNackEnable(s, m) ==
  \E i \in DOMAIN s.rtcpfb[m] : s.rtcpfb[m][i].attr \in {"nack", "nack pli"}

IsVideoRtxEnable(s) ==
  \E i \in DOMAIN s.fmtp_vec["video"] : s.fmtp_vec["video"][i].is_rtx

-----------------------------------------------------------------------------
(* Parsing, one operator per line handler.                                 *)

ParseM(s, l) ==
  IF l.pts = <<>> THEN s
  ELSE [s EXCEPT !.current = l.media, !.pt_vec[l.media] = @ \o l.pts]

(* The clock rate of the last codec read is kept for the whole medium.     *)
ParseRtpMap(s, l) ==
  LET of == IF s.current = "video" /\ l.codec = "rtx" THEN "rtx"
            ELSE s.current
  IN  [s EXCEPT
        !.rtp_map[s.current] = (l.pt :>
           [codec |-> l.codec, clock |-> l.clock, channel |-> l.channel]) @@ @,
        !.clock_rate[of] = l.clock,
        !.channel = IF s.current = "audio" THEN l.channel ELSE @]

(* apt is 0 where the parameters do not name one.                          *)
ParseFmtp(s, l) ==
  [s EXCEPT !.fmtp_vec[s.current] =
     Append(@, [pt |-> l.pt, is_rtx |-> l.apt # 0, apt |-> l.apt])]

ParseRtcpFb(s, l) ==
  [s EXCEPT !.rtcpfb[s.current] = Append(@, [pt |-> l.pt, attr |-> l.attr])]

ParseExtMap(s, l) == [s EXCEPT !.ext_map = (l.id :> l.uri) @@ @]

(* The entry of a new SSRC is not initialised: is_rtx is what was on the   *)
(* stack, TRUE for the SSRCs in junk.  Attributes other than cname and     *)
(* msid make no entry.                                                     *)
ParseSsrcInfo(s, l, junk) ==
  IF l.attr \notin {"cname", "msid"} THEN s
  ELSE LET old == IF l.ssrc \in DOMAIN s.ssrc_info THEN s.ssrc_info[l.ssrc]
                  ELSE [is_rtx |-> l.ssrc \in junk, cname |-> "", msid |-> ""]
       IN  [s EXCEPT !.ssrc_info = (l.ssrc :>
              [is_video |-> s.current = "video", is_rtx |-> old.is_rtx,
               cname |-> IF l.attr = "cname" THEN l.val ELSE old.cname,
               msid  |-> IF l.attr = "msid" THEN l.val ELSE old.msid]) @@ @]

(* Mutant of ParseSsrcGroupFid: the first SSRC is taken for the RTX one.   *)
ParseSsrcGroupFidSwapped(s, l) ==
  IF ~ {l.main, l.slave} \subseteq DOMAIN s.ssrc_info THEN s
  ELSE [s EXCEPT !.ssrc_info[l.main].is_rtx = TRUE,
                 !.ssrc_info[l.slave].is_rtx = FALSE,
                 !.video_ssrc = l.slave, !.video_rtx_ssrc = l.main]

(* A group in front of the lines of its SSRCs changes nothing.             *)
ParseSsrcGroupFid(s, l) ==
  IF l.main \notin DOMAIN s.ssrc_info THEN s
  ELSE LET t == [s EXCEPT !.ssrc_info[l.main].is_rtx = FALSE]
       IN  IF l.slave \notin DOMAIN s.ssrc_info THEN t
           ELSE [t EXCEPT !.ssrc_info[l.slave].is_rtx = TRUE,
                          !.video_ssrc = l.main, !.video_rtx_ssrc = l.slave]

(* a=candidate: once for every address.                                    *)
ParseCandidate(s, l) ==
  LET info == [net |-> l.net, host |-> l.host]
  IN  IF info \in ToSet(s.ice_infos) THEN s
      ELSE [s EXCEPT !.ice_infos = Append(@, info)]

ParseLine(s, l, junk) ==
  CASE l.k = "s" -> [s EXCEPT !.session_name = l.val]
    [] l.k = "o" -> [s EXCEPT !.session_id = l.val]
    [] l.k = "m" -> ParseM(s, l)
    [] l.k = "rtpmap" -> ParseRtpMap(s, l)
    [] l.k = "fmtp" -> ParseFmtp(s, l)
    [] l.k = "rtcp-fb" -> ParseRtcpFb(s, l)
    [] l.k = "extmap" -> ParseExtMap(s, l)
    [] l.k = "ssrc-group" -> ParseSsrcGroupFid(s, l)
    [] l.k = "ssrc" -> ParseSsrcInfo(s, l, junk)
    [] l.k = "candidate" -> ParseCandidate(s, l)
    [] l.k = "ufrag" ->
         IF s.remote_fragment # "" THEN s
         ELSE [s EXCEPT !.remote_fragment = l.val]
    [] l.k = "pwd" ->
         IF s.remote_pwd # "" THEN s ELSE [s EXCEPT !.remote_pwd = l.val]
    [] OTHER -> s

Parse(s, lines, junk) ==
  FoldLeft(LAMBDA t, l : ParseLine(t, l, junk), s, lines)

-----------------------------------------------------------------------------
(* Generating.                                                             *)

Lines(vec, Line(_)) == [i \in DOMAIN vec |-> Line(vec[i])]
Other(name) == <<[k |-> name]>>

(* The user name "-" stands where ParseLine looks for the session id.      *)
GetSessionIdentifier == <<[k |-> "o", val |-> "-"]>>

GetSessionName(s) ==
  <<[k |-> "s",
     val |-> IF s.session_name = "" THEN "cpp_streamer" ELSE s.session_name]>>

GetBasicAttr == Other("extmap-allow") \o Other("msid-semantic") \o Other("group")

GetMediaDesc(s, m) == <<[k |-> "m", media |-> m, pts |-> s.pt_vec[m]]>>

GetRtpMap(s, m) ==
  Lines(KeysOf(s.rtp_map[m]), LAMBDA pt :
    [k |-> "rtpmap", pt |-> pt, codec |-> s.rtp_map[m][pt].codec,
     clock |-> s.rtp_map[m][pt].clock,
     channel |-> IF m = "video" THEN 0 ELSE s.rtp_map[m][pt].channel])

GetFmtp(s, m) ==
  Lines(s.fmtp_vec[m], LAMBDA f : [k |-> "fmtp", pt |-> f.pt, apt |-> f.apt])

GetRtcp(s, m) ==
  Other("rtcp") \o Lines(s.rtcpfb[m], LAMBDA f :
                     [k |-> "rtcp-fb", pt |-> f.pt, attr |-> f.attr])

(* Extensions whose id was set, each medium its own.                       *)
ExtsOf(m) ==
  IF m = "video" THEN SubSeq(Uris, 1, 11)
  ELSE <<"ssrc-audio-level", "abs-send-time", "transport-cc", "sdes-mid">>

GetExtMap(s, m) ==
  Lines(SelectSeq(ExtsOf(m), LAMBDA u : s.em[u] > 0),
        LAMBDA u : [k |-> "extmap", id |-> s.em[u], uri |-> u])

GetMidInfo(s, m) ==
  LET none == IF m = "video" THEN s.mid[m] < 0 ELSE s.mid[m] = 0
  IN  Other("setup") \o (IF none THEN <<>> ELSE Other("mid"))
        \o Other("msid") \o Other("direction")

GetIceInfo(s) ==
  <<[k |-> "ufrag", val |-> s.local.ufrag], [k |-> "pwd", val |-> s.local.pwd]>>
    \o Other("fingerprint") \o Other("ice-options")

SsrcLines(s, Test(_)) ==
  FlattenSeq([i \in 1..Len(KeysOf(s.ssrc_info)) |->
    LET ssrc == KeysOf(s.ssrc_info)[i]
        info == s.ssrc_info[ssrc]
    IN  IF ~Test(info) THEN <<>>
        ELSE <<[k |-> "ssrc", ssrc |-> ssrc, attr |-> "msid", val |-> info.msid],
               [k |-> "ssrc", ssrc |-> ssrc, attr |-> "cname", val |-> info.cname]>>])

(* The video SSRCs come before the RTX ones and their group behind both.   *)
(* The audio SSRC is written a second time, with another cname.            *)
GetSsrcs(s, m, cname) ==
  IF m = "video"
  THEN SsrcLines(s, LAMBDA i : i.is_video /\ ~i.is_rtx)
       \o SsrcLines(s, LAMBDA i : i.is_video /\ i.is_rtx)
       \o <<[k |-> "ssrc-group", main |-> s.video_ssrc, slave |-> s.video_rtx_ssrc]>>
       \o Other("rtcp-mux") \o Other("rtcp-rsize")
  ELSE SsrcLines(s, LAMBDA i : ~i.is_video)
       \o <<[k |-> "ssrc", ssrc |-> s.audio_ssrc, attr |-> "msid", val |-> s.msid["audio"]],
            [k |-> "ssrc", ssrc |-> s.audio_ssrc, attr |-> "cname", val |-> cname]>>
       \o Other("rtcp-mux")

(* GetVideoDesc and GetAudioDesc.                                          *)
GetDesc(s, m, cname) ==
  GetMediaDesc(s, m) \o Other("c") \o GetRtpMap(s, m) \o GetFmtp(s, m)
    \o GetRtcp(s, m) \o GetExtMap(s, m) \o GetMidInfo(s, m) \o GetIceInfo(s)
    \o GetSsrcs(s, m, cname)

(* The text, with the fresh cname it writes for the audio.                 *)
GenSdpString(s, cname) ==
  Other("v") \o GetSessionIdentifier \o GetSessionName(s) \o Other("t")
    \o GetBasicAttr \o GetDesc(s, "video", cname) \o GetDesc(s, "audio", cname)

(* What generating the text leaves behind in the members.                  *)
Generated(s, cname) ==
  [s EXCEPT
     !.session_name = IF @ = "" THEN "cpp_streamer" ELSE @,
     !.video_ssrc = LET v == {k \in DOMAIN s.ssrc_info :
                                s.ssrc_info[k].is_video /\ ~s.ssrc_info[k].is_rtx}
                    IN  IF v = {} THEN @ ELSE Max(v),
     !.video_rtx_ssrc = LET v == {k \in DOMAIN s.ssrc_info :
                                s.ssrc_info[k].is_video /\ s.ssrc_info[k].is_rtx}
                        IN  IF v = {} THEN @ ELSE Max(v),
     !.audio_ssrc = LET v == {k \in DOMAIN s.ssrc_info : ~s.ssrc_info[k].is_video}
                    IN  IF v = {} THEN @ ELSE Max(v),
     !.cname["audio"] = cname]

-----------------------------------------------------------------------------
CONSTANTS
  OwnSsrcs,   \* the SSRCs the offer may draw: triples video, RTX, audio
  Answers,    \* the answers of a WHIP or WHEP server
  Consumes    \* the parameters of a mediasoup consumer

VARIABLES
  role,       \* "whip", "whep", "mspush" or "mspull"
  phase,      \* "new", "offered", "told" or "streaming"
  offer,      \* offer_sdp_
  answer,     \* answer_sdp_
  wire,       \* what went to the server and what it answered
  made        \* the streams created: medium -> parameters

negVars == <<role, phase, offer, answer, wire, made>>

VPLAYLOAD_DEF_TYPE == 106
RTX_PAYLOAD_DEF_TYPE == 107
APLAYLOAD_DEF_TYPE == 111

-----------------------------------------------------------------------------
(* PeerConnection: the offer                                               *)

(* Mutant of ExtIds: two extensions share an id.                           *)
ExtIdsShared == [u \in {Uris[i] : i \in 1..12} |->
                   IF u = "ssrc-audio-level" THEN 9
                   ELSE CHOOSE i \in 1..12 : Uris[i] = u]

(* The id CreateOfferSdp gives each header extension.                      *)
ExtIds == [u \in {Uris[i] : i \in 1..12} |->
             IF u = "ssrc-audio-level" THEN 14
             ELSE CHOOSE i \in 1..12 : Uris[i] = u]

OfferCodecs ==
  [video |-> (VPLAYLOAD_DEF_TYPE :> [codec |-> "H264", clock |-> 90000, channel |-> 0])
             @@ (RTX_PAYLOAD_DEF_TYPE :> [codec |-> "rtx", clock |-> 90000, channel |-> 0]),
   audio |-> (APLAYLOAD_DEF_TYPE :> [codec |-> "opus", clock |-> 48000, channel |-> 2])]

OfferFeedback ==
  [video |-> [i \in 1..5 |-> [pt |-> VPLAYLOAD_DEF_TYPE, attr |->
               <<"goog-remb", "transport-cc", "cmm fir", "nack", "nack pli">>[i]]],
   audio |-> <<[pt |-> APLAYLOAD_DEF_TYPE, attr |-> "transport-cc"]>>]

CreateOfferSdp(x, direction) ==
  LET info(m, rtx) == [is_video |-> m = "video", is_rtx |-> rtx,
                       cname |-> m, msid |-> m]
  IN  [NewSdp EXCEPT
        !.direction = direction,
        !.mid = [video |-> 0, audio |-> 1],
        !.msid = [m \in Media |-> m],
        !.pt_vec = [video |-> <<VPLAYLOAD_DEF_TYPE, RTX_PAYLOAD_DEF_TYPE>>,
                    audio |-> <<APLAYLOAD_DEF_TYPE>>],
        !.rtp_map = OfferCodecs,
        !.fmtp_vec = [video |->
             <<[pt |-> VPLAYLOAD_DEF_TYPE, is_rtx |-> FALSE, apt |-> 0],
               [pt |-> RTX_PAYLOAD_DEF_TYPE, is_rtx |-> TRUE, apt |-> VPLAYLOAD_DEF_TYPE]>>,
             audio |-> <<[pt |-> APLAYLOAD_DEF_TYPE, is_rtx |-> FALSE, apt |-> 0]>>],
        !.rtcpfb = OfferFeedback,
        !.video_ssrc = x.video, !.video_rtx_ssrc = x.rtx, !.audio_ssrc = x.audio,
        !.cname = [m \in Media |-> m],
        !.ssrc_info = (x.video :> info("video", FALSE))
                      @@ (x.rtx :> info("video", TRUE))
                      @@ (x.audio :> info("audio", FALSE)),
        !.em = ExtIds,
        !.local = [ufrag |-> "mine", pwd |-> "secret"]]

(* CreateOfferSdp ends with GenSdpString, which renames the audio.         *)
FreshName == "audio2"

-----------------------------------------------------------------------------
(* PeerConnection: setters and getters on offer_sdp_ or answer_sdp_.       *)

SsrcEntry(s, m, rtx) ==
  [is_video |-> m = "video", is_rtx |-> rtx, cname |-> s.cname[m], msid |-> s.msid[m]]

SetVideoSsrc(s, ssrc) ==
  [s EXCEPT !.ssrc_info = (ssrc :> SsrcEntry(s, "video", FALSE)) @@ @,
            !.video_ssrc = ssrc]

SetVideoRtxSsrc(s, ssrc) ==
  [s EXCEPT !.ssrc_info = (ssrc :> SsrcEntry(s, "video", TRUE)) @@ @,
            !.video_rtx_ssrc = ssrc]

SetAudioSsrc(s, ssrc) ==
  [s EXCEPT !.ssrc_info = (ssrc :> SsrcEntry(s, "audio", FALSE)) @@ @,
            !.audio_ssrc = ssrc]

SetMid(s, m, mid) == [s EXCEPT !.mid[m] = mid]

NotRtx(c) == c.codec # "rtx"
VideoPayload(s) == FirstKey(s.rtp_map["video"], NotRtx, -1)
RtxPayload(s) == FirstKey(s.rtp_map["video"], LAMBDA c : ~NotRtx(c), -1)
AudioPayload(s) == FirstKey(s.rtp_map["audio"], NotRtx, -1)
VideoCodecType(s) == s.rtp_map["video"][VideoPayload(s)].codec
AudioCodecType(s) == s.rtp_map["audio"][AudioPayload(s)].codec
VideoClockRate(s) == s.rtp_map["video"][VideoPayload(s)].clock
AudioClockRate(s) == s.rtp_map["audio"][AudioPayload(s)].clock

SetVideoPayloadType(s, pt) ==
  [s EXCEPT !.rtp_map["video"] =
     (pt :> [codec |-> "H264", clock |-> 90000, channel |-> 0]) @@ @]

(* The parameters of the RTX format are filed under the payload type of    *)
(* the video.                                                              *)
SetVideoRtxPayloadType(s, pt) ==
  [s EXCEPT !.rtp_map["video"] =
              (pt :> [codec |-> "rtx", clock |-> 90000, channel |-> 0]) @@ @,
            !.fmtp_vec["video"] =
              Append(@, [pt |-> VideoPayload(s), is_rtx |-> TRUE, apt |-> pt])]

SetAudioPayloadType(s, pt) ==
  [s EXCEPT !.rtp_map["audio"] =
     (pt :> [codec |-> "opus", clock |-> 48000, channel |-> 2]) @@ @]

(* Only the map learns of the rate, not the members the streams read.      *)
SetVideoClockRate(s, rate) ==
  [s EXCEPT !.rtp_map["video"] =
     [pt \in DOMAIN @ |-> IF NotRtx(@[pt]) THEN [@[pt] EXCEPT !.clock = rate]
                          ELSE @[pt]]]

SetAudioClockRate(s, rate) ==
  [s EXCEPT !.rtp_map["audio"] =
     [pt \in DOMAIN @ |-> [@[pt] EXCEPT !.clock = rate]]]

SetVideoNack(s, pt) ==
  LET fb == [pt |-> pt, attr |-> "nack"]
  IN  IF fb \in ToSet(s.rtcpfb["video"]) THEN s
      ELSE [s EXCEPT !.rtcpfb["video"] = Append(@, fb)]

(* Every payload type whose last feedback is another one gets this one.    *)
SetCCType(s, cc) ==
  LET fbs == s.rtcpfb["video"]
      last(pt) == CHOOSE i \in DOMAIN fbs :
                    fbs[i].pt = pt /\ \A j \in DOMAIN fbs : j > i => fbs[j].pt # pt
      lack == {pt \in {fbs[i].pt : i \in DOMAIN fbs} : fbs[last(pt)].attr # cc}
  IN  [s EXCEPT !.rtcpfb["video"] =
         @ \o Lines(SetToSortSeq(lack, <), LAMBDA pt : [pt |-> pt, attr |-> cc])]

AddRtpExtInfo(s, id, uri) == [s EXCEPT !.ext_map = (id :> uri) @@ @]

-----------------------------------------------------------------------------
(* The streams                                                             *)

NoRtx == [pt |-> -1, ssrc |-> 0]
NoStream == [ssrc |-> 0, pt |-> -1, clock |-> 0, nack |-> FALSE, rtx |-> NoRtx]

(* Mutant of VideoStream: RTX is used without a look at what was agreed.   *)
VideoStreamAnyRtx(s) ==
  IF GetVideoSsrc(s) = 0 THEN NoStream
  ELSE [ssrc |-> GetVideoSsrc(s), pt |-> GetVideoPayloadType(s),
        clock |-> s.clock_rate["video"], nack |-> IsNackEnable(s, "video"),
        rtx |-> [pt |-> GetVideoRtxPayloadType(s) % 256, ssrc |-> GetVideoRtxSsrc(s)]]

(* CreateVideoRecvStream and the video of CreateSendStream(2); the RTX     *)
(* payload type is kept in eight bits.                                     *)
VideoStream(s) ==
  LET rtx == [pt |-> GetVideoRtxPayloadType(s) % 256, ssrc |-> GetVideoRtxSsrc(s)]
  IN  IF GetVideoSsrc(s) = 0 THEN NoStream
      ELSE [ssrc |-> GetVideoSsrc(s), pt |-> GetVideoPayloadType(s),
            clock |-> s.clock_rate["video"], nack |-> IsNackEnable(s, "video"),
            rtx |-> IF IsVideoRtxEnable(s) /\ rtx.pt > 0 /\ rtx.ssrc > 0
                    THEN rtx ELSE NoRtx]

AudioStream(s) ==
  IF GetAudioSsrc(s) = 0 THEN NoStream
  ELSE [ssrc |-> GetAudioSsrc(s), pt |-> GetAudioPayloadType(s),
        clock |-> s.clock_rate["audio"], nack |-> IsNackEnable(s, "audio"),
        rtx |-> NoRtx]

-----------------------------------------------------------------------------
(* MsPush and MsPull                                                       *)

(* Mutant of VideoRtpParameters: RTX is said to repair itself.             *)
VideoRtpParametersSelf(s) ==
  [ssrc |-> s.video_ssrc, rtx_ssrc |-> s.video_rtx_ssrc, mid |-> s.mid["video"],
   pt |-> VideoPayload(s), codec |-> VideoCodecType(s), clock |-> VideoClockRate(s),
   rtx_pt |-> RtxPayload(s), apt |-> RtxPayload(s), cname |-> s.cname["video"],
   fb |-> {s.rtcpfb["video"][i].attr : i \in DOMAIN s.rtcpfb["video"]},
   exts |-> {<<s.em[u], u>> : u \in {"sdes-mid"}}]

(* MsPush::GetVideoRtpParameters                                           *)
VideoRtpParameters(s) ==
  [ssrc |-> s.video_ssrc, rtx_ssrc |-> s.video_rtx_ssrc, mid |-> s.mid["video"],
   pt |-> VideoPayload(s), codec |-> VideoCodecType(s), clock |-> VideoClockRate(s),
   rtx_pt |-> RtxPayload(s), apt |-> VideoPayload(s), cname |-> s.cname["video"],
   fb |-> {s.rtcpfb["video"][i].attr : i \in DOMAIN s.rtcpfb["video"]},
   exts |-> {<<s.em[u], u>> : u \in {"sdes-mid", "rtp-stream-id",
               "repaired-rtp-stream-id", "abs-send-time", "transport-cc",
               "video-orientation", "toffset"}}]

(* MsPush::GetAudioRtpParameters                                           *)
AudioRtpParameters(s) ==
  [ssrc |-> s.audio_ssrc, mid |-> s.mid["audio"],
   pt |-> AudioPayload(s), codec |-> AudioCodecType(s), clock |-> AudioClockRate(s),
   cname |-> s.cname["audio"],
   fb |-> {s.rtcpfb["audio"][i].attr : i \in DOMAIN s.rtcpfb["audio"]},
   exts |-> {<<s.em[u], u>> : u \in {"sdes-mid", "abs-send-time", "transport-cc",
                                     "ssrc-audio-level"}}]

(* One codec of a consume response; its feedback in the order given.       *)
TakeVideoCodec(s, c) ==
  IF c.mime = "rtx" THEN SetVideoRtxPayloadType(s, c.pt)
  ELSE FoldLeft(LAMBDA t, fb : CASE fb = "nack" -> SetVideoNack(t, c.pt)
                                 [] fb \in {"transport-cc", "goog-remb"} -> SetCCType(t, fb)
                                 [] OTHER -> t,
                SetVideoClockRate(SetVideoPayloadType(s, c.pt), c.clock), c.fb)

TakeAudioCodec(s, c) ==
  FoldLeft(LAMBDA t, fb : IF fb \in {"transport-cc", "goog-remb"} THEN SetCCType(t, fb) ELSE t,
           SetAudioClockRate(SetAudioPayloadType(s, c.pt), c.clock), c.fb)

(* MsPull::ParseVideoConsume: the last encoding with an SSRC counts; a     *)
(* missing rtx is the SSRC 0.                                              *)
ParseVideoConsume(s, v) ==
  FoldLeft(LAMBDA t, e : AddRtpExtInfo(t, e[1], e[2]),
    FoldLeft(TakeVideoCodec,
      SetMid(SetVideoRtxSsrc(SetVideoSsrc(s, v.ssrc), v.rtx_ssrc), "video", v.mid),
      v.codecs),
    v.exts)

ParseAudioConsume(s, a) ==
  FoldLeft(LAMBDA t, e : AddRtpExtInfo(t, e[1], e[2]),
    FoldLeft(TakeAudioCodec, SetMid(SetAudioSsrc(s, a.ssrc), "audio", a.mid), a.codecs),
    a.exts)

-----------------------------------------------------------------------------
(* The session                                                             *)

Nothing == [offered |-> <<>>, produced |-> <<>>, server |-> <<>>, junk |-> {}]
NegRoles == {"whip", "whep", "mspush", "mspull"}

NegInit ==
  /\ role \in NegRoles /\ phase = "new"
  /\ offer = NewSdp /\ answer = NewSdp /\ wire = Nothing
  /\ made = [m \in Media |-> NoStream]

(* The text goes to a WHIP or WHEP server only.                            *)
CreateOffer ==
  /\ phase = "new"
  /\ \E x \in OwnSsrcs :
       LET s == CreateOfferSdp(x, IF role \in {"whip", "mspush"}
                                  THEN "sendonly" ELSE "recvonly")
       IN  /\ offer' = Generated(s, FreshName)
           /\ wire' = [wire EXCEPT !.offered = GenSdpString(s, FreshName)]
  /\ phase' = "offered" /\ UNCHANGED <<role, answer, made>>

(* ParseAnswerSdp; an answer without SSRCs is read with those of the offer.*)
(* A send-only side creates its streams from the answer at once, the other *)
(* one when DTLS is up.                                                    *)
ParseAnswer ==
  /\ role \in {"whip", "whep"} /\ phase = "offered"
  /\ \E a \in Answers, junk \in SUBSET {10, 11, 12} :
       LET s == Parse(answer, a.lines, junk)
           t == IF DOMAIN s.ssrc_info = {}
                THEN [s EXCEPT !.ssrc_info = offer.ssrc_info] ELSE s
       IN  /\ (a.ssrcs => role = "whep")
           /\ answer' = t /\ wire' = [wire EXCEPT !.server = a, !.junk = junk]
           /\ made' = [video |-> VideoStream(t), audio |-> AudioStream(t)]
  /\ phase' = "streaming" /\ UNCHANGED <<role, offer>>

(* The produce requests, then CreateSendStream2 from the offer.            *)
Produce ==
  /\ role = "mspush" /\ phase = "offered"
  /\ wire' = [wire EXCEPT !.produced =
                [video |-> VideoRtpParameters(offer), audio |-> AudioRtpParameters(offer)]]
  /\ phase' = "told" /\ UNCHANGED <<role, offer, answer, made>>

Produced ==
  /\ role = "mspush" /\ phase = "told"
  /\ made' = [video |-> VideoStream(offer), audio |-> AudioStream(offer)]
  /\ phase' = "streaming" /\ UNCHANGED <<role, offer, answer, wire>>

(* HandleVideoConsumeResponse, then HandleAudioConsumeResponse.            *)
ConsumeVideo ==
  /\ role = "mspull" /\ phase = "offered"
  /\ \E c \in Consumes :
       LET s == ParseVideoConsume(answer, c.video)
       IN  /\ answer' = s /\ wire' = [wire EXCEPT !.server = c]
           /\ made' = [made EXCEPT !["video"] = VideoStream(s)]
  /\ phase' = "told" /\ UNCHANGED <<role, offer>>

ConsumeAudio ==
  /\ role = "mspull" /\ phase = "told"
  /\ LET s == ParseAudioConsume(answer, wire.server.audio)
     IN  answer' = s /\ made' = [made EXCEPT !["audio"] = AudioStream(s)]
  /\ phase' = "streaming" /\ UNCHANGED <<role, offer, wire>>

NegNext == CreateOffer \/ ParseAnswer \/ Produce \/ Produced \/ ConsumeVideo \/ ConsumeAudio
=============================================================================
