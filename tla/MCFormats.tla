----------------------------- MODULE MCFormats -----------------------------
(***************************************************************************)
(* Small inputs for Formats: SSRCs in every order, answers and consumers   *)
(* in the orders servers use, every handshake offset, short commands,      *)
(* packets with and without extensions and padding, Opus packets of every  *)
(* code, and buffers of a few cells.                                       *)
(***************************************************************************)
EXTENDS Formats
LOCAL INSTANCE SequencesExt

MCOwnSsrcs ==
  {[video |-> 1, rtx |-> 2, audio |-> 3], [video |-> 3, rtx |-> 1, audio |-> 2],
   [video |-> 2, rtx |-> 3, audio |-> 1]}

-----------------------------------------------------------------------------
(* Answers                                                                 *)
L(k, fields) == <<[k |-> k] @@ fields>>
SsrcLine(ssrc) == L("ssrc", [ssrc |-> ssrc, attr |-> "cname", val |-> "srv"])
                  \o L("ssrc", [ssrc |-> ssrc, attr |-> "label", val |-> "x"])
Fid(a) == L("ssrc-group", [main |-> a.ssrc, slave |-> a.rtx_ssrc])

VideoSsrcLines(a) ==
  IF ~a.ssrcs THEN <<>>
  ELSE (IF a.rtx /\ a.fid = "before" THEN Fid(a) ELSE <<>>)
       \o SsrcLine(a.ssrc) \o (IF a.rtx THEN SsrcLine(a.rtx_ssrc) ELSE <<>>)
       \o (IF a.rtx /\ a.fid = "behind" THEN Fid(a) ELSE <<>>)

VideoLines(a) ==
  LET main == L("fmtp", [pt |-> a.pt, apt |-> 0])
      rtx == IF a.rtx THEN L("fmtp", [pt |-> a.rtx_pt, apt |-> a.pt]) ELSE <<>>
  IN  L("m", [media |-> "video", pts |-> <<a.pt>> \o (IF a.rtx THEN <<a.rtx_pt>> ELSE <<>>)])
      \o L("ufrag", [val |-> "theirs"]) \o L("pwd", [val |-> "password"])
      \o L("candidate", [net |-> "udp", host |-> "h"])
      \o L("rtpmap", [pt |-> a.pt, codec |-> "H264", clock |-> 90000, channel |-> 0])
      \o (IF a.rtx THEN L("rtpmap", [pt |-> a.rtx_pt, codec |-> "rtx", clock |-> 90000, channel |-> 0])
          ELSE <<>>)
      \o (IF a.rtx_first THEN rtx \o main ELSE main \o rtx)
      \o L("rtcp-fb", [pt |-> a.pt, attr |-> IF a.rtx THEN "nack" ELSE "nack pli"])
      \o VideoSsrcLines(a)

AudioLines(a) ==
  L("m", [media |-> "audio", pts |-> <<a.audio_pt>>])
    \o L("ufrag", [val |-> "theirs"]) \o L("pwd", [val |-> "password"])
    \o L("candidate", [net |-> "udp", host |-> "h"])
    \o L("rtpmap", [pt |-> a.audio_pt, codec |-> "opus", clock |-> 48000, channel |-> 2])
    \o (IF a.ssrcs THEN SsrcLine(a.audio_ssrc) ELSE <<>>)

AnswerOf(a) ==
  a @@ [lines |-> L("v", [val |-> ""]) \o
          (IF a.video_first THEN VideoLines(a) \o AudioLines(a) ELSE AudioLines(a) \o VideoLines(a))]

MCAnswers ==
  {AnswerOf([pt |-> 106, rtx_pt |-> 107, audio_pt |-> 111, audio_ssrc |-> 12,
             ssrc |-> ids[1], rtx_ssrc |-> ids[2], ssrcs |-> s, rtx |-> r, fid |-> f,
             rtx_first |-> x, video_first |-> v]) :
     ids \in {<<10, 11>>, <<11, 10>>}, s \in BOOLEAN, r \in BOOLEAN,
     f \in {"behind", "before"}, x \in BOOLEAN, v \in BOOLEAN}

-----------------------------------------------------------------------------
(* Consumers                                                               *)
H264Codec(fb) == [mime |-> "H264", pt |-> 101, clock |-> 90000, fb |-> fb]
RtxCodec == [mime |-> "rtx", pt |-> 102, clock |-> 90000, fb |-> <<>>]
MCConsumes ==
  {[video |-> [ssrc |-> ids[1], rtx_ssrc |-> ids[2], mid |-> 0, codecs |-> cs,
               exts |-> <<<<1, "sdes-mid">>, <<4, "abs-send-time">>>>],
    audio |-> [ssrc |-> 12, mid |-> 1, exts |-> <<<<1, "sdes-mid">>>>,
               codecs |-> <<[mime |-> "opus", pt |-> 100, clock |-> 48000, fb |-> <<"transport-cc">>]>>]] :
     ids \in {<<10, 11>>, <<11, 10>>},
     cs \in {<<H264Codec(<<"nack", "nack pli", "transport-cc">>), RtxCodec>>,
             <<RtxCodec, H264Codec(<<"transport-cc", "nack">>)>>,
             <<H264Codec(<<"goog-remb">>)>>}}

-----------------------------------------------------------------------------
(* Commands, connectivity checks                                           *)
Str(v) == Amf!Item(Amf!AMF_STRING, v, <<>>)
Obj(props) == Amf!Item(Amf!AMF_OBJECT, "", props)
Scalar == {Str("publish"), Str(""), Amf!Item(Amf!AMF_LONG_STRING, "long", <<>>),
           Amf!Item(Amf!AMF_NUMBER, "1", <<>>), Amf!Item(Amf!AMF_BOOL, "true", <<>>),
           Amf!Item(Amf!AMF_NULL, "", <<>>), Amf!Item(Amf!AMF_UNDEFINED, "", <<>>)}
Values == Scalar \cup {Obj(<<>>), Obj(<<<<"app", Str("live")>>>>),
                       Obj(<<<<"app", Str("")>>, <<"fpad", Amf!Item(Amf!AMF_BOOL, "false", <<>>)>>>>)}
MCCommands == {<<Str("connect"), a, b, c>> : a \in Values, b \in Values, c \in {Str("live"), Obj(<<<<"app", Str("live")>>>>)}}

MCStunRequests ==
  {[username_len |-> n, password |-> "pwd", priority |-> TRUE, use_candidate |-> TRUE,
    integrity |-> TRUE] : n \in 1..9}

-----------------------------------------------------------------------------
(* RTP packets                                                             *)
ExtBytes == {[x |-> "", b |-> <<>>, e |-> <<>>],
             [x |-> "BEDE", b |-> <<16, 49, 0, 0>>, e |-> 1 :> <<49>>],
             [x |-> "BEDE", b |-> <<0, 34, 1, 2, 3, 16, 49, 0>>, e |-> (2 :> <<1, 2, 3>>) @@ (1 :> <<49>>)],
             [x |-> "1000", b |-> <<3, 2, 7, 8, 0, 1, 0, 0>>, e |-> (3 :> <<7, 8>>) @@ (1 :> <<>>)]}
MCRtpInputs ==
  {LET padding == IF pad = 0 THEN <<>> ELSE [i \in 1..pad |-> IF i = pad THEN pad ELSE 0]
   IN  [payload |-> p, exts |-> x.e,
        pkt |-> [seq |-> seq, ssrc |-> 10, pt |-> 106, cc |-> cc, x |-> x.x, xlen |-> Len(x.b),
                 padding |-> pad > 0,
                 bytes |-> [i \in 1..4 * cc |-> 99]
                           \o (IF x.x = "" THEN <<>> ELSE <<190, 222, 0, Len(x.b) \div 4>> \o x.b)
                           \o p \o padding]] :
     seq \in {0, 255, 256, 65535}, cc \in 0..1, x \in ExtBytes,
     p \in {<<5>>, <<5, 6, 7>>}, pad \in {0, 1, 3}}

-----------------------------------------------------------------------------
(* Frames, Opus packets                                                    *)
Video(units, delay) == [av |-> "video", codec |-> "h264", units |-> units, delay |-> delay]
MCFrames ==
  {Video(<<"sps">>, 0), Video(<<"pps">>, 0), Video(<<"sps", "pps", "idr">>, 0),
   Video(<<"aud", "slice", "slice">>, 1), Video(<<"idr">>, 0), Video(<<"sei", "idr", "idr">>, 2),
   [av |-> "audio", codec |-> "opus", units |-> <<>>, delay |-> 0],
   [av |-> "audio", codec |-> "mp3", units |-> <<>>, delay |-> 0]}

(* A control header in front of a packet, with or without trims.           *)
Control(data, trim) == <<127, 224 + (IF trim THEN 16 ELSE 0), Len(data)>> \o (IF trim THEN <<0, 9>> ELSE <<>>) \o data
Raw == {[data |-> <<252, 1, 2>>, frames |-> <<<<1, 3>>>>, vbr |-> FALSE],
        [data |-> <<253, 1, 2, 3, 4>>, frames |-> <<<<1, 3>>, <<3, 3>>>>, vbr |-> FALSE],
        [data |-> <<254, 2, 1, 2, 3>>, frames |-> <<<<2, 3>>, <<4, 2>>>>, vbr |-> FALSE],
        [data |-> <<255, 3, 1, 2, 3>>, frames |-> <<<<2, 2>>, <<3, 2>>, <<4, 2>>>>, vbr |-> FALSE],
        [data |-> <<255, 66, 1, 1, 2, 0>>, frames |-> <<<<3, 2>>, <<4, 2>>>>, vbr |-> FALSE],
        [data |-> <<255, 130, 1, 1, 2>>, frames |-> <<<<3, 2>>, <<4, 2>>>>, vbr |-> TRUE]}
Moved(r, n) == [i \in DOMAIN r.frames |-> <<r.frames[i][1] + n, r.frames[i][2]>>]
MCOpusPackets ==
  Raw \cup
  {LET a == Control(r.data, t)
       b == Control(s.data, FALSE)
       head == Len(a) - Len(r.data)
   IN  [data |-> a \o b, vbr |-> r.vbr \/ s.vbr,
        frames |-> Moved(r, head) \o Moved(s, Len(a) + 3)] : r \in Raw, s \in Raw, t \in BOOLEAN}

(* Every type, rate and channel configuration, in four bytes and a fifth.  *)
MCAscConfigs ==
  {<<8 * t + i \div 2, 128 * (i % 2) + 8 * c + x, 171, 205, 96>> :
     t \in {0, 1, 2, 3, 4, 5, 29, 31}, i \in 0..15, c \in 0..15, x \in {0, 5}}

-----------------------------------------------------------------------------
(* URLs: up to three parts of a path, a query with the parameters of the   *)
(* mediasoup clients in some orders, slashes in front of it and at the     *)
(* end.  A query is used by web URLs only.                                 *)
MCPorts == [d \in {"80", "8080"} |-> IF d = "80" THEN 80 ELSE 8080]
MCParams ==
  {<<>>, <<<<"roomId", <<"r1">>>>>>, <<<<"userId", <<"u1">>>>, <<"roomId", <<"r1">>>>>>,
   <<<<"roomId", <<"r1">>>>, <<"userId", <<"u", "/", "1">>>>, <<"vpid", <<"v", "=", "1">>>>,
     <<"apid", <<"a1">>>>>>}
QueryText(ps) ==
  FlattenSeq([i \in DOMAIN ps |-> <<IF i = 1 THEN "?" ELSE "&", ps[i][1], "=">> \o ps[i][2]])
UrlOf(scheme, port, segs, ps, slash, end) ==
  [scheme |-> scheme, host |-> "host", port |-> port, segs |-> segs, params |-> ps,
   query |-> QueryText(ps), slash |-> slash /\ ps # <<>>,
   text |-> <<"host">> \o (IF port = "" THEN <<>> ELSE <<":", port>>)
            \o FlattenSeq([i \in DOMAIN segs |-> <<"/", segs[i]>>])
            \o (IF slash /\ ps # <<>> THEN <<"/">> ELSE <<>>) \o QueryText(ps)
            \o (IF end THEN <<"/">> ELSE <<>>)]
MCUrls ==
  {UrlOf(scheme, port, segs, ps, slash, end) :
     scheme \in {"https://", "http://", "rtmp://"}, port \in {"", "80", "8080"},
     segs \in {<<>>, <<"app">>, <<"app", "live">>, <<"app", "x", "live">>}, ps \in MCParams,
     slash \in BOOLEAN, end \in BOOLEAN}

MCSizes == <<10, 14>>
=============================================================================
