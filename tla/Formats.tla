------------------------------ MODULE Formats ------------------------------
(***************************************************************************)
(* What is written at one end and read at the other: session descriptions  *)
(* and RTP parameters (Negotiation), the RTMP handshake, AMF commands,     *)
(* STUN requests, retransmitted RTP packets, RTMP media messages, Opus     *)
(* access units, AAC headers, audio over RTP, the time line of a pulled    *)
(* stream, URLs, and the byte buffer all of them are kept in.              *)
(* A behaviour is about one of these, its subject; job is the state of the *)
(* two ends.                                                               *)
(***************************************************************************)
EXTENDS Negotiation

CONSTANTS
  BlockLen, DigestLen, KeyLen,            \* of the RTMP handshake
  Times, ServerVersions,                  \* clocks, and versions a server may send
  Commands,                               \* AMF messages: sequences of items
  StunRequests,                           \* what SendStun serialises
  RtpInputs,                              \* packets a sender may have sent
  Frames,                                 \* raw packets for RtmpPublish: av, codec, units
  MaxFrames,                              \* bound: frames published
  OpusPackets,                            \* packets with the frames they hold
  AscConfigs, FrameLens,                  \* AAC configs, and lengths of frames
  AudioLens, MaxAudio,                    \* lengths of frames for RTP; bound: their number
  AudioClock, AudioTsMod,                 \* of RTP audio
  SyncTimes, MaxSync,                     \* times of packets for TimeSync; bound: their number
  Ports, Urls,                            \* words of digits, and URLs with what they were made of
  PRE_RESERVE_HEADER_SIZE, EXTRA_LEN, Sizes, SizeMod,     \* of DataBuffer
  BufferSizes, MaxAppend, MaxBytes        \* bounds: sizes asked for, bytes at once, in all

ASSUME DataBufferConstants ==
  /\ {PRE_RESERVE_HEADER_SIZE, EXTRA_LEN, SizeMod} \subseteq Nat
  /\ PRE_RESERVE_HEADER_SIZE < EXTRA_LEN
  /\ Sizes \in Seq(Nat)

ASSUME AudioConstants == {AudioClock, AudioTsMod} \subseteq Nat \ {0}

Hs == INSTANCE RtmpHandshake
Amf == INSTANCE Amf0
St == INSTANCE Stun
Rtp == INSTANCE RtpPacket
Rm == INSTANCE RtmpMedia
Hd == INSTANCE AudioHeader
Sync == INSTANCE TimeSync
U == INSTANCE Url
Buf == INSTANCE DataBuffer

VARIABLES
  subject,    \* what the behaviour is about
  job         \* the state of its two ends

vars == <<role, phase, offer, answer, wire, made, subject, job>>

Subjects == {"negotiation", "handshake", "command", "stun", "rtx", "media", "opus", "aac",
             "audio", "timesync", "url", "buffer"}

NewJob(s) ==
  CASE s = "handshake" -> [at |-> 0, c |-> <<>>, d |-> <<>>, k |-> <<>>, parsed |-> <<>>,
                           s1 |-> -1, now |-> 0, c2 |-> <<>>]
    [] s = "media" -> [pub |-> Rm!PublishInit, given |-> <<>>, played |-> <<>>]
    [] s = "audio" -> [snd |-> Rtp!AudioSendInit, given |-> <<>>, heard |-> <<>>]
    [] s = "timesync" -> [sync |-> Sync!SyncInit, sent |-> <<>>]
    [] s = "buffer" -> [b |-> <<>>, size |-> 0, content |-> <<>>, n |-> 0]
    [] OTHER -> [at |-> 0]

Init ==
  /\ subject \in Subjects /\ job = NewJob(subject)
  /\ NegInit /\ (subject # "negotiation" => role = "whip")

About(s) == subject = s /\ UNCHANGED <<subject, negVars>>

-----------------------------------------------------------------------------
Negotiate == subject = "negotiation" /\ NegNext /\ UNCHANGED <<subject, job>>

(* RtmpClientHandshake::SendC0C1: any random offsets.                      *)
SendC0C1 ==
  /\ About("handshake") /\ job.at = 0
  /\ \E t \in Times, i \in 0..BlockLen, j \in 0..BlockLen :
       LET d == Hs!PrepareDigest(i, 7)
           k == Hs!PrepareKey(j, 7)
       IN  job' = [job EXCEPT !.at = 1, !.d = d, !.k = k, !.c = Hs!MakeC0C1(t, d, k)]

(* The server, as this library would read C1.  Nothing comes when nothing  *)
(* was sent.                                                               *)
ReadC0C1 ==
  /\ About("handshake") /\ job.at = 1 /\ job.c # <<>>
  /\ job' = [job EXCEPT !.at = 2, !.parsed = Hs!ParseC1(Tail(job.c))]

(* SendC2 behind S0S1S2; a wrong version ends the session.                 *)
SendC2 ==
  /\ About("handshake") /\ job.at = 2
  /\ \E v \in ServerVersions, t \in Times, now \in Times :
       LET s1 == Hs!ParseS0S1S2(Hs!Word(v) \o Hs!Word(t))
       IN  job' = [job EXCEPT !.at = 3, !.s1 = s1, !.now = now,
                     !.c2 = IF s1 < 0 THEN <<>> ELSE Hs!MakeC2(now, s1, 7)]

(* A command is encoded at one end and decoded at the other.               *)
SendCommand ==
  /\ About("command") /\ job.at = 0
  /\ \E c \in Commands : job' = [at |-> 1, items |-> c, w |-> Amf!Encode(c)]

ReadCommand ==
  /\ About("command") /\ job.at = 1
  /\ job' = [at |-> 2, items |-> job.items, got |-> Amf!DecodeAll(job.w, <<>>)]

(* PeerConnection::SendStun and the answer's way through Parse.            *)
SendStun ==
  /\ About("stun") /\ job.at = 0
  /\ \E p \in StunRequests : job' = [at |-> 1, p |-> p, m |-> St!Serialize(p)]

ReadStun ==
  /\ About("stun") /\ job.at = 1
  /\ job' = [at |-> 2, p |-> job.p, m |-> job.m, got |-> St!ParseStun(job.m)]

(* RetransmitRtp of a packet that was kept, and HandleRtpPacket of it.     *)
Retransmit ==
  /\ About("rtx") /\ job.at = 0
  /\ \E i \in RtpInputs :
       LET p == Rtp!ParseRtp(i.pkt)
       IN  job' = [at |-> 1, i |-> i, kept |-> p,
                   rtx |-> IF p.ok THEN Rtp!RtxMux(p, 107, 11, 65535) ELSE i.pkt]

Restore ==
  /\ About("rtx") /\ job.at = 1 /\ job.kept.ok
  /\ LET p == Rtp!ParseRtp(job.rtx)
         back == IF p.ok THEN Rtp!RtxDemux(p, job.i.pkt.ssrc, job.i.pkt.pt) ELSE Rtp!NoPacket
     IN  job' = [at |-> 2, i |-> job.i, kept |-> job.kept, back |-> back]

(* RtmpPublish takes the next packet of its queue.                         *)
PublishFrame ==
  /\ About("media") /\ Len(job.given) < MaxFrames
  /\ \E f \in Frames, flag \in BOOLEAN :
       LET n == Len(job.given) + 1
           data == IF f.av = "video"
                   THEN Rm!FlattenSeq([i \in DOMAIN f.units |-> Rm!Unit(f.units[i], <<n, i>>, 2)])
                   ELSE <<<<"byte", <<n, 1>>, 1>>>>
           p == Rm!Packet(f.av, f.codec, FALSE, FALSE, n, n + f.delay, data)
       IN  job' = [job EXCEPT !.given = Append(@, p),
                              !.pub = Rm!HandleRawData(@, p, flag)]

(* The player reads the next message.                                      *)
PlayMessage ==
  /\ About("media") /\ job.pub.out # <<>>
  /\ job' = [job EXCEPT !.pub.out = Tail(@),
               !.played = Rm!OnMessage(@, Rm!GetMediaPacket(job.pub.out[1]))]

(* MpegtsDemux::OnCallback for Opus.                                       *)
ReadOpus ==
  /\ About("opus") /\ job.at = 0
  /\ \E p \in OpusPackets : job' = [at |-> 1, p |-> p, got |-> Hd!GetOpusFrameVector(p.data)]

(* FlvDemux hands on a config; an assertion may end the process.           *)
ReadAsc ==
  /\ About("aac") /\ job.at = 0
  /\ \E asc \in AscConfigs :
       job' = [at |-> 1, asc |-> asc, info |-> Hd!GetAudioInfoByAsc(asc)]

(* MpegtsMux writes a frame.                                               *)
MuxAac ==
  /\ About("aac") /\ job.at = 1 /\ job.info.ok
  /\ \E n \in FrameLens :
       job' = [at |-> 2, asc |-> job.asc, n |-> n, header |-> Hd!HandleAudioAac(job.info, n)]

(* Whip or MsPush sends an audio frame 3 ms behind the last one.           *)
SendAudio ==
  /\ About("audio") /\ ~job.snd.down /\ Len(job.given) < MaxAudio
  /\ \E n \in AudioLens :
       LET frame == [len |-> n, dts |-> 3 * Len(job.given)]
       IN  job' = [job EXCEPT !.snd = Rtp!SendAudioPacket(@, frame), !.given = Append(@, frame)]

(* The other end hands the next one on.                                    *)
HearAudio ==
  /\ About("audio") /\ Len(job.heard) < Len(job.snd.out)
  /\ LET pkt == job.snd.out[Len(job.heard) + 1]
     IN  job' = [job EXCEPT !.heard =
                   Append(@, Rtp!MediaPacketOutput(Rtp!InputRtpPacket(pkt)))]

(* MsPull hands on the next packet: its pts is its dts.  The time of a     *)
(* medium may begin anywhere and go back (a frame out of display order, a  *)
(* timestamp that starts again at 0).                                      *)
SyncPacket ==
  /\ About("timesync") /\ Len(job.sent) < MaxSync
  /\ \E m \in Media, t \in SyncTimes :
       LET s == Sync!SyncSourceData(job.sync, m, t, t)
       IN  job' = [sync |-> s, sent |-> Append(job.sent, [m |-> m, in |-> t, dts |-> s[m].dts,
                                                          pts |-> s[m].pts])]

(* StartNetwork of each kind of client.                                    *)
ReadUrl ==
  /\ About("url") /\ job.at = 0
  /\ \E u \in Urls :
       job' = [at |-> 1, u |-> u, whip |-> U!GetHostInfoByUrl(u.scheme, u.text),
               ms |-> U!GetMsHostInfoByUrl(u.scheme, u.text),
               rtmp |-> U!GetRtmpUrlInfo(u.scheme, u.text)]

MakeBuffer ==
  /\ About("buffer") /\ job.b = <<>>
  /\ \E s \in BufferSizes : job' = [job EXCEPT !.b = Buf!NewBuffer(s), !.size = s]

(* content follows what goes in and out; a byte is Unsure once it was moved *)
(* over itself by one memcpy.                                              *)
Unsure == MaxBytes + 1
AppendBytes ==
  /\ About("buffer") /\ job.b # <<>>
  /\ \E k \in 1..MaxAppend :
       LET data == [i \in 1..k |-> job.n + i]
           blurred == /\ ~Buf!Fits(job.b, data) /\ ~Buf!Grows(job.b, data)
                      /\ job.b.data_len_ < job.b.start_
                      /\ job.b.start_ - PRE_RESERVE_HEADER_SIZE \in
                           (1 - job.b.data_len_..job.b.data_len_ - 1) \ {0}
           before == [i \in DOMAIN job.content |-> IF blurred THEN Unsure ELSE job.content[i]]
       IN  /\ job.n + k <= MaxBytes
           /\ \E b \in Buf!AppendData(job.b, data) :
                job' = [job EXCEPT !.b = b, !.content = before \o data, !.n = @ + k]

ConsumeBytes ==
  /\ About("buffer") /\ job.content # <<>>
  /\ \E k \in 1..Len(job.content) :
       job' = [job EXCEPT !.b = Buf!ConsumeData(@, k),
                          !.content = SubSeq(@, k + 1, Len(@))]

(* ConsumeData(-k) and the header written there.                           *)
PrependBytes ==
  /\ About("buffer") /\ job.b # <<>>
  /\ \E k \in 1..PRE_RESERVE_HEADER_SIZE :
       LET c == Buf!ConsumeData(job.b, -k)
           head == [i \in 1..k |-> -i]
       IN  /\ c # job.b /\ job.n + k <= MaxBytes
           /\ job' = [job EXCEPT !.b = Buf!Put(c, c.start_, head),
                                 !.content = head \o @, !.n = @ + k]

ResetBuffer ==
  /\ About("buffer") /\ job.content # <<>>
  /\ job' = [job EXCEPT !.b = Buf!Reset(@), !.content = <<>>]

Next ==
  \/ Negotiate
  \/ SendC0C1 \/ ReadC0C1 \/ SendC2
  \/ SendCommand \/ ReadCommand
  \/ SendStun \/ ReadStun
  \/ Retransmit \/ Restore
  \/ PublishFrame \/ PlayMessage
  \/ ReadOpus
  \/ ReadAsc \/ MuxAac
  \/ SendAudio \/ HearAudio
  \/ SyncPacket
  \/ ReadUrl
  \/ MakeBuffer \/ AppendBytes \/ ConsumeBytes \/ PrependBytes \/ ResetBuffer

Spec == Init /\ [][Next]_vars

-----------------------------------------------------------------------------
(* The members of a description a peer acts on.                            *)
Gist(s) ==
  [ssrc |-> GetVideoSsrc(s), rtx_ssrc |-> GetVideoRtxSsrc(s), audio |-> GetAudioSsrc(s),
   pt |-> GetVideoPayloadType(s), rtx_pt |-> GetVideoRtxPayloadType(s),
   audio_pt |-> GetAudioPayloadType(s), rtx |-> IsVideoRtxEnable(s),
   nack |-> [m \in Media |-> IsNackEnable(s, m)], clock |-> s.clock_rate]

(* Another SdpTransform that reads the offer's text finds the SSRCs,       *)
(* payload types, clock rates, NACK and RTX flags and ICE credentials of   *)
(* the offer, and twelve header extensions with an id each, whatever was   *)
(* on its stack (CreateOfferSdp, GenSdpString, Parse).                     *)
OfferUnderstood ==
  phase = "offered" =>
    \A junk \in SUBSET DOMAIN offer.ssrc_info :
      LET s == Parse(NewSdp, wire.offered, junk)
      IN  /\ Gist(s) = Gist(offer)
          /\ s.remote_fragment = offer.local.ufrag /\ s.remote_pwd = offer.local.pwd
          /\ {s.ext_map[id] : id \in DOMAIN s.ext_map} = DOMAIN offer.em

(* MsPush sends with the SSRCs, payload types and clock rates it announced *)
(* in its produce requests, RTX repairs the announced video, and no two    *)
(* extensions of a request share an id (GetVideoRtpParameters,             *)
(* GetAudioRtpParameters, CreateSendStream2).                              *)
SendsAsTold ==
  (role = "mspush" /\ phase = "streaming") =>
    LET v == wire.produced.video
        a == wire.produced.audio
    IN  /\ made["video"] = [ssrc |-> v.ssrc, pt |-> v.pt, clock |-> v.clock,
                            nack |-> "nack" \in v.fb,
                            rtx |-> [pt |-> v.rtx_pt, ssrc |-> v.rtx_ssrc]]
        /\ v.apt = v.pt
        /\ made["audio"].ssrc = a.ssrc /\ made["audio"].pt = a.pt
        /\ made["audio"].clock = a.clock
        /\ \A e, f \in v.exts \cup a.exts : e[1] = f[1] => e[2] = f[2]

(* A WHIP or WHEP session makes the streams its answer describes, in       *)
(* whatever order the answer has its sections and formats, if a FID group  *)
(* stands behind the SSRCs it names or the flags that are read             *)
(* uninitialised happen to be right (ParseAnswerSdp, ParseSsrcGroupFid,    *)
(* CreateVideoRecvStream, CreateSendStream).                               *)
StreamsAsAnswered ==
  (role \in {"whip", "whep"} /\ phase = "streaming") =>
    LET a == wire.server
        ssrc == IF a.ssrcs THEN a.ssrc ELSE offer.video_ssrc
        rtx == IF a.ssrcs THEN a.rtx_ssrc ELSE offer.video_rtx_ssrc
        lucky == wire.junk \cap {a.ssrc, a.rtx_ssrc} = IF a.rtx THEN {a.rtx_ssrc} ELSE {}
    IN  (~a.ssrcs \/ (a.rtx /\ a.fid = "behind") \/ lucky) =>
          /\ made["video"] = [ssrc |-> ssrc, pt |-> a.pt, clock |-> 90000, nack |-> TRUE,
                              rtx |-> IF a.rtx THEN [pt |-> a.rtx_pt, ssrc |-> rtx] ELSE NoRtx]
          /\ made["audio"].ssrc = IF a.ssrcs THEN a.audio_ssrc ELSE offer.audio_ssrc
          /\ made["audio"].pt = a.audio_pt /\ made["audio"].clock = 48000
          /\ answer.remote_fragment = "theirs" /\ answer.remote_pwd = "password"

(* MsPull makes the streams the consume responses describe, whatever order *)
(* the codecs have in them: RTX is on if there is an SSRC and a codec for  *)
(* it.  Its payload type is not the one announced (SetVideoRtxPayloadType  *)
(* files it under the video's), which HandleRtpPacket does not look at.    *)
StreamsAsConsumed ==
  (role = "mspull" /\ phase = "streaming") =>
    LET v == wire.server.video
        codec(c, m) == CHOOSE i \in DOMAIN c : c[i].mime = m
        main == v.codecs[codec(v.codecs, "H264")]
        has_rtx == \E i \in DOMAIN v.codecs : v.codecs[i].mime = "rtx"
        a == wire.server.audio
    IN  /\ made["video"].ssrc = v.ssrc /\ made["video"].pt = main.pt
        /\ made["video"].nack = (\E i \in DOMAIN main.fb : main.fb[i] = "nack")
        /\ made["video"].rtx.ssrc = IF has_rtx THEN v.rtx_ssrc ELSE 0
        /\ made["audio"].ssrc = a.ssrc /\ made["audio"].pt = a.codecs[1].pt
        /\ \A e \in {v.exts[i] : i \in DOMAIN v.exts} : answer.ext_map[e[1]] = e[2]

(* The C1 the client sends verifies as schema 1 and gives back the parts   *)
(* it was made of, at every offset at which one is sent at all; C2 carries *)
(* the server's time behind the client's (MakeC0C1, ParseC1, MakeC2).      *)
HandshakeVerifies ==
  subject = "handshake" =>
    /\ job.at >= 2 =>
         /\ job.parsed.schema = 1
         /\ job.parsed.got.d.random0 = job.d.random0
         /\ job.parsed.got.d.random1 = job.d.random1
         /\ job.parsed.got.k = job.k
    /\ (job.at = 1 /\ job.c = <<>>) => Hs!CalcValidDigestOffset(job.d.offset) = 0
    /\ (job.at = 3 /\ job.s1 >= 0) =>
         SubSeq(job.c2, 1, 2) = Hs!Word(job.now) \o Hs!Word(job.s1)

(* What the decoder returns for a message: a long text where one was, and  *)
(* one unknown item for the end marker of every object, which is left for  *)
(* the next call.                                                          *)
AsRead(items) ==
  Rm!FlattenSeq([n \in DOMAIN items |->
    IF items[n].type = Amf!AMF_OBJECT THEN <<items[n], Amf!AMF_UNKNOWN>> ELSE <<items[n]>>])

(* A command of scalars and flat objects is read back as it was written,   *)
(* and the end marker of an object never shifts the items behind it        *)
(* (AMF_Encoder, AMF_Decoder, HandleServerCommandMessage).                 *)
CommandsReadBack ==
  (subject = "command" /\ job.at = 2) =>
    job.got.st = "ok" /\ job.got.items = AsRead(job.items)

(* A connectivity check is accepted by a server with the password, which   *)
(* recomputes the integrity over the length up to it, and by this code's   *)
(* own Parse (Serialize, Parse).                                           *)
ChecksAccepted ==
  (subject = "stun" /\ job.at = 2) =>
    /\ job.got.ok /\ {"integrity", "use-candidate", "priority"} \subseteq job.got.seen
    /\ St!IntegrityAccepted(job.m, job.p.password)

(* A packet that was retransmitted is the packet that was sent: sequence   *)
(* number, SSRC, payload type, extensions and payload; only the padding is *)
(* gone (RtpPacket::Parse, RtxMux, RtxDemux).                              *)
RtxRestores ==
  (subject = "rtx" /\ job.at = 2) =>
    LET p == Rtp!ParseRtp(job.back)
        i == job.i
    IN  /\ p.ok /\ p.payload = i.payload /\ p.exts = i.exts
        /\ p.pkt.seq = i.pkt.seq /\ p.pkt.ssrc = i.pkt.ssrc /\ p.pkt.pt = i.pkt.pt

(* Positions of the units of the packets given to the publisher, and the   *)
(* units that must come out: those behind the first SPS and PPS that are   *)
(* neither parameter sets nor delimiters.                                  *)
GivenUnits ==
  Rm!FlattenSeq([n \in DOMAIN job.given |->
    IF job.given[n].av_type_ = "video" THEN Rm!AnnexB2Nalus(job.given[n].data) ELSE <<>>])

DueUnits ==
  LET us == GivenUnits
      known(i) == \E a, b \in 1..i : Rm!IsSps(us[a]) /\ Rm!IsPps(us[b])
      due == {i \in DOMAIN us : known(i) /\ ~(Rm!IsSps(us[i]) \/ Rm!IsPps(us[i]) \/ Rm!IsAud(us[i]))}
  IN  [j \in 1..Cardinality(due) |->
         us[CHOOSE i \in due : Cardinality({k \in due : k <= i}) = j]]

(* The frame a unit of the player came from.                               *)
Origin(p) == job.given[p.data[1][3][1]]

(* No set of the same kind was given between this one and the slice.       *)
Newest(set, slice) ==
  LET at(u) == CHOOSE i \in DOMAIN GivenUnits : GivenUnits[i] = u
  IN  \A i \in at(set) + 1..at(slice) : Rm!UnitType(GivenUnits[i]) # Rm!UnitType(set)

(* When every message has arrived the player has handed on every slice the *)
(* publisher was given since it knew its parameter sets, once and in       *)
(* order, with the time of its frame, and every key frame directly behind  *)
(* the newest SPS and PPS, whatever the key flag says that is read from    *)
(* the wrong byte (HandleVideoData, GetMediaPacket, OnMessage).            *)
PlayedAsPublished ==
  (subject = "media" /\ job.pub.out = <<>>) =>
    LET video == SelectSeq(job.played, LAMBDA p : p.av_type_ = "video")
        slices == SelectSeq(video, LAMBDA p : ~(Rm!IsSps(p.data) \/ Rm!IsPps(p.data)))
    IN  /\ [i \in DOMAIN slices |-> slices[i].data] = DueUnits
        /\ \A i \in DOMAIN slices :
             /\ slices[i].dts_ = Origin(slices[i]).dts_
             /\ slices[i].pts_ = Origin(slices[i]).pts_
        /\ \A i \in DOMAIN video :
             Rm!IsKeyFrame(video[i].data) =>
               /\ i > 2 /\ Rm!IsPps(video[i - 1].data) /\ Rm!IsSps(video[i - 2].data)
               /\ Newest(video[i - 2].data, video[i].data) /\ Newest(video[i - 1].data, video[i].data)

(* The demuxer finds the frames of every access unit of a packet, each     *)
(* with its length (and the byte before it), for all packings but the one  *)
(* with sizes of their own (GetOpusFrameVector).                           *)
OpusFramesFound ==
  (subject = "opus" /\ job.at = 1 /\ ~job.p.vbr) =>
    job.got.ok /\ job.got.frames = job.p.frames

(* The number in width bits of a header, counted from the first bit.       *)
Field(bytes, from, width) ==
  LET bit(i) == (bytes[i \div 8 + 1] \div 2^(7 - (i % 8))) % 2
  IN  Rm!FoldLeft(LAMBDA n, i : 2 * n + bit(from + i - 1), 0, [i \in 1..width |-> i])

(* A decoder that reads the ADTS header as ISO 13818-7 lays it out finds   *)
(* the rate and the channels of the config and the next header behind the  *)
(* frame, for every config of 5-bit type, rate from the table and one to   *)
(* seven channels, and the profile if that is LC; of other configs frames  *)
(* are dropped, never half described (GetAudioInfoByAsc, MakeAdts).        *)
AdtsDescribes ==
  (subject = "aac" /\ job.at = 2) =>
    LET h == job.header
        type == Field(job.asc, 0, 5)
        index == Field(job.asc, 5, 4)
        channels == Field(job.asc, 9, 4)
        plain == type \in 1..30 /\ index < 13 /\ channels \in 1..7
    IN  /\ plain => h # <<>>
        /\ (type \in 1..30 /\ index # 15 /\ channels < 8 /\ h # <<>>) =>
             /\ Field(h, 0, 12) = 4095 /\ Field(h, 15, 1) = 1
             /\ Field(h, 18, 4) = index /\ Field(h, 23, 3) = channels
             /\ job.n + 7 < 8192 => Field(h, 30, 13) = job.n + 7
             /\ type \in {2, 5, 29} => Field(h, 16, 2) = 1
             /\ Field(h, 54, 2) = 0

(* Audio frames come out in order, each with its time until the RTP        *)
(* timestamp starts again at 0 (after 24.8 hours), and whole if they have  *)
(* fewer than 256 bytes; of a longer one only the remainder is heard.  The *)
(* process ends at a length that is a multiple of 256 and at no other      *)
(* (SendAudioPacket, GenerateSinglePackets, InputRtpPacket).               *)
AudioHeard ==
  subject = "audio" =>
    LET period == (AudioTsMod * 1000) \div AudioClock
    IN  /\ job.snd.down <=> \E i \in DOMAIN job.given : job.given[i].len % 256 = 0
        /\ \A i \in DOMAIN job.heard :
             /\ job.heard[i].dts = job.given[i].dts % period
             /\ job.given[i].len < 256 => job.heard[i].len = job.given[i].len
             /\ job.heard[i].len \in 1..255

(* The packets of a medium while its clock runs: the first came later than *)
(* its output time, and none is at or before the output time before it.    *)
Steady(q) ==
  /\ q[1].in > q[1].dts
  /\ \A i \in 2..Len(q) : q[i].in > q[i - 1].dts

(* A medium that runs keeps its pace, and a step back behind the output    *)
(* moves the output 10 ms on.  The medium that begins later begins at the  *)
(* output time the other has reached, so the two stay as far apart as they *)
(* arrived (HandleVideoPacket, HandleAudioPacket).  Nothing is said of a   *)
(* medium whose clock begins at or before its output time, and of one that *)
(* has gone back: the base may then be 0 or negative, which the code takes *)
(* for no base.                                                            *)
MediaInStep ==
  subject = "timesync" =>
    LET sent(m, n) == SelectSeq(SubSeq(job.sent, 1, n), LAMBDA p : p.m = m)
    IN  \A n \in DOMAIN job.sent :
          LET p == job.sent[n]
              q == sent(p.m, n - 1)
              o == sent(CHOOSE m \in Media : m # p.m, n - 1)
          IN  /\ p.pts = p.dts
              /\ (q # <<>> /\ Steady(q)) =>
                   p.dts = IF p.in > q[Len(q)].dts THEN p.in - q[1].in + q[1].dts
                           ELSE q[Len(q)].dts + 10
              /\ (q = <<>> /\ o = <<>>) => p.dts = 0
              /\ (q = <<>> /\ o # <<>> /\ Steady(o)) =>
                   p.dts = IF o[Len(o)].dts > 0 THEN o[Len(o)].dts ELSE 0

(* A URL is read as it was written: host, port (443 without one, also for  *)
(* http; 1935 for RTMP), path with its query, room, user and producers in  *)
(* any order, with or without a slash in front of the query and at the end.*)
(* The mediasoup clients refuse one without port or query; an RTMP URL     *)
(* with no app in it gives an app that was never written                   *)
(* (GetHostInfoByUrl, GetRtmpUrlInfo).                                     *)
UrlUnderstood ==
  (subject = "url" /\ job.at = 1) =>
    LET u == job.u
        port(default) == IF u.port = "" THEN default ELSE Ports[u.port]
        slashed(ss) == U!Joined([i \in DOMAIN ss |-> <<ss[i]>>])
        valueOf(name) == LET vs == {i \in DOMAIN u.params : u.params[i][1] = name}
                         IN  IF vs = {} THEN <<>> ELSE u.params[CHOOSE i \in vs : TRUE][2]
        webPath == u.segs # <<>> \/ u.slash
    IN  /\ u.scheme = "rtmp://" \/ (~webPath /\ u.params = <<>>) => ~job.whip.ok
        /\ (u.scheme # "rtmp://" /\ webPath) =>
             /\ job.whip.ok /\ job.whip.host = <<u.host>> /\ job.whip.port = port(443)
             /\ job.whip.https <=> u.scheme = "https://"
             /\ job.whip.subpath = slashed(u.segs) \o (IF u.slash THEN <<"/">> ELSE <<>>) \o u.query
        /\ job.ms.ok <=> u.scheme = "https://" /\ u.port # "" /\ u.params # <<>>
        /\ job.ms.ok => /\ job.ms.host = <<u.host>> /\ job.ms.port = port(0)
                        /\ \A n \in {"roomId", "userId", "vpid", "apid"} :
                             job.ms[n] = valueOf(n)
        /\ (u.scheme = "rtmp://" /\ u.params = <<>>) =>
             (job.rtmp.ok <=> u.segs # <<>>)
        /\ (job.rtmp.ok /\ u.params = <<>>) =>
             /\ job.rtmp.host = <<u.host>> /\ job.rtmp.port = port(1935)
             /\ job.rtmp.streamname = <<U!Last(u.segs)>>
             /\ Len(u.segs) > 1 => <<"/">> \o job.rtmp.app = slashed(U!Front(u.segs))

(* The buffer holds what was appended and put in front and not consumed,   *)
(* in order, inside its allocation, if it was made for at least the header *)
(* room or for all that it ever gets (AppendData, ConsumeData, Reset).     *)
(* Nothing is said of the bytes that an append moved by a memcpy over      *)
(* their own place, but that they are as many: the data is then shorter    *)
(* than its offset, which is off the header room by less than the data.    *)
BufferHolds ==
  (subject = "buffer" /\ job.b # <<>>) =>
    \/ job.size < PRE_RESERVE_HEADER_SIZE /\ job.n > job.size
    \/ /\ ~job.b.burst
       /\ Len(Buf!Data(job.b)) = Len(job.content)
       /\ \A i \in DOMAIN job.content : job.content[i] \in {Unsure, Buf!Data(job.b)[i]}

(* Types; a stream has a whole pair of RTX parameters or none.             *)
FormatsTypeOK ==
  /\ subject \in Subjects /\ role \in NegRoles
  /\ phase \in {"new", "offered", "told", "streaming"}
  /\ made \in [Media -> [ssrc : Nat, pt : -1..127, clock : Nat, nack : BOOLEAN,
                         rtx : [pt : 1..255, ssrc : Nat \ {0}] \cup {NoRtx}]]

(* Both ends of a negotiation make the same streams of it, for each of the *)
(* four clients.                                                           *)
NegotiatedAlike ==
  /\ FormatsTypeOK /\ OfferUnderstood /\ SendsAsTold /\ StreamsAsAnswered
  /\ StreamsAsConsumed

(* RTMP from the digests of the handshake over the commands to the media   *)
(* messages is read as it was written.                                     *)
RtmpReadBack == HandshakeVerifies /\ CommandsReadBack /\ PlayedAsPublished

(* WebRTC: connectivity checks, retransmitted packets and audio frames are *)
(* read as they were written, and the two media stay in step.              *)
RtcReadBack == ChecksAccepted /\ RtxRestores /\ AudioHeard /\ MediaInStep

(* The headers of Opus and AAC frames and the URLs of the clients are read *)
(* as they were written.                                                   *)
HeadersReadBack == OpusFramesFound /\ AdtsDescribes /\ UrlUnderstood
=============================================================================
