------------------------------ MODULE RtpPacket -----------------------------
(***************************************************************************)
(* RTP packets (rtprtcp/rtp_packet.cpp): the parser, the header            *)
(* extensions, and the two ways of the retransmission format.  A packet is *)
(* its header fields and the bytes behind the first twelve.                *)
(*                                                                         *)
(* Audio over RTP: SendAudioPacket of the send stream (rtc_send_stream.cpp)*)
(* and PackHandleAudio with the end of MediaPacketOutput at the receiver   *)
(* (pack_handle_audio.hpp, peerconnection.cpp).  A frame is a length and   *)
(* the time in milliseconds; a packet holds the first len bytes of one.    *)
(***************************************************************************)
EXTENDS Integers, Sequences, TLC
LOCAL INSTANCE SequencesExt

NoPacket == [ok |-> FALSE]

(* Not an id: an exception while the extensions are read.                  *)
Throw == 0
Thrown == Throw :> <<>>

-----------------------------------------------------------------------------
(* Header extensions                                                       *)

SkipZeros(b, i) ==
  LET rest == {j \in i..Len(b) : b[j] # 0}
  IN  IF rest = {} THEN Len(b) + 1 ELSE CHOOSE j \in rest : \A k \in rest : j <= k

(* id -> value of the elements; an id 15 ends them, an element that does   *)
(* not fit is an exception.  The last element of an id stays, so the       *)
(* elements read later come first.                                         *)
ParseOnebyteExt(b) ==
  LET step[i \in 1..Len(b) + 1] ==
        IF i > Len(b) \/ b[i] \div 16 = 15 THEN <<>>
        ELSE IF b[i] \div 16 = 0 THEN step[SkipZeros(b, i + 1)]
        ELSE LET n == (b[i] % 16) + 1
             IN  IF i + n > Len(b) THEN Thrown
                 ELSE step[SkipZeros(b, i + 1 + n)]
                        @@ (b[i] \div 16 :> SubSeq(b, i + 1, i + n))
  IN  step[1]

ParseTwobytesExt(b) ==
  LET step[i \in 1..Len(b) + 1] ==
        IF i + 1 > Len(b) THEN <<>>
        ELSE IF b[i] = 0 THEN step[SkipZeros(b, i + 1)]
        ELSE IF i + 1 + b[i + 1] > Len(b) THEN Thrown
        ELSE step[SkipZeros(b, i + 2 + b[i + 1])]
               @@ (b[i] :> SubSeq(b, i + 2, i + 1 + b[i + 1]))
  IN  step[1]

(* ParseExt by the profile of the extension.                               *)
ParseExt(profile, b) ==
  CASE profile = "BEDE" -> ParseOnebyteExt(b)
    [] profile = "1000" -> ParseTwobytesExt(b)
    [] OTHER -> Thrown

-----------------------------------------------------------------------------
(* Parse: contributing sources, extension, payload, padding.               *)

ParseRtp(pkt) ==
  LET n == Len(pkt.bytes)
      start == 4 * pkt.cc + (IF pkt.x = "" THEN 0 ELSE 4 + pkt.xlen)
      ext == IF pkt.x = "" THEN <<>>
             ELSE ParseExt(pkt.x, SubSeq(pkt.bytes, 4 * pkt.cc + 5, start))
      pad == IF pkt.padding THEN pkt.bytes[n] ELSE 0
  IN  IF n <= start \/ (pad > 0 /\ n - start <= pad) \/ Throw \in DOMAIN ext
      THEN NoPacket
      ELSE [ok |-> TRUE, pkt |-> pkt, exts |-> ext, pad |-> pad,
            payload |-> SubSeq(pkt.bytes, start + 1, n - pad)]

(* The bytes in front of the payload.                                      *)
InFront(p) == SubSeq(p.pkt.bytes, 1, Len(p.pkt.bytes) - p.pad - Len(p.payload))

(* RtxMux on a clone: the sequence number moves into the payload and the   *)
(* padding goes.                                                           *)
RtxMux(p, pt, ssrc, seq) ==
  LET payload == <<p.pkt.seq \div 256, p.pkt.seq % 256>> \o p.payload
  IN  [p.pkt EXCEPT !.pt = pt, !.ssrc = ssrc, !.seq = seq, !.padding = FALSE,
                    !.bytes = InFront(p) \o payload]

(* Mutant of RtxDemux: the two bytes stay in front of the payload.         *)
RtxDemuxKept(p, ssrc, pt) ==
  [p.pkt EXCEPT !.pt = pt, !.ssrc = ssrc, !.seq = 256 * p.payload[1] + p.payload[2],
                !.padding = FALSE, !.bytes = InFront(p) \o p.payload]

(* RtxDemux throws on a payload without the number.                        *)
RtxDemux(p, ssrc, pt) ==
  IF Len(p.payload) < 2 THEN NoPacket
  ELSE [p.pkt EXCEPT !.pt = pt, !.ssrc = ssrc,
                     !.seq = 256 * p.payload[1] + p.payload[2], !.padding = FALSE,
                     !.bytes = InFront(p) \o SubSeq(p.payload, 3, Len(p.payload))]

-----------------------------------------------------------------------------
CONSTANTS
  AudioClock,    \* clock_rate_ of both ends, from the negotiation
  AudioTsMod     \* values of an RTP timestamp (2^32 in the code)

(* A send stream: its next number, what it has sent, and whether an        *)
(* exception has ended the process.                                        *)
AudioSendInit == [seq_ |-> 0, out |-> <<>>, down |-> FALSE]

(* MakeRtpPacket parses the packet it has just laid out, and Parse throws  *)
(* at one without payload; nothing on the way from the libuv callback      *)
(* catches that.                                                           *)
MadePacket(len) == len > 0

(* Mutant of SendAudioPacket: the time is not converted.                   *)
SendAudioPacketMs(s, frame) ==
  LET len == frame.len % 256
  IN  IF MadePacket(len)
      THEN [s EXCEPT !.seq_ = (@ + 1) % 65536,
              !.out = Append(@, [seq |-> s.seq_, ts |-> frame.dts % AudioTsMod, len |-> len])]
      ELSE [s EXCEPT !.down = TRUE]

(* The length is kept in a uint8_t.  A sequence header is sent as a frame. *)
SendAudioPacket(s, frame) ==
  LET len == frame.len % 256
      ts == ((frame.dts * AudioClock) \div 1000) % AudioTsMod
  IN  IF MadePacket(len)
      THEN [s EXCEPT !.seq_ = (@ + 1) % 65536,
                     !.out = Append(@, [seq |-> s.seq_, ts |-> ts, len |-> len])]
      ELSE [s EXCEPT !.down = TRUE]

(* InputRtpPacket: the payload as it is, the RTP timestamp as the time.    *)
InputRtpPacket(pkt) == [len |-> pkt.len, dts |-> pkt.ts]

(* MediaPacketOutput for audio: back to milliseconds.                      *)
MediaPacketOutput(p) == [p EXCEPT !.dts = (@ * 1000) \div AudioClock]
=============================================================================
