----------------------------- MODULE RtcReport ------------------------------
(***************************************************************************)
(* The reports between two PeerConnections: the sender of one video stream *)
(* (RtcSendStream) and its receiver (RtcRecvStream), each with the 300 ms  *)
(* timer of PeerConnection::OnTimer, over a network that loses, delays and *)
(* reorders RTP and RTCP packets.  Nothing arrives twice: SRTP and SRTCP   *)
(* drop replays (srtp_session.cpp); only a retransmission on the RTX       *)
(* stream brings a packet again.                                           *)
(*                                                                         *)
(* An RTCP packet is a record with its kind; at is when it was sent, and   *)
(* flown, a history, how long the report it refers to was under way.       *)
(***************************************************************************)
EXTENDS RtcSendStream, RtcRecvStream

CONSTANTS
  Links,         \* the networks: [sent, rtp, rtcp], how many RTP packets are
                 \* sent over one, whether they arrive, and which kinds of
                 \* RTCP packet do
  Starts,        \* times at which both peers may start
  Horizon,       \* bound: timer periods
  MaxDelay,      \* bound: an RTCP packet is not under way for longer
  RrGap,         \* RTCP_RR_INTERVAL (1 s)
  XrGap,         \* between two DLRR reports (1 s)
  XrFresh,       \* an RRT older than this is not answered (5 s)
  Jumps,         \* by how much a restart moves the sender's number
  MaxLosses      \* bound: RTCP packets lost

ASSUME ReportAssumption ==
  /\ RecvSeqMod = SendSeqMod
  /\ \A l \in Links : l.sent \in 0 .. MaxSent /\ l.rtp \in BOOLEAN
       /\ l.rtcp \subseteq {"sr", "rr", "rrt", "dlrr", "nack", "pli"}
  /\ Starts \subseteq Nat /\ Horizon \in Nat /\ MaxDelay \in Nat
  /\ RrGap \in Nat /\ XrGap \in Nat /\ XrFresh \in Nat
  /\ Jumps \subseteq Nat /\ MaxLosses \in Nat
  /\ MaxSent <= WordMod               \* the extended number stays in its 32 bits
  /\ Units(2 * MaxDelay) + 2 < NtpMod \* a round trip is shorter than the wrap (18 h)

VARIABLES
  now, start,      \* the clock both peers read; when they started
  due,             \* peers whose timer has not fired in this period
  link,            \* the network of this behaviour
  net,             \* RTCP packets under way
  losses,          \* RTCP packets lost so far
  last_rr_ms_,     \* PeerConnection of the receiver
  last_xr_ms_, last_xr_ntp_, last_send_xr_dlrr_ms_,   \* ... of the sender
  rtt_,            \* RtcSendStream: the last round trip, or NoRtt
  xr_rtt,          \* RtcRecvStream: the last sample of avg_rtt_, or NoRtt
  rcvd,            \* positions received
  jumped,          \* position of the first packet after a restart, or 0
  offset,          \* by how much that restart moved the number
  hist             \* history, see HistInit

clockVars == <<now, start, due, link>>
pcVars == <<last_rr_ms_, last_xr_ms_, last_xr_ntp_, last_send_xr_dlrr_ms_>>
reportVars == <<sendVars, recvVars, clockVars, net, losses, pcVars, rtt_,
                xr_rtt, rcvd, jumped, offset, hist>>

NoRtt == -1

(* srFlown, rrtFlown: how long the report behind lsr_ and last_xr_ntp_ was *)
(* under way; rtt, xr: what rtt_ and xr_rtt should be; again: packets that *)
(* came twice or belong before the first; first: the position received     *)
(* first; base: holes minus again when the first report was made; skipped: *)
(* an interval with a wrap was left out; pli: time of the last request.    *)
HistInit == [srFlown |-> 0, rrtFlown |-> 0, rtt |-> 0, xr |-> 0, again |-> 0,
             first |-> 0, base |-> 0, skipped |-> FALSE, pli |-> Never]

Init ==
  /\ SendInit /\ RecvInit
  /\ start \in Starts /\ now = start /\ due = {"send", "recv"}
  /\ link \in Links /\ net = {} /\ losses = 0
  /\ last_rr_ms_ = Never /\ last_xr_ms_ = Never /\ last_xr_ntp_ = 0
  /\ last_send_xr_dlrr_ms_ = Never
  /\ rtt_ = NoRtt /\ xr_rtt = NoRtt
  /\ rcvd = {} /\ jumped = 0 /\ offset = 0 /\ hist = HistInit

(* The number of the packet at position i, counted from 0.                 *)
SeqAt(i) == (FirstSeq + i + IF jumped # 0 /\ i >= jumped THEN offset ELSE 0)
            % SendSeqMod

Newest == IF rcvd = {} THEN -1 ELSE CHOOSE i \in rcvd : \A j \in rcvd : j <= i
Holes == (hist.first .. Newest) \ rcvd

(* Packets put on the network; the ones that are lost are never seen.      *)
Transmit(msgs) ==
  LET carried == {m \in msgs : m.kind \in link.rtcp}
  IN  \E gone \in SUBSET carried :
        /\ losses' = losses + Cardinality(gone) /\ losses' <= MaxLosses
        /\ net' = net \cup (carried \ gone)

SrPacket == [kind |-> "sr", ntp |-> Compact(now), at |-> now]

-----------------------------------------------------------------------------
(* The application sends a frame of n RTP packets; the first one makes a   *)
(* sender report.                                                          *)
Send(n) ==
  /\ sent + n <= link.sent
  /\ SendVideoPacket(n)
  /\ Transmit(IF sr' THEN {SrPacket} ELSE {})
  /\ UNCHANGED <<recvVars, clockVars, pcVars, rtt_, xr_rtt, rcvd, jumped,
                 offset, hist>>

(* The remote sender starts again with another number (not this code).     *)
Restart(j) ==
  /\ jumped = 0 /\ sent > 0 /\ jumped' = sent /\ offset' = j
  /\ UNCHANGED <<sendVars, recvVars, clockVars, net, losses, pcVars, rtt_,
                 xr_rtt, rcvd, hist>>

(* DecryptSrtp refuses a packet it has seen (replay protection); one sent  *)
(* again on the RTX stream is another packet to it.                        *)
DecryptSrtp(i) == i \notin rcvd \/ HasRtx

(* HandleRtpData of packet i, within the windows the receiver allows for.  *)
Receive(i) ==
  /\ link.rtp /\ DecryptSrtp(i)
  /\ Newest # -1 => Newest - MaxMisorder < i /\ i < Newest + MaxDropout
  /\ HandleRtpPacket(SeqAt(i))
  /\ rcvd' = rcvd \cup {i}
  /\ hist' = [hist EXCEPT !.again = @ + (IF i \in rcvd \/ (rcvd # {} /\ i < hist.first)
                                         THEN 1 ELSE 0),
                           !.first = IF rcvd = {} THEN i ELSE @]
  /\ count < link.sent + 1
  /\ UNCHANGED <<sendVars, clockVars, net, losses, pcVars, rtt_, xr_rtt,
                 jumped, offset>>

(* A NACK for one packet: the ring answers, the packet may come again.     *)
Nack(s) ==
  /\ "nack" \in link.rtcp
  /\ HandleRtcpNack({s})
  /\ UNCHANGED <<recvVars, clockVars, net, losses, pcVars, rtt_, xr_rtt, rcvd,
                 jumped, offset, hist>>

-----------------------------------------------------------------------------
(* OnTimer of the sending PeerConnection: SendOnTimer, then SendXrDlrr.    *)

DlrrDue == last_send_xr_dlrr_ms_ # Never /\ now - last_send_xr_dlrr_ms_ >= XrGap

DlrrPacket(lrr, delay) ==
  [kind |-> "dlrr", lrr |-> lrr, dlrr |-> delay, at |-> now,
   flown |-> hist.rrtFlown]

SendXrDlrr ==
  IF DlrrDue /\ last_xr_ms_ # Never /\ now - last_xr_ms_ <= XrFresh
  THEN {DlrrPacket(last_xr_ntp_, Units(now - last_xr_ms_))}
  ELSE {}

SenderTimer ==
  /\ "send" \in due /\ due' = due \ {"send"}
  /\ SendOnTimer
  /\ Transmit((IF sr' THEN {SrPacket} ELSE {}) \cup SendXrDlrr)
  /\ last_send_xr_dlrr_ms_' = IF last_send_xr_dlrr_ms_ = Never \/ DlrrDue
                              THEN now ELSE last_send_xr_dlrr_ms_
  /\ UNCHANGED <<recvVars, now, start, link, last_rr_ms_, last_xr_ms_, last_xr_ntp_,
                 rtt_, xr_rtt, rcvd, jumped, offset, hist>>

(* OnTimer of the receiving one: SendXrRrt, RequestKeyFrame, SendRr.       *)

RrDue == last_rr_ms_ # Never /\ now - last_rr_ms_ >= RrGap

RrPacket == [kind |-> "rr", block |-> RrBlock(now), at |-> now,
             flown |-> hist.srFlown]
RrtPacket == [kind |-> "rrt", ntp |-> Compact(now), at |-> now]
SendXrRrt == {RrtPacket}

ReceiverTimer ==
  /\ "recv" \in due /\ due' = due \ {"recv"}
  /\ last_keyframe_ms_' = KeyFrameAt(now)
  /\ last_rr_ms_' = IF last_rr_ms_ = Never \/ RrDue THEN now ELSE last_rr_ms_
  /\ IF RrDue THEN GetPacketLost ELSE UNCHANGED lossVars
  /\ Transmit(SendXrRrt \cup (IF RrDue THEN {RrPacket} ELSE {}))
  /\ hist' = [hist EXCEPT
       !.pli = IF KeyFrameDue(now) THEN now ELSE @,
       !.base = IF RrDue /\ last_recv_ <= 0 THEN Cardinality(Holes) - hist.again ELSE @,
       !.skipped = @ \/ (RrDue /\ GetExpectedPackets < expect_recv_)]
  /\ UNCHANGED <<sendVars, seqVars, lsr_, last_sr_ms_, now, start, link,
                 last_xr_ms_, last_xr_ntp_, last_send_xr_dlrr_ms_, rtt_, xr_rtt, rcvd,
                 jumped, offset>>

(* PackHandleReset: the depacketiser found a hole; the request is followed *)
(* on the networks that carry it.                                          *)
AskKeyFrame ==
  /\ rcvd # {} /\ "pli" \in link.rtcp
  /\ RequestKeyFrameNow(now)
  /\ hist' = [hist EXCEPT !.pli = now]
  /\ UNCHANGED <<sendVars, clockVars, net, losses, pcVars, rtt_, xr_rtt, rcvd,
                 jumped, offset>>

-----------------------------------------------------------------------------
(* HandleRtcp of one packet, by its kind.                                  *)
Taken(m) == m \in net /\ net' = net \ {m} /\ UNCHANGED losses

DeliverSr(m) ==
  /\ m.kind = "sr" /\ Taken(m)
  /\ HandleRtcpSr(m.ntp, now)
  /\ hist' = [hist EXCEPT !.srFlown = now - m.at]
  /\ UNCHANGED <<sendVars, clockVars, pcVars, rtt_, xr_rtt, rcvd, jumped, offset>>

(* Mutant of Rtt: the time the report waited at the receiver is left in.   *)
RttWithDelay(block) ==
  LET compact == Compact(now)
  IN  IF block.dlsr # 0 /\ compact > block.lsr
      THEN (compact - block.lsr) % NtpMod ELSE 0

(* The round trip of RtcSendStream::HandleRtcpRr, in uint32_t.             *)
Rtt(block) ==
  LET compact == Compact(now)
      sum == (block.dlsr + block.lsr) % NtpMod
  IN  IF block.dlsr # 0 /\ compact > sum
      THEN (compact - block.dlsr - block.lsr) % NtpMod ELSE 0

DeliverRr(m) ==
  /\ m.kind = "rr" /\ Taken(m)
  /\ \E i \in Intervals : HandleRtcpRr(i)
  /\ rtt_' = IF m.block.lsr = 0 THEN NoRtt ELSE Rtt(m.block)
  /\ hist' = [hist EXCEPT !.rtt = m.flown + now - m.at]
  /\ UNCHANGED <<recvVars, clockVars, pcVars, xr_rtt, rcvd, jumped, offset>>

DeliverRrt(m) ==
  /\ m.kind = "rrt" /\ Taken(m)
  /\ last_xr_ntp_' = m.ntp /\ last_xr_ms_' = now
  /\ hist' = [hist EXCEPT !.rrtFlown = now - m.at]
  /\ UNCHANGED <<sendVars, recvVars, clockVars, last_rr_ms_,
                 last_send_xr_dlrr_ms_, rtt_, xr_rtt, rcvd, jumped, offset>>

(* Mutant of XrSample: the time RRT waited at the sender is left in.       *)
XrSampleWithDelay(m) ==
  LET compound == Compact(now)
  IN  IF compound < (m.dlrr + m.lrr) % NtpMod THEN xr_rtt
      ELSE (compound - m.lrr) % NtpMod

(* RtcRecvStream::HandleXrDlrr: no sample when the time has wrapped.       *)
XrSample(m) ==
  LET compound == Compact(now)
  IN  IF compound < (m.dlrr + m.lrr) % NtpMod THEN xr_rtt
      ELSE (compound - m.dlrr - m.lrr) % NtpMod

DeliverDlrr(m) ==
  /\ m.kind = "dlrr" /\ Taken(m)
  /\ xr_rtt' = XrSample(m)
  /\ hist' = [hist EXCEPT !.xr =
       IF Compact(now) < (m.dlrr + m.lrr) % NtpMod THEN @ ELSE m.flown + now - m.at]
  /\ UNCHANGED <<sendVars, recvVars, clockVars, pcVars, rtt_, rcvd, jumped, offset>>

(* A timer period passes once both timers have fired; packets that would   *)
(* be under way for too long are given up.                                 *)
Tick ==
  /\ due = {} /\ now < start + Horizon
  /\ now' = now + 1 /\ due' = {"send", "recv"}
  /\ net' = {m \in net : now - m.at < MaxDelay}
  /\ SendTick
  /\ UNCHANGED <<recvVars, start, link, losses, pcVars, rtt_, xr_rtt, rcvd, jumped,
                 offset, hist>>

Next ==
  \/ \E n \in 1 .. MaxBurst : Send(n)
  \/ \E j \in Jumps : Restart(j)
  \/ \E i \in 0 .. sent - 1 : Receive(i)
  \/ \E s \in 0 .. SendSeqMod - 1 : Nack(s)
  \/ SenderTimer \/ ReceiverTimer \/ AskKeyFrame
  \/ \E m \in net : DeliverSr(m) \/ DeliverRr(m) \/ DeliverRrt(m) \/ DeliverDlrr(m)
  \/ Tick

Spec == Init /\ [][Next]_reportVars

-----------------------------------------------------------------------------
ReportTypeOK ==
  /\ SendTypeOK
  /\ max_seq_ \in 0 .. RecvSeqMod - 1 /\ bad_seq_ \in 0 .. RecvSeqMod + 1
  /\ cycles_ % RecvSeqMod = 0 /\ total_lost_ \in Int
  /\ lsr_ \in 0 .. NtpMod - 1
  /\ \A m \in net : now - m.at \in 0 .. MaxDelay

(* The round-trip time the sender derives from a report is the time the    *)
(* two reports were under way, rounded by at most two units, or 0: across  *)
(* the wrap of the compact time it is never a huge value, and a report     *)
(* that is lost, late or out of order does not spoil it.                   *)
RttExactOrZero ==
  rtt_ \in {NoRtt, 0} \cup (Units(hist.rtt) .. Units(hist.rtt) + 2)

(* The same for the receiver's side, from RRT and DLRR.                    *)
XrRttExact ==
  xr_rtt = NoRtt \/ xr_rtt \in Units(hist.xr) .. Units(hist.xr) + 2

(* Until the sender restarts, the extended highest number of a report is   *)
(* that of the newest packet, however packets were reordered at the wrap.  *)
HighestRight ==
  rcvd # {} /\ jumped = 0 =>
    max_seq_ + cycles_ = SeqAt(hist.first) + Newest - hist.first

(* No loss is hidden: from the second report on the cumulative loss is at  *)
(* least the holes that have opened since the first, less the packets that *)
(* came twice or belong before the first one received. The exception is    *)
(* the interval in which the unsigned sum of GetExpectedPackets goes       *)
(* through 0 (once, at the first wrap of the number), or falls after a     *)
(* restart: it is left out altogether.                                     *)
NoLossHidden ==
  [][RrDue /\ last_rr_ms_' = now /\ last_rr_ms_' # last_rr_ms_
       /\ 0 < last_recv_ /\ ~hist'.skipped /\ jumped = 0
     => total_lost_' >= Cardinality(Holes) - hist.again - hist.base]_reportVars

(* A key frame is asked for at least every KeyGap, whatever the            *)
(* depacketiser asks for in between: a jitter buffer reset, which itself   *)
(* asks for nothing, leaves the picture broken no longer than that.        *)
KeyFrameSoon ==
  "recv" \notin due => hist.pli # Never /\ now - hist.pli < KeyGap

(* What each end knows of the other is right whatever the network does to  *)
(* the reports: the round trips, the highest number, and the packets that  *)
(* a number of a NACK stands for in the ring.                              *)
ReportsExact ==
  /\ ReportTypeOK /\ RttExactOrZero /\ XrRttExact /\ HighestRight
  /\ WindowRecoverable /\ OutIsCurrent
=============================================================================
