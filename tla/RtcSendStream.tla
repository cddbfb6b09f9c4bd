---------------------------- MODULE RtcSendStream ---------------------------
(***************************************************************************)
(* The sending side of one RTP stream (rtc_send_stream.cpp): numbering,    *)
(* the ring of sent packets from which NACKs are answered, and the sender  *)
(* reports.  A packet is [seq, idx]: its 16-bit number and, to tell the    *)
(* generations of a number apart, its position in the stream.              *)
(***************************************************************************)
EXTENDS Integers, FiniteSets

CONSTANTS
  SendSeqMod,    \* number of wire sequence numbers (65536)
  RingSize,      \* SEND_BUFFER_SIZE (2048)
  NackEnable,    \* nack_enable_
  HasRtx,        \* has_rtx_
  FirstSeq,      \* seq_ of the first packet
  Intervals,     \* values of the resend interval (avg_rtt_), in ticks
  ResendSlack,   \* the 10 ms added to the time since the last resend
  SrGap,         \* 500 ms between sender reports
  MaxBurst,      \* bound: RTP packets of one media packet
  MaxSent        \* bound: packets sent

ASSUME SendConstants ==
  /\ SendSeqMod \in Nat /\ RingSize \in Nat /\ 0 < RingSize
  /\ SendSeqMod % RingSize = 0 /\ 0 < SendSeqMod
  /\ NackEnable \in BOOLEAN /\ HasRtx \in BOOLEAN
  /\ FirstSeq \in 0 .. SendSeqMod - 1
  /\ Intervals \subseteq Nat /\ Intervals # {} /\ IsFiniteSet(Intervals)
  /\ ResendSlack \in Nat /\ SrGap \in Nat /\ MaxSent \in Nat
  /\ MaxBurst \in 0 .. SendSeqMod   \* one picture does not use a number twice

VARIABLES
  seq_,           \* the next number, a uint16_t
  sent,           \* number of packets sent so far: position of the next one
  send_buffer_,   \* slot -> NoPacket or [seq, idx, age]; age: since last_ms
  interval,       \* avg_rtt_ / 2, or avg_rtt_ up to 10 ms
  sr_started,     \* last_sr_ts_ # 0
  sr_age,         \* time since last_sr_ts_
  out,            \* RTP packets given to SendRtpPacket in this step
  sr              \* a sender report was given to SendRtcpPacket in this step

sendVars == <<seq_, sent, send_buffer_, interval, sr_started, sr_age, out, sr>>

NoPacket == [seq |-> -1, idx |-> -1, age |-> -1]
NeverResent == -1
AgeCap == CHOOSE m \in Intervals : \A i \in Intervals : i <= m

SendInit ==
  /\ seq_ = FirstSeq /\ sent = 0
  /\ send_buffer_ = [i \in 0 .. RingSize - 1 |-> NoPacket]
  /\ interval \in Intervals
  /\ sr_started = FALSE /\ sr_age = SrGap + 1
  /\ out = {} /\ sr = FALSE

Slot(seq) == seq % RingSize

(* The first RTP packet of a stream is preceded by a sender report.        *)
FirstReport(n) ==
  /\ sr' = (n > 0 /\ ~sr_started)
  /\ sr_started' = (sr_started \/ n > 0)
  /\ sr_age' = IF n > 0 /\ ~sr_started THEN 0 ELSE sr_age

(* Mutant of SaveBuffer: a taken slot is not overwritten.                  *)
SaveBufferKeepsOld(n) ==
  [i \in 0 .. RingSize - 1 |->
     LET here == {k \in 0 .. n - 1 : Slot((seq_ + k) % SendSeqMod) = i}
     IN  IF send_buffer_[i] # NoPacket \/ here = {} THEN send_buffer_[i]
         ELSE LET k == CHOOSE k \in here : TRUE
              IN  [seq |-> (seq_ + k) % SendSeqMod, idx |-> sent + k,
                   age |-> NeverResent]]

(* SaveBuffer for the n packets just numbered; of those that share a slot  *)
(* the last one stays.                                                     *)
SaveBuffer(n) ==
  [i \in 0 .. RingSize - 1 |->
     LET here == {k \in 0 .. n - 1 : Slot((seq_ + k) % SendSeqMod) = i}
     IN  IF ~NackEnable \/ here = {} THEN send_buffer_[i]
         ELSE LET k == CHOOSE k \in here : \A j \in here : j <= k
              IN  [seq |-> (seq_ + k) % SendSeqMod, idx |-> sent + k,
                   age |-> NeverResent]]

(* Mutant of SendVideoPacket: seq_ is wider than 16 bits.                  *)
SendVideoPacketWide(n) ==
  /\ sent + n <= MaxSent
  /\ seq_' = seq_ + n
  /\ sent' = sent + n
  /\ send_buffer_' = SaveBuffer(n)
  /\ out' = {} /\ FirstReport(n)
  /\ UNCHANGED interval

(* SendPacket of a video packet that makes n RTP packets.                  *)
SendVideoPacket(n) ==
  /\ sent + n <= MaxSent
  /\ seq_' = (seq_ + n) % SendSeqMod
  /\ sent' = sent + n
  /\ send_buffer_' = SaveBuffer(n)
  /\ out' = {[seq |-> (seq_ + k) % SendSeqMod, idx |-> sent + k, rtx |-> FALSE] :
               k \in 0 .. n - 1}
  /\ FirstReport(n)
  /\ UNCHANGED interval

(* ResendRtpPacket answers when the slot holds the very number asked for   *)
(* and the packet was not resent too recently.                             *)
Answerable(seq) ==
  LET p == send_buffer_[Slot(seq)]
  IN  /\ p # NoPacket /\ p.seq = seq
      /\ p.age = NeverResent \/ p.age + ResendSlack >= interval

HandleRtcpNack(seqs) ==
  LET resend == {s \in seqs : NackEnable /\ Answerable(s)}
      slots == {Slot(s) : s \in resend}
  IN  /\ out' = {[seq |-> send_buffer_[i].seq, idx |-> send_buffer_[i].idx,
                  rtx |-> HasRtx] : i \in slots}
      /\ send_buffer_' = [i \in 0 .. RingSize - 1 |->
           IF i \in slots THEN [send_buffer_[i] EXCEPT !.age = 0]
           ELSE send_buffer_[i]]
      /\ sr' = FALSE
      /\ UNCHANGED <<seq_, sent, interval, sr_started, sr_age>>

(* A receiver report moves the smoothed round-trip time.                   *)
HandleRtcpRr(i) ==
  /\ interval' = i /\ out' = {} /\ sr' = FALSE
  /\ UNCHANGED <<seq_, sent, send_buffer_, sr_started, sr_age>>

SendOnTimer ==
  /\ sr' = (sr_age > SrGap)
  /\ sr_age' = IF sr' THEN 0 ELSE sr_age
  /\ sr_started' = (sr_started \/ sr')
  /\ out' = {}
  /\ UNCHANGED <<seq_, sent, send_buffer_, interval>>

SendTick ==
  /\ sr_age' = IF sr_age > SrGap THEN sr_age ELSE sr_age + 1
  /\ send_buffer_' = [i \in 0 .. RingSize - 1 |->
       [send_buffer_[i] EXCEPT !.age = IF 0 <= @ /\ @ < AgeCap THEN @ + 1 ELSE @]]
  /\ out' = {} /\ sr' = FALSE
  /\ UNCHANGED <<seq_, sent, interval, sr_started>>

-----------------------------------------------------------------------------
WireSeq(idx) == (FirstSeq + idx) % SendSeqMod

SendTypeOK ==
  /\ seq_ \in 0 .. SendSeqMod - 1 /\ sent \in Nat
  /\ \A i \in 0 .. RingSize - 1 :
       send_buffer_[i] = NoPacket \/
       (send_buffer_[i].seq \in 0 .. SendSeqMod - 1 /\ send_buffer_[i].idx \in Nat)
  /\ interval \in Intervals /\ sr_age \in 0 .. SrGap + 1

(* The ring keeps exactly the last RingSize video packets, each where its  *)
(* own number looks for it, across the wrap of the number.                 *)
WindowRecoverable ==
  NackEnable =>
    \A idx \in 0 .. sent - 1 :
      LET p == send_buffer_[Slot(WireSeq(idx))]
      IN  IF idx >= sent - RingSize
          THEN p.idx = idx /\ p.seq = WireSeq(idx)
          ELSE p.idx > idx

(* What is sent, first time or again, carries its own number, and a resend *)
(* is of the newest packet with that number: never of an older generation. *)
OutIsCurrent ==
  \A p \in out :
    /\ p.seq = WireSeq(p.idx) /\ p.idx < sent
    /\ \A j \in p.idx + 1 .. sent - 1 : WireSeq(j) # p.seq
=============================================================================
