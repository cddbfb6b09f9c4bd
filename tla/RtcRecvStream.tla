---------------------------- MODULE RtcRecvStream ---------------------------
(***************************************************************************)
(* The statistics of one received RTP stream (rtc_recv_stream.cpp): the    *)
(* extended highest number, the count of lost packets, what a receiver     *)
(* report says of the last sender report, and the requests for key frames. *)
(* The list of missing packets that HandleRtpPacket also updates is module *)
(* NackGenerator; jitter, loss fraction and bit rates are left out.        *)
(*                                                                         *)
(* Time is counted in timer periods.  Compact is the middle 32 bits of an  *)
(* NTP time, NtpPerSec units to the second.                                *)
(***************************************************************************)
EXTENDS Integers

CONSTANTS
  RecvSeqMod,     \* RTP_SEQ_MOD (65536)
  MaxDropout,     \* MAX_DROPOUT (3000)
  MaxMisorder,    \* MAX_MISORDER (100)
  WordMod,        \* 2^32: cycles_, bad_seq_ and their sum are uint32_t
  LostMod,        \* 2^24: the cumulative loss of a report
  TicksPerSec,    \* timer periods in a second
  NtpPerSec,      \* compact NTP units in a second (65536)
  NtpMod,         \* 2^32: where the compact NTP time wraps
  KeyGap          \* REQ_KEYFRAME_INTERVAL (5 s)

ASSUME RecvConstants ==
  /\ RecvSeqMod \in Nat /\ MaxDropout \in Nat /\ MaxMisorder \in Nat
  /\ MaxDropout + MaxMisorder < RecvSeqMod
  /\ LostMod \in Nat /\ 0 < LostMod
  /\ WordMod \in Nat /\ 0 < WordMod /\ WordMod % RecvSeqMod = 0
  /\ TicksPerSec \in Nat /\ 0 < TicksPerSec /\ NtpPerSec \in Nat
  /\ NtpMod \in Nat /\ 0 < NtpMod /\ KeyGap \in Nat /\ 0 < KeyGap

VARIABLES
  first_pkt_, max_seq_, cycles_, bad_seq_,
  count,              \* statics_.GetCount()
  expect_recv_, last_recv_, total_lost_,
  lsr_,               \* compact time of the last sender report, or 0
  last_sr_ms_,        \* when it came, or Never
  last_keyframe_ms_   \* when a key frame was last asked for, or Never

seqVars == <<first_pkt_, max_seq_, cycles_, bad_seq_, count>>
lossVars == <<expect_recv_, last_recv_, total_lost_>>
recvVars == <<seqVars, lossVars, lsr_, last_sr_ms_, last_keyframe_ms_>>

Never == -1

RecvInit ==
  /\ first_pkt_ = FALSE /\ max_seq_ = 0 /\ cycles_ = 0
  /\ bad_seq_ = RecvSeqMod + 1 /\ count = 0
  /\ expect_recv_ = 0 /\ last_recv_ = 0 /\ total_lost_ = 0
  /\ lsr_ = 0 /\ last_sr_ms_ = Never /\ last_keyframe_ms_ = Never

-----------------------------------------------------------------------------
(* millisec_to_ntp and the shifts around it: the fraction is rounded down. *)
Units(t) == (t \div TicksPerSec) * NtpPerSec
            + ((t % TicksPerSec) * NtpPerSec) \div TicksPerSec
Compact(t) == Units(t) % NtpMod

InitSeq(seq) ==
  /\ max_seq_' = seq /\ bad_seq_' = RecvSeqMod + 1 /\ cycles_' = 0

(* Mutant of UpdateSeq: the wrap is not counted when the number is 0.      *)
UpdateSeqZero(seq) ==
  LET udelta == (seq - max_seq_) % RecvSeqMod
  IN  IF udelta < MaxDropout
      THEN /\ cycles_' = IF seq < max_seq_ /\ seq # 0
                         THEN cycles_ + RecvSeqMod ELSE cycles_
           /\ max_seq_' = seq /\ UNCHANGED bad_seq_
      ELSE IF udelta > RecvSeqMod - MaxMisorder
      THEN UNCHANGED <<max_seq_, cycles_, bad_seq_>>
      ELSE IF seq = bad_seq_ THEN InitSeq(seq)
      ELSE bad_seq_' = (seq + 1) % RecvSeqMod /\ UNCHANGED <<max_seq_, cycles_>>

(* UpdateSeq: in order; late; or far off, where the second of two packets  *)
(* in a row is taken for a new start.                                      *)
UpdateSeq(seq) ==
  LET udelta == (seq - max_seq_) % RecvSeqMod
  IN  IF udelta < MaxDropout
      THEN /\ cycles_' = IF seq < max_seq_ THEN cycles_ + RecvSeqMod ELSE cycles_
           /\ max_seq_' = seq /\ UNCHANGED bad_seq_
      ELSE IF udelta > RecvSeqMod - MaxMisorder
      THEN UNCHANGED <<max_seq_, cycles_, bad_seq_>>
      ELSE IF seq = bad_seq_ THEN InitSeq(seq)
      ELSE bad_seq_' = (seq + 1) % RecvSeqMod /\ UNCHANGED <<max_seq_, cycles_>>

(* HandleRtpPacket, after RtxDemux has restored a retransmission.          *)
HandleRtpPacket(seq) ==
  /\ first_pkt_' = TRUE
  /\ IF first_pkt_ THEN UpdateSeq(seq) ELSE InitSeq(seq)
  /\ count' = count + 1
  /\ UNCHANGED <<lossVars, lsr_, last_sr_ms_, last_keyframe_ms_>>

(* GetExpectedPackets counts from bad_seq_, not from base_seq_, in 32 bits *)
(* without sign: the sum is "negative" until the number first wraps.       *)
GetExpectedPackets == (cycles_ + max_seq_ - bad_seq_ + 1) % WordMod

(* Mutant of GetPacketLost: an interval that does not count leaves the     *)
(* mark of what was expected behind, and the mark is one too far.          *)
GetPacketLostKeep ==
  LET expected == GetExpectedPackets
      first == last_recv_ <= 0
      counts == expected > expect_recv_ /\ count > last_recv_
  IN  /\ expect_recv_' = IF first \/ counts THEN expected + 1 ELSE expect_recv_
      /\ last_recv_' = count
      /\ total_lost_' = IF first \/ ~counts THEN total_lost_
           ELSE total_lost_ + (expected - expect_recv_) - (count - last_recv_)

(* GetPacketLost: an interval in which nothing was expected or nothing     *)
(* came is left out; the first one only sets the marks.                    *)
GetPacketLost ==
  LET expected == GetExpectedPackets
      counts == expected > expect_recv_ /\ count > last_recv_
  IN  /\ expect_recv_' = expected
      /\ last_recv_' = count
      /\ total_lost_' = IF last_recv_ <= 0 \/ ~counts THEN total_lost_
           ELSE total_lost_ + (expected - expect_recv_) - (count - last_recv_)

HandleRtcpSr(ntp, now) ==
  /\ lsr_' = ntp /\ last_sr_ms_' = now
  /\ UNCHANGED <<seqVars, lossVars, last_keyframe_ms_>>

(* SetCumulativeLost: the loss goes into 24 bits whatever its sign.        *)
LostField(lost) == lost % LostMod

(* GetRtcpRr.                                                              *)
RrBlock(now) ==
  [lsr |-> lsr_,
   dlsr |-> IF last_sr_ms_ = Never THEN 0 ELSE Units(now - last_sr_ms_),
   lost |-> LostField(IF last_recv_ <= 0 THEN 0 ELSE total_lost_'),
   highest |-> (max_seq_ + cycles_) % WordMod]

(* RequestKeyFrame of the timer: the first call asks, then one per KeyGap. *)
KeyFrameDue(now) == last_keyframe_ms_ = Never \/ now - last_keyframe_ms_ >= KeyGap

(* Mutant of KeyFrameAt: every call of the timer moves the mark.           *)
KeyFrameAtAlways(now) == now

KeyFrameAt(now) == IF KeyFrameDue(now) THEN now ELSE last_keyframe_ms_

(* RequestKeyFrame(-1), from PackHandleReset: asks at once.                *)
RequestKeyFrameNow(now) ==
  /\ last_keyframe_ms_' = now
  /\ UNCHANGED <<seqVars, lossVars, lsr_, last_sr_ms_>>
=============================================================================
