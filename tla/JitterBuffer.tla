---------------------------- MODULE JitterBuffer ----------------------------
(***************************************************************************)
(* The RTP jitter buffer of src/src/net/webrtc/jitterbuffer.cpp, in an     *)
(* open environment: InputRtpPacket may be called with any wire sequence   *)
(* number at any time.  One action per path through InputRtpPacket; the    *)
(* synchronous callbacks made on a path are recorded in emitted (the       *)
(* extended numbers given to RtpPacketOutput, in ascending order) and in   *)
(* reported (RtpPacketReset was called).                                   *)
(*                                                                         *)
(* Time: an age is the time since a stamp, in ticks, saturating beyond     *)
(* every threshold it is compared with, so no clock is needed.             *)
(* OnTimer is no action: nothing calls StartTimer on a JitterBuffer, so    *)
(* its uv timer never runs and CheckTimeout is reached from the insertion  *)
(* path only.                                                              *)
(***************************************************************************)
EXTENDS Integers, FiniteSets, Functions

CONSTANTS
  RtpSeqMod,    \* RTP_SEQ_MOD, the number of wire sequence numbers (65536)
  MaxDropout,   \* MAX_DROPOUT (3000)
  MaxMisorder,  \* MAX_MISORDER (100)
  Timeout,      \* buffer_timeout_, in ticks (400 ms video, 100 ms audio)
  ReportGap,    \* least time between two RtpPacketReset calls (500 ms)
  AgeMax,       \* age at which a packet's age saturates
  MaxCycles,    \* bound: wraps of the sequence number that are explored
  MaxHeld       \* bound: packets in rtp_packets_map_ that are explored

ASSUME JitterConstants ==
  /\ RtpSeqMod \in Nat /\ MaxDropout \in Nat /\ MaxMisorder \in Nat
  /\ 0 < MaxDropout /\ 0 < MaxMisorder
  /\ MaxDropout + MaxMisorder <= RtpSeqMod
  /\ Timeout \in Nat /\ ReportGap \in Nat
  /\ AgeMax \in Nat /\ Timeout < AgeMax
  /\ MaxCycles \in Nat /\ MaxHeld \in Nat

VARIABLES
  init_flag_,   \* FALSE: the next packet is taken as the first of a stream
  max_seq_,     \* highest wire number seen in this cycle
  bad_seq_,     \* the number that would confirm a restart of the sender
  cycles_,      \* RtpSeqMod times the wraps counted
  held,         \* rtp_packets_map_: extended number -> age of the packet
  output_seq_,  \* extended number of the last packet handed over
  report_age,   \* time since report_lost_ts_
  emitted,      \* extended numbers handed over in this step
  reported,     \* RtpPacketReset was called in this step
  disturbed,    \* history: a packet timed out or a resync happened
  rearmed       \* history: output_seq_ was re-based and held not visited since

vars == <<init_flag_, max_seq_, bad_seq_, cycles_, held, output_seq_,
          report_age, emitted, reported, disturbed, rearmed>>

Seqs == 0 .. RtpSeqMod - 1
NoBadSeq == RtpSeqMod + 1

Init ==
  /\ init_flag_ = FALSE
  /\ max_seq_ = 0 /\ bad_seq_ = NoBadSeq /\ cycles_ = 0
  /\ held = [k \in {} |-> 0]
  /\ output_seq_ = 0
  /\ report_age = ReportGap + 1
  /\ emitted = {} /\ reported = FALSE
  /\ disturbed = FALSE /\ rearmed = FALSE

-----------------------------------------------------------------------------
(* UpdateSeq: the RFC 3550 classification of a wire number.                *)

UDelta(seq) == (seq - max_seq_) % RtpSeqMod

InOrder(seq) == UDelta(seq) < MaxDropout

LargeJump(seq) == ~InOrder(seq) /\ UDelta(seq) <= RtpSeqMod - MaxMisorder

(* Mutant of Cycles: a wrap counts one number too few.                     *)
CyclesOffByOne(seq) ==
  IF InOrder(seq) /\ seq < max_seq_ THEN cycles_ + RtpSeqMod - 1 ELSE cycles_

Cycles(seq) ==
  IF InOrder(seq) /\ seq < max_seq_ THEN cycles_ + RtpSeqMod ELSE cycles_

ExtendSeq(seq) == Cycles(seq) + seq

(* The part of UpdateSeq that accepts a packet: in order, or reordered.    *)
AcceptSeq(seq) ==
  /\ init_flag_ /\ ~LargeJump(seq)
  /\ Cycles(seq) <= MaxCycles * RtpSeqMod
  /\ max_seq_' = IF InOrder(seq) THEN seq ELSE max_seq_
  /\ cycles_' = Cycles(seq)
  /\ UNCHANGED <<init_flag_, bad_seq_>>

InitSeq(seq) ==
  /\ max_seq_' = seq /\ bad_seq_' = NoBadSeq /\ cycles_' = 0

(* ReportLost, called when lost holds: throttled to one call per ReportGap *)
ReportLost(lost) ==
  LET now == lost /\ report_age > ReportGap
  IN  /\ reported' = now
      /\ report_age' = IF now THEN 0 ELSE report_age

-----------------------------------------------------------------------------
(* Which held packets one call hands over.                                 *)

Without(f, S) == Restrict(f, DOMAIN f \ S)

(* Mutant of EndsRun: the held packets behind e are not drained.           *)
EndsRunNoDrain(keys, e, m) == m = e

(* The drain loop after a continued packet e starts at the lowest key and  *)
(* stops at the first one that is not the successor of the last output:    *)
(* m ends the run.  A key at or below e at the front stops it at once.     *)
EndsRun(keys, e, m) ==
  IF \E k \in keys : k <= e
  THEN m = e
  ELSE /\ (e + 1) .. m \subseteq keys
       /\ m + 1 \notin keys

Expired(h, k) == h[k] > Timeout

(* One more than the last key of the map.                                  *)
KeysEnd(keys) == IF keys = {} THEN 0 ELSE 1 + CHOOSE k \in keys : \A j \in keys : j <= k

(* Mutants of CheckTimeout: the packets that follow an expired one are     *)
(* left; everything goes.                                                  *)
CheckTimeoutNoRun(h, out) ==
  LET gone == {k \in DOMAIN h : Expired(h, k)}
  IN  [gone |-> gone, last |-> IF gone = {} THEN out ELSE KeysEnd(gone) - 1]
CheckTimeoutAll(h, out) == [gone |-> DOMAIN h, last |-> KeysEnd(DOMAIN h) - 1]

(* CheckTimeout walks the map upwards: it takes every expired packet, and  *)
(* every packet that is the successor of the last output at that point.    *)
(* walk[n] is what it has taken of the keys below n, and output_seq_ then. *)
CheckTimeout(h, out) ==
  LET walk[n \in 0 .. KeysEnd(DOMAIN h)] ==
        IF n = 0 THEN [gone |-> {}, last |-> out]
        ELSE LET so == walk[n - 1]
             IN IF n - 1 \in DOMAIN h /\ (Expired(h, n - 1) \/ n - 1 = so.last + 1)
                THEN [gone |-> so.gone \cup {n - 1}, last |-> n - 1]
                ELSE so
  IN walk[KeysEnd(DOMAIN h)]

-----------------------------------------------------------------------------
(* InputRtpPacket                                                          *)

(* !init_flag_: output at once; rtp_packets_map_ is left as it is.         *)
FirstPacket(seq) ==
  /\ ~init_flag_
  /\ init_flag_' = TRUE
  /\ InitSeq(seq)
  /\ ReportLost(TRUE)
  /\ output_seq_' = seq /\ emitted' = {seq}
  /\ rearmed' = TRUE
  /\ UNCHANGED <<held, disturbed>>

(* Mutant of SuspectPacket: the successor is not reduced modulo 2^16.      *)
SuspectPacketNoMask(seq) ==
  /\ init_flag_ /\ LargeJump(seq) /\ seq # bad_seq_
  /\ bad_seq_' = seq + 1
  /\ emitted' = {} /\ reported' = FALSE
  /\ UNCHANGED <<init_flag_, max_seq_, cycles_, held, output_seq_,
                 report_age, disturbed, rearmed>>

(* A very large jump: dropped, and remembered in bad_seq_.                 *)
SuspectPacket(seq) ==
  /\ init_flag_ /\ LargeJump(seq) /\ seq # bad_seq_
  /\ bad_seq_' = (seq + 1) % RtpSeqMod
  /\ emitted' = {} /\ reported' = FALSE
  /\ UNCHANGED <<init_flag_, max_seq_, cycles_, held, output_seq_,
                 report_age, disturbed, rearmed>>

(* The number after a dropped one: the sender restarted.  InputRtpPacket   *)
(* also clears init_flag_, so that the next packet is a first one again.   *)
ResyncPacket(seq) ==
  /\ init_flag_ /\ LargeJump(seq) /\ seq = bad_seq_
  /\ init_flag_' = FALSE
  /\ InitSeq(seq)
  /\ ReportLost(TRUE)
  /\ output_seq_' = seq /\ emitted' = {seq}
  /\ disturbed' = TRUE /\ rearmed' = TRUE
  /\ UNCHANGED held

(* The successor of the last output, and the run of held ones behind it.   *)
ContinuedPacket(seq) ==
  /\ AcceptSeq(seq)
  /\ ExtendSeq(seq) = output_seq_ + 1
  /\ \E m \in ExtendSeq(seq) .. ExtendSeq(seq) + Cardinality(DOMAIN held) :
       /\ EndsRun(DOMAIN held, ExtendSeq(seq), m)
       /\ output_seq_' = m
       /\ emitted' = ExtendSeq(seq) .. m
       /\ held' = Without(held, (ExtendSeq(seq) + 1) .. m)
  /\ reported' = FALSE /\ rearmed' = FALSE
  /\ UNCHANGED <<report_age, disturbed>>

(* Mutant of OldPacket: a late packet is handed over all the same.         *)
OldPacketRewinds(seq) ==
  /\ AcceptSeq(seq)
  /\ ExtendSeq(seq) <= output_seq_
  /\ emitted' = {ExtendSeq(seq)} /\ output_seq_' = ExtendSeq(seq)
  /\ reported' = FALSE
  /\ UNCHANGED <<held, report_age, disturbed, rearmed>>

OldPacket(seq) ==
  /\ AcceptSeq(seq)
  /\ ExtendSeq(seq) <= output_seq_
  /\ emitted' = {} /\ reported' = FALSE
  /\ UNCHANGED <<held, output_seq_, report_age, disturbed, rearmed>>

(* Ahead of the next expected packet: held, then CheckTimeout.             *)
HoldPacket(seq) ==
  /\ AcceptSeq(seq)
  /\ ExtendSeq(seq) > output_seq_ + 1
  /\ Cardinality(DOMAIN held \cup {ExtendSeq(seq)}) <= MaxHeld
  /\ LET h == [k \in DOMAIN held \cup {ExtendSeq(seq)} |->
                 IF k = ExtendSeq(seq) THEN 0 ELSE held[k]]
         end == CheckTimeout(h, output_seq_)
         lost == \E k \in end.gone : Expired(h, k)
     IN /\ emitted' = end.gone
        /\ held' = Without(h, end.gone)
        /\ output_seq_' = end.last
        /\ ReportLost(lost)
        /\ disturbed' = (disturbed \/ lost) /\ rearmed' = FALSE

InputRtpPacket(seq) ==
  \/ FirstPacket(seq) \/ SuspectPacket(seq) \/ ResyncPacket(seq)
  \/ ContinuedPacket(seq) \/ OldPacket(seq) \/ HoldPacket(seq)

Older(age, cap) == IF age < cap THEN age + 1 ELSE age

Tick ==
  /\ held' = [k \in DOMAIN held |-> Older(held[k], AgeMax)]
  /\ report_age' = Older(report_age, ReportGap + 1)
  /\ emitted' = {} /\ reported' = FALSE
  /\ UNCHANGED <<init_flag_, max_seq_, bad_seq_, cycles_, output_seq_,
                 disturbed, rearmed>>

Next == Tick \/ \E seq \in Seqs : InputRtpPacket(seq)

Spec == Init /\ [][Next]_vars

-----------------------------------------------------------------------------
(* Type invariant: every field stays in its C++ range; extended numbers    *)
(* are natural and below the first number of the cycle after this one,     *)
(* except those left behind by a resync, which restarts at cycle 0.        *)
TypeOK ==
  /\ init_flag_ \in BOOLEAN
  /\ max_seq_ \in Seqs
  /\ bad_seq_ \in Seqs \cup {NoBadSeq}
  /\ cycles_ \in Nat
  /\ IsFiniteSet(DOMAIN held) /\ DOMAIN held \subseteq Nat
  /\ held \in [DOMAIN held -> 0 .. AgeMax]
  /\ output_seq_ \in Nat
  /\ report_age \in 0 .. ReportGap + 1
  /\ emitted \subseteq Nat
  /\ reported \in BOOLEAN /\ disturbed \in BOOLEAN /\ rearmed \in BOOLEAN

(* Until the first timeout or resync the buffer is a perfect reorderer:    *)
(* what it holds is ahead of a real hole, never a packet at or below the   *)
(* last output and never the next one to hand over.                        *)
HeldBehindHole ==
  ~disturbed => \A k \in DOMAIN held : k > output_seq_ + 1

(* Until then each call hands over exactly the numbers that follow the     *)
(* last output, none missing, none repeated (RtpPacketOutput's order is    *)
(* what PackHandleH264 relies on: a hole makes it drop a frame).           *)
Gapless ==
  [][~disturbed' /\ init_flag_ =>
       emitted' = (output_seq_ + 1) .. output_seq_']_vars

(* Once disturbed, the next packet to hand over may sit in the map only    *)
(* because a stale key in front of it stops the drain loop, or because     *)
(* output_seq_ was re-based under the map and nothing has visited it yet.  *)
PromptDelivery ==
  output_seq_ + 1 \in DOMAIN held =>
     rearmed \/ \E k \in DOMAIN held : k <= output_seq_

(* A step other than a resync moves output_seq_ back only to release held  *)
(* packets that were overtaken by later ones that timed out first, and     *)
(* hands over nothing from the network in that step.                       *)
BackwardsOnlyFromMap ==
  [][init_flag_ /\ init_flag_' /\ output_seq_' < output_seq_ =>
       /\ emitted' \subseteq DOMAIN held
       /\ \E k \in emitted' : Expired(held, k)]_vars
=============================================================================
