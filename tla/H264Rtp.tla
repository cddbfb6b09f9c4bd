------------------------------- MODULE H264Rtp ------------------------------
(***************************************************************************)
(* How RtcSendStream::SendH264Packet (rtc_send_stream.cpp) and the         *)
(* generators of rtp_h264_pack.cpp turn one NAL unit into RTP packets.     *)
(*                                                                         *)
(* A NAL unit is [type, len, id]: its type, its length in units that make  *)
(* PayloadMax small, and an identity.  Packets have the fields that        *)
(* PackHandleH264 reads; part = <<id, i, n>> is fragment i of the n of     *)
(* unit id.                                                                *)
(*                                                                         *)
(* RTP/H.264 depacketiser (pack_handle_h264.cpp) together with the two     *)
(* PeerConnection callbacks it drives: PackHandleReset, which asks for a   *)
(* key frame, and MediaPacketOutput, which gates the NAL units handed to   *)
(* the application.                                                        *)
(*                                                                         *)
(* An RTP packet is a record                                               *)
(*   ext    extended sequence number                                       *)
(*   kind   "single", "fua", "stapa" or "other" (the NAL type field)       *)
(*   s, e   start and end bit of a fragment                                *)
(*   nals   the NAL units, or the one fragment, it carries: records of a   *)
(*          NAL type and an opaque part                                    *)
(*   fault  what is wrong with an aggregate: "none", "parse" (a length     *)
(*          field exceeds the packet), "empty" (a NAL of length 0 follows) *)
(*   age    the time since it came in from the network (GetLocalMs)        *)
(* A NAL unit that is output is its type and the sequence of its parts;    *)
(* delivered keeps the places the units have in their packet.              *)
(*                                                                         *)
(* end_flag_ is a local of InputRtpPacket in all but name: it is raised    *)
(* and cleared within one call.                                            *)
(***************************************************************************)
EXTENDS Integers, Sequences, FiniteSets, Functions

CONSTANT PayloadMax   \* kPayloadMaxSize (1200 bytes)

ASSUME PayloadAssumption == PayloadMax \in Nat /\ 0 < PayloadMax

NalHeaderSize == 1

(* SplitNalu: the number of pieces of at most PayloadMax.                  *)
SplitNalu(payload_len) == (payload_len + PayloadMax - 1) \div PayloadMax

Packet(kind, s, e, nals) ==
  [kind |-> kind, s |-> s, e |-> e, nals |-> nals, fault |-> "none"]

SinglePacket(nal) ==
  Packet("single", FALSE, FALSE,
         <<[type |-> nal.type, part |-> <<nal.id, 1, 1>>]>>)

(* GenerateFuAPackets: the first piece has the S bit, the last the E bit.  *)
FuAPackets(nal) ==
  LET n == SplitNalu(nal.len - NalHeaderSize)
  IN  [i \in 1 .. n |->
         Packet("fua", i = 1, i = n,
                <<[type |-> nal.type, part |-> <<nal.id, i, n>>]>>)]

(* GenerateStapAPackets on the stored parameter sets.                      *)
StapAPacket(sps, pps) ==
  Packet("stapa", FALSE, FALSE,
         <<[type |-> "sps", part |-> <<sps, 1, 1>>],
           [type |-> "pps", part |-> <<pps, 1, 1>>]>>)

NoParam == 0

(* SendH264Packet after the early returns for SEI and parameter sets: the  *)
(* parameter sets travel in front of each key frame, when both are known.  *)
H264Packets(nal, sps, pps) ==
  (IF nal.type = "idr" /\ sps # NoParam /\ pps # NoParam
   THEN <<StapAPacket(sps, pps)>> ELSE <<>>)
  \o (IF nal.len <= PayloadMax THEN <<SinglePacket(nal)>> ELSE FuAPackets(nal))

-----------------------------------------------------------------------------
CONSTANTS
  PackTimeout,     \* PACK_BUFFER_TIMEOUT (600 ms), in ticks
  PackReportGap    \* least time between two PackHandleReset calls (500 ms)

ASSUME PackConstants ==
  PackTimeout \in Nat /\ 0 < PackTimeout /\ PackReportGap \in Nat

VARIABLES
  pack_init_,        \* PackHandleH264::init_flag_
  start_flag_,
  last_extend_seq_,
  packets_queue_,    \* fragments waiting for the end fragment, with ages
  pack_report_age,   \* time since PackHandleH264::report_lost_ts_
  find_keyframe_,    \* PeerConnection: drop everything up to a key frame
  delivered,         \* NAL units given to OnReceiveMediaPacket in this step
  pli,               \* RequestKeyFrame(-1) was called in this step
  damaged,           \* history: a loss was seen and no key frame since
  muted              \* history: ... and its report was throttled away

packVars == <<pack_init_, start_flag_, last_extend_seq_, packets_queue_,
              pack_report_age, find_keyframe_, delivered, pli, damaged, muted>>

PackInit ==
  /\ pack_init_ = FALSE /\ start_flag_ = FALSE /\ last_extend_seq_ = 0
  /\ packets_queue_ = <<>>
  /\ pack_report_age = PackReportGap + 1
  /\ find_keyframe_ = FALSE
  /\ delivered = <<>> /\ pli = FALSE
  /\ damaged = FALSE /\ muted = FALSE

-----------------------------------------------------------------------------
HasKey(nals) == \E i \in DOMAIN nals : nals[i].type = "idr"

(* Mutant of Gate: find_keyframe_ is not looked at.                        *)
GateOpen(nals) == Restrict(nals, {i \in DOMAIN nals : nals[i].type # "aud"})

(* MediaPacketOutput on each unit in turn: access-unit delimiters are      *)
(* dropped, and everything before a key frame while one is awaited.        *)
Gate(nals) ==
  Restrict(nals, {i \in DOMAIN nals :
                    /\ nals[i].type # "aud"
                    /\ find_keyframe_ => \E j \in 1 .. i : nals[j].type = "idr"})

(* Output some units, then call ReportLost if lost: PackHandleReset, at    *)
(* most once per PackReportGap.                                            *)
Output(nals, lost) ==
  LET report == lost /\ pack_report_age > PackReportGap
      await == find_keyframe_ /\ ~HasKey(nals)
  IN  /\ delivered' = Gate(nals)
      /\ pli' = report
      /\ pack_report_age' = IF report THEN 0 ELSE pack_report_age
      /\ find_keyframe_' = (report \/ await)
      /\ damaged' = (lost \/ (damaged /\ ~HasKey(nals)))
      /\ muted' = (\/ lost /\ ~report /\ ~await
                   \/ muted /\ ~HasKey(nals) /\ ~report)

Stale(q) == q.age >= PackTimeout

(* CheckFuaTimeout pops stale fragments from the front of the queue.       *)
CheckFuaTimeout(q) ==
  LET popped == {i \in DOMAIN q : \A j \in 1 .. i : Stale(q[j])}
  IN  SubSeq(q, Cardinality(popped) + 1, Len(q))

(* A fragment brings along the time it waited before the depacketiser saw  *)
(* it: one that is as old as the timeout already is popped at once.        *)
Fragment(pkt) == [ext |-> pkt.ext, s |-> pkt.s, e |-> pkt.e,
                  type |-> pkt.nals[1].type, part |-> pkt.nals[1].part,
                  age |-> IF pkt.age < PackTimeout THEN pkt.age ELSE PackTimeout]

(* Mutant of DemuxFua: the start bit of the first fragment is not checked. *)
DemuxFuaUnchecked(q) ==
  [ok |-> TRUE,
   nal |-> [type |-> q[1].type, parts |-> [i \in 1 .. Len(q) |-> q[i].part]]]

(* DemuxFua: the unit is complete when the queue still begins with a start *)
(* fragment; its last element is the end fragment just pushed.             *)
DemuxFua(q) ==
  [ok |-> q[1].s,
   nal |-> [type |-> q[1].type, parts |-> [i \in 1 .. Len(q) |-> q[i].part]]]

Continues(pkt) == pack_init_ => pkt.ext = last_extend_seq_ + 1

Whole(nals) ==
  [i \in 1 .. Len(nals) |->
     [type |-> nals[i].type, parts |-> <<nals[i].part>>]]

-----------------------------------------------------------------------------
(* InputRtpPacket: one action per path.                                    *)

(* Mutants of Discontinuity: the number after pkt is taken as the last     *)
(* one; the fragments before the hole stay in the queue.                   *)
DiscontinuityOffByOne(pkt) ==
  /\ ~Continues(pkt)
  /\ packets_queue_' = <<>> /\ start_flag_' = FALSE
  /\ last_extend_seq_' = pkt.ext + 1
  /\ Output(<<>>, TRUE)
  /\ UNCHANGED pack_init_
DiscontinuityKeepsQueue(pkt) ==
  /\ ~Continues(pkt)
  /\ last_extend_seq_' = pkt.ext
  /\ Output(<<>>, TRUE)
  /\ UNCHANGED <<pack_init_, packets_queue_, start_flag_>>

(* A hole before pkt: the unit being assembled is lost, and so is pkt.     *)
Discontinuity(pkt) ==
  /\ ~Continues(pkt)
  /\ packets_queue_' = <<>> /\ start_flag_' = FALSE
  /\ last_extend_seq_' = pkt.ext
  /\ Output(<<>>, TRUE)
  /\ UNCHANGED pack_init_

Accept(pkt) ==
  /\ Continues(pkt)
  /\ pack_init_' = TRUE /\ last_extend_seq_' = pkt.ext

SingleNalu(pkt) ==
  /\ pkt.kind = "single" /\ Accept(pkt)
  /\ Output(Whole(pkt.nals), FALSE)
  /\ UNCHANGED <<start_flag_, packets_queue_>>

(* DemuxStapA: a malformed aggregate is reported; the units in front of an *)
(* empty one have been output by then.                                     *)
StapA(pkt) ==
  /\ pkt.kind = "stapa" /\ Accept(pkt)
  /\ Output(IF pkt.fault = "parse" THEN <<>> ELSE Whole(pkt.nals),
            pkt.fault # "none")
  /\ UNCHANGED <<start_flag_, packets_queue_>>

(* Both bits set, or an end without a start: ResetRtpFua and ReportLost.   *)
FuaError(pkt) ==
  /\ pkt.kind = "fua" /\ Accept(pkt)
  /\ pkt.e /\ (pkt.s \/ ~start_flag_)
  /\ packets_queue_' = <<>> /\ start_flag_' = FALSE
  /\ Output(<<>>, TRUE)

FuaPush(pkt) ==
  /\ pkt.kind = "fua" /\ Accept(pkt)
  /\ ~pkt.e
  /\ start_flag_' = (pkt.s \/ start_flag_)
  /\ packets_queue_' =
       CheckFuaTimeout(Append(IF pkt.s THEN <<>> ELSE packets_queue_,
                              Fragment(pkt)))
  /\ Output(<<>>, FALSE)

FuaEnd(pkt) ==
  /\ pkt.kind = "fua" /\ Accept(pkt)
  /\ pkt.e /\ ~pkt.s /\ start_flag_
  /\ LET unit == DemuxFua(Append(packets_queue_, Fragment(pkt)))
     IN  Output(IF unit.ok THEN <<unit.nal>> ELSE <<>>, ~unit.ok)
  /\ packets_queue_' = <<>> /\ start_flag_' = FALSE

(* A NAL type the depacketiser does not know: silently ignored.            *)
Ignored(pkt) ==
  /\ pkt.kind = "other" /\ Accept(pkt)
  /\ Output(<<>>, FALSE)
  /\ UNCHANGED <<start_flag_, packets_queue_>>

PackInput(pkt) ==
  \/ Discontinuity(pkt) \/ SingleNalu(pkt) \/ StapA(pkt)
  \/ FuaError(pkt) \/ FuaPush(pkt) \/ FuaEnd(pkt) \/ Ignored(pkt)

(* The 100 ms timer, started by the constructor.                           *)
PackOnTimer ==
  /\ packets_queue_' = CheckFuaTimeout(packets_queue_)
  /\ delivered' = <<>> /\ pli' = FALSE
  /\ UNCHANGED <<pack_init_, start_flag_, last_extend_seq_, pack_report_age,
                 find_keyframe_, damaged, muted>>

PackTick ==
  /\ packets_queue_' = [i \in DOMAIN packets_queue_ |->
       [packets_queue_[i] EXCEPT !.age = IF @ < PackTimeout THEN @ + 1 ELSE @]]
  /\ pack_report_age' = IF pack_report_age > PackReportGap
                        THEN pack_report_age ELSE pack_report_age + 1
  /\ delivered' = <<>> /\ pli' = FALSE
  /\ UNCHANGED <<pack_init_, start_flag_, last_extend_seq_, find_keyframe_,
                 damaged, muted>>
=============================================================================
