---------------------------- MODULE VideoReceive ----------------------------
(***************************************************************************)
(* The video receive path of PeerConnection: JitterBuffer hands packets to *)
(* RtpPacketOutput, which feeds PackHandleH264, whose units pass the key   *)
(* frame gate of MediaPacketOutput; RtpPacketReset only writes a log line. *)
(* The packets come from the packetiser of RtcSendStream, through a        *)
(* network that loses, repeats and reorders them within the dropout and    *)
(* misorder windows; an aggregate may have been rewritten badly by a relay *)
(* in between; the sender may restart with another number.                 *)
(*                                                                         *)
(* One call of InputRtpPacket runs its callbacks to completion; here the   *)
(* packets it emits go to pending, and nothing else happens until pending  *)
(* is empty.                                                               *)
(***************************************************************************)
EXTENDS JitterBuffer, H264Rtp

CONSTANTS
  Scripts,       \* what the source may send: sequences of [type, len]
  Faults,        \* faults of an aggregate, "none" included
  StartSeqs,     \* numbers at which the sender may start
  Jumps,         \* by how much a restart moves the sender's number
  MaxRestarts    \* bound: restarts of the sender

NalTypes == {"slice", "idr", "sei", "sps", "pps", "aud"}

ASSUME StreamAssumption ==
  /\ Scripts \subseteq Seq([type : NalTypes, len : Nat])
  /\ StartSeqs \subseteq Seqs /\ Jumps \subseteq Nat
  /\ MaxRestarts \in Nat
  /\ "none" \in Faults /\ Faults \subseteq {"none", "parse", "empty", "unknown"}
  /\ PackTimeout <= AgeMax

VARIABLES
  src_seq,    \* next number of the sender
  script,     \* the script of this behaviour
  src_units,  \* NAL units sent
  sps_, pps_, \* identity of the stored parameter sets
  stream,     \* RTP packets sent, in order; each with its number and era
  restarts,   \* restarts so far
  newest,     \* highest position delivered so far, or 0
  payload,    \* extended number -> position of the packet held under it
  pending,    \* the same for packets emitted and not yet depacketised
  waited,     \* the ages of the pending packets
  handed,     \* history: position of the last packet depacketised, or 0
  origin,     \* history: era -> number minus position of its first packet
  straggler   \* history: a stray was depacketised since the queue was empty

srcVars == <<src_seq, script, src_units, sps_, pps_, stream, restarts>>
videoVars == <<vars, packVars, srcVars, newest, payload, pending, waited,
               handed, origin, straggler>>

VInit ==
  /\ Init /\ PackInit
  /\ src_seq \in StartSeqs
  /\ script \in Scripts
  /\ src_units = <<>> /\ sps_ = NoParam /\ pps_ = NoParam
  /\ stream = <<>> /\ restarts = 0
  /\ newest = 0 /\ payload = [k \in {} |-> 0] /\ pending = payload
  /\ waited = payload
  /\ handed = 0 /\ origin = payload /\ straggler = FALSE

(* No packet reaches the depacketiser in this step.                        *)
PackIdle ==
  /\ delivered' = <<>>
  /\ UNCHANGED <<pack_init_, start_flag_, last_extend_seq_, packets_queue_,
                 pack_report_age, find_keyframe_, damaged, muted>>

(* PeerConnection::RtpPacketReset, called or not: a log line, no PLI.      *)
RtpPacketReset == pli' = FALSE

(* SendH264Packet of the next unit: SEI is skipped, parameter sets are     *)
(* stored, the rest is packetised and sent.                                *)
SendUnit ==
  LET u == script[Len(src_units) + 1]
      nal == [type |-> u.type, len |-> u.len, id |-> Len(src_units) + 1,
              era |-> restarts]
      pkts == IF u.type \in {"sei", "sps", "pps"} THEN <<>>
              ELSE H264Packets(nal, sps_, pps_)
  IN  /\ DOMAIN pending = {} /\ Len(src_units) < Len(script)
      /\ src_units' = Append(src_units, nal)
      /\ sps_' = IF u.type = "sps" THEN nal.id ELSE sps_
      /\ pps_' = IF u.type = "pps" THEN nal.id ELSE pps_
      /\ stream' = stream \o
           [i \in DOMAIN pkts |->
              [pkt |-> pkts[i], seq |-> (src_seq + i - 1) % RtpSeqMod,
               era |-> restarts]]
      /\ src_seq' = (src_seq + Len(pkts)) % RtpSeqMod
      /\ emitted' = {} /\ reported' = FALSE /\ PackIdle /\ pli' = FALSE
      /\ UNCHANGED <<init_flag_, max_seq_, bad_seq_, cycles_, held,
                     output_seq_, report_age, disturbed, rearmed, script,
                     restarts, newest, payload, pending, waited, handed,
                     origin, straggler>>

Restart(j) ==
  /\ DOMAIN pending = {} /\ restarts < MaxRestarts /\ stream # <<>>
  /\ src_seq' = (src_seq + j) % RtpSeqMod
  /\ restarts' = restarts + 1
  /\ emitted' = {} /\ reported' = FALSE /\ PackIdle /\ pli' = FALSE
  /\ UNCHANGED <<init_flag_, max_seq_, bad_seq_, cycles_, held, output_seq_,
                 report_age, disturbed, rearmed, script, src_units, sps_, pps_,
                 stream, newest, payload, pending, waited, handed, origin,
                 straggler>>

InWindow(n) ==
  newest # 0 => newest - MaxMisorder < n /\ n < newest + MaxDropout

(* What InputRtpPacket does with a packet: the number it gives it, whether *)
(* it drops it, and whether it puts it into rtp_packets_map_.              *)
Number(seq) == IF init_flag_ /\ ~LargeJump(seq) THEN ExtendSeq(seq) ELSE seq
Drops(seq) ==
  init_flag_ /\ IF LargeJump(seq) THEN seq # bad_seq_
                ELSE ExtendSeq(seq) <= output_seq_
Holds(seq) == init_flag_ /\ ~LargeJump(seq) /\ ExtendSeq(seq) > output_seq_ + 1

(* A packet reaches PeerConnection::OnReceiveRtp -> InputRtpPacket.        *)
Receive(n) ==
  LET seq == stream[n].seq
      era == stream[n].era
  IN  /\ DOMAIN pending = {} /\ InWindow(n)
      /\ InputRtpPacket(seq)
      /\ newest' = IF n > newest THEN n ELSE newest
      /\ payload' = [k \in DOMAIN held' |->
                       IF Holds(seq) /\ k = Number(seq) THEN n ELSE payload[k]]
      /\ pending' = [k \in emitted' |-> IF k = Number(seq) THEN n ELSE payload[k]]
      /\ waited' = [k \in emitted' |-> IF k = Number(seq) THEN 0 ELSE held[k]]
      /\ origin' = IF Drops(seq) \/ era \in DOMAIN origin THEN origin
                   ELSE [e \in DOMAIN origin \cup {era} |->
                           IF e = era THEN Number(seq) - n ELSE origin[e]]
      /\ RtpPacketReset /\ PackIdle
      /\ UNCHANGED <<srcVars, handed, straggler>>

(* The packet under number k as it arrives; "unknown" is an aggregate of a *)
(* type that the depacketiser does not know.                               *)
OnWire(k, fault) ==
  LET p == stream[pending[k]].pkt
  IN  [ext |-> k, kind |-> IF fault = "unknown" THEN "other" ELSE p.kind,
       s |-> p.s, e |-> p.e, nals |-> p.nals, fault |-> fault,
       age |-> waited[k]]

(* A stray is numbered differently from the first packet of its era, or    *)
(* comes out of the buffer after a packet of a later era.                  *)
Stray(k) ==
  LET era == stream[pending[k]].era
  IN  \/ k - pending[k] # origin[era]
      \/ handed # 0 /\ era < stream[handed].era

(* RtpPacketOutput on the next packet of the call, the lowest of them.     *)
Depacketise(k, fault) ==
  /\ \A j \in DOMAIN pending : k <= j
  /\ fault = "none" \/ stream[pending[k]].pkt.kind = "stapa"
  /\ PackInput(OnWire(k, fault))
  /\ pending' = Without(pending, {k}) /\ waited' = Without(waited, {k})
  /\ handed' = pending[k]
  /\ straggler' = (Stray(k) \/ (straggler /\ packets_queue_ # <<>>))
  /\ reported' = FALSE
  /\ UNCHANGED <<init_flag_, max_seq_, bad_seq_, cycles_, held, output_seq_,
                 report_age, emitted, disturbed, rearmed, srcVars, newest,
                 payload, origin>>

FragmentTimer ==
  /\ DOMAIN pending = {} /\ PackOnTimer
  /\ emitted' = {} /\ reported' = FALSE
  /\ UNCHANGED <<init_flag_, max_seq_, bad_seq_, cycles_, held, output_seq_,
                 report_age, disturbed, rearmed, srcVars, newest, payload,
                 pending, waited, handed, origin, straggler>>

TimePasses ==
  /\ DOMAIN pending = {} /\ Tick /\ PackTick
  /\ UNCHANGED <<srcVars, newest, payload, pending, waited, handed, origin,
                 straggler>>

VNext ==
  \/ SendUnit
  \/ \E j \in Jumps : Restart(j)
  \/ \E n \in DOMAIN stream : Receive(n)
  \/ \E k \in DOMAIN pending, fault \in Faults : Depacketise(k, fault)
  \/ FragmentTimer \/ TimePasses

VSpec == VInit /\ [][VNext]_videoVars

-----------------------------------------------------------------------------
(* The ages and positions are in range, and between two calls the last     *)
(* number the depacketiser saw is the last one the jitter buffer output:   *)
(* the two components agree on what is the next packet.                    *)
VideoTypeOK ==
  /\ last_extend_seq_ \in 0 .. (MaxCycles + 1) * RtpSeqMod - 1
  /\ DOMAIN pending = {} => last_extend_seq_ = output_seq_
  /\ pack_report_age \in 0 .. PackReportGap + 1
  /\ \A i \in DOMAIN packets_queue_ : packets_queue_[i].age \in 0 .. PackTimeout
  /\ \A k \in DOMAIN payload : payload[k] \in DOMAIN stream
  /\ \A k \in DOMAIN pending : pending[k] \in DOMAIN stream
  /\ DOMAIN waited = DOMAIN pending
  /\ \A k \in DOMAIN waited : waited[k] \in 0 .. AgeMax

EraOf(part) == src_units[part[1]].era

(* Into how many packets a unit goes; parameter sets are never split.      *)
Pieces(unit) ==
  IF unit.len <= PayloadMax \/ unit.type \in {"sps", "pps"} THEN 1
  ELSE SplitNalu(unit.len - NalHeaderSize)

(* Every unit the application receives over the whole path is one that was *)
(* sent, complete and unmixed, in spite of timeouts, wrong cycle counts    *)
(* and restarts upstream of the depacketiser.  Two things remain possible: *)
(* after a restart, fragments from before and after it are joined          *)
(* (DemuxFua compares no timestamps); and a stray takes the place of a     *)
(* fragment, or of the hole it left: a packet that came late over the wrap *)
(* of the number and was counted a cycle too high, or one from before a    *)
(* restart.                                                                *)
ReceivedIntact ==
  \A d \in DOMAIN delivered :
    LET parts == delivered[d].parts IN
    ~straggler /\ (\A i \in DOMAIN parts : EraOf(parts[i]) = EraOf(parts[1])) =>
      \E u \in DOMAIN src_units :
        /\ delivered[d].type = src_units[u].type
        /\ parts = [i \in 1 .. Pieces(src_units[u]) |->
                      <<u, i, Pieces(src_units[u])>>]

(* While fragments of one era wait for their end fragment they are a       *)
(* contiguous run of packets: no hole inside, so no two units are ever     *)
(* spliced (strays excepted, as above).                                    *)
QueueContiguous ==
  ~straggler => \A i \in 1 .. Len(packets_queue_) - 1 :
    EraOf(packets_queue_[i + 1].part) = EraOf(packets_queue_[i].part) =>
      packets_queue_[i + 1].ext = packets_queue_[i].ext + 1

(* After a loss the application sees nothing until a key frame, unless the *)
(* loss fell into the PackReportGap after an earlier report, when          *)
(* ReportLost says nothing and the gate stays open.                        *)
GateHolds ==
  [][damaged /\ ~muted =>
       \A i \in DOMAIN delivered' :
         \E j \in DOMAIN delivered' :
           j <= i /\ delivered'[j].type = "idr"]_videoVars

(* Without a restart, a packet in the jitter buffer is numbered right or   *)
(* exactly one cycle too high: never too low, never by more.               *)
AtMostOneCycleHigh ==
  restarts = 0 =>
    /\ \A k \in DOMAIN payload : k - (origin[0] + payload[k]) \in {0, RtpSeqMod}
    /\ \A k \in DOMAIN pending : k - (origin[0] + pending[k]) \in {0, RtpSeqMod}

(* The receive path as a whole: jitter buffer and depacketiser agree on    *)
(* the next packet, waiting fragments have no hole, numbers are at most a  *)
(* cycle high, and so only whole units of the sender are handed on.        *)
PathIntact ==
  /\ VideoTypeOK /\ QueueContiguous /\ ReceivedIntact /\ AtMostOneCycleHigh
=============================================================================
