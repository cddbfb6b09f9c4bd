-------------------------------- MODULE Nack --------------------------------
(***************************************************************************)
(* The receiver's list of missing packets (nack_generator.cpp): numbers    *)
(* skipped by a packet are listed, late packets are taken off the list,    *)
(* and a 10 ms timer requests what is listed, at most once per round trip  *)
(* and at most RetryMax + 1 times.                                         *)
(*                                                                         *)
(* An entry is [age, retry]; age is the time since sent_ms, saturating at  *)
(* Rtt.  A new entry has sent_ms = 0, long ago: its age is Rtt.            *)
(*                                                                         *)
(* The generic NACK feedback message of rtcpfb_nack.hpp: InsertSeqList and *)
(* InsertBlock build it from the sorted list of lost numbers, GetLostSeqs  *)
(* reads it back.  A block is a packet identifier and a bitmap; the bitmap *)
(* is the set of its bits, bit 0 the least significant.                    *)
(***************************************************************************)
EXTENDS Integers, Sequences, FiniteSets, Functions

CONSTANTS
  NackSeqMod,   \* number of wire sequence numbers (65536)
  Rtt,          \* rtt_, in ticks: NACK_DEFAULT_RTT (15 ms); UpdateRtt has no caller
  RetryMax,     \* NACK_RETRY_MAX (20)
  ListMax,      \* NACK_LIST_MAX (5000)
  MaskBits,     \* width of lost_bitmap (16)
  BlockMax      \* blocks that fit RtcpFbNack::data ((1500 - 12) / 4)

ASSUME NackConstants ==
  /\ NackSeqMod \in Nat /\ 1 < NackSeqMod
  /\ Rtt \in Nat /\ RetryMax \in Nat /\ ListMax \in Nat
  /\ MaskBits \in Nat /\ 0 < MaskBits /\ MaskBits < NackSeqMod
  /\ BlockMax \in Nat

VARIABLES
  nack_init_,   \* init_flag_
  last_seq_,
  nack_map_,    \* wire number -> [age, retry]
  requested     \* numbers passed to GenerateNackList in this step

nackVars == <<nack_init_, last_seq_, nack_map_, requested>>

NackSeqs == 0 .. NackSeqMod - 1
Half == (NackSeqMod - 1) \div 2

NackInit ==
  /\ nack_init_ = FALSE /\ last_seq_ = 0
  /\ nack_map_ = [s \in {} |-> 0] /\ requested = {}

SeqLowerThan(a, b) == (a > b /\ a - b > Half) \/ (a < b /\ b - a <= Half)

(* Mutant of Skipped: the loop starts one number too late.                 *)
SkippedLate(last, seq) ==
  {s \in NackSeqs : (last + 2) % NackSeqMod <= s /\ s < seq}

(* The loop "add seqs in nack list" runs from last_seq_ + 1, a uint16_t,   *)
(* while it is below seq: across the wrap it does not run at all.          *)
Skipped(last, seq) == {s \in NackSeqs : (last + 1) % NackSeqMod <= s /\ s < seq}

NewEntry == [age |-> Rtt, retry |-> 0]

-----------------------------------------------------------------------------
NackFirst(seq) ==
  /\ ~nack_init_
  /\ nack_init_' = TRUE /\ last_seq_' = seq
  /\ UNCHANGED nack_map_

(* The number received last, again.                                        *)
NackRepeated(seq) ==
  /\ nack_init_ /\ seq = last_seq_
  /\ UNCHANGED <<nack_init_, last_seq_, nack_map_>>

(* Mutant of NackLate: the entry is not erased.                            *)
NackLateKeeps(seq) ==
  /\ nack_init_ /\ seq # last_seq_ /\ SeqLowerThan(seq, last_seq_)
  /\ UNCHANGED <<nack_init_, last_seq_, nack_map_>>

(* A late packet: no longer missing.                                       *)
NackLate(seq) ==
  /\ nack_init_ /\ seq # last_seq_ /\ SeqLowerThan(seq, last_seq_)
  /\ nack_map_' = Restrict(nack_map_, DOMAIN nack_map_ \ {seq})
  /\ UNCHANGED <<nack_init_, last_seq_>>

(* A packet ahead; what lies between is listed, unless it is already.      *)
NackAhead(seq) ==
  /\ nack_init_ /\ seq # last_seq_ /\ ~SeqLowerThan(seq, last_seq_)
  /\ last_seq_' = seq
  /\ nack_map_' = [s \in DOMAIN nack_map_ \cup Skipped(last_seq_, seq) |->
                     IF s \in DOMAIN nack_map_ THEN nack_map_[s] ELSE NewEntry]
  /\ UNCHANGED nack_init_

UpdateNackList(seq) ==
  /\ NackFirst(seq) \/ NackRepeated(seq) \/ NackLate(seq) \/ NackAhead(seq)
  /\ requested' = {}

(* Mutant of Kept: one retry more.                                         *)
KeptLonger == {s \in DOMAIN nack_map_ : nack_map_[s].retry <= RetryMax + 1}

(* OnTimer: drop what was requested often enough, request what is due, and *)
(* erase the lowest numbers of a list that is too long.                    *)
Kept == {s \in DOMAIN nack_map_ : nack_map_[s].retry <= RetryMax}
Due == {s \in Kept : nack_map_[s].age >= Rtt}
Trimmed(S) ==
  {s \in S : Cardinality({t \in S : t >= s}) <= ListMax}

(* Mutant of NackOnTimer: retry is not counted.                            *)
NackOnTimerNoCount ==
  /\ requested' = Due
  /\ nack_map_' = [s \in Trimmed(Kept) |->
                     IF s \in Due THEN [age |-> 0, retry |-> nack_map_[s].retry]
                     ELSE nack_map_[s]]
  /\ UNCHANGED <<nack_init_, last_seq_>>

NackOnTimer ==
  /\ requested' = Due
  /\ nack_map_' = [s \in Trimmed(Kept) |->
                     IF s \in Due
                     THEN [age |-> 0, retry |-> nack_map_[s].retry + 1]
                     ELSE nack_map_[s]]
  /\ UNCHANGED <<nack_init_, last_seq_>>

NackTick ==
  /\ nack_map_' = [s \in DOMAIN nack_map_ |->
       [nack_map_[s] EXCEPT !.age = IF @ < Rtt THEN @ + 1 ELSE @]]
  /\ requested' = {}
  /\ UNCHANGED <<nack_init_, last_seq_>>

-----------------------------------------------------------------------------
Bits == 0 .. MaskBits - 1

(* The std::map is walked in the order of its keys: the k-th number is the *)
(* one with k numbers up to it.                                            *)
Rank(S, s) == Cardinality({t \in S : t <= s})
Sorted(S) == [k \in 1 .. Cardinality(S) |-> CHOOSE s \in S : Rank(S, s) = k]

(* InsertSeqList closes a block with the first number more than MaskBits   *)
(* above the block's first; that number is still put into the block.       *)
CloseAt(list, j) ==
  IF \E i \in j .. Len(list) : list[i] - list[j] > MaskBits
  THEN CHOOSE i \in j .. Len(list) :
         /\ list[i] - list[j] > MaskBits
         /\ \A k \in j .. i - 1 : list[k] - list[j] <= MaskBits
  ELSE Len(list)

(* The positions in the list at which a block begins: the first one, and   *)
(* the one after the last of every block.                                  *)
BlockStarts(list) ==
  {i \in 1 .. Len(list) :
     \A B \in SUBSET (1 .. Len(list)) :
       /\ 1 \in B
       /\ \A j \in B : CloseAt(list, j) < Len(list) => CloseAt(list, j) + 1 \in B
       => i \in B}

Deltas(list, j) == {list[i] - list[j] : i \in j + 1 .. CloseAt(list, j)}

Overflows(list, j) == \E d \in Deltas(list, j) : d > MaskBits

(* InsertBlock: delta d sets bit MaskBits - d.  A delta above MaskBits is  *)
(* a shift by a negative count: undefined, any single bit or none may come *)
(* out of it; stray is that outcome.                                       *)
Bitmap(list, j, stray) ==
  {MaskBits - d : d \in {x \in Deltas(list, j) : x <= MaskBits}}
  \cup (IF Overflows(list, j) THEN stray[j] ELSE {})

(* Mutant of GetLostSeqs: the identifier itself is left out.               *)
GetLostSeqsNoId(id, bitmap) == {(id + 1 + b) % NackSeqMod : b \in bitmap}

(* GetLostSeqs: the identifier, and identifier + 1 + b for every bit b.    *)
GetLostSeqs(id, bitmap) ==
  {id} \cup {(id + 1 + b) % NackSeqMod : b \in bitmap}

(* What the receiver of a message for the set lost reads in it.            *)
Requests(lost, stray) ==
  LET list == Sorted(lost)
  IN  UNION {GetLostSeqs(list[j], Bitmap(list, j, stray)) :
               j \in BlockStarts(list)}

(* The outcomes of the undefined shifts in that message.                   *)
Strays(lost) ==
  LET list == Sorted(lost)
  IN  [{j \in BlockStarts(list) : Overflows(list, j)} ->
         {{}} \cup {{b} : b \in Bits}]

(* InsertBlock does not check the room in data.  One block too many is     *)
(* written over the members behind it: such a message may ask for anything.*)
Fits(lost) == Cardinality(BlockStarts(Sorted(lost))) <= BlockMax

Feedback(lost) ==
  IF Fits(lost) THEN {Requests(lost, stray) : stray \in Strays(lost)}
  ELSE SUBSET NackSeqs
=============================================================================
