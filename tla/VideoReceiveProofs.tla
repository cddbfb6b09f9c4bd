------------------------ MODULE VideoReceiveProofs -------------------------
(***************************************************************************)
(* First the jitter buffer, for every sequence-number space, every         *)
(* dropout, misorder and timeout setting and every bound.  HeldBehindHole  *)
(* is not inductive as it stands: a first packet re-bases output_seq_, so  *)
(* the argument needs to know that an undisturbed buffer still waiting for *)
(* its first packet is empty (CleanStart).                                 *)
(*                                                                         *)
(* Then the video receive path: it delivers whole units only, and nothing  *)
(* behind a reported loss before a key frame, for every size of the number *)
(* space, of the windows and of the payload, every script and any number   *)
(* of restarts.                                                            *)
(***************************************************************************)
EXTENDS VideoReceive, TLAPS, FiniteSetTheorems, SequenceTheorems, WellFoundedInduction

-----------------------------------------------------------------------------
(* The jitter buffer alone.                                                *)

CleanStart == ~init_flag_ /\ ~disturbed => DOMAIN held = {}

IInv == TypeOK /\ CleanStart /\ HeldBehindHole /\ PromptDelivery

-----------------------------------------------------------------------------
(* The packets that CheckTimeout takes, without the walk: the expired ones *)
(* and the run of the last output, each with the run that follows it.      *)
TimedOut(h, out) ==
  {k \in DOMAIN h :
     \E j \in DOMAIN h :
       /\ j <= k /\ j .. k \subseteq DOMAIN h
       /\ \/ Expired(h, j)
          \/ j = out + 1 /\ \A i \in DOMAIN h : i < j => ~Expired(h, i)}

LastOf(S, old, m) ==
  IF S = {} THEN m = old ELSE m \in S /\ \A k \in S : k <= m

(* What a classified wire number may be.                                   *)
LEMMA SeqTypes ==
  ASSUME TypeOK, NEW seq \in Seqs
  PROVE  /\ seq \in Nat
         /\ Cycles(seq) \in Nat
         /\ ExtendSeq(seq) \in Nat
         /\ (seq + 1) % RtpSeqMod \in Seqs
BY JitterConstants DEF TypeOK, Seqs, Cycles, ExtendSeq

(* The closed form is a set of held keys; it leaves no expired packet, and *)
(* never the successor of the last packet it takes.                        *)
LEMMA TimedOutFacts ==
  ASSUME NEW h, NEW out \in Nat, DOMAIN h \subseteq Nat,
         NEW m \in TimedOut(h, out) \cup {out},
         LastOf(TimedOut(h, out), out, m)
  PROVE  /\ TimedOut(h, out) \subseteq DOMAIN h
         /\ m \in Nat
         /\ \A k \in DOMAIN h : Expired(h, k) => k \in TimedOut(h, out)
         /\ m + 1 \notin DOMAIN h \ TimedOut(h, out)
<1> DEFINE R == TimedOut(h, out)
<1>1. R \subseteq DOMAIN h /\ m \in Nat
  BY DEF TimedOut
<1>2. ASSUME NEW k \in DOMAIN h, Expired(h, k) PROVE k \in R
  <2>1. k <= k /\ k .. k \subseteq DOMAIN h
    OBVIOUS
  <2> QED BY <2>1, <1>2 DEF TimedOut
<1>3. ASSUME m + 1 \in DOMAIN h, m + 1 \notin R PROVE FALSE
  <2>1. CASE R = {}
    <3>1. m = out
      BY <2>1 DEF LastOf
    <3>2. \A i \in DOMAIN h : ~Expired(h, i)
      BY <1>2, <2>1
    <3>3. out + 1 <= out + 1 /\ (out + 1) .. (out + 1) \subseteq DOMAIN h
      BY <3>1, <1>3
    <3>4. out + 1 \in R
      BY <3>1, <3>2, <3>3, <1>3 DEF TimedOut
    <3> QED BY <3>4, <2>1
  <2>2. CASE R # {}
    <3>1. m \in R
      BY <2>2 DEF LastOf
    <3>2. PICK j \in DOMAIN h :
            /\ j <= m /\ j .. m \subseteq DOMAIN h
            /\ \/ Expired(h, j)
               \/ j = out + 1 /\ \A i \in DOMAIN h : i < j => ~Expired(h, i)
      BY <3>1 DEF TimedOut
    <3>3. j <= m + 1 /\ j .. (m + 1) \subseteq DOMAIN h
      BY <3>2, <1>1, <1>3
    <3>4. m + 1 \in R
      BY <3>2, <3>3, <1>3 DEF TimedOut
    <3> QED BY <3>4, <1>3
  <2> QED BY <2>1, <2>2
<1> QED BY <1>1, <1>2, <1>3

(* Removing keys from the map keeps a finite set of natural keys.          *)
LEMMA WithoutType ==
  ASSUME NEW h, NEW S, IsFiniteSet(DOMAIN h), DOMAIN h \subseteq Nat,
         h \in [DOMAIN h -> 0 .. AgeMax]
  PROVE  /\ DOMAIN Without(h, S) = DOMAIN h \ S
         /\ IsFiniteSet(DOMAIN Without(h, S))
         /\ DOMAIN Without(h, S) \subseteq Nat
         /\ Without(h, S) \in [DOMAIN Without(h, S) -> 0 .. AgeMax]
<1>1. DOMAIN Without(h, S) = DOMAIN h \ S
  BY DEF Without, Restrict
<1>2. IsFiniteSet(DOMAIN h \ S)
  BY FS_Subset
<1> QED BY <1>1, <1>2 DEF Without, Restrict

-----------------------------------------------------------------------------
LEMMA InitIInv == Init => IInv
<1> SUFFICES ASSUME Init PROVE IInv
  OBVIOUS
<1>1. DOMAIN held = {} /\ IsFiniteSet(DOMAIN held)
  BY FS_EmptySet DEF Init
<1>2. held \in [DOMAIN held -> 0 .. AgeMax]
  BY <1>1 DEF Init
<1>3. /\ init_flag_ \in BOOLEAN /\ reported \in BOOLEAN
      /\ disturbed \in BOOLEAN /\ rearmed \in BOOLEAN /\ emitted \subseteq Nat
  BY DEF Init
<1>4. max_seq_ \in Seqs /\ cycles_ \in Nat /\ output_seq_ \in Nat
  BY JitterConstants DEF Init, Seqs
<1>5. bad_seq_ \in Seqs \cup {NoBadSeq} /\ report_age \in 0 .. ReportGap + 1
  BY JitterConstants DEF Init
<1>6. TypeOK
  BY <1>1, <1>2, <1>3, <1>4, <1>5 DEF TypeOK
<1> QED BY <1>1, <1>6 DEF IInv, CleanStart, HeldBehindHole, PromptDelivery

-----------------------------------------------------------------------------
(* One lemma per path of InputRtpPacket: it preserves IInv, and satisfies  *)
(* the step formulas of Gapless and BackwardsOnlyFromMap.                  *)

GaplessStep ==
  ~disturbed' /\ init_flag_ => emitted' = (output_seq_ + 1) .. output_seq_'

BackwardsStep ==
  init_flag_ /\ init_flag_' /\ output_seq_' < output_seq_ =>
    /\ emitted' \subseteq DOMAIN held
    /\ \E k \in emitted' : Expired(held, k)

StepOK == IInv' /\ GaplessStep /\ BackwardsStep

LEMMA FirstStep ==
  ASSUME IInv, NEW seq \in Seqs, FirstPacket(seq) PROVE StepOK
<1> USE DEF FirstPacket, InitSeq, ReportLost
<1>1. seq \in Nat
  BY SeqTypes DEF IInv
<1>2. TypeOK'
  BY <1>1, JitterConstants DEF IInv, TypeOK, Seqs, NoBadSeq
<1>3. CleanStart' /\ PromptDelivery' /\ GaplessStep /\ BackwardsStep
  BY DEF CleanStart, PromptDelivery, GaplessStep, BackwardsStep
<1>4. HeldBehindHole'
  BY DEF IInv, CleanStart, HeldBehindHole
<1> QED BY <1>2, <1>3, <1>4 DEF StepOK, IInv

LEMMA SuspectStep ==
  ASSUME IInv, NEW seq \in Seqs, SuspectPacket(seq) PROVE StepOK
<1> USE DEF SuspectPacket
<1>1. (seq + 1) % RtpSeqMod \in Seqs
  BY SeqTypes DEF IInv
<1>2. TypeOK'
  BY <1>1 DEF IInv, TypeOK
<1>3. CleanStart' /\ PromptDelivery' /\ HeldBehindHole'
  BY DEF IInv, CleanStart, PromptDelivery, HeldBehindHole
<1>4. GaplessStep /\ BackwardsStep
  BY DEF IInv, TypeOK, GaplessStep, BackwardsStep
<1> QED BY <1>2, <1>3, <1>4 DEF StepOK, IInv

LEMMA ResyncStep ==
  ASSUME IInv, NEW seq \in Seqs, ResyncPacket(seq) PROVE StepOK
<1> USE DEF ResyncPacket, InitSeq, ReportLost
<1>1. seq \in Nat
  BY SeqTypes DEF IInv
<1>2. TypeOK'
  <2>1. /\ init_flag_' \in BOOLEAN /\ disturbed' \in BOOLEAN
        /\ rearmed' \in BOOLEAN /\ reported' \in BOOLEAN
    BY DEF IInv, TypeOK
  <2>2. report_age' \in 0 .. ReportGap + 1
    BY JitterConstants DEF IInv, TypeOK
  <2>3. held' = held /\ output_seq_' = seq /\ emitted' = {seq}
        /\ max_seq_' = seq /\ bad_seq_' = NoBadSeq /\ cycles_' = 0
    OBVIOUS
  <2> QED BY <1>1, <2>1, <2>2, <2>3 DEF IInv, TypeOK
<1>3. CleanStart' /\ PromptDelivery' /\ HeldBehindHole'
  BY DEF CleanStart, PromptDelivery, HeldBehindHole
<1>4. GaplessStep /\ BackwardsStep
  BY DEF GaplessStep, BackwardsStep
<1> QED BY <1>2, <1>3, <1>4 DEF StepOK, IInv

LEMMA ContinuedStep ==
  ASSUME IInv, NEW seq \in Seqs, ContinuedPacket(seq) PROVE StepOK
<1> DEFINE e == ExtendSeq(seq)
<1>1. /\ AcceptSeq(seq) /\ e = output_seq_ + 1 /\ e \in Nat
      /\ Cycles(seq) \in Nat /\ TypeOK
      /\ reported' = FALSE /\ rearmed' = FALSE
      /\ report_age' = report_age /\ disturbed' = disturbed
  BY SeqTypes DEF ContinuedPacket, IInv
<1>2. PICK m \in e .. e + Cardinality(DOMAIN held) :
        /\ EndsRun(DOMAIN held, e, m)
        /\ output_seq_' = m /\ emitted' = e .. m
        /\ held' = Without(held, (e + 1) .. m)
  BY DEF ContinuedPacket
<1>3. m \in Nat /\ e <= m
  BY <1>1, <1>2, FS_CardinalityType DEF TypeOK
<1>4. DOMAIN held' = DOMAIN held \ ((e + 1) .. m)
  BY <1>1, <1>2, WithoutType DEF TypeOK
<1>5. TypeOK'
  <2>1. /\ IsFiniteSet(DOMAIN held') /\ DOMAIN held' \subseteq Nat
        /\ held' \in [DOMAIN held' -> 0 .. AgeMax]
    BY <1>1, <1>2, WithoutType DEF TypeOK
  <2>2. max_seq_' \in Seqs /\ cycles_' \in Nat /\ init_flag_' = init_flag_
        /\ bad_seq_' = bad_seq_
    BY <1>1 DEF AcceptSeq, TypeOK
  <2>3. emitted' \subseteq Nat /\ output_seq_' \in Nat
    BY <1>1, <1>2, <1>3
  <2> QED BY <1>1, <2>1, <2>2, <2>3 DEF TypeOK
<1>6. CleanStart'
  BY <1>1 DEF AcceptSeq, CleanStart
<1>7. HeldBehindHole'
  <2> SUFFICES ASSUME ~disturbed, NEW k \in DOMAIN held' PROVE k > m + 1
    BY <1>1, <1>2 DEF HeldBehindHole
  <2>1. \A j \in DOMAIN held : j > e
    BY <1>1 DEF IInv, HeldBehindHole
  <2>2. m + 1 \notin DOMAIN held
    BY <1>2, <2>1, <1>1 DEF EndsRun, TypeOK
  <2> QED BY <1>1, <1>3, <1>4, <2>1, <2>2 DEF TypeOK
<1>8. PromptDelivery'
  <2>1. CASE \E k \in DOMAIN held : k <= e
    <3>1. PICK k \in DOMAIN held : k <= e
      BY <2>1
    <3>2. m = e /\ output_seq_' = m
      BY <1>2, <2>1 DEF EndsRun
    <3>3. k \in DOMAIN held' /\ k <= output_seq_'
      BY <1>1, <1>4, <3>1, <3>2 DEF TypeOK
    <3> QED BY <3>3 DEF PromptDelivery
  <2>2. CASE ~ \E k \in DOMAIN held : k <= e
    BY <1>2, <1>4, <2>2 DEF EndsRun, PromptDelivery
  <2> QED BY <2>1, <2>2
<1>9. GaplessStep /\ BackwardsStep
  BY <1>1, <1>2, <1>3 DEF TypeOK, GaplessStep, BackwardsStep
<1> QED BY <1>5, <1>6, <1>7, <1>8, <1>9 DEF StepOK, IInv

LEMMA OldStep ==
  ASSUME IInv, NEW seq \in Seqs, OldPacket(seq) PROVE StepOK
<1> USE DEF OldPacket, AcceptSeq
<1>1. Cycles(seq) \in Nat
  BY SeqTypes DEF IInv
<1>2. TypeOK'
  BY <1>1 DEF IInv, TypeOK
<1>3. CleanStart' /\ PromptDelivery' /\ HeldBehindHole'
  BY DEF IInv, CleanStart, PromptDelivery, HeldBehindHole
<1>4. GaplessStep /\ BackwardsStep
  BY DEF IInv, TypeOK, GaplessStep, BackwardsStep
<1> QED BY <1>2, <1>3, <1>4 DEF StepOK, IInv

(* The walk of CheckTimeout and its closed form.                           *)

(* Every set of naturals that is not empty has a least element.            *)
LEMMA LeastOf ==
  ASSUME NEW T, T \subseteq Nat, T # {}
  PROVE  \E n \in T : \A m \in T : n <= m
<1>1. IsWellFoundedOn(OpToRel(<, Nat), Nat)
  BY Zenon, NatLessThanWellFounded
<1>2. \E n \in T : \A m \in T : <<m, n>> \notin OpToRel(<, Nat)
  BY Zenon, <1>1, WFMin
<1>3. \A n \in T, m \in T : <<m, n>> \notin OpToRel(<, Nat) => n <= m
  BY DEF OpToRel
<1> QED BY <1>2, <1>3

(* Induction on the elements of a set.                                     *)
LEMMA UpToEnd ==
  ASSUME NEW n \in Nat, NEW P, 0 \in P, \A i \in 0 .. n - 1 : i \in P => i + 1 \in P
  PROVE  \A i \in 0 .. n : i \in P
<1> DEFINE T == {i \in 0 .. n : i \notin P}
<1>1. T \subseteq Nat
  OBVIOUS
<1>2. CASE T # {}
  <2> HIDE DEF T
  <2>1. PICK i \in T : \A m \in T : i <= m
    BY <1>1, <1>2, LeastOf
  <2>2. i \in 0 .. n /\ i \notin P /\ i # 0 /\ i - 1 \in 0 .. n - 1
    BY <2>1 DEF T
  <2>3. i - 1 \in P
    BY <2>1, <2>2 DEF T
  <2> QED BY <2>2, <2>3
<1> QED BY <1>2

(* A finite set of naturals that is not empty has a greatest element.      *)
LEMMA GreatestOf ==
  ASSUME NEW n \in Nat, NEW S, S \subseteq 0 .. n, S # {}
  PROVE  \E m \in S : \A k \in S : k <= m
<1> DEFINE T == {n - k : k \in S}
<1>1. T \subseteq Nat /\ T # {}
  <2>1. \A k \in S : n - k \in Nat
    OBVIOUS
  <2> QED BY <2>1
<1>2. PICK t \in T : \A u \in T : t <= u
  <2> HIDE DEF T
  <2> QED BY <1>1, LeastOf
<1>3. PICK m \in S : t = n - m
  OBVIOUS
<1>4. ASSUME NEW k \in S PROVE k <= m
  <2>1. n - k \in T
    OBVIOUS
  <2>2. n - m <= n - k
    BY <1>2, <1>3, <2>1
  <2>3. k \in Nat /\ m \in Nat
    OBVIOUS
  <2> HIDE DEF T
  <2> QED BY <2>2, <2>3
<1> QED BY <1>4

LEMMA FiniteIsBounded ==
  ASSUME NEW S, S \subseteq Nat, IsFiniteSet(S)
  PROVE  \E n \in Nat : S \subseteq 0 .. n
<1>1. PICK c \in Nat : ExistsBijection(1 .. c, S)
  BY FS_CardinalityType
<1>0. PICK f : f \in Bijection(1 .. c, S)
  BY <1>1 DEF ExistsBijection
<1>2. f \in [1 .. c -> S] /\ \A s \in S : \E i \in 1 .. c : f[i] = s
  BY <1>0 DEF Bijection, Surjection
<1> DEFINE P == {i \in Nat : \E n \in Nat : \A j \in 1 .. i : j <= c => f[j] <= n}
<1>3. 0 \in P
  OBVIOUS
<1>4. ASSUME NEW i \in 0 .. c - 1, i \in P PROVE i + 1 \in P
  <2>1. PICK n \in Nat : \A j \in 1 .. i : j <= c => f[j] <= n
    BY <1>4
  <2>2. i + 1 \in 1 .. c
    OBVIOUS
  <2>3. f[i + 1] \in Nat
    BY <1>2, <2>2
  <2>4. \A j \in 1 .. i : f[j] \in Nat
    <3>1. \A j \in 1 .. i : j \in 1 .. c
      OBVIOUS
    <3> QED BY <1>2, <3>1
  <2>5. \A j \in 1 .. i + 1 : j <= c => f[j] <= n + f[i + 1]
    <3>1. TAKE j \in 1 .. i + 1
    <3>2. CASE j = i + 1
      BY <3>2, <2>3
    <3>3. CASE j # i + 1
      <4>1. j \in 1 .. i
        BY <3>3
      <4> QED BY <4>1, <2>1, <2>3, <2>4
    <3> QED BY <3>2, <3>3
  <2>6. n + f[i + 1] \in Nat
    BY <2>3
  <2> QED BY <2>5, <2>6
<1>5. c \in P
  <2>1. \A i \in 0 .. c : i \in P
    <3> HIDE DEF P
    <3> QED BY <1>3, <1>4, UpToEnd
  <2>2. c \in 0 .. c
    OBVIOUS
  <2> HIDE DEF P
  <2> QED BY <2>1, <2>2
<1>6. PICK n \in Nat : \A j \in 1 .. c : j <= c => f[j] <= n
  BY <1>5
<1>7. \A s \in S : s \in 0 .. n
  BY <1>2, <1>6
<1> QED BY <1>7

(* What the closed form says of the keys below n.                          *)
Below(h, out, n) == {k \in TimedOut(h, out) : k < n}
LastBelow(h, out, n) ==
  IF Below(h, out, n) = {} THEN out
  ELSE CHOOSE m \in Below(h, out, n) : \A k \in Below(h, out, n) : k <= m
Walked(h, out, n) == [gone |-> Below(h, out, n), last |-> LastBelow(h, out, n)]

LEMMA LastBelowFacts ==
  ASSUME NEW h, NEW out \in Nat, DOMAIN h \subseteq Nat, NEW n \in Nat
  PROVE  /\ LastOf(Below(h, out, n), out, LastBelow(h, out, n))
         /\ Below(h, out, n) \subseteq 0 .. n
         /\ LastBelow(h, out, n) \in Nat
<1> DEFINE S == Below(h, out, n)
<1>1. S \subseteq 0 .. n
  BY DEF Below, TimedOut
<1>2. CASE S = {}
  BY <1>1, <1>2 DEF LastOf, LastBelow
<1>3. CASE S # {}
  <2>1. \E m \in S : \A k \in S : k <= m
    <3> HIDE DEF S
    <3> QED BY <1>1, <1>3, GreatestOf
  <2>2. LastBelow(h, out, n) \in S /\ \A k \in S : k <= LastBelow(h, out, n)
    BY <1>3, <2>1 DEF LastBelow
  <2> QED BY <1>1, <1>3, <2>2 DEF LastOf
<1> QED BY <1>2, <1>3

(* Whether key n is taken depends on itself and on the last one taken.     *)
LEMMA TakesNext ==
  ASSUME NEW h, NEW out \in Nat, DOMAIN h \subseteq Nat, NEW n \in Nat
  PROVE  n \in TimedOut(h, out) <=>
           n \in DOMAIN h /\ (Expired(h, n) \/ n = LastBelow(h, out, n) + 1)
<1> DEFINE S == Below(h, out, n)
           m == LastBelow(h, out, n)
<1>1. LastOf(S, out, m) /\ S \subseteq 0 .. n /\ m \in Nat
  BY LastBelowFacts
<1>2. ASSUME n \in TimedOut(h, out), ~Expired(h, n) PROVE n = m + 1
  <2>1. PICK j \in DOMAIN h :
          /\ j <= n /\ j .. n \subseteq DOMAIN h
          /\ \/ Expired(h, j)
             \/ j = out + 1 /\ \A i \in DOMAIN h : i < j => ~Expired(h, i)
    BY <1>2 DEF TimedOut
  <2>2. CASE j = n
    <3>1. n = out + 1 /\ \A i \in DOMAIN h : i < n => ~Expired(h, i)
      BY <1>2, <2>1, <2>2
    <3>2. S = {}
      <4>1. ASSUME NEW k \in S PROVE FALSE
        <5>1. k < n /\ k \in TimedOut(h, out) /\ k \in Nat
          BY <4>1 DEF Below, TimedOut
        <5>2. PICK i \in DOMAIN h : i <= k /\ (Expired(h, i) \/ i = out + 1)
          BY <5>1 DEF TimedOut
        <5> QED BY <3>1, <5>1, <5>2
      <4> QED BY <4>1
    <3> QED BY <1>1, <3>1, <3>2 DEF LastOf
  <2>3. CASE j # n
    <3>1. j \in Nat /\ j <= n - 1 /\ n - 1 \in j .. n /\ j .. n - 1 \subseteq j .. n
      BY <2>1, <2>3
    <3>2. n - 1 \in DOMAIN h /\ j .. n - 1 \subseteq DOMAIN h
      BY <2>1, <3>1
    <3>3. n - 1 \in TimedOut(h, out)
      BY <2>1, <3>1, <3>2 DEF TimedOut
    <3>4. n - 1 \in S /\ \A k \in S : k <= n - 1
      BY <1>1, <3>1, <3>3 DEF Below
    <3>5. m \in S /\ \A k \in S : k <= m
      BY <1>1, <3>4 DEF LastOf
    <3> QED BY <1>1, <3>4, <3>5
  <2> QED BY <2>2, <2>3
<1>3. ASSUME n \in DOMAIN h, Expired(h, n) PROVE n \in TimedOut(h, out)
  <2>1. n <= n /\ n .. n \subseteq DOMAIN h
    BY <1>3
  <2> QED BY <1>3, <2>1 DEF TimedOut
<1>4. ASSUME n \in DOMAIN h, n = m + 1 PROVE n \in TimedOut(h, out)
  <2>1. CASE S = {}
    <3>1. n = out + 1
      BY <1>1, <1>4, <2>1 DEF LastOf
    <3>2. ASSUME NEW i \in DOMAIN h, i < n, Expired(h, i) PROVE FALSE
      <4>1. i <= i /\ i .. i \subseteq DOMAIN h
        BY <3>2
      <4>2. i \in TimedOut(h, out)
        BY <3>2, <4>1 DEF TimedOut
      <4> QED BY <2>1, <3>2, <4>2 DEF Below
    <3>3. n <= n /\ n .. n \subseteq DOMAIN h
      BY <1>4
    <3> QED BY <1>4, <3>1, <3>2, <3>3 DEF TimedOut
  <2>2. CASE S # {}
    <3>1. m \in TimedOut(h, out)
      BY <1>1, <2>2 DEF LastOf, Below
    <3>2. PICK j \in DOMAIN h :
            /\ j <= m /\ j .. m \subseteq DOMAIN h
            /\ \/ Expired(h, j)
               \/ j = out + 1 /\ \A i \in DOMAIN h : i < j => ~Expired(h, i)
      BY <3>1 DEF TimedOut
    <3>3. j <= n /\ j .. n \subseteq DOMAIN h
      BY <1>1, <1>4, <3>2
    <3> QED BY <1>4, <3>2, <3>3 DEF TimedOut
  <2> QED BY <2>1, <2>2
<1> QED BY <1>2, <1>3, <1>4 DEF TimedOut

(* One round of the walk.                                                  *)
LEMMA WalksOn ==
  ASSUME NEW h, NEW out \in Nat, DOMAIN h \subseteq Nat, NEW n \in Nat
  PROVE  Walked(h, out, n + 1) =
           IF n \in DOMAIN h /\ (Expired(h, n) \/ n = LastBelow(h, out, n) + 1)
           THEN [gone |-> Below(h, out, n) \cup {n}, last |-> n]
           ELSE Walked(h, out, n)
<1>1. n \in TimedOut(h, out) <=>
        n \in DOMAIN h /\ (Expired(h, n) \/ n = LastBelow(h, out, n) + 1)
  BY TakesNext
<1>2. TimedOut(h, out) \subseteq Nat
  BY DEF TimedOut
<1>3. CASE n \in TimedOut(h, out)
  <2>1. Below(h, out, n + 1) = Below(h, out, n) \cup {n}
    BY <1>2, <1>3 DEF Below
  <2>2. LastOf(Below(h, out, n + 1), out, LastBelow(h, out, n + 1))
    BY LastBelowFacts
  <2>3. n \in Below(h, out, n + 1) /\ \A k \in Below(h, out, n + 1) : k <= n /\ k \in Nat
    BY <1>2, <1>3 DEF Below
  <2>4. LastBelow(h, out, n + 1) = n
    BY <2>2, <2>3 DEF LastOf
  <2> QED BY <1>1, <1>3, <2>1, <2>4 DEF Walked
<1>4. CASE n \notin TimedOut(h, out)
  <2>1. Below(h, out, n + 1) = Below(h, out, n)
    BY <1>2, <1>4 DEF Below
  <2> QED BY <1>1, <1>4, <2>1 DEF Walked, LastBelow
<1> QED BY <1>3, <1>4

(* The walk computes the closed form, for every map of finitely many keys. *)
LEMMA WalkIsClosedForm ==
  ASSUME NEW h, NEW out \in Nat, DOMAIN h \subseteq Nat, IsFiniteSet(DOMAIN h)
  PROVE  LET end == CheckTimeout(h, out)
         IN  TimedOut(h, out) = end.gone /\ LastOf(end.gone, out, end.last)
<1> DEFINE b == KeysEnd(DOMAIN h)
           Is(f) == f = [n \in 0 .. b |->
                      IF n = 0 THEN [gone |-> {}, last |-> out]
                      ELSE LET so == f[n - 1]
                           IN IF n - 1 \in DOMAIN h /\ (Expired(h, n - 1) \/ n - 1 = so.last + 1)
                              THEN [gone |-> so.gone \cup {n - 1}, last |-> n - 1]
                              ELSE so]
           g == [n \in 0 .. b |-> Walked(h, out, n)]
           loop == CHOOSE f : Is(f)
<1>1. b \in Nat /\ \A k \in DOMAIN h : k < b
  <2>1. CASE DOMAIN h = {}
    BY <2>1 DEF KeysEnd
  <2>2. CASE DOMAIN h # {}
    <3>1. PICK n \in Nat : DOMAIN h \subseteq 0 .. n
      BY FiniteIsBounded
    <3>2. \E m \in DOMAIN h : \A k \in DOMAIN h : k <= m
      BY <2>2, <3>1, GreatestOf
    <3> DEFINE m == CHOOSE k \in DOMAIN h : \A j \in DOMAIN h : j <= k
    <3>3. m \in DOMAIN h /\ \A k \in DOMAIN h : k <= m
      BY <3>2
    <3>4. b = 1 + m
      BY <2>2 DEF KeysEnd
    <3> HIDE DEF m, b
    <3> QED BY <3>3, <3>4
  <2> QED BY <2>1, <2>2
<1>2. Walked(h, out, 0) = [gone |-> {}, last |-> out]
  <2>1. Below(h, out, 0) = {}
    BY DEF Below, TimedOut
  <2> QED BY <2>1 DEF Walked, LastBelow
<1>3. Is(g)
  <2> HIDE DEF b
  <2>1. ASSUME NEW n \in 0 .. b, n # 0
        PROVE  Walked(h, out, n) =
                 IF n - 1 \in DOMAIN h /\ (Expired(h, n - 1) \/ n - 1 = g[n - 1].last + 1)
                 THEN [gone |-> g[n - 1].gone \cup {n - 1}, last |-> n - 1]
                 ELSE g[n - 1]
    <3>1. n - 1 \in Nat /\ (n - 1) + 1 = n /\ n - 1 \in 0 .. b
      BY <1>1, <2>1
    <3>2. g[n - 1] = Walked(h, out, n - 1)
      BY <3>1
    <3>3. /\ g[n - 1].last = LastBelow(h, out, n - 1)
          /\ g[n - 1].gone = Below(h, out, n - 1)
      BY <3>2 DEF Walked
    <3>4. Walked(h, out, (n - 1) + 1) =
            IF n - 1 \in DOMAIN h /\ (Expired(h, n - 1) \/ n - 1 = LastBelow(h, out, n - 1) + 1)
            THEN [gone |-> Below(h, out, n - 1) \cup {n - 1}, last |-> n - 1]
            ELSE Walked(h, out, n - 1)
      BY <3>1, WalksOn
    <3> HIDE DEF g
    <3> QED BY <3>1, <3>2, <3>3, <3>4
  <2> QED BY <1>2, <2>1
<1>4. Is(loop)
  <2> HIDE DEF Is, g
  <2> QED BY <1>3
<1>5. CheckTimeout(h, out) = loop[b]
  BY DEF CheckTimeout
<1> DEFINE P == {n \in 0 .. b : loop[n] = Walked(h, out, n)}
<1>6. \A n \in 0 .. b : n \in P
  <2>1. 0 \in P
    <3> HIDE DEF loop, b
    <3> QED BY <1>1, <1>2, <1>4
  <2>2. ASSUME NEW n \in 0 .. b - 1, n \in P PROVE n + 1 \in P
    <3> HIDE DEF loop, b
    <3>1. n \in Nat /\ n + 1 \in 0 .. b /\ n + 1 # 0 /\ (n + 1) - 1 = n
      BY <1>1, <2>2
    <3>2. loop[n].last = LastBelow(h, out, n) /\ loop[n].gone = Below(h, out, n)
          /\ loop[n] = Walked(h, out, n)
      BY <2>2 DEF Walked
    <3>3. loop[n + 1] =
            IF n \in DOMAIN h /\ (Expired(h, n) \/ n = loop[n].last + 1)
            THEN [gone |-> loop[n].gone \cup {n}, last |-> n]
            ELSE loop[n]
      BY <1>4, <3>1
    <3>4. loop[n + 1] = Walked(h, out, n + 1)
      BY <3>1, <3>2, <3>3, WalksOn
    <3> QED BY <3>1, <3>4
  <2> HIDE DEF P, b
  <2> QED BY <1>1, <2>1, <2>2, UpToEnd
<1>7. loop[b] = Walked(h, out, b)
  <2> HIDE DEF loop, b
  <2> QED BY <1>1, <1>6
<1>8. Below(h, out, b) = TimedOut(h, out)
  <2> HIDE DEF b
  <2> QED BY <1>1 DEF Below, TimedOut
<1>9. LastOf(Below(h, out, b), out, LastBelow(h, out, b))
  <2> HIDE DEF b
  <2> QED BY <1>1, LastBelowFacts
<1>10. loop[b].gone = Below(h, out, b) /\ loop[b].last = LastBelow(h, out, b)
  <2> HIDE DEF loop, b
  <2> QED BY <1>7 DEF Walked
<1> HIDE DEF loop, b
<1> QED BY <1>5, <1>8, <1>9, <1>10

(* HoldPacket in terms of the closed form.                                 *)
Inserted(h, e) ==
  h = [k \in DOMAIN held \cup {e} |-> IF k = e THEN 0 ELSE held[k]]
TakesTimedOut(h, gone) ==
  LET lost == \E k \in gone : Expired(h, k) IN
  /\ emitted' = gone /\ held' = Without(h, gone)
  /\ LastOf(gone, output_seq_, output_seq_')
  /\ ReportLost(lost)
  /\ disturbed' = (disturbed \/ lost) /\ rearmed' = FALSE

LEMMA HoldClosed ==
  ASSUME TypeOK, NEW seq \in Seqs, HoldPacket(seq), NEW h, Inserted(h, ExtendSeq(seq))
  PROVE  /\ IsFiniteSet(DOMAIN h) /\ DOMAIN h \subseteq Nat
         /\ TakesTimedOut(h, TimedOut(h, output_seq_))
<1> DEFINE e == ExtendSeq(seq)
           end == CheckTimeout(h, output_seq_)
<1>1. e \in Nat /\ output_seq_ \in Nat
  BY SeqTypes DEF TypeOK
<1>2. h = [k \in DOMAIN held \cup {e} |-> IF k = e THEN 0 ELSE held[k]]
  BY DEF Inserted
<1>3. /\ emitted' = end.gone /\ held' = Without(h, end.gone) /\ output_seq_' = end.last
      /\ ReportLost(\E k \in end.gone : Expired(h, k))
      /\ disturbed' = (disturbed \/ \E k \in end.gone : Expired(h, k))
      /\ rearmed' = FALSE
  BY <1>2 DEF HoldPacket
<1> HIDE DEF e, end
<1>4. DOMAIN h = DOMAIN held \cup {e}
  BY <1>2
<1>5. IsFiniteSet(DOMAIN h) /\ DOMAIN h \subseteq Nat
  BY <1>1, <1>4, FS_AddElement DEF TypeOK
<1>6. TimedOut(h, output_seq_) = end.gone /\ LastOf(end.gone, output_seq_, end.last)
  BY <1>1, <1>5, WalkIsClosedForm DEF end
<1> QED BY <1>3, <1>5, <1>6 DEF TakesTimedOut

LEMMA HoldStep ==
  ASSUME IInv, NEW seq \in Seqs, HoldPacket(seq) PROVE StepOK
<1> DEFINE e == ExtendSeq(seq)
           h == [k \in DOMAIN held \cup {e} |-> IF k = e THEN 0 ELSE held[k]]
           gone == TimedOut(h, output_seq_)
           lost == \E k \in gone : Expired(h, k)
           m == output_seq_'
<1>0. /\ AcceptSeq(seq) /\ e > output_seq_ + 1 /\ e \in Nat
      /\ Cycles(seq) \in Nat /\ TypeOK
  BY SeqTypes DEF HoldPacket, IInv
<1>a. TakesTimedOut(h, gone)
  <2>1. Inserted(h, e)
    BY DEF Inserted
  <2> HIDE DEF h
  <2> QED BY <1>0, <2>1, HoldClosed
<1> HIDE DEF h, gone, lost
<1>1. /\ AcceptSeq(seq) /\ e > output_seq_ + 1 /\ e \in Nat
      /\ Cycles(seq) \in Nat /\ TypeOK
      /\ emitted' = gone /\ held' = Without(h, gone)
      /\ ReportLost(lost)
      /\ disturbed' = (disturbed \/ lost) /\ rearmed' = FALSE
  BY <1>0, <1>a DEF TakesTimedOut, lost
<1>2. m \in gone \cup {output_seq_} /\ LastOf(gone, output_seq_, m)
  BY <1>a DEF TakesTimedOut, LastOf
<1>3. /\ DOMAIN h = DOMAIN held \cup {e} /\ DOMAIN h \subseteq Nat
      /\ IsFiniteSet(DOMAIN h) /\ h \in [DOMAIN h -> 0 .. AgeMax]
      /\ h[e] = 0 /\ \A k \in DOMAIN held : k # e => h[k] = held[k]
  <2>1. IsFiniteSet(DOMAIN held) /\ DOMAIN held \subseteq Nat /\ e \in Nat
    BY <1>1 DEF TypeOK
  <2>2. held \in [DOMAIN held -> 0 .. AgeMax] /\ 0 \in 0 .. AgeMax
    BY <1>1, JitterConstants DEF TypeOK
  <2> HIDE DEF e, m
  <2>3. DOMAIN h = DOMAIN held \cup {e}
    BY DEF h
  <2>4. IsFiniteSet(DOMAIN h)
    BY <2>1, <2>3, FS_AddElement
  <2> QED BY <2>1, <2>2, <2>3, <2>4 DEF h
<1>4. /\ gone \subseteq DOMAIN h /\ m \in Nat
      /\ \A k \in DOMAIN h : Expired(h, k) => k \in gone
      /\ m + 1 \notin DOMAIN h \ gone
  BY <1>1, <1>2, <1>3, TimedOutFacts DEF TypeOK, gone
<1>5. /\ DOMAIN held' = DOMAIN h \ gone
      /\ IsFiniteSet(DOMAIN held') /\ DOMAIN held' \subseteq Nat
      /\ held' \in [DOMAIN held' -> 0 .. AgeMax]
  BY <1>1, <1>3, WithoutType
<1>6. TypeOK'
  <2>1. max_seq_' \in Seqs /\ cycles_' \in Nat /\ init_flag_' = init_flag_
        /\ bad_seq_' = bad_seq_
    BY <1>1 DEF AcceptSeq, TypeOK
  <2>2. reported' \in BOOLEAN /\ disturbed' \in BOOLEAN
    BY <1>1 DEF ReportLost, TypeOK, lost
  <2>3. report_age' \in 0 .. ReportGap + 1
    BY <1>1, JitterConstants DEF ReportLost, TypeOK
  <2>4. emitted' \subseteq Nat /\ output_seq_' \in Nat
    BY <1>1, <1>2, <1>3, <1>4
  <2> QED BY <1>1, <1>5, <2>1, <2>2, <2>3, <2>4 DEF TypeOK
<1>7. CleanStart'
  BY <1>1 DEF AcceptSeq, CleanStart
<1>8. PromptDelivery'
  BY <1>2, <1>4, <1>5 DEF PromptDelivery
<1>9. ASSUME ~disturbed' PROVE gone = {} /\ m = output_seq_
  <2>1. ~disturbed /\ \A k \in DOMAIN h : ~Expired(h, k)
    BY <1>1, <1>4, <1>9 DEF lost
  <2>2. output_seq_ + 1 \notin DOMAIN h
    BY <1>1, <1>3, <2>1 DEF IInv, HeldBehindHole, TypeOK
  <2>3. gone = {}
    BY <2>1, <2>2 DEF gone, TimedOut
  <2> QED BY <1>2, <2>3 DEF LastOf
<1>10. HeldBehindHole'
  <2> SUFFICES ASSUME ~disturbed', NEW k \in DOMAIN held'
               PROVE  k > output_seq_' + 1
    BY DEF HeldBehindHole
  <2>1. k \in DOMAIN held \cup {e} /\ output_seq_' = output_seq_
    BY <1>2, <1>3, <1>5, <1>9
  <2>2. ~disturbed
    BY <1>1
  <2> QED BY <1>1, <2>1, <2>2 DEF IInv, HeldBehindHole
<1>11. GaplessStep
  <2> SUFFICES ASSUME ~disturbed'
               PROVE  emitted' = (output_seq_ + 1) .. output_seq_'
    BY DEF GaplessStep
  <2>1. emitted' = {} /\ output_seq_' = output_seq_
    BY <1>1, <1>2, <1>9
  <2>2. (output_seq_ + 1) .. output_seq_ = {}
    BY <1>1 DEF TypeOK
  <2> QED BY <2>1, <2>2
<1>12. BackwardsStep
  <2> SUFFICES ASSUME m < output_seq_
               PROVE  /\ gone \subseteq DOMAIN held
                      /\ \E k \in gone : Expired(held, k)
    BY <1>1, <1>2 DEF BackwardsStep
  <2>1. gone # {} /\ \A k \in gone : k <= m
    BY <1>1, <1>2 DEF LastOf, TypeOK
  <2>2. e \notin gone
    BY <1>1, <1>4, <2>1 DEF TypeOK
  <2>3. PICK k \in gone : TRUE
    BY <2>1
  <2>4. PICK j \in DOMAIN h :
          /\ j <= k /\ j .. k \subseteq DOMAIN h
          /\ Expired(h, j) \/ j = output_seq_ + 1
    BY <2>3 DEF gone, TimedOut
  <2>5. j # output_seq_ + 1
    BY <1>1, <1>3, <1>4, <2>1, <2>3, <2>4 DEF TypeOK
  <2>6. j \in gone /\ j # e
    BY <1>4, <2>2, <2>4, <2>5
  <2>7. Expired(held, j)
    BY <1>3, <2>4, <2>5, <2>6 DEF Expired
  <2> QED BY <1>3, <1>4, <2>2, <2>6, <2>7
<1> QED BY <1>6, <1>7, <1>8, <1>10, <1>11, <1>12 DEF StepOK, IInv

LEMMA TickStep ==
  ASSUME IInv, Tick PROVE StepOK
<1>1. /\ DOMAIN held' = DOMAIN held /\ emitted' = {} /\ reported' = FALSE
      /\ held' = [k \in DOMAIN held |-> Older(held[k], AgeMax)]
      /\ report_age' = Older(report_age, ReportGap + 1)
      /\ UNCHANGED <<init_flag_, max_seq_, bad_seq_, cycles_, output_seq_,
                     disturbed, rearmed>>
  BY DEF Tick
<1>2. held' \in [DOMAIN held' -> 0 .. AgeMax]
  BY <1>1, JitterConstants DEF IInv, TypeOK, Older
<1>3. report_age' \in 0 .. ReportGap + 1
  BY <1>1, JitterConstants DEF IInv, TypeOK, Older
<1>4. TypeOK'
  BY <1>1, <1>2, <1>3 DEF IInv, TypeOK
<1>5. CleanStart' /\ PromptDelivery' /\ HeldBehindHole'
  BY <1>1 DEF IInv, CleanStart, PromptDelivery, HeldBehindHole
<1>6. GaplessStep /\ BackwardsStep
  BY <1>1 DEF IInv, TypeOK, GaplessStep, BackwardsStep
<1> QED BY <1>4, <1>5, <1>6 DEF StepOK, IInv

LEMMA NextStep ==
  ASSUME IInv, Next PROVE StepOK
BY FirstStep, SuspectStep, ResyncStep, ContinuedStep, OldStep, HoldStep,
   TickStep DEF Next, InputRtpPacket

LEMMA StutterStep ==
  ASSUME IInv, UNCHANGED vars PROVE IInv'
BY DEF vars, IInv, TypeOK, CleanStart, HeldBehindHole, PromptDelivery

LEMMA Inductive == Spec => []IInv
<1>1. IInv /\ [Next]_vars => IInv'
  BY NextStep, StutterStep DEF StepOK
<1> QED BY InitIInv, <1>1, PTL DEF Spec

-----------------------------------------------------------------------------
(* The fields of the jitter buffer stay in their ranges.                   *)
THEOREM TypeCorrect == Spec => []TypeOK
<1>1. IInv => TypeOK
  BY DEF IInv
<1> QED BY Inductive, <1>1, PTL

(* Until a packet times out or the stream is re-synchronised, a held       *)
(* packet always waits behind a hole in the received numbers.              *)
THEOREM HoleBehindEveryHeld == Spec => []HeldBehindHole
<1>1. IInv => HeldBehindHole
  BY DEF IInv
<1> QED BY Inductive, <1>1, PTL

(* A deliverable packet is retained only behind a stale key, or right      *)
(* after output_seq_ was re-based.                                         *)
THEOREM PromptlyDelivered == Spec => []PromptDelivery
<1>1. IInv => PromptDelivery
  BY DEF IInv
<1> QED BY Inductive, <1>1, PTL

(* Until then, every call hands over exactly the numbers that follow the   *)
(* last output: no gap, no repetition, no reordering.                      *)
THEOREM GaplessDelivery == Spec => Gapless
<1>1. IInv /\ [Next]_vars =>
        [~disturbed' /\ init_flag_ =>
           emitted' = (output_seq_ + 1) .. output_seq_']_vars
  BY NextStep DEF StepOK, GaplessStep
<1> QED BY Inductive, <1>1, PTL DEF Spec, Gapless

(* output_seq_ moves back only by releasing an overtaken held packet.      *)
THEOREM NoRewindFromNetwork == Spec => BackwardsOnlyFromMap
<1>1. IInv /\ [Next]_vars =>
        [init_flag_ /\ init_flag_' /\ output_seq_' < output_seq_ =>
           /\ emitted' \subseteq DOMAIN held
           /\ \E k \in emitted' : Expired(held, k)]_vars
  BY NextStep DEF StepOK, BackwardsStep
<1> QED BY Inductive, <1>1, PTL DEF Spec, BackwardsOnlyFromMap

-----------------------------------------------------------------------------
(* The jitter buffer with the packets it holds and the depacketiser.       *)

Cap == MaxCycles * RtpSeqMod
Total == (MaxCycles + 1) * RtpSeqMod

Pkts == [kind : {"single", "fua", "stapa"}, s : BOOLEAN, e : BOOLEAN,
         nals : Seq([type : NalTypes, part : Nat \X Nat \X Nat]),
         fault : {"none"}]
Frags == [ext : Int, s : BOOLEAN, e : BOOLEAN, type : NalTypes,
          part : Nat \X Nat \X Nat, age : 0 .. PackTimeout]

(* The jitter buffer and what the model keeps beside it.                   *)
Numbers ==
  /\ cycles_ <= Cap
  /\ output_seq_ < Total /\ \A k \in DOMAIN held : k < Total
Positions ==
  /\ DOMAIN payload = DOMAIN held
  /\ \A k \in DOMAIN payload :
       payload[k] \in DOMAIN stream /\ stream[payload[k]].era \in DOMAIN origin
  /\ \A k \in DOMAIN pending :
       /\ k \in Nat /\ k < Total
       /\ pending[k] \in DOMAIN stream /\ stream[pending[k]].era \in DOMAIN origin
Waits ==
  /\ DOMAIN waited = DOMAIN pending
  /\ \A k \in DOMAIN waited : waited[k] \in 0 .. AgeMax
Agreement ==
  /\ last_extend_seq_ \in Nat /\ last_extend_seq_ < Total
  /\ DOMAIN pending = {} => last_extend_seq_ = output_seq_
  /\ DOMAIN pending # {} =>
       output_seq_ \in DOMAIN pending /\ \A j \in DOMAIN pending : j <= output_seq_

(* What the sender has sent.                                               *)
SourceOK ==
  /\ src_seq \in Seqs /\ script \in Scripts /\ restarts \in Nat
  /\ src_units \in Seq([type : NalTypes, len : Nat, id : Nat, era : Nat])
  /\ sps_ \in Nat /\ pps_ \in Nat
  /\ sps_ # NoParam => sps_ \in DOMAIN src_units /\ src_units[sps_].type = "sps"
  /\ pps_ # NoParam => pps_ \in DOMAIN src_units /\ src_units[pps_].type = "pps"
  /\ stream \in Seq([pkt : Pkts, seq : Seqs, era : Nat])

Alone(nal, units, u) ==
  /\ nal = [type |-> units[u].type, part |-> <<u, 1, 1>>]
  /\ Pieces(units[u]) = 1
Piece(p, units, u, i) ==
  LET c == Pieces(units[u]) IN
  /\ c \in Nat /\ i \in 1 .. c /\ p.pkt.kind = "fua"
  /\ p.pkt.nals = <<[type |-> units[u].type, part |-> <<u, i, c>>]>>
  /\ p.pkt.s = (i = 1) /\ p.pkt.e = (i = c)
  /\ p.era = units[u].era
WholeUnits(str, units) ==
  \A n \in DOMAIN str : str[n].pkt.kind # "fua" =>
    \A k \in DOMAIN str[n].pkt.nals :
      \E u \in DOMAIN units : Alone(str[n].pkt.nals[k], units, u)
InRuns(str, units) ==
  \A n \in DOMAIN str : str[n].pkt.kind = "fua" =>
    \E u \in DOMAIN units, i \in Nat :
      /\ Piece(str[n], units, u, i)
      /\ i < Pieces(units[u]) =>
           n + 1 \in DOMAIN str /\ Piece(str[n + 1], units, u, i + 1)
StreamOK == SourceOK /\ WholeUnits(stream, src_units) /\ InRuns(stream, src_units)

(* The fragments that wait.                                                *)
QueueOK ==
  /\ packets_queue_ \in Seq(Frags)
  /\ packets_queue_ # <<>> => pack_init_
  /\ \A i \in 1 .. Len(packets_queue_) :
       ~packets_queue_[i].e /\ (i > 1 => ~packets_queue_[i].s)

Era(units, part) == units[part[1]].era
FragAt(f, n, str, org) ==
  /\ n \in DOMAIN str /\ str[n].pkt.kind = "fua"
  /\ f.type = str[n].pkt.nals[1].type /\ f.part = str[n].pkt.nals[1].part
  /\ f.s = str[n].pkt.s /\ f.e = str[n].pkt.e
  /\ str[n].era \in DOMAIN org /\ f.ext = org[str[n].era] + n

Located(q, str, org) ==
  \A i \in 1 .. Len(q) : \E n \in DOMAIN str : FragAt(q[i], n, str, org)
Adjacent(q, units) ==
  \A i \in 1 .. Len(q) - 1 :
    Era(units, q[i + 1].part) = Era(units, q[i].part) => q[i + 1].ext = q[i].ext + 1
Prefix(q, units) ==
  \A i \in 1 .. Len(q) :
    q[1].s /\ (\A j \in 1 .. i : Era(units, q[j].part) = Era(units, q[1].part)) =>
      q[i].part = <<q[1].part[1], i, q[1].part[3]>>
Behind(q, last, hand, str, units) ==
  Len(q) # 0 =>
    /\ hand \in DOMAIN str
    /\ Era(units, q[Len(q)].part) <= str[hand].era
    /\ Era(units, q[Len(q)].part) = str[hand].era => last = q[Len(q)].ext
Known(q, last, hand, str, units, org) ==
  /\ Located(q, str, org) /\ Adjacent(q, units) /\ Prefix(q, units)
  /\ Behind(q, last, hand, str, units)

(* Without a restart.                                                      *)
Aligned ==
  /\ \A n \in DOMAIN stream :
       /\ stream[n].era = 0
       /\ \E c \in Int : stream[n].seq = src_seq + n - Len(stream) - 1 + RtpSeqMod * c
  /\ newest = 0 =>
       ~init_flag_ /\ DOMAIN held = {} /\ DOMAIN pending = {} /\ DOMAIN origin = {}
  /\ newest # 0 =>
       /\ init_flag_ /\ newest \in DOMAIN stream /\ max_seq_ = stream[newest].seq
       /\ 0 \in DOMAIN origin /\ cycles_ + max_seq_ = origin[0] + newest
  /\ AtMostOneCycleHigh

Flags ==
  /\ pack_init_ \in BOOLEAN /\ start_flag_ \in BOOLEAN
  /\ find_keyframe_ \in BOOLEAN /\ damaged \in BOOLEAN /\ muted \in BOOLEAN
  /\ pack_report_age \in 0 .. PackReportGap + 1
GateClosed == damaged /\ ~muted => find_keyframe_

VInv ==
  /\ IInv /\ Numbers /\ Positions /\ Waits /\ Agreement /\ StreamOK
  /\ Flags /\ straggler \in BOOLEAN /\ GateClosed /\ QueueOK
  /\ ~straggler => Known(packets_queue_, last_extend_seq_, handed,
                        stream, src_units, origin)
  /\ ReceivedIntact
  /\ newest \in Nat /\ (\A e \in DOMAIN origin : origin[e] \in Int)
  /\ restarts = 0 => Aligned

-----------------------------------------------------------------------------
(* The bound on extended numbers.                                          *)
LEMMA TotalIs ==
  /\ Cap \in Nat /\ Total = Cap + RtpSeqMod /\ RtpSeqMod \in Nat
  /\ Total \in Nat /\ 0 < RtpSeqMod
BY JitterConstants DEF Cap, Total

(* What one call of InputRtpPacket emits and keeps.                        *)
InputOK(seq) ==
  /\ Numbers'
  /\ \A k \in emitted' : k \in Nat /\ k < Total
  /\ emitted' = {} => output_seq_' = output_seq_
  /\ emitted' # {} => output_seq_' \in emitted' /\ \A j \in emitted' : j <= output_seq_'
  /\ \A k \in DOMAIN held' : k \in DOMAIN held \/ (Holds(seq) /\ k = Number(seq))
  /\ \A k \in emitted' : k \in DOMAIN held \/ k = Number(seq)
  /\ Drops(seq) => emitted' = {}

LEMMA Rebased ==
  ASSUME IInv, Numbers, NEW seq \in Seqs, FirstPacket(seq) \/ ResyncPacket(seq)
  PROVE  InputOK(seq)
<1>0. seq \in Nat /\ seq < RtpSeqMod
  BY TotalIs DEF Seqs
<1>1. held' = held /\ output_seq_' = seq /\ emitted' = {seq} /\ cycles_' = 0
  BY DEF FirstPacket, ResyncPacket, InitSeq
<1>2. seq < Total /\ 0 <= Cap
  BY <1>0, TotalIs
<1>3. Number(seq) = seq /\ ~Drops(seq)
  BY DEF FirstPacket, ResyncPacket, Number, Drops
<1> QED BY <1>0, <1>1, <1>2, <1>3 DEF InputOK, Numbers

LEMMA Extended ==
  ASSUME IInv, Numbers, NEW seq \in Seqs, AcceptSeq(seq)
  PROVE  /\ ExtendSeq(seq) \in Nat /\ ExtendSeq(seq) < Total
         /\ cycles_' <= Cap /\ Number(seq) = ExtendSeq(seq)
         /\ (Drops(seq) <=> ExtendSeq(seq) <= output_seq_)
         /\ (Holds(seq) <=> ExtendSeq(seq) > output_seq_ + 1)
         /\ output_seq_ \in Nat /\ DOMAIN held \subseteq Nat
<1>1. /\ seq \in Nat /\ seq < RtpSeqMod /\ Cycles(seq) \in Nat
      /\ Cycles(seq) <= Cap /\ cycles_' = Cycles(seq)
  BY SeqTypes, TotalIs DEF AcceptSeq, IInv, Seqs, Cap
<1>2. ExtendSeq(seq) \in Nat /\ ExtendSeq(seq) < Total
  BY <1>1, TotalIs DEF ExtendSeq
<1>3. init_flag_ /\ ~LargeJump(seq)
  BY DEF AcceptSeq
<1>4. /\ Number(seq) = ExtendSeq(seq)
      /\ (Drops(seq) <=> ExtendSeq(seq) <= output_seq_)
      /\ (Holds(seq) <=> ExtendSeq(seq) > output_seq_ + 1)
  BY <1>3 DEF Number, Drops, Holds
<1> QED BY <1>1, <1>2, <1>4 DEF IInv, TypeOK

LEMMA Continued ==
  ASSUME IInv, Numbers, NEW seq \in Seqs, ContinuedPacket(seq)
  PROVE  InputOK(seq)
<1> DEFINE e == ExtendSeq(seq)
<1>1. /\ e \in Nat /\ e < Total /\ cycles_' <= Cap
      /\ Number(seq) = e /\ (Drops(seq) <=> e <= output_seq_)
      /\ output_seq_ \in Nat /\ DOMAIN held \subseteq Nat /\ e = output_seq_ + 1
  BY Extended DEF ContinuedPacket
<1>2. PICK m \in e .. e + Cardinality(DOMAIN held) :
        /\ EndsRun(DOMAIN held, e, m)
        /\ output_seq_' = m /\ emitted' = e .. m
        /\ held' = Without(held, (e + 1) .. m)
  BY DEF ContinuedPacket
<1>3. DOMAIN held' \subseteq DOMAIN held
  BY <1>2 DEF Without, Restrict
<1> HIDE DEF e
<1>4. m \in Int /\ e <= m
  <2>1. IsFiniteSet(DOMAIN held)
    BY DEF IInv, TypeOK
  <2>2. Cardinality(DOMAIN held) \in Nat
    BY <2>1, FS_CardinalityType
  <2> QED BY <1>1, <2>2
<1>5. \A k \in e .. m : k = e \/ k \in DOMAIN held
  <2>1. CASE m = e
    BY <1>1, <2>1
  <2>2. CASE m # e
    BY <1>1, <1>2, <1>4, <2>2 DEF EndsRun
  <2> QED BY <2>1, <2>2
<1>6. \A k \in e .. m : k \in Nat /\ k < Total
  BY <1>1, <1>5, TotalIs DEF Numbers
<1>7. m \in e .. m /\ e .. m # {} /\ \A j \in e .. m : j <= m
  BY <1>1, <1>4
<1>8. ~Drops(seq)
  BY <1>1
<1>9. Numbers'
  BY <1>1, <1>2, <1>3, <1>6, <1>7 DEF Numbers
<1> QED BY <1>1, <1>2, <1>3, <1>5, <1>6, <1>7, <1>8, <1>9 DEF InputOK

LEMMA Held ==
  ASSUME IInv, Numbers, NEW seq \in Seqs, HoldPacket(seq)
  PROVE  InputOK(seq)
<1> DEFINE e == ExtendSeq(seq)
           h == [k \in DOMAIN held \cup {e} |-> IF k = e THEN 0 ELSE held[k]]
           gone == TimedOut(h, output_seq_)
<1>1. /\ e \in Nat /\ e < Total /\ cycles_' <= Cap
      /\ Number(seq) = e /\ (Drops(seq) <=> e <= output_seq_)
      /\ (Holds(seq) <=> e > output_seq_ + 1)
      /\ output_seq_ \in Nat /\ DOMAIN held \subseteq Nat /\ e > output_seq_ + 1
  BY Extended DEF HoldPacket
<1> DEFINE m == output_seq_'
<1>0. TakesTimedOut(h, gone)
  <2>1. Inserted(h, e) /\ TypeOK
    BY DEF Inserted, IInv
  <2> HIDE DEF h
  <2> QED BY <2>1, HoldClosed
<1>2. emitted' = gone /\ held' = Without(h, gone)
  BY <1>0 DEF TakesTimedOut
<1>3. m \in gone \cup {output_seq_} /\ LastOf(gone, output_seq_, m)
  BY <1>0 DEF TakesTimedOut, LastOf
<1>4. gone \subseteq DOMAIN held \cup {e}
  BY DEF TimedOut
<1>5. DOMAIN held' \subseteq DOMAIN held \cup {e}
  BY <1>2 DEF Without, Restrict
<1> HIDE DEF e, h, gone
<1>6. \A k \in DOMAIN held \cup {e} : k \in Nat /\ k < Total
  BY <1>1 DEF Numbers
<1>7. Holds(seq) /\ ~Drops(seq)
  BY <1>1
<1>8. m < Total
  BY <1>3, <1>4, <1>6 DEF Numbers
<1>9. Numbers'
  BY <1>1, <1>3, <1>5, <1>6, <1>8 DEF Numbers
<1>10. /\ gone = {} => m = output_seq_
       /\ gone # {} => m \in gone /\ \A j \in gone : j <= m
  BY <1>3 DEF LastOf
<1> QED BY <1>1, <1>2, <1>3, <1>4, <1>5, <1>6, <1>7, <1>9, <1>10 DEF InputOK

LEMMA InputStep ==
  ASSUME IInv, Numbers, NEW seq \in Seqs, InputRtpPacket(seq)
  PROVE  InputOK(seq) /\ IInv'
<1>1. IInv'
  BY NextStep DEF StepOK, Next
<1>2. CASE FirstPacket(seq) \/ ResyncPacket(seq)
  BY <1>1, <1>2, Rebased
<1>3. CASE SuspectPacket(seq)
  BY <1>1, <1>3 DEF SuspectPacket, InputOK, Numbers
<1>4. CASE ContinuedPacket(seq)
  BY <1>1, <1>4, Continued
<1>5. CASE OldPacket(seq)
  <2>1. AcceptSeq(seq) /\ emitted' = {} /\ held' = held /\ output_seq_' = output_seq_
    BY <1>5 DEF OldPacket
  <2> QED BY <1>1, <2>1, Extended DEF InputOK, Numbers
<1>6. CASE HoldPacket(seq)
  BY <1>1, <1>6, Held
<1> QED BY <1>2, <1>3, <1>4, <1>5, <1>6 DEF InputRtpPacket

-----------------------------------------------------------------------------
(* What the packetiser makes of a unit.                                    *)
Units == [type : NalTypes, len : Nat, id : Nat, era : Nat]
Nals == [type : NalTypes, part : Nat \X Nat \X Nat]

Fragmented(p, nal, j) ==
  /\ p.kind = "fua"
  /\ p.nals = <<[type |-> nal.type, part |-> <<nal.id, j, Pieces(nal)>>]>>
  /\ p.s = (j = 1) /\ p.e = (j = Pieces(nal))
Entire(p, nal) ==
  /\ p.kind = "single" /\ Pieces(nal) = 1
  /\ p.nals = <<[type |-> nal.type, part |-> <<nal.id, 1, 1>>]>>
ParameterSets(p, sps, pps) ==
  /\ p.kind = "stapa" /\ sps # NoParam /\ pps # NoParam
  /\ p.nals = <<[type |-> "sps", part |-> <<sps, 1, 1>>],
                [type |-> "pps", part |-> <<pps, 1, 1>>]>>

LEMMA PieceCount ==
  ASSUME NEW nal \in Units, nal.type \notin {"sps", "pps"}
  PROVE  Pieces(nal) \in Nat /\ (nal.len <= PayloadMax => Pieces(nal) = 1)
         /\ (~(nal.len <= PayloadMax) => Pieces(nal) = SplitNalu(nal.len - NalHeaderSize))
<1>1. nal.len \in Nat /\ PayloadMax \in Nat /\ 0 < PayloadMax
  BY PayloadAssumption DEF Units
<1>2. CASE nal.len <= PayloadMax
  BY <1>2 DEF Pieces
<1>3. CASE ~(nal.len <= PayloadMax)
  <2>1. Pieces(nal) = SplitNalu(nal.len - NalHeaderSize)
    BY <1>3 DEF Pieces
  <2> DEFINE a == nal.len - 1 + PayloadMax - 1
             q == a \div PayloadMax
  <2>2. a \in Nat
    BY <1>1, <1>3
  <2> HIDE DEF a
  <2>3. q \in Int /\ a % PayloadMax \in 0 .. PayloadMax - 1
        /\ a % PayloadMax = a - PayloadMax * q
    BY <1>1, <2>2
  <2> HIDE DEF q
  <2>4. ~(q < 0)
    <3>1. SUFFICES ASSUME q < 0 PROVE FALSE
      OBVIOUS
    <3>2. PayloadMax * q \in Int /\ PayloadMax * q <= 0 - PayloadMax
      BY <1>1, <2>3, <3>1
    <3> QED BY <1>1, <2>2, <2>3, <3>2
  <2>5. q \in Nat
    BY <2>3, <2>4
  <2>6. SplitNalu(nal.len - NalHeaderSize) = q
    BY <1>1 DEF SplitNalu, NalHeaderSize, q, a
  <2> QED BY <1>3, <2>1, <2>5, <2>6
<1> QED BY <1>2, <1>3

LEMMA Packetised ==
  ASSUME NEW nal \in Units, nal.type \notin {"sps", "pps"},
         NEW sps \in Nat, NEW pps \in Nat
  PROVE  LET pkts == H264Packets(nal, sps, pps) IN
         /\ pkts \in Seq(Pkts)
         /\ \A i \in DOMAIN pkts :
              \/ Entire(pkts[i], nal) \/ ParameterSets(pkts[i], sps, pps)
              \/ \E j \in 1 .. Pieces(nal) :
                   /\ Fragmented(pkts[i], nal, j)
                   /\ j < Pieces(nal) =>
                        /\ i + 1 \in DOMAIN pkts
                        /\ Fragmented(pkts[i + 1], nal, j + 1)
<1> DEFINE A == IF nal.type = "idr" /\ sps # NoParam /\ pps # NoParam
                THEN <<StapAPacket(sps, pps)>> ELSE <<>>
           B == IF nal.len <= PayloadMax THEN <<SinglePacket(nal)>> ELSE FuAPackets(nal)
           c == Pieces(nal)
           pkts == H264Packets(nal, sps, pps)
<1>1. /\ nal.type \in NalTypes /\ nal.id \in Nat /\ c \in Nat
      /\ (nal.len <= PayloadMax => c = 1)
      /\ (~(nal.len <= PayloadMax) => c = SplitNalu(nal.len - NalHeaderSize))
  BY PieceCount DEF Units
<1>2. A \in Seq(Pkts) /\ \A i \in DOMAIN A : ParameterSets(A[i], sps, pps)
  <2>1. CASE A = <<>>
    BY <2>1
  <2>2. CASE A # <<>>
    <3>1. sps # NoParam /\ pps # NoParam /\ A = <<StapAPacket(sps, pps)>>
      BY <2>2
    <3>2. <<[type |-> "sps", part |-> <<sps, 1, 1>>],
            [type |-> "pps", part |-> <<pps, 1, 1>>]>> \in Seq(Nals)
      BY DEF Nals, NalTypes
    <3>3. StapAPacket(sps, pps) \in Pkts /\ ParameterSets(StapAPacket(sps, pps), sps, pps)
      BY <3>1, <3>2 DEF StapAPacket, Packet, Pkts, ParameterSets, Nals
    <3> QED BY <3>1, <3>3
  <2> QED BY <2>1, <2>2
<1>3. /\ B \in Seq(Pkts)
      /\ \A i \in DOMAIN B :
           \/ Entire(B[i], nal)
           \/ \E j \in 1 .. c :
                /\ Fragmented(B[i], nal, j)
                /\ j < c => i + 1 \in DOMAIN B /\ Fragmented(B[i + 1], nal, j + 1)
  <2>1. CASE nal.len <= PayloadMax
    <3>1. B = <<SinglePacket(nal)>>
      BY <2>1
    <3>2. <<[type |-> nal.type, part |-> <<nal.id, 1, 1>>]>> \in Seq(Nals)
      BY <1>1 DEF Nals
    <3>3. SinglePacket(nal) \in Pkts /\ Entire(SinglePacket(nal), nal)
      BY <1>1, <2>1, <3>2 DEF SinglePacket, Packet, Pkts, Entire, Nals
    <3> DEFINE x == SinglePacket(nal)
    <3> HIDE DEF B, x
    <3>4. x \in Pkts /\ Entire(x, nal) /\ B = <<x>>
      BY <3>1, <3>3 DEF x
    <3>5. B \in Seq(Pkts) /\ DOMAIN B = {1} /\ B[1] = x
      BY <3>4
    <3> QED BY <3>4, <3>5
  <2>2. CASE ~(nal.len <= PayloadMax)
    <3>1. B = [i \in 1 .. c |->
                 Packet("fua", i = 1, i = c,
                        <<[type |-> nal.type, part |-> <<nal.id, i, c>>]>>)]
      BY <1>1, <2>2 DEF FuAPackets
    <3> HIDE DEF B
    <3>2. \A i \in 1 .. c : B[i] \in Pkts /\ Fragmented(B[i], nal, i)
      <4> TAKE i \in 1 .. c
      <4>1. <<[type |-> nal.type, part |-> <<nal.id, i, c>>]>> \in Seq(Nals)
        BY <1>1 DEF Nals
      <4>2. B[i] = Packet("fua", i = 1, i = c,
                          <<[type |-> nal.type, part |-> <<nal.id, i, c>>]>>)
        BY <3>1
      <4> QED BY <4>1, <4>2 DEF Packet, Pkts, Fragmented, Nals
    <3>3. DOMAIN B = 1 .. c
      BY <3>1
    <3>4. B \in Seq(Pkts)
      <4>1. B \in [1 .. c -> Pkts]
        <5>1. B = [i \in 1 .. c |-> B[i]]
          BY <3>1
        <5> QED BY <3>2, <5>1
      <4> QED BY <1>1, <4>1
    <3>5. \A i \in DOMAIN B : i \in 1 .. c /\ (i < c => i + 1 \in 1 .. c)
      BY <1>1, <3>3
    <3> QED BY <3>2, <3>3, <3>4, <3>5
  <2> QED BY <2>1, <2>2
<1>4. pkts = A \o B
  BY DEF H264Packets
<1> HIDE DEF A, B, c, pkts
<1>5. /\ pkts \in Seq(Pkts) /\ Len(pkts) = Len(A) + Len(B)
      /\ DOMAIN pkts = 1 .. Len(A) + Len(B)
      /\ DOMAIN A = 1 .. Len(A) /\ DOMAIN B = 1 .. Len(B)
      /\ Len(A) \in Nat /\ Len(B) \in Nat
      /\ \A i \in 1 .. Len(A) : pkts[i] = A[i]
      /\ \A i \in 1 .. Len(B) : pkts[Len(A) + i] = B[i]
  BY <1>2, <1>3, <1>4
<1>6. ASSUME NEW i \in DOMAIN pkts
      PROVE  \/ Entire(pkts[i], nal) \/ ParameterSets(pkts[i], sps, pps)
             \/ \E j \in 1 .. c :
                  /\ Fragmented(pkts[i], nal, j)
                  /\ j < c => i + 1 \in DOMAIN pkts /\ Fragmented(pkts[i + 1], nal, j + 1)
  <2>1. CASE i <= Len(A)
    BY <1>2, <1>5, <2>1
  <2>2. CASE ~(i <= Len(A))
    <3>1. i - Len(A) \in 1 .. Len(B) /\ i = Len(A) + (i - Len(A))
      BY <1>5, <2>2
    <3> DEFINE k == i - Len(A)
    <3>2. k \in DOMAIN B /\ pkts[i] = B[k]
      BY <1>5, <3>1
    <3>3. k + 1 \in DOMAIN B => i + 1 \in DOMAIN pkts /\ pkts[i + 1] = B[k + 1]
      <4>1. SUFFICES ASSUME k + 1 \in DOMAIN B
                     PROVE  i + 1 \in DOMAIN pkts /\ pkts[i + 1] = B[k + 1]
        OBVIOUS
      <4>2. k + 1 \in 1 .. Len(B) /\ Len(A) + (k + 1) = i + 1
        BY <1>5, <4>1
      <4>3. pkts[Len(A) + (k + 1)] = B[k + 1]
        BY <1>5, <4>2
      <4> QED BY <1>5, <4>2, <4>3
    <3> HIDE DEF k
    <3> QED BY <1>3, <3>2, <3>3
  <2> QED BY <2>1, <2>2
<1> QED BY <1>5, <1>6 DEF pkts, c

(* The sender only ever appends.                                           *)
Grows ==
  /\ \A n \in DOMAIN stream : n \in DOMAIN stream' /\ stream'[n] = stream[n]
  /\ \A u \in DOMAIN src_units :
       u \in DOMAIN src_units' /\ src_units'[u] = src_units[u]

Appends ==
  \E c \in Nat :
    /\ Len(stream) \in Nat /\ DOMAIN stream = 1 .. Len(stream)
    /\ DOMAIN stream' = 1 .. Len(stream) + c /\ Len(stream') = Len(stream) + c
    /\ src_seq' = (src_seq + c) % RtpSeqMod /\ restarts' = restarts
    /\ \A i \in 1 .. c :
         /\ stream'[Len(stream) + i].seq = (src_seq + i - 1) % RtpSeqMod
         /\ stream'[Len(stream) + i].era = restarts

LEMMA SendStream ==
  ASSUME StreamOK, SendUnit
  PROVE  StreamOK' /\ Grows /\ Appends /\ origin' = origin
<1> DEFINE u0 == Len(src_units) + 1
           u == script[u0]
           nal == [type |-> u.type, len |-> u.len, id |-> u0, era |-> restarts]
           pkts == IF u.type \in {"sei", "sps", "pps"} THEN <<>>
                   ELSE H264Packets(nal, sps_, pps_)
           X == [i \in DOMAIN pkts |->
                   [pkt |-> pkts[i], seq |-> (src_seq + i - 1) % RtpSeqMod,
                    era |-> restarts]]
           S == [pkt : Pkts, seq : Seqs, era : Nat]
           L == Len(stream)
<1>1. /\ src_seq \in Seqs /\ script \in Scripts /\ restarts \in Nat
      /\ src_units \in Seq(Units) /\ sps_ \in Nat /\ pps_ \in Nat /\ stream \in Seq(S)
  BY DEF StreamOK, SourceOK, Units
<1>2. /\ Len(src_units) < Len(script)
      /\ src_units' = Append(src_units, nal)
      /\ sps_' = IF u.type = "sps" THEN nal.id ELSE sps_
      /\ pps_' = IF u.type = "pps" THEN nal.id ELSE pps_
      /\ stream' = stream \o X
      /\ src_seq' = (src_seq + Len(pkts)) % RtpSeqMod
      /\ script' = script /\ restarts' = restarts /\ origin' = origin
  BY DEF SendUnit
<1>3. /\ u.type \in NalTypes /\ u.len \in Nat /\ u0 \in Nat /\ u0 # 0
      /\ DOMAIN src_units = 1 .. Len(src_units) /\ Len(src_units) \in Nat
  <2>1. script \in Seq([type : NalTypes, len : Nat])
    BY <1>1, StreamAssumption
  <2>2. u0 \in DOMAIN script /\ u0 \in Nat /\ u0 # 0
    BY <1>1, <1>2, <2>1, SMTT(30)
  <2>3. u \in [type : NalTypes, len : Nat]
    <3> DEFINE R == [type : NalTypes, len : Nat]
    <3> HIDE DEF R
    <3>1. script \in Seq(R) /\ u0 \in 1 .. Len(script)
      BY <2>1, <2>2 DEF R
    <3> HIDE DEF u0
    <3>2. script[u0] \in R
      BY <3>1, ElementOfSeq
    <3> QED BY <3>2 DEF R, u
  <2> HIDE DEF u
  <2> QED BY <1>1, <2>2, <2>3
<1> HIDE DEF u
<1>4. /\ nal \in Units /\ nal.type = u.type /\ nal.id = u0 /\ nal.era = restarts
  BY <1>1, <1>3 DEF Units
<1> HIDE DEF nal, u0
<1>5. /\ src_units' \in Seq(Units) /\ u0 \in DOMAIN src_units' /\ src_units'[u0] = nal
      /\ \A v \in DOMAIN src_units : v \in DOMAIN src_units' /\ src_units'[v] = src_units[v]
  BY <1>1, <1>2, <1>3, <1>4 DEF u0
<1>6. /\ pkts \in Seq(Pkts)
      /\ \A i \in DOMAIN pkts :
           \/ Entire(pkts[i], nal) \/ ParameterSets(pkts[i], sps_, pps_)
           \/ \E j \in 1 .. Pieces(nal) :
                /\ Fragmented(pkts[i], nal, j)
                /\ j < Pieces(nal) =>
                     i + 1 \in DOMAIN pkts /\ Fragmented(pkts[i + 1], nal, j + 1)
  <2>1. CASE u.type \in {"sei", "sps", "pps"}
    BY <2>1
  <2>2. CASE u.type \notin {"sei", "sps", "pps"}
    <3>1. nal.type \notin {"sps", "pps"} /\ pkts = H264Packets(nal, sps_, pps_)
      BY <1>4, <2>2
    <3> HIDE DEF pkts
    <3> QED BY <1>1, <1>4, <3>1, Packetised
  <2> QED BY <2>1, <2>2
<1> HIDE DEF pkts
<1>7. src_seq' \in Seqs /\ \A i \in DOMAIN pkts : (src_seq + i - 1) % RtpSeqMod \in Seqs
  <2>1. /\ src_seq \in Int /\ Len(pkts) \in Int /\ RtpSeqMod \in Nat /\ 0 < RtpSeqMod
        /\ DOMAIN pkts \subseteq Int
    BY <1>1, <1>6, JitterConstants DEF Seqs
  <2>2. \A x \in Int : x % RtpSeqMod \in Seqs
    BY <2>1 DEF Seqs
  <2>3. src_seq' \in Seqs
    BY <1>2, <2>1, <2>2
  <2>4. \A i \in DOMAIN pkts : src_seq + i - 1 \in Int
    BY <2>1
  <2> QED BY <2>2, <2>3, <2>4
<1>8. /\ X \in Seq(S) /\ DOMAIN X = DOMAIN pkts /\ Len(X) = Len(pkts)
      /\ \A i \in DOMAIN pkts :
           /\ X[i].pkt = pkts[i] /\ X[i].era = restarts
           /\ X[i].seq = (src_seq + i - 1) % RtpSeqMod
  <2>1. DOMAIN pkts = 1 .. Len(pkts) /\ Len(pkts) \in Nat
    BY <1>6
  <2>2. \A i \in DOMAIN pkts :
          [pkt |-> pkts[i], seq |-> (src_seq + i - 1) % RtpSeqMod, era |-> restarts] \in S
    BY <1>1, <1>6, <1>7
  <2> HIDE DEF S
  <2>3. X \in [1 .. Len(pkts) -> S]
    BY <2>1, <2>2
  <2>4. \A i \in DOMAIN pkts :
          /\ X[i].pkt = pkts[i] /\ X[i].era = restarts
          /\ X[i].seq = (src_seq + i - 1) % RtpSeqMod
    OBVIOUS
  <2> HIDE DEF X
  <2>5. X \in Seq(S) /\ Len(X) = Len(pkts) /\ DOMAIN X = DOMAIN pkts
    BY <2>1, <2>3
  <2> QED BY <2>4, <2>5
<1> HIDE DEF X, S
<1>9. /\ stream' \in Seq(S) /\ L \in Nat /\ DOMAIN stream = 1 .. L
      /\ DOMAIN stream' = 1 .. L + Len(pkts) /\ Len(pkts) \in Nat
      /\ Len(stream') = L + Len(pkts)
      /\ DOMAIN pkts = 1 .. Len(pkts)
      /\ \A n \in 1 .. L : stream'[n] = stream[n]
      /\ \A i \in 1 .. Len(pkts) : stream'[L + i] = X[i]
  <2>1. L \in Nat /\ DOMAIN stream = 1 .. L
    BY <1>1
  <2>2. Len(pkts) \in Nat /\ DOMAIN pkts = 1 .. Len(pkts)
    BY <1>6
  <2>3. /\ stream' \in Seq(S) /\ Len(stream') = L + Len(pkts)
        /\ \A i \in 1 .. L + Len(pkts) :
             stream'[i] = IF i <= L THEN stream[i] ELSE X[i - L]
    <3>1. stream \in Seq(S) /\ X \in Seq(S) /\ Len(X) = Len(pkts)
      BY <1>1, <1>8, Zenon
    <3>2. /\ stream \o X \in Seq(S) /\ Len(stream \o X) = Len(stream) + Len(X)
          /\ \A i \in 1 .. Len(stream) + Len(X) :
               (stream \o X)[i] = IF i <= Len(stream) THEN stream[i] ELSE X[i - Len(stream)]
      BY <3>1, ConcatProperties, Zenon
    <3>3. stream' = stream \o X
      BY <1>2, Zenon
    <3> QED BY <3>1, <3>2, <3>3
  <2> HIDE DEF L
  <2>4. DOMAIN stream' = 1 .. L + Len(pkts)
    BY <2>3
  <2>5. \A n \in 1 .. L : stream'[n] = stream[n]
    BY <2>1, <2>2, <2>3
  <2>6. \A i \in 1 .. Len(pkts) : stream'[L + i] = X[i]
    <3> TAKE i \in 1 .. Len(pkts)
    <3> DEFINE l == Len(pkts)
    <3> HIDE DEF l
    <3>1. i \in 1 .. l /\ l \in Nat
      BY <2>2 DEF l
    <3>2. L + i \in 1 .. L + l /\ ~(L + i <= L) /\ (L + i) - L = i
      BY <2>1, <3>1
    <3> DEFINE n == L + i
    <3> HIDE DEF n
    <3>3. n \in 1 .. L + Len(pkts) /\ ~(n <= L) /\ n - L = i
      BY <3>2 DEF n, l
    <3>4. stream'[n] = X[i]
      BY <2>3, <3>3
    <3> QED BY <3>4 DEF n
  <2> QED BY <2>1, <2>2, <2>3, <2>4, <2>5, <2>6
<1> HIDE DEF L
<1>10. Grows
  <2>1. \A n \in DOMAIN stream : n \in DOMAIN stream' /\ stream'[n] = stream[n]
    BY <1>9
  <2> QED BY <1>5, <2>1 DEF Grows
<1>11. SourceOK'
  <2>1. /\ sps_' \in Nat /\ pps_' \in Nat
        /\ sps_' # NoParam => sps_' \in DOMAIN src_units' /\ src_units'[sps_'].type = "sps"
        /\ pps_' # NoParam => pps_' \in DOMAIN src_units' /\ src_units'[pps_'].type = "pps"
    BY <1>1, <1>2, <1>3, <1>4, <1>5 DEF StreamOK, SourceOK
  <2> QED BY <1>1, <1>2, <1>5, <1>7, <1>9, <2>1 DEF SourceOK, Units, S
<1>12. \A n \in DOMAIN stream' :
         \/ n \in DOMAIN stream /\ stream'[n] = stream[n]
         \/ \E i \in DOMAIN pkts :
              /\ n = L + i /\ stream'[n].pkt = pkts[i] /\ stream'[n].era = restarts
  <2> TAKE n \in DOMAIN stream'
  <2>1. CASE n \in 1 .. L
    BY <1>9, <2>1
  <2>2. CASE n \notin 1 .. L
    <3>1. n - L \in DOMAIN pkts /\ n = L + (n - L)
      BY <1>9, <2>2
    <3> QED BY <1>8, <1>9, <3>1
  <2> QED BY <2>1, <2>2
<1>13. \A i \in DOMAIN pkts :
         L + i \in DOMAIN stream' /\ stream'[L + i].pkt = pkts[i] /\ stream'[L + i].era = restarts
  BY <1>8, <1>9
<1>14. WholeUnits(stream', src_units')
  <2>1. SUFFICES ASSUME NEW n \in DOMAIN stream', stream'[n].pkt.kind # "fua",
                        NEW k \in DOMAIN stream'[n].pkt.nals
                 PROVE  \E v \in DOMAIN src_units' :
                          Alone(stream'[n].pkt.nals[k], src_units', v)
    BY DEF WholeUnits
  <2>2. CASE n \in DOMAIN stream /\ stream'[n] = stream[n]
    <3>1. PICK v \in DOMAIN src_units : Alone(stream[n].pkt.nals[k], src_units, v)
      BY <2>1, <2>2 DEF StreamOK, WholeUnits
    <3>2. v \in DOMAIN src_units' /\ src_units'[v] = src_units[v]
      BY <1>5
    <3> QED BY <2>2, <3>1, <3>2 DEF Alone
  <2>3. CASE \E i \in DOMAIN pkts : stream'[n].pkt = pkts[i]
    <3>1. PICK i \in DOMAIN pkts : stream'[n].pkt = pkts[i]
      BY <2>3
    <3>2. CASE Entire(pkts[i], nal)
      <4>1. k = 1 /\ stream'[n].pkt.nals[k] = [type |-> nal.type, part |-> <<u0, 1, 1>>]
        BY <1>4, <2>1, <3>1, <3>2 DEF Entire
      <4>2. Pieces(src_units'[u0]) = 1
        BY <1>5, <3>2 DEF Entire
      <4> QED BY <1>5, <4>1, <4>2 DEF Alone
    <3>3. CASE ParameterSets(pkts[i], sps_, pps_)
      <4>1. /\ sps_ \in DOMAIN src_units /\ src_units[sps_].type = "sps"
            /\ pps_ \in DOMAIN src_units /\ src_units[pps_].type = "pps"
        BY <3>3 DEF ParameterSets, StreamOK, SourceOK
      <4>2. /\ sps_ \in DOMAIN src_units' /\ src_units'[sps_].type = "sps"
            /\ pps_ \in DOMAIN src_units' /\ src_units'[pps_].type = "pps"
        BY <1>5, <4>1
      <4>3. Pieces(src_units'[sps_]) = 1 /\ Pieces(src_units'[pps_]) = 1
        BY <4>2 DEF Pieces
      <4>4. \/ stream'[n].pkt.nals[k] = [type |-> "sps", part |-> <<sps_, 1, 1>>]
            \/ stream'[n].pkt.nals[k] = [type |-> "pps", part |-> <<pps_, 1, 1>>]
        BY <2>1, <3>1, <3>3 DEF ParameterSets
      <4>5. CASE stream'[n].pkt.nals[k] = [type |-> "sps", part |-> <<sps_, 1, 1>>]
        BY <4>2, <4>3, <4>5 DEF Alone
      <4>6. CASE stream'[n].pkt.nals[k] = [type |-> "pps", part |-> <<pps_, 1, 1>>]
        BY <4>2, <4>3, <4>6 DEF Alone
      <4> QED BY <4>4, <4>5, <4>6
    <3>4. ~\E j \in 1 .. Pieces(nal) : Fragmented(pkts[i], nal, j)
      BY <2>1, <3>1 DEF Fragmented
    <3> QED BY <1>6, <3>2, <3>3, <3>4
  <2> QED BY <1>12, <2>2, <2>3
<1>15. InRuns(stream', src_units')
  <2>1. SUFFICES ASSUME NEW n \in DOMAIN stream', stream'[n].pkt.kind = "fua"
                 PROVE  \E v \in DOMAIN src_units', i \in Nat :
                          /\ Piece(stream'[n], src_units', v, i)
                          /\ i < Pieces(src_units'[v]) =>
                               /\ n + 1 \in DOMAIN stream'
                               /\ Piece(stream'[n + 1], src_units', v, i + 1)
    BY DEF InRuns
  <2>2. CASE n \in DOMAIN stream /\ stream'[n] = stream[n]
    <3>1. PICK v \in DOMAIN src_units, i \in Nat :
            /\ Piece(stream[n], src_units, v, i)
            /\ i < Pieces(src_units[v]) =>
                 n + 1 \in DOMAIN stream /\ Piece(stream[n + 1], src_units, v, i + 1)
      BY <2>1, <2>2 DEF StreamOK, InRuns
    <3>2. v \in DOMAIN src_units' /\ src_units'[v] = src_units[v]
      BY <1>5
    <3>3. \A p, j : Piece(p, src_units, v, j) <=> Piece(p, src_units', v, j)
      BY <3>2 DEF Piece
    <3>4. n + 1 \in DOMAIN stream => n + 1 \in DOMAIN stream' /\ stream'[n + 1] = stream[n + 1]
      BY <1>10 DEF Grows
    <3> QED BY <2>2, <3>1, <3>2, <3>3, <3>4
  <2>3. CASE \E i \in DOMAIN pkts :
               n = L + i /\ stream'[n].pkt = pkts[i] /\ stream'[n].era = restarts
    <3>1. PICK i \in DOMAIN pkts :
            n = L + i /\ stream'[n].pkt = pkts[i] /\ stream'[n].era = restarts
      BY <2>3
    <3>2. ~Entire(pkts[i], nal) /\ ~ParameterSets(pkts[i], sps_, pps_)
      BY <2>1, <3>1 DEF Entire, ParameterSets
    <3>3. PICK j \in 1 .. Pieces(nal) :
            /\ Fragmented(pkts[i], nal, j)
            /\ j < Pieces(nal) =>
                 i + 1 \in DOMAIN pkts /\ Fragmented(pkts[i + 1], nal, j + 1)
      BY <1>6, <3>2
    <3>6. Pieces(nal) \in Nat /\ j \in Nat
      <4>1. nal.type \notin {"sps", "pps"}
        <5>1. pkts # <<>>
          BY <1>9, <3>1
        <5> QED BY <1>4, <5>1 DEF pkts
      <4> QED BY <1>4, <4>1, PieceCount
    <3>4. ASSUME NEW p, p.era = restarts, NEW jj \in 1 .. Pieces(nal),
                 Fragmented(p.pkt, nal, jj)
          PROVE  Piece(p, src_units', u0, jj)
      BY <1>4, <1>5, <3>4, <3>6 DEF Piece, Fragmented
    <3>5. Piece(stream'[n], src_units', u0, j)
      BY <3>1, <3>3, <3>4
    <3>7. j < Pieces(nal) =>
            n + 1 \in DOMAIN stream' /\ Piece(stream'[n + 1], src_units', u0, j + 1)
      <4>1. SUFFICES ASSUME j < Pieces(nal)
                     PROVE  n + 1 \in DOMAIN stream' /\ Piece(stream'[n + 1], src_units', u0, j + 1)
        OBVIOUS
      <4>2. i + 1 \in DOMAIN pkts /\ Fragmented(pkts[i + 1], nal, j + 1)
        BY <3>3, <4>1
      <4>3. n + 1 = L + (i + 1) /\ j + 1 \in 1 .. Pieces(nal)
        BY <1>9, <3>1, <3>6, <4>1
      <4>4. n + 1 \in DOMAIN stream' /\ stream'[n + 1].pkt = pkts[i + 1]
            /\ stream'[n + 1].era = restarts
        BY <1>13, <4>2, <4>3
      <4> QED BY <3>4, <4>2, <4>3, <4>4
    <3> QED BY <1>5, <3>5, <3>6, <3>7
  <2> QED BY <1>12, <2>2, <2>3
<1>16. Appends
  <2>1. \A i \in 1 .. Len(pkts) :
          /\ stream'[L + i].seq = (src_seq + i - 1) % RtpSeqMod
          /\ stream'[L + i].era = restarts
    BY <1>8, <1>9
  <2> QED BY <1>2, <1>9, <2>1 DEF Appends, L
<1> QED BY <1>2, <1>10, <1>11, <1>14, <1>15, <1>16 DEF StreamOK

-----------------------------------------------------------------------------
(* A sender's history that the lemmas on the queue are about.              *)
History(str, units, org) ==
  /\ InRuns(str, units) /\ DOMAIN str \subseteq Int
  /\ \A n \in DOMAIN str : str[n].era \in Nat
  /\ \A e \in DOMAIN org : org[e] \in Int

(* What the fragment at place n is.                                        *)
LEMMA FragmentIs ==
  ASSUME NEW str, NEW units, NEW org, History(str, units, org),
         NEW f, NEW n, FragAt(f, n, str, org)
  PROVE  \E u \in DOMAIN units, i \in Nat :
           LET c == Pieces(units[u]) IN
           /\ f.type = units[u].type /\ f.part = <<u, i, c>> /\ c \in Nat /\ i \in 1 .. c
           /\ f.s = (i = 1) /\ f.e = (i = c) /\ units[u].era = str[n].era
           /\ i < c => /\ n + 1 \in DOMAIN str /\ str[n + 1].pkt.kind = "fua"
                       /\ str[n + 1].pkt.nals[1].part = <<u, i + 1, c>>
<1>1. PICK u \in DOMAIN units, i \in Nat :
        /\ Piece(str[n], units, u, i)
        /\ i < Pieces(units[u]) =>
             n + 1 \in DOMAIN str /\ Piece(str[n + 1], units, u, i + 1)
  BY DEF FragAt, History, InRuns
<1> DEFINE c == Pieces(units[u])
<1> HIDE DEF c
<1>2. /\ c \in Nat /\ i \in 1 .. c /\ f.type = units[u].type /\ f.part = <<u, i, c>>
      /\ f.s = (i = 1) /\ f.e = (i = c) /\ units[u].era = str[n].era
  BY <1>1 DEF Piece, FragAt, c
<1>3. i < c => /\ n + 1 \in DOMAIN str /\ str[n + 1].pkt.kind = "fua"
               /\ str[n + 1].pkt.nals[1].part = <<u, i + 1, c>>
  BY <1>1 DEF Piece, c
<1> QED BY <1>2, <1>3 DEF c

LEMMA FragmentEra ==
  ASSUME NEW str, NEW units, NEW org, History(str, units, org),
         NEW f, NEW n, FragAt(f, n, str, org)
  PROVE  Era(units, f.part) = str[n].era /\ str[n].era \in Nat
BY FragmentIs DEF Era, History, FragAt

(* Numbers that follow one another in one era are places that do: behind a *)
(* fragment that is not the last of its unit comes the next one.           *)
LEMMA NextPlace ==
  ASSUME NEW str, NEW units, NEW org, History(str, units, org),
         NEW f, NEW n, FragAt(f, n, str, org), ~f.e,
         NEW k, NEW m \in DOMAIN str, str[m].era = str[n].era,
         k = org[str[m].era] + m, k = f.ext + 1
  PROVE  /\ str[m].pkt.kind = "fua"
         /\ str[m].pkt.nals[1].part = <<f.part[1], f.part[2] + 1, f.part[3]>>
<1>1. m = n + 1
  <2>1. m \in Int /\ n \in Int /\ org[str[n].era] \in Int
    BY DEF FragAt, History
  <2>2. f.ext = org[str[n].era] + n
    BY DEF FragAt
  <2> QED BY <2>1, <2>2
<1>2. PICK u \in DOMAIN units, i \in Nat :
        LET c == Pieces(units[u]) IN
        /\ f.part = <<u, i, c>> /\ c \in Nat /\ i \in 1 .. c /\ f.e = (i = c)
        /\ i < c => /\ n + 1 \in DOMAIN str /\ str[n + 1].pkt.kind = "fua"
                    /\ str[n + 1].pkt.nals[1].part = <<u, i + 1, c>>
  BY FragmentIs
<1> DEFINE c == Pieces(units[u])
<1> HIDE DEF c
<1>3. /\ f.part = <<u, i, c>> /\ c \in Nat /\ i \in 1 .. c /\ f.e = (i = c)
      /\ i < c => /\ n + 1 \in DOMAIN str /\ str[n + 1].pkt.kind = "fua"
                  /\ str[n + 1].pkt.nals[1].part = <<u, i + 1, c>>
  BY <1>2 DEF c
<1>4. i < c
  <2>1. i # c
    BY <1>3, Zenon
  <2> QED BY <1>3, <2>1
<1>5. f.part[1] = u /\ f.part[2] = i /\ f.part[3] = c
  BY <1>3
<1> QED BY <1>1, <1>3, <1>4, <1>5

(* What is left when stale fragments are popped.                           *)
LEMMA Cut ==
  ASSUME NEW str, NEW units, NEW org,
         NEW q \in Seq(Frags), \A i \in 1 .. Len(q) : i > 1 => ~q[i].s,
         NEW last, NEW hand, Known(q, last, hand, str, units, org),
         NEW a \in 1 .. Len(q) + 1
  PROVE  LET r == SubSeq(q, a, Len(q)) IN
         /\ r \in Seq(Frags) /\ Known(r, last, hand, str, units, org)
         /\ \A i \in 1 .. Len(r) : \E j \in 1 .. Len(q) : r[i] = q[j] /\ (i > 1 => j > 1)
<1> DEFINE l == Len(q)
           r == SubSeq(q, a, l)
           b == a - 1
<1>0. l \in Nat /\ b \in 0 .. l
  OBVIOUS
<1>1. /\ r \in Seq(Frags) /\ Len(r) = l - b
      /\ \A i \in 1 .. l - b : r[i] = q[b + i]
  <2>1. r \in Seq(Frags)
    OBVIOUS
  <2>2. Len(r) = l - b /\ \A i \in 1 .. l - b : r[i] = q[a + i - 1]
    OBVIOUS
  <2>3. \A i \in 1 .. l - b : a + i - 1 = b + i
    OBVIOUS
  <2> QED BY <2>1, <2>2, <2>3
<1>2. Located(q, str, org) /\ Adjacent(q, units) /\ Prefix(q, units)
      /\ Behind(q, last, hand, str, units)
  BY DEF Known
<1>3. \A i \in 1 .. l : i > 1 => ~q[i].s
  OBVIOUS
<1> HIDE DEF l, r, b
<1>4. \A i \in 1 .. l - b : b + i \in 1 .. l /\ (i > 1 => b + i > 1)
  BY <1>0
<1>5. Located(r, str, org)
  BY <1>1, <1>2, <1>4 DEF Located, l
<1>6. Adjacent(r, units)
  <2>1. SUFFICES ASSUME NEW i \in 1 .. (l - b) - 1,
                        Era(units, r[i + 1].part) = Era(units, r[i].part)
                 PROVE  r[i + 1].ext = r[i].ext + 1
    BY <1>1 DEF Adjacent
  <2>2. /\ i \in 1 .. l - b /\ i + 1 \in 1 .. l - b /\ b + (i + 1) = (b + i) + 1
        /\ b + i \in 1 .. l - 1
    BY <1>0
  <2>3. r[i] = q[b + i] /\ r[i + 1] = q[(b + i) + 1]
    BY <1>1, <2>2
  <2> QED BY <1>2, <2>1, <2>2, <2>3 DEF Adjacent, l
<1>7. Prefix(r, units)
  <2>1. CASE b = 0
    <3>1. Len(r) = l /\ \A i \in 1 .. l : r[i] = q[i]
      BY <1>0, <1>1, <2>1
    <3>2. \A i \in 1 .. l : 1 \in 1 .. l /\ \A j \in 1 .. i : j \in 1 .. l
      BY <1>0
    <3>3. SUFFICES ASSUME NEW i \in 1 .. l, r[1].s,
                          \A j \in 1 .. i : Era(units, r[j].part) = Era(units, r[1].part)
                   PROVE  r[i].part = <<r[1].part[1], i, r[1].part[3]>>
      BY <3>1 DEF Prefix
    <3>4. r[1] = q[1] /\ r[i] = q[i] /\ \A j \in 1 .. i : r[j] = q[j]
      BY <3>1, <3>2
    <3>5. q[1].s /\ \A j \in 1 .. i : Era(units, q[j].part) = Era(units, q[1].part)
      BY <3>3, <3>4
    <3>6. q[i].part = <<q[1].part[1], i, q[1].part[3]>>
      BY <1>2, <3>5 DEF Prefix, l
    <3> QED BY <3>4, <3>6
  <2>2. CASE b # 0
    <3>1. SUFFICES ASSUME NEW i \in 1 .. l - b PROVE ~r[1].s
      BY <1>1 DEF Prefix
    <3>2. 1 \in 1 .. l - b /\ b + 1 \in 1 .. l /\ b + 1 > 1
      BY <1>0, <2>2
    <3> QED BY <1>1, <1>3, <3>2
  <2> QED BY <2>1, <2>2
<1>8. Behind(r, last, hand, str, units)
  <2>1. CASE l - b = 0
    BY <1>1, <2>1 DEF Behind
  <2>2. CASE l - b # 0
    <3>1. l - b \in 1 .. l - b /\ b + (l - b) = l /\ l # 0
      BY <1>0, <2>2
    <3>2. Len(r) = l - b /\ r[Len(r)] = q[l]
      BY <1>1, <3>1
    <3> QED BY <1>2, <3>1, <3>2 DEF Behind, l
  <2> QED BY <2>1, <2>2
<1>9. \A i \in 1 .. Len(r) : \E j \in 1 .. l : r[i] = q[j] /\ (i > 1 => j > 1)
  BY <1>1, <1>4
<1> QED BY <1>1, <1>5, <1>6, <1>7, <1>8, <1>9 DEF Known, r, l

(* The fields the claims are about stay when only the ages change.         *)
LEMMA Aged ==
  ASSUME NEW str, NEW units, NEW org, NEW last, NEW hand,
         NEW q, NEW r, Len(r) = Len(q), Len(q) \in Nat,
         \A i \in 1 .. Len(q) :
           /\ r[i].ext = q[i].ext /\ r[i].s = q[i].s /\ r[i].e = q[i].e
           /\ r[i].type = q[i].type /\ r[i].part = q[i].part,
         Known(q, last, hand, str, units, org)
  PROVE  Known(r, last, hand, str, units, org)
<1> DEFINE l == Len(q)
<1>1. Located(q, str, org) /\ Adjacent(q, units) /\ Prefix(q, units)
      /\ Behind(q, last, hand, str, units) /\ l \in Nat /\ Len(r) = l
  BY DEF Known
<1>2. \A i \in 1 .. l :
        /\ r[i].ext = q[i].ext /\ r[i].s = q[i].s /\ r[i].e = q[i].e
        /\ r[i].type = q[i].type /\ r[i].part = q[i].part
  OBVIOUS
<1> HIDE DEF l
<1>3. Located(r, str, org)
  BY <1>1, <1>2 DEF Located, FragAt, l
<1>4. Adjacent(r, units)
  <2>1. \A i \in 1 .. l - 1 : i \in 1 .. l /\ i + 1 \in 1 .. l
    BY <1>1
  <2> QED BY <1>1, <1>2, <2>1 DEF Adjacent, l
<1>5. Prefix(r, units)
  <2>1. \A i \in 1 .. l : 1 \in 1 .. l /\ \A j \in 1 .. i : j \in 1 .. l
    BY <1>1
  <2>2. SUFFICES ASSUME NEW i \in 1 .. l, r[1].s,
                        \A j \in 1 .. i : Era(units, r[j].part) = Era(units, r[1].part)
                 PROVE  r[i].part = <<r[1].part[1], i, r[1].part[3]>>
    BY <1>1 DEF Prefix
  <2>3. q[1].s /\ \A j \in 1 .. i : Era(units, q[j].part) = Era(units, q[1].part)
    BY <1>2, <2>1, <2>2
  <2>4. q[i].part = <<q[1].part[1], i, q[1].part[3]>>
    BY <1>1, <2>3 DEF Prefix, l
  <2> QED BY <1>2, <2>1, <2>4
<1>6. Behind(r, last, hand, str, units)
  <2>1. l # 0 => l \in 1 .. l
    BY <1>1
  <2> QED BY <1>1, <1>2, <2>1 DEF Behind, l
<1> QED BY <1>3, <1>4, <1>5, <1>6 DEF Known

(* What is known stays known when the sender sends more and new eras come. *)
LEMMA KnownLater ==
  ASSUME NEW str, NEW units, NEW org, History(str, units, org),
         NEW str2, NEW units2, NEW org2,
         \A n \in DOMAIN str : n \in DOMAIN str2 /\ str2[n] = str[n],
         \A u \in DOMAIN units : u \in DOMAIN units2 /\ units2[u] = units[u],
         \A e \in DOMAIN org : e \in DOMAIN org2 /\ org2[e] = org[e],
         NEW q, Len(q) \in Nat, NEW last, NEW hand, Known(q, last, hand, str, units, org)
  PROVE  Known(q, last, hand, str2, units2, org2)
<1>1. Located(q, str, org) /\ Adjacent(q, units) /\ Prefix(q, units)
      /\ Behind(q, last, hand, str, units)
  BY DEF Known
<1>2. \A i \in 1 .. Len(q) : Era(units2, q[i].part) = Era(units, q[i].part)
  <2> TAKE i \in 1 .. Len(q)
  <2>1. PICK n \in DOMAIN str : FragAt(q[i], n, str, org)
    BY <1>1 DEF Located
  <2>2. PICK u \in DOMAIN units, j \in Nat : q[i].part = <<u, j, Pieces(units[u])>>
    BY <2>1, FragmentIs
  <2>3. q[i].part[1] = u
    BY <2>2
  <2> QED BY <2>3 DEF Era
<1>3. Located(q, str2, org2)
  BY <1>1 DEF Located, FragAt
<1>4. Adjacent(q, units2)
  <2>1. \A i \in 1 .. Len(q) - 1 : i \in 1 .. Len(q) /\ i + 1 \in 1 .. Len(q)
    OBVIOUS
  <2> QED BY <1>1, <1>2, <2>1 DEF Adjacent
<1>5. Prefix(q, units2)
  <2>1. \A i \in 1 .. Len(q) : 1 \in 1 .. Len(q) /\ \A j \in 1 .. i : j \in 1 .. Len(q)
    OBVIOUS
  <2>2. SUFFICES ASSUME NEW i \in 1 .. Len(q), q[1].s,
                        \A j \in 1 .. i : Era(units2, q[j].part) = Era(units2, q[1].part)
                 PROVE  q[i].part = <<q[1].part[1], i, q[1].part[3]>>
    BY DEF Prefix
  <2>3. \A j \in 1 .. i : Era(units, q[j].part) = Era(units, q[1].part)
    BY <1>2, <2>1, <2>2
  <2> QED BY <1>1, <2>2, <2>3 DEF Prefix
<1>6. Behind(q, last, hand, str2, units2)
  <2>1. Len(q) # 0 => Len(q) \in 1 .. Len(q)
    OBVIOUS
  <2> QED BY <1>1, <1>2, <2>1 DEF Behind
<1> QED BY <1>3, <1>4, <1>5, <1>6 DEF Known

(* A packet that is not a fragment is not the next one while fragments of  *)
(* its own era wait, so what is known of them stays known.                 *)
LEMMA Passed ==
  ASSUME NEW str, NEW units, NEW org, History(str, units, org),
         NEW q \in Seq(Frags), \A i \in 1 .. Len(q) : ~q[i].e,
         NEW last, NEW hand, Known(q, last, hand, str, units, org),
         NEW k \in Int, NEW n \in DOMAIN str, str[n].pkt.kind # "fua",
         k = org[str[n].era] + n, str[n].era \in DOMAIN org,
         Len(q) # 0 => k = last + 1,
         hand \in DOMAIN str => str[hand].era <= str[n].era
  PROVE  Known(q, k, n, str, units, org)
<1> DEFINE l == Len(q)
<1>1. Located(q, str, org) /\ Adjacent(q, units) /\ Prefix(q, units)
      /\ Behind(q, last, hand, str, units) /\ l \in Nat
  BY DEF Known
<1>2. SUFFICES ASSUME l # 0
               PROVE  Era(units, q[l].part) < str[n].era /\ str[n].era \in Nat
                      /\ Era(units, q[l].part) \in Nat
  BY <1>1 DEF Known, Behind
<1>3. l \in 1 .. l
  BY <1>1, <1>2
<1>4. PICK m \in DOMAIN str : FragAt(q[l], m, str, org)
  BY <1>1, <1>3 DEF Located
<1>5. /\ hand \in DOMAIN str /\ Era(units, q[l].part) <= str[hand].era
      /\ Era(units, q[l].part) = str[hand].era => last = q[l].ext
  BY <1>1, <1>2 DEF Behind
<1>6. /\ Era(units, q[l].part) = str[m].era /\ str[m].era \in Nat
      /\ str[hand].era \in Nat /\ str[n].era \in Nat
  BY <1>4, <1>5, FragmentEra DEF History
<1>7. CASE str[n].era = str[m].era
  <2>1. last = q[l].ext
    BY <1>5, <1>6, <1>7
  <2>2. k = q[l].ext + 1 /\ ~q[l].e
    BY <1>2, <1>3, <2>1
  <2>3. str[n].pkt.kind = "fua"
    BY <1>4, <1>7, <2>2, NextPlace
  <2> QED BY <2>3
<1>8. CASE str[n].era # str[m].era
  BY <1>5, <1>6, <1>8
<1> QED BY <1>7, <1>8

LEMMA LastPiece ==
  ASSUME NEW str, NEW units, NEW org, History(str, units, org),
         NEW f, NEW n, FragAt(f, n, str, org), f.e
  PROVE  \E u \in DOMAIN units, i \in Nat :
           f.part = <<u, i, Pieces(units[u])>> /\ i = Pieces(units[u])
<1>1. PICK u \in DOMAIN units, i \in Nat : Piece(str[n], units, u, i)
  BY DEF FragAt, History, InRuns
<1>2. i = Pieces(units[u])
  <2>1. f.e = (i = Pieces(units[u]))
    BY <1>1 DEF Piece, FragAt
  <2> QED BY <2>1, Zenon
<1>3. f.part = <<u, i, Pieces(units[u])>>
  BY <1>1 DEF Piece, FragAt
<1> QED BY <1>2, <1>3

(* A start, its successors and an end: one whole unit.                     *)
LEMMA Joined ==
  ASSUME NEW str, NEW units, NEW org, History(str, units, org),
         NEW q \in Seq(Frags), Located(q, str, org), Prefix(q, units),
         Len(q) # 0, q[1].s, q[Len(q)].e,
         \A i \in 1 .. Len(q) : Era(units, q[i].part) = Era(units, q[1].part)
  PROVE  \E u \in DOMAIN units :
           /\ q[1].type = units[u].type
           /\ [i \in 1 .. Len(q) |-> q[i].part]
                = [i \in 1 .. Pieces(units[u]) |-> <<u, i, Pieces(units[u])>>]
<1> DEFINE l == Len(q)
<1>1. l \in Nat /\ 1 \in 1 .. l /\ l \in 1 .. l
  OBVIOUS
<1>2. PICK n \in DOMAIN str, m \in DOMAIN str :
        FragAt(q[1], n, str, org) /\ FragAt(q[l], m, str, org)
  BY <1>1 DEF Located
<1>3. PICK u \in DOMAIN units, i \in Nat :
        q[1].type = units[u].type /\ q[1].part = <<u, i, Pieces(units[u])>>
  <2> DEFINE f == q[1]
  <2> HIDE DEF f
  <2>1. FragAt(f, n, str, org)
    BY <1>2 DEF f
  <2>2. \E u \in DOMAIN units, i \in Nat :
          f.type = units[u].type /\ f.part = <<u, i, Pieces(units[u])>>
    BY <2>1, FragmentIs
  <2> QED BY <2>2 DEF f
<1>4. PICK v \in DOMAIN units, j \in Nat :
        q[l].part = <<v, j, Pieces(units[v])>> /\ j = Pieces(units[v])
  BY <1>2, LastPiece
<1> DEFINE c == Pieces(units[u])
<1>5. q[1].part[1] = u /\ q[1].part[3] = c
  BY <1>3
<1>6. \A x \in 1 .. l : q[x].part = <<u, x, c>>
  <2> TAKE x \in 1 .. l
  <2>1. \A y \in 1 .. x : y \in 1 .. l
    BY <1>1
  <2> QED BY <1>5, <2>1 DEF Prefix
<1>7. q[l].part = <<u, l, c>>
  BY <1>1, <1>6
<1>8. v = u /\ j = l
  BY <1>4, <1>7
<1>9. l = c
  BY <1>4, <1>8
<1> HIDE DEF l, c
<1>10. [x \in 1 .. l |-> q[x].part] = [x \in 1 .. c |-> <<u, x, c>>]
  BY <1>6, <1>9
<1> QED BY <1>3, <1>10 DEF l, c

LEMMA NothingKnown ==
  ASSUME NEW str, NEW units, NEW org, NEW last, NEW hand
  PROVE  Known(<<>>, last, hand, str, units, org)
BY DEF Known, Located, Adjacent, Prefix, Behind

(* A fragment that is the next packet goes behind those that wait.         *)
LEMMA Push ==
  ASSUME NEW str, NEW units, NEW org, History(str, units, org),
         NEW q \in Seq(Frags), \A i \in 1 .. Len(q) : ~q[i].e,
         NEW last, NEW hand, Known(q, last, hand, str, units, org),
         NEW f \in Frags, NEW n, FragAt(f, n, str, org),
         Len(q) # 0 => f.ext = last + 1,
         hand \in DOMAIN str => str[hand].era <= str[n].era
  PROVE  Known(Append(q, f), f.ext, n, str, units, org)
<1> DEFINE l == Len(q)
           r == Append(q, f)
<1>1. /\ l \in Nat /\ r \in Seq(Frags) /\ Len(r) = l + 1 /\ r[l + 1] = f
      /\ \A i \in 1 .. l : r[i] = q[i]
  OBVIOUS
<1>2. Located(q, str, org) /\ Adjacent(q, units) /\ Prefix(q, units)
      /\ Behind(q, last, hand, str, units)
  BY DEF Known
<1>3. Era(units, f.part) = str[n].era /\ str[n].era \in Nat /\ n \in DOMAIN str
  BY FragmentEra DEF FragAt
<1> HIDE DEF l, r
<1>4. \A i \in 1 .. l + 1 : i = l + 1 \/ i \in 1 .. l
  BY <1>1
<1>5. Located(r, str, org)
  BY <1>1, <1>2, <1>3, <1>4 DEF Located, l
<1>6. l # 0 /\ Era(units, f.part) = Era(units, q[l].part) => last = q[l].ext
  <2>1. SUFFICES ASSUME l # 0, Era(units, f.part) = Era(units, q[l].part)
                 PROVE  last = q[l].ext
    OBVIOUS
  <2>2. /\ hand \in DOMAIN str /\ Era(units, q[l].part) <= str[hand].era
        /\ Era(units, q[l].part) = str[hand].era => last = q[l].ext
    BY <1>2, <2>1 DEF Behind, l
  <2>3. str[hand].era \in Nat
    BY <2>2 DEF History
  <2> QED BY <1>3, <2>1, <2>2, <2>3
<1>7. Adjacent(r, units)
  <2>1. SUFFICES ASSUME NEW i \in 1 .. l, Era(units, r[i + 1].part) = Era(units, r[i].part)
                 PROVE  r[i + 1].ext = r[i].ext + 1
    BY <1>1 DEF Adjacent
  <2>2. CASE i = l
    BY <1>1, <1>6, <2>1, <2>2 DEF l
  <2>3. CASE i # l
    <3>1. i \in 1 .. l - 1 /\ i + 1 \in 1 .. l /\ i \in 1 .. l
      BY <1>1, <2>3
    <3> QED BY <1>1, <1>2, <2>1, <3>1 DEF Adjacent, l
  <2> QED BY <2>2, <2>3
<1>8. Prefix(r, units)
  <2>1. SUFFICES ASSUME NEW i \in 1 .. l + 1, r[1].s,
                        \A j \in 1 .. i : Era(units, r[j].part) = Era(units, r[1].part)
                 PROVE  r[i].part = <<r[1].part[1], i, r[1].part[3]>>
    BY <1>1 DEF Prefix
  <2>2. CASE l = 0
    <3>1. i = 1 /\ r[1] = f
      BY <1>1, <2>2
    <3>2. PICK u \in DOMAIN units, j \in Nat :
            f.part = <<u, j, Pieces(units[u])>> /\ f.s = (j = 1)
      BY FragmentIs
    <3>3. j = 1
      BY <2>1, <3>1, <3>2
    <3> QED BY <3>1, <3>2, <3>3
  <2>3. CASE l # 0
    <3>1. 1 \in 1 .. l /\ l \in 1 .. l /\ r[1] = q[1]
      BY <1>1, <2>3
    <3>2. CASE i # l + 1
      <4>1. i \in 1 .. l
        BY <1>1, <3>2
      <4>2. \A j \in 1 .. i : r[j] = q[j]
        BY <1>1, <4>1
      <4>3. \A j \in 1 .. i : Era(units, q[j].part) = Era(units, q[1].part)
        BY <2>1, <3>1, <4>2
      <4> QED BY <1>1, <1>2, <2>1, <3>1, <4>1, <4>3 DEF Prefix, l
    <3>3. CASE i = l + 1
      <4>1. \A j \in 1 .. l : j \in 1 .. i /\ r[j] = q[j]
        BY <1>1, <3>3
      <4>2. \A j \in 1 .. l : Era(units, q[j].part) = Era(units, q[1].part)
        BY <2>1, <3>1, <4>1
      <4>3. q[l].part = <<q[1].part[1], l, q[1].part[3]>>
        BY <1>2, <2>1, <3>1, <4>2 DEF Prefix, l
      <4>4. l + 1 \in 1 .. i
        BY <1>1, <3>3
      <4>5. Era(units, f.part) = Era(units, q[l].part)
        BY <1>1, <2>1, <3>1, <4>2, <4>4
      <4>6. f.ext = q[l].ext + 1
        BY <1>6, <2>3, <4>5 DEF l
      <4>7. PICK m \in DOMAIN str : FragAt(q[l], m, str, org)
        BY <1>2, <3>1 DEF Located, l
      <4>8. ~q[l].e
        BY <3>1 DEF l
      <4>9. str[n].era = str[m].era
        BY <1>3, <4>5, <4>7, FragmentEra
      <4>10. f.ext = org[str[n].era] + n /\ f.part = str[n].pkt.nals[1].part
        BY DEF FragAt
      <4>11. f.part = <<q[l].part[1], q[l].part[2] + 1, q[l].part[3]>>
        BY <1>3, <4>6, <4>7, <4>8, <4>9, <4>10, NextPlace
      <4>12. q[l].part[1] = q[1].part[1] /\ q[l].part[2] = l /\ q[l].part[3] = q[1].part[3]
        BY <4>3
      <4> QED BY <1>1, <3>1, <3>3, <4>11, <4>12
    <3> QED BY <3>2, <3>3
  <2> QED BY <2>2, <2>3
<1>9. Behind(r, f.ext, n, str, units)
  BY <1>1, <1>3 DEF Behind
<1> QED BY <1>5, <1>7, <1>8, <1>9 DEF Known, r

-----------------------------------------------------------------------------
(* The key-frame gate.                                                     *)
GateStep ==
  damaged /\ ~muted =>
    \A i \in DOMAIN delivered' :
      \E j \in DOMAIN delivered' : j <= i /\ delivered'[j].type = "idr"

(* What one call of MediaPacketOutput per unit and perhaps ReportLost do.  *)
LEMMA Outputs ==
  ASSUME Flags, GateClosed, NEW nals, NEW l \in Nat, DOMAIN nals = 1 .. l,
         NEW lost \in BOOLEAN, Output(nals, lost)
  PROVE  /\ find_keyframe_' \in BOOLEAN /\ damaged' \in BOOLEAN /\ muted' \in BOOLEAN
         /\ pack_report_age' \in 0 .. PackReportGap + 1
         /\ GateClosed' /\ GateStep
         /\ \A d \in DOMAIN delivered' : d \in DOMAIN nals /\ delivered'[d] = nals[d]
<1> DEFINE report == lost /\ pack_report_age > PackReportGap
           key == HasKey(nals)
           await == find_keyframe_ /\ ~key
           D == {i \in DOMAIN nals :
                   /\ nals[i].type # "aud"
                   /\ find_keyframe_ => \E j \in 1 .. i : nals[j].type = "idr"}
<1>1. /\ delivered' = Restrict(nals, D)
      /\ pack_report_age' = IF report THEN 0 ELSE pack_report_age
      /\ find_keyframe_' = (report \/ await)
      /\ damaged' = (lost \/ (damaged /\ ~key))
      /\ muted' = (\/ lost /\ ~report /\ ~await
                   \/ muted /\ ~key /\ ~report)
  BY DEF Output, Gate
<1>2. DOMAIN delivered' = D /\ \A d \in D : d \in DOMAIN nals /\ delivered'[d] = nals[d]
  BY <1>1 DEF Restrict
<1>3. pack_report_age' \in 0 .. PackReportGap + 1
  BY <1>1, PackConstants DEF Flags
<1>4. GateStep
  <2>1. SUFFICES ASSUME find_keyframe_, NEW i \in D
                 PROVE  \E j \in D : j <= i /\ delivered'[j].type = "idr"
    BY <1>2 DEF GateStep, GateClosed
  <2>2. PICK j \in 1 .. i : nals[j].type = "idr"
    BY <2>1
  <2>3. i \in 1 .. l /\ j \in 1 .. l /\ j <= i
    BY <2>1
  <2>4. j \in 1 .. j
    BY <2>3
  <2>5. j \in D
    BY <2>2, <2>3, <2>4
  <2> QED BY <1>2, <2>2, <2>3, <2>5
<1> HIDE DEF report, key, D
<1>5. find_keyframe_' \in BOOLEAN /\ damaged' \in BOOLEAN /\ muted' \in BOOLEAN
  BY <1>1, Zenon
<1>6. report => lost
  BY DEF report
<1>7. GateClosed'
  BY <1>1, <1>6, Zenon DEF GateClosed
<1> QED BY <1>2, <1>3, <1>4, <1>5, <1>7

(* CheckFuaTimeout leaves an end of the queue.                             *)
LEMMA Pops ==
  ASSUME NEW q \in Seq(Frags)
  PROVE  \E a \in 1 .. Len(q) + 1 : CheckFuaTimeout(q) = SubSeq(q, a, Len(q))
<1> DEFINE popped == {i \in DOMAIN q : \A j \in 1 .. i : Stale(q[j])}
           l == Len(q)
<1>1. l \in Nat /\ DOMAIN q = 1 .. l
  OBVIOUS
<1>2. popped \subseteq 1 .. l
  BY <1>1
<1>3. CheckFuaTimeout(q) = SubSeq(q, Cardinality(popped) + 1, l)
  BY DEF CheckFuaTimeout
<1> HIDE DEF popped, l
<1>4. IsFiniteSet(1 .. l) /\ Cardinality(1 .. l) = l
  BY <1>1, FS_Interval
<1>5. IsFiniteSet(popped) /\ Cardinality(popped) <= l
  BY <1>2, <1>4, FS_Subset
<1>6. Cardinality(popped) \in Nat
  BY <1>5, FS_CardinalityType
<1>7. Cardinality(popped) + 1 \in 1 .. l + 1
  BY <1>1, <1>5, <1>6
<1> QED BY <1>3, <1>7 DEF l

-----------------------------------------------------------------------------
(* One packet into the depacketiser.                                       *)
IntactUnit(x, units) ==
  (\A i \in DOMAIN x.parts : Era(units, x.parts[i]) = Era(units, x.parts[1])) =>
    \E u \in DOMAIN units :
      /\ x.type = units[u].type
      /\ x.parts = [i \in 1 .. Pieces(units[u]) |-> <<u, i, Pieces(units[u])>>]

Clean(k) == ~Stray(k) /\ (straggler => packets_queue_ = <<>>)

PackDone(k) ==
  /\ last_extend_seq_' = k /\ Flags' /\ GateClosed' /\ GateStep /\ QueueOK'
  /\ Clean(k) =>
       /\ Known(packets_queue_', k, pending[k], stream, src_units, origin)
       /\ \A d \in DOMAIN delivered' : IntactUnit(delivered'[d], src_units)

(* The lemmas on the queue are about the history as it is.                 *)
LEMMA HistoryIs ==
  ASSUME VInv
  PROVE  /\ History(stream, src_units, origin)
         /\ DOMAIN stream = 1 .. Len(stream) /\ Len(stream) \in Nat
         /\ DOMAIN stream \subseteq Int
         /\ \A m \in DOMAIN stream : stream[m].era \in Nat /\ stream[m].seq \in Seqs /\ m # 0
         /\ \A e \in DOMAIN origin : origin[e] \in Int
<1> DEFINE R == [pkt : Pkts, seq : Seqs, era : Nat]
<1>1. stream \in Seq(R)
  BY DEF VInv, StreamOK, SourceOK
<1>2. DOMAIN stream = 1 .. Len(stream) /\ Len(stream) \in Nat
  BY <1>1
<1>3. \A m \in DOMAIN stream : stream[m] \in R
  <2> HIDE DEF R
  <2> QED BY <1>1
<1>4. /\ \A e \in DOMAIN origin : origin[e] \in Int
      /\ InRuns(stream, src_units)
  BY DEF VInv, StreamOK
<1>5. DOMAIN stream \subseteq Int /\ \A m \in DOMAIN stream : m # 0
  BY <1>2
<1>6. \A m \in DOMAIN stream : stream[m].era \in Nat /\ stream[m].seq \in Seqs
  BY <1>3
<1> QED BY <1>2, <1>4, <1>5, <1>6 DEF History

LEMMA CleanIs ==
  ASSUME VInv, NEW k \in DOMAIN pending, Clean(k)
  PROVE  LET n == pending[k] IN
         /\ Known(packets_queue_, last_extend_seq_, handed, stream, src_units, origin)
         /\ n \in DOMAIN stream /\ stream[n].era \in DOMAIN origin
         /\ k = origin[stream[n].era] + n
         /\ handed \in DOMAIN stream => stream[handed].era <= stream[n].era
         /\ History(stream, src_units, origin)
<1> DEFINE n == pending[k]
<1>1. /\ n \in DOMAIN stream /\ stream[n].era \in DOMAIN origin /\ k \in Nat
  BY DEF VInv, Positions
<1>5. History(stream, src_units, origin)
  BY HistoryIs
<1>3. /\ DOMAIN stream \subseteq Int /\ \A m \in DOMAIN stream : stream[m].era \in Nat /\ m # 0
      /\ \A e \in DOMAIN origin : origin[e] \in Int
  BY HistoryIs
<1>6. ~straggler \/ packets_queue_ = <<>>
  BY DEF Clean
<1>7. Known(packets_queue_, last_extend_seq_, handed, stream, src_units, origin)
  BY <1>6, NothingKnown DEF VInv
<1>8. k - n = origin[stream[n].era] /\ (handed # 0 => ~(stream[n].era < stream[handed].era))
  BY DEF Clean, Stray
<1>9. k = origin[stream[n].era] + n
  BY <1>1, <1>3, <1>8
<1>10. handed \in DOMAIN stream => stream[handed].era <= stream[n].era
  BY <1>1, <1>3, <1>8
<1> QED BY <1>1, <1>5, <1>7, <1>9, <1>10

(* The branches that empty the queue and output nothing.                   *)
LEMMA Emptied ==
  ASSUME VInv, NEW k \in DOMAIN pending, Output(<<>>, TRUE),
         packets_queue_' = <<>>, start_flag_' = FALSE,
         last_extend_seq_' = k, pack_init_' \in BOOLEAN
  PROVE  PackDone(k)
<1>1. /\ find_keyframe_' \in BOOLEAN /\ damaged' \in BOOLEAN /\ muted' \in BOOLEAN
      /\ pack_report_age' \in 0 .. PackReportGap + 1
      /\ GateClosed' /\ GateStep
      /\ \A d \in DOMAIN delivered' : d \in DOMAIN <<>>
  <2>1. DOMAIN <<>> = 1 .. 0 /\ 0 \in Nat /\ Flags /\ GateClosed
    BY DEF VInv
  <2> QED BY <2>1, Outputs
<1>2. Flags'
  BY <1>1 DEF Flags
<1>3. QueueOK'
  BY DEF QueueOK
<1>4. Known(packets_queue_', k, pending[k], stream, src_units, origin)
  BY NothingKnown
<1>5. DOMAIN delivered' = {}
  <2>1. DOMAIN <<>> = {}
    OBVIOUS
  <2> QED BY <1>1, <2>1
<1> QED BY <1>1, <1>2, <1>3, <1>4, <1>5 DEF PackDone

(* The branches that leave the queue alone.                                *)
LEMMA LeftAlone ==
  ASSUME VInv, NEW k \in DOMAIN pending, NEW pkt, pkt.ext = k, Accept(pkt),
         stream[pending[k]].pkt.kind # "fua",
         UNCHANGED <<start_flag_, packets_queue_>>,
         NEW nals, NEW l \in Nat, DOMAIN nals = 1 .. l,
         \A d \in DOMAIN nals : IntactUnit(nals[d], src_units),
         NEW lost \in BOOLEAN, Output(nals, lost)
  PROVE  PackDone(k)
<1>1. Flags /\ GateClosed /\ QueueOK
  BY DEF VInv
<1>2. /\ find_keyframe_' \in BOOLEAN /\ damaged' \in BOOLEAN /\ muted' \in BOOLEAN
      /\ pack_report_age' \in 0 .. PackReportGap + 1
      /\ GateClosed' /\ GateStep
      /\ \A d \in DOMAIN delivered' : d \in DOMAIN nals /\ delivered'[d] = nals[d]
  BY <1>1, Outputs
<1>3. /\ last_extend_seq_' = k /\ pack_init_' = TRUE
      /\ pack_init_ => k = last_extend_seq_ + 1
  BY DEF Accept, Continues
<1>4. Flags'
  BY <1>1, <1>2, <1>3 DEF Flags
<1>5. QueueOK'
  BY <1>1, <1>3 DEF QueueOK
<1>6. \A d \in DOMAIN delivered' : IntactUnit(delivered'[d], src_units)
  BY <1>2
<1>7. ASSUME Clean(k)
      PROVE  Known(packets_queue_', k, pending[k], stream, src_units, origin)
  <2> DEFINE n == pending[k]
             q == packets_queue_
  <2>1. /\ Known(q, last_extend_seq_, handed, stream, src_units, origin)
        /\ n \in DOMAIN stream /\ stream[n].era \in DOMAIN origin
        /\ k = origin[stream[n].era] + n
        /\ handed \in DOMAIN stream => stream[handed].era <= stream[n].era
        /\ History(stream, src_units, origin)
    BY <1>7, CleanIs
  <2>2. q \in Seq(Frags) /\ \A i \in 1 .. Len(q) : ~q[i].e
    BY <1>1 DEF QueueOK
  <2>3. k \in Int
    BY DEF VInv, Positions
  <2>4. Len(q) # 0 => k = last_extend_seq_ + 1
    BY <1>1, <1>3, <2>2 DEF QueueOK
  <2>5. stream[n].pkt.kind # "fua"
    OBVIOUS
  <2> HIDE DEF n, q
  <2>6. Known(q, k, n, stream, src_units, origin)
    BY <2>1, <2>2, <2>3, <2>4, <2>5, Passed
  <2> QED BY <2>6 DEF n, q
<1> QED BY <1>2, <1>3, <1>4, <1>5, <1>6, <1>7 DEF PackDone

(* The units of a packet that is not a fragment.                           *)
LEMMA WholeIntact ==
  ASSUME NEW units, NEW nals, Len(nals) \in Nat, DOMAIN nals = 1 .. Len(nals),
         \A j \in DOMAIN nals : \E u \in DOMAIN units : Alone(nals[j], units, u)
  PROVE  /\ DOMAIN Whole(nals) = 1 .. Len(nals)
         /\ \A d \in DOMAIN Whole(nals) : IntactUnit(Whole(nals)[d], units)
<1>1. DOMAIN Whole(nals) = 1 .. Len(nals)
  BY DEF Whole
<1>2. ASSUME NEW d \in 1 .. Len(nals) PROVE IntactUnit(Whole(nals)[d], units)
  <2> DEFINE x == Whole(nals)[d]
  <2>1. PICK u \in DOMAIN units : Alone(nals[d], units, u)
    OBVIOUS
  <2>2. nals[d].type = units[u].type /\ nals[d].part = <<u, 1, 1>> /\ Pieces(units[u]) = 1
    BY <2>1 DEF Alone
  <2>3. x = [type |-> nals[d].type, parts |-> <<nals[d].part>>]
    BY DEF Whole
  <2>4. x.type = units[u].type /\ x.parts = << <<u, 1, 1>> >>
    BY <2>2, <2>3
  <2>5. [i \in 1 .. 1 |-> <<u, i, 1>>] = << <<u, 1, 1>> >>
    <3> DEFINE F == [i \in 1 .. 1 |-> <<u, i, 1>>]
               G == << <<u, 1, 1>> >>
    <3>1. DOMAIN F = {1} /\ F[1] = <<u, 1, 1>>
      OBVIOUS
    <3>2. G \in Seq({<<u, 1, 1>>}) /\ Len(G) = 1 /\ G[1] = <<u, 1, 1>>
      OBVIOUS
    <3>3. F \in Seq({<<u, 1, 1>>}) /\ Len(F) = 1
      OBVIOUS
    <3> QED BY <3>1, <3>2, <3>3
  <2>6. x.parts = [i \in 1 .. Pieces(units[u]) |-> <<u, i, Pieces(units[u])>>]
    BY <2>2, <2>4, <2>5
  <2> HIDE DEF x
  <2>7. IntactUnit(x, units)
    BY <2>4, <2>6 DEF IntactUnit
  <2> QED BY <2>7 DEF x
<1> QED BY <1>1, <1>2

(* The packet under number k.                                              *)
LEMMA WireIs ==
  ASSUME VInv, NEW k \in DOMAIN pending, NEW fault \in Faults,
         fault = "none" \/ stream[pending[k]].pkt.kind = "stapa"
  PROVE  LET p == stream[pending[k]].pkt
             w == OnWire(k, fault) IN
         /\ p \in Pkts /\ w.ext = k /\ k \in Nat
         /\ w.s = p.s /\ w.e = p.e /\ w.nals = p.nals /\ w.fault = fault
         /\ w.kind = (IF fault = "unknown" THEN "other" ELSE p.kind)
         /\ w.kind = "other" => p.kind = "stapa"
         /\ w.kind # "other" => w.kind = p.kind
         /\ w.kind = "fua" => p.kind = "fua"
<1> DEFINE n == pending[k]
           p == stream[n].pkt
           w == OnWire(k, fault)
           R == [pkt : Pkts, seq : Seqs, era : Nat]
<1>1. n \in DOMAIN stream /\ k \in Nat
  BY DEF VInv, Positions
<1>2. stream \in Seq(R)
  BY DEF VInv, StreamOK, SourceOK
<1>3. stream[n] \in R
  <2> HIDE DEF R
  <2> QED BY <1>1, <1>2
<1>4. p \in Pkts
  BY <1>3
<1>5. w = [ext |-> k, kind |-> IF fault = "unknown" THEN "other" ELSE p.kind,
           s |-> p.s, e |-> p.e, nals |-> p.nals, fault |-> fault,
           age |-> waited[k]]
  BY DEF OnWire
<1>6. p.kind \in {"single", "fua", "stapa"}
  BY <1>4 DEF Pkts
<1>7. fault = "none" \/ p.kind = "stapa"
  OBVIOUS
<1> HIDE DEF p, w
<1>8. /\ w.ext = k /\ w.s = p.s /\ w.e = p.e /\ w.nals = p.nals /\ w.fault = fault
      /\ w.kind = (IF fault = "unknown" THEN "other" ELSE p.kind)
  BY <1>5
<1>9. /\ w.kind = "other" => p.kind = "stapa"
      /\ w.kind # "other" => w.kind = p.kind
      /\ w.kind = "fua" => p.kind = "fua"
  BY <1>6, <1>7, <1>8
<1> QED BY <1>1, <1>4, <1>8, <1>9 DEF p, w

(* A packet that is no fragment, or an aggregate of an unknown type.       *)
LEMMA NoFragment ==
  ASSUME VInv, NEW k \in DOMAIN pending, NEW fault \in Faults,
         fault = "none" \/ stream[pending[k]].pkt.kind = "stapa",
         \/ SingleNalu(OnWire(k, fault)) \/ StapA(OnWire(k, fault))
         \/ Ignored(OnWire(k, fault))
  PROVE  PackDone(k)
<1> DEFINE n == pending[k]
           p == stream[n].pkt
           w == OnWire(k, fault)
<1>1. /\ p \in Pkts /\ w.ext = k /\ w.nals = p.nals
      /\ w.kind = "other" => p.kind = "stapa"
      /\ w.kind # "other" => w.kind = p.kind
  BY WireIs
<1>2. /\ w.kind \in {"single", "stapa", "other"} /\ Accept(w)
      /\ UNCHANGED <<start_flag_, packets_queue_>>
      /\ \/ Output(Whole(w.nals), FALSE) \/ Output(<<>>, FALSE)
         \/ \E lost \in BOOLEAN : Output(<<>>, lost) \/ Output(Whole(w.nals), lost)
  <2>1. CASE SingleNalu(w)
    BY <2>1 DEF SingleNalu
  <2>2. CASE StapA(w)
    <3>1. (w.fault # "none") \in BOOLEAN
      OBVIOUS
    <3>2. Output(IF w.fault = "parse" THEN <<>> ELSE Whole(w.nals), w.fault # "none")
      BY <2>2 DEF StapA
    <3>3. \/ Output(<<>>, w.fault # "none") \/ Output(Whole(w.nals), w.fault # "none")
      BY <3>2
    <3>4. w.kind = "stapa" /\ Accept(w) /\ UNCHANGED <<start_flag_, packets_queue_>>
      BY <2>2 DEF StapA
    <3> QED BY <3>1, <3>3, <3>4
  <2>3. CASE Ignored(w)
    BY <2>3 DEF Ignored
  <2> QED BY <2>1, <2>2, <2>3
<1>3. p.kind # "fua" /\ n \in DOMAIN stream
  BY <1>1, <1>2 DEF VInv, Positions
<1>4. PICK lost \in BOOLEAN : Output(<<>>, lost) \/ Output(Whole(p.nals), lost)
  <2>1. TRUE \in BOOLEAN /\ FALSE \in BOOLEAN
    OBVIOUS
  <2> QED BY <1>1, <1>2, <2>1
<1>5. WholeUnits(stream, src_units)
  BY DEF VInv, StreamOK
<1>6. Len(p.nals) \in Nat /\ DOMAIN p.nals = 1 .. Len(p.nals)
  BY <1>1 DEF Pkts
<1>7. \A j \in DOMAIN p.nals : \E u \in DOMAIN src_units : Alone(p.nals[j], src_units, u)
  BY <1>3, <1>5 DEF WholeUnits
<1>8. CASE Output(<<>>, lost)
  <2> DEFINE e == <<>>
  <2>1. DOMAIN e = 1 .. 0 /\ DOMAIN e = {} /\ 0 \in Nat
    OBVIOUS
  <2> HIDE DEF e
  <2>2. Output(e, lost)
    BY <1>8 DEF e
  <2>3. \A d \in DOMAIN e : IntactUnit(e[d], src_units)
    BY <2>1
  <2> QED BY <1>1, <1>2, <1>3, <2>1, <2>2, <2>3, LeftAlone
<1>9. CASE Output(Whole(p.nals), lost)
  <2> DEFINE e == Whole(p.nals)
             l == Len(p.nals)
  <2>1. DOMAIN e = 1 .. l /\ l \in Nat /\ \A d \in DOMAIN e : IntactUnit(e[d], src_units)
    BY <1>6, <1>7, WholeIntact
  <2> HIDE DEF e, l
  <2>2. Output(e, lost)
    BY <1>9 DEF e
  <2> QED BY <1>1, <1>2, <1>3, <2>1, <2>2, LeftAlone
<1> QED BY <1>4, <1>8, <1>9

(* An end of a sequence of fragments.                                      *)
LEMMA CutShape ==
  ASSUME NEW q \in Seq(Frags), NEW a \in 1 .. Len(q) + 1
  PROVE  LET r == SubSeq(q, a, Len(q)) IN
         /\ r \in Seq(Frags) /\ Len(r) <= Len(q)
         /\ \A i \in 1 .. Len(r) : \E j \in 1 .. Len(q) : r[i] = q[j] /\ (i > 1 => j > 1)
<1> DEFINE l == Len(q)
           r == SubSeq(q, a, l)
<1>1. l \in Nat /\ a \in Int /\ 1 <= a /\ a <= l + 1
  OBVIOUS
<1>2. r \in Seq(Frags) /\ Len(r) = l + 1 - a /\ \A i \in 1 .. l + 1 - a : r[i] = q[a + i - 1]
  BY <1>1
<1> HIDE DEF l, r
<1>3. \A i \in 1 .. l + 1 - a : a + i - 1 \in 1 .. l /\ (i > 1 => a + i - 1 > 1)
  BY <1>1
<1>4. Len(r) <= l
  BY <1>1, <1>2
<1> QED BY <1>2, <1>3, <1>4 DEF l, r

(* The fragment a packet carries.                                          *)
LEMMA FragmentOf ==
  ASSUME VInv, NEW k \in DOMAIN pending, NEW fault \in Faults,
         fault = "none" \/ stream[pending[k]].pkt.kind = "stapa",
         OnWire(k, fault).kind = "fua"
  PROVE  LET w == OnWire(k, fault)
             f == Fragment(w)
             n == pending[k] IN
         /\ f \in Frags /\ f.ext = k /\ (f.s <=> w.s) /\ (f.e <=> w.e)
         /\ Clean(k) => FragAt(f, n, stream, origin)
<1> DEFINE n == pending[k]
           p == stream[n].pkt
           w == OnWire(k, fault)
           f == Fragment(w)
           nal == p.nals[1]
<1>1. /\ p \in Pkts /\ w.ext = k /\ k \in Nat /\ w.nals = p.nals
      /\ w.s = p.s /\ w.e = p.e /\ p.kind = "fua"
  BY WireIs
<1>2. n \in DOMAIN stream
  BY DEF VInv, Positions
<1>3. PICK u \in DOMAIN src_units, i \in Nat : Piece(stream[n], src_units, u, i)
  BY <1>1, <1>2 DEF VInv, StreamOK, InRuns
<1>4. /\ p.nals = <<[type |-> src_units[u].type, part |-> <<u, i, Pieces(src_units[u])>>]>>
      /\ Pieces(src_units[u]) \in Nat
  BY <1>3 DEF Piece
<1>5. u \in Nat /\ src_units[u].type \in NalTypes
  <2>1. src_units \in Seq(Units)
    BY DEF VInv, StreamOK, SourceOK, Units
  <2>2. src_units[u] \in Units /\ u \in Nat
    BY <2>1
  <2> QED BY <2>2 DEF Units
<1>6. nal.type \in NalTypes /\ nal.part \in Nat \X Nat \X Nat
  <2> DEFINE x == [type |-> src_units[u].type, part |-> <<u, i, Pieces(src_units[u])>>]
  <2>1. nal = x
    BY <1>4
  <2> QED BY <1>4, <1>5, <2>1
<1>7. p.s \in BOOLEAN /\ p.e \in BOOLEAN
  BY <1>1 DEF Pkts
<1>8. f = [ext |-> k, s |-> p.s, e |-> p.e, type |-> nal.type, part |-> nal.part,
           age |-> IF w.age < PackTimeout THEN w.age ELSE PackTimeout]
  BY <1>1 DEF Fragment
<1>a. w.age \in Nat
  <2>1. w.age = waited[k]
    BY DEF OnWire
  <2> QED BY <2>1, JitterConstants DEF VInv, Waits
<1> HIDE DEF nal, f, w
<1>9. (IF w.age < PackTimeout THEN w.age ELSE PackTimeout) \in 0 .. PackTimeout
  BY <1>a, PackConstants
<1>10. f \in Frags
  BY <1>1, <1>6, <1>7, <1>8, <1>9 DEF Frags
<1>11. /\ f.ext = k /\ f.s = p.s /\ f.e = p.e /\ f.type = nal.type /\ f.part = nal.part
  BY <1>8
<1>12. (f.s <=> w.s) /\ (f.e <=> w.e)
  BY <1>1, <1>11
<1>13. ASSUME Clean(k) PROVE FragAt(f, n, stream, origin)
  <2>1. stream[n].era \in DOMAIN origin /\ k = origin[stream[n].era] + n
    BY <1>13, CleanIs
  <2> QED BY <1>1, <1>2, <1>11, <2>1 DEF FragAt, nal
<1> QED BY <1>10, <1>11, <1>12, <1>13 DEF f, w

(* The queue after a fragment has been appended to it.                     *)
LEMMA Appended ==
  ASSUME VInv, NEW k \in DOMAIN pending,
         pack_init_ => k = last_extend_seq_ + 1,
         NEW f \in Frags, f.ext = k, Clean(k) => FragAt(f, pending[k], stream, origin),
         NEW q0, q0 = packets_queue_ \/ q0 = <<>>, Len(q0) # 0 => ~f.s
  PROVE  LET r == Append(q0, f) IN
         /\ r \in Seq(Frags) /\ Len(r) # 0 /\ r[Len(r)] = f
         /\ \A i \in 1 .. Len(r) : i > 1 => ~r[i].s
         /\ \A i \in 1 .. Len(r) : i < Len(r) => ~r[i].e
         /\ Clean(k) => Known(r, k, pending[k], stream, src_units, origin)
<1> DEFINE r == Append(q0, f)
           l == Len(q0)
           n == pending[k]
<1>1. QueueOK
  BY DEF VInv
<1>2. q0 \in Seq(Frags)
  <2>1. packets_queue_ \in Seq(Frags)
    BY <1>1 DEF QueueOK
  <2>2. <<>> \in Seq(Frags)
    OBVIOUS
  <2> QED BY <2>1, <2>2
<1>3. \A i \in 1 .. Len(q0) : ~q0[i].e /\ (i > 1 => ~q0[i].s)
  <2>1. CASE q0 = packets_queue_
    BY <1>1, <2>1 DEF QueueOK
  <2>2. CASE q0 = <<>>
    BY <2>2
  <2> QED BY <2>1, <2>2
<1>4. /\ l \in Nat /\ r \in Seq(Frags) /\ Len(r) = l + 1 /\ r[l + 1] = f
      /\ \A i \in 1 .. l : r[i] = q0[i]
  BY <1>2
<1>5. Len(q0) # 0 => k = last_extend_seq_ + 1
  <2>1. CASE q0 = packets_queue_
    BY <1>1, <2>1 DEF QueueOK
  <2>2. CASE q0 = <<>>
    BY <2>2
  <2> QED BY <2>1, <2>2
<1>6. ASSUME Clean(k) PROVE Known(r, k, n, stream, src_units, origin)
  <2>1. /\ Known(packets_queue_, last_extend_seq_, handed, stream, src_units, origin)
        /\ handed \in DOMAIN stream => stream[handed].era <= stream[n].era
        /\ History(stream, src_units, origin)
    BY <1>6, CleanIs
  <2>2. Known(q0, last_extend_seq_, handed, stream, src_units, origin)
    BY <2>1, NothingKnown
  <2>3. FragAt(f, n, stream, origin)
    BY <1>6
  <2> HIDE DEF n, r
  <2>4. Known(Append(q0, f), f.ext, n, stream, src_units, origin)
    BY <1>2, <1>3, <1>5, <2>1, <2>2, <2>3, Push
  <2> QED BY <2>4 DEF r
<1> HIDE DEF r, l
<1>7. \A i \in 1 .. l + 1 : i = l + 1 \/ i \in 1 .. l
  BY <1>4
<1>8. \A i \in 1 .. l + 1 : i > 1 => ~r[i].s
  <2> TAKE i \in 1 .. l + 1
  <2>1. CASE i \in 1 .. l
    BY <1>3, <1>4, <2>1 DEF l
  <2>2. CASE i = l + 1
    BY <1>4, <2>2 DEF l
  <2> QED BY <1>7, <2>1, <2>2
<1>9. \A i \in 1 .. l + 1 : i < l + 1 => ~r[i].e
  <2> TAKE i \in 1 .. l + 1
  <2>1. SUFFICES ASSUME i < l + 1 PROVE ~r[i].e
    OBVIOUS
  <2>2. i \in 1 .. l
    BY <1>4, <1>7, <2>1
  <2> QED BY <1>3, <1>4, <2>2 DEF l
<1>10. Len(r) # 0
  BY <1>4
<1> QED BY <1>4, <1>6, <1>8, <1>9, <1>10 DEF r

LEMMA Pushed ==
  ASSUME VInv, NEW k \in DOMAIN pending, NEW fault \in Faults,
         fault = "none" \/ stream[pending[k]].pkt.kind = "stapa",
         FuaPush(OnWire(k, fault))
  PROVE  PackDone(k)
<1> DEFINE w == OnWire(k, fault)
           f == Fragment(w)
           q0 == IF w.s THEN <<>> ELSE packets_queue_
           r == Append(q0, f)
           n == pending[k]
<1>1. /\ w.kind = "fua" /\ Accept(w) /\ ~w.e
      /\ start_flag_' = (w.s \/ start_flag_)
      /\ packets_queue_' = CheckFuaTimeout(r) /\ Output(<<>>, FALSE)
  BY DEF FuaPush
<1>2. w.ext = k /\ w.s \in BOOLEAN
  <2>1. w.ext = k /\ w.s = stream[n].pkt.s /\ stream[n].pkt \in Pkts
    BY WireIs
  <2> QED BY <2>1 DEF Pkts
<1>3. /\ f \in Frags /\ f.ext = k /\ (f.s <=> w.s) /\ (f.e <=> w.e)
      /\ Clean(k) => FragAt(f, n, stream, origin)
  BY <1>1, FragmentOf
<1>4. /\ last_extend_seq_' = k /\ pack_init_' = TRUE
      /\ pack_init_ => k = last_extend_seq_ + 1
  BY <1>1, <1>2 DEF Accept, Continues
<1>5. (q0 = packets_queue_ \/ q0 = <<>>) /\ (w.s => q0 = <<>>)
  OBVIOUS
<1> HIDE DEF w, f, q0
<1>6. Len(q0) # 0 => ~f.s
  BY <1>3, <1>5
<1>7. /\ r \in Seq(Frags) /\ Len(r) # 0 /\ r[Len(r)] = f
      /\ \A i \in 1 .. Len(r) : i > 1 => ~r[i].s
      /\ \A i \in 1 .. Len(r) : i < Len(r) => ~r[i].e
      /\ Clean(k) => Known(r, k, n, stream, src_units, origin)
  BY <1>3, <1>4, <1>5, <1>6, Appended
<1> HIDE DEF r
<1>8. PICK a \in 1 .. Len(r) + 1 : packets_queue_' = SubSeq(r, a, Len(r))
  BY <1>1, <1>7, Pops
<1>9. /\ packets_queue_' \in Seq(Frags)
      /\ \A i \in 1 .. Len(packets_queue_') :
           \E j \in 1 .. Len(r) : packets_queue_'[i] = r[j] /\ (i > 1 => j > 1)
  BY <1>7, <1>8, CutShape
<1>10. \A j \in 1 .. Len(r) : ~r[j].e
  <2> TAKE j \in 1 .. Len(r)
  <2>1. j < Len(r) \/ j = Len(r)
    BY <1>7
  <2> QED BY <1>1, <1>3, <1>7, <2>1
<1>11. QueueOK'
  <2>1. \A i \in 1 .. Len(packets_queue_') :
          ~packets_queue_'[i].e /\ (i > 1 => ~packets_queue_'[i].s)
    BY <1>7, <1>9, <1>10
  <2> QED BY <1>4, <1>9, <2>1 DEF QueueOK
<1>12. /\ find_keyframe_' \in BOOLEAN /\ damaged' \in BOOLEAN /\ muted' \in BOOLEAN
       /\ pack_report_age' \in 0 .. PackReportGap + 1
       /\ GateClosed' /\ GateStep
       /\ \A d \in DOMAIN delivered' : d \in DOMAIN <<>>
  <2>1. DOMAIN <<>> = 1 .. 0 /\ 0 \in Nat /\ Flags /\ GateClosed
    BY DEF VInv
  <2> QED BY <1>1, <2>1, Outputs
<1>13. Flags'
  <2>1. start_flag_' \in BOOLEAN
    BY <1>1, <1>2 DEF VInv, Flags
  <2> QED BY <1>4, <1>12, <2>1 DEF Flags
<1>14. DOMAIN delivered' = {}
  <2>1. DOMAIN <<>> = {}
    OBVIOUS
  <2> QED BY <1>12, <2>1
<1>15. Clean(k) => Known(packets_queue_', k, n, stream, src_units, origin)
  <2>1. SUFFICES ASSUME Clean(k)
                 PROVE  Known(SubSeq(r, a, Len(r)), k, n, stream, src_units, origin)
    BY <1>8
  <2> HIDE DEF n
  <2> QED BY <1>7, <2>1, Cut
<1> QED BY <1>4, <1>11, <1>12, <1>13, <1>14, <1>15 DEF PackDone

LEMMA Ended ==
  ASSUME VInv, NEW k \in DOMAIN pending, NEW fault \in Faults,
         fault = "none" \/ stream[pending[k]].pkt.kind = "stapa",
         FuaEnd(OnWire(k, fault))
  PROVE  PackDone(k)
<1> DEFINE w == OnWire(k, fault)
           f == Fragment(w)
           r == Append(packets_queue_, f)
           unit == DemuxFua(r)
           lost == ~unit.ok
           out == IF unit.ok THEN <<unit.nal>> ELSE <<>>
           l == IF unit.ok THEN 1 ELSE 0
           n == pending[k]
<1>1. /\ w.kind = "fua" /\ Accept(w) /\ w.e /\ ~w.s
      /\ start_flag_' = FALSE /\ packets_queue_' = <<>>
      /\ Output(IF unit.ok THEN <<unit.nal>> ELSE <<>>, lost)
  BY DEF FuaEnd
<1>2. w.ext = k
  BY WireIs
<1>3. /\ f \in Frags /\ f.ext = k /\ (f.s <=> w.s) /\ (f.e <=> w.e)
      /\ Clean(k) => FragAt(f, n, stream, origin)
  BY <1>1, FragmentOf
<1>4. /\ last_extend_seq_' = k /\ pack_init_' = TRUE
      /\ pack_init_ => k = last_extend_seq_ + 1
  BY <1>1, <1>2 DEF Accept, Continues
<1> HIDE DEF w, f
<1>5. /\ r \in Seq(Frags) /\ Len(r) # 0 /\ r[Len(r)] = f
      /\ \A i \in 1 .. Len(r) : i > 1 => ~r[i].s
      /\ \A i \in 1 .. Len(r) : i < Len(r) => ~r[i].e
      /\ Clean(k) => Known(r, k, n, stream, src_units, origin)
  BY <1>1, <1>3, <1>4, Appended
<1> HIDE DEF r
<1>6. unit.ok = r[1].s /\ unit.nal.type = r[1].type
      /\ unit.nal.parts = [i \in 1 .. Len(r) |-> r[i].part]
  BY DEF DemuxFua
<1> HIDE DEF unit
<1>7. ASSUME Clean(k), unit.ok PROVE IntactUnit(unit.nal, src_units)
  <2>1. History(stream, src_units, origin) /\ Known(r, k, n, stream, src_units, origin)
    BY <1>5, <1>7, CleanIs
  <2>2. Located(r, stream, origin) /\ Prefix(r, src_units)
    BY <2>1 DEF Known
  <2>3. SUFFICES ASSUME \A i \in DOMAIN unit.nal.parts :
                          Era(src_units, unit.nal.parts[i]) = Era(src_units, unit.nal.parts[1])
                 PROVE  \E u \in DOMAIN src_units :
                          /\ r[1].type = src_units[u].type
                          /\ [i \in 1 .. Len(r) |-> r[i].part]
                               = [i \in 1 .. Pieces(src_units[u]) |->
                                    <<u, i, Pieces(src_units[u])>>]
    BY <1>6 DEF IntactUnit
  <2>4. 1 \in 1 .. Len(r)
    BY <1>5
  <2>5. \A i \in 1 .. Len(r) : Era(src_units, r[i].part) = Era(src_units, r[1].part)
    BY <1>6, <2>3, <2>4
  <2>6. r[1].s /\ r[Len(r)].e
    BY <1>1, <1>3, <1>5, <1>6, <1>7
  <2> QED BY <1>5, <2>1, <2>2, <2>5, <2>6, Joined
<1>8. lost \in BOOLEAN
  OBVIOUS
<1> HIDE DEF lost
<1>9. Output(out, lost)
  BY <1>1
<1>10. /\ DOMAIN out = 1 .. l /\ l \in Nat
       /\ Clean(k) => \A d \in DOMAIN out : IntactUnit(out[d], src_units)
  <2>1. CASE unit.ok
    <3>1. out = <<unit.nal>> /\ l = 1
      BY <2>1
    <3>2. DOMAIN out = 1 .. 1 /\ \A d \in DOMAIN out : out[d] = unit.nal
      BY <3>1
    <3> HIDE DEF out, l
    <3> QED BY <1>7, <2>1, <3>1, <3>2
  <2>2. CASE ~unit.ok
    <3>1. out = <<>> /\ l = 0
      BY <2>2
    <3>2. DOMAIN out = 1 .. 0 /\ DOMAIN out = {}
      BY <3>1
    <3> HIDE DEF out, l
    <3> QED BY <3>1, <3>2
  <2> QED BY <2>1, <2>2
<1> HIDE DEF out, l
<1>11. /\ find_keyframe_' \in BOOLEAN /\ damaged' \in BOOLEAN /\ muted' \in BOOLEAN
       /\ pack_report_age' \in 0 .. PackReportGap + 1
       /\ GateClosed' /\ GateStep
       /\ \A d \in DOMAIN delivered' : d \in DOMAIN out /\ delivered'[d] = out[d]
  BY <1>8, <1>9, <1>10, Outputs DEF VInv
<1>12. Flags'
  BY <1>1, <1>4, <1>11 DEF Flags
<1>13. QueueOK'
  BY <1>1 DEF QueueOK
<1>14. Known(packets_queue_', k, n, stream, src_units, origin)
  BY <1>1, NothingKnown
<1>15. Clean(k) => \A d \in DOMAIN delivered' : IntactUnit(delivered'[d], src_units)
  BY <1>10, <1>11
<1> QED BY <1>4, <1>11, <1>12, <1>13, <1>14, <1>15 DEF PackDone

LEMMA PackStep ==
  ASSUME VInv, NEW k \in DOMAIN pending, NEW fault \in Faults,
         fault = "none" \/ stream[pending[k]].pkt.kind = "stapa",
         PackInput(OnWire(k, fault))
  PROVE  PackDone(k)
<1> DEFINE w == OnWire(k, fault)
<1>1. w.ext = k
  BY WireIs
<1>2. CASE Discontinuity(w)
  BY <1>1, <1>2, Emptied DEF Discontinuity, VInv, Flags
<1>3. CASE FuaError(w)
  BY <1>1, <1>3, Emptied DEF FuaError, Accept
<1>4. CASE SingleNalu(w) \/ StapA(w) \/ Ignored(w)
  BY <1>4, NoFragment
<1>5. CASE FuaPush(w)
  BY <1>5, Pushed
<1>6. CASE FuaEnd(w)
  BY <1>6, Ended
<1> QED BY <1>2, <1>3, <1>4, <1>5, <1>6 DEF PackInput

-----------------------------------------------------------------------------
(* The steps of the path.                                                  *)

(* The jitter buffer's invariant in a step that leaves its map alone.      *)
LEMMA BufferQuiet ==
  ASSUME IInv, reported' = FALSE, emitted' = emitted \/ emitted' = {},
         UNCHANGED <<init_flag_, max_seq_, bad_seq_, cycles_, held, output_seq_,
                     report_age, disturbed, rearmed>>
  PROVE  IInv'
<1>1. TypeOK'
  BY DEF IInv, TypeOK
<1>2. CleanStart' /\ HeldBehindHole' /\ PromptDelivery'
  BY DEF IInv, CleanStart, HeldBehindHole, PromptDelivery
<1> QED BY <1>1, <1>2 DEF IInv

LEMMA DepacketiseStep ==
  ASSUME VInv, NEW k \in DOMAIN pending, NEW fault \in Faults, Depacketise(k, fault)
  PROVE  VInv' /\ GateStep
<1>1. /\ \A j \in DOMAIN pending : k <= j
      /\ fault = "none" \/ stream[pending[k]].pkt.kind = "stapa"
      /\ PackInput(OnWire(k, fault))
      /\ pending' = Without(pending, {k}) /\ waited' = Without(waited, {k})
      /\ handed' = pending[k]
      /\ straggler' = (Stray(k) \/ (straggler /\ packets_queue_ # <<>>))
      /\ reported' = FALSE
      /\ UNCHANGED <<init_flag_, max_seq_, bad_seq_, cycles_, held, output_seq_,
                     report_age, emitted, disturbed, rearmed>>
      /\ UNCHANGED srcVars /\ UNCHANGED <<newest, payload, origin>>
  BY DEF Depacketise
<1>2. UNCHANGED <<src_seq, script, src_units, sps_, pps_, stream, restarts>>
  BY <1>1 DEF srcVars
<1>3. PackDone(k)
  BY <1>1, PackStep
<1>4. IInv'
  BY <1>1, BufferQuiet DEF VInv
<1>5. /\ DOMAIN pending' \subseteq DOMAIN pending /\ DOMAIN pending' = DOMAIN pending \ {k}
      /\ \A j \in DOMAIN pending' : pending'[j] = pending[j]
  BY <1>1 DEF Without, Restrict
<1>6. Numbers' /\ Positions' /\ Waits'
  <2>1. DOMAIN waited' = DOMAIN pending' /\ \A j \in DOMAIN waited' : waited'[j] = waited[j]
    BY <1>1, <1>5 DEF Without, Restrict, VInv, Waits
  <2>2. Waits'
    BY <1>5, <2>1 DEF VInv, Waits
  <2> QED BY <1>1, <1>2, <1>5, <2>2 DEF VInv, Numbers, Positions
<1>7. Agreement'
  <2>1. last_extend_seq_' = k /\ output_seq_' = output_seq_
    BY <1>1, <1>3 DEF PackDone
  <2>2. k \in Nat /\ k < Total /\ \A j \in DOMAIN pending : j \in Nat
    BY DEF VInv, Positions
  <2>3. output_seq_ \in DOMAIN pending /\ \A j \in DOMAIN pending : j <= output_seq_
    BY DEF VInv, Agreement
  <2>4. CASE output_seq_ = k
    <3>1. \A j \in DOMAIN pending : j = k
      BY <1>1, <2>2, <2>3, <2>4
    <3> QED BY <1>5, <2>1, <2>2, <2>4, <3>1 DEF Agreement
  <2>5. CASE output_seq_ # k
    BY <1>5, <2>1, <2>2, <2>3, <2>5 DEF Agreement
  <2> QED BY <2>4, <2>5
<1>8. StreamOK' /\ newest' \in Nat /\ \A e \in DOMAIN origin' : origin'[e] \in Int
  BY <1>1, <1>2 DEF VInv, StreamOK, SourceOK
<1>9. straggler' \in BOOLEAN
  BY <1>1, Zenon
<1>10. ~straggler' => Clean(k)
  BY <1>1, Zenon DEF Clean
<1>11. ~straggler' => Known(packets_queue_', last_extend_seq_', handed',
                            stream', src_units', origin')
  BY <1>1, <1>2, <1>3, <1>10 DEF PackDone
<1>12. ReceivedIntact'
  <2>1. ~straggler' => \A d \in DOMAIN delivered' : IntactUnit(delivered'[d], src_units)
    BY <1>3, <1>10 DEF PackDone
  <2> QED BY <1>2, <2>1 DEF ReceivedIntact, IntactUnit, Era, EraOf
<1>13. restarts' = 0 => Aligned'
  <2>1. SUFFICES ASSUME restarts = 0 PROVE Aligned'
    BY <1>2
  <2>2. Aligned
    BY <2>1 DEF VInv
  <2>3. AtMostOneCycleHigh'
    BY <1>1, <1>2, <1>5, <2>1, <2>2 DEF Aligned, AtMostOneCycleHigh
  <2> QED BY <1>1, <1>2, <1>5, <2>2, <2>3 DEF Aligned
<1> QED BY <1>3, <1>4, <1>6, <1>7, <1>8, <1>9, <1>11, <1>12, <1>13 DEF VInv, PackDone

(* A remainder differs from its number by a multiple.                      *)
LEMMA Remainder ==
  ASSUME NEW x \in Int
  PROVE  \E c \in Int : x % RtpSeqMod = x + RtpSeqMod * c
<1> DEFINE d == x \div RtpSeqMod
<1>1. d \in Int /\ x % RtpSeqMod = x - RtpSeqMod * d
  BY JitterConstants
<1> HIDE DEF d
<1>2. 0 - d \in Int /\ RtpSeqMod * (0 - d) = 0 - RtpSeqMod * d
  BY <1>1, JitterConstants
<1> DEFINE r == x % RtpSeqMod
           y == RtpSeqMod * d
           z == RtpSeqMod * (0 - d)
<1>3. r = x - y /\ z = 0 - y /\ y \in Int
  BY <1>1, <1>2, JitterConstants
<1> HIDE DEF r, y, z
<1>4. r = x + z
  BY <1>3
<1> QED BY <1>2, <1>4 DEF r, z

Placed(str, src) ==
  \A n \in DOMAIN str :
    /\ str[n].era = 0
    /\ \E c \in Int : str[n].seq = src + n - Len(str) - 1 + RtpSeqMod * c

LEMMA PlacedLater ==
  ASSUME VInv, Appends, restarts = 0, Placed(stream, src_seq),
         \A n \in DOMAIN stream : stream'[n] = stream[n]
  PROVE  Placed(stream', src_seq')
<1>1. PICK p \in Nat :
    /\ Len(stream) \in Nat /\ DOMAIN stream = 1 .. Len(stream)
    /\ DOMAIN stream' = 1 .. Len(stream) + p /\ Len(stream') = Len(stream) + p
    /\ src_seq' = (src_seq + p) % RtpSeqMod /\ restarts' = restarts
    /\ \A i \in 1 .. p :
         /\ stream'[Len(stream) + i].seq = (src_seq + i - 1) % RtpSeqMod
         /\ stream'[Len(stream) + i].era = restarts
  BY DEF Appends
<1>2. src_seq \in Int /\ RtpSeqMod \in Int
  BY JitterConstants DEF VInv, StreamOK, SourceOK, Seqs
<1>3. PICK a \in Int : src_seq' = src_seq + p + RtpSeqMod * a
  <2> DEFINE x == src_seq + p
  <2>1. x \in Int
    BY <1>2
  <2> HIDE DEF x
  <2>2. PICK c \in Int : x % RtpSeqMod = x + RtpSeqMod * c
    BY <2>1, Remainder
  <2>3. src_seq' = x % RtpSeqMod
    BY <1>1 DEF x
  <2> QED BY <2>2, <2>3 DEF x
<1> DEFINE l == Len(stream)
<1> HIDE DEF l
<1>4. ASSUME NEW n \in 1 .. l + p
      PROVE  \E b \in Int : stream'[n].seq = src_seq + n - l - 1 + RtpSeqMod * b
  <2>1. l \in Nat
    BY <1>1 DEF l
  <2>2. CASE n \in 1 .. l
    <3>1. n \in DOMAIN stream /\ stream'[n] = stream[n]
      BY <1>1, <2>2 DEF l
    <3> QED BY <3>1 DEF Placed, l
  <2>3. CASE n \notin 1 .. l
    <3>1. PICK i \in 1 .. p : n = l + i
      <4>1. n - l \in 1 .. p /\ n = l + (n - l)
        BY <2>1, <2>3
      <4> QED BY <4>1
    <3>2. stream'[n].seq = (src_seq + i - 1) % RtpSeqMod
      BY <1>1, <3>1 DEF l
    <3>3. PICK b \in Int : (src_seq + i - 1) % RtpSeqMod = (src_seq + i - 1) + RtpSeqMod * b
      <4>1. src_seq + i - 1 \in Int
        BY <1>2
      <4> QED BY <4>1, Remainder
    <3>4. i = n - l
      BY <2>1, <3>1
    <3> DEFINE y == RtpSeqMod * b
    <3>5. y \in Int
      BY <1>2
    <3> HIDE DEF y
    <3>6. (src_seq + i - 1) + y = src_seq + n - l - 1 + y
      BY <1>2, <2>1, <3>4, <3>5
    <3> QED BY <3>2, <3>3, <3>6 DEF y
  <2> QED BY <2>2, <2>3
<1>5. ASSUME NEW n \in 1 .. l + p
      PROVE  \E c \in Int : stream'[n].seq = src_seq' + n - (l + p) - 1 + RtpSeqMod * c
  <2>1. PICK b \in Int : stream'[n].seq = src_seq + n - l - 1 + RtpSeqMod * b
    BY <1>4
  <2> DEFINE x == RtpSeqMod * a
             y == RtpSeqMod * b
             z == RtpSeqMod * (b - a)
  <2>2. x \in Int /\ y \in Int /\ z = y - x /\ b - a \in Int
    BY <1>2
  <2>3. l \in Nat /\ src_seq' = src_seq + p + x /\ stream'[n].seq = src_seq + n - l - 1 + y
    BY <1>1, <1>3, <2>1 DEF l
  <2> HIDE DEF x, y, z
  <2>4. src_seq + n - l - 1 + y = src_seq' + n - (l + p) - 1 + z
    BY <1>2, <2>2, <2>3
  <2> QED BY <2>2, <2>3, <2>4 DEF z
<1>6. \A n \in 1 .. l + p : stream'[n].era = 0
  <2> TAKE n \in 1 .. l + p
  <2>1. CASE n \in 1 .. l
    BY <1>1, <2>1 DEF Placed, l
  <2>2. CASE n \notin 1 .. l
    <3>1. l \in Nat
      BY <1>1 DEF l
    <3>2. n - l \in 1 .. p /\ n = l + (n - l)
      BY <2>2, <3>1
    <3> QED BY <1>1, <3>2 DEF l
  <2> QED BY <2>1, <2>2
<1>7. DOMAIN stream' = 1 .. l + p /\ Len(stream') = l + p
  BY <1>1 DEF l
<1> QED BY <1>5, <1>6, <1>7 DEF Placed

LEMMA SendStep ==
  ASSUME VInv, SendUnit
  PROVE  VInv' /\ GateStep
<1>1. /\ DOMAIN pending = {} /\ emitted' = {} /\ reported' = FALSE
      /\ delivered' = <<>> /\ script' = script /\ restarts' = restarts
      /\ UNCHANGED <<init_flag_, max_seq_, bad_seq_, cycles_, held, output_seq_,
                     report_age, disturbed, rearmed>>
      /\ UNCHANGED <<pack_init_, start_flag_, last_extend_seq_, packets_queue_,
                     pack_report_age, find_keyframe_, damaged, muted>>
      /\ UNCHANGED <<newest, payload, pending, waited, handed, origin, straggler>>
  BY DEF SendUnit, PackIdle
<1>2. StreamOK' /\ Grows /\ Appends
  BY SendStream DEF VInv
<1>3. IInv'
  BY <1>1, BufferQuiet DEF VInv
<1>4. Numbers' /\ Agreement' /\ Flags' /\ straggler' \in BOOLEAN /\ GateClosed' /\ QueueOK'
  <2>1. Numbers' /\ Agreement'
    BY <1>1 DEF VInv, Numbers, Agreement
  <2>2. Flags' /\ straggler' \in BOOLEAN
    BY <1>1 DEF VInv, Flags
  <2>3. GateClosed'
    BY <1>1, Zenon DEF VInv, GateClosed
  <2>4. QueueOK'
    BY <1>1 DEF VInv, QueueOK
  <2> QED BY <2>1, <2>2, <2>3, <2>4
<1>5. Positions'
  <2>1. \A n \in DOMAIN stream : n \in DOMAIN stream' /\ stream'[n] = stream[n]
    BY <1>2 DEF Grows
  <2> QED BY <1>1, <2>1 DEF VInv, Positions
<1>6. DOMAIN delivered' = {}
  BY <1>1
<1>7. ReceivedIntact' /\ GateStep
  BY <1>6 DEF ReceivedIntact, GateStep
<1>8. ~straggler' => Known(packets_queue_', last_extend_seq_', handed',
                           stream', src_units', origin')
  <2>1. SUFFICES ASSUME ~straggler
        PROVE  Known(packets_queue_, last_extend_seq_, handed, stream', src_units', origin)
    BY <1>1
  <2>2. Known(packets_queue_, last_extend_seq_, handed, stream, src_units, origin)
    BY <2>1 DEF VInv
  <2>3. Len(packets_queue_) \in Nat
    <3>1. packets_queue_ \in Seq(Frags)
      BY DEF VInv, QueueOK
    <3> QED BY <3>1
  <2> QED BY <1>2, <2>2, <2>3, HistoryIs, KnownLater DEF Grows
<1>9. newest' \in Nat /\ \A e \in DOMAIN origin' : origin'[e] \in Int
  BY <1>1 DEF VInv
<1>10. restarts' = 0 => Aligned'
  <2>1. SUFFICES ASSUME restarts = 0 PROVE Aligned'
    BY <1>1
  <2>2. Aligned
    BY <2>1 DEF VInv
  <2>3. \A n \in DOMAIN stream : n \in DOMAIN stream' /\ stream'[n] = stream[n]
    BY <1>2 DEF Grows
  <2>4. Placed(stream', src_seq')
    BY <1>2, <2>1, <2>2, <2>3, PlacedLater DEF Aligned, Placed
  <2>5. AtMostOneCycleHigh'
    BY <1>1, <2>1, <2>2 DEF Aligned, AtMostOneCycleHigh
  <2> QED BY <1>1, <2>2, <2>3, <2>4, <2>5 DEF Aligned, Placed
<1>a. Waits'
  BY <1>1 DEF VInv, Waits
<1> QED BY <1>2, <1>3, <1>4, <1>5, <1>a, <1>7, <1>8, <1>9, <1>10 DEF VInv

LEMMA RestartStep ==
  ASSUME VInv, NEW j \in Jumps, Restart(j)
  PROVE  VInv' /\ GateStep
<1>1. /\ DOMAIN pending = {} /\ emitted' = {} /\ reported' = FALSE
      /\ delivered' = <<>> /\ restarts' = restarts + 1
      /\ src_seq' = (src_seq + j) % RtpSeqMod
      /\ UNCHANGED <<init_flag_, max_seq_, bad_seq_, cycles_, held, output_seq_,
                     report_age, disturbed, rearmed>>
      /\ UNCHANGED <<pack_init_, start_flag_, last_extend_seq_, packets_queue_,
                     pack_report_age, find_keyframe_, damaged, muted>>
      /\ UNCHANGED <<script, src_units, sps_, pps_, stream>>
      /\ UNCHANGED <<newest, payload, pending, waited, handed, origin, straggler>>
  BY DEF Restart, PackIdle
<1>2. IInv'
  BY <1>1, BufferQuiet DEF VInv
<1>3. Numbers' /\ Agreement' /\ Positions' /\ Waits'
  BY <1>1 DEF VInv, Numbers, Agreement, Positions, Waits
<1>4. Flags' /\ straggler' \in BOOLEAN
  BY <1>1 DEF VInv, Flags
<1>5. GateClosed'
  BY <1>1, Zenon DEF VInv, GateClosed
<1>6. QueueOK'
  BY <1>1 DEF VInv, QueueOK
<1>7. DOMAIN delivered' = {}
  BY <1>1
<1>8. ReceivedIntact' /\ GateStep
  BY <1>7 DEF ReceivedIntact, GateStep
<1>9. /\ ~straggler' => Known(packets_queue_', last_extend_seq_', handed',
                              stream', src_units', origin')
      /\ newest' \in Nat /\ \A e \in DOMAIN origin' : origin'[e] \in Int
  BY <1>1 DEF VInv
<1>10. StreamOK'
  <2>1. src_seq \in Int /\ j \in Int /\ restarts \in Nat
    BY StreamAssumption, JitterConstants DEF VInv, StreamOK, SourceOK, Seqs
  <2>2. src_seq' \in Seqs
    <3> DEFINE x == src_seq + j
    <3>1. x \in Int /\ src_seq' = x % RtpSeqMod
      BY <1>1, <2>1
    <3> HIDE DEF x
    <3> QED BY <3>1, TotalIs DEF Seqs
  <2>3. SourceOK'
    BY <1>1, <2>1, <2>2 DEF VInv, StreamOK, SourceOK
  <2> QED BY <1>1, <2>3 DEF VInv, StreamOK
<1>11. ~(restarts' = 0)
  BY <1>1 DEF VInv, StreamOK, SourceOK
<1> QED BY <1>2, <1>3, <1>4, <1>5, <1>6, <1>8, <1>9, <1>10, <1>11 DEF VInv

LEMMA TimerStep ==
  ASSUME VInv, FragmentTimer
  PROVE  VInv' /\ GateStep
<1>1. /\ DOMAIN pending = {} /\ emitted' = {} /\ reported' = FALSE
      /\ delivered' = <<>> /\ packets_queue_' = CheckFuaTimeout(packets_queue_)
      /\ UNCHANGED <<init_flag_, max_seq_, bad_seq_, cycles_, held, output_seq_,
                     report_age, disturbed, rearmed>>
      /\ UNCHANGED <<pack_init_, start_flag_, last_extend_seq_, pack_report_age,
                     find_keyframe_, damaged, muted>>
      /\ UNCHANGED <<src_seq, script, src_units, sps_, pps_, stream, restarts>>
      /\ UNCHANGED <<newest, payload, pending, waited, handed, origin, straggler>>
  BY DEF FragmentTimer, PackOnTimer, srcVars
<1>2. IInv'
  BY <1>1, BufferQuiet DEF VInv
<1>3. Numbers' /\ Agreement' /\ Positions' /\ Waits'
  BY <1>1 DEF VInv, Numbers, Agreement, Positions, Waits
<1>4. Flags' /\ straggler' \in BOOLEAN
  BY <1>1 DEF VInv, Flags
<1>5. GateClosed'
  BY <1>1, Zenon DEF VInv, GateClosed
<1>6. DOMAIN delivered' = {}
  BY <1>1
<1>7. ReceivedIntact' /\ GateStep
  BY <1>6 DEF ReceivedIntact, GateStep
<1> DEFINE q == packets_queue_
<1>8. QueueOK /\ q \in Seq(Frags)
  BY DEF VInv, QueueOK
<1>9. PICK a \in 1 .. Len(q) + 1 : packets_queue_' = SubSeq(q, a, Len(q))
  BY <1>1, <1>8, Pops
<1>10. QueueOK'
  <2>1. /\ packets_queue_' \in Seq(Frags) /\ Len(packets_queue_') <= Len(q)
        /\ \A i \in 1 .. Len(packets_queue_') :
             \E j \in 1 .. Len(q) : packets_queue_'[i] = q[j] /\ (i > 1 => j > 1)
    <3> HIDE DEF q
    <3> QED BY <1>8, <1>9, CutShape
  <2>2. packets_queue_' # <<>> => q # <<>>
    <3>1. CASE q = <<>>
      <4>1. Len(packets_queue_') = 0
        BY <2>1, <3>1
      <4> QED BY <2>1, <4>1
    <3> QED BY <3>1
  <2>3. \A i \in 1 .. Len(packets_queue_') :
          ~packets_queue_'[i].e /\ (i > 1 => ~packets_queue_'[i].s)
    BY <1>8, <2>1 DEF QueueOK
  <2> QED BY <1>1, <1>8, <2>1, <2>2, <2>3 DEF QueueOK
<1>11. ~straggler' => Known(packets_queue_', last_extend_seq_', handed',
                            stream', src_units', origin')
  <2>1. SUFFICES ASSUME ~straggler
        PROVE  Known(SubSeq(q, a, Len(q)), last_extend_seq_, handed,
                     stream, src_units, origin)
    BY <1>1, <1>9
  <2>2. Known(q, last_extend_seq_, handed, stream, src_units, origin)
    BY <2>1 DEF VInv
  <2>3. \A i \in 1 .. Len(q) : i > 1 => ~q[i].s
    BY <1>8 DEF QueueOK
  <2> HIDE DEF q
  <2> QED BY <1>8, <2>2, <2>3, Cut
<1>12. StreamOK' /\ newest' \in Nat /\ \A e \in DOMAIN origin' : origin'[e] \in Int
  BY <1>1 DEF VInv, StreamOK, SourceOK
<1>13. restarts' = 0 => Aligned'
  BY <1>1 DEF VInv, Aligned, AtMostOneCycleHigh
<1> QED BY <1>2, <1>3, <1>4, <1>5, <1>7, <1>10, <1>11, <1>12, <1>13 DEF VInv

LEMMA TimeStep ==
  ASSUME VInv, TimePasses
  PROVE  VInv' /\ GateStep
<1> DEFINE q == packets_queue_
<1>1. /\ DOMAIN pending = {} /\ Tick /\ emitted' = {}
      /\ delivered' = <<>>
      /\ packets_queue_' = [i \in DOMAIN q |->
           [q[i] EXCEPT !.age = IF @ < PackTimeout THEN @ + 1 ELSE @]]
      /\ pack_report_age' = IF pack_report_age > PackReportGap
                            THEN pack_report_age ELSE pack_report_age + 1
      /\ held' = [k \in DOMAIN held |-> Older(held[k], AgeMax)]
      /\ UNCHANGED <<init_flag_, max_seq_, bad_seq_, cycles_, output_seq_, disturbed, rearmed>>
      /\ UNCHANGED <<pack_init_, start_flag_, last_extend_seq_,
                     find_keyframe_, damaged, muted>>
      /\ UNCHANGED <<src_seq, script, src_units, sps_, pps_, stream, restarts>>
      /\ UNCHANGED <<newest, payload, pending, waited, handed, origin, straggler>>
  BY DEF TimePasses, PackTick, Tick, srcVars
<1>2. IInv'
  BY <1>1, NextStep DEF VInv, Next, StepOK
<1>3. DOMAIN held' = DOMAIN held
  BY <1>1
<1>4. Numbers' /\ Agreement' /\ Positions' /\ Waits'
  BY <1>1, <1>3 DEF VInv, Numbers, Agreement, Positions, Waits
<1>5. Flags' /\ straggler' \in BOOLEAN
  <2>1. pack_report_age' \in 0 .. PackReportGap + 1
    BY <1>1, PackConstants DEF VInv, Flags
  <2> QED BY <1>1, <2>1 DEF VInv, Flags
<1>6. GateClosed'
  BY <1>1, Zenon DEF VInv, GateClosed
<1>7. DOMAIN delivered' = {}
  BY <1>1
<1>8. ReceivedIntact' /\ GateStep
  BY <1>7 DEF ReceivedIntact, GateStep
<1>9. QueueOK /\ q \in Seq(Frags) /\ DOMAIN q = 1 .. Len(q) /\ Len(q) \in Nat
  BY DEF VInv, QueueOK
<1>10. /\ packets_queue_' \in Seq(Frags) /\ Len(packets_queue_') = Len(q)
       /\ \A i \in 1 .. Len(q) :
            /\ packets_queue_'[i].ext = q[i].ext /\ packets_queue_'[i].s = q[i].s
            /\ packets_queue_'[i].e = q[i].e /\ packets_queue_'[i].type = q[i].type
            /\ packets_queue_'[i].part = q[i].part
  <2> DEFINE G(x) == [x EXCEPT !.age = IF @ < PackTimeout THEN @ + 1 ELSE @]
             r == [i \in 1 .. Len(q) |-> G(q[i])]
  <2>1. packets_queue_' = r
    BY <1>1, <1>9
  <2>2. ASSUME NEW x \in Frags
        PROVE  /\ G(x) \in Frags /\ G(x).ext = x.ext /\ G(x).s = x.s
               /\ G(x).e = x.e /\ G(x).type = x.type /\ G(x).part = x.part
    BY PackConstants DEF Frags
  <2>3. \A i \in 1 .. Len(q) : q[i] \in Frags
    <3> HIDE DEF q
    <3> QED BY <1>9
  <2> HIDE DEF G, q
  <2>4. \A i \in 1 .. Len(q) : r[i] = G(q[i]) /\ G(q[i]) \in Frags
    BY <2>2, <2>3
  <2>5. r \in Seq(Frags) /\ Len(r) = Len(q)
    BY <1>9, <2>4
  <2> HIDE DEF r
  <2> QED BY <2>1, <2>2, <2>3, <2>4, <2>5
<1>11. QueueOK'
  <2>1. packets_queue_' # <<>> => q # <<>>
    <3>1. CASE q = <<>>
      <4>1. Len(packets_queue_') = 0
        BY <1>10, <3>1
      <4> QED BY <1>10, <4>1
    <3> QED BY <3>1
  <2>2. \A i \in 1 .. Len(packets_queue_') :
          ~packets_queue_'[i].e /\ (i > 1 => ~packets_queue_'[i].s)
    BY <1>9, <1>10 DEF QueueOK
  <2> QED BY <1>1, <1>9, <1>10, <2>1, <2>2 DEF QueueOK
<1>12. ~straggler' => Known(packets_queue_', last_extend_seq_', handed',
                            stream', src_units', origin')
  <2> DEFINE r == packets_queue_'
  <2>1. SUFFICES ASSUME ~straggler
        PROVE  Known(r, last_extend_seq_, handed, stream, src_units, origin)
    BY <1>1
  <2>2. Known(q, last_extend_seq_, handed, stream, src_units, origin)
    BY <2>1 DEF VInv
  <2> HIDE DEF q, r
  <2> QED BY <1>9, <1>10, <2>2, Aged DEF r
<1>13. StreamOK' /\ newest' \in Nat /\ \A e \in DOMAIN origin' : origin'[e] \in Int
  BY <1>1 DEF VInv, StreamOK, SourceOK
<1>14. restarts' = 0 => Aligned'
  BY <1>1, <1>3 DEF VInv, Aligned, AtMostOneCycleHigh
<1> QED BY <1>2, <1>4, <1>5, <1>6, <1>8, <1>11, <1>12, <1>13, <1>14 DEF VInv

-----------------------------------------------------------------------------
(* The numbers of a stream without a restart.                              *)
LEMMA Multiple ==
  ASSUME NEW z \in Int
  PROVE  LET p == RtpSeqMod * z
             m == RtpSeqMod IN
         /\ p \in Int
         /\ p = 0 \/ p >= m \/ p <= 0 - m
         /\ p = m \/ p <= 0 \/ p >= m + m
         /\ p = 0 - m \/ p >= 0 \/ p <= 0 - (m + m)
<1> DEFINE p == RtpSeqMod * z
<1>1. RtpSeqMod \in Int /\ 0 < RtpSeqMod /\ p \in Int
  BY TotalIs
<1>2. \A y \in Int : y >= 0 => RtpSeqMod * y >= 0
  BY <1>1
<1>3. CASE z = 0
  BY <1>1, <1>3
<1>4. CASE z = 1 \/ z = 0 - 1
  BY <1>1, <1>4
<1>5. CASE z >= 2
  <2>1. RtpSeqMod * (z - 2) >= 0 /\ RtpSeqMod * (z - 2) = p - (RtpSeqMod + RtpSeqMod)
    BY <1>1, <1>2, <1>5
  <2> HIDE DEF p
  <2> QED BY <1>1, <2>1 DEF p
<1>6. CASE z <= 0 - 2
  <2>1. /\ RtpSeqMod * (0 - 2 - z) >= 0
        /\ RtpSeqMod * (0 - 2 - z) = 0 - (RtpSeqMod + RtpSeqMod) - p
    BY <1>1, <1>2, <1>6
  <2> HIDE DEF p
  <2> QED BY <1>1, <2>1 DEF p
<1> QED BY <1>3, <1>4, <1>5, <1>6

(* A packet of the window is no large jump; in order it is numbered right, *)
(* behind the newest one right or a cycle too high.                        *)
LEMMA NumberedRight ==
  ASSUME NEW a \in Seqs, NEW b \in Seqs, NEW d \in Int, NEW z \in Int,
         b = a + d + RtpSeqMod * z, 0 - MaxMisorder < d, d < MaxDropout
  PROVE  /\ d >= 0 => (b - a) % RtpSeqMod = d /\ (b = a + d \/ b = a + d - RtpSeqMod)
         /\ d < 0 => /\ (b - a) % RtpSeqMod = d + RtpSeqMod
                     /\ b = a + d \/ b = a + d + RtpSeqMod
<1> DEFINE p == RtpSeqMod * z
           x == b - a
           r == x % RtpSeqMod
<1>1. /\ RtpSeqMod \in Int /\ 0 < RtpSeqMod /\ MaxDropout \in Nat /\ MaxMisorder \in Nat
      /\ MaxDropout + MaxMisorder <= RtpSeqMod /\ 0 < MaxMisorder /\ 0 < MaxDropout
  BY TotalIs, JitterConstants
<1>2. a \in Int /\ b \in Int /\ 0 <= a /\ a < RtpSeqMod /\ 0 <= b /\ b < RtpSeqMod
  BY <1>1 DEF Seqs
<1>3. /\ p \in Int /\ (p = 0 \/ p >= RtpSeqMod \/ p <= 0 - RtpSeqMod)
      /\ p = RtpSeqMod \/ p <= 0 \/ p >= RtpSeqMod + RtpSeqMod
      /\ p = 0 - RtpSeqMod \/ p >= 0 \/ p <= 0 - (RtpSeqMod + RtpSeqMod)
  BY Multiple
<1>4. b = a + d + p /\ x = d + p /\ x \in Int
  BY <1>1, <1>2, <1>3
<1>5. PICK c \in Int : r = x + RtpSeqMod * c
  <2> HIDE DEF x
  <2> QED BY <1>4, Remainder
<1>6. r \in Int /\ 0 <= r /\ r < RtpSeqMod
  <2> HIDE DEF x
  <2> QED BY <1>1, <1>4
<1> DEFINE y == RtpSeqMod * (z + c)
<1>7. y = p + RtpSeqMod * c /\ z + c \in Int /\ RtpSeqMod * c \in Int
  BY <1>1
<1>8. /\ y \in Int /\ (y = 0 \/ y >= RtpSeqMod \/ y <= 0 - RtpSeqMod)
      /\ y = RtpSeqMod \/ y <= 0 \/ y >= RtpSeqMod + RtpSeqMod
      /\ y = 0 - RtpSeqMod \/ y >= 0 \/ y <= 0 - (RtpSeqMod + RtpSeqMod)
  <2> DEFINE t == z + c
  <2> HIDE DEF t
  <2>1. t \in Int
    BY <1>7 DEF t
  <2> QED BY <2>1, Multiple DEF t
<1>9. r = d + y
  <2> DEFINE u == RtpSeqMod * c
  <2> HIDE DEF u, p, y, x, r
  <2>1. r = x + u /\ y = p + u /\ x = d + p /\ u \in Int
    BY <1>4, <1>5, <1>7 DEF u
  <2> QED BY <2>1, <1>3
<1> HIDE DEF p, r, x, y
<1>10. d >= 0 => r = d /\ (b = a + d \/ b = a + d - RtpSeqMod)
  BY <1>1, <1>2, <1>3, <1>4, <1>6, <1>8, <1>9
<1>11. d < 0 => r = d + RtpSeqMod /\ (b = a + d \/ b = a + d + RtpSeqMod)
  BY <1>1, <1>2, <1>3, <1>4, <1>6, <1>8, <1>9
<1> QED BY <1>10, <1>11 DEF r, x

(* The first packet of the stream.                                         *)
LEMMA AlignedFirst ==
  ASSUME VInv, NEW n \in DOMAIN stream, Receive(n), restarts = 0, newest = 0
  PROVE  Aligned'
<1> DEFINE seq == stream[n].seq
<1>1. Aligned
  BY DEF VInv
<1>2. ~init_flag_ /\ DOMAIN held = {} /\ DOMAIN origin = {} /\ stream[n].era = 0
  BY <1>1 DEF Aligned
<1>3. seq \in Nat /\ n \in Nat /\ n # 0 /\ n \in Int
  BY HistoryIs, TotalIs DEF Seqs
<1>4. /\ UNCHANGED srcVars /\ newest' = (IF n > newest THEN n ELSE newest)
      /\ InputRtpPacket(seq)
      /\ payload' = [k \in DOMAIN held' |->
                       IF Holds(seq) /\ k = Number(seq) THEN n ELSE payload[k]]
      /\ pending' = [k \in emitted' |-> IF k = Number(seq) THEN n ELSE payload[k]]
      /\ origin' = IF Drops(seq) \/ stream[n].era \in DOMAIN origin THEN origin
                   ELSE [e \in DOMAIN origin \cup {stream[n].era} |->
                           IF e = stream[n].era THEN Number(seq) - n ELSE origin[e]]
  BY DEF Receive
<1>5. FirstPacket(seq)
  BY <1>2, <1>4 DEF InputRtpPacket, SuspectPacket, ResyncPacket, ContinuedPacket,
                    OldPacket, HoldPacket, AcceptSeq
<1>6. Number(seq) = seq /\ ~Drops(seq)
  BY <1>2 DEF Number, Drops
<1>7. /\ init_flag_' = TRUE /\ max_seq_' = seq /\ cycles_' = 0
      /\ DOMAIN held' = {} /\ emitted' = {seq}
  BY <1>2, <1>5 DEF FirstPacket, InitSeq
<1>8. 0 \in DOMAIN origin' /\ origin'[0] = seq - n
  BY <1>2, <1>4, <1>6
<1>9. DOMAIN payload' = {} /\ DOMAIN pending' = {seq} /\ pending'[seq] = n
  BY <1>4, <1>6, <1>7
<1>10. UNCHANGED <<src_seq, stream, restarts>> /\ newest' = n
  BY <1>3, <1>4 DEF srcVars
<1> HIDE DEF seq
<1>11. seq - ((seq - n) + n) = 0 /\ 0 + seq = (seq - n) + n
  BY <1>3
<1>12. AtMostOneCycleHigh'
  BY <1>8, <1>9, <1>11 DEF AtMostOneCycleHigh
<1> QED BY <1>1, <1>3, <1>7, <1>8, <1>10, <1>11, <1>12 DEF Aligned, seq

(* Every other one.                                                        *)
LEMMA InStep ==
  ASSUME VInv, NEW n \in DOMAIN stream, Receive(n), restarts = 0, newest # 0
  PROVE  LET seq == stream[n].seq
             x == origin[0] + n IN
         /\ Number(seq) - x \in {0, RtpSeqMod} /\ init_flag_' = init_flag_
         /\ cycles_' + max_seq_' = origin[0] + newest'
         /\ newest' \in DOMAIN stream /\ max_seq_' = stream[newest'].seq
         /\ newest' # 0
<1> DEFINE seq == stream[n].seq
           d == n - newest
           o == origin[0]
<1>1. Aligned
  BY DEF VInv
<1>2. /\ init_flag_ /\ newest \in DOMAIN stream /\ max_seq_ = stream[newest].seq
      /\ 0 \in DOMAIN origin /\ cycles_ + max_seq_ = o + newest
  BY <1>1 DEF Aligned
<1>3. /\ n \in Int /\ newest \in Int /\ d \in Int /\ o \in Int
      /\ seq \in Seqs /\ max_seq_ \in Seqs /\ Len(stream) \in Int
      /\ newest # 0 /\ n # 0
  BY <1>2, HistoryIs
<1>4. /\ src_seq \in Int /\ RtpSeqMod \in Nat /\ cycles_ \in Nat
      /\ MaxDropout \in Nat /\ MaxMisorder \in Nat
      /\ MaxDropout + MaxMisorder <= RtpSeqMod /\ 0 < MaxMisorder /\ 0 < MaxDropout
  BY JitterConstants DEF VInv, StreamOK, SourceOK, Seqs, IInv, TypeOK
<1>5. 0 - MaxMisorder < d /\ d < MaxDropout
  <2>1. newest - MaxMisorder < n /\ n < newest + MaxDropout
    BY DEF Receive, InWindow
  <2> QED BY <1>3, <1>4, <2>1
<1>6. PICK c1 \in Int : seq = src_seq + n - Len(stream) - 1 + RtpSeqMod * c1
  BY <1>1 DEF Aligned
<1>7. PICK c2 \in Int : max_seq_ = src_seq + newest - Len(stream) - 1 + RtpSeqMod * c2
  BY <1>1, <1>2 DEF Aligned
<1>8. seq = max_seq_ + d + RtpSeqMod * (c1 - c2) /\ c1 - c2 \in Int
  <2> DEFINE x == RtpSeqMod * c1
             y == RtpSeqMod * c2
             z == RtpSeqMod * (c1 - c2)
             l == Len(stream)
  <2>1. x \in Int /\ y \in Int /\ z = x - y /\ c1 - c2 \in Int
    BY <1>4
  <2>2. /\ seq = src_seq + n - l - 1 + x /\ l \in Int
        /\ max_seq_ = src_seq + newest - l - 1 + y
    BY <1>3, <1>6, <1>7
  <2> HIDE DEF x, y, z, l, seq
  <2> QED BY <1>3, <1>4, <2>1, <2>2 DEF z
<1>9. seq \in Int /\ max_seq_ \in Int /\ 0 <= seq /\ seq < RtpSeqMod
      /\ 0 <= max_seq_ /\ max_seq_ < RtpSeqMod
  BY <1>3, <1>4 DEF Seqs
<1> HIDE DEF seq, d, o
<1>10. /\ d >= 0 => UDelta(seq) = d /\ (seq = max_seq_ + d \/ seq = max_seq_ + d - RtpSeqMod)
       /\ d < 0 => /\ UDelta(seq) = d + RtpSeqMod
                   /\ seq = max_seq_ + d \/ seq = max_seq_ + d + RtpSeqMod
  <2> DEFINE z == c1 - c2
  <2> HIDE DEF z
  <2>1. z \in Int /\ seq = max_seq_ + d + RtpSeqMod * z
    BY <1>8 DEF z
  <2> QED BY <1>3, <1>5, <2>1, NumberedRight DEF UDelta, d
<1>11. (InOrder(seq) <=> d >= 0) /\ ~LargeJump(seq)
  <2>1. d \in Int
    BY <1>3 DEF d
  <2>2. CASE d >= 0
    BY <1>4, <1>5, <1>10, <2>1, <2>2 DEF InOrder, LargeJump
  <2>3. CASE d < 0
    BY <1>4, <1>5, <1>10, <2>1, <2>3 DEF InOrder, LargeJump
  <2> QED BY <2>1, <2>2, <2>3
<1>12. /\ InputRtpPacket(seq) /\ newest' = (IF n > newest THEN n ELSE newest)
  BY DEF Receive, seq
<1>13. AcceptSeq(seq)
  BY <1>2, <1>11, <1>12 DEF InputRtpPacket, FirstPacket, SuspectPacket, ResyncPacket,
                    ContinuedPacket, OldPacket, HoldPacket
<1>14. /\ init_flag_' = init_flag_ /\ cycles_' = Cycles(seq)
       /\ max_seq_' = IF InOrder(seq) THEN seq ELSE max_seq_
  BY <1>13 DEF AcceptSeq
<1>15. Number(seq) = Cycles(seq) + seq
  BY <1>2, <1>11 DEF Number, ExtendSeq
<1>16. d \in Int /\ n = newest + d /\ cycles_ + max_seq_ = o + newest
  BY <1>2, <1>3 DEF d, o
<1>17. CASE d >= 0
  <2>1. Cycles(seq) + seq = o + n
    BY <1>3, <1>4, <1>5, <1>9, <1>10, <1>11, <1>16, <1>17 DEF Cycles, o
  <2>2. newest' = n /\ max_seq_' = seq
    BY <1>3, <1>11, <1>12, <1>14, <1>16, <1>17
  <2> QED BY <1>3, <1>4, <1>9, <1>14, <1>15, <2>1, <2>2 DEF seq, o
<1>18. CASE d < 0
  <2>1. Cycles(seq) = cycles_
    BY <1>11, <1>16, <1>18 DEF Cycles
  <2>2. newest' = newest /\ max_seq_' = max_seq_
    BY <1>3, <1>11, <1>12, <1>14, <1>16, <1>18
  <2>3. cycles_ + seq - (o + n) \in {0, RtpSeqMod}
    <3>1. n \in Int /\ newest \in Int /\ o \in Int /\ cycles_ \in Int /\ RtpSeqMod \in Int
      BY <1>3, <1>4
    <3>2. CASE seq = max_seq_ + d
      <4>1. cycles_ + seq - (o + n) = 0
        BY <1>9, <1>16, <3>1, <3>2
      <4> QED BY <4>1
    <3>3. CASE seq = max_seq_ + d + RtpSeqMod
      <4>1. cycles_ + seq - (o + n) = RtpSeqMod
        BY <1>9, <1>16, <3>1, <3>3
      <4> QED BY <4>1
    <3> QED BY <1>10, <1>18, <3>2, <3>3
  <2>4. Number(seq) - (o + n) \in {0, RtpSeqMod}
    <3>1. Number(seq) = cycles_ + seq /\ cycles_ \in Int /\ o \in Int /\ n \in Int
      BY <1>3, <1>4, <1>15, <2>1
    <3> QED BY <1>9, <2>3, <3>1
  <2>5. cycles_' + max_seq_' = o + newest'
    BY <1>14, <1>16, <2>1, <2>2
  <2> QED BY <1>2, <1>3, <1>14, <2>2, <2>4, <2>5 DEF seq, o
<1> QED BY <1>16, <1>17, <1>18

LEMMA AlignedNext ==
  ASSUME VInv, NEW n \in DOMAIN stream, Receive(n), restarts = 0, newest # 0,
         InputOK(stream[n].seq)
  PROVE  Aligned'
<1> DEFINE seq == stream[n].seq
<1>1. Aligned /\ DOMAIN payload = DOMAIN held
  BY DEF VInv, Positions
<1>2. /\ UNCHANGED srcVars
      /\ payload' = [k \in DOMAIN held' |->
                       IF Holds(seq) /\ k = Number(seq) THEN n ELSE payload[k]]
      /\ pending' = [k \in emitted' |-> IF k = Number(seq) THEN n ELSE payload[k]]
      /\ origin' = IF Drops(seq) \/ stream[n].era \in DOMAIN origin THEN origin
                   ELSE [e \in DOMAIN origin \cup {stream[n].era} |->
                           IF e = stream[n].era THEN Number(seq) - n ELSE origin[e]]
  BY DEF Receive
<1>3. init_flag_ /\ 0 \in DOMAIN origin /\ stream[n].era = 0
  BY <1>1 DEF Aligned
<1>4. origin' = origin
  BY <1>2, <1>3
<1>5. /\ Number(seq) - (origin[0] + n) \in {0, RtpSeqMod} /\ init_flag_' = init_flag_
      /\ cycles_' + max_seq_' = origin[0] + newest'
      /\ newest' \in DOMAIN stream /\ max_seq_' = stream[newest'].seq /\ newest' # 0
  BY InStep
<1>6. /\ \A k \in DOMAIN held' : k \in DOMAIN held \/ (Holds(seq) /\ k = Number(seq))
      /\ \A k \in emitted' : k \in DOMAIN held \/ k = Number(seq)
  BY DEF InputOK
<1>7. \A k \in DOMAIN held : k - (origin[0] + payload[k]) \in {0, RtpSeqMod}
  BY <1>1 DEF Aligned, AtMostOneCycleHigh
<1> HIDE DEF seq
<1>8. \A k \in DOMAIN payload' : k - (origin[0] + payload'[k]) \in {0, RtpSeqMod}
  BY <1>2, <1>5, <1>6, <1>7
<1>9. \A k \in DOMAIN pending' : k - (origin[0] + pending'[k]) \in {0, RtpSeqMod}
  BY <1>2, <1>5, <1>6, <1>7
<1>10. UNCHANGED <<src_seq, stream, restarts>>
  BY <1>2 DEF srcVars
<1>11. AtMostOneCycleHigh'
  BY <1>4, <1>8, <1>9 DEF AtMostOneCycleHigh
<1> QED BY <1>1, <1>3, <1>4, <1>5, <1>10, <1>11 DEF Aligned

LEMMA ReceiveStep ==
  ASSUME VInv, NEW n \in DOMAIN stream, Receive(n)
  PROVE  VInv' /\ GateStep
<1> DEFINE seq == stream[n].seq
           era == stream[n].era
<1>1. /\ DOMAIN pending = {} /\ InputRtpPacket(seq)
      /\ newest' = (IF n > newest THEN n ELSE newest)
      /\ payload' = [k \in DOMAIN held' |->
                       IF Holds(seq) /\ k = Number(seq) THEN n ELSE payload[k]]
      /\ pending' = [k \in emitted' |-> IF k = Number(seq) THEN n ELSE payload[k]]
      /\ waited' = [k \in emitted' |-> IF k = Number(seq) THEN 0 ELSE held[k]]
      /\ origin' = IF Drops(seq) \/ era \in DOMAIN origin THEN origin
                   ELSE [e \in DOMAIN origin \cup {era} |->
                           IF e = era THEN Number(seq) - n ELSE origin[e]]
      /\ delivered' = <<>>
      /\ UNCHANGED <<pack_init_, start_flag_, last_extend_seq_, packets_queue_,
                     pack_report_age, find_keyframe_, damaged, muted>>
      /\ UNCHANGED <<src_seq, script, src_units, sps_, pps_, stream, restarts>>
      /\ UNCHANGED <<handed, straggler>>
  BY DEF Receive, PackIdle, srcVars
<1>2. /\ seq \in Seqs /\ era \in Nat /\ n \in Nat /\ seq \in Nat
      /\ \A e \in DOMAIN origin : origin[e] \in Int
  BY HistoryIs, TotalIs DEF Seqs
<1>3. InputOK(seq) /\ IInv'
  <2>1. IInv /\ Numbers
    BY DEF VInv
  <2> HIDE DEF seq
  <2> QED BY <1>1, <1>2, <2>1, InputStep
<1>4. /\ Numbers'
      /\ \A k \in emitted' : k \in Nat /\ k < Total
      /\ emitted' = {} => output_seq_' = output_seq_
      /\ emitted' # {} => output_seq_' \in emitted' /\ \A j \in emitted' : j <= output_seq_'
      /\ \A k \in DOMAIN held' : k \in DOMAIN held \/ (Holds(seq) /\ k = Number(seq))
      /\ \A k \in emitted' : k \in DOMAIN held \/ k = Number(seq)
      /\ Drops(seq) => emitted' = {}
  BY <1>3 DEF InputOK
<1>5. Number(seq) \in Int
  <2>1. ExtendSeq(seq) \in Nat
    BY <1>2, SeqTypes DEF VInv, IInv
  <2> QED BY <1>2, <2>1 DEF Number
<1>6. Holds(seq) => ~Drops(seq)
  <2>1. ExtendSeq(seq) \in Nat /\ output_seq_ \in Nat
    BY <1>2, SeqTypes DEF VInv, IInv, TypeOK
  <2> HIDE DEF seq
  <2> QED BY <2>1 DEF Holds, Drops
<1> HIDE DEF seq, era
<1>7. /\ DOMAIN origin \subseteq DOMAIN origin'
      /\ \A e \in DOMAIN origin : origin'[e] = origin[e]
      /\ \A e \in DOMAIN origin' : origin'[e] \in Int
      /\ ~Drops(seq) => era \in DOMAIN origin'
  <2>1. CASE Drops(seq) \/ era \in DOMAIN origin
    BY <1>1, <1>2, <2>1
  <2>2. CASE ~(Drops(seq) \/ era \in DOMAIN origin)
    <3> DEFINE s == Number(seq) - n
    <3>1. s \in Int
      BY <1>2, <1>5
    <3> HIDE DEF s
    <3>2. origin' = [e \in DOMAIN origin \cup {era} |-> IF e = era THEN s ELSE origin[e]]
      BY <1>1, <2>2 DEF s
    <3> QED BY <1>2, <2>2, <3>1, <3>2
  <2> QED BY <2>1, <2>2
<1>8. \A k \in DOMAIN held : payload[k] \in DOMAIN stream /\ stream[payload[k]].era \in DOMAIN origin'
  BY <1>7 DEF VInv, Positions
<1>9. Positions'
  <2>1. DOMAIN payload' = DOMAIN held' /\ DOMAIN pending' = emitted'
    BY <1>1
  <2>2. \A k \in DOMAIN payload' :
          payload'[k] \in DOMAIN stream /\ stream[payload'[k]].era \in DOMAIN origin'
    BY <1>1, <1>4, <1>6, <1>7, <1>8 DEF era
  <2>3. \A k \in DOMAIN pending' :
          pending'[k] \in DOMAIN stream /\ stream[pending'[k]].era \in DOMAIN origin'
    BY <1>1, <1>4, <1>7, <1>8 DEF era
  <2> QED BY <1>1, <1>4, <2>1, <2>2, <2>3 DEF Positions
<1>a. Waits'
  <2>1. held \in [DOMAIN held -> 0 .. AgeMax] /\ 0 \in 0 .. AgeMax
    BY JitterConstants DEF VInv, IInv, TypeOK
  <2>2. DOMAIN waited' = emitted' /\ DOMAIN pending' = emitted'
    BY <1>1
  <2>3. ASSUME NEW k \in emitted' PROVE waited'[k] \in 0 .. AgeMax
    <3>1. waited'[k] = IF k = Number(seq) THEN 0 ELSE held[k]
      BY <1>1, <2>3
    <3>2. k # Number(seq) => held[k] \in 0 .. AgeMax
      BY <1>4, <2>1, <2>3
    <3> QED BY <2>1, <3>1, <3>2
  <2> QED BY <2>2, <2>3 DEF Waits
<1>10. Agreement'
  <2>1. DOMAIN pending' = emitted'
    BY <1>1
  <2> QED BY <1>1, <1>4, <2>1 DEF VInv, Agreement
<1>11. StreamOK'
  BY <1>1 DEF VInv, StreamOK, SourceOK
<1>12. Flags' /\ straggler' \in BOOLEAN
  BY <1>1 DEF VInv, Flags
<1>13. GateClosed'
  BY <1>1, Zenon DEF VInv, GateClosed
<1>14. QueueOK'
  BY <1>1 DEF VInv, QueueOK
<1>15. DOMAIN delivered' = {}
  BY <1>1
<1>16. ReceivedIntact' /\ GateStep
  BY <1>15 DEF ReceivedIntact, GateStep
<1>17. ~straggler' => Known(packets_queue_', last_extend_seq_', handed',
                            stream', src_units', origin')
  <2>1. SUFFICES ASSUME ~straggler
        PROVE  Known(packets_queue_, last_extend_seq_, handed, stream, src_units, origin')
    BY <1>1
  <2>2. Known(packets_queue_, last_extend_seq_, handed, stream, src_units, origin)
    BY <2>1 DEF VInv
  <2>3. Len(packets_queue_) \in Nat
    <3>1. packets_queue_ \in Seq(Frags)
      BY DEF VInv, QueueOK
    <3> QED BY <3>1
  <2> QED BY <1>7, <2>2, <2>3, HistoryIs, KnownLater
<1>18. newest' \in Nat
  BY <1>1, <1>2 DEF VInv
<1>19. restarts' = 0 => Aligned'
  <2>1. SUFFICES ASSUME restarts = 0 PROVE Aligned'
    BY <1>1
  <2>2. InputOK(stream[n].seq)
    BY <1>3 DEF seq
  <2> QED BY <2>1, <2>2, AlignedFirst, AlignedNext
<1> QED BY <1>3, <1>4, <1>7, <1>9, <1>a, <1>10, <1>11, <1>12, <1>13, <1>14, <1>16, <1>17,
           <1>18, <1>19 DEF VInv

-----------------------------------------------------------------------------
LEMMA VInvInit == VInit => VInv
<1> SUFFICES ASSUME VInit PROVE VInv
  OBVIOUS
<1>1. IInv
  BY InitIInv DEF VInit
<1>2. /\ output_seq_ = 0 /\ cycles_ = 0 /\ ~init_flag_ /\ DOMAIN held = {}
      /\ last_extend_seq_ = 0 /\ packets_queue_ = <<>> /\ stream = <<>>
      /\ src_units = <<>> /\ delivered = <<>> /\ sps_ = NoParam /\ pps_ = NoParam
      /\ newest = 0 /\ DOMAIN payload = {} /\ DOMAIN pending = {} /\ DOMAIN origin = {}
      /\ DOMAIN waited = {} /\ restarts = 0 /\ straggler = FALSE
  BY DEF VInit, Init, PackInit
<1>3. Numbers /\ Agreement /\ Positions /\ Waits
  BY <1>2, TotalIs DEF Numbers, Agreement, Positions, Waits
<1>4. DOMAIN stream = {} /\ DOMAIN delivered = {} /\ Len(packets_queue_) = 0
  BY <1>2
<1>5. SourceOK
  <2>1. src_seq \in Seqs /\ script \in Scripts
    BY StreamAssumption DEF VInit
  <2>2. src_units \in Seq([type : NalTypes, len : Nat, id : Nat, era : Nat])
        /\ stream \in Seq([pkt : Pkts, seq : Seqs, era : Nat])
    BY <1>2
  <2> QED BY <1>2, <2>1, <2>2 DEF SourceOK, NoParam
<1>6. StreamOK
  BY <1>4, <1>5 DEF StreamOK, WholeUnits, InRuns
<1>7. Flags
  <2>1. pack_report_age \in 0 .. PackReportGap + 1
    BY PackConstants DEF VInit, PackInit
  <2>2. /\ pack_init_ \in BOOLEAN /\ start_flag_ \in BOOLEAN
        /\ find_keyframe_ \in BOOLEAN /\ damaged \in BOOLEAN /\ muted \in BOOLEAN
    BY DEF VInit, PackInit
  <2> QED BY <2>1, <2>2 DEF Flags
<1>8. GateClosed /\ straggler \in BOOLEAN
  BY <1>2 DEF VInit, PackInit, GateClosed
<1>9. QueueOK
  <2>1. packets_queue_ \in Seq(Frags)
    BY <1>2
  <2> QED BY <1>2, <1>4, <2>1 DEF QueueOK
<1>10. Known(packets_queue_, last_extend_seq_, handed, stream, src_units, origin)
  BY <1>2, NothingKnown
<1>11. ReceivedIntact
  BY <1>4 DEF ReceivedIntact
<1>12. Aligned
  BY <1>2, <1>4 DEF Aligned, AtMostOneCycleHigh
<1> QED BY <1>1, <1>2, <1>3, <1>6, <1>7, <1>8, <1>9, <1>10, <1>11, <1>12 DEF VInv

LEMMA VInvStep == VInv /\ [VNext]_videoVars => VInv' /\ [GateStep]_videoVars
<1> SUFFICES ASSUME VInv, [VNext]_videoVars
             PROVE  VInv' /\ [GateStep]_videoVars
  OBVIOUS
<1>1. CASE SendUnit
  BY <1>1, SendStep
<1>2. ASSUME NEW j \in Jumps, Restart(j) PROVE VInv' /\ GateStep
  BY <1>2, RestartStep
<1>3. ASSUME NEW n \in DOMAIN stream, Receive(n) PROVE VInv' /\ GateStep
  BY <1>3, ReceiveStep
<1>4. ASSUME NEW k \in DOMAIN pending, NEW fault \in Faults, Depacketise(k, fault)
      PROVE  VInv' /\ GateStep
  BY <1>4, DepacketiseStep
<1>5. CASE FragmentTimer
  BY <1>5, TimerStep
<1>6. CASE TimePasses
  BY <1>6, TimeStep
<1>7. CASE UNCHANGED videoVars
  <2>1. /\ UNCHANGED vars
        /\ UNCHANGED <<init_flag_, max_seq_, cycles_, held, output_seq_>>
        /\ UNCHANGED <<pack_init_, start_flag_, last_extend_seq_, packets_queue_,
                       pack_report_age, find_keyframe_, delivered, damaged, muted>>
        /\ UNCHANGED <<src_seq, script, src_units, sps_, pps_, stream, restarts>>
        /\ UNCHANGED <<newest, payload, pending, waited, handed, origin, straggler>>
    BY <1>7 DEF videoVars, vars, packVars, srcVars
  <2>2. IInv'
    BY <2>1, StutterStep DEF VInv
  <2>3. Numbers' /\ Positions' /\ Waits' /\ Agreement'
    BY <2>1 DEF VInv, Numbers, Positions, Waits, Agreement
  <2>4. StreamOK' /\ newest' \in Nat /\ (\A e \in DOMAIN origin' : origin'[e] \in Int)
    BY <2>1 DEF VInv, StreamOK, SourceOK
  <2>5. Flags' /\ straggler' \in BOOLEAN /\ QueueOK'
    BY <2>1 DEF VInv, Flags, QueueOK
  <2>6. GateClosed'
    BY <2>1, Zenon DEF VInv, GateClosed
  <2>7. ~straggler' => Known(packets_queue_', last_extend_seq_', handed',
                             stream', src_units', origin')
    BY <2>1 DEF VInv
  <2>8. ReceivedIntact'
    BY <2>1 DEF VInv, ReceivedIntact, EraOf
  <2>9. restarts' = 0 => Aligned'
    BY <2>1 DEF VInv, Aligned, AtMostOneCycleHigh
  <2>10. VInv'
    BY <2>2, <2>3, <2>4, <2>5, <2>6, <2>7, <2>8, <2>9 DEF VInv
  <2> QED BY <1>7, <2>10
<1> QED BY <1>1, <1>2, <1>3, <1>4, <1>5, <1>6, <1>7 DEF VNext

LEMMA PathInductive == VSpec => []VInv
<1>1. VInit => VInv
  BY VInvInit
<1>2. VInv /\ [VNext]_videoVars => VInv'
  BY VInvStep
<1> QED BY <1>1, <1>2, PTL DEF VSpec

-----------------------------------------------------------------------------
(* The jitter buffer and the depacketiser always agree on what is the next *)
(* packet, the waiting fragments of an era have no hole, a number is right *)
(* or one cycle too high, and every unit handed to the application is a    *)
(* unit of the sender, whole and unmixed (strays and restarts excepted).   *)
THEOREM PathStaysIntact == VSpec => []PathIntact
<1>1. VInv => PathIntact
  <2> SUFFICES ASSUME VInv PROVE PathIntact
    OBVIOUS
  <2>1. VideoTypeOK
    <3>1. /\ last_extend_seq_ \in 0 .. (MaxCycles + 1) * RtpSeqMod - 1
          /\ DOMAIN pending = {} => last_extend_seq_ = output_seq_
      <4>1. last_extend_seq_ \in Nat /\ last_extend_seq_ < Total
        BY DEF VInv, Agreement
      <4>2. (MaxCycles + 1) * RtpSeqMod = Total
        BY DEF Total
      <4> QED BY <4>1, <4>2, TotalIs DEF VInv, Agreement
    <3>2. pack_report_age \in 0 .. PackReportGap + 1
      BY DEF VInv, Flags
    <3>3. \A i \in DOMAIN packets_queue_ : packets_queue_[i].age \in 0 .. PackTimeout
      <4>1. packets_queue_ \in Seq(Frags)
        BY DEF VInv, QueueOK
      <4>2. \A i \in DOMAIN packets_queue_ : packets_queue_[i] \in Frags
        BY <4>1
      <4> QED BY <4>2 DEF Frags
    <3>4. /\ \A k \in DOMAIN payload : payload[k] \in DOMAIN stream
          /\ \A k \in DOMAIN pending : pending[k] \in DOMAIN stream
      BY DEF VInv, Positions
    <3>5. DOMAIN waited = DOMAIN pending /\ \A k \in DOMAIN waited : waited[k] \in 0 .. AgeMax
      BY DEF VInv, Waits
    <3> QED BY <3>1, <3>2, <3>3, <3>4, <3>5 DEF VideoTypeOK
  <2>2. QueueContiguous
    <3>1. ~straggler => Adjacent(packets_queue_, src_units)
      BY DEF VInv, Known
    <3> QED BY <3>1 DEF QueueContiguous, Adjacent, EraOf, Era
  <2>3. ReceivedIntact
    BY DEF VInv
  <2>4. AtMostOneCycleHigh
    BY DEF VInv, Aligned, AtMostOneCycleHigh
  <2> QED BY <2>1, <2>2, <2>3, <2>4 DEF PathIntact
<1> QED BY <1>1, PathInductive, PTL

(* Behind a loss that was reported, nothing reaches the application before *)
(* a key frame does.                                                       *)
THEOREM GateStaysClosed == VSpec => GateHolds
<1>1. VInv /\ [VNext]_videoVars =>
        [damaged /\ ~muted =>
           \A i \in DOMAIN delivered' :
             \E j \in DOMAIN delivered' :
               j <= i /\ delivered'[j].type = "idr"]_videoVars
  BY VInvStep DEF GateStep
<1> QED BY <1>1, PathInductive, PTL DEF VSpec, GateHolds
=============================================================================
