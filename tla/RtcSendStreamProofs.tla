------------------------ MODULE RtcSendStreamProofs ------------------------
(***************************************************************************)
(* What the ring of sent packets holds, for every size of the ring and of  *)
(* the sequence-number space: the part of the proofs about RtcReport and   *)
(* NackLoop that is the sender's alone.  The arithmetic of numbers that    *)
(* wrap comes first; the provers know little of it.                        *)
(***************************************************************************)
EXTENDS RtcSendStream, TLAPS

(* Quotient and remainder.                                                 *)
LEMMA DivMod ==
  ASSUME NEW a \in Int, NEW n \in Nat \ {0}
  PROVE  /\ a % n \in 0 .. n - 1 /\ a \div n \in Int
         /\ a = n * (a \div n) + (a % n)
<1>1. a % n \in 0 .. n - 1 /\ a \div n \in Int
  OBVIOUS
<1>2. a % n = a - n * (a \div n)
  OBVIOUS
<1> DEFINE q == a \div n
           r == a % n
<1>3. q \in Int /\ r \in Int /\ r = a - n * q
  BY <1>1, <1>2
<1> HIDE DEF q, r
<1>4. a = n * q + r
  BY <1>3
<1>5. a = n * (a \div n) + (a % n)
  BY <1>4, Zenon DEF q, r
<1> QED BY <1>1, <1>5, Zenon

(* Multiples of n are at least n apart.                                    *)
LEMMA MulMono ==
  ASSUME NEW n \in Nat \ {0}, NEW p \in Int, NEW q \in Int, p < q
  PROVE  n * p + n <= n * q
<1>1. n * (q - p) >= n
  <2>1. q - p >= 1
    OBVIOUS
  <2> QED BY <2>1
<1>2. n * (q - p) = n * q - n * p
  OBVIOUS
<1> QED BY <1>1, <1>2

(* The only quotient and remainder there are.                              *)
LEMMA ModIs ==
  ASSUME NEW n \in Nat \ {0}, NEW q \in Int, NEW r \in 0 .. n - 1
  PROVE  (n * q + r) % n = r /\ (n * q + r) \div n = q
<1> DEFINE a == n * q + r
<1>0. a \in Int
  OBVIOUS
<1> HIDE DEF a
<1>1. a % n \in 0 .. n - 1 /\ a \div n \in Int /\ a = n * (a \div n) + (a % n)
  BY <1>0, DivMod
<1> DEFINE p == a \div n
           s == a % n
<1>2. n * p + s = n * q + r
  BY <1>1 DEF a
<1> HIDE DEF p, s
<1>3. p \in Int /\ s \in 0 .. n - 1
  BY <1>1 DEF p, s
<1>4. ~(p < q)
  <2>1. ASSUME p < q PROVE FALSE
    <3>1. n * p + n <= n * q
      BY <1>3, <2>1, MulMono
    <3>2. n * p \in Int /\ n * q \in Int
      BY <1>3
    <3> QED BY <1>2, <1>3, <3>1, <3>2
  <2> QED BY <2>1
<1>5. ~(q < p)
  <2>1. ASSUME q < p PROVE FALSE
    <3>1. n * q + n <= n * p
      BY <1>3, <2>1, MulMono
    <3>2. n * p \in Int /\ n * q \in Int
      BY <1>3
    <3> QED BY <1>2, <1>3, <3>1, <3>2
  <2> QED BY <2>1
<1>6. p = q
  BY <1>3, <1>4, <1>5
<1>7. s = r
  BY <1>2, <1>3, <1>6
<1> QED BY <1>6, <1>7 DEF a, p, s

(* A multiple of the modulus does not change the remainder.                *)
LEMMA ModShift ==
  ASSUME NEW n \in Nat \ {0}, NEW a \in Int, NEW k \in Int
  PROVE  (a + n * k) % n = a % n
<1>1. a % n \in 0 .. n - 1 /\ a \div n \in Int /\ a = n * (a \div n) + (a % n)
  BY DivMod
<1>2. (a \div n) + k \in Int
  BY <1>1
<1>3. a + n * k = n * ((a \div n) + k) + (a % n)
  <2> DEFINE q == a \div n
             r == a % n
  <2>1. q \in Int /\ r \in Int /\ a = n * q + r
    BY <1>1 DEF q, r
  <2> HIDE DEF q, r
  <2>2. a + n * k = n * (q + k) + r
    BY <2>1
  <2> QED BY <2>2, Zenon DEF q, r
<1> QED BY <1>1, <1>2, <1>3, ModIs

LEMMA ModCycle ==
  ASSUME NEW n \in Nat \ {0}, NEW a \in Int
  PROVE  (a + n) % n = a % n
<1>1. \A k \in Int : (a + n * k) % n = a % n
  BY ModShift
<1>2. 1 \in Int
  OBVIOUS
<1>3. (a + n * 1) % n = a % n
  BY <1>1, <1>2, Zenon
<1>4. a + n * 1 = a + n
  OBVIOUS
<1> QED BY <1>3, <1>4

(* Numbers with the same remainder differ by a multiple of the modulus.    *)
LEMMA ModEqual ==
  ASSUME NEW n \in Nat \ {0}, NEW a \in Int, NEW b \in Int, a % n = b % n
  PROVE  \E k \in Int : a = b + n * k
<1>1. a % n \in 0 .. n - 1 /\ a \div n \in Int /\ a = n * (a \div n) + (a % n)
  BY DivMod
<1>2. b \div n \in Int /\ b = n * (b \div n) + (b % n)
  BY DivMod
<1> DEFINE p == a \div n
           q == b \div n
           r == b % n
<1>3. p \in Int /\ q \in Int /\ r \in Int /\ a = n * p + r /\ b = n * q + r
  BY <1>1, <1>2
<1> HIDE DEF p, q, r
<1>4. a = b + n * (p - q) /\ p - q \in Int
  BY <1>3
<1> QED BY <1>4

(* Fewer than n apart, the same remainder means the same number.           *)
LEMMA ModInjective ==
  ASSUME NEW n \in Nat \ {0}, NEW a \in Int, NEW b \in Int, a % n = b % n,
         a < b + n, b < a + n
  PROVE  a = b
<1>1. PICK k \in Int : a = b + n * k
  BY ModEqual
<1>2. ~(k < 0)
  <2>1. k < 0 => n * k + n <= n * 0
    BY MulMono
  <2> QED BY <1>1, <2>1
<1>3. ~(0 < k)
  <2>1. 0 < k => n * 0 + n <= n * k
    BY MulMono
  <2> QED BY <1>1, <2>1
<1>4. k = 0
  BY <1>2, <1>3
<1> QED BY <1>1, <1>4

(* A remainder may be taken before a sum or a difference.                  *)
LEMMA ModAdd ==
  ASSUME NEW n \in Nat \ {0}, NEW a \in Int, NEW b \in Int
  PROVE  ((a % n) + b) % n = (a + b) % n
<1>1. a % n \in 0 .. n - 1 /\ a \div n \in Int /\ a = n * (a \div n) + (a % n)
  BY DivMod
<1>2. ((a % n) + b) \in Int /\ a + b = ((a % n) + b) + n * (a \div n)
  BY <1>1
<1> QED BY <1>1, <1>2, ModShift

LEMMA ModSub ==
  ASSUME NEW n \in Nat \ {0}, NEW a \in Int, NEW b \in Int
  PROVE  (b - (a % n)) % n = (b - a) % n
<1>1. a % n \in 0 .. n - 1 /\ a \div n \in Int /\ a = n * (a \div n) + (a % n)
  BY DivMod
<1>2. (b - (a % n)) \in Int /\ b - a = (b - (a % n)) + n * (0 - (a \div n))
  <2> DEFINE q == a \div n
             r == a % n
  <2>1. q \in Int /\ r \in Int /\ a = n * q + r
    BY <1>1
  <2> HIDE DEF q, r
  <2>2. (b - r) \in Int /\ b - a = (b - r) + n * (0 - q)
    BY <2>1
  <2> QED BY <2>2, Zenon DEF q, r
<1>3. 0 - (a \div n) \in Int
  BY <1>1
<1>4. ((b - (a % n)) + n * (0 - (a \div n))) % n = (b - (a % n)) % n
  BY <1>2, <1>3, ModShift
<1> QED BY <1>2, <1>4

(* A number below the modulus is its own remainder.                        *)
LEMMA ModSmall ==
  ASSUME NEW n \in Nat \ {0}, NEW a \in 0 .. n - 1
  PROVE  a % n = a
<1>1. (n * 0 + a) % n = a
  BY ModIs
<1>2. n * 0 + a = a
  OBVIOUS
<1> QED BY <1>1, <1>2

(* A modulus that divides another one.                                     *)
LEMMA ModMod ==
  ASSUME NEW n \in Nat \ {0}, NEW m \in Nat \ {0}, m % n = 0, NEW a \in Int
  PROVE  (a % m) % n = a % n
<1>1. a % m \in 0 .. m - 1 /\ a \div m \in Int /\ a = m * (a \div m) + (a % m)
  BY DivMod
<1>2. m \div n \in Int /\ m = n * (m \div n)
  BY DivMod
<1>3. m * (a \div m) = n * ((m \div n) * (a \div m))
  <2> DEFINE x == m \div n y == a \div m
  <2>1. x \in Int /\ y \in Int /\ m = n * x
    BY <1>1, <1>2
  <2> HIDE DEF x, y
  <2>2. m * y = n * (x * y)
    BY <2>1
  <2> QED BY <2>2 DEF x, y
<1>4. (m \div n) * (a \div m) \in Int /\ a % m \in Int
  BY <1>1, <1>2
<1>5. a = (a % m) + n * ((m \div n) * (a \div m))
  BY <1>1, <1>3, <1>4
<1> QED BY <1>4, <1>5, ModShift

-----------------------------------------------------------------------------
(* The slot of a position does not depend on the wrap of the number, since *)
(* the ring's size divides the number space.                               *)
LEMMA SlotOfPosition ==
  ASSUME NEW idx \in Int
  PROVE  /\ WireSeq(idx) \in 0 .. SendSeqMod - 1
         /\ Slot(WireSeq(idx)) = (FirstSeq + idx) % RingSize
         /\ Slot(WireSeq(idx)) \in 0 .. RingSize - 1
<1>1. FirstSeq + idx \in Int /\ SendSeqMod \in Nat \ {0} /\ RingSize \in Nat \ {0}
  BY SendConstants
<1>2. WireSeq(idx) \in 0 .. SendSeqMod - 1
  BY <1>1, DivMod DEF WireSeq
<1>3. Slot(WireSeq(idx)) = (FirstSeq + idx) % RingSize
  BY <1>1, SendConstants, ModMod DEF WireSeq, Slot
<1>4. (FirstSeq + idx) % RingSize \in 0 .. RingSize - 1
  BY <1>1, DivMod
<1> QED BY <1>2, <1>3, <1>4

(* Positions in one slot, and positions with one number, are a whole cycle *)
(* apart.                                                                  *)
LEMMA SameSlot ==
  ASSUME NEW i \in Int, NEW j \in Int, Slot(WireSeq(i)) = Slot(WireSeq(j)),
         i < j + RingSize, j < i + RingSize
  PROVE  i = j
<1>1. (FirstSeq + i) % RingSize = (FirstSeq + j) % RingSize
  BY SlotOfPosition
<1>2. FirstSeq + i \in Int /\ FirstSeq + j \in Int /\ RingSize \in Nat \ {0}
  BY SendConstants
<1>3. FirstSeq + i < (FirstSeq + j) + RingSize /\ FirstSeq + j < (FirstSeq + i) + RingSize
  BY SendConstants
<1>4. FirstSeq + i = FirstSeq + j
  BY <1>1, <1>2, <1>3, ModInjective
<1> QED BY <1>4, SendConstants

LEMMA SameNumber ==
  ASSUME NEW i \in Int, NEW j \in Int, WireSeq(i) = WireSeq(j),
         i < j + SendSeqMod, j < i + SendSeqMod
  PROVE  i = j
<1>1. (FirstSeq + i) % SendSeqMod = (FirstSeq + j) % SendSeqMod
  BY DEF WireSeq
<1>2. FirstSeq + i \in Int /\ FirstSeq + j \in Int /\ SendSeqMod \in Nat \ {0}
  BY SendConstants
<1>3. /\ FirstSeq + i < (FirstSeq + j) + SendSeqMod
      /\ FirstSeq + j < (FirstSeq + i) + SendSeqMod
  BY SendConstants
<1>4. FirstSeq + i = FirstSeq + j
  BY <1>1, <1>2, <1>3, ModInjective
<1> QED BY <1>4, SendConstants

LEMMA SlotPeriod ==
  ASSUME NEW idx \in Int
  PROVE  Slot(WireSeq(idx + RingSize)) = Slot(WireSeq(idx))
<1> DEFINE a == FirstSeq + idx
<1>1. a \in Int /\ idx + RingSize \in Int /\ RingSize \in Nat \ {0}
      /\ FirstSeq + (idx + RingSize) = a + RingSize
  BY SendConstants
<1>2. Slot(WireSeq(idx + RingSize)) = (FirstSeq + (idx + RingSize)) % RingSize
  <2> DEFINE b == idx + RingSize
  <2>1. b \in Int
    BY <1>1
  <2> HIDE DEF b
  <2>2. Slot(WireSeq(b)) = (FirstSeq + b) % RingSize
    BY <2>1, SlotOfPosition
  <2> QED BY <2>2, Zenon DEF b
<1>3. Slot(WireSeq(idx)) = a % RingSize
  BY SlotOfPosition
<1> HIDE DEF a
<1>4. (a + RingSize) % RingSize = a % RingSize
  BY <1>1, ModCycle
<1> QED BY <1>1, <1>2, <1>3, <1>4

(* The ring is never larger than the number space.                         *)
LEMMA RingFits == RingSize <= SendSeqMod
<1>1. SendSeqMod \in Nat \ {0} /\ RingSize \in Nat \ {0} /\ SendSeqMod % RingSize = 0
  BY SendConstants
<1>2. CASE SendSeqMod < RingSize
  <2>1. SendSeqMod \in 0 .. RingSize - 1
    BY <1>1, <1>2
  <2>2. SendSeqMod % RingSize = SendSeqMod
    BY <1>1, <2>1, ModSmall
  <2> QED BY <1>1, <2>2
<1> QED BY <1>1, <1>2

-----------------------------------------------------------------------------
Entries == [seq : Int, idx : Int, age : Int]

(* An entry is one of the last RingSize packets, in the slot of its own    *)
(* number.                                                                 *)
Held(i) ==
  LET e == send_buffer_[i]
  IN  e # NoPacket =>
        /\ NackEnable
        /\ e.idx \in 0 .. sent - 1 /\ sent - RingSize <= e.idx
        /\ e.seq = WireSeq(e.idx) /\ Slot(e.seq) = i

(* The slot of a packet holds it or a later one.                           *)
NotForgotten ==
  NackEnable => \A idx \in 0 .. sent - 1 : idx <= send_buffer_[Slot(WireSeq(idx))].idx

SendInv ==
  /\ sent \in Nat /\ seq_ = WireSeq(sent)
  /\ send_buffer_ \in [0 .. RingSize - 1 -> Entries]
  /\ \A i \in 0 .. RingSize - 1 : Held(i)
  /\ NotForgotten
  /\ interval \in Intervals /\ sr_age \in 0 .. SrGap + 1
  /\ sr \in BOOLEAN /\ sr_started \in BOOLEAN
  /\ OutIsCurrent

(* The invariant gives what the runs check.                                *)
LEMMA RingExact == SendInv => SendTypeOK /\ WindowRecoverable
<1> SUFFICES ASSUME SendInv PROVE SendTypeOK /\ WindowRecoverable
  OBVIOUS
<1>1. sent \in Int /\ RingSize \in Int /\ RingSize > 0
  BY SendConstants DEF SendInv
<1>2. SendTypeOK
  <2>1. seq_ \in 0 .. SendSeqMod - 1
    BY <1>1, SlotOfPosition DEF SendInv
  <2>2. ASSUME NEW i \in 0 .. RingSize - 1, send_buffer_[i] # NoPacket
        PROVE  send_buffer_[i].seq \in 0 .. SendSeqMod - 1 /\ send_buffer_[i].idx \in Nat
    <3>1. Held(i)
      BY DEF SendInv
    <3>2. send_buffer_[i].idx \in 0 .. sent - 1 /\ send_buffer_[i].seq = WireSeq(send_buffer_[i].idx)
      BY <2>2, <3>1 DEF Held
    <3> QED BY <1>1, <3>2, SlotOfPosition
  <2> QED BY <2>1, <2>2 DEF SendInv, SendTypeOK
<1>3. ASSUME NackEnable, NEW idx \in 0 .. sent - 1
      PROVE  LET p == send_buffer_[Slot(WireSeq(idx))]
             IN  IF idx >= sent - RingSize
                 THEN p.idx = idx /\ p.seq = WireSeq(idx)
                 ELSE p.idx > idx
  <2> DEFINE s == Slot(WireSeq(idx))
             e == send_buffer_[s]
  <2>1. idx \in Int /\ s \in 0 .. RingSize - 1
    BY <1>1, SlotOfPosition
  <2>2. idx <= e.idx
    BY <1>3 DEF SendInv, NotForgotten
  <2>3. Held(s)
    BY <2>1 DEF SendInv
  <2>4. e # NoPacket
    BY <1>1, <2>2 DEF NoPacket
  <2>5. /\ e.idx \in 0 .. sent - 1 /\ sent - RingSize <= e.idx
        /\ e.seq = WireSeq(e.idx) /\ Slot(e.seq) = s
    BY <2>3, <2>4 DEF Held
  <2> HIDE DEF e
  <2>6. CASE idx >= sent - RingSize
    <3>1. e.idx \in Int /\ e.idx < idx + RingSize /\ idx < e.idx + RingSize
      BY <1>1, <2>1, <2>2, <2>5, <2>6
    <3>2. Slot(WireSeq(e.idx)) = Slot(WireSeq(idx))
      BY <2>5 DEF s
    <3>3. e.idx = idx
      BY <2>1, <3>1, <3>2, SameSlot
    <3> QED BY <2>5, <2>6, <3>3 DEF e, s
  <2>7. CASE ~(idx >= sent - RingSize)
    <3>1. e.idx > idx
      BY <1>1, <2>1, <2>5, <2>7
    <3> QED BY <2>7, <3>1 DEF e, s
  <2> QED BY <2>6, <2>7
<1> QED BY <1>2, <1>3 DEF WindowRecoverable

-----------------------------------------------------------------------------
LEMMA SendInitInv == SendInit => SendInv
<1> SUFFICES ASSUME SendInit PROVE SendInv
  OBVIOUS
<1>1. sent = 0 /\ seq_ = FirstSeq /\ FirstSeq \in 0 .. SendSeqMod - 1
  BY SendConstants DEF SendInit
<1>2. WireSeq(0) = FirstSeq
  <2>1. FirstSeq + 0 = FirstSeq /\ SendSeqMod \in Nat \ {0}
    BY SendConstants
  <2> QED BY <1>1, <2>1, ModSmall DEF WireSeq
<1>3. NoPacket \in Entries
  BY DEF NoPacket, Entries
<1>4. /\ send_buffer_ \in [0 .. RingSize - 1 -> Entries]
      /\ \A i \in 0 .. RingSize - 1 : send_buffer_[i] = NoPacket
  BY <1>3 DEF SendInit
<1>5. \A i \in 0 .. RingSize - 1 : Held(i)
  BY <1>4 DEF Held
<1>6. NotForgotten
  BY <1>1 DEF NotForgotten
<1>7. interval \in Intervals /\ sr_age \in 0 .. SrGap + 1
  BY SendConstants DEF SendInit
<1>8. sr \in BOOLEAN /\ sr_started \in BOOLEAN
  BY Zenon DEF SendInit
<1>9. OutIsCurrent
  BY DEF SendInit, OutIsCurrent
<1> QED BY <1>1, <1>2, <1>4, <1>5, <1>6, <1>7, <1>8, <1>9 DEF SendInv

(* The number of a packet that is still to be sent.                        *)
LEMMA NumberAhead ==
  ASSUME sent \in Nat, seq_ = WireSeq(sent), NEW j \in Int
  PROVE  (seq_ + j) % SendSeqMod = WireSeq(sent + j)
<1> DEFINE a == FirstSeq + sent
<1>1. a \in Int /\ a + j = FirstSeq + (sent + j) /\ SendSeqMod \in Nat \ {0}
  BY SendConstants
<1>2. ((a % SendSeqMod) + j) % SendSeqMod = (a + j) % SendSeqMod
  <2> HIDE DEF a
  <2> QED BY <1>1, ModAdd
<1>3. seq_ = a % SendSeqMod
  BY DEF WireSeq
<1>4. WireSeq(sent + j) = (a + j) % SendSeqMod
  <2> HIDE DEF a
  <2> QED BY <1>1 DEF WireSeq
<1> HIDE DEF a
<1> QED BY <1>2, <1>3, <1>4

(* SaveBuffer puts the last of the n packets that belong in slot i there:  *)
(* k is its place among them.                                              *)
LEMMA SavedLast ==
  ASSUME SendInv, NackEnable, NEW n \in Nat, NEW i \in 0 .. RingSize - 1,
         NEW k0 \in 0 .. n - 1, Slot((seq_ + k0) % SendSeqMod) = i
  PROVE  \E k \in 0 .. n - 1 :
           /\ n - RingSize <= k /\ k0 <= k
           /\ Slot(WireSeq(sent + k)) = i
           /\ SaveBuffer(n)[i] = [seq |-> WireSeq(sent + k), idx |-> sent + k,
                                  age |-> NeverResent]
<1> DEFINE here == {j \in 0 .. n - 1 : Slot((seq_ + j) % SendSeqMod) = i}
           last == FirstSeq + sent + n - 1 - i
           k == n - 1 - (last % RingSize)
<1>1. /\ sent \in Nat /\ FirstSeq \in Nat /\ RingSize \in Nat \ {0}
      /\ SendSeqMod \in Nat \ {0} /\ i \in Int
  BY SendConstants DEF SendInv
<1>2. ASSUME NEW j \in Int
      PROVE  (seq_ + j) % SendSeqMod = WireSeq(sent + j)
  BY <1>2, NumberAhead DEF SendInv
<1>3. last \in Int /\ last % RingSize \in 0 .. RingSize - 1
  <2>1. last \in Int
    BY <1>1
  <2> QED BY <1>1, <2>1, DivMod
<1>4. k \in Int /\ n - RingSize <= k /\ k <= n - 1
  <2>1. last % RingSize \in Int /\ last % RingSize >= 0 /\ last % RingSize <= RingSize - 1
    BY <1>1, <1>3
  <2> HIDE DEF last
  <2> QED BY <1>1, <2>1
<1> HIDE DEF k
<1>5. Slot(WireSeq(sent + k)) = i
  <2>1. FirstSeq + (sent + k) = i + (last - (last % RingSize))
    BY <1>1, <1>3 DEF k, last
  <2> HIDE DEF last
  <2>2. last = RingSize * (last \div RingSize) + (last % RingSize) /\ last \div RingSize \in Int
    BY <1>1, <1>3, DivMod
  <2>3. FirstSeq + (sent + k) = i + RingSize * (last \div RingSize)
    <3> DEFINE q == last \div RingSize
               r == last % RingSize
    <3>1. q \in Int /\ r \in Int /\ last = RingSize * q + r
      BY <1>3, <2>2
    <3>2. FirstSeq + (sent + k) = i + (last - r)
      BY <2>1
    <3> HIDE DEF q, r
    <3>3. FirstSeq + (sent + k) = i + RingSize * q
      BY <1>1, <3>1, <3>2
    <3> QED BY <3>3 DEF q
  <2>4. (i + RingSize * (last \div RingSize)) % RingSize = i % RingSize
    BY <1>1, <2>2, ModShift
  <2>5. i % RingSize = i
    BY <1>1, ModSmall
  <2>6. sent + k \in Int
    BY <1>1, <1>4
  <2> QED BY <2>3, <2>4, <2>5, <2>6, SlotOfPosition
<1>6. ASSUME NEW j \in here PROVE j <= k
  <2>1. j \in 0 .. n - 1 /\ j \in Int /\ Slot(WireSeq(sent + j)) = i
    BY <1>2, <1>6
  <2>2. CASE k < j
    <3>1. /\ sent + j \in Int /\ sent + k \in Int
          /\ sent + j < (sent + k) + RingSize /\ sent + k < (sent + j) + RingSize
      BY <1>1, <1>4, <2>1, <2>2
    <3>2. sent + j = sent + k
      BY <1>5, <2>1, <3>1, SameSlot
    <3> QED BY <1>1, <1>4, <2>1, <2>2, <3>2
  <2> QED BY <1>4, <2>1, <2>2
<1>7. k0 \in here
  OBVIOUS
<1>8. k \in here /\ k \in 0 .. n - 1 /\ k0 <= k
  <2>1. k0 <= k
    BY <1>6, <1>7
  <2>2. k \in 0 .. n - 1
    BY <1>4, <2>1
  <2> QED BY <1>2, <1>4, <1>5, <2>1, <2>2
<1>9. (CHOOSE x \in here : \A j \in here : j <= x) = k
  <2> DEFINE c == CHOOSE x \in here : \A j \in here : j <= x
  <2>1. c \in here /\ \A j \in here : j <= c
    BY <1>6, <1>8
  <2> HIDE DEF c
  <2>2. c \in Int /\ c <= k /\ k <= c
    BY <1>6, <1>8, <2>1
  <2>3. c = k
    BY <1>4, <2>2
  <2> QED BY <2>3 DEF c
<1>10. SaveBuffer(n)[i] = [seq |-> (seq_ + k) % SendSeqMod, idx |-> sent + k,
                           age |-> NeverResent]
  <2>1. here # {}
    BY <1>7
  <2> HIDE DEF k
  <2>2. SaveBuffer(n)[i] =
          IF ~NackEnable \/ here = {} THEN send_buffer_[i]
          ELSE LET x == CHOOSE x \in here : \A j \in here : j <= x
               IN  [seq |-> (seq_ + x) % SendSeqMod, idx |-> sent + x, age |-> NeverResent]
    BY Zenon DEF SaveBuffer
  <2> HIDE DEF here
  <2> QED BY <1>9, <2>1, <2>2, Zenon
<1>11. (seq_ + k) % SendSeqMod = WireSeq(sent + k)
  BY <1>2, <1>4
<1> QED BY <1>4, <1>5, <1>8, <1>10, <1>11

(* A slot that none of the n packets belongs in is left as it is.          *)
LEMMA SavedElsewhere ==
  ASSUME NEW n \in Nat, NEW i \in 0 .. RingSize - 1,
         ~NackEnable \/ \A j \in 0 .. n - 1 : Slot((seq_ + j) % SendSeqMod) # i
  PROVE  SaveBuffer(n)[i] = send_buffer_[i]
BY DEF SaveBuffer

-----------------------------------------------------------------------------
(* Every operation of the sender keeps the invariant.                      *)
LEMMA SendVideoPacketInv ==
  ASSUME SendInv, NEW n \in 1 .. MaxBurst, SendVideoPacket(n)
  PROVE  SendInv'
<1>1. /\ sent \in Nat /\ n \in Nat \ {0} /\ n <= SendSeqMod /\ sent' = sent + n
      /\ RingSize \in Nat \ {0} /\ SendSeqMod \in Nat \ {0}
  BY SendConstants DEF SendInv, SendVideoPacket
<1>2. \A j \in Int : (seq_ + j) % SendSeqMod = WireSeq(sent + j)
  BY NumberAhead DEF SendInv
<1>3. sent' \in Nat /\ seq_' = WireSeq(sent')
  BY <1>1, <1>2 DEF SendVideoPacket
<1>4. send_buffer_' = SaveBuffer(n)
  BY DEF SendVideoPacket
<1>5. ASSUME NEW i \in 0 .. RingSize - 1
      PROVE  /\ send_buffer_'[i] \in Entries
             /\ Held(i)'
             /\ send_buffer_[i].idx <= send_buffer_'[i].idx
             /\ NackEnable => \A j \in 0 .. n - 1 :
                  Slot(WireSeq(sent + j)) = i => sent + j <= send_buffer_'[i].idx
  <2> DEFINE e == send_buffer_[i]
             f == send_buffer_'[i]
  <2>1. e \in Entries /\ Held(i)
    BY DEF SendInv
  <2>2. CASE NackEnable /\ \E j \in 0 .. n - 1 : Slot((seq_ + j) % SendSeqMod) = i
    <3>1. ASSUME NEW j \in 0 .. n - 1, Slot((seq_ + j) % SendSeqMod) = i
          PROVE  \E k \in 0 .. n - 1 :
                   /\ n - RingSize <= k /\ j <= k
                   /\ Slot(WireSeq(sent + k)) = i
                   /\ f = [seq |-> WireSeq(sent + k), idx |-> sent + k, age |-> NeverResent]
      <4>1. n \in Nat
        BY <1>1
      <4> QED BY <1>4, <2>2, <3>1, <4>1, SavedLast
    <3>2. PICK k \in 0 .. n - 1 :
            /\ n - RingSize <= k
            /\ Slot(WireSeq(sent + k)) = i
            /\ f = [seq |-> WireSeq(sent + k), idx |-> sent + k, age |-> NeverResent]
      BY <2>2, <3>1
    <3> HIDE DEF f
    <3>3. k \in Int /\ 0 <= k /\ k <= n - 1
      BY <1>1
    <3>4. f.idx = sent + k /\ f.seq = WireSeq(f.idx) /\ Slot(f.seq) = i /\ f \in Entries
      <4>1. WireSeq(sent + k) \in Int /\ sent + k \in Int /\ NeverResent \in Int
        BY <1>1, <3>3, SlotOfPosition DEF NeverResent
      <4> QED BY <3>2, <4>1 DEF Entries
    <3>5. f.idx \in 0 .. (sent' - 1) /\ sent' - RingSize <= f.idx
      BY <1>1, <3>2, <3>3, <3>4
    <3>6. Held(i)'
      BY <2>2, <3>4, <3>5 DEF Held, f, WireSeq, Slot
    <3>7. e.idx <= f.idx
      <4>1. e.idx \in Int /\ (e = NoPacket \/ e.idx <= sent - 1)
        BY <1>1, <2>1 DEF Held, Entries
      <4>2. e.idx <= sent - 1
        BY <1>1, <4>1 DEF NoPacket
      <4> QED BY <1>1, <3>3, <3>4, <4>1, <4>2
    <3>8. ASSUME NEW j \in 0 .. n - 1, Slot(WireSeq(sent + j)) = i
          PROVE  sent + j <= f.idx
      <4>0. j \in Int
        BY <1>1
      <4>1. Slot((seq_ + j) % SendSeqMod) = i
        BY <1>2, <3>8, <4>0
      <4>2. PICK m \in 0 .. n - 1 :
              j <= m /\ f = [seq |-> WireSeq(sent + m), idx |-> sent + m, age |-> NeverResent]
        BY <3>1, <4>1
      <4>3. f.idx = sent + m /\ m \in Int
        BY <1>1, <4>2
      <4> QED BY <1>1, <4>0, <4>2, <4>3
    <3> QED BY <3>4, <3>6, <3>7, <3>8 DEF f
  <2>3. CASE ~(NackEnable /\ \E j \in 0 .. n - 1 : Slot((seq_ + j) % SendSeqMod) = i)
    <3>1. f = e
      BY <1>1, <1>4, <2>3, SavedElsewhere
    <3>2. e.idx \in Int
      BY <2>1 DEF Entries
    <3>3. NackEnable => \A j \in 0 .. n - 1 : Slot(WireSeq(sent + j)) # i
      <4>1. \A j \in 0 .. n - 1 : j \in Int
        BY <1>1
      <4> QED BY <1>2, <2>3, <4>1
    <3>4. ASSUME f # NoPacket
          PROVE  /\ NackEnable
                 /\ f.idx \in 0 .. (sent' - 1) /\ sent' - RingSize <= f.idx
                 /\ f.seq = WireSeq(f.idx) /\ Slot(f.seq) = i
      <4>1. /\ NackEnable
            /\ e.idx \in 0 .. sent - 1 /\ sent - RingSize <= e.idx
            /\ e.seq = WireSeq(e.idx) /\ Slot(e.seq) = i
        BY <2>1, <3>1, <3>4 DEF Held
      <4>2. e.idx \in 0 .. (sent' - 1)
        BY <1>1, <4>1
      <4>3. sent' - RingSize <= e.idx
        <5>1. CASE e.idx < sent' - RingSize
          <6> DEFINE j == e.idx + RingSize - sent
          <6>1. j \in 0 .. n - 1 /\ sent + j = e.idx + RingSize
            BY <1>1, <4>1, <5>1
          <6>2. Slot(WireSeq(e.idx + RingSize)) = Slot(WireSeq(e.idx))
            <7>1. e.idx \in Int
              BY <1>1, <4>1
            <7> QED BY <7>1, SlotPeriod
          <6>3. Slot(WireSeq(sent + j)) = i
            BY <4>1, <6>1, <6>2
          <6> QED BY <3>3, <4>1, <6>1, <6>3
        <5> QED BY <1>1, <3>2, <5>1
      <4> QED BY <3>1, <4>1, <4>2, <4>3
    <3>5. Held(i)'
      BY <3>4 DEF Held, WireSeq, Slot
    <3> QED BY <2>1, <3>1, <3>2, <3>3, <3>5
  <2> QED BY <2>2, <2>3
<1>6. send_buffer_' \in [0 .. RingSize - 1 -> Entries]
  <2>1. DOMAIN send_buffer_' = 0 .. RingSize - 1
        /\ send_buffer_' = [i \in 0 .. RingSize - 1 |-> send_buffer_'[i]]
    BY <1>4 DEF SaveBuffer
  <2> QED BY <1>5, <2>1
<1>7. NotForgotten'
  <2> SUFFICES ASSUME NackEnable, NEW idx \in 0 .. sent' - 1
               PROVE  idx <= send_buffer_'[Slot(WireSeq(idx))].idx
    BY DEF NotForgotten, Slot, WireSeq
  <2> DEFINE i == Slot(WireSeq(idx))
  <2>1. idx \in Int /\ i \in 0 .. RingSize - 1
    BY <1>3, SlotOfPosition
  <2>2. send_buffer_[i].idx \in Int /\ send_buffer_'[i].idx \in Int
    BY <1>6, <2>1 DEF SendInv, Entries
  <2>3. CASE idx < sent
    <3>1. idx <= send_buffer_[i].idx
      BY <1>1, <2>1, <2>3 DEF SendInv, NotForgotten
    <3>2. send_buffer_[i].idx <= send_buffer_'[i].idx
      BY <1>5, <2>1
    <3> QED BY <2>1, <2>2, <3>1, <3>2
  <2>4. CASE ~(idx < sent)
    <3> DEFINE j == idx - sent
    <3>1. j \in 0 .. n - 1 /\ sent + j = idx
      BY <1>1, <2>1, <2>4
    <3> HIDE DEF j
    <3>2. sent + j <= send_buffer_'[i].idx
      BY <1>5, <2>1, <3>1
    <3> QED BY <3>1, <3>2
  <2> QED BY <2>3, <2>4
<1>8. interval' \in Intervals /\ sr_age' \in 0 .. SrGap + 1
  <2>1. sr_age' = 0 \/ sr_age' = sr_age
    BY DEF SendVideoPacket, FirstReport
  <2> QED BY <2>1, SendConstants DEF SendInv, SendVideoPacket
<1>9. sr' \in BOOLEAN /\ sr_started' \in BOOLEAN
  BY Zenon DEF SendVideoPacket, FirstReport
<1>10. OutIsCurrent'
  <2> SUFFICES ASSUME NEW p \in out'
               PROVE  /\ p.seq = WireSeq(p.idx) /\ p.idx < sent'
                      /\ \A j \in p.idx + 1 .. sent' - 1 : WireSeq(j) # p.seq
    BY DEF OutIsCurrent, WireSeq
  <2>1. PICK k \in 0 .. n - 1 :
          p = [seq |-> (seq_ + k) % SendSeqMod, idx |-> sent + k, rtx |-> FALSE]
    BY DEF SendVideoPacket
  <2>2. k \in Int /\ 0 <= k /\ k <= n - 1
    BY <1>1
  <2>3. p.idx = sent + k /\ p.seq = WireSeq(sent + k)
    BY <1>2, <2>1, <2>2
  <2>4. ASSUME NEW j \in p.idx + 1 .. sent' - 1, WireSeq(j) = p.seq PROVE FALSE
    <3>1. /\ j \in Int /\ sent + k \in Int /\ sent + k < j
          /\ j < (sent + k) + SendSeqMod /\ sent + k < j + SendSeqMod
      BY <1>1, <2>2, <2>3
    <3>2. j = sent + k
      BY <2>3, <2>4, <3>1, SameNumber
    <3> QED BY <3>1, <3>2
  <2> QED BY <1>1, <2>2, <2>3, <2>4
<1> QED BY <1>3, <1>5, <1>6, <1>7, <1>8, <1>9, <1>10 DEF SendInv, WireSeq

(* A step that leaves number, position and place of every entry alone.     *)
LEMMA SameEntriesInv ==
  ASSUME SendInv, UNCHANGED <<seq_, sent>>,
         send_buffer_' \in [0 .. RingSize - 1 -> Entries],
         \A i \in 0 .. RingSize - 1 :
           send_buffer_'[i] = send_buffer_[i] \/
           (send_buffer_[i] # NoPacket
              /\ send_buffer_'[i].seq = send_buffer_[i].seq
              /\ send_buffer_'[i].idx = send_buffer_[i].idx),
         interval' \in Intervals, sr_age' \in 0 .. SrGap + 1,
         sr' \in BOOLEAN, sr_started' \in BOOLEAN, OutIsCurrent'
  PROVE  SendInv'
<1>1. ASSUME NEW i \in 0 .. RingSize - 1 PROVE Held(i)'
  <2>1. Held(i)
    BY DEF SendInv
  <2> QED BY <2>1 DEF Held, WireSeq, Slot
<1>2. \A i \in 0 .. RingSize - 1 : send_buffer_'[i].idx = send_buffer_[i].idx
  OBVIOUS
<1>3. NotForgotten'
  <2> SUFFICES ASSUME NackEnable, NEW idx \in 0 .. sent' - 1
               PROVE  idx <= send_buffer_'[Slot(WireSeq(idx))].idx
    BY DEF NotForgotten, Slot, WireSeq
  <2>1. idx \in 0 .. sent - 1 /\ idx \in Int
    BY DEF SendInv
  <2>2. Slot(WireSeq(idx)) \in 0 .. RingSize - 1
    BY <2>1, SlotOfPosition
  <2> QED BY <1>2, <2>1, <2>2 DEF SendInv, NotForgotten
<1>4. sent' \in Nat /\ seq_' = WireSeq(sent')
  BY DEF SendInv
<1>5. \A i \in 0 .. RingSize - 1 : Held(i)'
  BY <1>1
<1> QED BY <1>3, <1>4, <1>5 DEF SendInv, WireSeq

(* A NACK, whatever numbers it names, is answered with current packets.    *)
LEMMA HandleRtcpNackInv ==
  ASSUME SendInv, NEW seqs, HandleRtcpNack(seqs), seqs \subseteq Int
  PROVE  SendInv'
<1> DEFINE resend == {s \in seqs : NackEnable /\ Answerable(s)}
           slots == {Slot(s) : s \in resend}
<1>1. /\ sent \in Nat /\ RingSize \in Nat \ {0}
      /\ send_buffer_ \in [0 .. RingSize - 1 -> Entries]
  BY SendConstants DEF SendInv
<1>2. ASSUME NEW i \in slots
      PROVE  /\ i \in 0 .. RingSize - 1 /\ send_buffer_[i] # NoPacket
  <2>1. PICK s \in resend : i = Slot(s)
    OBVIOUS
  <2>2. s \in Int
    OBVIOUS
  <2>3. i \in 0 .. RingSize - 1
    BY <1>1, <2>1, <2>2, DivMod DEF Slot
  <2> QED BY <2>1, <2>3 DEF Answerable
<1>3. send_buffer_' = [i \in 0 .. RingSize - 1 |->
                         IF i \in slots THEN [send_buffer_[i] EXCEPT !.age = 0]
                         ELSE send_buffer_[i]]
  BY DEF HandleRtcpNack
<1>4. out' = {[seq |-> send_buffer_[i].seq, idx |-> send_buffer_[i].idx, rtx |-> HasRtx]
                : i \in slots}
  BY DEF HandleRtcpNack
<1> HIDE DEF slots
<1>5. ASSUME NEW i \in 0 .. RingSize - 1
      PROVE  /\ send_buffer_'[i] \in Entries
             /\ send_buffer_'[i] = send_buffer_[i] \/
                (send_buffer_[i] # NoPacket
                   /\ send_buffer_'[i].seq = send_buffer_[i].seq
                   /\ send_buffer_'[i].idx = send_buffer_[i].idx)
  <2>1. send_buffer_[i] \in Entries
    BY <1>1
  <2>2. CASE i \in slots
    <3>1. send_buffer_'[i] = [send_buffer_[i] EXCEPT !.age = 0]
      BY <1>3, <2>2
    <3> QED BY <1>2, <2>1, <2>2, <3>1 DEF Entries
  <2>3. CASE i \notin slots
    <3>1. send_buffer_'[i] = send_buffer_[i]
      BY <1>3, <2>3
    <3> QED BY <2>1, <3>1
  <2> QED BY <2>2, <2>3
<1>6. send_buffer_' \in [0 .. RingSize - 1 -> Entries]
  <2>1. send_buffer_' = [i \in 0 .. RingSize - 1 |-> send_buffer_'[i]]
    BY <1>3
  <2> QED BY <1>5, <2>1
<1>7. OutIsCurrent'
  <2> SUFFICES ASSUME NEW p \in out'
               PROVE  /\ p.seq = WireSeq(p.idx) /\ p.idx < sent'
                      /\ \A j \in p.idx + 1 .. sent' - 1 : WireSeq(j) # p.seq
    BY DEF OutIsCurrent, WireSeq
  <2>1. PICK i \in slots :
          p = [seq |-> send_buffer_[i].seq, idx |-> send_buffer_[i].idx, rtx |-> HasRtx]
    BY <1>4
  <2>2. i \in 0 .. RingSize - 1 /\ send_buffer_[i] # NoPacket /\ Held(i)
    BY <1>2 DEF SendInv
  <2>3. /\ p.idx \in 0 .. sent - 1 /\ sent - RingSize <= p.idx /\ p.seq = WireSeq(p.idx)
    BY <2>1, <2>2 DEF Held
  <2>4. sent' = sent
    BY DEF HandleRtcpNack
  <2>5. ASSUME NEW j \in p.idx + 1 .. sent' - 1, WireSeq(j) = p.seq PROVE FALSE
    <3>1. /\ j \in Int /\ p.idx \in Int /\ p.idx < j
          /\ j < p.idx + SendSeqMod /\ p.idx < j + SendSeqMod
      BY <1>1, <2>3, <2>4, RingFits, SendConstants
    <3>2. j = p.idx
      BY <2>3, <2>5, <3>1, SameNumber
    <3> QED BY <3>1, <3>2
  <2> QED BY <1>1, <2>3, <2>4, <2>5
<1>8. UNCHANGED <<seq_, sent, interval, sr_age, sr_started>> /\ sr' = FALSE
  BY DEF HandleRtcpNack
<1>9. interval' \in Intervals /\ sr_age' \in 0 .. SrGap + 1
  BY <1>8 DEF SendInv
<1>10. sr' \in BOOLEAN /\ sr_started' \in BOOLEAN
  BY <1>8, Zenon DEF SendInv
<1> QED BY <1>5, <1>6, <1>7, <1>8, <1>9, <1>10, SameEntriesInv

LEMMA HandleRtcpRrInv ==
  ASSUME SendInv, NEW i \in Intervals, HandleRtcpRr(i)
  PROVE  SendInv'
<1>1. UNCHANGED <<seq_, sent, send_buffer_, sr_age, sr_started>>
      /\ interval' \in Intervals /\ sr' = FALSE /\ out' = {}
  BY DEF HandleRtcpRr
<1>2. sr' \in BOOLEAN /\ sr_started' \in BOOLEAN
  BY <1>1, Zenon DEF SendInv
<1>3. send_buffer_' \in [0 .. RingSize - 1 -> Entries] /\ sr_age' \in 0 .. SrGap + 1
  BY <1>1 DEF SendInv
<1>4. OutIsCurrent'
  BY <1>1 DEF OutIsCurrent
<1> QED BY <1>1, <1>2, <1>3, <1>4, SameEntriesInv

LEMMA SendOnTimerInv ==
  ASSUME SendInv, SendOnTimer
  PROVE  SendInv'
<1>1. /\ UNCHANGED <<seq_, sent, send_buffer_, interval>> /\ out' = {}
      /\ sr' = (sr_age > SrGap) /\ sr_started' = (sr_started \/ sr')
      /\ sr_age' = IF sr' THEN 0 ELSE sr_age
  BY DEF SendOnTimer
<1>2. sr' \in BOOLEAN /\ sr_started' \in BOOLEAN
  BY <1>1, SMT DEF SendInv
<1>3. /\ send_buffer_' \in [0 .. RingSize - 1 -> Entries] /\ sr_age' \in 0 .. SrGap + 1
      /\ interval' \in Intervals
  <2>1. sr_age' = 0 \/ sr_age' = sr_age
    BY <1>1
  <2> QED BY <1>1, <2>1, SendConstants DEF SendInv
<1>4. OutIsCurrent'
  BY <1>1 DEF OutIsCurrent
<1> QED BY <1>1, <1>2, <1>3, <1>4, SameEntriesInv

LEMMA SendTickInv ==
  ASSUME SendInv, SendTick
  PROVE  SendInv'
<1>1. /\ UNCHANGED <<seq_, sent, interval, sr_started>> /\ out' = {} /\ sr' = FALSE
      /\ sr_age' = IF sr_age > SrGap THEN sr_age ELSE sr_age + 1
      /\ send_buffer_' = [i \in 0 .. RingSize - 1 |->
           [send_buffer_[i] EXCEPT !.age = IF 0 <= @ /\ @ < AgeCap THEN @ + 1 ELSE @]]
  BY DEF SendTick
<1>2. sr' \in BOOLEAN /\ sr_started' \in BOOLEAN
  BY <1>1, Zenon DEF SendInv
<1>3. sr_age' \in 0 .. SrGap + 1 /\ interval' \in Intervals
  BY <1>1, SendConstants DEF SendInv
<1>4. ASSUME NEW i \in 0 .. RingSize - 1
      PROVE  /\ send_buffer_'[i] \in Entries
             /\ send_buffer_'[i] = send_buffer_[i] \/
                (send_buffer_[i] # NoPacket
                   /\ send_buffer_'[i].seq = send_buffer_[i].seq
                   /\ send_buffer_'[i].idx = send_buffer_[i].idx)
  <2> DEFINE e == send_buffer_[i]
             a == IF 0 <= e.age /\ e.age < AgeCap THEN e.age + 1 ELSE e.age
  <2>1. e \in Entries
    BY DEF SendInv
  <2>2. send_buffer_'[i] = [e EXCEPT !.age = a]
    BY <1>1
  <2>3. a \in Int /\ (e = NoPacket => a = e.age)
    BY <2>1 DEF Entries, NoPacket
  <2> HIDE DEF a, e
  <2>4. [e EXCEPT !.age = a] \in Entries /\ [e EXCEPT !.age = a].seq = e.seq
        /\ [e EXCEPT !.age = a].idx = e.idx /\ (a = e.age => [e EXCEPT !.age = a] = e)
    BY <2>1, <2>3 DEF Entries
  <2> QED BY <2>2, <2>3, <2>4 DEF e
<1>5. send_buffer_' \in [0 .. RingSize - 1 -> Entries]
  <2>1. send_buffer_' = [i \in 0 .. RingSize - 1 |-> send_buffer_'[i]]
    BY <1>1
  <2> QED BY <1>4, <2>1
<1>6. OutIsCurrent'
  BY <1>1 DEF OutIsCurrent
<1> QED BY <1>1, <1>2, <1>3, <1>4, <1>5, <1>6, SameEntriesInv

LEMMA SendUnchangedInv ==
  ASSUME SendInv, UNCHANGED sendVars
  PROVE  SendInv'
BY DEF SendInv, sendVars, Held, NotForgotten, OutIsCurrent, WireSeq, Slot
=============================================================================
