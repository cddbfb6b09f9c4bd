--------------------------- MODULE NackLoopProofs ---------------------------
(***************************************************************************)
(* The list of missing packets is exact and its feedback makes progress,   *)
(* for every size of the number space, ring, round trip and list: proofs   *)
(* about NackLoop, on top of what RtcSendStreamProofs says of the sender.  *)
(***************************************************************************)
EXTENDS NackLoop, RtcSendStreamProofs, FiniteSetTheorems

-----------------------------------------------------------------------------
(* Numbers less than half a cycle apart.                                   *)

LEMMA HalfBound ==
  /\ Half \in Nat /\ 2 * Half <= NackSeqMod - 1
  /\ NackSeqMod = SendSeqMod /\ SendSeqMod \in Nat \ {0}
  /\ Window \in Nat /\ Window - 1 <= Half /\ RingSize <= Window
<1>1. NackSeqMod - 1 \in Int /\ 2 \in Nat \ {0} /\ NackSeqMod \in Nat
  BY NackConstants
<1> DEFINE m == NackSeqMod - 1
<1>2. m \in Int /\ 0 < m
  BY NackConstants
<1> HIDE DEF m
<1>3. m % 2 \in 0 .. 1 /\ m \div 2 \in Int /\ m = 2 * (m \div 2) + (m % 2)
  BY <1>1, <1>2, DivMod
<1>4. Half = m \div 2
  BY DEF Half, m
<1> HIDE DEF Half
<1>5. Half \in Nat /\ 2 * Half <= m
  BY <1>2, <1>3, <1>4
<1> QED BY <1>1, <1>5, LoopAssumption, SendConstants DEF m

(* The number of a later packet: ahead, or a cycle less than ahead.        *)
LEMMA WireAhead ==
  ASSUME NEW i \in Int, NEW j \in Int, i <= j, j - i < SendSeqMod
  PROVE  /\ WireSeq(i) \in 0 .. SendSeqMod - 1 /\ WireSeq(j) \in 0 .. SendSeqMod - 1
         /\ \/ WireSeq(j) = WireSeq(i) + (j - i)
            \/ WireSeq(j) = WireSeq(i) + (j - i) - SendSeqMod
<1> DEFINE n == SendSeqMod
           e == FirstSeq + i
           a == e % n
           d == j - i
<1>1. n \in Nat \ {0} /\ e \in Int /\ d \in 0 .. n - 1 /\ FirstSeq + j = e + d
  BY SendConstants
<1>2. WireSeq(i) = a /\ WireSeq(j) = (e + d) % n
  BY <1>1 DEF WireSeq
<1> HIDE DEF n, e, d
<1>3. a \in 0 .. n - 1
  BY <1>1, DivMod
<1>4. (a + d) % n = (e + d) % n
  <2>1. ((e % n) + d) % n = (e + d) % n
    <3>1. d \in Int
      BY <1>1
    <3> QED BY <1>1, <3>1, ModAdd
  <2> QED BY <2>1 DEF a
<1> HIDE DEF a
<1>5. CASE a + d < n
  <2>1. a + d \in 0 .. n - 1
    BY <1>1, <1>3, <1>5
  <2>2. (a + d) % n = a + d
    BY <1>1, <2>1, ModSmall
  <2> QED BY <1>2, <1>3, <1>4, <2>1, <2>2 DEF n, d
<1>6. CASE ~(a + d < n)
  <2> DEFINE r == a + d - n
  <2>1. r \in 0 .. n - 1 /\ r \in Int /\ r + n = a + d
    BY <1>1, <1>3, <1>6
  <2>2. (r + n) % n = r % n /\ r % n = r
    BY <1>1, <2>1, ModCycle, ModSmall
  <2>3. (a + d) % n = r
    BY <2>1, <2>2
  <2> QED BY <1>2, <1>3, <1>4, <2>1, <2>3 DEF n, d
<1> QED BY <1>5, <1>6

(* SeqLowerThan orders two packets that are less than half a cycle apart.  *)
LEMMA OrderByNumber ==
  ASSUME NEW i \in Int, NEW j \in Int, i < j, j - i <= Half
  PROVE  /\ SeqLowerThan(WireSeq(i), WireSeq(j))
         /\ ~SeqLowerThan(WireSeq(j), WireSeq(i))
         /\ WireSeq(i) # WireSeq(j)
<1> DEFINE a == WireSeq(i)
           b == WireSeq(j)
           d == j - i
<1>1. d \in Int /\ 0 < d /\ d <= Half /\ d < SendSeqMod /\ i <= j
  BY HalfBound
<1>2. /\ a \in 0 .. SendSeqMod - 1 /\ b \in 0 .. SendSeqMod - 1
      /\ b = a + d \/ b = a + d - SendSeqMod
  BY <1>1, WireAhead
<1> HIDE DEF a, b, d
<1>3. SeqLowerThan(a, b) /\ ~SeqLowerThan(b, a) /\ a # b
  <2> HIDE DEF Half
  <2> QED BY <1>1, <1>2, HalfBound DEF SeqLowerThan
<1> QED BY <1>3 DEF a, b

(* What the loop of UpdateNackList lists: the packets between, or none at  *)
(* all when it starts before the wrap and ends behind it.                  *)
LEMMA SkippedBetween ==
  ASSUME NEW i \in Int, NEW j \in Int, i < j, j - i <= Half
  PROVE  /\ \A s \in Skipped(WireSeq(i), WireSeq(j)) :
              \E k \in i + 1 .. j - 1 : WireSeq(k) = s
         /\ ~(WireSeq(i) > WireSeq(j) /\ WireSeq(i + 1) # 0) =>
              \A k \in i + 1 .. j - 1 : WireSeq(k) \in Skipped(WireSeq(i), WireSeq(j))
<1> DEFINE a == WireSeq(i)
           b == WireSeq(j)
           d == j - i
           n == SendSeqMod
<1>1. d \in Int /\ 0 < d /\ d < n /\ i <= j /\ n \in Nat \ {0}
  BY HalfBound
<1>2. /\ a \in 0 .. n - 1 /\ b \in 0 .. n - 1
      /\ b = a + d \/ b = a + d - n
  BY <1>1, WireAhead
<1>3. \A k \in i .. j : /\ WireSeq(k) \in 0 .. n - 1
                        /\ WireSeq(k) = a + (k - i) \/ WireSeq(k) = a + (k - i) - n
  <2> TAKE k \in i .. j
  <2>1. k \in Int /\ i <= k /\ k - i < n
    BY <1>1
  <2> QED BY <2>1, WireAhead
<1>4. Skipped(a, b) = {s \in 0 .. n - 1 : (a + 1) % n <= s /\ s < b}
  BY HalfBound DEF Skipped, NackSeqs
<1>5. (a + 1) % n = IF a = n - 1 THEN 0 ELSE a + 1
  <2>1. CASE a = n - 1
    <3>1. 0 \in 0 .. n - 1 /\ a + 1 = 0 + n /\ 0 \in Int
      BY <1>1, <2>1
    <3>2. (0 + n) % n = 0 % n /\ 0 % n = 0
      BY <1>1, <3>1, ModCycle, ModSmall
    <3> QED BY <2>1, <3>1, <3>2
  <2>2. CASE a # n - 1
    <3>1. a + 1 \in 0 .. n - 1
      BY <1>1, <1>2, <2>2
    <3> QED BY <1>1, <2>2, <3>1, ModSmall
  <2> QED BY <2>1, <2>2
<1> HIDE DEF a, b
<1>6. ASSUME NEW s \in Skipped(a, b) PROVE \E k \in i + 1 .. j - 1 : WireSeq(k) = s
  <2>1. s \in 0 .. n - 1 /\ s < b /\ (IF a = n - 1 THEN 0 ELSE a + 1) <= s
    BY <1>4, <1>5, <1>6
  <2>2. CASE b = a + d
    <3> DEFINE k == i + (s - a)
    <3>1. k \in i + 1 .. j - 1 /\ k \in i .. j /\ k - i = s - a
      BY <1>1, <1>2, <2>1, <2>2
    <3>2. WireSeq(k) = s
      BY <1>1, <1>2, <1>3, <2>1, <3>1
    <3> QED BY <3>1, <3>2
  <2>3. CASE b = a + d - n
    <3> DEFINE k == i + 1 + s
    <3>1. a = n - 1
      BY <1>1, <1>2, <2>1, <2>3
    <3>2. k \in i + 1 .. j - 1 /\ k \in i .. j /\ k - i = 1 + s
      BY <1>1, <1>2, <2>1, <2>3, <3>1
    <3>3. WireSeq(k) = s
      BY <1>1, <1>2, <1>3, <2>1, <3>1, <3>2
    <3> QED BY <3>2, <3>3
  <2> QED BY <1>2, <2>2, <2>3
<1>7. ASSUME ~(a > b /\ WireSeq(i + 1) # 0), NEW k \in i + 1 .. j - 1
      PROVE  WireSeq(k) \in Skipped(a, b)
  <2>1. /\ WireSeq(k) \in 0 .. n - 1 /\ k \in Int /\ i + 1 <= k /\ k <= j - 1
        /\ WireSeq(k) = a + (k - i) \/ WireSeq(k) = a + (k - i) - n
    BY <1>1, <1>3
  <2>2. CASE b = a + d
    BY <1>1, <1>2, <1>4, <1>5, <2>1, <2>2
  <2>3. CASE b = a + d - n
    <3>1. i + 1 \in i .. j /\ a > b
      BY <1>1, <1>2, <2>3
    <3>2. WireSeq(i + 1) = 0
      BY <1>7, <3>1
    <3>3. a = n - 1
      BY <1>1, <1>2, <1>3, <3>1, <3>2
    <3> QED BY <1>1, <1>2, <1>4, <1>5, <2>1, <2>3, <3>3
  <2> QED BY <1>2, <2>2, <2>3
<1> QED BY <1>6, <1>7 DEF a, b

-----------------------------------------------------------------------------
(* The order of the list, and what the message built from it asks for.     *)

LEMMA RankOrders ==
  ASSUME NEW S, IsFiniteSet(S), S \subseteq Int
  PROVE  /\ Cardinality(S) \in Nat
         /\ \A s \in S : Rank(S, s) \in 1 .. Cardinality(S)
         /\ \A s, t \in S : s < t => Rank(S, s) < Rank(S, t)
<1> DEFINE Upto(s) == {t \in S : t <= s}
<1>1. Cardinality(S) \in Nat
  BY FS_CardinalityType
<1>2. \A s : IsFiniteSet(Upto(s)) /\ Cardinality(Upto(s)) \in Nat
             /\ Cardinality(Upto(s)) <= Cardinality(S)
  <2> TAKE s
  <2>1. Upto(s) \in SUBSET S
    OBVIOUS
  <2> QED BY <2>1, FS_Subset, FS_CardinalityType
<1>3. ASSUME NEW s \in S PROVE Rank(S, s) \in 1 .. Cardinality(S)
  <2>1. s \in Upto(s)
    OBVIOUS
  <2>2. Cardinality(Upto(s)) # 0
    BY <1>2, <2>1, FS_EmptySet
  <2>3. Rank(S, s) = Cardinality(Upto(s))
    BY DEF Rank
  <2> HIDE DEF Upto
  <2> QED BY <1>1, <1>2, <2>2, <2>3
<1>4. ASSUME NEW s \in S, NEW t \in S, s < t PROVE Rank(S, s) < Rank(S, t)
  <2>1. Upto(s) \in SUBSET Upto(t)
    <3>1. \A u \in S : u <= s => u <= t
      BY <1>4
    <3> QED BY <3>1
  <2>2. t \in Upto(t) /\ t \notin Upto(s)
    BY <1>4
  <2>3. Rank(S, s) = Cardinality(Upto(s)) /\ Rank(S, t) = Cardinality(Upto(t))
    BY DEF Rank
  <2> HIDE DEF Upto
  <2>4. Cardinality(Upto(s)) <= Cardinality(Upto(t))
        /\ Cardinality(Upto(s)) # Cardinality(Upto(t))
    <3>1. IsFiniteSet(Upto(t)) /\ Upto(s) # Upto(t)
      BY <1>2, <2>2
    <3>2. Cardinality(Upto(s)) <= Cardinality(Upto(t))
          /\ (Cardinality(Upto(t)) = Cardinality(Upto(s)) => Upto(t) = Upto(s))
      BY <2>1, <3>1, FS_Subset
    <3> QED BY <3>1, <3>2
  <2> QED BY <1>2, <2>3, <2>4
<1> QED BY <1>1, <1>3, <1>4

LEMMA SortedList ==
  ASSUME NEW S, IsFiniteSet(S), S \subseteq Int
  PROVE  /\ Sorted(S) \in [1 .. Cardinality(S) -> S]
         /\ \A k \in 1 .. Cardinality(S) : Rank(S, Sorted(S)[k]) = k
         /\ Len(Sorted(S)) = Cardinality(S)
<1> DEFINE n == Cardinality(S)
           f == [s \in S |-> Rank(S, s)]
<1>1. /\ n \in Nat
      /\ \A s \in S : Rank(S, s) \in 1 .. n
      /\ \A s, t \in S : s < t => Rank(S, s) < Rank(S, t)
  BY RankOrders
<1>2. IsFiniteSet(1 .. n) /\ Cardinality(1 .. n) = n
  <2>1. 1 \in Int /\ n \in Int
    BY <1>1
  <2> HIDE DEF n
  <2>2. IsFiniteSet(1 .. n) /\ Cardinality(1 .. n) = IF 1 > n THEN 0 ELSE n - 1 + 1
    BY <2>1, FS_Interval
  <2> QED BY <1>1, <2>2
<1>3. f \in [S -> 1 .. n]
  BY <1>1
<1>4. \A s, t \in S : f[s] = f[t] => s = t
  <2> SUFFICES ASSUME NEW s \in S, NEW t \in S, s # t PROVE f[s] # f[t]
    OBVIOUS
  <2>1. s \in Int /\ t \in Int /\ (s < t \/ t < s)
    OBVIOUS
  <2>2. Rank(S, s) \in Int /\ Rank(S, t) \in Int
    BY <1>1
  <2>3. Rank(S, s) # Rank(S, t)
    BY <1>1, <2>1, <2>2
  <2> QED BY <2>3
<1> HIDE DEF n
<1>5. f \in Injection(S, 1 .. n)
  BY <1>3, <1>4 DEF Injection, IsInjective
<1>6. f \in Surjection(S, 1 .. n)
  BY <1>2, <1>5, FS_Injection DEF n
<1>7. \A k \in 1 .. n : \E s \in S : Rank(S, s) = k
  BY <1>6 DEF Surjection
<1>8. \A k \in 1 .. n : Sorted(S)[k] \in S /\ Rank(S, Sorted(S)[k]) = k
  BY <1>7 DEF Sorted, n
<1>9. Sorted(S) = [k \in 1 .. n |-> CHOOSE s \in S : Rank(S, s) = k]
  BY DEF Sorted, n
<1>10. Sorted(S) \in [1 .. n -> S]
  BY <1>8, <1>9
<1>11. Len(Sorted(S)) = n
  BY <1>1, <1>10
<1> QED BY <1>8, <1>10, <1>11 DEF n

LEMMA LowestFirst ==
  ASSUME NEW S, IsFiniteSet(S), S \subseteq Int, S # {}
  PROVE  /\ 1 \in 1 .. Cardinality(S) /\ Sorted(S)[1] = LowestOf(S)
         /\ \E m \in S : \A t \in S : m <= t
<1> DEFINE s == Sorted(S)[1]
<1>1. 1 \in 1 .. Cardinality(S)
  BY FS_CardinalityType, FS_EmptySet
<1>2. s \in S /\ Rank(S, s) = 1
  BY <1>1, SortedList
<1> HIDE DEF s
<1>3. \A t \in S : s <= t
  <2> TAKE t \in S
  <2>1. Rank(S, t) \in Int /\ 1 <= Rank(S, t) /\ (t < s => Rank(S, t) < Rank(S, s))
    <3>1. /\ \A u \in S : Rank(S, u) \in 1 .. Cardinality(S)
          /\ \A u, v \in S : u < v => Rank(S, u) < Rank(S, v)
          /\ Cardinality(S) \in Nat
      BY RankOrders
    <3> QED BY <1>2, <3>1
  <2> QED BY <1>2, <2>1
<1>4. \A t \in S : (\A u \in S : t <= u) => t = s
  BY <1>2, <1>3
<1>5. LowestOf(S) = s
  BY <1>2, <1>3, <1>4 DEF LowestOf
<1> QED BY <1>1, <1>2, <1>3, <1>5 DEF s

(* A block ends within the list.                                           *)
LEMMA BlockEnds ==
  ASSUME NEW S, S \subseteq Int, NEW n \in Nat, NEW list \in [1 .. n -> S],
         Len(list) = n, NEW j \in 1 .. n
  PROVE  CloseAt(list, j) \in j .. n
<1> DEFINE T == {i \in j .. n : list[i] - list[j] > MaskBits}
<1>1. CASE T = {}
  BY <1>1 DEF CloseAt
<1>2. CASE T # {}
  <2>1. IsFiniteSet(T) /\ T \subseteq Int
    <3>1. j \in Int /\ n \in Int /\ T \in SUBSET (j .. n) /\ T \subseteq Int
      OBVIOUS
    <3>2. IsFiniteSet(j .. n)
      BY <3>1, FS_Interval
    <3> HIDE DEF T
    <3>3. IsFiniteSet(T)
      BY <3>1, <3>2, FS_Subset
    <3> QED BY <3>1, <3>3
  <2>2. PICK m \in T : \A i \in T : m <= i
    <3> HIDE DEF T
    <3> QED BY <1>2, <2>1, LowestFirst
  <2>3. \A k \in j .. m - 1 : list[k] - list[j] <= MaskBits
    <3> TAKE k \in j .. m - 1
    <3>1. m \in j .. n /\ k \in j .. n /\ k < m
      OBVIOUS
    <3>2. k \notin T
      BY <2>1, <2>2, <3>1
    <3>3. list[k] \in S /\ list[j] \in S
      BY <3>1
    <3>4. list[k] \in Int /\ list[j] \in Int
      BY <3>3
    <3> QED BY <3>1, <3>2, <3>4, NackConstants
  <2> QED BY <1>2, <2>2, <2>3 DEF CloseAt
<1> QED BY <1>1, <1>2

(* The message names numbers only, and the lowest of those asked for.      *)
LEMMA MessageAsks ==
  ASSUME NEW S, S \subseteq NackSeqs, NEW stray \in Strays(S)
  PROVE  /\ Requests(S, stray) \subseteq NackSeqs
         /\ S # {} => LowestOf(S) \in Requests(S, stray)
<1> DEFINE list == Sorted(S)
<1>1. IsFiniteSet(S) /\ S \subseteq Int /\ NackSeqMod \in Nat \ {0} /\ MaskBits \in Nat
  <2>1. NackSeqMod \in Nat \ {0} /\ MaskBits \in Nat /\ 0 \in Int /\ NackSeqMod - 1 \in Int
    BY NackConstants
  <2>2. IsFiniteSet(NackSeqs) /\ NackSeqs \subseteq Int
    BY <2>1, FS_Interval DEF NackSeqs
  <2> QED BY <2>1, <2>2, FS_Subset
<1>2. /\ list \in [1 .. Cardinality(S) -> S] /\ Len(list) = Cardinality(S)
      /\ Cardinality(S) \in Nat
  BY <1>1, SortedList, FS_CardinalityType
<1>3. Requests(S, stray) = UNION {GetLostSeqs(list[j], Bitmap(list, j, stray)) :
                                    j \in BlockStarts(list)}
  BY DEF Requests
<1>4. stray \in [{j \in BlockStarts(list) : Overflows(list, j)} ->
                   {{}} \cup {{b} : b \in Bits}]
  BY DEF Strays
<1>5. BlockStarts(list) \subseteq 1 .. Cardinality(S)
  BY <1>2 DEF BlockStarts
<1> HIDE DEF list
<1>6. ASSUME NEW j \in BlockStarts(list)
      PROVE  GetLostSeqs(list[j], Bitmap(list, j, stray)) \subseteq NackSeqs
  <2>1. list[j] \in NackSeqs /\ list[j] \in Int
    BY <1>1, <1>2, <1>5
  <2>2. \A b \in Bitmap(list, j, stray) : b \in Int
    <3>1. j \in 1 .. Cardinality(S) /\ CloseAt(list, j) \in j .. Cardinality(S)
      BY <1>1, <1>2, <1>5, BlockEnds
    <3>2. \A d \in Deltas(list, j) : d \in Int
      <4>1. \A i \in j + 1 .. CloseAt(list, j) : list[i] \in S
        BY <1>2, <3>1
      <4>2. \A i \in j + 1 .. CloseAt(list, j) : list[i] - list[j] \in Int
        <5> TAKE i \in j + 1 .. CloseAt(list, j)
        <5>1. list[i] \in Int
          BY <1>1, <4>1, Zenon
        <5> QED BY <2>1, <5>1
      <4> QED BY <4>2 DEF Deltas
    <3>3. Overflows(list, j) => \A b \in stray[j] : b \in Int
      BY <1>1, <1>4, <1>6 DEF Bits
    <3> QED BY <1>1, <3>2, <3>3 DEF Bitmap
  <2>3. \A b \in Int : (list[j] + 1 + b) % NackSeqMod \in NackSeqs
    <3> TAKE b \in Int
    <3> DEFINE x == list[j] + 1 + b
    <3>1. x \in Int
      BY <2>1
    <3> HIDE DEF x
    <3>2. x % NackSeqMod \in 0 .. NackSeqMod - 1
      BY <1>1, <3>1, DivMod
    <3> QED BY <3>2 DEF x, NackSeqs
  <2> QED BY <2>1, <2>2, <2>3 DEF GetLostSeqs
<1>7. ASSUME S # {} PROVE LowestOf(S) \in Requests(S, stray)
  <2>1. 1 \in 1 .. Cardinality(S) /\ list[1] = LowestOf(S)
    BY <1>1, <1>7, LowestFirst DEF list
  <2>2. 1 \in BlockStarts(list)
    BY <1>2, <2>1 DEF BlockStarts
  <2>3. list[1] \in GetLostSeqs(list[1], Bitmap(list, 1, stray))
    BY DEF GetLostSeqs
  <2> QED BY <1>3, <2>1, <2>2, <2>3
<1> QED BY <1>3, <1>6, <1>7

-----------------------------------------------------------------------------
(* The inductive invariant.  A number on the list stands for one packet,   *)
(* sent, not arrived and behind the newest: so a late packet finds its own *)
(* entry, and a packet ahead finds none of its own.                        *)
ListType ==
  /\ DOMAIN nack_map_ \subseteq NackSeqs
  /\ nack_map_ \in [DOMAIN nack_map_ -> [age : 0 .. Rtt, retry : 0 .. RetryMax + 1]]

HighestIs(h) == h \in rcvd /\ \A j \in rcvd : j <= h

ArrivedInv ==
  /\ rcvd = {} => ~nack_init_ /\ first = -1
  /\ rcvd # {} => /\ nack_init_ /\ first \in Nat
                  /\ \E h \in rcvd : HighestIs(h) /\ last_seq_ = WireSeq(h)

ListedBehind ==
  \A s \in DOMAIN nack_map_ :
    \E i \in Recent : WireSeq(i) = s /\ i \notin rcvd /\ i < Highest

LoopInv ==
  /\ SendInv
  /\ net \subseteq Recent /\ rcvd \subseteq Recent /\ req \subseteq NackSeqs
  /\ ListType /\ ArrivedInv /\ ListedBehind /\ HolesAreListed

LEMMA GreatestIs ==
  ASSUME NEW R \in SUBSET Int, NEW h \in R, \A j \in R : j <= h
  PROVE  (CHOOSE i \in R : \A j \in R : j <= i) = h
<1>1. \A i \in R : (\A j \in R : j <= i) => i = h
  OBVIOUS
<1> QED BY <1>1

LEMMA HighestValue ==
  ASSUME rcvd \subseteq Int, NEW h, HighestIs(h)
  PROVE  Highest = h /\ rcvd # {}
BY GreatestIs DEF Highest, HighestIs

(* Two packets in the window never share a number.                         *)
LEMMA OnePosition ==
  ASSUME sent \in Nat, NEW i \in Recent, NEW j \in Recent
  PROVE  /\ i \in Nat /\ j \in Nat /\ i - j <= Half /\ j - i <= Half
         /\ i < sent /\ j < sent
         /\ WireSeq(i) = WireSeq(j) => i = j
<1>1. /\ i \in Nat /\ j \in Nat /\ i < sent /\ j < sent /\ i \in Int /\ j \in Int
      /\ sent - Window <= i /\ sent - Window <= j
  BY DEF Positions, Recent
<1>2. i - j <= Half /\ j - i <= Half
  <2> HIDE DEF Half
  <2> QED BY <1>1, HalfBound
<1>3. WireSeq(i) = WireSeq(j) => i = j
  <2>1. i < j => WireSeq(i) # WireSeq(j)
    BY <1>1, <1>2, OrderByNumber
  <2>2. j < i => WireSeq(j) # WireSeq(i)
    BY <1>1, <1>2, OrderByNumber
  <2> QED BY <1>1, <2>1, <2>2
<1> QED BY <1>1, <1>2, <1>3

(* The positions on the list: those in the window whose number is listed.  *)
LEMMA ListedIs ==
  \A i : i \in Listed <=> i \in Recent /\ WireSeq(i) \in DOMAIN nack_map_
BY DEF Listed, PositionOf

(* The window as a set of integers.                                        *)
LEMMA RecentIs ==
  ASSUME sent \in Nat
  PROVE  \A i : i \in Recent <=>
            i \in Int /\ 0 <= i /\ i < sent /\ sent - Window <= i
BY DEF Recent, Positions

(* The invariant gives what the run checks.                                *)
LEMMA InvExact == LoopInv => ListExact
<1> SUFFICES ASSUME LoopInv PROVE ListExact
  OBVIOUS
<1>1. LoopTypeOK
  <2>1. \A s \in DOMAIN nack_map_ : nack_map_[s] \in [age : 0 .. Rtt, retry : 0 .. RetryMax + 1]
    BY DEF LoopInv, ListType
  <2>2. \A s \in DOMAIN nack_map_ :
          nack_map_[s].age \in 0 .. Rtt /\ nack_map_[s].retry \in 0 .. RetryMax + 1
    BY <2>1
  <2> QED BY <2>2 DEF LoopInv, ListType, LoopTypeOK
<1>2. ListedIsMissing
  <2> SUFFICES ASSUME NEW s \in DOMAIN nack_map_
               PROVE  PositionOf(s) # {} /\ PositionOf(s) \cap rcvd = {}
    BY DEF ListedIsMissing
  <2>1. PICK i \in Recent : WireSeq(i) = s /\ i \notin rcvd
    BY DEF LoopInv, ListedBehind
  <2>2. sent \in Nat
    BY DEF LoopInv, SendInv
  <2>3. \A j \in Recent : WireSeq(j) = s => j = i
    BY <2>1, <2>2, OnePosition
  <2> QED BY <2>1, <2>3 DEF PositionOf
<1> QED BY <1>1, <1>2 DEF LoopInv, ListExact

LEMMA LoopInit == Init => LoopInv
<1> SUFFICES ASSUME Init PROVE LoopInv
  OBVIOUS
<1>1. SendInv
  BY SendInitInv DEF Init
<1>2. sent = 0 /\ net = {} /\ req = {} /\ rcvd = {} /\ first = -1
      /\ nack_init_ = FALSE /\ DOMAIN nack_map_ = {}
      /\ nack_map_ = [s \in {} |-> 0]
  BY SendConstants DEF Init, SendInit, NackInit
<1>3. ListType
  BY <1>2 DEF ListType
<1>4. ArrivedInv /\ ListedBehind
  BY <1>2 DEF ArrivedInv, ListedBehind
<1>5. HolesAreListed
  BY <1>2 DEF HolesAreListed
<1> QED BY <1>1, <1>2, <1>3, <1>4, <1>5 DEF LoopInv

LEMMA NewHighest ==
  ASSUME rcvd' \subseteq Int, NEW h, h \in rcvd', \A j \in rcvd' : j <= h
  PROVE  Highest' = h /\ HighestIs(h)'
<1>1. rcvd' # {}
  OBVIOUS
<1>2. (CHOOSE i \in rcvd' : \A j \in rcvd' : j <= i) = h
  BY GreatestIs
<1> QED BY <1>1, <1>2 DEF Highest, HighestIs

(* Steps without a packet sent or arrived that leave the names alone.      *)
LEMMA SameNames ==
  ASSUME LoopInv, DOMAIN nack_map_' = DOMAIN nack_map_,
         UNCHANGED <<sent, nack_init_, last_seq_, rcvd, first, wrapLost, gaveUp>>
  PROVE  ArrivedInv' /\ ListedBehind' /\ HolesAreListed' /\ rcvd' \subseteq Recent'
<1>1. Recent' = Recent /\ Highest' = Highest
  BY DEF Recent, Positions, Highest
<1>2. \A i : i \in Listed' <=> i \in Listed
  BY <1>1 DEF Listed, PositionOf
<1>3. ArrivedInv'
  BY DEF LoopInv, ArrivedInv, HighestIs
<1>4. ListedBehind'
  BY <1>1 DEF LoopInv, ListedBehind
<1>5. HolesAreListed'
  BY <1>1, <1>2 DEF LoopInv, HolesAreListed
<1> QED BY <1>1, <1>3, <1>4, <1>5 DEF LoopInv

(* The window moves on, and nothing in play falls out of it.               *)
LEMMA SendStep ==
  ASSUME LoopInv, NEW n \in 1 .. MaxBurst, Send(n)
  PROVE  LoopInv'
<1>1. SendInv' /\ sent \in Nat /\ n \in Nat /\ 0 < n /\ Window \in Nat
  BY SendVideoPacketInv, SendConstants, LoopAssumption DEF LoopInv, SendInv, Send
<1>2. /\ sent' = sent + n /\ sent' \in Nat /\ sent' - Window <= sent
      /\ \A i \in InPlay : sent' - Window <= i
  BY <1>1 DEF Send, SendVideoPacket
<1>3. /\ UNCHANGED <<nack_init_, last_seq_, nack_map_, req, first>>
      /\ rcvd' = rcvd \cap Recent' /\ gaveUp' = gaveUp \cap Recent'
      /\ wrapLost' = wrapLost \cap Recent'
  BY DEF Send, nackVars
<1>4. \A i : i \in Recent' <=>
        i \in Int /\ 0 <= i /\ i < sent' /\ sent' - Window <= i
  BY <1>2 DEF Recent, Positions
<1>5. \A i : i \in Recent <=>
        i \in Int /\ 0 <= i /\ i < sent /\ sent - Window <= i
  BY <1>1, RecentIs
<1>6. \A i \in Recent : sent' - Window <= i => i \in Recent'
  BY <1>1, <1>2, <1>4, <1>5
<1>7. \A i \in net : i \in Recent'
  BY <1>2, <1>6 DEF InPlay, LoopInv
<1>8. \A i \in Listed : i \in Recent'
  <2>1. \A i \in Listed : i \in Recent
    BY ListedIs
  <2> QED BY <1>2, <1>6, <2>1 DEF InPlay
<1>9. net' \subseteq Recent'
  <2>1. \A p \in out' : p.idx \in Recent'
    <3> SUFFICES ASSUME NEW k \in 0 .. n - 1
                 PROVE  [seq |-> (seq_ + k) % SendSeqMod, idx |-> sent + k, rtx |-> FALSE].idx
                          \in Recent'
      BY DEF Send, SendVideoPacket
    <3>1. sent + k \in Recent'
      BY <1>1, <1>2, <1>4
    <3> QED BY <3>1
  <2>2. net' = net \cup Flying
    BY DEF Send
  <2> QED BY <1>7, <2>1, <2>2 DEF Flying
<1>10. CASE rcvd = {}
  <2>1. rcvd' = {} /\ DOMAIN nack_map_ = {} /\ first = -1
    <3>1. first = -1 /\ ~(\E i \in Recent : i < Highest)
      BY <1>5, <1>10 DEF LoopInv, ArrivedInv, Highest
    <3> QED BY <1>3, <1>10, <3>1 DEF LoopInv, ListedBehind
  <2>2. ArrivedInv'
    BY <1>3, <1>10, <2>1 DEF LoopInv, ArrivedInv
  <2>3. ListedBehind' /\ HolesAreListed'
    BY <1>3, <2>1 DEF ListedBehind, HolesAreListed
  <2> QED BY <1>1, <1>3, <1>9, <2>1, <2>2, <2>3 DEF LoopInv, ListType
<1>11. CASE rcvd # {}
  <2>1. PICK h \in rcvd : HighestIs(h) /\ last_seq_ = WireSeq(h)
    BY <1>11 DEF LoopInv, ArrivedInv
  <2>2. rcvd \subseteq Int /\ h \in Recent
    BY <1>5, <2>1 DEF LoopInv
  <2>3. Highest = h
    BY <2>1, <2>2, HighestValue
  <2>4. h \in rcvd'
    <3>1. h \in InPlay
      BY <2>1, <2>3 DEF InPlay
    <3> QED BY <1>2, <1>3, <1>6, <2>2, <3>1
  <2>5. Highest' = h /\ HighestIs(h)'
    <3>1. rcvd' \subseteq Int /\ \A j \in rcvd' : j <= h
      BY <1>3, <2>1, <2>2 DEF HighestIs
    <3> QED BY <2>4, <3>1, NewHighest
  <2>6. ArrivedInv'
    BY <1>3, <1>11, <2>1, <2>4, <2>5 DEF LoopInv, ArrivedInv
  <2>7. ListedBehind'
    <3> SUFFICES ASSUME NEW s \in DOMAIN nack_map_
                 PROVE  \E i \in Recent' : WireSeq(i) = s /\ i \notin rcvd' /\ i < h
      BY <1>3, <2>5 DEF ListedBehind
    <3>1. PICK i \in Recent : WireSeq(i) = s /\ i \notin rcvd /\ i < h
      BY <2>3 DEF LoopInv, ListedBehind
    <3>2. i \in Listed
      BY <3>1, ListedIs
    <3> QED BY <1>3, <1>8, <3>1, <3>2
  <2>8. HolesAreListed'
    <3> SUFFICES ASSUME NEW i \in Recent', first < i, i < h, first # -1,
                        i \notin rcvd' \cup gaveUp' \cup wrapLost'
                 PROVE  i \in Listed'
      BY <1>3, <2>5 DEF HolesAreListed
    <3>1. i \in Recent
      BY <1>1, <1>2, <1>4, <1>5, <2>2
    <3>2. i \in Listed
      BY <1>3, <2>3, <3>1 DEF LoopInv, HolesAreListed
    <3>3. WireSeq(i) \in DOMAIN nack_map_
      BY <3>2, ListedIs
    <3> QED BY <1>3, <3>3 DEF Listed, PositionOf
  <2> QED BY <1>1, <1>3, <1>9, <2>6, <2>7, <2>8 DEF LoopInv, ListType
<1> QED BY <1>10, <1>11

LEMMA LoseStep ==
  ASSUME LoopInv, [(\E i \in net : Lose(i)) \/ LoseNack]_loopVars
  PROVE  LoopInv'
<1>1. /\ UNCHANGED sendVars /\ UNCHANGED nackVars
      /\ UNCHANGED <<rcvd, first, wrapLost, gaveUp>>
      /\ net' \subseteq net /\ req' \subseteq req
  BY DEF Lose, LoseNack, loopVars
<1>2. SendInv' /\ sent' = sent /\ sent \in Nat
  BY <1>1, SendUnchangedInv DEF LoopInv, SendInv, sendVars
<1>3. UNCHANGED <<nack_init_, last_seq_, nack_map_>>
  BY <1>1 DEF nackVars
<1>4. ArrivedInv' /\ ListedBehind' /\ HolesAreListed' /\ rcvd' \subseteq Recent'
  BY <1>1, <1>2, <1>3, SameNames
<1>5. net' \subseteq Recent' /\ req' \subseteq NackSeqs
  BY <1>1, <1>2 DEF LoopInv, Recent, Positions
<1> QED BY <1>2, <1>3, <1>4, <1>5 DEF LoopInv, ListType

LEMMA ArriveNackStep ==
  ASSUME LoopInv, ArriveNack
  PROVE  LoopInv'
<1>1. req \subseteq Int /\ NackSeqMod \in Nat /\ RingSize \in Nat \ {0}
  BY NackConstants, SendConstants DEF LoopInv, NackSeqs
<1>2. SendInv' /\ sent' = sent /\ sent \in Nat
  BY <1>1, HandleRtcpNackInv DEF LoopInv, SendInv, ArriveNack, HandleRtcpNack
<1>3. /\ UNCHANGED <<nack_init_, last_seq_, nack_map_, rcvd, first, wrapLost, gaveUp>>
      /\ req' = {} /\ net' = net \cup Flying
  BY DEF ArriveNack, nackVars
<1>4. ArrivedInv' /\ ListedBehind' /\ HolesAreListed' /\ rcvd' \subseteq Recent'
  BY <1>2, <1>3, SameNames
<1>5. \A p \in out' : p.idx \in Recent
  <2> SUFFICES ASSUME NEW s \in req, Answerable(s)
               PROVE  send_buffer_[Slot(s)].idx \in Recent
    BY DEF ArriveNack, HandleRtcpNack
  <2>1. Slot(s) \in 0 .. RingSize - 1
    <3>1. s \in Int
      BY <1>1
    <3> QED BY <1>1, <3>1, DivMod DEF Slot
  <2>2. send_buffer_[Slot(s)] # NoPacket
    BY DEF Answerable
  <2> DEFINE x == send_buffer_[Slot(s)].idx
  <2>3. x \in 0 .. sent - 1 /\ sent - RingSize <= x
    BY <2>1, <2>2 DEF LoopInv, SendInv, Held
  <2> HIDE DEF x
  <2>4. x \in Recent
    <3>1. Window \in Nat /\ RingSize <= Window
      BY LoopAssumption
    <3> QED BY <1>1, <1>2, <2>3, <3>1 DEF Recent, Positions
  <2> QED BY <2>4 DEF x
<1>6. net' \subseteq Recent'
  <2>1. Recent' = Recent
    BY <1>2 DEF Recent, Positions
  <2> QED BY <1>3, <1>5, <2>1 DEF Flying, LoopInv
<1> QED BY <1>2, <1>3, <1>4, <1>6 DEF LoopInv, ListType

LEMMA TickStep ==
  ASSUME LoopInv, Tick
  PROVE  LoopInv'
<1>1. SendInv' /\ sent' = sent /\ sent \in Nat
  BY SendTickInv DEF LoopInv, SendInv, Tick, SendTick
<1>2. /\ UNCHANGED <<nack_init_, last_seq_, rcvd, first, wrapLost, gaveUp, net, req>>
      /\ nack_map_' = [s \in DOMAIN nack_map_ |->
           [nack_map_[s] EXCEPT !.age = IF @ < Rtt THEN @ + 1 ELSE @]]
  BY DEF Tick, NackTick
<1>3. ArrivedInv' /\ ListedBehind' /\ HolesAreListed' /\ rcvd' \subseteq Recent'
  BY <1>1, <1>2, SameNames
<1>4. ListType'
  <2> DEFINE Entry == [age : 0 .. Rtt, retry : 0 .. RetryMax + 1]
             Older(e) == [e EXCEPT !.age = IF @ < Rtt THEN @ + 1 ELSE @]
  <2>1. \A e \in Entry : Older(e) \in Entry
    <3> TAKE e \in Entry
    <3>1. e.age \in 0 .. Rtt /\ e.retry \in 0 .. RetryMax + 1
      OBVIOUS
    <3>2. Rtt \in Nat
      BY NackConstants
    <3>3. (IF e.age < Rtt THEN e.age + 1 ELSE e.age) \in 0 .. Rtt
      BY <3>1, <3>2
    <3> QED BY <3>1, <3>3
  <2>2. nack_map_ \in [DOMAIN nack_map_ -> Entry] /\ DOMAIN nack_map_ \subseteq NackSeqs
    BY DEF LoopInv, ListType
  <2>3. nack_map_' = [s \in DOMAIN nack_map_ |-> Older(nack_map_[s])]
    BY <1>2
  <2> HIDE DEF Entry, Older
  <2>4. nack_map_' \in [DOMAIN nack_map_ -> Entry] /\ DOMAIN nack_map_' = DOMAIN nack_map_
    BY <2>1, <2>2, <2>3
  <2> QED BY <2>2, <2>4 DEF ListType, Entry
<1>5. net' \subseteq Recent' /\ req' \subseteq NackSeqs
  BY <1>1, <1>2 DEF LoopInv, Recent, Positions
<1> QED BY <1>1, <1>2, <1>3, <1>4, <1>5 DEF LoopInv

(* The timer drops numbers; the history records every one of them.         *)
LEMMA NackTimerStep ==
  ASSUME LoopInv, NackTimer
  PROVE  LoopInv' /\ (Due # {} /\ Fits(Due) => LowestOf(Due) \in req')
<1> DEFINE Entry == [age : 0 .. Rtt, retry : 0 .. RetryMax + 1]
<1>1. UNCHANGED sendVars /\ UNCHANGED <<nack_init_, last_seq_, net, rcvd, first, wrapLost>>
  BY DEF NackTimer, NackOnTimer
<1>2. SendInv' /\ sent' = sent /\ sent \in Nat
  BY <1>1, SendUnchangedInv DEF LoopInv, SendInv, sendVars
<1>3. Recent' = Recent /\ Highest' = Highest
  BY <1>1, <1>2 DEF Recent, Positions, Highest
<1>4. nack_map_ \in [DOMAIN nack_map_ -> Entry] /\ DOMAIN nack_map_ \subseteq NackSeqs
  BY DEF LoopInv, ListType
<1>5. Due \subseteq Kept /\ Kept \subseteq DOMAIN nack_map_ /\ Trimmed(Kept) \subseteq Kept
  BY DEF Due, Kept, Trimmed
<1>6. DOMAIN nack_map_' = Trimmed(Kept)
  BY DEF NackTimer, NackOnTimer
<1>7. ListType'
  <2>1. \A s \in Trimmed(Kept) : nack_map_'[s] \in Entry
    <3> TAKE s \in Trimmed(Kept)
    <3>1. nack_map_[s] \in Entry /\ nack_map_[s].retry <= RetryMax
      BY <1>4, <1>5 DEF Kept
    <3>2. nack_map_[s].retry + 1 \in 0 .. RetryMax + 1 /\ 0 \in 0 .. Rtt
      BY <3>1, NackConstants
    <3>3. [age |-> 0, retry |-> nack_map_[s].retry + 1] \in Entry
      BY <3>2
    <3>4. nack_map_'[s] = IF s \in Due THEN [age |-> 0, retry |-> nack_map_[s].retry + 1]
                          ELSE nack_map_[s]
      BY DEF NackTimer, NackOnTimer
    <3> HIDE DEF Entry
    <3> QED BY <3>1, <3>3, <3>4
  <2>2. nack_map_' = [s \in Trimmed(Kept) |-> nack_map_'[s]]
    <3> DEFINE g(s) == IF s \in Due THEN [age |-> 0, retry |-> nack_map_[s].retry + 1]
                       ELSE nack_map_[s]
    <3>1. nack_map_' = [s \in Trimmed(Kept) |-> g(s)]
      BY DEF NackTimer, NackOnTimer
    <3> HIDE DEF g
    <3> QED BY <3>1
  <2> HIDE DEF Entry
  <2>3. nack_map_' \in [Trimmed(Kept) -> Entry]
    BY <2>1, <2>2
  <2> QED BY <1>4, <1>5, <1>6, <2>3 DEF ListType, Entry
<1>8. ArrivedInv'
  BY <1>1 DEF LoopInv, ArrivedInv, HighestIs
<1>9. ListedBehind'
  BY <1>1, <1>3, <1>5, <1>6 DEF LoopInv, ListedBehind
<1>10. HolesAreListed'
  <2> SUFFICES ASSUME NEW i \in Recent, first # -1, first < i, i < Highest,
                      i \notin rcvd \cup gaveUp' \cup wrapLost
               PROVE  i \in Listed'
    BY <1>1, <1>3 DEF HolesAreListed
  <2>1. gaveUp' = gaveUp \cup
          UNION {PositionOf(s) : s \in DOMAIN nack_map_ \ DOMAIN nack_map_'}
    BY DEF NackTimer
  <2>2. i \in Listed
    BY <2>1 DEF LoopInv, HolesAreListed
  <2>3. WireSeq(i) \in DOMAIN nack_map_
    BY <2>2, ListedIs
  <2>4. i \in PositionOf(WireSeq(i)) /\ i \in PositionOf(WireSeq(i))'
    BY <1>3 DEF PositionOf
  <2>5. WireSeq(i) \in DOMAIN nack_map_'
    BY <2>1, <2>3, <2>4
  <2> QED BY <2>4, <2>5 DEF Listed
<1>11. PICK asked \in Feedback(Due) : req' = req \cup asked
  BY DEF NackTimer
<1>12. Due \subseteq NackSeqs
  BY <1>4, <1>5
<1>13. /\ asked \subseteq NackSeqs
       /\ Due # {} /\ Fits(Due) => LowestOf(Due) \in asked
  <2>1. CASE Fits(Due)
    <3>1. PICK stray \in Strays(Due) : asked = Requests(Due, stray)
      BY <2>1 DEF Feedback
    <3> QED BY <1>12, <3>1, MessageAsks
  <2>2. CASE ~Fits(Due)
    BY <2>2 DEF Feedback
  <2> QED BY <2>1, <2>2
<1>14. req' \subseteq NackSeqs /\ (Due # {} /\ Fits(Due) => LowestOf(Due) \in req')
  BY <1>11, <1>13 DEF LoopInv
<1> QED BY <1>1, <1>2, <1>3, <1>7, <1>8, <1>9, <1>10, <1>14 DEF LoopInv

-----------------------------------------------------------------------------
(* An arrival: the first packet, the newest again, a late one, one ahead.  *)

(* What the list names behind a step that sends nothing.                   *)
LEMMA ListedNext ==
  ASSUME Recent' = Recent
  PROVE  \A i \in Recent : WireSeq(i) \in DOMAIN nack_map_' => i \in Listed'
BY DEF Listed, PositionOf

LEMMA ArriveFirst ==
  ASSUME LoopInv, NEW i \in Recent, NEW copy, Arrive(i, copy), rcvd = {}
  PROVE  ListType' /\ ArrivedInv' /\ ListedBehind' /\ HolesAreListed'
<1>1. ~nack_init_ /\ first = -1 /\ i \in Nat /\ sent \in Nat
  BY DEF LoopInv, SendInv, ArrivedInv, Recent, Positions
<1>2. /\ nack_init_' /\ last_seq_' = WireSeq(i) /\ nack_map_' = nack_map_
  BY <1>1 DEF Arrive, UpdateNackList, NackFirst, NackRepeated, NackLate, NackAhead
<1>3. rcvd' = {i} /\ first' = i /\ sent' = sent
  BY <1>1 DEF Arrive, sendVars
<1>4. Highest' = i /\ HighestIs(i)'
  <2>1. rcvd' \subseteq Int /\ i \in rcvd' /\ \A j \in rcvd' : j <= i
    BY <1>1, <1>3
  <2> QED BY <2>1, NewHighest
<1>5. DOMAIN nack_map_ = {}
  <2> SUFFICES ASSUME NEW s \in DOMAIN nack_map_ PROVE FALSE
    OBVIOUS
  <2>1. PICK k \in Recent : k < Highest
    BY DEF LoopInv, ListedBehind
  <2>2. Highest = -1 /\ k \in Nat
    BY <1>1 DEF Highest, Recent, Positions
  <2> QED BY <2>1, <2>2
<1>6. ArrivedInv'
  BY <1>1, <1>2, <1>3, <1>4 DEF ArrivedInv
<1>7. HolesAreListed'
  <2> SUFFICES ASSUME NEW x \in Recent, i < x, x < i PROVE FALSE
    BY <1>3, <1>4 DEF HolesAreListed, Recent, Positions
  <2>1. x \in Nat
    BY <1>1 DEF Recent, Positions
  <2> QED BY <1>1, <2>1
<1> QED BY <1>2, <1>5, <1>6, <1>7 DEF LoopInv, ListType, ListedBehind

(* The facts about every later arrival.                                    *)
LEMMA ArriveAgain ==
  ASSUME LoopInv, NEW i \in Recent, NEW copy, Arrive(i, copy), rcvd # {}
  PROVE  \E h \in rcvd :
           /\ HighestIs(h) /\ Highest = h /\ last_seq_ = WireSeq(h) /\ h \in Recent
           /\ nack_init_ /\ first \in Nat /\ first' = first /\ first # -1
           /\ rcvd' = rcvd \cup {i} /\ rcvd \subseteq Int
           /\ sent' = sent /\ sent \in Nat
           /\ Recent' = Recent /\ gaveUp' = gaveUp
           /\ wrapLost' = IF i > h /\ WireSeq(h) > WireSeq(i) /\ WireSeq(h + 1) # 0
                          THEN wrapLost \cup (h + 1 .. i - 1) ELSE wrapLost
           /\ NackRepeated(WireSeq(i)) \/ NackLate(WireSeq(i)) \/ NackAhead(WireSeq(i))
<1>1. nack_init_ /\ first \in Nat /\ sent \in Nat
      /\ rcvd \subseteq Recent
  BY DEF LoopInv, SendInv, ArrivedInv
<1>2. PICK h \in rcvd : HighestIs(h) /\ last_seq_ = WireSeq(h)
  BY DEF LoopInv, ArrivedInv
<1>3. rcvd \subseteq Nat /\ rcvd \subseteq Int /\ h \in Recent
  BY <1>1 DEF Recent, Positions
<1>4. Highest = h
  BY <1>2, <1>3, HighestValue
<1>5. first # -1
  BY <1>1, <1>3
<1>6. rcvd' = rcvd \cup {i} /\ sent' = sent /\ gaveUp' = gaveUp /\ first' = first
  BY <1>5 DEF Arrive, sendVars
<1>7. Recent' = Recent
  BY <1>6 DEF Recent, Positions
<1>8. wrapLost' = IF i > h /\ WireSeq(h) > WireSeq(i) /\ WireSeq(h + 1) # 0
                  THEN wrapLost \cup (h + 1 .. i - 1) ELSE wrapLost
  BY <1>4 DEF Arrive
<1>9. NackRepeated(WireSeq(i)) \/ NackLate(WireSeq(i)) \/ NackAhead(WireSeq(i))
  BY <1>1 DEF Arrive, UpdateNackList, NackFirst
<1> QED BY <1>1, <1>2, <1>3, <1>4, <1>5, <1>6, <1>7, <1>8, <1>9

LEMMA ArriveLater ==
  ASSUME LoopInv, NEW i \in Recent, NEW copy, Arrive(i, copy), rcvd # {}
  PROVE  ListType' /\ ArrivedInv' /\ ListedBehind' /\ HolesAreListed'
<1> DEFINE Entry == [age : 0 .. Rtt, retry : 0 .. RetryMax + 1]
<1>1. PICK h \in rcvd :
        /\ HighestIs(h) /\ Highest = h /\ last_seq_ = WireSeq(h) /\ h \in Recent
        /\ nack_init_ /\ first \in Nat /\ first' = first /\ first # -1
        /\ rcvd' = rcvd \cup {i} /\ rcvd \subseteq Int
        /\ sent' = sent /\ sent \in Nat
        /\ Recent' = Recent /\ gaveUp' = gaveUp
        /\ wrapLost' = IF i > h /\ WireSeq(h) > WireSeq(i) /\ WireSeq(h + 1) # 0
                       THEN wrapLost \cup (h + 1 .. i - 1) ELSE wrapLost
        /\ NackRepeated(WireSeq(i)) \/ NackLate(WireSeq(i)) \/ NackAhead(WireSeq(i))
  BY ArriveAgain
<1>2. /\ i \in Int /\ h \in Int /\ i \in Nat /\ h \in Nat /\ i < sent
      /\ i - h <= Half /\ h - i <= Half
      /\ (WireSeq(i) = WireSeq(h) => i = h)
  <2>1. sent \in Nat /\ h \in Recent
    BY <1>1
  <2>2. /\ i \in Nat /\ h \in Nat /\ i - h <= Half /\ h - i <= Half
        /\ i < sent /\ (WireSeq(i) = WireSeq(h) => i = h)
    BY <2>1, OnePosition
  <2> QED BY <2>2
<1>3. \A j \in Recent : j \in Int /\ (WireSeq(j) = WireSeq(i) => j = i)
  <2> TAKE j \in Recent
  <2>1. sent \in Nat
    BY <1>1
  <2> QED BY <2>1, OnePosition
<1>4. /\ nack_map_ \in [DOMAIN nack_map_ -> Entry] /\ DOMAIN nack_map_ \subseteq NackSeqs
      /\ \A s \in DOMAIN nack_map_ :
           \E k \in Recent : WireSeq(k) = s /\ k \notin rcvd /\ k < h
      /\ \A x \in Recent : first < x /\ x < h =>
           \/ x \in rcvd \cup gaveUp \cup wrapLost
           \/ WireSeq(x) \in DOMAIN nack_map_
  BY <1>1, ListedIs DEF LoopInv, ListType, ListedBehind, HolesAreListed
<1>5. rcvd' \subseteq Int
  BY <1>1, <1>2
<1>6. CASE i <= h
  <2>1. Highest' = h /\ HighestIs(h)'
    <3>1. h \in rcvd' /\ \A j \in rcvd' : j <= h
      BY <1>1, <1>6 DEF HighestIs
    <3> QED BY <1>5, <3>1, NewHighest
  <2>2. wrapLost' = wrapLost
    BY <1>1, <1>2, <1>6
  <2>3. ~NackAhead(WireSeq(i))
    <3>1. CASE i = h
      BY <1>1, <3>1 DEF NackAhead
    <3>2. CASE i < h
      BY <1>1, <1>2, <3>2, OrderByNumber DEF NackAhead
    <3> QED BY <1>2, <1>6, <3>1, <3>2
  <2>4. last_seq_' = last_seq_ /\ nack_init_' = nack_init_
    BY <1>1, <2>3 DEF NackRepeated, NackLate
  <2>5. ArrivedInv'
    BY <1>1, <2>1, <2>4 DEF ArrivedInv
  <2>6. CASE NackRepeated(WireSeq(i))
    <3>1. i = h /\ rcvd' = rcvd /\ nack_map_' = nack_map_
      BY <1>1, <1>2, <2>6 DEF NackRepeated
    <3>2. ListType'
      BY <1>4, <3>1 DEF ListType
    <3>3. ListedBehind'
      BY <1>1, <1>4, <2>1, <3>1 DEF ListedBehind
    <3>4. HolesAreListed'
      BY <1>1, <1>4, <2>1, <2>2, <3>1, ListedNext DEF HolesAreListed
    <3> QED BY <2>5, <3>2, <3>3, <3>4
  <2>7. CASE NackLate(WireSeq(i))
    <3>1. nack_map_' = [s \in DOMAIN nack_map_ \ {WireSeq(i)} |-> nack_map_[s]]
      BY <2>7 DEF NackLate, Restrict
    <3>2. DOMAIN nack_map_' = DOMAIN nack_map_ \ {WireSeq(i)}
      BY <3>1
    <3>3. nack_map_' \in [DOMAIN nack_map_ \ {WireSeq(i)} -> Entry]
      <4> HIDE DEF Entry
      <4> QED BY <1>4, <3>1
    <3>4. ListType'
      BY <1>4, <3>2, <3>3 DEF ListType
    <3>5. ListedBehind'
      <4> SUFFICES ASSUME NEW s \in DOMAIN nack_map_, s # WireSeq(i)
                   PROVE  \E k \in Recent : WireSeq(k) = s /\ k \notin rcvd' /\ k < h
        BY <1>1, <2>1, <3>2 DEF ListedBehind
      <4> QED BY <1>1, <1>4
    <3>6. HolesAreListed'
      <4> SUFFICES ASSUME NEW x \in Recent, first < x, x < h,
                          x \notin rcvd' \cup gaveUp \cup wrapLost
                   PROVE  WireSeq(x) \in DOMAIN nack_map_ /\ WireSeq(x) # WireSeq(i)
        BY <1>1, <2>1, <2>2, <3>2, ListedNext DEF HolesAreListed
      <4> QED BY <1>1, <1>3, <1>4
    <3> QED BY <2>5, <3>4, <3>5, <3>6
  <2> QED BY <1>1, <2>3, <2>6, <2>7
<1>7. CASE h < i
  <2> DEFINE Between == Skipped(WireSeq(h), WireSeq(i))
  <2>1. Highest' = i /\ HighestIs(i)'
    <3>1. \A j \in rcvd : j \in Int /\ j <= h
      BY <1>1 DEF HighestIs
    <3>2. i \in rcvd' /\ \A j \in rcvd' : j <= i
      BY <1>1, <1>2, <1>7, <3>1
    <3> QED BY <1>5, <3>2, NewHighest
  <2>2. NackAhead(WireSeq(i))
    <3>1. ~SeqLowerThan(WireSeq(i), WireSeq(h)) /\ WireSeq(h) # WireSeq(i)
      BY <1>2, <1>7, OrderByNumber
    <3> QED BY <1>1, <3>1 DEF NackRepeated, NackLate
  <2>3. /\ last_seq_' = WireSeq(i) /\ nack_init_' = nack_init_
        /\ nack_map_' = [s \in DOMAIN nack_map_ \cup Between |->
                           IF s \in DOMAIN nack_map_ THEN nack_map_[s] ELSE NewEntry]
    BY <1>1, <2>2 DEF NackAhead
  <2>4. /\ \A s \in Between : \E k \in h + 1 .. i - 1 : WireSeq(k) = s
        /\ ~(WireSeq(h) > WireSeq(i) /\ WireSeq(h + 1) # 0) =>
             \A k \in h + 1 .. i - 1 : WireSeq(k) \in Between
        /\ Between \subseteq NackSeqs
    BY <1>2, <1>7, SkippedBetween DEF Skipped
  <2>5. NewEntry \in Entry
    BY NackConstants DEF NewEntry
  <2> HIDE DEF Between
  <2>6. DOMAIN nack_map_' = DOMAIN nack_map_ \cup Between
    BY <2>3
  <2>7. nack_map_' \in [DOMAIN nack_map_ \cup Between -> Entry]
    <3> HIDE DEF Entry
    <3> QED BY <1>4, <2>3, <2>5
  <2>8. ListType'
    BY <1>4, <2>4, <2>6, <2>7 DEF ListType
  <2>9. ArrivedInv'
    BY <1>1, <2>1, <2>3 DEF ArrivedInv
  <2>10. \A k \in h + 1 .. i - 1 : k \in Recent /\ k \notin rcvd' /\ k < i
    <3> TAKE k \in h + 1 .. i - 1
    <3>1. k \in Int /\ h < k /\ k < i /\ k \in Recent
      <4>1. \A x : x \in Recent <=>
              x \in Int /\ 0 <= x /\ x < sent /\ sent - Window <= x
        BY <1>1, RecentIs
      <4>2. sent \in Int /\ Window \in Int
        BY <1>1, LoopAssumption
      <4> QED BY <1>1, <1>2, <4>1, <4>2
    <3>2. k \notin rcvd
      BY <1>1, <1>2, <3>1 DEF HighestIs
    <3> QED BY <1>1, <1>2, <3>1, <3>2
  <2>11. ListedBehind'
    <3> SUFFICES ASSUME NEW s \in DOMAIN nack_map_ \cup Between
                 PROVE  \E k \in Recent : WireSeq(k) = s /\ k \notin rcvd' /\ k < i
      BY <1>1, <2>1, <2>6 DEF ListedBehind
    <3>1. CASE s \in Between
      BY <2>4, <2>10, <3>1
    <3>2. CASE s \in DOMAIN nack_map_
      <4>1. PICK k \in Recent : WireSeq(k) = s /\ k \notin rcvd /\ k < h
        BY <1>4, <3>2
      <4>2. k \in Int /\ k < i /\ k \notin rcvd'
        BY <1>1, <1>2, <1>3, <1>7, <4>1
      <4> QED BY <4>1, <4>2
    <3> QED BY <3>1, <3>2
  <2>12. HolesAreListed'
    <3> SUFFICES ASSUME NEW x \in Recent, first < x, x < i,
                        x \notin rcvd' \cup gaveUp \cup wrapLost'
                 PROVE  WireSeq(x) \in DOMAIN nack_map_ \cup Between
      BY <1>1, <2>1, <2>6, ListedNext DEF HolesAreListed
    <3>1. x \in Int /\ x # h /\ x \notin rcvd /\ x \notin wrapLost
      BY <1>1, <1>3
    <3>2. CASE x < h
      BY <1>4, <3>1, <3>2
    <3>3. CASE h < x
      <4>1. x \in h + 1 .. i - 1
        BY <1>2, <3>1, <3>3
      <4>2. ~(WireSeq(h) > WireSeq(i) /\ WireSeq(h + 1) # 0)
        BY <1>1, <1>2, <1>7, <4>1
      <4> QED BY <2>4, <4>1, <4>2
    <3> QED BY <1>2, <3>1, <3>2, <3>3
  <2> QED BY <2>8, <2>9, <2>11, <2>12
<1> QED BY <1>2, <1>6, <1>7

LEMMA ArriveStep ==
  ASSUME LoopInv, NEW i \in net, NEW copy \in BOOLEAN, Arrive(i, copy)
  PROVE  LoopInv'
<1>1. i \in Recent /\ UNCHANGED sendVars /\ req' = req
      /\ rcvd' = rcvd \cup {i} /\ net' \subseteq net
  BY DEF LoopInv, Arrive
<1>2. SendInv' /\ sent' = sent /\ Recent' = Recent
  BY <1>1, SendUnchangedInv DEF LoopInv, sendVars, Recent, Positions
<1>3. ListType' /\ ArrivedInv' /\ ListedBehind' /\ HolesAreListed'
  BY <1>1, ArriveFirst, ArriveLater
<1> QED BY <1>1, <1>2, <1>3 DEF LoopInv

-----------------------------------------------------------------------------
LEMMA LoopStep == LoopInv /\ [Next]_loopVars => LoopInv'
<1> SUFFICES ASSUME LoopInv, [Next]_loopVars PROVE LoopInv'
  OBVIOUS
<1>1. ASSUME NEW n \in 1 .. MaxBurst, Send(n) PROVE LoopInv'
  BY <1>1, SendStep
<1>2. ASSUME NEW i \in net, NEW copy \in BOOLEAN, Arrive(i, copy) PROVE LoopInv'
  BY <1>2, ArriveStep
<1>3. CASE [(\E i \in net : Lose(i)) \/ LoseNack]_loopVars
  BY <1>3, LoseStep
<1>4. CASE NackTimer
  BY <1>4, NackTimerStep
<1>5. CASE ArriveNack
  BY <1>5, ArriveNackStep
<1>6. CASE Tick
  BY <1>6, TickStep
<1> QED BY <1>1, <1>2, <1>3, <1>4, <1>5, <1>6 DEF Next

(* UpdateNackList and OnTimer keep the list exact in a stream of any       *)
(* length: it names only packets of the window that have not arrived, each *)
(* once, and every hole behind the newest packet that has retries left and *)
(* does not span the wrap.                                                 *)
THEOREM LoopListExact == Spec => []ListExact
<1>1. Init => LoopInv
  BY LoopInit
<1>2. LoopInv /\ [Next]_loopVars => LoopInv'
  BY LoopStep
<1>3. LoopInv => ListExact
  BY InvExact
<1> QED BY <1>1, <1>2, <1>3, PTL DEF Spec

(* Whatever the undefined shifts of InsertBlock make of the other numbers, *)
(* the feedback of a timer asks for the lowest number that is due, if the  *)
(* blocks fit the message.                                                 *)
THEOREM LoopFeedbackProgress == Spec => FeedbackProgress
<1>1. Init => LoopInv
  BY LoopInit
<1>2. LoopInv /\ [Next]_loopVars => LoopInv'
  BY LoopStep
<1>3. LoopInv /\ [Next]_loopVars =>
        [NackTimer /\ Due # {} /\ Fits(Due) => LowestOf(Due) \in req']_loopVars
  BY NackTimerStep
<1> QED BY <1>1, <1>2, <1>3, PTL DEF Spec, FeedbackProgress
=============================================================================
