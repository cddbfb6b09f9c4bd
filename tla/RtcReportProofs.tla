--------------------------- MODULE RtcReportProofs --------------------------
(***************************************************************************)
(* Proofs about RtcReport, for every number space, ring, clock rate,       *)
(* network and bound.                                                      *)
(***************************************************************************)
EXTENDS RtcReport, RtcSendStreamProofs, FiniteSetTheorems

(* Units rounds down: it is the whole part of t * NtpPerSec / TicksPerSec. *)
LEMMA UnitsFloor ==
  ASSUME NEW t \in Nat
  PROVE  /\ Units(t) \in Nat
         /\ TicksPerSec * Units(t) <= t * NtpPerSec
         /\ t * NtpPerSec < TicksPerSec * Units(t) + TicksPerSec
<1> DEFINE q == t \div TicksPerSec
           r == t % TicksPerSec
           p == r * NtpPerSec
           d == p \div TicksPerSec
           e == p % TicksPerSec
<1>1. TicksPerSec \in Nat \ {0} /\ NtpPerSec \in Nat
  BY RecvConstants
<1>2. /\ q \in Int /\ r \in 0 .. TicksPerSec - 1 /\ t = TicksPerSec * q + r
  BY <1>1, DivMod
<1>3. Units(t) = q * NtpPerSec + d
  BY DEF Units
<1> HIDE DEF q, r
<1>4. p \in Nat
  BY <1>1, <1>2
<1>5. p = r * NtpPerSec
  OBVIOUS
<1> HIDE DEF p
<1>6. d \in Int /\ e \in 0 .. TicksPerSec - 1 /\ p = TicksPerSec * d + e
  BY <1>1, <1>4, DivMod
<1> HIDE DEF d, e
<1>7. q >= 0
  <2>1. q < 0 => TicksPerSec * q + TicksPerSec <= TicksPerSec * 0
    BY <1>1, <1>2, MulMono
  <2>2. TicksPerSec * q \in Int
    BY <1>1, <1>2
  <2> QED BY <1>1, <1>2, <2>1, <2>2
<1>8. d >= 0
  <2>1. d < 0 => TicksPerSec * d + TicksPerSec <= TicksPerSec * 0
    BY <1>1, <1>6, MulMono
  <2>2. TicksPerSec * d \in Int
    BY <1>1, <1>6
  <2> QED BY <1>1, <1>4, <1>6, <2>1, <2>2
<1>9. Units(t) \in Nat
  BY <1>1, <1>2, <1>3, <1>6, <1>7, <1>8
<1>10. t * NtpPerSec = TicksPerSec * Units(t) + e
  <2>1. t * NtpPerSec = (TicksPerSec * q) * NtpPerSec + r * NtpPerSec
    BY <1>1, <1>2
  <2>2. (TicksPerSec * q) * NtpPerSec = TicksPerSec * (q * NtpPerSec)
    BY <1>1, <1>2
  <2>3. TicksPerSec * (q * NtpPerSec + d) = TicksPerSec * (q * NtpPerSec) + TicksPerSec * d
    <3> DEFINE x == q * NtpPerSec
    <3>1. x \in Int
      BY <1>1, <1>2
    <3> HIDE DEF x
    <3>2. TicksPerSec * (x + d) = TicksPerSec * x + TicksPerSec * d
      BY <1>1, <1>6, <3>1
    <3> QED BY <3>2 DEF x
  <2> DEFINE x == TicksPerSec * (q * NtpPerSec)
             y == TicksPerSec * d
  <2>4. x \in Int /\ y \in Int
    BY <1>1, <1>2, <1>6
  <2>5. t * NtpPerSec = x + p
    BY <1>5, <2>1, <2>2
  <2>6. TicksPerSec * Units(t) = x + y
    BY <1>3, <2>3
  <2>7. p = y + e
    BY <1>6
  <2> HIDE DEF x, y
  <2> QED BY <1>4, <1>6, <2>4, <2>5, <2>6, <2>7
<1>11. TicksPerSec * Units(t) \in Int
  BY <1>1, <1>9
<1> QED BY <1>1, <1>6, <1>9, <1>10, <1>11

(* Three roundings lose at most two units.                                 *)
LEMMA UnitsSum ==
  ASSUME NEW x \in Nat, NEW y \in Nat, NEW z \in Nat
  PROVE  Units(x + y + z) - (Units(x) + Units(y) + Units(z)) \in 0 .. 2
<1> DEFINE u == Units(x)
           v == Units(y)
           w == Units(z)
           s == Units(x + y + z)
           T == TicksPerSec
           a == x * NtpPerSec
           b == y * NtpPerSec
           c == z * NtpPerSec
<1>1. T \in Nat \ {0} /\ NtpPerSec \in Nat /\ x + y + z \in Nat
  BY RecvConstants
<1>2. /\ u \in Nat /\ T * u <= a /\ a < T * u + T
      /\ v \in Nat /\ T * v <= b /\ b < T * v + T
      /\ w \in Nat /\ T * w <= c /\ c < T * w + T
  BY UnitsFloor
<1>3. s \in Nat /\ T * s <= a + b + c /\ a + b + c < T * s + T
  <2>1. (x + y + z) * NtpPerSec = a + b + c
    BY <1>1
  <2>2. s \in Nat /\ T * s <= (x + y + z) * NtpPerSec /\ (x + y + z) * NtpPerSec < T * s + T
    BY <1>1, UnitsFloor
  <2> QED BY <2>1, <2>2
<1>4. a \in Int /\ b \in Int /\ c \in Int
  BY <1>1
<1> HIDE DEF u, v, w, s, T, a, b, c
<1> DEFINE g == u + v + w
<1>5. g \in Nat /\ g + 2 \in Nat
  BY <1>2
<1>6. T * g = T * u + T * v + T * w
  BY <1>1, <1>2
<1>7. T * u \in Int /\ T * v \in Int /\ T * w \in Int /\ T * s \in Int
  BY <1>1, <1>2, <1>3
<1> HIDE DEF g
<1>8. ~(s < g)
  <2>1. s < g => T * s + T <= T * g
    BY <1>1, <1>3, <1>5, MulMono
  <2> QED BY <1>1, <1>2, <1>3, <1>4, <1>6, <1>7, <2>1
<1>9. ~(g + 2 < s)
  <2>1. g + 2 < s => T * (g + 2) + T <= T * s
    BY <1>1, <1>3, <1>5, MulMono
  <2>2. T * (g + 2) = T * g + T + T
    BY <1>1, <1>5
  <2> QED BY <1>1, <1>2, <1>3, <1>4, <1>6, <1>7, <2>1, <2>2
<1>10. s - g \in 0 .. 2
  BY <1>3, <1>5, <1>8, <1>9
<1> QED BY <1>10 DEF s, g, u, v, w

LEMMA UnitsMonotone ==
  ASSUME NEW x \in Nat, NEW y \in Nat, x <= y
  PROVE  Units(x) <= Units(y)
<1>1. y - x \in Nat /\ 0 \in Nat /\ x + (y - x) + 0 = y
  OBVIOUS
<1>2. Units(x + (y - x) + 0) - (Units(x) + Units(y - x) + Units(0)) \in 0 .. 2
  BY <1>1, UnitsSum
<1>3. Units(x) \in Nat /\ Units(y - x) \in Nat /\ Units(0) \in Nat /\ Units(y) \in Nat
  BY <1>1, UnitsFloor
<1> QED BY <1>1, <1>2, <1>3

LEMMA CompactType ==
  ASSUME NEW t \in Nat
  PROVE  Compact(t) \in 0 .. NtpMod - 1
<1>1. Units(t) \in Int /\ NtpMod \in Nat \ {0}
  BY UnitsFloor, RecvConstants
<1> QED BY <1>1, DivMod DEF Compact

(* A report sent at t - flown came at t, was answered at "at" and the      *)
(* answer came at now: the clock difference without the wait is the time   *)
(* the two were under way, within two units, also across the wrap.         *)
LEMMA RoundTrip ==
  ASSUME NEW now_ \in Nat, NEW at \in Nat, NEW t \in Nat, NEW flown \in 0 .. MaxDelay,
         flown <= t, t <= at, at <= now_, now_ - at <= MaxDelay
  PROVE  (Compact(now_) - Units(at - t) - Compact(t - flown)) % NtpMod
            \in Units(flown + now_ - at) .. Units(flown + now_ - at) + 2
<1> DEFINE x == t - flown
           y == at - t
           z == flown + now_ - at
           a == Units(now_)
           b == Units(y)
           c == Units(x)
           d == Units(z)
<1>1. MaxDelay \in Nat /\ NtpMod \in Nat \ {0}
  BY ReportAssumption, RecvConstants
<1>2. /\ x \in Nat /\ y \in Nat /\ z \in Nat /\ z <= 2 * MaxDelay /\ 2 * MaxDelay \in Nat
      /\ x + y + z = now_
  BY <1>1
<1> HIDE DEF x, y, z
<1>3. a \in Nat /\ b \in Nat /\ c \in Nat /\ d \in Nat
  BY <1>2, UnitsFloor
<1>4. a - (c + b + d) \in 0 .. 2
  BY <1>2, UnitsSum
<1>5. d <= Units(2 * MaxDelay) /\ Units(2 * MaxDelay) \in Nat
  BY <1>2, UnitsMonotone, UnitsFloor
<1>6. Units(2 * MaxDelay) + 2 < NtpMod
  BY ReportAssumption
<1>7. Compact(now_) = a % NtpMod /\ Compact(x) = c % NtpMod
  BY DEF Compact
<1> HIDE DEF a, b, c, d
<1>8. a - b - c \in 0 .. NtpMod - 1 /\ a - b - c \in d .. d + 2
  BY <1>1, <1>3, <1>4, <1>5, <1>6
<1>9. ((a % NtpMod) - b - (c % NtpMod)) % NtpMod = (a - b - c) % NtpMod
  <2>0. a \in Int /\ c \in Int
    BY <1>3
  <2>1. a % NtpMod \in Int /\ c % NtpMod \in Int
    <3>1. a % NtpMod \in 0 .. NtpMod - 1 /\ c % NtpMod \in 0 .. NtpMod - 1
      BY <1>1, <2>0, DivMod
    <3> QED BY <1>1, <3>1
  <2> DEFINE e == (a % NtpMod) - b
  <2>2. e \in Int
    BY <1>3, <2>1
  <2> HIDE DEF e
  <2>3. (e - (c % NtpMod)) % NtpMod = (e - c) % NtpMod
    BY <1>1, <2>0, <2>2, ModSub
  <2>4. e - c = (a % NtpMod) + (0 - b - c)
    <3> DEFINE f == a % NtpMod
    <3>1. f \in Int /\ e = f - b
      BY <2>1 DEF e
    <3> HIDE DEF f
    <3>2. e - c = f + (0 - b - c)
      BY <1>3, <3>1
    <3> QED BY <3>2 DEF f
  <2> DEFINE g == 0 - b - c
  <2>5. g \in Int
    BY <1>3
  <2>6. a + g = a - b - c
    BY <1>3
  <2> HIDE DEF g
  <2>7. ((a % NtpMod) + g) % NtpMod = (a + g) % NtpMod
    BY <1>1, <2>0, <2>5, ModAdd
  <2> QED BY <2>3, <2>4, <2>6, <2>7 DEF e, g
<1>10. (a - b - c) % NtpMod = a - b - c
  <2> DEFINE g == a - b - c
  <2> HIDE DEF g
  <2> SUFFICES g % NtpMod = g
    BY DEF g
  <2>1. g \in 0 .. NtpMod - 1
    BY <1>8 DEF g
  <2> QED BY <1>1, <2>1, ModSmall
<1>11. (Compact(now_) - b - Compact(x)) % NtpMod \in d .. d + 2
  BY <1>7, <1>8, <1>9, <1>10
<1> QED BY <1>11 DEF b, d, x, y, z

-----------------------------------------------------------------------------
(* The inductive invariant.                                                *)

HistType ==
  hist \in [srFlown : Int, rrtFlown : Int, rtt : Int, xr : Int, again : Int,
            first : Int, base : Int, skipped : BOOLEAN, pli : Int]

ClockInv == now \in Nat /\ start \in Nat /\ link \in Links /\ sent <= MaxSent

(* The mark of the requests for key frames is the time of the last one.    *)
KeyInv ==
  /\ last_keyframe_ms_ = hist.pli
  /\ hist.pli = Never \/ hist.pli \in 0 .. now
  /\ KeyFrameSoon

(* m says of a report that it came at a time t, after m.flown under way,   *)
(* and waited until m was sent.                                            *)
Answers(m, ntp, wait) ==
  \E t \in 0 .. m.at :
    /\ m.flown \in 0 .. MaxDelay /\ m.flown <= t
    /\ wait = Units(m.at - t) /\ ntp = Compact(t - m.flown)

MessageInv(m) ==
  /\ m.at \in 0 .. now /\ now - m.at <= MaxDelay
  /\ m.kind \in {"sr", "rrt"} => m.ntp = Compact(m.at)
  /\ m.kind \in {"rr", "dlrr"} => m.flown \in Int
  /\ m.kind = "rr" => m.block.lsr = 0 \/ Answers(m, m.block.lsr, m.block.dlsr)
  /\ m.kind = "dlrr" => Answers(m, m.lrr, m.dlrr)

(* What a peer remembers of a report that came at ms.                      *)
Remembers(ms, ntp, flown) ==
  ms \in 0 .. now /\ flown \in 0 .. MaxDelay /\ flown <= ms /\ ntp = Compact(ms - flown)

TimeInv ==
  /\ (last_sr_ms_ = Never /\ lsr_ = 0) \/ Remembers(last_sr_ms_, lsr_, hist.srFlown)
  /\ last_xr_ms_ = Never \/ Remembers(last_xr_ms_, last_xr_ntp_, hist.rrtFlown)
  /\ \A m \in net : MessageInv(m)
  /\ RttExactOrZero /\ XrRttExact

Extended == max_seq_ + cycles_
NewestIs(i) == i \in rcvd /\ \A j \in rcvd : j <= i

(* The receiver's numbers, until the sender restarts; and the balance of   *)
(* holes and packets that came twice with the count of what came.          *)
SeqInv ==
  /\ rcvd \subseteq 0 .. sent - 1 /\ jumped \in Nat /\ offset \in Nat
  /\ max_seq_ \in 0 .. RecvSeqMod - 1 /\ bad_seq_ \in 0 .. RecvSeqMod + 1
  /\ cycles_ \in Int /\ cycles_ % RecvSeqMod = 0
  /\ count \in Nat
  /\ rcvd = {} => ~first_pkt_ /\ count = 0 /\ hist.again = 0
  /\ rcvd # {} => /\ first_pkt_ /\ 0 < count /\ hist.first \in rcvd
                  /\ \E i \in rcvd : NewestIs(i)
                  /\ Cardinality(Holes) - hist.again = Newest - hist.first + 1 - count
  /\ jumped = 0 => bad_seq_ = RecvSeqMod + 1
  /\ jumped = 0 /\ rcvd # {} =>
       /\ max_seq_ = WireSeq(Newest)
       /\ Extended = WireSeq(hist.first) + Newest - hist.first

(* h is the extended number at the last report: the marks are its own, and *)
(* the loss counted by then hides none of the holes of that time.          *)
MarkedAt(h) ==
  /\ expect_recv_ = (h - RecvSeqMod) % WordMod
  /\ total_lost_ >= h - WireSeq(hist.first) + 1 - last_recv_ - hist.base
  /\ count = last_recv_ => h = Extended

LossInv ==
  /\ expect_recv_ \in Int /\ total_lost_ \in Int /\ last_recv_ \in 0 .. count
  /\ last_recv_ <= 0 => total_lost_ = 0
  /\ jumped = 0 /\ 0 < last_recv_ /\ ~hist.skipped =>
       \E h \in WireSeq(hist.first) .. Extended : MarkedAt(h)

ReportInv == SendInv /\ HistType /\ ClockInv /\ KeyInv /\ TimeInv /\ SeqInv /\ LossInv

-----------------------------------------------------------------------------
(* What each action does to the histories.                                 *)

LEMMA ReceiveHist ==
  ASSUME HistType, NEW i \in Int, Receive(i)
  PROVE  /\ HistType'
         /\ hist'.again = hist.again + (IF i \in rcvd \/ (rcvd # {} /\ i < hist.first)
                                        THEN 1 ELSE 0)
         /\ hist'.first = IF rcvd = {} THEN i ELSE hist.first
         /\ hist'.srFlown = hist.srFlown /\ hist'.rrtFlown = hist.rrtFlown
         /\ hist'.rtt = hist.rtt /\ hist'.xr = hist.xr /\ hist'.base = hist.base
         /\ hist'.skipped = hist.skipped /\ hist'.pli = hist.pli
<1> DEFINE a == hist.again + (IF i \in rcvd \/ (rcvd # {} /\ i < hist.first) THEN 1 ELSE 0)
           b == IF rcvd = {} THEN i ELSE hist.first
<1>1. a \in Int /\ b \in Int
  BY DEF HistType
<1>2. hist' = [hist EXCEPT !.again = a, !.first = b]
  BY DEF Receive
<1> HIDE DEF a, b
<1>3. /\ hist' \in [srFlown : Int, rrtFlown : Int, rtt : Int, xr : Int, again : Int,
                    first : Int, base : Int, skipped : BOOLEAN, pli : Int]
      /\ hist'.again = a /\ hist'.first = b
      /\ hist'.srFlown = hist.srFlown /\ hist'.rrtFlown = hist.rrtFlown
      /\ hist'.rtt = hist.rtt /\ hist'.xr = hist.xr /\ hist'.base = hist.base
      /\ hist'.skipped = hist.skipped /\ hist'.pli = hist.pli
  BY <1>1, <1>2 DEF HistType
<1> QED BY <1>3 DEF HistType, a, b

LEMMA ReceiverTimerHist ==
  ASSUME HistType, ClockInv, ReceiverTimer, Cardinality(Holes) \in Int
  PROVE  /\ HistType'
         /\ hist'.pli = IF KeyFrameDue(now) THEN now ELSE hist.pli
         /\ hist'.base = IF RrDue /\ last_recv_ <= 0 THEN Cardinality(Holes) - hist.again
                         ELSE hist.base
         /\ hist'.skipped = (hist.skipped \/ (RrDue /\ GetExpectedPackets < expect_recv_))
         /\ hist'.srFlown = hist.srFlown /\ hist'.rrtFlown = hist.rrtFlown
         /\ hist'.rtt = hist.rtt /\ hist'.xr = hist.xr
         /\ hist'.again = hist.again /\ hist'.first = hist.first
<1> DEFINE a == IF KeyFrameDue(now) THEN now ELSE hist.pli
           b == IF RrDue /\ last_recv_ <= 0 THEN Cardinality(Holes) - hist.again
                ELSE hist.base
           c == hist.skipped \/ (RrDue /\ GetExpectedPackets < expect_recv_)
<1>1. a \in Int /\ b \in Int
  BY DEF HistType, ClockInv
<1>2. c \in BOOLEAN
  BY SMT DEF HistType
<1>3. hist' = [hist EXCEPT !.pli = a, !.base = b, !.skipped = c]
  BY Zenon DEF ReceiverTimer
<1> HIDE DEF a, b, c
<1>4. /\ hist' \in [srFlown : Int, rrtFlown : Int, rtt : Int, xr : Int, again : Int,
                    first : Int, base : Int, skipped : BOOLEAN, pli : Int]
      /\ hist'.pli = a /\ hist'.base = b /\ hist'.skipped = c
      /\ hist'.srFlown = hist.srFlown /\ hist'.rrtFlown = hist.rrtFlown
      /\ hist'.rtt = hist.rtt /\ hist'.xr = hist.xr
      /\ hist'.again = hist.again /\ hist'.first = hist.first
  BY <1>1, <1>2, <1>3 DEF HistType
<1> QED BY <1>4, Zenon DEF HistType, a, b, c

LEMMA AskKeyFrameHist ==
  ASSUME HistType, ClockInv, AskKeyFrame
  PROVE  /\ HistType' /\ hist'.pli = now
         /\ hist'.srFlown = hist.srFlown /\ hist'.rrtFlown = hist.rrtFlown
         /\ hist'.rtt = hist.rtt /\ hist'.xr = hist.xr /\ hist'.base = hist.base
         /\ hist'.skipped = hist.skipped
         /\ hist'.again = hist.again /\ hist'.first = hist.first
BY DEF HistType, ClockInv, AskKeyFrame

LEMMA DeliverSrHist ==
  ASSUME HistType, ClockInv, NEW m, m.at \in Int, DeliverSr(m)
  PROVE  /\ HistType' /\ hist'.srFlown = now - m.at
         /\ hist'.pli = hist.pli /\ hist'.rrtFlown = hist.rrtFlown
         /\ hist'.rtt = hist.rtt /\ hist'.xr = hist.xr /\ hist'.base = hist.base
         /\ hist'.skipped = hist.skipped
         /\ hist'.again = hist.again /\ hist'.first = hist.first
<1>1. hist' = [hist EXCEPT !.srFlown = now - m.at] /\ now - m.at \in Int
  BY DEF DeliverSr, ClockInv
<1> QED BY <1>1 DEF HistType

LEMMA DeliverRrHist ==
  ASSUME HistType, ClockInv, NEW m, m.at \in Int, m.flown \in Int, DeliverRr(m)
  PROVE  /\ HistType' /\ hist'.rtt = m.flown + now - m.at
         /\ hist'.pli = hist.pli /\ hist'.rrtFlown = hist.rrtFlown
         /\ hist'.srFlown = hist.srFlown /\ hist'.xr = hist.xr /\ hist'.base = hist.base
         /\ hist'.skipped = hist.skipped
         /\ hist'.again = hist.again /\ hist'.first = hist.first
<1>1. hist' = [hist EXCEPT !.rtt = m.flown + now - m.at] /\ m.flown + now - m.at \in Int
  BY DEF DeliverRr, ClockInv
<1> QED BY <1>1 DEF HistType

LEMMA DeliverRrtHist ==
  ASSUME HistType, ClockInv, NEW m, m.at \in Int, DeliverRrt(m)
  PROVE  /\ HistType' /\ hist'.rrtFlown = now - m.at
         /\ hist'.pli = hist.pli /\ hist'.srFlown = hist.srFlown
         /\ hist'.rtt = hist.rtt /\ hist'.xr = hist.xr /\ hist'.base = hist.base
         /\ hist'.skipped = hist.skipped
         /\ hist'.again = hist.again /\ hist'.first = hist.first
<1>1. hist' = [hist EXCEPT !.rrtFlown = now - m.at] /\ now - m.at \in Int
  BY DEF DeliverRrt, ClockInv
<1> QED BY <1>1 DEF HistType

LEMMA DeliverDlrrHist ==
  ASSUME HistType, ClockInv, NEW m, m.at \in Int, m.flown \in Int, DeliverDlrr(m)
  PROVE  /\ HistType'
         /\ hist'.xr = IF Compact(now) < (m.dlrr + m.lrr) % NtpMod THEN hist.xr
                       ELSE m.flown + now - m.at
         /\ hist'.pli = hist.pli /\ hist'.rrtFlown = hist.rrtFlown
         /\ hist'.srFlown = hist.srFlown /\ hist'.rtt = hist.rtt /\ hist'.base = hist.base
         /\ hist'.skipped = hist.skipped
         /\ hist'.again = hist.again /\ hist'.first = hist.first
<1> DEFINE a == IF Compact(now) < (m.dlrr + m.lrr) % NtpMod THEN hist.xr
                ELSE m.flown + now - m.at
<1>1. hist' = [hist EXCEPT !.xr = a]
  BY DEF DeliverDlrr
<1>2. a \in Int
  BY DEF HistType, ClockInv
<1> HIDE DEF a
<1>3. /\ hist' \in [srFlown : Int, rrtFlown : Int, rtt : Int, xr : Int, again : Int,
                    first : Int, base : Int, skipped : BOOLEAN, pli : Int]
      /\ hist'.xr = a
      /\ hist'.pli = hist.pli /\ hist'.rrtFlown = hist.rrtFlown
      /\ hist'.srFlown = hist.srFlown /\ hist'.rtt = hist.rtt /\ hist'.base = hist.base
      /\ hist'.skipped = hist.skipped
      /\ hist'.again = hist.again /\ hist'.first = hist.first
  BY <1>1, <1>2 DEF HistType
<1> QED BY <1>3 DEF HistType, a

(* The newest position, and the holes behind it.                           *)
LEMMA NewestAndHoles ==
  ASSUME HistType, SeqInv, sent \in Nat
  PROVE  /\ Newest \in Int
         /\ rcvd # {} => NewestIs(Newest) /\ hist.first \in 0 .. Newest
         /\ IsFiniteSet(Holes) /\ Cardinality(Holes) \in Nat
<1>1. Newest \in Int
  <2>1. CASE rcvd = {}
    BY <2>1 DEF Newest
  <2>2. CASE rcvd # {}
    <3>1. \E i \in rcvd : \A j \in rcvd : j <= i
      BY <2>2 DEF SeqInv, NewestIs
    <3>2. Newest \in rcvd
      BY <2>2, <3>1 DEF Newest
    <3> QED BY <3>2 DEF SeqInv
  <2> QED BY <2>1, <2>2
<1>2. rcvd # {} => NewestIs(Newest) /\ hist.first \in 0 .. Newest
  <2> SUFFICES ASSUME rcvd # {} PROVE NewestIs(Newest) /\ hist.first \in 0 .. Newest
    OBVIOUS
  <2>1. \E i \in rcvd : \A j \in rcvd : j <= i
    BY DEF SeqInv, NewestIs
  <2>2. NewestIs(Newest)
    BY <2>1 DEF Newest, NewestIs
  <2>3. hist.first \in rcvd /\ rcvd \subseteq 0 .. sent - 1
    BY DEF SeqInv
  <2>4. hist.first <= Newest
    BY <2>2, <2>3, Zenon DEF NewestIs
  <2>5. hist.first \in 0 .. sent - 1
    BY <2>3, Zenon
  <2> QED BY <1>1, <2>2, <2>4, <2>5
<1>3. IsFiniteSet(hist.first .. Newest)
  BY <1>1, FS_Interval DEF HistType
<1>4. IsFiniteSet(Holes)
  BY <1>3, FS_Subset DEF Holes
<1> QED BY <1>1, <1>2, <1>4, FS_CardinalityType

-----------------------------------------------------------------------------
LEMMA InitInv == Init => ReportInv
<1> SUFFICES ASSUME Init PROVE ReportInv
  OBVIOUS
<1>1. SendInv
  BY SendInitInv DEF Init
<1>2. hist = [srFlown |-> 0, rrtFlown |-> 0, rtt |-> 0, xr |-> 0, again |-> 0,
              first |-> 0, base |-> 0, skipped |-> FALSE, pli |-> Never]
  BY DEF Init, HistInit
<1>3. HistType
  <2>1. Never \in Int
    BY DEF Never
  <2> QED BY <1>2, <2>1 DEF HistType
<1>4. ClockInv
  BY ReportAssumption, SendConstants DEF Init, SendInit, ClockInv
<1>5. KeyInv
  BY <1>2 DEF Init, RecvInit, KeyInv, KeyFrameSoon
<1>6. TimeInv
  BY <1>2 DEF Init, RecvInit, TimeInv, RttExactOrZero, XrRttExact
<1>7. SeqInv
  <2>1. RecvSeqMod \in Nat /\ 0 < RecvSeqMod
    BY RecvConstants
  <2>2. 0 % RecvSeqMod = 0
    <3>1. 0 \in 0 .. RecvSeqMod - 1 /\ RecvSeqMod \in Nat \ {0}
      BY <2>1
    <3> QED BY <3>1, ModSmall
  <2>3. /\ rcvd = {} /\ jumped = 0 /\ offset = 0 /\ max_seq_ = 0 /\ cycles_ = 0
        /\ bad_seq_ = RecvSeqMod + 1 /\ count = 0 /\ ~first_pkt_
    BY DEF Init, RecvInit
  <2> QED BY <1>2, <2>1, <2>2, <2>3 DEF SeqInv
<1>8. LossInv
  BY DEF Init, RecvInit, LossInv
<1> QED BY <1>1, <1>3, <1>4, <1>5, <1>6, <1>7, <1>8 DEF ReportInv

-----------------------------------------------------------------------------
(* The sender keeps its own invariant: the other actions do not touch it.  *)
LEMMA SendStep ==
  ASSUME ReportInv, [Next]_reportVars
  PROVE  SendInv'
<1>1. SendInv
  BY DEF ReportInv
<1>2. ASSUME NEW n \in 1 .. MaxBurst, Send(n) PROVE SendInv'
  BY <1>1, <1>2, SendVideoPacketInv DEF Send
<1>3. ASSUME NEW s \in 0 .. SendSeqMod - 1, Nack(s) PROVE SendInv'
  <2>1. {s} \subseteq Int
    BY SendConstants
  <2> QED BY <1>1, <1>3, <2>1, HandleRtcpNackInv DEF Nack
<1>4. ASSUME SenderTimer PROVE SendInv'
  BY <1>1, <1>4, SendOnTimerInv DEF SenderTimer
<1>5. ASSUME NEW m, DeliverRr(m) PROVE SendInv'
  BY <1>1, <1>5, HandleRtcpRrInv DEF DeliverRr
<1>6. ASSUME Tick PROVE SendInv'
  BY <1>1, <1>6, SendTickInv DEF Tick
<1>7. ASSUME UNCHANGED sendVars PROVE SendInv'
  BY <1>1, <1>7, SendUnchangedInv
<1>8. ASSUME NEW j, Restart(j) PROVE UNCHANGED sendVars
  BY <1>8 DEF Restart
<1>9. ASSUME NEW i, Receive(i) PROVE UNCHANGED sendVars
  BY <1>9 DEF Receive
<1>10. ASSUME ReceiverTimer PROVE UNCHANGED sendVars
  BY <1>10 DEF ReceiverTimer
<1>11. ASSUME AskKeyFrame PROVE UNCHANGED sendVars
  BY <1>11 DEF AskKeyFrame
<1>12. ASSUME NEW m, DeliverSr(m) \/ DeliverRrt(m) \/ DeliverDlrr(m) PROVE UNCHANGED sendVars
  BY <1>12 DEF DeliverSr, DeliverRrt, DeliverDlrr
<1>13. ASSUME UNCHANGED reportVars PROVE UNCHANGED sendVars
  BY <1>13 DEF reportVars
<1> QED
  BY <1>2, <1>3, <1>4, <1>5, <1>6, <1>7, <1>8, <1>9, <1>10, <1>11, <1>12, <1>13 DEF Next

(* Messages have the fields that the handlers read.                        *)
LEMMA MessageTypes ==
  ASSUME ReportInv, NEW m \in net
  PROVE  /\ MessageInv(m) /\ m.at \in Int
         /\ m.kind \in {"rr", "dlrr"} => m.flown \in Int
BY DEF ReportInv, TimeInv, MessageInv

LEMMA HistStep ==
  ASSUME ReportInv, [Next]_reportVars
  PROVE  HistType'
<1>1. HistType /\ ClockInv /\ SeqInv /\ sent \in Nat
  BY DEF ReportInv, SendInv
<1>2. ASSUME NEW i \in 0 .. sent - 1, Receive(i) PROVE HistType'
  <2>1. i \in Int
    BY <1>1
  <2> QED BY <1>1, <1>2, <2>1, ReceiveHist
<1>3. ASSUME ReceiverTimer PROVE HistType'
  <2>1. Cardinality(Holes) \in Int
    BY <1>1, NewestAndHoles
  <2> QED BY <1>1, <1>3, <2>1, ReceiverTimerHist
<1>4. ASSUME AskKeyFrame PROVE HistType'
  BY <1>1, <1>4, AskKeyFrameHist
<1>5. ASSUME NEW m \in net, DeliverSr(m) PROVE HistType'
  BY <1>1, <1>5, MessageTypes, DeliverSrHist
<1>6. ASSUME NEW m \in net, DeliverRr(m) PROVE HistType'
  <2>1. m.kind = "rr"
    BY <1>6 DEF DeliverRr
  <2>2. m.at \in Int /\ m.flown \in Int
    BY <2>1, MessageTypes
  <2> QED BY <1>1, <1>6, <2>2, DeliverRrHist
<1>7. ASSUME NEW m \in net, DeliverRrt(m) PROVE HistType'
  BY <1>1, <1>7, MessageTypes, DeliverRrtHist
<1>8. ASSUME NEW m \in net, DeliverDlrr(m) PROVE HistType'
  <2>1. m.kind = "dlrr"
    BY <1>8 DEF DeliverDlrr
  <2>2. m.at \in Int /\ m.flown \in Int
    BY <2>1, MessageTypes
  <2> QED BY <1>1, <1>8, <2>2, DeliverDlrrHist
<1>9. ASSUME UNCHANGED hist PROVE HistType'
  BY <1>1, <1>9 DEF HistType
<1>10. ASSUME NEW n, Send(n) PROVE UNCHANGED hist
  BY <1>10 DEF Send
<1>11. ASSUME NEW j, Restart(j) PROVE UNCHANGED hist
  BY <1>11 DEF Restart
<1>12. ASSUME NEW s, Nack(s) PROVE UNCHANGED hist
  BY <1>12 DEF Nack
<1>13. ASSUME SenderTimer PROVE UNCHANGED hist
  BY <1>13 DEF SenderTimer
<1>14. ASSUME Tick PROVE UNCHANGED hist
  BY <1>14 DEF Tick
<1>15. ASSUME UNCHANGED reportVars PROVE UNCHANGED hist
  BY <1>15 DEF reportVars
<1> QED
  BY <1>2, <1>3, <1>4, <1>5, <1>6, <1>7, <1>8, <1>9, <1>10, <1>11, <1>12, <1>13,
     <1>14, <1>15 DEF Next

LEMMA ClockStep ==
  ASSUME ReportInv, [Next]_reportVars
  PROVE  ClockInv' /\ now <= now' /\ sent <= sent'
<1>1. ClockInv /\ sent \in Nat
  BY DEF ReportInv, SendInv
<1> DEFINE Same == UNCHANGED <<now, start, link, sent>>
<1>2. ASSUME Same PROVE ClockInv' /\ now <= now' /\ sent <= sent'
  BY <1>1, <1>2 DEF ClockInv
<1>3. ASSUME NEW n \in 1 .. MaxBurst, Send(n) PROVE ClockInv' /\ now <= now' /\ sent <= sent'
  <2>1. UNCHANGED <<now, start, link>> /\ sent' = sent + n /\ sent' <= link.sent
    BY <1>3 DEF Send, SendVideoPacket, clockVars
  <2>2. link.sent \in 0 .. MaxSent /\ MaxSent \in Nat /\ n \in Nat
    BY <1>1, ReportAssumption, SendConstants DEF ClockInv
  <2> QED BY <1>1, <2>1, <2>2 DEF ClockInv
<1>4. ASSUME Tick PROVE ClockInv' /\ now <= now' /\ sent <= sent'
  <2>1. UNCHANGED <<start, link, sent>> /\ now' = now + 1
    BY <1>4 DEF Tick, SendTick
  <2> QED BY <1>1, <2>1 DEF ClockInv
<1>5. ASSUME NEW j, Restart(j) PROVE Same
  BY <1>5 DEF Restart, clockVars, sendVars
<1>6. ASSUME NEW i, Receive(i) PROVE Same
  BY <1>6 DEF Receive, clockVars, sendVars
<1>7. ASSUME NEW s, Nack(s) PROVE Same
  BY <1>7 DEF Nack, clockVars, HandleRtcpNack
<1>8. ASSUME SenderTimer PROVE Same
  BY <1>8 DEF SenderTimer, SendOnTimer
<1>9. ASSUME ReceiverTimer PROVE Same
  BY <1>9 DEF ReceiverTimer, sendVars
<1>10. ASSUME AskKeyFrame PROVE Same
  BY <1>10 DEF AskKeyFrame, sendVars, clockVars
<1>11. ASSUME NEW m, DeliverSr(m) \/ DeliverRrt(m) \/ DeliverDlrr(m) PROVE Same
  BY <1>11 DEF DeliverSr, DeliverRrt, DeliverDlrr, sendVars, clockVars
<1>12. ASSUME NEW m, DeliverRr(m) PROVE Same
  BY <1>12 DEF DeliverRr, HandleRtcpRr, clockVars
<1>13. ASSUME UNCHANGED reportVars PROVE Same
  BY <1>13 DEF reportVars, sendVars, clockVars
<1> QED
  BY <1>2, <1>3, <1>4, <1>5, <1>6, <1>7, <1>8, <1>9, <1>10, <1>11, <1>12, <1>13 DEF Next

LEMMA KeyStep ==
  ASSUME ReportInv, [Next]_reportVars
  PROVE  KeyInv'
<1>1. /\ KeyInv /\ HistType /\ ClockInv /\ SeqInv /\ sent \in Nat /\ now \in Nat
      /\ KeyGap \in Nat /\ 0 < KeyGap
  BY RecvConstants DEF ReportInv, SendInv, ClockInv
<1> DEFINE Same == UNCHANGED <<now, due, last_keyframe_ms_>> /\ hist'.pli = hist.pli
<1>2. ASSUME Same PROVE KeyInv'
  BY <1>1, <1>2 DEF KeyInv, KeyFrameSoon
<1>3. ASSUME SenderTimer PROVE KeyInv'
  <2>1. UNCHANGED <<now, last_keyframe_ms_, hist>> /\ due' = due \ {"send"}
    BY <1>3 DEF SenderTimer, recvVars
  <2>2. "recv" \notin due' => "recv" \notin due
    BY <2>1
  <2> QED BY <1>1, <2>1, <2>2 DEF KeyInv, KeyFrameSoon
<1>4. ASSUME ReceiverTimer PROVE KeyInv'
  <2>1. Cardinality(Holes) \in Int
    BY <1>1, NewestAndHoles
  <2>2. hist'.pli = IF KeyFrameDue(now) THEN now ELSE hist.pli
    BY <1>1, <1>4, <2>1, ReceiverTimerHist
  <2>3. last_keyframe_ms_' = KeyFrameAt(now) /\ now' = now
    BY <1>4 DEF ReceiverTimer
  <2>4. last_keyframe_ms_' = hist'.pli
    BY <1>1, <2>2, <2>3 DEF KeyInv, KeyFrameAt
  <2>5. CASE KeyFrameDue(now)
    BY <1>1, <2>2, <2>3, <2>4, <2>5 DEF KeyInv, KeyFrameSoon, Never
  <2>6. CASE ~KeyFrameDue(now)
    <3>1. hist.pli # Never /\ ~(now - hist.pli >= KeyGap)
      BY <1>1, <2>6 DEF KeyInv, KeyFrameDue
    <3> QED BY <1>1, <2>2, <2>3, <2>4, <2>6, <3>1 DEF KeyInv, KeyFrameSoon
  <2> QED BY <2>5, <2>6
<1>5. ASSUME AskKeyFrame PROVE KeyInv'
  <2>1. hist'.pli = now /\ last_keyframe_ms_' = now /\ now' = now
    BY <1>1, <1>5, AskKeyFrameHist DEF AskKeyFrame, RequestKeyFrameNow, clockVars
  <2> QED BY <1>1, <2>1 DEF KeyInv, KeyFrameSoon, Never
<1>6. ASSUME Tick PROVE KeyInv'
  <2>1. UNCHANGED <<last_keyframe_ms_, hist>> /\ now' = now + 1 /\ "recv" \in due'
    BY <1>6 DEF Tick, recvVars
  <2> QED BY <1>1, <2>1 DEF KeyInv, KeyFrameSoon
<1>7. ASSUME NEW n, Send(n) PROVE Same
  BY <1>7 DEF Send, recvVars, clockVars
<1>8. ASSUME NEW j, Restart(j) PROVE Same
  BY <1>8 DEF Restart, recvVars, clockVars
<1>9. ASSUME NEW i \in 0 .. sent - 1, Receive(i) PROVE Same
  <2>1. i \in Int
    BY <1>1
  <2>2. hist'.pli = hist.pli
    BY <1>1, <1>9, <2>1, ReceiveHist
  <2> QED BY <1>9, <2>2 DEF Receive, HandleRtpPacket, clockVars
<1>10. ASSUME NEW s, Nack(s) PROVE Same
  BY <1>10 DEF Nack, recvVars, clockVars
<1>11. ASSUME NEW m \in net, DeliverSr(m) PROVE Same
  <2>1. hist'.pli = hist.pli
    BY <1>1, <1>11, MessageTypes, DeliverSrHist
  <2> QED BY <1>11, <2>1 DEF DeliverSr, HandleRtcpSr, clockVars
<1>12. ASSUME NEW m \in net, DeliverRr(m) PROVE Same
  <2>1. m.kind = "rr"
    BY <1>12 DEF DeliverRr
  <2>2. m.at \in Int /\ m.flown \in Int
    BY <2>1, MessageTypes
  <2>3. hist'.pli = hist.pli
    BY <1>1, <1>12, <2>2, DeliverRrHist
  <2> QED BY <1>12, <2>3 DEF DeliverRr, recvVars, clockVars
<1>13. ASSUME NEW m \in net, DeliverRrt(m) PROVE Same
  <2>1. hist'.pli = hist.pli
    BY <1>1, <1>13, MessageTypes, DeliverRrtHist
  <2> QED BY <1>13, <2>1 DEF DeliverRrt, recvVars, clockVars
<1>14. ASSUME NEW m \in net, DeliverDlrr(m) PROVE Same
  <2>1. m.kind = "dlrr"
    BY <1>14 DEF DeliverDlrr
  <2>2. m.at \in Int /\ m.flown \in Int
    BY <2>1, MessageTypes
  <2>3. hist'.pli = hist.pli
    BY <1>1, <1>14, <2>2, DeliverDlrrHist
  <2> QED BY <1>14, <2>3 DEF DeliverDlrr, recvVars, clockVars
<1>15. ASSUME UNCHANGED reportVars PROVE Same
  BY <1>15 DEF reportVars, recvVars, clockVars
<1> QED
  BY <1>2, <1>3, <1>4, <1>5, <1>6, <1>7, <1>8, <1>9, <1>10, <1>11, <1>12, <1>13,
     <1>14, <1>15 DEF Next

-----------------------------------------------------------------------------
(* The reports that are sent tell the truth about the times.               *)
LEMMA SrPacketInv ==
  ASSUME ReportInv, now' = now, NEW m, m = SrPacket \/ m = RrtPacket
  PROVE  MessageInv(m)'
<1>1. m.at = now /\ m.kind \in {"sr", "rrt"} /\ m.ntp = Compact(now)
  BY DEF SrPacket, RrtPacket
<1>2. now \in Nat /\ MaxDelay \in Nat
  BY ReportAssumption DEF ReportInv, ClockInv
<1> QED BY <1>1, <1>2 DEF MessageInv

LEMMA DlrrPacketInv ==
  ASSUME ReportInv, now' = now, NEW m \in SendXrDlrr
  PROVE  MessageInv(m)'
<1>1. now \in Nat /\ MaxDelay \in Nat
  BY ReportAssumption DEF ReportInv, ClockInv
<1>2. last_xr_ms_ # Never /\ m = DlrrPacket(last_xr_ntp_, Units(now - last_xr_ms_))
  BY DEF SendXrDlrr
<1>3. /\ m.at = now /\ m.kind = "dlrr" /\ m.flown = hist.rrtFlown
      /\ m.lrr = last_xr_ntp_ /\ m.dlrr = Units(now - last_xr_ms_)
  BY <1>2 DEF DlrrPacket
<1>4. Remembers(last_xr_ms_, last_xr_ntp_, hist.rrtFlown)
  BY <1>2 DEF ReportInv, TimeInv
<1>5. Answers(m, m.lrr, m.dlrr) /\ m.flown \in Int
  BY <1>1, <1>3, <1>4 DEF Remembers, Answers
<1> QED BY <1>1, <1>3, <1>5 DEF MessageInv

LEMMA RrPacketInv ==
  ASSUME ReportInv, now' = now, NEW m, m = RrPacket
  PROVE  MessageInv(m)'
<1>1. now \in Nat /\ MaxDelay \in Nat
  BY ReportAssumption DEF ReportInv, ClockInv
<1>2. /\ m.at = now /\ m.kind = "rr" /\ m.flown = hist.srFlown /\ m.block = RrBlock(now)
  BY DEF RrPacket
<1>3. /\ m.block.lsr = lsr_
      /\ m.block.dlsr = IF last_sr_ms_ = Never THEN 0 ELSE Units(now - last_sr_ms_)
  BY <1>2 DEF RrBlock
<1>4. m.flown \in Int
  BY <1>2 DEF ReportInv, HistType
<1>5. CASE last_sr_ms_ = Never /\ lsr_ = 0
  BY <1>1, <1>2, <1>3, <1>4, <1>5 DEF MessageInv
<1>6. CASE Remembers(last_sr_ms_, lsr_, hist.srFlown)
  <2>1. last_sr_ms_ # Never
    BY <1>6 DEF Remembers, Never
  <2>2. Answers(m, m.block.lsr, m.block.dlsr)
    BY <1>1, <1>2, <1>3, <1>6, <2>1 DEF Remembers, Answers
  <2> QED BY <1>1, <1>2, <1>4, <2>2 DEF MessageInv
<1> QED BY <1>5, <1>6 DEF ReportInv, TimeInv

(* What the sender of a report derives from the answer.                    *)
LEMMA RttOfBlock ==
  ASSUME ReportInv, NEW m \in net, m.kind = "rr", m.block.lsr # 0
  PROVE  Rtt(m.block) \in {0} \cup (Units(m.flown + now - m.at) ..
                                    Units(m.flown + now - m.at) + 2)
<1>1. Answers(m, m.block.lsr, m.block.dlsr) /\ m.at \in 0 .. now /\ now - m.at <= MaxDelay
  BY DEF ReportInv, TimeInv, MessageInv
<1>2. PICK t \in 0 .. m.at :
        /\ m.flown \in 0 .. MaxDelay /\ m.flown <= t
        /\ m.block.dlsr = Units(m.at - t) /\ m.block.lsr = Compact(t - m.flown)
  BY <1>1 DEF Answers
<1>3. now \in Nat
  BY DEF ReportInv, ClockInv
<1>4. /\ m.at \in Nat /\ t \in Nat /\ t <= m.at /\ m.at <= now
  BY <1>1, <1>3
<1>5. (Compact(now) - m.block.dlsr - m.block.lsr) % NtpMod
         \in Units(m.flown + now - m.at) .. Units(m.flown + now - m.at) + 2
  BY <1>1, <1>2, <1>3, <1>4, RoundTrip
<1> QED BY <1>5 DEF Rtt

LEMMA XrOfAnswer ==
  ASSUME ReportInv, NEW m \in net, m.kind = "dlrr"
  PROVE  (Compact(now) - m.dlrr - m.lrr) % NtpMod
            \in Units(m.flown + now - m.at) .. Units(m.flown + now - m.at) + 2
<1>1. Answers(m, m.lrr, m.dlrr) /\ m.at \in 0 .. now /\ now - m.at <= MaxDelay
  BY DEF ReportInv, TimeInv, MessageInv
<1>2. PICK t \in 0 .. m.at :
        /\ m.flown \in 0 .. MaxDelay /\ m.flown <= t
        /\ m.dlrr = Units(m.at - t) /\ m.lrr = Compact(t - m.flown)
  BY <1>1 DEF Answers
<1>3. now \in Nat
  BY DEF ReportInv, ClockInv
<1>4. /\ m.at \in Nat /\ t \in Nat /\ t <= m.at /\ m.at <= now
  BY <1>1, <1>3
<1> QED BY <1>1, <1>2, <1>3, <1>4, RoundTrip

LEMMA TimeStep ==
  ASSUME ReportInv, [Next]_reportVars
  PROVE  TimeInv'
<1>1. /\ TimeInv /\ HistType /\ ClockInv /\ SeqInv /\ sent \in Nat /\ now \in Nat
      /\ MaxDelay \in Nat
  BY ReportAssumption DEF ReportInv, SendInv, ClockInv
<1> DEFINE Sr == (last_sr_ms_ = Never /\ lsr_ = 0) \/ Remembers(last_sr_ms_, lsr_, hist.srFlown)
           Xr == last_xr_ms_ = Never \/ Remembers(last_xr_ms_, last_xr_ntp_, hist.rrtFlown)
           Net == \A m \in net : MessageInv(m)
           SrSame == UNCHANGED <<last_sr_ms_, lsr_>> /\ hist'.srFlown = hist.srFlown
           XrSame == UNCHANGED <<last_xr_ms_, last_xr_ntp_>> /\ hist'.rrtFlown = hist.rrtFlown
           RttSame == UNCHANGED rtt_ /\ hist'.rtt = hist.rtt
           XrRttSame == UNCHANGED xr_rtt /\ hist'.xr = hist.xr
           NetSame == now' = now /\ \A m \in net' : m \in net \/ MessageInv(m)'
<1>2. ASSUME SrSame, now <= now', now' \in Nat PROVE Sr'
  <2>1. CASE last_sr_ms_ = Never /\ lsr_ = 0
    BY <1>2, <2>1
  <2>2. CASE Remembers(last_sr_ms_, lsr_, hist.srFlown)
    BY <1>1, <1>2, <2>2 DEF Remembers
  <2> QED BY <1>1, <2>1, <2>2 DEF TimeInv
<1>3. ASSUME XrSame, now <= now', now' \in Nat PROVE Xr'
  <2>1. CASE last_xr_ms_ = Never
    BY <1>3, <2>1
  <2>2. CASE Remembers(last_xr_ms_, last_xr_ntp_, hist.rrtFlown)
    BY <1>1, <1>3, <2>2 DEF Remembers
  <2> QED BY <1>1, <2>1, <2>2 DEF TimeInv
<1>4. ASSUME NetSame PROVE Net'
  <2>1. ASSUME NEW m \in net PROVE MessageInv(m)'
    BY <1>1, <1>4, <2>1 DEF TimeInv, MessageInv
  <2> QED BY <1>4, <2>1
<1>5. RttSame => RttExactOrZero'
  BY <1>1 DEF TimeInv, RttExactOrZero
<1>6. XrRttSame => XrRttExact'
  BY <1>1 DEF TimeInv, XrRttExact
<1>7. Sr' /\ Xr' /\ Net' /\ RttExactOrZero' /\ XrRttExact' => TimeInv'
  BY DEF TimeInv
<1>8. now <= now' /\ now' \in Nat
  BY ClockStep DEF ClockInv
<1>9. ASSUME SrSame, XrSame, RttSame, XrRttSame, NetSame PROVE TimeInv'
  <2>1. Sr' /\ Xr'
    BY <1>2, <1>3, <1>8, <1>9
  <2>2. Net'
    BY <1>4, <1>9
  <2> QED BY <1>5, <1>6, <1>7, <1>9, <2>1, <2>2
<1> DEFINE Same == SrSame /\ XrSame /\ RttSame /\ XrRttSame /\ NetSame
<1>10. ASSUME NEW n, Send(n) PROVE Same
  <2>1. SrSame /\ XrSame /\ RttSame /\ XrRttSame /\ now' = now
    BY <1>10 DEF Send, recvVars, pcVars, clockVars
  <2>2. ASSUME NEW m \in net' PROVE m \in net \/ m = SrPacket
    BY <1>10 DEF Send, Transmit
  <2> QED BY <2>1, <2>2, SrPacketInv
<1>11. ASSUME NEW j, Restart(j) PROVE Same
  BY <1>11 DEF Restart, recvVars, pcVars, clockVars
<1>12. ASSUME NEW i \in 0 .. sent - 1, Receive(i) PROVE Same
  <2>1. i \in Int
    BY <1>1
  <2>2. /\ hist'.srFlown = hist.srFlown /\ hist'.rrtFlown = hist.rrtFlown
        /\ hist'.rtt = hist.rtt /\ hist'.xr = hist.xr
    BY <1>1, <1>12, <2>1, ReceiveHist
  <2> QED BY <1>12, <2>2 DEF Receive, HandleRtpPacket, pcVars, clockVars
<1>13. ASSUME NEW k, Nack(k) PROVE Same
  BY <1>13 DEF Nack, recvVars, pcVars, clockVars
<1>14. ASSUME SenderTimer PROVE Same
  <2>1. SrSame /\ XrSame /\ RttSame /\ XrRttSame /\ now' = now
    BY <1>14 DEF SenderTimer, recvVars
  <2>2. ASSUME NEW m \in net' PROVE m \in net \/ m = SrPacket \/ m \in SendXrDlrr
    BY <1>14 DEF SenderTimer, Transmit
  <2> QED BY <2>1, <2>2, SrPacketInv, DlrrPacketInv
<1>15. ASSUME ReceiverTimer PROVE Same
  <2>1. Cardinality(Holes) \in Int
    BY <1>1, NewestAndHoles
  <2>2. /\ hist'.srFlown = hist.srFlown /\ hist'.rrtFlown = hist.rrtFlown
        /\ hist'.rtt = hist.rtt /\ hist'.xr = hist.xr
    BY <1>1, <1>15, <2>1, ReceiverTimerHist
  <2>3. SrSame /\ XrSame /\ RttSame /\ XrRttSame /\ now' = now
    BY <1>15, <2>2 DEF ReceiverTimer
  <2>4. ASSUME NEW m \in net' PROVE m \in net \/ m = RrtPacket \/ m = RrPacket
    BY <1>15 DEF ReceiverTimer, Transmit, SendXrRrt
  <2> QED BY <2>3, <2>4, SrPacketInv, RrPacketInv
<1>16. ASSUME AskKeyFrame PROVE Same
  <2>1. /\ hist'.srFlown = hist.srFlown /\ hist'.rrtFlown = hist.rrtFlown
        /\ hist'.rtt = hist.rtt /\ hist'.xr = hist.xr
    BY <1>1, <1>16, AskKeyFrameHist
  <2> QED BY <1>16, <2>1 DEF AskKeyFrame, RequestKeyFrameNow, pcVars, clockVars
<1>17. ASSUME UNCHANGED reportVars PROVE Same
  BY <1>17 DEF reportVars, recvVars, pcVars, clockVars
<1>18. ASSUME NEW m \in net, DeliverSr(m) PROVE TimeInv'
  <2>1. MessageInv(m) /\ m.at \in Int
    BY MessageTypes
  <2>2. /\ hist'.srFlown = now - m.at /\ hist'.rrtFlown = hist.rrtFlown
        /\ hist'.rtt = hist.rtt /\ hist'.xr = hist.xr
    BY <1>1, <1>18, <2>1, DeliverSrHist
  <2>3. /\ m.kind = "sr" /\ now' = now /\ lsr_' = m.ntp /\ last_sr_ms_' = now
        /\ UNCHANGED <<last_xr_ms_, last_xr_ntp_, rtt_, xr_rtt>> /\ net' \subseteq net
    BY <1>18 DEF DeliverSr, HandleRtcpSr, Taken, pcVars, clockVars
  <2>4. now - (now - m.at) = m.at
    BY <1>1, <2>1
  <2>5. Sr'
    BY <1>1, <2>1, <2>2, <2>3, <2>4 DEF MessageInv, Remembers
  <2>6. XrSame /\ RttSame /\ XrRttSame /\ NetSame
    BY <2>2, <2>3
  <2>7. Xr'
    BY <1>3, <1>8, <2>6
  <2>8. Net'
    BY <1>4, <2>6
  <2> QED BY <1>5, <1>6, <1>7, <2>5, <2>6, <2>7, <2>8
<1>19. ASSUME NEW m \in net, DeliverRrt(m) PROVE TimeInv'
  <2>1. MessageInv(m) /\ m.at \in Int
    BY MessageTypes
  <2>2. /\ hist'.rrtFlown = now - m.at /\ hist'.srFlown = hist.srFlown
        /\ hist'.rtt = hist.rtt /\ hist'.xr = hist.xr
    BY <1>1, <1>19, <2>1, DeliverRrtHist
  <2>3. /\ m.kind = "rrt" /\ now' = now /\ last_xr_ntp_' = m.ntp /\ last_xr_ms_' = now
        /\ UNCHANGED <<last_sr_ms_, lsr_, rtt_, xr_rtt>> /\ net' \subseteq net
    BY <1>19 DEF DeliverRrt, Taken, recvVars, clockVars
  <2>4. now - (now - m.at) = m.at
    BY <1>1, <2>1
  <2>5. Xr'
    BY <1>1, <2>1, <2>2, <2>3, <2>4 DEF MessageInv, Remembers
  <2>6. SrSame /\ RttSame /\ XrRttSame /\ NetSame
    BY <2>2, <2>3
  <2>7. Sr'
    BY <1>2, <1>8, <2>6
  <2>8. Net'
    BY <1>4, <2>6
  <2> QED BY <1>5, <1>6, <1>7, <2>5, <2>6, <2>7, <2>8
<1>20. ASSUME NEW m \in net, DeliverRr(m) PROVE TimeInv'
  <2>1. m.kind = "rr"
    BY <1>20 DEF DeliverRr
  <2>2. m.at \in Int /\ m.flown \in Int
    BY <2>1, MessageTypes
  <2>3. /\ hist'.rtt = m.flown + now - m.at /\ hist'.rrtFlown = hist.rrtFlown
        /\ hist'.srFlown = hist.srFlown /\ hist'.xr = hist.xr
    BY <1>1, <1>20, <2>2, DeliverRrHist
  <2>4. /\ now' = now /\ rtt_' = IF m.block.lsr = 0 THEN NoRtt ELSE Rtt(m.block)
        /\ UNCHANGED <<last_sr_ms_, lsr_, last_xr_ms_, last_xr_ntp_, xr_rtt>>
        /\ net' \subseteq net
    BY <1>20 DEF DeliverRr, Taken, recvVars, pcVars, clockVars
  <2>5. RttExactOrZero'
    <3>1. CASE m.block.lsr = 0
      BY <2>4, <3>1 DEF RttExactOrZero
    <3>2. CASE m.block.lsr # 0
      <4>1. Rtt(m.block) \in {0} \cup (Units(hist'.rtt) .. Units(hist'.rtt) + 2)
        BY <2>1, <2>3, <3>2, RttOfBlock
      <4> QED BY <2>4, <3>2, <4>1 DEF RttExactOrZero
    <3> QED BY <3>1, <3>2
  <2>6. SrSame /\ XrSame /\ XrRttSame /\ NetSame
    BY <2>3, <2>4
  <2>7. Sr' /\ Xr'
    BY <1>2, <1>3, <1>8, <2>6
  <2>8. Net'
    BY <1>4, <2>6
  <2> QED BY <1>6, <1>7, <2>5, <2>6, <2>7, <2>8
<1>21. ASSUME NEW m \in net, DeliverDlrr(m) PROVE TimeInv'
  <2>1. m.kind = "dlrr"
    BY <1>21 DEF DeliverDlrr
  <2>2. m.at \in Int /\ m.flown \in Int
    BY <2>1, MessageTypes
  <2>3. /\ hist'.rtt = hist.rtt /\ hist'.rrtFlown = hist.rrtFlown
        /\ hist'.srFlown = hist.srFlown
        /\ hist'.xr = IF Compact(now) < (m.dlrr + m.lrr) % NtpMod THEN hist.xr
                      ELSE m.flown + now - m.at
    BY <1>1, <1>21, <2>2, DeliverDlrrHist
  <2>4. /\ now' = now /\ xr_rtt' = XrSample(m)
        /\ UNCHANGED <<last_sr_ms_, lsr_, last_xr_ms_, last_xr_ntp_, rtt_>>
        /\ net' \subseteq net
    BY <1>21 DEF DeliverDlrr, Taken, recvVars, pcVars, clockVars
  <2>5. XrRttExact'
    <3>1. CASE Compact(now) < (m.dlrr + m.lrr) % NtpMod
      BY <1>6, <2>3, <2>4, <3>1 DEF XrSample
    <3>2. CASE ~(Compact(now) < (m.dlrr + m.lrr) % NtpMod)
      <4>1. (Compact(now) - m.dlrr - m.lrr) % NtpMod
               \in Units(hist'.xr) .. Units(hist'.xr) + 2
        BY <2>1, <2>3, <3>2, XrOfAnswer
      <4>2. xr_rtt' = (Compact(now) - m.dlrr - m.lrr) % NtpMod
        BY <2>4, <3>2 DEF XrSample
      <4> QED BY <4>1, <4>2 DEF XrRttExact
    <3> QED BY <3>1, <3>2
  <2>6. SrSame /\ XrSame /\ RttSame /\ NetSame
    BY <2>3, <2>4
  <2>7. Sr' /\ Xr'
    BY <1>2, <1>3, <1>8, <2>6
  <2>8. Net'
    BY <1>4, <2>6
  <2> QED BY <1>5, <1>7, <2>5, <2>6, <2>7, <2>8
<1>22. Same => TimeInv'
  BY <1>9
<1>23. ASSUME Tick PROVE TimeInv'
  <2>1. /\ now' = now + 1 /\ net' = {m \in net : now - m.at < MaxDelay}
        /\ SrSame /\ XrSame /\ RttSame /\ XrRttSame
    BY <1>23 DEF Tick, recvVars, pcVars
  <2>2. Sr' /\ Xr'
    BY <1>2, <1>3, <1>8, <2>1
  <2>3. ASSUME NEW m \in net' PROVE MessageInv(m)'
    <3>1. m \in net /\ now - m.at < MaxDelay
      BY <2>1
    <3>2. MessageInv(m)
      BY <1>1, <3>1 DEF TimeInv
    <3> QED BY <1>1, <2>1, <3>1, <3>2 DEF MessageInv
  <2> QED BY <1>5, <1>6, <1>7, <2>1, <2>2, <2>3
<1> QED
  BY <1>10, <1>11, <1>12, <1>13, <1>14, <1>15, <1>16, <1>17, <1>18, <1>19, <1>20,
     <1>21, <1>22, <1>23 DEF Next

-----------------------------------------------------------------------------
(* A number within the windows of the receiver is classified rightly: it   *)
(* moves the extended number by as much as the position, or not at all.    *)
LEMMA UpdateInStep ==
  ASSUME NEW i \in Int, NEW n \in Int, max_seq_ = WireSeq(n), cycles_ \in Int,
         n - MaxMisorder < i, i < n + MaxDropout, UpdateSeq(WireSeq(i))
  PROVE  /\ bad_seq_' = bad_seq_
         /\ n <= i => /\ max_seq_' = WireSeq(i)
                      /\ max_seq_' + cycles_' = max_seq_ + cycles_ + (i - n)
         /\ i < n => max_seq_' = max_seq_ /\ cycles_' = cycles_
<1> DEFINE M == RecvSeqMod
           a == FirstSeq + i
           b == FirstSeq + n
           v == WireSeq(i)
           w == WireSeq(n)
<1>1. /\ M \in Nat \ {0} /\ MaxDropout \in Nat /\ MaxMisorder \in Nat
      /\ MaxDropout + MaxMisorder < M /\ M = SendSeqMod /\ FirstSeq \in Int
  BY RecvConstants, ReportAssumption, SendConstants
<1>2. v \in 0 .. M - 1 /\ w \in 0 .. M - 1
  BY <1>1, SlotOfPosition
<1>3. v = a % M /\ w = b % M
  BY <1>1 DEF WireSeq
<1>4. a \in Int /\ b \in Int /\ a - b = i - n
  BY <1>1
<1>5. UpdateSeq(v) /\ max_seq_ = w
  OBVIOUS
<1>6. IF (v - max_seq_) % M < MaxDropout
      THEN /\ cycles_' = IF v < max_seq_ THEN cycles_ + M ELSE cycles_
           /\ max_seq_' = v /\ UNCHANGED bad_seq_
      ELSE IF (v - max_seq_) % M > M - MaxMisorder
      THEN UNCHANGED <<max_seq_, cycles_, bad_seq_>>
      ELSE IF v = bad_seq_ THEN InitSeq(v)
      ELSE bad_seq_' = (v + 1) % M /\ UNCHANGED <<max_seq_, cycles_>>
  BY <1>5, Zenon DEF UpdateSeq
<1> HIDE DEF M, a, b, v, w
<1>7. (v - w) % M = (i - n) % M
  <2>1. (v - (b % M)) % M = (v - b) % M
    <3>1. v \in Int
      BY <1>1, <1>2
    <3> QED BY <1>1, <1>4, <3>1, ModSub
  <2> DEFINE c == 0 - b
  <2>2. c \in Int /\ a + c = i - n
    BY <1>4
  <2>3. v - b = (a % M) + c
    <3>1. a % M \in Int
      BY <1>1, <1>2, <1>3
    <3> DEFINE e == a % M
    <3>2. e \in Int /\ v = e
      BY <1>3, <3>1
    <3> HIDE DEF e
    <3>3. v - b = e + c
      BY <1>4, <3>2
    <3> QED BY <3>3 DEF e
  <2> HIDE DEF c
  <2>4. ((a % M) + c) % M = (a + c) % M
    BY <1>1, <1>4, <2>2, ModAdd
  <2> QED BY <1>3, <2>1, <2>2, <2>3, <2>4
<1>8. ASSUME n <= i
      PROVE  /\ (v - w) % M = i - n /\ i - n < MaxDropout
             /\ IF v < w THEN v + M - w = i - n ELSE v - w = i - n
  <2> DEFINE d == i - n
             e == v - w
  <2>1. d \in 0 .. M - 1 /\ d < MaxDropout
    BY <1>1, <1>8
  <2>2. e \in Int /\ e + M \in Int /\ (v < w => e + M \in 0 .. M - 1)
        /\ (~(v < w) => e \in 0 .. M - 1)
    BY <1>1, <1>2
  <2> HIDE DEF d, e
  <2>3. d % M = d
    BY <1>1, <2>1, ModSmall
  <2>4. e % M = d
    BY <1>7, <2>3 DEF d, e
  <2>5. CASE v < w
    <3>1. (e + M) % M = e % M
      BY <1>1, <2>2, ModCycle
    <3>2. (e + M) % M = e + M
      BY <1>1, <2>2, <2>5, ModSmall
    <3>3. e + M = d
      BY <2>4, <3>1, <3>2
    <3>4. v + M - w = e + M
      BY <1>1, <1>2 DEF e
    <3> QED BY <2>1, <2>4, <2>5, <3>3, <3>4 DEF d, e
  <2>6. CASE ~(v < w)
    <3>1. e % M = e
      BY <1>1, <2>2, <2>6, ModSmall
    <3>2. e = d
      BY <2>4, <3>1
    <3> QED BY <2>1, <2>4, <2>6, <3>2 DEF d, e
  <2> QED BY <2>5, <2>6
<1>9. ASSUME i < n
      PROVE  ~((v - w) % M < MaxDropout) /\ (v - w) % M > M - MaxMisorder
  <2> DEFINE d == i - n
  <2>1. d \in Int /\ d + M \in 0 .. M - 1 /\ d + M > M - MaxMisorder /\ ~(d + M < MaxDropout)
    BY <1>1, <1>9
  <2> HIDE DEF d
  <2>2. (d + M) % M = d % M
    BY <1>1, <2>1, ModCycle
  <2>3. (d + M) % M = d + M
    BY <1>1, <2>1, ModSmall
  <2>4. (v - w) % M = d + M
    BY <1>7, <2>2, <2>3 DEF d
  <2> QED BY <2>1, <2>4
<1>10. ASSUME n <= i
       PROVE  /\ bad_seq_' = bad_seq_ /\ max_seq_' = v
              /\ max_seq_' + cycles_' = max_seq_ + cycles_ + (i - n)
  <2>1. /\ bad_seq_' = bad_seq_ /\ max_seq_' = v
        /\ cycles_' = IF v < w THEN cycles_ + M ELSE cycles_
    BY <1>5, <1>6, <1>8, <1>10
  <2>2. v \in Int /\ w \in Int /\ M \in Int
    BY <1>1, <1>2
  <2> QED BY <1>5, <1>8, <1>10, <2>1, <2>2
<1>11. ASSUME i < n
       PROVE  bad_seq_' = bad_seq_ /\ max_seq_' = max_seq_ /\ cycles_' = cycles_
  BY <1>5, <1>6, <1>9, <1>11
<1>12. n <= i \/ i < n
  OBVIOUS
<1> QED BY <1>10, <1>11, <1>12 DEF v

(* Whatever the number, the fields keep their ranges.                      *)
LEMMA UpdateTypes ==
  ASSUME max_seq_ \in 0 .. RecvSeqMod - 1, bad_seq_ \in 0 .. RecvSeqMod + 1,
         cycles_ \in Int, cycles_ % RecvSeqMod = 0,
         NEW seq \in 0 .. RecvSeqMod - 1, UpdateSeq(seq) \/ InitSeq(seq)
  PROVE  /\ max_seq_' \in 0 .. RecvSeqMod - 1 /\ bad_seq_' \in 0 .. RecvSeqMod + 1
         /\ cycles_' \in Int /\ cycles_' % RecvSeqMod = 0
<1>1. RecvSeqMod \in Nat \ {0} /\ 0 \in 0 .. RecvSeqMod - 1 /\ seq + 1 \in Int
  BY RecvConstants
<1>2. 0 % RecvSeqMod = 0
  BY <1>1, ModSmall
<1>3. (cycles_ + RecvSeqMod) % RecvSeqMod = 0 /\ cycles_ + RecvSeqMod \in Int
  <2>1. (cycles_ + RecvSeqMod) % RecvSeqMod = cycles_ % RecvSeqMod
    BY <1>1, ModCycle, Zenon
  <2> QED BY <1>1, <2>1
<1>4. (seq + 1) % RecvSeqMod \in 0 .. RecvSeqMod + 1
  <2>1. (seq + 1) % RecvSeqMod \in 0 .. RecvSeqMod - 1
    BY <1>1, DivMod
  <2> QED BY <1>1, <2>1
<1>5. RecvSeqMod + 1 \in 0 .. RecvSeqMod + 1
  BY <1>1
<1>6. /\ max_seq_' \in {seq, max_seq_}
      /\ bad_seq_' \in {bad_seq_, RecvSeqMod + 1, (seq + 1) % RecvSeqMod}
      /\ cycles_' \in {cycles_, cycles_ + RecvSeqMod, 0}
  <2>1. CASE InitSeq(seq)
    BY <2>1 DEF InitSeq
  <2>2. CASE UpdateSeq(seq)
    BY <2>2 DEF UpdateSeq, InitSeq
  <2> QED BY <2>1, <2>2
<1>7. max_seq_' \in 0 .. RecvSeqMod - 1
  BY <1>6
<1>8. bad_seq_' \in 0 .. RecvSeqMod + 1
  BY <1>4, <1>5, <1>6
<1>9. cycles_' \in Int /\ cycles_' % RecvSeqMod = 0
  BY <1>2, <1>3, <1>6
<1> QED BY <1>7, <1>8, <1>9

(* There is only one greatest element.                                     *)
LEMMA GreatestIs ==
  ASSUME NEW S \in SUBSET Int, NEW i \in S, \A j \in S : j <= i
  PROVE  (CHOOSE x \in S : \A j \in S : j <= x) = i
<1> DEFINE c == CHOOSE x \in S : \A j \in S : j <= x
<1>1. c \in S /\ \A j \in S : j <= c
  OBVIOUS
<1> HIDE DEF c
<1>2. c <= i /\ i <= c /\ c \in Int /\ i \in Int
  BY <1>1
<1>3. c = i
  BY <1>2
<1> QED BY <1>3 DEF c

(* What one more packet does to the newest position and to the holes.      *)
LEMMA ReceiveHoles ==
  ASSUME HistType, SeqInv, sent \in Nat, NEW i \in 0 .. sent - 1, rcvd # {},
         rcvd' = rcvd \cup {i}, hist'.first = hist.first
  PROVE  /\ Newest' = (IF Newest < i THEN i ELSE Newest) /\ NewestIs(Newest)'
         /\ Cardinality(Holes') =
              IF Newest < i THEN Cardinality(Holes) + (i - Newest - 1)
              ELSE IF i \in rcvd \/ i < hist.first THEN Cardinality(Holes)
              ELSE Cardinality(Holes) - 1
<1> DEFINE N == Newest
           F == hist.first
           H == Holes
<1>1. /\ N \in Int /\ NewestIs(N) /\ F \in 0 .. N /\ IsFiniteSet(H) /\ Cardinality(H) \in Nat
  BY NewestAndHoles
<1>2. rcvd \subseteq 0 .. sent - 1 /\ i \in Nat /\ F \in Int
  BY DEF SeqInv, HistType
<1>3. H = (F .. N) \ rcvd
  BY DEF Holes
<1>4. N \in rcvd /\ \A j \in rcvd : j <= N
  BY <1>1 DEF NewestIs
<1>5. rcvd' # {} /\ rcvd' \in SUBSET Int
  BY <1>2
<1>6. Newest' = CHOOSE x \in rcvd' : \A j \in rcvd' : j <= x
  BY <1>5 DEF Newest
<1>7. Holes' = (F .. Newest') \ rcvd'
  BY DEF Holes
<1> HIDE DEF N, F, H
<1>8. CASE N < i
  <2>1. i \in rcvd' /\ \A j \in rcvd' : j <= i
    <3>1. ASSUME NEW j \in rcvd PROVE j <= i
      <4>1. j <= N /\ j \in Int
        BY <1>2, <1>4
      <4> QED BY <1>1, <1>2, <1>8, <4>1
    <3> QED BY <1>2, <3>1
  <2>2. Newest' = i
    BY <1>5, <1>6, <2>1, GreatestIs
  <2> DEFINE G == (N + 1) .. (i - 1)
  <2>3. Holes' = H \cup G
    <3>1. Holes' = (F .. i) \ (rcvd \cup {i})
      BY <1>7, <2>2
    <3>2. ASSUME NEW x \in Int PROVE x \in Holes' <=> x \in H \cup G
      <4>1. x \in rcvd => x <= N
        BY <1>4
      <4> QED BY <1>1, <1>2, <1>3, <1>8, <3>1, <4>1
    <3>3. Holes' \subseteq Int /\ H \cup G \subseteq Int
      BY <1>3, <3>1
    <3> QED BY <3>2, <3>3
  <2>4. IsFiniteSet(G) /\ Cardinality(G) = i - N - 1
    <3>1. N + 1 \in Int /\ i - 1 \in Int
      BY <1>1, <1>2
    <3>2. IsFiniteSet(G) /\ Cardinality(G) = IF N + 1 > i - 1 THEN 0 ELSE (i - 1) - (N + 1) + 1
      BY <3>1, FS_Interval
    <3> QED BY <1>1, <1>2, <1>8, <3>1, <3>2
  <2>5. H \cap G = {}
    BY <1>1, <1>2, <1>3
  <2>6. Cardinality(H \cap G) = 0
    BY <2>5, FS_EmptySet
  <2> HIDE DEF G
  <2>7. Cardinality(H \cup G) = Cardinality(H) + Cardinality(G) - Cardinality(H \cap G)
    BY <1>1, <2>4, FS_Union
  <2>8. Cardinality(Holes') = Cardinality(H) + (i - N - 1)
    BY <1>1, <1>2, <2>3, <2>4, <2>6, <2>7
  <2>9. NewestIs(Newest)'
    BY <2>1, <2>2 DEF NewestIs
  <2> QED BY <1>8, <2>2, <2>8, <2>9 DEF N, H
<1>9. CASE ~(N < i)
  <2>1. N \in rcvd' /\ \A j \in rcvd' : j <= N
    BY <1>1, <1>2, <1>4, <1>9
  <2>2. Newest' = N
    BY <1>5, <1>6, <2>1, GreatestIs
  <2>3. Holes' = H \ {i}
    BY <1>3, <1>7, <2>2
  <2>4. Cardinality(H \ {i}) = IF i \in H THEN Cardinality(H) - 1 ELSE Cardinality(H)
    BY <1>1, FS_RemoveElement
  <2>5. i \in H <=> ~(i \in rcvd \/ i < F)
    BY <1>1, <1>2, <1>3, <1>9
  <2>6. NewestIs(Newest)'
    BY <2>1, <2>2 DEF NewestIs
  <2> QED BY <1>9, <2>2, <2>3, <2>4, <2>5, <2>6 DEF N, H, F
<1> QED BY <1>8, <1>9

LEMMA IntervalGrows ==
  ASSUME NEW a \in Int, NEW b \in Int, a <= b
  PROVE  0 .. (a - 1) \subseteq 0 .. (b - 1)
OBVIOUS

LEMMA SeqAtTypes ==
  ASSUME jumped \in Nat, offset \in Nat, NEW i \in Int
  PROVE  SeqAt(i) \in 0 .. RecvSeqMod - 1 /\ (jumped = 0 => SeqAt(i) = WireSeq(i))
<1> DEFINE a == FirstSeq + i + IF jumped # 0 /\ i >= jumped THEN offset ELSE 0
<1>1. a \in Int /\ SendSeqMod \in Nat \ {0} /\ SendSeqMod = RecvSeqMod
      /\ (jumped = 0 => a = FirstSeq + i)
  BY SendConstants, ReportAssumption
<1>2. SeqAt(i) = a % SendSeqMod
  BY DEF SeqAt
<1> HIDE DEF a
<1>3. a % SendSeqMod \in 0 .. SendSeqMod - 1
  BY <1>1, DivMod
<1> QED BY <1>1, <1>2, <1>3 DEF WireSeq

LEMMA ReceiveSeq ==
  ASSUME ReportInv, NEW i \in 0 .. sent - 1, Receive(i)
  PROVE  /\ SeqInv'
         /\ count' = count + 1
         /\ jumped = 0 /\ rcvd # {} => Extended <= Extended'
<1>1. /\ SeqInv /\ HistType /\ sent \in Nat /\ i \in Int /\ RecvSeqMod \in Nat \ {0}
  BY RecvConstants DEF ReportInv, SendInv
<1>2. /\ UNCHANGED <<sent, jumped, offset>> /\ rcvd' = rcvd \cup {i}
      /\ first_pkt_' = TRUE /\ count' = count + 1
      /\ IF first_pkt_ THEN UpdateSeq(SeqAt(i)) ELSE InitSeq(SeqAt(i))
  BY DEF Receive, HandleRtpPacket, sendVars
<1>3. /\ hist'.again = hist.again + (IF i \in rcvd \/ (rcvd # {} /\ i < hist.first)
                                     THEN 1 ELSE 0)
      /\ hist'.first = IF rcvd = {} THEN i ELSE hist.first
  BY <1>1, ReceiveHist
<1>4. /\ rcvd \subseteq 0 .. sent - 1 /\ jumped \in Nat /\ offset \in Nat /\ count \in Nat
      /\ max_seq_ \in 0 .. RecvSeqMod - 1 /\ bad_seq_ \in 0 .. RecvSeqMod + 1
      /\ cycles_ \in Int /\ cycles_ % RecvSeqMod = 0 /\ hist.again \in Int
  BY <1>1 DEF SeqInv, HistType
<1>5. SeqAt(i) \in 0 .. RecvSeqMod - 1 /\ (jumped = 0 => SeqAt(i) = WireSeq(i))
  BY <1>1, <1>4, SeqAtTypes
<1>6. /\ max_seq_' \in 0 .. RecvSeqMod - 1 /\ bad_seq_' \in 0 .. RecvSeqMod + 1
      /\ cycles_' \in Int /\ cycles_' % RecvSeqMod = 0
  BY <1>2, <1>4, <1>5, UpdateTypes
<1>7. /\ rcvd' \subseteq 0 .. sent' - 1 /\ jumped' \in Nat /\ offset' \in Nat
      /\ count' \in Nat /\ rcvd' # {} /\ 0 < count' /\ first_pkt_'
  BY <1>2, <1>4
<1>8. CASE rcvd = {}
  <2>1. InitSeq(SeqAt(i)) /\ count = 0 /\ hist.again = 0
    BY <1>1, <1>2, <1>8 DEF SeqInv
  <2>2. rcvd' = {i} /\ hist'.first = i /\ hist'.again = 0 /\ count' = 1
    BY <1>2, <1>3, <1>8, <2>1
  <2>3. Newest' = i /\ NewestIs(i)'
    <3>1. Newest' = CHOOSE x \in {i} : \A j \in {i} : j <= x
      BY <2>2 DEF Newest
    <3>2. {i} \in SUBSET Int /\ i \in {i} /\ \A j \in {i} : j <= i
      BY <1>1
    <3> QED BY <2>2, <3>1, <3>2, GreatestIs DEF NewestIs
  <2>4. Holes' = {}
    BY <1>1, <2>2, <2>3 DEF Holes
  <2>5. Cardinality(Holes') = 0
    BY <2>4, FS_EmptySet
  <2>6. Cardinality(Holes') - hist'.again = Newest' - hist'.first + 1 - count'
    BY <1>1, <2>2, <2>3, <2>5
  <2>7. hist'.first \in rcvd' /\ \E j \in rcvd' : NewestIs(j)'
    BY <2>2, <2>3
  <2>8. /\ bad_seq_' = RecvSeqMod + 1 /\ cycles_' = 0
        /\ jumped = 0 => max_seq_' = WireSeq(i)
    BY <1>5, <2>1 DEF InitSeq
  <2>9. jumped' = 0 => /\ max_seq_' = WireSeq(Newest')
                       /\ max_seq_' + cycles_' = WireSeq(hist'.first) + Newest' - hist'.first
    <3>1. WireSeq(i) \in Int
      BY <1>1, SlotOfPosition
    <3> QED BY <1>1, <1>2, <2>2, <2>3, <2>8, <3>1
  <2> QED BY <1>2, <1>6, <1>7, <1>8, <2>6, <2>7, <2>8, <2>9 DEF SeqInv, Extended
<1>9. CASE rcvd # {}
  <2> DEFINE N == Newest
             F == hist.first
  <2>1. N \in Int /\ NewestIs(N) /\ F \in 0 .. N /\ Cardinality(Holes) \in Nat
    BY <1>1, <1>9, NewestAndHoles
  <2>2. hist'.first = F
    BY <1>3, <1>9
  <2>3. /\ Newest' = (IF N < i THEN i ELSE N) /\ NewestIs(Newest)'
        /\ Cardinality(Holes') =
              IF N < i THEN Cardinality(Holes) + (i - N - 1)
              ELSE IF i \in rcvd \/ i < F THEN Cardinality(Holes)
              ELSE Cardinality(Holes) - 1
    BY <1>1, <1>2, <1>9, <2>2, ReceiveHoles
  <2>4. F \in rcvd /\ first_pkt_ /\ Cardinality(Holes) - hist.again = N - F + 1 - count
    BY <1>1, <1>9 DEF SeqInv
  <2>5. i \in rcvd => i <= N
    BY <2>1 DEF NewestIs
  <2>6. hist'.again = hist.again + (IF i \in rcvd \/ i < F THEN 1 ELSE 0)
    BY <1>3, <1>9
  <2>7. N - MaxMisorder < i /\ i < N + MaxDropout
    <3>1. N # -1
      BY <2>1
    <3> QED BY <3>1 DEF Receive
  <2>8. UpdateSeq(SeqAt(i))
    BY <1>2, <2>4
  <2>9. jumped = 0 =>
          /\ bad_seq_ = RecvSeqMod + 1 /\ max_seq_ = WireSeq(N)
          /\ max_seq_ + cycles_ = WireSeq(F) + N - F
    BY <1>1, <1>9 DEF SeqInv, Extended
  <2>10. hist'.first \in rcvd' /\ \E j \in rcvd' : NewestIs(j)'
    BY <1>2, <2>2, <2>3, <2>4 DEF NewestIs
  <2> HIDE DEF N, F
  <2>11. Cardinality(Holes') - hist'.again = Newest' - hist'.first + 1 - count'
    <3>1. CASE N < i
      <4>1. ~(i \in rcvd \/ i < F)
        BY <1>1, <2>1, <2>5, <3>1
      <4>2. /\ Cardinality(Holes') = Cardinality(Holes) + (i - N - 1) /\ Newest' = i
            /\ hist'.again = hist.again + 0
        BY <2>3, <2>6, <3>1, <4>1
      <4> DEFINE c == Cardinality(Holes)
      <4>3. c \in Int /\ N \in Int /\ F \in Int /\ c - hist.again = N - F + 1 - count
        BY <2>1, <2>4
      <4> HIDE DEF c
      <4>4. (c + (i - N - 1)) - (hist.again + 0) = i - F + 1 - (count + 1)
        BY <1>1, <1>4, <4>3
      <4> QED BY <1>2, <2>2, <4>2, <4>4 DEF c
    <3>2. CASE ~(N < i) /\ (i \in rcvd \/ i < F)
      BY <1>1, <1>2, <1>4, <2>1, <2>2, <2>3, <2>4, <2>6, <3>2
    <3>3. CASE ~(N < i) /\ ~(i \in rcvd \/ i < F)
      BY <1>1, <1>2, <1>4, <2>1, <2>2, <2>3, <2>4, <2>6, <3>3
    <3> QED BY <3>1, <3>2, <3>3
  <2>12. ASSUME jumped = 0
         PROVE  /\ bad_seq_' = RecvSeqMod + 1
                /\ max_seq_' = WireSeq(Newest')
                /\ max_seq_' + cycles_' = WireSeq(F) + Newest' - F
                /\ max_seq_ + cycles_ <= max_seq_' + cycles_'
    <3>1. UpdateSeq(WireSeq(i))
      BY <1>5, <2>8, <2>12
    <3>2. /\ bad_seq_' = bad_seq_
          /\ N <= i => /\ max_seq_' = WireSeq(i)
                       /\ max_seq_' + cycles_' = max_seq_ + cycles_ + (i - N)
          /\ i < N => max_seq_' = max_seq_ /\ cycles_' = cycles_
      BY <1>1, <1>4, <2>1, <2>7, <2>9, <2>12, <3>1, UpdateInStep
    <3>3. WireSeq(F) \in Int /\ F \in Int /\ max_seq_ \in Int /\ cycles_ \in Int
      BY <1>1, <1>4, <2>1, SlotOfPosition
    <3>4. CASE N < i
      BY <1>1, <2>1, <2>3, <2>9, <2>12, <3>2, <3>3, <3>4
    <3>5. CASE N = i
      BY <1>1, <2>1, <2>3, <2>9, <2>12, <3>2, <3>3, <3>5
    <3>6. CASE i < N
      BY <1>1, <2>1, <2>3, <2>9, <2>12, <3>2, <3>3, <3>6
    <3> QED BY <1>1, <2>1, <3>4, <3>5, <3>6
  <2>13. SeqInv'
    BY <1>2, <1>6, <1>7, <2>2, <2>10, <2>11, <2>12 DEF SeqInv, Extended
  <2> QED BY <1>2, <2>12, <2>13 DEF Extended
<1> QED BY <1>2, <1>8, <1>9

(* The numbers change when a packet comes, and only then.                  *)
SeqSame ==
  /\ UNCHANGED <<rcvd, jumped, offset, seqVars>>
  /\ hist'.again = hist.again /\ hist'.first = hist.first

LEMMA SeqFrame ==
  ASSUME ReportInv, [Next]_reportVars
  PROVE  \/ \E i \in 0 .. sent - 1 : Receive(i)
         \/ \E j \in Jumps : Restart(j)
         \/ SeqSame
<1>1. HistType /\ ClockInv /\ SeqInv /\ sent \in Nat
  BY DEF ReportInv, SendInv
<1>2. ASSUME NEW n, Send(n) PROVE SeqSame
  BY <1>2 DEF Send, recvVars, SeqSame
<1>3. ASSUME NEW k, Nack(k) PROVE SeqSame
  BY <1>3 DEF Nack, recvVars, SeqSame
<1>4. ASSUME SenderTimer PROVE SeqSame
  BY <1>4 DEF SenderTimer, recvVars, SeqSame
<1>5. ASSUME ReceiverTimer PROVE SeqSame
  <2>1. Cardinality(Holes) \in Int
    BY <1>1, NewestAndHoles
  <2>2. hist'.again = hist.again /\ hist'.first = hist.first
    BY <1>1, <1>5, <2>1, ReceiverTimerHist
  <2> QED BY <1>5, <2>2 DEF ReceiverTimer, SeqSame
<1>6. ASSUME AskKeyFrame PROVE SeqSame
  <2>1. hist'.again = hist.again /\ hist'.first = hist.first
    BY <1>1, <1>6, AskKeyFrameHist
  <2> QED BY <1>6, <2>1 DEF AskKeyFrame, RequestKeyFrameNow, SeqSame
<1>7. ASSUME NEW m \in net, DeliverSr(m) PROVE SeqSame
  <2>1. hist'.again = hist.again /\ hist'.first = hist.first
    BY <1>1, <1>7, MessageTypes, DeliverSrHist
  <2> QED BY <1>7, <2>1 DEF DeliverSr, HandleRtcpSr, SeqSame
<1>8. ASSUME NEW m \in net, DeliverRr(m) PROVE SeqSame
  <2>1. m.kind = "rr"
    BY <1>8 DEF DeliverRr
  <2>2. m.at \in Int /\ m.flown \in Int
    BY <2>1, MessageTypes
  <2>3. hist'.again = hist.again /\ hist'.first = hist.first
    BY <1>1, <1>8, <2>2, DeliverRrHist
  <2> QED BY <1>8, <2>3 DEF DeliverRr, recvVars, SeqSame
<1>9. ASSUME NEW m \in net, DeliverRrt(m) PROVE SeqSame
  <2>1. hist'.again = hist.again /\ hist'.first = hist.first
    BY <1>1, <1>9, MessageTypes, DeliverRrtHist
  <2> QED BY <1>9, <2>1 DEF DeliverRrt, recvVars, SeqSame
<1>10. ASSUME NEW m \in net, DeliverDlrr(m) PROVE SeqSame
  <2>1. m.kind = "dlrr"
    BY <1>10 DEF DeliverDlrr
  <2>2. m.at \in Int /\ m.flown \in Int
    BY <2>1, MessageTypes
  <2>3. hist'.again = hist.again /\ hist'.first = hist.first
    BY <1>1, <1>10, <2>2, DeliverDlrrHist
  <2> QED BY <1>10, <2>3 DEF DeliverDlrr, recvVars, SeqSame
<1>11. ASSUME Tick PROVE SeqSame
  BY <1>11 DEF Tick, recvVars, SeqSame
<1>12. ASSUME UNCHANGED reportVars PROVE SeqSame
  BY <1>12 DEF reportVars, recvVars, SeqSame
<1> QED
  BY <1>2, <1>3, <1>4, <1>5, <1>6, <1>7, <1>8, <1>9, <1>10, <1>11, <1>12 DEF Next

LEMMA SeqStep ==
  ASSUME ReportInv, [Next]_reportVars
  PROVE  SeqInv'
<1>1. /\ HistType /\ SeqInv /\ sent \in Nat /\ sent' \in Nat /\ sent <= sent'
  BY SendStep, ClockStep DEF ReportInv, SendInv
<1>2. ASSUME SeqSame PROVE SeqInv'
  <2>1. /\ UNCHANGED <<rcvd, jumped, offset, first_pkt_, max_seq_, cycles_, bad_seq_, count>>
        /\ hist'.again = hist.again /\ hist'.first = hist.first
    BY <1>2 DEF SeqSame, seqVars
  <2>2. Newest' = Newest
    BY <2>1 DEF Newest
  <2>3. Holes' = Holes
    BY <2>1, <2>2 DEF Holes
  <2>4. rcvd' \subseteq 0 .. (sent' - 1)
    <3>1. 0 .. (sent - 1) \subseteq 0 .. (sent' - 1)
      <4>1. sent \in Int /\ sent' \in Int /\ sent <= sent'
        BY <1>1
      <4> QED BY <4>1, IntervalGrows
    <3>2. rcvd \subseteq 0 .. sent - 1
      BY <1>1 DEF SeqInv
    <3> QED BY <2>1, <3>1, <3>2
  <2> QED BY <1>1, <2>1, <2>2, <2>3, <2>4 DEF SeqInv, NewestIs, Extended
<1>3. ASSUME NEW j \in Jumps, Restart(j) PROVE SeqInv'
  <2>1. /\ UNCHANGED <<rcvd, first_pkt_, max_seq_, cycles_, bad_seq_, count, hist, sent>>
        /\ jumped' = sent /\ sent > 0 /\ offset' = j
    BY <1>3 DEF Restart, recvVars, seqVars, sendVars
  <2>2. Newest' = Newest
    BY <2>1 DEF Newest
  <2>3. Holes' = Holes
    BY <2>1, <2>2 DEF Holes
  <2>4. jumped' \in Nat /\ offset' \in Nat /\ jumped' # 0
    BY <1>1, <2>1, ReportAssumption
  <2> QED BY <1>1, <2>1, <2>2, <2>3, <2>4 DEF SeqInv, NewestIs
<1> QED BY <1>2, <1>3, SeqFrame, ReceiveSeq

-----------------------------------------------------------------------------
(* The loss changes when the receiver reports, and only then.              *)
LossSame ==
  UNCHANGED lossVars /\ hist'.base = hist.base /\ hist'.skipped = hist.skipped

LEMMA LossFrame ==
  ASSUME ReportInv, [Next]_reportVars
  PROVE  ReceiverTimer \/ (LossSame /\ UNCHANGED last_rr_ms_)
<1>1. HistType /\ ClockInv /\ SeqInv /\ sent \in Nat
  BY DEF ReportInv, SendInv
<1> DEFINE Same == LossSame /\ UNCHANGED last_rr_ms_
<1>2. ASSUME NEW n, Send(n) PROVE Same
  BY <1>2 DEF Send, recvVars, pcVars, LossSame
<1>3. ASSUME NEW k, Nack(k) PROVE Same
  BY <1>3 DEF Nack, recvVars, pcVars, LossSame
<1>4. ASSUME SenderTimer PROVE Same
  BY <1>4 DEF SenderTimer, recvVars, LossSame
<1>5. ASSUME NEW i \in 0 .. sent - 1, Receive(i) PROVE Same
  <2>1. i \in Int
    BY <1>1
  <2>2. hist'.base = hist.base /\ hist'.skipped = hist.skipped
    BY <1>1, <1>5, <2>1, ReceiveHist
  <2> QED BY <1>5, <2>2 DEF Receive, HandleRtpPacket, pcVars, LossSame
<1>6. ASSUME AskKeyFrame PROVE Same
  <2>1. hist'.base = hist.base /\ hist'.skipped = hist.skipped
    BY <1>1, <1>6, AskKeyFrameHist
  <2> QED BY <1>6, <2>1 DEF AskKeyFrame, RequestKeyFrameNow, pcVars, LossSame
<1>7. ASSUME NEW m \in net, DeliverSr(m) PROVE Same
  <2>1. hist'.base = hist.base /\ hist'.skipped = hist.skipped
    BY <1>1, <1>7, MessageTypes, DeliverSrHist
  <2> QED BY <1>7, <2>1 DEF DeliverSr, HandleRtcpSr, pcVars, LossSame
<1>8. ASSUME NEW m \in net, DeliverRr(m) PROVE Same
  <2>1. m.kind = "rr"
    BY <1>8 DEF DeliverRr
  <2>2. m.at \in Int /\ m.flown \in Int
    BY <2>1, MessageTypes
  <2>3. hist'.base = hist.base /\ hist'.skipped = hist.skipped
    BY <1>1, <1>8, <2>2, DeliverRrHist
  <2> QED BY <1>8, <2>3 DEF DeliverRr, recvVars, pcVars, LossSame
<1>9. ASSUME NEW m \in net, DeliverRrt(m) PROVE Same
  <2>1. hist'.base = hist.base /\ hist'.skipped = hist.skipped
    BY <1>1, <1>9, MessageTypes, DeliverRrtHist
  <2> QED BY <1>9, <2>1 DEF DeliverRrt, recvVars, LossSame
<1>10. ASSUME NEW m \in net, DeliverDlrr(m) PROVE Same
  <2>1. m.kind = "dlrr"
    BY <1>10 DEF DeliverDlrr
  <2>2. m.at \in Int /\ m.flown \in Int
    BY <2>1, MessageTypes
  <2>3. hist'.base = hist.base /\ hist'.skipped = hist.skipped
    BY <1>1, <1>10, <2>2, DeliverDlrrHist
  <2> QED BY <1>10, <2>3 DEF DeliverDlrr, recvVars, pcVars, LossSame
<1>11. ASSUME NEW j, Restart(j) PROVE Same
  BY <1>11 DEF Restart, recvVars, pcVars, LossSame
<1>12. ASSUME Tick PROVE Same
  BY <1>12 DEF Tick, recvVars, pcVars, LossSame
<1>13. ASSUME UNCHANGED reportVars PROVE Same
  BY <1>13 DEF reportVars, recvVars, pcVars, LossSame
<1> QED
  BY <1>2, <1>3, <1>4, <1>5, <1>6, <1>7, <1>8, <1>9, <1>10, <1>11, <1>12, <1>13 DEF Next

(* Differences of wrapped numbers, when the wrapped ones are in order.     *)
LEMMA ModDifference ==
  ASSUME NEW n \in Nat \ {0}, NEW a \in Int, NEW b \in Int, a - b \in 0 .. n - 1,
         ~(a % n < b % n)
  PROVE  (a % n) - (b % n) = a - b
<1> DEFINE c == a % n
           d == b % n
           e == a - b
           g == 0 - b
<1>1. c \in 0 .. n - 1 /\ d \in 0 .. n - 1
  BY DivMod
<1>2. (c - (b % n)) % n = (c - b) % n
  <2>1. c \in Int
    BY <1>1
  <2> HIDE DEF c
  <2> QED BY <2>1, ModSub
<1>3. g \in Int /\ a + g = e
  OBVIOUS
<1>4. c - b = c + g
  <2>1. c \in Int
    BY <1>1
  <2> HIDE DEF c
  <2> QED BY <2>1
<1>5. ((a % n) + g) % n = (a + g) % n
  <2> HIDE DEF g
  <2> QED BY <1>3, ModAdd
<1>6. e % n = e
  <2> HIDE DEF e
  <2>1. e \in 0 .. n - 1
    BY DEF e
  <2> QED BY <2>1, ModSmall
<1>7. ~(c < d)
  OBVIOUS
<1>8. (c - d) % n = (c - b) % n
  BY <1>2
<1>9. (c + g) % n = (a + g) % n
  BY <1>5
<1> HIDE DEF c, d, e, g
<1>10. (c - d) % n = e
  BY <1>3, <1>4, <1>6, <1>8, <1>9
<1>11. c - d \in 0 .. n - 1
  BY <1>1, <1>7
<1>12. (c - d) % n = c - d
  BY <1>11, ModSmall
<1>13. c - d = e
  BY <1>10, <1>12
<1> QED BY <1>13 DEF c, d, e

(* A report: the new marks, and no hole hidden.                            *)
LEMMA ReportLoss ==
  ASSUME ReportInv, ReceiverTimer, RrDue
  PROVE  /\ LossInv'
         /\ 0 < last_recv_ /\ ~hist'.skipped /\ jumped = 0 =>
              total_lost_' >= Cardinality(Holes) - hist.again - hist.base
<1> DEFINE E == GetExpectedPackets
           c == Cardinality(Holes)
           X == Extended
           f == WireSeq(hist.first)
<1>1. /\ HistType /\ ClockInv /\ SeqInv /\ LossInv /\ sent \in Nat
      /\ WordMod \in Nat \ {0} /\ RecvSeqMod \in Nat
  BY RecvConstants DEF ReportInv, SendInv
<1>2. c \in Int
  BY <1>1, NewestAndHoles
<1>3. /\ hist'.base = IF last_recv_ <= 0 THEN c - hist.again ELSE hist.base
      /\ hist'.skipped = (hist.skipped \/ E < expect_recv_)
      /\ hist'.first = hist.first
  BY <1>1, <1>2, ReceiverTimerHist
<1>4. /\ expect_recv_' = E /\ last_recv_' = count
      /\ total_lost_' = IF last_recv_ <= 0 \/ ~(E > expect_recv_ /\ count > last_recv_)
                        THEN total_lost_
                        ELSE total_lost_ + (E - expect_recv_) - (count - last_recv_)
      /\ UNCHANGED <<count, jumped, max_seq_, cycles_, bad_seq_>>
  BY DEF ReceiverTimer, GetPacketLost, seqVars
<1>5. /\ count \in Nat /\ max_seq_ \in Int /\ cycles_ \in Int /\ bad_seq_ \in Int
      /\ hist.again \in Int /\ hist.base \in Int /\ hist.first \in Int
      /\ total_lost_ \in Int /\ expect_recv_ \in Int /\ last_recv_ \in 0 .. count
      /\ (last_recv_ <= 0 => total_lost_ = 0)
  BY <1>1 DEF SeqInv, HistType, LossInv
<1>6. E \in 0 .. WordMod - 1
  <2> DEFINE a == cycles_ + max_seq_ - bad_seq_ + 1
  <2>1. a \in Int
    BY <1>5
  <2>2. E = a % WordMod
    BY DEF GetExpectedPackets
  <2> HIDE DEF a
  <2> QED BY <1>1, <2>1, <2>2, DivMod
<1>7. X' = X /\ X \in Int /\ X = max_seq_ + cycles_
  BY <1>4, <1>5 DEF Extended
<1>8. f \in Int
  BY <1>5, SlotOfPosition
<1> HIDE DEF E, c, X, f
<1>9. /\ expect_recv_' \in Int /\ total_lost_' \in Int /\ last_recv_' \in 0 .. count'
      /\ (last_recv_' <= 0 => total_lost_' = 0)
  BY <1>4, <1>5, <1>6
<1>10. ASSUME jumped = 0, 0 < count, ~hist'.skipped
       PROVE  /\ f <= X /\ expect_recv_' = (X - RecvSeqMod) % WordMod
              /\ total_lost_' >= X - f + 1 - count - hist'.base
              /\ 0 < last_recv_ => hist'.base = hist.base
              /\ c - hist.again = X - f + 1 - count
  <2>1. rcvd # {} /\ bad_seq_ = RecvSeqMod + 1 /\ hist.first \in 0 .. Newest
        /\ Newest \in Int /\ Newest <= sent - 1
    <3>1. rcvd # {} /\ bad_seq_ = RecvSeqMod + 1
      BY <1>1, <1>10 DEF SeqInv
    <3>2. hist.first \in 0 .. Newest /\ Newest \in Int /\ NewestIs(Newest)
      BY <1>1, <3>1, NewestAndHoles
    <3>3. Newest \in 0 .. sent - 1
      BY <1>1, <3>2 DEF NewestIs, SeqInv
    <3> QED BY <1>1, <3>1, <3>2, <3>3
  <2>2. X = f + Newest - hist.first /\ c - hist.again = Newest - hist.first + 1 - count
    BY <1>1, <1>10, <2>1 DEF SeqInv, X, f, c
  <2>3. f <= X /\ X - f <= sent - 1 /\ c - hist.again = X - f + 1 - count
    BY <1>1, <1>2, <1>5, <1>8, <2>1, <2>2
  <2>4. sent - 1 < WordMod
    BY <1>1, ReportAssumption, SendConstants DEF ClockInv
  <2>5. E = (X - RecvSeqMod) % WordMod
    <3>1. cycles_ + max_seq_ - bad_seq_ + 1 = X - RecvSeqMod
      BY <1>1, <1>5, <1>7, <2>1
    <3> QED BY <3>1 DEF E, GetExpectedPackets
  <2>6. CASE last_recv_ <= 0
    <3>1. hist'.base = c - hist.again /\ total_lost_' = 0
      BY <1>3, <1>4, <1>5, <2>6
    <3>2. X - f + 1 - count - (c - hist.again) = 0
      BY <1>2, <1>5, <1>7, <1>8, <2>3
    <3> QED BY <1>4, <1>5, <2>3, <2>5, <2>6, <3>1, <3>2
  <2>7. CASE 0 < last_recv_
    <3>1. ~hist.skipped /\ ~(E < expect_recv_) /\ hist'.base = hist.base
      <4>1. ~(last_recv_ <= 0)
        BY <1>5, <2>7
      <4>2. hist'.base = hist.base
        BY <1>3, <4>1
      <4>3. ~(hist.skipped \/ E < expect_recv_)
        BY <1>3, <1>10, Zenon
      <4> QED BY <4>2, <4>3, Zenon
    <3>2. PICK h \in f .. X : MarkedAt(h)
      BY <1>1, <1>10, <2>7, <3>1 DEF LossInv, f, X
    <3>3. h \in Int /\ f <= h /\ h <= X
      BY <1>7, <1>8
    <3>4. /\ expect_recv_ = (h - RecvSeqMod) % WordMod
          /\ total_lost_ >= h - f + 1 - last_recv_ - hist.base
          /\ count = last_recv_ => h = X
      BY <3>2 DEF MarkedAt, f, X
    <3>5. E - expect_recv_ = X - h
      <4> DEFINE a == X - RecvSeqMod
                 b == h - RecvSeqMod
      <4>1. a \in Int /\ b \in Int /\ a - b = X - h /\ a - b \in 0 .. WordMod - 1
        BY <1>1, <1>7, <1>8, <2>3, <2>4, <3>3
      <4>2. E = a % WordMod /\ expect_recv_ = b % WordMod
        BY <2>5, <3>4
      <4> HIDE DEF a, b
      <4>3. (a % WordMod) - (b % WordMod) = a - b
        BY <1>1, <3>1, <4>1, <4>2, ModDifference
      <4> QED BY <4>1, <4>2, <4>3
    <3>6. last_recv_ \in Int /\ last_recv_ <= count /\ E \in Int
      BY <1>1, <1>5, <1>6
    <3>7. CASE E > expect_recv_ /\ count > last_recv_
      <4>1. total_lost_' = total_lost_ + (X - h) - (count - last_recv_)
        BY <1>4, <2>7, <3>5, <3>6, <3>7
      <4>2. total_lost_' >= X - f + 1 - count - hist.base
        BY <1>5, <1>7, <1>8, <3>3, <3>4, <3>6, <4>1
      <4> QED BY <1>4, <2>3, <2>5, <3>1, <4>2
    <3>8. CASE ~(E > expect_recv_ /\ count > last_recv_)
      <4>1. total_lost_' = total_lost_
        BY <1>4, <3>8
      <4>2. h = X
        <5>1. E = expect_recv_ \/ count = last_recv_
          BY <1>5, <3>1, <3>6, <3>8
        <5> QED BY <1>5, <1>7, <3>3, <3>4, <3>5, <3>6, <5>1
      <4>3. total_lost_' >= X - f + 1 - count - hist.base
        BY <1>5, <1>7, <1>8, <3>3, <3>4, <3>6, <4>1, <4>2
      <4> QED BY <1>4, <2>3, <2>5, <3>1, <4>3
    <3> QED BY <3>7, <3>8
  <2> QED BY <1>5, <2>6, <2>7
<1>11. ASSUME jumped' = 0, 0 < last_recv_', ~hist'.skipped
       PROVE  \E h \in WireSeq(hist'.first) .. Extended' : MarkedAt(h)'
  <2>1. jumped = 0 /\ 0 < count
    BY <1>4, <1>11
  <2>2. /\ f <= X /\ expect_recv_' = (X - RecvSeqMod) % WordMod
        /\ total_lost_' >= X - f + 1 - count - hist'.base
    BY <1>10, <1>11, <2>1
  <2>3. X \in f .. X
    BY <1>7, <1>8, <2>2
  <2>4. f = WireSeq(hist'.first) /\ X = Extended'
    BY <1>3, <1>7 DEF f, X
  <2>5. /\ total_lost_' >= X - WireSeq(hist'.first) + 1 - last_recv_' - hist'.base
        /\ expect_recv_' = (X - RecvSeqMod) % WordMod /\ X = Extended'
    BY <1>4, <2>2, <2>4
  <2>6. ASSUME NEW h, h = X PROVE MarkedAt(h)'
    BY <2>5, <2>6 DEF MarkedAt
  <2> QED BY <2>3, <2>4, <2>6
<1>12. LossInv'
  BY <1>9, <1>11 DEF LossInv
<1>13. ASSUME 0 < last_recv_, ~hist'.skipped, jumped = 0
       PROVE  total_lost_' >= c - hist.again - hist.base
  <2>1. 0 < count
    BY <1>5, <1>13
  <2>2. /\ total_lost_' >= X - f + 1 - count - hist'.base
        /\ hist'.base = hist.base /\ c - hist.again = X - f + 1 - count
    BY <1>10, <1>13, <2>1, Zenon
  <2> QED BY <1>2, <1>3, <1>5, <1>7, <1>8, <1>9, <2>2
<1> QED BY <1>12, <1>13 DEF c

LEMMA LossStep ==
  ASSUME ReportInv, [Next]_reportVars
  PROVE  LossInv'
<1>1. /\ HistType /\ ClockInv /\ SeqInv /\ LossInv /\ sent \in Nat
      /\ count \in Nat /\ last_recv_ \in 0 .. count
  BY DEF ReportInv, SendInv, SeqInv, LossInv
<1>2. ASSUME LossSame, SeqSame PROVE LossInv'
  <2>1. /\ UNCHANGED <<expect_recv_, last_recv_, total_lost_, jumped, count, max_seq_, cycles_>>
        /\ hist'.base = hist.base /\ hist'.skipped = hist.skipped /\ hist'.first = hist.first
    BY <1>2 DEF LossSame, SeqSame, lossVars, seqVars
  <2> QED BY <1>1, <2>1 DEF LossInv, MarkedAt, Extended
<1>3. ASSUME LossSame, NEW j \in Jumps, Restart(j) PROVE LossInv'
  <2>1. UNCHANGED <<expect_recv_, last_recv_, total_lost_, count>> /\ jumped' # 0
    BY <1>1, <1>3 DEF LossSame, lossVars, Restart, recvVars, seqVars
  <2> QED BY <1>1, <2>1 DEF LossInv
<1>4. ASSUME LossSame, NEW i \in 0 .. sent - 1, Receive(i) PROVE LossInv'
  <2>1. /\ UNCHANGED <<expect_recv_, last_recv_, total_lost_, jumped>>
        /\ hist'.base = hist.base /\ hist'.skipped = hist.skipped
    BY <1>4 DEF LossSame, lossVars, Receive
  <2>2. count' = count + 1 /\ (jumped = 0 /\ rcvd # {} => Extended <= Extended')
    BY <1>4, ReceiveSeq
  <2>3. expect_recv_' \in Int /\ total_lost_' \in Int /\ last_recv_' \in 0 .. count'
        /\ (last_recv_' <= 0 => total_lost_' = 0)
    BY <1>1, <2>1, <2>2 DEF LossInv
  <2>4. ASSUME jumped' = 0, 0 < last_recv_', ~hist'.skipped
        PROVE  \E h \in WireSeq(hist'.first) .. Extended' : MarkedAt(h)'
    <3>1. PICK h \in WireSeq(hist.first) .. Extended : MarkedAt(h)
      BY <1>1, <2>1, <2>4 DEF LossInv
    <3>2. rcvd # {}
      BY <1>1, <2>1, <2>4 DEF SeqInv
    <3>3. hist'.first = hist.first
      <4>1. i \in Int
        BY <1>1
      <4> QED BY <1>1, <1>4, <3>2, <4>1, ReceiveHist
    <3>4. Extended \in Int /\ Extended' \in Int /\ WireSeq(hist.first) \in Int
      <4>1. SeqInv' /\ hist.first \in Int
        BY <1>1, <1>4, ReceiveSeq DEF HistType
      <4> QED BY <1>1, <4>1, SlotOfPosition DEF SeqInv, Extended
    <3>5. h \in WireSeq(hist'.first) .. Extended'
      BY <2>1, <2>2, <2>4, <3>2, <3>3, <3>4
    <3>6. count' # last_recv_'
      BY <1>1, <2>1, <2>2
    <3>7. MarkedAt(h)'
      BY <2>1, <3>1, <3>3, <3>6 DEF MarkedAt
    <3> QED BY <3>5, <3>7
  <2> QED BY <2>3, <2>4 DEF LossInv
<1>5. LossSame => LossInv'
  BY <1>2, <1>3, <1>4, SeqFrame
<1>6. ASSUME ReceiverTimer PROVE LossInv'
  <2>1. CASE RrDue
    BY <1>6, <2>1, ReportLoss
  <2>2. CASE ~RrDue
    <3>1. Cardinality(Holes) \in Int
      BY <1>1, NewestAndHoles
    <3>2. /\ hist'.base = hist.base /\ hist'.again = hist.again /\ hist'.first = hist.first
          /\ hist'.skipped = (hist.skipped \/ FALSE)
      BY <1>1, <1>6, <2>2, <3>1, ReceiverTimerHist
    <3>3. hist'.skipped = hist.skipped
      BY <1>1, <3>2 DEF HistType
    <3>4. UNCHANGED lossVars
      BY <1>6, <2>2 DEF ReceiverTimer
    <3>5. LossSame
      BY <3>2, <3>3, <3>4 DEF LossSame
    <3> QED BY <1>5, <3>5
  <2> QED BY <2>1, <2>2
<1> QED BY <1>5, <1>6, LossFrame

-----------------------------------------------------------------------------
LEMMA StepInv == ReportInv /\ [Next]_reportVars => ReportInv'
BY SendStep, HistStep, ClockStep, KeyStep, TimeStep, SeqStep, LossStep DEF ReportInv

LEMMA Invariance == Spec => []ReportInv
BY InitInv, StepInv, PTL DEF Spec

(* RequestKeyFrame, whatever PackHandleReset asks for in between: once the *)
(* receiver's timer has run in a period, a key frame was asked for less    *)
(* than KeyGap ago.                                                        *)
THEOREM ReportKeyFrameSoon == Spec => []KeyFrameSoon
<1>1. ReportInv => KeyFrameSoon
  BY DEF ReportInv, KeyInv
<1> QED BY <1>1, Invariance, PTL

(* HandleRtcpRr, HandleXrDlrr, UpdateSeq and the ring: the round trips are *)
(* right within two units, the extended highest number is the newest       *)
(* packet's, and a NACK finds exactly the packets of the window, for every *)
(* number space, clock and network.                                        *)
THEOREM ReportReportsExact == Spec => []ReportsExact
<1>1. ReportInv => ReportsExact
  <2> SUFFICES ASSUME ReportInv PROVE ReportsExact
    OBVIOUS
  <2>1. SendTypeOK /\ WindowRecoverable
    BY RingExact DEF ReportInv
  <2>2. OutIsCurrent /\ RttExactOrZero /\ XrRttExact
    BY DEF ReportInv, SendInv, TimeInv
  <2>3. HighestRight
    <3> SUFFICES ASSUME rcvd # {}, jumped = 0
                 PROVE  max_seq_ + cycles_ = SeqAt(hist.first) + Newest - hist.first
      BY DEF HighestRight
    <3>1. SeqAt(hist.first) = WireSeq(hist.first)
      <4>1. jumped \in Nat /\ offset \in Nat /\ hist.first \in Int
        BY DEF ReportInv, SeqInv, HistType
      <4> QED BY <4>1, SeqAtTypes
    <3> QED BY <3>1 DEF ReportInv, SeqInv, Extended
  <2>4. lsr_ \in 0 .. NtpMod - 1
    <3>1. CASE last_sr_ms_ = Never /\ lsr_ = 0
      BY <3>1, RecvConstants
    <3>2. CASE Remembers(last_sr_ms_, lsr_, hist.srFlown)
      <4>1. last_sr_ms_ - hist.srFlown \in Nat /\ lsr_ = Compact(last_sr_ms_ - hist.srFlown)
        BY <3>2 DEF Remembers
      <4> QED BY <4>1, CompactType
    <3> QED BY <3>1, <3>2 DEF ReportInv, TimeInv
  <2>5. \A m \in net : now - m.at \in 0 .. MaxDelay
    BY ReportAssumption DEF ReportInv, TimeInv, MessageInv, ClockInv
  <2>6. ReportTypeOK
    BY <2>1, <2>4, <2>5 DEF ReportInv, SeqInv, LossInv, ReportTypeOK
  <2> QED BY <2>1, <2>2, <2>3, <2>6 DEF ReportsExact
<1> QED BY <1>1, Invariance, PTL

(* GetPacketLost: from the second report on the cumulative loss covers     *)
(* every hole that opened since the first.                                 *)
THEOREM ReportNoLossHidden == Spec => NoLossHidden
<1> DEFINE A == RrDue /\ last_rr_ms_' = now /\ last_rr_ms_' # last_rr_ms_
                  /\ 0 < last_recv_ /\ ~hist'.skipped /\ jumped = 0
                => total_lost_' >= Cardinality(Holes) - hist.again - hist.base
<1>1. ReportInv /\ [Next]_reportVars => [A]_reportVars
  <2> SUFFICES ASSUME ReportInv, [Next]_reportVars,
                      RrDue, last_rr_ms_' # last_rr_ms_,
                      0 < last_recv_, ~hist'.skipped, jumped = 0
               PROVE  total_lost_' >= Cardinality(Holes) - hist.again - hist.base
    OBVIOUS
  <2>1. ReceiverTimer
    BY LossFrame
  <2> QED BY <2>1, ReportLoss
<1>2. Spec => [][A]_reportVars
  BY <1>1, Invariance, PTL DEF Spec
<1> QED BY <1>2 DEF NoLossHidden
=============================================================================
