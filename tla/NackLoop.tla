------------------------------ MODULE NackLoop ------------------------------
(***************************************************************************)
(* Loss recovery end to end: the sender's ring (RtcSendStream), a network  *)
(* that loses, repeats and reorders packets and loses feedback, the        *)
(* receiver's list and the message between them (Nack).                    *)
(* RtcRecvStream::HandleRtpPacket undoes the RTX encapsulation before it   *)
(* updates the list, so a retransmission arrives under its original number.*)
(*                                                                         *)
(* The stream may be of any length and its numbers wrap as often as they   *)
(* like.  What 16 bits presuppose, and the code with them, is that less    *)
(* than half a cycle is in play at a time: Send says so of each packet.    *)
(***************************************************************************)
EXTENDS RtcSendStream, Nack

CONSTANT
  Window   \* bound: the newest packets that may be in play at a time

ASSUME LoopAssumption ==
  /\ NackSeqMod = SendSeqMod
  /\ Window \in Nat /\ RingSize <= Window /\ Window <= Half + 1

VARIABLES
  net,        \* positions of the packets in flight
  req,        \* numbers asked for by the feedback in flight
  rcvd,       \* positions in the window of the packets that arrived
  first,      \* position of the first packet that arrived, or -1
  wrapLost,   \* history: those skipped by a packet beyond the wrap
  gaveUp      \* history: those dropped from the list unrecovered

loopVars == <<sendVars, nackVars, net, req, rcvd, first, wrapLost, gaveUp>>

Init ==
  /\ SendInit /\ NackInit
  /\ net = {} /\ req = {} /\ rcvd = {} /\ first = -1
  /\ wrapLost = {} /\ gaveUp = {}

Positions == 0 .. sent - 1
Recent == {i \in Positions : sent - Window <= i}
PositionOf(s) == {i \in Recent : WireSeq(i) = s}
Listed == UNION {PositionOf(s) : s \in DOMAIN nack_map_}
Highest == IF rcvd = {} THEN -1 ELSE CHOOSE i \in rcvd : \A j \in rcvd : j <= i
Flying == {p.idx : p \in out'}

(* In flight, on the list, or the newest that arrived.                     *)
InPlay == net \cup Listed \cup (rcvd \cap {Highest})

(* No packet in play falls out of the window.  A listed number lives for   *)
(* RetryMax + 1 round trips (0.4 s), a packet in the network not longer.   *)
Send(n) ==
  /\ \A i \in InPlay \cup {sent} : sent + n - Window <= i
  /\ SendVideoPacket(n)
  /\ net' = net \cup Flying
  /\ rcvd' = rcvd \cap Recent'
  /\ wrapLost' = wrapLost \cap Recent' /\ gaveUp' = gaveUp \cap Recent'
  /\ UNCHANGED <<nackVars, req, first>>

Lose(i) ==
  /\ net' = net \ {i}
  /\ UNCHANGED <<sendVars, nackVars, req, rcvd, first, wrapLost, gaveUp>>

(* A packet arrives; a copy of it may stay in the network.                 *)
Arrive(i, copy) ==
  /\ UpdateNackList(WireSeq(i))
  /\ net' = IF copy THEN net ELSE net \ {i}
  /\ rcvd' = rcvd \cup {i}
  /\ first' = IF first = -1 THEN i ELSE first
  /\ wrapLost' =
       IF rcvd # {} /\ i > Highest /\ WireSeq(Highest) > WireSeq(i)
          /\ WireSeq(Highest + 1) # 0
       THEN wrapLost \cup (Highest + 1 .. i - 1) ELSE wrapLost
  /\ UNCHANGED <<sendVars, req, gaveUp>>

NackTimer ==
  /\ NackOnTimer
  /\ \E asked \in Feedback(Due) : req' = req \cup asked
  /\ gaveUp' = gaveUp \cup
       UNION {PositionOf(s) : s \in DOMAIN nack_map_ \ DOMAIN nack_map_'}
  /\ UNCHANGED <<sendVars, net, rcvd, first, wrapLost>>

LoseNack ==
  /\ req' = {}
  /\ UNCHANGED <<sendVars, nackVars, net, rcvd, first, wrapLost, gaveUp>>

ArriveNack ==
  /\ req # {}
  /\ HandleRtcpNack(req)
  /\ req' = {} /\ net' = net \cup Flying
  /\ UNCHANGED <<nackVars, rcvd, first, wrapLost, gaveUp>>

Tick ==
  /\ NackTick /\ SendTick
  /\ UNCHANGED <<net, req, rcvd, first, wrapLost, gaveUp>>

Next ==
  \/ \E n \in 1 .. MaxBurst : Send(n)
  \/ \E i \in net : Lose(i)
  \/ \E i \in net, copy \in BOOLEAN : Arrive(i, copy)
  \/ NackTimer \/ LoseNack \/ ArriveNack \/ Tick

(* The loop's timers fire and time passes; the network owes nothing.       *)
Spec == Init /\ [][Next]_loopVars /\ WF_loopVars(NackTimer) /\ WF_loopVars(Tick)

-----------------------------------------------------------------------------
LoopTypeOK ==
  /\ net \subseteq Recent /\ rcvd \subseteq Recent
  /\ req \subseteq NackSeqs
  /\ DOMAIN nack_map_ \subseteq NackSeqs
  /\ \A s \in DOMAIN nack_map_ :
       nack_map_[s].age \in 0 .. Rtt /\ nack_map_[s].retry \in 0 .. RetryMax + 1

(* The list names only packets in play that have not arrived: a packet     *)
(* that came late, or twice, is never asked for again, nor is one of an    *)
(* earlier cycle of the numbers.                                           *)
ListedIsMissing ==
  \A s \in DOMAIN nack_map_ :
    PositionOf(s) # {} /\ PositionOf(s) \cap rcvd = {}

(* Every hole behind the newest packet is listed until it is filled or its *)
(* retries are used up, except one that spans the wrap of the number: as   *)
(* long as it is in the window, which nothing on the list leaves.          *)
HolesAreListed ==
  \A i \in Recent :
    first # -1 /\ first < i /\ i < Highest =>
      i \in rcvd \cup gaveUp \cup wrapLost \cup Listed

LowestOf(S) == CHOOSE s \in S : \A t \in S : s <= t

(* Whatever the encoding of RtcpFbNack does to the other numbers, the      *)
(* feedback of a timer names the lowest number that is due, so repeating   *)
(* it makes progress; a list of more blocks than data holds is excepted.   *)
FeedbackProgress ==
  [][NackTimer /\ Due # {} /\ Fits(Due) => LowestOf(Due) \in req']_loopVars

(* A number does not stay on the list for ever, also if nothing arrives.   *)
ListDrains ==
  \A s \in NackSeqs : s \in DOMAIN nack_map_ ~> s \notin DOMAIN nack_map_

(* The list of UpdateNackList is exact: it names only what is missing, and *)
(* every hole that may still be filled, but for those across the wrap.     *)
ListExact == LoopTypeOK /\ ListedIsMissing /\ HolesAreListed
=============================================================================
