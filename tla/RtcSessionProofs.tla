-------------------------- MODULE RtcSessionProofs --------------------------
(***************************************************************************)
(* SrtpOnce, StateForward, AnswersInOrder and StreamsInPlace for every     *)
(* constant.                                                               *)
(*                                                                         *)
(* Why an answer cannot be overtaken: the video request leaves when DTLS   *)
(* completes; DTLS needs a STUN answer, that needs a request, that needs   *)
(* the timer, and the timer starts with the answer to connect.  Chain      *)
(* follows this line back through the datagrams under way; Phase ties      *)
(* pc_state_ to the request the owner is at.                               *)
(*                                                                         *)
(* StreamsInPlace builds on it: streams are made by the handlers of the    *)
(* last answers or by the end of DTLS, which each come once when answers   *)
(* meet their handlers.                                                    *)
(***************************************************************************)
EXTENDS RtcSession, TLAPS

Pending == {"sent", "answered"}
Clients == [st : {"none", "sent", "answered", "done"},
            ok : BOOLEAN, counted : BOOLEAN, left : Nat]

(* The parts of TypeOK the argument uses.                                  *)
GoodHttp(h) ==
  /\ h \in [Requests -> Clients]
  /\ \A r \in Requests : h[r].left > 0 => h[r].st = "answered"

PcType == pc_state_ \in 0..3

Chain ==
  /\ "stun" \in up \/ "stun" \in down => timer_on /\ pc_state_ >= 1
  /\ pc_state_ >= 2 => timer_on
  /\ dtls_ # "new" => pc_state_ >= 2

Phase ==
  /\ role \notin Mediasoup => state_ \in {"none", "sdp"}
  /\ role \in Mediasoup =>
       /\ state_ \in {"none", "broadcaster", "transport", "connect", "video", "audio"}
       /\ state_ \in {"none", "broadcaster", "transport"} <=> pc_state_ = 0
       /\ state_ \in {"video", "audio"} => pc_state_ = 3
       /\ ~cut /\ timer_on => /\ state_ \in {"connect", "video", "audio"}
                              /\ http["connect"].st \notin Pending

IInv == GoodHttp(http) /\ PcType /\ SrtpOnce /\ Chain /\ Phase /\ AnswersInOrder

(* What StateForward says of a step.                                       *)
Forward == pc_state_' >= pc_state_

LEMMA ClientType ==
  ASSUME NEW st \in {"none", "sent", "answered", "done"}
  PROVE  Client(st) \in Clients /\ Client(st).st = st /\ Client(st).left = 0
  BY DEF Client, Clients

LEMMA ReadType ==
  ASSUME NEW x \in Clients, x.left > 0
  PROVE  LET y == [x EXCEPT !.left = x.left - 1]
         IN  y \in Clients /\ y.st = x.st
  BY DEF Clients

(* A request on top of h leaves h otherwise as it is.                      *)
LEMMA Posted ==
  ASSUME NEW h, GoodHttp(h), NEW r \in Requests, PostNext(r, h)
  PROVE  /\ GoodHttp(http') /\ state_' = r
         /\ \A q \in Requests : q # r => http'[q] = h[q]
         /\ http'[r].st = "sent"
<1>1. Client("sent") \in Clients /\ Client("sent").st = "sent" /\ Client("sent").left = 0
  BY ClientType
<1> HIDE DEF Client
<1> QED BY <1>1 DEF PostNext, GoodHttp

(* A read leaves the other requests alone, and its own finished or as it   *)
(* was.                                                                    *)
LEMMA AfterOne ==
  ASSUME GoodHttp(http), NEW r \in Requests, http[r].left > 0
  PROVE  /\ GoodHttp(AfterRead(r)) /\ http[r].st = "answered"
         /\ \A q \in Requests : q # r => AfterRead(r)[q] = http[q]
         /\ http[r].left = 1 => AfterRead(r)[r].st = "done"
         /\ http[r].left # 1 => AfterRead(r)[r].st = "answered"
<1> DEFINE y == [http[r] EXCEPT !.left = http[r].left - 1]
<1>1. http[r] \in Clients /\ http[r].st = "answered"
  BY DEF GoodHttp
<1>2. y \in Clients /\ y.st = "answered"
  BY <1>1, ReadType
<1>3. Client("done") \in Clients /\ Client("done").st = "done" /\ Client("done").left = 0
  BY ClientType
<1>4. AfterRead(r) = [http EXCEPT ![r] = IF http[r].left = 1 THEN Client("done") ELSE y]
  BY DEF AfterRead, GoodHttp
<1> HIDE DEF y
<1> QED BY <1>1, <1>2, <1>3, <1>4 DEF GoodHttp

LEMMA InitInv == Init => IInv
<1> SUFFICES ASSUME Init PROVE IInv
  OBVIOUS
<1>1. Client("none") \in Clients /\ Client("none").st = "none" /\ Client("none").left = 0
  BY ClientType
<1>2. GoodHttp(http) /\ \A r \in Requests : http[r].st = "none"
  BY <1>1 DEF Init, GoodHttp
<1>3. AnswersInOrder /\ http["connect"].st \notin Pending
  BY <1>2 DEF AnswersInOrder, Pending, Requests
<1>4. PcType /\ SrtpOnce /\ Chain
  BY DEF Init, PcInit, PcType, SrtpOnce, Chain, PC_INIT_STATE, PC_DTLS_DONE_STATE
<1>5. Phase
  BY <1>3 DEF Init, PcInit, Phase, PC_INIT_STATE
<1> QED BY <1>2, <1>3, <1>4, <1>5 DEF IInv

-----------------------------------------------------------------------------
(* HTTP reads.  A read that is handed on is read r; what the rest of the   *)
(* session looks like to the handler is in ReadFacts.                      *)

PcSame == UNCHANGED <<role, pc_state_, timer_on, dtls_, srtp, up, down>>

CalledBack(r) ==
  /\ r \in Requests /\ http[r].left > 0
  /\ cut' = (cut \/ http[r].left > 1)

LEMMA ReadFacts ==
  ASSUME IInv, NEW r, CalledBack(r)
  PROVE  /\ GoodHttp(AfterRead(r))
         /\ ~cut' => /\ ~cut /\ r = state_
                     /\ \A q \in Requests : AfterRead(r)[q].st \notin Pending
         /\ http["connect"].st \notin Pending => AfterRead(r)["connect"].st \notin Pending
<1>1. r \in Requests /\ http[r].left > 0 /\ http[r].left \in Nat
  BY DEF CalledBack, IInv, GoodHttp, Clients
<1>2. /\ GoodHttp(AfterRead(r)) /\ http[r].st = "answered"
      /\ \A q \in Requests : q # r => AfterRead(r)[q] = http[q]
      /\ http[r].left = 1 => AfterRead(r)[r].st = "done"
  BY <1>1, AfterOne DEF IInv
<1>3. ASSUME ~cut'
      PROVE  ~cut /\ r = state_ /\ http[r].left = 1
  <2>1. ~cut /\ ~(http[r].left > 1)
    BY <1>3, Zenon DEF CalledBack
  <2>2. http[r].left = 1
    BY <1>1, <2>1
  <2>3. r = state_
    BY <1>1, <1>2, <2>1 DEF IInv, AnswersInOrder
  <2> QED BY <2>1, <2>2, <2>3
<1>4. ASSUME ~cut', NEW q \in Requests
      PROVE  AfterRead(r)[q].st \notin Pending
  BY <1>1, <1>2, <1>3, <1>4 DEF IInv, AnswersInOrder, Pending
<1>5. http["connect"].st \notin Pending => AfterRead(r)["connect"].st \notin Pending
  BY <1>1, <1>2 DEF Pending, Requests
<1> QED BY <1>2, <1>3, <1>4, <1>5

(* The handler logs, throws or makes streams.                              *)
LEMMA HandlerKeeps ==
  ASSUME IInv, NEW r, CalledBack(r), PcSame,
         http' = AfterRead(r), state_' = state_
  PROVE  IInv' /\ Forward
<1>1. GoodHttp(http)' /\ AnswersInOrder'
  BY ReadFacts DEF AnswersInOrder, Pending
<1>2. (PcType /\ SrtpOnce /\ Chain)' /\ Forward
  BY DEF IInv, PcSame, PcType, SrtpOnce, Chain, Forward
<1>3. Phase'
  BY ReadFacts DEF IInv, Phase, PcSame, CalledBack
<1> QED BY <1>1, <1>2, <1>3 DEF IInv

(* The handler sends the next request.                                     *)
LEMMA HandlerPosts ==
  ASSUME IInv, NEW r, CalledBack(r), PcSame, role \in Mediasoup,
         NEW x \in Requests, PostNext(x, AfterRead(r)),
         \/ state_ = "broadcaster" /\ x = "transport"
         \/ state_ = "video" /\ x = "audio"
  PROVE  IInv' /\ Forward
<1>1. /\ GoodHttp(http') /\ state_' = x
      /\ \A q \in Requests : q # x => http'[q] = AfterRead(r)[q]
  BY ReadFacts, Posted
<1>2. GoodHttp(http)' /\ AnswersInOrder'
  BY <1>1, ReadFacts DEF AnswersInOrder, Pending
<1>3. (PcType /\ SrtpOnce /\ Chain)' /\ Forward
  BY DEF IInv, PcSame, PcType, SrtpOnce, Chain, Forward
<1>4. ~cut' /\ timer_on' => http'["connect"].st \notin Pending /\ x = "audio"
  BY <1>1, ReadFacts DEF IInv, Phase, PcSame, Requests
<1>5. Phase'
  BY <1>1, <1>4 DEF IInv, Phase, PcSame
<1> QED BY <1>2, <1>3, <1>5 DEF IInv

(* HandleTransportResponse.                                                *)
LEMMA TransportSets ==
  ASSUME IInv, NEW r, CalledBack(r), UNCHANGED down, role \in Mediasoup,
         state_ = "transport", SetRemoteAndUpdateState,
         PostNext("connect", AfterRead(r))
  PROVE  IInv' /\ Forward
<1>1. /\ GoodHttp(http') /\ state_' = "connect"
      /\ \A q \in Requests : q # "connect" => http'[q] = AfterRead(r)[q]
  BY ReadFacts, Posted DEF Requests
<1>2. GoodHttp(http)' /\ AnswersInOrder'
  BY <1>1, ReadFacts DEF AnswersInOrder, Pending
<1>3. pc_state_ = 0 /\ pc_state_' = 1
  BY DEF IInv, Phase, SetRemoteAndUpdateState, PC_SDP_DONE_STATE
<1>4. (PcType /\ SrtpOnce /\ Chain)' /\ Forward
  BY <1>3 DEF IInv, PcType, SrtpOnce, Chain, Forward, SetRemoteAndUpdateState,
     PC_DTLS_DONE_STATE
<1>5. ~cut' => ~timer_on'
  BY ReadFacts DEF IInv, Phase, SetRemoteAndUpdateState
<1>6. Phase'
  BY <1>1, <1>3, <1>5 DEF IInv, Phase, SetRemoteAndUpdateState
<1> QED BY <1>2, <1>4, <1>6 DEF IInv

(* HandleTransportConnectResponse: here the timer starts.                  *)
LEMMA ConnectStarts ==
  ASSUME IInv, NEW r, CalledBack(r), UNCHANGED down, role \in Mediasoup,
         state_ = "connect", StartTimer, http' = AfterRead(r), state_' = state_
  PROVE  IInv' /\ Forward
<1>1. GoodHttp(http)' /\ AnswersInOrder'
  BY ReadFacts DEF AnswersInOrder, Pending
<1>2. pc_state_ >= 1
  BY DEF IInv, Phase, PcType
<1>3. (PcType /\ SrtpOnce /\ Chain)' /\ Forward
  BY <1>2 DEF IInv, PcType, SrtpOnce, Chain, Forward, StartTimer
<1>4. ~cut' => http'["connect"].st \notin Pending
  BY ReadFacts DEF Requests
<1>5. Phase'
  BY <1>4 DEF IInv, Phase, StartTimer
<1> QED BY <1>1, <1>3, <1>5 DEF IInv

(* Whip and Whep.                                                          *)
LEMMA SdpHandled ==
  ASSUME IInv, NEW r, CalledBack(r), UNCHANGED down, role \notin Mediasoup,
         NEW lines, ParseAnswerSdp(lines), http' = AfterRead(r), state_' = state_
  PROVE  IInv' /\ Forward
<1>1. GoodHttp(http)' /\ AnswersInOrder'
  BY ReadFacts DEF AnswersInOrder, Pending
<1>2. /\ UNCHANGED <<role, dtls_, srtp, up>>
      /\ \/ pc_state_ >= 1 /\ UNCHANGED <<pc_state_, timer_on>>
         \/ pc_state_ = 0 /\ pc_state_' = 1 /\ timer_on'
  BY DEF ParseAnswerSdp, PC_SDP_DONE_STATE, IInv, PcType
<1>3. (PcType /\ SrtpOnce /\ Chain)' /\ Forward
  BY <1>2 DEF IInv, PcType, SrtpOnce, Chain, Forward, PC_DTLS_DONE_STATE
<1>4. Phase'
  BY <1>2 DEF IInv, Phase
<1> QED BY <1>1, <1>3, <1>4 DEF IInv

LEMMA HttpReadStep ==
  ASSUME IInv, NEW r \in Requests, HttpRead(r)
  PROVE  IInv' /\ Forward
<1> DEFINE a == [r |-> r, ok |-> http[r].ok, whole |-> http[r].left = 1]
           h == AfterRead(r)
<1>0. UNCHANGED down
  BY DEF HttpRead, peerVars
<1>1. CASE /\ cut' = (cut \/ http[r].left > 1)
           /\ OnHttpRead(a, h)
  <2>1. CalledBack(r)
    BY <1>1 DEF HttpRead, CalledBack
  <2>2. ASSUME OnlyLog(h) \/ Throw(h)
        PROVE  IInv' /\ Forward
    <3>1. PcSame /\ http' = h /\ state_' = state_
      BY <1>0, <2>2 DEF OnlyLog, Throw, pcVars, PcSame
    <3> QED BY <2>1, <3>1, HandlerKeeps
  <2>3. CASE role \notin Mediasoup /\ HandleSdp(a, h)
    <3>1. CASE \E lines \in Bodies(a) : ParseAnswerSdp(lines)
      <4>1. PICK lines : ParseAnswerSdp(lines)
        BY <3>1
      <4>2. (http' = h /\ state_' = state_) \/ Throw(h)
        BY <2>3 DEF HandleSdp
      <4> QED BY <1>0, <2>1, <2>2, <2>3, <4>1, <4>2, SdpHandled
    <3>2. CASE Throw(h)
      BY <3>2, <2>2
    <3> QED BY <2>3, <3>1, <3>2 DEF HandleSdp
  <2>4. ASSUME NEW x \in Requests, role \in Mediasoup, PostNext(x, h), PcSame,
               \/ state_ = "broadcaster" /\ x = "transport"
               \/ state_ = "video" /\ x = "audio"
        PROVE  IInv' /\ Forward
    BY <2>1, <2>4, HandlerPosts
  <2>5. ASSUME NEW kinds, NEW from, NEW says, CreateLater(kinds, from, says)
        PROVE  PcSame
    BY <1>0, <2>5 DEF CreateLater, PcSame
  <2>6. CASE role \in Mediasoup /\ state_ = "broadcaster" /\ HandleBroadCasterResponse(a, h)
    <3>1. CASE UNCHANGED pcVars /\ PostNext("transport", h)
      <4>1. PcSame
        BY <1>0, <3>1 DEF pcVars, PcSame
      <4> QED BY <2>4, <2>6, <3>1, <4>1 DEF Requests
    <3> QED BY <2>2, <2>6, <3>1 DEF HandleBroadCasterResponse, TransportRequest
  <2>7. CASE role \in Mediasoup /\ state_ = "transport" /\ HandleTransportResponse(a, h)
    <3>1. CASE SetRemoteAndUpdateState /\ PostNext("connect", h)
      BY <1>0, <2>1, <2>7, <3>1, TransportSets
    <3> QED BY <2>2, <2>7, <3>1 DEF HandleTransportResponse, TransportConnectRequest
  <2>8. CASE role \in Mediasoup /\ state_ = "connect" /\ HandleTransportConnectResponse(a, h)
    <3>1. CASE StartTimer /\ http' = h /\ state_' = state_
      BY <1>0, <2>1, <2>8, <3>1, ConnectStarts
    <3> QED BY <2>2, <2>8, <3>1 DEF HandleTransportConnectResponse
  <2>9. CASE role \in Mediasoup /\ state_ = "video" /\ HandleVideoProduceResponse(a, h)
    <3>1. CASE UNCHANGED pcVars /\ PostNext("audio", h)
      <4>1. PcSame
        BY <1>0, <3>1 DEF pcVars, PcSame
      <4> QED BY <2>4, <2>9, <3>1, <4>1 DEF Requests
    <3> QED BY <2>2, <2>9, <3>1 DEF HandleVideoProduceResponse, AudioRequest
  <2>10. CASE role \in Mediasoup /\ state_ = "audio" /\ HandleAudioProduceResponse(a, h)
    <3>1. CASE /\ CreateLater(SendKinds, {"offer"}, {"audio_produce"})
               /\ http' = h /\ state_' = state_
      BY <2>1, <2>5, <3>1, HandlerKeeps
    <3> QED BY <2>2, <2>10, <3>1 DEF HandleAudioProduceResponse
  <2>11. CASE role \in Mediasoup /\ state_ = "video" /\ HandleVideoConsumeResponse(a, h)
    <3>1. CASE CreateLater({"vrecv"}, {"vpeer"}, {}) /\ PostNext("audio", h)
      BY <2>4, <2>5, <2>11, <3>1 DEF Requests
    <3> QED BY <2>2, <2>11, <3>1 DEF HandleVideoConsumeResponse, AudioRequest
  <2>12. CASE role \in Mediasoup /\ state_ = "audio" /\ HandleAudioConsumeResponse(a, h)
    <3>1. CASE /\ CreateLater({"arecv"}, {"apeer"}, {})
               /\ http' = h /\ state_' = state_
      BY <2>1, <2>5, <3>1, HandlerKeeps
    <3> QED BY <2>2, <2>12, <3>1 DEF HandleAudioConsumeResponse
  <2> QED
    BY <1>1, <2>3, <2>6, <2>7, <2>8, <2>9, <2>10, <2>11, <2>12
       DEF OnHttpRead, PushHttpRead, PullHttpRead, Mediasoup
\* Nothing is handed on: the answer goes on being read.
<1>2. CASE /\ http[r].left > 1 /\ http' = h
           /\ UNCHANGED <<pcVars, state_, cut, crashed>>
  <2>1. PcSame /\ state_' = state_ /\ cut' = cut
    BY <1>0, <1>2 DEF pcVars, PcSame
  <2>2. http[r].left > 0 /\ http[r].left # 1
    BY <1>2 DEF IInv, GoodHttp, Clients
  <2>3. /\ GoodHttp(http') /\ http[r].st = "answered" /\ http'[r].st = "answered"
        /\ \A q \in Requests : q # r => http'[q] = http[q]
    BY <1>2, <2>2, AfterOne DEF IInv
  <2>4. AnswersInOrder'
    BY <2>1, <2>3 DEF IInv, AnswersInOrder
  <2>5. http["connect"].st \notin Pending => http'["connect"].st \notin Pending
    BY <2>3 DEF Pending, Requests
  <2>6. (PcType /\ SrtpOnce /\ Chain)' /\ Forward
    BY <2>1 DEF IInv, PcSame, PcType, SrtpOnce, Chain, Forward
  <2>7. Phase'
    BY <2>1, <2>5 DEF IInv, Phase, PcSame
  <2> QED BY <2>3, <2>4, <2>6, <2>7 DEF IInv
<1> QED BY <1>1, <1>2 DEF HttpRead

-----------------------------------------------------------------------------
(* The other steps.                                                        *)

LEMMA StartStep ==
  ASSUME IInv, StartNetwork
  PROVE  IInv' /\ Forward
<1> DEFINE x == IF role \in Mediasoup THEN "broadcaster" ELSE "sdp"
<1>1. /\ state_ = "none" /\ PostNext(x, http) /\ x \in Requests
      /\ UNCHANGED <<cut, down>> /\ UNCHANGED pcVars
  BY DEF StartNetwork, BroadCasterRequest, PostOffer, peerVars, Requests
<1>2. PcSame
  BY <1>1 DEF pcVars, PcSame
<1>3. /\ GoodHttp(http') /\ state_' = x
      /\ \A q \in Requests : q # x => http'[q] = http[q]
  BY <1>1, Posted DEF IInv
<1>4. AnswersInOrder'
  BY <1>1, <1>3 DEF IInv, AnswersInOrder, Requests
<1>5. (PcType /\ SrtpOnce /\ Chain)' /\ Forward
  BY <1>2 DEF IInv, PcSame, PcType, SrtpOnce, Chain, Forward
<1>6. Phase'
  BY <1>1, <1>2, <1>3 DEF IInv, Phase, PcSame
<1> QED BY <1>3, <1>4, <1>5, <1>6 DEF IInv

(* One client changes, and is not the current one's successor.             *)
LEMMA HttpFailStep ==
  ASSUME IInv, NEW r \in Requests, HttpFail(r)
  PROVE  IInv' /\ Forward
<1>1. /\ PcSame /\ UNCHANGED <<state_, cut>>
      /\ http' = [http EXCEPT ![r] = Client("done")]
  BY DEF HttpFail, pcVars, peerVars, PcSame
<1>2. Client("done") \in Clients /\ Client("done").st = "done" /\ Client("done").left = 0
  BY ClientType
<1>3. /\ GoodHttp(http') /\ http'[r].st = "done"
      /\ \A q \in Requests : q # r => http'[q] = http[q]
  BY <1>1, <1>2 DEF IInv, GoodHttp
<1>4. AnswersInOrder'
  BY <1>1, <1>3 DEF IInv, AnswersInOrder
<1>5. http["connect"].st \notin Pending => http'["connect"].st \notin Pending
  BY <1>3 DEF Pending, Requests
<1>6. (PcType /\ SrtpOnce /\ Chain)' /\ Forward
  BY <1>1 DEF IInv, PcSame, PcType, SrtpOnce, Chain, Forward
<1>7. Phase'
  BY <1>1, <1>5 DEF IInv, Phase, PcSame
<1> QED BY <1>3, <1>4, <1>6, <1>7 DEF IInv

LEMMA ServerStep ==
  ASSUME IInv, NEW r \in Requests, ServerAnswers(r)
  PROVE  IInv' /\ Forward
<1>1. PcSame /\ UNCHANGED <<state_, cut>> /\ http[r].st = "sent"
  BY DEF ServerAnswers, pcVars, PcSame
<1>2. PICK ok \in BOOLEAN, counted \in BOOLEAN, n \in 1..MaxReads :
        http' = [http EXCEPT ![r] =
          [st |-> "answered", ok |-> ok, counted |-> counted, left |-> n]]
  BY DEF ServerAnswers
<1> DEFINE c == [st |-> "answered", ok |-> ok, counted |-> counted, left |-> n]
<1>3. c \in Clients /\ c.st = "answered"
  BY <1>2, SessionConstants DEF Clients
<1> HIDE DEF c
<1>4. /\ GoodHttp(http') /\ http'[r].st = "answered"
      /\ \A q \in Requests : q # r => http'[q] = http[q]
  BY <1>2, <1>3 DEF IInv, GoodHttp, c
<1>5. AnswersInOrder'
  BY <1>1, <1>4 DEF IInv, AnswersInOrder
<1>6. http["connect"].st \notin Pending => http'["connect"].st \notin Pending
  BY <1>1, <1>4 DEF Pending, Requests
<1>7. (PcType /\ SrtpOnce /\ Chain)' /\ Forward
  BY <1>1 DEF IInv, PcSame, PcType, SrtpOnce, Chain, Forward
<1>8. Phase'
  BY <1>1, <1>6 DEF IInv, Phase, PcSame
<1> QED BY <1>4, <1>5, <1>7, <1>8 DEF IInv

(* Time, STUN requests and the network leave signalling alone; a STUN      *)
(* datagram appears only where one was before, or with the timer.          *)
LEMMA NetworkStep ==
  ASSUME IInv, UNCHANGED <<role, pc_state_, timer_on, dtls_, srtp, state_, http, cut>>,
         "stun" \in up' => "stun" \in up \/ (timer_on /\ pc_state_ >= 1),
         "stun" \in down' => "stun" \in up \/ "stun" \in down
  PROVE  IInv' /\ Forward
<1>1. (GoodHttp(http) /\ AnswersInOrder /\ Phase)'
  BY DEF IInv, GoodHttp, AnswersInOrder, Phase
<1>2. (PcType /\ SrtpOnce /\ Chain)' /\ Forward
  BY DEF IInv, PcType, SrtpOnce, Chain, Forward
<1> QED BY <1>1, <1>2 DEF IInv

LEMMA ReadStunStep ==
  ASSUME IInv, ReadStun
  PROVE  IInv' /\ Forward
<1>1. /\ UNCHANGED <<state_, http, cut, down, role, timer_on, srtp>>
      /\ "stun" \in down /\ pc_state_ < 2 /\ pc_state_' = 2
      /\ "stun" \in up' => "stun" \in up
  BY DEF ReadStun, OnReadStun, ownVars, peerVars, PC_STUN_DONE_STATE
<1>2. timer_on /\ pc_state_ >= 1
  BY <1>1 DEF IInv, Chain
<1>3. (GoodHttp(http) /\ AnswersInOrder)'
  BY <1>1 DEF IInv, GoodHttp, AnswersInOrder
<1>4. (PcType /\ SrtpOnce /\ Chain)' /\ Forward
  BY <1>1, <1>2 DEF IInv, PcType, SrtpOnce, Chain, Forward, PC_DTLS_DONE_STATE
<1>5. Phase'
  BY <1>1, <1>2 DEF IInv, Phase, PcType
<1> QED BY <1>3, <1>4, <1>5 DEF IInv

(* DTLS completes with the timer on, so connect has been answered, and the *)
(* video request meets no other.                                           *)
LEMMA ReadDtlsStep ==
  ASSUME IInv, NEW m, ReadDtls(m)
  PROVE  IInv' /\ Forward
<1>1. /\ UNCHANGED <<cut, down, role, timer_on>>
      /\ OnReadDtls(m)
      /\ "stun" \in up' => "stun" \in up
      /\ dtls_' # "new" => dtls_ # "new"
  BY DEF ReadDtls, OnReadDtls, DtlsEarly, DtlsHandshake, DtlsFinished, peerVars
<1>2. CASE UNCHANGED <<pc_state_, srtp, reports>>
  <2>1. UNCHANGED <<state_, http>>
    BY <1>2 DEF ReadDtls
  <2>2. (GoodHttp(http) /\ AnswersInOrder /\ Phase)'
    BY <1>1, <1>2, <2>1 DEF IInv, GoodHttp, AnswersInOrder, Phase
  <2>3. (PcType /\ SrtpOnce /\ Chain)' /\ Forward
    BY <1>1, <1>2 DEF IInv, PcType, SrtpOnce, Chain, Forward
  <2> QED BY <2>2, <2>3 DEF IInv
<1>3. CASE /\ pc_state_ # 3 /\ pc_state_' = 3 /\ srtp' = srtp + 1
           /\ dtls_ # "new"
  <2>1. pc_state_ = 2 /\ timer_on
    BY <1>3 DEF IInv, PcType, Chain
  <2>2. (PcType /\ SrtpOnce /\ Chain)' /\ Forward
    BY <1>1, <1>3, <2>1 DEF IInv, PcType, SrtpOnce, Chain, Forward, PC_DTLS_DONE_STATE
  <2>3. CASE UNCHANGED <<state_, http>>
    <3>1. (GoodHttp(http) /\ AnswersInOrder)'
      BY <1>1, <2>3 DEF IInv, GoodHttp, AnswersInOrder
    <3>2. Phase'
      BY <1>1, <1>3, <2>1, <2>3 DEF IInv, Phase
    <3> QED BY <2>2, <3>1, <3>2 DEF IInv
  <2>4. CASE role \in Mediasoup /\ PostNext("video", http)
    <3>1. /\ GoodHttp(http') /\ state_' = "video"
          /\ \A q \in Requests : q # "video" => http'[q] = http[q]
      BY <2>4, Posted DEF IInv, Requests
    <3>2. ~cut => \A q \in Requests : http[q].st \notin Pending
      BY <2>1, <2>4 DEF IInv, Phase, AnswersInOrder, Pending
    <3>3. AnswersInOrder'
      BY <1>1, <3>1, <3>2 DEF AnswersInOrder, Pending
    <3>4. Phase'
      BY <1>1, <1>3, <2>4, <3>1, <3>2 DEF Phase, Requests
    <3> QED BY <2>2, <3>1, <3>3, <3>4 DEF IInv
  <2> QED BY <2>3, <2>4 DEF ReadDtls, VideoRequest
<1> QED
  BY <1>1, <1>2, <1>3
     DEF OnReadDtls, DtlsEarly, DtlsHandshake, DtlsFinished, OnDtlsConnected,
         PC_DTLS_DONE_STATE

LEMMA StepInv ==
  ASSUME IInv, [Next]_vars
  PROVE  IInv' /\ (Forward \/ UNCHANGED vars)
<1>1. CASE UNCHANGED vars
  BY <1>1, NetworkStep DEF vars, pcVars, ownVars, peerVars
<1>2. CASE StartNetwork
  BY <1>2, StartStep
<1>3. ASSUME NEW r \in Requests, HttpRead(r) \/ HttpFail(r) \/ ServerAnswers(r)
      PROVE  IInv' /\ Forward
  BY <1>3, HttpReadStep, HttpFailStep, ServerStep
<1>4. CASE Timer \/ Tick
  BY <1>4, NetworkStep
     DEF Timer, Tick, OnTimer, Elapse, ownVars, peerVars, PC_SDP_DONE_STATE
<1>5. CASE ReadStun
  BY <1>5, ReadStunStep
<1>6. CASE \E m \in {"ch", "fin"} : ReadDtls(m)
  BY <1>6, ReadDtlsStep
<1>7. CASE PeerStun \/ PeerDtls \/ PeerSend
  BY <1>7, NetworkStep DEF PeerStun, PeerDtls, PeerSend, pcVars, ownVars
<1>8. ASSUME NEW m, LoseUp(m) \/ LoseDown(m)
      PROVE  IInv' /\ Forward
  BY <1>8, NetworkStep DEF LoseUp, LoseDown, pcVars, ownVars, peerVars
<1> QED
  BY <1>1, <1>2, <1>3, <1>4, <1>5, <1>6, <1>7, <1>8 DEF Next, Alive, Step

(* However DTLS messages and SDP answers repeat, a session has one pair of *)
(* SRTP sessions, made on the way into DTLS_DONE.                          *)
THEOREM OneSrtpPair == Spec => []SrtpOnce
<1>1. IInv => SrtpOnce
  BY DEF IInv
<1> QED BY <1>1, InitInv, StepInv, PTL DEF Spec

(* OnHttpRead's choice of the handler by state_ alone is right as long as  *)
(* no answer came in pieces, for any number of reads and any network.      *)
THEOREM AnswerMeetsItsHandler == Spec => []AnswersInOrder
<1>1. IInv => AnswersInOrder
  BY DEF IInv
<1> QED BY <1>1, InitInv, StepInv, PTL DEF Spec

(* pc_state_ never goes back, although UpdatePcState and ParseAnswerSdp    *)
(* assign it without regard to where it is or may be called again.         *)
THEOREM NeverBack == Spec => StateForward
<1>1. IInv /\ [Next]_vars => IInv' /\ [pc_state_' >= pc_state_]_vars
  BY StepInv DEF Forward
<1> QED BY <1>1, InitInv, PTL DEF Spec, StateForward
-----------------------------------------------------------------------------
(* StreamsInPlace.  Five more facts make it inductive: an answer that is   *)
(* an error is remembered in bad; nothing of the last flight of DTLS is    *)
(* seen before the session is in its last state; which SSRCs the answers   *)
(* have left; and, by role, which streams are not made yet and which are.  *)

BadSeen == \A r \in Requests : ~http[r].ok => bad

LastFlight ==
  /\ "dtls" \in reports => pc_state_ = 3
  /\ dtls_ = "finished" => pc_state_ = 3
  /\ "sfin" \in up => pc_state_ = 3
  /\ peer = "done" => pc_state_ = 3

SsrcsKnown ==
  /\ role \in Mediasoup => ssrcs = {}
  /\ pc_state_ = 0 => ssrcs = {}
  /\ role = "whip" /\ pc_state_ >= 1 => ssrcs = {"offer"}
  /\ role = "whep" /\ pc_state_ >= 1 /\ ~cut /\ ~bad => ssrcs = {"vpeer", "apeer"}

(* A mediasoup owner makes streams once the answer to audio, or for a      *)
(* player's video the answer to video, is handled.                         *)
NotYetMade ==
  /\ pc_state_ # 3 => \A k \in SendKinds \cup RecvKinds : streams[k] = NoStream
  /\ ~cut /\ role \in Mediasoup /\ (state_ # "audio" \/ http["audio"].st \in Pending) =>
       \A k \in {"vsend", "asend", "arecv"} : streams[k] = NoStream
  /\ ~cut /\ role = "mspull" /\ state_ # "audio" => streams["vrecv"] = NoStream

Made ==
  /\ role = "whip" /\ pc_state_ = 3 => \A k \in SendKinds : streams[k].n > 0
  /\ role = "mspush" /\ "audio_produce" \in reports =>
       pc_state_ = 3 /\ \A k \in SendKinds : streams[k].n > 0
  /\ role = "whep" /\ pc_state_ = 3 /\ ~cut /\ ~bad =>
       streams["vrecv"].ssrc = "vpeer" /\ streams["arecv"].ssrc = "apeer"
  /\ role = "mspull" /\ ~cut /\ ~bad =>
       /\ http["video"].st = "done" => streams["vrecv"].ssrc = "vpeer"
       /\ http["audio"].st = "done" => streams["arecv"].ssrc = "apeer"

StreamInv ==
  /\ TypeOK /\ BadSeen /\ CrashNeedsBadAnswer /\ LastFlight /\ SsrcsKnown
  /\ StreamsMadeOnce /\ NotYetMade /\ Made

(* TypeOK in three parts: the PeerConnection, the owner, the peer.         *)
AllKinds == SendKinds \cup RecvKinds
Streams == [n : Nat, ssrc : Ssrcs \cup {"none"}]
Answers == [st : {"none", "sent", "answered", "done"},
            ok : BOOLEAN, counted : BOOLEAN, left : 0..MaxReads]
States == Requests \cup {"none"}

PcOK ==
  /\ role \in Roles /\ pc_state_ \in 0..3 /\ timer_on \in BOOLEAN
  /\ stun_age \in 0..StunGap /\ ice \in BOOLEAN
  /\ cred \in {"none", "right", "wrong"} /\ ssrcs \subseteq Ssrcs
  /\ dtls_ \in {"new", "accept", "hello", "finished"}
  /\ bio_in_ \subseteq {"ch", "fin"} /\ srtp \in Nat
  /\ streams \in [AllKinds -> Streams]
  /\ up \subseteq {"stun", "sh", "sfin"}
  /\ reports \subseteq {"sdp", "stun", "dtls", "audio_produce"}

OwnOK ==
  /\ state_ \in States /\ http \in [Requests -> Answers]
  /\ cut \in BOOLEAN /\ bad \in BOOLEAN /\ crashed \in BOOLEAN

PeerOK ==
  /\ peer \in {"idle", "ch", "fin", "done"} /\ known \in BOOLEAN
  /\ down \subseteq {"stun", "ch", "fin"}

LEMMA TypeParts == TypeOK <=> PcOK /\ OwnOK /\ PeerOK
  BY Zenon DEF TypeOK, PcOK, OwnOK, PeerOK, AllKinds, Streams, Answers, States

LEMMA TypePartsNext == TypeOK' <=> PcOK' /\ OwnOK' /\ PeerOK'
  BY Zenon DEF TypeOK, PcOK, OwnOK, PeerOK, AllKinds, Streams, Answers, States

LEMMA StreamsInit == Init => StreamInv
<1> SUFFICES ASSUME Init PROVE StreamInv
  OBVIOUS
<1>1. /\ Client("none") \in Answers /\ Client("none").st = "none"
      /\ Client("none").ok = TRUE
  BY SessionConstants DEF Client, Answers
<1>2. /\ http \in [Requests -> Answers]
      /\ \A r \in Requests : http[r].st = "none" /\ http[r].ok = TRUE
  BY <1>1 DEF Init
<1>3. NoStream \in Streams /\ NoStream.n = 0
  BY DEF NoStream, Streams
<1>4. streams \in [AllKinds -> Streams] /\ \A k \in AllKinds : streams[k] = NoStream
  BY <1>3 DEF Init, PcInit, AllKinds
<1>5. PcOK
  <2>1. pc_state_ \in 0..3 /\ stun_age \in 0..StunGap /\ srtp \in Nat
    BY PcConstants DEF Init, PcInit, PC_INIT_STATE
  <2> QED BY <1>4, <2>1, Zenon DEF Init, PcInit, PcOK
<1>6. OwnOK /\ PeerOK
  BY <1>2 DEF Init, OwnOK, PeerOK, States
<1>7. BadSeen /\ CrashNeedsBadAnswer /\ LastFlight /\ SsrcsKnown
  BY <1>2 DEF Init, PcInit, BadSeen, CrashNeedsBadAnswer, LastFlight, SsrcsKnown,
     PC_INIT_STATE
<1>8. StreamsMadeOnce /\ NotYetMade
  BY <1>3, <1>4 DEF StreamsMadeOnce, NotYetMade, AllKinds, SendKinds, RecvKinds
<1>9. Made
  BY <1>2 DEF Init, PcInit, Made, PC_INIT_STATE, Requests
<1> QED BY <1>5, <1>6, <1>7, <1>8, <1>9, TypeParts DEF StreamInv

LEMMA StreamsFollow ==
  ASSUME IInv, StreamInv
  PROVE  StreamsInPlace
<1>1. ReadyMeansSent
  <2>1. ASSUME role = "mspush", "audio_produce" \in reports
        PROVE  \A k \in SendKinds : PacketSent(k)
    BY <2>1 DEF IInv, SrtpOnce, StreamInv, Made, PacketSent, PC_DTLS_DONE_STATE
  <2>2. ASSUME role = "whip", "dtls" \in reports
        PROVE  \A k \in SendKinds : PacketSent(k)
    BY <2>2 DEF IInv, SrtpOnce, StreamInv, LastFlight, Made, PacketSent, PC_DTLS_DONE_STATE
  <2> QED BY <2>1, <2>2 DEF ReadyMeansSent, SendOnly
<1>2. RtpFindsStream
  <2> SUFFICES ASSUME NEW kind \in RecvKinds, PeerMaySend(kind), ~cut, ~bad,
                      role = "mspull" =>
                        http[IF kind = "vrecv" THEN "video" ELSE "audio"].st = "done"
               PROVE  RtpAccepted(kind)
    BY DEF RtpFindsStream
  <2>1. pc_state_ = 3 /\ srtp = 1 /\ role \in {"whep", "mspull"}
    BY DEF PeerMaySend, IInv, SrtpOnce, StreamInv, LastFlight, PC_DTLS_DONE_STATE
  <2>2. kind = "vrecv" \/ kind = "arecv"
    BY DEF RecvKinds
  <2>3. streams[kind].ssrc \in {"vpeer", "apeer"}
    BY <2>1, <2>2 DEF StreamInv, Made
  <2> QED BY <2>1, <2>3 DEF RtpAccepted, PC_DTLS_DONE_STATE
<1> QED BY <1>1, <1>2 DEF StreamInv, StreamsInPlace

-----------------------------------------------------------------------------
(* The steps that make no stream.  MovesOn: no answer that would have made *)
(* one is done with by the step, unless in pieces or after an error.       *)
MovesOn ==
  /\ ~cut' /\ (state_' # "audio" \/ http'["audio"].st \in Pending) =>
       state_ # "audio" \/ http["audio"].st \in Pending
  /\ ~cut' /\ state_' # "audio" => state_ # "audio"
  /\ role = "mspull" /\ ~cut' /\ ~bad' =>
       \A q \in {"video", "audio"} : http'[q].st = "done" => http[q].st = "done"

LEMMA Kept ==
  ASSUME StreamInv, UNCHANGED <<role, streams>>, pc_state_' = 3 <=> pc_state_ = 3,
         "audio_produce" \in reports' => "audio_produce" \in reports,
         cut => cut', bad => bad', role \in Mediasoup => MovesOn,
         PcOK', OwnOK', PeerOK', BadSeen', CrashNeedsBadAnswer', LastFlight', SsrcsKnown'
  PROVE  StreamInv'
<1>1. TypeOK'
  BY TypePartsNext
<1>2. StreamsMadeOnce'
  BY DEF StreamInv, StreamsMadeOnce
<1>3. NotYetMade'
  BY DEF StreamInv, NotYetMade, MovesOn, Mediasoup
<1>4. Made'
  BY DEF StreamInv, Made, MovesOn, Mediasoup
<1> QED BY <1>1, <1>2, <1>3, <1>4 DEF StreamInv

(* A step that leaves the HTTP clients alone.                              *)
LEMMA OwnKept ==
  ASSUME StreamInv, UNCHANGED ownVars
  PROVE  /\ OwnOK' /\ BadSeen' /\ CrashNeedsBadAnswer' /\ MovesOn
         /\ (cut => cut') /\ (bad => bad')
<1>1. OwnOK
  BY TypeParts DEF StreamInv
<1>2. UNCHANGED <<state_, http, cut, bad, crashed>>
  BY DEF ownVars
<1>3. OwnOK'
  BY <1>1, <1>2 DEF OwnOK
<1>4. BadSeen' /\ CrashNeedsBadAnswer'
  BY <1>2 DEF StreamInv, BadSeen, CrashNeedsBadAnswer
<1>5. MovesOn
  BY <1>2 DEF MovesOn
<1> QED BY <1>2, <1>3, <1>4, <1>5

LEMMA NetworkKeeps ==
  ASSUME IInv, StreamInv,
         \/ Timer \/ Tick \/ PeerStun \/ PeerDtls \/ PeerSend
         \/ \E m \in {"stun", "sh", "sfin"} : LoseUp(m)
         \/ \E m \in {"stun", "ch", "fin"} : LoseDown(m)
  PROVE  StreamInv'
<1>1. UNCHANGED ownVars
  BY DEF Timer, Tick, PeerStun, PeerDtls, PeerSend, LoseUp, LoseDown
<1>2. UNCHANGED <<role, pc_state_, timer_on, ice, cred, ssrcs, dtls_, bio_in_,
                  srtp, streams, reports>>
  BY DEF Timer, Tick, PeerStun, PeerDtls, PeerSend, LoseUp, LoseDown, OnTimer,
     Elapse, pcVars
<1>3. PcOK /\ PeerOK
  BY TypeParts DEF StreamInv
<1>4. stun_age' \in 0..StunGap
  BY <1>3, PcConstants DEF PcOK, Timer, Tick, PeerStun, PeerDtls, PeerSend, LoseUp,
     LoseDown, OnTimer, Elapse, pcVars
<1>5. /\ up' \subseteq {"stun", "sh", "sfin"}
      /\ "sfin" \in up' => "sfin" \in up
  BY <1>3 DEF PcOK, Timer, Tick, PeerStun, PeerDtls, PeerSend, LoseUp,
     LoseDown, OnTimer, Elapse, pcVars
<1>6. PcOK'
  BY <1>2, <1>3, <1>4, <1>5, Zenon DEF PcOK
<1>7. PeerOK' /\ (peer' = "done" => peer = "done" \/ "sfin" \in up)
  BY <1>3 DEF PeerOK, Timer, Tick, PeerStun, PeerDtls, PeerSend, LoseUp,
     LoseDown, peerVars
<1>8. LastFlight'
  BY <1>2, <1>5, <1>7 DEF StreamInv, LastFlight
<1>9. SsrcsKnown'
  BY <1>1, <1>2 DEF StreamInv, SsrcsKnown, ownVars
<1> QED BY <1>1, <1>2, <1>6, <1>7, <1>8, <1>9, OwnKept, Kept

LEMMA StunKeeps ==
  ASSUME IInv, StreamInv, ReadStun
  PROVE  StreamInv'
<1>1. /\ UNCHANGED ownVars /\ UNCHANGED peerVars
      /\ UNCHANGED <<role, timer_on, stun_age, ice, cred, ssrcs, srtp, streams>>
      /\ pc_state_ < 2 /\ pc_state_' = 2 /\ "stun" \in down
      /\ reports' = reports \cup {"stun"} /\ bio_in_' = {}
      /\ \/ dtls_' = "hello" /\ up' = up \cup {"sh"}
         \/ dtls_' = "accept" /\ up' = up
  BY DEF ReadStun, OnReadStun, PC_STUN_DONE_STATE
<1>2. pc_state_ = 1
  BY <1>1 DEF IInv, Chain, PcType
<1>3. PcOK /\ PeerOK
  BY TypeParts DEF StreamInv
<1>4. PcOK'
  <2>1. pc_state_' \in 0..3 /\ reports' \subseteq {"sdp", "stun", "dtls", "audio_produce"}
    BY <1>1, <1>3 DEF PcOK
  <2>2. up' \subseteq {"stun", "sh", "sfin"} /\ bio_in_' \subseteq {"ch", "fin"}
    BY <1>1, <1>3 DEF PcOK
  <2> QED BY <1>1, <1>3, <2>1, <2>2, Zenon DEF PcOK
<1>5. PeerOK'
  BY <1>1, <1>3 DEF PeerOK, peerVars
<1>6. LastFlight'
  BY <1>1, <1>2 DEF StreamInv, LastFlight, peerVars
<1>7. SsrcsKnown'
  BY <1>1, <1>2 DEF StreamInv, SsrcsKnown, ownVars
<1> QED BY <1>1, <1>2, <1>4, <1>5, <1>6, <1>7, OwnKept, Kept


(* The HTTP clients: a request is sent, one piece of an answer is read.    *)
HttpOK(h) == h \in [Requests -> Answers] /\ \A q \in Requests : ~h[q].ok => bad

LEMMA ClientOK ==
  ASSUME NEW st \in {"none", "sent", "answered", "done"}
  PROVE  Client(st) \in Answers /\ Client(st).st = st /\ Client(st).ok = TRUE
  BY SessionConstants DEF Client, Answers

LEMMA PostOK ==
  ASSUME NEW h, HttpOK(h), NEW r \in Requests, PostNext(r, h)
  PROVE  /\ http' \in [Requests -> Answers] /\ \A q \in Requests : ~http'[q].ok => bad
         /\ state_' = r /\ state_' \in States /\ UNCHANGED crashed
         /\ http'[r].st = "sent" /\ \A q \in Requests : q # r => http'[q] = h[q]
<1>1. Client("sent") \in Answers /\ Client("sent").st = "sent" /\ Client("sent").ok = TRUE
  BY ClientOK
<1> HIDE DEF Client
<1> QED BY <1>1 DEF PostNext, HttpOK, States

LEMMA ReadOK ==
  ASSUME StreamInv, NEW r \in Requests, http[r].left > 0
  PROVE  /\ HttpOK(AfterRead(r))
         /\ ~http[r].ok => bad
         /\ \A q \in Requests : q # r => AfterRead(r)[q] = http[q]
<1>1. http \in [Requests -> Answers] /\ BadSeen
  BY TypeParts DEF StreamInv, OwnOK
<1> DEFINE y == [http[r] EXCEPT !.left = http[r].left - 1]
<1>2. http[r] \in Answers
  BY <1>1
<1>3. y \in Answers /\ y.ok = http[r].ok
  BY <1>2, SessionConstants DEF Answers
<1>4. Client("done") \in Answers /\ Client("done").ok = TRUE
  BY ClientOK
<1>5. AfterRead(r) = [http EXCEPT ![r] = IF http[r].left = 1 THEN Client("done") ELSE y]
  BY <1>1 DEF AfterRead
<1> HIDE DEF y
<1> QED BY <1>1, <1>2, <1>3, <1>4, <1>5 DEF HttpOK, BadSeen

(* What a handler may do to the owner's state.                             *)
OwnStep ==
  /\ state_' \in States /\ http' \in [Requests -> Answers]
  /\ \A q \in Requests : ~http'[q].ok => bad
  /\ cut' \in BOOLEAN /\ (cut => cut') /\ UNCHANGED <<bad, peer, known, down>>
  /\ crashed' \in BOOLEAN /\ (crashed' => cut' \/ bad)

LEMMA OwnStepKeeps ==
  ASSUME StreamInv, OwnStep
  PROVE  /\ OwnOK' /\ PeerOK' /\ BadSeen' /\ CrashNeedsBadAnswer'
         /\ (cut => cut') /\ (bad => bad')
<1>1. OwnOK /\ PeerOK
  BY TypeParts DEF StreamInv
<1>2. OwnOK' /\ PeerOK'
  BY <1>1, Zenon DEF OwnStep, OwnOK, PeerOK
<1>3. BadSeen' /\ CrashNeedsBadAnswer'
  BY DEF OwnStep, BadSeen, CrashNeedsBadAnswer
<1> QED BY <1>2, <1>3 DEF OwnStep

(* The PeerConnection is not touched.                                      *)
LEMMA PcUntouched ==
  ASSUME StreamInv, UNCHANGED pcVars, OwnStep, role \in Mediasoup => MovesOn
  PROVE  StreamInv'
<1>1. UNCHANGED <<role, pc_state_, timer_on, stun_age, ice, cred, ssrcs, dtls_,
                  bio_in_, srtp, streams, up, reports>>
  BY DEF pcVars
<1>2. PcOK
  BY TypeParts DEF StreamInv
<1>3. PcOK'
  BY <1>1, <1>2, Zenon DEF PcOK
<1>4. LastFlight'
  BY <1>1 DEF StreamInv, LastFlight, OwnStep
<1>5. SsrcsKnown'
  BY <1>1 DEF StreamInv, SsrcsKnown, OwnStep
<1> QED BY <1>1, <1>3, <1>4, <1>5, OwnStepKeeps, Kept

LEMMA StartKeeps ==
  ASSUME IInv, StreamInv, StartNetwork
  PROVE  StreamInv'
<1> DEFINE x == IF role \in Mediasoup THEN "broadcaster" ELSE "sdp"
<1>1. /\ PostNext(x, http) /\ x \in Requests /\ x # "audio" /\ x # "video"
      /\ state_ = "none" /\ UNCHANGED <<cut, bad, peer, known, down>> /\ UNCHANGED pcVars
  BY DEF StartNetwork, BroadCasterRequest, PostOffer, peerVars, Requests
<1>2. OwnOK /\ HttpOK(http)
  BY TypeParts DEF StreamInv, OwnOK, HttpOK, BadSeen
<1>3. /\ http' \in [Requests -> Answers] /\ \A q \in Requests : ~http'[q].ok => bad
      /\ state_' = x /\ state_' \in States /\ UNCHANGED crashed
      /\ \A q \in Requests : q # x => http'[q] = http[q]
  BY <1>1, <1>2, PostOK
<1> HIDE DEF x
<1>4. OwnStep
  BY <1>1, <1>2, <1>3 DEF OwnStep, OwnOK, StreamInv, CrashNeedsBadAnswer
<1>5. MovesOn
  BY <1>1, <1>3 DEF MovesOn, Requests
<1> QED BY <1>1, <1>4, <1>5, PcUntouched

LEMMA FailKeeps ==
  ASSUME StreamInv, NEW r \in Requests, HttpFail(r) \/ ServerAnswers(r)
  PROVE  StreamInv'
<1>1. /\ UNCHANGED pcVars /\ UNCHANGED <<state_, cut, crashed, peer, down>>
      /\ http[r].st \in Pending
  BY DEF HttpFail, ServerAnswers, peerVars, Pending
<1>2. UNCHANGED <<role, pc_state_, timer_on, stun_age, ice, cred, ssrcs, dtls_,
                  bio_in_, srtp, streams, up, reports>>
  BY <1>1 DEF pcVars
<1>3. PcOK /\ OwnOK /\ PeerOK
  BY TypeParts DEF StreamInv
<1>4. PcOK'
  BY <1>2, <1>3, Zenon DEF PcOK
<1>5. PICK c \in Answers :
        /\ http' = [http EXCEPT ![r] = c] /\ bad' \in BOOLEAN /\ known' \in BOOLEAN
        /\ (bad => bad') /\ (~c.ok => bad')
        /\ (c.st = "done" /\ bad') \/ c.st = "answered"
  <2>1. CASE HttpFail(r)
    <3>1. /\ Client("done") \in Answers /\ Client("done").ok = TRUE
          /\ Client("done").st = "done"
      BY ClientOK
    <3>2. http' = [http EXCEPT ![r] = Client("done")] /\ bad' = TRUE /\ known' = known
      BY <2>1 DEF HttpFail, peerVars
    <3> HIDE DEF Client
    <3> QED BY <1>3, <3>1, <3>2 DEF PeerOK
  <2>2. CASE ServerAnswers(r)
    <3>1. PICK ok \in BOOLEAN, counted \in BOOLEAN, n \in 1..MaxReads :
            /\ http' = [http EXCEPT ![r] =
                 [st |-> "answered", ok |-> ok, counted |-> counted, left |-> n]]
            /\ bad' = (bad \/ ~ok)
            /\ known' = (known \/ (ok /\ r \in {"sdp", "connect"}))
      BY <2>2 DEF ServerAnswers
    <3> DEFINE d == [st |-> "answered", ok |-> ok, counted |-> counted, left |-> n]
    <3>2. d \in Answers /\ d.st = "answered" /\ d.ok = ok
      BY <3>1, SessionConstants DEF Answers
    <3>3. http' = [http EXCEPT ![r] = d]
      BY <3>1
    <3>4. bad' \in BOOLEAN /\ known' \in BOOLEAN /\ (bad => bad') /\ (~ok => bad')
      BY <1>3, <3>1, Zenon DEF OwnOK, PeerOK
    <3> HIDE DEF d
    <3> QED BY <3>2, <3>3, <3>4
  <2> QED BY <2>1, <2>2
<1>6. /\ http' \in [Requests -> Answers] /\ http'[r] = c
      /\ \A q \in Requests : q # r => http'[q] = http[q]
  BY <1>3, <1>5 DEF OwnOK
<1>7. OwnOK' /\ PeerOK'
  BY <1>1, <1>3, <1>5, <1>6, Zenon DEF OwnOK, PeerOK
<1>8. BadSeen' /\ CrashNeedsBadAnswer'
  BY <1>1, <1>5, <1>6 DEF StreamInv, BadSeen, CrashNeedsBadAnswer
<1>9. LastFlight' /\ SsrcsKnown'
  BY <1>1, <1>2, <1>5 DEF StreamInv, LastFlight, SsrcsKnown
<1>10. MovesOn
  BY <1>1, <1>5, <1>6 DEF MovesOn, Requests, Pending
<1> QED BY <1>1, <1>2, <1>4, <1>5, <1>7, <1>8, <1>9, <1>10, Kept


(* Whip and Whep: the answer, good or not, whole or not.                   *)
LEMMA SdpKeeps ==
  ASSUME StreamInv, OwnStep, role \notin Mediasoup, NEW r \in Requests, http[r].left > 0,
         ~http[r].ok => bad, http[r].left # 1 => cut', NEW lines,
         lines \in Bodies([r |-> r, ok |-> http[r].ok, whole |-> http[r].left = 1]),
         ParseAnswerSdp(lines)
  PROVE  StreamInv'
<1>1. PcOK
  BY TypeParts DEF StreamInv
<1>2. /\ UNCHANGED <<role, stun_age, dtls_, bio_in_, srtp, streams, up>>
      /\ \/ pc_state_ >= 1 /\ UNCHANGED <<pc_state_, timer_on, reports>>
         \/ /\ pc_state_ = 0 /\ pc_state_' = 1 /\ timer_on' = TRUE
            /\ reports' = reports \cup {"sdp"}
      /\ ice' = (ice \/ "cand" \in lines) /\ cred' = CredAfter(lines)
      /\ ssrcs' = IF ssrcs \cup (lines \cap Ssrcs) = {} THEN {"offer"}
                  ELSE ssrcs \cup (lines \cap Ssrcs)
  BY <1>1 DEF ParseAnswerSdp, PC_SDP_DONE_STATE, PcOK
<1>3. PcOK'
  <2>1. /\ pc_state_' \in 0..3
        /\ reports' \subseteq {"sdp", "stun", "dtls", "audio_produce"}
    <3>1. /\ pc_state_' = pc_state_ \/ pc_state_' = 1
          /\ reports' = reports \/ reports' = reports \cup {"sdp"}
      BY <1>2, Zenon
    <3>2. pc_state_ \in 0..3 /\ reports \subseteq {"sdp", "stun", "dtls", "audio_produce"}
      BY <1>1 DEF PcOK
    <3>3. pc_state_' \in 0..3
      BY <3>1, <3>2
    <3>4. reports' \subseteq {"sdp", "stun", "dtls", "audio_produce"}
      BY <3>1, <3>2
    <3> QED BY <3>3, <3>4
  <2>4. ssrcs' \subseteq Ssrcs
    <3>1. {"offer"} \subseteq Ssrcs
      BY DEF Ssrcs
    <3>2. ssrcs \cup (lines \cap Ssrcs) \subseteq Ssrcs
      BY <1>1 DEF PcOK
    <3> HIDE DEF Ssrcs
    <3> QED BY <1>2, <3>1, <3>2
  <2>2. cred' \in {"none", "right", "wrong"}
    BY <1>1, <1>2 DEF PcOK, CredAfter
  <2>3. ice' \in BOOLEAN /\ timer_on' \in BOOLEAN
    BY <1>1, <1>2, Zenon DEF PcOK
  <2> QED BY <1>1, <1>2, <2>1, <2>2, <2>3, <2>4, Zenon DEF PcOK
<1>4. LastFlight'
  BY <1>2 DEF StreamInv, LastFlight, OwnStep
<1>5. SsrcsKnown'
  <2>1. ASSUME role = "whip" PROVE ssrcs' = {"offer"}
    <3>1. lines \cap Ssrcs = {}
      BY <2>1 DEF Bodies, AnswerLines, Ssrcs
    <3>2. ssrcs = {} \/ ssrcs = {"offer"}
      BY <1>2, <2>1 DEF StreamInv, SsrcsKnown
    <3> QED BY <1>2, <3>1, <3>2
  <2>2. ASSUME role = "whep", ~cut', ~bad' PROVE ssrcs' = {"vpeer", "apeer"}
    <3>1. lines = AnswerLines
      BY <2>2 DEF Bodies, OwnStep
    <3>2. lines \cap Ssrcs = {"vpeer", "apeer"}
      BY <2>2, <3>1 DEF AnswerLines, Ssrcs
    <3>3. ssrcs = {} \/ ssrcs = {"vpeer", "apeer"}
      BY <1>2, <2>2 DEF StreamInv, SsrcsKnown, OwnStep
    <3> QED BY <1>2, <3>2, <3>3
  <2>3. pc_state_' # 0
    BY <1>1, <1>2 DEF PcOK
  <2> QED BY <1>2, <2>1, <2>2, <2>3 DEF SsrcsKnown
<1> QED BY <1>2, <1>3, <1>4, <1>5, OwnStepKeeps, Kept

(* HandleTransportResponse and HandleTransportConnectResponse.             *)
LEMMA RemoteKeeps ==
  ASSUME StreamInv, OwnStep, MovesOn, role \in Mediasoup,
         \/ pc_state_ = 0 /\ SetRemoteAndUpdateState
         \/ StartTimer
  PROVE  StreamInv'
<1>1. PcOK
  BY TypeParts DEF StreamInv
<1>2. /\ UNCHANGED <<role, stun_age, ssrcs, dtls_, bio_in_, srtp, streams, up, reports>>
      /\ (pc_state_ = 0 /\ pc_state_' = 1) \/ pc_state_' = pc_state_
      /\ timer_on' = TRUE \/ timer_on' = timer_on
      /\ ice' = TRUE \/ ice' = ice
      /\ cred' = "right" \/ cred' = cred
  BY DEF SetRemoteAndUpdateState, StartTimer, PC_SDP_DONE_STATE
<1>3. pc_state_' \in 0..3 /\ (pc_state_' = 3 <=> pc_state_ = 3)
  BY <1>1, <1>2 DEF PcOK
<1>4. PcOK'
  BY <1>1, <1>2, <1>3, Zenon DEF PcOK
<1>5. LastFlight' /\ SsrcsKnown'
  BY <1>2, <1>3 DEF StreamInv, LastFlight, SsrcsKnown, OwnStep, Mediasoup
<1> QED BY <1>2, <1>3, <1>4, <1>5, OwnStepKeeps, Kept

(* What CreateStreams does to a stream, and which SSRC fits.               *)
LEMMA Created ==
  ASSUME streams \in [AllKinds -> Streams], NEW kinds, NEW from,
         CreateStreams(kinds, from)
  PROVE  /\ streams' \in [AllKinds -> Streams]
         /\ \A k \in AllKinds :
              /\ k \notin kinds \/ Fit(k, from) = {} => streams'[k] = streams[k]
              /\ k \in kinds /\ Fit(k, from) # {} =>
                   streams'[k].n = streams[k].n + 1 /\ streams'[k].ssrc \in Fit(k, from)
<1>1. PICK src \in [kinds -> Ssrcs \cup {"none"}] :
        /\ \A k \in kinds : src[k] \in IF Fit(k, from) = {} THEN {"none"} ELSE Fit(k, from)
        /\ streams' = [k \in DOMAIN streams |->
             IF k \in kinds /\ Fit(k, from) # {}
             THEN [n |-> streams[k].n + 1, ssrc |-> src[k]] ELSE streams[k]]
  BY DEF CreateStreams
<1>2. DOMAIN streams = AllKinds
  OBVIOUS
<1>3. ASSUME NEW k \in AllKinds
      PROVE  /\ k \in kinds /\ Fit(k, from) # {} =>
                  /\ streams'[k] = [n |-> streams[k].n + 1, ssrc |-> src[k]]
                  /\ src[k] \in Fit(k, from) /\ src[k] \in Ssrcs \cup {"none"}
             /\ k \notin kinds \/ Fit(k, from) = {} => streams'[k] = streams[k]
             /\ streams[k] \in Streams
  BY <1>1, <1>2
<1>4. ASSUME NEW k \in AllKinds
      PROVE  /\ k \in kinds /\ Fit(k, from) # {} =>
                  streams'[k].n = streams[k].n + 1 /\ streams'[k].ssrc \in Fit(k, from)
             /\ streams'[k] \in Streams
  <2>1. ASSUME NEW s \in Streams, NEW w \in Ssrcs \cup {"none"}
        PROVE  LET t == [n |-> s.n + 1, ssrc |-> w]
               IN  t \in Streams /\ t.n = s.n + 1 /\ t.ssrc = w
    BY DEF Streams
  <2> DEFINE t == [n |-> streams[k].n + 1, ssrc |-> src[k]]
  <2>2. CASE k \in kinds /\ Fit(k, from) # {}
    <3>1. streams'[k] = t /\ src[k] \in Fit(k, from)
      BY <1>3, <2>2
    <3>2. t \in Streams /\ t.n = streams[k].n + 1 /\ t.ssrc = src[k]
      BY <1>3, <2>1, <2>2
    <3> HIDE DEF t
    <3> QED BY <3>1, <3>2
  <2>3. CASE ~(k \in kinds /\ Fit(k, from) # {})
    BY <1>3, <2>3
  <2> QED BY <2>2, <2>3
<1>5. streams' = [k \in AllKinds |-> streams'[k]]
  BY <1>1, <1>2
<1> QED BY <1>3, <1>4, <1>5

LEMMA Fits ==
  /\ \A k : Fit(k, {}) = {} /\ Fit(k, {"offer"}) = {"offer"}
  /\ Fit("vrecv", {"vpeer"}) = {"vpeer"} /\ Fit("arecv", {"apeer"}) = {"apeer"}
  /\ Fit("vrecv", {"vpeer", "apeer"}) = {"vpeer"}
  /\ Fit("arecv", {"vpeer", "apeer"}) = {"apeer"}
  BY DEF Fit

(* Streams made by a mediasoup answer.                                     *)
LEMMA LaterKeeps ==
  ASSUME StreamInv, OwnStep, role \in Mediasoup, pc_state_ = 3,
         NEW kinds, NEW from, NEW says, says \subseteq {"audio_produce"},
         CreateLater(kinds, from, says), StreamsMadeOnce', NotYetMade', Made'
  PROVE  StreamInv'
<1>1. PcOK
  BY TypeParts DEF StreamInv
<1>2. /\ UNCHANGED <<role, pc_state_, timer_on, stun_age, ice, cred, ssrcs, dtls_,
                     bio_in_, srtp, up>>
      /\ reports' = reports \cup says /\ CreateStreams(kinds, from)
  BY DEF CreateLater
<1>3. streams' \in [AllKinds -> Streams]
  BY <1>1, <1>2, Created DEF PcOK
<1>4. reports' \subseteq {"sdp", "stun", "dtls", "audio_produce"}
  BY <1>1, <1>2 DEF PcOK
<1>5. PcOK'
  BY <1>1, <1>2, <1>3, <1>4, Zenon DEF PcOK
<1>6. LastFlight' /\ SsrcsKnown'
  BY <1>2 DEF StreamInv, LastFlight, SsrcsKnown, Mediasoup
<1>7. TypeOK'
  BY <1>5, OwnStepKeeps, TypePartsNext
<1> QED BY <1>6, <1>7, OwnStepKeeps DEF StreamInv


(* HandleAudioProduceResponse, HandleVideoConsumeResponse and              *)
(* HandleAudioConsumeResponse.  ~cut' brings with it that the answer is    *)
(* the one state_ expects (ReadFacts).                                     *)
LEMMA ProduceKeeps ==
  ASSUME StreamInv, OwnStep, role = "mspush", pc_state_ = 3, state_ = "audio",
         CreateLater(SendKinds, {"offer"}, {"audio_produce"}), state_' = state_,
         ~cut' => http["audio"].st \in Pending /\ http'["audio"].st \notin Pending
  PROVE  StreamInv'
<1>1. streams \in [AllKinds -> Streams]
  BY TypeParts DEF StreamInv, PcOK
<1>2. /\ UNCHANGED <<role, pc_state_>> /\ (cut => cut')
      /\ \A k \in AllKinds :
           /\ k \in RecvKinds => streams'[k] = streams[k]
           /\ k \in SendKinds => streams'[k].n = streams[k].n + 1
      /\ streams' \in [AllKinds -> Streams] /\ DOMAIN streams' = AllKinds
      /\ DOMAIN streams = AllKinds
  <2>1. CreateStreams(SendKinds, {"offer"})
    BY DEF CreateLater
  <2>2. \A k : Fit(k, {"offer"}) # {}
    BY Fits
  <2>3. \A k \in RecvKinds : k \notin SendKinds
    BY DEF SendKinds, RecvKinds
  <2> QED BY <1>1, <2>1, <2>2, <2>3, Created DEF CreateLater, OwnStep
<1>3. \A k \in AllKinds : streams[k].n \in Nat
  BY <1>1 DEF Streams
<1>4. StreamsMadeOnce'
  <2>1. ~cut' => \A k \in SendKinds : streams[k].n = 0
    BY <1>2 DEF StreamInv, NotYetMade, SendKinds, NoStream, Mediasoup
  <2> QED BY <1>2, <2>1 DEF StreamInv, StreamsMadeOnce, AllKinds
<1>5. NotYetMade'
  BY <1>2 DEF NotYetMade
<1>6. Made'
  BY <1>2, <1>3 DEF Made, AllKinds
<1> QED BY <1>4, <1>5, <1>6, LaterKeeps DEF Mediasoup

LEMMA ConsumeKeeps ==
  ASSUME StreamInv, OwnStep, role = "mspull", pc_state_ = 3,
         \/ /\ state_ = "video" /\ CreateLater({"vrecv"}, {"vpeer"}, {})
            /\ state_' = "audio" /\ http'["audio"].st = "sent"
         \/ /\ state_ = "audio" /\ CreateLater({"arecv"}, {"apeer"}, {})
            /\ state_' = state_ /\ http'["video"] = http["video"]
            /\ ~cut' => http["audio"].st \in Pending /\ http'["audio"].st \notin Pending
  PROVE  StreamInv'
<1>1. streams \in [AllKinds -> Streams] /\ DOMAIN streams = AllKinds
  BY TypeParts DEF StreamInv, PcOK
<1>2. /\ UNCHANGED <<role, pc_state_>> /\ (cut => cut') /\ bad' = bad
      /\ AllKinds = {"vsend", "asend", "vrecv", "arecv"}
  BY DEF CreateLater, OwnStep, AllKinds, SendKinds, RecvKinds
<1>3. CASE /\ state_ = "video" /\ CreateLater({"vrecv"}, {"vpeer"}, {})
           /\ state_' = "audio" /\ http'["audio"].st = "sent"
  <2>1. CreateStreams({"vrecv"}, {"vpeer"}) /\ reports' = reports
    BY <1>3 DEF CreateLater
  <2>2. /\ \A k \in AllKinds : k # "vrecv" => streams'[k] = streams[k]
        /\ streams'["vrecv"].n = streams["vrecv"].n + 1
        /\ streams'["vrecv"].ssrc = "vpeer"
        /\ DOMAIN streams' = AllKinds
    BY <1>1, <1>2, <2>1, Created, Fits
  <2>3. ~cut' => streams["vrecv"].n = 0
    BY <1>2, <1>3 DEF StreamInv, NotYetMade, NoStream
  <2>4. StreamsMadeOnce'
    BY <1>1, <1>2, <2>2, <2>3 DEF StreamInv, StreamsMadeOnce
  <2>5. NotYetMade'
    BY <1>2, <1>3, <2>2 DEF StreamInv, NotYetMade
  <2>6. Made'
    BY <1>2, <1>3, <2>2 DEF Made
  <2> QED BY <1>3, <2>4, <2>5, <2>6, LaterKeeps DEF Mediasoup
<1>4. CASE /\ state_ = "audio" /\ CreateLater({"arecv"}, {"apeer"}, {})
           /\ state_' = state_ /\ http'["video"] = http["video"]
           /\ ~cut' => http["audio"].st \in Pending /\ http'["audio"].st \notin Pending
  <2>1. CreateStreams({"arecv"}, {"apeer"}) /\ reports' = reports
    BY <1>4 DEF CreateLater
  <2>2. /\ \A k \in AllKinds : k # "arecv" => streams'[k] = streams[k]
        /\ streams'["arecv"].n = streams["arecv"].n + 1
        /\ streams'["arecv"].ssrc = "apeer"
        /\ DOMAIN streams' = AllKinds
    BY <1>1, <1>2, <2>1, Created, Fits
  <2>3. ~cut' => streams["arecv"].n = 0
    BY <1>2, <1>4 DEF StreamInv, NotYetMade, NoStream, Mediasoup
  <2>4. StreamsMadeOnce'
    BY <1>1, <1>2, <2>2, <2>3 DEF StreamInv, StreamsMadeOnce
  <2>5. NotYetMade'
    BY <1>2, <1>4 DEF NotYetMade
  <2>6. Made'
    BY <1>2, <1>4, <2>2 DEF StreamInv, Made
  <2> QED BY <1>4, <2>4, <2>5, <2>6, LaterKeeps DEF Mediasoup
<1> QED BY <1>3, <1>4

(* What is known of a read that is handed on.                              *)
LEMMA ReadMore ==
  ASSUME IInv, StreamInv, NEW r \in Requests, CalledBack(r),
         UNCHANGED <<bad, peer, known, down>>
  PROVE  /\ HttpOK(AfterRead(r)) /\ http[r].left > 0
         /\ ~http[r].ok => bad
         /\ http[r].left # 1 => cut'
         /\ \A q \in Requests : q # r => AfterRead(r)[q] = http[q]
         /\ ~cut' => r = state_ /\ http[r].st \in Pending
         /\ ~cut' => AfterRead(r)["audio"].st \notin Pending
         /\ cut' \in BOOLEAN /\ (cut => cut')
         /\ crashed \in BOOLEAN /\ (crashed => cut' \/ bad)
         /\ state_ \in States
<1>1. OwnOK
  BY TypeParts DEF StreamInv
<1>2. http[r].left > 0 /\ http[r].left \in Nat
  BY DEF CalledBack, IInv, GoodHttp, Clients
<1>3. http[r].left > 1 \/ http[r].left = 1
  BY <1>2
<1>4. (http[r].left # 1 => cut') /\ cut' \in BOOLEAN /\ (cut => cut')
  <2> DEFINE more == http[r].left > 1
  <2>1. cut' = (cut \/ more)
    BY DEF CalledBack
  <2>2. http[r].left # 1 => more
    BY <1>3
  <2> HIDE DEF more
  <2> QED BY <1>1, <2>1, <2>2, Zenon DEF OwnOK
<1>5. http[r].st = "answered"
  BY <1>2 DEF IInv, GoodHttp
<1> QED
  BY <1>1, <1>2, <1>4, <1>5, ReadFacts, ReadOK
     DEF OwnOK, StreamInv, CrashNeedsBadAnswer, Pending, Requests

LEMMA ReadKeeps ==
  ASSUME IInv, StreamInv, NEW r \in Requests, HttpRead(r)
  PROVE  StreamInv'
<1> DEFINE a == [r |-> r, ok |-> http[r].ok, whole |-> http[r].left = 1]
           h == AfterRead(r)
<1>0. UNCHANGED <<bad, peer, known, down>>
  BY DEF HttpRead, peerVars
<1>1. CASE /\ cut' = (cut \/ http[r].left > 1)
           /\ OnHttpRead(a, h)
  <2>1. CalledBack(r)
    BY <1>1 DEF HttpRead, CalledBack
  <2>2. /\ HttpOK(h) /\ http[r].left > 0
        /\ ~http[r].ok => bad
        /\ http[r].left # 1 => cut'
        /\ \A q \in Requests : q # r => h[q] = http[q]
        /\ ~cut' => r = state_ /\ http[r].st \in Pending
        /\ ~cut' => h["audio"].st \notin Pending
        /\ cut' \in BOOLEAN /\ (cut => cut')
        /\ crashed \in BOOLEAN /\ (crashed => cut' \/ bad)
        /\ state_ \in States
    BY <1>0, <2>1, ReadMore
  <2>3. a.r = r /\ a.ok = http[r].ok /\ (a.whole <=> http[r].left = 1)
    BY Zenon
  <2> HIDE DEF a, h
  <2>4. ASSUME http' = h, state_' = state_, crashed' = crashed
        PROVE  OwnStep
    BY <1>0, <2>2, <2>4 DEF OwnStep, HttpOK
  <2>5. ASSUME NEW x \in Requests, PostNext(x, h)
        PROVE  /\ OwnStep /\ state_' = x /\ http'[x].st = "sent"
               /\ \A q \in Requests : q # x => http'[q] = h[q]
    BY <1>0, <2>2, <2>5, PostOK DEF OwnStep
  \* an error status: the answer is only logged
  <2>6. ASSUME OnlyLog(h), ~a.ok
        PROVE  StreamInv'
    <3>1. /\ UNCHANGED pcVars /\ http' = h /\ state_' = state_ /\ crashed' = crashed
          /\ bad /\ bad'
      BY <1>0, <2>2, <2>3, <2>6 DEF OnlyLog
    <3>2. MovesOn
      BY <2>2, <3>1 DEF MovesOn
    <3> QED BY <2>4, <3>1, <3>2, PcUntouched
  <2>7. ASSUME Throw(h), ~a.ok \/ ~a.whole \/ a.r # state_
        PROVE  StreamInv'
    <3>1. /\ UNCHANGED pcVars /\ http' = h /\ state_' = state_ /\ crashed' = TRUE
          /\ cut' \/ bad
      BY <2>2, <2>3, <2>7 DEF Throw
    <3>2. OwnStep
      BY <1>0, <2>2, <3>1 DEF OwnStep, HttpOK
    <3>3. MovesOn
      BY <1>0, <2>2, <3>1 DEF MovesOn
    <3> QED BY <3>1, <3>2, <3>3, PcUntouched
  <2>8. ASSUME NEW x \in {"transport", "connect", "audio"}, PostNext(x, h), role \in Mediasoup,
               \/ state_ = "broadcaster" /\ UNCHANGED pcVars
               \/ state_ = "transport" /\ pc_state_ = 0 /\ SetRemoteAndUpdateState
               \/ state_ = "video" /\ role = "mspush" /\ UNCHANGED pcVars
        PROVE  StreamInv'
    <3>1. /\ OwnStep /\ state_' = x
          /\ \A q \in Requests : q # x => http'[q] = h[q]
          /\ http'[x].st = "sent"
      BY <2>5, <2>8 DEF Requests
    <3>2. MovesOn
      BY <2>2, <2>8, <3>1 DEF MovesOn, Requests
    <3> QED BY <2>8, <3>1, <3>2, PcUntouched, RemoteKeeps
  <2>9. CASE role \notin Mediasoup /\ HandleSdp(a, h)
    <3>1. CASE /\ \E lines \in Bodies(a) : ParseAnswerSdp(lines)
               /\ http' = h /\ UNCHANGED <<state_, crashed>>
      <4>1. OwnStep
        BY <2>4, <3>1
      <4> QED BY <2>2, <2>9, <3>1, <4>1, SdpKeeps DEF a
    <3>2. CASE ~a.whole /\ Throw(h)
      BY <2>7, <3>2
    <3> QED BY <2>9, <3>1, <3>2 DEF HandleSdp
  <2>10. CASE role \in Mediasoup /\ state_ = "broadcaster" /\ HandleBroadCasterResponse(a, h)
    BY <2>6, <2>8, <2>10 DEF HandleBroadCasterResponse, TransportRequest
  <2>11. CASE role \in Mediasoup /\ state_ = "transport" /\ HandleTransportResponse(a, h)
    <3>1. pc_state_ = 0
      BY <2>11 DEF IInv, Phase
    <3> QED BY <2>6, <2>7, <2>8, <2>11, <3>1 DEF HandleTransportResponse, TransportConnectRequest
  <2>12. CASE role \in Mediasoup /\ state_ = "connect" /\ HandleTransportConnectResponse(a, h)
    <3>1. CASE StartTimer /\ http' = h /\ UNCHANGED <<state_, crashed>>
      <4>1. OwnStep
        BY <2>4, <3>1
      <4>2. MovesOn
        BY <2>2, <2>12, <3>1 DEF MovesOn, Requests
      <4> QED BY <2>12, <3>1, <4>1, <4>2, RemoteKeeps
    <3> QED BY <2>6, <2>12, <3>1 DEF HandleTransportConnectResponse
  <2>13. role \in Mediasoup /\ state_ \in {"video", "audio"} => pc_state_ = 3
    BY DEF IInv, Phase
  <2>14. CASE role = "mspush" /\ state_ = "video" /\ HandleVideoProduceResponse(a, h)
    BY <2>6, <2>8, <2>14 DEF HandleVideoProduceResponse, AudioRequest, Mediasoup
  <2>15. CASE role = "mspush" /\ state_ = "audio" /\ HandleAudioProduceResponse(a, h)
    <3>1. CASE /\ CreateLater(SendKinds, {"offer"}, {"audio_produce"})
               /\ http' = h /\ UNCHANGED <<state_, crashed>>
      <4>1. OwnStep
        BY <2>4, <3>1
      <4>2. ~cut' => http["audio"].st \in Pending /\ http'["audio"].st \notin Pending
        BY <2>2, <2>15, <3>1
      <4> QED BY <2>13, <2>15, <3>1, <4>1, <4>2, ProduceKeeps DEF Mediasoup
    <3> QED BY <2>6, <2>15, <3>1 DEF HandleAudioProduceResponse
  <2>16. CASE role = "mspull" /\ state_ = "video" /\ HandleVideoConsumeResponse(a, h)
    <3>1. CASE CreateLater({"vrecv"}, {"vpeer"}, {}) /\ PostNext("audio", h)
      <4>1. OwnStep /\ state_' = "audio" /\ http'["audio"].st = "sent"
        BY <2>5, <3>1 DEF Requests
      <4> QED BY <2>13, <2>16, <3>1, <4>1, ConsumeKeeps DEF Mediasoup
    <3> QED BY <2>7, <2>16, <3>1 DEF HandleVideoConsumeResponse, AudioRequest
  <2>17. CASE role = "mspull" /\ state_ = "audio" /\ HandleAudioConsumeResponse(a, h)
    <3>1. CASE /\ a.r = "audio" /\ CreateLater({"arecv"}, {"apeer"}, {})
               /\ http' = h /\ UNCHANGED <<state_, crashed>>
      <4>1. OwnStep
        BY <2>4, <3>1
      <4>2. ~cut' => http["audio"].st \in Pending /\ http'["audio"].st \notin Pending
        BY <2>2, <2>17, <3>1
      <4>3. http'["video"] = http["video"]
        BY <2>2, <2>3, <3>1 DEF Requests
      <4> QED BY <2>13, <2>17, <3>1, <4>1, <4>2, <4>3, ConsumeKeeps DEF Mediasoup
    <3> QED BY <2>7, <2>17, <3>1 DEF HandleAudioConsumeResponse
  <2> QED
    BY <1>1, <2>9, <2>10, <2>11, <2>12, <2>14, <2>15, <2>16, <2>17
       DEF OnHttpRead, PushHttpRead, PullHttpRead, Mediasoup
\* Nothing is handed on: the answer goes on being read.
<1>2. CASE /\ http[r].left > 1 /\ http' = h
           /\ UNCHANGED <<pcVars, state_, cut, crashed>>
  <2>1. http[r].left > 0 /\ http[r].left # 1
    BY <1>2 DEF IInv, GoodHttp, Clients
  <2>2. /\ HttpOK(h) /\ http[r].st = "answered" /\ h[r].st = "answered"
        /\ \A q \in Requests : q # r => h[q] = http[q]
    BY <2>1, ReadOK, AfterOne DEF IInv
  <2>3. OwnOK
    BY TypeParts DEF StreamInv
  <2> HIDE DEF a, h
  <2>4. OwnStep
    BY <1>0, <1>2, <2>2, <2>3 DEF OwnStep, OwnOK, HttpOK, StreamInv, CrashNeedsBadAnswer
  <2>5. MovesOn
    BY <1>2, <2>2 DEF MovesOn, Requests, Pending
  <2> QED BY <1>2, <2>4, <2>5, PcUntouched
<1> QED BY <1>1, <1>2 DEF HttpRead


(* DTLS completes once, with no stream made before; Whip and Whep make     *)
(* theirs now, MsPush and MsPull find no SSRC in the answer yet.           *)
LEMMA DtlsStreams ==
  ASSUME IInv, StreamInv, pc_state_ # 3, pc_state_ >= 1, pc_state_' = 3,
         UNCHANGED <<role, cut, bad>>, reports' = reports \cup {"dtls"},
         IF role = "mspull" THEN UNCHANGED streams
         ELSE CreateStreams(IF role \in SendOnly THEN SendKinds ELSE RecvKinds, ssrcs),
         role \in Mediasoup => http'["video"].st = "sent" /\ http'["audio"] = http["audio"]
  PROVE  /\ streams' \in [AllKinds -> Streams]
         /\ StreamsMadeOnce' /\ NotYetMade' /\ Made'
<1>1. /\ streams \in [AllKinds -> Streams] /\ role \in Roles
      /\ \A k \in AllKinds : streams[k] = NoStream
  BY TypeParts DEF StreamInv, PcOK, NotYetMade, AllKinds
<1>2. NoStream.n = 0
  BY DEF NoStream
<1>3. ASSUME role \in Mediasoup
      PROVE  streams' = streams
  <2>1. CASE role = "mspull"
    BY <2>1
  <2>2. CASE role = "mspush"
    <3>1. ssrcs = {} /\ CreateStreams(SendKinds, {})
      BY <2>2, <1>3 DEF StreamInv, SsrcsKnown, SendOnly
    <3>2. streams' \in [AllKinds -> Streams] /\ \A k \in AllKinds : streams'[k] = streams[k]
      BY <1>1, <3>1, Created, Fits
    <3> QED BY <1>1, <3>2
  <2> QED BY <1>3, <2>1, <2>2 DEF Mediasoup
<1>4. ASSUME role = "whip"
      PROVE  /\ streams' \in [AllKinds -> Streams]
             /\ \A k \in AllKinds :
                  IF k \in SendKinds THEN streams'[k].n = 1 ELSE streams'[k] = NoStream
  <2>1. ssrcs = {"offer"} /\ CreateStreams(SendKinds, {"offer"})
    BY <1>4 DEF StreamInv, SsrcsKnown, SendOnly
  <2>2. \A k : Fit(k, {"offer"}) # {}
    BY Fits
  <2> QED BY <1>1, <1>2, <2>1, <2>2, Created
<1>5. ASSUME role = "whep"
      PROVE  /\ streams' \in [AllKinds -> Streams]
             /\ \A k \in AllKinds : streams'[k].n <= 1
             /\ ~cut /\ ~bad => streams'["vrecv"].ssrc = "vpeer" /\ streams'["arecv"].ssrc = "apeer"
  <2>1. CreateStreams(RecvKinds, ssrcs)
    BY <1>5 DEF SendOnly
  <2>2. ~cut /\ ~bad => ssrcs = {"vpeer", "apeer"}
    BY <1>5 DEF StreamInv, SsrcsKnown
  <2>3. \A k \in AllKinds : streams'[k].n <= 1
    <3>1. \A k \in AllKinds : streams[k].n = 0
      BY <1>1, <1>2
    <3>2. \A k \in AllKinds :
            streams'[k].n = streams[k].n \/ streams'[k].n = streams[k].n + 1
      BY <1>1, <2>1, Created
    <3> QED BY <3>1, <3>2
  <2>4. ~cut /\ ~bad => streams'["vrecv"].ssrc = "vpeer" /\ streams'["arecv"].ssrc = "apeer"
    <3>1. \A k \in {"vrecv", "arecv"} : k \in AllKinds /\ k \in RecvKinds
      BY DEF AllKinds, RecvKinds
    <3>2. \A k \in {"vrecv", "arecv"} :
            Fit(k, ssrcs) # {} => streams'[k].ssrc \in Fit(k, ssrcs)
      BY <1>1, <2>1, <3>1, Created
    <3> QED BY <2>2, <3>2, Fits
  <2> QED BY <1>1, <2>1, <2>3, <2>4, Created
<1>6. role \in Mediasoup \/ role = "whip" \/ role = "whep"
  BY <1>1 DEF Roles, Mediasoup
<1>7. streams' \in [AllKinds -> Streams] /\ \A k \in AllKinds : streams'[k].n <= 1
  BY <1>1, <1>2, <1>3, <1>4, <1>5, <1>6
<1>8. StreamsMadeOnce'
  BY <1>7 DEF StreamsMadeOnce
<1>9. NotYetMade'
  BY <1>1, <1>3 DEF NotYetMade, AllKinds, SendKinds, RecvKinds, Mediasoup
<1>10. Made'
  <2>1. role = "whip" => \A k \in SendKinds : streams'[k].n > 0
    BY <1>4 DEF AllKinds
  <2>2. role = "mspush" => "audio_produce" \notin reports'
    BY DEF StreamInv, Made
  <2>3. role = "mspull" /\ ~cut /\ ~bad /\ http'["audio"].st = "done" =>
          streams'["arecv"].ssrc = "apeer"
    BY <1>3 DEF StreamInv, Made, Mediasoup
  <2> QED BY <1>5, <2>1, <2>2, <2>3 DEF Made, Mediasoup
<1> QED BY <1>7, <1>8, <1>9, <1>10

LEMMA DtlsKeeps ==
  ASSUME IInv, StreamInv, NEW m \in {"ch", "fin"}, ReadDtls(m)
  PROVE  StreamInv'
<1>1. /\ UNCHANGED <<cut, bad, peer, known, down>> /\ OnReadDtls(m)
      /\ UNCHANGED <<role, timer_on, stun_age, ice, cred, ssrcs>>
  BY DEF ReadDtls, OnReadDtls, peerVars
<1>2. PcOK /\ OwnOK /\ PeerOK
  BY TypeParts DEF StreamInv
<1>3. /\ dtls_' \in {"new", "accept", "hello", "finished"}
      /\ bio_in_' \subseteq {"ch", "fin"} /\ up' \subseteq {"stun", "sh", "sfin"}
  BY <1>1, <1>2 DEF PcOK, OnReadDtls, DtlsEarly, DtlsHandshake, DtlsFinished
<1>4. PeerOK'
  BY <1>1, <1>2 DEF PeerOK
<1>5. CASE UNCHANGED <<pc_state_, srtp, streams, reports>>
  <2>1. UNCHANGED <<state_, http, crashed>>
    BY <1>5 DEF ReadDtls
  <2>2. UNCHANGED ownVars
    BY <1>1, <2>1 DEF ownVars
  <2>3. PcOK'
    BY <1>1, <1>2, <1>3, <1>5, Zenon DEF PcOK
  <2>4. dtls_' = "finished" => pc_state_ = 3
    BY <1>1, <1>5 DEF OnReadDtls, DtlsEarly, DtlsHandshake, DtlsFinished,
       OnDtlsConnected, PC_DTLS_DONE_STATE
  <2>5. "sfin" \in up' => "sfin" \in up \/ dtls_' = "finished"
    BY <1>1 DEF OnReadDtls, DtlsEarly, DtlsHandshake, DtlsFinished
  <2>6. LastFlight'
    BY <1>1, <1>5, <2>4, <2>5 DEF StreamInv, LastFlight
  <2>7. SsrcsKnown'
    BY <1>1, <1>5 DEF StreamInv, SsrcsKnown
  <2> QED BY <1>1, <1>4, <1>5, <2>2, <2>3, <2>6, <2>7, OwnKept, Kept
<1>6. CASE DtlsFinished(m) /\ pc_state_ # 3
  <2>1. /\ dtls_ # "new" /\ pc_state_' = 3 /\ reports' = reports \cup {"dtls"}
        /\ srtp' = srtp + 1
        /\ IF role = "mspull" THEN UNCHANGED streams
           ELSE CreateStreams(IF role \in SendOnly THEN SendKinds ELSE RecvKinds, ssrcs)
    BY <1>6 DEF DtlsFinished, OnDtlsConnected, PC_DTLS_DONE_STATE
  <2>2. pc_state_ >= 1 /\ pc_state_ # 0
    BY <2>1 DEF IInv, Chain, PcType
  <2>3. "dtls" \notin reports
    BY <1>6 DEF StreamInv, LastFlight
  <2>4. HttpOK(http)
    BY <1>2 DEF StreamInv, OwnOK, HttpOK, BadSeen
  <2>5. /\ http' \in [Requests -> Answers] /\ \A q \in Requests : ~http'[q].ok => bad
        /\ state_' \in States /\ UNCHANGED crashed
        /\ role \in Mediasoup => http'["video"].st = "sent" /\ http'["audio"] = http["audio"]
    <3>1. CASE role \in Mediasoup
      <4>1. PostNext("video", http)
        BY <2>1, <2>3, <3>1 DEF ReadDtls, VideoRequest
      <4> QED BY <2>4, <4>1, PostOK DEF Requests
    <3>2. CASE role \notin Mediasoup
      BY <1>2, <2>4, <3>2 DEF ReadDtls, OwnOK, HttpOK
    <3> QED BY <3>1, <3>2
  <2>6. OwnStep
    BY <1>1, <1>2, <2>5 DEF OwnStep, OwnOK, StreamInv, CrashNeedsBadAnswer
  <2>7. /\ streams' \in [AllKinds -> Streams]
        /\ StreamsMadeOnce' /\ NotYetMade' /\ Made'
    BY <1>1, <1>6, <2>1, <2>2, <2>5, DtlsStreams
  <2>8. PcOK'
    <3>1. pc_state_' \in 0..3 /\ srtp' \in Nat
      BY <1>2, <2>1 DEF PcOK
    <3>2. reports' \subseteq {"sdp", "stun", "dtls", "audio_produce"}
      BY <1>2, <2>1 DEF PcOK
    <3> QED BY <1>1, <1>2, <1>3, <2>7, <3>1, <3>2, Zenon DEF PcOK
  <2>9. LastFlight' /\ SsrcsKnown'
    BY <1>1, <2>1, <2>2 DEF StreamInv, LastFlight, SsrcsKnown
  <2>10. TypeOK'
    BY <2>6, <2>8, OwnStepKeeps, TypePartsNext
  <2> QED BY <2>6, <2>7, <2>9, <2>10, OwnStepKeeps DEF StreamInv
<1> QED
  BY <1>1, <1>5, <1>6
     DEF OnReadDtls, DtlsEarly, DtlsHandshake, DtlsFinished, OnDtlsConnected,
         PC_DTLS_DONE_STATE

LEMMA StreamsStep ==
  ASSUME IInv, StreamInv, [Next]_vars
  PROVE  StreamInv'
<1>1. CASE UNCHANGED vars
  <2>1. UNCHANGED <<state_, http, cut, bad, crashed, peer, known, down>> /\ UNCHANGED pcVars
    BY <1>1 DEF vars, ownVars, peerVars
  <2>2. OwnOK
    BY TypeParts DEF StreamInv
  <2>3. OwnStep
    BY <2>1, <2>2 DEF OwnStep, OwnOK, StreamInv, BadSeen, CrashNeedsBadAnswer
  <2>4. MovesOn
    BY <2>1 DEF MovesOn
  <2> QED BY <2>1, <2>3, <2>4, PcUntouched
<1>2. ASSUME NEW r \in Requests, HttpRead(r) \/ HttpFail(r) \/ ServerAnswers(r)
      PROVE  StreamInv'
  BY <1>2, ReadKeeps, FailKeeps
<1>3. ASSUME NEW m \in {"ch", "fin"}, ReadDtls(m)
      PROVE  StreamInv'
  BY <1>3, DtlsKeeps
<1> QED
  BY <1>1, <1>2, <1>3, StartKeeps, StunKeeps, NetworkKeeps DEF Next, Alive, Step

(* A session has each of its streams once, has them when it reports ready  *)
(* and when the peer sends, and dies of no whole and good answer: for any  *)
(* number of reads, and however UDP loses, repeats and reorders.           *)
THEOREM StreamsReady == Spec => []StreamsInPlace
<1>1. Init => IInv /\ StreamInv
  BY InitInv, StreamsInit
<1>2. IInv /\ StreamInv /\ [Next]_vars => (IInv /\ StreamInv)'
  BY StepInv, StreamsStep
<1>3. IInv /\ StreamInv => StreamsInPlace
  BY StreamsFollow
<1> QED BY <1>1, <1>2, <1>3, PTL DEF Spec
=============================================================================
