----------------------------- MODULE RtcSession -----------------------------
(***************************************************************************)
(* A WebRTC session from StartNetwork to media: the owner of a             *)
(* PeerConnection (Whip, Whep, MsPush or MsPull), its HTTP requests, the   *)
(* HTTP server and the remote peer.                                        *)
(*                                                                         *)
(* Whip and Whep post one offer ("sdp").  MsPush and MsPull go through     *)
(* broadcaster, transport, connect and, once DTLS is done, video and       *)
(* audio; each request has an HttpClient of its own, but OnHttpRead picks  *)
(* the handler by state_ alone.  HttpClient calls back once for an answer  *)
(* with a Content-Length, and after every read for one without.            *)
(*                                                                         *)
(* UDP may lose, repeat and reorder: a datagram is in a set until it is    *)
(* lost, and can be read as long as it is there.                           *)
(***************************************************************************)
EXTENDS PeerConnection

CONSTANTS
  MaxReads   \* most TCP reads an HTTP answer is cut into

ASSUME SessionConstants == MaxReads \in Nat \ {0}

VARIABLES
  state_,    \* the request whose handler OnHttpRead will call
  http,      \* request -> its HttpClient and the answer on its way
  cut,       \* an answer was handed on in pieces
  bad,       \* an answer was an error, or a connection failed
  crashed,   \* an exception left the event loop
  peer,      \* the peer's DTLS client: "idle", "ch", "fin" or "done"
  known,     \* the peer has the offer or the DTLS parameters
  down       \* datagrams on the way to the PeerConnection

ownVars == <<state_, http, cut, bad, crashed>>
peerVars == <<peer, known, down>>
vars == <<pcVars, ownVars, peerVars>>

Mediasoup == {"mspush", "mspull"}
Requests == {"sdp", "broadcaster", "transport", "connect", "video", "audio"}

(* A client with no answer on its way.                                     *)
Client(st) == [st |-> st, ok |-> TRUE, counted |-> TRUE, left |-> 0]

Init ==
  /\ PcInit
  /\ state_ = "none" /\ http = [r \in Requests |-> Client("none")]
  /\ cut = FALSE /\ bad = FALSE /\ crashed = FALSE
  /\ peer = "idle" /\ known = FALSE /\ down = {}

-----------------------------------------------------------------------------
(* The owner.  h is http without the read being handled; a is that read:   *)
(* the request it answers, its status, and whether the body is complete.   *)

PostNext(r, h) ==
  /\ state_' = r /\ http' = [h EXCEPT ![r] = Client("sent")]
  /\ UNCHANGED crashed

(* One operator per request; Whip and Whep send PostOffer alone.           *)
PostOffer(h) == PostNext("sdp", h)
BroadCasterRequest(h) == PostNext("broadcaster", h)
TransportRequest(h) == PostNext("transport", h)
TransportConnectRequest(h) == PostNext("connect", h)
VideoRequest(h) == PostNext("video", h)
AudioRequest(h) == PostNext("audio", h)

OnlyLog(h) == http' = h /\ UNCHANGED <<pcVars, state_, crashed>>

Throw(h) == http' = h /\ crashed' = TRUE /\ UNCHANGED <<pcVars, state_>>

StartNetwork ==
  /\ state_ = "none"
  /\ IF role \in Mediasoup THEN BroadCasterRequest(http) ELSE PostOffer(http)
  /\ UNCHANGED <<pcVars, cut, bad, peerVars>>

(* The lines of a body that ParseAnswerSdp can use.  A player is told the  *)
(* SSRCs of the peer, a publisher uses its own.                            *)
AnswerLines ==
  {"cand", "cred"} \cup IF role = "whep" THEN {"vpeer", "apeer"} ELSE {}
Bodies(a) ==
  IF ~a.ok THEN {{}}
  ELSE IF a.whole THEN {AnswerLines} ELSE SUBSET (AnswerLines \cup {"badcred"})

(* Whip and Whep: the status is only logged.  A line that is cut short may *)
(* throw (substr beyond its end) or give a wrong ice-ufrag or ice-pwd.     *)
HandleSdp(a, h) ==
  \/ /\ \E lines \in Bodies(a) : ParseAnswerSdp(lines)
     /\ http' = h /\ UNCHANGED <<state_, crashed>>
  \/ ~a.whole /\ Throw(h)

HandleBroadCasterResponse(a, h) ==
  IF a.ok THEN UNCHANGED pcVars /\ TransportRequest(h) ELSE OnlyLog(h)

(* The body is parsed as JSON before the status is looked at: text, or a   *)
(* body without the fields of a transport, throws.                         *)
HandleTransportResponse(a, h) ==
  \/ /\ a.ok /\ a.whole /\ a.r = "transport"
     /\ SetRemoteAndUpdateState /\ TransportConnectRequest(h)
  \/ ~a.ok /\ OnlyLog(h)
  \/ ~(a.ok /\ a.whole /\ a.r = "transport") /\ Throw(h)

(* Mutant of HandleTransportConnectResponse: the timer is forgotten.       *)
ConnectWithoutTimer(a, h) == OnlyLog(h)

HandleTransportConnectResponse(a, h) ==
  IF a.ok THEN StartTimer /\ http' = h /\ UNCHANGED <<state_, crashed>>
  ELSE OnlyLog(h)

HandleVideoProduceResponse(a, h) ==
  IF a.ok THEN UNCHANGED pcVars /\ AudioRequest(h) ELSE OnlyLog(h)

(* Mutant of HandleAudioProduceResponse: ready is reported, no streams.    *)
AudioProduceReportOnly(a, h) ==
  IF a.ok
  THEN /\ CreateLater({}, {"offer"}, {"audio_produce"})
       /\ http' = h /\ UNCHANGED <<state_, crashed>>
  ELSE OnlyLog(h)

HandleAudioProduceResponse(a, h) ==
  IF a.ok
  THEN /\ CreateLater(SendKinds, {"offer"}, {"audio_produce"})
       /\ http' = h /\ UNCHANGED <<state_, crashed>>
  ELSE OnlyLog(h)

(* ParseVideoConsume and ParseAudioConsume throw for any other body.       *)
HandleVideoConsumeResponse(a, h) ==
  IF a.ok /\ a.whole /\ a.r = "video"
  THEN CreateLater({"vrecv"}, {"vpeer"}, {}) /\ AudioRequest(h)
  ELSE Throw(h)

HandleAudioConsumeResponse(a, h) ==
  IF a.ok /\ a.whole /\ a.r = "audio"
  THEN /\ CreateLater({"arecv"}, {"apeer"}, {})
       /\ http' = h /\ UNCHANGED <<state_, crashed>>
  ELSE Throw(h)

(* OnHttpRead with ret >= 0, of each owner.                                *)
PushHttpRead(a, h) ==
  \/ state_ = "broadcaster" /\ HandleBroadCasterResponse(a, h)
  \/ state_ = "transport" /\ HandleTransportResponse(a, h)
  \/ state_ = "connect" /\ HandleTransportConnectResponse(a, h)
  \/ state_ = "video" /\ HandleVideoProduceResponse(a, h)
  \/ state_ = "audio" /\ HandleAudioProduceResponse(a, h)

PullHttpRead(a, h) ==
  \/ state_ = "broadcaster" /\ HandleBroadCasterResponse(a, h)
  \/ state_ = "transport" /\ HandleTransportResponse(a, h)
  \/ state_ = "connect" /\ HandleTransportConnectResponse(a, h)
  \/ state_ = "video" /\ HandleVideoConsumeResponse(a, h)
  \/ state_ = "audio" /\ HandleAudioConsumeResponse(a, h)

OnHttpRead(a, h) ==
  \/ role \notin Mediasoup /\ HandleSdp(a, h)
  \/ role = "mspush" /\ PushHttpRead(a, h)
  \/ role = "mspull" /\ PullHttpRead(a, h)

(* What is left of an answer after one more read.                          *)
AfterRead(r) ==
  LET c == http[r]
  IN  [http EXCEPT ![r] = IF c.left = 1 THEN Client("done")
                          ELSE [c EXCEPT !.left = c.left - 1]]

(* HttpClient::OnRead hands an answer on when it is complete, and every    *)
(* piece of it when it has no Content-Length.                              *)
HttpCallsBack(r) == http[r].left = 1 \/ ~http[r].counted

HttpRead(r) ==
  /\ http[r].left > 0
  /\ \/ /\ HttpCallsBack(r)
        /\ cut' = (cut \/ http[r].left > 1)
        /\ OnHttpRead([r |-> r, ok |-> http[r].ok, whole |-> http[r].left = 1],
                      AfterRead(r))
     \* the header is not complete yet, or the counted body is not
     \/ /\ http[r].left > 1
        /\ http' = AfterRead(r)
        /\ UNCHANGED <<pcVars, state_, cut, crashed>>
  /\ UNCHANGED <<bad, peerVars>>

(* Connecting or reading fails: OnHttpRead with ret < 0 logs, Whip and     *)
(* Whep also release the client.  Nothing is tried again.                  *)
HttpFail(r) ==
  /\ http[r].st \in {"sent", "answered"}
  /\ http' = [http EXCEPT ![r] = Client("done")] /\ bad' = TRUE
  /\ UNCHANGED <<pcVars, state_, cut, crashed, peerVars>>

-----------------------------------------------------------------------------
(* The PeerConnection and what its owner does in OnState.                  *)

Timer == OnTimer /\ UNCHANGED <<ownVars, peerVars>>

Tick == Elapse /\ UNCHANGED <<ownVars, peerVars>>

ReadStun ==
  /\ "stun" \in down /\ OnReadStun
  /\ UNCHANGED <<ownVars, peerVars>>

(* MsPush and MsPull send the video request from within the report.        *)
ReadDtls(m) ==
  /\ m \in down /\ OnReadDtls(m)
  /\ IF "dtls" \in reports' \ reports /\ role \in Mediasoup
     THEN VideoRequest(http) ELSE UNCHANGED <<state_, http, crashed>>
  /\ UNCHANGED <<cut, bad, peerVars>>

-----------------------------------------------------------------------------
(* External: the HTTP server, the peer and the network.                    *)

(* Bound: at most one answer of a session comes in pieces.                 *)
MayCut == ~cut /\ \A r \in Requests : http[r].counted

ServerAnswers(r) ==
  /\ http[r].st = "sent"
  /\ \E ok, counted \in BOOLEAN, n \in 1..MaxReads :
       /\ n = 1 => counted   \* no difference for a single read
       /\ counted \/ MayCut
       /\ http' = [http EXCEPT ![r] =
            [st |-> "answered", ok |-> ok, counted |-> counted, left |-> n]]
       /\ bad' = (bad \/ ~ok)
       /\ known' = (known \/ (ok /\ r \in {"sdp", "connect"}))
  /\ UNCHANGED <<pcVars, state_, cut, crashed, peer, down>>

(* A binding request is answered; the peer, as DTLS client, starts once it *)
(* also knows the session.                                                 *)
PeerStun ==
  /\ "stun" \in up
  /\ down' = down \cup {"stun"}
  /\ peer' = IF peer = "idle" /\ known THEN "ch" ELSE peer
  /\ UNCHANGED <<pcVars, ownVars, known>>

PeerDtls ==
  /\ \/ "sh" \in up /\ peer = "ch" /\ peer' = "fin"
     \/ "sfin" \in up /\ peer = "fin" /\ peer' = "done"
  /\ UNCHANGED <<pcVars, ownVars, known, down>>

(* The flight the peer is in, sent for the first time or again.            *)
PeerSend ==
  /\ peer \in {"ch", "fin"} /\ down' = down \cup {peer}
  /\ UNCHANGED <<pcVars, ownVars, peer, known>>

(* When the peer may have sent RTP of this kind.  A WHEP peer sends after  *)
(* DTLS; mediasoup sends what it was asked for, which may be before its    *)
(* answer is read.                                                         *)
PeerMaySend(kind) ==
  /\ peer = "done"
  /\ \/ role = "whep"
     \/ role = "mspull" /\ http[IF kind = "vrecv" THEN "video" ELSE "audio"].st
                             \in {"answered", "done"}

LoseUp(m) ==
  /\ m \in up /\ up' = up \ {m}
  /\ UNCHANGED <<role, pc_state_, timer_on, stun_age, ice, cred, ssrcs, dtls_,
                 bio_in_, srtp, streams, reports, ownVars, peerVars>>

LoseDown(m) ==
  /\ m \in down /\ down' = down \ {m}
  /\ UNCHANGED <<pcVars, ownVars, peer, known>>

-----------------------------------------------------------------------------
Step ==
  \/ StartNetwork
  \/ \E r \in Requests : HttpRead(r) \/ HttpFail(r) \/ ServerAnswers(r)
  \/ Timer \/ Tick \/ ReadStun
  \/ \E m \in {"ch", "fin"} : ReadDtls(m)
  \/ PeerStun \/ PeerDtls \/ PeerSend
  \/ \E m \in {"stun", "sh", "sfin"} : LoseUp(m)
  \/ \E m \in {"stun", "ch", "fin"} : LoseDown(m)

(* Nothing runs on after an uncaught exception.                            *)
Alive(A) == ~crashed /\ A
Next == Alive(Step)

(* The loop runs its timers and reads its sockets; the peer retransmits;   *)
(* the network delivers what is sent again and again.                      *)
Fairness ==
  /\ WF_vars(Alive(StartNetwork)) /\ WF_vars(Alive(Timer)) /\ WF_vars(Alive(Tick))
  /\ \A r \in Requests : /\ WF_vars(Alive(HttpRead(r)))
                         /\ WF_vars(Alive(ServerAnswers(r)))
  /\ SF_vars(Alive(ReadStun))
  /\ \A m \in {"ch", "fin"} : SF_vars(Alive(ReadDtls(m)))
  /\ SF_vars(Alive(PeerStun)) /\ SF_vars(Alive(PeerDtls))
  /\ WF_vars(Alive(PeerSend))

Spec == Init /\ [][Next]_vars /\ Fairness

-----------------------------------------------------------------------------
TypeOK ==
  /\ role \in Roles /\ pc_state_ \in 0..3 /\ timer_on \in BOOLEAN
  /\ stun_age \in 0..StunGap /\ ice \in BOOLEAN
  /\ cred \in {"none", "right", "wrong"} /\ ssrcs \subseteq Ssrcs
  /\ dtls_ \in {"new", "accept", "hello", "finished"}
  /\ bio_in_ \subseteq {"ch", "fin"} /\ srtp \in Nat
  /\ streams \in [SendKinds \cup RecvKinds ->
                    [n : Nat, ssrc : Ssrcs \cup {"none"}]]
  /\ up \subseteq {"stun", "sh", "sfin"}
  /\ reports \subseteq {"sdp", "stun", "dtls", "audio_produce"}
  /\ state_ \in Requests \cup {"none"}
  /\ http \in [Requests -> [st : {"none", "sent", "answered", "done"},
                            ok : BOOLEAN, counted : BOOLEAN, left : 0..MaxReads]]
  /\ cut \in BOOLEAN /\ bad \in BOOLEAN /\ crashed \in BOOLEAN
  /\ peer \in {"idle", "ch", "fin", "done"} /\ known \in BOOLEAN
  /\ down \subseteq {"stun", "ch", "fin"}

(* OnHttpRead trusts state_ to tell whose answer it has.  It may: only one *)
(* request is under way, and it is the one of state_, unless some answer   *)
(* came in pieces.  The DTLS report, which also sends a request, cannot    *)
(* overtake the answer to connect because the timer starts with it.        *)
AnswersInOrder ==
  cut \/ \A r \in Requests : http[r].st \in {"sent", "answered"} => r = state_

(* No answer ends the process unless it is an error or came in pieces.     *)
CrashNeedsBadAnswer == crashed => cut \/ bad

(* However often DTLS messages and SDP answers come, the SRTP sessions are *)
(* made once: a second pair would start its packet index over again.       *)
SrtpOnce == srtp = IF pc_state_ = PC_DTLS_DONE_STATE THEN 1 ELSE 0

(* No answer and no datagram, repeated or late, takes the session back.    *)
StateForward == [][pc_state_' >= pc_state_]_vars

(* Every stream is made once: a second RtcSendStream would start its       *)
(* sequence numbers anew under the same SSRC.                              *)
StreamsMadeOnce == cut \/ \A k \in DOMAIN streams : streams[k].n <= 1

(* What a publisher hands over after the report that says so is sent:      *)
(* "dtls" for WHIP, "audio_produce" for mediasoup.                         *)
ReadyMeansSent ==
  (IF role = "mspush" THEN "audio_produce" ELSE "dtls") \in reports /\ role \in SendOnly
    => \A kind \in SendKinds : PacketSent(kind)

(* RTP of the peer finds its keys and its stream: at a WHEP player that    *)
(* got its answer in one piece always, at a mediasoup player once it has   *)
(* handled the answer that announces it.                                   *)
RtpFindsStream ==
  \A kind \in RecvKinds :
    PeerMaySend(kind) /\ ~cut /\ ~bad
      /\ (role = "mspull" => http[IF kind = "vrecv" THEN "video" ELSE "audio"].st = "done")
      => RtpAccepted(kind)

(* With a candidate, the credentials, the timer and a peer that has        *)
(* accepted the session, DTLS completes whatever UDP loses.                *)
Connects ==
  (ice /\ cred = "right" /\ timer_on /\ known) ~> (pc_state_ = PC_DTLS_DONE_STATE \/ crashed)

(* A session whose requests all succeed ends with its streams.             *)
StreamsComeUp ==
  <>(\/ cut \/ bad
     \/ \A k \in (IF role \in SendOnly THEN SendKinds ELSE RecvKinds) :
          streams[k].n > 0)

(* The streams of a session are made once, are there when the owner        *)
(* reports ready and when the RTP of the peer comes, and no whole and good *)
(* answer ends the process on the way (CreateLater, OnReadDtls,            *)
(* OnHttpRead).                                                            *)
StreamsInPlace ==
  /\ TypeOK /\ CrashNeedsBadAnswer /\ StreamsMadeOnce /\ ReadyMeansSent
  /\ RtpFindsStream

(* A session comes up: DTLS completes whatever UDP loses, and with answers *)
(* that are good and whole the streams are made.                           *)
ComesUp == Connects /\ StreamsComeUp
=============================================================================
