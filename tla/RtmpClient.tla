----------------------------- MODULE RtmpClient -----------------------------
(***************************************************************************)
(* An RTMP client session (src/src/net/rtmp/rtmp_client_session.cpp with   *)
(* RtmpControlHandler) opened by RtmpPublish or RtmpPlay, and the server   *)
(* half of the same RtmpControlHandler at the other end of a TCP stream.   *)
(*                                                                         *)
(* TCP keeps the order of bytes and cuts them where it likes: one read     *)
(* brings some whole messages and perhaps the first bytes of the next one. *)
(* OnRead handles the whole messages one after the other; nothing else     *)
(* runs on the client's loop thread until the last is handled (whole = 0), *)
(* so what stays in recv_buffer_ between two reads is the beginning of at  *)
(* most one message (half).                                                *)
(* A message is what the client looks at: the kind, the command string and *)
(* the "code" of a status object.  RtmpPublish and RtmpPlay report what     *)
(* happens to their StreamerReport; reported keeps those events.           *)
(***************************************************************************)
EXTENDS Naturals, Sequences, SequencesExt

CONSTANTS
  MaxMedia       \* bound: media messages of one session

ASSUME RtmpConstants == MaxMedia \in Nat

VARIABLES
  conn,          \* TcpClient: "connecting", "open", "eof", "closed" or "lost"
  publish_flag_, \* started by RtmpPublish (TRUE) or RtmpPlay (FALSE)
  client_phase_, \* the client's place in the dialogue
  ready_,        \* RtmpPublish: the publish was acknowledged
  whole,         \* messages of s2c in recv_buffer_ that OnRead has yet to handle
  entry,         \* client_phase_ in which HandleMessage began to handle them
  half,          \* recv_buffer_ holds the beginning of the message behind them
  framing,       \* FALSE once bytes of an unread message were thrown away
  c2s, s2c,      \* messages in flight: to the server, to the client
  server_phase_, \* the server's place in the dialogue
  is_ready_,     \* the server has read publish or play (req_.is_ready_)
  media,         \* media messages produced so far
  reported,      \* events: requests sent, answers read, and others
  heard          \* history: commands whose answer the client has read

rtmpVars == <<conn, publish_flag_, client_phase_, ready_, whole, entry, half, framing,
              c2s, s2c, server_phase_, is_ready_, media, reported, heard>>

Control(type) == [kind |-> "control", type |-> type]
Command(cmd, to, code) ==
  [kind |-> "command", cmd |-> cmd, to |-> to, code |-> code]
Media == [kind |-> "media"]
Request(cmd) == [kind |-> "request", cmd |-> cmd]

RtmpInit ==
  /\ conn = "connecting" /\ publish_flag_ \in BOOLEAN
  /\ client_phase_ = "initial" /\ ready_ = FALSE
  /\ whole = 0 /\ entry = "none" /\ half = FALSE /\ framing = TRUE
  /\ c2s = <<>> /\ s2c = <<>>
  /\ server_phase_ = "initial" /\ is_ready_ = FALSE /\ media = 0 /\ heard = {}
  /\ reported = [sends |-> <<>>, answers |-> <<>>, others |-> {}]

-----------------------------------------------------------------------------
(* Reports                                                                 *)

RequestReport(r) ==
  CASE r = Request("c0c1") -> "SendC0C1"
    [] r = Request("connect") -> "RtmpConnectSend"
    [] r = Request("createStream") -> "CreateStreamSend"
    [] r = Request("publish/play") -> "PlayPublishSend"

ControlReports(m) ==
  CASE m.type = "chunk_size" -> {"ChunkSize"}
    [] m.type = "window_ack_size" -> {"WindowSize"}
    [] m.type = "peer_bandwidth" -> {"BandWidth"}
    [] OTHER -> {}

(* An answer is named for the phase it finds the client in.                *)
AnswerReports(phase) ==
  CASE phase = "connect_resp" -> <<"RtmpConnectRecv">>
    [] phase = "create_stream_resp" -> <<"CreateStreamRecv">>
    [] phase = "playpublish_resp" -> <<"PlayPublishRecv">>
    [] OTHER -> <<>>

(* The callbacks of RtmpPublish and RtmpPlay: one event each.              *)
ReportSends(rep, requests) ==
  [rep EXCEPT !.sends = @ \o [i \in DOMAIN requests |-> RequestReport(requests[i])]]
ReportOthers(rep, events) == [rep EXCEPT !.others = @ \cup events]

-----------------------------------------------------------------------------
(* HandleServerCommandMessage and HandleRtmpControlMessage on one message. *)
(* st: the phase, ready_, the requests written, whether it failed.         *)

CreatePhase == IF publish_flag_ THEN "create_publish" ELSE "create_play"

(* Mutant of AcceptedIn: onBWDone is not known.                            *)
AcceptedInNoBWDone(phase, m) ==
  phase \in {"connect_resp", "create_stream", "create_stream_resp"} =>
     m.cmd = "_result"

AcceptedIn(phase, m) ==
  CASE phase \in {"connect_resp", "create_stream", "create_stream_resp"} ->
         m.cmd \in {"_result", "onBWDone"}
    [] phase \in {"create_publish", "create_play"} ->
         /\ m.cmd \in {"_result", "onStatus", "onBWDone"}
         /\ m.code \in {"none", "Publish.Start", "Play.Start"}
    [] OTHER -> TRUE

PhaseAfter(phase, cmd) ==
  CASE phase = "connect_resp" /\ cmd = "_result" -> "create_stream"
    [] phase \in {"create_stream", "create_stream_resp"} /\ cmd = "_result" ->
         CreatePhase
    [] phase = "playpublish_resp" -> "media_handle"
    [] OTHER -> phase

(* reportPlayPublishRespAmf hands the last string of the answer to         *)
(* OnRtmpPlayPublishRecv, which takes "_result" alone for a success.       *)
ReadyAfter(phase, cmd, ready) ==
  IF phase = "playpublish_resp" /\ publish_flag_
  THEN cmd = "_result" ELSE ready

HandleRtmpControl(st, m) ==
  [st EXCEPT !.out = IF m.type = "chunk_size" THEN Append(@, Control("chunk_size")) ELSE @,
             !.rep = ReportOthers(@, ControlReports(m))]

HandleServerCommand(st, m) ==
  IF ~AcceptedIn(st.phase, m) THEN [st EXCEPT !.failed = TRUE]
  ELSE [st EXCEPT !.phase = PhaseAfter(@, m.cmd),
                  !.ready = ReadyAfter(st.phase, m.cmd, @),
                  !.rep.answers = @ \o AnswerReports(st.phase),
                  !.heard = @ \cup {m.to}]

HandleOne(st, m) ==
  CASE m.kind = "control" -> HandleRtmpControl(st, m)
    [] m.kind = "command" -> HandleServerCommand(st, m)
    [] m.kind = "broken" -> [st EXCEPT !.failed = TRUE]
    [] OTHER -> st

(* What bytes from the middle of a message may be parsed as: any message,  *)
(* in answer to nothing, or none.                                          *)
Garbage ==
  {Command("_result", "none", "none"), Command("onBWDone", "none", "none"),
   Command("onStatus", "none", "other"), Control("chunk_size"), Control("other"),
   Media, [kind |-> "broken"]}

(* Mutant of ReturnsOk: RTMP_OK after a control message only.              *)
ReturnsOkControl(m, more) == ~more /\ m.kind = "control"

(* ReceiveRespMessage returns RTMP_OK only with an empty buffer after a    *)
(* control or command message, whichever that was; otherwise it asks for   *)
(* more bytes.                                                             *)
ReturnsOk(m, more) == ~more /\ m.kind \in {"control", "command"}

(* Mutant of PhaseWhenOk: the phase is not moved on behind publish.        *)
PhaseWhenOkStays ==
  IF entry \in {"connect_resp", "create_stream_resp"}
  THEN "create_stream_resp" ELSE "media_handle"

(* What HandleMessage does when ReceiveRespMessage returned RTMP_OK: it    *)
(* goes by the phase it was entered in.                                    *)
PhaseWhenOk ==
  CASE entry = "connect_resp" -> "create_stream_resp"
    [] entry = "create_stream_resp" -> "playpublish_resp"
    [] OTHER -> "media_handle"

RequestWhenOk ==
  CASE entry = "connect_resp" -> <<Request("createStream")>>
    [] entry = "create_stream_resp" -> <<Request("publish/play")>>
    [] OTHER -> <<>>

-----------------------------------------------------------------------------
(* RtmpClientSession: callbacks of the TCP client.                         *)

(* SendC0C1 may fail (RtmpHandshake!MakeC0C1) and its result is not looked *)
(* at.  A connection that fails is not reported.                           *)
OnConnect ==
  /\ conn = "connecting"
  /\ \/ /\ conn' = "open" /\ client_phase_' = "c0c1"
        /\ \E out \in {<<>>, <<Request("c0c1")>>} :
             c2s' = c2s \o out /\ reported' = ReportSends(reported, out)
     \/ conn' = "closed" /\ UNCHANGED <<client_phase_, c2s, reported>>
  /\ UNCHANGED <<publish_flag_, ready_, whole, entry, half, framing, s2c, server_phase_,
                 is_ready_, media, heard>>

(* A read brings the rest of n messages and, if more, a part of the next.  *)
Arrives(n, more) ==
  /\ conn = "open" /\ whole = 0
  /\ n \in 0 .. Len(s2c) /\ more \in BOOLEAN
  /\ more => n < Len(s2c)
  /\ n > 0 \/ (more /\ ~half)
  /\ half' = more
  /\ UNCHANGED <<publish_flag_, server_phase_, is_ready_, media>>

(* They are taken out of the buffer without a look at each.                *)
Swallowed(n) ==
  s2c' = SubSeq(s2c, n + 1, Len(s2c)) /\ UNCHANGED <<whole, entry>>

(* Mutant of ReadHandshake: the phase is not moved on after connect.       *)
ReadHandshakeNoResp(n, more) ==
  /\ client_phase_ = "c0c1" /\ Arrives(n, more) /\ Swallowed(n)
  /\ IF n = 0 THEN UNCHANGED <<client_phase_, c2s>>
     ELSE /\ client_phase_' = "connect"
          /\ c2s' = c2s \o <<Request("c2"), Request("connect")>>
  /\ reported' = reported
  /\ UNCHANGED <<conn, ready_, framing, heard>>

(* HandleMessage, client_c0c1_phase: S0S1S2, then C2, which RtmpSend       *)
(* reports as RecvS0S1S2 once more, and connect.                           *)
ReadHandshake(n, more) ==
  /\ client_phase_ = "c0c1" /\ Arrives(n, more) /\ Swallowed(n)
  /\ IF n = 0 THEN UNCHANGED <<client_phase_, c2s, reported>>
     ELSE /\ client_phase_' = "connect_resp"
          /\ c2s' = c2s \o <<Request("c2"), Request("connect")>>
          /\ reported' = ReportOthers(ReportSends(reported, <<Request("connect")>>),
                                      {"RecvS0S1S2"})
  /\ UNCHANGED <<conn, ready_, framing, heard>>

(* HandleMessage in a phase that reads chunk streams: it enters            *)
(* ReceiveRespMessage.                                                     *)
ReadResponse(n, more) ==
  /\ client_phase_ \in {"connect_resp", "create_stream_resp",
                        "playpublish_resp", "media_handle"}
  /\ Arrives(n, more)
  /\ whole' = n /\ entry' = IF n = 0 THEN "none" ELSE client_phase_
  /\ UNCHANGED <<conn, client_phase_, ready_, framing, c2s, s2c, reported, heard>>

(* One round of the loop of ReceiveRespMessage on message m and, when it   *)
(* was the last, what HandleMessage does with the result; left: the buffer *)
(* holds more.                                                             *)
HandleRound(m, left) ==
  /\ LET st == HandleOne([phase |-> client_phase_, ready |-> ready_, out |-> <<>>,
                          rep |-> reported, heard |-> heard, failed |-> FALSE], m)
         ok == whole = 1 /\ ~st.failed /\ ReturnsOk(m, left)
         next == IF ok THEN RequestWhenOk ELSE <<>>
     IN /\ conn' = IF st.failed THEN "closed" ELSE conn
        /\ whole' = IF st.failed THEN 0 ELSE whole - 1
        /\ client_phase_' = IF ok THEN PhaseWhenOk ELSE st.phase
        /\ c2s' = c2s \o st.out \o next
        /\ reported' = ReportOthers(ReportSends(st.rep, next),
                                    IF st.failed THEN {"close"} ELSE {})
        /\ ready_' = st.ready /\ heard' = st.heard
  /\ s2c' = Tail(s2c) /\ entry' = IF whole' = 0 THEN "none" ELSE entry
  /\ UNCHANGED <<publish_flag_, half, framing, server_phase_, is_ready_, media>>

(* Once bytes are lost the messages are read as Garbage, bound: one for    *)
(* each that arrives.                                                      *)
ReceiveRespMessage ==
  /\ whole > 0
  /\ IF framing THEN HandleRound(Head(s2c), half)
     ELSE \E m \in Garbage, left \in BOOLEAN : HandleRound(m, left)

(* HandleMessage when the previous read ended inside a message right after *)
(* the answer that moved the phase: it writes the next request first and   *)
(* resets recv_buffer_, the beginning of that message included.            *)
ReadAfterPhaseMoved(n, more) ==
  /\ client_phase_ \in {"create_stream", "create_publish", "create_play"}
  /\ Arrives(n, more) /\ Swallowed(n)
  /\ LET create == client_phase_ = "create_stream"
         next == <<Request(IF create THEN "createStream" ELSE "publish/play")>>
     IN /\ client_phase_' = IF create THEN "create_stream_resp" ELSE "playpublish_resp"
        /\ c2s' = c2s \o next /\ reported' = ReportSends(reported, next)
  /\ framing' = FALSE
  /\ UNCHANGED <<conn, ready_, heard>>

Readings(n, more) ==
  \/ ReadHandshake(n, more) \/ ReadResponse(n, more) \/ ReadAfterPhaseMoved(n, more)

OnRead == \E n \in 0 .. Len(s2c), more \in BOOLEAN : Readings(n, more)

(* OnRead with an error: OnClose is reported, the connection is kept.      *)
OnReadError ==
  /\ conn = "open" /\ whole = 0 /\ conn' = "eof"
  /\ reported' = ReportOthers(reported, {"close"})
  /\ UNCHANGED <<publish_flag_, client_phase_, ready_, whole, entry, half, framing, c2s,
                 s2c, server_phase_, is_ready_, media, heard>>

(* OnWrite with an error: the connection is closed and nobody is told.     *)
OnWriteError ==
  /\ conn \in {"open", "eof"} /\ whole = 0 /\ conn' = "lost"
  /\ UNCHANGED <<publish_flag_, client_phase_, ready_, whole, entry, half, framing, c2s,
                 s2c, server_phase_, is_ready_, media, reported, heard>>

(* Mutant of MayWrite: IsReady and ready_ are not looked at.               *)
MayWriteUnready == publish_flag_ /\ conn \in {"open", "eof"}

(* RtmpPublish::SendRtmp and RtmpClientSession::RtmpWrite on one packet.   *)
MayWrite ==
  /\ publish_flag_ /\ client_phase_ = "media_handle" /\ ready_
  /\ conn \in {"open", "eof"}

SendRtmp ==
  /\ MayWrite /\ whole = 0 /\ media < MaxMedia
  /\ c2s' = Append(c2s, Media) /\ media' = media + 1
  /\ UNCHANGED <<conn, publish_flag_, client_phase_, ready_, whole, entry, half, framing,
                 s2c, server_phase_, is_ready_, reported, heard>>

-----------------------------------------------------------------------------
(* The server: RtmpControlHandler's answers to one message.                *)

ConnectReply ==
  <<Control("window_ack_size"), Control("peer_bandwidth"),
    Control("chunk_size"), Command("_result", "connect", "Connect.Success")>>

PlayReply ==
  <<Control("user_control"), Control("user_control")>>
    \o <<Command("onStatus", "publish/play", "Play.Reset"),
         Command("onStatus", "publish/play", "Play.Start"),
         Command("onStatus", "publish/play", "Data.Start"),
         Command("onStatus", "publish/play", "Play.PublishNotify")>>

(* Some servers follow the connect answer with onBWDone, which the client  *)
(* knows; some, like HandleRtmpControlMessage itself, answer a chunk size  *)
(* with a chunk size.                                                      *)
Replies(m) ==
  CASE m = Request("c0c1") -> {<<[kind |-> "s0s1s2"]>>}
    [] m = Request("connect") ->
         {ConnectReply, Append(ConnectReply, Command("onBWDone", "none", "none"))}
    [] m = Request("createStream") -> 
         {<<Command("_result", "createStream", "none")>>}
    [] m = Request("publish/play") ->
         IF publish_flag_
         THEN {<<Command("onStatus", "publish/play", "Publish.Start")>>}
         ELSE {PlayReply}
    [] m = Control("chunk_size") -> {<<>>, <<Control("chunk_size")>>}
    [] OTHER -> {<<>>}

(* Publish moves the server to its last phase, play does not.              *)
ServerPhaseAfter(m) ==
  CASE m = Request("c2") -> "connect"
    [] m = Request("connect") -> "create_stream"
    [] m = Request("createStream") -> "create_publish_play"
    [] m = Request("publish/play") /\ publish_flag_ -> "media_handle"
    [] OTHER -> server_phase_

ServerHandles ==
  /\ c2s # <<>>
  /\ c2s' = Tail(c2s)
  /\ \E reply \in Replies(Head(c2s)) : s2c' = s2c \o reply
  /\ server_phase_' = ServerPhaseAfter(Head(c2s))
  /\ is_ready_' = (is_ready_ \/ Head(c2s) = Request("publish/play"))
  /\ UNCHANGED <<conn, publish_flag_, client_phase_, ready_, whole, entry, half, framing,
                 media, reported, heard>>

(* A played stream: media follows the answer to play.                      *)
ServerStreams ==
  /\ is_ready_ /\ ~publish_flag_ /\ media < MaxMedia
  /\ s2c' = Append(s2c, Media) /\ media' = media + 1
  /\ UNCHANGED <<conn, publish_flag_, client_phase_, ready_, whole, entry, half, framing,
                 c2s, server_phase_, is_ready_, reported, heard>>

RtmpNext ==
  \/ OnConnect \/ OnRead \/ ReceiveRespMessage \/ OnReadError
  \/ OnWriteError \/ SendRtmp \/ ServerHandles \/ ServerStreams

RtmpSpec == RtmpInit /\ [][RtmpNext]_rtmpVars

(* The loop threads of both ends run and TCP delivers.                     *)
RtmpFairSpec ==
  RtmpSpec /\ WF_rtmpVars(OnConnect) /\ WF_rtmpVars(OnRead)
           /\ WF_rtmpVars(ReceiveRespMessage) /\ WF_rtmpVars(ServerHandles)

-----------------------------------------------------------------------------
ClientPhases ==
  {"initial", "c0c1", "connect_resp", "create_stream", "create_stream_resp",
   "create_publish", "create_play", "playpublish_resp", "media_handle"}

ServerPhases ==
  {"initial", "connect", "create_stream", "create_publish_play",
   "media_handle"}

(* Type invariant; a message is cut only while one is under way.           *)
RtmpTypeOK ==
  /\ conn \in {"connecting", "open", "eof", "closed", "lost"}
  /\ client_phase_ \in ClientPhases /\ server_phase_ \in ServerPhases
  /\ publish_flag_ \in BOOLEAN /\ ready_ \in BOOLEAN /\ framing \in BOOLEAN
  /\ is_ready_ \in BOOLEAN
  /\ whole \in 0 .. Len(s2c) /\ half \in BOOLEAN /\ (half => whole < Len(s2c))
  /\ media \in 0 .. MaxMedia
  /\ reported.others \subseteq {"ChunkSize", "WindowSize", "BandWidth", "RecvS0S1S2", "close"}

(* Wherever TCP cuts the stream, and although any control message moves    *)
(* the client on, the server meets every request in the phase it is for,   *)
(* once, and a media packet only when it has answered publish; also when   *)
(* the client has thrown bytes away and reads garbage.                     *)
ServerInStep ==
  c2s # <<>> =>
    /\ Head(c2s) = Request("connect") => server_phase_ = "connect"
    /\ Head(c2s) = Request("createStream") => server_phase_ = "create_stream"
    /\ Head(c2s) = Request("publish/play") =>
         server_phase_ = "create_publish_play" /\ ~is_ready_
    /\ Head(c2s) = Media => is_ready_ /\ (publish_flag_ => server_phase_ = "media_handle")

(* HandleServerCommandMessage checks an answer against the phase the       *)
(* client is in, not the request it answers: even so no answer of a        *)
(* well-behaved server ends the session, however the phases have shifted.  *)
NoAnswerRejected ==
  conn = "closed" => client_phase_ = "initial" \/ ~framing

(* What the reporter hears makes sense although an answer is named for the *)
(* phase it is read in: every request is sent once and in order, an answer *)
(* is reported behind its request, the one to publish or play once at      *)
(* most, and a session that an answer or the peer ends is reported closed. *)
ReportsTell ==
  LET sent(e) == e \in ToSet(reported.sends)
      got(e) == \E i \in DOMAIN reported.answers : reported.answers[i] = e
  IN  /\ IsPrefix(reported.sends, <<"SendC0C1", "RtmpConnectSend", "CreateStreamSend",
                                   "PlayPublishSend">>)
      /\ got("RtmpConnectRecv") => sent("RtmpConnectSend")
      /\ got("CreateStreamRecv") => sent("CreateStreamSend")
      /\ got("PlayPublishRecv") => sent("PlayPublishSend")
      /\ \A i, j \in DOMAIN reported.answers :
           reported.answers[i] = "PlayPublishRecv" /\ reported.answers[j] = "PlayPublishRecv"
             => i = j
      /\ (conn \in {"closed", "eof"} /\ client_phase_ # "initial" => "close" \in reported.others)

(* Every session whose C0C1 went out gets to the media phase, unless the   *)
(* connection ends or bytes were thrown away.                              *)
SessionSettles ==
  (conn = "open" /\ reported.sends # <<>>) ~>
    (client_phase_ = "media_handle" \/ conn # "open" \/ ~framing)

(* Client, server and reporter have the same idea of the dialogue:         *)
(* requests meet their phase, answers are accepted, and the reports        *)
(* follow.                                                                 *)
DialogueInStep ==
  /\ RtmpTypeOK /\ ServerInStep /\ NoAnswerRejected /\ ReportsTell
=============================================================================
