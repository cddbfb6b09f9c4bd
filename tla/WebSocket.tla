------------------------------ MODULE WebSocket -----------------------------
(***************************************************************************)
(* WebSocket frames (websocket_frame, ws_session_base, SendWsFrame).  On   *)
(* the wire a frame is its header and its payload, with the masking key    *)
(* between them where that is a write of its own; TCP may cut between      *)
(* these pieces, which are never cut into bytes.                           *)
(*                                                                         *)
(* A WebSocket connection from the TCP connection to its end: TcpClient,   *)
(* SslClient, HttpClient and WebSocketClient on one side, TcpServer,       *)
(* TcpSession, SslServer, WebSocketSession and WebSocketServer on the      *)
(* other, over TCP that cuts and joins what is written, fails or falls     *)
(* silent.  Either side may instead be another implementation, which may   *)
(* send fragments and close the connection.                                *)
(*                                                                         *)
(* The wire carries units: with TLS a record, or a part of a handshake     *)
(* flight; without it a piece of what was written.  A read takes one or    *)
(* more units.  One step is one callback of the event loop.                *)
(***************************************************************************)
EXTENDS Integers, Sequences, SequencesExt

(* Something of kind k on the wire; the fields are those of a frame.       *)
Piece(k, fin, op, hdr, id) == [k |-> k, fin |-> fin, op |-> op, hdr |-> hdr, id |-> id]

NoLength == [payload_len |-> 0, ext |-> 0]

Mark(k, id) == Piece(k, TRUE, "none", NoLength, id)

LengthCode_At127(len) ==
  IF len < 127 THEN [payload_len |-> len, ext |-> 0]
  ELSE IF len > 65535 THEN [payload_len |-> 127, ext |-> len]
  ELSE [payload_len |-> 126, ext |-> len % 65536]

(* The seven bits of payload_len, and the 16 or 64 bits that follow them.  *)
LengthCode(len) ==
  IF len < 126 THEN [payload_len |-> len, ext |-> 0]
  ELSE IF len > 65535 THEN [payload_len |-> 127, ext |-> len]
  ELSE [payload_len |-> 126, ext |-> len % 65536]

PayloadLen(hdr) == IF hdr.payload_len \in {126, 127} THEN hdr.ext ELSE hdr.payload_len

(* SendWsFrame: fin is always set.  item is [id, len].                     *)
WsFrame(op, item) ==
  <<Piece("h", TRUE, op, LengthCode(item.len), 0), Mark("p", item.id)>>

(* A frame of another implementation, which may be a fragment.             *)
PeerFrame(fin, op, item) ==
  <<Piece("h", fin, op, LengthCode(item.len), 0), Mark("p", item.id)>>

PingItem == [id |-> 0, len |-> 4]
CloseItem == [id |-> 0, len |-> 2]

(* The part of a session that WebSocketSessionBase keeps.                  *)
WsBase ==
  [frame_ |-> <<>>, recv_buffer_vec_ |-> <<>>, last_op_code_ |-> "text",
   is_connected_ |-> FALSE, close_ |-> FALSE]

(* One frame in HandleFrame.  Payloads gather until a frame with fin comes *)
(* and then go, each for itself, to what that frame's opcode calls for.    *)
OneFrame(x, h, p, Data(_, _, _), Close(_), Pong(_, _), Ponged(_)) ==
  LET item == [id |-> p.id, len |-> PayloadLen(h.hdr)]
      last == IF h.op \in {"text", "bin"} THEN h.op ELSE x.last_op_code_
      vec  == Append(x.recv_buffer_vec_, item)
      y    == [x EXCEPT !.last_op_code_ = last, !.recv_buffer_vec_ = vec]
      done == CASE h.op = "ping"  -> FoldLeft(Pong, y, vec)
                [] h.op = "pong"  -> Ponged(y)
                [] h.op = "close" -> FoldLeft(LAMBDA z, i : Close(z), y, vec)
                [] h.op = "cont"  -> FoldLeft(LAMBDA z, i : Data(z, i, last), y, vec)
                [] OTHER          -> FoldLeft(LAMBDA z, i : Data(z, i, h.op), y, vec)
  IN  IF h.fin THEN [done EXCEPT !.recv_buffer_vec_ = <<>>] ELSE y

(* Parse adds the bytes to the buffer; a header without its payload stays. *)
ParseFrames(frame_, pieces) ==
  LET buf  == frame_ \o pieces
      ends == {i \in DOMAIN buf : buf[i].k = "p"}
      n    == IF ends = {} THEN 0 ELSE Max(ends)
  IN  [whole |-> SelectSeq(SubSeq(buf, 1, n), LAMBDA u : u.k # "m"),
       rest  |-> SubSeq(buf, n + 1, Len(buf))]

(* HandleFrame: every whole frame in the buffer is handled.                *)
HandleFrame(x, pieces, One(_, _, _)) ==
  LET f == ParseFrames(x.frame_, pieces)
  IN  [FoldLeft(LAMBDA z, i : One(z, f.whole[2 * i - 1], f.whole[2 * i]), x,
                [i \in 1..(Len(f.whole) \div 2) |-> i])
         EXCEPT !.frame_ = f.rest]

-----------------------------------------------------------------------------
CONSTANTS
  TlsModes,      \* subset of BOOLEAN: with TLS, without
  TextLen,       \* length of a text message of the application
  BinLen,        \* length of a binary message of the application
  MaxMsgs,       \* bound: messages the application sends, texts and binaries in turn
  PingGap,       \* 2 s
  PongTimeout,   \* 15 s
  SweepGap,      \* 5 s between two looks of WebSocketServer at its sessions
  MaxRead,       \* bound: units that one read takes
  MaxQueue,      \* bound: time stands still while more units are under way
  MaxBacklog,    \* bound: units in the server's TLS buffer
  MaxPeer        \* bound: frames another implementation sends

ASSUME WebConstants ==
  /\ TlsModes \subseteq BOOLEAN /\ TextLen \in Nat /\ BinLen \in Nat /\ MaxMsgs \in Nat
  /\ PingGap \in Nat /\ PongTimeout \in Nat /\ SweepGap \in Nat \ {0}
  /\ MaxRead \in Nat \ {0} /\ MaxQueue \in Nat /\ MaxBacklog \in Nat /\ MaxPeer \in Nat

VARIABLES
  tls,       \* this connection uses TLS
  who,       \* "own": both sides are this code; else the side that is not
  path_ok,   \* the server has a handler for the path
  link,      \* "up", "reset", "dead" (silent)
  c, s,      \* client and server session
  c2s, s2c,  \* units under way
  due,       \* timers to run before time goes on
  sweep,     \* time since the server last looked at its sessions
  log        \* history: data frames sent by the client or by the other
             \* implementation, and that implementation's control frames

vars == <<tls, who, path_ok, link, c, s, c2s, s2c, due, sweep, log>>

Never == PingGap + 1     \* age of a ping that was not sent yet
Unset == -1              \* last_recv_pong_ms_ = -1

Eof == <<Mark("eof", 0)>>

(* What is written, in units, without TLS.                                 *)
Cut(w) == [i \in DOMAIN w |-> <<w[i]>>]

(* TcpClient (tcp is "on" while is_connect_), SslClient, HttpClient with   *)
(* its response, and WebSocketClient; opens and closes count its           *)
(* callbacks, got and out are what it received and writes.                 *)
TcpClient == [tcp |-> "idle", out |-> <<>>]
SslClient == [ssl |-> 0, bio |-> <<>>]
HttpClient == [header_ready_ |-> FALSE, data_ |-> <<>>, refused |-> FALSE, abort |-> FALSE]
Client == WsBase @@ TcpClient @@ SslClient @@ HttpClient @@
  [http_ready_ |-> FALSE, ping |-> Never, pong |-> Unset, dropped |-> FALSE,
   adrift |-> FALSE, got |-> <<>>, opens |-> 0, closes |-> 0]

(* TcpSession, SslServer (hs: OpenSSL has finished the handshake; held:    *)
(* its last flight is in bio_out_) and WebSocketSession after Init (up: it *)
(* exists; fail: it wrote where it must not).                              *)
TcpSession == [open |-> TRUE, out |-> <<>>]
SslServer == [ssl |-> 0, hs |-> FALSE, held |-> FALSE, bio |-> <<>>]
Session == [WsBase EXCEPT !.is_connected_ = TRUE] @@ TcpSession @@ SslServer @@
  [up |-> TRUE, http_request_ready_ |-> FALSE, http_recv_buffer_ |-> <<>>, cb_ |-> FALSE,
   ping |-> Never, pong |-> 0, got |-> <<>>, fail |-> "no"]

NoSession == [Session EXCEPT !.up = FALSE, !.open = FALSE, !.is_connected_ = FALSE]

Init ==
  /\ who \in {"own", "client", "server"}
  /\ tls \in (IF who = "own" THEN TlsModes ELSE {FALSE})
  /\ path_ok \in (IF tls \/ who = "server" THEN {TRUE} ELSE BOOLEAN)
  /\ link = "up" /\ c = Client /\ s = NoSession /\ c2s = <<>> /\ s2c = <<>>
  /\ due = {} /\ sweep = 0 /\ log = <<>>

OwnClient == who # "client"
OwnServer == who # "server"

-----------------------------------------------------------------------------
(* The client                                                              *)

SslClientWrite(x, w) == [x EXCEPT !.out = Append(@, w)]

(* TcpClient::Send.                                                        *)
ClientSend(x, w) == IF tls THEN SslClientWrite(x, w) ELSE [x EXCEPT !.out = @ \o Cut(w)]

OnClose(x) == [x EXCEPT !.closes = IF @ < 2 THEN @ + 1 ELSE @]

(* HttpClient::OnConnect: the request, whose id tells a path the server    *)
(* has no handler for.                                                     *)
HttpOnConnect(x) ==
  ClientSend(x, <<Mark("q1", 0), Mark("q2", IF path_ok THEN 1 ELSE 0)>>)

ClientData(x, item, op) == [x EXCEPT !.got = Append(@, item @@ [op |-> op])]

ClientPong(x, item) == ClientSend(x, WsFrame("pong", item))

ClientPonged(x) == [x EXCEPT !.pong = 0]

ClientClose_LeavesTcp(x) ==
  IF x.close_ THEN x
  ELSE [OnClose(ClientSend(x, WsFrame("close", CloseItem)))
          EXCEPT !.close_ = TRUE, !.is_connected_ = FALSE]

(* WebSocketClient::HandleWsClose; whether the code is echoed or refused,  *)
(* a close frame is sent.                                                  *)
ClientClose(x) ==
  IF x.close_ THEN x
  ELSE [OnClose(ClientSend(x, WsFrame("close", CloseItem)))
          EXCEPT !.close_ = TRUE, !.is_connected_ = FALSE, !.tcp = "closed"]

ClientFrame(x, h, p) == OneFrame(x, h, p, ClientData, ClientClose, ClientPong, ClientPonged)

InFrame(d) == d # <<>> /\ Last(d).k # "p"

HandleHttpRespone_StaysHttp(x) ==
  IF x.refused THEN OnClose([x EXCEPT !.is_connected_ = FALSE])
  ELSE [x EXCEPT !.opens = @ + 1, !.is_connected_ = TRUE, !.data_ = <<>>]

(* HandleHttpRespone: what came after the response in the same read is     *)
(* dropped.  A client that dropped half a frame has lost its place among   *)
(* the frames; what it then makes of them is not followed.                 *)
HandleHttpRespone(x) ==
  IF x.refused THEN OnClose([x EXCEPT !.is_connected_ = FALSE])
  ELSE [x EXCEPT !.opens = @ + 1, !.http_ready_ = TRUE, !.is_connected_ = TRUE,
                 !.dropped = x.data_ # <<>>, !.adrift = InFrame(x.data_), !.data_ = <<>>]

(* The response header ends with piece r2.  What stands before it is read  *)
(* as part of the status line: luck decides whether that still parses (ok),*)
(* gives another status (bad) or fails an assertion (abort).               *)
HeaderEnd(d) == {i \in DOMAIN d : d[i].k = "r2"}

StatusLine(d, luck) ==
  IF \E i \in DOMAIN d : d[i].k = "bad" THEN "bad"
  ELSE IF d[1].k = "r1" THEN "ok" ELSE luck

(* HttpClient::OnRead and WebSocketClient::OnHttpRead.                     *)
HttpRead(x, pieces, luck) ==
  LET d    == x.data_ \o pieces
      ends == HeaderEnd(d)
      e    == CHOOSE i \in ends : TRUE
      y    == [x EXCEPT !.data_ = SubSeq(d, e + 1, Len(d)), !.header_ready_ = TRUE,
                        !.refused = StatusLine(SubSeq(d, 1, e), luck) = "bad",
                        !.abort = StatusLine(SubSeq(d, 1, e), luck) = "abort"]
  IN  IF x.adrift THEN x
      ELSE IF x.http_ready_ THEN HandleFrame(x, pieces, ClientFrame)
      ELSE IF x.header_ready_ THEN HandleHttpRespone([x EXCEPT !.data_ = d])
      ELSE IF ends = {} THEN [x EXCEPT !.data_ = d]
      ELSE IF y.abort THEN y ELSE HandleHttpRespone(y)

HasKinds(u, kinds) == \A k \in kinds : \E i \in DOMAIN u : u[i][1].k = k

(* Flights of the TLS handshake have two parts.                            *)
Flight(k1, k2) == <<<<Mark(k1, 0)>>, <<Mark(k2, 0)>>>>

ClientHello(x) == [x EXCEPT !.ssl = 1, !.out = @ \o Flight("CH1", "CH2")]

RecvServerHello(x, bio) ==
  IF HasKinds(bio, {"SH1", "SH2"})
  THEN [x EXCEPT !.ssl = 2, !.bio = <<>>, !.out = @ \o Flight("CK1", "CK2")]
  ELSE [x EXCEPT !.bio = bio]

(* Records behind the server's last flight stay in the BIO.                *)
HandleSessionTicket(x, bio) ==
  IF HasKinds(bio, {"SF1", "SF2"})
  THEN HttpOnConnect([x EXCEPT !.ssl = 3,
                        !.bio = SelectSeq(bio, LAMBDA u : u[1].k \notin {"SF1", "SF2"})])
  ELSE [x EXCEPT !.bio = bio]

(* HandleSslDataRecv of SslClient reads all there is.                      *)
SslClientRead(x, bio, luck) ==
  FoldLeft(LAMBDA z, u : IF z.abort THEN z ELSE HttpRead(z, u, luck),
           [x EXCEPT !.bio = <<>>], bio)

(* TcpClient::OnRead.                                                      *)
ClientOnRead(x, units, luck) ==
  LET bio == x.bio \o units IN
  CASE ~tls      -> HttpRead(x, FlattenSeq(units), luck)
    [] x.ssl = 1 -> RecvServerHello(x, bio)
    [] x.ssl = 2 -> HandleSessionTicket(x, bio)
    [] OTHER     -> SslClientRead(x, bio, luck)

(* TcpClient::OnConnect with success.                                      *)
ClientOnConnect(x) ==
  LET y == [x EXCEPT !.tcp = "on"] IN IF tls THEN ClientHello(y) ELSE HttpOnConnect(y)

(* TcpClient::OnRead with an error or the end: libuv stops reading.        *)
ClientLost(x) == OnClose([x EXCEPT !.is_connected_ = FALSE, !.tcp = "eof"])

ClientOnTimer_Silent(x) ==
  IF ~x.is_connected_ THEN x
  ELSE IF x.ping > PingGap
       THEN [ClientSend(x, WsFrame("ping", PingItem)) EXCEPT !.ping = 0] ELSE x

(* WebSocketClient::OnTimer.                                               *)
ClientOnTimer(x) ==
  IF ~x.is_connected_ THEN x
  ELSE LET y == IF x.ping > PingGap
                THEN [ClientSend(x, WsFrame("ping", PingItem)) EXCEPT !.ping = 0] ELSE x
       IN  IF y.pong = Unset THEN [y EXCEPT !.pong = 0]
           ELSE IF y.pong > PongTimeout
           THEN OnClose([y EXCEPT !.is_connected_ = FALSE, !.tcp = "closed"]) ELSE y

-----------------------------------------------------------------------------
(* The server                                                              *)

(* uv_write on a handle that was closed throws or, once the handle is      *)
(* freed, is undefined.                                                    *)
UvWrite(x, units) ==
  IF x.open THEN [x EXCEPT !.out = @ \o units] ELSE [x EXCEPT !.fail = "closed"]

(* SslWrite of SslServer: ssl_ is null before the first read, and while    *)
(* the handshake is under way SSL_write fails and is only logged.          *)
SslServerWrite(x, w) ==
  IF x.ssl = 0 THEN [x EXCEPT !.fail = "null"]
  ELSE IF ~x.hs THEN x
  ELSE UvWrite([x EXCEPT !.held = FALSE],
               (IF x.held THEN Flight("SF1", "SF2") ELSE <<>>) \o <<w>>)

(* TcpSession::AsyncWrite.                                                 *)
AsyncWrite(x, w) ==
  IF x.fail # "no" THEN x
  ELSE IF tls THEN SslServerWrite(x, w) ELSE UvWrite(x, Cut(w))

(* WebSocketSession::SendWsFrame writes the header, the masking key and    *)
(* the payload apart; WebSocketClient::SendWsFrame writes them as one.     *)
SendWsFrame(x, f) ==
  AsyncWrite(AsyncWrite(AsyncWrite(x, <<f[1]>>), <<Mark("m", 0)>>), <<f[2]>>)

(* TcpSession::Close.                                                      *)
TcpClose(x) ==
  IF x.open THEN [x EXCEPT !.open = FALSE, !.out = Append(@, Eof)] ELSE x

(* The application of ws_server_demo sends back what it gets.              *)
Echo(x, item, op) ==
  SendWsFrame([x EXCEPT !.got = Append(@, item @@ [op |-> op])], WsFrame(op, item))

HandleWsData(x, item, op) == IF ~x.cb_ \/ x.fail # "no" THEN x ELSE Echo(x, item, op)

ServerPong(x, item) == SendWsFrame(x, WsFrame("pong", item))

ServerPonged(x) == [x EXCEPT !.pong = 0]

HandleWsClose_Unmarked(x) ==
  IF x.close_ \/ x.fail # "no" THEN x
  ELSE TcpClose(SendWsFrame(x, WsFrame("close", CloseItem)))

(* WebSocketSession::HandleWsClose leaves is_connected_ as it is.          *)
HandleWsClose(x) ==
  IF x.close_ \/ x.fail # "no" THEN x
  ELSE TcpClose([SendWsFrame(x, WsFrame("close", CloseItem)) EXCEPT !.close_ = TRUE])

ServerFrame(x, h, p) ==
  IF x.fail # "no" THEN x
  ELSE OneFrame(x, h, p, HandleWsData, HandleWsClose, ServerPong, ServerPonged)

(* OnHandleHttpRequest and SendHttpResponse.  A request without a handler  *)
(* throws: no answer, and later bytes are taken for frames.  The bytes     *)
(* behind the request are dropped.                                         *)
HttpRequest(x, pieces) ==
  LET b == x.http_recv_buffer_ \o pieces
      q == {i \in DOMAIN b : b[i].k = "q2"}
      y == [x EXCEPT !.http_request_ready_ = TRUE]
  IN  IF q = {} THEN [x EXCEPT !.http_recv_buffer_ = b]
      ELSE IF b[CHOOSE i \in q : TRUE].id = 0
      THEN [y EXCEPT !.is_connected_ = FALSE, !.http_recv_buffer_ = b]
      ELSE AsyncWrite([y EXCEPT !.cb_ = TRUE, !.http_recv_buffer_ = <<>>],
                      <<Mark("r1", 0), Mark("r2", 0)>>)

SessionOnRead_Afresh(x, pieces) ==
  IF x.http_request_ready_
  THEN HandleFrame([x EXCEPT !.frame_ = <<>>], pieces, ServerFrame)
  ELSE HttpRequest(x, pieces)

(* WebSocketSession::OnRead.                                               *)
SessionOnRead(x, pieces) ==
  IF x.http_request_ready_ THEN HandleFrame(x, pieces, ServerFrame)
  ELSE HttpRequest(x, pieces)

SslServerRead_Drops(x, units) ==
  LET bio == x.bio \o units IN
  IF x.hs THEN SessionOnRead(x, Head(bio))
  ELSE IF HasKinds(bio, {"CK2"}) THEN [x EXCEPT !.bio = <<>>, !.hs = TRUE, !.held = TRUE]
  ELSE [x EXCEPT !.bio = bio]

(* HandleSslDataRecv of SslServer: one SSL_read for each read, so records  *)
(* that came together wait for the next read.  It also completes a         *)
(* handshake that was cut, whose last flight then waits for a write.       *)
SslServerRead(x, units) ==
  LET bio == x.bio \o units IN
  IF x.hs THEN SessionOnRead([x EXCEPT !.bio = Tail(bio)], Head(bio))
  ELSE IF HasKinds(bio, {"CK2"}) THEN [x EXCEPT !.bio = <<>>, !.hs = TRUE, !.held = TRUE]
  ELSE [x EXCEPT !.bio = bio]

(* A ClientHello is taken in one read only; else TcpSession closes.        *)
HandleTlsHello(x, units) ==
  IF HasKinds(units, {"CH1", "CH2"})
  THEN [x EXCEPT !.ssl = 2, !.out = @ \o Flight("SH1", "SH2")]
  ELSE TcpClose(x)

(* Any read is taken for the client's whole flight.                        *)
HandleKeyExchange(x, units) ==
  IF HasKinds(units, {"CK1", "CK2"})
  THEN [x EXCEPT !.ssl = 4, !.hs = TRUE, !.out = @ \o Flight("SF1", "SF2")]
  ELSE [x EXCEPT !.ssl = 4, !.bio = units]

(* A key or certificate that cannot be loaded closes the connection as a   *)
(* cut ClientHello does; it is taken to load.                              *)
SslInit(x) == [x EXCEPT !.ssl = 1]

(* SslServer::Handshake.                                                   *)
ServerHandshake(x, units) ==
  IF x.ssl = 0 THEN HandleTlsHello(SslInit(x), units) ELSE HandleKeyExchange(x, units)

(* TcpSession::OnRead.                                                     *)
ServerOnRead(x, units) ==
  IF ~tls THEN SessionOnRead(x, FlattenSeq(units))
  ELSE IF x.ssl < 4 THEN ServerHandshake(x, units)
  ELSE SslServerRead(x, units)

(* WebSocketSession::OnTimer: pings from the first timer on, whether the   *)
(* request has come or not and whether the session was closed or not.      *)
SessionOnTimer(x) ==
  IF x.is_connected_ /\ x.ping > PingGap
  THEN SendWsFrame([x EXCEPT !.ping = 0], WsFrame("ping", PingItem)) ELSE x

SweepSession_OnlyConnected(x) ==
  IF x.up /\ x.is_connected_ /\ x.pong > PongTimeout
  THEN [TcpClose(x) EXCEPT !.up = FALSE] ELSE x

(* WebSocketServer::OnTimer, which destroys the session.                   *)
SweepSession(x) ==
  IF x.up /\ x.pong > PongTimeout THEN [TcpClose(x) EXCEPT !.up = FALSE] ELSE x

-----------------------------------------------------------------------------
(* Both sides and the link                                                 *)

CAlive == OwnClient /\ ~c.abort
SAlive == OwnServer /\ s.fail = "no"

ClientTakes == c.tcp \in {"syn", "on"} /\ ~c.abort

(* What a handler has written goes out, to a side that still reads; a      *)
(* process that failed ends, which closes its connection.                  *)
ClientDoes(x) ==
  /\ c' = [x EXCEPT !.out = <<>>]
  /\ c2s' = IF link = "up" /\ s.open THEN c2s \o x.out ELSE c2s

ServerDoes(x) ==
  /\ s' = [x EXCEPT !.out = <<>>, !.open = @ /\ x.fail = "no"]
  /\ s2c' = IF link # "up" \/ ~ClientTakes THEN s2c
            ELSE s2c \o x.out \o (IF x.fail # "no" /\ x.open THEN <<Eof>> ELSE <<>>)

Rest == UNCHANGED <<tls, who, path_ok>>

(* TcpServer::OnConnection, WebSocketServer::OnAccept, Init.               *)
Accept ==
  /\ c.tcp = "idle" /\ s = NoSession /\ link = "up"
  /\ c' = [c EXCEPT !.tcp = "syn"] /\ s' = Session
  /\ Rest /\ UNCHANGED <<link, c2s, s2c, due, sweep, log>>

(* The connection is made at the client's end.                             *)
Connected ==
  /\ c.tcp = "syn" /\ link = "up" /\ OwnClient
  /\ ClientDoes(ClientOnConnect(c))
  /\ Rest /\ UNCHANGED <<link, s, s2c, due, sweep, log>>

ConnectFails_Silent ==
  /\ c.tcp = "idle" /\ OwnClient
  /\ c' = [c EXCEPT !.tcp = "failed"]
  /\ Rest /\ UNCHANGED <<link, s, c2s, s2c, due, sweep, log>>

(* uv_tcp_connect fails: with TLS OnConnect goes on to ClientHello, whose  *)
(* write fails with the socket, and nobody is told.                        *)
ConnectFails ==
  /\ c.tcp = "idle" /\ OwnClient
  /\ c' = (IF tls THEN [c EXCEPT !.tcp = "failed"] ELSE OnClose([c EXCEPT !.tcp = "failed"]))
  /\ Rest /\ UNCHANGED <<link, s, c2s, s2c, due, sweep, log>>

Batch(q, n) == SubSeq(q, 1, n)
Behind(q, n) == SubSeq(q, n + 1, Len(q))
Readable(q, n) == n =< Len(q) /\ \A i \in 1..n : q[i] # Eof

ClientRead(n, luck) ==
  /\ CAlive /\ c.tcp = "on" /\ Readable(s2c, n)
  /\ ClientDoes(ClientOnRead(c, Batch(s2c, n), luck))
  /\ s2c' = Behind(s2c, n)
  /\ Rest /\ UNCHANGED <<link, s, due, sweep, log>>

ClientEof ==
  /\ CAlive /\ c.tcp = "on" /\ s2c # <<>> /\ Head(s2c) = Eof
  /\ c' = ClientLost(c) /\ s2c' = <<>>
  /\ Rest /\ UNCHANGED <<link, s, c2s, due, sweep, log>>

ServerRead(n) ==
  /\ SAlive /\ s.open /\ Readable(c2s, n)
  /\ n > 1 => Len(s.bio) + n =< MaxBacklog + 1
  /\ ServerDoes(ServerOnRead(s, Batch(c2s, n)))
  /\ c2s' = Behind(c2s, n)
  /\ Rest /\ UNCHANGED <<link, c, due, sweep, log>>

(* OnRead or OnWrite with an error only marks the session.                 *)
ServerLost ==
  /\ SAlive /\ s.open /\ c2s # <<>> /\ Head(c2s) = Eof
  /\ s' = [s EXCEPT !.is_connected_ = FALSE] /\ c2s' = <<>>
  /\ Rest /\ UNCHANGED <<link, c, s2c, due, sweep, log>>

(* The application sends while it holds the connection for open.           *)
AppSends ==
  LET i  == Len(log) + 1
      op == IF i % 2 = 1 THEN "text" ELSE "bin"
      item == [id |-> i, len |-> IF op = "text" THEN TextLen ELSE BinLen] IN
  /\ who = "own" /\ CAlive /\ c.opens > 0 /\ c.closes = 0 /\ i =< MaxMsgs
  /\ ClientDoes(ClientSend(c, WsFrame(op, item)))
  /\ log' = Append(log, item @@ [fin |-> TRUE, op |-> op])
  /\ Rest /\ UNCHANGED <<link, s, s2c, due, sweep>>

ClientTimer ==
  /\ "c" \in due /\ due' = due \ {"c"}
  /\ IF CAlive THEN ClientDoes(ClientOnTimer(c)) ELSE UNCHANGED <<c, c2s>>
  /\ Rest /\ UNCHANGED <<link, s, s2c, sweep, log>>

SessionTimer ==
  /\ "s" \in due /\ "c" \notin due /\ due' = due \ {"s"}
  /\ IF SAlive /\ s.up THEN ServerDoes(SessionOnTimer(s)) ELSE UNCHANGED <<s, s2c>>
  /\ Rest /\ UNCHANGED <<link, c, c2s, sweep, log>>

SweepTimer ==
  /\ due = {"w"} /\ due' = due \ {"w"}
  /\ IF SAlive THEN ServerDoes(SweepSession(s)) ELSE UNCHANGED <<s, s2c>>
  /\ Rest /\ UNCHANGED <<link, c, c2s, sweep, log>>

Older(age, top) == IF age = Unset THEN age ELSE IF age < top THEN age + 1 ELSE age

Aged(x) == [x EXCEPT !.ping = Older(@, Never), !.pong = Older(@, PongTimeout + 1)]

Load == (IF s.open THEN Len(c2s) ELSE 0) + (IF ClientTakes THEN Len(s2c) ELSE 0)

(* Time goes on; the timers, which are shorter than a unit of it, run in a *)
(* fixed order (reads come between them).                                  *)
Tick ==
  /\ due = {} /\ Load =< MaxQueue
  /\ c' = IF c.is_connected_ THEN Aged(c) ELSE c
  /\ s' = IF s.up /\ SAlive THEN Aged(s) ELSE s
  /\ sweep' = IF sweep + 1 = SweepGap THEN 0 ELSE sweep + 1
  /\ due' = {"c", "s"} \cup (IF sweep + 1 = SweepGap THEN {"w"} ELSE {})
  /\ Rest /\ UNCHANGED <<link, c2s, s2c, log>>

(* The link fails, with or without anyone hearing of it.                   *)
LinkFails(l) ==
  /\ who = "own" /\ link = "up" /\ s.up /\ c.tcp # "syn" /\ link' = l
  /\ c2s' = (IF l = "reset" /\ s.open THEN <<Eof>> ELSE <<>>)
  /\ s2c' = (IF l = "reset" /\ ClientTakes THEN <<Eof>> ELSE <<>>)
  /\ Rest /\ UNCHANGED <<c, s, due, sweep, log>>

-----------------------------------------------------------------------------
(* Another implementation.  Of its side only the flags that it has sent or *)
(* seen the response and whether its connection is open are used.          *)

PeerConnects ==
  /\ who = "client" /\ c.tcp = "syn" /\ link = "up"
  /\ c' = [c EXCEPT !.tcp = "on"]
  /\ c2s' = c2s \o Cut(<<Mark("q1", 0), Mark("q2", IF path_ok THEN 1 ELSE 0)>>)
  /\ Rest /\ UNCHANGED <<link, s, s2c, due, sweep, log>>

DataFrames(l) == SelectSeq(l, LAMBDA f : f.op \in {"text", "bin", "cont"})

InFragments == DataFrames(log) # <<>> /\ ~Last(DataFrames(log)).fin

(* It answers pings once it is past the response and not among fragments,  *)
(* and a close by ending the connection.                                   *)
Answers(q) ==
  FlattenSeq([i \in DOMAIN q |->
                IF q[i][1].op = "ping" /\ ~InFragments
                THEN Cut(WsFrame("pong", PingItem)) ELSE <<>>])

PeerClientReads ==
  /\ who = "client" /\ c.tcp = "on" /\ s2c # <<>> /\ s2c' = <<>>
  /\ c' = [c EXCEPT !.http_ready_ = @ \/ HasKinds(s2c, {"r2"}),
                    !.tcp = IF HasKinds(s2c, {"eof"}) THEN "eof" ELSE @]
  /\ c2s' = IF s.open /\ link = "up" /\ c.http_ready_ THEN c2s \o Answers(s2c) ELSE c2s
  /\ Rest /\ UNCHANGED <<link, s, due, sweep, log>>

Closing(q) == \E i \in DOMAIN q : q[i][1].op = "close" \/ q[i] = Eof

PeerServerReads(status) ==
  LET asked == HasKinds(c2s, {"q2"}) IN
  /\ who = "server" /\ s.open /\ c2s # <<>> /\ c2s' = <<>>
  /\ s' = [s EXCEPT !.http_request_ready_ = @ \/ (asked /\ status = "ok"),
                    !.open = ~Closing(c2s)]
  /\ s2c' = IF link # "up" \/ c.tcp # "on" THEN s2c
            ELSE s2c \o Answers(c2s) \o
                 (IF ~asked THEN <<>>
                  ELSE Cut(IF status = "ok" THEN <<Mark("r1", 0), Mark("r2", 0)>>
                             ELSE <<Mark("r1", 0), Mark("bad", 0), Mark("r2", 0)>>)) \o
                 (IF Closing(c2s) THEN <<Eof>> ELSE <<>>)
  /\ Rest /\ UNCHANGED <<link, c, due, sweep, log>>

PeerSends(fin, op) ==
  LET item == IF op = "ping" THEN PingItem ELSE IF op = "close" THEN CloseItem
              ELSE [id |-> Len(log) + 1, len |-> 1]
      w    == Cut(PeerFrame(fin, op, item))
  IN
  /\ Len(log) < MaxPeer /\ link = "up" /\ \A i \in DOMAIN log : log[i].op # "close"
  /\ op \in {"ping", "close"} => fin
  /\ op \in {"text", "bin"} => ~InFragments
  /\ op = "cont" => InFragments
  /\ log' = Append(log, item @@ [fin |-> fin, op |-> op])
  /\ \/ /\ who = "client" /\ c.tcp = "on" /\ c.http_ready_ /\ s.open
        /\ c2s' = c2s \o w /\ UNCHANGED s2c
     \/ /\ who = "server" /\ s.open /\ s.http_request_ready_ /\ c.tcp = "on"
        /\ s2c' = s2c \o w /\ UNCHANGED c2s
  /\ Rest /\ UNCHANGED <<link, c, s, due, sweep>>

-----------------------------------------------------------------------------
ClientReads == \E n \in 1..MaxRead : \E luck \in {"ok", "bad", "abort"} : ClientRead(n, luck)
ServerReads == \E n \in 1..MaxRead : ServerRead(n)

Next ==
  \/ Accept \/ Connected \/ ConnectFails
  \/ ClientReads \/ ClientEof \/ ServerReads \/ ServerLost
  \/ AppSends
  \/ ClientTimer \/ SessionTimer \/ SweepTimer \/ Tick
  \/ \E l \in {"reset", "dead"} : LinkFails(l)
  \/ PeerConnects \/ PeerClientReads
  \/ \E status \in {"ok", "bad"} : PeerServerReads(status)
  \/ \E fin \in BOOLEAN, op \in {"text", "bin", "cont", "ping", "close"} : PeerSends(fin, op)

(* The event loops go round, time passes, TCP that is up delivers.  Weak   *)
(* fairness of the reads of each side, of connecting, and of the clock     *)
(* with the timers, each with its guard and its mark written out.          *)
Fairness ==
  /\ \/ []<>~(c.tcp = "on" /\ ~c.abort /\ s2c # <<>>)
     \/ []<><<Len(s2c') < Len(s2c)>>_vars
  /\ \/ []<>~(s.open /\ s.fail = "no" /\ c2s # <<>>)
     \/ []<><<Len(c2s') < Len(c2s)>>_vars
  /\ []<>(c.tcp \notin {"idle", "syn"})
  /\ \/ []<>(due = {} /\ Load > MaxQueue)
     \/ []<><<due' # due>>_vars

Spec == Init /\ [][Next]_vars /\ Fairness

-----------------------------------------------------------------------------
Item == [id : Nat, len : Nat, op : {"text", "bin"}]

(* Types of the two sides and of the history.                              *)
WebTypeOK ==
  /\ tls \in BOOLEAN /\ link \in {"up", "reset", "dead"} /\ due \subseteq {"c", "s", "w"}
  /\ c.tcp \in {"idle", "syn", "on", "closed", "eof", "failed"} /\ c.ssl \in 0..3
  /\ s.ssl \in {0, 1, 2, 4} /\ s.fail \in {"no", "null", "closed"}
  /\ c.opens \in 0..1 /\ c.closes \in 0..2
  /\ c.pong \in Unset..(PongTimeout + 1) /\ s.pong \in 0..(PongTimeout + 1)
  /\ \A g \in {c.got, s.got} : \A i \in DOMAIN g : g[i] \in Item
  /\ c.out = <<>> /\ s.out = <<>>

(* What HandleFrame makes of frames l: a payload is handed on when the     *)
(* next frame with fin is one of data, each fragment as a message of its   *)
(* own; a control frame among fragments takes those before it away.        *)
Deliveries(l) ==
  LET End(j)   == CHOOSE k \in j..Len(l) : l[k].fin /\ \A i \in j..(k - 1) : ~l[i].fin
      Ended(j) == \E k \in j..Len(l) : l[k].fin
      Op(e)    == Last(SelectSeq(SubSeq(l, 1, e), LAMBDA f : f.op \in {"text", "bin"})).op
      js == SelectSeq([j \in DOMAIN l |-> j],
                      LAMBDA j : /\ Ended(j) /\ l[End(j)].op \in {"text", "bin", "cont"})
  IN  [i \in DOMAIN js |-> [id |-> l[js[i]].id, len |-> l[js[i]].len, op |-> Op(End(js[i]))]]

Receiver == IF who = "server" THEN c.got ELSE s.got

(* Whatever TCP and TLS do to the bytes, the receiver's application gets   *)
(* exactly those payloads, in order, once, with their length and type; and *)
(* the echoes reach the client in the same order.                          *)
ReceivedAsSent ==
  /\ c.dropped \/ IsPrefix(Receiver, Deliveries(log))
  /\ who = "own" => c.dropped \/ IsPrefix(c.got, s.got)

(* When nothing is under way nothing is missing, unless TLS records that   *)
(* arrived together still wait in the server.                              *)
NothingMissing ==
  \/ who # "server" /\ (~s.open \/ c2s # <<>> \/ link # "up" \/ s.bio # <<>>)
  \/ who = "server" /\ (c.tcp # "on" \/ s2c # <<>> \/ link # "up" \/ c.dropped)
  \/ Receiver = Deliveries(log)

(* The application hears of the end of a connection once, except that a    *)
(* refused upgrade does not end the TCP connection and is told again with  *)
(* all that follows on it.                                                 *)
ClosedOnce == c.closes =< 1 \/ c.refused

(* The server writes to a closed handle only after a close frame, which    *)
(* does not stop its pings, and to a TLS state that is not there only      *)
(* before the ClientHello.                                                 *)
WritesWhereOpen == s.fail # "no" => s.close_ \/ (tls /\ s.ssl = 0)

(* What was sent arrives unless the connection ends, though records wait   *)
(* in the server's TLS until something else is read.                       *)
MessagesArrive ==
  (who = "own" /\ Len(log) > Len(s.got)) ~>
    (Len(s.got) = Len(log) \/ c.closes > 0 \/ ~s.open \/ link # "up")

(* With TLS a connection that cannot be made is told to nobody.            *)
Untold == tls /\ c.tcp = "failed"

(* Every attempt to connect, one that fails at once included, ends with    *)
(* OnConnection or OnClose, except over a link that has gone silent, and   *)
(* except that with TLS nobody hears that the connection was not made.     *)
AttemptEnds ==
  (c.tcp \in {"idle", "syn"} /\ who = "own") ~>
    (c.opens + c.closes > 0 \/ c.abort \/ link = "dead" \/ Untold)

(* Both sides notice a link that has failed: the client tells its          *)
(* application, the server lets go of the session.                         *)
DeadLinkNoticed ==
  /\ (link # "up" /\ OwnClient /\ c.is_connected_) ~> (c.closes > 0)
  /\ (link # "up" /\ OwnServer /\ s.up) ~> (~s.up \/ s.fail # "no")

(* The receiver gets what was sent, no more, and no less once nothing is   *)
(* under way.                                                              *)
Delivered == ReceivedAsSent /\ NothingMissing

(* The end of a connection is told once and nothing is written behind it,  *)
(* except in the cases stated in the parts.                                *)
EndsInOrder == WebTypeOK /\ ClosedOnce /\ WritesWhereOpen

(* A connection makes progress: messages arrive, an attempt to connect     *)
(* ends, and the failure of a link is noticed on both sides, except in the *)
(* cases stated in the parts.                                              *)
ConnectionProgress == MessagesArrive /\ AttemptEnds /\ DeadLinkNoticed
=============================================================================
