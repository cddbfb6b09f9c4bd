-------------------------- MODULE RtmpClientProofs --------------------------
(***************************************************************************)
(* Client, server and reporter of an RTMP session stay in step, for every  *)
(* number of media messages, wherever TCP cuts the stream.                 *)
(*                                                                         *)
(* The argument: what the client has sent is a function of its phase       *)
(* (SentRank), what the server has handled is a function of its phase      *)
(* (DoneRank), and the requests between the two are under way, in order    *)
(* (UnderWay).  The answers under way are those of handled                 *)
(* requests the client has not heard of, that to connect first             *)
(* (Answered); so no onStatus meets a client that has not sent             *)
(* publish or play, and no answer to connect a client behind createStream. *)
(***************************************************************************)
EXTENDS RtmpClient, TLAPS, SequenceTheorems

Requests == {"c2", "connect", "createStream", "publish/play"}

ToServer ==
  {Request("c0c1"), Media, Control("chunk_size")} \cup {Request(c) : c \in Requests}

ConnectResult == Command("_result", "connect", "Connect.Success")
CreateResult == Command("_result", "createStream", "none")
BWDone == Command("onBWDone", "none", "none")
Statuses ==
  {Command("onStatus", "publish/play", code) :
     code \in {"Publish.Start", "Play.Reset", "Play.Start", "Data.Start",
               "Play.PublishNotify"}}
Answers == {ConnectResult, CreateResult, BWDone} \cup Statuses
Controls ==
  {Control(t) : t \in {"window_ack_size", "peer_bandwidth", "chunk_size", "user_control"}}
ToClient == {[kind |-> "s0s1s2"], Media} \cup Answers \cup Controls

(* The place of a request in the dialogue; 1 is before all of them.        *)
Rank(m) ==
  CASE m = Request("c2") -> 2
    [] m = Request("connect") -> 3
    [] m = Request("createStream") -> 4
    [] m = Request("publish/play") -> 5
    [] OTHER -> 1

SentRank ==
  CASE client_phase_ \in {"connect_resp", "create_stream"} -> 3
    [] client_phase_ \in {"create_stream_resp", "create_publish", "create_play"} -> 4
    [] client_phase_ \in {"playpublish_resp", "media_handle"} -> 5
    [] OTHER -> 1

DoneRank ==
  IF is_ready_ THEN 5
  ELSE CASE server_phase_ = "initial" -> 1
         [] server_phase_ = "connect" -> 2
         [] server_phase_ = "create_stream" -> 3
         [] OTHER -> 4

(* The requests behind done and up to sent are in q, in the order of the  *)
(* dialogue, before any media.                                             *)
UnderWay(q, done, sent) ==
  /\ done <= sent
  /\ \A i \in 1 .. Len(q) : Rank(q[i]) # 1 => Rank(q[i]) \in done + 1 .. sent
  /\ \A i, j \in 1 .. Len(q) :
       Rank(q[i]) # 1 /\ Rank(q[j]) # 1 /\ i < j => Rank(q[i]) < Rank(q[j])
  /\ \A r \in done + 1 .. sent : \E i \in 1 .. Len(q) : Rank(q[i]) = r
  /\ \A i \in 1 .. Len(q) : q[i] = Media =>
       sent = 5 /\ \A j \in i .. Len(q) : Rank(q[j]) = 1

(* The answers in q: a result of connect unless the client has read it, at *)
(* most one and before that of createStream, and a status only from a      *)
(* server that has handled publish or play.                                *)
Answered(q, done, read) ==
  /\ \A i \in 1 .. Len(q) : q[i] = ConnectResult => done >= 3 /\ ~read
  /\ \A i, j \in 1 .. Len(q) : q[i] = ConnectResult /\ q[j] = ConnectResult => i = j
  /\ \A i \in 1 .. Len(q) : q[i] = CreateResult => done >= 4
  /\ \A i, j \in 1 .. Len(q) : q[i] = ConnectResult /\ q[j] = CreateResult => i < j
  /\ \A i \in 1 .. Len(q) : q[i] \in Statuses => done = 5
  /\ done >= 3 <=> read \/ \E i \in 1 .. Len(q) : q[i] = ConnectResult

ConnectRead == "connect" \in heard

(* Where the client can be while it handles the messages of one read.      *)
InLoop ==
  whole > 0 =>
    /\ conn = "open"
    /\ \/ entry = "connect_resp" /\ client_phase_ \in {"connect_resp", "create_stream"}
       \/ /\ entry = "create_stream_resp"
          /\ client_phase_ \in {"create_stream_resp", "create_publish", "create_play"}
       \/ entry \in {"playpublish_resp", "media_handle"}
          /\ client_phase_ \in {"playpublish_resp", "media_handle"}

(* What the reporter has been told in each phase.                          *)
SendsInPhase ==
  /\ SentRank = 1 => reported.sends \in {<<>>, <<"SendC0C1">>}
  /\ SentRank = 3 => reported.sends = <<"SendC0C1", "RtmpConnectSend">>
  /\ SentRank = 4 => reported.sends = <<"SendC0C1", "RtmpConnectSend", "CreateStreamSend">>
  /\ SentRank = 5 =>
       reported.sends = <<"SendC0C1", "RtmpConnectSend", "CreateStreamSend",
                          "PlayPublishSend">>

AnswersInPhase ==
  /\ \A i \in 1 .. Len(reported.answers) :
       /\ reported.answers[i] = "RtmpConnectRecv" => SentRank >= 3
       /\ reported.answers[i] = "CreateStreamRecv" => SentRank >= 4
       /\ reported.answers[i] = "PlayPublishRecv" => client_phase_ = "media_handle"
  /\ \A i, j \in 1 .. Len(reported.answers) :
       reported.answers[i] = "PlayPublishRecv" /\ reported.answers[j] = "PlayPublishRecv"
         => i = j

Record ==
  [sends : Seq({"SendC0C1", "RtmpConnectSend", "CreateStreamSend", "PlayPublishSend"}),
   answers : Seq({"RtmpConnectRecv", "CreateStreamRecv", "PlayPublishRecv"}),
   others : SUBSET {"ChunkSize", "WindowSize", "BandWidth", "RecvS0S1S2", "close"}]

Reports ==
  /\ reported \in Record
  /\ SendsInPhase /\ AnswersInPhase
  /\ conn \in {"closed", "eof"} /\ client_phase_ # "initial" => "close" \in reported.others

(* Before the first request there is nothing under way.                    *)
Silent ==
  /\ reported.sends = <<>> => c2s = <<>> /\ s2c = <<>>
  /\ conn = "connecting" => client_phase_ = "initial"
  /\ client_phase_ = "initial" => reported.sends = <<>>
  /\ conn = "closed" => client_phase_ = "initial" \/ ~framing

(* Play leaves the server in the phase of createStream.                    *)
ServerReady ==
  /\ is_ready_ =>
       server_phase_ = IF publish_flag_ THEN "media_handle" ELSE "create_publish_play"
  /\ server_phase_ = "media_handle" => is_ready_

(* Bytes are thrown away behind createStream only.                         *)
LostBehind ==
  framing \/ client_phase_ \in {"create_stream_resp", "create_publish", "create_play",
                               "playpublish_resp", "media_handle"}

DialogueInv ==
  /\ RtmpTypeOK /\ c2s \in Seq(ToServer) /\ s2c \in Seq(ToClient)
  /\ UnderWay(c2s, DoneRank, SentRank)
  /\ framing => Answered(s2c, DoneRank, ConnectRead)
  /\ framing /\ client_phase_ \in {"create_stream", "create_publish", "create_play"} =>
       ConnectRead
  /\ InLoop /\ Reports /\ Silent /\ ServerReady /\ LostBehind

-----------------------------------------------------------------------------
(* The messages.                                                           *)

(* A request is known by its rank; everything else ranks 1.                *)
LEMMA Ranks ==
  /\ Rank(Request("c0c1")) = 1 /\ Rank(Media) = 1 /\ Rank(Control("chunk_size")) = 1
  /\ Rank(Request("c2")) = 2 /\ Rank(Request("connect")) = 3
  /\ Rank(Request("createStream")) = 4 /\ Rank(Request("publish/play")) = 5
  BY DEF Rank, Request, Media, Control

LEMMA RanksOfMessages ==
  ASSUME NEW m \in ToServer
  PROVE  /\ Rank(m) \in 1 .. 5
         /\ Rank(m) = 1 => m \in {Request("c0c1"), Media, Control("chunk_size")}
         /\ Rank(m) = 2 => m = Request("c2")
         /\ Rank(m) = 3 => m = Request("connect")
         /\ Rank(m) = 4 => m = Request("createStream")
         /\ Rank(m) = 5 => m = Request("publish/play")
  BY DEF ToServer, Requests, Rank, Request, Media, Control

LEMMA MessagesDiffer ==
  /\ Media # Request("c0c1") /\ Media # Control("chunk_size")
  /\ Request("c0c1") # Control("chunk_size")
  /\ \A c \in Requests \cup {"c0c1"} : Media # Request(c)
  BY DEF Request, Media, Control, Requests

LEMMA AnswersDiffer ==
  /\ ConnectResult # CreateResult /\ ConnectResult \notin Statuses
  /\ CreateResult \notin Statuses
  /\ BWDone \notin Statuses \cup {ConnectResult, CreateResult}
  /\ Media \notin Answers /\ [kind |-> "s0s1s2"] \notin Answers
  /\ \A t \in {"window_ack_size", "peer_bandwidth", "chunk_size", "user_control"} :
       Control(t) \notin Answers
  BY DEF ConnectResult, CreateResult, BWDone, Statuses, Answers, Media, Control, Command

-----------------------------------------------------------------------------
(* Sequences.                                                              *)

LEMMA Appended ==
  ASSUME NEW S, NEW q \in Seq(S), NEW m \in S
  PROVE  /\ Append(q, m) \in Seq(S) /\ Len(Append(q, m)) = Len(q) + 1
         /\ \A i \in 1 .. Len(q) : Append(q, m)[i] = q[i]
         /\ Append(q, m)[Len(q) + 1] = m
         /\ q \o <<m>> = Append(q, m)
  OBVIOUS

LEMMA Taken ==
  ASSUME NEW S, NEW q \in Seq(S), q # <<>>
  PROVE  /\ Tail(q) \in Seq(S) /\ Len(Tail(q)) = Len(q) - 1 /\ Len(q) \in Nat \ {0}
         /\ \A i \in 1 .. Len(q) - 1 : Tail(q)[i] = q[i + 1]
         /\ Head(q) = q[1] /\ q[1] \in S
  OBVIOUS

LEMMA ConcatAppend ==
  ASSUME NEW S, NEW q \in Seq(S), NEW r \in Seq(S), NEW m \in S
  PROVE  q \o Append(r, m) = Append(q \o r, m)
  OBVIOUS

-----------------------------------------------------------------------------
(* The client's sends and the server's steps.                              *)

LEMMA RequestSent ==
  ASSUME NEW q \in Seq(ToServer), NEW done \in 1 .. 5, NEW sent \in 1 .. 4,
         UnderWay(q, done, sent), NEW m \in ToServer, Rank(m) = sent + 1
  PROVE  UnderWay(Append(q, m), done, sent + 1)
<1> DEFINE a == Append(q, m)
<1>1. /\ Len(a) = Len(q) + 1 /\ Len(q) \in Nat /\ a[Len(q) + 1] = m
      /\ \A i \in 1 .. Len(q) : a[i] = q[i] /\ Rank(q[i]) \in 1 .. 5
  BY Appended, RanksOfMessages, ElementOfSeq
<1>2. m # Media
  BY Ranks
<1> HIDE DEF a
<1>3. done + 1 <= sent + 1
  BY DEF UnderWay
<1>4. \A i \in 1 .. Len(a) : Rank(a[i]) # 1 => Rank(a[i]) \in done + 1 .. sent + 1
  <2>1. SUFFICES ASSUME NEW i \in 1 .. Len(a), Rank(a[i]) # 1
                 PROVE  Rank(a[i]) \in done + 1 .. sent + 1
    OBVIOUS
  <2>2. CASE i \in 1 .. Len(q)
    <3>1. Rank(q[i]) # 1 /\ Rank(q[i]) \in done + 1 .. sent
      BY <1>1, <2>1, <2>2 DEF UnderWay
    <3> QED
      BY <1>1, <2>2, <3>1
  <2>3. CASE i = Len(q) + 1
    BY <1>1, <2>1, <2>3, <1>3
  <2> QED
    BY <1>1, <2>1, <2>2, <2>3
<1>5. \A i, j \in 1 .. Len(a) :
        Rank(a[i]) # 1 /\ Rank(a[j]) # 1 /\ i < j => Rank(a[i]) < Rank(a[j])
  <2>1. SUFFICES ASSUME NEW i \in 1 .. Len(a), NEW j \in 1 .. Len(a),
                        Rank(a[i]) # 1, Rank(a[j]) # 1, i < j
                 PROVE  Rank(a[i]) < Rank(a[j])
    OBVIOUS
  <2>2. i \in 1 .. Len(q) /\ a[i] = q[i]
    BY <1>1, <2>1
  <2>3. CASE j \in 1 .. Len(q)
    <3>1. a[j] = q[j]
      BY <1>1, <2>3
    <3> QED
      BY <2>1, <2>2, <2>3, <3>1 DEF UnderWay
  <2>4. CASE j = Len(q) + 1
    <3>1. Rank(q[i]) \in done + 1 .. sent
      BY <2>1, <2>2 DEF UnderWay
    <3> QED
      BY <1>1, <2>2, <2>4, <3>1
  <2> QED
    BY <1>1, <2>1, <2>3, <2>4
<1>6. \A r \in done + 1 .. sent + 1 : \E i \in 1 .. Len(a) : Rank(a[i]) = r
  BY SMTT(30), <1>1 DEF UnderWay
<1>7. \A i \in 1 .. Len(a) : a[i] # Media
  BY <1>1, <1>2 DEF UnderWay
<1> QED
  BY SMTT(30), <1>3, <1>4, <1>5, <1>6, <1>7 DEF UnderWay, a

LEMMA OtherSent ==
  ASSUME NEW q \in Seq(ToServer), NEW done \in 1 .. 5, NEW sent \in 1 .. 5,
         UnderWay(q, done, sent), NEW m \in ToServer, Rank(m) = 1, m = Media => sent = 5
  PROVE  UnderWay(Append(q, m), done, sent)
<1> DEFINE a == Append(q, m)
<1>1. /\ Len(a) = Len(q) + 1 /\ Len(q) \in Nat /\ a[Len(q) + 1] = m
      /\ \A i \in 1 .. Len(q) : a[i] = q[i] /\ Rank(q[i]) \in 1 .. 5
  BY Appended, RanksOfMessages, ElementOfSeq
<1> HIDE DEF a
<1>4. \A i \in 1 .. Len(a) : Rank(a[i]) # 1 => Rank(a[i]) \in done + 1 .. sent
  <2>1. SUFFICES ASSUME NEW i \in 1 .. Len(a), Rank(a[i]) # 1
                 PROVE  Rank(a[i]) \in done + 1 .. sent
    OBVIOUS
  <2>2. CASE i \in 1 .. Len(q)
    <3>1. Rank(q[i]) # 1 /\ Rank(q[i]) \in done + 1 .. sent
      BY <1>1, <2>1, <2>2 DEF UnderWay
    <3> QED
      BY <1>1, <2>2, <3>1
  <2>3. CASE i = Len(q) + 1
    BY <1>1, <2>1, <2>3
  <2> QED
    BY <1>1, <2>1, <2>2, <2>3
<1>5. \A i, j \in 1 .. Len(a) :
        Rank(a[i]) # 1 /\ Rank(a[j]) # 1 /\ i < j => Rank(a[i]) < Rank(a[j])
  <2>1. SUFFICES ASSUME NEW i \in 1 .. Len(a), NEW j \in 1 .. Len(a),
                        Rank(a[i]) # 1, Rank(a[j]) # 1, i < j
                 PROVE  Rank(a[i]) < Rank(a[j])
    OBVIOUS
  <2>2. i \in 1 .. Len(q) /\ a[i] = q[i]
    BY <1>1, <2>1
  <2>3. CASE j \in 1 .. Len(q)
    <3>1. a[j] = q[j]
      BY <1>1, <2>3
    <3> QED
      BY <2>1, <2>2, <2>3, <3>1 DEF UnderWay
  <2>4. CASE j = Len(q) + 1
    BY <1>1, <2>1, <2>4
  <2> QED
    BY <1>1, <2>1, <2>3, <2>4
<1>6. \A r \in done + 1 .. sent : \E i \in 1 .. Len(a) : Rank(a[i]) = r
  BY <1>1 DEF UnderWay
<1>7. \A i \in 1 .. Len(a) : a[i] = Media =>
        sent = 5 /\ \A j \in i .. Len(a) : Rank(a[j]) = 1
  BY <1>1 DEF UnderWay
<1> QED
  BY <1>4, <1>5, <1>6, <1>7 DEF UnderWay, a

(* The server meets the requests one by one.                               *)
LEMMA RequestHandled ==
  ASSUME NEW q \in Seq(ToServer), NEW done \in 1 .. 5, NEW sent \in 1 .. 5,
         UnderWay(q, done, sent), q # <<>>
  PROVE  /\ Rank(Head(q)) = 1 => UnderWay(Tail(q), done, sent)
         /\ Rank(Head(q)) # 1 =>
              /\ Rank(Head(q)) = done + 1
              /\ UnderWay(Tail(q), done + 1, sent)
         /\ Head(q) = Media => done = 5
<1> DEFINE a == Tail(q)
<1>1. /\ Len(a) = Len(q) - 1 /\ Len(q) \in Nat \ {0} /\ Head(q) = q[1]
      /\ \A i \in 1 .. Len(a) : a[i] = q[i + 1]
      /\ \A i \in 1 .. Len(q) : Rank(q[i]) \in 1 .. 5
  BY Taken, RanksOfMessages, ElementOfSeq
<1> HIDE DEF a
<1>2. ASSUME Rank(Head(q)) # 1 PROVE Rank(Head(q)) = done + 1
  <2>1. Rank(q[1]) \in done + 1 .. sent
    BY <1>1, <1>2 DEF UnderWay
  <2>2. PICK i \in 1 .. Len(q) : Rank(q[i]) = done + 1
    BY <2>1 DEF UnderWay
  <2> QED
    BY <1>1, <1>2, <2>1, <2>2 DEF UnderWay
<1>3. ASSUME Head(q) = Media PROVE done = 5
  <2>1. sent = 5 /\ \A j \in 1 .. Len(q) : Rank(q[j]) = 1
    BY <1>1, <1>3 DEF UnderWay
  <2> QED
    BY <1>1, <2>1 DEF UnderWay
<1>4. ASSUME NEW d \in {done, done + 1}, d = done <=> Rank(Head(q)) = 1
      PROVE  UnderWay(a, d, sent)
  <2>1. d <= sent
    BY <1>1, <1>2, <1>4 DEF UnderWay
  <2>2. \A i \in 1 .. Len(a) : Rank(a[i]) # 1 => Rank(a[i]) \in d + 1 .. sent
    <3> SUFFICES ASSUME NEW i \in 1 .. Len(a), Rank(a[i]) # 1
                 PROVE  Rank(a[i]) \in d + 1 .. sent
      OBVIOUS
    <3>1. i + 1 \in 1 .. Len(q) /\ 1 \in 1 .. Len(q) /\ 1 < i + 1 /\ a[i] = q[i + 1]
      BY <1>1
    <3>2. Rank(q[i + 1]) \in done + 1 .. sent
      BY <3>1 DEF UnderWay
    <3>3. CASE Rank(Head(q)) = 1
      BY <1>4, <3>1, <3>2, <3>3
    <3>4. CASE Rank(Head(q)) # 1
      <4>1. Rank(q[1]) < Rank(q[i + 1])
        BY <1>1, <3>1, <3>4 DEF UnderWay
      <4> QED
        BY <1>1, <1>2, <1>4, <3>1, <3>2, <3>4, <4>1
    <3> QED
      BY <3>3, <3>4
  <2>3. \A i, j \in 1 .. Len(a) :
          Rank(a[i]) # 1 /\ Rank(a[j]) # 1 /\ i < j => Rank(a[i]) < Rank(a[j])
    <3> SUFFICES ASSUME NEW i \in 1 .. Len(a), NEW j \in 1 .. Len(a), i < j,
                        Rank(a[i]) # 1, Rank(a[j]) # 1
                 PROVE  Rank(a[i]) < Rank(a[j])
      OBVIOUS
    <3>1. /\ i + 1 \in 1 .. Len(q) /\ j + 1 \in 1 .. Len(q) /\ i + 1 < j + 1
          /\ a[i] = q[i + 1] /\ a[j] = q[j + 1]
      BY <1>1
    <3> QED
      BY <3>1 DEF UnderWay
  <2>4. ASSUME NEW r \in d + 1 .. sent
        PROVE  \E i \in 1 .. Len(a) : Rank(a[i]) = r
    <3>1. PICK i \in 1 .. Len(q) : Rank(q[i]) = r
      BY <1>4 DEF UnderWay
    <3>2. i # 1
      BY <1>1, <1>2, <1>4, <3>1
    <3>3. i - 1 \in 1 .. Len(a) /\ (i - 1) + 1 = i
      BY <1>1, <3>2
    <3>4. Rank(a[i - 1]) = r
      BY <1>1, <3>1, <3>3
    <3> QED
      BY <3>3, <3>4
  <2>5. \A i \in 1 .. Len(a) : a[i] = Media =>
          sent = 5 /\ \A j \in i .. Len(a) : Rank(a[j]) = 1
    BY <1>1 DEF UnderWay
  <2> QED
    BY <2>1, <2>2, <2>3, <2>4, <2>5 DEF UnderWay
<1> QED
  BY <1>2, <1>3, <1>4 DEF a

-----------------------------------------------------------------------------
(* The server's answers and the client's reads.                            *)

(* A message that is no answer leaves the answers as they are.             *)
LEMMA OtherAnswered ==
  ASSUME NEW q \in Seq(ToClient), NEW done \in 1 .. 5, NEW read \in BOOLEAN,
         Answered(q, done, read),
         NEW m \in ToClient \ (Statuses \cup {ConnectResult, CreateResult})
  PROVE  Append(q, m) \in Seq(ToClient) /\ Answered(Append(q, m), done, read)
<1> DEFINE a == Append(q, m)
<1>1. /\ Len(a) = Len(q) + 1 /\ Len(q) \in Nat /\ a[Len(q) + 1] = m
      /\ a \in Seq(ToClient) /\ \A i \in 1 .. Len(q) : a[i] = q[i]
  BY Appended
<1>2. m \notin Statuses /\ m # ConnectResult /\ m # CreateResult
  OBVIOUS
<1> HIDE DEF a
<1> QED
  BY <1>1, <1>2 DEF Answered, a

LEMMA ConnectAnswered ==
  ASSUME NEW q \in Seq(ToClient), NEW read \in BOOLEAN, Answered(q, 2, read)
  PROVE  Append(q, ConnectResult) \in Seq(ToClient)
         /\ Answered(Append(q, ConnectResult), 3, read)
<1> DEFINE a == Append(q, ConnectResult)
<1>1. /\ Len(a) = Len(q) + 1 /\ Len(q) \in Nat /\ a[Len(q) + 1] = ConnectResult
      /\ a \in Seq(ToClient) /\ \A i \in 1 .. Len(q) : a[i] = q[i]
  BY Appended DEF ToClient, Answers
<1> HIDE DEF a
<1> QED
  BY <1>1, AnswersDiffer DEF Answered, a

LEMMA CreateAnswered ==
  ASSUME NEW q \in Seq(ToClient), NEW read \in BOOLEAN, Answered(q, 3, read)
  PROVE  Append(q, CreateResult) \in Seq(ToClient)
         /\ Answered(Append(q, CreateResult), 4, read)
<1> DEFINE a == Append(q, CreateResult)
<1>1. /\ Len(a) = Len(q) + 1 /\ Len(q) \in Nat /\ a[Len(q) + 1] = CreateResult
      /\ a \in Seq(ToClient) /\ \A i \in 1 .. Len(q) : a[i] = q[i]
  BY Appended DEF ToClient, Answers
<1> HIDE DEF a
<1> QED
  BY <1>1, AnswersDiffer DEF Answered, a

LEMMA StatusAnswered ==
  ASSUME NEW q \in Seq(ToClient), NEW read \in BOOLEAN, Answered(q, 5, read),
         NEW m \in Statuses
  PROVE  Append(q, m) \in Seq(ToClient) /\ Answered(Append(q, m), 5, read)
<1> DEFINE a == Append(q, m)
<1>1. /\ Len(a) = Len(q) + 1 /\ Len(q) \in Nat /\ a[Len(q) + 1] = m
      /\ a \in Seq(ToClient) /\ \A i \in 1 .. Len(q) : a[i] = q[i]
  BY Appended DEF ToClient, Answers
<1> HIDE DEF a
<1> QED
  BY <1>1, AnswersDiffer DEF Answered, a

(* Handshake and publish without their answers.                            *)
LEMMA Unanswered ==
  ASSUME NEW q \in Seq(ToClient), NEW read \in BOOLEAN
  PROVE  /\ Answered(q, 1, read) => Answered(q, 2, read)
         /\ Answered(q, 4, read) => Answered(q, 5, read)
  BY DEF Answered

(* The client takes the first message; the answer to connect is then read. *)
LEMMA AnswerRead ==
  ASSUME NEW q \in Seq(ToClient), NEW done \in 1 .. 5, NEW read \in BOOLEAN,
         Answered(q, done, read), q # <<>>
  PROVE  /\ Answered(Tail(q), done, read \/ Head(q) = ConnectResult)
         /\ Head(q) = CreateResult => done >= 4 /\ read
         /\ Head(q) = ConnectResult => done >= 3 /\ ~read
         /\ Head(q) \in Statuses => done = 5
<1> DEFINE a == Tail(q)
<1>1. /\ Len(a) = Len(q) - 1 /\ Len(q) \in Nat \ {0} /\ Head(q) = q[1]
      /\ \A i \in 1 .. Len(a) : a[i] = q[i + 1]
  BY Taken
<1> HIDE DEF a
<1>2. \A i \in 1 .. Len(a) : i + 1 \in 1 .. Len(q) /\ i + 1 # 1
  BY <1>1
<1>3. 1 \in 1 .. Len(q)
  BY <1>1
<1>4. Head(q) = CreateResult => done >= 4 /\ read
  BY <1>1, <1>3 DEF Answered
<1>5. /\ Head(q) = ConnectResult => done >= 3 /\ ~read
      /\ Head(q) \in Statuses => done = 5
  BY <1>1, <1>3 DEF Answered
<1> DEFINE now == read \/ Head(q) = ConnectResult
<1>6. \A i \in 1 .. Len(a) : a[i] = ConnectResult => done >= 3 /\ ~now
  BY <1>1, <1>2, <1>3 DEF Answered
<1>7. \A i, j \in 1 .. Len(a) : a[i] = ConnectResult /\ a[j] = ConnectResult => i = j
  BY <1>1, <1>2 DEF Answered
<1>8. \A i, j \in 1 .. Len(a) : a[i] = ConnectResult /\ a[j] = CreateResult => i < j
  <2> SUFFICES ASSUME NEW i \in 1 .. Len(a), NEW j \in 1 .. Len(a),
                      a[i] = ConnectResult, a[j] = CreateResult
               PROVE  i < j
    OBVIOUS
  <2>1. i + 1 < j + 1
    BY <1>1, <1>2 DEF Answered
  <2> QED
    BY <2>1
<1>9. \A i \in 1 .. Len(a) : (a[i] = CreateResult => done >= 4)
                             /\ (a[i] \in Statuses => done = 5)
  BY <1>1, <1>2 DEF Answered
<1>10. done >= 3 <=> now \/ \E i \in 1 .. Len(a) : a[i] = ConnectResult
  <2>1. ASSUME done >= 3, ~now PROVE \E i \in 1 .. Len(a) : a[i] = ConnectResult
    <3>1. PICK i \in 1 .. Len(q) : q[i] = ConnectResult
      BY <2>1 DEF Answered
    <3>2. i - 1 \in 1 .. Len(a) /\ (i - 1) + 1 = i
      BY <1>1, <2>1, <3>1
    <3> QED
      BY <1>1, <3>1, <3>2
  <2>2. ASSUME now \/ \E i \in 1 .. Len(a) : a[i] = ConnectResult PROVE done >= 3
    BY <1>5, <1>6, <2>2 DEF Answered
  <2> QED
    BY <2>1, <2>2
<1> QED
  BY <1>4, <1>5, <1>6, <1>7, <1>8, <1>9, <1>10 DEF Answered, a

(* What is left behind the handshake.                                      *)
LEMMA HandshakeRead ==
  ASSUME NEW q \in Seq(ToClient), NEW n \in 0 .. Len(q), NEW read \in BOOLEAN,
         Answered(q, 1, read)
  PROVE  /\ SubSeq(q, n + 1, Len(q)) \in Seq(ToClient)
         /\ Answered(SubSeq(q, n + 1, Len(q)), 1, read)
<1> DEFINE a == SubSeq(q, n + 1, Len(q))
<1>1. /\ a \in Seq(ToClient) /\ Len(a) = Len(q) - n /\ Len(q) \in Nat
      /\ \A i \in 1 .. Len(a) : a[i] = q[n + i] /\ n + i \in 1 .. Len(q)
  BY SubSeqProperties
<1> HIDE DEF a
<1> QED
  BY <1>1 DEF Answered, a

-----------------------------------------------------------------------------
(* Reports.                                                                *)

LEMMA ReportNames ==
  /\ RequestReport(Request("c0c1")) = "SendC0C1"
  /\ RequestReport(Request("connect")) = "RtmpConnectSend"
  /\ RequestReport(Request("createStream")) = "CreateStreamSend"
  /\ RequestReport(Request("publish/play")) = "PlayPublishSend"
  BY DEF RequestReport, Request

LEMMA SendReported ==
  ASSUME NEW rep \in Record, NEW r,
         RequestReport(r) \in
           {"SendC0C1", "RtmpConnectSend", "CreateStreamSend", "PlayPublishSend"}
  PROVE  /\ ReportSends(rep, <<r>>) \in Record
         /\ ReportSends(rep, <<r>>).sends = Append(rep.sends, RequestReport(r))
         /\ ReportSends(rep, <<r>>).answers = rep.answers
         /\ ReportSends(rep, <<r>>).others = rep.others
<1> DEFINE one == [i \in DOMAIN <<r>> |-> RequestReport(<<r>>[i])]
<1>1. one = <<RequestReport(r)>>
  OBVIOUS
<1> DEFINE names == {"SendC0C1", "RtmpConnectSend", "CreateStreamSend", "PlayPublishSend"}
<1>2. rep.sends \in Seq(names)
  BY DEF Record
<1> HIDE DEF one
<1>3. rep.sends \o one = Append(rep.sends, RequestReport(r))
  BY <1>1, <1>2
<1>4. ReportSends(rep, <<r>>) = [rep EXCEPT !.sends = Append(rep.sends, RequestReport(r))]
  BY <1>3 DEF ReportSends, one
<1>5. Append(rep.sends, RequestReport(r)) \in Seq(names)
  BY <1>2
<1> QED
  BY <1>4, <1>5 DEF Record

LEMMA NothingReported ==
  ASSUME NEW rep \in Record
  PROVE  /\ ReportSends(rep, <<>>) = rep
         /\ ReportOthers(rep, {}) = rep
<1>1. rep.sends \in Seq({"SendC0C1", "RtmpConnectSend", "CreateStreamSend",
                          "PlayPublishSend"})
  BY DEF Record
<1>2. [i \in DOMAIN <<>> |-> RequestReport(<<>>[i])] = <<>>
  OBVIOUS
<1>3. rep.sends \o [i \in DOMAIN <<>> |-> RequestReport(<<>>[i])] = rep.sends
  BY <1>1, <1>2
<1>4. [rep EXCEPT !.sends = rep.sends] = rep
  BY DEF Record
<1>5. [rep EXCEPT !.others = rep.others \cup {}] = rep
  BY DEF Record
<1> QED
  BY <1>3, <1>4, <1>5 DEF ReportSends, ReportOthers

LEMMA PhaseRanks ==
  ASSUME client_phase_ \in ClientPhases, server_phase_ \in ServerPhases
  PROVE  SentRank \in {1, 3, 4, 5} /\ DoneRank \in 1 .. 5
  BY DEF SentRank, DoneRank, ClientPhases, ServerPhases

LEMMA ReadOrNot == ConnectRead \in BOOLEAN
  BY DEF ConnectRead

LEMMA SendsDiffer ==
  /\ <<"SendC0C1", "RtmpConnectSend">> # <<>>
  /\ <<"SendC0C1", "RtmpConnectSend", "CreateStreamSend">> # <<>>
  /\ <<"SendC0C1", "RtmpConnectSend", "CreateStreamSend", "PlayPublishSend">> # <<>>
  OBVIOUS

LEMMA SendsGrow ==
  /\ <<"SendC0C1">> = Append(<<>>, "SendC0C1")
  /\ <<"SendC0C1", "RtmpConnectSend">> = Append(<<"SendC0C1">>, "RtmpConnectSend")
  /\ <<"SendC0C1", "RtmpConnectSend", "CreateStreamSend">>
       = Append(<<"SendC0C1", "RtmpConnectSend">>, "CreateStreamSend")
  /\ <<"SendC0C1", "RtmpConnectSend", "CreateStreamSend", "PlayPublishSend">>
       = Append(<<"SendC0C1", "RtmpConnectSend", "CreateStreamSend">>, "PlayPublishSend")
  OBVIOUS

-----------------------------------------------------------------------------
(* One lemma per action.                                                   *)

LEMMA Start ==
  RtmpInit => DialogueInv
<1> SUFFICES ASSUME RtmpInit PROVE DialogueInv
  OBVIOUS
<1>a. /\ publish_flag_ \in BOOLEAN /\ ready_ \in BOOLEAN /\ framing \in BOOLEAN
      /\ is_ready_ = FALSE
      /\ half \in BOOLEAN /\ ~half
  BY Zenon DEF RtmpInit
<1>b. /\ whole \in 0 .. Len(s2c) /\ media \in 0 .. MaxMedia
      /\ c2s \in Seq(ToServer) /\ s2c \in Seq(ToClient)
  BY RtmpConstants DEF RtmpInit
<1>1. RtmpTypeOK /\ c2s \in Seq(ToServer) /\ s2c \in Seq(ToClient)
  BY <1>a, <1>b DEF RtmpInit, RtmpTypeOK, ClientPhases, ServerPhases
<1>2. SentRank = 1 /\ DoneRank = 1
  BY DEF RtmpInit, SentRank, DoneRank
<1>3. UnderWay(c2s, DoneRank, SentRank) /\ Answered(s2c, DoneRank, ConnectRead)
  BY <1>2 DEF RtmpInit, UnderWay, Answered, ConnectRead
<1>4. InLoop /\ Silent /\ ServerReady /\ LostBehind
  BY DEF RtmpInit, InLoop, Silent, ServerReady, LostBehind
<1>c. reported \in Record /\ reported.sends = <<>> /\ Len(reported.answers) = 0
  BY DEF RtmpInit, Record
<1>5. Reports
  BY <1>2, <1>c DEF RtmpInit, Reports, SendsInPhase, AnswersInPhase
<1> QED
  BY <1>1, <1>3, <1>4, <1>5 DEF DialogueInv, RtmpInit

LEMMA Connects ==
  ASSUME DialogueInv, OnConnect
  PROVE  DialogueInv'
<1>1. /\ client_phase_ = "initial" /\ reported.sends = <<>> /\ c2s = <<>> /\ s2c = <<>>
      /\ reported \in Record /\ whole = 0 /\ SentRank = 1
  BY DEF DialogueInv, OnConnect, Silent, Reports, Record, RtmpTypeOK, SentRank
<1>0. ServerReady' /\ LostBehind'
  BY <1>1 DEF OnConnect, DialogueInv, ServerReady, LostBehind
<1>2. DoneRank' = DoneRank /\ ConnectRead' = ConnectRead /\ SentRank' = 1
  BY <1>1 DEF OnConnect, DoneRank, ConnectRead, SentRank
<1>3. CASE conn' = "closed" /\ UNCHANGED <<client_phase_, c2s, reported>>
  <2>1. Reports' /\ InLoop' /\ Silent' /\ RtmpTypeOK'
    BY <1>1, <1>2, <1>3 DEF OnConnect, DialogueInv, Reports, SendsInPhase, AnswersInPhase,
       InLoop, Silent, RtmpTypeOK
  <2> QED
    BY <1>0, <1>1, <1>2, <1>3, <2>1 DEF DialogueInv, OnConnect
<1>4. ASSUME conn' = "open", client_phase_' = "c0c1", NEW out \in {<<>>, <<Request("c0c1")>>},
             c2s' = c2s \o out, reported' = ReportSends(reported, out)
      PROVE  DialogueInv'
  <2>1. CASE out = <<>>
    <3>1. c2s' = c2s /\ reported' = reported
      BY <1>1, <1>4, <2>1, NothingReported
    <3>2. Reports' /\ InLoop' /\ Silent' /\ RtmpTypeOK'
      BY <1>1, <1>2, <1>4, <3>1 DEF OnConnect, DialogueInv, Reports, SendsInPhase,
         AnswersInPhase, InLoop, Silent, RtmpTypeOK, ClientPhases
    <3> QED
      BY <1>0, <1>1, <1>2, <1>4, <3>1, <3>2 DEF DialogueInv, OnConnect
  <2>2. CASE out = <<Request("c0c1")>>
    <3>1. Request("c0c1") \in ToServer
      BY DEF ToServer
    <3>2. c2s' = Append(c2s, Request("c0c1"))
      BY <1>1, <1>4, <2>2
    <3>3. /\ reported' \in Record /\ reported'.sends = <<"SendC0C1">>
          /\ reported'.answers = reported.answers /\ reported'.others = reported.others
      <4>1. RequestReport(Request("c0c1")) = "SendC0C1" /\ reported \in Record
        BY <1>1, ReportNames
      <4>2. reported' = ReportSends(reported, <<Request("c0c1")>>)
        BY <1>4, <2>2
      <4>3. /\ reported' \in Record /\ reported'.sends = Append(reported.sends, "SendC0C1")
            /\ reported'.answers = reported.answers /\ reported'.others = reported.others
        BY <4>1, <4>2, SendReported
      <4> QED
        BY <1>1, <4>3, SendsGrow
    <3>4. UnderWay(c2s, DoneRank, SentRank)' /\ c2s' \in Seq(ToServer)
      <4>1. Rank(Request("c0c1")) = 1 /\ Request("c0c1") # Media
        BY Ranks, MessagesDiffer
      <4>2. UnderWay(Append(c2s, Request("c0c1")), DoneRank, SentRank)
        <5>1. /\ c2s \in Seq(ToServer) /\ DoneRank \in 1 .. 5 /\ SentRank \in 1 .. 5
              /\ UnderWay(c2s, DoneRank, SentRank)
          BY PhaseRanks DEF DialogueInv, RtmpTypeOK
        <5> QED
          BY <5>1, <3>1, <4>1, OtherSent
      <4> QED
        BY <1>1, <1>2, <3>1, <3>2, <4>2, Appended DEF DialogueInv
    <3>5. Reports'
      BY <1>1, <1>2, <1>4, <3>3 DEF DialogueInv, Reports, SendsInPhase, AnswersInPhase
    <3>6. InLoop' /\ Silent' /\ RtmpTypeOK'
      BY <1>1, <1>2, <1>4, <3>3 DEF OnConnect, DialogueInv, InLoop, Silent, RtmpTypeOK,
         ClientPhases, Record
    <3> QED
      BY <1>0, <1>1, <1>2, <1>4, <3>4, <3>5, <3>6 DEF DialogueInv, OnConnect
  <2> QED
    BY <1>4, <2>1, <2>2
<1> QED
  BY <1>3, <1>4 DEF OnConnect

(* Errors of the connection and packets between two reads.                 *)
LEMMA Errors ==
  ASSUME DialogueInv, OnReadError \/ OnWriteError
  PROVE  DialogueInv'
<1>1. /\ UNCHANGED <<client_phase_, server_phase_, is_ready_, publish_flag_, heard, c2s, s2c, framing, whole>>
      /\ whole = 0 /\ conn' \in {"eof", "lost"} /\ conn # "connecting"
  BY DEF OnReadError, OnWriteError
<1>0. ServerReady' /\ LostBehind'
  BY <1>1 DEF DialogueInv, ServerReady, LostBehind
<1>2. DoneRank' = DoneRank /\ ConnectRead' = ConnectRead /\ SentRank' = SentRank
  BY <1>1 DEF DoneRank, ConnectRead, SentRank
<1>3. reported \in Record
  BY DEF DialogueInv, Reports, Record
<1>4. /\ reported'.sends = reported.sends /\ reported'.answers = reported.answers
      /\ reported' \in Record /\ (conn' = "eof" => "close" \in reported'.others)
      /\ reported'.others \subseteq reported.others \cup {"close"}
  <2>1. CASE OnReadError
    BY <1>3, <2>1 DEF OnReadError, ReportOthers, Record
  <2>2. CASE OnWriteError
    BY <1>3, <2>2 DEF OnWriteError, Record
  <2> QED
    BY <2>1, <2>2
<1>5. Reports'
  BY <1>1, <1>2, <1>3, <1>4 DEF DialogueInv, Reports, SendsInPhase, AnswersInPhase, Record
<1>6. InLoop' /\ Silent'
  BY <1>1, <1>4 DEF DialogueInv, InLoop, Silent
<1>7. RtmpTypeOK'
  BY <1>1, <1>4 DEF DialogueInv, RtmpTypeOK, OnReadError, OnWriteError
<1> QED
  BY <1>0, <1>1, <1>2, <1>5, <1>6, <1>7 DEF DialogueInv

LEMMA Sends ==
  ASSUME DialogueInv, SendRtmp
  PROVE  DialogueInv'
<1>1. /\ UNCHANGED <<client_phase_, server_phase_, is_ready_, publish_flag_, heard, s2c, framing, whole, conn, reported, entry>>
      /\ client_phase_ = "media_handle" /\ c2s' = Append(c2s, Media)
  BY DEF SendRtmp, MayWrite
<1>0. ServerReady' /\ LostBehind'
  BY <1>1 DEF DialogueInv, ServerReady, LostBehind
<1>2. DoneRank' = DoneRank /\ ConnectRead' = ConnectRead /\ SentRank' = SentRank /\ SentRank = 5
  BY <1>1 DEF DoneRank, ConnectRead, SentRank
<1>3. Media \in ToServer
  BY DEF ToServer
<1>4. UnderWay(c2s, DoneRank, SentRank)' /\ c2s' \in Seq(ToServer)
  BY <1>1, <1>2, <1>3, OtherSent, Ranks, PhaseRanks DEF DialogueInv, RtmpTypeOK
<1>5. Reports' /\ InLoop'
  BY <1>1, <1>2 DEF DialogueInv, Reports, SendsInPhase, AnswersInPhase, InLoop
<1>6. reported.sends # <<>>
  BY <1>2, SendsDiffer DEF DialogueInv, Reports, SendsInPhase
<1>7. Silent' /\ RtmpTypeOK'
  BY <1>1, <1>6, RtmpConstants DEF DialogueInv, Silent, RtmpTypeOK, SendRtmp
<1> QED
  BY <1>0, <1>1, <1>2, <1>4, <1>5, <1>7 DEF DialogueInv

LEMMA Streams ==
  ASSUME DialogueInv, ServerStreams
  PROVE  DialogueInv'
<1>1. /\ UNCHANGED <<client_phase_, server_phase_, is_ready_, publish_flag_, heard, c2s, framing, whole, conn, reported, entry, half>>
      /\ is_ready_ /\ s2c' = Append(s2c, Media)
  BY DEF ServerStreams
<1>0. ServerReady' /\ LostBehind'
  BY <1>1 DEF DialogueInv, ServerReady, LostBehind
<1>2. DoneRank' = DoneRank /\ ConnectRead' = ConnectRead /\ SentRank' = SentRank /\ DoneRank = 5
  BY <1>1 DEF DoneRank, ConnectRead, SentRank
<1>3. Media \in ToClient /\ Media \notin Statuses \cup {ConnectResult, CreateResult}
  BY AnswersDiffer DEF ToClient, Answers
<1>4. s2c' \in Seq(ToClient) /\ Len(s2c') = Len(s2c) + 1 /\ Len(s2c) \in Nat
  BY <1>1, <1>3, Appended DEF DialogueInv
<1>5. framing => Answered(s2c, DoneRank, ConnectRead)'
  BY <1>1, <1>2, <1>3, OtherAnswered, ReadOrNot DEF DialogueInv
<1>6. Reports' /\ InLoop'
  BY <1>1, <1>2 DEF DialogueInv, Reports, SendsInPhase, AnswersInPhase, InLoop
<1>7. SentRank = 5
  BY <1>2, PhaseRanks DEF DialogueInv, UnderWay, RtmpTypeOK
<1>8. reported.sends # <<>>
  BY <1>7, SendsDiffer DEF DialogueInv, Reports, SendsInPhase
<1>9. Silent' /\ RtmpTypeOK'
  BY <1>1, <1>4, <1>8, RtmpConstants DEF DialogueInv, Silent, RtmpTypeOK, ServerStreams
<1> QED
  BY <1>0, <1>1, <1>2, <1>4, <1>5, <1>6, <1>9 DEF DialogueInv

(* What a read leaves of the stream.                                       *)
LEMMA Arrived ==
  ASSUME DialogueInv, NEW n, NEW more, Arrives(n, more), Swallowed(n)
  PROVE  /\ s2c' \in Seq(ToClient) /\ Len(s2c') = Len(s2c) - n /\ n \in 0 .. Len(s2c)
         /\ Len(s2c) \in Nat /\ whole = 0 /\ whole' = 0 /\ entry' = entry
         /\ whole' \in 0 .. Len(s2c') /\ half' \in BOOLEAN
         /\ half' => whole' < Len(s2c')
         /\ s2c # <<>>
<1>1. /\ s2c \in Seq(ToClient) /\ n \in 0 .. Len(s2c) /\ Len(s2c) \in Nat
      /\ s2c' = SubSeq(s2c, n + 1, Len(s2c)) /\ whole = 0 /\ whole' = whole
  BY DEF DialogueInv, Arrives, Swallowed
<1>2. \A i \in n + 1 .. Len(s2c) : s2c[i] \in ToClient
  BY <1>1
<1>3. s2c' \in Seq(ToClient) /\ Len(s2c') = Len(s2c) - n
  BY <1>1, <1>2, SubSeqProperties
<1>4. /\ more \in BOOLEAN /\ half' = more /\ (more => n < Len(s2c)) /\ (n > 0 \/ more)
      /\ entry' = entry
  BY DEF Arrives, Swallowed
<1>5. s2c # <<>>
  BY <1>1, <1>4
<1>6. half' \in BOOLEAN /\ (half' => n < Len(s2c))
  BY <1>4
<1> QED
  BY <1>1, <1>3, <1>4, <1>5, <1>6

(* ReceiveRespMessage is entered.                                          *)
LEMMA Responds ==
  ASSUME DialogueInv, NEW n, NEW more, ReadResponse(n, more)
  PROVE  DialogueInv'
<1>1. /\ UNCHANGED <<client_phase_, server_phase_, is_ready_, publish_flag_, heard, c2s, s2c, framing, ready_,
                     media, reported, conn>>
      /\ conn = "open" /\ whole' = n /\ n \in 0 .. Len(s2c)
      /\ (n # 0 => entry' = client_phase_)
      /\ client_phase_ \in {"connect_resp", "create_stream_resp", "playpublish_resp",
                            "media_handle"}
  BY DEF ReadResponse, Arrives
<1>0. ServerReady' /\ LostBehind'
  BY <1>1 DEF DialogueInv, ServerReady, LostBehind
<1>2. DoneRank' = DoneRank /\ SentRank' = SentRank /\ ConnectRead' = ConnectRead
  BY <1>1 DEF DoneRank, SentRank, ConnectRead
<1>3. half' \in BOOLEAN /\ (half' => n < Len(s2c))
  BY DEF ReadResponse, Arrives
<1>4. Reports' /\ Silent'
  BY <1>1, <1>2 DEF DialogueInv, Reports, SendsInPhase, AnswersInPhase, Silent
<1>5. InLoop' /\ RtmpTypeOK'
  BY <1>1, <1>3 DEF DialogueInv, InLoop, RtmpTypeOK
<1> QED
  BY <1>0, <1>1, <1>2, <1>4, <1>5 DEF DialogueInv

(* The handshake ends: C2 and connect are sent.                            *)
LEMMA Handshakes ==
  ASSUME DialogueInv, NEW n, NEW more, ReadHandshake(n, more)
  PROVE  DialogueInv'
<1>1. /\ UNCHANGED <<server_phase_, is_ready_, heard, framing, ready_, publish_flag_, media, conn>>
      /\ conn = "open" /\ client_phase_ = "c0c1"
      /\ s2c' = SubSeq(s2c, n + 1, Len(s2c))
  BY DEF ReadHandshake, Arrives, Swallowed
<1>0. framing /\ framing' /\ ServerReady' /\ LostBehind'
  <2>1. framing
    BY <1>1 DEF DialogueInv, LostBehind
  <2> QED
    BY <1>1, <2>1 DEF DialogueInv, ServerReady, LostBehind
<1>2. DoneRank' = DoneRank /\ SentRank = 1 /\ ConnectRead' = ConnectRead
  BY <1>1 DEF DoneRank, SentRank, ConnectRead
<1>3. /\ s2c' \in Seq(ToClient) /\ Len(s2c') \in Nat /\ whole' \in 0 .. Len(s2c')
      /\ whole' = 0 /\ half' \in BOOLEAN /\ (half' => whole' < Len(s2c')) /\ s2c # <<>>
      /\ n \in 0 .. Len(s2c)
  BY Arrived DEF ReadHandshake
<1>4. DoneRank = 1 /\ c2s \in Seq(ToServer) /\ UnderWay(c2s, 1, 1)
  BY <1>2, PhaseRanks DEF DialogueInv, RtmpTypeOK, UnderWay
<1>5. Answered(s2c, DoneRank, ConnectRead)'
  BY <1>0, <1>1, <1>2, <1>3, <1>4, HandshakeRead, ReadOrNot DEF DialogueInv
<1>6. reported \in Record /\ reported.sends = <<"SendC0C1">>
  BY <1>2, <1>3 DEF DialogueInv, Reports, Silent, SendsInPhase
<1>7. CASE n = 0
  <2>1. UNCHANGED <<client_phase_, c2s, reported>>
    BY <1>7 DEF ReadHandshake
  <2>2. SentRank' = SentRank
    BY <2>1 DEF SentRank
  <2>3. Reports'
    BY <1>1, <2>1, <2>2 DEF DialogueInv, Reports, SendsInPhase, AnswersInPhase
  <2>a. reported.sends # <<>>
    BY <1>6
  <2>4. InLoop' /\ Silent' /\ RtmpTypeOK'
    BY <1>1, <1>3, <2>a, <2>1 DEF DialogueInv, InLoop, Silent, RtmpTypeOK
  <2> QED
    BY <1>0, <1>1, <1>2, <1>3, <1>5, <2>1, <2>2, <2>3, <2>4 DEF DialogueInv
<1>8. CASE n # 0
  <2>1. /\ client_phase_' = "connect_resp"
        /\ c2s' = c2s \o <<Request("c2"), Request("connect")>>
        /\ reported' = ReportOthers(ReportSends(reported, <<Request("connect")>>),
                                    {"RecvS0S1S2"})
    BY <1>8 DEF ReadHandshake
  <2>2. SentRank' = 3
    BY <2>1 DEF SentRank
  <2>3. Request("c2") \in ToServer /\ Request("connect") \in ToServer
    BY DEF ToServer, Requests
  <2>4. c2s' = Append(Append(c2s, Request("c2")), Request("connect"))
    BY <1>4, <2>1, <2>3
  <2>5. Append(c2s, Request("c2")) \in Seq(ToServer)
    BY <1>4, <2>3
  <2>6. UnderWay(Append(c2s, Request("c2")), 1, 2)
    BY <1>4, <2>3, Ranks, RequestSent
  <2>7. UnderWay(c2s', 1, 3) /\ c2s' \in Seq(ToServer)
    <3>1. Rank(Request("connect")) = 2 + 1
      BY Ranks
    <3> DEFINE q == Append(c2s, Request("c2"))
    <3> HIDE DEF q
    <3>2. UnderWay(q, 1, 2) /\ q \in Seq(ToServer) /\ Request("connect") \in ToServer
      BY <2>3, <2>5, <2>6 DEF q
    <3>3. UnderWay(Append(q, Request("connect")), 1, 3)
      BY <3>1, <3>2, RequestSent
    <3> QED
      BY <2>4, <3>2, <3>3 DEF q
  <2>8. /\ reported' \in Record
        /\ reported'.sends = <<"SendC0C1", "RtmpConnectSend">>
        /\ reported'.answers = reported.answers
    <3> DEFINE rep == ReportSends(reported, <<Request("connect")>>)
    <3>1. /\ rep \in Record /\ rep.sends = Append(reported.sends, "RtmpConnectSend")
          /\ rep.answers = reported.answers
      BY SMTT(30), <1>6, SendReported, ReportNames
    <3> HIDE DEF rep
    <3>2. /\ ReportOthers(rep, {"RecvS0S1S2"}) \in Record
          /\ ReportOthers(rep, {"RecvS0S1S2"}).sends = rep.sends
          /\ ReportOthers(rep, {"RecvS0S1S2"}).answers = rep.answers
      BY <3>1 DEF ReportOthers, Record
    <3> QED
      BY <1>6, <2>1, <3>1, <3>2, SendsGrow DEF rep
  <2>9. Reports'
    <3>1. SendsInPhase'
      BY <2>2, <2>8 DEF SendsInPhase
    <3>2. AnswersInPhase'
      BY <1>1, <1>2, <2>2, <2>8 DEF DialogueInv, Reports, AnswersInPhase
    <3> QED
      BY <1>1, <2>8, <3>1, <3>2 DEF Reports
  <2>10. InLoop' /\ Silent' /\ RtmpTypeOK'
    <3>1. reported'.sends # <<>>
      BY <2>8, SendsDiffer
    <3>2. InLoop' /\ Silent'
      BY <1>1, <1>3, <2>1, <3>1 DEF DialogueInv, InLoop, Silent
    <3>3. RtmpTypeOK'
      BY <1>1, <1>3, <2>1, <2>8 DEF DialogueInv, RtmpTypeOK, ClientPhases, Record
    <3> QED
      BY <3>2, <3>3
  <2> QED
    BY <1>0, <1>1, <1>2, <1>3, <1>4, <1>5, <2>1, <2>2, <2>7, <2>9, <2>10 DEF DialogueInv
<1> QED
  BY <1>7, <1>8

(* The request of a phase that was moved on.                               *)
LEMMA MovesOn ==
  ASSUME DialogueInv, NEW n, NEW more, ReadAfterPhaseMoved(n, more)
  PROVE  DialogueInv'
<1> DEFINE create == client_phase_ = "create_stream"
           r == Request(IF create THEN "createStream" ELSE "publish/play")
           phase == IF create THEN "create_stream_resp" ELSE "playpublish_resp"
<1>1. /\ UNCHANGED <<server_phase_, is_ready_, heard, ready_, publish_flag_, media, conn>>
      /\ ~framing' /\ conn = "open" /\ client_phase_' = phase
      /\ c2s' = c2s \o <<r>> /\ reported' = ReportSends(reported, <<r>>)
      /\ client_phase_ \in {"create_stream", "create_publish", "create_play"}
  BY DEF ReadAfterPhaseMoved, Arrives
<1>0. ServerReady' /\ LostBehind'
  BY <1>1 DEF DialogueInv, ServerReady, LostBehind
<1>2. /\ DoneRank' = DoneRank /\ SentRank = (IF create THEN 3 ELSE 4)
      /\ SentRank' = SentRank + 1
  BY <1>1 DEF DoneRank, SentRank
<1>3. /\ s2c' \in Seq(ToClient) /\ Len(s2c') \in Nat /\ whole' \in 0 .. Len(s2c')
      /\ whole' = 0 /\ half' \in BOOLEAN /\ (half' => whole' < Len(s2c'))
  BY Arrived DEF ReadAfterPhaseMoved
<1>4. /\ r \in ToServer /\ Rank(r) = SentRank + 1
      /\ RequestReport(r) = IF create THEN "CreateStreamSend" ELSE "PlayPublishSend"
  BY <1>2, Ranks, ReportNames DEF ToServer, Requests
<1> HIDE DEF r
<1>5. UnderWay(c2s, DoneRank, SentRank)' /\ c2s' \in Seq(ToServer)
  <2>1. /\ c2s \in Seq(ToServer) /\ UnderWay(c2s, DoneRank, SentRank)
        /\ DoneRank \in 1 .. 5 /\ SentRank \in 1 .. 4
    BY <1>2, PhaseRanks DEF DialogueInv, RtmpTypeOK
  <2>2. c2s' = Append(c2s, r) /\ c2s' \in Seq(ToServer)
    BY <1>1, <1>4, <2>1, Appended
  <2>3. UnderWay(Append(c2s, r), DoneRank, SentRank + 1)
    BY <1>4, <2>1, RequestSent
  <2> QED
    BY <1>2, <2>2, <2>3
<1>6. /\ reported' \in Record /\ reported'.answers = reported.answers
      /\ reported'.others = reported.others
      /\ reported'.sends = Append(reported.sends, RequestReport(r))
  <2>1. reported \in Record
    BY DEF DialogueInv, Reports
  <2> QED
    BY <1>1, <1>4, <2>1, SendReported
<1>7. SendsInPhase'
  <2>1. CASE create
    <3>1. SentRank = 3 /\ SentRank' = 4 /\ RequestReport(r) = "CreateStreamSend"
      BY <1>2, <1>4, <2>1
    <3>2. reported.sends = <<"SendC0C1", "RtmpConnectSend">>
      BY <3>1 DEF SendsInPhase, DialogueInv, Reports
    <3>3. reported'.sends = <<"SendC0C1", "RtmpConnectSend", "CreateStreamSend">>
      BY <1>6, <3>1, <3>2, SendsGrow
    <3> QED
      BY <3>1, <3>3 DEF SendsInPhase
  <2>2. CASE ~create
    <3>1. SentRank = 4 /\ SentRank' = 5 /\ RequestReport(r) = "PlayPublishSend"
      BY <1>2, <1>4, <2>2
    <3>2. reported.sends = <<"SendC0C1", "RtmpConnectSend", "CreateStreamSend">>
      BY <3>1 DEF SendsInPhase, DialogueInv, Reports
    <3>3. reported'.sends = <<"SendC0C1", "RtmpConnectSend", "CreateStreamSend",
                              "PlayPublishSend">>
      BY <1>6, <3>1, <3>2, SendsGrow
    <3> QED
      BY <3>1, <3>3 DEF SendsInPhase
  <2> QED
    BY <2>1, <2>2
<1>8. reported'.sends # <<>>
  BY <1>2, <1>7, SendsDiffer DEF SendsInPhase
<1>9. Reports'
  <2>1. AnswersInPhase
    BY DEF DialogueInv, Reports
  <2> HIDE DEF create, phase
  <2>2. AnswersInPhase'
    BY <1>1, <1>2, <1>6, <2>1 DEF AnswersInPhase
  <2>3. conn' \notin {"closed", "eof"}
    BY <1>1
  <2> QED
    BY <1>6, <1>7, <2>2, <2>3 DEF Reports
<1>10. InLoop' /\ Silent'
  BY <1>1, <1>3, <1>6, <1>8 DEF DialogueInv, InLoop, Silent
<1>a. framing' \in BOOLEAN
  BY Zenon DEF ReadAfterPhaseMoved
<1>11. RtmpTypeOK'
  BY <1>1, <1>3, <1>6, <1>a DEF DialogueInv, RtmpTypeOK, ClientPhases, Record
<1> QED
  BY <1>0, <1>1, <1>3, <1>5, <1>9, <1>10, <1>11 DEF DialogueInv

-----------------------------------------------------------------------------
(* The server.                                                             *)

LEMMA RepliesTo ==
  /\ Replies(Request("c0c1")) = {<<[kind |-> "s0s1s2"]>>}
  /\ Replies(Request("c2")) = {<<>>} /\ Replies(Media) = {<<>>}
  /\ Replies(Control("chunk_size")) = {<<>>, <<Control("chunk_size")>>}
  /\ Replies(Request("connect")) = {ConnectReply, Append(ConnectReply, BWDone)}
  /\ Replies(Request("createStream")) = {<<CreateResult>>}
  /\ Replies(Request("publish/play")) =
       IF publish_flag_ THEN {<<Command("onStatus", "publish/play", "Publish.Start")>>}
       ELSE {PlayReply}
<1> DEFINE c0c1 == Request("c0c1") c2 == Request("c2") connect == Request("connect")
           create == Request("createStream") play == Request("publish/play")
           size == Control("chunk_size")
<1>1. /\ c0c1 \notin {c2, connect, create, play, Media, size}
      /\ c2 \notin {connect, create, play, Media, size}
      /\ connect \notin {create, play, Media, size} /\ create \notin {play, Media, size}
      /\ play \notin {Media, size} /\ Media # size
  BY DEF Request, Media, Control
<1> HIDE DEF c0c1, c2, connect, create, play, size
<1>2. /\ Replies(c0c1) = {<<[kind |-> "s0s1s2"]>>}
      /\ Replies(c2) = {<<>>} /\ Replies(Media) = {<<>>}
      /\ Replies(size) = {<<>>, <<size>>}
      /\ Replies(connect) = {ConnectReply, Append(ConnectReply, BWDone)}
      /\ Replies(create) = {<<CreateResult>>}
      /\ Replies(play) =
           IF publish_flag_ THEN {<<Command("onStatus", "publish/play", "Publish.Start")>>}
           ELSE {PlayReply}
  BY <1>1 DEF Replies, BWDone, CreateResult, c0c1, c2, connect, create, play, size
<1> QED
  BY <1>2 DEF c0c1, c2, connect, create, play, size

LEMMA PhaseFor ==
  /\ ServerPhaseAfter(Request("c0c1")) = server_phase_
  /\ ServerPhaseAfter(Media) = server_phase_
  /\ ServerPhaseAfter(Control("chunk_size")) = server_phase_
  /\ ServerPhaseAfter(Request("c2")) = "connect"
  /\ ServerPhaseAfter(Request("connect")) = "create_stream"
  /\ ServerPhaseAfter(Request("createStream")) = "create_publish_play"
  /\ ServerPhaseAfter(Request("publish/play")) =
       IF publish_flag_ THEN "media_handle" ELSE server_phase_
  BY DEF ServerPhaseAfter, Request, Media, Control

LEMMA FourAppended ==
  ASSUME NEW S, NEW q \in Seq(S), NEW a \in S, NEW b \in S, NEW c \in S, NEW d \in S
  PROVE  /\ q \o <<a, b, c, d>> = Append(Append(Append(Append(q, a), b), c), d)
         /\ Append(Append(Append(Append(q, a), b), c), d) \in Seq(S)
  OBVIOUS

(* The six messages that answer play.                                      *)
LEMMA SixAppended ==
  ASSUME NEW S, NEW q \in Seq(S), NEW a \in S, NEW b \in S, NEW c \in S, NEW d \in S,
         NEW e \in S, NEW f \in S
  PROVE  q \o (<<a, b>> \o <<c, d, e, f>>)
           = Append(Append(Append(Append(Append(Append(q, a), b), c), d), e), f)
<1>1. q \o (<<a, b>> \o <<c, d, e, f>>) = (q \o <<a, b>>) \o <<c, d, e, f>>
  BY ConcatAssociative
<1>2. q \o <<a, b>> = Append(Append(q, a), b)
  OBVIOUS
<1> DEFINE p == Append(Append(q, a), b)
<1>3. p \in Seq(S)
  OBVIOUS
<1> HIDE DEF p
<1>4. p \o <<c, d, e, f>> = Append(Append(Append(Append(p, c), d), e), f)
  BY <1>3, FourAppended
<1> QED
  BY <1>1, <1>2, <1>4 DEF p

(* A reply brings exactly the answer to the request handled.               *)
LEMMA Replied ==
  ASSUME NEW q \in Seq(ToClient), NEW read \in BOOLEAN, NEW done \in 1 .. 5,
         NEW m \in ToServer, NEW reply \in Replies(m), Rank(m) # 1 => Rank(m) = done + 1,
         publish_flag_ \in BOOLEAN
  PROVE  /\ q \o reply \in Seq(ToClient) /\ Len(q \o reply) >= Len(q)
         /\ Answered(q, done, read) =>
              Answered(q \o reply, IF Rank(m) = 1 THEN done ELSE Rank(m), read)
<1> DEFINE now == IF Rank(m) = 1 THEN done ELSE Rank(m)
           ok == /\ q \o reply \in Seq(ToClient) /\ Len(q \o reply) >= Len(q)
                 /\ Answered(q, done, read) => Answered(q \o reply, now, read)
<1>1. ASSUME NEW s \in Seq(ToClient), NEW d \in 1 .. 5, NEW t \in {"window_ack_size",
             "peer_bandwidth", "chunk_size", "user_control"}
      PROVE  /\ Control(t) \in ToClient /\ Append(s, Control(t)) \in Seq(ToClient)
             /\ Answered(s, d, read) => Answered(Append(s, Control(t)), d, read)
  <2>1. Control(t) \in ToClient \ (Statuses \cup {ConnectResult, CreateResult})
    BY AnswersDiffer DEF ToClient, Controls, Answers
  <2> QED
    BY <2>1, OtherAnswered
<1>3. /\ Len(q) >= Len(q)
      /\ \A x \in ToClient :
           /\ Append(q, x) \in Seq(ToClient) /\ Len(Append(q, x)) >= Len(q)
           /\ q \o <<x>> = Append(q, x)
  <2>1. Len(q) \in Nat
    OBVIOUS
  <2> QED
    BY <2>1, Appended
<1>4. CASE m = Request("c0c1")
  <2>1. [kind |-> "s0s1s2"] \in ToClient \ (Statuses \cup {ConnectResult, CreateResult})
    BY AnswersDiffer DEF ToClient, Answers
  <2>2. reply = <<[kind |-> "s0s1s2"]>> /\ now = done
    BY <1>4, RepliesTo, Ranks
  <2>3. Answered(q, done, read) => Answered(Append(q, [kind |-> "s0s1s2"]), done, read)
    BY <2>1, OtherAnswered
  <2>4. q \o reply = Append(q, [kind |-> "s0s1s2"])
    BY <1>3, <2>1, <2>2
  <2> QED
    BY <1>3, <2>1, <2>2, <2>3, <2>4, Zenon
<1>5. ASSUME reply = <<>> PROVE q \o reply = q
  BY <1>5
<1>6. CASE m = Media
  <2>1. reply = <<>> /\ now = done
    BY <1>6, RepliesTo, Ranks
  <2> QED
    BY <1>3, <1>5, <2>1
<1>7. CASE m = Control("chunk_size")
  <2>1. reply \in {<<>>, <<Control("chunk_size")>>} /\ now = done
    BY <1>7, RepliesTo, Ranks
  <2>2. Control("chunk_size") \in ToClient
    BY <1>1
  <2>3. Answered(q, done, read) => Answered(Append(q, Control("chunk_size")), done, read)
    BY <1>1
  <2>4. q \o reply \in {q, Append(q, Control("chunk_size"))}
    BY <1>3, <1>5, <2>1, <2>2
  <2> QED
    BY <1>3, <2>1, <2>2, <2>3, <2>4, Zenon
<1>8. CASE m = Request("c2")
  <2>1. reply = <<>> /\ now = 2 /\ done = 1
    BY <1>8, RepliesTo, Ranks
  <2> QED
    BY <1>3, <1>5, <2>1, Unanswered
<1>9. CASE m = Request("connect")
  <2>1. reply \in {ConnectReply, Append(ConnectReply, BWDone)} /\ now = 3 /\ done = 2
    BY <1>9, RepliesTo, Ranks
  <2> DEFINE q1 == Append(q, Control("window_ack_size"))
             q2 == Append(q1, Control("peer_bandwidth"))
             q3 == Append(q2, Control("chunk_size"))
             q4 == Append(q3, ConnectResult)
             q5 == Append(q4, BWDone)
  <2>2. /\ Control("window_ack_size") \in ToClient /\ Control("peer_bandwidth") \in ToClient
        /\ Control("chunk_size") \in ToClient /\ ConnectResult \in ToClient
        /\ BWDone \in ToClient \ (Statuses \cup {ConnectResult, CreateResult})
    BY <1>1, AnswersDiffer DEF ToClient, Answers
  <2>3. q \o ConnectReply = q4 /\ ConnectReply \in Seq(ToClient)
    BY <2>2, FourAppended DEF ConnectReply, ConnectResult
  <2>4. q \o Append(ConnectReply, BWDone) = q5
    BY SMTT(30), <2>2, <2>3, ConcatAppend
  <2>5. q1 \in Seq(ToClient) /\ (Answered(q, 2, read) => Answered(q1, 2, read))
    BY <1>1
  <2> HIDE DEF q1
  <2>6. q2 \in Seq(ToClient) /\ (Answered(q, 2, read) => Answered(q2, 2, read))
    BY <1>1, <2>5
  <2> HIDE DEF q2
  <2>7. q3 \in Seq(ToClient) /\ (Answered(q, 2, read) => Answered(q3, 2, read))
    BY <1>1, <2>6
  <2> HIDE DEF q3
  <2>8. q4 \in Seq(ToClient) /\ (Answered(q, 2, read) => Answered(q4, 3, read))
    BY <2>2, <2>7, ConnectAnswered, Appended
  <2> HIDE DEF q4
  <2>9. q5 \in Seq(ToClient) /\ (Answered(q, 2, read) => Answered(q5, 3, read))
    BY <2>2, <2>8, OtherAnswered, Appended
  <2>10. Len(q4) >= Len(q) /\ Len(q5) >= Len(q)
    BY <1>3, <2>2, <2>5, <2>6, <2>7, <2>8, Appended DEF q1, q2, q3, q4
  <2> QED
    BY <2>1, <2>3, <2>4, <2>8, <2>9, <2>10
<1>10. CASE m = Request("createStream")
  <2>1. reply = <<CreateResult>> /\ now = 4 /\ done = 3
    BY <1>10, RepliesTo, Ranks
  <2>2. CreateResult \in ToClient
    BY DEF ToClient, Answers
  <2> QED
    <3>1. q \o reply = Append(q, CreateResult)
      BY <1>3, <2>1, <2>2
    <3>2. Answered(q, 3, read) => Answered(Append(q, CreateResult), 4, read)
      BY CreateAnswered
    <3> QED
      BY <1>3, <2>1, <2>2, <3>1, <3>2, Zenon
<1>11. CASE m = Request("publish/play")
  <2>1. now = 5 /\ done = 4
    BY <1>11, Ranks
  <2>2. Answered(q, 4, read) => Answered(q, 5, read)
    BY Unanswered
  <2>3. ASSUME NEW s \in Seq(ToClient), NEW code \in {"Publish.Start", "Play.Reset",
               "Play.Start", "Data.Start", "Play.PublishNotify"}
        PROVE  /\ Command("onStatus", "publish/play", code) \in ToClient
               /\ Append(s, Command("onStatus", "publish/play", code)) \in Seq(ToClient)
               /\ Len(Append(s, Command("onStatus", "publish/play", code))) = Len(s) + 1
               /\ Answered(s, 5, read) =>
                    Answered(Append(s, Command("onStatus", "publish/play", code)), 5, read)
    <3>1. Command("onStatus", "publish/play", code) \in Statuses
      BY DEF Statuses
    <3>2. Command("onStatus", "publish/play", code) \in ToClient
      BY <3>1 DEF ToClient, Answers
    <3> QED
      BY <3>1, <3>2, StatusAnswered, Appended
  <2>4. CASE publish_flag_
    <3>1. reply = <<Command("onStatus", "publish/play", "Publish.Start")>>
      BY <1>11, <2>4, RepliesTo
    <3> QED
      <4> DEFINE x == Command("onStatus", "publish/play", "Publish.Start")
      <4>1. x \in ToClient /\ (Answered(q, 5, read) => Answered(Append(q, x), 5, read))
        BY <2>3
      <4> HIDE DEF x
      <4>2. q \o reply = Append(q, x)
        BY <1>3, <3>1, <4>1 DEF x
      <4> QED
        BY <1>3, <2>1, <2>2, <4>1, <4>2
  <2>5. CASE ~publish_flag_
    <3>1. reply = PlayReply
      BY <1>11, <2>5, RepliesTo
    <3> DEFINE q1 == Append(q, Control("user_control"))
               q2 == Append(q1, Control("user_control"))
               q3 == Append(q2, Command("onStatus", "publish/play", "Play.Reset"))
               q4 == Append(q3, Command("onStatus", "publish/play", "Play.Start"))
               q5 == Append(q4, Command("onStatus", "publish/play", "Data.Start"))
               q6 == Append(q5, Command("onStatus", "publish/play", "Play.PublishNotify"))
    <3>2. q \o reply = q6
      <4> DEFINE u == Control("user_control")
                 a == Command("onStatus", "publish/play", "Play.Reset")
                 b == Command("onStatus", "publish/play", "Play.Start")
                 c == Command("onStatus", "publish/play", "Data.Start")
                 d == Command("onStatus", "publish/play", "Play.PublishNotify")
      <4>1. u \in ToClient /\ a \in ToClient /\ b \in ToClient /\ c \in ToClient
            /\ d \in ToClient
        BY <1>1, <2>3
      <4>2. reply = <<u, u>> \o <<a, b, c, d>>
        BY <3>1 DEF PlayReply
      <4>3. q6 = Append(Append(Append(Append(Append(Append(q, u), u), a), b), c), d)
        OBVIOUS
      <4> HIDE DEF u, a, b, c, d, q6
      <4> QED
        BY SMTT(30), <4>1, <4>2, <4>3, SixAppended
    <3>3. /\ q1 \in Seq(ToClient) /\ (Answered(q, 5, read) => Answered(q1, 5, read))
          /\ Len(q1) = Len(q) + 1
      BY <1>1, Appended
    <3> HIDE DEF q1
    <3>4. /\ q2 \in Seq(ToClient) /\ (Answered(q, 5, read) => Answered(q2, 5, read))
          /\ Len(q2) = Len(q1) + 1
      BY <1>1, <3>3, Appended
    <3> HIDE DEF q2
    <3>5. /\ q3 \in Seq(ToClient) /\ (Answered(q, 5, read) => Answered(q3, 5, read))
          /\ Len(q3) = Len(q2) + 1
      BY <2>3, <3>4
    <3> HIDE DEF q3
    <3>6. /\ q4 \in Seq(ToClient) /\ (Answered(q, 5, read) => Answered(q4, 5, read))
          /\ Len(q4) = Len(q3) + 1
      BY <2>3, <3>5
    <3> HIDE DEF q4
    <3>7. /\ q5 \in Seq(ToClient) /\ (Answered(q, 5, read) => Answered(q5, 5, read))
          /\ Len(q5) = Len(q4) + 1
      BY <2>3, <3>6
    <3> HIDE DEF q5
    <3>8. /\ q6 \in Seq(ToClient) /\ (Answered(q, 5, read) => Answered(q6, 5, read))
          /\ Len(q6) = Len(q5) + 1
      BY <2>3, <3>7
    <3> HIDE DEF q6
    <3> QED
      BY <1>3, <2>1, <2>2, <3>2, <3>3, <3>4, <3>5, <3>6, <3>7, <3>8
  <2> QED
    BY <2>4, <2>5
<1> QED
  BY <1>4, <1>6, <1>7, <1>8, <1>9, <1>10, <1>11 DEF ToServer, Requests

LEMMA Serves ==
  ASSUME DialogueInv, ServerHandles
  PROVE  DialogueInv'
<1> DEFINE m == Head(c2s)
<1>1. /\ UNCHANGED <<conn, publish_flag_, client_phase_, ready_, whole, entry, half, framing,
                     media, reported, heard>>
      /\ c2s # <<>> /\ c2s' = Tail(c2s) /\ server_phase_' = ServerPhaseAfter(m)
      /\ is_ready_' = (is_ready_ \/ m = Request("publish/play"))
  BY DEF ServerHandles
<1>2. PICK reply \in Replies(m) : s2c' = s2c \o reply
  BY DEF ServerHandles
<1>3. /\ SentRank' = SentRank /\ ConnectRead' = ConnectRead
      /\ SentRank \in 1 .. 5 /\ DoneRank \in 1 .. 5
  BY <1>1, PhaseRanks DEF SentRank, ConnectRead, DialogueInv, RtmpTypeOK
<1>4. /\ c2s \in Seq(ToServer) /\ m \in ToServer /\ Tail(c2s) \in Seq(ToServer)
      /\ s2c \in Seq(ToClient) /\ publish_flag_ \in BOOLEAN
  BY <1>1, Taken DEF DialogueInv, RtmpTypeOK
<1>5. /\ Rank(m) = 1 => UnderWay(c2s', DoneRank, SentRank)
      /\ Rank(m) # 1 => Rank(m) = DoneRank + 1 /\ UnderWay(c2s', Rank(m), SentRank)
  BY <1>1, <1>3, <1>4, RequestHandled DEF DialogueInv
<1> HIDE DEF m
<1>a. /\ Rank(m) \in 1 .. 5
      /\ m = Request("publish/play") <=> Rank(m) = 5
      /\ Rank(m) \in 2 .. 4 => ~is_ready_
      /\ Rank(m) = 5 => server_phase_ = "create_publish_play"
      /\ server_phase_ \in ServerPhases /\ ServerReady
  <2>1. /\ Rank(m) \in 1 .. 5 /\ (m = Request("publish/play") <=> Rank(m) = 5)
    BY <1>4, Ranks, RanksOfMessages
  <2>2. server_phase_ \in ServerPhases /\ ServerReady
    BY DEF DialogueInv, RtmpTypeOK
  <2>3. Rank(m) # 1 => DoneRank = Rank(m) - 1
    BY <1>3, <1>5, <2>1
  <2>4. is_ready_ <=> DoneRank = 5
    BY DEF DoneRank
  <2> QED
    BY <2>1, <2>2, <2>3, <2>4 DEF DoneRank, ServerReady, ServerPhases
<1>6. /\ DoneRank' = (IF Rank(m) = 1 THEN DoneRank ELSE Rank(m))
      /\ server_phase_' \in ServerPhases /\ ServerReady'
  <2>0. /\ publish_flag_' = publish_flag_ /\ is_ready_ \in BOOLEAN
        /\ Rank(m) \in 2 .. 4 => is_ready_' = FALSE
        /\ Rank(m) = 5 => is_ready_' = TRUE
    <3>1. /\ publish_flag_' = publish_flag_ /\ is_ready_ \in BOOLEAN
          /\ is_ready_' = (is_ready_ \/ m = Request("publish/play"))
      BY <1>1 DEF DialogueInv, RtmpTypeOK
    <3>2. is_ready_' \in BOOLEAN /\ (is_ready_' <=> is_ready_ \/ Rank(m) = 5)
      BY <1>a, <3>1
    <3> QED
      BY <1>a, <3>1, <3>2
  <2>1. CASE Rank(m) = 1
    <3>1. server_phase_' = server_phase_
      BY <1>1, <1>4, <2>1, RanksOfMessages, PhaseFor
    <3>2. is_ready_' = is_ready_
      BY <1>1, <1>a, <2>0, <2>1
    <3>3. DoneRank' = DoneRank
      BY <3>1, <3>2 DEF DoneRank
    <3>4. ServerReady'
      BY <1>a, <2>0, <3>1, <3>2 DEF ServerReady
    <3> QED
      BY <1>a, <2>1, <3>1, <3>3, <3>4
  <2>2. CASE Rank(m) = 2
    <3>1. server_phase_' = "connect" /\ is_ready_' = FALSE
      BY <1>1, <1>4, <2>0, <2>2, RanksOfMessages, PhaseFor
    <3>2. DoneRank' = 2
      BY <3>1 DEF DoneRank
    <3>3. ServerReady' /\ server_phase_' \in ServerPhases
      BY <3>1 DEF ServerReady, ServerPhases
    <3> QED
      BY <2>2, <3>2, <3>3
  <2>3. CASE Rank(m) = 3
    <3>1. server_phase_' = "create_stream" /\ is_ready_' = FALSE
      BY <1>1, <1>4, <2>0, <2>3, RanksOfMessages, PhaseFor
    <3>2. DoneRank' = 3
      BY <3>1 DEF DoneRank
    <3>3. ServerReady' /\ server_phase_' \in ServerPhases
      BY <3>1 DEF ServerReady, ServerPhases
    <3> QED
      BY <2>3, <3>2, <3>3
  <2>4. CASE Rank(m) = 4
    <3>1. server_phase_' = "create_publish_play" /\ is_ready_' = FALSE
      BY <1>1, <1>4, <2>0, <2>4, RanksOfMessages, PhaseFor
    <3>2. DoneRank' = 4
      BY <3>1 DEF DoneRank
    <3>3. ServerReady' /\ server_phase_' \in ServerPhases
      BY <3>1 DEF ServerReady, ServerPhases
    <3> QED
      BY <2>4, <3>2, <3>3
  <2>5. CASE Rank(m) = 5
    <3>1. /\ server_phase_' = IF publish_flag_ THEN "media_handle" ELSE "create_publish_play"
          /\ is_ready_' = TRUE
      BY <1>1, <1>a, <2>0, <2>5, PhaseFor
    <3>2. DoneRank' = 5
      BY <3>1 DEF DoneRank
    <3>3. ServerReady' /\ server_phase_' \in ServerPhases
      BY <2>0, <3>1 DEF ServerReady, ServerPhases
    <3> QED
      BY <2>5, <3>2, <3>3
  <2> QED
    BY <1>a, <2>1, <2>2, <2>3, <2>4, <2>5
<1>7. UnderWay(c2s, DoneRank, SentRank)'
  BY <1>3, <1>5, <1>6
<1>8. /\ s2c' \in Seq(ToClient) /\ Len(s2c') >= Len(s2c)
      /\ framing => Answered(s2c, DoneRank, ConnectRead)'
  <2>1. /\ s2c \o reply \in Seq(ToClient) /\ Len(s2c \o reply) >= Len(s2c)
        /\ Answered(s2c, DoneRank, ConnectRead) =>
             Answered(s2c \o reply, IF Rank(m) = 1 THEN DoneRank ELSE Rank(m), ConnectRead)
    BY <1>3, <1>4, <1>5, ReadOrNot, Replied
  <2> QED
    BY <1>2, <1>3, <1>6, <2>1 DEF DialogueInv
<1>9. Reports' /\ InLoop' /\ Silent' /\ LostBehind'
  BY <1>1, <1>3 DEF DialogueInv, Reports, SendsInPhase, AnswersInPhase, InLoop, Silent,
     LostBehind
<1>10. Len(s2c) \in Nat /\ Len(s2c') \in Nat
  BY <1>4, <1>8
<1>b. is_ready_' \in BOOLEAN
  BY <1>1 DEF DialogueInv, RtmpTypeOK
<1>11. RtmpTypeOK'
  BY <1>b, <1>1, <1>6, <1>8, <1>10 DEF DialogueInv, RtmpTypeOK
<1> QED
  BY <1>1, <1>3, <1>4, <1>6, <1>7, <1>8, <1>9, <1>11 DEF DialogueInv

-----------------------------------------------------------------------------
(* One message of the loop.                                                *)

(* What a client sees of a message.                                        *)
LEMMA MessageKinds ==
  ASSUME NEW m \in ToClient
  PROVE  /\ m.kind \in {"control", "command", "media", "s0s1s2"}
         /\ m.kind = "control" =>
              m.type \in {"window_ack_size", "peer_bandwidth", "chunk_size", "user_control"}
         /\ m.kind = "command" => m \in Answers
         /\ m.kind # "command" => m \notin Answers
  BY DEF ToClient, Answers, Controls, Statuses, ConnectResult, CreateResult, BWDone, Media,
     Control, Command

LEMMA AnswerKinds ==
  /\ ConnectResult.cmd = "_result" /\ ConnectResult.to = "connect"
  /\ CreateResult.cmd = "_result" /\ CreateResult.to = "createStream"
  /\ CreateResult.code = "none"
  /\ BWDone.cmd = "onBWDone" /\ BWDone.to = "none" /\ BWDone.code = "none"
  /\ \A m \in Statuses : m.cmd = "onStatus" /\ m.to = "publish/play"
  BY DEF ConnectResult, CreateResult, BWDone, Statuses, Command

(* No answer is refused, and where it leaves the client.                   *)
LEMMA AnswerTaken ==
  ASSUME DialogueInv, whole > 0, framing, NEW m \in Answers, m = Head(s2c)
  PROVE  /\ AcceptedIn(client_phase_, m)
         /\ PhaseAfter(client_phase_, m.cmd) \in ClientPhases
         /\ client_phase_ \in {"connect_resp", "create_stream"} =>
              PhaseAfter(client_phase_, m.cmd) \in {"connect_resp", "create_stream"}
         /\ client_phase_ \in {"create_stream_resp", "create_publish", "create_play"} =>
              PhaseAfter(client_phase_, m.cmd) \in
                {"create_stream_resp", "create_publish", "create_play"}
         /\ client_phase_ \in {"playpublish_resp", "media_handle"} =>
              PhaseAfter(client_phase_, m.cmd) = "media_handle"
         /\ PhaseAfter(client_phase_, m.cmd) \in
               {"create_stream", "create_publish", "create_play"} =>
              ConnectRead \/ m = ConnectResult
<1>1. /\ s2c # <<>> /\ s2c \in Seq(ToClient) /\ DoneRank \in 1 .. 5
      /\ Answered(s2c, DoneRank, ConnectRead) /\ DoneRank <= SentRank
      /\ client_phase_ \in ClientPhases
  BY PhaseRanks DEF DialogueInv, RtmpTypeOK, UnderWay
<1>2. /\ m = CreateResult => DoneRank >= 4 /\ ConnectRead
      /\ m = ConnectResult => DoneRank >= 3 /\ ~ConnectRead
      /\ m \in Statuses => DoneRank = 5
  BY <1>1, AnswerRead, ReadOrNot
<1>3. client_phase_ \in {"connect_resp", "create_stream", "create_stream_resp",
                        "create_publish", "create_play", "playpublish_resp", "media_handle"}
  BY DEF DialogueInv, InLoop
<1>4. client_phase_ \in {"create_stream", "create_publish", "create_play"} => ConnectRead
  BY DEF DialogueInv
<1>5. m = ConnectResult \/ m = CreateResult \/ m = BWDone \/ m \in Statuses
  BY DEF Answers
<1>6. CASE client_phase_ \in {"connect_resp", "create_stream"}
  <2>1. SentRank = 3
    BY <1>6 DEF SentRank
  <2>2. m = ConnectResult \/ m = BWDone
    BY <1>1, <1>2, <1>5, <2>1
  <2>3. m.cmd \in {"_result", "onBWDone"} /\ (m.cmd = "_result" => m = ConnectResult)
    BY <2>2, AnswerKinds
  <2>4. m.cmd = "_result" => client_phase_ = "connect_resp"
    BY <1>2, <1>4, <1>6, <2>3
  <2> QED
    BY <1>4, <1>6, <2>3, <2>4 DEF AcceptedIn, PhaseAfter, ClientPhases
<1>7. CASE client_phase_ = "create_stream_resp"
  <2>1. SentRank = 4
    BY <1>7 DEF SentRank
  <2>2. m = ConnectResult \/ m = CreateResult \/ m = BWDone
    BY <1>1, <1>2, <1>5, <2>1
  <2>3. m.cmd \in {"_result", "onBWDone"} /\ (m.cmd = "_result" => m # BWDone)
    BY <2>2, AnswerKinds
  <2> QED
    BY <1>2, <1>7, <2>2, <2>3 DEF AcceptedIn, PhaseAfter, ClientPhases, CreatePhase
<1>8. CASE client_phase_ \in {"create_publish", "create_play"}
  <2>1. SentRank = 4
    BY <1>8 DEF SentRank
  <2>2. m = CreateResult \/ m = BWDone
    BY <1>1, <1>2, <1>4, <1>5, <1>8, <2>1
  <2>3. m.cmd \in {"_result", "onBWDone"} /\ m.code = "none"
    BY <2>2, AnswerKinds
  <2> QED
    BY <1>4, <1>8, <2>3 DEF AcceptedIn, PhaseAfter, ClientPhases
<1>9. CASE client_phase_ \in {"playpublish_resp", "media_handle"}
  BY <1>9 DEF AcceptedIn, PhaseAfter, ClientPhases
<1> QED
  BY <1>3, <1>6, <1>7, <1>8, <1>9

Loop0 ==
  [phase |-> client_phase_, ready |-> ready_, out |-> <<>>, rep |-> reported,
   heard |-> heard, failed |-> FALSE]

(* The phase a message leaves the client in.                               *)
PhaseOn(m) ==
  IF m.kind = "command" THEN PhaseAfter(client_phase_, m.cmd) ELSE client_phase_

LEMMA AnswersNamed ==
  ASSUME NEW p, NEW s \in Seq({"RtmpConnectRecv", "CreateStreamRecv", "PlayPublishRecv"})
  PROVE  /\ AnswerReports(p) \in
              {<<>>, <<"RtmpConnectRecv">>, <<"CreateStreamRecv">>, <<"PlayPublishRecv">>}
         /\ AnswerReports(p) = <<"RtmpConnectRecv">> <=> p = "connect_resp"
         /\ AnswerReports(p) = <<"CreateStreamRecv">> <=> p = "create_stream_resp"
         /\ AnswerReports(p) = <<"PlayPublishRecv">> <=> p = "playpublish_resp"
         /\ s \o AnswerReports(p) \in
              Seq({"RtmpConnectRecv", "CreateStreamRecv", "PlayPublishRecv"})
<1> DEFINE names == {"RtmpConnectRecv", "CreateStreamRecv", "PlayPublishRecv"}
<1>1. \A a \in names : <<a>> \in Seq(names) /\ <<a>> # <<>>
  OBVIOUS
<1>2. \A a, b \in names : <<a>> = <<b>> => a = b
  OBVIOUS
<1>3. /\ <<"RtmpConnectRecv">> # <<"CreateStreamRecv">>
      /\ <<"RtmpConnectRecv">> # <<"PlayPublishRecv">>
      /\ <<"CreateStreamRecv">> # <<"PlayPublishRecv">>
  BY <1>2
<1>4. /\ p = "connect_resp" => AnswerReports(p) = <<"RtmpConnectRecv">>
      /\ p = "create_stream_resp" => AnswerReports(p) = <<"CreateStreamRecv">>
      /\ p = "playpublish_resp" => AnswerReports(p) = <<"PlayPublishRecv">>
      /\ p \notin {"connect_resp", "create_stream_resp", "playpublish_resp"} =>
           AnswerReports(p) = <<>>
  BY DEF AnswerReports
<1>5. AnswerReports(p) \in Seq(names)
  <2>1. <<>> \in Seq(names)
    OBVIOUS
  <2> QED
    BY <1>1, <1>4, <2>1, Zenon
<1>6. s \o AnswerReports(p) \in Seq(names)
  BY <1>5, ConcatProperties
<1> QED
  BY <1>1, <1>3, <1>4, <1>6, Zenon

(* What the handling of one message leaves, before HandleMessage goes by   *)
(* the result.                                                             *)
Handled(st, m) ==
  /\ ~st.failed /\ st.phase = PhaseOn(m)
  /\ st.out \in {<<>>, <<Control("chunk_size")>>}
  /\ st.ready \in BOOLEAN
  /\ st.rep \in Record /\ st.rep.sends = reported.sends
  /\ \/ st.rep.answers = reported.answers
     \/ /\ m.kind = "command"
        /\ st.rep.answers = reported.answers \o AnswerReports(client_phase_)
  /\ "connect" \in st.heard <=> ConnectRead \/ m = ConnectResult

LEMMA MessageHandled ==
  ASSUME DialogueInv, NEW m, NEW st, st = HandleOne(Loop0, m), m.kind # "broken",
         m.kind = "command" =>
           AcceptedIn(client_phase_, m) /\ (m.to = "connect" <=> m = ConnectResult)
  PROVE  Handled(st, m)
<1>1. /\ reported \in Record /\ ready_ \in BOOLEAN
      /\ m = ConnectResult => m.kind = "command"
  BY DEF DialogueInv, RtmpTypeOK, Reports, ConnectResult, Command
<1>2. CASE m.kind = "control"
  <2>1. st = [Loop0 EXCEPT
                !.out = IF m.type = "chunk_size" THEN Append(@, Control("chunk_size")) ELSE @,
                !.rep = ReportOthers(@, ControlReports(m))]
    BY <1>2 DEF HandleOne, HandleRtmpControl
  <2>2. m # ConnectResult
    BY <1>1, <1>2
  <2>3. ControlReports(m) \subseteq {"ChunkSize", "WindowSize", "BandWidth"}
    BY DEF ControlReports
  <2> DEFINE rep == ReportOthers(reported, ControlReports(m))
  <2>4. rep \in Record /\ rep.sends = reported.sends /\ rep.answers = reported.answers
    BY <1>1, <2>3 DEF ReportOthers, Record
  <2> HIDE DEF rep
  <2>5. /\ st.rep = rep /\ st.heard = heard /\ st.ready = ready_ /\ st.failed = FALSE
        /\ st.phase = client_phase_
    BY <2>1 DEF Loop0, rep
  <2>6. st.out \in {<<>>, <<Control("chunk_size")>>}
    <3>1. st.out \in {<<>>, Append(<<>>, Control("chunk_size"))}
      BY <2>1 DEF Loop0
    <3>2. Append(<<>>, Control("chunk_size")) = <<Control("chunk_size")>>
      OBVIOUS
    <3> QED
      BY <3>1, <3>2, Zenon
  <2> QED
    BY <1>1, <1>2, <2>2, <2>4, <2>5, <2>6 DEF ConnectRead, PhaseOn, Handled
<1>3. CASE m.kind = "command"
  <2>2. AcceptedIn(client_phase_, m)
    BY <1>3
  <2>a. Loop0.phase = client_phase_
    BY DEF Loop0
  <2>b. st = HandleServerCommand(Loop0, m)
    BY <1>3 DEF HandleOne
  <2>3. st = [Loop0 EXCEPT !.phase = PhaseAfter(@, m.cmd),
                           !.ready = ReadyAfter(Loop0.phase, m.cmd, @),
                           !.rep.answers = @ \o AnswerReports(Loop0.phase),
                           !.heard = @ \cup {m.to}]
    BY <2>2, <2>a, <2>b, Zenon DEF HandleServerCommand
  <2> DEFINE answers == reported.answers \o AnswerReports(client_phase_)
             rep == [reported EXCEPT !.answers = answers]
  <2>4. answers \in Seq({"RtmpConnectRecv", "CreateStreamRecv", "PlayPublishRecv"})
    BY <1>1, AnswersNamed DEF Record
  <2> HIDE DEF answers
  <2>5. rep \in Record /\ rep.sends = reported.sends /\ rep.answers = answers
    BY <1>1, <2>4 DEF Record
  <2> USE DEF answers
  <2>6. ReadyAfter(client_phase_, m.cmd, ready_) \in BOOLEAN
    BY <1>1 DEF ReadyAfter
  <2>7. m.to = "connect" <=> m = ConnectResult
    BY <1>3
  <2>8. /\ st.rep = [reported EXCEPT !.answers = answers]
        /\ st.heard = heard \cup {m.to} /\ st.failed = FALSE /\ st.out = <<>>
        /\ st.ready = ReadyAfter(client_phase_, m.cmd, ready_)
        /\ st.phase = PhaseAfter(client_phase_, m.cmd)
    BY <2>3 DEF Loop0
  <2> HIDE DEF rep, answers
  <2>9. "connect" \in st.heard <=> ConnectRead \/ m = ConnectResult
    BY <2>7, <2>8 DEF ConnectRead
  <2>10. st.rep = rep
    BY <2>8 DEF rep
  <2>11. st.phase = PhaseOn(m)
    BY <1>3, <2>8 DEF PhaseOn
  <2>12. st.out \in {<<>>, <<Control("chunk_size")>>} /\ ~st.failed
    BY <2>8
  <2> QED
    BY <1>3, <2>5, <2>6, <2>8, <2>9, <2>10, <2>11, <2>12 DEF answers, Handled
<1>4. CASE m.kind \notin {"control", "command"}
  <2>1. st = Loop0
    BY <1>4 DEF HandleOne
  <2>2. m # ConnectResult
    BY <1>1, <1>4
  <2>3. /\ st.phase = client_phase_ /\ st.out = <<>> /\ st.rep = reported
        /\ st.failed = FALSE /\ st.ready = ready_ /\ st.heard = heard
    BY <2>1 DEF Loop0
  <2> QED
    BY <1>1, <1>4, <2>2, <2>3 DEF ConnectRead, PhaseOn, Handled
<1> QED
  BY <1>2, <1>3, <1>4

(* Where it leaves the client.                                             *)
Placed(m) ==
  /\ PhaseOn(m) \in ClientPhases
  /\ client_phase_ \in {"connect_resp", "create_stream"} =>
       PhaseOn(m) \in {"connect_resp", "create_stream"}
  /\ client_phase_ \in {"create_stream_resp", "create_publish", "create_play"} =>
       PhaseOn(m) \in {"create_stream_resp", "create_publish", "create_play"}
  /\ client_phase_ = "media_handle" => PhaseOn(m) = "media_handle"
  /\ client_phase_ = "playpublish_resp" =>
       PhaseOn(m) = IF m.kind = "command" THEN "media_handle" ELSE "playpublish_resp"
  /\ framing /\ PhaseOn(m) \in {"create_stream", "create_publish", "create_play"} =>
       ConnectRead \/ m = ConnectResult

(* A message of the stream.                                                *)
LEMMA OneHandled ==
  ASSUME DialogueInv, whole > 0, framing
  PROVE  /\ Handled(HandleOne(Loop0, Head(s2c)), Head(s2c))
         /\ Placed(Head(s2c))
<1> DEFINE m == Head(s2c)
<1>1. s2c # <<>> /\ m \in ToClient /\ client_phase_ \in ClientPhases
  BY Taken DEF DialogueInv, RtmpTypeOK
<1>2. m.kind # "broken" /\ (m.kind = "command" => m \in Answers)
  BY <1>1, MessageKinds
<1> HIDE DEF m
<1>3. m.kind = "command" => AcceptedIn(client_phase_, m)
  BY <1>2, AnswerTaken DEF m
<1>4. m \in Answers => (m.to = "connect" <=> m = ConnectResult)
  BY AnswerKinds, AnswersDiffer DEF Answers
<1>5. Handled(HandleOne(Loop0, m), m)
  BY <1>2, <1>3, <1>4, MessageHandled
<1>6. CASE m.kind = "command"
  <2>1. PhaseOn(m) = PhaseAfter(client_phase_, m.cmd)
    BY <1>6 DEF PhaseOn
  <2> QED
    BY <1>2, <1>5, <1>6, <2>1, AnswerTaken DEF Placed, m
<1>7. CASE m.kind # "command"
  <2>1. PhaseOn(m) = client_phase_
    BY <1>7 DEF PhaseOn
  <2> QED
    BY <1>1, <1>5, <1>7, <2>1 DEF Placed, m, DialogueInv
<1> QED
  BY <1>6, <1>7

(* Garbage: it answers nothing, and it may end the session.                *)
LEMMA GarbageHandled ==
  ASSUME DialogueInv, ~framing, NEW m \in Garbage, NEW st, st = HandleOne(Loop0, m)
  PROVE  /\ Placed(m)
         /\ Handled(st, m) \/ st = [Loop0 EXCEPT !.failed = TRUE]
<1>1. /\ m.kind = "command" =>
           m.to = "none" /\ m.cmd \in {"_result", "onBWDone", "onStatus"}
      /\ m.kind \in {"command", "control", "media", "broken"}
      /\ ConnectResult.to = "connect"
  BY DEF Garbage, Command, Control, Media, ConnectResult
<1>2. /\ client_phase_ \in {"create_stream_resp", "create_publish", "create_play",
                            "playpublish_resp", "media_handle"}
      /\ client_phase_ \in ClientPhases
  BY DEF DialogueInv, LostBehind, RtmpTypeOK
<1>3. Placed(m)
  BY <1>1, <1>2 DEF Placed, PhaseOn, PhaseAfter, ClientPhases, CreatePhase
<1>4. CASE m.kind = "broken"
  BY <1>3, <1>4 DEF HandleOne
<1>5. CASE m.kind = "command" /\ ~AcceptedIn(client_phase_, m)
  <2>1. Loop0.phase = client_phase_
    BY DEF Loop0
  <2>2. st = HandleServerCommand(Loop0, m)
    BY <1>5 DEF HandleOne
  <2>3. st = [Loop0 EXCEPT !.failed = TRUE]
    BY <1>5, <2>1, <2>2, Zenon DEF HandleServerCommand
  <2> QED
    BY <1>3, <2>3
<1>6. CASE m.kind # "broken" /\ (m.kind = "command" => AcceptedIn(client_phase_, m))
  <2>1. Handled(st, m)
    BY <1>1, <1>6, MessageHandled
  <2> QED
    BY <1>3, <2>1
<1> QED
  BY <1>4, <1>5, <1>6

(* The reports of an answer keep their place behind the requests.          *)
LEMMA AnswersKept ==
  ASSUME DialogueInv, NEW p \in ClientPhases, client_phase_' = p,
         SentRank' >= SentRank, SentRank \in 1 .. 5, SentRank' \in 1 .. 5,
         client_phase_ = "media_handle" => p = "media_handle",
         \/ reported'.answers = reported.answers
         \/ /\ reported'.answers = reported.answers \o AnswerReports(client_phase_)
            /\ client_phase_ = "playpublish_resp" => p = "media_handle"
  PROVE  AnswersInPhase'
<1> DEFINE names == {"RtmpConnectRecv", "CreateStreamRecv", "PlayPublishRecv"}
           old == reported.answers
           new == reported'.answers
<1>1. old \in Seq(names) /\ Len(old) \in Nat
  BY DEF DialogueInv, Reports, Record
<1>2. /\ \A i \in 1 .. Len(old) :
           /\ old[i] = "RtmpConnectRecv" => SentRank >= 3
           /\ old[i] = "CreateStreamRecv" => SentRank >= 4
           /\ old[i] = "PlayPublishRecv" => client_phase_ = "media_handle"
      /\ \A i, j \in 1 .. Len(old) :
           old[i] = "PlayPublishRecv" /\ old[j] = "PlayPublishRecv" => i = j
  BY DEF DialogueInv, Reports, AnswersInPhase
<1>3. CASE new = old
  BY <1>2, <1>3 DEF AnswersInPhase
<1>4. ASSUME NEW a \in names, new = old \o <<a>>,
             a = "RtmpConnectRecv" => SentRank >= 3,
             a = "CreateStreamRecv" => SentRank >= 4,
             a = "PlayPublishRecv" => client_phase_ # "media_handle" /\ p = "media_handle"
      PROVE  AnswersInPhase'
  <2>1. /\ Len(new) = Len(old) + 1 /\ new[Len(old) + 1] = a
        /\ \A i \in 1 .. Len(old) : new[i] = old[i]
    BY <1>1, <1>4, Appended
  <2> HIDE DEF old, new, names
  <2>2. \A i \in 1 .. Len(new) :
          /\ new[i] = "RtmpConnectRecv" => SentRank' >= 3
          /\ new[i] = "CreateStreamRecv" => SentRank' >= 4
          /\ new[i] = "PlayPublishRecv" => client_phase_' = "media_handle"
    BY <1>1, <1>2, <1>4, <2>1
  <2>3. \A i, j \in 1 .. Len(new) :
          new[i] = "PlayPublishRecv" /\ new[j] = "PlayPublishRecv" => i = j
    BY <1>1, <1>2, <1>4, <2>1
  <2> QED
    BY <2>2, <2>3 DEF AnswersInPhase, new
<1>5. CASE new = old \o AnswerReports(client_phase_)
           /\ (client_phase_ = "playpublish_resp" => p = "media_handle")
  <2>1. AnswerReports(client_phase_) \in
              {<<>>, <<"RtmpConnectRecv">>, <<"CreateStreamRecv">>, <<"PlayPublishRecv">>}
    BY <1>1, AnswersNamed
  <2>2. CASE AnswerReports(client_phase_) = <<>>
    <3>1. old \o <<>> = old
      BY <1>1
    <3> QED
      BY <1>3, <1>5, <2>2, <3>1
  <2>3. CASE AnswerReports(client_phase_) = <<"RtmpConnectRecv">>
    <3>1. client_phase_ = "connect_resp"
      BY <1>1, <2>3, AnswersNamed
    <3>2. SentRank = 3
      BY <3>1 DEF SentRank
    <3> QED
      BY <1>4, <1>5, <2>3, <3>2
  <2>4. CASE AnswerReports(client_phase_) = <<"CreateStreamRecv">>
    <3>1. client_phase_ = "create_stream_resp"
      BY <1>1, <2>4, AnswersNamed
    <3>2. SentRank = 4
      BY <3>1 DEF SentRank
    <3> QED
      BY <1>4, <1>5, <2>4, <3>2
  <2>5. CASE AnswerReports(client_phase_) = <<"PlayPublishRecv">>
    <3>1. client_phase_ = "playpublish_resp"
      BY <1>1, <2>5, AnswersNamed
    <3> QED
      BY <1>4, <1>5, <2>5, <3>1
  <2> QED
    BY <2>1, <2>2, <2>3, <2>4, <2>5
<1> QED
  BY <1>3, <1>5

(* One round of the loop, its last included.                               *)
LEMMA Receives ==
  ASSUME DialogueInv, ReceiveRespMessage
  PROVE  DialogueInv'
<1>1. /\ whole > 0 /\ conn = "open" /\ s2c # <<>> /\ s2c \in Seq(ToClient)
      /\ reported \in Record /\ c2s \in Seq(ToServer)
      /\ whole \in Nat /\ Tail(s2c) \in Seq(ToClient) /\ Len(Tail(s2c)) = Len(s2c) - 1
      /\ Len(s2c) \in Nat /\ framing \in BOOLEAN
  BY Taken DEF DialogueInv, RtmpTypeOK, Reports, InLoop, ReceiveRespMessage
<1>0. PICK m, left : /\ HandleRound(m, left)
                     /\ framing => m = Head(s2c)
                     /\ ~framing => m \in Garbage
  BY DEF ReceiveRespMessage
<1> DEFINE st == HandleOne(Loop0, m)
           ok == whole = 1 /\ ~st.failed /\ ReturnsOk(m, left)
           next == IF ok THEN RequestWhenOk ELSE <<>>
<1>2. /\ Placed(m)
      /\ Handled(st, m) \/ (~framing /\ st = [Loop0 EXCEPT !.failed = TRUE])
  BY <1>0, <1>1, OneHandled, GarbageHandled
<1>3. /\ conn' = IF st.failed THEN "closed" ELSE conn
      /\ whole' = IF st.failed THEN 0 ELSE whole - 1
      /\ client_phase_' = IF ok THEN PhaseWhenOk ELSE st.phase
      /\ c2s' = c2s \o st.out \o next
      /\ reported' = ReportOthers(ReportSends(st.rep, next),
                                  IF st.failed THEN {"close"} ELSE {})
      /\ ready_' = st.ready /\ heard' = st.heard
      /\ s2c' = Tail(s2c) /\ entry' = (IF whole' = 0 THEN "none" ELSE entry)
      /\ UNCHANGED <<publish_flag_, half, framing, server_phase_, is_ready_, media>>
  BY <1>0, Zenon DEF HandleRound, Loop0
<1> HIDE DEF st
<1>b. ServerReady' /\ DoneRank' = DoneRank /\ DoneRank \in 1 .. 5 /\ SentRank \in {1, 3, 4, 5}
  BY <1>3, PhaseRanks DEF DoneRank, DialogueInv, RtmpTypeOK, ServerReady
<1>10. SendsInPhase /\ reported.sends # <<>>
  BY <1>1 DEF DialogueInv, Reports, Silent
(* The garbage ends the session.                                           *)
<1>a. CASE ~framing /\ st = [Loop0 EXCEPT !.failed = TRUE]
  <2>1. /\ st.failed /\ st.phase = client_phase_ /\ st.out = <<>> /\ st.rep = reported
        /\ st.ready = ready_ /\ st.heard = heard
    BY <1>a DEF Loop0
  <2>2. /\ conn' = "closed" /\ whole' = 0 /\ client_phase_' = client_phase_
        /\ ready_' = ready_ /\ heard' = heard /\ next = <<>>
        /\ reported' = ReportOthers(ReportSends(reported, <<>>), {"close"})
    BY <1>3, <2>1
  <2>3. c2s' = c2s
    <3>1. c2s' = (c2s \o <<>>) \o <<>>
      BY <1>3, <2>1, <2>2
    <3> QED
      BY <1>1, <3>1
  <2>4. /\ reported' \in Record /\ reported'.sends = reported.sends
        /\ reported'.answers = reported.answers /\ "close" \in reported'.others
    <3>1. ReportOthers(ReportSends(reported, <<>>), {}) = reported
      BY <1>1, NothingReported
    <3>2. ReportSends(reported, <<>>) = reported
      <4>1. ReportSends(reported, <<>>).sends = reported.sends \o <<>>
        BY <1>1 DEF ReportSends, Record
      <4>2. reported.sends \o <<>> = reported.sends
        BY <1>1 DEF Record
      <4> QED
        BY <1>1, <4>1, <4>2 DEF ReportSends, Record
    <3> QED
      BY <1>1, <2>2, <3>2 DEF ReportOthers, Record
  <2>5. SentRank' = SentRank /\ ConnectRead' = ConnectRead
    BY <2>2 DEF SentRank, ConnectRead
  <2>6. Reports'
    BY <2>2, <2>4, <2>5 DEF DialogueInv, Reports, SendsInPhase, AnswersInPhase
  <2>7. InLoop' /\ Silent' /\ LostBehind'
    BY <1>3, <1>10, <1>a, <2>2, <2>4 DEF DialogueInv, InLoop, Silent, LostBehind
  <2>8. RtmpTypeOK'
    BY <1>1, <1>3, <2>2, <2>4 DEF DialogueInv, RtmpTypeOK, Record
  <2> QED
    BY <1>1, <1>3, <1>a, <1>b, <2>2, <2>3, <2>5, <2>6, <2>7, <2>8 DEF DialogueInv
<1>c. SUFFICES ASSUME Handled(st, m)
               PROVE  DialogueInv'
  BY <1>2, <1>a
<1>d. /\ ~st.failed /\ st.phase = PhaseOn(m)
      /\ st.out \in {<<>>, <<Control("chunk_size")>>}
      /\ st.ready \in BOOLEAN
      /\ st.rep \in Record /\ st.rep.sends = reported.sends
      /\ \/ st.rep.answers = reported.answers
         \/ /\ m.kind = "command"
            /\ st.rep.answers = reported.answers \o AnswerReports(client_phase_)
      /\ "connect" \in st.heard <=> ConnectRead \/ m = ConnectResult
  BY <1>c DEF Handled
<1>4. /\ conn' = "open" /\ whole' = whole - 1
      /\ reported' = ReportOthers(ReportSends(st.rep, next), {})
  BY <1>1, <1>d, <1>3
<1>5. ConnectRead' = (ConnectRead \/ m = ConnectResult)
  BY <1>d, <1>3 DEF ConnectRead
<1>6. framing => Answered(s2c, DoneRank, ConnectRead)'
  <2> SUFFICES ASSUME framing PROVE Answered(s2c, DoneRank, ConnectRead)'
    OBVIOUS
  <2>1. Answered(s2c, DoneRank, ConnectRead) /\ m = Head(s2c)
    BY <1>0 DEF DialogueInv
  <2>2. Answered(Tail(s2c), DoneRank, ConnectRead \/ m = ConnectResult)
    BY <1>1, <1>b, <2>1, AnswerRead, ReadOrNot
  <2> QED
    BY <1>3, <1>b, <1>5, <2>2
<1> HIDE DEF ok
<1>7. /\ st.phase \in ClientPhases
      /\ client_phase_ \in {"connect_resp", "create_stream"} =>
           st.phase \in {"connect_resp", "create_stream"}
      /\ client_phase_ \in {"create_stream_resp", "create_publish", "create_play"} =>
           st.phase \in {"create_stream_resp", "create_publish", "create_play"}
      /\ client_phase_ = "media_handle" => st.phase = "media_handle"
      /\ client_phase_ = "playpublish_resp" =>
           st.phase = IF m.kind = "command" THEN "media_handle" ELSE "playpublish_resp"
      /\ framing /\ st.phase \in {"create_stream", "create_publish", "create_play"} =>
           ConnectRead'
  BY <1>2, <1>5, <1>d DEF Placed
<1> DEFINE q == c2s \o st.out
<1>8. UnderWay(q, DoneRank, SentRank) /\ q \in Seq(ToServer)
  <2>1. UnderWay(c2s, DoneRank, SentRank)
    BY DEF DialogueInv
  <2>2. CASE st.out = <<>>
    <3>1. q = c2s
      BY <1>1, <2>2
    <3> QED
      BY <1>1, <2>1, <3>1
  <2>3. CASE st.out = <<Control("chunk_size")>>
    <3>1. Control("chunk_size") \in ToServer
      BY DEF ToServer
    <3>2. q = Append(c2s, Control("chunk_size")) /\ q \in Seq(ToServer)
      BY <1>1, <2>3, <3>1, Appended
    <3>3. UnderWay(Append(c2s, Control("chunk_size")), DoneRank, SentRank)
      BY <1>1, <1>b, <2>1, <3>1, Ranks, MessagesDiffer, OtherSent
    <3> QED
      BY <3>2, <3>3
  <2> QED
    BY <1>d, <2>2, <2>3
<1> HIDE DEF q
<1>9. /\ whole' \in 0 .. Len(s2c') /\ (half' => whole' < Len(s2c')) /\ half' \in BOOLEAN
      /\ ready_' \in BOOLEAN /\ whole' \in Nat /\ s2c' \in Seq(ToClient)
  BY <1>1, <1>d, <1>3, <1>4 DEF DialogueInv, RtmpTypeOK
(* The result does not send: the phase and the reports are the message's.  *)
<1>11. ASSUME next = <<>>, NEW p \in ClientPhases, client_phase_' = p, SentRank' = SentRank,
              p # "initial", client_phase_ = "media_handle" => p = "media_handle",
              m.kind = "command" /\ client_phase_ = "playpublish_resp" => p = "media_handle",
              framing /\ p \in {"create_stream", "create_publish", "create_play"} =>
                ConnectRead',
              InLoop', LostBehind'
       PROVE  DialogueInv'
  <2>1. c2s' = q
    <3>1. c2s' = q \o <<>>
      BY <1>3, <1>11 DEF q
    <3> QED
      BY <1>8, <3>1
  <2>2. reported' = st.rep
    BY <1>d, <1>4, <1>11, NothingReported
  <2>3. AnswersInPhase'
    BY <1>d, <1>b, <1>11, <2>2, AnswersKept
  <2>4. SendsInPhase'
    BY <1>d, <1>10, <1>11, <2>2 DEF SendsInPhase
  <2>5. Reports'
    BY <1>d, <1>4, <2>2, <2>3, <2>4 DEF Reports
  <2>6. Silent'
    BY <1>d, <1>4, <1>10, <1>11, <2>2 DEF Silent, DialogueInv
  <2>7. RtmpTypeOK'
    BY <1>d, <1>3, <1>4, <1>9, <1>11, <2>2 DEF DialogueInv, RtmpTypeOK, Record
  <2> QED
    BY <1>1, <1>3, <1>b, <1>6, <1>8, <1>9, <1>11, <2>1, <2>5, <2>6, <2>7 DEF DialogueInv
<1>12. CASE ~ok
  <2>1. next = <<>> /\ client_phase_' = st.phase
    BY <1>3, <1>12
  <2>2. SentRank' = SentRank /\ InLoop'
    BY <1>1, <1>3, <1>4, <1>7, <1>9, <2>1 DEF SentRank, InLoop, DialogueInv
  <2>4. LostBehind'
    BY <1>3, <1>7, <2>1 DEF LostBehind, DialogueInv
  <2>3. st.phase # "initial"
    BY <1>1, <1>7 DEF InLoop, DialogueInv
  <2> QED
    BY <1>7, <1>11, <2>1, <2>2, <2>3, <2>4
<1>13. CASE ok
  <2>1. /\ whole' = 0 /\ client_phase_' = PhaseWhenOk /\ next = RequestWhenOk
        /\ m.kind \in {"control", "command"}
    BY <1>3, <1>4, <1>13 DEF ok, ReturnsOk
  <2>2. InLoop'
    BY <2>1 DEF InLoop
  <2>8. LostBehind'
    BY <2>1 DEF LostBehind, PhaseWhenOk
  <2>3. CASE entry \in {"playpublish_resp", "media_handle"}
    <3>1. next = <<>> /\ client_phase_' = "media_handle"
      BY <2>1, <2>3 DEF PhaseWhenOk, RequestWhenOk
    <3>2. SentRank' = SentRank
      BY <1>1, <2>3, <3>1 DEF SentRank, DialogueInv, InLoop
    <3> QED
      BY <1>11, <2>2, <2>8, <3>1, <3>2 DEF ClientPhases
  <2>4. ASSUME NEW r \in ToServer, next = <<r>>, Rank(r) = SentRank + 1,
               RequestReport(r) \in {"CreateStreamSend", "PlayPublishSend"},
               SentRank \in {3, 4}, SentRank' = SentRank + 1,
               client_phase_' \in {"create_stream_resp", "playpublish_resp"},
               client_phase_ \notin {"playpublish_resp", "media_handle"},
               RequestReport(r) =
                 IF SentRank = 3 THEN "CreateStreamSend" ELSE "PlayPublishSend"
        PROVE  DialogueInv'
    <3>1. c2s' = Append(q, r) /\ c2s' \in Seq(ToServer)
      <4>1. c2s' = q \o <<r>>
        BY <1>3, <2>4 DEF q
      <4> QED
        BY <1>8, <2>4, <4>1, Appended
    <3>2. UnderWay(Append(q, r), DoneRank, SentRank + 1)
      BY <1>b, <1>8, <2>4, RequestSent
    <3>3. /\ reported' \in Record /\ reported'.answers = st.rep.answers
          /\ reported'.sends = Append(reported.sends, RequestReport(r))
      <4> DEFINE rep == ReportSends(st.rep, <<r>>)
      <4>1. /\ rep \in Record /\ rep.answers = st.rep.answers
            /\ rep.sends = Append(st.rep.sends, RequestReport(r))
        BY <1>d, <2>4, SendReported
      <4> HIDE DEF rep
      <4>2. reported' = rep
        BY <1>4, <2>4, <4>1, NothingReported DEF rep
      <4> QED
        BY <1>d, <4>1, <4>2
    <3>4. SendsInPhase' /\ reported'.sends # <<>>
      <4>1. CASE SentRank = 3
        <5>1. reported.sends = <<"SendC0C1", "RtmpConnectSend">>
          BY <1>10, <4>1 DEF SendsInPhase
        <5>2. reported'.sends = <<"SendC0C1", "RtmpConnectSend", "CreateStreamSend">>
          <6>1. RequestReport(r) = "CreateStreamSend"
            BY <2>4, <4>1
          <6> QED
            BY <3>3, <5>1, <6>1, SendsGrow, Zenon
        <5> QED
          BY <2>4, <4>1, <5>2, SendsDiffer DEF SendsInPhase
      <4>2. CASE SentRank = 4
        <5>1. reported.sends = <<"SendC0C1", "RtmpConnectSend", "CreateStreamSend">>
          BY <1>10, <4>2 DEF SendsInPhase
        <5>2. reported'.sends = <<"SendC0C1", "RtmpConnectSend", "CreateStreamSend",
                                  "PlayPublishSend">>
          <6>1. RequestReport(r) = "PlayPublishSend"
            BY <2>4, <4>2
          <6> QED
            BY <3>3, <5>1, <6>1, SendsGrow, Zenon
        <5> QED
          BY <2>4, <4>2, <5>2, SendsDiffer DEF SendsInPhase
      <4> QED
        BY <2>4, <4>1, <4>2
    <3>5. AnswersInPhase'
      BY <1>d, <2>4, <3>3, AnswersKept DEF ClientPhases
    <3>6. Reports'
      BY <1>4, <3>3, <3>4, <3>5 DEF Reports
    <3>7. Silent'
      BY <1>4, <2>4, <3>4 DEF Silent
    <3>8. RtmpTypeOK'
      BY <1>3, <1>4, <1>9, <2>4, <3>3 DEF DialogueInv, RtmpTypeOK, Record, ClientPhases
    <3> QED
      BY <1>1, <1>3, <1>b, <1>6, <1>9, <2>2, <2>4, <2>8, <3>1, <3>2, <3>6, <3>7,
         <3>8 DEF DialogueInv
  <2>5. Request("createStream") \in ToServer /\ Request("publish/play") \in ToServer
    BY DEF ToServer, Requests
  <2>6. CASE entry = "connect_resp"
    <3>1. next = <<Request("createStream")>> /\ client_phase_' = "create_stream_resp"
      BY <2>1, <2>6 DEF PhaseWhenOk, RequestWhenOk
    <3>2. /\ SentRank = 3 /\ SentRank' = 4
          /\ client_phase_ \notin {"playpublish_resp", "media_handle"}
      BY <1>1, <2>6, <3>1 DEF SentRank, DialogueInv, InLoop
    <3> QED
      BY <2>4, <2>5, <3>1, <3>2, Ranks, ReportNames
  <2>7. CASE entry = "create_stream_resp"
    <3>1. next = <<Request("publish/play")>> /\ client_phase_' = "playpublish_resp"
      BY <2>1, <2>7 DEF PhaseWhenOk, RequestWhenOk
    <3>2. /\ SentRank = 4 /\ SentRank' = 5
          /\ client_phase_ \notin {"playpublish_resp", "media_handle"}
      BY <1>1, <2>7, <3>1 DEF SentRank, DialogueInv, InLoop
    <3> QED
      BY <2>4, <2>5, <3>1, <3>2, Ranks, ReportNames
  <2> QED
    BY <1>1, <2>3, <2>6, <2>7 DEF DialogueInv, InLoop
<1> QED
  BY <1>12, <1>13

-----------------------------------------------------------------------------
(* The invariant and what it says.                                         *)

LEMMA DialogueStep ==
  DialogueInv /\ [RtmpNext]_rtmpVars => DialogueInv'
<1> SUFFICES ASSUME DialogueInv, [RtmpNext]_rtmpVars
             PROVE  DialogueInv'
  OBVIOUS
<1>1. CASE OnRead
  BY <1>1, Handshakes, Responds, MovesOn DEF OnRead, Readings
<1>2. CASE UNCHANGED rtmpVars
  <2>1. /\ UNCHANGED <<conn, publish_flag_, client_phase_, ready_, whole, entry, half, framing>>
        /\ UNCHANGED <<c2s, s2c, server_phase_, is_ready_, media, reported, heard>>
    BY <1>2 DEF rtmpVars
  <2>2. SentRank' = SentRank /\ DoneRank' = DoneRank /\ ConnectRead' = ConnectRead
    BY <2>1 DEF SentRank, DoneRank, ConnectRead
  <2>3. Reports' /\ InLoop' /\ Silent' /\ ServerReady' /\ LostBehind'
    BY <2>1, <2>2 DEF DialogueInv, Reports, SendsInPhase, AnswersInPhase, InLoop, Silent,
       ServerReady, LostBehind
  <2>4. RtmpTypeOK'
    BY <2>1 DEF DialogueInv, RtmpTypeOK
  <2> QED
    BY <2>1, <2>2, <2>3, <2>4 DEF DialogueInv
<1> QED
  BY <1>1, <1>2, Connects, Receives, Errors, Sends, Serves, Streams DEF RtmpNext

(* The head of the stream meets the server's phase.                        *)
LEMMA InvServerInStep ==
  DialogueInv => ServerInStep
<1> SUFFICES ASSUME DialogueInv, c2s # <<>>
             PROVE  ServerInStep
  BY DEF ServerInStep
<1>1. /\ c2s \in Seq(ToServer) /\ DoneRank \in 1 .. 5 /\ SentRank \in 1 .. 5
      /\ UnderWay(c2s, DoneRank, SentRank) /\ server_phase_ \in ServerPhases
  BY PhaseRanks DEF DialogueInv, RtmpTypeOK
<1>2. /\ Rank(Head(c2s)) # 1 => Rank(Head(c2s)) = DoneRank + 1
      /\ Head(c2s) = Media => DoneRank = 5
  BY <1>1, RequestHandled
<1>a. ServerReady
  BY DEF DialogueInv
<1>3. /\ DoneRank = 2 => server_phase_ = "connect"
      /\ DoneRank = 3 => server_phase_ = "create_stream"
      /\ DoneRank = 4 => server_phase_ = "create_publish_play" /\ ~is_ready_
      /\ DoneRank = 5 => is_ready_ /\ (publish_flag_ => server_phase_ = "media_handle")
  BY <1>1, <1>a DEF DoneRank, ServerPhases, ServerReady
<1>4. /\ Head(c2s) = Request("connect") => DoneRank = 2
      /\ Head(c2s) = Request("createStream") => DoneRank = 3
      /\ Head(c2s) = Request("publish/play") => DoneRank = 4
  BY <1>1, <1>2, Ranks
<1> QED
  BY <1>2, <1>3, <1>4 DEF ServerInStep

(* Prefixes of the four sends.                                             *)
LEMMA SendsPrefix ==
  ASSUME NEW s \in {<<>>, <<"SendC0C1">>, <<"SendC0C1", "RtmpConnectSend">>,
                    <<"SendC0C1", "RtmpConnectSend", "CreateStreamSend">>,
                    <<"SendC0C1", "RtmpConnectSend", "CreateStreamSend", "PlayPublishSend">>}
  PROVE  IsPrefix(s, <<"SendC0C1", "RtmpConnectSend", "CreateStreamSend",
                       "PlayPublishSend">>)
<1> DEFINE names == {"SendC0C1", "RtmpConnectSend", "CreateStreamSend", "PlayPublishSend"}
           all == <<"SendC0C1", "RtmpConnectSend", "CreateStreamSend", "PlayPublishSend">>
<1>1. /\ s \in Seq(names) /\ Len(s) \in 0 .. 4
      /\ \A i \in 1 .. Len(s) : s[i] = all[i]
  <2>1. CASE s = <<>>
    BY <2>1
  <2>2. CASE s = <<"SendC0C1">>
    BY <2>2
  <2>3. CASE s = <<"SendC0C1", "RtmpConnectSend">>
    BY <2>3
  <2>4. CASE s = <<"SendC0C1", "RtmpConnectSend", "CreateStreamSend">>
    BY <2>4
  <2>5. CASE s = all
    BY <2>5
  <2> QED
    BY <2>1, <2>2, <2>3, <2>4, <2>5
<1>2. all \in Seq(names) /\ Len(all) = 4
  OBVIOUS
<1> HIDE DEF all, names
<1>3. SubSeq(s, 1, Len(s)) = SubSeq(all, 1, Len(s))
  BY <1>1, <1>2
<1> QED
  BY <1>1, <1>2, <1>3 DEF IsPrefix, all

LEMMA InvReportsTell ==
  DialogueInv => ReportsTell
<1> SUFFICES ASSUME DialogueInv PROVE ReportsTell
  OBVIOUS
<1> DEFINE sent(e) == e \in ToSet(reported.sends)
           got(e) == \E i \in DOMAIN reported.answers : reported.answers[i] = e
<1>1. /\ SentRank \in {1, 3, 4, 5} /\ SendsInPhase /\ AnswersInPhase
      /\ DOMAIN reported.answers = 1 .. Len(reported.answers)
  BY PhaseRanks DEF DialogueInv, RtmpTypeOK, Reports, Record
<1>2. IsPrefix(reported.sends, <<"SendC0C1", "RtmpConnectSend", "CreateStreamSend",
                                 "PlayPublishSend">>)
  BY <1>1, SendsPrefix DEF SendsInPhase
<1>3. /\ SentRank >= 3 => 2 \in DOMAIN reported.sends /\ reported.sends[2] = "RtmpConnectSend"
      /\ SentRank >= 4 => 3 \in DOMAIN reported.sends /\ reported.sends[3] = "CreateStreamSend"
      /\ SentRank = 5 => 4 \in DOMAIN reported.sends /\ reported.sends[4] = "PlayPublishSend"
  BY <1>1 DEF SendsInPhase
<1>4. ASSUME NEW i \in DOMAIN reported.sends PROVE sent(reported.sends[i])
  BY DEF ToSet
<1>5. /\ SentRank >= 3 => sent("RtmpConnectSend")
      /\ SentRank >= 4 => sent("CreateStreamSend")
      /\ SentRank = 5 => sent("PlayPublishSend")
  BY <1>3, <1>4, Zenon
<1>6. /\ got("RtmpConnectRecv") => SentRank >= 3
      /\ got("CreateStreamRecv") => SentRank >= 4
      /\ got("PlayPublishRecv") => client_phase_ = "media_handle"
  BY <1>1 DEF AnswersInPhase
<1>7. client_phase_ = "media_handle" => SentRank = 5
  BY DEF SentRank
<1>8. \A i, j \in DOMAIN reported.answers :
        reported.answers[i] = "PlayPublishRecv" /\ reported.answers[j] = "PlayPublishRecv"
          => i = j
  BY <1>1 DEF AnswersInPhase
<1>9. conn \in {"closed", "eof"} /\ client_phase_ # "initial" => "close" \in reported.others
  BY DEF DialogueInv, Reports
<1> QED
  BY <1>2, <1>5, <1>6, <1>7, <1>8, <1>9 DEF ReportsTell

(* However TCP cuts the stream, and although a control message alone moves *)
(* the client on, RtmpClientSession, the server's RtmpControlHandler and   *)
(* the reporter never disagree on the dialogue: requests meet the phase    *)
(* they are for, no answer is refused, and each is reported behind its     *)
(* request.                                                                *)
THEOREM RtmpDialogueInStep == RtmpSpec => []DialogueInStep
<1>1. RtmpInit => DialogueInv
  BY Start
<1>2. DialogueInv /\ [RtmpNext]_rtmpVars => DialogueInv'
  BY DialogueStep
<1>3. DialogueInv => DialogueInStep
  BY InvServerInStep, InvReportsTell DEF DialogueInStep, DialogueInv, NoAnswerRejected, Silent
<1> QED
  BY <1>1, <1>2, <1>3, PTL DEF RtmpSpec
=============================================================================
