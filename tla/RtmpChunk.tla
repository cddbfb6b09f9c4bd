------------------------------ MODULE RtmpChunk ------------------------------
(***************************************************************************)
(* RTMP messages in chunks: WriteDataByChunkStream and GenData at the      *)
(* sending end (chunk_stream.cpp) or another implementation of RTMP, TCP   *)
(* that cuts the bytes anywhere, and ReadChunkStream (rtmp_session_base,   *)
(* chunk_stream.cpp) called by ReceiveRespMessage at the receiving end.    *)
(*                                                                         *)
(* The stream is a sequence of the parts that the reader asks for as a     *)
(* whole: a byte of a basic header, a message header, an extended          *)
(* timestamp, a byte of payload.  A reader that meets another part than    *)
(* the one it asks for has lost its place and is not followed further.     *)
(***************************************************************************)
EXTENDS Naturals, Sequences, SequencesExt

CONSTANTS
  Csids,             \* chunk streams
  WideCsids,         \* those whose basic header takes two bytes
  DefSize, NewSize,  \* the chunk size, and the one a "size" message sets
  MaxLen,            \* longest payload
  ExtTs,             \* 0xffffff: from here on timestamps are extended
  Stamps,            \* timestamps, and deltas of them
  Window,            \* bound: a sender waits while so many parts are in TCP
  MaxMsgs            \* bound: messages

ASSUME ChunkConstants ==
  /\ WideCsids \subseteq Csids /\ DefSize \in Nat \ {0} /\ NewSize \in Nat \ {0}
  /\ MaxLen \in Nat /\ ExtTs \in Nat \ {0} /\ Stamps \subseteq Nat
  /\ Window \in Nat \ {0} /\ MaxMsgs \in Nat

VARIABLES
  own,       \* the sender is this code, not another implementation
  out,       \* csid -> the sender's chunk stream
  out_size,  \* the sender's chunk size
  sent,      \* messages begun
  wire,      \* parts in TCP
  rd,        \* the receiving RtmpSessionBase with its ChunkStreams
  busy,      \* OnRead is in the loop of ReceiveRespMessage
  pending,   \* history: csid -> messages begun and not handed over
  got,       \* history: <<csid, message>> last handed over
  odd        \* history: the sender used what this code does not handle

senderVars == <<own, out, out_size, sent>>
vars == <<senderVars, wire, rd, busy, pending, got, odd>>

(* A message; "size" sets the chunk size, "other" has a type id that       *)
(* ReceiveRespMessage does not know.                                       *)
Message(id, kind, ts, len) ==
  [kind |-> kind, ts |-> ts, body |-> [i \in 1..len |-> <<id, i>>]]

ChunkStream ==
  [fmt_ |-> 0, ext_ts_flag_ |-> FALSE, timestamp32_ |-> 0, timestamp_delta_ |-> 0,
   kind |-> "data", msg_len_ |-> 0, remain_ |-> 0, in_payload |-> FALSE,
   data |-> <<>>, ready |-> FALSE]

Init ==
  /\ own \in BOOLEAN /\ sent = 0 /\ out_size = DefSize
  /\ out = [c \in Csids |-> [ts |-> 0, delta |-> 0, len |-> 0, kind |-> "data",
                             id |-> 0, left |-> 0, last |-> 0, ext |-> FALSE,
                             ever |-> FALSE]]
  /\ wire = <<>> /\ busy = FALSE
  /\ rd = [recv_buffer_ |-> <<>>, fmt_ready_ |-> FALSE, fmt_ |-> 0, csid_ |-> "none",
           chunk_size_ |-> DefSize, cs_map_ |-> [c \in Csids |-> ChunkStream],
           more |-> FALSE, lost |-> FALSE, torn |-> FALSE]
  /\ pending = [c \in Csids |-> <<>>] /\ got = <<>> /\ odd = FALSE

-----------------------------------------------------------------------------
(* The sending end.                                                        *)

Less(a, b) == IF a < b THEN a ELSE b

Basic(fmt, c) ==
  <<[k |-> "basic", fmt |-> fmt, csid |-> c]>>
    \o IF c \in WideCsids THEN <<[k |-> "csid"]>> ELSE <<>>
HeaderPart(ts, len, kind) == <<[k |-> "head", ts |-> ts, len |-> len, kind |-> kind]>>
ExtPart(ts) == <<[k |-> "ext", ts |-> ts]>>
PayloadPart(id, from, n) == [i \in 1..n |-> [k |-> "pay", of |-> <<id, from + i>>]]

(* GenData: one chunk.  The timestamp is cut to three bytes.               *)
GenData(fmt, c, m, from, n) ==
  Basic(fmt, c)
    \o (IF fmt = 0 THEN HeaderPart(m.ts % (ExtTs + 1), m.len, m.kind) ELSE <<>>)
    \o PayloadPart(m.id, from, n)

(* WriteDataByChunkStream: type 0, then type 3.                            *)
OwnChunks(c, m) ==
  LET Count == (m.len + out_size - 1) \div out_size
      Part(i) == GenData(IF i = 1 THEN 0 ELSE 3, c, m, (i - 1) * out_size,
                         Less(out_size, m.len - (i - 1) * out_size))
  IN  FlattenSeq([i \in 1..Count |-> Part(i)])

(* Bounds: the sender stops after something odd; one message is wide;      *)
(* only data is longer than one byte.                                      *)
MaySend(c, kind, len) ==
  /\ sent < MaxMsgs /\ Len(wire) < Window /\ ~odd
  /\ c \in WideCsids => out[c].id = 0
  /\ kind # "data" => len = 1

SizeAfter(kind) == IF kind = "size" THEN NewSize ELSE out_size

OwnWrite(c, kind, ts, len) ==
  /\ own /\ MaySend(c, kind, len) /\ c \notin WideCsids
  /\ LET m == [id |-> sent + 1, kind |-> kind, ts |-> ts, len |-> len]
     IN  wire' = wire \o OwnChunks(c, m)
  /\ sent' = sent + 1 /\ out_size' = SizeAfter(kind)
  /\ pending' = [pending EXCEPT ![c] = Append(@, Message(sent + 1, kind, ts, len))]
  /\ odd' = (odd \/ ts >= ExtTs \/ kind = "other")
  /\ UNCHANGED <<own, out, rd, busy, got>>

(* External: a chunk of another implementation, which repeats an extended  *)
(* timestamp in every chunk of type 3.                                     *)
PeerChunk(fmt, c, o, stamp) ==
  LET n == Less(out_size, o.left)
  IN  /\ wire' = wire \o Basic(fmt, c)
           \o (IF fmt = 3 THEN <<>> ELSE HeaderPart(Less(stamp, ExtTs), o.len, o.kind))
           \o (IF o.ext THEN ExtPart(stamp) ELSE <<>>)
           \o PayloadPart(o.id, o.len - o.left, n)
      /\ out' = [out EXCEPT ![c] = [o EXCEPT !.left = o.left - n, !.last = fmt]]
      /\ out_size' = IF n = o.left THEN SizeAfter(o.kind) ELSE out_size

(* Forms of a first chunk that ReadMsgFormat1 to ReadMsgFormat3 take       *)
(* wrongly: an extended delta that a later chunk repeats (for a message    *)
(* that begins with type 3, after the chunk size went down), and a message *)
(* that begins with type 3 unless the chunk before it was of type 1 or 2   *)
(* and used an extended timestamp like the message, or none ever did.      *)
Mishandled(fmt, c, o) ==
  \/ fmt # 0 /\ o.ext /\ o.left > out_size
  \/ fmt = 3 /\ ~(/\ out[c].last \in {1, 2}
                  /\ o.ever => o.ext)

(* External: the first chunk of a message.  Type 2 keeps the length, type  *)
(* 3 also the delta.                                                       *)
PeerStart(c, fmt, kind, stamp, len) ==
  LET ts == IF fmt = 0 THEN stamp ELSE out[c].ts + stamp
      o == [ts |-> ts, delta |-> stamp, len |-> len, kind |-> kind, id |-> sent + 1,
            left |-> len, last |-> fmt, ext |-> stamp >= ExtTs,
            ever |-> out[c].ever \/ stamp >= ExtTs]
  IN  /\ ~own /\ MaySend(c, kind, len) /\ out[c].left = 0
      /\ fmt # 0 => out[c].id > 0
      /\ fmt \in {2, 3} => len = out[c].len /\ kind = out[c].kind
      /\ fmt = 3 => stamp = out[c].delta
      /\ PeerChunk(fmt, c, o, stamp)
      /\ sent' = sent + 1
      /\ pending' = [pending EXCEPT ![c] = Append(@, Message(sent + 1, kind, ts, len))]
      /\ odd' = (odd \/ Mishandled(fmt, c, o) \/ kind = "other")
      /\ UNCHANGED <<own, rd, busy, got>>

(* External: a further chunk.                                              *)
PeerContinue(c) ==
  /\ out[c].left > 0 /\ Len(wire) < Window
  /\ PeerChunk(3, c, out[c], out[c].delta)
  /\ UNCHANGED <<own, sent, rd, busy, pending, got, odd>>

-----------------------------------------------------------------------------
(* The receiving end.  Each operator takes the session r and returns the   *)
(* session after the call; more stands for RTMP_NEED_READ_MORE.            *)

More(r) == [r EXCEPT !.more = TRUE]
Lost(r) == [r EXCEPT !.lost = TRUE]
Drop(r, n) == [r EXCEPT !.recv_buffer_ = SubSeq(@, n + 1, Len(@))]
Kind(r, i) == r.recv_buffer_[i].k
Require(r, n) == Len(r.recv_buffer_) >= n
(* Four bytes: an extended timestamp, or at least two smaller parts.       *)
RequireExt(r) == Require(r, 2) \/ (Require(r, 1) /\ Kind(r, 1) = "ext")
SetCs(r, cs) == [r EXCEPT !.cs_map_[r.csid_] = cs]

(* The first byte of a basic header is consumed even if the second one is  *)
(* still missing.                                                          *)
ReadFmtCsid(r) ==
  IF r.fmt_ready_ THEN r
  ELSE IF ~Require(r, 1) THEN More(r)
  ELSE IF Kind(r, 1) # "basic" THEN Lost(r)
  ELSE LET b == r.recv_buffer_[1]
           wide == b.csid \in WideCsids
       IN  IF wide /\ ~Require(r, 2) THEN [More(Drop(r, 1)) EXCEPT !.torn = TRUE]
           ELSE [Drop(r, IF wide THEN 2 ELSE 1) EXCEPT
                   !.fmt_ = b.fmt, !.csid_ = b.csid, !.fmt_ready_ = TRUE]

(* Mutant of ReadMsgFormat012: a delta is taken for a timestamp.           *)
ReadMsgFormat012Absolute(r, cs) ==
  IF ~Require(r, 1) THEN More(r)
  ELSE IF Kind(r, 1) # "head" THEN Lost(r)
  ELSE LET h == r.recv_buffer_[1]
           ext == h.ts >= ExtTs
           seen == [cs EXCEPT !.fmt_ = r.fmt_, !.ext_ts_flag_ = @ \/ ext]
       IN  IF ext /\ ~Require(r, 2) THEN More(SetCs(r, seen))
           ELSE IF ext /\ Kind(r, 2) # "ext" THEN Lost(r)
           ELSE LET ts == IF ext THEN r.recv_buffer_[2].ts ELSE h.ts
                    len == IF r.fmt_ = 2 THEN cs.msg_len_ ELSE h.len
                IN  Drop(SetCs(r, [seen EXCEPT
                           !.timestamp32_ = ts,
                           !.timestamp_delta_ = IF r.fmt_ = 0 THEN 0 ELSE ts,
                           !.kind = IF r.fmt_ = 2 THEN @ ELSE h.kind,
                           !.msg_len_ = len, !.remain_ = len, !.in_payload = TRUE]),
                         IF ext THEN 2 ELSE 1)

(* ReadMsgFormat0, 1 and 2.  ext_ts_flag_ is set and never taken back.     *)
ReadMsgFormat012(r, cs) ==
  IF ~Require(r, 1) THEN More(r)
  ELSE IF Kind(r, 1) # "head" THEN Lost(r)
  ELSE LET h == r.recv_buffer_[1]
           ext == h.ts >= ExtTs
           seen == [cs EXCEPT !.fmt_ = r.fmt_, !.ext_ts_flag_ = @ \/ ext]
       IN  IF ext /\ ~Require(r, 2) THEN More(SetCs(r, seen))
           ELSE IF ext /\ Kind(r, 2) # "ext" THEN Lost(r)
           ELSE LET ts == IF ext THEN r.recv_buffer_[2].ts ELSE h.ts
                    len == IF r.fmt_ = 2 THEN cs.msg_len_ ELSE h.len
                IN  Drop(SetCs(r, [seen EXCEPT
                           !.timestamp32_ = IF r.fmt_ = 0 THEN ts ELSE @ + ts,
                           !.timestamp_delta_ = IF r.fmt_ = 0 THEN 0 ELSE ts,
                           !.kind = IF r.fmt_ = 2 THEN @ ELSE h.kind,
                           !.msg_len_ = len, !.remain_ = len, !.in_payload = TRUE]),
                         IF ext THEN 2 ELSE 1)

(* ReadMsgFormat3 at the beginning of a message: what the chunk before was *)
(* decides how the timestamp moves; after a type 3 it does not.            *)
ReadMsgFormat3New(r, cs) ==
  LET reads == cs.fmt_ \in 0..2 /\ cs.ext_ts_flag_
      begun == [cs EXCEPT !.data = <<>>, !.ready = FALSE, !.remain_ = cs.msg_len_,
                          !.fmt_ = 3, !.in_payload = TRUE]
  IN  IF reads /\ ~RequireExt(r) THEN More(r)
      ELSE IF reads /\ Kind(r, 1) # "ext" THEN Lost(r)
      ELSE LET ts == IF reads THEN r.recv_buffer_[1].ts ELSE cs.timestamp_delta_
           IN  Drop(SetCs(r, [begun EXCEPT !.timestamp32_ =
                      IF cs.fmt_ \in {1, 2} THEN @ + ts ELSE IF reads THEN ts ELSE @]),
                    IF reads THEN 1 ELSE 0)

(* Mutant of ReadMsgFormat3Go: four bytes are always skipped.              *)
ReadMsgFormat3Skip(r, cs) ==
  IF cs.ext_ts_flag_ /\ ~RequireExt(r) THEN More(r)
  ELSE Drop(SetCs(r, [cs EXCEPT !.fmt_ = 3, !.in_payload = TRUE]), IF cs.ext_ts_flag_ THEN 1 ELSE 0)

(* ReadMsgFormat3 within a message: an extended timestamp is recognised by *)
(* its value.  (A payload that happens to look like it is left out.)       *)
ReadMsgFormat3Go(r, cs) ==
  IF cs.ext_ts_flag_ /\ ~RequireExt(r) THEN More(r)
  ELSE Drop(SetCs(r, [cs EXCEPT !.fmt_ = 3, !.in_payload = TRUE]),
            IF cs.ext_ts_flag_ /\ Kind(r, 1) = "ext"
               /\ r.recv_buffer_[1].ts = cs.timestamp32_ THEN 1 ELSE 0)

(* The phase_ moves on with a complete header.                             *)
ReadMessageHeader(r) ==
  LET cs == r.cs_map_[r.csid_]
  IN  IF r.more \/ r.lost \/ cs.in_payload THEN r
      ELSE IF r.fmt_ # 3 THEN ReadMsgFormat012(r, cs)
      ELSE IF cs.remain_ = 0 THEN ReadMsgFormat3New(r, cs)
      ELSE ReadMsgFormat3Go(r, cs)

(* Mutant of ReadMessagePayload: what is there is taken, the rest later.   *)
ReadMessagePayloadPart(r) ==
  LET cs == r.cs_map_[r.csid_]
      n == Less(Less(cs.remain_, r.chunk_size_), Len(r.recv_buffer_))
      part == SubSeq(r.recv_buffer_, 1, n)
  IN  IF r.more \/ r.lost THEN r
      ELSE IF \E i \in 1..n : part[i].k # "pay" THEN Lost(r)
      ELSE [Drop(SetCs(r, [cs EXCEPT !.data = @ \o [i \in 1..n |-> part[i].of],
                     !.remain_ = @ - n, !.ready = @ \/ cs.remain_ = n,
                     !.in_payload = FALSE]), n)
              EXCEPT !.fmt_ready_ = FALSE]

ReadMessagePayload(r) ==
  LET cs == r.cs_map_[r.csid_]
      n == Less(cs.remain_, r.chunk_size_)
      part == SubSeq(r.recv_buffer_, 1, n)
  IN  IF r.more \/ r.lost THEN r
      ELSE IF ~Require(r, n) THEN More(r)
      ELSE IF \E i \in 1..n : part[i].k # "pay" THEN Lost(r)
      ELSE [Drop(SetCs(r, [cs EXCEPT !.data = @ \o [i \in 1..n |-> part[i].of],
                     !.remain_ = @ - n, !.ready = @ \/ cs.remain_ = n,
                     !.in_payload = FALSE]), n)
              EXCEPT !.fmt_ready_ = FALSE]

-----------------------------------------------------------------------------
(* OnRead: some bytes arrive; the loop then reads chunks until one is not  *)
(* complete.                                                               *)
OnRead(n) ==
  /\ ~busy /\ ~rd.lost /\ n <= Len(wire)
  /\ wire' = SubSeq(wire, n + 1, Len(wire)) /\ busy' = TRUE
  /\ rd' = [rd EXCEPT !.recv_buffer_ = @ \o SubSeq(wire, 1, n)]
  /\ UNCHANGED <<senderVars, pending, got, odd>>

(* Mutant of AfterMessage: the stream is not Reset.                        *)
AfterMessageKeep(r, cs) ==
  [r EXCEPT !.chunk_size_ = IF cs.kind = "size" THEN NewSize ELSE @]

(* Mutant of AfterMessage: the new chunk size is one too large.            *)
AfterMessageSizeOff(r, cs) ==
  [r EXCEPT !.chunk_size_ = IF cs.kind = "size" THEN NewSize + 1 ELSE @,
            !.cs_map_[r.csid_] = [cs EXCEPT !.ready = FALSE, !.data = <<>>]]

(* ReceiveRespMessage with a message that is ready: its handler, then      *)
(* Reset, which an unknown type id does not reach.                         *)
AfterMessage(r, cs) ==
  [r EXCEPT !.chunk_size_ = IF cs.kind = "size" THEN NewSize ELSE @,
            !.cs_map_[r.csid_] = IF cs.kind = "other" THEN cs
                                 ELSE [cs EXCEPT !.ready = FALSE, !.data = <<>>]]

(* One round of the loop: ReadChunkStream, and a message if one is ready.  *)
ReceiveRespMessage ==
  /\ busy
  /\ \E b \in {ReadFmtCsid(rd)} : \E h \in {ReadMessageHeader(b)} :
     \E r \in {ReadMessagePayload(h)} :
       LET cs == r.cs_map_[r.csid_]
       IN  IF r.more \/ r.lost
           THEN /\ rd' = [r EXCEPT !.more = FALSE] /\ busy' = FALSE
                /\ UNCHANGED <<pending, got>>
           ELSE IF ~cs.ready
           THEN rd' = r /\ UNCHANGED <<busy, pending, got>>
           ELSE /\ rd' = AfterMessage(r, cs) /\ UNCHANGED busy
                /\ got' = <<r.csid_, [kind |-> cs.kind, ts |-> cs.timestamp32_,
                                      body |-> cs.data]>>
                /\ pending' = [pending EXCEPT ![r.csid_] =
                                 IF @ = <<>> THEN @ ELSE Tail(@)]
  /\ UNCHANGED <<senderVars, wire, odd>>

Kinds == {"data", "size", "other"}
(* A message without payload is left out.                                  *)
Lens == 1..MaxLen

Next ==
  \/ \E c \in Csids, kind \in Kinds, stamp \in Stamps, len \in Lens :
       \/ OwnWrite(c, kind, stamp, len)
       \/ \E fmt \in 0..3 : PeerStart(c, fmt, kind, stamp, len)
  \/ \E c \in Csids : PeerContinue(c)
  \/ \E n \in 1..Len(wire) : OnRead(n)
  \/ ReceiveRespMessage

(* TCP delivers, the loop runs, and a message that was begun is finished.  *)
Fairness ==
  /\ WF_vars(\E n \in 1..Len(wire) : OnRead(n)) /\ WF_vars(ReceiveRespMessage)
  /\ \A c \in Csids : WF_vars(PeerContinue(c))

Spec == Init /\ [][Next]_vars /\ Fairness

-----------------------------------------------------------------------------
ChunkTypeOK ==
  /\ sent \in 0..MaxMsgs /\ out_size \in {DefSize, NewSize}
  /\ rd.chunk_size_ \in {DefSize, NewSize}
  /\ \A c \in Csids : /\ rd.cs_map_[c].remain_ \in 0..rd.cs_map_[c].msg_len_
                      /\ rd.cs_map_[c].msg_len_ \in 0..MaxLen
                      /\ out[c].left \in 0..out[c].len

(* The reader keeps its place in the stream however TCP cuts it and the    *)
(* sender interleaves and compresses its chunks, unless the sender used a  *)
(* form listed in Mishandled, an unknown type id, or a read ended between  *)
(* the two bytes of a basic header.                                        *)
InStep == rd.lost => odd \/ rd.torn

(* What is not yet read will never be mistaken: between two chunks, a      *)
(* stream's buffer holds what its message is short of.                     *)
PartialFits ==
  odd \/ rd.torn \/ \A c \in Csids :
    LET cs == rd.cs_map_[c]
    IN  cs.data # <<>> =>
          /\ pending[c] # <<>>
          /\ IsPrefix(cs.data, Head(pending[c]).body)
          /\ Len(cs.data) + cs.remain_ = Len(Head(pending[c]).body)

(* Chunks implement a channel of messages for each chunk stream: whole,    *)
(* once, in order and with the right timestamp.                            *)
Channel == INSTANCE MessageChannel WITH
  Streams <- Csids, queue <- pending, taken <- got, broken <- odd \/ rd.torn
ChannelSpec == Channel!ChannelSpec

(* A chunk that waits for four bytes which the stream will not bring: its  *)
(* stream once had an extended timestamp and has none now.                 *)
StaleFlag(c) == rd.cs_map_[c].ext_ts_flag_ /\ ~out[c].ext

(* Every message is handed over in the end, whatever the cuts.             *)
MessagesArrive ==
  <>[](\/ odd \/ rd.torn
       \/ \A c \in Csids : pending[c] = <<>> \/ StaleFlag(c))

(* ReadChunkStream keeps its place in the stream, and what it holds of a   *)
(* message is the beginning of the next one due on that chunk stream.      *)
ReaderInStep == ChunkTypeOK /\ InStep /\ PartialFits
=============================================================================
