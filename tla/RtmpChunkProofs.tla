-------------------------- MODULE RtmpChunkProofs --------------------------
(***************************************************************************)
(* The reader of chunks keeps its place in the stream, and chunks are a    *)
(* channel of whole messages for each chunk stream.                        *)
(*                                                                         *)
(* The inductive invariant says that what is in the receive buffer and in  *)
(* TCP is a run of whole chunks, of which the reader may have taken the    *)
(* beginning of the first: each chunk leads from one state of the dialogue *)
(* (what both ends have to remember of each chunk stream) to the next, the *)
(* first of these states is the reader's and the last is the sender's.     *)
(***************************************************************************)
EXTENDS RtmpChunk, Integers, TLAPS, WellFoundedInduction

-----------------------------------------------------------------------------
(* Types.                                                                  *)

Part ==
  [k : {"basic"}, fmt : 0 .. 3, csid : Csids] \cup [k : {"csid"}]
    \cup [k : {"head"}, ts : Nat, len : Lens, kind : Kinds]
    \cup [k : {"ext"}, ts : Nat] \cup [k : {"pay"}, of : Nat \X Nat]

Sizes == {DefSize, NewSize}
Msg == [kind : Kinds, ts : Nat, body : Seq(Nat \X Nat)]

Out ==
  [ts : Nat, delta : Nat, len : 0 .. MaxLen, kind : Kinds, id : Nat, left : 0 .. MaxLen,
   last : 0 .. 3, ext : BOOLEAN, ever : BOOLEAN]

Cs ==
  [fmt_ : 0 .. 3, ext_ts_flag_ : BOOLEAN, timestamp32_ : Nat, timestamp_delta_ : Nat,
   kind : Kinds, msg_len_ : 0 .. MaxLen, remain_ : 0 .. MaxLen, in_payload : BOOLEAN,
   data : Seq(Nat \X Nat), ready : BOOLEAN]

Reader ==
  [recv_buffer_ : Seq(Part), fmt_ready_ : BOOLEAN, fmt_ : 0 .. 3, csid_ : Csids \cup {"none"},
   chunk_size_ : Sizes, cs_map_ : [Csids -> Cs], more : BOOLEAN, lost : BOOLEAN,
   torn : BOOLEAN]

(* A session between the calls of ReadChunkStream, or in one.              *)
ReaderOK(r) ==
  /\ r \in Reader
  /\ r.fmt_ready_ => r.csid_ \in Csids
  /\ \A c \in Csids : r.cs_map_[c].remain_ <= r.cs_map_[c].msg_len_

TypeInv ==
  /\ own \in BOOLEAN /\ sent \in 0 .. MaxMsgs /\ out_size \in Sizes /\ out \in [Csids -> Out]
  /\ \A c \in Csids : out[c].left <= out[c].len
  /\ wire \in Seq(Part) /\ busy \in BOOLEAN /\ odd \in BOOLEAN
  /\ ReaderOK(rd) /\ ~rd.more
  /\ pending \in [Csids -> Seq(Msg)]

-----------------------------------------------------------------------------
(* Chunks.                                                                 *)

BasicLen(c) == IF c \in WideCsids THEN 2 ELSE 1
HeadLen(fmt) == IF fmt = 3 THEN 0 ELSE 1
ExtLen(ext) == IF ext THEN 1 ELSE 0

(* A chunk of n bytes, behind from bytes of the message that it is part    *)
(* of; stamp is the timestamp or the delta that it carries.                *)
Chunk ==
  [c : Csids, fmt : 0 .. 3, ext : BOOLEAN, stamp : Nat, n : Nat \ {0}, from : Nat,
   id : Nat, kind : Kinds, mts : Nat, len : Lens]

Ahead(k) == BasicLen(k.c) + HeadLen(k.fmt) + ExtLen(k.ext)
Width(k) == Ahead(k) + k.n

Parts(k) ==
  Basic(k.fmt, k.c)
    \o (IF k.fmt = 3 THEN <<>> ELSE HeaderPart(Less(k.stamp, ExtTs), k.len, k.kind))
    \o (IF k.ext THEN ExtPart(k.stamp) ELSE <<>>)
    \o PayloadPart(k.id, k.from, k.n)

(* Stream S has chunk k behind position p; what is at positions up to 0    *)
(* was taken.                                                              *)
Holds(S, p, k) == \A j \in 1 .. Width(k) : p + j >= 1 => S[p + j] = Parts(k)[j]

-----------------------------------------------------------------------------
(* The dialogue.                                                           *)

(* What is to be remembered of a chunk stream between two chunks: q of the *)
(* messages that are pending have gone by, remain bytes of the next one    *)
(* are still to come.                                                      *)
Mid ==
  [fmt : 0 .. 3, flag : BOOLEAN, ts : Nat, delta : Nat, kind : Kinds, len : 0 .. MaxLen,
   remain : 0 .. MaxLen, q : Nat]

State == [size : Sizes, cs : [Csids -> Mid]]

On(s, c) == s.cs[c]

Left(x, k) == IF x.remain = 0 THEN k.len ELSE x.remain

(* The first chunk of a message and a further one.                         *)
Begins(x, k) ==
  /\ IF k.fmt = 3
     THEN /\ x.fmt \in {1, 2} /\ x.flag = k.ext
          /\ ~k.ext => k.stamp = x.delta
     ELSE k.ext <=> k.stamp >= ExtTs
  /\ k.mts = IF k.fmt = 0 THEN k.stamp ELSE x.ts + k.stamp
  /\ k.fmt \in {2, 3} => k.len = x.len /\ k.kind = x.kind

Goes(x, k) ==
  /\ k.fmt = 3 /\ k.mts = x.ts /\ k.kind = x.kind /\ k.len = x.len
  /\ k.ext => x.flag /\ k.stamp = x.ts

(* Behind the header of the chunk, and behind the chunk.                   *)
Flagged(x, k) == x.flag \/ (k.fmt # 3 /\ k.ext)
Delta(x, k) == IF k.fmt = 3 THEN x.delta ELSE IF k.fmt = 0 THEN 0 ELSE k.stamp

Opened(x, k) ==
  [fmt |-> k.fmt, flag |-> Flagged(x, k), ts |-> k.mts, delta |-> Delta(x, k),
   kind |-> k.kind, len |-> k.len, remain |-> Left(x, k), q |-> x.q]

Closed(x, k) ==
  [fmt |-> k.fmt, flag |-> Flagged(x, k), ts |-> k.mts, delta |-> Delta(x, k),
   kind |-> k.kind, len |-> k.len, remain |-> Left(x, k) - k.n,
   q |-> IF k.n = Left(x, k) THEN x.q + 1 ELSE x.q]

Leads(s, k, t, pend) ==
  LET x == On(s, k.c) IN
  /\ k \in Chunk /\ k.kind # "other"
  /\ x.q < Len(pend[k.c]) /\ pend[k.c][x.q + 1] = Message(k.id, k.kind, k.mts, k.len)
  /\ k.n = Less(s.size, Left(x, k)) /\ Left(x, k) <= k.len /\ k.from = k.len - Left(x, k)
  /\ IF x.remain = 0 THEN Begins(x, k) ELSE Goes(x, k)
  /\ t = [size |-> IF k.n = Left(x, k) /\ k.kind = "size" THEN NewSize ELSE s.size,
          cs |-> [s.cs EXCEPT ![k.c] = Closed(x, k)]]

(* The message that is under way is the next of those pending.             *)
Fits(x, p) ==
  /\ x.q <= Len(p)
  /\ x.remain # 0 =>
       /\ x.q < Len(p) /\ x.remain < x.len
       /\ \E id \in Nat : p[x.q + 1] = Message(id, x.kind, x.ts, x.len)

(* Stream S is chunks ck[1] to ck[n], at positions pos, with the states st *)
(* before, between and behind them.                                        *)
Run(S, pend, n, ck, pos, st) ==
  /\ n \in Nat /\ pos[n + 1] = Len(S)
  /\ \A i \in 1 .. n + 1 : /\ pos[i] \in Int /\ pos[i] <= Len(S) /\ st[i] \in State
                           /\ \A c \in Csids : Fits(On(st[i], c), pend[c])
  /\ \A i \in 1 .. n : /\ Leads(st[i], ck[i], st[i + 1], pend)
                       /\ pos[i + 1] = pos[i] + Width(ck[i]) /\ Holds(S, pos[i], ck[i])

-----------------------------------------------------------------------------
(* The two ends.                                                           *)

(* A ChunkStream between two chunks, with some of its header seen, and     *)
(* within a chunk.                                                         *)
Resting(x, p) ==
  [fmt_ |-> x.fmt, ext_ts_flag_ |-> x.flag, timestamp32_ |-> x.ts,
   timestamp_delta_ |-> x.delta, kind |-> x.kind, msg_len_ |-> x.len, remain_ |-> x.remain,
   in_payload |-> FALSE,
   data |-> IF x.remain = 0 THEN <<>> ELSE SubSeq(p[1].body, 1, x.len - x.remain),
   ready |-> FALSE]

Seen(x, k, p) == [Resting(x, p) EXCEPT !.fmt_ = k.fmt, !.ext_ts_flag_ = x.flag \/ k.ext]

Reading(x, k, p) ==
  [Resting(Opened(x, k), p) EXCEPT !.in_payload = TRUE, !.data = SubSeq(p[1].body, 1, k.from)]

(* Session r stands before the chunk, behind its basic header, or behind   *)
(* its header.                                                             *)
Before(r, pos) == ~r.fmt_ready_ /\ pos[1] = 0

InChunk(r, n, ck) == r.fmt_ready_ /\ n > 0 /\ r.csid_ = ck[1].c /\ r.fmt_ = ck[1].fmt

BehindBasic(r, pend, n, ck, pos, st) ==
  LET c == ck[1].c
      x == On(st[1], c) IN
  /\ InChunk(r, n, ck) /\ pos[1] = -BasicLen(c)
  /\ \/ r.cs_map_[c] = Resting(x, pend[c])
     \/ ck[1].fmt # 3 /\ r.cs_map_[c] = Seen(x, ck[1], pend[c])

BehindHead(r, pend, n, ck, pos, st) ==
  LET c == ck[1].c IN
  /\ InChunk(r, n, ck) /\ pos[1] = -Ahead(ck[1])
  /\ r.cs_map_[c] = Reading(On(st[1], c), ck[1], pend[c])

At(ph, r, w, pend, n, ck, pos, st) ==
  /\ w \in Seq(Part) /\ Run(r.recv_buffer_ \o w, pend, n, ck, pos, st)
  /\ r.chunk_size_ = st[1].size /\ ~r.lost
  /\ \A c \in Csids : On(st[1], c).q = 0
  /\ \A c \in Csids : ph = 0 \/ c # r.csid_ =>
                        r.cs_map_[c] = Resting(On(st[1], c), pend[c])
  /\ \/ ph = 0 /\ Before(r, pos)
     \/ ph = 1 /\ BehindBasic(r, pend, n, ck, pos, st)
     \/ ph = 2 /\ BehindHead(r, pend, n, ck, pos, st)

(* What the sender remembers.  This code begins every message with type 0. *)
Ended(mine, x, o, p) ==
  IF mine THEN o.left = 0 /\ x.remain = 0 /\ x.q = Len(p)
  ELSE /\ x.fmt = o.last /\ x.flag = o.ever /\ x.ts = o.ts /\ x.kind = o.kind
       /\ x.len = o.len /\ x.remain = o.left
       /\ o.delta >= ExtTs => o.ever
       /\ x.fmt \in {1, 2} => x.delta = o.delta
       /\ o.left = 0 => x.q = Len(p)
       /\ o.left > 0 =>
            /\ x.q + 1 = Len(p) /\ p[Len(p)] = Message(o.id, o.kind, o.ts, o.len)
            /\ o.kind # "other"
            /\ o.ext => o.ever /\ o.delta = o.ts

Ends(s, mine, size, outs, pend) ==
  s.size = size /\ \A c \in Csids : Ended(mine, On(s, c), outs[c], pend[c])

-----------------------------------------------------------------------------
(* Induction.                                                              *)

(* Every set of naturals that is not empty has a least element.            *)
LEMMA Least ==
  ASSUME NEW T, T \subseteq Nat, T # {}
  PROVE  \E n \in T : \A m \in T : n <= m
<1>1. IsWellFoundedOn(OpToRel(<, Nat), Nat)
  BY Zenon, NatLessThanWellFounded
<1>2. \E n \in T : \A m \in T : <<m, n>> \notin OpToRel(<, Nat)
  BY Zenon, <1>1, WFMin
<1>3. \A n \in T, m \in T : <<m, n>> \notin OpToRel(<, Nat) => n <= m
  BY DEF OpToRel
<1> QED
  BY <1>2, <1>3

(* Induction on the elements of a set.                                     *)
LEMMA UpTo ==
  ASSUME NEW n \in Nat, NEW P, 0 \in P, \A i \in 0 .. n - 1 : i \in P => i + 1 \in P
  PROVE  \A i \in 0 .. n : i \in P
<1> DEFINE T == {i \in 0 .. n : i \notin P}
<1>1. T \subseteq Nat
  OBVIOUS
<1>2. CASE T # {}
  <2> HIDE DEF T
  <2>1. PICK i \in T : \A m \in T : i <= m
    BY <1>1, <1>2, Least
  <2>2. i \in 0 .. n /\ i \notin P /\ i # 0 /\ i - 1 \in 0 .. n - 1
    BY <2>1 DEF T
  <2>3. i - 1 \in P
    BY <2>1, <2>2 DEF T
  <2> QED BY <2>2, <2>3
<1> QED BY <1>2

(* A finite run of values with one more behind it.                         *)
LEMMA Extended ==
  ASSUME NEW k \in Nat, NEW f, NEW last
  PROVE  LET g == [i \in 1 .. k + 2 |-> IF i = k + 2 THEN last ELSE f[i]]
         IN  g[k + 2] = last /\ \A i \in 1 .. k + 1 : g[i] = f[i]
  OBVIOUS

(* The recursive function of FlattenSeq exists, up to the length that is   *)
(* needed.                                                                 *)
LEMMA Concatenations ==
  ASSUME NEW n \in Nat, NEW s
  PROVE  \E f : f = [i \in 1 .. n + 1 |-> IF i = 1 THEN s[i] ELSE f[i - 1] \o s[i]]
<1> DEFINE Q(f, k) == f = [i \in 1 .. k |-> IF i = 1 THEN s[i] ELSE f[i - 1] \o s[i]]
           P == {k \in 0 .. n : \E f : Q(f, k + 1)}
<1>1. \E f : Q(f, 1)
  <2>1. Q([i \in 1 .. 1 |-> s[i]], 1)
    OBVIOUS
  <2> QED BY <2>1
<1>2. ASSUME NEW k \in 0 .. n - 1, NEW f, Q(f, k + 1)
      PROVE  \E g : Q(g, k + 2)
  <2> DEFINE last == f[k + 1] \o s[k + 2]
             g == [i \in 1 .. k + 2 |-> IF i = k + 2 THEN last ELSE f[i]]
  <2>0. k \in Nat
    OBVIOUS
  <2>1. \A i \in 1 .. k + 1 : f[i] = IF i = 1 THEN s[i] ELSE f[i - 1] \o s[i]
    BY <1>2
  <2>2. g = [i \in 1 .. k + 2 |-> g[i]]
    OBVIOUS
  <2>3. g[k + 2] = last /\ \A i \in 1 .. k + 1 : g[i] = f[i]
    <3> HIDE DEF last
    <3> QED BY <2>0, Extended
  <2> HIDE DEF g
  <2>4. ASSUME NEW i \in 1 .. k + 2
        PROVE  g[i] = IF i = 1 THEN s[i] ELSE g[i - 1] \o s[i]
    <3>1. CASE i = k + 2
      <4>1. i # 1 /\ i - 1 = k + 1 /\ k + 1 \in 1 .. k + 1
        BY <2>0, <3>1
      <4> QED BY <2>3, <3>1, <4>1
    <3>2. CASE i \in 1 .. k + 1
      <4>1. i # 1 => i - 1 \in 1 .. k + 1
        BY <2>0, <3>2
      <4> QED BY <2>1, <2>3, <3>2, <4>1
    <3> QED BY <2>0, <3>1, <3>2
  <2>5. Q(g, k + 2)
    BY <2>2, <2>4
  <2> QED BY <2>5
<1> HIDE DEF Q
<1>3. 0 \in P
  BY <1>1
<1>4. \A k \in 0 .. n - 1 : k \in P => k + 1 \in P
  BY <1>2
<1> HIDE DEF P
<1>5. \A k \in 0 .. n : k \in P
  BY <1>3, <1>4, UpTo
<1>6. \E f : Q(f, n + 1)
  BY <1>5 DEF P
<1> QED BY <1>6 DEF Q

Joins(f, s, n) ==
  /\ \A i \in 1 .. n + 1 : f[i] \in Seq(Part)
  /\ FlattenSeq(s) = f[n + 1] /\ f[1] = s[1]
  /\ \A i \in 1 .. n : f[i + 1] = f[i] \o s[i + 1]

(* FlattenSeq of parts is joined from the front, one element at a time.    *)
LEMMA Flattened ==
  ASSUME NEW s, NEW n \in Nat, Len(s) = n + 1, \A i \in 1 .. n + 1 : s[i] \in Seq(Part)
  PROVE  \E f : Joins(f, s, n)
<1> DEFINE Q(f) == f = [i \in 1 .. n + 1 |-> IF i = 1 THEN s[i] ELSE f[i - 1] \o s[i]]
           f == CHOOSE g : Q(g)
           P == {k \in 0 .. n : f[k + 1] \in Seq(Part)}
<1>1. FlattenSeq(s) = f[n + 1]
  BY DEF FlattenSeq
<1>2. Q(f)
  <2>1. \E g : Q(g)
    BY Concatenations
  <2> HIDE DEF Q
  <2> QED BY <2>1
<1> HIDE DEF f
<1>3. \A i \in 1 .. n + 1 : f[i] = IF i = 1 THEN s[i] ELSE f[i - 1] \o s[i]
  BY <1>2
<1>4. f[1] = s[1] /\ \A i \in 1 .. n : f[i + 1] = f[i] \o s[i + 1]
  <2>1. ASSUME NEW i \in 1 .. n PROVE f[i + 1] = f[i] \o s[i + 1]
    <3>1. i + 1 \in 1 .. n + 1 /\ (i + 1) - 1 = i /\ i + 1 # 1
      OBVIOUS
    <3> QED BY <1>3, <3>1
  <2>2. f[1] = s[1]
    <3>1. 1 \in 1 .. n + 1
      OBVIOUS
    <3> QED BY <1>3, <3>1
  <2> QED BY <2>1, <2>2
<1>5. \A k \in 0 .. n : k \in P
  <2>1. 0 \in P
    BY <1>4
  <2>2. ASSUME NEW k \in 0 .. n - 1, k \in P
        PROVE  k + 1 \in P
    <3>1. k + 1 \in 1 .. n /\ k + 2 \in 1 .. n + 1 /\ (k + 1) + 1 = k + 2
      OBVIOUS
    <3>2. f[(k + 1) + 1] = f[k + 1] \o s[k + 2]
      BY <1>4, <3>1
    <3>3. f[k + 1] \in Seq(Part) /\ s[k + 2] \in Seq(Part)
      BY <2>2, <3>1
    <3>4. f[(k + 1) + 1] \in Seq(Part)
      BY <3>2, <3>3
    <3> QED BY <3>4
  <2> HIDE DEF P
  <2> QED BY <2>1, <2>2, UpTo
<1>6. ASSUME NEW i \in 1 .. n + 1 PROVE f[i] \in Seq(Part)
  <2>1. i - 1 \in 0 .. n /\ (i - 1) + 1 = i
    OBVIOUS
  <2> QED BY <1>5, <2>1
<1> QED BY <1>1, <1>4, <1>6 DEF Joins
-----------------------------------------------------------------------------
(* Sequences.                                                              *)

(* What the SMT backend needs to be told of sequences of parts and of      *)
(* messages.                                                               *)
LEMMA Concat ==
  ASSUME NEW a \in Seq(Part), NEW b \in Seq(Part)
  PROVE  /\ a \o b \in Seq(Part) /\ Len(a \o b) = Len(a) + Len(b)
         /\ Len(a) \in Nat /\ Len(b) \in Nat
         /\ \A i \in 1 .. Len(a) : (a \o b)[i] = a[i]
         /\ \A i \in 1 .. Len(b) : (a \o b)[Len(a) + i] = b[i]
  OBVIOUS

LEMMA Associative ==
  ASSUME NEW a \in Seq(Part), NEW b \in Seq(Part), NEW d \in Seq(Part)
  PROVE  (a \o b) \o d = a \o (b \o d)
  OBVIOUS

LEMMA Split ==
  ASSUME NEW q \in Seq(Part), NEW n \in 0 .. Len(q)
  PROVE  /\ SubSeq(q, 1, n) \in Seq(Part) /\ Len(SubSeq(q, 1, n)) = n
         /\ \A i \in 1 .. n : SubSeq(q, 1, n)[i] = q[i]
         /\ SubSeq(q, n + 1, Len(q)) \in Seq(Part)
         /\ Len(SubSeq(q, n + 1, Len(q))) = Len(q) - n
         /\ \A i \in 1 .. Len(q) - n : SubSeq(q, n + 1, Len(q))[i] = q[n + i]
  OBVIOUS

LEMMA Same ==
  ASSUME NEW a \in Seq(Part), NEW b \in Seq(Part), Len(a) = Len(b),
         \A i \in 1 .. Len(a) : a[i] = b[i]
  PROVE  a = b
  OBVIOUS

(* A sequence that was cut is put together again; so is one in the buffer  *)
(* and in TCP.                                                             *)
LEMMA Rejoin ==
  ASSUME NEW q \in Seq(Part), NEW n \in 0 .. Len(q)
  PROVE  SubSeq(q, 1, n) \o SubSeq(q, n + 1, Len(q)) = q
<1> DEFINE u == SubSeq(q, 1, n)
           v == SubSeq(q, n + 1, Len(q))
<1>1. /\ u \in Seq(Part) /\ Len(u) = n /\ \A i \in 1 .. n : u[i] = q[i]
      /\ v \in Seq(Part) /\ Len(v) = Len(q) - n
      /\ \A i \in 1 .. Len(q) - n : v[i] = q[n + i]
  BY Split
<1> HIDE DEF u, v
<1>2. /\ u \o v \in Seq(Part) /\ Len(u \o v) = Len(u) + Len(v) /\ Len(q) \in Nat
      /\ \A i \in 1 .. Len(u) : (u \o v)[i] = u[i]
      /\ \A i \in 1 .. Len(v) : (u \o v)[Len(u) + i] = v[i]
  BY <1>1, Concat
<1>3. Len(u \o v) = Len(q)
  BY <1>1, <1>2
<1>4. ASSUME NEW i \in 1 .. Len(q) PROVE (u \o v)[i] = q[i]
  <2>1. CASE i <= n
    <3>1. i \in 1 .. n
      BY <1>2, <2>1
    <3>2. i \in 1 .. Len(u) /\ u[i] = q[i]
      BY <1>1, <3>1
    <3>3. (u \o v)[i] = u[i]
      BY <1>2, <3>2
    <3> QED BY <3>2, <3>3
  <2>2. CASE i > n
    <3> DEFINE j == i - n
    <3>1. j \in 1 .. Len(q) - n /\ n + j = i
      BY <1>2, <2>2
    <3> HIDE DEF j
    <3>2. (u \o v)[n + j] = v[j]
      BY <1>1, <1>2, <3>1
    <3> QED BY <1>1, <3>1, <3>2
  <2>3. i <= n \/ i > n
    BY <1>2
  <2> QED BY Zenon, <2>1, <2>2, <2>3
<1>5. u \o v = q
  BY <1>2, <1>3, <1>4, Same
<1> QED BY <1>5 DEF u, v

LEMMA Rejoined ==
  ASSUME NEW a \in Seq(Part), NEW q \in Seq(Part), NEW n \in 0 .. Len(q)
  PROVE  (a \o SubSeq(q, 1, n)) \o SubSeq(q, n + 1, Len(q)) = a \o q
<1> DEFINE u == SubSeq(q, 1, n)
           v == SubSeq(q, n + 1, Len(q))
<1>1. u \in Seq(Part) /\ v \in Seq(Part)
  BY Split
<1>2. u \o v = q
  BY Rejoin
<1>3. (a \o u) \o v = a \o (u \o v)
  <2> HIDE DEF u, v
  <2> QED BY <1>1, Associative
<1> QED BY Zenon, <1>2, <1>3

LEMMA Appended ==
  ASSUME NEW q \in Seq(Msg), NEW m \in Msg
  PROVE  /\ Append(q, m) \in Seq(Msg) /\ Len(q) \in Nat /\ Len(Append(q, m)) = Len(q) + 1
         /\ \A i \in 1 .. Len(q) : Append(q, m)[i] = q[i]
         /\ Append(q, m)[Len(q) + 1] = m
  OBVIOUS

LEMMA Taken ==
  ASSUME NEW q \in Seq(Msg), q # <<>>
  PROVE  /\ Tail(q) \in Seq(Msg) /\ Len(q) \in Nat \ {0} /\ Len(Tail(q)) = Len(q) - 1
         /\ Head(q) = q[1] /\ \A i \in 1 .. Len(q) - 1 : Tail(q)[i] = q[i + 1]
  OBVIOUS

(* What is dropped from the buffer is dropped from the stream.             *)
LEMMA Dropped ==
  ASSUME NEW a \in Seq(Part), NEW w \in Seq(Part), NEW n \in 0 .. Len(a)
  PROVE  LET b == SubSeq(a, n + 1, Len(a)) IN
         /\ b \in Seq(Part) /\ b \o w \in Seq(Part) /\ Len(b \o w) = Len(a \o w) - n
         /\ \A i \in 1 .. Len(b \o w) : (b \o w)[i] = (a \o w)[n + i]
<1> DEFINE b == SubSeq(a, n + 1, Len(a))
<1>1. /\ b \in Seq(Part) /\ Len(b) = Len(a) - n /\ Len(a) \in Nat
      /\ \A i \in 1 .. Len(a) - n : b[i] = a[n + i]
  BY Split
<1> HIDE DEF b
<1>2. /\ b \o w \in Seq(Part) /\ Len(b \o w) = Len(b) + Len(w) /\ Len(w) \in Nat
      /\ \A i \in 1 .. Len(b) : (b \o w)[i] = b[i]
      /\ \A i \in 1 .. Len(w) : (b \o w)[Len(b) + i] = w[i]
  BY <1>1, Concat
<1>3. /\ Len(a \o w) = Len(a) + Len(w)
      /\ \A i \in 1 .. Len(a) : (a \o w)[i] = a[i]
      /\ \A i \in 1 .. Len(w) : (a \o w)[Len(a) + i] = w[i]
  BY Concat
<1>4. ASSUME NEW i \in 1 .. Len(b \o w) PROVE (b \o w)[i] = (a \o w)[n + i]
  <2>1. CASE i \in 1 .. Len(b)
    <3>1. n + i \in 1 .. Len(a) /\ i \in 1 .. Len(a) - n
      BY <1>1, <2>1
    <3> QED BY <1>1, <1>2, <1>3, <2>1, <3>1
  <2>2. CASE i \notin 1 .. Len(b)
    <3> DEFINE j == i - Len(b)
    <3>1. j \in 1 .. Len(w) /\ Len(b) + j = i /\ Len(a) + j = n + i
      BY <1>1, <1>2, <2>2
    <3> HIDE DEF j
    <3> QED BY <1>2, <1>3, <3>1
  <2> QED BY <2>1, <2>2
<1>5. Len(b \o w) = Len(a \o w) - n
  BY <1>1, <1>2, <1>3
<1> QED BY <1>1, <1>2, <1>4, <1>5 DEF b

-----------------------------------------------------------------------------
(* The parts of a chunk.                                                   *)

(* The minimum of the code, for the size of a chunk and for the three      *)
(* bytes of a timestamp.                                                   *)
LEMMA LessFacts ==
  ASSUME NEW a \in Nat, NEW b \in Nat
  PROVE  /\ Less(a, b) \in Nat /\ Less(a, b) <= a /\ Less(a, b) <= b
         /\ Less(a, b) \in {a, b} /\ (a # 0 /\ b # 0 => Less(a, b) # 0)
         /\ (b <= a => Less(a, b) = b)
  BY DEF Less

LEMMA Widths ==
  ASSUME NEW k \in Chunk
  PROVE  /\ BasicLen(k.c) \in {1, 2} /\ HeadLen(k.fmt) \in {0, 1} /\ ExtLen(k.ext) \in {0, 1}
         /\ Ahead(k) \in Nat \ {0} /\ Width(k) \in Nat \ {0} /\ k.n \in Nat \ {0}
         /\ Width(k) = Ahead(k) + k.n
         /\ Ahead(k) = BasicLen(k.c) + HeadLen(k.fmt) + ExtLen(k.ext)
  BY DEF Chunk, BasicLen, HeadLen, ExtLen, Ahead, Width

(* The pieces of a chunk, and where they stand in it.                      *)
LEMMA BasicOf ==
  ASSUME NEW c \in Csids, NEW fmt \in 0 .. 3
  PROVE  /\ Basic(fmt, c) \in Seq(Part) /\ Len(Basic(fmt, c)) = BasicLen(c)
         /\ Basic(fmt, c)[1] = [k |-> "basic", fmt |-> fmt, csid |-> c]
         /\ c \in WideCsids => Basic(fmt, c)[2] = [k |-> "csid"]
<1> DEFINE a == [k |-> "basic", fmt |-> fmt, csid |-> c]
           b == [k |-> "csid"]
<1>1. a \in Part /\ b \in Part
  BY DEF Part
<1> HIDE DEF a, b
<1>2. Basic(fmt, c) = <<a>> \o IF c \in WideCsids THEN <<b>> ELSE <<>>
  BY DEF Basic, a, b
<1>3. CASE c \in WideCsids
  BY <1>1, <1>2, <1>3 DEF BasicLen, a, b
<1>4. CASE c \notin WideCsids
  BY <1>1, <1>2, <1>4 DEF BasicLen, a, b
<1> QED BY <1>3, <1>4

LEMMA PayloadOf ==
  ASSUME NEW id \in Nat, NEW from \in Nat, NEW n \in Nat
  PROVE  /\ PayloadPart(id, from, n) \in Seq(Part) /\ Len(PayloadPart(id, from, n)) = n
         /\ \A i \in 1 .. n : PayloadPart(id, from, n)[i] = [k |-> "pay", of |-> <<id, from + i>>]
<1>1. \A i \in 1 .. n : [k |-> "pay", of |-> <<id, from + i>>] \in Part
  BY DEF Part
<1> QED BY <1>1 DEF PayloadPart

LEMMA PartsOf ==
  ASSUME NEW k \in Chunk
  PROVE  /\ Parts(k) \in Seq(Part) /\ Len(Parts(k)) = Width(k)
         /\ Parts(k)[1] = [k |-> "basic", fmt |-> k.fmt, csid |-> k.c]
         /\ k.fmt # 3 => Parts(k)[BasicLen(k.c) + 1] =
              [k |-> "head", ts |-> Less(k.stamp, ExtTs), len |-> k.len, kind |-> k.kind]
         /\ k.ext => Parts(k)[BasicLen(k.c) + HeadLen(k.fmt) + 1] =
              [k |-> "ext", ts |-> k.stamp]
         /\ \A i \in 1 .. k.n :
              Parts(k)[Ahead(k) + i] = [k |-> "pay", of |-> <<k.id, k.from + i>>]
<1> DEFINE h == [k |-> "head", ts |-> Less(k.stamp, ExtTs), len |-> k.len, kind |-> k.kind]
           e == [k |-> "ext", ts |-> k.stamp]
           b == Basic(k.fmt, k.c)
           hs == IF k.fmt = 3 THEN <<>> ELSE <<h>>
           es == IF k.ext THEN <<e>> ELSE <<>>
           p == PayloadPart(k.id, k.from, k.n)
<1>1. Parts(k) = ((b \o hs) \o es) \o p
  BY DEF Parts, HeaderPart, ExtPart
<1>2. /\ k.c \in Csids /\ k.fmt \in 0 .. 3 /\ k.ext \in BOOLEAN /\ k.stamp \in Nat
      /\ k.id \in Nat /\ k.from \in Nat /\ k.n \in Nat /\ k.len \in Lens /\ k.kind \in Kinds
  BY DEF Chunk
<1>3. /\ b \in Seq(Part) /\ Len(b) = BasicLen(k.c)
      /\ b[1] = [k |-> "basic", fmt |-> k.fmt, csid |-> k.c] /\ BasicLen(k.c) \in {1, 2}
  BY <1>2, BasicOf, Widths
<1>4. /\ p \in Seq(Part) /\ Len(p) = k.n
      /\ \A i \in 1 .. k.n : p[i] = [k |-> "pay", of |-> <<k.id, k.from + i>>]
  BY ZenonT(60), <1>2, PayloadOf
<1>5. h \in Part /\ e \in Part
  BY <1>2, LessFacts, ChunkConstants DEF Part
<1> HIDE DEF h, e
<1>6. /\ hs \in Seq(Part) /\ Len(hs) = HeadLen(k.fmt) /\ (k.fmt # 3 => hs[1] = h)
  BY <1>2, <1>5 DEF HeadLen
<1>7. /\ es \in Seq(Part) /\ Len(es) = ExtLen(k.ext) /\ (k.ext => es[1] = e)
  BY <1>2, <1>5 DEF ExtLen
<1> HIDE DEF b, hs, es, p
<1>8. /\ b \o hs \in Seq(Part) /\ Len(b \o hs) = BasicLen(k.c) + HeadLen(k.fmt)
      /\ (b \o hs)[1] = b[1] /\ (k.fmt # 3 => (b \o hs)[BasicLen(k.c) + 1] = h)
  <2>1. /\ b \o hs \in Seq(Part) /\ Len(b \o hs) = Len(b) + Len(hs)
        /\ \A i \in 1 .. Len(b) : (b \o hs)[i] = b[i]
        /\ \A i \in 1 .. Len(hs) : (b \o hs)[Len(b) + i] = hs[i]
    BY <1>3, <1>6, Concat
  <2>2. 1 \in 1 .. Len(b) /\ (k.fmt # 3 => 1 \in 1 .. Len(hs))
    BY <1>3, <1>6 DEF HeadLen
  <2> QED BY <1>3, <1>6, <2>1, <2>2
<1> DEFINE u == b \o hs
<1> HIDE DEF u
<1>9. /\ u \o es \in Seq(Part) /\ Len(u \o es) = Ahead(k)
      /\ (u \o es)[1] = b[1] /\ (k.fmt # 3 => (u \o es)[BasicLen(k.c) + 1] = h)
      /\ (k.ext => (u \o es)[BasicLen(k.c) + HeadLen(k.fmt) + 1] = e)
  <2>1. u \in Seq(Part) /\ Len(u) = BasicLen(k.c) + HeadLen(k.fmt) /\ u[1] = b[1]
        /\ (k.fmt # 3 => u[BasicLen(k.c) + 1] = h)
    BY <1>8 DEF u
  <2>2. 1 \in 1 .. Len(u) /\ (k.fmt # 3 => BasicLen(k.c) + 1 \in 1 .. Len(u))
        /\ (k.ext => 1 \in 1 .. Len(es)) /\ Ahead(k) = Len(u) + Len(es)
    BY <1>2, <1>3, <1>7, <2>1 DEF HeadLen, ExtLen, Ahead
  <2>3. /\ u \o es \in Seq(Part) /\ Len(u \o es) = Len(u) + Len(es)
        /\ \A i \in 1 .. Len(u) : (u \o es)[i] = u[i]
        /\ \A i \in 1 .. Len(es) : (u \o es)[Len(u) + i] = es[i]
    BY <1>7, <2>1, Concat
  <2> QED BY <1>7, <2>1, <2>2, <2>3
<1> DEFINE v == u \o es
<1>10. Parts(k) = v \o p
  BY <1>1 DEF u
<1> HIDE DEF v
<1>11. /\ v \in Seq(Part) /\ Len(v) = Ahead(k) /\ v[1] = b[1]
       /\ (k.fmt # 3 => v[BasicLen(k.c) + 1] = h)
       /\ (k.ext => v[BasicLen(k.c) + HeadLen(k.fmt) + 1] = e)
  BY <1>9 DEF v
<1>12. /\ v \o p \in Seq(Part) /\ Len(v \o p) = Len(v) + Len(p)
       /\ \A i \in 1 .. Len(v) : (v \o p)[i] = v[i]
       /\ \A i \in 1 .. Len(p) : (v \o p)[Len(v) + i] = p[i]
  BY <1>4, <1>11, Concat
<1>13. /\ 1 \in 1 .. Ahead(k) /\ (k.fmt # 3 => BasicLen(k.c) + 1 \in 1 .. Ahead(k))
       /\ (k.ext => BasicLen(k.c) + HeadLen(k.fmt) + 1 \in 1 .. Ahead(k))
       /\ Width(k) = Ahead(k) + k.n
  BY <1>2, <1>3 DEF Ahead, HeadLen, ExtLen, Width
<1>14. Parts(k) \in Seq(Part) /\ Len(Parts(k)) = Width(k)
  BY <1>4, <1>10, <1>11, <1>12, <1>13
<1>15. Parts(k)[1] = [k |-> "basic", fmt |-> k.fmt, csid |-> k.c]
  BY <1>3, <1>10, <1>11, <1>12, <1>13
<1>16. k.fmt # 3 => Parts(k)[BasicLen(k.c) + 1] = h
  BY <1>10, <1>11, <1>12, <1>13
<1>17. k.ext => Parts(k)[BasicLen(k.c) + HeadLen(k.fmt) + 1] = e
  BY <1>10, <1>11, <1>12, <1>13
<1>18. \A i \in 1 .. k.n : Parts(k)[Ahead(k) + i] = [k |-> "pay", of |-> <<k.id, k.from + i>>]
  BY <1>4, <1>10, <1>11, <1>12
<1> QED BY <1>14, <1>15, <1>16, <1>17, <1>18 DEF h, e


-----------------------------------------------------------------------------
(* Runs of chunks.                                                         *)

(* A stream that grows, is given a chunk or loses its beginning holds the  *)
(* same chunks.                                                            *)
LEMMA HoldsMore ==
  ASSUME NEW S \in Seq(Part), NEW R \in Seq(Part), NEW k \in Chunk, NEW p \in Int,
         p + Width(k) <= Len(S), Holds(S, p, k)
  PROVE  Holds(S \o R, p, k)
<1>1. \A i \in 1 .. Len(S) : (S \o R)[i] = S[i]
  BY Concat
<1>2. Len(S) \in Nat /\ Width(k) \in Nat
  BY Widths
<1>3. ASSUME NEW j \in 1 .. Width(k), p + j >= 1 PROVE (S \o R)[p + j] = Parts(k)[j]
  <2>1. p + j \in 1 .. Len(S)
    BY <1>2, <1>3
  <2> QED BY <1>1, <1>3, <2>1 DEF Holds
<1> QED BY <1>3 DEF Holds

LEMMA HoldsNew ==
  ASSUME NEW S \in Seq(Part), NEW k \in Chunk
  PROVE  Holds(S \o Parts(k), Len(S), k)
<1>1. Parts(k) \in Seq(Part) /\ Len(Parts(k)) = Width(k)
  BY PartsOf
<1>2. \A i \in 1 .. Width(k) : (S \o Parts(k))[Len(S) + i] = Parts(k)[i]
  BY <1>1, Concat
<1> QED BY <1>2 DEF Holds

LEMMA HoldsDropped ==
  ASSUME NEW S, NEW R, NEW k \in Chunk, NEW p \in Int, NEW d \in Nat,
         Len(S) \in Nat, Len(R) = Len(S) - d, \A i \in 1 .. Len(R) : R[i] = S[d + i],
         p + Width(k) <= Len(S), Holds(S, p, k)
  PROVE  Holds(R, p - d, k)
<1>1. Width(k) \in Nat
  BY Widths
<1>2. ASSUME NEW j \in 1 .. Width(k), (p - d) + j >= 1 PROVE R[(p - d) + j] = Parts(k)[j]
  <2>1. (p - d) + j \in 1 .. Len(R) /\ d + ((p - d) + j) = p + j /\ p + j >= 1
    BY <1>1, <1>2
  <2>2. R[(p - d) + j] = S[d + ((p - d) + j)]
    BY <2>1
  <2> QED BY <2>1, <2>2 DEF Holds
<1> QED BY <1>2 DEF Holds

(* The state behind a chunk.                                               *)
LEMMA LeadsOn ==
  ASSUME NEW s \in State, NEW k, NEW t, NEW pend \in [Csids -> Seq(Msg)],
         Leads(s, k, t, pend), \A c \in Csids : Fits(On(s, c), pend[c])
  PROVE  /\ k \in Chunk /\ k.c \in Csids /\ t \in State
         /\ \A c \in Csids : Fits(On(t, c), pend[c])
         /\ On(t, k.c) = Closed(On(s, k.c), k)
         /\ \A c \in Csids \ {k.c} : On(t, c) = On(s, c)
<1> DEFINE x == On(s, k.c)
           y == Closed(x, k)
           p == pend[k.c]
<1>1. /\ k \in Chunk /\ x.q < Len(p) /\ p[x.q + 1] = Message(k.id, k.kind, k.mts, k.len)
      /\ k.n = Less(s.size, Left(x, k)) /\ Left(x, k) <= k.len
      /\ t = [size |-> IF k.n = Left(x, k) /\ k.kind = "size" THEN NewSize ELSE s.size,
              cs |-> [s.cs EXCEPT ![k.c] = y]]
  BY DEF Leads
<1>2. /\ k.c \in Csids /\ k.fmt \in 0 .. 3 /\ k.ext \in BOOLEAN /\ k.stamp \in Nat
      /\ k.n \in Nat \ {0} /\ k.kind \in Kinds /\ k.mts \in Nat /\ k.len \in 1 .. MaxLen
      /\ k.id \in Nat
  BY <1>1 DEF Chunk, Lens
<1>3. /\ s.size \in Sizes /\ s.cs \in [Csids -> Mid] /\ x \in Mid /\ p \in Seq(Msg)
  BY <1>2 DEF State, On
<1>4. /\ x.flag \in BOOLEAN /\ x.delta \in Nat /\ x.remain \in 0 .. MaxLen /\ x.q \in Nat
  BY <1>3 DEF Mid
<1>5. Left(x, k) \in 1 .. k.len
  BY <1>1, <1>2, <1>4, ChunkConstants DEF Left
<1>6. s.size \in Nat
  BY <1>3, ChunkConstants DEF Sizes
<1>7. k.n <= Left(x, k)
  BY <1>1, <1>5, <1>6, LessFacts
<1>8. /\ y = [fmt |-> k.fmt, flag |-> Flagged(x, k), ts |-> k.mts, delta |-> Delta(x, k),
              kind |-> k.kind, len |-> k.len, remain |-> Left(x, k) - k.n,
              q |-> IF k.n = Left(x, k) THEN x.q + 1 ELSE x.q]
  BY DEF Closed
<1> HIDE DEF y
<1>9. Left(x, k) - k.n \in 0 .. MaxLen /\ Left(x, k) - k.n < k.len
  BY <1>2, <1>5, <1>7, ChunkConstants
<1>10. y \in Mid
  <2>1. Flagged(x, k) \in BOOLEAN
    BY <1>2, <1>4 DEF Flagged
  <2>2. Delta(x, k) \in Nat
    BY <1>2, <1>4 DEF Delta
  <2>3. (IF k.n = Left(x, k) THEN x.q + 1 ELSE x.q) \in Nat
    BY <1>4
  <2>4. k.len \in 0 .. MaxLen
    BY <1>2
  <2> QED BY <1>2, <1>8, <1>9, <2>1, <2>2, <2>3, <2>4 DEF Mid
<1>11. Fits(y, p)
  <2>1. y.q <= Len(p)
    BY <1>1, <1>3, <1>4, <1>8
  <2>2. CASE y.remain # 0
    <3>1. y.q = x.q /\ y.remain < y.len /\ y.kind = k.kind /\ y.ts = k.mts /\ y.len = k.len
      BY <1>2, <1>5, <1>8, <1>9, <2>2
    <3> QED BY <1>1, <1>2, <2>1, <3>1 DEF Fits
  <2> QED BY <2>1, <2>2 DEF Fits
<1> HIDE DEF x, p
<1>12. t.cs = [s.cs EXCEPT ![k.c] = y] /\ t.size \in Sizes
  BY <1>1, <1>3 DEF Sizes
<1>13. t \in State
  <2>1. t.cs \in [Csids -> Mid]
    BY <1>2, <1>3, <1>10, <1>12
  <2> QED BY <1>1, <1>12, <2>1 DEF State
<1>14. On(t, k.c) = y /\ \A c \in Csids \ {k.c} : On(t, c) = On(s, c)
  BY <1>2, <1>3, <1>12 DEF On
<1>15. ASSUME NEW c \in Csids PROVE Fits(On(t, c), pend[c])
  <2>1. CASE c = k.c
    BY <1>11, <1>14, <2>1 DEF p
  <2>2. CASE c # k.c
    BY <1>14, <2>2
  <2> QED BY <2>1, <2>2
<1> QED BY <1>1, <1>2, <1>13, <1>14, <1>15 DEF x, y

(* What is known of each chunk of a run.                                   *)
LEMMA RunFacts ==
  ASSUME NEW S, NEW pend \in [Csids -> Seq(Msg)], NEW n, NEW ck, NEW pos, NEW st,
         Run(S, pend, n, ck, pos, st), NEW i \in 1 .. n
  PROVE  /\ n \in Nat /\ i + 1 \in 1 .. n + 1 /\ i \in 1 .. n + 1
         /\ st[i] \in State /\ st[i + 1] \in State
         /\ Leads(st[i], ck[i], st[i + 1], pend)
         /\ ck[i] \in Chunk /\ ck[i].c \in Csids
         /\ pos[i] \in Int /\ pos[i + 1] = pos[i] + Width(ck[i]) /\ pos[i + 1] <= Len(S)
         /\ Holds(S, pos[i], ck[i])
<1>1. n \in Nat /\ i + 1 \in 1 .. n + 1 /\ i \in 1 .. n + 1
  BY DEF Run
<1>2. /\ st[i] \in State /\ st[i + 1] \in State /\ Leads(st[i], ck[i], st[i + 1], pend)
      /\ pos[i] \in Int /\ pos[i + 1] = pos[i] + Width(ck[i]) /\ pos[i + 1] <= Len(S)
      /\ Holds(S, pos[i], ck[i])
  BY <1>1 DEF Run
<1>3. ck[i] \in Chunk
  BY <1>2 DEF Leads
<1>4. ck[i].c \in Csids
  BY <1>3 DEF Chunk
<1> QED BY <1>1, <1>2, <1>3, <1>4

LEMMA RunMoves ==
  ASSUME NEW S, NEW pend \in [Csids -> Seq(Msg)], NEW n, NEW ck, NEW pos, NEW st,
         Run(S, pend, n, ck, pos, st), NEW i \in 1 .. n
  PROVE  /\ On(st[i + 1], ck[i].c) = Closed(On(st[i], ck[i].c), ck[i])
         /\ \A e \in Csids \ {ck[i].c} : On(st[i + 1], e) = On(st[i], e)
<1>1. n \in Nat /\ i + 1 \in 1 .. n + 1 /\ i \in 1 .. n + 1
  BY DEF Run
<1>2. st[i] \in State /\ Leads(st[i], ck[i], st[i + 1], pend)
  BY <1>1 DEF Run
<1>3. \A c \in Csids : Fits(On(st[i], c), pend[c])
  BY <1>1 DEF Run
<1> QED BY <1>2, <1>3, LeadsOn

(* Positions when d parts are taken, and a sequence without its first.     *)
Back(pos, d) == [i \in Nat |-> pos[i] - d]
Shifted(f) == [i \in Nat |-> f[i + 1]]

LEMMA RunDropped ==
  ASSUME NEW S, NEW R, NEW pend \in [Csids -> Seq(Msg)], NEW n, NEW ck, NEW pos, NEW st,
         NEW d \in Nat, Run(S, pend, n, ck, pos, st),
         Len(S) \in Nat, Len(R) = Len(S) - d, \A i \in 1 .. Len(R) : R[i] = S[d + i]
  PROVE  Run(R, pend, n, ck, Back(pos, d), st)
<1> DEFINE pos2 == Back(pos, d)
<1>1. n \in Nat /\ pos[n + 1] = Len(S)
  BY DEF Run
<1>2. \A i \in 1 .. n + 1 : pos2[i] = pos[i] - d
  BY <1>1 DEF Back
<1> HIDE DEF pos2
<1>3. n \in Nat /\ pos2[n + 1] = Len(R)
  BY <1>1, <1>2
<1>4. ASSUME NEW i \in 1 .. n + 1
      PROVE  /\ pos2[i] \in Int /\ pos2[i] <= Len(R) /\ st[i] \in State
             /\ \A c \in Csids : Fits(On(st[i], c), pend[c])
  <2>1. /\ pos[i] \in Int /\ pos[i] <= Len(S) /\ st[i] \in State
        /\ \A c \in Csids : Fits(On(st[i], c), pend[c])
    BY DEF Run
  <2> QED BY <1>2, <2>1
<1>5. ASSUME NEW i \in 1 .. n
      PROVE  /\ Leads(st[i], ck[i], st[i + 1], pend)
             /\ pos2[i + 1] = pos2[i] + Width(ck[i]) /\ Holds(R, pos2[i], ck[i])
  <2>1. /\ i + 1 \in 1 .. n + 1 /\ i \in 1 .. n + 1 /\ Leads(st[i], ck[i], st[i + 1], pend)
        /\ ck[i] \in Chunk /\ pos[i] \in Int /\ pos[i + 1] = pos[i] + Width(ck[i])
        /\ pos[i + 1] <= Len(S) /\ Holds(S, pos[i], ck[i])
    BY RunFacts
  <2>2. Width(ck[i]) \in Nat
    BY <2>1, Widths
  <2>3. pos[i] + Width(ck[i]) <= Len(S)
    BY <2>1
  <2>4. Holds(R, pos[i] - d, ck[i])
    BY <2>1, <2>3, HoldsDropped
  <2>5. pos2[i + 1] = pos2[i] + Width(ck[i])
    BY <1>2, <2>1, <2>2
  <2>6. pos2[i] = pos[i] - d
    BY <1>2, <2>1
  <2> QED BY <2>1, <2>4, <2>5, <2>6
<1>6. Run(R, pend, n, ck, pos2, st)
  BY <1>3, <1>4, <1>5 DEF Run
<1> QED BY <1>6 DEF pos2

(* Without its first chunk.                                                *)
LEMMA RunRest ==
  ASSUME NEW S, NEW pend \in [Csids -> Seq(Msg)], NEW n, NEW ck, NEW pos, NEW st,
         Run(S, pend, n, ck, pos, st), n # 0
  PROVE  Run(S, pend, n - 1, Shifted(ck), Shifted(pos), Shifted(st))
<1> DEFINE ck2 == Shifted(ck)
           pos2 == Shifted(pos)
           st2 == Shifted(st)
<1>1. n \in Nat /\ pos[n + 1] = Len(S)
  BY DEF Run
<1>2. \A i \in Nat : ck2[i] = ck[i + 1] /\ pos2[i] = pos[i + 1] /\ st2[i] = st[i + 1]
  BY DEF Shifted
<1> HIDE DEF ck2, pos2, st2
<1>3. n - 1 \in Nat /\ (n - 1) + 1 = n
  BY <1>1
<1>4. pos2[(n - 1) + 1] = Len(S)
  BY <1>1, <1>2, <1>3
<1>5. ASSUME NEW i \in 1 .. (n - 1) + 1
      PROVE  /\ pos2[i] \in Int /\ pos2[i] <= Len(S) /\ st2[i] \in State
             /\ \A c \in Csids : Fits(On(st2[i], c), pend[c])
  <2>1. i \in Nat /\ i + 1 \in 1 .. n + 1
    BY <1>1
  <2>2. /\ pos[i + 1] \in Int /\ pos[i + 1] <= Len(S) /\ st[i + 1] \in State
        /\ \A c \in Csids : Fits(On(st[i + 1], c), pend[c])
    BY <2>1 DEF Run
  <2> QED BY <1>2, <2>1, <2>2
<1>6. ASSUME NEW i \in 1 .. n - 1
      PROVE  /\ Leads(st2[i], ck2[i], st2[i + 1], pend)
             /\ pos2[i + 1] = pos2[i] + Width(ck2[i]) /\ Holds(S, pos2[i], ck2[i])
  <2>1. i \in Nat /\ i + 1 \in 1 .. n /\ i + 1 \in Nat
    BY <1>1
  <2>2. /\ Leads(st[i + 1], ck[i + 1], st[(i + 1) + 1], pend)
        /\ pos[(i + 1) + 1] = pos[i + 1] + Width(ck[i + 1]) /\ Holds(S, pos[i + 1], ck[i + 1])
    BY <2>1 DEF Run
  <2> QED BY <1>2, <2>1, <2>2
<1>7. Run(S, pend, n - 1, ck2, pos2, st2)
  BY <1>3, <1>4, <1>5, <1>6 DEF Run
<1> QED BY <1>7 DEF ck2, pos2, st2

(* Messages go by, none comes back.                                        *)
LEMMA RunGrows ==
  ASSUME NEW S, NEW pend \in [Csids -> Seq(Msg)], NEW n, NEW ck, NEW pos, NEW st,
         Run(S, pend, n, ck, pos, st), NEW c \in Csids
  PROVE  \A i \in 1 .. n + 1 : On(st[i], c).q \in Nat /\ On(st[1], c).q <= On(st[i], c).q
<1> DEFINE P == {i \in 0 .. n : On(st[1], c).q <= On(st[i + 1], c).q}
<1>1. n \in Nat
  BY DEF Run
<1>2. ASSUME NEW i \in 1 .. n + 1 PROVE On(st[i], c).q \in Nat
  BY DEF Run, State, Mid, On
<1>3. 0 \in P
  BY <1>1, <1>2
<1>4. ASSUME NEW m \in 1 .. n PROVE On(st[m], c).q <= On(st[m + 1], c).q
  <2>0. m \in 1 .. n + 1 /\ m + 1 \in 1 .. n + 1
    BY <1>1
  <2>5. /\ On(st[m + 1], ck[m].c) = Closed(On(st[m], ck[m].c), ck[m])
        /\ \A e \in Csids \ {ck[m].c} : On(st[m + 1], e) = On(st[m], e)
    BY RunMoves
  <2>1. /\ m \in 1 .. n + 1 /\ m + 1 \in 1 .. n + 1
        /\ On(st[m + 1], ck[m].c) = Closed(On(st[m], ck[m].c), ck[m])
        /\ c # ck[m].c => On(st[m + 1], c) = On(st[m], c)
    BY <2>0, <2>5
  <2>2. On(st[m], c).q \in Nat
    BY <1>2, <2>1
  <2>3. CASE c = ck[m].c
    <3> DEFINE x == On(st[m], c)
    <3>1. On(st[m + 1], c) = Closed(x, ck[m])
      BY <2>1, <2>3
    <3> HIDE DEF x
    <3>2. Closed(x, ck[m]).q = IF ck[m].n = Left(x, ck[m]) THEN x.q + 1 ELSE x.q
      BY DEF Closed
    <3> QED BY <2>2, <3>1, <3>2 DEF x
  <2>4. CASE c # ck[m].c
    BY <2>1, <2>2, <2>4
  <2> QED BY <2>3, <2>4
<1>7. ASSUME NEW i \in 0 .. n - 1, i \in P PROVE i + 1 \in P
  <2>1. i + 1 \in 1 .. n /\ (i + 1) + 1 \in 1 .. n + 1 /\ i + 1 \in 1 .. n + 1 /\ 1 \in 1 .. n + 1
    BY <1>1
  <2>2. On(st[i + 1], c).q <= On(st[(i + 1) + 1], c).q
    BY <1>4, <2>1
  <2>3. On(st[i + 1], c).q \in Nat /\ On(st[1], c).q \in Nat /\ On(st[(i + 1) + 1], c).q \in Nat
    BY <1>2, <2>1
  <2>4. On(st[1], c).q <= On(st[i + 1], c).q
    BY <1>7
  <2>5. i + 1 \in 0 .. n
    BY <1>1
  <2> QED BY <2>2, <2>3, <2>4, <2>5
<1>5. \A i \in 0 .. n : i \in P
  <2> HIDE DEF P
  <2> QED BY <1>1, <1>3, <1>7, UpTo
<1>6. ASSUME NEW i \in 1 .. n + 1 PROVE On(st[1], c).q <= On(st[i], c).q
  <2>1. i - 1 \in 0 .. n /\ (i - 1) + 1 = i
    BY <1>1
  <2> QED BY <1>5, <2>1
<1> QED BY <1>2, <1>6

(* What is pending may change as long as it is the same for the run.       *)
LEMMA RunPending ==
  ASSUME NEW S, NEW pend, NEW pend2, NEW n, NEW ck, NEW pos, NEW st, NEW st2,
         Run(S, pend, n, ck, pos, st),
         \A i \in 1 .. n + 1 : st2[i] \in State /\ \A c \in Csids : Fits(On(st2[i], c), pend2[c]),
         \A i \in 1 .. n : Leads(st2[i], ck[i], st2[i + 1], pend2)
  PROVE  Run(S, pend2, n, ck, pos, st2)
<1>1. n \in Nat /\ pos[n + 1] = Len(S)
  BY DEF Run
<1>2. \A i \in 1 .. n + 1 : pos[i] \in Int /\ pos[i] <= Len(S)
  BY DEF Run
<1>3. \A i \in 1 .. n : pos[i + 1] = pos[i] + Width(ck[i]) /\ Holds(S, pos[i], ck[i])
  BY DEF Run
<1> QED BY <1>1, <1>2, <1>3 DEF Run

(* A message is put in.                                                    *)
LEMMA Longer ==
  ASSUME NEW p \in Seq(Msg), NEW m \in Msg
  PROVE  /\ Len(p) \in Nat /\ Len(Append(p, m)) = Len(p) + 1
         /\ \A q \in Nat : q < Len(p) => q < Len(Append(p, m)) /\ Append(p, m)[q + 1] = p[q + 1]
         /\ Append(p, m)[Len(p) + 1] = m
<1>1. /\ Len(p) \in Nat /\ Len(Append(p, m)) = Len(p) + 1
      /\ \A i \in 1 .. Len(p) : Append(p, m)[i] = p[i] /\ Append(p, m)[Len(p) + 1] = m
  BY Appended
<1>2. ASSUME NEW q \in Nat, q < Len(p) PROVE Append(p, m)[q + 1] = p[q + 1]
  <2>1. q + 1 \in 1 .. Len(p)
    BY <1>1, <1>2
  <2> QED BY <1>1, <2>1
<1>3. Append(p, m)[Len(p) + 1] = m
  BY Appended
<1> QED BY <1>1, <1>2, <1>3

LEMMA FitsPut ==
  ASSUME NEW x, x.q \in Nat, NEW p \in Seq(Msg), NEW m \in Msg, Fits(x, p)
  PROVE  Fits(x, Append(p, m))
<1>1. Len(p) \in Nat /\ Len(Append(p, m)) = Len(p) + 1
  BY Longer
<1>2. x.q <= Len(Append(p, m))
  BY <1>1 DEF Fits
<1>3. ASSUME x.remain # 0
      PROVE  /\ x.q < Len(Append(p, m)) /\ x.remain < x.len
             /\ \E id \in Nat : Append(p, m)[x.q + 1] = Message(id, x.kind, x.ts, x.len)
  <2>1. x.q < Len(p) /\ x.remain < x.len
    BY <1>3 DEF Fits
  <2>2. PICK id \in Nat : p[x.q + 1] = Message(id, x.kind, x.ts, x.len)
    BY <1>3 DEF Fits
  <2>3. Append(p, m)[x.q + 1] = p[x.q + 1]
    BY <2>1, Longer
  <2> QED BY <1>1, <2>1, <2>2, <2>3
<1> QED BY <1>2, <1>3 DEF Fits

LEMMA LeadsPut ==
  ASSUME NEW s \in State, NEW k, NEW t, NEW pend \in [Csids -> Seq(Msg)], NEW c \in Csids,
         NEW m \in Msg, Leads(s, k, t, pend)
  PROVE  Leads(s, k, t, [pend EXCEPT ![c] = Append(@, m)])
<1> DEFINE pend2 == [pend EXCEPT ![c] = Append(@, m)]
           x == On(s, k.c)
<1>1. k \in Chunk /\ x.q < Len(pend[k.c])
      /\ pend[k.c][x.q + 1] = Message(k.id, k.kind, k.mts, k.len)
  BY DEF Leads
<1>2. k.c \in Csids /\ x.q \in Nat /\ pend[k.c] \in Seq(Msg)
  BY <1>1 DEF Chunk, State, Mid, On
<1>3. x.q < Len(pend2[k.c]) /\ pend2[k.c][x.q + 1] = pend[k.c][x.q + 1]
  <2>1. CASE k.c = c
    <3>1. pend2[k.c] = Append(pend[k.c], m)
      BY <1>2, <2>1
    <3> QED BY <1>1, <1>2, <3>1, Longer
  <2>2. CASE k.c # c
    <3>1. pend2[k.c] = pend[k.c]
      BY <1>2, <2>2
    <3> QED BY <1>1, <3>1
  <2> QED BY <2>1, <2>2
<1> HIDE DEF pend2
<1>4. Leads(s, k, t, pend2)
  BY <1>1, <1>3 DEF Leads
<1> QED BY <1>4 DEF pend2

LEMMA RunPut ==
  ASSUME NEW S, NEW pend \in [Csids -> Seq(Msg)], NEW n, NEW ck, NEW pos, NEW st,
         NEW c \in Csids, NEW m \in Msg, Run(S, pend, n, ck, pos, st)
  PROVE  Run(S, [pend EXCEPT ![c] = Append(@, m)], n, ck, pos, st)
<1> DEFINE pend2 == [pend EXCEPT ![c] = Append(@, m)]
<1>1. ASSUME NEW i \in 1 .. n PROVE Leads(st[i], ck[i], st[i + 1], pend2)
  <2>1. st[i] \in State /\ Leads(st[i], ck[i], st[i + 1], pend)
    BY RunFacts
  <2> QED BY <2>1, LeadsPut
<1>2. ASSUME NEW i \in 1 .. n + 1, NEW e \in Csids
      PROVE  Fits(On(st[i], e), pend2[e])
  <2>1. st[i] \in State /\ Fits(On(st[i], e), pend[e])
    BY DEF Run
  <2>2. On(st[i], e).q \in Nat
    BY <2>1 DEF State, Mid, On
  <2>3. CASE e = c
    <3>1. pend2[e] = Append(pend[e], m)
      BY <2>3
    <3> QED BY <2>1, <2>2, <3>1, FitsPut
  <2>4. CASE e # c
    BY <2>1, <2>4
  <2> QED BY <2>3, <2>4
<1>3. \A i \in 1 .. n + 1 : st[i] \in State
  BY DEF Run
<1> HIDE DEF pend2
<1>4. Run(S, pend2, n, ck, pos, st)
  BY <1>1, <1>2, <1>3, RunPending
<1> QED BY <1>4 DEF pend2

(* A message is taken out.                                                 *)
Fewer(s, c) == [s EXCEPT !.cs[c].q = @ - 1]

(* The state in which one message less of c has gone by.                   *)
LEMMA FewerFacts ==
  ASSUME NEW s \in State, NEW c \in Csids, On(s, c).q >= 1
  PROVE  /\ Fewer(s, c) \in State /\ Fewer(s, c).size = s.size
         /\ On(Fewer(s, c), c) = [On(s, c) EXCEPT !.q = @ - 1]
         /\ \A e \in Csids \ {c} : On(Fewer(s, c), e) = On(s, e)
         /\ Fewer(s, c).cs = [s.cs EXCEPT ![c] = [On(s, c) EXCEPT !.q = @ - 1]]
<1> DEFINE y == [On(s, c) EXCEPT !.q = @ - 1]
<1>1. /\ s.cs \in [Csids -> Mid] /\ s.size \in Sizes /\ s = [size |-> s.size, cs |-> s.cs]
      /\ s.cs[c] = On(s, c)
  BY DEF State, On
<1>2. y \in Mid
  <2>1. On(s, c) \in Mid /\ On(s, c).q - 1 \in Nat
    BY <1>1 DEF Mid
  <2> QED BY <2>1 DEF Mid
<1>3. Fewer(s, c) = [size |-> s.size, cs |-> [s.cs EXCEPT ![c] = y]]
  BY <1>1 DEF Fewer
<1> HIDE DEF y
<1>4. [s.cs EXCEPT ![c] = y] \in [Csids -> Mid]
  BY <1>1, <1>2
<1>5. Fewer(s, c) \in State /\ Fewer(s, c).size = s.size /\ Fewer(s, c).cs = [s.cs EXCEPT ![c] = y]
  BY <1>1, <1>3, <1>4 DEF State
<1>6. On(Fewer(s, c), c) = y
  BY <1>1, <1>5 DEF On
<1>7. \A e \in Csids \ {c} : On(Fewer(s, c), e) = On(s, e)
  BY <1>1, <1>5 DEF On
<1> QED BY <1>5, <1>6, <1>7 DEF y

(* What is remembered fits what is still pending when the first message is *)
(* gone.                                                                   *)
LEMMA FitsTake ==
  ASSUME NEW x \in Mid, x.q >= 1, NEW p \in Seq(Msg), Fits(x, p)
  PROVE  Fits([x EXCEPT !.q = @ - 1], Tail(p))
<1> DEFINE y == [x EXCEPT !.q = @ - 1]
<1>1. /\ x.q \in Nat /\ y.q = x.q - 1 /\ y.remain = x.remain /\ y.len = x.len /\ y.kind = x.kind
      /\ y.ts = x.ts
  BY DEF Mid
<1> HIDE DEF y
<1>2. x.q <= Len(p) /\ Len(p) \in Nat
  BY DEF Fits
<1>3. p # <<>>
  BY <1>1, <1>2
<1>4. Len(Tail(p)) = Len(p) - 1 /\ \A i \in 1 .. Len(p) - 1 : Tail(p)[i] = p[i + 1]
  BY <1>3, Taken
<1>5. y.q <= Len(Tail(p))
  BY <1>1, <1>2, <1>4
<1>6. ASSUME x.remain # 0
      PROVE  /\ y.q < Len(Tail(p)) /\ x.remain < x.len
             /\ \E id \in Nat : Tail(p)[y.q + 1] = Message(id, x.kind, x.ts, x.len)
  <2>1. x.q < Len(p) /\ x.remain < x.len
    BY <1>6 DEF Fits
  <2>2. PICK id \in Nat : p[x.q + 1] = Message(id, x.kind, x.ts, x.len)
    BY <1>6 DEF Fits
  <2>3. y.q + 1 \in 1 .. Len(p) - 1 /\ (y.q + 1) + 1 = x.q + 1
    BY <1>1, <1>2, <2>1
  <2>4. Tail(p)[y.q + 1] = p[x.q + 1]
    BY <1>4, <2>3
  <2>5. y.q < Len(Tail(p))
    BY <1>1, <1>2, <1>4, <2>1
  <2> QED BY <2>1, <2>2, <2>4, <2>5
<1>7. Fits(y, Tail(p))
  BY <1>1, <1>5, <1>6 DEF Fits
<1> QED BY <1>7 DEF y

LEMMA TakenAt ==
  ASSUME NEW p \in Seq(Msg), NEW q \in Nat, q >= 1, q < Len(p)
  PROVE  q - 1 < Len(Tail(p)) /\ Tail(p)[(q - 1) + 1] = p[q + 1]
<1>1. Len(p) \in Nat
  OBVIOUS
<1>2. p # <<>>
  BY <1>1
<1>3. Len(Tail(p)) = Len(p) - 1 /\ \A i \in 1 .. Len(p) - 1 : Tail(p)[i] = p[i + 1]
  BY <1>2, Taken
<1>4. (q - 1) + 1 \in 1 .. Len(p) - 1 /\ ((q - 1) + 1) + 1 = q + 1
  BY <1>1
<1>5. Tail(p)[(q - 1) + 1] = p[((q - 1) + 1) + 1]
  BY <1>3, <1>4
<1> QED BY <1>1, <1>3, <1>4, <1>5

(* A chunk behind that message still leads from one state to the next.     *)
LEMMA LeadsTake ==
  ASSUME NEW s \in State, NEW k, NEW t \in State, NEW pend \in [Csids -> Seq(Msg)],
         NEW c \in Csids, Leads(s, k, t, pend), On(s, c).q >= 1, On(t, c).q >= 1
  PROVE  Leads(Fewer(s, c), k, Fewer(t, c), [pend EXCEPT ![c] = Tail(@)])
<1> DEFINE pend2 == [pend EXCEPT ![c] = Tail(@)]
           x == On(s, k.c)
           y == On(Fewer(s, c), k.c)
           d == IF k.c = c THEN 1 ELSE 0
<1>1. /\ k \in Chunk /\ x.q < Len(pend[k.c])
      /\ k.kind # "other"
      /\ pend[k.c][x.q + 1] = Message(k.id, k.kind, k.mts, k.len)
      /\ k.n = Less(s.size, Left(x, k)) /\ Left(x, k) <= k.len /\ k.from = k.len - Left(x, k)
      /\ IF x.remain = 0 THEN Begins(x, k) ELSE Goes(x, k)
      /\ t = [size |-> IF k.n = Left(x, k) /\ k.kind = "size" THEN NewSize ELSE s.size,
              cs |-> [s.cs EXCEPT ![k.c] = Closed(x, k)]]
  BY DEF Leads
<1>2. k.c \in Csids /\ x \in Mid /\ x.q \in Nat /\ pend[k.c] \in Seq(Msg)
  BY <1>1 DEF Chunk, State, Mid, On
<1>3. /\ Fewer(s, c) \in State /\ Fewer(s, c).size = s.size
      /\ On(Fewer(s, c), c) = [On(s, c) EXCEPT !.q = @ - 1]
      /\ \A e \in Csids \ {c} : On(Fewer(s, c), e) = On(s, e)
      /\ Fewer(s, c).cs = [s.cs EXCEPT ![c] = [On(s, c) EXCEPT !.q = @ - 1]]
  BY FewerFacts
<1>4. /\ Fewer(t, c) \in State /\ Fewer(t, c).size = t.size
      /\ On(Fewer(t, c), c) = [On(t, c) EXCEPT !.q = @ - 1]
      /\ \A e \in Csids \ {c} : On(Fewer(t, c), e) = On(t, e)
  BY FewerFacts
<1>5. y = [x EXCEPT !.q = @ - d]
  <2>1. CASE k.c = c
    BY <1>3, <2>1
  <2>2. CASE k.c # c
    <3>1. y = x
      BY <1>2, <1>3, <2>2
    <3>2. x = [x EXCEPT !.q = @ - 0]
      BY <1>2 DEF Mid
    <3> QED BY <2>2, <3>1, <3>2
  <2> QED BY <2>1, <2>2
<1>6. /\ y.q = x.q - d /\ y.remain = x.remain /\ y.fmt = x.fmt /\ y.flag = x.flag /\ y.ts = x.ts
      /\ y.delta = x.delta /\ y.kind = x.kind /\ y.len = x.len
  BY <1>2, <1>5 DEF Mid
<1>7. k.c = c => x.q >= 1
  OBVIOUS
<1>8. y.q < Len(pend2[k.c]) /\ pend2[k.c][y.q + 1] = pend[k.c][x.q + 1]
  <2>1. CASE k.c = c
    <3>1. pend2[k.c] = Tail(pend[k.c])
      BY <1>2, <2>1
    <3> QED BY <1>1, <1>2, <1>6, <1>7, <2>1, <3>1, TakenAt
  <2>2. CASE k.c # c
    <3>1. pend2[k.c] = pend[k.c]
      BY <1>2, <2>2
    <3> QED BY <1>1, <1>2, <1>6, <2>2, <3>1
  <2> QED BY <2>1, <2>2
<1> HIDE DEF pend2, x, y, d
<1>9. Left(y, k) = Left(x, k) /\ Begins(y, k) = Begins(x, k) /\ Goes(y, k) = Goes(x, k)
  BY <1>6 DEF Left, Begins, Goes
<1>10. Closed(y, k) = [Closed(x, k) EXCEPT !.q = @ - d]
  <2>1. Flagged(y, k) = Flagged(x, k) /\ Delta(y, k) = Delta(x, k)
    BY <1>6 DEF Flagged, Delta
  <2>2. (IF k.n = Left(y, k) THEN y.q + 1 ELSE y.q)
          = (IF k.n = Left(x, k) THEN x.q + 1 ELSE x.q) - d
    BY <1>2, <1>6, <1>9 DEF d
  <2>3. Closed(y, k) = [fmt |-> k.fmt, flag |-> Flagged(x, k), ts |-> k.mts,
                        delta |-> Delta(x, k), kind |-> k.kind, len |-> k.len,
                        remain |-> Left(x, k) - k.n,
                        q |-> (IF k.n = Left(x, k) THEN x.q + 1 ELSE x.q) - d]
    BY <1>9, <2>1, <2>2 DEF Closed
  <2> QED BY <2>3 DEF Closed
<1>11. Fewer(t, c).size = IF k.n = Left(y, k) /\ k.kind = "size" THEN NewSize ELSE s.size
  BY <1>1, <1>4, <1>9
<1>12. Fewer(t, c).cs = [Fewer(s, c).cs EXCEPT ![k.c] = Closed(y, k)]
  <2>1. Fewer(t, c).cs \in [Csids -> Mid] /\ Fewer(s, c).cs \in [Csids -> Mid]
        /\ t.cs \in [Csids -> Mid] /\ s.cs \in [Csids -> Mid]
    BY <1>3, <1>4 DEF State
  <2>2. On(t, k.c) = Closed(x, k) /\ \A e \in Csids \ {k.c} : On(t, e) = On(s, e)
    BY <1>1, <1>2, <2>1 DEF On
  <2>3. ASSUME NEW e \in Csids
        PROVE  On(Fewer(t, c), e) = IF e = k.c THEN Closed(y, k) ELSE On(Fewer(s, c), e)
    <3>1. CASE e = k.c /\ k.c = c
      BY <1>4, <1>10, <2>2, <3>1 DEF d
    <3>2. CASE e = k.c /\ k.c # c
      <4>1. Closed(y, k) = Closed(x, k)
        <5>1. y = x
          BY <1>2, <1>3, <3>2 DEF x, y
        <5> QED BY <5>1
      <4> QED BY <1>4, <2>2, <3>2, <4>1
    <3>3. CASE e # k.c /\ e = c
      <4>1. On(t, c) = On(s, c)
        BY <2>2, <3>3
      <4> QED BY <1>3, <1>4, <3>3, <4>1
    <3>4. CASE e # k.c /\ e # c
      BY <1>3, <1>4, <2>2, <3>4
    <3> QED BY <3>1, <3>2, <3>3, <3>4
  <2>4. \A e \in Csids : Fewer(t, c).cs[e] = [Fewer(s, c).cs EXCEPT ![k.c] = Closed(y, k)][e]
    BY <2>1, <2>3 DEF On
  <2>5. DOMAIN Fewer(t, c).cs = Csids /\ DOMAIN Fewer(s, c).cs = Csids
    BY <2>1
  <2>6. Fewer(t, c).cs = [e \in Csids |-> Fewer(t, c).cs[e]]
    BY <2>1
  <2> QED BY <2>4, <2>5, <2>6
<1>13. Fewer(t, c) = [size |-> IF k.n = Left(y, k) /\ k.kind = "size" THEN NewSize ELSE s.size,
                      cs |-> [Fewer(s, c).cs EXCEPT ![k.c] = Closed(y, k)]]
  <2>1. Fewer(t, c) = [size |-> Fewer(t, c).size, cs |-> Fewer(t, c).cs]
    BY <1>4 DEF State
  <2> QED BY <1>11, <1>12, <2>1
<1>14. IF y.remain = 0 THEN Begins(y, k) ELSE Goes(y, k)
  BY <1>1, <1>6, <1>9
<1>15. Leads(Fewer(s, c), k, Fewer(t, c), pend2)
  BY <1>1, <1>3, <1>8, <1>9, <1>13, <1>14 DEF Leads, y
<1> QED BY <1>15 DEF pend2

AllFewer(st, c) == [i \in Nat |-> Fewer(st[i], c)]

LEMMA RunTake ==
  ASSUME NEW S, NEW pend \in [Csids -> Seq(Msg)], NEW n, NEW ck, NEW pos, NEW st,
         NEW c \in Csids, Run(S, pend, n, ck, pos, st), On(st[1], c).q >= 1
  PROVE  Run(S, [pend EXCEPT ![c] = Tail(@)], n, ck, pos, AllFewer(st, c))
<1> DEFINE pend2 == [pend EXCEPT ![c] = Tail(@)]
           st2 == AllFewer(st, c)
<1>1. n \in Nat
  BY DEF Run
<1>2. \A i \in 1 .. n + 1 : st2[i] = Fewer(st[i], c)
  BY <1>1 DEF AllFewer
<1>3. ASSUME NEW i \in 1 .. n + 1 PROVE st[i] \in State /\ On(st[i], c).q >= 1
  <2>1. st[i] \in State
    BY DEF Run
  <2>2. On(st[i], c).q \in Nat /\ On(st[1], c).q <= On(st[i], c).q
    BY RunGrows
  <2>3. On(st[1], c).q \in Nat
    <3>1. 1 \in 1 .. n + 1
      BY <1>1
    <3> QED BY <3>1, RunGrows
  <2> QED BY <2>1, <2>2, <2>3
<1>4. ASSUME NEW i \in 1 .. n PROVE Leads(st2[i], ck[i], st2[i + 1], pend2)
  <2>1. i \in 1 .. n + 1 /\ i + 1 \in 1 .. n + 1 /\ Leads(st[i], ck[i], st[i + 1], pend)
    BY RunFacts
  <2>2. st[i] \in State /\ On(st[i], c).q >= 1 /\ st[i + 1] \in State /\ On(st[i + 1], c).q >= 1
    BY <1>3, <2>1
  <2>3. Leads(Fewer(st[i], c), ck[i], Fewer(st[i + 1], c), pend2)
    BY <2>1, <2>2, LeadsTake
  <2>4. st2[i] = Fewer(st[i], c) /\ st2[i + 1] = Fewer(st[i + 1], c)
    BY <1>2, <2>1
  <2> HIDE DEF st2, pend2
  <2> QED BY <2>3, <2>4
<1>5. ASSUME NEW i \in 1 .. n + 1, NEW e \in Csids
      PROVE  st2[i] \in State /\ Fits(On(st2[i], e), pend2[e])
  <2>1. st[i] \in State /\ On(st[i], c).q >= 1
    BY <1>3
  <2>2. Fits(On(st[i], e), pend[e])
    BY DEF Run
  <2>3. /\ Fewer(st[i], c) \in State
        /\ On(Fewer(st[i], c), c) = [On(st[i], c) EXCEPT !.q = @ - 1]
        /\ \A f \in Csids \ {c} : On(Fewer(st[i], c), f) = On(st[i], f)
    BY <2>1, FewerFacts
  <2>4. On(st[i], c) \in Mid
    BY <2>1 DEF State, On
  <2>5. CASE e = c
    <3>1. pend2[e] = Tail(pend[e]) /\ pend[e] \in Seq(Msg)
      BY <2>5
    <3>2. Fits([On(st[i], c) EXCEPT !.q = @ - 1], Tail(pend[e]))
      BY <2>1, <2>2, <2>4, <2>5, <3>1, FitsTake
    <3> QED BY <1>2, <2>3, <2>5, <3>1, <3>2
  <2>6. CASE e # c
    <3>1. pend2[e] = pend[e]
      BY <2>6
    <3> QED BY <1>2, <2>2, <2>3, <2>6, <3>1
  <2> QED BY <2>5, <2>6
<1> HIDE DEF pend2, st2
<1>6. ASSUME NEW i \in 1 .. n + 1 PROVE st2[i] \in State
  <2>1. st[i] \in State /\ On(st[i], c).q >= 1
    BY <1>3
  <2>2. Fewer(st[i], c) \in State
    BY <2>1, FewerFacts
  <2> QED BY <1>2, <2>2
<1>7. Run(S, pend2, n, ck, pos, st2)
  BY <1>4, <1>5, <1>6, RunPending
<1> QED BY <1>7 DEF pend2, st2

(* The sender adds a chunk.                                                *)
ChunksAnd(ck, n, k) == [i \in Nat |-> IF i = n + 1 THEN k ELSE ck[i]]
NextAnd(f, n, y) == [i \in Nat |-> IF i = n + 2 THEN y ELSE f[i]]

(* The chunks, positions and states of a run, with one more at the end.    *)
LEMMA AndFacts ==
  ASSUME NEW n \in Nat, NEW f, NEW y
  PROVE  /\ ChunksAnd(f, n, y)[n + 1] = y /\ \A i \in 1 .. n : ChunksAnd(f, n, y)[i] = f[i]
         /\ NextAnd(f, n, y)[n + 2] = y /\ \A i \in 1 .. n + 1 : NextAnd(f, n, y)[i] = f[i]
  BY DEF ChunksAnd, NextAnd

(* A chunk behind the last state of a run makes a longer run.              *)
LEMMA RunExtended ==
  ASSUME NEW S \in Seq(Part), NEW pend \in [Csids -> Seq(Msg)], NEW n, NEW ck, NEW pos, NEW st,
         NEW k, NEW t, Run(S, pend, n, ck, pos, st), Leads(st[n + 1], k, t, pend)
  PROVE  Run(S \o Parts(k), pend, n + 1, ChunksAnd(ck, n, k),
             NextAnd(pos, n, Len(S) + Width(k)), NextAnd(st, n, t))
<1> DEFINE ck2 == ChunksAnd(ck, n, k)
           pos2 == NextAnd(pos, n, Len(S) + Width(k))
           st2 == NextAnd(st, n, t)
           R == S \o Parts(k)
<1>1. n \in Nat /\ pos[n + 1] = Len(S) /\ n + 1 \in 1 .. n + 1
  BY DEF Run
<1>2. st[n + 1] \in State /\ \A c \in Csids : Fits(On(st[n + 1], c), pend[c])
  BY <1>1 DEF Run
<1>3. k \in Chunk /\ t \in State /\ \A c \in Csids : Fits(On(t, c), pend[c])
  BY <1>2, LeadsOn
<1>4. /\ ck2[n + 1] = k /\ \A i \in 1 .. n : ck2[i] = ck[i]
      /\ pos2[n + 2] = Len(S) + Width(k) /\ \A i \in 1 .. n + 1 : pos2[i] = pos[i]
      /\ st2[n + 2] = t /\ \A i \in 1 .. n + 1 : st2[i] = st[i]
  BY <1>1, AndFacts
<1>5. Parts(k) \in Seq(Part) /\ Len(Parts(k)) = Width(k) /\ Width(k) \in Nat /\ Len(S) \in Nat
  <2>1. Parts(k) \in Seq(Part) /\ Len(Parts(k)) = Width(k)
    BY <1>3, PartsOf
  <2>2. Width(k) \in Nat
    BY <1>3, Widths
  <2>3. Len(S) \in Nat
    OBVIOUS
  <2> QED BY <2>1, <2>2, <2>3
<1>6. Len(R) = Len(S) + Width(k)
  BY <1>5, Concat
<1>7. Holds(R, Len(S), k)
  BY <1>3, HoldsNew
<1> HIDE DEF ck2, pos2, st2, R
<1>8. ASSUME NEW i \in 1 .. n + 2
      PROVE  /\ pos2[i] \in Int /\ pos2[i] <= Len(R) /\ st2[i] \in State
             /\ \A c \in Csids : Fits(On(st2[i], c), pend[c])
  <2>1. CASE i = n + 2
    BY <1>3, <1>4, <1>5, <1>6, <2>1
  <2>2. CASE i # n + 2
    <3>1. i \in 1 .. n + 1
      BY <1>1, <2>2
    <3>2. /\ pos[i] \in Int /\ pos[i] <= Len(S) /\ st[i] \in State
          /\ \A c \in Csids : Fits(On(st[i], c), pend[c])
      BY <3>1 DEF Run
    <3> QED BY <1>4, <1>5, <1>6, <3>1, <3>2
  <2> QED BY <2>1, <2>2
<1>9. ASSUME NEW i \in 1 .. n + 1
      PROVE  /\ Leads(st2[i], ck2[i], st2[i + 1], pend)
             /\ pos2[i + 1] = pos2[i] + Width(ck2[i]) /\ Holds(R, pos2[i], ck2[i])
  <2>1. CASE i = n + 1
    <3>1. i + 1 = n + 2
      BY <1>1, <2>1
    <3>2. st2[i] = st[n + 1] /\ st2[i + 1] = t /\ ck2[i] = k /\ pos2[i] = Len(S)
          /\ pos2[i + 1] = Len(S) + Width(k)
      BY <1>1, <1>4, <2>1, <3>1
    <3> QED BY <1>7, <3>2
  <2>2. CASE i # n + 1
    <3>1. i \in 1 .. n
      BY <1>1, <2>2
    <3>2. /\ i \in 1 .. n + 1 /\ i + 1 \in 1 .. n + 1 /\ Leads(st[i], ck[i], st[i + 1], pend)
          /\ ck[i] \in Chunk /\ pos[i] \in Int /\ pos[i + 1] = pos[i] + Width(ck[i])
          /\ pos[i + 1] <= Len(S) /\ Holds(S, pos[i], ck[i])
      BY <3>1, RunFacts
    <3>3. pos[i] + Width(ck[i]) <= Len(S)
      BY <3>2
    <3>4. Holds(R, pos[i], ck[i])
      BY <1>5, <3>2, <3>3, HoldsMore DEF R
    <3>5. st2[i] = st[i] /\ st2[i + 1] = st[i + 1] /\ ck2[i] = ck[i] /\ pos2[i] = pos[i]
          /\ pos2[i + 1] = pos[i + 1]
      BY <1>4, <3>1, <3>2
    <3> QED BY <3>2, <3>4, <3>5
  <2> QED BY <2>1, <2>2
<1>10. n + 1 \in Nat /\ (n + 1) + 1 = n + 2 /\ pos2[(n + 1) + 1] = Len(R)
  BY <1>1, <1>4, <1>6
<1>11. Run(R, pend, n + 1, ck2, pos2, st2)
  BY <1>8, <1>9, <1>10 DEF Run
<1> QED BY <1>11 DEF ck2, pos2, st2, R

-----------------------------------------------------------------------------
(* Where the reader is, when the sender moves.                             *)

(* Where the reader is depends on these fields only.                       *)
LEMMA AtSame ==
  ASSUME NEW ph, NEW r, NEW r2, NEW w, NEW pend, NEW n, NEW ck, NEW pos, NEW st,
         At(ph, r, w, pend, n, ck, pos, st),
         r2.recv_buffer_ = r.recv_buffer_, r2.chunk_size_ = r.chunk_size_, r2.lost = r.lost,
         r2.csid_ = r.csid_, r2.cs_map_ = r.cs_map_, r2.fmt_ready_ = r.fmt_ready_,
         r2.fmt_ = r.fmt_
  PROVE  At(ph, r2, w, pend, n, ck, pos, st)
  BY DEF At, Before, InChunk, BehindBasic, BehindHead

(* A chunk at the end of the stream is not the one that is read.           *)
Grown(ph, r, w, pend, n, k, t) ==
  \E ck, pos, st :
    At(ph, r, w \o Parts(k), pend, n + 1, ck, pos, st) /\ st[(n + 1) + 1] = t

LEMMA AtExtended ==
  ASSUME NEW ph \in 0 .. 2, NEW r, r.recv_buffer_ \in Seq(Part), NEW w \in Seq(Part),
         NEW pend \in [Csids -> Seq(Msg)],
         NEW n, NEW ck, NEW pos, NEW st, NEW k, NEW t,
         At(ph, r, w, pend, n, ck, pos, st), Leads(st[n + 1], k, t, pend)
  PROVE  Grown(ph, r, w, pend, n, k, t)
<1> DEFINE S == r.recv_buffer_ \o w
           ck2 == ChunksAnd(ck, n, k)
           pos2 == NextAnd(pos, n, Len(S) + Width(k))
           st2 == NextAnd(st, n, t)
<1>1. Run(S, pend, n, ck, pos, st)
  BY DEF At
<1>2. n \in Nat /\ S \in Seq(Part) /\ st[n + 1] \in State
      /\ \A c \in Csids : Fits(On(st[n + 1], c), pend[c])
  <2>1. n \in Nat
    BY <1>1 DEF Run
  <2>2. n + 1 \in 1 .. n + 1
    BY <2>1
  <2>3. S \in Seq(Part)
    BY Concat
  <2> QED BY <1>1, <2>1, <2>2, <2>3 DEF Run
<1>3. k \in Chunk
  BY DEF Leads
<1>4. Parts(k) \in Seq(Part)
  BY <1>3, PartsOf
<1>5. Run(S \o Parts(k), pend, n + 1, ck2, pos2, st2)
  <2>1. S \in Seq(Part)
    BY <1>2
  <2> HIDE DEF S
  <2>2. Run(S \o Parts(k), pend, n + 1, ChunksAnd(ck, n, k),
            NextAnd(pos, n, Len(S) + Width(k)), NextAnd(st, n, t))
    BY <1>1, <2>1, RunExtended
  <2> QED BY <2>2
<1>6. S \o Parts(k) = r.recv_buffer_ \o (w \o Parts(k)) /\ w \o Parts(k) \in Seq(Part)
  BY ZenonT(60), <1>4, Associative, Concat
<1>7. /\ \A i \in 1 .. n : ck2[i] = ck[i]
      /\ \A i \in 1 .. n + 1 : pos2[i] = pos[i] /\ st2[i] = st[i]
      /\ st2[n + 2] = t /\ (n + 1) + 1 = n + 2
  BY <1>2, AndFacts
<1>8. /\ 1 \in 1 .. n + 1 /\ (n > 0 => 1 \in 1 .. n)
  BY <1>2
<1>9. pos2[1] = pos[1] /\ st2[1] = st[1] /\ (n > 0 => ck2[1] = ck[1])
  BY <1>7, <1>8
<1> HIDE DEF S, ck2, pos2, st2
<1>10. /\ r.chunk_size_ = st2[1].size /\ ~r.lost /\ \A c \in Csids : On(st2[1], c).q = 0
       /\ \A c \in Csids : ph = 0 \/ c # r.csid_ =>
                        r.cs_map_[c] = Resting(On(st2[1], c), pend[c])
  BY <1>9 DEF At
<1>11. /\ ph = 0 => Before(r, pos2)
       /\ ph = 1 => BehindBasic(r, pend, n + 1, ck2, pos2, st2)
       /\ ph = 2 => BehindHead(r, pend, n + 1, ck2, pos2, st2)
  <2>1. CASE ph = 0
    BY <1>9, <2>1 DEF At, Before
  <2>2. CASE ph = 1
    <3>1. BehindBasic(r, pend, n, ck, pos, st)
      BY <2>2 DEF At
    <3>2. n > 0 /\ n + 1 > 0
      BY <1>2, <3>1 DEF BehindBasic, InChunk
    <3> QED BY <1>9, <2>2, <3>1, <3>2 DEF BehindBasic, InChunk
  <2>3. CASE ph = 2
    <3>1. BehindHead(r, pend, n, ck, pos, st)
      BY <2>3 DEF At
    <3>2. n > 0 /\ n + 1 > 0
      BY <1>2, <3>1 DEF BehindHead, InChunk
    <3> QED BY <1>9, <2>3, <3>1, <3>2 DEF BehindHead, InChunk
  <2> QED BY <2>1, <2>2, <2>3
<1>12. At(ph, r, w \o Parts(k), pend, n + 1, ck2, pos2, st2)
  <2>1. Run(r.recv_buffer_ \o (w \o Parts(k)), pend, n + 1, ck2, pos2, st2)
    BY <1>5, <1>6
  <2>2. ph = 0 \/ ph = 1 \/ ph = 2
    OBVIOUS
  <2> QED BY <1>6, <1>10, <1>11, <2>1, <2>2 DEF At
<1> QED BY <1>7, <1>12 DEF Grown

(* A message put in does not change what the reader has of an earlier one. *)
LEMMA MessageOf ==
  ASSUME NEW id \in Nat, NEW kind \in Kinds, NEW ts \in Nat, NEW len \in Nat
  PROVE  /\ Message(id, kind, ts, len) \in Msg
         /\ Message(id, kind, ts, len).kind = kind /\ Message(id, kind, ts, len).ts = ts
         /\ Message(id, kind, ts, len).body \in Seq(Nat \X Nat)
         /\ Len(Message(id, kind, ts, len).body) = len
         /\ \A i \in 1 .. len : Message(id, kind, ts, len).body[i] = <<id, i>>
<1>1. [i \in 1 .. len |-> <<id, i>>] \in Seq(Nat \X Nat)
  OBVIOUS
<1>2. Len([i \in 1 .. len |-> <<id, i>>]) = len
  OBVIOUS
<1> QED BY <1>1, <1>2 DEF Message, Msg

LEMMA RestingPut ==
  ASSUME NEW x, x.q = 0, NEW p \in Seq(Msg), NEW m \in Msg, Fits(x, p)
  PROVE  Resting(x, Append(p, m)) = Resting(x, p)
<1>1. CASE x.remain = 0
  BY <1>1 DEF Resting
<1>2. CASE x.remain # 0
  <2>1. 0 < Len(p)
    BY <1>2 DEF Fits
  <2>2. Append(p, m)[0 + 1] = p[0 + 1]
    BY <2>1, Longer
  <2>3. Append(p, m)[1] = p[1]
    BY <2>2
  <2> QED BY <2>3 DEF Resting
<1> QED BY <1>1, <1>2

LEMMA AtPut ==
  ASSUME NEW ph \in 0 .. 2, NEW r, NEW w, NEW pend \in [Csids -> Seq(Msg)],
         NEW n, NEW ck, NEW pos, NEW st, NEW c \in Csids, NEW m \in Msg,
         At(ph, r, w, pend, n, ck, pos, st)
  PROVE  At(ph, r, w, [pend EXCEPT ![c] = Append(@, m)], n, ck, pos, st)
<1> DEFINE pend2 == [pend EXCEPT ![c] = Append(@, m)]
<1>1. Run(r.recv_buffer_ \o w, pend, n, ck, pos, st)
  BY DEF At
<1>2. Run(r.recv_buffer_ \o w, pend2, n, ck, pos, st)
  BY <1>1, RunPut
<1>3. n \in Nat /\ 1 \in 1 .. n + 1
  BY <1>1 DEF Run
<1>4. ASSUME NEW e \in Csids PROVE Resting(On(st[1], e), pend2[e]) = Resting(On(st[1], e), pend[e])
  <2>1. Fits(On(st[1], e), pend[e])
    BY <1>1, <1>3 DEF Run
  <2>2. On(st[1], e).q = 0
    BY DEF At
  <2>3. CASE e = c
    <3>1. pend2[e] = Append(pend[e], m) /\ pend[e] \in Seq(Msg)
      BY <2>3
    <3>2. Resting(On(st[1], e), Append(pend[e], m)) = Resting(On(st[1], e), pend[e])
      BY <2>1, <2>2, <3>1, RestingPut
    <3> QED BY <3>1, <3>2
  <2>4. CASE e # c
    BY <2>4
  <2> QED BY <2>3, <2>4
<1>5. n > 0 => /\ ck[1].c \in Csids /\ pend2[ck[1].c][1] = pend[ck[1].c][1]
  <2>1. HAVE n > 0
  <2> DEFINE d == ck[1].c
  <2>2. 1 \in 1 .. n
    BY <1>3, <2>1
  <2>3. d \in Csids /\ Leads(st[1], ck[1], st[1 + 1], pend)
    BY <1>1, <2>2, RunFacts
  <2>4. On(st[1], d).q < Len(pend[d]) /\ On(st[1], d).q = 0
    BY <2>3 DEF Leads, At
  <2>5. CASE d = c
    <3>1. pend2[d] = Append(pend[d], m) /\ pend[d] \in Seq(Msg)
      BY <2>3, <2>5
    <3>2. Append(pend[d], m)[0 + 1] = pend[d][0 + 1]
      BY <2>4, <3>1, Longer
    <3> QED BY <2>3, <3>1, <3>2
  <2>6. CASE d # c
    BY <2>3, <2>6
  <2> QED BY <2>5, <2>6
<1> HIDE DEF pend2
<1>6. ph = 1 => BehindBasic(r, pend2, n, ck, pos, st)
  <2>1. HAVE ph = 1
  <2>2. BehindBasic(r, pend, n, ck, pos, st) /\ n > 0
    BY <2>1 DEF At, BehindBasic, InChunk
  <2>3. ck[1].c \in Csids
    BY <1>5, <2>2
  <2>4. Resting(On(st[1], ck[1].c), pend2[ck[1].c]) = Resting(On(st[1], ck[1].c), pend[ck[1].c])
    BY <1>4, <2>3
  <2> QED BY <2>2, <2>4 DEF BehindBasic, Seen
<1>7. ph = 2 => BehindHead(r, pend2, n, ck, pos, st)
  <2>1. HAVE ph = 2
  <2>2. BehindHead(r, pend, n, ck, pos, st) /\ n > 0
    BY <2>1 DEF At, BehindHead, InChunk
  <2>3. ck[1].c \in Csids /\ pend2[ck[1].c][1] = pend[ck[1].c][1]
    BY <1>5, <2>2
  <2>4. Reading(On(st[1], ck[1].c), ck[1], pend2[ck[1].c])
          = Reading(On(st[1], ck[1].c), ck[1], pend[ck[1].c])
    BY <2>3 DEF Reading, Resting
  <2> QED BY <2>2, <2>4 DEF BehindHead
<1>8. \A e \in Csids : ph = 0 \/ e # r.csid_ => r.cs_map_[e] = Resting(On(st[1], e), pend2[e])
  BY <1>4 DEF At
<1>9. /\ w \in Seq(Part) /\ r.chunk_size_ = st[1].size /\ ~r.lost
      /\ \A e \in Csids : On(st[1], e).q = 0 /\ (ph = 0 => Before(r, pos))
  BY DEF At
<1>10. (ph = 0 => Before(r, pos)) /\ (ph = 0 \/ ph = 1 \/ ph = 2)
  BY DEF At
<1>11. At(ph, r, w, pend2, n, ck, pos, st)
  BY <1>2, <1>6, <1>7, <1>8, <1>9, <1>10 DEF At
<1> QED BY <1>11 DEF pend2

-----------------------------------------------------------------------------
(* The sender adds a chunk.                                                *)

After(s, k) ==
  [size |-> IF k.n = Left(On(s, k.c), k) /\ k.kind = "size" THEN NewSize ELSE s.size,
   cs |-> [s.cs EXCEPT ![k.c] = Closed(On(s, k.c), k)]]

(* What the chunk leaves to be remembered, field by field.                 *)
LEMMA AfterFacts ==
  ASSUME NEW s \in State, NEW k, k.c \in Csids
  PROVE  /\ After(s, k).size = IF k.n = Left(On(s, k.c), k) /\ k.kind = "size"
                               THEN NewSize ELSE s.size
         /\ On(After(s, k), k.c) = Closed(On(s, k.c), k)
         /\ \A c \in Csids \ {k.c} : On(After(s, k), c) = On(s, c)
<1>1. s.cs \in [Csids -> Mid]
  BY DEF State
<1>2. After(s, k).cs = [s.cs EXCEPT ![k.c] = Closed(On(s, k.c), k)]
  BY DEF After
<1>3. On(After(s, k), k.c) = Closed(On(s, k.c), k)
  BY <1>1, <1>2 DEF On
<1>4. \A c \in Csids \ {k.c} : On(After(s, k), c) = On(s, c)
  BY <1>1, <1>2 DEF On
<1>5. After(s, k).size = IF k.n = Left(On(s, k.c), k) /\ k.kind = "size" THEN NewSize ELSE s.size
  BY DEF After
<1> QED BY <1>3, <1>4, <1>5

LEMMA ClosedFacts ==
  ASSUME NEW x, NEW k
  PROVE  /\ Closed(x, k).fmt = k.fmt /\ Closed(x, k).flag = Flagged(x, k)
         /\ Closed(x, k).ts = k.mts /\ Closed(x, k).delta = Delta(x, k)
         /\ Closed(x, k).kind = k.kind /\ Closed(x, k).len = k.len
         /\ Closed(x, k).remain = Left(x, k) - k.n
         /\ Closed(x, k).q = IF k.n = Left(x, k) THEN x.q + 1 ELSE x.q
  BY DEF Closed

(* The pieces the sender appends are the parts of the chunk.               *)
LEMMA WireOf ==
  ASSUME NEW w \in Seq(Part), NEW k \in Chunk
  PROVE  /\ w \o Parts(k) \in Seq(Part)
         /\ w \o Basic(k.fmt, k.c)
              \o (IF k.fmt = 3 THEN <<>> ELSE HeaderPart(Less(k.stamp, ExtTs), k.len, k.kind))
              \o (IF k.ext THEN ExtPart(k.stamp) ELSE <<>>)
              \o PayloadPart(k.id, k.from, k.n)
            = w \o Parts(k)
<1> DEFINE b == Basic(k.fmt, k.c)
           h == IF k.fmt = 3 THEN <<>> ELSE HeaderPart(Less(k.stamp, ExtTs), k.len, k.kind)
           e == IF k.ext THEN ExtPart(k.stamp) ELSE <<>>
           p == PayloadPart(k.id, k.from, k.n)
<1>1. /\ k.c \in Csids /\ k.fmt \in 0 .. 3 /\ k.ext \in BOOLEAN /\ k.stamp \in Nat
      /\ k.id \in Nat /\ k.from \in Nat /\ k.n \in Nat /\ k.len \in Lens /\ k.kind \in Kinds
  BY DEF Chunk
<1>2. b \in Seq(Part)
  BY <1>1, BasicOf
<1>3. p \in Seq(Part)
  BY <1>1, PayloadOf
<1>4. [k |-> "head", ts |-> Less(k.stamp, ExtTs), len |-> k.len, kind |-> k.kind] \in Part
      /\ [k |-> "ext", ts |-> k.stamp] \in Part
  BY <1>1, LessFacts, ChunkConstants DEF Part
<1>5. h \in Seq(Part)
  BY <1>4 DEF HeaderPart
<1>6. e \in Seq(Part)
  BY <1>4 DEF ExtPart
<1>7. Parts(k) = ((b \o h) \o e) \o p
  BY DEF Parts
<1> HIDE DEF b, h, e, p
<1>8. b \o h \in Seq(Part)
  BY <1>2, <1>5, Concat
<1>9. (b \o h) \o e \in Seq(Part)
  BY <1>6, <1>8, Concat
<1>10. (w \o b) \o h = w \o (b \o h)
  BY <1>2, <1>5, Associative
<1>11. (w \o (b \o h)) \o e = w \o ((b \o h) \o e)
  BY <1>6, <1>8, Associative
<1>12. (w \o ((b \o h) \o e)) \o p = w \o (((b \o h) \o e) \o p)
  BY <1>3, <1>9, Associative
<1>13. w \o (((b \o h) \o e) \o p) \in Seq(Part)
  BY <1>3, <1>9, Concat
<1>14. ((((w \o b) \o h) \o e) \o p) = w \o Parts(k)
  BY <1>7, <1>10, <1>11, <1>12
<1> QED BY <1>7, <1>13, <1>14 DEF b, h, e, p

-----------------------------------------------------------------------------
(* Another implementation sends.                                           *)

Dialogue(ph, r, w, pend, mine, size, outs) ==
  \E n, ck, pos, st :
    /\ At(ph, r, w, pend, n, ck, pos, st)
    /\ Ends(st[n + 1], mine, size, outs, pend)

(* Whoever sends: the chunk has to follow from what was remembered.        *)
LEMMA Sends ==
  ASSUME NEW ph \in 0 .. 2, NEW r, r.recv_buffer_ \in Seq(Part), NEW w \in Seq(Part),
         NEW pend \in [Csids -> Seq(Msg)],
         NEW n, NEW ck, NEW pos, NEW st, NEW k, NEW t, NEW mine, NEW size, NEW outs,
         At(ph, r, w, pend, n, ck, pos, st), Leads(st[n + 1], k, t, pend),
         Ends(t, mine, size, outs, pend)
  PROVE  Dialogue(ph, r, w \o Parts(k), pend, mine, size, outs)
<1>0. Grown(ph, r, w, pend, n, k, t)
  BY AtExtended
<1>1. PICK ck2, pos2, st2 :
        At(ph, r, w \o Parts(k), pend, n + 1, ck2, pos2, st2) /\ st2[(n + 1) + 1] = t
  BY <1>0 DEF Grown
<1>2. Ends(st2[(n + 1) + 1], mine, size, outs, pend)
  BY <1>1
<1> QED BY <1>1, <1>2 DEF Dialogue

LEMMA LastState ==
  ASSUME NEW ph, NEW r, NEW w, NEW pend, NEW n, NEW ck, NEW pos, NEW st,
         At(ph, r, w, pend, n, ck, pos, st)
  PROVE  /\ n \in Nat /\ st[n + 1] \in State
         /\ \A c \in Csids : /\ On(st[n + 1], c) \in Mid
                             /\ Fits(On(st[n + 1], c), pend[c])
<1>1. Run(r.recv_buffer_ \o w, pend, n, ck, pos, st)
  BY DEF At
<1>2. n \in Nat /\ n + 1 \in 1 .. n + 1
  BY <1>1 DEF Run
<1>3. st[n + 1] \in State /\ \A c \in Csids : Fits(On(st[n + 1], c), pend[c])
  BY <1>1, <1>2 DEF Run
<1>4. \A c \in Csids : On(st[n + 1], c) \in Mid
  BY <1>3 DEF State, On
<1> QED BY <1>2, <1>3, <1>4

(* The chunk of PeerChunk.                                                 *)
PeerOf(fmt, c, o, stamp, size) ==
  [c |-> c, fmt |-> fmt, ext |-> o.ext, stamp |-> stamp, n |-> Less(size, o.left),
   from |-> o.len - o.left, id |-> o.id, kind |-> o.kind, mts |-> o.ts, len |-> o.len]

LEMMA PeerOfFacts ==
  ASSUME NEW fmt \in 0 .. 3, NEW c \in Csids, NEW o \in Out, NEW stamp \in Nat,
         NEW size \in Sizes, o.left # 0, o.left <= o.len,
         NEW k, k = PeerOf(fmt, c, o, stamp, size)
  PROVE  /\ k \in Chunk /\ k.c = c /\ k.fmt = fmt /\ k.ext = o.ext /\ k.stamp = stamp
         /\ k.n = Less(size, o.left) /\ k.from = o.len - o.left /\ k.id = o.id
         /\ k.kind = o.kind /\ k.mts = o.ts /\ k.len = o.len
<1>1. /\ o.left \in Nat \ {0} /\ o.len \in 1 .. MaxLen /\ o.ext \in BOOLEAN /\ o.kind \in Kinds
      /\ o.id \in Nat /\ o.ts \in Nat /\ o.len - o.left \in Nat
  BY ChunkConstants DEF Out
<1>2. size \in Nat \ {0}
  BY ChunkConstants DEF Sizes
<1>3. Less(size, o.left) \in Nat \ {0}
  BY <1>1, <1>2, LessFacts
<1>4. PeerOf(fmt, c, o, stamp, size) \in Chunk
  BY <1>1, <1>3 DEF PeerOf, Chunk, Lens
<1> QED BY <1>4 DEF PeerOf


(* The chunk that begins a message fits what both ends remember unless its *)
(* form is Mishandled, and leaves them with the same again.                *)
LEMMA PeerBegins ==
  ASSUME NEW x \in Mid, NEW o1 \in Out, NEW p \in Seq(Msg), NEW k \in Chunk, NEW o,
         NEW size \in Nat \ {0},
         Ended(FALSE, x, o1, p), o1.left = 0, o \in Out, o.left = k.len, o.len = k.len,
         o.ext = (k.stamp >= ExtTs), o.ever = (o1.ever \/ k.stamp >= ExtTs), o.delta = k.stamp,
         o.ts = k.mts, o.kind = k.kind, o.id = k.id,
         k.ext = o.ext, k.from = 0, k.n = Less(size, k.len), k.kind # "other",
         k.mts = IF k.fmt = 0 THEN k.stamp ELSE o1.ts + k.stamp,
         k.fmt \in {2, 3} => k.len = o1.len /\ k.kind = o1.kind,
         k.fmt = 3 => k.stamp = o1.delta,
         ~(k.fmt # 0 /\ o.ext /\ o.left > size),
         k.fmt = 3 => o1.last \in {1, 2} /\ (o.ever => o.ext)
  PROVE  /\ x.remain = 0 /\ x.q = Len(p) /\ Left(x, k) = k.len /\ Begins(x, k)
         /\ Ended(FALSE, Closed(x, k), [o EXCEPT !.left = o.left - k.n, !.last = k.fmt],
                  Append(p, Message(k.id, k.kind, k.mts, k.len)))
<1>1. /\ k.len \in 1 .. MaxLen /\ k.stamp \in Nat /\ k.fmt \in 0 .. 3 /\ k.id \in Nat
      /\ k.kind \in Kinds /\ k.mts \in Nat /\ k.ext \in BOOLEAN
  BY DEF Chunk, Lens
<1>2. /\ x.fmt = o1.last /\ x.flag = o1.ever /\ x.ts = o1.ts /\ x.kind = o1.kind
      /\ x.len = o1.len /\ x.remain = 0 /\ (o1.delta >= ExtTs => o1.ever)
      /\ (x.fmt \in {1, 2} => x.delta = o1.delta) /\ x.q = Len(p)
  BY DEF Ended
<1>3. x.flag \in BOOLEAN /\ x.q \in Nat /\ o1.ever \in BOOLEAN
  BY DEF Mid, Out
<1>4. Left(x, k) = k.len
  BY <1>2 DEF Left
<1>5. k.fmt = 3 => x.flag = k.ext
  <2>1. HAVE k.fmt = 3
  <2>2. x.flag => k.ext
    BY <1>2, <2>1
  <2>3. k.ext => x.flag
    BY <1>2, <2>1
  <2> QED BY <1>1, <1>3, <2>2, <2>3
<1>6. Begins(x, k)
  <2>1. CASE k.fmt = 3
    BY <1>2, <1>5, <2>1 DEF Begins
  <2>2. CASE k.fmt # 3
    BY <1>2, <2>2 DEF Begins
  <2> QED BY <2>1, <2>2
<1> DEFINE y == Closed(x, k)
           o2 == [o EXCEPT !.left = o.left - k.n, !.last = k.fmt]
           p2 == Append(p, Message(k.id, k.kind, k.mts, k.len))
<1>7. /\ y.fmt = k.fmt /\ y.flag = Flagged(x, k) /\ y.ts = k.mts /\ y.delta = Delta(x, k)
      /\ y.kind = k.kind /\ y.len = k.len /\ y.remain = k.len - k.n
      /\ y.q = IF k.n = k.len THEN x.q + 1 ELSE x.q
  BY <1>4, ClosedFacts
<1>8. /\ o2.left = k.len - k.n /\ o2.last = k.fmt /\ o2.ever = o.ever /\ o2.ts = k.mts
      /\ o2.kind = k.kind /\ o2.len = k.len /\ o2.delta = k.stamp /\ o2.ext = o.ext
      /\ o2.id = k.id
  BY DEF Out
<1>9. k.n \in Nat \ {0} /\ k.n <= k.len /\ (k.len <= size => k.n = k.len)
  BY <1>1 DEF Less
<1>10. Message(k.id, k.kind, k.mts, k.len) \in Msg
  <2>1. k.id \in Nat /\ k.kind \in Kinds /\ k.mts \in Nat /\ k.len \in Nat
    BY <1>1
  <2> QED BY <2>1, MessageOf
<1>11. /\ Len(p2) = Len(p) + 1 /\ Len(p) \in Nat
       /\ p2[Len(p) + 1] = Message(k.id, k.kind, k.mts, k.len)
  BY <1>10, Longer
<1> HIDE DEF y, o2, p2
<1>12. y.flag = o2.ever
  <2>1. CASE k.fmt = 3
    BY <1>2, <1>3, <1>5, <1>7, <1>8, <2>1 DEF Flagged
  <2>2. CASE k.fmt # 3
    BY <1>2, <1>3, <1>7, <1>8, <2>2 DEF Flagged
  <2> QED BY <2>1, <2>2
<1>13. y.fmt \in {1, 2} => y.delta = o2.delta
  BY <1>7, <1>8 DEF Delta
<1>14. o2.delta >= ExtTs => o2.ever
  BY <1>8
<1>15. o2.left = 0 => y.q = Len(p2)
  BY <1>1, <1>2, <1>7, <1>8, <1>9, <1>11
<1>16. ASSUME o2.left > 0
       PROVE  /\ y.q + 1 = Len(p2) /\ p2[Len(p2)] = Message(o2.id, o2.kind, o2.ts, o2.len)
              /\ o2.kind # "other" /\ (o2.ext => o2.ever /\ o2.delta = o2.ts)
  <2>1. k.n # k.len /\ k.len > size
    BY <1>1, <1>8, <1>9, <1>16
  <2>2. y.q + 1 = Len(p2) /\ p2[Len(p2)] = Message(o2.id, o2.kind, o2.ts, o2.len)
    BY <1>2, <1>7, <1>8, <1>11, <2>1
  <2>3. o2.ext => o2.ever /\ o2.delta = o2.ts
    BY <1>8, <2>1
  <2> QED BY <1>8, <2>2, <2>3
<1>17. Ended(FALSE, y, o2, p2)
  BY <1>7, <1>8, <1>12, <1>13, <1>14, <1>15, <1>16 DEF Ended
<1> QED BY <1>2, <1>4, <1>6, <1>17 DEF y, o2, p2

(* A message begun by another implementation, handled or odd.              *)
LEMMA PeerStartSends ==
  ASSUME TypeInv, ~odd', NEW c \in Csids, NEW fmt \in 0 .. 3, NEW kind \in Kinds,
         NEW stamp \in Stamps, NEW len \in Lens, PeerStart(c, fmt, kind, stamp, len),
         NEW ph \in 0 .. 2, Dialogue(ph, rd, wire, pending, own, out_size, out)
  PROVE  Dialogue(ph, rd, wire', pending', own, out_size', out')
<1> DEFINE ts == IF fmt = 0 THEN stamp ELSE out[c].ts + stamp
           o == [ts |-> ts, delta |-> stamp, len |-> len, kind |-> kind, id |-> sent + 1,
                 left |-> len, last |-> fmt, ext |-> stamp >= ExtTs,
                 ever |-> out[c].ever \/ stamp >= ExtTs]
           k == PeerOf(fmt, c, o, stamp, out_size)
           m == Message(sent + 1, kind, ts, len)
           pend2 == [pending EXCEPT ![c] = Append(@, m)]
<1>1. /\ sent \in Nat /\ out_size \in Sizes /\ out \in [Csids -> Out] /\ out[c] \in Out
      /\ wire \in Seq(Part) /\ pending \in [Csids -> Seq(Msg)] /\ rd.recv_buffer_ \in Seq(Part)
  BY DEF TypeInv, ReaderOK, Reader
<1>2. stamp \in Nat /\ len \in 1 .. MaxLen /\ MaxLen \in Nat
  BY ChunkConstants DEF Lens
<1>3. ts \in Nat
  BY <1>1, <1>2 DEF Out
<1>4. /\ ~own /\ out[c].left = 0
      /\ fmt \in {2, 3} => len = out[c].len /\ kind = out[c].kind
      /\ fmt = 3 => stamp = out[c].delta
      /\ PeerChunk(fmt, c, o, stamp)
      /\ pending' = pend2 /\ ~Mishandled(fmt, c, o) /\ kind # "other"
  BY DEF PeerStart
<1> HIDE DEF ts
<1>5. o \in Out
  <2>1. out[c].ever \in BOOLEAN
    BY <1>1 DEF Out
  <2>2. (out[c].ever \/ stamp >= ExtTs) \in BOOLEAN /\ (stamp >= ExtTs) \in BOOLEAN
    BY <2>1
  <2> QED BY <1>1, <1>2, <1>3, <2>2 DEF Out
<1>6. /\ o.ts = ts /\ o.delta = stamp /\ o.len = len /\ o.kind = kind /\ o.id = sent + 1
      /\ o.left = len /\ o.ext = (stamp >= ExtTs) /\ o.ever = (out[c].ever \/ stamp >= ExtTs)
  OBVIOUS
<1>7. k = PeerOf(fmt, c, o, stamp, out_size)
  OBVIOUS
<1> HIDE DEF o, k
<1>8. o.left # 0 /\ o.left <= o.len
  BY <1>2, <1>6
<1>9. /\ k \in Chunk /\ k.c = c /\ k.fmt = fmt /\ k.ext = o.ext /\ k.stamp = stamp
      /\ k.n = Less(out_size, o.left) /\ k.from = o.len - o.left /\ k.id = o.id
      /\ k.kind = o.kind /\ k.mts = o.ts /\ k.len = o.len
  BY <1>1, <1>2, <1>5, <1>7, <1>8, PeerOfFacts
<1>10. /\ wire' = wire \o Parts(k) /\ wire' \in Seq(Part)
       /\ out' = [out EXCEPT ![c] = [o EXCEPT !.left = o.left - k.n, !.last = fmt]]
       /\ out_size' = IF k.n = o.left THEN SizeAfter(o.kind) ELSE out_size
  <2>1. /\ wire \o Parts(k) \in Seq(Part)
        /\ wire \o Basic(k.fmt, k.c)
             \o (IF k.fmt = 3 THEN <<>> ELSE HeaderPart(Less(k.stamp, ExtTs), k.len, k.kind))
             \o (IF k.ext THEN ExtPart(k.stamp) ELSE <<>>)
             \o PayloadPart(k.id, k.from, k.n)
           = wire \o Parts(k)
    BY <1>1, <1>9, WireOf
  <2>2. wire' = wire \o Parts(k)
    BY <1>4, <1>9, <2>1 DEF PeerChunk
  <2> QED BY <1>4, <1>9, <2>1, <2>2 DEF PeerChunk
<1>11. m \in Msg
  <2>1. sent + 1 \in Nat /\ len \in Nat
    BY <1>1, <1>2
  <2> QED BY <1>3, <2>1, MessageOf
<1>12. m = Message(k.id, k.kind, k.mts, k.len)
  BY <1>6, <1>9
<1> HIDE DEF m
<1>13. PICK n, ck, pos, st : /\ At(ph, rd, wire, pending, n, ck, pos, st)
                             /\ Ends(st[n + 1], own, out_size, out, pending)
  BY DEF Dialogue
<1> DEFINE s == st[n + 1]
           x == On(s, c)
           t == After(s, k)
<1>14. s \in State /\ x \in Mid
  BY <1>13, LastState
<1>15. s.size = out_size /\ Ended(FALSE, x, out[c], pending[c])
       /\ \A e \in Csids : Ended(FALSE, On(s, e), out[e], pending[e])
  BY <1>4, <1>13 DEF Ends, Ended
<1>16. At(ph, rd, wire, pend2, n, ck, pos, st)
  BY <1>1, <1>11, <1>13, AtPut
<1> DEFINE p == pending[c]
<1>17. p \in Seq(Msg) /\ pend2[c] = Append(p, m)
  BY <1>1
<1>18. /\ x.remain = 0 /\ x.q = Len(p) /\ Left(x, k) = k.len /\ Begins(x, k)
       /\ Ended(FALSE, Closed(x, k), [o EXCEPT !.left = o.left - k.n, !.last = k.fmt],
                Append(p, Message(k.id, k.kind, k.mts, k.len)))
  <2>1. k.from = 0 /\ k.n = Less(out_size, k.len) /\ k.kind # "other" /\ o.left = k.len
    BY <1>2, <1>4, <1>6, <1>9
  <2>2. k.mts = IF k.fmt = 0 THEN k.stamp ELSE out[c].ts + k.stamp
    BY <1>6, <1>9 DEF ts
  <2>3. ~(k.fmt # 0 /\ o.ext /\ o.left > out_size)
        /\ (k.fmt = 3 => out[c].last \in {1, 2} /\ (o.ever => o.ext))
    BY <1>4, <1>9 DEF Mishandled
  <2>4. /\ k.fmt \in {2, 3} => k.len = out[c].len /\ k.kind = out[c].kind
        /\ k.fmt = 3 => k.stamp = out[c].delta
    BY <1>4, <1>6, <1>9
  <2>5. out_size \in Nat \ {0}
    BY <1>1, ChunkConstants DEF Sizes
  <2>6. /\ o.ext = (k.stamp >= ExtTs) /\ o.ever = (out[c].ever \/ k.stamp >= ExtTs)
        /\ o.delta = k.stamp /\ o.ts = k.mts /\ o.kind = k.kind /\ o.id = k.id
        /\ o.len = k.len /\ k.ext = o.ext
    BY <1>6, <1>9
  <2> HIDE DEF x, p
  <2>7. x \in Mid /\ p \in Seq(Msg) /\ out[c] \in Out /\ Ended(FALSE, x, out[c], p)
        /\ out[c].left = 0
    BY <1>1, <1>4, <1>14, <1>15, <1>17 DEF p
  <2> QED BY <1>5, <1>9, <2>1, <2>2, <2>3, <2>4, <2>5, <2>6, <2>7, PeerBegins
<1> HIDE DEF pend2, p, x, s, t
<1>19. Leads(s, k, After(s, k), pend2)
  <2>1. x.q < Len(pend2[c]) /\ pend2[c][x.q + 1] = m
    BY <1>11, <1>17, <1>18, Longer
  <2>2. k.n = Less(s.size, Left(x, k)) /\ Left(x, k) <= k.len /\ k.from = k.len - Left(x, k)
    BY <1>2, <1>6, <1>9, <1>15, <1>18
  <2> QED BY <1>4, <1>6, <1>9, <1>12, <1>18, <2>1, <2>2 DEF Leads, After, x
<1>20. Ends(After(s, k), FALSE, out_size', out', pend2)
  <2>1. /\ After(s, k).size = IF k.n = Left(x, k) /\ k.kind = "size" THEN NewSize ELSE s.size
        /\ On(After(s, k), c) = Closed(x, k)
        /\ \A e \in Csids \ {c} : On(After(s, k), e) = On(s, e)
    BY <1>9, <1>14, AfterFacts DEF x
  <2>2. After(s, k).size = out_size'
    BY <1>6, <1>9, <1>10, <1>15, <1>18, <2>1 DEF SizeAfter
  <2>3. ASSUME NEW e \in Csids PROVE Ended(FALSE, On(After(s, k), e), out'[e], pend2[e])
    <3>1. CASE e = c
      <4>1. out'[c] = [o EXCEPT !.left = o.left - k.n, !.last = k.fmt]
        BY <1>1, <1>9, <1>10
      <4>2. pend2[c] = Append(p, Message(k.id, k.kind, k.mts, k.len))
        BY <1>12, <1>17
      <4> QED BY <1>18, <2>1, <3>1, <4>1, <4>2
    <3>2. CASE e # c
      <4>1. out'[e] = out[e] /\ pend2[e] = pending[e]
        BY <1>1, <1>10, <3>2 DEF pend2
      <4> QED BY <1>15, <2>1, <3>2, <4>1
    <3> QED BY <3>1, <3>2
  <2> QED BY <2>2, <2>3 DEF Ends
<1>21. pend2 \in [Csids -> Seq(Msg)]
  BY <1>1, <1>11, Appended DEF pend2
<1>22. Dialogue(ph, rd, wire \o Parts(k), pend2, FALSE, out_size', out')
  BY <1>1, <1>16, <1>19, <1>20, <1>21, Sends DEF s
<1>23. own = FALSE
  BY <1>4 DEF TypeInv
<1> QED BY <1>4, <1>10, <1>22, <1>23

(* A further chunk of it fits, and leaves both ends with the same again.   *)
LEMMA PeerGoes ==
  ASSUME NEW x \in Mid, NEW o \in Out, NEW p \in Seq(Msg), NEW k \in Chunk, NEW size \in Nat \ {0},
         Ended(FALSE, x, o, p), o.left # 0, o.left <= o.len,
         k.fmt = 3, k.ext = o.ext, k.stamp = o.delta, k.n = Less(size, o.left),
         k.from = o.len - o.left, k.id = o.id, k.kind = o.kind, k.mts = o.ts, k.len = o.len
  PROVE  /\ x.remain # 0 /\ x.q < Len(p) /\ p[x.q + 1] = Message(k.id, k.kind, k.mts, k.len)
         /\ k.kind # "other" /\ Left(x, k) = o.left /\ Goes(x, k)
         /\ Ended(FALSE, Closed(x, k), [o EXCEPT !.left = o.left - k.n, !.last = 3], p)
<1>1. /\ o.left \in Nat \ {0} /\ o.ext \in BOOLEAN /\ o.len \in Nat
  BY DEF Out
<1>2. /\ x.fmt = o.last /\ x.flag = o.ever /\ x.ts = o.ts /\ x.kind = o.kind
      /\ x.len = o.len /\ x.remain = o.left /\ (o.delta >= ExtTs => o.ever)
      /\ x.q + 1 = Len(p) /\ p[Len(p)] = Message(o.id, o.kind, o.ts, o.len)
      /\ o.kind # "other" /\ (o.ext => o.ever /\ o.delta = o.ts)
  BY <1>1 DEF Ended
<1>3. x.q \in Nat /\ Len(p) \in Nat /\ x.flag \in BOOLEAN
  BY DEF Mid
<1>4. Left(x, k) = o.left
  BY <1>1, <1>2 DEF Left
<1>5. Goes(x, k)
  BY <1>2 DEF Goes
<1>6. x.q < Len(p) /\ p[x.q + 1] = Message(k.id, k.kind, k.mts, k.len)
  BY <1>2, <1>3
<1> DEFINE y == Closed(x, k)
           o2 == [o EXCEPT !.left = o.left - k.n, !.last = 3]
<1>7. /\ y.fmt = 3 /\ y.flag = Flagged(x, k) /\ y.ts = o.ts
      /\ y.kind = o.kind /\ y.len = o.len /\ y.remain = o.left - k.n
      /\ y.q = IF k.n = o.left THEN x.q + 1 ELSE x.q
  BY <1>4, ClosedFacts
<1>8. /\ o2.left = o.left - k.n /\ o2.last = 3 /\ o2.ever = o.ever /\ o2.ts = o.ts
      /\ o2.kind = o.kind /\ o2.len = o.len /\ o2.delta = o.delta /\ o2.ext = o.ext
      /\ o2.id = o.id
  BY DEF Out
<1>9. k.n \in Nat /\ k.n <= o.left
  BY <1>1 DEF Less
<1> HIDE DEF y, o2
<1>10. y.flag = o2.ever
  BY <1>2, <1>3, <1>7, <1>8 DEF Flagged
<1>11. o2.left = 0 => y.q = Len(p)
  BY <1>1, <1>2, <1>7, <1>8, <1>9
<1>12. o2.left > 0 => y.q + 1 = Len(p)
  BY <1>1, <1>2, <1>7, <1>8, <1>9
<1>13. Ended(FALSE, y, o2, p)
  BY <1>2, <1>7, <1>8, <1>10, <1>11, <1>12 DEF Ended
<1> QED BY <1>1, <1>2, <1>4, <1>5, <1>6, <1>13 DEF y, o2

LEMMA PeerContinueSends ==
  ASSUME TypeInv, NEW c \in Csids, PeerContinue(c),
         NEW ph \in 0 .. 2, Dialogue(ph, rd, wire, pending, own, out_size, out)
  PROVE  Dialogue(ph, rd, wire', pending, own, out_size', out')
<1> DEFINE o == out[c]
           k == PeerOf(3, c, o, o.delta, out_size)
<1>1. /\ out_size \in Sizes /\ out \in [Csids -> Out] /\ o \in Out /\ o.left <= o.len
      /\ wire \in Seq(Part) /\ pending \in [Csids -> Seq(Msg)] /\ rd.recv_buffer_ \in Seq(Part)
  BY DEF TypeInv, ReaderOK, Reader
<1>2. o.delta \in Nat /\ o.len \in Nat /\ o.left \in Nat /\ out_size \in Nat \ {0}
  BY <1>1, ChunkConstants DEF Out, Sizes
<1>3. PeerChunk(3, c, o, o.delta) /\ o.left # 0
  BY <1>2 DEF PeerContinue
<1>4. k = PeerOf(3, c, o, o.delta, out_size)
  OBVIOUS
<1> HIDE DEF k
<1>5. /\ k \in Chunk /\ k.c = c /\ k.fmt = 3 /\ k.ext = o.ext /\ k.stamp = o.delta
      /\ k.n = Less(out_size, o.left) /\ k.from = o.len - o.left /\ k.id = o.id
      /\ k.kind = o.kind /\ k.mts = o.ts /\ k.len = o.len
  <2>1. 3 \in 0 .. 3
    OBVIOUS
  <2> HIDE DEF o
  <2> QED BY SMTT(30), <1>1, <1>2, <1>3, <1>4, <2>1, PeerOfFacts
<1>6. /\ wire' = wire \o Parts(k)
      /\ out' = [out EXCEPT ![c] = [o EXCEPT !.left = o.left - k.n, !.last = 3]]
      /\ out_size' = IF k.n = o.left THEN SizeAfter(o.kind) ELSE out_size
  <2>1. /\ wire \o Parts(k) \in Seq(Part)
        /\ wire \o Basic(k.fmt, k.c)
             \o (IF k.fmt = 3 THEN <<>> ELSE HeaderPart(Less(k.stamp, ExtTs), k.len, k.kind))
             \o (IF k.ext THEN ExtPart(k.stamp) ELSE <<>>)
             \o PayloadPart(k.id, k.from, k.n)
           = wire \o Parts(k)
    BY <1>1, <1>5, WireOf
  <2>2. wire' = wire \o Parts(k)
    BY <1>3, <1>5, <2>1 DEF PeerChunk
  <2> QED BY <1>3, <1>5, <2>2 DEF PeerChunk
<1>7. PICK n, ck, pos, st : /\ At(ph, rd, wire, pending, n, ck, pos, st)
                             /\ Ends(st[n + 1], own, out_size, out, pending)
  BY DEF Dialogue
<1> DEFINE s == st[n + 1]
           x == On(s, c)
           p == pending[c]
<1>8. s \in State /\ x \in Mid /\ p \in Seq(Msg)
  BY <1>1, <1>7, LastState
<1>9. ~own
  BY <1>3, <1>7 DEF Ends, Ended
<1>10. s.size = out_size /\ Ended(FALSE, x, o, p)
       /\ \A e \in Csids : Ended(FALSE, On(s, e), out[e], pending[e])
  BY <1>7, <1>9 DEF Ends, Ended
<1> HIDE DEF o, p, x
<1>11. /\ x.remain # 0 /\ x.q < Len(p) /\ p[x.q + 1] = Message(k.id, k.kind, k.mts, k.len)
       /\ k.kind # "other" /\ Left(x, k) = o.left /\ Goes(x, k)
       /\ Ended(FALSE, Closed(x, k), [o EXCEPT !.left = o.left - k.n, !.last = 3], p)
  BY <1>1, <1>2, <1>3, <1>5, <1>8, <1>10, PeerGoes
<1> HIDE DEF s
<1>12. Leads(s, k, After(s, k), pending)
  <2>1. k.n = Less(s.size, Left(x, k)) /\ Left(x, k) <= k.len /\ k.from = k.len - Left(x, k)
    BY <1>1, <1>5, <1>10, <1>11
  <2> QED BY <1>5, <1>11, <2>1 DEF Leads, After, x, p
<1>13. Ends(After(s, k), FALSE, out_size', out', pending)
  <2>1. /\ After(s, k).size = IF k.n = Left(x, k) /\ k.kind = "size" THEN NewSize ELSE s.size
        /\ On(After(s, k), c) = Closed(x, k)
        /\ \A e \in Csids \ {c} : On(After(s, k), e) = On(s, e)
    BY <1>5, <1>8, AfterFacts DEF x
  <2>2. After(s, k).size = out_size'
    BY <1>5, <1>6, <1>10, <1>11, <2>1 DEF SizeAfter
  <2>3. ASSUME NEW e \in Csids PROVE Ended(FALSE, On(After(s, k), e), out'[e], pending[e])
    <3>1. CASE e = c
      <4>1. out'[c] = [o EXCEPT !.left = o.left - k.n, !.last = 3]
        BY <1>1, <1>6
      <4> QED BY <1>11, <2>1, <3>1, <4>1 DEF p
    <3>2. CASE e # c
      <4>1. out'[e] = out[e]
        BY <1>1, <1>6, <3>2
      <4> QED BY <1>10, <2>1, <3>2, <4>1
    <3> QED BY <3>1, <3>2
  <2> QED BY <2>2, <2>3 DEF Ends
<1>14. Dialogue(ph, rd, wire \o Parts(k), pending, FALSE, out_size', out')
  BY <1>1, <1>7, <1>12, <1>13, Sends DEF s
<1>15. own = FALSE
  BY <1>9 DEF TypeInv
<1> QED BY <1>6, <1>14, <1>15

-----------------------------------------------------------------------------
(* This code sends.                                                        *)

(* Products, which the SMT backend does not do by itself.                  *)
LEMMA Times ==
  ASSUME NEW a \in Nat, NEW s \in Nat
  PROVE  (a + 1) * s = a * s + s /\ a * s \in Nat /\ a * s = s * a
  OBVIOUS

LEMMA TimesGrow ==
  ASSUME NEW a \in Nat, NEW b \in Nat, NEW s \in Nat, a <= b
  PROVE  a * s <= b * s
  OBVIOUS

LEMMA Divides ==
  ASSUME NEW a \in Nat, NEW b \in Nat \ {0}
  PROVE  a \div b \in Nat /\ b * (a \div b) <= a /\ a < b * (a \div b) + b
  OBVIOUS

(* The Count of WriteDataByChunkStream.                                    *)
Count(len, size) == (len + size - 1) \div size

(* Count chunks of at most size bytes are a message, and none fewer.       *)
LEMMA Cuts ==
  ASSUME NEW len \in Nat \ {0}, NEW size \in Nat \ {0}
  PROVE  /\ Count(len, size) \in Nat \ {0}
         /\ \A i \in 0 .. Count(len, size) - 1 :
              /\ i * size \in Nat /\ i * size < len /\ (i + 1) * size = i * size + size
              /\ i + 1 = Count(len, size) => len - i * size <= size
              /\ i + 1 # Count(len, size) => len - i * size > size
<1> DEFINE k == Count(len, size)
<1>1. len + size - 1 \in Nat
  OBVIOUS
<1>2. k \in Nat /\ size * k <= len + size - 1 /\ len + size - 1 < size * k + size
  BY <1>1, Divides DEF Count
<1> HIDE DEF k
<1>3. k * size = size * k
  BY <1>2, Times
<1>4. k # 0
  <2>1. k = 0 => k * size = 0
    OBVIOUS
  <2> QED BY <1>2, <1>3, <2>1
<1>5. ASSUME NEW i \in 0 .. k - 1
      PROVE  /\ i * size \in Nat /\ i * size < len /\ (i + 1) * size = i * size + size
             /\ i + 1 = k => len - i * size <= size
             /\ i + 1 # k => len - i * size > size
  <2>1. i \in Nat /\ i + 1 \in Nat /\ i + 1 <= k
    BY <1>2
  <2>2. (i + 1) * size = i * size + size /\ i * size \in Nat
    BY <2>1, Times
  <2>3. (i + 1) * size <= k * size
    BY <1>2, <2>1, TimesGrow
  <2>4. i * size < len
    BY <1>2, <1>3, <2>2, <2>3
  <2>5. i + 1 = k => len - i * size <= size
    BY <1>2, <1>3, <2>2
  <2>6. ASSUME i + 1 # k PROVE len - i * size > size
    <3>1. i + 2 \in Nat /\ i + 2 <= k /\ (i + 1) + 1 = i + 2
      BY <1>2, <2>1, <2>6
    <3>2. (i + 2) * size <= k * size
      BY <1>2, <3>1, TimesGrow
    <3>3. ((i + 1) + 1) * size = (i + 1) * size + size
      BY <2>1, Times
    <3> QED BY <1>2, <1>3, <2>2, <3>1, <3>2, <3>3
  <2> QED BY <2>2, <2>4, <2>5, <2>6
<1> QED BY <1>2, <1>4, <1>5 DEF k

LEMMA Nothing ==
  ASSUME NEW q \in Seq(Part)
  PROVE  q \o <<>> = q /\ <<>> \o q = q /\ <<>> \in Seq(Part)
<1>1. q \o <<>> = q
  OBVIOUS
<1>2. <<>> \o q = q
  OBVIOUS
<1> QED BY <1>1, <1>2

(* The chunks so far, from none to all.                                    *)
LEMMA SoFar ==
  ASSUME NEW s, NEW n \in Nat \ {0}, Len(s) = n, \A i \in 1 .. n : s[i] \in Seq(Part)
  PROVE  \E g : /\ g[0] = <<>> /\ g[n] = FlattenSeq(s)
                /\ \A i \in 0 .. n : g[i] \in Seq(Part)
                /\ \A i \in 0 .. n - 1 : g[i + 1] = g[i] \o s[i + 1]
<1>1. PICK m \in Nat : n = m + 1
  <2>1. n - 1 \in Nat /\ n = (n - 1) + 1
    OBVIOUS
  <2> QED BY <2>1
<1>2. PICK f : Joins(f, s, m)
  <2>1. Len(s) = m + 1 /\ \A i \in 1 .. m + 1 : s[i] \in Seq(Part)
    BY <1>1
  <2> QED BY <2>1, Flattened
<1>7. /\ \A i \in 1 .. n : f[i] \in Seq(Part)
      /\ FlattenSeq(s) = f[n] /\ f[1] = s[1]
      /\ \A i \in 1 .. n - 1 : f[i + 1] = f[i] \o s[i + 1]
  <2>1. n - 1 = m
    BY <1>1
  <2> QED BY <1>1, <1>2, <2>1 DEF Joins
<1> DEFINE g == [i \in Nat |-> IF i = 0 THEN <<>> ELSE f[i]]
<1>3. g[0] = <<>> /\ \A i \in 1 .. n : g[i] = f[i]
  OBVIOUS
<1> HIDE DEF g
<1>4. g[n] = FlattenSeq(s)
  BY <1>3, <1>7
<1>5. \A i \in 0 .. n : g[i] \in Seq(Part)
  <2>1. <<>> \in Seq(Part)
    OBVIOUS
  <2>2. ASSUME NEW i \in 0 .. n, i # 0 PROVE g[i] \in Seq(Part)
    <3>1. i \in 1 .. n
      BY <2>2
    <3> QED BY <1>3, <1>7, <3>1
  <2> QED BY <1>3, <2>1, <2>2
<1>6. ASSUME NEW i \in 0 .. n - 1 PROVE g[i + 1] = g[i] \o s[i + 1]
  <2>1. CASE i = 0
    <3>1. s[1] \in Seq(Part)
      OBVIOUS
    <3>2. <<>> \o s[1] = s[1]
      BY <3>1, Nothing
    <3>3. 0 + 1 = 1 /\ 1 \in 1 .. n
      OBVIOUS
    <3> QED BY <1>3, <1>7, <2>1, <3>2, <3>3
  <2>2. CASE i # 0
    <3>1. i \in 1 .. n - 1 /\ i \in 1 .. n /\ i + 1 \in 1 .. n
      BY <2>2
    <3> QED BY <1>3, <1>7, <3>1
  <2> QED BY <2>1, <2>2
<1> QED BY <1>3, <1>4, <1>5, <1>6

(* The timestamp in three bytes.                                           *)
Cut(ts) == ts % (ExtTs + 1)

Header == [id : Nat, kind : Kinds, ts : Nat, len : Lens]

OwnOf(fmt, off, c, m, size) ==
  [c |-> c, fmt |-> fmt, ext |-> FALSE, stamp |-> Cut(m.ts), n |-> Less(size, m.len - off),
   from |-> off, id |-> m.id, kind |-> m.kind, mts |-> m.ts, len |-> m.len]

(* The chunk of GenData, field by field; its timestamp is cut to three     *)
(* bytes and it never has an extended one.                                 *)
LEMMA OwnOfFacts ==
  ASSUME NEW fmt \in {0, 3}, NEW off \in Nat, NEW c \in Csids, NEW m \in Header,
         NEW size \in Sizes, off < m.len,
         NEW k, k = OwnOf(fmt, off, c, m, size)
  PROVE  /\ k \in Chunk /\ k.c = c /\ k.fmt = fmt /\ k.n = Less(size, m.len - off)
         /\ k.from = off /\ k.id = m.id /\ k.kind = m.kind /\ k.mts = m.ts /\ k.len = m.len
<1>1. m.len \in Nat /\ off \in Nat /\ off < m.len /\ m.ts \in Nat /\ m.id \in Nat /\ m.len \in Lens
      /\ m.kind \in Kinds
  BY ChunkConstants DEF Lens, Header
<1>2. ExtTs \in Nat /\ Cut(m.ts) \in 0 .. ExtTs /\ (m.ts < ExtTs => Cut(m.ts) = m.ts)
  BY <1>1, ChunkConstants DEF Cut
<1>3. Less(size, m.len - off) \in Nat \ {0}
  BY <1>1, ChunkConstants DEF Less, Sizes
<1>4. k = [c |-> c, fmt |-> fmt, ext |-> FALSE, stamp |-> Cut(m.ts),
           n |-> Less(size, m.len - off), from |-> off, id |-> m.id,
           kind |-> m.kind, mts |-> m.ts, len |-> m.len]
  BY DEF OwnOf
<1>5. fmt \in 0 .. 3 /\ Cut(m.ts) \in Nat
  BY <1>2
<1>6. k \in Chunk
  BY <1>1, <1>3, <1>4, <1>5 DEF Chunk
<1> QED BY <1>4, <1>6

LEMMA OwnOfExt ==
  ASSUME NEW fmt, NEW off, NEW c, NEW m, NEW size, NEW k, k = OwnOf(fmt, off, c, m, size)
  PROVE  k.ext = FALSE
  BY DEF OwnOf

LEMMA OwnOfStamp ==
  ASSUME NEW fmt, NEW off, NEW c, NEW m \in Header, NEW size, NEW k, k = OwnOf(fmt, off, c, m, size)
  PROVE  Less(k.stamp, ExtTs) = Cut(m.ts) /\ k.stamp \in Nat /\ (m.ts < ExtTs => k.stamp = m.ts)
<1>1. m.ts \in Nat
  BY DEF Header
<1>2. ExtTs \in Nat /\ Cut(m.ts) \in 0 .. ExtTs /\ (m.ts < ExtTs => Cut(m.ts) = m.ts)
  BY <1>1, ChunkConstants DEF Cut
<1>3. k.stamp = Cut(m.ts)
  BY DEF OwnOf
<1> QED BY <1>2, <1>3 DEF Less

LEMMA OwnParts ==
  ASSUME NEW fmt \in {0, 3}, NEW off \in Nat, NEW c \in Csids, NEW m \in Header,
         NEW size \in Sizes, off < m.len,
         NEW k, k = OwnOf(fmt, off, c, m, size)
  PROVE  GenData(fmt, c, m, off, Less(size, m.len - off)) = Parts(k) /\ Parts(k) \in Seq(Part)
<1>1. /\ k \in Chunk /\ k.c = c /\ k.fmt = fmt /\ k.ext = FALSE
      /\ k.n = Less(size, m.len - off)
      /\ k.from = off /\ k.id = m.id /\ k.kind = m.kind /\ k.len = m.len
      /\ Less(k.stamp, ExtTs) = Cut(m.ts)
  <2>1. /\ k \in Chunk /\ k.c = c /\ k.fmt = fmt /\ k.n = Less(size, m.len - off)
        /\ k.from = off /\ k.id = m.id /\ k.kind = m.kind /\ k.mts = m.ts /\ k.len = m.len
    BY OwnOfFacts
  <2>2. k.ext = FALSE
    BY OwnOfExt
  <2>3. Less(k.stamp, ExtTs) = Cut(m.ts)
    BY OwnOfStamp
  <2> QED BY <2>1, <2>2, <2>3
<1> DEFINE b == Basic(k.fmt, k.c)
           h == IF k.fmt = 3 THEN <<>> ELSE HeaderPart(Less(k.stamp, ExtTs), k.len, k.kind)
           p == PayloadPart(k.id, k.from, k.n)
<1>2. Parts(k) = ((b \o h) \o <<>>) \o p /\ Parts(k) \in Seq(Part)
  BY <1>1, PartsOf DEF Parts
<1>3. b \in Seq(Part)
  BY <1>1, BasicOf DEF Chunk
<1>4. [k |-> "head", ts |-> Less(k.stamp, ExtTs), len |-> k.len, kind |-> k.kind] \in Part
  BY <1>1, LessFacts, ChunkConstants DEF Part, Chunk
<1>5. h \in Seq(Part)
  BY <1>4 DEF HeaderPart
<1>6. h = IF fmt = 0
          THEN HeaderPart(m.ts % (ExtTs + 1), m.len, m.kind) ELSE <<>>
  BY <1>1 DEF Cut
<1>7. GenData(fmt, c, m, off, Less(size, m.len - off))
        = (b \o h) \o p
  BY <1>1, <1>6 DEF GenData
<1> HIDE DEF b, h, p
<1>8. b \o h \in Seq(Part)
  BY <1>3, <1>5, Concat
<1>9. (b \o h) \o <<>> = b \o h
  BY <1>8, Nothing
<1> QED BY <1>2, <1>7, <1>9

(* The chunk that WriteDataByChunkStream writes when i are written.        *)
OwnNth(i, c, m, size) == OwnOf(IF i = 0 THEN 0 ELSE 3, i * size, c, m, size)

(* What is remembered when i of count chunks of a message are written.     *)
Written(s, i, c, m, size, count, q) ==
  /\ s.size = IF i = count /\ m.kind = "size" THEN NewSize ELSE size
  /\ On(s, c).remain = IF i = 0 \/ i = count THEN 0 ELSE m.len - i * size
  /\ On(s, c).q = IF i = count THEN q + 1 ELSE q
  /\ i # 0 => On(s, c).ts = m.ts /\ On(s, c).kind = m.kind /\ On(s, c).len = m.len

Steps(s, k, i, c, m, size, count, q, pend) ==
  /\ Leads(s, k, After(s, k), pend)
  /\ Written(After(s, k), i + 1, c, m, size, count, q)
  /\ \A e \in Csids \ {c} : On(After(s, k), e) = On(s, e)

(* One chunk of this code fits what both ends remember.                    *)
LEMMA OwnStep ==
  ASSUME NEW c \in Csids, NEW m \in Header, m.kind # "other", m.ts < ExtTs,
         NEW size \in Sizes, NEW count, count = Count(m.len, size), NEW i \in 0 .. count - 1,
         NEW s \in State, NEW pend \in [Csids -> Seq(Msg)], NEW q \in Nat,
         q < Len(pend[c]), pend[c][q + 1] = Message(m.id, m.kind, m.ts, m.len),
         Written(s, i, c, m, size, count, q),
         NEW k, k = OwnNth(i, c, m, size)
  PROVE  Steps(s, k, i, c, m, size, count, q, pend)
<1> DEFINE x == On(s, c)
           off == i * size
<1>1. m.len \in Nat \ {0} /\ size \in Nat \ {0}
  BY ChunkConstants DEF Lens, Header, Sizes
<1>2. /\ count \in Nat \ {0} /\ off \in Nat /\ off < m.len /\ (i + 1) * size = off + size
      /\ i + 1 = count => m.len - off <= size
      /\ i + 1 # count => m.len - off > size
  BY <1>1, Cuts
<1>3. i \in Nat /\ i + 1 \in Nat \ {0} /\ (i + 1) - 1 = i /\ i # count
  BY <1>2
<1>4. /\ k \in Chunk /\ k.c = c /\ k.fmt = (IF i = 0 THEN 0 ELSE 3) /\ k.ext = FALSE
      /\ k.n = Less(size, m.len - off) /\ (m.ts < ExtTs => k.stamp = m.ts)
      /\ k.from = off /\ k.id = m.id /\ k.kind = m.kind /\ k.mts = m.ts /\ k.len = m.len
  <2> DEFINE fmt == IF i = 0 THEN 0 ELSE 3
  <2>1. fmt \in {0, 3} /\ k = OwnOf(fmt, off, c, m, size)
    BY <1>3 DEF OwnNth
  <2> HIDE DEF off, fmt
  <2>2. /\ k \in Chunk /\ k.c = c /\ k.fmt = fmt /\ k.n = Less(size, m.len - off)
        /\ k.from = off /\ k.id = m.id /\ k.kind = m.kind /\ k.mts = m.ts /\ k.len = m.len
    BY <1>2, <2>1, OwnOfFacts
  <2>3. k.ext = FALSE
    BY <2>1 DEF OwnOf
  <2>4. m.ts < ExtTs => k.stamp = m.ts
    BY <2>1, OwnOfStamp
  <2> QED BY <2>2, <2>3, <2>4 DEF fmt
<1>5. /\ s.size = size /\ x.remain = (IF i = 0 THEN 0 ELSE m.len - off) /\ x.q = q
      /\ i # 0 => x.ts = m.ts /\ x.kind = m.kind /\ x.len = m.len
  BY <1>3 DEF Written
<1>6. i = 0 => off = 0
  <2>1. 0 * size = 0
    BY <1>1
  <2> QED BY <2>1
<1> HIDE DEF x, off
<1>7. Left(x, k) = m.len - off
  <2>1. CASE i = 0
    BY <1>1, <1>4, <1>5, <1>6, <2>1 DEF Left
  <2>2. CASE i # 0
    BY <1>1, <1>2, <1>4, <1>5, <2>2 DEF Left
  <2> QED BY <2>1, <2>2
<1>8. IF x.remain = 0 THEN Begins(x, k) ELSE Goes(x, k)
  <2>1. CASE i = 0
    <3>1. k.fmt = 0 /\ x.remain = 0
      BY <1>4, <1>5, <2>1
    <3>2. ~(k.stamp >= ExtTs)
      <4>1. k.stamp = m.ts /\ m.ts \in Nat /\ ExtTs \in Nat
        BY <1>4, ChunkConstants DEF Header
      <4> QED BY <4>1
    <3>3. Begins(x, k)
      BY <1>4, <3>1, <3>2 DEF Begins
    <3> QED BY <3>1, <3>3
  <2>2. CASE i # 0
    <3>1. k.fmt = 3 /\ x.remain # 0
      BY <1>1, <1>2, <1>3, <1>4, <1>5, <2>2
    <3>2. Goes(x, k)
      BY <1>4, <1>5, <2>2, <3>1 DEF Goes
    <3> QED BY <3>1, <3>2
  <2> QED BY <2>1, <2>2
<1>9. Leads(s, k, After(s, k), pend)
  <2>1. k.n = Less(s.size, Left(x, k)) /\ Left(x, k) <= k.len /\ k.from = k.len - Left(x, k)
    <3>1. k.n = Less(s.size, Left(x, k))
      BY <1>4, <1>5, <1>7
    <3>2. Left(x, k) <= k.len /\ k.from = k.len - Left(x, k)
      <4>1. m.len - off <= m.len /\ off = m.len - (m.len - off)
        BY <1>1, <1>2
      <4>2. k.from = off /\ k.len = m.len
        BY <1>4
      <4> QED BY <1>7, <4>1, <4>2
    <3> QED BY <3>1, <3>2
  <2>2. x.q < Len(pend[k.c]) /\ pend[k.c][x.q + 1] = Message(k.id, k.kind, k.mts, k.len)
    BY <1>4, <1>5
  <2> QED BY <1>4, <1>8, <2>1, <2>2 DEF Leads, After, x
<1>10. /\ After(s, k).size = IF k.n = Left(x, k) /\ k.kind = "size" THEN NewSize ELSE s.size
       /\ On(After(s, k), c) = Closed(x, k)
       /\ \A e \in Csids \ {c} : On(After(s, k), e) = On(s, e)
  BY <1>4, AfterFacts DEF x
<1>11. k.n = Left(x, k) <=> i + 1 = count
  BY SMTT(30), <1>1, <1>2, <1>4, <1>7 DEF Less
<1>12. /\ Closed(x, k).ts = m.ts /\ Closed(x, k).kind = m.kind /\ Closed(x, k).len = m.len
       /\ Closed(x, k).remain = (m.len - off) - k.n
       /\ Closed(x, k).q = IF k.n = Left(x, k) THEN q + 1 ELSE q
  BY <1>4, <1>5, <1>7, ClosedFacts
<1>13. (m.len - off) - k.n = IF i + 1 = count THEN 0 ELSE m.len - (i + 1) * size
  <2>1. CASE i + 1 = count
    BY <1>1, <1>2, <1>7, <1>11, <2>1
  <2>2. CASE i + 1 # count
    <3>1. k.n = size
      BY <1>1, <1>2, <1>4, <2>2 DEF Less
    <3>2. (m.len - off) - size = m.len - (off + size)
      BY <1>1, <1>2
    <3> QED BY <1>2, <2>2, <3>1, <3>2
  <2> QED BY <2>1, <2>2
<1>14. Written(After(s, k), i + 1, c, m, size, count, q)
  <2>1. After(s, k).size = IF i + 1 = count /\ m.kind = "size" THEN NewSize ELSE size
    BY <1>4, <1>5, <1>10, <1>11
  <2>2. On(After(s, k), c).remain = IF i + 1 = 0 \/ i + 1 = count THEN 0 ELSE m.len - (i + 1) * size
    BY <1>3, <1>10, <1>12, <1>13
  <2>3. On(After(s, k), c).q = IF i + 1 = count THEN q + 1 ELSE q
    BY <1>10, <1>11, <1>12
  <2>4. /\ On(After(s, k), c).ts = m.ts
        /\ On(After(s, k), c).kind = m.kind
        /\ On(After(s, k), c).len = m.len
    BY <1>10, <1>12
  <2> QED BY <2>1, <2>2, <2>3, <2>4 DEF Written
<1> QED BY <1>9, <1>10, <1>14 DEF Steps

(* What is written when i chunks are.                                      *)
Grows(g, count, c, m, size) ==
  /\ g[0] = <<>>
  /\ \A i \in 0 .. count : g[i] \in Seq(Part)
  /\ \A i \in 0 .. count - 1 : g[i + 1] = g[i] \o Parts(OwnNth(i, c, m, size))

LEMMA OwnChunksAre ==
  ASSUME out_size \in Sizes, NEW c \in Csids, NEW m \in Header,
         NEW count, count = Count(m.len, out_size)
  PROVE  \E g : Grows(g, count, c, m, out_size) /\ g[count] = OwnChunks(c, m)
<1> DEFINE s == [i \in 1 .. count |->
                   GenData(IF i = 1 THEN 0 ELSE 3, c, m, (i - 1) * out_size,
                           Less(out_size, m.len - (i - 1) * out_size))]
           K(i) == OwnNth(i, c, m, out_size)
<1>1. m.len \in Nat \ {0} /\ out_size \in Nat \ {0}
  BY ChunkConstants DEF Header, Lens, Sizes
<1>2. count \in Nat \ {0} /\ \A i \in 0 .. count - 1 : i * out_size \in Nat /\ i * out_size < m.len
  BY <1>1, Cuts
<1>3. OwnChunks(c, m) = FlattenSeq(s)
  BY DEF OwnChunks, Count
<1>4. ASSUME NEW i \in 0 .. count - 1 PROVE s[i + 1] = Parts(K(i)) /\ Parts(K(i)) \in Seq(Part)
  <2>1. i \in Nat /\ i + 1 \in 1 .. count /\ (i + 1) - 1 = i /\ (i + 1 = 1 <=> i = 0)
    BY <1>2
  <2> DEFINE fmt == IF i = 0 THEN 0 ELSE 3
             off == i * out_size
  <2>2. s[i + 1] = GenData(fmt, c, m, off, Less(out_size, m.len - off))
    BY <2>1
  <2>3. fmt \in {0, 3} /\ off \in Nat /\ off < m.len /\ K(i) = OwnOf(fmt, off, c, m, out_size)
    BY <1>2 DEF OwnNth
  <2> HIDE DEF fmt, off, K, s
  <2>4. /\ GenData(fmt, c, m, off, Less(out_size, m.len - off)) = Parts(K(i))
        /\ Parts(K(i)) \in Seq(Part)
    BY <2>3, OwnParts
  <2> QED BY <2>2, <2>4
<1>5. Len(s) = count
  BY <1>2
<1> HIDE DEF s, K
<1>6. \A i \in 1 .. count : s[i] \in Seq(Part)
  <2>1. TAKE i \in 1 .. count
  <2>2. i - 1 \in 0 .. count - 1 /\ (i - 1) + 1 = i
    BY <1>2
  <2> QED BY <1>4, <2>2
<1>7. PICK g : /\ g[0] = <<>> /\ g[count] = FlattenSeq(s)
               /\ \A i \in 0 .. count : g[i] \in Seq(Part)
               /\ \A i \in 0 .. count - 1 : g[i + 1] = g[i] \o s[i + 1]
  BY <1>2, <1>5, <1>6, SoFar
<1>8. \A i \in 0 .. count - 1 : g[i + 1] = g[i] \o Parts(K(i))
  BY <1>4, <1>7
<1> QED BY <1>3, <1>7, <1>8 DEF K, Grows

Under(ph, r, w, pend, outs, i, c, m, size, count, q) ==
  \E n, ck, pos, st :
    /\ At(ph, r, w, pend, n, ck, pos, st)
    /\ Written(st[n + 1], i, c, m, size, count, q)
    /\ \A e \in Csids \ {c} : Ended(TRUE, On(st[n + 1], e), outs[e], pend[e])

(* So the dialogue goes on, chunk by chunk, to the end of the message.     *)
LEMMA UnderStep ==
  ASSUME NEW ph \in 0 .. 2, NEW r, r.recv_buffer_ \in Seq(Part), NEW w \in Seq(Part),
         NEW pend \in [Csids -> Seq(Msg)], NEW outs,
         NEW c \in Csids, NEW m \in Header, m.kind # "other", m.ts < ExtTs,
         NEW size \in Sizes, NEW count, count = Count(m.len, size), NEW i \in 0 .. count - 1,
         NEW q \in Nat,
         q < Len(pend[c]), pend[c][q + 1] = Message(m.id, m.kind, m.ts, m.len),
         Under(ph, r, w, pend, outs, i, c, m, size, count, q),
         NEW k, k = OwnNth(i, c, m, size)
  PROVE  Under(ph, r, w \o Parts(k), pend, outs, i + 1, c, m, size, count, q)
<1>1. PICK n, ck, pos, st :
        /\ At(ph, r, w, pend, n, ck, pos, st)
        /\ Written(st[n + 1], i, c, m, size, count, q)
        /\ \A e \in Csids \ {c} : Ended(TRUE, On(st[n + 1], e), outs[e], pend[e])
  BY DEF Under
<1> DEFINE s == st[n + 1]
           t == After(s, k)
<1>2. s \in State
  BY <1>1, LastState
<1>3. Written(s, i, c, m, size, count, q)
  BY <1>1
<1> HIDE DEF s
<1>9. Steps(s, k, i, c, m, size, count, q, pend)
  BY <1>2, <1>3, OwnStep
<1>4. /\ Leads(s, k, t, pend) /\ Written(t, i + 1, c, m, size, count, q)
      /\ \A e \in Csids \ {c} : On(t, e) = On(s, e)
  BY <1>9 DEF Steps
<1> HIDE DEF t
<1>5. Leads(st[n + 1], k, t, pend)
  BY <1>4 DEF s
<1>6. Grown(ph, r, w, pend, n, k, t)
  BY <1>1, <1>5, AtExtended
<1>7. PICK ck2, pos2, st2 : /\ At(ph, r, w \o Parts(k), pend, n + 1, ck2, pos2, st2)
                            /\ st2[(n + 1) + 1] = t
  BY <1>6 DEF Grown
<1>8. \A e \in Csids \ {c} : Ended(TRUE, On(t, e), outs[e], pend[e])
  BY <1>1, <1>4 DEF s
<1> QED BY <1>4, <1>7, <1>8 DEF Under

(* WriteDataByChunkStream writes a whole message.                          *)
LEMMA OwnWriteSends ==
  ASSUME TypeInv, ~odd', NEW c \in Csids, NEW kind \in Kinds, NEW ts \in Stamps,
         NEW len \in Lens, OwnWrite(c, kind, ts, len),
         NEW ph \in 0 .. 2, Dialogue(ph, rd, wire, pending, own, out_size, out)
  PROVE  Dialogue(ph, rd, wire', pending', own, out_size', out)
<1> DEFINE m == [id |-> sent + 1, kind |-> kind, ts |-> ts, len |-> len]
           msg == Message(sent + 1, kind, ts, len)
           pend2 == [pending EXCEPT ![c] = Append(@, msg)]
           q == Len(pending[c])
           count == Count(len, out_size)
<1>1. /\ sent \in Nat /\ out_size \in Sizes /\ out_size \in Nat \ {0} /\ wire \in Seq(Part)
      /\ pending \in [Csids -> Seq(Msg)] /\ rd.recv_buffer_ \in Seq(Part)
  BY ChunkConstants DEF TypeInv, ReaderOK, Reader, Sizes
<1>2. ts \in Nat /\ len \in Nat \ {0} /\ ExtTs \in Nat
  BY ChunkConstants DEF Lens
<1>3. /\ own = TRUE /\ wire' = wire \o OwnChunks(c, m) /\ out_size' = SizeAfter(kind)
      /\ pending' = pend2 /\ ~(ts >= ExtTs) /\ kind # "other"
  BY DEF OwnWrite, TypeInv
<1>4. m \in Header /\ m.kind # "other" /\ m.ts < ExtTs /\ m.id = sent + 1 /\ m.kind = kind
      /\ m.ts = ts /\ m.len = len
  <2>1. ts < ExtTs
    BY <1>2, <1>3
  <2> QED BY <1>1, <1>2, <1>3, <2>1 DEF Header
<1>5. msg = Message(m.id, m.kind, m.ts, m.len)
  OBVIOUS
<1>6. count = Count(m.len, out_size) /\ count \in Nat \ {0}
  BY <1>1, <1>2, Cuts
<1>7. msg \in Msg
  <2>1. sent + 1 \in Nat
    BY <1>1
  <2> QED BY <1>2, <2>1, MessageOf
<1> HIDE DEF m, msg, count
<1>8. /\ q \in Nat /\ pend2[c] = Append(pending[c], msg) /\ q < Len(pend2[c])
      /\ pend2[c][q + 1] = msg /\ Len(pend2[c]) = q + 1
      /\ \A e \in Csids \ {c} : pend2[e] = pending[e]
      /\ pend2 \in [Csids -> Seq(Msg)]
  BY <1>1, <1>7, Appended
<1> HIDE DEF pend2
<1>16. PICK g : Grows(g, count, c, m, out_size) /\ g[count] = OwnChunks(c, m)
  BY <1>1, <1>4, <1>6, OwnChunksAre
<1>9. /\ g[0] = <<>> /\ g[count] = OwnChunks(c, m)
      /\ \A i \in 0 .. count : g[i] \in Seq(Part)
      /\ \A i \in 0 .. count - 1 : g[i + 1] = g[i] \o Parts(OwnNth(i, c, m, out_size))
  BY <1>16 DEF Grows
<1> DEFINE U(i) == Under(ph, rd, wire \o g[i], pend2, out, i, c, m, out_size, count, q)
<1>10. U(0)
  <2>1. PICK n, ck, pos, st : /\ At(ph, rd, wire, pending, n, ck, pos, st)
                              /\ Ends(st[n + 1], TRUE, out_size, out, pending)
    BY <1>3 DEF Dialogue
  <2>2. At(ph, rd, wire, pend2, n, ck, pos, st)
    BY <1>1, <1>7, <2>1, AtPut DEF pend2
  <2>3. /\ st[n + 1].size = out_size
        /\ \A e \in Csids : Ended(TRUE, On(st[n + 1], e), out[e], pending[e])
    BY <2>1 DEF Ends
  <2>4. On(st[n + 1], c).remain = 0 /\ On(st[n + 1], c).q = q
    BY <2>3 DEF Ended
  <2>5. Written(st[n + 1], 0, c, m, out_size, count, q)
    BY <1>6, <2>3, <2>4 DEF Written
  <2>6. \A e \in Csids \ {c} : Ended(TRUE, On(st[n + 1], e), out[e], pend2[e])
    BY <1>8, <2>3
  <2>7. wire \o g[0] = wire
    BY <1>1, <1>9, Nothing
  <2> QED BY <2>2, <2>5, <2>6, <2>7 DEF Under
<1>11. ASSUME NEW i \in 0 .. count - 1, U(i) PROVE U(i + 1)
  <2> DEFINE k == OwnNth(i, c, m, out_size)
             w == wire \o g[i]
  <2>1. i \in 0 .. count
    BY <1>6
  <2>2. k \in Chunk
    <3>1. /\ (IF i = 0 THEN 0 ELSE 3) \in {0, 3} /\ i * out_size \in Nat /\ i * out_size < m.len
      BY <1>1, <1>2, <1>4, <1>6, Cuts
    <3> QED BY <1>1, <1>4, <3>1, OwnOfFacts DEF OwnNth
  <2>3. g[i] \in Seq(Part) /\ Parts(k) \in Seq(Part) /\ w \in Seq(Part)
    BY <1>1, <1>9, <2>1, <2>2, PartsOf, Concat
  <2>4. g[i + 1] = g[i] \o Parts(k)
    BY <1>9
  <2>5. wire \o g[i + 1] = w \o Parts(k)
    <3> HIDE DEF k
    <3>1. (wire \o g[i]) \o Parts(k) = wire \o (g[i] \o Parts(k))
      BY <1>1, <2>3, Associative
    <3> QED BY <2>4, <3>1
  <2>6. Under(ph, rd, w, pend2, out, i, c, m, out_size, count, q)
    BY <1>11
  <2>7. k = OwnNth(i, c, m, out_size)
    OBVIOUS
  <2> HIDE DEF k, w, q
  <2>8. Under(ph, rd, w \o Parts(k), pend2, out, i + 1, c, m, out_size, count, q)
    BY <1>1, <1>4, <1>5, <1>6, <1>8, <2>3, <2>6, <2>7, UnderStep
  <2> QED BY <2>5, <2>8
<1>12. U(count)
  <2> DEFINE T == {i \in 0 .. count : U(i)}
  <2> HIDE DEF U
  <2>1. 0 \in T
    BY <1>6, <1>10
  <2>2. \A i \in 0 .. count - 1 : i \in T => i + 1 \in T
    BY <1>6, <1>11
  <2> HIDE DEF T
  <2>3. \A i \in 0 .. count : i \in T
    BY <1>6, <2>1, <2>2, UpTo
  <2>4. count \in T
    BY <1>6, <2>3
  <2> QED BY <2>4 DEF T
<1>13. Under(ph, rd, wire', pend2, out, count, c, m, out_size, count, q)
  BY <1>3, <1>9, <1>12
<1>14. PICK n, ck, pos, st :
         /\ At(ph, rd, wire', pend2, n, ck, pos, st)
         /\ Written(st[n + 1], count, c, m, out_size, count, q)
         /\ \A e \in Csids \ {c} : Ended(TRUE, On(st[n + 1], e), out[e], pend2[e])
  BY <1>13 DEF Under
<1>15. Ends(st[n + 1], TRUE, out_size', out, pend2)
  <2>1. st[n + 1].size = out_size'
    BY <1>3, <1>4, <1>14 DEF Written, SizeAfter
  <2>2. Ended(TRUE, On(st[n + 1], c), out[c], pend2[c])
    <3>1. PICK n1, ck1, pos1, st1 : Ends(st1[n1 + 1], TRUE, out_size, out, pending)
      BY <1>3 DEF Dialogue
    <3>2. out[c].left = 0
      BY <3>1 DEF Ends, Ended
    <3>3. On(st[n + 1], c).remain = 0 /\ On(st[n + 1], c).q = q + 1
      BY <1>14 DEF Written
    <3> QED BY <1>8, <3>2, <3>3 DEF Ended
  <2> QED BY <1>14, <2>1, <2>2 DEF Ends
<1> QED BY <1>3, <1>14, <1>15 DEF Dialogue

-----------------------------------------------------------------------------
(* The reader in the first chunk.                                          *)

(* What the run says of the chunk that is read.                            *)
LEMMA FirstChunk ==
  ASSUME NEW ph, NEW r, NEW w, NEW pend \in [Csids -> Seq(Msg)], NEW n, NEW ck, NEW pos, NEW st,
         At(ph, r, w, pend, n, ck, pos, st), n # 0
  PROVE  /\ n \in Nat \ {0} /\ ck[1] \in Chunk /\ ck[1].c \in Csids /\ pos[1] \in Int
         /\ st[1] \in State /\ Leads(st[1], ck[1], st[1 + 1], pend)
         /\ On(st[1], ck[1].c) \in Mid /\ On(st[1], ck[1].c).q = 0
         /\ Holds(r.recv_buffer_ \o w, pos[1], ck[1])
<1>1. Run(r.recv_buffer_ \o w, pend, n, ck, pos, st)
  BY DEF At
<1>2. n \in Nat \ {0} /\ 1 \in 1 .. n
  BY <1>1 DEF Run
<1>3. /\ ck[1] \in Chunk /\ ck[1].c \in Csids /\ pos[1] \in Int
      /\ st[1] \in State /\ Leads(st[1], ck[1], st[1 + 1], pend)
      /\ Holds(r.recv_buffer_ \o w, pos[1], ck[1])
  BY <1>1, <1>2, RunFacts
<1>4. On(st[1], ck[1].c) \in Mid
  BY <1>3 DEF State, On
<1>5. On(st[1], ck[1].c).q = 0
  BY <1>3 DEF At
<1> QED BY <1>2, <1>3, <1>4, <1>5

(* A part in the buffer is the part of the chunk at that place.            *)
LEMMA Found ==
  ASSUME NEW b \in Seq(Part), NEW w \in Seq(Part), NEW k \in Chunk, NEW a \in Nat,
         Holds(b \o w, -a, k), NEW i \in 1 .. Len(b), a + i <= Width(k)
  PROVE  b[i] = Parts(k)[a + i]
<1>1. Width(k) \in Nat /\ a + i \in 1 .. Width(k) /\ (-a) + (a + i) = i /\ i >= 1
  BY Widths
<1>2. (b \o w)[i] = b[i]
  BY Concat
<1>3. (-a) + (a + i) >= 1 => (b \o w)[(-a) + (a + i)] = Parts(k)[a + i]
  BY <1>1 DEF Holds
<1> QED BY <1>1, <1>2, <1>3

(* What the buffer shows behind the basic header.                          *)
InFront(b, k) ==
  /\ k.fmt # 3 /\ Len(b) >= 1 =>
       b[1] = [k |-> "head", ts |-> Less(k.stamp, ExtTs), len |-> k.len, kind |-> k.kind]
  /\ k.fmt # 3 /\ k.ext /\ Len(b) >= 2 => b[2] = [k |-> "ext", ts |-> k.stamp]
  /\ k.fmt = 3 /\ k.ext /\ Len(b) >= 1 => b[1] = [k |-> "ext", ts |-> k.stamp]
  /\ k.fmt = 3 /\ ~k.ext /\ Len(b) >= 1 => b[1].k = "pay"

LEMMA FrontOf ==
  ASSUME NEW b \in Seq(Part), NEW w \in Seq(Part), NEW k \in Chunk,
         Holds(b \o w, -BasicLen(k.c), k)
  PROVE  InFront(b, k)
<1> DEFINE a == BasicLen(k.c)
<1>1. /\ a \in Nat /\ HeadLen(k.fmt) = (IF k.fmt = 3 THEN 0 ELSE 1)
      /\ ExtLen(k.ext) = (IF k.ext THEN 1 ELSE 0)
      /\ Ahead(k) = a + HeadLen(k.fmt) + ExtLen(k.ext) /\ Width(k) = Ahead(k) + k.n
      /\ k.n \in Nat \ {0} /\ Len(b) \in Nat
  BY Widths DEF HeadLen, ExtLen
<1> HIDE DEF a
<1>2. \A i \in 1 .. Len(b) : a + i <= Width(k) => b[i] = Parts(k)[a + i]
  BY <1>1, Found DEF a
<1>3. /\ k.fmt # 3 => Parts(k)[a + 1] =
           [k |-> "head", ts |-> Less(k.stamp, ExtTs), len |-> k.len, kind |-> k.kind]
      /\ k.ext => Parts(k)[a + HeadLen(k.fmt) + 1] = [k |-> "ext", ts |-> k.stamp]
      /\ Parts(k)[Ahead(k) + 1] = [k |-> "pay", of |-> <<k.id, k.from + 1>>]
  <2>1. 1 \in 1 .. k.n
    BY <1>1
  <2> QED BY <2>1, PartsOf DEF a
<1>4. k.fmt # 3 /\ Len(b) >= 1 =>
        b[1] = [k |-> "head", ts |-> Less(k.stamp, ExtTs), len |-> k.len, kind |-> k.kind]
  <2>1. HAVE k.fmt # 3 /\ Len(b) >= 1
  <2>2. 1 \in 1 .. Len(b) /\ a + 1 <= Width(k)
    BY <1>1, <2>1
  <2> QED BY <1>2, <1>3, <2>1, <2>2
<1>5. k.fmt # 3 /\ k.ext /\ Len(b) >= 2 => b[2] = [k |-> "ext", ts |-> k.stamp]
  <2>1. HAVE k.fmt # 3 /\ k.ext /\ Len(b) >= 2
  <2>2. 2 \in 1 .. Len(b) /\ a + 2 <= Width(k) /\ a + HeadLen(k.fmt) + 1 = a + 2
    BY <1>1, <2>1
  <2> QED BY <1>2, <1>3, <2>1, <2>2
<1>6. k.fmt = 3 /\ k.ext /\ Len(b) >= 1 => b[1] = [k |-> "ext", ts |-> k.stamp]
  <2>1. HAVE k.fmt = 3 /\ k.ext /\ Len(b) >= 1
  <2>2. 1 \in 1 .. Len(b) /\ a + 1 <= Width(k) /\ a + HeadLen(k.fmt) + 1 = a + 1
    BY <1>1, <2>1
  <2> QED BY <1>2, <1>3, <2>1, <2>2
<1>7. k.fmt = 3 /\ ~k.ext /\ Len(b) >= 1 => b[1].k = "pay"
  <2>1. HAVE k.fmt = 3 /\ ~k.ext /\ Len(b) >= 1
  <2>2. 1 \in 1 .. Len(b) /\ a + 1 <= Width(k) /\ Ahead(k) + 1 = a + 1
    BY <1>1, <2>1
  <2>3. b[1] = [k |-> "pay", of |-> <<k.id, k.from + 1>>]
    BY <1>2, <1>3, <2>2
  <2> QED BY <2>3
<1> QED BY <1>4, <1>5, <1>6, <1>7 DEF InFront

(* The outcomes of reading the header of chunk k.                          *)
HeaderRead(h, r, x, k, p) ==
  \/ h = More(r)
  \/ k.fmt # 3 /\ h = More(SetCs(r, Seen(x, k, p)))
  \/ /\ HeadLen(k.fmt) + ExtLen(k.ext) <= Len(r.recv_buffer_)
     /\ h = Drop(SetCs(r, Reading(x, k, p)), HeadLen(k.fmt) + ExtLen(k.ext))

(* The ChunkStream behind the header, field by field.                      *)
LEMMA ReadingOf ==
  ASSUME NEW x, NEW k, NEW p
  PROVE  Reading(x, k, p) =
           [fmt_ |-> k.fmt, ext_ts_flag_ |-> Flagged(x, k), timestamp32_ |-> k.mts,
            timestamp_delta_ |-> Delta(x, k), kind |-> k.kind, msg_len_ |-> k.len,
            remain_ |-> Left(x, k), in_payload |-> TRUE,
            data |-> SubSeq(p[1].body, 1, k.from), ready |-> FALSE]
<1> DEFINE y == Opened(x, k)
           d == SubSeq(p[1].body, 1, k.from)
           old == IF y.remain = 0 THEN <<>> ELSE SubSeq(p[1].body, 1, y.len - y.remain)
<1>1. /\ y.fmt = k.fmt /\ y.flag = Flagged(x, k) /\ y.ts = k.mts /\ y.delta = Delta(x, k)
      /\ y.kind = k.kind /\ y.len = k.len /\ y.remain = Left(x, k)
  BY DEF Opened
<1>2. Resting(y, p) =
        [fmt_ |-> y.fmt, ext_ts_flag_ |-> y.flag, timestamp32_ |-> y.ts,
         timestamp_delta_ |-> y.delta, kind |-> y.kind, msg_len_ |-> y.len,
         remain_ |-> y.remain, in_payload |-> FALSE, data |-> old, ready |-> FALSE]
  BY DEF Resting
<1> DEFINE at == Resting(y, p)
           z == Reading(x, k, p)
<1>3. z = [at EXCEPT !.in_payload = TRUE, !.data = d]
  BY DEF Reading
<1> HIDE DEF y, d, old, at, z
<1>5. at =
        [fmt_ |-> y.fmt, ext_ts_flag_ |-> y.flag, timestamp32_ |-> y.ts,
         timestamp_delta_ |-> y.delta, kind |-> y.kind, msg_len_ |-> y.len,
         remain_ |-> y.remain, in_payload |-> FALSE, data |-> old, ready |-> FALSE]
  BY <1>2 DEF at
<1>4. z =
        [fmt_ |-> y.fmt, ext_ts_flag_ |-> y.flag, timestamp32_ |-> y.ts,
         timestamp_delta_ |-> y.delta, kind |-> y.kind, msg_len_ |-> y.len,
         remain_ |-> y.remain, in_payload |-> TRUE, data |-> d, ready |-> FALSE]
  BY <1>3, <1>5
<1> QED BY <1>1, <1>4 DEF d, z

(* Types 0, 1 and 2: the header, then the extended timestamp, which may    *)
(* come with a later read.                                                 *)
LEMMA ReadsFormat012 ==
  ASSUME NEW r, r.recv_buffer_ \in Seq(Part), NEW k \in Chunk, NEW x \in Mid, NEW p,
         r.fmt_ = k.fmt, k.fmt # 3, x.remain = 0, Begins(x, k), k.from = 0,
         InFront(r.recv_buffer_, k), NEW cs, cs = Resting(x, p) \/ cs = Seen(x, k, p)
  PROVE  HeaderRead(ReadMsgFormat012(r, cs), r, x, k, p)
<1> DEFINE b == r.recv_buffer_
           hd == b[1]
           ext == hd.ts >= ExtTs
           seen == [cs EXCEPT !.fmt_ = r.fmt_, !.ext_ts_flag_ = @ \/ ext]
<1>1. /\ k.stamp \in Nat /\ ExtTs \in Nat /\ k.ext \in BOOLEAN /\ x.flag \in BOOLEAN
      /\ x.ts \in Nat /\ k.len \in Nat /\ Len(b) \in Nat
  BY ChunkConstants DEF Chunk, Mid, Lens
<1>2. (k.ext <=> k.stamp >= ExtTs) /\ k.mts = IF k.fmt = 0 THEN k.stamp ELSE x.ts + k.stamp
  BY DEF Begins
<1>3. k.fmt = 2 => k.len = x.len /\ k.kind = x.kind
  BY DEF Begins
<1>4. Left(x, k) = k.len
  BY DEF Left
<1>5. CASE ~Require(r, 1)
  <2>1. ReadMsgFormat012(r, cs) = More(r)
    BY <1>5 DEF ReadMsgFormat012
  <2> QED BY <2>1 DEF HeaderRead
<1>6. CASE Require(r, 1)
  <2>1. /\ Len(b) >= 1
        /\ hd = [k |-> "head", ts |-> Less(k.stamp, ExtTs), len |-> k.len, kind |-> k.kind]
    BY <1>6 DEF Require, InFront
  <2>2. Kind(r, 1) = "head" /\ hd.ts = Less(k.stamp, ExtTs) /\ hd.len = k.len /\ hd.kind = k.kind
    BY <2>1 DEF Kind
  <2>3. (ext <=> k.ext) /\ (~k.ext => hd.ts = k.stamp)
    BY <1>1, <1>2, <2>2 DEF Less
  <2>4. seen = Seen(x, k, p)
    <3>1. (x.flag \/ ext) = (x.flag \/ k.ext) /\ ((x.flag \/ k.ext) \/ ext) = (x.flag \/ k.ext)
      BY <2>3
    <3>2. CASE cs = Resting(x, p)
      BY <3>1, <3>2 DEF Seen, Resting
    <3>3. CASE cs = Seen(x, k, p)
      BY <3>1, <3>3 DEF Seen, Resting
    <3> QED BY <3>2, <3>3
  <2> HIDE DEF seen
  <2>5. CASE k.ext /\ ~Require(r, 2)
    <3>1. ReadMsgFormat012(r, cs) = More(SetCs(r, seen))
      BY <1>6, <2>2, <2>3, <2>5 DEF ReadMsgFormat012, seen
    <3> QED BY <2>4, <3>1 DEF HeaderRead
  <2>6. CASE ~k.ext \/ Require(r, 2)
    <3> DEFINE ts == IF ext THEN b[2].ts ELSE hd.ts
               len == IF r.fmt_ = 2 THEN cs.msg_len_ ELSE hd.len
               new == [seen EXCEPT
                         !.timestamp32_ = IF r.fmt_ = 0 THEN ts ELSE @ + ts,
                         !.timestamp_delta_ = IF r.fmt_ = 0 THEN 0 ELSE ts,
                         !.kind = IF r.fmt_ = 2 THEN @ ELSE hd.kind,
                         !.msg_len_ = len, !.remain_ = len, !.in_payload = TRUE]
    <3>1. k.ext => Len(b) >= 2 /\ b[2] = [k |-> "ext", ts |-> k.stamp]
      BY <2>6 DEF Require, InFront
    <3>2. (k.ext => Kind(r, 2) = "ext") /\ ts = k.stamp
      BY <2>3, <3>1 DEF Kind
    <3>3. ReadMsgFormat012(r, cs) = Drop(SetCs(r, new), IF ext THEN 2 ELSE 1)
      BY <1>6, <2>2, <2>3, <2>6, <3>2 DEF ReadMsgFormat012, seen
    <3>4. len = k.len
      <4>1. cs.msg_len_ = x.len
        <5>1. Resting(x, p).msg_len_ = x.len
          BY DEF Resting
        <5>2. Seen(x, k, p).msg_len_ = x.len
          BY DEF Resting, Seen
        <5> QED BY <5>1, <5>2
      <4> QED BY <1>3, <2>2, <4>1
    <3>5. new = Reading(x, k, p)
      <4>1. /\ seen.timestamp32_ = x.ts /\ seen.kind = x.kind
        BY <2>4 DEF Resting, Seen
      <4>2. (IF r.fmt_ = 0 THEN ts ELSE seen.timestamp32_ + ts) = k.mts
        BY <1>2, <3>2, <4>1
      <4>3. (IF r.fmt_ = 0 THEN 0 ELSE ts) = Delta(x, k)
        BY <3>2 DEF Delta
      <4>4. (IF r.fmt_ = 2 THEN seen.kind ELSE hd.kind) = k.kind
        BY <1>3, <2>2, <4>1
      <4>5. (x.flag \/ k.ext) = Flagged(x, k)
        BY DEF Flagged
      <4>6. SubSeq(p[1].body, 1, k.from) = <<>>
        OBVIOUS
      <4>7. new = [seen EXCEPT !.timestamp32_ = k.mts, !.timestamp_delta_ = Delta(x, k),
                               !.kind = k.kind, !.msg_len_ = k.len, !.remain_ = k.len,
                               !.in_payload = TRUE]
        BY <3>4, <4>2, <4>3, <4>4
      <4> HIDE DEF new
      <4>8. seen = [fmt_ |-> k.fmt, ext_ts_flag_ |-> Flagged(x, k), timestamp32_ |-> x.ts,
                    timestamp_delta_ |-> x.delta, kind |-> x.kind, msg_len_ |-> x.len,
                    remain_ |-> x.remain, in_payload |-> FALSE, data |-> <<>>, ready |-> FALSE]
        BY <2>4, <4>5 DEF Seen, Resting
      <4>9. Reading(x, k, p) =
              [fmt_ |-> k.fmt, ext_ts_flag_ |-> Flagged(x, k), timestamp32_ |-> k.mts,
               timestamp_delta_ |-> Delta(x, k), kind |-> k.kind, msg_len_ |-> k.len,
               remain_ |-> k.len, in_payload |-> TRUE, data |-> <<>>, ready |-> FALSE]
        BY <1>4, <4>6, ReadingOf
      <4>10. new = [fmt_ |-> k.fmt, ext_ts_flag_ |-> Flagged(x, k), timestamp32_ |-> k.mts,
                    timestamp_delta_ |-> Delta(x, k), kind |-> k.kind, msg_len_ |-> k.len,
                    remain_ |-> k.len, in_payload |-> TRUE, data |-> <<>>, ready |-> FALSE]
        BY <4>7, <4>8
      <4> QED BY <4>9, <4>10
    <3>6. (IF ext THEN 2 ELSE 1) = HeadLen(k.fmt) + ExtLen(k.ext)
      BY <2>3 DEF HeadLen, ExtLen
    <3>7. HeadLen(k.fmt) + ExtLen(k.ext) <= Len(b)
      BY <1>1, <2>1, <3>1 DEF HeadLen, ExtLen
    <3> QED BY <3>3, <3>5, <3>6, <3>7 DEF HeaderRead
  <2> QED BY <1>1, <2>5, <2>6
<1> QED BY <1>5, <1>6

(* Type 3 within a message and at its beginning.                           *)
LEMMA GoOf ==
  ASSUME NEW x, NEW p, x.remain # 0, NEW c, c = Resting(x, p),
         NEW y, y = [c EXCEPT !.fmt_ = 3, !.in_payload = TRUE]
  PROVE  y = [fmt_ |-> 3, ext_ts_flag_ |-> x.flag, timestamp32_ |-> x.ts,
              timestamp_delta_ |-> x.delta, kind |-> x.kind, msg_len_ |-> x.len,
              remain_ |-> x.remain, in_payload |-> TRUE,
              data |-> SubSeq(p[1].body, 1, x.len - x.remain), ready |-> FALSE]
<1> DEFINE d == SubSeq(p[1].body, 1, x.len - x.remain)
           f == x.fmt
           e == x.flag
           t == x.ts
           dt == x.delta
           kd == x.kind
           l == x.len
           left == x.remain
<1>1. c = [fmt_ |-> f, ext_ts_flag_ |-> e, timestamp32_ |-> t, timestamp_delta_ |-> dt,
           kind |-> kd, msg_len_ |-> l, remain_ |-> left, in_payload |-> FALSE, data |-> d,
           ready |-> FALSE]
  BY DEF Resting
<1> HIDE DEF d, f, e, t, dt, kd, l, left
<1>2. y = [fmt_ |-> 3, ext_ts_flag_ |-> e, timestamp32_ |-> t, timestamp_delta_ |-> dt,
           kind |-> kd, msg_len_ |-> l, remain_ |-> left, in_payload |-> TRUE, data |-> d,
           ready |-> FALSE]
  BY ONLY <1>1, y = [c EXCEPT !.fmt_ = 3, !.in_payload = TRUE]
<1> QED BY <1>2 DEF d, e, t, dt, kd, l, left

LEMMA BegunOf ==
  ASSUME NEW x, NEW p, x.remain = 0, NEW c, c = Resting(x, p),
         NEW y, y = [c EXCEPT !.data = <<>>, !.ready = FALSE, !.remain_ = c.msg_len_,
                              !.fmt_ = 3, !.in_payload = TRUE]
  PROVE  y = [fmt_ |-> 3, ext_ts_flag_ |-> x.flag, timestamp32_ |-> x.ts,
              timestamp_delta_ |-> x.delta, kind |-> x.kind, msg_len_ |-> x.len,
              remain_ |-> x.len, in_payload |-> TRUE, data |-> <<>>, ready |-> FALSE]
<1> DEFINE f == x.fmt
           e == x.flag
           t == x.ts
           dt == x.delta
           kd == x.kind
           l == x.len
           left == x.remain
<1>1. c = [fmt_ |-> f, ext_ts_flag_ |-> e, timestamp32_ |-> t, timestamp_delta_ |-> dt,
           kind |-> kd, msg_len_ |-> l, remain_ |-> left, in_payload |-> FALSE, data |-> <<>>,
           ready |-> FALSE]
  BY DEF Resting
<1>2. c.msg_len_ = l
  BY <1>1
<1> HIDE DEF f, e, t, dt, kd, l, left
<1>3. y = [c EXCEPT !.data = <<>>, !.ready = FALSE, !.remain_ = l, !.fmt_ = 3, !.in_payload = TRUE]
  BY <1>2
<1>4. y = [fmt_ |-> 3, ext_ts_flag_ |-> e, timestamp32_ |-> t, timestamp_delta_ |-> dt,
           kind |-> kd, msg_len_ |-> l, remain_ |-> l, in_payload |-> TRUE, data |-> <<>>,
           ready |-> FALSE]
  BY ONLY <1>1, <1>3
<1> QED BY <1>4 DEF e, t, dt, kd, l

LEMMA ReadsFormat3New ==
  ASSUME NEW r, r.recv_buffer_ \in Seq(Part), NEW k \in Chunk, NEW x \in Mid, NEW p,
         k.fmt = 3, x.remain = 0, Begins(x, k), k.from = 0,
         InFront(r.recv_buffer_, k), NEW cs, cs = Resting(x, p)
  PROVE  HeaderRead(ReadMsgFormat3New(r, cs), r, x, k, p)
<1> DEFINE b == r.recv_buffer_
           reads == cs.fmt_ \in 0..2 /\ cs.ext_ts_flag_
<1>1. /\ k.stamp \in Nat /\ k.ext \in BOOLEAN /\ x.flag \in BOOLEAN
      /\ x.ts \in Nat /\ k.len \in Nat /\ Len(b) \in Nat
  BY ChunkConstants DEF Chunk, Mid, Lens
<1>2. /\ x.fmt \in {1, 2} /\ x.flag = k.ext /\ (~k.ext => k.stamp = x.delta)
      /\ k.mts = x.ts + k.stamp /\ k.len = x.len /\ k.kind = x.kind
  BY DEF Begins
<1>3. Left(x, k) = x.len
  BY <1>2 DEF Left
<1>4. cs = [fmt_ |-> x.fmt, ext_ts_flag_ |-> x.flag, timestamp32_ |-> x.ts,
            timestamp_delta_ |-> x.delta, kind |-> x.kind, msg_len_ |-> x.len, remain_ |-> 0,
            in_payload |-> FALSE, data |-> <<>>, ready |-> FALSE]
  BY DEF Resting
<1>5. cs.fmt_ = x.fmt /\ cs.ext_ts_flag_ = x.flag /\ cs.timestamp_delta_ = x.delta
      /\ cs.msg_len_ = x.len
  BY <1>4
<1>6. reads <=> k.ext
  BY <1>1, <1>2, <1>5
<1>7. CASE k.ext /\ ~RequireExt(r)
  <2>1. ReadMsgFormat3New(r, cs) = More(r)
    BY <1>6, <1>7 DEF ReadMsgFormat3New
  <2> QED BY <2>1 DEF HeaderRead
<1>8. CASE ~(k.ext /\ ~RequireExt(r))
  <2> DEFINE begun == [cs EXCEPT !.data = <<>>, !.ready = FALSE, !.remain_ = cs.msg_len_,
                          !.fmt_ = 3, !.in_payload = TRUE]
             ts == IF reads THEN b[1].ts ELSE cs.timestamp_delta_
             new == [begun EXCEPT !.timestamp32_ =
                       IF cs.fmt_ \in {1, 2} THEN @ + ts ELSE IF reads THEN ts ELSE @]
  <2>1. k.ext => Len(b) >= 1 /\ b[1] = [k |-> "ext", ts |-> k.stamp]
    BY <1>1, <1>8 DEF RequireExt, Require, InFront
  <2>2. (k.ext => Kind(r, 1) = "ext") /\ ts = k.stamp
    BY <1>2, <1>5, <1>6, <2>1 DEF Kind
  <2>3. ReadMsgFormat3New(r, cs) = Drop(SetCs(r, new), IF reads THEN 1 ELSE 0)
    BY <1>6, <1>8, <2>2 DEF ReadMsgFormat3New
  <2>10. begun = [cs EXCEPT !.data = <<>>, !.ready = FALSE, !.remain_ = cs.msg_len_,
                          !.fmt_ = 3, !.in_payload = TRUE]
    OBVIOUS
  <2> HIDE DEF begun
  <2>4. begun = [fmt_ |-> 3, ext_ts_flag_ |-> x.flag, timestamp32_ |-> x.ts,
            timestamp_delta_ |-> x.delta, kind |-> x.kind, msg_len_ |-> x.len, remain_ |-> x.len,
            in_payload |-> TRUE, data |-> <<>>, ready |-> FALSE]
    BY <2>10, BegunOf
  <2>5. new = [begun EXCEPT !.timestamp32_ = k.mts]
    BY <1>2, <1>5, <2>2, <2>4
  <2> HIDE DEF new
  <2>6. new = [fmt_ |-> 3, ext_ts_flag_ |-> x.flag, timestamp32_ |-> k.mts,
            timestamp_delta_ |-> x.delta, kind |-> x.kind, msg_len_ |-> x.len, remain_ |-> x.len,
            in_payload |-> TRUE, data |-> <<>>, ready |-> FALSE]
    BY <2>4, <2>5
  <2>7. new = Reading(x, k, p)
    <3>1. SubSeq(p[1].body, 1, k.from) = <<>>
      OBVIOUS
    <3>2. Flagged(x, k) = x.flag /\ Delta(x, k) = x.delta
      BY <1>1 DEF Flagged, Delta
    <3> QED BY <1>2, <1>3, <2>6, <3>1, <3>2, ReadingOf
  <2>8. (IF reads THEN 1 ELSE 0) = HeadLen(k.fmt) + ExtLen(k.ext)
    BY <1>6 DEF HeadLen, ExtLen
  <2>9. HeadLen(k.fmt) + ExtLen(k.ext) <= Len(b)
    BY <1>1, <2>1 DEF HeadLen, ExtLen
  <2> QED BY <2>3, <2>7, <2>8, <2>9 DEF HeaderRead
<1> QED BY <1>7, <1>8

LEMMA ReadsFormat3Go ==
  ASSUME NEW r, r.recv_buffer_ \in Seq(Part), NEW k \in Chunk, NEW x \in Mid, NEW p,
         x.remain # 0, Goes(x, k), k.from = k.len - x.remain,
         InFront(r.recv_buffer_, k), NEW cs, cs = Resting(x, p)
  PROVE  HeaderRead(ReadMsgFormat3Go(r, cs), r, x, k, p)
<1> DEFINE b == r.recv_buffer_
           skip == cs.ext_ts_flag_ /\ Kind(r, 1) = "ext" /\ b[1].ts = cs.timestamp32_
           new == [cs EXCEPT !.fmt_ = 3, !.in_payload = TRUE]
<1>1. /\ k.stamp \in Nat /\ k.ext \in BOOLEAN /\ x.flag \in BOOLEAN /\ Len(b) \in Nat
  BY DEF Chunk, Mid
<1>2. /\ k.fmt = 3 /\ k.mts = x.ts /\ k.kind = x.kind /\ k.len = x.len
      /\ k.ext => x.flag /\ k.stamp = x.ts
  BY DEF Goes
<1>3. cs = [fmt_ |-> x.fmt, ext_ts_flag_ |-> x.flag, timestamp32_ |-> x.ts,
            timestamp_delta_ |-> x.delta, kind |-> x.kind, msg_len_ |-> x.len,
            remain_ |-> x.remain,
            in_payload |-> FALSE, data |-> SubSeq(p[1].body, 1, k.from), ready |-> FALSE]
  BY <1>2 DEF Resting
<1>4. cs.ext_ts_flag_ = x.flag /\ cs.timestamp32_ = x.ts
  BY <1>3
<1>5. CASE x.flag /\ ~RequireExt(r)
  <2>1. ReadMsgFormat3Go(r, cs) = More(r)
    BY <1>4, <1>5 DEF ReadMsgFormat3Go
  <2> QED BY <2>1 DEF HeaderRead
<1>6. CASE ~(x.flag /\ ~RequireExt(r))
  <2>1. x.flag => Len(b) >= 1
    BY <1>1, <1>6 DEF RequireExt, Require
  <2>2. ReadMsgFormat3Go(r, cs) = Drop(SetCs(r, new), IF skip THEN 1 ELSE 0)
    BY <1>4, <1>6 DEF ReadMsgFormat3Go
  <2>3. skip <=> k.ext
    <3>1. ASSUME k.ext PROVE skip
      <4>1. b[1] = [k |-> "ext", ts |-> k.stamp]
        BY <1>2, <2>1, <3>1 DEF InFront
      <4> QED BY <1>2, <1>4, <3>1, <4>1 DEF Kind
    <3>2. ASSUME skip PROVE k.ext
      <4>1. b[1].k = "ext" /\ Len(b) >= 1
        BY <1>4, <2>1, <3>2 DEF Kind
      <4> QED BY <1>2, <4>1 DEF InFront
    <3> QED BY <3>1, <3>2
  <2>8. new = [cs EXCEPT !.fmt_ = 3, !.in_payload = TRUE]
    OBVIOUS
  <2> HIDE DEF new
  <2>9. new = [fmt_ |-> 3, ext_ts_flag_ |-> x.flag, timestamp32_ |-> x.ts,
            timestamp_delta_ |-> x.delta, kind |-> x.kind, msg_len_ |-> x.len,
            remain_ |-> x.remain, in_payload |-> TRUE,
            data |-> SubSeq(p[1].body, 1, x.len - x.remain), ready |-> FALSE]
    BY <2>8, GoOf
  <2>10. x.len - x.remain = k.from
    BY <1>2
  <2>4. new = [fmt_ |-> 3, ext_ts_flag_ |-> x.flag, timestamp32_ |-> x.ts,
            timestamp_delta_ |-> x.delta, kind |-> x.kind, msg_len_ |-> x.len,
            remain_ |-> x.remain,
            in_payload |-> TRUE, data |-> SubSeq(p[1].body, 1, k.from), ready |-> FALSE]
    BY ONLY <2>9, <2>10
  <2>5. new = Reading(x, k, p)
    <3>1. Left(x, k) = x.remain
      BY DEF Left
    <3>2. Flagged(x, k) = x.flag /\ Delta(x, k) = x.delta
      BY <1>1, <1>2 DEF Flagged, Delta
    <3> QED BY <1>2, <2>4, <3>1, <3>2, ReadingOf
  <2>6. (IF skip THEN 1 ELSE 0) = HeadLen(k.fmt) + ExtLen(k.ext)
    BY <1>2, <2>3 DEF HeadLen, ExtLen
  <2>7. HeadLen(k.fmt) + ExtLen(k.ext) <= Len(b)
    BY <1>1, <1>2, <2>1 DEF HeadLen, ExtLen
  <2> QED BY <2>2, <2>5, <2>6, <2>7 DEF HeaderRead
<1> QED BY <1>5, <1>6

-----------------------------------------------------------------------------
(* The calls of the reader.                                                *)

(* Asking for more changes nothing else.                                   *)
LEMMA MoreFacts ==
  ASSUME NEW r \in Reader, NEW h, h = More(r)
  PROVE  /\ h.more = TRUE /\ h.lost = r.lost /\ h.torn = r.torn
         /\ h.recv_buffer_ = r.recv_buffer_ /\ h.chunk_size_ = r.chunk_size_
         /\ h.csid_ = r.csid_ /\ h.cs_map_ = r.cs_map_ /\ h.fmt_ready_ = r.fmt_ready_
         /\ h.fmt_ = r.fmt_
  BY DEF More, Reader

(* Session h is r that asks for more, with cs as its current ChunkStream.  *)
MoreWith(h, r, cs) ==
  /\ h.more = TRUE /\ h.lost = r.lost /\ h.torn = r.torn
  /\ h.recv_buffer_ = r.recv_buffer_ /\ h.chunk_size_ = r.chunk_size_
  /\ h.csid_ = r.csid_ /\ h.fmt_ready_ = r.fmt_ready_ /\ h.fmt_ = r.fmt_
  /\ h.cs_map_[r.csid_] = cs
  /\ \A c \in Csids \ {r.csid_} : h.cs_map_[c] = r.cs_map_[c]

LEMMA MoreSetFacts ==
  ASSUME NEW r \in Reader, r.csid_ \in Csids, NEW cs
  PROVE  MoreWith(More(SetCs(r, cs)), r, cs)
  BY DEF More, SetCs, Reader, MoreWith

LEMMA DropSetFacts ==
  ASSUME NEW r \in Reader, r.csid_ \in Csids, NEW cs, NEW d \in Nat, NEW h,
         h = Drop(SetCs(r, cs), d)
  PROVE  /\ h.more = r.more /\ h.lost = r.lost /\ h.torn = r.torn
         /\ h.recv_buffer_ = SubSeq(r.recv_buffer_, d + 1, Len(r.recv_buffer_))
         /\ h.chunk_size_ = r.chunk_size_
         /\ h.csid_ = r.csid_ /\ h.fmt_ready_ = r.fmt_ready_ /\ h.fmt_ = r.fmt_
         /\ h.cs_map_[r.csid_] = cs
         /\ \A c \in Csids \ {r.csid_} : h.cs_map_[c] = r.cs_map_[c]
  BY DEF Drop, SetCs, Reader

(* The run behind what was taken from the buffer.                          *)
LEMMA RunMoved ==
  ASSUME NEW ph, NEW r, r.recv_buffer_ \in Seq(Part), NEW w, NEW pend \in [Csids -> Seq(Msg)],
         NEW n, NEW ck, NEW pos, NEW st, At(ph, r, w, pend, n, ck, pos, st),
         NEW d \in 0 .. Len(r.recv_buffer_), NEW b,
         b = SubSeq(r.recv_buffer_, d + 1, Len(r.recv_buffer_))
  PROVE  Run(b \o w, pend, n, ck, Back(pos, d), st)
<1> DEFINE a == r.recv_buffer_
<1>1. w \in Seq(Part) /\ Run(a \o w, pend, n, ck, pos, st)
  BY DEF At
<1>2. /\ b \in Seq(Part) /\ b \o w \in Seq(Part) /\ Len(b \o w) = Len(a \o w) - d
      /\ \A i \in 1 .. Len(b \o w) : (b \o w)[i] = (a \o w)[d + i]
  BY <1>1, Dropped
<1>3. Len(a \o w) \in Nat /\ d \in Nat
  BY <1>1, Concat
<1> DEFINE S == a \o w
           R == b \o w
<1>4. /\ Len(S) \in Nat /\ Len(R) = Len(S) - d /\ \A i \in 1 .. Len(R) : R[i] = S[d + i]
      /\ d \in Nat /\ Run(S, pend, n, ck, pos, st)
  BY <1>1, <1>2, <1>3
<1> HIDE DEF S, R
<1>5. Run(R, pend, n, ck, Back(pos, d), st)
  BY <1>4, RunDropped
<1> QED BY <1>5 DEF R

(* ReadMessageHeader asks for more and stays where it was, or reads the    *)
(* header of the chunk.                                                    *)
LEMMA HeaderReads ==
  ASSUME NEW r, ReaderOK(r), ~r.more, NEW w, NEW pend \in [Csids -> Seq(Msg)],
         NEW n, NEW ck, NEW pos, NEW st, At(1, r, w, pend, n, ck, pos, st),
         NEW h, h = ReadMessageHeader(r)
  PROVE  \/ h.more /\ At(1, h, w, pend, n, ck, pos, st)
         \/ ~h.more /\ \E pos2 : At(2, h, w, pend, n, ck, pos2, st)
<1> DEFINE k == ck[1]
           x == On(st[1], k.c)
           p == pend[k.c]
           cs == r.cs_map_[r.csid_]
           b == r.recv_buffer_
<1>1. /\ w \in Seq(Part) /\ r.chunk_size_ = st[1].size /\ ~r.lost
      /\ \A c \in Csids : On(st[1], c).q = 0
      /\ \A c \in Csids \ {r.csid_} : r.cs_map_[c] = Resting(On(st[1], c), pend[c])
      /\ BehindBasic(r, pend, n, ck, pos, st) /\ Run(b \o w, pend, n, ck, pos, st)
  BY DEF At
<1>2. /\ InChunk(r, n, ck) /\ pos[1] = -BasicLen(k.c) /\ k.c = r.csid_
      /\ cs = Resting(x, p) \/ (k.fmt # 3 /\ cs = Seen(x, k, p))
      /\ r.fmt_ = k.fmt /\ n # 0
  BY <1>1 DEF BehindBasic, InChunk
<1>3. /\ n \in Nat \ {0} /\ k \in Chunk /\ k.c \in Csids /\ st[1] \in State
      /\ Leads(st[1], k, st[1 + 1], pend) /\ x \in Mid /\ x.q = 0
      /\ Holds(b \o w, pos[1], k)
  BY <1>2, FirstChunk
<1>4. r \in Reader /\ b \in Seq(Part) /\ r.csid_ \in Csids
  BY <1>2, <1>3 DEF ReaderOK, Reader
<1> HIDE DEF x, k, p
<1>5. InFront(b, k)
  BY <1>1, <1>2, <1>3, <1>4, FrontOf
<1>6. (IF x.remain = 0 THEN Begins(x, k) ELSE Goes(x, k)) /\ k.from = k.len - Left(x, k)
  BY <1>3 DEF Leads, x
<1>7. HeaderRead(h, r, x, k, p)
  <2>1. cs.in_payload = FALSE
    <3>1. Resting(x, p).in_payload = FALSE
      BY DEF Resting
    <3>2. Seen(x, k, p).in_payload = FALSE
      BY DEF Resting, Seen
    <3> QED BY <1>2, <3>1, <3>2
  <2>2. h = IF r.fmt_ # 3 THEN ReadMsgFormat012(r, cs)
            ELSE IF cs.remain_ = 0 THEN ReadMsgFormat3New(r, cs) ELSE ReadMsgFormat3Go(r, cs)
    BY <1>1, <2>1 DEF ReadMessageHeader
  <2> HIDE DEF cs, b
  <2>3. k.len \in Nat
    BY <1>3, ChunkConstants DEF Chunk, Lens
  <2>4. CASE k.fmt # 3
    <3>1. x.remain = 0 /\ Begins(x, k)
      BY <1>6, <2>4 DEF Goes
    <3>2. k.from = 0
      BY <1>6, <2>3, <3>1 DEF Left
    <3>3. cs = Resting(x, p) \/ cs = Seen(x, k, p)
      BY <1>2
    <3>4. HeaderRead(ReadMsgFormat012(r, cs), r, x, k, p)
      BY <1>2, <1>3, <1>4, <1>5, <2>4, <3>1, <3>2, <3>3, ReadsFormat012 DEF b
    <3> QED BY <1>2, <2>2, <2>4, <3>4
  <2>5. CASE k.fmt = 3 /\ x.remain = 0
    <3>1. Begins(x, k)
      BY <1>6, <2>5
    <3>2. k.from = 0
      BY <1>6, <2>3, <2>5 DEF Left
    <3>3. cs = Resting(x, p)
      BY <1>2, <2>5
    <3>4. cs.remain_ = 0
      BY <2>5, <3>3 DEF Resting
    <3>5. HeaderRead(ReadMsgFormat3New(r, cs), r, x, k, p)
      BY <1>3, <1>4, <1>5, <2>5, <3>1, <3>2, <3>3, ReadsFormat3New DEF b
    <3> QED BY <1>2, <2>2, <2>5, <3>4, <3>5
  <2>6. CASE k.fmt = 3 /\ x.remain # 0
    <3>1. Goes(x, k)
      BY <1>6, <2>6
    <3>2. k.from = k.len - x.remain
      BY <1>6, <2>6 DEF Left
    <3>3. cs = Resting(x, p)
      BY <1>2, <2>6
    <3>4. cs.remain_ # 0
      BY <2>6, <3>3 DEF Resting
    <3>5. HeaderRead(ReadMsgFormat3Go(r, cs), r, x, k, p)
      BY <1>3, <1>4, <1>5, <2>6, <3>1, <3>2, <3>3, ReadsFormat3Go DEF b
    <3> QED BY <1>2, <2>2, <2>6, <3>4, <3>5
  <2> QED BY <2>4, <2>5, <2>6
<1>8. CASE h = More(r)
  <2>1. /\ h.more = TRUE /\ h.lost = r.lost
        /\ h.recv_buffer_ = r.recv_buffer_ /\ h.chunk_size_ = r.chunk_size_
        /\ h.csid_ = r.csid_ /\ h.cs_map_ = r.cs_map_ /\ h.fmt_ready_ = r.fmt_ready_
        /\ h.fmt_ = r.fmt_
    BY ZenonT(60), <1>4, <1>8, MoreFacts
  <2>2. At(1, h, w, pend, n, ck, pos, st)
    BY <2>1, AtSame
  <2> QED BY <2>1, <2>2
<1>9. CASE k.fmt # 3 /\ h = More(SetCs(r, Seen(x, k, p)))
  <2>1. /\ h.more = TRUE /\ h.lost = r.lost
        /\ h.recv_buffer_ = r.recv_buffer_ /\ h.chunk_size_ = r.chunk_size_
        /\ h.csid_ = r.csid_ /\ h.fmt_ready_ = r.fmt_ready_ /\ h.fmt_ = r.fmt_
        /\ h.cs_map_[r.csid_] = Seen(x, k, p)
        /\ \A c \in Csids \ {r.csid_} : h.cs_map_[c] = r.cs_map_[c]
    <3> DEFINE seen == Seen(x, k, p)
    <3>1. h = More(SetCs(r, seen)) /\ r \in Reader /\ r.csid_ \in Csids
      BY <1>4, <1>9
    <3> HIDE DEF seen
    <3>2. MoreWith(h, r, seen)
      BY <3>1, MoreSetFacts
    <3> QED BY <3>2 DEF seen, MoreWith
  <2>2. InChunk(h, n, ck)
    BY <1>2, <2>1 DEF InChunk
  <2>3. BehindBasic(h, pend, n, ck, pos, st)
    BY <1>2, <1>9, <2>1, <2>2 DEF BehindBasic, x, k, p
  <2>4. At(1, h, w, pend, n, ck, pos, st)
    BY <1>1, <2>1, <2>3 DEF At
  <2> QED BY <2>1, <2>4
<1>10. CASE /\ HeadLen(k.fmt) + ExtLen(k.ext) <= Len(b)
            /\ h = Drop(SetCs(r, Reading(x, k, p)), HeadLen(k.fmt) + ExtLen(k.ext))
  <2> DEFINE d == HeadLen(k.fmt) + ExtLen(k.ext)
             pos2 == Back(pos, d)
  <2>1. d \in Nat /\ d \in 0 .. Len(b) /\ Ahead(k) = BasicLen(k.c) + d /\ BasicLen(k.c) \in Nat
    <3>1. BasicLen(k.c) \in {1, 2} /\ HeadLen(k.fmt) \in {0, 1} /\ ExtLen(k.ext) \in {0, 1}
      BY <1>3, Widths
    <3>2. Ahead(k) = BasicLen(k.c) + HeadLen(k.fmt) + ExtLen(k.ext)
      BY <1>3, Widths
    <3>3. Len(b) \in Nat
      BY <1>4
    <3> QED BY <1>10, <3>1, <3>2, <3>3
  <2>2. h = Drop(SetCs(r, Reading(x, k, p)), d)
    BY <1>10
  <2> HIDE DEF d
  <2>3. /\ h.more = r.more /\ h.lost = r.lost
        /\ h.recv_buffer_ = SubSeq(r.recv_buffer_, d + 1, Len(r.recv_buffer_))
        /\ h.chunk_size_ = r.chunk_size_
        /\ h.csid_ = r.csid_ /\ h.fmt_ready_ = r.fmt_ready_ /\ h.fmt_ = r.fmt_
        /\ h.cs_map_[r.csid_] = Reading(x, k, p)
        /\ \A c \in Csids \ {r.csid_} : h.cs_map_[c] = r.cs_map_[c]
    BY <1>4, <2>1, <2>2, DropSetFacts
  <2>4. Run(h.recv_buffer_ \o w, pend, n, ck, pos2, st)
    <3>1. At(1, r, w, pend, n, ck, pos, st)
      OBVIOUS
    <3>2. /\ r.recv_buffer_ \in Seq(Part) /\ d \in 0 .. Len(r.recv_buffer_)
          /\ h.recv_buffer_ = SubSeq(r.recv_buffer_, d + 1, Len(r.recv_buffer_))
      BY <1>4, <2>1, <2>3
    <3> HIDE DEF b
    <3> QED BY <3>1, <3>2, RunMoved
  <2>5. pos2[1] = -Ahead(k)
    <3>1. pos2[1] = pos[1] - d
      BY DEF Back
    <3> QED BY <1>2, <2>1, <3>1
  <2> HIDE DEF pos2
  <2>6. InChunk(h, n, ck)
    BY <1>2, <2>3 DEF InChunk
  <2>7. BehindHead(h, pend, n, ck, pos2, st)
    BY <1>2, <2>3, <2>5, <2>6 DEF BehindHead, x, k, p
  <2>8. At(2, h, w, pend, n, ck, pos2, st)
    BY <1>1, <2>3, <2>4, <2>7 DEF At
  <2> QED BY <2>3, <2>8
<1> QED BY <1>7, <1>8, <1>9, <1>10 DEF HeaderRead

LEMMA HeaderWasRead ==
  ASSUME NEW r, NEW w, NEW pend, NEW n, NEW ck, NEW pos, NEW st,
         At(2, r, w, pend, n, ck, pos, st)
  PROVE  ReadMessageHeader(r) = r
<1> DEFINE k == ck[1]
<1>1. r.cs_map_[k.c] = Reading(On(st[1], k.c), k, pend[k.c]) /\ k.c = r.csid_
  BY DEF At, BehindHead, InChunk
<1>2. r.cs_map_[r.csid_].in_payload = TRUE
  BY <1>1, ReadingOf
<1> QED BY <1>2 DEF ReadMessageHeader

(* Session h is r, which has taken the basic header of chunk k.            *)
Basically(h, r, k) ==
  /\ h.more = r.more /\ h.lost = r.lost /\ h.torn = r.torn
  /\ h.recv_buffer_ = SubSeq(r.recv_buffer_, BasicLen(k.c) + 1, Len(r.recv_buffer_))
  /\ h.chunk_size_ = r.chunk_size_ /\ h.cs_map_ = r.cs_map_
  /\ h.csid_ = k.c /\ h.fmt_ready_ = TRUE /\ h.fmt_ = k.fmt

(* ReadFmtCsid, unless it tears a basic header, asks for more or reads the *)
(* basic header of the chunk.                                              *)
LEMMA BasicReads ==
  ASSUME NEW r, ReaderOK(r), ~r.more, NEW w, NEW pend \in [Csids -> Seq(Msg)],
         NEW n, NEW ck, NEW pos, NEW st, NEW ph \in 0 .. 2, At(ph, r, w, pend, n, ck, pos, st),
         NEW h, h = ReadFmtCsid(r), ~h.torn
  PROVE  \/ h.more /\ h.lost = r.lost /\ At(ph, h, w, pend, n, ck, pos, st)
         \/ ~h.more /\ \E ph2 \in 1 .. 2 : \E pos2 : At(ph2, h, w, pend, n, ck, pos2, st)
<1> DEFINE k == ck[1]
           b == r.recv_buffer_
<1>1. r \in Reader /\ b \in Seq(Part) /\ Len(b) \in Nat
  BY DEF ReaderOK, Reader
<1>2. CASE r.fmt_ready_
  <2>1. h = r
    BY <1>2 DEF ReadFmtCsid
  <2>2. ph # 0
    BY <1>2 DEF At, Before
  <2>3. ph \in 1 .. 2
    BY <2>2
  <2> QED BY <2>1, <2>3
<1>3. CASE ~r.fmt_ready_ /\ ~Require(r, 1)
  <2>1. h = More(r)
    BY <1>3 DEF ReadFmtCsid
  <2>2. /\ h.more = TRUE /\ h.lost = r.lost
        /\ h.recv_buffer_ = r.recv_buffer_ /\ h.chunk_size_ = r.chunk_size_
        /\ h.csid_ = r.csid_ /\ h.cs_map_ = r.cs_map_ /\ h.fmt_ready_ = r.fmt_ready_
        /\ h.fmt_ = r.fmt_
    BY <1>1, <2>1, MoreFacts
  <2>3. At(ph, h, w, pend, n, ck, pos, st)
    BY <2>2, AtSame
  <2> QED BY <2>2, <2>3
<1>4. CASE ~r.fmt_ready_ /\ Require(r, 1)
  <2>1. /\ w \in Seq(Part) /\ r.chunk_size_ = st[1].size /\ ~r.lost
        /\ \A c \in Csids : On(st[1], c).q = 0
        /\ Run(b \o w, pend, n, ck, pos, st)
    BY DEF At
  <2>2. ph = 0 /\ pos[1] = 0 /\ \A c \in Csids : r.cs_map_[c] = Resting(On(st[1], c), pend[c])
    BY <1>4 DEF At, Before, BehindBasic, BehindHead, InChunk
  <2>3. Len(b) >= 1
    BY <1>4 DEF Require
  <2>4. n # 0
    <3>1. Len(b \o w) >= 1
      BY <1>1, <2>1, <2>3, Concat
    <3>2. pos[n + 1] = Len(b \o w)
      BY <2>1 DEF Run
    <3>3. n = 0 => pos[n + 1] = 0
      BY <2>2
    <3> QED BY <3>1, <3>2, <3>3
  <2>5. /\ n \in Nat \ {0} /\ k \in Chunk /\ k.c \in Csids /\ Holds(b \o w, pos[1], k)
    BY <2>4, FirstChunk
  <2> HIDE DEF k
  <2>6. /\ BasicLen(k.c) = (IF k.c \in WideCsids THEN 2 ELSE 1) /\ Width(k) \in Nat \ {0}
    BY <2>5, Widths DEF BasicLen
  <2>7. b[1] = [k |-> "basic", fmt |-> k.fmt, csid |-> k.c]
    <3>1. Holds(b \o w, -0, k) /\ 0 \in Nat /\ 1 \in 1 .. Len(b) /\ 0 + 1 <= Width(k)
      BY <1>1, <2>2, <2>3, <2>5, <2>6
    <3>2. b[1] = Parts(k)[0 + 1]
      BY ZenonT(60), <1>1, <2>1, <2>5, <3>1, Found
    <3>3. Parts(k)[1] = [k |-> "basic", fmt |-> k.fmt, csid |-> k.c]
      BY <2>5, PartsOf
    <3>4. 0 + 1 = 1
      OBVIOUS
    <3> QED BY <3>2, <3>3, <3>4
  <2>8. Kind(r, 1) = "basic" /\ b[1].csid = k.c /\ b[1].fmt = k.fmt
    BY <2>7 DEF Kind
  <2>9. CASE k.c \in WideCsids /\ ~Require(r, 2)
    <3>1. h = [More(Drop(r, 1)) EXCEPT !.torn = TRUE]
      BY <1>4, <2>8, <2>9 DEF ReadFmtCsid
    <3>2. h.torn = TRUE
      BY <1>1, <3>1 DEF More, Drop, Reader
    <3> QED BY <3>2
  <2>10. CASE ~(k.c \in WideCsids /\ ~Require(r, 2))
    <3> DEFINE d == BasicLen(k.c)
               pos2 == Back(pos, d)
    <3>1. h = [Drop(r, d) EXCEPT !.fmt_ = k.fmt, !.csid_ = k.c, !.fmt_ready_ = TRUE]
      BY <1>4, <2>6, <2>8, <2>10 DEF ReadFmtCsid
    <3>2. d \in 0 .. Len(b) /\ d \in Nat
      BY <1>1, <2>3, <2>6, <2>10 DEF Require
    <3>3. Basically(h, r, k)
      <4> HIDE DEF b
      <4>1. h = [[r EXCEPT !.recv_buffer_ = SubSeq(@, d + 1, Len(@))]
                   EXCEPT !.fmt_ = k.fmt, !.csid_ = k.c, !.fmt_ready_ = TRUE]
        BY <3>1 DEF Drop
      <4> HIDE DEF d
      <4>2. /\ h.more = r.more /\ h.lost = r.lost /\ h.torn = r.torn
            /\ h.recv_buffer_ = SubSeq(r.recv_buffer_, d + 1, Len(r.recv_buffer_))
            /\ h.chunk_size_ = r.chunk_size_ /\ h.cs_map_ = r.cs_map_
            /\ h.csid_ = k.c /\ h.fmt_ready_ = TRUE /\ h.fmt_ = k.fmt
        BY <1>1, <4>1 DEF Reader
      <4> QED BY <4>2 DEF Basically, d
    <3>4. /\ ~h.more /\ ~h.lost /\ h.chunk_size_ = r.chunk_size_ /\ h.cs_map_ = r.cs_map_
          /\ h.csid_ = k.c /\ h.fmt_ready_ /\ h.fmt_ = k.fmt
          /\ h.recv_buffer_ = SubSeq(r.recv_buffer_, d + 1, Len(r.recv_buffer_))
      BY <2>1, <3>3 DEF Basically
    <3> HIDE DEF d
    <3>5. Run(h.recv_buffer_ \o w, pend, n, ck, pos2, st)
      <4>1. /\ r.recv_buffer_ \in Seq(Part) /\ d \in 0 .. Len(r.recv_buffer_)
            /\ h.recv_buffer_ = SubSeq(r.recv_buffer_, d + 1, Len(r.recv_buffer_))
        BY <1>1, <3>2, <3>4
      <4> HIDE DEF b
      <4> QED BY <4>1, RunMoved
    <3>6. pos2[1] = -BasicLen(k.c)
      <4>1. pos2[1] = pos[1] - d
        BY DEF Back
      <4> QED BY <2>2, <3>2, <4>1 DEF d
    <3> HIDE DEF pos2
    <3>7. InChunk(h, n, ck)
      BY <2>5, <3>4 DEF InChunk, k
    <3>8. BehindBasic(h, pend, n, ck, pos2, st)
      BY <2>2, <2>5, <3>4, <3>6, <3>7 DEF BehindBasic, k
    <3>9. At(1, h, w, pend, n, ck, pos2, st)
      BY <2>1, <2>2, <3>4, <3>5, <3>8 DEF At
    <3> QED BY <3>4, <3>9
  <2> QED BY <2>9, <2>10
<1> QED BY <1>2, <1>3, <1>4

-----------------------------------------------------------------------------
(* The payload of a chunk.                                                 *)

Pairs == Nat \X Nat

(* Sequences of bytes.                                                     *)
LEMMA ConcatPairs ==
  ASSUME NEW a \in Seq(Pairs), NEW b \in Seq(Pairs)
  PROVE  /\ a \o b \in Seq(Pairs) /\ Len(a \o b) = Len(a) + Len(b)
         /\ Len(a) \in Nat /\ Len(b) \in Nat
         /\ \A i \in 1 .. Len(a) : (a \o b)[i] = a[i]
         /\ \A i \in 1 .. Len(b) : (a \o b)[Len(a) + i] = b[i]
<1>1. Len(a) \in Nat /\ Len(b) \in Nat /\ Len(a \o b) = Len(a) + Len(b) /\ a \o b \in Seq(Pairs)
  OBVIOUS
<1>2. \A i \in 1 .. Len(a) : (a \o b)[i] = a[i]
  OBVIOUS
<1>3. \A i \in 1 .. Len(b) : (a \o b)[Len(a) + i] = b[i]
  OBVIOUS
<1> QED BY <1>1, <1>2, <1>3

LEMMA SamePairs ==
  ASSUME NEW a \in Seq(Pairs), NEW b \in Seq(Pairs), Len(a) = Len(b),
         \A i \in 1 .. Len(a) : a[i] = b[i]
  PROVE  a = b
  OBVIOUS

(* Bytes of message id: d of them, behind the first from.                  *)
Stretch(id, from, d) == [i \in 1 .. d |-> <<id, from + i>>]
Body(id, len) == [i \in 1 .. len |-> <<id, i>>]

LEMMA Collected ==
  ASSUME NEW k \in Chunk, k.from + k.n <= k.len
  PROVE  SubSeq(Body(k.id, k.len), 1, k.from) \o Stretch(k.id, k.from, k.n)
           = SubSeq(Body(k.id, k.len), 1, k.from + k.n)
<1> DEFINE id == k.id
           len == k.len
           from == k.from
           d == k.n
<1>11. id \in Nat /\ len \in Nat /\ from \in Nat /\ d \in Nat /\ from + d <= len
  BY ChunkConstants DEF Chunk, Lens
<1> HIDE DEF id, len, from, d
<1> DEFINE body == Body(id, len)
           a == SubSeq(body, 1, from)
           more == Stretch(id, from, d)
           all == SubSeq(body, 1, from + d)
<1>0. \A i \in Nat : <<id, i>> \in Pairs
  BY <1>11 DEF Pairs
<1>1. body \in Seq(Pairs) /\ Len(body) = len /\ \A i \in 1 .. len : body[i] = <<id, i>>
  BY <1>0, <1>11 DEF Body
<1> HIDE DEF body
<1>2. a = [i \in 1 .. from |-> <<id, i>>]
  <2>1. \A i \in 1 .. from : body[i] = <<id, i>>
    BY <1>1, <1>11
  <2> QED BY <1>1, <1>11, <2>1
<1>3. all = [i \in 1 .. from + d |-> <<id, i>>]
  <2>1. \A i \in 1 .. from + d : body[i] = <<id, i>>
    BY <1>1, <1>11
  <2> QED BY <1>1, <1>11, <2>1
<1>4. more = [i \in 1 .. d |-> <<id, from + i>>]
  BY DEF Stretch
<1> HIDE DEF a, more, all
<1>5. a \in Seq(Pairs) /\ Len(a) = from /\ \A i \in 1 .. from : a[i] = <<id, i>>
  BY <1>0, <1>2, <1>11
<1>6. /\ more \in Seq(Pairs) /\ Len(more) = d
      /\ \A i \in 1 .. d : more[i] = <<id, from + i>>
  <2>1. \A i \in 1 .. d : <<id, from + i>> \in Pairs
    BY <1>0, <1>11
  <2>5. more \in [1 .. d -> Pairs]
    BY <1>4, <2>1
  <2>2. more \in Seq(Pairs)
    BY <1>11, <2>5
  <2>3. Len(more) = d
    BY <1>4, <1>11
  <2>4. \A i \in 1 .. d : more[i] = <<id, from + i>>
    BY <1>4, <1>11
  <2> QED BY <2>2, <2>3, <2>4
<1>7. /\ all \in Seq(Pairs) /\ Len(all) = from + d
      /\ \A i \in 1 .. from + d : all[i] = <<id, i>>
  BY <1>0, <1>3, <1>11
<1>8. /\ a \o more \in Seq(Pairs) /\ Len(a \o more) = from + d
      /\ \A i \in 1 .. from : (a \o more)[i] = a[i]
      /\ \A i \in 1 .. d : (a \o more)[from + i] = more[i]
  BY <1>5, <1>6, <1>11, ConcatPairs
<1>9. ASSUME NEW i \in 1 .. from + d PROVE (a \o more)[i] = all[i]
  <2>1. CASE i <= from
    <3>1. i \in 1 .. from
      BY <1>11, <2>1
    <3>2. (a \o more)[i] = a[i]
      BY <1>8, <3>1
    <3>3. a[i] = <<id, i>>
      BY <1>5, <3>1
    <3>4. all[i] = <<id, i>>
      BY <1>7
    <3> QED BY <3>2, <3>3, <3>4
  <2>2. CASE i > from
    <3>1. PICK j \in 1 .. d : i = from + j
      <4>1. i - from \in 1 .. d /\ i = from + (i - from)
        BY <1>11, <2>2
      <4> QED BY <4>1
    <3>2. (a \o more)[from + j] = more[j]
      BY <1>8
    <3>3. more[j] = <<id, from + j>>
      BY <1>6
    <3>4. all[i] = <<id, i>>
      BY <1>7
    <3> QED
      <4>1. (a \o more)[i] = <<id, from + j>>
        BY <3>1, <3>2, <3>3
      <4>2. all[i] = <<id, from + j>>
        BY <3>1, <3>4
      <4> QED BY <4>1, <4>2
  <2>3. i <= from \/ i > from
    BY <1>11
  <2> QED BY <2>1, <2>2, <2>3
<1>10. a \o more = all
  BY <1>7, <1>8, <1>9, <1>11, SamePairs
<1> QED BY <1>10 DEF a, more, all, body, id, len, from, d

(* The ChunkStream behind a chunk, with d as the data.                     *)
Filled(x, k, d, ready) ==
  [fmt_ |-> k.fmt, ext_ts_flag_ |-> Flagged(x, k), timestamp32_ |-> k.mts,
   timestamp_delta_ |-> Delta(x, k), kind |-> k.kind, msg_len_ |-> k.len,
   remain_ |-> Left(x, k) - k.n, in_payload |-> FALSE, data |-> d, ready |-> ready]

Fill(cs, d, n) ==
  [cs EXCEPT !.data = d, !.remain_ = @ - n, !.ready = @ \/ cs.remain_ = n, !.in_payload = FALSE]

(* The ChunkStream when the payload is in, field by field.                 *)
LEMMA FilledOf ==
  ASSUME NEW x, NEW k, NEW p, NEW d
  PROVE  Fill(Reading(x, k, p), d, k.n) = Filled(x, k, d, Left(x, k) = k.n)
<1> DEFINE f == k.fmt
           e == Flagged(x, k)
           t == k.mts
           dt == Delta(x, k)
           kd == k.kind
           l == k.len
           left == Left(x, k)
           old == SubSeq(p[1].body, 1, k.from)
           n == k.n
           rest == left - n
           full == left = n
           cs == Reading(x, k, p)
           y == Fill(cs, d, n)
<1>1. cs = [fmt_ |-> f, ext_ts_flag_ |-> e, timestamp32_ |-> t, timestamp_delta_ |-> dt,
            kind |-> kd, msg_len_ |-> l, remain_ |-> left, in_payload |-> TRUE, data |-> old,
            ready |-> FALSE]
  BY ReadingOf
<1>2. cs.remain_ = left /\ cs.ready = FALSE
  BY <1>1
<1>3. (cs.ready \/ cs.remain_ = n) = full /\ cs.remain_ - n = rest
  BY <1>2
<1>4. y = [cs EXCEPT !.data = d, !.remain_ = rest, !.ready = full, !.in_payload = FALSE]
  BY <1>3 DEF Fill
<1> HIDE DEF f, e, t, dt, kd, l, left, old, rest, full, n, cs, y
<1>5. y = [fmt_ |-> f, ext_ts_flag_ |-> e, timestamp32_ |-> t, timestamp_delta_ |-> dt,
           kind |-> kd, msg_len_ |-> l, remain_ |-> rest, in_payload |-> FALSE, data |-> d,
           ready |-> full]
  BY ONLY <1>1, <1>4
<1> QED BY <1>5 DEF f, e, t, dt, kd, l, left, rest, full, n, cs, y, Filled

LEMMA RestingClosed ==
  ASSUME NEW x, NEW k, NEW p, NEW y, y.fmt = k.fmt, y.flag = Flagged(x, k), y.ts = k.mts,
         y.delta = Delta(x, k), y.kind = k.kind, y.len = k.len, y.remain = Left(x, k) - k.n
  PROVE  Resting(y, p) =
           Filled(x, k, IF y.remain = 0 THEN <<>> ELSE SubSeq(p[1].body, 1, y.len - y.remain),
                  FALSE)
<1> DEFINE d == IF y.remain = 0 THEN <<>> ELSE SubSeq(p[1].body, 1, y.len - y.remain)
<1>1. Resting(y, p) =
        [fmt_ |-> y.fmt, ext_ts_flag_ |-> y.flag, timestamp32_ |-> y.ts,
         timestamp_delta_ |-> y.delta, kind |-> y.kind, msg_len_ |-> y.len,
         remain_ |-> y.remain, in_payload |-> FALSE, data |-> d, ready |-> FALSE]
  BY DEF Resting
<1> HIDE DEF d
<1>2. Resting(y, p) = Filled(x, k, d, FALSE)
  BY <1>1 DEF Filled
<1> QED BY <1>2 DEF d

(* Session h is r, which has taken the payload of a chunk, d parts.        *)
TakenWith(h, r, cs, d) ==
  /\ h.more = r.more /\ h.lost = r.lost /\ h.torn = r.torn
  /\ h.recv_buffer_ = SubSeq(r.recv_buffer_, d + 1, Len(r.recv_buffer_))
  /\ h.chunk_size_ = r.chunk_size_ /\ h.csid_ = r.csid_ /\ h.fmt_ready_ = FALSE
  /\ h.cs_map_[r.csid_] = cs
  /\ \A c \in Csids \ {r.csid_} : h.cs_map_[c] = r.cs_map_[c]

LEMMA TakenWithFacts ==
  ASSUME NEW r \in Reader, r.csid_ \in Csids, NEW cs, NEW d
  PROVE  TakenWith([Drop(SetCs(r, cs), d) EXCEPT !.fmt_ready_ = FALSE], r, cs, d)
  BY DEF Drop, SetCs, Reader, TakenWith

(* Session h is r, which has read the payload of chunk k.                  *)
PayloadRead(h, r, x, k, body) ==
  /\ k.n <= Len(r.recv_buffer_)
  /\ TakenWith(h, r, Filled(x, k, SubSeq(body, 1, k.from + k.n), Left(x, k) = k.n), k.n)

(* ReadMessagePayload takes the whole payload of the chunk or asks for     *)
(* more.                                                                   *)
LEMMA PayloadIsRead ==
  ASSUME NEW r \in Reader, ~r.more, ~r.lost, r.csid_ \in Csids, NEW w \in Seq(Part),
         NEW k \in Chunk, NEW x \in Mid, NEW p,
         Holds(r.recv_buffer_ \o w, -Ahead(k), k), r.cs_map_[r.csid_] = Reading(x, k, p),
         k.n = Less(r.chunk_size_, Left(x, k)), k.from + k.n <= k.len,
         p[1] = Message(k.id, k.kind, k.mts, k.len)
  PROVE  \/ ReadMessagePayload(r) = More(r)
         \/ PayloadRead(ReadMessagePayload(r), r, x, k, p[1].body)
<1> DEFINE cs == r.cs_map_[r.csid_]
           b == r.recv_buffer_
           n == Less(cs.remain_, r.chunk_size_)
           part == SubSeq(b, 1, n)
           d == cs.data \o [i \in 1..n |-> part[i].of]
           y == Fill(cs, d, n)
<1>1. /\ b \in Seq(Part) /\ Len(b) \in Nat /\ k.n \in Nat \ {0} /\ k.from \in Nat
      /\ k.id \in Nat /\ k.kind \in Kinds /\ k.mts \in Nat /\ k.len \in Nat
  BY ChunkConstants DEF Reader, Chunk, Lens
<1>2. cs.remain_ = Left(x, k) /\ cs.data = SubSeq(p[1].body, 1, k.from)
  BY ReadingOf
<1>3. Left(x, k) \in Nat /\ r.chunk_size_ \in Nat
  BY <1>1, ChunkConstants DEF Left, Mid, Reader, Sizes
<1>4. n = k.n
  BY <1>2, <1>3 DEF Less
<1> HIDE DEF n
<1>5. CASE ~Require(r, n)
  BY <1>5 DEF ReadMessagePayload, n
<1>6. CASE Require(r, n)
  <2>1. n \in 0 .. Len(b)
    BY <1>1, <1>4, <1>6 DEF Require
  <2>2. ASSUME NEW i \in 1 .. n PROVE part[i].k = "pay" /\ part[i].of = <<k.id, k.from + i>>
    <3>1. part[i] = b[i]
      BY <1>1, <2>1, Split
    <3>2. /\ Ahead(k) \in Nat /\ i \in 1 .. Len(b) /\ Ahead(k) + i <= Width(k) /\ i \in 1 .. k.n
      <4>1. Ahead(k) \in Nat /\ Width(k) = Ahead(k) + k.n
        BY Widths
      <4> QED BY <1>1, <1>4, <2>1, <4>1
    <3>3. b[i] = Parts(k)[Ahead(k) + i]
      BY <1>1, <3>2, Found
    <3>4. Parts(k)[Ahead(k) + i] = [k |-> "pay", of |-> <<k.id, k.from + i>>]
      BY <3>2, PartsOf
    <3>5. part[i] = [k |-> "pay", of |-> <<k.id, k.from + i>>]
      BY <3>1, <3>3, <3>4
    <3> HIDE DEF part
    <3> QED BY <3>5
  <2> HIDE DEF part
  <2>3. /\ ~\E i \in 1..n : part[i].k # "pay"
        /\ \A i \in 1 .. n : part[i].of = <<k.id, k.from + i>>
    BY <2>2
  <2> HIDE DEF part
  <2>4. d = SubSeq(p[1].body, 1, k.from + k.n)
    <3>1. p[1].body = Body(k.id, k.len)
      BY DEF Message, Body
    <3>2. [i \in 1 .. n |-> part[i].of] = Stretch(k.id, k.from, n)
      BY <2>3 DEF Stretch
    <3>4. SubSeq(Body(k.id, k.len), 1, k.from) \o Stretch(k.id, k.from, k.n)
            = SubSeq(Body(k.id, k.len), 1, k.from + k.n)
      BY Collected
    <3> QED BY <1>2, <1>4, <3>1, <3>2, <3>4
  <2>5. ReadMessagePayload(r) = [Drop(SetCs(r, y), n) EXCEPT !.fmt_ready_ = FALSE]
    BY <1>6, <2>3 DEF ReadMessagePayload, n, part, Fill
  <2>6. y = Filled(x, k, d, Left(x, k) = n)
    <3> HIDE DEF d
    <3>1. Fill(Reading(x, k, p), d, k.n) = Filled(x, k, d, Left(x, k) = k.n)
      BY FilledOf
    <3> QED BY <1>4, <3>1
  <2> HIDE DEF y, d
  <2>7. TakenWith(ReadMessagePayload(r), r, y, n)
    BY <2>5, TakenWithFacts
  <2> QED BY <1>4, <2>1, <2>4, <2>6, <2>7 DEF PayloadRead
<1> QED BY <1>5, <1>6

-----------------------------------------------------------------------------
(* Types of the reader.                                                    *)

(* A part of a kind has the fields of that kind.                           *)
LEMMA Kinds4 ==
  ASSUME NEW q \in Part
  PROVE  /\ q.k = "basic" => q.fmt \in 0 .. 3 /\ q.csid \in Csids
         /\ q.k = "head" => q.ts \in Nat /\ q.len \in Lens /\ q.kind \in Kinds
         /\ q.k = "ext" => q.ts \in Nat
         /\ q.k = "pay" => q.of \in Nat \X Nat
<1>1. CASE q \in [k : {"basic"}, fmt : 0 .. 3, csid : Csids]
  BY <1>1
<1>2. CASE q \in [k : {"csid"}]
  BY <1>2
<1>3. CASE q \in [k : {"head"}, ts : Nat, len : Lens, kind : Kinds]
  BY <1>3
<1>4. CASE q \in [k : {"ext"}, ts : Nat]
  BY <1>4
<1>5. CASE q \in [k : {"pay"}, of : Nat \X Nat]
  BY <1>5
<1> QED BY <1>1, <1>2, <1>3, <1>4, <1>5 DEF Part

(* A ChunkStream that is no longer than its message.                       *)
CsOK(cs) == cs \in Cs /\ cs.remain_ <= cs.msg_len_

LEMMA MoreTypes ==
  ASSUME NEW r, ReaderOK(r)
  PROVE  /\ ReaderOK(More(r)) /\ More(r).more = TRUE /\ More(r).csid_ = r.csid_
         /\ More(r).torn = r.torn
<1>1. r \in Reader
  BY DEF ReaderOK
<1>2. More(r) \in Reader /\ More(r).more = TRUE
  BY <1>1 DEF More, Reader
<1>3. /\ More(r).csid_ = r.csid_ /\ More(r).torn = r.torn
      /\ More(r).cs_map_ = r.cs_map_ /\ More(r).fmt_ready_ = r.fmt_ready_
  BY <1>1 DEF More, Reader
<1> QED BY <1>2, <1>3 DEF ReaderOK

LEMMA LostTypes ==
  ASSUME NEW r, ReaderOK(r)
  PROVE  /\ ReaderOK(Lost(r)) /\ Lost(r).lost = TRUE /\ Lost(r).csid_ = r.csid_
         /\ Lost(r).torn = r.torn
<1>1. r \in Reader
  BY DEF ReaderOK
<1>2. Lost(r) \in Reader /\ Lost(r).lost = TRUE
  BY <1>1 DEF Lost, Reader
<1>3. /\ Lost(r).csid_ = r.csid_ /\ Lost(r).torn = r.torn
      /\ Lost(r).cs_map_ = r.cs_map_ /\ Lost(r).fmt_ready_ = r.fmt_ready_
  BY <1>1 DEF Lost, Reader
<1> QED BY <1>2, <1>3 DEF ReaderOK

LEMMA DropTypes ==
  ASSUME NEW r, ReaderOK(r), NEW d \in Nat
  PROVE  /\ ReaderOK(Drop(r, d)) /\ Drop(r, d).csid_ = r.csid_ /\ Drop(r, d).torn = r.torn
         /\ Drop(r, d).cs_map_ = r.cs_map_
<1>1. r \in Reader /\ r.recv_buffer_ \in Seq(Part)
  BY DEF ReaderOK, Reader
<1>2. SubSeq(r.recv_buffer_, d + 1, Len(r.recv_buffer_)) \in Seq(Part)
  BY <1>1
<1>3. Drop(r, d) \in Reader
  BY <1>1, <1>2 DEF Drop, Reader
<1>4. /\ Drop(r, d).csid_ = r.csid_ /\ Drop(r, d).torn = r.torn
      /\ Drop(r, d).cs_map_ = r.cs_map_ /\ Drop(r, d).fmt_ready_ = r.fmt_ready_
  BY <1>1 DEF Drop, Reader
<1> QED BY <1>3, <1>4 DEF ReaderOK

LEMMA SetTypes ==
  ASSUME NEW r, ReaderOK(r), r.csid_ \in Csids, NEW cs, CsOK(cs)
  PROVE  /\ ReaderOK(SetCs(r, cs)) /\ SetCs(r, cs).csid_ = r.csid_
         /\ SetCs(r, cs).torn = r.torn
<1>1. r \in Reader /\ cs \in Cs
  BY DEF ReaderOK, CsOK
<1>2. SetCs(r, cs) \in Reader
  BY <1>1 DEF SetCs, Reader
<1>3. /\ SetCs(r, cs).csid_ = r.csid_ /\ SetCs(r, cs).torn = r.torn
      /\ SetCs(r, cs).fmt_ready_ = r.fmt_ready_
      /\ SetCs(r, cs).cs_map_ = [r.cs_map_ EXCEPT ![r.csid_] = cs]
      /\ r.cs_map_ \in [Csids -> Cs]
  BY <1>1 DEF SetCs, Reader
<1>4. \A c \in Csids : SetCs(r, cs).cs_map_[c].remain_ <= SetCs(r, cs).cs_map_[c].msg_len_
  <2>1. TAKE c \in Csids
  <2>2. CASE c = r.csid_
    BY <1>3, <2>2 DEF CsOK
  <2>3. CASE c # r.csid_
    BY <1>3, <2>3 DEF ReaderOK
  <2> QED BY <2>2, <2>3
<1> QED BY <1>2, <1>3, <1>4 DEF ReaderOK

(* Session h is the outcome of a call in session r.                        *)
Typed(h, r) == ReaderOK(h) /\ h.csid_ = r.csid_ /\ h.torn = r.torn

LEMMA TypedOutcomes ==
  ASSUME NEW r, ReaderOK(r), r.csid_ \in Csids
  PROVE  /\ Typed(r, r) /\ Typed(More(r), r) /\ Typed(Lost(r), r)
         /\ \A cs : CsOK(cs) => /\ Typed(More(SetCs(r, cs)), r)
                                /\ \A d \in Nat : Typed(Drop(SetCs(r, cs), d), r)
<1>1. Typed(r, r)
  BY DEF Typed
<1>2. Typed(More(r), r)
  BY MoreTypes DEF Typed
<1>3. Typed(Lost(r), r)
  BY LostTypes DEF Typed
<1>4. ASSUME NEW cs, CsOK(cs) PROVE Typed(More(SetCs(r, cs)), r)
  <2> DEFINE s == SetCs(r, cs)
  <2>1. ReaderOK(s) /\ s.csid_ = r.csid_ /\ s.torn = r.torn
    BY <1>4, SetTypes
  <2> HIDE DEF s
  <2>2. ReaderOK(More(s)) /\ More(s).csid_ = s.csid_ /\ More(s).torn = s.torn
    BY <2>1, MoreTypes
  <2>3. Typed(More(s), r)
    BY <2>1, <2>2 DEF Typed
  <2> QED BY <2>3 DEF s
<1>5. ASSUME NEW cs, CsOK(cs), NEW d \in Nat PROVE Typed(Drop(SetCs(r, cs), d), r)
  <2> DEFINE s == SetCs(r, cs)
  <2>1. ReaderOK(s) /\ s.csid_ = r.csid_ /\ s.torn = r.torn
    BY <1>5, SetTypes
  <2> HIDE DEF s
  <2>2. ReaderOK(Drop(s, d)) /\ Drop(s, d).csid_ = s.csid_ /\ Drop(s, d).torn = s.torn
    BY <2>1, DropTypes
  <2>3. Typed(Drop(s, d), r)
    BY <2>1, <2>2 DEF Typed
  <2> QED BY <2>3 DEF s
<1> QED BY <1>1, <1>2, <1>3, <1>4, <1>5

(* Each reader keeps the types, whatever is in the buffer.                 *)
LEMMA Format012Types ==
  ASSUME NEW r, ReaderOK(r), r.csid_ \in Csids, NEW cs, CsOK(cs)
  PROVE  Typed(ReadMsgFormat012(r, cs), r)
<1> DEFINE b == r.recv_buffer_
           hd == b[1]
           ext == hd.ts >= ExtTs
           seen == [cs EXCEPT !.fmt_ = r.fmt_, !.ext_ts_flag_ = @ \/ ext]
           ts == IF ext THEN b[2].ts ELSE hd.ts
           len == IF r.fmt_ = 2 THEN cs.msg_len_ ELSE hd.len
           new == [seen EXCEPT
                     !.timestamp32_ = IF r.fmt_ = 0 THEN ts ELSE @ + ts,
                     !.timestamp_delta_ = IF r.fmt_ = 0 THEN 0 ELSE ts,
                     !.kind = IF r.fmt_ = 2 THEN @ ELSE hd.kind,
                     !.msg_len_ = len, !.remain_ = len, !.in_payload = TRUE]
<1>1. b \in Seq(Part) /\ r.fmt_ \in 0 .. 3 /\ cs \in Cs /\ Len(b) \in Nat
  BY DEF ReaderOK, Reader, CsOK
<1>2. CASE ~Require(r, 1)
  BY <1>2, TypedOutcomes DEF ReadMsgFormat012
<1>3. CASE Kind(r, 1) # "head"
  BY <1>3, TypedOutcomes DEF ReadMsgFormat012
<1>4. CASE Require(r, 1) /\ Kind(r, 1) = "head"
  <2>1. hd \in Part /\ hd.k = "head"
    BY <1>1, <1>4 DEF Require, Kind
  <2>2. hd.ts \in Nat /\ hd.len \in 0 .. MaxLen /\ hd.kind \in Kinds
    <3>1. hd.ts \in Nat /\ hd.len \in Lens /\ hd.kind \in Kinds
      BY <2>1, Kinds4
    <3> QED BY <3>1, ChunkConstants DEF Lens
  <2>3. ext \in BOOLEAN
    OBVIOUS
  <2>4. CsOK(seen)
    <3>1. cs.ext_ts_flag_ \in BOOLEAN /\ (cs.ext_ts_flag_ \/ ext) \in BOOLEAN
      BY <1>1 DEF Cs
    <3> HIDE DEF ext
    <3>2. seen \in Cs /\ seen.remain_ = cs.remain_ /\ seen.msg_len_ = cs.msg_len_
      BY <1>1, <3>1 DEF Cs
    <3> QED BY <3>2 DEF CsOK
  <2> HIDE DEF ext, seen
  <2>5. CASE ext /\ ~Require(r, 2)
    <3>1. ReadMsgFormat012(r, cs) = More(SetCs(r, seen))
      BY <1>4, <2>5 DEF ReadMsgFormat012, ext, seen
    <3> QED BY <2>4, <3>1, TypedOutcomes
  <2>6. CASE ext /\ Require(r, 2) /\ Kind(r, 2) # "ext"
    <3>1. ReadMsgFormat012(r, cs) = Lost(r)
      BY <1>4, <2>6 DEF ReadMsgFormat012, ext
    <3> QED BY <3>1, TypedOutcomes
  <2>7. CASE ~ext \/ (Require(r, 2) /\ Kind(r, 2) = "ext")
    <3>1. ReadMsgFormat012(r, cs) = Drop(SetCs(r, new), IF ext THEN 2 ELSE 1)
      BY <1>4, <2>7 DEF ReadMsgFormat012, ext, seen
    <3>2. ts \in Nat
      <4>1. CASE ~ext
        BY <2>2, <4>1
      <4>2. CASE ext
        <5>1. b[2] \in Part /\ b[2].k = "ext"
          BY <1>1, <2>7, <4>2 DEF Require, Kind
        <5> QED BY <4>2, <5>1, Kinds4
      <4> QED BY <4>1, <4>2
    <3>3. len \in 0 .. MaxLen
      BY <1>1, <2>2 DEF Cs
    <3> HIDE DEF ts, len, hd
    <3>4. seen \in Cs
      BY <2>4 DEF CsOK
    <3>5. CsOK(new)
      <4> DEFINE at == IF r.fmt_ = 0 THEN ts ELSE seen.timestamp32_ + ts
                 delta == IF r.fmt_ = 0 THEN 0 ELSE ts
                 kind == IF r.fmt_ = 2 THEN seen.kind ELSE hd.kind
      <4>3. at \in Nat /\ delta \in Nat /\ kind \in Kinds
        BY <2>2, <3>2, <3>4 DEF Cs
      <4>4. new = [seen EXCEPT !.timestamp32_ = at, !.timestamp_delta_ = delta, !.kind = kind,
                               !.msg_len_ = len, !.remain_ = len, !.in_payload = TRUE]
        OBVIOUS
      <4> HIDE DEF new, at, delta, kind
      <4>1. new \in Cs
        BY <3>3, <3>4, <4>3, <4>4 DEF Cs
      <4>2. new.remain_ = len /\ new.msg_len_ = len
        BY <3>4, <4>4 DEF Cs
      <4> QED BY <3>3, <4>1, <4>2, ChunkConstants DEF CsOK
    <3> HIDE DEF new
    <3>6. (IF ext THEN 2 ELSE 1) \in Nat
      OBVIOUS
    <3> QED BY <3>1, <3>5, <3>6, TypedOutcomes
  <2> QED BY <2>5, <2>6, <2>7
<1> QED BY <1>2, <1>3, <1>4

LEMMA Format3NewTypes ==
  ASSUME NEW r, ReaderOK(r), r.csid_ \in Csids, NEW cs, CsOK(cs)
  PROVE  Typed(ReadMsgFormat3New(r, cs), r)
<1> DEFINE b == r.recv_buffer_
           reads == cs.fmt_ \in 0..2 /\ cs.ext_ts_flag_
           begun == [cs EXCEPT !.data = <<>>, !.ready = FALSE, !.remain_ = cs.msg_len_,
                               !.fmt_ = 3, !.in_payload = TRUE]
           ts == IF reads THEN b[1].ts ELSE cs.timestamp_delta_
           new == [begun EXCEPT !.timestamp32_ =
                     IF cs.fmt_ \in {1, 2} THEN @ + ts ELSE IF reads THEN ts ELSE @]
<1>1. b \in Seq(Part) /\ cs \in Cs /\ Len(b) \in Nat
  BY DEF ReaderOK, Reader, CsOK
<1>2. CASE reads /\ ~RequireExt(r)
  BY <1>2, TypedOutcomes DEF ReadMsgFormat3New
<1>3. CASE reads /\ RequireExt(r) /\ Kind(r, 1) # "ext"
  BY <1>3, TypedOutcomes DEF ReadMsgFormat3New
<1>4. CASE ~reads \/ (RequireExt(r) /\ Kind(r, 1) = "ext")
  <2>1. ReadMsgFormat3New(r, cs) = Drop(SetCs(r, new), IF reads THEN 1 ELSE 0)
    BY <1>4 DEF ReadMsgFormat3New
  <2>2. ts \in Nat
    <3>1. CASE ~reads
      BY <1>1, <3>1 DEF Cs
    <3>2. CASE reads
      <4>1. b[1] \in Part /\ b[1].k = "ext"
        BY <1>1, <1>4, <3>2 DEF RequireExt, Require, Kind
      <4>2. b[1].ts \in Nat
        BY <4>1, Kinds4
      <4> QED BY <3>2, <4>2
    <3> QED BY <3>1, <3>2
  <2>3. begun \in Cs /\ begun.remain_ = cs.msg_len_ /\ begun.msg_len_ = cs.msg_len_
    <3> DEFINE three == 3
               none == <<>>
    <3>1. none \in Seq(Nat \X Nat) /\ three \in 0 .. 3
      OBVIOUS
    <3>2. begun = [cs EXCEPT !.data = none, !.ready = FALSE, !.remain_ = cs.msg_len_,
                             !.fmt_ = three, !.in_payload = TRUE]
      OBVIOUS
    <3> HIDE DEF begun, three, none
    <3> QED BY <1>1, <3>1, <3>2 DEF Cs
  <2> HIDE DEF begun, ts
  <2>4. CsOK(new)
    <3> DEFINE at == IF cs.fmt_ \in {1, 2} THEN begun.timestamp32_ + ts
                     ELSE IF reads THEN ts ELSE begun.timestamp32_
    <3>4. at \in Nat
      BY <2>2, <2>3 DEF Cs
    <3>5. new = [begun EXCEPT !.timestamp32_ = at]
      OBVIOUS
    <3> HIDE DEF at, new
    <3>1. new \in Cs
      BY <2>3, <3>4, <3>5 DEF Cs
    <3>2. new.remain_ = cs.msg_len_ /\ new.msg_len_ = cs.msg_len_
      BY <2>3, <3>5 DEF Cs
    <3>3. cs.msg_len_ <= cs.msg_len_
      BY <1>1, ChunkConstants DEF Cs
    <3> QED BY <3>1, <3>2, <3>3 DEF CsOK
  <2> HIDE DEF new
  <2>5. (IF reads THEN 1 ELSE 0) \in Nat
    OBVIOUS
  <2> QED BY <2>1, <2>4, <2>5, TypedOutcomes
<1> QED BY <1>2, <1>3, <1>4

LEMMA Format3GoTypes ==
  ASSUME NEW r, ReaderOK(r), r.csid_ \in Csids, NEW cs, CsOK(cs)
  PROVE  Typed(ReadMsgFormat3Go(r, cs), r)
<1> DEFINE new == [cs EXCEPT !.fmt_ = 3, !.in_payload = TRUE]
           d == IF cs.ext_ts_flag_ /\ Kind(r, 1) = "ext"
                   /\ r.recv_buffer_[1].ts = cs.timestamp32_ THEN 1 ELSE 0
<1>1. CsOK(new)
  <2>1. cs \in Cs
    BY DEF CsOK
  <2> DEFINE three == 3
  <2>3. three \in 0 .. 3 /\ new = [cs EXCEPT !.fmt_ = three, !.in_payload = TRUE]
    OBVIOUS
  <2> HIDE DEF new, three
  <2>2. new \in Cs /\ new.remain_ = cs.remain_ /\ new.msg_len_ = cs.msg_len_
    BY <2>1, <2>3 DEF Cs
  <2> QED BY <2>2 DEF CsOK
<1>2. d \in Nat
  OBVIOUS
<1>3. \/ ReadMsgFormat3Go(r, cs) = More(r)
      \/ ReadMsgFormat3Go(r, cs) = Drop(SetCs(r, new), d)
  BY DEF ReadMsgFormat3Go
<1> HIDE DEF new, d
<1> QED BY <1>1, <1>2, <1>3, TypedOutcomes

LEMMA HeaderTypes ==
  ASSUME NEW r, ReaderOK(r), r.more \/ r.lost \/ r.csid_ \in Csids
  PROVE  Typed(ReadMessageHeader(r), r)
<1> DEFINE cs == r.cs_map_[r.csid_]
<1>1. CASE r.more \/ r.lost
  BY <1>1 DEF ReadMessageHeader, Typed
<1>2. CASE ~(r.more \/ r.lost)
  <2>1. r.csid_ \in Csids
    BY <1>2
  <2>2. CsOK(cs)
    BY <2>1 DEF ReaderOK, Reader, CsOK
  <2> HIDE DEF cs
  <2>3. /\ Typed(r, r) /\ Typed(ReadMsgFormat012(r, cs), r)
        /\ Typed(ReadMsgFormat3New(r, cs), r) /\ Typed(ReadMsgFormat3Go(r, cs), r)
    BY <2>1, <2>2, TypedOutcomes, Format012Types, Format3NewTypes, Format3GoTypes
  <2>4. \/ ReadMessageHeader(r) = r \/ ReadMessageHeader(r) = ReadMsgFormat012(r, cs)
        \/ ReadMessageHeader(r) = ReadMsgFormat3New(r, cs)
        \/ ReadMessageHeader(r) = ReadMsgFormat3Go(r, cs)
    BY DEF ReadMessageHeader, cs
  <2> QED BY <2>3, <2>4
<1> QED BY <1>1, <1>2

LEMMA BasicTypes ==
  ASSUME NEW r, ReaderOK(r)
  PROVE  LET h == ReadFmtCsid(r) IN
         /\ ReaderOK(h) /\ (h.more \/ h.lost \/ h.csid_ \in Csids) /\ (r.torn => h.torn)
<1> DEFINE h == ReadFmtCsid(r)
           b == r.recv_buffer_
<1>1. CASE r.fmt_ready_
  BY <1>1 DEF ReadFmtCsid, ReaderOK
<1>2. CASE ~r.fmt_ready_ /\ ~Require(r, 1)
  <2>1. h = More(r)
    BY <1>2 DEF ReadFmtCsid
  <2>2. ReaderOK(More(r)) /\ More(r).more = TRUE /\ More(r).torn = r.torn
    BY MoreTypes
  <2> QED BY <2>1, <2>2
<1>3. CASE ~r.fmt_ready_ /\ Require(r, 1) /\ Kind(r, 1) # "basic"
  <2>1. h = Lost(r)
    BY <1>3 DEF ReadFmtCsid
  <2>2. ReaderOK(Lost(r)) /\ Lost(r).lost = TRUE /\ Lost(r).torn = r.torn
    BY LostTypes
  <2> QED BY <2>1, <2>2
<1>4. CASE ~r.fmt_ready_ /\ Require(r, 1) /\ Kind(r, 1) = "basic"
  <2>1. r \in Reader /\ b[1] \in Part /\ b[1].k = "basic"
    BY <1>4 DEF Require, Kind, ReaderOK, Reader
  <2>2. b[1].fmt \in 0 .. 3 /\ b[1].csid \in Csids
    BY <2>1, Kinds4
  <2> DEFINE wide == b[1].csid \in WideCsids
  <2>3. CASE wide /\ ~Require(r, 2)
    <3> DEFINE m == More(Drop(r, 1))
    <3>1. h = [m EXCEPT !.torn = TRUE]
      BY <1>4, <2>3 DEF ReadFmtCsid
    <3>2. ReaderOK(Drop(r, 1))
      BY DropTypes
    <3>3. ReaderOK(m) /\ m.more = TRUE
      BY <3>2, MoreTypes
    <3>4. m \in Reader
      BY <3>3 DEF ReaderOK
    <3> HIDE DEF m
    <3>5. h \in Reader
      BY <3>1, <3>4 DEF Reader
    <3>6. /\ h.torn = TRUE /\ h.more = m.more /\ h.cs_map_ = m.cs_map_
          /\ h.fmt_ready_ = m.fmt_ready_ /\ h.csid_ = m.csid_
      BY <3>1, <3>4 DEF Reader
    <3> QED BY <3>3, <3>5, <3>6 DEF ReaderOK
  <2>4. CASE ~(wide /\ ~Require(r, 2))
    <3> DEFINE d == IF wide THEN 2 ELSE 1
               m == Drop(r, d)
    <3>1. h = [m EXCEPT !.fmt_ = b[1].fmt, !.csid_ = b[1].csid, !.fmt_ready_ = TRUE]
      BY <1>4, <2>4 DEF ReadFmtCsid
    <3>2. d \in Nat
      OBVIOUS
    <3> HIDE DEF d
    <3>3. ReaderOK(m) /\ m.torn = r.torn
      BY <3>2, DropTypes
    <3>4. m \in Reader
      BY <3>3 DEF ReaderOK
    <3> HIDE DEF m, b
    <3>5. h \in Reader
      BY <2>2, <3>1, <3>4 DEF Reader
    <3>6. h.torn = m.torn /\ h.cs_map_ = m.cs_map_ /\ h.csid_ = b[1].csid
      BY <3>1, <3>4 DEF Reader
    <3> QED BY <2>2, <3>3, <3>5, <3>6 DEF ReaderOK
  <2> QED BY <2>3, <2>4
<1> QED BY <1>1, <1>2, <1>3, <1>4

LEMMA PayloadTypes ==
  ASSUME NEW r, ReaderOK(r), r.more \/ r.lost \/ r.csid_ \in Csids
  PROVE  Typed(ReadMessagePayload(r), r)
<1> DEFINE cs == r.cs_map_[r.csid_]
           b == r.recv_buffer_
           n == Less(cs.remain_, r.chunk_size_)
           part == SubSeq(b, 1, n)
           d == cs.data \o [i \in 1..n |-> part[i].of]
           new == [cs EXCEPT !.data = d, !.remain_ = @ - n, !.ready = @ \/ cs.remain_ = n,
                             !.in_payload = FALSE]
<1>1. CASE r.more \/ r.lost
  BY <1>1 DEF ReadMessagePayload, Typed
<1>2. CASE ~(r.more \/ r.lost) /\ ~Require(r, n)
  BY <1>2, TypedOutcomes DEF ReadMessagePayload
<1>3. CASE ~(r.more \/ r.lost) /\ \E i \in 1..n : part[i].k # "pay"
  BY <1>3, TypedOutcomes DEF ReadMessagePayload
<1>4. CASE ~(r.more \/ r.lost) /\ Require(r, n) /\ ~\E i \in 1..n : part[i].k # "pay"
  <2>1. r.csid_ \in Csids
    BY <1>4
  <2>2. b \in Seq(Part) /\ r.chunk_size_ \in Sizes /\ cs \in Cs /\ cs.remain_ <= cs.msg_len_
    BY <2>1 DEF ReaderOK, Reader
  <2>3. /\ cs.remain_ \in 0 .. MaxLen /\ cs.msg_len_ \in 0 .. MaxLen /\ r.chunk_size_ \in Nat
        /\ MaxLen \in Nat /\ cs.data \in Seq(Nat \X Nat)
    BY <2>2, ChunkConstants DEF Cs, Sizes
  <2>4. n \in Nat /\ n <= cs.remain_
    BY <2>3 DEF Less
  <2>5. ReadMessagePayload(r) = [Drop(SetCs(r, new), n) EXCEPT !.fmt_ready_ = FALSE]
    BY <1>4 DEF ReadMessagePayload
  <2> HIDE DEF n
  <2>6. d \in Seq(Nat \X Nat)
    <3>1. n \in 0 .. Len(b)
      BY <1>4, <2>2, <2>4 DEF Require
    <3>2. ASSUME NEW i \in 1 .. n PROVE part[i].of \in Nat \X Nat
      <4>1. part[i] = b[i]
        BY <2>2, <3>1, Split
      <4>2. b[i] \in Part /\ part[i].k = "pay"
        BY <1>4, <2>2, <2>4, <3>1
      <4> HIDE DEF part
      <4> QED BY <4>1, <4>2, Kinds4
    <3> DEFINE a == cs.data
               e == [i \in 1 .. n |-> part[i].of]
    <3> HIDE DEF part
    <3>3. e \in [1 .. n -> Nat \X Nat]
      BY <3>2
    <3>4. e \in Seq(Nat \X Nat)
      BY <2>4, <3>3
    <3>5. a \in Seq(Nat \X Nat)
      BY <2>3
    <3> HIDE DEF a, e
    <3>6. a \o e \in Seq(Nat \X Nat)
      BY <3>4, <3>5
    <3> QED BY <3>6 DEF a, e
  <2>7. CsOK(new)
    <3> DEFINE rest == cs.remain_ - n
               full == cs.ready \/ cs.remain_ = n
    <3>1. rest \in 0 .. MaxLen /\ rest <= cs.msg_len_
      <4> DEFINE rem == cs.remain_
                 len == cs.msg_len_
      <4>1. /\ rem \in 0 .. MaxLen /\ len \in 0 .. MaxLen /\ MaxLen \in Nat /\ rem <= len
            /\ n \in Nat /\ n <= rem
        BY <2>2, <2>3, <2>4
      <4> HIDE DEF rem, len, cs
      <4>2. rem - n \in 0 .. MaxLen /\ rem - n <= len
        BY <4>1
      <4> QED BY <4>2 DEF rem, len
    <3>2. full \in BOOLEAN
      BY <2>2 DEF Cs
    <3>3. new = [cs EXCEPT !.data = d, !.remain_ = rest, !.ready = full, !.in_payload = FALSE]
      OBVIOUS
    <3> HIDE DEF new, rest, full, d, cs
    <3>4. new \in Cs
      BY <2>2, <2>6, <3>1, <3>2, <3>3 DEF Cs
    <3>5. new.remain_ = rest /\ new.msg_len_ = cs.msg_len_
      BY <2>2, <3>3 DEF Cs
    <3> QED BY <3>1, <3>4, <3>5 DEF CsOK
  <2> HIDE DEF new
  <2> DEFINE m == Drop(SetCs(r, new), n)
             h == [m EXCEPT !.fmt_ready_ = FALSE]
  <2>8. Typed(m, r)
    BY <2>1, <2>4, <2>7, TypedOutcomes
  <2>9. m \in Reader
    BY <2>8 DEF Typed, ReaderOK
  <2> HIDE DEF m
  <2>10. /\ h \in Reader /\ h.fmt_ready_ = FALSE /\ h.cs_map_ = m.cs_map_ /\ h.csid_ = m.csid_
         /\ h.torn = m.torn
    BY <2>9 DEF Reader
  <2> HIDE DEF h
  <2>11. Typed(h, r)
    BY <2>8, <2>10 DEF Typed, ReaderOK
  <2> QED BY <2>5, <2>11 DEF h, m
<1> QED BY <1>1, <1>2, <1>3, <1>4

LEMMA AfterTypes ==
  ASSUME NEW r, ReaderOK(r), r.csid_ \in Csids, NEW cs, cs = r.cs_map_[r.csid_]
  PROVE  LET a == AfterMessage(r, cs) IN
         /\ ReaderOK(a) /\ a.torn = r.torn /\ a.more = r.more
<1> DEFINE a == AfterMessage(r, cs)
           new == IF cs.kind = "other" THEN cs ELSE [cs EXCEPT !.ready = FALSE, !.data = <<>>]
           size == IF cs.kind = "size" THEN NewSize ELSE r.chunk_size_
           m == SetCs(r, new)
<1>1. r \in Reader /\ CsOK(cs)
  BY DEF ReaderOK, Reader, CsOK
<1>2. CsOK(new)
  <2>1. <<>> \in Seq(Nat \X Nat) /\ cs \in Cs
    BY <1>1 DEF CsOK
  <2> DEFINE z == [cs EXCEPT !.ready = FALSE, !.data = <<>>]
  <2>2. z \in Cs /\ z.remain_ = cs.remain_ /\ z.msg_len_ = cs.msg_len_
    BY <2>1 DEF Cs
  <2> HIDE DEF z
  <2>3. CsOK(z)
    BY <1>1, <2>2 DEF CsOK
  <2> QED BY <1>1, <2>3 DEF z
<1>3. size \in Sizes
  BY <1>1 DEF Reader, Sizes
<1>4. a = [r EXCEPT !.chunk_size_ = size, !.cs_map_[r.csid_] = new]
  BY DEF AfterMessage
<1> HIDE DEF a, new, size
<1>5. Typed(m, r)
  <2>1. ReaderOK(m) /\ m.csid_ = r.csid_ /\ m.torn = r.torn
    BY <1>2, SetTypes
  <2> QED BY <2>1 DEF Typed
<1>6. m \in Reader
  BY <1>5 DEF Typed, ReaderOK
<1>7. /\ a \in Reader /\ a.cs_map_ = m.cs_map_ /\ a.csid_ = r.csid_ /\ a.torn = r.torn
      /\ a.more = r.more /\ a.fmt_ready_ = r.fmt_ready_ /\ m.fmt_ready_ = r.fmt_ready_
  <2>1. /\ a.cs_map_ = [r.cs_map_ EXCEPT ![r.csid_] = new]
        /\ m.cs_map_ = [r.cs_map_ EXCEPT ![r.csid_] = new]
        /\ a.csid_ = r.csid_ /\ a.torn = r.torn
        /\ a.more = r.more /\ a.fmt_ready_ = r.fmt_ready_ /\ m.fmt_ready_ = r.fmt_ready_
    BY <1>1, <1>4 DEF Reader, SetCs
  <2>2. a \in Reader
    <3>1. new \in Cs
      BY <1>2 DEF CsOK
    <3> QED BY <1>1, <1>3, <1>4, <3>1 DEF Reader
  <2> QED BY <2>1, <2>2
<1> HIDE DEF m
<1>8. ReaderOK(a)
  BY <1>5, <1>7 DEF Typed, ReaderOK
<1> QED BY <1>7, <1>8 DEF a

(* What the first chunk is to a reader behind its header.                  *)
HeadFacts(r, w, pend, n, pos, st, k, x) ==
  /\ n \in Nat \ {0} /\ w \in Seq(Part) /\ ~r.lost /\ r.chunk_size_ = st[1].size
  /\ k \in Chunk /\ k.c = r.csid_ /\ r.csid_ \in Csids /\ x \in Mid /\ x.q = 0
  /\ Holds(r.recv_buffer_ \o w, -Ahead(k), k) /\ pos[1] = -Ahead(k)
  /\ r.cs_map_[k.c] = Reading(x, k, pend[k.c])
  /\ k.n = Less(r.chunk_size_, Left(x, k)) /\ k.kind # "other"
  /\ Left(x, k) <= k.len /\ k.from = k.len - Left(x, k)
  /\ 0 < Len(pend[k.c]) /\ pend[k.c][1] = Message(k.id, k.kind, k.mts, k.len)
  /\ k.n <= Left(x, k) /\ Left(x, k) \in Nat

LEMMA AtHead ==
  ASSUME NEW r, r.recv_buffer_ \in Seq(Part), NEW w, NEW pend \in [Csids -> Seq(Msg)],
         NEW n, NEW ck, NEW pos, NEW st, At(2, r, w, pend, n, ck, pos, st)
  PROVE  HeadFacts(r, w, pend, n, pos, st, ck[1], On(st[1], ck[1].c))
<1> DEFINE k == ck[1]
           x == On(st[1], k.c)
<1>1. /\ n # 0 /\ w \in Seq(Part) /\ ~r.lost /\ r.chunk_size_ = st[1].size
      /\ k.c = r.csid_ /\ pos[1] = -Ahead(k) /\ r.cs_map_[k.c] = Reading(x, k, pend[k.c])
  BY DEF At, BehindHead, InChunk
<1>2. /\ n \in Nat \ {0} /\ k \in Chunk /\ k.c \in Csids /\ st[1] \in State
      /\ Leads(st[1], k, st[1 + 1], pend) /\ x \in Mid /\ x.q = 0
      /\ Holds(r.recv_buffer_ \o w, pos[1], k)
  BY <1>1, FirstChunk
<1>3. /\ k.kind # "other" /\ x.q < Len(pend[k.c])
      /\ pend[k.c][x.q + 1] = Message(k.id, k.kind, k.mts, k.len)
      /\ k.n = Less(st[1].size, Left(x, k)) /\ Left(x, k) <= k.len /\ k.from = k.len - Left(x, k)
  BY <1>2 DEF Leads
<1>4. 0 < Len(pend[k.c]) /\ pend[k.c][1] = Message(k.id, k.kind, k.mts, k.len)
  BY <1>2, <1>3
<1>5. Left(x, k) \in Nat /\ st[1].size \in Nat
  <2>1. x.remain \in Nat /\ k.len \in Nat /\ st[1].size \in Nat
    <3>1. x.remain \in Nat
      BY <1>2, ChunkConstants DEF Mid
    <3>2. k.len \in Nat
      BY <1>2, ChunkConstants DEF Chunk, Lens
    <3>3. st[1].size \in Nat
      BY <1>2, ChunkConstants DEF State, Sizes
    <3> QED BY <3>1, <3>2, <3>3
  <2> QED BY <2>1 DEF Left
<1>6. k.n <= Left(x, k)
  BY <1>3, <1>5 DEF Less
<1> QED BY <1>1, <1>2, <1>3, <1>4, <1>5, <1>6 DEF HeadFacts

(* The run behind its first chunk, of which the reader has the header.     *)
Advanced(h, w, pend, n, ck, pos, st) ==
  /\ Run(h.recv_buffer_ \o w, pend, n - 1, Shifted(ck), Shifted(Back(pos, ck[1].n)), Shifted(st))
  /\ Shifted(Back(pos, ck[1].n))[1] = 0
  /\ Shifted(st)[1] = st[2] /\ Shifted(st)[(n - 1) + 1] = st[n + 1] /\ n - 1 \in Nat

LEMMA Advances ==
  ASSUME NEW r, r.recv_buffer_ \in Seq(Part), NEW w, NEW pend \in [Csids -> Seq(Msg)],
         NEW n, NEW ck, NEW pos, NEW st, At(2, r, w, pend, n, ck, pos, st),
         NEW h, ck[1].n <= Len(r.recv_buffer_),
         h.recv_buffer_ = SubSeq(r.recv_buffer_, ck[1].n + 1, Len(r.recv_buffer_))
  PROVE  Advanced(h, w, pend, n, ck, pos, st)
<1> DEFINE k == ck[1]
           d == k.n
           back == Back(pos, d)
           S == h.recv_buffer_ \o w
<1>1. n \in Nat \ {0} /\ k \in Chunk /\ pos[1] = -Ahead(k)
  <2>1. HeadFacts(r, w, pend, n, pos, st, k, On(st[1], k.c))
    BY AtHead
  <2> QED BY <2>1 DEF HeadFacts
<1>2. /\ Ahead(k) \in Nat /\ d \in Nat /\ Width(k) = Ahead(k) + d /\ Len(r.recv_buffer_) \in Nat
  BY <1>1, Widths
<1>3. d \in 0 .. Len(r.recv_buffer_)
  BY <1>2
<1>4. Run(S, pend, n, ck, back, st)
  <2>1. h.recv_buffer_ = SubSeq(r.recv_buffer_, d + 1, Len(r.recv_buffer_))
    OBVIOUS
  <2> HIDE DEF d
  <2> QED BY <1>3, <2>1, RunMoved
<1>5. back[2] = 0
  <2>1. Run(r.recv_buffer_ \o w, pend, n, ck, pos, st) /\ 1 \in 1 .. n
    BY <1>1 DEF At
  <2>2. pos[1 + 1] = pos[1] + Width(k)
    BY <2>1 DEF Run
  <2>3. pos[2] = d
    BY <1>1, <1>2, <2>2
  <2>4. back[2] = pos[2] - d
    BY DEF Back
  <2> QED BY <1>2, <2>3, <2>4
<1> HIDE DEF S, back
<1>6. Run(S, pend, n - 1, Shifted(ck), Shifted(back), Shifted(st))
  BY <1>1, <1>4, RunRest
<1>7. Shifted(back)[1] = 0
  BY <1>5 DEF Shifted
<1>8. Shifted(st)[1] = st[2]
  BY DEF Shifted
<1>9. Shifted(st)[(n - 1) + 1] = st[n + 1] /\ n - 1 \in Nat
  <2>1. (n - 1) + 1 \in Nat /\ (n - 1) + 1 = n /\ n - 1 \in Nat
    BY <1>1
  <2>2. Shifted(st)[n] = st[n + 1]
    BY <1>1 DEF Shifted
  <2> QED BY <2>1, <2>2
<1> QED BY <1>6, <1>7, <1>8, <1>9 DEF Advanced, S, back

(* Before a chunk, the position is 0.                                      *)
LEMMA AtBetween ==
  ASSUME NEW r, NEW w \in Seq(Part), NEW pend, NEW n, NEW ck, NEW pos, NEW st,
         Run(r.recv_buffer_ \o w, pend, n, ck, pos, st), pos[1] = 0,
         r.chunk_size_ = st[1].size, ~r.lost, ~r.fmt_ready_,
         \A c \in Csids : /\ On(st[1], c).q = 0
                          /\ r.cs_map_[c] = Resting(On(st[1], c), pend[c])
  PROVE  At(0, r, w, pend, n, ck, pos, st)
  BY DEF At, Before

(* Within a message, and at its end.                                       *)
LEMMA FilledHalf ==
  ASSUME NEW x, NEW k \in Chunk, NEW p, Left(x, k) \in Nat, k.n <= Left(x, k), k.n # Left(x, k),
         k.from = k.len - Left(x, k),
         NEW y, y.fmt = k.fmt, y.flag = Flagged(x, k), y.ts = k.mts, y.delta = Delta(x, k),
         y.kind = k.kind, y.len = k.len, y.remain = Left(x, k) - k.n
  PROVE  Resting(y, p) = Filled(x, k, SubSeq(p[1].body, 1, k.from + k.n), Left(x, k) = k.n)
<1>2. Resting(y, p) =
        Filled(x, k, IF y.remain = 0 THEN <<>> ELSE SubSeq(p[1].body, 1, y.len - y.remain), FALSE)
  BY ZenonT(60), RestingClosed
<1>3. k.n \in Nat /\ k.len \in Nat
  BY ChunkConstants DEF Chunk, Lens
<1> DEFINE left == Left(x, k)
<1>4. left \in Nat /\ k.from = k.len - left /\ y.remain = left - k.n /\ k.n # left
  OBVIOUS
<1> HIDE DEF left
<1>5. y.remain # 0 /\ y.len - y.remain = k.from + k.n
  BY <1>3, <1>4
<1>6. (Left(x, k) = k.n) = FALSE
  OBVIOUS
<1> QED BY <1>2, <1>5, <1>6

(* The bytes collected are the body of the message that is due.            *)
LEMMA FilledWhole ==
  ASSUME NEW x, NEW k \in Chunk, NEW p, Left(x, k) \in Nat, k.n = Left(x, k),
         k.from = k.len - Left(x, k), p[1] = Message(k.id, k.kind, k.mts, k.len)
  PROVE  /\ SubSeq(p[1].body, 1, k.from + k.n) = p[1].body
         /\ p[1] = [kind |-> k.kind, ts |-> k.mts, body |-> p[1].body]
<1>1. k.n \in Nat /\ k.len \in Nat /\ k.id \in Nat
  BY ChunkConstants DEF Chunk, Lens
<1>2. k.from + k.n = k.len
  <2> DEFINE left == Left(x, k)
  <2>1. left \in Nat /\ k.from = k.len - left /\ k.n = left
    OBVIOUS
  <2> HIDE DEF left
  <2> QED BY <1>1, <2>1
<1>3. p[1] = [kind |-> k.kind, ts |-> k.mts, body |-> Body(k.id, k.len)]
  BY DEF Message, Body
<1>4. p[1].body = Body(k.id, k.len)
  BY <1>3
<1> DEFINE id == k.id
           len == k.len
           b == Body(id, len)
<1>5. SubSeq(b, 1, len) = b
  <2>1. id \in Nat /\ len \in Nat
    BY <1>1
  <2> HIDE DEF id, len
  <2>2. b \in Seq(Pairs) /\ Len(b) = len
    <3>1. \A i \in 1 .. len : i \in Nat
      BY <2>1
    <3>2. \A i \in 1 .. len : <<id, i>> \in Pairs
      BY <2>1, <3>1 DEF Pairs
    <3>3. b \in [1 .. len -> Pairs]
      BY <3>2 DEF Body
    <3> HIDE DEF b
    <3> QED BY <2>1, <3>3
  <2> HIDE DEF b
  <2>3. SubSeq(b, 1, len) \in Seq(Pairs) /\ Len(SubSeq(b, 1, len)) = len
    BY <2>1, <2>2
  <2>4. \A i \in 1 .. len : SubSeq(b, 1, len)[i] = b[i]
    BY <2>1, <2>2
  <2> QED BY <2>2, <2>3, <2>4, SamePairs
<1> QED BY <1>2, <1>3, <1>4, <1>5

(* Reset, as far as the reader sees it.                                    *)
ResetOf(cs) == [cs EXCEPT !.ready = FALSE, !.data = <<>>]

LEMMA FilledReset ==
  ASSUME NEW x, NEW k, NEW p, NEW d, k.n = Left(x, k), Left(x, k) \in Nat,
         NEW y, y.fmt = k.fmt, y.flag = Flagged(x, k), y.ts = k.mts,
         y.delta = Delta(x, k), y.kind = k.kind, y.len = k.len, y.remain = Left(x, k) - k.n
  PROVE  Resting(y, p) = ResetOf(Filled(x, k, d, TRUE))
<1> DEFINE none == <<>>
           left == Left(x, k)
           f == k.fmt
           e == Flagged(x, k)
           t == k.mts
           dt == Delta(x, k)
           kd == k.kind
           l == k.len
           rest == left - k.n
           cs == Filled(x, k, d, TRUE)
<1>1. Resting(y, p) =
        Filled(x, k, IF y.remain = 0 THEN <<>> ELSE SubSeq(p[1].body, 1, y.len - y.remain), FALSE)
  BY ZenonT(60), RestingClosed
<1>2. y.remain = 0
  <2>1. left \in Nat /\ k.n = left /\ y.remain = left - k.n
    OBVIOUS
  <2> HIDE DEF left
  <2> QED BY <2>1
<1>3. Resting(y, p) = Filled(x, k, none, FALSE)
  BY <1>1, <1>2
<1>4. cs = [fmt_ |-> f, ext_ts_flag_ |-> e, timestamp32_ |-> t, timestamp_delta_ |-> dt,
            kind |-> kd, msg_len_ |-> l, remain_ |-> rest, in_payload |-> FALSE, data |-> d,
            ready |-> TRUE]
  BY DEF Filled
<1>5. Filled(x, k, none, FALSE) =
       [fmt_ |-> f, ext_ts_flag_ |-> e, timestamp32_ |-> t, timestamp_delta_ |-> dt,
        kind |-> kd, msg_len_ |-> l, remain_ |-> rest, in_payload |-> FALSE, data |-> none,
        ready |-> FALSE]
  BY DEF Filled
<1> DEFINE z == [cs EXCEPT !.ready = FALSE, !.data = none]
<1>6. z = [cs EXCEPT !.ready = FALSE, !.data = none]
  OBVIOUS
<1> HIDE DEF none, left, f, e, t, dt, kd, l, rest, cs, z
<1>7. z = [fmt_ |-> f, ext_ts_flag_ |-> e, timestamp32_ |-> t, timestamp_delta_ |-> dt,
           kind |-> kd, msg_len_ |-> l, remain_ |-> rest, in_payload |-> FALSE, data |-> none,
           ready |-> FALSE]
  BY ONLY <1>4, <1>6
<1>8. z = Filled(x, k, none, FALSE)
  BY <1>5, <1>7
<1> QED BY <1>3, <1>8 DEF z, cs, none, ResetOf

(* The state behind the first chunk.                                       *)
NextState(st, k, x) ==
  /\ st[2] \in State /\ On(st[2], k.c) = Closed(x, k)
  /\ st[2].size = IF k.n = Left(x, k) /\ k.kind = "size" THEN NewSize ELSE st[1].size
  /\ \A c \in Csids \ {k.c} : On(st[2], c) = On(st[1], c)

LEMMA NextStates ==
  ASSUME NEW r, r.recv_buffer_ \in Seq(Part), NEW w, NEW pend \in [Csids -> Seq(Msg)],
         NEW n, NEW ck, NEW pos, NEW st, At(2, r, w, pend, n, ck, pos, st)
  PROVE  NextState(st, ck[1], On(st[1], ck[1].c))
<1> DEFINE k == ck[1]
           x == On(st[1], k.c)
           y == Closed(x, k)
<1>1. HeadFacts(r, w, pend, n, pos, st, k, x)
  BY AtHead
<1>2. Run(r.recv_buffer_ \o w, pend, n, ck, pos, st) /\ 1 \in 1 .. n /\ 1 \in 1 .. n + 1
      /\ 2 \in 1 .. n + 1
  BY <1>1 DEF At, HeadFacts
<1>3. st[1] \in State /\ st[2] \in State /\ Leads(st[1], k, st[1 + 1], pend)
  BY <1>2 DEF Run
<1>4. Leads(st[1], k, st[2], pend)
  BY <1>3
<1>5. st[2] = [size |-> IF k.n = Left(x, k) /\ k.kind = "size" THEN NewSize ELSE st[1].size,
               cs |-> [st[1].cs EXCEPT ![k.c] = y]]
  BY <1>4 DEF Leads
<1>6. k.c \in Csids /\ st[1].cs \in [Csids -> Mid]
  BY <1>1, <1>3 DEF HeadFacts, State
<1> HIDE DEF y
<1>7. On(st[2], k.c) = y /\ \A c \in Csids \ {k.c} : On(st[2], c) = On(st[1], c)
  BY <1>5, <1>6 DEF On
<1>8. st[2].size = IF k.n = Left(x, k) /\ k.kind = "size" THEN NewSize ELSE st[1].size
  BY <1>5
<1> QED BY <1>3, <1>7, <1>8 DEF NextState, y

(* A chunk that does not end its message.                                  *)
StillComing(h, r, w, pend, n, ck, pos, st) ==
  /\ At(0, h, w, pend, n - 1, Shifted(ck), Shifted(Back(pos, ck[1].n)), Shifted(st))
  /\ ~h.cs_map_[r.csid_].ready

LEMMA ChunkTaken ==
  ASSUME NEW r, ReaderOK(r), NEW w, NEW pend \in [Csids -> Seq(Msg)],
         NEW n, NEW ck, NEW pos, NEW st, At(2, r, w, pend, n, ck, pos, st), NEW h,
         PayloadRead(h, r, On(st[1], ck[1].c), ck[1], pend[ck[1].c][1].body),
         ck[1].n # Left(On(st[1], ck[1].c), ck[1])
  PROVE  StillComing(h, r, w, pend, n, ck, pos, st)
<1> DEFINE k == ck[1]
           x == On(st[1], k.c)
           cs == h.cs_map_[r.csid_]
           p == pend[k.c]
           d == SubSeq(p[1].body, 1, k.from + k.n)
           y == Closed(x, k)
           pos2 == Shifted(Back(pos, k.n))
           st2 == Shifted(st)
           ck2 == Shifted(ck)
<1>1. r.recv_buffer_ \in Seq(Part)
  BY DEF ReaderOK, Reader
<1>2. HeadFacts(r, w, pend, n, pos, st, k, x)
  BY <1>1, AtHead
<1>3. /\ h.lost = r.lost /\ h.chunk_size_ = r.chunk_size_ /\ h.fmt_ready_ = FALSE
      /\ h.recv_buffer_ = SubSeq(r.recv_buffer_, k.n + 1, Len(r.recv_buffer_))
      /\ h.cs_map_[r.csid_] = Filled(x, k, d, Left(x, k) = k.n) /\ k.n <= Len(r.recv_buffer_)
      /\ \A c \in Csids \ {r.csid_} : h.cs_map_[c] = r.cs_map_[c]
  BY DEF PayloadRead, TakenWith
<1>4. Advanced(h, w, pend, n, ck, pos, st)
  BY <1>1, <1>3, Advances
<1>5. /\ Run(h.recv_buffer_ \o w, pend, n - 1, ck2, pos2, st2) /\ pos2[1] = 0 /\ st2[1] = st[2]
  BY <1>4 DEF Advanced
<1>6. /\ st[2].size = st[1].size /\ On(st[2], k.c) = y
      /\ \A c \in Csids \ {k.c} : On(st[2], c) = On(st[1], c)
  <2>1. NextState(st, k, x)
    BY <1>1, NextStates
  <2> QED BY <2>1 DEF NextState
<1>7. Resting(y, p) = Filled(x, k, d, Left(x, k) = k.n) /\ y.q = x.q
  <2>1. /\ y.fmt = k.fmt /\ y.flag = Flagged(x, k) /\ y.ts = k.mts /\ y.delta = Delta(x, k)
        /\ y.kind = k.kind /\ y.len = k.len /\ y.remain = Left(x, k) - k.n /\ y.q = x.q
    BY ClosedFacts
  <2>2. k \in Chunk /\ Left(x, k) \in Nat /\ k.n <= Left(x, k) /\ k.from = k.len - Left(x, k)
    BY <1>2 DEF HeadFacts
  <2> HIDE DEF y, p
  <2>3. Resting(y, p) = Filled(x, k, SubSeq(p[1].body, 1, k.from + k.n), Left(x, k) = k.n)
    BY <2>1, <2>2, FilledHalf
  <2> QED BY <2>1, <2>3
<1>8. ~cs.ready
  <2> DEFINE whole == Left(x, k) = k.n
  <2>1. whole = FALSE /\ cs = Filled(x, k, d, whole)
    BY <1>3
  <2> HIDE DEF whole, d
  <2>2. Filled(x, k, d, whole).ready = whole
    BY DEF Filled
  <2> QED BY <2>1, <2>2
<1> HIDE DEF p, d, y, pos2, st2, ck2
<1>9. ASSUME NEW c \in Csids
      PROVE  On(st2[1], c).q = 0 /\ h.cs_map_[c] = Resting(On(st2[1], c), pend[c])
  <2>1. CASE c = k.c
    BY <1>2, <1>3, <1>5, <1>6, <1>7, <2>1 DEF HeadFacts, p
  <2>2. CASE c # k.c
    <3>1. On(st[1], c).q = 0 /\ r.cs_map_[c] = Resting(On(st[1], c), pend[c])
      BY <1>2, <2>2 DEF HeadFacts, At
    <3> QED BY <1>2, <1>3, <1>5, <1>6, <2>2, <3>1 DEF HeadFacts
  <2> QED BY <2>1, <2>2
<1>10. w \in Seq(Part) /\ ~h.lost /\ ~h.fmt_ready_ /\ h.chunk_size_ = st2[1].size
  BY <1>2, <1>3, <1>5, <1>6 DEF HeadFacts
<1>11. At(0, h, w, pend, n - 1, ck2, pos2, st2)
  BY <1>5, <1>9, <1>10, AtBetween
<1> QED BY <1>8, <1>11 DEF pos2, st2, ck2, StillComing

(* The session behind the handler of a message.                            *)
Handled(a, h, cs) ==
  /\ a.more = h.more /\ a.lost = h.lost /\ a.torn = h.torn
  /\ a.recv_buffer_ = h.recv_buffer_ /\ a.fmt_ready_ = h.fmt_ready_
  /\ a.chunk_size_ = IF cs.kind = "size" THEN NewSize ELSE h.chunk_size_
  /\ a.cs_map_[h.csid_] = ResetOf(cs)
  /\ \A c \in Csids \ {h.csid_} : a.cs_map_[c] = h.cs_map_[c]

LEMMA HandledFacts ==
  ASSUME NEW h \in Reader, h.csid_ \in Csids, NEW cs, cs.kind # "other"
  PROVE  Handled(AfterMessage(h, cs), h, cs)
<1> DEFINE new == [cs EXCEPT !.ready = FALSE, !.data = <<>>]
           size == IF cs.kind = "size" THEN NewSize ELSE h.chunk_size_
           a == AfterMessage(h, cs)
<1>1. a = [h EXCEPT !.chunk_size_ = size, !.cs_map_[h.csid_] = new]
  BY DEF AfterMessage
<1> HIDE DEF new, size, a
<1>2. /\ a.more = h.more /\ a.lost = h.lost /\ a.torn = h.torn
      /\ a.recv_buffer_ = h.recv_buffer_ /\ a.fmt_ready_ = h.fmt_ready_
      /\ a.chunk_size_ = size /\ a.cs_map_[h.csid_] = new
      /\ \A c \in Csids \ {h.csid_} : a.cs_map_[c] = h.cs_map_[c]
  BY <1>1 DEF Reader
<1> QED BY <1>2 DEF Handled, a, new, size, ResetOf

(* A chunk that ends its message: the message is the next one due.         *)
Due(h, c, pend) ==
  LET cs == h.cs_map_[c] IN
  /\ cs.ready /\ cs.kind # "other" /\ pend[c] # <<>>
  /\ Head(pend[c]) = [kind |-> cs.kind, ts |-> cs.timestamp32_, body |-> cs.data]

LEMMA MessageTaken ==
  ASSUME NEW r, ReaderOK(r), NEW w, NEW pend \in [Csids -> Seq(Msg)],
         NEW n, NEW ck, NEW pos, NEW st, At(2, r, w, pend, n, ck, pos, st),
         NEW k, k = ck[1], NEW x, x = On(st[1], k.c), NEW h, ReaderOK(h),
         PayloadRead(h, r, x, k, pend[k.c][1].body), k.n = Left(x, k),
         NEW c, c = r.csid_, NEW cs, cs = h.cs_map_[c]
  PROVE  /\ Due(h, c, pend)
         /\ At(0, AfterMessage(h, cs), w, [pend EXCEPT ![c] = Tail(@)], n - 1, Shifted(ck),
               Shifted(Back(pos, k.n)), AllFewer(Shifted(st), c))
<1> DEFINE p == pend[c]
           d == SubSeq(p[1].body, 1, k.from + k.n)
           y == Closed(x, k)
           pos2 == Shifted(Back(pos, k.n))
           st2 == Shifted(st)
           st3 == AllFewer(st2, c)
           ck2 == Shifted(ck)
           pend2 == [pend EXCEPT ![c] = Tail(@)]
           a == AfterMessage(h, cs)
<1>1. r.recv_buffer_ \in Seq(Part) /\ h \in Reader
  BY DEF ReaderOK, Reader
<1>2. HeadFacts(r, w, pend, n, pos, st, k, x)
  BY <1>1, AtHead
<1>3. /\ h.lost = r.lost /\ h.chunk_size_ = r.chunk_size_ /\ h.fmt_ready_ = FALSE
      /\ h.recv_buffer_ = SubSeq(r.recv_buffer_, k.n + 1, Len(r.recv_buffer_))
      /\ k.n <= Len(r.recv_buffer_) /\ h.csid_ = c /\ c \in Csids /\ k.c = c
      /\ \A e \in Csids \ {c} : h.cs_map_[e] = r.cs_map_[e]
  BY <1>2 DEF PayloadRead, TakenWith, HeadFacts
<1>4. cs = Filled(x, k, d, TRUE)
  <2> DEFINE whole == Left(x, k) = k.n
  <2>1. cs = Filled(x, k, d, whole)
    BY <1>3 DEF PayloadRead, TakenWith
  <2>2. whole = TRUE
    OBVIOUS
  <2> HIDE DEF whole, d
  <2> QED BY <2>1, <2>2
<1>5. Advanced(h, w, pend, n, ck, pos, st)
  BY <1>1, <1>3, Advances
<1>6. NextState(st, k, x)
  BY <1>1, NextStates
<1> HIDE DEF d
<1>7. cs.kind = k.kind /\ cs.timestamp32_ = k.mts /\ cs.data = d /\ cs.ready = TRUE
  BY <1>4 DEF Filled
<1>8. Due(h, c, pend)
  <2>1. d = p[1].body /\ p[1] = [kind |-> k.kind, ts |-> k.mts, body |-> p[1].body]
    <3>1. /\ k \in Chunk /\ Left(x, k) \in Nat /\ k.from = k.len - Left(x, k)
          /\ p[1] = Message(k.id, k.kind, k.mts, k.len) /\ k.n = Left(x, k)
      BY <1>2, <1>3 DEF HeadFacts
    <3> HIDE DEF p
    <3>2. /\ SubSeq(p[1].body, 1, k.from + k.n) = p[1].body
          /\ p[1] = [kind |-> k.kind, ts |-> k.mts, body |-> p[1].body]
      BY ONLY <3>1, FilledWhole
    <3> QED BY <3>2 DEF d
  <2>2. p \in Seq(Msg) /\ 0 < Len(p) /\ k.kind # "other"
    BY <1>2, <1>3 DEF HeadFacts
  <2> HIDE DEF p
  <2>3. p # <<>> /\ Head(p) = p[1]
    BY <2>2, Taken
  <2> QED BY <1>7, <2>1, <2>2, <2>3 DEF Due, p
<1>9. Handled(a, h, cs)
  BY <1>1, <1>2, <1>3, <1>7, HandledFacts DEF HeadFacts
<1>10. /\ st2[1] \in State /\ On(st2[1], c) = y /\ y.q = 1
       /\ st2[1].size = IF k.kind = "size" THEN NewSize ELSE st[1].size
       /\ \A e \in Csids \ {c} : On(st2[1], e) = On(st[1], e)
  <2>1. y.q = 1
    <3>1. Closed(x, k).q = x.q + 1
      BY ClosedFacts
    <3>2. x.q = 0
      BY <1>2 DEF HeadFacts
    <3> QED BY <3>1, <3>2
  <2>2. st2[1] = st[2]
    BY <1>5 DEF Advanced
  <2> HIDE DEF y, st2
  <2> QED BY <1>3, <1>6, <2>1, <2>2 DEF NextState, y
<1>11. Run(h.recv_buffer_ \o w, pend2, n - 1, ck2, pos2, st3)
  <2>1. Run(h.recv_buffer_ \o w, pend, n - 1, ck2, pos2, st2) /\ On(st2[1], c).q >= 1
    BY <1>5, <1>10 DEF Advanced
  <2> HIDE DEF st2, pos2, ck2
  <2> QED BY <1>3, <2>1, RunTake
<1>12. pos2[1] = 0
  BY <1>5 DEF Advanced
<1>13. /\ On(st3[1], c) = [y EXCEPT !.q = @ - 1] /\ st3[1].size = st2[1].size
       /\ \A e \in Csids \ {c} : On(st3[1], e) = On(st2[1], e)
  <2>1. st3[1] = Fewer(st2[1], c)
    BY DEF AllFewer
  <2> DEFINE s == st2[1]
  <2> HIDE DEF st2, st3, y
  <2>2. On(s, c).q >= 1 /\ s \in State /\ On(s, c) = y
    BY <1>10
  <2> HIDE DEF s
  <2>3. /\ Fewer(s, c).size = s.size /\ On(Fewer(s, c), c) = [On(s, c) EXCEPT !.q = @ - 1]
        /\ \A e \in Csids \ {c} : On(Fewer(s, c), e) = On(s, e)
    BY <1>3, <2>2, FewerFacts
  <2> QED BY <2>1, <2>2, <2>3 DEF s
<1> HIDE DEF pos2, st2, st3, ck2, pend2, a
<1>14. Resting(On(st3[1], c), Tail(p)) = ResetOf(cs)
  <2> DEFINE z == [y EXCEPT !.q = @ - 1]
  <2>1. /\ z.fmt = y.fmt /\ z.flag = y.flag /\ z.ts = y.ts /\ z.delta = y.delta
        /\ z.kind = y.kind /\ z.len = y.len /\ z.remain = y.remain
    BY DEF Closed
  <2>2. /\ y.fmt = k.fmt /\ y.flag = Flagged(x, k) /\ y.ts = k.mts /\ y.delta = Delta(x, k)
        /\ y.kind = k.kind /\ y.len = k.len /\ y.remain = Left(x, k) - k.n
    BY ClosedFacts
  <2>3. Left(x, k) \in Nat
    BY <1>2 DEF HeadFacts
  <2> HIDE DEF z, y
  <2>5. /\ z.fmt = k.fmt /\ z.flag = Flagged(x, k) /\ z.ts = k.mts /\ z.delta = Delta(x, k)
        /\ z.kind = k.kind /\ z.len = k.len /\ z.remain = Left(x, k) - k.n
        /\ k.n = Left(x, k)
    BY <2>1, <2>2
  <2>4. Resting(z, Tail(p)) = ResetOf(Filled(x, k, d, TRUE))
    BY ONLY <2>5, <2>3, FilledReset
  <2> QED BY <1>4, <1>13, <2>4 DEF z
<1>15. On(st3[1], c).q = 0
  <2>1. [y EXCEPT !.q = @ - 1].q = y.q - 1
    BY DEF Closed
  <2> HIDE DEF y
  <2> QED BY <1>10, <1>13, <2>1
<1> HIDE DEF y
<1>16. pend2[c] = Tail(p) /\ \A e \in Csids \ {c} : pend2[e] = pend[e]
  BY <1>3 DEF pend2
<1>17. ASSUME NEW e \in Csids
       PROVE  On(st3[1], e).q = 0 /\ a.cs_map_[e] = Resting(On(st3[1], e), pend2[e])
  <2>1. CASE e = c
    BY <1>3, <1>9, <1>14, <1>15, <1>16, <2>1 DEF Handled
  <2>2. CASE e # c
    <3>1. On(st[1], e).q = 0 /\ r.cs_map_[e] = Resting(On(st[1], e), pend[e])
      BY <2>2 DEF At
    <3> QED BY <1>3, <1>9, <1>10, <1>13, <1>16, <2>2, <3>1 DEF Handled
  <2> QED BY <2>1, <2>2
<1>18. /\ w \in Seq(Part) /\ ~a.lost /\ ~a.fmt_ready_ /\ a.chunk_size_ = st3[1].size
       /\ a.recv_buffer_ = h.recv_buffer_
  BY <1>2, <1>3, <1>7, <1>9, <1>10, <1>13 DEF HeadFacts, Handled
<1>19. At(0, a, w, pend2, n - 1, ck2, pos2, st3)
  BY <1>11, <1>12, <1>17, <1>18, AtBetween
<1> QED BY <1>8, <1>19 DEF pos2, st2, st3, ck2, pend2, a

(* The sender's end does not see what is taken.                            *)
LEMMA EndedFewer ==
  ASSUME NEW mine, NEW x \in Mid, NEW y, y = [x EXCEPT !.q = @ - 1], NEW o \in Out,
         NEW p \in Seq(Msg), x.q >= 1, Ended(mine, x, o, p), p # <<>>
  PROVE  Ended(mine, y, o, Tail(p))
<1>1. /\ y.fmt = x.fmt /\ y.flag = x.flag /\ y.ts = x.ts /\ y.delta = x.delta
      /\ y.kind = x.kind /\ y.len = x.len /\ y.remain = x.remain
      /\ y.q = x.q - 1 /\ x.q \in Nat
  BY DEF Mid
<1>2. /\ Len(p) \in Nat \ {0} /\ Len(Tail(p)) = Len(p) - 1
      /\ \A i \in 1 .. Len(p) - 1 : Tail(p)[i] = p[i + 1]
  BY Taken
<1> DEFINE t == Tail(p)
<1> HIDE DEF t
<1>3. CASE mine
  <2>1. o.left = 0 /\ x.remain = 0 /\ x.q = Len(p)
    BY <1>3 DEF Ended
  <2>2. y.q = Len(t)
    BY <1>1, <1>2, <2>1 DEF t
  <2> QED BY <1>1, <1>3, <2>1, <2>2 DEF Ended, t
<1>4. CASE ~mine
  <2>1. o.left \in Nat
    BY ChunkConstants DEF Out
  <2>2. /\ x.fmt = o.last /\ x.flag = o.ever /\ x.ts = o.ts /\ x.kind = o.kind
        /\ x.len = o.len /\ x.remain = o.left
        /\ o.delta >= ExtTs => o.ever
        /\ x.fmt \in {1, 2} => x.delta = o.delta
    BY <1>4 DEF Ended
  <2>3. o.left = 0 => y.q = Len(t)
    BY <1>1, <1>2, <1>4 DEF Ended, t
  <2>4. ASSUME o.left > 0
        PROVE  /\ y.q + 1 = Len(t) /\ t[Len(t)] = Message(o.id, o.kind, o.ts, o.len)
               /\ o.kind # "other" /\ (o.ext => o.ever /\ o.delta = o.ts)
    <3>1. /\ x.q + 1 = Len(p) /\ p[Len(p)] = Message(o.id, o.kind, o.ts, o.len)
          /\ o.kind # "other" /\ (o.ext => o.ever /\ o.delta = o.ts)
      BY <1>4, <2>4 DEF Ended
    <3>2. y.q + 1 = Len(t) /\ Len(t) \in 1 .. Len(p) - 1 /\ Len(t) + 1 = Len(p)
      <4> DEFINE q == x.q
                 l == Len(p)
                 m == Len(t)
      <4>1. q \in Nat /\ q >= 1 /\ q + 1 = l /\ l \in Nat /\ y.q = q - 1 /\ m = l - 1
        BY <1>1, <1>2, <3>1 DEF t
      <4> HIDE DEF q, l, m
      <4>2. (q - 1) + 1 = m /\ m \in 1 .. l - 1 /\ m + 1 = l
        BY <4>1
      <4> QED BY <4>1, <4>2 DEF l, m
    <3>3. t[Len(t)] = p[Len(t) + 1]
      BY <1>2, <3>2 DEF t
    <3> QED BY <3>1, <3>2, <3>3
  <2> QED BY <1>1, <1>4, <2>2, <2>3, <2>4 DEF Ended, t
<1> QED BY <1>3, <1>4

(* So do both ends of every chunk stream.                                  *)
LEMMA EndsFewer ==
  ASSUME NEW s \in State, NEW c \in Csids, On(s, c).q >= 1, NEW mine, NEW size,
         NEW outs \in [Csids -> Out], NEW pend \in [Csids -> Seq(Msg)], pend[c] # <<>>,
         Ends(s, mine, size, outs, pend)
  PROVE  Ends(Fewer(s, c), mine, size, outs, [pend EXCEPT ![c] = Tail(@)])
<1> DEFINE f == Fewer(s, c)
           x == On(s, c)
           y == [x EXCEPT !.q = @ - 1]
           pend2 == [pend EXCEPT ![c] = Tail(@)]
<1>1. f.size = s.size /\ On(f, c) = y /\ \A e \in Csids \ {c} : On(f, e) = On(s, e)
  BY FewerFacts
<1>2. s.size = size /\ \A e \in Csids : Ended(mine, On(s, e), outs[e], pend[e])
  BY DEF Ends
<1>3. x \in Mid
  BY DEF State, On
<1> HIDE DEF f, x
<1>4. Ended(mine, y, outs[c], Tail(pend[c]))
  <2>1. x.q >= 1 /\ Ended(mine, x, outs[c], pend[c]) /\ outs[c] \in Out /\ pend[c] \in Seq(Msg)
    BY <1>2 DEF x
  <2>2. y = [x EXCEPT !.q = @ - 1]
    OBVIOUS
  <2> HIDE DEF y
  <2> QED BY <1>3, <2>1, <2>2, EndedFewer
<1>5. pend2[c] = Tail(pend[c]) /\ \A e \in Csids \ {c} : pend2[e] = pend[e]
  OBVIOUS
<1> HIDE DEF pend2, y
<1>6. ASSUME NEW e \in Csids PROVE Ended(mine, On(f, e), outs[e], pend2[e])
  <2>1. CASE e = c
    BY <1>1, <1>4, <1>5, <2>1
  <2>2. CASE e # c
    BY <1>1, <1>2, <1>5, <2>2
  <2> QED BY <2>1, <2>2
<1> QED BY <1>1, <1>2, <1>6 DEF Ends, f, pend2

(* ReadMessagePayload asks for more, takes a chunk or completes a message. *)
Received(h, r, w, pend, mine, size, outs) ==
  \/ h.more /\ ~h.lost /\ Dialogue(2, h, w, pend, mine, size, outs)
  \/ /\ ~h.more /\ ~h.lost /\ h.csid_ = r.csid_ /\ ~h.cs_map_[r.csid_].ready
     /\ Dialogue(0, h, w, pend, mine, size, outs)
  \/ /\ ~h.more /\ ~h.lost /\ h.csid_ = r.csid_ /\ Due(h, r.csid_, pend)
     /\ Dialogue(0, AfterMessage(h, h.cs_map_[r.csid_]), w,
                 [pend EXCEPT ![r.csid_] = Tail(@)], mine, size, outs)

LEMMA PayloadReads ==
  ASSUME NEW r, ReaderOK(r), ~r.more, NEW w, NEW pend \in [Csids -> Seq(Msg)],
         NEW mine, NEW size, NEW outs \in [Csids -> Out],
         Dialogue(2, r, w, pend, mine, size, outs)
  PROVE  Received(ReadMessagePayload(r), r, w, pend, mine, size, outs)
<1>1. PICK n, ck, pos, st : /\ At(2, r, w, pend, n, ck, pos, st)
                            /\ Ends(st[n + 1], mine, size, outs, pend)
  BY DEF Dialogue
<1> DEFINE k == ck[1]
           x == On(st[1], k.c)
           c == r.csid_
           h == ReadMessagePayload(r)
           cs == h.cs_map_[c]
           body == pend[k.c][1].body
<1>2. r \in Reader /\ r.recv_buffer_ \in Seq(Part)
  BY DEF ReaderOK, Reader
<1>3. HeadFacts(r, w, pend, n, pos, st, k, x)
  BY <1>1, <1>2, AtHead
<1>4. h = More(r) \/ PayloadRead(h, r, x, k, body)
  <2>1. /\ w \in Seq(Part) /\ ~r.lost /\ r.csid_ \in Csids /\ k \in Chunk /\ x \in Mid
        /\ k.c = r.csid_ /\ Holds(r.recv_buffer_ \o w, -Ahead(k), k)
        /\ r.cs_map_[k.c] = Reading(x, k, pend[k.c]) /\ k.n = Less(r.chunk_size_, Left(x, k))
        /\ pend[k.c][1] = Message(k.id, k.kind, k.mts, k.len)
    BY <1>3 DEF HeadFacts
  <2>2. k.from + k.n <= k.len
    <3> DEFINE left == Left(x, k)
    <3>1. /\ left \in Nat /\ k.from = k.len - left /\ k.n <= left /\ k.n \in Nat /\ k.len \in Nat
      BY <1>3, ChunkConstants DEF HeadFacts, Chunk, Lens
    <3> HIDE DEF left
    <3> QED BY <3>1
  <2> DEFINE p == pend[k.c]
  <2>3. r.cs_map_[r.csid_] = Reading(x, k, p) /\ p[1] = Message(k.id, k.kind, k.mts, k.len)
    BY <2>1
  <2> HIDE DEF k, x, p
  <2>4. ReadMessagePayload(r) = More(r) \/ PayloadRead(ReadMessagePayload(r), r, x, k, p[1].body)
    BY <1>2, <2>1, <2>2, <2>3, PayloadIsRead
  <2> QED BY <2>4 DEF p
<1>5. ReaderOK(h) /\ h.csid_ = c /\ c \in Csids
  <2>1. c \in Csids
    BY <1>3 DEF HeadFacts
  <2>2. Typed(h, r)
    BY <2>1, PayloadTypes
  <2> QED BY <2>1, <2>2 DEF Typed
<1> HIDE DEF h
<1>6. CASE h = More(r)
  <2>1. /\ h.more = TRUE /\ h.lost = r.lost
        /\ h.recv_buffer_ = r.recv_buffer_ /\ h.chunk_size_ = r.chunk_size_
        /\ h.csid_ = r.csid_ /\ h.cs_map_ = r.cs_map_ /\ h.fmt_ready_ = r.fmt_ready_
        /\ h.fmt_ = r.fmt_
    BY ZenonT(60), <1>2, <1>6, MoreFacts
  <2>2. At(2, h, w, pend, n, ck, pos, st)
    BY <1>1, <2>1, AtSame
  <2>3. ~h.lost
    BY <1>3, <2>1 DEF HeadFacts
  <2> QED BY <1>1, <2>1, <2>2, <2>3 DEF Received, Dialogue, h
<1>7. CASE PayloadRead(h, r, x, k, body)
  <2> DEFINE ck2 == Shifted(ck)
             pos2 == Shifted(Back(pos, k.n))
             st2 == Shifted(st)
  <2>1. /\ ~h.more /\ ~h.lost /\ k.n <= Len(r.recv_buffer_)
        /\ h.recv_buffer_ = SubSeq(r.recv_buffer_, k.n + 1, Len(r.recv_buffer_))
    BY <1>3, <1>7 DEF PayloadRead, TakenWith, HeadFacts
  <2>2. Advanced(h, w, pend, n, ck, pos, st)
    BY <1>1, <1>2, <2>1, Advances
  <2>3. st2[(n - 1) + 1] = st[n + 1] /\ n - 1 \in Nat
    BY <2>2 DEF Advanced
  <2>4. CASE k.n # Left(x, k)
    <3>1. At(0, h, w, pend, n - 1, ck2, pos2, st2) /\ ~cs.ready
      <4>1. StillComing(h, r, w, pend, n, ck, pos, st)
        BY <1>1, <1>7, <2>4, ChunkTaken
      <4> QED BY <4>1 DEF StillComing
    <3>2. Ends(st2[(n - 1) + 1], mine, size, outs, pend)
      BY <1>1, <2>3
    <3>3. Dialogue(0, h, w, pend, mine, size, outs)
      BY <3>1, <3>2 DEF Dialogue
    <3> QED BY <1>5, <2>1, <3>1, <3>3 DEF Received, h
  <2>5. CASE k.n = Left(x, k)
    <3> DEFINE st3 == AllFewer(st2, c)
               pend2 == [pend EXCEPT ![c] = Tail(@)]
               a == AfterMessage(h, cs)
    <3>1. Due(h, c, pend) /\ At(0, a, w, pend2, n - 1, ck2, pos2, st3)
      BY <1>1, <1>5, <1>7, <2>5, MessageTaken
    <3>2. st3[(n - 1) + 1] = Fewer(st[n + 1], c)
      <4>1. (n - 1) + 1 \in Nat
        BY <2>3
      <4> HIDE DEF st2
      <4>2. st3[(n - 1) + 1] = Fewer(st2[(n - 1) + 1], c)
        BY <4>1 DEF AllFewer
      <4> QED BY <2>3, <4>2
    <3>3. On(st[n + 1], c).q >= 1 /\ st[n + 1] \in State
      <4>1. NextState(st, k, x)
        BY <1>1, <1>2, NextStates
      <4>2. st2[1] = st[2] /\ Run(h.recv_buffer_ \o w, pend, n - 1, ck2, pos2, st2)
        BY <2>2 DEF Advanced
      <4>3. On(st2[1], c).q = 1
        <5>1. On(st[2], k.c) = Closed(x, k)
          BY <4>1 DEF NextState
        <5>2. Closed(x, k).q = x.q + 1
          BY <2>5, ClosedFacts
        <5>3. x.q = 0 /\ k.c = c
          BY <1>3 DEF HeadFacts
        <5> HIDE DEF st2
        <5> QED BY <4>2, <5>1, <5>2, <5>3
      <4> HIDE DEF st2, pos2, ck2
      <4> DEFINE m == n - 1
      <4>4. m \in Nat /\ m + 1 \in 1 .. m + 1
        BY <2>3
      <4>5. Run(h.recv_buffer_ \o w, pend, m, ck2, pos2, st2)
        BY <4>2
      <4>6. st2[m + 1] = st[n + 1]
        BY <2>3
      <4> HIDE DEF m
      <4>7. On(st2[m + 1], c).q \in Nat /\ On(st2[1], c).q <= On(st2[m + 1], c).q
        BY <1>5, <4>4, <4>5, RunGrows
      <4>8. st2[m + 1] \in State
        BY <4>4, <4>5 DEF Run
      <4> QED BY <4>3, <4>6, <4>7, <4>8
    <3>4. pend[c] # <<>>
      BY <3>1 DEF Due
    <3>5. Ends(Fewer(st[n + 1], c), mine, size, outs, pend2)
      BY <1>1, <1>5, <3>3, <3>4, EndsFewer
    <3> HIDE DEF st3, pend2, a, ck2, pos2
    <3>6. Dialogue(0, a, w, pend2, mine, size, outs)
      BY <3>1, <3>2, <3>5 DEF Dialogue
    <3> QED BY <1>5, <2>1, <3>1, <3>6 DEF Received, h, a, pend2, cs
  <2> QED BY <2>4, <2>5
<1> QED BY <1>4, <1>6, <1>7

-----------------------------------------------------------------------------
(* The types are kept.                                                     *)

(* Each action keeps the types, whoever sends and whatever is lost or      *)
(* torn.                                                                   *)
LEMMA PutTypes ==
  ASSUME NEW pend \in [Csids -> Seq(Msg)], NEW c \in Csids, NEW m \in Msg
  PROVE  [pend EXCEPT ![c] = Append(@, m)] \in [Csids -> Seq(Msg)]
<1>1. Append(pend[c], m) \in Seq(Msg)
  BY Appended
<1> QED BY <1>1

LEMMA OwnWriteTypes ==
  ASSUME TypeInv, NEW c \in Csids, NEW kind \in Kinds, NEW ts \in Stamps, NEW len \in Lens,
         OwnWrite(c, kind, ts, len)
  PROVE  TypeInv'
<1> DEFINE m == [id |-> sent + 1, kind |-> kind, ts |-> ts, len |-> len]
           msg == Message(sent + 1, kind, ts, len)
           count == Count(len, out_size)
<1>1. /\ sent \in Nat /\ out_size \in Sizes /\ out_size \in Nat \ {0} /\ wire \in Seq(Part)
      /\ pending \in [Csids -> Seq(Msg)]
  BY ChunkConstants DEF TypeInv, Sizes
<1>2. ts \in Nat /\ len \in Nat \ {0}
  BY ChunkConstants DEF Lens
<1>3. m \in Header /\ m.len = len
  BY <1>1, <1>2 DEF Header
<1>4. wire' = wire \o OwnChunks(c, m)
  BY DEF OwnWrite
<1>5. count \in Nat /\ count = Count(m.len, out_size)
  BY <1>1, <1>2, <1>3, Cuts
<1> HIDE DEF m, count
<1>6. PICK g : Grows(g, count, c, m, out_size) /\ g[count] = OwnChunks(c, m)
  BY <1>1, <1>3, <1>5, OwnChunksAre
<1>7. OwnChunks(c, m) \in Seq(Part)
  BY <1>5, <1>6 DEF Grows
<1>8. wire' \in Seq(Part)
  BY <1>1, <1>4, <1>7, Concat
<1>9. msg \in Msg
  <2>1. sent + 1 \in Nat
    BY <1>1
  <2> QED BY <1>2, <2>1, MessageOf
<1>10. pending' = [pending EXCEPT ![c] = Append(@, msg)]
  BY DEF OwnWrite
<1> HIDE DEF msg
<1>11. pending' \in [Csids -> Seq(Msg)]
  BY <1>1, <1>9, <1>10, PutTypes
<1>12. sent' \in 0 .. MaxMsgs /\ out_size' \in Sizes /\ odd' \in BOOLEAN
  <2>1. sent' = sent + 1 /\ sent < MaxMsgs /\ MaxMsgs \in Nat
    BY ChunkConstants DEF OwnWrite, MaySend
  <2>2. out_size' \in Sizes
    BY <1>1 DEF OwnWrite, SizeAfter, Sizes
  <2>3. odd' \in BOOLEAN
    BY DEF OwnWrite, TypeInv
  <2> QED BY <1>1, <2>1, <2>2, <2>3
<1> QED BY <1>8, <1>11, <1>12 DEF TypeInv, OwnWrite

LEMMA PeerChunkTypes ==
  ASSUME TypeInv, NEW c \in Csids, NEW fmt \in 0 .. 3, NEW o \in Out, NEW stamp \in Nat,
         o.left # 0, o.left <= o.len, PeerChunk(fmt, c, o, stamp)
  PROVE  /\ wire' \in Seq(Part) /\ out_size' \in Sizes /\ out' \in [Csids -> Out]
         /\ \A e \in Csids : out'[e].left <= out'[e].len
<1> DEFINE k == PeerOf(fmt, c, o, stamp, out_size)
<1>1. out_size \in Sizes /\ out \in [Csids -> Out] /\ wire \in Seq(Part)
  BY DEF TypeInv
<1>2. k = PeerOf(fmt, c, o, stamp, out_size)
  OBVIOUS
<1> HIDE DEF k
<1>3. /\ k \in Chunk /\ k.c = c /\ k.fmt = fmt /\ k.ext = o.ext /\ k.stamp = stamp
      /\ k.n = Less(out_size, o.left) /\ k.from = o.len - o.left /\ k.id = o.id
      /\ k.kind = o.kind /\ k.len = o.len
  BY <1>1, <1>2, PeerOfFacts
<1>4. wire' \in Seq(Part)
  <2>1. /\ wire \o Parts(k) \in Seq(Part)
        /\ wire \o Basic(k.fmt, k.c)
             \o (IF k.fmt = 3 THEN <<>> ELSE HeaderPart(Less(k.stamp, ExtTs), k.len, k.kind))
             \o (IF k.ext THEN ExtPart(k.stamp) ELSE <<>>)
             \o PayloadPart(k.id, k.from, k.n)
           = wire \o Parts(k)
    BY <1>1, <1>3, WireOf
  <2>2. wire' = wire \o Parts(k)
    BY <1>3, <2>1 DEF PeerChunk
  <2> QED BY <2>1, <2>2
<1>5. out_size' \in Sizes
  BY <1>1 DEF PeerChunk, SizeAfter, Sizes
<1> DEFINE rest == o.left - k.n
           o2 == [o EXCEPT !.left = rest, !.last = fmt]
<1>6. o2 \in Out /\ o2.left <= o2.len
  <2> DEFINE left == o.left
  <2>1. left \in 0 .. MaxLen /\ MaxLen \in Nat /\ o.len \in 0 .. MaxLen /\ left <= o.len
        /\ k.n \in Nat /\ k.n <= left
    <3>1. left \in 0 .. MaxLen /\ o.len \in 0 .. MaxLen
      BY DEF Out
    <3>2. MaxLen \in Nat /\ out_size \in Nat
      BY <1>1, ChunkConstants DEF Sizes
    <3>3. k.n \in Nat /\ k.n <= left
      <4>1. left \in Nat /\ k.n = Less(out_size, left)
        BY <1>3, <3>1, <3>2
      <4> HIDE DEF left
      <4> QED BY <3>2, <4>1 DEF Less
    <3> QED BY <3>1, <3>2, <3>3
  <2>2. rest \in 0 .. MaxLen /\ rest <= o.len
    <3> HIDE DEF left
    <3>1. left - k.n \in 0 .. MaxLen /\ left - k.n <= o.len
      BY <2>1
    <3> QED BY <3>1 DEF left
  <2> HIDE DEF rest
  <2>3. o2 \in Out /\ o2.left = rest /\ o2.len = o.len
    BY <2>2 DEF Out
  <2> QED BY <2>2, <2>3
<1>7. out' = [out EXCEPT ![c] = o2]
  BY <1>3 DEF PeerChunk
<1> HIDE DEF o2
<1>8. out' \in [Csids -> Out]
  BY <1>1, <1>6, <1>7
<1>9. \A e \in Csids : out'[e].left <= out'[e].len
  BY <1>1, <1>6, <1>7 DEF TypeInv
<1> QED BY <1>4, <1>5, <1>8, <1>9

LEMMA PeerStartTypes ==
  ASSUME TypeInv, NEW c \in Csids, NEW fmt \in 0 .. 3, NEW kind \in Kinds,
         NEW stamp \in Stamps, NEW len \in Lens, PeerStart(c, fmt, kind, stamp, len)
  PROVE  TypeInv'
<1> DEFINE ts == IF fmt = 0 THEN stamp ELSE out[c].ts + stamp
           o == [ts |-> ts, delta |-> stamp, len |-> len, kind |-> kind, id |-> sent + 1,
                 left |-> len, last |-> fmt, ext |-> stamp >= ExtTs,
                 ever |-> out[c].ever \/ stamp >= ExtTs]
           m == Message(sent + 1, kind, ts, len)
<1>1. /\ sent \in Nat /\ out \in [Csids -> Out] /\ out[c] \in Out
      /\ pending \in [Csids -> Seq(Msg)]
  BY DEF TypeInv
<1>2. stamp \in Nat /\ len \in 1 .. MaxLen /\ MaxLen \in Nat
  BY ChunkConstants DEF Lens
<1>3. ts \in Nat
  BY <1>1, <1>2 DEF Out
<1>4. /\ PeerChunk(fmt, c, o, stamp) /\ pending' = [pending EXCEPT ![c] = Append(@, m)]
      /\ sent' = sent + 1 /\ sent < MaxMsgs /\ UNCHANGED <<own, rd, busy>>
      /\ odd' = (odd \/ Mishandled(fmt, c, o) \/ kind = "other")
  BY DEF PeerStart, MaySend
<1> HIDE DEF ts
<1>5. o \in Out
  <2>1. out[c].ever \in BOOLEAN
    BY <1>1 DEF Out
  <2>2. (out[c].ever \/ stamp >= ExtTs) \in BOOLEAN /\ (stamp >= ExtTs) \in BOOLEAN
    BY <2>1
  <2> QED BY <1>1, <1>2, <1>3, <2>2 DEF Out
<1>6. o.left # 0 /\ o.left <= o.len
  BY <1>2
<1> HIDE DEF o
<1>7. /\ wire' \in Seq(Part) /\ out_size' \in Sizes /\ out' \in [Csids -> Out]
      /\ \A e \in Csids : out'[e].left <= out'[e].len
  BY <1>2, <1>4, <1>5, <1>6, PeerChunkTypes
<1>8. m \in Msg
  <2>1. sent + 1 \in Nat /\ len \in Nat
    BY <1>1, <1>2
  <2> QED BY <1>3, <2>1, MessageOf
<1> HIDE DEF m
<1>9. pending' \in [Csids -> Seq(Msg)]
  BY <1>1, <1>4, <1>8, PutTypes
<1>10. sent' \in 0 .. MaxMsgs
  <2>1. MaxMsgs \in Nat
    BY ChunkConstants
  <2> QED BY <1>1, <1>4, <2>1
<1>11. odd' \in BOOLEAN
  BY <1>4 DEF TypeInv
<1> QED BY <1>4, <1>7, <1>9, <1>10, <1>11 DEF TypeInv

LEMMA PeerContinueTypes ==
  ASSUME TypeInv, NEW c \in Csids, PeerContinue(c)
  PROVE  TypeInv'
<1>1. out[c] \in Out /\ out[c].left <= out[c].len
  BY DEF TypeInv
<1>2. out[c].left # 0 /\ PeerChunk(3, c, out[c], out[c].delta)
  BY <1>1, ChunkConstants DEF PeerContinue, Out
<1>3. out[c].delta \in Nat /\ 3 \in 0 .. 3
  BY <1>1 DEF Out
<1>4. /\ wire' \in Seq(Part) /\ out_size' \in Sizes /\ out' \in [Csids -> Out]
      /\ \A e \in Csids : out'[e].left <= out'[e].len
  BY <1>1, <1>2, <1>3, PeerChunkTypes
<1>5. UNCHANGED <<own, sent, rd, busy, pending, odd>>
  BY DEF PeerContinue
<1> QED BY <1>4, <1>5 DEF TypeInv

LEMMA OnReadTypes ==
  ASSUME TypeInv, NEW n \in 1 .. Len(wire), OnRead(n)
  PROVE  TypeInv'
<1>1. wire \in Seq(Part) /\ n \in 0 .. Len(wire) /\ rd \in Reader /\ ReaderOK(rd)
      /\ rd.recv_buffer_ \in Seq(Part)
  BY DEF TypeInv, ReaderOK, Reader
<1>2. /\ SubSeq(wire, 1, n) \in Seq(Part) /\ SubSeq(wire, n + 1, Len(wire)) \in Seq(Part)
  BY <1>1, Split
<1> DEFINE b == rd.recv_buffer_ \o SubSeq(wire, 1, n)
<1>3. b \in Seq(Part)
  BY <1>1, <1>2, Concat
<1>4. rd' = [rd EXCEPT !.recv_buffer_ = b] /\ wire' = SubSeq(wire, n + 1, Len(wire)) /\ busy' = TRUE
  BY DEF OnRead
<1> HIDE DEF b
<1>5. ReaderOK(rd') /\ rd'.more = rd.more
  <2>1. /\ rd' \in Reader /\ rd'.cs_map_ = rd.cs_map_ /\ rd'.csid_ = rd.csid_
        /\ rd'.fmt_ready_ = rd.fmt_ready_ /\ rd'.more = rd.more
    BY <1>1, <1>3, <1>4 DEF Reader
  <2> QED BY <1>1, <2>1 DEF ReaderOK
<1>6. UNCHANGED <<own, sent, out_size, out, pending, odd>>
  BY DEF OnRead, senderVars
<1> QED BY <1>2, <1>4, <1>5, <1>6 DEF TypeInv

(* A round of the loop.                                                    *)
Round(b, h, r) ==
  b = ReadFmtCsid(rd) /\ h = ReadMessageHeader(b) /\ r = ReadMessagePayload(h)

LEMMA RoundTypes ==
  ASSUME ReaderOK(rd), NEW b, NEW h, NEW r, Round(b, h, r)
  PROVE  /\ ReaderOK(b) /\ ReaderOK(h) /\ ReaderOK(r)
         /\ r.more \/ r.lost \/ r.csid_ \in Csids
         /\ h.csid_ = b.csid_ /\ r.csid_ = b.csid_ /\ h.torn = b.torn /\ r.torn = b.torn
         /\ rd.torn => b.torn
         /\ b.more \/ b.lost => h = b /\ r = b
         /\ h.more \/ h.lost => r = h
<1>1. ReaderOK(b) /\ (b.more \/ b.lost \/ b.csid_ \in Csids) /\ (rd.torn => b.torn)
  BY BasicTypes DEF Round
<1>2. Typed(h, b)
  BY <1>1, HeaderTypes DEF Round
<1>3. b.more \/ b.lost => h = b
  BY DEF Round, ReadMessageHeader
<1>4. h.more \/ h.lost => r = h
  <2>1. ASSUME h.more \/ h.lost PROVE ReadMessagePayload(h) = h
    BY <2>1, Zenon DEF ReadMessagePayload
  <2> QED BY <2>1 DEF Round
<1>5. h.more \/ h.lost \/ h.csid_ \in Csids
  BY <1>1, <1>2, <1>3 DEF Typed
<1>6. Typed(r, h)
  BY <1>2, <1>5, PayloadTypes DEF Round, Typed
<1>7. r.more \/ r.lost \/ r.csid_ \in Csids
  BY <1>4, <1>5, <1>6 DEF Typed
<1> QED BY <1>1, <1>2, <1>3, <1>4, <1>6, <1>7 DEF Typed

LEMMA ReceiveTypes ==
  ASSUME TypeInv, ReceiveRespMessage
  PROVE  TypeInv' /\ (rd.torn => rd'.torn)
<1> DEFINE b == ReadFmtCsid(rd)
           h == ReadMessageHeader(b)
           r == ReadMessagePayload(h)
           cs == r.cs_map_[r.csid_]
<1>1. Round(b, h, r)
  BY DEF Round
<1>2. /\ busy' \in BOOLEAN
      /\ \/ (r.more \/ r.lost) /\ rd' = [r EXCEPT !.more = FALSE] /\ pending' = pending
         \/ ~(r.more \/ r.lost) /\ rd' = r /\ pending' = pending
         \/ /\ ~(r.more \/ r.lost) /\ rd' = AfterMessage(r, cs)
            /\ pending' = [pending EXCEPT ![r.csid_] = IF @ = <<>> THEN @ ELSE Tail(@)]
  BY DEF ReceiveRespMessage, TypeInv
<1> HIDE DEF b, h, r
<1>3. ReaderOK(rd) /\ pending \in [Csids -> Seq(Msg)]
  BY DEF TypeInv
<1>4. ReaderOK(r) /\ (r.more \/ r.lost \/ r.csid_ \in Csids) /\ (rd.torn => r.torn) /\ r \in Reader
  <2>1. ReaderOK(r) /\ (r.more \/ r.lost \/ r.csid_ \in Csids) /\ (rd.torn => r.torn)
    BY <1>1, <1>3, RoundTypes
  <2> QED BY <2>1 DEF ReaderOK
<1>5. CASE (r.more \/ r.lost) /\ rd' = [r EXCEPT !.more = FALSE] /\ pending' = pending
  <2>1. /\ rd' \in Reader /\ rd'.cs_map_ = r.cs_map_ /\ rd'.csid_ = r.csid_
        /\ rd'.fmt_ready_ = r.fmt_ready_ /\ rd'.more = FALSE /\ rd'.torn = r.torn
    BY <1>4, <1>5 DEF Reader
  <2>2. ReaderOK(rd') /\ ~rd'.more /\ (rd.torn => rd'.torn)
    BY <1>4, <2>1 DEF ReaderOK
  <2> QED BY <1>2, <1>3, <1>5, <2>2 DEF ReceiveRespMessage, senderVars, TypeInv
<1>6. CASE ~(r.more \/ r.lost) /\ rd' = r /\ pending' = pending
  BY <1>2, <1>3, <1>4, <1>6 DEF ReceiveRespMessage, senderVars, TypeInv
<1>7. CASE /\ ~(r.more \/ r.lost) /\ rd' = AfterMessage(r, cs)
           /\ pending' = [pending EXCEPT ![r.csid_] = IF @ = <<>> THEN @ ELSE Tail(@)]
  <2> DEFINE c == r.csid_
  <2>1. c \in Csids
    BY <1>4, <1>7
  <2>2. ReaderOK(rd') /\ rd'.torn = r.torn /\ rd'.more = r.more
    BY <1>4, <1>7, <2>1, AfterTypes
  <2>3. pending' \in [Csids -> Seq(Msg)]
    <3> DEFINE left == IF pending[c] = <<>> THEN pending[c] ELSE Tail(pending[c])
    <3>1. left \in Seq(Msg)
      BY <1>3, <2>1, Taken
    <3>2. pending' = [pending EXCEPT ![c] = left]
      BY <1>7
    <3> HIDE DEF left
    <3> QED BY <1>3, <3>1, <3>2
  <2> QED BY <1>2, <1>4, <1>7, <2>2, <2>3 DEF ReceiveRespMessage, senderVars, TypeInv
<1> QED BY <1>2, <1>5, <1>6, <1>7

-----------------------------------------------------------------------------
(* The dialogue is kept.                                                   *)

(* Parts of the wire come into the buffer.                                 *)
LEMMA AtMoved ==
  ASSUME NEW ph, NEW r, NEW r2, NEW w, NEW w2 \in Seq(Part), NEW pend, NEW n, NEW ck, NEW pos,
         NEW st, At(ph, r, w, pend, n, ck, pos, st),
         r2.recv_buffer_ \o w2 = r.recv_buffer_ \o w,
         r2.chunk_size_ = r.chunk_size_, r2.lost = r.lost,
         r2.csid_ = r.csid_, r2.cs_map_ = r.cs_map_, r2.fmt_ready_ = r.fmt_ready_,
         r2.fmt_ = r.fmt_
  PROVE  At(ph, r2, w2, pend, n, ck, pos, st)
  BY DEF At, Before, InChunk, BehindBasic, BehindHead

LEMMA OnReadKeeps ==
  ASSUME TypeInv, NEW n \in 1 .. Len(wire), OnRead(n), NEW ph, NEW mine, NEW size, NEW outs,
         Dialogue(ph, rd, wire, pending, mine, size, outs)
  PROVE  Dialogue(ph, rd', wire', pending, mine, size, outs) /\ rd'.torn = rd.torn
<1>1. wire \in Seq(Part) /\ n \in 0 .. Len(wire) /\ rd \in Reader /\ rd.recv_buffer_ \in Seq(Part)
  BY DEF TypeInv, ReaderOK, Reader
<1>2. /\ wire' = SubSeq(wire, n + 1, Len(wire)) /\ wire' \in Seq(Part)
  BY <1>1, Split DEF OnRead
<1> DEFINE b == rd.recv_buffer_ \o SubSeq(wire, 1, n)
<1>3. rd' = [rd EXCEPT !.recv_buffer_ = b]
  BY DEF OnRead
<1>4. b \o wire' = rd.recv_buffer_ \o wire
  BY <1>1, <1>2, Rejoined
<1> HIDE DEF b
<1>5. /\ rd'.recv_buffer_ = b /\ rd'.chunk_size_ = rd.chunk_size_ /\ rd'.lost = rd.lost
      /\ rd'.csid_ = rd.csid_ /\ rd'.cs_map_ = rd.cs_map_ /\ rd'.fmt_ready_ = rd.fmt_ready_
      /\ rd'.fmt_ = rd.fmt_ /\ rd'.torn = rd.torn
  BY <1>1, <1>3 DEF Reader
<1>6. PICK m, ck, pos, st : /\ At(ph, rd, wire, pending, m, ck, pos, st)
                            /\ Ends(st[m + 1], mine, size, outs, pending)
  BY DEF Dialogue
<1>7. At(ph, rd', wire', pending, m, ck, pos, st)
  BY ZenonT(60), <1>2, <1>4, <1>5, <1>6, AtMoved
<1> QED BY <1>5, <1>6, <1>7 DEF Dialogue

(* What ReadChunkStream returns: a call for more, at any place of a chunk, *)
(* a chunk or a message.                                                   *)
Read(r, w, pend, mine, size, outs) ==
  \/ r.more /\ ~r.lost /\ \E ph \in 0 .. 2 : Dialogue(ph, r, w, pend, mine, size, outs)
  \/ /\ ~r.more /\ ~r.lost /\ ~r.cs_map_[r.csid_].ready
     /\ Dialogue(0, r, w, pend, mine, size, outs)
  \/ /\ ~r.more /\ ~r.lost /\ Due(r, r.csid_, pend)
     /\ Dialogue(0, AfterMessage(r, r.cs_map_[r.csid_]), w,
                 [pend EXCEPT ![r.csid_] = Tail(@)], mine, size, outs)

(* A reader in the dialogue does not lose its place.                       *)
LEMMA NotLost ==
  ASSUME NEW ph, NEW r, NEW w, NEW pend, NEW n, NEW ck, NEW pos, NEW st,
         At(ph, r, w, pend, n, ck, pos, st)
  PROVE  ~r.lost
  BY DEF At

(* Behind the message header.                                              *)
LEMMA HeadRound ==
  ASSUME NEW b, ReaderOK(b), ~b.more, NEW h, ReaderOK(h), h = ReadMessageHeader(b),
         NEW w, NEW pend \in [Csids -> Seq(Msg)], NEW ph \in 1 .. 2,
         NEW mine, NEW size, NEW outs, Dialogue(ph, b, w, pend, mine, size, outs)
  PROVE  \/ h.more /\ ~h.lost /\ Dialogue(1, h, w, pend, mine, size, outs)
         \/ ~h.more /\ ~h.lost /\ Dialogue(2, h, w, pend, mine, size, outs)
<1>1. PICK n, ck, pos, st : /\ At(ph, b, w, pend, n, ck, pos, st)
                            /\ Ends(st[n + 1], mine, size, outs, pend)
  BY DEF Dialogue
<1>2. CASE ph = 1
  <2>1. \/ h.more /\ At(1, h, w, pend, n, ck, pos, st)
        \/ ~h.more /\ \E pos2 : At(2, h, w, pend, n, ck, pos2, st)
    BY <1>1, <1>2, HeaderReads
  <2>2. CASE h.more /\ At(1, h, w, pend, n, ck, pos, st)
    BY <1>1, <2>2, NotLost DEF Dialogue
  <2>3. CASE ~h.more /\ \E pos2 : At(2, h, w, pend, n, ck, pos2, st)
    <3>1. PICK pos2 : At(2, h, w, pend, n, ck, pos2, st)
      BY <2>3
    <3> QED BY <1>1, <2>3, <3>1, NotLost DEF Dialogue
  <2> QED BY <2>1, <2>2, <2>3
<1>3. CASE ph = 2
  <2>1. h = b
    BY <1>1, <1>3, HeaderWasRead
  <2> QED BY <1>1, <1>3, <2>1, NotLost DEF Dialogue
<1> QED BY <1>2, <1>3

(* The three readers one after the other.                                  *)
LEMMA RoundReads ==
  ASSUME ReaderOK(rd), ~rd.more, NEW w, NEW pend \in [Csids -> Seq(Msg)], NEW ph \in 0 .. 2,
         NEW mine, NEW size, NEW outs \in [Csids -> Out],
         Dialogue(ph, rd, w, pend, mine, size, outs),
         NEW b, NEW h, NEW r, Round(b, h, r), ~b.torn
  PROVE  Read(r, w, pend, mine, size, outs)
<1>1. /\ ReaderOK(b) /\ ReaderOK(h)
      /\ b.more \/ b.lost => h = b /\ r = b
      /\ h.more \/ h.lost => r = h
  BY RoundTypes
<1>2. PICK n, ck, pos, st : /\ At(ph, rd, w, pend, n, ck, pos, st)
                            /\ Ends(st[n + 1], mine, size, outs, pend)
  BY DEF Dialogue
<1>3. \/ b.more /\ b.lost = rd.lost /\ At(ph, b, w, pend, n, ck, pos, st)
      \/ ~b.more /\ \E ph2 \in 1 .. 2 : \E pos2 : At(ph2, b, w, pend, n, ck, pos2, st)
  BY <1>2, BasicReads DEF Round
<1>4. CASE b.more /\ At(ph, b, w, pend, n, ck, pos, st)
  <2>1. Dialogue(ph, b, w, pend, mine, size, outs) /\ ~b.lost
    BY <1>2, <1>4, NotLost DEF Dialogue
  <2> QED BY <1>1, <1>4, <2>1 DEF Read
<1>5. CASE ~b.more /\ \E ph2 \in 1 .. 2 : \E pos2 : At(ph2, b, w, pend, n, ck, pos2, st)
  <2>1. PICK ph2 \in 1 .. 2 : \E pos2 : At(ph2, b, w, pend, n, ck, pos2, st)
    BY <1>5
  <2>2. Dialogue(ph2, b, w, pend, mine, size, outs)
    <3>1. PICK pos2 : At(ph2, b, w, pend, n, ck, pos2, st)
      BY <2>1
    <3> QED BY <1>2, <3>1 DEF Dialogue
  <2>3. h = ReadMessageHeader(b) /\ r = ReadMessagePayload(h)
    BY DEF Round
  <2>4. \/ h.more /\ ~h.lost /\ Dialogue(1, h, w, pend, mine, size, outs)
        \/ ~h.more /\ ~h.lost /\ Dialogue(2, h, w, pend, mine, size, outs)
    BY <1>1, <1>5, <2>2, <2>3, HeadRound
  <2>5. CASE h.more /\ ~h.lost /\ Dialogue(1, h, w, pend, mine, size, outs)
    BY <1>1, <2>5 DEF Read
  <2>6. CASE ~h.more /\ ~h.lost /\ Dialogue(2, h, w, pend, mine, size, outs)
    <3>1. Received(r, h, w, pend, mine, size, outs)
      BY <1>1, <2>3, <2>6, PayloadReads
    <3>2. CASE r.more
      BY <3>1, <3>2 DEF Received, Read
    <3>3. CASE ~r.more
      <4>1. r.csid_ = h.csid_
        BY <3>1, <3>3 DEF Received
      <4>2. \/ /\ ~r.lost /\ ~r.cs_map_[h.csid_].ready /\ Dialogue(0, r, w, pend, mine, size, outs)
            \/ /\ ~r.lost /\ Due(r, h.csid_, pend)
               /\ Dialogue(0, AfterMessage(r, r.cs_map_[h.csid_]), w,
                           [pend EXCEPT ![h.csid_] = Tail(@)], mine, size, outs)
        BY <3>1, <3>3 DEF Received
      <4>3. CASE /\ ~r.lost /\ ~r.cs_map_[h.csid_].ready
                 /\ Dialogue(0, r, w, pend, mine, size, outs)
        BY <3>3, <4>1, <4>3 DEF Read
      <4>4. CASE /\ ~r.lost /\ Due(r, h.csid_, pend)
                 /\ Dialogue(0, AfterMessage(r, r.cs_map_[h.csid_]), w,
                             [pend EXCEPT ![h.csid_] = Tail(@)], mine, size, outs)
        <5> DEFINE c == h.csid_
        <5>1. /\ ~r.lost /\ Due(r, c, pend) /\ r.csid_ = c
              /\ Dialogue(0, AfterMessage(r, r.cs_map_[c]), w,
                          [pend EXCEPT ![c] = Tail(@)], mine, size, outs)
          BY <4>1, <4>4
        <5> HIDE DEF c
        <5> QED BY <3>3, <5>1, Zenon DEF Read
      <4> QED BY <4>2, <4>3, <4>4
    <3> QED BY <3>2, <3>3
  <2> QED BY <2>4, <2>5, <2>6
<1> QED BY <1>3, <1>4, <1>5

(* A step of the channel: a message is handed over, or none.               *)
HandsOver ==
  \/ UNCHANGED <<pending, got>>
  \/ \E c \in Csids : /\ pending[c] # <<>> /\ got' = <<c, Head(pending[c])>>
                      /\ pending' = [pending EXCEPT ![c] = Tail(@)]

(* The dialogue goes on behind the round, and the channel has handed over  *)
(* a message or done nothing.                                              *)
LEMMA ReceiveKeeps ==
  ASSUME TypeInv, ReceiveRespMessage, ~rd'.torn, NEW ph \in 0 .. 2,
         Dialogue(ph, rd, wire, pending, own, out_size, out)
  PROVE  /\ \E ph2 \in 0 .. 2 : Dialogue(ph2, rd', wire, pending', own, out_size, out)
         /\ HandsOver
<1> DEFINE b == ReadFmtCsid(rd)
           h == ReadMessageHeader(b)
           r == ReadMessagePayload(h)
           cs == r.cs_map_[r.csid_]
           c == r.csid_
           msg == [kind |-> cs.kind, ts |-> cs.timestamp32_, body |-> cs.data]
<1>1. Round(b, h, r)
  BY DEF Round
<1>2. \/ /\ r.more \/ r.lost
         /\ rd' = [r EXCEPT !.more = FALSE] /\ pending' = pending /\ got' = got
      \/ ~(r.more \/ r.lost) /\ ~cs.ready /\ rd' = r /\ pending' = pending /\ got' = got
      \/ /\ ~(r.more \/ r.lost) /\ cs.ready /\ rd' = AfterMessage(r, cs) /\ got' = <<c, msg>>
         /\ pending' = [pending EXCEPT ![c] = IF @ = <<>> THEN @ ELSE Tail(@)]
  BY DEF ReceiveRespMessage
<1> HIDE DEF b, h, r, msg
<1>3. /\ ReaderOK(rd) /\ ~rd.more /\ pending \in [Csids -> Seq(Msg)] /\ out \in [Csids -> Out]
  BY DEF TypeInv
<1>4. /\ ReaderOK(r) /\ (r.more \/ r.lost \/ c \in Csids) /\ r.torn = b.torn /\ r \in Reader
  <2>1. ReaderOK(r) /\ (r.more \/ r.lost \/ c \in Csids) /\ r.torn = b.torn
    BY <1>1, <1>3, RoundTypes
  <2> QED BY <2>1 DEF ReaderOK
<1>5. rd'.torn = r.torn
  <2>1. CASE rd' = [r EXCEPT !.more = FALSE]
    BY <1>4, <2>1 DEF Reader
  <2>2. CASE rd' = r
    BY <2>2
  <2>3. CASE rd' = AfterMessage(r, cs) /\ c \in Csids
    BY <1>4, <2>3, AfterTypes
  <2> QED BY <1>2, <1>4, <2>1, <2>2, <2>3
<1>6. Read(r, wire, pending, own, out_size, out)
  BY <1>1, <1>3, <1>4, <1>5, RoundReads
<1>7. CASE r.more /\ \E ph2 \in 0 .. 2 : Dialogue(ph2, r, wire, pending, own, out_size, out)
  <2>1. PICK ph2 \in 0 .. 2 : Dialogue(ph2, r, wire, pending, own, out_size, out)
    BY <1>7
  <2>2. rd' = [r EXCEPT !.more = FALSE] /\ pending' = pending /\ got' = got
    BY <1>2, <1>7
  <2>3. PICK n, ck, pos, st : /\ At(ph2, r, wire, pending, n, ck, pos, st)
                              /\ Ends(st[n + 1], own, out_size, out, pending)
    BY <2>1 DEF Dialogue
  <2>4. /\ rd'.recv_buffer_ = r.recv_buffer_ /\ rd'.chunk_size_ = r.chunk_size_
        /\ rd'.lost = r.lost /\ rd'.csid_ = r.csid_ /\ rd'.cs_map_ = r.cs_map_
        /\ rd'.fmt_ready_ = r.fmt_ready_ /\ rd'.fmt_ = r.fmt_
    BY <1>4, <2>2 DEF Reader
  <2>5. At(ph2, rd', wire, pending, n, ck, pos, st)
    BY <2>3, <2>4, AtSame
  <2>6. Dialogue(ph2, rd', wire, pending', own, out_size, out)
    BY <2>2, <2>3, <2>5 DEF Dialogue
  <2> QED BY <2>2, <2>6 DEF HandsOver
<1>8. CASE ~r.more /\ ~r.lost /\ ~cs.ready /\ Dialogue(0, r, wire, pending, own, out_size, out)
  <2>1. rd' = r /\ pending' = pending /\ got' = got
    BY <1>2, <1>8
  <2>2. Dialogue(0, rd', wire, pending', own, out_size, out) /\ 0 \in 0 .. 2
    BY <1>8, <2>1
  <2> QED BY <2>1, <2>2 DEF HandsOver
<1>9. CASE /\ ~r.more /\ ~r.lost /\ Due(r, c, pending)
           /\ Dialogue(0, AfterMessage(r, cs), wire, [pending EXCEPT ![c] = Tail(@)],
                       own, out_size, out)
  <2>1. cs.ready /\ pending[c] # <<>> /\ Head(pending[c]) = msg
    BY <1>9 DEF Due, msg
  <2>2. c \in Csids
    BY <1>4, <1>9
  <2>3. rd' = AfterMessage(r, cs) /\ got' = <<c, msg>>
        /\ pending' = [pending EXCEPT ![c] = IF @ = <<>> THEN @ ELSE Tail(@)]
    BY <1>2, <1>9, <2>1
  <2>4. pending' = [pending EXCEPT ![c] = Tail(@)]
    BY <2>1, <2>3
  <2>5. Dialogue(0, rd', wire, pending', own, out_size, out) /\ 0 \in 0 .. 2
    <3> DEFINE a == AfterMessage(r, cs)
               pend2 == [pending EXCEPT ![c] = Tail(@)]
    <3>1. rd' = a /\ pending' = pend2 /\ Dialogue(0, a, wire, pend2, own, out_size, out)
      BY <1>9, <2>3, <2>4
    <3> HIDE DEF a, pend2
    <3> QED BY <3>1
  <2>6. HandsOver
    BY <2>1, <2>2, <2>3, <2>4 DEF HandsOver
  <2> QED BY <2>5, <2>6
<1> QED BY <1>6, <1>7, <1>8, <1>9 DEF Read

-----------------------------------------------------------------------------
(* The inductive invariant.                                                *)

(* Until the sender uses what the reader does not handle, or a read tears  *)
(* a basic header, the two ends are in a dialogue.                         *)
ChunkInv ==
  /\ TypeInv
  /\ ~odd /\ ~rd.torn =>
       \E ph \in 0 .. 2 : Dialogue(ph, rd, wire, pending, own, out_size, out)

(* Initially nothing is in the buffer or in TCP: the run is empty.         *)
LEMMA InitTypes == Init => TypeInv
<1> SUFFICES ASSUME Init PROVE TypeInv
  OBVIOUS
<1> DEFINE o == [ts |-> 0, delta |-> 0, len |-> 0, kind |-> "data", id |-> 0, left |-> 0,
                 last |-> 0, ext |-> FALSE, ever |-> FALSE]
           r == [recv_buffer_ |-> <<>>, fmt_ready_ |-> FALSE, fmt_ |-> 0, csid_ |-> "none",
                 chunk_size_ |-> DefSize, cs_map_ |-> [c \in Csids |-> ChunkStream],
                 more |-> FALSE, lost |-> FALSE, torn |-> FALSE]
<1>1. MaxLen \in Nat /\ MaxMsgs \in Nat /\ "data" \in Kinds /\ DefSize \in Sizes
  BY ChunkConstants DEF Kinds, Sizes
<1>2. o \in Out
  BY <1>1 DEF Out
<1>3. CsOK(ChunkStream)
  <2>1. <<>> \in Seq(Nat \X Nat)
    OBVIOUS
  <2>2. ChunkStream \in Cs
    BY <1>1, <2>1 DEF ChunkStream, Cs
  <2>3. ChunkStream.remain_ = 0 /\ ChunkStream.msg_len_ = 0
    BY DEF ChunkStream
  <2> QED BY <2>2, <2>3 DEF CsOK
<1>4. ReaderOK(r) /\ ~r.more
  <2> DEFINE map == [c \in Csids |-> ChunkStream]
  <2>1. map \in [Csids -> Cs] /\ \A c \in Csids : map[c] = ChunkStream
    BY <1>3 DEF CsOK
  <2>2. <<>> \in Seq(Part) /\ 0 \in 0 .. 3 /\ "none" \in Csids \cup {"none"}
    OBVIOUS
  <2> HIDE DEF map
  <2>3. r \in Reader
    BY <1>1, <2>1, <2>2 DEF Reader
  <2> QED BY <1>3, <2>1, <2>3 DEF ReaderOK, CsOK
<1>5. rd = r /\ out = [c \in Csids |-> o]
  BY DEF Init
<1> HIDE DEF o, r
<1>6. out \in [Csids -> Out]
  BY <1>2, <1>5
<1>7. \A c \in Csids : out[c].left <= out[c].len
  BY <1>1, <1>5 DEF o
<1>8. pending \in [Csids -> Seq(Msg)]
  <2>1. <<>> \in Seq(Msg)
    OBVIOUS
  <2> QED BY <2>1 DEF Init
<1>9. wire \in Seq(Part)
  BY DEF Init
<1>10. /\ own \in BOOLEAN /\ sent \in 0 .. MaxMsgs /\ out_size \in Sizes
       /\ busy \in BOOLEAN /\ odd \in BOOLEAN
  <2>1. sent \in 0 .. MaxMsgs
    BY <1>1 DEF Init
  <2>2. out_size \in Sizes
    BY <1>1 DEF Init
  <2>3. own \in BOOLEAN /\ busy \in BOOLEAN /\ odd \in BOOLEAN
    BY DEF Init
  <2> QED BY <2>1, <2>2, <2>3
<1> QED BY <1>4, <1>5, <1>6, <1>7, <1>8, <1>9, <1>10 DEF TypeInv

LEMMA InitDialogue == Init => Dialogue(0, rd, wire, pending, own, out_size, out)
<1> SUFFICES ASSUME Init PROVE Dialogue(0, rd, wire, pending, own, out_size, out)
  OBVIOUS
<1> DEFINE x == [fmt |-> 0, flag |-> FALSE, ts |-> 0, delta |-> 0, kind |-> "data", len |-> 0,
                 remain |-> 0, q |-> 0]
           s == [size |-> DefSize, cs |-> [c \in Csids |-> x]]
           st == [i \in 1 .. 1 |-> s]
           pos == [i \in 1 .. 1 |-> 0]
           ck == <<>>
<1>1. x \in Mid
  BY ChunkConstants DEF Mid, Kinds
<1>2. /\ x.fmt = 0 /\ x.flag = FALSE /\ x.ts = 0 /\ x.delta = 0 /\ x.kind = "data" /\ x.len = 0
      /\ x.remain = 0 /\ x.q = 0
  OBVIOUS
<1>3. Resting(x, <<>>) = ChunkStream
  BY DEF Resting, ChunkStream
<1> HIDE DEF x
<1>4. s \in State /\ s.size = DefSize /\ \A c \in Csids : On(s, c) = x
  BY <1>1 DEF State, Sizes, On
<1> HIDE DEF s
<1>5. st[1] = s /\ pos[1] = 0
  OBVIOUS
<1> HIDE DEF st, pos, ck
<1>6. /\ wire = <<>> /\ rd.recv_buffer_ = <<>> /\ rd.chunk_size_ = DefSize /\ ~rd.lost
      /\ ~rd.fmt_ready_ /\ \A c \in Csids : rd.cs_map_[c] = ChunkStream /\ pending[c] = <<>>
  BY DEF Init
<1>7. Run(rd.recv_buffer_ \o wire, pending, 0, ck, pos, st)
  <2>1. Len(rd.recv_buffer_ \o wire) = 0
    BY <1>6
  <2>2. ASSUME NEW i \in 1 .. 0 + 1
        PROVE  /\ pos[i] \in Int /\ pos[i] <= Len(rd.recv_buffer_ \o wire) /\ st[i] \in State
               /\ \A c \in Csids : Fits(On(st[i], c), pending[c])
    <3>1. i = 1
      OBVIOUS
    <3>2. ASSUME NEW c \in Csids PROVE Fits(x, pending[c])
      BY <1>2, <1>6 DEF Fits
    <3> QED BY <1>4, <1>5, <2>1, <3>1, <3>2
  <2>3. pos[0 + 1] = Len(rd.recv_buffer_ \o wire)
    BY <1>5, <2>1
  <2> QED BY <2>2, <2>3 DEF Run
<1>8. At(0, rd, wire, pending, 0, ck, pos, st)
  <2>1. wire \in Seq(Part)
    BY <1>6
  <2> QED BY <1>2, <1>3, <1>4, <1>5, <1>6, <1>7, <2>1, AtBetween
<1>9. Ends(st[0 + 1], own, out_size, out, pending)
  <2>1. ASSUME NEW c \in Csids PROVE Ended(own, x, out[c], pending[c])
    <3>1. /\ out[c].left = 0 /\ out[c].last = 0 /\ out[c].ever = FALSE /\ out[c].ts = 0
          /\ out[c].kind = "data" /\ out[c].len = 0 /\ out[c].delta = 0
      BY DEF Init
    <3>2. ~(out[c].delta >= ExtTs)
      BY <3>1, ChunkConstants
    <3> DEFINE o == out[c]
    <3>3. /\ o.left = 0 /\ x.remain = o.left /\ x.fmt = o.last /\ x.flag = o.ever /\ x.ts = o.ts
          /\ x.kind = o.kind /\ x.len = o.len /\ ~(o.delta >= ExtTs) /\ x.fmt \notin {1, 2}
      <4>1. x.flag = o.ever
        BY <1>2, <3>1
      <4>2. ~(o.delta >= ExtTs)
        BY <3>2
      <4>3. x.fmt \notin {1, 2}
        BY <1>2
      <4> QED BY <1>2, <3>1, <4>1, <4>2, <4>3
    <3>4. x.q = Len(pending[c])
      BY <1>2, <1>6
    <3> HIDE DEF o
    <3>5. Ended(own, x, o, pending[c])
      BY <3>3, <3>4 DEF Ended
    <3> QED BY <3>5 DEF o
  <2>2. out_size = DefSize
    BY DEF Init
  <2> QED BY <1>4, <1>5, <2>1, <2>2 DEF Ends
<1> QED BY <1>8, <1>9 DEF Dialogue

(* What the sender did wrong stays.                                        *)
LEMMA StaysBroken ==
  ASSUME ChunkInv, [Next]_vars
  PROVE  odd \/ rd.torn => odd' \/ rd'.torn
<1>1. CASE \E c \in Csids, kind \in Kinds, stamp \in Stamps, len \in Lens :
             \/ OwnWrite(c, kind, stamp, len)
             \/ \E fmt \in 0..3 : PeerStart(c, fmt, kind, stamp, len)
  <2>1. PICK c \in Csids, kind \in Kinds, stamp \in Stamps, len \in Lens :
               \/ OwnWrite(c, kind, stamp, len)
               \/ \E fmt \in 0..3 : PeerStart(c, fmt, kind, stamp, len)
    BY <1>1
  <2>2. CASE OwnWrite(c, kind, stamp, len)
    BY <2>2, Zenon DEF OwnWrite
  <2>3. ASSUME NEW fmt \in 0 .. 3, PeerStart(c, fmt, kind, stamp, len)
        PROVE  rd' = rd /\ (odd => odd')
    BY <2>3, Zenon DEF PeerStart
  <2> QED BY <2>1, <2>2, <2>3
<1>2. CASE \E c \in Csids : PeerContinue(c)
  BY <1>2 DEF PeerContinue
<1>3. CASE \E n \in 1..Len(wire) : OnRead(n)
  <2>1. rd \in Reader
    BY DEF ChunkInv, TypeInv, ReaderOK
  <2> QED BY <1>3, <2>1 DEF OnRead, Reader
<1>4. CASE ReceiveRespMessage
  <2>1. rd.torn => rd'.torn
    BY <1>4, ReceiveTypes DEF ChunkInv
  <2>2. odd' = odd
    BY <1>4 DEF ReceiveRespMessage
  <2> QED BY <2>1, <2>2
<1>5. CASE UNCHANGED vars
  BY <1>5 DEF vars
<1> QED BY <1>1, <1>2, <1>3, <1>4, <1>5 DEF Next

(* A message is put in, one is handed over, or neither.                    *)
PutsIn ==
  /\ UNCHANGED got
  /\ \E c \in Csids, m \in Msg : pending' = [pending EXCEPT ![c] = Append(@, m)]

(* One lemma for each kind of step.                                        *)
LEMMA SendKeeps ==
  ASSUME ChunkInv, ~odd', ~rd.torn, ~odd, NEW c \in Csids, NEW kind \in Kinds,
         NEW stamp \in Stamps, NEW len \in Lens,
         \/ OwnWrite(c, kind, stamp, len)
         \/ \E fmt \in 0..3 : PeerStart(c, fmt, kind, stamp, len)
  PROVE  ChunkInv' /\ PutsIn
<1>1. TypeInv
  BY DEF ChunkInv
<1>2. PICK ph \in 0 .. 2 : Dialogue(ph, rd, wire, pending, own, out_size, out)
  BY DEF ChunkInv
<1>3. sent + 1 \in Nat /\ stamp \in Nat /\ len \in Nat
  BY <1>1, ChunkConstants DEF TypeInv, Lens
<1>4. CASE OwnWrite(c, kind, stamp, len)
  <2>1. TypeInv'
    BY <1>1, <1>4, OwnWriteTypes
  <2>2. Dialogue(ph, rd, wire', pending', own, out_size', out)
    BY <1>1, <1>2, <1>4, OwnWriteSends
  <2>3. /\ rd' = rd /\ own' = own /\ out' = out /\ got' = got
        /\ pending' = [pending EXCEPT ![c] = Append(@, Message(sent + 1, kind, stamp, len))]
    BY <1>4 DEF OwnWrite
  <2>4. Message(sent + 1, kind, stamp, len) \in Msg
    BY <1>3, MessageOf
  <2> QED BY <2>1, <2>2, <2>3, <2>4 DEF ChunkInv, PutsIn
<1>5. ASSUME NEW fmt \in 0 .. 3, PeerStart(c, fmt, kind, stamp, len)
      PROVE  ChunkInv' /\ PutsIn
  <2> DEFINE ts == IF fmt = 0 THEN stamp ELSE out[c].ts + stamp
  <2>1. TypeInv'
    BY <1>1, <1>5, PeerStartTypes
  <2>2. Dialogue(ph, rd, wire', pending', own, out_size', out')
    BY <1>1, <1>2, <1>5, PeerStartSends
  <2>3. /\ rd' = rd /\ own' = own /\ got' = got
        /\ pending' = [pending EXCEPT ![c] = Append(@, Message(sent + 1, kind, ts, len))]
    BY <1>5 DEF PeerStart
  <2>4. Message(sent + 1, kind, ts, len) \in Msg
    <3>1. out[c].ts \in Nat
      BY <1>1 DEF TypeInv, Out
    <3>2. ts \in Nat
      BY <1>3, <3>1
    <3> HIDE DEF ts
    <3> QED BY <1>3, <3>2, MessageOf
  <2> HIDE DEF ts
  <2> QED BY <2>1, <2>2, <2>3, <2>4 DEF ChunkInv, PutsIn
<1> QED BY <1>4, <1>5

LEMMA ReadKeeps ==
  ASSUME ChunkInv, ~odd, ~rd'.torn, ~rd.torn, ReceiveRespMessage
  PROVE  ChunkInv' /\ HandsOver
<1>1. TypeInv
  BY DEF ChunkInv
<1>2. PICK ph \in 0 .. 2 : Dialogue(ph, rd, wire, pending, own, out_size, out)
  BY DEF ChunkInv
<1>3. TypeInv'
  BY <1>1, ReceiveTypes
<1>4. /\ \E ph2 \in 0 .. 2 : Dialogue(ph2, rd', wire, pending', own, out_size, out)
      /\ HandsOver
  BY <1>1, <1>2, ReceiveKeeps
<1>5. UNCHANGED <<wire, own, out_size, out>>
  BY DEF ReceiveRespMessage, senderVars
<1> QED BY <1>3, <1>4, <1>5 DEF ChunkInv

LEMMA OthersKeep ==
  ASSUME ChunkInv, ~odd, ~rd.torn,
         \/ \E c \in Csids : PeerContinue(c)
         \/ \E n \in 1..Len(wire) : OnRead(n)
         \/ UNCHANGED vars
  PROVE  ChunkInv' /\ UNCHANGED <<pending, got>>
<1>1. TypeInv
  BY DEF ChunkInv
<1>2. PICK ph \in 0 .. 2 : Dialogue(ph, rd, wire, pending, own, out_size, out)
  BY DEF ChunkInv
<1>3. ASSUME NEW c \in Csids, PeerContinue(c)
      PROVE  ChunkInv' /\ UNCHANGED <<pending, got>>
  <2>1. TypeInv'
    BY <1>1, <1>3, PeerContinueTypes
  <2>2. Dialogue(ph, rd, wire', pending, own, out_size', out')
    BY <1>1, <1>2, <1>3, PeerContinueSends
  <2>3. UNCHANGED <<rd, own, pending, got>>
    BY <1>3 DEF PeerContinue
  <2> QED BY <2>1, <2>2, <2>3 DEF ChunkInv
<1>4. ASSUME NEW n \in 1 .. Len(wire), OnRead(n)
      PROVE  ChunkInv' /\ UNCHANGED <<pending, got>>
  <2>1. TypeInv'
    BY <1>1, <1>4, OnReadTypes
  <2>2. Dialogue(ph, rd', wire', pending, own, out_size, out)
    BY <1>1, <1>2, <1>4, OnReadKeeps
  <2>3. UNCHANGED <<own, out_size, out, pending, got>>
    BY <1>4 DEF OnRead, senderVars
  <2> QED BY <2>1, <2>2, <2>3 DEF ChunkInv
<1>5. CASE UNCHANGED vars
  <2>1. TypeInv'
    BY <1>1, <1>5 DEF TypeInv, vars, senderVars
  <2>2. UNCHANGED <<rd, wire, pending, own, out_size, out, got>>
    BY <1>5 DEF vars, senderVars
  <2> QED BY <1>2, <2>1, <2>2 DEF ChunkInv
<1> QED BY <1>3, <1>4, <1>5

LEMMA StepTypes == TypeInv /\ [Next]_vars => TypeInv'
<1> SUFFICES ASSUME TypeInv, [Next]_vars PROVE TypeInv'
  OBVIOUS
<1>1. CASE \E c \in Csids, kind \in Kinds, stamp \in Stamps, len \in Lens :
             \/ OwnWrite(c, kind, stamp, len)
             \/ \E fmt \in 0..3 : PeerStart(c, fmt, kind, stamp, len)
  BY <1>1, OwnWriteTypes, PeerStartTypes
<1>2. CASE \E c \in Csids : PeerContinue(c)
  BY <1>2, PeerContinueTypes
<1>3. CASE \E n \in 1..Len(wire) : OnRead(n)
  BY <1>3, OnReadTypes
<1>4. CASE ReceiveRespMessage
  BY <1>4, ReceiveTypes
<1>5. CASE UNCHANGED vars
  BY <1>5 DEF TypeInv, vars, senderVars
<1> QED BY <1>1, <1>2, <1>3, <1>4, <1>5 DEF Next

(* A step of any kind.                                                     *)
LEMMA StepKeeps ==
  ASSUME ChunkInv, [Next]_vars
  PROVE  /\ ChunkInv'
         /\ \/ odd' \/ rd'.torn
            \/ PutsIn
            \/ HandsOver
<1>1. TypeInv'
  BY StepTypes DEF ChunkInv
<1>2. CASE odd' \/ rd'.torn
  BY <1>1, <1>2 DEF ChunkInv
<1>3. CASE ~odd' /\ ~rd'.torn
  <2>1. ~odd /\ ~rd.torn
    BY <1>3, StaysBroken
  <2>2. CASE \E c \in Csids, kind \in Kinds, stamp \in Stamps, len \in Lens :
               \/ OwnWrite(c, kind, stamp, len)
               \/ \E fmt \in 0..3 : PeerStart(c, fmt, kind, stamp, len)
    BY <1>3, <2>1, <2>2, SendKeeps
  <2>3. CASE ReceiveRespMessage
    BY <1>3, <2>1, <2>3, ReadKeeps
  <2>4. CASE \/ \E c \in Csids : PeerContinue(c)
             \/ \E n \in 1..Len(wire) : OnRead(n)
             \/ UNCHANGED vars
    BY <2>1, <2>4, OthersKeep DEF HandsOver
  <2> QED BY <2>2, <2>3, <2>4 DEF Next
<1> QED BY <1>2, <1>3

-----------------------------------------------------------------------------
(* What the invariant says of the reader.                                  *)

Starts(p, b, d, len) == IsPrefix(p, b) /\ Len(p) = d /\ Len(b) = len

(* The first bytes of a body are a prefix of it.                           *)
LEMMA PrefixOf ==
  ASSUME NEW id \in Nat, NEW len \in Nat, NEW d \in Nat, d <= len
  PROVE  Starts(SubSeq(Body(id, len), 1, d), Body(id, len), d, len)
<1> DEFINE b == Body(id, len)
           p == SubSeq(b, 1, d)
<1>1. b \in Seq(Pairs) /\ Len(b) = len
  <2>1. \A i \in 1 .. len : <<id, i>> \in Pairs
    BY DEF Pairs
  <2>2. b \in [1 .. len -> Pairs]
    BY <2>1 DEF Body
  <2> HIDE DEF b
  <2> QED BY <2>2
<1>2. p = SubSeq(b, 1, d)
  OBVIOUS
<1> HIDE DEF b, p
<1>3. p \in Seq(Pairs) /\ Len(p) = d /\ \A i \in 1 .. d : p[i] = b[i]
  BY <1>1, <1>2
<1>4. SubSeq(p, 1, Len(p)) = p
  <2>1. SubSeq(p, 1, d) \in Seq(Pairs) /\ Len(SubSeq(p, 1, d)) = d
    BY <1>3
  <2>2. \A i \in 1 .. d : SubSeq(p, 1, d)[i] = p[i]
    BY <1>3
  <2> QED BY <1>3, <2>1, <2>2, SamePairs
<1>5. IsPrefix(p, b)
  BY <1>1, <1>2, <1>3, <1>4 DEF IsPrefix
<1> QED BY <1>1, <1>3, <1>5 DEF b, p, Starts

(* The buffer of a ChunkStream fits the next message due.                  *)
PartFits(data, remain, p) ==
  data # <<>> => /\ p # <<>> /\ IsPrefix(data, Head(p).body)
                 /\ Len(data) + remain = Len(Head(p).body)

LEMMA BodyFits ==
  ASSUME NEW p \in Seq(Msg), 0 < Len(p), NEW id \in Nat, NEW kind, NEW ts, NEW len \in Nat,
         p[1] = Message(id, kind, ts, len), NEW d \in Nat, NEW remain \in Nat, d + remain = len
  PROVE  PartFits(SubSeq(p[1].body, 1, d), remain, p)
<1> DEFINE data == SubSeq(p[1].body, 1, d)
<1>1. p[1].body = Body(id, len)
  BY DEF Message, Body
<1>2. p # <<>> /\ Head(p) = p[1]
  BY Taken
<1>3. Starts(SubSeq(Body(id, len), 1, d), Body(id, len), d, len)
  <2>1. d <= len
    OBVIOUS
  <2> QED BY <2>1, PrefixOf
<1>4. Starts(data, Head(p).body, d, len)
  BY <1>1, <1>2, <1>3
<1> HIDE DEF data
<1>5. PartFits(data, remain, p)
  BY <1>2, <1>4 DEF PartFits, Starts
<1> QED BY <1>5 DEF data

(* Between chunks, within a chunk: wherever the reader is.                 *)
LEMMA RestingFits ==
  ASSUME NEW x \in Mid, NEW p \in Seq(Msg), Fits(x, p), x.q = 0
  PROVE  PartFits(Resting(x, p).data, Resting(x, p).remain_, p)
<1> DEFINE data == Resting(x, p).data
<1>1. /\ data = IF x.remain = 0 THEN <<>> ELSE SubSeq(p[1].body, 1, x.len - x.remain)
      /\ Resting(x, p).remain_ = x.remain
  BY DEF Resting
<1> HIDE DEF data
<1>2. CASE x.remain = 0
  BY <1>1, <1>2 DEF PartFits, data
<1>3. CASE x.remain # 0
  <2>1. x.remain \in Nat /\ x.len \in Nat
    BY ChunkConstants DEF Mid
  <2>2. PICK id \in Nat : p[x.q + 1] = Message(id, x.kind, x.ts, x.len)
    BY <1>3 DEF Fits
  <2>3. p[1] = Message(id, x.kind, x.ts, x.len) /\ 0 < Len(p) /\ x.remain < x.len
    BY <1>3, <2>2 DEF Fits
  <2> DEFINE d == x.len - x.remain
             remain == x.remain
             len == x.len
  <2>4. /\ d \in Nat /\ remain \in Nat /\ len \in Nat /\ d + remain = len
        /\ p[1] = Message(id, x.kind, x.ts, len)
    BY <2>1, <2>3
  <2>5. data = SubSeq(p[1].body, 1, d)
    BY <1>1, <1>3
  <2> HIDE DEF d, remain, len
  <2>6. PartFits(SubSeq(p[1].body, 1, d), remain, p)
    BY <2>3, <2>4, BodyFits
  <2> QED BY <1>1, <2>5, <2>6 DEF data, remain
<1> QED BY <1>2, <1>3

LEMMA AtFits ==
  ASSUME NEW ph \in 0 .. 2, NEW r, r.recv_buffer_ \in Seq(Part), NEW w,
         NEW pend \in [Csids -> Seq(Msg)],
         NEW n, NEW ck, NEW pos, NEW st, At(ph, r, w, pend, n, ck, pos, st), NEW c \in Csids
  PROVE  PartFits(r.cs_map_[c].data, r.cs_map_[c].remain_, pend[c])
<1> DEFINE cs == r.cs_map_[c]
           x == On(st[1], c)
           p == pend[c]
           k == ck[1]
<1>1. x \in Mid /\ Fits(x, p) /\ x.q = 0 /\ p \in Seq(Msg)
  <2>1. 1 \in 1 .. n + 1
    BY DEF At, Run
  <2>2. st[1] \in State /\ Fits(x, p)
    BY <2>1 DEF At, Run
  <2>3. x \in Mid
    BY <2>2 DEF State, On
  <2> QED BY <2>2, <2>3 DEF At
<1>2. CASE cs = Resting(x, p)
  <2> HIDE DEF cs, x, p
  <2>1. PartFits(Resting(x, p).data, Resting(x, p).remain_, p)
    BY <1>1, RestingFits
  <2>2. PartFits(cs.data, cs.remain_, p)
    BY <1>2, <2>1
  <2> QED BY <2>2 DEF cs, p
<1>3. CASE cs = Seen(x, k, p)
  <2>1. cs.data = Resting(x, p).data /\ cs.remain_ = Resting(x, p).remain_
    BY <1>3 DEF Seen, Resting
  <2> HIDE DEF cs, x, p
  <2>2. PartFits(Resting(x, p).data, Resting(x, p).remain_, p)
    BY <1>1, RestingFits
  <2>3. PartFits(cs.data, cs.remain_, p)
    BY <2>1, <2>2
  <2> QED BY <2>3 DEF cs, p
<1>4. CASE ph = 2 /\ c = r.csid_
  <2>1. HeadFacts(r, w, pend, n, pos, st, k, On(st[1], k.c))
    BY <1>4, AtHead
  <2>2. /\ k \in Chunk /\ k.c = c /\ 0 < Len(p) /\ p[1] = Message(k.id, k.kind, k.mts, k.len)
        /\ cs = Reading(x, k, p) /\ Left(x, k) \in Nat /\ Left(x, k) <= k.len
        /\ k.from = k.len - Left(x, k)
    BY <1>4, <2>1 DEF HeadFacts
  <2>3. k.id \in Nat /\ k.len \in Nat /\ k.from \in Nat
    BY <2>2, ChunkConstants DEF Chunk, Lens
  <2>4. cs.data = SubSeq(p[1].body, 1, k.from) /\ cs.remain_ = Left(x, k)
    BY <2>2, ReadingOf
  <2> DEFINE left == Left(x, k)
             from == k.from
             len == k.len
  <2>5. /\ left \in Nat /\ from \in Nat /\ len \in Nat /\ from + left = len
        /\ p[1] = Message(k.id, k.kind, k.mts, len)
        /\ cs.data = SubSeq(p[1].body, 1, from) /\ cs.remain_ = left
    <3>1. left \in Nat /\ from \in Nat /\ len \in Nat /\ left <= len /\ from = len - left
      BY <2>2, <2>3
    <3>2. /\ p[1] = Message(k.id, k.kind, k.mts, len)
          /\ cs.data = SubSeq(p[1].body, 1, from) /\ cs.remain_ = left
      BY <2>2, <2>4
    <3> HIDE DEF left, from, len
    <3>3. from + left = len
      BY <3>1
    <3> QED BY <3>1, <3>2, <3>3
  <2> HIDE DEF left, from, len, cs, x, p, k
  <2>6. PartFits(SubSeq(p[1].body, 1, from), left, p)
    BY <1>1, <2>2, <2>3, <2>5, BodyFits
  <2>7. PartFits(cs.data, cs.remain_, p)
    BY <2>5, <2>6
  <2> QED BY <2>7 DEF cs, p
<1>5. ph = 0 \/ c # r.csid_ => cs = Resting(x, p)
  BY DEF At
<1>6. ph = 1 /\ c = r.csid_ => cs = Resting(x, p) \/ cs = Seen(x, k, p)
  BY DEF At, BehindBasic, InChunk
<1> HIDE DEF cs, x, p
<1>7. PartFits(cs.data, cs.remain_, p)
  BY <1>2, <1>3, <1>4, <1>5, <1>6 DEF cs, p
<1> QED BY <1>7 DEF cs, p

(* The type invariant and ReaderInStep follow.                             *)
LEMMA InvTypes == ChunkInv => ChunkTypeOK
<1> SUFFICES ASSUME ChunkInv PROVE ChunkTypeOK
  OBVIOUS
<1>1. TypeInv /\ rd \in Reader /\ MaxLen \in Nat
  BY ChunkConstants DEF ChunkInv, TypeInv, ReaderOK
<1>2. /\ sent \in 0 .. MaxMsgs
      /\ out_size \in {DefSize, NewSize}
      /\ rd.chunk_size_ \in {DefSize, NewSize}
  BY <1>1 DEF TypeInv, Sizes, Reader
<1>3. ASSUME NEW c \in Csids
      PROVE  /\ rd.cs_map_[c].remain_ \in 0 .. rd.cs_map_[c].msg_len_
             /\ rd.cs_map_[c].msg_len_ \in 0 .. MaxLen
             /\ out[c].left \in 0 .. out[c].len
  <2>1. rd.cs_map_[c] \in Cs /\ rd.cs_map_[c].remain_ <= rd.cs_map_[c].msg_len_
    BY <1>1 DEF TypeInv, ReaderOK, Reader
  <2>2. out[c] \in Out /\ out[c].left <= out[c].len
    BY <1>1 DEF TypeInv
  <2>3. /\ rd.cs_map_[c].remain_ \in 0 .. rd.cs_map_[c].msg_len_
        /\ rd.cs_map_[c].msg_len_ \in 0 .. MaxLen
    BY <1>1, <2>1 DEF Cs
  <2>4. out[c].left \in 0 .. out[c].len
    BY <1>1, <2>2 DEF Out
  <2> QED BY <2>3, <2>4
<1> QED BY <1>2, <1>3 DEF ChunkTypeOK

LEMMA InvReader == ChunkInv => ReaderInStep
<1> SUFFICES ASSUME ChunkInv PROVE ReaderInStep
  OBVIOUS
<1>1. ChunkTypeOK
  BY InvTypes
<1>2. CASE odd \/ rd.torn
  BY <1>1, <1>2 DEF ReaderInStep, InStep, PartialFits
<1>3. CASE ~odd /\ ~rd.torn
  <2>0. PICK ph \in 0 .. 2 : Dialogue(ph, rd, wire, pending, own, out_size, out)
    BY <1>3 DEF ChunkInv
  <2>1. PICK n, ck, pos, st : At(ph, rd, wire, pending, n, ck, pos, st)
    BY <2>0 DEF Dialogue
  <2>2. pending \in [Csids -> Seq(Msg)] /\ rd.recv_buffer_ \in Seq(Part)
    BY DEF ChunkInv, TypeInv, ReaderOK, Reader
  <2>3. InStep
    BY <2>1, NotLost DEF InStep
  <2>4. \A c \in Csids : PartFits(rd.cs_map_[c].data, rd.cs_map_[c].remain_, pending[c])
    BY <2>1, <2>2, AtFits
  <2>5. PartialFits
    BY <2>4 DEF PartialFits, PartFits
  <2> QED BY <1>1, <2>3, <2>5 DEF ReaderInStep
<1> QED BY <1>2, <1>3

-----------------------------------------------------------------------------
(* The theorems.                                                           *)

(* Initially and after every step of the sender, of TCP and of             *)
(* ReceiveRespMessage, the fields of rtmp_session_base and of its          *)
(* ChunkStreams have their types, and the two ends are in a dialogue       *)
(* unless the sender used a form that the reader takes wrongly or a read   *)
(* tore a basic header.                                                    *)
THEOREM ChunkInvariant == Spec => []ChunkInv
<1>1. Init => ChunkInv
  BY InitTypes, InitDialogue DEF ChunkInv
<1>2. ChunkInv /\ [Next]_vars => ChunkInv'
  BY StepKeeps
<1> QED BY <1>1, <1>2, PTL DEF Spec

(* For every cut that TCP makes and every interleaving of the sender's     *)
(* chunk streams: ReadChunkStream keeps its place in the stream, and what  *)
(* it has of a message is the beginning of the next one due.               *)
THEOREM ReaderKeepsItsPlace == Spec => []ReaderInStep
<1>1. ChunkInv => ReaderInStep
  BY InvReader
<1> QED BY <1>1, ChunkInvariant, PTL

(* A write of a message is Put, a complete message is Take, everything     *)
(* else stutters.                                                          *)
LEMMA ChannelStep ==
  ASSUME ChunkInv, [Next]_vars
  PROVE  [Channel!ChannelNext]_(Channel!channelVars)
<1>1. ChunkInv' /\ (odd' \/ rd'.torn \/ PutsIn \/ HandsOver)
  BY StepKeeps
<1>2. CASE odd' \/ rd'.torn
  BY <1>2 DEF Channel!ChannelNext, Channel!Break
<1>3. CASE ~(odd' \/ rd'.torn)
  <2>1. ~(odd \/ rd.torn)
    BY <1>3, StaysBroken
  <2>2. (odd' \/ rd'.torn) = (odd \/ rd.torn)
    BY <1>3, <2>1
  <2>3. pending \in [Csids -> Seq(Msg)]
    BY DEF ChunkInv, TypeInv
  <2>4. CASE PutsIn
    <3>1. PICK c \in Csids, m \in Msg : pending' = [pending EXCEPT ![c] = Append(@, m)]
      BY <2>4 DEF PutsIn
    <3>2. pending'[c] = Append(pending[c], m)
      BY <2>3, <3>1
    <3>3. pending'[c] # <<>> /\ Channel!Last(pending'[c]) = m
      <4>1. /\ Append(pending[c], m) \in Seq(Msg) /\ Len(pending[c]) \in Nat
            /\ Len(Append(pending[c], m)) = Len(pending[c]) + 1
            /\ Append(pending[c], m)[Len(pending[c]) + 1] = m
        BY <2>3, Appended
      <4> DEFINE q == Append(pending[c], m)
      <4> HIDE DEF q
      <4>2. q # <<>> /\ q[Len(q)] = m
        BY <4>1 DEF q
      <4> QED BY <3>2, <4>2 DEF q, Channel!Last
    <3>4. got' = got
      BY <2>4 DEF PutsIn
    <3>5. Channel!Put(c)
      BY <2>2, <3>1, <3>3, <3>4 DEF Channel!Put
    <3> QED BY <2>1, <3>5 DEF Channel!ChannelNext
  <2>5. CASE UNCHANGED <<pending, got>>
    BY <2>2, <2>5 DEF Channel!channelVars
  <2>6. ASSUME NEW c \in Csids, pending[c] # <<>>, got' = <<c, Head(pending[c])>>,
               pending' = [pending EXCEPT ![c] = Tail(@)]
        PROVE  Channel!ChannelNext
    <3>1. Channel!Take(c)
      BY <2>2, <2>6 DEF Channel!Take
    <3> QED BY <2>1, <3>1 DEF Channel!ChannelNext
  <2> QED BY <1>1, <1>3, <2>4, <2>5, <2>6 DEF HandsOver
<1> QED BY <1>2, <1>3

(* WriteDataByChunkStream, TCP and ReadChunkStream together implement      *)
(* MessageChannel: on each chunk stream messages come out whole, once and  *)
(* in the order they went in, with the right timestamp.                    *)
THEOREM ChunksAreChannel == Spec => ChannelSpec
<1>1. Init => Channel!ChannelInit
  BY DEF Init, Channel!ChannelInit
<1>2. ChunkInv /\ [Next]_vars => [Channel!ChannelNext]_(Channel!channelVars)
  BY ChannelStep
<1> QED BY <1>1, <1>2, ChunkInvariant, PTL DEF Spec, ChannelSpec, Channel!ChannelSpec
=============================================================================
