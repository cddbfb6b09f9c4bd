-------------------------------- MODULE Stun --------------------------------
(***************************************************************************)
(* STUN messages (net/stun/stun.cpp): what Serialize writes and what Parse *)
(* accepts.  A message is its length field and its attributes [t, len, v]; *)
(* method, class, cookie and transaction id are constant in this use.  The *)
(* HMAC and the CRC are known by the bytes they cover, length field        *)
(* included.                                                               *)
(***************************************************************************)
EXTENDS Integers, Sequences
LOCAL INSTANCE SequencesExt

PadTo4Bytes(n) == 4 * ((n + 3) \div 4)
AttrLen(a) == 4 + PadTo4Bytes(a.len)
BytesOf(attrs) == FoldLeft(LAMBDA n, a : n + AttrLen(a), 0, attrs)

Integrity(pwd, length, attrs) == <<"hmac", pwd, length, attrs>>
Fingerprint(length, attrs) == <<"crc", length, attrs>>

Attr(t, len, v) == <<[t |-> t, len |-> len, v |-> <<v>>]>>

(* The attributes in front of the integrity.                               *)
StunAttributes(p) ==
  (IF p.username_len = 0 THEN <<>> ELSE Attr("username", p.username_len, "name"))
    \o (IF p.priority THEN Attr("priority", 4, "prio") ELSE <<>>)
    \o (IF p.use_candidate THEN Attr("use-candidate", 0, "") ELSE <<>>)

(* Mutant of Serialize: the integrity covers the length of everything.     *)
SerializeWhole(p) ==
  LET attrs == StunAttributes(p)
      total == BytesOf(attrs) + 24 + 8
      with == Append(attrs, [t |-> "integrity", len |-> 20,
                             v |-> Integrity(p.password, total, attrs)])
  IN  [length |-> total,
       attrs |-> Append(with, [t |-> "fingerprint", len |-> 4,
                               v |-> Fingerprint(total, with)])]

(* The length field is that of the integrity while the HMAC is taken, then *)
(* the whole; without an integrity it is still 0 when the CRC is taken.    *)
Serialize(p) ==
  LET attrs == StunAttributes(p)
      total == BytesOf(attrs) + (IF p.integrity THEN 24 ELSE 0) + 8
      with == IF ~p.integrity THEN attrs
              ELSE Append(attrs, [t |-> "integrity", len |-> 20,
                     v |-> Integrity(p.password, total - 8, attrs)])
  IN  [length |-> total,
       attrs |-> Append(with, [t |-> "fingerprint", len |-> 4,
                  v |-> Fingerprint(IF p.integrity THEN total ELSE 0, with)])]

-----------------------------------------------------------------------------
FixedLen == [priority |-> 4, controlling |-> 8, controlled |-> 8,
             integrity |-> 20, fingerprint |-> 4, error |-> 4, mapped |-> 8]

LenRight(a) ==
  /\ (a.t \in DOMAIN FixedLen => a.len = FixedLen[a.t])
  /\ (a.t = "use-candidate" => a.len = 0)

Positions(attrs, t) == {i \in 1..Len(attrs) : attrs[i].t = t}

(* Parse throws unless the attributes fill the message, the last of them   *)
(* with something in it, lengths are those of their type, only a           *)
(* fingerprint follows an integrity and nothing a fingerprint.             *)
ParseStun(m) ==
  LET n == Len(m.attrs)
  IN  IF /\ m.length = BytesOf(m.attrs)
         /\ (n > 0 => m.attrs[n].len > 0)
         /\ \A i \in 1..n : LenRight(m.attrs[i])
         /\ \A i \in Positions(m.attrs, "integrity") :
              \A j \in i + 1..n : m.attrs[j].t = "fingerprint"
         /\ \A i \in Positions(m.attrs, "fingerprint") :
              i = n /\ m.attrs[i].v = Fingerprint(m.length, SubSeq(m.attrs, 1, i - 1))
      THEN [ok |-> TRUE, seen |-> {m.attrs[i].t : i \in 1..n}]
      ELSE [ok |-> FALSE, seen |-> {}]

(* What a server that has the password checks (RFC 5389, 15.4): external.  *)
IntegrityAccepted(m, pwd) ==
  \A i \in Positions(m.attrs, "integrity") :
    LET before == SubSeq(m.attrs, 1, i - 1)
    IN  m.attrs[i].v = Integrity(pwd, BytesOf(before) + 24, before)
=============================================================================
