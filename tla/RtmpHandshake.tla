--------------------------- MODULE RtmpHandshake ---------------------------
(***************************************************************************)
(* The contents of the RTMP handshake (rtmp/rtmp_handshake.cpp): C1 with   *)
(* its digest and key blocks, the check of the digest, C2.  A message is a *)
(* sequence of cells; a field of four bytes is one cell, and the sizes of  *)
(* blocks, digest and key are parameters, so that every offset can be      *)
(* tried.  HMAC-SHA256 is external: it is known by its key and argument.   *)
(***************************************************************************)
EXTENDS Integers, Sequences

CONSTANTS
  BlockLen,    \* a digest or key block (764 bytes)
  DigestLen,   \* the digest (32 bytes)
  KeyLen       \* the key (128 bytes)

(* HmacSha256, HmacSha256Handler: one value for each key and text.         *)
Hmac(key, text) == [i \in 1..DigestLen |-> [hmac |-> key, of |-> text, at |-> i]]

(* RtmpRandomGenerate                                                      *)
Random(n, seed) == [i \in 1..n |-> [byte |-> seed]]

Word(n) == <<[word |-> n]>>

(* Where the digest begins behind the offset field.                        *)
CalcValidDigestOffset(offset) == offset % (BlockLen - DigestLen - 1)

CalcValidKeyOffset(offset) == offset % (BlockLen - KeyLen - 1)

-----------------------------------------------------------------------------
(* Making C0 and C1, client.                                               *)

PrepareDigest(offset, seed) ==
  LET n == CalcValidDigestOffset(offset)
  IN  [offset |-> offset, random0 |-> Random(n, seed),
       random1 |-> Random(BlockLen - 1 - n - DigestLen, seed)]

PrepareKey(offset, seed) ==
  LET n == CalcValidKeyOffset(offset)
  IN  [offset |-> offset, random0 |-> Random(n, seed), key |-> Random(KeyLen, seed),
       random1 |-> Random(BlockLen - n - KeyLen - 1, seed)]

(* Mutant of JoinedC1: the key block is left out of the digest.            *)
JoinedC1NoKey(time, d, k) ==
  Word(time) \o Word(0) \o Word(d.offset) \o d.random0 \o d.random1

(* MakeC1Scheme1Digest: what the digest covers.                            *)
JoinedC1(time, d, k) ==
  Word(time) \o Word(0) \o Word(d.offset) \o d.random0 \o d.random1
    \o k.random0 \o k.key \o k.random1 \o Word(k.offset)

(* MakeC0C1.  With no random cells in front of the digest nothing is made. *)
MakeC0C1(time, d, k) ==
  IF d.random0 = <<>> \/ d.random1 = <<>> THEN <<>>
  ELSE Word(3) \o Word(time) \o Word(0) \o Word(d.offset) \o d.random0
         \o Hmac("player", JoinedC1(time, d, k)) \o d.random1
         \o k.random0 \o k.key \o k.random1 \o Word(k.offset)

-----------------------------------------------------------------------------
(* Reading C1.                                                             *)

(* A cell read as a number; random bytes make some number.                 *)
Number(cell) == IF "word" \in DOMAIN cell THEN cell.word
                ELSE IF "byte" \in DOMAIN cell THEN cell.byte ELSE 0

ParseKey(block) ==
  LET offset == Number(block[BlockLen])
      n == CalcValidKeyOffset(offset)
  IN  [offset |-> offset, random0 |-> SubSeq(block, 1, n),
       key |-> SubSeq(block, n + 1, n + KeyLen),
       random1 |-> SubSeq(block, n + KeyLen + 1, BlockLen - 1)]

ParseDigest(block) ==
  LET offset == Number(block[1])
      n == CalcValidDigestOffset(offset)
  IN  [offset |-> offset, random0 |-> SubSeq(block, 2, n + 1),
       digest |-> SubSeq(block, n + 2, n + 1 + DigestLen),
       random1 |-> SubSeq(block, n + 2 + DigestLen, BlockLen)]

(* The blocks of schema 0 are key and digest, of schema 1 digest and key.  *)
TrySchema(c1, schema) ==
  LET first == SubSeq(c1, 3, BlockLen + 2)
      second == SubSeq(c1, BlockLen + 3, 2 * BlockLen + 2)
  IN  IF schema = 1 THEN [d |-> ParseDigest(first), k |-> ParseKey(second)]
      ELSE [d |-> ParseDigest(second), k |-> ParseKey(first)]

(* The digest is that of everything around it.                             *)
CheckDigestValid(c1, schema, got) ==
  LET before == (IF schema = 0 THEN 2 + BlockLen ELSE 2) + 1 + Len(got.d.random0)
  IN  got.d.digest = Hmac("player", SubSeq(c1, 1, before)
                                      \o SubSeq(c1, before + DigestLen + 1, Len(c1)))

(* ParseC1: schema 1, then 0, else the simple handshake (-1).              *)
ParseC1(c1) ==
  LET one == TrySchema(c1, 1)
      zero == TrySchema(c1, 0)
  IN  IF CheckDigestValid(c1, 1, one) THEN [schema |-> 1, got |-> one]
      ELSE IF CheckDigestValid(c1, 0, zero) THEN [schema |-> 0, got |-> zero]
      ELSE [schema |-> -1, got |-> zero]

-----------------------------------------------------------------------------
(* Answering S0S1S2.                                                       *)

(* The time of S1, or -1 for a wrong version.                              *)
ParseS0S1S2(s) == IF Number(s[1]) # 3 THEN -1 ELSE Number(s[2])

MakeC2(now, s1_time, seed) ==
  Word(now) \o Word(s1_time) \o Random(2 * BlockLen, seed)
=============================================================================
