-------------------------------- MODULE Amf0 --------------------------------
(***************************************************************************)
(* AMF0 values on the wire (format/amf/amf0.hpp).  The wire is a sequence  *)
(* of fields [f, v]: a type byte, a length of two or four bytes, a text, a *)
(* number, a flag.  A decoder that takes a field for another kind of field *)
(* has lost its place; what it then reads is undefined, and the result     *)
(* says so.                                                                *)
(***************************************************************************)
EXTENDS Integers, Sequences
LOCAL INSTANCE SequencesExt

AMF_NUMBER == 0
AMF_BOOL == 1
AMF_STRING == 2
AMF_OBJECT == 3
AMF_NULL == 5
AMF_UNDEFINED == 6
AMF_MIXEDARRAY == 8
AMF_OBJECT_END == 9
AMF_ARRAY == 10
AMF_LONG_STRING == 12
AMF_UNSUPPORTED == 13

(* A value: its type, its text, number or flag, and its properties or      *)
(* elements <<key, value>>.                                                *)
Item(type, v, props) == [type |-> type, v |-> v, props |-> props]
AMF_UNKNOWN == Item(-1, "", <<>>)

F(f, v) == <<[f |-> f, v |-> v]>>
IsLong(text) == text = "long"      \* the one text of more than 65535 bytes

-----------------------------------------------------------------------------
(* AMF_Encoder                                                             *)

EncodeString(text, skip_marker) ==
  (IF skip_marker THEN <<>> ELSE F("type", IF IsLong(text) THEN AMF_LONG_STRING ELSE AMF_STRING))
    \o F(IF IsLong(text) THEN "len4" ELSE "len2", text)
    \o IF text = "" THEN <<>> ELSE F("text", text)

(* Mutant of EncodeScalar: a flag without its type byte.                   *)
EncodeScalarBare(i) ==
  CASE i.type = AMF_NUMBER -> F("type", AMF_NUMBER) \o F("number", i.v)
    [] i.type = AMF_BOOL -> F("flag", i.v)
    [] i.type \in {AMF_STRING, AMF_LONG_STRING} -> EncodeString(i.v, FALSE)
    [] OTHER -> F("type", i.type)

EncodeScalar(i) ==
  CASE i.type = AMF_NUMBER -> F("type", AMF_NUMBER) \o F("number", i.v)
    [] i.type = AMF_BOOL -> F("type", AMF_BOOL) \o F("flag", i.v)
    [] i.type \in {AMF_STRING, AMF_LONG_STRING} -> EncodeString(i.v, FALSE)
    [] i.type \in {AMF_NULL, AMF_UNDEFINED} -> F("type", i.type)

Scalars == {AMF_NUMBER, AMF_BOOL, AMF_STRING, AMF_LONG_STRING, AMF_NULL, AMF_UNDEFINED}

(* Properties of a type that cannot be encoded: an array leaves its key    *)
(* without a value, an object ends the encoding where it is.               *)
EncodeObject(i) ==
  LET bad == {n \in 1..Len(i.props) : i.props[n][2].type \notin Scalars \cup {AMF_ARRAY, AMF_MIXEDARRAY}}
      upto == IF bad = {} THEN Len(i.props) ELSE CHOOSE n \in bad : \A m \in bad : n <= m
      one(n) == EncodeString(i.props[n][1], TRUE)
                  \o IF i.props[n][2].type \in Scalars THEN EncodeScalar(i.props[n][2]) ELSE <<>>
  IN  F("type", AMF_OBJECT) \o FlattenSeq([n \in 1..upto |-> one(n)])
        \o IF bad = {} THEN EncodeString("", TRUE) \o F("type", AMF_OBJECT_END) ELSE <<>>

Encode(items) ==
  FlattenSeq([n \in 1..Len(items) |->
    IF items[n].type = AMF_OBJECT THEN EncodeObject(items[n]) ELSE EncodeScalar(items[n])])

-----------------------------------------------------------------------------
(* AMF_Decoder: the item, the fields that are left and whether the place   *)
(* is kept (ok), was never right (lost) or an error was returned (error).  *)

Got(item, rest) == [item |-> item, rest |-> rest, st |-> "ok"]
Lost(item) == [item |-> item, rest |-> <<>>, st |-> "lost"]
Next1(w, f) == w # <<>> /\ w[1].f = f
Text(w) == IF w[1].v = "" THEN [v |-> "", rest |-> Tail(w)]
           ELSE [v |-> w[1].v, rest |-> SubSeq(w, 3, Len(w))]

RECURSIVE Decode(_), DecodeAmfObject(_, _), DecodeAmfArray(_, _, _)

(* The byte OBJECT_END is looked at and left where it is.                  *)
DecodeAmfObject(w, props) ==
  IF w = <<>> THEN [props |-> props, rest |-> w, st |-> "ok"]
  ELSE IF ~Next1(w, "len2") THEN [props |-> props, rest |-> <<>>, st |-> "lost"]
  ELSE IF w[1].v = "" THEN [props |-> props, rest |-> Tail(w), st |-> "ok"]
  ELSE LET key == Text(w)
           got == Decode(key.rest)
       IN  IF got.st # "ok" THEN [props |-> props, rest |-> got.rest, st |-> got.st]
           ELSE DecodeAmfObject(got.rest, Append(props, <<key.v, got.item>>))

DecodeAmfArray(w, n, items) ==
  IF n = 0 THEN [props |-> items, rest |-> w, st |-> "ok"]
  ELSE LET got == Decode(w)
       IN  IF got.st # "ok" THEN [props |-> items, rest |-> got.rest, st |-> got.st]
           ELSE DecodeAmfArray(got.rest, n - 1, Append(items, <<"", got.item>>))

(* A type byte above UNSUPPORTED is not taken off the buffer; OBJECT_END   *)
(* is, with an error.                                                      *)
Decode(w) ==
  IF ~Next1(w, "type") THEN Lost(AMF_UNKNOWN)
  ELSE IF w[1].v > AMF_UNSUPPORTED THEN [item |-> AMF_UNKNOWN, rest |-> w, st |-> "error"]
  ELSE LET type == w[1].v
           r == Tail(w)
       IN  CASE type = AMF_NUMBER ->
                  IF Next1(r, "number") THEN Got(Item(type, r[1].v, <<>>), Tail(r)) ELSE Lost(AMF_UNKNOWN)
             [] type = AMF_BOOL ->
                  IF Next1(r, "flag") THEN Got(Item(type, r[1].v, <<>>), Tail(r)) ELSE Lost(AMF_UNKNOWN)
             [] type = AMF_STRING ->
                  IF Next1(r, "len2") THEN Got(Item(type, Text(r).v, <<>>), Text(r).rest)
                  ELSE Lost(AMF_UNKNOWN)
             [] type = AMF_LONG_STRING ->
                  IF Next1(r, "len4") THEN Got(Item(type, Text(r).v, <<>>), Text(r).rest)
                  ELSE Lost(AMF_UNKNOWN)
             [] type = AMF_OBJECT ->
                  LET o == DecodeAmfObject(r, <<>>)
                  IN  [item |-> Item(AMF_OBJECT, "", o.props), rest |-> o.rest, st |-> o.st]
             [] type = AMF_MIXEDARRAY ->
                  LET o == DecodeAmfObject(Tail(r), <<>>)
                  IN  [item |-> Item(AMF_OBJECT, "", o.props), rest |-> o.rest, st |-> o.st]
             [] type = AMF_ARRAY ->
                  LET o == DecodeAmfArray(Tail(r), r[1].v, <<>>)
                  IN  [item |-> Item(AMF_ARRAY, "", o.props), rest |-> o.rest,
                       st |-> IF o.st = "lost" THEN "lost" ELSE "ok"]
             [] type \in {AMF_NULL, AMF_UNDEFINED} -> Got(Item(type, "", <<>>), r)
             [] type = AMF_UNSUPPORTED -> Got(Item(AMF_LONG_STRING, "", <<>>), r)
             [] OTHER -> [item |-> AMF_UNKNOWN, rest |-> r, st |-> "error"]

(* HandleServerCommandMessage, HandleClientCommandMessage and              *)
(* ReportMetaData: values until nothing is left, whatever Decode returns.  *)
(* st is "stuck" where Decode takes nothing and would be called forever.   *)
RECURSIVE DecodeAll(_, _)
DecodeAll(w, items) ==
  IF w = <<>> THEN [items |-> items, st |-> "ok"]
  ELSE LET got == Decode(w)
       IN  IF got.st = "lost" THEN [items |-> Append(items, got.item), st |-> "lost"]
           ELSE IF got.rest = w THEN [items |-> items, st |-> "stuck"]
           ELSE DecodeAll(got.rest, Append(items, got.item))
=============================================================================
