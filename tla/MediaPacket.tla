----------------------------- MODULE MediaPacket -----------------------------
(***************************************************************************)
(* What the streamers hand to each other: a Media_Packet, the units of an  *)
(* H.264 frame, and the conversions between their notations                *)
(* (media_packet.hpp, h264_h265_header.cpp).                               *)
(*                                                                         *)
(* Data is a sequence of atoms.  <<"start", type, id>> is a start code     *)
(* with the header byte of a unit, <<"len", type, id>> the same with a     *)
(* length in place of the start code, <<"byte", id, i>> a byte.            *)
(***************************************************************************)
EXTENDS Naturals, Sequences, SequencesExt

(* A unit of n atoms in Annex B notation.                                  *)
Unit(type, id, n) == <<<<"start", type, id>>>> \o [i \in 1..(n - 1) |-> <<"byte", id, i>>]

Packet(av, codec, seq, key, dts, pts, data) ==
  [av_type_ |-> av, codec_type_ |-> codec, is_seq_hdr_ |-> seq, is_key_frame_ |-> key,
   has_flv_audio_asc_ |-> FALSE, dts_ |-> dts, pts_ |-> pts, data |-> data]

UnitType(u) == u[1][2]
IsSps(u) == UnitType(u) = "sps"
IsPps(u) == UnitType(u) = "pps"
IsAud(u) == UnitType(u) = "aud"
(* A start code and nothing behind it: fewer than five bytes.              *)
IsEmpty(u) == UnitType(u) = "none"
IsKeyFrame(u) == UnitType(u) = "idr"

(* Where the units of a sequence of atoms begin, and the units between     *)
(* these places.                                                           *)
Begins(data, mark) == SetToSortSeq({i \in DOMAIN data : data[i][1] = mark}, <)
Pieces(data, at) ==
  [j \in DOMAIN at |->
     SubSeq(data, at[j], IF j = Len(at) THEN Len(data) ELSE at[j + 1] - 1)]

(* AnnexB2Nalus drops what precedes the first start code.                  *)
AnnexB2Nalus(data) == Pieces(data, Begins(data, "start"))

(* Avcc2Nalus puts a start code in the place of each length.               *)
Avcc2Nalus(data) ==
  LET units == Pieces(data, Begins(data, "len"))
  IN  [j \in DOMAIN units |-> [units[j] EXCEPT ![1][1] = "start"]]

(* ByteStream::Write4Bytes over the start code of one unit.                *)
ToAvcc(unit) == [unit EXCEPT ![1][1] = "len"]

(* Units(us, id): the data of a frame, given by <<type, size>> of its      *)
(* units, with lengths.                                                    *)
AvccFrame(us, id) ==
  FlattenSeq([j \in DOMAIN us |-> ToAvcc(Unit(us[j][1], <<id, j>>, us[j][2]))])
=============================================================================
