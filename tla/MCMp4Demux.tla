----------------------------- MODULE MCMp4Demux -----------------------------
(***************************************************************************)
(* Files with one video and one audio track: the usual one, and those that *)
(* differ from it in at most MaxOdd respects.                              *)
(***************************************************************************)
EXTENDS Mp4Demux

CONSTANT MaxOdd

Usual ==
  [mvhd |-> 0, tkhd |-> 0, mdhd |-> 0, elst |-> 0, brands |-> 4, order |-> "moov",
   free |-> "none", udta |-> 1, codec |-> "avc1", audio |-> "mp4a", hdlr |-> "first",
   sizes |-> "table", offsets |-> "stco", tail |-> "whole", avcC |-> "usual",
   stts |-> <<<<3, 20>>>>, ctts |-> <<>>, chunks |-> <<3>>, vscale |-> 1000]
Odd ==
  [mvhd |-> {1}, tkhd |-> {1}, mdhd |-> {1}, elst |-> {1}, brands |-> {9}, order |-> {"mdat"},
   free |-> {"empty", "some"}, udta |-> {0, 2}, codec |-> {"hvc1", "av01", "hvc1 bad"},
   audio |-> {"none", "Opus", "bare"}, hdlr |-> {"last"}, sizes |-> {"constant"},
   offsets |-> {"co64"}, tail |-> {"cut", "eof", "long"}, avcC |-> {"two sps"},
   stts |-> {<<<<1, 20>>, <<2, 40>>>>, <<<<2, 40>>, <<1, 20>>>>},
   ctts |-> {<<<<1, 40>>, <<1, 0>>, <<1, 20>>>>, <<<<2, 40>>, <<1, 0>>>>, <<<<3, -1>>>>},
   chunks |-> {<<2, 1>>, <<1, 1, 1>>}, vscale |-> {90}]
Names == DOMAIN Usual
Variants ==
  {Usual} \cup
  UNION {{[Usual EXCEPT ![f] = v] : v \in Odd[f]} : f \in Names} \cup
  (IF MaxOdd < 2 THEN {}
   ELSE UNION {{[Usual EXCEPT ![fg[1]] = vw[1], ![fg[2]] = vw[2]] : vw \in Odd[fg[1]] \X Odd[fg[2]]}
                : fg \in {x \in Names \X Names : x[1] # x[2]}})

(* Three video samples in the chunks given, two audio samples in one.      *)
VSizes == <<9, 4, 7>>
ASizes == <<3, 2>>
VUnits == <<<<"sps", "idr">>, <<"slice">>, <<"slice", "slice">>>>
HUnits == <<<<"idr_n_lp">>, <<"slice">>, <<"idr_w">>>>
SumTo(s, k) == MapThenSumSet(LAMBDA j : s[j], 1..k)
ChunkRel(o) == [c \in DOMAIN o.chunks |-> SumTo(VSizes, SumTo(o.chunks, c - 1))]
Stsc(chunks) == [c \in DOMAIN chunks |-> <<c, chunks[c]>>]

HevcConf(ok) ==
  [version |-> 1,
   arrays |-> <<[type |-> "vps", lens |-> <<24>>], [type |-> "sps", lens |-> <<40>>],
                [type |-> "pps", lens |-> IF ok THEN <<8>> ELSE <<>>]>>]
HevcLen(ok) == 23 + 26 + 3 + 42 + 3 + (IF ok THEN 13 ELSE 3)

VideoEntry(o) ==
  CASE o.codec = "avc1" -> <<Box("avc1", 6, 0, 0, 0), Box("avcC", 7, 0, 30, o.avcC),
                             Box("pasp", 7, 0, 0, 0), Box("colr", 7, 0, 11, 0)>>
    [] o.codec \in {"hvc1", "hvc1 bad"} ->
         <<Box("hvc1", 6, 0, 0, 0),
           Box("hvcC", 7, 0, HevcLen(o.codec = "hvc1"), HevcConf(o.codec = "hvc1")),
           Box("vexu", 7, 0, 0, 0), Box("eyes", 8, 0, 0, 0), Box("stri", 9, 0, 5, 0),
           Box("must", 8, 0, 4, 0), Box("fiel", 7, 0, 2, 0)>>
    [] OTHER -> <<Box("av01", 6, 0, 90, 0)>>
AudioEntry(o) ==
  CASE o.audio = "mp4a" -> <<Box("mp4a", 6, 0, 0, 0), Box("esds", 7, 0, 39, 0)>>
    [] o.audio = "bare" -> <<Box("mp4a", 6, 0, 0, 0)>>
    [] OTHER -> <<Box("Opus", 6, 0, 50, 0)>>

(* stco holds offsets from the start of the samples until the file is laid *)
(* out.                                                                    *)
Stbl(o, video) ==
  <<Box("stbl", 4, 0, 0, 0), Box("stsd", 5, 0, 1, 0)>>
  \o (IF video THEN VideoEntry(o) ELSE AudioEntry(o))
  \o (IF video THEN <<Box("stts", 5, 0, Len(o.stts), o.stts),
                      Box("stss", 5, 0, 1, <<1>>)>>
               ELSE <<Box("stts", 5, 0, 1, <<<<2, 30>>>>)>>)
  \o (IF video /\ o.ctts # <<>> THEN <<Box("ctts", 5, 0, Len(o.ctts), o.ctts)>> ELSE <<>>)
  \o (LET ch == IF video THEN o.chunks ELSE <<2>>
          sz == IF video THEN VSizes ELSE ASizes
          c  == o.sizes = "constant" /\ ~video
      IN  <<Box("stsc", 5, 0, Len(ch), Stsc(ch)),
            Box("stsz", 5, 0, Len(sz), [constant |-> IF c THEN 2 ELSE 0, sizes |-> sz]),
            Box(IF video THEN o.offsets ELSE "stco", 5, 0, Len(ch),
                IF video THEN ChunkRel(o) ELSE <<SumTo(VSizes, 3)>>)>>)

Hdlr(video) == Box("hdlr", 3, 0, 13, IF video THEN "vide" ELSE "soun")
Trak(o, video) ==
  <<Box("trak", 1, 0, 0, 0), Box("tkhd", 2, o.tkhd, 0, 0),
    Box("edts", 2, 0, 0, 0), Box("elst", 3, o.elst, 1, 0),
    Box("mdia", 2, 0, 0, 0), Box("mdhd", 3, o.mdhd, 0, IF video THEN o.vscale ELSE 1000)>>
  \o (IF o.hdlr = "first" THEN <<Hdlr(video)>> ELSE <<>>)
  \o <<Box("minf", 3, 0, 0, 0), Box(IF video THEN "vmhd" ELSE "smhd", 4, 0, 0, 0),
       Box("dinf", 4, 0, 0, 0), Box("dref", 5, 0, 1, 0), Box("url ", 6, 0, 0, 0)>>
  \o Stbl(o, video)
  \o (IF o.hdlr = "last" THEN <<Hdlr(video)>> ELSE <<>>)

Moov(o) ==
  <<Box("moov", 0, 0, 0, 0), Box("mvhd", 1, o.mvhd, 0, 0)>>
  \o Trak(o, TRUE) \o (IF o.audio = "none" THEN <<>> ELSE Trak(o, FALSE))
  \o <<Box("udta", 1, 0, 0, 0)>> \o [i \in 1..o.udta |-> Box("meta", 2, 0, 20, 0)]
Free(o) ==
  CASE o.free = "none" -> <<>> [] o.free = "empty" -> <<Box("free", 0, 0, 0, 0)>>
    [] OTHER -> <<Box("free", 0, 0, 24, 0)>>
Mdat(o) == <<[Box("mdat", 0, 0, IF o.tail = "long" THEN BlockSize ELSE 25,
                  IF o.tail = "eof" /\ o.order = "moov" THEN "eof" ELSE "data") EXCEPT
              !.hdr = IF o.tail = "long" THEN 16 ELSE 8]>>
Boxes(o) ==
  <<Box("ftyp", 0, 0, o.brands, 0)>> \o Free(o)
  \o (IF o.order = "moov" THEN Moov(o) \o Mdat(o) ELSE Mdat(o) \o Moov(o))

File(o) ==
  LET laid  == Laid(Boxes(o))
      mdat  == CHOOSE i \in DOMAIN laid : laid[i].t = "mdat"
      data  == laid[mdat].at + laid[mdat].hdr
      rel   == [k \in 1..3 |-> SumTo(VSizes, k - 1)]
      units == IF o.codec = "avc1" THEN VUnits ELSE HUnits
  IN  [boxes |-> [i \in DOMAIN laid |->
                    IF laid[i].t = "stco"
                    THEN [laid[i] EXCEPT !.val = [c \in DOMAIN @ |-> @[c] + data]] ELSE laid[i]],
       samples |-> {[av |-> "video", k |-> k, at |-> data + rel[k], len |-> VSizes[k],
                     box |-> o.offsets, units |-> units[k]] : k \in 1..3}
                   \cup (IF o.audio = "none" THEN {}
                         ELSE {[av |-> "audio", k |-> k, at |-> data + 20 + SumTo(ASizes, k - 1),
                                len |-> ASizes[k], box |-> "stco", units |-> <<>>] : k \in 1..2}),
       length |-> laid[Len(laid)].end - (IF o.tail = "cut" THEN 12 ELSE 0)]

MCFiles == {File(o) : o \in Variants}
=============================================================================
