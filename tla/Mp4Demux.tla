------------------------------ MODULE Mp4Demux ------------------------------
(***************************************************************************)
(* The boxes of an MP4 file and what each class of mp4_box.hpp does with   *)
(* the bytes of one.                                                       *)
(*                                                                         *)
(* A box of the file is a record: its type t, its depth d in the tree of   *)
(* boxes, the length hdr of its header, the version ver of its fields, its *)
(* entry count n, and what it holds, val.  A file is the sequence of its   *)
(* boxes in the order of their headers.                                    *)
(*                                                                         *)
(* Mp4Demuxer: the walk over the boxes of a file, the table of samples     *)
(* built from the tracks, and the packets handed on, as the tools mp4dump  *)
(* and mp4toflv_streamer drive it, or fed with the bytes of the file.      *)
(***************************************************************************)
EXTENDS Integers, Sequences, SequencesExt, FiniteSetsExt, TLC

CONSTANTS
  BRANDS_MAX, \* 8: the length of compatible_brands_
  Word        \* 2^32: the values of a uint32_t

Box(t, d, ver, n, val) == [t |-> t, d |-> d, hdr |-> 8, ver |-> ver, n |-> n, val |-> val]

(* External: ISO/IEC 14496-12, the bytes between the header of a box and   *)
(* its first child.                                                        *)
IsoFields(b) ==
  LET wide == IF b.ver = 0 THEN 4 ELSE 8
  IN  CASE b.t = "ftyp" -> 8 + 4 * b.n
        [] b.t = "mvhd" -> 4 + 3 * wide + 4 + 80
        [] b.t = "tkhd" -> 4 + 3 * wide + 8 + 60
        [] b.t = "mdhd" -> 4 + 3 * wide + 4 + 4
        [] b.t = "hdlr" -> 24 + b.n
        [] b.t \in {"smhd", "stsd", "dref", "pasp"} -> 8
        [] b.t \in {"vmhd", "btrt"} -> 12
        [] b.t = "url " -> 4
        [] b.t \in {"avc1", "hvc1"} -> 78
        [] b.t = "mp4a" -> 28
        [] b.t \in {"stts", "ctts", "co64"} -> 8 + 8 * b.n
        [] b.t \in {"stss", "stco"} -> 8 + 4 * b.n
        [] b.t = "stsc" -> 8 + 12 * b.n
        [] b.t = "stsz" -> IF b.val.constant = 0 THEN 12 + 4 * b.n ELSE 12
        [] b.t = "elst" -> 8 + (2 * wide + 4) * b.n
        [] b.t = "meta" -> 4 + b.n
        [] OTHER -> b.n

(* External: the writer of the file.  A box begins where the boxes before  *)
(* it have put their headers and fields and ends with its last child; one  *)
(* mdat with "eof" states the size 0 and extends to the end of the file.  *)
LastChild(boxes, i) ==
  Max({k \in i..Len(boxes) : \A j \in (i + 1)..k : boxes[j].d > boxes[i].d})
Bytes(boxes, i, k) ==
  MapThenSumSet(LAMBDA j : boxes[j].hdr + IsoFields(boxes[j]), i..k)
Laid(boxes) ==
  [i \in DOMAIN boxes |->
     [at |-> Bytes(boxes, 1, i - 1), end |-> Bytes(boxes, 1, LastChild(boxes, i)),
      size |-> IF boxes[i].t = "mdat" /\ boxes[i].val = "eof" THEN 0 ELSE Bytes(boxes, i, LastChild(boxes, i))]
     @@ boxes[i]]

-----------------------------------------------------------------------------
(* The bytes that the Parse of a class passes over after the header of the *)
(* box b.  Where the class asserts that these are all its bytes, a box of  *)
(* another length ends the program.                                        *)
FtypFields(b) == 4 + 4 + 4 * ((b.size - b.hdr - 8 + 3) \div 4)
FtypOverruns(b) == (b.size - b.hdr - 8 + 3) \div 4 > BRANDS_MAX
MvhdFields == 4 + 4 + 4 + 4 + 4 + 4 + 2 + 2 + 2 * 4 + 9 * 4 + 6 * 4 + 4
TkhdFields_NarrowDuration(b) ==
  LET wide == IF b.ver = 0 THEN 4 ELSE 8
  IN  4 + wide + wide + 4 + 4 + 4 + 2 * 4 + 2 + 2 + 2 + 2 + 9 * 4 + 4 + 4
TkhdFields(b) ==
  LET wide == IF b.ver = 0 THEN 4 ELSE 8
  IN  4 + wide + wide + 4 + 4 + wide + 2 * 4 + 2 + 2 + 2 + 2 + 9 * 4 + 4 + 4
SmhdFields == 4 + 2 + 2
VmhdFields == 4 + 2 + 3 * 2
ElstFields(b) == 4 + 4 + b.n * ((IF b.ver = 0 THEN 4 + 4 ELSE 8 + 8) + 2 + 2)
SttsFields(b) == 4 + 4 + b.n * (4 + 4)
StscFields(b) == 4 + 4 + Min({b.n, (b.size - b.hdr - 8 + 11) \div 12}) * (4 + 4 + 4)
StszFields(b) == 4 + 4 + 4 + (IF b.val.constant = 0 THEN b.n * 4 ELSE 0)
StcoFields(b) == 4 + 4 + b.n * 4
PaspFields == 4 + 4
Mp4aFields == 4 + 2 + 2 + 2 + 2 + 4 + 2 + 2 + 2 + 2 + 4
StsdAvcFields_NoReserved == 4 + 2 + 2 + 2 + 2 + 3 * 4 + 2 + 2 + 4 + 4 + 4 + 2 + 32 + 2
StsdAvcFields == 4 + 2 + 2 + 2 + 2 + 3 * 4 + 2 + 2 + 4 + 4 + 4 + 2 + 32 + 2 + 2

Asserting == {"ftyp", "mvhd", "tkhd", "smhd", "vmhd", "elst", "stts", "stsc", "stsz", "stco"}
FieldsRead(cls, b) ==
  CASE cls = "ftyp" -> FtypFields(b) [] cls = "mvhd" -> MvhdFields
    [] cls = "tkhd" -> TkhdFields(b) [] cls = "smhd" -> SmhdFields
    [] cls = "vmhd" -> VmhdFields    [] cls = "elst" -> ElstFields(b)
    [] cls = "stts" -> SttsFields(b) [] cls = "stsc" -> StscFields(b)
    [] cls = "stsz" -> StszFields(b) [] cls = "stco" -> StcoFields(b)

(* hvcC: the arrays of parameter sets follow 23 bytes; one that leaves     *)
(* fewer than five bytes at its start is refused.                          *)
ArrayAt(v, k) ==
  23 + MapThenSumSet(
            LAMBDA j : 3 + MapThenSumSet(LAMBDA i : 2 + v.arrays[j].lens[i],
                                         DOMAIN v.arrays[j].lens), 1..(k - 1))
ArraysRead(v, len) ==
  \A k \in DOMAIN v.arrays : ArrayAt(v, k) + 5 <= len /\ ArrayAt(v, k + 1) <= len
GetHevcDecInfoFromExtradata(v, len) == v.version = 1 /\ ArraysRead(v, len)

(* A class ends the program on a box it cannot read.                       *)
Aborts(cls, b) ==
  \/ cls \in Asserting /\ FieldsRead(cls, b) # b.size - b.hdr
  \/ cls = "mp4a" /\ Mp4aFields >= b.size - b.hdr
Throws(cls, b) ==
  /\ cls = "hvcC"
  /\ b.size - b.hdr > 5 * 1024 \/ ~GetHevcDecInfoFromExtradata(b.val, b.size - b.hdr)

(* Where Parse leaves the cursor, from the start of the box.               *)
Returned(cls, b) == IF cls = "pasp" THEN b.hdr + PaspFields ELSE b.size

-----------------------------------------------------------------------------
(* The boxes that hold boxes.  Parse reads children while the cursor is    *)
(* more than slack bytes before the end; those of a class it does not know *)
(* are skipped.                                                            *)
Loop(kids, slack) == [kids |-> kids, slack |-> slack]
MoovBox == Loop({"mvhd", "trak", "udta"}, 0)
TrakBox == Loop({"tkhd", "edts", "mdia"}, 0)
MdiaBox == Loop({"mdhd", "hdlr", "minf"}, 6)
MinfBox == Loop({"smhd", "vmhd", "dinf", "stbl"}, 6)
StblBox == Loop({"stsd", "stts", "ctts", "stss", "stsc", "stsz", "stco"}, 0)
Avc1Box == Loop({"pasp"}, 0)
Hvc1Box == Loop({"hvcC", "lhvC", "vexu"}, 6)
VexuBox == Loop({"eyes", "must"}, 6)
EyesBox == Loop({"stri"}, 6)

Loops ==
  [moov |-> MoovBox, trak |-> TrakBox, mdia |-> MdiaBox, minf |-> MinfBox, stbl |-> StblBox,
   avc1 |-> Avc1Box, hvc1 |-> Hvc1Box, vexu |-> VexuBox, eyes |-> EyesBox]

(* These take their first children for boxes of one class, whatever their  *)
(* type: a fixed number of them, or as many as their entry count says.     *)
DinfChild == "dref"
DrefChild == "url "
EdtsChild == "elst"
UdtaChild == "meta"
Avc1Child == "avcC"
Forced == [dinf |-> DinfChild, dref |-> DrefChild, edts |-> EdtsChild, udta |-> UdtaChild,
           avc1 |-> Avc1Child]

Containers == DOMAIN Loops \cup DOMAIN Forced \cup {"stsd"}
Exact == {"mdia", "minf", "stbl", "avc1", "dinf", "dref", "edts", "udta", "stsd"}

Frame(cls, b) ==
  [cls |-> cls, end |-> b.at + b.size, size |-> b.size,
   left |-> CASE cls \in {"dref", "stsd"} -> b.n
              [] cls \in {"dinf", "edts", "avc1"} -> 1
              [] cls = "udta" -> IF b.size > b.hdr THEN 1 ELSE 0
              [] OTHER -> 0]
FirstChild(cls) ==
  CASE cls \in {"dref", "stsd"} -> 4 + 4
    [] cls \in {"avc1", "hvc1"} -> StsdAvcFields
    [] OTHER -> 0
More(f, p) == f.left > 0 \/ (f.cls \in DOMAIN Loops /\ p < f.end - Loops[f.cls].slack)
Counted_Unguarded(open) == [open EXCEPT ![Len(open)].left = @ - 1]
Counted(open) ==
  [open EXCEPT ![Len(open)].left = IF @ > 0 THEN @ - 1 ELSE 0]

(* stsd knows its entries only by the handler_type_ that hdlr has left.    *)
StsdKids(handler) ==
  CASE handler = "vide" -> {"avc1", "hvc1"} [] handler = "soun" -> {"mp4a"} [] OTHER -> {}
StsdRefuses(f, b) == f.cls = "stsd" /\ b.size >= f.size
ClassOf(f, b, handler) ==
  LET kids == IF f.cls = "stsd" THEN StsdKids(handler)
              ELSE IF f.cls \in DOMAIN Loops THEN Loops[f.cls].kids ELSE {}
  IN  CASE f.left > 0 /\ f.cls \in DOMAIN Forced -> Forced[f.cls]
        [] b.t \in kids -> b.t
        [] OTHER -> "skip"

-----------------------------------------------------------------------------
(* What a box leaves in the TrakInfo of its track.                         *)
TrakInfo ==
  [handler_type_ |-> "", timescale_ |-> 0, codec_type_ |-> "unknown", sequence_data_ |-> "none",
   sample_entries_ |-> <<>>, sample_offset_vec_ |-> <<>>, iframe_sample_vec_ |-> <<>>,
   chunk_sample_vec_ |-> <<>>, sample_sizes_vec_ |-> <<>>, chunk_offsets_vec_ |-> <<>>]

GetCodecTypeByBoxType(t) ==
  CASE t = "avcC" -> "h264" [] t \in {"hvcC", "hvc1"} -> "h265" [] t = "mp4a" -> "aac"
    [] t = "vvcC" -> "h266" [] t = "av1C" -> "av1" [] t = "Opus" -> "opus"
    [] OTHER -> "unknown"

MdhdInfo(b, t) == [t EXCEPT !.timescale_ = b.val]
HdlrInfo(b, t) == [t EXCEPT !.handler_type_ = b.val]
VideoSequenceInfo(b, t) ==
  [t EXCEPT !.codec_type_ = GetCodecTypeByBoxType(b.t), !.sequence_data_ = b.val]
HvcCInfo(b, t) ==
  [t EXCEPT !.codec_type_ = GetCodecTypeByBoxType(b.t), !.sequence_data_ = b.val]
Mp4aInfo(b, t) == [t EXCEPT !.sequence_data_ = "boxes"]
SttsInfo(b, t) == [t EXCEPT !.sample_entries_ = @ \o b.val]
StssInfo(b, t) == [t EXCEPT !.iframe_sample_vec_ = @ \o b.val]
CttsInfo(b, t) ==
  [t EXCEPT !.sample_offset_vec_ =
     @ \o [i \in DOMAIN b.val |-> <<b.val[i][1], b.val[i][2] % Word>>]]
StscInfo(b, t) == [t EXCEPT !.chunk_sample_vec_ = @ \o b.val]
StszInfo(b, t) ==
  IF b.val.constant = 0 THEN [t EXCEPT !.sample_sizes_vec_ = b.val.sizes] ELSE t
StcoInfo(b, t) == [t EXCEPT !.chunk_offsets_vec_ = b.val]

(* The entry of stsd sets the codec of an audio track before it is parsed. *)
StsdInfo(f, b, t) ==
  IF f.cls = "stsd" /\ t.handler_type_ = "soun"
  THEN [t EXCEPT !.codec_type_ = GetCodecTypeByBoxType(b.t)] ELSE t
Info(cls, b, f, t) ==
  CASE cls = "mdhd" -> MdhdInfo(b, t) [] cls = "hdlr" -> HdlrInfo(b, t)
    [] cls = "avcC" -> VideoSequenceInfo(b, t) [] cls = "hvcC" -> HvcCInfo(b, t)
    [] cls = "mp4a" -> Mp4aInfo(b, StsdInfo(f, b, t))
    [] cls = "stts" -> SttsInfo(b, t) [] cls = "stss" -> StssInfo(b, t)
    [] cls = "ctts" -> CttsInfo(b, t) [] cls = "stsc" -> StscInfo(b, t)
    [] cls = "stsz" -> StszInfo(b, t) [] cls = "stco" -> StcoInfo(b, t)
    [] OTHER -> StsdInfo(f, b, t)

-----------------------------------------------------------------------------
CONSTANTS
  Files,      \* the files: [boxes, samples, length]
  BlockSize,  \* 2048: the bytes one fread of mp4toflv_streamer returns
  FeedSizes,  \* the bytes one call hands on when there is no reader
  Micro       \* 1000000: ticks of sample_items_ in a second

ASSUME Mp4Constants ==
  /\ BlockSize \in Nat \ {0} /\ Micro \in Nat \ {0} /\ Word \in Nat \ {0}
  /\ FeedSizes \subseteq Nat \ {0}

VARIABLES
  file,       \* the file, one of Files, its boxes laid out
  tool,       \* who calls: "mp4dump", "mp4toflv" or "feed"
  calls,      \* calls of SourceData still to come
  fed,        \* bytes in buffer_, the consumed ones included
  p,          \* the cursor
  open,       \* the Parse calls under way: [cls, end, left]
  traks,      \* mov_.traks_info_
  items,      \* sample_items_, in the order of their insertion
  todo,       \* the items handleMovItems has still to send
  out,        \* the packets handed to the sinkers
  phase       \* "idle", "boxes", "items", "adjust", "send" or how it ended

vars == <<file, tool, calls, fed, p, open, traks, items, todo, out, phase>>

Ended == {"done", "aborted", "thrown", "crashed", "lost"}

(* mp4dump calls SourceData once with a reader.  mp4toflv_streamer calls   *)
(* it, with the same reader, for every block it reads of the file.         *)
Calls(t, f) == IF t = "mp4toflv" THEN (f.length + BlockSize - 1) \div BlockSize ELSE 1

Init ==
  /\ file \in Files /\ tool \in {"mp4dump", "mp4toflv", "feed"}
  /\ calls = Calls(tool, file) /\ fed = 0 /\ p = 0 /\ open = <<>> /\ traks = <<>>
  /\ items = <<>> /\ todo = <<>> /\ out = <<>> /\ phase = "idle"

-----------------------------------------------------------------------------
BoxesAt(a) == {i \in DOMAIN file.boxes : file.boxes[i].at = a}
HeaderAt(a) == file.boxes[CHOOSE i \in BoxesAt(a) : TRUE]

(* SourceData with a reader: OnRead begins at the start of the file.       *)
StartRead ==
  /\ phase = "idle" /\ tool # "feed"
  /\ IF calls = 0 THEN phase' = "done" /\ UNCHANGED <<calls, p>>
                  ELSE phase' = "boxes" /\ calls' = calls - 1 /\ p' = 0
  /\ UNCHANGED <<file, tool, fed, open, traks, items, todo, out>>

Feed_Drops ==
  /\ phase = "idle" /\ tool = "feed"
  /\ phase' = IF fed = file.length THEN "done" ELSE "boxes"
  /\ UNCHANGED <<file, tool, calls, fed, p, open, traks, items, todo, out>>
(* SourceData without one: the bytes are appended to buffer_.              *)
Feed ==
  /\ phase = "idle" /\ tool = "feed"
  /\ \E n \in FeedSizes :
       IF fed = file.length THEN phase' = "done" /\ UNCHANGED fed
       ELSE phase' = "boxes" /\ fed' = Min({fed + n, file.length})
  /\ UNCHANGED <<file, tool, calls, p, open, traks, items, todo, out>>

(* The loop of OnRead ends when 16 bytes, or the whole box, cannot be      *)
(* read; the loop of SourceData when the buffer has no whole box.  With    *)
(* fewer than 8 bytes in the buffer the size is read from beyond its end.  *)
ReadEnds == IF p + 16 > file.length THEN TRUE ELSE p + HeaderAt(p).size > file.length
FeedEnds ==
  IF p + 8 > fed THEN TRUE ELSE BoxesAt(p) # {} /\ p + HeaderAt(p).size > fed

Return ==
  /\ phase = "boxes" /\ open = <<>>
  /\ IF tool = "feed" THEN FeedEnds ELSE ReadEnds
  /\ phase' = "idle"
  /\ UNCHANGED <<file, tool, calls, fed, p, open, traks, items, todo, out>>

Stray ==
  /\ phase = "boxes" /\ open = <<>> /\ tool = "feed" /\ p < fed
  /\ IF p + 8 > fed THEN TRUE ELSE BoxesAt(p) = {}
  /\ phase' = "lost"
  /\ UNCHANGED <<file, tool, calls, fed, p, open, traks, items, todo, out>>

(* A box of the file itself.  offset goes past every box OnRead has read;  *)
(* SourceData goes on where Parse returned, for "free" after its header.   *)
TopBox(b) ==
  CASE b.t = "moov" -> p + b.hdr
    [] b.t = "free" /\ tool = "feed" -> p + b.hdr
    [] OTHER -> p + b.size
RootBox ==
  /\ phase = "boxes" /\ open = <<>> /\ BoxesAt(p) # {}
  /\ \E b \in {HeaderAt(p)} :
       /\ IF tool = "feed" THEN ~FeedEnds ELSE ~ReadEnds
       /\ p' = TopBox(b)
       /\ open' = IF b.t = "moov" THEN <<Frame("moov", b)>> ELSE <<>>
       /\ \/ phase' = IF b.t = "ftyp" /\ Aborts("ftyp", b) THEN "aborted" ELSE "boxes"
          \/ b.t = "ftyp" /\ FtypOverruns(b) /\ phase' = "crashed"
  /\ UNCHANGED <<file, tool, calls, fed, traks, items, todo, out>>

(* A box inside the one that is being parsed.                              *)
Child ==
  /\ phase = "boxes" /\ open # <<>> /\ More(Last(open), p) /\ BoxesAt(p) # {}
  /\ \E b \in {HeaderAt(p)}, f \in {Last(open)} :
     \E cls \in {ClassOf(f, b, IF traks = <<>> THEN "" ELSE Last(traks).handler_type_)} :
       /\ phase' = CASE Aborts(cls, b) \/ StsdRefuses(f, b) -> "aborted"
                     [] Throws(cls, b) -> "thrown"
                     [] OTHER -> "boxes"
       /\ traks' = CASE cls = "trak" -> Append(traks, TrakInfo)
                     [] traks = <<>> -> traks
                     [] OTHER -> [traks EXCEPT ![Len(traks)] = Info(cls, b, f, @)]
       /\ IF cls \in Containers
          THEN /\ p' = p + b.hdr + FirstChild(cls)
               /\ open' = Append(Counted(open), Frame(cls, b))
          ELSE p' = p + Returned(cls, b) /\ open' = Counted(open)
  /\ UNCHANGED <<file, tool, calls, fed, items, todo, out>>

(* Parse returns to the box around; MoovBox returns to the demuxer.        *)
CloseBox ==
  /\ phase = "boxes" /\ open # <<>> /\ ~More(Last(open), p)
  /\ LET f == Last(open)
     IN  /\ p' = f.end
         /\ open' = Front(open)
         /\ phase' = CASE f.cls \in Exact /\ p # f.end -> "aborted"
                       [] f.cls = "moov" -> "headers"
                       [] OTHER -> "boxes"
  /\ UNCHANGED <<file, tool, calls, fed, traks, items, todo, out>>

-----------------------------------------------------------------------------
(* makeMovItems sends the parameter sets of every track first.  It throws  *)
(* on a codec it does not know, and on an avcC other than the usual one:   *)
(* lengths of four bytes, one SPS.  The sets of an H.265 track are written *)
(* behind five bytes that their lengths do not count: cut bytes are lost.  *)
(* What stands for the AudioSpecificConfig is the boxes inside mp4a.       *)
Pkt(av, codec, seq, key, dts, pts, id, cut) ==
  [av_type_ |-> av, codec_type_ |-> codec, is_seq_hdr_ |-> seq, is_key_frame_ |-> key,
   dts_ |-> dts, pts_ |-> pts, id |-> id, cut |-> cut]
handleH264SpsPps(t) ==
  [i \in 1..2 |-> Pkt("video", "h264", TRUE, FALSE, 0, 0, <<0, i>>, 0)]
handleH265VpsSpsPps(t) ==
  [i \in 1..3 |-> Pkt("video", "h265", TRUE, FALSE, 0, 0, <<0, i>>, 5)]
handleAACExtraData(t) == <<Pkt("audio", "aac", TRUE, FALSE, 0, 0, <<0, 1>>, 0)>>
Refused(t) ==
  \/ t.handler_type_ = "vide" /\ t.codec_type_ \notin {"h264", "h265"}
  \/ t.handler_type_ = "vide" /\ t.codec_type_ = "h264" /\ t.sequence_data_ # "usual"
  \/ t.handler_type_ = "soun" /\ t.codec_type_ # "aac"
SequenceData_NoAac(t) ==
  CASE t.handler_type_ = "vide" /\ t.codec_type_ = "h264" -> handleH264SpsPps(t)
    [] t.handler_type_ = "vide" -> handleH265VpsSpsPps(t)
    [] OTHER -> <<>>
SequenceData(t) ==
  CASE t.handler_type_ = "vide" /\ t.codec_type_ = "h264" -> handleH264SpsPps(t)
    [] t.handler_type_ = "vide" -> handleH265VpsSpsPps(t)
    [] t.handler_type_ = "soun" -> handleAACExtraData(t)
    [] OTHER -> <<>>

SendHeaders ==
  /\ phase = "headers"
  /\ LET bad == {i \in DOMAIN traks : Refused(traks[i])}
         n   == IF bad = {} THEN Len(traks) ELSE Min(bad) - 1
     IN  /\ out' = out \o FlattenSeq([i \in 1..n |-> SequenceData(traks[i])])
         /\ phase' = IF bad = {} THEN "items" ELSE "thrown"
  /\ UNCHANGED <<file, tool, calls, fed, p, open, traks, items, todo>>

-----------------------------------------------------------------------------
(* The samples of a track.  Chunks and samples are numbered from 1.        *)
SamplesPerChunk(t, c) ==
  LET v == t.chunk_sample_vec_
      found == {i \in DOMAIN v : v[i][1] <= c /\ (i = Len(v) \/ c < v[i + 1][1])}
  IN  MapThenSumSet(LAMBDA i : v[i][2], found)
FirstSample(t, c) == 1 + MapThenSumSet(LAMBDA j : SamplesPerChunk(t, j), 1..(c - 1))

(* The number of the sample is compared with sums of entry counts: the     *)
(* last sample of an entry gets the duration of the next one, ...          *)
Before(v, i) == MapThenSumSet(LAMBDA j : v[j][1], 1..(i - 1))
getDurationBySampleIndex(k, t) ==
  LET v == t.sample_entries_
      hit == {i \in DOMAIN v : Before(v, i) <= k /\ k < Before(v, i + 1)}
  IN  IF hit = {} THEN 0 ELSE v[Min(hit)][2]
getPtsBySampleIndex_Late(k, dts, t) ==
  LET v == t.sample_offset_vec_
      hit == {i \in DOMAIN v : Before(v, i) = k}
  IN  IF hit = {} THEN dts ELSE dts + v[Min(hit)][2]
(* ... and only the last sample of an entry gets its composition offset.   *)
getPtsBySampleIndex(k, dts, t) ==
  LET v == t.sample_offset_vec_
      hit == {i \in DOMAIN v : Before(v, i + 1) = k}
  IN  IF hit = {} THEN dts ELSE dts + v[Min(hit)][2]
isKeyframe(k, t) == Contains(t.iframe_sample_vec_, k)

InMicros(t, x) == IF t.timescale_ > 0 THEN (x * Micro) \div t.timescale_ ELSE x
Item_NoOffset(t, c, k) ==
  [av_type_ |-> IF t.handler_type_ = "soun" THEN "audio" ELSE "video", codec_type_ |-> t.codec_type_,
   offset |-> t.chunk_offsets_vec_[c], len |-> t.sample_sizes_vec_[k],
   key |-> 0, dts |-> 0, pts |-> 0, is_keyframe_ |-> isKeyframe(k, t)]
Item(t, c, k) ==
  LET dts == MapThenSumSet(LAMBDA j : getDurationBySampleIndex(j, t), 1..(k - 1))
  IN  [av_type_ |-> IF t.handler_type_ = "soun" THEN "audio" ELSE "video",
       codec_type_ |-> t.codec_type_,
       offset |-> t.chunk_offsets_vec_[c]
                  + MapThenSumSet(LAMBDA j : t.sample_sizes_vec_[j], FirstSample(t, c)..(k - 1)),
       len |-> t.sample_sizes_vec_[k],
       key |-> InMicros(t, dts), dts |-> InMicros(t, dts), pts |-> InMicros(t, getPtsBySampleIndex(k, dts, t)),
       is_keyframe_ |-> isKeyframe(k, t)]
getSampleInfoInChunk(t, c) ==
  IF t.handler_type_ \notin {"soun", "vide"} THEN <<>>
  ELSE [i \in 1..SamplesPerChunk(t, c) |-> Item(t, c, FirstSample(t, c) + i - 1)]

(* sample_sizes_vec_ is empty when stsz states one size for all samples.   *)
OutOfTable(t) ==
  /\ t.handler_type_ \in {"soun", "vide"}
  /\ FirstSample(t, Len(t.chunk_offsets_vec_) + 1) - 1 > Len(t.sample_sizes_vec_)
makeMovItems ==
  /\ phase = "items"
  /\ IF \E i \in DOMAIN traks : OutOfTable(traks[i])
     THEN phase' = "crashed" /\ UNCHANGED items
     ELSE /\ phase' = "adjust"
          /\ items' = items \o FlattenSeq(FlattenSeq(
               [i \in DOMAIN traks |-> [c \in DOMAIN traks[i].chunk_offsets_vec_ |->
                                          getSampleInfoInChunk(traks[i], c)]]))
  /\ UNCHANGED <<file, tool, calls, fed, p, open, traks, todo, out>>

-----------------------------------------------------------------------------
(* sample_items_ is a multimap over the dts an item was inserted with.     *)
InOrder(its) ==
  LET pos == SortSeq([i \in DOMAIN its |-> i],
               LAMBDA i, j : its[i].key < its[j].key \/ (its[i].key = its[j].key /\ i < j))
  IN  [n \in DOMAIN pos |-> its[pos[n]]]

(* The duration of the first sample of the last track of a kind, in        *)
(* 32-bit arithmetic.                                                      *)
FirstDuration(handler) ==
  LET of == {i \in DOMAIN traks : /\ traks[i].handler_type_ = handler
                                  /\ traks[i].sample_entries_ # <<>> /\ traks[i].timescale_ > 0}
      t  == traks[Max(of)]
  IN  IF of = {} THEN 0 ELSE ((t.sample_entries_[1][2] * Micro) % Word) \div t.timescale_

(* The scan stops at the first item of one kind that follows an item with  *)
(* a dts of the other kind while its own kind has none yet: its kind is    *)
(* shifted.  When no item stops it, the audio is shifted by its last dts.  *)
Scan(s, it) ==
  IF s.stop THEN s
  ELSE IF it.av_type_ = "audio"
  THEN IF s.v > 0 /\ s.a <= 0
       THEN [s EXCEPT !.a = s.v + FirstDuration("soun"), !.video = FALSE, !.stop = TRUE]
       ELSE [s EXCEPT !.a = it.dts]
  ELSE IF s.a > 0 /\ s.v <= 0
       THEN [s EXCEPT !.v = s.a + FirstDuration("vide"), !.video = TRUE, !.stop = TRUE]
       ELSE [s EXCEPT !.v = it.dts]
Shift_Both(s, it) ==
  CASE it.av_type_ = "audio" -> [it EXCEPT !.dts = @ + s.a, !.pts = @ + s.a]
    [] OTHER -> [it EXCEPT !.dts = @ + s.v, !.pts = @ + s.v]
Shift(s, it) ==
  CASE it.av_type_ = "audio" /\ ~s.video -> [it EXCEPT !.dts = @ + s.a, !.pts = @ + s.a]
    [] it.av_type_ = "video" /\ s.video -> [it EXCEPT !.dts = @ + s.v, !.pts = @ + s.v]
    [] OTHER -> it
adjustAllDts ==
  /\ phase = "adjust" /\ phase' = "send"
  /\ LET s == FoldLeft(Scan, [v |-> -1, a |-> -1, video |-> FALSE, stop |-> FALSE], InOrder(items))
     IN  items' = [i \in DOMAIN items |-> Shift(s, items[i])]
  /\ todo' = InOrder(items')
  /\ UNCHANGED <<file, tool, calls, fed, p, open, traks, out>>

-----------------------------------------------------------------------------
(* What the bytes of an item hold: the units of the sample the writer put  *)
(* there, or else nothing that Avcc2Nalus accepts.                         *)
UnitsAt(it) ==
  LET s == {x \in file.samples : x.at = it.offset /\ x.len = it.len}
  IN  IF s = {} THEN <<>> ELSE (CHOOSE x \in s : TRUE).units

(* The H.264 tests are used for H.265 too: there no unit is a key frame,   *)
(* and an IDR_N_LP slice, whose first byte is 0x28, looks like a PPS.      *)
IsSeqUnit(codec, u) ==
  (codec = "h264" /\ u \in {"sps", "pps"}) \/ (codec = "h265" /\ u = "idr_n_lp")
IsKeyUnit(codec, u) == codec = "h264" /\ u = "idr"
Millis(x) == (x * 1000) \div Micro
Units(it) ==
  [j \in DOMAIN UnitsAt(it) |->
     Pkt("video", it.codec_type_, IsSeqUnit(it.codec_type_, UnitsAt(it)[j]),
         IsKeyUnit(it.codec_type_, UnitsAt(it)[j]), Millis(it.dts), Millis(it.pts),
         <<it.offset, j>>, 0)]
Sent_NoCheck(it) ==
  IF it.av_type_ = "video" THEN Units(it)
  ELSE <<Pkt("audio", it.codec_type_, FALSE, FALSE, Millis(it.dts), Millis(it.pts), <<it.offset, 1>>, 0)>>
Sent(it) ==
  IF it.av_type_ = "video"
  THEN IF it.len <= 5 THEN <<>> ELSE Units(it)
  ELSE <<Pkt("audio", it.codec_type_, FALSE, FALSE, Millis(it.dts), Millis(it.pts),
             <<it.offset, 1>>, 0)>>

(* handleMovItems: without a reader there is nothing to read from, and the *)
(* first item that cannot be read ends the loop.                           *)
handleMovItems ==
  /\ phase = "send"
  /\ IF todo = <<>> THEN phase' = "boxes" /\ UNCHANGED <<todo, out>>
     ELSE IF tool = "feed" THEN phase' = "crashed" /\ UNCHANGED <<todo, out>>
     ELSE /\ UNCHANGED phase
          /\ IF Head(todo).offset + Head(todo).len > file.length
             THEN todo' = <<>> /\ UNCHANGED out
             ELSE todo' = Tail(todo) /\ out' = out \o Sent(Head(todo))
  /\ UNCHANGED <<file, tool, calls, fed, p, open, traks, items>>

-----------------------------------------------------------------------------
Finished == phase \in Ended /\ UNCHANGED vars

Next ==
  \/ StartRead \/ Feed \/ Return \/ Stray \/ RootBox \/ Child \/ CloseBox
  \/ SendHeaders \/ makeMovItems \/ adjustAllDts \/ handleMovItems \/ Finished

(* One call runs to its end, and the tools make the next one: this is the  *)
(* weak fairness of Next, with the states in which a step changes nothing  *)
(* named instead of ENABLED.                                               *)
Stalled ==
  /\ phase = "boxes" /\ open = <<>>
  /\ \E b \in ToSet(file.boxes) : b.at = p /\ b.size = 0
Spec == Init /\ [][Next]_vars /\ ([]<>(phase \in Ended \/ Stalled) \/ []<><<Next>>_vars)

-----------------------------------------------------------------------------
(* The type invariant.                                                     *)
Mp4TypeOK ==
  /\ phase \in Ended \cup {"idle", "boxes", "headers", "items", "adjust", "send"}
  /\ p \in Nat /\ fed \in 0..file.length /\ calls \in Nat
  /\ \A i \in DOMAIN open : open[i].cls \in Containers /\ open[i].left \in Nat

FirstCall == calls + 1 = Calls(tool, file)

BoxIn(t, P(_)) == \A i \in DOMAIN file.boxes : file.boxes[i].t = t => P(file.boxes[i])
ChildrenOf(b) ==
  {c \in ToSet(file.boxes) : c.d = b.d + 1 /\ b.at < c.at /\ c.end <= b.end}

(* The files the demuxer can read: mvhd and ftyp of the lengths it knows,  *)
(* one box at most in udta, boxes inside mp4a, hdlr before minf, codecs it *)
(* knows, sample sizes in a table.                                         *)
Readable ==
  /\ BoxIn("mvhd", LAMBDA b : b.ver = 0) /\ BoxIn("ftyp", LAMBDA b : b.n <= BRANDS_MAX)
  /\ BoxIn("udta", LAMBDA b : Cardinality(ChildrenOf(b)) <= 1)
  /\ BoxIn("mp4a", LAMBDA b : ChildrenOf(b) # {})
  /\ BoxIn("mdia", LAMBDA b : \E h, m \in ChildrenOf(b) : h.t = "hdlr" /\ m.t = "minf" /\ h.at < m.at)
  /\ BoxIn("stsd", LAMBDA b : \A c \in ChildrenOf(b) : c.t \in {"avc1", "hvc1", "mp4a"})
  /\ BoxIn("avcC", LAMBDA b : b.val = "usual")
  /\ BoxIn("hvcC", LAMBDA b : \A a \in ToSet(b.val.arrays) : a.lens # <<>>)
  /\ BoxIn("stsz", LAMBDA b : b.val.constant = 0)

(* The walk is never out of step with the boxes: what Parse passes over,   *)
(* the loop bounds of the containers and the returned pointers lead to the *)
(* next header or to the end of a box.  It loses the boxes only where      *)
(* SourceData is fed: behind a free box with contents, or when a header    *)
(* is cut by the end of what was fed.                                      *)
WalkInStep ==
  /\ phase = "boxes" /\ tool # "feed" => \E b \in ToSet(file.boxes) : p \in {b.at, b.end}
  /\ phase = "lost" => /\ tool = "feed"
                       /\ \/ p + 8 > fed
                          \/ \E b \in ToSet(file.boxes) : b.t = "free" /\ b.at < p /\ p < b.end

(* No assertion, exception or stray access ends the program on a readable  *)
(* file that is given with a reader.                                       *)
ReadableFilesRead ==
  phase \in {"aborted", "thrown", "crashed"} => ~Readable \/ tool = "feed"

(* OnRead returns, and the tool comes to its end, unless a box states the  *)
(* size 0 (an mdat up to the end of the file): offset never moves past it. *)
ToolReturns ==
  (\A b \in ToSet(file.boxes) : b.size # 0) => <>(phase \in Ended)

(* Every item of sample_items_ is a sample of its kind, with the offset    *)
(* and the length at which the writer of the file put it.                  *)
ItemsAreSamples ==
  \A it \in ToSet(items) :
    \E x \in file.samples : x.av = it.av_type_ /\ x.at = it.offset /\ x.len = it.len

(* Each sample of more than five bytes, or of audio, whose chunk is listed *)
(* in stco is sent once by one call of SourceData; those in co64 never.    *)
(* traks_info_ and sample_items_ are kept from call to call, so the n      *)
(* calls of mp4toflv_streamer send n(n+1)(n+2)/6 copies of each.           *)
CopiesSent ==
  phase = "done" /\ tool # "feed" /\ Readable /\ (\A b \in ToSet(file.boxes) : b.end <= file.length)
  => \A x \in file.samples :
       LET n == IF x.box = "stco" /\ (x.av = "audio" \/ x.len > 5) THEN Calls(tool, file) ELSE 0
       IN  Cardinality({i \in DOMAIN out : out[i].id = <<x.at, 1>>}) = (n * (n + 1) * (n + 2)) \div 6

(* No frame is sent before the parameter sets of its kind.                 *)
HeadersFirst ==
  \A i \in DOMAIN out : out[i].is_seq_hdr_ \/
    \E j \in 1..(i - 1) : out[j].is_seq_hdr_ /\ out[j].av_type_ = out[i].av_type_

(* The timestamps of an item against the tables of its track.  The times   *)
(* are those ISO/IEC 14496-12 defines while stts is in its first entry and *)
(* each entry of ctts is about one sample; a sample in a later entry of    *)
(* stts is off by the difference between its duration and the first one.   *)
EntryOf(v, k) == v[CHOOSE i \in DOMAIN v : Before(v, i) < k /\ k <= Before(v, i + 1)]
IsoDts(t, k) == MapThenSumSet(LAMBDA j : EntryOf(t.sample_entries_, j)[2], 1..(k - 1))
TimesFromTables ==
  phase = "adjust" =>
    \A it \in ToSet(items), t \in ToSet(traks), x \in file.samples :
      x.at = it.offset /\ x.len = it.len /\ x.av = (IF t.handler_type_ = "vide" THEN "video" ELSE "audio")
      => LET e == EntryOf(t.sample_entries_, x.k)
             c == t.sample_offset_vec_
         IN  /\ it.key = InMicros(t, IsoDts(t, x.k) + e[2] - t.sample_entries_[1][2])
             /\ c # <<>> /\ EntryOf(c, x.k)[1] = 1 /\ e = t.sample_entries_[1] /\ FirstCall
                => it.pts = InMicros(t, IsoDts(t, x.k) + EntryOf(c, x.k)[2])

(* adjustAllDts moves the items of one kind, all by the same time, and     *)
(* leaves the other kind alone: sound and picture are shifted against each *)
(* other, and a track keeps its own distances and order.                   *)
OneKindShifted ==
  phase = "send" /\ FirstCall =>
    /\ \A x, y \in ToSet(items) : x.av_type_ = y.av_type_ => x.dts - x.key = y.dts - y.key
    /\ \E kind \in {"audio", "video"} : \A x \in ToSet(items) : x.av_type_ = kind => x.dts = x.key
    /\ \A x \in ToSet(items) : x.dts >= x.key
    /\ \A i, j \in DOMAIN todo : i < j /\ todo[i].av_type_ = todo[j].av_type_ => todo[i].dts <= todo[j].dts

(* The walk over the boxes stays in step with them, and no readable file   *)
(* ends the program.                                                       *)
WalkSound == Mp4TypeOK /\ WalkInStep /\ ReadableFilesRead

(* Every sample of the file is found where it is, sent as often as stated, *)
(* behind its parameter sets, and with the time its tables give before one *)
(* kind is shifted (makeMovItems, adjustAllDts, handleMovItems).           *)
SamplesSent ==
  /\ ItemsAreSamples /\ CopiesSent /\ HeadersFirst /\ TimesFromTables
  /\ OneKindShifted
=============================================================================
