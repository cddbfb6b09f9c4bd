----------------------------- MODULE AudioHeader ----------------------------
(***************************************************************************)
(* Opus access units in MPEG-TS (format/opus_header.cpp): the control      *)
(* header and the frames of a packet.  Data is a sequence of bytes; a      *)
(* frame is <<first, length>>, and as in the code it begins one byte       *)
(* before its data, where a packet of one frame has its TOC byte.          *)
(*                                                                         *)
(* AAC on its way from FLV to MPEG-TS (format/audio_header.cpp): FlvDemux  *)
(* reads the AudioSpecificConfig, MpegtsMux writes an ADTS header in front *)
(* of every frame.  Both are sequences of bytes.                           *)
(***************************************************************************)
EXTENDS Integers, Sequences
LOCAL INSTANCE SequencesExt

None == [ok |-> FALSE, frames |-> <<>>]
Found(frames) == [ok |-> TRUE, frames |-> frames]

Bit(byte, n) == (byte \div 2^n) % 2

(* Where the access unit begins and how long it is; <<0, 0>> on an error.  *)
(* Data that has no control header is the unit.                            *)
GetOpusHeader(d, at) ==
  LET n == Len(d)
      ends == {i \in at + 3..n + 1 : i > n \/ d[i - 1] # 255}
      i == CHOOSE e \in ends : \A f \in ends : e <= f      \* behind au_size
      size == FoldLeft(LAMBDA s, b : s + b, 0, SubSeq(d, at + 2, i - 1))
      j == i + 2 * Bit(d[at + 1], 4) + 2 * Bit(d[at + 1], 3)
      k == IF Bit(d[at + 1], 2) = 0 THEN j ELSE j + 1 + d[j]
  IN  IF n - at + 1 < 3 THEN <<0, 0>>
      ELSE IF d[at] # 127 \/ d[at + 1] \div 32 # 7 THEN <<at, n - at + 1>>
      ELSE IF k - at + size > n - at + 1 THEN <<0, 0>> ELSE <<k, size>>

(* xiph_lacing_16bit: the length and the place behind it, -1 on an error.  *)
xiph_lacing_16bit(d, at, end) ==
  IF at >= end THEN <<-1, at>>
  ELSE IF d[at] < 252 THEN <<d[at], at + 1>>
  ELSE IF at + 1 >= end THEN <<-1, at>> ELSE <<d[at] + 4 * d[at + 1], at + 2>>

(* xiph_lacing_full: 255 stands for 254 and more to come.                  *)
xiph_lacing_full(d, at, end) ==
  LET stops == {i \in at..end - 1 : d[i] < 255}
      i == CHOOSE e \in stops : \A f \in stops : e <= f
  IN  IF stops = {} THEN <<-1, at>> ELSE <<254 * (i - at) + d[i], i + 1>>

(* Code 3, sizes given: one size less than frames is read, and the last    *)
(* frame is not kept apart from the one before it.                         *)
VbrFrames(d, at, end, count, padding) ==
  LET sizes[i \in 0..count - 1] ==
        IF i = 0 THEN [at |-> at, s |-> <<>>]
        ELSE LET r == sizes[i - 1]
                 x == IF r.at = 0 THEN <<-1, 0>> ELSE xiph_lacing_16bit(d, r.at, end)
             IN  IF x[1] < 0 THEN [at |-> 0, s |-> <<>>]
                 ELSE [at |-> x[2], s |-> Append(r.s, x[1])]
      got == sizes[count - 1]
      total == FoldLeft(LAMBDA s, b : s + b, 0, got.s)
      space == end - got.at - padding
      before(i) == FoldLeft(LAMBDA s, b : s + b, 0, SubSeq(got.s, 1, i - 1))
  IN  IF got.at = 0 \/ total > space THEN None
      ELSE Found([i \in 1..count - 1 |->
             <<got.at + before(i) - 1,
               (IF i = count - 1 THEN space - total ELSE got.s[i]) + 1>>])

(* Code 3, all frames of one size.                                         *)
CbrFrames(at, end, count, padding) ==
  LET space == end - at - padding
      n == space \div count
  IN  IF space % count # 0 \/ n > 48 THEN None
      ELSE Found([i \in 1..count |-> <<at + (i - 1) * n - 1, n + 1>>])

(* Mutant of GetOpusFrame: half of the whole packet, TOC byte included.    *)
GetOpusFrameHalf(d, at, len) ==
  LET code == d[at] % 4
  IN  IF code = 0 THEN Found(<<<<at, len>>>>)
      ELSE Found(<<<<at, len \div 2>>, <<at + len \div 2, len \div 2>>>>)

(* The frames of the packet of len bytes at "at".                          *)
GetOpusFrame(d, at, len) ==
  LET end == at + len
      code == d[at] % 4
      half == (len - 1) \div 2
      first == xiph_lacing_16bit(d, at + 1, end)
      count == d[at + 1] % 64
      pad == IF Bit(d[at + 1], 6) = 0 THEN <<0, at + 2>> ELSE xiph_lacing_full(d, at + 2, end)
  IN  CASE code = 0 -> Found(<<<<at, len>>>>)
        [] code = 1 -> IF (len - 1) % 2 = 1 THEN None
                       ELSE Found(<<<<at, half + 1>>, <<at + half, half + 1>>>>)
        [] code = 2 -> IF first[1] <= 0 THEN None
                       ELSE Found(<<<<first[2] - 1, first[1] + 1>>,
                                    <<first[2] + first[1] - 1, end - first[2] - first[1] + 1>>>>)
        [] OTHER -> IF count = 0 \/ count > 48 \/ pad[1] < 0 THEN None
                    ELSE IF Bit(d[at + 1], 7) = 1 THEN VbrFrames(d, pad[2], end, count, pad[1])
                    ELSE CbrFrames(pad[2], end, count, pad[1])

(* GetOpusFrameVector: unit after unit; an error ends it.                  *)
GetOpusFrameVector(d) ==
  LET from[at \in 1..Len(d) + 1] ==
        IF at > Len(d) THEN Found(<<>>)
        ELSE LET head == GetOpusHeader(d, at)
                 got == IF head[1] = 0 THEN None ELSE GetOpusFrame(d, head[1], head[2])
                 next == head[1] + head[2]
             IN  IF ~got.ok THEN None
                 ELSE [ok |-> from[next].ok, frames |-> got.frames \o from[next].frames]
  IN  from[1]

-----------------------------------------------------------------------------
mpeg4audio_sample_rates ==
  <<96000, 88200, 64000, 48000, 44100, 32000, 24000, 22050, 16000, 12000,
    11025, 8000, 7350, 0, 0, 0>>

ASC_TYPE_AAC_LC == 2

Read2Bytes(d, at) == 256 * d[at] + d[at + 1]

(* The config begins with 5 bits of type and 4 of rate.  Behind the two    *)
(* bytes of field only one is skipped, so that the second is read again.   *)
(* A rate given in full is put together wrongly and leaves the packet's    *)
(* two channels; in the long form it fails an assertion on a length that   *)
(* is taken before the packet has its data.                                *)
GetAudioInfoByAsc(d) ==
  LET field == Read2Bytes(d, 1)
      type == field \div 2048
      long == type = 31
      index == IF long THEN (field \div 2) % 16 ELSE (field \div 128) % 16
      rate == mpeg4audio_sample_rates[index + 1]
      Info(t, r, c) == [ok |-> TRUE, type |-> t, sample_rate |-> r, channel |-> c]
  IN  CASE long /\ index = 15 -> [ok |-> FALSE, type |-> 0, sample_rate |-> 0, channel |-> 0]
        [] long /\ index # 15 -> Info((field \div 32) % 64, rate, 8 * (field % 2) + d[2] \div 32)
        [] ~long /\ index = 15 ->
             Info(type, (field % 128) * 2^17 + ((Read2Bytes(d, 2) \div 2) % 128), 2)
        [] OTHER -> Info(type, rate, (field \div 8) % 16)

(* The first place of a rate in the table, or that of 44100.               *)
GetSamplerateIndex(rate) ==
  LET at == {i \in DOMAIN mpeg4audio_sample_rates : mpeg4audio_sample_rates[i] = rate}
  IN  IF at = {} THEN 4 ELSE (CHOOSE i \in at : \A j \in at : i <= j) - 1

GetAdtsTypeByAscType(type) ==
  CASE type \in {1, 3} -> type
    [] type \in {2, 5, 29} -> 2
    [] OTHER -> 4

(* Mutant of MakeAdts: the header is not part of the frame's length.       *)
MakeAdtsBare(object_type, sample_rate, channel, n) ==
  <<255, 249,
    64 * (object_type - 1) + 4 * GetSamplerateIndex(sample_rate) + channel \div 4,
    64 * (channel % 4) + (n % 8192) \div 2048, (n \div 8) % 256, 32 * (n % 8) + 31, 252>>

(* Seven bytes; the length of the frame and its header has 13 bits.        *)
MakeAdts(object_type, sample_rate, channel, n) ==
  LET full_frame_size == (n + 7) % 8192
  IN  <<255, 249,
        64 * (object_type - 1) + 4 * GetSamplerateIndex(sample_rate) + channel \div 4,
        64 * (channel % 4) + full_frame_size \div 2048,
        (full_frame_size \div 8) % 256,
        32 * (full_frame_size % 8) + 31, 252>>

(* MpegtsMux::HandleAudioAac on a frame of n bytes, behind this config:    *)
(* nothing is written while a member of it is 0.  The frame's own type is  *)
(* FlvDemux's aac_asc_type_, which the config does not change.             *)
HandleAudioAac(info, n) ==
  IF 0 \in {info.type, info.sample_rate, info.channel} THEN <<>>
  ELSE MakeAdts(GetAdtsTypeByAscType(ASC_TYPE_AAC_LC), info.sample_rate, info.channel, n)
=============================================================================
