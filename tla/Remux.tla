-------------------------------- MODULE Remux --------------------------------
(***************************************************************************)
(* The tools flv2mpegts_streamer and mpegts2flv_streamer one after the     *)
(* other: an FLV file is read in pieces, demuxed and muxed into a file of  *)
(* transport packets; that file is read in pieces, demuxed and muxed into  *)
(* an FLV file.                                                            *)
(***************************************************************************)
EXTENDS Flv, MpegTs

CONSTANTS
  Shapes,     \* tags without their timestamps: [kind, codec, key, seq, cts, units]
  Starts,     \* the timestamp of the first tag
  ReadPackets,\* 10: transport packets that one fread returns
  MaxTags     \* bound: tags of the file

ASSUME RemuxConstants == ReadPackets \in Nat \ {0} /\ MaxTags \in Nat

VARIABLES
  start,      \* the timestamp of the first tag
  unread,     \* parts of the FLV file that fread has not returned
  tags,       \* tags written into the FLV file
  ended,      \* the FLV file is complete
  demux,      \* FlvDemuxer
  busy,       \* InputPacket is in its loop
  aborted,    \* an assertion has failed
  mux,        \* MpegtsMux
  at,         \* transport packets read by the second tool
  ts,         \* MpegtsDemux
  flv         \* FlvMuxer

vars == <<start, unread, tags, ended, demux, busy, aborted, mux, at, ts, flv>>

RemuxInit ==
  /\ start \in Starts /\ unread = <<FileHeader>> /\ tags = <<>> /\ ended = FALSE
  /\ demux = FlvDemuxInit /\ busy = FALSE /\ aborted = FALSE /\ mux = TsMuxInit
  /\ at = 0 /\ ts = TsDemuxInit /\ flv = FlvMuxInit

-----------------------------------------------------------------------------
TagOf(s, id) ==
  Tag(s.kind, s.codec, s.key, s.seq, start + id, s.cts,
      CASE s.codec \in {"h264", "h265"} -> AvccFrame(s.units, id)
        [] s.codec = "opus" /\ s.seq -> <<<<"opushead">>>>
        [] OTHER -> [i \in 1..s.units[1][2] |-> <<"byte", <<id, 1>>, i>>])

(* External: the FLV file.                                                 *)
AddTag(s) ==
  /\ ~ended /\ Len(tags) < MaxTags /\ unread \in {<<>>, <<FileHeader>>}
  /\ \E tag \in {TagOf(s, Len(tags))} :
       /\ tags' = Append(tags, tag)
       /\ unread' = unread \o TagParts(tag)
  /\ UNCHANGED <<start, ended, demux, busy, aborted, mux, at, ts, flv>>

EndFile ==
  /\ ~ended /\ unread = <<>> /\ ~busy /\ ended' = TRUE
  /\ UNCHANGED <<start, unread, tags, demux, busy, aborted, mux, at, ts, flv>>

(* fread and FlvDemuxer::InputPacket with what it returned.                *)
ReadFlv(n) ==
  /\ ~busy /\ ~aborted /\ n <= Len(unread)
  /\ demux' = [demux EXCEPT !.buffer_ = @ \o SubSeq(unread, 1, n)]
  /\ unread' = SubSeq(unread, n + 1, Len(unread)) /\ busy' = TRUE
  /\ UNCHANGED <<start, tags, ended, aborted, mux, at, ts, flv>>

(* One round of its loop; SinkData calls MpegtsMux::SourceData.            *)
DemuxFlv ==
  /\ busy /\ ~aborted
  /\ \E r \in {HandlePacket(demux)} :
       /\ demux' = r.d /\ busy' = (r.ret = "ok") /\ aborted' = (r.ret = "abort")
       /\ mux' = FoldLeft(InputPacket, mux, r.pkts)
  /\ UNCHANGED <<start, unread, tags, ended, at, ts, flv>>

(* fread of the second tool, MpegtsDemux::SourceData, and Output calling   *)
(* FlvMuxer::SourceData.                                                   *)
ReadTsFile ==
  /\ ended /\ at < Len(mux.out)
  /\ \E n \in {IF Len(mux.out) - at < ReadPackets THEN Len(mux.out) - at ELSE ReadPackets} :
     \E d \in {Decode([ts EXCEPT !.out = <<>>], SubSeq(mux.out, at + 1, at + n))} :
       /\ at' = at + n /\ ts' = d
       /\ flv' = FoldLeft(SourceData, flv, d.out)
  /\ UNCHANGED <<start, unread, tags, ended, demux, busy, aborted, mux>>

(* The tools end when their files do; a demuxer in its loop does not.      *)
Done == aborted \/ (ended /\ at = Len(mux.out))

Finished == Done /\ UNCHANGED vars

RemuxNext ==
  \/ \E s \in Shapes : AddTag(s)
  \/ EndFile
  \/ \E n \in 1..Len(unread) : ReadFlv(n)
  \/ DemuxFlv
  \/ ReadTsFile
  \/ Finished

(* A round changes the state: ENABLED <<DemuxFlv>>_vars, in a form that    *)
(* TLC evaluates quickly.                                                  *)
RoundChanges ==
  /\ busy /\ ~aborted
  /\ \E r \in {HandlePacket(demux)} :
       r.d # demux \/ r.ret # "ok" \/ FoldLeft(InputPacket, mux, r.pkts) # mux

(* The tools run until they end: weak fairness of each of their steps.     *)
RemuxSpec ==
  /\ RemuxInit /\ [][RemuxNext]_vars
  /\ WF_vars(\E n \in 1..Len(unread) : ReadFlv(n)) /\ WF_vars(EndFile)
  /\ []<>~RoundChanges \/ []<><<DemuxFlv>>_vars
  /\ []<>~(ended /\ at < Len(mux.out)) \/ []<><<ReadTsFile>>_vars

-----------------------------------------------------------------------------
(* What MpegtsMux and MpegtsDemux do not carry: a key frame, or a unit of  *)
(* a tag with one, that with the PCR leaves part of a transport packet     *)
(* free; a timestamp too large; a DTS of zero before a PTS.                *)
PesLen(pes) == Len(pes.data) + (IF pes.pid = "video" /\ pes.dts # pes.pts THEN 3 ELSE 2)
TooShort(n) == n < TS_DEF_DATALEN /\ n # TS_DEF_DATALEN - PcrLen
ShortKey(tag) ==
  tag.kind = "video" /\ tag.key /\ \E i \in DOMAIN mux.muxed :
    mux.muxed[i].dts = tag.dts /\ mux.muxed[i].pid = "video" /\ TooShort(PesLen(mux.muxed[i]))
NotCarried ==
  \E i \in DOMAIN tags : \/ ShortKey(tags[i])
                         \/ tags[i].dts + tags[i].cts >= TsLimit
                         \/ tags[i].dts = 0 /\ tags[i].cts > 0

RemuxTypeOK ==
  /\ at \in 0..Len(mux.out) /\ Len(mux.wait_queue_) <= WaitMax
  /\ \A i \in DOMAIN mux.out :
       mux.out[i].pid \in {"video", "audio"} => Len(mux.out[i].body) = TS_DEF_DATALEN

(* What comes out of the transport stream is what went into it, packet by  *)
(* packet, in order, with its timestamps: nothing is mixed, cut, repeated  *)
(* or left out but the packet that is not yet complete.                    *)
StreamCarried ==
  ~NotCarried =>
    /\ IsPrefix(ts.taken, mux.muxed)
    /\ (Done /\ ~aborted) => Len(ts.taken) + 1 >= Len(mux.muxed)

(* Frames of the output: the units of the tags that are not headers.       *)
OutFrames == SelectSeq(flv.out, LAMBDA t : t.kind = "video" /\ ~t.seq)
UnitId(t) == t.data[1][3]

(* Every frame of the output is a unit of a tag of the input, in the order *)
(* of the input and with its timestamps (modulo what FLV tags keep).       *)
FramesInOrder ==
  ~NotCarried =>
    /\ \A i \in DOMAIN OutFrames :
         LET t == OutFrames[i]
             src == tags[UnitId(t)[1] + 1]
         IN  /\ t.dts = src.dts % FlvTsMod /\ t.cts = src.cts
             /\ IsPrefix(t.data, SubSeq(src.data, SelectInSeq(src.data, LAMBDA a : a = t.data[1]),
                                        Len(src.data)))
    /\ \A i, j \in DOMAIN OutFrames : i < j =>
         LET a == UnitId(OutFrames[i])
             b == UnitId(OutFrames[j])
         IN  a[1] < b[1] \/ (a[1] = b[1] /\ a[2] < b[2])

(* A sequence header that the demuxer leaves out for its size.             *)
LeftOut(t) == t.kind = "video" /\ t.codec = "h264" /\ t.seq /\ ~IsSeqHeader(t)

(* The parameter sets in force for a unit: the last ones before it that    *)
(* were not left out.                                                      *)
LastBefore(type, id) ==
  LET ids == {<<i - 1, j>> : i \in 1..(id[1] + 1), j \in 1..4}
      sets == {k \in ids : /\ tags[k[1] + 1].kind = "video" /\ ~LeftOut(tags[k[1] + 1])
                           /\ <<"len", type, k>> \in ToSet(tags[k[1] + 1].data)
                           /\ (k[1] < id[1] \/ k[2] < id[2])}
  IN  CHOOSE k \in sets : \A l \in sets : l[1] < k[1] \/ (l[1] = k[1] /\ l[2] <= k[2])

(* A key frame of the output follows a sequence header with the parameter  *)
(* sets that preceded it in the input, however often these change (but for *)
(* those in a sequence header that is left out).                           *)
KeysDecodable ==
  ~NotCarried => \A i \in DOMAIN flv.out :
    LET t == flv.out[i]
    IN  t.kind = "video" /\ ~t.seq /\ t.data[1][2] = "idr" =>
          LET headers == {h \in 1..(i - 1) : flv.out[h].kind = "video" /\ flv.out[h].seq}
              header == flv.out[CHOOSE h \in headers : \A g \in headers : g <= h]
          IN  /\ headers # {}
              /\ <<"len", "sps", LastBefore("sps", UnitId(t))>> \in ToSet(header.data)
              /\ <<"len", "pps", LastBefore("pps", UnitId(t))>> \in ToSet(header.data)

(* Tags that the demuxer never takes out of its buffer: it repeats a       *)
(* sequence header for ever, and returns at an unknown audio codec.        *)
Blocking(t) == IsSeqHeader(t) \/ (t.kind = "audio" /\ t.codec = "speex")

(* Both tools come to their end unless the file has a blocking tag.        *)
ToolsEnd == <>(Done \/ \E i \in DOMAIN tags : Blocking(tags[i]))

(* The second FLV file is the first one: the transport stream carries      *)
(* every PES packet, frames keep order and time, key frames find their     *)
(* parameter sets (but for NotCarried).                                    *)
Remuxed == RemuxTypeOK /\ StreamCarried /\ FramesInOrder /\ KeysDecodable
=============================================================================
