# A TLA+ verification of cpp_streamer

cpp_streamer is a set of media components (demuxers, muxers, RTMP and WebRTC
clients) that are chained into pipelines: each component takes `MEDIA_PACKET`s
through `SourceData` and hands them to the components added with `AddSinker`.
This directory models these components, checks the models with TLC and proves
the central properties with TLAPS.

Contents: [inventory](#inventory), [modules](#modules-and-how-they-follow-the-code),
[runs](#runs), [bounds](#bounds), [fairness](#fairness), [proofs](#proofs),
[observations](#observations), [what is left out](#what-is-not-modelled), [plan](#plan).

## Inventory

### How the parts interact

Everything network-facing runs on one libuv loop thread: TCP, UDP and timer
callbacks run there one after the other, each to completion. Media enters on
the thread of the producer (`SourceData` of `Whip`, `MsPush`, `RtmpPublish`),
is queued under a mutex and picked up by the loop thread through a `uv_async_t`.
So the only true data sharing is that queue; everywhere else the hard part is
the order of callbacks, and state that survives from one callback to the next.
Demuxers, muxers and `TimeSync` run synchronously on the thread that calls them.

    work thread of a tool --SourceData--> queue+mutex --uv_async--> loop thread
    loop thread, sending:   RtcSendStream -> RTP packets -> SRTP -> UDP
                            RtmpPublish -> RtmpClientSession -> chunk streams -> TCP
    loop thread, receiving: UDP -> SRTP -> RtcRecvStream (NackGenerator)
                            -> JitterBuffer -> PackHandleH264 -> key-frame gate -> sinks
                            TCP -> chunk streams -> RtmpPlay -> sinks
    feedback:               NackGenerator timer -> RTCP NACK -> peer's RtcSendStream ring
                            SR / RR / XR between the two PeerConnections
    files:                  FLV -> MPEG-TS -> FLV, MP4 -> FLV
    WebSocket:              TcpClient/SslClient <-> TcpSession/SslServer, frames, pings

### Components

| Component | State | Operations | What makes it correct |
|---|---|---|---|
| Jitter buffer (`net/webrtc/jitterbuffer.*`) | `init_flag_`, RFC 3550 counters, `rtp_packets_map_`, `output_seq_`, `report_lost_ts_` | `InputRtpPacket`, callbacks `RtpPacketOutput`, `RtpPacketReset` | in-order, gap-free hand-over; what is held waits behind a hole |
| H.264 depacketiser and key-frame gate (`pack_handle_h264.*`, `peerconnection.cpp`) | fragment queue, `start_flag_`, `last_extend_seq_`, `find_keyframe_` | `InputRtpPacket`, `OnTimer`, `PackHandleReset` | only whole, unmixed units come out; nothing depends on a lost one |
| H.264 packetiser, audio packets (`rtp_h264_pack.*`, `rtc_send_stream.*`, `pack_handle_audio.*`) | saved SPS/PPS | single NAL, STAP-A, FU-A | splits are reversible |
| Send stream (`rtc_send_stream.*`) | `seq_`, ring `send_buffer_`, RTT, report timer | send, NACK, RR, DLRR, timer | a request is answered by the right packet; the round trip is right |
| Receive stream (`rtc_recv_stream.*`) | RFC 3550 numbers, counts, LSR | RTP, SR, RR, RRT, DLRR | no loss hidden; numbers right across the wrap |
| NACK generator and message (`nack_generator.*`, `rtcpfb_nack.hpp`) | `nack_map_`, `last_seq_`; blocks | `UpdateNackList`, `OnTimer`, `InsertSeqList` | lists exactly the holes; gives up after a bound |
| PeerConnection, DTLS, SRTP, STUN | `pc_state_`, DTLS state, SRTP sessions, streams | SDP answer, STUN, DTLS, RTP/RTCP, timer | media only after SDP, STUN and DTLS; no step repeats |
| WHIP/WHEP, mediasoup push/pull | HTTP client, PeerConnection, queue | `StartNetwork`, HTTP answers, `OnState`, `SourceData` | requests in order; hand-over loses nothing |
| SDP and RTP parameters (`format/sdp`, `peerconnection.cpp`) | offer, answer, streams | create, parse, make streams | the streams made are those agreed on |
| RTMP client session, control handler | `client_phase_`, `recv_buffer_`, chunk sizes, `ready_` | TCP callbacks, message handlers | the dialogue stays in step however TCP cuts it |
| RTMP chunk streams | header state and partial message per csid | read, write | messages survive chunking, interleaving and cuts |
| RTMP handshake, publish and play of media, AMF | digest and key offsets; key-frame state | C0C1 .. C2; `HandleVideoData`, `OnMessage`; encode, decode | the other end reads what was written |
| TCP, TLS, HTTP client, WebSocket | partial header or frame, ping and pong times | reads, writes, timers, close | frames survive segmentation; ends are noticed once |
| FLV, MPEG-TS mux and demux | parser position, PES per pid, wait queue | `SourceData`, `InputTsData`, `InputPacket` | the stream is carried unchanged; parsers end |
| MP4 demux | box stack, tracks, sample table | `SourceData`, `OnRead`, `makeMovItems` | the walk stays in step; samples and times are right |
| Opus and AAC headers, time synchroniser, URLs, byte buffer | little | pure, or sequences of calls | round trips; pace; nothing written outside the allocation |
| Tools and benches (`tools/`) | work thread, timer, counters | start, read, feed, stop | started before fed, deleted when unused, they end |

### What is hard here

*Ordering and loss*: RTP is reordered, repeated and lost; three components keep
their own idea of "the last sequence number" (`output_seq_`,
`last_extend_seq_`, `last_seq_`) and each is re-based on its own conditions.
*Wrap-around*: 16-bit sequence numbers are extended in one place and compared
raw in others; the compact NTP time, the RTP timestamp and the 13-bit ADTS
length wrap too. *Time*: timeouts release packets beyond a hole while earlier
ones are still held; loss reports are throttled; pings race answers.
*Segmentation*: TCP cuts messages anywhere while clients move through phases;
TLS records arrive together; files are read in blocks. *Threads*: one mutex, one
merged wake-up, a work thread that deletes. `PROJECT.json` lists each of these
at its line under `hazards`, with the properties that cover it; the
[observations](#observations) name smaller ones too.

## Modules and how they follow the code

State variables and operators keep the names of the source; a trailing
underscore is the source's member-variable suffix. Each action is one handler
or one path through a handler, with every call it makes. `emitted`, `delivered`,
`out`, `requested`, `reported`, `pli` record the callbacks or packets of one
step; variables marked *history* exist for the properties only.

| Module | Models |
|---|---|
| `JitterBuffer` | `jitterbuffer.cpp` in an open environment; one action per path of `InputRtpPacket`, and `Tick` |
| `H264Rtp` | `rtp_h264_pack.cpp` (NAL unit to packets), `pack_handle_h264.cpp` and the gate in `peerconnection.cpp`; one action per packet kind and error path, the 100 ms timer |
| `VideoReceive` | packetiser, network, jitter buffer, depacketiser and gate composed: `SendUnit`, `Restart`, `Receive`, `Depacketise` (of a packet as sent or damaged), timers |
| `RtcSendStream`, `RtcRecvStream` | the two ends of a stream: numbering, ring, NACK answers, RTCP |
| `RtcReport` | both ends and their timers composed, over a network that loses, delays and reorders: SR, RR, RRT, DLRR, key frame requests, a restart of the sender |
| `Nack` | `nack_generator.cpp`, the list of missing numbers, and `rtcpfb_nack.hpp`, the message over sets of numbers |
| `NackLoop` | ring, network, list and message composed: `Send`, `Lose`, `Arrive`, `NackTimer`, `LoseNack`, `ArriveNack`, `Tick` |
| `PeerConnection` | life cycle of `peerconnection.cpp` with `RtcDtls`: SDP answer, STUN timer, handshake, SRTP keys, streams |
| `RtcSession` | a `PeerConnection` with its owner (`whip.cpp`, `whep.cpp`, `ms_push.cpp` or `ms_pull.cpp`), `http_client.cpp`, the HTTP server, UDP and the peer |
| `Negotiation` | the session description and its parser; from offer and answer, or from mediasoup's RTP parameters, to the streams made |
| `MessageChannel` | abstract: messages on several streams, each delivered whole, once, in order |
| `RtmpChunk` | `chunk_stream.cpp`, `rtmp_session_base.cpp` over TCP; **implements `MessageChannel`** (`ChannelSpec`) |
| `RtmpClient` | `rtmp_client_session.cpp` and both halves of `rtmp_control_handler.cpp`, opened by `RtmpPublish` or `RtmpPlay`; assumes the whole messages that `RtmpChunk` provides |
| `RtmpHandshake`, `Amf0`, `RtmpMedia` | C0C1 to C2 with both schemas; AMF0 items; publishing and playing of frames as FLV tags |
| `MediaQueue` | `SourceData` and `HandleMediaData` of `Whip`, `MsPush`, `RtmpPublish` |
| `PublishTool` | the publishing demos, benches and pull benches around `MediaQueue`: timer, work thread, reports, clean-up |
| `Stun`, `RtpPacket` (with audio over RTP), `AudioHeader` (Opus and AAC), `TimeSync`, `Url`, `DataBuffer` | the codecs and helpers of these names, as operators on a state or an input |
| `Formats` | one subject per behaviour: the two ends of each of the codecs above, with `Negotiation`, `RtmpHandshake`, `Amf0`, `RtmpMedia` |
| `MediaPacket`, `Flv`, `MpegTs` | a packet's codec data; the demuxer and muxer of FLV and of MPEG-TS |
| `Remux` | `flv2mpegts_streamer` and `mpegts2flv_streamer` one after the other, over reads of any size |
| `Mp4Demux` | the layout each class of `mp4_box.hpp` assumes; the walk, the sample table, the packets, driven by `mp4dump`, `mp4toflv_streamer` or fed |
| `WebSocket` | frames; client and server from TCP to the end of the connection, with and without TLS, either end possibly another implementation |
| `VideoReceiveProofs` (with those of `JitterBuffer`), `RtcSendStreamProofs`, `RtcReportProofs`, `NackLoopProofs`, `RtcSessionProofs`, `RtmpChunkProofs`, `RtmpClientProofs`, `PublishToolProofs` | theorems |
| `MC*` | instances for TLC where a `.cfg` alone cannot give the constants |

Choices worth knowing:

- **Time** is kept as ages that saturate one tick beyond the threshold they are
  compared with, so no unbounded clock is needed and every order of "expired
  first / arrived first" is explored. `RtcReport` is about the values of times
  and keeps a clock with a horizon.
- **The jitter buffer's walks** over its ordered map: `CheckTimeout` is the loop of
  the code, key by key upwards; the drain behind a packet in sequence is a closed
  form (`EndsRun`): the longest run of keys from there on.
- **The jitter buffer's timer** is no action: nothing calls `StartTimer` on it,
  so `CheckTimeout` is reached from the insertion path only.
- **One call, several steps**: where a call hands packets to callbacks
  (`VideoReceive`, `Mp4Demux`), the packets wait in a variable and nothing else
  happens until they are consumed, the lowest number first.
- **A byte stream is a sequence of parts** that the reader asks for as a whole:
  parts of a chunk in `RtmpChunk`, units of data in `Flv` and `MpegTs`,
  handshake flights and frames in `WebSocket`. A reader that meets another part
  than the one it asks for has lost its place and is not followed further.
- **A TCP read** of `RtmpClient` brings any number of whole messages and perhaps
  a part of the next; `half` says that `recv_buffer_` keeps such a part. Once the
  code throws such a part away, `framing` is false and whatever arrives may be read
  as any message, or end the session (`Garbage`). All that follows from it, the
  phases, `ready_`, the requests and the writes of the owner, goes on as the code
  has it. The server answers what reaches it: publish moves it to `media_handle`,
  play leaves it in the phase of `createStream`.
- **Undefined behaviour** is a choice: the negative shift in `InsertBlock` sets
  any single bit or none (`Strays`), a NACK message with more blocks than its 1500
  bytes hold asks for anything (`Feedback`), a `memcpy` over its own source leaves the
  data or repeats a part of it (`Moves`); an uninitialised `is_rtx`, a key flag read
  from the wrong byte and an uninitialised app name take any value.
- **The age of a fragment** counts from the time stamped on its entry to the jitter
  buffer, so one that was held there may be overdue when it is pushed
  (`CheckFuaTimeout`).
- **Writes of a WebSocket server**: header, masking key and payload go out in three
  writes of their own, the client's frames in one.
- **An HTTP answer** is a number of reads still to come, a status and whether it
  announces its length. `HttpClient::OnRead` calls its owner once for a counted
  body and after every read for another; `cut` remembers that the latter
  happened, and is the stated exception of the properties that then fail.
- **A datagram** of `RtcSession` stays in `up` or `down` until it is lost and can
  be read any number of times, so repetition and reordering need no action.
- **The RTMP server** is the server half of the same handler; it may or may not
  send `onBWDone` and may or may not answer a chunk size with a chunk size.
- **Stated exceptions**: a property that fails in a known case names that case
  (a history variable or a predicate such as `NotCarried`, `Blocking`,
  `Readable`, `odd`), so everything outside it is still checked.

## Runs

A run checks few properties, most of them conjunctions of named parts; the
parts are stated and commented one by one in the module.

| Run (module) | Property | Parts and what they show |
|---|---|---|
| `jitter_buffer` (`JitterBuffer`) | `HeldBehindHole`, `Gapless` | under every sequence of wire numbers, until the first timeout or resync the buffer is an exact reorderer |
| | `PromptDelivery` | afterwards a deliverable packet is held back only behind a stale key or right after a re-base |
| | `BackwardsOnlyFromMap` | the output moves backwards only by releasing an overtaken held packet |
| | `TypeOK` | ranges |
| `video_receive` (`MCVideoReceive`) | `PathIntact` | over loss, repetition, reordering, damaged aggregates, the wrap and a restart: only whole, unmixed units arrive (`ReceivedIntact`), because waiting fragments are contiguous (`QueueContiguous`); an extended number is right or one cycle high (`AtMostOneCycleHigh`); both components agree on the next packet (`VideoTypeOK`). Exceptions: what a restart joins, and units touched by a `Stray`, a packet from before a restart or one that came late over the wrap, was counted a cycle too high and takes the place of a packet a cycle later (the run reaches both) |
| | `GateHolds` | nothing passes the gate after a reported loss until a key frame; a loss inside the 500 ms throttle is the exception |
| `nack_loop` (`NackLoop`) | `ListExact` | the list names only what was sent and is missing (`ListedIsMissing`); every hole is listed, recovered or given up, except across the wrap (`HolesAreListed`) |
| | `FeedbackProgress`, `ListDrains` | each message whose blocks fit (`Fits`) makes progress in spite of the bitmap's encoding; the list drains whatever the network does |
| `rtc_report` (`MCRtcReport`) | `ReportsExact` | round trips exact to the rounding or not taken, across the wrap of the compact time (`RttExactOrZero`, `XrRttExact`); the highest number (`HighestRight`); the ring keeps the last packets where their numbers look for them and a resend is of the newest generation (`WindowRecoverable`, `OutIsCurrent`) |
| | `NoLossHidden`, `KeyFrameSoon` | no loss is hidden outside the interval of the first wrap; a key frame is asked for at least every 5 s |
| `rtc_session` (`RtcSession`) | `AnswersInOrder` | an HTTP answer meets the handler of its own request although the handler is chosen by `state_` alone |
| | `SrtpOnce`, `StateForward` | keys are made once; no answer or datagram takes the session back |
| | `StreamsInPlace` | the process ends only after a bad or cut answer (`CrashNeedsBadAnswer`); streams are made once (`StreamsMadeOnce`); a publisher that reports ready can send (`ReadyMeansSent`); the peer's RTP finds its stream (`RtpFindsStream`) |
| | `ComesUp` | the handshake completes whatever is lost (`Connects`), and with it the streams (`StreamsComeUp`) |
| `rtmp_chunk` (`RtmpChunk`) | `ChannelSpec` | chunks over TCP implement `MessageChannel`: messages interleaved on two chunk streams and cut anywhere come out whole, once, in order, with their timestamps |
| | `ReaderInStep`, `MessagesArrive` | the reader keeps its place (`InStep`), a partial message is the beginning of the next one due (`PartialFits`), every message comes out. Exceptions: `odd` (chunk forms the reader takes wrongly), `torn` (a cut inside a two-byte basic header) |
| `rtmp_session` (`RtmpClient`) | `DialogueInStep` | wherever TCP cuts the stream, and although any control message moves the client on, the server meets every request in its phase (`ServerInStep`), no proper answer is rejected (`NoAnswerRejected`), the reports follow the dialogue (`ReportsTell`) |
| | `SessionSettles` | a session whose C0C1 went out reaches the media phase unless the connection ends or bytes were thrown away |
| `media_queue` (`PublishTool`) | `NoLostWakeup` | no wake-up is lost between push, `uv_async_send` and the end of the callback |
| | `FedWhileAlive` | the tools feed only started streamers, each started once (`StartedFirst`), and none after its deletion: the work thread, which feeds, no longer does (`FeederGone`). The benches delete from the loop, which is then in no callback of a streamer (`BenchLoopGone`); the demos delete from the work thread, and of their loop thread nothing is claimed |
| | `ToolProgress` | a non-empty queue keeps being served, the early return of `RtmpPublish` excepted (`QueueServed`); every tool ends or its work thread has given up (`ToolEnds`) |
| `remux` (`MCRemux`) | `Remuxed` | FLV to MPEG-TS to FLV over reads of any size: the transport stream carries each PES once, complete and in order (`StreamCarried`), units keep order and timestamps (`FramesInOrder`), each key frame is behind its own parameter sets (`KeysDecodable`). Exceptions: `NotCarried`, and sequence headers of 512 bytes or more (`LeftOut`) |
| | `ToolsEnd` | both tools end, unless the file has a `Blocking` tag |
| `mp4` (`MCMp4Demux`) | `WalkSound` | the walk over the boxes stays in step (`WalkInStep`); no readable file ends the program (`ReadableFilesRead`) |
| | `SamplesSent` | every item is a sample where the writer put it (`ItemsAreSamples`), sent the stated number of times (`CopiesSent`), behind its parameter sets (`HeadersFirst`), with the times of the tables in the stated cases (`TimesFromTables`, `OneKindShifted`) |
| | `ToolReturns` | the tool returns unless a box states the size 0 |
| `web_socket` (`WebSocket`) | `Delivered` | whatever TCP and TLS do to the bytes, the application gets the payloads in order, once, with length and type (`ReceivedAsSent`), and none is missing (`NothingMissing`) |
| | `EndsInOrder` | an end is told once (`ClosedOnce`); the server writes only where it may, but for the stated cases (`WritesWhereOpen`) |
| | `ConnectionProgress` | messages arrive (`MessagesArrive`); an attempt to connect, one that fails at once included, is answered with `OnConnection` or `OnClose`, except that with TLS a connection that could not be made is told to nobody (`AttemptEnds`, `Untold`); both sides notice a failed link (`DeadLinkNoticed`) |
| `formats` (`MCFormats`) | `NegotiatedAlike` | offers, answers and mediasoup parameters to streams (`OfferUnderstood`, `SendsAsTold`, `StreamsAsAnswered`, `StreamsAsConsumed`) |
| | `RtmpReadBack` | digests (`HandshakeVerifies`), commands (`CommandsReadBack`), media (`PlayedAsPublished`) |
| | `RtcReadBack` | STUN (`ChecksAccepted`), RTX (`RtxRestores`), audio (`AudioHeard`), the common time line (`MediaInStep`) |
| | `HeadersReadBack` | Opus and AAC (`OpusFramesFound`, `AdtsDescribes`), URLs (`UrlUnderstood`) |
| | `BufferHolds` | the byte buffer holds what was put in, inside its allocation. Exceptions: buffers asked for fewer bytes than the reserve (`burst`), and the bytes moved by an overlapping `memcpy` (`Unsure`) |

The type invariant of a module is a conjunct of its first property. Every
property has at least one mutant in `PROJECT.json`, most parts have their own: a
plausible bug in the modelled code (defined just above the definition it
replaces) that makes TLC find the property violated.

## Bounds

Number spaces are shrunk together with the windows that are compared with
them, so that every class of a number (in order, reordered, large jump) and a
wrap occur within a few packets.

| Run | Bounds | Why they are enough |
|---|---|---|
| `jitter_buffer` | 6 numbers, dropout 3, misorder 2, timeout 1 tick, ages up to 2, one wrap, 3 held | each class is non-empty and distinct; 3 held packets give every shape of hole, run and stale key that the walks tell apart; the theorems hold for all values |
| `video_receive` | 5 numbers from 0 or 3, at most 2 wraps, restarts by 2 or 3, 3 held, ages up to 2 (the fragment timeout), payload 2, five scripts of units | the wrap falls inside a fragmented unit; STAP-A, AUD, SEI, a four-fragment unit and one a byte too long occur; restarts that look in order and as a large jump occur; two key frames lie a cycle apart, so that a late fragment of one meets the other; the theorems hold for all values |
| `nack_loop` | 8 numbers from 6, 6 packets of which the newest 4 are in play, ring 2, mask of 1 bit, list of 1, 1 retry | the wrap falls among the packets; the window moves on, the ring is overwritten, the list trimmed, a number closes its block with an undefined shift. No list here needs more than one block; lists of several, and messages that have no room for them, are left to the theorems. The stream may be of any length: only what is in play at a time, that is under way, listed or the newest received, is kept to half the number space (`Send`, `LoopAssumption`), on which `SeqLowerThan` depends; a listed number lives for 0.4 s, in which no stream sends 32768 packets |
| `rtc_report` | 6 numbers, ring 3, up to 8 packets, compact time modulo 12 at 3 units a second, horizon 5, delay 2, 1 loss | number and time wrap within the horizon; four links each carry the reports that one question needs, so that the product stays small |
| `rtc_session` | all four owners, STUN gap 1, answers in at most 2 reads, at most one uncounted answer | a counted answer can be incomplete once, an uncounted one hand on a part and then the rest; after the first uncounted answer the request chain is already without guarantee |
| `rtmp_chunk` | two chunk streams, one with a two-byte header, chunk sizes 1 and 2, messages up to 2 bytes, extended timestamps from 2, 3 messages | every type of header follows every other, both streams are interleaved, the chunk size changes within a message |
| `rtmp_session` | 1 media message; one garbage message for each that arrives once the framing is lost | the dialogue itself is finite; the media message can be cut; the theorem holds for any number |
| `media_queue` | queue 4, 3 streamers started 2 at a time, 3 rounds of waiting, 3 reads | more than one packet per merged send; the last timer callback starts fewer than an interval; the file ends before and after the sessions fail |
| `remux` | 3 tags of 16 shapes, sequence headers dropped from 5 atoms on (`ExtraMax`, 512 bytes), TS payload 8, PCR 3, wait 2, table interval 2, times below 9, FLV times modulo 3 | a PES needs one, two or three packets and each kind of stuffing; waiting for the other medium, tables between frames and the FLV wrap occur |
| `mp4` | files that differ from the usual one in at most two respects; blocks of 700, feeds of 300 or 2000 bytes | every box class and each assumption on its layout is varied, alone and with another; several blocks and feeds per file |
| `web_socket` | ping gap 1, pong timeout 2, sweep 1 tick (2, 15, 5 s), reads of 2 units, two messages of 126 and 65536 bytes, backlog 1 | both extended lengths; a ping, its answer and a timeout race; frames are cut and joined |
| `formats` | digests of 2 and keys of 3 in blocks of 8, every offset; 4 video frames; all AudioSpecificConfigs of types 0..5, 29, 31; audio up to 320 bytes with a time wrap; 4 packets on the time line; buffers of 1, 3, 6, 8 bytes with a reserve of 2; about 290 URLs | the offsets, types and lengths at which the code branches are all present, with their neighbours |

In the code the ring size divides the number space (2048 and 65536); the
instances keep that divisibility. Deadlock is not checked where sessions, jobs or
processes really end (`formats`, `rtc_report`, `rtc_session`, `rtmp_chunk`,
`rtmp_session`, `web_socket`, `media_queue`). No symmetry is used.

## Fairness

- `NackLoop`: weak fairness of the NACK timer and of time. The timer is a
  repeating libuv timer on the loop thread. Nothing is assumed of the network.
- `RtmpClient`: weak fairness of `OnConnect`, `OnRead` and `ServerHandles`: TCP
  reports the outcome of a connect, delivers what was written, and both ends run
  their loops. Read and write errors are under no fairness.
- `RtmpChunk`: weak fairness of reads, of the loop of `ReceiveRespMessage`, and of
  the peer's finishing a message it has begun.
- `RtcSession`: weak fairness of the owner, the loop's timer and time, of HTTP
  reads and answers, and of the peer's retransmission of its current DTLS flight
  (RFC 6347). Strong fairness of the delivery of each kind of datagram: one that
  is sent again and again arrives at last; any single one may be lost.
  `HttpFail`, `LoseUp` and `LoseDown` are under no fairness.
- `PublishTool`: both threads run, the loop calls due timers and async callbacks,
  a `SourceData` that has pushed goes on to signal; strong fairness of the loop's
  rounds because the producer may take the mutex again and again (a mutex that
  starves nobody). A session need never become ready, a producer may stop.
- `Remux`, `Mp4Demux`: a sequential program goes on. The steps of the tools are
  weakly fair, with the states in which a step changes nothing named (`Stalled`,
  `RoundChanges`) in place of `ENABLED`.
- `WebSocket`: where the connection is open what was written is read in the end, an
  attempt to connect ends, due timers and callbacks run; written out as `[]<>`
  formulas. A link may fail or fall silent at any time.

## Proofs

`VideoReceiveProofs` proves of `JitterBuffer`, for every number space, window, timeout and bound
that satisfies `JitterConstants` (positive windows with `MaxDropout +
MaxMisorder <= RtpSeqMod`, which the source's 3000 + 100 <= 65536 meets):
`TypeCorrect`, `HoleBehindEveryHeld`, `PromptlyDelivered` (invariants), `GaplessDelivery` and `NoRewindFromNetwork` (action properties).

The inductive invariant is `IInv = TypeOK /\ CleanStart /\ HeldBehindHole /\
PromptDelivery`. `HeldBehindHole` alone is not inductive: a first packet
re-bases `output_seq_` without looking at the map, so one must know that an
undisturbed buffer still waiting for its first packet is empty (`CleanStart`).
There is one lemma per path of `InputRtpPacket`; each shows `IInv'` and the two
step formulas. The timeout walk is a recursive function over the keys, which says
little about the whole: `WalkIsClosedForm` shows, by induction on the key (whether a
key is taken depends on its age and on the last one taken below it, `TakesNext`), that
it takes the set `TimedOut` of every map of finitely many keys, and `TimedOutFacts` what
that set is: held, with every expired packet, and without leaving the successor of the
last one taken. `HoldClosed` carries both into the step that holds a packet.

Of `VideoReceive` it proves `PathStaysIntact` (`PathIntact`) and
`GateStaysClosed` (`GateHolds`) on top of it, for every number space, window,
payload size, script, fault and number of restarts. The inductive invariant
`VInv` has the jitter buffer's `IInv`; what the sender has sent
(`WholeUnits`: a packet that is no fragment holds whole units; `InRuns`: behind a
fragment that is not the last of its unit stands the next one); what waits
(`Known`: each waiting fragment is a packet of the stream at the place its number
and the `origin` of its era give, neighbours of one era have neighbouring
numbers, the i-th one behind a start is piece i, and the last one is the packet
before the next expected number); and `Aligned`, which relates the wire numbers
to places without a restart: the highest place delivered has the number
`cycles_ + max_seq_`, so the arithmetic of `UpdateSeq` (`NumberedRight`) puts a
packet of the window right or one cycle high. Neither `ReceivedIntact` nor
`QueueContiguous` is inductive without `Known` and `InRuns`: that a fragment may be
joined follows from the one before it being a piece of the same run of packets.
The packetiser's part is `Packetised`: `SplitNalu` and the three generators make
runs of this form for every unit and payload size.

`PublishToolProofs` proves `QueueNoLostWakeup` for every set of formats and any
queue length, and `ToolNoLostWakeup` and `ToolFeedsWhileAlive` for every number of
streamers, start interval, waiting limit and file. `QueueTypeOK /\ NoLostWakeup`
is inductive; the case that matters is the end of `HandleMediaData`, which has seen
an empty queue under the mutex that `SourceData` holds from the push to the send.
`FedWhileAlive` needs `Threads` (where the work thread is when it holds the mutex
and when the streamers are deleted) and `Started` (which of them have been).

`RtcSendStreamProofs` holds the arithmetic of numbers that wrap and `SendInv`, for
every ring and number space: slot i of the ring holds the newest packet with that
remainder (`Held`), none of the last `RingSize` packets is forgotten, and what is
sent again is of the newest generation. The next two modules build on it.

`RtcReportProofs` proves `ReportReportsExact`, `ReportKeyFrameSoon` and
`ReportNoLossHidden` for every number space, ring, clock rate, delay and set of
links. `ReportInv` adds to `SendInv` what each report under way says of the time it
was sent and how long its predecessor was under way and waited (`MessageInv`,
`TimeInv`), from which the round trip follows by rounding (`UnitsFloor`); the
extended number as a function of the newest place (`SeqInv`); a balance of holes,
repetitions and count, which with the marks of the last report (`LossInv`) bounds
the hidden loss; and the time of the last key frame request (`KeyInv`).

`NackLoopProofs` proves `LoopListExact` (`ListExact`) and `LoopFeedbackProgress`
(`FeedbackProgress`). In `LoopInv`, a number on the list stands for exactly one
packet, sent, not arrived and behind the newest (`ListedBehind`): so a late packet
removes its own entry and no other. This is where less than half a cycle must be in
play. The stream itself may be of any length and wrap any number of times; the
invariant speaks of the newest `Window` packets (`Recent`), which `Send` moves on once
nothing behind it is in play. For the feedback, whatever the undefined shifts of `InsertBlock` set in the
bitmap, the closed set of block starts contains the lowest number that is due, if the message
has room for them (`Fits`).

`RtmpChunkProofs` proves `ChunksAreChannel` (`ChannelSpec`: `RtmpChunk` implements
`MessageChannel`), `ReaderKeepsItsPlace` (`ReaderInStep`) and the invariant both rest
on, `ChunkInvariant`, for every set of chunk streams, both chunk sizes, every limit of
the 24-bit timestamp, any message lengths and every cut that TCP makes. `ReaderInStep`
says nothing of what is still in the receive buffer and in TCP, so it is not
inductive. `ChunkInv` has the types and, until the sender uses a form that the reader
mishandles (`odd`) or a read tears a basic header (`torn`), a *dialogue*:

- the unread parts are a run of whole chunks, of which the reader may have taken the
  beginning of the first (`Run`, `Holds`);
- each chunk leads from one state of the dialogue to the next (`Leads`): what both ends
  have to remember of each chunk stream, that is the last type and timestamp, the
  delta, the length, whether an extended timestamp was used, the bytes still to come,
  and how many of the pending messages have gone by;
- the first state is the reader's (`At`: before the chunk, behind its basic header, or
  behind its message header), the last one the sender's (`Ends`).

A sender adds a chunk at the end (`RunExtended`), TCP moves the border between wire and
buffer (`AtMoved`), a reader takes from the front (`RunDropped`, `RunRest`), and a
message handed over is the first pending one of its chunk stream (`MessageTaken`). A
message of `WriteDataByChunkStream` is added chunk by chunk (`UnderStep`). The invariant
quantifies over runs of any length, which TLC cannot enumerate: TLC checks what follows
from it. Looking for this invariant showed that an earlier version of `Mishandled` left
out a message that begins with type 3 after the chunk size went down (see the
observations).

`RtmpClientProofs` proves `RtmpDialogueInStep` (`DialogueInStep`) for every number
of media messages and every cut of the stream. What the client has sent and the
server has handled are ranks of their phases; the requests between the two ranks
are under way, in order (`UnderWay`), and the answers under way are those to handled
requests, that to `connect` first (`Answered`), while the framing lasts. The reports
are a function of the phase (`Reports`). Where bytes were thrown away the client may
read anything: `GarbageHandled` shows that even then it sends no request out of turn,
because bytes are thrown away only behind `createStream` (`LostBehind`), and
`ServerReady` keeps the server's readiness a function of its phase.

`RtcSessionProofs` proves, for every STUN gap and number of reads,
`OneSrtpPair` (`SrtpOnce`), `AnswerMeetsItsHandler` (`AnswersInOrder`),
`NeverBack` (`StateForward`) and `StreamsReady` (`StreamsInPlace`). `AnswersInOrder` is
not inductive: the video request is sent from the DTLS report, which comes from UDP and not from HTTP, and could
overtake the answer to connect. It cannot, because DTLS needs a STUN answer, that
a STUN request, that the timer, and the timer starts with that answer. `Chain`
carries this argument through the datagrams under way, `Phase` ties `pc_state_`
to `state_` for the mediasoup clients; `IInv` is their conjunction with
`SrtpOnce`, `AnswersInOrder` and the type facts used. There is one lemma per
action and one per handler of `OnHttpRead`. `StreamInv` builds the streams on it:
each kind is made by the handler of the last answer or by the end of DTLS, both of
which come once (`NotYetMade`, `Made`), with the SSRC of the answer (`SsrcsKnown`).

What the theorems assume of the constants, beyond their types: `SendConstants`,
`RecvConstants` (positive sizes, a ring that divides the number space, a burst no
longer than the space), `LoopAssumption` (a window of at most half a cycle
plus one packet for what is in play), `ReportAssumption` (the extended number stays in its 32 bits; a round trip is
shorter than the 18 h after which the compact NTP time repeats),
`StreamAssumption`, `PackConstants`, `PayloadAssumption`, `ChunkConstants` (types and
positive sizes) and `ToolConstants`. The values of the source meet them, and TLC evaluates them in
every run.

Two kinds of induction are used inside these proofs without an induction theorem:
a set of naturals that is not empty has a least element (`Least`, from
`NatLessThanWellFounded`), hence a set that holds 0 and with i also i + 1 holds all of
0 .. n (`UpTo`, `UpToEnd`); with it a recursive function is shown to satisfy its equation
(`Concatenations`, `WalksOn`).

Only model-checked, and why:

- liveness (`ListDrains`, `ComesUp`, `SessionSettles`, `MessagesArrive`, `ToolProgress`,
  `ToolsEnd`, `ToolReturns`, `ConnectionProgress`): fairness is beyond the prover;
- `Delivered` and `EndsInOrder` of `WebSocket`, `Remuxed`, `WalkSound`, `SamplesSent`: what
  is unread is bytes or boxes that are folded and walked, some by recursive operators.
  The argument of `RtmpChunk` would have to be made for each of these formats;
- `Formats`: codecs over bounded inputs, some of them recursive operators.

## Observations

What the models show of the code that a reader of it would not expect. Where a
property states an exception, this is why.

### WebRTC

- `jitterbuffer.cpp`: a packet reordered across the wrap gets the cycle count of
  after the wrap; when a timeout releases it, `output_seq_` is one cycle too high
  and newer packets are discarded as "old", or, held until the next cycle, it
  takes the place of the fragment with its number there. `:114`: `OnTimer` exists but the timer
  is never started; the last packets before a pause stay held. `:67`: a comment
  says a reset asks for a key frame; `RtpPacketReset` only writes a log line.
- `pack_handle_h264.cpp`: `DemuxFua` compares no timestamps, so fragments from before
  and after a sender restart can be joined; a late single-unit packet from before
  it can take a lost fragment's place. `rtp_h264_pack.cpp:57`: a unit one byte
  above the payload limit becomes one FU-A fragment with both start and end bit,
  which the receiver drops.
- NACK: `InsertBlock` sets bit `16 - delta`, `GetLostSeqs` reads bit `delta - 1`, and
  the number that closes a block is shifted by a negative count. The loop "add
  seqs in nack list" does not run when the number wraps between two packets, so
  those holes are never requested. `InsertBlock` does not check that the block fits
  `data[1500]` (`rtcpfb_nack.hpp:192`).
- Reports: `GetExpectedPackets` uses `bad_seq_` in unsigned arithmetic: the interval
  of the first wrap is left out, and a stray jump makes the reported loss leap. A
  negative loss is written as an unsigned 24-bit number; only the first DLRR
  sub-block is handled; RTCP behind SDES, BYE or APP in a compound is dropped; an SR
  with report blocks is refused; PLI is ignored by the sender.
- `rtc_send_stream.cpp:114`: the audio length is kept in a `uint8_t`: frames of 256
  bytes or more are cut, a multiple of 256 ends the process. RTP timestamps are
  not extended (audio time restarts after 24.8 hours, video after 13.3).
- `sdp.cpp:338`, `:378`: `is_rtx` is uninitialised for an SSRC without a FID group
  behind its lines, so a WHEP answer without RTX gets its video stream by luck.
  "nack pli" alone enables NACK; the last rtpmap sets the clock rate.
- `whip.cpp:202`, `whep.cpp:174`: the body of an error answer is handled as SDP.
  `http_client.cpp:172`: an answer without "Content-Length" (compared
  case-sensitively) is handed on after every read. `ms_push.cpp:408`: the body is
  parsed as JSON before the status is looked at; nothing catches the exception.
  `ms_pull.cpp`: RTP that arrives before the answer to the consume request is
  dropped. `peerconnection.cpp:136`: `SendStun` asserts that the first candidate
  is UDP.
- STUN: any STUN packet counts as a success; a zero-length last attribute is
  refused.
- URLs: the default port is 443 for http too; the mediasoup clients go on with a
  URL they refused; `rtmp://host/stream` leaves the app uninitialised.
- `timesync.cpp`: the step-back test compares an input time with an output time; a
  base of 0 or less is taken for no base; after a timestamp wrap a lone medium
  falls back to 0.

### RTMP

- `rtmp_client_session.cpp:196`: any control message with an empty buffer behind it
  counts as the awaited answer, so `createStream` may precede the answer to
  `connect`; `:220` resets `recv_buffer_` and with it a partial message. `:126`: the
  result of `MakeC0C1`, which fails for one digest offset
  (`rtmp_handshake.cpp:121`), is ignored, and the session then waits for ever.
  `:89`: C2 is reported as "RecvS0S1S2" once more; a failed connect or write is not
  reported at all.
- `ready_` is set only by a final "_result", which a publish answered with
  "onStatus" never gives unless the phases have shifted.
- `rtmp_control_handler.cpp:693`: with the commented-out `if (is_server)` two ends of
  this code echo chunk sizes for ever.
- `chunk_stream.cpp:253`: `ext_ts_flag_` is set by types 0 to 2 and never cleared. A
  message that begins with type 3 is read rightly only behind types 1 or 2 with the
  same use of an extended timestamp; a further chunk takes the extended field only if
  it equals the message's timestamp, so an extended *delta* that is repeated there (of
  types 1 to 3; with type 3 when the chunk size went down meanwhile) becomes payload.
- `rtmp_session_base.cpp:45`: the first byte of a longer basic header is consumed
  before the rest has arrived.
- `rtmp_publish.cpp`: a key flag is read from the wrong byte (the player does not
  depend on it); `HandleMediaData` takes one FLV packet per callback while libuv
  merges sends. `rtmp_play.cpp:130`: only the first unit of a frame is handed on.
- AMF: the end marker of an object is left for the next `Decode`; nested objects lose
  the place; a type byte above 0x0d loops for ever.

### Files, codecs and buffers

- FLV: some tags are never taken out of the buffer, so `InputPacket` loops
  (`Blocking`). `flv_demux.cpp:234`: an H.264 sequence header of 512 bytes or more is
  dropped without a word: it is parsed as a frame whose first unit is too long. MP4: a box of size 0 is never passed; `mp4toflv_streamer` sends
  many copies of each sample (`CopiesSent`); `co64` is not used; composition offsets
  apply to the last sample of an entry only. `Readable` lists what else the walk
  assumes.
- Opus: frames behind the first begin with the previous frame's last byte;
  variable-size packings lose the last frame. AAC: frames are always labelled LC;
  configs with other rates or no channels are dropped; a frame of 8185 bytes or
  more wraps the 13-bit length.
- `DataBuffer`: `buffer_size_ - PRE_RESERVE_HEADER_SIZE` wraps for a buffer asked for
  fewer bytes than the reserve, so `AppendData` never grows it. `:92`: data that begins far behind the front and is
  shorter than its offset is moved by one `memcpy`, which is undefined when the two
  places overlap.

### WebSocket, TCP, TLS, tools

- The server pings from its first timer, before the request, and after a close frame
  has closed the handle; `SslServer` makes one `SSL_read` per TCP read; the client
  drops bytes that arrive behind the 101 answer; fragments are delivered as messages
  of their own and lost when a control frame comes between; a refused upgrade is
  told repeatedly; there is no connect timeout, and with TLS a connect that fails is
  not noticed (`tcp_client.hpp:197` ignores the status on that path): neither
  `OnConnection` nor `OnClose` is called.
- The publishing demos delete their streamers from the work thread while the loop may
  be inside one, and run on for ever when a session does not become ready;
  `flv2rtmppublish_streamer.cpp:77` waits for a report type that is never made.

## What is not modelled

`PROJECT.json` lists every component with its status.

- `utils/json.hpp` is nlohmann's library, vendored: 22,875 of the 60,511 lines counted
  as implementation. JSON answers appear as what the clients take from them.
- Cryptography (OpenSSL certificates, libsrtp, SHA-1) is external: a key, a digest or
  a record is a model value that agrees or does not.
- `http_session.cpp` is in no build target. The streamer factory is `dlopen`.
- Statistics: interarrival jitter, loss fraction, bit rates, averages and `OnStatics`,
  which nothing acts on. Logging.
- The H.265 configuration record and the boxes whose results nothing reads; RTP header
  extensions' contents, which nothing reads; CRCs and continuity counters of TS.
- The play demos and dumps, which only wire components together or print.
- The jitter buffer's pool `pkt_buffers_` (`jitterbuffer.cpp:40`): a slot is used again
  after 1500 further packets, so the bytes of one held that long may be overwritten.
- The copy constructor and the assignment of `DataBuffer` (`data_buffer.hpp:29-57`),
  which copy from the front of the allocation and not from `start_`: nothing copies one.
- FLV tags with a unit of no bytes: its type is read from behind it
  (`flv_demux.cpp:318`, `mpegts_mux.cpp:340`), from memory nobody wrote. The transport
  stream demuxer's skip of such units is modelled (`IsEmpty`).
- A second `StartNetwork` on the same object, and object lifetimes outside the tools.

## Plan

Modelled and checked: all of the above. Left, in this order:

1. Proofs: `Delivered` and `EndsInOrder` of `WebSocket` with the argument of
   `RtmpChunk` (runs of whole frames), then the walk of `Mp4Demux`.
2. A second `StartNetwork` on the same object, for each owner of `RtcSession`.
3. Statistics, if something comes to depend on them.

A run is kept only while it asks something no other run asks.
