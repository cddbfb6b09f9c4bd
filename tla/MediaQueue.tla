----------------------------- MODULE MediaQueue -----------------------------
(***************************************************************************)
(* The hand-over of media packets from the thread that calls SourceData to *)
(* the libuv loop thread: a queue under a mutex and one uv_async_t, the    *)
(* same in Whip, MsPush (webrtc/whip.cpp, webrtc/ms_push.cpp) and          *)
(* RtmpPublish (rtmp/rtmp_publish.cpp).  uv_async_send may be called from  *)
(* any thread, and sends that come before the callback runs are merged     *)
(* into one.  RtmpPublish differs in one place: an FLV packet ends the     *)
(* loop of HandleMediaData.                                                *)
(***************************************************************************)
EXTENDS Naturals, Sequences

CONSTANTS
  Formats,   \* fmt_type_ of the packets: "raw", "flv" or another
  MaxQueue   \* bound: packets in packet_queue_

ASSUME QueueConstants == MaxQueue \in Nat

VARIABLES
  sink,           \* "rtc": Whip or MsPush; "rtmp": RtmpPublish
  packet_queue_,  \* the formats of the queued packets, oldest first
  mutex_,         \* "free", or "source" while SourceData holds it
  pending,        \* uv_async_send was called and the callback has not begun
  running,        \* the loop thread is inside HandleMediaData
  early           \* the last callback returned after an FLV packet

queueVars == <<sink, packet_queue_, mutex_, pending, running, early>>

QueueInit ==
  /\ sink \in {"rtc", "rtmp"}
  /\ packet_queue_ = <<>> /\ mutex_ = "free"
  /\ pending = FALSE /\ running = FALSE /\ early = FALSE

(* SourceData, first half: lock and push.                                  *)
SourcePush(fmt) ==
  /\ mutex_ = "free" /\ Len(packet_queue_) < MaxQueue
  /\ mutex_' = "source"
  /\ packet_queue_' = Append(packet_queue_, fmt)
  /\ UNCHANGED <<sink, pending, running, early>>

(* Mutant of SourceSend: uv_async_send is forgotten.                       *)
SourceSendSilent ==
  /\ mutex_ = "source" /\ mutex_' = "free"
  /\ UNCHANGED <<sink, packet_queue_, pending, running, early>>

(* SourceData, second half: uv_async_send, then unlock.                    *)
SourceSend ==
  /\ mutex_ = "source" /\ mutex_' = "free"
  /\ pending' = TRUE
  /\ UNCHANGED <<sink, packet_queue_, running, early>>

SourceData == SourceSend \/ \E fmt \in Formats : SourcePush(fmt)

(* libuv clears the pending flag, then calls the callback.                 *)
AsyncFires ==
  /\ pending /\ ~running
  /\ pending' = FALSE /\ running' = TRUE /\ early' = FALSE
  /\ UNCHANGED <<sink, packet_queue_, mutex_>>

(* Each round of the loop in HandleMediaData calls GetMediaPacket, under   *)
(* the mutex: an empty queue ends the loop.                                *)
LoopEnds ==
  /\ running /\ mutex_ = "free" /\ packet_queue_ = <<>>
  /\ running' = FALSE
  /\ UNCHANGED <<sink, packet_queue_, mutex_, pending, early>>

(* Mutant of TakePacket: one packet per callback.                          *)
TakePacketOnce ==
  /\ running /\ mutex_ = "free" /\ packet_queue_ # <<>>
  /\ packet_queue_' = Tail(packet_queue_)
  /\ running' = FALSE
  /\ UNCHANGED <<sink, mutex_, pending, early>>

(* A packet is taken and sent; RtmpPublish returns after an FLV packet.    *)
TakePacket ==
  /\ running /\ mutex_ = "free" /\ packet_queue_ # <<>>
  /\ packet_queue_' = Tail(packet_queue_)
  /\ early' = (sink = "rtmp" /\ Head(packet_queue_) = "flv")
  /\ running' = ~early'
  /\ UNCHANGED <<sink, mutex_, pending>>

HandleMediaData == LoopEnds \/ TakePacket

QueueNext == SourceData \/ AsyncFires \/ HandleMediaData

QueueSpec == QueueInit /\ [][QueueNext]_queueVars

-----------------------------------------------------------------------------
(* Type invariant.                                                         *)
QueueTypeOK ==
  /\ sink \in {"rtc", "rtmp"}
  /\ packet_queue_ \in Seq(Formats)
  /\ mutex_ \in {"free", "source"}
  /\ pending \in BOOLEAN /\ running \in BOOLEAN /\ early \in BOOLEAN

(* No wake-up is lost: whenever packets wait and SourceData is not just    *)
(* about to signal, the callback is running or due, except between an      *)
(* early return of RtmpPublish and the next callback.  Merged sends and a  *)
(* callback that starts between the push and the send are what could       *)
(* break it.                                                               *)
NoLostWakeup ==
  packet_queue_ # <<>> /\ mutex_ = "free" => pending \/ running \/ early

Taken == Len(packet_queue_') < Len(packet_queue_)

(* Packets are not left behind: while some wait the loop thread goes on    *)
(* taking them, also when no later packet is produced, unless the callback *)
(* returned early.                                                         *)
QueueServed ==
  <>[](packet_queue_ # <<>> /\ ~early) => []<><<Taken>>_queueVars
=============================================================================
