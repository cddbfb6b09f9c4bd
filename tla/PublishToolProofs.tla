------------------------- MODULE PublishToolProofs --------------------------
(***************************************************************************)
(* No wake-up is lost between SourceData and the loop thread, for every    *)
(* set of formats and every length of the queue, and the tools feed their  *)
(* streamers only between StartNetwork and the deletion, for every number  *)
(* of streamers, start interval, waiting limit and file.                   *)
(*                                                                         *)
(* NoLostWakeup is inductive together with the types; the case that        *)
(* matters is the end of HandleMediaData, which must have seen an empty    *)
(* queue under the mutex.  FedWhileAlive needs to know where the work      *)
(* thread is when it holds the mutex, when the streamers are deleted and   *)
(* when it may feed them: Threads and Started.                             *)
(***************************************************************************)
EXTENDS PublishTool, TLAPS, SequenceTheorems

QueueInv == QueueTypeOK /\ NoLostWakeup

(* The constructors leave an empty queue.                                  *)
LEMMA QueueStart ==
  QueueInit => QueueInv
<1>1. <<>> \in Seq(Formats)
  BY EmptySeq
<1> QED
  BY <1>1, Zenon DEF QueueInit, QueueInv, QueueTypeOK, NoLostWakeup

(* The producer and libuv keep the invariant: a push leaves the mutex      *)
(* taken until the send, and the callback runs once pending is gone.       *)
LEMMA ProducerSteps ==
  ASSUME QueueInv, SourceData \/ AsyncFires
  PROVE  QueueInv'
<1>1. CASE SourceSend
  BY <1>1 DEF QueueInv, QueueTypeOK, NoLostWakeup, SourceSend
<1>2. ASSUME NEW fmt \in Formats, SourcePush(fmt)
      PROVE  QueueInv'
  BY <1>2 DEF QueueInv, QueueTypeOK, NoLostWakeup, SourcePush
<1>3. CASE AsyncFires
  BY <1>3 DEF QueueInv, QueueTypeOK, NoLostWakeup, AsyncFires
<1> QED
  BY <1>1, <1>2, <1>3 DEF SourceData

(* So does each round of the loop thread.                                  *)
LEMMA LoopSteps ==
  ASSUME QueueInv, HandleMediaData
  PROVE  QueueInv'
<1>1. CASE LoopEnds
  BY <1>1 DEF QueueInv, QueueTypeOK, NoLostWakeup, LoopEnds
<1>2. CASE TakePacket
  <2>1. Tail(packet_queue_) \in Seq(Formats)
    BY <1>2 DEF QueueInv, QueueTypeOK, TakePacket
  <2>2. early' \in BOOLEAN /\ running' \in BOOLEAN /\ (running' \/ early')
    BY <1>2, Zenon DEF TakePacket
  <2> QED
    BY <1>2, <2>1, <2>2 DEF QueueInv, QueueTypeOK, NoLostWakeup, TakePacket
<1> QED
  BY <1>1, <1>2 DEF HandleMediaData

LEMMA QueueIdle ==
  ASSUME QueueInv, UNCHANGED queueVars
  PROVE  QueueInv'
  BY DEF QueueInv, QueueTypeOK, NoLostWakeup, queueVars

(* Whenever packets wait, the callback of Whip, MsPush or RtmpPublish is   *)
(* running or due, or has just returned early after an FLV packet.         *)
THEOREM QueueNoLostWakeup == QueueSpec => []NoLostWakeup
<1>1. QueueInit => QueueInv
  BY QueueStart
<1>2. QueueInv /\ [QueueNext]_queueVars => QueueInv'
  BY ProducerSteps, LoopSteps, QueueIdle DEF QueueNext
<1>3. QueueInv => NoLostWakeup
  BY DEF QueueInv
<1> QED
  BY <1>1, <1>2, <1>3, PTL DEF QueueSpec

-----------------------------------------------------------------------------
(* The same queue between the threads of a tool.                           *)

(* How far the tools have come with StartNetwork: StartWhips starts the    *)
(* streamers in order, and the work thread goes on, or packets are queued, *)
(* only behind the last of them.                                           *)
Started ==
  /\ tool \in {"any", "demo", "bench", "flv", "pull"}
  /\ tool \notin Benches => whip_index_ = 1
  /\ starts = [i \in 1..Streamers |-> IF i <= whip_index_ THEN 1 ELSE 0]
  /\ work \in {"opening", "reading", "checking", "finishing", "deleting"} => post_done_
  /\ packet_queue_ # <<>> \/ mutex_ = "source" \/ pending => post_done_

(* Where the threads are: SourceData runs inside a round of the work       *)
(* thread's loop, and the streamers are deleted behind it.                 *)
Threads ==
  /\ work = "waiting" => waits <= WaitLimit
  /\ tool = "any" => work = "left"
  /\ mutex_ = "source" => tool = "any" \/ work = "checking"
  /\ closing => tool = "bench" /\ work = "left"
  /\ deleted => \/ tool = "demo" /\ work = "deleting"
                \/ closing /\ ~running
  /\ exited => deleted

(* The parts of ToolTypeOK that are not about the queue.                   *)
ToolTypes ==
  /\ whip_index_ \in 0..Streamers /\ whip_ready_count_ \in 0..whip_index_
  /\ work \in {"waiting", "opening", "reading", "checking", "finishing", "deleting", "left"}
  /\ waits \in 0..WaitLimit + 1 /\ reads \in 0..MaxReads
  /\ closing \in BOOLEAN /\ deleted \in BOOLEAN /\ exited \in BOOLEAN

ToolInv == QueueInv /\ ToolTypes /\ Started /\ Threads

LEMMA StreamersNat == Streamers \in Nat \ {0}
  BY ToolConstants DEF Streamers

(* The invariant says what is wanted.                                      *)
LEMMA ToolInvImplies == ToolInv => NoLostWakeup /\ FedWhileAlive
<1> SUFFICES ASSUME ToolInv PROVE NoLostWakeup /\ FedWhileAlive
  OBVIOUS
<1> USE DEF ToolInv
<1>1. starts \in [1..Streamers -> Nat]
  BY StreamersNat DEF Started
<1>2. ToolTypeOK
  BY <1>1 DEF QueueInv, ToolTypes, ToolTypeOK
<1>3. StartedFirst
  BY StreamersNat DEF Started, StartedFirst, post_done_, ToolTypes
<1>4. FeederGone /\ BenchLoopGone
  BY DEF Threads, FeederGone, BenchLoopGone, QueueInv, QueueTypeOK
<1> QED BY <1>2, <1>3, <1>4 DEF FedWhileAlive, QueueInv

LEMMA ToolStart == ToolInit => ToolInv
<1> SUFFICES ASSUME ToolInit PROVE ToolInv
  OBVIOUS
<1>1. QueueInv
  BY QueueStart DEF ToolInit
<1>2. ToolTypes
  <2>1. WaitLimit \in Nat /\ MaxReads \in Nat /\ Streamers \in Nat \ {0}
    BY StreamersNat, ToolConstants
  <2>2. closing \in BOOLEAN /\ deleted \in BOOLEAN /\ exited \in BOOLEAN
    BY Zenon DEF ToolInit
  <2> QED BY <2>1, <2>2 DEF ToolInit, ToolTypes, Benches
<1>3. Started
  BY StreamersNat DEF ToolInit, QueueInit, Started, post_done_, Streamers, Benches
<1>4. Threads
  BY ToolConstants DEF ToolInit, QueueInit, Threads
<1> QED BY <1>1, <1>2, <1>3, <1>4 DEF ToolInv

(* The timer of a bench starts the next streamers.                         *)
LEMMA StartWhipsStep ==
  ASSUME ToolInv, StartWhips
  PROVE  ToolInv'
<1> DEFINE last == IF whip_index_ + StartInterval > Streamers THEN Streamers
                   ELSE whip_index_ + StartInterval
<1> USE DEF ToolInv
<1>1. /\ Streamers \in Nat \ {0} /\ StartInterval \in Nat \ {0} /\ Streamers' = Streamers
      /\ whip_index_ \in 0..Streamers /\ whip_index_ < Streamers /\ ~post_done_
  BY StreamersNat, ToolConstants DEF StartWhips, ToolTypes, post_done_, Streamers
<1>2. last \in whip_index_ + 1..Streamers /\ whip_index_' = last
  BY <1>1 DEF StartWhips
<1>3. starts' = [i \in 1..Streamers |-> IF i \in whip_index_ + 1..last THEN starts[i] + 1
                                        ELSE starts[i]]
  BY DEF StartWhips, Started
<1> HIDE DEF last
<1>4. starts' = [i \in 1..Streamers |-> IF i <= last THEN 1 ELSE 0]
  BY <1>1, <1>2, <1>3 DEF Started
<1>5. QueueInv'
  BY QueueIdle DEF StartWhips
<1>6. ToolTypes'
  BY <1>1, <1>2 DEF StartWhips, ToolTypes
<1>7. Started'
  BY <1>1, <1>2, <1>4 DEF StartWhips, Started, post_done_, queueVars
<1>8. Threads'
  BY DEF StartWhips, Threads, queueVars
<1> QED BY <1>5, <1>6, <1>7, <1>8

(* The loop thread: reports, the end of a bench, and the callbacks.        *)
LEMMA LoopThread ==
  ASSUME ToolInv, OnReport \/ Clean \/ Exit \/ LoopStarts \/ LoopHandles
  PROVE  ToolInv'
<1> USE DEF ToolInv
<1>1. CASE OnReport
  <2>1. QueueInv'
    BY <1>1, QueueIdle DEF OnReport
  <2>2. ToolTypes'
    BY <1>1, StreamersNat DEF OnReport, ToolTypes, Streamers
  <2>3. Started' /\ Threads'
    BY <1>1 DEF OnReport, Started, Threads, post_done_, Streamers, queueVars
  <2> QED BY <2>1, <2>2, <2>3
<1>2. CASE Clean
  <2>1. QueueInv'
    BY <1>2, QueueIdle DEF Clean
  <2>2. ToolTypes' /\ Started'
    BY <1>2 DEF Clean, ToolTypes, Started, post_done_, Streamers, queueVars
  <2>3. Threads'
    BY <1>2 DEF Clean, LoopFree, Threads, queueVars
  <2> QED BY <2>1, <2>2, <2>3
<1>3. CASE Exit
  <2>1. QueueInv'
    BY <1>3, EmptySeq DEF Exit, QueueInv, QueueTypeOK, NoLostWakeup
  <2>2. ToolTypes' /\ Started'
    BY <1>3 DEF Exit, ToolTypes, Started, post_done_, Streamers
  <2>3. Threads'
    BY <1>3 DEF Exit, Threads
  <2> QED BY <2>1, <2>2, <2>3
<1>4. CASE LoopStarts
  <2>1. QueueInv'
    BY <1>4, ProducerSteps DEF LoopStarts
  <2>2. ToolTypes' /\ Started'
    BY <1>4 DEF LoopStarts, AsyncFires, ToolTypes, Started, post_done_, Streamers, toolVars
  <2>3. Threads'
    BY <1>4 DEF LoopStarts, AsyncFires, LoopFree, Threads, toolVars
  <2> QED BY <2>1, <2>2, <2>3
<1>5. CASE LoopHandles
  <2>1. QueueInv'
    BY <1>5, LoopSteps DEF LoopHandles
  <2>2. /\ running /\ UNCHANGED <<mutex_, pending>>
        /\ packet_queue_' # <<>> => packet_queue_ # <<>>
    BY <1>5 DEF LoopHandles, HandleMediaData, LoopEnds, TakePacket, QueueInv, QueueTypeOK
  <2>3. ToolTypes' /\ Started'
    BY <1>5, <2>2 DEF LoopHandles, ToolTypes, Started, post_done_, Streamers, toolVars
  <2>4. Threads'
    BY <1>5, <2>2 DEF LoopHandles, Threads, toolVars
  <2> QED BY <2>1, <2>3, <2>4
<1> QED BY <1>1, <1>2, <1>3, <1>4, <1>5

(* The work thread where it leaves the queue alone.                        *)
LEMMA WorkThread ==
  ASSUME ToolInv, WorkWaits \/ WorkReady \/ OpenFile \/ CheckReady \/ FileEnds \/ Finish
  PROVE  ToolInv'
<1> USE DEF ToolInv, WorkUnchanged, WorkLeaves
<1>0. UNCHANGED queueVars /\ WorkUnchanged
  BY DEF WorkWaits, WorkReady, OpenFile, CheckReady, FileEnds, Finish
<1>1. QueueInv'
  BY <1>0, QueueIdle
<1>2. Streamers' = Streamers /\ post_done_' = post_done_ /\ Streamers \in Nat \ {0}
  BY <1>0, StreamersNat DEF Streamers, post_done_
<1>3. CASE WorkWaits
  <2>1. waits \in Nat /\ waits <= WaitLimit /\ WaitLimit \in Nat
    BY <1>3, ToolConstants DEF WorkWaits, Threads, ToolTypes
  <2>2. waits' \in 0..WaitLimit + 1 /\ (work' = "waiting" => waits' <= WaitLimit)
    BY <1>3, <2>1 DEF WorkWaits
  <2>3. work' \in {"waiting", "opening", "left"} /\ closing' \in BOOLEAN
    BY <1>3, Zenon DEF WorkWaits, ToolTypes
  <2>4. ToolTypes'
    BY <1>0, <1>2, <1>3, <2>2, <2>3 DEF WorkWaits, ToolTypes
  <2>5. Threads'
    BY <1>0, <1>3, <2>2 DEF WorkWaits, ToolTypes, Threads, queueVars
  <2>6. Started'
    BY <1>0, <1>2, <1>3 DEF WorkWaits, Started, queueVars
  <2> QED BY <1>1, <2>4, <2>5, <2>6
<1>4. CASE WorkReady
  <2>1. post_done_
    BY <1>2, <1>4 DEF WorkReady, ToolTypes, post_done_
  <2> QED
    BY <1>0, <1>1, <1>2, <1>4, <2>1 DEF WorkReady, ToolTypes, Threads, Started, queueVars
<1>5. CASE OpenFile
  <2>1. closing' \in BOOLEAN
    BY <1>5, Zenon DEF OpenFile, ToolTypes
  <2>2. ToolTypes'
    BY <1>0, <1>2, <1>5, <2>1 DEF OpenFile, ToolTypes
  <2>3. Threads' /\ Started'
    BY <1>0, <1>2, <1>5 DEF OpenFile, ToolTypes, Threads, Started, queueVars
  <2> QED BY <1>1, <2>2, <2>3
<1>6. CASE CheckReady
  BY <1>0, <1>1, <1>2, <1>6 DEF CheckReady, ToolTypes, Threads, Started, queueVars
<1>7. CASE FileEnds
  BY <1>0, <1>1, <1>2, <1>7 DEF FileEnds, ToolTypes, Threads, Started, queueVars
<1>8. CASE Finish
  BY <1>0, <1>1, <1>2, <1>8 DEF Finish, ToolTypes, Threads, Started, queueVars
<1> QED BY <1>3, <1>4, <1>5, <1>6, <1>7, <1>8

(* The work thread, or any producer, inside SourceData.                    *)
LEMMA Feeding ==
  ASSUME ToolInv, ReadFile \/ WorkSends \/ AnyThread
  PROVE  ToolInv'
<1> USE DEF ToolInv
<1>1. CASE ReadFile
  <2>1. QueueInv'
    BY <1>1, ProducerSteps, QueueIdle DEF ReadFile, SourceData
  <2>2. Streamers' = Streamers /\ post_done_' = post_done_ /\ post_done_ /\ MaxReads \in Nat
    BY <1>1, ToolConstants DEF ReadFile, WorkUnchanged, Streamers, post_done_, Started
  <2>3. ToolTypes'
    BY <1>1, <2>2 DEF ReadFile, WorkUnchanged, ToolTypes
  <2>4. Started'
    BY <1>1, <2>2 DEF ReadFile, WorkUnchanged, Started
  <2>5. UNCHANGED running
    BY <1>1 DEF ReadFile, SourcePush, queueVars
  <2>6. Threads'
    BY <1>1, <2>5 DEF ReadFile, WorkUnchanged, Threads
  <2> QED BY <2>1, <2>3, <2>4, <2>6
<1>2. CASE WorkSends
  <2>1. QueueInv'
    BY <1>2, ProducerSteps DEF WorkSends, SourceData
  <2>2. ToolTypes' /\ Started' /\ Threads'
    BY <1>2 DEF WorkSends, SourceSend, ToolTypes, Started, Threads, post_done_, Streamers,
                toolVars
  <2> QED BY <2>1, <2>2
<1>3. CASE AnyThread
  <2>1. QueueInv'
    BY <1>3, ProducerSteps DEF AnyThread
  <2>2. tool = "any" /\ UNCHANGED toolVars /\ UNCHANGED running
    BY <1>3 DEF AnyThread, SourceData, SourceSend, SourcePush
  <2>3. post_done_ /\ post_done_' = post_done_ /\ Streamers' = Streamers
    BY <2>2 DEF Started, post_done_, Streamers, Benches, toolVars
  <2>4. ToolTypes' /\ Started' /\ Threads'
    BY <2>2, <2>3 DEF ToolTypes, Started, Threads, toolVars
  <2> QED BY <2>1, <2>4
<1> QED BY <1>1, <1>2, <1>3

LEMMA ToolStep == ToolInv /\ [ToolNext]_vars => ToolInv'
<1> SUFFICES ASSUME ToolInv, [ToolNext]_vars PROVE ToolInv'
  OBVIOUS
<1>1. CASE UNCHANGED vars
  <2>1. UNCHANGED queueVars /\ UNCHANGED toolVars
    BY <1>1 DEF vars
  <2>2. ToolTypes' /\ Started' /\ Threads'
    BY <2>1 DEF ToolInv, ToolTypes, Started, Threads, post_done_, Streamers, queueVars, toolVars
  <2> QED BY <2>1, <2>2, QueueIdle DEF ToolInv
<1> QED
  BY <1>1, StartWhipsStep, LoopThread, WorkThread, Feeding DEF ToolNext, OnWork

LEMMA ToolAlways == ToolSpec => []ToolInv
  BY ToolStart, ToolStep, PTL DEF ToolSpec

(* Whatever thread of whichever tool feeds the queue, no wake-up is lost.  *)
THEOREM ToolNoLostWakeup == ToolSpec => []NoLostWakeup
  BY ToolAlways, ToolInvImplies, PTL

(* In every tool, the demos included, the work thread feeds a streamer     *)
(* only behind its one StartNetwork and is out of SourceData for good when *)
(* it is deleted.  The loop thread is out of it too in the benches, which  *)
(* delete from the loop (whip_srs_bench, mediasoup_push_bench); of the     *)
(* loop thread of a demo, which deletes from the work thread while the     *)
(* loop may be inside, nothing is said.                                    *)
THEOREM ToolFeedsWhileAlive == ToolSpec => []FedWhileAlive
  BY ToolAlways, ToolInvImplies, PTL
=============================================================================
