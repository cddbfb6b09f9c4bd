---------------------------- MODULE PublishTool -----------------------------
(***************************************************************************)
(* The command lines that publish a file (tools/whip_srs_demo.cpp,         *)
(* mediasoup_push_demo.cpp, whip_srs_bench.cpp, mediasoup_push_bench.cpp,  *)
(* flv2rtmppublish_streamer.cpp) and the benches that pull: a work thread  *)
(* waits until the sessions are ready, reads the file and feeds the        *)
(* streamers through SourceData; the libuv loop runs the streamers.        *)
(* MediaQueue is the queue of the streamer that is started last.           *)
(***************************************************************************)
EXTENDS MediaQueue

CONSTANTS
  BenchCount,      \* streamers of a bench (option -n)
  StartInterval,   \* started in one timer callback (WHIPS_INTERVAL, 10)
  WaitLimit,       \* rounds of waiting before the tool gives up
  MaxReads         \* bound: reads until the end of the file

ASSUME ToolConstants ==
  BenchCount \in Nat \ {0} /\ StartInterval \in Nat \ {0} /\ {WaitLimit, MaxReads} \subseteq Nat

VARIABLES
  tool,               \* which tool; "any" is MediaQueue with any producer
  whip_index_,        \* streamers started
  starts,             \* history: calls of StartNetwork, for each streamer
  whip_ready_count_,  \* sessions that reported they are ready (whip_ready_ of a demo)
  work,               \* where the work thread is; "left" when it has returned
  waits, reads,       \* rounds of waiting, reads of the file
  closing,            \* AsyncClose was called
  deleted,            \* the streamers are deleted
  exited              \* exit(0)

toolVars == <<tool, whip_index_, starts, whip_ready_count_, work, waits, reads, closing,
              deleted, exited>>
vars == <<queueVars, toolVars>>

Benches == {"bench", "pull"}
Streamers == IF tool \in Benches THEN BenchCount ELSE 1
post_done_ == whip_index_ >= Streamers

(* MakeStreamers: a demo starts its streamer before the work thread runs,  *)
(* a bench leaves that to its timer.                                       *)
ToolInit ==
  /\ QueueInit
  /\ tool \in {"any", "demo", "bench", "flv", "pull"}
  /\ tool # "any" => sink = IF tool = "flv" THEN "rtmp" ELSE "rtc"
  /\ starts = [i \in 1..Streamers |-> IF tool \in Benches THEN 0 ELSE 1]
  /\ whip_index_ = IF tool \in Benches THEN 0 ELSE 1
  /\ work = IF tool \in {"any", "pull"} THEN "left" ELSE "waiting"
  /\ whip_ready_count_ = 0 /\ waits = 0 /\ reads = 0
  /\ closing = FALSE /\ deleted = FALSE /\ exited = FALSE

-----------------------------------------------------------------------------
(* The loop thread.  It is inside CloseCallback from the deletion on.      *)
LoopFree == ~running /\ ~exited /\ (deleted => tool = "demo")

(* Mutant of StartWhips: the index does not stop at the last streamer.     *)
StartWhipsPast ==
  /\ tool \in Benches /\ LoopFree /\ ~post_done_
  /\ starts' = [i \in DOMAIN starts |->
                  IF i \in whip_index_ + 1..whip_index_ + StartInterval
                  THEN starts[i] + 1 ELSE starts[i]]
  /\ whip_index_' = whip_index_ + StartInterval
  /\ UNCHANGED <<queueVars, tool, whip_ready_count_, work, waits, reads, closing, deleted, exited>>

(* StartWhips from the 500 ms timer.                                       *)
StartWhips ==
  /\ tool \in Benches /\ LoopFree /\ ~post_done_
  /\ LET last == IF whip_index_ + StartInterval > Streamers THEN Streamers
                 ELSE whip_index_ + StartInterval
     IN  /\ starts' = [i \in DOMAIN starts |->
                         IF i \in whip_index_ + 1..last THEN starts[i] + 1 ELSE starts[i]]
         /\ whip_index_' = last
  /\ UNCHANGED <<queueVars, tool, whip_ready_count_, work, waits, reads, closing, deleted, exited>>

(* OnReport: a session is ready; each says so once.  flv2rtmppublish waits *)
(* for a report of type "event", which RtmpPublish never makes, and the    *)
(* clients never report an error.                                          *)
OnReport ==
  /\ tool \in {"demo", "bench"} /\ LoopFree /\ whip_ready_count_ < whip_index_
  /\ whip_ready_count_' = whip_ready_count_ + 1
  /\ UNCHANGED <<queueVars, tool, whip_index_, starts, work, waits, reads, closing, deleted, exited>>

(* CloseCallback, Stop, Clean; then exit(0).                               *)
Clean ==
  /\ closing /\ LoopFree /\ ~deleted /\ deleted' = TRUE
  /\ UNCHANGED <<queueVars, tool, whip_index_, starts, whip_ready_count_, work, waits, reads,
                 closing, exited>>

(* The end of the process takes the queue with it.                         *)
Exit ==
  /\ deleted /\ ~exited /\ exited' = TRUE
  /\ packet_queue_' = <<>> /\ mutex_' = "free"
  /\ pending' = FALSE /\ running' = FALSE /\ early' = FALSE
  /\ UNCHANGED <<sink, tool, whip_index_, starts, whip_ready_count_, work, waits, reads, closing,
                 deleted>>

LoopStarts == (LoopFree /\ AsyncFires) /\ UNCHANGED toolVars
LoopHandles == ~exited /\ HandleMediaData /\ UNCHANGED toolVars

-----------------------------------------------------------------------------
(* The work thread.  One that returns leaves a demo running for ever; that *)
(* of a bench calls AsyncClose first.                                      *)
WorkLeaves == work' = "left" /\ closing' = (tool = "bench")

WorkUnchanged == UNCHANGED <<tool, whip_index_, starts, whip_ready_count_, exited>>

(* Mutant of WorkWaits: a bench gives up waiting before all are started.   *)
WorkWaitsEarly ==
  /\ work = "waiting" /\ whip_ready_count_ < Streamers
  /\ waits' = waits + 1
  /\ IF waits' > WaitLimit THEN WorkLeaves
     ELSE work' = (IF tool = "bench" THEN "opening" ELSE "waiting") /\ UNCHANGED closing
  /\ UNCHANGED <<queueVars, reads, deleted>> /\ WorkUnchanged

(* A round of the loop that waits.  A bench goes on when all are started,  *)
(* ready or not.                                                           *)
WorkWaits ==
  /\ work = "waiting" /\ whip_ready_count_ < Streamers
  /\ waits' = waits + 1
  /\ IF waits' > WaitLimit THEN WorkLeaves
     ELSE /\ work' = IF tool = "bench" /\ post_done_ THEN "opening" ELSE "waiting"
          /\ UNCHANGED closing
  /\ UNCHANGED <<queueVars, reads, deleted>> /\ WorkUnchanged

WorkReady ==
  /\ work = "waiting" /\ whip_ready_count_ >= Streamers /\ work' = "opening"
  /\ UNCHANGED <<queueVars, waits, reads, closing, deleted>> /\ WorkUnchanged

(* Mutant of OpenFile: a bench whose file cannot be opened just returns.   *)
OpenFileReturns ==
  /\ work = "opening"
  /\ work' \in {"reading", "left"} /\ UNCHANGED closing
  /\ UNCHANGED <<queueVars, waits, reads, deleted>> /\ WorkUnchanged

OpenFile ==
  /\ work = "opening"
  /\ (work' = "reading" /\ UNCHANGED closing) \/ WorkLeaves
  /\ UNCHANGED <<queueVars, waits, reads, deleted>> /\ WorkUnchanged

(* fread and InputTsData: the demuxer hands on a packet or waits for more. *)
ReadFile ==
  /\ work = "reading" /\ mutex_ = "free" /\ reads < MaxReads
  /\ reads' = reads + 1 /\ work' = "checking"
  /\ (\E fmt \in Formats : SourcePush(fmt)) \/ UNCHANGED queueVars
  /\ UNCHANGED <<waits, closing, deleted>> /\ WorkUnchanged

WorkSends ==
  /\ work = "checking" /\ SourceSend /\ UNCHANGED toolVars

(* Behind each read: the loop ends when no session is ready.               *)
CheckReady ==
  /\ work = "checking" /\ mutex_ = "free"
  /\ work' = IF whip_ready_count_ = 0 THEN "finishing" ELSE "reading"
  /\ UNCHANGED <<queueVars, waits, reads, closing, deleted>> /\ WorkUnchanged

FileEnds ==
  /\ work = "reading" /\ work' = "finishing"
  /\ UNCHANGED <<queueVars, waits, reads, closing, deleted>> /\ WorkUnchanged

(* Mutant of Finish: a bench deletes its streamers itself, as a demo does. *)
FinishDeletes ==
  /\ work = "finishing" /\ work' = "deleting" /\ deleted' = TRUE
  /\ UNCHANGED <<queueVars, waits, reads, closing>> /\ WorkUnchanged

(* After a pause a demo deletes its streamers in this thread.              *)
Finish ==
  /\ work = "finishing"
  /\ IF tool = "demo"
     THEN work' = "deleting" /\ deleted' = TRUE /\ UNCHANGED closing
     ELSE WorkLeaves /\ UNCHANGED deleted
  /\ UNCHANGED <<queueVars, waits, reads>> /\ WorkUnchanged

OnWork ==
  \/ WorkWaits \/ WorkReady \/ OpenFile
  \/ ReadFile \/ WorkSends \/ CheckReady \/ FileEnds
  \/ Finish

(* Any producer.                                                           *)
AnyThread == tool = "any" /\ SourceData /\ UNCHANGED toolVars

ToolNext ==
  \/ AnyThread
  \/ StartWhips \/ OnReport \/ Clean \/ Exit \/ LoopStarts \/ LoopHandles
  \/ OnWork

(* Both threads run, the loop calls due timers and async callbacks,        *)
(* SourceData returns, and the mutex starves nobody.  A session need never *)
(* become ready, and a producer may stop.                                  *)
ToolSpec ==
  /\ ToolInit /\ [][ToolNext]_vars
  /\ WF_vars(StartWhips) /\ WF_vars(Clean) /\ WF_vars(Exit) /\ WF_vars(OnWork)
  /\ WF_vars(AnyThread /\ SourceSend) /\ WF_vars(LoopStarts) /\ SF_vars(LoopHandles)

-----------------------------------------------------------------------------
(* Types of the tool.                                                      *)
ToolTypeOK ==
  /\ QueueTypeOK
  /\ whip_index_ \in 0..Streamers /\ whip_ready_count_ \in 0..whip_index_
  /\ starts \in [1..Streamers -> Nat]
  /\ work \in {"waiting", "opening", "reading", "checking", "finishing", "deleting", "left"}
  /\ waits \in 0..WaitLimit + 1 /\ reads \in 0..MaxReads
  /\ closing \in BOOLEAN /\ deleted \in BOOLEAN /\ exited \in BOOLEAN

(* A streamer is fed only after its StartNetwork, which is called once:    *)
(* uv_async_send never meets an async_ that uv_async_init has not seen,    *)
(* and no session is started over (SourceData, StartWhips, OnWork).        *)
StartedFirst ==
  /\ \A i \in DOMAIN starts : starts[i] <= 1
  /\ (packet_queue_ # <<>> \/ mutex_ = "source" \/ pending) =>
       \A i \in DOMAIN starts : starts[i] = 1

(* The thread that feeds a streamer, of any tool, is out of SourceData and *)
(* does not come back to it once the streamers are deleted (Finish, Clean, *)
(* ReadFile).                                                              *)
FeederGone ==
  (deleted /\ ~exited) => mutex_ = "free" /\ work \in {"deleting", "left"}

(* The loop thread of a bench is not inside a streamer it deletes, and is  *)
(* not called into one before exit(0).  A demo deletes from the work       *)
(* thread: its loop thread may be inside HandleMediaData at that moment,   *)
(* and may enter it afterwards, so this is not said of the demos.          *)
BenchLoopGone ==
  (deleted /\ ~exited /\ tool # "demo") => ~running

(* A bench ends, whatever its sessions and its file do.  A demo ends too,  *)
(* or its work thread has given up and the loop runs on without it; a pull *)
(* bench gets all its streamers started (OnWork, StartWhips).              *)
ToolEnds ==
  <>(\/ tool = "any" \/ exited
     \/ tool \in {"demo", "flv"} /\ work = "left"
     \/ tool = "pull" /\ post_done_)

(* Streamers are fed only while they live, in every tool; the benches also *)
(* keep the loop thread out of a deleted one.                              *)
FedWhileAlive == ToolTypeOK /\ StartedFirst /\ FeederGone /\ BenchLoopGone

(* The queue keeps being served and the tool comes to its end, or gives    *)
(* up.                                                                     *)
ToolProgress == QueueServed /\ ToolEnds
=============================================================================
