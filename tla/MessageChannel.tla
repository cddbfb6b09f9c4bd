--------------------------- MODULE MessageChannel ---------------------------
(***************************************************************************)
(* What RtmpClient takes for granted of its transport: on each chunk       *)
(* stream messages come out whole, once and in the order they went in.     *)
(* A channel that is broken promises nothing.                              *)
(***************************************************************************)
EXTENDS Sequences, SequencesExt

CONSTANTS Streams

VARIABLES
  queue,    \* stream -> messages put in and not yet taken out
  taken,    \* <<stream, message>> last taken out
  broken

channelVars == <<queue, taken, broken>>

ChannelInit ==
  /\ queue = [c \in Streams |-> <<>>] /\ taken = <<>> /\ broken = FALSE

(* Some message is appended.                                               *)
Put(c) ==
  /\ queue'[c] # <<>>
  /\ queue' = [queue EXCEPT ![c] = Append(@, Last(queue'[c]))]
  /\ UNCHANGED <<taken, broken>>

Take(c) ==
  /\ queue[c] # <<>>
  /\ taken' = <<c, Head(queue[c])>>
  /\ queue' = [queue EXCEPT ![c] = Tail(@)]
  /\ UNCHANGED broken

Break == broken' = TRUE

ChannelNext ==
  \/ ~broken /\ \E c \in Streams : Put(c) \/ Take(c)
  \/ Break

ChannelSpec == ChannelInit /\ [][ChannelNext]_channelVars
=============================================================================
