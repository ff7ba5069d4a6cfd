------------------------------ MODULE SttClient ------------------------------
(***************************************************************************)
(* The streaming transcription client, GrpcSttStreamClient in              *)
(* libs/cpp/streaming-client/src/grpc_stt_stream_client.cpp, with the      *)
(* stream it opens and a server that behaves like the repository's mock.   *)
(*                                                                         *)
(*  - the owner calls start(), then sendFrame() for each frame, then       *)
(*    stop(), never two at once: RecorderController moves the client out   *)
(*    of the drain thread's reach before it stops it (Recorder, SttDetach).*)
(*    at is the place of the owner in these calls;                         *)
(*  - writeLoop moves frames from the bounded queue to the stream; it      *)
(*    sleeps on the condition variable until it is notified;               *)
(*  - readLoop counts and passes on transcript updates until the stream    *)
(*    ends.                                                                *)
(*                                                                         *)
(* The stream delivers in order, holds at most Window unread frames        *)
(* (Write() blocks) and may end or be lost at any time, which a Write()    *)
(* may notice late.  A frame is its number among the frames offered.       *)
(***************************************************************************)
EXTENDS Naturals, Sequences

CONSTANTS QueueCapacity,    \* sendQueueCapacity
          Window,           \* frames the stream holds before Write() blocks
          FramesPerUpdate,  \* the server's framesPerUpdate
          MaxFrames,        \* bound: calls of sendFrame()
          MaxStarts         \* bound: successful calls of start()

ASSUME ClientAssumption ==
  /\ QueueCapacity \in Nat \ {0} /\ Window \in Nat \ {0}
  /\ FramesPerUpdate \in Nat \ {0}
  /\ MaxFrames \in Nat /\ MaxStarts \in Nat

VARIABLES
  at,              \* the owner: "off", "on", or a step of sendFrame() or stop()
  starts,          \* calls of start() that succeeded
  queue,           \* queue_
  stopRequested,   \* stopRequested_
  streamBroken,    \* streamBroken_
  writer,          \* writeLoop: "wait", "asleep", "write", "broken", "close", "exited"
  request,         \* the frame writeLoop took from the queue, if any
  reader,          \* readLoop: "read" or "exited"
  framesSent, framesDropped, updatesReceived,  \* the statistics
  halfClosed,      \* WritesDone() was called
  upstream,        \* frames on their way to the server
  received,        \* frames the server read in this session
  downstream,      \* updates on their way to the client
  peer,            \* the stream's other end: "up", "done", "ended" or "lost"
  offered,         \* history: calls of sendFrame()
  accepted         \* history: frames it accepted in this session

ownerVars  == <<at, starts, offered, accepted>>
queueVars  == <<queue, stopRequested, streamBroken>>
writerVars == <<writer, request>>
statVars   == <<framesSent, framesDropped, updatesReceived>>
streamVars == <<halfClosed, upstream, received, downstream, peer>>
vars == <<ownerVars, queueVars, writerVars, reader, statVars, streamVars>>

\* notify_one, notify_all: writeLoop is the only waiter.
Notify == writer' = IF writer = "asleep" THEN "wait" ELSE writer

-----------------------------------------------------------------------------
(* The owner's calls.                                                      *)

\* start(), when the endpoint can be reached; otherwise nothing changes.
Start ==
  /\ at = "off" /\ starts < MaxStarts
  /\ at' = "on" /\ starts' = starts + 1
  /\ stopRequested' = FALSE /\ streamBroken' = FALSE
  /\ writer' = "wait" /\ reader' = "read"
  /\ halfClosed' = FALSE /\ peer' = "up"
  /\ upstream' = <<>> /\ received' = <<>> /\ downstream' = <<>>
  /\ accepted' = <<>>
  /\ UNCHANGED <<queue, request, statVars, offered>>

\* sendFrame(): a stopped or broken stream or a full queue drops the frame.
SendRefused ==
  /\ at \in {"off", "on"} /\ offered < MaxFrames
  /\ at = "off" \/ streamBroken \/ Len(queue) >= QueueCapacity
  /\ offered' = offered + 1
  /\ framesDropped' = framesDropped + 1
  /\ UNCHANGED <<at, starts, accepted, queueVars, writerVars, reader, framesSent,
                 updatesReceived, streamVars>>

\* Mutant of SendAccepted: the queue takes one frame too many.
SendOverfull ==
  /\ at = "on" /\ offered < MaxFrames
  /\ ~streamBroken /\ Len(queue) <= QueueCapacity
  /\ offered' = offered + 1
  /\ queue' = Append(queue, offered')
  /\ accepted' = Append(accepted, offered')
  /\ at' = "notify"
  /\ UNCHANGED <<starts, stopRequested, streamBroken, writerVars, reader, statVars,
                 streamVars>>

SendAccepted ==
  /\ at = "on" /\ offered < MaxFrames
  /\ ~streamBroken /\ Len(queue) < QueueCapacity
  /\ offered' = offered + 1
  /\ queue' = Append(queue, offered')
  /\ accepted' = Append(accepted, offered')
  /\ at' = "notify"
  /\ UNCHANGED <<starts, stopRequested, streamBroken, writerVars, reader, statVars,
                 streamVars>>

SendNotify ==
  /\ at = "notify"
  /\ Notify
  /\ at' = "on"
  /\ UNCHANGED <<starts, offered, accepted, queueVars, request, reader, statVars, streamVars>>

Stop ==
  /\ at = "on"
  /\ stopRequested' = TRUE
  /\ at' = "stop"
  /\ UNCHANGED <<starts, offered, accepted, queue, streamBroken, writerVars, reader, statVars,
                 streamVars>>

\* Mutant of StopNotify: nobody is notified.
StopSilently ==
  /\ at = "stop"
  /\ at' = "joinWriter"
  /\ UNCHANGED <<starts, offered, accepted, queueVars, writerVars, reader, statVars, streamVars>>

StopNotify ==
  /\ at = "stop"
  /\ Notify
  /\ at' = "joinWriter"
  /\ UNCHANGED <<starts, offered, accepted, queueVars, request, reader, statVars, streamVars>>

JoinWriter ==
  /\ at = "joinWriter" /\ writer = "exited"
  /\ at' = "joinReader"
  /\ UNCHANGED <<starts, offered, accepted, queueVars, writerVars, reader, statVars, streamVars>>

\* Mutant of JoinReader: the stream is released under the reader.
DetachReader ==
  /\ at = "joinReader"
  /\ at' = "off"
  /\ queue' = <<>>
  /\ UNCHANGED <<starts, offered, accepted, stopRequested, streamBroken, writerVars, reader,
                 statVars, streamVars>>

\* The stream is finished and released, the queue cleared.
JoinReader ==
  /\ at = "joinReader" /\ reader = "exited"
  /\ at' = "off"
  /\ queue' = <<>>
  /\ UNCHANGED <<starts, offered, accepted, stopRequested, streamBroken, writerVars, reader,
                 statVars, streamVars>>

-----------------------------------------------------------------------------
(* writeLoop                                                               *)

\* Mutant of Take: the newest frame is taken first.
TakeNewest ==
  /\ writer = "wait"
  /\ \/ /\ queue # <<>>
        /\ request' = <<queue[Len(queue)]>>
        /\ queue' = SubSeq(queue, 1, Len(queue) - 1)
        /\ writer' = "write"
     \/ /\ queue = <<>>
        /\ writer' = IF stopRequested THEN "close" ELSE "asleep"
        /\ UNCHANGED <<queue, request>>
  /\ UNCHANGED <<ownerVars, stopRequested, streamBroken, reader, statVars, streamVars>>

\* Mutant of Take: a stop request ends the loop before the queue is empty.
TakeUntilStop ==
  /\ writer = "wait"
  /\ \/ /\ queue # <<>> /\ ~stopRequested
        /\ request' = <<Head(queue)>>
        /\ queue' = Tail(queue)
        /\ writer' = "write"
     \/ /\ queue = <<>> \/ stopRequested
        /\ writer' = IF stopRequested THEN "close" ELSE "asleep"
        /\ UNCHANGED <<queue, request>>
  /\ UNCHANGED <<ownerVars, stopRequested, streamBroken, reader, statVars, streamVars>>

\* Under the lock: take a frame, leave the loop, or go to sleep.
Take ==
  /\ writer = "wait"
  /\ \/ /\ queue # <<>>
        /\ request' = <<Head(queue)>>
        /\ queue' = Tail(queue)
        /\ writer' = "write"
     \/ /\ queue = <<>>
        /\ writer' = IF stopRequested THEN "close" ELSE "asleep"
        /\ UNCHANGED <<queue, request>>
  /\ UNCHANGED <<ownerVars, stopRequested, streamBroken, reader, statVars, streamVars>>

\* Write() succeeds, also for a while after the stream has ended.
Write ==
  /\ writer = "write"
  /\ \/ peer = "up" /\ Len(upstream) < Window /\ upstream' = upstream \o request
     \/ peer # "up" /\ UNCHANGED upstream
  /\ framesSent' = framesSent + 1
  /\ request' = <<>>
  /\ writer' = "wait"
  /\ UNCHANGED <<ownerVars, queueVars, reader, framesDropped, updatesReceived, halfClosed,
                 received, downstream, peer>>

\* Write() fails; the lock is taken after it has returned.
WriteFails ==
  /\ writer = "write" /\ peer # "up"
  /\ writer' = "broken"
  /\ UNCHANGED <<ownerVars, queueVars, request, reader, statVars, streamVars>>

\* Mutant of Break: the frame whose Write() failed is not counted.
BreakUncounted ==
  /\ writer = "broken"
  /\ streamBroken' = TRUE
  /\ framesDropped' = framesDropped + Len(queue)
  /\ queue' = <<>>
  /\ request' = <<>>
  /\ writer' = "close"
  /\ UNCHANGED <<ownerVars, stopRequested, reader, framesSent, updatesReceived, streamVars>>

Break ==
  /\ writer = "broken"
  /\ streamBroken' = TRUE
  /\ framesDropped' = framesDropped + Len(queue) + 1
  /\ queue' = <<>>
  /\ request' = <<>>
  /\ writer' = "close"
  /\ UNCHANGED <<ownerVars, stopRequested, reader, framesSent, updatesReceived, streamVars>>

Close ==
  /\ writer = "close"
  /\ halfClosed' = TRUE
  /\ writer' = "exited"
  /\ UNCHANGED <<ownerVars, queueVars, request, reader, statVars, upstream, received,
                 downstream, peer>>

(* readLoop *)

Read ==
  /\ reader = "read" /\ downstream # <<>>
  /\ downstream' = Tail(downstream)
  /\ updatesReceived' = updatesReceived + 1
  /\ UNCHANGED <<ownerVars, queueVars, writerVars, reader, framesSent, framesDropped,
                 halfClosed, upstream, received, peer>>

ReadEnds ==
  /\ reader = "read" /\ downstream = <<>> /\ peer # "up"
  /\ reader' = "exited"
  /\ UNCHANGED <<ownerVars, queueVars, writerVars, statVars, streamVars>>

-----------------------------------------------------------------------------
(* The server and the network.                                             *)

ServerReads ==
  /\ peer = "up" /\ upstream # <<>>
  /\ upstream' = Tail(upstream)
  /\ received' = Append(received, Head(upstream))
  /\ downstream' = IF Len(received') % FramesPerUpdate = 0
                   THEN Append(downstream, Len(received')) ELSE downstream
  /\ UNCHANGED <<ownerVars, queueVars, writerVars, reader, statVars, halfClosed, peer>>

\* After the half-close the server has read everything and returns OK.
ServerDone ==
  /\ peer = "up" /\ upstream = <<>> /\ halfClosed
  /\ peer' = "done"
  /\ UNCHANGED <<ownerVars, queueVars, writerVars, reader, statVars, halfClosed, upstream,
                 received, downstream>>

\* The server ends early, or the connection and what it carried is lost.
StreamDies ==
  /\ at # "off" /\ peer = "up"
  /\ \/ peer' = "ended" /\ UNCHANGED downstream
     \/ peer' = "lost" /\ downstream' = <<>>
  /\ upstream' = <<>>
  /\ UNCHANGED <<ownerVars, queueVars, writerVars, reader, statVars, halfClosed, received>>

-----------------------------------------------------------------------------
Owner  == SendNotify \/ StopNotify \/ JoinWriter \/ JoinReader
Writer == Take \/ Write \/ WriteFails \/ Break \/ Close
Reader == Read \/ ReadEnds
Server == ServerReads \/ ServerDone

Init ==
  /\ at = "off" /\ starts = 0 /\ offered = 0 /\ accepted = <<>>
  /\ queue = <<>> /\ stopRequested = FALSE /\ streamBroken = FALSE
  /\ writer = "exited" /\ request = <<>> /\ reader = "exited"
  /\ framesSent = 0 /\ framesDropped = 0 /\ updatesReceived = 0
  /\ halfClosed = FALSE /\ peer = "ended"
  /\ upstream = <<>> /\ received = <<>> /\ downstream = <<>>

Next ==
  \/ Start \/ SendRefused \/ SendAccepted \/ Stop
  \/ Owner \/ Writer \/ Reader \/ Server \/ StreamDies

Spec == Init /\ [][Next]_vars

(***************************************************************************)
(* Fairness: the client's threads run, a call that has begun goes on, and  *)
(* the server keeps reading and ends after the half-close, as the mock's   *)
(* handler does.  Nobody has to send or to stop.                           *)
(***************************************************************************)
Fairness == WF_vars(Owner) /\ WF_vars(Writer) /\ WF_vars(Reader) /\ WF_vars(Server)

FairSpec == Spec /\ Fairness

-----------------------------------------------------------------------------
(* Properties                                                              *)

\* Every variable has its type, and the queue its capacity.
TypeOK ==
  /\ at \in {"off", "on", "notify", "stop", "joinWriter", "joinReader"}
  /\ starts \in Nat /\ offered \in Nat /\ accepted \in Seq(Nat)
  /\ queue \in Seq(Nat) /\ Len(queue) <= QueueCapacity
  /\ stopRequested \in BOOLEAN /\ streamBroken \in BOOLEAN
  /\ writer \in {"wait", "asleep", "write", "broken", "close", "exited"}
  /\ request \in Seq(Nat) /\ reader \in {"read", "exited"}
  /\ framesSent \in Nat /\ framesDropped \in Nat /\ updatesReceived \in Nat
  /\ halfClosed \in BOOLEAN /\ peer \in {"up", "done", "ended", "lost"}
  /\ upstream \in Seq(Nat) /\ received \in Seq(Nat) /\ downstream \in Seq(Nat)

(***************************************************************************)
(* "Never silent": every frame offered is waiting, sent or counted as a    *)
(* drop, wherever the stream breaks and stop() comes.                      *)
(***************************************************************************)
DropsAreCounted ==
  offered = framesSent + framesDropped + Len(queue) + Len(request)

(***************************************************************************)
(* As long as the stream holds, the server reads the accepted frames in    *)
(* order, each once: nothing is skipped between the queue, the frame       *)
(* writeLoop holds and the stream.                                         *)
(***************************************************************************)
UploadInOrder ==
  peer = "up" => accepted = received \o upstream \o request \o queue

(***************************************************************************)
(* stop() returns, whether the writer sleeps, is blocked in Write() or has *)
(* found the stream broken: it runs on the UI thread.                      *)
(***************************************************************************)
StopReturns == at = "stop" ~> at = "off"

=============================================================================
