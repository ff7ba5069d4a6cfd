------------------------------ MODULE Recorder ------------------------------
(***************************************************************************)
(* The desktop recorder's controller, RecorderController                   *)
(* (apps/desktop-recorder/src/recorder_controller.cpp), with the threads   *)
(* it coordinates:                                                         *)
(*                                                                         *)
(*  - the UI thread runs start(), pause(), resume(), stop(), the stats     *)
(*    timer and the destructor, one handler at a time.  A handler is cut   *)
(*    into the steps between which another thread can observe or change    *)
(*    something; ui records the handler (op), the step it is at and the    *)
(*    track that step is about;                                            *)
(*  - one capture thread per running stream pushes frames into the track's *)
(*    bounded ring (RingSink::onFrame);                                    *)
(*  - the drain thread takes pipelineMutex_ (lock) and moves frames from   *)
(*    the rings through the synchronizer to the STT client and the writer. *)
(*                                                                         *)
(* A frame is its number among the frames the device produced for that     *)
(* track in this recording, the take (start or resume) it belongs to and   *)
(* its discontinuity flag.  The ring is an atomic bounded FIFO here        *)
(* (SpscRing refines that); TrackSynchronizer::process is seen as passing  *)
(* the frame on (TrackSync models the timeline it rebuilds); the writer is *)
(* seen through its contract (RecordingWriter models its inside).          *)
(***************************************************************************)
EXTENDS Naturals, Sequences, SessionTable

CONSTANTS RingCapacity,  \* ring slots per track (RecorderConfig)
          MaxFrames,     \* bound: frames a device produces per recording
          MaxTakes       \* bound: start() plus the resume()s that follow it

ASSUME RecorderAssumption ==
  /\ RingCapacity \in Nat \ {0}
  /\ MaxFrames \in Nat
  /\ MaxTakes \in Nat

Tracks == {"mic", "sys"}

Frames == [take : Nat, id : Nat, disc : BOOLEAN]

VARIABLES
  session,       \* session_: the lifecycle state
  ui,            \* the handler the UI thread is in, and where
  selected,      \* the tracks with a selected device
  stream,        \* per track: capture stream "none", "running" or "stopped"
  installed,     \* tracks whose pipeline is published to the drain thread
  ring,          \* per track: the ring buffer's contents
  pendingDisc,   \* tracks whose backend owes the next frame a flag
  produced,      \* per track: frames the device produced in this recording
  take,          \* number of times streams were opened in this recording
  lock,          \* holder of pipelineMutex_
  drainAt,       \* drain thread: between passes, at a track, or exited
  drainStop,     \* drainStop_
  writer,        \* writer_: "none", "open" or "failed"
  writerTracks,  \* tracks with a writer index (writerTrack >= 0)
  writerFailed,  \* writerFailed_
  reported,      \* writerFailureReported_
  written,       \* per track: frames the writer accepted
  disk,          \* the recording's file: "none", "partial", "final", "removed"
  stt,           \* sttClient_: "none", "live", or "joining" inside stop()
  uploaded,      \* frames handed to the STT producer and client
  timer,         \* statsTimer_ is running
  verdict,       \* stop()'s locals savedFile and finalizeError
  error,         \* lastError_, by its cause
  accepted       \* history: per track, the frames its ring accepted

vars == <<session, ui, selected, stream, installed, ring, pendingDisc, produced,
          take, lock, drainAt, drainStop, writer, writerTracks, writerFailed,
          reported, written, disk, stt, uploaded, timer, verdict, error, accepted>>

\* Groups of variables that most actions leave alone together.
coreVars    == <<session, installed, lock, stt, uploaded>>
captureVars == <<stream, ring, pendingDisc, produced, take, accepted>>
drainVars   == <<drainAt, drainStop>>
fileVars    == <<writer, writerTracks, writerFailed, written, disk>>
uiVars      == <<selected, timer, verdict, error, reported>>

Empty == [t \in Tracks |-> <<>>]

At(op, at, track) == [op |-> op, at |-> at, track |-> track]

Ops   == {"none", "start", "pause", "resume", "stop", "destroy"}
Steps == {"ready", "stt", "open", "install", "opened", "openFailed", "halt", "lock",
          "drain", "discard", "finalize", "sttDetach", "sttJoin", "complete",
          "joinDrain", "gone"}

\* The UI thread is back in its event loop.
Ready == ui.at = "ready"

Idle == At("none", "ready", "mic")

\* The handler goes on at another step.
Goto(at) == ui' = At(ui.op, at, "mic")

\* The microphone feeds the STT stream when selected, else the system output.
FeedsStt(t) == t = "mic" \/ "mic" \notin selected

-----------------------------------------------------------------------------
(* The capture threads.                                                    *)

\* Mutant of Capture: a frame the ring rejects leaves no flag behind.
CaptureUnflagged(t) ==
  /\ stream[t] = "running"
  /\ produced[t] < MaxFrames
  /\ produced' = [produced EXCEPT ![t] = @ + 1]
  /\ LET frame == [take |-> take, id |-> produced[t] + 1, disc |-> t \in pendingDisc]
     IN \/ /\ Len(ring[t]) < RingCapacity
           /\ ring' = [ring EXCEPT ![t] = Append(@, frame)]
           /\ accepted' = [accepted EXCEPT ![t] = Append(@, frame)]
        \/ /\ Len(ring[t]) = RingCapacity
           /\ UNCHANGED <<ring, accepted>>
  /\ UNCHANGED <<coreVars, ui, stream, pendingDisc, take, drainVars, fileVars, uiVars>>

(***************************************************************************)
(* One frame from the device: the sink pushes it, or the ring is full and  *)
(* the backend owes the next delivered frame a discontinuity flag.         *)
(***************************************************************************)
Capture(t) ==
  /\ stream[t] = "running"
  /\ produced[t] < MaxFrames
  /\ produced' = [produced EXCEPT ![t] = @ + 1]
  /\ LET frame == [take |-> take, id |-> produced[t] + 1, disc |-> t \in pendingDisc]
     IN \/ /\ Len(ring[t]) < RingCapacity
           /\ ring' = [ring EXCEPT ![t] = Append(@, frame)]
           /\ accepted' = [accepted EXCEPT ![t] = Append(@, frame)]
           /\ pendingDisc' = pendingDisc \ {t}
        \/ /\ Len(ring[t]) = RingCapacity
           /\ pendingDisc' = pendingDisc \cup {t}
           /\ UNCHANGED <<ring, accepted>>
  /\ UNCHANGED <<coreVars, ui, stream, take, drainVars, fileVars, uiVars>>

-----------------------------------------------------------------------------
(* drainPipelineLocked: run by the drain thread and, at the end of a take, *)
(* by the UI thread.                                                       *)

\* Mutant of DrainFrame: a failed writer ends the upload as well.
DrainFrameTogether(t) ==
  /\ t \in installed
  /\ ring[t] # <<>>
  /\ ring' = [ring EXCEPT ![t] = Tail(@)]
  /\ uploaded' = IF stt = "live" /\ FeedsStt(t) /\ ~writerFailed
                 THEN Append(uploaded, Head(ring[t])) ELSE uploaded
  /\ \/ /\ writer = "none" \/ t \notin writerTracks \/ writerFailed
        /\ UNCHANGED <<writer, writerFailed, written>>
     \/ /\ writer # "none" /\ t \in writerTracks /\ ~writerFailed
        /\ written' = [written EXCEPT ![t] = Append(@, Head(ring[t]))]
        /\ UNCHANGED <<writer, writerFailed>>
     \/ /\ writer # "none" /\ t \in writerTracks /\ ~writerFailed
        /\ writer' = "failed"
        /\ writerFailed' = TRUE
        /\ UNCHANGED written
  /\ UNCHANGED <<writerTracks, disk>>

\* The frame at the head of the ring reaches the STT client and the writer.
DrainFrame(t) ==
  /\ t \in installed
  /\ ring[t] # <<>>
  /\ ring' = [ring EXCEPT ![t] = Tail(@)]
  /\ uploaded' = IF stt = "live" /\ FeedsStt(t)
                 THEN Append(uploaded, Head(ring[t])) ELSE uploaded
  /\ \/ /\ writer = "none" \/ t \notin writerTracks \/ writerFailed
        /\ UNCHANGED <<writer, writerFailed, written>>
     \/ /\ writer # "none" /\ t \in writerTracks /\ ~writerFailed
        /\ written' = [written EXCEPT ![t] = Append(@, Head(ring[t]))]
        /\ UNCHANGED <<writer, writerFailed>>
     \/ /\ writer # "none" /\ t \in writerTracks /\ ~writerFailed
        /\ writer' = "failed"
        /\ writerFailed' = TRUE
        /\ UNCHANGED written
  /\ UNCHANGED <<writerTracks, disk>>

\* Mutant of Drained: one look at the ring is enough.
DrainedEarly(t) == TRUE

\* tryPop() returned nullopt, or the pipeline is empty.
Drained(t) == t \notin installed \/ ring[t] = <<>>

(* The drain thread: drainLoop. *)

DrainLock ==
  /\ drainAt = "idle" /\ ~drainStop
  /\ lock = "none"
  /\ lock' = "drain"
  /\ drainAt' = "mic"
  /\ UNCHANGED <<session, ui, installed, drainStop, stt, uploaded, captureVars, fileVars,
                 uiVars>>

DrainExit ==
  /\ drainAt = "idle" /\ drainStop
  /\ drainAt' = "exited"
  /\ UNCHANGED <<coreVars, ui, drainStop, captureVars, fileVars, uiVars>>

DrainOne(t) ==
  /\ drainAt = t
  /\ DrainFrame(t)
  /\ UNCHANGED <<session, ui, installed, lock, stt, stream, pendingDisc, produced, take,
                 accepted, drainVars, uiVars>>

\* Mutant of DrainNext: the drain thread makes one pass.
DrainOnce ==
  /\ drainAt \in Tracks /\ Drained(drainAt)
  /\ \/ /\ drainAt = "mic"
        /\ drainAt' = "sys"
        /\ UNCHANGED lock
     \/ /\ drainAt = "sys"
        /\ drainAt' = "exited"
        /\ lock' = "none"
  /\ UNCHANGED <<session, ui, installed, drainStop, stt, uploaded, captureVars, fileVars,
                 uiVars>>

\* On to the system output, or out of the critical section.
DrainNext ==
  /\ drainAt \in Tracks /\ Drained(drainAt)
  /\ \/ /\ drainAt = "mic"
        /\ drainAt' = "sys"
        /\ UNCHANGED lock
     \/ /\ drainAt = "sys"
        /\ drainAt' = "idle"
        /\ lock' = "none"
  /\ UNCHANGED <<session, ui, installed, drainStop, stt, uploaded, captureVars, fileVars,
                 uiVars>>

Drain == DrainLock \/ DrainExit \/ DrainNext \/ \E t \in Tracks : DrainOne(t)

-----------------------------------------------------------------------------
(* The user's calls: the first step of each handler.                       *)

\* The device boxes are enabled in the idle state only (Main.qml).
Select ==
  /\ Ready /\ session = "Idle"
  /\ \E s \in SUBSET Tracks : s # selected /\ selected' = s
  /\ UNCHANGED <<coreVars, ui, timer, verdict, error, reported, captureVars, drainVars,
                 fileVars>>

\* No device is selected, or the writer cannot be opened.
StartRefused ==
  /\ Ready /\ session = "Idle"
  /\ \/ /\ selected = {}
        /\ error' = "noDevice"
        /\ UNCHANGED writerTracks
     \/ /\ selected # {}
        /\ error' = "open"
        /\ writerTracks' = selected
  /\ UNCHANGED <<coreVars, ui, selected, timer, verdict, reported, captureVars, drainVars,
                 writer, writerFailed, written, disk>>

(***************************************************************************)
(* createWriter() publishes the open writer under the lock, then the       *)
(* session is recording.  No stream is open, so no other thread can tell   *)
(* the two apart.                                                          *)
(***************************************************************************)
Start ==
  /\ Ready /\ session = "Idle"
  /\ selected # {}
  /\ lock = "none"
  /\ session' = Transition(session, "Start")
  /\ ui' = At("start", "stt", "mic")
  /\ error' = "none"
  /\ writer' = "open"
  /\ writerTracks' = selected
  /\ writerFailed' = FALSE
  /\ reported' = FALSE
  /\ disk' = "partial"
  /\ written' = Empty
  /\ accepted' = Empty
  /\ produced' = [t \in Tracks |-> 0]
  /\ take' = 1
  /\ uploaded' = <<>>
  /\ UNCHANGED <<installed, stream, ring, pendingDisc, lock, stt, selected, timer, verdict,
                 drainVars>>

Pause ==
  /\ Ready /\ Legal(session, "Pause")
  /\ session' = Transition(session, "Pause")
  /\ ui' = At("pause", "halt", "mic")
  /\ UNCHANGED <<installed, lock, stt, uploaded, captureVars, drainVars, fileVars, uiVars>>

Resume ==
  /\ Ready /\ session = "Paused"
  /\ take < MaxTakes
  /\ take' = take + 1
  /\ ui' = At("resume", "open", "mic")
  /\ UNCHANGED <<coreVars, stream, ring, pendingDisc, produced, accepted, drainVars,
                 fileVars, uiVars>>

\* Mutant of Stop: the file is finalized without stopping the streams first.
StopFileFirst ==
  /\ Ready /\ Legal(session, "Stop")
  /\ session' = Transition(session, "Stop")
  /\ ui' = At("stop", "finalize", "mic")
  /\ UNCHANGED <<installed, lock, stt, uploaded, captureVars, drainVars, fileVars, uiVars>>

Stop ==
  /\ Ready /\ Legal(session, "Stop")
  /\ session' = Transition(session, "Stop")
  /\ ui' = At("stop", "halt", "mic")
  /\ UNCHANGED <<installed, lock, stt, uploaded, captureVars, drainVars, fileVars, uiVars>>

\* The application quits: the destructor runs in any session state.
Destroy ==
  /\ Ready
  /\ ui' = At("destroy", "halt", "mic")
  /\ UNCHANGED <<coreVars, captureVars, drainVars, fileVars, uiVars>>

\* The stats timer surfaces a write failure, once.
StatsTick ==
  /\ Ready /\ timer
  /\ writerFailed /\ ~reported
  /\ reported' = TRUE
  /\ error' = "write"
  /\ UNCHANGED <<coreVars, ui, selected, timer, verdict, captureVars, drainVars, fileVars>>

-----------------------------------------------------------------------------
(* startSttStreaming(): no endpoint, no connection, or a live client.      *)

StartStt ==
  /\ ui.at = "stt"
  /\ Goto("open")
  /\ \/ UNCHANGED <<stt, error>>
     \/ error' = "stt" /\ UNCHANGED stt
     \/ lock = "none" /\ stt' = "live" /\ UNCHANGED error
  /\ UNCHANGED <<session, installed, lock, uploaded, selected, timer, verdict, reported,
                 captureVars, drainVars, fileVars>>

(* startStreams(): open each selected device, then publish its pipeline.   *)

AfterTrack(t) ==
  IF t = "mic" THEN ui' = At(ui.op, "open", "sys")
  ELSE Goto(IF selected # {} THEN "opened" ELSE "openFailed")

\* backend_->startCapture: the capture thread runs from here on.
OpenTrack(t) ==
  /\ ui.at = "open" /\ ui.track = t
  /\ \/ /\ t \notin selected
        /\ AfterTrack(t)
        /\ UNCHANGED <<stream, ring, pendingDisc, error>>
     \/ /\ t \in selected
        /\ stream' = [stream EXCEPT ![t] = "running"]
        /\ ring' = [ring EXCEPT ![t] = <<>>]
        /\ pendingDisc' = pendingDisc \ {t}
        /\ ui' = At(ui.op, "install", t)
        /\ UNCHANGED error
     \/ /\ t \in selected
        /\ error' = "capture"
        /\ Goto("openFailed")
        /\ UNCHANGED <<stream, ring, pendingDisc>>
  /\ UNCHANGED <<coreVars, produced, take, accepted, drainVars, fileVars, selected, timer,
                 verdict, reported>>

Install(t) ==
  /\ ui.at = "install" /\ ui.track = t
  /\ lock = "none"
  /\ installed' = installed \cup {t}
  /\ AfterTrack(t)
  /\ UNCHANGED <<session, lock, stt, uploaded, captureVars, drainVars, fileVars, uiVars>>

\* Mutant of Opened: the stats timer is not started.
OpenedUntimed ==
  /\ ui.at = "opened"
  /\ \/ ui.op = "start" /\ UNCHANGED session
     \/ ui.op = "resume" /\ session' = Transition(session, "Resume")
  /\ ui' = Idle
  /\ UNCHANGED <<installed, lock, stt, uploaded, uiVars, captureVars, drainVars, fileVars>>

\* start() and resume() succeeded.
Opened ==
  /\ ui.at = "opened"
  /\ \/ ui.op = "start" /\ timer' = TRUE /\ UNCHANGED session
     \/ ui.op = "resume" /\ session' = Transition(session, "Resume") /\ UNCHANGED timer
  /\ ui' = Idle
  /\ UNCHANGED <<installed, lock, stt, uploaded, selected, verdict, error, reported,
                 captureVars, drainVars, fileVars>>

\* Mutant of OpenFailed: start() forgets the stream it could open.
OpenFailedForget ==
  /\ ui.at = "openFailed"
  /\ \/ ui.op = "start" /\ Goto("discard") /\ UNCHANGED session
     \/ ui.op = "resume" /\ ui' = Idle /\ session' = Transition(session, "Fault")
  /\ UNCHANGED <<installed, lock, stt, uploaded, captureVars, drainVars, fileVars, uiVars>>

\* start() tears down what it opened; resume() only faults the session.
OpenFailed ==
  /\ ui.at = "openFailed"
  /\ \/ ui.op = "start" /\ Goto("halt") /\ UNCHANGED session
     \/ ui.op = "resume" /\ ui' = Idle /\ session' = Transition(session, "Fault")
  /\ UNCHANGED <<installed, lock, stt, uploaded, captureVars, drainVars, fileVars, uiVars>>

-----------------------------------------------------------------------------
(* stopStreams(): stop the producers, then drain and drop the pipelines.   *)

\* stream->stop() returns when the capture thread has been joined.
Halt(t) ==
  /\ ui.at = "halt" /\ ui.track = t
  /\ stream' = IF t \in installed THEN [stream EXCEPT ![t] = "stopped"] ELSE stream
  /\ ui' = IF t = "mic" THEN At(ui.op, "halt", "sys") ELSE At(ui.op, "lock", "mic")
  /\ UNCHANGED <<coreVars, ring, pendingDisc, produced, take, accepted, drainVars, fileVars,
                 uiVars>>

\* Mutant of UiLock: stopStreams() does not take the mutex.
UiLockless ==
  /\ ui.at = "lock"
  /\ lock' = "ui"
  /\ Goto("drain")
  /\ UNCHANGED <<session, installed, stt, uploaded, captureVars, drainVars, fileVars, uiVars>>

UiLock ==
  /\ ui.at = "lock"
  /\ lock = "none"
  /\ lock' = "ui"
  /\ Goto("drain")
  /\ UNCHANGED <<session, installed, stt, uploaded, captureVars, drainVars, fileVars, uiVars>>

UiDrainOne(t) ==
  /\ ui.at = "drain" /\ ui.track = t
  /\ DrainFrame(t)
  /\ UNCHANGED <<session, ui, installed, lock, stt, stream, pendingDisc, produced, take,
                 accepted, drainVars, uiVars>>

UiDrainNext ==
  /\ ui.at = "drain" /\ ui.track = "mic" /\ Drained("mic")
  /\ ui' = At(ui.op, "drain", "sys")
  /\ UNCHANGED <<coreVars, captureVars, drainVars, fileVars, uiVars>>

\* What the handler does once the streams are gone.
AfterStreams ==
  CASE ui.op = "pause"   -> Idle
    [] ui.op = "start"   -> At("start", "discard", "mic")
    [] ui.op = "stop"    -> At("stop", "finalize", "mic")
    [] OTHER             -> At("destroy", "sttDetach", "mic")

\* Both pipelines are reset, and with them the streams and the rings.
DropPipelines ==
  /\ ui.at = "drain" /\ ui.track = "sys" /\ Drained("sys")
  /\ installed' = {}
  /\ stream' = [t \in Tracks |-> "none"]
  /\ ring' = Empty
  /\ lock' = "none"
  /\ ui' = AfterStreams
  /\ UNCHANGED <<session, stt, uploaded, pendingDisc, produced, take, accepted, drainVars,
                 fileVars, uiVars>>

-----------------------------------------------------------------------------
(* discardWriter(), the middle of stop(), and stopSttStreaming().          *)

Discard ==
  /\ ui.at = "discard"
  /\ lock = "none"
  /\ writer' = "none"
  /\ disk' = IF writer # "none" THEN "removed" ELSE disk
  /\ Goto("sttDetach")
  /\ UNCHANGED <<coreVars, writerTracks, writerFailed, written, captureVars, drainVars, uiVars>>

\* Mutant of NothingWritten: the microphone stands for the recording.
NothingWrittenByMic == written["mic"] = <<>>

\* writer_->stats().framesWritten == 0
NothingWritten == \A t \in Tracks : written[t] = <<>>

Finalize ==
  /\ ui.at = "finalize"
  /\ lock = "none"
  /\ timer' = FALSE
  /\ \/ writer = "none" /\ verdict' = "none" /\ UNCHANGED disk
     \/ /\ writer # "none" /\ writerFailed
        /\ verdict' = "interrupted" /\ UNCHANGED disk
     \/ /\ writer # "none" /\ ~writerFailed /\ NothingWritten
        /\ verdict' = "empty" /\ disk' = "removed"
     \/ /\ writer = "open" /\ ~writerFailed /\ ~NothingWritten
        /\ verdict' = "saved" /\ disk' = "final"
     \/ /\ writer # "none" /\ ~writerFailed /\ ~NothingWritten
        /\ verdict' = "finalize" /\ UNCHANGED disk
  /\ writer' = "none"
  /\ Goto("sttDetach")
  /\ UNCHANGED <<coreVars, selected, error, reported, captureVars, drainVars, writerTracks,
                 writerFailed, written>>

\* Mutant of SttDetach: the moved-from client pointer stays behind.
SttDetachMoved ==
  /\ ui.at = "sttDetach"
  /\ lock = "none"
  /\ \/ stt = "live" /\ stt' = "moved" /\ Goto("sttJoin")
     \/ stt = "none" /\ UNCHANGED stt /\ Goto("complete")
  /\ UNCHANGED <<session, installed, lock, uploaded, captureVars, drainVars, fileVars, uiVars>>

\* The client is moved out under the lock, then stopped outside it.
SttDetach ==
  /\ ui.at = "sttDetach"
  /\ lock = "none"
  /\ \/ stt = "live" /\ stt' = "joining" /\ Goto("sttJoin")
     \/ stt = "none" /\ UNCHANGED stt /\ Goto("complete")
  /\ UNCHANGED <<session, installed, lock, uploaded, captureVars, drainVars, fileVars, uiVars>>

\* client->stop() returns when the server has ended the stream.
SttJoin ==
  /\ ui.at = "sttJoin"
  /\ stt' = "none"
  /\ Goto("complete")
  /\ UNCHANGED <<session, installed, lock, uploaded, captureVars, drainVars, fileVars, uiVars>>

\* Mutant of Complete: an empty recording is discarded without a word.
CompleteQuietly ==
  /\ ui.at = "complete"
  /\ \/ /\ ui.op = "start"
        /\ session' = Transition(Transition(session, "Fault"), "Reset")
        /\ ui' = Idle
        /\ UNCHANGED <<drainStop, error, verdict>>
     \/ /\ ui.op = "stop"
        /\ error' = IF verdict \in {"saved", "none", "empty"} THEN error ELSE verdict
        /\ verdict' = "none"
        /\ session' = Transition(Transition(session, "StopComplete"), "Reset")
        /\ ui' = Idle
        /\ UNCHANGED drainStop
     \/ /\ ui.op = "destroy"
        /\ drainStop' = TRUE
        /\ Goto("joinDrain")
        /\ UNCHANGED <<session, error, verdict>>
  /\ UNCHANGED <<installed, lock, stt, uploaded, selected, timer, reported, drainAt,
                 captureVars, fileVars>>

\* Mutant of Complete: stop() ends without the Reset event.
CompleteStopped ==
  /\ ui.at = "complete"
  /\ \/ /\ ui.op = "start"
        /\ session' = Transition(Transition(session, "Fault"), "Reset")
        /\ ui' = Idle
        /\ UNCHANGED <<drainStop, error, verdict>>
     \/ /\ ui.op = "stop"
        /\ error' = IF verdict \in {"saved", "none"} THEN error ELSE verdict
        /\ verdict' = "none"
        /\ session' = Transition(session, "StopComplete")
        /\ ui' = Idle
        /\ UNCHANGED drainStop
     \/ /\ ui.op = "destroy"
        /\ drainStop' = TRUE
        /\ Goto("joinDrain")
        /\ UNCHANGED <<session, error, verdict>>
  /\ UNCHANGED <<installed, lock, stt, uploaded, selected, timer, reported, drainAt,
                 captureVars, fileVars>>

(***************************************************************************)
(* The tail of the handler: a failed start() goes through Fault and Reset, *)
(* stop() surfaces its verdict and goes through StopComplete and Reset,    *)
(* the destructor asks the drain thread to exit.                           *)
(***************************************************************************)
Complete ==
  /\ ui.at = "complete"
  /\ \/ /\ ui.op = "start"
        /\ session' = Transition(Transition(session, "Fault"), "Reset")
        /\ ui' = Idle
        /\ UNCHANGED <<drainStop, error, verdict>>
     \/ /\ ui.op = "stop"
        /\ error' = IF verdict \in {"saved", "none"} THEN error ELSE verdict
        /\ verdict' = "none"
        /\ session' = Transition(Transition(session, "StopComplete"), "Reset")
        /\ ui' = Idle
        /\ UNCHANGED drainStop
     \/ /\ ui.op = "destroy"
        /\ drainStop' = TRUE
        /\ Goto("joinDrain")
        /\ UNCHANGED <<session, error, verdict>>
  /\ UNCHANGED <<installed, lock, stt, uploaded, selected, timer, reported, drainAt,
                 captureVars, fileVars>>

\* Mutant of JoinDrain: the drain thread is detached.
DetachDrain ==
  /\ ui.at = "joinDrain"
  /\ writer' = "none"
  /\ timer' = FALSE
  /\ Goto("gone")
  /\ UNCHANGED <<coreVars, selected, verdict, error, reported, captureVars, drainVars,
                 writerTracks, writerFailed, written, disk>>

\* The members die once the thread is joined; ~Writer only closes its file.
JoinDrain ==
  /\ ui.at = "joinDrain"
  /\ drainAt = "exited"
  /\ writer' = "none"
  /\ timer' = FALSE
  /\ Goto("gone")
  /\ UNCHANGED <<coreVars, selected, verdict, error, reported, captureVars, drainVars,
                 writerTracks, writerFailed, written, disk>>

-----------------------------------------------------------------------------
User == Select \/ StartRefused \/ Start \/ Pause \/ Resume \/ Stop \/ Destroy

\* The steps a handler takes once it has begun.
Handler ==
  \/ StartStt \/ Opened \/ OpenFailed \/ UiLock \/ UiDrainNext \/ DropPipelines
  \/ Discard \/ Finalize \/ SttDetach \/ Complete \/ JoinDrain
  \/ \E t \in Tracks : OpenTrack(t) \/ Install(t) \/ Halt(t) \/ UiDrainOne(t)

Init ==
  /\ session = "Idle"
  /\ ui = Idle
  /\ selected = {}
  /\ stream = [t \in Tracks |-> "none"]
  /\ installed = {}
  /\ ring = Empty
  /\ pendingDisc = {}
  /\ produced = [t \in Tracks |-> 0]
  /\ take = 0
  /\ lock = "none"
  /\ drainAt = "idle" /\ drainStop = FALSE
  /\ writer = "none" /\ writerTracks = {} /\ writerFailed = FALSE /\ reported = FALSE
  /\ written = Empty /\ disk = "none"
  /\ stt = "none" /\ uploaded = <<>>
  /\ timer = FALSE /\ verdict = "none" /\ error = "none"
  /\ accepted = Empty

Next ==
  \/ User \/ StatsTick \/ Handler \/ SttJoin \/ Drain
  \/ \E t \in Tracks : Capture(t)

Spec == Init /\ [][Next]_vars

(***************************************************************************)
(* Fairness.  A handler that has begun runs on, the drain thread loops and *)
(* the stats timer fires.  Strong fairness of the handler is fairness of   *)
(* pipelineMutex_: the drain thread sleeps between empty passes, so the UI *)
(* thread does get the mutex.  SttEnds is about the peer, not this code:   *)
(* the server ends the stream.  Users and devices owe nothing.             *)
(***************************************************************************)
Fairness == SF_vars(Handler) /\ WF_vars(Drain) /\ WF_vars(StatsTick)

SttEnds == WF_vars(SttJoin)

FairSpec == Spec /\ Fairness /\ SttEnds

-----------------------------------------------------------------------------
(* Properties                                                              *)

Errors == {"none", "noDevice", "open", "stt", "capture", "write"}
Verdicts == {"none", "saved", "interrupted", "empty", "finalize"}

CoreTypes ==
  /\ session \in SessionStates
  /\ ui \in [op : Ops, at : Steps, track : Tracks]
  /\ installed \in SUBSET Tracks
  /\ lock \in {"none", "ui", "drain"}
  /\ stt \in {"none", "live", "joining"}
  /\ uploaded \in Seq(Frames)

CaptureTypes ==
  /\ stream \in [Tracks -> {"none", "running", "stopped"}]
  /\ ring \in [Tracks -> Seq(Frames)]
  /\ pendingDisc \in SUBSET Tracks
  /\ produced \in [Tracks -> Nat]
  /\ take \in Nat
  /\ accepted \in [Tracks -> Seq(Frames)]

DrainTypes ==
  /\ drainAt \in Tracks \cup {"idle", "exited"}
  /\ drainStop \in BOOLEAN

FileTypes ==
  /\ writer \in {"none", "open", "failed"}
  /\ writerTracks \in SUBSET Tracks
  /\ writerFailed \in BOOLEAN
  /\ written \in [Tracks -> Seq(Frames)]
  /\ disk \in {"none", "partial", "final", "removed"}

UiTypes ==
  /\ selected \in SUBSET Tracks
  /\ timer \in BOOLEAN
  /\ verdict \in Verdicts
  /\ error \in Errors \cup Verdicts
  /\ reported \in BOOLEAN

\* Every variable has its type.
TypeOK == CoreTypes /\ CaptureTypes /\ DrainTypes /\ FileTypes /\ UiTypes

(***************************************************************************)
(* "Silent loss is prohibited": as long as the writer works, a frame the   *)
(* ring accepted is in the file or still in the ring, in capture order and *)
(* once.  Pauses, resumes and failed starts tear rings down while both the *)
(* drain thread and the UI thread empty them: stopStreams() must not drop  *)
(* a ring that still holds audio.                                          *)
(***************************************************************************)
NoSilentLoss ==
  writer # "none" /\ ~writerFailed =>
    \A t \in writerTracks : accepted[t] = written[t] \o ring[t]

(***************************************************************************)
(* stop() gives the file its final name only when it holds all the audio   *)
(* of every recorded track, with no producer left that could add more and  *)
(* no write failure behind it.                                             *)
(***************************************************************************)
FinalFileIsComplete ==
  [][disk' = "final" /\ disk # "final" =>
       /\ ~writerFailed
       /\ \A t \in writerTracks : written[t] = accepted[t]
       /\ \A t \in Tracks : stream[t] = "none"]_vars

(***************************************************************************)
(* Recorded data is never deleted implicitly (the writer's contract): a    *)
(* file that holds audio is removed only by the cleanup of a start() that  *)
(* failed, never by stop(), a write failure, a fault or a shutdown.        *)
(***************************************************************************)
AudioIsNeverDeleted ==
  [][disk' = "removed" /\ disk # "removed" =>
       ui.op = "start" \/ \A t \in Tracks : written[t] = <<>>]_vars

(***************************************************************************)
(* A recording that did not end in a saved file has told the user so: in   *)
(* the idle state the error shown is never empty while the last file is a  *)
(* partial one or was discarded.                                           *)
(***************************************************************************)
LossIsReported ==
  Ready /\ session = "Idle" /\ disk \in {"partial", "removed"} => error # "none"

(***************************************************************************)
(* "Pause releases the devices", and a recorder that is idle again holds   *)
(* nothing of the previous recording: no stream, pipeline, writer, STT     *)
(* client or running timer, on every path that leads there.                *)
(***************************************************************************)
RestReleasesEverything ==
  Ready =>
    /\ session \in {"Idle", "Paused"} =>
         \A t \in Tracks : stream[t] = "none" /\ t \notin installed
    /\ session = "Idle" => writer = "none" /\ stt = "none" /\ ~timer

\* Frames lost between two neighbours of one take leave a flag on the second.
GapsFlagged(frames) ==
  \A i \in 2 .. Len(frames) :
    LET a == frames[i - 1]
        b == frames[i]
    IN a.take = b.take /\ b.id # a.id + 1 => b.disc

(***************************************************************************)
(* A frame that "does not butt seamlessly against the previous sequence    *)
(* number on its track" says so (frame.hpp): what a full ring rejected is  *)
(* a discontinuity in the recorded and the uploaded audio, whoever drained *)
(* it.                                                                     *)
(***************************************************************************)
DropsAreFlagged ==
  /\ \A t \in Tracks : GapsFlagged(written[t])
  /\ GapsFlagged(uploaded)

(***************************************************************************)
(* Transcription does not depend on the disk: while the client is live     *)
(* every frame the source track's ring accepted has been handed to it or   *)
(* is still in the ring, even after the writer failed.                     *)
(***************************************************************************)
SttSourceTracks == {t \in Tracks : FeedsStt(t) /\ t \in selected}

UploadIsComplete ==
  stt = "live" => \A t \in SttSourceTracks : accepted[t] = uploaded \o ring[t]

(***************************************************************************)
(* A pipeline (ring, sink, synchronizer) is destroyed by the UI thread     *)
(* only when the drain thread is not inside it and its capture thread has  *)
(* been joined.                                                            *)
(***************************************************************************)
PipelinesOutliveTheirUsers ==
  [][\A t \in Tracks : t \in installed /\ t \notin installed' =>
       drainAt \notin Tracks /\ stream[t] = "stopped"]_vars

(***************************************************************************)
(* When the controller's members die, no thread of its own is left to      *)
(* touch them: the drain thread has exited, no capture thread runs and the *)
(* STT reader has been joined.                                             *)
(***************************************************************************)
ShutdownJoinsEveryThread ==
  ui.at = "gone" =>
    /\ drainAt = "exited"
    /\ stt = "none"
    /\ \A t \in Tracks : stream[t] # "running"

(***************************************************************************)
(* Every frame a ring accepted is written, or the failure of the writer is *)
(* "surfaced once on the UI thread", by the stats timer or by the handler  *)
(* that ends the recording, or the recording ends: audio never stays in a  *)
(* ring for ever, nor does the loss of it stay unsaid.                     *)
(***************************************************************************)
WrittenOrReported ==
  \A t \in Tracks : \A n \in 1 .. MaxFrames :
    (writer = "open" /\ t \in writerTracks /\ Len(accepted[t]) >= n)
      ~> (writer = "none" \/ reported \/ Len(written[t]) >= n)

(***************************************************************************)
(* stop() comes back to the idle state whatever the drain thread and the   *)
(* writer do, provided the STT server ends its stream.                     *)
(***************************************************************************)
StopCompletes == session = "Stopping" ~> session = "Idle"

(***************************************************************************)
(* The recording indicator is "visible while capturing" (Main.qml):        *)
(* between two handlers a capture stream runs only in the recording state. *)
(***************************************************************************)
IndicatorShowsCapture ==
  Ready => \A t \in Tracks : stream[t] = "running" => session = "Recording"

=============================================================================
