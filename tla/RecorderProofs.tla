--------------------------- MODULE RecorderProofs ---------------------------
(***************************************************************************)
(* Theorems about Recorder for every ring capacity, every number of frames *)
(* and every number of takes.                                              *)
(*                                                                         *)
(* The safety properties are not inductive: they speak of what is in a     *)
(* ring or a file, and hold because of where the UI thread is in its       *)
(* handler, which session state goes with it, and who holds the mutex.     *)
(* IInv collects those facts.                                              *)
(***************************************************************************)
EXTENDS Recorder, SequenceTheorems, TLAPS

\* Handler steps at which no pipeline is published and no stream open.
Released == {"stt", "discard", "finalize", "sttDetach", "sttJoin", "complete",
             "joinDrain", "gone"}

\* Handler steps of stopStreams().
Stopping == {"halt", "lock", "drain"}

\* The mutex is held exactly where the code holds it across steps.
LockInv ==
  /\ lock = "drain" <=> drainAt \in Tracks
  /\ lock = "ui" <=> ui.at = "drain"

\* Each step belongs to the handlers that contain it.
StepInv ==
  /\ Ready <=> ui.op = "none"
  /\ ui.at \in {"stt", "discard"} => ui.op = "start"
  /\ ui.at \in {"open", "install", "opened", "openFailed"} => ui.op \in {"start", "resume"}
  /\ ui.at \in Stopping => ui.op \in {"start", "pause", "stop", "destroy"}
  /\ ui.at = "finalize" => ui.op = "stop"
  /\ ui.at \in {"sttDetach", "sttJoin", "complete"} => ui.op \in {"start", "stop", "destroy"}
  /\ ui.at \in {"joinDrain", "gone"} => ui.op = "destroy"

\* The session state in which each handler runs.
SessionInv ==
  /\ Ready => session \in {"Idle", "Recording", "Paused", "Failed"}
  /\ ui.op = "start" => session = "Recording"
  /\ ui.op \in {"pause", "resume"} => session = "Paused"
  /\ ui.op = "stop" => session = "Stopping"

\* The UI thread's knowledge that a track's pipeline does not exist.
Absent(t) ==
  \/ ui.at \in Released
  \/ Ready /\ session \in {"Idle", "Paused"}
  \/ ui.at = "open" /\ (ui.track = t \/ t = "sys")
  \/ ui.at = "install" /\ (ui.track = t \/ t = "sys")

\* A capture stream and a ring only exist in a pipeline, published or about to be.
PipelineInv ==
  \A t \in Tracks :
    /\ Absent(t) => t \notin installed
    /\ t \notin installed /\ ~(ui.at = "install" /\ ui.track = t) =>
         stream[t] = "none" /\ ring[t] = <<>>

\* stopStreams() has joined the producers before it drains their rings.
HaltInv ==
  /\ ui.at = "halt" /\ ui.track = "sys" => stream["mic"] # "running"
  /\ ui.at \in {"lock", "drain"} =>
       \A t \in Tracks : stream[t] # "running" /\ (t \in installed => stream[t] = "stopped")
  /\ ui.at = "halt" /\ ui.track = "sys" => ("mic" \in installed => stream["mic"] = "stopped")
  /\ ui.at = "drain" /\ ui.track = "sys" => ring["mic"] = <<>>

\* The writer, the STT client and the timer end with the recording.
ResourceInv ==
  /\ writer = "failed" => writerFailed
  /\ Ready /\ session = "Idle" => writer = "none" /\ stt = "none" /\ ~timer
  /\ ui.at \in {"sttDetach", "sttJoin", "complete"} /\ ui.op # "destroy" => writer = "none"
  /\ ui.op = "start" => ~timer
  /\ ui.op = "stop" /\ ui.at \in {"sttDetach", "sttJoin", "complete"} => ~timer
  /\ ui.at = "stt" => stt = "none"
  /\ stt = "joining" <=> ui.at = "sttJoin"
  /\ ui.at \in {"complete", "joinDrain", "gone"} => stt = "none"
  /\ ui.at = "gone" => drainAt = "exited"
  /\ drainAt = "exited" => drainStop

IInv ==
  /\ TypeOK /\ LockInv /\ StepInv /\ SessionInv /\ PipelineInv /\ HaltInv /\ ResourceInv
  /\ NoSilentLoss

-----------------------------------------------------------------------------
(* Types                                                                   *)

\* Every event leads to a session state.
LEMMA TransitionType ==
  ASSUME NEW s \in SessionStates, NEW e \in SessionEvents
  PROVE  Transition(s, e) \in SessionStates
BY DEF Transition, Legal, Sources, Target, SessionStates, SessionEvents, Terminal

\* A group of variables that a step leaves alone keeps its types.
LEMMA TypesUnchanged ==
  /\ CaptureTypes /\ UNCHANGED captureVars => CaptureTypes'
  /\ DrainTypes /\ UNCHANGED drainVars => DrainTypes'
  /\ FileTypes /\ UNCHANGED fileVars => FileTypes'
  /\ UiTypes /\ UNCHANGED uiVars => UiTypes'
<1>1. CaptureTypes /\ UNCHANGED captureVars => CaptureTypes'
  BY DEF CaptureTypes, captureVars
<1>2. DrainTypes /\ UNCHANGED drainVars => DrainTypes'
  BY DEF DrainTypes, drainVars
<1>3. FileTypes /\ UNCHANGED fileVars => FileTypes'
  BY DEF FileTypes, fileVars
<1>4. UiTypes /\ UNCHANGED uiVars => UiTypes'
  BY DEF UiTypes, uiVars
<1> QED
  BY <1>1, <1>2, <1>3, <1>4

\* Moving a frame out of a ring keeps every type.
LEMMA DrainFrameType ==
  ASSUME TypeOK, NEW t \in Tracks, DrainFrame(t)
  PROVE  /\ ring' \in [Tracks -> Seq(Frames)]
         /\ uploaded' \in Seq(Frames)
         /\ FileTypes'
<1>1. ring \in [Tracks -> Seq(Frames)] /\ ring[t] \in Seq(Frames) /\ ring[t] # <<>>
  BY DEF TypeOK, CaptureTypes, DrainFrame
<1>2. Head(ring[t]) \in Frames /\ Tail(ring[t]) \in Seq(Frames)
  BY <1>1
<1>3. ring' \in [Tracks -> Seq(Frames)]
  BY <1>1, <1>2 DEF DrainFrame
<1>4. uploaded' \in Seq(Frames)
  <2>1. uploaded \in Seq(Frames)
    BY DEF TypeOK, CoreTypes
  <2> QED
    BY <2>1, <1>2 DEF DrainFrame
<1>5. FileTypes'
  <2>1. FileTypes
    BY DEF TypeOK
  <2>2. Append(written[t], Head(ring[t])) \in Seq(Frames)
    BY <2>1, <1>2 DEF FileTypes
  <2> QED
    BY <2>1, <2>2 DEF FileTypes, DrainFrame
<1> QED
  BY <1>3, <1>4, <1>5

\* A frame from the device keeps every type.
LEMMA CaptureType ==
  ASSUME TypeOK, NEW t \in Tracks, Capture(t)
  PROVE  TypeOK'
<1> DEFINE frame == [take |-> take, id |-> produced[t] + 1, disc |-> t \in pendingDisc]
<1>1. CaptureTypes
  BY DEF TypeOK
<1>2. frame \in Frames
  <2>1. take \in Nat /\ produced[t] + 1 \in Nat
    BY <1>1 DEF CaptureTypes
  <2> QED
    BY <2>1 DEF Frames
<1>3. Append(ring[t], frame) \in Seq(Frames) /\ Append(accepted[t], frame) \in Seq(Frames)
  BY <1>1, <1>2 DEF CaptureTypes
<1>4. \/ /\ ring' = [ring EXCEPT ![t] = Append(@, frame)]
         /\ accepted' = [accepted EXCEPT ![t] = Append(@, frame)]
      \/ UNCHANGED <<ring, accepted>>
  BY DEF Capture
<1>5. ring' \in [Tracks -> Seq(Frames)] /\ accepted' \in [Tracks -> Seq(Frames)]
  <2> HIDE DEF frame
  <2> QED
    BY <1>1, <1>3, <1>4 DEF CaptureTypes
<1>6. /\ pendingDisc' \in SUBSET Tracks
      /\ produced' \in [Tracks -> Nat]
      /\ UNCHANGED <<stream, take>>
  BY <1>1 DEF CaptureTypes, Capture
<1>7. CaptureTypes'
  BY <1>1, <1>5, <1>6 DEF CaptureTypes
<1>8. CoreTypes' /\ DrainTypes' /\ FileTypes' /\ UiTypes'
  <2>1. UNCHANGED <<coreVars, ui, drainVars, fileVars, uiVars>>
    BY DEF Capture
  <2> QED
    BY <2>1, TypesUnchanged DEF TypeOK, CoreTypes, coreVars
<1> QED
  BY <1>7, <1>8 DEF TypeOK

\* Every step keeps every type.
LEMMA TypeNext == TypeOK /\ [Next]_vars => TypeOK'
<1> SUFFICES ASSUME TypeOK, [Next]_vars PROVE TypeOK'
  OBVIOUS
<1> USE TypesUnchanged, TransitionType DEF TypeOK, coreVars
<1>1. CASE User
  <2> USE DEF At, Ops, Steps, Tracks, SessionEvents
  <2>1. CASE Select
    BY <2>1 DEF Select, CoreTypes, UiTypes
  <2>2. CASE StartRefused
    <3>1. UiTypes'
      BY <2>2 DEF StartRefused, UiTypes, Errors
    <3>2. FileTypes'
      BY <2>2 DEF StartRefused, UiTypes, FileTypes
    <3> QED
      BY <2>2, <3>1, <3>2 DEF StartRefused, CoreTypes
  <2>3. CASE Start
    <3>1. CoreTypes'
      BY <2>3 DEF Start, CoreTypes
    <3>2. CaptureTypes'
      BY <2>3 DEF Start, CaptureTypes, Empty
    <3>3. FileTypes'
      <4>1. written' \in [Tracks -> Seq(Frames)]
        BY <2>3 DEF Start, Empty
      <4>2. writerFailed' \in BOOLEAN
        BY <2>3 DEF Start
      <4> QED
        BY <2>3, <4>1, <4>2 DEF Start, FileTypes, UiTypes
    <3>4. UiTypes'
      BY <2>3 DEF Start, UiTypes, Errors
    <3> QED
      BY <2>3, <3>1, <3>2, <3>3, <3>4 DEF Start
  <2>4. CASE Pause
    BY <2>4 DEF Pause, CoreTypes
  <2>5. CASE Resume
    <3>1. CaptureTypes'
      BY <2>5 DEF Resume, CaptureTypes
    <3> QED
      BY <2>5, <3>1 DEF Resume, CoreTypes
  <2>6. CASE Stop
    BY <2>6 DEF Stop, CoreTypes
  <2>7. CASE Destroy
    BY <2>7 DEF Destroy, CoreTypes
  <2> QED
    BY <1>1, <2>1, <2>2, <2>3, <2>4, <2>5, <2>6, <2>7 DEF User
<1>2. CASE StatsTick
  BY <1>2 DEF StatsTick, CoreTypes, UiTypes, Errors
<1>3. CASE SttJoin
  BY <1>3 DEF SttJoin, CoreTypes, Goto, At, Steps, Tracks
<1>4. CASE Drain
  <2>1. CASE DrainLock
    BY <2>1 DEF DrainLock, CoreTypes, DrainTypes, Tracks
  <2>2. CASE DrainExit
    BY <2>2 DEF DrainExit, CoreTypes, DrainTypes
  <2>3. CASE DrainNext
    BY <2>3 DEF DrainNext, CoreTypes, DrainTypes, Tracks
  <2>4. ASSUME NEW t \in Tracks, DrainOne(t) PROVE TypeOK'
    <3>1. CaptureTypes'
      BY <2>4, DrainFrameType DEF DrainOne, CaptureTypes
    <3>2. FileTypes'
      BY <2>4, DrainFrameType DEF DrainOne
    <3>3. CoreTypes'
      BY <2>4, DrainFrameType DEF DrainOne, CoreTypes
    <3> QED
      BY <2>4, <3>1, <3>2, <3>3 DEF DrainOne
  <2> QED
    BY <1>4, <2>1, <2>2, <2>3, <2>4 DEF Drain
<1>5. ASSUME NEW t \in Tracks, Capture(t) PROVE TypeOK'
  BY <1>5, CaptureType
<1>6. CASE Handler
  <2> USE DEF At, Goto, Idle, Ops, Steps, Tracks, SessionEvents
  <2>1. CASE StartStt
    <3>1. CoreTypes' /\ UiTypes'
      BY <2>1 DEF StartStt, CoreTypes, UiTypes, Errors
    <3> QED
      BY <2>1, <3>1 DEF StartStt
  <2>2. CASE Opened
    <3>1. CoreTypes'
      BY <2>2 DEF Opened, CoreTypes
    <3>2. UiTypes'
      BY <2>2 DEF Opened, UiTypes
    <3> QED
      BY <2>2, <3>1, <3>2 DEF Opened
  <2>3. CASE OpenFailed
    BY <2>3 DEF OpenFailed, CoreTypes
  <2>4. CASE UiLock
    BY <2>4 DEF UiLock, CoreTypes
  <2>5. CASE UiDrainNext
    BY <2>5 DEF UiDrainNext, CoreTypes
  <2>6. CASE DropPipelines
    <3>1. CoreTypes'
      BY <2>6 DEF DropPipelines, AfterStreams, CoreTypes
    <3>2. CaptureTypes'
      BY <2>6 DEF DropPipelines, CaptureTypes, Empty
    <3> QED
      BY <2>6, <3>1, <3>2 DEF DropPipelines
  <2>7. CASE Discard
    <3>1. CoreTypes'
      BY <2>7 DEF Discard, CoreTypes
    <3>2. FileTypes'
      BY <2>7 DEF Discard, FileTypes
    <3> QED
      BY <2>7, <3>1, <3>2 DEF Discard
  <2>8. CASE Finalize
    <3>1. CoreTypes'
      BY <2>8 DEF Finalize, CoreTypes
    <3>2. FileTypes'
      BY <2>8 DEF Finalize, FileTypes
    <3>3. UiTypes'
      BY <2>8 DEF Finalize, UiTypes, Verdicts
    <3> QED
      BY <2>8, <3>1, <3>2, <3>3 DEF Finalize
  <2>9. CASE SttDetach
    BY <2>9 DEF SttDetach, CoreTypes
  <2>10. CASE Complete
    <3>1. Transition(Transition(session, "Fault"), "Reset") \in SessionStates
      BY DEF CoreTypes
    <3>2. Transition(Transition(session, "StopComplete"), "Reset") \in SessionStates
      BY DEF CoreTypes
    <3>3. CoreTypes'
      BY <2>10, <3>1, <3>2 DEF Complete, CoreTypes
    <3>4. UiTypes'
      BY <2>10 DEF Complete, UiTypes, Verdicts
    <3>5. DrainTypes'
      BY <2>10 DEF Complete, DrainTypes
    <3> QED
      BY <2>10, <3>3, <3>4, <3>5 DEF Complete
  <2>11. CASE JoinDrain
    <3>1. CoreTypes'
      BY <2>11 DEF JoinDrain, CoreTypes
    <3>2. FileTypes' /\ UiTypes'
      BY <2>11 DEF JoinDrain, FileTypes, UiTypes
    <3> QED
      BY <2>11, <3>1, <3>2 DEF JoinDrain
  <2>12. ASSUME NEW t \in Tracks, OpenTrack(t) PROVE TypeOK'
    <3>1. CoreTypes'
      BY <2>12 DEF OpenTrack, AfterTrack, CoreTypes
    <3>2. stream' \in [Tracks -> {"none", "running", "stopped"}]
      BY <2>12 DEF OpenTrack, CaptureTypes
    <3>3. ring' \in [Tracks -> Seq(Frames)] /\ pendingDisc' \in SUBSET Tracks
      <4>1. <<>> \in Seq(Frames)
        OBVIOUS
      <4>2. ring' \in [Tracks -> Seq(Frames)]
        <5>1. ring \in [Tracks -> Seq(Frames)]
          BY DEF CaptureTypes
        <5>2. ring' = [ring EXCEPT ![t] = <<>>] \/ UNCHANGED ring
          BY <2>12 DEF OpenTrack
        <5> HIDE DEF TypeOK
        <5> QED
          BY <4>1, <5>1, <5>2
      <4>3. pendingDisc' \in SUBSET Tracks
        BY <2>12 DEF OpenTrack, CaptureTypes
      <4> QED
        BY <4>2, <4>3
    <3>4. CaptureTypes'
      BY <2>12, <3>2, <3>3 DEF OpenTrack, CaptureTypes
    <3>5. UiTypes'
      BY <2>12 DEF OpenTrack, UiTypes, Errors
    <3> QED
      BY <2>12, <3>1, <3>4, <3>5 DEF OpenTrack
  <2>13. ASSUME NEW t \in Tracks, Install(t) PROVE TypeOK'
    BY <2>13 DEF Install, AfterTrack, CoreTypes
  <2>14. ASSUME NEW t \in Tracks, Halt(t) PROVE TypeOK'
    <3>1. CoreTypes'
      BY <2>14 DEF Halt, CoreTypes
    <3>2. CaptureTypes'
      BY <2>14 DEF Halt, CaptureTypes
    <3> QED
      BY <2>14, <3>1, <3>2 DEF Halt
  <2>15. ASSUME NEW t \in Tracks, UiDrainOne(t) PROVE TypeOK'
    <3>1. CaptureTypes'
      BY <2>15, DrainFrameType DEF UiDrainOne, CaptureTypes
    <3>2. FileTypes'
      BY <2>15, DrainFrameType DEF UiDrainOne
    <3>3. CoreTypes'
      BY <2>15, DrainFrameType DEF UiDrainOne, CoreTypes
    <3> QED
      BY <2>15, <3>1, <3>2, <3>3 DEF UiDrainOne
  <2> QED
    BY <1>6, <2>1, <2>2, <2>3, <2>4, <2>5, <2>6, <2>7, <2>8, <2>9, <2>10, <2>11,
       <2>12, <2>13, <2>14, <2>15 DEF Handler
<1>7. CASE UNCHANGED vars
  BY <1>7 DEF vars, CoreTypes, captureVars, drainVars, fileVars, uiVars
<1> QED
  BY <1>1, <1>2, <1>3, <1>4, <1>5, <1>6, <1>7 DEF Next

\* The initial state has the declared types.
LEMMA InitTypes ==
  ASSUME Init
  PROVE  TypeOK
<1>1. CoreTypes
  BY DEF Init, CoreTypes, Idle, At, SessionStates, Ops, Steps, Tracks
<1>2. CaptureTypes
  BY DEF Init, CaptureTypes, Empty
<1>3. DrainTypes
  BY DEF Init, DrainTypes
<1>4. FileTypes
  <2>1. written \in [Tracks -> Seq(Frames)]
    BY DEF Init, Empty
  <2>2. writerFailed \in BOOLEAN
    BY DEF Init
  <2> QED
    BY <2>1, <2>2 DEF Init, FileTypes
<1>5. UiTypes
  BY DEF Init, UiTypes, Verdicts, Errors
<1> QED
  BY <1>1, <1>2, <1>3, <1>4, <1>5 DEF TypeOK

\* Every variable keeps its type in every behaviour.
THEOREM TypeCorrect == Spec => []TypeOK
<1>1. Init => TypeOK
  BY InitTypes
<1> QED
  BY <1>1, TypeNext, PTL DEF Spec

-----------------------------------------------------------------------------
(* Where the UI thread is, which session state that is, who has the mutex. *)

\* Locks, handler steps and session states move together.
LEMMA ControlNext ==
  ASSUME TypeOK, LockInv, StepInv, SessionInv, [Next]_vars
  PROVE  LockInv' /\ StepInv' /\ SessionInv'
<1> USE DEF TypeOK, CoreTypes, DrainTypes, coreVars, drainVars, Ready, Idle, At, Goto, Ops, Steps, Tracks,
          Stopping, SessionStates, Terminal
<1>1. CASE Select
  BY <1>1 DEF Select, LockInv, StepInv, SessionInv
<1>2. CASE StartRefused
  BY <1>2 DEF StartRefused, LockInv, StepInv, SessionInv
<1>3. CASE Start
  BY <1>3 DEF Start, Transition, Legal, Sources, Target, LockInv, StepInv, SessionInv
<1>4. CASE Pause
  BY <1>4 DEF Pause, Transition, Legal, Sources, Target, LockInv, StepInv, SessionInv
<1>5. CASE Resume
  BY <1>5 DEF Resume, LockInv, StepInv, SessionInv
<1>6. CASE Stop
  BY <1>6 DEF Stop, Transition, Legal, Sources, Target, LockInv, StepInv, SessionInv
<1>7. CASE Destroy
  BY <1>7 DEF Destroy, LockInv, StepInv, SessionInv
<1>8. CASE StatsTick
  BY <1>8 DEF StatsTick, LockInv, StepInv, SessionInv
<1>9. CASE SttJoin
  BY <1>9 DEF SttJoin, LockInv, StepInv, SessionInv
<1>10. CASE DrainLock
  BY <1>10 DEF DrainLock, LockInv, StepInv, SessionInv
<1>11. CASE DrainExit
  BY <1>11 DEF DrainExit, LockInv, StepInv, SessionInv
<1>12. CASE DrainNext
  BY <1>12 DEF DrainNext, LockInv, StepInv, SessionInv
<1>13. CASE StartStt
  BY <1>13 DEF StartStt, LockInv, StepInv, SessionInv
<1>14. CASE Opened
  BY <1>14 DEF Opened, Transition, Legal, Sources, Target, LockInv, StepInv, SessionInv
<1>15. CASE OpenFailed
  BY <1>15 DEF OpenFailed, Transition, Legal, Sources, Target, LockInv, StepInv, SessionInv
<1>16. CASE UiLock
  BY <1>16 DEF UiLock, LockInv, StepInv, SessionInv
<1>17. CASE UiDrainNext
  BY <1>17 DEF UiDrainNext, LockInv, StepInv, SessionInv
<1>18. CASE DropPipelines
  BY <1>18 DEF DropPipelines, AfterStreams, LockInv, StepInv, SessionInv
<1>19. CASE Discard
  BY <1>19 DEF Discard, LockInv, StepInv, SessionInv
<1>20. CASE Finalize
  BY <1>20 DEF Finalize, LockInv, StepInv, SessionInv
<1>21. CASE SttDetach
  BY <1>21 DEF SttDetach, LockInv, StepInv, SessionInv
<1>22. CASE Complete
  BY <1>22 DEF Complete, Transition, Legal, Sources, Target, LockInv, StepInv, SessionInv
<1>23. CASE JoinDrain
  BY <1>23 DEF JoinDrain, LockInv, StepInv, SessionInv
<1>24. ASSUME NEW t \in Tracks, DrainOne(t) PROVE LockInv' /\ StepInv' /\ SessionInv'
  BY <1>24 DEF DrainOne, DrainFrame, LockInv, StepInv, SessionInv
<1>25. ASSUME NEW t \in Tracks, Capture(t) PROVE LockInv' /\ StepInv' /\ SessionInv'
  BY <1>25 DEF Capture, LockInv, StepInv, SessionInv
<1>26. ASSUME NEW t \in Tracks, OpenTrack(t) PROVE LockInv' /\ StepInv' /\ SessionInv'
  BY <1>26 DEF OpenTrack, AfterTrack, LockInv, StepInv, SessionInv
<1>27. ASSUME NEW t \in Tracks, Install(t) PROVE LockInv' /\ StepInv' /\ SessionInv'
  BY <1>27 DEF Install, AfterTrack, LockInv, StepInv, SessionInv
<1>28. ASSUME NEW t \in Tracks, Halt(t) PROVE LockInv' /\ StepInv' /\ SessionInv'
  BY <1>28 DEF Halt, LockInv, StepInv, SessionInv
<1>29. ASSUME NEW t \in Tracks, UiDrainOne(t) PROVE LockInv' /\ StepInv' /\ SessionInv'
  BY <1>29 DEF UiDrainOne, DrainFrame, LockInv, StepInv, SessionInv
<1>30. CASE UNCHANGED vars
  BY <1>30 DEF vars, LockInv, StepInv, SessionInv
<1> QED
  BY <1>1, <1>2, <1>3, <1>4, <1>5, <1>6, <1>7, <1>8, <1>9, <1>10, <1>11, <1>12, <1>13,
     <1>14, <1>15, <1>16, <1>17, <1>18, <1>19, <1>20, <1>21, <1>22, <1>23, <1>24, <1>25,
     <1>26, <1>27, <1>28, <1>29, <1>30 DEF Next, User, Handler, Drain

\* Streams and rings live in pipelines, and are drained after their producers.
LEMMA PipelineNext ==
  ASSUME TypeOK, LockInv, StepInv, SessionInv, PipelineInv, HaltInv, [Next]_vars
  PROVE  PipelineInv' /\ HaltInv'
<1> USE DEF coreVars, captureVars, drainVars, fileVars, uiVars, Ready, Idle, At, Goto,
          Tracks, Stopping, Released, Absent, Terminal, SessionStates
<1>1. CASE Select
  BY <1>1 DEF Select, TypeOK, CoreTypes, CaptureTypes, StepInv, SessionInv, PipelineInv, HaltInv
<1>2. CASE StartRefused
  BY <1>2 DEF StartRefused, TypeOK, CoreTypes, CaptureTypes, StepInv, SessionInv, PipelineInv, HaltInv
<1>3. CASE Start
  BY <1>3 DEF Start, Transition, Legal, Sources, Target, TypeOK, CoreTypes, CaptureTypes, StepInv, SessionInv, PipelineInv, HaltInv
<1>4. CASE Pause
  BY <1>4 DEF Pause, Transition, Legal, Sources, Target, TypeOK, CoreTypes, CaptureTypes, StepInv, SessionInv, PipelineInv, HaltInv
<1>5. CASE Resume
  BY <1>5 DEF Resume, Transition, Legal, Sources, Target, TypeOK, CoreTypes, CaptureTypes, StepInv, SessionInv, PipelineInv, HaltInv
<1>6. CASE Stop
  BY <1>6 DEF Stop, Transition, Legal, Sources, Target, TypeOK, CoreTypes, CaptureTypes, StepInv, SessionInv, PipelineInv, HaltInv
<1>7. CASE Destroy
  BY <1>7 DEF Destroy, TypeOK, CoreTypes, CaptureTypes, StepInv, SessionInv, PipelineInv, HaltInv
<1>8. CASE StatsTick
  BY <1>8 DEF StatsTick, TypeOK, CoreTypes, CaptureTypes, StepInv, SessionInv, PipelineInv, HaltInv
<1>9. CASE SttJoin
  BY <1>9 DEF SttJoin, TypeOK, CoreTypes, CaptureTypes, StepInv, SessionInv, PipelineInv, HaltInv
<1>10. CASE DrainLock
  BY <1>10 DEF DrainLock, TypeOK, CoreTypes, CaptureTypes, StepInv, SessionInv, PipelineInv, HaltInv
<1>11. CASE DrainExit
  BY <1>11 DEF DrainExit, TypeOK, CoreTypes, CaptureTypes, StepInv, SessionInv, PipelineInv, HaltInv
<1>12. CASE DrainNext
  BY <1>12 DEF DrainNext, Drained, TypeOK, CoreTypes, CaptureTypes, StepInv, SessionInv, PipelineInv, HaltInv
<1>13. CASE StartStt
  BY <1>13 DEF StartStt, TypeOK, CoreTypes, CaptureTypes, StepInv, SessionInv, PipelineInv, HaltInv
<1>14. CASE Opened
  BY <1>14 DEF Opened, Transition, Legal, Sources, Target, TypeOK, CoreTypes, CaptureTypes, StepInv, SessionInv, PipelineInv, HaltInv
<1>15. CASE OpenFailed
  BY <1>15 DEF OpenFailed, Transition, Legal, Sources, Target, TypeOK, CoreTypes, CaptureTypes, StepInv, SessionInv, PipelineInv, HaltInv
<1>16. CASE UiLock
  BY <1>16 DEF UiLock, TypeOK, CoreTypes, CaptureTypes, StepInv, SessionInv, PipelineInv, HaltInv
<1>17. CASE UiDrainNext
  BY <1>17 DEF UiDrainNext, Drained, TypeOK, CoreTypes, CaptureTypes, StepInv, SessionInv, PipelineInv, HaltInv
<1>18. CASE DropPipelines
  BY <1>18 DEF DropPipelines, AfterStreams, Empty, Drained, TypeOK, CoreTypes, CaptureTypes, StepInv, SessionInv, PipelineInv, HaltInv
<1>19. CASE Discard
  BY <1>19 DEF Discard, TypeOK, CoreTypes, CaptureTypes, StepInv, SessionInv, PipelineInv, HaltInv
<1>20. CASE Finalize
  BY <1>20 DEF Finalize, TypeOK, CoreTypes, CaptureTypes, StepInv, SessionInv, PipelineInv, HaltInv
<1>21. CASE SttDetach
  BY <1>21 DEF SttDetach, TypeOK, CoreTypes, CaptureTypes, StepInv, SessionInv, PipelineInv, HaltInv
<1>22. CASE Complete
  BY <1>22 DEF Complete, Transition, Legal, Sources, Target, TypeOK, CoreTypes, CaptureTypes, StepInv, SessionInv, PipelineInv, HaltInv
<1>23. CASE JoinDrain
  BY <1>23 DEF JoinDrain, TypeOK, CoreTypes, CaptureTypes, StepInv, SessionInv, PipelineInv, HaltInv
<1>24. ASSUME NEW t \in Tracks, DrainOne(t) PROVE PipelineInv' /\ HaltInv'
  BY <1>24 DEF DrainOne, DrainFrame, TypeOK, CoreTypes, CaptureTypes, StepInv, SessionInv, PipelineInv, HaltInv
<1>25. ASSUME NEW t \in Tracks, Capture(t) PROVE PipelineInv' /\ HaltInv'
  BY <1>25 DEF Capture, TypeOK, CoreTypes, CaptureTypes, StepInv, SessionInv, PipelineInv, HaltInv
<1>26. ASSUME NEW t \in Tracks, OpenTrack(t) PROVE PipelineInv' /\ HaltInv'
  BY <1>26 DEF OpenTrack, AfterTrack, TypeOK, CoreTypes, CaptureTypes, StepInv, SessionInv, PipelineInv, HaltInv
<1>27. ASSUME NEW t \in Tracks, Install(t) PROVE PipelineInv' /\ HaltInv'
  BY <1>27 DEF Install, AfterTrack, TypeOK, CoreTypes, CaptureTypes, StepInv, SessionInv, PipelineInv, HaltInv
<1>28. ASSUME NEW t \in Tracks, Halt(t) PROVE PipelineInv' /\ HaltInv'
  BY <1>28 DEF Halt, TypeOK, CoreTypes, CaptureTypes, StepInv, SessionInv, PipelineInv, HaltInv
<1>29. ASSUME NEW t \in Tracks, UiDrainOne(t) PROVE PipelineInv' /\ HaltInv'
  BY <1>29 DEF UiDrainOne, DrainFrame, TypeOK, CoreTypes, CaptureTypes, StepInv, SessionInv, PipelineInv, HaltInv
<1>30. CASE UNCHANGED vars
  BY <1>30 DEF vars, TypeOK, CoreTypes, CaptureTypes, StepInv, SessionInv, PipelineInv, HaltInv
<1> QED
  BY <1>1, <1>2, <1>3, <1>4, <1>5, <1>6, <1>7, <1>8, <1>9, <1>10, <1>11, <1>12, <1>13,
     <1>14, <1>15, <1>16, <1>17, <1>18, <1>19, <1>20, <1>21, <1>22, <1>23, <1>24, <1>25,
     <1>26, <1>27, <1>28, <1>29, <1>30 DEF Next, User, Handler, Drain

\* Writer, STT client, timer and threads are released on every path to rest.
LEMMA ResourceNext ==
  ASSUME TypeOK, LockInv, StepInv, SessionInv, ResourceInv, [Next]_vars
  PROVE  ResourceInv'
<1> USE DEF coreVars, captureVars, drainVars, fileVars, uiVars, Ready, Idle, At, Goto,
          Tracks, Stopping, Released, Absent, Terminal, SessionStates
<1>1. CASE Select
  BY <1>1 DEF Select, TypeOK, CoreTypes, DrainTypes, StepInv, SessionInv, ResourceInv
<1>2. CASE StartRefused
  BY <1>2 DEF StartRefused, TypeOK, CoreTypes, DrainTypes, StepInv, SessionInv, ResourceInv
<1>3. CASE Start
  BY <1>3 DEF Start, Transition, Legal, Sources, Target, TypeOK, CoreTypes, DrainTypes, StepInv, SessionInv, ResourceInv
<1>4. CASE Pause
  BY <1>4 DEF Pause, Transition, Legal, Sources, Target, TypeOK, CoreTypes, DrainTypes, StepInv, SessionInv, ResourceInv
<1>5. CASE Resume
  BY <1>5 DEF Resume, Transition, Legal, Sources, Target, TypeOK, CoreTypes, DrainTypes, StepInv, SessionInv, ResourceInv
<1>6. CASE Stop
  BY <1>6 DEF Stop, Transition, Legal, Sources, Target, TypeOK, CoreTypes, DrainTypes, StepInv, SessionInv, ResourceInv
<1>7. CASE Destroy
  BY <1>7 DEF Destroy, TypeOK, CoreTypes, DrainTypes, StepInv, SessionInv, ResourceInv
<1>8. CASE StatsTick
  BY <1>8 DEF StatsTick, TypeOK, CoreTypes, DrainTypes, StepInv, SessionInv, ResourceInv
<1>9. CASE SttJoin
  BY <1>9 DEF SttJoin, TypeOK, CoreTypes, DrainTypes, StepInv, SessionInv, ResourceInv
<1>10. CASE DrainLock
  BY <1>10 DEF DrainLock, TypeOK, CoreTypes, DrainTypes, StepInv, SessionInv, ResourceInv
<1>11. CASE DrainExit
  BY <1>11 DEF DrainExit, TypeOK, CoreTypes, DrainTypes, StepInv, SessionInv, ResourceInv
<1>12. CASE DrainNext
  BY <1>12 DEF DrainNext, TypeOK, CoreTypes, DrainTypes, StepInv, SessionInv, ResourceInv
<1>13. CASE StartStt
  BY <1>13 DEF StartStt, TypeOK, CoreTypes, DrainTypes, StepInv, SessionInv, ResourceInv
<1>14. CASE Opened
  BY <1>14 DEF Opened, Transition, Legal, Sources, Target, TypeOK, CoreTypes, DrainTypes, StepInv, SessionInv, ResourceInv
<1>15. CASE OpenFailed
  BY <1>15 DEF OpenFailed, Transition, Legal, Sources, Target, TypeOK, CoreTypes, DrainTypes, StepInv, SessionInv, ResourceInv
<1>16. CASE UiLock
  BY <1>16 DEF UiLock, TypeOK, CoreTypes, DrainTypes, StepInv, SessionInv, ResourceInv
<1>17. CASE UiDrainNext
  BY <1>17 DEF UiDrainNext, TypeOK, CoreTypes, DrainTypes, StepInv, SessionInv, ResourceInv
<1>18. CASE DropPipelines
  BY <1>18 DEF DropPipelines, AfterStreams, TypeOK, CoreTypes, DrainTypes, StepInv, SessionInv, ResourceInv
<1>19. CASE Discard
  BY <1>19 DEF Discard, TypeOK, CoreTypes, DrainTypes, StepInv, SessionInv, ResourceInv
<1>20. CASE Finalize
  BY <1>20 DEF Finalize, TypeOK, CoreTypes, DrainTypes, StepInv, SessionInv, ResourceInv
<1>21. CASE SttDetach
  BY <1>21 DEF SttDetach, TypeOK, CoreTypes, DrainTypes, StepInv, SessionInv, ResourceInv
<1>22. CASE Complete
  BY <1>22 DEF Complete, Transition, Legal, Sources, Target, TypeOK, CoreTypes, DrainTypes, StepInv, SessionInv, ResourceInv
<1>23. CASE JoinDrain
  BY <1>23 DEF JoinDrain, TypeOK, CoreTypes, DrainTypes, StepInv, SessionInv, ResourceInv
<1>24. ASSUME NEW t \in Tracks, DrainOne(t) PROVE ResourceInv'
  BY <1>24 DEF DrainOne, DrainFrame, TypeOK, CoreTypes, DrainTypes, StepInv, SessionInv, ResourceInv
<1>25. ASSUME NEW t \in Tracks, Capture(t) PROVE ResourceInv'
  BY <1>25 DEF Capture, TypeOK, CoreTypes, DrainTypes, StepInv, SessionInv, ResourceInv
<1>26. ASSUME NEW t \in Tracks, OpenTrack(t) PROVE ResourceInv'
  BY <1>26 DEF OpenTrack, AfterTrack, TypeOK, CoreTypes, DrainTypes, StepInv, SessionInv, ResourceInv
<1>27. ASSUME NEW t \in Tracks, Install(t) PROVE ResourceInv'
  BY <1>27 DEF Install, AfterTrack, TypeOK, CoreTypes, DrainTypes, StepInv, SessionInv, ResourceInv
<1>28. ASSUME NEW t \in Tracks, Halt(t) PROVE ResourceInv'
  BY <1>28 DEF Halt, TypeOK, CoreTypes, DrainTypes, StepInv, SessionInv, ResourceInv
<1>29. ASSUME NEW t \in Tracks, UiDrainOne(t) PROVE ResourceInv'
  BY <1>29 DEF UiDrainOne, DrainFrame, TypeOK, CoreTypes, DrainTypes, StepInv, SessionInv, ResourceInv
<1>30. CASE UNCHANGED vars
  BY <1>30 DEF vars, TypeOK, CoreTypes, DrainTypes, StepInv, SessionInv, ResourceInv
<1> QED
  BY <1>1, <1>2, <1>3, <1>4, <1>5, <1>6, <1>7, <1>8, <1>9, <1>10, <1>11, <1>12, <1>13,
     <1>14, <1>15, <1>16, <1>17, <1>18, <1>19, <1>20, <1>21, <1>22, <1>23, <1>24, <1>25,
     <1>26, <1>27, <1>28, <1>29, <1>30 DEF Next, User, Handler, Drain

-----------------------------------------------------------------------------
(* No silent loss                                                          *)

\* Writing the frame at the head of the ring moves the border between file and ring.
LEMMA MoveHead ==
  ASSUME NEW S, NEW w \in Seq(S), NEW r \in Seq(S), r # <<>>
  PROVE  w \o r = Append(w, Head(r)) \o Tail(r)
<1>1. Len(r) >= 1 /\ Tail(r) \in Seq(S) /\ Len(Tail(r)) = Len(r) - 1
  BY EmptySeq, HeadTailProperties
<1>2. Append(w, Head(r)) \in Seq(S) /\ Len(Append(w, Head(r))) = Len(w) + 1
  BY <1>1, AppendProperties, HeadTailProperties
<1> QED
  BY <1>1, <1>2

\* What is appended to the second of two parts is appended to the whole.
LEMMA AppendToParts ==
  ASSUME NEW w \in Seq(Frames), NEW r \in Seq(Frames), NEW f \in Frames
  PROVE  Append(w \o r, f) = w \o Append(r, f)
<1>1. Append(r, f) = r \o <<f>> /\ <<f>> \in Seq(Frames)
  BY AppendIsConcat
<1>2. w \o r \in Seq(Frames)
  BY ConcatProperties
<1>3. Append(w \o r, f) = (w \o r) \o <<f>>
  BY <1>2, AppendIsConcat
<1>4. (w \o r) \o <<f>> = w \o (r \o <<f>>)
  BY <1>1, ConcatAssociative
<1> QED
  BY <1>1, <1>3, <1>4

\* drainPipelineLocked() keeps the accepted audio of every track together.
LEMMA DrainFrameLoss ==
  ASSUME TypeOK, NoSilentLoss, NEW t \in Tracks, DrainFrame(t), UNCHANGED accepted
  PROVE  NoSilentLoss'
<1> SUFFICES ASSUME writer' # "none", ~writerFailed', NEW u \in writerTracks'
             PROVE  accepted'[u] = written'[u] \o ring'[u]
  BY DEF NoSilentLoss
<1>1. writer # "none" /\ ~writerFailed /\ u \in writerTracks
  BY DEF DrainFrame
<1>2. accepted[u] = written[u] \o ring[u]
  BY <1>1 DEF NoSilentLoss
<1>3. u \in Tracks /\ written \in [Tracks -> Seq(Frames)] /\ ring \in [Tracks -> Seq(Frames)]
  BY <1>1 DEF TypeOK, CaptureTypes, FileTypes
<1>4. CASE u = t
  <2>1. written' = [written EXCEPT ![t] = Append(@, Head(ring[t]))]
    BY <1>1, <1>4 DEF DrainFrame
  <2>2. ring' = [ring EXCEPT ![t] = Tail(@)] /\ ring[t] # <<>>
    BY DEF DrainFrame
  <2>3. written'[t] = Append(written[t], Head(ring[t])) /\ ring'[t] = Tail(ring[t])
    BY <1>3, <2>1, <2>2
  <2>4. written[t] \o ring[t] = Append(written[t], Head(ring[t])) \o Tail(ring[t])
    <3>1. written[t] \in Seq(Frames) /\ ring[t] \in Seq(Frames) /\ ring[t] # <<>>
      BY <1>3, <2>2
    <3> QED
      BY <3>1, MoveHead, Zenon
  <2> QED
    BY <1>2, <1>4, <2>3, <2>4, Zenon
<1>5. CASE u # t
  BY <1>1, <1>2, <1>3, <1>5 DEF DrainFrame
<1> QED
  BY <1>4, <1>5

\* A full ring accepts nothing, and what a ring accepts goes to its end.
LEMMA CaptureLoss ==
  ASSUME TypeOK, NoSilentLoss, NEW t \in Tracks, Capture(t)
  PROVE  NoSilentLoss'
<1> DEFINE frame == [take |-> take, id |-> produced[t] + 1, disc |-> t \in pendingDisc]
<1>1. frame \in Frames
  <2>1. take \in Nat /\ produced[t] + 1 \in Nat
    BY DEF TypeOK, CaptureTypes
  <2> QED
    BY <2>1 DEF Frames
<1>2. \/ /\ ring' = [ring EXCEPT ![t] = Append(@, frame)]
         /\ accepted' = [accepted EXCEPT ![t] = Append(@, frame)]
      \/ UNCHANGED <<ring, accepted>>
  BY DEF Capture
<1>3. UNCHANGED <<writer, writerFailed, writerTracks, written>>
  BY DEF Capture, fileVars
<1>4. /\ written \in [Tracks -> Seq(Frames)] /\ ring \in [Tracks -> Seq(Frames)]
      /\ accepted \in [Tracks -> Seq(Frames)] /\ writerTracks \in SUBSET Tracks
  BY DEF TypeOK, CaptureTypes, FileTypes
<1> HIDE DEF frame
<1> SUFFICES ASSUME writer # "none", ~writerFailed, NEW u \in writerTracks
             PROVE  accepted'[u] = written[u] \o ring'[u]
  BY <1>3 DEF NoSilentLoss
<1>5. accepted[u] = written[u] \o ring[u] /\ u \in Tracks
  BY <1>4 DEF NoSilentLoss
<1>6. Append(written[u] \o ring[u], frame) = written[u] \o Append(ring[u], frame)
  <2>1. written[u] \in Seq(Frames) /\ ring[u] \in Seq(Frames)
    BY <1>4, <1>5
  <2> QED
    BY <1>1, <2>1, AppendToParts
<1> QED
  BY <1>2, <1>4, <1>5, <1>6

\* No step loses accepted audio while the writer works.
LEMMA LossNext ==
  ASSUME TypeOK, LockInv, StepInv, SessionInv, PipelineInv, HaltInv, ResourceInv,
         NoSilentLoss, [Next]_vars
  PROVE  NoSilentLoss'
<1> USE DEF NoSilentLoss, captureVars, fileVars
<1>1. CASE Select
  BY <1>1 DEF Select, TypeOK, CaptureTypes, FileTypes, PipelineInv, ResourceInv
<1>2. CASE StartRefused
  BY <1>2 DEF StartRefused, Ready, TypeOK, CaptureTypes, FileTypes, PipelineInv, ResourceInv
<1>3. CASE Start
  <2>1. ring = Empty
    <3>1. \A t \in Tracks : ring[t] = <<>>
      BY <1>3 DEF Start, Absent, Ready, PipelineInv
    <3> QED
      BY <3>1 DEF TypeOK, CaptureTypes, Empty
  <2>2. accepted' = Empty /\ written' = Empty /\ ring' = Empty /\ writerTracks' \in SUBSET Tracks
    BY <1>3, <2>1 DEF Start, TypeOK, UiTypes
  <2>3. \A t \in Tracks : Empty[t] = Empty[t] \o Empty[t]
    <3>1. <<>> \in Seq(Frames)
      OBVIOUS
    <3> QED
      BY <3>1, ConcatEmptySeq DEF Empty
  <2> QED
    BY <2>2, <2>3
<1>4. CASE Pause
  BY <1>4 DEF Pause, TypeOK, CaptureTypes, FileTypes, PipelineInv, ResourceInv
<1>5. CASE Resume
  BY <1>5 DEF Resume, TypeOK, CaptureTypes, FileTypes, PipelineInv, ResourceInv
<1>6. CASE Stop
  BY <1>6 DEF Stop, TypeOK, CaptureTypes, FileTypes, PipelineInv, ResourceInv
<1>7. CASE Destroy
  BY <1>7 DEF Destroy, TypeOK, CaptureTypes, FileTypes, PipelineInv, ResourceInv
<1>8. CASE StatsTick
  BY <1>8 DEF StatsTick, TypeOK, CaptureTypes, FileTypes, PipelineInv, ResourceInv
<1>9. CASE SttJoin
  BY <1>9 DEF SttJoin, TypeOK, CaptureTypes, FileTypes, PipelineInv, ResourceInv
<1>10. CASE DrainLock
  BY <1>10 DEF DrainLock, TypeOK, CaptureTypes, FileTypes, PipelineInv, ResourceInv
<1>11. CASE DrainExit
  BY <1>11 DEF DrainExit, TypeOK, CaptureTypes, FileTypes, PipelineInv, ResourceInv
<1>12. CASE DrainNext
  BY <1>12 DEF DrainNext, TypeOK, CaptureTypes, FileTypes, PipelineInv, ResourceInv
<1>13. CASE StartStt
  BY <1>13 DEF StartStt, TypeOK, CaptureTypes, FileTypes, PipelineInv, ResourceInv
<1>14. CASE Opened
  BY <1>14 DEF Opened, TypeOK, CaptureTypes, FileTypes, PipelineInv, ResourceInv
<1>15. CASE OpenFailed
  BY <1>15 DEF OpenFailed, TypeOK, CaptureTypes, FileTypes, PipelineInv, ResourceInv
<1>16. CASE UiLock
  BY <1>16 DEF UiLock, TypeOK, CaptureTypes, FileTypes, PipelineInv, ResourceInv
<1>17. CASE UiDrainNext
  BY <1>17 DEF UiDrainNext, TypeOK, CaptureTypes, FileTypes, PipelineInv, ResourceInv
<1>18. CASE DropPipelines
  BY <1>18 DEF DropPipelines, AfterStreams, HaltInv, Drained, Empty, Tracks, Absent, Released, Ready, TypeOK, CaptureTypes, FileTypes, PipelineInv, ResourceInv
<1>19. CASE Discard
  BY <1>19 DEF Discard, TypeOK, CaptureTypes, FileTypes, PipelineInv, ResourceInv
<1>20. CASE Finalize
  BY <1>20 DEF Finalize, TypeOK, CaptureTypes, FileTypes, PipelineInv, ResourceInv
<1>21. CASE SttDetach
  BY <1>21 DEF SttDetach, TypeOK, CaptureTypes, FileTypes, PipelineInv, ResourceInv
<1>22. CASE Complete
  BY <1>22 DEF Complete, TypeOK, CaptureTypes, FileTypes, PipelineInv, ResourceInv
<1>23. CASE JoinDrain
  BY <1>23 DEF JoinDrain, TypeOK, CaptureTypes, FileTypes, PipelineInv, ResourceInv
<1>24. ASSUME NEW t \in Tracks, DrainOne(t) PROVE NoSilentLoss'
  BY <1>24, DrainFrameLoss DEF DrainOne
<1>25. ASSUME NEW t \in Tracks, Capture(t) PROVE NoSilentLoss'
  BY <1>25, CaptureLoss
<1>26. ASSUME NEW t \in Tracks, OpenTrack(t) PROVE NoSilentLoss'
  <2>1. UNCHANGED <<accepted, writer, writerFailed, writerTracks, written>>
    BY <1>26 DEF OpenTrack
  <2>2. ring[t] = <<>>
    BY <1>26 DEF OpenTrack, PipelineInv, Absent
  <2>3. ring' = [ring EXCEPT ![t] = <<>>] \/ UNCHANGED ring
    BY <1>26 DEF OpenTrack
  <2>4. UNCHANGED ring
    BY <2>2, <2>3 DEF TypeOK, CaptureTypes
  <2> QED
    BY <2>1, <2>4
<1>27. ASSUME NEW t \in Tracks, Install(t) PROVE NoSilentLoss'
  BY <1>27 DEF Install, AfterTrack, TypeOK, CaptureTypes, FileTypes, PipelineInv, ResourceInv
<1>28. ASSUME NEW t \in Tracks, Halt(t) PROVE NoSilentLoss'
  BY <1>28 DEF Halt, TypeOK, CaptureTypes, FileTypes, PipelineInv, ResourceInv
<1>29. ASSUME NEW t \in Tracks, UiDrainOne(t) PROVE NoSilentLoss'
  BY <1>29, DrainFrameLoss DEF UiDrainOne
<1>30. CASE UNCHANGED vars
  BY <1>30 DEF vars, TypeOK, CaptureTypes, FileTypes, PipelineInv, ResourceInv
<1> QED
  BY <1>1, <1>2, <1>3, <1>4, <1>5, <1>6, <1>7, <1>8, <1>9, <1>10, <1>11, <1>12, <1>13,
     <1>14, <1>15, <1>16, <1>17, <1>18, <1>19, <1>20, <1>21, <1>22, <1>23, <1>24, <1>25,
     <1>26, <1>27, <1>28, <1>29, <1>30 DEF Next, User, Handler, Drain

-----------------------------------------------------------------------------
(* The theorems                                                            *)

\* The inductive invariant holds initially.
LEMMA InitInv == Init => IInv
<1> SUFFICES ASSUME Init PROVE IInv
  OBVIOUS
<1>1. TypeOK
  BY InitTypes
<1>2. LockInv /\ StepInv /\ SessionInv
  BY DEF Init, LockInv, StepInv, SessionInv, Idle, At, Ready, Tracks, Stopping
<1>3. PipelineInv /\ HaltInv /\ ResourceInv
  BY DEF Init, PipelineInv, HaltInv, ResourceInv, Idle, At, Ready, Empty
<1>4. NoSilentLoss
  BY DEF Init, NoSilentLoss
<1> QED
  BY <1>1, <1>2, <1>3, <1>4 DEF IInv

\* Every step preserves the inductive invariant.
LEMMA NextInv == IInv /\ [Next]_vars => IInv'
BY TypeNext, ControlNext, PipelineNext, ResourceNext, LossNext DEF IInv

\* The inductive invariant holds in every behaviour.
LEMMA Induction == Spec => []IInv
BY InitInv, NextInv, PTL DEF Spec

(***************************************************************************)
(* "Silent loss is prohibited", for every ring capacity: whatever the      *)
(* capture threads, the drain thread and the user do, an accepted frame of *)
(* a recorded track is in the file or in the ring until a write fails.     *)
(***************************************************************************)
THEOREM NothingIsLost == Spec => []NoSilentLoss
BY Induction, PTL DEF IInv

(***************************************************************************)
(* stop() gives a file its final name only when it is complete.            *)
(***************************************************************************)
THEOREM FinalFile == Spec => FinalFileIsComplete
<1>1. IInv /\ [Next]_vars =>
        [disk' = "final" /\ disk # "final" =>
           /\ ~writerFailed
           /\ \A t \in writerTracks : written[t] = accepted[t]
           /\ \A t \in Tracks : stream[t] = "none"]_vars
  <2> SUFFICES ASSUME IInv, [Next]_vars, disk' = "final", disk # "final"
               PROVE  /\ ~writerFailed
                      /\ \A t \in writerTracks : written[t] = accepted[t]
                      /\ \A t \in Tracks : stream[t] = "none"
    OBVIOUS
  <2>1. Finalize /\ writer = "open" /\ ~writerFailed
    BY DEF Next, User, Handler, Drain, Select, StartRefused, Start, Pause, Resume, Stop,
       Destroy, StatsTick, SttJoin, DrainLock, DrainExit, DrainNext, DrainOne, DrainFrame,
       StartStt, Opened, OpenFailed, UiLock, UiDrainNext, DropPipelines, Discard, Finalize,
       SttDetach, Complete, JoinDrain, Capture, OpenTrack, Install, Halt, UiDrainOne,
       fileVars, vars
  <2>2. \A t \in Tracks : stream[t] = "none" /\ ring[t] = <<>>
    BY <2>1 DEF Finalize, IInv, PipelineInv, Absent, Released
  <2>3. ASSUME NEW t \in writerTracks PROVE written[t] = accepted[t]
    <3>1. t \in Tracks /\ written[t] \in Seq(Frames)
      BY DEF IInv, TypeOK, FileTypes
    <3>2. accepted[t] = written[t] \o ring[t] /\ ring[t] = <<>>
      BY <2>1, <2>2, <3>1 DEF IInv, NoSilentLoss
    <3> QED
      BY <3>1, <3>2, ConcatEmptySeq
  <2> QED
    BY <2>1, <2>2, <2>3
<1> QED
  BY <1>1, Induction, PTL DEF Spec, FinalFileIsComplete

(***************************************************************************)
(* The recorder at rest holds no device, and when idle nothing at all.     *)
(***************************************************************************)
THEOREM RestIsRest == Spec => []RestReleasesEverything
<1>1. IInv => RestReleasesEverything
  BY DEF IInv, RestReleasesEverything, PipelineInv, ResourceInv, Absent, Ready
<1> QED
  BY <1>1, Induction, PTL

(***************************************************************************)
(* No pipeline is freed under the drain thread or a capture thread.        *)
(***************************************************************************)
THEOREM NoUseAfterFree == Spec => PipelinesOutliveTheirUsers
<1>1. IInv /\ [Next]_vars =>
        [\A t \in Tracks : t \in installed /\ t \notin installed' =>
           drainAt \notin Tracks /\ stream[t] = "stopped"]_vars
  <2> SUFFICES ASSUME IInv, [Next]_vars, NEW t \in Tracks, t \in installed, t \notin installed'
               PROVE  drainAt \notin Tracks /\ stream[t] = "stopped"
    OBVIOUS
  <2>1. DropPipelines
    BY DEF Next, User, Handler, Drain, Select, StartRefused, Start, Pause, Resume, Stop,
       Destroy, StatsTick, SttJoin, DrainLock, DrainExit, DrainNext, DrainOne, DrainFrame,
       StartStt, Opened, OpenFailed, UiLock, UiDrainNext, DropPipelines, Discard, Finalize,
       SttDetach, Complete, JoinDrain, Capture, OpenTrack, Install, Halt, UiDrainOne,
       coreVars, vars
  <2> QED
    BY <2>1 DEF DropPipelines, IInv, LockInv, HaltInv
<1> QED
  BY <1>1, Induction, PTL DEF Spec, PipelinesOutliveTheirUsers

(***************************************************************************)
(* The destructor leaves no thread behind.                                 *)
(***************************************************************************)
THEOREM ShutdownIsClean == Spec => []ShutdownJoinsEveryThread
<1>1. IInv => ShutdownJoinsEveryThread
  BY DEF IInv, ShutdownJoinsEveryThread, PipelineInv, ResourceInv, Absent, Released
<1> QED
  BY <1>1, Induction, PTL

=============================================================================
