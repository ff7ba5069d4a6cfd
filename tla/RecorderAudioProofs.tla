------------------------ MODULE RecorderAudioProofs ------------------------
(***************************************************************************)
(* More theorems about Recorder, for every ring capacity, every number of  *)
(* frames and every number of takes: what a drop leaves behind in the file *)
(* and in the upload, what the upload holds, what may delete a recording   *)
(* and what the user is told.                                              *)
(*                                                                         *)
(* They stand on the inductive invariant of RecorderProofs and add what    *)
(* those properties need: which tracks can have a pipeline at all, what    *)
(* each handler has said or will say about the file, what the upload       *)
(* starts from, and what a ring's last accepted frame says of the drops    *)
(* since.                                                                  *)
(***************************************************************************)
EXTENDS RecorderProofs

\* Only a selected track has a pipeline, and start() runs with a selection.
SelectedInv ==
  /\ \A t \in Tracks :
       t \in installed \/ (ui.at = "install" /\ ui.track = t) => t \in selected
  /\ ui.op = "start" => selected # {}

\* Handler steps that lead from a refused open back to the idle state.
Failing == {"openFailed", "halt", "lock", "drain", "discard", "sttDetach", "sttJoin", "complete"}

\* A recording's writer stays until the handler that settles its file, and
\* that handler knows what it will say.
ReportInv ==
  /\ Ready /\ session \in {"Recording", "Paused"} => writer # "none"
  /\ ui.op \in {"pause", "resume"} => writer # "none"
  /\ ui.op = "start" /\ ui.at \notin {"sttDetach", "sttJoin", "complete"} => writer # "none"
  /\ ui.op = "stop" /\ ui.at \in Stopping \cup {"finalize"} => writer # "none"
  /\ ui.op = "start" /\ ui.at \in Failing => error # "none"
  /\ /\ ui.op = "stop" /\ ui.at \in {"sttDetach", "sttJoin", "complete"}
     /\ disk \in {"partial", "removed"}
     => verdict \notin {"none", "saved"}

\* startSttStreaming() runs before the first frame.
UploadInv ==
  ui.at = "stt" => uploaded = <<>> /\ \A t \in Tracks : accepted[t] = <<>>

\* The track's stream is still to be opened in this take.
ToOpen(t) ==
  \/ ui.at = "stt"
  \/ ui.at = "open" /\ (ui.track = t \/ t = "sys")
  \/ ui.at = "install" /\ ui.track = "mic" /\ t = "sys"

\* What the last frame in a track's history says about the device since then.
LastFrame(t) == accepted[t][Len(accepted[t])]

GapInv ==
  \A t \in Tracks :
    /\ GapsFlagged(accepted[t])
    /\ accepted[t] # <<>> =>
         /\ LastFrame(t).take <= take
         /\ LastFrame(t).id <= produced[t]
         /\ LastFrame(t).take = take /\ LastFrame(t).id # produced[t] => t \in pendingDisc
         /\ ToOpen(t) => LastFrame(t).take < take

AudioInv ==
  /\ SelectedInv /\ ReportInv /\ UploadInv /\ GapInv
  /\ LossIsReported /\ UploadIsComplete /\ DropsAreFlagged

-----------------------------------------------------------------------------
(* Which tracks have a pipeline.                                           *)

\* The selection changes only in start(), where no pipeline exists yet.
LEMMA SelectedNext ==
  ASSUME TypeOK, StepInv, PipelineInv, SelectedInv, [Next]_vars
  PROVE  SelectedInv'
<1>. USE DEF SelectedInv, coreVars, captureVars, drainVars, fileVars, uiVars, Ready, Idle, At,
           Goto, Tracks
<1>1. CASE Select
  BY <1>1 DEF Select, PipelineInv, Absent, StepInv
<1>2. CASE StartRefused \/ StatsTick \/ Drain \/ (\E t \in Tracks : Capture(t))
  BY <1>2 DEF StartRefused, StatsTick, Drain, DrainLock, DrainExit, DrainNext, DrainOne, Capture
<1>3. CASE Start \/ Pause \/ Resume \/ Stop \/ Destroy
  BY <1>3 DEF Start, Pause, Resume, Stop, Destroy
<1>4. CASE StartStt \/ Opened \/ OpenFailed \/ UiLock \/ UiDrainNext
  BY <1>4 DEF StartStt, Opened, OpenFailed, UiLock, UiDrainNext
<1>5. CASE DropPipelines
  BY <1>5 DEF DropPipelines, AfterStreams
<1>6. CASE Discard \/ Finalize \/ SttDetach \/ SttJoin \/ Complete \/ JoinDrain
  BY <1>6 DEF Discard, Finalize, SttDetach, SttJoin, Complete, JoinDrain
<1>7. ASSUME NEW t \in Tracks, OpenTrack(t) PROVE SelectedInv'
  BY <1>7 DEF OpenTrack, AfterTrack
<1>8. ASSUME NEW t \in Tracks, Install(t) PROVE SelectedInv'
  BY <1>8 DEF Install, AfterTrack
<1>9. ASSUME NEW t \in Tracks, Halt(t) \/ UiDrainOne(t) PROVE SelectedInv'
  BY <1>9 DEF Halt, UiDrainOne
<1>10. CASE UNCHANGED vars
  BY <1>10 DEF vars
<1>. QED
  BY <1>1, <1>2, <1>3, <1>4, <1>5, <1>6, <1>7, <1>8, <1>9, <1>10 DEF Next, User, Handler

-----------------------------------------------------------------------------
(* What the user is told.                                                  *)

\* Every path to the idle state that leaves no saved file sets the error.
LEMMA ReportNext ==
  ASSUME TypeOK, StepInv, SessionInv, SelectedInv, ReportInv, LossIsReported, [Next]_vars
  PROVE  ReportInv' /\ LossIsReported'
<1>. USE DEF ReportInv, LossIsReported, Failing, Stopping, coreVars, captureVars, drainVars,
           fileVars, uiVars, Ready, Idle, At, Goto, Tracks
<1>. USE DEF TypeOK, CoreTypes, StepInv, SessionInv
<1>1. CASE Select \/ StartRefused
  BY <1>1 DEF Select, StartRefused
<1>2. CASE Start
  BY <1>2 DEF Start, Transition, Legal, Sources, Target
<1>3. CASE Pause \/ Resume \/ Stop \/ Destroy
  BY <1>3 DEF Pause, Resume, Stop, Destroy, Transition, Legal, Sources, Target
<1>4. CASE StatsTick
  BY <1>4 DEF StatsTick
<1>5. CASE Drain \/ (\E t \in Tracks : Capture(t) \/ UiDrainOne(t))
  <2>1. UNCHANGED <<session, ui, selected, disk, error, verdict>> /\ (writer # "none" => writer' # "none")
    BY <1>5 DEF Drain, DrainLock, DrainExit, DrainNext, DrainOne, Capture, UiDrainOne, DrainFrame
  <2>. QED
    BY <2>1
<1>6. CASE StartStt
  BY <1>6 DEF StartStt
<1>7. CASE Opened \/ OpenFailed
  BY <1>7 DEF Opened, OpenFailed, Transition, Legal, Sources, Target
<1>8. CASE UiLock \/ UiDrainNext
  BY <1>8 DEF UiLock, UiDrainNext
<1>9. CASE DropPipelines
  BY <1>9 DEF DropPipelines, AfterStreams
<1>10. CASE Discard
  BY <1>10 DEF Discard
<1>11. CASE Finalize
  BY <1>11 DEF Finalize
<1>12. CASE SttDetach \/ SttJoin
  BY <1>12 DEF SttDetach, SttJoin
<1>13. CASE Complete
  BY <1>13 DEF Complete, Transition, Legal, Sources, Target, SessionStates, Terminal
<1>14. CASE JoinDrain
  BY <1>14 DEF JoinDrain
<1>15. ASSUME NEW t \in Tracks, OpenTrack(t) PROVE ReportInv' /\ LossIsReported'
  BY <1>15 DEF OpenTrack, AfterTrack, SelectedInv
<1>16. ASSUME NEW t \in Tracks, Install(t) PROVE ReportInv' /\ LossIsReported'
  BY <1>16 DEF Install, AfterTrack, SelectedInv
<1>17. ASSUME NEW t \in Tracks, Halt(t) PROVE ReportInv' /\ LossIsReported'
  BY <1>17 DEF Halt
<1>18. CASE UNCHANGED vars
  BY <1>18 DEF vars
<1>. QED
  BY <1>1, <1>2, <1>3, <1>4, <1>5, <1>6, <1>7, <1>8, <1>9, <1>10, <1>11, <1>12, <1>13, <1>14,
     <1>15, <1>16, <1>17, <1>18 DEF Next, User, Handler

-----------------------------------------------------------------------------
(* What the upload holds.                                                  *)

\* drainPipelineLocked() hands the head of the source's ring to the client.
LEMMA DrainFrameUpload ==
  ASSUME TypeOK, SelectedInv, UploadIsComplete, NEW t \in Tracks, DrainFrame(t),
         UNCHANGED <<accepted, stt, selected>>
  PROVE  UploadIsComplete'
<1>. SUFFICES ASSUME stt = "live", NEW u \in Tracks, FeedsStt(u), u \in selected
              PROVE  accepted[u] = uploaded' \o ring'[u]
  BY DEF UploadIsComplete, SttSourceTracks, FeedsStt
<1>1. t \in selected /\ ring[t] # <<>> /\ ring' = [ring EXCEPT ![t] = Tail(@)]
  BY DEF DrainFrame, SelectedInv
<1>2. accepted[u] = uploaded \o ring[u]
  BY DEF UploadIsComplete, SttSourceTracks
<1>3. uploaded \in Seq(Frames) /\ ring \in [Tracks -> Seq(Frames)]
  BY DEF TypeOK, CoreTypes, CaptureTypes
<1>4. CASE u = t
  <2>1. uploaded' = Append(uploaded, Head(ring[t])) /\ ring'[t] = Tail(ring[t])
    BY <1>1, <1>3, <1>4 DEF DrainFrame
  <2>2. uploaded \o ring[t] = Append(uploaded, Head(ring[t])) \o Tail(ring[t])
    <3>1. ring[t] \in Seq(Frames)
      BY <1>3
    <3>. QED
      BY <1>1, <1>3, <3>1, MoveHead, Zenon
  <2>. QED
    BY <1>2, <1>4, <2>1, <2>2, Zenon
<1>5. CASE u # t
  <2>1. ~FeedsStt(t)
    BY <1>1, <1>5 DEF FeedsStt, Tracks
  <2>2. uploaded' = uploaded /\ ring'[u] = ring[u]
    BY <1>1, <1>3, <1>5, <2>1 DEF DrainFrame
  <2>. QED
    BY <1>2, <2>2
<1>. QED
  BY <1>4, <1>5

\* What a ring accepts goes to its end.
LEMMA CaptureUpload ==
  ASSUME TypeOK, UploadIsComplete, NEW t \in Tracks, Capture(t)
  PROVE  UploadIsComplete'
<1>. DEFINE frame == [take |-> take, id |-> produced[t] + 1, disc |-> t \in pendingDisc]
<1>1. frame \in Frames
  <2>1. take \in Nat /\ produced[t] + 1 \in Nat
    BY DEF TypeOK, CaptureTypes
  <2>. QED
    BY <2>1 DEF Frames
<1>2. \/ /\ ring' = [ring EXCEPT ![t] = Append(@, frame)]
         /\ accepted' = [accepted EXCEPT ![t] = Append(@, frame)]
      \/ UNCHANGED <<ring, accepted>>
  BY DEF Capture
<1>3. UNCHANGED <<stt, selected, uploaded>>
  BY DEF Capture, coreVars, uiVars
<1>4. /\ uploaded \in Seq(Frames) /\ ring \in [Tracks -> Seq(Frames)]
      /\ accepted \in [Tracks -> Seq(Frames)]
  BY DEF TypeOK, CoreTypes, CaptureTypes
<1>. HIDE DEF frame
<1>. SUFFICES ASSUME stt = "live", NEW u \in Tracks, FeedsStt(u), u \in selected
              PROVE  accepted'[u] = uploaded \o ring'[u]
  BY <1>3 DEF UploadIsComplete, SttSourceTracks, FeedsStt
<1>5. accepted[u] = uploaded \o ring[u]
  BY DEF UploadIsComplete, SttSourceTracks
<1>6. Append(uploaded \o ring[u], frame) = uploaded \o Append(ring[u], frame)
  <2>1. ring[u] \in Seq(Frames)
    BY <1>4
  <2>. QED
    BY <1>1, <1>4, <2>1, AppendToParts
<1>. QED
  BY <1>2, <1>4, <1>5, <1>6

\* The upload starts from nothing.
LEMMA UploadStarts ==
  ASSUME TypeOK, StepInv, PipelineInv, UploadInv, [Next]_vars
  PROVE  UploadInv'
<1>. USE DEF UploadInv, coreVars, captureVars, Ready, Idle, At, Goto
<1>1. CASE Start
  BY <1>1 DEF Start, Empty
<1>2. CASE Drain
  <2>1. ASSUME ui.at = "stt", NEW t \in Tracks PROVE ~DrainFrame(t)
    BY <2>1 DEF DrainFrame, PipelineInv, Absent, Released
  <2>2. UNCHANGED <<ui, accepted>> /\ (ui.at = "stt" => UNCHANGED uploaded)
    BY <1>2, <2>1 DEF Drain, DrainLock, DrainExit, DrainNext, DrainOne
  <2>. QED
    BY <2>2
<1>3. ASSUME NEW t \in Tracks, Capture(t) PROVE UploadInv'
  BY <1>3 DEF Capture, PipelineInv, Absent, Released
<1>4. CASE Select \/ StartRefused \/ StatsTick \/ UNCHANGED vars
  BY <1>4 DEF Select, StartRefused, StatsTick, vars
<1>5. CASE Pause \/ Resume \/ Stop \/ Destroy
  BY <1>5 DEF Pause, Resume, Stop, Destroy
<1>6. CASE SttJoin \/ Handler
  <2>1. ui'.at # "stt"
    <3>. USE DEF TypeOK, CoreTypes
    <3>1. CASE SttJoin \/ StartStt \/ Opened \/ OpenFailed \/ UiLock \/ UiDrainNext
      BY <3>1 DEF SttJoin, StartStt, Opened, OpenFailed, UiLock, UiDrainNext
    <3>2. CASE DropPipelines
      BY <3>2 DEF DropPipelines, AfterStreams
    <3>3. CASE Discard \/ Finalize \/ SttDetach \/ Complete \/ JoinDrain
      BY <3>3 DEF Discard, Finalize, SttDetach, Complete, JoinDrain
    <3>4. ASSUME NEW t \in Tracks, OpenTrack(t) \/ Install(t) \/ Halt(t) \/ UiDrainOne(t)
          PROVE  ui'.at # "stt"
      BY <3>4 DEF OpenTrack, Install, Halt, UiDrainOne, AfterTrack
    <3>. QED
      BY <1>6, <3>1, <3>2, <3>3, <3>4 DEF Handler
  <2>. QED
    BY <2>1
<1>. QED
  BY <1>1, <1>2, <1>3, <1>4, <1>5, <1>6 DEF Next, User

\* Nothing the source's ring accepted is missing from a live upload.
LEMMA UploadNext ==
  ASSUME TypeOK, StepInv, SessionInv, PipelineInv, HaltInv, ResourceInv, SelectedInv, UploadInv,
         UploadIsComplete, [Next]_vars
  PROVE  UploadIsComplete'
<1>. USE DEF UploadIsComplete, SttSourceTracks, FeedsStt, coreVars, captureVars, uiVars
<1>1. CASE Select \/ Start
  <2>1. stt = "none" /\ stt' = stt
    BY <1>1 DEF Select, Start, Ready, ResourceInv
  <2>. QED
    BY <2>1
<1>2. CASE StartStt
  <2>1. stt' # "live" \/ (\A t \in Tracks : accepted[t] = uploaded \o ring[t])
    <3>1. \A t \in Tracks : accepted[t] = <<>> /\ ring[t] = <<>>
      BY <1>2 DEF StartStt, UploadInv, PipelineInv, Absent, Released
    <3>2. uploaded = <<>>
      BY <1>2 DEF StartStt, UploadInv
    <3>3. <<>> \o <<>> = <<>>
      <4>1. <<>> \in Seq(Frames)
        OBVIOUS
      <4>. QED
        BY <4>1, ConcatEmptySeq
    <3>. QED
      BY <3>1, <3>2, <3>3
  <2>2. UNCHANGED <<accepted, uploaded, ring, selected>>
    BY <1>2 DEF StartStt
  <2>. QED
    BY <2>1, <2>2
<1>3. CASE DropPipelines
  <2>1. \A t \in Tracks : ring[t] = <<>>
    BY <1>3 DEF DropPipelines, HaltInv, PipelineInv, Drained, Tracks
  <2>2. \A t \in Tracks : ring'[t] = ring[t]
    BY <1>3, <2>1 DEF DropPipelines, Empty
  <2>3. UNCHANGED <<accepted, uploaded, selected, stt>>
    BY <1>3 DEF DropPipelines
  <2>. QED
    BY <2>2, <2>3
<1>4. ASSUME NEW t \in Tracks, OpenTrack(t) PROVE UploadIsComplete'
  <2>1. ring[t] = <<>>
    BY <1>4 DEF OpenTrack, PipelineInv, Absent
  <2>2. ring' = [ring EXCEPT ![t] = <<>>] \/ UNCHANGED ring
    BY <1>4 DEF OpenTrack
  <2>3. UNCHANGED ring
    BY <2>1, <2>2 DEF TypeOK, CaptureTypes
  <2>4. UNCHANGED <<accepted, uploaded, selected, stt>>
    BY <1>4 DEF OpenTrack
  <2>. QED
    BY <2>3, <2>4
<1>5. ASSUME NEW t \in Tracks, DrainOne(t) \/ UiDrainOne(t) PROVE UploadIsComplete'
  <2>1. DrainFrame(t) /\ UNCHANGED <<accepted, stt, selected>>
    BY <1>5 DEF DrainOne, UiDrainOne
  <2>. QED
    BY <2>1, DrainFrameUpload
<1>6. ASSUME NEW t \in Tracks, Capture(t) PROVE UploadIsComplete'
  BY <1>6, CaptureUpload
<1>7. CASE SttDetach \/ SttJoin
  BY <1>7 DEF SttDetach, SttJoin
<1>8. CASE StartRefused \/ Pause \/ Resume \/ Stop \/ Destroy \/ StatsTick \/ UNCHANGED vars
  BY <1>8 DEF StartRefused, Pause, Resume, Stop, Destroy, StatsTick, vars
<1>9. CASE DrainLock \/ DrainExit \/ DrainNext \/ Opened \/ OpenFailed \/ UiLock \/ UiDrainNext
  BY <1>9 DEF DrainLock, DrainExit, DrainNext, Opened, OpenFailed, UiLock, UiDrainNext
<1>10. CASE Discard \/ Finalize \/ Complete \/ JoinDrain
  BY <1>10 DEF Discard, Finalize, Complete, JoinDrain
<1>11. ASSUME NEW t \in Tracks, Install(t) \/ Halt(t) PROVE UploadIsComplete'
  BY <1>11 DEF Install, Halt
<1>. QED
  BY <1>1, <1>2, <1>3, <1>4, <1>5, <1>6, <1>7, <1>8, <1>9, <1>10, <1>11
     DEF Next, User, Handler, Drain

-----------------------------------------------------------------------------
(* What a drop leaves behind.                                              *)

\* The first part of a flagged history is flagged.
LEMMA GapsPrefix ==
  ASSUME NEW s \in Seq(Frames), NEW r \in Seq(Frames), GapsFlagged(s \o r)
  PROVE  GapsFlagged(s)
<1>. DEFINE w == s \o r
<1>1. /\ Len(s) \in Nat /\ Len(w) \in Nat /\ Len(s) <= Len(w)
      /\ \A i \in 1 .. Len(s) : w[i] = s[i]
  BY ConcatProperties, LenProperties
<1>. HIDE DEF w
<1>2. GapsFlagged(w)
  BY DEF w
<1>3. \A i \in 2 .. Len(s) : i \in 2 .. Len(w) /\ i - 1 \in 1 .. Len(s) /\ i \in 1 .. Len(s)
  BY <1>1
<1>. QED
  BY <1>1, <1>2, <1>3 DEF GapsFlagged

\* A frame that follows the last one, or says that it does not, keeps a
\* history flagged.
LEMMA GapsAppend ==
  ASSUME NEW s \in Seq(Frames), NEW f \in Frames, GapsFlagged(s),
         s # <<>> /\ s[Len(s)].take = f.take /\ f.id # s[Len(s)].id + 1 => f.disc
  PROVE  GapsFlagged(Append(s, f))
<1>. DEFINE n == Len(s)
            w == Append(s, f)
<1>1. n \in Nat /\ Len(w) = n + 1 /\ (\A i \in 1 .. n : w[i] = s[i]) /\ w[n + 1] = f
  BY AppendProperties, LenProperties
<1>2. n # 0 => s # <<>>
  BY EmptySeq
<1>. HIDE DEF w
<1>3. ASSUME NEW i \in 2 .. (n + 1)
      PROVE  \/ i = n + 1 /\ i - 1 = n /\ n # 0 /\ n \in 1 .. n
             \/ i \in 2 .. n /\ i - 1 \in 1 .. n /\ i \in 1 .. n
  <2>1. n \in Nat
    BY <1>1
  <2>. HIDE DEF n
  <2>. QED
    BY <2>1
<1>4. GapsFlagged(w)
  <2>. SUFFICES ASSUME NEW i \in 2 .. (n + 1), w[i - 1].take = w[i].take,
                       w[i].id # w[i - 1].id + 1
                PROVE  w[i].disc
    BY <1>1 DEF GapsFlagged
  <2>1. CASE i = n + 1 /\ i - 1 = n /\ n # 0 /\ n \in 1 .. n
    <3>1. w[i] = f /\ w[i - 1] = s[n]
      BY <1>1, <2>1
    <3>. QED
      BY <1>2, <2>1, <3>1
  <2>2. CASE i \in 2 .. n /\ i - 1 \in 1 .. n /\ i \in 1 .. n
    <3>1. w[i] = s[i] /\ w[i - 1] = s[i - 1]
      BY <1>1, <2>2
    <3>. QED
      BY <2>2, <3>1 DEF GapsFlagged
  <2>. QED
    BY <1>3, <2>1, <2>2
<1>. QED
  BY <1>4 DEF w

\* A history of no frames is flagged.
LEMMA GapsEmpty == GapsFlagged(<<>>)
<1>1. Len(<<>>) = 0
  BY EmptySeq
<1>. QED
  BY <1>1 DEF GapsFlagged

\* A full ring leaves a debt that the next accepted frame pays.
LEMMA CaptureGap ==
  ASSUME TypeOK, PipelineInv, GapInv, NEW t \in Tracks, Capture(t)
  PROVE  GapInv'
<1>. DEFINE frame == [take |-> take, id |-> produced[t] + 1, disc |-> t \in pendingDisc]
            h == accepted[t]
            last == LastFrame(t)
<1>1. /\ take \in Nat /\ produced \in [Tracks -> Nat] /\ accepted \in [Tracks -> Seq(Frames)]
      /\ pendingDisc \in SUBSET Tracks
  BY DEF TypeOK, CaptureTypes
<1>2. frame \in Frames
  <2>1. produced[t] + 1 \in Nat
    BY <1>1
  <2>. QED
    BY <1>1, <2>1 DEF Frames
<1>3. /\ produced' = [produced EXCEPT ![t] = @ + 1]
      /\ take' = take /\ ui' = ui
      /\ \/ accepted' = [accepted EXCEPT ![t] = Append(@, frame)] /\ pendingDisc' = pendingDisc \ {t}
         \/ accepted' = accepted /\ pendingDisc' = pendingDisc \cup {t}
  BY DEF Capture
<1>4. frame.take = take /\ frame.id = produced[t] + 1 /\ frame.disc = (t \in pendingDisc)
  OBVIOUS
<1>5. /\ GapsFlagged(h)
      /\ h # <<>> => /\ last.take <= take /\ last.id <= produced[t]
                     /\ last.take = take /\ last.id # produced[t] => t \in pendingDisc
                     /\ ToOpen(t) => last.take < take
  BY DEF GapInv
<1>6. h \in Seq(Frames) /\ (h # <<>> => last \in Frames)
  BY <1>1 DEF LastFrame
<1>7. ~ToOpen(t)
  <2>1. stream[t] = "running"
    BY DEF Capture
  <2>2. t \in installed \/ (ui.at = "install" /\ ui.track = t)
    BY <2>1 DEF PipelineInv
  <2>3. t \in installed => ~Absent(t)
    BY DEF PipelineInv
  <2>. QED
    BY <2>2, <2>3 DEF ToOpen, Absent, Released, Tracks
<1>8. \A u \in Tracks : ToOpen(u)' = ToOpen(u)
  BY <1>3 DEF ToOpen
<1>. HIDE DEF frame, h, last
<1>9. h # <<>> /\ last.take = frame.take /\ frame.id # last.id + 1 => frame.disc
  <2>1. h # <<>> => last.id \in Nat
    BY <1>6 DEF Frames
  <2>. QED
    BY <1>1, <1>4, <1>5, <2>1
<1>10. GapsFlagged(Append(h, frame))
  BY <1>2, <1>5, <1>6, <1>9, GapsAppend DEF LastFrame, last, h
<1>11. ASSUME NEW u \in Tracks
       PROVE  /\ GapsFlagged(accepted'[u])
              /\ accepted'[u] # <<>> =>
                   /\ LastFrame(u)'.take <= take'
                   /\ LastFrame(u)'.id <= produced'[u]
                   /\ LastFrame(u)'.take = take' /\ LastFrame(u)'.id # produced'[u]
                        => u \in pendingDisc'
                   /\ ToOpen(u)' => LastFrame(u)'.take < take'
  <2>1. CASE u # t
    <3>1. /\ accepted'[u] = accepted[u] /\ produced'[u] = produced[u]
          /\ (u \in pendingDisc' <=> u \in pendingDisc)
      BY <1>1, <1>3, <2>1
    <3>2. LastFrame(u)' = LastFrame(u)
      BY <3>1 DEF LastFrame
    <3>. QED
      BY <1>3, <1>8, <3>1, <3>2 DEF GapInv
  <2>2. CASE u = t /\ accepted' = accepted /\ pendingDisc' = pendingDisc \cup {t}
    <3>1. produced'[t] = produced[t] + 1 /\ t \in pendingDisc' /\ accepted'[t] = h
      BY <1>1, <1>3, <2>2 DEF h
    <3>2. LastFrame(t)' = last
      BY <2>2 DEF LastFrame, last
    <3>3. h # <<>> => last.id \in Nat
      BY <1>6 DEF Frames
    <3>4. h # <<>> => last.id <= produced'[t]
      BY <1>1, <1>5, <3>1, <3>3
    <3>. QED
      BY <1>3, <1>5, <1>7, <1>8, <2>2, <3>1, <3>2, <3>4
  <2>3. CASE u = t /\ accepted' = [accepted EXCEPT ![t] = Append(@, frame)]
    <3>1. produced'[t] = produced[t] + 1 /\ accepted'[t] = Append(h, frame)
      BY <1>1, <1>3, <2>3 DEF h
    <3>2. LastFrame(t)' = frame
      <4>1. Len(Append(h, frame)) = Len(h) + 1 /\ Append(h, frame)[Len(h) + 1] = frame
        BY <1>2, <1>6, AppendProperties
      <4>. QED
        BY <3>1, <4>1 DEF LastFrame
    <3>3. take <= take /\ produced[t] + 1 <= produced[t] + 1
      BY <1>1
    <3>. QED
      BY <1>3, <1>4, <1>7, <1>8, <1>10, <2>3, <3>1, <3>2, <3>3
  <2>. QED
    BY <1>3, <2>1, <2>2, <2>3
<1>. QED
  BY <1>11 DEF GapInv

\* A history that does not change, in a take whose streams are not opened again.
LEMMA GapKept ==
  ASSUME TypeOK, GapInv, UNCHANGED <<accepted, produced, take>>,
         \A t \in Tracks : (ToOpen(t)' => ToOpen(t)) /\
                           (t \in pendingDisc => t \in pendingDisc' \/ ToOpen(t))
  PROVE  GapInv'
<1>1. \A t \in Tracks : LastFrame(t)' = LastFrame(t)
  BY DEF LastFrame
<1>2. ASSUME NEW t \in Tracks, accepted[t] # <<>>
      PROVE  /\ LastFrame(t).take <= take
             /\ LastFrame(t).id <= produced[t]
             /\ LastFrame(t).take = take /\ LastFrame(t).id # produced[t] => t \in pendingDisc'
             /\ ToOpen(t)' => LastFrame(t).take < take
  <2>1. take \in Nat
    BY DEF TypeOK, CaptureTypes
  <2>2. LastFrame(t).take < take => LastFrame(t).take # take
    BY <2>1
  <2>. QED
    BY <1>2, <2>2 DEF GapInv
<1>. QED
  BY <1>1, <1>2 DEF GapInv

\* Every step keeps the histories flagged, and the debts owed.
LEMMA GapNext ==
  ASSUME TypeOK, StepInv, PipelineInv, GapInv, [Next]_vars
  PROVE  GapInv'
<1>. USE DEF coreVars, captureVars, Ready, Idle, At, Goto, ToOpen
<1>1. CASE Start
  <2>1. \A t \in Tracks : accepted'[t] = <<>>
    BY <1>1 DEF Start, Empty
  <2>. QED
    BY <2>1, GapsEmpty DEF GapInv
<1>2. CASE Resume
  <2>1. UNCHANGED <<accepted, produced, pendingDisc>> /\ take' = take + 1
    BY <1>2 DEF Resume
  <2>2. \A t \in Tracks : LastFrame(t)' = LastFrame(t)
    BY <2>1 DEF LastFrame
  <2>3. ASSUME NEW t \in Tracks, accepted[t] # <<>>
        PROVE  LastFrame(t).take < take + 1 /\ LastFrame(t).take <= take + 1 /\ LastFrame(t).take # take + 1
    <3>1. LastFrame(t).take <= take
      BY <2>3 DEF GapInv
    <3>2. LastFrame(t).take \in Nat /\ take \in Nat
      <4>1. accepted[t] \in Seq(Frames) /\ take \in Nat
        BY DEF TypeOK, CaptureTypes
      <4>2. LastFrame(t) \in Frames
        BY <2>3, <4>1 DEF LastFrame
      <4>. QED
        BY <4>1, <4>2 DEF Frames
    <3>. QED
      BY <3>1, <3>2
  <2>. QED
    BY <2>1, <2>2, <2>3 DEF GapInv
<1>3. ASSUME NEW t \in Tracks, Capture(t) PROVE GapInv'
  BY <1>3, CaptureGap
<1>4. ASSUME NEW t \in Tracks, OpenTrack(t) PROVE GapInv'
  <2>1. UNCHANGED <<accepted, produced, take>>
    BY <1>4 DEF OpenTrack
  <2>2. \A u \in Tracks : (ToOpen(u)' => ToOpen(u)) /\ (u \in pendingDisc => u \in pendingDisc' \/ ToOpen(u))
    BY <1>4 DEF OpenTrack, AfterTrack, Tracks
  <2>. QED
    BY <2>1, <2>2, GapKept
<1>5. ASSUME NEW t \in Tracks, Install(t) PROVE GapInv'
  <2>1. UNCHANGED <<accepted, produced, take, pendingDisc>>
    BY <1>5 DEF Install
  <2>2. \A u \in Tracks : ToOpen(u)' => ToOpen(u)
    BY <1>5 DEF Install, AfterTrack, Tracks
  <2>. QED
    BY <2>1, <2>2, GapKept
<1>6. CASE StartStt
  <2>1. UNCHANGED <<accepted, produced, take, pendingDisc>> /\ \A u \in Tracks : ToOpen(u)
    BY <1>6 DEF StartStt
  <2>. QED
    BY <2>1, GapKept
<1>7. CASE Select \/ StartRefused \/ StatsTick \/ Drain \/ UNCHANGED vars
  <2>1. UNCHANGED <<accepted, produced, take, pendingDisc, ui>>
    BY <1>7 DEF Select, StartRefused, StatsTick, Drain, DrainLock, DrainExit, DrainNext, DrainOne, vars
  <2>2. \A u \in Tracks : ToOpen(u)' = ToOpen(u)
    BY <2>1
  <2>. QED
    BY <2>1, <2>2, GapKept
<1>8. CASE \/ Pause \/ Stop \/ Destroy \/ Opened \/ OpenFailed \/ UiLock \/ UiDrainNext \/ DropPipelines
           \/ Discard \/ Finalize \/ SttDetach \/ SttJoin \/ Complete \/ JoinDrain
           \/ (\E t \in Tracks : Halt(t) \/ UiDrainOne(t))
  <2>1. UNCHANGED <<accepted, produced, take, pendingDisc>>
    BY <1>8 DEF Pause, Stop, Destroy, Opened, OpenFailed, UiLock, UiDrainNext, DropPipelines, Discard,
       Finalize, SttDetach, SttJoin, Complete, JoinDrain, Halt, UiDrainOne
  <2>2. ui'.at \notin {"stt", "open", "install"}
    <3>. USE DEF TypeOK, CoreTypes
    <3>1. CASE Pause \/ Stop \/ Destroy \/ Opened \/ OpenFailed \/ UiLock \/ UiDrainNext
      BY <3>1 DEF Pause, Stop, Destroy, Opened, OpenFailed, UiLock, UiDrainNext
    <3>2. CASE DropPipelines
      BY <3>2 DEF DropPipelines, AfterStreams
    <3>3. CASE Discard \/ Finalize \/ SttDetach \/ SttJoin \/ Complete \/ JoinDrain
      BY <3>3 DEF Discard, Finalize, SttDetach, SttJoin, Complete, JoinDrain
    <3>4. ASSUME NEW t \in Tracks, Halt(t) \/ UiDrainOne(t) PROVE ui'.at \notin {"stt", "open", "install"}
      BY <3>4 DEF Halt, UiDrainOne
    <3>. QED
      BY <1>8, <3>1, <3>2, <3>3, <3>4
  <2>3. \A u \in Tracks : ~ToOpen(u)'
    BY <2>2
  <2>. QED
    BY <2>1, <2>3, GapKept
<1>. QED
  BY <1>1, <1>2, <1>3, <1>4, <1>5, <1>6, <1>7, <1>8 DEF Next, User, Handler

\* The file and the upload are first parts of flagged histories.
LEMMA DropsNext ==
  ASSUME TypeOK', SelectedInv, NoSilentLoss', UploadIsComplete', GapInv', DropsAreFlagged,
         [Next]_vars
  PROVE  DropsAreFlagged'
<1>. USE DEF DropsAreFlagged
<1>1. /\ written' \in [Tracks -> Seq(Frames)] /\ ring' \in [Tracks -> Seq(Frames)]
      /\ uploaded' \in Seq(Frames)
  BY DEF TypeOK, CoreTypes, CaptureTypes, FileTypes
<1>2. CASE Start
  <2>1. uploaded' = <<>> /\ \A t \in Tracks : written'[t] = <<>>
    BY <1>2 DEF Start, Empty
  <2>. QED
    BY <2>1, GapsEmpty
<1>3. ASSUME NEW t \in Tracks, DrainOne(t) \/ UiDrainOne(t) PROVE DropsAreFlagged'
  <2>1. DrainFrame(t) /\ UNCHANGED <<stt, selected>>
    BY <1>3 DEF DrainOne, UiDrainOne, uiVars
  <2>2. GapsFlagged(uploaded')
    <3>1. CASE uploaded' = uploaded
      BY <3>1
    <3>2. CASE stt = "live" /\ FeedsStt(t)
      <4>1. t \in selected
        BY <2>1 DEF DrainFrame, SelectedInv
      <4>2. accepted'[t] = uploaded' \o ring'[t]
        BY <2>1, <3>2, <4>1 DEF UploadIsComplete, SttSourceTracks, FeedsStt
      <4>3. GapsFlagged(accepted'[t]) /\ ring'[t] \in Seq(Frames)
        BY <1>1 DEF GapInv
      <4>. QED
        BY <1>1, <4>2, <4>3, GapsPrefix
    <3>. QED
      BY <2>1, <3>1, <3>2 DEF DrainFrame
  <2>3. ASSUME NEW u \in Tracks PROVE GapsFlagged(written'[u])
    <3>1. CASE written' = written
      BY <3>1
    <3>2. CASE /\ written' = [written EXCEPT ![t] = Append(@, Head(ring[t]))]
               /\ writer' # "none" /\ ~writerFailed' /\ t \in writerTracks'
      <4>1. CASE u = t
        <5>1. accepted'[t] = written'[t] \o ring'[t]
          BY <3>2 DEF NoSilentLoss
        <5>2. GapsFlagged(accepted'[t]) /\ ring'[t] \in Seq(Frames) /\ written'[t] \in Seq(Frames)
          BY <1>1 DEF GapInv
        <5>. QED
          BY <4>1, <5>1, <5>2, GapsPrefix
      <4>2. CASE u # t
        <5>1. written'[u] = written[u]
          BY <1>1, <3>2, <4>2
        <5>. QED
          BY <5>1
      <4>. QED
        BY <4>1, <4>2
    <3>. QED
      BY <2>1, <3>1, <3>2 DEF DrainFrame
  <2>. QED
    BY <2>2, <2>3
<1>4. CASE UNCHANGED <<written, uploaded>>
  BY <1>4
<1>5. \/ Start \/ UNCHANGED <<written, uploaded>>
      \/ \E t \in Tracks : DrainOne(t) \/ UiDrainOne(t)
  BY DEF Next, User, Handler, Drain, Select, StartRefused, Pause, Resume, Stop, Destroy, StatsTick,
     SttJoin, DrainLock, DrainExit, DrainNext, StartStt, Opened, OpenFailed, UiLock, UiDrainNext,
     DropPipelines, Discard, Finalize, SttDetach, Complete, JoinDrain, Capture, OpenTrack, Install,
     Halt, coreVars, fileVars, vars
<1>. QED
  BY <1>2, <1>3, <1>4, <1>5

-----------------------------------------------------------------------------
(* The theorems                                                            *)

\* The invariant holds of a recorder that was just constructed.
LEMMA AudioBegins == Init => AudioInv
<1>. SUFFICES ASSUME Init PROVE AudioInv
  OBVIOUS
<1>. USE DEF Init, Idle, At, Empty
<1>1. \A t \in Tracks : accepted[t] = <<>> /\ written[t] = <<>>
  OBVIOUS
<1>2. SelectedInv /\ ReportInv /\ UploadInv /\ LossIsReported /\ UploadIsComplete
  BY DEF SelectedInv, ReportInv, UploadInv, LossIsReported, UploadIsComplete, Ready, Stopping
<1>3. GapInv /\ DropsAreFlagged
  BY <1>1, GapsEmpty DEF GapInv, DropsAreFlagged
<1>. QED
  BY <1>2, <1>3 DEF AudioInv

\* Every step preserves the invariant, given that of RecorderProofs.
LEMMA AudioSteps == IInv /\ AudioInv /\ [Next]_vars => IInv' /\ AudioInv'
<1>. SUFFICES ASSUME IInv, AudioInv, [Next]_vars PROVE IInv' /\ AudioInv'
  OBVIOUS
<1>1. IInv'
  BY NextInv
<1>2. SelectedInv' /\ UploadInv' /\ GapInv'
  BY SelectedNext, UploadStarts, GapNext DEF IInv, AudioInv
<1>3. ReportInv' /\ LossIsReported' /\ UploadIsComplete'
  BY ReportNext, UploadNext DEF IInv, AudioInv
<1>4. DropsAreFlagged'
  BY <1>1, <1>2, <1>3, DropsNext DEF IInv, AudioInv
<1>. QED
  BY <1>1, <1>2, <1>3, <1>4 DEF AudioInv

\* Both invariants hold of every behaviour.
LEMMA AudioHolds == Spec => [](IInv /\ AudioInv)
BY InitInv, AudioBegins, AudioSteps, PTL DEF Spec

(***************************************************************************)
(* What a full ring rejected is a flagged discontinuity in the file and in *)
(* the upload: the ring's backend owes the flag to the next accepted frame *)
(* (RingSink::onFrame), no opening of a stream forgives it within a take,  *)
(* and both outputs get first parts of what the rings accepted.            *)
(***************************************************************************)
THEOREM GapsShow == Spec => []DropsAreFlagged
BY AudioHolds, PTL DEF AudioInv

(***************************************************************************)
(* A live upload lacks nothing the source track's ring accepted, whatever  *)
(* happened to the writer (drainPipelineLocked feeds the client first).    *)
(***************************************************************************)
THEOREM UploadHoldsAll == Spec => []UploadIsComplete
BY AudioHolds, PTL DEF AudioInv

(***************************************************************************)
(* The idle state never hides that the last recording was lost or left     *)
(* partial: every handler that leads there has set lastError_.             *)
(***************************************************************************)
THEOREM LossIsTold == Spec => []LossIsReported
BY AudioHolds, PTL DEF AudioInv

(***************************************************************************)
(* Audio is deleted only by the cleanup of a start() that failed.          *)
(***************************************************************************)
THEOREM NothingIsDeleted == Spec => AudioIsNeverDeleted
<1>1. IInv /\ [Next]_vars =>
        [disk' = "removed" /\ disk # "removed" =>
           ui.op = "start" \/ \A t \in Tracks : written[t] = <<>>]_vars
  <2>. SUFFICES ASSUME IInv, [Next]_vars, disk' = "removed", disk # "removed"
                PROVE  ui.op = "start" \/ \A t \in Tracks : written[t] = <<>>
    OBVIOUS
  <2>1. Discard \/ (Finalize /\ NothingWritten)
    BY DEF Next, User, Handler, Drain, Select, StartRefused, Start, Pause, Resume, Stop,
       Destroy, StatsTick, SttJoin, DrainLock, DrainExit, DrainNext, DrainOne, DrainFrame,
       StartStt, Opened, OpenFailed, UiLock, UiDrainNext, DropPipelines, Finalize,
       SttDetach, Complete, JoinDrain, Capture, OpenTrack, Install, Halt, UiDrainOne,
       fileVars, vars
  <2>. QED
    BY <2>1 DEF Discard, NothingWritten, IInv, StepInv
<1>. QED
  BY <1>1, Induction, PTL DEF Spec, AudioIsNeverDeleted

=============================================================================
