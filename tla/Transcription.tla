---------------------------- MODULE Transcription ----------------------------
(***************************************************************************)
(* A transcription from end to end: SttClient's stream, the updates the    *)
(* server sends on it (StreamTranscription in mock_stt_server.cpp), and    *)
(* the transcript the user sees (startSttStreaming() and applyTranscript() *)
(* in recorder_controller.cpp).                                            *)
(*                                                                         *)
(* The reader thread does not touch the transcript: it queues each update  *)
(* to the UI thread (posted), which applies it when it is back in its      *)
(* event loop.  Nothing but the event loop empties that queue, so stop()   *)
(* and the next start() may run before it does.  The n-th update of a      *)
(* session is a revision of a segment; segments are numbered from 0 in     *)
(* every session.                                                          *)
(***************************************************************************)
EXTENDS SttClient

CONSTANT Revisions  \* the server's revisionsPerSegment

ASSUME TranscriptAssumption == Revisions \in Nat \ {0}

VARIABLES
  posted,   \* updates queued to the UI thread
  lines,    \* transcriptSegmentIds_ and transcriptLines_
  applied,  \* history: updates applied since start() cleared the transcript
  mixed     \* history: it may hold updates of another session than the last

uiVars  == <<posted, lines, applied, mixed>>
allVars == <<vars, uiVars>>

\* The update the server sends for its n-th frame, as a revision of a segment.
Update(n) ==
  LET number == n \div FramesPerUpdate - 1
  IN [session  |-> starts,
      segment  |-> number \div Revisions,
      revision |-> (number % Revisions) + 1]

-----------------------------------------------------------------------------
\* Mutant of BeginSession: the transcript of the last session is kept.
BeginSessionOnTop ==
  /\ Start
  /\ applied' = 0 /\ mixed' = (posted # <<>>)
  /\ UNCHANGED <<posted, lines>>

\* startSttStreaming(): the transcript is cleared, then the stream opened.
BeginSession ==
  /\ Start
  /\ lines' = <<>> /\ applied' = 0 /\ mixed' = (posted # <<>>)
  /\ UNCHANGED posted

\* The endpoint cannot be reached; the transcript is cleared all the same.
BeginFails ==
  /\ at = "off"
  /\ lines' = <<>> /\ applied' = 0 /\ mixed' = TRUE
  /\ UNCHANGED <<vars, posted>>

\* readLoop: the callback queues the update to the UI thread.
ReadUpdate ==
  /\ Read
  /\ posted' = Append(posted, Update(Head(downstream)))
  /\ UNCHANGED <<lines, applied, mixed>>

\* Mutant of Applied: every revision is a line of its own.
AppliedAppending(update) == Append(lines, update)

\* Revisions replace the line of their segment; a new segment is appended.
Applied(update) ==
  IF \E i \in DOMAIN lines : lines[i].segment = update.segment
  THEN [i \in DOMAIN lines |->
          IF lines[i].segment = update.segment THEN update ELSE lines[i]]
  ELSE Append(lines, update)

\* applyTranscript(), from the event loop: the UI thread is not inside stop().
ApplyTranscript ==
  /\ posted # <<>> /\ at \in {"off", "on", "notify"}
  /\ posted' = Tail(posted)
  /\ lines' = Applied(Head(posted))
  /\ applied' = applied + 1
  /\ UNCHANGED <<vars, mixed>>

TranscriptInit ==
  /\ Init
  /\ posted = <<>> /\ lines = <<>> /\ applied = 0 /\ mixed = FALSE

\* What the other steps of the client and the server do is not seen here.
ClientStep ==
  \/ SendRefused \/ SendAccepted \/ Stop
  \/ Owner \/ Writer \/ ReadEnds \/ Server \/ StreamDies

TranscriptNext ==
  \/ BeginSession \/ BeginFails \/ ReadUpdate \/ ApplyTranscript
  \/ ClientStep /\ UNCHANGED uiVars

TranscriptSpec == TranscriptInit /\ [][TranscriptNext]_allVars

(***************************************************************************)
(* SttClient's fairness, over the variables of both modules.  The event    *)
(* loop owes nothing: the UI thread may be busy with other handlers.       *)
(***************************************************************************)
FairTranscriptSpec ==
  /\ TranscriptSpec
  /\ WF_allVars(Owner /\ UNCHANGED uiVars) /\ WF_allVars(Writer /\ UNCHANGED uiVars)
  /\ WF_allVars(ReadUpdate \/ (ReadEnds /\ UNCHANGED uiVars))
  /\ WF_allVars(Server /\ UNCHANGED uiVars)

-----------------------------------------------------------------------------
(* Properties                                                              *)

Updates == [session : Nat, segment : Nat, revision : 1 .. Revisions]

\* Every variable has its type.
TranscriptTypeOK ==
  /\ TypeOK
  /\ posted \in Seq(Updates) /\ lines \in Seq(Updates)
  /\ applied \in Nat /\ mixed \in BOOLEAN

\* What a session's first n updates should look like.
Shown(n) ==
  [i \in 1 .. (n + Revisions - 1) \div Revisions |->
     [session  |-> starts,
      segment  |-> i - 1,
      revision |-> IF i * Revisions <= n THEN Revisions ELSE n - (i - 1) * Revisions]]

(***************************************************************************)
(* "Latest revision per segment, in first-seen order": what is shown is    *)
(* the prefix of the session's updates applied so far, unless an update of *)
(* an earlier session was still queued when start() cleared the list.      *)
(***************************************************************************)
TranscriptIsLatest == ~mixed => lines = Shown(applied)

(***************************************************************************)
(* "Half-closes the stream, drains remaining transcript updates": after    *)
(* stop(), if nothing broke the stream, the server has read every accepted *)
(* frame, and the transcript shows all it had to say about them once the   *)
(* event loop has run.                                                     *)
(***************************************************************************)
TranscriptIsComplete ==
  at = "off" /\ peer = "done" =>
    /\ received = accepted
    /\ posted = <<>> /\ ~mixed =>
         lines = Shown(Len(received) \div FramesPerUpdate)

=============================================================================
