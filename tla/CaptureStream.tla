---------------------------- MODULE CaptureStream ----------------------------
(***************************************************************************)
(* A capture stream as the recorder gets it from a backend, in its Windows *)
(* form: WasapiCaptureStream (platform/windows/audio-wasapi/src/           *)
(* wasapi_capture_stream.cpp), from start() to stop().                     *)
(*                                                                         *)
(*  - the owner (the UI thread) creates the stream and its thread, waits   *)
(*    for the thread to report how initialization went, and later stops    *)
(*    the stream by an event and a join;                                   *)
(*  - the capture thread opens the device, then moves every packet of the  *)
(*    shared device buffer to the sink, which may reject it.               *)
(*                                                                         *)
(* The locals initResult and initDone of start() are shared with the       *)
(* thread by reference: they are alive as long as the owner is inside.     *)
(* The device loses packets when its buffer is full and at will; it flags  *)
(* the packet after a loss.  A packet is its number among those the device *)
(* captured and that flag.                                                 *)
(***************************************************************************)
EXTENDS Naturals, Sequences

CONSTANTS DeviceBuffer,  \* packets the shared device buffer holds
          MaxPackets     \* bound: packets the device captures

ASSUME StreamAssumption == DeviceBuffer \in Nat \ {0} /\ MaxPackets \in Nat

VARIABLES
  at,            \* the owner: "off", a step of start() or stop(), or what they led to
  thread,        \* the capture thread: not created yet, a step of run(), or exited
  initResult,    \* start()'s local: "unknown", "ok" or "error"
  initDone,      \* start()'s event: "none", "reset", "set" or "closed"
  stopEvent,     \* stopEvent_ is set
  captured,      \* packets the device captured, lost ones included
  glitch,        \* the device lost a packet since the last one it buffered
  buffered,      \* the device's shared buffer
  invalid,       \* the device is gone
  packet,        \* the packet the thread took from the buffer, if any
  pendingDisc,   \* pendingDiscontinuity_
  framesEmitted, framesDropped, nextSequence,  \* the statistics
  delivered      \* history: the frames the sink accepted

ownerVars  == <<at, stopEvent>>
shared     == <<initResult, initDone>>
deviceVars == <<captured, glitch, buffered, invalid>>
frameVars  == <<pendingDisc, framesEmitted, framesDropped, nextSequence, delivered>>
vars == <<ownerVars, thread, shared, deviceVars, packet, frameVars>>

-----------------------------------------------------------------------------
(* The owner: start() and stop().                                          *)

\* The events cannot be created, or the thread runs from here on.
Start ==
  /\ at = "off"
  /\ \/ at' = "failed" /\ UNCHANGED <<thread, initDone>>
     \/ at' = "waiting" /\ thread' = "init" /\ initDone' = "reset"
  /\ UNCHANGED <<stopEvent, initResult, deviceVars, packet, frameVars>>

\* Mutant of Started: the wait for the thread times out.
StartedInTime ==
  /\ at = "waiting"
  /\ initDone' = "closed"
  /\ at' = IF initResult = "error" THEN "join" ELSE "started"
  /\ UNCHANGED <<stopEvent, thread, initResult, deviceVars, packet, frameVars>>

\* The thread has reported: close the event, read the result, return or join.
Started ==
  /\ at = "waiting" /\ initDone = "set"
  /\ initDone' = "closed"
  /\ at' = IF initResult = "error" THEN "join" ELSE "started"
  /\ UNCHANGED <<stopEvent, thread, initResult, deviceVars, packet, frameVars>>

JoinFailed ==
  /\ at = "join" /\ thread = "exited"
  /\ at' = "failed"
  /\ UNCHANGED <<stopEvent, thread, shared, deviceVars, packet, frameVars>>

Stop ==
  /\ at = "started"
  /\ stopEvent' = TRUE
  /\ at' = "stopping"
  /\ UNCHANGED <<thread, shared, deviceVars, packet, frameVars>>

\* Mutant of StopJoin: the thread is left to end by itself.
StopDetach ==
  /\ at = "stopping"
  /\ at' = "stopped"
  /\ UNCHANGED <<stopEvent, thread, shared, deviceVars, packet, frameVars>>

StopJoin ==
  /\ at = "stopping" /\ thread = "exited"
  /\ at' = "stopped"
  /\ UNCHANGED <<stopEvent, thread, shared, deviceVars, packet, frameVars>>

-----------------------------------------------------------------------------
(* The capture thread: run() and captureLoop().                            *)

\* Any of the calls that open the device may fail; the last one starts it.
Initialize ==
  /\ thread = "init"
  /\ initResult' \in {"ok", "error"}
  /\ thread' = "report"
  /\ UNCHANGED <<ownerVars, initDone, deviceVars, packet, frameVars>>

\* Mutant of Report: a failed initialization is not reported.
ReportSuccess ==
  /\ thread = "report"
  /\ initDone' = IF initResult = "ok" THEN "set" ELSE initDone
  /\ thread' = IF initResult = "ok" THEN "wait" ELSE "exited"
  /\ UNCHANGED <<ownerVars, initResult, deviceVars, packet, frameVars>>

Report ==
  /\ thread = "report"
  /\ initDone' = "set"
  /\ thread' = IF initResult = "ok" THEN "wait" ELSE "exited"
  /\ UNCHANGED <<ownerVars, initResult, deviceVars, packet, frameVars>>

\* Data, a timeout or a failure of the wait; the stop event comes first.
Wait ==
  /\ thread = "wait"
  /\ \/ thread' = "leave"
     \/ ~stopEvent /\ thread' = "packets"
  /\ UNCHANGED <<ownerVars, shared, deviceVars, packet, frameVars>>

\* GetNextPacketSize, GetBuffer and ReleaseBuffer: one packet, none, or an error.
NextPacket ==
  /\ thread = "packets"
  /\ \/ invalid /\ thread' = "leave" /\ UNCHANGED <<buffered, packet>>
     \/ /\ ~invalid /\ buffered = <<>>
        /\ thread' = "wait"
        /\ UNCHANGED <<buffered, packet>>
     \/ /\ ~invalid /\ buffered # <<>>
        /\ packet' = <<Head(buffered)>>
        /\ buffered' = Tail(buffered)
        /\ thread' = "deliver"
  /\ UNCHANGED <<ownerVars, shared, captured, glitch, invalid, frameVars>>

\* Mutant of Deliver: a rejection hides the flag the device raised before.
DeliverLatest ==
  /\ thread = "deliver"
  /\ LET frame == [number |-> packet[1].number, sequence |-> nextSequence,
                   disc |-> packet[1].disc]
     IN \/ /\ delivered' = Append(delivered, frame)
           /\ framesEmitted' = framesEmitted + 1
           /\ pendingDisc' = FALSE
           /\ UNCHANGED framesDropped
        \/ /\ framesDropped' = framesDropped + 1
           /\ pendingDisc' = TRUE
           /\ UNCHANGED <<delivered, framesEmitted>>
  /\ nextSequence' = nextSequence + 1
  /\ packet' = <<>>
  /\ thread' = "packets"
  /\ UNCHANGED <<ownerVars, shared, deviceVars>>

\* Mutant of Deliver: a rejected packet is kept for another try.
DeliverRetry ==
  /\ thread = "deliver"
  /\ LET frame == [number |-> packet[1].number, sequence |-> nextSequence,
                   disc |-> pendingDisc \/ packet[1].disc]
     IN \/ /\ delivered' = Append(delivered, frame)
           /\ framesEmitted' = framesEmitted + 1
           /\ pendingDisc' = FALSE
           /\ packet' = <<>>
           /\ UNCHANGED framesDropped
        \/ /\ framesDropped' = framesDropped + 1
           /\ pendingDisc' = TRUE
           /\ UNCHANGED <<delivered, framesEmitted, packet>>
  /\ nextSequence' = nextSequence + 1
  /\ thread' = "packets"
  /\ UNCHANGED <<ownerVars, shared, deviceVars>>

\* sink_->onFrame: accepted, or rejected and owed to the next frame.
Deliver ==
  /\ thread = "deliver"
  /\ LET frame == [number |-> packet[1].number, sequence |-> nextSequence,
                   disc |-> pendingDisc \/ packet[1].disc]
     IN \/ /\ delivered' = Append(delivered, frame)
           /\ framesEmitted' = framesEmitted + 1
           /\ pendingDisc' = FALSE
           /\ UNCHANGED framesDropped
        \/ /\ framesDropped' = framesDropped + 1
           /\ pendingDisc' = TRUE
           /\ UNCHANGED <<delivered, framesEmitted>>
  /\ nextSequence' = nextSequence + 1
  /\ packet' = <<>>
  /\ thread' = "packets"
  /\ UNCHANGED <<ownerVars, shared, deviceVars>>

\* The device is stopped and the thread ends.
Leave ==
  /\ thread = "leave"
  /\ thread' = "exited"
  /\ UNCHANGED <<ownerVars, shared, deviceVars, packet, frameVars>>

-----------------------------------------------------------------------------
(* The device, from the call that starts it to the one that stops it.      *)

DeviceRuns == initResult = "ok" /\ thread # "exited" /\ ~invalid

DeviceCaptures ==
  /\ DeviceRuns /\ captured < MaxPackets
  /\ captured' = captured + 1
  /\ \/ /\ Len(buffered) < DeviceBuffer
        /\ buffered' = Append(buffered, [number |-> captured + 1, disc |-> glitch])
        /\ glitch' = FALSE
     \/ glitch' = TRUE /\ UNCHANGED buffered
  /\ UNCHANGED <<ownerVars, thread, shared, invalid, packet, frameVars>>

DeviceDies ==
  /\ DeviceRuns
  /\ invalid' = TRUE
  /\ UNCHANGED <<ownerVars, thread, shared, captured, glitch, buffered, packet, frameVars>>

-----------------------------------------------------------------------------
Owner   == Start \/ Started \/ JoinFailed \/ Stop \/ StopJoin
Capture == Initialize \/ Report \/ Wait \/ NextPacket \/ Deliver \/ Leave

Init ==
  /\ at = "off" /\ stopEvent = FALSE
  /\ thread = "none" /\ initResult = "unknown" /\ initDone = "none"
  /\ captured = 0 /\ glitch = FALSE /\ buffered = <<>> /\ invalid = FALSE
  /\ packet = <<>> /\ pendingDisc = FALSE
  /\ framesEmitted = 0 /\ framesDropped = 0 /\ nextSequence = 0
  /\ delivered = <<>>

Next == Owner \/ Capture \/ DeviceCaptures \/ DeviceDies

Spec == Init /\ [][Next]_vars

(***************************************************************************)
(* Fairness: the capture thread runs, and a call of the owner goes on when *)
(* what it waits for has come (both waits are without a time limit).       *)
(* Nobody has to start or to stop; the device owes nothing.                *)
(***************************************************************************)
FairSpec ==
  /\ Spec
  /\ WF_vars(Capture) /\ WF_vars(Started \/ JoinFailed \/ StopJoin)

-----------------------------------------------------------------------------
(* Properties                                                              *)

Packets == [number : Nat, disc : BOOLEAN]
Frames  == [number : Nat, sequence : Nat, disc : BOOLEAN]

\* Every variable has its type, and the thread holds a packet when it delivers one.
TypeOK ==
  /\ at \in {"off", "waiting", "join", "failed", "started", "stopping", "stopped"}
  /\ thread \in {"none", "init", "report", "wait", "packets", "deliver", "leave", "exited"}
  /\ initResult \in {"unknown", "ok", "error"}
  /\ initDone \in {"none", "reset", "set", "closed"}
  /\ stopEvent \in BOOLEAN
  /\ captured \in Nat /\ glitch \in BOOLEAN /\ invalid \in BOOLEAN
  /\ buffered \in Seq(Packets) /\ Len(buffered) <= DeviceBuffer
  /\ packet \in Seq(Packets) /\ Len(packet) = IF thread = "deliver" THEN 1 ELSE 0
  /\ pendingDisc \in BOOLEAN
  /\ framesEmitted \in Nat /\ framesDropped \in Nat /\ nextSequence \in Nat
  /\ delivered \in Seq(Frames)

(***************************************************************************)
(* A frame that "does not butt seamlessly against the previous sequence    *)
(* number on its track" says so (frame.hpp): whatever was lost between two *)
(* frames the sink accepted, by the device, by the sink or by both in      *)
(* turn, the later one is flagged.                                         *)
(***************************************************************************)
LossIsFlagged ==
  \A i \in 1 .. Len(delivered) :
    delivered[i].number # (IF i = 1 THEN 1 ELSE delivered[i - 1].number + 1)
      => delivered[i].disc

(***************************************************************************)
(* "After stop() returns, no further onFrame calls occur": the sink, which *)
(* the owner destroys next, is not used once start() has failed or stop()  *)
(* has returned.                                                           *)
(***************************************************************************)
NoFrameAfterStop ==
  [][framesEmitted' + framesDropped' # framesEmitted + framesDropped =>
       at \notin {"failed", "stopped"}]_vars

(***************************************************************************)
(* "So waiting here (not a timed wait) keeps their lifetimes sound": until *)
(* the thread has signalled initDone, which it does last, start() and its  *)
(* locals are alive.                                                       *)
(***************************************************************************)
LocalsOutliveTheirUse == thread \in {"init", "report"} => at = "waiting" /\ initDone = "reset"

(***************************************************************************)
(* start() and stop() wait on the UI thread without a time limit: whatever *)
(* fails while the device is opened, and also when the device died and the *)
(* thread ended by itself, both come back.                                 *)
(***************************************************************************)
CallsReturn ==
  /\ at = "waiting" ~> at \in {"started", "failed"}
  /\ at = "stopping" ~> at = "stopped"

=============================================================================
