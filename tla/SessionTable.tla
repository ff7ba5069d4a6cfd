---------------------------- MODULE SessionTable ----------------------------
(***************************************************************************)
(* The recording-session lifecycle table of audio-core:                    *)
(* RecordingSession::transition in libs/cpp/audio-core/src/session.cpp.    *)
(* It is a pure function, so it is kept apart from the state machines that *)
(* use it (RecordingSession, Recorder).                                    *)
(***************************************************************************)

SessionStates ==
  {"Idle", "Recording", "Paused", "Stopping", "Stopped", "Failed"}

SessionEvents ==
  {"Start", "Pause", "Resume", "Stop", "StopComplete", "Fault", "Reset"}

\* Terminal states only leave through Reset, and only they do.
Terminal == {"Stopped", "Failed"}

(***************************************************************************)
(* The states from which an event is legal, and the state it leads to.     *)
(***************************************************************************)
Sources(event) ==
  CASE event = "Start"        -> {"Idle"}
    [] event = "Pause"        -> {"Recording"}
    [] event = "Resume"       -> {"Paused"}
    [] event = "Stop"         -> {"Recording", "Paused"}
    [] event = "StopComplete" -> {"Stopping"}
    [] event = "Fault"        -> SessionStates \ Terminal
    [] event = "Reset"        -> Terminal

Target(event) ==
  CASE event = "Start"        -> "Recording"
    [] event = "Pause"        -> "Paused"
    [] event = "Resume"       -> "Recording"
    [] event = "Stop"         -> "Stopping"
    [] event = "StopComplete" -> "Stopped"
    [] event = "Fault"        -> "Failed"
    [] event = "Reset"        -> "Idle"

\* transition(from, event).has_value()
Legal(from, event) == from \in Sources(event)

\* handle() keeps the state when the transition is illegal.
Transition(from, event) == IF Legal(from, event) THEN Target(event) ELSE from

=============================================================================
