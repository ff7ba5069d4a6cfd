------------------------------ MODULE AppQuit ------------------------------
(***************************************************************************)
(* How the desktop application ends (apps/desktop-recorder/src/main.cpp).  *)
(* main() declares the controller before the in-process STT server, so     *)
(* once the event loop returns the server is torn down first, then the     *)
(* controller, whose destructor stops the STT client.  SttClient is the    *)
(* client and the stream; quit is the place of the main thread.            *)
(*                                                                         *)
(* While the main thread waits for the server no control can be clicked,   *)
(* so start() and stop() do not happen; the drain thread still sends.      *)
(***************************************************************************)
EXTENDS SttClient

VARIABLE quit   \* "running", "server", "controller" or "gone"

appVars == <<vars, quit>>

\* exec() returns: the main thread is in none of the client's calls.
Quit ==
  /\ quit = "running"
  /\ at \in {"off", "on", "notify"}
  /\ quit' = "server"
  /\ UNCHANGED vars

(***************************************************************************)
(* ~MockSttStreamServer: Shutdown() has no deadline, so it cancels no call *)
(* and returns when the handler has: at the half-close or a broken stream. *)
(***************************************************************************)
ServerGone ==
  /\ quit = "server" /\ peer # "up"
  /\ quit' = "controller"
  /\ UNCHANGED vars

\* ~RecorderController has stopped the client, if there was one.
ControllerGone ==
  /\ quit = "controller" /\ at = "off"
  /\ quit' = "gone"
  /\ UNCHANGED vars

\* Calls the controls make, and the destructor's call of stop().
Clicks == quit = "running" /\ (Start \/ Stop) /\ UNCHANGED quit

StopClient == quit = "controller" /\ Stop /\ UNCHANGED quit

\* What the other threads do, whatever the main thread waits for.
Threads(step) == quit # "gone" /\ step /\ UNCHANGED quit

AppInit == Init /\ quit = "running"

AppNext ==
  \/ Quit \/ ServerGone \/ ControllerGone \/ Clicks \/ StopClient
  \/ Threads(SendRefused \/ SendAccepted \/ Owner \/ Writer \/ Reader \/ Server \/ StreamDies)

AppSpec == AppInit /\ [][AppNext]_appVars

\* SttClient's fairness, and a main thread that goes on once it can.
AppFairness ==
  /\ WF_appVars(Threads(Owner)) /\ WF_appVars(Threads(Writer))
  /\ WF_appVars(Threads(Reader)) /\ WF_appVars(Threads(Server))
  /\ WF_appVars(ServerGone) /\ WF_appVars(StopClient) /\ WF_appVars(ControllerGone)

FairAppSpec == AppSpec /\ AppFairness

(***************************************************************************)
(* shutdown() "stops accepting and tears the server down"                  *)
(* (mock_stt_server.hpp): an application that quits gets past it.          *)
(***************************************************************************)
ServerIsTornDown == quit = "server" ~> quit # "server"

=============================================================================
