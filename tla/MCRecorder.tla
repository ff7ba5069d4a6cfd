----------------------------- MODULE MCRecorder -----------------------------
(***************************************************************************)
(* Small instances of Recorder: rings of one slot, so that both the full   *)
(* ring and the race to drain it happen, and enough frames that a drop can *)
(* lie between two delivered frames.                                       *)
(***************************************************************************)
EXTENDS Recorder
=============================================================================
