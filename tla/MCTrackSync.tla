----------------------------- MODULE MCTrackSync -----------------------------
(***************************************************************************)
(* TrackSync with samples of two and a half ticks, so that both truncating *)
(* conversions lose something, a tolerance of more than a sample and a cap *)
(* beyond it.                                                              *)
(***************************************************************************)
EXTENDS TrackSync
MCTimestamps == 0 .. 20
=============================================================================
