--------------------------- MODULE MCTranscription ---------------------------
(***************************************************************************)
(* Transcription with a queue and a window that both fill up, segments of  *)
(* two revisions, and a restart.                                           *)
(***************************************************************************)
EXTENDS Transcription
=============================================================================
