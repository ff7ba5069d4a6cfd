-------------------------- MODULE MCRecordingWriter --------------------------
(***************************************************************************)
(* RecordingWriter with two tracks, frames shorter and longer than a chunk *)
(* and two names, so that a name is tried again after a failure and after  *)
(* a success.                                                              *)
(***************************************************************************)
EXTENDS RecordingWriter
=============================================================================
