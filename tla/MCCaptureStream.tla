--------------------------- MODULE MCCaptureStream ---------------------------
(***************************************************************************)
(* CaptureStream with a device buffer of two packets and enough packets    *)
(* that the device and the sink lose some in turn between two deliveries.  *)
(***************************************************************************)
EXTENDS CaptureStream
=============================================================================
