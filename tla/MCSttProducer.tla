---------------------------- MODULE MCSttProducer ----------------------------
(***************************************************************************)
(* SttProducer at factors three and one, with output frames of two         *)
(* samples, input frames that fill none, one or several of them, and a     *)
(* rate that create() refuses.                                             *)
(***************************************************************************)
EXTENDS SttProducer
MCStreamFormats ==
  {[hz |-> 1000, ms |-> 2, supported |-> TRUE],
   [hz |-> 3000, ms |-> 1, supported |-> TRUE],
   [hz |-> 2000, ms |-> 2, supported |-> TRUE]}
=============================================================================
