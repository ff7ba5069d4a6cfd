----------------------------- MODULE MCSpscRing -----------------------------
(***************************************************************************)
(* SpscRing with two usable slots of three, and more attempts than slots,  *)
(* so that both indexes wrap around while the peer reads stale values.     *)
(***************************************************************************)
EXTENDS SpscRing
=============================================================================
