------------------------------ MODULE MCAppQuit ------------------------------
(***************************************************************************)
(* AppQuit with one short session: the main thread waits for a handler     *)
(* that waits for a half-close only the main thread would ask for.         *)
(***************************************************************************)
EXTENDS AppQuit
=============================================================================
