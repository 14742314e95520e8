--------------------------- MODULE MCSessionTurn ---------------------------
(***************************************************************************)
(* SessionTurn for TLC: a few items, two turns, every remote mode.         *)
(***************************************************************************)
EXTENDS SessionTurn

Modes == {"off", "auto", "required"}
=============================================================================
