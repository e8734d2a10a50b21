---------------------------- MODULE MCControlPath ----------------------------
(* ControlPath for TLC: one controller that talks, and one that may fall   *)
(* silent in its handshake.                                                *)
EXTENDS ControlPath
=============================================================================
