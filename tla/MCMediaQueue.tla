---------------------------- MODULE MCMediaQueue ----------------------------
(* Instance for TLC: a queue of two packets and three packets a session,   *)
(* so that it fills and wraps, over three connections.                     *)
EXTENDS MediaQueue
=============================================================================
