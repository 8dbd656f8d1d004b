-------------------------- MODULE MCSscDaemonLink --------------------------
(* Instance for TLC: six frames, at most two unanswered requests, any      *)
(* number of sessions, every fault of the daemon any number of times.      *)
EXTENDS SscDaemonLink
=============================================================================
