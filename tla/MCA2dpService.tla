--------------------------- MODULE MCA2dpService ---------------------------
(* Instance for TLC: two sessions, so that a stop, its late effects and    *)
(* the next start meet, and two reconnect attempts.                        *)
EXTENDS A2dpService
=============================================================================
