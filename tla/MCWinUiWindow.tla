---------------------------- MODULE MCWinUiWindow ----------------------------
(* A small instance of WinUiWindow. *)
EXTENDS WinUiWindow

\* Nothing is asked of the window once one of these is set, and none of them is
\* ever cleared: what follows need not be explored.
NotMisledForGood == ~refused /\ ~overlap /\ ~unguarded
=============================================================================
