--------------------------- MODULE MCBtConnection ---------------------------
(* Instance for TLC: two or three sessions on one transport and two        *)
(* reconnect attempts, so that answers to one attempt can meet the next.   *)
EXTENDS BtConnection
=============================================================================
