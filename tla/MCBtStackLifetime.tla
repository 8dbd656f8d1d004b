-------------------------- MODULE MCBtStackLifetime --------------------------
(* Two headsets answer inquiries; scans, sessions and resets without bound. *)
EXTENDS BtStackLifetime
=============================================================================
