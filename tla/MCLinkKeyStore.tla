---------------------------- MODULE MCLinkKeyStore ----------------------------
(* Small instances of LinkKeyStore. *)
EXTENDS LinkKeyStore, TLC

HeadsetSymmetry == Permutations(Devices)
=============================================================================
