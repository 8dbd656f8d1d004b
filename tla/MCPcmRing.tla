------------------------------ MODULE MCPcmRing ------------------------------
(* Instance for TLC: three-byte frames in an eight-byte ring, counters     *)
(* that wrap at sixteen and twenty-four captured bytes, so that the array  *)
(* and the counters wrap in the middle of frames.                          *)
EXTENDS PcmRing
=============================================================================
