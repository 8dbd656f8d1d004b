--------------------------- MODULE MCEncodePipeline ---------------------------
(* Instance for TLC: three PCM frames per encode call, so that blocks of   *)
(* one to seven frames leave every possible residual.                      *)
EXTENDS EncodePipeline
=============================================================================
