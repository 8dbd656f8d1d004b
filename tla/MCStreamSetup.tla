---------------------------- MODULE MCStreamSetup ----------------------------
(* Instance for TLC: slider positions on, between and beyond the table     *)
(* entries of both modes, ties included (112 between 96 and 128 kbit/s,    *)
(* 201 between 152 and 250).                                               *)
EXTENDS StreamSetup
=============================================================================
