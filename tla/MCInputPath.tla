---------------------------- MODULE MCInputPath ----------------------------
(* InputPath on small instances; the configurations give the constants. *)
EXTENDS InputPath
=============================================================================
