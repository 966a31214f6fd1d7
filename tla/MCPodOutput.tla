---------------------------- MODULE MCPodOutput ----------------------------
(* PodOutput on small instances; the configurations give the constants. *)
EXTENDS PodOutput
=============================================================================
