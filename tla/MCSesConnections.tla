-------------------------- MODULE MCSesConnections --------------------------
(* SesConnections on small instances; the configurations give the constants. *)
EXTENDS SesConnections
=============================================================================
