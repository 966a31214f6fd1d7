---------------------------- MODULE MCPaneSpawn ----------------------------
(* PaneSpawn on small instances; the configurations give the constants. *)
EXTENDS PaneSpawn
=============================================================================
