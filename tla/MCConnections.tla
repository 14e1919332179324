---------------------------- MODULE MCConnections ----------------------------
(***************************************************************************)
(* Connections with few callers and few connections.                       *)
(***************************************************************************)
EXTENDS Connections
=============================================================================
