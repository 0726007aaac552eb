----------------------------- MODULE MCIdentity -----------------------------
(***************************************************************************)
(* Identity for the line ga -- gb -- cb of compose.v2.yaml: each node has   *)
(* its neighbours as peers.                                                *)
(***************************************************************************)
EXTENDS Identity

MCPeers == [n \in Node |-> {m \in Node : m = n + 1 \/ n = m + 1}]
=============================================================================
