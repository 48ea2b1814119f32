---------------------------- MODULE MCP2PNetwork ----------------------------
(***************************************************************************)
(* An instance of P2PNetwork for TLC: two connections with the same id,    *)
(* made by a bootnode list that repeats an address.  After it is made, an  *)
(* inbound connection is served by the same steps as a dialled one, and    *)
(* the same happens when a peer reconnects from the port it used before.   *)
(***************************************************************************)
EXTENDS P2PNetwork, TLC

MCPeerID == [c \in Conn |-> "outbound"]

=============================================================================
