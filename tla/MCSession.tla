------------------------------ MODULE MCSession ------------------------------
(***************************************************************************)
(* The server and two clients that connect, toggle their flag, buy, leave  *)
(* and come back in every order.                                           *)
(***************************************************************************)
EXTENDS SessionClaims, TLC

CONSTANTS a1, a2

MCPeers    == {a1, a2}
MCCost     == [t \in {"soldier"} |-> 1]
MCNoCost   == [t \in {} |-> 0]
MCNoOrders == {}

PeerSymmetry == Permutations(MCPeers)
=============================================================================
