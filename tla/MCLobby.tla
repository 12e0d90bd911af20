------------------------------- MODULE MCLobby -------------------------------
(***************************************************************************)
(* The server and the observer of its countdown, from an empty lobby to    *)
(* the end of a game, with nobody moving: who is a player, who is ready,   *)
(* who is left.                                                            *)
(***************************************************************************)
EXTENDS Countdown, TLC

CONSTANTS a1, a2, a3

MCPeers    == {a1, a2, a3}
MCCost     == [t \in {"soldier"} |-> 1]
MCNoOrders == {}

\* The server compares addresses and never orders them.
PeerSymmetry == Permutations(MCPeers)
=============================================================================
