------------------------------ MODULE MCMarches -----------------------------
(***************************************************************************)
(* A game of two players on a board of 4 by 4, from the turn it starts in: *)
(* they move and stand in each other's way, and the first one buys.  The   *)
(* handlers do not look at the sender of an order, so one peer sends them  *)
(* all; nobody leaves.  One client watches.                                *)
(***************************************************************************)
EXTENDS Marches

CONSTANTS a1, a2

MCPeers  == {a1, a2}
MCCost   == [t \in {"soldier"} |-> 1]
MCOrders == {<<4, <<1, 2>>>>, <<1, <<2, 0>>>>, <<2, <<2, 0>>>>, <<6, <<0, 3>>>>}

\* The second player moves one character, and orders one it does not have.
Ordered == {<<1, 4>>, <<1, 1>>, <<1, 2>>, <<2, 4>>, <<2, 6>>}

\* What is read for a coordinate that was cut: itself, another, none of the board.
MCBehind == {<<0>>, <<2>>, <<9>>}

\* Both players joined, both ready, and the countdown over: reached from Init.
Lobby == SetReady(SetReady(AddPlayer(AddPlayer(EmptyBoard, a1), a2), 1, TRUE), 2, TRUE)

GameInit ==
  /\ board = StartBoard(Lobby)
  /\ startGameTimer = StartDelay
  /\ stage = "service"
  /\ event = NoEvent
  /\ members = {a1, a2}
  /\ sweep = NoSweep
  /\ sent = <<>>
  /\ replica = board
  /\ down = <<>>
  /\ garbled = "no"

Orders ==
  {NoEvent} \cup
  {From(a1, m) : m \in {x \in ClientPackets(a1) :
                          \/ x[1] = "GM" /\ <<x[2], x[3][1]>> \in Ordered
                          \/ x[1] = "GB" /\ x[2] = 1}}

GameSpec == GameInit /\ [][MarchNext(Orders)]_marchVars
=============================================================================
