------------------------------ MODULE Sessions ------------------------------
(***************************************************************************)
(* Connections, with a history of the connections each slot accepted: how  *)
(* far the two bits of a session id reach.  The slot draws the next of     *)
(* four ids for each connection it accepts, and with the fifth the first   *)
(* is in use again, while a datagram of the first may still be under way.  *)
(***************************************************************************)
EXTENDS Connections

CONSTANT Menus     \* the behaviours: bounds on connections begun, messages and
                   \* faults within those of Connections, on the datagrams under
                   \* way, and on the slots in use at the server.  With "loses" a
                   \* datagram that is lost makes room for others

ASSUME SessionsAssumption ==
  Menus \subseteq [connects : Nat, says : Nat, faults : Nat, datagrams : Nat,
                   slots : Nat \ {0}, loses : BOOLEAN]

VARIABLES menu,      \* the member of Menus this behaviour follows
          accepted   \* the connections each slot of the server has accepted

sessionVars == <<vars, menu, accepted>>

\* Where losses are counted there is no master server.
SessionsInit ==
  /\ Init
  /\ menu \in Menus
  /\ menu.loses => master = NoMaster
  /\ accepted = [p \in 0 .. ServerPeers - 1 |-> <<>>]

WithinMenu ==
  /\ used.connects <= menu.connects /\ used.says <= menu.says
  /\ used.faults <= menu.faults
  /\ Cardinality(net) <= menu.datagrams
  /\ \A p \in menu.slots .. ServerPeers - 1 : Peer(p).state = "DISCONNECTED"

\* A slot that accepts a connection draws another id than it had.
Accepting ==
  accepted' = [p \in DOMAIN accepted |->
                 IF Peer(p)'.incomingSessionID # Peer(p).incomingSessionID
                 THEN Append(accepted[p], Peer(p)'.connectID)
                 ELSE accepted[p]]

Lose(d) ==
  /\ menu.loses
  /\ net' = net \ {d}
  /\ UNCHANGED <<hosts, master, objects, clients, data, handled, heard, used>>

SessionsNext ==
  /\ Next \/ \E d \in net : Lose(d)
  /\ UNCHANGED menu
  /\ WithinMenu'
  /\ Accepting

SessionsSpec == SessionsInit /\ [][SessionsNext]_sessionVars

-----------------------------------------------------------------------------
(* Properties *)

\* The server handles a packet as coming from the connection it was sent on, or
\* from the fourth, the eighth ... connection of the slot after that one: a
\* datagram has to outlive three connections between to be taken for another's.
StrangersAreOld ==
  \A x \in handled :
    \/ x[1] = x[2]
    \/ \E p \in DOMAIN accepted : \E i, j \in DOMAIN accepted[p] :
         /\ accepted[p][i] = x[2] /\ accepted[p][j] = x[1]
         /\ j > i /\ (j - i) % 4 = 0
=============================================================================
