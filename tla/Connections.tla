---------------------------- MODULE Connections -----------------------------
(***************************************************************************)
(* The game server and its clients as they use ENet: NetServer.cpp on one  *)
(* host, a NetClient.cpp on each of the others, and the datagrams between  *)
(* them, which may be lost, reordered and duplicated.  A client may leave, *)
(* crash and come back on the same address; a datagram of its earlier      *)
(* connection may arrive after that.                                       *)
(*                                                                         *)
(* One action is one call of ServerStep, or one round of the loop of Poll, *)
(* with the event it takes and the handler of that event.  A lost datagram *)
(* is one that stays in the net.  "announced" is what the application was  *)
(* told: the connection behind the client object of each peer.             *)
(***************************************************************************)
EXTENDS ENetService

CONSTANTS
  Server, Master,    \* the addresses of the game server and the master server
  Players,           \* the addresses of the clients
  ServerPeers,       \* peers of the server's host (MAX_CLIENTS + 1)
  MasterPeers,       \* peers of the master's host (MAX_CLIENTS of Master.cpp)
  Channels,          \* NUM_CHANNELS, CHANNEL_COUNT
  Verdicts,          \* what HandleConnect may return
  MaxConnects,       \* bound: connections begun
  MaxSays,           \* bound: messages the clients send
  MaxFaults,         \* bound: datagrams that arrive twice, and service calls
                     \*        in which a command times out
  Batch              \* bound: datagrams that one service call takes

ASSUME ConnectionsAssumption ==
  /\ {ServerPeers, MasterPeers, Channels} \subseteq Nat \ {0}
  /\ {MaxConnects, MaxSays, MaxFaults, Batch} \subseteq Nat
  /\ Verdicts \subseteq BOOLEAN
  /\ Server \notin Players /\ Master \notin Players \cup {Server}
  /\ Nobody \notin Players \cup {Server, Master}

VARIABLES
  hosts,        \* the ENet hosts that are open, by address
  net,          \* the datagrams that may still arrive
  master,       \* NetServer.master: a peer, or NoMaster
  objects,      \* the client objects, in the order they were allocated; "lost"
                \* counts the calls of HandleDisconnect for one
  clients,      \* NetServer.clients: a sequence of positions in objects
  data,         \* peer->data: the object of each peer of the server, 0 for NULL
  handled,      \* <<connection of the object, payload>> of each packet the server handled
  heard,        \* what each client was last told of its connection
  used          \* how much of each bound is used up

vars == <<hosts, net, master, objects, clients, data, handled, heard, used>>

NoMaster == ServerPeers
Sending == {"RELIABLE"}      \* the flags of every packet the game sends
DefaultChannel == 0
Reason == 121                \* the data of the server's enet_peer_disconnect

Peer(p) == hosts[Server].peers[p]

\* SetupServer, with a RegisterMaster that finds the address of the master or
\* not; a master that is found may run or not.
Init ==
  LET fresh == FreshHost(ServerPeers, Channels)
      Asking == Connect(fresh, Master, 2, 1, 0)
  IN /\ \/ /\ hosts = [a \in {Server} |-> fresh]
           /\ master = NoMaster
        \/ /\ hosts = [a \in {Server} |-> Asking]
           /\ master = 0
        \/ /\ hosts = [a \in {Server, Master} |->
                         IF a = Server THEN Asking ELSE FreshHost(MasterPeers, 1)]
           /\ master = 0
     /\ net = {} /\ objects = <<>> /\ clients = <<>>
     /\ data = [p \in 0 .. ServerPeers - 1 |-> 0]
     /\ handled = {}
     /\ heard = [a \in Players |-> "nothing"]
     /\ used = [connects |-> IF master = NoMaster THEN 0 ELSE 1, says |-> 0, faults |-> 0]

-----------------------------------------------------------------------------
(***************************************************************************)
(* The net.  A call of address a takes datagrams that are addressed to it  *)
(* and sends others; what it takes is gone, but for a duplicate.           *)
(***************************************************************************)
Batches(a) ==
  LET Mine == {d \in net : d.to = a}
  IN UNION {{s \in [1 .. n -> Mine] : \A i, j \in 1 .. n : s[i] = s[j] => i = j} :
            n \in 0 .. Batch}

Expirable(h) ==
  UNION {{<<p, o>> : o \in ToSet(h.peers[p].sentReliableCommands)} : p \in Slots(h)}

Timings(h) ==
  {NoChoices} \cup
  {[NoChoices EXCEPT !.expired = {x}, !.lost = l] :
     x \in IF used.faults < MaxFaults THEN Expirable(h) ELSE {},
     l \in {{}, Slots(h)}}

Late(choices) == IF choices.expired = {} THEN 0 ELSE 1

\* The call done at a, whose host becomes h after the application's part.
Called(a, choices, taken, h) ==
  \E kept \in {{}} \cup (IF used.faults + Late(choices) < MaxFaults
                         THEN {{d} : d \in taken} ELSE {}) :
    /\ hosts' = [hosts EXCEPT ![a] = [h EXCEPT !.event = NoEvent, !.sent = <<>>]]
    /\ net' = (net \ (taken \ kept)) \cup ToSet(h.sent)
    /\ used' = [used EXCEPT !.faults = @ + Cardinality(kept) + Late(choices)]

-----------------------------------------------------------------------------
(***************************************************************************)
(* NetServer::ServerStep, by the event that enet_host_service returned.    *)
(***************************************************************************)
Flushed(h) == Flush([h EXCEPT !.event = NoEvent], Server)

ServerIdle(choices, done) ==
  /\ done.host.event = NoEvent
  /\ Called(Server, choices, done.taken, done.host)
  /\ UNCHANGED <<master, objects, clients, data, handled, heard>>

\* A new client object, for the connection the event announces.
NewObject(done) ==
  LET p == done.host.event.peer
  IN /\ objects' = Append(objects, [peer |-> p, state |-> "AUTH", lost |-> 0,
                                    connection |-> done.host.peers[p].connectID])
     /\ data' = [data EXCEPT ![p] = Len(objects) + 1]

\* Mutated WithClient: the first slot is taken for empty.
WithClientFirst(n) == IF clients = <<>> THEN <<n>> ELSE [clients EXCEPT ![1] = n]

\* The first slot of the vector whose object is ST_EMPTY, or a new one.
WithClient(n) ==
  LET Unused(k) == objects[k].state = "EMPTY"
      at == SelectInSeq(clients, Unused)
  IN IF at = 0 THEN Append(clients, n) ELSE [clients EXCEPT ![at] = n]

ServerAccepts(choices, done) ==
  /\ done.host.event.type = "CONNECT" /\ done.host.event.peer # master
  /\ TRUE \in Verdicts
  /\ NewObject(done)
  /\ clients' = WithClient(Len(objects) + 1)
  /\ Called(Server, choices, done.taken, Flushed(done.host))
  /\ UNCHANGED <<master, handled, heard>>

ServerRefuses(choices, done) ==
  /\ done.host.event.type = "CONNECT" /\ done.host.event.peer # master
  /\ FALSE \in Verdicts
  /\ NewObject(done)
  /\ Called(Server, choices, done.taken,
            Flushed(PeerDisconnect([done.host EXCEPT !.event = NoEvent],
                                   done.host.event.peer, Reason, Server)))
  /\ UNCHANGED <<master, clients, handled, heard>>

ServerLosesClient(choices, done) ==
  /\ done.host.event.type = "DISCONNECT" /\ done.host.event.peer # master
  /\ data[done.host.event.peer] # 0
  /\ objects' = [objects EXCEPT ![data[done.host.event.peer]].state = "EMPTY",
                                ![data[done.host.event.peer]].lost = @ + 1]
  /\ Called(Server, choices, done.taken, Flushed(done.host))
  /\ UNCHANGED <<master, clients, data, handled, heard>>

ServerLosesMaster(choices, done) ==
  /\ done.host.event.type = "DISCONNECT" /\ done.host.event.peer = master
  /\ master' = NoMaster
  /\ Called(Server, choices, done.taken, Flushed(done.host))
  /\ UNCHANGED <<objects, clients, data, handled, heard>>

\* CONNECT of the master: MasterCheckin.
ServerChecksIn(choices, done) ==
  /\ done.host.event.type = "CONNECT" /\ done.host.event.peer = master
  /\ Called(Server, choices, done.taken,
            Flushed(With(done.host, master,
                         Send(done.host.peers[master], DefaultChannel, <<0>>, Sending))))
  /\ UNCHANGED <<master, objects, clients, data, handled, heard>>

\* What HandlePacket does with it is in DedicatedServer.
ServerHandlesPacket(choices, done) ==
  LET e == done.host.event
  IN /\ e.type = "RECEIVE"
     /\ data[e.peer] # 0
     /\ handled' = handled \cup {<<objects[data[e.peer]].connection, e.data[1]>>}
     /\ Called(Server, choices, done.taken, Flushed(done.host))
     /\ UNCHANGED <<master, objects, clients, data, heard>>

ServerTakes(choices, done) ==
  \/ ServerIdle(choices, done)
  \/ ServerAccepts(choices, done)
  \/ ServerRefuses(choices, done)
  \/ ServerChecksIn(choices, done)
  \/ ServerLosesClient(choices, done)
  \/ ServerLosesMaster(choices, done)
  \/ ServerHandlesPacket(choices, done)

ServerStep ==
  \E batch \in Batches(Server), choices \in Timings(hosts[Server]) :
    ServerTakes(choices, Service(hosts[Server], Server, batch, choices, TRUE))

\* The master server as a host; its list is in MasterServer.
MasterTakes(choices, done) ==
  Called(Master, choices, done.taken,
         IF done.host.event = NoEvent THEN done.host
         ELSE Flush([done.host EXCEPT !.event = NoEvent], Master))

MasterSteps ==
  /\ Master \in DOMAIN hosts
  /\ \E batch \in Batches(Master), choices \in Timings(hosts[Master]) :
       MasterTakes(choices, Service(hosts[Master], Master, batch, choices, TRUE))
  /\ UNCHANGED <<master, objects, clients, data, handled, heard>>

-----------------------------------------------------------------------------
(***************************************************************************)
(* NetClient.  The host of a client exists from Connect to Disconnect (or  *)
(* the destructor); the peer of the server is its peer 0.                  *)
(***************************************************************************)
ClientConnects(a) ==
  /\ a \notin DOMAIN hosts
  /\ used.connects < MaxConnects
  /\ hosts' = [b \in DOMAIN hosts \cup {a} |->
                 IF b = a THEN Connect(FreshHost(2, Channels), Server, Channels,
                                       used.connects + 1, 0)
                 ELSE hosts[b]]
  /\ heard' = [heard EXCEPT ![a] = "nothing"]
  /\ used' = [used EXCEPT !.connects = @ + 1]
  /\ UNCHANGED <<net, master, objects, clients, data, handled>>

Told(e, old) == CASE e.type = "CONNECT" -> "connected"
                  [] e.type = "DISCONNECT" -> "disconnected"
                  [] OTHER -> old

ClientTakes(a, choices, done) ==
  /\ Called(a, choices, done.taken, done.host)
  /\ heard' = [heard EXCEPT ![a] = Told(done.host.event, @)]

ClientPolls(a) ==
  /\ a \in DOMAIN hosts
  /\ \E batch \in Batches(a), choices \in Timings(hosts[a]) :
       ClientTakes(a, choices, Service(hosts[a], a, batch, choices, TRUE))
  /\ UNCHANGED <<master, objects, clients, data, handled>>

\* SendMessage; the payload stands for the connection it is sent on.
ClientSays(a) ==
  /\ a \in DOMAIN hosts
  /\ used.says < MaxSays
  /\ MaySend(hosts[a].peers[0], DefaultChannel)
  /\ hosts' = [hosts EXCEPT ![a] =
                 With(@, 0, Send(@.peers[0], DefaultChannel, <<@.peers[0].connectID>>,
                                 Sending))]
  /\ used' = [used EXCEPT !.says = @ + 1]
  /\ UNCHANGED <<net, master, objects, clients, data, handled, heard>>

Closed(a) == hosts' = [b \in DOMAIN hosts \ {a} |-> hosts[b]]

ClientDisconnects(a) ==
  /\ a \in DOMAIN hosts
  /\ net' = net \cup ToSet(DisconnectNow(hosts[a], 0, Reason, a).sent)
  /\ Closed(a)
  /\ UNCHANGED <<master, objects, clients, data, handled, heard, used>>

ClientCrashes(a) ==
  /\ a \in DOMAIN hosts
  /\ Closed(a)
  /\ UNCHANGED <<net, master, objects, clients, data, handled, heard, used>>

-----------------------------------------------------------------------------
Next ==
  \/ ServerStep
  \/ MasterSteps
  \/ \E a \in Players : \/ ClientConnects(a)
                        \/ ClientPolls(a)
                        \/ ClientSays(a)
                        \/ ClientDisconnects(a)
                        \/ ClientCrashes(a)

Spec == Init /\ [][Next]_vars

-----------------------------------------------------------------------------
(***************************************************************************)
(* Properties.                                                             *)
(***************************************************************************)
\* Whoever waits has what ends the wait: a peer that asked for something (a
\* connection, its acknowledgement, its end) still has the command it asked with,
\* to send it again or give the peer up, and a peer that has something for the
\* application is in the queue to be asked, once.
WaitsFor(peer) ==
  CASE peer.state = "CONNECTING" -> {"CONNECT"}
    [] peer.state = "ACKNOWLEDGING_CONNECT" -> {"VERIFY_CONNECT"}
    [] peer.state = "DISCONNECTING" -> {"DISCONNECT"}
    [] OTHER -> {}

Unfinished(peer) ==
  {o.command.type : o \in ToSet(peer.outgoingReliableCommands)
                          \cup ToSet(peer.sentReliableCommands)}

NobodyStuck ==
  \A a \in DOMAIN hosts : \A p \in Slots(hosts[a]) :
    LET peer == hosts[a].peers[p]
    IN /\ WaitsFor(peer) \subseteq Unfinished(peer)
       /\ peer.state = "ACKNOWLEDGING_DISCONNECT" =>
            \E command \in ToSet(peer.acknowledgements) : command.type = "DISCONNECT"
       /\ \/ peer.state \in {"CONNECTION_PENDING", "CONNECTION_SUCCEEDED", "ZOMBIE"}
          \/ peer.state = "CONNECTED" /\ peer.dispatchedCommands # <<>>
          => peer.needsDispatch
       /\ Cardinality({i \in DOMAIN hosts[a].dispatchQueue : hosts[a].dispatchQueue[i] = p})
            = IF peer.needsDispatch THEN 1 ELSE 0

\* A peer whose connection was announced to the application and not yet
\* reported over.
Announced(p) ==
  Peer(p).state \in {"CONNECTED", "DISCONNECTING", "DISCONNECT_LATER",
                     "ACKNOWLEDGING_DISCONNECT", "ZOMBIE"}

\* What the server believes of its clients is what ENet knows: an announced
\* peer (not the master's) has a live client object made for the connection it
\* is in, every live object belongs to such a peer, and the end of each was
\* reported once.  So the handler of DISCONNECT never finds the object of
\* another connection.
ObjectsMatchPeers ==
  /\ \A p \in 0 .. ServerPeers - 1 :
       Announced(p) /\ p # master =>
         /\ data[p] # 0
         /\ objects[data[p]] = [peer |-> p, state |-> "AUTH", lost |-> 0,
                                connection |-> Peer(p).connectID]
  /\ \A n \in DOMAIN objects :
       objects[n].state = "AUTH" =>
         Announced(objects[n].peer) /\ data[objects[n].peer] = n
  /\ \A n \in DOMAIN objects : objects[n].state = "EMPTY" => objects[n].lost = 1

\* Broadcast reaches each live peer once: no two slots of the vector hold live
\* objects of one peer, and only refused clients are missing.
BroadcastOnce ==
  /\ \A i, j \in DOMAIN clients : clients[i] = clients[j] => i = j
  /\ \A n \in DOMAIN objects :
       /\ objects[n].state = "AUTH"
       /\ Peer(objects[n].peer).state = "CONNECTED"
       => n \in ToSet(clients)

\* The two ends of a connection that both call established agree on where the
\* other is and under which session ids; and a CONNECT that arrives twice makes
\* one peer.
EndsAgree ==
  /\ \A p, q \in 0 .. ServerPeers - 1 :
       /\ p # q
       /\ Peer(p).state # "DISCONNECTED" /\ Peer(q).state # "DISCONNECTED"
       /\ Peer(p).address = Peer(q).address
       => Peer(p).connectID # Peer(q).connectID
  /\ \A a \in Players \cap DOMAIN hosts :
       LET mine == hosts[a].peers[0]
           p == mine.outgoingPeerID
       IN mine.state = "CONNECTED" =>
            /\ p \in 0 .. ServerPeers - 1
            /\ Peer(p).connectID = mine.connectID =>
                 /\ Peer(p).address = a /\ Peer(p).outgoingPeerID = 0
                 /\ mine.incomingSessionID = Peer(p).outgoingSessionID
                 /\ mine.outgoingSessionID = Peer(p).incomingSessionID
=============================================================================
