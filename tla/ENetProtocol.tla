---------------------------- MODULE ENetProtocol ----------------------------
(***************************************************************************)
(* A host of ENet (src/src/enet/protocol.c, and the connection side of     *)
(* host.c and peer.c): what becomes of it when a datagram arrives, when it *)
(* sends, and when the application calls it.  Every function of the source *)
(* that changes a host is an operator from the host before the call to the *)
(* host after it.                                                          *)
(*                                                                         *)
(* A host is a record: its peers by number, the queue of peers with        *)
(* something to dispatch, the event that a call hands to the application,  *)
(* and the datagrams a call sends.  "wants" says whether the application   *)
(* passed an event to fill (event != NULL).                                *)
(*                                                                         *)
(* Time is left out: which of the commands sent have timed out, whether    *)
(* the peer is given up for it, and whether it was silent long enough for  *)
(* a ping are choices of the caller.  ENetFlow has the clock.              *)
(***************************************************************************)
EXTENDS ENetPeer, FiniteSets

CONSTANTS
  Nobody,            \* the address of a peer that was never connected
  MaxPacketCommands, \* ENET_PROTOCOL_MAXIMUM_PACKET_COMMANDS, 32
  TransitLimit       \* the most reliable bytes in transit to a peer

ASSUME ProtocolAssumption ==
  /\ MaxPacketCommands \in Nat \ {0}
  /\ TransitLimit \in Nat /\ TransitLimit >= FragmentLength

NoPeer == MaximumPeerID     \* NULL for a peer

NoEvent == [type |-> "NONE", peer |-> 0, channelID |-> 0, data |-> <<>>]
Event(type, p, data) == [type |-> type, peer |-> p, channelID |-> 0, data |-> <<data>>]

Slots(h) == DOMAIN h.peers

\* enet_host_create, as far as it concerns the peers.
FreshHost(peerCount, channelLimit) ==
  [peers |-> [p \in 0 .. peerCount - 1 |-> FreshPeer(Nobody)],
   dispatchQueue |-> <<>>, channelLimit |-> channelLimit,
   event |-> NoEvent, sent |-> <<>>]

\* enet_list_remove of what is at place k.
Without(list, k) == SubSeq(list, 1, k - 1) \o SubSeq(list, k + 1, Len(list))

\* A peer is in the queue exactly while it needs dispatch.
With(h, p, peer) ==
  [h EXCEPT !.peers[p] = peer,
            !.dispatchQueue =
               CASE peer.needsDispatch /\ ~ h.peers[p].needsDispatch -> Append(@, p)
                 [] ~ peer.needsDispatch /\ h.peers[p].needsDispatch ->
                      Without(@, SelectInSeq(@, LAMBDA q : q = p))
                 [] OTHER -> @]

DispatchState(h, p, state) ==
  With(h, p, [h.peers[p] EXCEPT !.state = state, !.needsDispatch = TRUE])

-----------------------------------------------------------------------------
(***************************************************************************)
(* The events of a connection.                                             *)
(***************************************************************************)
NotifyConnect(h, p, wants) ==
  IF wants
  THEN [With(h, p, [h.peers[p] EXCEPT !.state = "CONNECTED"])
          EXCEPT !.event = Event("CONNECT", p, h.peers[p].eventData)]
  ELSE DispatchState(h, p, IF h.peers[p].state = "CONNECTING"
                           THEN "CONNECTION_SUCCEEDED" ELSE "CONNECTION_PENDING")

\* Mutated Unannounced: a handshake that was given up is reported.
UnannouncedPending == {"DISCONNECTED", "CONNECTION_PENDING"}

\* Below CONNECTION_SUCCEEDED, but for CONNECTING, nobody was told of the peer.
Unannounced == {"DISCONNECTED", "ACKNOWLEDGING_CONNECT", "CONNECTION_PENDING"}

NotifyDisconnect(h, p, wants) ==
  CASE h.peers[p].state \in Unannounced -> With(h, p, Reset(h.peers[p]))
    [] h.peers[p].state \notin Unannounced /\ wants ->
         [With(h, p, Reset(h.peers[p])) EXCEPT !.event = Event("DISCONNECT", p, 0)]
    [] OTHER ->
         DispatchState(With(h, p, [h.peers[p] EXCEPT !.eventData = 0]), p, "ZOMBIE")

(***************************************************************************)
(* enet_protocol_dispatch_incoming_commands: the peers in the queue, up to *)
(* the first that has an event.                                            *)
(***************************************************************************)
DispatchOne(h) ==
  LET p == Head(h.dispatchQueue)
      peer == [h.peers[p] EXCEPT !.needsDispatch = FALSE]
      next == [h EXCEPT !.peers[p] = peer, !.dispatchQueue = Tail(@)]
      front == Head(peer.dispatchedCommands)
      rest == Receive(peer)
  IN CASE peer.state \in {"CONNECTION_PENDING", "CONNECTION_SUCCEEDED"} ->
            [next EXCEPT !.peers[p].state = "CONNECTED",
                         !.event = Event("CONNECT", p, peer.eventData)]
       [] peer.state = "ZOMBIE" ->
            [With(next, p, Reset(peer))
               EXCEPT !.event = Event("DISCONNECT", p, peer.eventData)]
       [] peer.state = "CONNECTED" /\ peer.dispatchedCommands # <<>> ->
            [With(next, p, [rest EXCEPT !.needsDispatch = rest.dispatchedCommands # <<>>])
               EXCEPT !.event = [type |-> "RECEIVE", peer |-> p, data |-> front.data,
                                 channelID |-> front.command.channelID]]
       [] OTHER -> next

DispatchNext(h) ==
  IF h.event # NoEvent \/ h.dispatchQueue = <<>> THEN h ELSE DispatchOne(h)

DispatchIncoming(h) ==
  LET Dispatching[k \in 0 .. Len(h.dispatchQueue)] ==
        IF k = 0 THEN h ELSE DispatchNext(Dispatching[k - 1])
  IN Dispatching[Len(h.dispatchQueue)]

-----------------------------------------------------------------------------
(***************************************************************************)
(* Connecting.                                                             *)
(***************************************************************************)
FreeSlots(h) == {p \in Slots(h) : h.peers[p].state = "DISCONNECTED"}
FirstFree(h) == CHOOSE p \in FreeSlots(h) : \A q \in FreeSlots(h) : p <= q

\* enet_host_connect; where no peer is free it returns NULL.
Connect(h, address, channelCount, connectID, data) ==
  LET p == FirstFree(h)
      peer == [h.peers[p] EXCEPT
                 !.channels = [c \in 0 .. channelCount - 1 |-> NewChannel],
                 !.state = "CONNECTING", !.address = address, !.connectID = connectID]
      connect == Command("CONNECT", "ack", PeerChannel,
                   [outgoingPeerID |-> p, incomingSessionID |-> peer.incomingSessionID,
                    outgoingSessionID |-> peer.outgoingSessionID,
                    channelCount |-> channelCount, connectID |-> connectID,
                    data |-> data])
  IN IF FreeSlots(h) = {} THEN h
     ELSE With(h, p, QueueOutgoingCommand(peer, connect))

\* The two bits of a session id are drawn anew by whoever accepts.
NextSession(offered, old) ==
  LET next == ((IF offered = 255 THEN old ELSE offered) + 1) % 4
  IN IF next = old THEN (next + 1) % 4 ELSE next

\* Mutated Known: a CONNECT that arrives twice is not recognised.
NeverKnown(h, from, connectID) == FALSE

\* A peer was made for this CONNECT before.
Known(h, from, connectID) ==
  \E q \in Slots(h) : /\ h.peers[q].state # "DISCONNECTED"
                      /\ h.peers[q].address = from
                      /\ h.peers[q].connectID = connectID

\* enet_protocol_handle_connect: the peer that was made, or NoPeer (NULL),
\* which ends the datagram.
HandleConnect(h, from, body) ==
  LET p == FirstFree(h)
      old == h.peers[p]
      channelCount == IF body.channelCount > h.channelLimit
                      THEN h.channelLimit ELSE body.channelCount
      incoming == NextSession(body.incomingSessionID, old.outgoingSessionID)
      outgoing == NextSession(body.outgoingSessionID, old.incomingSessionID)
      peer == [old EXCEPT
                 !.channels = [c \in 0 .. channelCount - 1 |-> NewChannel],
                 !.state = "ACKNOWLEDGING_CONNECT", !.connectID = body.connectID,
                 !.address = from, !.outgoingPeerID = body.outgoingPeerID,
                 !.eventData = body.data,
                 !.outgoingSessionID = incoming, !.incomingSessionID = outgoing]
      verify == Command("VERIFY_CONNECT", "ack", PeerChannel,
                  [outgoingPeerID |-> p, incomingSessionID |-> incoming,
                   outgoingSessionID |-> outgoing, channelCount |-> channelCount,
                   connectID |-> body.connectID])
  IN IF Known(h, from, body.connectID) \/ FreeSlots(h) = {}
     THEN [host |-> h, peer |-> NoPeer, failed |-> TRUE]
     ELSE [host |-> With(h, p, QueueOutgoingCommand(peer, verify)), peer |-> p,
           failed |-> FALSE]

(***************************************************************************)
(* enet_protocol_remove_sent_reliable_command: the command that an         *)
(* acknowledgement names, among those sent or those to be sent again; its  *)
(* type is "NONE" where there is no such command.                          *)
(***************************************************************************)
\* The window of the command counts one less.
Uncounted(peer, n, c) ==
  LET w == WindowOf(n)
      channel == peer.channels[c]
  IN IF c \in DOMAIN peer.channels /\ peer.channels[c].reliableWindows[w] > 0
     THEN [peer EXCEPT
             !.channels[c].reliableWindows[w] = @ - 1,
             !.channels[c].usedReliableWindows =
                IF channel.reliableWindows[w] = 1 THEN @ \ {w} ELSE @]
     ELSE peer

\* The one at place "sentAt" of those sent, or at "waitingAt" of those waiting
\* to be sent again; the search among these ends at one never sent.
Removed(peer, n, c, sentAt, waitingAt) ==
  LET sent == peer.sentReliableCommands[sentAt]
      waiting == peer.outgoingReliableCommands[waitingAt]
  IN CASE sentAt # 0 ->
            [peer |-> [Uncounted(peer, n, c) EXCEPT
                         !.sentReliableCommands = Without(@, sentAt),
                         !.reliableDataInTransit =
                            IF HasPacket(sent.command)
                            THEN @ - Len(sent.command.body.data) ELSE @],
             type |-> sent.command.type]
       [] sentAt = 0 /\ waitingAt # 0 /\ waiting.sendAttempts >= 1 ->
            [peer |-> [Uncounted(peer, n, c) EXCEPT
                         !.outgoingReliableCommands = Without(@, waitingAt)],
             type |-> waiting.command.type]
       [] OTHER -> [peer |-> peer, type |-> "NONE"]

RemoveSentReliable(peer, n, c) ==
  LET Names(outgoing) == /\ outgoing.command.reliableSequenceNumber = n
                         /\ outgoing.command.channelID = c
  IN Removed(peer, n, c,
             SelectInSeq(peer.sentReliableCommands, Names),
             SelectInSeq(peer.outgoingReliableCommands,
                         LAMBDA o : o.sendAttempts < 1 \/ Names(o)))

(***************************************************************************)
(* The answers to CONNECT: VERIFY_CONNECT, then the acknowledgement of it. *)
(* A handler returns the host and whether it failed (a result other than   *)
(* 0, which ends the datagram).                                            *)
(***************************************************************************)
Handled(h) == [host |-> h, failed |-> FALSE]
Failed(h) == [host |-> h, failed |-> TRUE]

\* What the other side answered.
Verified(peer, body) ==
  [peer EXCEPT
     !.channels = [c \in {d \in DOMAIN @ : d < body.channelCount} |-> @[c]],
     !.outgoingPeerID = body.outgoingPeerID,
     !.incomingSessionID = body.incomingSessionID,
     !.outgoingSessionID = body.outgoingSessionID]

HandleVerifyConnect(h, p, body, wants) ==
  CASE h.peers[p].state # "CONNECTING" -> Handled(h)
    [] h.peers[p].state = "CONNECTING" /\ body.connectID # h.peers[p].connectID ->
         Failed(DispatchState(With(h, p, [h.peers[p] EXCEPT !.eventData = 0]),
                              p, "ZOMBIE"))
    [] OTHER ->
         Handled(NotifyConnect(
           With(h, p, Verified(RemoveSentReliable(h.peers[p], 1, PeerChannel).peer, body)),
           p, wants))

\* enet_peer_disconnect; it flushes the host where the other side is not
\* asked to acknowledge, and then forgets the peer.
Disconnecting(h, p, flag, data) ==
  With(h, p, QueueOutgoingCommand(ResetQueues(h.peers[p]),
               Command("DISCONNECT", flag, PeerChannel, [data |-> data])))

Forgotten(h, p) == With(h, p, Reset(h.peers[p]))

Disconnect(h, p, data, Flush(_)) ==
  LET state == h.peers[p].state
  IN CASE state \in {"DISCONNECTING", "DISCONNECTED",
                     "ACKNOWLEDGING_DISCONNECT", "ZOMBIE"} -> h
       [] state \in {"CONNECTED", "DISCONNECT_LATER"} ->
            [Disconnecting(h, p, "ack", data) EXCEPT !.peers[p].state = "DISCONNECTING"]
       [] OTHER -> Forgotten(Flush(Disconnecting(h, p, "unsequenced", data)), p)

Unflushed(h) == h     \* a peer that is DISCONNECT_LATER is asked politely

\* The host once the command was struck off; removed is what became of it.
StruckOff(h, p, removed, wants) ==
  LET state == h.peers[p].state
  IN CASE state = "ACKNOWLEDGING_CONNECT" ->
            IF removed.type # "VERIFY_CONNECT" THEN Failed(h)
            ELSE Handled(NotifyConnect(h, p, wants))
       [] state = "DISCONNECTING" ->
            IF removed.type # "DISCONNECT" THEN Failed(h)
            ELSE Handled(NotifyDisconnect(h, p, wants))
       [] state = "DISCONNECT_LATER" /\ NothingToSend(h.peers[p]) ->
            Handled(Disconnect(h, p, h.peers[p].eventData, Unflushed))
       [] OTHER -> Handled(h)

Settled(h, p, removed, wants) == StruckOff(With(h, p, removed.peer), p, removed, wants)

HandleAcknowledge(h, p, command, wants) ==
  Settled(h, p, RemoveSentReliable(h.peers[p], command.body.received, command.channelID),
          wants)

\* Where the peer was left by HandleDisconnect it keeps the other side's data.
TellingWhy(h, p, body) ==
  IF h.peers[p].state = "DISCONNECTED" THEN h
  ELSE [h EXCEPT !.peers[p].eventData = body.data]

Left(h, p, old, command) ==
  CASE old \in {"CONNECTION_SUCCEEDED", "DISCONNECTING"} -> DispatchState(h, p, "ZOMBIE")
    [] old \in {"CONNECTED", "DISCONNECT_LATER"} ->
         IF command.flag = "ack" THEN [h EXCEPT !.peers[p].state = "ACKNOWLEDGING_DISCONNECT"]
         ELSE DispatchState(h, p, "ZOMBIE")
    [] OTHER -> Forgotten(h, p)

HandleDisconnect(h, p, command) ==
  LET peer == h.peers[p]
  IN IF peer.state \in {"ZOMBIE", "ACKNOWLEDGING_DISCONNECT"} THEN h
     ELSE TellingWhy(Left(With(h, p, ResetQueues(peer)), p, peer.state, command),
                     p, command.body)
=============================================================================
