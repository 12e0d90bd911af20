---------------------------- MODULE ENetService -----------------------------
(***************************************************************************)
(* What enet_host_service does to a host (src/src/enet/protocol.c): the    *)
(* commands of a datagram that arrives, one after the other, and the       *)
(* datagrams that go out, one pass over the peers after the other.         *)
(*                                                                         *)
(* A datagram is the header (from, to, peerID, sessionID) and the commands *)
(* behind it.  Compression (RangeCoder) and the checksum, which this       *)
(* program never switches on, are left out; so is the malformed datagram.  *)
(***************************************************************************)
EXTENDS ENetProtocol

(***************************************************************************)
(* The commands that carry data.                                           *)
(***************************************************************************)
TakesData(peer, command) ==
  /\ command.channelID \in DOMAIN peer.channels
  /\ peer.state \in {"CONNECTED", "DISCONNECT_LATER"}

Queued(h, p, queued) ==
  [host |-> With(h, p, queued.peer), failed |-> queued.result = "error"]

HandleSendReliable(h, p, command) ==
  Queued(h, p, QueueIncomingCommand(h.peers[p], command, 0, command.body.data, 0))

HandleSendUnreliable(h, p, command) ==
  Queued(h, p, QueueIncomingCommand(h.peers[p], command,
                 command.body.unreliableSequenceNumber, command.body.data, 0))

\* Unsequenced packets: each group number is taken once, as long as it is
\* within the window; a group of a later window starts that window.
HandleSendUnsequenced(h, p, command) ==
  LET peer == h.peers[p]
      group == command.body.unsequencedGroup
      index == group % UnseqWindowSize
      lap == IF group < peer.incomingUnsequencedGroup THEN SeqModulus ELSE 0
      behind == group + lap >= peer.incomingUnsequencedGroup
                               + FreeUnseq * UnseqWindowSize
      current == group - index = peer.incomingUnsequencedGroup
      window == IF current THEN peer.unsequencedWindow ELSE {}
      moved == [peer EXCEPT !.incomingUnsequencedGroup = group - index,
                            !.unsequencedWindow = window]
      queued == QueueIncomingCommand(moved, command, 0, command.body.data, 0)
  IN IF behind \/ (current /\ index \in peer.unsequencedWindow) THEN Handled(h)
     ELSE Handled(With(h, p, [queued.peer EXCEPT !.unsequencedWindow = @ \cup {index}]))

\* memcpy of a piece to its offset in the packet.
Pasted(data, offset, piece) ==
  [i \in 1 .. Len(data) |-> IF i \in offset + 1 .. offset + Len(piece)
                            THEN piece[i - offset] ELSE data[i]]

Blank == 0                      \* a byte of a packet that nothing was copied to
BlankPacket(length) == [i \in 1 .. length |-> Blank]

\* Mutated WithPiece: a piece that arrives twice counts twice.
WithPieceAgain(incoming, body) ==
  [incoming EXCEPT !.fragmentsRemaining = @ - 1,
                   !.fragments = @ \cup {body.fragmentNumber},
                   !.data = Pasted(@, body.fragmentOffset, body.data)]

\* One more piece of the packet at place k of a list.
WithPiece(incoming, body) ==
  IF body.fragmentNumber \in incoming.fragments THEN incoming
  ELSE [incoming EXCEPT !.fragmentsRemaining = @ - 1,
                        !.fragments = @ \cup {body.fragmentNumber},
                        !.data = Pasted(@, body.fragmentOffset, body.data)]

\* The packet a piece belongs to is at place k of the list; it must be of
\* the same kind, length and number of pieces.
Mismatch(incoming, command) ==
  \/ incoming.command.type # command.type
  \/ Len(incoming.data) # command.body.totalLength
  \/ incoming.fragmentCount # command.body.fragmentCount

\* Where the packet of a piece is: its first piece has the numbers n and u.
PacketAt(incoming, n, u) ==
  SelectLastInSeq(incoming, LAMBDA i : /\ i.reliableSequenceNumber = n
                                       /\ i.unreliableSequenceNumber = u)

\* The peer has the packet in its list; the last piece lets it go.
AddPiece(h, p, list, command, u, peer) ==
  LET c == command.channelID
      k == PacketAt(peer.channels[c][list], command.reliableSequenceNumber, u)
      old == peer.channels[c][list][k]
      new == WithPiece(old, command.body)
      added == [peer EXCEPT !.channels[c][list][k] = new]
  IN IF Mismatch(old, command) THEN Failed(h)
     ELSE Handled(With(h, p,
            CASE new = old \/ new.fragmentsRemaining > 0 -> added
              [] new # old /\ new.fragmentsRemaining = 0 /\ IsReliable(command) ->
                   DispatchReliable(added, c)
              [] OTHER -> DispatchUnreliable(added, c)))

AddPieceTo(h, p, list, command, u, queued) ==
  IF queued.result = "error" THEN Failed(h)
  ELSE AddPiece(h, p, list, command, u, queued.peer)

\* The first piece of a packet to arrive makes room for the packet.
Assemble(h, p, list, command, u) ==
  LET peer == h.peers[p]
      n == command.reliableSequenceNumber
  IN AddPieceTo(h, p, list, command, u,
       IF PacketAt(peer.channels[command.channelID][list], n, u) # 0
       THEN [peer |-> peer, result |-> "queued"]
       ELSE QueueIncomingCommand(peer, command, u, BlankPacket(command.body.totalLength),
                                 command.body.fragmentCount))

\* A piece has the number of its packet in startSequenceNumber.
HandleSendFragment(h, p, command) ==
  LET start == command.body.startSequenceNumber
  IN IF ~ InWindow(h.peers[p].channels[command.channelID], start) THEN Handled(h)
     ELSE Assemble(h, p, "incomingReliableCommands",
                   [command EXCEPT !.reliableSequenceNumber = start], 0)

HandleSendUnreliableFragment(h, p, command) ==
  LET n == command.reliableSequenceNumber
      start == command.body.startSequenceNumber
      channel == h.peers[p].channels[command.channelID]
  IN IF \/ ~ InWindow(channel, n)
        \/ /\ n = channel.incomingReliableSequenceNumber
           /\ start <= channel.incomingUnreliableSequenceNumber
     THEN Handled(h)
     ELSE Assemble(h, p, "incomingUnreliableCommands", command, start)

HandleData(h, p, command) ==
  CASE ~ TakesData(h.peers[p], command) -> Failed(h)
    [] TakesData(h.peers[p], command) /\ command.type = "RELIABLE" ->
         HandleSendReliable(h, p, command)
    [] TakesData(h.peers[p], command) /\ command.type = "UNRELIABLE" ->
         HandleSendUnreliable(h, p, command)
    [] TakesData(h.peers[p], command) /\ command.type = "UNSEQUENCED" ->
         HandleSendUnsequenced(h, p, command)
    [] TakesData(h.peers[p], command) /\ command.type = "FRAGMENT" ->
         HandleSendFragment(h, p, command)
    [] OTHER -> HandleSendUnreliableFragment(h, p, command)

-----------------------------------------------------------------------------
(***************************************************************************)
(* enet_protocol_handle_incoming_commands: whose datagram it is, then its  *)
(* commands in order.  A command that fails, or one of no known peer that  *)
(* is no CONNECT, ends the datagram.                                       *)
(***************************************************************************)
AcceptedAnySession(h, datagram) ==      \* mutated: the session is not compared
  \/ datagram.peerID = MaximumPeerID
  \/ /\ datagram.peerID \in Slots(h)
     /\ h.peers[datagram.peerID].state \notin {"DISCONNECTED", "ZOMBIE"}
     /\ h.peers[datagram.peerID].address = datagram.from

Accepted(h, datagram) ==
  \/ datagram.peerID = MaximumPeerID
  \/ /\ datagram.peerID \in Slots(h)
     /\ LET peer == h.peers[datagram.peerID]
        IN /\ peer.state \notin {"DISCONNECTED", "ZOMBIE"}
           /\ peer.address = datagram.from
           /\ \/ peer.outgoingPeerID = MaximumPeerID
              \/ peer.incomingSessionID = datagram.sessionID

\* What the handler of a command does; "peer" is the peer from here on.
HandleCommand(h, p, from, command, wants) ==
  LET Of(handled) == [host |-> handled.host, peer |-> p, failed |-> handled.failed]
  IN CASE command.type = "CONNECT" -> HandleConnect(h, from, command.body)
       [] command.type = "ACKNOWLEDGE" -> Of(HandleAcknowledge(h, p, command, wants))
       [] command.type = "VERIFY_CONNECT" ->
            Of(HandleVerifyConnect(h, p, command.body, wants))
       [] command.type = "DISCONNECT" -> Of(Handled(HandleDisconnect(h, p, command)))
       [] command.type = "PING" -> Of(Handled(h))
       [] OTHER -> Of(HandleData(h, p, command))

\* The acknowledgement that a command asks for, in the state it led to.
Acknowledged(h, p, command) ==
  IF \/ command.flag # "ack"
     \/ h.peers[p].state \in {"DISCONNECTING", "ACKNOWLEDGING_CONNECT"}
     \/ h.peers[p].state = "ACKNOWLEDGING_DISCONNECT" /\ command.type # "DISCONNECT"
  THEN h
  ELSE With(h, p, QueueAcknowledgement(h.peers[p], command))

\* The datagram goes on behind a command that was handled.
Answered(done, command) ==
  [host |-> IF done.failed THEN done.host
            ELSE Acknowledged(done.host, done.peer, command),
   peer |-> done.peer, over |-> done.failed]

HandleNext(at, from, command, wants) ==
  IF at.over \/ (at.peer = NoPeer /\ command.type # "CONNECT")
  THEN [at EXCEPT !.over = TRUE]
  ELSE Answered(HandleCommand(at.host, at.peer, from, command, wants), command)

HandleIncoming(h, datagram, wants) ==
  LET start == [host |-> h, over |-> FALSE,
                peer |-> IF datagram.peerID = MaximumPeerID THEN NoPeer
                         ELSE datagram.peerID]
      Handling[k \in 0 .. Len(datagram.commands)] ==
        IF k = 0 THEN start
        ELSE HandleNext(Handling[k - 1], datagram.from, datagram.commands[k], wants)
  IN IF ~ Accepted(h, datagram) THEN h
     ELSE Handling[Len(datagram.commands)].host

-----------------------------------------------------------------------------
(***************************************************************************)
(* Sending to one peer.  A draft is the peer, the commands of the datagram *)
(* being filled and the room left in it; "more" is continueSending.        *)
(***************************************************************************)
Draft(peer) == [peer |-> peer, commands |-> <<>>, bytes |-> FragmentLength, more |-> FALSE]

Size(command) == IF HasPacket(command) THEN Len(command.body.data) ELSE 0
Fits(draft, command) ==
  Len(draft.commands) < MaxPacketCommands /\ Size(command) <= draft.bytes
Filled(draft, command) ==
  [draft EXCEPT !.commands = Append(@, command), !.bytes = @ - Size(command)]

\* enet_protocol_send_acknowledgements: with the acknowledgement of a
\* DISCONNECT the connection is over.
SendAcknowledgements(draft) ==
  LET count == Len(draft.peer.acknowledgements)
      room == IF count < MaxPacketCommands THEN count ELSE MaxPacketCommands
      taken == SubSeq(draft.peer.acknowledgements, 1, room)
      Answer(command) ==
        [type |-> "ACKNOWLEDGE", flag |-> "none", channelID |-> command.channelID,
         reliableSequenceNumber |-> 0,
         body |-> [received |-> command.reliableSequenceNumber]]
      over == \E i \in 1 .. room : taken[i].type = "DISCONNECT"
  IN [draft EXCEPT
        !.commands = [i \in 1 .. room |-> Answer(taken[i])],
        !.more = @ \/ room < count,
        !.peer.acknowledgements = SubSeq(@, room + 1, count),
        !.peer.state = IF over THEN "ZOMBIE" ELSE @,
        !.peer.needsDispatch = @ \/ over]

(***************************************************************************)
(* enet_protocol_send_reliable_outgoing_commands.  The first number of a   *)
(* window waits while the window before it is full or a window among the   *)
(* next FreeWindows is in use.  The code means these windows to wrap       *)
(* around, but shifts by WindowSize - w where it means Windows - w: a      *)
(* count no int has the bits for.  The processors it is built for take it  *)
(* modulo 32, which leaves nothing of the part that wraps.                 *)
(***************************************************************************)
WindowsAhead(w) == {v \in w .. w + FreeWindows - 1 : v < Windows}

\* Mutated WindowTaken: the window before may be full.
WindowTakenAhead(channel, outgoing) ==
  LET n == outgoing.command.reliableSequenceNumber
  IN /\ outgoing.sendAttempts < 1
     /\ n % WindowSize = 0
     /\ channel.usedReliableWindows \cap WindowsAhead(WindowOf(n)) # {}

WindowTaken(channel, outgoing) ==
  LET n == outgoing.command.reliableSequenceNumber
      w == WindowOf(n)
  IN /\ outgoing.sendAttempts < 1
     /\ n % WindowSize = 0
     /\ \/ channel.reliableWindows[(w + Windows - 1) % Windows] >= WindowSize
        \/ channel.usedReliableWindows \cap WindowsAhead(w) # {}

\* The command goes to the list of those sent.
SentReliable(draft, outgoing) ==
  LET command == outgoing.command
      c == command.channelID
      w == WindowOf(command.reliableSequenceNumber)
      first == c \in DOMAIN draft.peer.channels /\ outgoing.sendAttempts < 1
      peer == [draft.peer EXCEPT
                 !.sentReliableCommands = Append(@, [outgoing EXCEPT !.sendAttempts = 1]),
                 !.reliableDataInTransit = @ + Size(command)]
  IN [Filled(draft, command) EXCEPT
        !.peer = IF first
                 THEN [peer EXCEPT !.channels[c].usedReliableWindows = @ \cup {w},
                                   !.channels[c].reliableWindows[w] = @ + 1]
                 ELSE peer]

\* What was not sent stays in the queue.
ReliableSent(end) ==
  [draft |-> [end.draft EXCEPT !.peer.outgoingReliableCommands = end.kept,
                               !.more = @ \/ end.full],
   canPing |-> end.canPing]

\* The next command in the queue.
NextReliable(at, outgoing) ==
  LET command == outgoing.command
      onChannel == command.channelID \in DOMAIN at.draft.peer.channels
      wrap == \/ at.wrap
              \/ onChannel /\ WindowTaken(at.draft.peer.channels[command.channelID], outgoing)
      exceeded == \/ at.exceeded
                  \/ /\ HasPacket(command) /\ ~ (onChannel /\ wrap)
                     /\ at.draft.peer.reliableDataInTransit + Size(command) > TransitLimit
      kept == [at EXCEPT !.kept = Append(@, outgoing),
                         !.wrap = wrap, !.exceeded = exceeded]
  IN CASE at.full -> [at EXCEPT !.kept = Append(@, outgoing)]
       [] ~ at.full /\ ((onChannel /\ wrap) \/ (HasPacket(command) /\ exceeded)) -> kept
       [] ~ at.full /\ ~ (onChannel /\ wrap) /\ ~ (HasPacket(command) /\ exceeded)
          /\ ~ Fits(at.draft, command) ->
            [kept EXCEPT !.full = TRUE, !.canPing = FALSE]
       [] OTHER -> [at EXCEPT !.draft = SentReliable(@, outgoing), !.canPing = FALSE]

\* canPing stays TRUE where nothing could be sent.
SendReliable(draft) ==
  LET queue == draft.peer.outgoingReliableCommands
      start == [draft |-> [draft EXCEPT !.peer.outgoingReliableCommands = <<>>],
                kept |-> <<>>, wrap |-> FALSE, exceeded |-> FALSE, full |-> FALSE,
                canPing |-> TRUE]
      Sending[k \in 0 .. Len(queue)] ==
        IF k = 0 THEN start ELSE NextReliable(Sending[k - 1], queue[k])
  IN ReliableSent(Sending[Len(queue)])

(***************************************************************************)
(* enet_protocol_send_unreliable_outgoing_commands; a packet that the      *)
(* throttle drops goes with all its pieces.  Whoever waited for the last   *)
(* packet to leave is disconnected then.                                   *)
(***************************************************************************)
UnreliableSent(end) ==
  [end.draft EXCEPT !.peer.outgoingUnreliableCommands = end.kept,
                    !.more = @ \/ end.full]

SamePacket(a, b) ==
  /\ a.command.reliableSequenceNumber = b.command.reliableSequenceNumber
  /\ a.unreliableSequenceNumber = b.unreliableSequenceNumber

NextUnreliable(at, outgoing, throttled) ==
  CASE at.full -> [at EXCEPT !.kept = Append(@, outgoing)]
    [] /\ ~ at.full /\ at.dropped # <<>> /\ SamePacket(at.dropped[1], outgoing) -> at
    [] OTHER ->
         IF ~ Fits(at.draft, outgoing.command)
         THEN [at EXCEPT !.kept = Append(@, outgoing), !.full = TRUE]
         ELSE IF /\ throttled /\ HasPacket(outgoing.command)
                 /\ FragmentOffset(outgoing.command) = 0
         THEN [at EXCEPT !.dropped = <<outgoing>>]
         ELSE [at EXCEPT !.draft = Filled(@, outgoing.command), !.dropped = <<>>]

SendUnreliable(draft, throttled) ==
  LET queue == draft.peer.outgoingUnreliableCommands
      Sending[k \in 0 .. Len(queue)] ==
        IF k = 0 THEN [draft |-> draft, kept |-> <<>>, full |-> FALSE, dropped |-> <<>>]
        ELSE NextUnreliable(Sending[k - 1], queue[k], throttled)
  IN UnreliableSent(Sending[Len(queue)])

\* A byte that is read after its memory was freed: what the memory held or any
\* other value.  Nothing that ENet does depends on the data of a packet, so that
\* one symbol, which remembers the byte, stands for all these values.
Undefined(byte) == -byte

UndefinedData(command) ==
  IF HasPacket(command)
  THEN [command EXCEPT !.body.data = [i \in DOMAIN @ |-> Undefined(@[i])]]
  ELSE command

\* A peer that was to disconnect later does so when nothing is left to send.
ReadyToLeave(peer) == peer.state = "DISCONNECT_LATER" /\ NothingToSend(peer)

\* enet_peer_disconnect frees every packet of sentUnreliableCommands that no
\* other peer is to be sent too, and the buffers of the draft point to their data:
\* the datagram that leaves afterwards is of freed memory.
OfFreedMemory(draft) ==
  [draft EXCEPT !.commands = [i \in DOMAIN @ |-> UndefinedData(@[i])]]

\* Mutated Resent: the bytes stay in the account.
ResentUncounted(peer, expired) ==
  [peer EXCEPT
     !.sentReliableCommands = SelectSeq(@, LAMBDA o : o \notin expired),
     !.outgoingReliableCommands =
        SelectSeq(peer.sentReliableCommands, LAMBDA o : o \in expired) \o @]

\* Mutated Resent: what is late is struck off.
ResentForgotten(peer, expired) ==
  [peer EXCEPT !.sentReliableCommands = SelectSeq(@, LAMBDA o : o \notin expired)]

(***************************************************************************)
(* enet_protocol_check_timeouts: a command that has timed out goes back to *)
(* the front of the queue, unless the peer is given up.                    *)
(***************************************************************************)
NextTimeout(at, outgoing, expired) ==
  IF outgoing \in expired
  THEN [at EXCEPT !.late = Append(@, outgoing), !.bytes = @ - Size(outgoing.command)]
  ELSE [at EXCEPT !.kept = Append(@, outgoing)]

Resent(peer, expired) ==
  LET sent == peer.sentReliableCommands
      Looking[k \in 0 .. Len(sent)] ==
        IF k = 0 THEN [late |-> <<>>, kept |-> <<>>, bytes |-> peer.reliableDataInTransit]
        ELSE NextTimeout(Looking[k - 1], sent[k], expired)
      end == Looking[Len(sent)]
  IN [peer EXCEPT !.sentReliableCommands = end.kept,
                  !.outgoingReliableCommands = end.late \o @,
                  !.reliableDataInTransit = end.bytes]

(***************************************************************************)
(* enet_protocol_send_outgoing_commands, for one peer.  The choices of a   *)
(* call: the commands "expired", the peers "lost" for it, those "silent"   *)
(* and those "throttled"; flushing, there are no timeouts.                 *)
(***************************************************************************)
NoChoices == [expired |-> {}, lost |-> {}, silent |-> {}, throttled |-> {}]

Datagram(from, peer, commands) ==
  [from |-> from, to |-> peer.address, peerID |-> peer.outgoingPeerID,
   sessionID |-> IF peer.outgoingPeerID = MaximumPeerID THEN 0 ELSE peer.outgoingSessionID,
   commands |-> commands]

\* The draft becomes a datagram, if anything is in it.
SendDraft(at, host, self, draft) ==
  [host |-> IF draft.commands = <<>> THEN host
            ELSE [host EXCEPT !.sent = Append(@, Datagram(self, draft.peer, draft.commands))],
   more |-> at.more \/ draft.more]

SendLast(at, p, self, unreliably, draft) ==
  LET host == With(at.host, p, draft.peer)
  IN IF unreliably /\ ReadyToLeave(draft.peer)
     THEN SendDraft(at, Disconnect(host, p, draft.peer.eventData, Unflushed), self,
                    OfFreedMemory(draft))
     ELSE SendDraft(at, host, self, draft)

SendRest(at, p, self, throttled, draft) ==
  LET unreliably == draft.peer.outgoingUnreliableCommands # <<>>
  IN SendLast(at, p, self, unreliably,
              IF unreliably THEN SendUnreliable(draft, throttled) ELSE draft)

\* A peer that is silent, and has nothing on the way, is sent a PING.
Pinged(once, silent) ==
  IF silent /\ once.canPing /\ once.draft.peer.sentReliableCommands = <<>>
  THEN SendReliable([once.draft EXCEPT !.peer = Ping(@)]).draft
  ELSE once.draft

SendBehind(at, p, self, choices, wants, acked) ==
  LET late == {o \in ToSet(acked.peer.sentReliableCommands) : <<p, o>> \in choices.expired}
  IN IF late # {} /\ p \in choices.lost
     THEN [at EXCEPT !.host = NotifyDisconnect(With(at.host, p, acked.peer), p, wants)]
     ELSE SendRest(at, p, self, p \in choices.throttled,
            Pinged(SendReliable([acked EXCEPT !.peer = Resent(@, late)]),
                   p \in choices.silent))

SendTo(at, p, self, choices, wants) ==
  IF \/ at.host.event # NoEvent
     \/ at.host.peers[p].state \in {"DISCONNECTED", "ZOMBIE"} THEN at
  ELSE SendBehind(at, p, self, choices, wants,
                  SendAcknowledgements(Draft(at.host.peers[p])))

\* One pass over all peers; they are numbered from 0 on.
SendPass(at, self, choices, wants) ==
  LET Sending[k \in 0 .. Cardinality(Slots(at.host))] ==
        IF k = 0 THEN [at EXCEPT !.more = FALSE]
        ELSE SendTo(Sending[k - 1], k - 1, self, choices, wants)
  IN IF ~ at.more \/ at.host.event # NoEvent THEN at
     ELSE Sending[Cardinality(Slots(at.host))]

\* What may leave, place by place: a pass sends something of it or is the last.
Waiting(h) ==
  UNION {{<<p, n>> : n \in 0 .. Len(h.peers[p].acknowledgements)
                              + Len(h.peers[p].sentReliableCommands)
                              + Len(h.peers[p].outgoingReliableCommands)
                              + Len(h.peers[p].outgoingUnreliableCommands)} :
         p \in Slots(h)}

\* Passes over all peers, until no datagram was too small.
SendOutgoing(h, self, choices, wants) ==
  LET Passing[k \in 0 .. Cardinality(Waiting(h))] ==
        IF k = 0 THEN [host |-> h, more |-> TRUE]
        ELSE SendPass(Passing[k - 1], self,
                      IF k = 1 THEN choices ELSE [choices EXCEPT !.expired = {}], wants)
  IN Passing[Cardinality(Waiting(h))].host

Flush(h, self) == SendOutgoing(h, self, NoChoices, FALSE)

(***************************************************************************)
(* enet_host_service: hand over what waits, send, receive the datagrams of *)
(* "batch" as far as none of them makes an event, send again, hand over.   *)
(* With an event in hand every operator above leaves the host alone.       *)
(***************************************************************************)
Offered(h, wants) == IF wants THEN DispatchIncoming(h) ELSE h

ReceiveNext(at, datagram, wants) ==
  IF at.host.event # NoEvent THEN at
  ELSE [host |-> HandleIncoming(at.host, datagram, wants),
        taken |-> at.taken \cup {datagram}]

Replied(received, self, wants) ==
  [host |-> Offered(SendOutgoing(received.host, self, NoChoices, wants), wants),
   taken |-> received.taken]

Service(h, self, batch, choices, wants) ==
  LET sent == SendOutgoing(Offered([h EXCEPT !.event = NoEvent, !.sent = <<>>], wants),
                           self, choices, wants)
      Receiving[k \in 0 .. Len(batch)] ==
        IF k = 0 THEN [host |-> sent, taken |-> {}]
        ELSE ReceiveNext(Receiving[k - 1], batch[k], wants)
  IN Replied(Receiving[Len(batch)], self, wants)

(***************************************************************************)
(* The rest of what an application may ask of a peer: enet_peer_disconnect *)
(* with its flush, disconnect_later, disconnect_now.                       *)
(***************************************************************************)
PeerDisconnect(h, p, data, self) ==
  Disconnect(h, p, data, LAMBDA g : Flush(g, self))

DisconnectLater(h, p, data, self) ==
  IF /\ h.peers[p].state \in {"CONNECTED", "DISCONNECT_LATER"}
     /\ ~ NothingToSend(h.peers[p])
  THEN [h EXCEPT !.peers[p].state = "DISCONNECT_LATER", !.peers[p].eventData = data]
  ELSE PeerDisconnect(h, p, data, self)

DisconnectNow(h, p, data, self) ==
  CASE h.peers[p].state = "DISCONNECTED" -> h
    [] h.peers[p].state \in {"ZOMBIE", "DISCONNECTING"} -> Forgotten(h, p)
    [] OTHER -> Forgotten(Flush(Disconnecting(h, p, "unsequenced", data), self), p)
=============================================================================
