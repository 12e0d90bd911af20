------------------------------ MODULE ENetPeer ------------------------------
(***************************************************************************)
(* One peer of an ENet host (src/src/enet/peer.c, with the lists and the   *)
(* packets of list.c and packet.c): what it has to send, what it waits to  *)
(* have acknowledged and what it has received.  Every function of the      *)
(* source that changes a peer is an operator from the peer before the call *)
(* to the peer after it.                                                   *)
(*                                                                         *)
(* A list is a sequence, a packet is the sequence of its bytes, a set of   *)
(* bits is a set.  Sequence numbers keep their width: they are counted     *)
(* modulo SeqModulus, 2^16 in the code.  Times, and the numbers the flow   *)
(* control measures, are in ENetFlow; reference counts are left out, and   *)
(* enet_malloc never returns NULL (it aborts).                             *)
(***************************************************************************)
EXTENDS Integers, Sequences, SequencesExt

CONSTANTS
  Windows,         \* ENET_PEER_RELIABLE_WINDOWS, 16
  WindowSize,      \* ENET_PEER_RELIABLE_WINDOW_SIZE, 4096
  FreeWindows,     \* ENET_PEER_FREE_RELIABLE_WINDOWS, 8
  UnseqWindowSize, \* ENET_PEER_UNSEQUENCED_WINDOW_SIZE, 1024
  FreeUnseq,       \* ENET_PEER_FREE_UNSEQUENCED_WINDOWS, 32
  FragmentLength   \* the bytes of data that fit in one datagram

ASSUME PeerAssumption ==
  /\ {Windows, WindowSize, FreeWindows, UnseqWindowSize, FreeUnseq,
      FragmentLength} \subseteq Nat \ {0}
  /\ Windows = 2 * FreeWindows /\ FreeWindows > 2
  /\ 2 * FreeUnseq * UnseqWindowSize = Windows * WindowSize

SeqModulus == Windows * WindowSize
Succ(n) == (n + 1) % SeqModulus
WindowOf(n) == n \div WindowSize

PeerChannel == 255            \* channelID of the commands about the peer itself
MaximumPeerID == 4095         \* outgoingPeerID while the other side has told none

DataTypes == {"RELIABLE", "UNRELIABLE", "UNSEQUENCED", "FRAGMENT",
              "UNRELIABLE_FRAGMENT"}

(***************************************************************************)
(* A command: flag is "ack" (FLAG_ACKNOWLEDGE), "unsequenced" or "none";   *)
(* body holds what the type adds to the header.                            *)
(***************************************************************************)
Command(type, flag, channel, body) ==
  [type |-> type, flag |-> flag, channelID |-> channel,
   reliableSequenceNumber |-> 0, body |-> body]

HasPacket(command) == command.type \in DataTypes
FragmentOffset(command) ==
  IF command.type \in {"FRAGMENT", "UNRELIABLE_FRAGMENT"}
  THEN command.body.fragmentOffset ELSE 0

NewChannel ==
  [outgoingReliableSequenceNumber |-> 0, outgoingUnreliableSequenceNumber |-> 0,
   usedReliableWindows |-> {}, reliableWindows |-> [w \in 0 .. Windows - 1 |-> 0],
   incomingReliableSequenceNumber |-> 0, incomingUnreliableSequenceNumber |-> 0,
   incomingReliableCommands |-> <<>>, incomingUnreliableCommands |-> <<>>]

NoChannels == [c \in {} |-> NewChannel]

(***************************************************************************)
(* enet_peer_reset_queues and enet_peer_reset.  The session ids and the    *)
(* address outlive the connection.                                         *)
(***************************************************************************)
ResetQueues(peer) ==
  [peer EXCEPT !.needsDispatch = FALSE, !.acknowledgements = <<>>,
               !.sentReliableCommands = <<>>, !.outgoingReliableCommands = <<>>,
               !.outgoingUnreliableCommands = <<>>, !.dispatchedCommands = <<>>,
               !.channels = NoChannels]

Reset(peer) ==
  [ResetQueues(peer) EXCEPT
     !.outgoingPeerID = MaximumPeerID, !.connectID = 0,
     !.state = "DISCONNECTED", !.reliableDataInTransit = 0,
     !.outgoingReliableSequenceNumber = 0, !.incomingUnsequencedGroup = 0,
     !.outgoingUnsequencedGroup = 0, !.unsequencedWindow = {}, !.eventData = 0]

\* A peer of a host that was just created (enet_host_create).
FreshPeer(nowhere) ==
  [state |-> "DISCONNECTED", address |-> nowhere, connectID |-> 0,
   outgoingPeerID |-> MaximumPeerID,
   outgoingSessionID |-> 255, incomingSessionID |-> 255,
   eventData |-> 0, needsDispatch |-> FALSE,
   acknowledgements |-> <<>>, sentReliableCommands |-> <<>>,
   outgoingReliableCommands |-> <<>>, outgoingUnreliableCommands |-> <<>>,
   dispatchedCommands |-> <<>>, channels |-> NoChannels,
   outgoingReliableSequenceNumber |-> 0, reliableDataInTransit |-> 0,
   incomingUnsequencedGroup |-> 0, outgoingUnsequencedGroup |-> 0,
   unsequencedWindow |-> {}]

NothingToSend(peer) ==
  /\ peer.outgoingReliableCommands = <<>>
  /\ peer.outgoingUnreliableCommands = <<>>
  /\ peer.sentReliableCommands = <<>>

-----------------------------------------------------------------------------
(***************************************************************************)
(* Outgoing: the numbers of a command are drawn when it is queued.         *)
(***************************************************************************)
Numbered(peer, command) ==
  LET c == command.channelID
      ch == peer.channels[c]
  IN CASE c = PeerChannel ->
            [peer |-> [peer EXCEPT !.outgoingReliableSequenceNumber = Succ(@)],
             reliable |-> Succ(peer.outgoingReliableSequenceNumber), unreliable |-> 0]
       [] c # PeerChannel /\ command.flag = "ack" ->
            [peer |-> [peer EXCEPT
                         !.channels[c].outgoingReliableSequenceNumber = Succ(@),
                         !.channels[c].outgoingUnreliableSequenceNumber = 0],
             reliable |-> Succ(ch.outgoingReliableSequenceNumber), unreliable |-> 0]
       [] c # PeerChannel /\ command.flag = "unsequenced" ->
            [peer |-> [peer EXCEPT !.outgoingUnsequencedGroup = Succ(@)],
             reliable |-> 0, unreliable |-> 0]
       [] OTHER ->
            LET n == IF FragmentOffset(command) = 0
                     THEN Succ(ch.outgoingUnreliableSequenceNumber)
                     ELSE ch.outgoingUnreliableSequenceNumber
            IN [peer |-> [peer EXCEPT !.channels[c].outgoingUnreliableSequenceNumber = n],
                reliable |-> ch.outgoingReliableSequenceNumber, unreliable |-> n]

\* The command with its numbers in it goes to one of the two lists.
Enqueued(numbered, command) ==
  LET sent == [command EXCEPT
                 !.reliableSequenceNumber = numbered.reliable,
                 !.body = CASE command.type = "UNRELIABLE" ->
                                 [@ EXCEPT !.unreliableSequenceNumber = numbered.unreliable]
                            [] command.type = "UNSEQUENCED" ->
                                 [@ EXCEPT !.unsequencedGroup =
                                             numbered.peer.outgoingUnsequencedGroup]
                            [] OTHER -> @]
      outgoing == [command |-> sent, unreliableSequenceNumber |-> numbered.unreliable,
                   sendAttempts |-> 0]
  IN IF command.flag = "ack"
     THEN [numbered.peer EXCEPT !.outgoingReliableCommands = Append(@, outgoing)]
     ELSE [numbered.peer EXCEPT !.outgoingUnreliableCommands = Append(@, outgoing)]

SetupOutgoingCommand(peer, command) == Enqueued(Numbered(peer, command), command)

QueueOutgoingCommand(peer, command) == SetupOutgoingCommand(peer, command)

\* The pieces a packet is cut into, and how many they are.
FragmentCount(data) == (Len(data) + FragmentLength - 1) \div FragmentLength
Piece(data, n) ==
  SubSeq(data, n * FragmentLength + 1,
         IF (n + 1) * FragmentLength < Len(data)
         THEN (n + 1) * FragmentLength ELSE Len(data))

\* The commands that carry a packet too long for one datagram.
Fragments(channel, c, data, flags) ==
  LET unreliably == /\ "UNRELIABLE_FRAGMENT" \in flags
                    /\ "RELIABLE" \notin flags
                    /\ channel.outgoingUnreliableSequenceNumber < SeqModulus - 1
      start == IF unreliably THEN Succ(channel.outgoingUnreliableSequenceNumber)
                             ELSE Succ(channel.outgoingReliableSequenceNumber)
  IN [n \in 1 .. FragmentCount(data) |->
        Command(IF unreliably THEN "UNRELIABLE_FRAGMENT" ELSE "FRAGMENT",
                IF unreliably THEN "none" ELSE "ack", c,
                [startSequenceNumber |-> start, fragmentCount |-> FragmentCount(data),
                 fragmentNumber |-> n - 1, totalLength |-> Len(data),
                 fragmentOffset |-> (n - 1) * FragmentLength,
                 data |-> Piece(data, n - 1)])]

\* The one command that carries a packet that fits in a datagram.
Whole(channel, c, data, flags) ==
  CASE "UNSEQUENCED" \in flags /\ "RELIABLE" \notin flags ->
         Command("UNSEQUENCED", "unsequenced", c, [unsequencedGroup |-> 0, data |-> data])
    [] "RELIABLE" \in flags \/ (/\ "UNSEQUENCED" \notin flags
                                /\ channel.outgoingUnreliableSequenceNumber >= SeqModulus - 1) ->
         Command("RELIABLE", "ack", c, [data |-> data])
    [] OTHER ->
         Command("UNRELIABLE", "none", c,
                 [unreliableSequenceNumber |-> 0, data |-> data])

\* enet_peer_send; the packet is refused where the first conjunct fails.
MaySend(peer, c) == peer.state = "CONNECTED" /\ c \in DOMAIN peer.channels

Send(peer, c, data, flags) ==
  IF ~ MaySend(peer, c) THEN peer
  ELSE IF Len(data) > FragmentLength
       THEN FoldLeft(SetupOutgoingCommand, peer,
                     Fragments(peer.channels[c], c, data, flags))
       ELSE QueueOutgoingCommand(peer, Whole(peer.channels[c], c, data, flags))

Ping(peer) ==
  IF peer.state # "CONNECTED" THEN peer
  ELSE QueueOutgoingCommand(peer, Command("PING", "ack", PeerChannel, <<>>))

-----------------------------------------------------------------------------
(***************************************************************************)
(* The window of a number relative to that of the last number delivered:   *)
(* a number that is behind counts as one lap ahead.                        *)
(***************************************************************************)
WindowAhead(channel, n) ==
  LET lap == IF n < channel.incomingReliableSequenceNumber THEN Windows ELSE 0
  IN WindowOf(n) + lap - WindowOf(channel.incomingReliableSequenceNumber)

InWindow(channel, n) == WindowAhead(channel, n) \in 0 .. FreeWindows - 2

\* Mutated QueueAcknowledgement: what is old is taken for too far ahead.
QueueAcknowledgementWithin(peer, command) ==
  IF /\ command.channelID \in DOMAIN peer.channels
     /\ ~ InWindow(peer.channels[command.channelID], command.reliableSequenceNumber)
  THEN peer
  ELSE [peer EXCEPT !.acknowledgements = Append(@, command)]

\* enet_peer_queue_acknowledgement: what lies just past the window is not
\* acknowledged, what lies further is taken for something old and is.
QueueAcknowledgement(peer, command) ==
  IF /\ command.channelID \in DOMAIN peer.channels
     /\ WindowAhead(peer.channels[command.channelID],
                    command.reliableSequenceNumber) \in {FreeWindows - 1, FreeWindows}
  THEN peer
  ELSE [peer EXCEPT !.acknowledgements = Append(@, command)]

(***************************************************************************)
(* enet_peer_dispatch_incoming_unreliable_commands: one pass over the list *)
(* with three marks in it.  "start" begins the run of commands that can be *)
(* handed over, which is moved when an incomplete packet or the end is     *)
(* met; "dropped" is the command before which all that is left is removed. *)
(* The end of the list is position 0 here, because its successor is the    *)
(* front of the list.                                                      *)
(***************************************************************************)
UnreliablePass(channel) ==
  LET list == channel.incomingUnreliableCommands
      Step[i \in 0 .. Len(list)] ==
        IF i = 0
        THEN [start |-> 1, dropped |-> 1, moved |-> {}, ended |-> 0,
              number |-> channel.incomingUnreliableSequenceNumber]
        ELSE LET pass == Step[i - 1]
             IN CASE pass.ended # 0 -> pass
                  [] pass.ended = 0 /\ list[i].command.type = "UNSEQUENCED" -> pass
                  [] /\ pass.ended = 0 /\ list[i].command.type # "UNSEQUENCED"
                     /\ list[i].reliableSequenceNumber
                          # channel.incomingReliableSequenceNumber ->
                       [pass EXCEPT !.ended = i]
                  [] /\ pass.ended = 0 /\ list[i].command.type # "UNSEQUENCED"
                     /\ list[i].reliableSequenceNumber
                          = channel.incomingReliableSequenceNumber
                     /\ list[i].fragmentsRemaining = 0 ->
                       [pass EXCEPT !.number = list[i].unreliableSequenceNumber]
                  [] OTHER ->
                       IF pass.start = i THEN [pass EXCEPT !.start = i + 1]
                       ELSE [pass EXCEPT !.moved = @ \cup pass.start .. i - 1,
                                         !.start = i + 1, !.dropped = i + 1]
  IN Step[Len(list)]

\* The pass with what is done behind it: the last run is moved, and "dropped"
\* goes past the command that ended the pass; past the end, to the front.
Finished(pass, length) ==
  LET current == IF pass.ended = 0 THEN length + 1 ELSE pass.ended
      next == IF pass.ended = 0 THEN 1 ELSE pass.ended + 1
  IN [pass EXCEPT !.moved = @ \cup pass.start .. current - 1,
                  !.dropped = IF pass.start >= current THEN @ ELSE next]

AtPlaces(list, places) == [k \in 1 .. Len(places) |-> list[places[k]]]

Dispatched(peer, c, pass) ==
  LET list == peer.channels[c].incomingUnreliableCommands
      At(S) == AtPlaces(list, SetToSortSeq(S, <))
  IN [peer EXCEPT
        !.dispatchedCommands = @ \o At(pass.moved),
        !.needsDispatch = @ \/ pass.moved # {},
        !.channels[c].incomingUnreliableSequenceNumber = pass.number,
        !.channels[c].incomingUnreliableCommands =
            At({k \in DOMAIN list \ pass.moved : k >= pass.dropped})]

DispatchUnreliable(peer, c) ==
  Dispatched(peer, c, Finished(UnreliablePass(peer.channels[c]),
                               Len(peer.channels[c].incomingUnreliableCommands)))

(***************************************************************************)
(* enet_peer_dispatch_incoming_reliable_commands: the longest run of       *)
(* complete packets that follow the last one, then the unreliable ones     *)
(* that waited for them.                                                   *)
(***************************************************************************)
LastNumber(incoming) ==
  IF incoming.fragmentCount > 0
  THEN (incoming.reliableSequenceNumber + incoming.fragmentCount - 1) % SeqModulus
  ELSE incoming.reliableSequenceNumber

\* Mutated ReadyPrefix: a gap in the numbers is not noticed.
ReadyPrefixOverGaps(channel) ==
  LET list == channel.incomingReliableCommands
  IN CHOOSE n \in 0 .. Len(list) :
       /\ \A k \in 1 .. n : list[k].fragmentsRemaining = 0
       /\ n < Len(list) => list[n + 1].fragmentsRemaining # 0

ReadyPrefix(channel) ==
  LET list == channel.incomingReliableCommands
      Before(k) == IF k = 1 THEN channel.incomingReliableSequenceNumber
                   ELSE LastNumber(list[k - 1])
      Ready(k) == /\ list[k].fragmentsRemaining = 0
                  /\ list[k].reliableSequenceNumber = Succ(Before(k))
  IN CHOOSE n \in 0 .. Len(list) : /\ \A k \in 1 .. n : Ready(k)
                                   /\ n < Len(list) => ~ Ready(n + 1)

\* The first n of the reliable commands are handed over.
DispatchFirst(peer, c, n) ==
  LET list == peer.channels[c].incomingReliableCommands
  IN IF n = 0 THEN peer
     ELSE DispatchUnreliable(
            [peer EXCEPT
               !.dispatchedCommands = @ \o SubSeq(list, 1, n),
               !.needsDispatch = TRUE,
               !.channels[c].incomingReliableSequenceNumber = LastNumber(list[n]),
               !.channels[c].incomingUnreliableSequenceNumber = 0,
               !.channels[c].incomingReliableCommands = SubSeq(list, n + 1, Len(list))],
            c)

DispatchReliable(peer, c) == DispatchFirst(peer, c, ReadyPrefix(peer.channels[c]))

(***************************************************************************)
(* The search from the back of a list for the place of a number.  A number *)
(* on the other side of the last one delivered belongs to the next lap.    *)
(***************************************************************************)
Passed(channel, mine, other) ==     \* the search goes on past such a command
  LET last == channel.incomingReliableSequenceNumber
  IN IF mine >= last THEN other < last \/ other > mine
     ELSE other < last /\ other > mine

ReliablePlace(channel, n) ==
  LET list == channel.incomingReliableCommands
  IN CHOOSE k \in 0 .. Len(list) :
       /\ k > 0 => ~ Passed(channel, n, list[k].reliableSequenceNumber)
       /\ \A j \in k + 1 .. Len(list) : Passed(channel, n, list[j].reliableSequenceNumber)

\* Mutated UnreliablePlace: the end of the list, whatever waits there.
UnreliablePlaceLast(channel, n, u) == Len(channel.incomingUnreliableCommands)

UnreliablePlace(channel, n, u) ==
  LET list == channel.incomingUnreliableCommands
      Goes(k) == \/ Passed(channel, n, list[k].reliableSequenceNumber)
                 \/ /\ list[k].reliableSequenceNumber = n
                    /\ list[k].unreliableSequenceNumber > u
  IN CHOOSE k \in 0 .. Len(list) :
       /\ k > 0 => ~ Goes(k)
       /\ \A j \in k + 1 .. Len(list) : Goes(j)

(***************************************************************************)
(* enet_peer_queue_incoming_command: result is "queued", "ignored" (the    *)
(* dummy command) or "error" (NULL).                                       *)
(***************************************************************************)
IsReliable(command) == command.type \in {"RELIABLE", "FRAGMENT"}
IsUnsequenced(command) == command.type = "UNSEQUENCED"

IncomingPlace(channel, command, u) ==
  CASE IsReliable(command) -> ReliablePlace(channel, command.reliableSequenceNumber)
    [] IsUnsequenced(command) -> 0
    [] OTHER -> UnreliablePlace(channel, command.reliableSequenceNumber, u)

\* What came before, or is too far from what was delivered, is not queued.
Freed(channel, list, incoming, place) ==
  LET n == incoming.reliableSequenceNumber
      u == incoming.unreliableSequenceNumber
      reliably == IsReliable(incoming.command)
  IN /\ ~ IsUnsequenced(incoming.command)
     /\ \/ ~ InWindow(channel, n)
        \/ /\ n = channel.incomingReliableSequenceNumber
           /\ reliably \/ u <= channel.incomingUnreliableSequenceNumber
        \/ /\ place > 0
           /\ list[place].reliableSequenceNumber = n
           /\ reliably \/ list[place].unreliableSequenceNumber = u

QueueAt(peer, incoming, place) ==
  LET c == incoming.command.channelID
      reliably == IsReliable(incoming.command)
      list == IF reliably THEN peer.channels[c].incomingReliableCommands
                          ELSE peer.channels[c].incomingUnreliableCommands
      longer == SubSeq(list, 1, place) \o <<incoming>>
                  \o SubSeq(list, place + 1, Len(list))
  IN IF peer.state = "DISCONNECT_LATER" \/ Freed(peer.channels[c], list, incoming, place)
     THEN [peer |-> peer,
           result |-> IF incoming.fragmentCount > 0 THEN "error" ELSE "ignored"]
     ELSE [peer |-> IF reliably
                    THEN DispatchReliable(
                           [peer EXCEPT !.channels[c].incomingReliableCommands = longer], c)
                    ELSE DispatchUnreliable(
                           [peer EXCEPT !.channels[c].incomingUnreliableCommands = longer], c),
           result |-> "queued"]

QueueIncomingCommand(peer, command, u, data, fragmentCount) ==
  QueueAt(peer,
          [command |-> command, reliableSequenceNumber |-> command.reliableSequenceNumber,
           unreliableSequenceNumber |-> u, fragmentCount |-> fragmentCount,
           fragmentsRemaining |-> fragmentCount, fragments |-> {}, data |-> data],
          IncomingPlace(peer.channels[command.channelID], command, u))

\* enet_peer_receive: the packet handed over is that of the front command.
Receive(peer) == [peer EXCEPT !.dispatchedCommands = Tail(@)]
=============================================================================
