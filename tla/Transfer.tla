------------------------------ MODULE Transfer ------------------------------
(***************************************************************************)
(* Two connected ENet hosts and the packets one sends to the other: whole  *)
(* or in fragments, reliable, unreliable or unsequenced, over a net that   *)
(* loses, reorders and duplicates datagrams, around the lap of the         *)
(* sequence numbers.                                                       *)
(*                                                                         *)
(* The connection is the outcome of the handshake, played by the handlers  *)
(* themselves, after "start" packets were sent and received on channel 0.  *)
(* No peer is given up here: Connections has that.                         *)
(***************************************************************************)
EXTENDS ENetService

CONSTANTS
  Sender, Receiver,  \* the two addresses
  Menus              \* the behaviours: packets sent before, kinds of packet to
                     \* send, and bounds on the packets sent and on losses,
                     \* duplicates, pings, throttled calls and timeouts
                     \* together; with "retries" timeouts are unlimited and
                     \* only losses are counted; with "closes" the sender may
                     \* ask to be disconnected when all is sent

VARIABLES hosts,     \* the two hosts
          net,       \* the datagrams that may still arrive
          menu,      \* the member of Menus this behaviour follows
          sent,      \* every packet sent, in order: its kind and its data
          got,       \* every packet handed over, in order
          faults     \* how much of menu.faults is used up

vars == <<hosts, net, menu, sent, got, faults>>

Channel == 0

Calm(h, self, batch) == Service(h, self, batch, NoChoices, TRUE).host
Rested(h) == [h EXCEPT !.event = NoEvent, !.sent = <<>>]

\* CONNECT, VERIFY_CONNECT and its acknowledgement: each call takes what the
\* call before sent.
Exchanged(at, a, h) ==
  [hosts |-> [at.hosts EXCEPT ![a] = Rested(h)], datagrams |-> h.sent]

Handshake ==
  FoldLeft(LAMBDA at, a : Exchanged(at, a, Calm(at.hosts[a], a, at.datagrams)),
           [hosts |-> [a \in {Sender, Receiver} |->
                         IF a = Sender THEN Connect(FreshHost(1, 1), Receiver, 1, 1, 0)
                         ELSE FreshHost(1, 1)],
            datagrams |-> <<>>],
           <<Sender, Receiver, Sender, Sender, Receiver>>).hosts

\* Both ends after n reliable packets on the channel.
After(h, n) ==
  [h EXCEPT !.peers[0].channels[Channel].outgoingReliableSequenceNumber = n,
            !.peers[0].channels[Channel].incomingReliableSequenceNumber = n]

Init ==
  /\ menu \in Menus
  /\ hosts = [a \in {Sender, Receiver} |-> After(Handshake[a], menu.start)]
  /\ net = {} /\ sent = <<>> /\ got = <<>>
  /\ faults = 0

\* The n-th packet: no two bytes of a behaviour are the same.
Payload(n, length) == [i \in 1 .. length |-> 10 * n + i]

SendPacket(kind) ==
  /\ Len(sent) < menu.sends
  /\ MaySend(hosts[Sender].peers[0], Channel)
  /\ LET data == Payload(Len(sent) + 1, kind.length)
     IN /\ sent' = Append(sent, [kind |-> kind, data |-> data])
        /\ hosts' = [hosts EXCEPT ![Sender] =
                       With(@, 0, Send(@.peers[0], Channel, data, kind.flags))]
  /\ UNCHANGED <<net, menu, got, faults>>

\* The sender has nothing more to say, and lets go when all of it is sent.
Closes ==
  /\ menu.closes /\ hosts[Sender].peers[0].state = "CONNECTED"
  /\ hosts' = [hosts EXCEPT ![Sender] = DisconnectLater(@, 0, 0, Sender)]
  /\ UNCHANGED <<net, menu, sent, got, faults>>

(***************************************************************************)
(* One service call of a host, with at most one datagram.                  *)
(***************************************************************************)
Served(a, choices, kept, done) ==
  LET odd == Cardinality(kept) + Cardinality(choices.silent \cup choices.throttled)
      cost == odd + (IF choices.expired = {} \/ menu.retries THEN 0 ELSE 1)
  IN /\ menu.retries => odd = 0
     /\ faults + cost <= menu.faults
     /\ faults' = faults + cost
     /\ hosts' = [hosts EXCEPT ![a] = Rested(done.host)]
     /\ net' = (net \ (done.taken \ kept)) \cup ToSet(done.host.sent)
     /\ got' = IF done.host.event.type = "RECEIVE"
               THEN Append(got, done.host.event.data) ELSE got
     /\ UNCHANGED <<menu, sent>>

Serve(a, batch, choices, kept) ==
  Served(a, choices, kept, Service(hosts[a], a, batch, choices, TRUE))

Calls(a) == Serve(a, <<>>, NoChoices, {})

Takes(a) ==
  \E d \in {e \in net : e.to = a} : \E kept \in {{}, {d}} : Serve(a, <<d>>, NoChoices, kept)

SentBy(a) == {<<0, o>> : o \in ToSet(hosts[a].peers[0].sentReliableCommands)}

TimesOut(a, expired) ==
  expired # {} /\ Serve(a, <<>>, [NoChoices EXCEPT !.expired = expired], {})

Pings(a) == Serve(a, <<>>, [NoChoices EXCEPT !.silent = {0}], {})
Throttles(a) == Serve(a, <<>>, [NoChoices EXCEPT !.throttled = {0}], {})

\* The net loses a datagram.
Lose(d) ==
  /\ faults < menu.faults
  /\ net' = net \ {d}
  /\ faults' = faults + 1
  /\ UNCHANGED <<hosts, menu, sent, got>>

Next ==
  \/ \E kind \in menu.kinds : SendPacket(kind)
  \/ Closes
  \/ \E a \in {Sender, Receiver} :
       \/ Calls(a) \/ Takes(a) \/ Pings(a) \/ Throttles(a)
       \/ TimesOut(a, SentBy(a))
       \/ \E x \in SentBy(a) : TimesOut(a, {x})
  \/ \E d \in net : Lose(d)

Spec == Init /\ [][Next]_vars

-----------------------------------------------------------------------------
(***************************************************************************)
(* Properties.                                                             *)
(***************************************************************************)
Mine == hosts[Sender].peers[0]
Theirs == hosts[Receiver].peers[0]

\* The packets enet_peer_send takes for reliable: those that say so, and those
\* too long for a datagram that may not be cut into unreliable fragments.
Reliably(kind) ==
  \/ "RELIABLE" \in kind.flags
  \/ kind.length > FragmentLength /\ "UNRELIABLE_FRAGMENT" \notin kind.flags

Unsequenced(kind) == "UNSEQUENCED" \in kind.flags /\ ~ Reliably(kind)

\* What a packet was before its memory was freed.
AsSent(data) == [i \in DOMAIN data |-> IF data[i] < 0 THEN Undefined(data[i]) ELSE data[i]]

NumberOf(data) == AsSent(data)[1] \div 10
KindOf(data) == sent[NumberOf(data)].kind

\* What is handed over was sent, with each of its bytes in its place, and is
\* handed over once: no packet is put together from pieces of two, and no
\* duplicate of a datagram makes a second packet.  Only the unreliable packets of
\* the datagram with which the sender leaves, which are freed before it is sent,
\* arrive with bytes that may be any.  And, reliable or not, what is sequenced is
\* handed over in the order it was sent: an unreliable packet neither overtakes
\* the reliable packets before it nor comes after one sent later.
WholeOnceInOrder ==
  /\ \A i \in DOMAIN got : \E n \in DOMAIN sent :
       /\ AsSent(got[i]) = sent[n].data
       /\ got[i] # sent[n].data =>
            /\ ~ Reliably(sent[n].kind)
            /\ Mine.state \notin {"CONNECTED", "DISCONNECT_LATER"}
  /\ \A i, j \in DOMAIN got : NumberOf(got[i]) = NumberOf(got[j]) => i = j
  /\ \A i, j \in DOMAIN got :
       i < j /\ ~ Unsequenced(KindOf(got[i])) /\ ~ Unsequenced(KindOf(got[j]))
         => NumberOf(got[i]) < NumberOf(got[j])

\* The reliable packets of the channel are what Delivery promises: handed over
\* once, whole and in order, and all of them before the receiver lets go of a
\* connection that was closed with enet_peer_disconnect_later.
ReliableOf(packets) == SelectSeq(packets, LAMBDA data : Reliably(KindOf(data)))
Promise == INSTANCE Delivery WITH
             Packet <- UNION {{Payload(n, kind.length) :
                                 n \in 1 .. m.sends, kind \in m.kinds} : m \in Menus},
             sent <- ReliableOf([n \in DOMAIN sent |-> sent[n].data]),
             delivered <- ReliableOf(got),
             closed <- Mine.state # "CONNECTED",
             ended <- Theirs.state # "CONNECTED"
Delivers == Promise!Spec

\* An acknowledgement means the packet is there: a piece of a reliable packet
\* that the sender has struck off its lists is with the receiver, although the
\* receiver acknowledges what it drops as old and the numbers come around.
Outstanding == ToSet(Mine.outgoingReliableCommands) \cup ToSet(Mine.sentReliableCommands)
AtReceiver == ToSet(got) \cup
  {i.data : i \in ToSet(Theirs.dispatchedCommands)
                  \cup (IF Theirs.state # "CONNECTED" THEN {}
                        ELSE ToSet(Theirs.channels[Channel].incomingReliableCommands))}

AcknowledgedIsThere ==
  \A n \in DOMAIN sent :
    Reliably(sent[n].kind) =>
      \A k \in DOMAIN sent[n].data :
        \/ \E o \in Outstanding : /\ HasPacket(o.command)
                                  /\ sent[n].data[k] \in ToSet(o.command.body.data)
        \/ \E data \in AtReceiver : sent[n].data[k] \in ToSet(data)

\* The accounts of the flow control agree with the lists: the bytes in transit
\* are those of the commands sent and not struck off, each window counts the
\* commands of it that are outstanding, and is marked used while there are any.
AccountsBalance ==
  LET Begun(w) == {o \in Outstanding : /\ o.command.channelID = Channel
                                       /\ o.sendAttempts > 0
                                       /\ WindowOf(o.command.reliableSequenceNumber) = w}
      channel == Mine.channels[Channel]
  IN Channel \in DOMAIN Mine.channels =>
     /\ Mine.reliableDataInTransit
          = FoldLeft(LAMBDA sum, o : sum + Size(o.command), 0, Mine.sentReliableCommands)
     /\ \A w \in 0 .. Windows - 1 :
          /\ channel.reliableWindows[w] = Cardinality(Begun(w))
          /\ w \in channel.usedReliableWindows <=> Begun(w) # {}
=============================================================================
