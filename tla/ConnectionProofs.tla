-------------------------- MODULE ConnectionProofs --------------------------
(***************************************************************************)
(* What the game server believes of its clients is what ENet knows, for    *)
(* every number of peers and clients, whatever the net does.               *)
(***************************************************************************)
EXTENDS Connections, FiniteSetTheorems, SequenceTheorems, NaturalsInduction, WellFoundedInduction, TLAPS

-----------------------------------------------------------------------------
(* Lists *)

IsList(s) == s \in Seq({s[k] : k \in DOMAIN s})

\* A sequence over some set is a list.
LEMMA ListOver ==
  ASSUME NEW S, NEW s \in Seq(S)
  PROVE  IsList(s) /\ DOMAIN s = 1 .. Len(s) /\ Len(s) \in Nat /\ \A k \in DOMAIN s : s[k] \in S
<1>1. Len(s) \in Nat /\ DOMAIN s = 1 .. Len(s) /\ s \in [1 .. Len(s) -> S]
  OBVIOUS
<1>2. s \in [1 .. Len(s) -> {s[k] : k \in DOMAIN s}]
  BY <1>1
<1> QED
  BY <1>1, <1>2 DEF IsList

\* A sequence over a set is one over any wider set.
LEMMA WiderSeq ==
  ASSUME NEW S, NEW T, S \subseteq T
  PROVE  Seq(S) \subseteq Seq(T)
<1> SUFFICES ASSUME NEW s \in Seq(S) PROVE s \in Seq(T)
  OBVIOUS
<1>1. Len(s) \in Nat /\ s \in [1 .. Len(s) -> S]
  OBVIOUS
<1>2. s \in [1 .. Len(s) -> T]
  BY <1>1
<1> QED
  BY <1>1, <1>2

\* What is done to lists keeps them within the sets of their elements.
LEMMA AppendOver ==
  ASSUME NEW S, NEW s \in Seq(S), NEW x
  PROVE  Append(s, x) \in Seq(S \cup {x})
<1>1. s \in Seq(S \cup {x})
  BY WiderSeq
<1> QED
  BY <1>1

LEMMA ConcatOver ==
  ASSUME NEW S, NEW T, NEW s \in Seq(S), NEW t \in Seq(T)
  PROVE  s \o t \in Seq(S \cup T)
<1>1. s \in Seq(S \cup T) /\ t \in Seq(S \cup T)
  BY WiderSeq
<1> QED
  BY <1>1

LEMMA PartOver ==
  ASSUME NEW S, NEW s \in Seq(S), NEW m \in Nat \ {0}, NEW n \in Int, n <= Len(s)
  PROVE  SubSeq(s, m, n) \in Seq(S)
<1>1. Len(s) \in Nat /\ DOMAIN s = 1 .. Len(s) /\ \A k \in 1 .. Len(s) : s[k] \in S
  OBVIOUS
<1>2. \A k \in m .. n : s[k] \in S
  BY <1>1
<1> QED
  BY <1>2

LEMMA WithoutOver ==
  ASSUME NEW S, NEW s \in Seq(S), NEW k \in 0 .. Len(s)
  PROVE  Without(s, k) \in Seq(S)
<1>1. Len(s) \in Nat /\ k - 1 \in Int /\ k - 1 <= Len(s) /\ k + 1 \in Nat \ {0}
  OBVIOUS
<1>2. SubSeq(s, 1, k - 1) \in Seq(S) /\ SubSeq(s, k + 1, Len(s)) \in Seq(S)
  BY <1>1, PartOver
<1> QED
  BY <1>2 DEF Without

LEMMA TailOver ==
  ASSUME NEW S, NEW s \in Seq(S), s # <<>>
  PROVE  Head(s) \in S /\ Tail(s) \in Seq(S)
OBVIOUS

\* A set of numbers that is not empty has a smallest element.
LEMMA Smallest ==
  ASSUME NEW S \in SUBSET Nat, S # {}
  PROVE  \E m \in S : \A n \in S : m <= n
<1> DEFINE R == OpToRel(<, Nat)
<1>1. IsWellFoundedOn(R, Nat)
  BY NatLessThanWellFounded
<1> HIDE DEF R
<1>2. PICK m \in S : \A n \in S : ~ (<<n, m>> \in R)
  BY <1>1, WFMin
<1>3. \A n \in S : ~ (n < m)
  BY <1>2 DEF R, OpToRel
<1> QED
  BY <1>3

\* The first place of a set of places, or none.
LEMMA FirstPlace ==
  ASSUME NEW n \in Nat, NEW I \in SUBSET (1 .. n)
  PROVE  /\ I # {} => Min(I) \in I
         /\ (IF I # {} THEN Min(I) ELSE 0) \in 0 .. n
<1>1. ASSUME I # {} PROVE Min(I) \in I
  <2>1. PICK m \in I : \A k \in I : m <= k
    BY <1>1, Smallest
  <2> QED
    BY <2>1 DEF Min
<1>2. CASE I # {}
  <2>1. Min(I) \in 1 .. n
    BY <1>1, <1>2
  <2> QED
    BY <1>1, <1>2, <2>1
<1>3. CASE I = {}
  BY <1>3
<1> QED
  BY <1>2, <1>3

\* What holds of 0, and of n + 1 if it holds of n, holds of every number up to k.
LEMMA Upwards ==
  ASSUME NEW S \in SUBSET Nat, NEW k \in Nat, 0 \in S,
         \A n \in S : n < k => n + 1 \in S
  PROVE  0 .. k \subseteq S
<1> DEFINE D == {n \in 0 .. k : n \notin S}
<1>1. SUFFICES ASSUME D # {} PROVE FALSE
  OBVIOUS
<1>2. D \subseteq Nat
  OBVIOUS
<1> HIDE DEF D
<1>3. PICK m \in D : \A n \in D : m <= n
  BY <1>1, <1>2, Smallest
<1> USE DEF D
<1>4. m # 0 /\ m - 1 \in 0 .. k
  OBVIOUS
<1>5. m - 1 \in S
  BY <1>3, <1>4
<1> QED
  BY <1>4, <1>5

-----------------------------------------------------------------------------
(* Peers.  "serving" says that the peer is one of the server's host: its    *)
(* clients never ask it for the acknowledgement of a DISCONNECT, so that no *)
(* such acknowledgement ends a connection; what it asks of them is no       *)
(* matter.                                                                  *)

Fields ==
  {"state", "address", "connectID", "outgoingPeerID", "outgoingSessionID",
   "incomingSessionID", "eventData", "needsDispatch", "acknowledgements",
   "sentReliableCommands", "outgoingReliableCommands", "outgoingUnreliableCommands",
   "dispatchedCommands", "channels", "outgoingReliableSequenceNumber",
   "reliableDataInTransit", "incomingUnsequencedGroup", "outgoingUnsequencedGroup",
   "unsequencedWindow"}

\* It asks to acknowledge a DISCONNECT.
Rude(command) == command.type = "DISCONNECT" /\ command.flag = "ack"

\* A command that is to be sent or was.
Letter(o, serving) ==
  /\ DOMAIN o = {"command", "unreliableSequenceNumber", "sendAttempts"}
  /\ serving \/ ~Rude(o.command)

Letters(list, serving) == IsList(list) /\ \A k \in DOMAIN list : Letter(list[k], serving)

\* A command that is to be acknowledged.
Debts(list, serving) ==
  IsList(list) /\ \A k \in DOMAIN list : serving => list[k].type # "DISCONNECT"

\* Nobody asks for a late disconnect, and then no peer is DISCONNECT_LATER.
States ==
  {"DISCONNECTED", "CONNECTING", "ACKNOWLEDGING_CONNECT", "CONNECTION_PENDING",
   "CONNECTION_SUCCEEDED", "CONNECTED", "DISCONNECTING", "ACKNOWLEDGING_DISCONNECT",
   "ZOMBIE"}

Proper(peer, serving) ==
  /\ DOMAIN peer = Fields
  /\ peer.state \in States
  /\ Letters(peer.outgoingReliableCommands, serving)
  /\ Letters(peer.outgoingUnreliableCommands, serving)
  /\ Letters(peer.sentReliableCommands, serving)
  /\ Debts(peer.acknowledgements, serving)
  /\ peer.state = "DISCONNECTED" =>
       peer.outgoingReliableCommands = <<>> /\ peer.sentReliableCommands = <<>>
  /\ serving => peer.address # Server

\* Only what was received changes.
Alike(peer, q) ==
  /\ DOMAIN q = Fields
  /\ q.state = peer.state /\ q.connectID = peer.connectID /\ q.address = peer.address
  /\ q.outgoingReliableCommands = peer.outgoingReliableCommands
  /\ q.outgoingUnreliableCommands = peer.outgoingUnreliableCommands
  /\ q.sentReliableCommands = peer.sentReliableCommands
  /\ q.acknowledgements = peer.acknowledgements

\* The states of an announced peer, and those of one that asks for a connection.
Public == {"CONNECTED", "DISCONNECTING", "DISCONNECT_LATER",
           "ACKNOWLEDGING_DISCONNECT", "ZOMBIE"}
Early == {"CONNECTING", "CONNECTION_PENDING", "CONNECTION_SUCCEEDED"}

\* A peer that does not ask for a connection: the application is told nothing.
Lives(peer, q) ==
  peer.state \notin Early =>
    /\ q.state \notin Early
    /\ q.state \in Public <=> peer.state \in Public
    /\ peer.state \in Public => q.connectID = peer.connectID
    /\ q.state = "CONNECTED" => peer.state = "CONNECTED"

LEMMA LivesOn ==
  ASSUME NEW peer, NEW q, NEW r, Lives(peer, q), Lives(q, r)
  PROVE  Lives(peer, r)
BY DEF Lives

LEMMA AlikeIsProper ==
  ASSUME NEW peer, NEW q, NEW serving, Proper(peer, serving), Alike(peer, q)
  PROVE  Proper(q, serving) /\ Lives(peer, q)
BY DEF Proper, Alike, Lives

LEMMA AlikeOn ==
  ASSUME NEW peer, NEW q, NEW r, Alike(peer, q), Alike(q, r)
  PROVE  Alike(peer, r)
BY DEF Alike

-----------------------------------------------------------------------------
(* Lists of commands *)

LEMMA LettersOver ==
  ASSUME NEW S, NEW list \in Seq(S), NEW serving, \A o \in S : Letter(o, serving)
  PROVE  Letters(list, serving)
BY ListOver DEF Letters

LEMMA LettersAre ==
  ASSUME NEW list, NEW serving, Letters(list, serving)
  PROVE  /\ \E S : list \in Seq(S) /\ \A o \in S : Letter(o, serving)
         /\ DOMAIN list = 1 .. Len(list) /\ Len(list) \in Nat
<1> DEFINE S == {list[k] : k \in DOMAIN list}
<1>1. list \in Seq(S) /\ \A o \in S : Letter(o, serving)
  BY DEF Letters, IsList
<1> HIDE DEF S
<1>2. DOMAIN list = 1 .. Len(list) /\ Len(list) \in Nat
  BY <1>1, ListOver
<1> QED
  BY <1>1, <1>2

LEMMA NoLetters ==
  ASSUME NEW serving
  PROVE  Letters(<<>>, serving) /\ Debts(<<>>, serving)
<1>1. <<>> \in Seq({}) /\ DOMAIN <<>> = {}
  OBVIOUS
<1>2. IsList(<<>>)
  BY <1>1, ListOver
<1> QED
  BY <1>1, <1>2 DEF Letters, Debts

LEMMA OneLetterMore ==
  ASSUME NEW list, NEW serving, Letters(list, serving), NEW o, Letter(o, serving)
  PROVE  Letters(Append(list, o), serving)
<1>1. PICK S : list \in Seq(S) /\ \A x \in S : Letter(x, serving)
  BY LettersAre
<1>2. Append(list, o) \in Seq(S \cup {o}) /\ \A x \in S \cup {o} : Letter(x, serving)
  BY <1>1, AppendOver
<1> QED
  BY <1>2, LettersOver

LEMMA LettersTogether ==
  ASSUME NEW s, NEW t, NEW serving, Letters(s, serving), Letters(t, serving)
  PROVE  Letters(s \o t, serving)
<1>1. PICK S : s \in Seq(S) /\ \A x \in S : Letter(x, serving)
  BY LettersAre
<1>2. PICK T : t \in Seq(T) /\ \A x \in T : Letter(x, serving)
  BY LettersAre
<1>3. s \o t \in Seq(S \cup T) /\ \A x \in S \cup T : Letter(x, serving)
  BY <1>1, <1>2, ConcatOver
<1> QED
  BY <1>3, LettersOver

LEMMA OneLetterLess ==
  ASSUME NEW list, NEW serving, Letters(list, serving), NEW k \in 0 .. Len(list)
  PROVE  Letters(Without(list, k), serving)
<1>1. PICK S : list \in Seq(S) /\ \A x \in S : Letter(x, serving)
  BY LettersAre
<1>2. Without(list, k) \in Seq(S)
  BY <1>1, WithoutOver
<1> QED
  BY <1>1, <1>2, LettersOver

LEMMA OneDebtMore ==
  ASSUME NEW list, NEW serving, Debts(list, serving), NEW c,
         serving => c.type # "DISCONNECT"
  PROVE  Debts(Append(list, c), serving)
<1> DEFINE S == {list[k] : k \in DOMAIN list}
<1>1. list \in Seq(S) /\ \A x \in S : serving => x.type # "DISCONNECT"
  BY DEF Debts, IsList
<1> HIDE DEF S
<1>2. Append(list, c) \in Seq(S \cup {c})
  BY <1>1, AppendOver
<1>3. /\ IsList(Append(list, c))
      /\ \A k \in DOMAIN Append(list, c) : Append(list, c)[k] \in S \cup {c}
  BY <1>2, ListOver
<1> QED
  BY <1>1, <1>3 DEF Debts

LEMMA DebtsPaid ==
  ASSUME NEW list, NEW serving, Debts(list, serving), NEW m \in Nat, m <= Len(list)
  PROVE  /\ Debts(SubSeq(list, m + 1, Len(list)), serving)
         /\ Len(list) \in Nat /\ DOMAIN list = 1 .. Len(list)
         /\ \A k \in 1 .. m : SubSeq(list, 1, m)[k] = list[k]
<1> DEFINE S == {list[k] : k \in DOMAIN list}
           rest == SubSeq(list, m + 1, Len(list))
<1>1. list \in Seq(S) /\ \A x \in S : serving => x.type # "DISCONNECT"
  BY DEF Debts, IsList
<1> HIDE DEF S
<1>2. Len(list) \in Nat /\ DOMAIN list = 1 .. Len(list)
  BY <1>1
<1>3. rest \in Seq(S)
  BY <1>1, <1>2, PartOver
<1>4. \A k \in 1 .. m : SubSeq(list, 1, m)[k] = list[k]
  BY <1>1, <1>2
<1> HIDE DEF rest
<1>5. IsList(rest) /\ \A k \in DOMAIN rest : rest[k] \in S
  BY <1>3, ListOver
<1>6. Debts(rest, serving)
  BY <1>1, <1>5 DEF Debts
<1> QED
  BY <1>2, <1>4, <1>6 DEF rest

-----------------------------------------------------------------------------
(* What is done to a peer *)

LEMMA ReceiveAlike ==
  ASSUME NEW peer, DOMAIN peer = Fields
  PROVE  Alike(peer, Receive(peer))
BY DEF Alike, Receive, Fields

LEMMA DispatchUnreliableAlike ==
  ASSUME NEW peer, DOMAIN peer = Fields, NEW c
  PROVE  Alike(peer, DispatchUnreliable(peer, c))
BY DEF Alike, DispatchUnreliable, Dispatched, Fields

LEMMA DispatchReliableAlike ==
  ASSUME NEW peer, DOMAIN peer = Fields, NEW c
  PROVE  Alike(peer, DispatchReliable(peer, c))
<1> DEFINE n == ReadyPrefix(peer.channels[c])
           list == peer.channels[c].incomingReliableCommands
           first == [peer EXCEPT
               !.dispatchedCommands = @ \o SubSeq(list, 1, n),
               !.needsDispatch = TRUE,
               !.channels[c].incomingReliableSequenceNumber = LastNumber(list[n]),
               !.channels[c].incomingUnreliableSequenceNumber = 0,
               !.channels[c].incomingReliableCommands = SubSeq(list, n + 1, Len(list))]
<1>1. DispatchReliable(peer, c) = IF n = 0 THEN peer ELSE DispatchUnreliable(first, c)
  BY DEF DispatchReliable, DispatchFirst
<1>2. Alike(peer, peer) /\ Alike(peer, first)
  BY DEF Alike, Fields
<1> HIDE DEF first, n
<1>3. Alike(first, DispatchUnreliable(first, c))
  BY <1>2, DispatchUnreliableAlike DEF Alike
<1> QED
  BY <1>1, <1>2, <1>3, AlikeOn

LEMMA QueueAtAlike ==
  ASSUME NEW peer, DOMAIN peer = Fields, NEW incoming, NEW place
  PROVE  Alike(peer, QueueAt(peer, incoming, place).peer)
<1> DEFINE c == incoming.command.channelID
           reliably == IsReliable(incoming.command)
           list == IF reliably THEN peer.channels[c].incomingReliableCommands
                               ELSE peer.channels[c].incomingUnreliableCommands
           longer == SubSeq(list, 1, place) \o <<incoming>>
                       \o SubSeq(list, place + 1, Len(list))
           one == [peer EXCEPT !.channels[c].incomingReliableCommands = longer]
           other == [peer EXCEPT !.channels[c].incomingUnreliableCommands = longer]
<1>1. QueueAt(peer, incoming, place).peer
        \in {peer, DispatchReliable(one, c), DispatchUnreliable(other, c)}
  BY DEF QueueAt
<1>2. Alike(peer, peer) /\ Alike(peer, one) /\ Alike(peer, other)
  BY DEF Alike, Fields
<1> HIDE DEF one, other
<1>3. Alike(one, DispatchReliable(one, c)) /\ Alike(other, DispatchUnreliable(other, c))
  BY <1>2, DispatchUnreliableAlike, DispatchReliableAlike DEF Alike
<1> QED
  BY <1>1, <1>2, <1>3, AlikeOn

LEMMA QueueIncomingAlike ==
  ASSUME NEW peer, DOMAIN peer = Fields, NEW command, NEW u, NEW bytes, NEW count
  PROVE  Alike(peer, QueueIncomingCommand(peer, command, u, bytes, count).peer)
BY QueueAtAlike DEF QueueIncomingCommand

\* A peer that is forgotten is disconnected and has nothing to send.
LEMMA ResetProper ==
  ASSUME NEW peer, NEW serving, Proper(peer, serving)
  PROVE  /\ Proper(Reset(peer), serving) /\ Reset(peer).state = "DISCONNECTED"
         /\ peer.state \notin Public => Lives(peer, Reset(peer))
<1>1. /\ DOMAIN Reset(peer) = Fields /\ Reset(peer).state = "DISCONNECTED"
      /\ Reset(peer).outgoingReliableCommands = <<>>
      /\ Reset(peer).outgoingUnreliableCommands = <<>>
      /\ Reset(peer).sentReliableCommands = <<>> /\ Reset(peer).acknowledgements = <<>>
      /\ Reset(peer).address = peer.address
  BY DEF Proper, Reset, ResetQueues, Fields
<1> QED
  BY <1>1, NoLetters DEF Proper, Lives, Public, Early, States

LEMMA ResetQueuesProper ==
  ASSUME NEW peer, NEW serving, Proper(peer, serving)
  PROVE  /\ Proper(ResetQueues(peer), serving)
         /\ ResetQueues(peer).state = peer.state
         /\ ResetQueues(peer).connectID = peer.connectID
         /\ Lives(peer, ResetQueues(peer))
<1>1. /\ DOMAIN ResetQueues(peer) = Fields /\ ResetQueues(peer).state = peer.state
      /\ ResetQueues(peer).outgoingReliableCommands = <<>>
      /\ ResetQueues(peer).outgoingUnreliableCommands = <<>>
      /\ ResetQueues(peer).sentReliableCommands = <<>>
      /\ ResetQueues(peer).acknowledgements = <<>>
      /\ ResetQueues(peer).address = peer.address
      /\ ResetQueues(peer).connectID = peer.connectID
  BY DEF Proper, ResetQueues, Fields
<1> QED
  BY <1>1, NoLetters DEF Proper, Lives

\* enet_peer_queue_outgoing_command: one letter more.
Form == {"type", "flag", "channelID", "reliableSequenceNumber", "body"}

LEMMA QueueProper ==
  ASSUME NEW peer, NEW serving, Proper(peer, serving), peer.state # "DISCONNECTED",
         NEW command, DOMAIN command = Form, serving \/ ~Rude(command)
  PROVE  LET q == QueueOutgoingCommand(peer, command)
         IN /\ Proper(q, serving) /\ Lives(peer, q)
            /\ q.state = peer.state /\ q.connectID = peer.connectID
            /\ q.address = peer.address
            /\ q.sentReliableCommands = peer.sentReliableCommands
            /\ command.flag = "ack" =>
                 \E o : /\ q.outgoingReliableCommands
                             = Append(peer.outgoingReliableCommands, o)
                        /\ o.sendAttempts = 0
<1> DEFINE numbered == Numbered(peer, command)
           q == Enqueued(numbered, command)
<1>1. Alike(peer, numbered.peer)
  BY DEF Numbered, Alike, Proper, Fields
<1> HIDE DEF numbered
<1>2. PICK sent : /\ q = IF command.flag = "ack"
                         THEN [numbered.peer EXCEPT !.outgoingReliableCommands =
                                 Append(@, [command |-> sent,
                                            unreliableSequenceNumber |-> numbered.unreliable,
                                            sendAttempts |-> 0])]
                         ELSE [numbered.peer EXCEPT !.outgoingUnreliableCommands =
                                 Append(@, [command |-> sent,
                                            unreliableSequenceNumber |-> numbered.unreliable,
                                            sendAttempts |-> 0])]
                  /\ sent.type = command.type /\ sent.flag = command.flag
  <2> DEFINE sent == [command EXCEPT
                 !.reliableSequenceNumber = numbered.reliable,
                 !.body = CASE command.type = "UNRELIABLE" ->
                                 [@ EXCEPT !.unreliableSequenceNumber = numbered.unreliable]
                            [] command.type = "UNSEQUENCED" ->
                                 [@ EXCEPT !.unsequencedGroup =
                                             numbered.peer.outgoingUnsequencedGroup]
                            [] OTHER -> @]
  <2>1. sent.type = command.type /\ sent.flag = command.flag
    BY DEF Form
  <2> QED
    BY <2>1 DEF Enqueued
<1> DEFINE o == [command |-> sent, unreliableSequenceNumber |-> numbered.unreliable,
                 sendAttempts |-> 0]
<1>3. Letter(o, serving) /\ o.sendAttempts = 0
  BY <1>2 DEF Letter, Rude
<1>4. \/ /\ q = [numbered.peer EXCEPT !.outgoingReliableCommands = Append(@, o)]
         /\ command.flag = "ack"
      \/ /\ q = [numbered.peer EXCEPT !.outgoingUnreliableCommands = Append(@, o)]
         /\ command.flag # "ack"
  BY <1>2
<1> HIDE DEF o, q
<1>5. /\ Letters(Append(peer.outgoingReliableCommands, o), serving)
      /\ Letters(Append(peer.outgoingUnreliableCommands, o), serving)
  BY <1>3, OneLetterMore DEF Proper
<1>6. /\ DOMAIN q = Fields /\ q.state = peer.state /\ q.connectID = peer.connectID
      /\ q.address = peer.address /\ q.acknowledgements = peer.acknowledgements
      /\ q.sentReliableCommands = peer.sentReliableCommands
      /\ Letters(q.outgoingReliableCommands, serving)
      /\ Letters(q.outgoingUnreliableCommands, serving)
      /\ command.flag = "ack" =>
           q.outgoingReliableCommands = Append(peer.outgoingReliableCommands, o)
  <2> DEFINE r == numbered.peer
  <2>1. /\ DOMAIN r = Fields /\ r.state = peer.state /\ r.connectID = peer.connectID
        /\ r.address = peer.address /\ r.acknowledgements = peer.acknowledgements
        /\ r.sentReliableCommands = peer.sentReliableCommands
        /\ r.outgoingReliableCommands = peer.outgoingReliableCommands
        /\ r.outgoingUnreliableCommands = peer.outgoingUnreliableCommands
    BY <1>1 DEF Alike
  <2>2. \/ q = [r EXCEPT !.outgoingReliableCommands = Append(@, o)]
        \/ /\ q = [r EXCEPT !.outgoingUnreliableCommands = Append(@, o)]
           /\ command.flag # "ack"
    BY <1>4
  <2> HIDE DEF r
  <2>3. CASE q = [r EXCEPT !.outgoingReliableCommands = Append(@, o)]
    BY <1>5, <2>1, <2>3 DEF Fields, Proper
  <2>4. CASE q = [r EXCEPT !.outgoingUnreliableCommands = Append(@, o)] /\ command.flag # "ack"
    BY <1>5, <2>1, <2>4 DEF Fields, Proper
  <2> QED
    BY <2>2, <2>3, <2>4
<1>7. Proper(q, serving) /\ Lives(peer, q)
  BY <1>6 DEF Proper, Lives
<1> QED
  BY <1>3, <1>6, <1>7 DEF q, numbered, QueueOutgoingCommand, SetupOutgoingCommand

LEMMA CommandForm ==
  ASSUME NEW type, NEW flag, NEW channel, NEW body
  PROVE  LET command == Command(type, flag, channel, body)
         IN DOMAIN command = Form /\ command.type = type /\ command.flag = flag
BY DEF Command, Form

\* enet_peer_queue_acknowledgement.
LEMMA AcknowledgeProper ==
  ASSUME NEW peer, NEW serving, Proper(peer, serving), NEW command,
         serving => command.type # "DISCONNECT"
  PROVE  LET q == QueueAcknowledgement(peer, command)
         IN /\ Proper(q, serving) /\ Lives(peer, q) /\ q.state = peer.state
            /\ q.outgoingReliableCommands = peer.outgoingReliableCommands
            /\ q.sentReliableCommands = peer.sentReliableCommands
<1> DEFINE q == QueueAcknowledgement(peer, command)
<1>1. \/ q = peer
      \/ q = [peer EXCEPT !.acknowledgements = Append(@, command)]
  BY DEF QueueAcknowledgement
<1>2. Debts(Append(peer.acknowledgements, command), serving)
  BY OneDebtMore DEF Proper
<1> HIDE DEF q
<1>3. CASE q = peer
  BY <1>3 DEF Lives, q
<1>4. CASE q = [peer EXCEPT !.acknowledgements = Append(@, command)]
  <2>1. /\ DOMAIN q = Fields /\ q.state = peer.state /\ q.connectID = peer.connectID
        /\ q.address = peer.address
        /\ q.outgoingReliableCommands = peer.outgoingReliableCommands
        /\ q.outgoingUnreliableCommands = peer.outgoingUnreliableCommands
        /\ q.sentReliableCommands = peer.sentReliableCommands
        /\ Debts(q.acknowledgements, serving)
    BY <1>2, <1>4 DEF Proper, Fields
  <2> QED
    BY <2>1 DEF Proper, Lives, q
<1> QED
  BY <1>1, <1>3, <1>4

-----------------------------------------------------------------------------
(* What is struck off *)

\* A peer that an acknowledgement cannot get to announce anything: it does not
\* wait for one, or has sent nothing yet.
Mute(peer) ==
  \/ peer.state \notin {"CONNECTING", "ACKNOWLEDGING_CONNECT", "DISCONNECTING"}
  \/ /\ peer.state = "ACKNOWLEDGING_CONNECT" /\ peer.sentReliableCommands = <<>>
     /\ \A k \in DOMAIN peer.outgoingReliableCommands :
          peer.outgoingReliableCommands[k].sendAttempts = 0

\* enet_protocol_remove_sent_reliable_command: a letter less, if any.
LEMMA RemoveProper ==
  ASSUME NEW peer, NEW serving, Proper(peer, serving), NEW n, NEW c
  PROVE  LET removed == RemoveSentReliable(peer, n, c)
         IN /\ Proper(removed.peer, serving) /\ Lives(peer, removed.peer)
            /\ removed.peer.state = peer.state
            /\ removed.peer.connectID = peer.connectID
            /\ Mute(peer) => Mute(removed.peer)
            /\ Mute(peer) /\ peer.state = "ACKNOWLEDGING_CONNECT" => removed.type = "NONE"
<1> DEFINE sent == peer.sentReliableCommands
           waiting == peer.outgoingReliableCommands
           I == {i \in 1 .. Len(sent) :
                   /\ sent[i].command.reliableSequenceNumber = n
                   /\ sent[i].command.channelID = c}
           J == {i \in 1 .. Len(waiting) :
                   waiting[i].sendAttempts < 1
                     \/ /\ waiting[i].command.reliableSequenceNumber = n
                        /\ waiting[i].command.channelID = c}
           sentAt == IF I # {} THEN Min(I) ELSE 0
           waitingAt == IF J # {} THEN Min(J) ELSE 0
           removed == Removed(peer, n, c, sentAt, waitingAt)
           lesser == Uncounted(peer, n, c)
<1>1. RemoveSentReliable(peer, n, c) = removed
  BY DEF RemoveSentReliable, SelectInSeq
<1>2. /\ DOMAIN sent = 1 .. Len(sent) /\ Len(sent) \in Nat
      /\ DOMAIN waiting = 1 .. Len(waiting) /\ Len(waiting) \in Nat
  BY LettersAre DEF Proper
<1>3. I \in SUBSET (1 .. Len(sent)) /\ J \in SUBSET (1 .. Len(waiting))
  OBVIOUS
<1> HIDE DEF I, J
<1>4. sentAt \in 0 .. Len(sent) /\ waitingAt \in 0 .. Len(waiting)
  BY <1>2, <1>3, FirstPlace
<1> HIDE DEF sentAt, waitingAt
<1>5. Alike(peer, lesser)
  BY DEF Uncounted, Alike, Proper, Fields
<1>6. \/ removed.peer = peer /\ removed.type = "NONE"
      \/ /\ sentAt # 0
         /\ \E x : removed.peer = [lesser EXCEPT !.sentReliableCommands = Without(@, sentAt),
                                                 !.reliableDataInTransit = x]
      \/ /\ sentAt = 0 /\ waitingAt # 0 /\ waiting[waitingAt].sendAttempts >= 1
         /\ removed.peer = [lesser EXCEPT !.outgoingReliableCommands = Without(@, waitingAt)]
  BY DEF Removed
<1> HIDE DEF lesser, removed
<1>7. CASE removed.peer = peer /\ removed.type = "NONE"
  BY <1>1, <1>7 DEF Lives
<1>8. CASE /\ sentAt # 0
           /\ \E x : removed.peer = [lesser EXCEPT
                       !.sentReliableCommands = Without(@, sentAt),
                       !.reliableDataInTransit = x]
  <2> DEFINE q == removed.peer
  <2>1. Letters(Without(sent, sentAt), serving)
    BY <1>4, OneLetterLess DEF Proper
  <2>2. /\ DOMAIN q = Fields /\ q.state = peer.state /\ q.connectID = peer.connectID
        /\ q.address = peer.address /\ q.acknowledgements = peer.acknowledgements
        /\ q.sentReliableCommands = Without(sent, sentAt)
        /\ q.outgoingReliableCommands = waiting
        /\ q.outgoingUnreliableCommands = peer.outgoingUnreliableCommands
    BY <1>5, <1>8 DEF Alike, Fields
  <2>3. sent # <<>>
    BY <1>2, <1>4, <1>8
  <2> HIDE DEF q
  <2>4. Proper(q, serving) /\ Lives(peer, q)
    BY <2>1, <2>2, <2>3 DEF Proper, Lives
  <2>5. Mute(peer) => /\ Mute(q) /\ peer.state # "ACKNOWLEDGING_CONNECT"
    BY <2>2, <2>3 DEF Mute
  <2> QED
    BY <1>1, <2>2, <2>4, <2>5 DEF q
<1>9. CASE /\ sentAt = 0 /\ waitingAt # 0 /\ waiting[waitingAt].sendAttempts >= 1
           /\ removed.peer = [lesser EXCEPT !.outgoingReliableCommands = Without(@, waitingAt)]
  <2> DEFINE q == removed.peer
  <2>1. Letters(Without(waiting, waitingAt), serving)
    BY <1>4, OneLetterLess DEF Proper
  <2>2. /\ DOMAIN q = Fields /\ q.state = peer.state /\ q.connectID = peer.connectID
        /\ q.address = peer.address /\ q.acknowledgements = peer.acknowledgements
        /\ q.sentReliableCommands = sent
        /\ q.outgoingReliableCommands = Without(waiting, waitingAt)
        /\ q.outgoingUnreliableCommands = peer.outgoingUnreliableCommands
    BY <1>5, <1>9 DEF Alike, Fields
  <2>3. waiting # <<>> /\ waitingAt \in DOMAIN waiting
    BY <1>2, <1>4, <1>9
  <2> HIDE DEF q
  <2>4. Proper(q, serving) /\ Lives(peer, q)
    BY <2>1, <2>2, <2>3 DEF Proper, Lives
  <2>5. Mute(peer) => /\ Mute(q) /\ peer.state # "ACKNOWLEDGING_CONNECT"
    <3>1. peer.outgoingReliableCommands[waitingAt].sendAttempts # 0
      BY <1>9
    <3> QED
      BY <2>2, <2>3, <3>1 DEF Mute
  <2> QED
    BY <1>1, <2>2, <2>4, <2>5 DEF q
<1> QED
  BY <1>6, <1>7, <1>8, <1>9
-----------------------------------------------------------------------------
(* What times out: a loop over the list of what was sent *)

\* The loop of enet_protocol_check_timeouts.
IsLooking(f, peer, expired, l) ==
  f = [k \in 0 .. l |->
         IF k = 0 THEN [late |-> <<>>, kept |-> <<>>, bytes |-> peer.reliableDataInTransit]
         ELSE NextTimeout(f[k - 1], peer.sentReliableCommands[k], expired)]

LEMMA LookingExists ==
  ASSUME NEW peer, NEW expired, NEW l \in Nat
  PROVE  \E f : IsLooking(f, peer, expired, l)
<1> DEFINE start == [late |-> <<>>, kept |-> <<>>, bytes |-> peer.reliableDataInTransit]
           S == {k \in Nat : \E f : IsLooking(f, peer, expired, k)}
<1>1. 0 \in S
  <2>1. IsLooking([k \in 0 .. 0 |-> start], peer, expired, 0)
    BY DEF IsLooking
  <2> QED
    BY <2>1
<1> HIDE DEF start
<1>2. ASSUME NEW k \in S PROVE k + 1 \in S
  <2>1. PICK f : IsLooking(f, peer, expired, k)
    OBVIOUS
  <2> DEFINE last == NextTimeout(f[k], peer.sentReliableCommands[k + 1], expired)
             g == [i \in 0 .. k + 1 |-> IF i = k + 1 THEN last ELSE f[i]]
  <2>2. (\A i \in 0 .. k : g[i] = f[i]) /\ g[k + 1] = last
    OBVIOUS
  <2> HIDE DEF last
  <2>3. g = [i \in 0 .. k + 1 |-> g[i]]
    OBVIOUS
  <2> HIDE DEF g
  <2>4. ASSUME NEW i \in 0 .. k + 1
        PROVE  g[i] = IF i = 0 THEN start
                      ELSE NextTimeout(g[i - 1], peer.sentReliableCommands[i], expired)
    <3>1. CASE i = k + 1
      <4>1. i - 1 = k /\ i # 0
        BY <3>1
      <4>2. g[i - 1] = f[k]
        BY <2>2, <4>1
      <4> QED
        BY <2>2, <3>1, <4>1, <4>2 DEF last
    <3>2. CASE i = 0
      BY <2>1, <2>2, <3>2 DEF IsLooking, start
    <3>3. CASE i \in 1 .. k
      <4>1. i - 1 \in 0 .. k /\ i \in 0 .. k /\ i # 0
        BY <3>3
      <4>2. g[i - 1] = f[i - 1] /\ g[i] = f[i]
        BY <2>2, <4>1
      <4>3. f[i] = NextTimeout(f[i - 1], peer.sentReliableCommands[i], expired)
        BY <2>1, <4>1 DEF IsLooking
      <4> QED
        BY <4>1, <4>2, <4>3
    <3> QED
      BY <3>1, <3>2, <3>3
  <2>5. IsLooking(g, peer, expired, k + 1)
    BY <2>3, <2>4 DEF IsLooking, start
  <2> QED
    BY <2>5
<1> HIDE DEF S
<1>3. 0 .. l \subseteq S
  BY <1>1, <1>2, Upwards DEF S
<1> QED
  BY <1>3 DEF S

\* It goes by rounds.
LookingRounds(f, peer, expired, l) ==
  /\ f[0] = [late |-> <<>>, kept |-> <<>>, bytes |-> peer.reliableDataInTransit]
  /\ \A k \in 0 .. l : k < l => f[k + 1] = NextTimeout(f[k], peer.sentReliableCommands[k + 1], expired)

LEMMA LookingByRounds ==
  ASSUME NEW peer, NEW expired, NEW l \in Nat, NEW f, IsLooking(f, peer, expired, l)
  PROVE  LookingRounds(f, peer, expired, l)
<1>1. 0 \in 0 .. l
  OBVIOUS
<1>2. \A k \in 0 .. l : k < l => /\ k + 1 \in 0 .. l /\ k + 1 # 0 /\ (k + 1) - 1 = k
  OBVIOUS
<1> QED
  BY <1>1, <1>2 DEF IsLooking, LookingRounds

\* What has timed out, and what has not, are letters.
Sorted(at, serving) ==
  /\ DOMAIN at = {"late", "kept", "bytes"}
  /\ Letters(at.late, serving) /\ Letters(at.kept, serving)

\* Timeouts lose nothing of a peer.
LEMMA ResentProper ==
  ASSUME NEW peer, NEW serving, Proper(peer, serving), NEW expired,
         peer.state # "DISCONNECTED"
  PROVE  /\ Proper(Resent(peer, expired), serving) /\ Lives(peer, Resent(peer, expired))
         /\ Resent(peer, expired).state = peer.state
<1> DEFINE sent == peer.sentReliableCommands
           l == Len(sent)
<1>1. l \in Nat /\ DOMAIN sent = 1 .. l /\ \A k \in 1 .. l : Letter(sent[k], serving)
  BY LettersAre DEF Proper, Letters
<1> DEFINE f == CHOOSE f : IsLooking(f, peer, expired, l)
           q == [peer EXCEPT !.sentReliableCommands = f[l].kept,
                             !.outgoingReliableCommands = f[l].late \o @,
                             !.reliableDataInTransit = f[l].bytes]
<1>2. Resent(peer, expired) = q
  BY DEF Resent, IsLooking
<1> HIDE DEF l
<1>3. IsLooking(f, peer, expired, l)
  BY <1>1, LookingExists
<1> HIDE DEF f
<1>a. l \in Nat
  BY <1>1
<1>b. LookingRounds(f, peer, expired, l)
  BY <1>a, <1>3, LookingByRounds
<1> DEFINE S == {k \in 0 .. l : Sorted(f[k], serving)}
<1>4. 0 \in S
  <2>1. Sorted(f[0], serving)
    BY <1>b, NoLetters DEF Sorted, LookingRounds
  <2> QED
    BY <1>a, <2>1
<1>5. ASSUME NEW k \in S, k < l PROVE k + 1 \in S
  <2>1. k + 1 \in 1 .. l /\ k \in 0 .. l /\ Letter(sent[k + 1], serving)
    BY <1>1, <1>5
  <2>2. f[k + 1] = NextTimeout(f[k], sent[k + 1], expired)
    BY <1>5, <1>b, <2>1 DEF LookingRounds
  <2>3. /\ Letters(Append(f[k].late, sent[k + 1]), serving)
        /\ Letters(Append(f[k].kept, sent[k + 1]), serving)
    BY <2>1, OneLetterMore DEF Sorted
  <2>4. Sorted(f[k + 1], serving)
    BY <2>2, <2>3 DEF NextTimeout, Sorted
  <2> QED
    BY <2>1, <2>4
<1>6. l \in S
  <2>1. S \in SUBSET Nat
    BY <1>1
  <2> HIDE DEF S
  <2>2. 0 .. l \subseteq S
    BY <1>1, <1>4, <1>5, <2>1, Upwards
  <2> QED
    BY <1>1, <2>2
<1>7. Letters(f[l].kept, serving) /\ Letters(f[l].late \o peer.outgoingReliableCommands, serving)
  BY <1>6, LettersTogether DEF Sorted, Proper
<1>8. /\ DOMAIN q = Fields /\ q.state = peer.state /\ q.connectID = peer.connectID
      /\ q.address = peer.address /\ q.acknowledgements = peer.acknowledgements
      /\ q.sentReliableCommands = f[l].kept
      /\ q.outgoingReliableCommands = f[l].late \o peer.outgoingReliableCommands
      /\ q.outgoingUnreliableCommands = peer.outgoingUnreliableCommands
  BY DEF Proper, Fields
<1> HIDE DEF q
<1>9. Proper(q, serving) /\ Lives(peer, q)
  BY <1>7, <1>8 DEF Proper, Lives
<1> QED
  BY <1>2, <1>8, <1>9

-----------------------------------------------------------------------------
(* What is sent to one peer *)

\* Commands that may leave.
Words(list, serving) ==
  IsList(list) /\ \A k \in DOMAIN list : serving \/ ~Rude(list[k])

\* A datagram being filled for a peer that was "old" before.
Filling(d, old, serving) ==
  /\ DOMAIN d = {"peer", "commands", "bytes", "more"}
  /\ Proper(d.peer, serving) /\ d.peer.state # "DISCONNECTED"
  /\ serving => Lives(old, d.peer)
  /\ Words(d.commands, serving)

LEMMA OneWordMore ==
  ASSUME NEW list, NEW serving, Words(list, serving), NEW c, serving \/ ~Rude(c)
  PROVE  Words(Append(list, c), serving)
<1> DEFINE S == {list[k] : k \in DOMAIN list}
<1>1. list \in Seq(S) /\ \A x \in S : serving \/ ~Rude(x)
  BY DEF Words, IsList
<1> HIDE DEF S
<1>2. Append(list, c) \in Seq(S \cup {c})
  BY <1>1, AppendOver
<1>3. /\ IsList(Append(list, c))
      /\ \A k \in DOMAIN Append(list, c) : Append(list, c)[k] \in S \cup {c}
  BY <1>2, ListOver
<1> QED
  BY <1>1, <1>3 DEF Words

LEMMA FilledOn ==
  ASSUME NEW d, NEW old, NEW serving, Filling(d, old, serving),
         NEW c, serving \/ ~Rude(c)
  PROVE  Filling(Filled(d, c), old, serving)
<1>1. Words(Append(d.commands, c), serving)
  BY OneWordMore DEF Filling
<1>2. /\ DOMAIN Filled(d, c) = DOMAIN d /\ Filled(d, c).peer = d.peer
      /\ Filled(d, c).commands = Append(d.commands, c)
  BY DEF Filled, Filling
<1> QED
  BY <1>1, <1>2 DEF Filling

\* A draft whose peer differs in its lists only.
LEMMA OtherLists ==
  ASSUME NEW d, NEW old, NEW serving, Filling(d, old, serving),
         NEW e, DOMAIN e = DOMAIN d, e.commands = d.commands,
         DOMAIN e.peer = Fields, e.peer.state = d.peer.state,
         e.peer.connectID = d.peer.connectID, e.peer.address = d.peer.address,
         e.peer.acknowledgements = d.peer.acknowledgements,
         Letters(e.peer.outgoingReliableCommands, serving),
         Letters(e.peer.outgoingUnreliableCommands, serving),
         Letters(e.peer.sentReliableCommands, serving)
  PROVE  Filling(e, old, serving)
<1>1. Proper(e.peer, serving)
  BY DEF Filling, Proper
<1>2. Lives(old, d.peer) => Lives(old, e.peer)
  BY DEF Lives
<1> QED
  BY <1>1, <1>2 DEF Filling

LEMMA SentOn ==
  ASSUME NEW d, NEW old, NEW serving, Filling(d, old, serving),
         NEW o, Letter(o, serving)
  PROVE  Filling(SentReliable(d, o), old, serving)
<1> DEFINE sent == [o EXCEPT !.sendAttempts = 1]
           q == SentReliable(d, o).peer
           c == o.command.channelID
           w == WindowOf(o.command.reliableSequenceNumber)
           r == [d.peer EXCEPT
                 !.sentReliableCommands = Append(@, sent),
                 !.reliableDataInTransit = @ + Size(o.command)]
           s == [r EXCEPT !.channels[c].usedReliableWindows = @ \cup {w},
                          !.channels[c].reliableWindows[w] = @ + 1]
           e == Filled(d, o.command)
<1>1. Letter(sent, serving)
  BY DEF Letter
<1> HIDE DEF sent
<1>2. Letters(Append(d.peer.sentReliableCommands, sent), serving)
  BY <1>1, OneLetterMore DEF Filling, Proper
<1>3. Filling(e, old, serving) /\ e.peer = d.peer
  BY FilledOn DEF Letter, Filled, Filling
<1>4. \/ SentReliable(d, o) = [e EXCEPT !.peer = r]
      \/ SentReliable(d, o) = [e EXCEPT !.peer = s]
  BY DEF SentReliable, sent
<1> HIDE DEF e
<1>5. /\ DOMAIN r = Fields /\ r.state = d.peer.state /\ r.connectID = d.peer.connectID
      /\ r.address = d.peer.address /\ r.acknowledgements = d.peer.acknowledgements
      /\ r.sentReliableCommands = Append(d.peer.sentReliableCommands, sent)
      /\ r.outgoingReliableCommands = d.peer.outgoingReliableCommands
      /\ r.outgoingUnreliableCommands = d.peer.outgoingUnreliableCommands
  BY DEF Filling, Proper, Fields
<1> HIDE DEF r
<1>6. Alike(r, r) /\ Alike(r, s)
  BY <1>5 DEF Alike, Fields
<1> HIDE DEF s
<1>7. \E x : Alike(r, x) /\ SentReliable(d, o) = [e EXCEPT !.peer = x]
  BY <1>4, <1>6
<1>8. PICK x : Alike(r, x) /\ SentReliable(d, o) = [e EXCEPT !.peer = x]
  BY <1>7
<1>9. /\ DOMAIN SentReliable(d, o) = DOMAIN e /\ SentReliable(d, o).commands = e.commands
      /\ SentReliable(d, o).peer = x
  BY <1>3, <1>8 DEF Filling
<1>10. /\ Letters(d.peer.outgoingReliableCommands, serving)
       /\ Letters(d.peer.outgoingUnreliableCommands, serving)
  BY DEF Filling, Proper
<1> DEFINE g == SentReliable(d, o)
<1>11. /\ DOMAIN g = DOMAIN e /\ g.commands = e.commands
       /\ DOMAIN g.peer = Fields /\ g.peer.state = e.peer.state
       /\ g.peer.connectID = e.peer.connectID /\ g.peer.address = e.peer.address
       /\ g.peer.acknowledgements = e.peer.acknowledgements
       /\ Letters(g.peer.outgoingReliableCommands, serving)
       /\ Letters(g.peer.outgoingUnreliableCommands, serving)
       /\ Letters(g.peer.sentReliableCommands, serving)
  BY <1>2, <1>3, <1>5, <1>8, <1>9, <1>10 DEF Alike
<1> HIDE DEF g
<1>12. Filling(g, old, serving)
  BY <1>3, <1>11, OtherLists
<1> QED
  BY <1>12 DEF g

\* Where the loop of enet_protocol_send_reliable_outgoing_commands begins.
MailStart(d) ==
  [draft |-> [d EXCEPT !.peer.outgoingReliableCommands = <<>>], kept |-> <<>>,
   wrap |-> FALSE, exceeded |-> FALSE, full |-> FALSE, canPing |-> TRUE]

\* The loop itself.
IsMailing(f, d, l) ==
  f = [k \in 0 .. l |->
         IF k = 0 THEN MailStart(d)
         ELSE NextReliable(f[k - 1], d.peer.outgoingReliableCommands[k])]

LEMMA MailingExists ==
  ASSUME NEW d, NEW l \in Nat
  PROVE  \E f : IsMailing(f, d, l)
<1> DEFINE start == MailStart(d)
           S == {k \in Nat : \E f : IsMailing(f, d, k)}
<1>1. 0 \in S
  <2>1. IsMailing([k \in 0 .. 0 |-> start], d, 0)
    BY DEF IsMailing
  <2> QED
    BY <2>1
<1> HIDE DEF start
<1>2. ASSUME NEW k \in S PROVE k + 1 \in S
  <2>1. PICK f : IsMailing(f, d, k)
    OBVIOUS
  <2> DEFINE last == NextReliable(f[k], d.peer.outgoingReliableCommands[k + 1])
             g == [i \in 0 .. k + 1 |-> IF i = k + 1 THEN last ELSE f[i]]
  <2>2. (\A i \in 0 .. k : g[i] = f[i]) /\ g[k + 1] = last
    OBVIOUS
  <2> HIDE DEF last
  <2>3. g = [i \in 0 .. k + 1 |-> g[i]]
    OBVIOUS
  <2> HIDE DEF g
  <2>4. ASSUME NEW i \in 0 .. k + 1
        PROVE  g[i] = IF i = 0 THEN start
                      ELSE NextReliable(g[i - 1], d.peer.outgoingReliableCommands[i])
    <3>1. CASE i = k + 1
      <4>1. i - 1 = k /\ i # 0
        BY <3>1
      <4>2. g[i - 1] = f[k]
        BY <2>2, <4>1
      <4> QED
        BY <2>2, <3>1, <4>1, <4>2 DEF last
    <3>2. CASE i = 0
      BY <2>1, <2>2, <3>2 DEF IsMailing, start
    <3>3. CASE i \in 1 .. k
      <4>1. i - 1 \in 0 .. k /\ i \in 0 .. k /\ i # 0
        BY <3>3
      <4>2. g[i - 1] = f[i - 1] /\ g[i] = f[i]
        BY <2>2, <4>1
      <4>3. f[i] = NextReliable(f[i - 1], d.peer.outgoingReliableCommands[i])
        BY <2>1, <4>1 DEF IsMailing
      <4> QED
        BY <4>1, <4>2, <4>3
    <3> QED
      BY <3>1, <3>2, <3>3
  <2>5. IsMailing(g, d, k + 1)
    BY <2>3, <2>4 DEF IsMailing, start
  <2> QED
    BY <2>5
<1> HIDE DEF S
<1>3. 0 .. l \subseteq S
  BY <1>1, <1>2, Upwards DEF S
<1> QED
  BY <1>3 DEF S

\* It goes by rounds.
MailingRounds(f, d, l) ==
  /\ f[0] = MailStart(d)
  /\ \A k \in 0 .. l : k < l => f[k + 1] = NextReliable(f[k], d.peer.outgoingReliableCommands[k + 1])

LEMMA MailingByRounds ==
  ASSUME NEW d, NEW l \in Nat, NEW f, IsMailing(f, d, l)
  PROVE  MailingRounds(f, d, l)
<1>1. 0 \in 0 .. l
  OBVIOUS
<1>2. \A k \in 0 .. l : k < l => /\ k + 1 \in 0 .. l /\ k + 1 # 0 /\ (k + 1) - 1 = k
  OBVIOUS
<1> QED
  BY <1>1, <1>2 DEF IsMailing, MailingRounds

\* What is to stay in the queue are letters.
Mail(at, old, serving) ==
  /\ DOMAIN at = {"draft", "kept", "wrap", "exceeded", "full", "canPing"}
  /\ Filling(at.draft, old, serving)
  /\ Letters(at.kept, serving)

LEMMA MailOn ==
  ASSUME NEW at, NEW old, NEW serving, Mail(at, old, serving),
         NEW o, Letter(o, serving)
  PROVE  Mail(NextReliable(at, o), old, serving)
<1>1. Letters(Append(at.kept, o), serving)
  BY OneLetterMore DEF Mail
<1>2. Filling(SentReliable(at.draft, o), old, serving)
  BY SentOn DEF Mail
<1>3. LET next == NextReliable(at, o)
      IN /\ DOMAIN next = DOMAIN at
         /\ \/ next.draft = at.draft /\ next.kept = Append(at.kept, o)
            \/ next.draft = SentReliable(at.draft, o) /\ next.kept = at.kept
  BY DEF NextReliable, Mail
<1> QED
  BY <1>1, <1>2, <1>3 DEF Mail

\* enet_protocol_send_reliable_outgoing_commands.
LEMMA SendReliableOn ==
  ASSUME NEW d, NEW old, NEW serving, Filling(d, old, serving)
  PROVE  Filling(SendReliable(d).draft, old, serving)
<1> DEFINE queue == d.peer.outgoingReliableCommands
           l == Len(queue)
           start == [d EXCEPT !.peer.outgoingReliableCommands = <<>>]
<1>1. l \in Nat /\ DOMAIN queue = 1 .. l /\ \A k \in 1 .. l : Letter(queue[k], serving)
  BY LettersAre DEF Filling, Proper, Letters
<1> DEFINE f == CHOOSE f : IsMailing(f, d, l)
<1>2. SendReliable(d) = ReliableSent(f[l])
  BY DEF SendReliable, IsMailing, MailStart
<1> HIDE DEF l
<1>3. l \in Nat /\ IsMailing(f, d, l)
  BY <1>1, MailingExists
<1> HIDE DEF f
<1>4. MailingRounds(f, d, l)
  BY <1>3, MailingByRounds
<1> DEFINE S == {k \in 0 .. l : Mail(f[k], old, serving)}
<1>5. 0 \in S
  <2>1. /\ DOMAIN start = DOMAIN d /\ start.commands = d.commands
        /\ DOMAIN start.peer = Fields /\ start.peer.state = d.peer.state
        /\ start.peer.connectID = d.peer.connectID /\ start.peer.address = d.peer.address
        /\ start.peer.acknowledgements = d.peer.acknowledgements
        /\ start.peer.outgoingReliableCommands = <<>>
        /\ start.peer.outgoingUnreliableCommands = d.peer.outgoingUnreliableCommands
        /\ start.peer.sentReliableCommands = d.peer.sentReliableCommands
    BY DEF Filling, Proper, Fields
  <2> HIDE DEF start
  <2>2. Filling(start, old, serving)
    <3>1. /\ Letters(<<>>, serving) /\ Letters(d.peer.outgoingUnreliableCommands, serving)
          /\ Letters(d.peer.sentReliableCommands, serving)
      BY NoLetters DEF Filling, Proper
    <3> QED
      BY <2>1, <3>1, OtherLists
  <2>3. Mail(f[0], old, serving)
    <3>1. /\ DOMAIN f[0] = {"draft", "kept", "wrap", "exceeded", "full", "canPing"}
          /\ f[0].draft = start /\ f[0].kept = <<>>
      <4>1. f[0] = MailStart(d)
        BY <1>4 DEF MailingRounds
      <4>2. /\ DOMAIN MailStart(d) = {"draft", "kept", "wrap", "exceeded", "full", "canPing"}
            /\ MailStart(d).draft = start /\ MailStart(d).kept = <<>>
        BY DEF MailStart, start
      <4> QED
        BY <4>1, <4>2
    <3> QED
      BY <2>2, <3>1, NoLetters DEF Mail
  <2> QED
    BY <1>3, <2>3
<1>6. ASSUME NEW k \in S, k < l PROVE k + 1 \in S
  <2>1. k + 1 \in 1 .. l /\ k \in 0 .. l /\ Letter(queue[k + 1], serving)
    BY <1>1, <1>6
  <2>2. f[k + 1] = NextReliable(f[k], queue[k + 1])
    BY <1>4, <1>6, <2>1 DEF MailingRounds
  <2>3. Mail(f[k + 1], old, serving)
    BY <1>6, <2>1, <2>2, MailOn
  <2> QED
    BY <2>1, <2>3
<1>7. Mail(f[l], old, serving)
  <2>1. S \in SUBSET Nat
    BY <1>3
  <2> HIDE DEF S
  <2>2. 0 .. l \subseteq S
    BY <1>3, <1>5, <1>6, <2>1, Upwards
  <2> QED
    BY <1>3, <2>2 DEF S
<1> DEFINE end == f[l]
           sent == SendReliable(d).draft
<1>8. Mail(end, old, serving) /\ sent = ReliableSent(end).draft
  BY <1>2, <1>7
<1> HIDE DEF end, sent
<1>9. /\ DOMAIN sent = DOMAIN end.draft /\ sent.commands = end.draft.commands
      /\ DOMAIN sent.peer = Fields /\ sent.peer.state = end.draft.peer.state
      /\ sent.peer.connectID = end.draft.peer.connectID
      /\ sent.peer.address = end.draft.peer.address
      /\ sent.peer.acknowledgements = end.draft.peer.acknowledgements
      /\ sent.peer.outgoingReliableCommands = end.kept
      /\ sent.peer.outgoingUnreliableCommands = end.draft.peer.outgoingUnreliableCommands
      /\ sent.peer.sentReliableCommands = end.draft.peer.sentReliableCommands
  BY <1>8 DEF ReliableSent, Mail, Filling, Proper, Fields
<1>10. /\ Filling(end.draft, old, serving) /\ Letters(end.kept, serving)
       /\ Letters(end.draft.peer.outgoingUnreliableCommands, serving)
       /\ Letters(end.draft.peer.sentReliableCommands, serving)
  BY <1>8 DEF Mail, Filling, Proper
<1>11. Filling(sent, old, serving)
  BY <1>9, <1>10, OtherLists
<1> QED
  BY <1>11 DEF sent

\* Where the loop of enet_protocol_send_unreliable_outgoing_commands begins.
PostStart(d) == [draft |-> d, kept |-> <<>>, full |-> FALSE, dropped |-> <<>>]

\* The loop itself.
IsPosting(f, d, throttled, l) ==
  f = [k \in 0 .. l |->
         IF k = 0 THEN PostStart(d)
         ELSE NextUnreliable(f[k - 1], d.peer.outgoingUnreliableCommands[k], throttled)]

LEMMA PostingExists ==
  ASSUME NEW d, NEW throttled, NEW l \in Nat
  PROVE  \E f : IsPosting(f, d, throttled, l)
<1> DEFINE start == PostStart(d)
           S == {k \in Nat : \E f : IsPosting(f, d, throttled, k)}
<1>1. 0 \in S
  <2>1. IsPosting([k \in 0 .. 0 |-> start], d, throttled, 0)
    BY DEF IsPosting
  <2> QED
    BY <2>1
<1> HIDE DEF start
<1>2. ASSUME NEW k \in S PROVE k + 1 \in S
  <2>1. PICK f : IsPosting(f, d, throttled, k)
    OBVIOUS
  <2> DEFINE last == NextUnreliable(f[k], d.peer.outgoingUnreliableCommands[k + 1], throttled)
             g == [i \in 0 .. k + 1 |-> IF i = k + 1 THEN last ELSE f[i]]
  <2>2. (\A i \in 0 .. k : g[i] = f[i]) /\ g[k + 1] = last
    OBVIOUS
  <2> HIDE DEF last
  <2>3. g = [i \in 0 .. k + 1 |-> g[i]]
    OBVIOUS
  <2> HIDE DEF g
  <2>4. ASSUME NEW i \in 0 .. k + 1
        PROVE  g[i] = IF i = 0 THEN start
                      ELSE NextUnreliable(g[i - 1], d.peer.outgoingUnreliableCommands[i], throttled)
    <3>1. CASE i = k + 1
      <4>1. i - 1 = k /\ i # 0
        BY <3>1
      <4>2. g[i - 1] = f[k]
        BY <2>2, <4>1
      <4> QED
        BY <2>2, <3>1, <4>1, <4>2 DEF last
    <3>2. CASE i = 0
      BY <2>1, <2>2, <3>2 DEF IsPosting, start
    <3>3. CASE i \in 1 .. k
      <4>1. i - 1 \in 0 .. k /\ i \in 0 .. k /\ i # 0
        BY <3>3
      <4>2. g[i - 1] = f[i - 1] /\ g[i] = f[i]
        BY <2>2, <4>1
      <4>3. f[i] = NextUnreliable(f[i - 1], d.peer.outgoingUnreliableCommands[i], throttled)
        BY <2>1, <4>1 DEF IsPosting
      <4> QED
        BY <4>1, <4>2, <4>3
    <3> QED
      BY <3>1, <3>2, <3>3
  <2>5. IsPosting(g, d, throttled, k + 1)
    BY <2>3, <2>4 DEF IsPosting, start
  <2> QED
    BY <2>5
<1> HIDE DEF S
<1>3. 0 .. l \subseteq S
  BY <1>1, <1>2, Upwards DEF S
<1> QED
  BY <1>3 DEF S

\* It goes by rounds.
PostingRounds(f, d, throttled, l) ==
  /\ f[0] = PostStart(d)
  /\ \A k \in 0 .. l : k < l => f[k + 1] = NextUnreliable(f[k], d.peer.outgoingUnreliableCommands[k + 1], throttled)

LEMMA PostingByRounds ==
  ASSUME NEW d, NEW throttled, NEW l \in Nat, NEW f, IsPosting(f, d, throttled, l)
  PROVE  PostingRounds(f, d, throttled, l)
<1>1. 0 \in 0 .. l
  OBVIOUS
<1>2. \A k \in 0 .. l : k < l => /\ k + 1 \in 0 .. l /\ k + 1 # 0 /\ (k + 1) - 1 = k
  OBVIOUS
<1> QED
  BY <1>1, <1>2 DEF IsPosting, PostingRounds

Post(at, old, serving) ==
  /\ DOMAIN at = {"draft", "kept", "full", "dropped"}
  /\ Filling(at.draft, old, serving)
  /\ Letters(at.kept, serving)

LEMMA PostOn ==
  ASSUME NEW at, NEW old, NEW serving, Post(at, old, serving),
         NEW o, Letter(o, serving), NEW throttled
  PROVE  Post(NextUnreliable(at, o, throttled), old, serving)
<1>1. Letters(Append(at.kept, o), serving)
  BY OneLetterMore DEF Post
<1>2. Filling(Filled(at.draft, o.command), old, serving)
  BY FilledOn DEF Post, Letter
<1>3. LET next == NextUnreliable(at, o, throttled)
      IN /\ DOMAIN next = DOMAIN at
         /\ next.draft \in {at.draft, Filled(at.draft, o.command)}
         /\ next.kept \in {at.kept, Append(at.kept, o)}
  BY DEF NextUnreliable, Post
<1> QED
  BY <1>1, <1>2, <1>3 DEF Post

\* enet_protocol_send_unreliable_outgoing_commands.
LEMMA SendUnreliableOn ==
  ASSUME NEW d, NEW old, NEW serving, Filling(d, old, serving), NEW throttled
  PROVE  Filling(SendUnreliable(d, throttled), old, serving)
<1> DEFINE queue == d.peer.outgoingUnreliableCommands
           l == Len(queue)
<1>1. l \in Nat /\ DOMAIN queue = 1 .. l /\ \A k \in 1 .. l : Letter(queue[k], serving)
  BY LettersAre DEF Filling, Proper, Letters
<1> DEFINE f == CHOOSE f : IsPosting(f, d, throttled, l)
<1>2. SendUnreliable(d, throttled) = UnreliableSent(f[l])
  BY DEF SendUnreliable, IsPosting, PostStart
<1> HIDE DEF l
<1>3. l \in Nat /\ IsPosting(f, d, throttled, l)
  BY <1>1, PostingExists
<1> HIDE DEF f
<1>4. PostingRounds(f, d, throttled, l)
  BY <1>3, PostingByRounds
<1> DEFINE S == {k \in 0 .. l : Post(f[k], old, serving)}
<1>5. 0 \in S
  <2>1. f[0] = PostStart(d)
    BY <1>4 DEF PostingRounds
  <2>2. Post(PostStart(d), old, serving)
    BY NoLetters DEF Post, PostStart
  <2> QED
    BY <1>3, <2>1, <2>2
<1>6. ASSUME NEW k \in S, k < l PROVE k + 1 \in S
  <2>1. k + 1 \in 1 .. l /\ k \in 0 .. l /\ Letter(queue[k + 1], serving)
    BY <1>1, <1>6
  <2>2. f[k + 1] = NextUnreliable(f[k], queue[k + 1], throttled)
    BY <1>4, <1>6, <2>1 DEF PostingRounds
  <2>3. Post(f[k + 1], old, serving)
    BY <1>6, <2>1, <2>2, PostOn
  <2> QED
    BY <2>1, <2>3
<1>7. Post(f[l], old, serving)
  <2>1. S \in SUBSET Nat
    BY <1>3
  <2> HIDE DEF S
  <2>2. 0 .. l \subseteq S
    BY <1>3, <1>5, <1>6, <2>1, Upwards
  <2> QED
    BY <1>3, <2>2 DEF S
<1> DEFINE end == f[l]
           sent == SendUnreliable(d, throttled)
<1>8. Post(end, old, serving) /\ sent = UnreliableSent(end)
  BY <1>2, <1>7
<1> HIDE DEF end, sent
<1>9. /\ DOMAIN sent = DOMAIN end.draft /\ sent.commands = end.draft.commands
      /\ DOMAIN sent.peer = Fields /\ sent.peer.state = end.draft.peer.state
      /\ sent.peer.connectID = end.draft.peer.connectID
      /\ sent.peer.address = end.draft.peer.address
      /\ sent.peer.acknowledgements = end.draft.peer.acknowledgements
      /\ sent.peer.outgoingReliableCommands = end.draft.peer.outgoingReliableCommands
      /\ sent.peer.outgoingUnreliableCommands = end.kept
      /\ sent.peer.sentReliableCommands = end.draft.peer.sentReliableCommands
  BY <1>8 DEF UnreliableSent, Post, Filling, Proper, Fields
<1>10. /\ Filling(end.draft, old, serving) /\ Letters(end.kept, serving)
       /\ Letters(end.draft.peer.outgoingReliableCommands, serving)
       /\ Letters(end.draft.peer.sentReliableCommands, serving)
  BY <1>8 DEF Post, Filling, Proper
<1>11. Filling(sent, old, serving)
  BY <1>9, <1>10, OtherLists
<1> QED
  BY <1>11 DEF sent

\* enet_protocol_send_acknowledgements: the server acknowledges no DISCONNECT.
LEMMA AcknowledgementsOn ==
  ASSUME NEW peer, NEW serving, Proper(peer, serving), peer.state # "DISCONNECTED"
  PROVE  Filling(SendAcknowledgements(Draft(peer)), peer, serving)
<1> DEFINE debts == peer.acknowledgements
           count == Len(debts)
           room == IF count < MaxPacketCommands THEN count ELSE MaxPacketCommands
           taken == SubSeq(debts, 1, room)
           rest == SubSeq(debts, room + 1, count)
           answers == [i \in 1 .. room |->
             [type |-> "ACKNOWLEDGE", flag |-> "none", channelID |-> taken[i].channelID,
              reliableSequenceNumber |-> 0,
              body |-> [received |-> taken[i].reliableSequenceNumber]]]
           over == \E i \in 1 .. room : taken[i].type = "DISCONNECT"
           d == SendAcknowledgements(Draft(peer))
<1>1. count \in Nat /\ DOMAIN debts = 1 .. count
  <2>1. Debts(debts, serving)
    BY DEF Proper
  <2> QED
    BY <2>1, ListOver DEF Debts, IsList
<1> HIDE DEF count
<1>2. room \in Nat /\ room <= count
  BY <1>1, ProtocolAssumption
<1> HIDE DEF room
<1>3. Debts(rest, serving) /\ \A k \in 1 .. room : taken[k] = debts[k]
  BY <1>1, <1>2, DebtsPaid DEF Proper, count
<1>4. serving => ~over
  <2> SUFFICES ASSUME serving, NEW i \in 1 .. room PROVE taken[i].type # "DISCONNECT"
    OBVIOUS
  <2>1. i \in DOMAIN debts
    BY <1>1, <1>2
  <2> QED
    BY <1>3, <2>1 DEF Proper, Debts
<1> HIDE DEF taken
<1>5. Words(answers, serving)
  <2>1. answers \in Seq({answers[i] : i \in 1 .. room})
    <3>1. answers \in [1 .. room -> {answers[i] : i \in 1 .. room}]
      OBVIOUS
    <3> HIDE DEF answers
    <3> QED
      BY <1>2, <3>1
  <2>2. \A i \in 1 .. room : ~Rude(answers[i])
    BY DEF Rude
  <2>3. DOMAIN answers = 1 .. room
    OBVIOUS
  <2> HIDE DEF answers
  <2> QED
    BY <2>1, <2>2, <2>3 DEF Words, IsList
<1> HIDE DEF answers, rest, over
<1>6. /\ DOMAIN d = {"peer", "commands", "bytes", "more"} /\ d.commands = answers
      /\ d.peer = [peer EXCEPT !.acknowledgements = rest,
                               !.state = IF over THEN "ZOMBIE" ELSE @,
                               !.needsDispatch = @ \/ over]
  BY DEF SendAcknowledgements, Draft, answers, rest, over, taken, room, count
<1> HIDE DEF d
<1>7. /\ DOMAIN d.peer = Fields /\ d.peer.connectID = peer.connectID
      /\ d.peer.state = (IF over THEN "ZOMBIE" ELSE peer.state)
      /\ d.peer.address = peer.address /\ d.peer.acknowledgements = rest
      /\ d.peer.sentReliableCommands = peer.sentReliableCommands
      /\ d.peer.outgoingReliableCommands = peer.outgoingReliableCommands
      /\ d.peer.outgoingUnreliableCommands = peer.outgoingUnreliableCommands
  BY <1>6 DEF Proper, Fields
<1>8. Proper(d.peer, serving) /\ d.peer.state # "DISCONNECTED"
  BY <1>3, <1>7 DEF Proper, States
<1>9. serving => Lives(peer, d.peer)
  BY <1>4, <1>7 DEF Lives
<1>10. Filling(d, peer, serving)
  BY <1>5, <1>6, <1>8, <1>9 DEF Filling
<1> QED
  BY <1>10 DEF d

\* A draft whose peer went on from the one it had.
LEMMA OtherPeer ==
  ASSUME NEW d, NEW old, NEW serving, Filling(d, old, serving),
         NEW q, Proper(q, serving), Lives(d.peer, q), q.state # "DISCONNECTED"
  PROVE  Filling([d EXCEPT !.peer = q], old, serving)
<1>1. serving => Lives(old, q)
  BY LivesOn DEF Filling
<1> QED
  BY <1>1 DEF Filling

\* A PING is a letter like any other.
LEMMA PingedOn ==
  ASSUME NEW once, NEW old, NEW serving, Filling(once.draft, old, serving), NEW silent
  PROVE  Filling(Pinged(once, silent), old, serving)
<1> DEFINE d == once.draft
           command == Command("PING", "ack", PeerChannel, <<>>)
<1>1. DOMAIN command = Form /\ ~Rude(command)
  BY CommandForm DEF Rude
<1> HIDE DEF command
<1>2. /\ Proper(Ping(d.peer), serving) /\ Lives(d.peer, Ping(d.peer))
      /\ Ping(d.peer).state # "DISCONNECTED"
  <2>1. CASE d.peer.state # "CONNECTED"
    BY <2>1 DEF Ping, Filling, Lives
  <2>2. CASE d.peer.state = "CONNECTED"
    <3>1. Ping(d.peer) = QueueOutgoingCommand(d.peer, command)
      BY <2>2 DEF Ping, command
    <3>2. Proper(d.peer, serving) /\ d.peer.state # "DISCONNECTED"
      BY DEF Filling
    <3> QED
      BY <1>1, <2>2, <3>1, <3>2, QueueProper
  <2> QED
    BY <2>1, <2>2
<1>3. [d EXCEPT !.peer = Ping(@)] = [d EXCEPT !.peer = Ping(d.peer)]
  OBVIOUS
<1>4. Filling([d EXCEPT !.peer = Ping(d.peer)], old, serving)
  BY <1>2, OtherPeer
<1>5. Filling(SendReliable([d EXCEPT !.peer = Ping(@)]).draft, old, serving)
  BY <1>3, <1>4, SendReliableOn
<1> QED
  BY <1>5 DEF Pinged

-----------------------------------------------------------------------------
(* Hosts *)

\* A datagram; one to the server is of somebody else, who asks for the
\* acknowledgement of no DISCONNECT.
Fine(d) ==
  /\ Len(d.commands) \in Nat
  /\ d.to = Server =>
       d.from # Server /\ \A k \in 1 .. Len(d.commands) : ~Rude(d.commands[k])

HostFields == {"peers", "dispatchQueue", "channelLimit", "event", "sent"}

\* A host with n peers.
HostOK(h, n, serving) ==
  /\ DOMAIN h = HostFields
  /\ DOMAIN h.peers = 0 .. n - 1
  /\ \A p \in 0 .. n - 1 : Proper(h.peers[p], serving)
  /\ h.dispatchQueue \in Seq(0 .. n - 1)
  /\ IsList(h.sent) /\ \A k \in DOMAIN h.sent : Fine(h.sent[k])
  /\ h.event = NoEvent \/ h.event.peer \in 0 .. n - 1

\* What a call may make of a host h: at most one event more.  A peer is
\* announced with a CONNECT event, and no longer announced with a DISCONNECT
\* event; a peer without an event lives on.
Tells(h, g, p, type) ==
  g.event # h.event /\ g.event.type = type /\ g.event.peer = p

Goes(h, g, n) ==
  /\ h.event # NoEvent => g.event = h.event
  /\ \A p \in 0 .. n - 1 :
       /\ Tells(h, g, p, "DISCONNECT") => g.peers[p].state \notin Public \cup Early
       /\ h.peers[p].state \notin Early =>
            /\ Tells(h, g, p, "CONNECT") =>
                 h.peers[p].state \notin Public /\ g.peers[p].state \in Public
            /\ Tells(h, g, p, "DISCONNECT") => h.peers[p].state \in Public
            /\ ~Tells(h, g, p, "CONNECT") /\ ~Tells(h, g, p, "DISCONNECT") =>
                 Lives(h.peers[p], g.peers[p])

\* g is a host that h may become.
Call(h, g, n, serving) == HostOK(g, n, serving) /\ (serving => Goes(h, g, n))

LEMMA CallNone ==
  ASSUME NEW h, NEW n, NEW serving, HostOK(h, n, serving)
  PROVE  Call(h, h, n, serving)
<1>1. \A p : ~Tells(h, h, p, "CONNECT") /\ ~Tells(h, h, p, "DISCONNECT")
  BY DEF Tells
<1>2. \A p : Lives(h.peers[p], h.peers[p])
  BY DEF Lives
<1> QED
  BY <1>1, <1>2 DEF Call, Goes

LEMMA GoesOn ==
  ASSUME NEW n, NEW h, NEW g, NEW k, Goes(h, g, n), Goes(g, k, n)
  PROVE  Goes(h, k, n)
<1>1. h.event # NoEvent => k.event = h.event
  BY DEF Goes
<1>2. ASSUME NEW p \in 0 .. n - 1
      PROVE  /\ Tells(h, k, p, "DISCONNECT") => k.peers[p].state \notin Public \cup Early
             /\ h.peers[p].state \notin Early =>
                  /\ Tells(h, k, p, "CONNECT") =>
                       h.peers[p].state \notin Public /\ k.peers[p].state \in Public
                  /\ Tells(h, k, p, "DISCONNECT") => h.peers[p].state \in Public
                  /\ ~Tells(h, k, p, "CONNECT") /\ ~Tells(h, k, p, "DISCONNECT") =>
                       Lives(h.peers[p], k.peers[p])
  <2> DEFINE a == h.peers[p]
             b == g.peers[p]
             c == k.peers[p]
  <2>0. Public \cap Early = {}
    BY DEF Public, Early
  <2>1. CASE g.event = h.event
    <3>1. ~Tells(h, g, p, "CONNECT") /\ ~Tells(h, g, p, "DISCONNECT")
      BY <2>1 DEF Tells
    <3>2. /\ Tells(h, k, p, "CONNECT") <=> Tells(g, k, p, "CONNECT")
          /\ Tells(h, k, p, "DISCONNECT") <=> Tells(g, k, p, "DISCONNECT")
      BY <2>1 DEF Tells
    <3>3. a.state \notin Early => Lives(a, b)
      BY <3>1 DEF Goes
    <3>4. a.state \notin Early => b.state \notin Early /\ (b.state \in Public <=> a.state \in Public)
      BY <3>3 DEF Lives
    <3>5. Lives(a, b) /\ Lives(b, c) => Lives(a, c)
      BY LivesOn
    <3> HIDE DEF a, b, c
    <3> QED
      BY <3>2, <3>3, <3>4, <3>5 DEF Goes, a, b, c
  <2>2. CASE g.event # h.event
    <3>1. h.event = NoEvent /\ g.event # NoEvent
      BY <2>2 DEF Goes
    <3>2. k.event = g.event
      BY <3>1 DEF Goes
    <3>3. ~Tells(g, k, p, "CONNECT") /\ ~Tells(g, k, p, "DISCONNECT")
      BY <3>2 DEF Tells
    <3>4. /\ Tells(h, k, p, "CONNECT") <=> Tells(h, g, p, "CONNECT")
          /\ Tells(h, k, p, "DISCONNECT") <=> Tells(h, g, p, "DISCONNECT")
      BY <3>2 DEF Tells
    <3>5. b.state \notin Early => Lives(b, c)
      BY <3>3 DEF Goes
    <3>6. b.state \notin Early => c.state \notin Early /\ (c.state \in Public <=> b.state \in Public)
      BY <3>5 DEF Lives
    <3>7. Lives(a, b) /\ Lives(b, c) => Lives(a, c)
      BY LivesOn
    <3>8. Lives(a, b) => (a.state \notin Early => b.state \notin Early)
      BY DEF Lives
    <3> HIDE DEF a, b, c
    <3> QED
      BY <2>0, <3>4, <3>5, <3>6, <3>7, <3>8 DEF Goes, a, b, c
  <2> QED
    BY <2>1, <2>2
<1> QED
  BY <1>1, <1>2 DEF Goes

LEMMA CallOn ==
  ASSUME NEW n, NEW serving, NEW h, NEW g, NEW k,
         Call(h, g, n, serving), Call(g, k, n, serving)
  PROVE  Call(h, k, n, serving)
BY GoesOn DEF Call

\* Nothing but the peer p, the queue and the event change.
OnePeer(h, g, p, n) ==
  /\ DOMAIN g = HostFields /\ DOMAIN g.peers = 0 .. n - 1
  /\ \A q \in 0 .. n - 1 : q # p => g.peers[q] = h.peers[q]
  /\ g.dispatchQueue \in Seq(0 .. n - 1)
  /\ g.sent = h.sent

LEMMA OneProper ==
  ASSUME NEW n, NEW serving, NEW p \in 0 .. n - 1, NEW h, NEW g, HostOK(h, n, serving),
         OnePeer(h, g, p, n), Proper(g.peers[p], serving),
         g.event = h.event \/ g.event.peer = p
  PROVE  HostOK(g, n, serving)
<1>1. \A q \in 0 .. n - 1 : Proper(g.peers[q], serving)
  <2> TAKE q \in 0 .. n - 1
  <2>1. CASE q = p
    BY <2>1
  <2>2. CASE q # p
    BY <2>2 DEF OnePeer, HostOK
  <2> QED
    BY <2>1, <2>2
<1>2. g.event = NoEvent \/ g.event.peer \in 0 .. n - 1
  BY DEF HostOK
<1> QED
  BY <1>1, <1>2 DEF OnePeer, HostOK

\* A call that tells nothing of a peer that changes.
LEMMA QuietCall ==
  ASSUME NEW n, NEW serving, NEW p \in 0 .. n - 1, NEW h, NEW g, HostOK(h, n, serving),
         OnePeer(h, g, p, n), Proper(g.peers[p], serving),
         serving => Lives(h.peers[p], g.peers[p]),
         g.event = h.event
  PROVE  Call(h, g, n, serving)
<1>1. HostOK(g, n, serving)
  BY OneProper
<1>2. \A q : ~Tells(h, g, q, "CONNECT") /\ ~Tells(h, g, q, "DISCONNECT")
  BY DEF Tells
<1>3. ASSUME serving, NEW q \in 0 .. n - 1 PROVE Lives(h.peers[q], g.peers[q])
  <2>1. CASE q = p
    BY <1>3, <2>1
  <2>2. CASE q # p
    BY <2>2 DEF OnePeer, Lives
  <2> QED
    BY <2>1, <2>2
<1> QED
  BY <1>1, <1>2, <1>3 DEF Call, Goes

\* A call that tells the application of the peer that changes.
LEMMA ToldCall ==
  ASSUME NEW n, NEW serving, NEW p \in 0 .. n - 1, NEW h, NEW g, HostOK(h, n, serving),
         OnePeer(h, g, p, n), Proper(g.peers[p], serving),
         h.event = NoEvent, g.event.peer = p,
         \/ /\ g.event.type = "CONNECT" /\ g.peers[p].state \in Public
            /\ h.peers[p].state \notin Public
         \/ /\ g.event.type = "DISCONNECT" /\ g.peers[p].state \notin Public \cup Early
            /\ h.peers[p].state \in Public \cup Early
         \/ /\ g.event.type = "RECEIVE"
            /\ Lives(h.peers[p], g.peers[p])
  PROVE  Call(h, g, n, serving)
<1>1. HostOK(g, n, serving)
  BY OneProper
<1>2. ASSUME NEW q \in 0 .. n - 1, q # p
      PROVE  /\ ~Tells(h, g, q, "CONNECT") /\ ~Tells(h, g, q, "DISCONNECT")
             /\ Lives(h.peers[q], g.peers[q])
  BY <1>2 DEF Tells, OnePeer, Lives
<1>3. h.event.type = "NONE"
  BY DEF NoEvent
<1>4. /\ Tells(h, g, p, "CONNECT") <=> g.event.type = "CONNECT"
      /\ Tells(h, g, p, "DISCONNECT") <=> g.event.type = "DISCONNECT"
  BY <1>3 DEF Tells
<1>5. Goes(h, g, n)
  BY <1>2, <1>4 DEF Goes
<1> QED
  BY <1>1, <1>5 DEF Call

\* With keeps the queue in order.
LEMMA WithOne ==
  ASSUME NEW n, NEW serving, NEW h, HostOK(h, n, serving), NEW p \in 0 .. n - 1, NEW peer
  PROVE  /\ OnePeer(h, With(h, p, peer), p, n) /\ With(h, p, peer).peers[p] = peer
         /\ With(h, p, peer).event = h.event
<1> DEFINE queue == h.dispatchQueue
           I == {i \in 1 .. Len(queue) : queue[i] = p}
           k == IF I # {} THEN Min(I) ELSE 0
           g == With(h, p, peer)
<1>1. queue \in Seq(0 .. n - 1) /\ Len(queue) \in Nat
  BY DEF HostOK
<1>2. I \in SUBSET (1 .. Len(queue))
  OBVIOUS
<1>3. \E q : /\ g = [h EXCEPT !.peers[p] = peer, !.dispatchQueue = q]
             /\ q \in {Append(queue, p), Without(queue, k), queue}
  BY DEF With, SelectInSeq
<1>4. PICK q : /\ g = [h EXCEPT !.peers[p] = peer, !.dispatchQueue = q]
               /\ q \in {Append(queue, p), Without(queue, k), queue}
  BY <1>3
<1> HIDE DEF I
<1>5. k \in 0 .. Len(queue)
  BY <1>1, <1>2, FirstPlace
<1> HIDE DEF k, g
<1>6. Append(queue, p) \in Seq(0 .. n - 1) /\ Without(queue, k) \in Seq(0 .. n - 1)
  BY <1>1, <1>5, WithoutOver
<1>7. q \in Seq(0 .. n - 1)
  BY <1>1, <1>4, <1>6
<1>8. /\ DOMAIN g = DOMAIN h /\ g.peers = [h.peers EXCEPT ![p] = peer]
      /\ g.dispatchQueue = q /\ g.sent = h.sent /\ g.event = h.event
  BY <1>4 DEF HostOK, HostFields
<1>9. /\ DOMAIN g.peers = 0 .. n - 1 /\ g.peers[p] = peer
      /\ \A r \in 0 .. n - 1 : r # p => g.peers[r] = h.peers[r]
  BY <1>8 DEF HostOK
<1> QED
  BY <1>7, <1>8, <1>9 DEF OnePeer, HostOK, g

LEMMA WithCall ==
  ASSUME NEW n, NEW serving, NEW h, HostOK(h, n, serving), NEW p \in 0 .. n - 1,
         NEW peer, Proper(peer, serving), serving => Lives(h.peers[p], peer)
  PROVE  Call(h, With(h, p, peer), n, serving) /\ HostOK(With(h, p, peer), n, serving)
<1> DEFINE g == With(h, p, peer)
<1>1. OnePeer(h, g, p, n) /\ g.peers[p] = peer /\ g.event = h.event
  BY WithOne
<1> HIDE DEF g
<1>2. Call(h, g, n, serving)
  BY <1>1, QuietCall
<1> QED
  BY <1>2 DEF g, Call

-----------------------------------------------------------------------------
(* The end of a connection *)

\* A peer may go from state a to state b without an event.
Silently(a, b) ==
  a \notin Early =>
    /\ b \notin Early
    /\ b \in Public <=> a \in Public
    /\ b = "CONNECTED" => a = "CONNECTED"

LEMMA StateProper ==
  ASSUME NEW peer, NEW serving, Proper(peer, serving),
         NEW state \in States \ {"DISCONNECTED"}, NEW q, DOMAIN q = Fields,
         q.state = state, q.connectID = peer.connectID, q.address = peer.address,
         q.acknowledgements = peer.acknowledgements,
         q.sentReliableCommands = peer.sentReliableCommands,
         q.outgoingReliableCommands = peer.outgoingReliableCommands,
         q.outgoingUnreliableCommands = peer.outgoingUnreliableCommands
  PROVE  Proper(q, serving) /\ (Silently(peer.state, state) => Lives(peer, q))
BY DEF Proper, Lives, Silently

LEMMA DispatchStateOne ==
  ASSUME NEW n, NEW serving, NEW h, HostOK(h, n, serving), NEW p \in 0 .. n - 1,
         NEW state \in States \ {"DISCONNECTED"}
  PROVE  LET g == DispatchState(h, p, state)
         IN /\ OnePeer(h, g, p, n) /\ g.event = h.event
            /\ Proper(g.peers[p], serving) /\ g.peers[p].state = state
            /\ g.peers[p].outgoingReliableCommands = h.peers[p].outgoingReliableCommands
            /\ g.peers[p].sentReliableCommands = h.peers[p].sentReliableCommands
            /\ Silently(h.peers[p].state, state) => Lives(h.peers[p], g.peers[p])
<1> DEFINE peer == h.peers[p]
           q == [peer EXCEPT !.state = state, !.needsDispatch = TRUE]
           g == DispatchState(h, p, state)
<1>1. g = With(h, p, q)
  BY DEF DispatchState
<1>2. Proper(peer, serving)
  BY DEF HostOK
<1> HIDE DEF g
<1>3. /\ DOMAIN q = Fields /\ q.state = state /\ q.connectID = peer.connectID
      /\ q.address = peer.address /\ q.acknowledgements = peer.acknowledgements
      /\ q.sentReliableCommands = peer.sentReliableCommands
      /\ q.outgoingReliableCommands = peer.outgoingReliableCommands
      /\ q.outgoingUnreliableCommands = peer.outgoingUnreliableCommands
  BY <1>2 DEF Proper, Fields
<1> HIDE DEF q, peer
<1>4. Proper(q, serving) /\ (Silently(peer.state, state) => Lives(peer, q))
  BY <1>2, <1>3, StateProper
<1>5. OnePeer(h, g, p, n) /\ g.peers[p] = q /\ g.event = h.event
  BY <1>1, WithOne
<1> QED
  BY <1>3, <1>4, <1>5 DEF g, peer

LEMMA DispatchStateCall ==
  ASSUME NEW n, NEW serving, NEW h, HostOK(h, n, serving), NEW p \in 0 .. n - 1,
         NEW state \in States \ {"DISCONNECTED"},
         serving => Silently(h.peers[p].state, state)
  PROVE  Call(h, DispatchState(h, p, state), n, serving)
<1> DEFINE g == DispatchState(h, p, state)
<1>1. /\ OnePeer(h, g, p, n) /\ g.event = h.event /\ Proper(g.peers[p], serving)
      /\ Silently(h.peers[p].state, state) => Lives(h.peers[p], g.peers[p])
  BY DispatchStateOne
<1> HIDE DEF g
<1>2. Call(h, g, n, serving)
  BY <1>1, QuietCall
<1> QED
  BY <1>2 DEF g

\* enet_protocol_notify_disconnect: a peer that was announced is announced gone,
\* now or when the application asks.
LEMMA NotifyDisconnectCall ==
  ASSUME NEW n, NEW serving, NEW h, HostOK(h, n, serving), NEW p \in 0 .. n - 1,
         h.event = NoEvent, NEW wants
  PROVE  LET g == NotifyDisconnect(h, p, wants)
         IN /\ Call(h, g, n, serving)
            /\ g.peers[p].state \in {"DISCONNECTED", "ZOMBIE"}
            /\ ~wants => g.event = h.event
<1> DEFINE peer == h.peers[p]
           gone == With(h, p, Reset(peer))
           told == [gone EXCEPT !.event = Event("DISCONNECT", p, 0)]
           later == [peer EXCEPT !.eventData = 0]
           host == With(h, p, later)
           zombie == DispatchState(host, p, "ZOMBIE")
           g == NotifyDisconnect(h, p, wants)
<1>1. Proper(peer, serving)
  BY DEF HostOK
<1>2. /\ Proper(Reset(peer), serving) /\ Reset(peer).state = "DISCONNECTED"
      /\ peer.state \notin Public => Lives(peer, Reset(peer))
  BY <1>1, ResetProper
<1>3. OnePeer(h, gone, p, n) /\ gone.peers[p] = Reset(peer) /\ gone.event = h.event
  BY WithOne
<1>4. \/ peer.state \in Unannounced /\ g = gone
      \/ peer.state \notin Unannounced /\ g = told /\ wants
      \/ peer.state \notin Unannounced /\ g = zombie
  BY DEF NotifyDisconnect
<1>5. peer.state \in Unannounced => peer.state \notin Public
  BY DEF Unannounced, Public
<1>6. peer.state \notin Unannounced => peer.state \in Public \cup Early
  BY <1>1 DEF Unannounced, Public, Early, Proper, States
<1>7. /\ OnePeer(h, told, p, n) /\ told.peers = gone.peers
      /\ told.event.type = "DISCONNECT" /\ told.event.peer = p
  BY <1>3 DEF OnePeer, HostFields, Event
<1>8. Alike(peer, later)
  BY <1>1 DEF Alike, Proper, Fields
<1>9. Proper(later, serving) /\ Lives(peer, later) /\ later.state = peer.state
  BY <1>1, <1>8, AlikeIsProper DEF Alike
<1> HIDE DEF peer, gone, told, later, g
<1>10. Call(h, host, n, serving) /\ HostOK(host, n, serving) /\ host.peers[p] = later /\ host.event = h.event
  BY <1>9, WithCall, WithOne DEF peer
<1> HIDE DEF host
<1>11. "ZOMBIE" \in States \ {"DISCONNECTED"}
  BY DEF States
<1>12. peer.state \in Public \cup Early => Silently(host.peers[p].state, "ZOMBIE")
  BY <1>9, <1>10 DEF Silently, Public, Early
<1>13. CASE peer.state \in Unannounced /\ g = gone
  <2>1. Call(h, gone, n, serving)
    BY <1>2, <1>3, <1>5, <1>13, QuietCall DEF peer
  <2> QED
    BY <1>2, <1>3, <1>13, <2>1 DEF g
<1>14. CASE peer.state \notin Unannounced /\ g = told /\ wants
  <2>1. "DISCONNECTED" \notin Public \cup Early
    BY DEF Public, Early
  <2>2. told.peers[p].state = "DISCONNECTED" /\ Proper(told.peers[p], serving)
    BY <1>2, <1>3, <1>7
  <2>3. h.peers[p].state \in Public \cup Early
    BY <1>6, <1>14 DEF peer
  <2>4. Call(h, told, n, serving)
    BY <1>7, <2>1, <2>2, <2>3, ToldCall
  <2> QED
    BY <1>14, <2>2, <2>4 DEF g
<1>15. CASE peer.state \notin Unannounced /\ g = zombie
  <2>1. /\ Call(host, zombie, n, serving) /\ zombie.peers[p].state = "ZOMBIE"
        /\ zombie.event = host.event
    BY <1>6, <1>10, <1>11, <1>12, <1>15, DispatchStateCall, DispatchStateOne
  <2>2. Call(h, zombie, n, serving)
    BY <1>10, <2>1, CallOn
  <2> QED
    BY <1>10, <1>15, <2>1, <2>2 DEF g
<1> QED
  BY <1>4, <1>13, <1>14, <1>15

-----------------------------------------------------------------------------
(* Sending *)

\* The draft becomes a datagram like those that are known.
LEMMA SendDraftCall ==
  ASSUME NEW n, NEW self, NEW serving, serving <=> self = Server,
         NEW at, HostOK(at, n, serving), NEW more,
         NEW draft, Proper(draft.peer, serving), Words(draft.commands, serving)
  PROVE  LET host == SendDraft(more, at, self, draft).host
         IN Call(at, host, n, serving) /\ host.event = at.event
<1> DEFINE d == Datagram(self, draft.peer, draft.commands)
           g == [at EXCEPT !.sent = Append(@, d)]
<1>1. /\ Len(draft.commands) \in Nat /\ DOMAIN draft.commands = 1 .. Len(draft.commands)
      /\ \A k \in 1 .. Len(draft.commands) : serving \/ ~Rude(draft.commands[k])
  <2>1. IsList(draft.commands)
    BY DEF Words
  <2> QED
    BY <2>1, ListOver DEF Words, IsList
<1>2. serving => draft.peer.address # Server
  BY DEF Proper
<1>3. Fine(d)
  BY <1>1, <1>2 DEF Fine, Datagram
<1>4. IsList(Append(at.sent, d)) /\ \A k \in DOMAIN Append(at.sent, d) : Fine(Append(at.sent, d)[k])
  <2> DEFINE S == {at.sent[k] : k \in DOMAIN at.sent}
  <2>1. at.sent \in Seq(S) /\ \A x \in S : Fine(x)
    BY DEF HostOK, IsList
  <2> HIDE DEF S, d
  <2>2. Append(at.sent, d) \in Seq(S \cup {d})
    BY <2>1, AppendOver
  <2>3. /\ IsList(Append(at.sent, d))
        /\ \A k \in DOMAIN Append(at.sent, d) : Append(at.sent, d)[k] \in S \cup {d}
    BY <2>2, ListOver
  <2> QED
    BY <1>3, <2>1, <2>3
<1> HIDE DEF d
<1>5. /\ DOMAIN g = HostFields /\ g.peers = at.peers /\ g.dispatchQueue = at.dispatchQueue
      /\ g.sent = Append(at.sent, d) /\ g.event = at.event
  BY DEF HostOK, HostFields
<1> HIDE DEF g
<1>6. HostOK(g, n, serving)
  BY <1>4, <1>5 DEF HostOK
<1>7. Goes(at, g, n)
  <2>1. \A p : ~Tells(at, g, p, "CONNECT") /\ ~Tells(at, g, p, "DISCONNECT")
    BY <1>5 DEF Tells
  <2>2. \A p : Lives(at.peers[p], g.peers[p])
    BY <1>5 DEF Lives
  <2> QED
    BY <1>5, <2>1, <2>2 DEF Goes
<1>8. Call(at, g, n, serving) /\ Call(at, at, n, serving)
  BY <1>6, <1>7, CallNone DEF Call
<1>9. SendDraft(more, at, self, draft).host = IF draft.commands = <<>> THEN at ELSE g
  BY DEF SendDraft, g, d
<1> QED
  BY <1>5, <1>8, <1>9

\* What is known on the way through the peers; who wants no event gets none.
Round(h, at, n, serving, wants) ==
  /\ DOMAIN at = {"host", "more"}
  /\ Call(h, at.host, n, serving)
  /\ ~wants => at.host.event = h.event

LEMMA SendLastCall ==
  ASSUME NEW n, NEW self, NEW serving, serving <=> self = Server,
         NEW at, HostOK(at.host, n, serving),
         NEW p \in 0 .. n - 1, NEW unreliably, NEW wants,
         NEW draft, Filling(draft, at.host.peers[p], serving)
  PROVE  Round(at.host, SendLast(at, p, self, unreliably, draft), n, serving, wants)
<1> DEFINE host == With(at.host, p, draft.peer)
<1>1. Proper(draft.peer, serving) /\ (serving => Lives(at.host.peers[p], draft.peer))
      /\ Words(draft.commands, serving)
  BY DEF Filling
<1>2. /\ Call(at.host, host, n, serving) /\ HostOK(host, n, serving)
      /\ host.peers[p] = draft.peer /\ host.event = at.host.event
  BY <1>1, WithCall, WithOne
<1> HIDE DEF host
<1>3. ~ ReadyToLeave(draft.peer)
  BY <1>1 DEF ReadyToLeave, Proper, States
<1>4. SendLast(at, p, self, unreliably, draft) = SendDraft(at, host, self, draft)
  BY <1>3 DEF SendLast, host
<1>5. /\ Call(host, SendDraft(at, host, self, draft).host, n, serving)
      /\ SendDraft(at, host, self, draft).host.event = host.event
  BY <1>1, <1>2, SendDraftCall
<1>6. DOMAIN SendDraft(at, host, self, draft) = {"host", "more"}
  BY DEF SendDraft
<1> QED
  BY <1>2, <1>4, <1>5, <1>6, CallOn DEF Round

LEMMA SendRestCall ==
  ASSUME NEW n, NEW self, NEW serving, serving <=> self = Server,
         NEW at, HostOK(at.host, n, serving),
         NEW p \in 0 .. n - 1, NEW throttled, NEW wants,
         NEW draft, Filling(draft, at.host.peers[p], serving)
  PROVE  Round(at.host, SendRest(at, p, self, throttled, draft), n, serving, wants)
<1>1. Filling(SendUnreliable(draft, throttled), at.host.peers[p], serving)
  BY SendUnreliableOn
<1> DEFINE unreliably == draft.peer.outgoingUnreliableCommands # <<>>
           last == IF unreliably THEN SendUnreliable(draft, throttled) ELSE draft
<1>2. Filling(last, at.host.peers[p], serving)
  BY <1>1
<1> HIDE DEF unreliably, last
<1>3. Round(at.host, SendLast(at, p, self, unreliably, last), n, serving, wants)
  BY <1>2, SendLastCall
<1> QED
  BY <1>3 DEF SendRest, unreliably, last

LEMMA SendToRound ==
  ASSUME NEW n, NEW self, NEW serving, serving <=> self = Server,
         NEW at, DOMAIN at = {"host", "more"},
         HostOK(at.host, n, serving), NEW p \in 0 .. n - 1, NEW choices, NEW wants
  PROVE  Round(at.host, SendTo(at, p, self, choices, wants), n, serving, wants)
<1> DEFINE peer == at.host.peers[p]
           acked == SendAcknowledgements(Draft(peer))
           late == {o \in ToSet(acked.peer.sentReliableCommands) : <<p, o>> \in choices.expired}
<1>1. CASE at.host.event # NoEvent \/ peer.state \in {"DISCONNECTED", "ZOMBIE"}
  BY <1>1, CallNone DEF SendTo, Round
<1>2. CASE at.host.event = NoEvent /\ peer.state \notin {"DISCONNECTED", "ZOMBIE"}
  <2>1. SendTo(at, p, self, choices, wants) = SendBehind(at, p, self, choices, wants, acked)
    BY <1>2 DEF SendTo
  <2>2. Filling(acked, peer, serving)
    BY <1>2, AcknowledgementsOn DEF HostOK
  <2> HIDE DEF acked
  <2>3. CASE late # {} /\ p \in choices.lost
    <3> DEFINE host == With(at.host, p, acked.peer)
               g == NotifyDisconnect(host, p, wants)
    <3>1. /\ Call(at.host, host, n, serving) /\ HostOK(host, n, serving)
          /\ host.event = NoEvent
      BY <1>2, <2>2, WithCall, WithOne DEF Filling
    <3> HIDE DEF host
    <3>2. Call(host, g, n, serving) /\ (~wants => g.event = host.event)
      BY <3>1, NotifyDisconnectCall
    <3> HIDE DEF g
    <3>3. Call(at.host, g, n, serving)
      BY <3>1, <3>2, CallOn
    <3>4. SendBehind(at, p, self, choices, wants, acked) = [at EXCEPT !.host = g]
      BY <2>3 DEF SendBehind, g, host
    <3> QED
      BY <1>2, <2>1, <3>1, <3>2, <3>3, <3>4 DEF Round
  <2>4. CASE ~ (late # {} /\ p \in choices.lost)
    <3> DEFINE q == Resent(acked.peer, late)
               resent == [acked EXCEPT !.peer = Resent(@, late)]
               once == SendReliable(resent)
               ready == Pinged(once, p \in choices.silent)
    <3>1. SendBehind(at, p, self, choices, wants, acked)
            = SendRest(at, p, self, p \in choices.throttled, ready)
      BY <2>4 DEF SendBehind
    <3>2. Proper(q, serving) /\ Lives(acked.peer, q) /\ q.state # "DISCONNECTED"
      BY <2>2, ResentProper DEF Filling
    <3>3. resent = [acked EXCEPT !.peer = q]
      OBVIOUS
    <3> HIDE DEF q, resent
    <3>4. Filling(resent, peer, serving)
      BY <2>2, <3>2, <3>3, OtherPeer
    <3>5. Filling(once.draft, peer, serving)
      BY <3>4, SendReliableOn
    <3> HIDE DEF once
    <3>6. Filling(ready, peer, serving)
      BY <3>5, PingedOn
    <3> HIDE DEF ready
    <3>7. Round(at.host, SendRest(at, p, self, p \in choices.throttled, ready), n, serving, wants)
      BY <3>6, SendRestCall
    <3> QED
      BY <2>1, <3>1, <3>7
  <2> QED
    BY <2>3, <2>4
<1> QED
  BY <1>1, <1>2

\* The k-th peer is number k - 1.
TourStart(at) == [at EXCEPT !.more = FALSE]
TourNext(at, k, self, choices, wants) == SendTo(at, k - 1, self, choices, wants)

\* The loop over the peers.
IsTouring(f, at, self, choices, wants, l) ==
  f = [k \in 0 .. l |->
         IF k = 0 THEN TourStart(at)
         ELSE TourNext(f[k - 1], k, self, choices, wants)]

LEMMA TouringExists ==
  ASSUME NEW at, NEW self, NEW choices, NEW wants, NEW l \in Nat
  PROVE  \E f : IsTouring(f, at, self, choices, wants, l)
<1> DEFINE start == TourStart(at)
           S == {k \in Nat : \E f : IsTouring(f, at, self, choices, wants, k)}
<1>1. 0 \in S
  <2>1. IsTouring([k \in 0 .. 0 |-> start], at, self, choices, wants, 0)
    BY DEF IsTouring
  <2> QED
    BY <2>1
<1> HIDE DEF start
<1>2. ASSUME NEW k \in S PROVE k + 1 \in S
  <2>1. PICK f : IsTouring(f, at, self, choices, wants, k)
    OBVIOUS
  <2> DEFINE last == TourNext(f[k], k + 1, self, choices, wants)
             g == [i \in 0 .. k + 1 |-> IF i = k + 1 THEN last ELSE f[i]]
  <2>2. (\A i \in 0 .. k : g[i] = f[i]) /\ g[k + 1] = last
    OBVIOUS
  <2> HIDE DEF last
  <2>3. g = [i \in 0 .. k + 1 |-> g[i]]
    OBVIOUS
  <2> HIDE DEF g
  <2>4. ASSUME NEW i \in 0 .. k + 1
        PROVE  g[i] = IF i = 0 THEN start
                      ELSE TourNext(g[i - 1], i, self, choices, wants)
    <3>1. CASE i = k + 1
      <4>1. i - 1 = k /\ i # 0
        BY <3>1
      <4>2. g[i - 1] = f[k]
        BY <2>2, <4>1
      <4> QED
        BY <2>2, <3>1, <4>1, <4>2 DEF last
    <3>2. CASE i = 0
      BY <2>1, <2>2, <3>2 DEF IsTouring, start
    <3>3. CASE i \in 1 .. k
      <4>1. i - 1 \in 0 .. k /\ i \in 0 .. k /\ i # 0
        BY <3>3
      <4>2. g[i - 1] = f[i - 1] /\ g[i] = f[i]
        BY <2>2, <4>1
      <4>3. f[i] = TourNext(f[i - 1], i, self, choices, wants)
        BY <2>1, <4>1 DEF IsTouring
      <4> QED
        BY <4>1, <4>2, <4>3
    <3> QED
      BY <3>1, <3>2, <3>3
  <2>5. IsTouring(g, at, self, choices, wants, k + 1)
    BY <2>3, <2>4 DEF IsTouring, start
  <2> QED
    BY <2>5
<1> HIDE DEF S
<1>3. 0 .. l \subseteq S
  BY <1>1, <1>2, Upwards DEF S
<1> QED
  BY <1>3 DEF S

\* It goes by rounds.
TouringRounds(f, at, self, choices, wants, l) ==
  /\ f[0] = TourStart(at)
  /\ \A k \in 0 .. l : k < l => f[k + 1] = TourNext(f[k], k + 1, self, choices, wants)

LEMMA TouringByRounds ==
  ASSUME NEW at, NEW self, NEW choices, NEW wants, NEW l \in Nat, NEW f, IsTouring(f, at, self, choices, wants, l)
  PROVE  TouringRounds(f, at, self, choices, wants, l)
<1>1. 0 \in 0 .. l
  OBVIOUS
<1>2. \A k \in 0 .. l : k < l => /\ k + 1 \in 0 .. l /\ k + 1 # 0 /\ (k + 1) - 1 = k
  OBVIOUS
<1> QED
  BY <1>1, <1>2 DEF IsTouring, TouringRounds

\* One pass over the peers.
LEMMA SendPassRound ==
  ASSUME NEW n \in Nat, NEW self, NEW serving, serving <=> self = Server,
         NEW at, DOMAIN at = {"host", "more"}, HostOK(at.host, n, serving),
         NEW choices, NEW wants
  PROVE  Round(at.host, SendPass(at, self, choices, wants), n, serving, wants)
<1> DEFINE l == Cardinality(Slots(at.host))
           f == CHOOSE f : IsTouring(f, at, self, choices, wants, l)
<1>1. l = n
  <2>1. Slots(at.host) = 0 .. n - 1
    BY DEF Slots, HostOK
  <2>2. Cardinality(0 .. n - 1) = n
    <3>1. 0 \in Int /\ n - 1 \in Int /\ (0 > n - 1 <=> n = 0)
      OBVIOUS
    <3> QED
      BY <3>1, FS_Interval
  <2> QED
    BY <2>1, <2>2
<1>2. SendPass(at, self, choices, wants) \in {at, f[l]}
  BY DEF SendPass, IsTouring, TourStart, TourNext
<1> HIDE DEF l
<1>a. l \in Nat
  BY <1>1
<1>3. IsTouring(f, at, self, choices, wants, l)
  BY <1>a, TouringExists
<1> HIDE DEF f
<1>4. TouringRounds(f, at, self, choices, wants, l)
  BY <1>a, <1>3, TouringByRounds
<1> DEFINE S == {k \in 0 .. l : Round(at.host, f[k], n, serving, wants)}
<1>5. 0 \in S
  <2>1. f[0] = [at EXCEPT !.more = FALSE]
    BY <1>4 DEF TouringRounds, TourStart
  <2>2. Round(at.host, f[0], n, serving, wants)
    BY <2>1, CallNone DEF Round
  <2> QED
    BY <1>1, <2>2
<1>6. ASSUME NEW k \in S, k < l PROVE k + 1 \in S
  <2>1. k + 1 \in 0 .. l /\ k \in 0 .. n - 1 /\ (k + 1) - 1 = k
    BY <1>1, <1>6
  <2>2. f[k + 1] = SendTo(f[k], k, self, choices, wants)
    <3>1. f[k + 1] = TourNext(f[k], k + 1, self, choices, wants)
      BY <1>4, <1>6 DEF TouringRounds
    <3> QED
      BY <2>1, <3>1 DEF TourNext
  <2>3. Round(f[k].host, f[k + 1], n, serving, wants)
    <3>1. DOMAIN f[k] = {"host", "more"} /\ HostOK(f[k].host, n, serving)
      BY <1>6 DEF Round, Call
    <3>2. Round(f[k].host, SendTo(f[k], k, self, choices, wants), n, serving, wants)
      BY <2>1, <3>1, SendToRound
    <3> QED
      BY <2>2, <3>2
  <2>4. Round(at.host, f[k + 1], n, serving, wants)
    BY <2>3, CallOn DEF Round
  <2> QED
    BY <2>1, <2>4
<1>7. Round(at.host, f[l], n, serving, wants)
  <2>1. S \in SUBSET Nat
    BY <1>1
  <2> HIDE DEF S
  <2>2. 0 .. l \subseteq S
    BY <1>1, <1>5, <1>6, <2>1, Upwards
  <2> QED
    BY <1>1, <2>2 DEF S
<1>8. Round(at.host, at, n, serving, wants)
  BY CallNone DEF Round
<1> QED
  BY <1>2, <1>7, <1>8

\* What may leave is finite.
LEMMA WaitingFinite ==
  ASSUME NEW n \in Nat, NEW serving, NEW h, HostOK(h, n, serving)
  PROVE  Cardinality(Waiting(h)) \in Nat
<1> DEFINE Count(p) == Len(h.peers[p].acknowledgements)
                        + Len(h.peers[p].sentReliableCommands)
                        + Len(h.peers[p].outgoingReliableCommands)
                        + Len(h.peers[p].outgoingUnreliableCommands)
           Places(p) == {<<p, k>> : k \in 0 .. Count(p)}
           all == {Places(p) : p \in 0 .. n - 1}
           F == [p \in 0 .. n - 1 |-> Places(p)]
<1>1. Waiting(h) = UNION all
  BY DEF Waiting, Slots, HostOK
<1>2. ASSUME NEW p \in 0 .. n - 1 PROVE IsFiniteSet(Places(p))
  <2>1. Count(p) \in Nat
    <3>1. Proper(h.peers[p], serving)
      BY DEF HostOK
    <3>2. Debts(h.peers[p].acknowledgements, serving)
      BY <3>1 DEF Proper
    <3>3. Len(h.peers[p].acknowledgements) \in Nat
      BY <3>2, ListOver DEF Debts, IsList
    <3>4. /\ Len(h.peers[p].sentReliableCommands) \in Nat
          /\ Len(h.peers[p].outgoingReliableCommands) \in Nat
          /\ Len(h.peers[p].outgoingUnreliableCommands) \in Nat
      BY <3>1, LettersAre DEF Proper
    <3>5. /\ DOMAIN h.peers[p] = Fields
          /\ \A a, b, c, d \in Nat : a + b + c + d \in Nat
      BY <3>1 DEF Proper
    <3> QED
      BY <3>3, <3>4, <3>5
  <2> HIDE DEF Count
  <2>2. IsFiniteSet({p}) /\ IsFiniteSet(0 .. Count(p))
    <3>1. IsFiniteSet({p})
      BY FS_Singleton
    <3>2. 0 \in Int /\ Count(p) \in Int
      BY <2>1
    <3> QED
      BY <3>1, <3>2, FS_Interval
  <2>3. IsFiniteSet({p} \X (0 .. Count(p)))
    BY <2>2, FS_Product
  <2>4. Places(p) \in SUBSET ({p} \X (0 .. Count(p)))
    OBVIOUS
  <2> HIDE DEF Places
  <2> QED
    BY <2>3, <2>4, FS_Subset
<1> HIDE DEF Places
<1>3. IsFiniteSet(all)
  <2>1. F \in Surjection(0 .. n - 1, all)
    BY DEF Surjection
  <2>2. IsFiniteSet(0 .. n - 1)
    BY FS_Interval
  <2> HIDE DEF F, all
  <2> QED
    BY <2>1, <2>2, FS_Surjection
<1>4. IsFiniteSet(UNION all)
  <2>1. \A T \in all : IsFiniteSet(T)
    BY <1>2
  <2> HIDE DEF all
  <2> QED
    BY <1>3, <2>1, FS_UNION
<1> QED
  BY <1>1, <1>4, FS_CardinalityType

\* The first pass, and the choices of a pass: what has timed out did so in the first.
PassStart(h) == [host |-> h, more |-> TRUE]
ChoicesAt(choices, k) == IF k = 1 THEN choices ELSE [choices EXCEPT !.expired = {}]

\* The passes of enet_protocol_send_outgoing_commands.
IsPassing(f, h, self, choices, wants, l) ==
  f = [k \in 0 .. l |->
         IF k = 0 THEN PassStart(h)
         ELSE SendPass(f[k - 1], self, ChoicesAt(choices, k), wants)]

LEMMA PassingExists ==
  ASSUME NEW h, NEW self, NEW choices, NEW wants, NEW l \in Nat
  PROVE  \E f : IsPassing(f, h, self, choices, wants, l)
<1> DEFINE start == PassStart(h)
           S == {k \in Nat : \E f : IsPassing(f, h, self, choices, wants, k)}
<1>1. 0 \in S
  <2>1. IsPassing([k \in 0 .. 0 |-> start], h, self, choices, wants, 0)
    BY DEF IsPassing
  <2> QED
    BY <2>1
<1> HIDE DEF start
<1>2. ASSUME NEW k \in S PROVE k + 1 \in S
  <2>1. PICK f : IsPassing(f, h, self, choices, wants, k)
    OBVIOUS
  <2> DEFINE last == SendPass(f[k], self, ChoicesAt(choices, k + 1), wants)
             g == [i \in 0 .. k + 1 |-> IF i = k + 1 THEN last ELSE f[i]]
  <2>2. (\A i \in 0 .. k : g[i] = f[i]) /\ g[k + 1] = last
    OBVIOUS
  <2> HIDE DEF last
  <2>3. g = [i \in 0 .. k + 1 |-> g[i]]
    OBVIOUS
  <2> HIDE DEF g
  <2>4. ASSUME NEW i \in 0 .. k + 1
        PROVE  g[i] = IF i = 0 THEN start
                      ELSE SendPass(g[i - 1], self, ChoicesAt(choices, i), wants)
    <3>1. CASE i = k + 1
      <4>1. i - 1 = k /\ i # 0
        BY <3>1
      <4>2. g[i - 1] = f[k]
        BY <2>2, <4>1
      <4> QED
        BY <2>2, <3>1, <4>1, <4>2 DEF last
    <3>2. CASE i = 0
      BY <2>1, <2>2, <3>2 DEF IsPassing, start
    <3>3. CASE i \in 1 .. k
      <4>1. i - 1 \in 0 .. k /\ i \in 0 .. k /\ i # 0
        BY <3>3
      <4>2. g[i - 1] = f[i - 1] /\ g[i] = f[i]
        BY <2>2, <4>1
      <4>3. f[i] = SendPass(f[i - 1], self, ChoicesAt(choices, i), wants)
        BY <2>1, <4>1 DEF IsPassing
      <4> QED
        BY <4>1, <4>2, <4>3
    <3> QED
      BY <3>1, <3>2, <3>3
  <2>5. IsPassing(g, h, self, choices, wants, k + 1)
    BY <2>3, <2>4 DEF IsPassing, start
  <2> QED
    BY <2>5
<1> HIDE DEF S
<1>3. 0 .. l \subseteq S
  BY <1>1, <1>2, Upwards DEF S
<1> QED
  BY <1>3 DEF S

\* It goes by rounds.
PassingRounds(f, h, self, choices, wants, l) ==
  /\ f[0] = PassStart(h)
  /\ \A k \in 0 .. l : k < l => f[k + 1] = SendPass(f[k], self, ChoicesAt(choices, k + 1), wants)

LEMMA PassingByRounds ==
  ASSUME NEW h, NEW self, NEW choices, NEW wants, NEW l \in Nat, NEW f, IsPassing(f, h, self, choices, wants, l)
  PROVE  PassingRounds(f, h, self, choices, wants, l)
<1>1. 0 \in 0 .. l
  OBVIOUS
<1>2. \A k \in 0 .. l : k < l => /\ k + 1 \in 0 .. l /\ k + 1 # 0 /\ (k + 1) - 1 = k
  OBVIOUS
<1> QED
  BY <1>1, <1>2 DEF IsPassing, PassingRounds

\* enet_protocol_send_outgoing_commands.
LEMMA SendOutgoingCall ==
  ASSUME NEW n \in Nat, NEW self, NEW serving, serving <=> self = Server,
         NEW h, HostOK(h, n, serving), NEW choices, NEW wants
  PROVE  /\ Call(h, SendOutgoing(h, self, choices, wants), n, serving)
         /\ ~wants => SendOutgoing(h, self, choices, wants).event = h.event
<1> DEFINE l == Cardinality(Waiting(h))
           f == CHOOSE f : IsPassing(f, h, self, choices, wants, l)
<1>1. l \in Nat
  BY WaitingFinite
<1>2. SendOutgoing(h, self, choices, wants) = f[l].host
  BY DEF SendOutgoing, IsPassing, PassStart, ChoicesAt
<1> HIDE DEF l
<1>3. IsPassing(f, h, self, choices, wants, l)
  BY <1>1, PassingExists
<1> HIDE DEF f
<1>4. PassingRounds(f, h, self, choices, wants, l)
  BY <1>1, <1>3, PassingByRounds
<1> DEFINE S == {k \in 0 .. l : Round(h, f[k], n, serving, wants)}
<1>5. 0 \in S
  <2>1. f[0] = [host |-> h, more |-> TRUE]
    BY <1>4 DEF PassingRounds, PassStart
  <2>2. Round(h, f[0], n, serving, wants)
    BY <2>1, CallNone DEF Round
  <2> QED
    BY <1>1, <2>2
<1>6. ASSUME NEW k \in S, k < l PROVE k + 1 \in S
  <2>1. k + 1 \in 0 .. l
    BY <1>1, <1>6
  <2>2. f[k + 1] = SendPass(f[k], self, ChoicesAt(choices, k + 1), wants)
    BY <1>4, <1>6 DEF PassingRounds
  <2>3. Round(f[k].host, f[k + 1], n, serving, wants)
    <3>1. DOMAIN f[k] = {"host", "more"} /\ HostOK(f[k].host, n, serving)
      BY <1>6 DEF Round, Call
    <3>2. Round(f[k].host, SendPass(f[k], self, ChoicesAt(choices, k + 1), wants), n, serving, wants)
      BY <3>1, SendPassRound
    <3> QED
      BY <2>2, <3>2
  <2>4. Round(h, f[k + 1], n, serving, wants)
    BY <2>3, CallOn DEF Round
  <2> QED
    BY <2>1, <2>4
<1>7. Round(h, f[l], n, serving, wants)
  <2>1. S \in SUBSET Nat
    BY <1>1
  <2> HIDE DEF S
  <2>2. 0 .. l \subseteq S
    BY <1>1, <1>5, <1>6, <2>1, Upwards
  <2> QED
    BY <1>1, <2>2 DEF S
<1> QED
  BY <1>2, <1>7 DEF Round

-----------------------------------------------------------------------------
(* Handing over *)

LEMMA OneOn ==
  ASSUME NEW n, NEW p, NEW h, NEW g, NEW k, OnePeer(h, g, p, n), OnePeer(g, k, p, n)
  PROVE  OnePeer(h, k, p, n)
BY DEF OnePeer

\* An event besides what else changes.
LEMMA EventOne ==
  ASSUME NEW n, NEW p, NEW h, NEW g, OnePeer(h, g, p, n), NEW e
  PROVE  LET k == [g EXCEPT !.event = e]
         IN OnePeer(h, k, p, n) /\ k.event = e /\ k.peers = g.peers
BY DEF OnePeer, HostFields

\* The first peer in the queue is asked.
LEMMA DispatchOneCall ==
  ASSUME NEW n, NEW serving, NEW h, HostOK(h, n, serving), h.event = NoEvent,
         h.dispatchQueue # <<>>
  PROVE  Call(h, DispatchOne(h), n, serving)
<1> DEFINE p == Head(h.dispatchQueue)
           old == h.peers[p]
           peer == [old EXCEPT !.needsDispatch = FALSE]
           next == [h EXCEPT !.peers[p] = peer, !.dispatchQueue = Tail(@)]
           front == Head(peer.dispatchedCommands)
           rest == Receive(peer)
           left == [rest EXCEPT !.needsDispatch = rest.dispatchedCommands # <<>>]
           connected == [next EXCEPT !.peers[p].state = "CONNECTED",
                                     !.event = Event("CONNECT", p, peer.eventData)]
           gone == With(next, p, Reset(peer))
           received == With(next, p, left)
           e == [type |-> "RECEIVE", peer |-> p, data |-> front.data,
                 channelID |-> front.command.channelID]
<1>1. p \in 0 .. n - 1 /\ Tail(h.dispatchQueue) \in Seq(0 .. n - 1)
  BY TailOver DEF HostOK
<1>2. Proper(old, serving)
  BY <1>1 DEF HostOK
<1> HIDE DEF p
<1>3. Alike(old, peer)
  BY <1>2 DEF Alike, Proper, Fields
<1>4. Proper(peer, serving) /\ Lives(old, peer) /\ peer.state = old.state
  BY <1>2, <1>3, AlikeIsProper DEF Alike
<1>5. DispatchOne(h) =
        CASE peer.state \in {"CONNECTION_PENDING", "CONNECTION_SUCCEEDED"} -> connected
          [] peer.state = "ZOMBIE" ->
               [gone EXCEPT !.event = Event("DISCONNECT", p, peer.eventData)]
          [] peer.state = "CONNECTED" /\ peer.dispatchedCommands # <<>> ->
               [received EXCEPT !.event = e]
          [] OTHER -> next
  BY DEF DispatchOne, p
<1> HIDE DEF peer
<1>6. /\ OnePeer(h, next, p, n) /\ next.peers[p] = peer /\ next.event = h.event
  BY <1>1 DEF OnePeer, HostOK, HostFields
<1>7. HostOK(next, n, serving)
  BY <1>1, <1>4, <1>6, OneProper
<1>8. CASE peer.state \in {"CONNECTION_PENDING", "CONNECTION_SUCCEEDED"}
  <2> DEFINE q == connected.peers[p]
  <2>1. /\ OnePeer(h, connected, p, n)
        /\ connected.event = Event("CONNECT", p, peer.eventData)
        /\ q = [peer EXCEPT !.state = "CONNECTED"]
    <3> HIDE DEF next
    <3> QED
      BY <1>1, <1>6 DEF OnePeer, HostFields
  <2> HIDE DEF connected
  <2>2. /\ DOMAIN q = Fields /\ q.state = "CONNECTED" /\ q.connectID = peer.connectID
        /\ q.address = peer.address /\ q.acknowledgements = peer.acknowledgements
        /\ q.sentReliableCommands = peer.sentReliableCommands
        /\ q.outgoingReliableCommands = peer.outgoingReliableCommands
        /\ q.outgoingUnreliableCommands = peer.outgoingUnreliableCommands
    BY <1>4, <2>1 DEF Proper, Fields
  <2>3. "CONNECTED" \in States \ {"DISCONNECTED"}
    BY DEF States
  <2> HIDE DEF q
  <2>4. Proper(q, serving)
    BY <1>4, <2>2, <2>3, StateProper
  <2>5. "CONNECTED" \in Public /\ old.state \notin Public
    BY <1>4, <1>8 DEF Public
  <2>6. connected.event.type = "CONNECT" /\ connected.event.peer = p
    BY <2>1 DEF Event
  <2>7. Call(h, connected, n, serving)
    BY <1>1, <2>1, <2>2, <2>4, <2>5, <2>6, ToldCall DEF q
  <2> QED
    BY <1>5, <1>8, <2>7
<1>9. CASE peer.state = "ZOMBIE"
  <2> DEFINE last == [gone EXCEPT !.event = Event("DISCONNECT", p, peer.eventData)]
  <2>1. Proper(Reset(peer), serving) /\ Reset(peer).state = "DISCONNECTED"
    BY <1>4, ResetProper
  <2>2. OnePeer(next, gone, p, n) /\ gone.peers[p] = Reset(peer)
    BY <1>1, <1>7, WithOne
  <2> HIDE DEF next, gone
  <2>3. OnePeer(h, gone, p, n)
    BY <1>6, <2>2, OneOn
  <2>4. /\ OnePeer(h, last, p, n) /\ last.peers = gone.peers
        /\ last.event = Event("DISCONNECT", p, peer.eventData)
    BY <2>3, EventOne
  <2> HIDE DEF last
  <2>5. last.event.type = "DISCONNECT" /\ last.event.peer = p
    BY <2>4 DEF Event
  <2>6. "DISCONNECTED" \notin Public \cup Early /\ old.state \in Public
    BY <1>4, <1>9 DEF Public, Early
  <2>7. Call(h, last, n, serving)
    BY <1>1, <2>1, <2>2, <2>4, <2>5, <2>6, ToldCall
  <2> QED
    BY <1>5, <1>9, <2>7 DEF last
<1>10. CASE peer.state = "CONNECTED" /\ peer.dispatchedCommands # <<>>
  <2> DEFINE last == [received EXCEPT !.event = e]
  <2>1. Proper(left, serving) /\ Lives(peer, left)
    <3>1. Alike(peer, rest)
      BY <1>4, ReceiveAlike DEF Proper
    <3>2. Alike(rest, left)
      BY <3>1 DEF Alike, Fields
    <3> QED
      BY <1>4, <3>1, <3>2, AlikeOn, AlikeIsProper
  <2> HIDE DEF left
  <2>2. OnePeer(next, received, p, n) /\ received.peers[p] = left
    BY <1>1, <1>7, WithOne
  <2> HIDE DEF next, received
  <2>3. OnePeer(h, received, p, n)
    BY <1>6, <2>2, OneOn
  <2> HIDE DEF e
  <2>4. OnePeer(h, last, p, n) /\ last.peers = received.peers /\ last.event = e
    BY <2>3, EventOne
  <2> HIDE DEF last
  <2>5. last.event.type = "RECEIVE" /\ last.event.peer = p
    BY <2>4 DEF e
  <2>6. Lives(old, left)
    BY <1>4, <2>1, LivesOn
  <2>7. Call(h, last, n, serving)
    BY <1>1, <2>1, <2>2, <2>4, <2>5, <2>6, ToldCall
  <2> QED
    BY <1>5, <1>10, <2>7 DEF last, e
<1>11. CASE /\ peer.state \notin {"CONNECTION_PENDING", "CONNECTION_SUCCEEDED", "ZOMBIE"}
            /\ ~ (peer.state = "CONNECTED" /\ peer.dispatchedCommands # <<>>)
  <2>1. DispatchOne(h) = next
    BY <1>5, <1>11
  <2> HIDE DEF next
  <2>2. Call(h, next, n, serving)
    BY <1>1, <1>4, <1>6, QuietCall
  <2> QED
    BY <2>1, <2>2
<1> QED
  BY <1>8, <1>9, <1>10, <1>11

LEMMA DispatchNextCall ==
  ASSUME NEW n, NEW serving, NEW h, HostOK(h, n, serving)
  PROVE  Call(h, DispatchNext(h), n, serving)
<1>1. CASE h.event # NoEvent \/ h.dispatchQueue = <<>>
  BY <1>1, CallNone DEF DispatchNext
<1>2. CASE h.event = NoEvent /\ h.dispatchQueue # <<>>
  BY <1>2, DispatchOneCall DEF DispatchNext
<1> QED
  BY <1>1, <1>2

\* The loop over the queue; its length is that at the start.
IsDispatching(f, h, l) ==
  f = [k \in 0 .. l |->
         IF k = 0 THEN h
         ELSE DispatchNext(f[k - 1])]

LEMMA DispatchingExists ==
  ASSUME NEW h, NEW l \in Nat
  PROVE  \E f : IsDispatching(f, h, l)
<1> DEFINE start == h
           S == {k \in Nat : \E f : IsDispatching(f, h, k)}
<1>1. 0 \in S
  <2>1. IsDispatching([k \in 0 .. 0 |-> start], h, 0)
    BY DEF IsDispatching
  <2> QED
    BY <2>1
<1> HIDE DEF start
<1>2. ASSUME NEW k \in S PROVE k + 1 \in S
  <2>1. PICK f : IsDispatching(f, h, k)
    OBVIOUS
  <2> DEFINE last == DispatchNext(f[k])
             g == [i \in 0 .. k + 1 |-> IF i = k + 1 THEN last ELSE f[i]]
  <2>2. (\A i \in 0 .. k : g[i] = f[i]) /\ g[k + 1] = last
    OBVIOUS
  <2> HIDE DEF last
  <2>3. g = [i \in 0 .. k + 1 |-> g[i]]
    OBVIOUS
  <2> HIDE DEF g
  <2>4. ASSUME NEW i \in 0 .. k + 1
        PROVE  g[i] = IF i = 0 THEN start
                      ELSE DispatchNext(g[i - 1])
    <3>1. CASE i = k + 1
      <4>1. i - 1 = k /\ i # 0
        BY <3>1
      <4>2. g[i - 1] = f[k]
        BY <2>2, <4>1
      <4> QED
        BY <2>2, <3>1, <4>1, <4>2 DEF last
    <3>2. CASE i = 0
      BY <2>1, <2>2, <3>2 DEF IsDispatching, start
    <3>3. CASE i \in 1 .. k
      <4>1. i - 1 \in 0 .. k /\ i \in 0 .. k /\ i # 0
        BY <3>3
      <4>2. g[i - 1] = f[i - 1] /\ g[i] = f[i]
        BY <2>2, <4>1
      <4>3. f[i] = DispatchNext(f[i - 1])
        BY <2>1, <4>1 DEF IsDispatching
      <4> QED
        BY <4>1, <4>2, <4>3
    <3> QED
      BY <3>1, <3>2, <3>3
  <2>5. IsDispatching(g, h, k + 1)
    BY <2>3, <2>4 DEF IsDispatching, start
  <2> QED
    BY <2>5
<1> HIDE DEF S
<1>3. 0 .. l \subseteq S
  BY <1>1, <1>2, Upwards DEF S
<1> QED
  BY <1>3 DEF S

\* It goes by rounds.
DispatchingRounds(f, h, l) ==
  /\ f[0] = h
  /\ \A k \in 0 .. l : k < l => f[k + 1] = DispatchNext(f[k])

LEMMA DispatchingByRounds ==
  ASSUME NEW h, NEW l \in Nat, NEW f, IsDispatching(f, h, l)
  PROVE  DispatchingRounds(f, h, l)
<1>1. 0 \in 0 .. l
  OBVIOUS
<1>2. \A k \in 0 .. l : k < l => /\ k + 1 \in 0 .. l /\ k + 1 # 0 /\ (k + 1) - 1 = k
  OBVIOUS
<1> QED
  BY <1>1, <1>2 DEF IsDispatching, DispatchingRounds

\* enet_protocol_dispatch_incoming_commands.
LEMMA DispatchIncomingCall ==
  ASSUME NEW n, NEW serving, NEW h, HostOK(h, n, serving)
  PROVE  Call(h, DispatchIncoming(h), n, serving)
<1> DEFINE l == Len(h.dispatchQueue)
           f == CHOOSE f : IsDispatching(f, h, l)
<1>1. l \in Nat
  BY DEF HostOK
<1>2. DispatchIncoming(h) = f[l]
  BY DEF DispatchIncoming, IsDispatching
<1> HIDE DEF l
<1>3. IsDispatching(f, h, l)
  BY <1>1, DispatchingExists
<1> HIDE DEF f
<1>4. DispatchingRounds(f, h, l)
  BY <1>1, <1>3, DispatchingByRounds
<1> DEFINE S == {k \in 0 .. l : Call(h, f[k], n, serving)}
<1>5. 0 \in S
  <2>1. f[0] = h
    BY <1>4 DEF DispatchingRounds
  <2> QED
    BY <1>1, <2>1, CallNone
<1>6. ASSUME NEW k \in S, k < l PROVE k + 1 \in S
  <2>1. k + 1 \in 0 .. l
    BY <1>1, <1>6
  <2>2. f[k + 1] = DispatchNext(f[k])
    BY <1>4, <1>6 DEF DispatchingRounds
  <2>3. HostOK(f[k], n, serving)
    BY <1>6 DEF Call
  <2>4. Call(f[k], f[k + 1], n, serving)
    BY <2>2, <2>3, DispatchNextCall
  <2>5. Call(h, f[k + 1], n, serving)
    BY <1>6, <2>4, CallOn
  <2> QED
    BY <2>1, <2>5
<1>7. Call(h, f[l], n, serving)
  <2>1. S \in SUBSET Nat
    BY <1>1
  <2> HIDE DEF S
  <2>2. 0 .. l \subseteq S
    BY <1>1, <1>5, <1>6, <2>1, Upwards
  <2> QED
    BY <1>1, <2>2 DEF S
<1> QED
  BY <1>2, <1>7

-----------------------------------------------------------------------------
(* The handlers of the commands *)

\* Once there is an event, the peer of the datagram cannot announce anything.
Muted(h, p) == h.event # NoEvent => Mute(h.peers[p])

\* Data only goes to what was received.
DataTo(h, g, p) ==
  \/ g = h
  \/ \E q : Alike(h.peers[p], q) /\ g = With(h, p, q)

LEMMA AddPieceData ==
  ASSUME NEW h, NEW p, NEW list, NEW command, NEW u, NEW peer,
         Alike(h.peers[p], peer)
  PROVE  DataTo(h, AddPiece(h, p, list, command, u, peer).host, p)
<1> DEFINE c == command.channelID
           k == PacketAt(peer.channels[c][list], command.reliableSequenceNumber, u)
           old == peer.channels[c][list][k]
           new == WithPiece(old, command.body)
           added == [peer EXCEPT !.channels[c][list][k] = new]
           g == AddPiece(h, p, list, command, u, peer).host
<1>1. g \in {h, With(h, p, added), With(h, p, DispatchReliable(added, c)),
             With(h, p, DispatchUnreliable(added, c))}
  BY DEF AddPiece, Handled, Failed
<1> HIDE DEF g
<1>2. Alike(peer, added)
  BY DEF Alike, Fields
<1> HIDE DEF added
<1>3. /\ Alike(added, DispatchReliable(added, c))
      /\ Alike(added, DispatchUnreliable(added, c))
  BY <1>2, DispatchReliableAlike, DispatchUnreliableAlike DEF Alike
<1>4. /\ Alike(h.peers[p], added)
      /\ Alike(h.peers[p], DispatchReliable(added, c))
      /\ Alike(h.peers[p], DispatchUnreliable(added, c))
  BY <1>2, <1>3, AlikeOn
<1> QED
  BY <1>1, <1>4 DEF DataTo, g

LEMMA AssembleData ==
  ASSUME NEW h, NEW p, DOMAIN h.peers[p] = Fields, NEW list, NEW command, NEW u
  PROVE  DataTo(h, Assemble(h, p, list, command, u).host, p)
<1> DEFINE peer == h.peers[p]
           blank == QueueIncomingCommand(peer, command, u,
                      BlankPacket(command.body.totalLength), command.body.fragmentCount)
           here == [peer |-> peer, result |-> "queued"]
           there == IF PacketAt(peer.channels[command.channelID][list],
                                command.reliableSequenceNumber, u) # 0
                    THEN here ELSE blank
<1>1. Alike(peer, peer) /\ Alike(peer, blank.peer)
  BY QueueIncomingAlike DEF Alike
<1>2. Assemble(h, p, list, command, u) = AddPieceTo(h, p, list, command, u, there)
  BY DEF Assemble
<1> HIDE DEF blank
<1>3. Alike(peer, there.peer)
  BY <1>1
<1> HIDE DEF there
<1>4. DataTo(h, AddPiece(h, p, list, command, u, there.peer).host, p)
  BY <1>3, AddPieceData
<1>5. DataTo(h, Failed(h).host, p)
  BY DEF DataTo, Failed
<1> QED
  BY <1>2, <1>4, <1>5 DEF AddPieceTo

LEMMA HandleDataTo ==
  ASSUME NEW h, NEW p, DOMAIN h.peers[p] = Fields, NEW command
  PROVE  DataTo(h, HandleData(h, p, command).host, p)
<1> DEFINE peer == h.peers[p]
<1>1. DataTo(h, Failed(h).host, p) /\ DataTo(h, Handled(h).host, p)
  BY DEF DataTo, Failed, Handled
<1>2. DataTo(h, HandleSendReliable(h, p, command).host, p)
  BY QueueIncomingAlike DEF DataTo, HandleSendReliable, Queued
<1>3. DataTo(h, HandleSendUnreliable(h, p, command).host, p)
  BY QueueIncomingAlike DEF DataTo, HandleSendUnreliable, Queued
<1>4. DataTo(h, HandleSendUnsequenced(h, p, command).host, p)
  <2> DEFINE group == command.body.unsequencedGroup
             index == group % UnseqWindowSize
             current == group - index = peer.incomingUnsequencedGroup
             window == IF current THEN peer.unsequencedWindow ELSE {}
             moved == [peer EXCEPT !.incomingUnsequencedGroup = group - index,
                                   !.unsequencedWindow = window]
             queued == QueueIncomingCommand(moved, command, 0, command.body.data, 0)
             last == [queued.peer EXCEPT !.unsequencedWindow = @ \cup {index}]
  <2>1. HandleSendUnsequenced(h, p, command).host \in {h, With(h, p, last)}
    BY DEF HandleSendUnsequenced, Handled
  <2>2. Alike(peer, moved)
    BY DEF Alike, Fields
  <2> HIDE DEF moved
  <2>3. Alike(moved, queued.peer)
    BY <2>2, QueueIncomingAlike DEF Alike
  <2> HIDE DEF queued
  <2>4. Alike(queued.peer, last)
    BY <2>3 DEF Alike, Fields
  <2> HIDE DEF last
  <2>5. Alike(peer, last)
    BY <2>2, <2>3, <2>4, AlikeOn
  <2> QED
    BY <2>1, <2>5 DEF DataTo
<1>5. DataTo(h, HandleSendFragment(h, p, command).host, p)
  BY <1>1, AssembleData DEF HandleSendFragment
<1>6. DataTo(h, HandleSendUnreliableFragment(h, p, command).host, p)
  BY <1>1, AssembleData DEF HandleSendUnreliableFragment
<1> QED
  BY <1>1, <1>2, <1>3, <1>4, <1>5, <1>6 DEF HandleData

\* What a handler may make of a host.
Handles(h, g, p, n, serving) == Call(h, g, n, serving) /\ Muted(g, p)

LEMMA HandleDataCall ==
  ASSUME NEW n, NEW serving, NEW h, HostOK(h, n, serving), NEW p \in 0 .. n - 1,
         Muted(h, p), NEW command
  PROVE  Handles(h, HandleData(h, p, command).host, p, n, serving)
<1> DEFINE g == HandleData(h, p, command).host
<1>1. Proper(h.peers[p], serving)
  BY DEF HostOK
<1>2. DataTo(h, g, p)
  BY <1>1, HandleDataTo DEF Proper
<1> HIDE DEF g
<1>3. CASE g = h
  BY <1>3, CallNone DEF Handles, g
<1>4. CASE \E q : Alike(h.peers[p], q) /\ g = With(h, p, q)
  <2>1. PICK q : Alike(h.peers[p], q) /\ g = With(h, p, q)
    BY <1>4
  <2>2. Proper(q, serving) /\ Lives(h.peers[p], q)
    BY <1>1, <2>1, AlikeIsProper
  <2>3. Call(h, g, n, serving) /\ g.peers[p] = q /\ g.event = h.event
    BY <2>1, <2>2, WithCall, WithOne
  <2>4. Mute(h.peers[p]) => Mute(q)
    BY <2>1 DEF Mute, Alike
  <2> QED
    BY <2>3, <2>4 DEF Handles, Muted, g
<1> QED
  BY <1>2, <1>3, <1>4 DEF DataTo, g

\* enet_protocol_notify_connect.
LEMMA NotifyConnectCall ==
  ASSUME NEW n, NEW serving, NEW h, HostOK(h, n, serving), NEW p \in 0 .. n - 1,
         h.event = NoEvent, h.peers[p].state \notin Public
  PROVE  Handles(h, NotifyConnect(h, p, TRUE), p, n, serving)
<1> DEFINE peer == h.peers[p]
           q == [peer EXCEPT !.state = "CONNECTED"]
           e == Event("CONNECT", p, peer.eventData)
           next == With(h, p, q)
           g == [next EXCEPT !.event = e]
<1>1. NotifyConnect(h, p, TRUE) = g
  BY DEF NotifyConnect
<1>2. Proper(peer, serving)
  BY DEF HostOK
<1>3. /\ DOMAIN q = Fields /\ q.state = "CONNECTED" /\ q.connectID = peer.connectID
      /\ q.address = peer.address /\ q.acknowledgements = peer.acknowledgements
      /\ q.sentReliableCommands = peer.sentReliableCommands
      /\ q.outgoingReliableCommands = peer.outgoingReliableCommands
      /\ q.outgoingUnreliableCommands = peer.outgoingUnreliableCommands
  BY <1>2 DEF Proper, Fields
<1>4. "CONNECTED" \in States \ {"DISCONNECTED"} /\ "CONNECTED" \in Public
  BY DEF States, Public
<1>5. e.type = "CONNECT" /\ e.peer = p
  BY DEF Event
<1> HIDE DEF q, e
<1>6. Proper(q, serving)
  BY <1>2, <1>3, <1>4, StateProper
<1>7. OnePeer(h, next, p, n) /\ next.peers[p] = q
  BY WithOne
<1> HIDE DEF next
<1>8. OnePeer(h, g, p, n) /\ g.event = e /\ g.peers = next.peers
  BY <1>7, EventOne
<1> HIDE DEF g, peer
<1>9. Call(h, g, n, serving)
  BY <1>3, <1>4, <1>5, <1>6, <1>7, <1>8, ToldCall
<1>10. Mute(g.peers[p])
  BY <1>3, <1>7, <1>8 DEF Mute
<1> QED
  BY <1>1, <1>9, <1>10 DEF Handles, Muted

LEMMA HandlesOn ==
  ASSUME NEW n, NEW serving, NEW p, NEW h, NEW g, NEW k,
         Call(h, g, n, serving), Handles(g, k, p, n, serving)
  PROVE  Handles(h, k, p, n, serving)
BY CallOn DEF Handles

\* enet_protocol_handle_acknowledge.
LEMMA HandleAcknowledgeCall ==
  ASSUME NEW n, NEW serving, NEW h, HostOK(h, n, serving), NEW p \in 0 .. n - 1,
         Muted(h, p), NEW command
  PROVE  Handles(h, HandleAcknowledge(h, p, command, TRUE).host, p, n, serving)
<1> DEFINE peer == h.peers[p]
           removed == RemoveSentReliable(peer, command.body.received, command.channelID)
           host == With(h, p, removed.peer)
           g == HandleAcknowledge(h, p, command, TRUE).host
<1>1. Proper(peer, serving)
  BY DEF HostOK
<1>2. /\ Proper(removed.peer, serving) /\ Lives(peer, removed.peer)
      /\ removed.peer.state = peer.state
      /\ Mute(peer) => Mute(removed.peer)
      /\ Mute(peer) /\ peer.state = "ACKNOWLEDGING_CONNECT" => removed.type = "NONE"
  BY <1>1, RemoveProper
<1>3. g = StruckOff(host, p, removed, TRUE).host
  BY DEF HandleAcknowledge, Settled
<1> HIDE DEF removed, g
<1>4. /\ Call(h, host, n, serving) /\ HostOK(host, n, serving)
      /\ host.peers[p] = removed.peer /\ host.event = h.event
  BY <1>2, WithCall, WithOne
<1> HIDE DEF host
<1>5. Muted(host, p)
  BY <1>2, <1>4 DEF Muted
<1>6. Handles(host, host, p, n, serving)
  BY <1>4, <1>5, CallNone DEF Handles
<1>7. CASE g = host
  BY <1>4, <1>6, <1>7, HandlesOn DEF g
<1>8. CASE peer.state = "ACKNOWLEDGING_CONNECT" /\ g # host
  <2>1. removed.type = "VERIFY_CONNECT" /\ g = NotifyConnect(host, p, TRUE)
    BY <1>2, <1>3, <1>4, <1>8 DEF StruckOff, Handled, Failed
  <2>2. h.event = NoEvent
    BY <1>2, <1>8, <2>1 DEF Muted
  <2>3. host.peers[p].state \notin Public
    BY <1>2, <1>4, <1>8 DEF Public
  <2>4. Handles(host, g, p, n, serving)
    BY <1>4, <2>1, <2>2, <2>3, NotifyConnectCall
  <2> QED
    BY <1>4, <2>4, HandlesOn DEF g
<1>9. CASE peer.state = "DISCONNECTING" /\ g # host
  <2>1. g = NotifyDisconnect(host, p, TRUE)
    BY <1>2, <1>3, <1>4, <1>9 DEF StruckOff, Handled, Failed
  <2>2. h.event = NoEvent
    BY <1>9 DEF Muted, Mute
  <2>3. Call(host, g, n, serving) /\ g.peers[p].state \in {"DISCONNECTED", "ZOMBIE"}
    BY <1>4, <2>1, <2>2, NotifyDisconnectCall
  <2>4. Handles(host, g, p, n, serving)
    BY <2>3 DEF Handles, Muted, Mute
  <2> QED
    BY <1>4, <2>4, HandlesOn DEF g
<1>10. peer.state \notin {"ACKNOWLEDGING_CONNECT", "DISCONNECTING"} => g = host
  <2>1. host.peers[p].state # "DISCONNECT_LATER"
    BY <1>1, <1>2, <1>4 DEF Proper, States
  <2> QED
    BY <1>2, <1>3, <1>4, <2>1 DEF StruckOff, Handled, Failed
<1> QED
  BY <1>7, <1>8, <1>9, <1>10 DEF g

\* enet_protocol_handle_verify_connect.
LEMMA HandleVerifyConnectCall ==
  ASSUME NEW n, NEW serving, NEW h, HostOK(h, n, serving), NEW p \in 0 .. n - 1,
         Muted(h, p), NEW body
  PROVE  Handles(h, HandleVerifyConnect(h, p, body, TRUE).host, p, n, serving)
<1> DEFINE peer == h.peers[p]
           later == [peer EXCEPT !.eventData = 0]
           host == With(h, p, later)
           zombie == DispatchState(host, p, "ZOMBIE")
           lesser == RemoveSentReliable(peer, 1, PeerChannel).peer
           q == Verified(lesser, body)
           verified == With(h, p, q)
           g == HandleVerifyConnect(h, p, body, TRUE).host
<1>1. Proper(peer, serving)
  BY DEF HostOK
<1>2. \/ g = h
      \/ peer.state = "CONNECTING" /\ g = zombie
      \/ peer.state = "CONNECTING" /\ g = NotifyConnect(verified, p, TRUE)
  BY DEF HandleVerifyConnect, Handled, Failed
<1> HIDE DEF g
<1>3. CASE g = h
  BY <1>3, CallNone DEF Handles, g
<1>4. CASE peer.state = "CONNECTING" /\ g = zombie
  <2>1. Alike(peer, later)
    BY <1>1 DEF Alike, Proper, Fields
  <2>2. Proper(later, serving) /\ Lives(peer, later) /\ later.state = peer.state
    BY <1>1, <2>1, AlikeIsProper DEF Alike
  <2> HIDE DEF later
  <2>3. Call(h, host, n, serving) /\ HostOK(host, n, serving) /\ host.peers[p] = later
    BY <2>2, WithCall, WithOne
  <2> HIDE DEF host
  <2>4. Silently(host.peers[p].state, "ZOMBIE") /\ "ZOMBIE" \in States \ {"DISCONNECTED"}
    BY <1>4, <2>2, <2>3 DEF Silently, Early, States
  <2>5. Call(host, zombie, n, serving) /\ zombie.peers[p].state = "ZOMBIE"
    BY <2>3, <2>4, DispatchStateCall, DispatchStateOne
  <2>6. Handles(host, g, p, n, serving)
    BY <1>4, <2>5 DEF Handles, Muted, Mute
  <2> QED
    BY <2>3, <2>6, HandlesOn DEF g
<1>5. CASE peer.state = "CONNECTING" /\ g = NotifyConnect(verified, p, TRUE)
  <2>1. Proper(lesser, serving) /\ Lives(peer, lesser) /\ lesser.state = peer.state
    BY <1>1, RemoveProper
  <2> HIDE DEF lesser
  <2>2. Alike(lesser, q)
    BY <2>1 DEF Alike, Verified, Proper, Fields
  <2>3. Proper(q, serving) /\ Lives(lesser, q) /\ q.state = peer.state
    BY <2>1, <2>2, AlikeIsProper DEF Alike
  <2> HIDE DEF q
  <2>4. Lives(peer, q)
    BY <2>1, <2>3, LivesOn
  <2>5. /\ Call(h, verified, n, serving) /\ HostOK(verified, n, serving)
        /\ verified.peers[p] = q /\ verified.event = h.event
    BY <2>3, <2>4, WithCall, WithOne
  <2> HIDE DEF verified
  <2>6. verified.event = NoEvent /\ verified.peers[p].state \notin Public
    BY <1>5, <2>3, <2>5 DEF Muted, Mute, Public
  <2>7. Handles(verified, g, p, n, serving)
    BY <1>5, <2>5, <2>6, NotifyConnectCall
  <2> QED
    BY <2>5, <2>7, HandlesOn DEF g
<1> QED
  BY <1>2, <1>3, <1>4, <1>5

\* enet_protocol_handle_disconnect.
LEMMA HandleDisconnectCall ==
  ASSUME NEW n, NEW serving, NEW h, HostOK(h, n, serving), NEW p \in 0 .. n - 1,
         Muted(h, p), NEW command
  PROVE  Handles(h, HandleDisconnect(h, p, command), p, n, serving)
<1> DEFINE peer == h.peers[p]
           host == With(h, p, ResetQueues(peer))
           left == Left(host, p, peer.state, command)
           why == [left EXCEPT !.peers[p].eventData = command.body.data]
           g == HandleDisconnect(h, p, command)
           Quiet(k) == /\ Call(host, k, n, serving) /\ Mute(k.peers[p])
           leaving == [host EXCEPT !.peers[p].state = "ACKNOWLEDGING_DISCONNECT"]
<1>1. Proper(peer, serving)
  BY DEF HostOK
<1>2. CASE peer.state \in {"ZOMBIE", "ACKNOWLEDGING_DISCONNECT"}
  BY <1>2, CallNone DEF Handles, HandleDisconnect
<1>3. CASE peer.state \notin {"ZOMBIE", "ACKNOWLEDGING_DISCONNECT"}
  <2>1. g \in {left, why}
    BY <1>3 DEF HandleDisconnect, TellingWhy
  <2>2. /\ Proper(ResetQueues(peer), serving) /\ Lives(peer, ResetQueues(peer))
        /\ ResetQueues(peer).state = peer.state
    BY <1>1, ResetQueuesProper
  <2>3. /\ Call(h, host, n, serving) /\ HostOK(host, n, serving)
        /\ host.peers[p] = ResetQueues(peer)
    BY <2>2, WithCall, WithOne
  <2> DEFINE old == host.peers[p]
  <2>4. old.state = peer.state /\ Proper(old, serving)
    BY <2>2, <2>3
  <2>5. \/ left = DispatchState(host, p, "ZOMBIE") /\ peer.state \in Public \cup Early
        \/ left = leaving /\ peer.state = "CONNECTED"
        \/ left = With(host, p, Reset(old)) /\ peer.state \notin Public
    BY <1>1, <1>3 DEF Left, Forgotten, Proper, States, Public, Early
  <2> HIDE DEF host, left, why, g
  <2>6. Quiet(left)
    <3>1. CASE left = DispatchState(host, p, "ZOMBIE") /\ peer.state \in Public \cup Early
      <4>1. Silently(old.state, "ZOMBIE") /\ "ZOMBIE" \in States \ {"DISCONNECTED"}
        BY <2>4, <3>1 DEF Silently, Public, Early, States
      <4>2. Call(host, left, n, serving) /\ left.peers[p].state = "ZOMBIE"
        BY <2>3, <3>1, <4>1, DispatchStateCall, DispatchStateOne
      <4> QED
        BY <4>2 DEF Mute
    <3>2. CASE left = leaving /\ peer.state = "CONNECTED"
      <4> DEFINE q == [old EXCEPT !.state = "ACKNOWLEDGING_DISCONNECT"]
      <4>1. /\ OnePeer(host, left, p, n) /\ left.event = host.event /\ left.peers[p] = q
        BY <2>3, <3>2 DEF OnePeer, HostOK, HostFields
      <4>2. /\ DOMAIN q = Fields /\ q.state = "ACKNOWLEDGING_DISCONNECT"
            /\ q.connectID = old.connectID
            /\ q.address = old.address /\ q.acknowledgements = old.acknowledgements
            /\ q.sentReliableCommands = old.sentReliableCommands
            /\ q.outgoingReliableCommands = old.outgoingReliableCommands
            /\ q.outgoingUnreliableCommands = old.outgoingUnreliableCommands
        BY <2>4 DEF Proper, Fields
      <4>3. /\ "ACKNOWLEDGING_DISCONNECT" \in States \ {"DISCONNECTED"}
            /\ Silently(old.state, "ACKNOWLEDGING_DISCONNECT")
        BY <2>4, <3>2 DEF States, Silently, Early, Public
      <4> HIDE DEF q, old
      <4>4. Proper(q, serving) /\ Lives(old, q)
        BY <2>4, <4>2, <4>3, StateProper
      <4>5. Call(host, left, n, serving)
        BY <2>3, <4>1, <4>4, QuietCall DEF old
      <4> QED
        BY <4>1, <4>2, <4>5 DEF Mute
    <3>3. CASE left = With(host, p, Reset(old)) /\ peer.state \notin Public
      <4>1. /\ Proper(Reset(old), serving) /\ Reset(old).state = "DISCONNECTED"
            /\ Lives(old, Reset(old))
        BY <2>4, <3>3, ResetProper
      <4>2. Call(host, left, n, serving) /\ left.peers[p] = Reset(old)
        BY <2>3, <3>3, <4>1, WithCall, WithOne
      <4> QED
        BY <4>1, <4>2 DEF Mute
    <3> QED
      BY <2>5, <3>1, <3>2, <3>3
  <2>7. Quiet(why)
    <3> DEFINE q == [left.peers[p] EXCEPT !.eventData = command.body.data]
    <3>1. HostOK(left, n, serving) /\ Proper(left.peers[p], serving)
      BY <2>6 DEF Call, HostOK
    <3>2. OnePeer(left, why, p, n) /\ why.event = left.event /\ why.peers[p] = q
      BY <3>1 DEF why, OnePeer, HostOK, HostFields
    <3>3. Alike(left.peers[p], q)
      BY <3>1 DEF Alike, Proper, Fields
    <3> HIDE DEF q
    <3>4. Proper(q, serving) /\ Lives(left.peers[p], q)
      BY <3>1, <3>3, AlikeIsProper
    <3>5. Call(left, why, n, serving)
      BY <3>1, <3>2, <3>4, QuietCall
    <3>6. Mute(q)
      BY <2>6, <3>3 DEF Mute, Alike
    <3> QED
      BY <2>6, <3>2, <3>5, <3>6, CallOn
  <2>8. Quiet(g)
    BY <2>1, <2>6, <2>7
  <2>9. Handles(host, g, p, n, serving)
    BY <2>8 DEF Handles, Muted
  <2> QED
    BY <2>3, <2>9, HandlesOn DEF g
<1> QED
  BY <1>2, <1>3

\* enet_protocol_handle_connect: the new peer asks to be acknowledged, and cannot
\* be before anything was sent to it.
LEMMA HandleConnectCall ==
  ASSUME NEW n \in Nat, NEW serving, NEW h, HostOK(h, n, serving),
         NEW from, serving => from # Server, NEW body
  PROVE  LET done == HandleConnect(h, from, body)
         IN \/ done = [host |-> h, peer |-> NoPeer, failed |-> TRUE]
            \/ /\ DOMAIN done = {"host", "peer", "failed"}
               /\ done.peer \in 0 .. n - 1
               /\ Handles(h, done.host, done.peer, n, serving)
<1> DEFINE p == FirstFree(h)
           old == h.peers[p]
           channelCount == IF body.channelCount > h.channelLimit
                           THEN h.channelLimit ELSE body.channelCount
           incoming == NextSession(body.incomingSessionID, old.outgoingSessionID)
           outgoing == NextSession(body.outgoingSessionID, old.incomingSessionID)
           peer == [old EXCEPT
                      !.channels = [c \in 0 .. channelCount - 1 |-> NewChannel],
                      !.state = "ACKNOWLEDGING_CONNECT", !.connectID = body.connectID,
                      !.address = from, !.outgoingPeerID = body.outgoingPeerID,
                      !.eventData = body.data,
                      !.outgoingSessionID = incoming, !.incomingSessionID = outgoing]
           verify == Command("VERIFY_CONNECT", "ack", PeerChannel,
                       [outgoingPeerID |-> p, incomingSessionID |-> incoming,
                        outgoingSessionID |-> outgoing, channelCount |-> channelCount,
                        connectID |-> body.connectID])
           q == QueueOutgoingCommand(peer, verify)
           done == HandleConnect(h, from, body)
           g == With(h, p, q)
<1>1. \/ done = [host |-> h, peer |-> NoPeer, failed |-> TRUE]
      \/ done = [host |-> g, peer |-> p, failed |-> FALSE] /\ FreeSlots(h) # {}
  BY DEF HandleConnect
<1> HIDE DEF done
<1>2. CASE done = [host |-> g, peer |-> p, failed |-> FALSE] /\ FreeSlots(h) # {}
  <2>1. FreeSlots(h) \in SUBSET Nat /\ FreeSlots(h) \in SUBSET (0 .. n - 1)
    BY DEF FreeSlots, Slots, HostOK
  <2>2. p \in FreeSlots(h)
    <3>1. \E m \in FreeSlots(h) : \A k \in FreeSlots(h) : m <= k
      BY <1>2, <2>1, Smallest
    <3> QED
      BY <3>1 DEF FirstFree
  <2> HIDE DEF p
  <2>3. p \in 0 .. n - 1 /\ old.state = "DISCONNECTED" /\ Proper(old, serving)
    BY <2>1, <2>2 DEF FreeSlots, HostOK
  <2> HIDE DEF old, channelCount
  <2>4. /\ DOMAIN peer = Fields /\ peer.state = "ACKNOWLEDGING_CONNECT"
        /\ peer.address = from /\ peer.acknowledgements = old.acknowledgements
        /\ peer.sentReliableCommands = old.sentReliableCommands
        /\ peer.outgoingReliableCommands = old.outgoingReliableCommands
        /\ peer.outgoingUnreliableCommands = old.outgoingUnreliableCommands
    BY <2>3 DEF Proper, Fields
  <2> HIDE DEF peer, incoming, outgoing
  <2>5. Proper(peer, serving) /\ peer.state # "DISCONNECTED"
    BY <2>3, <2>4 DEF Proper, States
  <2>6. DOMAIN verify = Form /\ ~Rude(verify) /\ verify.flag = "ack"
    BY CommandForm DEF Rude
  <2> HIDE DEF verify
  <2>7. /\ Proper(q, serving) /\ q.state = peer.state
        /\ q.sentReliableCommands = peer.sentReliableCommands
        /\ \E o : /\ q.outgoingReliableCommands = Append(peer.outgoingReliableCommands, o)
                  /\ o.sendAttempts = 0
    BY <2>5, <2>6, QueueProper
  <2> HIDE DEF q
  <2>8. Lives(old, q)
    BY <2>3, <2>4, <2>7 DEF Lives, Early, Public
  <2>9. Mute(q)
    <3>1. old.outgoingReliableCommands = <<>> /\ old.sentReliableCommands = <<>>
      BY <2>3 DEF Proper
    <3>2. PICK o : /\ q.outgoingReliableCommands = Append(<<>>, o)
                   /\ o.sendAttempts = 0
      BY <2>4, <2>7, <3>1
    <3>3. \A k \in DOMAIN Append(<<>>, o) : Append(<<>>, o)[k] = o
      OBVIOUS
    <3> QED
      BY <2>4, <2>7, <3>1, <3>2, <3>3 DEF Mute
  <2>10. Call(h, g, n, serving) /\ g.peers[p] = q
    BY <2>3, <2>7, <2>8, WithCall, WithOne DEF old
  <2> HIDE DEF g
  <2>11. Handles(h, g, p, n, serving)
    BY <2>9, <2>10 DEF Handles, Muted
  <2> QED
    BY <1>2, <2>3, <2>11 DEF done
<1> QED
  BY <1>1, <1>2 DEF done

-----------------------------------------------------------------------------
(* A datagram *)

\* The handler of any command.
LEMMA HandleCommandCall ==
  ASSUME NEW n \in Nat, NEW serving, NEW h, HostOK(h, n, serving),
         NEW from, serving => from # Server, NEW command,
         NEW p, p \in 0 .. n - 1 \/ command.type = "CONNECT",
         p \in 0 .. n - 1 => Muted(h, p)
  PROVE  LET done == HandleCommand(h, p, from, command, TRUE)
         IN /\ Call(h, done.host, n, serving)
            /\ ~done.failed => done.peer \in 0 .. n - 1 /\ Muted(done.host, done.peer)
<1> DEFINE done == HandleCommand(h, p, from, command, TRUE)
           Of(d) == [host |-> d.host, peer |-> p, failed |-> d.failed]
           Good(d) == /\ Call(h, d.host, n, serving)
                      /\ ~d.failed => d.peer \in 0 .. n - 1 /\ Muted(d.host, d.peer)
<1>1. ASSUME NEW d, p \in 0 .. n - 1, Handles(h, d.host, p, n, serving) PROVE Good(Of(d))
  BY <1>1 DEF Handles
<1>2. CASE command.type = "CONNECT"
  <2> DEFINE new == HandleConnect(h, from, command.body)
  <2>1. done = new
    BY <1>2 DEF HandleCommand
  <2>2. \/ new = [host |-> h, peer |-> NoPeer, failed |-> TRUE]
        \/ /\ DOMAIN new = {"host", "peer", "failed"}
           /\ new.peer \in 0 .. n - 1
           /\ Handles(h, new.host, new.peer, n, serving)
    BY HandleConnectCall
  <2> HIDE DEF new, done
  <2>3. Good(new)
    BY <2>2, CallNone DEF Handles
  <2> QED
    BY <2>1, <2>3 DEF done
<1>3. CASE command.type # "CONNECT"
  <2> DEFINE acknowledged == HandleAcknowledge(h, p, command, TRUE)
             verified == HandleVerifyConnect(h, p, command.body, TRUE)
             left == Handled(HandleDisconnect(h, p, command))
             none == Handled(h)
             given == HandleData(h, p, command)
  <2>1. p \in 0 .. n - 1 /\ Muted(h, p)
    BY <1>3
  <2>2. done \in {Of(acknowledged), Of(verified), Of(left), Of(none), Of(given)}
    BY <1>3 DEF HandleCommand
  <2> HIDE DEF done
  <2>3. /\ Handles(h, acknowledged.host, p, n, serving)
        /\ Handles(h, verified.host, p, n, serving)
        /\ Handles(h, given.host, p, n, serving)
    BY <2>1, HandleAcknowledgeCall, HandleVerifyConnectCall, HandleDataCall
  <2>4. Handles(h, left.host, p, n, serving)
    BY <2>1, HandleDisconnectCall DEF Handled
  <2>5. Handles(h, none.host, p, n, serving)
    BY <2>1, CallNone DEF Handles, Handled
  <2> HIDE DEF acknowledged, verified, left, none, given
  <2>6. /\ Good(Of(acknowledged)) /\ Good(Of(verified)) /\ Good(Of(left))
        /\ Good(Of(none)) /\ Good(Of(given))
    BY <1>1, <2>1, <2>3, <2>4, <2>5
  <2> HIDE DEF Good, Of
  <2>7. Good(done)
    BY <2>2, <2>6
  <2> QED
    BY <2>7 DEF Good, done
<1> QED
  BY <1>2, <1>3

\* The acknowledgement that a command asks for.
LEMMA AcknowledgedCall ==
  ASSUME NEW n, NEW serving, NEW h, HostOK(h, n, serving), NEW p \in 0 .. n - 1,
         Muted(h, p), NEW command, serving => ~Rude(command)
  PROVE  Handles(h, Acknowledged(h, p, command), p, n, serving)
<1> DEFINE q == QueueAcknowledgement(h.peers[p], command)
           g == Acknowledged(h, p, command)
<1>1. CASE g = h
  BY <1>1, CallNone DEF Handles
<1>2. CASE g # h
  <2>1. g = With(h, p, q) /\ command.flag = "ack"
    BY <1>2 DEF Acknowledged
  <2>2. serving => command.type # "DISCONNECT"
    BY <2>1 DEF Rude
  <2>3. Proper(h.peers[p], serving)
    BY DEF HostOK
  <2> HIDE DEF g
  <2>4. /\ Proper(q, serving) /\ Lives(h.peers[p], q) /\ q.state = h.peers[p].state
        /\ q.outgoingReliableCommands = h.peers[p].outgoingReliableCommands
        /\ q.sentReliableCommands = h.peers[p].sentReliableCommands
    BY <2>2, <2>3, AcknowledgeProper
  <2> HIDE DEF q
  <2>5. Call(h, g, n, serving) /\ g.peers[p] = q /\ g.event = h.event
    BY <2>1, <2>4, WithCall, WithOne
  <2>6. Mute(h.peers[p]) => Mute(q)
    BY <2>4 DEF Mute
  <2> QED
    BY <2>5, <2>6 DEF Handles, Muted, g
<1> QED
  BY <1>1, <1>2

\* What is known on the way through the commands.
Hearing(h, at, n, serving) ==
  /\ DOMAIN at = {"host", "over", "peer"}
  /\ Call(h, at.host, n, serving)
  /\ ~at.over => /\ at.peer \in (0 .. n - 1) \cup {NoPeer}
                 /\ at.peer \in 0 .. n - 1 => Muted(at.host, at.peer)

LEMMA HandleNextOn ==
  ASSUME NEW n \in Nat, NEW serving, NEW h, NEW at, Hearing(h, at, n, serving),
         NEW from, serving => from # Server, NEW command, serving => ~Rude(command)
  PROVE  Hearing(h, HandleNext(at, from, command, TRUE), n, serving)
<1> DEFINE over == at.over \/ (at.peer = NoPeer /\ command.type # "CONNECT")
           done == HandleCommand(at.host, at.peer, from, command, TRUE)
           next == HandleNext(at, from, command, TRUE)
<1>1. CASE over
  <2>1. next = [at EXCEPT !.over = TRUE]
    BY <1>1 DEF HandleNext
  <2> QED
    BY <2>1 DEF Hearing
<1>2. CASE ~over
  <2>1. next = Answered(done, command)
    BY <1>2 DEF HandleNext
  <2>2. HostOK(at.host, n, serving)
    BY DEF Hearing, Call
  <2>3. /\ at.peer \in 0 .. n - 1 \/ command.type = "CONNECT"
        /\ at.peer \in 0 .. n - 1 => Muted(at.host, at.peer)
    BY <1>2 DEF Hearing
  <2>4. /\ Call(at.host, done.host, n, serving)
        /\ ~done.failed => done.peer \in 0 .. n - 1 /\ Muted(done.host, done.peer)
    BY <2>2, <2>3, HandleCommandCall
  <2> HIDE DEF done, over
  <2>5. Call(h, done.host, n, serving)
    BY <2>4, CallOn DEF Hearing
  <2>a. /\ DOMAIN Answered(done, command) = {"host", "over", "peer"}
        /\ Answered(done, command).peer = done.peer
        /\ Answered(done, command).over = done.failed
        /\ done.failed => Answered(done, command).host = done.host
        /\ ~done.failed => Answered(done, command).host
                            = Acknowledged(done.host, done.peer, command)
    BY DEF Answered
  <2> HIDE DEF next
  <2>6. CASE done.failed
    <3>1. Hearing(h, next, n, serving)
      BY <2>1, <2>5, <2>6, <2>a DEF Hearing
    <3> QED
      BY <3>1 DEF next
  <2>7. CASE ~done.failed
    <3> DEFINE g == Acknowledged(done.host, done.peer, command)
    <3>1. done.peer \in 0 .. n - 1 /\ Muted(done.host, done.peer)
      BY <2>4, <2>7
    <3>2. Handles(done.host, g, done.peer, n, serving)
      BY <2>5, <3>1, AcknowledgedCall DEF Call
    <3> HIDE DEF g
    <3>3. Call(h, g, n, serving) /\ Muted(g, done.peer)
      BY <2>5, <3>2, CallOn DEF Handles
    <3>4. DOMAIN next = {"host", "over", "peer"} /\ next.host = g /\ next.peer = done.peer
      BY <2>1, <2>7, <2>a DEF g
    <3>5. Hearing(h, next, n, serving)
      BY <3>1, <3>3, <3>4 DEF Hearing
    <3> QED
      BY <3>5 DEF next
  <2> QED
    BY <2>6, <2>7
<1> QED
  BY <1>1, <1>2

\* Where the loop of enet_protocol_handle_incoming_commands begins.
HearStart(h, datagram) ==
  [host |-> h, over |-> FALSE,
   peer |-> IF datagram.peerID = MaximumPeerID THEN NoPeer ELSE datagram.peerID]

\* The loop over the commands.
IsListening(f, h, datagram, wants, l) ==
  f = [k \in 0 .. l |->
         IF k = 0 THEN HearStart(h, datagram)
         ELSE HandleNext(f[k - 1], datagram.from, datagram.commands[k], wants)]

LEMMA ListeningExists ==
  ASSUME NEW h, NEW datagram, NEW wants, NEW l \in Nat
  PROVE  \E f : IsListening(f, h, datagram, wants, l)
<1> DEFINE start == HearStart(h, datagram)
           S == {k \in Nat : \E f : IsListening(f, h, datagram, wants, k)}
<1>1. 0 \in S
  <2>1. IsListening([k \in 0 .. 0 |-> start], h, datagram, wants, 0)
    BY DEF IsListening
  <2> QED
    BY <2>1
<1> HIDE DEF start
<1>2. ASSUME NEW k \in S PROVE k + 1 \in S
  <2>1. PICK f : IsListening(f, h, datagram, wants, k)
    OBVIOUS
  <2> DEFINE last == HandleNext(f[k], datagram.from, datagram.commands[k + 1], wants)
             g == [i \in 0 .. k + 1 |-> IF i = k + 1 THEN last ELSE f[i]]
  <2>2. (\A i \in 0 .. k : g[i] = f[i]) /\ g[k + 1] = last
    OBVIOUS
  <2> HIDE DEF last
  <2>3. g = [i \in 0 .. k + 1 |-> g[i]]
    OBVIOUS
  <2> HIDE DEF g
  <2>4. ASSUME NEW i \in 0 .. k + 1
        PROVE  g[i] = IF i = 0 THEN start
                      ELSE HandleNext(g[i - 1], datagram.from, datagram.commands[i], wants)
    <3>1. CASE i = k + 1
      <4>1. i - 1 = k /\ i # 0
        BY <3>1
      <4>2. g[i - 1] = f[k]
        BY <2>2, <4>1
      <4> QED
        BY <2>2, <3>1, <4>1, <4>2 DEF last
    <3>2. CASE i = 0
      BY <2>1, <2>2, <3>2 DEF IsListening, start
    <3>3. CASE i \in 1 .. k
      <4>1. i - 1 \in 0 .. k /\ i \in 0 .. k /\ i # 0
        BY <3>3
      <4>2. g[i - 1] = f[i - 1] /\ g[i] = f[i]
        BY <2>2, <4>1
      <4>3. f[i] = HandleNext(f[i - 1], datagram.from, datagram.commands[i], wants)
        BY <2>1, <4>1 DEF IsListening
      <4> QED
        BY <4>1, <4>2, <4>3
    <3> QED
      BY <3>1, <3>2, <3>3
  <2>5. IsListening(g, h, datagram, wants, k + 1)
    BY <2>3, <2>4 DEF IsListening, start
  <2> QED
    BY <2>5
<1> HIDE DEF S
<1>3. 0 .. l \subseteq S
  BY <1>1, <1>2, Upwards DEF S
<1> QED
  BY <1>3 DEF S

\* It goes by rounds.
ListeningRounds(f, h, datagram, wants, l) ==
  /\ f[0] = HearStart(h, datagram)
  /\ \A k \in 0 .. l : k < l => f[k + 1] = HandleNext(f[k], datagram.from, datagram.commands[k + 1], wants)

LEMMA ListeningByRounds ==
  ASSUME NEW h, NEW datagram, NEW wants, NEW l \in Nat, NEW f, IsListening(f, h, datagram, wants, l)
  PROVE  ListeningRounds(f, h, datagram, wants, l)
<1>1. 0 \in 0 .. l
  OBVIOUS
<1>2. \A k \in 0 .. l : k < l => /\ k + 1 \in 0 .. l /\ k + 1 # 0 /\ (k + 1) - 1 = k
  OBVIOUS
<1> QED
  BY <1>1, <1>2 DEF IsListening, ListeningRounds

\* enet_protocol_handle_incoming_commands.
LEMMA HandleIncomingCall ==
  ASSUME NEW n \in Nat, NEW serving, NEW h, HostOK(h, n, serving), h.event = NoEvent,
         NEW datagram, Fine(datagram), serving => datagram.to = Server
  PROVE  Call(h, HandleIncoming(h, datagram, TRUE), n, serving)
<1> DEFINE l == Len(datagram.commands)
           f == CHOOSE f : IsListening(f, h, datagram, TRUE, l)
<1>1. /\ l \in Nat
      /\ serving => datagram.from # Server
      /\ serving => \A k \in 1 .. l : ~Rude(datagram.commands[k])
  BY DEF Fine
<1>2. HandleIncoming(h, datagram, TRUE) = IF ~ Accepted(h, datagram) THEN h ELSE f[l].host
  BY DEF HandleIncoming, IsListening, HearStart
<1> HIDE DEF l
<1>3. IsListening(f, h, datagram, TRUE, l)
  BY <1>1, ListeningExists
<1> HIDE DEF f
<1>4. ListeningRounds(f, h, datagram, TRUE, l)
  BY <1>1, <1>3, ListeningByRounds
<1>5. CASE ~ Accepted(h, datagram)
  BY <1>2, <1>5, CallNone
<1>6. CASE Accepted(h, datagram)
  <2> DEFINE S == {k \in 0 .. l : Hearing(h, f[k], n, serving)}
  <2>1. 0 \in S
    <3>1. f[0] = HearStart(h, datagram)
      BY <1>4 DEF ListeningRounds
    <3>2. datagram.peerID = MaximumPeerID \/ datagram.peerID \in 0 .. n - 1
      BY <1>6 DEF Accepted, Slots, HostOK
    <3>3. Hearing(h, HearStart(h, datagram), n, serving)
      BY <3>2, CallNone DEF Hearing, HearStart, Muted
    <3> QED
      BY <1>1, <3>1, <3>3
  <2>2. ASSUME NEW k \in S, k < l PROVE k + 1 \in S
    <3>1. k + 1 \in 1 .. l /\ k \in 0 .. l
      BY <1>1, <2>2
    <3>2. f[k + 1] = HandleNext(f[k], datagram.from, datagram.commands[k + 1], TRUE)
      BY <1>4, <2>2 DEF ListeningRounds
    <3>3. serving => ~Rude(datagram.commands[k + 1])
      BY <1>1, <3>1
    <3>4. Hearing(h, f[k + 1], n, serving)
      BY <1>1, <2>2, <3>2, <3>3, HandleNextOn
    <3> QED
      BY <3>1, <3>4
  <2>3. Hearing(h, f[l], n, serving)
    <3>1. S \in SUBSET Nat
      BY <1>1
    <3> HIDE DEF S
    <3>2. 0 .. l \subseteq S
      BY <1>1, <2>1, <2>2, <3>1, Upwards
    <3> QED
      BY <1>1, <3>2 DEF S
  <2> QED
    BY <1>2, <1>6, <2>3 DEF Hearing
<1> QED
  BY <1>5, <1>6

-----------------------------------------------------------------------------
(* A call of enet_host_service *)

\* A host as the application leaves it, or a call finds it.
Quieted(h) == [h EXCEPT !.event = NoEvent, !.sent = <<>>]

LEMMA QuietedOK ==
  ASSUME NEW n, NEW serving, NEW h, HostOK(h, n, serving)
  PROVE  /\ HostOK(Quieted(h), n, serving)
         /\ Quieted(h).peers = h.peers /\ Quieted(h).event = NoEvent
<1> DEFINE g == Quieted(h)
<1>1. /\ DOMAIN g = HostFields /\ g.peers = h.peers /\ g.event = NoEvent
      /\ g.sent = <<>> /\ g.dispatchQueue = h.dispatchQueue
  BY DEF Quieted, HostOK, HostFields
<1>2. IsList(<<>>) /\ DOMAIN <<>> = {}
  BY NoLetters DEF Letters
<1> HIDE DEF g
<1>3. HostOK(g, n, serving)
  BY <1>1, <1>2 DEF HostOK
<1> QED
  BY <1>1, <1>3 DEF g

\* Only what the application does with the event of a call comes behind it.
LEMMA SilencedOK ==
  ASSUME NEW n, NEW serving, NEW h, HostOK(h, n, serving)
  PROVE  LET g == [h EXCEPT !.event = NoEvent]
         IN HostOK(g, n, serving) /\ g.peers = h.peers /\ g.event = NoEvent
BY DEF HostOK, HostFields

\* The loop over the datagrams of a batch.
BatchStart(sent) == [host |-> sent, taken |-> {}]
BatchNext(at, datagram) == ReceiveNext(at, datagram, TRUE)

\* It is a function of the number of datagrams.
IsReceiving(f, sent, batch, l) ==
  f = [k \in 0 .. l |->
         IF k = 0 THEN BatchStart(sent)
         ELSE BatchNext(f[k - 1], batch[k])]

LEMMA ReceivingExists ==
  ASSUME NEW sent, NEW batch, NEW l \in Nat
  PROVE  \E f : IsReceiving(f, sent, batch, l)
<1> DEFINE start == BatchStart(sent)
           S == {k \in Nat : \E f : IsReceiving(f, sent, batch, k)}
<1>1. 0 \in S
  <2>1. IsReceiving([k \in 0 .. 0 |-> start], sent, batch, 0)
    BY DEF IsReceiving
  <2> QED
    BY <2>1
<1> HIDE DEF start
<1>2. ASSUME NEW k \in S PROVE k + 1 \in S
  <2>1. PICK f : IsReceiving(f, sent, batch, k)
    OBVIOUS
  <2> DEFINE last == BatchNext(f[k], batch[k + 1])
             g == [i \in 0 .. k + 1 |-> IF i = k + 1 THEN last ELSE f[i]]
  <2>2. (\A i \in 0 .. k : g[i] = f[i]) /\ g[k + 1] = last
    OBVIOUS
  <2> HIDE DEF last
  <2>3. g = [i \in 0 .. k + 1 |-> g[i]]
    OBVIOUS
  <2> HIDE DEF g
  <2>4. ASSUME NEW i \in 0 .. k + 1
        PROVE  g[i] = IF i = 0 THEN start
                      ELSE BatchNext(g[i - 1], batch[i])
    <3>1. CASE i = k + 1
      <4>1. i - 1 = k /\ i # 0
        BY <3>1
      <4>2. g[i - 1] = f[k]
        BY <2>2, <4>1
      <4> QED
        BY <2>2, <3>1, <4>1, <4>2 DEF last
    <3>2. CASE i = 0
      BY <2>1, <2>2, <3>2 DEF IsReceiving, start
    <3>3. CASE i \in 1 .. k
      <4>1. i - 1 \in 0 .. k /\ i \in 0 .. k /\ i # 0
        BY <3>3
      <4>2. g[i - 1] = f[i - 1] /\ g[i] = f[i]
        BY <2>2, <4>1
      <4>3. f[i] = BatchNext(f[i - 1], batch[i])
        BY <2>1, <4>1 DEF IsReceiving
      <4> QED
        BY <4>1, <4>2, <4>3
    <3> QED
      BY <3>1, <3>2, <3>3
  <2>5. IsReceiving(g, sent, batch, k + 1)
    BY <2>3, <2>4 DEF IsReceiving, start
  <2> QED
    BY <2>5
<1> HIDE DEF S
<1>3. 0 .. l \subseteq S
  BY <1>1, <1>2, Upwards DEF S
<1> QED
  BY <1>3 DEF S

\* It goes by rounds.
ReceivingRounds(f, sent, batch, l) ==
  /\ f[0] = BatchStart(sent)
  /\ \A k \in 0 .. l : k < l => f[k + 1] = BatchNext(f[k], batch[k + 1])

LEMMA ReceivingByRounds ==
  ASSUME NEW sent, NEW batch, NEW l \in Nat, NEW f, IsReceiving(f, sent, batch, l)
  PROVE  ReceivingRounds(f, sent, batch, l)
<1>1. 0 \in 0 .. l
  OBVIOUS
<1>2. \A k \in 0 .. l : k < l => /\ k + 1 \in 0 .. l /\ k + 1 # 0 /\ (k + 1) - 1 = k
  OBVIOUS
<1> QED
  BY <1>1, <1>2 DEF IsReceiving, ReceivingRounds

LEMMA ReceiveNextCall ==
  ASSUME NEW n \in Nat, NEW serving, NEW h, NEW at, DOMAIN at = {"host", "taken"},
         Call(h, at.host, n, serving),
         NEW datagram, Fine(datagram), serving => datagram.to = Server
  PROVE  LET next == BatchNext(at, datagram)
         IN DOMAIN next = {"host", "taken"} /\ Call(h, next.host, n, serving)
<1> DEFINE g == HandleIncoming(at.host, datagram, TRUE)
           next == BatchNext(at, datagram)
<1>1. CASE at.host.event # NoEvent
  BY <1>1 DEF BatchNext, ReceiveNext
<1>2. CASE at.host.event = NoEvent
  <2>1. HostOK(at.host, n, serving)
    BY DEF Call
  <2>2. Call(at.host, g, n, serving)
    BY <1>2, <2>1, HandleIncomingCall
  <2>3. next.host = g /\ DOMAIN next = {"host", "taken"}
    BY <1>2 DEF BatchNext, ReceiveNext
  <2> HIDE DEF g
  <2>4. Call(h, g, n, serving)
    BY <2>2, CallOn
  <2> QED
    BY <2>3, <2>4
<1> QED
  BY <1>1, <1>2

\* What a host may be given in a batch.
Given(batch, serving) ==
  /\ Len(batch) \in Nat
  /\ \A k \in 1 .. Len(batch) : Fine(batch[k]) /\ (serving => batch[k].to = Server)

LEMMA ServiceCall ==
  ASSUME NEW n \in Nat, NEW self, NEW serving, serving <=> self = Server,
         NEW h, HostOK(h, n, serving), NEW batch, Given(batch, serving), NEW choices
  PROVE  Call(Quieted(h), Service(h, self, batch, choices, TRUE).host, n, serving)
<1> DEFINE l == Len(batch)
           offered == DispatchIncoming(Quieted(h))
           sent == SendOutgoing(offered, self, choices, TRUE)
           f == CHOOSE f : IsReceiving(f, sent, batch, l)
           replied == SendOutgoing(f[l].host, self, NoChoices, TRUE)
           last == DispatchIncoming(replied)
<1>1. HostOK(Quieted(h), n, serving)
  BY QuietedOK
<1>2. Call(Quieted(h), offered, n, serving)
  BY <1>1, DispatchIncomingCall
<1>3. Service(h, self, batch, choices, TRUE).host = last
  BY DEF Service, Replied, Offered, IsReceiving, BatchStart, BatchNext, Quieted
<1> HIDE DEF offered
<1>4. Call(offered, sent, n, serving)
  BY <1>2, SendOutgoingCall DEF Call
<1> HIDE DEF sent
<1>5. Call(Quieted(h), sent, n, serving)
  BY <1>2, <1>4, CallOn
<1>6. l \in Nat
  BY DEF Given
<1>7. IsReceiving(f, sent, batch, l)
  BY <1>6, ReceivingExists
<1> HIDE DEF f
<1>8. ReceivingRounds(f, sent, batch, l)
  BY <1>6, <1>7, ReceivingByRounds
<1> DEFINE S == {k \in 0 .. l : DOMAIN f[k] = {"host", "taken"}
                                  /\ Call(Quieted(h), f[k].host, n, serving)}
<1>9. 0 \in S
  BY <1>5, <1>6, <1>8 DEF ReceivingRounds, BatchStart
<1>10. ASSUME NEW k \in S, k < l PROVE k + 1 \in S
  <2>1. k + 1 \in 1 .. l /\ k \in 0 .. l /\ k + 1 \in 0 .. l
    BY <1>6, <1>10
  <2>2. f[k + 1] = BatchNext(f[k], batch[k + 1])
    BY <1>8, <1>10, <2>1 DEF ReceivingRounds
  <2>3. Fine(batch[k + 1]) /\ (serving => batch[k + 1].to = Server)
    BY <2>1 DEF Given
  <2> DEFINE start == Quieted(h)
             at == f[k]
             datagram == batch[k + 1]
             next == BatchNext(at, datagram)
  <2>4. DOMAIN at = {"host", "taken"} /\ Call(start, at.host, n, serving)
    BY <1>10
  <2>5. Fine(datagram) /\ (serving => datagram.to = Server)
    BY <2>3
  <2> HIDE DEF start, at, datagram, S
  <2>6. DOMAIN next = {"host", "taken"} /\ Call(start, next.host, n, serving)
    BY <2>4, <2>5, ReceiveNextCall
  <2> HIDE DEF next
  <2> QED
    BY <2>1, <2>2, <2>6 DEF next, start, at, datagram, S
<1>11. Call(Quieted(h), f[l].host, n, serving)
  <2>1. S \in SUBSET Nat
    BY <1>6
  <2> HIDE DEF S
  <2>2. 0 .. l \subseteq S
    BY <1>6, <1>9, <1>10, <2>1, Upwards
  <2> QED
    BY <1>6, <2>2 DEF S
<1>12. Call(f[l].host, replied, n, serving)
  BY <1>11, SendOutgoingCall DEF Call
<1> HIDE DEF replied
<1>13. Call(replied, last, n, serving)
  BY <1>12, DispatchIncomingCall DEF Call
<1> HIDE DEF last
<1>14. Call(Quieted(h), replied, n, serving)
  BY <1>11, <1>12, CallOn
<1>15. Call(Quieted(h), last, n, serving)
  BY <1>13, <1>14, CallOn
<1> QED
  BY <1>3, <1>15

LEMMA FlushCall ==
  ASSUME NEW n \in Nat, NEW self, NEW serving, serving <=> self = Server,
         NEW h, HostOK(h, n, serving)
  PROVE  Call(h, Flush(h, self), n, serving) /\ Flush(h, self).event = h.event
<1> DEFINE wants == FALSE
           g == SendOutgoing(h, self, NoChoices, wants)
<1>1. ~wants /\ Flush(h, self) = g
  BY DEF Flush
<1> HIDE DEF wants
<1>2. Call(h, g, n, serving) /\ g.event = h.event
  BY <1>1, SendOutgoingCall
<1> HIDE DEF g
<1> QED
  BY <1>1, <1>2

-----------------------------------------------------------------------------
(* What the application asks of ENet *)

\* enet_host_create.
LEMMA FreshOK ==
  ASSUME NEW n \in Nat, NEW limit, NEW serving
  PROVE  /\ HostOK(FreshHost(n, limit), n, serving) /\ FreshHost(n, limit).event = NoEvent
         /\ \A p \in 0 .. n - 1 : FreshHost(n, limit).peers[p].state = "DISCONNECTED"
<1> DEFINE fresh == FreshPeer(Nobody)
<1>1. /\ DOMAIN fresh = Fields /\ fresh.state = "DISCONNECTED" /\ fresh.address = Nobody
      /\ fresh.outgoingReliableCommands = <<>> /\ fresh.outgoingUnreliableCommands = <<>>
      /\ fresh.sentReliableCommands = <<>> /\ fresh.acknowledgements = <<>>
  BY DEF FreshPeer, Fields
<1>2. Nobody # Server
  BY ConnectionsAssumption
<1> HIDE DEF fresh
<1>3. Proper(fresh, serving)
  BY <1>1, <1>2, NoLetters DEF Proper, States
<1>4. IsList(<<>>) /\ DOMAIN <<>> = {}
  BY NoLetters DEF Letters
<1> QED
  BY <1>1, <1>3, <1>4 DEF FreshHost, HostOK, HostFields, fresh

\* enet_host_connect: one peer more is used, the first that is free.
LEMMA ConnectOK ==
  ASSUME NEW n \in Nat, NEW serving, NEW h, HostOK(h, n, serving),
         NEW address, serving => address # Server, NEW channels, NEW id, NEW d
  PROVE  LET g == Connect(h, address, channels, id, d)
         IN /\ HostOK(g, n, serving) /\ g.event = h.event
            /\ h.peers[0].state = "DISCONNECTED" =>
                 \A q \in 0 .. n - 1 : q # 0 => g.peers[q] = h.peers[q]
<1> DEFINE p == FirstFree(h)
           old == h.peers[p]
           peer == [old EXCEPT
                      !.channels = [c \in 0 .. channels - 1 |-> NewChannel],
                      !.state = "CONNECTING", !.address = address, !.connectID = id]
           connect == Command("CONNECT", "ack", PeerChannel,
                        [outgoingPeerID |-> p, incomingSessionID |-> peer.incomingSessionID,
                         outgoingSessionID |-> peer.outgoingSessionID,
                         channelCount |-> channels, connectID |-> id, data |-> d])
           q == QueueOutgoingCommand(peer, connect)
           g == Connect(h, address, channels, id, d)
<1>1. g = IF FreeSlots(h) = {} THEN h ELSE With(h, p, q)
  BY DEF Connect
<1> HIDE DEF g
<1>2. CASE FreeSlots(h) # {}
  <2>1. FreeSlots(h) \in SUBSET Nat /\ FreeSlots(h) \in SUBSET (0 .. n - 1)
    BY DEF FreeSlots, Slots, HostOK
  <2>2. p \in FreeSlots(h) /\ \A k \in FreeSlots(h) : p <= k
    <3>1. \E m \in FreeSlots(h) : \A k \in FreeSlots(h) : m <= k
      BY <1>2, <2>1, Smallest
    <3> QED
      BY <3>1 DEF FirstFree
  <2> HIDE DEF p
  <2>3. p \in 0 .. n - 1 /\ old.state = "DISCONNECTED" /\ Proper(old, serving)
    BY <2>1, <2>2 DEF FreeSlots, HostOK
  <2>a. h.peers[0].state = "DISCONNECTED" => p = 0
    <3>1. 0 \in 0 .. n - 1
      BY <2>3
    <3>2. h.peers[0].state = "DISCONNECTED" => 0 \in FreeSlots(h)
      BY <3>1 DEF FreeSlots, Slots, HostOK
    <3> QED
      BY <2>2, <2>3, <3>2
  <2> HIDE DEF old
  <2>4. /\ DOMAIN peer = Fields /\ peer.state = "CONNECTING"
        /\ peer.address = address /\ peer.acknowledgements = old.acknowledgements
        /\ peer.sentReliableCommands = old.sentReliableCommands
        /\ peer.outgoingReliableCommands = old.outgoingReliableCommands
        /\ peer.outgoingUnreliableCommands = old.outgoingUnreliableCommands
    BY <2>3 DEF Proper, Fields
  <2> HIDE DEF peer
  <2>5. Proper(peer, serving) /\ peer.state # "DISCONNECTED"
    BY <2>3, <2>4 DEF Proper, States
  <2>6. DOMAIN connect = Form /\ ~Rude(connect)
    BY CommandForm DEF Rude
  <2> HIDE DEF connect
  <2>7. Proper(q, serving)
    BY <2>5, <2>6, QueueProper
  <2> HIDE DEF q
  <2>8. /\ OnePeer(h, g, p, n) /\ g.peers[p] = q /\ g.event = h.event
    BY <1>1, <1>2, <2>3, WithOne
  <2>9. HostOK(g, n, serving)
    BY <2>3, <2>7, <2>8, OneProper
  <2>10. h.peers[0].state = "DISCONNECTED" =>
           \A r \in 0 .. n - 1 : r # 0 => g.peers[r] = h.peers[r]
    BY <2>a, <2>8 DEF OnePeer
  <2> QED
    BY <2>8, <2>9, <2>10 DEF g
<1>3. CASE FreeSlots(h) = {}
  BY <1>1, <1>3 DEF g
<1> QED
  BY <1>2, <1>3

\* enet_peer_send of a message.
LEMMA SendProper ==
  ASSUME NEW peer, NEW serving, Proper(peer, serving), NEW c, NEW x
  PROVE  /\ Proper(Send(peer, c, <<x>>, Sending), serving)
         /\ Lives(peer, Send(peer, c, <<x>>, Sending))
<1> DEFINE command == Command("RELIABLE", "ack", c, [data |-> <<x>>])
           q == QueueOutgoingCommand(peer, command)
<1>1. CASE ~ MaySend(peer, c)
  BY <1>1 DEF Send, Lives
<1>2. CASE MaySend(peer, c)
  <2>1. Len(<<x>>) = 1 /\ FragmentLength \in Nat \ {0}
    BY PeerAssumption
  <2>2. Send(peer, c, <<x>>, Sending) = QueueOutgoingCommand(peer, Whole(peer.channels[c], c, <<x>>, Sending))
    BY <1>2, <2>1 DEF Send
  <2>3. Whole(peer.channels[c], c, <<x>>, Sending) = command
    BY DEF Whole, Sending
  <2>4. DOMAIN command = Form /\ ~Rude(command)
    BY CommandForm DEF Rude
  <2> HIDE DEF command
  <2>5. Proper(q, serving) /\ Lives(peer, q)
    BY <1>2, <2>4, QueueProper DEF MaySend
  <2> QED
    BY <2>2, <2>3, <2>5
<1> QED
  BY <1>1, <1>2

Serves(serving) == serving

\* A DISCONNECT takes the place of whatever was to be sent.
LEMMA DisconnectingCall ==
  ASSUME NEW n, NEW serving, NEW h, HostOK(h, n, serving), NEW p \in 0 .. n - 1,
         h.peers[p].state # "DISCONNECTED", NEW flag, Serves(serving) \/ flag # "ack", NEW d
  PROVE  LET g == Disconnecting(h, p, flag, d)
         IN /\ Call(h, g, n, serving) /\ g.event = h.event /\ OnePeer(h, g, p, n)
            /\ Proper(g.peers[p], serving)
            /\ g.peers[p].state = h.peers[p].state
            /\ g.peers[p].connectID = h.peers[p].connectID
<1> DEFINE command == Command("DISCONNECT", flag, PeerChannel, [data |-> d])
           empty == ResetQueues(h.peers[p])
           q == QueueOutgoingCommand(empty, command)
           g == With(h, p, q)
<1>1. Disconnecting(h, p, flag, d) = g
  BY DEF Disconnecting
<1>2. Proper(h.peers[p], serving)
  BY DEF HostOK
<1>3. /\ Proper(empty, serving) /\ empty.state = h.peers[p].state
      /\ empty.connectID = h.peers[p].connectID /\ Lives(h.peers[p], empty)
  BY <1>2, ResetQueuesProper
<1>4. DOMAIN command = Form /\ (serving \/ ~Rude(command))
  BY CommandForm DEF Rude, Serves
<1> HIDE DEF command, empty
<1>5. /\ Proper(q, serving) /\ Lives(empty, q) /\ q.state = empty.state
      /\ q.connectID = empty.connectID
  BY <1>3, <1>4, QueueProper
<1> HIDE DEF q
<1>6. Lives(h.peers[p], q)
  BY <1>3, <1>5, LivesOn
<1>7. /\ Call(h, g, n, serving) /\ OnePeer(h, g, p, n) /\ g.peers[p] = q
      /\ g.event = h.event
  BY <1>5, <1>6, WithCall, WithOne
<1> HIDE DEF g
<1> QED
  BY <1>1, <1>3, <1>5, <1>7

\* enet_peer_disconnect of a peer that was announced.
LEMMA PeerDisconnectCall ==
  ASSUME NEW n, NEW serving, Serves(serving), NEW h, HostOK(h, n, serving), NEW p \in 0 .. n - 1,
         h.peers[p].state \in Public, NEW d, NEW self
  PROVE  LET g == PeerDisconnect(h, p, d, self)
         IN Call(h, g, n, serving) /\ g.event = h.event /\ g.peers[p].state # "CONNECTED"
<1> DEFINE g == PeerDisconnect(h, p, d, self)
           first == Disconnecting(h, p, "ack", d)
           then == [first EXCEPT !.peers[p].state = "DISCONNECTING"]
<1>1. h.peers[p].state \in States
  BY DEF HostOK, Proper
<1>2. CASE h.peers[p].state # "CONNECTED"
  <2>1. g = h
    BY <1>1, <1>2 DEF PeerDisconnect, Disconnect, Public, States
  <2> QED
    BY <1>2, <2>1, CallNone
<1>3. CASE h.peers[p].state = "CONNECTED"
  <2>1. g = then
    BY <1>3 DEF PeerDisconnect, Disconnect
  <2> HIDE DEF g
  <2>2. /\ Call(h, first, n, serving) /\ first.event = h.event /\ OnePeer(h, first, p, n)
        /\ Proper(first.peers[p], serving)
        /\ first.peers[p].state = h.peers[p].state
        /\ first.peers[p].connectID = h.peers[p].connectID
    <3> DEFINE flag == "ack"
               g1 == Disconnecting(h, p, flag, d)
    <3>1. h.peers[p].state # "DISCONNECTED" /\ (Serves(serving) \/ flag # "ack")
      BY <1>3
    <3> HIDE DEF flag
    <3>2. /\ Call(h, g1, n, serving) /\ g1.event = h.event /\ OnePeer(h, g1, p, n)
          /\ Proper(g1.peers[p], serving)
          /\ g1.peers[p].state = h.peers[p].state
          /\ g1.peers[p].connectID = h.peers[p].connectID
      BY <3>1, DisconnectingCall
    <3> QED
      BY <3>2 DEF flag
  <2> HIDE DEF first
  <2>3. /\ then.peers = [first.peers EXCEPT ![p].state = "DISCONNECTING"]
        /\ DOMAIN then = HostFields /\ then.event = first.event
        /\ then.sent = first.sent /\ then.dispatchQueue = first.dispatchQueue
    BY <2>2 DEF OnePeer, HostFields
  <2> HIDE DEF then
  <2>4. /\ then.peers[p] = [first.peers[p] EXCEPT !.state = "DISCONNECTING"]
        /\ DOMAIN then.peers = 0 .. n - 1
        /\ \A q \in 0 .. n - 1 : q # p => then.peers[q] = first.peers[q]
    BY <2>2, <2>3 DEF OnePeer
  <2>5. OnePeer(h, then, p, n) /\ then.event = h.event
    BY <2>2, <2>3, <2>4 DEF OnePeer
  <2>6. /\ Proper(then.peers[p], serving) /\ then.peers[p].state = "DISCONNECTING"
        /\ Lives(h.peers[p], then.peers[p])
    <3> DEFINE a == first.peers[p]
               b == then.peers[p]
    <3>1. /\ DOMAIN b = Fields /\ b.state = "DISCONNECTING" /\ b.connectID = a.connectID
          /\ b.address = a.address /\ b.acknowledgements = a.acknowledgements
          /\ b.sentReliableCommands = a.sentReliableCommands
          /\ b.outgoingReliableCommands = a.outgoingReliableCommands
          /\ b.outgoingUnreliableCommands = a.outgoingUnreliableCommands
      BY <2>2, <2>4 DEF Proper, Fields
    <3>2. Proper(a, serving)
      BY <2>2
    <3> HIDE DEF a, b
    <3>3. Proper(b, serving)
      BY <3>1, <3>2 DEF Proper, States
    <3>4. Lives(h.peers[p], b)
      BY <1>3, <2>2, <3>1 DEF Lives, Public, Early, a
    <3> QED
      BY <3>1, <3>3, <3>4 DEF b
  <2>7. Call(h, then, n, serving)
    BY <2>5, <2>6, QuietCall
  <2> QED
    BY <2>1, <2>5, <2>6, <2>7 DEF g
<1> QED
  BY <1>2, <1>3

\* enet_peer_disconnect_now, of a client: it asks for no acknowledgement.
LEMMA DisconnectNowOK ==
  ASSUME NEW n \in Nat, NEW self, NEW serving, serving <=> self = Server, self # Server,
         NEW h, HostOK(h, n, serving), NEW p \in 0 .. n - 1, NEW d
  PROVE  HostOK(DisconnectNow(h, p, d, self), n, serving)
<1> DEFINE g == DisconnectNow(h, p, d, self)
           first == Disconnecting(h, p, "unsequenced", d)
           flushed == Flush(first, self)
<1>1. ASSUME NEW k, HostOK(k, n, serving) PROVE HostOK(Forgotten(k, p), n, serving)
  <2>1. Proper(k.peers[p], serving)
    BY <1>1 DEF HostOK
  <2>2. Proper(Reset(k.peers[p]), serving)
    BY <2>1, ResetProper
  <2> QED
    BY <1>1, <2>2, WithCall DEF Forgotten
<1>2. CASE h.peers[p].state = "DISCONNECTED"
  BY <1>2 DEF DisconnectNow
<1>3. CASE h.peers[p].state \in {"ZOMBIE", "DISCONNECTING"}
  BY <1>1, <1>3 DEF DisconnectNow
<1>4. CASE h.peers[p].state \notin {"DISCONNECTED", "ZOMBIE", "DISCONNECTING"}
  <2>1. g = Forgotten(flushed, p)
    BY <1>4 DEF DisconnectNow
  <2>2. HostOK(first, n, serving)
    BY <1>4, DisconnectingCall DEF Call
  <2> HIDE DEF first
  <2>3. HostOK(flushed, n, serving)
    BY <2>2, FlushCall DEF Call
  <2> HIDE DEF flushed, g
  <2> QED
    BY <1>1, <2>1, <2>3 DEF g
<1> QED
  BY <1>2, <1>3, <1>4

-----------------------------------------------------------------------------
(* What the server believes, of a host h of its own, the peer m of the      *)
(* master, the objects, their places behind the peers and the vector.       *)

\* Only the master is asked for a connection.
Asked(h, m) ==
  /\ m \in 0 .. ServerPeers
  /\ \A p \in 0 .. ServerPeers - 1 : p # m => h.peers[p].state \notin Early

\* No object is made of the master.
Object(o, m) ==
  /\ o.peer \in 0 .. ServerPeers - 1
  /\ o.state \in {"AUTH", "EMPTY"}
  /\ o.state = "AUTH" => o.peer # m

Objects(m, objs, behind, vector) ==
  /\ IsList(objs) /\ \A n \in DOMAIN objs : Object(objs[n], m)
  /\ behind \in [0 .. ServerPeers - 1 -> 0 .. Len(objs)]
  /\ vector \in Seq(1 .. Len(objs))

\* ObjectsMatchPeers, of these.
Matching(h, m, objs, behind) ==
  /\ \A p \in 0 .. ServerPeers - 1 :
       h.peers[p].state \in Public /\ p # m =>
         /\ behind[p] # 0
         /\ objs[behind[p]] = [peer |-> p, state |-> "AUTH", lost |-> 0,
                               connection |-> h.peers[p].connectID]
  /\ \A n \in DOMAIN objs :
       objs[n].state = "AUTH" =>
         h.peers[objs[n].peer].state \in Public /\ behind[objs[n].peer] = n
  /\ \A n \in DOMAIN objs : objs[n].state = "EMPTY" => objs[n].lost = 1

\* BroadcastOnce, of these.
Reaching(h, objs, vector) ==
  /\ \A i, j \in DOMAIN vector : vector[i] = vector[j] => i = j
  /\ \A n \in DOMAIN objs :
       objs[n].state = "AUTH" /\ h.peers[objs[n].peer].state = "CONNECTED" =>
         n \in ToSet(vector)

Belief(h, m, objs, behind, vector) ==
  /\ Asked(h, m) /\ Objects(m, objs, behind, vector)
  /\ Matching(h, m, objs, behind) /\ Reaching(h, objs, vector)

\* A list with other elements in its places.
LEMMA ChangedList ==
  ASSUME NEW s, IsList(s), NEW t, DOMAIN t = DOMAIN s, t = [k \in DOMAIN t |-> t[k]]
  PROVE  IsList(t) /\ Len(t) = Len(s)
<1>1. DOMAIN s = 1 .. Len(s) /\ Len(s) \in Nat
  BY ListOver DEF IsList
<1>2. t \in [1 .. Len(s) -> {t[k] : k \in DOMAIN t}]
  BY <1>1
<1>3. t \in Seq({t[k] : k \in DOMAIN t})
  BY <1>1, <1>2, SeqDef
<1>4. DOMAIN t = 1 .. Len(t) /\ Len(t) \in Nat
  BY <1>3, ListOver
<1> QED
  BY <1>1, <1>3, <1>4 DEF IsList

\* Every peer but the master's lives on: what was believed still is.
LEMMA BeliefLives ==
  ASSUME NEW h, NEW g, NEW m, NEW objs, NEW behind, NEW vector,
         Belief(h, m, objs, behind, vector),
         \A p \in 0 .. ServerPeers - 1 : p # m => Lives(h.peers[p], g.peers[p])
  PROVE  Belief(g, m, objs, behind, vector)
<1>1. \A p \in 0 .. ServerPeers - 1 :
        p # m => /\ g.peers[p].state \notin Early
                 /\ g.peers[p].state \in Public <=> h.peers[p].state \in Public
                 /\ h.peers[p].state \in Public =>
                      g.peers[p].connectID = h.peers[p].connectID
                 /\ g.peers[p].state = "CONNECTED" => h.peers[p].state = "CONNECTED"
  BY DEF Belief, Asked, Lives
<1>2. Asked(g, m)
  BY <1>1 DEF Belief, Asked
<1>3. \A n \in DOMAIN objs :
        objs[n].state = "AUTH" => objs[n].peer \in 0 .. ServerPeers - 1 /\ objs[n].peer # m
  BY DEF Belief, Objects, Object
<1>4. Matching(g, m, objs, behind)
  BY <1>1, <1>3 DEF Belief, Matching
<1>5. Reaching(g, objs, vector)
  BY <1>1, <1>3 DEF Belief, Reaching
<1> QED
  BY <1>2, <1>4, <1>5 DEF Belief

\* A peer p is announced, and object number n made of it; the vector has it
\* unless the peer is not connected.
LEMMA BeliefNew ==
  ASSUME NEW h, NEW g, NEW m, NEW objs, NEW behind, NEW vector,
         Belief(h, m, objs, behind, vector),
         NEW p \in 0 .. ServerPeers - 1, p # m,
         h.peers[p].state \notin Public, g.peers[p].state \in Public,
         \A q \in 0 .. ServerPeers - 1 :
           q # m /\ q # p => Lives(h.peers[q], g.peers[q]),
         NEW longer, longer \in Seq(1 .. Len(objs) + 1),
         \A i, j \in DOMAIN longer : longer[i] = longer[j] => i = j,
         \A n \in DOMAIN objs :
           objs[n].state = "AUTH" /\ n \in ToSet(vector) => n \in ToSet(longer),
         g.peers[p].state = "CONNECTED" => Len(objs) + 1 \in ToSet(longer)
  PROVE  Belief(g, m, Append(objs, [peer |-> p, state |-> "AUTH", lost |-> 0,
                                    connection |-> g.peers[p].connectID]),
                [behind EXCEPT ![p] = Len(objs) + 1], longer)
<1> DEFINE o == [peer |-> p, state |-> "AUTH", lost |-> 0,
                 connection |-> g.peers[p].connectID]
           all == Append(objs, o)
           l == Len(objs)
           back == [behind EXCEPT ![p] = l + 1]
<1>1. DOMAIN objs = 1 .. l /\ l \in Nat
  BY ListOver DEF IsList, Belief, Objects
<1>2. /\ all \in Seq({objs[k] : k \in DOMAIN objs} \cup {o})
      /\ Len(all) = l + 1 /\ DOMAIN all = 1 .. l + 1
      /\ \A n \in 1 .. l : all[n] = objs[n]
      /\ all[l + 1] = o
  <2>1. objs \in Seq({objs[k] : k \in DOMAIN objs} \cup {o})
    BY WiderSeq DEF Belief, Objects, IsList
  <2> QED
    BY <1>1, <2>1, AppendProperties
<1>3. IsList(all)
  BY <1>2, ListOver
<1>4. /\ o.peer = p /\ o.state = "AUTH" /\ o.connection = g.peers[p].connectID
  OBVIOUS
<1>5. \A q \in 0 .. ServerPeers - 1 :
        q # m /\ q # p =>
              /\ g.peers[q].state \notin Early
              /\ g.peers[q].state \in Public <=> h.peers[q].state \in Public
              /\ h.peers[q].state \in Public =>
                   g.peers[q].connectID = h.peers[q].connectID
              /\ g.peers[q].state = "CONNECTED" => h.peers[q].state = "CONNECTED"
  BY DEF Belief, Asked, Lives
<1>6. Asked(g, m)
  <2>1. g.peers[p].state \notin Early
    BY DEF Public, Early
  <2> QED
    BY <1>5, <2>1 DEF Asked, Belief
<1>7. /\ back \in [0 .. ServerPeers - 1 -> 0 .. l + 1]
      /\ back[p] = l + 1 /\ \A q \in 0 .. ServerPeers - 1 : q # p => back[q] = behind[q]
      /\ \A q \in 0 .. ServerPeers - 1 : behind[q] \in 0 .. l
  <2>1. behind \in [0 .. ServerPeers - 1 -> 0 .. l]
    BY DEF Belief, Objects
  <2>2. 0 .. l \subseteq 0 .. l + 1 /\ l + 1 \in 0 .. l + 1
    BY <1>1
  <2>3. /\ DOMAIN behind = 0 .. ServerPeers - 1
        /\ \A q \in 0 .. ServerPeers - 1 : behind[q] \in 0 .. l
    BY <2>1
  <2> QED
    BY <2>2, <2>3
<1>8. \A n \in 1 .. l : Object(objs[n], m) /\ (objs[n].state = "AUTH" => objs[n].peer # p)
  BY <1>1 DEF Belief, Objects, Matching
<1> HIDE DEF o, all, back
<1>9. Objects(m, all, back, longer)
  <2>1. \A n \in 1 .. l + 1 : Object(all[n], m)
    <3>1. Object(o, m)
      BY <1>4 DEF Object
    <3>2. \A n \in 1 .. l + 1 : n \in 1 .. l \/ n = l + 1
      BY <1>1
    <3> QED
      BY <1>2, <1>8, <3>1, <3>2
  <2> QED
    BY <1>2, <1>3, <1>7, <2>1 DEF Objects
<1>10. Matching(g, m, all, back)
  <2>1. ASSUME NEW q \in 0 .. ServerPeers - 1, g.peers[q].state \in Public, q # m
        PROVE  /\ back[q] # 0
               /\ all[back[q]] = [peer |-> q, state |-> "AUTH", lost |-> 0,
                                  connection |-> g.peers[q].connectID]
    <3>1. CASE q = p
      BY <1>1, <1>2, <1>7, <3>1 DEF o
    <3>2. CASE q # p
      <4>1. h.peers[q].state \in Public /\ g.peers[q].connectID = h.peers[q].connectID
        BY <1>5, <2>1, <3>2
      <4>2. /\ behind[q] # 0
            /\ objs[behind[q]] = [peer |-> q, state |-> "AUTH", lost |-> 0,
                                  connection |-> h.peers[q].connectID]
        BY <2>1, <4>1 DEF Belief, Matching
      <4>3. back[q] = behind[q] /\ behind[q] \in 1 .. l
        BY <1>1, <1>7, <3>2, <4>2
      <4> QED
        BY <1>2, <4>1, <4>2, <4>3
    <3> QED
      BY <3>1, <3>2
  <2>2. ASSUME NEW n \in 1 .. l + 1, all[n].state = "AUTH"
        PROVE  g.peers[all[n].peer].state \in Public /\ back[all[n].peer] = n
    <3>1. CASE n = l + 1
      BY <1>2, <1>4, <1>7, <3>1
    <3>2. CASE n \in 1 .. l
      <4>1. /\ all[n] = objs[n] /\ objs[n].state = "AUTH" /\ n \in DOMAIN objs
        BY <1>1, <1>2, <2>2, <3>2
      <4>2. h.peers[objs[n].peer].state \in Public /\ behind[objs[n].peer] = n
        BY <4>1 DEF Belief, Matching
      <4>3. objs[n].peer \in 0 .. ServerPeers - 1 /\ objs[n].peer # m /\ objs[n].peer # p
        BY <1>8, <3>2, <4>1 DEF Object
      <4> QED
        BY <1>5, <1>7, <4>1, <4>2, <4>3
    <3> QED
      BY <1>1, <3>1, <3>2
  <2>3. ASSUME NEW n \in 1 .. l + 1, all[n].state = "EMPTY" PROVE all[n].lost = 1
    <3>1. n # l + 1
      BY <1>2, <1>4, <2>3
    <3>2. n \in 1 .. l
      BY <1>1, <3>1
    <3> QED
      BY <1>1, <1>2, <2>3, <3>2 DEF Belief, Matching
  <2> QED
    BY <1>2, <2>1, <2>2, <2>3 DEF Matching
<1>11. Reaching(g, all, longer)
  <2>1. ASSUME NEW n \in 1 .. l + 1, all[n].state = "AUTH",
               g.peers[all[n].peer].state = "CONNECTED"
        PROVE  n \in ToSet(longer)
    <3>1. CASE n = l + 1
      BY <1>2, <1>4, <2>1, <3>1
    <3>2. CASE n \in 1 .. l
      <4>1. /\ all[n] = objs[n] /\ objs[n].state = "AUTH" /\ n \in DOMAIN objs
        BY <1>1, <1>2, <2>1, <3>2
      <4>2. objs[n].peer \in 0 .. ServerPeers - 1 /\ objs[n].peer # m /\ objs[n].peer # p
        BY <1>8, <3>2, <4>1 DEF Object
      <4>3. h.peers[objs[n].peer].state = "CONNECTED"
        BY <1>5, <2>1, <4>1, <4>2
      <4>4. n \in ToSet(vector)
        BY <4>1, <4>3 DEF Belief, Reaching
      <4> QED
        BY <4>1, <4>4
    <3> QED
      BY <1>1, <3>1, <3>2
  <2> QED
    BY <1>2, <2>1 DEF Reaching
<1> QED
  BY <1>6, <1>9, <1>10, <1>11 DEF Belief, all, back, o

\* The vector with one object more.
LEMMA WithClientOnce ==
  ASSUME NEW n \in Nat, clients \in Seq(1 .. n),
         \A i, j \in DOMAIN clients : clients[i] = clients[j] => i = j
  PROVE  LET longer == WithClient(n + 1)
         IN /\ longer \in Seq(1 .. n + 1) /\ n + 1 \in ToSet(longer)
            /\ \A i, j \in DOMAIN longer : longer[i] = longer[j] => i = j
            /\ \A k \in 1 .. n : objects[k].state = "AUTH" /\ k \in ToSet(clients)
                                   => k \in ToSet(longer)
<1> DEFINE I == {i \in 1 .. Len(clients) : objects[clients[i]].state = "EMPTY"}
           at == IF I # {} THEN Min(I) ELSE 0
           longer == WithClient(n + 1)
           l == Len(clients)
<1>1. longer = IF at = 0 THEN Append(clients, n + 1) ELSE [clients EXCEPT ![at] = n + 1]
  BY DEF WithClient, SelectInSeq
<1>2. /\ l \in Nat /\ DOMAIN clients = 1 .. l /\ clients \in Seq(1 .. n + 1)
      /\ \A i \in 1 .. l : clients[i] \in 1 .. n
  <2>1. 1 .. n \subseteq 1 .. n + 1
    OBVIOUS
  <2> QED
    BY <2>1, WiderSeq
<1>3. I \in SUBSET (1 .. l)
  OBVIOUS
<1>4. at \in 0 .. l /\ (at # 0 => at \in I)
  <2>1. (I # {} => Min(I) \in I) /\ at \in 0 .. l
    BY <1>2, <1>3, FirstPlace
  <2> QED
    BY <2>1
<1> HIDE DEF at, I, longer
<1>5. at # 0 => at \in 1 .. l /\ objects[clients[at]].state = "EMPTY"
  BY <1>4 DEF I
<1>6. n + 1 \in 1 .. n + 1
  OBVIOUS
<1>7. CASE at = 0
  <2>1. /\ longer \in Seq(1 .. n + 1) /\ Len(longer) = l + 1
        /\ \A i \in 1 .. l : longer[i] = clients[i]
        /\ longer[l + 1] = n + 1
    BY <1>1, <1>2, <1>6, <1>7, AppendProperties
  <2>2. DOMAIN longer = 1 .. l + 1
    BY <2>1
  <2>3. \A i \in 1 .. l + 1 : i \in 1 .. l \/ i = l + 1
    BY <1>2
  <2>4. \A i, j \in 1 .. l + 1 : longer[i] = longer[j] => i = j
    <3> SUFFICES ASSUME NEW i \in 1 .. l + 1, NEW j \in 1 .. l + 1, longer[i] = longer[j]
                 PROVE  i = j
      OBVIOUS
    <3>1. n + 1 \notin 1 .. n
      OBVIOUS
    <3>2. (i \in 1 .. l => longer[i] # n + 1) /\ (j \in 1 .. l => longer[j] # n + 1)
      BY <1>2, <2>1, <3>1
    <3> QED
      BY <1>2, <2>1, <2>3, <3>2
  <2>5. \A k : k \in ToSet(clients) => k \in ToSet(longer)
    BY <1>2, <2>1, <2>2 DEF ToSet
  <2>6. n + 1 \in ToSet(longer)
    BY <1>2, <2>1, <2>2 DEF ToSet
  <2> QED
    BY <2>1, <2>2, <2>4, <2>5, <2>6 DEF longer
<1>8. CASE at # 0
  <2>1. /\ longer \in Seq(1 .. n + 1) /\ Len(longer) = l
        /\ \A i \in 1 .. l : longer[i] = IF i = at THEN n + 1 ELSE clients[i]
    BY <1>1, <1>2, <1>5, <1>6, <1>8, ExceptSeq
  <2>2. DOMAIN longer = 1 .. l
    BY <2>1
  <2>3. \A i, j \in 1 .. l : longer[i] = longer[j] => i = j
    <3> SUFFICES ASSUME NEW i \in 1 .. l, NEW j \in 1 .. l, longer[i] = longer[j]
                 PROVE  i = j
      OBVIOUS
    <3>1. clients[i] # n + 1 /\ clients[j] # n + 1
      BY <1>2
    <3>2. clients[i] = clients[j] => i = j
      BY <1>2
    <3>3. /\ longer[i] = IF i = at THEN n + 1 ELSE clients[i]
          /\ longer[j] = IF j = at THEN n + 1 ELSE clients[j]
      BY <2>1
    <3> QED
      BY <3>1, <3>2, <3>3
  <2>4. ASSUME NEW k, objects[k].state = "AUTH", k \in ToSet(clients)
        PROVE  k \in ToSet(longer)
    <3>1. PICK i \in 1 .. l : clients[i] = k
      BY <1>2, <2>4 DEF ToSet
    <3>2. i # at
      BY <1>5, <1>8, <2>4, <3>1
    <3> QED
      BY <2>1, <2>2, <3>1, <3>2 DEF ToSet
  <2>5. n + 1 \in ToSet(longer)
    BY <1>5, <1>8, <2>1, <2>2 DEF ToSet
  <2> QED
    BY <2>1, <2>2, <2>3, <2>4, <2>5 DEF longer
<1> QED
  BY <1>7, <1>8

\* A peer p is no longer announced, and its object not in use.
LEMMA BeliefLost ==
  ASSUME NEW h, NEW g, NEW m, NEW objs, NEW behind, NEW vector,
         Belief(h, m, objs, behind, vector),
         NEW p \in 0 .. ServerPeers - 1, p # m,
         h.peers[p].state \in Public, g.peers[p].state \notin Public \cup Early,
         \A q \in 0 .. ServerPeers - 1 :
           q # m /\ q # p => Lives(h.peers[q], g.peers[q]),
         NEW left, left = [objs EXCEPT ![behind[p]].state = "EMPTY",
                                       ![behind[p]].lost = @ + 1]
  PROVE  Belief(g, m, left, behind, vector)
<1> DEFINE l == Len(objs)
           k == behind[p]
<1>1. DOMAIN objs = 1 .. l /\ l \in Nat
  BY ListOver DEF IsList, Belief, Objects
<1>2. /\ k \in 1 .. l
      /\ objs[k] = [peer |-> p, state |-> "AUTH", lost |-> 0,
                    connection |-> h.peers[p].connectID]
  <2>1. k \in 0 .. l
    BY DEF Belief, Objects
  <2>2. /\ k # 0 /\ objs[k] = [peer |-> p, state |-> "AUTH", lost |-> 0,
                               connection |-> h.peers[p].connectID]
    BY DEF Belief, Matching
  <2> QED
    BY <1>1, <2>1, <2>2
<1>3. /\ DOMAIN left = DOMAIN objs /\ left = [n \in DOMAIN left |-> left[n]]
      /\ \A n \in 1 .. l : n # k => left[n] = objs[n]
      /\ left[k].state = "EMPTY" /\ left[k].lost = 1 /\ left[k].peer = p
  BY <1>1, <1>2
<1>4. IsList(left) /\ Len(left) = l
  BY <1>3, ChangedList DEF Belief, Objects
<1>5. \A q \in 0 .. ServerPeers - 1 :
        q # m /\ q # p =>
              /\ g.peers[q].state \notin Early
              /\ g.peers[q].state \in Public <=> h.peers[q].state \in Public
              /\ h.peers[q].state \in Public =>
                   g.peers[q].connectID = h.peers[q].connectID
              /\ g.peers[q].state = "CONNECTED" => h.peers[q].state = "CONNECTED"
  BY DEF Belief, Asked, Lives
<1>6. Asked(g, m)
  BY <1>5 DEF Asked, Belief
<1>7. \A n \in 1 .. l : Object(objs[n], m)
  BY <1>1 DEF Belief, Objects
<1>8. \A n \in 1 .. l : objs[n].state = "AUTH" /\ n # k => objs[n].peer # p
  BY <1>1 DEF Belief, Matching
<1>9. \A n \in 1 .. l : Object(left[n], m)
  <2>1. Object(left[k], m)
    BY <1>3 DEF Object
  <2> QED
    BY <1>3, <1>7, <2>1
<1> HIDE DEF k
<1>10. Objects(m, left, behind, vector)
  BY <1>1, <1>3, <1>4, <1>9 DEF Belief, Objects
<1>11. Matching(g, m, left, behind)
  <2>1. ASSUME NEW q \in 0 .. ServerPeers - 1, g.peers[q].state \in Public, q # m
        PROVE  /\ behind[q] # 0
               /\ left[behind[q]] = [peer |-> q, state |-> "AUTH", lost |-> 0,
                                     connection |-> g.peers[q].connectID]
    <3>1. q # p
      BY <2>1
    <3>2. h.peers[q].state \in Public /\ g.peers[q].connectID = h.peers[q].connectID
      BY <1>5, <2>1, <3>1
    <3>3. /\ behind[q] # 0
          /\ objs[behind[q]] = [peer |-> q, state |-> "AUTH", lost |-> 0,
                                connection |-> h.peers[q].connectID]
      BY <2>1, <3>2 DEF Belief, Matching
    <3>4. behind[q] \in 1 .. l
      <4>1. behind[q] \in 0 .. l
        BY DEF Belief, Objects
      <4> QED
        BY <1>1, <3>3, <4>1
    <3>5. behind[q] # k
      BY <1>2, <3>1, <3>3
    <3> QED
      BY <1>3, <3>2, <3>3, <3>4, <3>5
  <2>2. ASSUME NEW n \in 1 .. l, left[n].state = "AUTH"
        PROVE  g.peers[left[n].peer].state \in Public /\ behind[left[n].peer] = n
    <3>1. n # k /\ left[n] = objs[n] /\ n \in DOMAIN objs
      BY <1>1, <1>3, <2>2
    <3>2. h.peers[objs[n].peer].state \in Public /\ behind[objs[n].peer] = n
      BY <2>2, <3>1 DEF Belief, Matching
    <3>3. objs[n].peer \in 0 .. ServerPeers - 1 /\ objs[n].peer # m /\ objs[n].peer # p
      BY <1>7, <1>8, <2>2, <3>1 DEF Object
    <3> QED
      BY <1>5, <3>1, <3>2, <3>3
  <2>3. ASSUME NEW n \in 1 .. l, left[n].state = "EMPTY" PROVE left[n].lost = 1
    <3>1. CASE n = k
      BY <1>3, <3>1
    <3>2. CASE n # k
      <4>1. left[n] = objs[n] /\ n \in DOMAIN objs
        BY <1>1, <1>3, <3>2
      <4>2. objs[n].state = "EMPTY"
        BY <2>3, <4>1
      <4>3. objs[n].lost = 1
        BY <4>1, <4>2, <1>1 DEF Belief, Matching
      <4> QED
        BY <4>1, <4>3
    <3> QED
      BY <3>1, <3>2
  <2> QED
    BY <1>1, <1>3, <2>1, <2>2, <2>3 DEF Matching
<1>12. Reaching(g, left, vector)
  <2>1. ASSUME NEW n \in 1 .. l, left[n].state = "AUTH",
               g.peers[left[n].peer].state = "CONNECTED"
        PROVE  n \in ToSet(vector)
    <3>1. n # k /\ left[n] = objs[n] /\ n \in DOMAIN objs
      BY <1>1, <1>3, <2>1
    <3>2. objs[n].peer \in 0 .. ServerPeers - 1 /\ objs[n].peer # m /\ objs[n].peer # p
      BY <1>7, <1>8, <2>1, <3>1 DEF Object
    <3>3. h.peers[objs[n].peer].state = "CONNECTED"
      BY <1>5, <2>1, <3>1, <3>2
    <3> QED
      BY <2>1, <3>1, <3>3 DEF Belief, Reaching
  <2> QED
    BY <1>1, <1>3, <2>1 DEF Belief, Reaching
<1> QED
  BY <1>6, <1>10, <1>11, <1>12 DEF Belief

\* The master is no longer announced: its peer is one like the others.
LEMMA BeliefAlone ==
  ASSUME NEW h, NEW g, NEW m \in 0 .. ServerPeers - 1, NEW objs, NEW behind, NEW vector,
         Belief(h, m, objs, behind, vector),
         g.peers[m].state \notin Public \cup Early,
         \A q \in 0 .. ServerPeers - 1 : q # m => Lives(h.peers[q], g.peers[q])
  PROVE  Belief(g, NoMaster, objs, behind, vector)
<1>1. Belief(g, m, objs, behind, vector)
  BY BeliefLives
<1>2. NoMaster \in 0 .. ServerPeers /\ \A q \in 0 .. ServerPeers - 1 : q # NoMaster
  BY ConnectionsAssumption DEF NoMaster
<1>3. Asked(g, NoMaster)
  BY <1>1, <1>2 DEF Belief, Asked
<1>4. Objects(NoMaster, objs, behind, vector)
  BY <1>1, <1>2 DEF Belief, Objects, Object
<1>5. Matching(g, NoMaster, objs, behind)
  BY <1>1 DEF Belief, Matching
<1> QED
  BY <1>1, <1>3, <1>4, <1>5 DEF Belief

-----------------------------------------------------------------------------
(* The invariant *)

Serving(a) == a = Server

PeersOf(a) ==
  CASE a = Server -> ServerPeers [] a = Master /\ a # Server -> MasterPeers [] OTHER -> 2

\* Every open host is in order, and the server's is open.
HostsOK ==
  /\ Server \in DOMAIN hosts /\ DOMAIN hosts \subseteq Players \cup {Server, Master}
  /\ \A a \in DOMAIN hosts : HostOK(hosts[a], PeersOf(a), Serving(a))

\* No datagram to the server asks it to acknowledge a DISCONNECT.
NetOK == \A d \in net : Fine(d)

ConnInv ==
  /\ HostsOK /\ NetOK
  /\ Belief(hosts[Server], master, objects, data, clients)

LEMMA PeersOfOK ==
  ASSUME NEW a
  PROVE  PeersOf(a) \in Nat \ {0} /\ (a \in Players => PeersOf(a) = 2)
         /\ PeersOf(Server) = ServerPeers
BY ConnectionsAssumption DEF PeersOf

\* What the invariant is for.
LEMMA ConnInvImplies ==
  ASSUME ConnInv
  PROVE  ObjectsMatchPeers /\ BroadcastOnce
<1>1. \A p \in 0 .. ServerPeers - 1 : Announced(p) <=> Peer(p).state \in Public
  BY DEF Announced, Public
<1>2. \A n \in DOMAIN objects : objects[n].peer \in 0 .. ServerPeers - 1
  BY DEF ConnInv, Belief, Objects, Object
<1>3. ObjectsMatchPeers
  BY <1>1, <1>2 DEF ObjectsMatchPeers, ConnInv, Belief, Matching, Peer
<1>4. BroadcastOnce
  BY DEF BroadcastOnce, ConnInv, Belief, Reaching, Peer
<1> QED
  BY <1>3, <1>4

-----------------------------------------------------------------------------
(* Events that are taken *)

Silenced(h) == [h EXCEPT !.event = NoEvent]

LEMMA SilencedCall ==
  ASSUME NEW n, NEW serving, NEW h, NEW g, Call(h, g, n, serving), HostOK(h, n, serving),
         g.event = h.event
  PROVE  Call(Silenced(h), Silenced(g), n, serving)
<1>1. /\ HostOK(Silenced(g), n, serving) /\ Silenced(g).peers = g.peers
      /\ Silenced(g).event = NoEvent
      /\ Silenced(h).peers = h.peers /\ Silenced(h).event = NoEvent
  BY SilencedOK DEF Silenced, Call
<1> DEFINE a == Silenced(h)
           b == Silenced(g)
<1> HIDE DEF a, b
<1>2. ASSUME serving PROVE Goes(a, b, n)
  <2>1. \A p : ~Tells(h, g, p, "CONNECT") /\ ~Tells(h, g, p, "DISCONNECT")
    BY DEF Tells
  <2>2. \A p \in 0 .. n - 1 : h.peers[p].state \notin Early => Lives(h.peers[p], g.peers[p])
    BY <1>2, <2>1 DEF Call, Goes
  <2>3. \A p : ~Tells(a, b, p, "CONNECT") /\ ~Tells(a, b, p, "DISCONNECT")
    BY <1>1 DEF Tells, a, b
  <2>4. a.peers = h.peers /\ b.peers = g.peers /\ a.event = NoEvent /\ b.event = NoEvent
    BY <1>1 DEF a, b
  <2> QED
    BY <2>2, <2>3, <2>4 DEF Goes
<1>3. HostOK(b, n, serving)
  BY <1>1 DEF b
<1> QED
  BY <1>2, <1>3 DEF Call, a, b

LEMMA SilentCall ==
  ASSUME NEW n, NEW serving, NEW h, HostOK(h, n, serving), h.event = NoEvent
  PROVE  Call(h, Silenced(h), n, serving) /\ Call(Silenced(h), h, n, serving)
<1> DEFINE g == Silenced(h)
<1>1. HostOK(g, n, serving) /\ g.peers = h.peers /\ g.event = NoEvent
  BY SilencedOK DEF Silenced
<1> HIDE DEF g
<1>2. \A p : /\ ~Tells(h, g, p, "CONNECT") /\ ~Tells(h, g, p, "DISCONNECT")
             /\ ~Tells(g, h, p, "CONNECT") /\ ~Tells(g, h, p, "DISCONNECT")
  BY <1>1 DEF Tells
<1>3. \A p : Lives(h.peers[p], g.peers[p]) /\ Lives(g.peers[p], h.peers[p])
  BY <1>1 DEF Lives
<1>4. Goes(h, g, n) /\ Goes(g, h, n)
  BY <1>1, <1>2, <1>3 DEF Goes
<1> QED
  BY <1>1, <1>4 DEF Call, g

LEMMA SameInterval ==
  ASSUME NEW m \in Nat, NEW n \in Nat, 1 .. m = 1 .. n
  PROVE  m = n
<1>1. m > 0 => m \in 1 .. n
  <2>1. m > 0 => m \in 1 .. m
    OBVIOUS
  <2> QED
    BY <2>1
<1>2. n > 0 => n \in 1 .. m
  <2>1. n > 0 => n \in 1 .. n
    OBVIOUS
  <2> QED
    BY <2>1
<1>3. (m > 0 => m <= n) /\ (n > 0 => n <= m)
  BY <1>1, <1>2
<1> QED
  BY <1>3

\* A call at any host.
LEMMA ServedCall ==
  ASSUME ConnInv, NEW a \in DOMAIN hosts, NEW batch \in Batches(a), NEW choices
  PROVE  Call(Quieted(hosts[a]), Service(hosts[a], a, batch, choices, TRUE).host,
              PeersOf(a), Serving(a))
<1>1. PICK n \in 0 .. Batch : batch \in [1 .. n -> {d \in net : d.to = a}]
  BY DEF Batches
<1>2. n \in Nat /\ Len(batch) = n
  <2>1. n \in Nat
    BY ConnectionsAssumption
  <2>2. batch \in Seq({d \in net : d.to = a})
    BY <1>1, <2>1, SeqDef
  <2> DEFINE l == Len(batch)
  <2>3. DOMAIN batch = 1 .. l /\ l \in Nat /\ DOMAIN batch = 1 .. n
    BY <1>1, <2>2
  <2> HIDE DEF l
  <2>4. l = n
    BY <2>1, <2>3, SameInterval
  <2> QED
    BY <2>1, <2>4 DEF l
<1>3. Given(batch, Serving(a))
  <2>1. \A k \in 1 .. n : batch[k] \in net /\ batch[k].to = a
    BY <1>1
  <2> QED
    BY <1>2, <2>1 DEF Given, ConnInv, NetOK, Serving
<1>4. /\ PeersOf(a) \in Nat /\ (Serving(a) <=> a = Server)
      /\ HostOK(hosts[a], PeersOf(a), Serving(a))
  BY PeersOfOK DEF ConnInv, HostsOK, Serving
<1> QED
  BY <1>3, <1>4, ServiceCall

\* Which hosts there are then, and what is on the net.
LEMMA CalledOK ==
  ASSUME ConnInv, NEW a \in DOMAIN hosts, NEW choices, NEW taken, NEW h,
         HostOK(h, PeersOf(a), Serving(a)), Called(a, choices, taken, h)
  PROVE  /\ HostsOK' /\ NetOK' /\ hosts'[a] = Quieted(h)
         /\ a # Server => hosts'[Server] = hosts[Server]
<1>1. /\ hosts' = [hosts EXCEPT ![a] = Quieted(h)]
      /\ \E S : net' = (net \ S) \cup ToSet(h.sent)
  BY DEF Called, Quieted
<1>2. HostOK(Quieted(h), PeersOf(a), Serving(a))
  BY QuietedOK
<1>3. /\ DOMAIN hosts' = DOMAIN hosts /\ hosts'[a] = Quieted(h)
      /\ \A b \in DOMAIN hosts : b # a => hosts'[b] = hosts[b]
  BY <1>1
<1>4. HostsOK'
  <2>1. \A b \in DOMAIN hosts : HostOK(hosts'[b], PeersOf(b), Serving(b))
    BY <1>2, <1>3 DEF ConnInv, HostsOK
  <2> QED
    BY <1>3, <2>1 DEF ConnInv, HostsOK, HostOK, Proper, Letters, Letter, Debts
<1>5. NetOK'
  <2>1. \A d \in ToSet(h.sent) : Fine(d)
    BY DEF HostOK, ToSet
  <2> QED
    BY <1>1, <2>1 DEF ConnInv, NetOK
<1> QED
  BY <1>3, <1>4, <1>5 DEF ConnInv, HostsOK

\* A step of somebody else leaves the server what it believes.
LEMMA OthersStep ==
  ASSUME ConnInv, HostsOK', NetOK', hosts'[Server] = hosts[Server],
         UNCHANGED <<master, objects, clients, data>>
  PROVE  ConnInv'
BY DEF ConnInv, Belief, Asked, Objects, Object, Matching, Reaching

-----------------------------------------------------------------------------
(* What a call of the server's host d may tell, once its event was taken    *)
(* and the host has become f.                                               *)

Outcome(d, f) ==
  /\ HostOK(f, ServerPeers, Serving(Server))
  /\ d.event = NoEvent \/ d.event.peer \in 0 .. ServerPeers - 1
  /\ \A p \in 0 .. ServerPeers - 1 :
       /\ d.event.type = "DISCONNECT" /\ d.event.peer = p =>
            f.peers[p].state \notin Public \cup Early
       /\ p # master =>
            /\ d.event.type = "CONNECT" /\ d.event.peer = p =>
                 /\ Peer(p).state \notin Public
                 /\ d.peers[p].state \in Public /\ f.peers[p].state \in Public
                 /\ f.peers[p].connectID = d.peers[p].connectID
            /\ d.event.type = "DISCONNECT" /\ d.event.peer = p =>
                 Peer(p).state \in Public
            /\ ~ (d.event.type \in {"CONNECT", "DISCONNECT"} /\ d.event.peer = p) =>
                 Lives(Peer(p), f.peers[p])

\* The two calls, one behind the other.
LEMMA OutcomeOf ==
  ASSUME NEW h, NEW d, NEW s, NEW f, NEW before, NEW n,
         before.event = NoEvent, before.peers = h.peers,
         Goes(before, d, n), s.peers = d.peers, s.event = NoEvent, f.event = NoEvent,
         Goes(s, f, n), NEW p \in 0 .. n - 1
  PROVE  /\ d.event.type = "DISCONNECT" /\ d.event.peer = p =>
              f.peers[p].state \notin Public \cup Early
         /\ h.peers[p].state \notin Early =>
              /\ d.event.type = "CONNECT" /\ d.event.peer = p =>
                   /\ h.peers[p].state \notin Public
                   /\ d.peers[p].state \in Public /\ f.peers[p].state \in Public
                   /\ f.peers[p].connectID = d.peers[p].connectID
              /\ d.event.type = "DISCONNECT" /\ d.event.peer = p =>
                   h.peers[p].state \in Public
              /\ ~ (d.event.type \in {"CONNECT", "DISCONNECT"} /\ d.event.peer = p) =>
                   Lives(h.peers[p], f.peers[p])
<1> DEFINE x == h.peers[p]
           y == d.peers[p]
           z == f.peers[p]
<1>1. ~Tells(s, f, p, "CONNECT") /\ ~Tells(s, f, p, "DISCONNECT")
  BY DEF Tells
<1>2. Lives(y, z)
  BY <1>1 DEF Goes, Lives
<1>3. /\ Tells(before, d, p, "CONNECT") <=> d.event.type = "CONNECT" /\ d.event.peer = p
      /\ Tells(before, d, p, "DISCONNECT") <=> d.event.type = "DISCONNECT" /\ d.event.peer = p
  BY DEF Tells, NoEvent
<1>4. Lives(x, y) => Lives(x, z)
  BY <1>2, LivesOn
<1>5. Public \cap Early = {}
  BY DEF Public, Early
<1>6. /\ Tells(before, d, p, "DISCONNECT") => y.state \notin Public \cup Early
      /\ x.state \notin Early =>
           /\ Tells(before, d, p, "CONNECT") => x.state \notin Public /\ y.state \in Public
           /\ Tells(before, d, p, "DISCONNECT") => x.state \in Public
           /\ ~Tells(before, d, p, "CONNECT") /\ ~Tells(before, d, p, "DISCONNECT") =>
                Lives(x, y)
  BY DEF Goes
<1>7. /\ y.state \notin Early => z.state \notin Early /\ (z.state \in Public <=> y.state \in Public)
      /\ y.state \in Public => y.state \notin Early /\ z.connectID = y.connectID
  BY <1>2, <1>5 DEF Lives
<1> HIDE DEF x, y, z
<1> QED
  BY <1>3, <1>4, <1>5, <1>6, <1>7 DEF x, y, z

LEMMA ServerOutcome ==
  ASSUME ConnInv, NEW batch \in Batches(Server), NEW choices,
         NEW done, done = Service(hosts[Server], Server, batch, choices, TRUE),
         NEW f, Call(Silenced(done.host), f, ServerPeers, Serving(Server)),
         f.event = NoEvent
  PROVE  Outcome(done.host, f)
<1> DEFINE before == Quieted(hosts[Server])
           d == done.host
           s == Silenced(d)
<1>1. Call(before, d, ServerPeers, Serving(Server))
  BY ServedCall, PeersOfOK DEF ConnInv, HostsOK
<1>2. HostOK(hosts[Server], ServerPeers, Serving(Server))
  BY PeersOfOK DEF ConnInv, HostsOK
<1>3. before.event = NoEvent /\ before.peers = hosts[Server].peers
  BY <1>2, QuietedOK
<1>4. HostOK(d, ServerPeers, Serving(Server)) /\ HostOK(f, ServerPeers, Serving(Server))
  BY <1>1 DEF Call
<1>5. s.event = NoEvent /\ s.peers = d.peers
  BY <1>4, SilencedOK DEF Silenced
<1> HIDE DEF before, d, s
<1>6. Goes(before, d, ServerPeers) /\ Goes(s, f, ServerPeers)
  <2>1. Serving(Server)
    BY DEF Serving
  <2> QED
    BY <1>1, <2>1 DEF Call, s, d
<1>7. d.event = NoEvent \/ d.event.peer \in 0 .. ServerPeers - 1
  BY <1>4 DEF HostOK
<1>8. ASSUME NEW p \in 0 .. ServerPeers - 1
      PROVE  /\ d.event.type = "DISCONNECT" /\ d.event.peer = p =>
                  f.peers[p].state \notin Public \cup Early
             /\ p # master =>
                  /\ d.event.type = "CONNECT" /\ d.event.peer = p =>
                       /\ Peer(p).state \notin Public
                       /\ d.peers[p].state \in Public /\ f.peers[p].state \in Public
                       /\ f.peers[p].connectID = d.peers[p].connectID
                  /\ d.event.type = "DISCONNECT" /\ d.event.peer = p =>
                       Peer(p).state \in Public
                  /\ ~ (d.event.type \in {"CONNECT", "DISCONNECT"} /\ d.event.peer = p) =>
                       Lives(Peer(p), f.peers[p])
  <2> DEFINE h == hosts[Server]
  <2>1. p # master => h.peers[p].state \notin Early
    BY DEF ConnInv, Belief, Asked
  <2> HIDE DEF h
  <2>2. before.peers = h.peers /\ Peer(p) = h.peers[p]
    BY <1>3 DEF h, Peer
  <2> QED
    BY <1>3, <1>5, <1>6, <2>1, <2>2, OutcomeOf
<1> QED
  BY <1>4, <1>7, <1>8 DEF Outcome, d

\* The host of a call is in order, and tells the truth.
LEMMA ServerDone ==
  ASSUME ConnInv, NEW batch \in Batches(Server), NEW choices,
         NEW done, done = Service(hosts[Server], Server, batch, choices, TRUE)
  PROVE  /\ HostOK(done.host, ServerPeers, Serving(Server))
         /\ HostOK(Silenced(done.host), ServerPeers, Serving(Server))
         /\ Silenced(done.host).peers = done.host.peers
         /\ Silenced(done.host).event = NoEvent
<1>1. HostOK(done.host, ServerPeers, Serving(Server))
  BY ServedCall, PeersOfOK DEF ConnInv, HostsOK, Call
<1> DEFINE d == done.host
<1> HIDE DEF d
<1>2. /\ HostOK(Silenced(d), ServerPeers, Serving(Server))
      /\ Silenced(d).peers = d.peers /\ Silenced(d).event = NoEvent
  <2>1. HostOK(d, ServerPeers, Serving(Server))
    BY <1>1 DEF d
  <2> QED
    BY <2>1, SilencedOK DEF Silenced
<1> QED
  BY <1>1, <1>2 DEF d

\* Behind the event the server flushes its host.
LEMMA FlushedCall ==
  ASSUME NEW h, HostOK(Silenced(h), ServerPeers, Serving(Server)),
         Silenced(h).event = NoEvent
  PROVE  /\ Call(Silenced(h), Flushed(h), ServerPeers, Serving(Server))
         /\ Flushed(h).event = NoEvent
<1> DEFINE s == Silenced(h)
           self == Server
<1>1. Flushed(h) = Flush(s, self)
  BY DEF Flushed, Silenced
<1>2. ServerPeers \in Nat /\ (Serving(Server) <=> self = Server)
  BY ConnectionsAssumption DEF Serving
<1> HIDE DEF s, self
<1> QED
  BY <1>1, <1>2, FlushCall DEF s

\* The server's own step.
LEMMA ServerStepOK ==
  ASSUME ConnInv, NEW choices, NEW taken, NEW f, Called(Server, choices, taken, f),
         HostOK(f, ServerPeers, Serving(Server)),
         Belief(f, master', objects', data', clients')
  PROVE  ConnInv'
<1>1. Server \in DOMAIN hosts /\ PeersOf(Server) = ServerPeers
  BY PeersOfOK DEF ConnInv, HostsOK
<1>2. HostsOK' /\ NetOK' /\ hosts'[Server] = Quieted(f)
  BY <1>1, CalledOK
<1> DEFINE g == Quieted(f)
<1>3. g.peers = f.peers
  BY QuietedOK
<1> HIDE DEF g
<1>4. \A p \in 0 .. ServerPeers - 1 : Lives(f.peers[p], g.peers[p])
  BY <1>3 DEF Lives
<1>5. Belief(g, master', objects', data', clients')
  BY <1>4, BeliefLives
<1>6. Belief(hosts'[Server], master', objects', data', clients')
  BY <1>2, <1>5 DEF g
<1> QED
  BY <1>2, <1>6 DEF ConnInv, Belief, Asked, Objects, Object, Matching, Reaching

-----------------------------------------------------------------------------
(* The steps of the server *)

\* Nothing is told of a client.
LEMMA NothingTold ==
  ASSUME ConnInv, NEW d, NEW f, Outcome(d, f),
         d.event.type \notin {"CONNECT", "DISCONNECT"} \/ d.event.peer = master
  PROVE  Belief(f, master, objects, data, clients)
<1> DEFINE h == hosts[Server]
<1>1. \A p \in 0 .. ServerPeers - 1 : p # master => Lives(h.peers[p], f.peers[p])
  BY DEF Outcome, Peer
<1>2. Belief(h, master, objects, data, clients)
  BY DEF ConnInv
<1> HIDE DEF h
<1> QED
  BY <1>1, <1>2, BeliefLives

LEMMA ServerIdleOK ==
  ASSUME ConnInv, NEW batch \in Batches(Server), NEW choices,
         NEW done, done = Service(hosts[Server], Server, batch, choices, TRUE),
         ServerIdle(choices, done)
  PROVE  ConnInv'
<1> DEFINE d == done.host
<1>1. HostOK(d, ServerPeers, Serving(Server)) /\ d.event = NoEvent
  BY ServerDone DEF ServerIdle
<1>2. Called(Server, choices, done.taken, d) /\ UNCHANGED <<master, objects, clients, data>>
  BY DEF ServerIdle
<1> HIDE DEF d
<1>3. Call(Silenced(d), d, ServerPeers, Serving(Server))
  BY <1>1, SilentCall
<1>4. Outcome(d, d)
  BY <1>1, <1>3, ServerOutcome DEF d
<1>5. Belief(d, master, objects, data, clients)
  BY <1>1, <1>4, NothingTold DEF NoEvent
<1> QED
  BY <1>1, <1>2, <1>5, ServerStepOK

\* The host that the server flushed.
LEMMA FlushedOutcome ==
  ASSUME ConnInv, NEW batch \in Batches(Server), NEW choices,
         NEW done, done = Service(hosts[Server], Server, batch, choices, TRUE)
  PROVE  /\ Outcome(done.host, Flushed(done.host))
         /\ HostOK(Flushed(done.host), ServerPeers, Serving(Server))
<1> DEFINE d == done.host
           f == Flushed(d)
<1>1. HostOK(Silenced(d), ServerPeers, Serving(Server)) /\ Silenced(d).event = NoEvent
  BY ServerDone
<1> HIDE DEF d
<1>2. Call(Silenced(d), f, ServerPeers, Serving(Server)) /\ f.event = NoEvent
  BY <1>1, FlushedCall
<1> HIDE DEF f
<1>3. Outcome(d, f)
  BY <1>2, ServerOutcome DEF d
<1>4. HostOK(f, ServerPeers, Serving(Server))
  BY <1>2 DEF Call
<1> QED
  BY <1>3, <1>4 DEF d, f

LEMMA ServerHandlesPacketOK ==
  ASSUME ConnInv, NEW batch \in Batches(Server), NEW choices,
         NEW done, done = Service(hosts[Server], Server, batch, choices, TRUE),
         ServerHandlesPacket(choices, done)
  PROVE  ConnInv'
<1> DEFINE d == done.host
           f == Flushed(d)
<1>1. /\ d.event.type = "RECEIVE" /\ Called(Server, choices, done.taken, f)
      /\ UNCHANGED <<master, objects, clients, data>>
  BY DEF ServerHandlesPacket
<1>2. Outcome(d, f) /\ HostOK(f, ServerPeers, Serving(Server))
  BY FlushedOutcome
<1> HIDE DEF d, f
<1>3. Belief(f, master, objects, data, clients)
  BY <1>1, <1>2, NothingTold
<1> QED
  BY <1>1, <1>2, <1>3, ServerStepOK

LEMMA ServerLosesMasterOK ==
  ASSUME ConnInv, NEW batch \in Batches(Server), NEW choices,
         NEW done, done = Service(hosts[Server], Server, batch, choices, TRUE),
         ServerLosesMaster(choices, done)
  PROVE  ConnInv'
<1> DEFINE d == done.host
           f == Flushed(d)
           h == hosts[Server]
<1>1. /\ d.event.type = "DISCONNECT" /\ d.event.peer = master
      /\ Called(Server, choices, done.taken, f) /\ master' = NoMaster
      /\ UNCHANGED <<objects, clients, data>>
  BY DEF ServerLosesMaster
<1>2. Outcome(d, f) /\ HostOK(f, ServerPeers, Serving(Server))
  BY FlushedOutcome
<1> HIDE DEF d, f
<1>3. master \in 0 .. ServerPeers - 1
  BY <1>1, <1>2 DEF Outcome, NoEvent
<1>4. /\ f.peers[master].state \notin Public \cup Early
      /\ \A p \in 0 .. ServerPeers - 1 : p # master => Lives(h.peers[p], f.peers[p])
  BY <1>1, <1>2, <1>3 DEF Outcome, Peer
<1>5. Belief(h, master, objects, data, clients)
  BY DEF ConnInv
<1> HIDE DEF h
<1>6. Belief(f, NoMaster, objects, data, clients)
  BY <1>3, <1>4, <1>5, BeliefAlone
<1>7. Belief(f, master', objects', data', clients')
  BY <1>1, <1>6
<1> QED
  BY <1>1, <1>2, <1>7, ServerStepOK

LEMMA ServerLosesClientOK ==
  ASSUME ConnInv, NEW batch \in Batches(Server), NEW choices,
         NEW done, done = Service(hosts[Server], Server, batch, choices, TRUE),
         ServerLosesClient(choices, done)
  PROVE  ConnInv'
<1> DEFINE d == done.host
           f == Flushed(d)
           h == hosts[Server]
           p == d.event.peer
<1>1. /\ d.event.type = "DISCONNECT" /\ p # master
      /\ Called(Server, choices, done.taken, f)
      /\ objects' = [objects EXCEPT ![data[p]].state = "EMPTY", ![data[p]].lost = @ + 1]
      /\ UNCHANGED <<master, clients, data>>
  BY DEF ServerLosesClient
<1>2. Outcome(d, f) /\ HostOK(f, ServerPeers, Serving(Server))
  BY FlushedOutcome
<1> HIDE DEF d, f
<1>3. p \in 0 .. ServerPeers - 1
  BY <1>1, <1>2 DEF Outcome, NoEvent
<1>4. /\ f.peers[p].state \notin Public \cup Early /\ h.peers[p].state \in Public
      /\ \A q \in 0 .. ServerPeers - 1 : q # master /\ q # p => Lives(h.peers[q], f.peers[q])
  BY <1>1, <1>2, <1>3 DEF Outcome, Peer
<1>5. Belief(h, master, objects, data, clients)
  BY DEF ConnInv
<1> HIDE DEF h, p
<1>6. Belief(f, master, objects', data, clients)
  BY <1>1, <1>3, <1>4, <1>5, BeliefLost
<1>7. Belief(f, master', objects', data', clients')
  BY <1>1, <1>6
<1> QED
  BY <1>1, <1>2, <1>7, ServerStepOK

\* MasterCheckin sends the master a message.
LEMMA ServerChecksInOK ==
  ASSUME ConnInv, NEW batch \in Batches(Server), NEW choices,
         NEW done, done = Service(hosts[Server], Server, batch, choices, TRUE),
         ServerChecksIn(choices, done)
  PROVE  ConnInv'
<1> DEFINE d == done.host
           q == Send(d.peers[master], DefaultChannel, <<0>>, Sending)
           g == With(d, master, q)
           f == Flushed(g)
<1>1. /\ d.event.type = "CONNECT" /\ d.event.peer = master
      /\ Called(Server, choices, done.taken, f)
      /\ UNCHANGED <<master, objects, clients, data>>
  BY DEF ServerChecksIn
<1>2. HostOK(d, ServerPeers, Serving(Server))
  BY ServerDone
<1> HIDE DEF d
<1>3. master \in 0 .. ServerPeers - 1
  BY <1>1, <1>2 DEF HostOK, NoEvent
<1>4. Proper(d.peers[master], Serving(Server))
  BY <1>2, <1>3 DEF HostOK
<1>5. Proper(q, Serving(Server)) /\ Lives(d.peers[master], q)
  BY <1>4, SendProper
<1> HIDE DEF q
<1>6. Call(d, g, ServerPeers, Serving(Server)) /\ g.event = d.event
  BY <1>2, <1>3, <1>5, WithCall, WithOne
<1> HIDE DEF g
<1>7. HostOK(g, ServerPeers, Serving(Server))
  BY <1>6 DEF Call
<1>8. Call(Silenced(d), Silenced(g), ServerPeers, Serving(Server))
  BY <1>2, <1>6, SilencedCall
<1>9. HostOK(Silenced(g), ServerPeers, Serving(Server)) /\ Silenced(g).event = NoEvent
  BY <1>7, SilencedOK DEF Silenced
<1>10. Call(Silenced(g), f, ServerPeers, Serving(Server)) /\ f.event = NoEvent
  BY <1>9, FlushedCall
<1> HIDE DEF f
<1>11. Call(Silenced(d), f, ServerPeers, Serving(Server))
  BY <1>8, <1>10, CallOn
<1>12. Outcome(d, f)
  BY <1>10, <1>11, ServerOutcome DEF d
<1>13. Belief(f, master, objects, data, clients)
  BY <1>1, <1>12, NothingTold
<1>14. HostOK(f, ServerPeers, Serving(Server))
  BY <1>10 DEF Call
<1> QED
  BY <1>1, <1>13, <1>14, ServerStepOK

\* A new object, whether the vector gets it or not.
LEMMA NewObjectOK ==
  ASSUME ConnInv, NEW done, NEW f, Outcome(done.host, f),
         done.host.event.type = "CONNECT", done.host.event.peer # master,
         NewObject(done), UNCHANGED master,
         \/ clients' = WithClient(Len(objects) + 1)
         \/ clients' = clients /\ f.peers[done.host.event.peer].state # "CONNECTED"
  PROVE  Belief(f, master', objects', data', clients')
<1> DEFINE d == done.host
           h == hosts[Server]
           p == d.event.peer
           l == Len(objects)
<1>1. /\ objects' = Append(objects, [peer |-> p, state |-> "AUTH", lost |-> 0,
                                     connection |-> d.peers[p].connectID])
      /\ data' = [data EXCEPT ![p] = l + 1]
  BY DEF NewObject
<1>2. Outcome(d, f) /\ d.event.type = "CONNECT" /\ p # master
  OBVIOUS
<1> HIDE DEF d
<1>3. p \in 0 .. ServerPeers - 1
  BY <1>2 DEF Outcome, NoEvent
<1>4. /\ h.peers[p].state \notin Public /\ f.peers[p].state \in Public
      /\ f.peers[p].connectID = d.peers[p].connectID
      /\ \A q \in 0 .. ServerPeers - 1 : q # master /\ q # p => Lives(h.peers[q], f.peers[q])
  BY <1>2, <1>3 DEF Outcome, Peer
<1>5. Belief(h, master, objects, data, clients)
  BY DEF ConnInv
<1>6. /\ l \in Nat /\ clients \in Seq(1 .. l) /\ DOMAIN objects = 1 .. l
      /\ \A i, j \in DOMAIN clients : clients[i] = clients[j] => i = j
  BY <1>5, ListOver DEF Belief, Objects, Reaching, IsList
<1>7. /\ clients' \in Seq(1 .. l + 1)
      /\ \A i, j \in DOMAIN clients' : clients'[i] = clients'[j] => i = j
      /\ \A n \in DOMAIN objects :
           objects[n].state = "AUTH" /\ n \in ToSet(clients) => n \in ToSet(clients')
      /\ f.peers[p].state = "CONNECTED" => l + 1 \in ToSet(clients')
  <2>1. CASE clients' = WithClient(l + 1)
    BY <1>6, <2>1, WithClientOnce
  <2>2. CASE clients' = clients /\ f.peers[p].state # "CONNECTED"
    <3>1. 1 .. l \subseteq 1 .. l + 1
      BY <1>6
    <3>2. clients \in Seq(1 .. l + 1)
      BY <1>6, <3>1, WiderSeq
    <3> QED
      BY <1>6, <2>2, <3>2
  <2> QED
    BY <2>1, <2>2 DEF d
<1> DEFINE o == [peer |-> p, state |-> "AUTH", lost |-> 0, connection |-> f.peers[p].connectID]
           longer == clients'
<1>8. objects' = Append(objects, o)
  BY <1>1, <1>4
<1> HIDE DEF h, p, longer
<1>9. Belief(f, master, Append(objects, o), [data EXCEPT ![p] = l + 1], longer)
  BY <1>2, <1>3, <1>4, <1>5, <1>7, BeliefNew DEF longer
<1> QED
  BY <1>1, <1>8, <1>9 DEF longer

LEMMA ServerAcceptsOK ==
  ASSUME ConnInv, NEW batch \in Batches(Server), NEW choices,
         NEW done, done = Service(hosts[Server], Server, batch, choices, TRUE),
         ServerAccepts(choices, done)
  PROVE  ConnInv'
<1> DEFINE f == Flushed(done.host)
<1>1. Called(Server, choices, done.taken, f)
  BY DEF ServerAccepts
<1>2. Outcome(done.host, f) /\ HostOK(f, ServerPeers, Serving(Server))
  BY FlushedOutcome
<1> HIDE DEF f
<1>3. Belief(f, master', objects', data', clients')
  BY <1>2, NewObjectOK DEF ServerAccepts
<1> QED
  BY <1>1, <1>2, <1>3, ServerStepOK

\* enet_peer_disconnect, and the flush.
LEMMA ServerRefusesOK ==
  ASSUME ConnInv, NEW batch \in Batches(Server), NEW choices,
         NEW done, done = Service(hosts[Server], Server, batch, choices, TRUE),
         ServerRefuses(choices, done)
  PROVE  ConnInv'
<1> DEFINE d == done.host
           s == Silenced(d)
           p == d.event.peer
           g == PeerDisconnect(s, p, Reason, Server)
           f == Flushed(g)
<1>1. /\ d.event.type = "CONNECT" /\ p # master
      /\ Called(Server, choices, done.taken, f)
      /\ NewObject(done) /\ UNCHANGED <<master, clients>>
  BY DEF ServerRefuses, Silenced
<1>2. /\ HostOK(d, ServerPeers, Serving(Server))
      /\ HostOK(s, ServerPeers, Serving(Server)) /\ s.peers = d.peers /\ s.event = NoEvent
  BY ServerDone
<1>3. Outcome(d, s)
  <2>1. Call(s, s, ServerPeers, Serving(Server))
    BY <1>2, CallNone
  <2> QED
    BY <1>2, <2>1, ServerOutcome
<1> HIDE DEF d
<1>4. p \in 0 .. ServerPeers - 1
  BY <1>1, <1>3 DEF Outcome, NoEvent
<1>5. s.peers[p].state \in Public
  BY <1>1, <1>2, <1>3, <1>4 DEF Outcome
<1> HIDE DEF s, p
<1>6. /\ Call(s, g, ServerPeers, Serving(Server)) /\ g.event = NoEvent
      /\ g.peers[p].state # "CONNECTED"
  <2>1. Serves(Serving(Server))
    BY DEF Serves, Serving
  <2> QED
    BY <1>2, <1>4, <1>5, <2>1, PeerDisconnectCall
<1> HIDE DEF g
<1>7. HostOK(g, ServerPeers, Serving(Server))
  BY <1>6 DEF Call
<1>8. /\ Call(g, Silenced(g), ServerPeers, Serving(Server))
      /\ HostOK(Silenced(g), ServerPeers, Serving(Server)) /\ Silenced(g).event = NoEvent
  BY <1>6, <1>7, SilentCall, SilencedOK DEF Silenced
<1>9. Call(Silenced(g), f, ServerPeers, Serving(Server)) /\ f.event = NoEvent
  BY <1>8, FlushedCall
<1> HIDE DEF f
<1>10. Call(g, f, ServerPeers, Serving(Server))
  BY <1>8, <1>9, CallOn
<1>11. Call(s, f, ServerPeers, Serving(Server))
  BY <1>6, <1>10, CallOn
<1>12. Outcome(d, f)
  BY <1>9, <1>11, ServerOutcome DEF d, s
<1>13. f.peers[p].state # "CONNECTED"
  <2>1. Serving(Server)
    BY DEF Serving
  <2>2. Goes(s, g, ServerPeers) /\ Goes(g, f, ServerPeers)
    BY <1>6, <1>10, <2>1 DEF Call
  <2>3. ~Tells(s, g, p, "CONNECT") /\ ~Tells(s, g, p, "DISCONNECT")
    BY <1>2, <1>6 DEF Tells
  <2>4. ~Tells(g, f, p, "CONNECT") /\ ~Tells(g, f, p, "DISCONNECT")
    BY <1>6, <1>9 DEF Tells
  <2>5. s.peers[p].state \notin Early
    BY <1>5 DEF Public, Early
  <2>6. Lives(s.peers[p], g.peers[p])
    BY <1>4, <2>2, <2>3, <2>5 DEF Goes
  <2>7. g.peers[p].state \notin Early
    BY <2>5, <2>6 DEF Lives
  <2>8. Lives(g.peers[p], f.peers[p])
    BY <1>4, <2>2, <2>4, <2>7 DEF Goes
  <2> QED
    BY <1>6, <2>7, <2>8 DEF Lives
<1>14. Belief(f, master', objects', data', clients')
  BY <1>1, <1>12, <1>13, NewObjectOK DEF d, p
<1>15. HostOK(f, ServerPeers, Serving(Server))
  BY <1>9 DEF Call
<1> QED
  BY <1>1, <1>14, <1>15, ServerStepOK

LEMMA ServerStepKeeps ==
  ASSUME ConnInv, ServerStep
  PROVE  ConnInv'
<1>1. PICK batch \in Batches(Server), choices \in Timings(hosts[Server]) :
        ServerTakes(choices, Service(hosts[Server], Server, batch, choices, TRUE))
  BY DEF ServerStep
<1> DEFINE done == Service(hosts[Server], Server, batch, choices, TRUE)
<1>2. ServerTakes(choices, done)
  BY <1>1
<1>3. done = Service(hosts[Server], Server, batch, choices, TRUE)
  OBVIOUS
<1> HIDE DEF done
<1> QED
  BY <1>2, <1>3, ServerIdleOK, ServerAcceptsOK, ServerRefusesOK, ServerChecksInOK,
     ServerLosesClientOK, ServerLosesMasterOK, ServerHandlesPacketOK DEF ServerTakes

-----------------------------------------------------------------------------
(* The steps of the master and of the clients *)

\* A call at another host.
LEMMA OtherCalled ==
  ASSUME ConnInv, NEW a \in DOMAIN hosts, a # Server, NEW choices, NEW taken, NEW h,
         HostOK(h, PeersOf(a), Serving(a)), Called(a, choices, taken, h),
         UNCHANGED <<master, objects, clients, data>>
  PROVE  ConnInv'
BY CalledOK, OthersStep

LEMMA MasterStepsOK ==
  ASSUME ConnInv, MasterSteps
  PROVE  ConnInv'
<1> DEFINE a == Master
<1>1. PICK batch \in Batches(Master), choices \in Timings(hosts[Master]) :
        MasterTakes(choices, Service(hosts[Master], Master, batch, choices, TRUE))
  BY DEF MasterSteps
<1> DEFINE done == Service(hosts[a], a, batch, choices, TRUE)
           d == done.host
           s == Silenced(d)
           g == IF d.event = NoEvent THEN d ELSE Flush(s, a)
<1>2. /\ Called(a, choices, done.taken, g) /\ a \in DOMAIN hosts
      /\ UNCHANGED <<master, objects, clients, data>>
  BY <1>1 DEF MasterTakes, MasterSteps, Silenced
<1>3. a # Server
  BY ConnectionsAssumption
<1>4. HostOK(d, PeersOf(a), Serving(a))
  BY <1>1, <1>2, ServedCall DEF Call
<1> HIDE DEF done
<1>5. PeersOf(a) \in Nat /\ (Serving(a) <=> a = Server)
  BY PeersOfOK DEF Serving
<1> HIDE DEF d, a
<1>6. HostOK(s, PeersOf(a), Serving(a))
  BY <1>4, SilencedOK DEF Silenced
<1> HIDE DEF s
<1>7. HostOK(Flush(s, a), PeersOf(a), Serving(a))
  BY <1>5, <1>6, FlushCall DEF Call
<1>8. HostOK(g, PeersOf(a), Serving(a))
  BY <1>4, <1>7
<1> HIDE DEF g
<1> QED
  BY <1>2, <1>3, <1>8, OtherCalled

LEMMA ClientPollsOK ==
  ASSUME ConnInv, NEW a \in Players, ClientPolls(a)
  PROVE  ConnInv'
<1>1. PICK batch \in Batches(a), choices \in Timings(hosts[a]) :
        ClientTakes(a, choices, Service(hosts[a], a, batch, choices, TRUE))
  BY DEF ClientPolls
<1> DEFINE done == Service(hosts[a], a, batch, choices, TRUE)
           d == done.host
<1>2. /\ Called(a, choices, done.taken, d) /\ a \in DOMAIN hosts
      /\ UNCHANGED <<master, objects, clients, data>>
  BY <1>1 DEF ClientTakes, ClientPolls
<1>3. a # Server
  BY ConnectionsAssumption
<1>4. HostOK(d, PeersOf(a), Serving(a))
  BY <1>2, ServedCall DEF Call
<1> HIDE DEF d, done
<1> QED
  BY <1>2, <1>3, <1>4, OtherCalled

\* One host is another.
LEMMA OneHost ==
  ASSUME ConnInv, NEW a \in Players, NEW h, HostOK(h, 2, Serving(a)),
         DOMAIN hosts' = DOMAIN hosts \cup {a}, hosts'[a] = h,
         \A b \in DOMAIN hosts : b # a => hosts'[b] = hosts[b],
         net' = net, UNCHANGED <<master, objects, clients, data>>
  PROVE  ConnInv'
<1>1. a # Server /\ PeersOf(a) = 2
  BY PeersOfOK, ConnectionsAssumption
<1>2. \A b \in DOMAIN hosts' : HostOK(hosts'[b], PeersOf(b), Serving(b))
  BY <1>1 DEF ConnInv, HostsOK
<1>3. HostsOK'
  BY <1>2 DEF ConnInv, HostsOK, HostOK, Proper, Letters, Letter, Debts
<1>4. NetOK'
  BY DEF ConnInv, NetOK
<1>5. hosts'[Server] = hosts[Server]
  BY <1>1 DEF ConnInv, HostsOK
<1> QED
  BY <1>3, <1>4, <1>5, OthersStep

LEMMA ClientConnectsOK ==
  ASSUME ConnInv, NEW a \in Players, ClientConnects(a)
  PROVE  ConnInv'
<1> DEFINE id == used.connects + 1
           fresh == FreshHost(2, Channels)
           h == Connect(fresh, Server, Channels, id, 0)
           serving == Serving(a)
<1>1. /\ hosts' = [b \in DOMAIN hosts \cup {a} |-> IF b = a THEN h ELSE hosts[b]]
      /\ net' = net /\ UNCHANGED <<master, objects, clients, data>>
  BY DEF ClientConnects
<1>2. serving => Server # Server
  BY ConnectionsAssumption DEF Serving
<1>3. HostOK(fresh, 2, serving)
  BY FreshOK
<1> HIDE DEF fresh, id, serving
<1>4. HostOK(h, 2, serving)
  BY <1>2, <1>3, ConnectOK
<1> HIDE DEF h
<1>5. /\ DOMAIN hosts' = DOMAIN hosts \cup {a} /\ hosts'[a] = h
      /\ \A b \in DOMAIN hosts : b # a => hosts'[b] = hosts[b]
  BY <1>1
<1> QED
  BY <1>1, <1>4, <1>5, OneHost DEF serving

LEMMA ClientSaysOK ==
  ASSUME ConnInv, NEW a \in Players, ClientSays(a)
  PROVE  ConnInv'
<1> DEFINE serving == Serving(a)
           h == hosts[a]
           q == Send(h.peers[0], DefaultChannel, <<h.peers[0].connectID>>, Sending)
           g == With(h, 0, q)
<1>1. /\ hosts' = [hosts EXCEPT ![a] = g] /\ a \in DOMAIN hosts
      /\ net' = net /\ UNCHANGED <<master, objects, clients, data>>
  BY DEF ClientSays
<1>2. HostOK(h, 2, serving)
  BY <1>1, PeersOfOK DEF ConnInv, HostsOK
<1> HIDE DEF h, serving
<1>3. 0 \in 0 .. 2 - 1
  OBVIOUS
<1>4. Proper(h.peers[0], serving)
  BY <1>2, <1>3 DEF HostOK
<1>5. Proper(q, serving) /\ Lives(h.peers[0], q)
  BY <1>4, SendProper
<1> HIDE DEF q
<1>6. HostOK(g, 2, serving)
  BY <1>2, <1>3, <1>5, WithCall
<1> HIDE DEF g
<1>7. /\ DOMAIN hosts' = DOMAIN hosts \cup {a} /\ hosts'[a] = g
      /\ \A b \in DOMAIN hosts : b # a => hosts'[b] = hosts[b]
  BY <1>1
<1> QED
  BY <1>1, <1>6, <1>7, OneHost DEF serving

\* A host is closed; what it sent before stays on the net.
LEMMA ClosedOK ==
  ASSUME ConnInv, NEW a \in Players, Closed(a), NEW sent, \A d \in sent : Fine(d),
         net' = net \cup sent, UNCHANGED <<master, objects, clients, data>>
  PROVE  ConnInv'
<1>1. a # Server
  BY ConnectionsAssumption
<1>2. /\ DOMAIN hosts' = DOMAIN hosts \ {a}
      /\ \A b \in DOMAIN hosts : b # a => hosts'[b] = hosts[b]
  BY DEF Closed
<1>3. \A b \in DOMAIN hosts' : HostOK(hosts'[b], PeersOf(b), Serving(b))
  BY <1>2 DEF ConnInv, HostsOK
<1>4. HostsOK'
  BY <1>1, <1>2, <1>3 DEF ConnInv, HostsOK, HostOK, Proper, Letters, Letter, Debts
<1>5. NetOK'
  BY DEF ConnInv, NetOK
<1>6. hosts'[Server] = hosts[Server]
  BY <1>1, <1>2 DEF ConnInv, HostsOK
<1> QED
  BY <1>4, <1>5, <1>6, OthersStep

LEMMA ClientDisconnectsOK ==
  ASSUME ConnInv, NEW a \in Players, ClientDisconnects(a)
  PROVE  ConnInv'
<1> DEFINE h == hosts[a]
           g == DisconnectNow(h, 0, Reason, a)
           serving == Serving(a)
<1>1. /\ a \in DOMAIN hosts /\ net' = net \cup ToSet(g.sent) /\ Closed(a)
      /\ UNCHANGED <<master, objects, clients, data>>
  BY DEF ClientDisconnects
<1>2. HostOK(h, 2, serving)
  BY <1>1, PeersOfOK DEF ConnInv, HostsOK
<1>3. a # Server /\ (serving <=> a = Server)
  BY ConnectionsAssumption DEF Serving
<1> HIDE DEF h, serving
<1>4. 0 \in 0 .. 2 - 1 /\ 2 \in Nat
  OBVIOUS
<1>5. HostOK(g, 2, serving)
  BY <1>2, <1>3, <1>4, DisconnectNowOK
<1> HIDE DEF g
<1>6. \A d \in ToSet(g.sent) : Fine(d)
  BY <1>5 DEF HostOK, ToSet
<1> QED
  BY <1>1, <1>6, ClosedOK

LEMMA ClientCrashesOK ==
  ASSUME ConnInv, NEW a \in Players, ClientCrashes(a)
  PROVE  ConnInv'
<1> DEFINE sent == {}
<1>1. /\ Closed(a) /\ net' = net \cup sent /\ UNCHANGED <<master, objects, clients, data>>
  BY DEF ClientCrashes
<1>2. \A d \in sent : Fine(d)
  OBVIOUS
<1> HIDE DEF sent
<1> QED
  BY <1>1, <1>2, ClosedOK

-----------------------------------------------------------------------------
(* The theorems *)

\* SetupServer.
LEMMA ConnInvInit ==
  ASSUME Init
  PROVE  ConnInv
<1> DEFINE fresh == FreshHost(ServerPeers, Channels)
           asking == Connect(fresh, Master, 2, 1, 0)
           other == FreshHost(MasterPeers, 1)
           serving == Serving(Server)
           h == hosts[Server]
<1>1. /\ \/ hosts = [a \in {Server} |-> fresh] /\ master = NoMaster
         \/ hosts = [a \in {Server} |-> asking] /\ master = 0
         \/ /\ hosts = [a \in {Server, Master} |-> IF a = Server THEN asking ELSE other]
            /\ master = 0
      /\ net = {} /\ objects = <<>> /\ clients = <<>>
      /\ data = [p \in 0 .. ServerPeers - 1 |-> 0]
  BY DEF Init
<1>2. /\ ServerPeers \in Nat \ {0} /\ MasterPeers \in Nat \ {0} /\ Master # Server
      /\ PeersOf(Server) = ServerPeers /\ PeersOf(Master) = MasterPeers
  BY ConnectionsAssumption DEF PeersOf
<1>3. /\ HostOK(fresh, ServerPeers, serving)
      /\ \A p \in 0 .. ServerPeers - 1 : fresh.peers[p].state = "DISCONNECTED"
  BY <1>2, FreshOK
<1>4. HostOK(other, MasterPeers, Serving(Master))
  BY <1>2, FreshOK
<1> HIDE DEF fresh, other, serving
<1>5. 0 \in 0 .. ServerPeers - 1
  BY <1>2
<1>6. /\ HostOK(asking, ServerPeers, serving)
      /\ \A p \in 0 .. ServerPeers - 1 : p # 0 => asking.peers[p] = fresh.peers[p]
  BY <1>2, <1>3, <1>5, ConnectOK
<1> HIDE DEF asking
<1>7. /\ Server \in DOMAIN hosts /\ DOMAIN hosts \subseteq {Server, Master}
      /\ (h = fresh /\ master = NoMaster) \/ (h = asking /\ master = 0)
      /\ Master \in DOMAIN hosts => hosts[Master] = other
  BY <1>1, <1>2
<1> HIDE DEF h
<1>8. HostsOK
  <2>1. HostOK(h, PeersOf(Server), serving)
    BY <1>2, <1>3, <1>6, <1>7
  <2> QED
    BY <1>2, <1>4, <1>7, <2>1 DEF HostsOK, h, serving
<1>9. NetOK
  BY <1>1 DEF NetOK
<1>10. \A p \in 0 .. ServerPeers - 1 : p # master => h.peers[p].state = "DISCONNECTED"
  BY <1>3, <1>6, <1>7
<1>11. Asked(h, master)
  <2>1. master \in 0 .. ServerPeers
    BY <1>2, <1>7 DEF NoMaster
  <2> QED
    BY <1>10, <2>1 DEF Asked, Early
<1>12. DOMAIN objects = {} /\ Len(objects) = 0 /\ DOMAIN clients = {} /\ IsList(objects)
  <2>1. IsList(<<>>)
    BY NoLetters DEF Letters
  <2> QED
    BY <1>1, <2>1
<1>13. Objects(master, objects, data, clients)
  <2>1. data \in [0 .. ServerPeers - 1 -> 0 .. Len(objects)]
    BY <1>1, <1>12
  <2>2. clients \in Seq(1 .. Len(objects))
    BY <1>1
  <2> QED
    BY <1>12, <2>1, <2>2 DEF Objects
<1>14. Matching(h, master, objects, data)
  BY <1>10, <1>12 DEF Matching, Public
<1>15. Reaching(h, objects, clients)
  BY <1>12 DEF Reaching
<1> QED
  BY <1>8, <1>9, <1>11, <1>13, <1>14, <1>15 DEF ConnInv, Belief, h

LEMMA ConnInvNext ==
  ASSUME ConnInv, [Next]_vars
  PROVE  ConnInv'
<1>1. CASE UNCHANGED vars
  BY <1>1 DEF vars, ConnInv, HostsOK, NetOK, HostOK, Proper, Letters, Letter, Debts,
     Belief, Asked, Objects, Object, Matching, Reaching
<1>2. CASE ServerStep
  BY <1>2, ServerStepKeeps
<1>3. CASE MasterSteps
  BY <1>3, MasterStepsOK
<1>4. CASE \E a \in Players : \/ ClientConnects(a)
                              \/ ClientPolls(a)
                              \/ ClientSays(a)
                              \/ ClientDisconnects(a)
                              \/ ClientCrashes(a)
  BY <1>4, ClientConnectsOK, ClientPollsOK, ClientSaysOK, ClientDisconnectsOK,
     ClientCrashesOK
<1> QED
  BY <1>1, <1>2, <1>3, <1>4 DEF Next

\* Every host is in order and no datagram to the server asks it to acknowledge
\* the end of a connection (enet_peer_disconnect_now does not ask); with that,
\* what NetServer.cpp believes of its clients is true of its ENet host.
THEOREM ConnectionsInv == Spec => []ConnInv
<1>1. Init => ConnInv
  BY ConnInvInit
<1>2. ConnInv /\ [Next]_vars => ConnInv'
  BY ConnInvNext
<1> QED
  BY <1>1, <1>2, PTL DEF Spec

\* NetServer.cpp has a live client object for every connection ENet announced,
\* made for that connection, and for no other; and the handler of DISCONNECT
\* finds it, once.
THEOREM ObjectsMatch == Spec => []ObjectsMatchPeers
<1>1. ConnInv => ObjectsMatchPeers
  BY ConnInvImplies
<1> QED
  BY <1>1, ConnectionsInv, PTL

\* The loop of Broadcast over the vector of clients sends each connected client
\* one packet, however the slots of the vector were used before.
THEOREM BroadcastReachesOnce == Spec => []BroadcastOnce
<1>1. ConnInv => BroadcastOnce
  BY ConnInvImplies
<1> QED
  BY <1>1, ConnectionsInv, PTL
=============================================================================
