----------------------------- MODULE GameSession -----------------------------
(***************************************************************************)
(* The game server with its clients (src/src/main.cpp over NetClient.cpp): *)
(* every client keeps a board of its own, a replica that is changed only   *)
(* by what the server broadcasts.                                          *)
(*                                                                         *)
(* A peer slot holds one client at a time.  Its connection is two reliable *)
(* channels in order (every packet is sent with ENET_PACKET_FLAG_RELIABLE  *)
(* on channel 0) which end with the connection: what has not been taken by *)
(* then is lost.  The server is DedicatedServer, with the events that the  *)
(* clients really cause in the place of those they could cause: the        *)
(* property Spec of that module says that they are among them.             *)
(*                                                                         *)
(* Nobody moves here: MoveOrders is empty and the 'L' and "GM" packets do  *)
(* not occur.  What holds of clients holds as long as no report of moves   *)
(* has made one read behind the packet (Marches).                          *)
(***************************************************************************)
EXTENDS DedicatedServer, SequencesExt

CONSTANTS MaxDials,   \* bound: connections ever made
          MaxKeys,    \* bound: keys ever pressed
          MaxInputs   \* bound: both together

ASSUME SessionAssumption ==
  /\ {MaxDials, MaxKeys, MaxInputs} \subseteq Nat
  /\ MaxDials <= MaxJoins /\ MaxKeys + 4 <= MaxTries
  /\ MoveOrders = {}

VARIABLES client,   \* peer slot -> the client that uses it
          dials,    \* connections made so far
          keys      \* keys pressed so far

sessionVars == <<vars, client, dials, keys>>

(***************************************************************************)
(* A client: how its connection is ("free", "open", "closing" once the     *)
(* client has left, "crashed" once it died), its board, the id it plays as *)
(* (thisPlayer), and what is under way from it (up) and to it (down).      *)
(***************************************************************************)
NoClient == [link |-> "free", board |-> EmptyBoard, me |-> NoPlayer,
             up |-> <<>>, down |-> <<>>]

Open(a)        == client[a].link = "open"
Initialised(a) == Open(a) /\ client[a].me # NoPlayer
NoAddress      == NoPlayer   \* addPlayer() leaves the address unset

SessionInit == Init /\ client = [a \in Peers |-> NoClient] /\ dials = 0 /\ keys = 0

-----------------------------------------------------------------------------
(* The server's side of the network *)

\* A slot whose client died before the server heard of it is a slot to which a
\* connection still is reported.
NetworkEvents ==
  {NoEvent}
  \cup {Connected(a) : a \in {b \in Peers \ members : client[b].link # "free"}}
  \cup {From(a, Head(client[a].up)) : a \in {b \in members : client[b].up # <<>>}}
  \cup {Departed(a) : a \in {b \in members : client[b].link \in {"closing", "crashed"}}}

\* What is left of a client when the server has taken event e.
After(a, e) ==
  CASE e = Departed(a) -> NoClient
    [] e[1] = "receive" /\ e[2] = a -> [client[a] EXCEPT !.up = Tail(@)]
    [] OTHER -> client[a]

\* Broadcast reaches the clients in the client slots.
Deliver(c, a) ==
  IF a \in members /\ c.link = "open" THEN [c EXCEPT !.down = @ \o sent'] ELSE c

ServerTurn ==
  /\ \/ /\ TimedEvent(NetworkEvents)
        /\ client' = [a \in Peers |-> Deliver(After(a, event'), a)]
     \/ /\ FinishTurn
        /\ client' = [a \in Peers |-> Deliver(client[a], a)]
  /\ UNCHANGED <<dials, keys>>

ClockTick == Tick /\ UNCHANGED <<client, dials, keys>>

-----------------------------------------------------------------------------
(* A client's side *)

\* Mutated Dial: the client asks for an id twice.
DialTwice(a) ==
  /\ client[a].link = "free" /\ a \notin members /\ dials < MaxDials
  /\ dials + keys < MaxInputs
  /\ client' = [client EXCEPT ![a] = [NoClient EXCEPT !.link = "open",
                                                      !.up   = <<Join, AskReady, Join>>]]
  /\ dials' = dials + 1
  /\ UNCHANGED <<vars, keys>>

\* Connect, and HandleConnect once connected: ask for an id and the ready list.
Dial(a) ==
  /\ client[a].link = "free" /\ a \notin members /\ dials < MaxDials
  /\ dials + keys < MaxInputs
  /\ client' = [client EXCEPT ![a] = [NoClient EXCEPT !.link = "open",
                                                      !.up   = <<Join, AskReady>>]]
  /\ dials' = dials + 1
  /\ UNCHANGED <<vars, keys>>

\* The window is closed, or the connection is lost.
Leave(a) ==
  /\ Open(a)
  /\ client' = [client EXCEPT ![a].link = "closing", ![a].down = <<>>]
  /\ UNCHANGED <<vars, dials, keys>>

Press(a, m) ==
  /\ Initialised(a) /\ keys < MaxKeys /\ dials + keys < MaxInputs
  /\ client' = [client EXCEPT ![a].up = Append(@, m)]
  /\ keys' = keys + 1
  /\ UNCHANGED <<vars, dials>>

\* Key R in the lobby asks for the opposite of the flag in the client's board.
PressReady(a) ==
  LET c == client[a]
  IN /\ ~IsStarted(c.board)
     /\ Press(a, IF c.board.players[c.me].ready THEN UnreadyMsg(c.me) ELSE ReadyMsg(c.me))

\* Once started it sends "S" alone: the server reads the byte behind the
\* packet, and whatever it finds there makes it one of these.
PressReadyLate(a) ==
  /\ IsStarted(client[a].board)
  /\ \E m \in {Other, ReadyMsg(client[a].me), UnreadyMsg(client[a].me)} : Press(a, m)

PressBuy(a) == \E t \in DOMAIN Cost : Press(a, BuyMsg(client[a].me, t))

\* addPlayer() until id i has been given out.
AddPlayersUpTo(b, i) ==
  LET new == b.lastPlayer + 1 .. i
  IN [b EXCEPT !.lastPlayer = IF i > @ THEN i ELSE @,
               !.players = [p \in Ids(b) \cup new |->
                              IF p \in new
                              THEN NewPlayer(NoAddress, Cardinality(Ids(b)) + p - b.lastPlayer)
                              ELSE b.players[p]]]

\* The client takes the next packet and ends with board b.
Takes(a, b) ==
  /\ client' = [client EXCEPT ![a].down = Tail(@), ![a].board = b]
  /\ UNCHANGED <<vars, dials, keys>>

Incoming(a) == Head(client[a].down)

\* Packets that make a client look up a player, and those that make it print its
\* own id, which dereferences thisPlayer.
LooksUp(m)   == m[1] \in {"SR", "SN", "SD", "GB"}
PrintsOwn(m) == m[1] \in {"SR", "SN", "SD", "SG", "W"}

Heard(a, kinds) == Open(a) /\ client[a].down # <<>> /\ Incoming(a)[1] \in kinds

\* getPlayerById finds the player.  A client that has an id always does (the
\* invariant NewsFindsItsSubject), so it never sends the report of an error.
KnowsSubject(a) == LooksUp(Incoming(a)) => Incoming(a)[2] \in Ids(client[a].board)

\* 'C': an uninitialised client becomes the player announced, whoever asked.
ReceiveId(a) ==
  /\ Heard(a, {"C"})
  /\ LET c == client[a]
         i == Incoming(a)[2]
     IN client' = [client EXCEPT ![a] =
          [c EXCEPT !.down  = Tail(@),
                    !.board = AddPlayersUpTo(@, i),
                    !.me    = IF @ = NoPlayer THEN i ELSE @]]
  /\ UNCHANGED <<vars, dials, keys>>

ReceiveFlag(a) ==
  /\ Heard(a, {"SR", "SN"}) /\ KnowsSubject(a) /\ Initialised(a)
  /\ LET m == Incoming(a) IN Takes(a, SetReady(client[a].board, m[2], m[1] = "SR"))

\* The lobby branch of the code: the server sends no "SD" before the start.
ReceiveLoss(a) ==
  /\ Heard(a, {"SD"}) /\ KnowsSubject(a) /\ Initialised(a)
  /\ LET m == Incoming(a)
         b == client[a].board
     IN IF IsStarted(b)
        THEN b.players[m[2]].king # "none" /\ Takes(a, Defeat(b, m[2]))
        ELSE Takes(a, RemovePlayer(b, m[2]))

\* Mutated ReceiveStart: the armies are left to the server.
ReceiveStartUnarmed(a) ==
  /\ Heard(a, {"SG"}) /\ Initialised(a)
  /\ Takes(a, [client[a].board EXCEPT !.phase = "playing"])

ReceiveStart(a) ==
  /\ Heard(a, {"SG"}) /\ Initialised(a)
  /\ Takes(a, StartBoard(client[a].board))

ReceiveIncome(a) ==
  /\ Heard(a, {"TH"})
  /\ Takes(a, IncHexBank(client[a].board))

\* "GB" and 'W' change nothing on a client that can read them.
ReceiveNews(a) ==
  /\ Heard(a, {"GB", "W"}) /\ KnowsSubject(a) /\ (PrintsOwn(Incoming(a)) => Initialised(a))
  /\ Takes(a, client[a].board)

\* thisPlayer or kingChar is NULL where it is dereferenced.
Crash(a) ==
  /\ Open(a) /\ client[a].down # <<>>
  /\ LET m == Incoming(a)
         b == client[a].board
     IN \/ ~Initialised(a) /\ (PrintsOwn(m) \/ ~KnowsSubject(a))
        \/ /\ m[1] = "SD" /\ KnowsSubject(a)
           /\ IsStarted(b) /\ b.players[m[2]].king = "none"
  /\ client' = [client EXCEPT ![a].link = "crashed", ![a].down = <<>>]
  /\ UNCHANGED <<vars, dials, keys>>

Receive(a) ==
  \/ ReceiveId(a) \/ ReceiveFlag(a) \/ ReceiveLoss(a) \/ ReceiveStart(a)
  \/ ReceiveIncome(a) \/ ReceiveNews(a) \/ Crash(a)

UserInput(a) ==
  Dial(a) \/ Leave(a) \/ PressReady(a) \/ PressReadyLate(a) \/ PressBuy(a)

-----------------------------------------------------------------------------
SessionNext ==
  \/ ServerTurn \/ ClockTick
  \/ \E a \in Peers : Receive(a) \/ UserInput(a)

SessionSpec == SessionInit /\ [][SessionNext]_sessionVars

\* The server's loop goes on, time passes, and every client polls.
FairSession ==
  /\ SessionSpec
  /\ WF_sessionVars(ServerTurn) /\ WF_sessionVars(ClockTick)
  /\ \A a \in Peers : WF_sessionVars(Receive(a))

-----------------------------------------------------------------------------
(* Properties *)

\* Nothing is under way and every change has arrived.
Quiet ==
  /\ stage = "service"
  /\ \A a \in Peers : /\ client[a].link \in {"free", "open"}
                      /\ client[a].up = <<>> /\ client[a].down = <<>>
                      /\ Open(a) => a \in members

\* Once everything has arrived every client that has an id knows every player
\* of the server, and agrees with it on who is ready: the order in which a new
\* client asks for its id and for the list, and the changes that are broadcast
\* between the two answers, leave no flag behind.
ReadyAgreement ==
  Quiet => \A a \in Peers : Initialised(a) =>
    \A p \in Ids(board) : /\ p \in Ids(client[a].board)
                          /\ client[a].board.players[p].ready = board.players[p].ready

\* ... on whether the game is on and on who has lost it.
GameAgreement ==
  Quiet => \A a \in Peers : Initialised(a) =>
    /\ IsStarted(client[a].board) = IsStarted(board)
    /\ \A p \in Ids(board) : p \in GetGamePlayers(client[a].board) <=> p \in GetGamePlayers(board)

\* ... and on what the players hold: purchases are charged by the server alone,
\* so a replica never shows less than there is, and shows what there is of a
\* player who has ordered nothing.
IncomeAgreement ==
  Quiet => \A a \in Peers : Initialised(a) => \A p \in Ids(board) :
    LET mine == client[a].board.players[p].hexbank
        its  == board.players[p]
    IN mine >= its.hexbank /\ (its.armyCount = 4 => mine = its.hexbank)

\* Every packet about a player finds that player on the board of a client that
\* has an id, though it may never have been told of some of them: the ids it had
\* missed when it was connected are below its own.  A loss finds the game started
\* and the king there: no announcement of a loss overtakes that of the start,
\* which gives the kings, and none is handled as a departure from the lobby.
\* These are all the packets but the report of moves, which does not occur here;
\* what a client does with one that is cut, Marches says.
NewsFindsItsSubject ==
  \A a \in Peers : Initialised(a) /\ client[a].down # <<>> =>
    LET m == Incoming(a)
        b == client[a].board
    IN /\ KnowsSubject(a)
       /\ m[1] = "SD" => IsStarted(b) /\ b.players[m[2]].king # "none"

\* Everybody who is in the game when it starts gets to play: a client with an id
\* sees the start, unless it leaves.
StartReachesClients ==
  \A a \in Peers : IsStarted(board) /\ Initialised(a) ~> ~Open(a) \/ IsStarted(client[a].board)

-----------------------------------------------------------------------------
(***************************************************************************)
(* The inductive invariant.  A client is judged by what it will be once it *)
(* has taken everything that is under way to it: CaughtUp.  It is the same *)
(* before and after the client takes a packet, so only the server's steps  *)
(* have to be looked at.                                                   *)
(***************************************************************************)
\* The handlers of packet m, for a client with board b.
BoardAfter(b, m) ==
  CASE m[1] = "C"                      -> AddPlayersUpTo(b, m[2])
    [] m[1] \in {"SR", "SN"}           -> SetReady(b, m[2], m[1] = "SR")
    [] m[1] = "SD" /\ IsStarted(b)     -> Defeat(b, m[2])
    [] m[1] = "SD" /\ ~IsStarted(b)    -> RemovePlayer(b, m[2])
    [] m[1] = "SG"                     -> StartBoard(b)
    [] m[1] = "TH"                     -> IncHexBank(b)
    [] OTHER                           -> b

\* A client that looks like v gets through them, and not by the lobby branch
\* for a loss, which takes the player off its board.
Survives(v, m) ==
  /\ PrintsOwn(m) => v.me # NoPlayer
  /\ LooksUp(m) => m[2] \in Ids(v.board)
  /\ m[1] = "SD" => IsStarted(v.board) /\ v.board.players[m[2]].king # "none"

Reading(v, m) ==
  IF v.alive /\ Survives(v, m)
  THEN [board |-> BoardAfter(v.board, m),
        me    |-> IF m[1] = "C" /\ v.me = NoPlayer THEN m[2] ELSE v.me,
        alive |-> TRUE]
  ELSE [board |-> v.board, me |-> v.me, alive |-> FALSE]

\* What becomes of v by all the packets of s.
Replay(v, s) ==
  LET view[k \in 0 .. Len(s)] == IF k = 0 THEN v ELSE Reading(view[k - 1], s[k])
  IN view[Len(s)]

Fresh       == [board |-> EmptyBoard, me |-> NoPlayer, alive |-> TRUE]
View(a)     == [board |-> client[a].board, me |-> client[a].me, alive |-> TRUE]
CaughtUp(a) == Replay(View(a), client[a].down)

\* A player in a replica and on the server; asked: the ready list was answered.
PlayerAgrees(mine, its, asked) ==
  /\ mine.king = its.king
  /\ mine.ready => its.ready
  /\ asked /\ its.ready => mine.ready
  /\ mine.hexbank >= its.hexbank
  /\ its.armyCount <= 4 => mine.hexbank = its.hexbank

Agrees(c, b, asked) ==
  /\ BoardOK(c, {NoAddress})
  /\ c.lastPlayer = b.lastPlayer /\ IsStarted(c) = IsStarted(b)
  /\ \A p \in Ids(b) : p \in Ids(c) /\ PlayerAgrees(c.players[p], b.players[p], asked)

\* A client without an id has nothing yet: it dies of the first packet that
\* prints its id, and with an id it agrees with the server.
Follows(w, b, asked) ==
  /\ w.me \in 0 .. b.lastPlayer /\ w.alive \in BOOLEAN
  /\ ~w.alive => w.me = NoPlayer
  /\ w.alive /\ w.me = NoPlayer => /\ w.board = EmptyBoard
                                   /\ asked => GetReadyPlayers(b) = {}
  /\ w.me # NoPlayer => Agrees(w.board, b, asked)

\* The list was asked for and not answered yet.
AskPending(a) ==
  event = From(a, AskReady) \/ \E k \in DOMAIN client[a].up : client[a].up[k] = AskReady

ReplicasFollow == \A a \in Peers : Open(a) => Follows(CaughtUp(a), board, ~AskPending(a))

\* Packets from clients, and to them.
UpPackets ==
  {Join, AskReady, Other}
  \cup {ReadyMsg(p) : p \in KnownIds} \cup {UnreadyMsg(p) : p \in KnownIds}
  \cup {BuyMsg(p, t) : p \in KnownIds, t \in DOMAIN Cost}

DownPackets ==
  {<<"SG">>, <<"W">>, <<"TH">>}
  \cup {<<k, p>> : k \in {"C", "SR", "SN", "SD"}, p \in KnownIds}
  \cup {BuyMsg(p, t) : p \in KnownIds, t \in DOMAIN Cost}

ClientOK(a) ==
  LET c == client[a]
  IN /\ c = [link |-> c.link, board |-> c.board, me |-> c.me, up |-> c.up, down |-> c.down]
     /\ c.link \in {"free", "open", "closing", "crashed"}
     /\ c.up \in Seq(UpPackets) /\ c.down \in Seq(DownPackets)
     /\ c.link = "free" => c = NoClient
     /\ c.link = "crashed" => c.me = NoPlayer
     /\ Open(a) /\ a \notin members =>
          c.up = <<Join, AskReady>> /\ c.down = <<>> /\ View(a) = Fresh

\* A client asks once, and first; it is not asked for again when it is taken.
JoinsOnce ==
  \A a \in Peers : \A k \in DOMAIN client[a].up :
    client[a].up[k] = Join => k = 1 /\ event # From(a, Join)

EventOK ==
  \/ event = NoEvent
  \/ \E a \in Peers : event = Connected(a)
  \/ \E a \in Peers : event = Departed(a) /\ client[a].link = "free"
  \/ \E a \in members : \E m \in UpPackets : event = From(a, m)

\* Who is about to get an id, and the orders to buy that are under way.  The
\* event is taken for a packet before the first.
Joins ==
  {a \in Peers : event = From(a, Join)
                 \/ \E k \in DOMAIN client[a].up : client[a].up[k] = Join}

OrderAt(a, k) ==
  IF k = 0 THEN event[1] = "receive" /\ event[2] = a /\ event[3][1] = "GB"
  ELSE k \in DOMAIN client[a].up /\ client[a].up[k][1] = "GB"

Orders ==
  UNION {{<<a, k>> : k \in {j \in 0 .. Len(client[a].up) : OrderAt(a, j)}} : a \in Peers}

\* Ids and numbers of characters stay below what connections and keys allow.
CountersBounded ==
  /\ dials \in 0 .. MaxDials /\ keys \in 0 .. MaxKeys
  /\ IsFiniteSet(Joins) /\ board.lastPlayer + Cardinality(Joins) <= dials
  /\ IsFiniteSet(Orders) /\ Cardinality(Orders) <= keys
  /\ \A p \in Ids(board) : board.players[p].armyCount + Cardinality(Orders)
                             <= keys + IF IsStarted(board) THEN 4 ELSE 0

\* Who is about to get an id has none, as long as ids are given.
JoinersUnknown ==
  ~IsStarted(board) => \A a \in Joins, p \in Ids(board) : board.players[p].address # a

\* Nobody moves, and everybody who plays has an army.
Unmoved ==
  /\ sweep = NoSweep
  /\ \A p \in Ids(board) : \A n \in DOMAIN board.players[p].army :
       board.players[p].army[n].dest = Nowhere
  /\ IsStarted(board) => \A p \in Ids(board) : board.players[p].armyCount >= 4

SessionInv ==
  /\ IInv /\ Unmoved /\ EventOK /\ JoinsOnce /\ JoinersUnknown /\ CountersBounded
  /\ client = [a \in Peers |-> client[a]]
  /\ \A a \in Peers : ClientOK(a)
  /\ ReplicasFollow
=============================================================================
