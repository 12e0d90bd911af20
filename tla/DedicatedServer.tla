--------------------------- MODULE DedicatedServer ---------------------------
(***************************************************************************)
(* The game server: src/src/network/DedicatedServer.cpp driven by the loop *)
(* of src/src/network/NetServer.cpp.                                       *)
(*                                                                         *)
(* One turn of the loop (ServerStep) takes one event from the network,     *)
(* runs TimedEvent, and only then handles the event.  The turn is three    *)
(* stages here: "service" (take an event, run TimedEvent), "sweep" (the    *)
(* loop of updateCharacterLocation, one character at a time, entered while *)
(* a game is on) and "handle" (the handler of the event).  A fourth value, *)
(* "crashed", is a dead process: the code dereferenced a NULL pointer or   *)
(* wrote outside the board.                                                *)
(*                                                                         *)
(* What the clients may send is restricted only by what the client program *)
(* can send (its key bindings, main.cpp); the clients themselves are in    *)
(* GameSession.  The array of client slots is abstracted to the set of its *)
(* members.                                                                *)
(***************************************************************************)
EXTENDS TileBoard, Sequences

CONSTANTS Peers,        \* the peer slots of the host; (int)source is the slot
          StartDelay,   \* clock ticks in the 1000 ms countdown
          MoveOrders,   \* <<character id, tile>> of each movement key
          MaxJoins,     \* bound: players ever added
          MaxHexbank,   \* bound: no increment once a bank holds this much
          MaxTries      \* bound: orders to buy stop once armyCount is this high

ASSUME ServerAssumption ==
  /\ StartDelay \in Nat
  /\ MoveOrders \subseteq Nat \X Tiles
  /\ MaxJoins \in Nat /\ MaxHexbank \in Nat /\ MaxTries \in Nat
  /\ NoPlayer \notin Peers

VARIABLES board,           \* the server's TileBoard
          startGameTimer,  \* -1, or the ticks since the countdown began
          stage,           \* where the loop is
          event,           \* the event taken and not handled yet
          members,         \* the peers in a client slot that is not ST_EMPTY
          sweep,           \* updateCharacterLocation: last character visited, packet so far
          sent             \* what the last step broadcast, in order

vars == <<board, startGameTimer, stage, event, members, sweep, sent>>

-----------------------------------------------------------------------------
(* Packets and events *)

Join          == <<"CX">>
AskReady      == <<"SRX">>
Other         == <<"other">>             \* every packet no handler acts on
ReadyMsg(p)   == <<"SR", p>>
UnreadyMsg(p) == <<"SN", p>>
BuyMsg(p, t)  == <<"GB", p, t>>
MoveMsg(p, o) == <<"GM", p, o>>

NoEvent       == <<"none">>
Connected(a)  == <<"connect", a>>
Departed(a)   == <<"disconnect", a>>
From(a, m)    == <<"receive", a, m>>

\* The ids a client can know of.
KnownIds == 1 .. board.lastPlayer

\* What a connected client may send.  It asks for an id once per connection, so
\* in the lobby not while the server holds a player for it.
ClientPackets(a) ==
  {AskReady, Other}
  \cup {m \in {Join} : /\ IsStarted(board) \/ \A p \in Ids(board) : board.players[p].address # a
                       /\ board.lastPlayer < MaxJoins}
  \cup {ReadyMsg(p) : p \in KnownIds} \cup {UnreadyMsg(p) : p \in KnownIds}
  \cup {BuyMsg(p, t) : p \in {q \in KnownIds : q \in Ids(board) =>
                                  board.players[q].armyCount < MaxTries},
                       t \in DOMAIN Cost}
  \cup {MoveMsg(p, o) : p \in KnownIds, o \in MoveOrders}

\* The events enet_host_service may return.
Arrivals ==
  {NoEvent}
  \cup {Connected(a) : a \in Peers \ members}
  \cup {Departed(a) : a \in members}
  \cup UNION {{From(a, m) : m \in ClientPackets(a)} : a \in members}

-----------------------------------------------------------------------------
NoSweep == [at |-> Empty, packet |-> <<>>]

Init ==
  /\ board = EmptyBoard
  /\ startGameTimer = -1
  /\ stage = "service"
  /\ event = NoEvent
  /\ members = {}
  /\ sweep = NoSweep
  /\ sent = <<>>

Broadcast(m) == sent' = <<m>>
Silent       == sent' = <<>>

(***************************************************************************)
(* TimedEvent.  The event of the turn was taken before it runs, from the   *)
(* set E of the events the network can deliver.                            *)
(***************************************************************************)
AllReady == /\ Cardinality(Ids(board)) > 1
            /\ GetReadyPlayers(board) = Ids(board)

Take(E) == event' \in E /\ UNCHANGED members

LobbyTurn == stage = "service" /\ ~IsStarted(board) /\ stage' = "handle"

\* Mutated StartTimer: sets the timer on every turn.
StartTimerAgain(E) ==
  /\ LobbyTurn /\ AllReady
  /\ startGameTimer' = 0
  /\ Silent
  /\ UNCHANGED <<board, sweep>>
  /\ Take(E)

StartTimer(E) ==
  /\ LobbyTurn /\ AllReady /\ startGameTimer = -1
  /\ startGameTimer' = 0
  /\ Silent
  /\ UNCHANGED <<board, sweep>>
  /\ Take(E)

KeepCounting(E) ==
  /\ LobbyTurn /\ AllReady /\ startGameTimer \in 0 .. StartDelay - 1
  /\ Silent
  /\ UNCHANGED <<board, startGameTimer, sweep>>
  /\ Take(E)

\* Mutated StartGame: nobody is told.
StartGameQuietly(E) ==
  /\ LobbyTurn /\ AllReady /\ startGameTimer >= StartDelay
  /\ board' = StartBoard(board)
  /\ Silent
  /\ UNCHANGED <<startGameTimer, sweep>>
  /\ Take(E)

StartGame(E) ==
  /\ LobbyTurn /\ AllReady /\ startGameTimer >= StartDelay
  /\ board' = StartBoard(board)
  /\ Broadcast(<<"SG">>)
  /\ UNCHANGED <<startGameTimer, sweep>>
  /\ Take(E)

\* Mutated ResetTimer: the timer goes on.
ResetNothing(E) ==
  /\ LobbyTurn /\ ~AllReady
  /\ Silent
  /\ UNCHANGED <<board, startGameTimer, sweep>>
  /\ Take(E)

ResetTimer(E) ==
  /\ LobbyTurn /\ ~AllReady
  /\ startGameTimer' = -1
  /\ Silent
  /\ UNCHANGED <<board, sweep>>
  /\ Take(E)

EndGame(E) ==
  /\ stage = "service" /\ board.phase = "playing" /\ IsWinner(board)
  /\ board' = EndBoard(board)
  /\ stage' = "handle"
  /\ Broadcast(<<"W">>)
  /\ UNCHANGED <<startGameTimer, sweep>>
  /\ Take(E)

\* Mutated PlayTick: the increment is not broadcast.
PlayTickQuietly(E, hexDue) ==
  /\ stage = "service" /\ board.phase = "playing" /\ ~IsWinner(board)
  /\ IF hexDue
     THEN /\ \A p \in Ids(board) : board.players[p].hexbank < MaxHexbank
          /\ board' = IncHexBank(board)
     ELSE UNCHANGED board
  /\ Silent
  /\ stage' = "sweep"
  /\ UNCHANGED <<startGameTimer, sweep>>
  /\ Take(E)

\* hexDue: more than 5000 ms have passed since the last increment.
\* The cooldowns are left out: nothing sets one, so minusCooldown finds zero.
PlayTick(E, hexDue) ==
  /\ stage = "service" /\ board.phase = "playing" /\ ~IsWinner(board)
  /\ IF hexDue
     THEN /\ \A p \in Ids(board) : board.players[p].hexbank < MaxHexbank
          /\ board' = IncHexBank(board)
          /\ Broadcast(<<"TH">>)
     ELSE UNCHANGED board /\ Silent
  /\ stage' = "sweep"
  /\ UNCHANGED <<startGameTimer, sweep>>
  /\ Take(E)

AfterTheGame(E) ==
  /\ stage = "service" /\ board.phase = "ended"
  /\ stage' = "handle"
  /\ Silent
  /\ UNCHANGED <<board, startGameTimer, sweep>>
  /\ Take(E)

TimedEvent(E) ==
  \/ StartTimer(E) \/ KeepCounting(E) \/ StartGame(E) \/ ResetTimer(E)
  \/ EndGame(E) \/ AfterTheGame(E)
  \/ \E hexDue \in BOOLEAN : PlayTick(E, hexDue)

(***************************************************************************)
(* updateCharacterLocation: players in order, and for each its army in     *)
(* order.  A character that has nowhere to go is passed over; one that has *)
(* is updated if 1500 ms have passed since it last was (due).              *)
(***************************************************************************)
Before(c, d) == c[1] < d[1] \/ (c[1] = d[1] /\ c[2] < d[2])

Travellers ==
  UNION {{<<p, n>> : n \in {m \in DOMAIN board.players[p].army :
                              OnTheWay(board.players[p].army[m])}} : p \in Ids(board)}

ToVisit == {c \in Travellers : Before(sweep.at, c)}

NextToVisit == CHOOSE c \in ToVisit : \A d \in ToVisit : c = d \/ Before(c, d)

\* Mutated LocationEntry: the place is looked up before the update.
LocationBefore(b, c) ==
  LET at == board.players[c[1]].army[c[2]].at IN <<c[1], c[2], at[1], at[2]>>

\* The entry of the 'L' packet for a character that was updated.
LocationEntry(b, c) ==
  LET at == b.players[c[1]].army[c[2]].at IN <<c[1], c[2], at[1], at[2]>>

SkipCharacter ==
  /\ stage = "sweep" /\ ToVisit # {}
  /\ sweep' = [sweep EXCEPT !.at = NextToVisit]
  /\ Silent
  /\ UNCHANGED <<board, startGameTimer, stage, event, members>>

MoveCharacter ==
  /\ stage = "sweep" /\ ToVisit # {}
  /\ LET c == NextToVisit
     IN /\ board' = UpdateLocation(board, c[1], c[2])
        /\ sweep' = [at     |-> c,
                     packet |-> Append(sweep.packet, LocationEntry(board', c))]
  /\ Silent
  /\ UNCHANGED <<startGameTimer, stage, event, members>>

\* board[x-1] with x = 0 writes before the array of columns.
CrashOnStrayWrite ==
  /\ stage = "sweep" /\ ToVisit # {}
  /\ StrayWrite(board, NextToVisit[1], NextToVisit[2])
  /\ stage' = "crashed"
  /\ Silent
  /\ UNCHANGED <<board, startGameTimer, event, members, sweep>>

EndSweep ==
  /\ stage = "sweep" /\ ToVisit = {}
  /\ IF sweep.packet = <<>> THEN Silent ELSE Broadcast(<<"L", sweep.packet>>)
  /\ sweep' = NoSweep
  /\ stage' = "handle"
  /\ UNCHANGED <<board, startGameTimer, event, members>>

(***************************************************************************)
(* The handlers.  Handle(e): the event taken was e, and the turn ends.     *)
(***************************************************************************)
Handle(e) == /\ stage = "handle" /\ event = e
             /\ stage' = "service" /\ event' = NoEvent
             /\ UNCHANGED <<startGameTimer, sweep>>

NothingToHandle == Handle(NoEvent) /\ Silent /\ UNCHANGED <<board, members>>

\* HandleConnect accepts everybody, also when the game is full or started.
HandleConnect(a) ==
  /\ Handle(Connected(a))
  /\ members' = members \cup {a}
  /\ Silent
  /\ UNCHANGED board

\* Mutated HandleDisconnect: nobody is removed from the lobby.
HandleDisconnectLate(a) ==
  /\ Handle(Departed(a))
  /\ members' = members \ {a}
  /\ LET p == GetPlayerByAddress(board, a)
     IN IF p # NoPlayer /\ IsStarted(board)
        THEN board' = Defeat(board, p) /\ Broadcast(<<"SD", p>>)
        ELSE Silent /\ UNCHANGED board

\* Mutated HandleDisconnect: the loss is not broadcast.
HandleDisconnectQuietly(a) ==
  /\ Handle(Departed(a))
  /\ members' = members \ {a}
  /\ LET p == GetPlayerByAddress(board, a)
     IN board' = CASE p = NoPlayer -> board
                   [] p # NoPlayer /\ IsStarted(board) -> Defeat(board, p)
                   [] OTHER -> RemovePlayer(board, p)
  /\ Silent

\* The broadcast still counts the departed peer: its send fails.
HandleDisconnect(a) ==
  /\ Handle(Departed(a))
  /\ members' = members \ {a}
  /\ LET p == GetPlayerByAddress(board, a)
     IN \/ p = NoPlayer /\ Silent /\ UNCHANGED board
        \/ p # NoPlayer /\ IsStarted(board)
           /\ board' = Defeat(board, p) /\ Broadcast(<<"SD", p>>)
        \/ p # NoPlayer /\ ~IsStarted(board)
           /\ board' = RemovePlayer(board, p) /\ Silent

\* Mutated HandleJoin: the start is not looked at.
HandleJoinAnyTime(a) ==
  /\ Handle(From(a, Join))
  /\ IF IsFull(board)
     THEN Silent /\ UNCHANGED board
     ELSE /\ board' = AddPlayer(board, a)
          /\ Broadcast(<<"C", board'.lastPlayer>>)
  /\ UNCHANGED members

HandleJoin(a) ==
  /\ Handle(From(a, Join))
  /\ IF IsStarted(board) \/ IsFull(board)
     THEN Silent /\ UNCHANGED board
     ELSE /\ board' = AddPlayer(board, a)
          /\ Broadcast(<<"C", board'.lastPlayer>>)
  /\ UNCHANGED members

\* One "SR" for each ready player, in the order of the players.
ReadyList(b) ==
  LET ready == GetReadyPlayers(b)
      nth(k) == CHOOSE p \in ready : Cardinality({q \in ready : q <= p}) = k
  IN [k \in 1 .. Cardinality(ready) |-> ReadyMsg(nth(k))]

\* Mutated HandleAskReady: the list is not sent.
HandleAskReadyInVain(a) == Handle(From(a, AskReady)) /\ Silent /\ UNCHANGED <<board, members>>

HandleAskReady(a) ==
  /\ Handle(From(a, AskReady))
  /\ sent' = ReadyList(board)
  /\ UNCHANGED <<board, members>>

HandleReady(a, p) ==
  \E r \in BOOLEAN : LET m == IF r THEN ReadyMsg(p) ELSE UnreadyMsg(p) IN
    /\ Handle(From(a, m))
    /\ IF p \in Ids(board)
       THEN board' = SetReady(board, p, r) /\ Broadcast(m)
       ELSE UNCHANGED board /\ Silent
    /\ UNCHANGED members

HandleBuy(a, p, t) ==
  /\ Handle(From(a, BuyMsg(p, t)))
  /\ IF p \in Ids(board)
     THEN /\ board' = AddCharacter(board, p, t)
          /\ IF CanAddCharacter(board, p, t) THEN Broadcast(BuyMsg(p, t)) ELSE Silent
     ELSE UNCHANGED board /\ Silent
  /\ UNCHANGED members

\* getCharacter finds the character an order is for.
Finds(p, o) == o[1] \in DOMAIN board.players[p].army

HandleMove(a, p, o) ==
  /\ Handle(From(a, MoveMsg(p, o)))
  /\ p \in Ids(board) => Finds(p, o)
  /\ IF p \in Ids(board) /\ CheckEmpty(board, o[2])
     THEN /\ board' = SetCharacterDest(board, p, o[1], o[2])
          /\ Broadcast(MoveMsg(p, o))
     ELSE UNCHANGED board /\ Silent
  /\ UNCHANGED members

\* Every path that did not find the character prints its id: c is NULL.
CrashOnMissingCharacter(a, p, o) ==
  /\ stage = "handle" /\ event = From(a, MoveMsg(p, o))
  /\ p \in Ids(board) /\ ~Finds(p, o)
  /\ stage' = "crashed"
  /\ Silent
  /\ UNCHANGED <<board, startGameTimer, event, members, sweep>>

HandleOther(a) == Handle(From(a, Other)) /\ Silent /\ UNCHANGED <<board, members>>

HandlePacket(a) ==
  \/ HandleJoin(a) \/ HandleAskReady(a) \/ HandleOther(a)
  \/ \E p \in KnownIds :
       \/ HandleReady(a, p)
       \/ \E t \in DOMAIN Cost : HandleBuy(a, p, t)
       \/ \E o \in MoveOrders : HandleMove(a, p, o) \/ CrashOnMissingCharacter(a, p, o)

-----------------------------------------------------------------------------
\* The part of a turn after the event was taken.
FinishTurn ==
  \/ SkipCharacter \/ MoveCharacter \/ CrashOnStrayWrite \/ EndSweep
  \/ NothingToHandle
  \/ \E a \in Peers : HandleConnect(a) \/ HandleDisconnect(a) \/ HandlePacket(a)

ServerStep == FinishTurn \/ TimedEvent(Arrivals)

\* enet_time_get() advances while a countdown is on.
Tick ==
  /\ startGameTimer \in 0 .. StartDelay - 1
  /\ startGameTimer' = startGameTimer + 1
  /\ sent' = <<>>
  /\ UNCHANGED <<board, stage, event, members, sweep>>

\* The process is gone.
Dead == stage = "crashed" /\ UNCHANGED vars

Next == ServerStep \/ Tick \/ Dead

Spec == Init /\ [][Next]_vars

\* The loop never waits longer than HOST_TIMEOUT for an event, and time passes.
FairSpec == Spec /\ WF_vars(ServerStep) /\ WF_vars(Tick)

-----------------------------------------------------------------------------
(* Properties *)

\* An entry of the 'L' packet: player, character, and the two coordinates.
Location == Nat \X Nat \X (0 .. Size - 1) \X (0 .. Size - 1)

\* Types of the server's variables.
TypeOK ==
  /\ BoardOK(board, Peers)
  /\ startGameTimer \in -1 .. StartDelay
  /\ stage \in {"service", "sweep", "handle", "crashed"}
  /\ members \subseteq Peers
  /\ event # NoEvent => event[2] \in Peers
  /\ sweep \in [at : Nat \X Nat, packet : Seq(Location)]

\* The players a departure still matters for: everybody in the lobby, the
\* undefeated in a game.
Active == IF IsStarted(board) THEN GetGamePlayers(board) ELSE Ids(board)

\* No two players have the same address, and every active player's peer is
\* connected.  Slots are reused and players are found by the address of their
\* slot (getPlayerByAddress returns the first), so this is what makes a
\* departure remove or defeat the player who left and no other.
AddressOwnership ==
  /\ \A p, q \in Ids(board) :
       board.players[p].address = board.players[q].address => p = q
  /\ \A p \in Active : board.players[p].address \in members

\* A game that is on always has a survivor, and between TimedEvent and the
\* handler at least two: TimedEvent looks for a winner before every single
\* event, so two departures cannot pass between two looks.  Were it possible,
\* isWinner() would stay false and the game would never end.
SurvivorRemains ==
  board.phase = "playing" /\ stage # "crashed" =>
    IF stage = "service"
    THEN GetGamePlayers(board) # {}
    ELSE \E p, q \in GetGamePlayers(board) : p # q

\* Two players are given the same corner only where somebody has left the
\* lobby: the index of a player is the number of players when it joined, and a
\* departure lowers the number but not the indices.
CornersShared ==
  \A p, q \in Ids(board) :
    p # q /\ Spawn(board.players[p].index) = Spawn(board.players[q].index)
      => Cardinality(Ids(board)) < board.lastPlayer

\* Why: while nobody has left, a player's index is its id, and there are no more
\* ids than corners.
IndexIsId ==
  Cardinality(Ids(board)) = board.lastPlayer =>
    \A p \in Ids(board) : board.players[p].index = p /\ p <= MaxPlayers

\* Nothing is bought, placed or earned before the start, whatever is ordered in
\* the lobby: startBoard relies on empty armies and unset kings.
NothingBeforeStart ==
  ~IsStarted(board) =>
    /\ \A t \in Tiles : board.tiles[t] = Empty
    /\ \A p \in Ids(board) : /\ board.players[p].hexbank = 0
                             /\ board.players[p].king = "none"
                             /\ board.players[p].army = NoArmy

\* isDefeated(true) dereferences kingChar: whenever a departing peer owns a
\* player of a started game, that player has a king.
DefeatFindsKing ==
  IsStarted(board) => \A p \in Ids(board) : board.players[p].king # "none"

\* A tile points to nothing but characters that are in an army: a destroyed or
\* refused character is never left on the board.
TilesReferToArmies ==
  \A t \in Tiles :
    LET c == board.tiles[t]
    IN c # Empty => c[1] \in Ids(board) /\ c[2] \in DOMAIN board.players[c[1]].army

\* A character only ever nears its destination, by one tile at a time, and a
\* character that stands on the board never leaves it: neither an occupied
\* neighbour nor another character's move carries it elsewhere.
Distance(c, d) == (IF c[1] < d[1] THEN d[1] - c[1] ELSE c[1] - d[1])
                  + (IF c[2] < d[2] THEN d[2] - c[2] ELSE c[2] - d[2])

ApproachOnly(ch, after) ==
  after.at # ch.at => /\ Distance(ch.at, after.at) = 1
                      /\ Distance(after.at, ch.dest) < Distance(ch.at, ch.dest)

MovesApproach ==
  [][\A p \in Ids(board) \cap Ids(board)' :
       \A n \in (DOMAIN board.players[p].army) \cap (DOMAIN board'.players[p].army) :
         ApproachOnly(board.players[p].army[n], board'.players[p].army[n])]_vars

\* What a turn carries from its first stage to its last: the event is one that
\* could happen to the members when it was taken, and an id was left for a join.
TurnOK ==
  /\ stage = "service" => event = NoEvent
  /\ stage # "sweep" /\ stage # "crashed" => sweep = NoSweep
  /\ stage = "sweep" => board.phase = "playing"
  /\ board.lastPlayer <= MaxJoins
  /\ \A a \in Peers :
       /\ event = Departed(a) => a \in members
       /\ event = From(a, Join) =>
            /\ a \in members /\ board.lastPlayer < MaxJoins
            /\ IsStarted(board) \/ \A p \in Ids(board) : board.players[p].address # a

\* The inductive invariant: the safety invariants and what a turn carries.
IInv ==
  /\ TypeOK /\ TurnOK
  /\ AddressOwnership /\ SurvivorRemains /\ NothingBeforeStart /\ DefeatFindsKing

\* If everybody is ready the game starts, unless somebody joins, leaves or
\* withdraws first.
ReadyLeadsToStart == ~IsStarted(board) /\ AllReady ~> IsStarted(board) \/ ~AllReady

\* The server implements the match it promises: nobody enters a game that is
\* on, it starts only with everybody ready, players are lost one at a time, and
\* once one is left nothing happens to the match before it is declared over,
\* which it is in the end.
TheMatch == INSTANCE Match WITH Players  <- 1 .. MaxJoins,
                                phase    <- board.phase,
                                entrants <- Ids(board),
                                ready    <- GetReadyPlayers(board),
                                alive    <- GetGamePlayers(board)

MatchSafety   == TheMatch!Spec
MatchDeclared == TheMatch!FairSpec
=============================================================================
