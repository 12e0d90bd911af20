------------------------ MODULE DedicatedServerProofs ------------------------
(***************************************************************************)
(* The safety of the game server, for any peers, any size of the board,    *)
(* any order the clients may send and any number of players: the types, the*)
(* invariant IInv with the invariants it is made of, and from it that the  *)
(* server implements the match it promises.                                *)
(***************************************************************************)
EXTENDS DedicatedServer, TileBoardProofs

-----------------------------------------------------------------------------
(* What the network delivers, and whom the sweep visits. *)

\* An event names a peer; a departure is a member's; and who asks for an id is
\* a member the lobby holds no player for (ClientPackets).
LEMMA ArrivalFacts ==
  ASSUME members \subseteq Peers
  PROVE  /\ \A e \in Arrivals : e # NoEvent => e[2] \in Peers
         /\ \A a \in Peers : Departed(a) \in Arrivals => a \in members
         /\ \A a \in Peers : From(a, Join) \in Arrivals =>
              /\ a \in members /\ board.lastPlayer < MaxJoins
              /\ IsStarted(board) \/ \A p \in Ids(board) : board.players[p].address # a
<1>1. \A a \in Peers : Join \in ClientPackets(a) =>
        /\ board.lastPlayer < MaxJoins
        /\ IsStarted(board) \/ \A p \in Ids(board) : board.players[p].address # a
  BY DEF ClientPackets, Join, AskReady, Other, ReadyMsg, UnreadyMsg, BuyMsg, MoveMsg
<1>2. \A e \in Arrivals :
        \/ e = NoEvent
        \/ \E a \in Peers \ members : e = Connected(a)
        \/ \E a \in members : e = Departed(a)
        \/ \E a \in members : \E m \in ClientPackets(a) : e = From(a, m)
  BY DEF Arrivals
<1>3. \A e \in Arrivals : e # NoEvent => e[2] \in Peers
  BY <1>2 DEF Connected, Departed, From
<1>4. \A a \in Peers : Departed(a) \in Arrivals => a \in members
  BY <1>2 DEF NoEvent, Connected, Departed, From
<1>5. \A a \in Peers : From(a, Join) \in Arrivals => a \in members /\ Join \in ClientPackets(a)
  BY <1>2 DEF NoEvent, Connected, Departed, From
<1> QED BY <1>1, <1>3, <1>4, <1>5

\* The loops of updateCharacterLocation have a next character while one is left.
LEMMA NextToVisitFound ==
  ASSUME BoardOK(board, Peers), ToVisit # {}
  PROVE  \E p \in Ids(board) : \E n \in DOMAIN board.players[p].army :
           /\ NextToVisit = <<p, n>> /\ OnTheWay(board.players[p].army[n])
           /\ p \in Nat /\ n \in Nat
<1> DEFINE T == ToVisit
<1>1. \A c \in T : \E p \in Ids(board) : \E n \in DOMAIN board.players[p].army :
        /\ c = <<p, n>> /\ OnTheWay(board.players[p].army[n])
        /\ p \in Nat /\ n \in Nat
  <2>1. \A c \in T : \E p \in Ids(board) : \E n \in DOMAIN board.players[p].army :
          c = <<p, n>> /\ OnTheWay(board.players[p].army[n])
    BY DEF ToVisit, Travellers
  <2>2. \A p \in Ids(board) : p \in Nat /\ DOMAIN board.players[p].army \subseteq Nat
    <3> TAKE p \in Ids(board)
    <3>1. p \in Nat /\ PlayerOK(board.players[p], Peers) BY DEF BoardOK, Ids
    <3>2. /\ board.players[p].armyCount \in Nat
          /\ DOMAIN board.players[p].army \subseteq 1 .. board.players[p].armyCount
      BY <3>1 DEF PlayerOK
    <3> QED BY <3>1, <3>2
  <2> QED BY <2>1, <2>2
<1>2. T # {} OBVIOUS
<1>3. NextToVisit = CHOOSE c \in T : \A d \in T : c = d \/ Before(c, d)
  BY DEF NextToVisit
<1> HIDE DEF T
<1>4. \E c \in T : \A d \in T : c = d \/ Before(c, d)
  <2> DEFINE P == {p \in Nat : \E n \in Nat : <<p, n>> \in T}
  <2>1. P \in SUBSET Nat /\ P # {} BY <1>1, <1>2
  <2>2. PICK p \in P : \A q \in P : p <= q BY <2>1, Least
  <2> DEFINE N == {n \in Nat : <<p, n>> \in T}
  <2>3. N \in SUBSET Nat /\ N # {} BY <2>2
  <2>4. PICK n \in N : \A m \in N : n <= m BY <2>3, Least
  <2>5. \A d \in T : \E q \in Nat, m \in Nat : d = <<q, m>> /\ p <= q /\ (q = p => n <= m)
    BY <1>1, <2>2, <2>4
  <2>6. <<p, n>> \in T /\ p \in Nat /\ n \in Nat BY <2>2, <2>4
  <2>7. \A d \in T : <<p, n>> = d \/ Before(<<p, n>>, d)
    BY <2>5, <2>6 DEF Before
  <2> QED BY <2>6, <2>7
<1>5. NextToVisit \in T BY <1>3, <1>4
<1> QED BY <1>1, <1>5

-----------------------------------------------------------------------------
(* Types *)

\* A turn that takes an event and changes neither sweep nor members.
LEMMA TakeType ==
  ASSUME TypeOK, Take(Arrivals), UNCHANGED sweep
  PROVE  /\ members' \subseteq Peers
         /\ (event # NoEvent => event[2] \in Peers)'
         /\ sweep' \in [at : Nat \X Nat, packet : Seq(Location)]
<1>1. members \subseteq Peers BY DEF TypeOK
<1> QED BY <1>1, ArrivalFacts DEF TypeOK, Take

\* Every branch of TimedEvent preserves the types.
LEMMA TimedEventType ==
  ASSUME TypeOK, TimedEvent(Arrivals)
  PROVE  TypeOK'
<1>1. /\ BoardOK(board, Peers) /\ startGameTimer \in -1 .. StartDelay /\ StartDelay \in Nat
  BY ServerAssumption DEF TypeOK
<1>2. UNCHANGED sweep /\ Take(Arrivals)
  BY DEF TimedEvent, StartTimer, KeepCounting, StartGame, ResetTimer, EndGame,
         AfterTheGame, PlayTick
<1>3. BoardOK(board', Peers)
  <2>1. \/ UNCHANGED board \/ board' = StartBoard(board)
        \/ board' = EndBoard(board) \/ board' = IncHexBank(board)
    BY DEF TimedEvent, StartTimer, KeepCounting, StartGame, ResetTimer, EndGame,
           AfterTheGame, PlayTick
  <2> QED BY <1>1, <2>1, StartBoardOK, EndBoardOK, IncHexBankOK
<1>4. startGameTimer' \in -1 .. StartDelay /\ stage' \in {"sweep", "handle"}
  BY <1>1 DEF TimedEvent, StartTimer, KeepCounting, StartGame, ResetTimer, EndGame,
         AfterTheGame, PlayTick, LobbyTurn
<1> QED BY <1>2, <1>3, <1>4, TakeType DEF TypeOK

\* Every step of updateCharacterLocation preserves the types.
LEMMA SweepType ==
  ASSUME TypeOK, SkipCharacter \/ MoveCharacter \/ CrashOnStrayWrite \/ EndSweep
  PROVE  TypeOK'
<1>1. BoardOK(board, Peers) BY DEF TypeOK
<1>2. CASE SkipCharacter
  <2>1. NextToVisit \in Nat \X Nat
    <3>1. ToVisit # {} BY <1>2 DEF SkipCharacter
    <3> QED BY <1>1, <3>1, NextToVisitFound
  <2>2. sweep' \in [at : Nat \X Nat, packet : Seq(Location)]
    BY <1>2, <2>1 DEF SkipCharacter, TypeOK
  <2> QED BY <1>2, <2>2 DEF SkipCharacter, TypeOK
<1>3. CASE MoveCharacter
  <2>1. ToVisit # {} BY <1>3 DEF MoveCharacter
  <2>2. PICK p \in Ids(board) : \E n \in DOMAIN board.players[p].army :
           /\ NextToVisit = <<p, n>> /\ OnTheWay(board.players[p].army[n])
           /\ p \in Nat /\ n \in Nat
    BY <1>1, <2>1, NextToVisitFound
  <2>3. PICK n \in DOMAIN board.players[p].army :
           /\ NextToVisit = <<p, n>> /\ OnTheWay(board.players[p].army[n])
           /\ p \in Nat /\ n \in Nat
    BY <2>2
  <2>4. /\ board' = UpdateLocation(board, p, n)
        /\ sweep' = [at     |-> <<p, n>>,
                     packet |-> Append(sweep.packet, LocationEntry(board', <<p, n>>))]
    BY <1>3, <2>3 DEF MoveCharacter
  <2>5. BoardOK(board', Peers) BY <1>1, <2>3, <2>4, UpdateLocationOK
  <2>6. p \in Ids(board') /\ n \in DOMAIN board'.players[p].army
    BY <1>1, <2>3, <2>4, UpdateLocationArmy
  <2>7. LocationEntry(board', <<p, n>>) \in Location
    <3>1. board'.players[p].army[n].at \in Tiles
      BY <2>5, <2>6 DEF BoardOK, PlayerOK, Ids, Character
    <3> QED BY <2>3, <3>1 DEF LocationEntry, Location, Tiles
  <2>8. sweep' \in [at : Nat \X Nat, packet : Seq(Location)]
    <3>1. sweep.packet \in Seq(Location) BY DEF TypeOK
    <3>2. Append(sweep.packet, LocationEntry(board', <<p, n>>)) \in Seq(Location)
      BY <2>7, <3>1
    <3>3. <<p, n>> \in Nat \X Nat BY <2>3
    <3> QED BY <2>4, <3>2, <3>3
  <2> QED BY <1>3, <2>5, <2>8 DEF MoveCharacter, TypeOK
<1>4. CASE CrashOnStrayWrite BY <1>4 DEF CrashOnStrayWrite, TypeOK
<1>5. CASE EndSweep
  <2>1. sweep' \in [at : Nat \X Nat, packet : Seq(Location)]
    BY <1>5 DEF EndSweep, NoSweep, Empty
  <2> QED BY <1>5, <2>1 DEF EndSweep, TypeOK
<1> QED BY <1>2, <1>3, <1>4, <1>5

\* Every handler preserves the types.
LEMMA HandlerType ==
  ASSUME TypeOK, NothingToHandle \/ \E a \in Peers : \/ HandleConnect(a)
                                                     \/ HandleDisconnect(a)
                                                     \/ HandlePacket(a)
  PROVE  TypeOK'
<1>1. BoardOK(board, Peers) /\ members \subseteq Peers BY DEF TypeOK
<1>2. ASSUME NEW e, Handle(e), BoardOK(board', Peers), members' \subseteq Peers
      PROVE  TypeOK'
  BY <1>2 DEF Handle, TypeOK
<1>3. CASE NothingToHandle BY <1>1, <1>2, <1>3 DEF NothingToHandle
<1>4. ASSUME NEW a \in Peers, HandleConnect(a) PROVE TypeOK'
  BY <1>1, <1>2, <1>4 DEF HandleConnect
<1>5. ASSUME NEW a \in Peers, HandleDisconnect(a) PROVE TypeOK'
  <2> DEFINE p == GetPlayerByAddress(board, a)
  <2>1. p # NoPlayer => p \in Ids(board) BY <1>1, PlayerByAddress
  <2>2. \/ UNCHANGED board
        \/ p # NoPlayer /\ board' = Defeat(board, p)
        \/ p # NoPlayer /\ board' = RemovePlayer(board, p)
    BY <1>5 DEF HandleDisconnect
  <2> HIDE DEF p
  <2>3. BoardOK(board', Peers) BY <1>1, <2>1, <2>2, DefeatOK, RemovePlayerOK
  <2>4. Handle(Departed(a)) /\ members' \subseteq Peers BY <1>1, <1>5 DEF HandleDisconnect
  <2> QED BY <1>2, <2>3, <2>4
<1>6. ASSUME NEW a \in Peers, HandlePacket(a) PROVE TypeOK'
  <2>1. CASE HandleJoin(a)
    <3>1. BoardOK(board', Peers) BY <1>1, <2>1, AddPlayerOK DEF HandleJoin
    <3> QED BY <1>1, <1>2, <2>1, <3>1 DEF HandleJoin
  <2>2. CASE HandleAskReady(a) BY <1>1, <1>2, <2>2 DEF HandleAskReady
  <2>3. CASE HandleOther(a) BY <1>1, <1>2, <2>3 DEF HandleOther
  <2>4. ASSUME NEW p \in KnownIds, HandleReady(a, p) PROVE TypeOK'
    <3>1. BoardOK(board', Peers) BY <1>1, <2>4, SetReadyOK DEF HandleReady
    <3> QED BY <1>1, <1>2, <2>4, <3>1 DEF HandleReady
  <2>5. ASSUME NEW p \in KnownIds, NEW t \in DOMAIN Cost, HandleBuy(a, p, t) PROVE TypeOK'
    <3>1. BoardOK(board', Peers) BY <1>1, <2>5, AddCharacterOK DEF HandleBuy
    <3> QED BY <1>1, <1>2, <2>5, <3>1 DEF HandleBuy
  <2>6. ASSUME NEW p \in KnownIds, NEW o \in MoveOrders, HandleMove(a, p, o) PROVE TypeOK'
    <3>1. o[2] \in Tiles BY ServerAssumption
    <3>2. BoardOK(board', Peers)
      BY <1>1, <2>6, <3>1, SetCharacterDestOK DEF HandleMove, Finds
    <3> QED BY <1>1, <1>2, <2>6, <3>2 DEF HandleMove
  <2>7. ASSUME NEW p \in KnownIds, NEW o \in MoveOrders, CrashOnMissingCharacter(a, p, o)
        PROVE  TypeOK'
    BY <2>7 DEF CrashOnMissingCharacter, TypeOK
  <2> QED BY <1>6, <2>1, <2>2, <2>3, <2>4, <2>5, <2>6, <2>7 DEF HandlePacket
<1> QED BY <1>3, <1>4, <1>5, <1>6

\* The types hold in every reachable state.
THEOREM TypeInvariant == Spec => []TypeOK
<1>1. Init => TypeOK
  BY EmptyBoardOK, ServerAssumption DEF Init, TypeOK, NoSweep, Empty
<1>2. TypeOK /\ [Next]_vars => TypeOK'
  <2> SUFFICES ASSUME TypeOK, [Next]_vars PROVE TypeOK'
    OBVIOUS
  <2>1. CASE TimedEvent(Arrivals) BY <2>1, TimedEventType
  <2>2. CASE FinishTurn BY <2>2, SweepType, HandlerType DEF FinishTurn
  <2>3. CASE Tick BY <2>3, ServerAssumption DEF Tick, TypeOK
  <2>4. CASE UNCHANGED vars BY <2>4 DEF vars, TypeOK
  <2> QED BY <2>1, <2>2, <2>3, <2>4 DEF Next, ServerStep, Dead
<1> QED BY <1>1, <1>2, PTL DEF Spec

-----------------------------------------------------------------------------
(* The inductive invariant *)

\* The invariant holds in the initial state.
LEMMA InitSafe == Init => IInv
<1> SUFFICES ASSUME Init PROVE IInv
  OBVIOUS
<1>1. TypeOK
  BY EmptyBoardOK, ServerAssumption DEF Init, TypeOK, NoSweep, Empty
<1>2. /\ board.phase = "lobby" /\ board.lastPlayer = 0 /\ Ids(board) = {}
      /\ board.tiles = [t \in Tiles |-> Empty]
  BY DEF Init, EmptyBoard, Ids
<1>3. TurnOK
  BY <1>2, ServerAssumption DEF Init, TurnOK, NoEvent, Departed, From
<1>4. AddressOwnership /\ SurvivorRemains /\ NothingBeforeStart /\ DefeatFindsKing
  BY <1>2 DEF AddressOwnership, Active, SurvivorRemains, NothingBeforeStart,
              DefeatFindsKing, IsStarted
<1> QED BY <1>1, <1>3, <1>4 DEF IInv

\* Same players at the same addresses, nobody active who was not.
LEMMA OwnershipKept ==
  ASSUME AddressOwnership, members' = members, Ids(board') = Ids(board),
         \A p \in Ids(board) : board'.players[p].address = board.players[p].address,
         Active' \subseteq Active
  PROVE  AddressOwnership'
BY DEF AddressOwnership, Active, GetGamePlayers

\* What holds after a step that leaves the match as it was.
LEMMA SameMatchKeeps ==
  ASSUME AddressOwnership, DefeatFindsKing, members' = members, SameMatch(board, board')
  PROVE  AddressOwnership' /\ DefeatFindsKing'
<1>1. /\ GetGamePlayers(board') = GetGamePlayers(board)
      /\ IsStarted(board') = IsStarted(board)
  BY SameSurvivors
<1>2. /\ Ids(board') = Ids(board)
      /\ \A p \in Ids(board) : /\ board'.players[p].address = board.players[p].address
                               /\ board'.players[p].king = board.players[p].king
  BY DEF SameMatch
<1>3. Active' \subseteq Active BY <1>1, <1>2 DEF Active
<1>4. DefeatFindsKing' BY <1>1, <1>2 DEF DefeatFindsKing
<1> QED BY <1>2, <1>3, <1>4, OwnershipKept

\* A board that does not change is the same match.
LEMMA SameMatchRefl ==
  ASSUME NEW b PROVE SameMatch(b, b)
BY DEF SameMatch

\* More than one player and all of them ready: two different ones.
LEMMA TwoPlayers ==
  ASSUME BoardOK(board, Peers), AllReady
  PROVE  \E p, q \in Ids(board) : p # q
<1>1. IsFiniteSet(Ids(board)) /\ Cardinality(Ids(board)) \in Nat BY FinitePlayers
<1>2. Cardinality(Ids(board)) > 1 BY DEF AllReady
<1>3. Ids(board) # {} BY <1>1, <1>2, FS_EmptySet
<1>4. PICK p \in Ids(board) : TRUE BY <1>3
<1>5. Ids(board) # {p} BY <1>2, FS_Singleton
<1> QED BY <1>4, <1>5

\* Every branch of TimedEvent preserves the invariant.  StartGame gives every
\* player a king, EndGame runs with one survivor, PlayTick with more than one.
LEMMA TimedEventSafe ==
  ASSUME IInv, TimedEvent(Arrivals)
  PROVE  IInv'
<1>1. /\ TypeOK /\ TurnOK /\ AddressOwnership /\ SurvivorRemains
      /\ NothingBeforeStart /\ DefeatFindsKing /\ BoardOK(board, Peers)
  BY DEF IInv, TypeOK
<1>2. TypeOK' BY <1>1, TimedEventType
<1>3. /\ members' = members /\ sweep' = sweep /\ event' \in Arrivals
      /\ stage = "service" /\ stage' \in {"sweep", "handle"} /\ sweep = NoSweep
  BY <1>1 DEF TimedEvent, StartTimer, KeepCounting, StartGame, ResetTimer, EndGame,
              AfterTheGame, PlayTick, LobbyTurn, Take, TurnOK
\* The same players at the same addresses, and once started, started.
<1>4. ASSUME /\ Ids(board') = Ids(board) /\ board'.lastPlayer = board.lastPlayer
             /\ \A p \in Ids(board) : board'.players[p].address = board.players[p].address
             /\ IsStarted(board) => IsStarted(board')
             /\ stage' = "sweep" => board'.phase = "playing"
      PROVE  TurnOK'
  <2>1. members \subseteq Peers BY <1>1 DEF TypeOK
  <2>2. \A a \in Peers :
          /\ event' = Departed(a) => a \in members
          /\ event' = From(a, Join) =>
               /\ a \in members /\ board.lastPlayer < MaxJoins
               /\ IsStarted(board) \/ \A p \in Ids(board) : board.players[p].address # a
    BY <1>3, <2>1, ArrivalFacts
  <2>3. board'.lastPlayer <= MaxJoins BY <1>1, <1>4 DEF TurnOK
  <2>4. \A a \in Peers :
          event' = From(a, Join) =>
            IsStarted(board') \/ \A p \in Ids(board') : board'.players[p].address # a
    BY <1>4, <2>2
  <2> QED BY <1>3, <1>4, <2>2, <2>3, <2>4 DEF TurnOK
<1>5. CASE UNCHANGED board /\ ~(board.phase = "playing")
  <2>1. SameMatch(board, board') BY <1>5, SameMatchRefl
  <2>2. stage' # "sweep"
    BY <1>3, <1>5 DEF TimedEvent, StartTimer, KeepCounting, StartGame, ResetTimer, EndGame,
              AfterTheGame, PlayTick, LobbyTurn
  <2>3. TurnOK' BY <1>4, <1>5, <2>2
  <2>4. NothingBeforeStart' BY <1>1, <1>5 DEF NothingBeforeStart
  <2>5. SurvivorRemains' BY <1>5 DEF SurvivorRemains
  <2> QED BY <1>1, <1>2, <1>3, <2>1, <2>3, <2>4, <2>5, SameMatchKeeps DEF IInv
<1>6. CASE StartGame(Arrivals)
  <2>1. board.phase = "lobby" /\ AllReady /\ board' = StartBoard(board) /\ stage' = "handle"
    BY <1>6 DEF StartGame, LobbyTurn, IsStarted
  <2>2. /\ Ids(board') = Ids(board) /\ board'.phase = "playing"
        /\ board'.lastPlayer = board.lastPlayer
        /\ \A p \in Ids(board) : /\ board'.players[p].address = board.players[p].address
                                 /\ board'.players[p].king = "alive"
    BY <1>1, <2>1, StartBoardMatch
  <2>3. TurnOK' BY <1>4, <2>1, <2>2 DEF IsStarted
  <2>4. Active' \subseteq Active
    BY <2>1, <2>2 DEF Active, GetGamePlayers, IsStarted
  <2>5. AddressOwnership' BY <1>1, <1>3, <2>2, <2>4, OwnershipKept
  <2>6. SurvivorRemains'
    <3>1. PICK p \in Ids(board), q \in Ids(board) : p # q BY <1>1, <2>1, TwoPlayers
    <3>2. p \in GetGamePlayers(board') /\ q \in GetGamePlayers(board')
      BY <2>2 DEF GetGamePlayers, IsDefeated
    <3> QED BY <2>1, <3>1, <3>2 DEF SurvivorRemains
  <2>7. NothingBeforeStart' /\ DefeatFindsKing'
    BY <2>2 DEF NothingBeforeStart, DefeatFindsKing, IsStarted
  <2> QED BY <1>2, <2>3, <2>5, <2>6, <2>7 DEF IInv
<1>7. CASE EndGame(Arrivals)
  <2>1. board.phase = "playing" /\ board' = EndBoard(board) /\ stage' = "handle"
    BY <1>7 DEF EndGame
  <2>2. /\ board'.phase = "ended" /\ board'.players = board.players
        /\ board'.lastPlayer = board.lastPlayer
    BY <1>1, <2>1, EndBoardMatch
  <2>3. TurnOK' BY <1>4, <2>1, <2>2 DEF IsStarted, Ids
  <2>4. Active' \subseteq Active
    BY <2>1, <2>2 DEF Active, GetGamePlayers, IsStarted, Ids
  <2>5. AddressOwnership' BY <1>1, <1>3, <2>2, <2>4, OwnershipKept DEF Ids
  <2>6. SurvivorRemains' /\ NothingBeforeStart'
    BY <2>2 DEF SurvivorRemains, NothingBeforeStart, IsStarted
  <2>7. DefeatFindsKing' BY <1>1, <2>1, <2>2 DEF DefeatFindsKing, IsStarted, Ids
  <2> QED BY <1>2, <2>3, <2>5, <2>6, <2>7 DEF IInv
<1>8. ASSUME NEW hexDue \in BOOLEAN, PlayTick(Arrivals, hexDue) PROVE IInv'
  <2>1. /\ board.phase = "playing" /\ ~IsWinner(board) /\ stage' = "sweep"
        /\ UNCHANGED board \/ board' = IncHexBank(board)
    BY <1>8 DEF PlayTick
  <2>2. SameMatch(board, board') BY <1>1, <2>1, SameMatchRefl, IncHexBankSame
  <2>3. TurnOK'
    <3>1. /\ Ids(board') = Ids(board) /\ board'.lastPlayer = board.lastPlayer
          /\ board'.phase = "playing"
          /\ \A p \in Ids(board) : board'.players[p].address = board.players[p].address
      BY <2>1, <2>2 DEF SameMatch
    <3> QED BY <1>4, <3>1 DEF IsStarted
  \* The last look for a winner found none among at least one survivor.
  <2>4. SurvivorRemains'
    <3>1. GetGamePlayers(board) # {} BY <1>1, <1>3, <2>1 DEF SurvivorRemains
    <3>2. \A p \in GetGamePlayers(board) : GetGamePlayers(board) # {p}
      BY <2>1 DEF IsWinner, GetGamePlayers
    <3>3. \E p, q \in GetGamePlayers(board) : p # q BY <3>1, <3>2
    <3>4. GetGamePlayers(board') = GetGamePlayers(board) BY <2>2, SameSurvivors
    <3> QED BY <2>1, <3>3, <3>4 DEF SurvivorRemains
  <2>5. NothingBeforeStart'
    BY <2>1, <2>2 DEF NothingBeforeStart, SameMatch, IsStarted
  <2> QED BY <1>1, <1>2, <1>3, <2>2, <2>3, <2>4, <2>5, SameMatchKeeps DEF IInv
<1>9. \/ UNCHANGED board /\ ~(board.phase = "playing")
      \/ StartGame(Arrivals) \/ EndGame(Arrivals)
      \/ \E hexDue \in BOOLEAN : PlayTick(Arrivals, hexDue)
  BY DEF TimedEvent, StartTimer, KeepCounting, ResetTimer, AfterTheGame, LobbyTurn, IsStarted
<1> QED BY <1>5, <1>6, <1>7, <1>8, <1>9

\* The steps of updateCharacterLocation preserve the invariant: they move
\* characters and touch neither players nor members.
LEMMA SweepSafe ==
  ASSUME IInv, SkipCharacter \/ MoveCharacter \/ CrashOnStrayWrite \/ EndSweep
  PROVE  IInv'
<1>1. /\ TypeOK /\ TurnOK /\ AddressOwnership /\ SurvivorRemains
      /\ NothingBeforeStart /\ DefeatFindsKing /\ BoardOK(board, Peers)
  BY DEF IInv, TypeOK
<1>2. TypeOK' BY <1>1, SweepType
<1>3. /\ stage = "sweep" /\ event' = event /\ members' = members
      /\ stage' \in {"sweep", "crashed", "handle"}
      /\ stage' = "handle" => sweep' = NoSweep
  BY DEF SkipCharacter, MoveCharacter, CrashOnStrayWrite, EndSweep
<1>4. SameMatch(board, board')
  <2>1. CASE MoveCharacter
    <3>1. ToVisit # {} BY <2>1 DEF MoveCharacter
    <3>2. PICK p \in Ids(board) : \E n \in DOMAIN board.players[p].army : NextToVisit = <<p, n>>
      BY <1>1, <3>1, NextToVisitFound
    <3>3. PICK n \in DOMAIN board.players[p].army : NextToVisit = <<p, n>>
      BY <3>2
    <3>4. board' = UpdateLocation(board, p, n) BY <2>1, <3>3 DEF MoveCharacter
    <3> QED BY <1>1, <3>4, UpdateLocationSame
  <2>2. CASE ~MoveCharacter
    <3>1. UNCHANGED board BY <2>2 DEF SkipCharacter, CrashOnStrayWrite, EndSweep
    <3> QED BY <3>1, SameMatchRefl
  <2> QED BY <2>1, <2>2
<1>5. board.phase = "playing" BY <1>1, <1>3 DEF TurnOK
<1>6. /\ Ids(board') = Ids(board) /\ board'.lastPlayer = board.lastPlayer
      /\ board'.phase = "playing"
      /\ \A p \in Ids(board) : board'.players[p].address = board.players[p].address
  BY <1>4, <1>5 DEF SameMatch
<1>7. TurnOK' BY <1>1, <1>3, <1>5, <1>6 DEF TurnOK, IsStarted
<1>8. SurvivorRemains'
  <2>1. GetGamePlayers(board') = GetGamePlayers(board) BY <1>4, SameSurvivors
  <2> QED BY <1>1, <1>3, <1>5, <2>1 DEF SurvivorRemains
<1>9. NothingBeforeStart' BY <1>6 DEF NothingBeforeStart, IsStarted
<1> QED BY <1>1, <1>2, <1>3, <1>4, <1>7, <1>8, <1>9, SameMatchKeeps DEF IInv

\* A handler that leaves the match as it was.
LEMMA HandledSameMatch ==
  ASSUME IInv, TypeOK', NEW e, Handle(e), members \subseteq members',
         SameMatch(board, board'), NothingBeforeStart'
  PROVE  IInv'
<1>1. /\ TurnOK /\ AddressOwnership /\ SurvivorRemains /\ DefeatFindsKing BY DEF IInv
<1>2. /\ stage = "handle" /\ stage' = "service" /\ event' = NoEvent /\ sweep' = sweep
  BY DEF Handle
<1>3. /\ GetGamePlayers(board') = GetGamePlayers(board)
      /\ IsStarted(board') = IsStarted(board)
  BY SameSurvivors
<1>4. /\ Ids(board') = Ids(board) /\ board'.lastPlayer = board.lastPlayer
      /\ board'.phase = board.phase
      /\ \A p \in Ids(board) : /\ board'.players[p].address = board.players[p].address
                               /\ board'.players[p].king = board.players[p].king
  BY DEF SameMatch
<1>5. TurnOK' BY <1>1, <1>2, <1>4 DEF TurnOK, NoEvent, Departed, From
<1>6. AddressOwnership'
  <2>1. Active' = Active BY <1>3, <1>4 DEF Active
  <2>2. Active \subseteq Ids(board) BY DEF Active, GetGamePlayers
  <2> QED BY <1>1, <1>4, <2>1, <2>2 DEF AddressOwnership
<1>7. SurvivorRemains' BY <1>1, <1>2, <1>3, <1>4 DEF SurvivorRemains
<1>8. DefeatFindsKing' BY <1>1, <1>3, <1>4 DEF DefeatFindsKing
<1> QED BY <1>5, <1>6, <1>7, <1>8 DEF IInv

\* A peer that leaves takes its own player with it, and only that one.
LEMMA DisconnectSafe ==
  ASSUME IInv, NEW a \in Peers, HandleDisconnect(a)
  PROVE  IInv'
<1>1. /\ TypeOK /\ TurnOK /\ AddressOwnership /\ SurvivorRemains
      /\ NothingBeforeStart /\ DefeatFindsKing /\ BoardOK(board, Peers)
  BY DEF IInv, TypeOK
<1>2. TypeOK' BY <1>1, HandlerType
<1>3. /\ stage = "handle" /\ stage' = "service" /\ event' = NoEvent /\ sweep' = sweep
      /\ members' = members \ {a}
  BY DEF HandleDisconnect, Handle
<1> DEFINE p == GetPlayerByAddress(board, a)
<1>4. \/ p = NoPlayer /\ \A q \in Ids(board) : board.players[q].address # a
      \/ p # NoPlayer /\ p \in Ids(board) /\ board.players[p].address = a
  BY <1>1, PlayerByAddress
<1>5. \/ p = NoPlayer /\ UNCHANGED board
      \/ p # NoPlayer /\ IsStarted(board) /\ board' = Defeat(board, p)
      \/ p # NoPlayer /\ ~IsStarted(board) /\ board' = RemovePlayer(board, p)
  BY DEF HandleDisconnect
<1> HIDE DEF p
<1>6. ASSUME board'.lastPlayer = board.lastPlayer PROVE TurnOK'
  BY <1>1, <1>3, <1>6 DEF TurnOK, NoEvent, Departed, From
<1>7. \A q \in Ids(board) : q # p => board.players[q].address # a
  BY <1>1, <1>4 DEF AddressOwnership
<1>8. CASE p = NoPlayer
  <2>1. UNCHANGED board BY <1>5, <1>8
  <2>2. AddressOwnership'
    <3>1. Active' = Active /\ Active \subseteq Ids(board)
      BY <2>1 DEF Active, GetGamePlayers
    <3> QED BY <1>1, <1>3, <1>4, <1>8, <2>1, <3>1 DEF AddressOwnership
  <2>3. TurnOK' BY <1>6, <2>1
  <2>4. SurvivorRemains' /\ NothingBeforeStart' /\ DefeatFindsKing'
    BY <1>1, <1>3, <2>1 DEF SurvivorRemains, NothingBeforeStart, DefeatFindsKing
  <2> QED BY <1>2, <2>2, <2>3, <2>4 DEF IInv
<1>9. CASE p # NoPlayer /\ IsStarted(board)
  <2>1. p \in Ids(board) /\ board' = Defeat(board, p) BY <1>4, <1>5, <1>9
  <2>2. /\ Ids(board') = Ids(board) /\ board'.phase = board.phase
        /\ board'.lastPlayer = board.lastPlayer
        /\ board'.players[p].king = "dead"
        /\ \A q \in Ids(board) : /\ q # p => board'.players[q].king = board.players[q].king
                                 /\ board'.players[q].address = board.players[q].address
    BY <1>1, <2>1, DefeatMatch
  <2>3. GetGamePlayers(board') = GetGamePlayers(board) \ {p}
    BY <2>2 DEF GetGamePlayers, IsDefeated
  <2>4. AddressOwnership'
    <3>1. Active' = Active \ {p} /\ Active \subseteq Ids(board)
      BY <1>9, <2>2, <2>3 DEF Active, IsStarted, GetGamePlayers
    <3>2. \A q \in Active' : board'.players[q].address \in members \ {a}
      BY <1>1, <1>7, <2>2, <3>1 DEF AddressOwnership
    <3> QED BY <1>1, <1>3, <2>2, <3>2 DEF AddressOwnership
  <2>5. SurvivorRemains' BY <1>1, <1>3, <2>2, <2>3 DEF SurvivorRemains
  <2>6. NothingBeforeStart' BY <1>9, <2>2 DEF NothingBeforeStart, IsStarted
  <2>7. DefeatFindsKing' BY <1>1, <2>2 DEF DefeatFindsKing, IsStarted
  <2> QED BY <1>2, <1>6, <2>2, <2>4, <2>5, <2>6, <2>7 DEF IInv
<1>10. CASE p # NoPlayer /\ ~IsStarted(board)
  <2>1. p \in Ids(board) /\ board' = RemovePlayer(board, p) BY <1>4, <1>5, <1>10
  <2>2. /\ Ids(board') = Ids(board) \ {p} /\ board'.phase = board.phase
        /\ board'.lastPlayer = board.lastPlayer /\ board'.tiles = board.tiles
        /\ \A q \in Ids(board') : board'.players[q] = board.players[q]
    BY <1>1, <2>1, RemovePlayerMatch
  <2>3. AddressOwnership'
    <3>1. Active' = Ids(board) \ {p} /\ Active = Ids(board)
      BY <1>10, <2>2 DEF Active, IsStarted
    <3>2. \A q \in Active' : board'.players[q].address \in members \ {a}
      BY <1>1, <1>7, <2>2, <3>1 DEF AddressOwnership
    <3> QED BY <1>1, <1>3, <2>2, <3>2 DEF AddressOwnership
  <2>4. SurvivorRemains' BY <1>10, <2>2 DEF SurvivorRemains, IsStarted
  <2>5. NothingBeforeStart' BY <1>1, <1>10, <2>2 DEF NothingBeforeStart, IsStarted
  <2>6. DefeatFindsKing' BY <1>10, <2>2 DEF DefeatFindsKing, IsStarted
  <2> QED BY <1>2, <1>6, <2>2, <2>3, <2>4, <2>5, <2>6 DEF IInv
<1> QED BY <1>8, <1>9, <1>10

\* addPlayer, from the board the join is handled on.
JoinedAs(id, a) ==
  /\ id \in Nat /\ id = board.lastPlayer + 1 /\ id \notin Ids(board) /\ id # NoPlayer
  /\ Ids(board') = Ids(board) \cup {id}
  /\ board'.phase = board.phase /\ board'.lastPlayer = id /\ board'.tiles = board.tiles
  /\ \A p \in Ids(board) : board'.players[p] = board.players[p]
  /\ board'.players[id].index = Cardinality(Ids(board) \cup {id})
  /\ board'.players[id].address = a /\ ~board'.players[id].ready
  /\ board'.players[id].king = "none" /\ board'.players[id].hexbank = 0
  /\ board'.players[id].army = NoArmy /\ board'.players[id].armyCount = 0

LEMMA JoinFacts ==
  ASSUME BoardOK(board, Peers), NEW a \in Peers
  PROVE  board' = AddPlayer(board, a) => \E id : JoinedAs(id, a)
<1> DEFINE c == AddPlayer(board, a)
<1>1. PICK id : id = board.lastPlayer + 1 OBVIOUS
<1>2. /\ id \in Nat /\ id \notin Ids(board) /\ id # NoPlayer
      /\ Ids(c) = Ids(board) \cup {id}
      /\ c.phase = board.phase /\ c.lastPlayer = id /\ c.tiles = board.tiles
      /\ \A p \in Ids(board) : c.players[p] = board.players[p]
      /\ c.players[id].index = Cardinality(Ids(board) \cup {id})
      /\ c.players[id].address = a /\ ~c.players[id].ready
      /\ c.players[id].king = "none" /\ c.players[id].hexbank = 0
      /\ c.players[id].army = NoArmy /\ c.players[id].armyCount = 0
  BY <1>1, AddPlayerMatch
<1> SUFFICES ASSUME board' = c PROVE \E i : JoinedAs(i, a)
  OBVIOUS
<1> HIDE DEF c
<1>3. JoinedAs(id, a) BY <1>1, <1>2 DEF JoinedAs
<1> QED BY <1>3

\* A player enters at an address nobody else plays from.
LEMMA JoinSafe ==
  ASSUME IInv, NEW a \in Peers, HandleJoin(a)
  PROVE  IInv'
<1>1. /\ TypeOK /\ TurnOK /\ AddressOwnership /\ SurvivorRemains
      /\ NothingBeforeStart /\ DefeatFindsKing /\ BoardOK(board, Peers)
  BY DEF IInv, TypeOK
<1>2. TypeOK' BY <1>1, HandlerType DEF HandlePacket
<1>3. /\ stage = "handle" /\ stage' = "service" /\ event' = NoEvent /\ sweep' = sweep
      /\ members' = members /\ event = From(a, Join) /\ Handle(From(a, Join))
  BY DEF HandleJoin, Handle
<1>4. CASE UNCHANGED board
  <2>1. SameMatch(board, board') BY <1>4, SameMatchRefl
  <2>2. NothingBeforeStart' BY <1>1, <1>4 DEF NothingBeforeStart
  <2> QED BY <1>2, <1>3, <2>1, <2>2, HandledSameMatch
<1>5. CASE board' = AddPlayer(board, a) /\ ~IsStarted(board)
  <2>0. PICK id : JoinedAs(id, a) BY <1>1, <1>5, JoinFacts
  <2>1. /\ id \in Nat /\ id = board.lastPlayer + 1
        /\ Ids(board') = Ids(board) \cup {id}
        /\ board'.phase = board.phase /\ board'.lastPlayer = id /\ board'.tiles = board.tiles
        /\ \A p \in Ids(board) : board'.players[p] = board.players[p]
        /\ board'.players[id].address = a
        /\ board'.players[id].king = "none" /\ board'.players[id].hexbank = 0
        /\ board'.players[id].army = NoArmy
    BY <2>0 DEF JoinedAs
  <2>2. /\ a \in members /\ board.lastPlayer < MaxJoins
        /\ \A p \in Ids(board) : board.players[p].address # a
    BY <1>1, <1>3, <1>5 DEF TurnOK
  <2>3. TurnOK'
    <3>1. id <= MaxJoins BY <1>1, <2>1, <2>2, ServerAssumption DEF BoardOK
    <3> QED BY <1>1, <1>3, <2>1, <3>1 DEF TurnOK, NoEvent, Departed, From
  <2>4. AddressOwnership'
    <3>1. Active' = Ids(board) \cup {id} /\ Active = Ids(board)
      BY <1>5, <2>1 DEF Active, IsStarted
    <3>2. \A p \in Active' : board'.players[p].address \in members
      BY <1>1, <2>1, <2>2, <3>1 DEF AddressOwnership
    <3>3. \A p, q \in Ids(board') :
            board'.players[p].address = board'.players[q].address => p = q
      BY <1>1, <2>1, <2>2 DEF AddressOwnership
    <3> QED BY <1>3, <3>2, <3>3 DEF AddressOwnership
  <2>5. SurvivorRemains' BY <1>5, <2>1 DEF SurvivorRemains, IsStarted
  <2>6. NothingBeforeStart' BY <1>1, <1>5, <2>1 DEF NothingBeforeStart, IsStarted
  <2>7. DefeatFindsKing' BY <1>5, <2>1 DEF DefeatFindsKing, IsStarted
  <2> QED BY <1>2, <2>3, <2>4, <2>5, <2>6, <2>7 DEF IInv
<1> QED BY <1>4, <1>5 DEF HandleJoin

\* Orders and flags: the match stays as it was, but for the flags.
LEMMA PacketSafe ==
  ASSUME IInv, NEW a \in Peers, HandlePacket(a)
  PROVE  IInv'
<1>1. /\ TypeOK /\ TurnOK /\ AddressOwnership /\ SurvivorRemains
      /\ NothingBeforeStart /\ DefeatFindsKing /\ BoardOK(board, Peers)
  BY DEF IInv, TypeOK
<1>2. TypeOK' BY <1>1, HandlerType
<1>3. ASSUME NEW e, Handle(e), members' = members, UNCHANGED board
      PROVE  IInv'
  <2>1. SameMatch(board, board') BY <1>3, SameMatchRefl
  <2>2. NothingBeforeStart' BY <1>1, <1>3 DEF NothingBeforeStart
  <2> QED BY <1>2, <1>3, <2>1, <2>2, HandledSameMatch
<1>4. CASE HandleAskReady(a) \/ HandleOther(a)
  BY <1>3, <1>4 DEF HandleAskReady, HandleOther
<1>5. ASSUME NEW p \in KnownIds, HandleReady(a, p) PROVE IInv'
  <2>1. PICK r \in BOOLEAN :
          /\ Handle(From(a, IF r THEN ReadyMsg(p) ELSE UnreadyMsg(p)))
          /\ members' = members
          /\ \/ UNCHANGED board
             \/ p \in Ids(board) /\ board' = SetReady(board, p, r)
    BY <1>5 DEF HandleReady
  <2>2. CASE UNCHANGED board BY <1>3, <2>1, <2>2
  <2>3. CASE p \in Ids(board) /\ board' = SetReady(board, p, r)
    <3>1. /\ Ids(board') = Ids(board) /\ board'.phase = board.phase
          /\ board'.lastPlayer = board.lastPlayer /\ board'.tiles = board.tiles
          /\ \A q \in Ids(board) : /\ board'.players[q].address = board.players[q].address
                                   /\ board'.players[q].king    = board.players[q].king
                                   /\ board'.players[q].hexbank = board.players[q].hexbank
                                   /\ board'.players[q].army    = board.players[q].army
      BY <1>1, <2>3, SetReadyMatch
    <3>2. /\ stage = "handle" /\ stage' = "service" /\ event' = NoEvent /\ sweep' = sweep
      BY <2>1 DEF Handle
    <3>3. GetGamePlayers(board') = GetGamePlayers(board)
      BY <3>1 DEF GetGamePlayers, IsDefeated
    <3>4. TurnOK' BY <1>1, <3>1, <3>2 DEF TurnOK, NoEvent, Departed, From
    <3>5. AddressOwnership'
      <4>1. Active' \subseteq Active BY <3>1, <3>3 DEF Active, IsStarted
      <4> QED BY <1>1, <2>1, <3>1, <4>1, OwnershipKept
    <3>6. SurvivorRemains' BY <1>1, <3>1, <3>2, <3>3 DEF SurvivorRemains
    <3>7. NothingBeforeStart' BY <1>1, <3>1 DEF NothingBeforeStart, IsStarted
    <3>8. DefeatFindsKing' BY <1>1, <3>1 DEF DefeatFindsKing, IsStarted
    <3> QED BY <1>2, <3>4, <3>5, <3>6, <3>7, <3>8 DEF IInv
  <2> QED BY <2>1, <2>2, <2>3
<1>6. ASSUME NEW p \in KnownIds, NEW t \in DOMAIN Cost, HandleBuy(a, p, t) PROVE IInv'
  <2>1. /\ Handle(From(a, BuyMsg(p, t))) /\ members' = members
        /\ \/ UNCHANGED board
           \/ p \in Ids(board) /\ board' = AddCharacter(board, p, t)
    BY <1>6 DEF HandleBuy
  <2>2. CASE UNCHANGED board BY <1>3, <2>1, <2>2
  <2>3. CASE p \in Ids(board) /\ board' = AddCharacter(board, p, t)
    <3>1. SameMatch(board, board') BY <1>1, <2>3, AddCharacterSame
    \* In the lobby every bank is empty and nothing is free.
    <3>2. NothingBeforeStart'
      <4>1. SUFFICES ASSUME ~IsStarted(board) PROVE NothingBeforeStart'
        BY <3>1 DEF NothingBeforeStart, SameMatch, IsStarted
      <4>2. board.players[p].hexbank = 0 /\ Cost[t] \in Nat \ {0}
        BY <1>1, <2>3, <4>1, BoardAssumption DEF NothingBeforeStart
      <4>3. BuyRefused(board.players[p], t) BY <4>2 DEF BuyRefused
      <4>4. /\ board'.tiles = board.tiles
            /\ \A q \in Ids(board) : /\ board'.players[q].hexbank = board.players[q].hexbank
                                     /\ board'.players[q].king    = board.players[q].king
                                     /\ board'.players[q].army    = board.players[q].army
        BY <1>1, <2>3, <4>3, AddCharacterRefused
      <4>5. Ids(board') = Ids(board) BY <3>1 DEF SameMatch
      <4> QED BY <1>1, <4>1, <4>4, <4>5 DEF NothingBeforeStart
    <3> QED BY <1>2, <2>1, <3>1, <3>2, HandledSameMatch
  <2> QED BY <2>1, <2>2, <2>3
<1>7. ASSUME NEW p \in KnownIds, NEW o \in MoveOrders, HandleMove(a, p, o) PROVE IInv'
  <2>1. /\ Handle(From(a, MoveMsg(p, o))) /\ members' = members
        /\ \/ UNCHANGED board
           \/ /\ p \in Ids(board) /\ Finds(p, o)
              /\ board' = SetCharacterDest(board, p, o[1], o[2])
    BY <1>7 DEF HandleMove
  <2>2. CASE UNCHANGED board BY <1>3, <2>1, <2>2
  <2>3. CASE p \in Ids(board) /\ Finds(p, o) /\ board' = SetCharacterDest(board, p, o[1], o[2])
    <3>1. SameMatch(board, board') BY <1>1, <2>3, SetCharacterDestSame DEF Finds
    <3>2. IsStarted(board)
      BY <1>1, <2>3 DEF NothingBeforeStart, Finds, NoArmy
    <3>3. NothingBeforeStart' BY <3>1, <3>2 DEF NothingBeforeStart, SameMatch, IsStarted
    <3> QED BY <1>2, <2>1, <3>1, <3>3, HandledSameMatch
  <2> QED BY <2>1, <2>2, <2>3
<1>8. ASSUME NEW p \in KnownIds, NEW o \in MoveOrders, CrashOnMissingCharacter(a, p, o)
      PROVE  IInv'
  <2>1. /\ stage = "handle" /\ stage' = "crashed"
        /\ UNCHANGED <<board, startGameTimer, event, members, sweep>>
    BY <1>8 DEF CrashOnMissingCharacter
  <2>2. TurnOK' BY <1>1, <2>1 DEF TurnOK
  <2>3. AddressOwnership' /\ DefeatFindsKing'
    BY <1>1, <2>1, SameMatchRefl, SameMatchKeeps
  <2>4. SurvivorRemains' /\ NothingBeforeStart'
    BY <1>1, <2>1 DEF SurvivorRemains, NothingBeforeStart
  <2> QED BY <1>2, <2>2, <2>3, <2>4 DEF IInv
<1> QED BY <1>4, <1>5, <1>6, <1>7, <1>8, JoinSafe DEF HandlePacket

\* HandleConnect preserves the invariant: the members grow.
LEMMA ConnectSafe ==
  ASSUME IInv, NothingToHandle \/ \E a \in Peers : HandleConnect(a)
  PROVE  IInv'
<1>1. TypeOK /\ NothingBeforeStart BY DEF IInv
<1>2. TypeOK' BY <1>1, HandlerType
<1>3. PICK e : Handle(e) /\ UNCHANGED board /\ members \subseteq members'
  BY DEF NothingToHandle, HandleConnect
<1>4. SameMatch(board, board') BY <1>3, SameMatchRefl
<1>5. NothingBeforeStart' BY <1>1, <1>3 DEF NothingBeforeStart
<1> QED BY <1>2, <1>3, <1>4, <1>5, HandledSameMatch

\* A step that changes nothing preserves the invariant.
LEMMA StutterSafe ==
  ASSUME IInv, TypeOK',
         UNCHANGED <<board, stage, event, members, sweep>>
  PROVE  IInv'
<1>1. /\ TurnOK /\ AddressOwnership /\ SurvivorRemains
      /\ NothingBeforeStart /\ DefeatFindsKing
  BY DEF IInv
<1>2. AddressOwnership' /\ DefeatFindsKing'
  BY <1>1, SameMatchRefl, SameMatchKeeps
<1>3. TurnOK' /\ SurvivorRemains' /\ NothingBeforeStart'
  BY <1>1 DEF TurnOK, SurvivorRemains, NothingBeforeStart
<1> QED BY <1>2, <1>3 DEF IInv

\* Every step preserves the invariant.
LEMMA StepSafe == IInv /\ [Next]_vars => IInv'
<1> SUFFICES ASSUME IInv, [Next]_vars PROVE IInv'
  OBVIOUS
<1>1. CASE TimedEvent(Arrivals) BY <1>1, TimedEventSafe
<1>2. CASE FinishTurn
  BY <1>2, SweepSafe, ConnectSafe, DisconnectSafe, PacketSafe DEF FinishTurn
<1>3. CASE Tick
  <2>1. TypeOK' BY <1>3, ServerAssumption DEF Tick, TypeOK, IInv
  <2> QED BY <1>3, <2>1, StutterSafe DEF Tick
<1>4. CASE UNCHANGED vars
  <2>1. TypeOK' BY <1>4 DEF vars, TypeOK, IInv
  <2> QED BY <1>4, <2>1, StutterSafe DEF vars
<1> QED BY <1>1, <1>2, <1>3, <1>4 DEF Next, ServerStep, Dead

\* The invariant holds in every reachable state.
LEMMA Safe == Spec => []IInv
<1> QED BY InitSafe, StepSafe, PTL DEF Spec

\* No two players share an address and every active player is connected, so a
\* departure takes exactly the player who left (HandleDisconnect).
THEOREM Ownership == Spec => []AddressOwnership
<1>1. IInv => AddressOwnership BY DEF IInv
<1> QED BY <1>1, Safe, PTL

\* A game that is on has a survivor, and two after the look for a winner, so
\* isWinner() cannot be overtaken by the last departures (TimedEvent).
THEOREM Survivors == Spec => []SurvivorRemains
<1>1. IInv => SurvivorRemains BY DEF IInv
<1> QED BY <1>1, Safe, PTL

\* Orders in the lobby buy and move nothing (addCharacter, setCharacterDest).
THEOREM EmptyLobby == Spec => []NothingBeforeStart
<1>1. IInv => NothingBeforeStart BY DEF IInv
<1> QED BY <1>1, Safe, PTL

\* Every player of a started game has the king isDefeated(true) dereferences.
THEOREM KingFound == Spec => []DefeatFindsKing
<1>1. IInv => DefeatFindsKing BY DEF IInv
<1> QED BY <1>1, Safe, PTL

-----------------------------------------------------------------------------
(***************************************************************************)
(* The game server implements Match: every step of the server is a step of *)
(* the match it promises, or leaves the match alone.                       *)
(***************************************************************************)

\* Ids never given out twice are the players of the match.
LEMMA PlayersOfMatch ==
  ASSUME IInv
  PROVE  Ids(board) \subseteq 1 .. MaxJoins
BY ServerAssumption DEF IInv, TypeOK, TurnOK, BoardOK, Ids

\* A step to a board of the same match is a stutter of the match.
LEMMA SameMatchStutters ==
  ASSUME SameMatch(board, board')
  PROVE  UNCHANGED TheMatch!vars
<1>1. /\ GetGamePlayers(board') = GetGamePlayers(board)
      /\ GetReadyPlayers(board') = GetReadyPlayers(board)
  BY SameSurvivors
<1>2. Ids(board') = Ids(board) /\ board'.phase = board.phase BY DEF SameMatch
<1> QED BY <1>1, <1>2 DEF TheMatch!vars

\* startBoard is Begin: TimedEvent found more than one player and all of them ready.
LEMMA StartGameBegins ==
  ASSUME IInv, StartGame(Arrivals)
  PROVE  TheMatch!Begin
<1>1. BoardOK(board, Peers) BY DEF IInv, TypeOK
<1>2. board.phase = "lobby" /\ AllReady /\ board' = StartBoard(board)
  BY DEF StartGame, LobbyTurn, IsStarted
<1>3. /\ Ids(board') = Ids(board) /\ board'.phase = "playing"
      /\ \A p \in Ids(board) : /\ board'.players[p].ready = board.players[p].ready
                               /\ board'.players[p].king = "alive"
  BY <1>1, <1>2, StartBoardMatch
<1>4. GetGamePlayers(board') = Ids(board) BY <1>3 DEF GetGamePlayers, IsDefeated
<1>5. GetReadyPlayers(board') = GetReadyPlayers(board) BY <1>3 DEF GetReadyPlayers
<1>6. \E p, q \in Ids(board) : p # q BY <1>1, <1>2, TwoPlayers
<1>7. GetReadyPlayers(board) = Ids(board) BY <1>2 DEF AllReady
<1> QED BY <1>2, <1>3, <1>4, <1>5, <1>6, <1>7 DEF TheMatch!Begin

\* endBoard is Finish: isWinner found one survivor.
LEMMA EndGameFinishes ==
  ASSUME IInv, EndGame(Arrivals)
  PROVE  TheMatch!Finish
<1>1. BoardOK(board, Peers) BY DEF IInv, TypeOK
<1>2. board.phase = "playing" /\ IsWinner(board) /\ board' = EndBoard(board)
  BY DEF EndGame
<1>3. board'.phase = "ended" /\ board'.players = board.players
  BY <1>1, <1>2, EndBoardMatch
<1>4. /\ GetGamePlayers(board') = GetGamePlayers(board)
      /\ GetReadyPlayers(board') = GetReadyPlayers(board) /\ Ids(board') = Ids(board)
  BY <1>3 DEF GetGamePlayers, GetReadyPlayers, Ids
<1>5. \E p \in GetGamePlayers(board) : GetGamePlayers(board) = {p}
  BY <1>2 DEF IsWinner, GetGamePlayers
<1> QED BY <1>2, <1>3, <1>4, <1>5 DEF TheMatch!Finish

\* Every branch of TimedEvent is a step of the match or a stutter.
LEMMA TimedEventMatch ==
  ASSUME IInv, TimedEvent(Arrivals)
  PROVE  TheMatch!Next \/ UNCHANGED TheMatch!vars
<1>1. BoardOK(board, Peers) BY DEF IInv, TypeOK
<1>2. \/ UNCHANGED board \/ board' = IncHexBank(board)
      \/ StartGame(Arrivals) \/ EndGame(Arrivals)
  BY DEF TimedEvent, StartTimer, KeepCounting, ResetTimer, AfterTheGame, PlayTick
<1>3. CASE UNCHANGED board BY <1>3, SameMatchRefl, SameMatchStutters
<1>4. CASE board' = IncHexBank(board) BY <1>1, <1>4, IncHexBankSame, SameMatchStutters
<1>5. CASE StartGame(Arrivals) BY <1>5, StartGameBegins DEF TheMatch!Next
<1>6. CASE EndGame(Arrivals) BY <1>6, EndGameFinishes DEF TheMatch!Next
<1> QED BY <1>2, <1>3, <1>4, <1>5, <1>6

\* updateCharacterLocation is a stutter of the match.
LEMMA SweepMatch ==
  ASSUME IInv, SkipCharacter \/ MoveCharacter \/ CrashOnStrayWrite \/ EndSweep
  PROVE  UNCHANGED TheMatch!vars
<1>1. BoardOK(board, Peers) BY DEF IInv, TypeOK
<1>2. CASE MoveCharacter
  <2>1. ToVisit # {} BY <1>2 DEF MoveCharacter
  <2>2. PICK p \in Ids(board) : \E n \in DOMAIN board.players[p].army : NextToVisit = <<p, n>>
    BY <1>1, <2>1, NextToVisitFound
  <2>3. PICK n \in DOMAIN board.players[p].army : NextToVisit = <<p, n>>
    BY <2>2
  <2>4. board' = UpdateLocation(board, p, n) BY <1>2, <2>3 DEF MoveCharacter
  <2> QED BY <1>1, <2>4, UpdateLocationSame, SameMatchStutters
<1>3. CASE ~MoveCharacter
  <2>1. UNCHANGED board BY <1>3 DEF SkipCharacter, CrashOnStrayWrite, EndSweep
  <2> QED BY <2>1, SameMatchRefl, SameMatchStutters
<1> QED BY <1>2, <1>3

\* The handler of 'C' is Enter, for the id it gives out, or a stutter.
LEMMA JoinEnters ==
  ASSUME IInv, NEW a \in Peers, HandleJoin(a)
  PROVE  TheMatch!Next \/ UNCHANGED TheMatch!vars
<1>1. BoardOK(board, Peers) BY DEF IInv, TypeOK
<1>2. CASE UNCHANGED board BY <1>2, SameMatchRefl, SameMatchStutters
<1>3. CASE board' = AddPlayer(board, a) /\ ~IsStarted(board)
  <2>1. PICK id : JoinedAs(id, a) BY <1>1, <1>3, JoinFacts
  <2>2. /\ id = board.lastPlayer + 1 /\ id \in Nat /\ id \notin Ids(board) /\ id # NoPlayer
        /\ Ids(board') = Ids(board) \cup {id}
        /\ board'.phase = board.phase
        /\ \A p \in Ids(board) : board'.players[p] = board.players[p]
        /\ ~board'.players[id].ready /\ board'.players[id].king = "none"
    BY <2>1 DEF JoinedAs
  <2>3. id \in 1 .. MaxJoins
    <3>1. board.lastPlayer < MaxJoins
      BY <1>3 DEF IInv, TurnOK, HandleJoin, Handle
    <3> QED BY <1>1, <2>2, <3>1, ServerAssumption DEF BoardOK, NoPlayer
  <2>4. /\ GetGamePlayers(board') = GetGamePlayers(board)
        /\ GetReadyPlayers(board') = GetReadyPlayers(board)
    BY <2>2 DEF GetGamePlayers, GetReadyPlayers, IsDefeated
  <2>5. TheMatch!Enter(id)
    BY <1>1, <1>3, <2>2, <2>4 DEF TheMatch!Enter, IsStarted
  <2> QED BY <2>3, <2>5 DEF TheMatch!Next
<1> QED BY <1>2, <1>3 DEF HandleJoin

\* A departure withdraws from an open match and drops out of one that is on,
\* where SurvivorRemains says it is not the last survivor's.
LEMMA DisconnectLeaves ==
  ASSUME IInv, NEW a \in Peers, HandleDisconnect(a)
  PROVE  TheMatch!Next \/ UNCHANGED TheMatch!vars
<1>1. BoardOK(board, Peers) /\ stage = "handle"
  BY DEF IInv, TypeOK, HandleDisconnect, Handle
<1> DEFINE p == GetPlayerByAddress(board, a)
<1>2. p # NoPlayer => p \in Ids(board) BY <1>1, PlayerByAddress
<1>3. \/ UNCHANGED board
      \/ p # NoPlayer /\ IsStarted(board) /\ board' = Defeat(board, p)
      \/ p # NoPlayer /\ ~IsStarted(board) /\ board' = RemovePlayer(board, p)
  BY DEF HandleDisconnect
<1> HIDE DEF p
<1>4. p # NoPlayer => p \in 1 .. MaxJoins BY <1>2, PlayersOfMatch
<1>5. CASE UNCHANGED board BY <1>5, SameMatchRefl, SameMatchStutters
<1>6. CASE p # NoPlayer /\ IsStarted(board) /\ board' = Defeat(board, p)
  <2>1. /\ Ids(board') = Ids(board) /\ board'.phase = board.phase
        /\ board'.players[p].king = "dead"
        /\ \A q \in Ids(board) : /\ q # p => board'.players[q].king = board.players[q].king
                                 /\ board'.players[q].ready = board.players[q].ready
    BY <1>1, <1>2, <1>6, DefeatMatch
  <2>2. /\ GetGamePlayers(board') = GetGamePlayers(board) \ {p}
        /\ GetReadyPlayers(board') = GetReadyPlayers(board)
    BY <2>1 DEF GetGamePlayers, GetReadyPlayers, IsDefeated
  <2>3. board.phase \in {"playing", "ended"}
    BY <1>1, <1>6 DEF BoardOK, IsStarted
  <2>4. CASE p \notin GetGamePlayers(board)
    BY <2>1, <2>2, <2>4 DEF TheMatch!vars
  <2>5. CASE p \in GetGamePlayers(board) /\ board.phase = "playing"
    <3>1. GetGamePlayers(board) # {p} BY <1>1, <2>5 DEF IInv, SurvivorRemains
    <3>2. TheMatch!DropOut(p) BY <2>1, <2>2, <2>5, <3>1 DEF TheMatch!DropOut
    <3> QED BY <1>4, <1>6, <3>2 DEF TheMatch!Next
  <2>6. CASE p \in GetGamePlayers(board) /\ board.phase = "ended"
    <3>1. TheMatch!Leave(p) BY <2>1, <2>2, <2>6 DEF TheMatch!Leave
    <3> QED BY <1>4, <1>6, <3>1 DEF TheMatch!Next
  <2> QED BY <2>3, <2>4, <2>5, <2>6
<1>7. CASE p # NoPlayer /\ ~IsStarted(board) /\ board' = RemovePlayer(board, p)
  <2>1. /\ Ids(board') = Ids(board) \ {p} /\ board'.phase = board.phase
        /\ \A q \in Ids(board') : board'.players[q] = board.players[q]
    BY <1>1, <1>7, RemovePlayerMatch
  <2>2. GetGamePlayers(board) = {}
    BY <1>7 DEF IInv, NothingBeforeStart, GetGamePlayers, IsDefeated
  <2>3. /\ GetGamePlayers(board') = {}
        /\ GetReadyPlayers(board') = GetReadyPlayers(board) \ {p}
    BY <2>1, <2>2 DEF GetGamePlayers, GetReadyPlayers, IsDefeated
  <2>4. board.phase = "lobby" BY <1>1, <1>7 DEF IsStarted
  <2>5. TheMatch!Withdraw(p)
    BY <1>2, <1>7, <2>1, <2>2, <2>3, <2>4 DEF TheMatch!Withdraw
  <2> QED BY <1>4, <1>7, <2>5 DEF TheMatch!Next
<1> QED BY <1>3, <1>5, <1>6, <1>7

\* The handlers of "SR" and "SN" are ChangeReady or a stutter.
LEMMA ReadyChanges ==
  ASSUME IInv, NEW a \in Peers, NEW p \in KnownIds, HandleReady(a, p)
  PROVE  TheMatch!Next \/ UNCHANGED TheMatch!vars
<1>1. BoardOK(board, Peers) BY DEF IInv, TypeOK
<1>2. PICK r \in BOOLEAN : \/ UNCHANGED board
                           \/ p \in Ids(board) /\ board' = SetReady(board, p, r)
  BY DEF HandleReady
<1>3. CASE UNCHANGED board BY <1>3, SameMatchRefl, SameMatchStutters
<1>4. CASE p \in Ids(board) /\ board' = SetReady(board, p, r)
  <2>1. /\ Ids(board') = Ids(board) /\ board'.phase = board.phase
        /\ board'.players[p].ready = r
        /\ \A q \in Ids(board) : /\ q # p => board'.players[q].ready = board.players[q].ready
                                 /\ board'.players[q].king = board.players[q].king
    BY <1>1, <1>4, SetReadyMatch
  <2>2. GetGamePlayers(board') = GetGamePlayers(board)
    BY <2>1 DEF GetGamePlayers, IsDefeated
  <2>3. GetReadyPlayers(board') \in {GetReadyPlayers(board) \cup {p},
                                     GetReadyPlayers(board) \ {p}}
    <3>1. CASE r
      <4>1. GetReadyPlayers(board') = GetReadyPlayers(board) \cup {p}
        BY <1>4, <2>1, <3>1, Zenon DEF GetReadyPlayers
      <4> QED BY <4>1
    <3>2. CASE ~r
      <4>1. GetReadyPlayers(board') = GetReadyPlayers(board) \ {p}
        BY <1>4, <2>1, <3>2, Zenon DEF GetReadyPlayers
      <4> QED BY <4>1
    <3> QED BY <3>1, <3>2
  <2>4. TheMatch!ChangeReady(p)
    BY <1>4, <2>1, <2>2, <2>3 DEF TheMatch!ChangeReady
  <2>5. p \in 1 .. MaxJoins BY <1>4, PlayersOfMatch
  <2> QED BY <2>4, <2>5 DEF TheMatch!Next
<1> QED BY <1>2, <1>3, <1>4

\* Every handler of a packet is a step of the match or a stutter.
LEMMA PacketMatch ==
  ASSUME IInv, NEW a \in Peers, HandlePacket(a)
  PROVE  TheMatch!Next \/ UNCHANGED TheMatch!vars
<1>1. BoardOK(board, Peers) BY DEF IInv, TypeOK
<1>2. CASE HandleAskReady(a) \/ HandleOther(a)
  <2>1. UNCHANGED board BY <1>2 DEF HandleAskReady, HandleOther
  <2> QED BY <2>1, SameMatchRefl, SameMatchStutters
<1>3. ASSUME NEW p \in KnownIds, NEW t \in DOMAIN Cost, HandleBuy(a, p, t)
      PROVE  UNCHANGED TheMatch!vars
  <2>1. \/ UNCHANGED board
        \/ p \in Ids(board) /\ board' = AddCharacter(board, p, t)
    BY <1>3 DEF HandleBuy
  <2> QED BY <1>1, <2>1, SameMatchRefl, AddCharacterSame, SameMatchStutters
<1>4. ASSUME NEW p \in KnownIds, NEW o \in MoveOrders,
             HandleMove(a, p, o) \/ CrashOnMissingCharacter(a, p, o)
      PROVE  UNCHANGED TheMatch!vars
  <2>1. \/ UNCHANGED board
        \/ /\ p \in Ids(board) /\ Finds(p, o)
           /\ board' = SetCharacterDest(board, p, o[1], o[2])
    BY <1>4 DEF HandleMove, CrashOnMissingCharacter
  <2> QED BY <1>1, <2>1, SameMatchRefl, SetCharacterDestSame, SameMatchStutters DEF Finds
<1> QED BY <1>2, <1>3, <1>4, JoinEnters, ReadyChanges DEF HandlePacket

\* Every step of the server is a step of the match or a stutter.
LEMMA StepMatch == IInv /\ [Next]_vars => [TheMatch!Next]_(TheMatch!vars)
<1> SUFFICES ASSUME IInv, [Next]_vars
             PROVE  TheMatch!Next \/ UNCHANGED TheMatch!vars
  OBVIOUS
<1>1. ASSUME UNCHANGED board PROVE UNCHANGED TheMatch!vars
  BY <1>1, SameMatchRefl, SameMatchStutters
<1>2. CASE TimedEvent(Arrivals) BY <1>2, TimedEventMatch
<1>3. CASE FinishTurn
  <2>1. ASSUME NothingToHandle \/ \E a \in Peers : HandleConnect(a)
        PROVE  UNCHANGED TheMatch!vars
    BY <1>1, <2>1 DEF NothingToHandle, HandleConnect
  <2> QED BY <1>3, <2>1, SweepMatch, DisconnectLeaves, PacketMatch DEF FinishTurn
<1>4. CASE Tick BY <1>1, <1>4 DEF Tick
<1>5. CASE UNCHANGED vars BY <1>1, <1>5 DEF vars
<1> QED BY <1>2, <1>3, <1>4, <1>5 DEF Next, ServerStep, Dead

\* The server implements the match, for any number of peers and players, any
\* countdown and whatever the clients order.
THEOREM ImplementsMatch == Spec => MatchSafety
<1>1. Init => TheMatch!Init
  BY DEF Init, TheMatch!Init, EmptyBoard, Ids, GetReadyPlayers, GetGamePlayers
<1>2. Spec => []IInv BY Safe
<1>3. IInv /\ [Next]_vars => [TheMatch!Next]_(TheMatch!vars) BY StepMatch
<1> QED BY <1>1, <1>2, <1>3, PTL DEF Spec, MatchSafety, TheMatch!Spec
=============================================================================
