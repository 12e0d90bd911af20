--------------------------- MODULE CountdownProofs ---------------------------
(***************************************************************************)
(* The countdown, for any peers and any length: no game starts before      *)
(* everybody has been ready for all of it.                                 *)
(***************************************************************************)
EXTENDS Countdown, DedicatedServerProofs

\* The observer takes no part: what the server keeps invariant it keeps here.
LEMMA ServerSafe == CountdownSpec => []IInv
<1>1. CountdownInit => IInv BY InitSafe DEF CountdownInit
<1>2. IInv /\ [Next /\ Observe]_<<vars, steady>> => IInv'
  BY StepSafe DEF vars
<1> QED BY <1>1, <1>2, PTL DEF CountdownSpec

\* The phase of the match is TimedEvent's business: what follows it in a turn
\* leaves it alone.
LEMMA PhaseKept ==
  ASSUME IInv, FinishTurn
  PROVE  board'.phase = board.phase
<1>1. BoardOK(board, Peers) BY DEF IInv, TypeOK
<1>2. CASE SkipCharacter \/ CrashOnStrayWrite \/ EndSweep \/ NothingToHandle
  BY <1>2 DEF SkipCharacter, CrashOnStrayWrite, EndSweep, NothingToHandle
<1>3. CASE MoveCharacter
  <2>1. ToVisit # {} BY <1>3 DEF MoveCharacter
  <2>2. PICK p \in Ids(board) : \E n \in DOMAIN board.players[p].army : NextToVisit = <<p, n>>
    BY <1>1, <2>1, NextToVisitFound
  <2>3. PICK n \in DOMAIN board.players[p].army : NextToVisit = <<p, n>> BY <2>2
  <2>4. board' = UpdateLocation(board, p, n) BY <1>3, <2>3 DEF MoveCharacter
  <2> QED BY <1>1, <2>4, UpdateLocationSame DEF SameMatch
<1>4. ASSUME NEW a \in Peers, HandleConnect(a) PROVE UNCHANGED board
  BY <1>4 DEF HandleConnect
<1>5. ASSUME NEW a \in Peers, HandleDisconnect(a) PROVE board'.phase = board.phase
  <2> DEFINE p == GetPlayerByAddress(board, a)
  <2>1. p # NoPlayer => p \in Ids(board) BY <1>1, PlayerByAddress
  <2>2. \/ UNCHANGED board
        \/ p # NoPlayer /\ board' = Defeat(board, p)
        \/ p # NoPlayer /\ board' = RemovePlayer(board, p)
    BY <1>5 DEF HandleDisconnect
  <2> HIDE DEF p
  <2> QED BY <1>1, <2>1, <2>2, DefeatMatch, RemovePlayerMatch
<1>6. ASSUME NEW a \in Peers, HandlePacket(a) PROVE board'.phase = board.phase
  <2>1. CASE HandleJoin(a) BY <1>1, <2>1, JoinFacts DEF HandleJoin, JoinedAs
  <2>2. CASE HandleAskReady(a) \/ HandleOther(a)
    BY <2>2 DEF HandleAskReady, HandleOther
  <2>3. ASSUME NEW p \in KnownIds, HandleReady(a, p) PROVE board'.phase = board.phase
    BY <1>1, <2>3, SetReadyMatch DEF HandleReady
  <2>4. ASSUME NEW p \in KnownIds, NEW t \in DOMAIN Cost, HandleBuy(a, p, t)
        PROVE  board'.phase = board.phase
    BY <1>1, <2>4, AddCharacterSame DEF HandleBuy, SameMatch
  <2>5. ASSUME NEW p \in KnownIds, NEW o \in MoveOrders, HandleMove(a, p, o)
        PROVE  board'.phase = board.phase
    BY <1>1, <2>5, SetCharacterDestSame DEF HandleMove, SameMatch, Finds
  <2>6. ASSUME NEW p \in KnownIds, NEW o \in MoveOrders, CrashOnMissingCharacter(a, p, o)
        PROVE  UNCHANGED board
    BY <2>6 DEF CrashOnMissingCharacter
  <2> QED BY <1>6, <2>1, <2>2, <2>3, <2>4, <2>5, <2>6 DEF HandlePacket
<1> QED BY <1>2, <1>3, <1>4, <1>5, <1>6 DEF FinishTurn

\* The lobby ends with StartGame, and with nothing else.
LEMMA OnlyStartGameStarts ==
  ASSUME IInv, Next, ~IsStarted(board), IsStarted(board')
  PROVE  StartGame(Arrivals)
<1>1. ~ UNCHANGED board /\ board'.phase # board.phase BY DEF IsStarted
<1>2. CASE TimedEvent(Arrivals)
  BY <1>1, <1>2 DEF TimedEvent, StartTimer, KeepCounting, ResetTimer, EndGame,
                    AfterTheGame, PlayTick, IsStarted
<1>3. ~ Tick /\ ~ Dead BY <1>1 DEF Tick, Dead, vars
<1>4. ~ FinishTurn BY <1>1, PhaseKept
<1> QED BY <1>2, <1>3, <1>4 DEF Next, ServerStep

\* Nobody has been ready yet.
LEMMA InitHonest == CountdownInit => CountdownInv
BY DEF CountdownInit, Init, CountdownInv, TimerHonest, TimerStopped

\* What the observer does at a step: it never runs behind a tick everybody was
\* ready for, and is reset by nothing but a change of AllReady.
LEMMA Observed ==
  ASSUME steady \in Nat, Observe
  PROVE  /\ steady' \in Nat
         /\ AllReady' => /\ steady' >= steady
                         /\ startGameTimer' > startGameTimer /\ startGameTimer # -1
                              => steady' = steady + 1
BY DEF Observe

\* TimedEvent samples: everybody is ready and the timer goes on from where it was,
\* or it is stopped.
LEMMA SampleHonest ==
  ASSUME IInv, CountdownInv, TimedEvent(Arrivals), Observe
  PROVE  CountdownInv'
<1>1. startGameTimer \in -1 .. StartDelay /\ StartDelay \in Nat /\ steady \in Nat
  BY ServerAssumption DEF IInv, TypeOK, CountdownInv
<1>2. steady' \in Nat /\ (AllReady' => steady' >= steady) BY <1>1, Observed
<1>3. CASE UNCHANGED board /\ stage = "service" /\ stage' = "handle"
           /\ ~IsStarted(board) /\ AllReady
  <2>1. AllReady' /\ steady' >= steady BY <1>2, <1>3 DEF AllReady
  <2>2. startGameTimer <= steady BY <1>3 DEF CountdownInv, TimerHonest
  <2>3. startGameTimer' \in {0, startGameTimer}
    BY <1>3 DEF TimedEvent, StartTimer, KeepCounting, StartGame, ResetTimer, EndGame,
                AfterTheGame, PlayTick, LobbyTurn
  <2> QED BY <1>1, <1>2, <2>1, <2>2, <2>3 DEF CountdownInv, TimerHonest, TimerStopped
<1>4. CASE UNCHANGED board /\ ~IsStarted(board) /\ ~AllReady /\ startGameTimer' = -1
  BY <1>1, <1>2, <1>4 DEF CountdownInv, TimerHonest, TimerStopped
<1>5. CASE IsStarted(board')
  BY <1>2, <1>5 DEF CountdownInv, TimerHonest, TimerStopped
<1>6. BoardOK(board, Peers) BY DEF IInv, TypeOK
<1>7. CASE StartGame(Arrivals)
  BY <1>5, <1>6, <1>7, StartBoardMatch DEF StartGame, LobbyTurn, IsStarted
<1>8. CASE EndGame(Arrivals)
  BY <1>5, <1>6, <1>8, EndBoardMatch DEF EndGame, IsStarted
<1>9. ASSUME NEW hexDue \in BOOLEAN, PlayTick(Arrivals, hexDue) PROVE CountdownInv'
  <2>1. board.phase = "playing" /\ (UNCHANGED board \/ board' = IncHexBank(board))
    BY <1>9 DEF PlayTick
  <2> QED BY <1>5, <1>6, <2>1, IncHexBankSame DEF SameMatch, IsStarted
<1> QED
  BY <1>3, <1>4, <1>5, <1>7, <1>8, <1>9
     DEF TimedEvent, StartTimer, KeepCounting, ResetTimer, AfterTheGame, LobbyTurn, IsStarted

\* A step that changes no timer keeps it honest, if it ends the turn or changes
\* nobody's readiness.
LEMMA TimerLeftAlone ==
  ASSUME IInv, CountdownInv, Observe, UNCHANGED startGameTimer,
         IsStarted(board) => IsStarted(board'),
         \/ stage = "handle" /\ stage' = "service"
         \/ UNCHANGED board /\ (stage' = "handle" => stage = "handle")
         \/ IsStarted(board)
  PROVE  CountdownInv'
<1>1. startGameTimer \in -1 .. StartDelay /\ StartDelay \in Nat /\ steady \in Nat
  BY ServerAssumption DEF IInv, TypeOK, CountdownInv
<1>2. steady' \in Nat /\ (AllReady' => steady' >= steady) BY <1>1, Observed
<1>3. CASE IsStarted(board)
  BY <1>2, <1>3 DEF CountdownInv, TimerHonest, TimerStopped
<1>4. CASE stage = "handle" /\ stage' = "service"
  BY <1>1, <1>2, <1>3, <1>4 DEF CountdownInv, TimerHonest, TimerStopped
<1>5. CASE UNCHANGED board /\ (stage' = "handle" => stage = "handle") /\ ~IsStarted(board)
  <2>1. AllReady' <=> AllReady BY <1>5 DEF AllReady
  <2>2. CASE AllReady
    BY <1>1, <1>2, <1>5, <2>1, <2>2 DEF CountdownInv, TimerHonest, TimerStopped
  <2>3. CASE ~AllReady
    BY <1>1, <1>2, <1>5, <2>1, <2>3 DEF CountdownInv, TimerHonest, TimerStopped
  <2> QED BY <2>2, <2>3
<1> QED BY <1>3, <1>4, <1>5

\* A tick that the server counts is a tick the observer counts.
LEMMA TickHonest ==
  ASSUME IInv, CountdownInv, Tick, Observe
  PROVE  CountdownInv'
<1>1. /\ startGameTimer \in 0 .. StartDelay - 1 /\ startGameTimer' = startGameTimer + 1
      /\ UNCHANGED <<board, stage>> /\ StartDelay \in Nat /\ steady \in Nat
  BY ServerAssumption DEF Tick, CountdownInv
<1>2. /\ steady' \in Nat
      /\ AllReady' => steady' = steady + 1
  BY <1>1, Observed
<1>3. AllReady' <=> AllReady BY <1>1 DEF AllReady
<1> QED BY <1>1, <1>2, <1>3 DEF CountdownInv, TimerHonest, TimerStopped

\* Every step keeps the countdown honest.
LEMMA StepHonest ==
  IInv /\ CountdownInv /\ [Next /\ Observe]_<<vars, steady>> => CountdownInv'
<1> SUFFICES ASSUME IInv, CountdownInv, [Next /\ Observe]_<<vars, steady>>
             PROVE  CountdownInv'
  OBVIOUS
<1>1. CASE UNCHANGED <<vars, steady>>
  BY <1>1 DEF vars, CountdownInv, TimerHonest, TimerStopped, AllReady
<1>2. CASE Tick /\ Observe BY <1>2, TickHonest
<1>3. CASE TimedEvent(Arrivals) /\ Observe BY <1>3, SampleHonest
<1>4. CASE Dead /\ Observe
  BY <1>4, TimerLeftAlone DEF Dead, vars
<1>5. CASE FinishTurn /\ Observe
  <2>1. Next BY <1>5 DEF Next, ServerStep
  <2>2. UNCHANGED startGameTimer
    BY <1>5 DEF FinishTurn, SkipCharacter, MoveCharacter, CrashOnStrayWrite, EndSweep,
       NothingToHandle, HandleConnect, HandleDisconnect, HandlePacket, HandleJoin,
       HandleAskReady, HandleOther, HandleReady, HandleBuy, HandleMove,
       CrashOnMissingCharacter, Handle
  <2>3. \/ stage = "handle" /\ stage' = "service"
        \/ UNCHANGED board /\ (stage' = "handle" => stage = "handle")
        \/ stage = "sweep"
    BY <1>5 DEF FinishTurn, SkipCharacter, MoveCharacter, CrashOnStrayWrite, EndSweep,
       NothingToHandle, HandleConnect, HandleDisconnect, HandlePacket, HandleJoin,
       HandleAskReady, HandleOther, HandleReady, HandleBuy, HandleMove,
       CrashOnMissingCharacter, Handle
  <2>4. stage = "sweep" => IsStarted(board) BY DEF IInv, TurnOK, IsStarted
  <2>5. IsStarted(board) => IsStarted(board') BY <1>5, PhaseKept DEF IsStarted
  <2> QED BY <1>5, <2>2, <2>3, <2>4, <2>5, TimerLeftAlone
<1> QED BY <1>1, <1>2, <1>3, <1>4, <1>5 DEF Next, ServerStep

\* The countdown is honest in every reachable state.
LEMMA Honest == CountdownSpec => []CountdownInv
<1> QED BY InitHonest, StepHonest, ServerSafe, PTL DEF CountdownSpec

\* A game starts only after everybody has been ready, without interruption, for
\* all the ticks of the countdown: the flags are sampled once a turn (TimedEvent),
\* and no change of a flag falls between two samples.
THEOREM CountdownKept == CountdownSpec => StartsAfterCountdown
<1>1. ASSUME IInv, CountdownInv, [Next /\ Observe]_<<vars, steady>>
      PROVE  [~IsStarted(board) /\ IsStarted(board)' => steady >= StartDelay]_<<vars, steady>>
  <2> SUFFICES ASSUME Next, ~IsStarted(board), IsStarted(board')
               PROVE  steady >= StartDelay
    BY <1>1
  <2>1. StartGame(Arrivals) BY <1>1, OnlyStartGameStarts
  <2>2. AllReady /\ startGameTimer >= StartDelay BY <2>1 DEF StartGame
  <2>3. startGameTimer <= steady BY <1>1, <2>2 DEF CountdownInv, TimerHonest
  <2>4. startGameTimer \in Int /\ steady \in Nat /\ StartDelay \in Nat
    BY <1>1, ServerAssumption DEF IInv, TypeOK, CountdownInv
  <2> QED BY <2>2, <2>3, <2>4
<1> QED BY <1>1, ServerSafe, Honest, PTL DEF CountdownSpec, StartsAfterCountdown
=============================================================================
