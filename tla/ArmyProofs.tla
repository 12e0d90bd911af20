------------------------------ MODULE ArmyProofs ------------------------------
(***************************************************************************)
(* The characters on the board, for any peers, orders and board: what the  *)
(* tiles point to, how characters move, who is given which corner, and     *)
(* what a client sees that follows the reports of moves.                   *)
(* Every step of the server is one operation on the board or none          *)
(* (OneOperation), so each property is an argument about the operations.   *)
(***************************************************************************)
EXTENDS DedicatedServerProofs, Marches

-----------------------------------------------------------------------------
(* The server as a machine on the board *)

\* What the handlers and TimedEvent do to the board, with the conditions under
\* which they do it that matter here.
LobbyOperation ==
  /\ board.phase = "lobby"
  /\ \/ ~IsFull(board) /\ \E a \in Peers : board' = AddPlayer(board, a)
     \/ \E p \in Ids(board) : board' = RemovePlayer(board, p)
     \/ board' = StartBoard(board)

GameOperation ==
  /\ board.phase = "playing"
  /\ \/ board' = EndBoard(board)
     \/ board' = IncHexBank(board)
     \/ \E p \in Ids(board) : \E n \in DOMAIN board.players[p].army :
          /\ OnTheWay(board.players[p].army[n])
          /\ board' = UpdateLocation(board, p, n)

PlayerOperation ==
  \E p \in Ids(board) :
    \/ board' = Defeat(board, p)
    \/ \E r \in BOOLEAN : board' = SetReady(board, p, r)
    \/ \E t \in DOMAIN Cost : board' = AddCharacter(board, p, t)
    \/ \E n \in DOMAIN board.players[p].army, xy \in Tiles :
         board' = SetCharacterDest(board, p, n, xy)

\* A step of the server is one operation on the board, or leaves it alone.
LEMMA OneOperation ==
  ASSUME IInv, [Next]_vars
  PROVE  UNCHANGED board \/ LobbyOperation \/ GameOperation \/ PlayerOperation
<1>1. BoardOK(board, Peers) /\ TurnOK BY DEF IInv, TypeOK
<1>2. CASE TimedEvent(Arrivals)
  BY <1>2 DEF TimedEvent, StartTimer, KeepCounting, StartGame, ResetTimer, EndGame,
              AfterTheGame, PlayTick, LobbyTurn, IsStarted, LobbyOperation, GameOperation
<1>3. CASE SkipCharacter \/ CrashOnStrayWrite \/ EndSweep \/ NothingToHandle
           \/ Tick \/ Dead \/ UNCHANGED vars
  BY <1>3 DEF SkipCharacter, CrashOnStrayWrite, EndSweep, NothingToHandle, Tick, Dead, vars
<1>4. CASE MoveCharacter
  <2>1. ToVisit # {} /\ stage = "sweep" BY <1>4 DEF MoveCharacter
  <2>2. PICK p \in Ids(board) : \E n \in DOMAIN board.players[p].army :
          NextToVisit = <<p, n>> /\ OnTheWay(board.players[p].army[n])
    BY <1>1, <2>1, NextToVisitFound
  <2>3. PICK n \in DOMAIN board.players[p].army :
          NextToVisit = <<p, n>> /\ OnTheWay(board.players[p].army[n])
    BY <2>2
  <2>4. board' = UpdateLocation(board, p, n) BY <1>4, <2>3 DEF MoveCharacter
  <2>5. board.phase = "playing" BY <1>1, <2>1 DEF TurnOK
  <2> QED BY <2>3, <2>4, <2>5 DEF GameOperation
<1>5. ASSUME NEW a \in Peers, HandleConnect(a) PROVE UNCHANGED board
  BY <1>5 DEF HandleConnect
<1>6. ASSUME NEW a \in Peers, HandleDisconnect(a)
      PROVE  UNCHANGED board \/ LobbyOperation \/ PlayerOperation
  <2> DEFINE p == GetPlayerByAddress(board, a)
  <2>1. p # NoPlayer => p \in Ids(board) BY <1>1, PlayerByAddress
  <2>2. \/ UNCHANGED board
        \/ p # NoPlayer /\ board' = Defeat(board, p)
        \/ p # NoPlayer /\ ~IsStarted(board) /\ board' = RemovePlayer(board, p)
    BY <1>6 DEF HandleDisconnect
  <2> HIDE DEF p
  <2> QED BY <2>1, <2>2 DEF LobbyOperation, PlayerOperation, IsStarted
<1>7. ASSUME NEW a \in Peers, HandlePacket(a)
      PROVE  UNCHANGED board \/ LobbyOperation \/ PlayerOperation
  <2>1. CASE HandleJoin(a) BY <2>1 DEF HandleJoin, LobbyOperation, IsStarted
  <2>2. CASE HandleAskReady(a) \/ HandleOther(a)
    BY <2>2 DEF HandleAskReady, HandleOther
  <2>3. ASSUME NEW p \in KnownIds, HandleReady(a, p) PROVE UNCHANGED board \/ PlayerOperation
    BY <2>3 DEF HandleReady, PlayerOperation
  <2>4. ASSUME NEW p \in KnownIds, NEW t \in DOMAIN Cost, HandleBuy(a, p, t)
        PROVE  UNCHANGED board \/ PlayerOperation
    BY <2>4 DEF HandleBuy, PlayerOperation
  <2>5. ASSUME NEW p \in KnownIds, NEW o \in MoveOrders, HandleMove(a, p, o)
        PROVE  UNCHANGED board \/ PlayerOperation
    <3>1. o[2] \in Tiles BY ServerAssumption
    <3> QED BY <2>5, <3>1 DEF HandleMove, Finds, PlayerOperation
  <2>6. ASSUME NEW p \in KnownIds, NEW o \in MoveOrders, CrashOnMissingCharacter(a, p, o)
        PROVE  UNCHANGED board
    BY <2>6 DEF CrashOnMissingCharacter
  <2> QED BY <1>7, <2>1, <2>2, <2>3, <2>4, <2>5, <2>6 DEF HandlePacket
<1> QED BY <1>2, <1>3, <1>4, <1>5, <1>6, <1>7 DEF Next, ServerStep, FinishTurn

-----------------------------------------------------------------------------
(* What the operations do to the characters *)

\* A tile's pointer is NULL or leads to a character of the army of a player.
Refers(b, c) == c # Empty => c[1] \in Ids(b) /\ c[2] \in DOMAIN b.players[c[1]].army

\* A player keeps its corner and its characters, none of which did but approach
\* its destination.
ArmyKept(pl, q) ==
  /\ q.index = pl.index
  /\ \A n \in DOMAIN pl.army : n \in DOMAIN q.army /\ ApproachOnly(pl.army[n], q.army[n])

\* A tile points where it pointed, nowhere, or to a character of player p.
TilesKept(b, g, p, q) ==
  \A t \in Tiles : g[t] = b.tiles[t] \/ g[t] = Empty \/ \E n \in DOMAIN q.army : g[t] = <<p, n>>

\* The same for all the players that remain, and for all the tiles.
Kept(b, c) ==
  /\ \A p \in Ids(b) \cap Ids(c) : ArmyKept(b.players[p], c.players[p])
  /\ \A t \in Tiles : c.tiles[t] = b.tiles[t] \/ Refers(c, c.tiles[t])

\* Nothing happens to an army.
LEMMA SameArmy ==
  ASSUME NEW pl, NEW q, q.index = pl.index, q.army = pl.army
  PROVE  ArmyKept(pl, q)
BY DEF ArmyKept, ApproachOnly

\* The same players on the same tiles.
LEMMA SameKept ==
  ASSUME NEW b, NEW c, c.tiles = b.tiles,
         \A p \in Ids(b) \cap Ids(c) : c.players[p] = b.players[p]
  PROVE  Kept(b, c)
BY SameArmy DEF Kept

\* One player's army and the tiles that point to it.
LEMMA OneArmyKept ==
  ASSUME NEW b, NEW c, NEW p \in Ids(b), Ids(c) = Ids(b),
         \A q \in Ids(b) : q # p => c.players[q] = b.players[q],
         ArmyKept(b.players[p], c.players[p]),
         TilesKept(b, c.tiles, p, c.players[p])
  PROVE  Kept(b, c)
<1>1. \A t \in Tiles : c.tiles[t] = b.tiles[t] \/ Refers(c, c.tiles[t])
  <2> TAKE t \in Tiles
  <2>1. CASE c.tiles[t] = b.tiles[t] BY <2>1
  <2>2. CASE c.tiles[t] = Empty BY <2>2 DEF Refers
  <2>3. ASSUME NEW n \in DOMAIN c.players[p].army, c.tiles[t] = <<p, n>>
        PROVE  Refers(c, c.tiles[t])
    BY <2>3 DEF Refers
  <2> QED BY <2>1, <2>2, <2>3 DEF TilesKept
<1>2. \A q \in Ids(b) : ArmyKept(b.players[q], c.players[q]) BY SameArmy
<1> QED BY <1>1, <1>2 DEF Kept

\* One player replaced, and no tile.
LEMMA OnePlayerKept ==
  ASSUME NEW b, NEW A, BoardOK(b, A), NEW p \in Ids(b), NEW pl,
         ArmyKept(b.players[p], pl)
  PROVE  /\ Kept(b, [b EXCEPT !.players = [b.players EXCEPT ![p] = pl]])
         /\ Ids([b EXCEPT !.players = [b.players EXCEPT ![p] = pl]]) = Ids(b)
<1> DEFINE c == [b EXCEPT !.players = [b.players EXCEPT ![p] = pl]]
<1>1. /\ Ids(c) = Ids(b) /\ c.tiles = b.tiles /\ c.players[p] = pl
      /\ \A q \in Ids(b) : q # p => c.players[q] = b.players[q]
  BY OnePlayerReplaced
<1> HIDE DEF c
<1>2. TilesKept(b, c.tiles, p, c.players[p]) BY <1>1 DEF TilesKept
<1>3. Kept(b, c) BY <1>1, <1>2, OneArmyKept
<1> QED BY <1>1, <1>3 DEF c

\* isReady(r), isDefeated(true) and setCharacterDest leave everybody in place.
LEMMA SetReadyKept ==
  ASSUME NEW b, NEW A, BoardOK(b, A), NEW p \in Ids(b), NEW r \in BOOLEAN
  PROVE  Kept(b, SetReady(b, p, r)) /\ Ids(SetReady(b, p, r)) = Ids(b)
<1> DEFINE pl == [b.players[p] EXCEPT !.ready = r]
<1>1. PlayerOK(b.players[p], A) BY DEF BoardOK, Ids
<1>2. ArmyKept(b.players[p], pl) BY <1>1, SameArmy DEF PlayerOK
<1>3. SetReady(b, p, r) = [b EXCEPT !.players = [b.players EXCEPT ![p] = pl]]
  BY BoardFields DEF SetReady, Ids
<1> HIDE DEF pl
<1> QED BY <1>2, <1>3, OnePlayerKept

LEMMA DefeatKept ==
  ASSUME NEW b, NEW A, BoardOK(b, A), NEW p \in Ids(b)
  PROVE  Kept(b, Defeat(b, p)) /\ Ids(Defeat(b, p)) = Ids(b)
<1> DEFINE pl == [b.players[p] EXCEPT !.king = "dead"]
<1>1. PlayerOK(b.players[p], A) BY DEF BoardOK, Ids
<1>2. ArmyKept(b.players[p], pl) BY <1>1, SameArmy DEF PlayerOK
<1>3. Defeat(b, p) = [b EXCEPT !.players = [b.players EXCEPT ![p] = pl]]
  BY BoardFields DEF Defeat, Ids
<1> HIDE DEF pl
<1> QED BY <1>2, <1>3, OnePlayerKept

LEMMA SetCharacterDestKept ==
  ASSUME NEW b, NEW A, BoardOK(b, A), NEW p \in Ids(b),
         NEW n \in DOMAIN b.players[p].army, NEW xy \in Tiles
  PROVE  /\ Kept(b, SetCharacterDest(b, p, n, xy))
         /\ Ids(SetCharacterDest(b, p, n, xy)) = Ids(b)
<1> DEFINE pl   == b.players[p]
           army == [pl.army EXCEPT ![n] = [pl.army[n] EXCEPT !.dest = xy]]
           q    == [pl EXCEPT !.army = army]
<1>1. PlayerOK(pl, A) BY DEF BoardOK, Ids
<1>2. /\ pl \in [address : A, index : Nat, ready : BOOLEAN, hexbank : Nat,
                armyCount : Nat, king : {"none", "alive", "dead"}, army : {pl.army}]
      /\ pl.army \in [DOMAIN pl.army -> Character]
  BY <1>1 DEF PlayerOK
<1>3. [b EXCEPT !.players[p].army[n].dest = xy]
        = [b EXCEPT !.players = [b.players EXCEPT ![p] = q]]
  BY BoardFields DEF Ids
<1>4. DOMAIN army = DOMAIN pl.army /\ \A m \in DOMAIN pl.army : army[m].at = pl.army[m].at
  BY <1>2 DEF Character
<1> HIDE DEF army
<1>5. q.army = army /\ q.index = pl.index BY <1>2
<1> HIDE DEF q
<1>6. ArmyKept(pl, q) BY <1>4, <1>5 DEF ArmyKept, ApproachOnly
<1>7. /\ Kept(b, [b EXCEPT !.players = [b.players EXCEPT ![p] = q]])
      /\ Ids([b EXCEPT !.players = [b.players EXCEPT ![p] = q]]) = Ids(b)
  BY <1>6, OnePlayerKept
<1>8. Kept(b, b) BY SameKept
<1> QED BY <1>3, <1>7, <1>8 DEF SetCharacterDest

\* incHexBank leaves everybody in place.
LEMMA IncHexBankKept ==
  ASSUME NEW b, NEW A, BoardOK(b, A)
  PROVE  Kept(b, IncHexBank(b))
<1> DEFINE f == [p \in Ids(b) |-> [b.players[p] EXCEPT !.hexbank = @ + 1]]
           c == [b EXCEPT !.players = f]
<1>1. \A p \in Ids(b) : PlayerOK(b.players[p], A) BY DEF BoardOK, Ids
<1>2. \A p \in Ids(b) : f[p].index = b.players[p].index /\ f[p].army = b.players[p].army
  BY <1>1 DEF PlayerOK
<1>3. DOMAIN f = Ids(b) OBVIOUS
<1> HIDE DEF f
<1>4. c.players = f /\ c.tiles = b.tiles BY BoardFields
<1>5. IncHexBank(b) = c BY DEF IncHexBank, f
<1> HIDE DEF c
<1>6. \A p \in Ids(b) : ArmyKept(b.players[p], c.players[p]) BY <1>2, <1>4, SameArmy
<1> QED BY <1>3, <1>4, <1>5, <1>6 DEF Kept, Ids

\* addCharacter: refused, or paid for in vain, everybody is in place; otherwise
\* the spawn tile points to the new character, whose number is a new one.
LEMMA AddCharacterKept ==
  ASSUME NEW b, NEW A, BoardOK(b, A), NEW p \in Ids(b), NEW t \in DOMAIN Cost
  PROVE  Kept(b, AddCharacter(b, p, t)) /\ Ids(AddCharacter(b, p, t)) = Ids(b)
<1> DEFINE pl   == b.players[p]
           n    == pl.armyCount + 1
           home == Spawn(pl.index)
           less == [pl EXCEPT !.armyCount = n]
           paid == [pl EXCEPT !.armyCount = n, !.hexbank = @ - Cost[t]]
           army == Enlist(pl.army, n, home)
           full == [paid EXCEPT !.army = army]
           f    == [b.players EXCEPT ![p] = full]
           g    == [b.tiles EXCEPT ![home] = <<p, n>>]
           c    == [b EXCEPT !.players = f, !.tiles = g]
<1>1. PlayerOK(pl, A) BY DEF BoardOK, Ids
<1>2. /\ pl \in [address : A, index : Nat, ready : BOOLEAN, hexbank : Nat,
                armyCount : Nat, king : {"none", "alive", "dead"}, army : {pl.army}]
      /\ n \notin DOMAIN pl.army
  BY <1>1 DEF PlayerOK
<1>3. /\ DOMAIN army = DOMAIN pl.army \cup {n}
      /\ \A m \in DOMAIN pl.army : army[m] = pl.army[m]
  BY <1>2 DEF Enlist
<1>4. \/ AddCharacter(b, p, t) = [b EXCEPT !.players[p].armyCount = n]
      \/ AddCharacter(b, p, t) = [b EXCEPT !.players[p] = paid]
      \/ AddCharacter(b, p, t) = [b EXCEPT !.players[p] = full, !.tiles[home] = <<p, n>>]
  BY DEF AddCharacter, CanAddCharacter
<1>5. /\ [b EXCEPT !.players[p].armyCount = n]
           = [b EXCEPT !.players = [b.players EXCEPT ![p] = less]]
      /\ [b EXCEPT !.players[p] = paid]
           = [b EXCEPT !.players = [b.players EXCEPT ![p] = paid]]
      /\ [b EXCEPT !.players[p] = full, !.tiles[home] = <<p, n>>] = c
  BY BoardFields DEF Ids
<1>6. /\ less.index = pl.index /\ less.army = pl.army
      /\ paid.index = pl.index /\ paid.army = pl.army
  BY <1>2
<1> HIDE DEF army
<1>7. full.index = pl.index /\ full.army = army BY <1>2
<1> HIDE DEF less, paid, full
<1>8. /\ DOMAIN f = Ids(b) /\ f[p] = full
      /\ \A q \in Ids(b) : q # p => f[q] = b.players[q]
  BY DEF Ids
<1>9. \A u \in Tiles : g[u] = b.tiles[u] \/ g[u] = <<p, n>>
  BY BoardFields
<1> HIDE DEF f, g
<1>10. c.players = f /\ c.tiles = g BY BoardFields
<1> HIDE DEF c
<1>11. /\ Kept(b, [b EXCEPT !.players = [b.players EXCEPT ![p] = less]])
       /\ Ids([b EXCEPT !.players = [b.players EXCEPT ![p] = less]]) = Ids(b)
       /\ Kept(b, [b EXCEPT !.players = [b.players EXCEPT ![p] = paid]])
       /\ Ids([b EXCEPT !.players = [b.players EXCEPT ![p] = paid]]) = Ids(b)
  <2>1. ArmyKept(pl, less) /\ ArmyKept(pl, paid) BY <1>6, SameArmy
  <2> QED BY <2>1, OnePlayerKept
<1>12. Kept(b, c) /\ Ids(c) = Ids(b)
  <2>1. ArmyKept(pl, full) BY <1>3, <1>7 DEF ArmyKept, ApproachOnly
  <2>2. TilesKept(b, g, p, full) BY <1>3, <1>7, <1>9 DEF TilesKept
  <2>3. /\ Ids(c) = Ids(b) /\ c.players[p] = full
        /\ \A q \in Ids(b) : q # p => c.players[q] = b.players[q]
    BY <1>8, <1>10 DEF Ids
  <2> QED BY <1>10, <2>1, <2>2, <2>3, OneArmyKept
<1> QED BY <1>4, <1>5, <1>11, <1>12

\* The tile a character moves to is next to its own, and nearer its destination.
LEMMA NextTileApproaches ==
  ASSUME NEW b, NEW ch \in Character, OnTheWay(ch)
  PROVE  ApproachOnly(ch, [ch EXCEPT !.at = NextTile(b, ch)])
<1>1. ch.at \in Tiles /\ ch.dest \in Tiles
  BY DEF Character, Coords, OnTheWay
<1>2. PICK x \in Int, y \in Int, v \in Int, w \in Int : ch.at = <<x, y>> /\ ch.dest = <<v, w>>
  BY <1>1, BoardAssumption DEF Tiles
<1> DEFINE to == NextTile(b, ch)
<1>3. CASE Branch(b, ch) = 0
  BY <1>3 DEF NextTile, ApproachOnly, Character
<1>4. CASE Branch(b, ch) # 0
  <2> DEFINE k == Branch(b, ch)
  <2>1. k \in 1 .. 4 /\ Towards(ch, k) BY <1>4, BranchTaken
  <2>2. to = Neighbours(ch.at)[k] BY <1>4 DEF NextTile
  <2>3. [ch EXCEPT !.at = to].at = to BY DEF Character
  <2> HIDE DEF k, to
  <2>4. Distance(ch.at, to) = 1 /\ Distance(to, ch.dest) < Distance(ch.at, ch.dest)
    <3>1. CASE k = 1
      <4>1. to = <<x + 1, y>> /\ x < v BY <1>2, <2>1, <2>2, <3>1 DEF Neighbours, Towards
      <4> QED BY <1>2, <4>1 DEF Distance
    <3>2. CASE k = 2
      <4>1. to = <<x - 1, y>> /\ x > v BY <1>2, <2>1, <2>2, <3>2 DEF Neighbours, Towards
      <4> QED BY <1>2, <4>1 DEF Distance
    <3>3. CASE k = 3
      <4>1. to = <<x, y + 1>> /\ y < w BY <1>2, <2>1, <2>2, <3>3 DEF Neighbours, Towards
      <4> QED BY <1>2, <4>1 DEF Distance
    <3>4. CASE k = 4
      <4>1. to = <<x, y - 1>> /\ y > w BY <1>2, <2>1, <2>2, <3>4 DEF Neighbours, Towards
      <4> QED BY <1>2, <4>1 DEF Distance
    <3> QED BY <2>1, <3>1, <3>2, <3>3, <3>4
  <2>5. [ch EXCEPT !.at = to].at = to BY <2>3
  <2> QED BY <2>4, <2>5 DEF ApproachOnly, to
<1> QED BY <1>3, <1>4

\* updateLocation: the character that was due approaches, the tiles it leaves
\* and writes point to nothing and to itself.
LEMMA UpdateLocationKept ==
  ASSUME NEW b, NEW A, BoardOK(b, A), NEW p \in Ids(b),
         NEW n \in DOMAIN b.players[p].army, OnTheWay(b.players[p].army[n])
  PROVE  Kept(b, UpdateLocation(b, p, n)) /\ Ids(UpdateLocation(b, p, n)) = Ids(b)
<1> DEFINE pl      == b.players[p]
           ch      == pl.army[n]
           to      == NextTile(b, ch)
           army    == [pl.army EXCEPT ![n] = [ch EXCEPT !.at = to]]
           q       == [pl EXCEPT !.army = army]
           f       == [b.players EXCEPT ![p] = q]
           written == IF StrayWrite(b, p, n) THEN b.tiles
                      ELSE [b.tiles EXCEPT ![WrittenTile(b, ch)] = <<p, n>>]
           g       == [written EXCEPT ![ch.at] = Empty]
           c       == [b EXCEPT !.players = f, !.tiles = g]
<1>1. PlayerOK(pl, A) BY DEF BoardOK, Ids
<1>2. /\ pl \in [address : A, index : Nat, ready : BOOLEAN, hexbank : Nat,
                armyCount : Nat, king : {"none", "alive", "dead"}, army : {pl.army}]
      /\ pl.army \in [DOMAIN pl.army -> Character]
  BY <1>1 DEF PlayerOK
<1>3. DOMAIN written = Tiles /\ \A t \in Tiles : written[t] = b.tiles[t] \/ written[t] = <<p, n>>
  BY BoardFields
<1> HIDE DEF written
<1>4. \A t \in Tiles : g[t] = b.tiles[t] \/ g[t] = Empty \/ g[t] = <<p, n>> BY <1>3
<1>5. ApproachOnly(ch, [ch EXCEPT !.at = to]) BY <1>2, NextTileApproaches
<1> HIDE DEF to
<1>6. /\ DOMAIN army = DOMAIN pl.army /\ army[n] = [ch EXCEPT !.at = to]
      /\ \A m \in DOMAIN pl.army : m # n => army[m] = pl.army[m]
  BY <1>2
<1>7. UpdateLocation(b, p, n) = [b EXCEPT !.players[p].army[n].at = to, !.tiles = g]
  BY DEF UpdateLocation, to, written
<1> HIDE DEF g
<1>8. [b EXCEPT !.players[p].army[n].at = to, !.tiles = g] = c
  BY BoardFields DEF Ids
<1> HIDE DEF army
<1>9. q.army = army /\ q.index = pl.index BY <1>2
<1> HIDE DEF q
<1>10. /\ DOMAIN f = Ids(b) /\ f[p] = q
       /\ \A r \in Ids(b) : r # p => f[r] = b.players[r]
  BY DEF Ids
<1> HIDE DEF f
<1>11. c.players = f /\ c.tiles = g BY BoardFields
<1> HIDE DEF c
<1>12. ArmyKept(pl, q) BY <1>5, <1>6, <1>9 DEF ArmyKept, ApproachOnly
<1>13. TilesKept(b, g, p, q) BY <1>4, <1>6, <1>9 DEF TilesKept
<1>14. /\ Ids(c) = Ids(b) /\ c.players[p] = q
       /\ \A r \in Ids(b) : r # p => c.players[r] = b.players[r]
  BY <1>10, <1>11 DEF Ids
<1>15. Kept(b, c) BY <1>11, <1>12, <1>13, <1>14, OneArmyKept
<1> QED BY <1>7, <1>8, <1>14, <1>15

\* startBoard on empty armies: the tiles point to the characters placed.
LEMMA StartBoardKept ==
  ASSUME NEW b, NEW A, BoardOK(b, A), b.phase = "lobby",
         \A p \in Ids(b) : b.players[p].army = NoArmy
  PROVE  Kept(b, StartBoard(b)) /\ Ids(StartBoard(b)) = Ids(b)
<1> DEFINE f == [p \in Ids(b) |-> Mobilised(b.players[p])]
           g == [t \in Tiles |-> Occupant(b.players, t)]
           c == [b EXCEPT !.phase = "playing", !.players = f, !.tiles = g]
<1>1. \A p \in Ids(b) :
        /\ Mobilised(b.players[p]).index = b.players[p].index
        /\ \A k \in 1 .. 4 : b.players[p].armyCount + k \in DOMAIN Mobilised(b.players[p]).army
  <2> TAKE p \in Ids(b)
  <2> DEFINE pl   == b.players[p]
             army == [n \in pl.armyCount + 1 .. pl.armyCount + 4 |->
                       [at |-> SquadTile(pl.index, n - pl.armyCount), dest |-> Nowhere]]
  <2>1. pl \in [address : A, index : Nat, ready : BOOLEAN, hexbank : Nat,
               armyCount : Nat, king : {"none", "alive", "dead"}, army : {pl.army}]
    BY DEF BoardOK, PlayerOK, Ids
  <2>2. Mobilised(pl) = [pl EXCEPT !.armyCount = @ + 4, !.king = "alive", !.army = army]
    BY DEF Mobilised
  <2>3. \A k \in 1 .. 4 : pl.armyCount + k \in DOMAIN army BY <2>1
  <2> HIDE DEF army, pl
  <2>4. Mobilised(pl).index = pl.index /\ Mobilised(pl).army = army
    BY <2>1, <2>2
  <2> QED BY <2>3, <2>4 DEF pl
<1>2. DOMAIN f = Ids(b) /\ \A p \in Ids(b) : f[p] = Mobilised(b.players[p]) OBVIOUS
<1>3. \A t \in Tiles : g[t] = Occupant(b.players, t) OBVIOUS
<1> HIDE DEF f, g
<1>4. c.players = f /\ c.tiles = g BY BoardFields
<1>5. StartBoard(b) = c BY DEF StartBoard, f, g
<1> HIDE DEF c
<1>6. Ids(c) = Ids(b) BY <1>2, <1>4 DEF Ids
<1>7. \A t \in Tiles : Refers(c, c.tiles[t])
  <2> TAKE t \in Tiles
  <2>1. CASE c.tiles[t] = Empty BY <2>1 DEF Refers
  <2>2. ASSUME NEW p \in Ids(b), NEW k \in 1 .. 4,
               c.tiles[t] = <<p, b.players[p].armyCount + k>>
        PROVE  Refers(c, c.tiles[t])
    BY <1>1, <1>2, <1>4, <1>6, <2>2 DEF Refers
  <2> QED BY <1>3, <1>4, <2>1, <2>2, OccupantRefers
<1>8. \A p \in Ids(b) : ArmyKept(b.players[p], c.players[p])
  BY <1>1, <1>2, <1>4 DEF ArmyKept, NoArmy
<1> QED BY <1>5, <1>6, <1>7, <1>8 DEF Kept

-----------------------------------------------------------------------------
(* The steps of the server *)

\* What one step does to the players, the characters and the tiles.
LEMMA StepKept ==
  ASSUME IInv, [Next]_vars
  PROVE  /\ Kept(board, board')
         /\ \/ Ids(board) \subseteq Ids(board')
            \/ board'.tiles = board.tiles /\ board.phase = "lobby"
<1>1. BoardOK(board, Peers) /\ NothingBeforeStart BY DEF IInv, TypeOK
<1>2. CASE UNCHANGED board BY <1>2, SameKept
<1>3. CASE LobbyOperation
  <2>1. board.phase = "lobby" BY <1>3 DEF LobbyOperation
  <2>2. ASSUME NEW a \in Peers, board' = AddPlayer(board, a)
        PROVE  Kept(board, board') /\ board'.tiles = board.tiles
    <3>1. PICK id : JoinedAs(id, a) BY <1>1, <2>2, JoinFacts
    <3> QED BY <3>1, SameKept DEF JoinedAs
  <2>3. ASSUME NEW p \in Ids(board), board' = RemovePlayer(board, p)
        PROVE  Kept(board, board') /\ board'.tiles = board.tiles
    <3>1. /\ Ids(board') = Ids(board) \ {p}
          /\ board'.tiles = board.tiles
          /\ \A q \in Ids(board') : board'.players[q] = board.players[q]
      BY <1>1, <2>3, RemovePlayerMatch
    <3> QED BY <3>1, SameKept
  <2>4. ASSUME board' = StartBoard(board)
        PROVE  Kept(board, board') /\ Ids(board') = Ids(board)
    <3>1. \A p \in Ids(board) : board.players[p].army = NoArmy
      BY <1>1, <2>1 DEF NothingBeforeStart, IsStarted
    <3> QED BY <1>1, <2>1, <2>4, <3>1, StartBoardKept
  <2> QED BY <1>3, <2>1, <2>2, <2>3, <2>4 DEF LobbyOperation
<1>4. CASE GameOperation
  <2>1. CASE board' = EndBoard(board)
    <3>1. board'.players = board.players /\ board'.tiles = board.tiles
      BY <1>1, <1>4, <2>1, EndBoardMatch DEF GameOperation
    <3> QED BY <3>1, SameKept DEF Ids
  <2>2. CASE board' = IncHexBank(board)
    BY <1>1, <2>2, IncHexBankKept, IncHexBankSame DEF SameMatch
  <2>3. ASSUME NEW p \in Ids(board), NEW n \in DOMAIN board.players[p].army,
               OnTheWay(board.players[p].army[n]), board' = UpdateLocation(board, p, n)
        PROVE  Kept(board, board') /\ Ids(board') = Ids(board)
    BY <1>1, <2>3, UpdateLocationKept
  <2> QED BY <1>4, <2>1, <2>2, <2>3 DEF GameOperation
<1>5. CASE PlayerOperation
  BY <1>1, <1>5, DefeatKept, SetReadyKept, AddCharacterKept, SetCharacterDestKept
     DEF PlayerOperation
<1> QED BY <1>2, <1>3, <1>4, <1>5, OneOperation

\* No tile points to a character that was destroyed or refused: every operation
\* that changes a tile points it to nothing or to a character of an army, and
\* no operation takes a character away while the board shows one.
THEOREM NothingDangles == Spec => []TilesReferToArmies
<1>1. Init => TilesReferToArmies
  BY DEF Init, EmptyBoard, TilesReferToArmies
<1>2. IInv /\ TilesReferToArmies /\ [Next]_vars => TilesReferToArmies'
  <2> SUFFICES ASSUME IInv, TilesReferToArmies, [Next]_vars, NEW t \in Tiles
               PROVE  Refers(board', board'.tiles[t])
    BY DEF TilesReferToArmies, Refers
  <2>1. Kept(board, board') BY StepKept
  <2>2. CASE Ids(board) \subseteq Ids(board')
    <3>1. Refers(board, board.tiles[t]) BY DEF TilesReferToArmies, Refers
    <3>2. Refers(board', board.tiles[t]) BY <2>1, <2>2, <3>1 DEF Kept, ArmyKept, Refers
    <3> QED BY <2>1, <3>2 DEF Kept
  <2>3. CASE board'.tiles = board.tiles /\ board.phase = "lobby"
    BY <2>3 DEF IInv, NothingBeforeStart, IsStarted, Refers
  <2> QED BY <2>2, <2>3, StepKept
<1> QED BY <1>1, <1>2, Safe, PTL DEF Spec

\* A character moves by one tile at a time and only towards its destination
\* (Character::updateLocation), and nothing else ever moves it: not an order, not
\* the purchase of another, not the end of the game.
THEOREM OnlyApproaches == Spec => MovesApproach
<1>1. IInv /\ [Next]_vars =>
        [\A p \in Ids(board) \cap Ids(board)' :
           \A n \in (DOMAIN board.players[p].army) \cap (DOMAIN board'.players[p].army) :
             ApproachOnly(board.players[p].army[n], board'.players[p].army[n])]_vars
  BY StepKept DEF Kept, ArmyKept
<1> QED BY <1>1, Safe, PTL DEF Spec, MovesApproach

-----------------------------------------------------------------------------
(* Who is given which corner *)

\* The four corners are different.
LEMMA FourCorners ==
  ASSUME NEW i \in 1 .. 4, NEW j \in 1 .. 4, Spawn(i) = Spawn(j)
  PROVE  i = j
BY BoardAssumption DEF Spawn, GetSpawnX, GetSpawnY

\* The ids are among the numbers given out.
LEMMA IdsCounted ==
  ASSUME NEW b, NEW A, BoardOK(b, A)
  PROVE  /\ IsFiniteSet(Ids(b)) /\ Cardinality(Ids(b)) \in Nat
         /\ b.lastPlayer \in Nat /\ Cardinality(Ids(b)) <= b.lastPlayer
<1>1. b.lastPlayer \in Nat /\ Ids(b) \subseteq 1 .. b.lastPlayer
  BY DEF BoardOK, Ids
<1>2. IsFiniteSet(1 .. b.lastPlayer) /\ Cardinality(1 .. b.lastPlayer) = b.lastPlayer
  BY <1>1, FS_Interval
<1> QED BY <1>1, <1>2, FinitePlayers, FS_Subset

\* While nobody has left, the index of a player is its id, and no id exceeds
\* MAX_PLAYERS: a departure is the only way to fewer players than ids, and ids
\* are not given back.
LEMMA IndexKept == IInv /\ IndexIsId /\ [Next]_vars => IndexIsId'
<1> SUFFICES ASSUME IInv, IndexIsId, [Next]_vars,
                    Cardinality(Ids(board')) = board'.lastPlayer,
                    NEW p \in Ids(board')
             PROVE  board'.players[p].index = p /\ p <= MaxPlayers
  BY DEF IndexIsId
<1>1. BoardOK(board, Peers) BY DEF IInv, TypeOK
<1>2. /\ IsFiniteSet(Ids(board)) /\ Cardinality(Ids(board)) \in Nat
      /\ board.lastPlayer \in Nat /\ Cardinality(Ids(board)) <= board.lastPlayer
  BY <1>1, IdsCounted
<1>3. CASE Ids(board') = Ids(board) /\ board'.lastPlayer = board.lastPlayer
  BY <1>3, StepKept DEF Kept, ArmyKept, IndexIsId
<1>4. ASSUME NEW a \in Peers, ~IsFull(board), board' = AddPlayer(board, a)
      PROVE  board'.players[p].index = p /\ p <= MaxPlayers
  <2>0. PICK id : JoinedAs(id, a) BY <1>1, <1>4, JoinFacts
  <2>1. /\ id = board.lastPlayer + 1 /\ id \notin Ids(board)
        /\ Ids(board') = Ids(board) \cup {id} /\ board'.lastPlayer = id
        /\ \A q \in Ids(board) : board'.players[q] = board.players[q]
        /\ board'.players[id].index = Cardinality(Ids(board) \cup {id})
    BY <2>0 DEF JoinedAs
  <2>2. Cardinality(Ids(board) \cup {id}) = Cardinality(Ids(board)) + 1
    BY <1>2, <2>1, FS_AddElement
  <2>3. Cardinality(Ids(board)) = board.lastPlayer /\ Cardinality(Ids(board)) < MaxPlayers
    BY <1>2, <1>4, <2>1, <2>2, BoardAssumption DEF IsFull
  <2>4. CASE p = id BY <1>2, <2>1, <2>2, <2>3, <2>4, BoardAssumption
  <2>5. CASE p \in Ids(board) BY <2>1, <2>3, <2>5 DEF IndexIsId
  <2> QED BY <2>1, <2>4, <2>5
<1>5. ASSUME NEW q \in Ids(board), board' = RemovePlayer(board, q) PROVE FALSE
  <2>1. Ids(board') = Ids(board) \ {q} /\ board'.lastPlayer = board.lastPlayer
    BY <1>1, <1>5, RemovePlayerMatch
  <2>2. Cardinality(Ids(board) \ {q}) = Cardinality(Ids(board)) - 1
    BY <1>2, <1>5, FS_RemoveElement
  <2> QED BY <1>2, <2>1, <2>2
<1>6. CASE LobbyOperation
  <2>1. board' = StartBoard(board) =>
          Ids(board') = Ids(board) /\ board'.lastPlayer = board.lastPlayer
    BY <1>1, <1>6, StartBoardMatch DEF LobbyOperation
  <2> QED BY <1>3, <1>4, <1>5, <1>6, <2>1 DEF LobbyOperation
<1>7. CASE GameOperation
  <2>1. board' = EndBoard(board) =>
          Ids(board') = Ids(board) /\ board'.lastPlayer = board.lastPlayer
    BY <1>1, <1>7, EndBoardMatch DEF GameOperation, Ids
  <2>2. board' = IncHexBank(board) =>
          Ids(board') = Ids(board) /\ board'.lastPlayer = board.lastPlayer
    BY <1>1, IncHexBankSame DEF SameMatch
  <2>3. ASSUME NEW q \in Ids(board), NEW n \in DOMAIN board.players[q].army,
               board' = UpdateLocation(board, q, n)
        PROVE  Ids(board') = Ids(board) /\ board'.lastPlayer = board.lastPlayer
    BY <1>1, <2>3, UpdateLocationSame DEF SameMatch
  <2> QED BY <1>3, <1>7, <2>1, <2>2, <2>3 DEF GameOperation
<1>8. CASE PlayerOperation
  <2>1. PICK q \in Ids(board) :
          \/ board' = Defeat(board, q)
          \/ \E r \in BOOLEAN : board' = SetReady(board, q, r)
          \/ \E t \in DOMAIN Cost : board' = AddCharacter(board, q, t)
          \/ \E n \in DOMAIN board.players[q].army, xy \in Tiles :
               board' = SetCharacterDest(board, q, n, xy)
    BY <1>8 DEF PlayerOperation
  <2>2. CASE board' = Defeat(board, q) BY <1>1, <1>3, <2>2, DefeatMatch
  <2>3. ASSUME NEW r \in BOOLEAN, board' = SetReady(board, q, r)
        PROVE  Ids(board') = Ids(board) /\ board'.lastPlayer = board.lastPlayer
    BY <1>1, <2>3, SetReadyMatch
  <2>4. ASSUME NEW t \in DOMAIN Cost, board' = AddCharacter(board, q, t)
        PROVE  Ids(board') = Ids(board) /\ board'.lastPlayer = board.lastPlayer
    BY <1>1, <2>4, AddCharacterSame DEF SameMatch
  <2>5. ASSUME NEW n \in DOMAIN board.players[q].army, NEW xy \in Tiles,
               board' = SetCharacterDest(board, q, n, xy)
        PROVE  Ids(board') = Ids(board) /\ board'.lastPlayer = board.lastPlayer
    BY <1>1, <2>5, SetCharacterDestSame DEF SameMatch
  <2> QED BY <1>3, <2>1, <2>2, <2>3, <2>4, <2>5
<1>9. CASE UNCHANGED board BY <1>3, <1>9
<1> QED BY <1>6, <1>7, <1>8, <1>9, OneOperation

\* With the four corners of MAX_PLAYERS = 4, two players share one only where
\* somebody has left the lobby: a player's index is the number of players when it
\* joined (addPlayer), which while nobody has left is its id.
THEOREM CornersByDeparture ==
  ASSUME MaxPlayers <= 4 PROVE Spec => []CornersShared
<1>1. Init => IndexIsId BY DEF Init, EmptyBoard, IndexIsId, Ids
<1>2. IInv /\ IndexIsId => CornersShared
  <2> SUFFICES ASSUME IInv, IndexIsId, NEW p \in Ids(board), NEW q \in Ids(board), p # q,
                      Spawn(board.players[p].index) = Spawn(board.players[q].index)
               PROVE  Cardinality(Ids(board)) < board.lastPlayer
    BY DEF CornersShared
  <2>1. BoardOK(board, Peers) BY DEF IInv, TypeOK
  <2>2. /\ Cardinality(Ids(board)) \in Nat /\ board.lastPlayer \in Nat
        /\ Cardinality(Ids(board)) <= board.lastPlayer
    BY <2>1, IdsCounted
  <2>3. ASSUME Cardinality(Ids(board)) = board.lastPlayer PROVE FALSE
    <3>1. /\ board.players[p].index = p /\ p <= MaxPlayers
          /\ board.players[q].index = q /\ q <= MaxPlayers
      BY <2>3 DEF IndexIsId
    <3>2. p \in 1 .. 4 /\ q \in 1 .. 4 BY <2>1, <3>1, BoardAssumption DEF BoardOK, Ids
    <3> QED BY <3>1, <3>2, FourCorners
  <2> QED BY <2>2, <2>3
<1> QED BY <1>1, <1>2, IndexKept, Safe, PTL DEF Spec

-----------------------------------------------------------------------------
(***************************************************************************)
(* The reports of moves.  A client sees everybody where the server has     *)
(* them, once everything has arrived: for every size of board and army,    *)
(* every stream of orders and any number of reports under way.  The        *)
(* argument follows one character: the last report that speaks of it,      *)
(* under way or still being written, has its place; and if none does, the  *)
(* client has it already.                                                  *)
(***************************************************************************)

(* Places *)

Roll(b, p)     == DOMAIN b.players[p].army
Place(b, p, n) == b.players[p].army[n].at

\* Nobody is moved or lost; somebody may be new.
Stayed(b, c) ==
  /\ Ids(c) = Ids(b)
  /\ \A p \in Ids(b) : \A n \in Roll(b, p) : n \in Roll(c, p) /\ Place(c, p, n) = Place(b, p, n)

\* Nobody is new either.
SameRolls(b, c) == Ids(c) = Ids(b) /\ \A p \in Ids(b) : Roll(c, p) = Roll(b, p)

\* A change of the phase, of the tiles or of nothing.
LEMMA SamePlayersStay ==
  ASSUME NEW b, NEW c, c.players = b.players
  PROVE  Stayed(b, c) /\ SameRolls(b, c)
BY DEF Stayed, SameRolls, Ids, Roll, Place

\* One player is replaced, with the same characters where they were.
LEMMA OnePlayerStays ==
  ASSUME NEW b, NEW A, BoardOK(b, A), NEW p \in Ids(b), NEW pl,
         \A n \in Roll(b, p) : n \in DOMAIN pl.army /\ pl.army[n].at = Place(b, p, n)
  PROVE  LET c == [b EXCEPT !.players = [b.players EXCEPT ![p] = pl]]
         IN Stayed(b, c) /\ (DOMAIN pl.army = Roll(b, p) => SameRolls(b, c))
<1> DEFINE c == [b EXCEPT !.players = [b.players EXCEPT ![p] = pl]]
<1>1. /\ Ids(c) = Ids(b) /\ c.players[p] = pl
      /\ \A q \in Ids(b) : q # p => c.players[q] = b.players[q]
  BY OnePlayerReplaced
<1> HIDE DEF c
<1>2. ASSUME NEW q \in Ids(b), NEW n \in Roll(b, q)
      PROVE  n \in Roll(c, q) /\ Place(c, q, n) = Place(b, q, n)
  BY <1>1, <1>2 DEF Roll, Place
<1>3. ASSUME DOMAIN pl.army = Roll(b, p), NEW q \in Ids(b) PROVE Roll(c, q) = Roll(b, q)
  BY <1>1, <1>3 DEF Roll
<1>4. Stayed(b, c) /\ (DOMAIN pl.army = Roll(b, p) => SameRolls(b, c))
  BY <1>1, <1>2, <1>3 DEF Stayed, SameRolls
<1> QED
  BY <1>4 DEF c

\* The hexbanks are no matter of places.
LEMMA IncHexBankStays ==
  ASSUME NEW b, NEW A, BoardOK(b, A)
  PROVE  Stayed(b, IncHexBank(b)) /\ SameRolls(b, IncHexBank(b))
<1> DEFINE f == [p \in Ids(b) |-> [b.players[p] EXCEPT !.hexbank = @ + 1]]
           c == [b EXCEPT !.players = f]
<1>1. \A p \in Ids(b) : PlayerOK(b.players[p], A)
  BY DEF BoardOK, Ids
<1>2. \A p \in Ids(b) : f[p].army = b.players[p].army
  BY <1>1 DEF PlayerOK
<1>3. DOMAIN f = Ids(b)
  OBVIOUS
<1> HIDE DEF f
<1>4. c.players = f
  BY BoardFields
<1>5. IncHexBank(b) = c
  BY DEF IncHexBank, f
<1> HIDE DEF c
<1> QED
  BY <1>2, <1>3, <1>4, <1>5 DEF Stayed, SameRolls, Ids, Roll, Place

\* A destination moves nobody, whatever the tile there.
LEMMA SetCharacterDestStays ==
  ASSUME NEW b, NEW A, BoardOK(b, A), NEW p \in Ids(b),
         NEW n \in Roll(b, p), NEW xy \in Tiles
  PROVE  /\ Stayed(b, SetCharacterDest(b, p, n, xy))
         /\ SameRolls(b, SetCharacterDest(b, p, n, xy))
<1> DEFINE pl   == b.players[p]
           army == [pl.army EXCEPT ![n] = [pl.army[n] EXCEPT !.dest = xy]]
           q    == [pl EXCEPT !.army = army]
           c    == [b EXCEPT !.players = [b.players EXCEPT ![p] = q]]
<1>1. PlayerOK(pl, A)
  BY DEF BoardOK, Ids
<1>2. /\ pl \in [address : A, index : Nat, ready : BOOLEAN, hexbank : Nat,
                armyCount : Nat, king : {"none", "alive", "dead"}, army : {pl.army}]
      /\ pl.army \in [DOMAIN pl.army -> Character]
  BY <1>1 DEF PlayerOK
<1>3. [b EXCEPT !.players[p].army[n].dest = xy] = c
  BY BoardFields DEF Ids
<1>4. DOMAIN army = DOMAIN pl.army /\ \A m \in DOMAIN pl.army : army[m].at = pl.army[m].at
  BY <1>2 DEF Character, Roll
<1> HIDE DEF army
<1>5. q.army = army
  BY <1>2
<1> HIDE DEF q
<1>6. /\ DOMAIN q.army = Roll(b, p)
      /\ \A m \in Roll(b, p) : m \in DOMAIN q.army /\ q.army[m].at = Place(b, p, m)
  BY <1>4, <1>5 DEF Roll, Place
<1>7. Stayed(b, c) /\ SameRolls(b, c)
  BY <1>6, OnePlayerStays
<1>8. Stayed(b, b) /\ SameRolls(b, b)
  BY SamePlayersStay
<1> QED
  BY <1>3, <1>7, <1>8 DEF SetCharacterDest

\* setCharacterTile moves the one character, wherever the tiles point.
LEMMA SetCharacterTileMoves ==
  ASSUME NEW b, NEW A, BoardOK(b, A), NEW p, NEW n, Known(b, p, n), NEW xy \in Tiles
  PROVE  LET c == SetCharacterTile(b, p, n, xy)
         IN /\ BoardOK(c, A) /\ SameRolls(b, c) /\ Place(c, p, n) = xy
            /\ \A q \in Ids(b) : \A m \in Roll(b, q) :
                 <<q, m>> # <<p, n>> => Place(c, q, m) = Place(b, q, m)
<1> DEFINE pl   == b.players[p]
           army == [pl.army EXCEPT ![n] = [pl.army[n] EXCEPT !.at = xy]]
           q    == [pl EXCEPT !.army = army]
           g    == [[b.tiles EXCEPT ![pl.army[n].at] = Empty] EXCEPT ![xy] = <<p, n>>]
           f    == [b.players EXCEPT ![p] = q]
           c    == [b EXCEPT !.players = f, !.tiles = g]
<1>1. p \in Ids(b) /\ n \in DOMAIN pl.army
  BY DEF Known
<1>2. PlayerOK(pl, A) /\ p \in Nat
  BY <1>1 DEF BoardOK, Ids
<1>3. /\ pl \in [address : A, index : Nat, ready : BOOLEAN, hexbank : Nat,
                armyCount : Nat, king : {"none", "alive", "dead"}, army : {pl.army}]
      /\ pl.army \in [DOMAIN pl.army -> Character]
      /\ DOMAIN pl.army \subseteq 1 .. pl.armyCount /\ n \in Nat
  BY <1>1, <1>2 DEF PlayerOK
<1>4. SetCharacterTile(b, p, n, xy) = c
  BY <1>1, BoardFields DEF SetCharacterTile, Ids
<1>5. g \in [Tiles -> Nat \X Nat]
  BY <1>2, <1>3, BoardFields DEF Empty
<1>6. /\ DOMAIN army = DOMAIN pl.army /\ army[n].at = xy
      /\ \A m \in DOMAIN pl.army : m # n => army[m] = pl.army[m]
      /\ army \in [DOMAIN pl.army -> Character]
  BY <1>1, <1>3 DEF Character
<1> HIDE DEF army
<1>7. /\ q \in [address : A, index : Nat, ready : BOOLEAN, hexbank : Nat,
                armyCount : Nat, king : {"none", "alive", "dead"}, army : {army}]
      /\ q.army = army /\ q.armyCount = pl.armyCount
  BY <1>3
<1> HIDE DEF q, g
<1>8. PlayerOK(q, A)
  BY <1>3, <1>6, <1>7 DEF PlayerOK
<1>9. BoardOK(c, A)
  BY <1>1, <1>5, <1>8, PlayerAndTilesReplaced
<1>10. /\ DOMAIN f = Ids(b) /\ f[p] = q
       /\ \A r \in Ids(b) : r # p => f[r] = b.players[r]
  BY <1>1 DEF Ids
<1> HIDE DEF f
<1>11. c.players = f
  BY BoardFields
<1> HIDE DEF c
<1>12. SameRolls(b, c)
  BY <1>6, <1>7, <1>10, <1>11 DEF SameRolls, Roll, Ids
<1>13. Place(c, p, n) = xy
  BY <1>6, <1>7, <1>10, <1>11 DEF Place
<1>14. ASSUME NEW r \in Ids(b), NEW m \in Roll(b, r), <<r, m>> # <<p, n>>
       PROVE  Place(c, r, m) = Place(b, r, m)
  <2>1. r # p \/ m # n
    BY <1>14
  <2> QED
    BY <1>6, <1>7, <1>10, <1>11, <1>14, <2>1 DEF Place, Roll
<1> QED
  BY <1>4, <1>9, <1>12, <1>13, <1>14

-----------------------------------------------------------------------------
(* Reports *)

\* The row names the character c, a player and a number.
Names(row, c) == row[1] = c[1] /\ row[2] = c[2]

\* The first k rows name c, the last of them with the place xy.
Speaks(rows, k, c) == \E j \in 1 .. k : Names(rows[j], c)
Leaves(rows, k, c, xy) ==
  \E j \in 1 .. k : /\ Names(rows[j], c) /\ <<rows[j][3], rows[j][4]>> = xy
                    /\ \A i \in j + 1 .. k : ~Names(rows[i], c)

\* The entries of a whole packet, before the zero at its end.
Entries(packet) ==
  [k \in 1 .. Len(packet) \div 4 |-> <<packet[4 * k - 3], packet[4 * k - 2],
                                       packet[4 * k - 1], packet[4 * k]>>]

\* The rows of a packet under way.
Report(m) == IF m[1] = "L" THEN Entries(m[2]) ELSE <<>>

Told(m, c)       == Speaks(Report(m), Len(Report(m)), c)
Tells(m, c, xy)  == Leaves(Report(m), Len(Report(m)), c, xy)

\* What the client knows once the packets are heard: c is where the last report
\* has it, or where it was.
Hears(packets, c, was, is) ==
  \/ was = is /\ \A i \in DOMAIN packets : ~Told(packets[i], c)
  \/ \E i \in DOMAIN packets :
       Tells(packets[i], c, is) /\ \A j \in DOMAIN packets : j > i => ~Told(packets[j], c)

\* The same with the report that is being written.
Follows(packets, rows, c, was, is) ==
  \/ Leaves(rows, Len(rows), c, is)
  \/ ~Speaks(rows, Len(rows), c) /\ Hears(packets, c, was, is)

-----------------------------------------------------------------------------
(* The invariant *)

Packet ==
  ({"L"} \X Seq(Nat)) \cup ({"GM"} \X Nat \X (Nat \X Tiles))
  \cup ({"GB"} \X Nat \X DOMAIN Cost) \cup {<<"TH">>, <<"W">>}

\* A packet that was not cut ends with its only zero that is no coordinate.
Plain(packet) ==
  Whole(packet) => /\ packet[Len(packet)] = 0
                   /\ \A k \in 1 .. Len(packet) \div 4 : packet[4 * k - 3] # 0

\* Orders come, and nothing else.
Orderly == event[1] = "none" \/ (event[1] = "receive" /\ event[3][1] \in {"GM", "GB"})

NothingCut == \A i \in DOMAIN down : down[i][1] = "L" => Whole(down[i][2])

\* The client knows no character that the server does not.
ReplicaOK ==
  /\ BoardOK(replica, Peers) /\ Ids(replica) = Ids(board)
  /\ \A p \in Ids(board) : Roll(replica, p) \subseteq Roll(board, p)

AllFollow ==
  \A p \in Ids(board) : \A n \in Roll(replica, p) :
    Follows(down, sweep.packet, <<p, n>>, Place(replica, p, n), Place(board, p, n))

MarchInv ==
  /\ IInv /\ IsStarted(board) /\ Orderly
  /\ \A k \in DOMAIN sweep.packet : sweep.packet[k][1] # 0
  /\ down \in Seq(Packet)
  /\ \A i \in DOMAIN down : down[i][1] = "L" => Plain(down[i][2])
  /\ garbled = "no" /\ NothingCut => ReplicaOK /\ AllFollow

-----------------------------------------------------------------------------
(* A report more, a report less *)

\* A row is appended: it speaks for its own character, and for no other.
LEMMA RowWritten ==
  ASSUME NEW T, NEW rows \in Seq(T), NEW row \in T, NEW c, NEW xy,
         NEW packets, NEW was, NEW is
  PROVE  LET more == Append(rows, row)
         IN /\ Names(row, c) /\ <<row[3], row[4]>> = is
                 => Follows(packets, more, c, was, is)
            /\ ~Names(row, c) /\ Follows(packets, rows, c, was, is)
                 => Follows(packets, more, c, was, is)
<1> DEFINE more == Append(rows, row)
           l    == Len(rows)
<1>1. /\ Len(more) = l + 1 /\ more[l + 1] = row /\ l \in Nat
      /\ \A k \in 1 .. l : more[k] = rows[k]
  OBVIOUS
<1> HIDE DEF more, l
<1>2. ASSUME Names(row, c), <<row[3], row[4]>> = is
      PROVE  Leaves(more, l + 1, c, is)
  <2>1. l + 1 \in 1 .. l + 1 /\ \A i \in l + 2 .. l + 1 : FALSE
    BY <1>1
  <2> QED
    BY <1>1, <1>2, <2>1 DEF Leaves
<1>3. ASSUME ~Names(row, c)
      PROVE  /\ ~Speaks(rows, l, c) => ~Speaks(more, l + 1, c)
             /\ Leaves(rows, l, c, is) => Leaves(more, l + 1, c, is)
  <2>1. \A k \in 1 .. l + 1 : k \in 1 .. l \/ k = l + 1
    BY <1>1
  <2>2. ~Speaks(rows, l, c) => ~Speaks(more, l + 1, c)
    BY <1>1, <1>3, <2>1 DEF Speaks
  <2>3. ASSUME Leaves(rows, l, c, is) PROVE Leaves(more, l + 1, c, is)
    <3>1. PICK j \in 1 .. l : /\ Names(rows[j], c) /\ <<rows[j][3], rows[j][4]>> = is
                              /\ \A i \in j + 1 .. l : ~Names(rows[i], c)
      BY <2>3 DEF Leaves
    <3>2. j \in 1 .. l + 1 /\ \A i \in j + 1 .. l + 1 : i \in j + 1 .. l \/ i = l + 1
      BY <1>1
    <3>3. \A i \in j + 1 .. l : more[i] = rows[i]
      BY <1>1
    <3> QED
      BY <1>1, <1>3, <3>1, <3>2, <3>3 DEF Leaves
  <2> QED
    BY <2>2, <2>3
<1> QED
  BY <1>1, <1>2, <1>3 DEF Follows, more, l

\* A packet is sent that says of c what it says, or does not speak of it.
LEMMA PacketSent ==
  ASSUME NEW T, NEW packets \in Seq(T), NEW m \in T, NEW c, NEW was, NEW is
  PROVE  /\ Tells(m, c, is) => Hears(Append(packets, m), c, was, is)
         /\ ~Told(m, c) /\ Hears(packets, c, was, is) => Hears(Append(packets, m), c, was, is)
<1> DEFINE more == Append(packets, m)
           l    == Len(packets)
<1>1. /\ DOMAIN packets = 1 .. l /\ DOMAIN more = 1 .. l + 1 /\ more[l + 1] = m /\ l \in Nat
      /\ \A k \in 1 .. l : more[k] = packets[k]
  OBVIOUS
<1> HIDE DEF more, l
<1>2. l + 1 \in 1 .. l + 1 /\ \A k \in 1 .. l + 1 : (k \in 1 .. l \/ k = l + 1) /\ ~(k > l + 1)
  BY <1>1
<1>3. ASSUME Tells(m, c, is) PROVE Hears(more, c, was, is)
  BY <1>1, <1>2, <1>3 DEF Hears
<1>4. ASSUME ~Told(m, c), Hears(packets, c, was, is) PROVE Hears(more, c, was, is)
  <2>1. CASE was = is /\ \A i \in 1 .. l : ~Told(packets[i], c)
    BY <1>1, <1>2, <1>4, <2>1 DEF Hears
  <2>2. ASSUME NEW i \in 1 .. l, Tells(packets[i], c, is),
               \A j \in 1 .. l : j > i => ~Told(packets[j], c)
        PROVE  Hears(more, c, was, is)
    <3>1. i \in 1 .. l + 1
      BY <1>1
    <3> QED
      BY <1>1, <1>2, <1>4, <2>2, <3>1 DEF Hears
  <2> QED
    BY <1>1, <1>4, <2>1, <2>2 DEF Hears
<1> QED
  BY <1>3, <1>4 DEF more

\* The first packet is heard.
LEMMA PacketHeard ==
  ASSUME NEW T, NEW packets \in Seq(T), packets # <<>>, NEW c, NEW was, NEW is, NEW now,
         Hears(packets, c, was, is),
         ~Told(Head(packets), c) => now = was,
         Tells(Head(packets), c, is) => now = is
  PROVE  Hears(Tail(packets), c, now, is)
<1> DEFINE rest == Tail(packets)
           l    == Len(packets)
<1>1. /\ DOMAIN packets = 1 .. l /\ DOMAIN rest = 1 .. l - 1 /\ packets[1] = Head(packets)
      /\ l \in Nat \ {0} /\ \A k \in 1 .. l - 1 : rest[k] = packets[k + 1]
  OBVIOUS
<1> HIDE DEF rest, l
<1>2. 1 \in 1 .. l /\ \A k \in 1 .. l - 1 : k + 1 \in 1 .. l /\ k + 1 > 1
  BY <1>1
<1>3. CASE was = is /\ \A i \in 1 .. l : ~Told(packets[i], c)
  BY <1>1, <1>2, <1>3 DEF Hears
<1>4. ASSUME NEW i \in 1 .. l, Tells(packets[i], c, is),
             \A j \in 1 .. l : j > i => ~Told(packets[j], c)
      PROVE  Hears(rest, c, now, is)
  <2>1. CASE i = 1
    <3>1. now = is
      BY <1>1, <1>4, <2>1
    <3>2. \A k \in 1 .. l - 1 : ~Told(rest[k], c)
      BY <1>1, <1>2, <1>4, <2>1
    <3> QED
      BY <1>1, <3>1, <3>2 DEF Hears
  <2>2. CASE i # 1
    <3>1. i - 1 \in 1 .. l - 1 /\ (i - 1) + 1 = i
      BY <1>1, <2>2
    <3>2. Tells(rest[i - 1], c, is)
      BY <1>1, <1>4, <3>1
    <3>3. \A k \in 1 .. l - 1 : k > i - 1 => ~Told(rest[k], c)
      <4> SUFFICES ASSUME NEW k \in 1 .. l - 1, k > i - 1 PROVE ~Told(rest[k], c)
        OBVIOUS
      <4>1. k + 1 \in 1 .. l /\ k + 1 > i
        BY <1>1
      <4> QED
        BY <1>1, <1>4, <4>1
    <3> QED
      BY <1>1, <3>1, <3>2, <3>3 DEF Hears
  <2> QED
    BY <2>1, <2>2
<1> QED
  BY <1>1, <1>3, <1>4 DEF Hears, rest

-----------------------------------------------------------------------------
(* How a report is read *)

\* A set of numbers that is not empty has a smallest element.
LEMMA Smallest ==
  ASSUME NEW S \in SUBSET Nat, S # {}
  PROVE  \E m \in S : \A n \in S : m <= n
<1> DEFINE R == OpToRel(<, Nat)
<1>1. IsWellFoundedOn(R, Nat)
  BY NatLessThanWellFounded
<1> HIDE DEF R
<1>2. PICK m \in S : \A n \in S : ~ (<<n, m>> \in R)
  BY <1>1, WFMin
<1>3. \A n \in S : ~ (n < m)
  BY <1>2 DEF R, OpToRel
<1> QED
  BY <1>3

\* What holds of 0, and of n + 1 if it holds of n, holds of every number up to k.
LEMMA Upwards ==
  ASSUME NEW S \in SUBSET Nat, NEW k \in Nat, 0 \in S,
         \A n \in S : n < k => n + 1 \in S
  PROVE  0 .. k \subseteq S
<1> DEFINE D == {n \in 0 .. k : n \notin S}
<1>1. SUFFICES ASSUME D # {} PROVE FALSE
  OBVIOUS
<1>2. D \subseteq Nat
  OBVIOUS
<1> HIDE DEF D
<1>3. PICK m \in D : \A n \in D : m <= n
  BY <1>1, <1>2, Smallest
<1> USE DEF D
<1>4. m # 0 /\ m - 1 \in 0 .. k
  OBVIOUS
<1>5. m - 1 \in S
  BY <1>3, <1>4
<1> QED
  BY <1>4, <1>5

\* The loop of updateLocationsOnClient: read[k] is the board after k entries.
IsReading(read, b, memory, l) ==
  read = [k \in 0 .. l |-> IF k = 0 THEN [board |-> b, as |-> "reading"]
                           ELSE ReadEntry(memory, k, read[k - 1])]

\* The loop has a run.
LEMMA ReadingExists ==
  ASSUME NEW b, NEW memory, NEW l \in Nat
  PROVE  \E read : IsReading(read, b, memory, l)
<1> DEFINE S == {k \in Nat : \E read : IsReading(read, b, memory, k)}
<1>1. 0 \in S
  <2>1. IsReading([k \in 0 .. 0 |-> [board |-> b, as |-> "reading"]], b, memory, 0)
    BY DEF IsReading
  <2> QED
    BY <2>1
<1>2. ASSUME NEW k \in S PROVE k + 1 \in S
  <2>1. PICK f : IsReading(f, b, memory, k)
    OBVIOUS
  <2> DEFINE last == ReadEntry(memory, k + 1, f[k])
             g    == [i \in 0 .. k + 1 |-> IF i = k + 1 THEN last ELSE f[i]]
  <2>2. (\A i \in 0 .. k : g[i] = f[i]) /\ g[k + 1] = last
    OBVIOUS
  <2> HIDE DEF last
  <2>3. ASSUME NEW i \in 0 .. k + 1
        PROVE  g[i] = IF i = 0 THEN [board |-> b, as |-> "reading"]
                      ELSE ReadEntry(memory, i, g[i - 1])
    <3>1. CASE i = k + 1
      <4>1. i - 1 = k /\ i # 0
        BY <3>1
      <4>2. g[i - 1] = f[k]
        BY <2>2, <4>1
      <4> QED
        BY <2>2, <3>1, <4>1, <4>2 DEF last
    <3>2. CASE i = 0
      BY <2>1, <2>2, <3>2 DEF IsReading
    <3>3. CASE i \in 1 .. k
      <4>1. i - 1 \in 0 .. k /\ i \in 0 .. k /\ i # 0
        BY <3>3
      <4>2. g[i - 1] = f[i - 1] /\ g[i] = f[i]
        BY <2>2, <4>1
      <4> HIDE DEF g
      <4>3. f[i] = ReadEntry(memory, i, f[i - 1])
        BY <2>1, <4>1 DEF IsReading
      <4> QED
        BY <4>1, <4>2, <4>3
    <3> QED
      BY <3>1, <3>2, <3>3
  <2>4. g = [i \in 0 .. k + 1 |-> g[i]]
    OBVIOUS
  <2> HIDE DEF g
  <2>5. IsReading(g, b, memory, k + 1)
    BY <2>3, <2>4 DEF IsReading
  <2> QED
    BY <2>5
<1>3. S \subseteq Nat
  OBVIOUS
<1> HIDE DEF S
<1>4. 0 .. l \subseteq S
  BY <1>1, <1>2, <1>3, Upwards
<1> QED
  BY <1>4 DEF S

\* updateLocationsOnClient ends where the loop does.
LEMMA ReadingEnds ==
  ASSUME NEW b, NEW packet \in Seq(Nat), NEW behind \in Seq(Nat)
  PROVE  LET memory == packet \o behind
         IN \E read : /\ IsReading(read, b, memory, Len(memory))
                      /\ UpdateLocationsOnClient(b, packet, behind) = read[Len(memory)]
<1> DEFINE memory == packet \o behind
           l      == Len(memory)
<1>1. UpdateLocationsOnClient(b, packet, behind)
        = (CHOOSE read : IsReading(read, b, memory, l))[l]
  BY DEF UpdateLocationsOnClient, IsReading
<1>2. l \in Nat
  OBVIOUS
<1> HIDE DEF l, memory
<1>3. \E read : IsReading(read, b, memory, l)
  BY <1>2, ReadingExists
<1> QED
  BY <1>1, <1>3 DEF l, memory

\* One round of the loop after the other.
Rounds(read, b, memory, l) ==
  /\ read[0] = [board |-> b, as |-> "reading"]
  /\ \A k \in 0 .. l : k < l => read[k + 1] = ReadEntry(memory, k + 1, read[k])

\* A run of the loop goes by rounds.
LEMMA ReadingStep ==
  ASSUME NEW b, NEW memory, NEW l \in Nat, NEW read, IsReading(read, b, memory, l)
  PROVE  Rounds(read, b, memory, l)
<1>1. 0 \in 0 .. l
  OBVIOUS
<1>2. \A k \in 0 .. l : k < l => /\ k + 1 \in 0 .. l /\ k + 1 # 0 /\ (k + 1) - 1 = k
  OBVIOUS
<1> QED
  BY <1>1, <1>2 DEF IsReading, Rounds

\* What is known of a reading on the way.
Reading(r) == r = [board |-> r.board, as |-> r.as]

\* What ReadEntry makes of r.
Round(memory, k, r, next) ==
  LET p  == Byte(memory, 4 * k - 3)
      n  == Byte(memory, 4 * k - 2)
      xy == <<Byte(memory, 4 * k - 1), Byte(memory, 4 * k)>>
  IN /\ Reading(next)
     /\ r.as # "reading" => next = r
     /\ r.as = "reading" /\ p = 0 => next.as = "done" /\ next.board = r.board
     /\ r.as = "reading" /\ p # 0 =>
          \/ next.as \in {"failed", "stray"}
          \/ /\ next.as = "reading" /\ Known(r.board, p, n) /\ xy \in Tiles
             /\ next.board = SetCharacterTile(r.board, p, n, xy)

\* One entry: nothing once the loop was left, the end at a zero, and else one
\* character that is known is moved on the board, or the loop is left.
LEMMA EntryRead ==
  ASSUME NEW memory, NEW k, NEW r, Reading(r)
  PROVE  Round(memory, k, r, ReadEntry(memory, k, r))
<1> DEFINE p    == Byte(memory, 4 * k - 3)
           n    == Byte(memory, 4 * k - 2)
           xy   == <<Byte(memory, 4 * k - 1), Byte(memory, 4 * k)>>
           next == ReadEntry(memory, k, r)
           to   == SetCharacterTile(r.board, p, n, xy)
<1>1. /\ r.as # "reading" => next = r
      /\ r.as = "reading" /\ p = 0 => next = [r EXCEPT !.as = "done"]
      /\ r.as = "reading" /\ p # 0 /\ ~Known(r.board, p, n) => next = [r EXCEPT !.as = "failed"]
      /\ r.as = "reading" /\ p # 0 /\ Known(r.board, p, n) /\ xy \notin Tiles
           => next = [r EXCEPT !.as = "stray"]
      /\ r.as = "reading" /\ p # 0 /\ Known(r.board, p, n) /\ xy \in Tiles
           => next = [r EXCEPT !.board = to]
  BY DEF ReadEntry
<1> HIDE DEF next, p, n, xy, to
<1>2. /\ [r EXCEPT !.as = "done"] = [board |-> r.board, as |-> "done"]
      /\ [r EXCEPT !.as = "failed"] = [board |-> r.board, as |-> "failed"]
      /\ [r EXCEPT !.as = "stray"] = [board |-> r.board, as |-> "stray"]
      /\ [r EXCEPT !.board = to] = [board |-> to, as |-> r.as]
  BY DEF Reading
<1>3. /\ Reading(next)
      /\ r.as # "reading" => next = r
      /\ r.as = "reading" /\ p = 0 => next.as = "done" /\ next.board = r.board
      /\ r.as = "reading" /\ p # 0 =>
           \/ next.as \in {"failed", "stray"}
           \/ next.as = "reading" /\ Known(r.board, p, n) /\ xy \in Tiles /\ next.board = to
  BY <1>1, <1>2 DEF Reading
<1> QED
  BY <1>3 DEF Round, next, p, n, xy, to

\* However the memory is read, the client goes on with the board of a whole
\* reading or stops following: it is never left as if nothing had happened.
LEMMA GarbageIsNoticed ==
  ASSUME NEW b, NEW packet \in Seq(Nat), NEW behind \in Seq(Nat)
  PROVE  UpdateLocationsOnClient(b, packet, behind).as # "no"
<1> DEFINE memory == packet \o behind
           l      == Len(memory)
<1>1. PICK read : /\ IsReading(read, b, memory, l)
                  /\ UpdateLocationsOnClient(b, packet, behind) = read[l]
  BY ReadingEnds
<1>2. l \in Nat
  OBVIOUS
<1> HIDE DEF memory, l
<1>7. Rounds(read, b, memory, l)
  BY <1>1, <1>2, ReadingStep
<1> DEFINE S == {k \in 0 .. l : Reading(read[k]) /\ read[k].as # "no"}
<1>3. 0 \in S
  <2> QED
    BY <1>2, <1>7 DEF Reading, Rounds
<1>4. ASSUME NEW k \in S, k < l PROVE k + 1 \in S
  <2>1. k \in 0 .. l /\ k + 1 \in 0 .. l
    BY <1>2, <1>4
  <2>2. Reading(read[k]) /\ read[k].as # "no"
    OBVIOUS
  <2> HIDE DEF S
  <2>3. read[k + 1] = ReadEntry(memory, k + 1, read[k])
    BY <1>4, <1>7, <2>1 DEF Rounds
  <2>4. Round(memory, k + 1, read[k], read[k + 1])
    BY <2>2, <2>3, EntryRead
  <2>5. Reading(read[k + 1]) /\ read[k + 1].as # "no"
    BY <2>2, <2>4 DEF Round
  <2> QED
    BY <2>1, <2>5 DEF S
<1>5. S \subseteq Nat
  BY <1>2
<1> HIDE DEF S
<1>6. l \in S
  <2>1. 0 .. l \subseteq S
    BY <1>2, <1>3, <1>4, <1>5, Upwards
  <2> QED
    BY <1>2, <2>1
<1> QED
  BY <1>1, <1>6 DEF S

\* The board after k rows: who was not named is where it was, the others are
\* where they were last reported.
ReadOff(b, A, c, rows, k) ==
  /\ BoardOK(c, A) /\ SameRolls(b, c)
  /\ \A p \in Ids(b) : \A n \in Roll(b, p) :
       /\ ~Speaks(rows, k, <<p, n>>) => Place(c, p, n) = Place(b, p, n)
       /\ \A xy : Leaves(rows, k, <<p, n>>, xy) => Place(c, p, n) = xy

\* Before the first row.
LEMMA NothingRead ==
  ASSUME NEW b, NEW A, BoardOK(b, A), NEW rows
  PROVE  ReadOff(b, A, b, rows, 0)
<1>1. \A c, xy : ~Leaves(rows, 0, c, xy)
  BY DEF Leaves
<1> QED
  BY <1>1 DEF ReadOff, SameRolls

\* One row more: its character is where it says, the others where they were.
LEMMA RowRead ==
  ASSUME NEW b, NEW A, NEW c, NEW rows, NEW k \in Nat, ReadOff(b, A, c, rows, k),
         NEW p, NEW n, NEW xy \in Tiles, Known(c, p, n),
         Names(rows[k + 1], <<p, n>>), <<rows[k + 1][3], rows[k + 1][4]>> = xy
  PROVE  ReadOff(b, A, SetCharacterTile(c, p, n, xy), rows, k + 1)
<1> DEFINE d   == SetCharacterTile(c, p, n, xy)
           row == rows[k + 1]
<1>1. BoardOK(c, A) /\ SameRolls(b, c)
  BY DEF ReadOff
<1>2. /\ BoardOK(d, A) /\ SameRolls(c, d) /\ Place(d, p, n) = xy
      /\ \A q \in Ids(c) : \A m \in Roll(c, q) :
           <<q, m>> # <<p, n>> => Place(d, q, m) = Place(c, q, m)
  BY <1>1, SetCharacterTileMoves
<1> HIDE DEF d
<1>3. SameRolls(b, d) /\ Ids(c) = Ids(b) /\ \A q \in Ids(b) : Roll(c, q) = Roll(b, q)
  BY <1>1, <1>2 DEF SameRolls
<1>4. row[1] = p /\ row[2] = n /\ <<row[3], row[4]>> = xy
  BY DEF Names
<1>5. /\ k + 1 \in 1 .. k + 1
      /\ \A i \in 1 .. k : i \in 1 .. k + 1
      /\ \A i \in 1 .. k + 1 : i # k + 1 => i \in 1 .. k
  OBVIOUS
<1> HIDE DEF row
<1>6. ASSUME NEW q \in Ids(b), NEW m \in Roll(b, q)
      PROVE  /\ ~Speaks(rows, k + 1, <<q, m>>) => Place(d, q, m) = Place(b, q, m)
             /\ \A uv : Leaves(rows, k + 1, <<q, m>>, uv) => Place(d, q, m) = uv
  <2> DEFINE e == <<q, m>>
  <2>1. e[1] = q /\ e[2] = m
    OBVIOUS
  <2>2. CASE q = p /\ m = n
    <3>1. Names(row, e)
      BY <1>4, <2>1, <2>2 DEF Names
    <3> HIDE DEF e
    <3>2. Speaks(rows, k + 1, e)
      BY <1>5, <3>1 DEF Speaks, row
    <3>3. ASSUME NEW uv, Leaves(rows, k + 1, e, uv) PROVE uv = xy
      <4>1. PICK j \in 1 .. k + 1 : /\ Names(rows[j], e) /\ <<rows[j][3], rows[j][4]>> = uv
                                    /\ \A i \in j + 1 .. k + 1 : ~Names(rows[i], e)
        BY <3>3 DEF Leaves
      <4>2. CASE j = k + 1
        BY <1>4, <4>1, <4>2 DEF row
      <4>3. CASE j # k + 1
        <5>1. k + 1 \in j + 1 .. k + 1
          BY <4>3
        <5> QED
          BY <3>1, <4>1, <5>1 DEF row
      <4> QED
        BY <4>2, <4>3
    <3> QED
      BY <1>2, <2>2, <3>2, <3>3 DEF e
  <2>3. CASE ~(q = p /\ m = n)
    <3>1. ~Names(row, e) /\ e # <<p, n>>
      BY <1>4, <2>1, <2>3 DEF Names
    <3>2. Place(d, q, m) = Place(c, q, m)
      BY <1>2, <1>3, <3>1 DEF e
    <3>3. /\ ~Speaks(rows, k, e) => Place(c, q, m) = Place(b, q, m)
          /\ \A uv : Leaves(rows, k, e, uv) => Place(c, q, m) = uv
      BY DEF ReadOff
    <3> HIDE DEF e
    <3>4. Speaks(rows, k, e) => Speaks(rows, k + 1, e)
      BY <1>5 DEF Speaks
    <3>5. ASSUME NEW uv, Leaves(rows, k + 1, e, uv) PROVE Leaves(rows, k, e, uv)
      <4>1. PICK j \in 1 .. k + 1 : /\ Names(rows[j], e) /\ <<rows[j][3], rows[j][4]>> = uv
                                    /\ \A i \in j + 1 .. k + 1 : ~Names(rows[i], e)
        BY <3>5 DEF Leaves
      <4>2. j # k + 1
        BY <3>1, <4>1 DEF row
      <4>3. j \in 1 .. k /\ \A i \in j + 1 .. k : i \in j + 1 .. k + 1
        BY <1>5, <4>2
      <4> QED
        BY <4>1, <4>3 DEF Leaves
    <3> QED
      BY <3>2, <3>3, <3>4, <3>5 DEF e
  <2> QED
    BY <2>2, <2>3
<1> QED
  BY <1>2, <1>3, <1>6 DEF ReadOff, d

\* The entries of a packet lie in the memory where the packet does.
LEMMA EntryInMemory ==
  ASSUME NEW packet \in Seq(Nat), Whole(packet), Plain(packet)
  PROVE  LET l == Len(packet) \div 4
         IN /\ l \in Nat /\ Len(packet) = 4 * l + 1 /\ Len(Entries(packet)) = l
            /\ Byte(packet, 4 * (l + 1) - 3) = 0
            /\ \A k \in 1 .. l :
                 /\ Byte(packet, 4 * k - 3) = Entries(packet)[k][1]
                 /\ Byte(packet, 4 * k - 2) = Entries(packet)[k][2]
                 /\ Byte(packet, 4 * k - 1) = Entries(packet)[k][3]
                 /\ Byte(packet, 4 * k) = Entries(packet)[k][4]
                 /\ Byte(packet, 4 * k - 3) # 0
<1> DEFINE l == Len(packet) \div 4
<1>1. l \in Nat /\ Len(packet) = 4 * l + 1
  BY DEF Whole
<1>2. DOMAIN packet = 1 .. 4 * l + 1
  BY <1>1
<1>3. Entries(packet) = [k \in 1 .. l |-> <<packet[4 * k - 3], packet[4 * k - 2],
                                            packet[4 * k - 1], packet[4 * k]>>]
  BY DEF Entries
<1>4. packet[4 * l + 1] = 0 /\ \A k \in 1 .. l : packet[4 * k - 3] # 0
  BY <1>1 DEF Plain
<1> HIDE DEF l
<1>5. 4 * (l + 1) - 3 = 4 * l + 1 /\ 4 * l + 1 \in DOMAIN packet
  BY <1>1, <1>2
<1>6. \A k \in 1 .. l : /\ 4 * k - 3 \in 1 .. 4 * l + 1 /\ 4 * k - 2 \in 1 .. 4 * l + 1
                        /\ 4 * k - 1 \in 1 .. 4 * l + 1 /\ 4 * k \in 1 .. 4 * l + 1
  BY <1>1
<1>7. Len(Entries(packet)) = l
  BY <1>1, <1>3
<1>8. ASSUME NEW k \in 1 .. l
      PROVE  /\ Byte(packet, 4 * k - 3) = Entries(packet)[k][1]
             /\ Byte(packet, 4 * k - 2) = Entries(packet)[k][2]
             /\ Byte(packet, 4 * k - 1) = Entries(packet)[k][3]
             /\ Byte(packet, 4 * k) = Entries(packet)[k][4]
             /\ Byte(packet, 4 * k - 3) # 0
  BY <1>2, <1>3, <1>4, <1>6 DEF Byte
<1>9. Byte(packet, 4 * (l + 1) - 3) = 0
  BY <1>4, <1>5 DEF Byte
<1> QED
  BY <1>1, <1>7, <1>8, <1>9 DEF l

\* Where a reading is after k rounds, of l entries.
Halfway(r, b, A, rows, k, l) ==
  /\ Reading(r)
  /\ \/ r.as \in {"failed", "stray"}
     \/ k <= l /\ r.as = "reading" /\ ReadOff(b, A, r.board, rows, k)
     \/ k > l /\ r.as = "done" /\ ReadOff(b, A, r.board, rows, l)

\* One round over a whole packet: a row is read off, or the end is met.
LEMMA RoundOfWhole ==
  ASSUME NEW b, NEW A, NEW packet \in Seq(Nat), Whole(packet), Plain(packet),
         NEW k \in Nat, NEW r, NEW next,
         Halfway(r, b, A, Entries(packet), k, Len(packet) \div 4),
         next = ReadEntry(packet, k + 1, r)
  PROVE  Halfway(next, b, A, Entries(packet), k + 1, Len(packet) \div 4)
<1> DEFINE l    == Len(packet) \div 4
           rows == Entries(packet)
           p    == Byte(packet, 4 * (k + 1) - 3)
           n    == Byte(packet, 4 * (k + 1) - 2)
           xy   == <<Byte(packet, 4 * (k + 1) - 1), Byte(packet, 4 * (k + 1))>>
<1>1. Round(packet, k + 1, r, next)
  BY EntryRead DEF Halfway
<1>2. /\ l \in Nat /\ Byte(packet, 4 * (l + 1) - 3) = 0
      /\ \A j \in 1 .. l :
           /\ Byte(packet, 4 * j - 3) = rows[j][1] /\ Byte(packet, 4 * j - 2) = rows[j][2]
           /\ Byte(packet, 4 * j - 1) = rows[j][3] /\ Byte(packet, 4 * j) = rows[j][4]
           /\ Byte(packet, 4 * j - 3) # 0
  BY EntryInMemory
<1>3. CASE r.as # "reading"
  <2>1. next = r
    BY <1>1, <1>3 DEF Round
  <2>2. k > l => k + 1 > l
    BY <1>2
  <2> QED
    BY <1>3, <2>1, <2>2 DEF Halfway
<1>4. CASE r.as = "reading"
  <2>1. k <= l /\ ReadOff(b, A, r.board, rows, k)
    BY <1>4 DEF Halfway
  <2>2. CASE k = l
    <3>1. p = 0
      BY <1>2, <2>2
    <3> HIDE DEF p, l, rows
    <3>2. next.as = "done" /\ next.board = r.board /\ Reading(next)
      BY <1>1, <1>4, <3>1 DEF Round, p
    <3>3. k + 1 > l
      BY <2>2
    <3> QED
      BY <2>1, <2>2, <3>2, <3>3 DEF Halfway, l, rows
  <2>3. CASE k # l
    <3>1. k + 1 \in 1 .. l /\ k + 1 <= l
      BY <1>2, <2>1, <2>3
    <3>2. p # 0 /\ rows[k + 1][1] = p /\ rows[k + 1][2] = n /\ <<rows[k + 1][3], rows[k + 1][4]>> = xy
      BY <1>2, <3>1
    <3>3. Names(rows[k + 1], <<p, n>>)
      BY <3>2 DEF Names
    <3> HIDE DEF p, n, xy, l, rows
    <3>4. /\ Reading(next)
          /\ \/ next.as \in {"failed", "stray"}
             \/ /\ next.as = "reading" /\ Known(r.board, p, n) /\ xy \in Tiles
                /\ next.board = SetCharacterTile(r.board, p, n, xy)
      BY <1>1, <1>4, <3>2 DEF Round, p, n, xy
    <3>5. CASE next.as \in {"failed", "stray"}
      BY <3>4, <3>5 DEF Halfway
    <3>6. CASE /\ next.as = "reading" /\ Known(r.board, p, n) /\ xy \in Tiles
               /\ next.board = SetCharacterTile(r.board, p, n, xy)
      <4>1. ReadOff(b, A, next.board, rows, k + 1)
        BY <2>1, <3>2, <3>3, <3>6, RowRead
      <4> QED
        BY <3>1, <3>4, <3>6, <4>1 DEF Halfway, l, rows
    <3> QED
      BY <3>4, <3>5, <3>6
  <2> QED
    BY <2>2, <2>3
<1> QED
  BY <1>3, <1>4

\* A whole packet that was read to its end moved everybody where it says.
LEMMA WholeIsRead ==
  ASSUME NEW b, NEW A, BoardOK(b, A),
         NEW packet \in Seq(Nat), Whole(packet), Plain(packet),
         UpdateLocationsOnClient(b, packet, <<>>).as = "done"
  PROVE  ReadOff(b, A, UpdateLocationsOnClient(b, packet, <<>>).board,
                 Entries(packet), Len(Entries(packet)))
<1> DEFINE l    == Len(packet) \div 4
           rows == Entries(packet)
           len  == Len(packet)
<1>1. PICK read : /\ IsReading(read, b, packet, len)
                  /\ UpdateLocationsOnClient(b, packet, <<>>) = read[len]
  <2>1. packet \o <<>> = packet /\ <<>> \in Seq(Nat)
    OBVIOUS
  <2> DEFINE none   == <<>>
             memory == packet \o none
  <2>2. memory = packet /\ none \in Seq(Nat)
    BY <2>1
  <2> HIDE DEF none
  <2>3. \E read : /\ IsReading(read, b, memory, Len(memory))
                  /\ UpdateLocationsOnClient(b, packet, none) = read[Len(memory)]
    BY <2>2, ReadingEnds
  <2> HIDE DEF memory
  <2> QED
    BY <2>2, <2>3 DEF none
<1>2. l \in Nat /\ len \in Nat /\ len > l /\ Len(rows) = l
  <2>1. l \in Nat /\ len = 4 * l + 1 /\ Len(rows) = l
    BY EntryInMemory
  <2> HIDE DEF l, len
  <2> QED
    BY <2>1
<1>3. Rounds(read, b, packet, len)
  BY <1>1, <1>2, ReadingStep
<1> HIDE DEF rows, len, l
<1> DEFINE S == {k \in 0 .. len : Halfway(read[k], b, A, rows, k, l)}
<1>4. 0 \in S
  <2>1. read[0] = [board |-> b, as |-> "reading"]
    BY <1>3 DEF Rounds
  <2>2. ReadOff(b, A, b, rows, 0)
    BY NothingRead
  <2>3. Halfway(read[0], b, A, rows, 0, l)
    BY <1>2, <2>1, <2>2 DEF Halfway, Reading
  <2> QED
    BY <1>2, <2>3
<1>5. ASSUME NEW k \in S, k < len PROVE k + 1 \in S
  <2>1. k \in 0 .. len /\ k + 1 \in 0 .. len /\ k \in Nat
    BY <1>2, <1>5
  <2>2. Halfway(read[k], b, A, rows, k, l)
    OBVIOUS
  <2> HIDE DEF S
  <2>3. read[k + 1] = ReadEntry(packet, k + 1, read[k])
    BY <1>3, <1>5, <2>1 DEF Rounds
  <2>4. Halfway(read[k + 1], b, A, rows, k + 1, l)
    BY <2>1, <2>2, <2>3, RoundOfWhole DEF rows, l
  <2> QED
    BY <2>1, <2>4 DEF S
<1>6. S \subseteq Nat
  BY <1>2
<1> HIDE DEF S
<1>7. len \in S
  <2>1. 0 .. len \subseteq S
    BY <1>2, <1>4, <1>5, <1>6, Upwards
  <2> QED
    BY <1>2, <2>1
<1>8. Halfway(read[len], b, A, rows, len, l)
  BY <1>7 DEF S
<1> QED
  BY <1>1, <1>2, <1>8 DEF Halfway, rows

-----------------------------------------------------------------------------
(* How a report is written *)

\* The bytes of the rows, four by four.
LEMMA BytesOfRows ==
  ASSUME NEW rows \in Seq(Location)
  PROVE  /\ Bytes(rows) \in Seq(Nat) /\ Len(Bytes(rows)) = 4 * Len(rows)
         /\ \A k \in 1 .. Len(rows) :
              /\ Bytes(rows)[4 * k - 3] = rows[k][1] /\ Bytes(rows)[4 * k - 2] = rows[k][2]
              /\ Bytes(rows)[4 * k - 1] = rows[k][3] /\ Bytes(rows)[4 * k] = rows[k][4]
<1> DEFINE l == Len(rows)
           bytes == Bytes(rows)
<1>1. l \in Nat /\ \A k \in 1 .. l : rows[k] \in Nat \X Nat \X Nat \X Nat
  BY BoardAssumption DEF Location
<1>2. bytes = [k \in 1 .. 4 * l |-> rows[(k + 3) \div 4][((k - 1) % 4) + 1]]
  BY DEF Bytes
<1> HIDE DEF l, bytes
<1>3. ASSUME NEW k \in 1 .. 4 * l
      PROVE  (k + 3) \div 4 \in 1 .. l /\ ((k - 1) % 4) + 1 \in 1 .. 4
  BY <1>1
<1>4. \A r \in Nat \X Nat \X Nat \X Nat : \A i \in 1 .. 4 : r[i] \in Nat
  OBVIOUS
<1>5. bytes \in [1 .. 4 * l -> Nat]
  <2>1. \A k \in 1 .. 4 * l : rows[(k + 3) \div 4][((k - 1) % 4) + 1] \in Nat
    BY <1>1, <1>3, <1>4
  <2> QED
    BY <1>2, <2>1
<1>6. 4 * l \in Nat
  BY <1>1
<1>7. bytes \in Seq(Nat) /\ Len(bytes) = 4 * l
  BY <1>5, <1>6
<1>8. ASSUME NEW k \in 1 .. l
      PROVE  /\ bytes[4 * k - 3] = rows[k][1] /\ bytes[4 * k - 2] = rows[k][2]
             /\ bytes[4 * k - 1] = rows[k][3] /\ bytes[4 * k] = rows[k][4]
  <2>1. /\ 4 * k - 3 \in 1 .. 4 * l /\ 4 * k - 2 \in 1 .. 4 * l
        /\ 4 * k - 1 \in 1 .. 4 * l /\ 4 * k \in 1 .. 4 * l
    BY <1>1
  <2>2. /\ (4 * k - 3 + 3) \div 4 = k /\ (4 * k - 2 + 3) \div 4 = k
        /\ (4 * k - 1 + 3) \div 4 = k /\ (4 * k + 3) \div 4 = k
    BY <1>1
  <2>3. /\ ((4 * k - 3 - 1) % 4) + 1 = 1 /\ ((4 * k - 2 - 1) % 4) + 1 = 2
        /\ ((4 * k - 1 - 1) % 4) + 1 = 3 /\ ((4 * k - 1) % 4) + 1 = 4
    BY <1>1
  <2> QED
    BY <1>2, <2>1, <2>2, <2>3
<1> QED
  BY <1>7, <1>8 DEF l, bytes

\* The string ends after the bytes, or at the first zero among them.
LEMMA StringEnds ==
  ASSUME NEW bytes \in Seq(Nat)
  PROVE  \/ /\ AsString(bytes) = Append(bytes, 0)
            /\ \A k \in 1 .. Len(bytes) : bytes[k] # 0
         \/ \E k \in 1 .. Len(bytes) : bytes[k] = 0 /\ AsString(bytes) = SubSeq(bytes, 1, k)
<1> DEFINE zeros == {k \in DOMAIN bytes : bytes[k] = 0}
           first == CHOOSE k \in zeros : \A j \in zeros : k <= j
<1>1. CASE zeros = {}
  <2>1. AsString(bytes) = Append(bytes, 0)
    BY <1>1 DEF AsString
  <2>2. \A k \in 1 .. Len(bytes) : bytes[k] # 0
    BY <1>1
  <2> QED
    BY <2>1, <2>2
<1>2. CASE zeros # {}
  <2>1. AsString(bytes) = SubSeq(bytes, 1, first)
    BY <1>2 DEF AsString
  <2>2. zeros \in SUBSET Nat
    OBVIOUS
  <2> HIDE DEF zeros
  <2>3. \E k \in zeros : \A j \in zeros : k <= j
    BY <1>2, <2>2, Smallest
  <2>4. first \in zeros
    BY <2>3
  <2> HIDE DEF first
  <2>5. first \in 1 .. Len(bytes) /\ bytes[first] = 0
    BY <2>4 DEF zeros
  <2> QED
    BY <2>1, <2>5
<1> QED
  BY <1>1, <1>2

\* What a zero behind the bytes makes of them.
LEMMA ZeroBehind ==
  ASSUME NEW bytes \in Seq(Nat), NEW e \in Nat, Len(bytes) = e
  PROVE  LET packet == Append(bytes, 0)
         IN /\ packet \in Seq(Nat) /\ Len(packet) = e + 1 /\ packet[e + 1] = 0
            /\ \A k \in 1 .. e : packet[k] = bytes[k]
OBVIOUS

\* And what a cut does.
LEMMA CutOff ==
  ASSUME NEW bytes \in Seq(Nat), NEW k \in 1 .. Len(bytes)
  PROVE  SubSeq(bytes, 1, k) \in Seq(Nat) /\ Len(SubSeq(bytes, 1, k)) = k
OBVIOUS

\* The entries of a packet of 4 * l + 1 bytes.
LEMMA EntriesOf ==
  ASSUME NEW packet, NEW l \in Nat, Len(packet) = 4 * l + 1
  PROVE  /\ Len(Entries(packet)) = l
         /\ \A k \in 1 .. l : Entries(packet)[k] = <<packet[4 * k - 3], packet[4 * k - 2],
                                                     packet[4 * k - 1], packet[4 * k]>>
         /\ Plain(packet) <=> /\ packet[4 * l + 1] = 0
                              /\ \A k \in 1 .. l : packet[4 * k - 3] # 0
<1>1. Len(packet) \div 4 = l /\ Len(packet) % 4 = 1
  OBVIOUS
<1>2. Entries(packet) = [k \in 1 .. l |-> <<packet[4 * k - 3], packet[4 * k - 2],
                                            packet[4 * k - 1], packet[4 * k]>>]
  BY <1>1 DEF Entries
<1>3. Plain(packet) <=> /\ packet[4 * l + 1] = 0
                        /\ \A k \in 1 .. l : packet[4 * k - 3] # 0
  BY <1>1 DEF Plain, Whole
<1> QED
  BY <1>2, <1>3

\* A packet that is whole has the rows it was written from: a player's byte is
\* no zero, so that a packet that was cut ends elsewhere.
LEMMA ReportWritten ==
  ASSUME NEW rows \in Seq(Location), \A k \in DOMAIN rows : rows[k][1] # 0
  PROVE  LET packet == AsString(Bytes(rows))
         IN /\ packet \in Seq(Nat) /\ Plain(packet)
            /\ Whole(packet) => /\ Len(Entries(packet)) = Len(rows)
                                /\ \A k \in 1 .. Len(rows) : Entries(packet)[k] = rows[k]
<1> DEFINE bytes  == Bytes(rows)
           packet == AsString(bytes)
           l      == Len(rows)
<1>1. /\ bytes \in Seq(Nat) /\ Len(bytes) = 4 * l /\ l \in Nat
      /\ \A k \in 1 .. l : /\ bytes[4 * k - 3] = rows[k][1] /\ bytes[4 * k - 2] = rows[k][2]
                           /\ bytes[4 * k - 1] = rows[k][3] /\ bytes[4 * k] = rows[k][4]
  BY BytesOfRows
<1>2. \A k \in 1 .. l : rows[k][1] # 0 /\ rows[k] = <<rows[k][1], rows[k][2], rows[k][3], rows[k][4]>>
  BY DEF Location
<1>3. packet = AsString(bytes)
  OBVIOUS
<1> HIDE DEF bytes, packet, l
<1>4. CASE packet = Append(bytes, 0)
  <2>1. /\ packet \in Seq(Nat) /\ Len(packet) = 4 * l + 1 /\ packet[4 * l + 1] = 0
        /\ \A k \in 1 .. 4 * l : packet[k] = bytes[k]
    <3> DEFINE e == 4 * l
    <3>1. e \in Nat /\ Len(bytes) = e
      BY <1>1
    <3> HIDE DEF e
    <3>2. /\ packet \in Seq(Nat) /\ Len(packet) = e + 1 /\ packet[e + 1] = 0
          /\ \A k \in 1 .. e : packet[k] = bytes[k]
      BY <1>1, <1>4, <3>1, ZeroBehind
    <3> QED
      BY <3>2 DEF e
  <2>2. /\ Len(Entries(packet)) = l
        /\ \A k \in 1 .. l : Entries(packet)[k] = <<packet[4 * k - 3], packet[4 * k - 2],
                                                    packet[4 * k - 1], packet[4 * k]>>
        /\ Plain(packet) <=> /\ packet[4 * l + 1] = 0
                             /\ \A k \in 1 .. l : packet[4 * k - 3] # 0
    BY <1>1, <2>1, EntriesOf
  <2>3. \A k \in 1 .. l : /\ 4 * k - 3 \in 1 .. 4 * l /\ 4 * k - 2 \in 1 .. 4 * l
                          /\ 4 * k - 1 \in 1 .. 4 * l /\ 4 * k \in 1 .. 4 * l
    BY <1>1
  <2>4. \A k \in 1 .. l : /\ packet[4 * k - 3] = rows[k][1] /\ packet[4 * k - 2] = rows[k][2]
                          /\ packet[4 * k - 1] = rows[k][3] /\ packet[4 * k] = rows[k][4]
    BY <1>1, <2>1, <2>3
  <2>5. Plain(packet)
    BY <1>2, <2>1, <2>2, <2>4
  <2>6. \A k \in 1 .. l : Entries(packet)[k] = rows[k]
    <3> TAKE k \in 1 .. l
    <3>1. rows[k] = <<rows[k][1], rows[k][2], rows[k][3], rows[k][4]>>
      BY <1>2
    <3>2. Entries(packet)[k] = <<packet[4 * k - 3], packet[4 * k - 2],
                                 packet[4 * k - 1], packet[4 * k]>>
      BY <2>2
    <3>3. /\ packet[4 * k - 3] = rows[k][1] /\ packet[4 * k - 2] = rows[k][2]
          /\ packet[4 * k - 1] = rows[k][3] /\ packet[4 * k] = rows[k][4]
      BY <2>4
    <3> QED
      BY <3>1, <3>2, <3>3, Zenon
  <2> QED
    BY <2>1, <2>2, <2>5, <2>6 DEF packet, bytes, l
<1>5. ASSUME NEW k \in 1 .. Len(bytes), bytes[k] = 0, packet = SubSeq(bytes, 1, k)
      PROVE  packet \in Seq(Nat) /\ ~Whole(packet)
  <2>1. k \in 1 .. 4 * l /\ packet \in Seq(Nat) /\ Len(packet) = k
    BY <1>1, <1>5, CutOff
  <2>2. ASSUME k % 4 = 1 PROVE FALSE
    <3> DEFINE j == k \div 4 + 1
    <3>1. k = 4 * j - 3 /\ j \in 1 .. l
      BY <1>1, <2>1, <2>2
    <3> HIDE DEF j
    <3>2. bytes[4 * j - 3] = rows[j][1] /\ rows[j][1] # 0
      BY <1>1, <1>2, <3>1
    <3> QED
      BY <1>5, <3>1, <3>2
  <2> QED
    BY <2>1, <2>2 DEF Whole
<1>6. \/ packet = Append(bytes, 0)
      \/ \E k \in 1 .. Len(bytes) : bytes[k] = 0 /\ packet = SubSeq(bytes, 1, k)
  BY <1>1, <1>3, StringEnds
<1>7. CASE \E k \in 1 .. Len(bytes) : bytes[k] = 0 /\ packet = SubSeq(bytes, 1, k)
  <2>1. packet \in Seq(Nat) /\ ~Whole(packet)
    BY <1>5, <1>7
  <2> QED
    BY <2>1 DEF Plain, packet, bytes
<1> QED
  BY <1>4, <1>6, <1>7

-----------------------------------------------------------------------------
(* The server's board *)

\* Where players are replaced, and whatever becomes of the tiles.
LEMMA OnePlayerOnTiles ==
  ASSUME NEW b, NEW c, NEW p \in Ids(b), NEW pl, Ids(c) = Ids(b), c.players[p] = pl,
         \A q \in Ids(b) : q # p => c.players[q] = b.players[q],
         \A n \in Roll(b, p) : n \in DOMAIN pl.army /\ pl.army[n].at = Place(b, p, n)
  PROVE  Stayed(b, c)
<1>1. ASSUME NEW q \in Ids(b), NEW n \in Roll(b, q)
      PROVE  n \in Roll(c, q) /\ Place(c, q, n) = Place(b, q, n)
  BY <1>1 DEF Roll, Place
<1> QED
  BY <1>1 DEF Stayed

\* addCharacter moves nobody; a new character is one the client does not know.
LEMMA AddCharacterStays ==
  ASSUME NEW b, NEW A, BoardOK(b, A), NEW p \in Ids(b), NEW t \in DOMAIN Cost
  PROVE  Stayed(b, AddCharacter(b, p, t))
<1> DEFINE pl   == b.players[p]
           n    == pl.armyCount + 1
           home == Spawn(pl.index)
           less == [pl EXCEPT !.armyCount = n]
           paid == [pl EXCEPT !.armyCount = n, !.hexbank = @ - Cost[t]]
           army == Enlist(pl.army, n, home)
           full == [paid EXCEPT !.army = army]
           f    == [b.players EXCEPT ![p] = full]
           g    == [b.tiles EXCEPT ![home] = <<p, n>>]
           c    == [b EXCEPT !.players = f, !.tiles = g]
<1>1. PlayerOK(pl, A)
  BY DEF BoardOK, Ids
<1>2. /\ pl \in [address : A, index : Nat, ready : BOOLEAN, hexbank : Nat,
                armyCount : Nat, king : {"none", "alive", "dead"}, army : {pl.army}]
      /\ n \notin DOMAIN pl.army
  BY <1>1 DEF PlayerOK
<1>3. /\ DOMAIN army = DOMAIN pl.army \cup {n}
      /\ \A m \in DOMAIN pl.army : army[m] = pl.army[m]
  BY <1>2 DEF Enlist
<1>4. \/ AddCharacter(b, p, t) = [b EXCEPT !.players[p].armyCount = n]
      \/ AddCharacter(b, p, t) = [b EXCEPT !.players[p] = paid]
      \/ AddCharacter(b, p, t) = [b EXCEPT !.players[p] = full, !.tiles[home] = <<p, n>>]
  BY DEF AddCharacter, CanAddCharacter
<1>5. /\ [b EXCEPT !.players[p].armyCount = n]
           = [b EXCEPT !.players = [b.players EXCEPT ![p] = less]]
      /\ [b EXCEPT !.players[p] = paid]
           = [b EXCEPT !.players = [b.players EXCEPT ![p] = paid]]
      /\ [b EXCEPT !.players[p] = full, !.tiles[home] = <<p, n>>] = c
  BY BoardFields DEF Ids
<1>6. less.army = pl.army /\ paid.army = pl.army
  BY <1>2
<1> HIDE DEF army
<1>7. full.army = army
  BY <1>2
<1> HIDE DEF less, paid, full
<1>8. /\ DOMAIN f = Ids(b) /\ f[p] = full
      /\ \A q \in Ids(b) : q # p => f[q] = b.players[q]
  BY DEF Ids
<1> HIDE DEF f, g
<1>9. c.players = f
  BY BoardFields
<1> HIDE DEF c
<1>10. /\ Stayed(b, [b EXCEPT !.players = [b.players EXCEPT ![p] = less]])
       /\ Stayed(b, [b EXCEPT !.players = [b.players EXCEPT ![p] = paid]])
  <2>1. \A m \in Roll(b, p) : /\ m \in DOMAIN less.army /\ less.army[m].at = Place(b, p, m)
                              /\ m \in DOMAIN paid.army /\ paid.army[m].at = Place(b, p, m)
    BY <1>6 DEF Roll, Place
  <2> QED
    BY <2>1, OnePlayerStays
<1>11. Stayed(b, c)
  <2>1. \A m \in Roll(b, p) : m \in DOMAIN full.army /\ full.army[m].at = Place(b, p, m)
    BY <1>3, <1>7 DEF Roll, Place
  <2>2. /\ Ids(c) = Ids(b) /\ c.players[p] = full
        /\ \A q \in Ids(b) : q # p => c.players[q] = b.players[q]
    BY <1>8, <1>9 DEF Ids
  <2> QED
    BY <2>1, <2>2, OnePlayerOnTiles
<1> QED
  BY <1>4, <1>5, <1>10, <1>11

\* updateLocation moves the one character, and knows the others no better.
LEMMA UpdateLocationMoves ==
  ASSUME NEW b, NEW A, BoardOK(b, A), NEW p \in Ids(b), NEW n \in Roll(b, p)
  PROVE  LET c == UpdateLocation(b, p, n)
         IN /\ SameRolls(b, c)
            /\ \A q \in Ids(b) : \A m \in Roll(b, q) :
                 <<q, m>> # <<p, n>> => Place(c, q, m) = Place(b, q, m)
<1> DEFINE pl      == b.players[p]
           ch      == pl.army[n]
           to      == NextTile(b, ch)
           army    == [pl.army EXCEPT ![n] = [ch EXCEPT !.at = to]]
           q       == [pl EXCEPT !.army = army]
           f       == [b.players EXCEPT ![p] = q]
           written == IF StrayWrite(b, p, n) THEN b.tiles
                      ELSE [b.tiles EXCEPT ![WrittenTile(b, ch)] = <<p, n>>]
           g       == [written EXCEPT ![ch.at] = Empty]
           c       == [b EXCEPT !.players = f, !.tiles = g]
<1>1. PlayerOK(pl, A)
  BY DEF BoardOK, Ids
<1>2. /\ pl \in [address : A, index : Nat, ready : BOOLEAN, hexbank : Nat,
                armyCount : Nat, king : {"none", "alive", "dead"}, army : {pl.army}]
      /\ pl.army \in [DOMAIN pl.army -> Character]
  BY <1>1 DEF PlayerOK
<1> HIDE DEF written
<1> HIDE DEF to
<1>3. /\ DOMAIN army = DOMAIN pl.army
      /\ \A m \in DOMAIN pl.army : m # n => army[m] = pl.army[m]
  BY <1>2
<1>4. UpdateLocation(b, p, n) = [b EXCEPT !.players[p].army[n].at = to, !.tiles = g]
  BY DEF UpdateLocation, to, written
<1> HIDE DEF g
<1>5. [b EXCEPT !.players[p].army[n].at = to, !.tiles = g] = c
  BY BoardFields DEF Ids
<1> HIDE DEF army
<1>6. q.army = army
  BY <1>2
<1> HIDE DEF q
<1>7. /\ DOMAIN f = Ids(b) /\ f[p] = q
      /\ \A r \in Ids(b) : r # p => f[r] = b.players[r]
  BY DEF Ids
<1> HIDE DEF f
<1>8. c.players = f
  BY BoardFields
<1> HIDE DEF c
<1>9. SameRolls(b, c)
  BY <1>3, <1>6, <1>7, <1>8 DEF SameRolls, Roll, Ids
<1>10. ASSUME NEW r \in Ids(b), NEW m \in Roll(b, r), <<r, m>> # <<p, n>>
       PROVE  Place(c, r, m) = Place(b, r, m)
  <2>1. r # p \/ m # n
    BY <1>10
  <2> QED
    BY <1>3, <1>6, <1>7, <1>8, <1>10, <2>1 DEF Place, Roll
<1> QED
  BY <1>4, <1>5, <1>9, <1>10

-----------------------------------------------------------------------------
(* The steps of the server *)

\* Everybody stays where they are, the report is not added to, and what is
\* broadcast, if anything, is none.
Standing ==
  /\ Stayed(board, board') /\ IsStarted(board') /\ sweep'.packet = sweep.packet
  /\ sent' = <<>> \/ \E m \in Packet : m[1] # "L" /\ sent' = <<m>>

\* One character moves, and the report is.
Marching(p, n) ==
  /\ SameRolls(board, board') /\ IsStarted(board') /\ sent' = <<>>
  /\ \A q \in Ids(board) : \A m \in Roll(board, q) :
       <<q, m>> # <<p, n>> => Place(board', q, m) = Place(board, q, m)
  /\ LET at == Place(board', p, n)
     IN sweep'.packet = Append(sweep.packet, <<p, n, at[1], at[2]>>)

\* The report is sent.
Reporting ==
  /\ Stayed(board, board') /\ IsStarted(board') /\ sweep'.packet = <<>>
  /\ sent' = IF sweep.packet = <<>> THEN <<>> ELSE <<<<"L", sweep.packet>>>>

\* What comes is an order, if anything.
LEMMA EventsOrderly ==
  ASSUME members \subseteq Peers
  PROVE  /\ \A e \in MarchEvents : e[1] = "none" \/ (e[1] = "receive" /\ e[3][1] \in {"GM", "GB"})
         /\ MarchEvents \subseteq Arrivals
<1>1. ASSUME NEW e \in MarchEvents
      PROVE  e = NoEvent \/ \E a \in members : \E m \in ClientPackets(a) :
               m[1] \in {"GM", "GB"} /\ e = From(a, m)
  BY DEF MarchEvents
<1>2. ASSUME NEW e \in MarchEvents
      PROVE  e[1] = "none" \/ (e[1] = "receive" /\ e[3][1] \in {"GM", "GB"})
  BY <1>1 DEF NoEvent, From
<1>3. ASSUME NEW e \in MarchEvents PROVE e \in Arrivals
  BY <1>1 DEF Arrivals
<1> QED
  BY <1>2, <1>3

\* TimedEvent, once the game is on.
LEMMA TimedEventStands ==
  ASSUME IInv, IsStarted(board), TimedEvent(MarchEvents)
  PROVE  Standing /\ Orderly' /\ TimedEvent(Arrivals)
<1>1. BoardOK(board, Peers) /\ members \subseteq Peers
  BY DEF IInv, TypeOK
<1>2. EndGame(MarchEvents) \/ AfterTheGame(MarchEvents) \/ \E d \in BOOLEAN : PlayTick(MarchEvents, d)
  BY DEF TimedEvent, StartTimer, KeepCounting, StartGame, ResetTimer, LobbyTurn
<1>3. event' \in MarchEvents /\ sweep' = sweep
  BY <1>2 DEF EndGame, AfterTheGame, PlayTick, Take
<1>4. Orderly' /\ event' \in Arrivals
  BY <1>1, <1>3, EventsOrderly DEF Orderly
<1>5. TimedEvent(Arrivals)
  BY <1>2, <1>4 DEF TimedEvent, EndGame, AfterTheGame, PlayTick, Take
<1>6. <<"TH">> \in Packet /\ <<"W">> \in Packet /\ <<"TH">>[1] # "L" /\ <<"W">>[1] # "L"
  BY DEF Packet
<1>7. CASE EndGame(MarchEvents)
  <2>1. board.phase = "playing" /\ board' = EndBoard(board) /\ sent' = <<<<"W">>>>
    BY <1>7 DEF EndGame, Broadcast
  <2>2. board'.phase = "ended" /\ board'.players = board.players
    BY <1>1, <2>1, EndBoardMatch
  <2>3. Stayed(board, board')
    BY <2>2, SamePlayersStay
  <2> QED
    BY <1>3, <1>4, <1>5, <1>6, <2>1, <2>2, <2>3 DEF Standing, IsStarted
<1>8. CASE AfterTheGame(MarchEvents)
  <2>1. board' = board /\ sent' = <<>>
    BY <1>8 DEF AfterTheGame, Silent
  <2>2. Stayed(board, board')
    BY <2>1, SamePlayersStay
  <2> QED
    BY <1>3, <1>4, <1>5, <2>1, <2>2 DEF Standing
<1>9. ASSUME NEW d \in BOOLEAN, PlayTick(MarchEvents, d) PROVE Standing
  <2>1. \/ board' = board /\ sent' = <<>>
        \/ board' = IncHexBank(board) /\ sent' = <<<<"TH">>>>
    BY <1>9 DEF PlayTick, Silent, Broadcast
  <2>2. Stayed(board, board) /\ Stayed(board, IncHexBank(board))
    BY <1>1, SamePlayersStay, IncHexBankStays
  <2>3. IsStarted(IncHexBank(board))
    BY <1>1, IncHexBankSame DEF SameMatch, IsStarted
  <2> QED
    BY <1>3, <1>6, <2>1, <2>2, <2>3 DEF Standing
<1> QED
  BY <1>2, <1>4, <1>5, <1>7, <1>8, <1>9

\* The sweep: one character after the other, and the report.
LEMMA SweepMarches ==
  ASSUME IInv, IsStarted(board),
         SkipCharacter \/ MoveCharacter \/ CrashOnStrayWrite \/ EndSweep
  PROVE  /\ event' = event
         /\ \/ Standing \/ Reporting
            \/ \E p \in Ids(board) : \E n \in Roll(board, p) : p # 0 /\ Marching(p, n)
<1>1. BoardOK(board, Peers)
  BY DEF IInv, TypeOK
<1>2. sweep \in [at : Nat \X Nat, packet : Seq(Location)]
  BY DEF IInv, TypeOK
<1>3. Stayed(board, board)
  BY SamePlayersStay
<1>4. CASE SkipCharacter
  <2>1. sweep'.packet = sweep.packet
    BY <1>2, <1>4 DEF SkipCharacter
  <2> QED
    BY <1>3, <1>4, <2>1 DEF SkipCharacter, Standing, Silent
<1>5. CASE MoveCharacter
  <2>1. PICK p \in Ids(board) : \E n \in DOMAIN board.players[p].army : NextToVisit = <<p, n>>
    BY <1>1, <1>5, NextToVisitFound DEF MoveCharacter
  <2>2. PICK n \in Roll(board, p) : NextToVisit = <<p, n>>
    BY <2>1 DEF Roll
  <2>3. /\ board' = UpdateLocation(board, p, n) /\ sent' = <<>> /\ event' = event
        /\ sweep' = [at |-> <<p, n>>, packet |-> Append(sweep.packet, LocationEntry(board', <<p, n>>))]
    BY <1>5, <2>2 DEF MoveCharacter, Silent
  <2>4. LocationEntry(board', <<p, n>>) = <<p, n, Place(board', p, n)[1], Place(board', p, n)[2]>>
    BY DEF LocationEntry, Place
  <2>5. /\ SameRolls(board, board')
        /\ \A q \in Ids(board) : \A m \in Roll(board, q) :
             <<q, m>> # <<p, n>> => Place(board', q, m) = Place(board, q, m)
    BY <1>1, <2>3, UpdateLocationMoves
  <2>6. IsStarted(board')
    BY <1>1, <2>3, UpdateLocationSame DEF SameMatch, IsStarted, Roll
  <2>7. Marching(p, n)
    BY <2>3, <2>4, <2>5, <2>6 DEF Marching
  <2>8. p # 0
    BY <1>1 DEF BoardOK, Ids
  <2> QED
    BY <2>3, <2>7, <2>8
<1>6. CASE CrashOnStrayWrite
  BY <1>3, <1>6 DEF CrashOnStrayWrite, Standing, Silent
<1>7. CASE EndSweep
  BY <1>3, <1>7 DEF EndSweep, Reporting, Silent, Broadcast, NoSweep
<1> QED
  BY <1>4, <1>5, <1>6, <1>7

\* The handlers, which see nothing but orders.
LEMMA HandlersStand ==
  ASSUME IInv, IsStarted(board), Orderly,
         NothingToHandle \/ \E a \in Peers : HandleConnect(a) \/ HandleDisconnect(a) \/ HandlePacket(a)
  PROVE  Standing /\ Orderly'
<1>1. BoardOK(board, Peers)
  BY DEF IInv, TypeOK
<1>2. Stayed(board, board)
  BY SamePlayersStay
<1>3. ASSUME NEW e, Handle(e) PROVE Orderly' /\ sweep' = sweep
  BY <1>3 DEF Handle, Orderly, NoEvent
<1>4. CASE NothingToHandle
  BY <1>2, <1>3, <1>4 DEF NothingToHandle, Standing, Silent
<1>5. ASSUME NEW a \in Peers, HandleConnect(a) \/ HandleDisconnect(a) PROVE FALSE
  BY <1>5 DEF HandleConnect, HandleDisconnect, Handle, Orderly, Connected, Departed
<1>6. ASSUME NEW a \in Peers, HandleJoin(a) \/ HandleAskReady(a) \/ HandleOther(a) PROVE FALSE
  BY <1>6 DEF HandleJoin, HandleAskReady, HandleOther, Handle, Orderly, From, Join, AskReady, Other
<1>7. ASSUME NEW a \in Peers, NEW p, HandleReady(a, p) PROVE FALSE
  BY <1>7 DEF HandleReady, Handle, Orderly, From, ReadyMsg, UnreadyMsg
<1>8. ASSUME NEW a \in Peers, NEW p \in KnownIds, NEW t \in DOMAIN Cost, HandleBuy(a, p, t)
      PROVE  Standing /\ Orderly'
  <2>1. Orderly' /\ sweep' = sweep
    BY <1>3, <1>8 DEF HandleBuy
  <2>2. BuyMsg(p, t) \in Packet /\ BuyMsg(p, t)[1] # "L"
    <3>1. p \in Nat
      BY DEF KnownIds
    <3> QED
      BY <3>1 DEF BuyMsg, Packet
  <2>3. \/ board' = board /\ sent' = <<>>
        \/ /\ p \in Ids(board) /\ board' = AddCharacter(board, p, t)
           /\ sent' = <<>> \/ sent' = <<BuyMsg(p, t)>>
    BY <1>8 DEF HandleBuy, Silent, Broadcast
  <2>4. CASE board' = board /\ sent' = <<>>
    BY <1>2, <2>1, <2>4 DEF Standing
  <2>5. CASE p \in Ids(board) /\ board' = AddCharacter(board, p, t)
    <3>1. Stayed(board, board')
      BY <1>1, <2>5, AddCharacterStays
    <3>2. IsStarted(board')
      BY <1>1, <2>5, AddCharacterSame DEF SameMatch, IsStarted
    <3> QED
      BY <2>1, <2>2, <2>3, <3>1, <3>2 DEF Standing
  <2> QED
    BY <2>3, <2>4, <2>5
<1>9. ASSUME NEW a \in Peers, NEW p \in KnownIds, NEW o \in MoveOrders, HandleMove(a, p, o)
      PROVE  Standing /\ Orderly'
  <2>1. Orderly' /\ sweep' = sweep
    BY <1>3, <1>9 DEF HandleMove
  <2>2. o \in Nat \X Tiles /\ o[2] \in Tiles
    BY ServerAssumption
  <2>3. MoveMsg(p, o) \in Packet /\ MoveMsg(p, o)[1] # "L"
    <3>1. p \in Nat
      BY DEF KnownIds
    <3> QED
      BY <2>2, <3>1 DEF MoveMsg, Packet
  <2>4. \/ board' = board /\ sent' = <<>>
        \/ /\ p \in Ids(board) /\ o[1] \in Roll(board, p)
           /\ board' = SetCharacterDest(board, p, o[1], o[2]) /\ sent' = <<MoveMsg(p, o)>>
    BY <1>9 DEF HandleMove, Silent, Broadcast, Finds, Roll
  <2>5. CASE board' = board /\ sent' = <<>>
    BY <1>2, <2>1, <2>5 DEF Standing
  <2>6. CASE /\ p \in Ids(board) /\ o[1] \in Roll(board, p)
             /\ board' = SetCharacterDest(board, p, o[1], o[2]) /\ sent' = <<MoveMsg(p, o)>>
    <3>1. Stayed(board, board')
      BY <1>1, <2>2, <2>6, SetCharacterDestStays
    <3>2. IsStarted(board')
      BY <1>1, <2>2, <2>6, SetCharacterDestSame DEF SameMatch, IsStarted, Roll
    <3> QED
      BY <2>1, <2>3, <2>6, <3>1, <3>2 DEF Standing
  <2> QED
    BY <2>4, <2>5, <2>6
<1>10. ASSUME NEW a \in Peers, NEW p, NEW o, CrashOnMissingCharacter(a, p, o)
       PROVE  Standing /\ Orderly'
  BY <1>2, <1>10 DEF CrashOnMissingCharacter, Standing, Orderly, Silent
<1>11. ASSUME NEW a \in Peers, HandlePacket(a) PROVE Standing /\ Orderly'
  BY <1>6, <1>7, <1>8, <1>9, <1>10, <1>11 DEF HandlePacket
<1> QED
  BY <1>4, <1>5, <1>11

-----------------------------------------------------------------------------
(* The invariant is kept by the server *)

\* A packet that is no report changes nothing for anybody.
LEMMA FollowsPast ==
  ASSUME NEW packets \in Seq(Packet), NEW rows, NEW m \in Packet, m[1] # "L",
         NEW c, NEW was, NEW is, Follows(packets, rows, c, was, is)
  PROVE  Follows(Append(packets, m), rows, c, was, is)
<1>1. Report(m) = <<>> /\ Len(<<>>) = 0
  BY DEF Report
<1>2. ~Told(m, c)
  BY <1>1 DEF Told, Speaks
<1> QED
  BY <1>2, PacketSent DEF Follows

\* The report that was written is under way.
LEMMA FollowsReport ==
  ASSUME NEW packets \in Seq(Packet), NEW rows, NEW m \in Packet, m[1] = "L",
         Len(Entries(m[2])) = Len(rows), \A k \in 1 .. Len(rows) : Entries(m[2])[k] = rows[k],
         NEW c, NEW was, NEW is, Follows(packets, rows, c, was, is)
  PROVE  Follows(Append(packets, m), <<>>, c, was, is)
<1> DEFINE l == Len(rows)
<1>1. /\ Len(Report(m)) = l /\ \A k \in 1 .. l : Report(m)[k] = rows[k]
  BY DEF Report
<1>2. ASSUME NEW j \in 1 .. l PROVE \A i \in j + 1 .. l : i \in 1 .. l
  OBVIOUS
<1> HIDE DEF l
<1>3. Told(m, c) <=> Speaks(rows, l, c)
  BY <1>1 DEF Told, Speaks
<1>4. Leaves(rows, l, c, is) => Tells(m, c, is)
  <2> SUFFICES ASSUME Leaves(rows, l, c, is) PROVE Leaves(Report(m), l, c, is)
    BY <1>1 DEF Tells
  <2>1. PICK j \in 1 .. l : /\ Names(rows[j], c) /\ <<rows[j][3], rows[j][4]>> = is
                            /\ \A i \in j + 1 .. l : ~Names(rows[i], c)
    BY DEF Leaves
  <2>2. \A i \in j + 1 .. l : ~Names(Report(m)[i], c)
    BY <1>1, <1>2, <2>1
  <2>3. Report(m)[j] = rows[j]
    BY <1>1
  <2> QED
    BY <2>1, <2>2, <2>3 DEF Leaves
<1>5. ~Speaks(<<>>, Len(<<>>), c)
  BY DEF Speaks
<1>6. Hears(Append(packets, m), c, was, is)
  BY <1>3, <1>4, PacketSent DEF Follows, l
<1> QED
  BY <1>5, <1>6 DEF Follows

\* What is sent is under way to a client that follows.
LEMMA DownGrows ==
  ASSUME NEW E, Serve(E), garbled = "no", down \in Seq(Packet)
  PROVE  /\ sent' = <<>> => down' = down
         /\ \A m : sent' = <<m>> => down' = Append(down, OnTheWire(m))
<1>1. down' = down \o [k \in DOMAIN sent' |-> OnTheWire(sent'[k])]
  BY DEF Serve
<1>2. ASSUME sent' = <<>> PROVE down' = down
  <2>1. [k \in DOMAIN sent' |-> OnTheWire(sent'[k])] = <<>>
    BY <1>2
  <2> QED
    BY <1>1, <2>1
<1>3. ASSUME NEW m, sent' = <<m>> PROVE down' = Append(down, OnTheWire(m))
  <2> DEFINE w == OnTheWire(m)
  <2>1. DOMAIN sent' = {1} /\ sent'[1] = m
    BY <1>3
  <2>2. [k \in DOMAIN sent' |-> OnTheWire(sent'[k])] = [k \in {1} |-> w]
    BY <2>1
  <2> HIDE DEF w
  <2>3. [k \in {1} |-> w] = <<w>>
    OBVIOUS
  <2>4. down \o <<w>> = Append(down, w)
    OBVIOUS
  <2> QED
    BY <1>1, <2>2, <2>3, <2>4 DEF w
<1> QED
  BY <1>2, <1>3

\* The packets under way after one more.
LEMMA DownOneMore ==
  ASSUME NEW m \in Packet, down \in Seq(Packet), down' = Append(down, m),
         \A i \in DOMAIN down : down[i][1] = "L" => Plain(down[i][2]),
         m[1] = "L" => Plain(m[2])
  PROVE  /\ down' \in Seq(Packet)
         /\ \A i \in DOMAIN down' : down'[i][1] = "L" => Plain(down'[i][2])
         /\ NothingCut' => NothingCut /\ (m[1] = "L" => Whole(m[2]))
<1>1. /\ down' \in Seq(Packet) /\ Len(down) \in Nat
      /\ DOMAIN down = 1 .. Len(down) /\ DOMAIN down' = 1 .. Len(down) + 1
      /\ down'[Len(down) + 1] = m /\ \A i \in 1 .. Len(down) : down'[i] = down[i]
  OBVIOUS
<1>2. /\ Len(down) + 1 \in 1 .. Len(down) + 1
      /\ \A i \in 1 .. Len(down) + 1 : i \in 1 .. Len(down) \/ i = Len(down) + 1
      /\ \A i \in 1 .. Len(down) : i \in 1 .. Len(down) + 1
  BY <1>1
<1>3. \A i \in DOMAIN down' : down'[i][1] = "L" => Plain(down'[i][2])
  BY <1>1, <1>2
<1>4. NothingCut' => NothingCut /\ (m[1] = "L" => Whole(m[2]))
  BY <1>1, <1>2 DEF NothingCut
<1> QED
  BY <1>1, <1>3, <1>4

\* A client that follows keeps its replica, and the server its characters.
LEMMA ReplicaStays ==
  ASSUME ReplicaOK, replica' = replica, Ids(board') = Ids(board),
         \A p \in Ids(board) : Roll(board, p) \subseteq Roll(board', p)
  PROVE  ReplicaOK'
<1>1. Ids(replica) = Ids(board) /\ BoardOK(replica, Peers)
  BY DEF ReplicaOK
<1>2. \A p \in Ids(board') : Roll(replica', p) \subseteq Roll(board', p)
  BY DEF ReplicaOK
<1> QED
  BY <1>1, <1>2 DEF ReplicaOK

\* Everybody stands: what is sent besides is no report, and is heard past.
LEMMA StandingKeeps ==
  ASSUME MarchInv, IInv', Orderly', NEW E, Serve(E), Standing
  PROVE  MarchInv'
<1>1. /\ down \in Seq(Packet) /\ replica' = replica /\ garbled' = garbled
      /\ \A i \in DOMAIN down : down[i][1] = "L" => Plain(down[i][2])
  BY DEF MarchInv, Serve
<1>2. /\ Stayed(board, board') /\ IsStarted(board') /\ sweep'.packet = sweep.packet
      /\ sent' = <<>> \/ \E m \in Packet : m[1] # "L" /\ sent' = <<m>>
  BY DEF Standing
<1>3. \A k \in DOMAIN sweep'.packet : sweep'.packet[k][1] # 0
  BY <1>2 DEF MarchInv
<1>4. CASE garbled # "no"
  <2>1. down' = <<>>
    BY <1>4 DEF Serve
  <2>2. down' \in Seq(Packet) /\ DOMAIN down' = {}
    BY <2>1
  <2> QED
    BY <1>1, <1>2, <1>3, <1>4, <2>2 DEF MarchInv
<1>5. CASE garbled = "no"
  <2>1. \/ down' = down
        \/ \E m \in Packet : m[1] # "L" /\ down' = Append(down, m)
    BY <1>1, <1>2, <1>5, DownGrows DEF OnTheWire
  <2>2. ReplicaOK => ReplicaOK'
    BY <1>1, <1>2, ReplicaStays DEF Stayed
  <2>3. ASSUME ReplicaOK, AllFollow,
               \A c, was, is : Follows(down, sweep.packet, c, was, is)
                                 => Follows(down', sweep.packet, c, was, is)
        PROVE  AllFollow'
    <3> SUFFICES ASSUME NEW p \in Ids(board'), NEW n \in Roll(replica', p)
                 PROVE  Follows(down', sweep'.packet, <<p, n>>, Place(replica', p, n),
                                Place(board', p, n))
      BY DEF AllFollow
    <3>1. p \in Ids(board) /\ n \in Roll(replica, p) /\ n \in Roll(board, p)
      BY <1>1, <1>2, <2>3 DEF Stayed, ReplicaOK
    <3>2. Place(board', p, n) = Place(board, p, n) /\ Place(replica', p, n) = Place(replica, p, n)
      BY <1>1, <1>2, <3>1 DEF Stayed
    <3>3. Follows(down, sweep.packet, <<p, n>>, Place(replica, p, n), Place(board, p, n))
      BY <2>3, <3>1 DEF AllFollow
    <3> QED
      BY <1>2, <2>3, <3>2, <3>3
  <2>4. CASE down' = down
    <3>1. NothingCut' <=> NothingCut
      BY <2>4 DEF NothingCut
    <3>2. ReplicaOK /\ AllFollow => AllFollow'
      BY <2>3, <2>4
    <3> QED
      BY <1>1, <1>2, <1>3, <2>2, <2>4, <3>1, <3>2 DEF MarchInv
  <2>5. ASSUME NEW m \in Packet, m[1] # "L", down' = Append(down, m) PROVE MarchInv'
    <3>1. /\ down' \in Seq(Packet)
          /\ \A i \in DOMAIN down' : down'[i][1] = "L" => Plain(down'[i][2])
          /\ NothingCut' => NothingCut
      BY <1>1, <2>5, DownOneMore
    <3>2. ReplicaOK /\ AllFollow => AllFollow'
      BY <1>1, <2>3, <2>5, FollowsPast
    <3> QED
      BY <1>1, <1>2, <1>3, <2>2, <3>1, <3>2 DEF MarchInv
  <2> QED
    BY <2>1, <2>4, <2>5
<1> QED
  BY <1>4, <1>5

\* A character moves: the report that is being written speaks of it.
LEMMA MarchingKeeps ==
  ASSUME MarchInv, IInv', Orderly', NEW E, Serve(E),
         NEW p \in Ids(board), NEW n \in Roll(board, p), p # 0, Marching(p, n)
  PROVE  MarchInv'
<1> DEFINE at   == Place(board', p, n)
           row  == <<p, n, at[1], at[2]>>
           rows == sweep.packet
<1>1. /\ down \in Seq(Packet) /\ replica' = replica /\ garbled' = garbled
      /\ \A i \in DOMAIN down : down[i][1] = "L" => Plain(down[i][2])
      /\ \A k \in DOMAIN rows : rows[k][1] # 0
  BY DEF MarchInv, Serve
<1>2. /\ SameRolls(board, board') /\ IsStarted(board') /\ sent' = <<>>
      /\ \A q \in Ids(board) : \A m \in Roll(board, q) :
           <<q, m>> # <<p, n>> => Place(board', q, m) = Place(board, q, m)
      /\ sweep'.packet = Append(rows, row)
  BY DEF Marching
<1>3. rows \in Seq(Location) /\ BoardOK(board, Peers) /\ BoardOK(board', Peers)
  BY DEF MarchInv, IInv, TypeOK
<1>4. p \in Nat /\ n \in Nat /\ at \in Tiles
  <2>1. p \in Ids(board') /\ n \in DOMAIN board'.players[p].army
    BY <1>2 DEF SameRolls, Roll
  <2>2. p \in Nat /\ PlayerOK(board'.players[p], Peers)
    BY <1>3, <2>1 DEF BoardOK, Ids
  <2>3. /\ DOMAIN board'.players[p].army \subseteq 1 .. board'.players[p].armyCount
        /\ board'.players[p].armyCount \in Nat
        /\ board'.players[p].army \in [DOMAIN board'.players[p].army -> Character]
    BY <2>2 DEF PlayerOK
  <2>4. board'.players[p].army[n] \in Character
    BY <2>1, <2>3
  <2> QED
    BY <2>1, <2>2, <2>3, <2>4 DEF Character, Place
<1>5. row \in Location /\ <<row[3], row[4]>> = at /\ row[1] = p /\ row[2] = n
  BY <1>4 DEF Location, Tiles
<1> HIDE DEF at, row, rows
<1>6. \A k \in DOMAIN sweep'.packet : sweep'.packet[k][1] # 0
  <2>1. \A k \in DOMAIN Append(rows, row) : k \in DOMAIN rows \/ Append(rows, row)[k] = row
    BY <1>3, <1>5
  <2>2. \A k \in DOMAIN rows : Append(rows, row)[k] = rows[k]
    BY <1>3, <1>5
  <2> QED
    BY <1>1, <1>2, <1>5, <2>1, <2>2
<1>7. /\ down' \in Seq(Packet)
      /\ \A i \in DOMAIN down' : down'[i][1] = "L" => Plain(down'[i][2])
      /\ garbled = "no" => down' = down
  <2>1. garbled # "no" => down' = <<>>
    BY DEF Serve
  <2>2. garbled = "no" => down' = down
    BY <1>1, <1>2, DownGrows
  <2>3. <<>> \in Seq(Packet) /\ DOMAIN <<>> = {}
    OBVIOUS
  <2> QED
    BY <1>1, <2>1, <2>2, <2>3
<1>8. ASSUME garbled' = "no", NothingCut' PROVE ReplicaOK' /\ AllFollow'
  <2>1. down' = down /\ NothingCut
    BY <1>1, <1>7, <1>8 DEF NothingCut
  <2>2. ReplicaOK /\ AllFollow
    BY <1>1, <1>8, <2>1 DEF MarchInv
  <2>3. ReplicaOK'
    BY <1>1, <1>2, <2>2, ReplicaStays DEF SameRolls
  <2>4. ASSUME NEW q \in Ids(board'), NEW m \in Roll(replica', q)
        PROVE  Follows(down', sweep'.packet, <<q, m>>, Place(replica', q, m), Place(board', q, m))
    <3>1. q \in Ids(board) /\ m \in Roll(replica, q) /\ m \in Roll(board, q)
      BY <1>1, <1>2, <2>2, <2>4 DEF SameRolls, ReplicaOK
    <3>2. Follows(down, rows, <<q, m>>, Place(replica, q, m), Place(board, q, m))
      BY <2>2, <3>1 DEF AllFollow, rows
    <3> DEFINE c == <<q, m>>
    <3>3. CASE q = p /\ m = n
      <4>1. Names(row, c) /\ Place(board', q, m) = at
        BY <1>5, <3>3 DEF Names, at
      <4> HIDE DEF c
      <4>2. Follows(down, Append(rows, row), c, Place(replica, q, m), Place(board', q, m))
        BY <1>3, <1>5, <4>1, RowWritten
      <4> QED
        BY <1>1, <1>2, <2>1, <4>2 DEF c
    <3>4. CASE ~(q = p /\ m = n)
      <4>1. ~Names(row, c) /\ c # <<p, n>>
        BY <1>5, <3>4 DEF Names
      <4>2. Place(board', q, m) = Place(board, q, m)
        BY <1>2, <3>1, <4>1
      <4> HIDE DEF c
      <4>3. Follows(down, Append(rows, row), c, Place(replica, q, m), Place(board, q, m))
        BY <1>3, <1>5, <3>2, <4>1, RowWritten DEF c
      <4> QED
        BY <1>1, <1>2, <2>1, <4>2, <4>3 DEF c
    <3> QED
      BY <3>3, <3>4
  <2>5. AllFollow'
    BY <2>4 DEF AllFollow
  <2> QED
    BY <2>3, <2>5
<1> QED
  BY <1>1, <1>2, <1>6, <1>7, <1>8 DEF MarchInv

\* The report is sent: it is the last one under way.
LEMMA ReportingKeeps ==
  ASSUME MarchInv, IInv', Orderly', NEW E, Serve(E), Reporting
  PROVE  MarchInv'
<1> DEFINE rows == sweep.packet
           w    == <<"L", AsString(Bytes(rows))>>
<1>1. /\ down \in Seq(Packet) /\ replica' = replica /\ garbled' = garbled
      /\ \A i \in DOMAIN down : down[i][1] = "L" => Plain(down[i][2])
      /\ \A k \in DOMAIN rows : rows[k][1] # 0
  BY DEF MarchInv, Serve
<1>2. /\ Stayed(board, board') /\ IsStarted(board') /\ sweep'.packet = <<>>
      /\ rows = <<>> => sent' = <<>>
      /\ rows # <<>> => sent' = <<<<"L", rows>>>>
  BY DEF Reporting
<1>3. rows \in Seq(Location)
  BY DEF MarchInv, IInv, TypeOK
<1>4. OnTheWire(<<"L", rows>>) = w
  BY DEF OnTheWire
<1>5. /\ w[2] \in Seq(Nat) /\ Plain(w[2]) /\ w[1] = "L"
      /\ Whole(w[2]) => /\ Len(Entries(w[2])) = Len(rows)
                        /\ \A k \in 1 .. Len(rows) : Entries(w[2])[k] = rows[k]
  BY <1>1, <1>3, ReportWritten
<1>6. w \in Packet
  BY <1>5 DEF Packet
<1> HIDE DEF w, rows
<1>7. /\ garbled # "no" => down' = <<>>
      /\ garbled = "no" /\ rows = <<>> => down' = down
      /\ garbled = "no" /\ rows # <<>> => down' = Append(down, w)
  <2>1. garbled # "no" => down' = <<>>
    BY DEF Serve
  <2> QED
    BY <1>1, <1>2, <1>4, <2>1, DownGrows
<1>8. <<>> \in Seq(Packet) /\ DOMAIN <<>> = {}
  OBVIOUS
<1>9. /\ down' \in Seq(Packet)
      /\ \A i \in DOMAIN down' : down'[i][1] = "L" => Plain(down'[i][2])
      /\ garbled = "no" /\ NothingCut' => NothingCut
      /\ garbled = "no" /\ NothingCut' /\ rows # <<>> => Whole(w[2])
  <2>1. CASE garbled # "no"
    BY <1>7, <1>8, <2>1
  <2>2. CASE garbled = "no" /\ rows = <<>>
    BY <1>1, <1>7, <2>2 DEF NothingCut
  <2>3. CASE garbled = "no" /\ rows # <<>>
    BY <1>1, <1>5, <1>6, <1>7, <2>3, DownOneMore
  <2> QED
    BY <2>1, <2>2, <2>3
<1>10. ASSUME garbled' = "no", NothingCut' PROVE ReplicaOK' /\ AllFollow'
  <2>1. garbled = "no" /\ NothingCut /\ ReplicaOK /\ AllFollow
    BY <1>1, <1>9, <1>10 DEF MarchInv
  <2>2. ReplicaOK'
    BY <1>1, <1>2, <2>1, ReplicaStays DEF Stayed
  <2>3. ASSUME NEW c, NEW was, NEW is, Follows(down, rows, c, was, is)
        PROVE  Follows(down', <<>>, c, was, is)
    <3>1. CASE rows = <<>>
      BY <1>7, <2>1, <2>3, <3>1
    <3>2. CASE rows # <<>>
      BY <1>1, <1>5, <1>6, <1>7, <1>9, <1>10, <2>1, <2>3, <3>2, FollowsReport
    <3> QED
      BY <3>1, <3>2
  <2>4. ASSUME NEW q \in Ids(board'), NEW m \in Roll(replica', q)
        PROVE  Follows(down', sweep'.packet, <<q, m>>, Place(replica', q, m), Place(board', q, m))
    <3>1. q \in Ids(board) /\ m \in Roll(replica, q) /\ m \in Roll(board, q)
      BY <1>1, <1>2, <2>1, <2>4 DEF Stayed, ReplicaOK
    <3>2. Follows(down, rows, <<q, m>>, Place(replica, q, m), Place(board, q, m))
      BY <2>1, <3>1 DEF AllFollow, rows
    <3>3. Place(board', q, m) = Place(board, q, m) /\ Place(replica', q, m) = Place(replica, q, m)
      BY <1>1, <1>2, <3>1 DEF Stayed
    <3> QED
      BY <1>2, <2>3, <3>2, <3>3
  <2>5. AllFollow'
    BY <2>4 DEF AllFollow
  <2> QED
    BY <2>2, <2>5
<1>11. \A k \in DOMAIN sweep'.packet : sweep'.packet[k][1] # 0
  BY <1>2, <1>8
<1> QED
  BY <1>1, <1>2, <1>9, <1>10, <1>11 DEF MarchInv

\* A step of the server.
LEMMA ServeKeeps ==
  ASSUME MarchInv, Serve(MarchEvents)
  PROVE  MarchInv'
<1>1. IInv /\ IsStarted(board) /\ Orderly
  BY DEF MarchInv
<1>2. FinishTurn \/ TimedEvent(MarchEvents)
  BY DEF Serve
<1>3. CASE TimedEvent(MarchEvents)
  <2>1. Standing /\ Orderly' /\ TimedEvent(Arrivals)
    BY <1>1, <1>3, TimedEventStands
  <2>2. IInv'
    BY <1>1, <2>1, StepSafe DEF Next, ServerStep
  <2> QED
    BY <2>1, <2>2, StandingKeeps
<1>4. CASE FinishTurn
  <2>1. IInv'
    BY <1>1, <1>4, StepSafe DEF Next, ServerStep
  <2>2. CASE SkipCharacter \/ MoveCharacter \/ CrashOnStrayWrite \/ EndSweep
    <3>1. /\ event' = event
          /\ \/ Standing \/ Reporting
             \/ \E p \in Ids(board) : \E n \in Roll(board, p) : p # 0 /\ Marching(p, n)
      BY <1>1, <2>2, SweepMarches
    <3>2. Orderly'
      BY <1>1, <3>1 DEF Orderly
    <3> QED
      BY <2>1, <3>1, <3>2, StandingKeeps, ReportingKeeps, MarchingKeeps
  <2>3. CASE NothingToHandle \/ \E a \in Peers : HandleConnect(a) \/ HandleDisconnect(a) \/ HandlePacket(a)
    <3>1. Standing /\ Orderly'
      BY <1>1, <2>3, HandlersStand
    <3> QED
      BY <2>1, <3>1, StandingKeeps
  <2> QED
    BY <1>4, <2>2, <2>3 DEF FinishTurn
<1> QED
  BY <1>2, <1>3, <1>4

-----------------------------------------------------------------------------
(* The invariant is kept by the client *)

\* The replica after a packet m: whoever it speaks of is where it says, the
\* others are where they were.
Moved(b, c, m) ==
  /\ BoardOK(c, Peers) /\ SameRolls(b, c)
  /\ \A p \in Ids(b) : \A n \in Roll(b, p) :
       /\ ~Told(m, <<p, n>>) => Place(c, p, n) = Place(b, p, n)
       /\ \A xy : Tells(m, <<p, n>>, xy) => Place(c, p, n) = xy

\* A packet is taken that leaves everybody where it says.
LEMMA HeardKeeps ==
  ASSUME MarchInv, UNCHANGED vars, garbled' = garbled, down # <<>>, down' = Tail(down),
         Head(down)[1] = "L" => Whole(Head(down)[2]),
         ReplicaOK => Moved(replica, replica', Head(down))
  PROVE  MarchInv'
<1>1. /\ down \in Seq(Packet)
      /\ \A i \in DOMAIN down : down[i][1] = "L" => Plain(down[i][2])
  BY DEF MarchInv
<1>2. /\ IInv' /\ IsStarted(board)' /\ Orderly' /\ board' = board /\ sweep' = sweep
      /\ \A k \in DOMAIN sweep'.packet : sweep'.packet[k][1] # 0
  <2>1. IInv'
    BY StepSafe DEF MarchInv
  <2> QED
    BY <2>1 DEF MarchInv, vars, Orderly
<1>3. /\ down' \in Seq(Packet) /\ Len(down) \in Nat \ {0} /\ Head(down) = down[1]
      /\ DOMAIN down = 1 .. Len(down) /\ DOMAIN down' = 1 .. Len(down) - 1
      /\ \A i \in 1 .. Len(down) - 1 : down'[i] = down[i + 1]
  BY <1>1
<1>4. \A i \in 1 .. Len(down) - 1 : i + 1 \in 1 .. Len(down)
  BY <1>3
<1>5. \A i \in DOMAIN down' : down'[i][1] = "L" => Plain(down'[i][2])
  BY <1>1, <1>3, <1>4
<1>6. NothingCut' => NothingCut
  <2> SUFFICES ASSUME NothingCut', NEW i \in 1 .. Len(down), down[i][1] = "L"
               PROVE  Whole(down[i][2])
    BY <1>3 DEF NothingCut
  <2>1. CASE i = 1
    BY <1>3, <2>1
  <2>2. CASE i # 1
    <3>1. i - 1 \in 1 .. Len(down) - 1 /\ (i - 1) + 1 = i
      BY <1>3, <2>2
    <3>2. down'[i - 1] = down[i]
      BY <1>3, <3>1
    <3> QED
      BY <1>3, <3>1, <3>2 DEF NothingCut
  <2> QED
    BY <2>1, <2>2
<1>7. ASSUME garbled' = "no", NothingCut' PROVE ReplicaOK' /\ AllFollow'
  <2>1. ReplicaOK /\ AllFollow
    BY <1>6, <1>7 DEF MarchInv
  <2>2. /\ BoardOK(replica', Peers) /\ Ids(replica') = Ids(replica)
        /\ \A p \in Ids(replica) : Roll(replica', p) = Roll(replica, p)
        /\ \A p \in Ids(replica) : \A n \in Roll(replica, p) :
             /\ ~Told(Head(down), <<p, n>>) => Place(replica', p, n) = Place(replica, p, n)
             /\ \A xy : Tells(Head(down), <<p, n>>, xy) => Place(replica', p, n) = xy
    BY <2>1 DEF Moved, SameRolls
  <2>3. ReplicaOK'
    BY <1>2, <2>1, <2>2 DEF ReplicaOK
  <2>4. ASSUME NEW p \in Ids(board'), NEW n \in Roll(replica', p)
        PROVE  Follows(down', sweep'.packet, <<p, n>>, Place(replica', p, n), Place(board', p, n))
    <3> DEFINE c   == <<p, n>>
               was == Place(replica, p, n)
               is  == Place(board, p, n)
               now == Place(replica', p, n)
    <3>1. p \in Ids(board) /\ p \in Ids(replica) /\ n \in Roll(replica, p)
      BY <1>2, <2>1, <2>2, <2>4 DEF ReplicaOK
    <3>2. Follows(down, sweep.packet, c, was, is)
      BY <2>1, <3>1 DEF AllFollow
    <3>3. /\ ~Told(Head(down), c) => now = was
          /\ Tells(Head(down), c, is) => now = is
      BY <2>2, <3>1
    <3> HIDE DEF c, was, is, now
    <3>4. Hears(down, c, was, is) => Hears(down', c, now, is)
      BY <1>1, <3>3, PacketHeard
    <3>5. Follows(down', sweep.packet, c, now, is)
      BY <3>2, <3>4 DEF Follows
    <3> QED
      BY <1>2, <3>5 DEF c, is, now
  <2>5. AllFollow'
    BY <2>4 DEF AllFollow
  <2> QED
    BY <2>3, <2>5
<1> QED
  BY <1>2, <1>3, <1>5, <1>7 DEF MarchInv

\* A packet that is no report is heard with everybody in place.
LEMMA HeardInPlace ==
  ASSUME NEW b, NEW c, NEW m, m[1] # "L", BoardOK(c, Peers), SameRolls(b, c), Stayed(b, c)
  PROVE  Moved(b, c, m)
<1>1. Report(m) = <<>> /\ Len(<<>>) = 0
  BY DEF Report
<1>2. \A e, xy : ~Tells(m, e, xy)
  BY <1>1 DEF Tells, Leaves
<1> QED
  BY <1>2 DEF Moved, Stayed

\* The packet that is heard is one of those that may be sent.
LEMMA FirstPacket ==
  ASSUME down \in Seq(Packet), down # <<>>
  PROVE  /\ Head(down) \in Packet
         /\ Head(down)[1] = "L" => Head(down)[2] \in Seq(Nat)
         /\ Head(down)[1] = "GM" => Head(down)[3][2] \in Tiles
         /\ Head(down) = down[1] /\ 1 \in DOMAIN down
<1>1. Head(down) \in Packet /\ Head(down) = down[1] /\ 1 \in DOMAIN down
  OBVIOUS
<1>2. ASSUME NEW m \in Packet
      PROVE  /\ m[1] = "L" => m[2] \in Seq(Nat)
             /\ m[1] = "GM" => m[3][2] \in Tiles
  <2>1. CASE m \in {"L"} \X Seq(Nat)
    BY <2>1
  <2>2. CASE m \in {"GM"} \X Nat \X (Nat \X Tiles)
    BY <2>2
  <2>3. CASE m \in {"GB"} \X Nat \X DOMAIN Cost
    BY <2>3
  <2>4. CASE m \in {<<"TH">>, <<"W">>}
    BY <2>4
  <2> QED
    BY <2>1, <2>2, <2>3, <2>4 DEF Packet
<1> QED
  BY <1>1, <1>2

\* updateLocationsOnClient, from a packet that is whole.
LEMMA HearLocationsKeeps ==
  ASSUME MarchInv, HearLocations
  PROVE  MarchInv'
<1> DEFINE packet == Head(down)[2]
           read   == UpdateLocationsOnClient(replica, packet, <<>>)
<1>1. /\ down # <<>> /\ Head(down)[1] = "L" /\ Whole(packet) /\ read.as = "done"
      /\ replica' = read.board /\ down' = Tail(down) /\ UNCHANGED vars /\ garbled' = garbled
  BY DEF HearLocations, Heard, Takes
<1>2. packet \in Seq(Nat) /\ Plain(packet)
  BY <1>1, FirstPacket DEF MarchInv
<1>3. Report(Head(down)) = Entries(packet)
  BY <1>1 DEF Report
<1>4. ASSUME ReplicaOK PROVE Moved(replica, replica', Head(down))
  <2>1. BoardOK(replica, Peers)
    BY <1>4 DEF ReplicaOK
  <2> HIDE DEF packet
  <2>2. ReadOff(replica, Peers, read.board, Entries(packet), Len(Entries(packet)))
    BY <1>1, <1>2, <2>1, WholeIsRead
  <2> HIDE DEF read
  <2> QED
    BY <1>1, <1>3, <2>2 DEF ReadOff, Moved, Told, Tells
<1> QED
  BY <1>1, <1>4, HeardKeeps

\* A sequence over a set is one over any wider set.
LEMMA WiderSeq ==
  ASSUME NEW S, NEW T, S \subseteq T
  PROVE  Seq(S) \subseteq Seq(T)
<1> SUFFICES ASSUME NEW s \in Seq(S) PROVE s \in Seq(T)
  OBVIOUS
<1>1. Len(s) \in Nat /\ s \in [1 .. Len(s) -> S]
  OBVIOUS
<1>2. s \in [1 .. Len(s) -> T]
  BY <1>1
<1> QED
  BY <1>1, <1>2

\* updateLocationsOnClient, from any other: the client is not followed further.
LEMMA HearGarbageKeeps ==
  ASSUME MarchInv, HearGarbage
  PROVE  MarchInv'
<1>1. /\ down # <<>> /\ Head(down)[1] = "L" /\ down' = <<>> /\ UNCHANGED vars
      /\ \E behind \in Behind :
           garbled' = UpdateLocationsOnClient(replica, Head(down)[2], behind).as
  BY DEF HearGarbage, Heard
<1>2. Head(down)[2] \in Seq(Nat)
  BY <1>1, FirstPacket DEF MarchInv
<1>3. \A behind \in Behind : behind \in Seq(Nat)
  <2>1. Seq(0 .. 255) \subseteq Seq(Nat)
    <3> DEFINE bytes == 0 .. 255
    <3>1. bytes \subseteq Nat
      OBVIOUS
    <3> HIDE DEF bytes
    <3>2. Seq(bytes) \subseteq Seq(Nat)
      BY <3>1, WiderSeq
    <3> QED
      BY <3>2 DEF bytes
  <2> QED
    BY <2>1, MarchAssumption
<1>4. garbled' # "no"
  BY <1>1, <1>2, <1>3, GarbageIsNoticed
<1>5. /\ IInv' /\ IsStarted(board)' /\ Orderly'
      /\ \A k \in DOMAIN sweep'.packet : sweep'.packet[k][1] # 0
  <2>1. IInv'
    BY <1>1, StepSafe DEF MarchInv
  <2> QED
    BY <1>1, <2>1 DEF MarchInv, vars, Orderly
<1>6. down' \in Seq(Packet) /\ DOMAIN down' = {}
  BY <1>1
<1> QED
  BY <1>4, <1>5, <1>6 DEF MarchInv

\* The handlers of the other packets.
LEMMA HearOthersKeep ==
  ASSUME MarchInv, HearOrder \/ HearNews
  PROVE  MarchInv'
<1> DEFINE m == Head(down)
<1>1. down \in Seq(Packet)
  BY DEF MarchInv
<1>2. /\ down # <<>> /\ m[1] # "L" /\ down' = Tail(down) /\ UNCHANGED vars /\ garbled' = garbled
  BY DEF HearOrder, HearNews, Heard, Takes
<1>3. \/ replica' = replica \/ replica' = IncHexBank(replica)
      \/ /\ m[1] = "GM" /\ Known(replica, m[2], m[3][1])
         /\ replica' = SetCharacterDest(replica, m[2], m[3][1], m[3][2])
  BY DEF HearOrder, HearNews, Heard, Takes
<1>4. m[1] = "GM" => m[3][2] \in Tiles
  BY <1>1, <1>2, FirstPacket
<1> HIDE DEF m
<1>5. ASSUME ReplicaOK PROVE Moved(replica, replica', m)
  <2>1. BoardOK(replica, Peers)
    BY <1>5 DEF ReplicaOK
  <2>2. CASE replica' = replica
    BY <1>2, <2>1, <2>2, SamePlayersStay, HeardInPlace
  <2>3. CASE replica' = IncHexBank(replica)
    <3>1. BoardOK(IncHexBank(replica), Peers)
      BY <2>1, IncHexBankOK
    <3> QED
      BY <1>2, <2>1, <2>3, <3>1, IncHexBankStays, HeardInPlace
  <2>4. CASE /\ m[1] = "GM" /\ Known(replica, m[2], m[3][1])
             /\ replica' = SetCharacterDest(replica, m[2], m[3][1], m[3][2])
    <3>1. m[2] \in Ids(replica) /\ m[3][1] \in Roll(replica, m[2]) /\ m[3][2] \in Tiles
      BY <1>4, <2>4 DEF Known, Roll
    <3>2. BoardOK(SetCharacterDest(replica, m[2], m[3][1], m[3][2]), Peers)
      BY <2>1, <3>1, SetCharacterDestOK DEF Roll
    <3> QED
      BY <1>2, <2>1, <2>4, <3>1, <3>2, SetCharacterDestStays, HeardInPlace
  <2> QED
    BY <1>3, <2>2, <2>3, <2>4
<1> QED
  BY <1>2, <1>5, HeardKeeps DEF m

-----------------------------------------------------------------------------
(* The theorem *)

\* A client that stands where the server does follows it.
LEMMA MarchBegins == MarchInit => MarchInv
<1> SUFFICES ASSUME MarchInit PROVE MarchInv
  OBVIOUS
<1>1. /\ IInv /\ IsStarted(board) /\ stage = "service"
      /\ replica = board /\ down = <<>> /\ garbled = "no"
  BY DEF MarchInit
<1>2. event = NoEvent /\ sweep = NoSweep /\ BoardOK(board, Peers)
  BY <1>1 DEF IInv, TurnOK, TypeOK
<1>3. sweep.packet = <<>> /\ Orderly /\ down \in Seq(Packet) /\ DOMAIN down = {} /\ Len(<<>>) = 0
  BY <1>1, <1>2 DEF NoSweep, Orderly, NoEvent
<1>4. ReplicaOK
  BY <1>1, <1>2 DEF ReplicaOK
<1>5. \A c, is : Follows(down, sweep.packet, c, is, is)
  BY <1>3 DEF Follows, Speaks, Hears
<1>6. AllFollow
  BY <1>1, <1>5 DEF AllFollow
<1> QED
  BY <1>1, <1>3, <1>4, <1>6 DEF MarchInv

\* Every step keeps it.
LEMMA MarchKept == MarchInv /\ [MarchNext(MarchEvents)]_marchVars => MarchInv'
<1> SUFFICES ASSUME MarchInv, [MarchNext(MarchEvents)]_marchVars PROVE MarchInv'
  OBVIOUS
<1>1. CASE Serve(MarchEvents)
  BY <1>1, ServeKeeps
<1>2. CASE HearLocations
  BY <1>2, HearLocationsKeeps
<1>3. CASE HearGarbage
  BY <1>3, HearGarbageKeeps
<1>4. CASE HearOrder \/ HearNews
  BY <1>4, HearOthersKeep
<1>5. ASSUME UNCHANGED <<vars, replica, down, garbled>> PROVE MarchInv'
  <2>1. IInv'
    BY <1>5, StepSafe DEF MarchInv
  <2> QED
    BY <1>5, <2>1 DEF MarchInv, vars, Orderly, NothingCut, ReplicaOK, AllFollow
<1> QED
  BY <1>1, <1>2, <1>3, <1>4, <1>5 DEF MarchNext, Dead, marchVars

\* Once everything has arrived, a client to which no report came cut, and that
\* knows every character that moved, sees everybody where the server has them
\* (updateCharacterLocation and updateLocationsOnClient).
THEOREM ReportsFollow == MarchSpec => []PositionsFollow
<1>1. MarchInv => PositionsFollow
  <2> SUFFICES ASSUME MarchInv, stage = "service", down = <<>>, garbled = "no",
                      NEW p \in Ids(board), NEW n \in Roll(replica, p)
               PROVE  Place(replica, p, n) = Place(board, p, n)
    BY DEF PositionsFollow, Quiet, Roll, Place
  <2>1. sweep.packet = <<>> /\ Len(<<>>) = 0 /\ DOMAIN down = {}
    BY DEF MarchInv, IInv, TurnOK, NoSweep
  <2>2. NothingCut
    BY <2>1 DEF NothingCut
  <2>3. Follows(down, sweep.packet, <<p, n>>, Place(replica, p, n), Place(board, p, n))
    BY <2>2 DEF MarchInv, AllFollow
  <2> QED
    BY <2>1, <2>3 DEF Follows, Leaves, Hears
<1> QED
  BY <1>1, MarchBegins, MarchKept, PTL DEF MarchSpec
=============================================================================
