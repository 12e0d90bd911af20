------------------------------ MODULE TileBoard ------------------------------
(***************************************************************************)
(* The game board of src/src/game (TileBoard, Player and Character): a     *)
(* value, and the operations the server and every client apply to their    *)
(* own copy of it.  The operators keep the names of the C++ methods.       *)
(*                                                                         *)
(* A board is a record                                                     *)
(*   phase       "lobby" (startTime = -1), "playing" (> 0), "ended" (0)    *)
(*   lastPlayer  the last PlayerID given out                               *)
(*   players     PlayerID -> Player, for the players in the vector: ids    *)
(*               are given in ascending order and appended, so the order   *)
(*               of the vector is the order of the ids                     *)
(*   tiles       coordinate -> the Character the tile points to, or Empty  *)
(* and a Character is named by its player and its number <<p, n>>: the     *)
(* number is the value of armyCount when it was created, and the order of  *)
(* the army vector is the order of the numbers.  getId() is the number     *)
(* modulo 1000: the board is modelled up to the first 999 characters of a  *)
(* player, so the id is the number.                                        *)
(***************************************************************************)
EXTENDS Integers, FiniteSets

CONSTANTS Size,        \* side of the board (10 in initBoard's only caller)
          MaxPlayers,  \* MAX_PLAYERS (4)
          MaxArmy,     \* Player::maxArmy (10)
          Cost         \* cost of each type that can be bought (attributes.xml)

\* Four starting armies of four characters do not overlap, and fit an army.
ASSUME BoardAssumption ==
  /\ Size \in Nat /\ Size >= 4
  /\ MaxPlayers \in Nat
  /\ MaxArmy \in Nat /\ MaxArmy >= 4
  /\ \A t \in DOMAIN Cost : Cost[t] \in Nat \ {0}

Tiles   == (0 .. Size - 1) \X (0 .. Size - 1)
Nowhere == <<-1, -1>>          \* coord()
Empty   == <<0, 0>>            \* a NULL tile
NoPlayer == 0                  \* a NULL Player*
NoArmy  == [n \in {} |-> Nowhere]

EmptyBoard == [phase      |-> "lobby",
               lastPlayer |-> 0,
               players    |-> [p \in {} |-> 0],
               tiles      |-> [t \in Tiles |-> Empty]]

-----------------------------------------------------------------------------
(* Types *)

Coords    == Tiles \cup {Nowhere}
Character == [at : Tiles, dest : Coords]

PlayerOK(pl, Addresses) ==
  /\ pl \in [address : Addresses, index : Nat, ready : BOOLEAN, hexbank : Nat,
             armyCount : Nat, king : {"none", "alive", "dead"},
             army : [DOMAIN pl.army -> Character]]
  /\ DOMAIN pl.army \subseteq 1 .. pl.armyCount

BoardOK(b, Addresses) ==
  /\ b \in [phase : {"lobby", "playing", "ended"}, lastPlayer : Nat,
            players : [DOMAIN b.players -> {b.players[p] : p \in DOMAIN b.players}],
            tiles : [Tiles -> Nat \X Nat]]
  /\ DOMAIN b.players \subseteq 1 .. b.lastPlayer
  /\ \A p \in DOMAIN b.players : PlayerOK(b.players[p], Addresses)

-----------------------------------------------------------------------------
(* Players *)

NewPlayer(a, i) == [address |-> a, index |-> i, ready |-> FALSE, hexbank |-> 0,
                    armyCount |-> 0, king |-> "none", army |-> NoArmy]

Ids(b) == DOMAIN b.players

AddPlayer(b, a) ==
  LET id == b.lastPlayer + 1
      i  == Cardinality(Ids(b) \cup {id})
  IN [b EXCEPT !.lastPlayer = id,
               !.players = [p \in Ids(b) \cup {id} |->
                              IF p = id THEN NewPlayer(a, i) ELSE b.players[p]]]

\* Mutated RemovePlayer: the id of the removed player is given back.
RemoveAndReuse(b, id) ==
  [b EXCEPT !.players = [p \in Ids(b) \ {id} |-> b.players[p]], !.lastPlayer = @ - 1]

\* The players behind the removed one move up in the vector; their index stays.
RemovePlayer(b, id) ==
  [b EXCEPT !.players = [p \in Ids(b) \ {id} |-> b.players[p]]]

\* The first player with that address, NoPlayer if there is none.
GetPlayerByAddress(b, a) ==
  LET S == {p \in Ids(b) : b.players[p].address = a}
  IN IF S = {} THEN NoPlayer ELSE CHOOSE p \in S : \A q \in S : p <= q

SetReady(b, p, r) == [b EXCEPT !.players[p].ready = r]

IsDefeated(pl)      == pl.king # "alive"
IsStarted(b)        == b.phase # "lobby"
IsFull(b)           == Cardinality(Ids(b)) >= MaxPlayers
GetReadyPlayers(b)  == {p \in Ids(b) : b.players[p].ready}
GetGamePlayers(b)   == {p \in Ids(b) : ~IsDefeated(b.players[p])}
\* Mutated IsWinner: counts the players, not the players still in the game.
IsWinnerOfAll(b)    == \E p \in Ids(b) : Ids(b) = {p}
IsWinner(b)         == \E p \in Ids(b) : GetGamePlayers(b) = {p}

\* isDefeated(true): kingChar->kill().  The king must exist.
Defeat(b, p) == [b EXCEPT !.players[p].king = "dead"]

IncHexBank(b) ==
  [b EXCEPT !.players = [p \in Ids(b) |-> [b.players[p] EXCEPT !.hexbank = @ + 1]]]

-----------------------------------------------------------------------------
(* Armies and tiles *)

GetSpawnX(i) == IF i \in {1, 3} THEN 0 ELSE Size - 1
\* Mutated GetSpawnY: the corners of the other coordinate.
GetSpawnYAsX(i) == IF i \in {1, 3} THEN 0 ELSE Size - 1
GetSpawnY(i) == IF i \in {1, 4} THEN 0 ELSE Size - 1
Spawn(i)     == <<GetSpawnX(i), GetSpawnY(i)>>

\* The tile of the k-th character initializeArmy creates: the king in the
\* corner, then three soldiers around it.
SquadTile(i, k) ==
  LET inX == IF GetSpawnX(i) = 0 THEN 1 ELSE Size - 2
      inY == IF GetSpawnY(i) = 0 THEN 1 ELSE Size - 2
  IN <<IF k \in {3, 4} THEN inX ELSE GetSpawnX(i),
       IF k \in {2, 4} THEN inY ELSE GetSpawnY(i)>>

\* initializeArmy(p).  Armies are empty and kings unset when it runs (the
\* invariant NothingBeforeStart of the server), so addArmy cannot refuse.
Mobilised(pl) ==
  LET new == pl.armyCount + 1 .. pl.armyCount + 4
  IN [pl EXCEPT !.armyCount = @ + 4,
                !.king      = "alive",
                !.army      = [n \in new |-> [at   |-> SquadTile(pl.index, n - pl.armyCount),
                                              dest |-> Nowhere]]]

\* Who stands on tile t once every army is placed: where two players were
\* given the same corner, the one placed last.
Occupant(players, t) ==
  LET on   == {c \in (DOMAIN players) \X (1 .. 4) :
                  SquadTile(players[c[1]].index, c[2]) = t}
      last == CHOOSE c \in on : \A d \in on : d[1] <= c[1]
  IN IF on = {} THEN Empty ELSE <<last[1], players[last[1]].armyCount + last[2]>>

StartBoard(b) ==
  IF b.phase = "lobby"
  THEN [b EXCEPT !.phase   = "playing",
                 !.players = [p \in Ids(b) |-> Mobilised(b.players[p])],
                 !.tiles   = [t \in Tiles |-> Occupant(b.players, t)]]
  ELSE b

EndBoard(b) == IF b.phase = "playing" THEN [b EXCEPT !.phase = "ended"] ELSE b

CheckEmpty(b, xy) == b.tiles[xy] = Empty

\* Mutated BuyRefused: the bank is not looked at.
BuyRefusedWhenFull(pl, t) == Cardinality(DOMAIN pl.army) = MaxArmy

\* addArmy(t, true) fails: the bank is short, or the army is at its maximum.
BuyRefused(pl, t) == pl.hexbank < Cost[t] \/ Cardinality(DOMAIN pl.army) = MaxArmy

\* The army with a character n placed on tile xy.
Enlist(army, n, xy) ==
  [m \in DOMAIN army \cup {n} |-> IF m = n THEN [at |-> xy, dest |-> Nowhere] ELSE army[m]]

CanAddCharacter(b, p, t) ==
  ~BuyRefused(b.players[p], t) /\ CheckEmpty(b, Spawn(b.players[p].index))

\* Mutated AddCharacter: the tile is taken before it is known to be empty.
AddCharacterEarly(b, p, t) ==
  LET pl   == b.players[p]
      n    == pl.armyCount + 1
      home == Spawn(pl.index)
      paid == [pl EXCEPT !.armyCount = n, !.hexbank = @ - Cost[t]]
  IN IF BuyRefused(pl, t) THEN [b EXCEPT !.players[p].armyCount = n]
     ELSE [b EXCEPT !.players[p] = IF CheckEmpty(b, home)
                                   THEN [paid EXCEPT !.army = Enlist(@, n, home)]
                                   ELSE paid,
                    !.tiles[home] = <<p, n>>]

\* addCharacter(p, t, true).  The number is used up whatever happens, and when
\* the spawn tile is taken the price has been paid: delArmyChar only takes the
\* character back.
AddCharacter(b, p, t) ==
  LET pl   == b.players[p]
      n    == pl.armyCount + 1
      home == Spawn(pl.index)
      paid == [pl EXCEPT !.armyCount = n, !.hexbank = @ - Cost[t]]
  IN CASE BuyRefused(pl, t) -> [b EXCEPT !.players[p].armyCount = n]
       [] ~BuyRefused(pl, t) /\ ~CheckEmpty(b, home) -> [b EXCEPT !.players[p] = paid]
       [] CanAddCharacter(b, p, t) ->
            [b EXCEPT !.players[p] = [paid EXCEPT !.army = Enlist(@, n, home)],
                      !.tiles[home] = <<p, n>>]

\* setCharacterDest on a character that exists and a tile of the board.
SetCharacterDest(b, p, n, xy) ==
  IF CheckEmpty(b, xy) THEN [b EXCEPT !.players[p].army[n].dest = xy] ELSE b

-----------------------------------------------------------------------------
(* Character::updateLocation *)

\* A destination is set and not reached: what the function tests after the
\* time since the last move.
OnTheWay(ch) == ch.dest # Nowhere /\ ch.at # ch.dest

\* The neighbours in the order they are tried; the first one that leads towards
\* the destination and is free is taken, otherwise the character stays.
Neighbours(xy) == << <<xy[1] + 1, xy[2]>>, <<xy[1] - 1, xy[2]>>,
                     <<xy[1], xy[2] + 1>>, <<xy[1], xy[2] - 1>> >>

Towards(ch, k) == CASE k = 1 -> ch.at[1] < ch.dest[1]
                    [] k = 2 -> ch.at[1] > ch.dest[1]
                    [] k = 3 -> ch.at[2] < ch.dest[2]
                    [] k = 4 -> ch.at[2] > ch.dest[2]

\* Mutated Branch: the third test does not look at the tile.
BranchAsIfFree(b, ch) ==
  LET open == {k \in 1 .. 4 : Towards(ch, k) /\ (k = 3 \/ CheckEmpty(b, Neighbours(ch.at)[k]))}
  IN IF open = {} THEN 0 ELSE CHOOSE k \in open : \A l \in open : k <= l

\* The branch taken; 0 when every useful neighbour is occupied.
Branch(b, ch) ==
  LET open == {k \in 1 .. 4 : Towards(ch, k) /\ CheckEmpty(b, Neighbours(ch.at)[k])}
  IN IF open = {} THEN 0 ELSE CHOOSE k \in open : \A l \in open : k <= l

NextTile(b, ch) == LET k == Branch(b, ch) IN IF k = 0 THEN ch.at ELSE Neighbours(ch.at)[k]

\* The tile the branch writes the character to: the last branch moves the
\* character to (x, y-1) and writes board[x-1][y-1].
WrittenTile(b, ch) == IF Branch(b, ch) = 4
                      THEN <<ch.at[1] - 1, ch.at[2] - 1>>
                      ELSE NextTile(b, ch)

\* The write is outside the board.
StrayWrite(b, p, n) == WrittenTile(b, b.players[p].army[n]) \notin Tiles

\* The tile left behind is cleared last, also when the character stayed on it.
UpdateLocation(b, p, n) ==
  LET ch      == b.players[p].army[n]
      written == IF StrayWrite(b, p, n) THEN b.tiles
                 ELSE [b.tiles EXCEPT ![WrittenTile(b, ch)] = <<p, n>>]
  IN [b EXCEPT !.players[p].army[n].at = NextTile(b, ch),
               !.tiles = [written EXCEPT ![ch.at] = Empty]]
=============================================================================
