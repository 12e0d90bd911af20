--------------------------- MODULE TileBoardProofs ---------------------------
(***************************************************************************)
(* What each board operation returns: a board again.  One lemma for each   *)
(* operation, cited by the proofs about the machines that use them.        *)
(***************************************************************************)
EXTENDS TileBoard, FiniteSetTheorems, NaturalsInduction, WellFoundedInduction, TLAPS

\* A board is built from its four fields.
LEMMA BoardParts ==
  ASSUME NEW b, NEW A,
         b \in [phase : {"lobby", "playing", "ended"}, lastPlayer : Nat,
                players : {b.players}, tiles : [Tiles -> Nat \X Nat]],
         b.players = [p \in DOMAIN b.players |-> b.players[p]],
         DOMAIN b.players \subseteq 1 .. b.lastPlayer,
         \A p \in DOMAIN b.players : PlayerOK(b.players[p], A)
  PROVE  BoardOK(b, A)
<1>1. b.players \in [DOMAIN b.players -> {b.players[p] : p \in DOMAIN b.players}]
  OBVIOUS
<1> QED BY <1>1 DEF BoardOK

\* The fields of a board, with the two functions left as they are.
LEMMA BoardFields ==
  ASSUME NEW b, NEW A, BoardOK(b, A)
  PROVE  b \in [phase : {"lobby", "playing", "ended"}, lastPlayer : Nat,
               players : {b.players}, tiles : [Tiles -> Nat \X Nat]]
BY DEF BoardOK

\* The players of a board are known to be finitely many.
LEMMA FinitePlayers ==
  ASSUME NEW b, NEW A, BoardOK(b, A)
  PROVE  IsFiniteSet(Ids(b)) /\ Cardinality(Ids(b)) \in Nat
<1>1. b.lastPlayer \in Nat /\ Ids(b) \subseteq 1 .. b.lastPlayer
  BY DEF BoardOK, Ids
<1>2. IsFiniteSet(1 .. b.lastPlayer) BY <1>1, FS_Interval
<1> QED BY <1>1, <1>2, FS_Subset, FS_CardinalityType

\* A board whose players change and whose other fields do not is a board.
LEMMA PlayersReplaced ==
  ASSUME NEW b, NEW A, BoardOK(b, A), NEW f,
         f = [p \in DOMAIN f |-> f[p]],
         DOMAIN f \subseteq 1 .. b.lastPlayer,
         \A p \in DOMAIN f : PlayerOK(f[p], A)
  PROVE  BoardOK([b EXCEPT !.players = f], A)
<1> DEFINE c == [b EXCEPT !.players = f]
<1>1. /\ c \in [phase : {"lobby", "playing", "ended"}, lastPlayer : Nat,
               players : {c.players}, tiles : [Tiles -> Nat \X Nat]]
      /\ c.players = f /\ c.lastPlayer = b.lastPlayer
  <2>1. b \in [phase : {"lobby", "playing", "ended"}, lastPlayer : Nat,
              players : {b.players}, tiles : [Tiles -> Nat \X Nat]]
    BY BoardFields
  <2> QED BY <2>1
<1> HIDE DEF c
<1>2. BoardOK(c, A) BY <1>1, BoardParts
<1> QED BY <1>2 DEF c

\* A new player is a player.
LEMMA NewPlayerOK ==
  ASSUME NEW A, NEW a \in A, NEW i \in Nat
  PROVE  PlayerOK(NewPlayer(a, i), A)
BY DEF PlayerOK, NewPlayer, NoArmy

\* initBoard gives a board.
LEMMA EmptyBoardOK ==
  ASSUME NEW A PROVE BoardOK(EmptyBoard, A)
<1>1. EmptyBoard.tiles \in [Tiles -> Nat \X Nat] BY DEF EmptyBoard, Empty
<1>2. EmptyBoard.lastPlayer = 0 /\ EmptyBoard.players = [p \in {} |-> 0]
      /\ EmptyBoard.phase = "lobby" BY DEF EmptyBoard
<1> QED BY <1>1, <1>2 DEF EmptyBoard, BoardOK

\* addPlayer keeps a board a board.
LEMMA AddPlayerOK ==
  ASSUME NEW b, NEW A, BoardOK(b, A), NEW a \in A
  PROVE  BoardOK(AddPlayer(b, a), A)
<1> DEFINE id == b.lastPlayer + 1
           i  == Cardinality(Ids(b) \cup {id})
           f  == [p \in Ids(b) \cup {id} |->
                    IF p = id THEN NewPlayer(a, i) ELSE b.players[p]]
           c  == [b EXCEPT !.lastPlayer = id, !.players = f]
<1>1. i \in Nat BY FinitePlayers, FS_AddElement, FS_CardinalityType
<1>2. \A p \in DOMAIN f : PlayerOK(f[p], A)
  BY <1>1, NewPlayerOK DEF BoardOK, Ids
<1>3. id \in Nat /\ DOMAIN f \subseteq 1 .. id BY DEF BoardOK, Ids
<1>4. f = [p \in DOMAIN f |-> f[p]] OBVIOUS
<1> HIDE DEF i, f, id
<1>5. /\ c \in [phase : {"lobby", "playing", "ended"}, lastPlayer : Nat,
               players : {c.players}, tiles : [Tiles -> Nat \X Nat]]
      /\ c.players = f /\ c.lastPlayer = id
  <2>1. b \in [phase : {"lobby", "playing", "ended"}, lastPlayer : Nat,
              players : {b.players}, tiles : [Tiles -> Nat \X Nat]]
    BY BoardFields
  <2> QED BY <1>3, <2>1
<1> HIDE DEF c
<1>6. BoardOK(c, A) BY <1>2, <1>3, <1>4, <1>5, BoardParts
<1> QED BY <1>6 DEF AddPlayer, c, f, i, id

\* removePlayer keeps a board a board, whether the player is there or not.
LEMMA RemovePlayerOK ==
  ASSUME NEW b, NEW A, BoardOK(b, A), NEW id
  PROVE  BoardOK(RemovePlayer(b, id), A)
<1> DEFINE f == [p \in Ids(b) \ {id} |-> b.players[p]]
<1>1. /\ f = [p \in DOMAIN f |-> f[p]]
      /\ DOMAIN f \subseteq 1 .. b.lastPlayer
      /\ \A p \in DOMAIN f : PlayerOK(f[p], A)
  BY DEF BoardOK, Ids
<1> HIDE DEF f
<1>2. BoardOK([b EXCEPT !.players = f], A) BY <1>1, PlayersReplaced
<1> QED BY <1>2 DEF RemovePlayer, f

\* A board in which one player is replaced by another value of a player.
LEMMA PlayerReplaced ==
  ASSUME NEW b, NEW A, BoardOK(b, A), NEW p \in Ids(b), NEW pl, PlayerOK(pl, A)
  PROVE  BoardOK([b EXCEPT !.players = [b.players EXCEPT ![p] = pl]], A)
<1> DEFINE f == [b.players EXCEPT ![p] = pl]
<1>1. /\ f = [q \in DOMAIN f |-> f[q]]
      /\ DOMAIN f \subseteq 1 .. b.lastPlayer
      /\ \A q \in DOMAIN f : PlayerOK(f[q], A)
  BY DEF BoardOK, Ids
<1> HIDE DEF f
<1>2. BoardOK([b EXCEPT !.players = f], A) BY <1>1, PlayersReplaced
<1> QED BY <1>2 DEF f

\* isReady(r) keeps a board a board.
LEMMA SetReadyOK ==
  ASSUME NEW b, NEW A, BoardOK(b, A), NEW p \in Ids(b), NEW r \in BOOLEAN
  PROVE  BoardOK(SetReady(b, p, r), A)
<1> DEFINE pl == [b.players[p] EXCEPT !.ready = r]
<1>1. PlayerOK(b.players[p], A) BY DEF BoardOK, Ids
<1>2. PlayerOK(pl, A) BY <1>1 DEF PlayerOK
<1>3. SetReady(b, p, r) = [b EXCEPT !.players = [b.players EXCEPT ![p] = pl]]
  BY BoardFields DEF SetReady, Ids
<1> HIDE DEF pl
<1> QED BY <1>2, <1>3, PlayerReplaced

\* isDefeated(true) keeps a board a board.
LEMMA DefeatOK ==
  ASSUME NEW b, NEW A, BoardOK(b, A), NEW p \in Ids(b)
  PROVE  BoardOK(Defeat(b, p), A)
<1> DEFINE pl == [b.players[p] EXCEPT !.king = "dead"]
<1>1. PlayerOK(b.players[p], A) BY DEF BoardOK, Ids
<1>2. PlayerOK(pl, A) BY <1>1 DEF PlayerOK
<1>3. Defeat(b, p) = [b EXCEPT !.players = [b.players EXCEPT ![p] = pl]]
  BY BoardFields DEF Defeat, Ids
<1> HIDE DEF pl
<1> QED BY <1>2, <1>3, PlayerReplaced

\* incHexBank keeps a board a board.
LEMMA IncHexBankOK ==
  ASSUME NEW b, NEW A, BoardOK(b, A)
  PROVE  BoardOK(IncHexBank(b), A)
<1> DEFINE f == [p \in Ids(b) |-> [b.players[p] EXCEPT !.hexbank = @ + 1]]
<1>1. \A p \in Ids(b) : PlayerOK(b.players[p], A) BY DEF BoardOK, Ids
<1>2. \A p \in Ids(b) : PlayerOK(f[p], A) BY <1>1 DEF PlayerOK
<1>3. f = [q \in DOMAIN f |-> f[q]] /\ DOMAIN f \subseteq 1 .. b.lastPlayer
  BY DEF BoardOK, Ids
<1>4. DOMAIN f = Ids(b) OBVIOUS
<1> HIDE DEF f
<1>5. BoardOK([b EXCEPT !.players = f], A) BY <1>2, <1>3, <1>4, PlayersReplaced
<1> QED BY <1>5 DEF IncHexBank, f

\* endBoard keeps a board a board.
LEMMA EndBoardOK ==
  ASSUME NEW b, NEW A, BoardOK(b, A)
  PROVE  BoardOK(EndBoard(b), A)
<1> DEFINE c == [b EXCEPT !.phase = "ended"]
<1>1. /\ c \in [phase : {"lobby", "playing", "ended"}, lastPlayer : Nat,
               players : {c.players}, tiles : [Tiles -> Nat \X Nat]]
      /\ c.players = b.players /\ c.lastPlayer = b.lastPlayer
  <2>1. b \in [phase : {"lobby", "playing", "ended"}, lastPlayer : Nat,
              players : {b.players}, tiles : [Tiles -> Nat \X Nat]]
    BY BoardFields
  <2> QED BY <2>1
<1> HIDE DEF c
<1>2. /\ b.players = [p \in DOMAIN b.players |-> b.players[p]]
      /\ DOMAIN b.players \subseteq 1 .. b.lastPlayer
      /\ \A p \in DOMAIN b.players : PlayerOK(b.players[p], A)
  BY DEF BoardOK
<1>3. BoardOK(c, A) BY <1>1, <1>2, BoardParts
<1> QED BY <1>3 DEF EndBoard, c

\* getSpawnX and getSpawnY name a tile of the board whatever the index is.
LEMMA SpawnOnBoard ==
  ASSUME NEW i PROVE Spawn(i) \in Tiles
BY BoardAssumption DEF Spawn, GetSpawnX, GetSpawnY, Tiles

\* initializeArmy places characters on tiles of the board only.
LEMMA SquadOnBoard ==
  ASSUME NEW i, NEW k PROVE SquadTile(i, k) \in Tiles
BY BoardAssumption DEF SquadTile, GetSpawnX, GetSpawnY, Tiles

\* initializeArmy keeps a player a player.
LEMMA MobilisedOK ==
  ASSUME NEW A, NEW pl, PlayerOK(pl, A)
  PROVE  PlayerOK(Mobilised(pl), A)
<1> DEFINE new  == pl.armyCount + 1 .. pl.armyCount + 4
           army == [n \in new |-> [at   |-> SquadTile(pl.index, n - pl.armyCount),
                                   dest |-> Nowhere]]
           k    == pl.armyCount + 4
           q    == [pl EXCEPT !.armyCount = k, !.king = "alive", !.army = army]
<1>1. army \in [new -> Character] BY SquadOnBoard DEF Character, Coords
<1>2. pl \in [address : A, index : Nat, ready : BOOLEAN, hexbank : Nat,
             armyCount : Nat, king : {"none", "alive", "dead"}, army : {pl.army}]
  BY DEF PlayerOK
<1>3. k \in Nat /\ new \subseteq 1 .. k BY <1>2
<1>4. DOMAIN army = new OBVIOUS
<1> HIDE DEF army, new, k
<1>5. /\ q \in [address : A, index : Nat, ready : BOOLEAN, hexbank : Nat,
              armyCount : Nat, king : {"none", "alive", "dead"}, army : {army}]
      /\ q.armyCount = k /\ q.army = army
  BY <1>2, <1>3
<1> HIDE DEF q
<1>6. PlayerOK(q, A) BY <1>1, <1>3, <1>4, <1>5 DEF PlayerOK
<1> QED BY <1>6 DEF Mobilised, q, army, new, k

\* A set of numbers that is not empty has a least element.
LEMMA Least ==
  ASSUME NEW S \in SUBSET Nat, S # {}
  PROVE  \E m \in S : \A n \in S : m <= n
<1> DEFINE R == OpToRel(<, Nat)
<1>1. IsWellFoundedOn(R, Nat) BY NatLessThanWellFounded
<1> HIDE DEF R
<1>2. PICK m \in S : \A n \in S : ~ (<<n, m>> \in R) BY <1>1, WFMin
<1>3. \A n \in S : ~ (n < m) BY <1>2 DEF R, OpToRel
<1> QED BY <1>3

\* A bounded set of numbers that is not empty has a greatest element.
LEMMA Greatest ==
  ASSUME NEW S \in SUBSET Nat, S # {}, NEW k \in Nat, \A n \in S : n <= k
  PROVE  \E m \in S : \A n \in S : n <= m
<1> DEFINE D == {x \in Nat : k - x \in S}
           R == OpToRel(<, Nat)
<1>1. PICK s \in S : TRUE OBVIOUS
<1>2. D # {}
  <2>1. k - s \in D BY <1>1
  <2> QED BY <2>1
<1>3. IsWellFoundedOn(R, Nat) BY NatLessThanWellFounded
<1>4. D \subseteq Nat OBVIOUS
<1> HIDE DEF R
<1>5. PICK d \in D : \A e \in D : ~ (<<e, d>> \in R)
  BY <1>2, <1>3, <1>4, WFMin
<1>6. \A e \in D : ~ (e < d) BY <1>5 DEF R, OpToRel
<1>7. \A n \in S : k - n \in D OBVIOUS
<1>8. \A n \in S : n <= k - d BY <1>6, <1>7
<1> QED BY <1>8

\* A tile that is occupied when the game starts points to a player, and to one
\* of the four characters initializeArmy gives it.
LEMMA OccupantRefers ==
  ASSUME NEW b, NEW A, BoardOK(b, A), NEW t
  PROVE  \/ Occupant(b.players, t) = Empty
         \/ \E p \in Ids(b), k \in 1 .. 4 :
              Occupant(b.players, t) = <<p, b.players[p].armyCount + k>>
<1> DEFINE on   == {c \in (DOMAIN b.players) \X (1 .. 4) :
                      SquadTile(b.players[c[1]].index, c[2]) = t}
           last == CHOOSE c \in on : \A d \in on : d[1] <= c[1]
<1>1. CASE on = {} BY <1>1 DEF Occupant
<1>2. CASE on # {}
  <2> DEFINE who == {p \in DOMAIN b.players : \E k \in 1 .. 4 : <<p, k>> \in on}
  <2>1. \A c \in on : c[1] \in who OBVIOUS
  <2>2. b.lastPlayer \in Nat /\ who \in SUBSET Nat /\ \A p \in who : p <= b.lastPlayer
    BY DEF BoardOK
  <2>3. who # {} BY <1>2, <2>1
  <2>4. PICK p \in who : \A q \in who : q <= p BY <2>2, <2>3, Greatest
  <2>5. \E c \in on : \A d \in on : d[1] <= c[1] BY <2>1, <2>4
  <2>6. last \in on BY <2>5
  <2> HIDE DEF last
  <2>7. last[1] \in Ids(b) /\ last[2] \in 1 .. 4 BY <2>6 DEF Ids
  <2>8. Occupant(b.players, t) = <<last[1], b.players[last[1]].armyCount + last[2]>>
    BY <1>2 DEF Occupant, last
  <2> QED BY <2>7, <2>8
<1> QED BY <1>1, <1>2

\* So it is a pointer.
LEMMA OccupantOK ==
  ASSUME NEW b, NEW A, BoardOK(b, A), NEW t
  PROVE  Occupant(b.players, t) \in Nat \X Nat
<1>1. \A p \in Ids(b) : p \in Nat /\ b.players[p].armyCount \in Nat
  BY DEF BoardOK, PlayerOK, Ids
<1> QED BY <1>1, OccupantRefers DEF Empty

\* startBoard keeps a board a board.
LEMMA StartBoardOK ==
  ASSUME NEW b, NEW A, BoardOK(b, A)
  PROVE  BoardOK(StartBoard(b), A)
<1> DEFINE f == [p \in Ids(b) |-> Mobilised(b.players[p])]
           g == [t \in Tiles |-> Occupant(b.players, t)]
           c == [b EXCEPT !.phase = "playing", !.players = f, !.tiles = g]
<1>1. g \in [Tiles -> Nat \X Nat] BY OccupantOK
<1>2. \A p \in DOMAIN f : PlayerOK(f[p], A)
  <2>1. \A p \in Ids(b) : PlayerOK(b.players[p], A) BY DEF BoardOK, Ids
  <2> QED BY <2>1, MobilisedOK
<1>3. /\ f = [p \in DOMAIN f |-> f[p]]
      /\ DOMAIN f \subseteq 1 .. b.lastPlayer
  BY DEF BoardOK, Ids
<1> HIDE DEF f, g
<1>4. /\ c \in [phase : {"lobby", "playing", "ended"}, lastPlayer : Nat,
               players : {c.players}, tiles : [Tiles -> Nat \X Nat]]
      /\ c.players = f /\ c.lastPlayer = b.lastPlayer
  <2>1. b \in [phase : {"lobby", "playing", "ended"}, lastPlayer : Nat,
              players : {b.players}, tiles : [Tiles -> Nat \X Nat]]
    BY BoardFields
  <2> QED BY <1>1, <2>1
<1> HIDE DEF c
<1>5. BoardOK(c, A) BY <1>2, <1>3, <1>4, BoardParts
<1> QED BY <1>5 DEF StartBoard, c, f, g

\* A board in which one player and the tiles are replaced.
LEMMA PlayerAndTilesReplaced ==
  ASSUME NEW b, NEW A, BoardOK(b, A), NEW p \in Ids(b), NEW pl, PlayerOK(pl, A),
         NEW g \in [Tiles -> Nat \X Nat]
  PROVE  BoardOK([b EXCEPT !.players = [b.players EXCEPT ![p] = pl], !.tiles = g], A)
<1> DEFINE f == [b.players EXCEPT ![p] = pl]
           c == [b EXCEPT !.players = f, !.tiles = g]
<1>1. /\ f = [q \in DOMAIN f |-> f[q]]
      /\ DOMAIN f \subseteq 1 .. b.lastPlayer
      /\ \A q \in DOMAIN f : PlayerOK(f[q], A)
  BY DEF BoardOK, Ids
<1> HIDE DEF f
<1>2. /\ c \in [phase : {"lobby", "playing", "ended"}, lastPlayer : Nat,
               players : {c.players}, tiles : [Tiles -> Nat \X Nat]]
      /\ c.players = f /\ c.lastPlayer = b.lastPlayer
  <2>1. b \in [phase : {"lobby", "playing", "ended"}, lastPlayer : Nat,
              players : {b.players}, tiles : [Tiles -> Nat \X Nat]]
    BY BoardFields
  <2> QED BY <2>1
<1> HIDE DEF c
<1>3. BoardOK(c, A) BY <1>1, <1>2, BoardParts
<1> QED BY <1>3 DEF c, f

\* addCharacter keeps a board a board in each of its three outcomes: the bank is
\* never overdrawn, and the new number is inside the numbers given out.
LEMMA AddCharacterOK ==
  ASSUME NEW b, NEW A, BoardOK(b, A), NEW p \in Ids(b), NEW t \in DOMAIN Cost
  PROVE  BoardOK(AddCharacter(b, p, t), A)
<1> DEFINE pl   == b.players[p]
           n    == pl.armyCount + 1
           home == Spawn(pl.index)
           paid == [pl EXCEPT !.armyCount = n, !.hexbank = @ - Cost[t]]
           army == Enlist(pl.army, n, home)
           full == [paid EXCEPT !.army = army]
<1>1. PlayerOK(pl, A) /\ p \in Nat BY DEF BoardOK, Ids
<1>2. /\ pl \in [address : A, index : Nat, ready : BOOLEAN, hexbank : Nat,
                armyCount : Nat, king : {"none", "alive", "dead"}, army : {pl.army}]
      /\ pl.army \in [DOMAIN pl.army -> Character]
      /\ DOMAIN pl.army \subseteq 1 .. pl.armyCount
  BY <1>1 DEF PlayerOK
<1>3. Cost[t] \in Nat BY BoardAssumption
<1>4. n \in Nat /\ DOMAIN pl.army \subseteq 1 .. n /\ n \in 1 .. n BY <1>2
<1>5. CASE BuyRefused(pl, t)
  <2> DEFINE less == [pl EXCEPT !.armyCount = n]
  <2>1. PlayerOK(less, A)
    <3> HIDE DEF n
    <3>1. less \in [address : A, index : Nat, ready : BOOLEAN, hexbank : Nat,
                    armyCount : Nat, king : {"none", "alive", "dead"}, army : {pl.army}]
          /\ less.army = pl.army /\ less.armyCount = n
      BY <1>2, <1>4
    <3> HIDE DEF less
    <3> QED BY <1>2, <1>4, <3>1 DEF PlayerOK
  <2>2. AddCharacter(b, p, t) = [b EXCEPT !.players[p].armyCount = n]
    BY <1>5 DEF AddCharacter, CanAddCharacter
  <2>3. [b EXCEPT !.players[p].armyCount = n]
          = [b EXCEPT !.players = [b.players EXCEPT ![p] = less]]
    BY BoardFields DEF Ids
  <2> HIDE DEF less, n
  <2> QED BY <2>1, <2>2, <2>3, PlayerReplaced
<1>6. CASE ~BuyRefused(pl, t)
  <2>1. /\ paid \in [address : A, index : Nat, ready : BOOLEAN, hexbank : Nat,
                     armyCount : Nat, king : {"none", "alive", "dead"}, army : {pl.army}]
        /\ paid.army = pl.army /\ paid.armyCount = n
    <3>1. pl.hexbank - Cost[t] \in Nat BY <1>2, <1>3, <1>6 DEF BuyRefused
    <3> QED BY <1>2, <1>4, <3>1
  <2>2. PlayerOK(paid, A)
    <3> HIDE DEF paid
    <3> QED BY <1>2, <1>4, <2>1 DEF PlayerOK
  <2>3. CASE ~CheckEmpty(b, home)
    <3>1. AddCharacter(b, p, t) = [b EXCEPT !.players[p] = paid]
      BY <1>6, <2>3 DEF AddCharacter, CanAddCharacter
    <3>2. [b EXCEPT !.players[p] = paid] = [b EXCEPT !.players = [b.players EXCEPT ![p] = paid]]
      BY BoardFields DEF Ids
    <3> HIDE DEF paid
    <3> QED BY <2>2, <3>1, <3>2, PlayerReplaced
  <2>4. CASE CheckEmpty(b, home)
    <3> DEFINE g == [b.tiles EXCEPT ![home] = <<p, n>>]
    <3>1. army \in [DOMAIN pl.army \cup {n} -> Character] /\ DOMAIN army = DOMAIN pl.army \cup {n}
      BY <1>2, SpawnOnBoard DEF Enlist, Character, Coords
    <3>2. g \in [Tiles -> Nat \X Nat]
      BY <1>1, <1>4, SpawnOnBoard, BoardFields DEF BoardOK
    <3>3. PlayerOK(full, A)
      <4> HIDE DEF army, paid
      <4>1. full \in [address : A, index : Nat, ready : BOOLEAN, hexbank : Nat,
                      armyCount : Nat, king : {"none", "alive", "dead"}, army : {army}]
            /\ full.army = army /\ full.armyCount = n
        BY <2>1
      <4> HIDE DEF full
      <4> QED BY <1>4, <3>1, <4>1 DEF PlayerOK
    <3>4. AddCharacter(b, p, t) = [b EXCEPT !.players[p] = full, !.tiles[home] = <<p, n>>]
      BY <1>6, <2>4 DEF AddCharacter, CanAddCharacter
    <3>5. [b EXCEPT !.players[p] = full, !.tiles[home] = <<p, n>>]
            = [b EXCEPT !.players = [b.players EXCEPT ![p] = full], !.tiles = g]
      BY BoardFields DEF Ids
    <3> HIDE DEF full, g
    <3>6. BoardOK([b EXCEPT !.players = [b.players EXCEPT ![p] = full], !.tiles = g], A)
      BY <3>2, <3>3, PlayerAndTilesReplaced
    <3> QED BY <3>4, <3>5, <3>6
  <2> QED BY <2>3, <2>4
<1> QED BY <1>5, <1>6

\* setCharacterDest keeps a board a board.
LEMMA SetCharacterDestOK ==
  ASSUME NEW b, NEW A, BoardOK(b, A), NEW p \in Ids(b),
         NEW n \in DOMAIN b.players[p].army, NEW xy \in Tiles
  PROVE  BoardOK(SetCharacterDest(b, p, n, xy), A)
<1> DEFINE pl   == b.players[p]
           army == [pl.army EXCEPT ![n] = [pl.army[n] EXCEPT !.dest = xy]]
           q    == [pl EXCEPT !.army = army]
<1>1. PlayerOK(pl, A) BY DEF BoardOK, Ids
<1>2. /\ pl \in [address : A, index : Nat, ready : BOOLEAN, hexbank : Nat,
                armyCount : Nat, king : {"none", "alive", "dead"}, army : {pl.army}]
      /\ pl.army \in [DOMAIN pl.army -> Character]
      /\ DOMAIN pl.army \subseteq 1 .. pl.armyCount
  BY <1>1 DEF PlayerOK
<1>3. [pl.army[n] EXCEPT !.dest = xy] \in Character
  BY <1>2 DEF Character, Coords
<1>4. army \in [DOMAIN pl.army -> Character] /\ DOMAIN army = DOMAIN pl.army
  BY <1>2, <1>3
<1>5. [b EXCEPT !.players[p].army[n].dest = xy]
        = [b EXCEPT !.players = [b.players EXCEPT ![p] = q]]
  BY BoardFields DEF Ids
<1> HIDE DEF army
<1>6. /\ q \in [address : A, index : Nat, ready : BOOLEAN, hexbank : Nat,
               armyCount : Nat, king : {"none", "alive", "dead"}, army : {army}]
      /\ q.army = army /\ q.armyCount = pl.armyCount
  BY <1>2
<1> HIDE DEF q
<1>7. PlayerOK(q, A) BY <1>2, <1>4, <1>6 DEF PlayerOK
<1>8. BoardOK([b EXCEPT !.players = [b.players EXCEPT ![p] = q]], A)
  BY <1>7, PlayerReplaced
<1> QED BY <1>5, <1>8 DEF SetCharacterDest

\* The branch that is taken leads towards the destination, to an empty tile.
LEMMA BranchTaken ==
  ASSUME NEW b, NEW ch, Branch(b, ch) # 0
  PROVE  /\ Branch(b, ch) \in 1 .. 4
         /\ Towards(ch, Branch(b, ch))
         /\ CheckEmpty(b, Neighbours(ch.at)[Branch(b, ch)])
<1> DEFINE open == {k \in 1 .. 4 : Towards(ch, k) /\ CheckEmpty(b, Neighbours(ch.at)[k])}
<1>1. open # {} BY DEF Branch
<1>2. \E k \in open : \A l \in open : k <= l
  <2>1. CASE 1 \in open BY <2>1
  <2>2. CASE 1 \notin open /\ 2 \in open BY <2>2
  <2>3. CASE 1 \notin open /\ 2 \notin open /\ 3 \in open BY <2>3
  <2>4. CASE 1 \notin open /\ 2 \notin open /\ 3 \notin open /\ 4 \in open BY <2>4
  <2>5. open \subseteq {1, 2, 3, 4} OBVIOUS
  <2> QED BY <1>1, <2>1, <2>2, <2>3, <2>4, <2>5
<1>3. Branch(b, ch) \in open
  <2> HIDE DEF open
  <2>1. (CHOOSE k \in open : \A l \in open : k <= l) \in open BY <1>2
  <2> QED BY <1>1, <2>1 DEF Branch, open
<1> QED BY <1>3

\* A character with somewhere to go stays on the board.
LEMMA NextTileOnBoard ==
  ASSUME NEW b, NEW ch \in Character, OnTheWay(ch)
  PROVE  NextTile(b, ch) \in Tiles
<1>1. ch.at \in Tiles /\ ch.dest \in Tiles
  BY DEF Character, Coords, OnTheWay
<1>2. CASE Branch(b, ch) = 0 BY <1>1, <1>2 DEF NextTile
<1>3. CASE Branch(b, ch) # 0
  <2> DEFINE k == Branch(b, ch)
  <2>1. k \in 1 .. 4 /\ Towards(ch, k) BY <1>3, BranchTaken
  <2>2. NextTile(b, ch) = Neighbours(ch.at)[k] BY <1>3 DEF NextTile
  <2> HIDE DEF k
  <2>3. Neighbours(ch.at)[k] \in Tiles
    <3>1. CASE k = 1 BY <1>1, <2>1, <3>1, BoardAssumption DEF Neighbours, Towards, Tiles
    <3>2. CASE k = 2 BY <1>1, <2>1, <3>2, BoardAssumption DEF Neighbours, Towards, Tiles
    <3>3. CASE k = 3 BY <1>1, <2>1, <3>3, BoardAssumption DEF Neighbours, Towards, Tiles
    <3>4. CASE k = 4 BY <1>1, <2>1, <3>4, BoardAssumption DEF Neighbours, Towards, Tiles
    <3> QED BY <2>1, <3>1, <3>2, <3>3, <3>4
  <2> QED BY <2>2, <2>3
<1> QED BY <1>2, <1>3

\* updateLocation keeps a board a board: the character stays on it.  (A write
\* outside the board ends the server in the module of the server.)
LEMMA UpdateLocationOK ==
  ASSUME NEW b, NEW A, BoardOK(b, A), NEW p \in Ids(b),
         NEW n \in DOMAIN b.players[p].army, OnTheWay(b.players[p].army[n])
  PROVE  BoardOK(UpdateLocation(b, p, n), A)
<1> DEFINE pl      == b.players[p]
           ch      == pl.army[n]
           to      == NextTile(b, ch)
           army    == [pl.army EXCEPT ![n] = [ch EXCEPT !.at = to]]
           q       == [pl EXCEPT !.army = army]
           written == IF StrayWrite(b, p, n) THEN b.tiles
                      ELSE [b.tiles EXCEPT ![WrittenTile(b, ch)] = <<p, n>>]
           g       == [written EXCEPT ![ch.at] = Empty]
<1>1. PlayerOK(pl, A) /\ p \in Nat BY DEF BoardOK, Ids
<1>2. /\ pl \in [address : A, index : Nat, ready : BOOLEAN, hexbank : Nat,
                armyCount : Nat, king : {"none", "alive", "dead"}, army : {pl.army}]
      /\ pl.army \in [DOMAIN pl.army -> Character]
      /\ DOMAIN pl.army \subseteq 1 .. pl.armyCount
  BY <1>1 DEF PlayerOK
<1>3. ch \in Character /\ n \in Nat BY <1>2
<1>4. to \in Tiles BY <1>3, NextTileOnBoard
<1> HIDE DEF to
<1>5. [ch EXCEPT !.at = to] \in Character BY <1>3, <1>4 DEF Character
<1>6. army \in [DOMAIN pl.army -> Character] /\ DOMAIN army = DOMAIN pl.army
  BY <1>2, <1>5
<1>7. g \in [Tiles -> Nat \X Nat]
  <2>1. b.tiles \in [Tiles -> Nat \X Nat] BY DEF BoardOK
  <2>2. <<p, n>> \in Nat \X Nat /\ Empty \in Nat \X Nat BY <1>1, <1>3 DEF Empty
  <2> QED BY <2>1, <2>2
<1>8. UpdateLocation(b, p, n) = [b EXCEPT !.players[p].army[n].at = to, !.tiles = g]
  BY DEF UpdateLocation, to
<1>9. [b EXCEPT !.players[p].army[n].at = to, !.tiles = g]
        = [b EXCEPT !.players = [b.players EXCEPT ![p] = q], !.tiles = g]
  BY BoardFields DEF Ids
<1> HIDE DEF army, g
<1>10. /\ q \in [address : A, index : Nat, ready : BOOLEAN, hexbank : Nat,
                armyCount : Nat, king : {"none", "alive", "dead"}, army : {army}]
       /\ q.army = army /\ q.armyCount = pl.armyCount
  BY <1>2
<1> HIDE DEF q
<1>11. PlayerOK(q, A) BY <1>2, <1>6, <1>10 DEF PlayerOK
<1>12. BoardOK([b EXCEPT !.players = [b.players EXCEPT ![p] = q], !.tiles = g], A)
  BY <1>7, <1>11, PlayerAndTilesReplaced
<1> QED BY <1>8, <1>9, <1>12

-----------------------------------------------------------------------------
(* What the operations on armies leave alone. *)

\* The same match: the same players, alive or not, with the same flags.
SameMatch(b, c) ==
  /\ Ids(c) = Ids(b) /\ c.phase = b.phase /\ c.lastPlayer = b.lastPlayer
  /\ \A p \in Ids(b) : /\ c.players[p].address = b.players[p].address
                       /\ c.players[p].ready   = b.players[p].ready
                       /\ c.players[p].king    = b.players[p].king

\* incHexBank changes nothing the match is about.
LEMMA IncHexBankSame ==
  ASSUME NEW b, NEW A, BoardOK(b, A)
  PROVE  SameMatch(b, IncHexBank(b))
<1> DEFINE f == [p \in Ids(b) |-> [b.players[p] EXCEPT !.hexbank = @ + 1]]
<1>1. \A p \in Ids(b) : PlayerOK(b.players[p], A) BY DEF BoardOK, Ids
<1>2. \A p \in Ids(b) : /\ f[p].address = b.players[p].address
                        /\ f[p].ready   = b.players[p].ready
                        /\ f[p].king    = b.players[p].king
  BY <1>1 DEF PlayerOK
<1>3. DOMAIN f = Ids(b) OBVIOUS
<1> HIDE DEF f
<1>4. /\ [b EXCEPT !.players = f].players = f
      /\ [b EXCEPT !.players = f].phase = b.phase
      /\ [b EXCEPT !.players = f].lastPlayer = b.lastPlayer
  BY BoardFields
<1>5. IncHexBank(b) = [b EXCEPT !.players = f] BY DEF IncHexBank, f
<1> QED BY <1>2, <1>3, <1>4, <1>5 DEF SameMatch, Ids

\* One player replaced by a value that differs in bank and army only.
LEMMA PlayerReplacedSame ==
  ASSUME NEW b, NEW A, BoardOK(b, A), NEW p \in Ids(b), NEW pl, NEW g,
         pl.address = b.players[p].address,
         pl.ready = b.players[p].ready,
         pl.king = b.players[p].king
  PROVE  /\ SameMatch(b, [b EXCEPT !.players = [b.players EXCEPT ![p] = pl]])
         /\ SameMatch(b, [b EXCEPT !.players = [b.players EXCEPT ![p] = pl], !.tiles = g])
<1> DEFINE f == [b.players EXCEPT ![p] = pl]
           c == [b EXCEPT !.players = f]
           d == [b EXCEPT !.players = f, !.tiles = g]
<1>1. /\ DOMAIN f = Ids(b)
      /\ \A q \in Ids(b) : /\ f[q].address = b.players[q].address
                           /\ f[q].ready   = b.players[q].ready
                           /\ f[q].king    = b.players[q].king
  BY DEF Ids
<1> HIDE DEF f
<1>2. /\ c.players = f /\ c.phase = b.phase /\ c.lastPlayer = b.lastPlayer
      /\ d.players = f /\ d.phase = b.phase /\ d.lastPlayer = b.lastPlayer
  BY BoardFields
<1> HIDE DEF c, d
<1>3. SameMatch(b, c) /\ SameMatch(b, d) BY <1>1, <1>2 DEF SameMatch, Ids
<1> QED BY <1>3 DEF c, d, f

\* addCharacter changes nothing the match is about.
LEMMA AddCharacterSame ==
  ASSUME NEW b, NEW A, BoardOK(b, A), NEW p \in Ids(b), NEW t \in DOMAIN Cost
  PROVE  SameMatch(b, AddCharacter(b, p, t))
<1> DEFINE pl   == b.players[p]
           n    == pl.armyCount + 1
           home == Spawn(pl.index)
           less == [pl EXCEPT !.armyCount = n]
           paid == [pl EXCEPT !.armyCount = n, !.hexbank = @ - Cost[t]]
           full == [paid EXCEPT !.army = Enlist(@, n, home)]
           g    == [b.tiles EXCEPT ![home] = <<p, n>>]
<1>1. PlayerOK(pl, A) BY DEF BoardOK, Ids
<1>2. pl \in [address : A, index : Nat, ready : BOOLEAN, hexbank : Nat,
             armyCount : Nat, king : {"none", "alive", "dead"}, army : {pl.army}]
  BY <1>1 DEF PlayerOK
<1>3. \A q \in {less, paid, full} : /\ q.address = pl.address
                                    /\ q.ready = pl.ready /\ q.king = pl.king
  BY <1>2
<1>4. \/ AddCharacter(b, p, t) = [b EXCEPT !.players[p].armyCount = n]
      \/ AddCharacter(b, p, t) = [b EXCEPT !.players[p] = paid]
      \/ AddCharacter(b, p, t) = [b EXCEPT !.players[p] = full, !.tiles[home] = <<p, n>>]
  BY DEF AddCharacter, CanAddCharacter
<1>5. /\ [b EXCEPT !.players[p].armyCount = n]
           = [b EXCEPT !.players = [b.players EXCEPT ![p] = less]]
      /\ [b EXCEPT !.players[p] = paid]
           = [b EXCEPT !.players = [b.players EXCEPT ![p] = paid]]
      /\ [b EXCEPT !.players[p] = full, !.tiles[home] = <<p, n>>]
           = [b EXCEPT !.players = [b.players EXCEPT ![p] = full], !.tiles = g]
  BY BoardFields DEF Ids
<1> HIDE DEF less, paid, full, g
<1>6. /\ SameMatch(b, [b EXCEPT !.players = [b.players EXCEPT ![p] = less]])
      /\ SameMatch(b, [b EXCEPT !.players = [b.players EXCEPT ![p] = paid]])
      /\ SameMatch(b, [b EXCEPT !.players = [b.players EXCEPT ![p] = full], !.tiles = g])
  BY <1>3, PlayerReplacedSame
<1> QED BY <1>4, <1>5, <1>6

\* setCharacterDest changes nothing the match is about.
LEMMA SetCharacterDestSame ==
  ASSUME NEW b, NEW A, BoardOK(b, A), NEW p \in Ids(b),
         NEW n \in DOMAIN b.players[p].army, NEW xy
  PROVE  SameMatch(b, SetCharacterDest(b, p, n, xy))
<1> DEFINE pl   == b.players[p]
           army == [pl.army EXCEPT ![n] = [pl.army[n] EXCEPT !.dest = xy]]
           q    == [pl EXCEPT !.army = army]
<1>1. PlayerOK(pl, A) BY DEF BoardOK, Ids
<1>2. pl \in [address : A, index : Nat, ready : BOOLEAN, hexbank : Nat,
             armyCount : Nat, king : {"none", "alive", "dead"}, army : {pl.army}]
  BY <1>1 DEF PlayerOK
<1>3. [b EXCEPT !.players[p].army[n].dest = xy]
        = [b EXCEPT !.players = [b.players EXCEPT ![p] = q]]
  BY BoardFields DEF Ids
<1> HIDE DEF army
<1>4. q.address = pl.address /\ q.ready = pl.ready /\ q.king = pl.king BY <1>2
<1> HIDE DEF q
<1>5. SameMatch(b, [b EXCEPT !.players = [b.players EXCEPT ![p] = q]])
  BY <1>4, PlayerReplacedSame
<1>6. SameMatch(b, b) BY DEF SameMatch
<1> QED BY <1>3, <1>5, <1>6 DEF SetCharacterDest

\* updateLocation changes nothing the match is about.
LEMMA UpdateLocationSame ==
  ASSUME NEW b, NEW A, BoardOK(b, A), NEW p \in Ids(b),
         NEW n \in DOMAIN b.players[p].army
  PROVE  SameMatch(b, UpdateLocation(b, p, n))
<1> DEFINE pl      == b.players[p]
           ch      == pl.army[n]
           to      == NextTile(b, ch)
           army    == [pl.army EXCEPT ![n] = [ch EXCEPT !.at = to]]
           q       == [pl EXCEPT !.army = army]
           written == IF StrayWrite(b, p, n) THEN b.tiles
                      ELSE [b.tiles EXCEPT ![WrittenTile(b, ch)] = <<p, n>>]
           g       == [written EXCEPT ![ch.at] = Empty]
<1>1. PlayerOK(pl, A) BY DEF BoardOK, Ids
<1>2. pl \in [address : A, index : Nat, ready : BOOLEAN, hexbank : Nat,
             armyCount : Nat, king : {"none", "alive", "dead"}, army : {pl.army}]
  BY <1>1 DEF PlayerOK
<1> HIDE DEF to, g
<1>3. UpdateLocation(b, p, n) = [b EXCEPT !.players[p].army[n].at = to, !.tiles = g]
  BY DEF UpdateLocation, to, g
<1>4. [b EXCEPT !.players[p].army[n].at = to, !.tiles = g]
        = [b EXCEPT !.players = [b.players EXCEPT ![p] = q], !.tiles = g]
  BY BoardFields DEF Ids
<1> HIDE DEF army
<1>5. q.address = pl.address /\ q.ready = pl.ready /\ q.king = pl.king BY <1>2
<1> HIDE DEF q
<1>6. SameMatch(b, [b EXCEPT !.players = [b.players EXCEPT ![p] = q], !.tiles = g])
  BY <1>5, PlayerReplacedSame
<1> QED BY <1>3, <1>4, <1>6

-----------------------------------------------------------------------------
(* What the operations on the match change, and nothing else. *)

\* addPlayer: one more id, never given out before, with a fresh player.
LEMMA AddPlayerMatch ==
  ASSUME NEW b, NEW A, BoardOK(b, A), NEW a \in A, NEW id, id = b.lastPlayer + 1
  PROVE  LET c == AddPlayer(b, a)
         IN /\ id \in Nat /\ id \notin Ids(b) /\ id # NoPlayer
            /\ Ids(c) = Ids(b) \cup {id}
            /\ c.phase = b.phase /\ c.lastPlayer = id /\ c.tiles = b.tiles
            /\ \A p \in Ids(b) : c.players[p] = b.players[p]
            /\ c.players[id].index = Cardinality(Ids(b) \cup {id})
            /\ c.players[id].address = a /\ ~c.players[id].ready
            /\ c.players[id].king = "none" /\ c.players[id].hexbank = 0
            /\ c.players[id].army = NoArmy /\ c.players[id].armyCount = 0
<1> DEFINE i  == Cardinality(Ids(b) \cup {id})
           f  == [p \in Ids(b) \cup {id} |->
                    IF p = id THEN NewPlayer(a, i) ELSE b.players[p]]
           c  == [b EXCEPT !.lastPlayer = id, !.players = f]
<1>1. id \in Nat /\ id \notin Ids(b) /\ id # 0 BY DEF BoardOK, Ids
<1>2. /\ c.players = f /\ c.phase = b.phase /\ c.lastPlayer = id /\ c.tiles = b.tiles
  <2>1. b \in [phase : {"lobby", "playing", "ended"}, lastPlayer : Nat,
              players : {b.players}, tiles : [Tiles -> Nat \X Nat]]
    BY BoardFields
  <2> HIDE DEF f
  <2> QED BY <2>1
<1>3. DOMAIN f = Ids(b) \cup {id} /\ f[id] = NewPlayer(a, i)
      /\ \A p \in Ids(b) : f[p] = b.players[p]
  BY <1>1
<1>4. /\ NewPlayer(a, i).index = i
      /\ NewPlayer(a, i).address = a /\ ~NewPlayer(a, i).ready
      /\ NewPlayer(a, i).king = "none" /\ NewPlayer(a, i).hexbank = 0
      /\ NewPlayer(a, i).army = NoArmy /\ NewPlayer(a, i).armyCount = 0
  BY DEF NewPlayer
<1>5. AddPlayer(b, a) = c BY DEF AddPlayer
<1>6. i = Cardinality(Ids(b) \cup {id}) OBVIOUS
<1> HIDE DEF c, f, i
<1>7. /\ id \in Nat /\ id \notin Ids(b) /\ id # NoPlayer
      /\ Ids(c) = Ids(b) \cup {id}
      /\ c.phase = b.phase /\ c.lastPlayer = id /\ c.tiles = b.tiles
      /\ \A p \in Ids(b) : c.players[p] = b.players[p]
      /\ c.players[id].index = Cardinality(Ids(b) \cup {id})
      /\ c.players[id].address = a /\ ~c.players[id].ready
      /\ c.players[id].king = "none" /\ c.players[id].hexbank = 0
      /\ c.players[id].army = NoArmy /\ c.players[id].armyCount = 0
  BY <1>1, <1>2, <1>3, <1>4, <1>6 DEF Ids, NoPlayer
<1> QED BY <1>5, <1>7

\* removePlayer: one id less.
LEMMA RemovePlayerMatch ==
  ASSUME NEW b, NEW A, BoardOK(b, A), NEW id
  PROVE  LET c == RemovePlayer(b, id)
         IN /\ Ids(c) = Ids(b) \ {id}
            /\ c.phase = b.phase /\ c.lastPlayer = b.lastPlayer /\ c.tiles = b.tiles
            /\ \A p \in Ids(c) : c.players[p] = b.players[p]
<1> DEFINE f == [p \in Ids(b) \ {id} |-> b.players[p]]
           c == [b EXCEPT !.players = f]
<1>1. DOMAIN f = Ids(b) \ {id} /\ \A p \in DOMAIN f : f[p] = b.players[p] OBVIOUS
<1> HIDE DEF f
<1>2. c.players = f /\ c.phase = b.phase /\ c.lastPlayer = b.lastPlayer /\ c.tiles = b.tiles
  BY BoardFields
<1>3. RemovePlayer(b, id) = c BY DEF RemovePlayer, f
<1> HIDE DEF c
<1> QED BY <1>1, <1>2, <1>3 DEF Ids

\* A board in which one player is replaced.
LEMMA OnePlayerReplaced ==
  ASSUME NEW b, NEW A, BoardOK(b, A), NEW p \in Ids(b), NEW pl
  PROVE  LET c == [b EXCEPT !.players = [b.players EXCEPT ![p] = pl]]
         IN /\ Ids(c) = Ids(b)
            /\ c.phase = b.phase /\ c.lastPlayer = b.lastPlayer /\ c.tiles = b.tiles
            /\ c.players[p] = pl
            /\ \A q \in Ids(b) : q # p => c.players[q] = b.players[q]
<1> DEFINE f == [b.players EXCEPT ![p] = pl]
           c == [b EXCEPT !.players = f]
<1>1. /\ DOMAIN f = Ids(b) /\ f[p] = pl
      /\ \A q \in Ids(b) : q # p => f[q] = b.players[q]
  BY DEF Ids
<1> HIDE DEF f
<1>2. c.players = f /\ c.phase = b.phase /\ c.lastPlayer = b.lastPlayer /\ c.tiles = b.tiles
  BY BoardFields
<1> HIDE DEF c
<1>3. /\ Ids(c) = Ids(b)
      /\ c.phase = b.phase /\ c.lastPlayer = b.lastPlayer /\ c.tiles = b.tiles
      /\ c.players[p] = pl
      /\ \A q \in Ids(b) : q # p => c.players[q] = b.players[q]
  BY <1>1, <1>2 DEF Ids
<1> QED BY <1>3 DEF c, f

\* isReady(r): the flag of one player.
LEMMA SetReadyMatch ==
  ASSUME NEW b, NEW A, BoardOK(b, A), NEW p \in Ids(b), NEW r \in BOOLEAN
  PROVE  LET c == SetReady(b, p, r)
         IN /\ Ids(c) = Ids(b)
            /\ c.phase = b.phase /\ c.lastPlayer = b.lastPlayer /\ c.tiles = b.tiles
            /\ c.players[p].ready = r
            /\ \A q \in Ids(b) : /\ q # p => c.players[q].ready = b.players[q].ready
                                 /\ c.players[q].address = b.players[q].address
                                 /\ c.players[q].king    = b.players[q].king
                                 /\ c.players[q].hexbank = b.players[q].hexbank
                                 /\ c.players[q].army    = b.players[q].army
<1> DEFINE pl == [b.players[p] EXCEPT !.ready = r]
           c  == [b EXCEPT !.players = [b.players EXCEPT ![p] = pl]]
<1>1. PlayerOK(b.players[p], A) BY DEF BoardOK, Ids
<1>2. /\ pl.ready = r /\ pl.address = b.players[p].address /\ pl.king = b.players[p].king
      /\ pl.hexbank = b.players[p].hexbank /\ pl.army = b.players[p].army
  BY <1>1 DEF PlayerOK
<1>3. SetReady(b, p, r) = c
  BY BoardFields DEF SetReady, Ids
<1> HIDE DEF pl
<1>4. /\ Ids(c) = Ids(b)
      /\ c.phase = b.phase /\ c.lastPlayer = b.lastPlayer /\ c.tiles = b.tiles
      /\ c.players[p] = pl
      /\ \A q \in Ids(b) : q # p => c.players[q] = b.players[q]
  BY OnePlayerReplaced
<1> HIDE DEF c
<1>5. \A q \in Ids(b) : /\ q # p => c.players[q].ready = b.players[q].ready
                        /\ c.players[q].address = b.players[q].address
                        /\ c.players[q].king    = b.players[q].king
                        /\ c.players[q].hexbank = b.players[q].hexbank
                        /\ c.players[q].army    = b.players[q].army
  BY <1>2, <1>4
<1> QED BY <1>2, <1>3, <1>4, <1>5

\* isDefeated(true): the king of one player.
LEMMA DefeatMatch ==
  ASSUME NEW b, NEW A, BoardOK(b, A), NEW p \in Ids(b)
  PROVE  LET c == Defeat(b, p)
         IN /\ Ids(c) = Ids(b)
            /\ c.phase = b.phase /\ c.lastPlayer = b.lastPlayer /\ c.tiles = b.tiles
            /\ c.players[p].king = "dead"
            /\ \A q \in Ids(b) : /\ q # p => c.players[q].king = b.players[q].king
                                 /\ c.players[q].address = b.players[q].address
                                 /\ c.players[q].ready   = b.players[q].ready
<1> DEFINE pl == [b.players[p] EXCEPT !.king = "dead"]
           c  == [b EXCEPT !.players = [b.players EXCEPT ![p] = pl]]
<1>1. PlayerOK(b.players[p], A) BY DEF BoardOK, Ids
<1>2. pl.king = "dead" /\ pl.address = b.players[p].address /\ pl.ready = b.players[p].ready
  BY <1>1 DEF PlayerOK
<1>3. Defeat(b, p) = c
  BY BoardFields DEF Defeat, Ids
<1> HIDE DEF pl
<1>4. /\ Ids(c) = Ids(b)
      /\ c.phase = b.phase /\ c.lastPlayer = b.lastPlayer /\ c.tiles = b.tiles
      /\ c.players[p] = pl
      /\ \A q \in Ids(b) : q # p => c.players[q] = b.players[q]
  BY OnePlayerReplaced
<1> HIDE DEF c
<1>5. \A q \in Ids(b) : /\ q # p => c.players[q].king = b.players[q].king
                        /\ c.players[q].address = b.players[q].address
                        /\ c.players[q].ready   = b.players[q].ready
  BY <1>2, <1>4
<1> QED BY <1>2, <1>3, <1>4, <1>5

\* startBoard: the same players, each with a king.
LEMMA StartBoardMatch ==
  ASSUME NEW b, NEW A, BoardOK(b, A), b.phase = "lobby"
  PROVE  LET c == StartBoard(b)
         IN /\ Ids(c) = Ids(b) /\ c.phase = "playing" /\ c.lastPlayer = b.lastPlayer
            /\ \A p \in Ids(b) : /\ c.players[p].address = b.players[p].address
                                 /\ c.players[p].ready   = b.players[p].ready
                                 /\ c.players[p].king    = "alive"
<1> DEFINE f == [p \in Ids(b) |-> Mobilised(b.players[p])]
           g == [t \in Tiles |-> Occupant(b.players, t)]
           c == [b EXCEPT !.phase = "playing", !.players = f, !.tiles = g]
<1>1. \A p \in Ids(b) : /\ Mobilised(b.players[p]).address = b.players[p].address
                        /\ Mobilised(b.players[p]).ready   = b.players[p].ready
                        /\ Mobilised(b.players[p]).king    = "alive"
  <2> TAKE p \in Ids(b)
  <2> DEFINE pl   == b.players[p]
             army == [n \in pl.armyCount + 1 .. pl.armyCount + 4 |->
                       [at |-> SquadTile(pl.index, n - pl.armyCount), dest |-> Nowhere]]
  <2>1. pl \in [address : A, index : Nat, ready : BOOLEAN, hexbank : Nat,
               armyCount : Nat, king : {"none", "alive", "dead"}, army : {pl.army}]
    BY DEF BoardOK, PlayerOK, Ids
  <2>2. Mobilised(pl) = [pl EXCEPT !.armyCount = @ + 4, !.king = "alive", !.army = army]
    BY DEF Mobilised
  <2> HIDE DEF army, pl
  <2>3. /\ Mobilised(pl).address = pl.address /\ Mobilised(pl).ready = pl.ready
        /\ Mobilised(pl).king = "alive"
    BY <2>1, <2>2
  <2> QED BY <2>3 DEF pl
<1>2. DOMAIN f = Ids(b) /\ \A p \in Ids(b) : f[p] = Mobilised(b.players[p]) OBVIOUS
<1> HIDE DEF f, g
<1>3. c.players = f /\ c.phase = "playing" /\ c.lastPlayer = b.lastPlayer
  <2>1. b \in [phase : {"lobby", "playing", "ended"}, lastPlayer : Nat,
              players : {b.players}, tiles : [Tiles -> Nat \X Nat]]
    BY BoardFields
  <2> QED BY <2>1
<1>4. StartBoard(b) = c BY DEF StartBoard, f, g
<1> HIDE DEF c
<1> QED BY <1>1, <1>2, <1>3, <1>4 DEF Ids

\* endBoard: the phase of a game that is on.
LEMMA EndBoardMatch ==
  ASSUME NEW b, NEW A, BoardOK(b, A), b.phase = "playing"
  PROVE  LET c == EndBoard(b)
         IN /\ c.phase = "ended" /\ c.players = b.players /\ c.lastPlayer = b.lastPlayer
            /\ c.tiles = b.tiles
<1> QED BY BoardFields DEF EndBoard

\* getPlayerByAddress: a player of that address, or none has it.
LEMMA PlayerByAddress ==
  ASSUME NEW b, NEW A, BoardOK(b, A), NEW a
  PROVE  LET p == GetPlayerByAddress(b, a)
         IN \/ p = NoPlayer /\ \A q \in Ids(b) : b.players[q].address # a
            \/ p # NoPlayer /\ p \in Ids(b) /\ b.players[p].address = a
<1> DEFINE S == {q \in Ids(b) : b.players[q].address = a}
<1>1. CASE S = {} BY <1>1 DEF GetPlayerByAddress
<1>2. CASE S # {}
  <2>1. S \in SUBSET Nat /\ 0 \notin S BY DEF BoardOK, Ids
  <2>2. PICK m \in S : \A q \in S : m <= q BY <1>2, <2>1, Least
  <2>3. GetPlayerByAddress(b, a) = CHOOSE l \in S : \A q \in S : l <= q
    BY <1>2 DEF GetPlayerByAddress
  <2> HIDE DEF S
  <2>4. GetPlayerByAddress(b, a) \in S BY <2>2, <2>3
  <2> QED BY <2>1, <2>4 DEF S, NoPlayer
<1> QED BY <1>1, <1>2

\* updateLocation: the same characters, and their numbers.
LEMMA UpdateLocationArmy ==
  ASSUME NEW b, NEW A, BoardOK(b, A), NEW p \in Ids(b),
         NEW n \in DOMAIN b.players[p].army
  PROVE  LET c == UpdateLocation(b, p, n)
         IN p \in Ids(c) /\ n \in DOMAIN c.players[p].army
<1> DEFINE pl      == b.players[p]
           ch      == pl.army[n]
           to      == NextTile(b, ch)
           army    == [pl.army EXCEPT ![n] = [ch EXCEPT !.at = to]]
           q       == [pl EXCEPT !.army = army]
           f       == [b.players EXCEPT ![p] = q]
           written == IF StrayWrite(b, p, n) THEN b.tiles
                      ELSE [b.tiles EXCEPT ![WrittenTile(b, ch)] = <<p, n>>]
           g       == [written EXCEPT ![ch.at] = Empty]
           c       == [b EXCEPT !.players = f, !.tiles = g]
<1>1. PlayerOK(pl, A) BY DEF BoardOK, Ids
<1>2. pl \in [address : A, index : Nat, ready : BOOLEAN, hexbank : Nat,
             armyCount : Nat, king : {"none", "alive", "dead"}, army : {pl.army}]
  BY <1>1 DEF PlayerOK
<1>3. n \in DOMAIN army OBVIOUS
<1> HIDE DEF to, g
<1>4. UpdateLocation(b, p, n) = [b EXCEPT !.players[p].army[n].at = to, !.tiles = g]
  BY DEF UpdateLocation, to, g
<1>5. [b EXCEPT !.players[p].army[n].at = to, !.tiles = g] = c
  BY BoardFields DEF Ids
<1> HIDE DEF army
<1>6. q.army = army BY <1>2
<1> HIDE DEF q
<1>7. p \in DOMAIN f /\ f[p] = q BY DEF Ids
<1> HIDE DEF f
<1>8. c.players = f BY BoardFields
<1> HIDE DEF c
<1> QED BY <1>3, <1>4, <1>5, <1>6, <1>7, <1>8 DEF Ids

\* The sets the match is decided by are the same in the same match.
LEMMA SameSurvivors ==
  ASSUME NEW b, NEW c, SameMatch(b, c)
  PROVE  /\ GetGamePlayers(c) = GetGamePlayers(b)
         /\ GetReadyPlayers(c) = GetReadyPlayers(b)
         /\ IsStarted(c) = IsStarted(b)
BY DEF SameMatch, GetGamePlayers, GetReadyPlayers, IsDefeated, IsStarted

\* addCharacter refused for the bank or the army: only the number is used up.
LEMMA AddCharacterRefused ==
  ASSUME NEW b, NEW A, BoardOK(b, A), NEW p \in Ids(b), NEW t \in DOMAIN Cost,
         BuyRefused(b.players[p], t)
  PROVE  LET c == AddCharacter(b, p, t)
         IN /\ c.tiles = b.tiles
            /\ \A q \in Ids(b) : /\ c.players[q].hexbank = b.players[q].hexbank
                                 /\ c.players[q].king    = b.players[q].king
                                 /\ c.players[q].army    = b.players[q].army
<1> DEFINE n  == b.players[p].armyCount + 1
           pl == [b.players[p] EXCEPT !.armyCount = n]
           c  == [b EXCEPT !.players = [b.players EXCEPT ![p] = pl]]
<1>1. PlayerOK(b.players[p], A) BY DEF BoardOK, Ids
<1>2. /\ pl.hexbank = b.players[p].hexbank /\ pl.king = b.players[p].king
      /\ pl.army = b.players[p].army
  BY <1>1 DEF PlayerOK
<1>3. AddCharacter(b, p, t) = [b EXCEPT !.players[p].armyCount = n]
  BY DEF AddCharacter, CanAddCharacter
<1>4. [b EXCEPT !.players[p].armyCount = n] = c
  BY BoardFields DEF Ids
<1> HIDE DEF pl
<1>5. /\ Ids(c) = Ids(b) /\ c.tiles = b.tiles /\ c.players[p] = pl
      /\ \A q \in Ids(b) : q # p => c.players[q] = b.players[q]
  BY OnePlayerReplaced
<1> HIDE DEF c
<1>6. \A q \in Ids(b) : /\ c.players[q].hexbank = b.players[q].hexbank
                        /\ c.players[q].king    = b.players[q].king
                        /\ c.players[q].army    = b.players[q].army
  BY <1>2, <1>5
<1> QED BY <1>3, <1>4, <1>5, <1>6

-----------------------------------------------------------------------------
(* What an operation does to what a player shows: its king, its flag, its    *)
(* bank, how many orders it has given, and its army.                         *)

Idle(pl) == \A n \in DOMAIN pl.army : pl.army[n].dest = Nowhere

\* isReady(r): the flag of one player.
LEMMA SetReadyShows ==
  ASSUME NEW b, NEW A, BoardOK(b, A), NEW p \in Ids(b), NEW r \in BOOLEAN
  PROVE  LET c == SetReady(b, p, r)
         IN /\ Ids(c) = Ids(b) /\ c.phase = b.phase /\ c.lastPlayer = b.lastPlayer
            /\ c.players[p].ready = r
            /\ \A q \in Ids(b) : /\ q # p => c.players[q].ready = b.players[q].ready
                                 /\ c.players[q].king      = b.players[q].king
                                 /\ c.players[q].hexbank   = b.players[q].hexbank
                                 /\ c.players[q].armyCount = b.players[q].armyCount
                                 /\ c.players[q].army      = b.players[q].army
<1> DEFINE pl == [b.players[p] EXCEPT !.ready = r]
           c  == [b EXCEPT !.players = [b.players EXCEPT ![p] = pl]]
<1>1. PlayerOK(b.players[p], A) BY DEF BoardOK, Ids
<1>2. /\ pl.ready = r /\ pl.armyCount = b.players[p].armyCount /\ pl.king = b.players[p].king
      /\ pl.hexbank = b.players[p].hexbank /\ pl.army = b.players[p].army
  BY <1>1 DEF PlayerOK
<1>3. SetReady(b, p, r) = c
  BY BoardFields DEF SetReady, Ids
<1> HIDE DEF pl
<1>4. /\ Ids(c) = Ids(b) /\ c.phase = b.phase /\ c.lastPlayer = b.lastPlayer
      /\ c.players[p] = pl
      /\ \A q \in Ids(b) : q # p => c.players[q] = b.players[q]
  BY OnePlayerReplaced
<1> HIDE DEF c
<1>5. \A q \in Ids(b) : /\ q # p => c.players[q].ready = b.players[q].ready
                        /\ c.players[q].king      = b.players[q].king
                        /\ c.players[q].hexbank   = b.players[q].hexbank
                        /\ c.players[q].armyCount = b.players[q].armyCount
                        /\ c.players[q].army      = b.players[q].army
  BY <1>2, <1>4
<1> QED BY <1>2, <1>3, <1>4, <1>5

\* isDefeated(true): the king of one player.
LEMMA DefeatShows ==
  ASSUME NEW b, NEW A, BoardOK(b, A), NEW p \in Ids(b)
  PROVE  LET c == Defeat(b, p)
         IN /\ Ids(c) = Ids(b) /\ c.phase = b.phase /\ c.lastPlayer = b.lastPlayer
            /\ c.players[p].king = "dead"
            /\ \A q \in Ids(b) : /\ q # p => c.players[q].king = b.players[q].king
                                 /\ c.players[q].ready     = b.players[q].ready
                                 /\ c.players[q].hexbank   = b.players[q].hexbank
                                 /\ c.players[q].armyCount = b.players[q].armyCount
                                 /\ c.players[q].army      = b.players[q].army
<1> DEFINE pl == [b.players[p] EXCEPT !.king = "dead"]
           c  == [b EXCEPT !.players = [b.players EXCEPT ![p] = pl]]
<1>1. PlayerOK(b.players[p], A) BY DEF BoardOK, Ids
<1>2. /\ pl.king = "dead" /\ pl.armyCount = b.players[p].armyCount
      /\ pl.ready = b.players[p].ready
      /\ pl.hexbank = b.players[p].hexbank /\ pl.army = b.players[p].army
  BY <1>1 DEF PlayerOK
<1>3. Defeat(b, p) = c
  BY BoardFields DEF Defeat, Ids
<1> HIDE DEF pl
<1>4. /\ Ids(c) = Ids(b) /\ c.phase = b.phase /\ c.lastPlayer = b.lastPlayer
      /\ c.players[p] = pl
      /\ \A q \in Ids(b) : q # p => c.players[q] = b.players[q]
  BY OnePlayerReplaced
<1> HIDE DEF c
<1>5. \A q \in Ids(b) : /\ q # p => c.players[q].king = b.players[q].king
                        /\ c.players[q].ready     = b.players[q].ready
                        /\ c.players[q].hexbank   = b.players[q].hexbank
                        /\ c.players[q].armyCount = b.players[q].armyCount
                        /\ c.players[q].army      = b.players[q].army
  BY <1>2, <1>4
<1> QED BY <1>2, <1>3, <1>4, <1>5

\* incHexBank: one more in every bank.
LEMMA IncHexBankShows ==
  ASSUME NEW b, NEW A, BoardOK(b, A)
  PROVE  LET c == IncHexBank(b)
         IN /\ Ids(c) = Ids(b) /\ c.phase = b.phase /\ c.lastPlayer = b.lastPlayer
            /\ \A q \in Ids(b) : /\ c.players[q].king      = b.players[q].king
                                 /\ c.players[q].ready     = b.players[q].ready
                                 /\ c.players[q].hexbank   = b.players[q].hexbank + 1
                                 /\ c.players[q].armyCount = b.players[q].armyCount
                                 /\ c.players[q].army      = b.players[q].army
<1> DEFINE f == [p \in Ids(b) |-> [b.players[p] EXCEPT !.hexbank = @ + 1]]
           c == [b EXCEPT !.players = f]
<1>1. \A p \in Ids(b) : PlayerOK(b.players[p], A) BY DEF BoardOK, Ids
<1>2. \A q \in Ids(b) : /\ f[q].king      = b.players[q].king
                        /\ f[q].ready     = b.players[q].ready
                        /\ f[q].hexbank   = b.players[q].hexbank + 1
                        /\ f[q].armyCount = b.players[q].armyCount
                        /\ f[q].army      = b.players[q].army
  BY <1>1 DEF PlayerOK
<1>3. DOMAIN f = Ids(b) OBVIOUS
<1> HIDE DEF f
<1>4. c.players = f /\ c.phase = b.phase /\ c.lastPlayer = b.lastPlayer BY BoardFields
<1>5. IncHexBank(b) = c BY DEF IncHexBank, f
<1> HIDE DEF c
<1> QED BY <1>2, <1>3, <1>4, <1>5 DEF Ids

\* startBoard: a king and four characters that stand still, for everybody.
LEMMA StartBoardShows ==
  ASSUME NEW b, NEW A, BoardOK(b, A), b.phase = "lobby"
  PROVE  LET c == StartBoard(b)
         IN /\ Ids(c) = Ids(b) /\ c.phase = "playing" /\ c.lastPlayer = b.lastPlayer
            /\ \A q \in Ids(b) : /\ c.players[q].king      = "alive"
                                 /\ c.players[q].ready     = b.players[q].ready
                                 /\ c.players[q].hexbank   = b.players[q].hexbank
                                 /\ c.players[q].armyCount = b.players[q].armyCount + 4
                                 /\ Idle(c.players[q])
<1> DEFINE f == [p \in Ids(b) |-> Mobilised(b.players[p])]
           g == [t \in Tiles |-> Occupant(b.players, t)]
           c == [b EXCEPT !.phase = "playing", !.players = f, !.tiles = g]
<1>1. \A p \in Ids(b) : /\ Mobilised(b.players[p]).king      = "alive"
                        /\ Mobilised(b.players[p]).ready     = b.players[p].ready
                        /\ Mobilised(b.players[p]).hexbank   = b.players[p].hexbank
                        /\ Mobilised(b.players[p]).armyCount = b.players[p].armyCount + 4
                        /\ Idle(Mobilised(b.players[p]))
  <2> TAKE p \in Ids(b)
  <2> DEFINE pl   == b.players[p]
             army == [n \in pl.armyCount + 1 .. pl.armyCount + 4 |->
                       [at |-> SquadTile(pl.index, n - pl.armyCount), dest |-> Nowhere]]
  <2>1. pl \in [address : A, index : Nat, ready : BOOLEAN, hexbank : Nat,
               armyCount : Nat, king : {"none", "alive", "dead"}, army : {pl.army}]
    BY DEF BoardOK, PlayerOK, Ids
  <2>2. Mobilised(pl) = [pl EXCEPT !.armyCount = @ + 4, !.king = "alive", !.army = army]
    BY DEF Mobilised
  <2>3. \A n \in DOMAIN army : army[n].dest = Nowhere OBVIOUS
  <2> HIDE DEF army, pl
  <2>4. /\ Mobilised(pl).king = "alive" /\ Mobilised(pl).ready = pl.ready
        /\ Mobilised(pl).hexbank = pl.hexbank /\ Mobilised(pl).armyCount = pl.armyCount + 4
        /\ Mobilised(pl).army = army
    BY <2>1, <2>2
  <2> QED BY <2>3, <2>4 DEF pl, Idle
<1>2. DOMAIN f = Ids(b) /\ \A p \in Ids(b) : f[p] = Mobilised(b.players[p]) OBVIOUS
<1> HIDE DEF f, g
<1>3. c.players = f /\ c.phase = "playing" /\ c.lastPlayer = b.lastPlayer
  <2>1. b \in [phase : {"lobby", "playing", "ended"}, lastPlayer : Nat,
              players : {b.players}, tiles : [Tiles -> Nat \X Nat]]
    BY BoardFields
  <2> QED BY <2>1
<1>4. StartBoard(b) = c BY DEF StartBoard, f, g
<1> HIDE DEF c
<1> QED BY <1>1, <1>2, <1>3, <1>4 DEF Ids

\* addCharacter: one more order of p, a bank that does not grow and that is as it
\* was where the order is refused, and nobody starts to move.
OrderTaken(b, c, p, t) ==
  /\ Ids(c) = Ids(b) /\ c.phase = b.phase /\ c.lastPlayer = b.lastPlayer
  /\ c.players[p].armyCount = b.players[p].armyCount + 1
  /\ \A q \in Ids(b) : /\ q # p => c.players[q] = b.players[q]
                       /\ c.players[q].king = b.players[q].king
                       /\ c.players[q].ready = b.players[q].ready
                       /\ c.players[q].hexbank <= b.players[q].hexbank
                       /\ BuyRefused(b.players[p], t) =>
                            c.players[q].hexbank = b.players[q].hexbank
                       /\ Idle(b.players[q]) => Idle(c.players[q])

LEMMA OneOrderTaken ==
  ASSUME NEW b, NEW A, BoardOK(b, A), NEW p \in Ids(b), NEW t, NEW c, NEW pl,
         Ids(c) = Ids(b), c.phase = b.phase, c.lastPlayer = b.lastPlayer, c.players[p] = pl,
         \A q \in Ids(b) : q # p => c.players[q] = b.players[q],
         pl.king = b.players[p].king, pl.ready = b.players[p].ready,
         pl.armyCount = b.players[p].armyCount + 1, pl.hexbank <= b.players[p].hexbank,
         BuyRefused(b.players[p], t) => pl.hexbank = b.players[p].hexbank,
         Idle(b.players[p]) => Idle(pl)
  PROVE  OrderTaken(b, c, p, t)
<1>1. \A q \in Ids(b) : b.players[q].hexbank <= b.players[q].hexbank
  BY DEF BoardOK, PlayerOK, Ids
<1> QED BY <1>1 DEF OrderTaken

LEMMA AddCharacterShows ==
  ASSUME NEW b, NEW A, BoardOK(b, A), NEW p \in Ids(b), NEW t \in DOMAIN Cost
  PROVE  OrderTaken(b, AddCharacter(b, p, t), p, t)
<1> DEFINE pl   == b.players[p]
           n    == pl.armyCount + 1
           h    == pl.hexbank - Cost[t]
           home == Spawn(pl.index)
           less == [pl EXCEPT !.armyCount = n]
           paid == [pl EXCEPT !.armyCount = n, !.hexbank = h]
           army == Enlist(pl.army, n, home)
           full == [paid EXCEPT !.army = army]
           f    == [b.players EXCEPT ![p] = full]
           g    == [b.tiles EXCEPT ![home] = <<p, n>>]
           c    == [b EXCEPT !.players = f, !.tiles = g]
<1>1. PlayerOK(pl, A) BY DEF BoardOK, Ids
<1>2. pl \in [address : A, index : Nat, ready : BOOLEAN, hexbank : Nat,
             armyCount : Nat, king : {"none", "alive", "dead"}, army : {pl.army}]
  BY <1>1 DEF PlayerOK
<1>3. /\ DOMAIN army = DOMAIN pl.army \cup {n} /\ army[n].dest = Nowhere
      /\ \A m \in DOMAIN pl.army : m # n => army[m] = pl.army[m]
  BY DEF Enlist
<1>4. \/ AddCharacter(b, p, t) = [b EXCEPT !.players[p].armyCount = n]
      \/ /\ ~BuyRefused(pl, t)
         /\ \/ AddCharacter(b, p, t) = [b EXCEPT !.players[p] = paid]
            \/ AddCharacter(b, p, t) = [b EXCEPT !.players[p] = full, !.tiles[home] = <<p, n>>]
  BY DEF AddCharacter, CanAddCharacter
<1>5. /\ [b EXCEPT !.players[p].armyCount = n]
           = [b EXCEPT !.players = [b.players EXCEPT ![p] = less]]
      /\ [b EXCEPT !.players[p] = paid]
           = [b EXCEPT !.players = [b.players EXCEPT ![p] = paid]]
      /\ [b EXCEPT !.players[p] = full, !.tiles[home] = <<p, n>>] = c
  BY BoardFields DEF Ids
<1>6. h <= pl.hexbank /\ pl.hexbank <= pl.hexbank BY <1>2, BoardAssumption
<1> HIDE DEF army, h, n
<1>7. /\ less.king = pl.king /\ less.ready = pl.ready /\ less.hexbank = pl.hexbank
      /\ less.armyCount = n /\ less.army = pl.army
      /\ paid.king = pl.king /\ paid.ready = pl.ready /\ paid.hexbank = h
      /\ paid.armyCount = n /\ paid.army = pl.army
      /\ full.king = pl.king /\ full.ready = pl.ready /\ full.hexbank = h
      /\ full.armyCount = n /\ full.army = army
  BY <1>2
<1> HIDE DEF less, paid, full
<1>8. Idle(pl) => Idle(less) /\ Idle(paid) /\ Idle(full) BY <1>3, <1>7 DEF Idle
<1>9. /\ DOMAIN f = Ids(b) /\ f[p] = full
      /\ \A q \in Ids(b) : q # p => f[q] = b.players[q]
  BY DEF Ids
<1> HIDE DEF f, g
<1>10. c.players = f /\ c.phase = b.phase /\ c.lastPlayer = b.lastPlayer BY BoardFields
<1> HIDE DEF c
<1>11. OrderTaken(b, [b EXCEPT !.players = [b.players EXCEPT ![p] = less]], p, t)
  <2> DEFINE d == [b EXCEPT !.players = [b.players EXCEPT ![p] = less]]
  <2>1. /\ Ids(d) = Ids(b) /\ d.phase = b.phase /\ d.lastPlayer = b.lastPlayer
        /\ d.players[p] = less
        /\ \A q \in Ids(b) : q # p => d.players[q] = b.players[q]
    BY OnePlayerReplaced
  <2> HIDE DEF d
  <2>2. OrderTaken(b, d, p, t) BY <1>6, <1>7, <1>8, <2>1, OneOrderTaken DEF n
  <2> QED BY <2>2 DEF d
<1>12. CASE ~BuyRefused(pl, t)
  <2>1. OrderTaken(b, [b EXCEPT !.players = [b.players EXCEPT ![p] = paid]], p, t)
    <3> DEFINE d == [b EXCEPT !.players = [b.players EXCEPT ![p] = paid]]
    <3>1. /\ Ids(d) = Ids(b) /\ d.phase = b.phase /\ d.lastPlayer = b.lastPlayer
          /\ d.players[p] = paid
          /\ \A q \in Ids(b) : q # p => d.players[q] = b.players[q]
      BY OnePlayerReplaced
    <3> HIDE DEF d
    <3>2. OrderTaken(b, d, p, t) BY <1>6, <1>7, <1>8, <1>12, <3>1, OneOrderTaken DEF n
    <3> QED BY <3>2 DEF d
  <2>2. OrderTaken(b, c, p, t)
    <3>1. /\ Ids(c) = Ids(b) /\ c.players[p] = full
          /\ \A q \in Ids(b) : q # p => c.players[q] = b.players[q]
      BY <1>9, <1>10 DEF Ids
    <3> QED BY <1>6, <1>7, <1>8, <1>10, <1>12, <3>1, OneOrderTaken DEF n
  <2> QED BY <1>4, <1>5, <1>11, <2>1, <2>2
<1> QED BY <1>4, <1>5, <1>11, <1>12
=============================================================================
