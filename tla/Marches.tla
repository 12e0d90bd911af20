------------------------------- MODULE Marches -------------------------------
(***************************************************************************)
(* A game that is on, and a client that watches it: how the moves of the   *)
(* characters get from the board of the server to the replica of a client  *)
(* (TileBoard::updateCharacterLocation and updateLocationsOnClient, and    *)
(* the handlers of src/src/main.cpp).                                      *)
(*                                                                         *)
(* The 'L' packet is a row of bytes, four for each character, and is sent  *)
(* as a string: it ends at the first zero, be it a coordinate, and then    *)
(* the client reads on behind its end.  Every client handles the broadcast *)
(* alike, so there is one; the orders come from any client.                *)
(***************************************************************************)
EXTENDS DedicatedServer

CONSTANTS
  Behind,    \* the bytes that may lie behind a packet in the client's memory
  MaxDown    \* bound: packets under way

\* What is written into a char is read from it: ids, numbers and coordinates
\* stay below 128 (the start adds four characters to what was ordered before).
ASSUME MarchAssumption ==
  /\ Size <= 128 /\ MaxJoins < 128 /\ MaxTries + 4 < 128
  /\ Behind \subseteq Seq(0 .. 255) /\ Behind # {} /\ MaxDown \in Nat \ {0}

VARIABLES replica,   \* the client's board
          down,      \* the packets under way to it
          garbled    \* "no", or how a packet that was cut or named a character
                     \* the client does not have was read

marchVars == <<vars, replica, down, garbled>>

-----------------------------------------------------------------------------
(* The packet *)

\* Up to the first zero, which is the end of the string.
AsString(bytes) ==
  LET zeros == {k \in DOMAIN bytes : bytes[k] = 0}
  IN IF zeros = {} THEN Append(bytes, 0)
     ELSE SubSeq(bytes, 1, CHOOSE k \in zeros : \A j \in zeros : k <= j)

\* The entries, byte after byte.
Bytes(entries) == [k \in 1 .. 4 * Len(entries) |-> entries[(k + 3) \div 4][((k - 1) % 4) + 1]]

\* What SendMessage makes of a packet.
OnTheWire(m) == IF m[1] = "L" THEN <<"L", AsString(Bytes(m[2]))>> ELSE m

-----------------------------------------------------------------------------
(* The client *)

\* setCharacterTile: the tile left behind is cleared.
SetCharacterTile(b, p, n, xy) ==
  [b EXCEPT !.tiles = [[@ EXCEPT ![b.players[p].army[n].at] = Empty] EXCEPT ![xy] = <<p, n>>],
            !.players[p].army[n].at = xy]

Known(b, p, n) == p \in Ids(b) /\ n \in DOMAIN b.players[p].army

(***************************************************************************)
(* updateLocationsOnClient: four bytes at a time until the first of four   *)
(* is zero, a player or a character is unknown ("failed"), or the place is *)
(* outside the board, which is a write outside an array ("stray").         *)
(***************************************************************************)
Byte(memory, k) == IF k \in DOMAIN memory THEN memory[k] ELSE 0

\* The k-th entry of the memory.
ReadEntry(memory, k, before) ==
  LET p == Byte(memory, 4 * k - 3)
      n == Byte(memory, 4 * k - 2)
      xy == <<Byte(memory, 4 * k - 1), Byte(memory, 4 * k)>>
  IN CASE before.as # "reading" -> before
       [] before.as = "reading" /\ p = 0 -> [before EXCEPT !.as = "done"]
       [] before.as = "reading" /\ p # 0 /\ ~ Known(before.board, p, n) ->
            [before EXCEPT !.as = "failed"]
       [] before.as = "reading" /\ p # 0 /\ Known(before.board, p, n) /\ xy \notin Tiles ->
            [before EXCEPT !.as = "stray"]
       [] OTHER -> [before EXCEPT !.board = SetCharacterTile(@, p, n, xy)]

UpdateLocationsOnClient(b, packet, behind) ==
  LET memory == packet \o behind
      Read[k \in 0 .. Len(memory)] ==
        IF k = 0 THEN [board |-> b, as |-> "reading"]
        ELSE ReadEntry(memory, k, Read[k - 1])
  IN Read[Len(memory)]

\* The packet was taken: its board is b.
Takes(b) == replica' = b /\ down' = Tail(down) /\ UNCHANGED <<vars, garbled>>

Heard(kinds) == down # <<>> /\ Head(down)[1] \in kinds

\* A packet that ends in the middle of an entry was cut.
Whole(packet) == Len(packet) % 4 = 1

\* 'L', in a whole packet whose characters the client knows.
HearLocations ==
  /\ Heard({"L"})
  /\ LET packet == Head(down)[2]
         read == UpdateLocationsOnClient(replica, packet, <<>>)
     IN Whole(packet) /\ read.as = "done" /\ Takes(read.board)

\* 'L' otherwise: the board is whatever the bytes behind the packet make of it,
\* and the replica is followed no further.
HearGarbage ==
  /\ Heard({"L"})
  /\ \E behind \in Behind :
       LET packet == Head(down)[2]
           read == UpdateLocationsOnClient(replica, packet, behind)
       IN /\ ~ Whole(packet) \/ read.as # "done"
          /\ garbled' = read.as
  /\ down' = <<>> /\ replica' = EmptyBoard
  /\ UNCHANGED vars

\* "GM": the destination is set if the replica's tile is empty; an unknown
\* character is reported to the server, which ignores the report.
HearOrder ==
  /\ Heard({"GM"})
  /\ LET p == Head(down)[2]
         o == Head(down)[3]
     IN Takes(IF Known(replica, p, o[1]) THEN SetCharacterDest(replica, p, o[1], o[2])
              ELSE replica)

\* "TH", and what changes nothing: "GB" and 'W'.
HearNews ==
  /\ Heard({"TH", "GB", "W"})
  /\ Takes(IF Head(down)[1] = "TH" THEN IncHexBank(replica) ELSE replica)

-----------------------------------------------------------------------------
\* A step of the server; E are the events it may take.
Serve(E) ==
  /\ Len(down) < MaxDown
  /\ FinishTurn \/ TimedEvent(E)
  /\ down' = IF garbled = "no" THEN down \o [k \in DOMAIN sent' |-> OnTheWire(sent'[k])]
             ELSE <<>>
  /\ UNCHANGED <<replica, garbled>>

MarchNext(E) ==
  \/ Serve(E) \/ HearLocations \/ HearGarbage \/ HearOrder \/ HearNews
  \/ Dead /\ UNCHANGED <<replica, down, garbled>>

\* A game that is on, and a client that has heard so: it stands where the server
\* does, and orders come.
MarchInit ==
  /\ IInv /\ IsStarted(board) /\ stage = "service"
  /\ replica = board /\ down = <<>> /\ garbled = "no"

MarchEvents ==
  {NoEvent} \cup UNION {{From(a, m) : m \in {x \in ClientPackets(a) : x[1] \in {"GM", "GB"}}} :
                        a \in members}

MarchSpec == MarchInit /\ [][MarchNext(MarchEvents)]_marchVars

-----------------------------------------------------------------------------
(* Properties *)

\* Everything has arrived.
Quiet == stage = "service" /\ down = <<>>

\* Once everything has arrived, a client to which no packet came cut and that
\* knows every character that moved sees everybody where the server has them:
\* the replica is moved by reports alone, and a character that is reported
\* again where it stood, or reported onto a tile somebody else is on, throws
\* the others off no more than that character itself.
PositionsFollow ==
  Quiet /\ garbled = "no" =>
    \A p \in Ids(board) : \A n \in DOMAIN replica.players[p].army :
      replica.players[p].army[n].at = board.players[p].army[n].at

InSight(b, p, n) == b.tiles[b.players[p].army[n].at] = <<p, n>>

\* A character whose tile points to it is taken for gone, so that others walk onto
\* it, by the two faults of updateLocation alone and by what follows from them: it
\* is blocked, or makes the step of the last branch, which writes another tile;
\* somebody else makes that step and writes its tile (Character.cpp:112); or
\* somebody who was out of sight, and whom it had walked onto, leaves (:114).  No
\* other move, purchase or order hides anybody.
StaysInSight ==
  [][\A p \in Ids(board) \cap Ids(board)' :
       \A n \in (DOMAIN board.players[p].army) \cap (DOMAIN board'.players[p].army) :
         InSight(board, p, n) /\ ~InSight(board', p, n) =>
           LET v    == sweep'.at
               from == board.players[v[1]].army[v[2]].at
               to   == board'.players[v[1]].army[v[2]].at
               last == to = <<from[1], from[2] - 1>>
               at   == board.players[p].army[n].at
           IN /\ stage = "sweep" /\ v # Empty /\ v # sweep.at
              /\ \/ v = <<p, n>> /\ (to = from \/ last)
                 \/ v # <<p, n>> /\ at = from /\ ~InSight(board, v[1], v[2])
                 \/ v # <<p, n>> /\ last /\ at = <<from[1] - 1, from[2] - 1>>]_vars
=============================================================================
