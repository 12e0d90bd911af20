# A verification project for HexSoft

HexSoft ("The Kings of Kohmaydie") is a multiplayer board game: a dedicated
server, Windows clients with a Direct3D view, and a master server that lists the
game servers.  This directory holds TLA+ modules that model the game server, the
rules of the board, the clients, the master server, the network library they use
and the reader of the table of attributes; configurations that check them with TLC; and
proofs checked by TLAPS.  Paths below are relative to `src/` of the repository,
lines as `File.cpp:line`.

## Inventory

| Part | Source | State | Operations | Modules |
|---|---|---|---|---|
| Game rules | `src/game/TileBoard`, `Player`, `Character` | players, their armies and banks, the 10 x 10 tiles, `startTime` (lobby, playing, ended) | join, leave, ready, start, end, buy, set a destination, move, income | `TileBoard`, `Marches` |
| Game server | `src/network/DedicatedServer.cpp`, `NetServer.cpp` | one board, the start timer, the vector of client slots, a client object per connection | one loop: take an event, `TimedEvent`, handle the event | `DedicatedServer`, `Connections` |
| Game client | `src/main.cpp`, `src/network/NetClient.cpp` | one board (a replica), `thisPlayer`, one connection | keys, one handler per packet | `GameSession`, `Marches`, `Connections`, `Sessions` |
| Master server | `src/network/Master.cpp` | the records of servers and the list as text | register, unregister, list, expiry | `MasterServer` |
| ENet | `src/enet` | hosts, peers, channels, lists of commands | connect, send, disconnect; one service call: take a datagram, look for timeouts, send | `ENetPeer`, `ENetProtocol`, `ENetService`, `ENetFlow`, `RangeCoder` |
| TinyXML | `src/include/TinyXML` | a tree | load a file, save it; `Character` reads its attributes from it | `TinyXml` |
| Graphics | `src/graphics` | a scene graph | drawing | not modelled |

**How they interact.**  A client connects through ENet and asks for an id (`"CX"`)
and for the list of ready players (`"SRX"`).  The server answers everything by
`Broadcast`, to all the clients in its slots, without naming an addressee.  Keys
send ready flags (`"SR"`, `"SN"`), purchases (`"GB"`) and moves (`"GM"`); the
server changes its board and broadcasts the packet, and the clients change their
replicas when they hear it.  Two or more players who are all ready for a second
start the game (`"SG"`); while it is on `TimedEvent` pays income (`"TH"`), moves
the characters (`'L'`) and looks for a winner (`'W'`).  A client that goes loses
the game (`"SD"`) or, in the lobby, is removed.  The game server is itself a client
of the master server, on the same ENet host as its players.

**What is hard.**  The event of a turn is taken before `TimedEvent` and handled
after it, so it may be handled in another phase of the game than it was taken in.
Players are found by the address of a peer slot, and slots are reused.  The
countdown is a sample of the flags, once a turn.  Broadcasts mix with the answers
to a new client.  A purchase fails half way.  Numbers of characters depend on the
history of refused orders.  The reports of moves are binary numbers in a string.
Below that, datagrams are lost, late, reordered and duplicated, an address comes
back while datagrams of its last connection are under way, and numbers come around.
The full list, with lines, is under `hazards` in `PROJECT.json`; each entry names
the properties aimed at it or says why there is none.

What makes each part correct:

* rules - tiles, armies and banks agree; a move brings a character nearer;
* server - a player belongs to a connected peer and to one only; the game starts
  after the countdown and not before; it ends when one survivor is left, and it
  cannot miss that moment; nothing happens to the armies before the start; the
  client objects are those of the connections there are;
* clients - when everything has arrived the replicas agree with the server, and a
  client that has an id knows whoever it is told about;
* master server - text and records agree, and nothing is listed that did not
  register lately;
* ENet - packets are handed over whole, once, in order and in the end; the two ends
  of a connection agree, and hear nothing of the connections just before; nobody waits for nothing, and a peer is given up neither
  early nor never;
* TinyXML - what is written is read again, and half a file is not taken for a shorter one.

## Modules

| Module | What it is |
|---|---|
| `TileBoard` | The rules as operators on a board value, named like the C++ methods.  No state. |
| `DedicatedServer` | The server as a state machine over a board; what the network may deliver is restricted to what the client program can send. |
| `Match` | The abstract specification of it: who is in, who is ready, who is alive, and the phase. |
| `Countdown` | `DedicatedServer` with an observer that measures how long everybody really was ready. |
| `GameSession` | `DedicatedServer` with its clients and two channels per connection in the place of arbitrary events. |
| `Marches` | `DedicatedServer` in a game, with a client that follows the characters by the packets it gets. |
| `ENetPeer` | `peer.c`: channels, sequence numbers, fragments, the queues of incoming commands.  Operators from a peer to a peer. |
| `ENetProtocol` | The connection: `host.c`, and the handlers of `protocol.c` that make and end one.  Operators from a host to a host. |
| `ENetService` | The rest of `enet_host_service`: data commands, acknowledgements, timeouts, what is sent, and what an application may ask. |
| `Connections` | The game server, its clients and the master server as ENet hosts with a net between them. |
| `Sessions` | `Connections` with a history of the connections each slot accepted, and bounds that let one slot be used many times. |
| `Transfer`, `TransferLive` | Two connected hosts, packets from one to the other; and the same under fairness. |
| `Delivery` | The abstract specification of `Transfer`: reliable packets, once and in order, and the last of them before a closed connection ends. |
| `ENetFlow` | The clock of one connection: timeouts, round trip times, pings, giving up. |
| `RangeCoder` | `compress.c`, the compressor. |
| `MasterServer` | The master server as a state machine. |
| `TinyXml` | Loading and saving a file, and what `Character` finds in it. |
| `SessionClaims`, `MasterClaims` | Sentences of the source that the code does not live up to, as properties. |
| `TileBoardProofs`, `DedicatedServerProofs` | Proofs about the rules, the server, and the server as a `Match`. |
| `ArmyProofs` | Proofs about the armies and their moves, and that a client which follows the reports of moves sees everybody in place. |
| `CountdownProofs`, `MasterServerProofs` | Proofs about the countdown and the master server. |
| `ConnectionProofs` | Proofs that what the game server believes of its clients is what its ENet host knows of them. |
| `GameSessionProofs` | Proofs that the clients cause nothing the server does not expect, and that their replicas agree with it. |
| `ENetFlowProofs` | Proofs about ENet's clock: timeouts, probes, the time in its headers. |
| `MCLobby`, `MCSession`, `MCMarches`, `MCConnections`, `MCTransfer`, `MCMaster`, `MCTinyXml` | Instances for TLC. |

### TileBoard

A board is a record of the phase (the three ranges of `startTime`), `lastPlayer`,
the players by id and the tiles.  Ids ascend and players are appended, so the
order of the vector is the order of the ids; the same holds for the numbers of
the characters of an army.  A tile holds the name `<<player, number>>` of the
character it points to, and that may be a name which is in no army any more, or
somebody who stands elsewhere: the two pieces of state are independent, as in the
code.  `UpdateLocation` keeps the two peculiarities of `Character::updateLocation`:
the last branch writes a tile other than the one it moves to, and the tile of
departure is cleared also when nobody departed.  `AddCharacter` keeps the order of
`addArmy` and `addCharacter`: number, price, tile, and the price is not given back.

Left out: health and attack attributes, which nothing reads; cooldowns, which are
always zero because nothing sets one; `printBoard`; `getDeadChars`, which nothing
calls.

### DedicatedServer

One turn of `NetServer::ServerStep` is a walk through the variable `stage`:

1. `service` - an event is taken (`event`) and `TimedEvent` runs.  Its branches are
   the actions `StartTimer`, `KeepCounting`, `StartGame`, `ResetTimer`, `EndGame`,
   `PlayTick`, `AfterTheGame`.
2. `sweep` - only in a game: `updateCharacterLocation`, one character per step
   (`SkipCharacter` if its 1500 ms have not passed, `MoveCharacter`,
   `CrashOnStrayWrite`), and `EndSweep`, which broadcasts the packet.
3. `handle` - the handler of the event: one action per packet and per kind of event.

`sent` is what the last step broadcast.  `crashed` is a process that dereferenced
NULL or wrote outside the board.  The clock appears only where a decision depends
on it: `startGameTimer` counts `Tick`s up to `StartDelay`, and whether the income
or a character is due is chosen freely.  `ClientPackets` follows the keys of
`main.cpp`: a client may name any id that was ever given out, since clients take
the answers to others for their own.

The vector of client slots is the set `members`.  A slot is found through the peer
and slots only matter for `Broadcast`, which visits all of them.

### GameSession

A peer slot holds at most one client: its link, its replica, its id (`me`) and the
two sequences `up` and `down`.  A broadcast is appended to `down` of all the
members that are still there; a departed client takes its channels with it.  The
client's handlers are `ReceiveId`, `ReceiveFlag`, `ReceiveLoss`, `ReceiveStart`,
`ReceiveIncome`, `ReceiveNews` (packets that change nothing) and `Crash` (a NULL
`thisPlayer` or `kingChar` is dereferenced).  The report of an unknown player has no
action: a client without an id dies before it is sent, and one with an id knows
everybody (`NewsFindsItsSubject`, which says for each packet what its handler needs to
find in the board).  Nobody moves in `GameSession`, so there are no reports of
moves in it, and nothing here says that a client survives one: it may not, and `Marches` has
that.
That the events so caused are among those `DedicatedServer` allows is checked and
proved (`ClientsAreBorne`): the property `Spec` of that module is a property of this
one, so what is proved of the server holds in the session.

Of ENet it takes what the code relies on: packets with `ENET_PACKET_FLAG_RELIABLE`
on one channel arrive once and in order as long as the connection lasts; a peer
structure is not reused before its disconnection was reported.  The first is
`Delivers` of `Transfer`, the second is part of `ObjectsMatchPeers` of
`Connections`, both checked of the code in `src/enet`.

A key pressed in a started game sends `"S"` without a terminator, and the server
looks at the byte behind it: `PressReadyLate` chooses among the readings.

### Marches

`updateCharacterLocation` writes four bytes per character into a buffer that is then
broadcast as a string.  `OnTheWire` cuts it at the first zero (a column or a row 0),
and the client reads four bytes at a time until the first of four is zero: in a
packet that was cut (`Whole`) it reads on in what lies behind, the constant
`Behind`.  `HearLocations` is the packet that arrived whole; `HearGarbage` is every
other, after which the replica is followed no further and `garbled` tells how the
reading ended: `failed` (an unknown player or character), `stray` (a write outside
the board), or read as if nothing were wrong.  Purchases and the start reach the
replica as `main.cpp` handles them; all clients hear the same broadcasts, so there
is one.  `Bytes` lays the entries out in the buffer and `ReadEntry` is one round of the
client's loop.  `MarchSpec` starts in any state of a started game that satisfies the
server's invariant, with a client that stands where the server does, and takes every
order that any member may send; nobody leaves.  `GameSpec` of the instance starts with
`startBoard` and takes some of these orders.

### ENet

The state of a host is a record, with a record for each peer and for each of its
channels, field by field as in `enet.h` where a decision depends on the field.  One
operator stands for one function and takes and returns the host (or the peer): the
three modules have no variables, and the modules that use them choose when a
function is called.  Lists are sequences in the order of the code, sequence numbers
are taken modulo `Windows * WindowSize` where the code has sixteen bits, and the
relations between the constants are those of `enet.h` (`PeerAssumption`): half of
the windows are free ones, and both kinds of window make one lap.

`Service(host, self, batch, choices, ...)` is `enet_host_service`: datagrams of the
batch one after the other until one of them makes an event, then sending, one pass
over the peers after the other while the last one left something unsent.  What the
clock and the throttle decide is in `choices`: which commands have timed out,
which peers are given up, which are idle enough for a ping, which unreliable packets
are throttled.  `ENetFlow` is the other half, with the clock and without these
choices.

Where C code leaves something half done the model does too: `CheckTimeouts` puts the
command back before it looks whether the peer is to be given up, the handlers that
fail end the datagram with the commands before it handled, and the shift of the
window mask in `WindowsAhead` is the one of `protocol.c:1435`.

### Connections

One host per program.  An action is one `ServerStep` or one round of `Poll`, with the
event ENet returns and what its handler does to the client objects: `ServerAccepts`
and `ServerRefuses` (`HandleConnect`, whose answer is free), `ServerLosesClient`,
`ServerHandlesPacket`, and the same for the peer that is the master server.  The net
is a set of datagrams; a call takes any of those addressed to it in any order, a
lost datagram is one that is never taken, and a duplicate is one that is taken and
stays.  A client may disconnect properly (`Disconnect` of `NetClient`), be killed
(`ClientCrashes`), and connect again from the same address, with all the datagrams
of the old connection still there.  `Sessions` takes the same actions and
records which connections each slot accepted (`accepted`); its `Menus` bound them, and one
lets five connections follow one another on one slot, with few datagrams under way.
Connection ids are counted: they are the time in
the code, and two connections of one address are never begun in one millisecond.

### Transfer, TransferLive and Delivery

The connection is made by the handlers themselves in `Init`, and a number of packets
is sent before, so that the sequence numbers stand where the behaviour is to begin
(`Menus`).  `sent` and `got` record what the applications saw.  `Promise` maps the
reliable packets among them to `Delivery`.  In one menu the sender may call
`enet_peer_disconnect_later` at any time (`Closes`); its comment promises that the
connection ends "only after all queued outgoing packets are sent", which for the
receiver means that the last packet is handed over before its end is taken down:
`closed` and `ended` of `Delivery` are the two states of the connection.

That is so of reliable packets.  Where the last packets are unreliable,
`enet_peer_disconnect` is called (`protocol.c:1352`) between the moment they are put into the
buffers of a datagram and the moment it is sent (`:1677`), and frees them (`peer.c:318`).
`SendLast` makes every byte of them `Undefined` (`OfFreedMemory`): a symbol for whatever the memory holds
by then, which is one symbol and not a choice of values because no decision of ENet
depends on the data of a packet.  It remembers what the byte was, so that
`WholeOnceInOrder` can still say which packet it is, and that only such packets are
damaged.

### ENetFlow

One end of a connection: commands with their send times and timeouts, the estimate
of the round trip time, and a clock that moves by `Turn` at each call.  The other
end is an answer to each datagram that may come at any time, or not.
`measured` is the age an answer had and the age the code found, from the sixteen
bits of the time in its header.

### RangeCoder

Encoder and decoder with their models, symbol by symbol, over the array of symbols
and the trees in it: contexts, escapes, counts, rescaling, and starting anew when the
array is full.  Widths are constants.  The program never installs the compressor
(`enet_host_compress_with_range_coder` has no caller), so nothing of the other
modules depends on it.

### MasterServer

One action is one round of `main`: the packet (`RegistersAgain`, `RegistersFirst`,
`RegistersInUsedSlot`, `Unregisters`, or nothing that changes the records) and, when it is due, the
refresh.  `server_list` is kept beside the records as the code keeps its text;
`Rewritten` is the text `RecreateList` makes, one record after the other in the order
of the vector.  A server is an address and a port.  In
`RegistersInUsedSlot` the port is asked of a record past the last one, which throws
and ends the program (`Master.cpp:195`); `Restarts` begins again with nothing.
`Unregisters` has the `strcmp` of `Master.cpp:219`, which finds somebody else.

### TinyXml

A file is a sequence of pieces of text, each as long as the reader's decisions need:
a bracket, a quote, a name.  `LoadFile` is the parser, with the elements it stays in,
its errors and its way with white space and entities; `SaveFile` the printer;
`InitializeAttributes` the walk of `Character.cpp` from the root to the five values of a
soldier, and what becomes of the soldier otherwise.  A missing node ends the program, by
an assertion or because it is followed.  A file that does not load does not: that is
printed, and the constructor goes on with five members that were never assigned
(`uninitialised`).  The modules of the game take the attributes as given, that is, they
are about games whose file was loaded.  The state is a file that is edited,
piece by piece, or cut.

## Runs

| Run | Instance | Shows |
|---|---|---|
| `lobby` | 3 peers (symmetric), 3 players at most, 4 joins, countdown 3 | `TypeOK`, `AddressOwnership`, `SurvivorRemains`, `DefeatFindsKing`, `CornersShared` (corners are shared only after somebody has left the lobby), `StartsAfterCountdown`, and `MatchSafety`: the server implements `Match` |
| `marches` | 2 players on 4 x 4 tiles, armies of up to 5, one purchase, five orders at most, one packet under way, the bytes 0, 2 or 9 behind a packet | `TilesReferToArmies`, `StaysInSight` (a character is hidden from the others by the two faults of `updateLocation` only, and by what follows from them), and `PositionsFollow`: a client that got every report whole sees everybody in place |
| `session` | 2 slots (symmetric), 3 connections and 3 keys, five of them in all, purchases, one income | `ReadyAgreement`, `GameAgreement`, `IncomeAgreement`, `NewsFindsItsSubject`, `NothingBeforeStart`, and `Spec`, the one of `DedicatedServer` |
| `session_live` | 2 slots, 2 connections, 2 keys, countdown 1, fair | `StartReachesClients`; a decided match is declared over (`MatchDeclared`); a ready lobby starts (`ReadyLeadsToStart`) |
| `connections` | 1 client address, 1 message, one datagram a call; first 2 peers at the server, 1 at the master server, 2 connections begun, 1 fault; then 1 slot, no master server, 5 connections begun, no fault but losses, 2 datagrams under way | `StrangersAreOld`: a datagram is handled as coming from another connection only if that is the fourth, or eighth ..., of the slot after its own; `NobodyStuck`, `ObjectsMatchPeers`, `BroadcastOnce`, `EndsAgree` |
| `transfer` | five menus: all kinds of packets, packets of one and of two pieces with a graceful close, eight packets around the lap, and two with unlimited retries under fairness | `WholeOnceInOrder` (but for the content of what is freed too early), `AcknowledgedIsThere`, `AccountsBalance`, `Delivers` (it implements `Delivery`), `EventuallySettled` |
| `flow` | round trips of 8, a limit of 2, silence from 32 to 64, pings after 8, a sent time modulo 128, a clock from 100 to 260, one packet and two answers | `NotGivenUpEarly`, `NobodyWaitsForEver` (a command that is never answered ends the connection), `IdleIsProbed`, `MeasuredRight` |
| `master` | 3 servers on 2 hosts, timeout 2, refresh 1, time up to 7 | `ListedOnce`, `ListMatchesRecords`, `AnswersAreFresh` |
| `codec` | 4 values, base 5, inputs of up to 7, 12 symbols, counts up to 7 | `RoundTrip`, `WithinArray` |
| `xml` | 5 files, two edits each of 11 insertions, deletions and cuts; 2 files with all attributes of a soldier, behind an archer in one, with one or two edits | `RoundTrip`; `ReadsAllOrNothing`: a part of a file gives all the values of the whole one or none |

The bounds and why they do:

* peers and joins: the behaviours at stake need two players and a third who comes,
  or comes back to a slot that was used before; `MaxJoins` exceeds the number of
  peers or of slots for that;
* `MaxPlayers` is 2 or 3 instead of 4, so that the board is full while somebody
  waits;
* `StartDelay`: three ticks leave room for two interruptions of a countdown; where
  the countdown is not the subject it is 0 or 1;
* `Size` 4 is the smallest board on which the four squads do not overlap, and the
  most crowded one; `MaxArmy` 5 leaves one place to buy; prices are 1;
* `MaxHexbank`, `MaxTries`, `MaxDials`, `MaxKeys`, `MaxInputs` cap counters in the guards of
  `PlayTick`, `ClientPackets`, `Dial` and `Press`; `MaxDown` the packets under way in
  `Marches`;
* ENet: six windows of two numbers, three of them free, keep the proportions of the
  code's sixteen, and eight packets go around them; a fragment has two bytes, a
  datagram four commands.  In the first menu of `connections` 2 connections are a client that comes back (or one that
  came and the master server), and 1 fault is a duplicate or a timeout at any
  moment - losses are not counted.  The second begins 5 connections because a slot has
  four session ids: its fifth connection is the first that has an id again, and there the
  server does handle a datagram of the first as one of the fifth (without its second
  part `StrangersAreOld` is violated, by a behaviour of 31 steps).  A menu bounds its own packets and faults; with
  `retries` only losses are counted, and timeouts are free;
* `flow`: a timeout doubles once before the limit, the range of silence has two
  turns on either side, the clock passes its lap (128) and half a lap more;
* `master`: long enough for a record to run out, to be refreshed away and to be
  registered again;
* `codec`: four values fill the array of 12 symbols within seven bytes, and counts
  of 7 are halved within them;
* `xml`: the five files have between them a declaration, comments, CDATA, a DOCTYPE,
  attributes in both quotes and in none, entities, and the path to a cost; two
  have every node that `Character` looks for, once with another type before.

**Deadlock.**  It is checked for the game (`lobby`, `marches`, `session`,
`session_live`): the loop of the server never blocks, and the state after a crash has
the explicit stutter `Dead`.  The other configurations say `CHECK_DEADLOCK FALSE`,
because these models stop when a bound is used up: connections and faults, the
clock, the length of the input, the edits.  That nobody is stuck before is
the invariant `NobodyStuck`, and the liveness of `transfer`.

**Fairness.**  `enet_host_service` returns after `HOST_TIMEOUT` (25 ms) at the
latest, so the server's loop goes on: weak fairness of `ServerStep`.  Time passes: weak
fairness of `Tick`.  A client calls `Poll` on each turn of its window loop: weak
fairness of `Receive(a)`.  Nothing is assumed of what people do.  In `TransferLive`
both hosts call `enet_host_service` again and again, a datagram that is not lost is
taken in the end, and a command that stays unacknowledged times out when nothing is
under way any more; the sum of losses is bounded by the menu, so this is
"if the net is not down for ever".  There `ENABLED` is written out as a plain
condition on the state.

### Disagreements between code and text

Two have a run that TLC must find violated, listed under `findings`:

* `identity` - a client that is connected and has no id yet takes the answer to
  somebody else's request, and two clients play one player;
* `registered` - a server that registers again after its registration ran out is
  not in the list, and one that would take the record of another ends the master
  server.

Seen while modelling, and part of the behaviour of the modules, without a run of
their own:

* the index of a player is the size of the vector at the time of joining, so after
  somebody left the lobby two armies may be placed in one corner
  (`TileBoard.cpp:181`; `CornersShared` says what does hold);
* the last branch of `updateLocation` writes another tile than the one it moves to
  (`Character.cpp:112`), a blocked character stays where it is and its tile is cleared
  (`:114`), so that others are moved onto somebody who is out of sight
  (`StaysInSight` says who can be), and the blocked one is reported as moved (`:116`);
* a report of moves ends at the first zero coordinate, and the client reads behind it and
  may write outside its board (`TileBoard.cpp:377`);
* the last unreliable packets before the end of a connection that waits for them are
  freed before they are sent (`protocol.c:1352`; the comment of
  `enet_peer_disconnect_later`, `peer.c:486`, says "only after all queued outgoing packets are
  sent"); the game sends reliable packets only, and never calls that function;
* a file that does not load leaves a soldier without values (`Character.cpp:54`;
  the comment of the function, `:35`, says "Initializes class values");
* a purchase that is refused because the spawn tile is taken is paid for
  (`TileBoard.cpp:307`);
* an order for a character that does not exist (key M in the lobby will do) ends the
  server (`DedicatedServer.cpp:205`); orders refused in the lobby shift the numbers
  of the characters (`Player.cpp:48`), so the key that moves the king may order
  nobody;
* a player who leaves the lobby stays in the replicas, because the server tells
  nobody (`DedicatedServer.cpp:256`); a client that finds the board full gets no
  answer (`:109`); a client without an id dies of the packets whose handlers print
  `thisPlayer->getId()` (`main.cpp:200` and others);
* the countdown is 1000 ms where a comment says 10 seconds
  (`DedicatedServer.cpp:42`);
* a datagram that is late by four connections of its slot has the session id of the
  present one and is handled as its own (`protocol.c:987`; `StrangersAreOld` says what
  does hold);
* an unreliable packet that waits for a reliable one may be dropped although it
  arrived (`peer.c:672`);
* the shift that should wrap the window mask is by `WINDOW_SIZE - w`
  (`protocol.c:1435`); the full window before keeps numbers from being used twice
  all the same, which is `AcknowledgedIsThere`;
* a file cut inside its `<?xml` declaration loads without an error and without a
  root, and `assert(node)` ends the program (`Character.cpp:43`).

### Mutants

For every property of a passing run `PROJECT.json` names a mutated operator of the
same module that breaks it under the same configuration.  Each is introduced by a
comment "Mutated ..." next to the definition it varies, and no other definition uses
it: for example `ResetNothing` leaves the start timer running when a flag is withdrawn,
`ResentForgotten` loses a command that timed out, and `FoundOther` looks for a
server by a `strcmp` taken the wrong way.

## Proofs

The theorems about the game hold for every set of peers, board size from 4 up, limit
of players and of armies, price list, set of orders and countdown (`BoardAssumption`,
`ServerAssumption`), those about the session for every number of connections and keys (`SessionAssumption`),
the one about reports of moves for any number of them under way and anything behind them in
memory (`MarchAssumption`, which also keeps ids, numbers and coordinates within a `char`),
those about the master server for every set of endpoints, timeout and refresh
(`MasterAssumption`), those about the connections for every number of peers, channels,
clients and connections, any batch of datagrams and anything `HandleConnect` may answer
(`ConnectionsAssumption`: addresses are different, and `Nobody`, the address of a peer
that never had one, is nobody's), and those about ENet's clock for every width of a sent time,
every length of a turn and all timeouts in their order, and for any number of commands
under way (`FlowAssumption`).  `CornersByDeparture` has the one hypothesis
`MaxPlayers <= 4`: `MAX_PLAYERS` is 4 in the code and the board has four corners.

| Theorem | Module | States |
|---|---|---|
| `TypeInvariant` | `DedicatedServerProofs` | `TypeOK` |
| `Ownership` | `DedicatedServerProofs` | `AddressOwnership` |
| `Survivors` | `DedicatedServerProofs` | `SurvivorRemains` |
| `EmptyLobby` | `DedicatedServerProofs` | `NothingBeforeStart` |
| `KingFound` | `DedicatedServerProofs` | `DefeatFindsKing` |
| `ImplementsMatch` | `DedicatedServerProofs` | `MatchSafety`: the server implements `Match` |
| `ClientsAreBorne` | `GameSessionProofs` | `Spec` of `DedicatedServer`: the session implements it |
| `FlagsAgree` | `GameSessionProofs` | `ReadyAgreement` |
| `MatchAgrees` | `GameSessionProofs` | `GameAgreement` |
| `BanksAgree` | `GameSessionProofs` | `IncomeAgreement` |
| `NewsUnderstood` | `GameSessionProofs` | `NewsFindsItsSubject` |
| `NothingDangles` | `ArmyProofs` | `TilesReferToArmies` |
| `OnlyApproaches` | `ArmyProofs` | `MovesApproach` |
| `CornersByDeparture` | `ArmyProofs` | `CornersShared` |
| `ReportsFollow` | `ArmyProofs` | `PositionsFollow` |
| `ConnectionsInv` | `ConnectionProofs` | what the server believes of its clients (`ConnInv`) |
| `ObjectsMatch` | `ConnectionProofs` | `ObjectsMatchPeers` |
| `BroadcastReachesOnce` | `ConnectionProofs` | `BroadcastOnce` |
| `CountdownKept` | `CountdownProofs` | `StartsAfterCountdown` |
| `NoneTwice` | `MasterServerProofs` | `ListedOnce` |
| `TextIsRecords` | `MasterServerProofs` | `ListMatchesRecords` |
| `NoStaleAnswer` | `MasterServerProofs` | `AnswersAreFresh` |
| `MarksSuffice` | `ENetFlowProofs` | `MeasuredRight` |
| `GivenUpWithCause` | `ENetFlowProofs` | `NotGivenUpEarly` |
| `IdleProbed` | `ENetFlowProofs` | `IdleIsProbed` |
| `EstimateStaysPositive` | `ENetFlowProofs` | no estimate and no timeout falls to zero |

`TileBoardProofs` has two lemmas per operation of the board: it keeps a board a
board (`...OK`), and it changes nothing the match is about (`...Same`) or changes
exactly what its name says (`...Match`).  Where an operator chooses a least or
greatest element, the choice is shown to exist from the well-foundedness of `<` on
the naturals.

**The inductive invariant of the server**, `IInv` (in `DedicatedServer`), is the
conjunction of the
five invariants with `TurnOK`, which says what a turn carries from its first stage
to its last.  None of the five is inductive alone.  `AddressOwnership` needs to know
that an event `Join` was sent by a member that has no player - a fact of the moment
it was taken, two steps before it is handled, which `TurnOK` keeps.
`SurvivorRemains` needs that a departure defeats at most one player, which is
`AddressOwnership`; and that `DefeatFindsKing` and `NothingBeforeStart` make
everybody alive after `StartBoard`.  `IInv` was checked with TLC as an invariant on
the instance of `lobby` and on one of orders in the lobby before it was proved.

**The refinement** maps `phase` to itself, `entrants` to the ids, `ready` to
`GetReadyPlayers`, `alive` to `GetGamePlayers`.  Joining maps to `Enter`, a
departure to `Withdraw`, `DropOut` or `Leave` by the phase it is handled in, and
everything else to a stutter.  `DropOut` never takes the last survivor: that is
`SurvivorRemains` in the stage `handle`.

**The session.**  `ClientsAreBorne` is a refinement with the identity as its mapping:
every event the real clients cause is in `Arrivals`, the set `DedicatedServer` draws
from.  It needs what the clients remember: one asks for an id first and once
(`JoinsOnce`), so while a request is under way or taken the lobby holds no player for
its slot (`JoinersUnknown`), an id is left for it, and an order cannot exceed what keys
were pressed (`CountersBounded`).

The agreement of the replicas is proved by following a client through the packets that
are under way to it.  `CaughtUp(a)` is what client a will be once it has taken them
all (`Replay` applies the handlers, `Reading`, from the first to the last), and the
invariant `ReplicasFollow` says that this client agrees with the server *now*, whatever is
under way, except that a flag may be missing from it until the ready list it asked for
was answered (`AskPending`).  A client's own steps do not change `CaughtUp`: taking
a packet is taking the first of the same packets (`ReplayTaken`).  So what is left is one
lemma per broadcast: the server's operation on its board, and the packet read by a
client that agreed before it, end in agreement (`FlagFollows`, `LossFollows`,
`StartFollows`, `IncomeFollows`, `NewsFollows`, `JoinFollows`, `ListFollows`; `DullFollows`
for what is not broadcast at all: a departure from the lobby, a refused order, and
a purchase, which only makes the server's bank the lower one).  A client without an id
is followed too: it dies of the first packet that prints its id, so nothing but
an empty board survives until the first `'C'`, and `NothingBeforeStart` makes an
empty board good enough to start from.  With nothing under way a client is what it
will be, which gives the three agreements.  And if the board of a client with an id lacked
the player of the first packet, or if a loss found it before the start or without the king
it looks for, the client would be dead in `CaughtUp`, or would not follow; that is
`NewsFindsItsSubject`.
`SessionInv`, the conjunction of all this with `IInv`, was checked with TLC as an invariant
on the instance of `session` (536 269 states) before it was proved.  The theorems
hold for any number of slots, connections and keys; `SessionAssumption` asks that the
bounds of the session stay within those of the server (`MaxDials <= MaxJoins`, `MaxKeys + 4
<= MaxTries`: every order and the four starting characters raise a player's number by
one) and that nobody moves, as everywhere in `GameSession`.  `Replay` is a recursive
function; what it does to a sequence with one packet more is an induction over its length,
carried out like the one of the master server below.

**Armies and moves.**  Every step of the server does at most one operation to the
board; the lemma `OneOperation` says which, from `IInv`, so that a property of the
board is proved operation by operation and not action by action.  A tile names a
character that was numbered (`TilesReferToArmies`) because `addCharacter` writes the
tile with the name just given and nothing else writes a new name.  `MovesApproach`
follows the branches of `UpdateLocation`; it is proved for every board and every order, and
no run repeats it: what a move does to the tiles is the subject of `StaysInSight`, which
is checked by `marches` and not proved.  `CornersShared` needs `IndexIsId`: as long
as nobody has left, the index of a player is its id, so the first four players have
four corners.

**The reports of moves.**  `MarchInv` follows one character.  `Follows` says that the last
report which speaks of it, under way or still being written by the sweep, has the place
where it is on the server, and that the client has it there already if none does.  The
server appends a row (`RowWritten`) or sends what it has written (`PacketSent`), and the
client takes the first packet (`PacketHeard`); each moves the last word on a character
from one place to the next and does not lose it.  That needs three facts about bytes.  A report of
which the client reads a whole number of entries has the rows it was written from: it
is cut at its first zero, which is a coordinate or the number of a character and never the
id of a player, so a packet that was cut has another length (`ReportWritten`).  A whole
packet, read to its end, moves everybody where it says and nobody else, in the order of its
rows (`WholeIsRead`, an induction over the rounds of the loop with the lemma `Upwards`
below).  And every other reading sets `garbled` (`GarbageIsNoticed`), so that the theorem is
about exactly the clients that met no such packet.  What it does not need is
that the client's tiles agree with the server's: a character is found in the army, not on
the board, so the tiles a report leaves cleared or overwritten throw nobody off.  `MarchInv`
was checked with TLC on the instance of `marches` (127 702 states) before it was proved.

**The countdown.**  `CountdownInv` ties the timer to the observer: the ticks that
`startGameTimer` has counted are not more than the ticks the observer has seen
everybody ready (`TimerHonest`), and is stopped by a sample that found somebody who
was not (`TimerStopped`), so that a later sample starts from nothing.  `StartGame`
then finds both at the countdown.

**The master server.**  `MasterInv` is the type invariant with four facts: no two
records are of one server (`RecordedOnce`), each was registered within the timeout
when the text was last written (`FreshWhenWritten`), the text is not older than a
refresh and a round (`ListIsRecent`), and the text is `Rewritten` of the records.  The
answers are fresh only by the second and third together, and the text follows the
records only because registration appends to both, unregistering rewrites the text, and a
refresh purges first.  What the loop of `RecreateList` yields is an induction over
its counter; it is carried out without the induction theorems, which the provers
cannot instantiate: the set of the numbers up to which a fact holds contains zero and
is closed under successor (lemma `Upwards`, from the well-ordering of the naturals).

**The connections.**  `ConnInv` is `Belief`, what `NetServer.cpp` holds true of its ENet
host, with two facts about ENet.  `Belief` has four parts: connections are asked for by
the master's peer alone (`Asked`), no object is made of the master (`Objects`), behind
each announced peer is a live object of that connection and behind each live object an
announced peer (`Matching`), and every object whose peer is connected is in the vector,
in one place (`Reaching`).  The last two are `ObjectsMatchPeers` and
`BroadcastOnce`; they are not inductive, because a step may do anything to a host that
one call of ENet can do.

What a call can do is said once.  `Call(h, g, n, serving)`: g is in order (`HostOK`),
and between h and g the application is told one event at most; a peer of which it is
told nothing lives on as it was (`Lives`), one that becomes public is told of with a
CONNECT, one that ceases to be is told of with a DISCONNECT.  For every operator of the
transport, from the handler of a single command up to `Service`, there is a lemma that
its result is such a `Call`; the loops over commands, peers, passes and datagrams are
inductions with `Upwards`.  That `enet_protocol_notify_disconnect` overwrites no event,
for one, comes from here: each loop of ENet ends as soon as there is an event.

One thing ENet itself does not exclude.  A DISCONNECT that asks to be acknowledged may
reach a peer that was not announced yet; `enet_protocol_handle_disconnect` resets the
peer, and its caller queues the acknowledgement on the peer that was just reset
(`protocol.c:1148`).  It stays there until the peer is used for the next connection,
leaves with the first datagram of that, and makes it a zombie (`SendAcknowledgements`):
a DISCONNECT event for a client the application never heard of, which this server would
handle with the object of the client before.  It does not happen here, and `NetOK` and
`Debts` say why: the clients of the game end a connection with
`enet_peer_disconnect_now` (`NetClient.cpp:62`), whose command asks for no
acknowledgement, so the server never owes one.  The theorems are about the game as it is
written; with a client that took its leave by `enet_peer_disconnect` they would need
another argument, or be false.

Then there is one lemma for each round of `ServerStep` - accepting, refusing, losing a
client, losing the master, a packet, nothing - which takes the event of the call and
shows that the handler restores `Belief` (`BeliefNew`, `BeliefLost` and so on), and
one that the steps of the others leave the server alone and send it nothing that asks
for such an acknowledgement.  The parts of `ConnInv` were checked with TLC on the
first menu of `connections` (56 031 states) before they were proved.

**The clock of ENet.**  A header carries the time modulo 2^16, and `SentTime` guesses
the lap from the upper bit.  `SentTimeRecovered` goes through the cases: two times less
than a lap apart are in one lap or in neighbouring ones, and the guess is the time
itself or a time in the future, the latter only if the answer is half a lap old at
least.  `FlowInv` adds what this needs of the state, that nothing which may still be answered was
sent in the future.  Answers older than a lap are excluded by `Lifetime < Width`; the code
cannot tell their age, and 65 seconds are twice the silence after which the peer is
given up.

A peer is given up for the time since `earliestTimeout`, a record that outlives the
command it was taken of: the command may have been sent again since, or answered.
`Accounted` says why that is sound: the record is zero or not before the first attempt of a
command that *still* waits.  Timeouts move commands between the two lists but drop none
(`CheckTimeoutsKeeps`, and `WalkKeeps` for the loop, at each place of which every command
it has passed is in one of the two results); sending keeps the time of the first attempt
(`SendReliableKeeps`); and the one operation that does drop a command, an answer,
comes with `Heard`, which clears the record (`AcknowledgeKeeps`).  `RoundDone` is what a
round of sending leaves, and with it every step: `Accounted`, everything sent, and an idle
peer heard within the interval, or a peer given up with cause.  `PeerInv` was checked with
TLC as an invariant on the instance of `flow` (65 461 states) before it was proved.  The two
loops are recursive functions; that they exist for a list of any length is one lemma
(`WalkExists`), what they keep an induction with `Upwards`.  That the arithmetic never comes
to a timeout of zero, though it rounds down, is `EstimateKeeps`.

**Only model-checked**: the liveness properties (`MatchDeclared`, `ReadyLeadsToStart`,
`StartReachesClients`, `EventuallySettled`), which are out of the prover's reach; what
recursive operators compute (`RangeCoder`, `TinyXml`), likewise; `NobodyWaitsForEver`,
whose bound depends on how short a turn is against the timeouts.  Of the connections,
`NobodyStuck`, `StrangersAreOld` and `EndsAgree`: they speak of both ends and of every
datagram between them, so that an invariant must tie the numbers in each queue and each
datagram to the session they were made in.  Of `Transfer`, that what is handed over is
whole, once and in order (`Delivery`): it is a statement about sequence numbers on every
channel under loss, and about 2-bit sessions and windows of 16 that wrap, of which
`ConnectionProofs` needed nothing.

## Not modelled

* Graphics (`src/graphics`) draws; it keeps no state of the game.  Build files and
  data have no behaviour.
* Game rules: health and attacks, cooldowns, `printBoard`, `getDeadChars` - nothing
  uses them.  Ids from ten up, which do not fit the one digit of the packets, and
  numbers of characters from a thousand up: `MaxJoins` and `MaxTries` stay below.  In
  `Marches` they stay below 128: from there on a number is negative when it is read from
  its byte, and no client finds the character.
* Client: drawing and camera keys; the functions of `NetClient` that fetch the list
  of servers, which are called from commented-out lines only (`main.cpp:345`,
  `:432`).
* ENet: bandwidth limits and the throttle's arithmetic (all hosts are created
  without limits: `NetServer.cpp:64`, `Master.cpp:89`, `NetClient.cpp:39`, `:188`),
  so that whether an unreliable packet is throttled is a free choice; the wrap of
  the 32-bit clock after 49 days; checksums, which nobody switches on; sockets and
  memory allocation; malformed datagrams.
* The compressor: its limit on the output and the division of its input into
  buffers.
* TinyXML: encodings other than the plain one, editing of the tree and visitors,
  debug output, the positions in error messages.

## Plan

1. *Done*: the rules, the server, the sessions, the proofs of the server's
   invariants and of its refinement of `Match`.
2. *Done*: the reports of moves; the client slots; the master server; ENet from the
   connection to the compressor; TinyXML.
3. *Done*: the proofs of the armies, the moves, the countdown and the master server.
4. *Done*: the proofs that `GameSession` implements `DedicatedServer`, and that its
   replicas agree.
5. *Done*: the proofs about ENet's clock.
6. *Done*: the proof that the reports of moves reach the client.
7. *Done*: the proof that the game server's client objects are those ENet announced.
8. Not done: proofs about both ends of a connection - that no datagram of the three
   connections before is heard, which is all that two bits can give, and that `Transfer`
   implements `Delivery`.
