-------------------------- MODULE GameSessionProofs --------------------------
(***************************************************************************)
(* The session: the server with its real clients, for any number of peers, *)
(* connections and keys.  First, what the clients send is what             *)
(* DedicatedServer allows, so every theorem about the server holds in the  *)
(* session.  Second, the replicas: a client is followed through the        *)
(* packets under way to it (Replay), and every step of the server is       *)
(* compared with what its broadcast does to the client that will have      *)
(* taken everything before.                                                *)
(***************************************************************************)
EXTENDS GameSession, DedicatedServerProofs

-----------------------------------------------------------------------------
(***************************************************************************)
(* Replay.                                                                 *)
(***************************************************************************)

\* What holds of 0, and of n + 1 if it holds of n, holds of every number up to k.
LEMMA UpTo ==
  ASSUME NEW S \in SUBSET Nat, NEW k \in Nat, 0 \in S,
         \A n \in S : n < k => n + 1 \in S
  PROVE  0 .. k \subseteq S
<1> DEFINE D == {n \in 0 .. k : n \notin S}
<1>1. SUFFICES ASSUME D # {} PROVE FALSE OBVIOUS
<1>2. D \subseteq Nat OBVIOUS
<1> HIDE DEF D
<1>3. PICK m \in D : \A n \in D : m <= n BY <1>1, <1>2, Least
<1> USE DEF D
<1>4. m # 0 /\ m - 1 \in 0 .. k OBVIOUS
<1>5. m - 1 \in S BY <1>3, <1>4
<1> QED BY <1>4, <1>5

\* f[k] is the client after k packets of s.
Steps(f, v, s) == f[0] = v /\ \A k \in 1 .. Len(s) : f[k] = Reading(f[k - 1], s[k])

IsReplay(f, v, s) ==
  f = [k \in 0 .. Len(s) |-> IF k = 0 THEN v ELSE Reading(f[k - 1], s[k])]

\* The recursive function of Replay exists.
LEMMA ReplayExists ==
  ASSUME NEW v, NEW S, NEW s \in Seq(S)
  PROVE  \E f : IsReplay(f, v, s)
<1> DEFINE n == Len(s)
           Upto(f, k) == f = [i \in 0 .. k |-> IF i = 0 THEN v ELSE Reading(f[i - 1], s[i])]
           T == {k \in Nat : \E f : Upto(f, k)}
<1>1. 0 \in T
  <2>1. Upto([i \in 0 .. 0 |-> v], 0) OBVIOUS
  <2> QED BY <2>1
<1>2. ASSUME NEW k \in T PROVE k + 1 \in T
  <2>1. PICK f : Upto(f, k) OBVIOUS
  <2> DEFINE last == Reading(f[k], s[k + 1])
             g == [i \in 0 .. k + 1 |-> IF i = k + 1 THEN last ELSE f[i]]
  <2>2. \A i \in 0 .. k : g[i] = f[i] OBVIOUS
  <2>3. g[k + 1] = last OBVIOUS
  <2> HIDE DEF last
  <2>4. ASSUME NEW i \in 0 .. k + 1
        PROVE  g[i] = IF i = 0 THEN v ELSE Reading(g[i - 1], s[i])
    <3>1. CASE i = k + 1
      <4>1. i - 1 = k /\ i # 0 BY <3>1
      <4>2. g[i - 1] = f[k] BY <4>1, <2>2
      <4> QED BY <3>1, <4>1, <4>2, <2>3 DEF last
    <3>2. CASE i = 0 BY <3>2, <2>1, <2>2
    <3>3. CASE i \in 1 .. k
      <4>1. i - 1 \in 0 .. k /\ i \in 0 .. k /\ i # 0 BY <3>3
      <4>2. g[i - 1] = f[i - 1] /\ g[i] = f[i] BY <4>1, <2>2
      <4> HIDE DEF g
      <4>3. f[i] = Reading(f[i - 1], s[i]) BY <2>1, <4>1
      <4> QED BY <4>1, <4>2, <4>3
    <3> QED BY <3>1, <3>2, <3>3
  <2>5. g = [i \in 0 .. k + 1 |-> g[i]] OBVIOUS
  <2> HIDE DEF g
  <2>6. Upto(g, k + 1) BY <2>4, <2>5
  <2>7. k + 1 \in Nat OBVIOUS
  <2> HIDE DEF Upto
  <2> QED BY <2>6, <2>7
<1>3. n \in Nat OBVIOUS
<1> HIDE DEF T
<1>4. n \in T
  <2>1. T \subseteq Nat BY DEF T
  <2>2. 0 .. n \subseteq T BY <1>1, <1>2, <1>3, <2>1, UpTo
  <2> QED BY <2>2, <1>3
<1> QED BY <1>4 DEF T, IsReplay

\* Replay is the end of a walk through the packets...
LEMMA ReplayWalk ==
  ASSUME NEW v, NEW S, NEW s \in Seq(S)
  PROVE  \E f : Steps(f, v, s) /\ Replay(v, s) = f[Len(s)]
<1> DEFINE f == CHOOSE g : IsReplay(g, v, s)
<1>1. IsReplay(f, v, s) BY ReplayExists
<1>2. Replay(v, s) = f[Len(s)] BY DEF Replay, IsReplay
<1> HIDE DEF f
<1>3. Steps(f, v, s)
  <2>1. 0 \in 0 .. Len(s) OBVIOUS
  <2>2. \A i \in 1 .. Len(s) : i \in 0 .. Len(s) /\ i # 0 OBVIOUS
  <2> QED BY <1>1, <2>1, <2>2 DEF IsReplay, Steps
<1> QED BY <1>2, <1>3

\* ... and of every such walk.
LEMMA WalkEnds ==
  ASSUME NEW v, NEW S, NEW s \in Seq(S), NEW f, Steps(f, v, s)
  PROVE  Replay(v, s) = f[Len(s)]
<1>1. PICK g : Steps(g, v, s) /\ Replay(v, s) = g[Len(s)] BY ReplayWalk
<1> DEFINE n == Len(s)
           T == {k \in Nat : k <= n => f[k] = g[k]}
<1>2. n \in Nat OBVIOUS
<1>3. 0 \in T BY <1>1 DEF Steps
<1>4. ASSUME NEW k \in T, k < n PROVE k + 1 \in T
  <2>1. k + 1 \in 1 .. n /\ (k + 1) - 1 = k BY <1>2, <1>4
  <2>2. f[k + 1] = Reading(f[k], s[k + 1]) BY <2>1 DEF Steps
  <2>3. g[k + 1] = Reading(g[k], s[k + 1]) BY <1>1, <2>1 DEF Steps
  <2>4. f[k] = g[k] BY <1>4
  <2> QED BY <2>1, <2>2, <2>3, <2>4
<1>5. T \subseteq Nat OBVIOUS
<1> HIDE DEF T
<1>6. n \in T
  <2>1. 0 .. n \subseteq T BY <1>2, <1>3, <1>4, <1>5, UpTo
  <2> QED BY <1>2, <2>1
<1> QED BY <1>1, <1>2, <1>6 DEF T

\* Nothing under way.
LEMMA ReplayNothing ==
  ASSUME NEW v PROVE Replay(v, <<>>) = v
<1>1. <<>> \in Seq({}) /\ Len(<<>>) = 0 OBVIOUS
<1>2. PICK f : Steps(f, v, <<>>) /\ Replay(v, <<>>) = f[Len(<<>>)] BY <1>1, ReplayWalk
<1> QED BY <1>1, <1>2 DEF Steps

\* One packet.
LEMMA ReplayOne ==
  ASSUME NEW v, NEW m PROVE Replay(v, <<m>>) = Reading(v, m)
<1>1. <<m>> \in Seq({m}) /\ Len(<<m>>) = 1 /\ <<m>>[1] = m OBVIOUS
<1>2. PICK f : Steps(f, v, <<m>>) /\ Replay(v, <<m>>) = f[Len(<<m>>)] BY <1>1, ReplayWalk
<1>3. 1 \in 1 .. 1 /\ 1 - 1 = 0 OBVIOUS
<1> QED BY <1>1, <1>2, <1>3 DEF Steps

\* The client takes the first packet: it will be what it would have been.
LEMMA ReplayTaken ==
  ASSUME NEW v, NEW S, NEW s \in Seq(S), s # <<>>
  PROVE  Replay(v, s) = Replay(Reading(v, Head(s)), Tail(s))
<1>1. PICK f : Steps(f, v, s) /\ Replay(v, s) = f[Len(s)] BY ReplayWalk
<1> DEFINE t == Tail(s)
           g == [k \in 0 .. Len(t) |-> f[k + 1]]
<1>2. /\ t \in Seq(S) /\ Len(t) \in Nat /\ Len(s) \in Nat /\ Len(s) = Len(t) + 1
      /\ \A k \in 1 .. Len(t) : t[k] = s[k + 1]
      /\ Head(s) = s[1]
  OBVIOUS
<1> HIDE DEF t
<1>3. g[0] = Reading(v, Head(s))
  <2>1. 1 \in 1 .. Len(s) /\ 1 - 1 = 0 /\ 0 \in 0 .. Len(t) /\ 0 + 1 = 1 BY <1>2
  <2>2. f[1] = Reading(f[0], s[1]) BY <1>1, <2>1 DEF Steps
  <2> QED BY <1>1, <1>2, <2>1, <2>2 DEF Steps
<1>4. ASSUME NEW k \in 1 .. Len(t) PROVE g[k] = Reading(g[k - 1], t[k])
  <2>1. /\ k + 1 \in 1 .. Len(s) /\ (k + 1) - 1 = k /\ (k - 1) + 1 = k
        /\ k \in 0 .. Len(t) /\ k - 1 \in 0 .. Len(t)
    BY <1>2
  <2>2. g[k] = f[k + 1] /\ g[k - 1] = f[k] BY <2>1
  <2>3. f[k + 1] = Reading(f[k], s[k + 1]) BY <1>1, <2>1 DEF Steps
  <2> QED BY <1>2, <2>2, <2>3
<1>5. g[Len(t)] = f[Len(s)] BY <1>2
<1> HIDE DEF g
<1>6. Steps(g, Reading(v, Head(s)), t) BY <1>3, <1>4 DEF Steps
<1>7. Replay(Reading(v, Head(s)), t) = g[Len(t)] BY <1>2, <1>6, WalkEnds
<1> QED BY <1>1, <1>5, <1>7 DEF t

\* More packets are sent.
LEMMA ReplayMore ==
  ASSUME NEW v, NEW S, NEW s \in Seq(S), NEW t \in Seq(S)
  PROVE  Replay(v, s \o t) = Replay(Replay(v, s), t)
<1>1. PICK f : Steps(f, v, s) /\ Replay(v, s) = f[Len(s)] BY ReplayWalk
<1>2. PICK g : Steps(g, Replay(v, s), t) /\ Replay(Replay(v, s), t) = g[Len(t)]
  BY ReplayWalk
<1> DEFINE u == s \o t
           h == [k \in 0 .. Len(u) |-> IF k <= Len(s) THEN f[k] ELSE g[k - Len(s)]]
<1>3. /\ u \in Seq(S) /\ Len(s) \in Nat /\ Len(t) \in Nat /\ Len(u) = Len(s) + Len(t)
      /\ \A k \in 1 .. Len(s) : u[k] = s[k]
      /\ \A k \in 1 .. Len(t) : u[k + Len(s)] = t[k]
  OBVIOUS
<1> HIDE DEF u
<1>4. g[0] = f[Len(s)] /\ f[0] = v BY <1>1, <1>2 DEF Steps
<1>5. \A k \in 0 .. Len(s) : h[k] = f[k] BY <1>3
<1>6. ASSUME NEW k \in 0 .. Len(t) PROVE h[k + Len(s)] = g[k]
  <2>1. k + Len(s) \in 0 .. Len(u) /\ (k + Len(s)) - Len(s) = k BY <1>3
  <2>2. CASE k = 0 BY <1>3, <1>4, <2>1, <2>2
  <2>3. CASE k # 0 BY <1>3, <2>1, <2>3
  <2> QED BY <2>2, <2>3
<1> HIDE DEF h
<1>7. ASSUME NEW k \in 1 .. Len(u) PROVE h[k] = Reading(h[k - 1], u[k])
  <2>1. CASE k <= Len(s)
    <3>1. k \in 1 .. Len(s) /\ k \in 0 .. Len(s) /\ k - 1 \in 0 .. Len(s) BY <1>3, <2>1
    <3>2. f[k] = Reading(f[k - 1], s[k]) BY <1>1, <3>1 DEF Steps
    <3> QED BY <1>3, <1>5, <3>1, <3>2
  <2>2. CASE ~ (k <= Len(s))
    <3> DEFINE j == k - Len(s)
    <3>1. /\ j \in 1 .. Len(t) /\ j \in 0 .. Len(t) /\ j - 1 \in 0 .. Len(t)
          /\ j + Len(s) = k /\ (j - 1) + Len(s) = k - 1
      BY <1>3, <2>2
    <3> HIDE DEF j
    <3>2. g[j] = Reading(g[j - 1], t[j]) BY <1>2, <3>1 DEF Steps
    <3>3. h[k] = g[j] /\ h[k - 1] = g[j - 1] BY <1>6, <3>1
    <3>4. u[k] = t[j] BY <1>3, <3>1
    <3> QED BY <3>2, <3>3, <3>4
  <2> QED BY <2>1, <2>2
<1>8. h[0] = v /\ h[Len(u)] = g[Len(t)]
  <2>1. 0 \in 0 .. Len(s) /\ Len(t) \in 0 .. Len(t) /\ Len(t) + Len(s) = Len(u) BY <1>3
  <2> QED BY <1>4, <1>5, <1>6, <2>1
<1>9. Steps(h, v, u) BY <1>7, <1>8 DEF Steps
<1>10. Replay(v, u) = h[Len(u)] BY <1>3, <1>9, WalkEnds
<1> QED BY <1>2, <1>8, <1>10 DEF u

\* An id is kept, and the dead stay dead.
LEMMA ReplayKeeps ==
  ASSUME NEW v, NEW S, NEW s \in Seq(S)
  PROVE  /\ v.me # NoPlayer => Replay(v, s).me = v.me
         /\ ~v.alive => ~Replay(v, s).alive
<1>1. PICK f : Steps(f, v, s) /\ Replay(v, s) = f[Len(s)] BY ReplayWalk
<1> DEFINE n == Len(s)
           T == {k \in Nat : k <= n => /\ v.me # NoPlayer => f[k].me = v.me
                                       /\ ~v.alive => ~f[k].alive}
<1>2. n \in Nat OBVIOUS
<1>3. 0 \in T BY <1>1 DEF Steps
<1>4. ASSUME NEW k \in T, k < n PROVE k + 1 \in T
  <2>1. k + 1 \in 1 .. n /\ (k + 1) - 1 = k BY <1>2, <1>4
  <2>2. f[k + 1] = Reading(f[k], s[k + 1]) BY <1>1, <2>1 DEF Steps
  <2>3. /\ v.me # NoPlayer => f[k + 1].me = v.me
        /\ ~v.alive => ~f[k + 1].alive
    BY <1>4, <2>2 DEF Reading
  <2> QED BY <2>1, <2>3
<1>5. T \subseteq Nat OBVIOUS
<1> HIDE DEF T
<1>6. n \in T
  <2>1. 0 .. n \subseteq T BY <1>2, <1>3, <1>4, <1>5, UpTo
  <2> QED BY <1>2, <2>1
<1> QED BY <1>1, <1>2, <1>6 DEF T

-----------------------------------------------------------------------------
(***************************************************************************)
(* Steps of a client.  The server's variables stay as they are.            *)
(***************************************************************************)

\* A client with these fields.
IsClient(c, l, b, i, u, d) ==
  c \in [link : {l}, board : {b}, me : {i}, up : {u}, down : {d}]

LEMMA ClientParts ==
  ASSUME NEW c, c = [link |-> c.link, board |-> c.board, me |-> c.me, up |-> c.up, down |-> c.down]
  PROVE  IsClient(c, c.link, c.board, c.me, c.up, c.down)
BY DEF IsClient

LEMMA ClientWhole ==
  ASSUME NEW c, NEW l, NEW b, NEW i, NEW u, NEW d, IsClient(c, l, b, i, u, d)
  PROVE  /\ c.link = l /\ c.board = b /\ c.me = i /\ c.up = u /\ c.down = d
         /\ c = [link |-> c.link, board |-> c.board, me |-> c.me, up |-> c.up, down |-> c.down]
BY DEF IsClient

\* One client changes.
LEMMA ClientReplaced ==
  ASSUME client = [b \in Peers |-> client[b]], NEW a \in Peers, NEW c,
         client' = [client EXCEPT ![a] = c]
  PROVE  /\ client'[a] = c /\ \A b \in Peers : b # a => client'[b] = client[b]
         /\ client' = [b \in Peers |-> client'[b]]
OBVIOUS

\* What depends on the packets from the clients, where these stay.
LEMMA SameUps ==
  ASSUME UNCHANGED vars, UNCHANGED <<dials, keys>>,
         \A b \in Peers : client'[b].up = client[b].up,
         JoinsOnce, JoinersUnknown, CountersBounded
  PROVE  JoinsOnce' /\ JoinersUnknown' /\ CountersBounded'
<1>0. event' = event /\ board' = board /\ dials' = dials /\ keys' = keys BY DEF vars
<1>1. Joins' = Joins BY <1>0 DEF Joins
<1>2. Orders' = Orders BY <1>0 DEF Orders, OrderAt
<1>3. JoinsOnce' BY <1>0 DEF JoinsOnce
<1>4. JoinersUnknown' BY <1>0, <1>1 DEF JoinersUnknown
<1>5. CountersBounded' BY <1>0, <1>1, <1>2 DEF CountersBounded
<1> QED BY <1>3, <1>4, <1>5

\* What has to be shown of a step of one client.
LEMMA OneClient ==
  ASSUME SessionInv, UNCHANGED vars, NEW a \in Peers,
         client' = [b \in Peers |-> client'[b]],
         \A b \in Peers : b # a => client'[b] = client[b],
         event = Departed(a) => client'[a].link = "free",
         JoinsOnce' /\ JoinersUnknown' /\ CountersBounded',
         ClientOK(a)',
         Open(a)' => Follows(CaughtUp(a)', board, ~AskPending(a)')
  PROVE  SessionInv'
<1>0. /\ IInv /\ Unmoved /\ EventOK /\ \A b \in Peers : ClientOK(b)
      /\ ReplicasFollow
  BY DEF SessionInv
<1>1. /\ board' = board /\ event' = event /\ members' = members /\ sweep' = sweep
      /\ stage' = stage /\ startGameTimer' = startGameTimer /\ sent' = sent
  BY DEF vars
<1>2. IInv'
  <2>1. [Next]_vars OBVIOUS
  <2> QED BY <1>0, <2>1, StepSafe
<1>3. Unmoved' BY <1>0, <1>1 DEF Unmoved
<1>4. EventOK'
  <2>1. UpPackets' = UpPackets BY <1>1 DEF UpPackets, KnownIds
  <2>2. ASSUME NEW b \in Peers, event = Departed(b), client[b].link = "free" PROVE EventOK'
    <3>1. client'[b].link = "free" BY <2>2
    <3> QED BY <1>1, <2>2, <3>1 DEF EventOK
  <2> QED BY <1>0, <1>1, <2>1, <2>2 DEF EventOK
<1>5. ASSUME NEW b \in Peers, b # a
      PROVE  ClientOK(b)' /\ (Open(b)' => Follows(CaughtUp(b)', board', ~AskPending(b)'))
  <2>1. client'[b] = client[b] BY <1>5
  <2>2. ClientOK(b)'
    <3>1. UpPackets' = UpPackets /\ DownPackets' = DownPackets
      BY <1>1 DEF UpPackets, DownPackets, KnownIds
    <3>2. ClientOK(b) BY <1>0
    <3> QED BY <1>1, <2>1, <3>1, <3>2 DEF ClientOK, Open, View
  <2>3. /\ Open(b)' = Open(b) /\ CaughtUp(b)' = CaughtUp(b) /\ AskPending(b)' = AskPending(b)
    BY <1>1, <2>1 DEF Open, CaughtUp, View, AskPending
  <2> QED BY <1>0, <1>1, <2>2, <2>3 DEF ReplicasFollow
<1>6. \A b \in Peers : ClientOK(b)' BY <1>5
<1>7. ReplicasFollow' BY <1>1, <1>5 DEF ReplicasFollow
<1> QED BY <1>2, <1>3, <1>4, <1>6, <1>7 DEF SessionInv

\* At most one more.
LEMMA OneMore ==
  ASSUME NEW S, NEW T, NEW x, IsFiniteSet(S), T \subseteq S \cup {x}
  PROVE  /\ IsFiniteSet(T) /\ Cardinality(S) \in Nat /\ Cardinality(T) \in Nat
         /\ Cardinality(T) <= Cardinality(S) + 1
         /\ T \subseteq S => Cardinality(T) <= Cardinality(S)
<1>1. IsFiniteSet(S \cup {x}) /\ Cardinality(S \cup {x}) <= Cardinality(S) + 1
      /\ Cardinality(S) \in Nat
  BY FS_AddElement, FS_CardinalityType
<1>2. IsFiniteSet(T) /\ Cardinality(T) <= Cardinality(S \cup {x})
  BY <1>1, FS_Subset
<1>3. Cardinality(T) \in Nat /\ Cardinality(S \cup {x}) \in Nat
  BY <1>1, <1>2, FS_CardinalityType
<1>4. T \subseteq S => Cardinality(T) <= Cardinality(S) BY FS_Subset
<1> QED BY <1>1, <1>2, <1>3, <1>4

\* The parts of the invariant that a client's step needs.
LEMMA PartsOfInv ==
  ASSUME SessionInv, NEW a \in Peers
  PROVE  /\ client = [b \in Peers |-> client[b]] /\ ClientOK(a)
         /\ JoinsOnce /\ JoinersUnknown /\ CountersBounded /\ EventOK /\ Unmoved
         /\ Open(a) => Follows(CaughtUp(a), board, ~AskPending(a))
         /\ IsClient(client[a], client[a].link, client[a].board, client[a].me,
                     client[a].up, client[a].down)
         /\ event = Departed(a) => client[a].link = "free" /\ a \in members
<1>1. /\ client = [b \in Peers |-> client[b]] /\ ClientOK(a)
      /\ JoinsOnce /\ JoinersUnknown /\ CountersBounded /\ EventOK /\ Unmoved
      /\ Open(a) => Follows(CaughtUp(a), board, ~AskPending(a))
  BY DEF SessionInv, ReplicasFollow
<1>2. IsClient(client[a], client[a].link, client[a].board, client[a].me,
               client[a].up, client[a].down)
  BY <1>1, ClientParts DEF ClientOK
<1>3. ASSUME event = Departed(a) PROVE client[a].link = "free" /\ a \in members
  <2>1. client[a].link = "free"
    BY <1>1, <1>3 DEF EventOK, Departed, NoEvent, Connected, From
  <2> QED BY <1>3, <2>1 DEF SessionInv, IInv, TurnOK
<1> QED BY <1>1, <1>2, <1>3

\* The window is closed.
LEMMA LeaveKeeps ==
  ASSUME SessionInv, NEW a \in Peers, Leave(a) PROVE SessionInv'
<1> DEFINE c == client[a]
<1>1. /\ client = [b \in Peers |-> client[b]] /\ ClientOK(a)
      /\ JoinsOnce /\ JoinersUnknown /\ CountersBounded
      /\ IsClient(c, c.link, c.board, c.me, c.up, c.down)
      /\ event = Departed(a) => c.link = "free"
  BY PartsOfInv
<1>2. UNCHANGED vars /\ UNCHANGED <<dials, keys>> /\ Open(a) BY DEF Leave
<1> DEFINE d == [c EXCEPT !.link = "closing", !.down = <<>>]
<1>3. client' = [client EXCEPT ![a] = d] BY <1>1 DEF Leave
<1> HIDE DEF c
<1>4. IsClient(d, "closing", c.board, c.me, c.up, <<>>) BY <1>1 DEF IsClient
<1> USE DEF c
<1> HIDE DEF d
<1>6. /\ client'[a] = d /\ \A b \in Peers : b # a => client'[b] = client[b]
      /\ client' = [b \in Peers |-> client'[b]]
  BY <1>1, <1>3, ClientReplaced
<1>7. /\ d.link = "closing" /\ d.board = c.board /\ d.me = c.me /\ d.up = c.up /\ d.down = <<>>
      /\ d = [link |-> d.link, board |-> d.board, me |-> d.me, up |-> d.up, down |-> d.down]
  BY <1>4, ClientWhole
<1>8. \A b \in Peers : client'[b].up = client[b].up BY <1>6, <1>7
<1>9. JoinsOnce' /\ JoinersUnknown' /\ CountersBounded' BY <1>1, <1>2, <1>8, SameUps
<1>10. ~Open(a)' BY <1>6, <1>7 DEF Open
<1>11. ClientOK(a)'
  <2>1. UpPackets' = UpPackets /\ DownPackets' = DownPackets
    BY <1>2 DEF UpPackets, DownPackets, KnownIds, vars
  <2> QED BY <1>1, <1>6, <1>7, <1>10, <2>1 DEF ClientOK
<1>12. event # Departed(a) BY <1>1, <1>2 DEF Open
<1> QED BY <1>2, <1>6, <1>9, <1>10, <1>11, <1>12, OneClient

\* The id a client plays as is one the server has given out.
LEMMA PlaysAsKnown ==
  ASSUME SessionInv, NEW a \in Peers, Initialised(a)
  PROVE  client[a].me \in KnownIds
<1>1. ClientOK(a) /\ Follows(CaughtUp(a), board, ~AskPending(a))
  BY PartsOfInv DEF Initialised
<1>2. client[a].down \in Seq(DownPackets) BY <1>1 DEF ClientOK
<1>3. View(a).me = client[a].me /\ client[a].me # NoPlayer BY DEF View, Initialised
<1>4. CaughtUp(a).me = client[a].me BY <1>2, <1>3, ReplayKeeps DEF CaughtUp
<1>5. CaughtUp(a).me \in 0 .. board.lastPlayer BY <1>1 DEF Follows
<1>6. board.lastPlayer \in Nat BY DEF SessionInv, IInv, TypeOK, BoardOK
<1> QED BY <1>3, <1>4, <1>5, <1>6 DEF KnownIds, NoPlayer

\* A key that sends m.
LEMMA PressKeeps ==
  ASSUME SessionInv, NEW a \in Peers, NEW m \in UpPackets, m # Join, m # AskReady,
         Press(a, m)
  PROVE  SessionInv'
<1> DEFINE c == client[a]
           n == Len(c.up)
           u == Append(c.up, m)
           d == [c EXCEPT !.up = u]
<1>1. /\ client = [b \in Peers |-> client[b]] /\ ClientOK(a)
      /\ JoinsOnce /\ JoinersUnknown /\ CountersBounded
      /\ IsClient(c, c.link, c.board, c.me, c.up, c.down)
      /\ event = Departed(a) => c.link = "free"
      /\ Open(a) => Follows(CaughtUp(a), board, ~AskPending(a))
  BY PartsOfInv
<1>2. /\ UNCHANGED vars /\ dials' = dials /\ keys' = keys + 1 /\ keys < MaxKeys
      /\ Open(a) /\ c.me # NoPlayer
  BY DEF Press, Initialised
<1>3. client' = [client EXCEPT ![a] = d] BY <1>1 DEF Press
<1>4. /\ c.up \in Seq(UpPackets) /\ u \in Seq(UpPackets) /\ n \in Nat /\ Len(u) = n + 1
      /\ DOMAIN c.up = 1 .. n /\ DOMAIN u = 1 .. n + 1
      /\ u[n + 1] = m /\ \A k \in 1 .. n : u[k] = c.up[k]
  BY <1>1 DEF ClientOK
<1> HIDE DEF u, n, c
<1>5. IsClient(d, c.link, c.board, c.me, u, c.down) BY <1>1 DEF IsClient
<1> USE DEF c
<1> HIDE DEF d
<1>6. /\ client'[a] = d /\ \A b \in Peers : b # a => client'[b] = client[b]
      /\ client' = [b \in Peers |-> client'[b]]
  BY <1>1, <1>3, ClientReplaced
<1>7. /\ d.link = c.link /\ d.board = c.board /\ d.me = c.me /\ d.up = u /\ d.down = c.down
      /\ d = [link |-> d.link, board |-> d.board, me |-> d.me, up |-> d.up, down |-> d.down]
  BY <1>5, ClientWhole
<1>8. event' = event /\ board' = board /\ members' = members BY <1>2 DEF vars
<1>9. JoinsOnce'
  <2> SUFFICES ASSUME NEW b \in Peers, NEW k \in DOMAIN client'[b].up, client'[b].up[k] = Join
               PROVE  k = 1 /\ event # From(b, Join)
    BY <1>8 DEF JoinsOnce
  <2>1. CASE b # a BY <1>1, <1>6, <2>1 DEF JoinsOnce
  <2>2. CASE b = a
    <3>1. k \in 1 .. n /\ c.up[k] = Join BY <1>4, <1>6, <1>7, <2>2
    <3> QED BY <1>1, <1>4, <2>2, <3>1 DEF JoinsOnce
  <2> QED BY <2>1, <2>2
<1>10. Joins' = Joins
  <2>1. (\E k \in DOMAIN d.up : d.up[k] = Join) <=> (\E k \in DOMAIN c.up : c.up[k] = Join)
    BY <1>4, <1>7
  <2> QED BY <1>6, <1>8, <2>1 DEF Joins
<1>11. JoinersUnknown' BY <1>1, <1>8, <1>10 DEF JoinersUnknown
<1>12. Orders' \subseteq Orders \cup {<<a, n + 1>>}
  <2> SUFFICES ASSUME NEW b \in Peers, NEW k \in 0 .. Len(client'[b].up), OrderAt(b, k)'
               PROVE  <<b, k>> \in Orders \cup {<<a, n + 1>>}
    BY DEF Orders
  <2>1. CASE b # a
    <3>1. client'[b] = client[b] BY <1>6, <2>1
    <3>2. OrderAt(b, k) /\ k \in 0 .. Len(client[b].up) BY <1>8, <3>1 DEF OrderAt
    <3> QED BY <3>2 DEF Orders
  <2>2. CASE b = a /\ k # n + 1
    <3>1. k \in 0 .. n BY <1>4, <1>6, <1>7, <2>2
    <3>2. OrderAt(a, k) BY <1>4, <1>6, <1>7, <1>8, <2>2, <3>1 DEF OrderAt
    <3> QED BY <2>2, <3>1, <3>2 DEF Orders, n
  <2> QED BY <2>1, <2>2
<1>13. CountersBounded'
  <2>1. /\ IsFiniteSet(Orders') /\ Cardinality(Orders) \in Nat /\ Cardinality(Orders') \in Nat
        /\ Cardinality(Orders') <= Cardinality(Orders) + 1
    BY <1>1, <1>12, OneMore DEF CountersBounded
  <2>2. \A p \in Ids(board) : board.players[p].armyCount \in Nat
    BY DEF SessionInv, IInv, TypeOK, BoardOK, PlayerOK, Ids
  <2>3. keys' \in 0 .. MaxKeys /\ Cardinality(Orders') <= keys'
    BY <1>1, <1>2, <2>1, SessionAssumption DEF CountersBounded
  <2>4. \A p \in Ids(board) : board.players[p].armyCount + Cardinality(Orders')
                                <= keys' + IF IsStarted(board) THEN 4 ELSE 0
    BY <1>1, <1>2, <2>1, <2>2 DEF CountersBounded
  <2> QED BY <1>1, <1>2, <1>8, <1>10, <2>1, <2>3, <2>4 DEF CountersBounded
<1>14. View(a)' = View(a) /\ CaughtUp(a)' = CaughtUp(a) /\ Open(a)' = Open(a)
  BY <1>6, <1>7 DEF View, CaughtUp, Open
<1>15. AskPending(a)' = AskPending(a)
  <2>1. (\E k \in DOMAIN d.up : d.up[k] = AskReady)
          <=> (\E k \in DOMAIN c.up : c.up[k] = AskReady)
    BY <1>4, <1>7
  <2> QED BY <1>6, <1>8, <2>1 DEF AskPending
<1>16. ClientOK(a)'
  <2>1. UpPackets' = UpPackets /\ DownPackets' = DownPackets
    BY <1>8 DEF UpPackets, DownPackets, KnownIds
  <2>2. a \in members
    <3>1. c.me = NoPlayer \/ View(a) # Fresh BY DEF View, Fresh
    <3> QED BY <1>1, <1>2, <3>1 DEF ClientOK
  <2>3. d.link = "open" /\ c.down \in Seq(DownPackets) BY <1>1, <1>2, <1>7 DEF Open, ClientOK
  <2> QED BY <1>4, <1>6, <1>7, <1>8, <2>1, <2>2, <2>3 DEF ClientOK
<1> QED BY <1>1, <1>2, <1>6, <1>7, <1>9, <1>11, <1>13, <1>14, <1>15, <1>16, OneClient

\* Every key of a client.
LEMMA KeyKeeps ==
  ASSUME SessionInv, NEW a \in Peers, PressReady(a) \/ PressReadyLate(a) \/ PressBuy(a)
  PROVE  SessionInv'
<1>1. PICK m : Press(a, m) /\ (\/ m = Other \/ m = ReadyMsg(client[a].me)
                               \/ m = UnreadyMsg(client[a].me)
                               \/ \E t \in DOMAIN Cost : m = BuyMsg(client[a].me, t))
  BY DEF PressReady, PressReadyLate, PressBuy
<1>2. client[a].me \in KnownIds BY <1>1, PlaysAsKnown DEF Press
<1>3. m \in UpPackets BY <1>1, <1>2 DEF UpPackets
<1>4. m # Join /\ m # AskReady
  BY <1>1 DEF Join, AskReady, Other, ReadyMsg, UnreadyMsg, BuyMsg
<1> QED BY <1>1, <1>3, <1>4, PressKeeps

\* A client connects.
LEMMA DialKeeps ==
  ASSUME SessionInv, NEW a \in Peers, Dial(a) PROVE SessionInv'
<1> DEFINE u == <<Join, AskReady>>
           d == [NoClient EXCEPT !.link = "open", !.up = u]
<1>1. /\ client = [b \in Peers |-> client[b]] /\ ClientOK(a)
      /\ JoinsOnce /\ JoinersUnknown /\ CountersBounded /\ EventOK
      /\ event = Departed(a) => a \in members
  BY PartsOfInv
<1>2. /\ UNCHANGED vars /\ keys' = keys /\ dials' = dials + 1 /\ dials < MaxDials
      /\ a \notin members /\ client[a].link = "free"
  BY DEF Dial
<1>3. client' = [client EXCEPT ![a] = d] BY DEF Dial
<1>4. IsClient(NoClient, "free", EmptyBoard, NoPlayer, <<>>, <<>>) BY DEF NoClient, IsClient
<1>5. /\ u \in Seq(UpPackets) /\ DOMAIN u = {1, 2} /\ Len(u) = 2
      /\ u[1] = Join /\ u[2] = AskReady
  BY DEF UpPackets
<1> HIDE DEF u
<1>6. IsClient(d, "open", EmptyBoard, NoPlayer, u, <<>>) BY <1>4 DEF IsClient
<1> HIDE DEF d
<1>7. /\ client'[a] = d /\ \A b \in Peers : b # a => client'[b] = client[b]
      /\ client' = [b \in Peers |-> client'[b]]
  BY <1>1, <1>3, ClientReplaced
<1>8. /\ d.link = "open" /\ d.board = EmptyBoard /\ d.me = NoPlayer /\ d.up = u /\ d.down = <<>>
      /\ d = [link |-> d.link, board |-> d.board, me |-> d.me, up |-> d.up, down |-> d.down]
  BY <1>6, ClientWhole
<1>9. event' = event /\ board' = board /\ members' = members BY <1>2 DEF vars
<1>10. client[a].up = <<>> BY <1>1, <1>2, <1>4, ClientWhole DEF ClientOK
\* Nothing is handled that this client has sent.
<1>11. /\ event # Departed(a) /\ \A m : event # From(a, m)
  BY <1>1, <1>2 DEF EventOK, From, NoEvent, Connected, Departed
<1>12. JoinsOnce'
  <2> SUFFICES ASSUME NEW b \in Peers, NEW k \in DOMAIN client'[b].up, client'[b].up[k] = Join
               PROVE  k = 1 /\ event # From(b, Join)
    BY <1>9 DEF JoinsOnce
  <2>1. CASE b # a BY <1>1, <1>7, <2>1 DEF JoinsOnce
  <2>2. CASE b = a BY <1>5, <1>7, <1>8, <1>11, <2>2 DEF Join, AskReady
  <2> QED BY <2>1, <2>2
<1>13. Joins' \subseteq Joins \cup {a} BY <1>7, <1>9 DEF Joins
<1>14. JoinersUnknown'
  <2> SUFFICES ASSUME ~IsStarted(board), NEW b \in Joins', NEW p \in Ids(board)
               PROVE  board.players[p].address # b
    BY <1>9 DEF JoinersUnknown
  <2>1. CASE b \in Joins BY <1>1, <2>1 DEF JoinersUnknown
  <2>2. CASE b = a
    <3>1. board.players[p].address \in members
      BY DEF SessionInv, IInv, AddressOwnership, Active
    <3> QED BY <1>2, <2>2, <3>1
  <2> QED BY <1>13, <2>1, <2>2
<1>15. Orders' \subseteq Orders
  <2> SUFFICES ASSUME NEW b \in Peers, NEW k \in 0 .. Len(client'[b].up), OrderAt(b, k)'
               PROVE  <<b, k>> \in Orders
    BY DEF Orders
  <2>1. CASE b # a
    <3>1. client'[b] = client[b] BY <1>7, <2>1
    <3>2. OrderAt(b, k) /\ k \in 0 .. Len(client[b].up) BY <1>9, <3>1 DEF OrderAt
    <3> QED BY <3>2 DEF Orders
  <2>2. CASE b = a /\ k = 0
    <3>1. OrderAt(a, 0) BY <1>9, <2>2 DEF OrderAt
    <3>2. 0 \in 0 .. Len(client[a].up) BY <1>10
    <3> QED BY <2>2, <3>1, <3>2 DEF Orders
  <2>3. CASE b = a /\ k # 0
    BY <1>5, <1>7, <1>8, <2>3 DEF OrderAt, Join, AskReady
  <2> QED BY <2>1, <2>2, <2>3
<1>16. CountersBounded'
  <2>1. /\ IsFiniteSet(Joins') /\ Cardinality(Joins) \in Nat /\ Cardinality(Joins') \in Nat
        /\ Cardinality(Joins') <= Cardinality(Joins) + 1
    BY <1>1, <1>13, OneMore DEF CountersBounded
  <2>2. /\ IsFiniteSet(Orders') /\ Cardinality(Orders) \in Nat /\ Cardinality(Orders') \in Nat
        /\ Cardinality(Orders') <= Cardinality(Orders)
    BY <1>1, <1>15, OneMore DEF CountersBounded
  <2>3. board.lastPlayer \in Nat /\ \A p \in Ids(board) : board.players[p].armyCount \in Nat
    BY DEF SessionInv, IInv, TypeOK, BoardOK, PlayerOK, Ids
  <2>4. dials' \in 0 .. MaxDials /\ board.lastPlayer + Cardinality(Joins') <= dials'
    BY <1>1, <1>2, <2>1, <2>3, SessionAssumption DEF CountersBounded
  <2>5. keys' \in 0 .. MaxKeys /\ Cardinality(Orders') <= keys'
    BY <1>1, <1>2, <2>2, SessionAssumption DEF CountersBounded
  <2>6. \A p \in Ids(board) : board.players[p].armyCount + Cardinality(Orders')
                                <= keys' + IF IsStarted(board) THEN 4 ELSE 0
    BY <1>1, <1>2, <2>2, <2>3 DEF CountersBounded
  <2> QED BY <1>9, <2>1, <2>2, <2>4, <2>5, <2>6 DEF CountersBounded
<1>17. View(a)' = Fresh BY <1>7, <1>8 DEF View, Fresh
<1>18. AskPending(a)' BY <1>5, <1>7, <1>8 DEF AskPending
<1>19. Follows(CaughtUp(a)', board, ~AskPending(a)')
  <2>1. CaughtUp(a)' = Fresh BY <1>7, <1>8, <1>17, ReplayNothing DEF CaughtUp
  <2>2. board.lastPlayer \in Nat BY DEF SessionInv, IInv, TypeOK, BoardOK
  <2> QED BY <1>18, <2>1, <2>2 DEF Follows, Fresh, NoPlayer
<1>20. ClientOK(a)'
  <2>1. UpPackets' = UpPackets /\ DownPackets' = DownPackets
    BY <1>9 DEF UpPackets, DownPackets, KnownIds
  <2>2. u = <<Join, AskReady>> BY DEF u
  <2>3. <<>> \in Seq(DownPackets) OBVIOUS
  <2> QED BY <1>5, <1>7, <1>8, <1>9, <1>17, <2>1, <2>2, <2>3 DEF ClientOK
<1> QED BY <1>2, <1>7, <1>11, <1>12, <1>14, <1>16, <1>19, <1>20, OneClient

\* A client that takes the packet and lives on...
LEMMA TakenKeeps ==
  ASSUME SessionInv, NEW a \in Peers, Open(a), client[a].down # <<>>,
         NEW w, w = Reading(View(a), Incoming(a)), w.alive,
         UNCHANGED <<vars, dials, keys>>,
         NEW d, client' = [client EXCEPT ![a] = d],
         IsClient(d, "open", w.board, w.me, client[a].up, Tail(client[a].down))
  PROVE  SessionInv'
<1> DEFINE c == client[a]
<1>1. /\ client = [b \in Peers |-> client[b]] /\ ClientOK(a)
      /\ JoinsOnce /\ JoinersUnknown /\ CountersBounded
      /\ event = Departed(a) => c.link = "free"
      /\ Open(a) => Follows(CaughtUp(a), board, ~AskPending(a))
  BY PartsOfInv
<1>2. /\ client'[a] = d /\ \A b \in Peers : b # a => client'[b] = client[b]
      /\ client' = [b \in Peers |-> client'[b]]
  BY <1>1, ClientReplaced
<1>3. /\ d.link = "open" /\ d.board = w.board /\ d.me = w.me /\ d.up = c.up /\ d.down = Tail(c.down)
      /\ d = [link |-> d.link, board |-> d.board, me |-> d.me, up |-> d.up, down |-> d.down]
  BY ClientWhole
<1>4. event' = event /\ board' = board /\ members' = members BY DEF vars
<1>5. \A b \in Peers : client'[b].up = client[b].up BY <1>2, <1>3
<1>6. JoinsOnce' /\ JoinersUnknown' /\ CountersBounded' BY <1>1, <1>5, SameUps
<1>7. c.down \in Seq(DownPackets) /\ Tail(c.down) \in Seq(DownPackets) BY <1>1 DEF ClientOK
<1>8. View(a)' = w
  <2>1. w = [board |-> w.board, me |-> w.me, alive |-> TRUE] BY DEF Reading
  <2> QED BY <1>2, <1>3, <2>1 DEF View
<1>9. CaughtUp(a)' = CaughtUp(a)
  <2>1. CaughtUp(a)' = Replay(w, Tail(c.down)) BY <1>2, <1>3, <1>8 DEF CaughtUp
  <2>2. CaughtUp(a) = Replay(Reading(View(a), Head(c.down)), Tail(c.down))
    BY <1>7, ReplayTaken DEF CaughtUp
  <2> QED BY <2>1, <2>2 DEF Incoming
<1>10. AskPending(a)' = AskPending(a) BY <1>2, <1>3, <1>4 DEF AskPending
<1>11. ClientOK(a)'
  <2>1. UpPackets' = UpPackets /\ DownPackets' = DownPackets
    BY <1>4 DEF UpPackets, DownPackets, KnownIds
  <2>2. a \in members BY <1>1 DEF ClientOK
  <2> QED BY <1>1, <1>2, <1>3, <1>4, <1>7, <2>1, <2>2 DEF ClientOK
<1> QED BY <1>1, <1>2, <1>3, <1>4, <1>6, <1>9, <1>10, <1>11, OneClient DEF Open

\* ... and one that does not.
LEMMA DiedKeeps ==
  ASSUME SessionInv, NEW a \in Peers, Crash(a)
  PROVE  SessionInv'
<1> DEFINE c == client[a]
           d == [c EXCEPT !.link = "crashed", !.down = <<>>]
<1>1. /\ client = [b \in Peers |-> client[b]] /\ ClientOK(a)
      /\ JoinsOnce /\ JoinersUnknown /\ CountersBounded
      /\ IsClient(c, c.link, c.board, c.me, c.up, c.down)
      /\ event = Departed(a) => c.link = "free"
      /\ Open(a) => Follows(CaughtUp(a), board, ~AskPending(a))
  BY PartsOfInv
<1>2. UNCHANGED vars /\ UNCHANGED <<dials, keys>> /\ Open(a) /\ c.down # <<>> BY DEF Crash
<1>3. client' = [client EXCEPT ![a] = d]
  <2>1. client' = [client EXCEPT ![a].link = "crashed", ![a].down = <<>>] BY DEF Crash
  <2> QED BY <1>1, <2>1
<1> HIDE DEF c
<1>4. IsClient(d, "crashed", c.board, c.me, c.up, <<>>) BY <1>1 DEF IsClient
<1> USE DEF c
<1> HIDE DEF d
<1>6. /\ client'[a] = d /\ \A b \in Peers : b # a => client'[b] = client[b]
      /\ client' = [b \in Peers |-> client'[b]]
  BY <1>1, <1>3, ClientReplaced
<1>7. /\ d.link = "crashed" /\ d.board = c.board /\ d.me = c.me /\ d.up = c.up /\ d.down = <<>>
      /\ d = [link |-> d.link, board |-> d.board, me |-> d.me, up |-> d.up, down |-> d.down]
  BY <1>4, ClientWhole
<1>8. \A b \in Peers : client'[b].up = client[b].up BY <1>6, <1>7
<1>9. JoinsOnce' /\ JoinersUnknown' /\ CountersBounded' BY <1>1, <1>2, <1>8, SameUps
<1>10. ~Open(a)' BY <1>6, <1>7 DEF Open
<1>11. c.down \in Seq(DownPackets) BY <1>1 DEF ClientOK
<1>12. c.me = NoPlayer
  <2>1. ~Survives(View(a), Incoming(a))
    BY <1>2 DEF Crash, Survives, View, KnowsSubject, Initialised
  <2> DEFINE w == Reading(View(a), Incoming(a))
  <2>2. ~w.alive /\ View(a).me = c.me BY <2>1 DEF Reading, View
  <2>3. CaughtUp(a) = Replay(w, Tail(c.down)) BY <1>2, <1>11, ReplayTaken DEF CaughtUp, Incoming
  <2> HIDE DEF w
  <2>4. Tail(c.down) \in Seq(DownPackets) BY <1>2, <1>11
  <2>5. ~CaughtUp(a).alive
    <3>1. ~Replay(w, Tail(c.down)).alive BY <2>2, <2>4, ReplayKeeps
    <3> QED BY <2>3, <3>1
  <2>6. CaughtUp(a).me = NoPlayer BY <1>1, <1>2, <2>5 DEF Follows
  <2>7. View(a).me # NoPlayer => CaughtUp(a).me = View(a).me BY <1>11, ReplayKeeps DEF CaughtUp
  <2> QED BY <2>2, <2>6, <2>7
<1>13. ClientOK(a)'
  <2>1. UpPackets' = UpPackets /\ DownPackets' = DownPackets
    BY <1>2 DEF UpPackets, DownPackets, KnownIds, vars
  <2>2. <<>> \in Seq(DownPackets) OBVIOUS
  <2> QED BY <1>1, <1>6, <1>7, <1>10, <1>12, <2>1, <2>2 DEF ClientOK
<1>14. event # Departed(a) BY <1>1, <1>2 DEF Open
<1> QED BY <1>2, <1>6, <1>9, <1>10, <1>13, <1>14, OneClient

\* A client that has an id gets through the next packet: it would be dead in
\* CaughtUp otherwise.
LEMMA NextFound ==
  ASSUME SessionInv, NEW a \in Peers, Initialised(a), client[a].down # <<>>
  PROVE  Survives(View(a), Incoming(a))
<1> DEFINE v == View(a)
           m == Incoming(a)
           d == client[a].down
<1>1. d \in Seq(DownPackets) /\ Open(a) /\ client[a].me # NoPlayer
  BY DEF SessionInv, ClientOK, Initialised
<1>2. Follows(CaughtUp(a), board, ~AskPending(a)) BY <1>1 DEF SessionInv, ReplicasFollow
<1>3. v.me = client[a].me BY DEF View
<1>4. CaughtUp(a) = Replay(v, d) /\ m = Head(d) BY DEF CaughtUp, Incoming
<1> HIDE DEF v, d, m
<1>5. Replay(v, d).me # NoPlayer BY <1>1, <1>3, ReplayKeeps
<1>6. Replay(v, d).alive BY <1>2, <1>4, <1>5 DEF Follows
<1>7. Replay(v, d) = Replay(Reading(v, m), Tail(d)) BY <1>1, <1>4, ReplayTaken DEF d
<1>8. Survives(v, m)
  <2> SUFFICES ASSUME ~Survives(v, m) PROVE FALSE
    OBVIOUS
  <2>1. ~Reading(v, m).alive BY DEF Reading
  <2>2. Tail(d) \in Seq(DownPackets) BY <1>1 DEF d
  <2>3. ~Replay(Reading(v, m), Tail(d)).alive BY <2>1, <2>2, ReplayKeeps
  <2> QED BY <1>6, <1>7, <2>3
<1> QED BY <1>8 DEF v, m

\* Every packet.
LEMMA ReceiveKeeps ==
  ASSUME SessionInv, NEW a \in Peers, Receive(a) PROVE SessionInv'
<1> DEFINE c == client[a]
           m == Incoming(a)
           w == Reading(View(a), m)
<1>1. /\ client = [b \in Peers |-> client[b]]
      /\ IsClient(c, c.link, c.board, c.me, c.up, c.down)
  BY PartsOfInv
<1>2. View(a).board = c.board /\ View(a).me = c.me /\ View(a).alive BY DEF View
<1>3. ASSUME Open(a), c.down # <<>>, Survives(View(a), m), NEW b, b = BoardAfter(c.board, m),
             Takes(a, b), m[1] # "C"
      PROVE  SessionInv'
  <2> DEFINE d == [c EXCEPT !.down = Tail(c.down), !.board = b]
  <2>1. w.alive /\ w.board = b /\ w.me = c.me BY <1>2, <1>3 DEF Reading
  <2>2. client' = [client EXCEPT ![a] = d] BY <1>1, <1>3 DEF Takes
  <2> HIDE DEF c
  <2>3. IsClient(d, c.link, b, c.me, c.up, Tail(c.down)) BY <1>1 DEF IsClient
  <2>4. c.link = "open" BY <1>3 DEF Open, c
  <2> HIDE DEF d, w
  <2>5. UNCHANGED <<vars, dials, keys>> BY <1>3 DEF Takes
  <2> USE DEF c
  <2>6. IsClient(d, "open", w.board, w.me, c.up, Tail(c.down)) BY <2>1, <2>3, <2>4
  <2>7. w = Reading(View(a), Incoming(a)) BY DEF w
  <2> QED BY <1>3, <2>1, <2>2, <2>5, <2>6, <2>7, TakenKeeps
<1>4. ASSUME ReceiveId(a) PROVE SessionInv'
  <2> DEFINE b == AddPlayersUpTo(c.board, m[2])
             i == IF c.me = NoPlayer THEN m[2] ELSE c.me
             d == [c EXCEPT !.down = Tail(c.down), !.board = b, !.me = i]
  <2>1. /\ Open(a) /\ c.down # <<>> /\ m[1] = "C"
        /\ UNCHANGED <<vars, dials, keys>>
    BY <1>4 DEF ReceiveId, Heard
  <2>2. Survives(View(a), m) BY <2>1 DEF Survives, PrintsOwn, LooksUp
  <2>3. w.alive /\ w.board = b /\ w.me = i BY <1>2, <2>1, <2>2 DEF Reading, BoardAfter
  <2>4. client' = [client EXCEPT ![a] = d] BY <1>4 DEF ReceiveId
  <2> HIDE DEF c, b, i
  <2>5. IsClient(d, c.link, b, i, c.up, Tail(c.down)) BY <1>1 DEF IsClient
  <2>6. c.link = "open" BY <2>1 DEF Open, c
  <2> HIDE DEF d, w
  <2> USE DEF c
  <2>7. IsClient(d, "open", w.board, w.me, c.up, Tail(c.down)) BY <2>3, <2>5, <2>6
  <2>8. w = Reading(View(a), Incoming(a)) BY DEF w
  <2> QED BY <2>1, <2>3, <2>4, <2>7, <2>8, TakenKeeps
<1>5. ASSUME ReceiveFlag(a) PROVE SessionInv'
  <2>1. Survives(View(a), m)
    BY <1>2, <1>5 DEF ReceiveFlag, Heard, KnowsSubject, Initialised, Survives
  <2>2. BoardAfter(c.board, m) = SetReady(c.board, m[2], m[1] = "SR") /\ m[1] # "C"
    BY <1>5 DEF ReceiveFlag, Heard, BoardAfter
  <2> QED BY <1>3, <1>5, <2>1, <2>2 DEF ReceiveFlag, Heard
<1>6. ASSUME ReceiveLoss(a) PROVE SessionInv'
  <2>1. Survives(View(a), m) BY <1>6, NextFound DEF ReceiveLoss, Heard
  <2>2. /\ m[1] = "SD"
        /\ IsStarted(c.board) => BoardAfter(c.board, m) = Defeat(c.board, m[2])
        /\ ~IsStarted(c.board) => BoardAfter(c.board, m) = RemovePlayer(c.board, m[2])
    BY <1>6 DEF ReceiveLoss, Heard, BoardAfter
  <2>3. Takes(a, BoardAfter(c.board, m)) BY <1>6, <2>2 DEF ReceiveLoss
  <2> QED BY <1>3, <1>6, <2>1, <2>2, <2>3 DEF ReceiveLoss, Heard
<1>7. ASSUME ReceiveStart(a) PROVE SessionInv'
  <2>1. Survives(View(a), m)
    BY <1>2, <1>7 DEF ReceiveStart, Heard, Initialised, Survives, LooksUp
  <2>2. BoardAfter(c.board, m) = StartBoard(c.board) /\ m[1] # "C"
    BY <1>7 DEF ReceiveStart, Heard, BoardAfter
  <2> QED BY <1>3, <1>7, <2>1, <2>2 DEF ReceiveStart, Heard
<1>8. ASSUME ReceiveIncome(a) PROVE SessionInv'
  <2>1. Survives(View(a), m)
    BY <1>2, <1>8 DEF ReceiveIncome, Heard, Survives, LooksUp, PrintsOwn
  <2>2. BoardAfter(c.board, m) = IncHexBank(c.board) /\ m[1] # "C"
    BY <1>8 DEF ReceiveIncome, Heard, BoardAfter
  <2> QED BY <1>3, <1>8, <2>1, <2>2 DEF ReceiveIncome, Heard
<1>9. ASSUME ReceiveNews(a) PROVE SessionInv'
  <2>1. Survives(View(a), m)
    BY <1>2, <1>9 DEF ReceiveNews, Heard, KnowsSubject, Initialised, Survives
  <2>2. BoardAfter(c.board, m) = c.board /\ m[1] # "C"
    BY <1>9 DEF ReceiveNews, Heard, BoardAfter
  <2> QED BY <1>3, <1>9, <2>1, <2>2 DEF ReceiveNews, Heard
<1> QED BY <1>4, <1>5, <1>6, <1>7, <1>8, <1>9, DiedKeeps DEF Receive

-----------------------------------------------------------------------------
(***************************************************************************)
(* What a packet does to a client that has taken everything before it,     *)
(* compared with what the server did when it sent it.                      *)
(***************************************************************************)

\* A board's numbers.
LEMMA BoardNumbers ==
  ASSUME NEW b, NEW A, BoardOK(b, A)
  PROVE  /\ b.lastPlayer \in Nat /\ b.phase \in {"lobby", "playing", "ended"}
         /\ Ids(b) \subseteq 1 .. b.lastPlayer
         /\ \A p \in Ids(b) : /\ b.players[p].hexbank \in Nat /\ b.players[p].armyCount \in Nat
                              /\ b.players[p].ready \in BOOLEAN
                              /\ b.players[p].king \in {"none", "alive", "dead"}
BY DEF BoardOK, PlayerOK, Ids

\* Before the first id.
LEMMA EmptyBoardParts ==
  /\ EmptyBoard.phase = "lobby" /\ EmptyBoard.lastPlayer = 0 /\ Ids(EmptyBoard) = {}
  /\ BoardOK(EmptyBoard, {NoAddress})
BY EmptyBoardOK DEF EmptyBoard, Ids

\* isReady(r) on both.
LEMMA FlagAgrees ==
  ASSUME NEW c, NEW b, NEW asked, NEW A, BoardOK(b, A), Agrees(c, b, asked),
         NEW p \in Ids(b), NEW r \in BOOLEAN
  PROVE  Agrees(SetReady(c, p, r), SetReady(b, p, r), asked)
<1> DEFINE c2 == SetReady(c, p, r)
           b2 == SetReady(b, p, r)
<1>1. /\ BoardOK(c, {NoAddress}) /\ p \in Ids(c)
      /\ c.lastPlayer = b.lastPlayer /\ IsStarted(c) = IsStarted(b)
      /\ \A q \in Ids(b) : q \in Ids(c) /\ PlayerAgrees(c.players[q], b.players[q], asked)
  BY DEF Agrees
<1>2. BoardOK(c2, {NoAddress}) BY <1>1, SetReadyOK
<1>3. /\ Ids(c2) = Ids(c) /\ c2.phase = c.phase /\ c2.lastPlayer = c.lastPlayer
      /\ c2.players[p].ready = r
      /\ \A q \in Ids(c) : /\ q # p => c2.players[q].ready = c.players[q].ready
                           /\ c2.players[q].king      = c.players[q].king
                           /\ c2.players[q].hexbank   = c.players[q].hexbank
                           /\ c2.players[q].armyCount = c.players[q].armyCount
                           /\ c2.players[q].army      = c.players[q].army
  BY <1>1, SetReadyShows
<1>4. /\ Ids(b2) = Ids(b) /\ b2.phase = b.phase /\ b2.lastPlayer = b.lastPlayer
      /\ b2.players[p].ready = r
      /\ \A q \in Ids(b) : /\ q # p => b2.players[q].ready = b.players[q].ready
                           /\ b2.players[q].king      = b.players[q].king
                           /\ b2.players[q].hexbank   = b.players[q].hexbank
                           /\ b2.players[q].armyCount = b.players[q].armyCount
                           /\ b2.players[q].army      = b.players[q].army
  BY SetReadyShows
<1> HIDE DEF c2, b2
<1>5. \A q \in Ids(b2) : q \in Ids(c2) /\ PlayerAgrees(c2.players[q], b2.players[q], asked)
  BY <1>1, <1>3, <1>4 DEF PlayerAgrees
<1>6. Agrees(c2, b2, asked) BY <1>1, <1>2, <1>3, <1>4, <1>5 DEF Agrees, IsStarted
<1> QED BY <1>6 DEF c2, b2

\* isDefeated(true) on both.
LEMMA LossAgrees ==
  ASSUME NEW c, NEW b, NEW asked, NEW A, BoardOK(b, A), Agrees(c, b, asked), NEW p \in Ids(b)
  PROVE  Agrees(Defeat(c, p), Defeat(b, p), asked)
<1> DEFINE c2 == Defeat(c, p)
           b2 == Defeat(b, p)
<1>1. /\ BoardOK(c, {NoAddress}) /\ p \in Ids(c)
      /\ c.lastPlayer = b.lastPlayer /\ IsStarted(c) = IsStarted(b)
      /\ \A q \in Ids(b) : q \in Ids(c) /\ PlayerAgrees(c.players[q], b.players[q], asked)
  BY DEF Agrees
<1>2. BoardOK(c2, {NoAddress}) BY <1>1, DefeatOK
<1>3. /\ Ids(c2) = Ids(c) /\ c2.phase = c.phase /\ c2.lastPlayer = c.lastPlayer
      /\ c2.players[p].king = "dead"
      /\ \A q \in Ids(c) : /\ q # p => c2.players[q].king = c.players[q].king
                           /\ c2.players[q].ready     = c.players[q].ready
                           /\ c2.players[q].hexbank   = c.players[q].hexbank
                           /\ c2.players[q].armyCount = c.players[q].armyCount
                           /\ c2.players[q].army      = c.players[q].army
  BY <1>1, DefeatShows
<1>4. /\ Ids(b2) = Ids(b) /\ b2.phase = b.phase /\ b2.lastPlayer = b.lastPlayer
      /\ b2.players[p].king = "dead"
      /\ \A q \in Ids(b) : /\ q # p => b2.players[q].king = b.players[q].king
                           /\ b2.players[q].ready     = b.players[q].ready
                           /\ b2.players[q].hexbank   = b.players[q].hexbank
                           /\ b2.players[q].armyCount = b.players[q].armyCount
                           /\ b2.players[q].army      = b.players[q].army
  BY DefeatShows
<1> HIDE DEF c2, b2
<1>5. \A q \in Ids(b2) : q \in Ids(c2) /\ PlayerAgrees(c2.players[q], b2.players[q], asked)
  BY <1>1, <1>3, <1>4 DEF PlayerAgrees
<1>6. Agrees(c2, b2, asked) BY <1>1, <1>2, <1>3, <1>4, <1>5 DEF Agrees, IsStarted
<1> QED BY <1>6 DEF c2, b2

\* incHexBank on both.
LEMMA IncomeAgrees ==
  ASSUME NEW c, NEW b, NEW asked, NEW A, BoardOK(b, A), Agrees(c, b, asked)
  PROVE  Agrees(IncHexBank(c), IncHexBank(b), asked)
<1> DEFINE c2 == IncHexBank(c)
           b2 == IncHexBank(b)
<1>1. /\ BoardOK(c, {NoAddress})
      /\ c.lastPlayer = b.lastPlayer /\ IsStarted(c) = IsStarted(b)
      /\ \A q \in Ids(b) : q \in Ids(c) /\ PlayerAgrees(c.players[q], b.players[q], asked)
  BY DEF Agrees
<1>2. BoardOK(c2, {NoAddress}) BY <1>1, IncHexBankOK
<1>3. /\ Ids(c2) = Ids(c) /\ c2.phase = c.phase /\ c2.lastPlayer = c.lastPlayer
      /\ \A q \in Ids(c) : /\ c2.players[q].king      = c.players[q].king
                           /\ c2.players[q].ready     = c.players[q].ready
                           /\ c2.players[q].hexbank   = c.players[q].hexbank + 1
                           /\ c2.players[q].armyCount = c.players[q].armyCount
                           /\ c2.players[q].army      = c.players[q].army
  BY <1>1, IncHexBankShows
<1>4. /\ Ids(b2) = Ids(b) /\ b2.phase = b.phase /\ b2.lastPlayer = b.lastPlayer
      /\ \A q \in Ids(b) : /\ b2.players[q].king      = b.players[q].king
                           /\ b2.players[q].ready     = b.players[q].ready
                           /\ b2.players[q].hexbank   = b.players[q].hexbank + 1
                           /\ b2.players[q].armyCount = b.players[q].armyCount
                           /\ b2.players[q].army      = b.players[q].army
  BY IncHexBankShows
<1> HIDE DEF c2, b2
<1>5. \A q \in Ids(b2) : q \in Ids(c2) /\ PlayerAgrees(c2.players[q], b2.players[q], asked)
  <2> TAKE q \in Ids(b2)
  <2>1. q \in Ids(b) /\ q \in Ids(c) /\ PlayerAgrees(c.players[q], b.players[q], asked)
    BY <1>1, <1>4
  <2>2. b.players[q].hexbank \in Nat /\ c.players[q].hexbank \in Nat
    BY <1>1, <2>1, BoardNumbers
  <2> QED BY <1>3, <1>4, <2>1, <2>2 DEF PlayerAgrees
<1>6. Agrees(c2, b2, asked) BY <1>1, <1>2, <1>3, <1>4, <1>5 DEF Agrees, IsStarted
<1> QED BY <1>6 DEF c2, b2

\* startBoard on both.
LEMMA StartAgrees ==
  ASSUME NEW c, NEW b, NEW asked, NEW A, BoardOK(b, A), b.phase = "lobby", Agrees(c, b, asked)
  PROVE  Agrees(StartBoard(c), StartBoard(b), asked)
<1> DEFINE c2 == StartBoard(c)
           b2 == StartBoard(b)
<1>1. /\ BoardOK(c, {NoAddress}) /\ c.phase = "lobby"
      /\ c.lastPlayer = b.lastPlayer
      /\ \A q \in Ids(b) : q \in Ids(c) /\ PlayerAgrees(c.players[q], b.players[q], asked)
  BY DEF Agrees, IsStarted
<1>2. BoardOK(c2, {NoAddress}) BY <1>1, StartBoardOK
<1>3. /\ Ids(c2) = Ids(c) /\ c2.phase = "playing" /\ c2.lastPlayer = c.lastPlayer
      /\ \A q \in Ids(c) : /\ c2.players[q].king      = "alive"
                           /\ c2.players[q].ready     = c.players[q].ready
                           /\ c2.players[q].hexbank   = c.players[q].hexbank
                           /\ c2.players[q].armyCount = c.players[q].armyCount + 4
                           /\ Idle(c2.players[q])
  BY <1>1, StartBoardShows
<1>4. /\ Ids(b2) = Ids(b) /\ b2.phase = "playing" /\ b2.lastPlayer = b.lastPlayer
      /\ \A q \in Ids(b) : /\ b2.players[q].king      = "alive"
                           /\ b2.players[q].ready     = b.players[q].ready
                           /\ b2.players[q].hexbank   = b.players[q].hexbank
                           /\ b2.players[q].armyCount = b.players[q].armyCount + 4
                           /\ Idle(b2.players[q])
  BY StartBoardShows
<1> HIDE DEF c2, b2
<1>5. \A q \in Ids(b2) : q \in Ids(c2) /\ PlayerAgrees(c2.players[q], b2.players[q], asked)
  <2> TAKE q \in Ids(b2)
  <2>1. q \in Ids(b) /\ q \in Ids(c) /\ PlayerAgrees(c.players[q], b.players[q], asked)
    BY <1>1, <1>4
  <2>2. b.players[q].armyCount \in Nat BY <2>1, BoardNumbers
  <2> QED BY <1>3, <1>4, <2>1, <2>2 DEF PlayerAgrees
<1>6. Agrees(c2, b2, asked) BY <1>1, <1>2, <1>3, <1>4, <1>5 DEF Agrees, IsStarted
<1> QED BY <1>6 DEF c2, b2

\* What the server does without a word, or with one that changes no replica: a
\* player leaves the lobby, an order is charged or refused, the game ends.
Duller(b, c) ==
  /\ c.lastPlayer = b.lastPlayer /\ IsStarted(c) = IsStarted(b) /\ Ids(c) \subseteq Ids(b)
  /\ \A p \in Ids(c) : /\ c.players[p].king = b.players[p].king
                       /\ c.players[p].ready = b.players[p].ready
                       /\ c.players[p].hexbank <= b.players[p].hexbank
                       /\ c.players[p].armyCount <= 4 =>
                            /\ b.players[p].armyCount <= 4
                            /\ c.players[p].hexbank = b.players[p].hexbank

LEMMA DullAgrees ==
  ASSUME NEW c, NEW b, NEW d, NEW asked, NEW A, BoardOK(b, A), BoardOK(d, A),
         Agrees(c, b, asked), Duller(b, d)
  PROVE  Agrees(c, d, asked)
<1>1. \A p \in Ids(d) : p \in Ids(c) /\ PlayerAgrees(c.players[p], d.players[p], asked)
  <2> TAKE p \in Ids(d)
  <2>1. p \in Ids(b) /\ p \in Ids(c) /\ PlayerAgrees(c.players[p], b.players[p], asked)
    BY DEF Agrees, Duller
  <2>2. /\ b.players[p].hexbank \in Nat /\ d.players[p].hexbank \in Nat
        /\ c.players[p].hexbank \in Nat
    BY <2>1, BoardNumbers DEF Agrees
  <2> QED BY <2>1, <2>2 DEF PlayerAgrees, Duller
<1> QED BY <1>1 DEF Agrees, Duller

\* addPlayer until id: every id in between is somebody's.
LEMMA AddPlayersUpToShows ==
  ASSUME NEW b, NEW A, NoAddress \in A, BoardOK(b, A),
         NEW id \in Nat, b.lastPlayer < id
  PROVE  LET c == AddPlayersUpTo(b, id)
         IN /\ BoardOK(c, A)
            /\ c.phase = b.phase /\ c.lastPlayer = id
            /\ Ids(c) = Ids(b) \cup (b.lastPlayer + 1 .. id)
            /\ \A p \in Ids(b) : c.players[p] = b.players[p]
            /\ \A p \in b.lastPlayer + 1 .. id : /\ c.players[p].king = "none"
                                                 /\ ~c.players[p].ready
                                                 /\ c.players[p].hexbank = 0
<1> DEFINE n   == Cardinality(Ids(b))
           l   == b.lastPlayer
           new == l + 1 .. id
           pl(p) == NewPlayer(NoAddress, n + p - l)
           f   == [p \in Ids(b) \cup new |-> IF p \in new THEN pl(p) ELSE b.players[p]]
           c   == [b EXCEPT !.lastPlayer = id, !.players = f]
<1>1. /\ l \in Nat /\ n \in Nat /\ Ids(b) \subseteq 1 .. l
      /\ \A p \in Ids(b) : PlayerOK(b.players[p], A)
  BY FinitePlayers DEF BoardOK, Ids
<1>2. \A p \in new : p \notin Ids(b) /\ n + p - l \in Nat BY <1>1
<1>3. \A p \in new : PlayerOK(pl(p), A) BY <1>2, NewPlayerOK
<1>4. \A p \in new : pl(p).king = "none" /\ ~pl(p).ready /\ pl(p).hexbank = 0
  BY DEF NewPlayer
<1>5. AddPlayersUpTo(b, id) = c
  <2>1. (IF id > b.lastPlayer THEN id ELSE b.lastPlayer) = id OBVIOUS
  <2> QED BY <2>1, BoardFields DEF AddPlayersUpTo
<1>6. Ids(b) \cup new \subseteq 1 .. id BY <1>1
<1> HIDE DEF l, n
<1> HIDE DEF new
<1> HIDE DEF pl
<1>7. /\ DOMAIN f = Ids(b) \cup new /\ f = [p \in DOMAIN f |-> f[p]]
      /\ \A p \in new : f[p] = pl(p)
      /\ \A p \in Ids(b) : f[p] = b.players[p]
  BY <1>2
<1> HIDE DEF f
<1>8. /\ c \in [phase : {"lobby", "playing", "ended"}, lastPlayer : Nat,
               players : {c.players}, tiles : [Tiles -> Nat \X Nat]]
      /\ c.players = f /\ c.lastPlayer = id /\ c.phase = b.phase
  <2>1. b \in [phase : {"lobby", "playing", "ended"}, lastPlayer : Nat,
              players : {b.players}, tiles : [Tiles -> Nat \X Nat]]
    BY BoardFields
  <2> QED BY <2>1
<1> HIDE DEF c
<1>9. \A p \in DOMAIN f : PlayerOK(f[p], A) BY <1>1, <1>3, <1>7
<1>10. BoardOK(c, A) BY <1>6, <1>7, <1>8, <1>9, BoardParts
<1>11. Ids(c) = Ids(b) \cup new /\ \A p \in Ids(b) : c.players[p] = b.players[p]
  BY <1>7, <1>8 DEF Ids
<1>12. \A p \in new : c.players[p].king = "none" /\ ~c.players[p].ready /\ c.players[p].hexbank = 0
  BY <1>4, <1>7, <1>8
<1> QED BY <1>5, <1>8, <1>10, <1>11, <1>12 DEF new, l

\* addPlayer on the server, with the next id.
Entered(b, d, id) ==
  /\ id = b.lastPlayer + 1 /\ id \notin Ids(b) /\ Ids(d) = Ids(b) \cup {id}
  /\ d.phase = b.phase /\ d.lastPlayer = id
  /\ \A p \in Ids(b) : d.players[p] = b.players[p]
  /\ ~d.players[id].ready /\ d.players[id].king = "none" /\ d.players[id].hexbank = 0

\* ... and on a replica that had all the ids before it...
LEMMA JoinAgrees ==
  ASSUME NEW c, NEW b, NEW d, NEW id, NEW asked, NEW A, BoardOK(b, A),
         Agrees(c, b, asked), Entered(b, d, id)
  PROVE  Agrees(AddPlayersUpTo(c, id), d, asked)
<1> DEFINE c2 == AddPlayersUpTo(c, id)
<1>1. /\ BoardOK(c, {NoAddress}) /\ NoAddress \in {NoAddress}
      /\ c.lastPlayer = b.lastPlayer /\ IsStarted(c) = IsStarted(b)
      /\ \A q \in Ids(b) : q \in Ids(c) /\ PlayerAgrees(c.players[q], b.players[q], asked)
  BY DEF Agrees
<1>2. b.lastPlayer \in Nat /\ id \in Nat /\ c.lastPlayer < id /\ id \in c.lastPlayer + 1 .. id
  BY <1>1, BoardNumbers DEF Entered
<1>3. /\ BoardOK(c2, {NoAddress}) /\ c2.phase = c.phase /\ c2.lastPlayer = id
      /\ Ids(c2) = Ids(c) \cup (c.lastPlayer + 1 .. id)
      /\ \A p \in Ids(c) : c2.players[p] = c.players[p]
      /\ \A p \in c.lastPlayer + 1 .. id : /\ c2.players[p].king = "none"
                                           /\ ~c2.players[p].ready
                                           /\ c2.players[p].hexbank = 0
  BY <1>1, <1>2, AddPlayersUpToShows
<1> HIDE DEF c2
<1>4. PlayerAgrees(c2.players[id], d.players[id], asked)
  BY <1>2, <1>3 DEF PlayerAgrees, Entered
<1>5. \A q \in Ids(d) : q \in Ids(c2) /\ PlayerAgrees(c2.players[q], d.players[q], asked)
  BY <1>1, <1>2, <1>3, <1>4 DEF Entered
<1>6. Agrees(c2, d, asked) BY <1>1, <1>3, <1>5 DEF Agrees, IsStarted, Entered
<1> QED BY <1>6 DEF c2

\* ... and on one that had none: in the lobby there is nothing to know of the
\* others but who is ready, and if the list was answered nobody was.
LEMMA FirstAgrees ==
  ASSUME NEW b, NEW d, NEW id, NEW asked, NEW A, BoardOK(b, A), Entered(b, d, id),
         b.phase = "lobby",
         \A p \in Ids(b) : b.players[p].king = "none" /\ b.players[p].hexbank = 0,
         asked => GetReadyPlayers(b) = {}
  PROVE  Agrees(AddPlayersUpTo(EmptyBoard, id), d, asked)
<1> DEFINE c2 == AddPlayersUpTo(EmptyBoard, id)
<1>1. /\ b.lastPlayer \in Nat /\ id \in Nat /\ 0 < id
      /\ Ids(d) \subseteq 1 .. id /\ Ids(EmptyBoard) = {}
      /\ EmptyBoard.lastPlayer = 0 /\ EmptyBoard.phase = "lobby"
      /\ BoardOK(EmptyBoard, {NoAddress}) /\ NoAddress \in {NoAddress}
  BY BoardNumbers, EmptyBoardParts DEF Entered
<1>2. /\ BoardOK(c2, {NoAddress}) /\ c2.phase = "lobby" /\ c2.lastPlayer = id
      /\ Ids(c2) = 1 .. id
      /\ \A p \in 1 .. id : /\ c2.players[p].king = "none"
                            /\ ~c2.players[p].ready
                            /\ c2.players[p].hexbank = 0
  <2>1. PICK e : e = EmptyBoard OBVIOUS
  <2> DEFINE c3 == AddPlayersUpTo(e, id)
  <2>2. e.lastPlayer < id /\ BoardOK(e, {NoAddress}) BY <1>1, <2>1
  <2>3. /\ BoardOK(c3, {NoAddress}) /\ c3.phase = e.phase /\ c3.lastPlayer = id
        /\ Ids(c3) = Ids(e) \cup (e.lastPlayer + 1 .. id)
        /\ \A p \in e.lastPlayer + 1 .. id : /\ c3.players[p].king = "none"
                                             /\ ~c3.players[p].ready
                                             /\ c3.players[p].hexbank = 0
    BY <1>1, <2>2, AddPlayersUpToShows
  <2>4. c3 = c2 BY <2>1
  <2> HIDE DEF c3, c2
  <2>5. e.lastPlayer + 1 .. id = 1 .. id /\ Ids(e) = {} /\ e.phase = "lobby"
    BY <1>1, <2>1
  <2> QED BY <2>3, <2>4, <2>5
<1> HIDE DEF c2
<1>3. \A q \in Ids(d) : /\ d.players[q].king = "none" /\ d.players[q].hexbank = 0
                        /\ asked => ~d.players[q].ready
  BY DEF Entered, GetReadyPlayers
<1>4. \A q \in Ids(d) : q \in Ids(c2) /\ PlayerAgrees(c2.players[q], d.players[q], asked)
  BY <1>1, <1>2, <1>3 DEF PlayerAgrees
<1>5. Agrees(c2, d, asked) BY <1>1, <1>2, <1>4 DEF Agrees, IsStarted, Entered
<1> QED BY <1>5 DEF c2

\* An agreement that covers the list covers less without it.
LEMMA AgreesLess ==
  ASSUME NEW c, NEW b, Agrees(c, b, TRUE)
  PROVE  Agrees(c, b, FALSE)
BY DEF Agrees, PlayerAgrees

-----------------------------------------------------------------------------
(***************************************************************************)
(* The same for a client as it is followed, with an id or without.         *)
(***************************************************************************)

\* A packet other than 'C'.
LEMMA ReadingFollows ==
  ASSUME NEW w, NEW b, NEW asked, Follows(w, b, asked),
         NEW m, m[1] # "C", NEW d, d.lastPlayer = b.lastPlayer, NEW now,
         w.alive /\ w.me = NoPlayer /\ Survives(w, m) =>
           BoardAfter(EmptyBoard, m) = EmptyBoard /\ (now => GetReadyPlayers(d) = {}),
         w.me # NoPlayer => Survives(w, m) /\ Agrees(BoardAfter(w.board, m), d, now)
  PROVE  Follows(Reading(w, m), d, now)
<1> DEFINE v == Reading(w, m)
<1>1. /\ w.me \in 0 .. d.lastPlayer /\ w.alive \in BOOLEAN /\ (~w.alive => w.me = NoPlayer)
      /\ w.alive /\ w.me = NoPlayer => w.board = EmptyBoard
  BY DEF Follows
<1>2. CASE w.alive /\ Survives(w, m)
  <2>1. v.board = BoardAfter(w.board, m) /\ v.me = w.me /\ v.alive BY <1>2 DEF Reading
  <2>2. v.alive \in BOOLEAN BY <1>2 DEF Reading
  <2> HIDE DEF v
  <2>3. Follows(v, d, now) BY <1>1, <1>2, <2>1, <2>2 DEF Follows
  <2> QED BY <2>3 DEF v
<1>3. CASE ~(w.alive /\ Survives(w, m))
  <2>1. ~v.alive /\ v.alive \in BOOLEAN /\ v.me = w.me BY <1>3 DEF Reading
  <2>2. w.me = NoPlayer BY <1>1, <1>3
  <2> HIDE DEF v
  <2>3. Follows(v, d, now) BY <1>1, <2>1, <2>2 DEF Follows
  <2> QED BY <2>3 DEF v
<1> QED BY <1>2, <1>3

\* A client without an id dies of it.
LEMMA KillsStrangers ==
  ASSUME NEW w, w.me = NoPlayer, w.board = EmptyBoard, NEW m, PrintsOwn(m) \/ LooksUp(m)
  PROVE  ~Survives(w, m)
BY EmptyBoardParts DEF Survives

\* A packet that a client with an id survives and one without does not.
LEMMA ToldFollows ==
  ASSUME NEW w, NEW b, NEW asked, Follows(w, b, asked),
         NEW m, m[1] # "C", PrintsOwn(m) \/ LooksUp(m), m[1] = "SD" => IsStarted(b),
         LooksUp(m) => m[2] \in Ids(b) /\ (m[1] = "SD" => b.players[m[2]].king # "none"),
         NEW d, d.lastPlayer = b.lastPlayer, NEW now,
         w.me # NoPlayer => Agrees(BoardAfter(w.board, m), d, now)
  PROVE  Follows(Reading(w, m), d, now)
<1>1. w.alive /\ w.me = NoPlayer => ~Survives(w, m) BY KillsStrangers DEF Follows
<1>2. ASSUME w.me # NoPlayer PROVE Survives(w, m)
  <2>1. Agrees(w.board, b, asked) BY <1>2 DEF Follows
  <2>2. LooksUp(m) => m[2] \in Ids(w.board) BY <2>1 DEF Agrees
  <2>3. m[1] = "SD" => IsStarted(w.board) /\ w.board.players[m[2]].king # "none"
    BY <2>1 DEF Agrees, PlayerAgrees, LooksUp
  <2> QED BY <1>2, <2>2, <2>3 DEF Survives
<1> QED BY <1>1, <1>2, ReadingFollows

\* No packet, and less to know.
LEMMA DullFollows ==
  ASSUME NEW w, NEW b, NEW asked, Follows(w, b, asked), NEW A, BoardOK(b, A),
         NEW d, BoardOK(d, A), Duller(b, d)
  PROVE  Follows(w, d, asked)
<1>1. w.me # NoPlayer => Agrees(w.board, d, asked) BY DullAgrees DEF Follows
<1>2. GetReadyPlayers(b) = {} => GetReadyPlayers(d) = {} BY DEF GetReadyPlayers, Duller
<1> QED BY <1>1, <1>2 DEF Follows, Duller

\* isReady.
LEMMA FlagFollows ==
  ASSUME NEW w, NEW b, NEW asked, Follows(w, b, asked), NEW A, BoardOK(b, A),
         NEW p \in Ids(b), NEW r \in BOOLEAN, NEW m, m = IF r THEN ReadyMsg(p) ELSE UnreadyMsg(p)
  PROVE  Follows(Reading(w, m), SetReady(b, p, r), asked)
<1> DEFINE d == SetReady(b, p, r)
<1>1. m[2] = p /\ m[1] \in {"SR", "SN"} /\ (m[1] = "SR" <=> r) BY DEF ReadyMsg, UnreadyMsg
<1>2. ASSUME w.me # NoPlayer PROVE Agrees(BoardAfter(w.board, m), d, asked)
  <2>1. BoardAfter(w.board, m) = SetReady(w.board, p, m[1] = "SR") BY <1>1 DEF BoardAfter
  <2>2. (m[1] = "SR") = r BY <1>1
  <2> QED BY <1>2, <2>1, <2>2, FlagAgrees DEF Follows
<1>3. d.lastPlayer = b.lastPlayer BY SetReadyShows
<1> HIDE DEF d
<1>4. Follows(Reading(w, m), d, asked) BY <1>1, <1>2, <1>3, ToldFollows DEF PrintsOwn, LooksUp
<1> QED BY <1>4 DEF d

\* A loss, once the game is on.
LEMMA LossFollows ==
  ASSUME NEW w, NEW b, NEW asked, Follows(w, b, asked), NEW A, BoardOK(b, A),
         NEW p \in Ids(b), IsStarted(b), b.players[p].king # "none"
  PROVE  Follows(Reading(w, <<"SD", p>>), Defeat(b, p), asked)
<1> DEFINE d == Defeat(b, p)
<1>1. PICK m : m = <<"SD", p>> OBVIOUS
<1>2. m[1] = "SD" /\ m[2] = p BY <1>1
<1>3. ASSUME w.me # NoPlayer PROVE Agrees(BoardAfter(w.board, m), d, asked)
  <2>1. Agrees(w.board, b, asked) BY <1>3 DEF Follows
  <2>2. BoardAfter(w.board, m) = Defeat(w.board, p) BY <1>2, <2>1 DEF BoardAfter, Agrees
  <2> QED BY <2>1, <2>2, LossAgrees
<1>4. d.lastPlayer = b.lastPlayer BY DefeatShows
<1> HIDE DEF d
<1>5. Follows(Reading(w, m), d, asked) BY <1>2, <1>3, <1>4, ToldFollows DEF PrintsOwn, LooksUp
<1> QED BY <1>1, <1>5 DEF d

\* The start.
LEMMA StartFollows ==
  ASSUME NEW w, NEW b, NEW asked, Follows(w, b, asked), NEW A, BoardOK(b, A), b.phase = "lobby"
  PROVE  Follows(Reading(w, <<"SG">>), StartBoard(b), asked)
<1> DEFINE d == StartBoard(b)
<1>1. PICK m : m = <<"SG">> OBVIOUS
<1>2. m[1] = "SG" BY <1>1
<1>3. ASSUME w.me # NoPlayer PROVE Agrees(BoardAfter(w.board, m), d, asked)
  <2>1. Agrees(w.board, b, asked) BY <1>3 DEF Follows
  <2>2. BoardAfter(w.board, m) = StartBoard(w.board) BY <1>2 DEF BoardAfter
  <2> QED BY <2>1, <2>2, StartAgrees
<1>4. d.lastPlayer = b.lastPlayer BY StartBoardShows
<1> HIDE DEF d
<1>5. Follows(Reading(w, m), d, asked) BY <1>2, <1>3, <1>4, ToldFollows DEF PrintsOwn, LooksUp
<1> QED BY <1>1, <1>5 DEF d

\* Income: a client without an id has nobody to pay it to.
LEMMA IncomeFollows ==
  ASSUME NEW w, NEW b, NEW asked, Follows(w, b, asked), NEW A, BoardOK(b, A)
  PROVE  Follows(Reading(w, <<"TH">>), IncHexBank(b), asked)
<1> DEFINE d == IncHexBank(b)
<1>1. PICK m : m = <<"TH">> OBVIOUS
<1>2. m[1] = "TH" BY <1>1
<1>3. \A x : BoardAfter(x, m) = IncHexBank(x) BY <1>2 DEF BoardAfter
<1>4. w.me # NoPlayer => Agrees(BoardAfter(w.board, m), d, asked)
  BY <1>3, IncomeAgrees DEF Follows
<1>5. Survives(w, m) BY <1>2 DEF Survives, PrintsOwn, LooksUp
<1>6. BoardAfter(EmptyBoard, m) = EmptyBoard
  <2>1. IncHexBank(EmptyBoard) = EmptyBoard BY DEF IncHexBank, EmptyBoard, Ids
  <2> QED BY <1>3, <2>1
<1>7. d.lastPlayer = b.lastPlayer /\ (GetReadyPlayers(b) = {} => GetReadyPlayers(d) = {})
  BY IncHexBankShows DEF GetReadyPlayers
<1>8. w.alive /\ w.me = NoPlayer => (asked => GetReadyPlayers(b) = {}) BY DEF Follows
<1> HIDE DEF d
<1>9. Follows(Reading(w, m), d, asked) BY <1>2, <1>4, <1>5, <1>6, <1>7, <1>8, ReadingFollows
<1> QED BY <1>1, <1>9 DEF d

\* "GB" and 'W' change no replica.
LEMMA NewsFollows ==
  ASSUME NEW w, NEW b, NEW asked, Follows(w, b, asked), NEW A, BoardOK(b, A),
         NEW d, BoardOK(d, A), Duller(b, d),
         NEW m, m[1] \in {"GB", "W"}, m[1] = "GB" => m[2] \in Ids(b)
  PROVE  Follows(Reading(w, m), d, asked)
<1>1. d.lastPlayer = b.lastPlayer BY DEF Duller
<1>2. BoardAfter(w.board, m) = w.board BY DEF BoardAfter
<1>3. w.me # NoPlayer => Agrees(w.board, d, asked) BY DullAgrees DEF Follows
<1> QED BY <1>1, <1>2, <1>3, ToldFollows DEF PrintsOwn, LooksUp

\* 'C': everybody adds the player, and who has no id takes this one.
LEMMA JoinFollows ==
  ASSUME NEW w, NEW b, NEW asked, Follows(w, b, asked), NEW A, BoardOK(b, A),
         NEW d, NEW id, Entered(b, d, id), b.phase = "lobby",
         \A p \in Ids(b) : b.players[p].king = "none" /\ b.players[p].hexbank = 0
  PROVE  Follows(Reading(w, <<"C", id>>), d, asked)
<1> DEFINE m == <<"C", id>>
           v == Reading(w, m)
<1>1. m[1] = "C" /\ m[2] = id OBVIOUS
<1>2. b.lastPlayer \in Nat /\ id \in Nat /\ id # NoPlayer /\ d.lastPlayer = id
  BY BoardNumbers DEF Entered, NoPlayer
<1>3. w.me \in 0 .. b.lastPlayer /\ w.me \in 0 .. id BY <1>2 DEF Follows, Entered
<1> HIDE DEF m
<1>4. Survives(w, m) BY <1>1 DEF Survives, PrintsOwn, LooksUp
<1>5. CASE ~w.alive
  <2>1. ~v.alive /\ v.alive \in BOOLEAN /\ v.me = w.me /\ w.me = NoPlayer
    BY <1>5 DEF Reading, Follows
  <2> HIDE DEF v
  <2>2. Follows(v, d, asked) BY <1>2, <1>3, <2>1 DEF Follows
  <2> QED BY <2>2 DEF v, m
<1>6. CASE w.alive
  <2>1. /\ v.alive /\ v.alive \in BOOLEAN /\ v.board = AddPlayersUpTo(w.board, id)
        /\ v.me = IF w.me = NoPlayer THEN id ELSE w.me
    BY <1>1, <1>4, <1>6 DEF Reading, BoardAfter
  <2>2. Agrees(AddPlayersUpTo(w.board, id), d, asked)
    <3>1. CASE w.me # NoPlayer BY <3>1, JoinAgrees DEF Follows
    <3>2. CASE w.me = NoPlayer
      <4>1. w.board = EmptyBoard /\ (asked => GetReadyPlayers(b) = {}) BY <1>6, <3>2 DEF Follows
      <4>2. Agrees(AddPlayersUpTo(EmptyBoard, id), d, asked) BY <4>1, FirstAgrees
      <4> QED BY <4>1, <4>2
    <3> QED BY <3>1, <3>2
  <2> HIDE DEF v
  <2>3. Follows(v, d, asked) BY <1>2, <1>3, <2>1, <2>2 DEF Follows
  <2> QED BY <2>3 DEF v, m
<1> QED BY <1>5, <1>6

-----------------------------------------------------------------------------
(* The ready list. *)

\* The members of a finite set of numbers, by their rank.
Rank(S, p)   == Cardinality({q \in S : q <= p})
Ranked(S, k) == CHOOSE p \in S : Rank(S, p) = k

\* Every rank is somebody's, and everybody has one.
LEMMA RanksFound ==
  ASSUME NEW S \in SUBSET Nat, IsFiniteSet(S)
  PROVE  /\ Cardinality(S) \in Nat
         /\ \A k \in 1 .. Cardinality(S) : Ranked(S, k) \in S
         /\ \A p \in S : \E k \in 1 .. Cardinality(S) : Ranked(S, k) = p
<1> DEFINE n == Cardinality(S)
           f == [p \in S |-> Rank(S, p)]
           Upto(p) == {q \in S : q <= p}
<1>1. n \in Nat BY FS_CardinalityType
<1>2. \A p \in S : IsFiniteSet(Upto(p)) /\ Rank(S, p) \in 1 .. n
  <2> TAKE p \in S
  <2>1. Upto(p) \in SUBSET S /\ p \in Upto(p) OBVIOUS
  <2> HIDE DEF Upto
  <2>2. IsFiniteSet(Upto(p)) /\ Cardinality(Upto(p)) <= n BY <2>1, FS_Subset
  <2>3. Cardinality(Upto(p)) \in Nat BY <2>2, FS_CardinalityType
  <2>4. Cardinality(Upto(p)) # 0 BY <2>1, <2>2, FS_EmptySet
  <2> QED BY <1>1, <2>2, <2>3, <2>4 DEF Rank, Upto
<1>3. ASSUME NEW p \in S, NEW q \in S, p < q PROVE Rank(S, p) # Rank(S, q)
  <2>1. Upto(p) \in SUBSET Upto(q) /\ q \in Upto(q) /\ q \notin Upto(p)
    <3>1. p \in Nat /\ q \in Nat /\ \A r \in S : r \in Nat OBVIOUS
    <3>2. \A r \in S : r <= p => r <= q BY <1>3, <3>1
    <3>3. q \in Upto(q) /\ q \notin Upto(p) BY <1>3, <3>1
    <3>4. Upto(p) \subseteq Upto(q) BY <3>2
    <3> QED BY <3>3, <3>4
  <2> HIDE DEF Upto
  <2>2. Cardinality(Upto(q)) # Cardinality(Upto(p)) BY <1>2, <2>1, FS_Subset
  <2> QED BY <2>2 DEF Rank, Upto
<1>4. \A p, q \in S : Rank(S, p) = Rank(S, q) => p = q
  <2> SUFFICES ASSUME NEW p \in S, NEW q \in S, Rank(S, p) = Rank(S, q), p # q PROVE FALSE
    OBVIOUS
  <2>1. p < q \/ q < p OBVIOUS
  <2> QED BY <1>3, <2>1
<1>5. f \in Injection(S, 1 .. n) BY <1>2, <1>4 DEF Injection, IsInjective
<1>6. f \in Surjection(S, 1 .. n)
  <2>1. IsFiniteSet(1 .. n) /\ Cardinality(1 .. n) = n BY <1>1, FS_Interval
  <2> QED BY <1>5, <2>1, FS_Injection
<1>7. \A k \in 1 .. n : \E p \in S : Rank(S, p) = k BY <1>6 DEF Surjection
<1>8. \A k \in 1 .. n : Ranked(S, k) \in S BY <1>7 DEF Ranked
<1>9. \A p \in S : Ranked(S, Rank(S, p)) = p BY <1>4 DEF Ranked
<1> QED BY <1>1, <1>2, <1>8, <1>9

\* One packet for each ready player.
LEMMA ListParts ==
  ASSUME NEW b, NEW A, BoardOK(b, A)
  PROVE  LET ready == GetReadyPlayers(b)
             s     == ReadyList(b)
         IN /\ Len(s) \in Nat /\ DOMAIN s = 1 .. Len(s)
            /\ s \in Seq({ReadyMsg(p) : p \in ready})
            /\ \A k \in 1 .. Len(s) : Ranked(ready, k) \in ready /\ s[k] = ReadyMsg(Ranked(ready, k))
            /\ \A p \in ready : \E k \in 1 .. Len(s) : Ranked(ready, k) = p
<1> DEFINE ready == GetReadyPlayers(b)
           n == Cardinality(ready)
           s == ReadyList(b)
<1>1. ready \in SUBSET Nat /\ IsFiniteSet(ready)
  <2>1. ready \in SUBSET Ids(b) BY DEF GetReadyPlayers
  <2>2. Ids(b) \subseteq Nat BY BoardNumbers
  <2> QED BY <2>1, <2>2, FinitePlayers, FS_Subset
<1>2. s = [k \in 1 .. n |-> ReadyMsg(Ranked(ready, k))] BY DEF ReadyList, Ranked, Rank
<1> HIDE DEF s, ready
<1>3. /\ n \in Nat /\ \A k \in 1 .. n : Ranked(ready, k) \in ready
      /\ \A p \in ready : \E k \in 1 .. n : Ranked(ready, k) = p
  BY <1>1, RanksFound
<1> HIDE DEF n
<1>4. s \in Seq({ReadyMsg(p) : p \in ready}) /\ Len(s) = n /\ DOMAIN s = 1 .. n
  <2>1. s \in [1 .. n -> {ReadyMsg(p) : p \in ready}] BY <1>2, <1>3
  <2> QED BY <1>2, <1>3, <2>1
<1>5. \A k \in 1 .. n : s[k] = ReadyMsg(Ranked(ready, k)) BY <1>2
<1> QED BY <1>3, <1>4, <1>5 DEF s, ready

\* One of them, on a replica.
LEMMA FlagTold ==
  ASSUME NEW c, NEW b, NEW asked, Agrees(c, b, asked), NEW p \in GetReadyPlayers(b),
         NEW r \in BOOLEAN
  PROVE  r => /\ Agrees(SetReady(c, p, r), b, asked)
              /\ SetReady(c, p, r).players[p].ready
              /\ \A q \in Ids(b) : c.players[q].ready => SetReady(c, p, r).players[q].ready
<1> DEFINE c2 == SetReady(c, p, r)
<1>1. /\ BoardOK(c, {NoAddress}) /\ p \in Ids(c)
      /\ c.lastPlayer = b.lastPlayer /\ IsStarted(c) = IsStarted(b)
      /\ \A q \in Ids(b) : q \in Ids(c) /\ PlayerAgrees(c.players[q], b.players[q], asked)
  BY DEF Agrees, GetReadyPlayers
<1>2. BoardOK(c2, {NoAddress}) BY <1>1, SetReadyOK
<1>3. /\ Ids(c2) = Ids(c) /\ c2.phase = c.phase /\ c2.lastPlayer = c.lastPlayer
      /\ c2.players[p].ready = r
      /\ \A q \in Ids(c) : /\ q # p => c2.players[q].ready = c.players[q].ready
                           /\ c2.players[q].king      = c.players[q].king
                           /\ c2.players[q].hexbank   = c.players[q].hexbank
                           /\ c2.players[q].armyCount = c.players[q].armyCount
                           /\ c2.players[q].army      = c.players[q].army
  BY <1>1, SetReadyShows
<1> HIDE DEF c2
<1>4. b.players[p].ready BY DEF GetReadyPlayers
<1>5. SUFFICES ASSUME r
               PROVE  /\ Agrees(c2, b, asked) /\ c2.players[p].ready
                      /\ \A q \in Ids(b) : c.players[q].ready => c2.players[q].ready
  BY DEF c2
<1>6. c2.players[p].ready BY <1>3, <1>5
<1>7. \A q \in Ids(b) : c.players[q].ready => c2.players[q].ready BY <1>1, <1>3, <1>6
<1>8. \A q \in Ids(b) : q \in Ids(c2) /\ PlayerAgrees(c2.players[q], b.players[q], asked)
  BY <1>1, <1>3, <1>4, <1>6 DEF PlayerAgrees
<1> QED BY <1>1, <1>2, <1>3, <1>6, <1>7, <1>8 DEF Agrees, IsStarted

\* A client without an id that has taken k packets of the list, k > 0, is dead,
\* and one with an id knows that the first k are ready.
Told(v, b, k) ==
  /\ Follows(v, b, FALSE)
  /\ v.alive /\ v.me = NoPlayer => k = 0
  /\ v.me # NoPlayer =>
       \A j \in 1 .. k : v.board.players[Ranked(GetReadyPlayers(b), j)].ready

\* The whole list: a client without an id dies of it unless it is empty, and one
\* with an id knows all who are ready.
LEMMA ListFollows ==
  ASSUME NEW w, NEW b, Follows(w, b, FALSE), NEW A, BoardOK(b, A)
  PROVE  Follows(Replay(w, ReadyList(b)), b, TRUE)
<1> DEFINE ready == GetReadyPlayers(b)
           s == ReadyList(b)
           n == Len(s)
<1>1. /\ n \in Nat /\ s \in Seq({ReadyMsg(p) : p \in ready})
      /\ \A k \in 1 .. n : Ranked(ready, k) \in ready /\ s[k] = ReadyMsg(Ranked(ready, k))
      /\ \A p \in ready : \E k \in 1 .. n : Ranked(ready, k) = p
  BY ListParts
<1>2. \A p \in ready : p \in Ids(b) /\ b.players[p].ready BY DEF GetReadyPlayers
<1> HIDE DEF s, n, ready
<1>3. PICK f : Steps(f, w, s) /\ Replay(w, s) = f[n] BY <1>1, ReplayWalk DEF n
<1> DEFINE T == {k \in Nat : k <= n => Told(f[k], b, k)}
<1>4. 0 \in T
  <2>1. f[0] = w BY <1>3 DEF Steps
  <2>2. \A j \in 1 .. 0 : FALSE OBVIOUS
  <2>3. Told(w, b, 0) BY <2>2 DEF Told
  <2> QED BY <2>1, <2>3
<1>5. ASSUME NEW k \in T, k < n PROVE k + 1 \in T
  <2> DEFINE v == f[k]
             p == Ranked(ready, k + 1)
             m == ReadyMsg(p)
             v2 == Reading(v, m)
  <2>1. k + 1 \in 1 .. n /\ (k + 1) - 1 = k /\ k \in Nat BY <1>1, <1>5
  <2>2. f[k + 1] = v2 BY <1>1, <1>3, <2>1 DEF Steps, n
  <2>3. p \in ready /\ p \in Ids(b) /\ b.players[p].ready BY <1>1, <1>2, <2>1
  <2> HIDE DEF p
  <2>4. /\ Follows(v, b, FALSE)
        /\ v.me # NoPlayer => \A j \in 1 .. k : v.board.players[Ranked(ready, j)].ready
    <3>1. Told(v, b, k) BY <1>1, <1>5, <2>1
    <3> QED BY <3>1 DEF Told, ready
  <2> HIDE DEF v
  <2>5. m[1] = "SR" /\ m[2] = p BY DEF ReadyMsg
  <2> DEFINE r == m[1] = "SR"
  <2>6. r \in BOOLEAN /\ r /\ \A x : BoardAfter(x, m) = SetReady(x, p, r) BY <2>5 DEF BoardAfter
  <2> HIDE DEF m, r
  <2>7. ASSUME v.me # NoPlayer
        PROVE  /\ Agrees(SetReady(v.board, p, r), b, FALSE)
               /\ SetReady(v.board, p, r).players[p].ready
               /\ \A q \in Ids(b) : v.board.players[q].ready
                                      => SetReady(v.board, p, r).players[q].ready
    BY <2>3, <2>4, <2>6, <2>7, FlagTold DEF Follows, ready
  <2>8. Follows(v2, b, FALSE)
    BY <2>3, <2>4, <2>5, <2>6, <2>7, ToldFollows DEF PrintsOwn, LooksUp
  <2>9. ASSUME v.me = NoPlayer PROVE v2.me = NoPlayer /\ ~v2.alive
    <3>1. ~(v.alive /\ Survives(v, m))
      BY <2>4, <2>5, <2>9, KillsStrangers DEF Follows, PrintsOwn
    <3> QED BY <2>9, <3>1 DEF Reading
  <2>10. ASSUME v.me # NoPlayer PROVE v2.me = v.me /\ v2.board = SetReady(v.board, p, r)
    <3>1. v.alive BY <2>4, <2>10 DEF Follows
    <3>2. Survives(v, m)
      <4>1. p \in Ids(v.board) BY <2>3, <2>4, <2>10 DEF Follows, Agrees
      <4> QED BY <2>5, <2>10, <4>1 DEF Survives
    <3> QED BY <2>5, <2>6, <3>1, <3>2 DEF Reading
  <2> HIDE DEF v2
  <2>11. v2.alive /\ v2.me = NoPlayer => k + 1 = 0 BY <2>9, <2>10
  <2>12. ASSUME v2.me # NoPlayer, NEW j \in 1 .. k + 1
         PROVE  v2.board.players[Ranked(ready, j)].ready
    <3>1. v.me # NoPlayer BY <2>9, <2>12
    <3>2. CASE j = k + 1 BY <2>7, <2>10, <3>1, <3>2 DEF p
    <3>3. CASE j \in 1 .. k
      <4>1. v.board.players[Ranked(ready, j)].ready BY <2>4, <3>1, <3>3
      <4>2. Ranked(ready, j) \in Ids(b) BY <1>1, <1>2, <2>1, <3>3
      <4> QED BY <2>7, <2>10, <3>1, <4>1, <4>2
    <3> QED BY <2>1, <3>2, <3>3
  <2>13. Told(v2, b, k + 1) BY <2>8, <2>11, <2>12 DEF Told, ready
  <2> QED BY <2>1, <2>2, <2>13
<1>6. T \subseteq Nat OBVIOUS
<1>7. n \in T
  <2> HIDE DEF T
  <2>1. 0 .. n \subseteq T BY <1>1, <1>4, <1>5, <1>6, UpTo
  <2> QED BY <1>1, <2>1
<1> DEFINE v == f[n]
<1>8. /\ Follows(v, b, FALSE) /\ (v.alive /\ v.me = NoPlayer => n = 0)
      /\ v.me # NoPlayer => \A j \in 1 .. n : v.board.players[Ranked(ready, j)].ready
  <2>1. Told(v, b, n) BY <1>1, <1>7
  <2> QED BY <2>1 DEF Told, ready
<1> HIDE DEF v
<1>9. ASSUME v.alive, v.me = NoPlayer PROVE ready = {}
  <2>1. n = 0 BY <1>8, <1>9
  <2> QED BY <1>1, <2>1
<1>10. ASSUME v.me # NoPlayer PROVE Agrees(v.board, b, TRUE)
  <2>1. Agrees(v.board, b, FALSE) BY <1>8, <1>10 DEF Follows
  <2>2. \A p \in Ids(b) : b.players[p].ready => v.board.players[p].ready
    <3> TAKE p \in Ids(b)
    <3>1. b.players[p].ready => p \in ready BY DEF ready, GetReadyPlayers
    <3> QED BY <1>1, <1>8, <1>10, <3>1
  <2> QED BY <2>1, <2>2 DEF Agrees, PlayerAgrees
<1>11. Follows(v, b, TRUE) BY <1>8, <1>9, <1>10 DEF Follows, ready
<1> QED BY <1>3, <1>11 DEF v, s

-----------------------------------------------------------------------------
(***************************************************************************)
(* Steps of the server.                                                    *)
(***************************************************************************)

\* The clock, and steps that change nothing.
LEMMA Untouched ==
  ASSUME SessionInv, IInv', UNCHANGED <<board, event, members, sweep, client, dials, keys>>
  PROVE  SessionInv'
<1>1. Unmoved' BY DEF SessionInv, Unmoved
<1>2. UpPackets' = UpPackets /\ DownPackets' = DownPackets
  BY DEF UpPackets, DownPackets, KnownIds
<1>3. EventOK' BY <1>2 DEF SessionInv, EventOK
<1>4. Joins' = Joins /\ Orders' = Orders BY DEF Joins, Orders, OrderAt
<1>5. JoinsOnce' /\ JoinersUnknown' /\ CountersBounded'
  BY <1>4 DEF SessionInv, JoinsOnce, JoinersUnknown, CountersBounded
<1>6. client' = [a \in Peers |-> client'[a]] BY DEF SessionInv
<1>7. \A a \in Peers : ClientOK(a)' BY <1>2 DEF SessionInv, ClientOK, Open, View
<1>8. ReplicasFollow'
  <2> SUFFICES ASSUME NEW a \in Peers, Open(a)'
               PROVE  Follows(CaughtUp(a)', board', ~AskPending(a)')
    BY DEF ReplicasFollow
  <2>1. Open(a) /\ CaughtUp(a)' = CaughtUp(a) /\ AskPending(a)' = AskPending(a)
    BY DEF Open, CaughtUp, View, AskPending
  <2> QED BY <2>1 DEF SessionInv, ReplicasFollow
<1> QED BY <1>1, <1>3, <1>5, <1>6, <1>7, <1>8 DEF SessionInv

\* What the clients really send is what the server's module lets them send: ids
\* are left for those who ask for one, and numbers for those who buy.
LEMMA EventsArrive ==
  ASSUME SessionInv, stage = "service"
  PROVE  NetworkEvents \subseteq Arrivals
<1>1. /\ IInv /\ EventOK /\ JoinersUnknown /\ CountersBounded /\ \A a \in Peers : ClientOK(a)
      /\ BoardOK(board, Peers) /\ members \subseteq Peers
  BY DEF SessionInv, IInv, TypeOK
<1>2. event = NoEvent BY <1>1 DEF IInv, TurnOK
<1>3. ASSUME NEW a \in members, client[a].up # <<>>
      PROVE  Head(client[a].up) \in ClientPackets(a)
  <2> DEFINE u == client[a].up
             m == Head(u)
  <2>1. a \in Peers /\ u \in Seq(UpPackets) BY <1>1 DEF ClientOK
  <2>2. u # <<>> /\ 1 \in DOMAIN u /\ m = u[1] /\ m \in UpPackets BY <1>3, <2>1
  <2>3. CASE m = Join
    <3>1. a \in Joins BY <2>1, <2>2, <2>3 DEF Joins
    <3>2. IsFiniteSet(Joins) /\ Cardinality(Joins) \in Nat /\ Cardinality(Joins) # 0
      BY <1>1, <3>1, FS_CardinalityType, FS_EmptySet DEF CountersBounded
    <3>3. board.lastPlayer \in Nat BY <1>1, BoardNumbers
    <3>4. board.lastPlayer < MaxJoins
      BY <1>1, <3>2, <3>3, SessionAssumption, ServerAssumption DEF CountersBounded
    <3>5. IsStarted(board) \/ \A p \in Ids(board) : board.players[p].address # a
      BY <1>1, <3>1 DEF JoinersUnknown
    <3> QED BY <2>3, <3>4, <3>5 DEF ClientPackets
  <2>4. ASSUME NEW p \in KnownIds, NEW t \in DOMAIN Cost, m = BuyMsg(p, t)
        PROVE  m \in ClientPackets(a)
    <3>1. <<a, 1>> \in Orders
      <4>1. OrderAt(a, 1) BY <2>2, <2>4 DEF OrderAt, BuyMsg
      <4>2. 1 \in 0 .. Len(u) BY <2>1, <2>2
      <4> QED BY <2>1, <4>1, <4>2 DEF Orders
    <3>2. IsFiniteSet(Orders) /\ Cardinality(Orders) \in Nat /\ Cardinality(Orders) # 0
      BY <1>1, <3>1, FS_CardinalityType, FS_EmptySet DEF CountersBounded
    <3>3. ASSUME p \in Ids(board) PROVE board.players[p].armyCount < MaxTries
      <4>1. board.players[p].armyCount \in Nat BY <1>1, <3>3, BoardNumbers
      <4>2. board.players[p].armyCount + Cardinality(Orders)
              <= keys + IF IsStarted(board) THEN 4 ELSE 0
        BY <1>1, <3>3 DEF CountersBounded
      <4> QED BY <1>1, <3>2, <4>1, <4>2, SessionAssumption, ServerAssumption
              DEF CountersBounded
    <3> QED BY <2>4, <3>3 DEF ClientPackets
  <2> QED BY <2>2, <2>3, <2>4 DEF UpPackets, ClientPackets
<1>4. ASSUME NEW e \in NetworkEvents PROVE e \in Arrivals
  <2>1. CASE \E a \in members : client[a].up # <<>> /\ e = From(a, Head(client[a].up))
    BY <1>3, <2>1 DEF Arrivals
  <2> QED BY <1>1, <2>1 DEF NetworkEvents, Arrivals
<1> QED BY <1>4

\* With fewer events to take, no more turns.
LEMMA TimedMore ==
  ASSUME NEW E, NEW F, E \subseteq F, TimedEvent(E)
  PROVE  TimedEvent(F)
BY DEF TimedEvent, StartTimer, KeepCounting, StartGame, ResetTimer, EndGame, AfterTheGame,
       PlayTick, Take

\* A step of the session is a step of the server, or of a client alone.
LEMMA SessionStep ==
  ASSUME SessionInv, [SessionNext]_sessionVars
  PROVE  [Next]_vars /\ IInv'
<1>1. [Next]_vars
  <2>1. CASE ServerTurn
    <3>1. CASE FinishTurn BY <3>1 DEF Next, ServerStep
    <3>2. CASE TimedEvent(NetworkEvents)
      <4>1. stage = "service"
        BY <3>2 DEF TimedEvent, StartTimer, KeepCounting, StartGame, ResetTimer, EndGame,
                    AfterTheGame, PlayTick, LobbyTurn
      <4>2. TimedEvent(Arrivals) BY <3>2, <4>1, EventsArrive, TimedMore
      <4> QED BY <4>2 DEF Next, ServerStep
    <3> QED BY <2>1, <3>1, <3>2 DEF ServerTurn
  <2>2. CASE ClockTick BY <2>2 DEF ClockTick, Next
  <2>3. CASE \E a \in Peers : Receive(a) \/ UserInput(a)
    <3>1. UNCHANGED vars
      BY <2>3 DEF Receive, ReceiveId, ReceiveFlag, ReceiveLoss, ReceiveStart, ReceiveIncome,
                  ReceiveNews, Crash, Takes, UserInput, Dial, Leave, PressReady,
                  PressReadyLate, PressBuy, Press
    <3> QED BY <3>1
  <2>4. CASE UNCHANGED sessionVars BY <2>4 DEF sessionVars
  <2> QED BY <2>1, <2>2, <2>3, <2>4 DEF SessionNext
<1>2. IInv' BY <1>1, StepSafe DEF SessionInv
<1> QED BY <1>1, <1>2

\* A broadcast s that keeps whoever follows b following d, and one that is the
\* answer to the question for the list.
Carries(b, s, d) ==
  \A w : \A asked \in BOOLEAN : Follows(w, b, asked) => Follows(Replay(w, s), d, asked)

Answers(b, s, d) ==
  \A w : Follows(w, b, FALSE) => Follows(Replay(w, s), d, TRUE)

\* Who follows with the list follows without it.
LEMMA FollowsLess ==
  ASSUME NEW w, NEW b, NEW asked \in BOOLEAN, Follows(w, b, asked)
  PROVE  Follows(w, b, FALSE)
<1>1. ASSUME w.me # NoPlayer PROVE Agrees(w.board, b, FALSE)
  <2>1. Agrees(w.board, b, asked) BY <1>1 DEF Follows
  <2> QED BY <2>1 DEF Agrees, PlayerAgrees
<1> QED BY <1>1 DEF Follows

LEMMA AnswersCarry ==
  ASSUME NEW b, NEW s, NEW d, Answers(b, s, d)
  PROVE  Carries(b, s, d)
<1> SUFFICES ASSUME NEW w, NEW asked \in BOOLEAN, Follows(w, b, asked)
             PROVE  Follows(Replay(w, s), d, asked)
  BY DEF Carries
<1>1. Follows(Replay(w, s), d, TRUE) BY FollowsLess DEF Answers
<1> QED BY <1>1, FollowsLess

\* A client after a step of the server that broadcast s: d for c.
Served(c, d, s, inside) ==
  /\ IsClient(d, c.link, c.board, c.me, d.up,
              IF inside /\ c.link = "open" THEN c.down \o s ELSE c.down)
  /\ d.up = c.up \/ (inside /\ c.up # <<>> /\ d.up = Tail(c.up))

\* The broadcast gets into the slots of members.
LEMMA DeliverServes ==
  ASSUME NEW a \in Peers, NEW c, NEW u,
         c = [link |-> c.link, board |-> c.board, me |-> c.me, up |-> c.up, down |-> c.down],
         NEW e, e = [c EXCEPT !.up = u],
         u = c.up \/ (a \in members /\ c.up # <<>> /\ u = Tail(c.up))
  PROVE  Served(c, Deliver(e, a), sent', a \in members)
<1> DEFINE d == Deliver(e, a)
           f == [e EXCEPT !.down = c.down \o sent']
           s == c.down \o sent'
<1>1. IsClient(c, c.link, c.board, c.me, c.up, c.down) BY ClientParts
<1>2. IsClient(e, c.link, c.board, c.me, u, c.down) BY <1>1 DEF IsClient
<1>3. e.link = c.link /\ e.down = c.down /\ e.up = u BY <1>2, ClientWhole
<1> HIDE DEF s
<1>4. IsClient([e EXCEPT !.down = s], c.link, c.board, c.me, u, s) BY <1>2 DEF IsClient
<1>5. d = IF a \in members /\ c.link = "open" THEN [e EXCEPT !.down = s] ELSE e
  BY <1>3 DEF Deliver, s
<1> HIDE DEF d
<1>6. CASE a \in members /\ c.link = "open"
  <2>1. IsClient(d, c.link, c.board, c.me, u, s) BY <1>4, <1>5, <1>6
  <2>2. d.up = u BY <2>1, ClientWhole
  <2> QED BY <1>6, <2>1, <2>2 DEF Served, s, d
<1>7. CASE ~(a \in members /\ c.link = "open")
  <2>1. IsClient(d, c.link, c.board, c.me, u, c.down) BY <1>2, <1>5, <1>7
  <2>2. d.up = u BY <2>1, ClientWhole
  <2> QED BY <1>7, <2>1, <2>2 DEF Served, d
<1> QED BY <1>6, <1>7

\* A client that was served is as it should be, and follows.
LEMMA ServedOK ==
  ASSUME NEW a \in Peers, SessionInv,
         Served(client[a], client'[a], sent', a \in members),
         a \in members' \/ a \notin members \/ client[a].link = "free",
         UpPackets \subseteq UpPackets', DownPackets \subseteq DownPackets',
         sent' \in Seq(DownPackets'), board'.lastPlayer \in Nat,
         Carries(board, sent', board'),
         AskPending(a) /\ ~AskPending(a)' => Answers(board, sent', board')
  PROVE  ClientOK(a)' /\ (Open(a)' => Follows(CaughtUp(a)', board', ~AskPending(a)'))
<1> DEFINE c == client[a]
           d == client'[a]
           down == IF a \in members /\ c.link = "open" THEN c.down \o sent' ELSE c.down
<1>1. /\ ClientOK(a) /\ IsClient(c, c.link, c.board, c.me, c.up, c.down)
      /\ Open(a) => Follows(CaughtUp(a), board, ~AskPending(a))
  BY PartsOfInv
<1>2. /\ IsClient(d, c.link, c.board, c.me, d.up, down)
      /\ d.up = c.up \/ (a \in members /\ c.up # <<>> /\ d.up = Tail(c.up))
  BY DEF Served
<1>3. /\ d.link = c.link /\ d.board = c.board /\ d.me = c.me /\ d.down = down
      /\ d = [link |-> d.link, board |-> d.board, me |-> d.me, up |-> d.up, down |-> d.down]
  BY <1>2, ClientWhole
<1>4. /\ c.up \in Seq(UpPackets) /\ c.down \in Seq(DownPackets)
      /\ c.link \in {"free", "open", "closing", "crashed"}
      /\ c.link = "free" => c = NoClient
      /\ c.link = "crashed" => c.me = NoPlayer
      /\ Open(a) /\ a \notin members =>
           c.up = <<Join, AskReady>> /\ c.down = <<>> /\ View(a) = Fresh
  BY <1>1 DEF ClientOK
<1>5. d.up \in Seq(UpPackets')
  <2>1. c.up \in Seq(UpPackets') BY <1>4
  <2>2. c.up # <<>> => Tail(c.up) \in Seq(UpPackets') BY <2>1
  <2> QED BY <1>2, <2>1, <2>2
<1>6. c.down \in Seq(DownPackets') /\ down \in Seq(DownPackets')
  <2>1. c.down \in Seq(DownPackets') BY <1>4
  <2>2. c.down \o sent' \in Seq(DownPackets') BY <2>1
  <2> QED BY <2>1, <2>2
<1>7. d.link = "free" => d = NoClient
  <2> SUFFICES ASSUME c.link = "free" PROVE d = NoClient BY <1>3
  <2>1. c = NoClient BY <1>4
  <2>2. IsClient(NoClient, "free", EmptyBoard, NoPlayer, <<>>, <<>>) BY DEF IsClient, NoClient
  <2>3. c.up = <<>> /\ c.down = <<>> /\ c.board = EmptyBoard /\ c.me = NoPlayer
    BY <2>1, <2>2, ClientWhole
  <2>4. down = <<>> BY <2>3
  <2>5. d = [link |-> "free", board |-> EmptyBoard, me |-> NoPlayer, up |-> <<>>, down |-> <<>>]
    BY <1>2, <1>3, <2>3, <2>4
  <2> QED BY <2>5 DEF NoClient
<1>8. View(a)' = View(a) BY <1>3 DEF View
<1>9. ASSUME Open(a)', a \notin members
      PROVE  d.up = <<Join, AskReady>> /\ d.down = <<>> /\ View(a)' = Fresh
  BY <1>2, <1>3, <1>4, <1>8, <1>9 DEF Open
<1>10. ClientOK(a)'
  <2>1. Open(a)' /\ a \notin members' => a \notin members BY <1>3 DEF Open
  <2> QED BY <1>3, <1>4, <1>5, <1>6, <1>7, <1>9, <2>1 DEF ClientOK
<1>11. ASSUME Open(a)', a \in members PROVE Follows(CaughtUp(a)', board', ~AskPending(a)')
  <2>1. Open(a) /\ d.down = c.down \o sent' BY <1>3, <1>11 DEF Open
  <2>2. CaughtUp(a)' = Replay(CaughtUp(a), sent')
    <3>1. CaughtUp(a)' = Replay(View(a), c.down \o sent') BY <1>8, <2>1 DEF CaughtUp
    <3> QED BY <1>6, <3>1, ReplayMore DEF CaughtUp
  <2>3. Follows(CaughtUp(a), board, ~AskPending(a)) BY <1>1, <2>1
  <2>4. CASE AskPending(a)'
    <3>1. Follows(CaughtUp(a), board, FALSE)
      <4>1. CASE AskPending(a)
        <5>1. (~AskPending(a)) = FALSE BY <4>1
        <5> QED BY <2>3, <5>1
      <4>2. CASE ~AskPending(a)
        <5>1. (~AskPending(a)) = TRUE BY <4>2
        <5>2. Follows(CaughtUp(a), board, TRUE) BY <2>3, <5>1
        <5>3. TRUE \in BOOLEAN OBVIOUS
        <5> QED BY <5>2, <5>3, FollowsLess
      <4> QED BY <4>1, <4>2
    <3>3. Follows(Replay(CaughtUp(a), sent'), board', FALSE) BY <3>1 DEF Carries
    <3>4. (~AskPending(a)') = FALSE BY <2>4
    <3> QED BY <2>2, <3>3, <3>4
  <2>5. CASE ~AskPending(a)' /\ ~AskPending(a)
    <3>1. (~AskPending(a)') = TRUE /\ (~AskPending(a)) = TRUE BY <2>5
    <3>2. Follows(CaughtUp(a), board, TRUE) BY <2>3, <3>1
    <3>3. Follows(Replay(CaughtUp(a), sent'), board', TRUE) BY <3>2 DEF Carries
    <3> QED BY <2>2, <3>1, <3>3
  <2>6. CASE ~AskPending(a)' /\ AskPending(a)
    <3>1. (~AskPending(a)') = TRUE /\ (~AskPending(a)) = FALSE BY <2>6
    <3>2. Follows(CaughtUp(a), board, FALSE) BY <2>3, <3>1
    <3>3. Follows(Replay(CaughtUp(a), sent'), board', TRUE) BY <2>6, <3>2 DEF Answers
    <3> QED BY <2>2, <3>1, <3>3
  <2> QED BY <2>4, <2>5, <2>6
<1>12. ASSUME Open(a)', a \notin members PROVE Follows(CaughtUp(a)', board', ~AskPending(a)')
  <2>1. d.up = <<Join, AskReady>> /\ d.down = <<>> /\ View(a)' = Fresh BY <1>9, <1>12
  <2>2. CaughtUp(a)' = Fresh BY <2>1, ReplayNothing DEF CaughtUp
  <2>3. 2 \in DOMAIN d.up /\ d.up[2] = AskReady BY <2>1
  <2>4. AskPending(a)' BY <2>3 DEF AskPending
  <2>5. Follows(Fresh, board', FALSE) BY DEF Follows, Fresh, NoPlayer
  <2>6. (~AskPending(a)') = FALSE BY <2>4
  <2> QED BY <2>2, <2>5, <2>6
<1> QED BY <1>10, <1>11, <1>12

-----------------------------------------------------------------------------
(* What a step of the server does to the packets from the clients. *)

\* The turn takes a packet of a, or none of a's.
PacketTaken(a) ==
  LET u == client[a].up
  IN \/ event' = From(a, Head(u)) /\ a \in members /\ u # <<>> /\ client'[a].up = Tail(u)
     \/ ~(event'[1] = "receive" /\ event'[2] = a) /\ client'[a].up = u

\* An event is taken: a client is gone, or served.
LEMMA TakenServes ==
  ASSUME SessionInv, event' \in NetworkEvents, NEW a \in Peers,
         client' = [b \in Peers |-> Deliver(After(b, event'), b)]
  PROVE  \/ event' = Departed(a) /\ client'[a] = NoClient
         \/ /\ event' # Departed(a)
            /\ Served(client[a], client'[a], sent', a \in members) /\ PacketTaken(a)
<1> DEFINE c == client[a]
           e == event'
<1>1. c = [link |-> c.link, board |-> c.board, me |-> c.me, up |-> c.up, down |-> c.down]
  BY DEF SessionInv, ClientOK
<1>2. client'[a] = Deliver(After(a, e), a) OBVIOUS
<1>3. CASE e = Departed(a)
  <2>1. After(a, e) = NoClient BY <1>3 DEF After, Departed
  <2>2. NoClient.link = "free" BY DEF NoClient
  <2>3. Deliver(NoClient, a) = NoClient BY <2>2 DEF Deliver
  <2> QED BY <1>2, <1>3, <2>1, <2>3
<1>4. CASE e # Departed(a) /\ e[1] = "receive" /\ e[2] = a
  <2>1. a \in members /\ c.up # <<>> /\ e = From(a, Head(c.up))
    BY <1>4 DEF NetworkEvents, NoEvent, Connected, Departed, From
  <2>2. After(a, e) = [c EXCEPT !.up = Tail(c.up)] BY <1>4 DEF After
  <2> DEFINE d == [c EXCEPT !.up = Tail(c.up)]
  <2>3. Served(c, Deliver(d, a), sent', a \in members) BY <1>1, <2>1, DeliverServes
  <2>4. IsClient(c, c.link, c.board, c.me, c.up, c.down) BY <1>1, ClientParts
  <2> DEFINE u == Tail(c.up)
  <2> HIDE DEF u, c
  <2>5. d.up = u /\ Deliver(d, a).up = d.up BY <2>4 DEF IsClient, Deliver, u
  <2> QED BY <1>2, <1>4, <2>1, <2>2, <2>3, <2>5 DEF PacketTaken, c, u
<1>5. CASE e # Departed(a) /\ ~(e[1] = "receive" /\ e[2] = a)
  <2>1. After(a, e) = c BY <1>5 DEF After
  <2>2. c = [c EXCEPT !.up = c.up] BY <1>1
  <2>3. Served(c, Deliver(c, a), sent', a \in members) BY <1>1, <2>2, DeliverServes
  <2>4. IsClient(c, c.link, c.board, c.me, c.up, c.down) BY <1>1, ClientParts
  <2> HIDE DEF c
  <2>5. Deliver(c, a).up = c.up BY <2>4 DEF IsClient, Deliver
  <2> QED BY <1>2, <1>5, <2>1, <2>3, <2>5 DEF PacketTaken, c
<1> QED BY <1>3, <1>4, <1>5

\* Taking the first packet for the event does not make them more: the packets
\* that ask for an id, and the orders to buy.
LEMMA TakenCounts ==
  ASSUME SessionInv, event = NoEvent, event' \in NetworkEvents,
         client' = [b \in Peers |-> Deliver(After(b, event'), b)]
  PROVE  /\ JoinsOnce' /\ Joins' \subseteq Joins
         /\ IsFiniteSet(Orders') /\ Cardinality(Orders') <= Cardinality(Orders)
<1>1. /\ JoinsOnce /\ IsFiniteSet(Orders) /\ \A a \in Peers : client[a].up \in Seq(UpPackets)
  BY DEF SessionInv, CountersBounded, ClientOK
<1>2. ASSUME NEW a \in Peers
      PROVE  (event' = Departed(a) /\ client'[a].up = <<>>) \/ PacketTaken(a)
  BY TakenServes DEF NoClient
<1>3. \A a \in Peers : \A k \in DOMAIN Tail(client[a].up) :
        /\ client[a].up # <<>> => /\ k + 1 \in DOMAIN client[a].up
                                  /\ Tail(client[a].up)[k] = client[a].up[k + 1]
                                  /\ k \in Nat /\ k # 0
  BY <1>1
<1>4. \A a \in Peers : client[a].up # <<>> => /\ 1 \in DOMAIN client[a].up
                                              /\ Head(client[a].up) = client[a].up[1]
  BY <1>1
<1>5. ASSUME NEW a \in Peers, NEW k \in DOMAIN client'[a].up, client'[a].up[k] = Join
      PROVE  k = 1 /\ event' # From(a, Join) /\ a \in Joins
  <2>1. CASE event' = Departed(a) /\ client'[a].up = <<>>
    <3>1. DOMAIN client'[a].up = {} BY <2>1
    <3> QED BY <1>5, <3>1
  <2>2. CASE event' = From(a, Head(client[a].up)) /\ client[a].up # <<>>
             /\ client'[a].up = Tail(client[a].up)
    <3>1. k + 1 \in DOMAIN client[a].up /\ client[a].up[k + 1] = Join /\ k \in Nat /\ k # 0
      BY <1>3, <1>5, <2>2
    <3>2. k + 1 = 1 BY <1>1, <3>1 DEF JoinsOnce
    <3> QED BY <3>1, <3>2
  <2>3. CASE ~(event'[1] = "receive" /\ event'[2] = a) /\ client'[a].up = client[a].up
    <3>1. event' # From(a, Join) BY <2>3 DEF From
    <3> QED BY <1>1, <1>5, <2>3, <3>1 DEF JoinsOnce, Joins
  <2> QED BY <1>2, <2>1, <2>2, <2>3 DEF PacketTaken
<1>6. JoinsOnce' BY <1>5 DEF JoinsOnce
<1>7. Joins' \subseteq Joins
  <2> SUFFICES ASSUME NEW a \in Joins' PROVE a \in Joins OBVIOUS
  <2>1. a \in Peers BY DEF Joins
  <2>2. CASE \E k \in DOMAIN client'[a].up : client'[a].up[k] = Join BY <1>5, <2>1, <2>2
  <2>3. CASE event' = From(a, Join)
    <3>1. event'[1] = "receive" /\ event'[2] = a /\ event'[3] = Join /\ event' # Departed(a)
      BY <2>3 DEF From, Departed
    <3>2. event' = From(a, Head(client[a].up)) /\ client[a].up # <<>>
      BY <1>2, <2>1, <3>1 DEF PacketTaken
    <3>3. event'[3] = Head(client[a].up) BY <3>2 DEF From
    <3>4. 1 \in DOMAIN client[a].up /\ client[a].up[1] = Join BY <1>4, <2>1, <3>1, <3>2, <3>3
    <3> QED BY <2>1, <3>4 DEF Joins
  <2> QED BY <2>2, <2>3 DEF Joins
<1>8. IsFiniteSet(Orders') /\ Cardinality(Orders') <= Cardinality(Orders)
  <2> DEFINE taken(a) == event'[1] = "receive" /\ event'[2] = a
             f == [o \in Orders' |-> IF taken(o[1]) THEN <<o[1], o[2] + 1>> ELSE o]
  <2>1. ASSUME NEW o \in Orders'
        PROVE  /\ o = <<o[1], o[2]>> /\ o[1] \in Peers /\ o[2] \in Nat /\ OrderAt(o[1], o[2])'
    <3>1. PICK a \in Peers :
            o \in {<<a, k>> : k \in {j \in 0 .. Len(client'[a].up) : OrderAt(a, j)'}}
      BY DEF Orders
    <3>2. PICK k \in 0 .. Len(client'[a].up) : o = <<a, k>> /\ OrderAt(a, k)' BY <3>1
    <3>3. o[1] = a /\ o[2] = k BY <3>2
    <3> QED BY <3>2, <3>3
  <2>2. ASSUME NEW a \in Peers, NEW k \in DOMAIN client[a].up, client[a].up[k][1] = "GB"
        PROVE  <<a, k>> \in Orders
    <3>1. k # 0 /\ k \in 0 .. Len(client[a].up) BY <1>1
    <3>2. OrderAt(a, k) BY <2>2, <3>1 DEF OrderAt
    <3> QED BY <3>1, <3>2 DEF Orders
  <2>3. ASSUME NEW o \in Orders' PROVE f[o] \in Orders
    <3> DEFINE a == o[1]
               k == o[2]
    <3>1. o = <<a, k>> /\ a \in Peers /\ k \in Nat /\ OrderAt(a, k)' BY <2>1
    <3> HIDE DEF a, k
    <3>2. CASE taken(a)
      <4>1. event' # Departed(a) BY <3>2 DEF Departed
      <4>2. /\ event' = From(a, Head(client[a].up)) /\ client[a].up # <<>>
            /\ client'[a].up = Tail(client[a].up)
        BY <1>2, <3>1, <3>2, <4>1 DEF PacketTaken
      <4>3. event'[3] = client[a].up[1] BY <1>4, <3>1, <4>2 DEF From
      <4>4. k + 1 \in DOMAIN client[a].up /\ client[a].up[k + 1][1] = "GB"
        <5>1. CASE k = 0 BY <1>4, <3>1, <4>2, <4>3, <5>1 DEF OrderAt
        <5>2. CASE k # 0
          <6>1. k \in DOMAIN Tail(client[a].up) /\ Tail(client[a].up)[k][1] = "GB"
            BY <3>1, <4>2, <5>2 DEF OrderAt
          <6> QED BY <1>3, <3>1, <4>2, <6>1
        <5> QED BY <5>1, <5>2
      <4>5. <<a, k + 1>> \in Orders BY <2>2, <3>1, <4>4
      <4>6. f[o] = <<a, k + 1>> BY <3>1, <3>2
      <4> QED BY <4>5, <4>6
    <3>3. CASE ~taken(a)
      <4>1. k # 0 /\ k \in DOMAIN client'[a].up /\ client'[a].up[k][1] = "GB"
        BY <3>1, <3>3 DEF OrderAt
      <4>2. client'[a].up = client[a].up
        <5>1. client'[a].up # <<>> BY <4>1
        <5>2. event' # From(a, Head(client[a].up)) BY <3>3 DEF From
        <5> QED BY <1>2, <3>1, <5>1, <5>2 DEF PacketTaken
      <4>3. <<a, k>> \in Orders BY <2>2, <3>1, <4>1, <4>2
      <4>4. f[o] = o BY <3>1, <3>3
      <4> QED BY <3>1, <4>3, <4>4
    <3> QED BY <3>2, <3>3
  <2>4. ASSUME NEW o \in Orders', NEW r \in Orders', f[o] = f[r] PROVE o = r
    <3>1. /\ o = <<o[1], o[2]>> /\ r = <<r[1], r[2]>> /\ o[2] \in Nat /\ r[2] \in Nat BY <2>1
    <3>2. f[o][1] = o[1] /\ f[r][1] = r[1] BY <3>1
    <3>3. f[o][2] = (IF taken(o[1]) THEN o[2] + 1 ELSE o[2]) BY <3>1
    <3>4. f[r][2] = (IF taken(r[1]) THEN r[2] + 1 ELSE r[2]) BY <3>1
    <3>5. o[1] = r[1] BY <2>4, <3>2
    <3>6. o[2] = r[2] BY <2>4, <3>1, <3>3, <3>4, <3>5
    <3> QED BY <3>1, <3>5, <3>6
  <2> HIDE DEF f
  <2>5. f \in [Orders' -> Orders]
    <3>1. DOMAIN f = Orders' /\ f = [o \in Orders' |-> f[o]] BY DEF f
    <3> QED BY <2>3, <3>1
  <2>6. f \in Injection(Orders', Orders) BY <2>4, <2>5 DEF Injection, IsInjective
  <2> QED BY <1>1, <2>6, FS_Injection
<1> QED BY <1>6, <1>7, <1>8

-----------------------------------------------------------------------------
(* What the operations on the board do to what the invariant counts. *)

\* Nobody enters, nobody starts to move, and armies are only given at the start.
Calm(b, d) ==
  /\ d.lastPlayer = b.lastPlayer /\ Ids(d) \subseteq Ids(b)
  /\ IsStarted(b) => IsStarted(d)
  /\ \A p \in Ids(d) :
       /\ IsStarted(d) \/ d.players[p].address = b.players[p].address
       /\ d.players[p].armyCount =
            b.players[p].armyCount + IF IsStarted(d) /\ ~IsStarted(b) THEN 4 ELSE 0
       /\ Idle(b.players[p]) => Idle(d.players[p])

\* Every operation but addPlayer and addCharacter.
LEMMA CalmOperations ==
  ASSUME NEW b, NEW A, BoardOK(b, A)
  PROVE  /\ Calm(b, b) /\ Calm(b, IncHexBank(b))
         /\ b.phase = "lobby" => Calm(b, StartBoard(b))
         /\ b.phase = "playing" => Calm(b, EndBoard(b))
         /\ \A p \in Ids(b) : \A r \in BOOLEAN : Calm(b, SetReady(b, p, r))
         /\ \A p \in Ids(b) : IsStarted(b) => Calm(b, Defeat(b, p))
         /\ \A p : Calm(b, RemovePlayer(b, p))
<1>1. \A p \in Ids(b) : b.players[p].armyCount \in Nat BY BoardNumbers
<1>2. Calm(b, b) BY <1>1 DEF Calm
<1>3. Calm(b, IncHexBank(b))
  <2> DEFINE c == IncHexBank(b)
  <2>1. /\ Ids(c) = Ids(b) /\ c.phase = b.phase /\ c.lastPlayer = b.lastPlayer
        /\ \A q \in Ids(b) : /\ c.players[q].armyCount = b.players[q].armyCount
                             /\ c.players[q].army      = b.players[q].army
    BY IncHexBankShows
  <2>2. SameMatch(b, c) BY IncHexBankSame
  <2> HIDE DEF c
  <2>9. Calm(b, c) BY <1>1, <2>1, <2>2 DEF Calm, IsStarted, Idle, SameMatch
  <2> QED BY <2>9 DEF c
<1>4. ASSUME b.phase = "lobby" PROVE Calm(b, StartBoard(b))
  <2> DEFINE c == StartBoard(b)
  <2>1. /\ Ids(c) = Ids(b) /\ c.phase = "playing" /\ c.lastPlayer = b.lastPlayer
        /\ \A q \in Ids(b) : /\ c.players[q].armyCount = b.players[q].armyCount + 4
                             /\ Idle(c.players[q])
    BY <1>4, StartBoardShows
  <2> HIDE DEF c
  <2>9. Calm(b, c) BY <1>4, <2>1 DEF Calm, IsStarted
  <2> QED BY <2>9 DEF c
<1>5. ASSUME b.phase = "playing" PROVE Calm(b, EndBoard(b))
  <2> DEFINE c == EndBoard(b)
  <2>1. c.phase = "ended" /\ c.players = b.players /\ c.lastPlayer = b.lastPlayer
    BY <1>5, EndBoardMatch
  <2> HIDE DEF c
  <2>9. Calm(b, c) BY <1>1, <1>5, <2>1 DEF Calm, IsStarted, Ids
  <2> QED BY <2>9 DEF c
<1>6. ASSUME NEW p \in Ids(b), NEW r \in BOOLEAN PROVE Calm(b, SetReady(b, p, r))
  <2> DEFINE c == SetReady(b, p, r)
  <2>1. /\ Ids(c) = Ids(b) /\ c.phase = b.phase /\ c.lastPlayer = b.lastPlayer
        /\ \A q \in Ids(b) : /\ c.players[q].armyCount = b.players[q].armyCount
                             /\ c.players[q].army      = b.players[q].army
    BY SetReadyShows
  <2>2. \A q \in Ids(b) : c.players[q].address = b.players[q].address BY SetReadyMatch
  <2> HIDE DEF c
  <2>9. Calm(b, c) BY <1>1, <2>1, <2>2 DEF Calm, IsStarted, Idle
  <2> QED BY <2>9 DEF c
<1>7. ASSUME NEW p \in Ids(b), IsStarted(b) PROVE Calm(b, Defeat(b, p))
  <2> DEFINE c == Defeat(b, p)
  <2>1. /\ Ids(c) = Ids(b) /\ c.phase = b.phase /\ c.lastPlayer = b.lastPlayer
        /\ \A q \in Ids(b) : /\ c.players[q].armyCount = b.players[q].armyCount
                             /\ c.players[q].army      = b.players[q].army
    BY DefeatShows
  <2> HIDE DEF c
  <2>9. Calm(b, c) BY <1>1, <1>7, <2>1 DEF Calm, IsStarted, Idle
  <2> QED BY <2>9 DEF c
<1>8. ASSUME NEW p PROVE Calm(b, RemovePlayer(b, p))
  <2> DEFINE c == RemovePlayer(b, p)
  <2>1. /\ Ids(c) = Ids(b) \ {p} /\ c.phase = b.phase /\ c.lastPlayer = b.lastPlayer
        /\ \A q \in Ids(c) : c.players[q] = b.players[q]
    BY RemovePlayerMatch
  <2> HIDE DEF c
  <2>9. Calm(b, c) BY <1>1, <2>1 DEF Calm, IsStarted
  <2> QED BY <2>9 DEF c
<1> QED BY <1>2, <1>3, <1>4, <1>5, <1>6, <1>7, <1>8

\* The counters after such an operation.
LEMMA CalmKeeps ==
  ASSUME SessionInv, Calm(board, board'), UNCHANGED <<dials, keys>>, sweep' = NoSweep,
         Joins' \subseteq Joins,
         IsFiniteSet(Orders'), Cardinality(Orders') <= Cardinality(Orders)
  PROVE  Unmoved' /\ JoinersUnknown' /\ CountersBounded'
<1>1. /\ Unmoved /\ JoinersUnknown /\ CountersBounded /\ BoardOK(board, Peers)
  BY DEF SessionInv, IInv, TypeOK
<1>2. \A p \in Ids(board) : board.players[p].armyCount \in Nat BY <1>1, BoardNumbers
<1>3. IsFiniteSet(Joins') /\ Cardinality(Joins') <= Cardinality(Joins)
      /\ Cardinality(Joins) \in Nat /\ Cardinality(Joins') \in Nat
  BY <1>1, FS_Subset, FS_CardinalityType DEF CountersBounded
<1>4. Cardinality(Orders) \in Nat /\ Cardinality(Orders') \in Nat
  BY <1>1, FS_CardinalityType DEF CountersBounded
<1>5. Unmoved'
  <2>1. \A p \in Ids(board') : Idle(board'.players[p])
    BY <1>1 DEF Unmoved, Idle, Calm
  <2>2. IsStarted(board') => \A p \in Ids(board') : board'.players[p].armyCount >= 4
    <3> SUFFICES ASSUME IsStarted(board'), NEW p \in Ids(board')
                 PROVE  board'.players[p].armyCount >= 4
      OBVIOUS
    <3>1. p \in Ids(board) /\ board.players[p].armyCount \in Nat BY <1>2 DEF Calm
    <3>2. CASE IsStarted(board)
      <4>1. board'.players[p].armyCount = board.players[p].armyCount + 0 BY <3>2 DEF Calm
      <4> QED BY <1>1, <3>1, <3>2, <4>1 DEF Unmoved
    <3>3. CASE ~IsStarted(board)
      <4>1. board'.players[p].armyCount = board.players[p].armyCount + 4 BY <3>3 DEF Calm
      <4> QED BY <3>1, <4>1
    <3> QED BY <3>2, <3>3
  <2> QED BY <2>1, <2>2 DEF Unmoved, Idle
<1>6. JoinersUnknown'
  <2> SUFFICES ASSUME ~IsStarted(board'), NEW a \in Joins', NEW p \in Ids(board')
               PROVE  board'.players[p].address # a
    BY DEF JoinersUnknown
  <2>1. ~IsStarted(board) /\ a \in Joins /\ p \in Ids(board) BY DEF Calm
  <2>2. board'.players[p].address = board.players[p].address BY DEF Calm
  <2> QED BY <1>1, <2>1, <2>2 DEF JoinersUnknown
<1>7. CountersBounded'
  <2>1. dials' \in 0 .. MaxDials /\ keys' \in 0 .. MaxKeys /\ dials \in Nat /\ keys \in Nat
    BY <1>1, SessionAssumption DEF CountersBounded
  <2>2. board'.lastPlayer + Cardinality(Joins') <= dials'
    <3>1. board'.lastPlayer = board.lastPlayer /\ board.lastPlayer \in Nat
      BY <1>1, BoardNumbers DEF Calm
    <3> QED BY <1>1, <1>3, <2>1, <3>1 DEF CountersBounded
  <2>3. Cardinality(Orders') <= keys' BY <1>1, <1>4, <2>1 DEF CountersBounded
  <2>4. ASSUME NEW p \in Ids(board')
        PROVE  board'.players[p].armyCount + Cardinality(Orders')
                 <= keys' + IF IsStarted(board') THEN 4 ELSE 0
    <3>1. p \in Ids(board) /\ board.players[p].armyCount \in Nat BY <1>2 DEF Calm
    <3>2. CASE IsStarted(board)
      <4>1. IsStarted(board') BY <3>2 DEF Calm
      <4>2. board'.players[p].armyCount = board.players[p].armyCount + 0 BY <3>2 DEF Calm
      <4>3. board.players[p].armyCount + Cardinality(Orders) <= keys + 4
        BY <1>1, <3>1, <3>2 DEF CountersBounded
      <4> QED BY <1>4, <2>1, <3>1, <4>1, <4>2, <4>3
    <3>3. CASE ~IsStarted(board)
      <4>1. board.players[p].armyCount + Cardinality(Orders) <= keys + 0
        BY <1>1, <3>1, <3>3 DEF CountersBounded
      <4>2. CASE IsStarted(board')
        <5>1. board'.players[p].armyCount = board.players[p].armyCount + 4 BY <3>3, <4>2 DEF Calm
        <5> QED BY <1>4, <2>1, <3>1, <4>1, <4>2, <5>1
      <4>3. CASE ~IsStarted(board')
        <5>1. board'.players[p].armyCount = board.players[p].armyCount + 0 BY <4>3 DEF Calm
        <5> QED BY <1>4, <2>1, <3>1, <4>1, <4>3, <5>1
      <4> QED BY <4>2, <4>3
    <3> QED BY <3>2, <3>3
  <2> QED BY <1>3, <2>1, <2>2, <2>3, <2>4 DEF CountersBounded
<1> QED BY <1>5, <1>6, <1>7

-----------------------------------------------------------------------------
(* The first part of a turn: an event is taken, and TimedEvent. *)

\* One packet, and none.
LEMMA CarriesOne ==
  ASSUME NEW b, NEW d, NEW m,
         \A w : \A asked \in BOOLEAN : Follows(w, b, asked) => Follows(Reading(w, m), d, asked)
  PROVE  Carries(b, <<m>>, d)
<1> SUFFICES ASSUME NEW w, NEW asked \in BOOLEAN, Follows(w, b, asked)
             PROVE  Follows(Replay(w, <<m>>), d, asked)
  BY DEF Carries
<1>1. Replay(w, <<m>>) = Reading(w, m) BY ReplayOne
<1> QED BY <1>1

LEMMA CarriesNone ==
  ASSUME NEW b, NEW A, BoardOK(b, A), NEW d, BoardOK(d, A), Duller(b, d)
  PROVE  Carries(b, <<>>, d)
<1> SUFFICES ASSUME NEW w, NEW asked \in BOOLEAN, Follows(w, b, asked)
             PROVE  Follows(Replay(w, <<>>), d, asked)
  BY DEF Carries
<1>1. Replay(w, <<>>) = w BY ReplayNothing
<1>2. Follows(w, d, asked) BY DullFollows
<1> QED BY <1>1, <1>2

LEMMA DullItself ==
  ASSUME NEW b, NEW A, BoardOK(b, A) PROVE Duller(b, b)
<1>1. \A p \in Ids(b) : b.players[p].hexbank \in Nat BY BoardNumbers
<1> QED BY <1>1 DEF Duller

\* What TimedEvent broadcasts is enough.
LEMMA TimedShown ==
  ASSUME SessionInv, TimedEvent(NetworkEvents), BoardOK(board', Peers)
  PROVE  /\ stage = "service" /\ event = NoEvent /\ event' \in NetworkEvents
         /\ members' = members /\ sweep' = NoSweep
         /\ Calm(board, board') /\ Carries(board, sent', board')
         /\ sent' \in Seq(DownPackets')
<1>1. /\ BoardOK(board, Peers) /\ TurnOK /\ sweep = NoSweep
      /\ board.phase \in {"lobby", "playing", "ended"}
  BY BoardNumbers DEF SessionInv, IInv, TypeOK, Unmoved
<1>2. /\ stage = "service" /\ event' \in NetworkEvents
      /\ members' = members /\ sweep' = sweep
  BY DEF TimedEvent, StartTimer, KeepCounting, StartGame, ResetTimer, EndGame,
         AfterTheGame, PlayTick, LobbyTurn, Take
<1>3. event = NoEvent BY <1>1, <1>2 DEF TurnOK
<1>4. \/ UNCHANGED board /\ sent' = <<>>
      \/ board.phase = "lobby" /\ board' = StartBoard(board) /\ sent' = <<<<"SG">>>>
      \/ board.phase = "playing" /\ board' = EndBoard(board) /\ sent' = <<<<"W">>>>
      \/ board' = IncHexBank(board) /\ sent' = <<<<"TH">>>>
  BY DEF TimedEvent, StartTimer, KeepCounting, StartGame, ResetTimer, EndGame,
         AfterTheGame, PlayTick, LobbyTurn, IsStarted, Broadcast, Silent
<1>5. <<>> \in Seq(DownPackets') OBVIOUS
<1>6. ASSUME NEW m \in {<<"SG">>, <<"W">>, <<"TH">>} PROVE <<m>> \in Seq(DownPackets')
  <2>1. m \in DownPackets' BY DEF DownPackets
  <2> QED BY <2>1
<1>7. CASE UNCHANGED board /\ sent' = <<>>
  <2>1. Calm(board, board') BY <1>1, <1>7, CalmOperations
  <2>2. Duller(board, board') BY <1>1, <1>7, DullItself
  <2>3. Carries(board, sent', board') BY <1>1, <1>7, <2>2, CarriesNone
  <2> QED BY <1>1, <1>2, <1>3, <1>5, <1>7, <2>1, <2>3
<1>8. CASE board.phase = "lobby" /\ board' = StartBoard(board) /\ sent' = <<<<"SG">>>>
  <2>1. Calm(board, board') BY <1>1, <1>8, CalmOperations
  <2>2. Carries(board, sent', board')
    <3>1. \A w : \A asked \in BOOLEAN : Follows(w, board, asked) =>
             Follows(Reading(w, <<"SG">>), StartBoard(board), asked)
      BY <1>1, <1>8, StartFollows
    <3> QED BY <1>8, <3>1, CarriesOne
  <2> QED BY <1>1, <1>2, <1>3, <1>6, <1>8, <2>1, <2>2
<1>9. CASE board.phase = "playing" /\ board' = EndBoard(board) /\ sent' = <<<<"W">>>>
  <2>1. Calm(board, board') BY <1>1, <1>9, CalmOperations
  <2>2. Carries(board, sent', board')
    <3>1. Duller(board, board')
      <4>1. /\ board'.phase = "ended" /\ board'.players = board.players
            /\ board'.lastPlayer = board.lastPlayer
        BY <1>1, <1>9, EndBoardMatch
      <4>2. \A p \in Ids(board) : board.players[p].hexbank \in Nat BY <1>1, BoardNumbers
      <4> QED BY <1>9, <4>1, <4>2 DEF Duller, IsStarted, Ids
    <3> DEFINE m == <<"W">>
    <3>2. m[1] \in {"GB", "W"} /\ m[1] # "GB" OBVIOUS
    <3>3. sent' = <<m>> BY <1>9
    <3> HIDE DEF m
    <3>4. \A w : \A asked \in BOOLEAN : Follows(w, board, asked) =>
             Follows(Reading(w, m), board', asked)
      BY <1>1, <3>1, <3>2, NewsFollows
    <3> QED BY <3>3, <3>4, CarriesOne
  <2> QED BY <1>1, <1>2, <1>3, <1>6, <1>9, <2>1, <2>2
<1>10. CASE board' = IncHexBank(board) /\ sent' = <<<<"TH">>>>
  <2>1. Calm(board, board') BY <1>1, <1>10, CalmOperations
  <2>2. Carries(board, sent', board')
    <3>1. \A w : \A asked \in BOOLEAN : Follows(w, board, asked) =>
             Follows(Reading(w, <<"TH">>), IncHexBank(board), asked)
      BY <1>1, IncomeFollows
    <3> QED BY <1>10, <3>1, CarriesOne
  <2> QED BY <1>1, <1>2, <1>3, <1>6, <1>10, <2>1, <2>2
<1> QED BY <1>4, <1>7, <1>8, <1>9, <1>10

\* The packets are about ids that have been given, and ids stay given.
LEMMA PacketsStay ==
  ASSUME board.lastPlayer \in Nat, board'.lastPlayer \in Nat,
         board.lastPlayer <= board'.lastPlayer
  PROVE  UpPackets \subseteq UpPackets' /\ DownPackets \subseteq DownPackets'
<1>1. KnownIds \subseteq KnownIds' BY DEF KnownIds
<1>2. UpPackets \subseteq UpPackets' BY <1>1 DEF UpPackets
<1>3. DownPackets \subseteq DownPackets' BY <1>1 DEF DownPackets
<1> QED BY <1>2, <1>3

\* What is asked for is still asked for when it is taken.
LEMMA AskStays ==
  ASSUME event = NoEvent, NEW a \in Peers, PacketTaken(a), NEW S, client[a].up \in Seq(S),
         AskPending(a)
  PROVE  AskPending(a)'
<1> DEFINE u == client[a].up
<1>1. PICK k \in DOMAIN u : u[k] = AskReady BY DEF AskPending, NoEvent, From
<1>2. CASE event' = From(a, Head(u)) /\ u # <<>> /\ client'[a].up = Tail(u)
  <2>1. CASE k = 1
    <3>1. Head(u) = AskReady BY <1>1, <2>1
    <3> QED BY <1>2, <3>1 DEF AskPending
  <2>2. CASE k # 1
    <3>1. u \in Seq(S) /\ u # <<>> BY <1>2
    <3> HIDE DEF u
    <3>2. k \in 1 .. Len(u) /\ Len(u) \in Nat BY <1>1, <3>1
    <3>3. k - 1 \in 1 .. Len(u) - 1 /\ (k - 1) + 1 = k BY <2>2, <3>2
    <3>4. DOMAIN Tail(u) = 1 .. Len(u) - 1 /\ \A j \in 1 .. Len(u) - 1 : Tail(u)[j] = u[j + 1]
      BY <3>1
    <3>5. k - 1 \in DOMAIN Tail(u) /\ Tail(u)[k - 1] = AskReady BY <1>1, <3>3, <3>4
    <3> QED BY <1>2, <3>5 DEF AskPending
  <2> QED BY <2>1, <2>2
<1>3. CASE client'[a].up = u BY <1>1, <1>3 DEF AskPending
<1> QED BY <1>2, <1>3 DEF PacketTaken

\* The first part of a turn preserves the invariant.
LEMMA TimedKeeps ==
  ASSUME SessionInv, IInv', TimedEvent(NetworkEvents), UNCHANGED <<dials, keys>>,
         client' = [b \in Peers |-> Deliver(After(b, event'), b)]
  PROVE  SessionInv'
<1>1. BoardOK(board, Peers) /\ BoardOK(board', Peers) /\ members \subseteq Peers
  BY DEF SessionInv, IInv, TypeOK
<1>2. /\ event = NoEvent /\ event' \in NetworkEvents
      /\ members' = members /\ sweep' = NoSweep
      /\ Calm(board, board') /\ Carries(board, sent', board')
      /\ sent' \in Seq(DownPackets')
  BY <1>1, TimedShown
<1>3. /\ board.lastPlayer \in Nat /\ board'.lastPlayer \in Nat
      /\ board'.lastPlayer = board.lastPlayer
  BY <1>1, <1>2, BoardNumbers DEF Calm
<1>4. UpPackets \subseteq UpPackets' /\ DownPackets \subseteq DownPackets'
  BY <1>3, PacketsStay
<1>5. /\ JoinsOnce' /\ Joins' \subseteq Joins
      /\ IsFiniteSet(Orders') /\ Cardinality(Orders') <= Cardinality(Orders)
  BY <1>2, TakenCounts
<1>6. Unmoved' /\ JoinersUnknown' /\ CountersBounded' BY <1>2, <1>5, CalmKeeps
<1>7. client' = [a \in Peers |-> client'[a]] OBVIOUS
<1>8. ASSUME NEW a \in Peers
      PROVE  ClientOK(a)' /\ (Open(a)' => Follows(CaughtUp(a)', board', ~AskPending(a)'))
  <2>1. CASE event' = Departed(a) /\ client'[a] = NoClient
    <3>1. /\ client'[a].link = "free" /\ client'[a].up = <<>> /\ client'[a].down = <<>>
          /\ client'[a] = [link |-> client'[a].link, board |-> client'[a].board,
                           me |-> client'[a].me, up |-> client'[a].up, down |-> client'[a].down]
      BY <2>1 DEF NoClient
    <3>2. ~Open(a)' BY <3>1 DEF Open
    <3>3. client'[a].up \in Seq(UpPackets') /\ client'[a].down \in Seq(DownPackets')
      <4>1. <<>> \in Seq(UpPackets') /\ <<>> \in Seq(DownPackets') OBVIOUS
      <4> QED BY <3>1, <4>1
    <3>4. ClientOK(a)' BY <2>1, <3>1, <3>2, <3>3 DEF ClientOK
    <3> QED BY <3>2, <3>4
  <2>2. CASE Served(client[a], client'[a], sent', a \in members) /\ PacketTaken(a)
    <3>1. client[a].up \in Seq(UpPackets) BY DEF SessionInv, ClientOK
    <3>2. AskPending(a) => AskPending(a)' BY <1>2, <2>2, <3>1, AskStays
    <3>3. a \in members' \/ a \notin members BY <1>2
    <3> QED BY <1>2, <1>3, <1>4, <2>2, <3>2, <3>3, ServedOK
  <2> QED BY <1>2, <2>1, <2>2, TakenServes
<1>9. EventOK'
  <2>1. CASE event' = NoEvent BY <2>1 DEF EventOK
  <2>2. ASSUME NEW a \in Peers, event' = Connected(a) PROVE EventOK'
    BY <2>2 DEF EventOK
  <2>3. ASSUME NEW a \in members, event' = Departed(a) PROVE EventOK'
    <3>1. a \in Peers BY <1>1
    <3>2. client'[a] = NoClient BY <1>2, <2>3, <3>1, TakenServes
    <3> QED BY <2>3, <3>1, <3>2 DEF EventOK, NoClient
  <2>4. ASSUME NEW a \in members, client[a].up # <<>>, event' = From(a, Head(client[a].up))
        PROVE  EventOK'
    <3>1. client[a].up \in Seq(UpPackets) BY <1>1 DEF SessionInv, ClientOK
    <3>2. Head(client[a].up) \in UpPackets' BY <1>4, <2>4, <3>1
    <3> QED BY <1>2, <2>4, <3>2 DEF EventOK
  <2> QED BY <1>2, <2>1, <2>2, <2>3, <2>4 DEF NetworkEvents
<1>10. ReplicasFollow' BY <1>8 DEF ReplicasFollow
<1> QED BY <1>5, <1>6, <1>7, <1>8, <1>9, <1>10 DEF SessionInv

-----------------------------------------------------------------------------
(* The rest of a turn: the sweep, and the handler of the event. *)

\* What a client gets while an event is handled; what comes from it stays.
LEMMA FinishServes ==
  ASSUME SessionInv, client' = [b \in Peers |-> Deliver(client[b], b)], NEW a \in Peers
  PROVE  /\ Served(client[a], client'[a], sent', a \in members)
         /\ client'[a].up = client[a].up
<1> DEFINE c == client[a]
<1>1. c = [link |-> c.link, board |-> c.board, me |-> c.me, up |-> c.up, down |-> c.down]
  BY DEF SessionInv, ClientOK
<1>2. c = [c EXCEPT !.up = c.up] BY <1>1
<1>3. Served(c, Deliver(c, a), sent', a \in members) BY <1>1, <1>2, DeliverServes
<1>4. IsClient(c, c.link, c.board, c.me, c.up, c.down) BY <1>1, ClientParts
<1>5. client'[a] = Deliver(c, a) OBVIOUS
<1> HIDE DEF c
<1>6. Deliver(c, a).up = c.up BY <1>4 DEF IsClient, Deliver
<1> QED BY <1>3, <1>5, <1>6 DEF c

\* Handling an event adds no packet that asks for an id and no order.
LEMMA FinishCounts ==
  ASSUME SessionInv, \A a \in Peers : client'[a].up = client[a].up,
         event' = NoEvent \/ event' = event
  PROVE  /\ JoinsOnce' /\ Joins' \subseteq Joins /\ Orders' \subseteq Orders
         /\ IsFiniteSet(Orders') /\ Cardinality(Orders') <= Cardinality(Orders)
<1>1. JoinsOnce /\ IsFiniteSet(Orders) BY DEF SessionInv, CountersBounded
<1>2. ASSUME NEW a \in Peers, NEW m
      PROVE  event' = From(a, m) => event = From(a, m)
  BY DEF NoEvent, From
<1>3. JoinsOnce' BY <1>1, <1>2 DEF JoinsOnce
<1>4. Joins' \subseteq Joins BY <1>2 DEF Joins
<1>5. ASSUME NEW a \in Peers, NEW k, OrderAt(a, k)' PROVE OrderAt(a, k)
  BY <1>5 DEF OrderAt, NoEvent
<1>6. Orders' \subseteq Orders
  <2>1. ASSUME NEW a \in Peers
        PROVE  {<<a, k>> : k \in {j \in 0 .. Len(client'[a].up) : OrderAt(a, j)'}}
                 \subseteq {<<a, k>> : k \in {j \in 0 .. Len(client[a].up) : OrderAt(a, j)}}
    <3>1. \A j : OrderAt(a, j)' => OrderAt(a, j) BY <1>5
    <3>2. client'[a].up = client[a].up OBVIOUS
    <3> QED BY <3>1, <3>2
  <2> QED BY <2>1 DEF Orders
<1> QED BY <1>1, <1>3, <1>4, <1>6, FS_Subset

\* What a handler has to do to preserve the invariant.
LEMMA FinishKeeps ==
  ASSUME SessionInv, IInv', client' = [b \in Peers |-> Deliver(client[b], b)],
         event' = NoEvent \/ (event' = event /\ members' = members),
         \A a \in Peers : a \in members' \/ a \notin members \/ event = Departed(a),
         board.lastPlayer <= board'.lastPlayer,
         sent' \in Seq(DownPackets'), Carries(board, sent', board'),
         \A a \in Peers :
           event = From(a, AskReady) => event' = event \/ Answers(board, sent', board'),
         Unmoved', JoinersUnknown', CountersBounded'
  PROVE  SessionInv'
<1>1. BoardOK(board, Peers) /\ BoardOK(board', Peers) /\ EventOK
  BY DEF SessionInv, IInv, TypeOK
<1>2. board.lastPlayer \in Nat /\ board'.lastPlayer \in Nat BY <1>1, BoardNumbers
<1>3. UpPackets \subseteq UpPackets' /\ DownPackets \subseteq DownPackets'
  BY <1>2, PacketsStay
<1>4. ASSUME NEW a \in Peers
      PROVE  /\ Served(client[a], client'[a], sent', a \in members)
             /\ client'[a].up = client[a].up /\ client'[a].link = client[a].link
  <2>1. Served(client[a], client'[a], sent', a \in members) /\ client'[a].up = client[a].up
    BY FinishServes
  <2>2. client'[a].link = client[a].link BY <2>1 DEF Served, IsClient
  <2> QED BY <2>1, <2>2
<1>5. JoinsOnce' BY <1>4, FinishCounts
<1>6. ASSUME NEW a \in Peers, event = Departed(a) PROVE client[a].link = "free"
  BY <1>6, PartsOfInv
<1>7. ASSUME NEW a \in Peers
      PROVE  ClientOK(a)' /\ (Open(a)' => Follows(CaughtUp(a)', board', ~AskPending(a)'))
  <2>1. AskPending(a) /\ ~AskPending(a)' => Answers(board, sent', board')
    BY <1>4 DEF AskPending
  <2>2. a \in members' \/ a \notin members \/ client[a].link = "free" BY <1>6
  <2> QED BY <1>2, <1>3, <1>4, <2>1, <2>2, ServedOK
<1>8. EventOK'
  <2>1. CASE event' = NoEvent BY <2>1 DEF EventOK
  <2>2. CASE event' = event /\ members' = members
    BY <1>1, <1>3, <1>4, <2>2 DEF EventOK
  <2> QED BY <2>1, <2>2
<1>9. client' = [a \in Peers |-> client'[a]] OBVIOUS
<1>10. ReplicasFollow' BY <1>7 DEF ReplicasFollow
<1> QED BY <1>5, <1>7, <1>8, <1>9, <1>10 DEF SessionInv

\* ... for a handler that gives no id and takes no order.
LEMMA CalmFinish ==
  ASSUME SessionInv, IInv', client' = [b \in Peers |-> Deliver(client[b], b)],
         UNCHANGED <<dials, keys>>, sweep' = NoSweep,
         event' = NoEvent \/ (event' = event /\ members' = members),
         \A a \in Peers : a \in members' \/ a \notin members \/ event = Departed(a),
         Calm(board, board'),
         sent' \in Seq(DownPackets'), Carries(board, sent', board'),
         \A a \in Peers :
           event = From(a, AskReady) => event' = event \/ Answers(board, sent', board')
  PROVE  SessionInv'
<1>1. \A a \in Peers : client'[a].up = client[a].up BY FinishServes
<1>2. /\ Joins' \subseteq Joins
      /\ IsFiniteSet(Orders') /\ Cardinality(Orders') <= Cardinality(Orders)
  BY <1>1, FinishCounts
<1>3. Unmoved' /\ JoinersUnknown' /\ CountersBounded' BY <1>2, CalmKeeps
<1>4. board.lastPlayer <= board'.lastPlayer
  <2>1. board.lastPlayer \in Nat BY BoardNumbers DEF SessionInv, IInv, TypeOK
  <2> QED BY <2>1 DEF Calm
<1> QED BY <1>3, <1>4, FinishKeeps

\* updateCharacterLocation has nobody to visit and nothing to send.
LEMMA SweepKeeps ==
  ASSUME SessionInv, IInv', client' = [b \in Peers |-> Deliver(client[b], b)],
         UNCHANGED <<dials, keys>>,
         SkipCharacter \/ MoveCharacter \/ CrashOnStrayWrite \/ EndSweep
  PROVE  SessionInv'
<1>1. BoardOK(board, Peers) /\ BoardOK(board', Peers) /\ Unmoved
  BY DEF SessionInv, IInv, TypeOK
<1>2. ToVisit = {}
  <2>1. \A p \in Ids(board) : {m \in DOMAIN board.players[p].army :
                                 OnTheWay(board.players[p].army[m])} = {}
    BY <1>1 DEF Unmoved, OnTheWay
  <2> QED BY <2>1 DEF ToVisit, Travellers
<1>3. EndSweep BY <1>2 DEF SkipCharacter, MoveCharacter, CrashOnStrayWrite
<1>4. sweep.packet = <<>> BY <1>1 DEF Unmoved, NoSweep
<1>5. /\ sent' = <<>> /\ sweep' = NoSweep
      /\ UNCHANGED <<board, event, members>>
  BY <1>3, <1>4 DEF EndSweep, Silent
<1>6. Calm(board, board') BY <1>1, <1>5, CalmOperations
<1>7. Carries(board, sent', board') BY <1>1, <1>5, DullItself, CarriesNone
<1>8. <<>> \in Seq(DownPackets') OBVIOUS
<1> QED BY <1>5, <1>6, <1>7, <1>8, CalmFinish

\* A handler that changes nothing but the members.
LEMMA SilentKeeps ==
  ASSUME SessionInv, IInv', client' = [b \in Peers |-> Deliver(client[b], b)],
         UNCHANGED <<dials, keys, board>>, NEW e, Handle(e), Silent,
         members \subseteq members', \A a \in Peers : e # From(a, AskReady)
  PROVE  SessionInv'
<1>1. BoardOK(board, Peers) /\ BoardOK(board', Peers) /\ sweep = NoSweep
  BY DEF SessionInv, IInv, TypeOK, Unmoved
<1>2. sent' = <<>> /\ event = e /\ event' = NoEvent /\ sweep' = NoSweep
  BY <1>1 DEF Handle, Silent
<1>3. Calm(board, board') BY <1>1, CalmOperations
<1>4. Carries(board, sent', board') BY <1>1, <1>2, DullItself, CarriesNone
<1>5. <<>> \in Seq(DownPackets') OBVIOUS
<1> QED BY <1>2, <1>3, <1>4, <1>5, CalmFinish

\* The ready list.
LEMMA AskReadyKeeps ==
  ASSUME SessionInv, IInv', client' = [b \in Peers |-> Deliver(client[b], b)],
         UNCHANGED <<dials, keys>>, NEW a \in Peers, HandleAskReady(a)
  PROVE  SessionInv'
<1>1. BoardOK(board, Peers) /\ sweep = NoSweep
  BY DEF SessionInv, IInv, TypeOK, Unmoved
<1>2. /\ sent' = ReadyList(board) /\ event' = NoEvent /\ sweep' = NoSweep
      /\ board' = board /\ members' = members
  BY <1>1 DEF HandleAskReady, Handle
<1>3. Calm(board, board') BY <1>1, <1>2, CalmOperations
<1>4. Answers(board, sent', board')
  <2>1. \A w : Follows(w, board, FALSE) => Follows(Replay(w, ReadyList(board)), board, TRUE)
    BY <1>1, ListFollows
  <2> QED BY <1>2, <2>1 DEF Answers
<1>5. Carries(board, sent', board') BY <1>4, AnswersCarry
<1>6. sent' \in Seq(DownPackets')
  <2> DEFINE S == {ReadyMsg(p) : p \in GetReadyPlayers(board)}
  <2>1. ReadyList(board) \in Seq(S) BY <1>1, ListParts
  <2>2. S \subseteq DownPackets'
    <3> SUFFICES ASSUME NEW p \in GetReadyPlayers(board) PROVE ReadyMsg(p) \in DownPackets'
      OBVIOUS
    <3>1. p \in KnownIds' BY <1>1, <1>2, BoardNumbers DEF GetReadyPlayers, KnownIds
    <3> QED BY <3>1 DEF DownPackets, ReadyMsg
  <2> HIDE DEF S
  <2> QED BY <1>2, <2>1, <2>2
<1> QED BY <1>2, <1>3, <1>4, <1>5, <1>6, CalmFinish

\* A flag.
LEMMA ReadyKeeps ==
  ASSUME SessionInv, IInv', client' = [b \in Peers |-> Deliver(client[b], b)],
         UNCHANGED <<dials, keys>>, NEW a \in Peers, NEW p \in KnownIds, HandleReady(a, p)
  PROVE  SessionInv'
<1>1. BoardOK(board, Peers) /\ sweep = NoSweep
  BY DEF SessionInv, IInv, TypeOK, Unmoved
<1>2. PICK r \in BOOLEAN :
        LET m == IF r THEN ReadyMsg(p) ELSE UnreadyMsg(p) IN
          /\ Handle(From(a, m))
          /\ IF p \in Ids(board)
             THEN board' = SetReady(board, p, r) /\ Broadcast(m)
             ELSE UNCHANGED board /\ Silent
          /\ UNCHANGED members
  BY DEF HandleReady
<1> DEFINE m == IF r THEN ReadyMsg(p) ELSE UnreadyMsg(p)
<1>3. \A b \in Peers : From(a, m) # From(b, AskReady)
  BY DEF From, ReadyMsg, UnreadyMsg, AskReady
<1>4. m \in {<<k, q>> : k \in {"SR", "SN"}, q \in {p}} BY DEF ReadyMsg, UnreadyMsg
<1>5. m = IF r THEN ReadyMsg(p) ELSE UnreadyMsg(p) OBVIOUS
<1>6. /\ Handle(From(a, m)) /\ members' = members
      /\ \/ p \in Ids(board) /\ board' = SetReady(board, p, r) /\ sent' = <<m>>
         \/ UNCHANGED board /\ Silent
  BY <1>2 DEF Broadcast
<1> HIDE DEF m
<1>7. CASE UNCHANGED board /\ Silent BY <1>3, <1>6, <1>7, SilentKeeps
<1>8. CASE p \in Ids(board) /\ board' = SetReady(board, p, r) /\ sent' = <<m>>
  <2>1. event = From(a, m) /\ event' = NoEvent /\ sweep' = NoSweep BY <1>1, <1>6 DEF Handle
  <2>2. Calm(board, board') BY <1>1, <1>8, CalmOperations
  <2>3. \A w : \A asked \in BOOLEAN : Follows(w, board, asked) =>
           Follows(Reading(w, m), board', asked)
    BY <1>1, <1>5, <1>8, FlagFollows
  <2>4. Carries(board, sent', board') BY <1>8, <2>3, CarriesOne
  <2>5. m \in DownPackets'
    <3>1. p \in KnownIds' BY <2>2 DEF Calm, KnownIds
    <3> QED BY <1>4, <3>1 DEF DownPackets
  <2>6. sent' \in Seq(DownPackets') BY <1>8, <2>5
  <2> QED BY <1>3, <1>6, <2>1, <2>2, <2>4, <2>6, CalmFinish
<1> QED BY <1>6, <1>7, <1>8

\* A departure.
LEMMA DepartureKeeps ==
  ASSUME SessionInv, IInv', client' = [b \in Peers |-> Deliver(client[b], b)],
         UNCHANGED <<dials, keys>>, NEW a \in Peers, HandleDisconnect(a)
  PROVE  SessionInv'
<1>1. /\ BoardOK(board, Peers) /\ BoardOK(board', Peers) /\ sweep = NoSweep
      /\ DefeatFindsKing
  BY DEF SessionInv, IInv, TypeOK, Unmoved
<1>2. PICK p : p = GetPlayerByAddress(board, a) OBVIOUS
<1>3. /\ Handle(Departed(a)) /\ members' = members \ {a}
      /\ \/ p = NoPlayer /\ Silent /\ UNCHANGED board
         \/ p # NoPlayer /\ IsStarted(board)
            /\ board' = Defeat(board, p) /\ sent' = << <<"SD", p>> >>
         \/ p # NoPlayer /\ board' = RemovePlayer(board, p) /\ Silent
  BY <1>2 DEF HandleDisconnect, Broadcast
<1>4. p # NoPlayer => p \in Ids(board) BY <1>1, <1>2, PlayerByAddress
<1>5. event = Departed(a) /\ event' = NoEvent /\ sweep' = NoSweep BY <1>1, <1>3 DEF Handle
<1>6. \A b \in Peers : b \in members' \/ b \notin members \/ event = Departed(b)
  BY <1>3, <1>5
<1>7. \A b \in Peers : event # From(b, AskReady) BY <1>5 DEF Departed, From
<1>8. <<>> \in Seq(DownPackets') OBVIOUS
<1>9. CASE Silent /\ UNCHANGED board
  <2>1. Calm(board, board') BY <1>1, <1>9, CalmOperations
  <2>2. Carries(board, sent', board') /\ sent' \in Seq(DownPackets')
    BY <1>1, <1>8, <1>9, DullItself, CarriesNone DEF Silent
  <2> QED BY <1>5, <1>6, <1>7, <2>1, <2>2, CalmFinish
<1>10. CASE p # NoPlayer /\ IsStarted(board)
            /\ board' = Defeat(board, p) /\ sent' = << <<"SD", p>> >>
  <2>1. p \in Ids(board) /\ board.players[p].king # "none"
    BY <1>1, <1>4, <1>10 DEF DefeatFindsKing
  <2>2. Calm(board, board') BY <1>1, <1>10, <2>1, CalmOperations
  <2>3. \A w : \A asked \in BOOLEAN : Follows(w, board, asked) =>
           Follows(Reading(w, <<"SD", p>>), board', asked)
    BY <1>1, <1>10, <2>1, LossFollows
  <2>4. Carries(board, sent', board') BY <1>10, <2>3, CarriesOne
  <2>5. <<"SD", p>> \in DownPackets'
    <3>1. p \in KnownIds' BY <1>1, <2>1, <2>2, BoardNumbers DEF Calm, KnownIds
    <3> QED BY <3>1 DEF DownPackets
  <2>6. sent' \in Seq(DownPackets') BY <1>10, <2>5
  <2> QED BY <1>5, <1>6, <1>7, <2>2, <2>4, <2>6, CalmFinish
<1>11. CASE board' = RemovePlayer(board, p) /\ Silent
  <2>1. Calm(board, board') BY <1>1, <1>11, CalmOperations
  <2>2. Duller(board, board')
    <3>1. /\ Ids(board') = Ids(board) \ {p} /\ board'.phase = board.phase
          /\ board'.lastPlayer = board.lastPlayer
          /\ \A q \in Ids(board') : board'.players[q] = board.players[q]
      BY <1>1, <1>11, RemovePlayerMatch
    <3>2. \A q \in Ids(board) : board.players[q].hexbank \in Nat BY <1>1, BoardNumbers
    <3> QED BY <3>1, <3>2 DEF Duller, IsStarted
  <2>3. Carries(board, sent', board') /\ sent' \in Seq(DownPackets')
    BY <1>1, <1>8, <1>11, <2>2, CarriesNone DEF Silent
  <2> QED BY <1>5, <1>6, <1>7, <2>1, <2>3, CalmFinish
<1> QED BY <1>3, <1>9, <1>10, <1>11

\* A player enters.
LEMMA JoinKeeps ==
  ASSUME SessionInv, IInv', client' = [b \in Peers |-> Deliver(client[b], b)],
         UNCHANGED <<dials, keys>>, NEW a \in Peers, HandleJoin(a)
  PROVE  SessionInv'
<1>1. /\ BoardOK(board, Peers) /\ BoardOK(board', Peers) /\ sweep = NoSweep
      /\ NothingBeforeStart /\ Unmoved /\ JoinersUnknown /\ CountersBounded /\ JoinsOnce
  BY DEF SessionInv, IInv, TypeOK, Unmoved
<1>2. \A b \in Peers : From(a, Join) # From(b, AskReady) BY DEF From, Join, AskReady
<1>3. /\ Handle(From(a, Join)) /\ members' = members
      /\ \/ UNCHANGED board /\ Silent
         \/ /\ ~IsStarted(board) /\ board' = AddPlayer(board, a)
            /\ sent' = << <<"C", board'.lastPlayer>> >>
  BY DEF HandleJoin, Broadcast
<1>4. CASE UNCHANGED board /\ Silent BY <1>2, <1>3, <1>4, SilentKeeps
<1>5. CASE ~IsStarted(board) /\ board' = AddPlayer(board, a)
           /\ sent' = << <<"C", board'.lastPlayer>> >>
  <2>1. PICK id : JoinedAs(id, a) BY <1>1, <1>5, JoinFacts
  <2>2. /\ id \in Nat /\ id = board.lastPlayer + 1 /\ id \notin Ids(board)
        /\ Ids(board') = Ids(board) \cup {id}
        /\ board'.phase = board.phase /\ board'.lastPlayer = id
        /\ \A p \in Ids(board) : board'.players[p] = board.players[p]
        /\ board'.players[id].address = a /\ ~board'.players[id].ready
        /\ board'.players[id].king = "none" /\ board'.players[id].hexbank = 0
        /\ board'.players[id].army = NoArmy /\ board'.players[id].armyCount = 0
    BY <2>1 DEF JoinedAs
  <2>3. event = From(a, Join) /\ event' = NoEvent /\ sweep' = NoSweep
    BY <1>1, <1>3 DEF Handle
  <2>4. /\ ~IsStarted(board') /\ board.phase = "lobby" /\ board.lastPlayer \in Nat
    BY <1>1, <1>5, <2>2, BoardNumbers DEF IsStarted
  <2>5. Entered(board, board', id) BY <2>2 DEF Entered
  <2>6. \A p \in Ids(board) : board.players[p].king = "none" /\ board.players[p].hexbank = 0
    BY <1>1, <1>5 DEF NothingBeforeStart
  <2>7. Carries(board, sent', board')
    <3>1. \A w : \A asked \in BOOLEAN : Follows(w, board, asked) =>
             Follows(Reading(w, <<"C", id>>), board', asked)
      BY <1>1, <2>4, <2>5, <2>6, JoinFollows
    <3>2. sent' = << <<"C", id>> >> BY <1>5, <2>2
    <3> QED BY <3>1, <3>2, CarriesOne
  <2>8. sent' \in Seq(DownPackets')
    <3>1. id \in KnownIds' BY <2>2, <2>4 DEF KnownIds
    <3>2. <<"C", id>> \in DownPackets' BY <3>1 DEF DownPackets
    <3>3. sent' = << <<"C", id>> >> BY <1>5, <2>2
    <3> QED BY <3>2, <3>3
  <2>9. \A b \in Peers : client'[b].up = client[b].up BY FinishServes
  <2>10. /\ Joins' \subseteq Joins
         /\ IsFiniteSet(Orders') /\ Cardinality(Orders') <= Cardinality(Orders)
    BY <2>3, <2>9, FinishCounts
  <2>11. a \in Joins /\ a \notin Joins'
    <3>1. a \in Joins BY <2>3 DEF Joins
    <3>2. ~(\E k \in DOMAIN client[a].up : client[a].up[k] = Join)
      BY <1>1, <2>3 DEF JoinsOnce
    <3>3. event' # From(a, Join) BY <2>3 DEF NoEvent, From
    <3> QED BY <2>9, <3>1, <3>2, <3>3 DEF Joins
  <2>12. Unmoved'
    <3>1. \A p \in Ids(board') : \A n \in DOMAIN board'.players[p].army :
            board'.players[p].army[n].dest = Nowhere
      BY <1>1, <2>2 DEF Unmoved, NoArmy
    <3> QED BY <2>3, <2>4, <3>1 DEF Unmoved
  <2>13. JoinersUnknown'
    <3> SUFFICES ASSUME NEW b \in Joins', NEW p \in Ids(board')
                 PROVE  board'.players[p].address # b
      BY DEF JoinersUnknown
    <3>1. b \in Joins /\ b # a BY <2>10, <2>11
    <3>2. CASE p = id BY <2>2, <3>1, <3>2
    <3>3. CASE p \in Ids(board) BY <1>1, <1>5, <2>2, <3>1, <3>3 DEF JoinersUnknown
    <3> QED BY <2>2, <3>2, <3>3
  <2>14. CountersBounded'
    <3>1. /\ IsFiniteSet(Joins \ {a}) /\ Cardinality(Joins \ {a}) = Cardinality(Joins) - 1
          /\ Cardinality(Joins) \in Nat
      BY <1>1, <2>11, FS_RemoveElement, FS_CardinalityType DEF CountersBounded
    <3>2. /\ IsFiniteSet(Joins') /\ Cardinality(Joins') <= Cardinality(Joins \ {a})
          /\ Cardinality(Joins') \in Nat
      <4>1. Joins' \subseteq Joins \ {a} BY <2>10, <2>11
      <4> QED BY <3>1, <4>1, FS_Subset, FS_CardinalityType
    <3>3. Cardinality(Orders) \in Nat /\ Cardinality(Orders') \in Nat
      BY <1>1, <2>10, FS_CardinalityType DEF CountersBounded
    <3>4. dials' \in 0 .. MaxDials /\ keys' \in 0 .. MaxKeys /\ dials \in Nat /\ keys \in Nat
      BY <1>1, SessionAssumption DEF CountersBounded
    <3>5. board'.lastPlayer + Cardinality(Joins') <= dials'
      BY <1>1, <2>2, <2>4, <3>1, <3>2, <3>4 DEF CountersBounded
    <3>6. Cardinality(Orders') <= keys' BY <1>1, <2>10, <3>3, <3>4 DEF CountersBounded
    <3>7. ASSUME NEW p \in Ids(board')
          PROVE  board'.players[p].armyCount + Cardinality(Orders')
                   <= keys' + IF IsStarted(board') THEN 4 ELSE 0
      <4>1. CASE p = id BY <2>2, <2>4, <3>3, <3>4, <3>6, <4>1
      <4>2. CASE p \in Ids(board)
        <5>1. board.players[p].armyCount \in Nat BY <1>1, <4>2, BoardNumbers
        <5>2. board.players[p].armyCount + Cardinality(Orders) <= keys
          BY <1>1, <1>5, <3>4, <4>2, <5>1 DEF CountersBounded
        <5>3. board'.players[p].armyCount = board.players[p].armyCount BY <2>2, <4>2
        <5> QED BY <2>4, <2>10, <3>3, <3>4, <5>1, <5>2, <5>3
      <4> QED BY <2>2, <4>1, <4>2
    <3> QED BY <2>10, <3>2, <3>4, <3>5, <3>6, <3>7 DEF CountersBounded
  <2>15. \A b \in Peers : event # From(b, AskReady) BY <1>2, <2>3
  <2>16. board.lastPlayer <= board'.lastPlayer BY <2>2, <2>4
  <2> QED BY <1>3, <2>3, <2>7, <2>8, <2>12, <2>13, <2>14, <2>15, <2>16, FinishKeeps
<1> QED BY <1>3, <1>4, <1>5

\* An order to buy.
LEMMA BuyKeeps ==
  ASSUME SessionInv, IInv', client' = [b \in Peers |-> Deliver(client[b], b)],
         UNCHANGED <<dials, keys>>, NEW a \in Peers, NEW p \in KnownIds,
         NEW t \in DOMAIN Cost, HandleBuy(a, p, t)
  PROVE  SessionInv'
<1>1. /\ BoardOK(board, Peers) /\ BoardOK(board', Peers) /\ sweep = NoSweep
      /\ NothingBeforeStart /\ Unmoved /\ JoinersUnknown /\ CountersBounded
  BY DEF SessionInv, IInv, TypeOK, Unmoved
<1>2. \A b \in Peers : From(a, BuyMsg(p, t)) # From(b, AskReady)
  BY DEF From, BuyMsg, AskReady
<1>3. /\ Handle(From(a, BuyMsg(p, t))) /\ members' = members
      /\ \/ UNCHANGED board /\ Silent
         \/ /\ p \in Ids(board) /\ board' = AddCharacter(board, p, t)
            /\ sent' = <<>> \/ sent' = <<BuyMsg(p, t)>>
  BY DEF HandleBuy, Broadcast, Silent
<1>4. CASE UNCHANGED board /\ Silent BY <1>2, <1>3, <1>4, SilentKeeps
<1>5. CASE p \in Ids(board) /\ board' = AddCharacter(board, p, t)
           /\ (sent' = <<>> \/ sent' = <<BuyMsg(p, t)>>)
  <2>1. /\ Ids(board') = Ids(board) /\ board'.phase = board.phase
        /\ board'.lastPlayer = board.lastPlayer
        /\ board'.players[p].armyCount = board.players[p].armyCount + 1
        /\ \A q \in Ids(board) :
             /\ q # p => board'.players[q] = board.players[q]
             /\ board'.players[q].king = board.players[q].king
             /\ board'.players[q].ready = board.players[q].ready
             /\ board'.players[q].hexbank <= board.players[q].hexbank
             /\ BuyRefused(board.players[p], t) =>
                  board'.players[q].hexbank = board.players[q].hexbank
             /\ Idle(board.players[q]) => Idle(board'.players[q])
    BY <1>1, <1>5, AddCharacterShows DEF OrderTaken
  <2>2. \A q \in Ids(board) : board'.players[q].address = board.players[q].address
    BY <1>1, <1>5, AddCharacterSame DEF SameMatch
  <2>3. event = From(a, BuyMsg(p, t)) /\ event' = NoEvent /\ sweep' = NoSweep
    BY <1>1, <1>3 DEF Handle
  <2>4. /\ \A q \in Ids(board) : board.players[q].armyCount \in Nat
                                 /\ board.players[q].hexbank \in Nat
        /\ board.lastPlayer \in Nat /\ IsStarted(board') = IsStarted(board)
    BY <1>1, <2>1, BoardNumbers DEF IsStarted
  <2>5. Duller(board, board')
    <3>1. ASSUME NEW q \in Ids(board), board'.players[q].armyCount <= 4
          PROVE  /\ board.players[q].armyCount <= 4
                 /\ board'.players[q].hexbank = board.players[q].hexbank
      <4>1. CASE q # p BY <2>1, <3>1, <4>1
      <4>2. CASE q = p
        <5>1. board.players[p].armyCount + 1 <= 4 /\ board.players[p].armyCount \in Nat
          BY <2>1, <2>4, <3>1, <4>2
        <5>2. ~IsStarted(board)
          <6>1. IsStarted(board) => board.players[p].armyCount >= 4 BY <1>1, <1>5 DEF Unmoved
          <6> QED BY <5>1, <6>1
        <5>3. board.players[p].hexbank = 0 /\ Cost[t] \in Nat \ {0}
          BY <1>1, <1>5, <5>2, BoardAssumption DEF NothingBeforeStart
        <5>4. BuyRefused(board.players[p], t) BY <5>3 DEF BuyRefused
        <5> QED BY <2>1, <4>2, <5>1, <5>4
      <4> QED BY <4>1, <4>2
    <3> QED BY <2>1, <2>4, <3>1 DEF Duller
  <2>6. Carries(board, sent', board') /\ sent' \in Seq(DownPackets')
    <3>1. CASE sent' = <<>>
      <4>1. <<>> \in Seq(DownPackets') OBVIOUS
      <4> QED BY <1>1, <2>5, <3>1, <4>1, CarriesNone
    <3>2. CASE sent' = <<BuyMsg(p, t)>>
      <4>1. PICK m : m = BuyMsg(p, t) OBVIOUS
      <4>2. m[1] \in {"GB", "W"} /\ (m[1] = "GB" => m[2] \in Ids(board))
        BY <1>5, <4>1 DEF BuyMsg
      <4>3. \A w : \A asked \in BOOLEAN : Follows(w, board, asked) =>
               Follows(Reading(w, m), board', asked)
        BY <1>1, <2>5, <4>2, NewsFollows
      <4>4. Carries(board, sent', board') BY <3>2, <4>1, <4>3, CarriesOne
      <4>5. p \in KnownIds' BY <2>1 DEF KnownIds
      <4>6. m \in DownPackets' BY <4>1, <4>5 DEF DownPackets
      <4> QED BY <3>2, <4>1, <4>4, <4>6
    <3> QED BY <1>5, <3>1, <3>2
  <2>7. \A b \in Peers : client'[b].up = client[b].up BY FinishServes
  <2>8. Joins' \subseteq Joins /\ Orders' \subseteq Orders BY <2>3, <2>7, FinishCounts
  <2>9. <<a, 0>> \in Orders /\ <<a, 0>> \notin Orders'
    <3>1. OrderAt(a, 0) BY <2>3 DEF OrderAt, From, BuyMsg
    <3>2. ~OrderAt(a, 0)' BY <2>3 DEF OrderAt, NoEvent
    <3>3. client[a].up \in Seq(UpPackets) BY DEF SessionInv, ClientOK
    <3>4. 0 \in 0 .. Len(client[a].up) BY <3>3
    <3> QED BY <3>1, <3>2, <3>4 DEF Orders
  <2>10. Unmoved'
    <3>1. \A q \in Ids(board') : Idle(board'.players[q])
      BY <1>1, <2>1 DEF Unmoved, Idle
    <3>2. ASSUME IsStarted(board'), NEW q \in Ids(board') PROVE board'.players[q].armyCount >= 4
      <4>1. board.players[q].armyCount >= 4 /\ board.players[q].armyCount \in Nat
        BY <1>1, <2>1, <2>4, <3>2 DEF Unmoved
      <4> QED BY <2>1, <4>1
    <3> QED BY <2>3, <3>1, <3>2 DEF Unmoved, Idle
  <2>11. JoinersUnknown' BY <1>1, <2>1, <2>2, <2>4, <2>8 DEF JoinersUnknown
  <2>12. CountersBounded'
    <3>1. /\ IsFiniteSet(Joins') /\ Cardinality(Joins') <= Cardinality(Joins)
          /\ Cardinality(Joins') \in Nat /\ Cardinality(Joins) \in Nat
      BY <1>1, <2>8, FS_Subset, FS_CardinalityType DEF CountersBounded
    <3>2. /\ IsFiniteSet(Orders \ {<<a, 0>>}) /\ Cardinality(Orders) \in Nat
          /\ Cardinality(Orders \ {<<a, 0>>}) = Cardinality(Orders) - 1
      BY <1>1, <2>9, FS_RemoveElement, FS_CardinalityType DEF CountersBounded
    <3>3. /\ IsFiniteSet(Orders') /\ Cardinality(Orders') \in Nat
          /\ Cardinality(Orders') <= Cardinality(Orders \ {<<a, 0>>})
      <4>1. Orders' \subseteq Orders \ {<<a, 0>>} BY <2>8, <2>9
      <4> QED BY <3>2, <4>1, FS_Subset, FS_CardinalityType
    <3>4. Cardinality(Orders') + 1 <= Cardinality(Orders) BY <3>2, <3>3
    <3>5. dials' \in 0 .. MaxDials /\ keys' \in 0 .. MaxKeys /\ dials \in Nat /\ keys \in Nat
      BY <1>1, SessionAssumption DEF CountersBounded
    <3>6. board'.lastPlayer + Cardinality(Joins') <= dials'
      BY <1>1, <2>1, <2>4, <3>1, <3>5 DEF CountersBounded
    <3>7. Cardinality(Orders') <= keys' BY <1>1, <3>2, <3>3, <3>4, <3>5 DEF CountersBounded
    <3>8. ASSUME NEW q \in Ids(board')
          PROVE  board'.players[q].armyCount + Cardinality(Orders')
                   <= keys' + IF IsStarted(board') THEN 4 ELSE 0
      <4>1. PICK k : k = IF IsStarted(board) THEN 4 ELSE 0 OBVIOUS
      <4>2. k \in Nat /\ q \in Ids(board) /\ board.players[q].armyCount \in Nat
        BY <2>1, <2>4, <4>1
      <4>3. board.players[q].armyCount + Cardinality(Orders) <= keys + k
        BY <1>1, <4>1, <4>2 DEF CountersBounded
      <4>4. \/ board'.players[q].armyCount = board.players[q].armyCount
            \/ board'.players[q].armyCount = board.players[q].armyCount + 1
        BY <2>1, <4>2
      <4>5. board'.players[q].armyCount + Cardinality(Orders') <= keys' + k
        BY <3>2, <3>3, <3>4, <3>5, <4>2, <4>3, <4>4
      <4> QED BY <2>4, <4>1, <4>5
    <3> QED BY <3>1, <3>3, <3>5, <3>6, <3>7, <3>8 DEF CountersBounded
  <2>13. \A b \in Peers : event # From(b, AskReady) BY <1>2, <2>3
  <2>14. board.lastPlayer <= board'.lastPlayer BY <2>1, <2>4
  <2> QED BY <1>3, <2>3, <2>5, <2>6, <2>10, <2>11, <2>12, <2>13, <2>14, FinishKeeps
<1> QED BY <1>3, <1>4, <1>5

-----------------------------------------------------------------------------
(* The invariant. *)

\* The rest of a turn preserves the invariant.
LEMMA FinishTurnKeeps ==
  ASSUME SessionInv, IInv', FinishTurn, UNCHANGED <<dials, keys>>,
         client' = [b \in Peers |-> Deliver(client[b], b)]
  PROVE  SessionInv'
<1>1. CASE SkipCharacter \/ MoveCharacter \/ CrashOnStrayWrite \/ EndSweep
  BY <1>1, SweepKeeps
<1>2. CASE NothingToHandle
  <2>1. \A b \in Peers : NoEvent # From(b, AskReady) BY DEF NoEvent, From
  <2> QED BY <1>2, <2>1, SilentKeeps DEF NothingToHandle
<1>3. ASSUME NEW a \in Peers, HandleConnect(a) PROVE SessionInv'
  <2>1. \A b \in Peers : Connected(a) # From(b, AskReady) BY DEF Connected, From
  <2>2. members \subseteq members' BY <1>3 DEF HandleConnect
  <2> QED BY <1>3, <2>1, <2>2, SilentKeeps DEF HandleConnect
<1>4. ASSUME NEW a \in Peers, HandleDisconnect(a) PROVE SessionInv'
  BY <1>4, DepartureKeeps
<1>5. ASSUME NEW a \in Peers, HandlePacket(a) PROVE SessionInv'
  <2>1. CASE HandleJoin(a) BY <2>1, JoinKeeps
  <2>2. CASE HandleAskReady(a) BY <2>2, AskReadyKeeps
  <2>3. CASE HandleOther(a)
    <3>1. \A b \in Peers : From(a, Other) # From(b, AskReady) BY DEF From, Other, AskReady
    <3> QED BY <2>3, <3>1, SilentKeeps DEF HandleOther
  <2>4. ASSUME NEW p \in KnownIds, HandleReady(a, p) PROVE SessionInv'
    BY <2>4, ReadyKeeps
  <2>5. ASSUME NEW p \in KnownIds, NEW t \in DOMAIN Cost, HandleBuy(a, p, t) PROVE SessionInv'
    BY <2>5, BuyKeeps
  \* Nobody moves.
  <2>6. MoveOrders = {} BY SessionAssumption
  <2> QED BY <1>5, <2>1, <2>2, <2>3, <2>4, <2>5, <2>6 DEF HandlePacket
<1> QED BY <1>1, <1>2, <1>3, <1>4, <1>5 DEF FinishTurn

\* It holds at first: nobody is there.
LEMMA SessionBegins == SessionInit => SessionInv
<1> SUFFICES ASSUME SessionInit PROVE SessionInv
  OBVIOUS
<1>1. IInv BY InitSafe DEF SessionInit
<1>2. /\ event = NoEvent /\ sweep = NoSweep /\ board = EmptyBoard /\ members = {}
      /\ dials = 0 /\ keys = 0 /\ client = [a \in Peers |-> NoClient]
  BY DEF SessionInit, Init
<1>3. ASSUME NEW a \in Peers
      PROVE  /\ client[a] = NoClient /\ client[a].link = "free"
             /\ client[a].up = <<>> /\ client[a].down = <<>> /\ ~Open(a)
             /\ client[a] = [link |-> client[a].link, board |-> client[a].board,
                             me |-> client[a].me, up |-> client[a].up, down |-> client[a].down]
  BY <1>2 DEF NoClient, Open
<1>4. Ids(board) = {} /\ board.lastPlayer = 0 /\ ~IsStarted(board)
  BY <1>2, EmptyBoardParts DEF IsStarted
<1>5. Unmoved BY <1>2, <1>4 DEF Unmoved
<1>6. EventOK BY <1>2 DEF EventOK
<1>7. \A a \in Peers : DOMAIN client[a].up = {} /\ Len(client[a].up) = 0
  <2> TAKE a \in Peers
  <2>1. client[a].up = <<>> BY <1>3
  <2> QED BY <2>1
<1>8. JoinsOnce BY <1>7 DEF JoinsOnce
<1>9. Joins = {} BY <1>2, <1>7 DEF Joins, NoEvent, From
<1>10. Orders = {}
  <2>1. \A a \in Peers : \A k : ~OrderAt(a, k) BY <1>2, <1>7 DEF OrderAt, NoEvent
  <2> QED BY <2>1 DEF Orders
<1>11. JoinersUnknown BY <1>9 DEF JoinersUnknown
<1>12. CountersBounded
  BY <1>2, <1>4, <1>9, <1>10, FS_EmptySet, SessionAssumption DEF CountersBounded
<1>13. ASSUME NEW a \in Peers PROVE ClientOK(a)
  <2>1. <<>> \in Seq(UpPackets) /\ <<>> \in Seq(DownPackets) OBVIOUS
  <2>2. client[a].up \in Seq(UpPackets) /\ client[a].down \in Seq(DownPackets)
    BY <1>3, <2>1
  <2> QED BY <1>3, <2>2 DEF ClientOK
<1>14. ReplicasFollow BY <1>3 DEF ReplicasFollow
<1>15. client = [a \in Peers |-> client[a]] BY <1>2
<1> QED BY <1>1, <1>5, <1>6, <1>8, <1>11, <1>12, <1>13, <1>14, <1>15 DEF SessionInv

\* Every step preserves it.
LEMMA SessionKept == SessionInv /\ [SessionNext]_sessionVars => SessionInv'
<1> SUFFICES ASSUME SessionInv, [SessionNext]_sessionVars PROVE SessionInv'
  OBVIOUS
<1>1. IInv' BY SessionStep
<1>2. CASE ServerTurn BY <1>1, <1>2, TimedKeeps, FinishTurnKeeps DEF ServerTurn
<1>3. CASE ClockTick BY <1>1, <1>3, Untouched DEF ClockTick, Tick
<1>4. ASSUME NEW a \in Peers, Receive(a) PROVE SessionInv' BY <1>4, ReceiveKeeps
<1>5. ASSUME NEW a \in Peers, UserInput(a) PROVE SessionInv'
  BY <1>5, DialKeeps, LeaveKeeps, KeyKeeps DEF UserInput
<1>6. CASE UNCHANGED sessionVars BY <1>1, <1>6, Untouched DEF sessionVars, vars
<1> QED BY <1>2, <1>3, <1>4, <1>5, <1>6 DEF SessionNext

\* It holds in every reachable state.
LEMMA SessionSafe == SessionSpec => []SessionInv
<1> QED BY SessionBegins, SessionKept, PTL DEF SessionSpec

-----------------------------------------------------------------------------
(* What follows. *)

\* The clients cause no event that the server is not proved to bear: whatever
\* is shown of DedicatedServer holds with the real clients (main.cpp).
THEOREM ClientsAreBorne == SessionSpec => Spec
<1>1. SessionInit => Init BY DEF SessionInit
<1>2. SessionInv /\ [SessionNext]_sessionVars => [Next]_vars BY SessionStep
<1> QED BY <1>1, <1>2, SessionSafe, PTL DEF SessionSpec, Spec

\* With nothing under way a client is what it will be.
LEMMA QuietAgrees ==
  ASSUME SessionInv, Quiet, NEW a \in Peers, Initialised(a)
  PROVE  /\ Agrees(client[a].board, board, TRUE)
         /\ BoardOK(board, Peers) /\ BoardOK(client[a].board, {NoAddress})
<1>1. BoardOK(board, Peers) /\ TurnOK BY DEF SessionInv, IInv, TypeOK
<1>2. event = NoEvent BY <1>1 DEF Quiet, TurnOK
<1>3. Open(a) /\ client[a].me # NoPlayer /\ client[a].up = <<>> /\ client[a].down = <<>>
  BY DEF Quiet, Initialised
<1>4. CaughtUp(a) = View(a) BY <1>3, ReplayNothing DEF CaughtUp
<1>5. ~AskPending(a)
  <2>1. DOMAIN client[a].up = {} BY <1>3
  <2> QED BY <1>2, <2>1 DEF AskPending, NoEvent, From
<1>6. (~AskPending(a)) = TRUE BY <1>5
<1>7. Follows(CaughtUp(a), board, ~AskPending(a)) BY <1>3 DEF SessionInv, ReplicasFollow
<1>8. Follows(View(a), board, TRUE) BY <1>4, <1>6, <1>7
<1>9. Agrees(client[a].board, board, TRUE) BY <1>3, <1>8 DEF Follows, View
<1> QED BY <1>1, <1>9 DEF Agrees

\* Once everything has arrived the replicas agree with the server on the players
\* and their flags (ready, processPacket of the client and of the server).
THEOREM FlagsAgree == SessionSpec => []ReadyAgreement
<1>1. SessionInv => ReadyAgreement
  <2> SUFFICES ASSUME SessionInv, Quiet, NEW a \in Peers, Initialised(a), NEW p \in Ids(board)
               PROVE  /\ p \in Ids(client[a].board)
                      /\ client[a].board.players[p].ready = board.players[p].ready
    BY DEF ReadyAgreement
  <2> DEFINE c == client[a].board
  <2>1. Agrees(c, board, TRUE) /\ BoardOK(board, Peers) /\ BoardOK(c, {NoAddress})
    BY QuietAgrees
  <2> HIDE DEF c
  <2>2. p \in Ids(c) /\ PlayerAgrees(c.players[p], board.players[p], TRUE) BY <2>1 DEF Agrees
  <2>3. c.players[p].ready \in BOOLEAN /\ board.players[p].ready \in BOOLEAN
    BY <2>1, <2>2, BoardNumbers
  <2>4. c.players[p].ready = board.players[p].ready BY <2>2, <2>3 DEF PlayerAgrees
  <2> QED BY <2>2, <2>4 DEF c
<1> QED BY <1>1, SessionSafe, PTL

\* ... on whether the game is on, and on who is left in it.
THEOREM MatchAgrees == SessionSpec => []GameAgreement
<1>1. SessionInv => GameAgreement
  <2> SUFFICES ASSUME SessionInv, Quiet, NEW a \in Peers, Initialised(a)
               PROVE  /\ IsStarted(client[a].board) = IsStarted(board)
                      /\ \A p \in Ids(board) :
                           p \in GetGamePlayers(client[a].board) <=> p \in GetGamePlayers(board)
    BY DEF GameAgreement
  <2> DEFINE c == client[a].board
  <2>1. Agrees(c, board, TRUE) BY QuietAgrees
  <2> HIDE DEF c
  <2>2. IsStarted(c) = IsStarted(board) BY <2>1 DEF Agrees
  <2>3. \A p \in Ids(board) : p \in GetGamePlayers(c) <=> p \in GetGamePlayers(board)
    BY <2>1 DEF Agrees, PlayerAgrees, GetGamePlayers, IsDefeated
  <2> QED BY <2>2, <2>3 DEF c
<1> QED BY <1>1, SessionSafe, PTL

\* ... and a replica shows no player with less than the server holds for it.
THEOREM BanksAgree == SessionSpec => []IncomeAgreement
<1>1. SessionInv => IncomeAgreement
  <2> SUFFICES ASSUME SessionInv, Quiet, NEW a \in Peers, Initialised(a), NEW p \in Ids(board)
               PROVE  LET mine == client[a].board.players[p].hexbank
                          its  == board.players[p]
                      IN mine >= its.hexbank /\ (its.armyCount = 4 => mine = its.hexbank)
    BY DEF IncomeAgreement
  <2> DEFINE c == client[a].board
  <2>1. Agrees(c, board, TRUE) BY QuietAgrees
  <2> HIDE DEF c
  <2>2. PlayerAgrees(c.players[p], board.players[p], TRUE) BY <2>1 DEF Agrees
  <2>3. /\ c.players[p].hexbank >= board.players[p].hexbank
        /\ board.players[p].armyCount = 4 => c.players[p].hexbank = board.players[p].hexbank
    BY <2>2 DEF PlayerAgrees
  <2> QED BY <2>3 DEF c
<1> QED BY <1>1, SessionSafe, PTL

\* A client that has an id finds the player of every packet about one, and the
\* king of every loss (thisPlayer, kingChar and getPlayerById in processPacket).
\* The packets are those of a game without moves, every kind but the report.
THEOREM NewsUnderstood == SessionSpec => []NewsFindsItsSubject
<1>1. ASSUME SessionInv, NEW a \in Peers, Initialised(a), client[a].down # <<>>
      PROVE  /\ KnowsSubject(a)
             /\ Incoming(a)[1] = "SD" =>
                  /\ IsStarted(client[a].board)
                  /\ client[a].board.players[Incoming(a)[2]].king # "none"
  <2>1. Survives(View(a), Incoming(a)) BY <1>1, NextFound
  <2>2. View(a).board = client[a].board BY DEF View
  <2> QED BY <2>1, <2>2 DEF Survives, KnowsSubject
<1>2. SessionInv => NewsFindsItsSubject BY <1>1 DEF NewsFindsItsSubject
<1> QED BY <1>2, SessionSafe, PTL
=============================================================================
