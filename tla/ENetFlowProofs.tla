---------------------------- MODULE ENetFlowProofs ----------------------------
(***************************************************************************)
(* Round trip times are measured right although a header has only sixteen  *)
(* bits of the time: for every clock and every width of the mark, as long  *)
(* as no answer is older than a lap.  And for every number of commands     *)
(* under way: a peer is given up only if one of them stayed unanswered for *)
(* the least time allowed, and an idle peer is probed.                     *)
(***************************************************************************)
EXTENDS ENetFlow, NaturalsInduction, WellFoundedInduction, TLAPS

-----------------------------------------------------------------------------
(* Laps of the clock *)

\* A time is so many laps and a rest that is less than one.
LEMMA Laps ==
  ASSUME NEW W \in Nat \ {0}, NEW t \in Nat
  PROVE \E q \in Nat, r \in 0 .. W - 1 :
          q = t \div W /\ r = t % W /\ t = q * W + r
<1>1. PICK q \in Int : q = t \div W
  BY SMT
<1>2. PICK r \in 0 .. W - 1 : r = t % W
  BY SMT
<1>3. t = q * W + r
  BY <1>1, <1>2, Z3
<1>4. q * W > -W
  BY <1>3, SMT
<1>5. q > -1
  BY <1>4, Z3
<1>6. q \in Nat
  BY <1>5
<1> QED
  BY <1>1, <1>2, <1>3, <1>6

\* Two times that are less than a lap apart are in the same lap or in laps
\* that follow each other.
LEMMA NeighbouringLaps ==
  ASSUME NEW W \in Nat \ {0}, NEW q \in Nat, NEW p \in Nat,
         NEW r \in 0 .. W - 1, NEW m \in 0 .. W - 1,
         p * W + m <= q * W + r, (q * W + r) - (p * W + m) < W
  PROVE p = q \/ p = q - 1
<1>1. W * (q - p) < 2 * W /\ W * (q - p) > -W
  BY Z3
<1>2. q - p < 2 /\ q - p > -1
  BY <1>1, Z3
<1> QED
  BY <1>2

\* What SentTime makes of the mark of a time that is less than a lap ago: that
\* time, or a time to come.  The time to come is only for answers that are
\* half a lap old.
LEMMA SentTimeRecovered ==
  ASSUME NEW s \in Nat, NEW t \in Nat, s <= t, t - s < Width
  PROVE  /\ SentTime(s % Width, t) \in Int
         /\ \/ SentTime(s % Width, t) = s
            \/ SentTime(s % Width, t) > t /\ t - s >= Width \div 2
<1>1. Width \in Nat \ {0} /\ Width % 2 = 0
  BY FlowAssumption
<1>2. PICK h \in Nat : h = Width \div 2 /\ Width = 2 * h
  <2>1. PICK h \in Nat, z \in 0 .. 1 : h = Width \div 2 /\ z = Width % 2 /\ Width = h * 2 + z
    BY <1>1, Laps
  <2> QED
    BY <1>1, <2>1
<1>3. PICK q \in Nat, r \in 0 .. Width - 1 : q = t \div Width /\ r = t % Width /\ t = q * Width + r
  BY <1>1, Laps
<1>4. PICK p \in Nat, m \in 0 .. Width - 1 : p = s \div Width /\ m = s % Width /\ s = p * Width + m
  BY <1>1, Laps
<1>5. p = q \/ p = q - 1
  BY <1>1, <1>3, <1>4, NeighbouringLaps
<1>6. SentTime(s % Width, t) = (IF m >= h /\ r < h THEN q - 1 ELSE q) * Width + m
  BY <1>2, <1>3, <1>4 DEF SentTime
<1>7. (q - 1) * Width = q * Width - Width /\ q * Width \in Int
  BY <1>1, Z3
<1>8. CASE p = q
  <2>1. m <= r
    BY <1>1, <1>3, <1>4, <1>7, <1>8
  <2> QED
    BY <1>1, <1>2, <1>3, <1>4, <1>6, <1>7, <1>8, <2>1
<1>9. CASE p = q - 1
  <2>1. s = q * Width - Width + m
    BY <1>4, <1>7, <1>9
  <2>2. r < m
    BY <1>1, <1>3, <1>7, <2>1
  <2>3. CASE m >= h /\ r < h
    BY <1>1, <1>6, <1>7, <2>1, <2>3
  <2>4. CASE ~ (m >= h /\ r < h)
    <3>1. t - s = Width + r - m
      BY <1>1, <1>3, <1>7, <2>1
    <3>2. t - s >= h
      BY <1>2, <2>2, <2>4, <3>1
    <3>3. SentTime(s % Width, t) = q * Width + m
      BY <1>6, <2>4
    <3>4. q * Width + m > t
      BY <1>1, <1>3, <1>7, <2>2
    <3> QED
      BY <1>1, <1>2, <1>7, <3>2, <3>3, <3>4
  <2> QED
    BY <2>3, <2>4
<1> QED
  BY <1>5, <1>8, <1>9

-----------------------------------------------------------------------------
(* The invariant *)

\* Nothing that may still be answered was sent in the future, and the last
\* answer was measured right or, if it is old, found to come from the future.
FlowInv ==
  /\ now \in Nat
  /\ \A d \in datagrams : d[2] \in Nat /\ d[2] <= now
  /\ MeasuredRight

\* A difference with what comes later is negative.
LEMMA Before ==
  ASSUME NEW a \in Int, NEW b \in Int, b > a
  PROVE  a - b < 0
OBVIOUS

\* The commands of a datagram bear the time at which it left.
LEMMA SentNow ==
  ASSUME NEW p, NEW t, NEW d \in Sent(p, t)
  PROVE  d[2] = t
BY DEF Sent

LEMMA FlowInit == Init => FlowInv
<1> SUFFICES ASSUME Init PROVE FlowInv
  OBVIOUS
<1>1. now \in Nat /\ datagrams = {}
  BY FlowAssumption DEF Init
<1>2. MeasuredRight
  BY DEF Init, MeasuredRight
<1> QED
  BY <1>1, <1>2 DEF FlowInv

LEMMA FlowNext == FlowInv /\ [Next]_vars => FlowInv'
<1> SUFFICES ASSUME FlowInv, [Next]_vars PROVE FlowInv'
  OBVIOUS
<1>0. Turn \in Nat /\ Width \in Nat \ {0} /\ Lifetime \in Nat /\ Lifetime < Width
  BY FlowAssumption
<1>1. CASE Say
  <2>1. now' = now /\ measured' = measured
    BY <1>1 DEF Say
  <2>2. ASSUME NEW d \in datagrams' PROVE d[2] \in Nat /\ d[2] <= now'
    <3>1. d \in datagrams \/ d \in Sent(peer', now)
      BY <1>1, <2>2 DEF Say
    <3> QED
      BY <2>1, <3>1, SentNow DEF FlowInv
  <2> QED
    BY <2>1, <2>2 DEF FlowInv, MeasuredRight
<1>2. CASE Service
  <2>1. now' = now + Turn /\ measured' = measured
    BY <1>2 DEF Service
  <2>2. now' \in Nat /\ now <= now'
    BY <1>0, <2>1 DEF FlowInv
  <2>3. ASSUME NEW d \in datagrams' PROVE d[2] \in Nat /\ d[2] <= now'
    <3>1. d \in datagrams \/ d \in Sent(peer', now')
      BY <1>2, <2>3 DEF Service, Remembered
    <3>2. CASE d \in datagrams
      BY <2>2, <3>2 DEF FlowInv
    <3>3. CASE d \in Sent(peer', now')
      BY <2>2, <3>3, SentNow
    <3> QED
      BY <3>1, <3>2, <3>3
  <2> QED
    BY <2>1, <2>2, <2>3 DEF FlowInv, MeasuredRight
<1>3. ASSUME NEW a \in datagrams, ServiceAnswer(a) PROVE FlowInv'
  <2>1. now' = now \/ now' = now + Turn
    BY <1>3 DEF ServiceAnswer
  <2>2. now' \in Nat /\ now <= now'
    BY <1>0, <2>1 DEF FlowInv
  <2>3. ASSUME NEW d \in datagrams' PROVE d[2] \in Nat /\ d[2] <= now'
    <3> DEFINE before == SendOutgoing(peer, now', TRUE)
    <3>1. datagrams' = Remembered((datagrams \cup Sent(before, now') \cup Sent(peer', now'))
                                   \ {a}, now')
      BY <1>3 DEF ServiceAnswer
    <3>2. d \in datagrams \/ d \in Sent(before, now') \/ d \in Sent(peer', now')
      BY <2>3, <3>1 DEF Remembered
    <3>3. CASE d \in datagrams
      BY <2>2, <3>3 DEF FlowInv
    <3>4. CASE d \in Sent(before, now') \/ d \in Sent(peer', now')
      <4>1. d[2] = now'
        BY <3>4, SentNow
      <4> QED
        BY <2>2, <4>1
    <3> QED
      BY <3>2, <3>3, <3>4
  <2>4. MeasuredRight'
    <3>1. a[2] \in Nat /\ a[2] <= now' /\ now' - a[2] < Width
      BY <1>0, <1>3, <2>2 DEF FlowInv, ServiceAnswer
    <3>2. PICK found \in Int :
            /\ found = SentTime(a[2] % Width, now')
            /\ \/ found = a[2]
               \/ found > now' /\ now' - a[2] >= Width \div 2
      BY <2>2, <3>1, SentTimeRecovered
    <3>3. measured' = [age |-> now' - a[2], as |-> now' - found]
      BY <1>3, <3>2 DEF ServiceAnswer
    <3>4. measured'.age = now' - a[2] /\ measured'.as = now' - found
      BY <3>3
    <3>5. measured'.age \in Int /\ measured'.as \in Int /\ Width \div 2 \in Int
      BY <1>0, <2>2, <3>1, <3>4
    <3>6. CASE found = a[2]
      BY <3>4, <3>6 DEF MeasuredRight
    <3>7. CASE found > now' /\ now' - a[2] >= Width \div 2
      <4>1. measured'.as < 0
        <5>1. found > now'
          BY <3>7
        <5>2. now' \in Int
          BY <2>2
        <5>3. now' - found < 0
          BY <5>1, <5>2, Before
        <5>4. measured'.as = now' - found
          BY <3>4
        <5> QED
          BY <5>3, <5>4
      <4>2. measured'.age >= Width \div 2
        BY <3>4, <3>7
      <4> QED
        BY <3>5, <4>1, <4>2 DEF MeasuredRight
    <3> QED
      BY <3>2, <3>6, <3>7
  <2> QED
    BY <2>2, <2>3, <2>4 DEF FlowInv
<1>4. CASE UNCHANGED vars
  BY <1>4 DEF vars, FlowInv, MeasuredRight
<1> QED
  BY <1>1, <1>2, <1>3, <1>4 DEF Next

\* Sixteen bits of the time are enough to measure a round trip
\* (enet_protocol_handle_acknowledge): for every clock and every width of the
\* mark an answer less than half a lap old is measured right, and one between
\* half a lap and a lap old is measured right or dropped.
THEOREM MarksSuffice == Spec => []MeasuredRight
<1>1. Spec => []FlowInv
  BY FlowInit, FlowNext, PTL DEF Spec
<1>2. FlowInv => MeasuredRight
  BY DEF FlowInv
<1> QED
  BY <1>1, <1>2, PTL

-----------------------------------------------------------------------------
(* Walks through a list *)

\* A set of numbers that is not empty has a smallest element.
LEMMA Smallest ==
  ASSUME NEW S \in SUBSET Nat, S # {}
  PROVE  \E m \in S : \A n \in S : m <= n
<1> DEFINE R == OpToRel(<, Nat)
<1>1. IsWellFoundedOn(R, Nat)
  BY NatLessThanWellFounded
<1> HIDE DEF R
<1>2. PICK m \in S : \A n \in S : ~ (<<n, m>> \in R)
  BY <1>1, WFMin
<1>3. \A n \in S : ~ (n < m)
  BY <1>2 DEF R, OpToRel
<1> QED
  BY <1>3

\* What holds of 0, and of n + 1 if it holds of n, holds of every number up to k.
LEMMA Upwards ==
  ASSUME NEW S \in SUBSET Nat, NEW k \in Nat, 0 \in S,
         \A n \in S : n < k => n + 1 \in S
  PROVE  0 .. k \subseteq S
<1> DEFINE D == {n \in 0 .. k : n \notin S}
<1>1. SUFFICES ASSUME D # {} PROVE FALSE
  OBVIOUS
<1>2. D \subseteq Nat
  OBVIOUS
<1> HIDE DEF D
<1>3. PICK m \in D : \A n \in D : m <= n
  BY <1>1, <1>2, Smallest
<1> USE DEF D
<1>4. m # 0 /\ m - 1 \in 0 .. k
  OBVIOUS
<1>5. m - 1 \in S
  BY <1>3, <1>4
<1> QED
  BY <1>4, <1>5

\* A step from a set to itself, table[<<x, k>>] for the k-th element, has a walk.
Tables(X, n) == [X \X (1 .. n) -> X]

IsWalk(f, X, x, n, table) ==
  /\ f \in [0 .. n -> X] /\ f[0] = x
  /\ \A k \in 1 .. n : f[k] = table[<<f[k - 1], k>>]

LEMMA WalkExists ==
  ASSUME NEW X, NEW x \in X, NEW n \in Nat, NEW table \in Tables(X, n)
  PROVE  \E f : IsWalk(f, X, x, n, table)
<1> USE DEF Tables
<1> DEFINE Upto(f, k) == f[0] = x /\ \A i \in 1 .. k : f[i] = table[<<f[i - 1], i>>]
           T == {k \in Nat : k <= n => \E f \in [0 .. k -> X] : Upto(f, k)}
<1>1. 0 \in T
  <2>1. [i \in 0 .. 0 |-> x] \in [0 .. 0 -> X] /\ Upto([i \in 0 .. 0 |-> x], 0)
    OBVIOUS
  <2> QED
    BY <2>1
<1>2. ASSUME NEW k \in T, k < n PROVE k + 1 \in T
  <2>1. PICK f \in [0 .. k -> X] : Upto(f, k)
    BY <1>2
  <2> DEFINE g == [i \in 0 .. k + 1 |-> IF i = k + 1 THEN table[<<f[k], k + 1>>] ELSE f[i]]
  <2>2. k \in 0 .. k /\ k + 1 \in 1 .. n /\ f[k] \in X
    BY <1>2
  <2>3. table[<<f[k], k + 1>>] \in X
    BY <2>2
  <2>4. g \in [0 .. k + 1 -> X]
    BY <2>3
  <2>5. g[k + 1] = table[<<f[k], k + 1>>] /\ \A i \in 0 .. k : g[i] = f[i]
    OBVIOUS
  <2> HIDE DEF g
  <2>6. ASSUME NEW i \in 1 .. k + 1 PROVE g[i] = table[<<g[i - 1], i>>]
    <3>1. CASE i = k + 1
      BY <2>2, <2>5, <3>1
    <3>2. CASE i \in 1 .. k
      <4>1. i \in 0 .. k /\ i - 1 \in 0 .. k
        BY <3>2
      <4> QED
        BY <2>1, <2>5, <3>2, <4>1
    <3> QED
      BY <3>1, <3>2
  <2>7. g[0] = x
    BY <2>1, <2>5
  <2> QED
    BY <2>4, <2>6, <2>7
<1>3. T \subseteq Nat
  OBVIOUS
<1> HIDE DEF T
<1>4. n \in T
  <2>1. 0 .. n \subseteq T
    BY <1>1, <1>2, <1>3, Upwards
  <2> QED
    BY <2>1
<1>5. PICK f \in [0 .. n -> X] : Upto(f, n)
  BY <1>4 DEF T
<1> QED
  BY <1>5 DEF IsWalk

-----------------------------------------------------------------------------
(* The peer *)

FlowCommand == [number : Nat, first : Nat, sentTime : Nat, roundTripTimeout : Nat,
                roundTripTimeoutLimit : Nat]

FlowPeer == [connected : BOOLEAN, last : Nat, sent : Seq(FlowCommand),
             outgoing : Seq(FlowCommand), nextTimeout : Nat, earliestTimeout : Nat,
             lastReceiveTime : Nat, roundTripTime : Nat \ {0},
             roundTripTimeVariance : Nat]

\* A command that has been sent: it waits for an answer, and was sent for the
\* first time no later than for the last.
UnderWay(c, t) == c.roundTripTimeout # 0 /\ c.first <= c.sentTime /\ c.sentTime <= t

\* The peer at time t.
PeerOK(p, t) ==
  /\ p \in FlowPeer
  /\ \A k \in DOMAIN p.sent : UnderWay(p.sent[k], t)
  /\ \A k \in DOMAIN p.outgoing :
       p.outgoing[k].roundTripTimeout # 0 => UnderWay(p.outgoing[k], t)

\* The commands that were sent at x or before for the first time, among those
\* that wait.
SentBy(p, x) == \E k \in DOMAIN p.sent : p.sent[k].first <= x
AgainBy(p, x) ==
  \E k \in DOMAIN p.outgoing : p.outgoing[k].roundTripTimeout # 0 /\ p.outgoing[k].first <= x
WaitingBy(p, x) == SentBy(p, x) \/ AgainBy(p, x)

\* What sending leaves alone.
SameButSent(p, q) ==
  /\ q.connected = p.connected /\ q.last = p.last
  /\ q.earliestTimeout = p.earliestTimeout /\ q.lastReceiveTime = p.lastReceiveTime
  /\ q.roundTripTime = p.roundTripTime
  /\ q.roundTripTimeVariance = p.roundTripTimeVariance

\* One command that is sent is the last of those sent, and if it was sent
\* before it keeps the time of that.
LEMMA SendCommandAppends ==
  ASSUME NEW t \in Nat, NEW p, PeerOK(p, t), NEW c \in FlowCommand,
         c.roundTripTimeout # 0 => UnderWay(c, t)
  PROVE  /\ PeerOK(SendCommand(p, c, t), t)
         /\ SendCommand(p, c, t).outgoing = p.outgoing
         /\ SameButSent(p, SendCommand(p, c, t))
         /\ \E d \in FlowCommand :
              /\ SendCommand(p, c, t).sent = Append(p.sent, d)
              /\ c.roundTripTimeout # 0 => d.first = c.first
<1> DEFINE patience == p.roundTripTime + 4 * p.roundTripTimeVariance
           timed == IF c.roundTripTimeout # 0 THEN c
                    ELSE [c EXCEPT !.first = t, !.roundTripTimeout = patience,
                                   !.roundTripTimeoutLimit = TimeoutLimit * patience]
           next == IF p.sent = <<>> THEN t + timed.roundTripTimeout ELSE p.nextTimeout
           d == [timed EXCEPT !.sentTime = t]
           q == [p EXCEPT !.nextTimeout = next, !.sent = Append(@, d)]
<1>0. SendCommand(p, c, t) = q
  BY DEF SendCommand
<1>1. p \in FlowPeer /\ p.sent \in Seq(FlowCommand) /\ p.nextTimeout \in Nat
  BY DEF PeerOK, FlowPeer
<1>2. patience \in Nat \ {0} /\ TimeoutLimit \in Nat
  <2>1. p.roundTripTime \in Nat \ {0} /\ p.roundTripTimeVariance \in Nat
    BY <1>1 DEF FlowPeer
  <2>2. TimeoutLimit \in Nat
    BY FlowAssumption
  <2> QED
    BY <2>1, <2>2
<1>3. TimeoutLimit * patience \in Nat
  BY <1>2
<1> HIDE DEF patience
<1>4. timed \in FlowCommand /\ timed.roundTripTimeout # 0 /\ timed.first <= t
  <2>1. CASE c.roundTripTimeout # 0
    BY <2>1 DEF UnderWay, FlowCommand
  <2>2. CASE c.roundTripTimeout = 0
    <3>1. timed = [c EXCEPT !.first = t, !.roundTripTimeout = patience,
                            !.roundTripTimeoutLimit = TimeoutLimit * patience]
      BY <2>2
    <3> HIDE DEF timed
    <3>2. timed \in FlowCommand
      BY <1>2, <1>3, <3>1 DEF FlowCommand
    <3>3. timed.first = t /\ timed.roundTripTimeout = patience
      BY <3>1 DEF FlowCommand
    <3> QED
      BY <1>2, <3>2, <3>3
  <2> QED
    BY <2>1, <2>2
<1>5. c.roundTripTimeout # 0 => timed.first = c.first
  OBVIOUS
<1> HIDE DEF timed
<1>6. d \in FlowCommand /\ UnderWay(d, t) /\ d.first = timed.first
  BY <1>4 DEF UnderWay, FlowCommand
<1>7. next \in Nat
  BY <1>1, <1>4 DEF FlowCommand
<1> HIDE DEF d, next
<1>9. Append(p.sent, d) \in Seq(FlowCommand)
  BY <1>1, <1>6
<1>10. q \in FlowPeer /\ q.sent = Append(p.sent, d) /\ q.outgoing = p.outgoing
       /\ SameButSent(p, q)
  BY <1>1, <1>7, <1>9 DEF FlowPeer, SameButSent
<1> HIDE DEF q
<1>11. ASSUME NEW k \in DOMAIN q.sent PROVE UnderWay(q.sent[k], t)
  BY <1>1, <1>6, <1>10 DEF PeerOK
<1> QED
  BY <1>0, <1>5, <1>6, <1>10, <1>11 DEF PeerOK

\* All of what waits to be sent is sent, in its order.
LEMMA SendReliableWalk ==
  ASSUME NEW t \in Nat, NEW p, PeerOK(p, t)
  PROVE  \E f : /\ f[0] = [p EXCEPT !.outgoing = <<>>]
                /\ \A k \in 1 .. Len(p.outgoing) :
                     f[k] = SendCommand(f[k - 1], p.outgoing[k], t)
                /\ \A k \in 0 .. Len(p.outgoing) :
                     PeerOK(f[k], t) /\ f[k].outgoing = <<>> /\ SameButSent(p, f[k])
                /\ SendReliable(p, t) = f[Len(p.outgoing)]
<1> DEFINE n == Len(p.outgoing)
           X == {q \in FlowPeer : PeerOK(q, t) /\ q.outgoing = <<>> /\ SameButSent(p, q)}
           start == [p EXCEPT !.outgoing = <<>>]
           Sending(f) == f = [k \in 0 .. n |-> IF k = 0 THEN start
                                               ELSE SendCommand(f[k - 1], p.outgoing[k], t)]
           table == [z \in X \X (1 .. n) |-> SendCommand(z[1], p.outgoing[z[2]], t)]
<1>1. p \in FlowPeer /\ p.outgoing \in Seq(FlowCommand) /\ n \in Nat
  BY DEF PeerOK, FlowPeer
<1>2. start \in X
  <2>1. start \in FlowPeer /\ start.outgoing = <<>> /\ start.sent = p.sent
        /\ SameButSent(p, start)
    <3>1. <<>> \in Seq(FlowCommand)
      OBVIOUS
    <3>2. start \in FlowPeer
      BY <1>1, <3>1 DEF FlowPeer
    <3>3. start.outgoing = <<>> /\ start.sent = p.sent
      BY <1>1 DEF FlowPeer
    <3>4. SameButSent(p, start)
      BY <1>1 DEF FlowPeer, SameButSent
    <3> QED
      BY <3>2, <3>3, <3>4
  <2> HIDE DEF start
  <2> QED
    BY <2>1 DEF PeerOK
<1>3. ASSUME NEW q \in X, NEW k \in 1 .. n PROVE SendCommand(q, p.outgoing[k], t) \in X
  <2>1. p.outgoing[k] \in FlowCommand
        /\ (p.outgoing[k].roundTripTimeout # 0 => UnderWay(p.outgoing[k], t))
    BY <1>1 DEF PeerOK
  <2>2. /\ PeerOK(SendCommand(q, p.outgoing[k], t), t)
        /\ SendCommand(q, p.outgoing[k], t).outgoing = q.outgoing
        /\ SameButSent(q, SendCommand(q, p.outgoing[k], t))
    BY <2>1, SendCommandAppends
  <2> QED
    BY <2>2 DEF PeerOK, SameButSent
<1> HIDE DEF n, start, X
<1>4. table \in Tables(X, n)
  BY <1>3 DEF Tables
<1> HIDE DEF table
<1>5. PICK g \in [0 .. n -> X] :
        g[0] = start /\ \A k \in 1 .. n : g[k] = table[<<g[k - 1], k>>]
  <2>1. PICK g : IsWalk(g, X, start, n, table)
    BY <1>1, <1>2, <1>4, WalkExists
  <2> QED
    BY <2>1 DEF IsWalk
<1>6. ASSUME NEW k \in 1 .. n PROVE g[k] = SendCommand(g[k - 1], p.outgoing[k], t)
  <2>1. k - 1 \in 0 .. n
    BY <1>1
  <2>2. <<g[k - 1], k>> \in X \X (1 .. n)
    BY <2>1
  <2> QED
    BY <1>5, <2>2 DEF table
<1>7. \E f : Sending(f)
  <2>1. ASSUME NEW k \in 0 .. n
        PROVE  g[k] = IF k = 0 THEN start ELSE SendCommand(g[k - 1], p.outgoing[k], t)
    BY <1>5, <1>6
  <2> QED
    BY <2>1
<1> DEFINE f == CHOOSE h : Sending(h)
<1>8. Sending(f)
  BY <1>7
<1>9. SendReliable(p, t) = f[n]
  BY DEF SendReliable, n, start
<1> HIDE DEF f
<1>10. f[0] = start /\ \A k \in 1 .. n : f[k] = SendCommand(f[k - 1], p.outgoing[k], t)
  <2>1. 0 \in 0 .. n /\ \A k \in 1 .. n : k \in 0 .. n /\ k # 0
    BY <1>1
  <2> QED
    BY <1>8, <2>1
<1>11. \A k \in 0 .. n : f[k] = g[k]
  <2> DEFINE T == {k \in Nat : k <= n => f[k] = g[k]}
  <2>1. 0 \in T
    BY <1>5, <1>10
  <2>2. ASSUME NEW k \in T, k < n PROVE k + 1 \in T
    <3>1. k + 1 \in 1 .. n /\ (k + 1) - 1 = k /\ f[k] = g[k]
      BY <1>1, <2>2
    <3> QED
      BY <1>6, <1>10, <3>1
  <2>3. T \subseteq Nat
    OBVIOUS
  <2> HIDE DEF T
  <2>4. 0 .. n \subseteq T
    BY <1>1, <2>1, <2>2, <2>3, Upwards
  <2> QED
    BY <2>4 DEF T
<1>12. \A k \in 0 .. n : f[k] \in X
  BY <1>5, <1>11
<1> QED
  BY <1>9, <1>10, <1>12 DEF n, X, start

\* What was under way still is; and what is under way afterwards is there,
\* if anything was to be sent.
LEMMA SendReliableKeeps ==
  ASSUME NEW t \in Nat, NEW p, PeerOK(p, t)
  PROVE  /\ PeerOK(SendReliable(p, t), t)
         /\ SendReliable(p, t).outgoing = <<>>
         /\ SameButSent(p, SendReliable(p, t))
         /\ \A x \in Nat : WaitingBy(p, x) => SentBy(SendReliable(p, t), x)
         /\ p.sent # <<>> \/ p.outgoing # <<>> => SendReliable(p, t).sent # <<>>
<1> DEFINE n == Len(p.outgoing)
           start == [p EXCEPT !.outgoing = <<>>]
<1>1. PICK f : /\ f[0] = start
               /\ \A k \in 1 .. n : f[k] = SendCommand(f[k - 1], p.outgoing[k], t)
               /\ \A k \in 0 .. n :
                    PeerOK(f[k], t) /\ f[k].outgoing = <<>> /\ SameButSent(p, f[k])
               /\ SendReliable(p, t) = f[n]
  BY SendReliableWalk
<1>2. p \in FlowPeer /\ p.outgoing \in Seq(FlowCommand) /\ n \in Nat
  BY DEF PeerOK, FlowPeer
<1>3. start.sent = p.sent
  BY <1>2 DEF FlowPeer
<1> HIDE DEF n, start
<1>4. ASSUME NEW k \in 1 .. n
      PROVE  \E d \in FlowCommand :
               /\ f[k].sent = Append(f[k - 1].sent, d)
               /\ p.outgoing[k].roundTripTimeout # 0 => d.first = p.outgoing[k].first
  <2>1. k - 1 \in 0 .. n
    BY <1>2
  <2>2. p.outgoing[k] \in FlowCommand
        /\ (p.outgoing[k].roundTripTimeout # 0 => UnderWay(p.outgoing[k], t))
    BY <1>2 DEF PeerOK, n
  <2> QED
    <3>1. PeerOK(f[k - 1], t) /\ f[k] = SendCommand(f[k - 1], p.outgoing[k], t)
      BY <1>1, <2>1
    <3> DEFINE c == p.outgoing[k]
               q == f[k - 1]
    <3>3. c \in FlowCommand /\ (c.roundTripTimeout # 0 => UnderWay(c, t)) /\ PeerOK(q, t)
      BY <2>2, <3>1
    <3> HIDE DEF c, q
    <3>2. \E d \in FlowCommand :
            /\ SendCommand(q, c, t).sent = Append(q.sent, d)
            /\ c.roundTripTimeout # 0 => d.first = c.first
      BY <3>3, SendCommandAppends
    <3> QED
      BY <3>1, <3>2 DEF c, q
<1>5. ASSUME NEW k \in 0 .. n PROVE f[k].sent \in Seq(FlowCommand)
  BY <1>1 DEF PeerOK, FlowPeer
<1> DEFINE Done(k) ==
             /\ \A x \in Nat : SentBy(p, x) => SentBy(f[k], x)
             /\ \A x \in Nat : \A j \in 1 .. k :
                  p.outgoing[j].roundTripTimeout # 0 /\ p.outgoing[j].first <= x
                    => SentBy(f[k], x)
             /\ p.sent # <<>> \/ k > 0 => f[k].sent # <<>>
           T == {k \in Nat : k <= n => Done(k)}
<1>6. 0 \in T
  BY <1>1, <1>3 DEF SentBy
<1>7. ASSUME NEW k \in T, k < n PROVE k + 1 \in T
  <2>1. k \in 0 .. n /\ k + 1 \in 1 .. n /\ (k + 1) - 1 = k /\ Done(k)
    BY <1>2, <1>7
  <2> HIDE DEF Done
  <2>2. PICK d \in FlowCommand :
          /\ f[k + 1].sent = Append(f[k].sent, d)
          /\ p.outgoing[k + 1].roundTripTimeout # 0 => d.first = p.outgoing[k + 1].first
    BY <1>4, <2>1
  <2> DEFINE was == f[k].sent
             is == f[k + 1].sent
  <2>3. /\ was \in Seq(FlowCommand) /\ Len(is) = Len(was) + 1
        /\ is[Len(was) + 1] = d /\ \A j \in DOMAIN was : j \in DOMAIN is /\ is[j] = was[j]
        /\ Len(was) + 1 \in DOMAIN is
    BY <1>5, <2>1, <2>2
  <2>4. \A x \in Nat : SentBy(f[k], x) => SentBy(f[k + 1], x)
    BY <2>3 DEF SentBy
  <2>5. \A x \in Nat : d.first <= x => SentBy(f[k + 1], x)
    BY <2>3 DEF SentBy
  <2>6. is # <<>>
    BY <2>3
  <2> HIDE DEF is, was
  <2>7. ASSUME NEW x \in Nat, NEW j \in 1 .. k + 1,
               p.outgoing[j].roundTripTimeout # 0, p.outgoing[j].first <= x
        PROVE  SentBy(f[k + 1], x)
    <3>1. CASE j = k + 1
      BY <2>2, <2>5, <2>7, <3>1
    <3>2. CASE j \in 1 .. k
      BY <2>1, <2>4, <2>7, <3>2 DEF Done
    <3> QED
      BY <3>1, <3>2
  <2> QED
    BY <2>1, <2>4, <2>6, <2>7 DEF Done, is
<1>8. T \subseteq Nat
  OBVIOUS
<1> HIDE DEF T
<1>9. Done(n)
  <2>1. 0 .. n \subseteq T
    BY <1>2, <1>6, <1>7, <1>8, Upwards
  <2> QED
    BY <1>2, <2>1 DEF T
<1>10. \A x \in Nat : WaitingBy(p, x) => SentBy(f[n], x)
  <2>1. DOMAIN p.outgoing = 1 .. n
    BY <1>2 DEF n
  <2> QED
    BY <1>9, <2>1 DEF WaitingBy, AgainBy
<1>11. p.outgoing # <<>> => n > 0
  BY <1>2 DEF n
<1>12. n \in 0 .. n
  BY <1>2
<1> QED
  BY <1>1, <1>9, <1>10, <1>11, <1>12

-----------------------------------------------------------------------------
(* Timeouts *)

WalkState == [earliest : Nat, kept : Seq(FlowCommand), again : Seq(FlowCommand),
              givenUp : BOOLEAN]

\* The record of earlier timeouts goes back to a command that still waits.
Accounted(p) == p.earliestTimeout = 0 \/ WaitingBy(p, p.earliestTimeout)

\* A command waits that was first sent long enough ago to give the peer up.
WaitedLong(p, t) == \E x \in Nat : WaitingBy(p, x) /\ t - x >= TimeoutMinimum

\* The walk through what p has sent, at any place of it.
WalkOK(w, p, t) ==
  /\ w \in WalkState
  /\ \A k \in DOMAIN w.kept : UnderWay(w.kept[k], t)
  /\ \A k \in DOMAIN w.again : UnderWay(w.again[k], t)
  /\ w.earliest = 0 \/ WaitingBy(p, w.earliest)
  /\ w.givenUp => WaitedLong(p, t)

\* Some command the walk has passed was first sent at x or before.
PassedBy(w, x) ==
  \/ \E k \in DOMAIN w.kept : w.kept[k].first <= x
  \/ \E k \in DOMAIN w.again : w.again[k].first <= x

\* What sending again does to a command.
LEMMA AgainKeeps ==
  ASSUME NEW t \in Nat, NEW c \in FlowCommand, UnderWay(c, t)
  PROVE  Again(c) \in FlowCommand /\ UnderWay(Again(c), t) /\ Again(c).first = c.first
<1>1. c.roundTripTimeout \in Nat /\ 2 * c.roundTripTimeout \in Nat
      /\ 2 * c.roundTripTimeout # 0
  BY DEF FlowCommand, UnderWay
<1> DEFINE twice == 2 * c.roundTripTimeout
           d == [c EXCEPT !.roundTripTimeout = twice]
<1>2. Again(c) = d
  BY DEF Again
<1> HIDE DEF twice
<1>3. d \in FlowCommand /\ d.first = c.first /\ d.sentTime = c.sentTime
      /\ d.roundTripTimeout = twice
  BY <1>1 DEF FlowCommand, twice
<1> HIDE DEF d
<1> QED
  BY <1>1, <1>2, <1>3 DEF UnderWay, twice

\* One step of the walk: the command passes, or ends the walk.
LEMMA LookKeeps ==
  ASSUME NEW t \in Nat, NEW p, PeerOK(p, t), NEW k \in DOMAIN p.sent,
         NEW w, WalkOK(w, p, t)
  PROVE  /\ WalkOK(Look(w, p.sent[k], t), p, t)
         /\ ~ Look(w, p.sent[k], t).givenUp =>
              /\ ~ w.givenUp
              /\ \A x \in Nat : PassedBy(w, x) => PassedBy(Look(w, p.sent[k], t), x)
              /\ \A x \in Nat : p.sent[k].first <= x => PassedBy(Look(w, p.sent[k], t), x)
<1> DEFINE c == p.sent[k]
           earliest == Earlier(w.earliest, c)
           v == Look(w, c, t)
<1>1. c \in FlowCommand /\ UnderWay(c, t) /\ SentBy(p, c.sentTime)
  <2>1. p.sent \in Seq(FlowCommand)
    BY DEF PeerOK, FlowPeer
  <2> QED
    BY <2>1 DEF PeerOK, SentBy, UnderWay
<1>2. /\ w \in WalkState /\ w.earliest \in Nat /\ w.kept \in Seq(FlowCommand)
      /\ w.again \in Seq(FlowCommand) /\ w.givenUp \in BOOLEAN
  BY DEF WalkOK, WalkState
<1>3. earliest \in Nat /\ WaitingBy(p, earliest)
  <2>1. c.sentTime \in Nat /\ WaitingBy(p, c.sentTime)
    BY <1>1 DEF FlowCommand, WaitingBy
  <2>2. w.earliest = 0 \/ WaitingBy(p, w.earliest)
    BY DEF WalkOK
  <2> QED
    BY <1>2, <2>1, <2>2 DEF Earlier
<1> HIDE DEF c, earliest
<1>4. CASE w.givenUp
  <2>1. v = w
    BY <1>4 DEF Look
  <2> QED
    BY <1>4, <2>1 DEF c
<1>5. CASE ~ w.givenUp /\ ~ Expired(c, t)
  <2>1. v = [w EXCEPT !.kept = Append(@, c)]
    BY <1>5 DEF Look
  <2> HIDE DEF v
  <2>2. Append(w.kept, c) \in Seq(FlowCommand)
    BY <1>1, <1>2
  <2>3. /\ v \in WalkState /\ v.kept = Append(w.kept, c) /\ v.again = w.again
        /\ v.earliest = w.earliest /\ v.givenUp = w.givenUp
    BY <1>2, <2>1, <2>2 DEF WalkState
  <2>4. /\ \A j \in DOMAIN w.kept : j \in DOMAIN v.kept /\ v.kept[j] = w.kept[j]
        /\ Len(w.kept) + 1 \in DOMAIN v.kept /\ v.kept[Len(w.kept) + 1] = c
    BY <1>1, <1>2, <2>3
  <2>5. ASSUME NEW j \in DOMAIN v.kept PROVE UnderWay(v.kept[j], t)
    <3>1. j \in DOMAIN w.kept \/ j = Len(w.kept) + 1
      BY <1>1, <1>2, <2>3
    <3> QED
      BY <1>1, <2>4, <3>1 DEF WalkOK
  <2>6. WalkOK(v, p, t)
    BY <2>3, <2>5 DEF WalkOK
  <2>7. \A x \in Nat : PassedBy(w, x) => PassedBy(v, x)
    BY <2>3, <2>4 DEF PassedBy
  <2>8. \A x \in Nat : c.first <= x => PassedBy(v, x)
    BY <2>4 DEF PassedBy
  <2> QED
    BY <1>5, <2>6, <2>7, <2>8 DEF c, v
<1>6. CASE ~ w.givenUp /\ Expired(c, t) /\ GiveUp(c, t - earliest)
  <2>1. v = [w EXCEPT !.givenUp = TRUE]
    BY <1>6 DEF Look, earliest
  <2> HIDE DEF v
  <2>2. /\ v \in WalkState /\ v.kept = w.kept /\ v.again = w.again
        /\ v.earliest = w.earliest /\ v.givenUp
    BY <1>2, <2>1 DEF WalkState
  <2>3. t - earliest >= TimeoutMinimum
    <3>1. /\ TimeoutMinimum \in Nat /\ TimeoutMaximum \in Nat
          /\ TimeoutMinimum <= TimeoutMaximum
      BY FlowAssumption
    <3>2. t - earliest \in Int
      BY <1>3
    <3> QED
      BY <1>6, <3>1, <3>2 DEF GiveUp
  <2>4. WaitedLong(p, t)
    BY <1>3, <2>3 DEF WaitedLong
  <2> QED
    BY <2>2, <2>4 DEF WalkOK, c, v
<1>7. CASE ~ w.givenUp /\ Expired(c, t) /\ ~ GiveUp(c, t - earliest)
  <2>1. v = [w EXCEPT !.earliest = earliest, !.again = Append(@, Again(c))]
    BY <1>7 DEF Look, earliest
  <2> HIDE DEF v
  <2> DEFINE d == Again(c)
  <2>2. d \in FlowCommand /\ UnderWay(d, t) /\ d.first = c.first
    BY <1>1, AgainKeeps
  <2> HIDE DEF d
  <2>3. Append(w.again, d) \in Seq(FlowCommand)
    BY <1>2, <2>2
  <2>4. /\ v \in WalkState /\ v.kept = w.kept /\ v.again = Append(w.again, d)
        /\ v.earliest = earliest /\ v.givenUp = w.givenUp
    BY <1>2, <1>3, <2>1, <2>3 DEF WalkState, d
  <2>5. /\ \A j \in DOMAIN w.again : j \in DOMAIN v.again /\ v.again[j] = w.again[j]
        /\ Len(w.again) + 1 \in DOMAIN v.again /\ v.again[Len(w.again) + 1] = d
    BY <1>2, <2>2, <2>4
  <2>6. ASSUME NEW j \in DOMAIN v.again PROVE UnderWay(v.again[j], t)
    <3>1. j \in DOMAIN w.again \/ j = Len(w.again) + 1
      BY <1>2, <2>2, <2>4
    <3> QED
      BY <2>2, <2>5, <3>1 DEF WalkOK
  <2>7. WalkOK(v, p, t)
    BY <1>3, <1>7, <2>4, <2>6 DEF WalkOK
  <2>8. \A x \in Nat : PassedBy(w, x) => PassedBy(v, x)
    BY <2>4, <2>5 DEF PassedBy
  <2>9. \A x \in Nat : c.first <= x => PassedBy(v, x)
    BY <2>2, <2>5 DEF PassedBy
  <2> QED
    BY <1>7, <2>7, <2>8, <2>9 DEF c, v
<1> QED
  BY <1>4, <1>5, <1>6, <1>7

\* The whole walk: nothing that was sent is lost on the way.
LEMMA WalkKeeps ==
  ASSUME NEW t \in Nat, NEW p, PeerOK(p, t), Accounted(p)
  PROVE  /\ WalkOK(Walk(p, t), p, t)
         /\ ~ Walk(p, t).givenUp => \A x \in Nat : SentBy(p, x) => PassedBy(Walk(p, t), x)
<1> DEFINE n == Len(p.sent)
           X == {w \in WalkState : WalkOK(w, p, t)}
           start == [earliest |-> p.earliestTimeout, kept |-> <<>>, again |-> <<>>,
                     givenUp |-> FALSE]
           Looking(f) == f = [k \in 0 .. n |-> IF k = 0 THEN start
                                               ELSE Look(f[k - 1], p.sent[k], t)]
           table == [z \in X \X (1 .. n) |-> Look(z[1], p.sent[z[2]], t)]
<1>1. p \in FlowPeer /\ p.sent \in Seq(FlowCommand) /\ n \in Nat /\ DOMAIN p.sent = 1 .. n
  BY DEF PeerOK, FlowPeer
<1>2. start \in X
  <2>1. p.earliestTimeout \in Nat /\ <<>> \in Seq(FlowCommand)
    BY <1>1 DEF FlowPeer
  <2>2. /\ start \in WalkState /\ start.kept = <<>> /\ start.again = <<>>
        /\ start.earliest = p.earliestTimeout /\ ~ start.givenUp
    BY <2>1 DEF WalkState
  <2> HIDE DEF start
  <2> QED
    BY <2>2 DEF WalkOK, Accounted
<1>3. ASSUME NEW w \in X, NEW k \in 1 .. n PROVE Look(w, p.sent[k], t) \in X
  <2>1. WalkOK(Look(w, p.sent[k], t), p, t)
    BY <1>1, LookKeeps
  <2> QED
    BY <2>1 DEF WalkOK
<1> HIDE DEF n, start, X
<1>4. table \in Tables(X, n)
  BY <1>3 DEF Tables
<1> HIDE DEF table
<1>5. PICK g \in [0 .. n -> X] :
        g[0] = start /\ \A k \in 1 .. n : g[k] = table[<<g[k - 1], k>>]
  <2>1. PICK g : IsWalk(g, X, start, n, table)
    BY <1>1, <1>2, <1>4, WalkExists
  <2> QED
    BY <2>1 DEF IsWalk
<1>6. ASSUME NEW k \in 1 .. n PROVE g[k] = Look(g[k - 1], p.sent[k], t)
  <2>1. k - 1 \in 0 .. n
    BY <1>1
  <2>2. <<g[k - 1], k>> \in X \X (1 .. n)
    BY <2>1
  <2> QED
    BY <1>5, <2>2 DEF table
<1>7. \E f : Looking(f)
  <2>1. ASSUME NEW k \in 0 .. n
        PROVE  g[k] = IF k = 0 THEN start ELSE Look(g[k - 1], p.sent[k], t)
    BY <1>5, <1>6
  <2> QED
    BY <2>1
<1> DEFINE f == CHOOSE h : Looking(h)
<1>8. Looking(f)
  BY <1>7
<1>9. Walk(p, t) = f[n]
  BY DEF Walk, n, start
<1> HIDE DEF f
<1>10. f[0] = start /\ \A k \in 1 .. n : f[k] = Look(f[k - 1], p.sent[k], t)
  <2>1. 0 \in 0 .. n /\ \A k \in 1 .. n : k \in 0 .. n /\ k # 0
    BY <1>1
  <2> QED
    BY <1>8, <2>1
<1> DEFINE Passed(k) == ~ f[k].givenUp =>
             \A x \in Nat : \A j \in 1 .. k : p.sent[j].first <= x => PassedBy(f[k], x)
           T == {k \in Nat : k <= n => WalkOK(f[k], p, t) /\ Passed(k)}
<1>11. 0 \in T
  BY <1>2, <1>10 DEF X
<1>12. ASSUME NEW k \in T, k < n PROVE k + 1 \in T
  <2>1. /\ k + 1 \in DOMAIN p.sent /\ k + 1 \in 1 .. n /\ (k + 1) - 1 = k
        /\ WalkOK(f[k], p, t) /\ Passed(k)
    BY <1>1, <1>12
  <2> HIDE DEF Passed
  <2> DEFINE w == f[k]
             v == f[k + 1]
  <2>2. v = Look(w, p.sent[k + 1], t) /\ WalkOK(w, p, t)
    BY <1>10, <2>1
  <2> HIDE DEF v, w
  <2>3. /\ WalkOK(v, p, t)
        /\ ~ v.givenUp => /\ ~ w.givenUp
                          /\ \A x \in Nat : PassedBy(w, x) => PassedBy(v, x)
                          /\ \A x \in Nat : p.sent[k + 1].first <= x => PassedBy(v, x)
    BY <2>1, <2>2, LookKeeps
  <2>4. ASSUME ~ v.givenUp, NEW x \in Nat, NEW j \in 1 .. k + 1, p.sent[j].first <= x
        PROVE  PassedBy(v, x)
    <3>1. CASE j = k + 1
      BY <2>3, <2>4, <3>1
    <3>2. CASE j \in 1 .. k
      BY <2>1, <2>3, <2>4, <3>2 DEF Passed, w
    <3> QED
      BY <3>1, <3>2
  <2> QED
    BY <2>1, <2>3, <2>4 DEF Passed, v
<1>13. T \subseteq Nat
  OBVIOUS
<1> HIDE DEF T
<1>14. WalkOK(f[n], p, t) /\ Passed(n)
  <2>1. 0 .. n \subseteq T
    BY <1>1, <1>11, <1>12, <1>13, Upwards
  <2> QED
    BY <1>1, <2>1 DEF T
<1> QED
  BY <1>1, <1>9, <1>14 DEF SentBy

\* Two lists in a row.
LEMMA OneAfterTheOther ==
  ASSUME NEW S, NEW a \in Seq(S), NEW b \in Seq(S)
  PROVE  /\ a \o b \in Seq(S)
         /\ \A k \in DOMAIN a : k \in DOMAIN (a \o b) /\ (a \o b)[k] = a[k]
         /\ \A k \in DOMAIN b :
              Len(a) + k \in DOMAIN (a \o b) /\ (a \o b)[Len(a) + k] = b[k]
         /\ \A k \in DOMAIN (a \o b) :
              \/ k \in DOMAIN a
              \/ k - Len(a) \in DOMAIN b /\ (a \o b)[k] = b[k - Len(a)]
<1>1. a \o b \in Seq(S) /\ Len(a \o b) = Len(a) + Len(b)
  OBVIOUS
<1>2. /\ DOMAIN a = 1 .. Len(a) /\ DOMAIN b = 1 .. Len(b) /\ Len(a) \in Nat /\ Len(b) \in Nat
      /\ DOMAIN (a \o b) = 1 .. Len(a) + Len(b)
  BY <1>1
<1>3. \A k \in 1 .. Len(a) + Len(b) :
        (a \o b)[k] = IF k <= Len(a) THEN a[k] ELSE b[k - Len(a)]
  OBVIOUS
<1> QED
  BY <1>1, <1>2, <1>3

\* The check for timeouts loses nothing, and gives up with cause.
LEMMA CheckTimeoutsKeeps ==
  ASSUME NEW t \in Nat, NEW p, PeerOK(p, t), Accounted(p), p.connected
  PROVE  \/ /\ ~ CheckTimeouts(p, t).connected
            /\ PeerOK(CheckTimeouts(p, t), t) /\ WaitedLong(CheckTimeouts(p, t), t)
         \/ /\ CheckTimeouts(p, t).connected
            /\ PeerOK(CheckTimeouts(p, t), t) /\ Accounted(CheckTimeouts(p, t))
            /\ CheckTimeouts(p, t).lastReceiveTime = p.lastReceiveTime
<1> DEFINE w == Walk(p, t)
           front == Head(w.kept)
           q == CheckTimeouts(p, t)
<1>1. /\ WalkOK(w, p, t)
      /\ ~ w.givenUp => \A x \in Nat : SentBy(p, x) => PassedBy(w, x)
  BY WalkKeeps
<1>2. p \in FlowPeer /\ p.outgoing \in Seq(FlowCommand)
  BY DEF PeerOK, FlowPeer
<1>3. CASE w.givenUp
  <2>1. q = [p EXCEPT !.connected = FALSE]
    BY <1>3 DEF CheckTimeouts
  <2> HIDE DEF q
  <2>2. q \in FlowPeer /\ q.sent = p.sent /\ q.outgoing = p.outgoing /\ ~ q.connected
    BY <1>2, <2>1 DEF FlowPeer
  <2>3. PeerOK(q, t)
    BY <2>2 DEF PeerOK
  <2>4. WaitedLong(p, t)
    BY <1>1, <1>3 DEF WalkOK
  <2>5. WaitedLong(q, t)
    BY <2>2, <2>4 DEF WaitedLong, WaitingBy, SentBy, AgainBy
  <2> QED
    BY <2>2, <2>3, <2>5 DEF q
<1>4. CASE ~ w.givenUp
  <2> DEFINE next == IF w.kept # <<>> /\ front # Head(p.sent)
                     THEN front.sentTime + front.roundTripTimeout ELSE p.nextTimeout
             all == w.again \o p.outgoing
  <2>1. q = [p EXCEPT !.earliestTimeout = w.earliest, !.sent = w.kept,
                      !.outgoing = all, !.nextTimeout = next]
    BY <1>4 DEF CheckTimeouts
  <2>2. /\ w.earliest \in Nat /\ w.kept \in Seq(FlowCommand) /\ w.again \in Seq(FlowCommand)
        /\ \A k \in DOMAIN w.kept : UnderWay(w.kept[k], t)
        /\ \A k \in DOMAIN w.again : UnderWay(w.again[k], t)
        /\ w.earliest = 0 \/ WaitingBy(p, w.earliest)
        /\ \A x \in Nat : SentBy(p, x) => PassedBy(w, x)
    BY <1>1, <1>4 DEF WalkOK, WalkState
  <2> HIDE DEF w, q
  <2>3. next \in Nat
    <3>1. p.nextTimeout \in Nat
      BY <1>2 DEF FlowPeer
    <3>2. CASE w.kept # <<>>
      <4>1. front \in FlowCommand
        BY <2>2, <3>2
      <4> HIDE DEF front
      <4> QED
        BY <3>1, <4>1 DEF FlowCommand
    <3> QED
      BY <3>1, <3>2
  <2> HIDE DEF next
  <2>4. /\ all \in Seq(FlowCommand)
        /\ \A k \in DOMAIN w.again : k \in DOMAIN all /\ all[k] = w.again[k]
        /\ \A k \in DOMAIN p.outgoing :
             Len(w.again) + k \in DOMAIN all /\ all[Len(w.again) + k] = p.outgoing[k]
        /\ \A k \in DOMAIN all :
             \/ k \in DOMAIN w.again
             \/ k - Len(w.again) \in DOMAIN p.outgoing /\ all[k] = p.outgoing[k - Len(w.again)]
    <3> DEFINE a == w.again
               b == p.outgoing
    <3>1. a \in Seq(FlowCommand) /\ b \in Seq(FlowCommand) /\ all = a \o b
      BY <1>2, <2>2
    <3> HIDE DEF a, b, all
    <3>2. /\ all \in Seq(FlowCommand)
          /\ \A k \in DOMAIN a : k \in DOMAIN all /\ all[k] = a[k]
          /\ \A k \in DOMAIN b : Len(a) + k \in DOMAIN all /\ all[Len(a) + k] = b[k]
          /\ \A k \in DOMAIN all :
               \/ k \in DOMAIN a
               \/ k - Len(a) \in DOMAIN b /\ all[k] = b[k - Len(a)]
      BY <3>1, OneAfterTheOther
    <3> QED
      BY <3>2 DEF a, b
  <2> HIDE DEF all
  <2>5. /\ q \in FlowPeer /\ q.sent = w.kept /\ q.outgoing = all /\ q.connected
        /\ q.earliestTimeout = w.earliest /\ q.lastReceiveTime = p.lastReceiveTime
    BY <1>2, <2>1, <2>2, <2>3, <2>4 DEF FlowPeer
  <2>6. ASSUME NEW k \in DOMAIN all, all[k].roundTripTimeout # 0 PROVE UnderWay(all[k], t)
    <3>1. CASE k \in DOMAIN w.again
      BY <2>2, <2>4, <3>1
    <3>2. CASE k - Len(w.again) \in DOMAIN p.outgoing /\ all[k] = p.outgoing[k - Len(w.again)]
      BY <2>6, <3>2 DEF PeerOK
    <3> QED
      BY <2>4, <3>1, <3>2
  <2>7. PeerOK(q, t)
    BY <2>2, <2>5, <2>6 DEF PeerOK
  <2>8. ASSUME NEW x \in Nat, WaitingBy(p, x) PROVE WaitingBy(q, x)
    <3>1. CASE \E k \in DOMAIN w.kept : w.kept[k].first <= x
      BY <2>5, <3>1 DEF WaitingBy, SentBy
    <3>2. CASE \E k \in DOMAIN w.again : w.again[k].first <= x
      <4>1. PICK k \in DOMAIN w.again : w.again[k].first <= x
        BY <3>2
      <4>2. all[k] = w.again[k] /\ k \in DOMAIN all /\ w.again[k].roundTripTimeout # 0
        BY <2>2, <2>4 DEF UnderWay
      <4> QED
        BY <2>5, <4>1, <4>2 DEF WaitingBy, AgainBy
    <3>3. CASE AgainBy(p, x)
      <4>1. PICK k \in DOMAIN p.outgoing :
              p.outgoing[k].roundTripTimeout # 0 /\ p.outgoing[k].first <= x
        BY <3>3 DEF AgainBy
      <4>2. Len(w.again) + k \in DOMAIN all /\ all[Len(w.again) + k] = p.outgoing[k]
        BY <2>4
      <4> QED
        BY <2>5, <4>1, <4>2 DEF WaitingBy, AgainBy
    <3> QED
      BY <2>2, <2>8, <3>1, <3>2, <3>3 DEF WaitingBy, PassedBy
  <2>9. Accounted(q)
    BY <2>2, <2>5, <2>8 DEF Accounted
  <2> QED
    BY <2>5, <2>7, <2>9 DEF q
<1> QED
  BY <1>3, <1>4

-----------------------------------------------------------------------------
(* Sending *)

\* A new command waits behind the others.
LEMMA QueueKeeps ==
  ASSUME NEW t \in Nat, NEW p, PeerOK(p, t), Accounted(p)
  PROVE  /\ PeerOK(Queue(p), t) /\ Accounted(Queue(p))
         /\ Queue(p).connected = p.connected /\ Queue(p).outgoing # <<>>
<1> DEFINE q == Queue(p)
           c == Unsent(p.last + 1)
<1>1. p \in FlowPeer /\ p.outgoing \in Seq(FlowCommand) /\ p.last + 1 \in Nat
  BY DEF PeerOK, FlowPeer
<1>2. c \in FlowCommand /\ c.roundTripTimeout = 0
  BY <1>1 DEF Unsent, FlowCommand
<1>3. q = [p EXCEPT !.last = @ + 1, !.outgoing = Append(@, c)]
  BY DEF Queue
<1> HIDE DEF c, q
<1>4. Append(p.outgoing, c) \in Seq(FlowCommand)
  BY <1>1, <1>2
<1>5. /\ q \in FlowPeer /\ q.outgoing = Append(p.outgoing, c) /\ q.sent = p.sent
      /\ q.connected = p.connected /\ q.earliestTimeout = p.earliestTimeout
  BY <1>1, <1>3, <1>4 DEF FlowPeer
<1>6. /\ \A k \in DOMAIN p.outgoing : k \in DOMAIN q.outgoing /\ q.outgoing[k] = p.outgoing[k]
      /\ \A k \in DOMAIN q.outgoing : k \in DOMAIN p.outgoing \/ q.outgoing[k] = c
      /\ q.outgoing # <<>>
  <2> DEFINE a == p.outgoing
             b == q.outgoing
  <2>1. a \in Seq(FlowCommand) /\ c \in FlowCommand /\ b = Append(a, c)
    BY <1>1, <1>2, <1>5
  <2> HIDE DEF a, b
  <2>2. /\ \A k \in DOMAIN a : k \in DOMAIN b /\ b[k] = a[k]
        /\ \A k \in DOMAIN b : k \in DOMAIN a \/ b[k] = c
        /\ b # <<>>
    BY <2>1
  <2> QED
    BY <2>2 DEF a, b
<1>7. PeerOK(q, t)
  BY <1>2, <1>5, <1>6 DEF PeerOK
<1>8. \A x \in Nat : WaitingBy(p, x) => WaitingBy(q, x)
  BY <1>5, <1>6 DEF WaitingBy, SentBy, AgainBy
<1>9. Accounted(q)
  BY <1>1, <1>5, <1>8 DEF Accounted, FlowPeer
<1> QED
  BY <1>5, <1>6, <1>7, <1>9 DEF q

\* Everything that waited is sent, and the record of timeouts still goes back to it.
LEMMA SendReliableAccounts ==
  ASSUME NEW t \in Nat, NEW p, PeerOK(p, t), Accounted(p)
  PROVE  Accounted(SendReliable(p, t))
<1>1. /\ SendReliable(p, t).earliestTimeout = p.earliestTimeout
      /\ \A x \in Nat : WaitingBy(p, x) => WaitingBy(SendReliable(p, t), x)
  BY SendReliableKeeps DEF SameButSent, WaitingBy
<1>2. p.earliestTimeout \in Nat
  BY DEF PeerOK, FlowPeer
<1> QED
  BY <1>1, <1>2 DEF Accounted

\* What a round of sending leaves: a peer that was given up with cause, or one
\* that is still connected, with everything sent, and that was heard within
\* the interval or has something to answer.
RoundDone(q, t) ==
  /\ PeerOK(q, t)
  /\ q.connected => /\ Accounted(q) /\ q.outgoing = <<>>
                    /\ q.sent = <<>> => t - q.lastReceiveTime < PingInterval
  /\ ~ q.connected => WaitedLong(q, t)

LEMMA SendOutgoingKeeps ==
  ASSUME NEW t \in Nat, NEW p, PeerOK(p, t), Accounted(p), p.connected,
         NEW check \in BOOLEAN
  PROVE  RoundDone(SendOutgoing(p, t, check), t)
<1> DEFINE checked == IF check /\ p.sent # <<>> /\ t >= p.nextTimeout
                      THEN CheckTimeouts(p, t) ELSE p
           q == SendOutgoing(p, t, check)
<1>1. \/ ~ checked.connected /\ PeerOK(checked, t) /\ WaitedLong(checked, t)
      \/ checked.connected /\ PeerOK(checked, t) /\ Accounted(checked)
  BY CheckTimeoutsKeeps
<1>2. /\ ~ checked.connected => q = checked
      /\ checked.connected /\ PingDue(checked, t) => q = SendReliable(Queue(checked), t)
      /\ checked.connected /\ ~ PingDue(checked, t) => q = SendReliable(checked, t)
  BY DEF SendOutgoing
<1> HIDE DEF checked, q
<1>3. CASE ~ checked.connected
  BY <1>1, <1>2, <1>3 DEF RoundDone, q
<1>4. CASE checked.connected /\ PingDue(checked, t)
  <2> DEFINE r == Queue(checked)
  <2>1. PeerOK(r, t) /\ Accounted(r) /\ r.connected = checked.connected /\ r.outgoing # <<>>
    BY <1>1, <1>4, QueueKeeps
  <2>2. q = SendReliable(r, t)
    BY <1>2, <1>4
  <2> HIDE DEF r
  <2>3. /\ PeerOK(q, t) /\ q.outgoing = <<>> /\ SameButSent(r, q) /\ q.sent # <<>>
        /\ Accounted(q)
    BY <2>1, <2>2, SendReliableKeeps, SendReliableAccounts
  <2>4. q.connected
    BY <1>4, <2>1, <2>3 DEF SameButSent
  <2> QED
    BY <2>3, <2>4 DEF RoundDone, q
<1>5. CASE checked.connected /\ ~ PingDue(checked, t)
  <2>1. q = SendReliable(checked, t) /\ PeerOK(checked, t) /\ Accounted(checked)
    BY <1>1, <1>2, <1>5
  <2>2. /\ PeerOK(q, t) /\ q.outgoing = <<>> /\ SameButSent(checked, q) /\ Accounted(q)
        /\ checked.sent # <<>> \/ checked.outgoing # <<>> => q.sent # <<>>
    BY <2>1, SendReliableKeeps, SendReliableAccounts
  <2>3. q.connected /\ q.lastReceiveTime = checked.lastReceiveTime
    BY <1>5, <2>2 DEF SameButSent
  <2>4. q.sent = <<>> => t - q.lastReceiveTime < PingInterval
    <3>1. q.sent = <<>> => ~ (t - checked.lastReceiveTime >= PingInterval)
      BY <1>5, <2>2 DEF PingDue
    <3>2. checked.lastReceiveTime \in Nat
      BY <2>1 DEF PeerOK, FlowPeer
    <3>3. PingInterval \in Nat
      BY FlowAssumption
    <3> QED
      BY <2>3, <3>1, <3>2, <3>3
  <2> QED
    BY <2>2, <2>3, <2>4 DEF RoundDone, q
<1> QED
  BY <1>3, <1>4, <1>5 DEF q

-----------------------------------------------------------------------------
(* Answers *)

\* What was in order stays so as time goes by.
LEMMA LaterToo ==
  ASSUME NEW t \in Nat, NEW u \in Nat, t <= u, NEW p, PeerOK(p, t)
  PROVE  PeerOK(p, u)
<1>1. p.sent \in Seq(FlowCommand) /\ p.outgoing \in Seq(FlowCommand)
  BY DEF PeerOK, FlowPeer
<1>2. ASSUME NEW c \in FlowCommand, UnderWay(c, t) PROVE UnderWay(c, u)
  BY <1>2 DEF UnderWay, FlowCommand
<1>3. /\ \A k \in DOMAIN p.sent : p.sent[k] \in FlowCommand
      /\ \A k \in DOMAIN p.outgoing : p.outgoing[k] \in FlowCommand
  BY <1>1
<1> QED
  BY <1>2, <1>3 DEF PeerOK

\* A part of a way, rounded down, is no longer than the way, and shorter than
\* a way that is not nothing.
LEMMA PartOfTheWay ==
  ASSUME NEW way \in Nat, NEW part \in Nat, part > 1
  PROVE  way \div part \in Nat /\ way \div part <= way /\ (way # 0 => way \div part < way)
<1>1. PICK q \in Nat, r \in 0 .. part - 1 :
        q = way \div part /\ way = q * part + r
  BY Laps
<1>2. q * part >= 2 * q
  BY Z3
<1> QED
  BY <1>1, <1>2

\* The estimate of the round trip time never falls to zero, whatever is measured.
LEMMA EstimateKeeps ==
  ASSUME NEW t \in Nat, NEW p, PeerOK(p, t), NEW rtt \in Nat
  PROVE  /\ PeerOK(Estimate(p, rtt), t)
         /\ Estimate(p, rtt).earliestTimeout = p.earliestTimeout
         /\ Estimate(p, rtt).connected = p.connected
<1> DEFINE was == p.roundTripTime
           mean == Approach(was, rtt, 8)
           far == p.roundTripTimeVariance - p.roundTripTimeVariance \div 4
                    + Gap(rtt, mean) \div 4
           q == Estimate(p, rtt)
<1>1. p \in FlowPeer /\ was \in Nat \ {0} /\ p.roundTripTimeVariance \in Nat
  BY DEF PeerOK, FlowPeer
<1>2. mean \in Nat \ {0}
  <2>1. CASE rtt >= was
    <3>1. rtt - was \in Nat
      BY <1>1, <2>1
    <3>2. (rtt - was) \div 8 \in Nat
      BY <3>1, PartOfTheWay
    <3> QED
      BY <1>1, <2>1, <3>2 DEF Approach
  <2>2. CASE ~ (rtt >= was)
    <3>1. was - rtt \in Nat /\ was - rtt # 0
      BY <1>1, <2>2
    <3>2. (was - rtt) \div 8 \in Nat /\ (was - rtt) \div 8 < was - rtt
      BY <3>1, PartOfTheWay
    <3> QED
      BY <1>1, <2>2, <3>1, <3>2 DEF Approach
  <2> QED
    BY <2>1, <2>2
<1>3. far \in Nat
  <2>1. Gap(rtt, mean) \in Nat
    <3> HIDE DEF mean
    <3> QED
      BY <1>2 DEF Gap
  <2>2. Gap(rtt, mean) \div 4 \in Nat
    BY <2>1, PartOfTheWay
  <2>3. /\ p.roundTripTimeVariance \div 4 \in Nat
        /\ p.roundTripTimeVariance \div 4 <= p.roundTripTimeVariance
    BY <1>1, PartOfTheWay
  <2> QED
    BY <1>1, <2>2, <2>3
<1>4. q = [p EXCEPT !.roundTripTime = mean, !.roundTripTimeVariance = far]
  BY DEF Estimate
<1> HIDE DEF q, mean, far
<1>5. /\ q \in FlowPeer /\ q.sent = p.sent /\ q.outgoing = p.outgoing
      /\ q.earliestTimeout = p.earliestTimeout /\ q.connected = p.connected
  BY <1>1, <1>2, <1>3, <1>4 DEF FlowPeer
<1> QED
  BY <1>5 DEF PeerOK, q

LEMMA HeardKeeps ==
  ASSUME NEW t \in Nat, NEW p, PeerOK(p, t)
  PROVE  /\ PeerOK(Heard(p, t), t) /\ Heard(p, t).earliestTimeout = 0
         /\ Heard(p, t).connected = p.connected
<1> DEFINE q == Heard(p, t)
<1>1. p \in FlowPeer
  BY DEF PeerOK
<1>2. q = [p EXCEPT !.lastReceiveTime = t, !.earliestTimeout = 0]
  BY DEF Heard
<1> HIDE DEF q
<1>3. /\ q \in FlowPeer /\ q.sent = p.sent /\ q.outgoing = p.outgoing
      /\ q.earliestTimeout = 0 /\ q.connected = p.connected
  BY <1>1, <1>2 DEF FlowPeer
<1> QED
  BY <1>3 DEF PeerOK, q

\* What is answered is taken out; of the others nothing changes.
LEMMA OthersRemain ==
  ASSUME NEW list \in Seq(FlowCommand), NEW n
  PROVE  /\ Others(list, n) \in Seq(FlowCommand)
         /\ \A k \in DOMAIN Others(list, n) : \E j \in DOMAIN list : Others(list, n)[k] = list[j]
<1>1. CASE \A k \in DOMAIN list : list[k].number # n
  BY <1>1 DEF Others
<1>2. CASE ~ \A k \in DOMAIN list : list[k].number # n
  <2> DEFINE i == CHOOSE k \in DOMAIN list : list[k].number = n
             rest == RemoveAt(list, i)
  <2>1. i \in DOMAIN list
    BY <1>2
  <2>2. Others(list, n) = rest
    BY <1>2 DEF Others
  <2> HIDE DEF i
  <2>3. rest = SubSeq(list, 1, i - 1) \o SubSeq(list, i + 1, Len(list))
    BY DEF RemoveAt
  <2> DEFINE a == SubSeq(list, 1, i - 1)
             b == SubSeq(list, i + 1, Len(list))
  <2>4. /\ a \in Seq(FlowCommand) /\ b \in Seq(FlowCommand)
        /\ \A k \in DOMAIN a : k \in DOMAIN list /\ a[k] = list[k]
        /\ \A k \in DOMAIN b : i + k \in DOMAIN list /\ b[k] = list[i + k]
    BY <2>1
  <2> HIDE DEF a, b, rest
  <2>5. /\ rest \in Seq(FlowCommand)
        /\ \A k \in DOMAIN rest :
             (k \in DOMAIN a /\ rest[k] = a[k]) \/ \E j \in DOMAIN b : rest[k] = b[j]
    <3>1. rest = a \o b
      BY <2>3 DEF a, b
    <3> QED
      BY <2>4, <3>1, OneAfterTheOther
  <2> QED
    BY <2>2, <2>4, <2>5
<1> QED
  BY <1>1, <1>2

\* The answered command is forgotten; the others wait as before.
LEMMA AnsweredKeeps ==
  ASSUME NEW t \in Nat, NEW p, PeerOK(p, t), NEW n
  PROVE  /\ PeerOK(Answered(p, n), t)
         /\ Answered(p, n).earliestTimeout = p.earliestTimeout
         /\ Answered(p, n).connected = p.connected
<1> DEFINE sent == Others(p.sent, n)
           out == IF sent = p.sent THEN Others(p.outgoing, n) ELSE p.outgoing
           next == IF sent = <<>> THEN p.nextTimeout
                   ELSE Head(sent).sentTime + Head(sent).roundTripTimeout
           q == Answered(p, n)
<1>1. p \in FlowPeer /\ p.sent \in Seq(FlowCommand) /\ p.outgoing \in Seq(FlowCommand)
      /\ p.nextTimeout \in Nat
  BY DEF PeerOK, FlowPeer
<1>2. /\ sent \in Seq(FlowCommand)
      /\ \A k \in DOMAIN sent : \E j \in DOMAIN p.sent : sent[k] = p.sent[j]
  BY <1>1, OthersRemain
<1>3. /\ Others(p.outgoing, n) \in Seq(FlowCommand)
      /\ \A k \in DOMAIN Others(p.outgoing, n) :
           \E j \in DOMAIN p.outgoing : Others(p.outgoing, n)[k] = p.outgoing[j]
  BY <1>1, OthersRemain
<1>4. \/ q = p
      \/ q = [p EXCEPT !.sent = sent, !.outgoing = out, !.nextTimeout = next]
  BY DEF Answered
<1>0. CASE q = p
  BY <1>0
<1> HIDE DEF sent, q
<1>5. next \in Nat
  <2>1. CASE sent # <<>>
    <3>1. Head(sent) \in FlowCommand
      BY <1>2, <2>1
    <3> DEFINE c == Head(sent)
    <3>2. c \in FlowCommand
      BY <3>1
    <3>3. next = c.sentTime + c.roundTripTimeout
      BY <2>1
    <3> HIDE DEF c
    <3> QED
      BY <3>2, <3>3 DEF FlowCommand
  <2> QED
    BY <1>1, <2>1
<1>6. /\ out \in Seq(FlowCommand)
      /\ \A k \in DOMAIN out : \E j \in DOMAIN p.outgoing : out[k] = p.outgoing[j]
  BY <1>1, <1>3
<1> HIDE DEF out, next
<1>7. CASE q = [p EXCEPT !.sent = sent, !.outgoing = out, !.nextTimeout = next]
  <2>1. /\ q \in FlowPeer /\ q.sent = sent /\ q.outgoing = out
        /\ q.earliestTimeout = p.earliestTimeout /\ q.connected = p.connected
    BY <1>1, <1>2, <1>5, <1>6, <1>7 DEF FlowPeer
  <2>2. \A k \in DOMAIN q.sent : UnderWay(q.sent[k], t)
    BY <1>2, <2>1 DEF PeerOK
  <2>3. \A k \in DOMAIN q.outgoing :
          q.outgoing[k].roundTripTimeout # 0 => UnderWay(q.outgoing[k], t)
    BY <1>6, <2>1 DEF PeerOK
  <2>4. PeerOK(q, t)
    BY <2>1, <2>2, <2>3 DEF PeerOK
  <2> QED
    BY <2>1, <2>4 DEF q
<1> QED
  BY <1>0, <1>4, <1>7

\* An answer clears the record of timeouts, or is dropped.
LEMMA AcknowledgeKeeps ==
  ASSUME NEW t \in Nat, NEW p, PeerOK(p, t), Accounted(p), NEW n,
         NEW s \in Nat, s <= t, t - s < Width
  PROVE  /\ PeerOK(Acknowledge(p, n, s % Width, t), t)
         /\ Accounted(Acknowledge(p, n, s % Width, t))
         /\ Acknowledge(p, n, s % Width, t).connected = p.connected
<1> DEFINE found == SentTime(s % Width, t)
           rtt == t - found
           heard == Heard(p, t)
           estimated == Estimate(heard, rtt)
           q == Acknowledge(p, n, s % Width, t)
<1>1. found \in Int
  BY SentTimeRecovered
<1>2. q = IF found > t THEN p ELSE Answered(estimated, n)
  BY DEF Acknowledge
<1>3. PeerOK(heard, t) /\ heard.earliestTimeout = 0 /\ heard.connected = p.connected
  BY HeardKeeps
<1> HIDE DEF found, q, heard
<1>4. CASE found > t
  BY <1>2, <1>4 DEF q
<1>5. CASE ~ (found > t)
  <2>1. rtt \in Nat
    BY <1>1, <1>5
  <2> HIDE DEF rtt
  <2>2. /\ PeerOK(estimated, t) /\ estimated.earliestTimeout = heard.earliestTimeout
        /\ estimated.connected = heard.connected
    BY <1>3, <2>1, EstimateKeeps
  <2>3. q = Answered(estimated, n)
    BY <1>2, <1>5
  <2> HIDE DEF estimated
  <2>4. /\ PeerOK(q, t) /\ q.earliestTimeout = estimated.earliestTimeout
        /\ q.connected = estimated.connected
    BY <2>2, <2>3, AnsweredKeeps
  <2> QED
    BY <1>3, <2>2, <2>4 DEF Accounted, q
<1> QED
  BY <1>4, <1>5

-----------------------------------------------------------------------------
(* The peer in every state *)

\* Between two steps everything is sent, and the peer was heard lately, has
\* something to answer, or was given up with cause.
PeerInv == FlowInv /\ RoundDone(peer, now)

LEMMA PeerInit == Init => PeerInv
<1> SUFFICES ASSUME Init PROVE PeerInv
  OBVIOUS
<1>0. /\ Start \in Nat /\ now = Start /\ PingInterval \in Nat \ {0}
      /\ DefaultRoundTripTime \in Nat \ {0}
  BY FlowAssumption DEF Init
<1>1. peer = [connected |-> TRUE, last |-> 0, sent |-> <<>>, outgoing |-> <<>>,
              nextTimeout |-> 0, earliestTimeout |-> 0, lastReceiveTime |-> Start,
              roundTripTime |-> DefaultRoundTripTime, roundTripTimeVariance |-> 0]
  BY DEF Init
<1>2. peer \in FlowPeer
  <2>1. <<>> \in Seq(FlowCommand)
    OBVIOUS
  <2> QED
    BY <1>0, <1>1, <2>1 DEF FlowPeer
<1>3. /\ peer.connected /\ peer.sent = <<>> /\ peer.outgoing = <<>>
      /\ peer.earliestTimeout = 0 /\ peer.lastReceiveTime = Start
  BY <1>1
<1>4. PeerOK(peer, now)
  BY <1>2, <1>3 DEF PeerOK
<1>5. now - peer.lastReceiveTime < PingInterval
  BY <1>0, <1>3
<1>6. RoundDone(peer, now)
  BY <1>3, <1>4, <1>5 DEF RoundDone, Accounted
<1> QED
  BY <1>6, FlowInit DEF PeerInv

LEMMA PeerNext == PeerInv /\ [Next]_vars => PeerInv'
<1> SUFFICES ASSUME PeerInv, [Next]_vars PROVE PeerInv'
  OBVIOUS
<1>0. FlowInv /\ FlowInv' /\ now \in Nat /\ now' \in Nat
  BY FlowNext DEF PeerInv, FlowInv
<1>1. PeerOK(peer, now) /\ (peer.connected => Accounted(peer))
  BY DEF PeerInv, RoundDone
<1>2. Turn \in Nat /\ Lifetime \in Nat /\ Width \in Nat /\ Lifetime < Width
  BY FlowAssumption
<1>3. CASE Say
  <2>1. peer.connected /\ peer' = SendOutgoing(Queue(peer), now, FALSE) /\ now' = now
    BY <1>3 DEF Say
  <2> DEFINE q == Queue(peer)
  <2>2. PeerOK(q, now) /\ Accounted(q) /\ q.connected
    BY <1>0, <1>1, <2>1, QueueKeeps
  <2> HIDE DEF q
  <2>3. RoundDone(SendOutgoing(q, now, FALSE), now)
    BY <1>0, <2>2, SendOutgoingKeeps
  <2>4. RoundDone(peer', now')
    BY <2>1, <2>3 DEF q
  <2> QED
    BY <1>0, <2>4 DEF PeerInv
<1>4. CASE Service
  <2>1. peer.connected /\ peer' = SendOutgoing(peer, now', TRUE) /\ now' = now + Turn
    BY <1>4 DEF Service
  <2>2. PeerOK(peer, now')
    <3> DEFINE u == now'
    <3>1. u \in Nat /\ now <= u
      BY <1>0, <1>2, <2>1
    <3> HIDE DEF u
    <3>2. PeerOK(peer, u)
      BY <1>0, <1>1, <3>1, LaterToo
    <3> QED
      BY <3>2 DEF u
  <2>3. RoundDone(SendOutgoing(peer, now', TRUE), now')
    BY <1>0, <1>1, <2>1, <2>2, SendOutgoingKeeps
  <2> QED
    BY <1>0, <2>1, <2>3 DEF PeerInv
<1>5. ASSUME NEW d \in datagrams, ServiceAnswer(d) PROVE PeerInv'
  <2> DEFINE u == now'
             before == SendOutgoing(peer, u, TRUE)
             after == Acknowledge(before, d[1], d[2] % Width, u)
  <2>1. /\ peer.connected /\ u \in {now, now + Turn} /\ u - d[2] <= Lifetime
        /\ before.connected /\ peer' = SendOutgoing(after, u, TRUE)
    BY <1>5 DEF ServiceAnswer
  <2>2. u \in Nat /\ now <= u /\ d[2] \in Nat /\ d[2] <= now
    BY <1>0, <1>2, <2>1 DEF FlowInv
  <2> HIDE DEF u, before
  <2>3. d[2] <= u /\ u - d[2] < Width
    BY <1>0, <1>2, <2>1, <2>2
  <2>4. PeerOK(peer, u)
    BY <1>0, <1>1, <2>2, LaterToo
  <2>5. RoundDone(before, u)
    BY <1>1, <2>1, <2>2, <2>4, SendOutgoingKeeps DEF before
  <2>6. PeerOK(before, u) /\ Accounted(before)
    BY <2>1, <2>5 DEF RoundDone
  <2>7. PeerOK(after, u) /\ Accounted(after) /\ after.connected
    BY <2>1, <2>2, <2>3, <2>6, AcknowledgeKeeps
  <2> HIDE DEF after
  <2>8. RoundDone(SendOutgoing(after, u, TRUE), u)
    BY <2>2, <2>7, SendOutgoingKeeps
  <2>9. RoundDone(peer', now')
    BY <2>1, <2>8 DEF u
  <2> QED
    BY <1>0, <2>9 DEF PeerInv
<1>6. CASE UNCHANGED vars
  <2>1. peer' = peer /\ now' = now
    BY <1>6 DEF vars
  <2> QED
    BY <1>0, <2>1 DEF PeerInv
<1> QED
  BY <1>3, <1>4, <1>5, <1>6 DEF Next

LEMMA PeerAlways == Spec => []PeerInv
BY PeerInit, PeerNext, PTL DEF Spec

\* A peer is given up only if a command is still unanswered that was sent for
\* the first time TimeoutMinimum ago or earlier (enet_protocol_check_timeouts):
\* for every number of commands under way and every loss of answers, whatever
\* the estimate of the round trip time has come to.
THEOREM GivenUpWithCause == Spec => []NotGivenUpEarly
<1>1. PeerInv => NotGivenUpEarly
  <2> SUFFICES ASSUME PeerInv, ~ peer.connected
               PROVE  \E c \in Waiting : now - c.first >= TimeoutMinimum
    BY DEF NotGivenUpEarly
  <2>1. /\ now \in Nat /\ peer.sent \in Seq(FlowCommand) /\ peer.outgoing \in Seq(FlowCommand)
        /\ WaitedLong(peer, now)
    BY DEF PeerInv, FlowInv, RoundDone, PeerOK, FlowPeer
  <2>2. PICK x \in Nat : WaitingBy(peer, x) /\ now - x >= TimeoutMinimum
    BY <2>1 DEF WaitedLong
  <2>3. PICK c \in Waiting : c \in FlowCommand /\ c.first <= x
    <3>1. CASE SentBy(peer, x)
      BY <2>1, <3>1 DEF SentBy, Waiting
    <3>2. CASE AgainBy(peer, x)
      BY <2>1, <3>2 DEF AgainBy, Waiting
    <3> QED
      BY <2>2, <3>1, <3>2 DEF WaitingBy
  <2>4. c.first \in Nat
    BY <2>3 DEF FlowCommand
  <2>5. TimeoutMinimum \in Nat
    BY FlowAssumption
  <2>6. now - c.first >= TimeoutMinimum
    BY <2>1, <2>2, <2>3, <2>4, <2>5
  <2> QED
    BY <2>6
<1> QED
  BY <1>1, PeerAlways, PTL

\* An idle peer is probed in time (enet_protocol_send_outgoing_commands): after
\* every call something is under way to it, or it was heard within the
\* interval.
THEOREM IdleProbed == Spec => []IdleIsProbed
<1>1. PeerInv => IdleIsProbed
  <2> SUFFICES ASSUME PeerInv, peer.connected, Waiting = {}
               PROVE  now - peer.lastReceiveTime < PingInterval
    BY DEF IdleIsProbed
  <2>1. peer.sent \in Seq(FlowCommand)
    BY DEF PeerInv, RoundDone, PeerOK, FlowPeer
  <2>2. peer.sent = <<>>
    <3>1. \A k \in DOMAIN peer.sent : peer.sent[k] \in Waiting
      BY DEF Waiting
    <3>2. DOMAIN peer.sent = {}
      BY <3>1
    <3> DEFINE list == peer.sent
    <3>3. list \in Seq(FlowCommand) /\ DOMAIN list = {}
      BY <2>1, <3>2
    <3> HIDE DEF list
    <3>4. Len(list) \in Nat /\ DOMAIN list = 1 .. Len(list)
      BY <3>3
    <3>5. Len(list) = 0
      BY <3>3, <3>4
    <3> QED
      BY <3>3, <3>5 DEF list
  <2> QED
    BY <2>2 DEF PeerInv, RoundDone
<1> QED
  BY <1>1, PeerAlways, PTL

\* The estimate of a round trip never falls to zero, however short the trips are
\* (enet_protocol_handle_acknowledge): a timeout made of it is never zero, which
\* would stand for a command that was not sent (roundTripTimeout == 0 in
\* enet_protocol_send_reliable_outgoing_commands) and be expired at once.
THEOREM EstimateStaysPositive ==
  Spec => [](/\ peer.roundTripTime > 0
             /\ \A k \in DOMAIN peer.sent : peer.sent[k].roundTripTimeout > 0)
<1>1. PeerInv => /\ peer.roundTripTime > 0
                 /\ \A k \in DOMAIN peer.sent : peer.sent[k].roundTripTimeout > 0
  <2> SUFFICES ASSUME PeerInv
               PROVE  /\ peer.roundTripTime > 0
                      /\ \A k \in DOMAIN peer.sent : peer.sent[k].roundTripTimeout > 0
    OBVIOUS
  <2>1. peer.roundTripTime \in Nat \ {0} /\ peer.sent \in Seq(FlowCommand)
    BY DEF PeerInv, RoundDone, PeerOK, FlowPeer
  <2>2. ASSUME NEW k \in DOMAIN peer.sent PROVE peer.sent[k].roundTripTimeout > 0
    <3>1. peer.sent[k] \in FlowCommand /\ UnderWay(peer.sent[k], now)
      BY <2>1 DEF PeerInv, RoundDone, PeerOK
    <3> QED
      BY <3>1 DEF UnderWay, FlowCommand
  <2> QED
    BY <2>1, <2>2
<1> QED
  BY <1>1, PeerAlways, PTL
=============================================================================
