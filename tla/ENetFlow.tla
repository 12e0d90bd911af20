------------------------------ MODULE ENetFlow ------------------------------
(***************************************************************************)
(* The clock of an ENet connection, as one end of it sees it: how long a   *)
(* reliable command is waited for, when it is sent again, when an idle     *)
(* peer is probed, and when a silent one is given up (src/src/enet:        *)
(* check_timeouts, send_reliable_outgoing_commands, handle_acknowledge and *)
(* the pings of send_outgoing_commands in protocol.c).                     *)
(*                                                                         *)
(* ENetService has the same functions without the clock, as free choices,  *)
(* and everything else they do.  Here the other end is an answer that may  *)
(* come for each datagram, soon, late or never.  Windows do not hold       *)
(* commands back (the program never has that much under way), and the      *)
(* throttle, which decides about unreliable packets, is left out.          *)
(***************************************************************************)
EXTENDS Integers, Sequences, SequencesExt

CONSTANTS
  DefaultRoundTripTime,  \* ENET_PEER_DEFAULT_ROUND_TRIP_TIME, 500 ms
  TimeoutLimit,          \* ENET_PEER_TIMEOUT_LIMIT, 32
  TimeoutMinimum,        \* ENET_PEER_TIMEOUT_MINIMUM, 5000 ms
  TimeoutMaximum,        \* ENET_PEER_TIMEOUT_MAXIMUM, 30000 ms
  PingInterval,          \* ENET_PEER_PING_INTERVAL, 500 ms
  Width,                 \* the sent time in a header is modulo Width, 2^16 ms
  Turn,                  \* milliseconds between two calls of enet_host_service
  Lifetime,              \* bound: how old an answer may be
  Start,                 \* the time when the connection is made
  MaxTime,               \* bound: the clock stops here
  MaxSends,              \* bound: packets the program sends
  MaxAnswers             \* bound: answers that arrive

ASSUME FlowAssumption ==
  /\ {DefaultRoundTripTime, TimeoutLimit, TimeoutMinimum, TimeoutMaximum,
      PingInterval, Width, Turn, Lifetime, Start, MaxTime} \subseteq Nat \ {0}
  /\ DefaultRoundTripTime >= 8 /\ TimeoutMinimum <= TimeoutMaximum
  /\ Width % 2 = 0 /\ Lifetime < Width
  /\ MaxSends \in Nat /\ MaxAnswers \in Nat

VARIABLES now,       \* serviceTime
          peer,      \* the other end as this one knows it
          datagrams, \* <<number, sentTime>> of what may still be answered
          sends,     \* packets sent so far
          answers,   \* answers received so far
          measured   \* the last answer: its age, and what became of it

vars == <<now, peer, datagrams, sends, answers, measured>>

-----------------------------------------------------------------------------
(* Sending.  first is the time of the first attempt: only the properties    *)
(* look at it.                                                              *)

Unsent(n) == [number |-> n, first |-> 0, sentTime |-> 0,
              roundTripTimeout |-> 0, roundTripTimeoutLimit |-> 0]

\* A command leaves; its timeout is set the first time it does.
SendCommand(p, c, t) ==
  LET patience == p.roundTripTime + 4 * p.roundTripTimeVariance
      timed == IF c.roundTripTimeout # 0 THEN c
               ELSE [c EXCEPT !.first = t, !.roundTripTimeout = patience,
                              !.roundTripTimeoutLimit = TimeoutLimit * patience]
  IN [p EXCEPT !.nextTimeout = IF p.sent = <<>> THEN t + timed.roundTripTimeout ELSE @,
               !.sent = Append(@, [timed EXCEPT !.sentTime = t])]

SendReliable(p, t) ==
  LET Sending[k \in 0 .. Len(p.outgoing)] ==
        IF k = 0 THEN [p EXCEPT !.outgoing = <<>>]
        ELSE SendCommand(Sending[k - 1], p.outgoing[k], t)
  IN Sending[Len(p.outgoing)]

Queue(p) == [p EXCEPT !.last = @ + 1, !.outgoing = Append(@, Unsent(p.last + 1))]

Expired(c, t) == t - c.sentTime >= c.roundTripTimeout

\* The peer is given up: silence is the time since the earliest timeout.
GiveUp(c, silence) ==
  \/ silence >= TimeoutMaximum
  \/ /\ c.roundTripTimeout >= c.roundTripTimeoutLimit
     /\ silence >= TimeoutMinimum

\* Mutated Again: the timeout stays what it was.
AgainTheSame(c) == c

\* What is sent again waits twice as long.
Again(c) == [c EXCEPT !.roundTripTimeout = 2 * @]

(***************************************************************************)
(* enet_protocol_check_timeouts: the commands that waited too long go back *)
(* to the front of what is to be sent, in their order.  When the peer is   *)
(* given up the walk ends; the lists, which the code then empties, are     *)
(* left for the properties to look at.                                     *)
(***************************************************************************)
Earlier(earliest, c) ==
  IF earliest = 0 \/ c.sentTime < earliest THEN c.sentTime ELSE earliest

Look(w, c, t) ==
  LET earliest == Earlier(w.earliest, c)
  IN CASE w.givenUp -> w
       [] ~ w.givenUp /\ ~ Expired(c, t) -> [w EXCEPT !.kept = Append(@, c)]
       [] ~ w.givenUp /\ Expired(c, t) /\ GiveUp(c, t - earliest) ->
            [w EXCEPT !.givenUp = TRUE]
       [] OTHER -> [w EXCEPT !.earliest = earliest, !.again = Append(@, Again(c))]

Walk(p, t) ==
  LET Looking[k \in 0 .. Len(p.sent)] ==
        IF k = 0 THEN [earliest |-> p.earliestTimeout, kept |-> <<>>, again |-> <<>>,
                       givenUp |-> FALSE]
        ELSE Look(Looking[k - 1], p.sent[k], t)
  IN Looking[Len(p.sent)]

CheckTimeouts(p, t) ==
  LET walk == Walk(p, t)
      front == Head(walk.kept)
  IN IF walk.givenUp THEN [p EXCEPT !.connected = FALSE]
     ELSE [p EXCEPT !.earliestTimeout = walk.earliest,
                    !.sent = walk.kept,
                    !.outgoing = walk.again \o @,
                    !.nextTimeout = IF walk.kept # <<>> /\ front # Head(p.sent)
                                    THEN front.sentTime + front.roundTripTimeout ELSE @]

\* Mutated PingDue: by the clock of the call before.
PingDueByOldClock(p, t) ==
  p.outgoing = <<>> /\ p.sent = <<>> /\ t - Turn - p.lastReceiveTime >= PingInterval

\* Nothing is under way and nothing was heard for a while.
PingDue(p, t) ==
  p.outgoing = <<>> /\ p.sent = <<>> /\ t - p.lastReceiveTime >= PingInterval

\* enet_protocol_send_outgoing_commands for one peer.
SendOutgoing(p, t, checkForTimeouts) ==
  LET checked == IF checkForTimeouts /\ p.sent # <<>> /\ t >= p.nextTimeout
                 THEN CheckTimeouts(p, t) ELSE p
  IN CASE ~ checked.connected -> checked
       [] checked.connected /\ PingDue(checked, t) -> SendReliable(Queue(checked), t)
       [] OTHER -> SendReliable(checked, t)

-----------------------------------------------------------------------------
(* Acknowledgements *)

\* Mutated SentTime: the border between two laps is not seen.
SentTimeOfThisLap(mark, t) == (t \div Width) * Width + mark

\* The time behind a mark of a few bits: in this lap of the clock, or in the
\* one before if the mark is in the upper half of a lap and the clock is not.
SentTime(mark, t) ==
  (IF mark >= Width \div 2 /\ t % Width < Width \div 2
   THEN t \div Width - 1 ELSE t \div Width) * Width + mark

\* A part of the way from one number to another, rounded down.
Approach(from, to, part) ==
  IF to >= from THEN from + (to - from) \div part ELSE from - (from - to) \div part

Gap(a, b) == IF a >= b THEN a - b ELSE b - a

\* The estimate moves an eighth of the way; the variance looks at the distance
\* that is left.
Estimate(p, rtt) ==
  LET mean == Approach(p.roundTripTime, rtt, 8)
  IN [p EXCEPT !.roundTripTime = mean,
               !.roundTripTimeVariance = @ - @ \div 4 + Gap(rtt, mean) \div 4]

\* Mutated Heard: the timeouts of the past are held against the peer.
HeardNotForgiven(p, t) == [p EXCEPT !.lastReceiveTime = t]

Heard(p, t) == [p EXCEPT !.lastReceiveTime = t, !.earliestTimeout = 0]

\* remove_sent_reliable_command: wherever it is, as long as it has been sent.
Others(list, n) ==
  IF \A k \in DOMAIN list : list[k].number # n THEN list
  ELSE RemoveAt(list, CHOOSE k \in DOMAIN list : list[k].number = n)

Answered(p, n) ==
  LET sent == Others(p.sent, n)
      outgoing == IF sent = p.sent THEN Others(p.outgoing, n) ELSE p.outgoing
  IN IF sent = p.sent /\ outgoing = p.outgoing THEN p
     ELSE [p EXCEPT !.sent = sent, !.outgoing = outgoing,
                    !.nextTimeout = IF sent = <<>> THEN @
                                    ELSE Head(sent).sentTime + Head(sent).roundTripTimeout]

\* enet_protocol_handle_acknowledge; an answer that seems to come from the
\* future is dropped.
Acknowledge(p, n, mark, t) ==
  IF SentTime(mark, t) > t THEN p
  ELSE Answered(Estimate(Heard(p, t), t - SentTime(mark, t)), n)

-----------------------------------------------------------------------------
\* The datagrams that left with the commands a step sent.
Sent(p, t) == {<<p.sent[k].number, t>> : k \in {j \in DOMAIN p.sent : p.sent[j].sentTime = t}}

Remembered(d, t) == {x \in d : t - x[2] <= Lifetime}

Init ==
  /\ now = Start
  /\ peer = [connected |-> TRUE, last |-> 0, sent |-> <<>>, outgoing |-> <<>>,
             nextTimeout |-> 0, earliestTimeout |-> 0, lastReceiveTime |-> Start,
             roundTripTime |-> DefaultRoundTripTime, roundTripTimeVariance |-> 0]
  /\ datagrams = {}
  /\ sends = 0 /\ answers = 0
  /\ measured = [age |-> 0, as |-> 0]

\* enet_peer_send and enet_host_flush.
Say ==
  /\ peer.connected /\ sends < MaxSends
  /\ peer' = SendOutgoing(Queue(peer), now, FALSE)
  /\ datagrams' = datagrams \cup Sent(peer', now)
  /\ sends' = sends + 1
  /\ UNCHANGED <<now, answers, measured>>

\* enet_host_service with nothing to receive.
Service ==
  /\ peer.connected /\ now + Turn <= MaxTime
  /\ now' = now + Turn
  /\ peer' = SendOutgoing(peer, now', TRUE)
  /\ datagrams' = Remembered(datagrams \cup Sent(peer', now'), now')
  /\ UNCHANGED <<sends, answers, measured>>

\* ... and with the answer to datagram d: it is taken between two rounds of
\* sending, unless the peer is given up in the first.
ServiceAnswer(d) ==
  /\ peer.connected /\ answers < MaxAnswers
  /\ now' \in {now, now + Turn} /\ now' <= MaxTime /\ now' - d[2] <= Lifetime
  /\ LET before == SendOutgoing(peer, now', TRUE)
         after == Acknowledge(before, d[1], d[2] % Width, now')
     IN /\ before.connected
        /\ peer' = SendOutgoing(after, now', TRUE)
        /\ datagrams' = Remembered((datagrams \cup Sent(before, now') \cup Sent(peer', now'))
                                   \ {d}, now')
  /\ measured' = [age |-> now' - d[2],
                  as |-> now' - SentTime(d[2] % Width, now')]
  /\ answers' = answers + 1
  /\ UNCHANGED sends

Next == Say \/ Service \/ \E d \in datagrams : ServiceAnswer(d)

Spec == Init /\ [][Next]_vars

-----------------------------------------------------------------------------
(* Properties *)

Waiting == {peer.sent[k] : k \in DOMAIN peer.sent}
             \cup {c \in {peer.outgoing[k] : k \in DOMAIN peer.outgoing} :
                     c.roundTripTimeout # 0}

\* A peer is given up only if a command is still unanswered that was sent for
\* the first time at least TimeoutMinimum ago: an answer to anything clears
\* the record of earlier timeouts, however late it is and whatever it answers.
NotGivenUpEarly ==
  ~ peer.connected => \E c \in Waiting : now - c.first >= TimeoutMinimum

\* No command waits for ever: answers to others do not keep a peer alive that
\* leaves one command unanswered, since its timeout doubles until it has
\* passed the limit set with the first attempt and TimeoutMinimum as well.
\* The walk over the list waits for its front, so the longest limit of all
\* that is under way counts.
Patience == 4 * Max({TimeoutMinimum} \cup {c.roundTripTimeoutLimit : c \in Waiting})

NobodyWaitsForEver ==
  peer.connected => \A c \in Waiting : now - c.first <= Patience

\* An idle connection is probed: after each call of enet_host_service something
\* is under way to the other end or was heard from it within the interval.  With
\* NobodyWaitsForEver the loss of the other end becomes known, whatever was
\* under way.
IdleIsProbed ==
  peer.connected /\ Waiting = {} => now - peer.lastReceiveTime < PingInterval

\* The sixteen bits of a sent time are enough: an answer that is less than half
\* a lap old is measured right, and an older one right or not at all.
MeasuredRight ==
  /\ measured.age < Width \div 2 => measured.as = measured.age
  /\ measured.as >= 0 => measured.as = measured.age
=============================================================================
