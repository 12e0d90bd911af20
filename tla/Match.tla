-------------------------------- MODULE Match --------------------------------
(***************************************************************************)
(* What the game server promises its players, without peers, packets,      *)
(* timers or a board: people enter and withdraw while the match is open,   *)
(* it begins when at least two are in and all of them are ready, players   *)
(* drop out one at a time, and the match is over as soon as one is left.   *)
(* DedicatedServer implements this specification.                          *)
(***************************************************************************)
EXTENDS Naturals, FiniteSets

CONSTANT Players

VARIABLES phase,     \* "lobby", "playing" or "ended"
          entrants,  \* who is in the match
          ready,     \* who is ready
          alive      \* who has not been defeated

vars == <<phase, entrants, ready, alive>>

Init == phase = "lobby" /\ entrants = {} /\ ready = {} /\ alive = {}

Enter(p) ==
  /\ phase = "lobby" /\ p \notin entrants
  /\ entrants' = entrants \cup {p}
  /\ UNCHANGED <<phase, ready, alive>>

Withdraw(p) ==
  /\ phase = "lobby" /\ p \in entrants
  /\ entrants' = entrants \ {p}
  /\ ready' = ready \ {p}
  /\ UNCHANGED <<phase, alive>>

\* The flag may still be flipped once it has no meaning any more.
ChangeReady(p) ==
  /\ p \in entrants
  /\ ready' \in {ready \cup {p}, ready \ {p}}
  /\ UNCHANGED <<phase, entrants, alive>>

Begin ==
  /\ phase = "lobby"
  /\ ready = entrants
  /\ \E p, q \in entrants : p # q
  /\ phase' = "playing"
  /\ alive' = entrants
  /\ UNCHANGED <<entrants, ready>>

\* Never the last one: with a single survivor the match is decided.
DropOut(p) ==
  /\ phase = "playing"
  /\ p \in alive /\ alive # {p}
  /\ alive' = alive \ {p}
  /\ UNCHANGED <<phase, entrants, ready>>

Finish ==
  /\ phase = "playing"
  /\ \E p \in alive : alive = {p}
  /\ phase' = "ended"
  /\ UNCHANGED <<entrants, ready, alive>>

\* The winner leaves a decided match.
Leave(p) ==
  /\ phase = "ended" /\ p \in alive
  /\ alive' = alive \ {p}
  /\ UNCHANGED <<phase, entrants, ready>>

Next ==
  \/ \E p \in Players : \/ Enter(p) \/ Withdraw(p) \/ ChangeReady(p)
                        \/ DropOut(p) \/ Leave(p)
  \/ Begin \/ Finish

Spec == Init /\ [][Next]_vars

\* A decided match is declared over.
FairSpec == Spec /\ WF_vars(Finish)
=============================================================================
