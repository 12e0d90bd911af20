------------------------------ MODULE Countdown ------------------------------
(***************************************************************************)
(* The countdown of the server against a clock of its own: steady counts   *)
(* the ticks for which everybody has been ready without interruption.  The *)
(* server keeps no such count: it samples the ready flags once a turn, in  *)
(* TimedEvent, and resets its timer when a sample is negative.             *)
(***************************************************************************)
EXTENDS DedicatedServer

VARIABLE steady

CountdownInit == Init /\ steady = 0

\* A tick that passes while everybody is ready counts; the count is lost as
\* soon as somebody joins or withdraws.
Observe ==
  steady' = IF ~AllReady' THEN 0
            ELSE IF startGameTimer' > startGameTimer /\ startGameTimer # -1
                 THEN steady + 1 ELSE steady

CountdownSpec == CountdownInit /\ [][Next /\ Observe]_<<vars, steady>>

\* The game never starts before everybody has been ready for the whole
\* countdown: a flag withdrawn and set again between two samples cannot go
\* unnoticed, because one turn handles one event and samples before it.
StartsAfterCountdown ==
  [][~IsStarted(board) /\ IsStarted(board)' => steady >= StartDelay]_<<vars, steady>>

\* Why: between the sample and the next turn the timer never runs ahead.
TimerHonest ==
  ~IsStarted(board) /\ (stage = "handle" \/ AllReady) => startGameTimer <= steady

\* A sample that was negative has stopped the timer, until the next one.
TimerStopped ==
  ~IsStarted(board) /\ stage = "handle" /\ ~AllReady => startGameTimer = -1

\* The inductive invariant of the countdown, beside the server's IInv.
CountdownInv == steady \in Nat /\ TimerHonest /\ TimerStopped
=============================================================================
