----------------------------- MODULE ServerClock -----------------------------
(***************************************************************************)
(* What the services of one server process share in these models: the      *)
(* clock their caches, cooldowns and timers read, and the number of calls  *)
(* a run lets users and workers make.                                      *)
(***************************************************************************)
EXTENDS Integers

CONSTANTS
  Horizon,   \* bound: the clock stops here
  MaxCalls   \* bound: calls of users and workers in one behaviour

ASSUME ServerClockAssumption == Horizon \in Nat /\ MaxCalls \in Nat

VARIABLES
  now,     \* Date.now(), in ticks of a minute
  calls    \* calls made so far

ClockTypeOK == now \in 0 .. Horizon /\ calls \in 0 .. MaxCalls

ClockInit == now = 0 /\ calls = 0

\* One more call; the handlers below are conjoined with it.
Call == calls < MaxCalls /\ calls' = calls + 1

NoCall == UNCHANGED calls
=============================================================================
