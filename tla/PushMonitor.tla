----------------------------- MODULE PushMonitor -----------------------------
(***************************************************************************)
(* A push monitor: the route of the heartbeats looks the monitor up, and   *)
(* then writes the time into a map in memory, which the worker's check     *)
(* compares with the clock.                                                *)
(***************************************************************************)
EXTENDS Integers, FiniteSets

CONSTANTS
  MaxInterval,   \* pushMaxIntervalSec
  MaxArriving,   \* bound: pushes between their lookup and their record
  Never          \* no push in memory

ASSUME IntervalAssumption == MaxInterval \in Nat /\ MaxArriving \in Nat /\ Never \notin Nat

VARIABLES
  lastPush,      \* PushMonitorWorker.lastPushTimes, as an age
  paused,        \* the monitor's status is 'paused'
  arriving,      \* pushes that were looked up and are not recorded yet: their ages
  quiet,         \* history: ticks since the external system pushed
  dropped,       \* history: its latest push was refused or forgotten
  pushCheck      \* the latest check, and history: the silence it met, whether it could know

pushVars == <<lastPush, paused, arriving, quiet, dropped, pushCheck>>

\* Ages above the interval are all alike.
Old == MaxInterval + 1
Older(age) == IF age = Never \/ age = Old THEN age ELSE age + 1

PushTypeOK ==
  /\ lastPush \in 0 .. Old \cup {Never}
  /\ paused \in BOOLEAN
  /\ arriving \in 0 .. MaxArriving
  /\ quiet \in 0 .. Old
  /\ dropped \in BOOLEAN
  /\ pushCheck \in [status : {"pending", "up", "down"}, quiet : 0 .. Old, known : BOOLEAN]

Unchecked == [status |-> "pending", quiet |-> 0, known |-> FALSE]

PushInit ==
  /\ lastPush = Never
  /\ paused = FALSE
  /\ arriving = 0
  /\ quiet = Old
  /\ dropped = FALSE
  /\ pushCheck = Unchecked

\* The external system pushes: a paused monitor answers and records nothing.
LookUp ==
  /\ quiet' = 0
  /\ IF paused
       THEN dropped' = TRUE /\ UNCHANGED arriving
       ELSE /\ arriving < MaxArriving
            /\ arriving' = arriving + 1
            /\ UNCHANGED dropped
  /\ UNCHANGED <<lastPush, paused, pushCheck>>

\* recordPush.
RecordPush ==
  /\ arriving > 0
  /\ arriving' = arriving - 1
  /\ lastPush' = 0
  /\ dropped' = FALSE
  /\ UNCHANGED <<paused, quiet, pushCheck>>

\* Mutant: the interval itself is too long.
PushVerdictStrict ==
  IF lastPush = Never \/ lastPush >= MaxInterval THEN "down" ELSE "up"

PushVerdict ==
  IF lastPush = Never \/ lastPush > MaxInterval THEN "down" ELSE "up"

\* performCheck; a paused monitor has no worker.
CheckPush ==
  /\ ~paused
  /\ pushCheck' = [status |-> PushVerdict, quiet |-> quiet, known |-> ~dropped /\ arriving = 0]
  /\ UNCHANGED <<lastPush, paused, arriving, quiet, dropped>>

\* A second passes; a lookup is answered within one.
PassTime ==
  /\ arriving = 0
  /\ lastPush' = Older(lastPush)
  /\ quiet' = Older(quiet)
  /\ UNCHANGED <<paused, arriving, dropped, pushCheck>>

PausePush ==
  /\ paused' = ~paused
  /\ pushCheck' = Unchecked
  /\ UNCHANGED <<lastPush, arriving, quiet, dropped>>

\* The map and the requests are in memory.
RestartServer ==
  /\ lastPush' = Never
  /\ arriving' = 0
  /\ dropped' = TRUE
  /\ pushCheck' = Unchecked
  /\ UNCHANGED <<paused, quiet>>

PushNext ==
  LookUp \/ RecordPush \/ CheckPush \/ PassTime \/ PausePush \/ RestartServer

-----------------------------------------------------------------------------
\* The age in memory is the silence, unless the latest push is on its way or lost.
SilenceInv ==
  /\ arriving > 0 => quiet = 0
  /\ ~dropped /\ arriving = 0 => lastPush = quiet \/ (lastPush = Never /\ quiet = Old)

\* A system that pushes within the interval is not reported down, and one that is
\* silent for longer is: unless its latest push met a pause or was lost in a restart.
SilenceIsDown ==
  pushCheck.known =>
    pushCheck.status = IF pushCheck.quiet > MaxInterval THEN "down" ELSE "up"
=============================================================================
