---------------------------- MODULE WorkerManager ----------------------------
(***************************************************************************)
(* MonitorWorkerManager, the API handlers that call it and the worker      *)
(* objects it starts, for one monitor.  The manager keeps one entry per    *)
(* monitor in its map, but every handler awaits the database between       *)
(* looking at the map and writing it, and a worker that is stopped while a *)
(* beat of it is in flight finishes that beat.  A step of a request or of  *)
(* a worker below is the code between two awaits.                          *)
(*                                                                         *)
(* What a beat decides is the subject of MonitorWorker; here it only ends  *)
(* with the status column overwritten by what was checked.                 *)
(***************************************************************************)
EXTENDS Integers, FiniteSets

CONSTANTS
  Requests,      \* the API requests, each made once
  Workers,       \* the worker objects: one for each request that starts one
  Ops,           \* what the requests of this instance do
  MaxInFlight,   \* how many requests are served at the same time
  None           \* no worker

AllOps == {"create", "update", "settings", "toggle", "pause", "resume", "delete"}

ASSUME NoneAssumption     == None \notin Workers
ASSUME OpsAssumption      == Ops \subseteq AllOps
ASSUME InFlightAssumption == MaxInFlight \in Nat

VARIABLES
  row,           \* the monitor's row: its status, isActive, and how often it was edited
  settings,      \* how often the settings that apply to it were changed
  slot,          \* workers.get(monitorId)
  worker,        \* the worker objects
  req            \* the requests

vars == <<row, settings, slot, worker, req>>

Edits     == Nat
RowStatus == {"unborn", "pending", "checked", "paused", "deleted"}
Row       == [status : RowStatus, active : BOOLEAN, edits : Edits]

\* sleeping: the timer is armed; checking: from the check to the heartbeat
\* row; writing: the status column is about to be written.
Phases  == {"unborn", "sleeping", "checking", "writing", "done"}
Object  == [phase : Phases, isRunning : BOOLEAN, edits : Edits, settings : Edits]

\* Where a request is, and the row it read last.
Steps   == {"new", "look", "toggle", "restart", "affected", "read", "start",
            "build", "spawn", "stop", "erase", "done"}
Request == [step : Steps, seen : Row, settings : Edits]

TypeOK ==
  /\ row \in Row
  /\ settings \in Edits
  /\ slot \in Workers \union {None}
  /\ worker \in [Workers -> Object]
  /\ req \in [Requests -> Request]

Unborn == [phase |-> "unborn", isRunning |-> FALSE, edits |-> 0, settings |-> 0]

Blank(status) == [status |-> status, active |-> TRUE, edits |-> 0]

\* A monitor about to be created, or one that startAll has started.
Init ==
  /\ settings = 0
  /\ req = [r \in Requests |->
              [step |-> "new", seen |-> Blank("unborn"), settings |-> 0]]
  /\ \/ /\ row = Blank("unborn")
        /\ slot = None
        /\ worker = [w \in Workers |-> Unborn]
     \/ /\ row = Blank("checked")
        /\ slot \in Workers
        /\ worker = [w \in Workers |->
             IF w = slot THEN [Unborn EXCEPT !.phase = "sleeping", !.isRunning = TRUE]
                         ELSE Unborn]

Exists == row.status \notin {"unborn", "deleted"}

-----------------------------------------------------------------------------
(***************************************************************************)
(* The handlers.  A request that stops at a step issues a query there and  *)
(* goes on when it is answered.                                            *)
(***************************************************************************)

InFlight == {r \in Requests : req[r].step \notin {"new", "done"}}

\* A request arrives: at most MaxInFlight are served at the same time.
Arrives(r, op) ==
  /\ op \in Ops
  /\ req[r].step = "new"
  /\ Cardinality(InFlight) < MaxInFlight

Goes(r, step) == req' = [req EXCEPT ![r].step = step]

\* updateStatus: an UPDATE of a row that is gone changes nothing.
SetStatus(status) ==
  row' = IF Exists THEN [row EXCEPT !.status = status] ELSE row

\* Mutant: the running flag is left set.
StoppedFlagLeft ==
  IF slot = None THEN worker
  ELSE [worker EXCEPT ![slot].phase = IF @ = "sleeping" THEN "done" ELSE @]

\* stopMonitor: stop() cancels the timer but not the beat in flight.
Stopped ==
  IF slot = None THEN worker
  ELSE [worker EXCEPT ![slot].isRunning = FALSE,
                      ![slot].phase = IF @ = "sleeping" THEN "done" ELSE @]

StopMonitor == worker' = Stopped /\ slot' = None

\* POST /monitors: the new row goes to startMonitor, be it active or not.
Create(r) ==
  /\ Arrives(r, "create")
  /\ row.status = "unborn"
  /\ \E a \in BOOLEAN : row' = [row EXCEPT !.status = "pending", !.active = a]
  /\ req' = [req EXCEPT ![r].seen = row', ![r].step = "start"]
  /\ UNCHANGED <<settings, slot, worker>>

\* An edit may set isActive.
Edited == IF Exists THEN {[row EXCEPT !.edits = @ + 1, !.active = a] : a \in BOOLEAN} ELSE {row}

\* Mutant: the edited monitor is not restarted.
UpdateOnly(r) ==
  /\ Arrives(r, "update")
  /\ row.status # "unborn"
  /\ row' \in Edited
  /\ Goes(r, "done")
  /\ UNCHANGED <<settings, slot, worker>>

\* PUT /monitors/:id writes the row and restarts the monitor; a monitor that
\* does not exist is a 404.
Update(r) ==
  /\ Arrives(r, "update")
  /\ row.status # "unborn"
  /\ row' \in Edited
  /\ Goes(r, IF Exists THEN "restart" ELSE "done")
  /\ UNCHANGED <<settings, slot, worker>>

\* PUT /settings/...: the setting is stored, then the workers it affects are
\* restarted.
ChangeSettings(r) ==
  /\ Arrives(r, "settings")
  /\ settings' = settings + 1
  /\ Goes(r, "affected")
  /\ UNCHANGED <<row, slot, worker>>

\* restartAffectedBySettings picks the monitors that have a worker now and
\* restarts them one after the other, so this one's turn may come later.
Affected(r) ==
  /\ req[r].step = "affected"
  /\ Goes(r, IF slot = None THEN "done" ELSE "restart")
  /\ UNCHANGED <<row, settings, slot, worker>>

\* The pause endpoint reads the status, and writes the opposite one.
Look(r) ==
  /\ Arrives(r, "toggle")
  /\ row.status # "unborn"
  /\ req' = [req EXCEPT ![r].seen = row,
                        ![r].step = IF Exists THEN "toggle" ELSE "done"]
  /\ UNCHANGED <<row, settings, slot, worker>>

Toggle(r) ==
  /\ req[r].step = "toggle"
  /\ LET paused == req[r].seen.status = "paused" IN
       /\ SetStatus(IF paused THEN "pending" ELSE "paused")
       /\ Goes(r, IF paused THEN "restart" ELSE "stop")
  /\ UNCHANGED <<settings, slot, worker>>

\* The bulk endpoint is told which of the two it is.
BulkPause(r) ==
  /\ row.status # "unborn"
  /\ \/ Arrives(r, "pause")  /\ SetStatus("paused")  /\ Goes(r, "stop")
     \/ Arrives(r, "resume") /\ SetStatus("pending") /\ Goes(r, "restart")
  /\ UNCHANGED <<settings, slot, worker>>

Stop(r) ==
  /\ req[r].step = "stop"
  /\ StopMonitor
  /\ Goes(r, "done")
  /\ UNCHANGED <<row, settings>>

\* DELETE /monitors/:id stops the worker, then deletes the row.
Delete(r) ==
  /\ Arrives(r, "delete")
  /\ row.status # "unborn"
  /\ StopMonitor
  /\ Goes(r, "erase")
  /\ UNCHANGED <<row, settings>>

Erase(r) ==
  /\ req[r].step = "erase"
  /\ row' = [row EXCEPT !.status = "deleted"]
  /\ Goes(r, "done")
  /\ UNCHANGED <<settings, slot, worker>>

\* Mutant: only a monitor that waits for its first check is started.
StartablePending(monitor) == monitor.status = "pending" /\ monitor.active

Startable(monitor) == monitor.status \notin {"deleted", "paused"} /\ monitor.active

\* restartMonitor: stop, read the row, start unless it is gone, paused or inactive.
Restart(r) ==
  /\ req[r].step = "restart"
  /\ StopMonitor
  /\ Goes(r, "read")
  /\ UNCHANGED <<row, settings>>

Read(r) ==
  /\ req[r].step = "read"
  /\ req' = [req EXCEPT ![r].seen = row, ![r].step = IF Startable(row) THEN "start" ELSE "done"]
  /\ UNCHANGED <<row, settings, slot, worker>>

\* startMonitor: nothing to do for a monitor that has a worker.
Start(r) ==
  /\ req[r].step = "start"
  /\ Goes(r, IF slot = None THEN "build" ELSE "done")
  /\ UNCHANGED <<row, settings, slot, worker>>

\* buildConfig resolves the settings.
Build(r) ==
  /\ req[r].step = "build"
  /\ req' = [req EXCEPT ![r].settings = settings, ![r].step = "spawn"]
  /\ UNCHANGED <<row, settings, slot, worker>>

\* The new worker enters the map and starts its first beat.
Spawn(r) ==
  /\ req[r].step = "spawn"
  /\ \E w \in Workers :
       /\ worker[w].phase = "unborn"
       /\ worker' = [worker EXCEPT ![w] =
            [phase |-> "checking", isRunning |-> TRUE,
             edits |-> req[r].seen.edits, settings |-> req[r].settings]]
       /\ slot' = w
  /\ Goes(r, "done")
  /\ UNCHANGED <<row, settings>>

-----------------------------------------------------------------------------
(***************************************************************************)
(* The worker objects.                                                     *)
(***************************************************************************)

\* Mutant: the next beat is scheduled whether or not the worker was stopped.
RestedAlways(w) == "sleeping"

\* scheduleNext, unless the worker was stopped.
Rested(w) == IF worker[w].isRunning THEN "sleeping" ELSE "done"

\* The timer fires; a worker that was stopped does nothing.
Wake(w) ==
  /\ worker[w].phase = "sleeping"
  /\ worker' = [worker EXCEPT ![w].phase = IF worker[w].isRunning THEN "checking" ELSE "done"]
  /\ UNCHANGED <<row, settings, slot, req>>

\* Mutant: a failing heartbeat is only logged.
StoreLogged(w) ==
  /\ worker[w].phase = "checking"
  /\ worker' = [worker EXCEPT ![w].phase = IF Exists THEN "writing" ELSE Rested(w)]
  /\ UNCHANGED <<row, settings, slot, req>>

\* The heartbeat row: its foreign key fails once the monitor is deleted, and
\* the worker stops itself.
Store(w) ==
  /\ worker[w].phase = "checking"
  /\ worker' = IF Exists
       THEN [worker EXCEPT ![w].phase = "writing"]
       ELSE [worker EXCEPT ![w].phase = "done", ![w].isRunning = FALSE]
  /\ UNCHANGED <<row, settings, slot, req>>

\* updateStatus ends the beat, whatever the status has become meanwhile.
Write(w) ==
  /\ worker[w].phase = "writing"
  /\ SetStatus("checked")
  /\ worker' = [worker EXCEPT ![w].phase = Rested(w)]
  /\ UNCHANGED <<settings, slot, req>>

-----------------------------------------------------------------------------
RequestStep(r) ==
  \/ Create(r) \/ Update(r) \/ ChangeSettings(r) \/ Affected(r)
  \/ Look(r) \/ Toggle(r) \/ BulkPause(r) \/ Stop(r)
  \/ Delete(r) \/ Erase(r)
  \/ Restart(r) \/ Read(r) \/ Start(r) \/ Build(r) \/ Spawn(r)

WorkerStep(w) == Wake(w) \/ Store(w) \/ Write(w)

Next ==
  \/ \E r \in Requests : RequestStep(r)
  \/ \E w \in Workers : WorkerStep(w)

Spec == Init /\ [][Next]_vars

\* Every query is answered and every timer fires.
Fairness ==
  /\ \A w \in Workers : WF_vars(WorkerStep(w))
  /\ \A r \in Requests : WF_vars(req[r].step # "new" /\ RequestStep(r))

-----------------------------------------------------------------------------
\* No request is under way and every worker is between two beats.
Quiet ==
  /\ InFlight = {}
  /\ \A w \in Workers : worker[w].phase \notin {"checking", "writing"}

\* Every worker in the map runs, except for a deleted monitor's: startMonitor
\* leaves a monitor alone that has an entry, so a stopped worker that kept its
\* entry would leave the monitor unchecked for ever.
RegisteredRuns ==
  slot # None => worker[slot].isRunning \/ row.status = "deleted"

\* A stopped worker ends the beat it is in, arms no timer and begins no other, whatever
\* the interleaving of restarts: stop() is final.
StoppedStaysStopped ==
  [][ \A w \in Workers :
        worker[w].phase # "unborn" /\ ~worker[w].isRunning
          => /\ ~worker'[w].isRunning
             /\ worker'[w].phase \in {worker[w].phase, "writing", "done"} ]_vars

\* The inductive invariant: workers sleep only while they run, and before the
\* monitor exists nothing has a worker, or is about to start one.
IInv ==
  /\ RegisteredRuns
  /\ \A w \in Workers : worker[w].phase = "sleeping" => worker[w].isRunning
  /\ row.status = "unborn" =>
       /\ slot = None
       /\ \A w \in Workers : worker[w].phase = "unborn"
       /\ \A r \in Requests : req[r].step \in {"new", "affected", "done"}

\* Nobody checks a deleted monitor for ever, not even a worker that a racing
\* restart left behind: the foreign key of the heartbeats stops it.
DeletedIsSilent ==
  row.status = "deleted" ~> [](\A w \in Workers : worker[w].phase \in {"unborn", "done"})

\* An active monitor has a worker ("Chaque moniteur actif dans Obliview est
\* exécuté par une instance de worker"): no interleaving of restarts stops the
\* last one without starting another.  A pause does (README, section 5).
ActiveIsChecked ==
  Quiet /\ row.status \in {"pending", "checked"} /\ row.active => slot # None

\* Why: whoever stops the worker, or activates the monitor, is on its way to starting one.
OnItsWay(r) == req[r].step \in {"restart", "read", "start", "build", "spawn"}
=============================================================================
