---------------------------- MODULE ValueWatcher ----------------------------
(***************************************************************************)
(* ValueWatcherMonitorWorker with the operator "changed": the value read   *)
(* last is kept in the worker and in the monitor's row, so that a change   *)
(* across a restart is noticed too.  A check is cut at its awaits: the     *)
(* answer, the write of the row, the notification, each of which may fail. *)
(* A worker replaced in between finishes its check, a crash loses it.      *)
(***************************************************************************)
EXTENDS Integers

CONSTANTS
  Values,        \* what the watched path can lead to
  Empty,         \* the one of them that is the empty string
  NoValue,       \* null
  MaxStarts      \* bound: workers started, by a process or in place of another

ASSUME ValueAssumption ==
  Empty \in Values /\ NoValue \notin Values /\ MaxStarts \in Nat

\* The worker objects, in the order they start.
Objects == 1 .. MaxStarts

VARIABLES
  value,         \* what the target holds
  row,           \* value_watcher_previous_value
  watcher,       \* the worker objects
  told,          \* history: what the user was told, or shown at first
  missed,        \* history: a report failed, and told is not what the worker read
  misread        \* history: a worker started from a row that is not what was told

watcherVars == <<value, row, watcher, told, missed, misread>>

Known == Values \cup {NoValue}

\* loaded is valueWatcherPreviousValue in the configuration the object was given, prev
\* its previousValue, old what it was before this check.
Watcher == [step : {"unborn", "idle", "persist", "report", "gone"}, runs : BOOLEAN,
            loaded : Known, prev : Known, old : Known]

Unborn == [step |-> "unborn", runs |-> FALSE, loaded |-> NoValue,
           prev |-> NoValue, old |-> NoValue]

Gone   == [Unborn EXCEPT !.step = "gone"]

WatcherTypeOK ==
  /\ value \in Values
  /\ row \in Known
  /\ watcher \in [Objects -> Watcher]
  /\ told \in Known
  /\ missed \in BOOLEAN
  /\ misread \in BOOLEAN

WatcherInit ==
  /\ value \in Values
  /\ row = NoValue
  /\ watcher = [w \in Objects |-> Unborn]
  /\ told = NoValue
  /\ missed = FALSE
  /\ misread = FALSE

Unfinished == {w \in Objects : watcher[w].step \in {"persist", "report"}}

\* startMonitor, of a new process or in place of the worker before (restartMonitor):
\* buildConfig copies the row into the configuration.
Begin(w) ==
  /\ watcher[w].step = "unborn"
  /\ \A o \in 1 .. w - 1 : watcher[o].step # "unborn"
  /\ watcher' = [o \in Objects |->
       IF o = w THEN [Unborn EXCEPT !.step = "idle", !.runs = TRUE, !.loaded = row]
       ELSE IF watcher[o].step = "idle" THEN Gone
       ELSE [watcher[o] EXCEPT !.runs = FALSE]]
  /\ misread' = (misread \/ row # told \/ row = Empty \/ Unfinished # {})
  /\ missed' = FALSE
  /\ UNCHANGED <<value, row, told>>

\* The process dies with its workers and their checks.
Die ==
  /\ \E w \in Objects : watcher[w].runs
  /\ watcher' = [w \in Objects |->
       IF watcher[w].step = "unborn" THEN Unborn ELSE Gone]
  /\ UNCHANGED <<value, row, told, missed, misread>>

\* Mutant: the value of the configuration is taken when nothing was read yet or not.
Remembers(w) == watcher[w].loaded

\* "Load previous value from config (first run) or from memory": an empty string counts
\* as no value.
Previous(w) ==
  IF watcher[w].prev = NoValue /\ watcher[w].loaded # Empty
  THEN watcher[w].loaded ELSE watcher[w].prev

\* performCheck up to the write of the row.
Read(w) ==
  /\ watcher[w].runs
  /\ watcher[w].step = "idle"
  /\ watcher' = [watcher EXCEPT ![w].old = Previous(w), ![w].prev = value, ![w].step = "persist"]
  /\ UNCHANGED <<value, row, told, missed, misread>>

\* persistPreviousValue, whose failure is ignored.
Persist(w) ==
  /\ watcher[w].step = "persist"
  /\ row' \in {watcher[w].prev, row}
  /\ watcher' = [watcher EXCEPT ![w].step = "report"]
  /\ UNCHANGED <<value, told, missed, misread>>

Changed(w) == watcher[w].old # NoValue /\ watcher[w].prev # watcher[w].old

\* The end of the check: the timer for the next one, if the worker still runs.
Finish(w) ==
  /\ watcher[w].step = "report"
  /\ watcher' = [watcher EXCEPT ![w] =
       IF watcher[w].runs THEN [watcher[w] EXCEPT !.step = "idle"] ELSE Gone]
  /\ UNCHANGED <<value, row, misread>>

\* The initial reading is shown; a change is notified by processResult.
Report(w) ==
  /\ Finish(w)
  /\ told' = IF watcher[w].old = NoValue \/ Changed(w) THEN watcher[w].prev ELSE told
  /\ missed' = (missed /\ told' # watcher[w].prev)

\* isInMaintenance or the insert of the heartbeat fails, which ends processResult before
\* the notification, or the sending does, which is logged: the value stays remembered.
FailReport(w) ==
  /\ Finish(w)
  /\ missed' = (told # watcher[w].prev)
  /\ UNCHANGED told

ValueChanges ==
  /\ value' \in Values \ {value}
  /\ UNCHANGED <<row, watcher, told, missed, misread>>

WatcherNext ==
  \/ \E w \in Objects : Begin(w) \/ Read(w) \/ Persist(w) \/ Report(w) \/ FailReport(w)
  \/ Die
  \/ ValueChanges

-----------------------------------------------------------------------------
Live == Unfinished \cup {w \in Objects : watcher[w].step = "idle"}

\* One worker at a time checks, and what it will compare with is what was told, or what
\* a failed report kept from being told.
ComparesInv ==
  ~misread => \A w \in Live :
    /\ watcher[w].runs
    /\ \A o \in Live : o = w
    /\ watcher[w].step # "idle" => watcher[w].prev \in Values
    /\ ~missed => IF watcher[w].step = "idle" THEN Previous(w) = told
                                             ELSE watcher[w].old = told

\* Every change between two checks whose report does not fail is told once, and from
\* what was told before, also across restarts: unless the report of that value failed,
\* a worker started while a check was under way, after one was cut off or its write had
\* failed, or from an empty string.
ChangesToldOnce ==
  [][ \A w \in Objects :
        (watcher[w].step = "report" /\ watcher'[w].step = "idle" /\ ~misread /\ ~missed)
          => /\ Changed(w) => watcher[w].old = told
             /\ told' = watcher[w].prev \/ missed' ]_watcherVars
=============================================================================
