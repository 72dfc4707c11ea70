----------------------------- MODULE Maintenance -----------------------------
(***************************************************************************)
(* maintenanceService for one monitor: the windows that may cover it, the  *)
(* cached answer isInMaintenance gives its worker, and the job that        *)
(* announces that a window opens or closes.  A step ends where the code    *)
(* awaits, so questions, edits and job runs interleave, and the server may *)
(* die between any two of them.  Which windows the group tree brings to a  *)
(* monitor is the subject of Inheritance: here each has its place.         *)
(***************************************************************************)
EXTENDS ServerClock, FiniteSets, Functions

CONSTANTS
  Windows,     \* ids of maintenance_windows
  Place,       \* where each one is defined, seen from the monitor
  Schedules,   \* the schedules users enter
  DayLength,   \* ticks of a day
  CacheTtl,    \* CACHE_TTL_MS, in ticks
  Retention,   \* ticks a window that is over is kept
  Askers,      \* callers of isInMaintenance
  Jobs,        \* runs of the transition job that may overlap
  MaxSlack,    \* bound: overlapping job runs and crashes
  None,
  NoRow,       \* an id not used yet
  Deleted      \* an id whose row is gone

Places == {"own", "group", "global"}
Times == 0 .. Horizon

\* A schedule: the first and last time of a one_time window, or the time of day
\* and the days of the week of a recurring one; None where the column is null.
Schedule == [kind : {"one_time", "daily", "weekly"},
             from : Times \union {None}, to : Times \union {None},
             days : SUBSET (0 .. 6)]

Window == [plan : Schedule, active : BOOLEAN,
           startTold : BOOLEAN, endTold : BOOLEAN]

\* What the transition job may have to announce.
Due == Windows \X {"start", "end"}

\* A window that is over is kept for 30 days, longer than a question lasts.
ASSUME MaintenanceAssumption ==
  /\ Place \in [Windows -> Places]
  /\ DayLength \in Nat \ {0} /\ Retention \in Nat \ {0}
  /\ {CacheTtl, MaxSlack} \subseteq Nat
  /\ Schedules \subseteq Schedule
  /\ IsFiniteSet(Jobs)

ASSUME NothingAssumption ==
  /\ None \notin Times \union Due
  /\ None \notin [by : Askers, value : BOOLEAN] \union [value : BOOLEAN, at : Times]
  /\ NoRow \notin Window /\ Deleted \notin Window /\ NoRow # Deleted

VARIABLES
  rows,        \* maintenance_windows
  disabled,    \* the windows switched off for the monitor or one of its groups
  cache,       \* the monitor's entry of maintenanceCache
  unclear,     \* edits stored whose maintenanceCache.clear() is still to come
  asks,        \* calls of isInMaintenance in flight
  jobs,        \* runs of checkMaintenanceTransitions in flight
  answered     \* the answer given by the latest step

\* History.
VARIABLES
  announced,   \* how often each window's start and end was announced
  steady,      \* ticks since an edit or a change of the true answer, up to Stalest + 1
  slack        \* job runs that overlapped another, and crashes

mvars == <<rows, disabled, cache, unclear, asks, jobs, answered,
           announced, steady, slack>>

-----------------------------------------------------------------------------
(***************************************************************************)
(* The rows.                                                               *)
(***************************************************************************)
TimeOfDay(t) == t % DayLength
DayOfWeek(t) == (t \div DayLength) % 7

\* isTimeInRange: both ends included, overnight when it starts after it ends.
InRange(t, from, to) ==
  IF from <= to THEN from <= t /\ t <= to ELSE t >= from \/ t <= to

\* isWindowActive.
ActiveAt(w, t) ==
  LET p == w.plan IN
    /\ w.active
    /\ p.from # None /\ p.to # None
    /\ \/ p.kind = "one_time" /\ p.from <= t /\ t <= p.to
       \/ p.kind = "daily" /\ InRange(TimeOfDay(t), p.from, p.to)
       \/ /\ p.kind = "weekly"
          /\ DayOfWeek(t) \in p.days
          /\ InRange(TimeOfDay(t), p.from, p.to)

Stored == {w \in Windows : rows[w] \notin {NoRow, Deleted}}

\* The windows of one place that an asker finds open, given what it knows.
OpenIn(place, off, t) ==
  {w \in Stored : Place[w] = place /\ (place = "own" \/ w \notin off)
                    /\ ActiveAt(rows[w], t)}

\* What isInMaintenance would answer if nothing was cached or awaited.
Truth == \E p \in Places : OpenIn(p, disabled, now) # {}

\* An answer is at most this old: its question may have begun a tick before it
\* was cached.
Stalest == CacheTtl + 1

\* The true answer is the same after the step, some ticks later.
Steady(ticks) ==
  steady' = IF Truth' # Truth THEN 0
            ELSE IF steady + ticks > Stalest THEN Stalest + 1 ELSE steady + ticks

-----------------------------------------------------------------------------
Idle == [phase |-> "idle", at |-> 0, off |-> {}]
AskState == [phase : {"idle", "disables"} \union Places, at : Times,
             off : SUBSET Windows]

NoJob == [phase |-> "idle", todo |-> {}, marking |-> None]
JobState == [phase : {"idle", "run"}, todo : SUBSET Due, marking : Due \union {None}]

MaintenanceTypeOK ==
  /\ rows \in [Windows -> Window \union {NoRow, Deleted}]
  /\ disabled \subseteq Windows
  /\ cache \in [value : BOOLEAN, at : Times] \union {None}
  /\ unclear \in 0 .. calls
  /\ asks \in [Askers -> AskState]
  /\ jobs \in [Jobs -> JobState]
  /\ answered \in [by : Askers, value : BOOLEAN] \union {None}
  /\ announced \in [Due -> Nat]
  /\ steady \in 0 .. Stalest + 1
  /\ slack \in 0 .. MaxSlack

MaintenanceInit ==
  /\ rows = [w \in Windows |-> NoRow]
  /\ disabled = {}
  /\ cache = None
  /\ unclear = 0
  /\ asks = [a \in Askers |-> Idle]
  /\ jobs = [j \in Jobs |-> NoJob]
  /\ answered = None
  /\ announced = [d \in Due |-> 0]
  /\ steady = 0
  /\ slack = 0

-----------------------------------------------------------------------------
(***************************************************************************)
(* Edits.  The cache is emptied when the statement has been answered, and  *)
(* that is a step of its own.                                              *)
(***************************************************************************)
Edited ==
  /\ Call
  /\ unclear' = unclear + 1
  /\ answered' = None
  /\ steady' = 0
  /\ UNCHANGED <<now, cache, asks, jobs, announced, slack>>

CreateWindow(w) ==
  /\ rows[w] = NoRow
  /\ \E p \in Schedules, active \in BOOLEAN :
       rows' = [rows EXCEPT ![w] = [plan |-> p, active |-> active,
                                    startTold |-> FALSE, endTold |-> FALSE]]
  /\ UNCHANGED disabled
  /\ Edited

\* The controller hands every field of the body on, so a field the body leaves
\* out is null in the row; only the flag keeps its value when it is left out.
UpdateWindow(w) ==
  /\ w \in Stored
  /\ \E p \in Schedules \union {[rows[w].plan EXCEPT !.from = None, !.to = None]},
        active \in BOOLEAN :
       rows' = [rows EXCEPT ![w].plan = p, ![w].active = active]
  /\ UNCHANGED disabled
  /\ Edited

DeleteWindow(w) ==
  /\ w \in Stored
  /\ rows' = [rows EXCEPT ![w] = Deleted]
  /\ disabled' = disabled \ {w}
  /\ Edited

DisableWindow(w) ==
  /\ w \in Stored
  /\ disabled' = disabled \union {w}
  /\ UNCHANGED rows
  /\ Edited

EnableWindow(w) ==
  /\ disabled' = disabled \ {w}
  /\ UNCHANGED rows
  /\ Edited

ClearCache ==
  /\ unclear > 0
  /\ unclear' = unclear - 1
  /\ cache' = None
  /\ answered' = None
  /\ UNCHANGED <<now, calls, rows, disabled, asks, jobs, announced, steady, slack>>

\* cleanupExpiredOneTime.
Expire(w) ==
  /\ w \in Stored
  /\ rows[w].plan.kind = "one_time" /\ rows[w].plan.to # None
  /\ rows[w].plan.to < now - Retention
  /\ rows' = [rows EXCEPT ![w] = Deleted]
  /\ disabled' = disabled \ {w}
  /\ answered' = None
  /\ UNCHANGED <<now, calls, cache, unclear, asks, jobs, announced, slack>>
  /\ Steady(0)

-----------------------------------------------------------------------------
(***************************************************************************)
(* isInMaintenance.                                                        *)
(***************************************************************************)
\* Mutant of Usable: the entry's age is not looked at.
UsableForEver(entry) == entry # None

Usable(entry) == entry # None /\ now - entry.at <= CacheTtl

Asked(a) == asks[a].phase # "idle"

Answer(a, value) == answered' = [by |-> a, value |-> value]

Ask(a) ==
  /\ ~Asked(a)
  /\ Call
  /\ IF Usable(cache)
       THEN Answer(a, cache.value) /\ UNCHANGED <<cache, asks>>
       ELSE /\ cache' = None
            /\ asks' = [asks EXCEPT ![a] = [Idle EXCEPT !.phase = "disables", !.at = now]]
            /\ answered' = None
  /\ UNCHANGED <<now, rows, disabled, unclear, jobs, announced, steady, slack>>

ReadDisables(a) ==
  /\ asks[a].phase = "disables"
  /\ asks' = [asks EXCEPT ![a].phase = "own", ![a].off = disabled]
  /\ answered' = None
  /\ UNCHANGED <<now, calls, rows, disabled, cache, unclear, jobs, announced,
                 steady, slack>>

\* One query per place, nearest first; the first open window ends the search.
ReadPlace(a) ==
  LET ask == asks[a]
      open == OpenIn(ask.phase, ask.off, ask.at) # {} IN
  /\ ask.phase \in Places
  /\ IF open \/ ask.phase = "global"
       THEN /\ asks' = [asks EXCEPT ![a] = Idle]
            /\ cache' = [value |-> open, at |-> now]
            /\ Answer(a, open)
       ELSE /\ asks' = [asks EXCEPT ![a].phase =
                          IF ask.phase = "own" THEN "group" ELSE "global"]
            /\ answered' = None
            /\ UNCHANGED cache
  /\ UNCHANGED <<now, calls, rows, disabled, unclear, jobs, announced, steady, slack>>

-----------------------------------------------------------------------------
(***************************************************************************)
(* checkMaintenanceTransitions.                                            *)
(***************************************************************************)

\* What the job decides about a row it has read at time t.
DueAt(w, t) ==
  \/ ActiveAt(w, t) /\ ~w.startTold
  \/ ~ActiveAt(w, t) /\ w.startTold /\ ~w.endTold

DueNow == {d \in Due : /\ d[1] \in Stored
                       /\ rows[d[1]].active
                       /\ DueAt(rows[d[1]], now)
                       /\ (d[2] = "start") = ActiveAt(rows[d[1]], now)}

\* The timer empties the cache, whether or not the last run has ended; the rows
\* are read once, before the first message.
StartJob(j) ==
  /\ jobs[j].phase = "idle"
  /\ slack' = slack + Cardinality({i \in Jobs : jobs[i].phase # "idle"})
  /\ slack' <= MaxSlack
  /\ jobs' = [jobs EXCEPT ![j] = [phase |-> "run", todo |-> DueNow, marking |-> None]]
  /\ cache' = None
  /\ answered' = None
  /\ UNCHANGED <<now, calls, rows, disabled, unclear, asks, announced, steady>>

Announce(j) ==
  /\ jobs[j].phase = "run" /\ jobs[j].marking = None
  /\ \E d \in jobs[j].todo :
       /\ announced' = [announced EXCEPT ![d] = @ + 1]
       /\ jobs' = [jobs EXCEPT ![j].marking = d, ![j].todo = @ \ {d}]
  /\ answered' = None
  /\ UNCHANGED <<now, calls, rows, disabled, cache, unclear, asks, steady, slack>>

\* Mutant of Marked: the end is announced and not marked.
MarkedStart(w, event) == IF event = "start" THEN [w EXCEPT !.startTold = TRUE] ELSE w

Marked(w, event) ==
  IF event = "start" THEN [w EXCEPT !.startTold = TRUE, !.endTold = FALSE]
                     ELSE [w EXCEPT !.endTold = TRUE]

Mark(j) ==
  /\ jobs[j].marking # None
  /\ LET w == jobs[j].marking[1] IN
       rows' = IF w \in Stored
                 THEN [rows EXCEPT ![w] = Marked(@, jobs[j].marking[2])] ELSE rows
  /\ jobs' = [jobs EXCEPT ![j].marking = None]
  /\ answered' = None
  /\ UNCHANGED <<now, calls, disabled, cache, unclear, asks, announced, steady, slack>>

EndJob(j) ==
  /\ jobs[j].phase = "run" /\ jobs[j].todo = {} /\ jobs[j].marking = None
  /\ jobs' = [jobs EXCEPT ![j] = NoJob]
  /\ answered' = None
  /\ UNCHANGED <<now, calls, rows, disabled, cache, unclear, asks, announced,
                 steady, slack>>

-----------------------------------------------------------------------------
WindowStep ==
  \/ \E w \in Windows :
       \/ CreateWindow(w) \/ UpdateWindow(w) \/ DeleteWindow(w)
       \/ DisableWindow(w) \/ EnableWindow(w) \/ Expire(w)
  \/ ClearCache
  \/ \E j \in Jobs : StartJob(j) \/ Announce(j) \/ Mark(j) \/ EndJob(j)

AskStep == \E a \in Askers : Ask(a) \/ ReadDisables(a) \/ ReadPlace(a)

\* A question lasts at most a tick.
MaintenanceTick ==
  /\ \A a \in Askers : Asked(a) => asks[a].at = now
  /\ unclear = 0
  /\ answered' = None
  /\ UNCHANGED <<rows, disabled, cache, unclear, asks, jobs, announced, slack>>
  /\ Steady(1)

\* The process dies and starts again: what it held in memory is gone.
MaintenanceCrash ==
  /\ slack < MaxSlack
  /\ slack' = slack + 1
  /\ cache' = None
  /\ unclear' = 0
  /\ asks' = [a \in Askers |-> Idle]
  /\ jobs' = [j \in Jobs |-> NoJob]
  /\ answered' = None
  /\ UNCHANGED <<rows, disabled, announced, steady>>

-----------------------------------------------------------------------------
(***************************************************************************)
(* What holds.                                                             *)
(***************************************************************************)

\* Whatever was edited while isInMaintenance awaited its queries, and however its
\* cached answers crossed the clears: once no window was edited, opened or closed
\* for a cache lifetime and the length of a question, every answer is right.
AnswersFollowWindows ==
  answered # None /\ steady > Stalest => answered.value = Truth

\* A window's start is announced once, and its end only after its start and
\* once, but for one more message for each crash and each overlapping run
\* (checkMaintenanceTransitions marks the row after the message, and a run's late
\* mark of the start takes back the mark of the end).
TransitionsToldOnce ==
  \A w \in Windows :
    /\ announced[<<w, "start">>] <= 1 + slack
    /\ announced[<<w, "end">>] <= announced[<<w, "start">>] + slack
    /\ announced[<<w, "end">>] > 0 => announced[<<w, "start">>] > 0

-----------------------------------------------------------------------------
(***************************************************************************)
(* Why they hold: the inductive invariants.                                *)
(***************************************************************************)
\* A question that no edit and no change of the answer has overtaken has found what
\* it would find now, as far as it has got; what is cached was found so.
QuestionInv(a) ==
  LET ask == asks[a] IN
    /\ ask.at \in {now - 1, now}
    /\ steady > now - ask.at =>
         /\ Truth <=> \E p \in Places : OpenIn(p, disabled, ask.at) # {}
         /\ ask.phase # "disables" => ask.off \intersect Stored = disabled \intersect Stored
         /\ ask.phase \in {"group", "global"} => OpenIn("own", disabled, ask.at) = {}
         /\ ask.phase = "global" => OpenIn("group", disabled, ask.at) = {}

CacheInv ==
  cache # None =>
    cache.at <= now /\ (steady > now - cache.at + 1 => cache.value = Truth)

AnswersInv ==
  /\ \A a \in Askers : Asked(a) => QuestionInv(a)
  /\ CacheInv
  /\ AnswersFollowWindows

Doing(d)   == {j \in Jobs : d \in jobs[j].todo}
Telling(d) == {j \in Jobs : jobs[j].marking = d}

\* The row does not say yet that the window has begun.
Untold(w) == rows[w] = NoRow \/ (w \in Stored /\ ~rows[w].startTold)

\* The job that runs alone announces the end next.
EndOpen(w) ==
  /\ w \in Stored /\ rows[w].startTold /\ ~rows[w].endTold
  /\ Doing(<<w, "end">>) = {} /\ Telling(<<w, "end">>) = {}

\* Every announcement of the start is either on the row, or about to be written, or lost
\* to a crash; every mark of the start still to come may allow one more end.
StartInv(w) ==
  LET start == <<w, "start">> IN
    /\ announced[start] + Cardinality(Doing(start)) <= 1 + slack
    /\ Untold(w) /\ Doing(start) = {} /\ Telling(start) = {} => announced[start] <= slack
    /\ rows[w] = NoRow => announced[start] = 0 /\ Doing(start) = {}

EndInv(w) ==
  LET start == <<w, "start">>
      end == <<w, "end">> IN
    /\ announced[end] + Cardinality(Doing(end)) + Cardinality(Telling(start))
         + (IF EndOpen(w) THEN 1 ELSE 0) <= announced[start] + slack
    /\ Untold(w) \/ announced[start] = 0
         => announced[end] = 0 /\ Doing(end) = {} /\ Telling(end) = {}
    /\ announced[start] = 0 => Telling(start) = {} /\ (w \in Stored => Untold(w))

TransitionsInv ==
  /\ \A j \in Jobs : jobs[j].phase = "idle" => jobs[j] = NoJob
  /\ \A w \in Windows : StartInv(w) /\ EndInv(w)
=============================================================================
