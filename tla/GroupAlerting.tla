---------------------------- MODULE GroupAlerting ----------------------------
(***************************************************************************)
(* Grouped notifications: groupNotificationService shared by the workers   *)
(* of the monitors of one group with groupNotifications set.  The group    *)
(* announces one outage when its first monitor goes down and one recovery  *)
(* when the last one is back up; the set it keeps for that lives in        *)
(* memory, is refilled from the database at startup, and is read and       *)
(* written by beats that interleave wherever they await.                   *)
(*                                                                         *)
(* The monitors are not agents', and their beats are StatusPipeline's.  A  *)
(* worker's fields are its own, so a beat settles them before the awaits   *)
(* of dispatchNotification.  A monitor is deleted and its worker replaced  *)
(* between two beats; WorkerManager has the other cases, and MonitorWorker *)
(* the maintenance windows, which only keep notifications from being made. *)
(***************************************************************************)
EXTENDS StatusPipeline

CONSTANTS
  Monitors,       \* the monitors below the group
  CheckStatuses,  \* what their checks can return
  Cooldown,       \* their notificationCooldownSeconds
  Disturbances,   \* what else happens in this instance
  None            \* no monitor

ASSUME GroupStatusesAssumption == CheckStatuses \subseteq Problem \union {"up"}
ASSUME GroupCooldownAssumption == Cooldown \in 0 .. MaxCooldown
ASSUME GroupNoneAssumption     == None \notin Monitors

VARIABLES
  target,       \* what a check of each monitor would report now
  worker,       \* the worker of each monitor
  phase,        \* where its beat is
  beat,         \* the beat in flight
  note,         \* the dispatchNotification call in flight
  status,       \* monitors.status
  group,        \* the GroupNotifState: downMonitorIds and notifiedDown
  server,       \* where startAll is
  starting,     \* the monitor whose first beat startAll awaits
  found,        \* the down monitors initialize has read
  told,         \* history: what the users of the group were told last
  calm          \* history: nothing of Disturbances has happened so far

vars == <<target, worker, phase, beat, note, status, group,
          server, starting, found, told, calm>>

Phases  == {"waiting", "starting", "idle", "checked", "looking", "alarming",
            "recovering", "writing", "deleted"}
Stages  == {"starting", "initializing", "running"}
Group   == [down : SUBSET Monitors, notified : BOOLEAN]

NoGroup == [down |-> {}, notified |-> FALSE]
NoBeat  == [status |-> "pending", suppress |-> FALSE, maint |-> FALSE,
            cooldown |-> 0, startup |-> FALSE]
NoNote  == [old |-> "pending", new |-> "pending", flushed |-> FALSE]

TypeOK ==
  /\ target \in [Monitors -> CheckStatuses]
  /\ worker \in [Monitors -> WorkerState]
  /\ phase \in [Monitors -> Phases]
  /\ beat \in [Monitors -> BeatState]
  /\ note \in [Monitors -> Dispatch]
  /\ status \in [Monitors -> Status]
  /\ group \in Group
  /\ server \in Stages
  /\ starting \in Monitors \union {None}
  /\ found \subseteq Monitors
  /\ told \in {"up", "down"}
  /\ calm \in BOOLEAN

\* A worker that has seen its new monitor up once.
SettledUp == [FreshWorker EXCEPT !.previousStatus  = "up",
                                 !.confirmedStatus = "up",
                                 !.isFirstBeat     = FALSE]

\* The server runs and every monitor is up.
Init ==
  /\ target \in [Monitors -> CheckStatuses]
  /\ worker = [m \in Monitors |-> SettledUp]
  /\ phase = [m \in Monitors |-> "idle"]
  /\ beat = [m \in Monitors |-> NoBeat]
  /\ note = [m \in Monitors |-> NoNote]
  /\ status = [m \in Monitors |-> "up"]
  /\ group = NoGroup
  /\ server = "running"
  /\ starting = None
  /\ found = {}
  /\ told = "up"
  /\ calm = TRUE

-----------------------------------------------------------------------------
(***************************************************************************)
(* The beats.                                                              *)
(***************************************************************************)

Goes(m, p) == phase' = [phase EXCEPT ![m] = p]

BeginBeat(m) ==
  /\ phase[m] \in {"starting", "idle"}
  /\ LET s == Judged(target[m]) IN
       /\ beat' = [beat EXCEPT ![m] =
            [status |-> s, suppress |-> FALSE, maint |-> FALSE,
             cooldown |-> Cooldown, startup |-> StartupBeat(worker[m])]]
       /\ worker' = [worker EXCEPT ![m] = CountRetry(worker[m], s)]
  /\ Goes(m, "checked")
  /\ UNCHANGED <<target, note, status, group, server, starting,
                 found, told, calm>>

\* processResult up to the first await of dispatchNotification.
Decide(m) ==
  /\ phase[m] = "checked"
  /\ worker' = [worker EXCEPT ![m] = AfterBeat(worker[m], beat[m])]
  /\ LET calls == BeatDispatches(worker[m], beat[m]) IN
       \/ calls = {} /\ note' = note /\ Goes(m, "writing")
       \/ \E d \in calls : note' = [note EXCEPT ![m] = d] /\ Goes(m, "looking")
  /\ UNCHANGED <<target, beat, status, group, server, starting,
                 found, told, calm>>

\* Mutants: only a group already down records the monitor; only the first one.
GoesDownLater(m) ==
  /\ phase[m] = "looking"
  /\ note[m].new \in Problem
  /\ group' = [down     |-> IF group.notified THEN group.down \union {m} ELSE group.down,
               notified |-> TRUE]
  /\ Goes(m, IF group.notified THEN "writing" ELSE "alarming")
  /\ UNCHANGED <<target, worker, beat, note, status, server,
                 starting, found, told, calm>>

GoesDownFirst(m) ==
  /\ phase[m] = "looking"
  /\ note[m].new \in Problem
  /\ group' = [down     |-> IF group.notified THEN group.down ELSE group.down \union {m},
               notified |-> TRUE]
  /\ Goes(m, IF group.notified THEN "writing" ELSE "alarming")
  /\ UNCHANGED <<target, worker, beat, note, status, server,
                 starting, found, told, calm>>

\* handleMonitorDown: the first one makes the group's outage known.
GoesDown(m) ==
  /\ phase[m] = "looking"
  /\ note[m].new \in Problem
  /\ group' = [down |-> group.down \union {m}, notified |-> TRUE]
  /\ Goes(m, IF group.notified THEN "writing" ELSE "alarming")
  /\ UNCHANGED <<target, worker, beat, note, status, server,
                 starting, found, told, calm>>

\* handleMonitorUp is called only for what was a problem.
LeavesDown(m) == note[m].old \in Problem

AllRecovered(m) ==
  LeavesDown(m) /\ group.down \ {m} = {} /\ group.notified

GoesUp(m) ==
  /\ phase[m] = "looking"
  /\ note[m].new \notin Problem
  /\ group' = IF LeavesDown(m)
                THEN [down     |-> group.down \ {m},
                      notified |-> group.notified /\ ~AllRecovered(m)]
                ELSE group
  /\ Goes(m, IF AllRecovered(m) THEN "recovering" ELSE "writing")
  /\ UNCHANGED <<target, worker, beat, note, status, server,
                 starting, found, told, calm>>

\* Mutant: the recovery is not sent.
SendAlarmsOnly(m) ==
  /\ phase[m] \in {"alarming", "recovering"}
  /\ told' = IF phase[m] = "alarming" THEN "down" ELSE told
  /\ Goes(m, "writing")
  /\ UNCHANGED <<target, worker, beat, note, status, group,
                 server, starting, found, calm>>

\* sendForGroup has gone through the channels.
Send(m) ==
  /\ phase[m] \in {"alarming", "recovering"}
  /\ told' = IF phase[m] = "alarming" THEN "down" ELSE "up"
  /\ Goes(m, "writing")
  /\ UNCHANGED <<target, worker, beat, note, status, group,
                 server, starting, found, calm>>

\* The catch block of dispatchNotification: a failing query on the way loses
\* the notification, and the beat goes on as if it had been made.
NotificationLost(m) ==
  /\ "fail" \in Disturbances
  /\ phase[m] \in {"looking", "alarming", "recovering"}
  /\ calm' = FALSE
  /\ Goes(m, "writing")
  /\ UNCHANGED <<target, worker, beat, note, status, group,
                 server, starting, found, told>>

\* updateStatus; startAll goes on to the next monitor.
FinishBeat(m) ==
  /\ phase[m] = "writing"
  /\ status' = [status EXCEPT ![m] = beat[m].status]
  /\ beat' = [beat EXCEPT ![m] = NoBeat]
  /\ note' = [note EXCEPT ![m] = NoNote]
  /\ starting' = IF starting = m THEN None ELSE starting
  /\ Goes(m, "idle")
  /\ UNCHANGED <<target, worker, group, server, found, told, calm>>

-----------------------------------------------------------------------------
(***************************************************************************)
(* The startup of the server.                                              *)
(***************************************************************************)

\* The process dies, with all that is in memory, and is started again.
Reboot ==
  /\ "reboot" \in Disturbances
  /\ worker' = [m \in Monitors |-> FreshWorker]
  /\ phase' = [m \in Monitors |-> IF phase[m] = "deleted" THEN "deleted" ELSE "waiting"]
  /\ beat' = [m \in Monitors |-> NoBeat]
  /\ note' = [m \in Monitors |-> NoNote]
  /\ group' = NoGroup
  /\ server' = "starting"
  /\ starting' = None
  /\ found' = {}
  /\ calm' = FALSE
  /\ UNCHANGED <<target, status, told>>

\* startAll starts the monitors one after the other and awaits the first beat
\* of each; those started before keep beating.
StartMonitor(m) ==
  /\ server = "starting"
  /\ starting = None
  /\ phase[m] = "waiting"
  /\ worker' = [worker EXCEPT ![m] = StartedWorker(status[m])]
  /\ starting' = m
  /\ Goes(m, "starting")
  /\ UNCHANGED <<target, beat, note, status, group, server, found,
                 told, calm>>

\* initialize reads which monitors are down (an 'alert' is not among them) ...
ReadDown ==
  /\ server = "starting"
  /\ starting = None
  /\ \A m \in Monitors : phase[m] # "waiting"
  /\ found' = {m \in Monitors : /\ phase[m] # "deleted"
                                /\ status[m] \in Problem \ {"alert"}}
  /\ server' = "initializing"
  /\ UNCHANGED <<target, worker, phase, beat, note, status, group,
                 starting, told, calm>>

\* ... and adds them to the group, whose outage then counts as announced.
Initialize ==
  /\ server = "initializing"
  /\ group' = [down     |-> group.down \union found,
               notified |-> group.notified \/ found # {}]
  /\ found' = {}
  /\ server' = "running"
  /\ UNCHANGED <<target, worker, phase, beat, note, status,
                 starting, told, calm>>

-----------------------------------------------------------------------------
(***************************************************************************)
(* The environment; requests are served once the server runs.              *)
(***************************************************************************)

\* DELETE /monitors/:id: nothing calls removeMonitor.
Delete(m) ==
  /\ "delete" \in Disturbances
  /\ server = "running"
  /\ phase[m] = "idle"
  /\ calm' = FALSE
  /\ Goes(m, "deleted")
  /\ UNCHANGED <<target, worker, beat, note, status, group,
                 server, starting, found, told>>

\* restartMonitor, for an edited monitor or a changed setting.
Restart(m) ==
  /\ "restart" \in Disturbances
  /\ server = "running"
  /\ phase[m] = "idle"
  /\ worker' = [worker EXCEPT ![m] = StartedWorker(status[m])]
  /\ calm' = FALSE
  /\ Goes(m, "starting")
  /\ UNCHANGED <<target, beat, note, status, group, server,
                 starting, found, told>>

TargetChanges(m) ==
  /\ \E s \in CheckStatuses \ {target[m]} : target' = [target EXCEPT ![m] = s]
  /\ UNCHANGED <<worker, phase, beat, note, status, group, server,
                 starting, found, told, calm>>

Tick ==
  /\ worker' = [m \in Monitors |-> Age(worker[m])]
  /\ UNCHANGED <<target, phase, beat, note, status, group, server,
                 starting, found, told, calm>>

BeatStep(m) ==
  \/ BeginBeat(m) \/ Decide(m) \/ GoesDown(m) \/ GoesUp(m) \/ Send(m)
  \/ FinishBeat(m)

Next ==
  \/ \E m \in Monitors : \/ BeatStep(m) \/ NotificationLost(m) \/ StartMonitor(m)
                         \/ Delete(m) \/ Restart(m) \/ TargetChanges(m)
  \/ Reboot \/ ReadDown \/ Initialize
  \/ Tick

Spec == Init /\ [][Next]_vars

\* Every await is answered, every timer fires and the clock runs.
FairSpec ==
  /\ Spec
  /\ \A m \in Monitors : WF_vars(BeatStep(m)) /\ WF_vars(StartMonitor(m))
  /\ WF_vars(ReadDown) /\ WF_vars(Initialize) /\ WF_vars(Tick)

-----------------------------------------------------------------------------
\* The group counts as down exactly while one of its monitors does: otherwise it
\* would announce every outage again, or none any more.  Both operations of the
\* service and its initialization, in any order, keep it so.
GroupConsistent == group.notified <=> group.down # {}

\* A group's recovery is never on its way while its alarm still is, although the
\* alarm awaits more queries and other monitors' beats go on meanwhile.
RecoveryAfterAlarm ==
  [][ \A m, k \in Monitors :
        phase'[m] = "recovering" /\ phase[m] # "recovering"
          => phase[k] # "alarming" ]_vars

\* While nothing disturbs them and no cooldown delays them, the group's monitors
\* are down for the group exactly when their workers have confirmed a problem, in
\* whatever order the beats interleave.
DownSetIsConfirmed ==
  calm /\ Cooldown = 0 =>
    \A m \in Monitors :
      phase[m] # "looking"
        => (m \in group.down <=> worker[m].confirmedStatus \in Problem)

\* When all its monitors are up again, the users of an undisturbed group are told
\* so ("one recovery when all are back up").
GroupRecovers ==
  []calm /\ <>[](\A m \in Monitors : Judged(target[m]) = "up")
    => <>[](told = "up" /\ ~group.notified)

(***************************************************************************)
(* The inductive invariant.                                                *)
(***************************************************************************)

\* Whoever is announcing the group's outage still counts as down.
AlarmingIsDown == \A m \in Monitors : phase[m] = "alarming" => m \in group.down

\* Nothing is restored, suppressed or queued as long as nothing was disturbed.
CalmBeats ==
  calm =>
    /\ server = "running" /\ starting = None
    /\ \A m \in Monitors :
         /\ phase[m] \notin {"waiting", "starting", "deleted"}
         /\ ~worker[m].restoredFromDb
         /\ phase[m] # "idle" =>
              /\ ~beat[m].maint /\ ~beat[m].startup /\ ~beat[m].suppress
              /\ beat[m].cooldown = Cooldown
              /\ beat[m].status \in Problem \union {"up"}

\* The notification in flight takes the group from what the worker had confirmed
\* to what it has confirmed now.
NoteIsChange ==
  calm /\ Cooldown = 0 =>
    \A m \in Monitors :
      phase[m] = "looking" =>
        /\ note[m].new \in Problem <=> worker[m].confirmedStatus \in Problem
        /\ note[m].old \in Problem <=> m \in group.down

IInv ==
  /\ GroupConsistent
  /\ AlarmingIsDown
  /\ CalmBeats
  /\ NoteIsChange
  /\ DownSetIsConfirmed
=============================================================================
