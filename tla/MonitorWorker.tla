---------------------------- MODULE MonitorWorker ----------------------------
(***************************************************************************)
(* One monitor and the worker that checks it: BaseMonitorWorker and its    *)
(* environment.  A beat is three steps, separated where the code awaits:   *)
(* the check result and the maintenance state are read (BeginBeat), the    *)
(* result is judged and announced (Decide), the status column is written   *)
(* (FinishBeat).  Between them the target, the maintenance windows and the *)
(* clock move, the process may die or the worker be replaced, and every    *)
(* database call may fail.                                                 *)
(*                                                                         *)
(* A worker that is stopped while a beat of it is in flight, and two       *)
(* workers for one monitor, are the subject of WorkerManager.              *)
(***************************************************************************)
EXTENDS StatusPipeline

CONSTANTS
  CheckStatuses,  \* what performCheck of this type of monitor can return
  Cooldowns,      \* the values notificationCooldownSeconds takes
  Proxied,        \* config.proxyAgentDeviceId is set
  AgentMonitor,   \* config.agentDeviceId is set
  Disturbances    \* what the environment does in this instance

ASSUME CheckStatusesAssumption == CheckStatuses \subseteq Status /\ CheckStatuses # {}
ASSUME CooldownsAssumption     == Cooldowns \subseteq 0 .. MaxCooldown /\ Cooldowns # {}
ASSUME ProxiedAssumption       == Proxied \in BOOLEAN
ASSUME AgentMonitorAssumption  == AgentMonitor \in BOOLEAN

\* Only AgentMonitorWorker reassigns notificationCooldownSeconds.
ASSUME CooldownFixedAssumption ==
  ~AgentMonitor => \A c, d \in Cooldowns : c = d

VARIABLES
  target,         \* what a check would report now: status and suppression
  maintenance,    \* what isInMaintenance would answer now
  alive,          \* a worker runs for this monitor
  worker,         \* its fields
  phase,          \* where its beat is
  beat,           \* the beat in flight
  dbStatus        \* monitors.status

(***************************************************************************)
(* History, read by the properties only.                                   *)
(***************************************************************************)
VARIABLES
  dispatched,     \* the dispatchNotification calls of the latest step
  told,           \* the status of the last dispatch ever made
  toldThisLife,   \* the present worker has dispatched something
  quiet,          \* ticks since its last dispatch, up to MaxCooldown
  failures,       \* failing checks since another one was decided on
  inherited       \* confirmedStatus is a problem taken from the database

vars == <<target, maintenance, alive, worker, phase, beat, dbStatus,
          dispatched, told, toldThisLife, quiet, failures, inherited>>

Phases == {"idle", "checked", "decided"}
Untold == "none"

NoBeat == [status |-> "pending", suppress |-> FALSE, maint |-> FALSE,
           cooldown |-> 0, startup |-> FALSE]

\* performCheckViaProxy: no result yet, or none for three intervals.
ProxySilent == [status |-> "down", suppress |-> TRUE]

Targets == {[status |-> s, suppress |-> FALSE] : s \in CheckStatuses}
             \union (IF Proxied THEN {ProxySilent} ELSE {})

TypeOK ==
  /\ target \in Targets
  /\ maintenance \in BOOLEAN
  /\ alive \in BOOLEAN
  /\ worker \in WorkerState
  /\ phase \in Phases
  /\ beat \in BeatState
  /\ dbStatus \in Status
  /\ dispatched \subseteq Dispatch
  /\ told \in Status \union {Untold}
  /\ toldThisLife \in BOOLEAN
  /\ quiet \in 0 .. MaxCooldown
  /\ failures \in 0 .. MaxRetries + 1
  /\ inherited \in BOOLEAN

\* A monitor just created: its row says 'pending' and nothing runs yet.
Init ==
  /\ target \in Targets
  /\ maintenance = FALSE
  /\ alive = FALSE
  /\ worker = FreshWorker
  /\ phase = "idle"
  /\ beat = NoBeat
  /\ dbStatus = "pending"
  /\ dispatched = {}
  /\ told = Untold
  /\ toldThisLife = FALSE
  /\ quiet = MaxCooldown
  /\ failures = 0
  /\ inherited = FALSE

-----------------------------------------------------------------------------
(***************************************************************************)
(* The worker.                                                             *)
(***************************************************************************)

\* startMonitor and start(): getAllActive and restartMonitor skip a paused
\* monitor, and the status column is restored into the new worker, which
\* starts as a new monitor's when that column cannot be read.
StartWorker ==
  /\ ~alive
  /\ dbStatus # "paused"
  /\ alive' = TRUE
  /\ \E row \in {dbStatus} \union (IF "abort" \in Disturbances THEN {"pending"} ELSE {}) :
       /\ worker' = StartedWorker(row)
       /\ inherited' = (row \in Problem)
  /\ dispatched' = {}
  /\ toldThisLife' = FALSE
  /\ quiet' = MaxCooldown
  /\ UNCHANGED <<target, maintenance, phase, beat, dbStatus, told, failures>>

\* beat() up to the first await whose answer it uses.
BeginBeat ==
  /\ alive
  /\ phase = "idle"
  /\ LET status == Judged(target.status) IN
       /\ \E c \in Cooldowns :
            beat' = [status |-> status, suppress |-> target.suppress,
                     maint |-> maintenance, cooldown |-> c,
                     startup |-> StartupBeat(worker)]
       /\ worker' = CountRetry(worker, status)
       /\ failures' = IF status \in Retryable /\ failures <= MaxRetries
                        THEN failures + 1 ELSE failures
  /\ phase' = "checked"
  /\ dispatched' = {}
  /\ UNCHANGED <<target, maintenance, alive, dbStatus, told, toldThisLife,
                 quiet, inherited>>

\* The history a set of dispatches leaves behind.
Record(sends) ==
  /\ dispatched' = sends
  /\ told' \in IF sends = {} THEN {told} ELSE {d.new : d \in sends}
  /\ toldThisLife' = (toldThisLife \/ sends # {})
  /\ quiet' = IF sends = {} THEN quiet ELSE 0

\* processResult from the heartbeat row to flushPendingNotification.
Decide ==
  /\ alive
  /\ phase = "checked"
  /\ worker' = AfterBeat(worker, beat)
  /\ Record(BeatDispatches(worker, beat))
  /\ inherited' = (inherited /\ worker'.confirmedStatus = worker.confirmedStatus)
  /\ failures' = IF beat.status \in Retryable THEN failures ELSE 0
  /\ phase' = "decided"
  /\ UNCHANGED <<target, maintenance, alive, beat, dbStatus>>

\* updateStatus, except for the startup 'down' of an agent; the next beat is
\* scheduled.
FinishBeat ==
  /\ alive
  /\ phase = "decided"
  /\ dbStatus' = IF beat.startup /\ AgentMonitor /\ beat.status = "down"
                   THEN dbStatus ELSE beat.status
  /\ phase' = "idle"
  /\ beat' = NoBeat
  /\ dispatched' = {}
  /\ UNCHANGED <<target, maintenance, alive, worker, told, toldThisLife,
                 quiet, failures, inherited>>

\* The catch block of processResult: a failing isInMaintenance, heartbeat
\* insert, permission read or updateStatus ends the beat where it stands; an
\* SSL status has reset the retries when the permission read fails.
AbortBeat ==
  /\ "abort" \in Disturbances
  /\ alive
  /\ phase # "idle"
  /\ \/ worker' = worker
     \/ /\ phase = "checked"
        /\ beat.status \in Ssl
        /\ worker' = [worker EXCEPT !.retryCount = 0]
  /\ phase' = "idle"
  /\ beat' = NoBeat
  /\ dispatched' = {}
  /\ UNCHANGED <<target, maintenance, alive, dbStatus, told,
                 toldThisLife, quiet, failures, inherited>>

\* dispatchNotification reads an agent's notification types outside its try
\* block: when that read fails nothing is sent, but handleStatusChange or
\* flushPendingNotification has already recorded the notification as made.
DispatchFails ==
  /\ "abort" \in Disturbances
  /\ AgentMonitor
  /\ alive
  /\ phase = "checked"
  /\ BeatDispatches(worker, beat) # {}
  /\ worker' = IF Dispatches(worker, beat) THEN HandleStatusChange(worker, beat)
                                           ELSE AfterBeat(worker, beat)
  /\ inherited' = (inherited /\ worker'.confirmedStatus = worker.confirmedStatus)
  /\ phase' = "idle"
  /\ beat' = NoBeat
  /\ dispatched' = {}
  /\ UNCHANGED <<target, maintenance, alive, dbStatus, told, toldThisLife,
                 quiet, failures>>

-----------------------------------------------------------------------------
(***************************************************************************)
(* Its environment.                                                        *)
(***************************************************************************)

\* The worker and all its fields are lost: the server dies at any point, or
\* restartMonitor replaces the worker (a settings change, an edited monitor) between
\* two beats.  A replaced worker's beat in flight would run to its end, announcing and
\* writing beside the new worker's: what follows is about the beats of one worker.
LoseWorker ==
  /\ "restart" \in Disturbances
  /\ alive
  /\ alive' = FALSE
  /\ worker' = FreshWorker
  /\ phase' = "idle"
  /\ beat' = NoBeat
  /\ dispatched' = {}
  /\ toldThisLife' = FALSE
  /\ quiet' = MaxCooldown
  /\ inherited' = FALSE
  /\ UNCHANGED <<target, maintenance, dbStatus, told, failures>>

\* The pause endpoint, between two beats of the worker: updateStatus, then
\* stopMonitor.
Pause ==
  /\ "pause" \in Disturbances
  /\ phase = "idle"
  /\ dbStatus # "paused"
  /\ dbStatus' = "paused"
  /\ alive' = FALSE
  /\ worker' = FreshWorker
  /\ dispatched' = {}
  /\ toldThisLife' = FALSE
  /\ quiet' = MaxCooldown
  /\ inherited' = FALSE
  /\ UNCHANGED <<target, maintenance, phase, beat, told, failures>>

\* Resuming writes 'pending' and restarts the monitor (StartWorker).
Resume ==
  /\ "pause" \in Disturbances
  /\ ~alive
  /\ dbStatus = "paused"
  /\ dbStatus' = "pending"
  /\ dispatched' = {}
  /\ UNCHANGED <<target, maintenance, alive, worker, phase, beat, told,
                 toldThisLife, quiet, failures, inherited>>

TargetChanges ==
  /\ target' \in Targets \ {target}
  /\ dispatched' = {}
  /\ UNCHANGED <<maintenance, alive, worker, phase, beat, dbStatus, told,
                 toldThisLife, quiet, failures, inherited>>

\* A maintenance window opens or closes.
MaintenanceChanges ==
  /\ "maintenance" \in Disturbances
  /\ maintenance' = ~maintenance
  /\ dispatched' = {}
  /\ UNCHANGED <<target, alive, worker, phase, beat, dbStatus, told,
                 toldThisLife, quiet, failures, inherited>>

Tick ==
  /\ alive
  /\ worker' = Age(worker)
  /\ quiet' = IF quiet < MaxCooldown THEN quiet + 1 ELSE quiet
  /\ dispatched' = {}
  /\ UNCHANGED <<target, maintenance, alive, phase, beat, dbStatus, told,
                 toldThisLife, failures, inherited>>

Next ==
  \/ StartWorker \/ BeginBeat \/ Decide \/ FinishBeat
  \/ AbortBeat \/ DispatchFails
  \/ LoseWorker \/ Pause \/ Resume
  \/ TargetChanges \/ MaintenanceChanges \/ Tick

Spec == Init /\ [][Next]_vars

(***************************************************************************)
(* startAll starts every worker, the timer of scheduleNext keeps it beating *)
(* and the clock runs.  A database call may fail now and then but not in   *)
(* every beat for ever, hence the strong fairness of Decide.               *)
(***************************************************************************)
Fairness ==
  /\ WF_vars(StartWorker)
  /\ WF_vars(BeginBeat)
  /\ SF_vars(Decide)
  /\ WF_vars(FinishBeat)
  /\ WF_vars(Tick)

FairSpec == Spec /\ Fairness

-----------------------------------------------------------------------------
(***************************************************************************)
(* What holds.                                                             *)
(***************************************************************************)

\* A down or alert is announced, or queued to be, only after more than
\* maxRetries failing checks with no other decided check between them, whatever
\* restarts, pauses and aborted beats lie between (retryCount in processResult).
ProblemsAreRetried ==
  [][ /\ \A d \in dispatched' :
           d.new \in Retryable /\ ~d.flushed => failures > MaxRetries
      /\ worker'.pending \in Retryable /\ worker'.pending # worker.pending
           => failures > MaxRetries ]_vars

\* Behind a cooldown a worker never says the same thing twice in a row, however
\* the status oscillated meanwhile (the comparison with lastNotifiedStatus).
\* The exception is DispatchFails, which only an agent's monitor can meet.
NoRepeatBehindCooldown ==
  [][ ~AgentMonitor /\ toldThisLife /\ 0 \notin Cooldowns
        => \A d \in dispatched' : d.new # told ]_vars

\* Two notifications of one worker are at least the cooldown apart, also when
\* an agent's cooldown is changed while one is queued (lastStateChangeAt is
\* reset by every change that is queued).
NotificationsAreSpaced ==
  [][ toldThisLife /\ dispatched' # {} => quiet >= beat.cooldown ]_vars

\* One beat notifies at most once: handleStatusChange and
\* flushPendingNotification never both dispatch.
OneDispatchPerBeat == \A d, e \in dispatched : d = e

\* A problem the worker has confirmed itself is the last thing the user was
\* told, or is queued to be told: no maintenance window, oscillation, aborted
\* beat or pause makes a confirmed outage unknown.  A problem restored from the
\* database, the suppressed 'down' of an unresponsive proxy and the failing
\* dispatch of an agent's monitor are the exceptions.
ConfirmedProblemAnnounced ==
  ~AgentMonitor /\ ~Proxied /\ alive /\ ~inherited
    /\ worker.confirmedStatus \in Problem
    => IF worker.pending = NoPending THEN told = worker.confirmedStatus
                                     ELSE worker.pending = worker.confirmedStatus

(***************************************************************************)
(* The inductive invariant behind the properties above.                    *)
(***************************************************************************)

\* Only a worker that has notified once queues, and only behind a cooldown.
QueuedBehindNotification ==
  worker.pending # NoPending =>
    /\ worker.notifiedBefore
    /\ ~AgentMonitor => 0 \notin Cooldowns

\* The worker's own idea of what it said last is what was said last.
NotifiedIsTold ==
  /\ toldThisLife => worker.notifiedBefore
  /\ ~AgentMonitor /\ worker.notifiedBefore
       => toldThisLife /\ told = worker.lastNotifiedStatus

\* The retries of this life are failures of the monitor's history.
RetriesAreFailures == worker.retryCount <= failures

\* A queued change is younger than the last notification.
QueuedAfterNotification == worker.pending # NoPending => worker.stableFor <= quiet

\* The beat in flight was read from this monitor's configuration.
BeatIsConfigured ==
  phase # "idle" => beat.cooldown \in Cooldowns /\ (beat.suppress => Proxied)

\* All of it: what every reachable state of a worker satisfies, whatever the
\* interleaving of its beats with maintenance, restarts and pauses.
IInv ==
  /\ QueuedBehindNotification
  /\ NotifiedIsTold
  /\ RetriesAreFailures
  /\ QueuedAfterNotification
  /\ BeatIsConfigured
  /\ ConfirmedProblemAnnounced

\* The worker keeps the promise of Announcements (for monitors other than an
\* agent's and proxied ones): processResult, handleStatusChange, the flush, every
\* restart and every failing call is a step of it, or none.
KnownProblem ==
  IF alive /\ ~inherited /\ worker.confirmedStatus \in Problem
    THEN worker.confirmedStatus ELSE "fine"

Promise == INSTANCE Announcements WITH
  known   <- KnownProblem,
  queue   <- worker.pending,
  Fine    <- "fine",
  Nothing <- NoPending

KeepsPromise == Promise!Spec

\* The worker believes it has said what the user was not told: a dispatch whose
\* notification types could not be read (DispatchFails), or a worker that died.
Misled == worker.notifiedBefore /\ worker.lastNotifiedStatus # told

\* What a monitor keeps failing with, it ends up telling: the outage persists,
\* no maintenance window covers it any more, the worker is not replaced
\* again (processResult, lines 258-262: "even if the monitor was already down
\* throughout the entire maintenance period") and no dispatch of it was lost.
OutageTold ==
  \A s \in CheckStatuses :
    Judged(s) \in Problem =>
      ( <>[](alive /\ ~maintenance /\ ~Misled
              /\ target = [status |-> s, suppress |-> FALSE])
          => <>[](told = Judged(s)) )
=============================================================================
