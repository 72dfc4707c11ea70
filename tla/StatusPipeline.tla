--------------------------- MODULE StatusPipeline ---------------------------
(***************************************************************************)
(* What one monitor worker does with one check result: the decision part   *)
(* of BaseMonitorWorker.processResult, handleStatusChange and              *)
(* flushPendingNotification, as operators on the worker's fields.  The     *)
(* modules MonitorWorker (one worker, its restarts and its environment)    *)
(* and GroupAlerting (several workers sharing a group) are built from it.  *)
(*                                                                         *)
(* Two counters of the code are saturated, which loses nothing: retryCount *)
(* is only ever compared with maxRetries, and the age of lastStateChangeAt *)
(* only with the cooldown.  lastNotifiedAt is only ever compared with 0,   *)
(* so it is the Boolean notifiedBefore.                                    *)
(***************************************************************************)
EXTENDS Integers

CONSTANTS
  MaxRetries,    \* config.maxRetries
  MaxCooldown,   \* the largest cooldown, in clock ticks
  UpsideDown     \* config.upsideDown

ASSUME MaxRetriesAssumption  == MaxRetries \in Nat
ASSUME MaxCooldownAssumption == MaxCooldown \in Nat
ASSUME UpsideDownAssumption  == UpsideDown \in BOOLEAN

Retryable == {"down", "alert"}
Ssl       == {"ssl_warning", "ssl_expired"}
Problem   == Retryable \union Ssl
Status    == Problem \union {"pending", "up", "inactive", "paused"}

NoPending == "none"            \* pendingNotification = null

\* The fields of BaseMonitorWorker; stableFor is Date.now() - lastStateChangeAt.
WorkerState ==
  [ retryCount         : 0 .. MaxRetries + 1,
    previousStatus     : Status,
    confirmedStatus    : Status,
    notifiedBefore     : BOOLEAN,
    lastNotifiedStatus : Status,
    stableFor          : 0 .. MaxCooldown,
    pending            : Status \union {NoPending},
    isFirstBeat        : BOOLEAN,
    restoredFromDb     : BOOLEAN ]

\* A check result together with what the beat read before deciding on it:
\* status and suppressNotification of the CheckResult, isInMaintenance, and
\* notificationCooldownSeconds, which an agent's check re-reads every time;
\* startup is isStartupBeat.
BeatState ==
  [ status : Status, suppress : BOOLEAN, maint : BOOLEAN,
    cooldown : 0 .. MaxCooldown, startup : BOOLEAN ]

\* A call of dispatchNotification; flushed tells the debounced calls apart.
Dispatch == [ old : Status, new : Status, flushed : BOOLEAN ]

\* A new worker object: the field initialisers.
FreshWorker ==
  [ retryCount |-> 0, previousStatus |-> "pending",
    confirmedStatus |-> "pending", notifiedBefore |-> FALSE,
    lastNotifiedStatus |-> "pending", stableFor |-> MaxCooldown,
    pending |-> NoPending, isFirstBeat |-> TRUE, restoredFromDb |-> FALSE ]

\* start(): the status column of the monitor's row, unless it is 'pending',
\* becomes both the previous and the confirmed status.
StartedWorker(rowStatus) ==
  IF rowStatus = "pending"
    THEN FreshWorker
    ELSE [FreshWorker EXCEPT !.previousStatus  = rowStatus,
                             !.confirmedStatus = rowStatus,
                             !.restoredFromDb  = TRUE]

\* beat(): the upside-down mode swaps up and down and touches nothing else.
Judged(status) ==
  CASE UpsideDown /\ status = "up"   -> "down"
    [] UpsideDown /\ status = "down" -> "up"
    [] OTHER                         -> status

\* processResult: a retryable status counts before anything is awaited.
CountRetry(w, status) ==
  IF status \in Retryable /\ w.retryCount <= MaxRetries
    THEN [w EXCEPT !.retryCount = @ + 1]
    ELSE w

\* The first beat of a worker restored from the database decides nothing.
StartupBeat(w) == w.isFirstBeat /\ w.restoredFromDb

\* Mutant: one retry too many is waited for.
ConfirmsTooLate(w, b) ==
  ~b.startup /\ (b.status \in Retryable => w.retryCount > MaxRetries + 1)

\* A retryable status is confirmed once the retries are exhausted, every
\* other status at once.
Confirms(w, b) ==
  /\ ~b.startup
  /\ b.status \in Retryable => w.retryCount > MaxRetries

\* handleStatusChange is called when a confirmed status differs from the
\* last one; a monitor's very first good status is not a change.
Changes(w, b) ==
  /\ Confirms(w, b)
  /\ b.status # w.confirmedStatus
  /\ b.status \in Problem \/ w.confirmedStatus # "pending"

\* The early returns of handleStatusChange: a change nobody is told about.
Silent(w, b) ==
  \/ b.status = "inactive"
  \/ w.confirmedStatus = "inactive" /\ b.status = "up"
  \/ b.maint
  \/ b.suppress

Debounced(w, b) == b.cooldown > 0 /\ w.notifiedBefore

\* handleStatusChange: queue the change behind the cooldown, or dispatch it.
Queues(w, b)     == Changes(w, b) /\ ~Silent(w, b) /\ Debounced(w, b)
Dispatches(w, b) == Changes(w, b) /\ ~Silent(w, b) /\ ~Debounced(w, b)

\* Mutant: a queued change does not restart the debounce clock.
QueueWithoutRestart(w, b) ==
  IF Queues(w, b)
    THEN [w EXCEPT !.pending = b.status]
    ELSE IF Dispatches(w, b)
      THEN [w EXCEPT !.notifiedBefore     = TRUE,
                     !.lastNotifiedStatus = b.status,
                     !.stableFor          = 0]
      ELSE w

HandleStatusChange(w, b) ==
  IF Queues(w, b)
    THEN [w EXCEPT !.pending = b.status, !.stableFor = 0]
    ELSE IF Dispatches(w, b)
      THEN [w EXCEPT !.notifiedBefore     = TRUE,
                     !.lastNotifiedStatus = b.status,
                     !.stableFor          = 0]
      ELSE w

\* Mutant: confirmedStatus advances in maintenance too.
AdvancesInMaintenance(w, b) == Confirms(w, b)

\* processResult after handleStatusChange: in maintenance a confirmed problem
\* does not advance confirmedStatus, a good status does.
Advances(w, b) == Confirms(w, b) /\ (b.status \in Problem => ~b.maint)

\* Mutant: a good status leaves the retries counted.
SettleKeepingRetries(w, b) ==
  [HandleStatusChange(w, b) EXCEPT
     !.confirmedStatus = IF Advances(w, b) THEN b.status ELSE @,
     !.previousStatus  = b.status,
     !.isFirstBeat     = FALSE]

Settle(w, b) ==
  [HandleStatusChange(w, b) EXCEPT
     !.confirmedStatus = IF Advances(w, b) THEN b.status ELSE @,
     !.retryCount      = IF b.status \in Retryable THEN @ ELSE 0,
     !.previousStatus  = b.status,
     !.isFirstBeat     = FALSE]

\* flushPendingNotification: a queued change whose cooldown has elapsed is
\* dropped if it says what was said last, and dispatched otherwise.
FlushDue(w, b) ==
  w.pending # NoPending /\ b.cooldown > 0 /\ w.stableFor >= b.cooldown

\* Mutant: the flush does not look at what was said last.
FlushesBlindly(w, b) == FlushDue(w, b)

Flushes(w, b) == FlushDue(w, b) /\ w.pending # w.lastNotifiedStatus

Flush(w, b) ==
  IF FlushDue(w, b)
    THEN [w EXCEPT !.pending            = NoPending,
                   !.notifiedBefore     = @ \/ Flushes(w, b),
                   !.lastNotifiedStatus = w.pending]
    ELSE w

\* The whole decision of a beat, and the dispatches it makes.
AfterBeat(w, b) == Flush(Settle(w, b), b)

ImmediateDispatch(w, b) ==
  [old |-> w.confirmedStatus, new |-> b.status, flushed |-> FALSE]

FlushedDispatch(s) ==
  [old |-> s.confirmedStatus, new |-> s.pending, flushed |-> TRUE]

BeatDispatches(w, b) ==
  (IF Dispatches(w, b) THEN {ImmediateDispatch(w, b)} ELSE {})
    \union
  (IF Flushes(Settle(w, b), b) THEN {FlushedDispatch(Settle(w, b))} ELSE {})

\* setTimeout and Date.now(): time only ages the last state change.
Age(w) == IF w.stableFor < MaxCooldown THEN [w EXCEPT !.stableFor = @ + 1] ELSE w
=============================================================================
