------------------------ MODULE MonitorWorker_proofs ------------------------
(***************************************************************************)
(* Proofs about MonitorWorker, for every number of retries, every cooldown *)
(* and every set of check statuses.                                        *)
(***************************************************************************)
EXTENDS MonitorWorker, TLAPS

(***************************************************************************)
(* What the operators of StatusPipeline do to a worker: types.             *)
(***************************************************************************)

\* A new worker, restored or not, is well formed.
LEMMA StartedWorkerType ==
  ASSUME NEW s \in Status
  PROVE  StartedWorker(s) \in WorkerState /\ FreshWorker \in WorkerState
<1>1. "pending" \in Status /\ NoPending \in Status \union {NoPending}
  BY DEF Status
<1>2. 0 \in 0 .. MaxRetries + 1 /\ MaxCooldown \in 0 .. MaxCooldown
  BY MaxRetriesAssumption, MaxCooldownAssumption
<1>3. FreshWorker \in WorkerState
  BY <1>1, <1>2 DEF FreshWorker, WorkerState
<1>4. [FreshWorker EXCEPT !.previousStatus = s, !.confirmedStatus = s,
                          !.restoredFromDb = TRUE] \in WorkerState
  BY <1>3 DEF WorkerState
<1> QED
  BY <1>3, <1>4 DEF StartedWorker

\* Counting a retry, ageing and deciding all yield a well-formed worker.
LEMMA CountRetryType ==
  ASSUME NEW w \in WorkerState, NEW s \in Status
  PROVE  CountRetry(w, s) \in WorkerState
<1>1. ASSUME NEW n \in 0 .. MaxRetries + 1
      PROVE  [w EXCEPT !.retryCount = n] \in WorkerState
  BY DEF WorkerState
<1>2. w.retryCount <= MaxRetries => w.retryCount + 1 \in 0 .. MaxRetries + 1
  BY MaxRetriesAssumption DEF WorkerState
<1> QED
  BY <1>1, <1>2 DEF CountRetry

\* A worker that grows older is one.
LEMMA AgeType ==
  ASSUME NEW w \in WorkerState
  PROVE  Age(w) \in WorkerState
<1>1. ASSUME NEW n \in 0 .. MaxCooldown
      PROVE  [w EXCEPT !.stableFor = n] \in WorkerState
  BY DEF WorkerState
<1>2. w.stableFor < MaxCooldown => w.stableFor + 1 \in 0 .. MaxCooldown
  BY MaxCooldownAssumption DEF WorkerState
<1> QED
  BY <1>1, <1>2 DEF Age

\* What a change of status makes of a worker is one.
LEMMA HandleStatusChangeType ==
  ASSUME NEW w \in WorkerState, NEW b \in BeatState
  PROVE  HandleStatusChange(w, b) \in WorkerState
<1>1. b.status \in Status /\ 0 \in 0 .. MaxCooldown
  BY MaxCooldownAssumption DEF BeatState
<1>2. [w EXCEPT !.pending = b.status, !.stableFor = 0] \in WorkerState
  BY <1>1 DEF WorkerState
<1>3. [w EXCEPT !.notifiedBefore = TRUE, !.lastNotifiedStatus = b.status,
                !.stableFor = 0] \in WorkerState
  BY <1>1 DEF WorkerState
<1> QED
  BY <1>2, <1>3 DEF HandleStatusChange

\* So is what the judgement of a beat makes of it,
LEMMA SettleType ==
  ASSUME NEW w \in WorkerState, NEW b \in BeatState
  PROVE  Settle(w, b) \in WorkerState
<1> DEFINE h == HandleStatusChange(w, b)
<1>1. h \in WorkerState
  BY HandleStatusChangeType
<1> HIDE DEF h
<1>2. ASSUME NEW c \in Status, NEW n \in 0 .. MaxRetries + 1, NEW p \in Status
      PROVE  [h EXCEPT !.confirmedStatus = c, !.retryCount = n,
                       !.previousStatus = p, !.isFirstBeat = FALSE] \in WorkerState
  BY <1>1 DEF WorkerState
<1>3. /\ h.confirmedStatus \in Status
      /\ h.retryCount \in 0 .. MaxRetries + 1
      /\ 0 \in 0 .. MaxRetries + 1
  BY <1>1, MaxRetriesAssumption DEF WorkerState
<1>4. b.status \in Status
  BY DEF BeatState
<1> QED
  BY <1>2, <1>3, <1>4 DEF h, Settle

\* and what the whole beat makes of it.
LEMMA AfterBeatType ==
  ASSUME NEW w \in WorkerState, NEW b \in BeatState
  PROVE  AfterBeat(w, b) \in WorkerState
<1> DEFINE s == Settle(w, b)
<1>1. s \in WorkerState
  BY SettleType
<1> HIDE DEF s
<1>2. FlushDue(s, b) => s.pending \in Status
  BY <1>1 DEF FlushDue, WorkerState
<1>3. ASSUME NEW n \in BOOLEAN, NEW l \in Status
      PROVE  [s EXCEPT !.pending = NoPending, !.notifiedBefore = n,
                       !.lastNotifiedStatus = l] \in WorkerState
  BY <1>1 DEF WorkerState
<1>4. (s.notifiedBefore \/ Flushes(s, b)) \in BOOLEAN
  OBVIOUS
<1>5. Flush(s, b) \in WorkerState
  BY <1>1, <1>2, <1>3, <1>4 DEF Flush
<1> QED
  BY <1>5 DEF s, AfterBeat

\* What a beat dispatches are dispatches.
LEMMA BeatDispatchesType ==
  ASSUME NEW w \in WorkerState, NEW b \in BeatState
  PROVE  BeatDispatches(w, b) \subseteq Dispatch
<1> DEFINE s == Settle(w, b)
<1>1. s \in WorkerState
  BY SettleType
<1> HIDE DEF s
<1>2. Flushes(s, b) => FlushedDispatch(s) \in Dispatch
  BY <1>1 DEF Flushes, FlushDue, FlushedDispatch, Dispatch, WorkerState
<1>3. ImmediateDispatch(w, b) \in Dispatch
  BY DEF ImmediateDispatch, Dispatch, WorkerState, BeatState
<1> QED
  BY <1>2, <1>3 DEF s, BeatDispatches

\* The upside-down mode yields a status.
LEMMA JudgedType ==
  ASSUME NEW s \in Status
  PROVE  Judged(s) \in Status
<1>1. "up" \in Status /\ "down" \in Status
  BY DEF Status, Problem, Retryable
<1> QED
  BY <1>1 DEF Judged

(***************************************************************************)
(* What Settle and AfterBeat make of each field.                           *)
(***************************************************************************)

\* Settle: handleStatusChange and the assignments around it, field by field.
LEMMA SettleFields ==
  ASSUME NEW w \in WorkerState, NEW b \in BeatState
  PROVE  /\ Settle(w, b).confirmedStatus =
              IF Advances(w, b) THEN b.status ELSE w.confirmedStatus
         /\ Settle(w, b).retryCount =
              IF b.status \in Retryable THEN w.retryCount ELSE 0
         /\ Settle(w, b).pending = IF Queues(w, b) THEN b.status ELSE w.pending
         /\ Settle(w, b).notifiedBefore = (w.notifiedBefore \/ Dispatches(w, b))
         /\ Settle(w, b).lastNotifiedStatus =
              IF Dispatches(w, b) THEN b.status ELSE w.lastNotifiedStatus
         /\ Settle(w, b).stableFor =
              IF Queues(w, b) \/ Dispatches(w, b) THEN 0 ELSE w.stableFor
<1> DEFINE h == HandleStatusChange(w, b)
<1>1. ~(Queues(w, b) /\ Dispatches(w, b))
  BY DEF Queues, Dispatches
<1>2. w.notifiedBefore \in BOOLEAN
  BY DEF WorkerState
<1>3. /\ h.confirmedStatus = w.confirmedStatus
      /\ h.retryCount = w.retryCount
      /\ h.pending = IF Queues(w, b) THEN b.status ELSE w.pending
      /\ h.lastNotifiedStatus =
           IF Dispatches(w, b) THEN b.status ELSE w.lastNotifiedStatus
      /\ h.stableFor = IF Queues(w, b) \/ Dispatches(w, b) THEN 0 ELSE w.stableFor
  BY <1>1 DEF HandleStatusChange, WorkerState
<1>4. h.notifiedBefore = IF Dispatches(w, b) THEN TRUE ELSE w.notifiedBefore
  BY <1>1 DEF HandleStatusChange, WorkerState
<1>5. h \in WorkerState
  BY HandleStatusChangeType
<1> HIDE DEF h
<1>6. /\ Settle(w, b).confirmedStatus =
           IF Advances(w, b) THEN b.status ELSE h.confirmedStatus
      /\ Settle(w, b).retryCount =
           IF b.status \in Retryable THEN h.retryCount ELSE 0
      /\ Settle(w, b).pending = h.pending
      /\ Settle(w, b).notifiedBefore = h.notifiedBefore
      /\ Settle(w, b).lastNotifiedStatus = h.lastNotifiedStatus
      /\ Settle(w, b).stableFor = h.stableFor
  BY <1>5 DEF Settle, WorkerState, h
<1> QED
  BY <1>2, <1>3, <1>4, <1>6

\* AfterBeat: what the flush changes after that.
LEMMA AfterBeatFields ==
  ASSUME NEW w \in WorkerState, NEW b \in BeatState, NEW s, s = Settle(w, b)
  PROVE  /\ AfterBeat(w, b).confirmedStatus = s.confirmedStatus
         /\ AfterBeat(w, b).retryCount = s.retryCount
         /\ AfterBeat(w, b).stableFor = s.stableFor
         /\ AfterBeat(w, b).pending =
              IF FlushDue(s, b) THEN NoPending ELSE s.pending
         /\ AfterBeat(w, b).notifiedBefore = (s.notifiedBefore \/ Flushes(s, b))
         /\ AfterBeat(w, b).lastNotifiedStatus =
              IF FlushDue(s, b) THEN s.pending ELSE s.lastNotifiedStatus
<1>1. s \in WorkerState
  BY SettleType
<1>2. AfterBeat(w, b) = Flush(s, b)
  BY DEF AfterBeat
<1>3. Flushes(s, b) => FlushDue(s, b)
  BY DEF Flushes
<1>4. s.notifiedBefore \in BOOLEAN
  BY <1>1 DEF WorkerState
<1>5. CASE FlushDue(s, b)
  BY <1>1, <1>2, <1>5 DEF Flush, WorkerState
<1>6. CASE ~FlushDue(s, b)
  BY <1>1, <1>2, <1>3, <1>4, <1>6 DEF Flush
<1> QED
  BY <1>5, <1>6

\* One beat notifies at once, queues, flushes or keeps quiet: it never does two
\* of these, provided only a worker that has notified has a queued change.
LEMMA BeatOutcome ==
  ASSUME NEW w \in WorkerState, NEW b \in BeatState, NEW a, a = AfterBeat(w, b),
         w.pending # NoPending => w.notifiedBefore
  PROVE  \/ /\ Dispatches(w, b)
            /\ BeatDispatches(w, b) = {ImmediateDispatch(w, b)}
            /\ a.pending = w.pending
            /\ a.notifiedBefore
            /\ a.lastNotifiedStatus = b.status
            /\ a.stableFor = 0
         \/ /\ Queues(w, b)
            /\ ~Dispatches(w, b)
            /\ BeatDispatches(w, b) = {}
            /\ a.pending = b.status
            /\ a.notifiedBefore = w.notifiedBefore
            /\ a.lastNotifiedStatus = w.lastNotifiedStatus
            /\ a.stableFor = 0
         \/ /\ ~Queues(w, b) /\ ~Dispatches(w, b)
            /\ w.pending # NoPending
            /\ w.stableFor >= b.cooldown
            /\ IF w.pending = w.lastNotifiedStatus
                 THEN BeatDispatches(w, b) = {}
                 ELSE \E d \in Dispatch : /\ d.new = w.pending
                                          /\ d.flushed
                                          /\ BeatDispatches(w, b) = {d}
            /\ a.pending = NoPending
            /\ a.notifiedBefore
            /\ a.lastNotifiedStatus = w.pending
            /\ a.stableFor = w.stableFor
         \/ /\ ~Queues(w, b) /\ ~Dispatches(w, b)
            /\ BeatDispatches(w, b) = {}
            /\ a.pending = w.pending
            /\ a.notifiedBefore = w.notifiedBefore
            /\ a.lastNotifiedStatus = w.lastNotifiedStatus
            /\ a.stableFor = w.stableFor
<1> DEFINE s == Settle(w, b)
<1>1. s \in WorkerState
  BY SettleType
<1>2. /\ s.pending = IF Queues(w, b) THEN b.status ELSE w.pending
      /\ s.notifiedBefore = (w.notifiedBefore \/ Dispatches(w, b))
      /\ s.lastNotifiedStatus =
           IF Dispatches(w, b) THEN b.status ELSE w.lastNotifiedStatus
      /\ s.stableFor = IF Queues(w, b) \/ Dispatches(w, b) THEN 0 ELSE w.stableFor
  BY SettleFields
<1>3. /\ a.stableFor = s.stableFor
      /\ a.pending = IF FlushDue(s, b) THEN NoPending ELSE s.pending
      /\ a.notifiedBefore = (s.notifiedBefore \/ Flushes(s, b))
      /\ a.lastNotifiedStatus =
           IF FlushDue(s, b) THEN s.pending ELSE s.lastNotifiedStatus
  BY AfterBeatFields
<1>4. BeatDispatches(w, b) =
        (IF Dispatches(w, b) THEN {ImmediateDispatch(w, b)} ELSE {})
          \union (IF Flushes(s, b) THEN {FlushedDispatch(s)} ELSE {})
  BY DEF BeatDispatches
<1>5. b.cooldown \in Nat /\ w.stableFor \in Nat
  BY MaxCooldownAssumption DEF BeatState, WorkerState
<1>6. /\ w.notifiedBefore \in BOOLEAN
      /\ s.notifiedBefore \in BOOLEAN
  BY <1>1 DEF WorkerState
<1> HIDE DEF s
<1>7. CASE Dispatches(w, b)
  <2>1. ~Queues(w, b) /\ ~Debounced(w, b)
    BY <1>7 DEF Queues, Dispatches
  <2>2. ~FlushDue(s, b) /\ ~Flushes(s, b)
    BY <2>1, <1>2, <1>5, <1>7 DEF FlushDue, Flushes, Debounced
  <2> QED
    BY <2>1, <2>2, <1>2, <1>3, <1>4, <1>7
<1>8. CASE Queues(w, b)
  <2>1. ~Dispatches(w, b)
    BY <1>8 DEF Queues, Dispatches
  <2>2. ~FlushDue(s, b) /\ ~Flushes(s, b)
    BY <1>2, <1>5, <1>8 DEF FlushDue, Flushes
  <2>3. a.notifiedBefore = w.notifiedBefore
    BY <2>1, <2>2, <1>2, <1>3, <1>6
  <2> QED
    BY <2>1, <2>2, <2>3, <1>2, <1>3, <1>4, <1>8
<1>9. CASE ~Queues(w, b) /\ ~Dispatches(w, b)
  <2>1. /\ s.pending = w.pending
        /\ s.lastNotifiedStatus = w.lastNotifiedStatus
        /\ s.stableFor = w.stableFor
    BY <1>2, <1>9
  <2>2. s.notifiedBefore = w.notifiedBefore
    BY <1>2, <1>6, <1>9
  <2>3. CASE FlushDue(s, b)
    <3>1. /\ w.pending # NoPending
          /\ w.stableFor >= b.cooldown
      BY <2>1, <2>3 DEF FlushDue
    <3>2. w.notifiedBefore
      BY <3>1
    <3>3. a.notifiedBefore
      BY <3>2, <2>2, <1>3
    <3>4. /\ a.pending = NoPending
          /\ a.lastNotifiedStatus = w.pending
          /\ a.stableFor = w.stableFor
      BY <1>3, <2>1, <2>3
    <3>5. CASE w.pending = w.lastNotifiedStatus
      <4>1. ~Flushes(s, b)
        BY <2>1, <3>5 DEF Flushes
      <4>2. BeatDispatches(w, b) = {}
        BY <4>1, <1>4, <1>9
      <4> QED
        BY <4>2, <3>1, <3>3, <3>4, <3>5, <1>9
    <3>6. CASE w.pending # w.lastNotifiedStatus
      <4>1. Flushes(s, b)
        BY <2>1, <2>3, <3>6 DEF Flushes
      <4>2. BeatDispatches(w, b) = {FlushedDispatch(s)}
        BY <4>1, <1>4, <1>9
      <4>3. /\ FlushedDispatch(s) \in Dispatch
            /\ FlushedDispatch(s).new = w.pending
            /\ FlushedDispatch(s).flushed
        BY <1>1, <2>1, <3>1 DEF FlushedDispatch, Dispatch, WorkerState
      <4> QED
        BY <4>2, <4>3, <3>1, <3>3, <3>4, <3>6, <1>9
    <3> QED
      BY <3>5, <3>6
  <2>4. CASE ~FlushDue(s, b)
    <3>1. ~Flushes(s, b)
      BY <2>4 DEF Flushes
    <3>2. a.notifiedBefore = w.notifiedBefore
      BY <3>1, <2>2, <1>3, <1>6
    <3> QED
      BY <3>1, <3>2, <2>1, <2>4, <1>3, <1>4, <1>9
  <2> QED
    BY <2>3, <2>4
<1> QED
  BY <1>7, <1>8, <1>9

(***************************************************************************)
(* Type correctness.                                                       *)
(***************************************************************************)

\* Every target reports a status, and so does the beat that reads it.
LEMMA TargetType ==
  ASSUME NEW t \in Targets
  PROVE  /\ Judged(t.status) \in Status
         /\ t.suppress \in BOOLEAN
         /\ t.suppress => Proxied
<1>1. "down" \in Status
  BY DEF Status, Problem, Retryable
<1>2. t.status \in Status
  BY <1>1, CheckStatusesAssumption DEF Targets, ProxySilent
<1>3. t.suppress = FALSE \/ (t.suppress = TRUE /\ Proxied = TRUE)
  BY ProxiedAssumption DEF Targets, ProxySilent
<1> QED
  BY <1>2, <1>3, JudgedType

\* The worker, its beat, the status column and the history have their types
\* in every reachable state.
THEOREM TypeCorrect == Spec => []TypeOK
<1>1. /\ "pending" \in Status /\ "paused" \in Status
      /\ 0 \in 0 .. MaxCooldown /\ MaxCooldown \in 0 .. MaxCooldown
      /\ 0 \in 0 .. MaxRetries + 1
      /\ FALSE \in BOOLEAN /\ TRUE \in BOOLEAN
  BY MaxCooldownAssumption, MaxRetriesAssumption DEF Status
<1>2. FreshWorker \in WorkerState
  BY <1>1, StartedWorkerType
<1>3. NoBeat \in BeatState
  BY <1>1 DEF NoBeat, BeatState
<1>4. Init => TypeOK
  BY <1>1, <1>2, <1>3 DEF Init, TypeOK, Phases
<1>5. ASSUME TypeOK, [Next]_vars
      PROVE  TypeOK'
  <2> USE <1>5
  <2>1. CASE StartWorker
    <3>1. PICK row \in Status : /\ worker' = StartedWorker(row)
                                /\ inherited' = (row \in Problem)
      BY <2>1, <1>1 DEF StartWorker, TypeOK
    <3>2. worker' \in WorkerState
      BY <3>1, StartedWorkerType
    <3>3. inherited' \in BOOLEAN
      BY <3>1
    <3> QED
      BY <2>1, <3>2, <3>3, <1>1 DEF StartWorker, TypeOK
  <2>2. CASE BeginBeat
    <3> DEFINE st == Judged(target.status)
    <3>1. st \in Status /\ target.suppress \in BOOLEAN
      BY TargetType DEF TypeOK
    <3> HIDE DEF st
    <3>2. StartupBeat(worker) \in BOOLEAN
      BY DEF StartupBeat, TypeOK, WorkerState
    <3>3. PICK c \in Cooldowns :
            beat' = [status |-> st, suppress |-> target.suppress,
                     maint |-> maintenance, cooldown |-> c,
                     startup |-> StartupBeat(worker)]
      BY <2>2 DEF BeginBeat, st
    <3>4. c \in 0 .. MaxCooldown
      BY CooldownsAssumption
    <3>5. beat' \in BeatState
      BY <3>1, <3>2, <3>3, <3>4 DEF BeatState, TypeOK
    <3>6. worker' \in WorkerState
      BY <2>2, <3>1, CountRetryType DEF BeginBeat, TypeOK, st
    <3>7. failures' \in 0 .. MaxRetries + 1
      BY <2>2, MaxRetriesAssumption DEF BeginBeat, TypeOK
    <3> QED
      BY <2>2, <3>5, <3>6, <3>7, <1>1 DEF BeginBeat, TypeOK, Phases
  <2>3. CASE Decide
    <3>1. worker' \in WorkerState
      BY <2>3, AfterBeatType DEF Decide, TypeOK
    <3>2. /\ BeatDispatches(worker, beat) \subseteq Dispatch
          /\ dispatched' = BeatDispatches(worker, beat)
      BY <2>3, BeatDispatchesType DEF Decide, TypeOK, Record
    <3>3. told' \in Status \union {Untold}
      <4>1. told' \in IF dispatched' = {} THEN {told} ELSE {d.new : d \in dispatched'}
        BY <2>3, <3>2 DEF Decide, Record
      <4>2. \A d \in dispatched' : d.new \in Status
        BY <3>2 DEF Dispatch
      <4> QED
        BY <4>1, <4>2 DEF TypeOK
    <3>4. /\ toldThisLife' \in BOOLEAN
          /\ inherited' \in BOOLEAN
      BY <2>3 DEF Decide, Record, TypeOK
    <3>5. /\ quiet' \in 0 .. MaxCooldown
          /\ failures' \in 0 .. MaxRetries + 1
      BY <2>3, <1>1 DEF Decide, Record, TypeOK
    <3>6. UNCHANGED <<target, maintenance, alive, beat, dbStatus>> /\ phase' = "decided"
      BY <2>3 DEF Decide
    <3> QED
      BY <3>1, <3>2, <3>3, <3>4, <3>5, <3>6 DEF TypeOK, Phases
  <2>4. CASE FinishBeat
    <3>1. beat.status \in Status
      BY DEF TypeOK, BeatState
    <3> QED
      BY <2>4, <3>1, <1>3 DEF FinishBeat, TypeOK, Phases
  <2>5. CASE AbortBeat
    <3>1. [worker EXCEPT !.retryCount = 0] \in WorkerState
      BY <1>1 DEF TypeOK, WorkerState
    <3> QED
      BY <2>5, <3>1, <1>3 DEF AbortBeat, TypeOK, Phases
  <2>6. CASE DispatchFails
    <3>1. worker' \in WorkerState
      BY <2>6, AfterBeatType, HandleStatusChangeType DEF DispatchFails, TypeOK
    <3>2. inherited' \in BOOLEAN
      BY <2>6 DEF DispatchFails, TypeOK
    <3> QED
      BY <2>6, <3>1, <3>2, <1>3 DEF DispatchFails, TypeOK, Phases
  <2>7. CASE LoseWorker
    BY <2>7, <1>1, <1>2, <1>3 DEF LoseWorker, TypeOK, Phases
  <2>8. CASE Pause
    BY <2>8, <1>1, <1>2 DEF Pause, TypeOK
  <2>9. CASE Resume
    BY <2>9, <1>1 DEF Resume, TypeOK
  <2>10. CASE TargetChanges
    BY <2>10 DEF TargetChanges, TypeOK
  <2>11. CASE MaintenanceChanges
    BY <2>11 DEF MaintenanceChanges, TypeOK
  <2>12. CASE Tick
    <3>1. worker' \in WorkerState
      BY <2>12, AgeType DEF Tick, TypeOK
    <3>2. quiet' \in 0 .. MaxCooldown
      BY <2>12, MaxCooldownAssumption DEF Tick, TypeOK
    <3> QED
      BY <2>12, <3>1, <3>2 DEF Tick, TypeOK
  <2>13. CASE UNCHANGED vars
    BY <2>13 DEF vars, TypeOK
  <2> QED
    BY <2>1, <2>2, <2>3, <2>4, <2>5, <2>6, <2>7, <2>8, <2>9, <2>10, <2>11,
       <2>12, <2>13 DEF Next
<1> QED
  BY <1>4, <1>5, PTL DEF Spec

(***************************************************************************)
(* The inductive invariant.                                                *)
(***************************************************************************)

\* A beat that sends nothing leaves what was told last.
LEMMA SilentBeat ==
  ASSUME NEW w \in WorkerState, NEW b \in BeatState, NEW a, a = AfterBeat(w, b),
         w.pending # NoPending => w.notifiedBefore,
         BeatDispatches(w, b) = {}, a.notifiedBefore
  PROVE  w.notifiedBefore /\ a.lastNotifiedStatus = w.lastNotifiedStatus
<1>1. \A d : {d} # {}
  OBVIOUS
<1> QED
  BY <1>1, BeatOutcome

\* A beat's decision preserves the invariant: the only step of the worker
\* whose effect on it is not immediate.
LEMMA DecidePreserves ==
  ASSUME TypeOK, IInv, Decide
  PROVE  IInv'
<1> DEFINE sends == BeatDispatches(worker, beat)
<1>1. /\ worker \in WorkerState
      /\ beat \in BeatState
      /\ quiet \in 0 .. MaxCooldown
  BY DEF TypeOK
<1>2. worker.pending # NoPending => worker.notifiedBefore
  BY DEF IInv, QueuedBehindNotification
<1>3. /\ worker' = AfterBeat(worker, beat)
      /\ told' \in IF sends = {} THEN {told} ELSE {d.new : d \in sends}
      /\ toldThisLife' = (toldThisLife \/ sends # {})
      /\ quiet' = IF sends = {} THEN quiet ELSE 0
      /\ failures' = IF beat.status \in Retryable THEN failures ELSE 0
      /\ phase = "checked" /\ phase' = "decided"
      /\ inherited' = (inherited /\ worker'.confirmedStatus = worker.confirmedStatus)
      /\ UNCHANGED <<alive, beat>>
  BY DEF Decide, Record
<1>4. /\ worker'.confirmedStatus =
           IF Advances(worker, beat) THEN beat.status ELSE worker.confirmedStatus
      /\ worker'.retryCount =
           IF beat.status \in Retryable THEN worker.retryCount ELSE 0
  BY <1>1, <1>3, SettleFields, AfterBeatFields
<1>5. beat.cooldown \in Cooldowns /\ (beat.suppress => Proxied)
  BY <1>3 DEF IInv, BeatIsConfigured
<1>6. beat.status # NoPending /\ beat.status \in Status
  BY <1>1 DEF BeatState, Status, Problem, Retryable, Ssl, NoPending
<1>7. Dispatches(worker, beat) => ~Debounced(worker, beat)
  BY DEF Dispatches
<1>8. Queues(worker, beat) => beat.cooldown > 0 /\ worker.notifiedBefore
  BY DEF Queues, Debounced
<1>9. Dispatches(worker, beat) /\ ~AgentMonitor => worker.pending = NoPending
  <2> SUFFICES ASSUME Dispatches(worker, beat), ~AgentMonitor
               PROVE  worker.pending = NoPending
    OBVIOUS
  <2>1. ~worker.notifiedBefore \/ ~(beat.cooldown > 0)
    BY <1>7 DEF Debounced
  <2>2. ~(beat.cooldown > 0) => 0 \in Cooldowns
    BY <1>1, <1>5, MaxCooldownAssumption DEF BeatState
  <2> QED
    BY <2>1, <2>2 DEF IInv, QueuedBehindNotification
<1>10. RetriesAreFailures'
  <2>1. worker.retryCount <= failures
    BY DEF IInv, RetriesAreFailures
  <2> QED
    BY <2>1, <1>3, <1>4 DEF RetriesAreFailures
<1>11. BeatIsConfigured'
  BY <1>3, <1>5 DEF BeatIsConfigured
<1>12. QueuedBehindNotification'
  <2>1. CASE Queues(worker, beat)
    <3>1. ~AgentMonitor => 0 \notin Cooldowns
      BY <2>1, <1>1, <1>5, <1>8, MaxCooldownAssumption, CooldownFixedAssumption DEF BeatState
    <3>2. worker'.notifiedBefore
      BY <1>1, <1>2, <1>3, <1>8, <2>1, BeatOutcome
    <3> QED
      BY <3>1, <3>2 DEF QueuedBehindNotification
  <2>2. CASE ~Queues(worker, beat)
    <3>1. worker'.pending # NoPending =>
            worker.pending # NoPending /\ worker'.notifiedBefore
      BY <1>1, <1>2, <1>3, <2>2, BeatOutcome
    <3> QED
      BY <3>1 DEF IInv, QueuedBehindNotification
  <2> QED
    BY <2>1, <2>2
<1>13. QueuedAfterNotification'
  <2>1. worker.pending # NoPending => worker.stableFor <= quiet
    BY DEF IInv, QueuedAfterNotification
  <2>2. 0 <= quiet
    BY <1>1
  <2>3. worker'.pending # NoPending => worker'.stableFor <= quiet'
    BY <1>1, <1>2, <1>3, <2>1, <2>2, BeatOutcome
  <2> QED
    BY <2>3 DEF QueuedAfterNotification
<1>14. NotifiedIsTold'
  <2>1. /\ toldThisLife => worker.notifiedBefore
        /\ ~AgentMonitor /\ worker.notifiedBefore
             => toldThisLife /\ told = worker.lastNotifiedStatus
    BY DEF IInv, NotifiedIsTold
  <2>2. ImmediateDispatch(worker, beat).new = beat.status
    BY DEF ImmediateDispatch
  <2>3. toldThisLife' => worker'.notifiedBefore
    BY <1>1, <1>2, <1>3, <2>1, BeatOutcome
  <2>4. sends = {} => told' = told
    BY <1>3
  <2>5. ASSUME NEW d, sends = {d}
        PROVE  told' = d.new /\ toldThisLife'
    BY <1>3, <2>5
  <2>6. ~AgentMonitor /\ worker'.notifiedBefore
          => toldThisLife' /\ told' = worker'.lastNotifiedStatus
    <3> SUFFICES ASSUME ~AgentMonitor, worker'.notifiedBefore
                 PROVE  toldThisLife' /\ told' = worker'.lastNotifiedStatus
      OBVIOUS
    <3>1. CASE sends = {}
      <4>1. worker.notifiedBefore /\ worker'.lastNotifiedStatus = worker.lastNotifiedStatus
        BY <1>1, <1>2, <1>3, <3>1, SilentBeat
      <4> QED
        BY <1>3, <2>1, <2>4, <3>1, <4>1
    <3>2. CASE sends # {}
      <4>1. PICK d : sends = {d} /\ d.new = worker'.lastNotifiedStatus
        BY <1>1, <1>2, <1>3, <2>2, <3>2, BeatOutcome
      <4> QED
        BY <2>5, <4>1
    <3> QED
      BY <3>1, <3>2
  <2> QED
    BY <2>3, <2>6 DEF NotifiedIsTold
<1>15. ConfirmedProblemAnnounced'
  <2> SUFFICES ASSUME ~AgentMonitor, ~Proxied, alive, ~inherited',
                      worker'.confirmedStatus \in Problem
               PROVE  IF worker'.pending = NoPending
                        THEN told' = worker'.confirmedStatus
                        ELSE worker'.pending = worker'.confirmedStatus
    BY <1>3 DEF ConfirmedProblemAnnounced
  <2>1. ~beat.suppress
    BY <1>5
  <2>2. ImmediateDispatch(worker, beat).new = beat.status
    BY DEF ImmediateDispatch
  <2>3. CASE worker'.confirmedStatus = worker.confirmedStatus
    <3>1. ~Queues(worker, beat) /\ ~Dispatches(worker, beat)
      <4>1. Changes(worker, beat) => Confirms(worker, beat) /\ ~Advances(worker, beat)
        BY <2>3, <1>4 DEF Changes
      <4>2. Confirms(worker, beat) /\ ~Advances(worker, beat) => Silent(worker, beat)
        BY DEF Advances, Silent
      <4> QED
        BY <4>1, <4>2 DEF Queues, Dispatches
    <3>2. IF worker.pending = NoPending THEN told = worker.confirmedStatus
                                        ELSE worker.pending = worker.confirmedStatus
      BY <1>3, <2>3 DEF IInv, ConfirmedProblemAnnounced
    <3>3. worker.notifiedBefore => told = worker.lastNotifiedStatus
      BY DEF IInv, NotifiedIsTold
    <3> QED
      BY <1>1, <1>2, <1>3, <2>3, <3>1, <3>2, <3>3, BeatOutcome
  <2>4. CASE worker'.confirmedStatus # worker.confirmedStatus
    <3>1. Advances(worker, beat) /\ worker'.confirmedStatus = beat.status
      BY <2>4, <1>4
    <3>2. Changes(worker, beat)
      BY <2>4, <3>1 DEF Changes, Advances
    <3>3. beat.status # "inactive" /\ beat.status # "up"
      BY <3>1 DEF Problem, Retryable, Ssl
    <3>4. ~Silent(worker, beat)
      BY <2>1, <3>1, <3>3 DEF Silent, Advances
    <3>5. Queues(worker, beat) \/ Dispatches(worker, beat)
      BY <3>2, <3>4 DEF Queues, Dispatches
    <3> QED
      BY <1>1, <1>2, <1>3, <1>6, <1>9, <2>2, <3>1, <3>5, BeatOutcome
  <2> QED
    BY <2>3, <2>4
<1> QED
  BY <1>10, <1>11, <1>12, <1>13, <1>14, <1>15 DEF IInv

\* The failing dispatch of an agent's monitor preserves the invariant.
LEMMA DispatchFailsPreserves ==
  ASSUME TypeOK, IInv, DispatchFails
  PROVE  IInv'
<1>1. /\ worker \in WorkerState
      /\ beat \in BeatState
      /\ quiet \in 0 .. MaxCooldown
      /\ failures \in 0 .. MaxRetries + 1
  BY DEF TypeOK
<1>2. worker.pending # NoPending => worker.notifiedBefore
  BY DEF IInv, QueuedBehindNotification
<1>3. /\ AgentMonitor
      /\ BeatDispatches(worker, beat) # {}
      /\ worker' = IF Dispatches(worker, beat) THEN HandleStatusChange(worker, beat)
                                               ELSE AfterBeat(worker, beat)
      /\ phase' = "idle"
      /\ UNCHANGED <<toldThisLife, quiet, failures>>
  BY DEF DispatchFails
<1>4. /\ worker.retryCount <= failures
      /\ worker.pending # NoPending => worker.stableFor <= quiet
      /\ toldThisLife => worker.notifiedBefore
  BY DEF IInv, RetriesAreFailures, QueuedAfterNotification, NotifiedIsTold
<1>5. /\ worker'.notifiedBefore
      /\ worker'.retryCount <= failures
      /\ worker'.pending # NoPending => worker'.stableFor <= quiet
  <2>1. CASE Dispatches(worker, beat)
    <3>1. ~Queues(worker, beat)
      BY <2>1 DEF Queues, Dispatches
    <3>2. worker' = [worker EXCEPT !.notifiedBefore     = TRUE,
                                   !.lastNotifiedStatus = beat.status,
                                   !.stableFor          = 0]
      BY <1>3, <2>1, <3>1 DEF HandleStatusChange
    <3>3. /\ worker'.notifiedBefore = TRUE
          /\ worker'.retryCount = worker.retryCount
          /\ worker'.stableFor = 0
      BY <1>1, <3>2 DEF WorkerState
    <3> QED
      BY <1>1, <1>4, <3>3
  <2>2. CASE ~Dispatches(worker, beat)
    <3>1. worker'.pending = NoPending /\ worker'.notifiedBefore
      BY <1>1, <1>2, <1>3, <2>2, BeatOutcome
    <3>2. worker'.retryCount = IF beat.status \in Retryable THEN worker.retryCount ELSE 0
      BY <1>1, <1>3, <2>2, SettleFields, AfterBeatFields
    <3> QED
      BY <1>1, <1>4, <3>1, <3>2
  <2> QED
    BY <2>1, <2>2
<1> QED
  BY <1>3, <1>5 DEF IInv, QueuedBehindNotification, NotifiedIsTold,
     RetriesAreFailures, QueuedAfterNotification, BeatIsConfigured,
     ConfirmedProblemAnnounced

\* Whatever the number of retries, the cooldown and the statuses a check can
\* return: a queued change follows a notification, what the worker believes it
\* said last is what was said last, its retries are failing checks, and a
\* confirmed problem is announced or queued.
THEOREM Invariant == Spec => []IInv
<1>1. Init => IInv
  BY DEF Init, IInv, QueuedBehindNotification, NotifiedIsTold,
     RetriesAreFailures, QueuedAfterNotification, BeatIsConfigured,
     ConfirmedProblemAnnounced, FreshWorker
<1>2. ASSUME TypeOK, IInv, [Next]_vars
      PROVE  IInv'
  <2> USE <1>2
  <2>1. CASE StartWorker
    <3>0. PICK row : worker' = StartedWorker(row) /\ inherited' = (row \in Problem)
      BY <2>1 DEF StartWorker
    <3>1. /\ worker'.pending = NoPending
          /\ worker'.notifiedBefore = FALSE
          /\ worker'.retryCount = 0
          /\ worker'.confirmedStatus = row
      BY <3>0 DEF StartedWorker, FreshWorker
    <3>2. /\ toldThisLife' = FALSE
          /\ inherited' = (row \in Problem)
          /\ UNCHANGED <<phase, beat, failures>>
      BY <2>1, <3>0 DEF StartWorker
    <3>3. 0 <= failures
      BY DEF TypeOK
    <3> QED
      BY <3>1, <3>2, <3>3 DEF IInv, QueuedBehindNotification, NotifiedIsTold,
         RetriesAreFailures, QueuedAfterNotification, BeatIsConfigured,
         ConfirmedProblemAnnounced
  <2>2. CASE BeginBeat
    <3> DEFINE st == Judged(target.status)
    <3>1. PICK c \in Cooldowns :
            beat' = [status |-> st, suppress |-> target.suppress,
                     maint |-> maintenance, cooldown |-> c,
                     startup |-> StartupBeat(worker)]
      BY <2>2 DEF BeginBeat
    <3>2. /\ worker' = CountRetry(worker, st)
          /\ failures' = IF st \in Retryable /\ failures <= MaxRetries
                           THEN failures + 1 ELSE failures
          /\ UNCHANGED <<alive, told, toldThisLife, quiet, inherited>>
      BY <2>2 DEF BeginBeat
    <3>3. target.suppress => Proxied
      BY TargetType DEF TypeOK
    <3> HIDE DEF st
    <3>4. /\ worker \in WorkerState
          /\ failures \in 0 .. MaxRetries + 1
      BY DEF TypeOK
    <3>5. /\ worker'.pending = worker.pending
          /\ worker'.notifiedBefore = worker.notifiedBefore
          /\ worker'.lastNotifiedStatus = worker.lastNotifiedStatus
          /\ worker'.confirmedStatus = worker.confirmedStatus
          /\ worker'.stableFor = worker.stableFor
          /\ worker'.retryCount = IF st \in Retryable /\ worker.retryCount <= MaxRetries
                                    THEN worker.retryCount + 1 ELSE worker.retryCount
      BY <3>2, <3>4 DEF CountRetry, WorkerState
    <3>6. worker.retryCount \in 0 .. MaxRetries + 1
      BY <3>4 DEF WorkerState
    <3>7. worker'.retryCount <= failures'
      <4>1. worker.retryCount <= failures
        BY DEF IInv, RetriesAreFailures
      <4> QED
        BY <4>1, <3>2, <3>4, <3>5, <3>6, MaxRetriesAssumption
    <3>8. beat'.cooldown \in Cooldowns /\ (beat'.suppress => Proxied)
      BY <3>1, <3>3
    <3> QED
      BY <3>2, <3>5, <3>7, <3>8 DEF IInv, QueuedBehindNotification, NotifiedIsTold,
         RetriesAreFailures, QueuedAfterNotification, BeatIsConfigured,
         ConfirmedProblemAnnounced
  <2>3. CASE Decide
    BY <2>3, DecidePreserves
  <2>4. CASE FinishBeat
    BY <2>4 DEF FinishBeat, IInv, QueuedBehindNotification, NotifiedIsTold,
       RetriesAreFailures, QueuedAfterNotification, BeatIsConfigured,
       ConfirmedProblemAnnounced
  <2>5. CASE AbortBeat
    <3>1. /\ worker \in WorkerState
          /\ failures \in 0 .. MaxRetries + 1
          /\ worker.retryCount <= failures
      BY DEF TypeOK, IInv, RetriesAreFailures
    <3>2. /\ worker'.pending = worker.pending
          /\ worker'.notifiedBefore = worker.notifiedBefore
          /\ worker'.lastNotifiedStatus = worker.lastNotifiedStatus
          /\ worker'.confirmedStatus = worker.confirmedStatus
          /\ worker'.stableFor = worker.stableFor
          /\ worker'.retryCount <= failures
      BY <2>5, <3>1 DEF AbortBeat, WorkerState
    <3>3. /\ phase' = "idle"
          /\ UNCHANGED <<alive, told, toldThisLife, quiet, failures, inherited>>
      BY <2>5 DEF AbortBeat
    <3> QED
      BY <3>2, <3>3 DEF IInv, QueuedBehindNotification, NotifiedIsTold,
         RetriesAreFailures, QueuedAfterNotification, BeatIsConfigured,
         ConfirmedProblemAnnounced
  <2>6. CASE DispatchFails
    BY <2>6, DispatchFailsPreserves
  <2>7. CASE LoseWorker \/ Pause
    <3>1. /\ worker' = FreshWorker
          /\ toldThisLife' = FALSE
          /\ phase' = "idle"
          /\ failures' = failures
          /\ alive' = FALSE
      BY <2>7 DEF LoseWorker, Pause
    <3>2. 0 <= failures
      BY DEF TypeOK
    <3> QED
      BY <3>1, <3>2 DEF FreshWorker, IInv, QueuedBehindNotification, NotifiedIsTold,
         RetriesAreFailures, QueuedAfterNotification, BeatIsConfigured,
         ConfirmedProblemAnnounced
  <2>8. CASE Resume \/ TargetChanges \/ MaintenanceChanges \/ UNCHANGED vars
    <3>1. UNCHANGED <<alive, worker, phase, beat, told, toldThisLife, quiet,
                      failures, inherited>>
      BY <2>8 DEF Resume, TargetChanges, MaintenanceChanges, vars
    <3> QED
      BY <3>1 DEF IInv, QueuedBehindNotification, NotifiedIsTold,
         RetriesAreFailures, QueuedAfterNotification, BeatIsConfigured,
         ConfirmedProblemAnnounced
  <2>9. CASE Tick
    <3>1. /\ worker' = Age(worker)
          /\ quiet' = IF quiet < MaxCooldown THEN quiet + 1 ELSE quiet
          /\ UNCHANGED <<alive, phase, beat, told, toldThisLife, failures, inherited>>
      BY <2>9 DEF Tick
    <3>2. worker \in WorkerState /\ quiet \in 0 .. MaxCooldown
      BY DEF TypeOK
    <3>3. /\ worker'.pending = worker.pending
          /\ worker'.notifiedBefore = worker.notifiedBefore
          /\ worker'.lastNotifiedStatus = worker.lastNotifiedStatus
          /\ worker'.confirmedStatus = worker.confirmedStatus
          /\ worker'.retryCount = worker.retryCount
          /\ worker'.stableFor = IF worker.stableFor < MaxCooldown
                                   THEN worker.stableFor + 1 ELSE worker.stableFor
      BY <3>1, <3>2 DEF Age, WorkerState
    <3>4. worker.stableFor \in 0 .. MaxCooldown
      BY <3>2 DEF WorkerState
    <3>5. worker.pending # NoPending => worker'.stableFor <= quiet'
      <4>1. worker.pending # NoPending => worker.stableFor <= quiet
        BY DEF IInv, QueuedAfterNotification
      <4> QED
        BY <4>1, <3>1, <3>2, <3>3, <3>4, MaxCooldownAssumption
    <3> QED
      BY <3>1, <3>3, <3>5 DEF IInv, QueuedBehindNotification, NotifiedIsTold,
         RetriesAreFailures, QueuedAfterNotification, BeatIsConfigured,
         ConfirmedProblemAnnounced
  <2> QED
    BY <2>1, <2>2, <2>3, <2>4, <2>5, <2>6, <2>7, <2>8, <2>9 DEF Next
<1> QED
  BY <1>1, <1>2, TypeCorrect, PTL DEF Spec

(***************************************************************************)
(* The properties.                                                         *)
(***************************************************************************)

\* Only the decision of a beat dispatches, and only it queues.
LEMMA OnlyDecideNotifies ==
  ASSUME TypeOK, IInv, [Next]_vars, ~Decide
  PROVE  /\ dispatched' \subseteq dispatched
         /\ dispatched' # dispatched => dispatched' = {}
         /\ ~(UNCHANGED vars) => dispatched' = {}
         /\ worker'.pending # NoPending => worker'.pending = worker.pending
<1>1. worker \in WorkerState
  BY DEF TypeOK
<1>2. FreshWorker.pending = NoPending
  BY DEF FreshWorker
<1>3. CASE StartWorker
  BY <1>3 DEF StartWorker, StartedWorker, FreshWorker
<1>4. CASE BeginBeat
  BY <1>1, <1>4 DEF BeginBeat, CountRetry, WorkerState
<1>5. CASE AbortBeat
  BY <1>1, <1>5 DEF AbortBeat, WorkerState
<1>6. CASE DispatchFails
  <2>1. /\ worker' = IF Dispatches(worker, beat) THEN HandleStatusChange(worker, beat)
                                                 ELSE AfterBeat(worker, beat)
        /\ BeatDispatches(worker, beat) # {}
        /\ dispatched' = {}
    BY <1>6 DEF DispatchFails
  <2>2. CASE Dispatches(worker, beat)
    <3>1. ~Queues(worker, beat)
      BY <2>2 DEF Queues, Dispatches
    <3> QED
      BY <1>1, <2>1, <2>2, <3>1 DEF HandleStatusChange, WorkerState
  <2>3. CASE ~Dispatches(worker, beat)
    <3>1. beat \in BeatState /\ (worker.pending # NoPending => worker.notifiedBefore)
      BY DEF TypeOK, IInv, QueuedBehindNotification
    <3>2. worker'.pending = NoPending
      BY <1>1, <2>1, <2>3, <3>1, BeatOutcome
    <3> QED
      BY <2>1, <3>2
  <2> QED
    BY <2>2, <2>3
<1>7. CASE LoseWorker \/ Pause
  BY <1>2, <1>7 DEF LoseWorker, Pause
<1>8. CASE FinishBeat \/ Resume \/ TargetChanges \/ MaintenanceChanges
  BY <1>8 DEF FinishBeat, Resume, TargetChanges, MaintenanceChanges
<1>9. CASE Tick
  BY <1>1, <1>9 DEF Tick, Age, WorkerState
<1>10. CASE UNCHANGED vars
  BY <1>10 DEF vars
<1> QED
  BY <1>3, <1>4, <1>5, <1>6, <1>7, <1>8, <1>9, <1>10 DEF Next

\* A problem the worker confirmed itself is announced or queued.
THEOREM ProblemAnnounced == Spec => []ConfirmedProblemAnnounced
<1>1. IInv => ConfirmedProblemAnnounced
  BY DEF IInv
<1> QED
  BY <1>1, Invariant, PTL

\* handleStatusChange and flushPendingNotification never both dispatch in one
\* beat.
THEOREM AtMostOneDispatch == Spec => []OneDispatchPerBeat
<1>1. Init => OneDispatchPerBeat
  BY DEF Init, OneDispatchPerBeat
<1>2. ASSUME TypeOK, IInv, OneDispatchPerBeat, [Next]_vars
      PROVE  OneDispatchPerBeat'
  <2>1. CASE Decide
    <3>1. /\ worker \in WorkerState /\ beat \in BeatState
          /\ worker.pending # NoPending => worker.notifiedBefore
          /\ dispatched' = BeatDispatches(worker, beat)
      BY <1>2, <2>1 DEF TypeOK, IInv, QueuedBehindNotification, Decide, Record
    <3>2. \/ dispatched' = {}
          \/ \E d : dispatched' = {d}
      BY <3>1, BeatOutcome
    <3> QED
      BY <3>2 DEF OneDispatchPerBeat
  <2>2. CASE ~Decide
    BY <1>2, <2>2, OnlyDecideNotifies DEF OneDispatchPerBeat
  <2> QED
    BY <2>1, <2>2
<1> QED
  BY <1>1, <1>2, TypeCorrect, Invariant, PTL DEF Spec

\* A down or an alert is announced or queued only after more than maxRetries
\* failing checks.
THEOREM RetriedBeforeAnnounced == Spec => ProblemsAreRetried
<1> DEFINE Retried ==
      /\ \A d \in dispatched' :
           d.new \in Retryable /\ ~d.flushed => failures > MaxRetries
      /\ worker'.pending \in Retryable /\ worker'.pending # worker.pending
           => failures > MaxRetries
<1>1. NoPending \notin Retryable
  BY DEF NoPending, Retryable
<1>2. ASSUME TypeOK, IInv, [Next]_vars
      PROVE  [Retried]_vars
  <2>1. CASE Decide
    <3>1. /\ worker \in WorkerState /\ beat \in BeatState
          /\ worker.pending # NoPending => worker.notifiedBefore
          /\ worker.retryCount <= failures
          /\ dispatched' = BeatDispatches(worker, beat)
          /\ worker' = AfterBeat(worker, beat)
      BY <1>2, <2>1 DEF TypeOK, IInv, QueuedBehindNotification,
         RetriesAreFailures, Decide, Record
    <3>2. Queues(worker, beat) \/ Dispatches(worker, beat)
            => (beat.status \in Retryable => worker.retryCount > MaxRetries)
      BY DEF Queues, Dispatches, Changes, Confirms
    <3>3. failures \in Nat /\ worker.retryCount \in Nat
      BY <1>2, <3>1, MaxRetriesAssumption DEF TypeOK, WorkerState
    <3>4. Queues(worker, beat) \/ Dispatches(worker, beat)
            => (beat.status \in Retryable => failures > MaxRetries)
      BY <3>1, <3>2, <3>3, MaxRetriesAssumption
    <3>5. ImmediateDispatch(worker, beat).new = beat.status
      BY DEF ImmediateDispatch
    <3>6. \A d \in dispatched' :
            d.new \in Retryable /\ ~d.flushed => failures > MaxRetries
      BY <3>1, <3>4, <3>5, BeatOutcome
    <3>7. worker'.pending \in Retryable /\ worker'.pending # worker.pending
            => failures > MaxRetries
      BY <1>1, <3>1, <3>4, BeatOutcome
    <3> QED
      BY <3>6, <3>7
  <2>2. CASE ~Decide
    BY <1>1, <1>2, <2>2, OnlyDecideNotifies
  <2> QED
    BY <2>1, <2>2
<1> QED
  BY <1>2, TypeCorrect, Invariant, PTL DEF Spec, ProblemsAreRetried

\* Two notifications of one worker are at least the cooldown apart.
THEOREM Spaced == Spec => NotificationsAreSpaced
<1> DEFINE Spacing == toldThisLife /\ dispatched' # {} => quiet >= beat.cooldown
<1>1. ASSUME TypeOK, IInv, [Next]_vars
      PROVE  [Spacing]_vars
  <2>1. CASE Decide
    <3> SUFFICES ASSUME toldThisLife, dispatched' # {}
                 PROVE  quiet >= beat.cooldown
      OBVIOUS
    <3>1. /\ worker \in WorkerState /\ beat \in BeatState
          /\ worker.notifiedBefore
          /\ worker.pending # NoPending => worker.stableFor <= quiet
          /\ dispatched' = BeatDispatches(worker, beat)
      BY <1>1, <2>1 DEF TypeOK, IInv, NotifiedIsTold, QueuedAfterNotification,
         Decide, Record
    <3>2. /\ quiet \in Nat /\ beat.cooldown \in Nat /\ worker.stableFor \in Nat
      BY <1>1, <3>1, MaxCooldownAssumption DEF TypeOK, WorkerState, BeatState
    <3>3. Dispatches(worker, beat) => beat.cooldown = 0
      BY <3>1, <3>2 DEF Dispatches, Debounced
    <3>4. \/ Dispatches(worker, beat)
          \/ worker.pending # NoPending /\ worker.stableFor >= beat.cooldown
      BY <3>1, BeatOutcome
    <3> QED
      BY <3>1, <3>2, <3>3, <3>4
  <2>2. CASE ~Decide
    BY <1>1, <2>2, OnlyDecideNotifies
  <2> QED
    BY <2>1, <2>2
<1> QED
  BY <1>1, TypeCorrect, Invariant, PTL DEF Spec, NotificationsAreSpaced

\* Behind a cooldown a worker never says the same thing twice in a row.
THEOREM NoRepeat == Spec => NoRepeatBehindCooldown
<1> DEFINE Fresh == ~AgentMonitor /\ toldThisLife /\ 0 \notin Cooldowns
                      => \A d \in dispatched' : d.new # told
<1>1. ASSUME TypeOK, IInv, [Next]_vars
      PROVE  [Fresh]_vars
  <2>1. CASE Decide
    <3> SUFFICES ASSUME ~AgentMonitor, toldThisLife, 0 \notin Cooldowns,
                        NEW d \in dispatched'
                 PROVE  d.new # told
      OBVIOUS
    <3>1. /\ worker \in WorkerState /\ beat \in BeatState
          /\ worker.notifiedBefore
          /\ told = worker.lastNotifiedStatus
          /\ beat.cooldown \in Cooldowns
          /\ dispatched' = BeatDispatches(worker, beat)
      BY <1>1, <2>1 DEF TypeOK, IInv, NotifiedIsTold, BeatIsConfigured, Decide, Record
    <3>2. beat.cooldown > 0
      BY <3>1, MaxCooldownAssumption DEF BeatState
    <3>3. ~Dispatches(worker, beat)
      BY <3>1, <3>2 DEF Dispatches, Debounced
    <3>4. d.new = worker.pending /\ worker.pending # worker.lastNotifiedStatus
      BY <3>1, <3>3, BeatOutcome
    <3> QED
      BY <3>1, <3>4
  <2>2. CASE ~Decide
    BY <1>1, <2>2, OnlyDecideNotifies
  <2> QED
    BY <2>1, <2>2
<1> QED
  BY <1>1, TypeCorrect, Invariant, PTL DEF Spec, NoRepeatBehindCooldown

(***************************************************************************)
(* The refinement: every step of the worker is a step of Announcements.    *)
(***************************************************************************)

\* What a beat announces becomes the known problem; without an announcement the
\* known problem stays, or ends.
LEMMA KnownAfterBeat ==
  ASSUME TypeOK, IInv, Decide, ~Proxied
  PROVE  IF Queues(worker, beat) \/ Dispatches(worker, beat)
           THEN KnownProblem' = Promise!Knowing(beat.status)
           ELSE KnownProblem' \in {KnownProblem, "fine"}
<1>1. /\ worker \in WorkerState /\ beat \in BeatState
      /\ worker' = AfterBeat(worker, beat)
      /\ inherited' = (inherited /\ worker'.confirmedStatus = worker.confirmedStatus)
      /\ alive /\ alive' = alive
      /\ inherited \in BOOLEAN
  BY DEF Decide, TypeOK
<1>2. worker'.confirmedStatus =
        IF Advances(worker, beat) THEN beat.status ELSE worker.confirmedStatus
  BY <1>1, SettleFields, AfterBeatFields
<1>3. beat.suppress = FALSE
  <2>1. beat.suppress \in BOOLEAN /\ ~beat.suppress
    BY <1>1 DEF IInv, BeatIsConfigured, Decide, BeatState
  <2> QED
    BY <2>1
<1>4. CASE Queues(worker, beat) \/ Dispatches(worker, beat)
  <2>1. /\ Changes(worker, beat)
        /\ ~Silent(worker, beat)
    BY <1>4 DEF Queues, Dispatches
  <2>2. /\ Confirms(worker, beat) /\ ~beat.maint
        /\ beat.status # worker.confirmedStatus
    BY <2>1 DEF Changes, Silent
  <2>3. Advances(worker, beat)
    BY <2>2 DEF Advances
  <2>4. worker'.confirmedStatus = beat.status /\ inherited' = FALSE
    BY <1>1, <1>2, <2>2, <2>3
  <2> QED
    BY <1>1, <1>4, <2>4 DEF KnownProblem, Promise!Knowing
<1>5. CASE ~Queues(worker, beat) /\ ~Dispatches(worker, beat)
  <2>1. CASE worker'.confirmedStatus = worker.confirmedStatus
    BY <1>1, <1>5, <2>1 DEF KnownProblem
  <2>2. CASE worker'.confirmedStatus # worker.confirmedStatus
    <3>1. /\ Advances(worker, beat)
          /\ worker'.confirmedStatus = beat.status
          /\ beat.status # worker.confirmedStatus
      BY <1>2, <2>2
    <3>2. beat.status \notin Problem
      <4> SUFFICES ASSUME beat.status \in Problem PROVE FALSE
        OBVIOUS
      <4>1. Changes(worker, beat) /\ ~beat.maint
        BY <3>1 DEF Advances, Changes
      <4>2. beat.status # "inactive" /\ beat.status # "up"
        BY DEF Problem, Retryable, Ssl
      <4>3. ~Silent(worker, beat)
        BY <1>3, <4>1, <4>2 DEF Silent
      <4> QED
        BY <1>5, <4>1, <4>3 DEF Queues, Dispatches
    <3> QED
      BY <1>5, <3>1, <3>2 DEF KnownProblem
  <2> QED
    BY <2>1, <2>2
<1> QED
  BY <1>4, <1>5

\* The decision of a beat is a step of the promise, or none.
LEMMA DecideKeepsPromise ==
  ASSUME TypeOK, IInv, Decide, ~Proxied, ~AgentMonitor
  PROVE  [Promise!Next]_<<KnownProblem, worker.pending, told>>
<1>1. /\ worker \in WorkerState /\ beat \in BeatState
      /\ worker' = AfterBeat(worker, beat)
      /\ told' \in IF BeatDispatches(worker, beat) = {} THEN {told}
                   ELSE {d.new : d \in BeatDispatches(worker, beat)}
  BY DEF Decide, Record, TypeOK
<1>2. worker.pending # NoPending => worker.notifiedBefore
  BY DEF IInv, QueuedBehindNotification
<1>3. beat.status \in Status /\ worker.pending \in Status \union {NoPending}
  BY <1>1 DEF BeatState, WorkerState
<1>4. CASE Dispatches(worker, beat)
  <2>1. /\ BeatDispatches(worker, beat) = {ImmediateDispatch(worker, beat)}
        /\ worker'.pending = worker.pending
    BY <1>1, <1>2, <1>4, BeatOutcome DEF Queues, Dispatches
  <2>2. told' = beat.status
    BY <1>1, <2>1 DEF ImmediateDispatch
  <2>3. worker.pending = NoPending
    <3> SUFFICES ASSUME worker.pending # NoPending PROVE FALSE
      OBVIOUS
    <3>1. ~(beat.cooldown > 0)
      BY <1>2, <1>4 DEF Dispatches, Debounced
    <3>2. beat.cooldown \in Cooldowns
      BY DEF IInv, BeatIsConfigured, Decide
    <3>3. 0 \in Cooldowns
      BY <1>1, <3>1, <3>2, MaxCooldownAssumption DEF BeatState
    <3> QED
      BY <3>3 DEF IInv, QueuedBehindNotification
  <2>4. KnownProblem' = Promise!Knowing(beat.status)
    BY <1>4, KnownAfterBeat
  <2>5. Promise!TellNow(beat.status)
    BY <2>1, <2>2, <2>3, <2>4 DEF Promise!TellNow
  <2> QED
    BY <1>3, <2>5 DEF Promise!Next
<1>5. CASE Queues(worker, beat)
  <2>1. BeatDispatches(worker, beat) = {} /\ worker'.pending = beat.status
    BY <1>1, <1>2, <1>5, BeatOutcome DEF Queues, Dispatches
  <2>2. told' = told
    BY <1>1, <2>1
  <2>3. KnownProblem' = Promise!Knowing(beat.status)
    BY <1>5, KnownAfterBeat
  <2>4. Promise!TellLater(beat.status)
    BY <2>1, <2>2, <2>3 DEF Promise!TellLater
  <2> QED
    BY <1>3, <2>4 DEF Promise!Next
<1>6. CASE ~Queues(worker, beat) /\ ~Dispatches(worker, beat)
  <2>1. KnownProblem' \in {KnownProblem, "fine"}
    BY <1>6, KnownAfterBeat
  <2>2. CASE worker'.pending = NoPending /\ worker.pending # NoPending
    <3>1. told' = worker.pending
      <4>1. IF worker.pending = worker.lastNotifiedStatus
              THEN BeatDispatches(worker, beat) = {}
              ELSE \E d \in Dispatch : /\ d.new = worker.pending
                                       /\ d.flushed
                                       /\ BeatDispatches(worker, beat) = {d}
        BY <1>1, <1>2, <1>6, <2>2, BeatOutcome
      <4>2. told = worker.lastNotifiedStatus
        BY <1>2, <2>2 DEF IInv, NotifiedIsTold
      <4> QED
        BY <1>1, <4>1, <4>2
    <3>2. Promise!Deliver
      BY <2>1, <2>2, <3>1 DEF Promise!Deliver
    <3> QED
      BY <3>2 DEF Promise!Next
  <2>3. CASE ~(worker'.pending = NoPending /\ worker.pending # NoPending)
    <3>1. BeatDispatches(worker, beat) = {} /\ worker'.pending = worker.pending
      BY <1>1, <1>2, <1>6, <2>3, BeatOutcome
    <3>2. told' = told
      BY <1>1, <3>1
    <3>3. CASE KnownProblem' = KnownProblem
      BY <3>1, <3>2, <3>3
    <3>4. CASE KnownProblem' = "fine"
      <4>1. Promise!Forget
        BY <3>1, <3>2, <3>4 DEF Promise!Forget
      <4> QED
        BY <4>1 DEF Promise!Next
    <3> QED
      BY <2>1, <3>3, <3>4
  <2> QED
    BY <2>2, <2>3
<1> QED
  BY <1>4, <1>5, <1>6

\* MonitorWorker implements Announcements, for every number of retries, every
\* cooldown and all disturbances, but for an agent's monitor and a proxied one.
THEOREM Implements ==
  ASSUME ~AgentMonitor, ~Proxied
  PROVE  Spec => KeepsPromise
<1>1. Init => Promise!Init
  BY DEF Init, Promise!Init, KnownProblem, FreshWorker, Untold, NoPending
<1>2. ASSUME TypeOK, IInv, [Next]_vars
      PROVE  [Promise!Next]_<<KnownProblem, worker.pending, told>>
  <2> USE <1>2
  <2>1. worker \in WorkerState
    BY DEF TypeOK
  <2>2. CASE StartWorker
    <3>1. PICK row : worker' = StartedWorker(row) /\ inherited' = (row \in Problem)
      BY <2>2 DEF StartWorker
    <3>2. /\ worker'.pending = NoPending
          /\ worker'.confirmedStatus = row \/ worker'.confirmedStatus = "pending"
      BY <3>1 DEF StartedWorker, FreshWorker
    <3>3. "pending" \notin Problem
      BY DEF Problem, Retryable, Ssl
    <3>4. KnownProblem' = "fine" /\ told' = told
      BY <2>2, <3>1, <3>2, <3>3 DEF KnownProblem, StartWorker
    <3> QED
      BY <3>2, <3>4 DEF Promise!Next, Promise!Forget
  <2>3. CASE BeginBeat
    <3>1. /\ worker'.pending = worker.pending
          /\ worker'.confirmedStatus = worker.confirmedStatus
      BY <2>1, <2>3 DEF BeginBeat, CountRetry, WorkerState
    <3> QED
      BY <2>3, <3>1 DEF BeginBeat, KnownProblem
  <2>4. CASE Decide
    BY <2>4, DecideKeepsPromise
  <2>5. CASE AbortBeat
    <3>1. /\ worker'.pending = worker.pending
          /\ worker'.confirmedStatus = worker.confirmedStatus
      BY <2>1, <2>5 DEF AbortBeat, WorkerState
    <3> QED
      BY <2>5, <3>1 DEF AbortBeat, KnownProblem
  <2>6. CASE DispatchFails
    BY <2>6 DEF DispatchFails
  <2>7. CASE LoseWorker \/ Pause
    <3>1. KnownProblem' = "fine" /\ worker'.pending = NoPending /\ told' = told
      BY <2>7 DEF LoseWorker, Pause, KnownProblem, FreshWorker
    <3> QED
      BY <3>1 DEF Promise!Next, Promise!Forget
  <2>8. CASE FinishBeat \/ Resume \/ TargetChanges \/ MaintenanceChanges \/ UNCHANGED vars
    BY <2>8 DEF FinishBeat, Resume, TargetChanges, MaintenanceChanges, vars, KnownProblem
  <2>9. CASE Tick
    <3>1. /\ worker'.pending = worker.pending
          /\ worker'.confirmedStatus = worker.confirmedStatus
      BY <2>1, <2>9 DEF Tick, Age, WorkerState
    <3> QED
      BY <2>9, <3>1 DEF Tick, KnownProblem
  <2> QED
    BY <2>2, <2>3, <2>4, <2>5, <2>6, <2>7, <2>8, <2>9 DEF Next
<1> QED
  BY <1>1, <1>2, TypeCorrect, Invariant, PTL DEF Spec, KeepsPromise, Promise!Spec

\* Whatever implements Announcements conceals nothing: the problem a worker knows
\* of is the last thing told or the next thing to be told.
THEOREM PromiseHonoured == KeepsPromise => []Promise!NothingConcealed
<1>1. "fine" \notin Problem
  BY DEF Problem, Retryable, Ssl
<1>2. Promise!Init => Promise!NothingConcealed
  BY DEF Promise!Init, Promise!NothingConcealed
<1>3. ASSUME Promise!NothingConcealed,
             [Promise!Next]_<<KnownProblem, worker.pending, told>>
      PROVE  Promise!NothingConcealed'
  <2> USE <1>3
  <2>1. ASSUME NEW s \in Status, Promise!TellNow(s) \/ Promise!TellLater(s)
        PROVE  Promise!NothingConcealed'
    <3>1. NoPending \notin Status
      BY DEF NoPending, Status, Problem, Retryable, Ssl
    <3> QED
      BY <1>1, <2>1, <3>1 DEF Promise!NothingConcealed, Promise!TellNow,
         Promise!TellLater, Promise!Knowing
  <2>2. CASE Promise!Deliver
    BY <2>2 DEF Promise!Deliver, Promise!NothingConcealed
  <2>3. CASE Promise!Forget
    BY <2>3 DEF Promise!Forget, Promise!NothingConcealed
  <2>4. CASE UNCHANGED <<KnownProblem, worker.pending, told>>
    BY <2>4 DEF Promise!NothingConcealed
  <2> QED
    BY <2>1, <2>2, <2>3, <2>4 DEF Promise!Next
<1> QED
  BY <1>2, <1>3, PTL DEF KeepsPromise, Promise!Spec
=============================================================================
