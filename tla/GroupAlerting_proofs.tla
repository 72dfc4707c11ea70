------------------------ MODULE GroupAlerting_proofs ------------------------
(***************************************************************************)
(* Proofs about GroupAlerting, for every group of monitors, every number   *)
(* of retries and every cooldown.                                          *)
(***************************************************************************)
EXTENDS GroupAlerting, TLAPS

(***************************************************************************)
(* What the operators of StatusPipeline do to a worker: types.             *)
(***************************************************************************)

\* A new worker, restored or not, is well formed.
LEMMA StartedWorkerType ==
  ASSUME NEW s \in Status
  PROVE  StartedWorker(s) \in WorkerState /\ FreshWorker \in WorkerState
<1>1. "pending" \in Status /\ NoPending \in Status \union {NoPending}
  BY DEF Status
<1>2. 0 \in 0 .. MaxRetries + 1 /\ MaxCooldown \in 0 .. MaxCooldown
  BY MaxRetriesAssumption, MaxCooldownAssumption
<1>3. FreshWorker \in WorkerState
  BY <1>1, <1>2 DEF FreshWorker, WorkerState
<1>4. [FreshWorker EXCEPT !.previousStatus = s, !.confirmedStatus = s,
                          !.restoredFromDb = TRUE] \in WorkerState
  BY <1>3 DEF WorkerState
<1> QED
  BY <1>3, <1>4 DEF StartedWorker

\* Counting a retry, ageing and deciding all yield a well-formed worker.
LEMMA CountRetryType ==
  ASSUME NEW w \in WorkerState, NEW s \in Status
  PROVE  CountRetry(w, s) \in WorkerState
<1>1. ASSUME NEW n \in 0 .. MaxRetries + 1
      PROVE  [w EXCEPT !.retryCount = n] \in WorkerState
  BY DEF WorkerState
<1>2. w.retryCount <= MaxRetries => w.retryCount + 1 \in 0 .. MaxRetries + 1
  BY MaxRetriesAssumption DEF WorkerState
<1> QED
  BY <1>1, <1>2 DEF CountRetry

\* A worker that grows older is one.
LEMMA AgeType ==
  ASSUME NEW w \in WorkerState
  PROVE  Age(w) \in WorkerState
<1>1. ASSUME NEW n \in 0 .. MaxCooldown
      PROVE  [w EXCEPT !.stableFor = n] \in WorkerState
  BY DEF WorkerState
<1>2. w.stableFor < MaxCooldown => w.stableFor + 1 \in 0 .. MaxCooldown
  BY MaxCooldownAssumption DEF WorkerState
<1> QED
  BY <1>1, <1>2 DEF Age

\* What a change of status makes of a worker is one.
LEMMA HandleStatusChangeType ==
  ASSUME NEW w \in WorkerState, NEW b \in BeatState
  PROVE  HandleStatusChange(w, b) \in WorkerState
<1>1. b.status \in Status /\ 0 \in 0 .. MaxCooldown
  BY MaxCooldownAssumption DEF BeatState
<1>2. [w EXCEPT !.pending = b.status, !.stableFor = 0] \in WorkerState
  BY <1>1 DEF WorkerState
<1>3. [w EXCEPT !.notifiedBefore = TRUE, !.lastNotifiedStatus = b.status,
                !.stableFor = 0] \in WorkerState
  BY <1>1 DEF WorkerState
<1> QED
  BY <1>2, <1>3 DEF HandleStatusChange

\* So is what the judgement of a beat makes of it,
LEMMA SettleType ==
  ASSUME NEW w \in WorkerState, NEW b \in BeatState
  PROVE  Settle(w, b) \in WorkerState
<1> DEFINE h == HandleStatusChange(w, b)
<1>1. h \in WorkerState
  BY HandleStatusChangeType
<1> HIDE DEF h
<1>2. ASSUME NEW c \in Status, NEW n \in 0 .. MaxRetries + 1, NEW p \in Status
      PROVE  [h EXCEPT !.confirmedStatus = c, !.retryCount = n,
                       !.previousStatus = p, !.isFirstBeat = FALSE] \in WorkerState
  BY <1>1 DEF WorkerState
<1>3. /\ h.confirmedStatus \in Status
      /\ h.retryCount \in 0 .. MaxRetries + 1
      /\ 0 \in 0 .. MaxRetries + 1
  BY <1>1, MaxRetriesAssumption DEF WorkerState
<1>4. b.status \in Status
  BY DEF BeatState
<1> QED
  BY <1>2, <1>3, <1>4 DEF h, Settle

\* and what the whole beat makes of it.
LEMMA AfterBeatType ==
  ASSUME NEW w \in WorkerState, NEW b \in BeatState
  PROVE  AfterBeat(w, b) \in WorkerState
<1> DEFINE s == Settle(w, b)
<1>1. s \in WorkerState
  BY SettleType
<1> HIDE DEF s
<1>2. FlushDue(s, b) => s.pending \in Status
  BY <1>1 DEF FlushDue, WorkerState
<1>3. ASSUME NEW n \in BOOLEAN, NEW l \in Status
      PROVE  [s EXCEPT !.pending = NoPending, !.notifiedBefore = n,
                       !.lastNotifiedStatus = l] \in WorkerState
  BY <1>1 DEF WorkerState
<1>4. (s.notifiedBefore \/ Flushes(s, b)) \in BOOLEAN
  OBVIOUS
<1>5. Flush(s, b) \in WorkerState
  BY <1>1, <1>2, <1>3, <1>4 DEF Flush
<1> QED
  BY <1>5 DEF s, AfterBeat

\* What the beat confirms is what Settle does; the flush leaves it alone.
LEMMA ConfirmedStatus ==
  ASSUME NEW w \in WorkerState, NEW b \in BeatState
  PROVE  AfterBeat(w, b).confirmedStatus =
           IF Advances(w, b) THEN b.status ELSE w.confirmedStatus
<1> DEFINE h == HandleStatusChange(w, b)
           s == Settle(w, b)
<1>1. h \in WorkerState /\ s \in WorkerState
  BY HandleStatusChangeType, SettleType
<1>2. h.confirmedStatus = w.confirmedStatus
  BY DEF HandleStatusChange, WorkerState
<1> HIDE DEF h
<1>3. s.confirmedStatus = IF Advances(w, b) THEN b.status ELSE h.confirmedStatus
  BY <1>1 DEF h, Settle, WorkerState
<1> HIDE DEF s
<1>4. Flush(s, b).confirmedStatus = s.confirmedStatus
  BY <1>1 DEF Flush, WorkerState
<1> QED
  BY <1>2, <1>3, <1>4 DEF AfterBeat, s

\* What a beat dispatches are dispatches.
LEMMA BeatDispatchesType ==
  ASSUME NEW w \in WorkerState, NEW b \in BeatState
  PROVE  BeatDispatches(w, b) \subseteq Dispatch
<1> DEFINE s == Settle(w, b)
<1>1. s \in WorkerState
  BY SettleType
<1> HIDE DEF s
<1>2. Flushes(s, b) => FlushedDispatch(s) \in Dispatch
  BY <1>1 DEF Flushes, FlushDue, FlushedDispatch, Dispatch, WorkerState
<1>3. ImmediateDispatch(w, b) \in Dispatch
  BY DEF ImmediateDispatch, Dispatch, WorkerState, BeatState
<1> QED
  BY <1>2, <1>3 DEF s, BeatDispatches

(***************************************************************************)
(* What the beats of an undisturbed monitor do.                            *)
(***************************************************************************)

\* What a check reports is a problem or 'up', also upside down.
LEMMA JudgedTarget ==
  ASSUME NEW s \in CheckStatuses
  PROVE  /\ Judged(s) \in Problem \union {"up"}
         /\ Judged(s) \in Status
<1>1. s \in Problem \union {"up"}
  BY GroupStatusesAssumption
<1>2. "down" \in Problem
  BY DEF Problem, Retryable
<1>3. Judged(s) \in Problem \union {"up"}
  BY <1>1, <1>2 DEF Judged
<1> QED
  BY <1>3 DEF Status

\* No part of a beat makes a worker one restored from the database, and only
\* its decision touches confirmedStatus.
LEMMA KeptFields ==
  ASSUME NEW w \in WorkerState, NEW s \in Status, NEW b \in BeatState
  PROVE  /\ CountRetry(w, s).restoredFromDb = w.restoredFromDb
         /\ CountRetry(w, s).confirmedStatus = w.confirmedStatus
         /\ Age(w).restoredFromDb = w.restoredFromDb
         /\ Age(w).confirmedStatus = w.confirmedStatus
         /\ AfterBeat(w, b).restoredFromDb = w.restoredFromDb
<1> DEFINE h == HandleStatusChange(w, b)
           t == Settle(w, b)
<1>1. h \in WorkerState /\ t \in WorkerState
  BY HandleStatusChangeType, SettleType
<1>2. h.restoredFromDb = w.restoredFromDb
  BY DEF HandleStatusChange, WorkerState
<1> HIDE DEF h
<1>3. t.restoredFromDb = h.restoredFromDb
  BY <1>1 DEF h, Settle, WorkerState
<1> HIDE DEF t
<1>4. Flush(t, b).restoredFromDb = t.restoredFromDb
  BY <1>1 DEF Flush, WorkerState
<1>5. AfterBeat(w, b).restoredFromDb = w.restoredFromDb
  BY <1>2, <1>3, <1>4 DEF AfterBeat, t
<1>6. /\ CountRetry(w, s).restoredFromDb = w.restoredFromDb
      /\ CountRetry(w, s).confirmedStatus = w.confirmedStatus
  BY DEF CountRetry, WorkerState
<1>7. /\ Age(w).restoredFromDb = w.restoredFromDb
      /\ Age(w).confirmedStatus = w.confirmedStatus
  BY DEF Age, WorkerState
<1> QED
  BY <1>5, <1>6, <1>7

\* Without a cooldown an undisturbed beat dispatches the change it confirms, and
\* a beat that dispatches nothing confirms no problem and no recovery.
LEMMA UndisturbedBeat ==
  ASSUME NEW w \in WorkerState, NEW b \in BeatState, NEW a, a = AfterBeat(w, b),
         b.cooldown = 0, ~b.maint, ~b.startup, ~b.suppress,
         b.status \in Problem \union {"up"}
  PROVE  /\ \A d \in BeatDispatches(w, b) :
              /\ d.old = w.confirmedStatus
              /\ d.new \in Problem <=> a.confirmedStatus \in Problem
         /\ BeatDispatches(w, b) = {}
              => (a.confirmedStatus \in Problem <=> w.confirmedStatus \in Problem)
<1> DEFINE s == Settle(w, b)
<1>1. a.confirmedStatus = IF Advances(w, b) THEN b.status ELSE w.confirmedStatus
  BY ConfirmedStatus
<1>2. ~Flushes(s, b)
  BY DEF Flushes, FlushDue
<1> HIDE DEF s
<1>4. BeatDispatches(w, b) =
        IF Dispatches(w, b) THEN {ImmediateDispatch(w, b)} ELSE {}
  BY <1>2 DEF BeatDispatches, s
<1>5. Advances(w, b) <=> Confirms(w, b)
  BY DEF Advances
<1>6. Dispatches(w, b) <=> Changes(w, b) /\ ~Silent(w, b)
  BY DEF Dispatches, Debounced
<1>7. "up" \notin Problem /\ "pending" \notin Problem /\ "inactive" \notin Problem
  BY DEF Problem, Retryable, Ssl
<1>8. CASE Dispatches(w, b)
  <2>1. Confirms(w, b)
    BY <1>6, <1>8 DEF Changes
  <2>2. a.confirmedStatus = b.status
    BY <2>1, <1>1, <1>5
  <2>3. /\ ImmediateDispatch(w, b).old = w.confirmedStatus
        /\ ImmediateDispatch(w, b).new = b.status
    BY DEF ImmediateDispatch
  <2> QED
    BY <2>2, <2>3, <1>4, <1>8
<1>9. CASE ~Dispatches(w, b)
  <2>1. Silent(w, b) => w.confirmedStatus = "inactive" /\ b.status = "up"
    BY <1>7 DEF Silent
  <2>2. ~Changes(w, b) =>
          \/ ~Confirms(w, b)
          \/ b.status = w.confirmedStatus
          \/ b.status \notin Problem /\ w.confirmedStatus = "pending"
    BY DEF Changes
  <2>3. a.confirmedStatus \in Problem <=> w.confirmedStatus \in Problem
    BY <2>1, <2>2, <1>1, <1>5, <1>6, <1>7, <1>9
  <2> QED
    BY <2>3, <1>4, <1>9
<1> QED
  BY <1>8, <1>9

(***************************************************************************)
(* Type correctness.                                                       *)
(***************************************************************************)

\* The group's state is well formed whatever is put into it.
LEMMA GroupType ==
  ASSUME NEW D \in SUBSET Monitors, NEW n \in BOOLEAN
  PROVE  [down |-> D, notified |-> n] \in Group
BY DEF Group

\* The workers, their beats, the group and the startup keep their types.
THEOREM TypeCorrect == Spec => []TypeOK
<1>1. /\ "pending" \in Status /\ "up" \in Status
      /\ 0 \in 0 .. MaxCooldown /\ MaxCooldown \in 0 .. MaxCooldown
  BY MaxCooldownAssumption DEF Status
<1>2. /\ FreshWorker \in WorkerState
      /\ \A s \in Status : StartedWorker(s) \in WorkerState
  BY <1>1, StartedWorkerType
<1>3. NoBeat \in BeatState /\ NoNote \in Dispatch /\ NoGroup \in Group
  BY <1>1, GroupType DEF NoBeat, BeatState, NoNote, Dispatch, NoGroup, Group
<1>4. SettledUp \in WorkerState
  BY <1>1, <1>2 DEF SettledUp, WorkerState
<1>5. Init => TypeOK
  BY <1>1, <1>3, <1>4 DEF Init, TypeOK, Phases, Stages
<1>6. ASSUME TypeOK, [Next]_vars
      PROVE  TypeOK'
  <2> USE <1>6
  <2>1. ASSUME NEW m \in Monitors, NEW p \in Phases
        PROVE  [phase EXCEPT ![m] = p] \in [Monitors -> Phases]
    BY DEF TypeOK
  <2>2. ASSUME NEW m \in Monitors
        PROVE  /\ worker[m] \in WorkerState /\ beat[m] \in BeatState
               /\ note[m] \in Dispatch /\ status[m] \in Status
               /\ target[m] \in CheckStatuses
    BY DEF TypeOK
  <2>3. group.down \in SUBSET Monitors /\ group.notified \in BOOLEAN
    BY DEF TypeOK, Group
  <2>4. ASSUME NEW m \in Monitors, BeginBeat(m) PROVE TypeOK'
    <3> DEFINE s == Judged(target[m])
               b == [status |-> s, suppress |-> FALSE, maint |-> FALSE,
                     cooldown |-> Cooldown, startup |-> StartupBeat(worker[m])]
    <3>1. s \in Status
      BY <2>2, JudgedTarget
    <3>2. StartupBeat(worker[m]) \in BOOLEAN
      BY <2>2 DEF StartupBeat, WorkerState
    <3>3. b \in BeatState
      BY <3>1, <3>2, GroupCooldownAssumption DEF BeatState
    <3>4. CountRetry(worker[m], s) \in WorkerState
      BY <3>1, <2>2, CountRetryType
    <3>5. /\ beat' = [beat EXCEPT ![m] = b]
          /\ worker' = [worker EXCEPT ![m] = CountRetry(worker[m], s)]
          /\ phase' = [phase EXCEPT ![m] = "checked"]
      BY <2>4 DEF BeginBeat, Goes
    <3> HIDE DEF s, b
    <3>6. /\ beat' \in [Monitors -> BeatState]
          /\ worker' \in [Monitors -> WorkerState]
          /\ phase' \in [Monitors -> Phases]
      BY <3>3, <3>4, <3>5 DEF TypeOK, Phases
    <3> QED
      BY <2>4, <3>6 DEF BeginBeat, TypeOK
  <2>5. ASSUME NEW m \in Monitors, Decide(m) PROVE TypeOK'
    <3>1. worker' \in [Monitors -> WorkerState]
      BY <2>2, <2>5, AfterBeatType DEF Decide, TypeOK
    <3>2. phase' \in [Monitors -> Phases]
      BY <2>5 DEF Decide, Goes, TypeOK, Phases
    <3>3. BeatDispatches(worker[m], beat[m]) \subseteq Dispatch
      BY <2>2, BeatDispatchesType
    <3>4. \/ note' = note
          \/ \E d \in Dispatch : note' = [note EXCEPT ![m] = d]
      BY <2>5, <3>3 DEF Decide
    <3>5. note' \in [Monitors -> Dispatch]
      BY <3>4 DEF TypeOK
    <3> QED
      BY <2>5, <3>1, <3>2, <3>5 DEF Decide, TypeOK
  <2>6. ASSUME NEW m \in Monitors, GoesDown(m) PROVE TypeOK'
    <3>1. phase' \in [Monitors -> Phases]
      BY <2>6 DEF GoesDown, Goes, TypeOK, Phases
    <3>2. group' \in Group
      BY <2>3, <2>6 DEF GoesDown, Group
    <3> QED
      BY <2>6, <3>1, <3>2 DEF GoesDown, TypeOK
  <2>7. ASSUME NEW m \in Monitors, GoesUp(m) PROVE TypeOK'
    <3>1. phase' \in [Monitors -> Phases]
      BY <2>7 DEF GoesUp, Goes, TypeOK, Phases
    <3>2. (group.notified /\ ~AllRecovered(m)) \in BOOLEAN
      BY <2>3
    <3>3. group' \in Group
      BY <2>3, <2>7, <3>2 DEF GoesUp, Group, TypeOK
    <3> QED
      BY <2>7, <3>1, <3>3 DEF GoesUp, TypeOK
  <2>8. ASSUME NEW m \in Monitors, Send(m) PROVE TypeOK'
    BY <2>1, <2>8 DEF Send, Goes, TypeOK, Phases
  <2>9. ASSUME NEW m \in Monitors, NotificationLost(m) PROVE TypeOK'
    BY <2>1, <2>9 DEF NotificationLost, Goes, TypeOK, Phases
  <2>10. ASSUME NEW m \in Monitors, FinishBeat(m) PROVE TypeOK'
    <3>1. beat[m].status \in Status
      BY <2>2 DEF BeatState
    <3>2. /\ status' \in [Monitors -> Status]
          /\ beat' \in [Monitors -> BeatState]
          /\ note' \in [Monitors -> Dispatch]
          /\ phase' \in [Monitors -> Phases]
      BY <1>3, <2>10, <3>1 DEF FinishBeat, Goes, TypeOK, Phases
    <3> QED
      BY <2>10, <3>2 DEF FinishBeat, TypeOK
  <2>11. ASSUME Reboot PROVE TypeOK'
    BY <1>2, <1>3, <2>11 DEF Reboot, TypeOK, Phases, Stages
  <2>12. ASSUME NEW m \in Monitors, StartMonitor(m) PROVE TypeOK'
    BY <1>2, <2>2, <2>12 DEF StartMonitor, Goes, TypeOK, Phases
  <2>13. ASSUME ReadDown PROVE TypeOK'
    BY <2>13 DEF ReadDown, TypeOK, Stages
  <2>14. ASSUME Initialize PROVE TypeOK'
    <3>1. (group.notified \/ found # {}) \in BOOLEAN
      BY <2>3
    <3>2. group' \in Group
      BY <2>3, <2>14, <3>1 DEF Initialize, Group, TypeOK
    <3> QED
      BY <2>14, <3>2 DEF Initialize, TypeOK, Stages
  <2>15. ASSUME NEW m \in Monitors, Delete(m) PROVE TypeOK'
    BY <2>15 DEF Delete, Goes, TypeOK, Phases
  <2>16. ASSUME NEW m \in Monitors, Restart(m) PROVE TypeOK'
    BY <1>2, <2>2, <2>16 DEF Restart, Goes, TypeOK, Phases
  <2>17. ASSUME NEW m \in Monitors, TargetChanges(m) PROVE TypeOK'
    BY <2>17 DEF TargetChanges, TypeOK
  <2>18. ASSUME Tick PROVE TypeOK'
    BY <2>2, <2>18, AgeType DEF Tick, TypeOK
  <2>19. ASSUME UNCHANGED vars PROVE TypeOK'
    BY <2>19 DEF vars, TypeOK
  <2> QED
    BY <2>4, <2>5, <2>6, <2>7, <2>8, <2>9, <2>10, <2>11, <2>12, <2>13, <2>14,
       <2>15, <2>16, <2>17, <2>18, <2>19 DEF Next, BeatStep
<1> QED
  BY <1>5, <1>6, PTL DEF Spec

(***************************************************************************)
(* The group's state.                                                      *)
(***************************************************************************)

\* Only the two operations of the service, its initialization and a restart of
\* the server write the group's state.
LEMMA GroupWriters ==
  ASSUME [Next]_vars
  PROVE  \/ group' = group
         \/ \E m \in Monitors : GoesDown(m) \/ GoesUp(m)
         \/ Initialize \/ Reboot
BY DEF Next, BeatStep, BeginBeat, Decide, Send, FinishBeat, NotificationLost,
       StartMonitor, ReadDown, Delete, Restart, TargetChanges, Tick, vars

\* Each of them keeps the flag and the set together.
LEMMA ConsistentStep ==
  ASSUME TypeOK, GroupConsistent, [Next]_vars
  PROVE  GroupConsistent'
<1>1. group.notified \in BOOLEAN
  BY DEF TypeOK, Group
<1>2. CASE group' = group
  BY <1>2 DEF GroupConsistent
<1>3. ASSUME NEW m \in Monitors, GoesDown(m) PROVE GroupConsistent'
  BY <1>3 DEF GoesDown, GroupConsistent
<1>4. ASSUME NEW m \in Monitors, GoesUp(m) PROVE GroupConsistent'
  <2>1. CASE LeavesDown(m)
    <3>1. /\ group'.down = group.down \ {m}
          /\ group'.notified = (group.notified /\ ~AllRecovered(m))
      BY <1>4, <2>1 DEF GoesUp
    <3>2. AllRecovered(m) <=> group.down \ {m} = {} /\ group.notified
      BY <2>1 DEF AllRecovered
    <3> QED
      BY <3>1, <3>2 DEF GroupConsistent
  <2>2. CASE ~LeavesDown(m)
    BY <1>4, <2>2 DEF GoesUp, GroupConsistent
  <2> QED
    BY <2>1, <2>2
<1>5. CASE Initialize
  <2>1. /\ group'.down = group.down \union found
        /\ group'.notified = (group.notified \/ found # {})
    BY <1>5 DEF Initialize
  <2> QED
    BY <2>1 DEF GroupConsistent
<1>6. CASE Reboot
  BY <1>6 DEF Reboot, NoGroup, GroupConsistent
<1> QED
  BY <1>2, <1>3, <1>4, <1>5, <1>6, GroupWriters

\* A beat that is about to announce the outage has put its monitor into the set,
\* and only that monitor's own next beat takes it out.
LEMMA AlarmingStep ==
  ASSUME TypeOK, AlarmingIsDown, [Next]_vars
  PROVE  AlarmingIsDown'
<1> SUFFICES ASSUME NEW k \in Monitors, phase'[k] = "alarming"
             PROVE  k \in group'.down
  BY DEF AlarmingIsDown
<1>1. phase \in [Monitors -> Phases]
  BY DEF TypeOK
<1>2. phase[k] = "alarming" \/ GoesDown(k)
  BY <1>1 DEF Next, BeatStep, BeginBeat, Decide, GoesDown, GoesUp, Send,
              FinishBeat, NotificationLost, Reboot, StartMonitor, ReadDown,
              Initialize, Delete, Restart, TargetChanges, Tick, vars, Goes
<1>3. CASE GoesDown(k)
  BY <1>3 DEF GoesDown
<1>4. CASE phase[k] = "alarming"
  <2>1. k \in group.down
    BY <1>4 DEF AlarmingIsDown
  <2>2. CASE group' = group
    BY <2>1, <2>2
  <2>3. ASSUME NEW m \in Monitors, GoesDown(m) PROVE k \in group'.down
    BY <2>1, <2>3 DEF GoesDown
  <2>4. ASSUME NEW m \in Monitors, GoesUp(m) PROVE k \in group'.down
    <3>1. m # k
      BY <1>4, <2>4 DEF GoesUp
    <3> QED
      BY <2>1, <2>4, <3>1 DEF GoesUp
  <2>5. CASE Initialize
    BY <2>1, <2>5 DEF Initialize
  <2>6. CASE Reboot
    BY <1>1, <1>4, <2>6 DEF Reboot
  <2> QED
    BY <2>2, <2>3, <2>4, <2>5, <2>6, GroupWriters
<1> QED
  BY <1>2, <1>3, <1>4

(***************************************************************************)
(* Undisturbed groups.                                                     *)
(***************************************************************************)

\* An undisturbed group only beats, while its targets and the clock move.
LEMMA CalmSteps ==
  ASSUME CalmBeats, [Next]_vars, calm'
  PROVE  /\ calm
         /\ server' = server /\ starting' \in {starting, None}
         /\ \/ \E m \in Monitors : BeatStep(m)
            \/ \E m \in Monitors : TargetChanges(m)
            \/ Tick
            \/ UNCHANGED vars
<1>1. calm
  BY DEF Next, BeatStep, BeginBeat, Decide, GoesDown, GoesUp, Send, FinishBeat,
         NotificationLost, Reboot, StartMonitor, ReadDown, Initialize, Delete,
         Restart, TargetChanges, Tick, vars
<1>2. server = "running"
  BY <1>1 DEF CalmBeats
<1>3. \/ \E m \in Monitors : BeatStep(m)
      \/ \E m \in Monitors : TargetChanges(m)
      \/ Tick
      \/ UNCHANGED vars
  BY <1>2 DEF Next, NotificationLost, Reboot, StartMonitor, ReadDown,
              Initialize, Delete, Restart
<1>4. server' = server /\ starting' \in {starting, None}
  BY <1>3 DEF BeatStep, BeginBeat, Decide, GoesDown, GoesUp, Send, FinishBeat,
              TargetChanges, Tick, vars
<1> QED
  BY <1>1, <1>3, <1>4

\* What CalmBeats says of one monitor.
CalmBeat(m) ==
  /\ phase[m] \notin {"waiting", "starting", "deleted"}
  /\ ~worker[m].restoredFromDb
  /\ phase[m] # "idle" =>
       /\ ~beat[m].maint /\ ~beat[m].startup /\ ~beat[m].suppress
       /\ beat[m].cooldown = Cooldown
       /\ beat[m].status \in Problem \union {"up"}

\* Nothing is restored, suppressed or delayed by another beat.
LEMMA CalmStep ==
  ASSUME TypeOK, CalmBeats, [Next]_vars
  PROVE  CalmBeats'
<1> SUFFICES ASSUME calm' PROVE CalmBeats'
  BY DEF CalmBeats
<1>1. /\ calm /\ server = "running" /\ starting = None
      /\ server' = "running" /\ starting' = None
  BY CalmSteps DEF CalmBeats
<1>2. \A k \in Monitors : CalmBeat(k)
  BY <1>1 DEF CalmBeats, CalmBeat
<1>3. /\ phase \in [Monitors -> Phases]
      /\ worker \in [Monitors -> WorkerState]
      /\ beat \in [Monitors -> BeatState]
      /\ target \in [Monitors -> CheckStatuses]
  BY DEF TypeOK
<1>4. ASSUME NEW k \in Monitors PROVE CalmBeat(k)'
  <2>1. CalmBeat(k)
    BY <1>2
  <2>2. ASSUME NEW m \in Monitors, BeginBeat(m) PROVE CalmBeat(k)'
    <3> DEFINE s == Judged(target[m])
               b == [status |-> s, suppress |-> FALSE, maint |-> FALSE,
                     cooldown |-> Cooldown, startup |-> StartupBeat(worker[m])]
    <3>1. s \in Problem \union {"up"} /\ s \in Status
      BY <1>3, JudgedTarget
    <3>2. ~StartupBeat(worker[m])
      BY <1>2 DEF CalmBeat, StartupBeat
    <3>3. /\ b.status = s /\ ~b.suppress /\ ~b.maint
          /\ b.cooldown = Cooldown /\ ~b.startup
      BY <3>2
    <3>4. CountRetry(worker[m], s).restoredFromDb = worker[m].restoredFromDb
      <4>1. PICK c : c \in BeatState
        BY <1>3
      <4> QED
        BY <1>3, <3>1, <4>1, KeptFields
    <3>5. /\ beat' = [beat EXCEPT ![m] = b]
          /\ worker' = [worker EXCEPT ![m] = CountRetry(worker[m], s)]
          /\ phase' = [phase EXCEPT ![m] = "checked"]
      BY <2>2 DEF BeginBeat, Goes
    <3> HIDE DEF s, b
    <3>6. CASE k = m
      <4>1. /\ phase'[k] = "checked" /\ beat'[k] = b
            /\ worker'[k] = CountRetry(worker[m], s)
        BY <1>3, <3>5, <3>6
      <4> QED
        BY <2>1, <3>1, <3>3, <3>4, <3>6, <4>1 DEF CalmBeat
    <3>7. CASE k # m
      <4>1. phase'[k] = phase[k] /\ beat'[k] = beat[k] /\ worker'[k] = worker[k]
        BY <1>3, <3>5, <3>7
      <4> QED
        BY <2>1, <4>1 DEF CalmBeat
    <3> QED
      BY <3>6, <3>7
  <2>3. ASSUME NEW m \in Monitors, Decide(m) PROVE CalmBeat(k)'
    <3>1. AfterBeat(worker[m], beat[m]).restoredFromDb = worker[m].restoredFromDb
      <4>1. "up" \in Status
        BY DEF Status
      <4> QED
        BY <1>3, <4>1, KeptFields
    <3>2. worker'[k].restoredFromDb = worker[k].restoredFromDb
      BY <1>3, <2>3, <3>1 DEF Decide
    <3>3. /\ beat'[k] = beat[k]
          /\ phase'[k] \in {phase[k], "writing", "looking"}
          /\ phase[k] = "idle" => phase'[k] = "idle"
      BY <1>3, <2>3 DEF Decide, Goes
    <3> QED
      BY <2>1, <3>2, <3>3 DEF CalmBeat
  <2>4. ASSUME NEW m \in Monitors, GoesDown(m) \/ GoesUp(m) \/ Send(m)
        PROVE  CalmBeat(k)'
    <3>1. /\ beat'[k] = beat[k] /\ worker'[k] = worker[k]
          /\ phase'[k] \in {phase[k], "writing", "alarming", "recovering"}
          /\ phase[k] = "idle" => phase'[k] = "idle"
      BY <1>3, <2>4 DEF GoesDown, GoesUp, Send, Goes
    <3> QED
      BY <2>1, <3>1 DEF CalmBeat
  <2>5. ASSUME NEW m \in Monitors, FinishBeat(m) PROVE CalmBeat(k)'
    <3>1. /\ worker'[k] = worker[k]
          /\ phase'[k] = "idle" \/ (phase'[k] = phase[k] /\ beat'[k] = beat[k])
      BY <1>3, <2>5 DEF FinishBeat, Goes
    <3> QED
      BY <2>1, <3>1 DEF CalmBeat
  <2>6. CASE Tick
    <3>1. worker'[k] = Age(worker[k])
      BY <1>3, <2>6 DEF Tick
    <3>2. Age(worker[k]).restoredFromDb = worker[k].restoredFromDb
      <4>1. PICK c : c \in BeatState
        BY <1>3
      <4>2. "up" \in Status
        BY DEF Status
      <4> QED
        BY <1>3, <4>1, <4>2, KeptFields
    <3> QED
      BY <2>1, <2>6, <3>1, <3>2 DEF Tick, CalmBeat
  <2>7. CASE (\E m \in Monitors : TargetChanges(m)) \/ UNCHANGED vars
    BY <2>1, <2>7 DEF TargetChanges, vars, CalmBeat
  <2> QED
    BY <2>2, <2>3, <2>4, <2>5, <2>6, <2>7, CalmSteps DEF BeatStep
<1> QED
  BY <1>1, <1>4 DEF CalmBeats, CalmBeat

\* What NoteIsChange and DownSetIsConfirmed say of one monitor.
Mirrored(m) ==
  IF phase[m] = "looking"
    THEN /\ note[m].new \in Problem <=> worker[m].confirmedStatus \in Problem
         /\ note[m].old \in Problem <=> m \in group.down
    ELSE m \in group.down <=> worker[m].confirmedStatus \in Problem

\* The group's set follows each worker: the notification in flight is the
\* difference between the two.
LEMMA MirrorStep ==
  ASSUME TypeOK, CalmBeats, NoteIsChange, DownSetIsConfirmed, [Next]_vars
  PROVE  NoteIsChange' /\ DownSetIsConfirmed'
<1> SUFFICES ASSUME calm', Cooldown = 0
             PROVE  NoteIsChange' /\ DownSetIsConfirmed'
  BY DEF NoteIsChange, DownSetIsConfirmed
<1>1. calm
  BY CalmSteps
<1>2. \A k \in Monitors : Mirrored(k)
  BY <1>1 DEF NoteIsChange, DownSetIsConfirmed, Mirrored
<1>3. /\ phase \in [Monitors -> Phases]
      /\ worker \in [Monitors -> WorkerState]
      /\ beat \in [Monitors -> BeatState]
      /\ note \in [Monitors -> Dispatch]
      /\ target \in [Monitors -> CheckStatuses]
  BY DEF TypeOK
<1>4. "up" \in Status
  BY DEF Status
<1>5. ASSUME NEW k \in Monitors PROVE Mirrored(k)'
  <2>1. Mirrored(k)
    BY <1>2
  <2>2. ASSUME NEW m \in Monitors, BeginBeat(m) PROVE Mirrored(k)'
    <3>1. PICK s \in Status : worker' = [worker EXCEPT ![m] = CountRetry(worker[m], s)]
      BY <1>3, <2>2, JudgedTarget DEF BeginBeat
    <3>2. CountRetry(worker[m], s).confirmedStatus = worker[m].confirmedStatus
      <4>1. PICK c : c \in BeatState
        BY <1>3
      <4> QED
        BY <1>3, <4>1, KeptFields
    <3>3. worker'[k].confirmedStatus = worker[k].confirmedStatus
      BY <1>3, <3>1, <3>2
    <3>4. /\ phase'[k] = phase[k] \/ (phase[k] # "looking" /\ phase'[k] # "looking")
          /\ note' = note /\ group' = group
      BY <1>3, <2>2 DEF BeginBeat, Goes
    <3> QED
      BY <2>1, <3>3, <3>4 DEF Mirrored
  <2>3. ASSUME NEW m \in Monitors, Decide(m) PROVE Mirrored(k)'
    <3> DEFINE a == AfterBeat(worker[m], beat[m])
               calls == BeatDispatches(worker[m], beat[m])
    <3>1. /\ worker' = [worker EXCEPT ![m] = a]
          /\ phase[m] = "checked" /\ group' = group
          /\ \/ calls = {} /\ note' = note /\ phase' = [phase EXCEPT ![m] = "writing"]
             \/ \E d \in calls : /\ note' = [note EXCEPT ![m] = d]
                                 /\ phase' = [phase EXCEPT ![m] = "looking"]
      BY <2>3 DEF Decide, Goes
    <3>2. /\ beat[m].cooldown = 0 /\ ~beat[m].maint /\ ~beat[m].startup
          /\ ~beat[m].suppress /\ beat[m].status \in Problem \union {"up"}
      BY <1>1, <3>1 DEF CalmBeats
    <3>3. /\ \A d \in calls : /\ d.old = worker[m].confirmedStatus
                              /\ d.new \in Problem <=> a.confirmedStatus \in Problem
          /\ calls = {} => (a.confirmedStatus \in Problem
                             <=> worker[m].confirmedStatus \in Problem)
      BY <1>3, <3>2, UndisturbedBeat
    <3> HIDE DEF a, calls
    <3>4. CASE k # m
      <4>1. worker'[k] = worker[k] /\ phase'[k] = phase[k] /\ note'[k] = note[k]
        BY <1>3, <3>1, <3>4
      <4> QED
        BY <2>1, <3>1, <4>1 DEF Mirrored
    <3>5. CASE k = m
      <4>1. m \in group.down <=> worker[m].confirmedStatus \in Problem
        BY <2>1, <3>1, <3>5 DEF Mirrored
      <4>2. worker'[m] = a
        BY <1>3, <3>1
      <4>3. CASE calls = {}
        <5>1. phase'[m] = "writing"
          BY <1>3, <3>1, <4>3
        <5> QED
          BY <3>1, <3>3, <3>5, <4>1, <4>2, <4>3, <5>1 DEF Mirrored
      <4>4. CASE calls # {}
        <5>1. PICK d \in calls : /\ note' = [note EXCEPT ![m] = d]
                                 /\ phase' = [phase EXCEPT ![m] = "looking"]
          BY <3>1, <4>4
        <5>2. note'[m] = d /\ phase'[m] = "looking"
          BY <1>3, <5>1
        <5>3. /\ d.old = worker[m].confirmedStatus
              /\ d.new \in Problem <=> a.confirmedStatus \in Problem
          BY <3>3
        <5>4. group'.down = group.down
          BY <3>1
        <5>5. note'[k].new \in Problem <=> worker'[k].confirmedStatus \in Problem
          BY <3>5, <4>2, <5>2, <5>3
        <5>6. note'[k].old \in Problem <=> k \in group'.down
          BY <3>5, <4>1, <5>2, <5>3, <5>4
        <5> QED
          BY <3>5, <5>2, <5>5, <5>6 DEF Mirrored
      <4> QED
        BY <4>3, <4>4
    <3> QED
      BY <3>4, <3>5
  <2>4. ASSUME NEW m \in Monitors, GoesDown(m) PROVE Mirrored(k)'
    <3>1. /\ phase[m] = "looking" /\ note[m].new \in Problem
          /\ group'.down = group.down \union {m} /\ worker' = worker /\ note' = note
          /\ phase'[m] # "looking"
          /\ k # m => phase'[k] = phase[k]
      BY <1>3, <2>4 DEF GoesDown, Goes
    <3> QED
      BY <2>1, <3>1 DEF Mirrored
  <2>5. ASSUME NEW m \in Monitors, GoesUp(m) PROVE Mirrored(k)'
    <3>1. /\ phase[m] = "looking" /\ note[m].new \notin Problem
          /\ worker' = worker /\ note' = note
          /\ phase'[m] # "looking"
          /\ k # m => phase'[k] = phase[k]
      BY <1>3, <2>5 DEF GoesUp, Goes
    <3>2. group'.down = IF note[m].old \in Problem THEN group.down \ {m} ELSE group.down
      BY <2>5 DEF GoesUp, LeavesDown
    <3> QED
      BY <2>1, <3>1, <3>2 DEF Mirrored
  <2>6. ASSUME NEW m \in Monitors, Send(m) \/ FinishBeat(m) PROVE Mirrored(k)'
    <3>1. /\ group' = group /\ worker' = worker
          /\ \/ phase'[k] = phase[k] /\ note'[k] = note[k]
             \/ phase[k] # "looking" /\ phase'[k] # "looking"
      BY <1>3, <2>6 DEF Send, FinishBeat, Goes
    <3> QED
      BY <2>1, <3>1 DEF Mirrored
  <2>7. CASE Tick
    <3>1. worker'[k] = Age(worker[k])
      BY <1>3, <2>7 DEF Tick
    <3>2. Age(worker[k]).confirmedStatus = worker[k].confirmedStatus
      <4>1. PICK c : c \in BeatState
        BY <1>3
      <4> QED
        BY <1>3, <1>4, <4>1, KeptFields
    <3> QED
      BY <2>1, <2>7, <3>1, <3>2 DEF Tick, Mirrored
  <2>8. CASE (\E m \in Monitors : TargetChanges(m)) \/ UNCHANGED vars
    BY <2>1, <2>8 DEF TargetChanges, vars, Mirrored
  <2> QED
    BY <2>2, <2>3, <2>4, <2>5, <2>6, <2>7, <2>8, CalmSteps DEF BeatStep
<1> QED
  BY <1>5 DEF NoteIsChange, DownSetIsConfirmed, Mirrored

(***************************************************************************)
(* The theorems.                                                           *)
(***************************************************************************)

\* The inductive invariant holds whatever the interleaving of the beats with
\* restarts, deletions, failures and the startup of the server.
THEOREM Invariant == Spec => []IInv
<1>1. Init => IInv
  <2>1. SettledUp.confirmedStatus = "up" /\ ~SettledUp.restoredFromDb
    BY DEF SettledUp, FreshWorker
  <2>2. "up" \notin Problem
    BY DEF Problem, Retryable, Ssl
  <2> QED
    BY <2>1, <2>2 DEF Init, IInv, GroupConsistent, AlarmingIsDown, CalmBeats,
       NoteIsChange, DownSetIsConfirmed, NoGroup
<1>2. TypeOK /\ IInv /\ [Next]_vars => IInv'
  BY ConsistentStep, AlarmingStep, CalmStep, MirrorStep DEF IInv
<1> QED
  BY <1>1, <1>2, TypeCorrect, PTL DEF Spec

\* The group counts as down exactly while one of its monitors does.
THEOREM Consistent == Spec => []GroupConsistent
<1>1. IInv => GroupConsistent
  BY DEF IInv
<1> QED
  BY <1>1, Invariant, PTL

\* An undisturbed group without a cooldown is down exactly when its workers
\* have confirmed problems.
THEOREM DownIsConfirmed == Spec => []DownSetIsConfirmed
<1>1. IInv => DownSetIsConfirmed
  BY DEF IInv
<1> QED
  BY <1>1, Invariant, PTL

\* A recovery is never under way while an alarm is.
THEOREM AlarmBeforeRecovery == Spec => RecoveryAfterAlarm
<1> DEFINE Ordered ==
      \A m, k \in Monitors :
        phase'[m] = "recovering" /\ phase[m] # "recovering" => phase[k] # "alarming"
<1>1. TypeOK /\ IInv /\ [Next]_vars => [Ordered]_vars
  <2> SUFFICES ASSUME TypeOK, IInv, Next, NEW m \in Monitors, NEW k \in Monitors,
                      phase'[m] = "recovering", phase[m] # "recovering",
                      phase[k] = "alarming"
               PROVE  FALSE
    OBVIOUS
  <2>1. phase \in [Monitors -> Phases]
    BY DEF TypeOK
  <2>2. GoesUp(m) /\ AllRecovered(m)
    BY <2>1 DEF Next, BeatStep, BeginBeat, Decide, GoesDown, GoesUp, Send,
                FinishBeat, NotificationLost, Reboot, StartMonitor, ReadDown,
                Initialize, Delete, Restart, TargetChanges, Tick, Goes
  <2>3. k \in group.down /\ k # m
    BY <2>2 DEF IInv, AlarmingIsDown, GoesUp
  <2> QED
    BY <2>2, <2>3 DEF AllRecovered
<1> QED
  BY <1>1, Invariant, TypeCorrect, PTL DEF Spec, RecoveryAfterAlarm
=============================================================================
