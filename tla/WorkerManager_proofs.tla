------------------------ MODULE WorkerManager_proofs ------------------------
(***************************************************************************)
(* Proofs about WorkerManager, for any number of requests and workers and  *)
(* any number of requests served at the same time.                         *)
(***************************************************************************)
EXTENDS WorkerManagerHistory, TLAPS

\* Stopping a worker keeps the pool well formed.
LEMMA StoppedType ==
  ASSUME TypeOK
  PROVE  Stopped \in [Workers -> Object]
<1>1. ASSUME NEW w \in Workers, NEW ph \in Phases
      PROVE  [worker EXCEPT ![w].isRunning = FALSE, ![w].phase = ph]
               \in [Workers -> Object]
  BY DEF TypeOK, Object
<1>2. slot # None => worker[slot].phase \in Phases /\ "done" \in Phases
  BY DEF TypeOK, Object, Phases
<1> QED
  BY <1>1, <1>2 DEF Stopped, TypeOK

\* Moving a request on, with what it has read, keeps the requests well formed.
LEMMA GoesType ==
  ASSUME TypeOK, NEW r \in Requests, NEW st \in Steps
  PROVE  /\ Goes(r, st) => req' \in [Requests -> Request]
         /\ \A seen \in Row : [req EXCEPT ![r].seen = seen, ![r].step = st]
                                \in [Requests -> Request]
         /\ [req EXCEPT ![r].settings = settings, ![r].step = st]
                                \in [Requests -> Request]
<1>1. Goes(r, st) => req' \in [Requests -> Request]
  BY DEF Goes, TypeOK, Request
<1>2. \A seen \in Row : [req EXCEPT ![r].seen = seen, ![r].step = st]
                                \in [Requests -> Request]
  BY DEF TypeOK, Request
<1>3. [req EXCEPT ![r].settings = settings, ![r].step = st] \in [Requests -> Request]
  BY DEF TypeOK, Request
<1> QED
  BY <1>1, <1>2, <1>3

\* The row keeps its type whatever status is written to it.
LEMMA RowType ==
  ASSUME TypeOK, NEW s \in RowStatus
  PROVE  /\ SetStatus(s) => row' \in Row
         /\ [row EXCEPT !.status = s] \in Row
         /\ \A a \in BOOLEAN : [row EXCEPT !.status = s, !.active = a] \in Row
<1>1. row \in Row
  BY DEF TypeOK
<1>2. [row EXCEPT !.status = s] \in Row
  BY <1>1 DEF Row
<1>3. \A a \in BOOLEAN : [row EXCEPT !.status = s, !.active = a] \in Row
  BY <1>1 DEF Row
<1> QED
  BY <1>1, <1>2, <1>3 DEF SetStatus

\* An edit keeps the row's type and its status, and changes nothing of a row that is gone.
LEMMA EditedRow ==
  ASSUME TypeOK, NEW new \in Edited
  PROVE  /\ new \in Row
         /\ new.status = row.status
         /\ ~Exists => new = row
<1>1. row \in Row
  BY DEF TypeOK
<1>2. CASE Exists
  <2>1. PICK a \in BOOLEAN : new = [row EXCEPT !.edits = @ + 1, !.active = a]
    BY <1>2 DEF Edited
  <2>2. new \in Row
    <3>1. row.edits + 1 \in Edits
      BY <1>1 DEF Row, Edits
    <3> QED
      BY <1>1, <2>1, <3>1 DEF Row
  <2>3. new.status = row.status
    BY <1>1, <2>1 DEF Row
  <2> QED
    BY <1>2, <2>2, <2>3
<1>3. CASE ~Exists
  BY <1>1, <1>3 DEF Edited
<1> QED
  BY <1>2, <1>3

\* The row, the settings, the map, the workers and the requests have their
\* types in every reachable state.
THEOREM TypeCorrect == Spec => []TypeOK
<1>1. Init => TypeOK
  <2> SUFFICES ASSUME Init PROVE TypeOK
    OBVIOUS
  <2>1. /\ Blank("unborn") \in Row
        /\ Blank("checked") \in Row
        /\ Unborn \in Object
        /\ [Unborn EXCEPT !.phase = "sleeping", !.isRunning = TRUE] \in Object
    BY DEF Blank, Row, RowStatus, Edits, Unborn, Object, Phases
  <2>2. \A r \in Requests : req[r] \in Request
    BY <2>1 DEF Init, Request, Steps, Edits
  <2>3. req \in [Requests -> Request]
    BY <2>2 DEF Init
  <2>4. worker \in [Workers -> Object]
    BY <2>1 DEF Init
  <2> QED
    BY <2>1, <2>3, <2>4 DEF Init, TypeOK, Edits
<1>2. ASSUME TypeOK, [Next]_vars
      PROVE  TypeOK'
  <2> USE <1>2
  <2>1. ASSUME NEW r \in Requests, RequestStep(r)
        PROVE  TypeOK'
    <3> USE <2>1 DEF Steps
    <3>1. CASE Create(r)
      <4>1. row' \in Row
        BY <3>1, RowType DEF Create, RowStatus
      <4> QED
        BY <3>1, <4>1, GoesType DEF Create, TypeOK
    <3>2. CASE Update(r)
      <4>1. row' \in Row
        BY <3>2, EditedRow DEF Update
      <4>2. req' \in [Requests -> Request]
        BY <3>2, GoesType DEF Update
      <4> QED
        BY <3>2, <4>1, <4>2 DEF Update, TypeOK
    <3>3. CASE ChangeSettings(r)
      <4>1. req' \in [Requests -> Request]
        BY <3>3, GoesType DEF ChangeSettings
      <4>2. settings' \in Edits
        BY <3>3 DEF ChangeSettings, TypeOK, Edits
      <4> QED
        BY <3>3, <4>1, <4>2 DEF ChangeSettings, TypeOK
    <3>4. CASE Stop(r) \/ Delete(r) \/ Restart(r)
      <4>1. /\ worker' = Stopped /\ slot' = None
            /\ UNCHANGED <<row, settings>>
        BY <3>4 DEF Stop, Delete, Restart, StopMonitor
      <4>2. req' \in [Requests -> Request]
        <5>1. Goes(r, "done") \/ Goes(r, "read") \/ Goes(r, "erase")
          BY <3>4 DEF Stop, Delete, Restart
        <5> QED
          BY <5>1, GoesType
      <4> QED
        BY <4>1, <4>2, StoppedType DEF TypeOK
    <3>5. CASE Affected(r) \/ Look(r)
      <4>1. CASE Affected(r)
        <5>1. req' \in [Requests -> Request]
          BY <4>1, GoesType DEF Affected
        <5> QED
          BY <4>1, <5>1 DEF Affected, TypeOK
      <4>2. CASE Look(r)
        BY <4>2, GoesType DEF Look, TypeOK
      <4> QED
        BY <3>5, <4>1, <4>2
    <3>6. CASE Toggle(r)
      <4>1. row' \in Row
        BY <3>6, RowType DEF Toggle, RowStatus
      <4>2. req' \in [Requests -> Request]
        BY <3>6, GoesType DEF Toggle
      <4> QED
        BY <3>6, <4>1, <4>2 DEF Toggle, TypeOK
    <3>7. CASE BulkPause(r)
      <4>1. row' \in Row
        BY <3>7, RowType DEF BulkPause, RowStatus
      <4>2. req' \in [Requests -> Request]
        BY <3>7, GoesType DEF BulkPause
      <4> QED
        BY <3>7, <4>1, <4>2 DEF BulkPause, TypeOK
    <3>8. CASE Erase(r)
      <4>1. row' \in Row
        BY <3>8, RowType DEF Erase, RowStatus
      <4>2. req' \in [Requests -> Request]
        BY <3>8, GoesType DEF Erase
      <4> QED
        BY <3>8, <4>1, <4>2 DEF Erase, TypeOK
    <3>9. CASE Read(r)
      BY <3>9, GoesType DEF Read, TypeOK
    <3>10. CASE Start(r)
      BY <3>10, GoesType DEF Start, TypeOK
    <3>11. CASE Build(r)
      BY <3>11, GoesType DEF Build, TypeOK
    <3>12. CASE Spawn(r)
      <4>1. PICK w \in Workers :
              /\ worker' = [worker EXCEPT ![w] =
                   [phase |-> "checking", isRunning |-> TRUE,
                    edits |-> req[r].seen.edits, settings |-> req[r].settings]]
              /\ slot' = w
        BY <3>12 DEF Spawn
      <4>2. [phase |-> "checking", isRunning |-> TRUE,
             edits |-> req[r].seen.edits, settings |-> req[r].settings] \in Object
        BY DEF TypeOK, Request, Row, Object, Phases
      <4>3. worker' \in [Workers -> Object]
        BY <4>1, <4>2 DEF TypeOK
      <4>4. req' \in [Requests -> Request]
        BY <3>12, GoesType DEF Spawn
      <4> QED
        BY <3>12, <4>1, <4>3, <4>4 DEF Spawn, TypeOK
    <3> QED
      BY <3>1, <3>2, <3>3, <3>4, <3>5, <3>6, <3>7, <3>8, <3>9, <3>10, <3>11, <3>12
         DEF RequestStep
  <2>2. ASSUME NEW w \in Workers, WorkerStep(w)
        PROVE  TypeOK'
    <3>1. CASE Wake(w)
      BY <3>1 DEF Wake, TypeOK, Object, Phases
    <3>2. CASE Store(w)
      <4>1. worker[w] \in Object
        BY DEF TypeOK
      <4>2. \/ worker' = [worker EXCEPT ![w] = [worker[w] EXCEPT !.phase = "writing"]]
            \/ worker' = [worker EXCEPT ![w] =
                            [worker[w] EXCEPT !.phase = "done", !.isRunning = FALSE]]
        BY <3>2 DEF Store, TypeOK
      <4>3. /\ [worker[w] EXCEPT !.phase = "writing"] \in Object
            /\ [worker[w] EXCEPT !.phase = "done", !.isRunning = FALSE] \in Object
        BY <4>1 DEF Object, Phases
      <4>4. worker' \in [Workers -> Object]
        BY <4>2, <4>3 DEF TypeOK
      <4> QED
        BY <3>2, <4>4 DEF Store, TypeOK
    <3>3. CASE Write(w)
      <4>1. Rested(w) \in Phases
        BY DEF Rested, Phases
      <4>2. row' \in Row
        BY <3>3, RowType DEF Write, RowStatus
      <4> QED
        BY <3>3, <4>1, <4>2 DEF Write, TypeOK, Object
    <3> QED
      BY <2>2, <3>1, <3>2, <3>3 DEF WorkerStep
  <2>3. CASE UNCHANGED vars
    BY <2>3 DEF vars, TypeOK
  <2> QED
    BY <2>1, <2>2, <2>3 DEF Next
<1> QED
  BY <1>1, <1>2, PTL DEF Spec

\* What stopMonitor does to the workers.
LEMMA StoppedWorkers ==
  ASSUME TypeOK, NEW w \in Workers
  PROVE  /\ w # slot => Stopped[w] = worker[w]
         /\ w = slot => /\ ~Stopped[w].isRunning
                        /\ Stopped[w].phase =
                             IF worker[w].phase = "sleeping" THEN "done"
                                                             ELSE worker[w].phase
<1>1. CASE slot = None
  BY <1>1, NoneAssumption DEF Stopped
<1>2. CASE slot # None
  <2>1. Stopped = [worker EXCEPT ![slot].isRunning = FALSE,
                                 ![slot].phase = IF @ = "sleeping" THEN "done" ELSE @]
    BY <1>2 DEF Stopped
  <2>2. worker[w] \in Object /\ worker \in [Workers -> Object] /\ slot \in Workers
    BY <1>2 DEF TypeOK
  <2>3. CASE w # slot
    BY <2>1, <2>2, <2>3
  <2>4. CASE w = slot
    <3>1. Stopped[w] = [worker[w] EXCEPT !.isRunning = FALSE,
             !.phase = IF worker[w].phase = "sleeping" THEN "done" ELSE worker[w].phase]
      BY <2>1, <2>2, <2>4
    <3> QED
      BY <2>2, <2>4, <3>1 DEF Object
  <2> QED
    BY <2>3, <2>4
<1> QED
  BY <1>1, <1>2

\* What each request does to the row: a monitor that is gone stays gone, and
\* one that exists does not become unborn again.
LEMMA RowEffect ==
  ASSUME TypeOK, NEW r \in Requests, RequestStep(r)
  PROVE  /\ row.status = "deleted" => row'.status = "deleted"
         /\ row'.status = "unborn" => row' = row
<1> USE DEF Exists
<1>1. row \in Row
  BY DEF TypeOK
<1>2. \A st \in RowStatus : [row EXCEPT !.status = st].status = st
  BY <1>1 DEF Row
<1>3. /\ \A x \in Edited : x.status = row.status
      /\ \A a \in BOOLEAN : [row EXCEPT !.status = "pending", !.active = a].status = "pending"
  BY <1>1 DEF Row, Edited
<1>4. CASE Create(r)
  BY <1>3, <1>4 DEF Create
<1>5. CASE Update(r)
  BY <1>3, <1>5 DEF Update
<1>6. CASE Toggle(r)
  BY <1>2, <1>6 DEF Toggle, SetStatus, RowStatus
<1>7. CASE BulkPause(r)
  BY <1>2, <1>7 DEF BulkPause, SetStatus, RowStatus
<1>8. CASE Erase(r)
  BY <1>2, <1>8 DEF Erase, RowStatus
<1>9. CASE \/ Affected(r) \/ Stop(r) \/ Delete(r) \/ Restart(r) \/ Spawn(r)
           \/ ChangeSettings(r) \/ Look(r) \/ Read(r) \/ Start(r) \/ Build(r)
  BY <1>9 DEF Affected, Stop, Delete, Restart, Spawn, ChangeSettings, Look,
     Read, Start, Build
<1> QED
  BY <1>4, <1>5, <1>6, <1>7, <1>8, <1>9 DEF RequestStep

\* A request stops the worker, starts one, or leaves the workers alone.
LEMMA RequestEffect ==
  ASSUME NEW r \in Requests, RequestStep(r)
  PROVE  StopMonitor \/ Spawn(r) \/ UNCHANGED <<slot, worker>>
<1>1. CASE Stop(r) \/ Delete(r) \/ Restart(r)
  BY <1>1 DEF Stop, Delete, Restart
<1>2. CASE \/ Create(r) \/ Update(r) \/ ChangeSettings(r) \/ Affected(r)
           \/ Look(r) \/ Toggle(r) \/ BulkPause(r) \/ Erase(r) \/ Read(r)
           \/ Start(r) \/ Build(r)
  BY <1>2 DEF Create, Update, ChangeSettings, Affected, Look, Toggle, BulkPause,
     Erase, Read, Start, Build
<1> QED
  BY <1>1, <1>2 DEF RequestStep

\* What the creation of a worker does.
LEMMA SpawnEffect ==
  ASSUME TypeOK, NEW r \in Requests, Spawn(r)
  PROVE  \E w \in Workers :
           /\ slot' = w
           /\ worker[w].phase = "unborn"
           /\ worker'[w].phase = "checking"
           /\ worker'[w].isRunning
           /\ \A v \in Workers \ {w} : worker'[v] = worker[v]
<1>1. PICK w \in Workers :
        /\ worker[w].phase = "unborn"
        /\ worker' = [worker EXCEPT ![w] =
             [phase |-> "checking", isRunning |-> TRUE,
              edits |-> req[r].seen.edits, settings |-> req[r].settings]]
        /\ slot' = w
  BY DEF Spawn
<1>2. worker'[w] = [phase |-> "checking", isRunning |-> TRUE,
                    edits |-> req[r].seen.edits, settings |-> req[r].settings]
  BY <1>1 DEF TypeOK
<1>3. \A v \in Workers \ {w} : worker'[v] = worker[v]
  BY <1>1 DEF TypeOK
<1> QED
  BY <1>1, <1>2, <1>3

\* What the step of a worker does to it; the others keep as they are.
LEMMA WorkerEffect ==
  ASSUME TypeOK, NEW w \in Workers, WorkerStep(w)
  PROVE  /\ UNCHANGED <<slot, settings, req>>
         /\ worker[w].phase # "unborn"
         /\ \A v \in Workers \ {w} : worker'[v] = worker[v]
         /\ \/ worker'[w].isRunning = worker[w].isRunning
            \/ ~Exists /\ ~worker'[w].isRunning
         /\ \/ worker[w].phase = "sleeping" /\ worker'[w].phase = "checking"
            \/ worker'[w].phase \in {"writing", "done"}
            \/ worker'[w].phase = "sleeping" /\ worker'[w].isRunning
         /\ row.status \in {"unborn", "deleted"} => row' = row
         /\ row'.status \in {row.status, "checked"}
<1>1. worker[w] \in Object /\ worker \in [Workers -> Object] /\ row \in Row
  BY DEF TypeOK
<1>2. CASE Wake(w)
  <2>1. /\ worker' = [worker EXCEPT ![w].phase = IF worker[w].isRunning THEN "checking" ELSE "done"]
        /\ worker[w].phase = "sleeping"
        /\ UNCHANGED <<row, slot, settings, req>>
    BY <1>2 DEF Wake
  <2>2. /\ worker'[w].phase \in {"checking", "done"}
        /\ worker'[w].isRunning = worker[w].isRunning
        /\ \A v \in Workers \ {w} : worker'[v] = worker[v]
    BY <1>1, <2>1 DEF Object
  <2> QED
    BY <2>1, <2>2
<1>3. CASE Store(w)
  <2>1. /\ worker[w].phase = "checking"
        /\ UNCHANGED <<row, slot, settings, req>>
    BY <1>3 DEF Store
  <2>2. CASE Exists
    <3>1. worker' = [worker EXCEPT ![w].phase = "writing"]
      BY <1>3, <2>2 DEF Store
    <3>2. /\ worker'[w].phase = "writing"
          /\ worker'[w].isRunning = worker[w].isRunning
          /\ \A v \in Workers \ {w} : worker'[v] = worker[v]
      BY <1>1, <3>1 DEF Object
    <3> QED
      BY <2>1, <3>2
  <2>3. CASE ~Exists
    <3>1. worker' = [worker EXCEPT ![w].phase = "done", ![w].isRunning = FALSE]
      BY <1>3, <2>3 DEF Store
    <3>2. /\ worker'[w].phase = "done"
          /\ ~worker'[w].isRunning
          /\ \A v \in Workers \ {w} : worker'[v] = worker[v]
      BY <1>1, <3>1 DEF Object
    <3> QED
      BY <2>1, <2>3, <3>2
  <2> QED
    BY <2>2, <2>3
<1>4. CASE Write(w)
  <2>1. /\ worker' = [worker EXCEPT ![w].phase = Rested(w)]
        /\ worker[w].phase = "writing"
        /\ UNCHANGED <<slot, settings, req>>
    BY <1>4 DEF Write
  <2>2. /\ worker'[w].phase = Rested(w)
        /\ worker'[w].isRunning = worker[w].isRunning
        /\ \A v \in Workers \ {w} : worker'[v] = worker[v]
    BY <1>1, <2>1 DEF Object
  <2>3. row.status \in {"unborn", "deleted"} => row' = row
    BY <1>4 DEF Write, SetStatus, Exists
  <2>4. row'.status \in {row.status, "checked"}
    BY <1>1, <1>4 DEF Write, SetStatus, Row
  <2>5. \/ worker'[w].phase = "done"
        \/ worker'[w].phase = "sleeping" /\ worker[w].isRunning
    BY <2>2 DEF Rested
  <2> QED
    BY <2>1, <2>2, <2>3, <2>4, <2>5
<1> QED
  BY <1>2, <1>3, <1>4 DEF WorkerStep

\* Whatever the interleaving of requests: the worker in the map runs, only a
\* running worker waits for its timer, and nothing happens to a monitor before
\* it is created.
THEOREM Invariant == Spec => []IInv
<1>1. Init => IInv
  <2> SUFFICES ASSUME Init PROVE IInv
    OBVIOUS
  <2>1. /\ Unborn.phase = "unborn" /\ \A r \in Requests : req[r].step = "new"
        /\ Blank("unborn").status = "unborn" /\ Blank("checked").status = "checked"
    BY DEF Init, Unborn, Blank
  <2>2. CASE row.status = "unborn"
    <3>1. slot = None /\ worker = [w \in Workers |-> Unborn]
      BY <2>1, <2>2 DEF Init
    <3> QED
      BY <2>1, <3>1 DEF IInv, RegisteredRuns
  <2>3. CASE row.status # "unborn"
    <3>1. /\ slot \in Workers
          /\ worker = [w \in Workers |->
               IF w = slot THEN [Unborn EXCEPT !.phase = "sleeping", !.isRunning = TRUE]
                           ELSE Unborn]
      BY <2>1, <2>3 DEF Init
    <3>2. worker[slot].isRunning
      BY <3>1 DEF Unborn
    <3>3. \A w \in Workers : worker[w].phase = "sleeping" => w = slot
      BY <2>1, <3>1
    <3> QED
      BY <2>3, <3>2, <3>3 DEF IInv, RegisteredRuns
  <2> QED
    BY <2>2, <2>3
<1>2. ASSUME TypeOK, IInv, [Next]_vars
      PROVE  IInv'
  <2> USE <1>2
  <2>1. ASSUME NEW r \in Requests, RequestStep(r)
        PROVE  IInv'
    <3> USE <2>1
    <3>1. /\ row.status = "deleted" => row'.status = "deleted"
          /\ row'.status = "unborn" => row' = row
      BY RowEffect
    <3>2. row'.status = "unborn" => \A q \in Requests :
             req'[q].step \in {"new", "affected", "done"}
      <4> SUFFICES ASSUME row'.status = "unborn"
                   PROVE  \A q \in Requests : req'[q].step \in {"new", "affected", "done"}
        OBVIOUS
      <4>1. /\ row.status = "unborn" /\ slot = None
            /\ \A q \in Requests : req[q].step \in {"new", "affected", "done"}
        BY <3>1 DEF IInv
      <4>2. ChangeSettings(r) \/ Affected(r)
        <5>1. ~Create(r)
          <6>1. Create(r) => \E a \in BOOLEAN : row' = [row EXCEPT !.status = "pending", !.active = a]
            BY DEF Create
          <6> QED
            BY <3>1, <4>1, <6>1 DEF TypeOK, Row
        <5> QED
          BY <4>1, <5>1 DEF RequestStep, Update, Look, Toggle, BulkPause, Stop, Delete,
             Erase, Restart, Read, Start, Build, Spawn
      <4>3. Goes(r, "affected") \/ Goes(r, "done")
        BY <4>1, <4>2 DEF ChangeSettings, Affected
      <4> QED
        BY <4>1, <4>3 DEF Goes, TypeOK, Request
    <3>3. CASE StopMonitor
      <4>1. slot' = None /\ worker' = Stopped
        BY <3>3 DEF StopMonitor
      <4>2. \A w \in Workers : worker'[w].phase = "sleeping" => worker'[w].isRunning
        BY <4>1, StoppedWorkers DEF IInv
      <4>3. row'.status = "unborn" => \A w \in Workers : worker'[w].phase = "unborn"
        BY <3>1, <4>1, StoppedWorkers DEF IInv
      <4> QED
        BY <3>2, <4>1, <4>2, <4>3 DEF IInv, RegisteredRuns
    <3>4. CASE Spawn(r)
      <4>1. PICK w \in Workers :
              /\ slot' = w
              /\ worker'[w].phase = "checking"
              /\ worker'[w].isRunning
              /\ \A v \in Workers \ {w} : worker'[v] = worker[v]
        BY <3>4, SpawnEffect
      <4>2. req[r].step = "spawn" /\ row' = row
        BY <3>4 DEF Spawn
      <4>3. row'.status # "unborn"
        BY <4>2 DEF IInv
      <4> QED
        BY <4>1, <4>3 DEF IInv, RegisteredRuns
    <3>5. CASE UNCHANGED <<slot, worker>>
      BY <3>1, <3>2, <3>5 DEF IInv, RegisteredRuns
    <3> QED
      BY <3>3, <3>4, <3>5, RequestEffect
  <2>2. ASSUME NEW w \in Workers, WorkerStep(w)
        PROVE  IInv'
    <3> USE <2>2
    <3>1. row.status # "unborn"
      BY WorkerEffect DEF IInv
    <3>2. \A v \in Workers : worker'[v].phase = "sleeping" => worker'[v].isRunning
      BY WorkerEffect DEF IInv
    <3>3. RegisteredRuns'
      <4>1. slot' = slot /\ (row.status = "deleted" => row' = row)
        BY WorkerEffect
      <4>2. slot # None => worker'[slot].isRunning = worker[slot].isRunning
                             \/ row.status \in {"unborn", "deleted"}
        BY WorkerEffect DEF Exists, TypeOK
      <4> QED
        BY <3>1, <4>1, <4>2 DEF IInv, RegisteredRuns
    <3>4. row'.status # "unborn"
      BY <3>1, WorkerEffect
    <3> QED
      BY <3>2, <3>3, <3>4 DEF IInv
  <2>3. CASE UNCHANGED vars
    BY <2>3 DEF vars, IInv, RegisteredRuns
  <2> QED
    BY <2>1, <2>2, <2>3 DEF Next
<1> QED
  BY <1>1, <1>2, TypeCorrect, PTL DEF Spec

\* No interleaving leaves a stopped worker in the map.
THEOREM MapHoldsRunningWorkers == Spec => []RegisteredRuns
<1>1. IInv => RegisteredRuns
  BY DEF IInv
<1> QED
  BY <1>1, Invariant, PTL

\* stop() is final.
THEOREM StopIsFinal == Spec => StoppedStaysStopped
<1> DEFINE Final == \A w \in Workers :
              worker[w].phase # "unborn" /\ ~worker[w].isRunning
                => /\ ~worker'[w].isRunning
                   /\ worker'[w].phase \in {worker[w].phase, "writing", "done"}
<1>1. ASSUME TypeOK, IInv, [Next]_vars
      PROVE  [Final]_vars
  <2> USE <1>1
  <2>1. ASSUME NEW r \in Requests, RequestStep(r)
        PROVE  Final
    <3>1. CASE StopMonitor
      BY <3>1, StoppedWorkers DEF StopMonitor
    <3>2. CASE Spawn(r)
      BY <3>2, SpawnEffect
    <3>3. CASE UNCHANGED <<slot, worker>>
      BY <3>3
    <3> QED
      BY <2>1, <3>1, <3>2, <3>3, RequestEffect
  <2>2. ASSUME NEW w \in Workers, WorkerStep(w)
        PROVE  Final
    <3>1. /\ \A v \in Workers \ {w} : worker'[v] = worker[v]
          /\ worker'[w].isRunning = worker[w].isRunning \/ ~worker'[w].isRunning
          /\ \/ worker[w].phase = "sleeping" /\ worker'[w].phase = "checking"
             \/ worker'[w].phase \in {"writing", "done"}
             \/ worker'[w].phase = "sleeping" /\ worker'[w].isRunning
      BY <2>2, WorkerEffect
    <3>2. worker[w].phase = "sleeping" => worker[w].isRunning
      BY DEF IInv
    <3> QED
      BY <3>1, <3>2
  <2>3. CASE UNCHANGED vars
    BY <2>3
  <2> QED
    BY <2>1, <2>2, <2>3 DEF Next
<1> QED
  BY <1>1, TypeCorrect, Invariant, PTL DEF Spec, StoppedStaysStopped

-----------------------------------------------------------------------------
(***************************************************************************)
(* The properties that depend on the history of the requests.              *)
(***************************************************************************)

\* The history only watches: a behaviour with it is a behaviour of the manager.
LEMMA HistoryAdds == SpecH => Spec
<1>1. InitH => Init
  BY DEF InitH
<1>2. [NextH]_<<vars, historyVars>> => [Next]_vars
  BY DEF NextH
<1> QED
  BY <1>1, <1>2, PTL DEF SpecH, Spec

\* A request moves alone, and never back to the beginning.
LEMMA RequestMoves ==
  ASSUME TypeOK, NEW r \in Requests, RequestStep(r)
  PROVE  /\ \A q \in Requests \ {r} : req'[q] = req[q]
         /\ req[r].step # "done"
         /\ req'[r].step # "new"
<1>1. req \in [Requests -> Request]
  BY DEF TypeOK
<1>2. ASSUME NEW st \in Steps \ {"new"}, Goes(r, st)
      PROVE  /\ \A q \in Requests \ {r} : req'[q] = req[q]
             /\ req'[r].step # "new"
  BY <1>1, <1>2 DEF Goes, Request
<1>3. CASE Create(r) \/ Look(r) \/ Read(r) \/ Build(r)
  <2>1. CASE Create(r)
    <3>1. req[r].step = "new" /\ req' = [req EXCEPT ![r].seen = row', ![r].step = "start"]
      BY <2>1 DEF Create, Arrives
    <3> QED
      BY <1>1, <3>1 DEF Request
  <2>2. CASE Look(r)
    BY <1>1, <2>2 DEF Look, Arrives, Request
  <2>3. CASE Read(r) \/ Build(r)
    BY <1>1, <2>3 DEF Read, Build, Request
  <2> QED
    BY <1>3, <2>1, <2>2, <2>3
<1>4. CASE Update(r) \/ ChangeSettings(r) \/ Affected(r) \/ BulkPause(r) \/ Toggle(r)
  BY <1>2, <1>4 DEF Update, ChangeSettings, Affected, BulkPause, Toggle, Arrives, Steps
<1>5. CASE Stop(r) \/ Delete(r) \/ Erase(r) \/ Restart(r) \/ Start(r) \/ Spawn(r)
  BY <1>2, <1>5 DEF Stop, Delete, Erase, Restart, Start, Spawn, Arrives, Steps
<1> QED
  BY <1>3, <1>4, <1>5 DEF RequestStep

\* A worker keeps the configuration it was made with, and its beats leave the edits of
\* the row alone.
LEMMA WorkerKeeps ==
  ASSUME TypeOK, NEW w \in Workers, WorkerStep(w)
  PROVE  /\ \A v \in Workers : /\ worker'[v].edits = worker[v].edits
                               /\ worker'[v].settings = worker[v].settings
                               /\ worker'[v].isRunning => worker[v].isRunning
         /\ row'.edits = row.edits /\ row'.active = row.active
<1>1. worker \in [Workers -> Object] /\ row \in Row
  BY DEF TypeOK
<1>2. CASE Wake(w)
  BY <1>1, <1>2 DEF Wake, Object
<1>3. CASE Store(w)
  BY <1>1, <1>3 DEF Store, Object
<1>4. CASE Write(w)
  BY <1>1, <1>4 DEF Write, SetStatus, Object, Row
<1> QED
  BY <1>2, <1>3, <1>4 DEF WorkerStep

\* What spawning does, configuration included.
LEMMA SpawnConfig ==
  ASSUME TypeOK, NEW r \in Requests, Spawn(r)
  PROVE  \E w \in Workers :
           /\ slot' = w
           /\ worker'[w].edits = req[r].seen.edits
           /\ worker'[w].settings = req[r].settings
           /\ \A v \in Workers \ {w} : worker'[v] = worker[v]
  BY DEF Spawn, TypeOK

\* A step of a request while no two overlap: its own part of SerialInv, given that the
\* other requests are at rest.
LEMMA SerialRequest ==
  ASSUME TypeOK, IInv, NEW r \in Requests, RequestStep(r),
         ~Overlap, ~Overlap',
         \A w \in Workers : worker[w].isRunning => w = slot,
         \A q \in InFlight : Alone(q),
         slot # None =>
           \/ worker[slot].edits = row.edits /\ worker[slot].settings = settings
           \/ row.status = "deleted"
           \/ \E q \in Requests : req[q].step \in {"affected", "restart"}
  PROVE  /\ \A w \in Workers : worker'[w].isRunning => w = slot'
         /\ \A q \in InFlight' : Alone(q)'
         /\ slot' # None =>
              \/ worker'[slot'].edits = row'.edits /\ worker'[slot'].settings = settings'
              \/ row'.status = "deleted"
              \/ \E q \in Requests : req'[q].step \in {"affected", "restart"}
<1>1. /\ req \in [Requests -> Request] /\ row \in Row
      /\ \A q \in Requests \ {r} : req'[q] = req[q]
      /\ req[r] \in Request
  BY RequestMoves DEF TypeOK
<1> DEFINE Rest == \A q \in Requests \ {r} : req[q].step \in {"new", "done"}
<1>2. req[r].step # "new" => Rest
  BY RequestMoves DEF Overlap, InFlight
<1>3. req'[r].step # "done" => Rest
  BY RequestMoves DEF Overlap, InFlight
<1>4. Rest => \A q \in InFlight' : q = r
  BY <1>1 DEF InFlight
<1>5. CASE Create(r)
  <2>1. /\ slot = None /\ UNCHANGED <<slot, worker, settings>>
        /\ req' = [req EXCEPT ![r].seen = row', ![r].step = "start"]
    BY <1>5 DEF Create, IInv
  <2>2. req'[r].step = "start" /\ req'[r].seen = row'
    BY <1>1, <2>1 DEF Request
  <2> QED
    BY <1>3, <1>4, <2>1, <2>2 DEF Alone
<1>6. CASE Update(r) \/ ChangeSettings(r) \/ BulkPause(r) \/ Look(r)
  <2>1. /\ req[r].step = "new" /\ UNCHANGED <<slot, worker>>
        /\ req'[r].step \in {"restart", "affected", "stop", "toggle", "done"}
    BY <1>1, <1>6 DEF Update, ChangeSettings, BulkPause, Look, Arrives, Goes, Request
  <2>2. CASE req'[r].step \in {"restart", "affected"}
    BY <1>3, <1>4, <2>1, <2>2 DEF Alone
  <2>3. CASE req'[r].step \in {"stop", "toggle", "done"}
    <3>1. /\ row'.edits = row.edits /\ settings' = settings
          /\ row.status = "deleted" => row'.status = "deleted"
      <4>1. CASE Update(r)
        <5>1. req'[r].step = IF Exists THEN "restart" ELSE "done"
          BY <1>1, <4>1 DEF Update, Goes, Request
        <5>2. ~Exists
          BY <2>3, <5>1
        <5> QED
          BY <4>1, <5>2, EditedRow DEF Update
      <4>2. CASE ChangeSettings(r) \/ BulkPause(r) \/ Look(r)
        BY <1>1, <2>3, <4>2 DEF ChangeSettings, BulkPause, Look, Goes, SetStatus, Row,
           Exists, Request, Arrives
      <4> QED
        BY <1>6, <4>1, <4>2
    <3>2. \A q \in Requests : req[q].step \in {"affected", "restart"} =>
            req'[q].step \in {"affected", "restart"}
      BY <1>1, <2>1
    <3>3. \A q \in InFlight' : q # r => Alone(q)'
      BY <1>1, <2>1, <3>1 DEF InFlight, Alone
    <3>4. Alone(r)'
      BY <2>3 DEF Alone
    <3> QED
      BY <2>1, <3>1, <3>2, <3>3, <3>4
  <2> QED
    BY <2>1, <2>2, <2>3
<1>7. CASE Affected(r)
  <2>1. /\ UNCHANGED <<row, slot, worker, settings>> /\ Rest
        /\ req'[r].step = IF slot = None THEN "done" ELSE "restart"
    BY <1>1, <1>2, <1>7 DEF Affected, Goes, Request
  <2> QED
    BY <1>4, <2>1 DEF Alone
<1>8. CASE Toggle(r) \/ Erase(r)
  <2>1. /\ req[r].step \in {"toggle", "erase"} /\ UNCHANGED <<slot, worker, settings>>
        /\ req'[r].step \in {"restart", "stop", "done"}
        /\ row'.edits = row.edits
        /\ row.status = "deleted" => row'.status = "deleted"
    BY <1>1, <1>8 DEF Toggle, Erase, Goes, SetStatus, Row, Exists, Request
  <2>2. \A q \in Requests : req[q].step \in {"affected", "restart"} =>
          req'[q].step \in {"affected", "restart"}
    BY <1>1, <2>1
  <2> QED
    BY <1>2, <1>4, <2>1, <2>2 DEF Alone
<1>9. CASE Stop(r) \/ Delete(r) \/ Restart(r)
  <2>1. /\ slot' = None /\ worker' = Stopped /\ UNCHANGED row
        /\ req'[r].step \in {"done", "erase", "read"}
    BY <1>1, <1>9 DEF Stop, Delete, Restart, StopMonitor, Goes, Request
  <2>2. \A w \in Workers : ~worker'[w].isRunning
    BY <2>1, StoppedWorkers
  <2>3. Alone(r)'
    BY <2>1 DEF Alone
  <2>4. Rest
    <3>1. CASE Stop(r) \/ Restart(r)
      BY <1>2, <3>1 DEF Stop, Restart
    <3>2. CASE Delete(r)
      BY <1>1, <1>3, <3>2 DEF Delete, Goes, Request
    <3> QED
      BY <1>9, <3>1, <3>2
  <2> QED
    BY <1>4, <2>1, <2>2, <2>3, <2>4
<1>10. CASE Read(r) \/ Start(r) \/ Build(r)
  <2>1. /\ req[r].step \in {"read", "start", "build"} /\ UNCHANGED <<row, slot, worker, settings>>
    BY <1>10 DEF Read, Start, Build
  <2>2. Rest /\ Alone(r)
    BY <1>2, <2>1 DEF InFlight
  <2>3. slot = None
    BY <2>1, <2>2 DEF Alone
  <2>4. Alone(r)'
    <3>1. CASE Read(r)
      BY <1>1, <2>1, <2>3, <3>1 DEF Read, Alone, Request
    <3>2. CASE Start(r)
      BY <1>1, <2>1, <2>2, <2>3, <3>2 DEF Start, Goes, Alone, Request
    <3>3. CASE Build(r)
      BY <1>1, <2>1, <2>2, <2>3, <3>3 DEF Build, Alone, Request
    <3> QED
      BY <1>10, <3>1, <3>2, <3>3
  <2> QED
    BY <1>4, <2>1, <2>2, <2>3, <2>4
<1>11. CASE Spawn(r)
  <2>1. req[r].step = "spawn" /\ UNCHANGED <<row, settings>> /\ req'[r].step = "done"
    BY <1>1, <1>11 DEF Spawn, Goes, Request
  <2>2. Rest /\ Alone(r)
    BY <1>2, <2>1 DEF InFlight
  <2>3. /\ slot = None /\ req[r].seen.edits = row.edits /\ req[r].settings = settings
    BY <2>1, <2>2 DEF Alone
  <2>4. \A w \in Workers : ~worker[w].isRunning
    BY <2>3, NoneAssumption
  <2>5. InFlight' = {}
    BY <1>4, <2>1, <2>2 DEF InFlight
  <2> QED
    BY <1>11, <2>1, <2>3, <2>4, <2>5, SpawnConfig
<1> QED
  BY <1>5, <1>6, <1>7, <1>8, <1>9, <1>10, <1>11 DEF RequestStep

\* Without overlap the map holds the only worker that runs, and its configuration is the
\* current one: for any requests, one after the other.
THEOREM SerialInvariant == SpecH => []SerialInv
<1>1. InitH => SerialInv
  <2> SUFFICES ASSUME InitH PROVE SerialInv
    OBVIOUS
  <2>1. InFlight = {}
    BY DEF InitH, Init, InFlight
  <2>2. \A w \in Workers : worker[w].isRunning => w = slot
    BY NoneAssumption DEF InitH, Init, Unborn
  <2>3. slot # None => worker[slot].edits = row.edits /\ worker[slot].settings = settings
    <3>1. CASE slot = None
      BY <3>1
    <3>2. CASE slot # None
      <4>1. /\ slot \in Workers
            /\ worker = [w \in Workers |->
                 IF w = slot THEN [Unborn EXCEPT !.phase = "sleeping", !.isRunning = TRUE]
                             ELSE Unborn]
            /\ row = Blank("checked")
            /\ settings = 0
        BY <3>2 DEF InitH, Init
      <4>2. worker[slot] = [Unborn EXCEPT !.phase = "sleeping", !.isRunning = TRUE]
        BY <4>1
      <4> QED
        BY <4>1, <4>2 DEF Unborn, Blank
    <3> QED
      BY <3>1, <3>2
  <2> QED
    BY <2>1, <2>2, <2>3 DEF SerialInv, Overlap
<1>2. ASSUME TypeOK, IInv, SerialInv, [NextH]_<<vars, historyVars>>
      PROVE  SerialInv'
  <2> USE <1>2
  <2>1. CASE UNCHANGED <<vars, historyVars>>
    BY <2>1 DEF vars, historyVars, SerialInv, Overlap, InFlight, Alone
  <2>2. CASE NextH
    <3> SUFFICES ASSUME ~overlapped' PROVE SerialInv'
      BY DEF SerialInv
    <3>1. ~overlapped /\ ~Overlap'
      BY <2>2 DEF NextH
    <3>2. ASSUME NEW r \in Requests, RequestStep(r)
          PROVE  SerialInv'
      BY <3>1, <3>2, SerialRequest DEF SerialInv
    <3>3. ASSUME NEW w \in Workers, WorkerStep(w)
          PROVE  SerialInv'
      <4>1. /\ UNCHANGED <<slot, settings, req>>
            /\ row.status = "deleted" => row' = row
        BY <3>3, WorkerEffect
      <4>2. /\ row'.edits = row.edits
            /\ \A v \in Workers : /\ worker'[v].edits = worker[v].edits
                                  /\ worker'[v].settings = worker[v].settings
                                  /\ worker'[v].isRunning => worker[v].isRunning
        BY <3>3, WorkerKeeps
      <4>3. \A q \in InFlight' : q \in InFlight /\ Alone(q)'
        BY <3>1, <4>1, <4>2 DEF SerialInv, InFlight, Alone
      <4>4. slot # None => slot \in Workers
        BY DEF TypeOK
      <4> QED
        BY <3>1, <4>1, <4>2, <4>3, <4>4 DEF SerialInv
    <3> QED
      BY <2>2, <3>2, <3>3 DEF NextH, Next
  <2> QED
    BY <2>1, <2>2
<1> QED
  BY <1>1, <1>2, HistoryAdds, TypeCorrect, Invariant, PTL DEF SpecH

\* While requests do not overlap, no worker but the one in the map runs
\* (MonitorWorkerManager.restartMonitor).
THEOREM OneWorkerRuns == SpecH => []OneRunningWorker
<1>1. SerialInv => OneRunningWorker
  BY DEF SerialInv, OneRunningWorker
<1> QED
  BY <1>1, SerialInvariant, PTL

\* While requests do not overlap, it runs with what was configured last
\* (restartMonitor, restartAffectedBySettings).
THEOREM ConfigurationArrives == SpecH => []ConfigIsCurrent
<1>1. ASSUME TypeOK, SerialInv
      PROVE  ConfigIsCurrent
  <2>1. InFlight = {} => \A r \in Requests : req[r].step \notin {"affected", "restart"}
    BY DEF InFlight
  <2> QED
    BY <1>1, <2>1 DEF SerialInv, ConfigIsCurrent
<1> QED
  BY <1>1, HistoryAdds, TypeCorrect, SerialInvariant, PTL

\* What a request reads of the row is what the row is, and what it does to it.
LEMMA RowMoves ==
  ASSUME TypeOK, NEW r \in Requests, RequestStep(r)
  PROVE  /\ req'[r].seen \in {req[r].seen, row, row'}
         /\ row.status = "deleted" => row'.status = "deleted"
<1>1. req \in [Requests -> Request] /\ row \in Row
  BY DEF TypeOK
<1>2. CASE Create(r) \/ Look(r) \/ Read(r) \/ Build(r)
  BY <1>1, <1>2 DEF Create, Look, Read, Build, Request
<1>3. CASE Update(r)
  BY <1>1, <1>3, EditedRow DEF Update, Goes, Request
<1>5. CASE ChangeSettings(r) \/ Affected(r) \/ BulkPause(r) \/ Toggle(r)
  BY <1>1, <1>5 DEF ChangeSettings, Affected, BulkPause, Toggle, Goes, SetStatus,
     Exists, Request, Row
<1>4. CASE Stop(r) \/ Delete(r) \/ Erase(r) \/ Restart(r) \/ Start(r) \/ Spawn(r)
  BY <1>1, <1>4 DEF Stop, Delete, Erase, Restart, Start, Spawn, Goes, Request, Row
<1> QED
  BY <1>2, <1>3, <1>4, <1>5 DEF RequestStep

\* As long as nobody has paused the monitor, no interleaving of the other requests
\* leaves it without a worker, unless it is being started or deleted.
THEOREM UnpausedInvariant == SpecH => []UnpausedInv
<1> DEFINE Covered == \/ row.status \in {"unborn", "deleted"} \/ ~row.active
                      \/ slot # None
                      \/ \E r \in Requests : OnItsWay(r) \/ req[r].step = "erase"
           Seen(q) == /\ req[q].seen.status # "paused"
                      /\ req[q].step = "stop" => row.status = "deleted"
<1>1. InitH => UnpausedInv
  BY NoneAssumption DEF InitH, Init, UnpausedInv, Blank
<1>2. ASSUME TypeOK, IInv, UnpausedInv, [NextH]_<<vars, historyVars>>
      PROVE  UnpausedInv'
  <2> USE <1>2
  <2>1. CASE UNCHANGED <<vars, historyVars>>
    BY <2>1 DEF vars, historyVars, UnpausedInv, OnItsWay
  <2>2. CASE NextH
    <3> SUFFICES ASSUME ~paused' PROVE UnpausedInv'
      BY DEF UnpausedInv
    <3>1. /\ ~paused /\ row'.status # "paused"
          /\ row.status # "paused" /\ Covered /\ \A q \in Requests : Seen(q)
      BY <2>2 DEF NextH, UnpausedInv
    <3>2. ASSUME NEW r \in Requests, RequestStep(r)
          PROVE  UnpausedInv'
      <4>1. /\ req \in [Requests -> Request] /\ row \in Row /\ req[r] \in Request
            /\ \A q \in Requests \ {r} : req'[q] = req[q]
            /\ req'[r].seen \in {req[r].seen, row, row'}
            /\ row.status = "deleted" => row'.status = "deleted"
        BY <3>2, RequestMoves, RowMoves DEF TypeOK
      <4>2. ASSUME NEW q \in Requests \ {r}
            PROVE  Seen(q)' /\ OnItsWay(q)' = OnItsWay(q) /\ req'[q].step = req[q].step
        BY <3>1, <4>1 DEF OnItsWay
      <4>3. req'[r].seen.status # "paused"
        BY <3>1, <4>1
      <4>4. ASSUME req'[r].step = "stop" => row'.status = "deleted",
                   \/ Covered' \/ OnItsWay(r)' \/ req'[r].step = "erase"
                   \/ /\ ~OnItsWay(r) /\ req[r].step # "erase"
                      /\ slot' = slot
                      /\ row'.status = "unborn" \/ row.status # "unborn"
                      /\ row'.active => row.active
            PROVE  UnpausedInv'
        <5>1. \A q \in Requests : Seen(q)'
          BY <4>2, <4>3, <4>4
        <5>2. Covered'
          BY <3>1, <4>1, <4>2, <4>4
        <5> QED
          BY <3>1, <5>1, <5>2 DEF UnpausedInv
      <4>5. CASE Create(r)
        <5>1. req'[r].step = "start" /\ req'[r].seen = row' /\ row'.status = "pending"
          BY <4>1, <4>5 DEF Create, Request, Row
        <5> QED
          BY <4>4, <5>1 DEF OnItsWay
      <4>6. CASE Update(r) \/ ChangeSettings(r) \/ Affected(r) \/ Look(r)
        <5>1. /\ req[r].step \in {"new", "affected"} /\ slot' = slot
              /\ req'[r].step \in {"restart", "affected", "toggle", "done"}
              /\ row'.status = row.status
              /\ row' = row \/ req'[r].step = "restart"
          <6>1. CASE Update(r)
            BY <4>1, <6>1, EditedRow DEF Update, Arrives, Goes, Request
          <6>2. CASE ChangeSettings(r) \/ Affected(r) \/ Look(r)
            BY <4>1, <6>2 DEF ChangeSettings, Affected, Look, Arrives, Goes, Request
          <6> QED
            BY <4>6, <6>1, <6>2
        <5> QED
          BY <4>4, <5>1 DEF OnItsWay
      <4>7. CASE Toggle(r) \/ BulkPause(r)
        <5>1. /\ req[r].step \in {"new", "toggle"} /\ slot' = slot
              /\ req'[r].step \in {"restart", "stop"}
              /\ row.status # "unborn"
          <6>1. CASE Toggle(r)
            BY <4>1, <6>1 DEF Toggle, Goes, Request, IInv
          <6>2. CASE BulkPause(r)
            BY <4>1, <6>2 DEF BulkPause, Arrives, Goes, Request
          <6> QED
            BY <4>7, <6>1, <6>2
        <5>2. req'[r].step = "stop" => SetStatus("paused")
          BY <4>1, <4>7 DEF Toggle, BulkPause, Goes, Request
        <5>3. SetStatus("paused") => row'.status = "deleted"
          BY <3>1, <4>1, <5>1 DEF SetStatus, Exists, Row
        <5>4. row'.active = row.active
          BY <4>1, <4>7 DEF Toggle, BulkPause, SetStatus, Row
        <5> QED
          BY <4>4, <5>1, <5>2, <5>3, <5>4 DEF OnItsWay
      <4>8. CASE Stop(r)
        <5>1. row' = row /\ row.status = "deleted" /\ req'[r].step = "done"
          BY <3>1, <4>1, <4>8 DEF Stop, Goes, Request
        <5> QED
          BY <4>4, <5>1
      <4>9. CASE Delete(r)
        <5>1. req'[r].step = "erase"
          BY <4>1, <4>9 DEF Delete, Goes, Request
        <5> QED
          BY <4>4, <5>1
      <4>10. CASE Erase(r)
        <5>1. row'.status = "deleted" /\ req'[r].step = "done"
          BY <4>1, <4>10 DEF Erase, Goes, Request, Row
        <5> QED
          BY <4>4, <5>1
      <4>11. CASE Restart(r)
        <5>1. req'[r].step = "read"
          BY <4>1, <4>11 DEF Restart, Goes, Request
        <5> QED
          BY <4>4, <5>1 DEF OnItsWay
      <4>12. CASE Read(r)
        <5>1. /\ req'[r].step = IF Startable(row) THEN "start" ELSE "done"
              /\ UNCHANGED <<row, slot>>
          BY <4>1, <4>12 DEF Read, Request
        <5>2. Startable(row) \/ row.status = "deleted" \/ ~row.active
          BY <3>1 DEF Startable
        <5> QED
          BY <4>4, <5>1, <5>2 DEF OnItsWay
      <4>13. CASE Start(r)
        <5>1. /\ UNCHANGED <<row, slot>>
              /\ req'[r].step = IF slot = None THEN "build" ELSE "done"
          BY <4>1, <4>13 DEF Start, Goes, Request
        <5> QED
          BY <4>4, <5>1 DEF OnItsWay
      <4>14. CASE Build(r)
        <5>1. /\ req[r].step = "build" /\ req'[r].seen = req[r].seen /\ UNCHANGED <<row, slot>>
              /\ req'[r].step = "spawn"
          BY <4>1, <4>14 DEF Build, Request
        <5> QED
          BY <3>1, <4>4, <5>1 DEF OnItsWay
      <4>15. CASE Spawn(r)
        <5>1. slot' # None /\ req'[r].step = "done"
          BY <4>1, <4>15, NoneAssumption DEF Spawn, Goes, Request
        <5> QED
          BY <4>4, <5>1
      <4> QED
        BY <3>2, <4>5, <4>6, <4>7, <4>8, <4>9, <4>10, <4>11, <4>12, <4>13, <4>14, <4>15
           DEF RequestStep
    <3>3. ASSUME NEW w \in Workers, WorkerStep(w)
          PROVE  UnpausedInv'
      <4>1. /\ UNCHANGED <<slot, req>>
            /\ row.status \in {"unborn", "deleted"} => row' = row
            /\ row'.status \in {row.status, "checked"}
        BY <3>3, WorkerEffect
      <4>3. row'.active = row.active
        BY <3>3, WorkerKeeps
      <4>2. \A r \in Requests : OnItsWay(r)' = OnItsWay(r)
        BY <4>1 DEF OnItsWay
      <4> QED
        BY <3>1, <4>1, <4>2, <4>3 DEF UnpausedInv
    <3> QED
      BY <2>2, <3>2, <3>3 DEF NextH, Next
  <2> QED
    BY <2>1, <2>2
<1> QED
  BY <1>1, <1>2, HistoryAdds, TypeCorrect, Invariant, PTL DEF SpecH

\* So an active monitor that was never paused has a worker once its requests are done
\* (startMonitor, stopMonitor, restartMonitor).
THEOREM ActiveUnlessPausedHolds == SpecH => []ActiveUnlessPaused
<1>1. UnpausedInv => ActiveUnlessPaused
  BY DEF UnpausedInv, ActiveUnlessPaused, ActiveIsChecked, OnItsWay, Quiet, InFlight
<1> QED
  BY <1>1, UnpausedInvariant, PTL
=============================================================================
