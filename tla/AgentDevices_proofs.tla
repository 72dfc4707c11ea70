------------------------- MODULE AgentDevices_proofs -------------------------
(***************************************************************************)
(* Proofs about AgentDevices: any number of pushes and of administrators'  *)
(* calls that overlap, any tolerances, and any bound on calls and crashes. *)
(***************************************************************************)
EXTENDS AgentDevices, TLAPS

-----------------------------------------------------------------------------
(***************************************************************************)
(* Which steps there are, and what is left of a call.                      *)
(***************************************************************************)
\* The calls administrators begin.
Begun == {Approval, <<"activate", "approved">>, <<"suspended", "pause", "suspended">>,
          <<"suspended">>, <<"refused">>, <<"pending">>, <<"clear", "drop">>, <<"updating">>}

\* The calls of administrators are the beginnings of one of these.
LEMMA BeginMoves ==
  ASSUME NEW c \in Callers,
         \/ Approve(c) \/ BulkApprove(c) \/ Suspend(c) \/ BulkSuspend(c)
         \/ SetOther(c) \/ Delete(c) \/ NotifyUpdate(c)
  PROVE  \E todo \in Begun :
           /\ Begin(c, todo)
           /\ todo = <<"activate", "approved">> => device.status = "suspended"
<1>1. CASE Approve(c)
  <2>1. CASE device.status = "suspended"
    BY <1>1, <2>1 DEF Approve, Begun
  <2>2. CASE device.status # "suspended"
    <3>1. Approval # <<"activate", "approved">>
      BY DEF Approval
    <3> QED
      BY <1>1, <2>2, <3>1 DEF Approve, Begun
  <2> QED
    BY <2>1, <2>2
<1>2. CASE BulkApprove(c)
  <2>1. Approval # <<"activate", "approved">>
    BY DEF Approval
  <2> QED
    BY <1>2, <2>1 DEF BulkApprove, Begun
<1>3. CASE Suspend(c)
  BY <1>3 DEF Suspend, Begun
<1>4. CASE BulkSuspend(c)
  BY <1>4 DEF BulkSuspend, Begun
<1>5. CASE SetOther(c)
  BY <1>5 DEF SetOther, Begun
<1>6. CASE Delete(c)
  BY <1>6 DEF Delete, Begun
<1>7. CASE NotifyUpdate(c)
  BY <1>7 DEF NotifyUpdate, Begun
<1> QED
  BY <1>1, <1>2, <1>3, <1>4, <1>5, <1>6, <1>7

\* Every step is one of these.
LEMMA Moves ==
  ASSUME [Next]_vars
  PROVE  \/ \E p \in Pushes : Arrive(p) \/ Record(p) \/ Consume(p) \/ FindMonitor(p)
                               \/ FindPrevious(p)
         \/ WriteStatus
         \/ \E c \in Callers, todo \in Begun :
              /\ Begin(c, todo)
              /\ todo = <<"activate", "approved">> => device.status = "suspended"
         \/ (\E p \in Pushes : Fail(p))
         \/ SendCommand \/ LookUp \/ ReadHeartbeat \/ Remember
         \/ \E c \in Callers : CallStep(c)
         \/ BeginJob \/ JobStep
         \/ \E w \in workers : Check(w)
         \/ Tick \/ Crash \/ Restart
         \/ UNCHANGED vars
<1>1. CASE Administer \/ \E c \in Callers : NotifyUpdate(c)
  BY <1>1, BeginMoves DEF Administer
<1>2. CASE \/ PushArrives \/ (\E p \in Pushes : PushStep(p)) \/ WriteStatus
           \/ (\E p \in Pushes : Fail(p))
           \/ SendCommand \/ LookUp \/ ReadHeartbeat \/ Remember
           \/ (\E c \in Callers : CallStep(c))
           \/ BeginJob \/ JobStep \/ (\E w \in workers : Check(w))
           \/ Tick \/ Crash \/ Restart \/ UNCHANGED vars
  BY <1>2 DEF PushArrives, PushStep
<1> QED
  BY <1>1, <1>2 DEF Next

\* What a call begins with can be left of one.
LEMMA Begins == Begun \subseteq CallsLeft
BY Zenon DEF Begun, Approval, CallsLeft

\* What follows each statement.
LEMMA CallsGoOn ==
  /\ \A todo \in CallsLeft : Len(todo) # 1 => Tail(todo) \in CallsLeft
  /\ \A todo \in JobsLeft : Len(todo) # 1 => Tail(todo) \in JobsLeft
<1>1. /\ Tail(<<"approved", "clear", "insert">>) = <<"clear", "insert">>
      /\ Tail(<<"clear", "insert">>) = <<"insert">>
      /\ Tail(<<"activate", "approved">>) = <<"approved">>
      /\ Tail(<<"suspended", "pause", "suspended">>) = <<"pause", "suspended">>
      /\ Tail(<<"pause", "suspended">>) = <<"suspended">>
      /\ Tail(<<"clear", "drop">>) = <<"drop">>
  OBVIOUS
<1>2. ASSUME NEW s
      PROVE  Len(<<s>>) = 1
  OBVIOUS
<1>3. ASSUME NEW todo \in CallsLeft, Len(todo) # 1
      PROVE  todo \in {<<"approved", "clear", "insert">>, <<"clear", "insert">>,
                       <<"activate", "approved">>, <<"suspended", "pause", "suspended">>,
                       <<"pause", "suspended">>, <<"clear", "drop">>}
  BY <1>2, <1>3, Zenon DEF CallsLeft
<1>4. ASSUME NEW todo \in JobsLeft, Len(todo) # 1
      PROVE  todo = <<"clear", "drop">>
  BY <1>2, <1>4, Zenon DEF JobsLeft
<1>5. \A todo \in CallsLeft : Len(todo) # 1 => Tail(todo) \in CallsLeft
  BY <1>1, <1>3, Zenon DEF CallsLeft
<1>6. \A todo \in JobsLeft : Len(todo) # 1 => Tail(todo) \in JobsLeft
  BY <1>1, <1>4, Zenon DEF JobsLeft
<1> QED
  BY <1>5, <1>6
-----------------------------------------------------------------------------
(***************************************************************************)
(* Type correctness.                                                       *)
(***************************************************************************)
\* The part of the type invariant that speaks of rows and ids.
LEMMA RowTypes ==
  ASSUME TypeOK
  PROVE  /\ device \in Device /\ monitors \subseteq Monitor /\ serial \in Nat
         /\ device.id = 0 => device = NoDevice /\ monitors = {}
         /\ device.id \in 0 .. serial /\ snapshot.device \in 0 .. serial
         /\ reading.device \in 0 .. serial
         /\ \A c \in Callers : callers[c].device \in 0 .. serial
BY DEF TypeOK, Ids

\* Ages stay in their range.
LEMMA OlderType ==
  ASSUME NEW bound \in Nat, NEW a \in Never .. bound + 1
  PROVE  /\ Older(a, bound) \in Never .. bound + 1
         /\ a \in 0 .. bound + 1 => Older(a, bound) \in 0 .. bound + 1
         /\ a # Never => Older(a, bound) # Never
         /\ a = Never => Older(a, bound) = Never
BY DEF Older, Never

\* A statement of a call changes at most the rows of the device it is about.
LEMMA ExecuteEffect ==
  ASSUME TypeOK, NEW s, NEW id, Execute(s, id)
  PROVE  /\ device' \in Device /\ monitors' \subseteq Monitor
         /\ serial' \in {serial, serial + 1}
         /\ ~Is(id) => UNCHANGED rows
         /\ \/ s = "drop" /\ device' = NoDevice /\ monitors' = {} /\ Is(id)
            \/ /\ device'.id = device.id /\ device'.command = device.command
               /\ device.id = 0 => UNCHANGED rows
<1>1. /\ device \in Device /\ monitors \subseteq Monitor /\ serial \in Nat
      /\ device.id = 0 => ~Is(id)
  BY RowTypes DEF Is, Registered
<1>2. CASE s \in DeviceStatus /\ SetStatus(id, s)
  BY <1>1, <1>2 DEF SetStatus, Device, rows
<1>3. ASSUME NEW active \in BOOLEAN, NEW status, SetMonitors(id, active, status)
      PROVE  /\ device' \in Device /\ monitors' \subseteq Monitor
             /\ serial' \in {serial, serial + 1}
             /\ ~Is(id) => UNCHANGED rows
             /\ device'.id = device.id /\ device'.command = device.command
             /\ device.id = 0 => UNCHANGED rows
  <2>1. Column(status) \in RowStatus
    BY DEF Column, RowStatus
  <2>2. \A m \in monitors : [m EXCEPT !.active = active, !.status = Column(status)] \in Monitor
    BY <1>1, <2>1 DEF Monitor
  <2> QED
    BY <1>1, <1>3, <2>2 DEF SetMonitors, rows
<1>4. CASE s = "activate" /\ SetMonitors(id, TRUE, "pending")
  BY <1>3, <1>4
<1>5. CASE s = "pause" /\ SetMonitors(id, FALSE, "paused")
  BY <1>3, <1>5
<1>6. CASE s = "clear" /\ monitors' = (IF Is(id) THEN {} ELSE monitors)
                       /\ UNCHANGED <<device, serial>>
  BY <1>1, <1>6 DEF rows
<1>7. CASE s = "insert" /\ (InsertMonitor(id) \/ UNCHANGED rows)
  <2>1. [id |-> serial + 1, active |-> TRUE, status |-> Column("pending")] \in Monitor
    BY <1>1 DEF Monitor, Ids, Column, RowStatus
  <2> QED
    BY <1>1, <1>7, <2>1 DEF InsertMonitor, rows
<1>8. CASE s = "drop" /\ DropDevice(id)
  <2>1. NoDevice \in Device
    BY AgentDevicesAssumption
       DEF NoDevice, Device, Ids, DeviceStatus, Commands, Since, Never
  <2> QED
    BY <1>1, <1>8, <2>1 DEF DropDevice, rows
<1>9. ASSUME NEW age \in {0, Never}, SetUpdating(id, age)
      PROVE  /\ device' \in Device /\ monitors' \subseteq Monitor
             /\ serial' \in {serial, serial + 1}
             /\ ~Is(id) => UNCHANGED rows
             /\ device'.id = device.id /\ device'.command = device.command
             /\ device.id = 0 => UNCHANGED rows
  <2>1. age \in Since
    BY AgentDevicesAssumption DEF Since, Never
  <2> QED
    BY <1>1, <1>9, <2>1 DEF SetUpdating, Device, rows
<1>10. CASE \/ s = "updating" /\ SetUpdating(id, 0)
            \/ s = "settle" /\ SetUpdating(id, Never)
  BY <1>9, <1>10
<1> QED
  BY <1>2, <1>4, <1>5, <1>6, <1>7, <1>8, <1>10 DEF Execute

\* What a push has read of the row has the type of what it reads.
LEMMA SeenType ==
  ASSUME NEW d \in Device
  PROVE  Seen(d) \in [id : Ids, status : DeviceStatus, command : Commands, updated : BOOLEAN]
BY DEF Seen, Device

\* What is given is a command.
LEMMA GiveType ==
  ASSUME TypeOK, NEW command \in Commands, Give(command)
  PROVE  given' \subseteq Commands /\ duplicated' \in BOOLEAN /\ shared' = shared
BY DEF TypeOK, Give

\* Nothing but rows, memory and pushes is touched by a push.
LEMMA PushType ==
  ASSUME TypeOK, NEW p \in Pushes,
         Arrive(p) \/ Record(p) \/ Consume(p) \/ FindMonitor(p) \/ FindPrevious(p)
  PROVE  TypeOK'
<1>1. /\ device \in Device /\ monitors \subseteq Monitor /\ serial \in Nat
      /\ device.id = 0 => device = NoDevice /\ monitors = {}
      /\ device.id \in 0 .. serial /\ snapshot.device \in 0 .. serial
      /\ reading.device \in 0 .. serial
      /\ \A c \in Callers : callers[c].device \in 0 .. serial
  BY RowTypes
<1>2. /\ pushes \in [Pushes -> Push] /\ snapshot \in Snapshot
      /\ callers \in [Callers -> Call \union {NoCall}]
      /\ writes \subseteq [monitor : Ids, status : RowStatus]
      /\ silent \in Silence /\ told \in Load \union {"none"}
      /\ repeated \in BOOLEAN /\ outdated \in BOOLEAN /\ reported \in BOOLEAN
      /\ owed \subseteq Commands /\ given \subseteq Commands /\ shared \subseteq Commands
      /\ duplicated \in BOOLEAN /\ reading \in Reading
      /\ StaleAfter \in Nat /\ UpdateWindow \in Nat
  BY AgentDevicesAssumption DEF TypeOK
<1>3. NoDevice \in Device /\ NoPush \in Push
  <2>1. NoDevice \in Device
    BY AgentDevicesAssumption
       DEF NoDevice, Device, Ids, DeviceStatus, Commands, Since, Never
  <2> QED
    BY <2>1, SeenType DEF NoPush, Push, Ids
<1>4. CASE Arrive(p)
  <2>1. [phase |-> "record", seen |-> Seen(device), monitor |-> 0] \in Push
    BY <1>1, SeenType DEF Push, Ids
  <2>2. pushes' \in [Pushes -> Push] /\ shared' \subseteq Commands
    <3>1. device.command \in Commands
      BY <1>1 DEF Device
    <3>2. shared' = shared \union (Held \intersect {device.command})
      BY <1>4 DEF Arrive
    <3>3. shared' \subseteq Commands
      BY <1>2, <3>1, <3>2
    <3>4. pushes' \in [Pushes -> Push]
      BY <1>2, <1>4, <2>1 DEF Arrive
    <3> QED
      BY <3>3, <3>4
  <2> QED
    BY <1>1, <1>4, <2>2 DEF Arrive, TypeOK, rows, memory, voice, Free
<1>5. \A phase \in {"consume", "store"} : [pushes[p] EXCEPT !.phase = phase] \in Push
  BY <1>2 DEF Push
<1>6. CASE Record(p)
  <2> DEFINE seen == pushes[p].seen
  <2>1. pushes' \in [Pushes -> Push] /\ UNCHANGED delivery
    BY <1>2, <1>3, <1>5, <1>6 DEF Record, Proceed
  <2>2. /\ device' \in Device /\ serial' \in {serial, serial + 1}
        /\ device'.id \in 0 .. serial' /\ (device'.id = 0 => device' = NoDevice)
        /\ device'.id = 0 => device.id = 0
    <3>1. CASE seen.id = 0 /\ ~Registered
      <4>1. device' = Fresh(serial + 1) /\ serial' = serial + 1
        BY <1>6, <3>1 DEF Record
      <4>2. Fresh(serial + 1) \in Device /\ Fresh(serial + 1).id = serial + 1
        BY <1>1, <1>3 DEF Fresh, Device, Ids
      <4> QED
        BY <1>1, <4>1, <4>2
    <3>2. CASE device' = device /\ serial' = serial
      BY <1>1, <3>2
    <3>3. CASE Is(seen.id) /\ device' = [device EXCEPT !.updating = Never] /\ serial' = serial
      <4>1. Never \in Since
        BY <1>2 DEF Since, Never
      <4> QED
        BY <1>1, <3>3, <4>1 DEF Device, Is, Registered
    <3> QED
      BY <1>6, <3>1, <3>2, <3>3 DEF Record
  <2>3. silent' \in Silence /\ told' \in Load \union {"none"}
        /\ reported' = reported /\ repeated' = repeated /\ outdated' = outdated
    <3>1. StaleAfter + 1 \in Silence
      BY <1>2 DEF Silence
    <3> QED
      BY <1>2, <1>6, <3>1 DEF Record, voice
  <2>4. UNCHANGED <<monitors, alive, uptime, snapshot, workers, reading, callers, job, writes,
                    calls, muddled, focus>>
    BY <1>6 DEF Record, memory
  <2>5. ({device.id, snapshot.device, reading.device} \union {callers[c].device : c \in Callers}
           \subseteq 0 .. serial)'
    BY <1>1, <2>2, <2>4 DEF TypeOK
  <2>6. /\ device' \in Device /\ monitors' \subseteq Monitor /\ serial' \in Ids
        /\ device'.id = 0 => device' = NoDevice /\ monitors' = {}
    BY <1>1, <2>2, <2>4 DEF Ids
  <2> QED
    BY <1>2, <2>1, <2>3, <2>4, <2>5, <2>6 DEF TypeOK, delivery
<1>7. CASE Consume(p)
  <2>1. [pushes[p] EXCEPT !.phase = "store"] \in Push
    BY <1>5
  <2>2. pushes' = [pushes EXCEPT ![p] = [pushes[p] EXCEPT !.phase = "store"]]
        \/ pushes' = [pushes EXCEPT ![p] = NoPush]
    BY <1>2, <1>7 DEF Consume
  <2>3. /\ pushes' \in [Pushes -> Push] /\ owed' \subseteq owed /\ given' \subseteq Commands
        /\ duplicated' \in BOOLEAN /\ shared' = shared
    <3>1. pushes[p].seen.command \in Commands
      BY <1>2 DEF Push
    <3> QED
      <4>1. pushes' \in [Pushes -> Push] /\ owed' \subseteq owed
        BY <1>2, <1>3, <1>7, <2>1, <2>2 DEF Consume
      <4>2. CASE UNCHANGED <<given, shared, duplicated>>
        BY <1>2, <4>1, <4>2 DEF TypeOK
      <4>3. CASE Give(pushes[p].seen.command)
        BY <3>1, <4>1, <4>3, GiveType
      <4>4. CASE Give(0)
        <5>1. 0 \in Commands
          BY AgentDevicesAssumption DEF Commands
        <5> QED
          BY <4>1, <4>4, <5>1, GiveType
      <4> QED
        BY <1>7, <4>2, <4>3, <4>4 DEF Consume
  <2>4. device' \in Device /\ device'.id = device.id /\ (device.id = 0 => device' = device)
    <3>1. 0 \in Commands /\ 0 \in Since
      BY AgentDevicesAssumption DEF Commands, Since, Never
    <3> QED
      BY <1>1, <1>7, <3>1 DEF Consume, Taken, Is, Registered, Device
  <2>5. UNCHANGED <<monitors, serial, alive, uptime, snapshot, workers, reading, callers, job,
                    writes, calls, silent, reported, told, repeated, outdated, muddled, focus>>
    BY <1>7 DEF Consume, memory, voice
  <2> QED
    BY <1>1, <1>2, <2>3, <2>4, <2>5 DEF TypeOK
<1>8. ASSUME NEW m \in Ids, NEW previous, Store(p, m, previous),
             UNCHANGED <<rows, alive, uptime, workers, reading, callers, job, calls, muddled,
                         focus>>
      PROVE  TypeOK'
  <2> DEFINE id == pushes[p].seen.id
  <2>1. PICK load \in Load :
          /\ snapshot' \in {snapshot, [device |-> id, age |-> 0, overall |-> load]}
          /\ snapshot' # snapshot => Is(id)
          /\ writes' = writes \union {[monitor |-> m, status |-> Column(load)]}
          /\ silent' \in {silent, 0} /\ reported' \in {reported, FALSE}
          /\ told' \in {told, "none", load}
          /\ repeated' \in BOOLEAN /\ outdated' \in {outdated, FALSE}
    BY <1>2, <1>8 DEF Store, voice
  <2>2. load \in Load /\ Column(load) \in RowStatus /\ 0 \in Silence /\ id \in Ids
    BY <1>2 DEF Load, Column, RowStatus, Silence, Push
  <2>3. /\ [device |-> id, age |-> 0, overall |-> load] \in Snapshot
        /\ [monitor |-> m, status |-> Column(load)] \in [monitor : Ids, status : RowStatus]
    BY <2>2 DEF Snapshot
  <2>4. snapshot' \in Snapshot /\ snapshot'.device \in 0 .. serial
    BY <1>1, <1>2, <2>1, <2>3 DEF Is, Registered
  <2>5. /\ writes' \subseteq [monitor : Ids, status : RowStatus] /\ silent' \in Silence
        /\ told' \in Load \union {"none"} /\ reported' \in BOOLEAN
        /\ repeated' \in BOOLEAN /\ outdated' \in BOOLEAN
    BY <1>2, <2>1, <2>2, <2>3
  <2>6. /\ pushes' \in [Pushes -> Push] /\ owed' \subseteq owed /\ given' \subseteq Commands
        /\ duplicated' \in BOOLEAN /\ shared' = shared
    <3>1. pushes[p].seen.command \in Commands
      BY <1>2 DEF Push
    <3> QED
      BY <1>2, <1>3, <1>8, <3>1, GiveType DEF Store, Reply
  <2>7. ({device.id, snapshot.device, reading.device} \union {callers[c].device : c \in Callers}
           \subseteq 0 .. serial)'
    BY <1>1, <1>8, <2>4 DEF TypeOK, rows, Snapshot, Ids
  <2> QED
    BY <1>1, <1>2, <1>8, <2>4, <2>5, <2>6, <2>7 DEF TypeOK, rows
<1>9. CASE FindMonitor(p)
  <2>1. UNCHANGED <<rows, alive, uptime, workers, reading, callers, job, calls, muddled, focus>>
    BY <1>9 DEF FindMonitor
  <2>2. CASE /\ UNCHANGED <<snapshot, writes, silent, reported, voice>>
             /\ owed' \subseteq owed /\ given' \subseteq Commands /\ shared' = shared
             /\ duplicated' \in BOOLEAN /\ pushes' \in [Pushes -> Push]
    BY <1>1, <1>2, <2>1, <2>2 DEF TypeOK, rows, voice
  <2>3. CASE \E m \in monitors : Store(p, m.id, snapshot.overall)
    BY <1>1, <1>8, <2>1, <2>3 DEF Monitor
  <2>4. CASE \E m \in monitors :
               pushes' = [pushes EXCEPT ![p].phase = "previous", ![p].monitor = m.id]
               /\ UNCHANGED <<snapshot, writes, silent, reported, voice, delivery>>
    <3>1. PICK m \in monitors :
            /\ pushes' = [pushes EXCEPT ![p].phase = "previous", ![p].monitor = m.id]
            /\ UNCHANGED <<snapshot, writes, silent, reported, voice, delivery>>
      BY <2>4
    <3>2. m.id \in Ids /\ pushes[p] \in Push
      BY <1>1, <1>2 DEF Monitor
    <3>3. [pushes[p] EXCEPT !.phase = "previous", !.monitor = m.id] \in Push
      BY <3>2 DEF Push
    <3>4. pushes' = [pushes EXCEPT ![p] = [pushes[p] EXCEPT !.phase = "previous",
                                                           !.monitor = m.id]]
      BY <1>2, <3>1
    <3> QED
      BY <1>2, <2>2, <3>1, <3>3, <3>4 DEF delivery
  <2>5. CASE Reply(p) /\ UNCHANGED <<snapshot, writes, silent, reported, voice>>
    <3>1. pushes[p].seen.command \in Commands
      BY <1>2 DEF Push
    <3> QED
      BY <1>2, <1>3, <2>2, <2>5, <3>1, GiveType DEF Reply
  <2> QED
    BY <1>9, <2>3, <2>4, <2>5 DEF FindMonitor
<1>10. CASE FindPrevious(p)
  <2>1. pushes[p].monitor \in Ids
    BY <1>2 DEF Push
  <2> QED
    BY <1>8, <1>10, <2>1 DEF FindPrevious
<1> QED
  BY <1>4, <1>6, <1>7, <1>9, <1>10

\* The ids in use stay below the next one when rows change as a call changes them.
LEMMA CallType ==
  ASSUME TypeOK, NEW s, NEW id, Execute(s, id), owed' \subseteq owed, muddled' \in BOOLEAN,
         UNCHANGED <<given, shared, duplicated>>,
         callers' \in [Callers -> Call \union {NoCall}],
         job' \in JobCall \union {NoCall},
         \A c \in Callers : callers'[c].device \in {callers[c].device, 0},
         UNCHANGED <<alive, uptime, memory, pushes, writes, calls, silent, reported, voice,
                     focus>>
  PROVE  TypeOK'
<1>1. /\ device' \in Device /\ monitors' \subseteq Monitor /\ serial' \in {serial, serial + 1}
      /\ device'.id \in {device.id, 0} /\ serial \in Nat
      /\ device'.id = 0 => device' = NoDevice /\ monitors' = {}
  <2>1. /\ device' \in Device /\ monitors' \subseteq Monitor /\ serial' \in {serial, serial + 1}
        /\ \/ device' = NoDevice /\ monitors' = {}
           \/ device'.id = device.id /\ (device.id = 0 => UNCHANGED rows)
    BY ExecuteEffect
  <2>2. NoDevice.id = 0
    BY DEF NoDevice
  <2>3. CASE device' = NoDevice /\ monitors' = {}
    BY <2>1, <2>2, <2>3, RowTypes
  <2>4. CASE device'.id = device.id /\ (device.id = 0 => UNCHANGED rows)
    BY <2>1, <2>4, RowTypes DEF rows
  <2> QED
    BY <2>1, <2>3, <2>4
<1>2. ({device.id, snapshot.device, reading.device} \union {callers[c].device : c \in Callers}
         \subseteq 0 .. serial)'
  BY <1>1, RowTypes DEF memory
<1>3. serial' \in Ids
  BY <1>1 DEF Ids
<1> QED
  BY <1>1, <1>2, <1>3 DEF TypeOK, memory, voice

\* Every step keeps the types.
LEMMA StepType ==
  ASSUME TypeOK, [Next]_vars
  PROVE  TypeOK'
<1>1. /\ device \in Device /\ monitors \subseteq Monitor /\ serial \in Nat
      /\ device.id = 0 => device = NoDevice /\ monitors = {}
      /\ device.id \in 0 .. serial /\ snapshot.device \in 0 .. serial
      /\ reading.device \in 0 .. serial
      /\ \A c \in Callers : callers[c].device \in 0 .. serial
  BY RowTypes
<1>2. /\ pushes \in [Pushes -> Push] /\ snapshot \in Snapshot
      /\ callers \in [Callers -> Call \union {NoCall}] /\ job \in JobCall \union {NoCall}
      /\ writes \subseteq [monitor : Ids, status : RowStatus]
      /\ silent \in Silence /\ owed \subseteq Commands /\ calls \in 0 .. MaxCalls
      /\ given \subseteq Commands /\ shared \subseteq Commands /\ reading \in Reading
      /\ MaxCalls \in Nat /\ StaleAfter \in Nat /\ UpdateWindow \in Nat
      /\ uptime \in 0 .. Grace
  BY AgentDevicesAssumption DEF TypeOK
<1>3. NoCall.device = 0 /\ NoCall.todo = <<>>
  BY DEF NoCall
<1>4. ASSUME NEW p \in Pushes,
             Arrive(p) \/ Record(p) \/ Consume(p) \/ FindMonitor(p) \/ FindPrevious(p)
      PROVE  TypeOK'
  BY <1>4, PushType
<1>5. ASSUME NEW M, M \subseteq Monitor, monitors = {} => M = {}, monitors' = M,
             writes' \subseteq writes, reported' \in BOOLEAN,
             UNCHANGED <<device, serial, alive, uptime, memory, pushes, callers, job,
                         calls, delivery, silent, voice, muddled, focus>>
      PROVE  TypeOK'
  BY <1>5 DEF TypeOK, memory, voice, delivery
<1>6. \A m \in Monitor, v \in RowStatus : [m EXCEPT !.status = v] \in Monitor
  BY DEF Monitor
<1>7. CASE WriteStatus
  <2>1. PICK w \in writes :
          /\ \/ monitors' = {IF m.id = w.monitor THEN [m EXCEPT !.status = w.status] ELSE m
                               : m \in monitors}
             \/ UNCHANGED monitors
          /\ writes' = writes \ {w}
    BY <1>7 DEF WriteStatus
  <2>2. w.status \in RowStatus
    BY <1>2
  <2>3. monitors' \subseteq Monitor /\ (monitors = {} => monitors' = {})
    BY <1>1, <1>6, <2>1, <2>2
  <2>4. reported' \in BOOLEAN /\ writes' \subseteq writes
    BY <1>7, <2>1 DEF WriteStatus, TypeOK
  <2> QED
    BY <1>5, <1>7, <2>3, <2>4 DEF WriteStatus
<1>8. ASSUME NEW c \in Callers, NEW todo \in Begun, Begin(c, todo)
      PROVE  TypeOK'
  <2>1. todo \in CallsLeft /\ device.id \in Ids
    BY <1>1, <1>8, Begins DEF Ids
  <2>2. [device |-> device.id, todo |-> todo] \in Call
    BY <2>1 DEF Call
  <2>3. callers' \in [Callers -> Call \union {NoCall}] /\ calls' \in 0 .. MaxCalls
    BY <1>2, <1>8, <2>2 DEF Begin
  <2>4. \A d \in Callers : callers'[d].device \in 0 .. serial
    BY <1>1, <1>2, <1>8 DEF Begin
  <2>5. muddled' \in BOOLEAN /\ UNCHANGED <<rows, alive, uptime, memory, pushes, job, writes, delivery,
                                          silent, reported, voice, focus>>
    BY <1>8 DEF Begin, TypeOK
  <2>6. ({device.id, snapshot.device, reading.device} \union {callers[d].device : d \in Callers}
           \subseteq 0 .. serial)'
    BY <1>1, <2>4, <2>5 DEF rows, memory
  <2> QED
    BY <1>1, <1>2, <2>3, <2>5, <2>6 DEF TypeOK, rows, memory, voice, delivery
<1>9. CASE SendCommand
  <2>1. calls + 1 \in Commands /\ calls' = calls + 1 /\ calls' \in 0 .. MaxCalls
    BY <1>2, <1>9 DEF SendCommand, Commands
  <2>2. device' \in Device /\ device'.id = device.id /\ device.id # 0 /\ owed' \subseteq Commands
    BY <1>1, <1>2, <1>9, <2>1 DEF SendCommand, Device, Registered
  <2> QED
    BY <1>1, <1>2, <1>9, <2>1, <2>2 DEF SendCommand, TypeOK, memory, voice
<1>10. CASE LookUp \/ ReadHeartbeat \/ Remember
  <2>1. reading' \in Reading /\ reading'.device \in 0 .. serial
    <3>1. NoReading \in Reading /\ NoReading.device = 0
      BY <1>2 DEF NoReading, Reading, Ids, Silence, Load
    <3>2. CASE LookUp
      <4>1. reading' = [NoReading EXCEPT !.stage = "asked", !.device = device.id]
        BY <3>2 DEF LookUp
      <4>2. device.id \in Ids
        BY <1>1 DEF Device
      <4> HIDE DEF NoReading
      <4>3. /\ [NoReading EXCEPT !.stage = "asked", !.device = device.id] \in Reading
            /\ [NoReading EXCEPT !.stage = "asked", !.device = device.id].device = device.id
        BY <3>1, <4>2 DEF Reading
      <4> QED
        BY <1>1, <4>1, <4>3
    <3>3. CASE reading' = NoReading
      BY <1>1, <3>1, <3>3
    <3>4. CASE \E age \in Silence, load \in Load :
                 reading' = [reading EXCEPT !.stage = "answered", !.age = age,
                                            !.overall = load]
      BY <1>1, <1>2, <3>4 DEF Reading
    <3> QED
      BY <1>10, <3>2, <3>3, <3>4 DEF ReadHeartbeat, Remember
  <2>2. snapshot' \in Snapshot /\ snapshot'.device \in 0 .. serial
    <3>1. CASE snapshot' = snapshot
      BY <1>1, <1>2, <3>1
    <3>2. CASE snapshot' = [device |-> reading.device, age |-> reading.age,
                            overall |-> reading.overall]
      BY <1>1, <1>2, <3>2 DEF Reading, Snapshot
    <3> QED
      BY <1>10, <3>1, <3>2 DEF LookUp, ReadHeartbeat, Remember
  <2>3. calls' \in 0 .. MaxCalls /\ outdated' \in BOOLEAN
    <3>1. outdated \in BOOLEAN
      BY DEF TypeOK
    <3>2. CASE LookUp
      BY <1>2, <3>1, <3>2 DEF LookUp, voice
    <3>3. CASE ReadHeartbeat
      BY <1>2, <3>1, <3>3 DEF ReadHeartbeat, voice
    <3>4. CASE Remember
      <4>1. calls' = calls
        BY <3>4 DEF Remember
      <4>2. outdated' \in {outdated, outdated \/ snapshot' # snapshot, reading.age # silent}
        BY <3>4, Zenon DEF Remember
      <4> QED
        BY <1>2, <3>1, <4>1, <4>2
    <3> QED
      BY <1>10, <3>2, <3>3, <3>4
  <2>4. UNCHANGED <<device, monitors, serial, alive, uptime, workers, pushes, callers, job,
                    writes, owed, given, shared, duplicated, silent, reported, told, repeated,
                    muddled, focus>>
    BY <1>10 DEF LookUp, ReadHeartbeat, Remember, rows, voice, delivery
  <2>5. ({device.id, snapshot.device, reading.device}
            \union {callers[d].device : d \in Callers} \subseteq 0 .. serial)'
    BY <1>1, <2>1, <2>2, <2>4
  <2> QED
    BY <1>1, <1>2, <2>1, <2>2, <2>3, <2>4, <2>5 DEF TypeOK
<1>11. ASSUME NEW c \in Callers, CallStep(c)
       PROVE  TypeOK'
  <2>1. callers[c] \in Call
    BY <1>2, <1>11 DEF CallStep, Free
  <2>2. Len(callers[c].todo) # 1 => [callers[c] EXCEPT !.todo = Tail(callers[c].todo)] \in Call
    BY <2>1, CallsGoOn DEF Call
  <2>3. callers' = [callers EXCEPT ![c] =
          IF Len(callers[c].todo) = 1 THEN NoCall
                                      ELSE [callers[c] EXCEPT !.todo = Tail(callers[c].todo)]]
    BY <1>2, <1>11 DEF CallStep
  <2>4. callers' \in [Callers -> Call \union {NoCall}]
    BY <1>2, <2>2, <2>3
  <2>5. \A d \in Callers : callers'[d].device \in {callers[d].device, 0}
    BY <1>2, <1>3, <2>1, <2>3 DEF Call
  <2>6. owed' \subseteq owed /\ muddled' \in BOOLEAN
    BY <1>11 DEF CallStep, TypeOK
  <2> QED
    BY <1>2, <1>11, <2>4, <2>5, <2>6, CallType DEF CallStep
<1>12. CASE BeginJob
  <2>1. \A todo \in JobsLeft : [device |-> device.id, todo |-> todo] \in JobCall
    BY <1>1 DEF JobCall, Ids
  <2>2. job' \in JobCall
    BY <1>12, <2>1 DEF BeginJob, JobsLeft
  <2> QED
    BY <1>1, <1>2, <1>12, <2>2 DEF BeginJob, TypeOK, rows, memory, voice, delivery
<1>13. CASE JobStep
  <2>1. job \in JobCall
    BY <1>2, <1>13 DEF JobStep
  <2>2. Len(job.todo) # 1 => [job EXCEPT !.todo = Tail(job.todo)] \in JobCall
    BY <2>1, CallsGoOn DEF JobCall
  <2>3. job' \in JobCall \union {NoCall}
    BY <1>13, <2>1, <2>2 DEF JobStep
  <2>4. owed' \subseteq owed /\ muddled' \in BOOLEAN /\ UNCHANGED callers
    BY <1>13 DEF JobStep, TypeOK
  <2> QED
    BY <1>2, <1>13, <2>3, <2>4, CallType DEF JobStep
<1>14. ASSUME NEW w \in workers, Check(w)
       PROVE  TypeOK'
  <2>1. Column(Verdict(w)) \in RowStatus
    BY DEF Column, RowStatus
  <2>2. monitors' \subseteq Monitor /\ (monitors = {} => monitors' = {})
    BY <1>1, <1>6, <1>14, <2>1 DEF Check
  <2>3. reported' \in BOOLEAN /\ writes' = writes
    BY <1>14 DEF Check
  <2> QED
    BY <1>5, <1>14, <2>2, <2>3 DEF Check
<1>15. CASE Tick
  <2>1. /\ device.updating \in Since /\ device.uninstall \in Since
        /\ snapshot.age \in Silence
    BY <1>1, <1>2 DEF Device, Snapshot
  <2>2. /\ Older(device.updating, UpdateWindow) \in Since
        /\ Older(device.uninstall, UpdateWindow) \in Since
        /\ Older(snapshot.age, StaleAfter) \in Silence /\ Older(silent, StaleAfter) \in Silence
    <3>1. \A a \in Since : Older(a, UpdateWindow) \in Since
      BY <1>2 DEF Since, Never, Older
    <3>2. \A a \in Silence : Older(a, StaleAfter) \in Silence
      BY <1>2 DEF Silence, Older
    <3> QED
      BY <1>2, <2>1, <3>1, <3>2
  <2>3. /\ device' = [device EXCEPT !.updating = Older(device.updating, UpdateWindow),
                                    !.uninstall = Older(device.uninstall, UpdateWindow)]
        /\ snapshot' = [snapshot EXCEPT !.age = Older(snapshot.age, StaleAfter)]
    BY <1>15 DEF Tick
  <2>4. /\ device' \in Device /\ device'.id = device.id
        /\ snapshot' \in Snapshot /\ snapshot'.device = snapshot.device
    BY <1>1, <1>2, <2>2, <2>3 DEF Device, Snapshot
  <2>5. device.id = 0 => device' = NoDevice
    <3>1. NoDevice.updating = Never /\ NoDevice.uninstall = Never
      BY DEF NoDevice
    <3>2. Older(Never, UpdateWindow) = Never
      BY <1>2, OlderType DEF Never
    <3> QED
      BY <1>1, <2>3, <3>1, <3>2 DEF NoDevice
  <2>6. uptime' \in 0 .. Grace /\ silent' \in Silence
    BY <1>2, <1>15, <2>2 DEF Tick, Grace
  <2>7. UNCHANGED <<monitors, serial, alive, workers, reading, pushes, callers, job, writes,
                    calls, owed, given, shared, duplicated, reported, told, repeated, outdated,
                    muddled, focus>>
    BY <1>15 DEF Tick, voice, delivery
  <2>8. ({device.id, snapshot.device, reading.device} \union {callers[d].device : d \in Callers}
           \subseteq 0 .. serial)'
    BY <1>1, <2>4, <2>7
  <2> QED
    BY <1>1, <2>4, <2>5, <2>6, <2>7, <2>8 DEF TypeOK
<1>16. CASE Crash
  <2>1. /\ NoPush \in Push /\ NoSnapshot \in Snapshot /\ NoSnapshot.device = 0
        /\ NoReading \in Reading /\ NoReading.device = 0
    <3>1. NoDevice \in Device
      BY AgentDevicesAssumption
         DEF NoDevice, Device, Ids, DeviceStatus, Commands, Since, Never
    <3> QED
      BY <1>2, <3>1, SeenType
         DEF NoPush, Push, NoSnapshot, Snapshot, NoReading, Reading, Ids, Silence, Load
  <2>2. /\ pushes' \in [Pushes -> Push] /\ snapshot' \in Snapshot /\ workers' = {}
        /\ callers' = [d \in Callers |-> NoCall] /\ job' = NoCall /\ writes' = {}
        /\ alive' = FALSE /\ uptime' = 0 /\ calls' \in 0 .. MaxCalls /\ told' = "none"
        /\ owed' \subseteq owed /\ snapshot'.device = 0 /\ outdated' = FALSE
        /\ reading' \in Reading /\ reading'.device = 0
    BY <1>2, <1>16, <2>1 DEF Crash
  <2>3. UNCHANGED <<device, monitors, serial, given, shared, duplicated, silent, reported,
                    repeated, focus>>
        /\ muddled' \in BOOLEAN
    BY <1>16 DEF Crash, rows, TypeOK
  <2>4. ({device.id, snapshot.device, reading.device} \union {callers[d].device : d \in Callers}
           \subseteq 0 .. serial)'
    BY <1>1, <1>3, <2>2, <2>3
  <2>5. uptime' \in 0 .. Grace /\ callers' \in [Callers -> Call \union {NoCall}]
    BY <1>2, <2>2 DEF Grace
  <2> QED
    BY <1>1, <1>2, <2>2, <2>3, <2>4, <2>5 DEF TypeOK
<1>17. CASE Restart
  <2>1. workers' \subseteq Worker
    BY <1>1, <1>17 DEF Restart, Worker, Monitor, Ids
  <2> QED
    BY <1>1, <1>2, <1>17, <2>1 DEF Restart, TypeOK, rows, voice, delivery
<1>18. CASE UNCHANGED vars
  BY <1>18 DEF vars, rows, memory, voice, delivery, TypeOK
<1>19. ASSUME NEW p \in Pushes, Fail(p)
       PROVE  TypeOK'
  <2>1. NoPush \in Push
    <3>1. NoDevice \in Device
      BY AgentDevicesAssumption
         DEF NoDevice, Device, Ids, DeviceStatus, Commands, Since, Never
    <3> QED
      BY <3>1, SeenType DEF NoPush, Push, Ids
  <2>2. pushes' \in [Pushes -> Push] /\ owed' \subseteq owed /\ calls' \in 0 .. MaxCalls
    BY <1>2, <1>19, <2>1 DEF Fail
  <2> QED
    BY <1>1, <1>2, <1>19, <2>2 DEF Fail, TypeOK, rows, memory, voice
<1> QED
  BY <1>4, <1>7, <1>8, <1>9, <1>10, <1>11, <1>12, <1>13, <1>14, <1>15, <1>16, <1>17, <1>18, <1>19,
     Moves

\* Both initial states are well typed.
LEMMA InitType == Init => TypeOK
<1> SUFFICES ASSUME Init PROVE TypeOK
  OBVIOUS
<1>1. /\ MaxCalls \in Nat /\ StaleAfter \in Nat /\ UpdateWindow \in Nat
      /\ 0 \in Ids /\ 0 \in Commands /\ Never \in Since /\ 0 \in Silence
  BY AgentDevicesAssumption DEF Ids, Commands, Since, Never, Silence
<1>2. NoDevice \in Device
  BY <1>1 DEF NoDevice, Device, DeviceStatus
<1>3. NoPush \in Push /\ NoSnapshot \in Snapshot
  BY <1>1, <1>2, SeenType DEF NoPush, Push, NoSnapshot, Snapshot, Load
<1>8. NoReading \in Reading /\ NoReading.device = 0
  BY <1>1 DEF NoReading, Reading, Load
<1>4. /\ pushes \in [Pushes -> Push] /\ snapshot \in Snapshot /\ snapshot.device = 0
      /\ reading \in Reading /\ reading.device = 0
      /\ callers \in [Callers -> Call \union {NoCall}] /\ job \in JobCall \union {NoCall}
      /\ \A c \in Callers : callers[c].device = 0
  BY <1>3, <1>8 DEF Init, NoSnapshot, NoCall
<1>5. /\ alive \in BOOLEAN /\ uptime \in 0 .. Grace /\ writes = {} /\ calls \in 0 .. MaxCalls
      /\ focus \in Focus /\ owed \union given \union shared \subseteq Commands
      /\ duplicated \in BOOLEAN /\ outdated \in BOOLEAN
      /\ silent \in Silence /\ told \in Load \union {"none"}
      /\ repeated \in BOOLEAN /\ reported \in BOOLEAN /\ muddled \in BOOLEAN
  <2>1. 0 \in 0 .. Grace /\ 0 \in 0 .. MaxCalls /\ StaleAfter + 1 \in Silence
    BY <1>1 DEF Grace, Silence
  <2> QED
    BY <2>1 DEF Init
<1>6. CASE device = NoDevice /\ monitors = {} /\ serial = 0 /\ workers = {}
  <2>1. device \in Device /\ device.id = 0 /\ monitors \subseteq Monitor
    BY <1>2, <1>6 DEF NoDevice
  <2>2. {device.id, snapshot.device, reading.device} \union {callers[c].device : c \in Callers} \subseteq 0 .. serial
    BY <1>4, <1>6, <2>1
  <2>3. workers \subseteq Worker /\ serial \in Ids
    BY <1>1, <1>6
  <2> QED
    BY <1>4, <1>5, <1>6, <2>1, <2>2, <2>3 DEF TypeOK
<1>7. CASE /\ device = [Fresh(1) EXCEPT !.status = "approved"]
           /\ monitors = {[id |-> 2, active |-> TRUE, status |-> "other"]}
           /\ serial = 2
           /\ workers = {[monitor |-> 2, device |-> 1]}
  <2>1. device \in Device /\ device.id = 1
    BY <1>2, <1>7 DEF Fresh, NoDevice, Device, DeviceStatus, Ids
  <2>2. monitors \subseteq Monitor /\ workers \subseteq Worker
    BY <1>7 DEF Monitor, Ids, RowStatus, Worker
  <2> QED
    BY <1>1, <1>4, <1>5, <1>7, <2>1, <2>2 DEF TypeOK, Ids
<1> QED
  BY <1>6, <1>7 DEF Init

\* Rows, snapshot, pushes, calls and what the properties remember of them stay well
\* typed, and no id in use is above the last one given.
THEOREM TypeCorrect == Spec => []TypeOK
<1>1. Init => TypeOK
  BY InitType
<1>2. TypeOK /\ [Next]_vars => TypeOK'
  BY StepType
<1> QED
  BY <1>1, <1>2, PTL DEF Spec

-----------------------------------------------------------------------------
(***************************************************************************)
(* Commands.                                                               *)
(***************************************************************************)
\* A push that leaves its phase for an earlier one, or ends, carries no more than its own.
LEMMA StillCarried ==
  ASSUME TypeOK, NEW p \in Pushes, NEW push, pushes' = [pushes EXCEPT ![p] = push]
  PROVE  /\ push.phase \in {"store", "previous"} => push.seen.command \in Carried'
         /\ \A k \in Carried : k = pushes[p].seen.command \/ k \in Carried'
         /\ pushes[p].phase \notin {"store", "previous"} => Carried \subseteq Carried'
BY DEF TypeOK, Carried

\* The two halves of the first promise.
Waiting == owed \subseteq {device.command} \union Carried

Answered == \A p \in Pushes : pushes[p].phase = "consume" => ~Rejected(pushes[p].seen)

\* A push delivers what it takes from the row.
LEMMA PushDelivers ==
  ASSUME TypeOK, Answered, Waiting, NEW p \in Pushes,
         \/ Arrive(p) \/ Record(p) \/ Consume(p) \/ FindMonitor(p) \/ FindPrevious(p)
         \/ Fail(p)
  PROVE  Answered' /\ Waiting'
<1> DEFINE seen == pushes[p].seen
<1>1. pushes \in [Pushes -> Push] /\ device \in Device
  BY DEF TypeOK
<1>2. NoPush.phase = "idle" /\ ~Rejected(NoPush.seen)
  BY DEF NoPush, Rejected, Seen, NoDevice
<1>3. owed \subseteq {device.command} \union Carried
      /\ \A q \in Pushes : pushes[q].phase = "consume" => ~Rejected(pushes[q].seen)
  BY DEF Answered, Waiting
<1>4. ASSUME NEW push, pushes' = [pushes EXCEPT ![p] = push],
             push.phase = "consume" => ~Rejected(push.seen)
      PROVE  \A q \in Pushes : pushes'[q].phase = "consume" => ~Rejected(pushes'[q].seen)
  BY <1>1, <1>3, <1>4
<1>5. CASE Arrive(p)
  <2> DEFINE push == [phase |-> "record", seen |-> Seen(device), monitor |-> 0]
  <2>1. pushes' = [pushes EXCEPT ![p] = push] /\ push.phase = "record"
        /\ device' = device /\ owed' = owed /\ pushes[p].phase = "idle"
    BY <1>5 DEF Arrive, rows, Idle
  <2>2. Carried \subseteq Carried'
    BY <2>1, StillCarried
  <2> QED
    BY <1>3, <1>4, <2>1, <2>2 DEF Answered, Waiting
<1>6. CASE Record(p)
  <2>1. PICK phase \in {"idle", "consume", "store"} :
          Proceed(p, phase) /\ (phase = "consume" => ~Rejected(seen))
    BY <1>6 DEF Record
  <2> DEFINE push == IF phase = "idle" THEN NoPush ELSE [pushes[p] EXCEPT !.phase = phase]
  <2>2. pushes' = [pushes EXCEPT ![p] = push] /\ owed' = owed
    BY <1>1, <2>1 DEF Proceed, delivery
  <2>3. push.phase = "consume" => ~Rejected(push.seen)
    BY <1>1, <1>2, <2>1 DEF Push
  <2>4. Carried \subseteq Carried'
    BY <1>6, <2>2, StillCarried DEF Record
  <2>5. device.command = 0 \/ device'.command = device.command
    <3>1. CASE ~Registered
      BY <3>1, RowTypes DEF Registered, NoDevice
    <3>2. CASE Registered
      BY <1>1, <1>6, <3>2 DEF Record, Device
    <3> QED
      BY <3>1, <3>2
  <2>6. device.command = 0 => device'.command = 0
    BY <1>1, <1>6 DEF Record, Device, Fresh, NoDevice
  <2> QED
    BY <1>3, <1>4, <2>2, <2>3, <2>4, <2>5, <2>6 DEF Answered, Waiting
<1>7. CASE Consume(p)
  <2> DEFINE raced == IF Is(seen.id) THEN {device.command} \ {seen.command} ELSE {}
             push == IF seen.status = "approved" THEN [pushes[p] EXCEPT !.phase = "store"]
                                                 ELSE NoPush
  <2>1. pushes' = [pushes EXCEPT ![p] = push] /\ pushes[p].phase = "consume"
    BY <1>1, <1>7 DEF Consume
  <2>2. push.phase # "consume"
    BY <1>1, <1>2 DEF Push
  <2>3. Carried \subseteq Carried'
    BY <2>1, StillCarried
  <2>4. seen.status \in {"approved", "pending"}
    BY <1>1, <1>3, <2>1 DEF Rejected, Push, DeviceStatus
  <2>5. CASE seen.status = "approved"
    <3>1. owed' = owed \ raced
      BY <1>7, <2>5 DEF Consume
    <3>2. seen.command \in Carried'
      <4>1. push.phase = "store" /\ push.seen = seen
        BY <1>1, <2>5 DEF Push
      <4> QED
        BY <2>1, <4>1, StillCarried
    <3>3. ~Is(seen.id) => device' = device
      BY <1>7 DEF Consume
    <3> QED
      BY <1>3, <1>4, <2>1, <2>2, <2>3, <3>1, <3>2, <3>3 DEF Answered, Waiting
  <2>6. CASE seen.status = "pending"
    <3>1. owed' = owed \ (raced \union {seen.command})
      BY <1>7, <2>6 DEF Consume
    <3>2. ~Is(seen.id) => device' = device
      BY <1>7 DEF Consume
    <3> QED
      BY <1>3, <1>4, <2>1, <2>2, <2>3, <3>1, <3>2 DEF Answered, Waiting
  <2> QED
    BY <2>4, <2>5, <2>6
<1>8. ASSUME Reply(p), device' = device
      PROVE  Answered' /\ Waiting'
  <2>1. pushes' = [pushes EXCEPT ![p] = NoPush] /\ owed' = owed \ {seen.command}
    BY <1>8 DEF Reply
  <2>2. owed' \subseteq {device'.command} \union Carried'
    BY <1>3, <1>8, <2>1, StillCarried
  <2> QED
    BY <1>2, <1>4, <2>1, <2>2 DEF Answered, Waiting
<1>9. CASE FindMonitor(p)
  <2>1. device' = device /\ pushes[p].phase = "store"
    BY <1>9 DEF FindMonitor, rows
  <2>2. CASE Reply(p)
    BY <1>8, <2>1, <2>2
  <2>3. CASE \E m \in monitors :
               pushes' = [pushes EXCEPT ![p].phase = "previous", ![p].monitor = m.id]
               /\ owed' = owed
    <3>1. PICK m \in monitors :
            pushes' = [pushes EXCEPT ![p].phase = "previous", ![p].monitor = m.id]
            /\ owed' = owed
      BY <2>3
    <3> DEFINE push == [pushes[p] EXCEPT !.phase = "previous", !.monitor = m.id]
    <3>2. pushes' = [pushes EXCEPT ![p] = push]
      BY <1>1, <3>1
    <3>3. push.phase = "previous" /\ push.seen = seen
      <4>1. pushes[p] \in Push
        BY <1>1
      <4> QED
        BY <4>1 DEF Push
    <3> HIDE DEF push
    <3>4. Carried \subseteq Carried'
      <4>1. push.phase \in {"store", "previous"} => push.seen.command \in Carried'
        BY <3>2, StillCarried, Zenon
      <4>2. \A k \in Carried : k = pushes[p].seen.command \/ k \in Carried'
        BY <3>2, StillCarried, Zenon
      <4> QED
        BY <3>3, <4>1, <4>2
    <3> QED
      BY <1>3, <1>4, <2>1, <3>1, <3>2, <3>3, <3>4 DEF Answered, Waiting
  <2> QED
    BY <1>9, <2>2, <2>3 DEF FindMonitor, Store, delivery
<1>10. CASE FindPrevious(p)
  BY <1>8, <1>10 DEF FindPrevious, Store, rows
<1>11. CASE Fail(p)
  <2>1. /\ pushes' = [pushes EXCEPT ![p] = NoPush] /\ device' = device
        /\ owed' = IF pushes[p].phase \in {"store", "previous"} THEN owed \ {seen.command}
                                                               ELSE owed
    BY <1>11 DEF Fail, rows
  <2>2. owed' \subseteq {device'.command} \union Carried'
    BY <1>3, <2>1, StillCarried
  <2> QED
    BY <1>2, <1>4, <2>1, <2>2 DEF Answered, Waiting
<1> QED
  BY <1>5, <1>6, <1>7, <1>9, <1>10, <1>11

\* What is known of commands stays so when pushes keep what they have read or end, the
\* row keeps its command or loses it, and what is new in a reply is in no row.
LEMMA OnceStays ==
  ASSUME CommandsOnce, calls \in Nat, calls' \in Nat, calls <= calls', shared' = shared,
         \/ device'.command = 0
         \/ device'.command = device.command /\ device'.id = device.id,
         \A q \in Pushes : \/ pushes'[q].seen.command = 0
                           \/ pushes'[q].seen = pushes[q].seen,
         \A q \in Pushes :
           pushes'[q].seen.command # 0 /\ pushes'[q].seen.command = device'.command
             => pushes'[q].phase \in {"record", "consume"},
         \A q \in Pushes :
           pushes'[q].seen.command # 0 /\ pushes'[q].seen.command \in given'
             => pushes'[q].seen.command \in shared,
         device'.command # 0 => device'.command \notin given',
         given' \subseteq 1 .. calls'
  PROVE  CommandsOnce'
<1>1. \A c \in 1 .. calls : c \in 1 .. calls'
  OBVIOUS
<1>2. device'.command # 0 => device'.command \in (1 .. calls') \ given'
  BY <1>1 DEF CommandsOnce
<1>3. ASSUME NEW p \in Pushes, pushes'[p].seen.command # 0
      PROVE  /\ pushes'[p].seen.command \in 1 .. calls'
             /\ pushes'[p].seen.command = device'.command =>
                  Is(pushes[p].seen.id)' /\ pushes'[p].phase \in {"record", "consume"}
             /\ pushes'[p].seen.command \in given' => pushes'[p].seen.command \in shared'
  <2>1. pushes'[p].seen = pushes[p].seen
    BY <1>3
  <2>2. pushes'[p].seen.command \in 1 .. calls'
    BY <1>1, <1>3, <2>1 DEF CommandsOnce
  <2>3. pushes'[p].seen.command = device'.command => Is(pushes[p].seen.id)'
    BY <1>3, <2>1 DEF CommandsOnce, Is, Registered
  <2> QED
    BY <1>3, <2>2, <2>3
<1>4. ASSUME NEW p \in Pushes, NEW q \in Pushes, pushes'[p].seen.command # 0,
             pushes'[p].seen.command = pushes'[q].seen.command
      PROVE  p = q \/ pushes'[p].seen.command \in shared'
  <2>1. pushes'[p].seen = pushes[p].seen /\ pushes'[q].seen = pushes[q].seen
    BY <1>4
  <2> QED
    BY <1>4, <2>1 DEF CommandsOnce
<1> QED
  BY <1>2, <1>3, <1>4 DEF CommandsOnce

\* A push that ends, and gives at most what it held and the row holds no longer.
LEMMA EndsOnce ==
  ASSUME TypeOK, CommandsOnce, NEW p \in Pushes, pushes' = [pushes EXCEPT ![p] = NoPush],
         calls' \in {calls, calls + 1}, shared' = shared,
         \/ device'.command = 0
         \/ device'.command = device.command /\ device'.id = device.id,
         \/ given' = given
         \/ /\ given' = given \union ({pushes[p].seen.command} \ {0})
            /\ pushes[p].seen.command # 0 => pushes[p].seen.command # device'.command
  PROVE  CommandsOnce'
<1> DEFINE c == pushes[p].seen.command
<1>1. calls \in Nat /\ calls' \in Nat /\ calls <= calls'
  BY AgentDevicesAssumption DEF TypeOK
<1>2. NoPush.seen.command = 0
  BY DEF NoPush, Seen, NoDevice
<1>3. pushes'[p] = NoPush /\ \A q \in Pushes \ {p} : pushes'[q] = pushes[q]
  BY DEF TypeOK
<1>4. ASSUME NEW q \in Pushes, pushes'[q].seen.command # 0
      PROVE  q # p /\ pushes'[q] = pushes[q]
  BY <1>2, <1>3, <1>4
<1>5. \A q \in Pushes : pushes'[q].seen.command = 0 \/ pushes'[q].seen = pushes[q].seen
  BY <1>4
<1>6. \A q \in Pushes :
        pushes'[q].seen.command # 0 /\ pushes'[q].seen.command = device'.command
          => pushes'[q].phase \in {"record", "consume"}
  BY <1>4 DEF CommandsOnce
<1>7. \A q \in Pushes :
        pushes'[q].seen.command # 0 /\ pushes'[q].seen.command \in given'
          => pushes'[q].seen.command \in shared
  BY <1>4 DEF CommandsOnce
<1>8. device'.command # 0 => device'.command \notin given'
  BY DEF CommandsOnce
<1>9. given' \subseteq 1 .. calls'
  <2>1. given \subseteq 1 .. calls'
    BY <1>1 DEF CommandsOnce
  <2>2. c # 0 => c \in 1 .. calls'
    BY <1>1 DEF CommandsOnce
  <2> QED
    BY <2>1, <2>2
<1> QED
  BY <1>1, <1>5, <1>6, <1>7, <1>8, <1>9, OnceStays

\* A push that goes on with what it has read.
LEMMA GoesOnOnce ==
  ASSUME TypeOK, CommandsOnce, NEW p \in Pushes, NEW push,
         pushes' = [pushes EXCEPT ![p] = push], push.seen = pushes[p].seen,
         UNCHANGED <<calls, given, shared>>,
         \/ device'.command = 0
         \/ device'.command = device.command /\ device'.id = device.id,
         push.seen.command # 0 /\ push.seen.command = device'.command
           => push.phase \in {"record", "consume"}
  PROVE  CommandsOnce'
<1>1. calls \in Nat /\ calls' \in Nat /\ calls <= calls'
  BY AgentDevicesAssumption DEF TypeOK
<1>2. pushes'[p] = push /\ \A q \in Pushes \ {p} : pushes'[q] = pushes[q]
  BY DEF TypeOK
<1>3. \A q \in Pushes : pushes'[q].seen = pushes[q].seen
  BY <1>2
<1>4. ASSUME NEW q \in Pushes, pushes'[q].seen.command # 0,
             pushes'[q].seen.command = device'.command
      PROVE  pushes'[q].phase \in {"record", "consume"}
  <2>1. CASE q = p
    BY <1>2, <1>4, <2>1
  <2>2. CASE q # p
    BY <1>2, <1>4, <2>2 DEF CommandsOnce
  <2> QED
    BY <2>1, <2>2
<1>5. /\ \A q \in Pushes :
           pushes'[q].seen.command # 0 /\ pushes'[q].seen.command \in given'
             => pushes'[q].seen.command \in shared
      /\ device'.command # 0 => device'.command \notin given'
      /\ given' \subseteq 1 .. calls'
  BY <1>3 DEF CommandsOnce
<1> QED
  BY <1>1, <1>3, <1>4, <1>5, OnceStays

\* What a push gives for the first time, or shared, is no duplicate.
LEMMA GivesOnce ==
  ASSUME CommandsOnce, calls \in Nat, ~duplicated, NEW p \in Pushes,
         NEW c \in {0, pushes[p].seen.command}, Give(c)
  PROVE  ~duplicated' /\ given' = given \union ({c} \ {0}) /\ shared' = shared
<1>1. c \in given => c \in shared
  <2>1. CASE c = 0
    BY <2>1 DEF CommandsOnce
  <2>2. CASE c # 0 /\ c = pushes[p].seen.command
    BY <2>2 DEF CommandsOnce
  <2> QED
    BY <2>1, <2>2
<1> QED
  BY <1>1 DEF Give

\* Pushes give a command once, or share it.
LEMMA PushOnce ==
  ASSUME TypeOK, CommandsOnce, ~duplicated, NEW p \in Pushes,
         \/ Arrive(p) \/ Record(p) \/ Consume(p) \/ FindMonitor(p) \/ FindPrevious(p)
         \/ Fail(p)
  PROVE  CommandsOnce' /\ ~duplicated'
<1> DEFINE seen == pushes[p].seen
<1>1. pushes \in [Pushes -> Push] /\ device \in Device /\ calls \in Nat
  BY AgentDevicesAssumption DEF TypeOK
<1>2. NoPush.seen.command = 0
  BY DEF NoPush, Seen, NoDevice
<1>3. CASE Arrive(p)
  <2> DEFINE push == [phase |-> "record", seen |-> Seen(device), monitor |-> 0]
  <2>1. /\ pushes' = [pushes EXCEPT ![p] = push]
        /\ shared' = shared \union (Held \intersect {device.command})
        /\ UNCHANGED <<device, calls, given, duplicated>>
    BY <1>3 DEF Arrive, rows
  <2>2. /\ pushes'[p] = push /\ \A q \in Pushes \ {p} : pushes'[q] = pushes[q]
        /\ push.phase = "record" /\ push.seen.command = device.command
        /\ push.seen.id = device.id
    BY <1>1, <2>1 DEF Seen
  <2>3. device.command # 0 => Is(device.id)
    BY RowTypes DEF Is, Registered, NoDevice
  <2>4. \A q \in Pushes : pushes[q].seen.command = device.command /\ device.command # 0
          => device.command \in shared'
    BY <2>1 DEF Held
  <2> HIDE DEF push
  <2>5. device'.command # 0 => device'.command \in (1 .. calls') \ given'
    BY <2>1 DEF CommandsOnce
  <2>6. ASSUME NEW q \in Pushes, pushes'[q].seen.command # 0
        PROVE  /\ pushes'[q].seen.command \in 1 .. calls'
               /\ pushes'[q].seen.command = device'.command =>
                    Is(pushes[q].seen.id)' /\ pushes'[q].phase \in {"record", "consume"}
               /\ pushes'[q].seen.command \in given' => pushes'[q].seen.command \in shared'
    <3>1. CASE q = p
      BY <2>1, <2>2, <2>3, <2>5, <2>6, <3>1 DEF CommandsOnce, Is, Registered
    <3>2. CASE q # p
      BY <2>1, <2>2, <2>6, <3>2 DEF CommandsOnce, Is, Registered
    <3> QED
      BY <3>1, <3>2
  <2>7. ASSUME NEW q \in Pushes, NEW o \in Pushes, pushes'[q].seen.command # 0,
               pushes'[q].seen.command = pushes'[o].seen.command
        PROVE  q = o \/ pushes'[q].seen.command \in shared'
    <3>1. CASE q = p /\ o # p
      BY <2>2, <2>4, <2>7, <3>1
    <3>2. CASE q # p /\ o = p
      BY <2>2, <2>4, <2>7, <3>2
    <3>3. CASE q # p /\ o # p
      BY <2>1, <2>2, <2>7, <3>3 DEF CommandsOnce
    <3> QED
      BY <3>1, <3>2, <3>3
  <2>8. given' \subseteq 1 .. calls' /\ ~duplicated'
    BY <2>1 DEF CommandsOnce
  <2> QED
    BY <2>5, <2>6, <2>7, <2>8 DEF CommandsOnce
<1>4. CASE Record(p)
  <2>1. PICK phase \in {"idle", "consume", "store"} :
          Proceed(p, phase) /\ (phase = "store" => seen.command = 0)
    BY <1>4 DEF Record
  <2>2. UNCHANGED <<calls, given, shared, duplicated>>
    BY <1>4, <2>1 DEF Record, Proceed, delivery
  <2>3. \/ device'.command = 0
        \/ device'.command = device.command /\ device'.id = device.id
    BY <1>1, <1>4 DEF Record, Device, Fresh, NoDevice
  <2>4. CASE phase = "idle"
    <3>1. pushes' = [pushes EXCEPT ![p] = NoPush]
      BY <2>1, <2>4 DEF Proceed
    <3> QED
      BY <2>2, <2>3, <3>1, EndsOnce
  <2>5. CASE phase # "idle"
    <3> DEFINE push == [pushes[p] EXCEPT !.phase = phase]
    <3>1. pushes' = [pushes EXCEPT ![p] = push]
      BY <1>1, <2>1, <2>5 DEF Proceed
    <3>2. push.seen = seen /\ push.phase = phase
      BY <1>1 DEF Push
    <3> HIDE DEF push
    <3> QED
      BY <2>1, <2>2, <2>3, <2>5, <3>1, <3>2, GoesOnOnce
  <2> QED
    BY <2>4, <2>5
<1>5. CASE Consume(p)
  <2>1. /\ device' = IF Is(seen.id) THEN Taken(seen.command) ELSE device
        /\ calls' = calls /\ pushes[p].phase = "consume"
    BY <1>5 DEF Consume
  <2>2. \/ device'.command = 0
        \/ device'.command = device.command /\ device'.id = device.id
    BY <1>1, <2>1 DEF Taken, Device
  <2>3. seen.command # 0 => seen.command # device'.command
    <3>1. CASE Is(seen.id)
      BY <1>1, <2>1, <3>1 DEF Taken, Device
    <3>2. CASE ~Is(seen.id)
      BY <2>1, <3>2 DEF CommandsOnce
    <3> QED
      BY <3>1, <3>2
  <2>4. CASE seen.status = "approved"
    <3> DEFINE push == [pushes[p] EXCEPT !.phase = "store"]
    <3>1. pushes' = [pushes EXCEPT ![p] = push] /\ UNCHANGED <<given, shared, duplicated>>
      BY <1>1, <1>5, <2>4 DEF Consume
    <3>2. push.seen = seen
      BY <1>1 DEF Push
    <3> HIDE DEF push
    <3> QED
      BY <2>1, <2>2, <2>3, <3>1, <3>2, GoesOnOnce
  <2>5. CASE seen.status # "approved"
    <3>1. PICK c \in {0, seen.command} : Give(c)
      BY <1>5, <2>5 DEF Consume
    <3>2. ~duplicated' /\ given' = given \union ({c} \ {0}) /\ shared' = shared
      BY <1>1, <3>1, GivesOnce
    <3>3. pushes' = [pushes EXCEPT ![p] = NoPush]
      BY <1>5, <2>5 DEF Consume
    <3>4. given' = given \/ given' = given \union ({seen.command} \ {0})
      BY <3>1, <3>2
    <3> QED
      BY <2>1, <2>2, <2>3, <3>2, <3>3, <3>4, EndsOnce
  <2> QED
    BY <2>4, <2>5
<1>6. ASSUME Reply(p), device' = device, calls' = calls,
             pushes[p].phase \in {"store", "previous"}
      PROVE  CommandsOnce' /\ ~duplicated'
  <2>1. pushes' = [pushes EXCEPT ![p] = NoPush] /\ Give(seen.command)
    BY <1>6 DEF Reply
  <2>2. ~duplicated' /\ given' = given \union ({seen.command} \ {0}) /\ shared' = shared
    BY <1>1, <2>1, GivesOnce
  <2>3. seen.command # 0 => seen.command # device'.command
    BY <1>6 DEF CommandsOnce
  <2> QED
    BY <1>6, <2>1, <2>2, <2>3, EndsOnce
<1>7. CASE FindMonitor(p)
  <2>1. device' = device /\ calls' = calls /\ pushes[p].phase = "store"
    BY <1>7 DEF FindMonitor, rows
  <2>2. CASE Reply(p)
    BY <1>6, <2>1, <2>2
  <2>3. CASE \E m \in monitors :
               /\ pushes' = [pushes EXCEPT ![p].phase = "previous", ![p].monitor = m.id]
               /\ UNCHANGED delivery
    <3>1. PICK m \in monitors :
            /\ pushes' = [pushes EXCEPT ![p].phase = "previous", ![p].monitor = m.id]
            /\ UNCHANGED delivery
      BY <2>3
    <3> DEFINE push == [pushes[p] EXCEPT !.phase = "previous", !.monitor = m.id]
    <3>2. pushes' = [pushes EXCEPT ![p] = push]
      BY <1>1, <3>1
    <3>3. push.seen = seen
      <4>1. pushes[p] \in Push
        BY <1>1
      <4> QED
        BY <4>1 DEF Push
    <3>4. UNCHANGED <<given, shared, duplicated>>
      BY <3>1 DEF delivery
    <3>5. seen.command # 0 => seen.command # device'.command
      BY <2>1 DEF CommandsOnce
    <3> HIDE DEF push
    <3> QED
      BY <2>1, <3>2, <3>3, <3>4, <3>5, GoesOnOnce
  <2> QED
    BY <1>7, <2>2, <2>3 DEF FindMonitor, Store
<1>8. CASE FindPrevious(p)
  BY <1>6, <1>8 DEF FindPrevious, Store, rows
<1>9. CASE Fail(p)
  <2>1. /\ pushes' = [pushes EXCEPT ![p] = NoPush] /\ calls' = calls + 1
        /\ UNCHANGED <<device, given, shared, duplicated>>
    BY <1>9 DEF Fail, rows
  <2> QED
    BY <2>1, EndsOnce
<1> QED
  BY <1>3, <1>4, <1>5, <1>7, <1>8, <1>9

\* What others do leaves a command where it was, replaces it, or ends it.
LEMMA StepDelivers ==
  ASSUME TypeOK, DeliveryInv, [Next]_vars
  PROVE  DeliveryInv'
<1>1. pushes \in [Pushes -> Push] /\ device \in Device /\ calls \in Nat
  BY AgentDevicesAssumption DEF TypeOK
<1>2. Answered /\ Waiting /\ CommandsOnce /\ ~duplicated
  BY DEF DeliveryInv, CommandsReachAgent, Answered, Waiting
<1>3. (Answered /\ Waiting /\ CommandsOnce /\ ~duplicated)' => DeliveryInv'
  BY DEF DeliveryInv, CommandsReachAgent, Answered, Waiting
<1>4. ASSUME UNCHANGED <<pushes, given, shared, duplicated>>, owed' \subseteq owed,
             calls' \in {calls, calls + 1},
             \/ device'.command = device.command /\ device'.id = device.id
             \/ device'.command = 0 /\ device.command \notin owed'
      PROVE  DeliveryInv'
  <2>1. Answered' /\ Waiting'
    BY <1>2, <1>4 DEF Answered, Waiting, Carried
  <2>2. CommandsOnce'
    <3>1. calls' \in Nat /\ calls <= calls'
      BY <1>1, <1>4
    <3>2. /\ \A q \in Pushes :
               pushes'[q].seen.command # 0 /\ pushes'[q].seen.command = device'.command
                 => pushes'[q].phase \in {"record", "consume"}
          /\ \A q \in Pushes :
               pushes'[q].seen.command # 0 /\ pushes'[q].seen.command \in given'
                 => pushes'[q].seen.command \in shared
          /\ device'.command # 0 => device'.command \notin given'
      BY <1>2, <1>4 DEF CommandsOnce
    <3>3. given' \subseteq 1 .. calls'
      BY <1>1, <1>2, <1>4, <3>1 DEF CommandsOnce
    <3> QED
      BY <1>1, <1>2, <1>4, <3>1, <3>2, <3>3, OnceStays
  <2> QED
    BY <1>2, <1>3, <1>4, <2>1, <2>2
<1>5. ASSUME NEW p \in Pushes,
             \/ Arrive(p) \/ Record(p) \/ Consume(p) \/ FindMonitor(p) \/ FindPrevious(p)
             \/ Fail(p)
      PROVE  DeliveryInv'
  BY <1>2, <1>3, <1>5, PushDelivers, PushOnce
<1>6. CASE \/ WriteStatus \/ LookUp \/ ReadHeartbeat \/ Remember \/ BeginJob \/ Restart
           \/ UNCHANGED vars \/ \E w \in workers : Check(w)
  BY <1>4, <1>6
     DEF WriteStatus, LookUp, ReadHeartbeat, Remember, BeginJob, Restart, vars, Check, rows,
         delivery
<1>7. ASSUME NEW c \in Callers, NEW todo \in Begun, Begin(c, todo)
      PROVE  DeliveryInv'
  BY <1>4, <1>7 DEF Begin, rows, delivery
<1>8. CASE SendCommand
  <2>1. /\ device' = [device EXCEPT !.command = calls + 1] /\ calls' = calls + 1
        /\ owed' = (owed \ {device.command}) \union {calls + 1} /\ Registered
        /\ UNCHANGED <<pushes, given, shared, duplicated>>
    BY <1>8 DEF SendCommand
  <2>2. device'.command = calls + 1 /\ device'.id = device.id
    BY <1>1, <2>1 DEF Device
  <2>3. Answered' /\ Waiting'
    BY <1>2, <2>1, <2>2 DEF Answered, Waiting, Carried
  <2>4. calls + 1 \notin 1 .. calls /\ calls + 1 \in 1 .. calls'
        /\ \A c \in 1 .. calls : c \in 1 .. calls'
    BY <1>1, <2>1
  <2>5. CommandsOnce'
    <3>1. device'.command \in (1 .. calls') \ given'
      BY <1>2, <2>1, <2>2, <2>4 DEF CommandsOnce
    <3>2. \A q \in Pushes : pushes'[q].seen.command # 0 =>
            /\ pushes'[q].seen.command \in 1 .. calls'
            /\ pushes'[q].seen.command # device'.command
            /\ pushes'[q].seen.command \in given' => pushes'[q].seen.command \in shared'
      BY <1>2, <2>1, <2>2, <2>4 DEF CommandsOnce
    <3>3. \A p, q \in Pushes :
            pushes'[p].seen.command # 0 /\ pushes'[p].seen.command = pushes'[q].seen.command
              => p = q \/ pushes'[p].seen.command \in shared'
      BY <1>2, <2>1 DEF CommandsOnce
    <3>4. given' \subseteq 1 .. calls'
      BY <1>2, <2>1, <2>4 DEF CommandsOnce
    <3> QED
      BY <3>1, <3>2, <3>3, <3>4 DEF CommandsOnce
  <2> QED
    BY <1>2, <1>3, <2>1, <2>3, <2>5
<1>9. ASSUME NEW s, NEW id, Execute(s, id), UNCHANGED <<pushes, calls, given, shared, duplicated>>,
             owed' = IF s = "drop" THEN owed \ Lost(id) ELSE owed
      PROVE  DeliveryInv'
  <2>1. \/ s = "drop" /\ device' = NoDevice /\ Is(id)
        \/ device'.command = device.command /\ device'.id = device.id
    BY <1>9, ExecuteEffect
  <2>2. NoDevice.command = 0
    BY DEF NoDevice
  <2> QED
    BY <1>4, <1>9, <2>1, <2>2 DEF Lost
<1>10. ASSUME NEW c \in Callers, CallStep(c)
      PROVE  DeliveryInv'
  BY <1>9, <1>10 DEF CallStep
<1>11. CASE JobStep
  BY <1>9, <1>11 DEF JobStep
<1>12. CASE Tick
  <2>1. /\ device'.command = device.command /\ device'.id = device.id
        /\ UNCHANGED <<pushes, owed, given, shared, duplicated, calls>>
    BY <1>1, <1>12 DEF Tick, Device, delivery
  <2> QED
    BY <1>4, <2>1
<1>13. CASE Crash
  <2>1. /\ pushes' = [p \in Pushes |-> NoPush] /\ owed' = owed \ Carried /\ device' = device
        /\ UNCHANGED <<given, shared, duplicated>> /\ calls' = calls + 1
    BY <1>13 DEF Crash, rows
  <2>2. NoPush.seen.command = 0 /\ NoPush.phase = "idle"
    BY DEF NoPush, Seen, NoDevice
  <2>3. Answered' /\ Waiting'
    BY <1>2, <2>1, <2>2 DEF Answered, Waiting
  <2>4. /\ calls' \in Nat /\ calls <= calls' /\ given' \subseteq 1 .. calls'
        /\ \A q \in Pushes : pushes'[q].seen.command = 0
    BY <1>1, <1>2, <2>1, <2>2 DEF CommandsOnce
  <2>5. device'.command # 0 => device'.command \notin given'
    BY <1>2, <2>1 DEF CommandsOnce
  <2>6. CommandsOnce'
    BY <1>1, <1>2, <2>1, <2>4, <2>5, OnceStays
  <2> QED
    BY <1>2, <1>3, <2>1, <2>3, <2>6
<1> QED
  BY <1>5, <1>6, <1>7, <1>8, <1>10, <1>11, <1>12, <1>13, Moves

\* A push that is about to clear a command is one that will be answered with it, and
\* every command owed is in the row or with a push that goes on to its reply; what is
\* in the row was given to nobody, and what two pushes hold they read together.
THEOREM DeliveryInvariant == Spec => []DeliveryInv
<1>1. Init => DeliveryInv
  <2> SUFFICES ASSUME Init PROVE DeliveryInv
    OBVIOUS
  <2>1. /\ NoPush.phase = "idle" /\ NoPush.seen.command = 0 /\ NoDevice.command = 0
        /\ Fresh(1).command = 0
    BY DEF NoPush, Seen, NoDevice, Fresh
  <2>2. /\ pushes = [p \in Pushes |-> NoPush] /\ owed = {} /\ given = {} /\ ~duplicated
        /\ device.command = 0
    BY <2>1 DEF Init, Fresh, NoDevice
  <2> QED
    BY <2>1, <2>2 DEF DeliveryInv, CommandsReachAgent, CommandsOnce
<1>2. TypeOK /\ DeliveryInv /\ [Next]_vars => DeliveryInv'
  BY StepDelivers
<1> QED
  BY <1>1, <1>2, TypeCorrect, PTL DEF Spec

\* A queued command reaches the agent, unless another replaces it, it is queued while
\* a push consumes an earlier one, a query of the push fails after it was cleared, or a
\* deletion or a crash ends it; and it does so once, unless two pushes had read it.
THEOREM CommandsArrive == Spec => []CommandsReachAgent
<1>1. DeliveryInv => CommandsReachAgent
  BY DEF DeliveryInv
<1> QED
  BY <1>1, DeliveryInvariant, PTL

-----------------------------------------------------------------------------
(***************************************************************************)
(* Announcements and silence.                                              *)
(***************************************************************************)
\* A push stored over a snapshot speaks when the status differs from it; one that had
\* to look for the previous status is the first to speak, or counts as if none had.
LEMMA StoreSpeaks ==
  ASSUME TypeOK, SnapshotInv, NEW p \in Pushes, NEW m, NEW previous, Store(p, m, previous),
         device' = device, uptime' = uptime,
         \/ pushes[p].phase = "previous"
         \/ /\ pushes[p].phase # "previous" /\ Remembered(pushes[p].seen.id)
            /\ previous = snapshot.overall
  PROVE  SnapshotInv'
<1> DEFINE id == pushes[p].seen.id
           raced == Remembered(id) /\ (pushes[p].phase = "previous" \/ outdated)
<1>1. PICK load \in Load :
        /\ snapshot' = IF Is(id) THEN [device |-> id, age |-> 0, overall |-> load]
                                 ELSE snapshot
        /\ Is(id) => /\ silent' = 0 /\ outdated' = FALSE
                     /\ told' = IF raced THEN "none" ELSE IF load # previous THEN load ELSE told
                     /\ repeated' = (repeated \/ (load # previous /\ told = load /\ ~raced))
        /\ ~Is(id) => UNCHANGED <<silent, told, repeated, outdated>>
  BY DEF Store, voice
<1>2. CASE ~Is(id)
  BY <1>1, <1>2 DEF SnapshotInv, Is, Registered, Remembered
<1>3. CASE Is(id)
  <2>1. ~repeated /\ load # "none"
    BY DEF SnapshotInv, Load
  <2>2. ~raced => told = "none" \/ (told = snapshot.overall /\ previous = snapshot.overall)
    <3>1. CASE pushes[p].phase = "previous"
      BY <1>3, <3>1 DEF SnapshotInv, Is, Remembered
    <3>2. CASE pushes[p].phase # "previous" /\ Remembered(id) /\ previous = snapshot.overall
      BY <1>3, <3>2 DEF SnapshotInv, Is, Remembered
    <3> QED
      BY <3>1, <3>2
  <2> HIDE DEF raced
  <2>3. ~repeated' /\ (told' = "none" \/ told' = load)
    BY <1>1, <1>3, <2>1, <2>2
  <2>4. snapshot'.age = silent' /\ snapshot'.overall = load /\ snapshot'.device = device'.id
    BY <1>1, <1>3 DEF Is
  <2> QED
    BY <2>3, <2>4 DEF SnapshotInv, Is, Remembered
<1> QED
  BY <1>2, <1>3

\* Only a stored push, a look at the page, a crash and time touch snapshot and silence.
LEMMA StepSpeaks ==
  ASSUME TypeOK, SnapshotInv, [Next]_vars
  PROVE  SnapshotInv'
<1>1. /\ device \in Device /\ snapshot \in Snapshot /\ serial \in Nat
      /\ device.id \in 0 .. serial /\ snapshot.device \in 0 .. serial
      /\ StaleAfter \in Nat /\ silent \in Silence /\ uptime \in 0 .. Grace
  BY AgentDevicesAssumption, RowTypes DEF TypeOK
<1>2. ASSUME device'.id \in {device.id, 0}, UNCHANGED <<snapshot, uptime, silent, told, repeated, outdated>>
      PROVE  SnapshotInv'
  BY <1>2 DEF SnapshotInv, Is, Registered, Remembered
<1>3. ASSUME NEW p \in Pushes,
             \/ Arrive(p) \/ Record(p) \/ Consume(p) \/ FindMonitor(p) \/ FindPrevious(p)
             \/ Fail(p)
      PROVE  SnapshotInv'
  <2>1. CASE Arrive(p)
    BY <1>2, <2>1 DEF Arrive, rows, memory, voice
  <2>2. CASE Record(p)
    <3>1. CASE pushes[p].seen.id = 0 /\ ~Registered
      <4>1. /\ device' = Fresh(serial + 1) /\ silent' = StaleAfter + 1 /\ told' = "none"
            /\ UNCHANGED <<snapshot, uptime, repeated, outdated>>
        BY <2>2, <3>1 DEF Record, memory
      <4>2. device'.id = serial + 1 /\ uptime <= StaleAfter + 1
        BY <1>1, <4>1 DEF Fresh, NoDevice, Grace
      <4> QED
        BY <1>1, <4>1, <4>2 DEF SnapshotInv, Is, Remembered
    <3>2. CASE device'.id = device.id /\ UNCHANGED <<snapshot, uptime, silent, told, repeated, outdated>>
      BY <1>2, <3>2
    <3> QED
      BY <1>1, <2>2, <3>1, <3>2 DEF Record, Device, memory, voice
  <2>3. CASE Consume(p)
    <3>1. device'.id = device.id
      BY <1>1, <2>3 DEF Consume, Taken, Device
    <3> QED
      BY <1>2, <2>3, <3>1 DEF Consume, memory, voice
  <2>4. CASE FindMonitor(p)
    <3>1. device' = device /\ uptime' = uptime /\ pushes[p].phase = "store"
      BY <2>4 DEF FindMonitor, rows
    <3>2. CASE UNCHANGED <<snapshot, silent, told, repeated, outdated>>
      BY <1>2, <3>1, <3>2
    <3>3. CASE Remembered(pushes[p].seen.id)
               /\ \E m \in monitors : Store(p, m.id, snapshot.overall)
      BY <3>1, <3>3, StoreSpeaks
    <3> QED
      BY <2>4, <3>2, <3>3 DEF FindMonitor, voice
  <2>5. CASE FindPrevious(p)
    BY <2>5, StoreSpeaks DEF FindPrevious, rows
  <2>6. CASE Fail(p)
    BY <1>2, <2>6 DEF Fail, rows, memory, voice
  <2> QED
    BY <1>3, <2>1, <2>2, <2>3, <2>4, <2>5, <2>6
<1>4. CASE WriteStatus \/ LookUp \/ ReadHeartbeat \/ BeginJob \/ Restart \/ UNCHANGED vars
           \/ \E w \in workers : Check(w)
  BY <1>2, <1>4
     DEF WriteStatus, LookUp, ReadHeartbeat, BeginJob, Restart, vars, Check, rows, memory, voice
<1>5. ASSUME NEW c \in Callers, NEW todo \in Begun, Begin(c, todo)
      PROVE  SnapshotInv'
  BY <1>2, <1>5 DEF Begin, rows, memory, voice
<1>6. CASE SendCommand
  <2>1. device'.id = device.id
    BY <1>1, <1>6 DEF SendCommand, Device
  <2> QED
    BY <1>2, <1>6, <2>1 DEF SendCommand, memory, voice
<1>7. CASE Remember
  <2>1. UNCHANGED <<device, uptime, silent, told, repeated>>
    BY <1>7 DEF Remember, rows
  <2>2. CASE ~Is(reading.device)
    BY <1>2, <1>7, <2>1, <2>2 DEF Remember
  <2>3. CASE Is(reading.device)
    <3>1. /\ snapshot'.device = device.id /\ snapshot'.age = reading.age
          /\ outdated' = IF Remembered(device.id) THEN outdated \/ snapshot' # snapshot
                                                 ELSE reading.age # silent
      BY <1>7, <2>3 DEF Remember, Is
    <3>2. CASE Remembered(device.id)
      BY <2>1, <2>3, <3>1, <3>2 DEF SnapshotInv, Remembered, Is, Registered
    <3>3. CASE ~Remembered(device.id)
      BY <2>1, <2>3, <3>1, <3>3 DEF SnapshotInv, Remembered, Is, Registered
    <3> QED
      BY <3>2, <3>3
  <2> QED
    BY <2>2, <2>3
<1>8. ASSUME NEW s, NEW id, Execute(s, id), UNCHANGED <<snapshot, uptime, silent, told, repeated, outdated>>
      PROVE  SnapshotInv'
  <2>1. device'.id \in {device.id, 0}
    BY <1>8, ExecuteEffect DEF NoDevice
  <2> QED
    BY <1>2, <1>8, <2>1
<1>9. ASSUME NEW c \in Callers, CallStep(c)
      PROVE  SnapshotInv'
  BY <1>8, <1>9 DEF CallStep, memory, voice
<1>10. CASE JobStep
  BY <1>8, <1>10 DEF JobStep, memory, voice
<1>11. CASE Tick
  <2>1. /\ device'.id = device.id /\ snapshot'.device = snapshot.device
        /\ snapshot'.overall = snapshot.overall
        /\ snapshot'.age = Older(snapshot.age, StaleAfter)
        /\ silent' = Older(silent, StaleAfter) /\ UNCHANGED <<told, repeated, outdated>>
        /\ uptime' \in {uptime, uptime + 1} /\ uptime' \in 0 .. Grace
    BY <1>1, <1>11 DEF Tick, Device, Snapshot, voice, Grace
  <2>2. uptime <= silent => uptime' <= silent'
    <3>1. silent \in 0 .. StaleAfter + 1 /\ uptime \in 0 .. StaleAfter + 1
          /\ uptime' \in 0 .. StaleAfter + 1
      BY <1>1, <2>1 DEF Silence, Grace
    <3>2. silent' = IF silent \in 0 .. StaleAfter THEN silent + 1 ELSE silent
      BY <2>1 DEF Older
    <3> QED
      BY <1>1, <2>1, <3>1, <3>2
  <2> QED
    BY <2>1, <2>2 DEF SnapshotInv, Is, Registered, Remembered
<1>12. CASE Crash
  <2>1. snapshot'.device = 0 /\ uptime' = 0 /\ told' = "none" /\ UNCHANGED <<silent, repeated>>
    BY <1>12 DEF Crash, NoSnapshot
  <2>2. 0 <= silent
    BY <1>1 DEF Silence
  <2> QED
    BY <2>1, <2>2 DEF SnapshotInv, Is, Registered
<1> QED
  BY <1>3, <1>4, <1>5, <1>6, <1>7, <1>9, <1>10, <1>11, <1>12, Moves

\* A snapshot is as old as the silence and holds what was last said, unless a look-up that a
\* push overtook has written it; without one nothing was said, and the silence lasts at
\* least as long as the server runs.
THEOREM SnapshotInvariant == Spec => []SnapshotInv
<1>1. Init => SnapshotInv
  <2> SUFFICES ASSUME Init PROVE SnapshotInv
    OBVIOUS
  <2>1. snapshot.device = 0 /\ uptime = 0 /\ silent = StaleAfter + 1 /\ told = "none" /\ ~repeated
    BY DEF Init, NoSnapshot
  <2>2. uptime <= silent
    BY <2>1, AgentDevicesAssumption
  <2> QED
    BY <2>1, <2>2 DEF SnapshotInv, Is, Registered
<1>2. TypeOK /\ SnapshotInv /\ [Next]_vars => SnapshotInv'
  BY StepSpeaks
<1> QED
  BY <1>1, <1>2, TypeCorrect, PTL DEF Spec

\* In one process the pushes announce alert and up in turn, and a worker reports a
\* device offline only after silence that was too long, restarts included: unless a look-up
\* that a push overtook has put an old heartbeat over it.
THEOREM SaidIsTrue == Spec => []AnnouncementsAreTrue
<1>1. TypeOK /\ SnapshotInv => AnnouncementsAreTrue
  <2> SUFFICES ASSUME TypeOK, SnapshotInv, NEW w \in workers,
                      Is(w.device), device.status = "approved", device.updating = Never,
                      ~(outdated /\ Remembered(w.device)), Verdict(w) = Offline
               PROVE  silent > StaleAfter
    BY DEF AnnouncementsAreTrue, AnnouncementsAlternate, OfflineIsReal, SnapshotInv
  <2>1. /\ StaleAfter \in Nat /\ silent \in 0 .. StaleAfter + 1
        /\ uptime \in 0 .. StaleAfter + 1 /\ snapshot.overall \in {"up", "alert"}
        /\ Offline \in {"down", "inactive"}
    BY AgentDevicesAssumption DEF TypeOK, Silence, Grace, Snapshot, Load
  <2>2. BySnapshot(w.device) = Offline
    BY DEF Verdict
  <2>3. CASE ~Remembered(w.device)
    <3>1. ~(uptime < Grace)
      BY <2>1, <2>2, <2>3 DEF BySnapshot
    <3>2. uptime <= silent
      BY <2>3 DEF SnapshotInv, Is
    <3> QED
      BY <2>1, <3>1, <3>2 DEF Grace
  <2>4. CASE Remembered(w.device)
    <3>1. Stale
      BY <2>1, <2>2, <2>4 DEF BySnapshot
    <3>2. snapshot.age = silent
      BY <2>4 DEF SnapshotInv, Is, Remembered
    <3> QED
      BY <3>1, <3>2 DEF Stale
  <2> QED
    BY <2>3, <2>4
<1> QED
  BY <1>1, TypeCorrect, SnapshotInvariant, PTL

-----------------------------------------------------------------------------
(***************************************************************************)
(* The monitors of an approved device.                                     *)
(***************************************************************************)
\* What each call does next, and what it has left afterwards.
LEMMA CallShapes ==
  ASSUME NEW todo \in CallsLeft
  PROVE  \/ Head(todo) = "approved" /\ Len(todo) # 1 /\ Tail(todo) = <<"clear", "insert">>
         \/ Head(todo) = "clear" /\ Len(todo) # 1 /\ Tail(todo) \in {<<"insert">>, <<"drop">>}
         \/ Head(todo) = "insert" /\ Len(todo) = 1 /\ todo = <<"insert">>
         \/ Head(todo) = "activate" /\ Len(todo) # 1 /\ Tail(todo) = <<"approved">>
              /\ todo[1] = "activate"
         \/ Head(todo) = "approved" /\ Len(todo) = 1 /\ todo = <<"approved">>
         \/ Head(todo) = "suspended" /\ Len(todo) # 1 /\ Tail(todo) = <<"pause", "suspended">>
              /\ todo[1] = "suspended"
         \/ Head(todo) = "pause" /\ Len(todo) # 1 /\ Tail(todo) = <<"suspended">>
              /\ todo[1] = "pause"
         \/ Head(todo) = "suspended" /\ Len(todo) = 1 /\ todo[1] = "suspended"
         \/ Head(todo) \in {"refused", "pending", "drop"} /\ Len(todo) = 1
         \/ Head(todo) = "updating" /\ Len(todo) = 1 /\ todo = <<"updating">>
<1>1. ASSUME NEW a
      PROVE  Head(<<a>>) = a /\ Len(<<a>>) = 1 /\ <<a>>[1] = a
  OBVIOUS
<1>2. ASSUME NEW a, NEW b
      PROVE  Head(<<a, b>>) = a /\ Len(<<a, b>>) # 1 /\ <<a, b>>[1] = a /\ Tail(<<a, b>>) = <<b>>
  OBVIOUS
<1>3. ASSUME NEW a, NEW b, NEW c
      PROVE  Head(<<a, b, c>>) = a /\ Len(<<a, b, c>>) # 1 /\ <<a, b, c>>[1] = a
             /\ Tail(<<a, b, c>>) = <<b, c>>
  OBVIOUS
<1>4. CASE todo = <<"approved", "clear", "insert">>
  BY <1>3, <1>4
<1>5. CASE todo = <<"clear", "insert">>
  BY <1>2, <1>5
<1>10. CASE todo = <<"clear", "drop">>
  BY <1>2, <1>10
<1>6. CASE todo \in {<<"insert">>, <<"approved">>, <<"suspended">>, <<"updating">>}
  BY <1>1, <1>6, Zenon
<1>7. CASE todo = <<"activate", "approved">>
  BY <1>2, <1>7
<1>11. CASE todo = <<"pause", "suspended">>
  BY <1>2, <1>11
<1>8. CASE todo = <<"suspended", "pause", "suspended">>
  BY <1>3, <1>8
<1>9. CASE todo \in {<<"refused">>, <<"pending">>, <<"drop">>}
  BY <1>1, <1>9, Zenon
<1> QED
  BY <1>4, <1>5, <1>6, <1>7, <1>8, <1>9, <1>10, <1>11, Zenon DEF CallsLeft

\* What each rest of a call waits for, once a statement is executed.
LEMMA Awaits ==
  ASSUME NEW todo
  PROVE  /\ todo = <<"clear", "insert">> => Awaited(todo)'
         /\ todo = <<"drop">> => Awaited(todo)'
         /\ todo = <<"insert">> /\ monitors' = {} => Awaited(todo)'
         /\ todo = <<"approved">> /\ Monitored' => Awaited(todo)'
         /\ todo \in {<<"pause", "suspended">>, <<"suspended">>} /\ monitors' # {}
              => Awaited(todo)'
<1>1. ASSUME NEW a
      PROVE  <<a>>[1] = a
  OBVIOUS
<1>2. ASSUME NEW a, NEW b
      PROVE  <<a, b>>[1] = a
  OBVIOUS
<1> QED
  BY <1>1, <1>2 DEF Awaited

\* Awaited, told what the monitors will be.
LEMMA MonitorsAfter ==
  ASSUME NEW c \in Callers, Alone(c), \A d \in Callers \ {c} : callers'[d] = callers[d],
         \A m, n \in monitors' : m = n,
         callers'[c] = NoCall => Settled',
         \/ callers'[c] = NoCall
         \/ /\ Is(callers[c].device)' /\ Awaited(callers[c].todo)'
         \/ /\ ~Is(callers[c].device)' /\ device'.status = "pending" /\ monitors' = {}
  PROVE  MonitorsInv'
<1>1. \A d \in Callers \ {c} : callers'[d] = NoCall
  BY DEF Alone, Free
<1>2. \A d, e \in Callers : callers'[d] = NoCall \/ callers'[e] = NoCall \/ d = e
  BY <1>1
<1>3. (\A d \in Callers : callers'[d] = NoCall) => Settled'
  OBVIOUS
<1>4. \A d \in Callers : callers'[d] = NoCall \/
        (IF Is(callers[d].device) THEN Awaited(callers[d].todo)
                                  ELSE device.status = "pending" /\ monitors = {})'
  BY <1>1
<1> QED
  BY <1>2, <1>3, <1>4 DEF MonitorsInv, Free

\* What leaves calls, the device's id and status, and the number and activity of its
\* monitors alone.
LEMMA Undisturbed ==
  ASSUME MonitorsInv, UNCHANGED callers, muddled => muddled',
         device'.id = device.id, device'.status = device.status,
         monitors = {} => monitors' = {},
         \A m : monitors = {m} => \E n : monitors' = {n} /\ n.active = m.active
  PROVE  MonitorsInv'
<1> SUFFICES ASSUME ~muddled' PROVE MonitorsInv'
  BY DEF MonitorsInv
<1>1. /\ \A m, n \in monitors : m = n
      /\ \A c, d \in Callers : Free(c) \/ Free(d) \/ c = d
      /\ (\A c \in Callers : Free(c)) => Settled
      /\ \A c \in Callers : Free(c) \/
           IF Is(callers[c].device) THEN Awaited(callers[c].todo)
                                    ELSE device.status = "pending" /\ monitors = {}
  BY DEF MonitorsInv
<1>2. /\ \A m, n \in monitors' : m = n
      /\ monitors = {} <=> monitors' = {}
      /\ Monitored => Monitored'
  <2>1. CASE monitors = {}
    BY <2>1 DEF Monitored
  <2>2. CASE monitors # {}
    <3>1. PICK m : monitors = {m}
      <4>1. PICK m \in monitors : TRUE
        BY <2>2
      <4>2. monitors = {m}
        BY <1>1, <4>1
      <4> QED
        BY <4>2
    <3>2. PICK n : monitors' = {n} /\ n.active = m.active
      BY <3>1
    <3>3. Monitored => m.active
      BY <3>1 DEF Monitored
    <3> QED
      BY <3>1, <3>2, <3>3 DEF Monitored
  <2> QED
    BY <2>1, <2>2
<1>3. Settled => Settled'
  BY <1>2 DEF Settled
<1>4. ASSUME NEW todo, Awaited(todo)
      PROVE  Awaited(todo)'
  BY <1>2, <1>3, <1>4 DEF Awaited
<1>5. \A c \in Callers : Free(c)' = Free(c) /\ Is(callers[c].device)' = Is(callers[c].device)
                          /\ callers'[c] = callers[c]
  BY DEF Free, Is, Registered
<1>6. \A c \in Callers : Free(c)' \/
        (IF Is(callers[c].device) THEN Awaited(callers[c].todo)
                                  ELSE device.status = "pending" /\ monitors = {})'
  BY <1>1, <1>2, <1>4, <1>5
<1> QED
  BY <1>1, <1>2, <1>3, <1>5, <1>6 DEF MonitorsInv

\* The image of the monitors under a change of their status.
LEMMA StatusOnly ==
  ASSUME MonitorsInv, TypeOK, ~muddled, NEW id, NEW status \in RowStatus,
         monitors' = {IF m.id = id THEN [m EXCEPT !.status = status] ELSE m : m \in monitors}
  PROVE  /\ monitors = {} => monitors' = {}
         /\ \A m : monitors = {m} => \E n : monitors' = {n} /\ n.active = m.active
<1>1. ASSUME NEW m, monitors = {m}
      PROVE  \E n : monitors' = {n} /\ n.active = m.active
  <2> DEFINE n == IF m.id = id THEN [m EXCEPT !.status = status] ELSE m
  <2>1. monitors' = {n}
    BY <1>1
  <2>2. m \in Monitor
    BY <1>1, RowTypes
  <2>3. n.active = m.active
    BY <2>2 DEF Monitor
  <2> HIDE DEF n
  <2> QED
    BY <2>1, <2>3
<1> QED
  BY <1>1

\* A push changes no status of a device and none of its monitors; the row it may add
\* has an id that no call is about.
LEMMA PushMonitors ==
  ASSUME TypeOK, MonitorsInv, NEW p \in Pushes,
         \/ Arrive(p) \/ Record(p) \/ Consume(p) \/ FindMonitor(p) \/ FindPrevious(p)
         \/ Fail(p)
  PROVE  MonitorsInv'
<1>1. /\ device \in Device /\ serial \in Nat
      /\ \A c \in Callers : callers[c].device \in 0 .. serial
  BY RowTypes
<1>2. UNCHANGED <<monitors, callers, muddled>>
  BY DEF Arrive, Record, Consume, FindMonitor, FindPrevious, Fail, rows
<1>3. CASE device'.id = device.id /\ device'.status = device.status
  BY <1>2, <1>3, Undisturbed
<1>4. CASE ~Registered /\ device' = Fresh(serial + 1)
  <2>1. device'.id = serial + 1 /\ device'.status = "pending" /\ monitors = {}
    BY <1>4, RowTypes DEF Fresh, NoDevice, Registered
  <2>2. \A c \in Callers : ~Is(callers[c].device)'
    <3>1. \A c \in Callers : callers'[c].device # serial + 1
      BY <1>1, <1>2
    <3> QED
      BY <2>1, <3>1 DEF Is
  <2>3. muddled \/ \A c, d \in Callers : Free(c) \/ Free(d) \/ c = d
    BY DEF MonitorsInv
  <2>4. Settled'
    BY <2>1 DEF Settled
  <2>5. \A c \in Callers : Free(c)' = Free(c)
    BY <1>2 DEF Free
  <2> QED
    BY <1>2, <2>1, <2>2, <2>3, <2>4, <2>5 DEF MonitorsInv
<1>5. CASE Record(p)
  BY <1>1, <1>3, <1>4, <1>5 DEF Record, Device
<1>6. CASE Consume(p)
  BY <1>1, <1>3, <1>6 DEF Consume, Taken, Device
<1> QED
  BY <1>3, <1>5, <1>6 DEF Arrive, FindMonitor, FindPrevious, Fail, rows

\* A call begins with what it waits for, or muddles.
LEMMA BeginMonitors ==
  ASSUME TypeOK, MonitorsInv, NEW c \in Callers, NEW todo \in Begun, Begin(c, todo),
         todo = <<"activate", "approved">> => device.status = "suspended"
  PROVE  MonitorsInv'
<1> SUFFICES ASSUME ~muddled' PROVE MonitorsInv'
  BY DEF MonitorsInv
<1>1. /\ ~muddled /\ Alone(c) /\ (todo[1] = "suspended" => monitors # {})
      /\ Free(c) /\ Registered /\ UNCHANGED <<device, monitors, serial>>
  BY DEF Begin, rows
<1>2. /\ \A m, n \in monitors : m = n
      /\ Settled
  BY <1>1 DEF MonitorsInv, Alone
<1>3. /\ callers'[c] = [device |-> device.id, todo |-> todo]
      /\ \A d \in Callers \ {c} : callers'[d] = callers[d]
  BY DEF Begin, TypeOK
<1>4. callers'[c] # NoCall
  BY <1>1, <1>3 DEF NoCall, Registered
<1>5. Is(callers[c].device)'
  BY <1>1, <1>3 DEF Is, Registered
<1>6. Awaited(todo)'
  <2>1. ASSUME NEW a
        PROVE  <<a>>[1] = a /\ Len(<<a>>) = 1
    OBVIOUS
  <2>2. ASSUME NEW a, NEW b
        PROVE  <<a, b>>[1] = a /\ Len(<<a, b>>) = 2
    OBVIOUS
  <2>3. ASSUME NEW a, NEW b, NEW d
        PROVE  <<a, b, d>>[1] = a /\ Len(<<a, b, d>>) = 3
    OBVIOUS
  <2>4. Settled' /\ (monitors # {} => monitors' # {})
    BY <1>1, <1>2 DEF Settled, Monitored
  <2>5. CASE todo = <<"activate", "approved">>
    <3>1. monitors' # {}
      BY <1>1, <1>2, <2>5 DEF Settled
    <3> QED
      BY <2>1, <2>2, <2>5, <3>1 DEF Awaited
  <2>6. CASE todo = Approval
    BY <2>1, <2>3, <2>6 DEF Awaited, Approval
  <2>7. CASE todo = <<"suspended", "pause", "suspended">>
    BY <1>1, <2>1, <2>3, <2>4, <2>7 DEF Awaited
  <2>8. CASE todo = <<"suspended">>
    BY <1>1, <2>1, <2>4, <2>8 DEF Awaited
  <2>9. CASE todo \in {<<"refused">>, <<"pending">>}
    BY <2>1, <2>9 DEF Awaited
  <2>10. CASE todo = <<"clear", "drop">>
    BY <2>1, <2>2, <2>10 DEF Awaited
  <2>11. CASE todo = <<"updating">>
    BY <2>1, <2>4, <2>11 DEF Awaited
  <2> QED
    BY <2>5, <2>6, <2>7, <2>8, <2>9, <2>10, <2>11 DEF Begun
<1>7. Awaited(callers[c].todo)'
  BY <1>3, <1>6 DEF Awaited, Settled, Monitored
<1>8. \A m, n \in monitors' : m = n
  BY <1>1, <1>2
<1> QED
  BY <1>1, <1>3, <1>4, <1>5, <1>7, <1>8, MonitorsAfter

\* A call leaves the monitors as its rest, or the end of all calls, relies on.
LEMMA CallMonitors ==
  ASSUME TypeOK, MonitorsInv, NEW c \in Callers, CallStep(c)
  PROVE  MonitorsInv'
<1> SUFFICES ASSUME ~muddled' PROVE MonitorsInv'
  BY DEF MonitorsInv
<1>0. PICK id \in Ids, todo \in CallsLeft : callers[c] = [device |-> id, todo |-> todo]
  <2>1. callers[c] \in Call
    BY DEF TypeOK, CallStep, Free
  <2> QED
    BY <2>1 DEF Call
<1>1. /\ callers \in [Callers -> Call \union {NoCall}] /\ ~Free(c)
      /\ callers[c].device = id /\ callers[c].todo = todo
      /\ device \in Device /\ monitors \subseteq Monitor /\ serial \in Nat
  BY <1>0, RowTypes DEF TypeOK, CallStep
<1>2. /\ Execute(Head(todo), id)
      /\ callers' = [callers EXCEPT ![c] =
           IF Len(todo) = 1 THEN NoCall ELSE [callers[c] EXCEPT !.todo = Tail(todo)]]
      /\ muddled' = IF Head(todo) = "clear" /\ Alone(c) /\ Is(id) THEN FALSE
                    ELSE muddled \/ (Head(todo) = "insert" /\ monitors' = monitors)
  BY <1>1 DEF CallStep
<1>3. /\ \A d \in Callers \ {c} : callers'[d] = callers[d]
      /\ Len(todo) = 1 => callers'[c] = NoCall
      /\ Len(todo) # 1 => callers'[c].device = id /\ callers'[c].todo = Tail(todo)
  BY <1>0, <1>1, <1>2
<1>4. Alone(c)
  BY <1>1, <1>2 DEF MonitorsInv, Alone
<1>5. \/ Head(todo) = "clear" /\ Is(id)
      \/ /\ ~muddled
         /\ Head(todo) = "insert" => monitors' # monitors
         /\ \A m, n \in monitors : m = n
         /\ IF Is(id) THEN Awaited(todo) ELSE device.status = "pending" /\ monitors = {}
  BY <1>1, <1>2 DEF MonitorsInv
<1>6. CASE ~Is(id)
  <2>1. UNCHANGED rows
    BY <1>2, <1>6, ExecuteEffect
  <2>2. \/ callers'[c] = NoCall
        \/ device'.status = "pending" /\ monitors' = {} /\ ~Is(callers[c].device)'
    BY <1>3, <1>5, <1>6, <2>1 DEF rows, Is, Registered
  <2>3. Settled' /\ \A m, n \in monitors' : m = n
    BY <1>5, <1>6, <2>1 DEF rows, Settled
  <2> QED
    BY <1>3, <1>4, <2>2, <2>3, MonitorsAfter
<1>7. ASSUME Is(id), \A m, n \in monitors' : m = n,
             IF Len(todo) = 1 THEN Settled' ELSE device'.id = device.id /\ Awaited(Tail(todo))'
      PROVE  MonitorsInv'
  <2>1. CASE Len(todo) = 1
    BY <1>3, <1>4, <1>7, <2>1, MonitorsAfter
  <2>2. CASE Len(todo) # 1
    <3>1. Is(callers[c].device)' /\ callers'[c] # NoCall
      BY <1>3, <1>7, <2>2 DEF Is, Registered, NoCall
    <3>2. Awaited(callers[c].todo)'
      BY <1>3, <1>7, <2>2 DEF Awaited, Settled, Monitored
    <3> QED
      BY <1>3, <1>4, <1>7, <3>1, <3>2, MonitorsAfter
  <2> QED
    BY <2>1, <2>2
<1>8. ASSUME Is(id), Head(todo) \in DeviceStatus
      PROVE  /\ device'.id = device.id /\ device'.status = Head(todo) /\ monitors' = monitors
             /\ \A m, n \in monitors : m = n
             /\ Awaited(todo) /\ (Monitored => Monitored')
  <2>1. device' = [device EXCEPT !.status = Head(todo)] /\ monitors' = monitors
    BY <1>2, <1>8 DEF Execute, SetStatus, DeviceStatus
  <2> QED
    BY <1>1, <1>5, <1>8, <2>1 DEF Device, DeviceStatus, Monitored
<1>9. ASSUME Is(id), NEW active \in BOOLEAN, NEW status, SetMonitors(id, active, status),
             monitors # {}, \A m, n \in monitors : m = n
      PROVE  /\ device' = device /\ monitors' # {} /\ \A m, n \in monitors' : m = n
             /\ active => Monitored'
  <2>1. PICK m \in monitors : monitors = {m}
    BY <1>9
  <2>2. [m EXCEPT !.active = active, !.status = Column(status)].active = active
    BY <1>1, <2>1 DEF Monitor
  <2>3. monitors' = {[m EXCEPT !.active = active, !.status = Column(status)]} /\ device' = device
    BY <1>9, <2>1 DEF SetMonitors
  <2> QED
    BY <2>2, <2>3 DEF Monitored
<1>10. CASE Is(id)
  <2>1. CASE Head(todo) = "approved" /\ Len(todo) # 1 /\ Tail(todo) = <<"clear", "insert">>
    BY <1>7, <1>8, <1>10, <2>1, Awaits DEF DeviceStatus
  <2>2. CASE Head(todo) = "clear" /\ Len(todo) # 1 /\ Tail(todo) \in {<<"insert">>, <<"drop">>}
    <3>1. monitors' = {} /\ device' = device
      BY <1>2, <1>10, <2>2 DEF Execute, DeviceStatus
    <3>2. Awaited(Tail(todo))'
      BY <2>2, <3>1, Awaits
    <3> QED
      BY <1>7, <1>10, <2>2, <3>1, <3>2
  <2>3. CASE Head(todo) = "insert" /\ Len(todo) = 1 /\ todo = <<"insert">>
    <3>1. monitors = {} /\ monitors' # monitors
      BY <1>5, <1>10, <2>3 DEF Awaited
    <3>2. InsertMonitor(id)
      BY <1>2, <2>3, <3>1 DEF Execute, DeviceStatus, rows
    <3>3. \E n : n.active /\ monitors' = {n}
      BY <3>1, <3>2 DEF InsertMonitor
    <3>4. Monitored' /\ (\A m, n \in monitors' : m = n) /\ monitors' # {}
      BY <3>3 DEF Monitored
    <3>5. Settled'
      BY <3>4 DEF Settled
    <3> QED
      BY <1>7, <1>10, <2>3, <3>4, <3>5
  <2>4. CASE Head(todo) = "activate" /\ Len(todo) # 1 /\ Tail(todo) = <<"approved">>
             /\ todo[1] = "activate"
    <3>1. SetMonitors(id, TRUE, "pending")
      BY <1>2, <2>4 DEF Execute, DeviceStatus
    <3>2. monitors # {} /\ \A m, n \in monitors : m = n
      BY <1>5, <1>10, <2>4 DEF Awaited
    <3>3. device' = device /\ Monitored' /\ \A m, n \in monitors' : m = n
      BY <1>9, <1>10, <3>1, <3>2
    <3> QED
      BY <1>7, <1>10, <2>4, <3>3, Awaits
  <2>5. CASE Head(todo) = "approved" /\ Len(todo) = 1 /\ todo = <<"approved">>
    <3>1. Monitored
      BY <1>8, <1>10, <2>5 DEF Awaited, DeviceStatus
    <3>2. device'.status = "approved" /\ Monitored' /\ \A m, n \in monitors' : m = n
      BY <1>8, <1>10, <2>5, <3>1 DEF DeviceStatus
    <3>3. Settled'
      BY <3>2 DEF Settled
    <3> QED
      BY <1>7, <1>10, <2>5, <3>2, <3>3
  <2>6. CASE Head(todo) = "suspended" /\ Len(todo) # 1 /\ Tail(todo) = <<"pause", "suspended">>
             /\ todo[1] = "suspended"
    <3>1. monitors # {}
      BY <1>8, <1>10, <2>6 DEF Awaited, DeviceStatus
    <3> QED
      BY <1>7, <1>8, <1>10, <2>6, <3>1, Awaits DEF DeviceStatus
  <2>7. CASE Head(todo) = "pause" /\ Len(todo) # 1 /\ Tail(todo) = <<"suspended">>
             /\ todo[1] = "pause"
    <3>1. SetMonitors(id, FALSE, "paused")
      BY <1>2, <2>7 DEF Execute, DeviceStatus
    <3>2. monitors # {} /\ \A m, n \in monitors : m = n
      BY <1>5, <1>10, <2>7 DEF Awaited
    <3>3. device' = device /\ monitors' # {} /\ \A m, n \in monitors' : m = n
      BY <1>9, <1>10, <3>1, <3>2
    <3> QED
      BY <1>7, <1>10, <2>7, <3>3, Awaits
  <2>8. CASE Head(todo) = "suspended" /\ Len(todo) = 1 /\ todo[1] = "suspended"
    <3>1. monitors # {}
      BY <1>8, <1>10, <2>8 DEF Awaited, DeviceStatus
    <3>2. device'.status = "suspended" /\ monitors' # {} /\ \A m, n \in monitors' : m = n
      BY <1>8, <1>10, <2>8, <3>1 DEF DeviceStatus
    <3>3. Settled'
      BY <3>2 DEF Settled
    <3> QED
      BY <1>7, <1>10, <2>8, <3>2, <3>3
  <2>9. CASE Head(todo) \in {"refused", "pending"} /\ Len(todo) = 1
    <3>1. device'.status \in {"refused", "pending"} /\ \A m, n \in monitors' : m = n
      BY <1>8, <1>10, <2>9 DEF DeviceStatus
    <3>2. Settled'
      BY <3>1 DEF Settled
    <3> QED
      BY <1>7, <1>10, <2>9, <3>1, <3>2
  <2>10. CASE Head(todo) = "drop" /\ Len(todo) = 1
    <3>1. device' = NoDevice /\ monitors' = {}
      BY <1>2, <1>10, <2>10 DEF Execute, DeviceStatus, DropDevice
    <3>2. Settled'
      BY <3>1 DEF Settled, NoDevice
    <3> QED
      BY <1>7, <1>10, <2>10, <3>1, <3>2
  <2>11. CASE Head(todo) = "updating" /\ Len(todo) = 1 /\ todo = <<"updating">>
    <3>1. device' = [device EXCEPT !.updating = 0] /\ monitors' = monitors
      BY <1>2, <1>10, <2>11 DEF Execute, DeviceStatus, SetUpdating
    <3>2. device'.status = device.status
      BY <1>1, <3>1 DEF Device
    <3>3. Settled /\ \A m, n \in monitors : m = n
      BY <1>5, <1>10, <2>11 DEF Awaited
    <3>4. Settled'
      BY <3>1, <3>2, <3>3 DEF Settled, Monitored
    <3> QED
      BY <1>7, <1>10, <2>11, <3>1, <3>3, <3>4
  <2> QED
    BY <2>1, <2>2, <2>3, <2>4, <2>5, <2>6, <2>7, <2>8, <2>9, <2>10, <2>11, CallShapes
<1> QED
  BY <1>6, <1>10

\* The clean-up job takes a device whole, or leaves its monitors alone.
LEMMA JobMonitors ==
  ASSUME TypeOK, MonitorsInv, JobStep
  PROVE  MonitorsInv'
<1> SUFFICES ASSUME ~muddled' PROVE MonitorsInv'
  BY DEF MonitorsInv
<1>0. PICK id \in Ids, todo \in JobsLeft : job = [device |-> id, todo |-> todo]
  <2>1. job \in JobCall
    BY DEF TypeOK, JobStep
  <2> QED
    BY <2>1 DEF JobCall
<1>1. /\ Execute(Head(todo), id) /\ Head(todo) # "clear" /\ ~muddled /\ UNCHANGED callers
      /\ device \in Device
  BY <1>0, RowTypes DEF JobStep
<1>2. Head(todo) \in {"drop", "settle"}
  <2>1. Head(<<"clear", "drop">>) = "clear" /\ Head(<<"drop">>) = "drop"
        /\ Head(<<"settle">>) = "settle"
    OBVIOUS
  <2> QED
    BY <1>1, <2>1, Zenon DEF JobsLeft
<1>3. CASE UNCHANGED rows
  <2>1. \A m : monitors = {m} => \E n : monitors' = {n} /\ n.active = m.active
    BY <1>3 DEF rows
  <2> QED
    BY <1>1, <1>3, <2>1, Undisturbed DEF rows
<1>4. CASE Head(todo) = "drop" /\ Is(id)
  <2>1. device' = NoDevice /\ monitors' = {}
    BY <1>1, <1>4 DEF Execute, DeviceStatus, DropDevice
  <2>2. device'.status = "pending" /\ \A c \in Callers : ~Is(callers[c].device)'
    BY <2>1 DEF NoDevice, Is, Registered
  <2>3. Settled'
    BY <2>2 DEF Settled
  <2>4. \A c, d \in Callers : Free(c)' \/ Free(d)' \/ c = d
    BY <1>1 DEF MonitorsInv, Free
  <2> QED
    BY <2>1, <2>2, <2>3, <2>4 DEF MonitorsInv
<1>5. CASE Head(todo) = "settle" /\ Is(id)
  <2>1. device' = [device EXCEPT !.updating = Never] /\ monitors' = monitors
    BY <1>1, <1>5 DEF Execute, DeviceStatus, SetUpdating
  <2>2. device'.id = device.id /\ device'.status = device.status
    BY <1>1, <2>1 DEF Device
  <2>3. \A m : monitors = {m} => \E n : monitors' = {n} /\ n.active = m.active
    BY <2>1
  <2> QED
    BY <1>1, <2>1, <2>2, <2>3, Undisturbed
<1> QED
  BY <1>1, <1>2, <1>3, <1>4, <1>5, ExecuteEffect

\* Every step leaves the monitors so.
LEMMA StepMonitors ==
  ASSUME TypeOK, MonitorsInv, [Next]_vars
  PROVE  MonitorsInv'
<1> SUFFICES ASSUME ~muddled' PROVE MonitorsInv'
  BY DEF MonitorsInv
<1>1. device \in Device /\ monitors \subseteq Monitor
  BY RowTypes
<1>2. ASSUME UNCHANGED <<callers, muddled, monitors>>, device'.id = device.id,
             device'.status = device.status
      PROVE  MonitorsInv'
  <2>1. \A m : monitors = {m} => \E n : monitors' = {n} /\ n.active = m.active
    BY <1>2
  <2> QED
    BY <1>2, <2>1, Undisturbed
<1>3. CASE LookUp \/ ReadHeartbeat \/ Remember \/ BeginJob \/ Restart \/ UNCHANGED vars
  BY <1>2, <1>3 DEF LookUp, ReadHeartbeat, Remember, BeginJob, Restart, vars, rows
<1>4. CASE WriteStatus
  <2>1. PICK w \in writes :
          \/ monitors' = monitors
          \/ monitors' = {IF m.id = w.monitor THEN [m EXCEPT !.status = w.status] ELSE m
                            : m \in monitors}
    BY <1>4 DEF WriteStatus
  <2>2. w.status \in RowStatus /\ UNCHANGED <<device, callers, muddled>>
    BY <1>4 DEF WriteStatus, TypeOK
  <2> QED
    BY <1>2, <2>1, <2>2, StatusOnly, Undisturbed
<1>5. ASSUME NEW w \in workers, Check(w)
      PROVE  MonitorsInv'
  <2>1. UNCHANGED <<device, callers, muddled>>
        /\ \/ monitors' = monitors
           \/ monitors' = {IF m.id = w.monitor THEN [m EXCEPT !.status = Column(Verdict(w))] ELSE m
                             : m \in monitors}
    BY <1>5 DEF Check
  <2>2. Column(Verdict(w)) \in RowStatus
    BY DEF Column, RowStatus
  <2> QED
    BY <1>2, <2>1, <2>2, StatusOnly, Undisturbed
<1>6. CASE SendCommand
  <2>1. device'.id = device.id /\ device'.status = device.status
    BY <1>1, <1>6 DEF SendCommand, Device
  <2> QED
    BY <1>2, <1>6, <2>1 DEF SendCommand
<1>7. CASE Tick
  <2>1. device'.id = device.id /\ device'.status = device.status
    BY <1>1, <1>7 DEF Tick, Device
  <2> QED
    BY <1>2, <1>7, <2>1 DEF Tick
<1>8. CASE Crash
  <2>1. ~muddled /\ (\A c \in Callers : Free(c)) /\ UNCHANGED <<device, monitors>>
        /\ \A c \in Callers : callers'[c] = NoCall
    BY <1>8 DEF Crash, rows
  <2>2. (\A m, n \in monitors : m = n) /\ Settled
    BY <2>1 DEF MonitorsInv
  <2>3. Settled'
    BY <2>1, <2>2 DEF Settled, Monitored
  <2> QED
    BY <2>1, <2>2, <2>3 DEF MonitorsInv, Free
<1> QED
  BY <1>3, <1>4, <1>5, <1>6, <1>7, <1>8, Moves, PushMonitors, BeginMonitors, CallMonitors,
     JobMonitors

\* Calls that muddle nothing leave at most one monitor: none is missing once they are
\* over, and what a call in between relies on is there.
THEOREM MonitorsInvariant == Spec => []MonitorsInv
<1>1. Init => MonitorsInv
  <2> SUFFICES ASSUME Init PROVE MonitorsInv
    OBVIOUS
  <2>1. (\A c \in Callers : Free(c)) /\ \A m, n \in monitors : m = n
    BY DEF Init, Free
  <2>2. Settled
    <3>1. CASE device = NoDevice
      BY <3>1 DEF Settled, NoDevice
    <3>2. CASE monitors = {[id |-> 2, active |-> TRUE, status |-> "other"]}
      BY <3>2 DEF Settled, Monitored
    <3> QED
      BY <3>1, <3>2 DEF Init
  <2> QED
    BY <2>1, <2>2 DEF MonitorsInv
<1>2. TypeOK /\ MonitorsInv /\ [Next]_vars => MonitorsInv'
  BY StepMonitors
<1> QED
  BY <1>1, <1>2, TypeCorrect, PTL DEF Spec

\* An approved device has one monitor, an active one, once its calls are over, unless
\* calls overlapped, failed or were cut short since one alone cleared its monitors.
THEOREM ApprovedAreMonitored == Spec => []ApprovedIsMonitored
<1>1. MonitorsInv => ApprovedIsMonitored
  BY DEF MonitorsInv, ApprovedIsMonitored, Settled, Monitored
<1> QED
  BY <1>1, MonitorsInvariant, PTL
=============================================================================
