---------------------------- MODULE AgentDevices ----------------------------
(***************************************************************************)
(* One agent device, known by its uuid: its row, its agent monitors, the   *)
(* snapshot of its last push, and those who work on them: overlapping      *)
(* pushes of the agent, administrators, the clean-up job and the worker    *)
(* that looks for silence.  A handler is split at every await whose answer *)
(* it uses later; the statements of an administrator's call follow one     *)
(* another while others run in between.                                    *)
(*                                                                         *)
(* The metrics of a push are abstracted to what the thresholds make of     *)
(* them.  What the worker's verdict does to the status column and to the   *)
(* notifications is MonitorWorker; here it may or may not write the column.*)
(***************************************************************************)
EXTENDS Integers, Sequences, FiniteSets

CONSTANTS
  Pushes,       \* pushes that may overlap
  Callers,      \* calls of administrators that may overlap
  StaleAfter,   \* effective check interval times missed pushes, in ticks
  UpdateWindow, \* the ten minutes of an update or of an uninstallation, in ticks
  Uninstalls,   \* the commands that are 'uninstall'
  Offline,      \* verdict on silence: 'down', or 'inactive' without monitoring
  MaxCalls      \* bound: calls of administrators, look-ups, failing pushes and crashes

ASSUME AgentDevicesAssumption ==
  /\ StaleAfter \in Nat \ {0} /\ UpdateWindow \in Nat \ {0} /\ MaxCalls \in Nat
  /\ Pushes \subseteq Nat
  /\ Offline \in {"down", "inactive"} /\ Uninstalls \subseteq Nat

VARIABLES
  device,    \* the agent_devices row of the uuid
  monitors,  \* the agent monitors of that row
  serial,    \* ids given to rows
  alive,     \* the server process runs
  uptime,    \* its age
  snapshot,  \* agentPushData of the device
  workers,   \* AgentMonitorWorkers: the monitor and the device of each
  pushes,    \* the pushes being handled
  callers,   \* statements left of each call
  job,       \* statements left of the clean-up job
  writes,    \* status updates sent and not awaited
  reading,   \* the look-up of a page that found no snapshot
  calls,     \* what MaxCalls bounds, so far
  focus      \* bound: a behaviour has overlapping and failing pushes, administrators
             \* or look-ups

(***************************************************************************)
(* History, read by the properties only.                                   *)
(***************************************************************************)
VARIABLES
  owed,      \* commands queued, and neither in a reply nor ended otherwise
  given,     \* commands put in a reply
  shared,    \* commands that a push read while another held them
  duplicated, \* a command was put in a second reply without having been shared
  silent,    \* age of the last push stored
  told,      \* the last status announced by a push in this process
  repeated,  \* a push announced what the one before it had announced
  outdated,  \* a look-up replaced the snapshot by an earlier push than the last
  reported,  \* the last verdict was offline, and no push was stored since
  muddled    \* calls overlapped, were cut short or failed since a call alone cleared
             \* the monitors

rows   == <<device, monitors, serial>>
memory == <<snapshot, workers, reading>>
voice  == <<told, repeated, outdated>>
delivery == <<owed, given, shared, duplicated>>
vars == <<rows, alive, uptime, memory, pushes, callers, job, writes, calls,
          focus, delivery, silent, reported, voice, muddled>>

Focus == {"overlaps", "administration", "pages"}

Grace == StaleAfter + 1
Never == -1

\* Ages are told apart up to the first that is too old.
Older(a, bound) == IF a \in 0 .. bound THEN a + 1 ELSE a
Silence == 0 .. StaleAfter + 1
Since   == Never .. UpdateWindow + 1

Ids == Nat
Commands == 0 .. MaxCalls          \* 0: none
DeviceStatus == {"pending", "approved", "refused", "suspended"}
Load == {"up", "alert"}            \* a push within, or beyond, the thresholds

\* monitors.status, as far as startAll and _storeMetricsAsHeartbeat tell it apart.
RowStatus == {"alert", "paused", "other"}
Column(status) == IF status \in {"alert", "paused"} THEN status ELSE "other"

\* What can be left of an administrator's call, and of the job.
CallsLeft ==
  {<<"approved", "clear", "insert">>, <<"clear", "insert">>, <<"insert">>,
   <<"activate", "approved">>, <<"approved">>,
   <<"suspended", "pause", "suspended">>, <<"pause", "suspended">>, <<"suspended">>,
   <<"refused">>, <<"pending">>,
   <<"clear", "drop">>, <<"drop">>, <<"updating">>}
JobsLeft == {<<"clear", "drop">>, <<"drop">>, <<"settle">>}

Device == [id : Ids, status : DeviceStatus, command : Commands,
           updating : Since, uninstall : Since]
NoDevice == [id |-> 0, status |-> "pending", command |-> 0,
             updating |-> Never, uninstall |-> Never]
Fresh(id) == [NoDevice EXCEPT !.id = id]

Monitor == [id : Ids, active : BOOLEAN, status : RowStatus]
Snapshot == [device : Ids, age : Silence, overall : Load]
NoSnapshot == [device |-> 0, age |-> 0, overall |-> "up"]

\* What a push needs of the row it has read.
Seen(d) == [id |-> d.id, status |-> d.status, command |-> d.command,
            updated |-> d.updating # Never]
Push == [phase : {"idle", "record", "consume", "store", "previous"},
         seen : [id : Ids, status : DeviceStatus, command : Commands, updated : BOOLEAN],
         monitor : Ids]
NoPush == [phase |-> "idle", seen |-> Seen(NoDevice), monitor |-> 0]
Call == [device : Ids, todo : CallsLeft]
JobCall == [device : Ids, todo : JobsLeft]
NoCall == [device |-> 0, todo |-> <<>>]
Worker == [monitor : Ids, device : Ids]
Reading == [stage : {"idle", "asked", "answered"}, device : Ids, age : Silence,
            overall : Load]
NoReading == [stage |-> "idle", device |-> 0, age |-> 0, overall |-> "up"]

TypeOK ==
  /\ device \in Device /\ monitors \subseteq Monitor /\ serial \in Ids
  /\ device.id = 0 => device = NoDevice /\ monitors = {}   \* the foreign key of monitors
  /\ {device.id, snapshot.device, reading.device} \union {callers[c].device : c \in Callers}
       \subseteq 0 .. serial
  /\ alive \in BOOLEAN /\ uptime \in 0 .. Grace
  /\ snapshot \in Snapshot /\ workers \subseteq Worker /\ reading \in Reading
  /\ pushes \in [Pushes -> Push]
  /\ callers \in [Callers -> Call \union {NoCall}] /\ job \in JobCall \union {NoCall}
  /\ writes \subseteq [monitor : Ids, status : RowStatus]
  /\ calls \in 0 .. MaxCalls /\ focus \in Focus
  /\ owed \union given \union shared \subseteq Commands /\ duplicated \in BOOLEAN
  /\ silent \in Silence
  /\ told \in Load \union {"none"} 
  /\ repeated \in BOOLEAN /\ outdated \in BOOLEAN
  /\ reported \in BOOLEAN /\ muddled \in BOOLEAN

\* An agent nobody has heard of, or one approved before the server started.
Init ==
  /\ \/ device = NoDevice /\ monitors = {} /\ serial = 0 /\ workers = {}
     \/ /\ device = [Fresh(1) EXCEPT !.status = "approved"]
        /\ monitors = {[id |-> 2, active |-> TRUE, status |-> "other"]}
        /\ serial = 2
        /\ workers = {[monitor |-> 2, device |-> 1]}
  /\ alive = TRUE /\ uptime = 0
  /\ snapshot = NoSnapshot /\ reading = NoReading
  /\ pushes = [p \in Pushes |-> NoPush]
  /\ callers = [c \in Callers |-> NoCall] /\ job = NoCall
  /\ writes = {} /\ calls = 0 /\ focus \in Focus
  /\ owed = {} /\ given = {} /\ shared = {} /\ duplicated = FALSE
  /\ silent = StaleAfter + 1
  /\ told = "none" /\ repeated = FALSE /\ outdated = FALSE
  /\ reported = FALSE /\ muddled = FALSE

Registered == device.id # 0
Is(id) == Registered /\ device.id = id
Idle(p) == pushes[p].phase = "idle"
Free(c) == callers[c] = NoCall

-----------------------------------------------------------------------------
(***************************************************************************)
(* handlePush.                                                             *)
(***************************************************************************)

\* The commands that pushes have read.
Held == {pushes[q].seen.command : q \in Pushes} \ {0}

\* getDeviceByUuid.
Arrive(p) ==
  /\ alive /\ Idle(p)
  /\ \A q \in Pushes : q < p => ~Idle(q) /\ focus = "overlaps"
  /\ pushes' = [pushes EXCEPT ![p] = [phase |-> "record", seen |-> Seen(device),
                                             monitor |-> 0]]
  /\ shared' = shared \union (Held \intersect {device.command})
  /\ UNCHANGED <<rows, alive, uptime, memory, callers, job, writes, calls,
                 owed, given, duplicated, silent, reported, voice, muddled, focus>>

\* A command goes out in a reply.
Give(command) ==
  /\ given' = given \union ({command} \ {0})
  /\ duplicated' = (duplicated \/ command \in given \ shared)
  /\ UNCHANGED shared

\* The reply, which the hub drops when the channel has closed meanwhile.
Reply(p) ==
  /\ pushes' = [pushes EXCEPT ![p] = NoPush]
  /\ owed' = owed \ {pushes[p].seen.command}
  /\ Give(pushes[p].seen.command)

Proceed(p, phase) ==
  /\ pushes' = [pushes EXCEPT ![p] =
                  IF phase = "idle" THEN NoPush ELSE [@ EXCEPT !.phase = phase]]
  /\ UNCHANGED delivery

\* Mutant of Rejected: a suspended device is told so after its command is consumed.
RejectedRefused(seen) == seen.status = "refused"

\* Refused and suspended devices get no further, and keep their command.
Rejected(seen) == seen.status \in {"refused", "suspended"}

\* The row is inserted, or its metadata updated; the push goes on with the row
\* as it was read, and with the row's absence when the insert fails.
Record(p) ==
  LET seen == pushes[p].seen IN
  /\ pushes[p].phase = "record"
  /\ \/ /\ seen.id = 0
        /\ IF Registered
             THEN UNCHANGED <<device, serial, silent, reported, voice>>
             ELSE /\ serial' = serial + 1
                  /\ device' = Fresh(serial + 1)
                  /\ silent' = StaleAfter + 1
                  /\ told' = "none"
                  /\ UNCHANGED <<reported, repeated, outdated>>
        /\ Proceed(p, "idle")
     \/ /\ seen.id # 0
        /\ device' = IF Is(seen.id) /\ seen.updated
                       THEN [device EXCEPT !.updating = Never] ELSE device
        /\ \/ Rejected(seen) /\ Proceed(p, "idle")
           \/ ~Rejected(seen) /\ seen.command # 0 /\ Proceed(p, "consume")
           \/ ~Rejected(seen) /\ seen.command = 0
              /\ Proceed(p, IF seen.status = "pending" THEN "idle" ELSE "store")
        /\ UNCHANGED <<serial, silent, reported, voice>>
  /\ UNCHANGED <<monitors, alive, uptime, memory, callers, job, writes, calls,
                 muddled, focus>>

\* Commands of pushes that have cleared the row and not replied yet.
Carried == {pushes[p].seen.command :
             p \in {q \in Pushes : pushes[q].phase \in {"store", "previous"}}}

\* Mutant of Taken: the delivery is dated, the command is left.
TakenDatedOnly(command) ==
  [device EXCEPT !.uninstall = IF command \in Uninstalls THEN 0 ELSE @]

\* The row without its command.
Taken(command) ==
  [device EXCEPT !.command = 0,
                 !.uninstall = IF command \in Uninstalls THEN 0 ELSE @]

\* The command that was read is cleared, whatever the row holds by now, and the
\* delivery of an uninstallation is dated.  A pending device is answered at once,
\* with the command; one neither pending nor approved would be answered without.
Consume(p) ==
  LET seen == pushes[p].seen
      raced == IF Is(seen.id) THEN {device.command} \ {seen.command} ELSE {}
  IN
  /\ pushes[p].phase = "consume"
  /\ device' = IF Is(seen.id) THEN Taken(seen.command) ELSE device
  /\ IF seen.status = "approved"
       THEN /\ pushes' = [pushes EXCEPT ![p].phase = "store"]
            /\ owed' = owed \ raced
            /\ UNCHANGED <<given, shared, duplicated>>
       ELSE /\ pushes' = [pushes EXCEPT ![p] = NoPush]
            /\ owed' = owed \ (raced \union
                 (IF seen.status = "pending" THEN {seen.command} ELSE {}))
            /\ Give(IF seen.status = "pending" THEN seen.command ELSE 0)
  /\ UNCHANGED <<monitors, serial, alive, uptime, memory, callers, job, writes,
                 calls, silent, reported, voice, muddled, focus>>

\* A query of the push fails: no reply goes out, and a command that was cleared is
\* gone (the 500 of the route, the catch of the hub's _handleHeartbeat).
Fail(p) ==
  /\ ~Idle(p) /\ focus = "overlaps" /\ calls < MaxCalls
  /\ calls' = calls + 1
  /\ pushes' = [pushes EXCEPT ![p] = NoPush]
  /\ owed' = IF pushes[p].phase \in {"store", "previous"}
               THEN owed \ {pushes[p].seen.command} ELSE owed
  /\ UNCHANGED <<rows, alive, uptime, memory, callers, job, writes, given, shared,
                 duplicated, silent, reported, voice, muddled, focus>>

\* Mutant of Remembered: the previous status always comes from the column.
RememberedNever(id) == FALSE

Remembered(id) == snapshot.device = id

\* From the snapshot to the reply, without an await: memory first, the status
\* column behind, the announcement when the status has changed.  The metrics lie
\* within the thresholds or beyond; register sends none at all on behalf of the
\* agent that connects, and what is not measured exceeds nothing.
Store(p, m, previous) == \E load \in Load :
  LET announces == load # previous
      id == pushes[p].seen.id
      here == Is(id)   \* the entry of a deleted device is never read again
      raced == Remembered(id) /\ (pushes[p].phase = "previous" \/ outdated)
  IN
  /\ snapshot' = IF here THEN [device |-> id, age |-> 0, overall |-> load] ELSE snapshot
  /\ writes' = writes \union {[monitor |-> m, status |-> Column(load)]}
  /\ IF here
       THEN /\ silent' = 0
            /\ reported' = FALSE
            /\ told' = IF raced THEN "none" ELSE IF announces THEN load ELSE told
            /\ repeated' = (repeated \/ (announces /\ told = load /\ ~raced))
            /\ outdated' = FALSE
       ELSE UNCHANGED <<silent, reported, voice>>
  /\ Reply(p)

\* The active monitor of the device is looked for.
FindMonitor(p) ==
  LET id == pushes[p].seen.id
      found == {m \in monitors : m.active /\ Is(id)}
  IN
  /\ pushes[p].phase = "store"
  /\ \/ /\ found = {}
        /\ Reply(p)
        /\ UNCHANGED <<snapshot, writes, silent, reported, voice>>
     \/ \E m \in found :
          IF Remembered(id)
            THEN Store(p, m.id, snapshot.overall)
            ELSE /\ pushes' = [pushes EXCEPT ![p].phase = "previous", ![p].monitor = m.id]
                 /\ UNCHANGED <<snapshot, writes, silent, reported, voice, delivery>>
  /\ UNCHANGED <<rows, alive, uptime, workers, reading, callers, job, calls,
                 muddled, focus>>

\* After a restart the previous status is the column's.
FindPrevious(p) ==
  LET m == pushes[p].monitor
      alerting == \E r \in monitors : r.id = m /\ r.status = "alert"
  IN
  /\ pushes[p].phase = "previous"
  /\ Store(p, m, IF alerting THEN "alert" ELSE "up")
  /\ UNCHANGED <<rows, alive, uptime, workers, reading, callers, job, calls,
                 muddled, focus>>

\* The status update that nobody awaits, and whose failure is logged.
WriteStatus ==
  \E w \in writes :
    /\ \/ monitors' = {IF m.id = w.monitor THEN [m EXCEPT !.status = w.status] ELSE m
                         : m \in monitors}
       \/ UNCHANGED monitors
    /\ writes' = writes \ {w}
    /\ UNCHANGED <<device, serial, alive, uptime, memory, pushes, callers, job,
                   calls, delivery, silent, reported, voice, muddled, focus>>

-----------------------------------------------------------------------------
(***************************************************************************)
(* Administrators, the clean-up job and the agent's announcement of an     *)
(* update: each a few statements about the device with one id.             *)
(***************************************************************************)
SetStatus(id, status) ==
  /\ device' = IF Is(id) THEN [device EXCEPT !.status = status] ELSE device
  /\ UNCHANGED <<monitors, serial>>

SetMonitors(id, active, status) ==
  /\ monitors' = IF Is(id)
       THEN {[m EXCEPT !.active = active, !.status = Column(status)] : m \in monitors}
       ELSE monitors
  /\ UNCHANGED <<device, serial>>

\* A failed insert is logged; so is one for a device that is gone.
InsertMonitor(id) ==
  /\ Is(id)
  /\ monitors' = monitors \union
       {[id |-> serial + 1, active |-> TRUE, status |-> Column("pending")]}
  /\ serial' = serial + 1
  /\ UNCHANGED device

SetUpdating(id, age) ==
  /\ device' = IF Is(id) THEN [device EXCEPT !.updating = age] ELSE device
  /\ UNCHANGED <<monitors, serial>>

\* The monitors of a deleted device go with it.
DropDevice(id) ==
  /\ device' = IF Is(id) THEN NoDevice ELSE device
  /\ monitors' = IF Is(id) THEN {} ELSE monitors
  /\ UNCHANGED serial

Execute(s, id) ==
  \/ s \in DeviceStatus /\ SetStatus(id, s)
  \/ s = "activate" /\ SetMonitors(id, TRUE, "pending")
  \/ s = "pause" /\ SetMonitors(id, FALSE, "paused")
  \/ s = "clear" /\ monitors' = (IF Is(id) THEN {} ELSE monitors)
                 /\ UNCHANGED <<device, serial>>
  \/ s = "insert" /\ (InsertMonitor(id) \/ UNCHANGED rows)
  \/ s = "drop" /\ DropDevice(id)
  \/ s = "updating" /\ SetUpdating(id, 0)
  \/ s = "settle" /\ SetUpdating(id, Never)

\* The commands of a device that is deleted end with it.
Lost(id) == IF Is(id) THEN {device.command} ELSE {}

Alone(c) == \A d \in Callers \ {c} : Free(d)

Begin(c, todo) ==
  /\ alive /\ Free(c) /\ Registered
  /\ calls < MaxCalls
  /\ calls' = calls + 1
  /\ callers' = [callers EXCEPT ![c] = [device |-> device.id, todo |-> todo]]
  /\ muddled' = (muddled \/ ~Alone(c)
                    \/ (todo[1] = "suspended" /\ monitors = {}))
  /\ UNCHANGED <<rows, alive, uptime, memory, pushes, job, writes, delivery,
                 silent, reported, voice, focus>>

\* Mutant of Approval: the monitors of an earlier approval are left.
ApprovalKeeping == <<"approved", "insert">>

\* approveDevice, and bulkUpdateDevices with status approved.
Approval == <<"approved", "clear", "insert">>

\* updateDevice of the controller with status approved.
Approve(c) ==
  Begin(c, IF device.status = "suspended" THEN <<"activate", "approved">> ELSE Approval)

BulkApprove(c) == Begin(c, Approval)

\* suspendDevice, and the update of the row that follows it.
Suspend(c) == Begin(c, <<"suspended", "pause", "suspended">>)

\* bulkUpdateDevices touches the monitors only when it approves.
BulkSuspend(c) == Begin(c, <<"suspended">>)

SetOther(c) == \E s \in {"refused", "pending"} : Begin(c, <<s>>)

Delete(c) == Begin(c, <<"clear", "drop">>)

NotifyUpdate(c) == Begin(c, <<"updating">>)

CallStep(c) ==
  LET call == callers[c]
      id == call.device
      s  == Head(call.todo)
  IN
  /\ ~Free(c)
  /\ Execute(s, id)
  /\ callers' = [callers EXCEPT ![c] =
       IF Len(call.todo) = 1 THEN NoCall ELSE [call EXCEPT !.todo = Tail(@)]]
  /\ muddled' = IF s = "clear" /\ Alone(c) /\ Is(id) THEN FALSE
                ELSE muddled \/ (s = "insert" /\ monitors' = monitors)
  /\ owed' = IF s = "drop" THEN owed \ Lost(id) ELSE owed
  /\ UNCHANGED <<alive, uptime, memory, pushes, job, writes, calls, given, shared,
                 duplicated, silent, reported, voice, focus>>

\* sendCommand and bulkSendCommand replace a command that still waits.
SendCommand ==
  /\ alive /\ Registered /\ calls < MaxCalls
  /\ calls' = calls + 1
  /\ device' = [device EXCEPT !.command = calls + 1]
  /\ owed' = (owed \ {device.command}) \union {calls + 1}
  /\ UNCHANGED <<monitors, serial, alive, uptime, memory, pushes, callers, job,
                 writes, given, shared, duplicated, silent, reported, voice, muddled,
                 focus>>

-----------------------------------------------------------------------------
(***************************************************************************)
(* The page of the device, one look-up at a time.                          *)
(***************************************************************************)
\* getLatestMetrics finds nothing, getMetricsFromDB is called.
LookUp ==
  /\ alive /\ Registered /\ ~Remembered(device.id)
  /\ reading = NoReading
  /\ focus = "pages" /\ calls < MaxCalls
  /\ calls' = calls + 1
  /\ reading' = [NoReading EXCEPT !.stage = "asked", !.device = device.id]
  /\ UNCHANGED <<rows, alive, uptime, snapshot, workers, pushes, callers, job,
                 writes, delivery, silent, reported, voice, muddled, focus>>

\* The newest heartbeat of a monitor of the device: the last push's, an earlier one's
\* when the insert, which nobody awaits, failed, was cut or is still on its way, or
\* none, as when a worker wrote the newest.
ReadHeartbeat ==
  /\ reading.stage = "asked"
  /\ \/ reading' = NoReading
     \/ /\ Is(reading.device) /\ monitors # {}
        /\ \E age \in {a \in Silence : a >= silent}, load \in Load :
             reading' = [reading EXCEPT !.stage = "answered", !.age = age,
                                        !.overall = load]
  /\ UNCHANGED <<rows, alive, uptime, snapshot, workers, pushes, callers, job, writes,
                 calls, delivery, silent, reported, voice, muddled, focus>>

\* It becomes the snapshot, whatever memory holds by now.
Remember ==
  /\ reading.stage = "answered"
  /\ reading' = NoReading
  /\ IF Is(reading.device)
       THEN /\ snapshot' = [device |-> reading.device, age |-> reading.age,
                            overall |-> reading.overall]
            /\ outdated' = IF Remembered(reading.device)
                             THEN outdated \/ snapshot' # snapshot
                             ELSE reading.age # silent
       ELSE UNCHANGED <<snapshot, outdated>>
  /\ UNCHANGED <<rows, alive, uptime, workers, pushes, callers, job, writes, calls,
                 delivery, silent, reported, told, repeated, muddled, focus>>

-----------------------------------------------------------------------------
\* cleanupUninstalledDevices and cleanupStuckUpdating choose their devices.
BeginJob ==
  /\ alive /\ job = NoCall
  /\ \/ /\ device.uninstall > UpdateWindow
        /\ job' = [device |-> device.id, todo |-> <<"clear", "drop">>]
     \/ /\ device.updating > UpdateWindow
        /\ job' = [device |-> device.id, todo |-> <<"settle">>]
  /\ UNCHANGED <<rows, alive, uptime, memory, pushes, callers, writes, calls,
                 delivery, silent, reported, voice, muddled, focus>>

JobStep ==
  LET s == Head(job.todo) IN
  /\ job # NoCall
  /\ Execute(s, job.device)
  /\ job' = IF Len(job.todo) = 1 THEN NoCall ELSE [job EXCEPT !.todo = Tail(@)]
  /\ owed' = IF s = "drop" THEN owed \ Lost(job.device) ELSE owed
  /\ muddled' = (muddled \/ s = "clear")
  /\ UNCHANGED <<alive, uptime, memory, pushes, callers, writes, calls, given, shared,
                 duplicated, silent, reported, voice, focus>>

-----------------------------------------------------------------------------
(***************************************************************************)
(* AgentMonitorWorker.performCheck for a device outside every group: no    *)
(* await between the row and the snapshot.                                 *)
(***************************************************************************)
\* The snapshot counts from the moment it was received.
Stale == snapshot.age > StaleAfter

\* Mutant of BySnapshot: no grace after a restart.
BySnapshotAtOnce(id) ==
  IF ~Remembered(id) THEN Offline
  ELSE IF Stale THEN Offline ELSE snapshot.overall

\* Mutant of BySnapshot: a device that is not remembered is never missed.
BySnapshotPatient(id) ==
  IF ~Remembered(id) THEN "confirmed"
  ELSE IF Stale THEN Offline ELSE snapshot.overall

BySnapshot(id) ==
  IF ~Remembered(id) THEN (IF uptime < Grace THEN "confirmed" ELSE Offline)
  ELSE IF Stale THEN Offline ELSE snapshot.overall

Verdict(w) ==
  IF ~Is(w.device) THEN "down"
  ELSE CASE device.status = "refused"   -> "down"
         [] device.status = "suspended" -> "paused"
         [] device.status = "pending"   -> "pending"
         [] device.status = "approved" /\ device.updating # Never ->
              IF device.updating < UpdateWindow THEN "pending" ELSE "down"
         [] device.status = "approved" /\ device.updating = Never -> BySnapshot(w.device)

\* The pipeline may write the verdict to the column, or keep it back.
Check(w) ==
  LET v == Verdict(w) IN
  /\ alive
  /\ monitors' \in {monitors} \union
       (IF v = "confirmed" THEN {}
        ELSE {{IF m.id = w.monitor THEN [m EXCEPT !.status = Column(v)] ELSE m : m \in monitors}})
  /\ reported' = (v \in {"down", Offline})
  /\ UNCHANGED <<device, serial, alive, uptime, memory, pushes, callers, job,
                 writes, calls, delivery, silent, voice, muddled, focus>>

-----------------------------------------------------------------------------
\* Handlers are shorter than a tick.
Quiet ==
  /\ \A p \in Pushes : Idle(p)
  /\ \A c \in Callers : Free(c)
  /\ job = NoCall /\ writes = {} /\ reading = NoReading

Tick ==
  /\ Quiet
  /\ uptime' = IF alive /\ uptime < Grace THEN uptime + 1 ELSE uptime
  /\ device' = [device EXCEPT !.updating = Older(@, UpdateWindow),
                              !.uninstall = Older(@, UpdateWindow)]
  /\ snapshot' = [snapshot EXCEPT !.age = Older(@, StaleAfter)]
  /\ silent' = Older(silent, StaleAfter)
  /\ UNCHANGED <<monitors, serial, alive, workers, reading, pushes, callers, job,
                 writes, calls, delivery, reported, voice, muddled, focus>>

\* Everything but the rows is lost.
Crash ==
  /\ alive /\ calls < MaxCalls
  /\ calls' = calls + 1
  /\ alive' = FALSE
  /\ uptime' = 0
  /\ snapshot' = NoSnapshot /\ workers' = {} /\ reading' = NoReading
  /\ pushes' = [p \in Pushes |-> NoPush]
  /\ callers' = [c \in Callers |-> NoCall] /\ job' = NoCall
  /\ writes' = {}
  /\ owed' = owed \ Carried
  /\ told' = "none" /\ outdated' = FALSE
  /\ muddled' = (muddled \/ \E c \in Callers : ~Free(c))
  /\ UNCHANGED <<rows, given, shared, duplicated, silent, reported, repeated, focus>>

\* startAll: the active monitors that are not paused get a worker, and only here:
\* approving or reinstating a device starts none.
Restart ==
  /\ ~alive
  /\ alive' = TRUE
  /\ workers' = {[monitor |-> m.id, device |-> device.id] :
                   m \in {r \in monitors : r.active /\ r.status # "paused"}}
  /\ UNCHANGED <<rows, uptime, snapshot, reading, pushes, callers, job, writes,
                 calls, delivery, silent, reported, voice, muddled, focus>>

-----------------------------------------------------------------------------
PushStep(p) == Record(p) \/ Consume(p) \/ FindMonitor(p) \/ FindPrevious(p)

PushArrives == \E p \in Pushes : Arrive(p)

Administer ==
  /\ focus = "administration"
  /\ \E c \in Callers : \/ Approve(c) \/ BulkApprove(c) \/ Suspend(c) \/ BulkSuspend(c)
                        \/ SetOther(c) \/ Delete(c)

Next ==
  \/ PushArrives
  \/ \E p \in Pushes : PushStep(p)
  \/ WriteStatus
  \/ Administer \/ (\E c \in Callers : NotifyUpdate(c)) \/ SendCommand
  \/ (\E p \in Pushes : Fail(p))
  \/ LookUp \/ ReadHeartbeat \/ Remember
  \/ \E c \in Callers : CallStep(c)
  \/ BeginJob \/ JobStep
  \/ \E w \in workers : Check(w)
  \/ Tick \/ Crash \/ Restart

\* What has begun ends, the timers of the worker and of the job come round, and
\* time goes on between handlers.
Fairness ==
  /\ \A p \in Pushes : WF_vars(PushStep(p))
  /\ \A c \in Callers : WF_vars(CallStep(c))
  /\ WF_vars(ReadHeartbeat) /\ WF_vars(Remember)
  /\ WF_vars(WriteStatus) /\ WF_vars(BeginJob) /\ WF_vars(JobStep)
  /\ WF_vars(\E w \in workers : Check(w))
  /\ SF_vars(Tick)

Spec == Init /\ [][Next]_vars /\ Fairness

-----------------------------------------------------------------------------
\* A queued command is in the row until a push takes it, what a push takes it puts in
\* its reply, and the agent is given it once.  No longer owed are the commands that
\* another replaced, that were queued while a push consumed an earlier one, that a
\* failing query of the push cost after it had cleared them, or that a deletion or a
\* crash ended; given twice are only those that two pushes had read before either
\* cleared them (sendCommand and handlePush, with the pushes of suspended devices and
\* the overlapping ones).
CommandsReachAgent ==
  /\ owed \subseteq {device.command} \union Carried
  /\ ~duplicated

\* In one process the pushes of a device announce alert and up in turn, but for
\* pushes that overlapped before there was a snapshot, and for the push that follows a
\* look-up which put an earlier push's status over the last one's
\* (_storeMetricsAsHeartbeat, getMetricsFromDB).
AnnouncementsAlternate == ~repeated

\* Once its calls are over an approved device has one monitor, an active one, if
\* since an approval, alone, cleared its monitors no call overlapped another,
\* failed or was cut short, and the device was not suspended without a monitor
\* (approveDevice, suspendDevice, reinstateDevice and their bulk forms).
ApprovedIsMonitored ==
  (device.status = "approved" /\ ~muddled /\ \A c \in Callers : Free(c)) =>
    \E m \in monitors : m.active /\ monitors = {m}

\* A worker reports an approved device offline only when no push of it was stored
\* for longer than the tolerated silence, restarts of the server included, unless a
\* look-up has put an earlier push into memory than the last one stored: the last
\* one's heartbeat was lost, or the look-up had read before it (performCheck:
\* snapshot, grace period, updates; getMetricsFromDB).
OfflineIsReal ==
  \A w \in workers :
    (/\ alive /\ Is(w.device) /\ device.status = "approved" /\ device.updating = Never
     /\ ~(outdated /\ Remembered(w.device))
     /\ Verdict(w) = Offline)
    => silent > StaleAfter

\* A device that stays approved, watched and silent is reported offline again and
\* again, also when it had announced an update (performCheck).
SilenceReported ==
  <>[](/\ device.status = "approved" /\ silent > StaleAfter
       /\ \E w \in workers : w.device = device.id)
    => []<>reported

\* What is said of a device is true: alert and up in turn, and offline after silence only.
AnnouncementsAreTrue == AnnouncementsAlternate /\ OfflineIsReal

-----------------------------------------------------------------------------
(***************************************************************************)
(* Why they hold: the inductive invariants.                                *)
(***************************************************************************)
\* Commands are known by the call that queued them, which is over: the row does not
\* hold again what a push has taken from it, or what was given.
CommandsOnce ==
  /\ device.command # 0 => device.command \in (1 .. calls) \ given
  /\ \A p \in Pushes : LET c == pushes[p].seen.command IN
       c # 0 => /\ c \in 1 .. calls
                /\ c = device.command =>
                     Is(pushes[p].seen.id) /\ pushes[p].phase \in {"record", "consume"}
                /\ c \in given => c \in shared
  /\ \A p, q \in Pushes :
       LET c == pushes[p].seen.command IN
       c # 0 /\ c = pushes[q].seen.command => p = q \/ c \in shared
  /\ given \subseteq 1 .. calls

\* A push that is about to clear the command will reply with it.
DeliveryInv ==
  /\ \A p \in Pushes : pushes[p].phase = "consume" => ~Rejected(pushes[p].seen)
  /\ CommandsOnce
  /\ CommandsReachAgent

\* The snapshot is as old as the device is silent and holds what was last said of it,
\* unless it is outdated; without one nothing was said, and silence is as long as the
\* server's life at least.
SnapshotInv ==
  /\ Is(snapshot.device) /\ ~outdated =>
       /\ snapshot.age = silent
       /\ told = "none" \/ told = snapshot.overall
  /\ Registered /\ ~Remembered(device.id) => told = "none" /\ uptime <= silent
  /\ ~repeated

Monitored == \E m \in monitors : m.active /\ monitors = {m}

\* How calls leave the monitors of a device.
Settled ==
  /\ device.status = "approved" => Monitored
  /\ device.status = "suspended" => monitors # {}

\* What the rest of a call that no other overlaps relies on to leave them so.
Awaited(todo) ==
  /\ todo = <<"insert">> => monitors = {}
  /\ todo = <<"approved">> => Monitored
  /\ todo = <<"updating">> => Settled
  /\ todo[1] \in {"activate", "suspended", "pause"} => monitors # {}

MonitorsInv == ~muddled =>
  /\ \A m, n \in monitors : m = n
  /\ \A c, d \in Callers : Free(c) \/ Free(d) \/ c = d
  /\ (\A c \in Callers : Free(c)) => Settled
  /\ \A c \in Callers : Free(c) \/
       IF Is(callers[c].device) THEN Awaited(callers[c].todo)
                                ELSE device.status = "pending" /\ monitors = {}
=============================================================================
