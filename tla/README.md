# Obliview: a verification project

Obliview is a monitoring server (Node, TypeScript, PostgreSQL). It runs one
worker per monitor, decides from each check whether a status is confirmed,
announces changes through notification channels, groups, maintenance windows and
remediations, receives the pushes of its own agents, lets agents and a container
check monitors in its place, and shows all of it in a browser. The repository has
no automated tests. This directory holds TLA+ models of the parts with a protocol
in them, the TLC configurations that check them, and TLAPS proofs about most of
what the runs check, for any number of monitors, groups, requests and sockets.

Contents: [the system](#1-the-system), [the modules](#2-the-modules-and-the-code),
[the runs](#3-the-runs), [the proofs](#4-the-proofs),
[what the code does otherwise than documented](#5-where-the-code-differs-from-what-it-says),
[limits](#6-what-is-not-modelled), [what is left](#7-what-is-left).

Run `tlc -config X.cfg M` for a run X of module M (`PROJECT.json` pairs them) and
`tlapm M_proofs.tla` for the proofs of module M.

## 1. The system

Paths are below `src/server/src/` unless they begin with another directory.

| Component | State it keeps | Operations | Talks to | Module |
|---|---|---|---|---|
| Monitor worker (`workers/BaseMonitorWorker.ts`) | retries, previous, confirmed and notified status, queued notification, in memory; `monitors.status` and heartbeats in the database | `start`, `stop`, `beat`, `processResult`, `handleStatusChange`, `flushPendingNotification`, `dispatchNotification` | all below | `StatusPipeline`, `MonitorWorker` |
| Worker manager (`workers/MonitorWorkerManager.ts`) and monitor API | the map of workers, the monitor's row | `startAll`, `start-`, `stop-`, `restartMonitor(s)`, `restartAffectedBySettings`, create, update, pause, delete | workers, settings | `WorkerManager` |
| Grouped notifications (`services/groupNotification.service.ts`) | `downMonitorIds`, `notifiedDown` per group, in memory | `initialize`, `handleMonitorDown`, `handleMonitorUp`, `removeGroup` | workers, groups | `GroupAlerting` |
| Groups (`services/group.service.ts`) | the tree and its closure table | create, update, move, delete | everything inherited | `GroupTree` |
| Settings, notification bindings, remediation bindings, maintenance scopes, rights (services of that name) | rows by scope | edit, resolve along the tree | workers, pages | `Inheritance` |
| Maintenance (`services/maintenance.service.ts`) | windows, disables, a cache of a minute | edits, `isInMaintenance`, the transition job | workers, channels | `Maintenance` |
| Remediation (`services/remediation.service.ts`) | bindings, recorded runs | trigger, execute | workers | `Remediation` |
| Live alerts (`services/liveAlert.service.ts`) | the latest alerts of a tenant | add, read, delete | workers, browsers | `LiveAlerts` |
| Agent devices (`services/agent.service.ts`, `workers/AgentMonitorWorker.ts`) | device rows, the latest push in memory, a queued command | approve, refuse, suspend, reinstate, push, command, update, uninstall | agents, workers | `AgentDevices` |
| Agent channel (`services/agentHub.service.ts`, `src/agent/cmd_ws.go`) | sockets, runners, results | register, replace, sync, result, reconnect | agents, workers | `AgentChannel` |
| Checks (`workers/*MonitorWorker.ts`, `src/agent/proxy_check.go`, `src/proxy`) | a watched value, the last push, a proxied result | `performCheck` of fourteen types | targets | `Verdicts`, `ValueWatcher`, `PushMonitor`, `ProxiedResult`, `Checks` |
| Import and export (`controllers/importExport.controller.ts`) | a file | export, import by three strategies | all tables | `ImportExport` |
| Accounts and single sign-on (`routes/obligateCallback.routes.ts`, `services/obligate.service.ts`, users) | accounts, links, memberships | sign-in, reports, posts, edits | the identity provider Obligate | `Accounts` |
| Sockets and browser (`socket.ts`, `src/client/src/store`) | rooms; the stores of a tab | connect, emit, fetch, switch tenant | API, workers | `LiveView` |

**What is hard in it.** Node runs one callback at a time, so what interleaves is
the code between two `await`s, and nearly every handler awaits the database
between looking and writing. In-memory state (workers, groups, snapshots, results)
is lost at a restart and rebuilt from columns that were written for another
purpose. Time enters through retries, a debounce, cooldowns, caches, windows and
grace periods. Queries fail half way through a handler, most handlers only log
that, and few of them use a transaction. Agents and browsers reach the server
through sockets that die silently and through requests that overtake each other.

**What makes each component correct.**

- Worker: no problem is announced before its retries; every confirmed problem is
  announced in the end; the debounce neither repeats nor crowds notifications.
- Manager: one worker per monitor, with the current configuration, for the monitors
  that are active; a stopped worker stays stopped.
- Group notifications: one alarm and one recovery per outage of the group, in that
  order, and the group's state agrees with its workers.
- Groups and what they hand down: the closure table is the closure of the tree; the
  nearest scope decides; all readers of one table agree.
- Maintenance: an answer is that of the windows within the age of the cache, and
  each transition is announced once.
- Remediation and live alerts: cooldowns space the runs; an alert is there once.
- Agents: an approved device has one active monitor; a queued command arrives; what
  is announced about a device is true; silence is reported; one channel per device;
  the runners are those of the assigned monitors.
- Checks: the same target gets the same verdict from each executor; a monitor is up
  only after evidence; a changed value is told once.
- Files: a strategy leaves alone what it says it leaves alone; copies point at copies.
- Accounts: a sign-in leaves the rights the provider asserts; a user can sign in
  again after a lost report; some administrator remains.
- Browser: once all has been delivered, it shows what the server has.

`PROJECT.json` lists the hazards of the code at their lines, with the properties
that would catch each going wrong.

## 2. The modules and the code

```
StatusPipeline            what one beat decides (operators on the worker's fields)
 |-- MonitorWorker        one worker, its restarts and its environment
 |    `-- Announcements   what it promises (instantiated by it: the refinement)
 `-- GroupAlerting        the workers of a group, groupNotificationService, startup
WorkerManager             the map of workers, the API handlers, the worker objects
 `-- WorkerManagerHistory   whether requests overlapped, whether one has paused
      `-- WorkerManagerMC
GroupTree                 groups and closure table, statement by statement
 `-- Inheritance          everything resolved along them
      `-- InheritanceMC
ServerClock               time and calls of one server process
 |-- Maintenance --.
 |-- Remediation --+-- Aftermath      what a change of status sets off, composed
 `-- LiveAlerts ---'    `-- AftermathMC
AgentDevices              one device: row, monitors, pushes, commands, silence
AgentChannel              its socket, proxied monitors, results
Verdicts  ValueWatcher  PushMonitor  ProxiedResult
 `------------- Checks --------'   `-- ChecksMC
ImportExport  Accounts
 `- Administration
LiveView                  a browser tab and the server's events
 `-- LiveViewMC
*_proofs                  theorems and lemmas about the module of that name; those about
                          GroupTree are in Inheritance_proofs, those about
                          AgentChannel in Checks_proofs, those about
                          LiveView in Aftermath_proofs
ImportExportInvariants    the inductive invariants of ImportExport and what they are made
                          of, for Administration_proofs
```

A definition whose comment says *Mutant* belongs to no specification: it is a
plausible bug of the definition that follows it, used to confirm that the
properties notice. `PROJECT.json`'s `map` names the lines of each definition.

**StatusPipeline** has no variables. `WorkerState` is the record of the worker's
fields, `BeatState` what a beat has read before it decides. `Settle` is
`processResult` from the judgement to the assignment of `previousStatus`,
`HandleStatusChange` and `Flush` the methods of that name, `BeatDispatches` the
calls of `dispatchNotification` a beat makes. Abstractions, none of which loses a
behaviour: `retryCount` saturates at `maxRetries + 1` (it is only compared with
`maxRetries`); `Date.now() - lastStateChangeAt` is `stableFor`, in ticks,
saturated at the largest cooldown; `lastNotifiedAt` is compared with 0 only, so it
is a Boolean.

**MonitorWorker** splits a beat where the code awaits something that can change
its outcome: `BeginBeat` (check, maintenance answer, cooldown), `Decide`
(everything up to `flushPendingNotification`), `FinishBeat` (`updateStatus`).
Between them the environment moves: the target, the windows, the clock, the pause
endpoint, a process crash or restart (`LoseWorker`, then `StartWorker` from the
status column), a failing query (`AbortBeat`, `DispatchFails`). `told`,
`toldThisLife`, `quiet`, `failures` and `inherited` are histories. The
configuration is constant, except for the cooldown of an agent's monitor, which
its check re-reads; a changed setting restarts the worker, which is `LoseWorker`.
`Disturbances` selects what the environment of an instance does.

**Announcements** is the abstract specification: `known`, a queue of one, `told`;
a confirmed problem is told at once or queued, a newer change replaces the queued
one, what leaves the queue is told. `MonitorWorker!Promise` instantiates it with
`known`, `queue` and `told` computed from the worker's fields and history, and
`KeepsPromise` is its specification as a property.

**WorkerManager** is one monitor's row, the settings that apply to it, the
manager's entry (`slot`), every worker object ever created, and the API requests.
An edit may set `isActive`, which only `restartMonitor` looks at (`Startable`).
A request is a little program whose steps are its awaits. A beat is `Wake`,
`Store` (the heartbeat row, whose foreign key fails for a deleted monitor) and
`Write` (`updateStatus`). `WorkerManagerHistory` records whether requests
overlapped and whether one has paused; `WorkerManagerMC` lets ids be taken in order.

**GroupAlerting** is several monitors of one flagged group, each with its own
beat, split further at the awaits of `dispatchNotification`. The service's two
operations run without an await, so `GoesDown` and `GoesUp` are atomic. `Reboot`,
`StartMonitor`, `ReadDown` and `Initialize` are the start-up in `startAll`'s order.

**GroupTree** has `parentOf` and `closure`; a create is two statements and a move
four, outside a transaction, and each is a step. A restart drops requests half
way, which `muddled` remembers. **Inheritance** adds the tables that hang on the
tree, one *aspect* per behaviour (settings, channels, remedies, maintenance,
grouping, rights, agents' notification types), edited while groups move, and
every reader of them: resolvers, batch readers, sockets' rooms, the sidebar.

**Maintenance**, **Remediation** and **LiveAlerts** are the three services a beat
calls, each cut at its awaits, over the clock of **ServerClock**; **Aftermath**
conjoins them so that one crash loses all that is in memory, and lets a change of
status start a remedy and an alert only when the worker's question about
maintenance was answered with no.

**AgentDevices** is one device by its uuid: its row, its agent monitors, the
snapshot of its last push, overlapping pushes (cut at the reads whose answers
they use later, and ended by a failing query at any of them: `Fail`),
administrators' calls statement by statement, the page that reads the last
heartbeat when there is no snapshot and makes it the snapshot later (`LookUp`,
`ReadHeartbeat`, `Remember`), the clean-up job, the worker that looks for silence,
crashes. Metrics are what thresholds make of them. **AgentChannel** is the other way to an agent: sockets with their own view
on both sides, `hub` the entry of the map, the lists of proxied monitors on the
wire, the runners and the results.

**Verdicts** are pure: `performCheck` of each type for each of the three
executors, on a target reduced to what the verdicts tell apart. **ValueWatcher**,
**PushMonitor** and **ProxiedResult** are the checks with a memory. **Checks** is
one monitor of any of these kinds.

**ImportExport** has tenants' rows, the file, and one action per import, since it
is one transaction; each section is an operator from tables and maps to tables and
maps, in the code's order but for two that nothing refers to. **Accounts** has one
step per statement of the sign-in callback (a linked account is read after its link,
and a link found stale is deleted), of a checked edit and of a removal, any of which
may fail; the identity provider's records and reports are external. **Administration** puts
the two in one run, as topics chosen at the start.

**LiveView** has the server's rows, the requests that change them (write and emit
are two steps), the wire of a socket (in order), the fetches under way (in any
order), and the tab's stores. Three histories say when the tab need not be current:
`excused` on the store, `clean` on each fetch, and `alone` on each handler and event,
which it loses when another handler of the row overlaps it, or when a later change of
the row is not sent to the tab. What an event says need not be what the row says: an
agent's heartbeat is pinned to `up` (`Carried`, `Pins`), a first beat may write no row
(`SkipWrite`), a push announces first and writes behind (`Push`, `WritePush`), and any
handler may fail between its steps (`Fail`). `MaxListed` is the limit that the table
keeps per tenant, the fetch over all tenants and the store in its list.

## 3. The runs

| Run | Question | Bounds and why they are enough |
|---|---|---|
| `WorkerDebounce` | Retries, cooldown, maintenance, pauses, restarts and failing queries together: does the worker keep `Announcements`' promise (`KeepsPromise`), are problems retried first (`ProblemsAreRetried`), notifications not repeated (`NoRepeatBehindCooldown`) nor closer than the cooldown (`NotificationsAreSpaced`)? | one retry, so that counted, reset and exhausted differ; cooldown 2, so that a queued change can be young, old or replaced; a retryable and an SSL status; upside down |
| `WorkerOutage` | Is a lasting outage told in the end (`OutageTold`, fair)? | an agent's monitor, because its dispatches can fail; one retry, cooldown 1, two problems |
| `Manager` | In turn: one running worker with the current configuration (`OneRunningWorker`, `ConfigIsCurrent`). Overlapping: nothing stopped comes back (`StoppedStaysStopped`), an active monitor is checked unless a pause interfered (`ActiveUnlessPaused`), nobody checks a deleted one for ever (`DeletedIsSilent`) | three requests of seven kinds, two in flight at a time, a worker object for each and one at the start; the proofs have any number |
| `GroupAlerting` | Interleaved beats with every disturbance: does the group mirror its workers (`DownSetIsConfirmed`), does the recovery follow the alarm (`RecoveryAfterAlarm`) and come (`GroupRecovers`)? | two monitors, so that one is first and the other last; no cooldown |
| `GroupStuck` | The same with a cooldown: a counterexample, [section 5](#5-where-the-code-differs-from-what-it-says) | one monitor |
| `Inheritance` | Is the closure table the tree (`TreeIsSound`), does the nearest scope decide (`NearestScopeDecides`), do all readers agree (`ReadersAgree`), does an edit of settings restart whom it concerns (`SettingsEditReachesWorkers`)? | from every forest of up to three groups (one can stand between two others), two requests, one crash; three edits at most |
| `Aftermath` | Cached maintenance answers (`AnswersFollowWindows`), announced transitions (`TransitionsToldOnce`), cooldowns of remedies (`CooldownHonoured`), number and uniqueness of alerts (`AlertsKeptDown`) | horizon 3 ticks with a cache of 1 and days of 2, so that an answer can be fresh, stale and renewed and a window recur; two windows, two jobs, three calls, one extra crash or overlap |
| `AgentDevices` | Are commands delivered (`CommandsReachAgent`), approved devices monitored (`ApprovedIsMonitored`), announcements true (`AnnouncementsAreTrue`), silences reported (`SilenceReported`)? | two overlapping pushes, one administrator at a time; two calls, look-ups, failing pushes or crashes in all; a behaviour has overlapping and failing pushes, or administration, or look-ups (`focus`), each with crashes |
| `AgentChannel` | One channel per device (`OneChannel`), right runners (`RunnersFollowMonitors`), recovery (`ChannelHeals`) | two sockets, the old and the new; two faults, two edits |
| `Administration` | Files: `Consistent`, `StrategiesHold`, `CopyMirrorsFile`. Accounts: `SignInSyncs`, `SignInPossible`, `AdminRemains` | files: one edit and two imports, full or partial, into the same tenant or another. Accounts: one identity with two names, three accounts, two sign-ins and two forms at a time, within one of seven budgets of sign-ins, the provider's changes, administrators' edits, and crashes or failing statements; one budget has three sign-ins, of which two can meet while a third account has come; sign-ins are alike and so are forms (symmetry) |
| `Checks` | Do the executors agree (`ExecutorsAgree`), is 'up' earned (`StatusIsEarned`), is a change told once (`ChangesToldOnce`)? | every type with the answers that its verdict distinguishes, of an HTTP monitor also whether it ignores certificates and has headers; three worker objects and two values that are alike (symmetry); interval 3 with two pushes on their way |
| `LiveView` | Is the tab current (`ViewIsCurrent`, `BellIsComplete`) and does it heal (`ViewHeals`)? | two tenants, a monitor and two alerts where the bell lists one, one request, event and fetch in flight of each; faults in four combinations: lost connections with unannounced changes and failing switches; lost connections with a second tab; an agent's pushes with failing statements; alerts with failing statements |

`MaxRetries`, `MaxCooldown`, `Requests`, `MaxInFlight`, `MaxCrashes`, `EditBound`,
`TreeBound`, `Horizon`, `MaxCalls`, `MaxSlack`, `MaxRunning`, `MaxEdits`,
`MaxFaults`, `MaxImports`, `Budgets`, `MaxAccounts`, `MaxStarts`, `MaxArriving`,
`MaxWire`, `MaxFetches` and their like are the bounds, each named in its module
as one. Deadlock is checked in `MonitorWorker`, `GroupAlerting` and
`AgentDevices`; elsewhere the bounded calls run out. Topics, aspects and budgets
are chosen in the initial state, so that the state spaces of things that share
nothing add up and do not multiply.

**Fairness.** `MonitorWorker`: `startAll` starts every worker, the timer keeps it
beating and the clock runs (weak). `Decide` is strongly fair: a query may fail in
some beats but not in every beat for ever, and a beat that fails is followed by
another (`scheduleNext` runs after the catch). `WorkerManager`: every query is
answered and every timer fires; requests need not be made. `GroupAlerting`: every
await of a beat is answered, and the start-up goes on. `AgentDevices`: the steps
that have begun go on and the worker keeps beating; the clock is strongly fair
because overlapping handlers can hold it up in the model only. `AgentChannel`:
agent and server go on, and the agent notices a dead socket by its read deadline;
the server need never notice one, since nothing in it looks. `LiveView`: each monitor's
beats begin, are written and are told in the end, strongly fair because a beat may be
cut short or find the wire full (a bound of the model) again and again but not in every
interval; what is on the wire is delivered (weak). None
assumes anything of users, targets or faults.

**What the properties except.** Each exception is a behaviour of the code:

- `KeepsPromise` and the theorems on confirmed problems: a problem inherited from
  the status column at a start, the suppressed `down` of an unresponsive proxy, and
  agents' monitors, whose dispatch can fail after it was recorded.
- `NoRepeatBehindCooldown`: agents' monitors, and cooldowns that can be 0.
- `OutageTold`: no restart, and no dispatch lost (`Misled`).
- `OneRunningWorker`, `ConfigIsCurrent`: requests that do not overlap.
- `DownSetIsConfirmed`, `GroupRecovers`: a group nothing has disturbed (`calm`),
  and no cooldown. `RecoveryAfterAlarm` assumes that a worker is replaced between
  two beats.
- `TreeIsSound`: no move or create cut short or overlapped (`muddled`).
- `AnswersFollowWindows`: an answer may be `Stalest` old. `TransitionsToldOnce`: one
  more message for each crash or overlapping job. `CooldownHonoured`: triggers that
  overlapped a run. `AlertsKeptDown`: one more alert of a key two calls added at once.
- `CommandsReachAgent`: a command that another replaced, that was queued while a
  push consumed an earlier one, or whose push failed after it had cleared it; twice may
  come only what two pushes had read. `AnnouncementsAreTrue`: a snapshot that a look-up
  has put over a push (`outdated`), and a push that found no snapshot and was overtaken
  by another. `ApprovedIsMonitored`: overlapping or failed calls.
- `RunnersFollowMonitors`: overtaken, bulk or failed syncs (`behind`).
- `SignInSyncs`: a sign-in alone (`alone`). `SignInPossible`: `stranded` identities, by
  a crash or failing statement between account and link or within a removal, by a link
  that another sign-in deleted as stale, or by a second account under a new name.
  `AdminRemains`: what the provider demands, and overlapping edits.
- `ExecutorsAgree`: what `Diverges` lists, and the requests that the TypeScript proxy
  cannot send (`Unsendable`), see section 5. `ChangesToldOnce`: a change whose report
  failed (`missed`), and what a worker misread that started during another's check.
- `ViewIsCurrent`, `BellIsComplete`: what `excused` records, see section 5. An agent's
  monitor may be shown `up` while its row says `alert` (`Looks`), also by `ViewHeals`; a
  bell whose tenants have more than `MaxListed` alerts is excused by every new one.

## 4. The proofs

TLAPS checks, for every value of the constants that the named assumptions allow:

| Theorem | Says |
|---|---|
| `MonitorWorker_proofs!TypeCorrect`, `!Invariant` | the types; the inductive invariant `IInv` |
| `!Implements` | `KeepsPromise`: `MonitorWorker` implements `Announcements`, for monitors that are neither an agent's nor proxied |
| `!ProblemAnnounced`, `!PromiseHonoured` | a confirmed problem was told or is queued (`ConfirmedProblemAnnounced`), and so nothing is concealed (`NothingConcealed`) |
| `!AtMostOneDispatch` | a beat dispatches at most once |
| `!RetriedBeforeAnnounced`, `!Spaced`, `!NoRepeat` | `ProblemsAreRetried`, `NotificationsAreSpaced`, `NoRepeatBehindCooldown` |
| `WorkerManager_proofs!TypeCorrect`, `!Invariant` | the types; `IInv`, for any number of overlapping requests of all kinds |
| `!MapHoldsRunningWorkers`, `!StopIsFinal` | `RegisteredRuns`, `StoppedStaysStopped` |
| `!SerialInvariant`, `!OneWorkerRuns`, `!ConfigurationArrives` | `OneRunningWorker` and `ConfigIsCurrent`, from `SerialInv` |
| `!UnpausedInvariant`, `!ActiveUnlessPausedHolds` | `ActiveUnlessPaused`, from `UnpausedInv` |
| `GroupAlerting_proofs!TypeCorrect`, `!Invariant` | the types; `IInv`, for any set of monitors |
| `!Consistent`, `!DownIsConfirmed`, `!AlarmBeforeRecovery` | `GroupConsistent`, `DownSetIsConfirmed`, `RecoveryAfterAlarm` |
| `Inheritance_proofs!TreeInvariant`, `!Invariant`, `!TypeCorrect` | the closure table keeps `Sound` under any overlapping creates, moves and deletes; with the tables that hang on it; the types |
| `!TreeStaysSound` | `TreeIsSound`, for trees of every size and depth |
| `!ReadersAlwaysAgree` | `ReadersAgree`: maintenance, lists, pages, rooms and rights are read alike along those trees |
| `!NearestScopeAlwaysDecides` | `NearestScopeDecides`: settings, types, grouping, channels and remedies, whatever rows hang on those trees |
| `!SettingsEditsReachWorkers` | `SettingsEditReachesWorkers`, for an edit at any scope |
| `Aftermath_proofs!TypeCorrect` | the types of `Maintenance`, `Remediation` and `LiveAlerts` in one process |
| `!AnswersInvariant`, `!AnswersRight` | `AnswersFollowWindows` |
| `!TransitionsInvariant`, `!AnnouncedOnce` | `TransitionsToldOnce` |
| `!CooldownInvariant`, `!CooldownKept` | `CooldownHonoured` |
| `!AlertsInvariant`, `!AlertsDown` | `AlertsKeptDown` |
| `AgentDevices_proofs!TypeCorrect` | the types |
| `!DeliveryInvariant`, `!CommandsArrive` | `CommandsReachAgent` |
| `!SnapshotInvariant`, `!SaidIsTrue` | `AnnouncementsAreTrue` |
| `!MonitorsInvariant`, `!ApprovedAreMonitored` | `ApprovedIsMonitored`, for any number of overlapping pushes and calls |
| `Checks_proofs!TypeCorrect`, `!OneChannelOnly` | the types of `AgentChannel`; `OneChannel`, for any number of sockets |
| `!ListsInvariant`, `!RunnersFollow` | `RunnersFollowMonitors` |
| `!ChecksTypeCorrect` | the types of `Checks` |
| `!StatusInvariant`, `!StatusEarned` | `StatusIsEarned`, for every code, day and number of packets that `Exchange` allows |
| `!SameEverywhere` | `ExecutorsAgree` |
| `!ComparesInvariant`, `!ChangesTold` | `ChangesToldOnce`, for any number of worker objects and answers |
| `Administration_proofs!TypeCorrect` | the types of `Accounts`; ids and names are unique, no id is given twice, no foreign key points nowhere |
| `!SyncInvariant`, `!SignInsSync` | `SignInSyncs`, for any number of identities, sign-ins, forms and reports |
| `!LinkInvariant`, `!SignInsPossible` | `SignInPossible` |
| `!FormsInvariant`, `!AdministratorsRemain` | `AdminRemains` |
| `!FilesStayConsistent` | `Consistent`, for any number of edits and imports and any choice of sections |
| `!ImportsLeaveExisting`, `!StrategiesKept` | `LeavesExisting` and with it `StrategiesHold`: what imports leave alone and what they bring back, whatever was edited and imported before |
| `!CopiesMirrorFile` | `CopyMirrorsFile`: the copies of a first import point at each other as the items of the file do |
| `Aftermath_proofs!ViewTypeCorrect` | the types of `LiveView` |
| `!ViewInvariant`, `!ViewStaysCurrent` | `ViewIsCurrent`, for any number of monitors, handlers, events, fetches and tenants |
| `!BellInvariant`, `!BellStaysComplete` | `BellIsComplete` |

**Arguments.** *Worker.* `MonitorWorker_proofs!BeatOutcome` splits a beat into
its four outcomes: it dispatches, queues, flushes, or leaves the notification
state alone. That needs "only a worker that has notified has a queued change",
the first conjunct of `IInv` (`QueuedBehindNotification`), because a cooldown
counts only after a first notification; without it a beat could dispatch and flush
at once. `NotifiedIsTold` ties the worker's `lastNotifiedStatus` to the history,
`QueuedAfterNotification` the two clocks, `RetriesAreFailures` the counter to the
failures; each property then follows from one case of `BeatOutcome`. The
refinement maps the four outcomes to `TellNow`, `TellLater`, `Deliver` and a
stutter of `Announcements`, and the loss of a worker to `Forget`; that the queue is empty when a beat dispatches at once
is where the fixed cooldown is used.

*Manager.* `RegisteredRuns` is inductive together with "a sleeping worker runs"
and "before the monitor exists nobody starts a worker". `UnpausedInv` needs to say who comes: whenever the entry is empty some request is on
its way to filling it. The step that matters is that a request which finds an entry
gives up starting, which is safe because the entry exists at that moment, and
whoever empties it afterwards will fill it. `SerialInv` is about a history without
overlap: then at most one request is in flight, whatever runs is in the map or was
stopped by that request, and the configuration of the entry is the current one
unless that request is about to replace it.

*Group.* `GroupConsistent` is inductive alone. `AlarmingIsDown` (who announces the
outage is still in the set) gives `RecoveryAfterAlarm`: a recovery needs the set to
become empty. `DownSetIsConfirmed` is not inductive: while a notification is in
flight the set lags behind the worker, and `NoteIsChange` says that it lags by
exactly that notification; `CalmBeats` rules out the silent changes
(`UndisturbedBeat`).

*Tree.* `TreeIsSound` says nothing while a request stands between two statements,
so it is not inductive. `TreeInv` says what each statement has left: after the
first two of a move the group stands as a root of its own (the *cut*), after the
third the table is that of the new place, and the parent pointer follows last (the
*link* a create or move owes). Paths are of any length and the library's induction
takes an operator as a parameter; the lemmas use it as a fact about sets
(`SetInduction`: a set of numbers with 0 and all successors holds every number).
Every forest has no group below itself, so a walk upward visits no group twice and
ends within the number of groups (`WalksEnd`), the table computed from the pointers
of the initial state is sound (`ForestIsSound`), and `ReadersAgree` follows because
each reader walks, joins or unions along the same chain of ancestors
(`PathIsAncestors`, `QuestionReaches`, `BatchReaches`, `PageReaches`, `WaysDown`).

*Resolving.* The resolvers fold over what `ORDER BY depth DESC` makes of the rows of a
group. `PathShape` says what these rows are: the groups of the path, each with its
distance; so only one order of them goes down (`DownwardOrder`: positions that climb
strictly within `1..n` are the positions themselves, `StrictlyUp`), and it is the path
(`ChainIsPath`). A fold goes over sets of positions, the largest last; `FoldDefined`
shows that its equation has a solution, and each `...Fold` lemma reads from it the
results of the first `k` scopes. From there on no fold is left: a result that a scope
either takes over or leaves alone is that of the last scope that takes over
(`TakesLast`), which settles settings, and for each channel and each action whether it
is in the result (`ChannelsDecided`, `RemediesDecided`); what a page shows is folded
beside what the senders use, one step of the one giving one step of the other
(`ShownStep`). Types are asked for in the opposite direction until one answers
(`TypesDecided`). An edit of the settings changes the rows of one scope
(`OneScopeEdited`); a scope off the path of a monitor neither is its answer nor changes
it (`OffThePath`), and one on it restarts its worker (`PathRestarts`).

*After a beat.* `AnswersInv` bounds the age of what a question holds between its
awaits and of what the cache holds, each by the time since the last edit or edge of
a window; `AnswersFollowWindows` is the case in which all of them are younger.
`TransitionsInv` counts: announcements made, and those in the hands of a running
job, never exceed what the flags on the row, the crashes and the overlaps allow.
`CooldownInv` orders runs by when they began and were recorded. `AlertsInv` counts,
for each key, the unread alerts with the calls that are about to insert one.

*Agents.* `DeliveryInv` follows one owed command: it is in the row, or in the hands
of a push that has read it and goes on to its reply. That none is given twice is
`CommandsOnce`: what the row holds was given to nobody, and of two pushes that hold the
same command one read it while the other did (`shared`). `SnapshotInv` compares the
snapshot with what was last announced and with the silence, as long as no look-up has
written an older heartbeat over it (`outdated`). `MonitorsInv` says for
each call half way through which monitors it has still to touch. The proof found
the model wrong there: the mark `muddled` used to be cleared by any approval that
ended, also one that overlapped another call; it is now cleared by one that was
alone. `OneChannel` needs only that the hub's entry was the last socket to
register. `ListsInv` says that the last list on the wire, or the sync that is about
to send one, carries the monitors as they are, unless a change was not followed by
a sync (`behind`).

*Accounts.* Everything that names an account by its id (a link, a record of
Obligate, a report, a sign-in, a form, a removal) was made when that id was an
account of the identity it is for; `NamesBelong` says that the id has not come to
mean another's since, which is where "no id is given twice" is needed, and all three
invariants contain it. `SyncInv` says for each stage of a sign-in that has the tables
to itself (`alone`) what it has written so far; other steps leave the stage or clear
`alone` (`SyncStep`), its own takes it one further (`OwnSync`). `LinkInv` follows the
one account of an identity from its creation to its link, and from the link to its
removal; every way to leave it otherwise, a failing statement and the deletion of a link
found stale among them, is one that `stranded` records.
`FormsInv` keeps for a checked form the administrators its check saw: if it is
written while they are still those, one of them is left. `RowsMove` and `KeysMove`
sum up what all actions do to the tables, so that the invariants are
proved over a handful of cases.

*Imports.* `Consistent` says what must not happen to the tables; `FilesOK` (it and the
other invariants of files are in `ImportExportInvariants`) says why no import does it, though a file may be older than the tables, come back twice or into
another tenant. Of the tables it keeps that ids are given out in order and that neither
they nor the uuids of a table are given twice (`IdsOK`), that parents and owners exist and
are of the row's tenant (`UpsOK`, `OwnedOK`), that parents are older than their children
and the closure table gives a group itself and the ancestors of its parent (`TreeOf`); of
the file, that its groups are the two of the tenant or nameless, and that the first is a
root (`FileOK`). Half way through an import the invariant is `GoodAcc`: every uuid in
`known` stands for a row of this tenant that may be pointed at, and every uuid of this
tenant is known (`KnownNames`, `KnownCovers`), so `resolveConflict` never decides to
create what exists. `UpdateStays` and `CreatedStays` show it for one item, whatever the
item; `ItemsStay` carries it over a section, `OrderStays` and `SortStays` show that
sorting yields items of the file and nothing else, and `FoldStays` is why an invariant of
one step of a fold is one of the fold. An update may give the second group another
parent, and the code then leaves the closure table as it is: that sets `regrouped`, and
`ImportKeeps` shows that no other import leaves the table behind. `TreeOf` gives a group
its ancestors by way of its parent, `Consistent` all at once; `TableIsTree` goes from the
one to the other by the least group for which they would differ.

*Imports, item by item.* `StrategiesHold` says what a whole import has made of a whole
file. An item that is ignored or duplicated adds a row at most, with an id that no row
had, so what older rows own is not rebuilt (`ItemLeaves`). For 'update' the invariant of
an import is `Restoring`: beside `GoodAcc`, `known` holds the tenant's rows and nothing
else, and rows that no item stands for are those there were. `ItemPlaced` says that an
item then always ends up as one row, and `ShownStays` that the items after it leave it as
it is: they have other uuids, their rows other ids, and what a channel or a team points
at is looked up among groups and monitors, which the code imports before them
(`After`). So every section ends with all of its items shown (`SectionRestores`, by
`ItemsClimb`: an invariant that grows with every step of a fold); for groups that needs
that sorting forgets none (`OrderStays`). Two facts come from elsewhere and need an
invariant of their own, `NamesInv`: a file names no record twice and only such as were
there before the first import, so that a uuid tells the table (`Restores` looks for it
in all of them), and its teams cannot be deleted, so that a team is never created, and
never skipped because its name is taken.

*Imports that copy.* `CopyMirrorsFile` compares two images, the file's and that of the
new rows, although no item keeps its uuid. `CopiesAreFresh` shows that each becomes a new
row: into the same tenant because its uuid is known there and the strategy duplicates,
into another because the uuid is foreign. From then on its old uuid stands for the new
row (`StandsFor`), and stays so: later items have other uuids, and the uuid of a copy is
its id, larger than any in the file. The invariant, `Copying`, is that rows are old ones
or mirror an item, `Copied` that an item has a copy, which grows item by item and section
by section (`ItemCopies`, `SectionCopies`). An item points at the copy of its parent only
if that was made before it. Monitors follow the groups; among the groups it is what the
sort is for: `LinesGoDown` says that the line of a group starts with its parent,
`SortGoesDown` that in the sorted sequence every group comes after its parent, whatever
the order of the file. Both hold for any file in which parents have no parent
(`Shallow`), as those of the two groups of the tenant. That the parent is in the file at
all is `FreshFile`: an export takes every group of the tenant, in some order without
repetition, so all of them (`OrdersHoldAll`), and until the first edit or import the file
is an image of the rows.

*Checks.* `ExecutorsAgree` and the first part of `StatusIsEarned` are case analyses of
`Verdicts`: each type's verdict is taken apart until it depends on comparisons of
numbers, and the solver compares the executors' on every code, day and text that
`Exchange` allows, not on those of the run. The rest is by invariant: `SilenceInv` says
what the last push and the alarm have to do with the clock, `ResultInv` that what a
worker reads as a proxied result was concluded by an agent or is the answer to its
silence, `ComparesInv` that a watcher which lives compares with what it last told, or
with what a failed report kept from being told. The
proof found arms of CASE expressions in `Verdicts` and in `AgentDevices!Verdict` that
overlap: TLC takes the first of them, as the code does, but TLA+ leaves the choice
open and a theorem would have been about any of them. They are IFs now.

*The tab.* `ViewIsCurrent` speaks of a moment when nothing is on its way. `MonitorsInv`
says what holds before: for a monitor `m` and a status `x`, `Follows(k, x, m)` says that
a store which has `m` as `x`, and gets the events from the k-th on, ends up with the row,
unless two writes of `m` overlapped (`Uncertain`). `EventsKnown` has it for the row itself
and every `k`, so a reply made now starts out current wherever the wire stands;
`ViewShown` has it for the store and for every clean reply, with the whole wire. A
delivery is the one step that needs both the store and the event (`HeadHere`); what a
handler has written and not yet emitted is why a row may differ from what the events tell
(`HandlersKnown`). `Told` compares by `Looks`, since an agent's heartbeat may say `up`
of a row in alert; a beat that wrote no row, a push and a failed statement are never
`alone`. `BellInv` needs no order: what is missing of the newest alerts is on its way,
as long as there are no more than the bell lists; one more makes every event on its way
and every handler uncertain (`Unsure`), because which alert the list then drops depends
on the order of arrival. The proof found the model wrong: a reply made before a
log-in, which the code lets arrive after it, used to count as one of the new session.

**Assumptions.** The proofs use those named in the modules, which TLC evaluates in
every run. Those a reader may ask about: the sets of groups, jobs and adders are
finite; a closed maintenance window is kept for at least a tick (`Retention`);
what an aspect concerns is made of entities, groups are no entities, a monitor's device
is a device, and the words for "no scope" name none (`ScopesAssumption`); an HTTP monitor has no JSON path, and a JSON monitor no expected
codes or keyword of its own (`CasesAssumption`, as the forms have it); "nothing exported yet" is no file
(`NoFileAssumption`). None bounds the number of requests, pushes, sockets, groups,
windows or monitors. `WorkerManagerHistory` adds to `WorkerManager` whether
requests overlapped and whether one has paused; it disables no step (`HistoryAdds`).

**Only model-checked.** Liveness (`OutageTold`, `DeletedIsSilent`,
`GroupRecovers`, `SilenceReported`, `ChannelHeals`, `ViewHeals`): fairness and
ENABLED are out of the prover's reach. Every other property of the passing runs is
stated by a theorem.

## 5. Where the code differs from what it says

**With a run.** `GroupStuck`: with the default cooldown a group's recovery that
was debounced arrives as a change from `up` to `up` and is ignored
(`BaseMonitorWorker.ts:370`, `:533`); the group stays down, and until a worker or
the server is restarted its later outages and recoveries are not announced either.

**Excepted by a property**, met while modelling and confirmed by a counterexample
of an unweakened form of the property (B is `workers/BaseMonitorWorker.ts`, M is
`workers/MonitorWorkerManager.ts`, docs are below `docs/bookstack/Obliview/`):

*Worker and manager.*
- A notification queued before a maintenance window is flushed in it (B:344,
  against the comment at :400 and 08-monitoring/01-worker-manager.md:76).
- A silent change (inactive, maintenance, proxy) does not cancel the queued
  notification, which is then sent about a state that is over (B:366, against
  B:423-426 and 09-notifications/03-debounce-cooldown.md:84). Nor does an immediate
  dispatch at cooldown 0; and a cooldown that becomes 0 while something is queued
  strands it.
- A restart inside the retry window restores an unconfirmed `down` as confirmed; the
  outage is never announced (B:115, against the comment at :107-109).
- A dispatch that fails while it reads an agent's notification types is recorded as
  made (B:439-455). The suppressed `down` of an unresponsive proxy is confirmed, so
  that its end is announced as a recovery (B:263, B:410). Messages on changed values
  heed neither maintenance nor cooldown (B:231-247).
- Two overlapping edits leave two workers running, one out of the manager's reach
  (M:93, against 08-monitoring/01-worker-manager.md:5). A settings change skips a
  monitor that another request is restarting (M:159-161).
- The pause defect: a beat in flight overwrites `paused` (B:310); the monitor looks
  active, nothing checks it, and the next click on the button pauses it again.
- `removeMonitor` has no caller (`groupNotification.service.ts:194`); every update
  that mentions `groupNotifications` forgets the group's state
  (`groups.controller.ts:136`, where the service's comment at 201-204 speaks of the
  flag being toggled).

*Tree, maintenance, remedies, alerts.*
- A move or create that overlaps a move, or is cut short, leaves a closure table
  that is not the tree. A general group nested under a hidden one is missing from
  the sidebar. Moving or deleting a group restarts no worker, although its settings
  change. The statistics of groups are cached per tenant for 30 s as the first asker
  is allowed to see them (`groups.controller.ts:210`).
- Updating a window passes every key, so that a partial body nulls its schedule and
  scope; a recurring window is announced once ever
  (`maintenance.service.ts:735-738`); a weekly window over midnight is judged by the
  next day's weekday.
- A remedy is recorded when it has ended, so overlapping triggers all run it.
- The index of live alerts' stable keys is not unique, where the migration speaks of
  uniqueness; `cleanup` has no caller.

*Agents.*
- Approving or reinstating a device starts no worker (against
  `agent.service.ts:548-550`). A suspended device that was pending has no monitor
  after its reinstatement. Bulk suspension leaves monitors active. A command
  written between a push's read and its clear is lost, and so is one whose reply
  meets a closed socket, or whose push fails in a query after the clear
  (`agent.service.ts:889`, `agentHub.service.ts:171`); overlapping pushes deliver it
  twice. The page of a device that finds no snapshot reads the last heartbeat in two
  queries and stores it as the snapshot whatever a push has stored meanwhile (:805): the
  worker may then report a device offline that has just pushed, or the next push repeat
  an alert. Registration's empty
  heartbeat announces a false recovery. An uninstallation's clean-up ignores pushes
  that came since. Alerts go out twice, from the push and from the worker.
- A socket that closes while its key is looked up stays in the hub. Bulk edits and
  pauses do not sync the proxied monitors, a failed sync is not tried again, and two
  may overtake each other. Proxied results are never cleared, so that a new worker
  first reads one of the old configuration. The container proxy never stops its
  runners.

*Checks.* `Checks!Diverges` lists where the executors differ: unset keyword mode,
default code lists, JSON values that are text, certificates of agents, SSL monitors
with an untrusted issuer, the day of expiry, DNS matching, record types agents do
not know, SMTP greeting. A proxied docker, script, browser or value-watcher monitor
is always `down`, since its fields are not sent (03-monitoring-heartbeats.md:38 of the docs
promises them). The TypeScript proxy passes an agent of `node:https` as the dispatcher
of `fetch`, which rejects it, so that a monitor with `ignoreSsl` is always `down` there
(`src/proxy/src/checks/http.ts:22-24`); so is one whose column of headers is null, as it
is for every monitor made in the form, which has no field for them
(`003_create_monitors.ts:38`, `agentHub.service.ts:264`, `http.ts:17`). A value watcher's change is in memory and in
the row before `processResult` asks for maintenance and writes the heartbeat (B:213-220):
if either fails (B:318), or sending does (B:244), the change is never told. A proxied upside-down result is turned in place and read again, so
that it alternates (B:178). An expired certificate makes the request fail, so that
the status is `down` and never `ssl_expired`. Pushes are forgotten at a restart, and
so is a watched empty string.

*Files and accounts.*
- An import that updates a group's parent leaves its closure rows. Agent settings of
  existing groups are not overwritten (against `importExport.controller.ts:20`);
  several groups without a uuid collapse to one (against :110); the name of a team is
  unique over tenants, so that importing one elsewhere fails the file; settings and
  remediation bindings ignore the strategy; copies lose their push token.
- Overlapping demotions, deactivations or deletions can leave no active
  administrator (`users.controller.ts:71-81`); at a restart an inactive one counts as
  existing. A crash between the two statements of a first sign-in leaves an account
  nothing is linked to, and its owner cannot sign in again; a link insert that fails
  (`obligateCallback.routes.ts:120`) does the same, and so does a sign-in that has read a
  link and no account any more: it deletes the identity's link by then (:89-95), also
  when a concurrent sign-in has just made it. Nor can an identity sign in whose name
  another account keeps. Memberships of tenants are never removed.
- Two overlapping uses of one password-reset token both succeed
  (`passwordReset.service.ts:92`).

*Browser.* Replies and events are not ordered, so a stale reply replaces newer
events, also one made before a log-out that arrives after the next log-in; nothing is fetched again after a reconnection; at log-in the socket joins
tenant 1, whatever the user's (`socket.ts:42`); switching the tenant opens a socket
without listeners; changes of monitors are sent to administrators' rooms only;
an agent's heartbeats say `up` whatever its thresholds say (B:222,
`AgentMonitorWorker.ts:159-163`) and `addHeartbeat` takes the status from them, so that
a monitor in alert looks up between the pushes and, while its row stays `alert`, never
looks otherwise for more than a beat; the rows of a push are written after its events;
the bell lists the newest 200 alerts of all the user's tenants (`liveAlert.service.ts:111`)
although each tenant keeps 200, and drops beyond 200 by order of arrival
(`liveAlertsStore.ts:105`);
approvals, imports and deletions of groups send no event; the alerts' store calls
`/api/api/...`, so that the server is never told of what was read.

## 6. What is not modelled

Of the modelled components: a restart that fails between stop and start, bulk
updates, `stopAll` (WorkerManager); moves, flag changes, nested flagged groups,
maintenance and agents' monitors in `GroupAlerting`; the other
operators of a value watcher, messages and response times of checks; thresholds,
display settings and metrics of agents; the legacy section `agentGroups` of a file;
order and names of groups; in the browser the badge 'updating' of an agent and the
button that clears the bell. `Pause` of `MonitorWorker` and `Delete` and `Restart` of
`GroupAlerting` happen between two beats, and `LoseWorker` of `MonitorWorker` drops the
beat in flight, which the code lets run to its end when a worker is replaced: the
properties of `MonitorWorker` are about the beats of one worker. `WorkerManager` is where
replaced and stopped workers meet a beat in flight.

Of the rest, and why:

- The client's pages and components (22,000 lines, nearly half of the program) are
  presentation and forms over the stores that `LiveView` models. What is to be known
  of them is the order of their requests, and that is there.
- Channel plugins, remediation executors, metrics collection, installers, the tray
  application: one call to the outside each, no state.
- Permission sets, SMTP servers, configuration, profiles: rows by name, edited one at
  a time; the last write wins.
- Heartbeats' retention: append, aggregate, purge by age.
- Plumbing of the HTTP API, validation schemas, types and migrations: declarations.

These are the reason why the map covers about a sixth of the lines: the definitions stand
for the code that has a protocol, and not for pages that have none.

## 7. What is left

`GroupAlerting` with `removeGroup` and pauses as disturbances; `WorkerManager` with
failing queries.
