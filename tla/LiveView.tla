------------------------------ MODULE LiveView ------------------------------
(***************************************************************************)
(* What a browser tab shows: the monitors of the session's tenant and the  *)
(* live alerts of the user's tenants.  Both come from two sources that     *)
(* nothing orders: the replies of REST requests, which replace the store,  *)
(* and the events of a socket, which change it.                            *)
(*                                                                         *)
(* On the server a handler writes the row and emits the event in separate  *)
(* steps, so that two handlers may emit in another order than they wrote.  *)
(* The socket belongs to rooms of the tenant it was opened for; requests   *)
(* are answered for the tenant of the session, which all tabs share.       *)
(***************************************************************************)
EXTENDS Naturals, Sequences, FiniteSets

CONSTANTS
  Tenants,
  DefaultTenant,   \* tenant 1, for a socket that names none
  Member,          \* the user's rows in user_tenants
  Monitors,
  Alerts,          \* their ids, in the order of their creation
  MaxListed,       \* 200: the alerts kept of a tenant, fetched of all and listed in the tab
  Home,            \* the tenant of each monitor and of each alert
  Faults,          \* sets of "drop", "switch", "quiet", "tab", "push" and "fail":
                   \* what may go wrong together
  MaxRequests,     \* bound on the API requests of others in flight
  MaxWire,         \* bound on the events on their way
  MaxFetches,      \* bound on this tab's requests in flight
  Null

ASSUME TenantAssumption ==
  /\ DefaultTenant \in Tenants /\ Null \notin Tenants
  /\ Member \subseteq Tenants
  /\ Home \in [Monitors \cup Alerts -> Tenants] /\ Monitors \cap Alerts = {}

ASSUME BellAssumption == Alerts \subseteq Nat /\ IsFiniteSet(Alerts) /\ MaxListed \in Nat \ {0}

ASSUME WireAssumption == MaxWire \in Nat

VARIABLES
  status,          \* the monitors' rows: a status, or "absent"
  table,           \* live_alerts
  handlers,        \* beats, requests and alerts on their way through the server
  session,         \* currentTenantId of the session, Null without a session
  admin,           \* the user's role
  topic,           \* which of the two stores a behaviour is about
  faults,          \* what may go wrong in it
  pinned,          \* the statuses for which a monitor's heartbeat says "up"
  socket,          \* Null or [tenant, open, alerts]: its rooms
  wire,            \* events on their way to the tab
  heard,           \* useSocket's listeners are on this socket
  page,            \* "loading", "login" or "app"
  fetches,         \* requests in flight: [reply, clean]
  store,           \* monitorStore.monitors
  bell,            \* liveAlertsStore.alerts
  removed,         \* the alerts removed in this tab since its last fetch
  excused          \* history: an event has passed the store by since its last fetch

server  == <<status, table, handlers>>
user    == <<admin, topic, faults, pinned>>
link    == <<socket, wire, heard>>
stores  == <<store, bell, removed>>
viewVars    == <<server, session, user, link, page, fetches, stores, excused>>

Active   == {"pending", "up", "down", "alert"}
Statuses == Active \cup {"paused", "absent"}
Nothing  == [m \in Monitors |-> "absent"]

\* An agent's monitor is "up" as long as it can be reached, whatever its row says of its
\* thresholds; upside-down it is "down" then.
Pins == {{}, {"alert"}, {"alert", "down"}}
IsAgent(m) == pinned[m] # {}

\* What a tab may show of a monitor in this status.
Looks(shown, row, m) == shown = row \/ (shown = "up" /\ row \in pinned[m])

FirstTenant ==
  IF DefaultTenant \in Member \/ Member = {} THEN DefaultTenant ELSE CHOOSE t \in Member : TRUE

\* The tenants that /tenant/switch grants.
MayEnter == IF admin THEN Tenants ELSE Member

\* Handlers and events are about a monitor and a status, or about an alert.
About(x) == IF x.kind = "alert" THEN x.of \in Alerts ELSE x.of \in Monitors /\ x.status \in Statuses

Handlers ==
  {h \in [kind : {"heartbeat", "created", "deleted", "updated", "push", "alert"},
          of : Monitors \cup Alerts, status : Statuses \cup {"new"}, at : {"write", "emit"},
          alone : BOOLEAN] :
     About(h) /\ (h.at = "write" => h.kind \in {"heartbeat", "push"})}

Events ==
  {e \in [kind : {"heartbeat", "created", "deleted", "updated", "push", "alert", "change"},
          of : Monitors \cup Alerts, status : Statuses \cup {"new"}, alone : BOOLEAN] : About(e)}

Replies == IF topic = "monitors" THEN [Monitors -> Statuses] ELSE SUBSET Alerts
Fetches == [reply : {Null} \cup Replies, clean : BOOLEAN]

ViewTypeOK ==
  /\ status \in [Monitors -> Statuses]
  /\ table \subseteq Alerts
  /\ handlers \subseteq Handlers
  /\ session \in Tenants \cup {Null}
  /\ admin \in BOOLEAN
  /\ topic \in {"monitors", "alerts"} /\ faults \in Faults /\ pinned \in [Monitors -> Pins]
  /\ socket = Null \/ socket \in [tenant : Tenants, open : BOOLEAN, alerts : BOOLEAN]
  /\ wire \in Seq(Events) /\ Len(wire) <= MaxWire
  /\ heard \in BOOLEAN
  /\ page \in {"loading", "login", "app"}
  /\ fetches \subseteq Fetches
  /\ store \in [Monitors -> Statuses]
  /\ bell \subseteq Alerts /\ removed \subseteq Alerts
  /\ excused \in BOOLEAN

ViewInit ==
  /\ status \in [Monitors -> {"absent", "up"}]
  /\ table = {}
  /\ handlers = {}
  /\ session = Null
  /\ admin \in BOOLEAN
  /\ topic \in {"monitors", "alerts"} /\ faults \in Faults /\ pinned \in [Monitors -> Pins]
  /\ socket = Null /\ wire = <<>> /\ heard = FALSE
  /\ page = "login"
  /\ fetches = {}
  /\ store = Nothing /\ bell = {} /\ removed = {}
  /\ excused = TRUE

-----------------------------------------------------------------------------
(***************************************************************************)
(* The socket: rooms and events.                                           *)
(***************************************************************************)
Connected(tenant) == [tenant |-> tenant, open |-> FALSE, alerts |-> FALSE]

\* emitToVisibleUsers reaches the admins of the monitor's tenant and, by their own
\* room, the users with access to it; emitMonitorEvent and an agent's push only the
\* former; an alert the notification room of its tenant.
Reaches(event) ==
  /\ socket # Null
  /\ socket.open
  /\ CASE event.kind = "alert" -> socket.alerts /\ Home[event.of] \in Member
       [] event.kind \in {"heartbeat", "change"} -> admin => socket.tenant = Home[event.of]
       [] OTHER -> admin /\ socket.tenant = Home[event.of]

\* What the tab's requests ask for.
Concerns(of) == session # Null /\ IF of \in Monitors THEN session = Home[of] ELSE Home[of] \in Member

\* An event that passes the page by leaves its stores behind the server, the replies
\* on their way included.
Missed == {[f EXCEPT !.clean = f.reply = Null] : f \in fetches}

\* The events on their way, of which those about x now tell of an earlier row.
Outdated(x) ==
  [i \in DOMAIN wire |-> [wire[i] EXCEPT !.alone = wire[i].of # x /\ wire[i].alone]]

\* When the alerts are more than the bell can list, none of them is sure of its place.
Unsure == [i \in DOMAIN wire |-> [wire[i] EXCEPT !.alone = FALSE]]

Emit(event) ==
  IF Reaches(event)
    THEN /\ Len(wire) < MaxWire
         /\ wire' = Append(wire, event)
         /\ UNCHANGED <<fetches, excused>>
    ELSE /\ fetches' = IF Concerns(event.of) THEN Missed ELSE fetches
         /\ excused' = (excused \/ Concerns(event.of))
         /\ wire' = Outdated(event.of)

Event(kind, h) == [kind |-> kind, of |-> h.of, status |-> h.status, alone |-> h.alone]

(***************************************************************************)
(* The server.  Handlers that overlap on one monitor may emit in another   *)
(* order than they write: history `alone` tells them apart.                *)
(***************************************************************************)
On(m) == {h \in handlers : h.of = m}

\* handlers with h, which begins now.
With(h) ==
  {IF k.of = h.of THEN [k EXCEPT !.alone = FALSE] ELSE k : k \in handlers} \cup {h}

Handler(kind, of, new, at) ==
  [kind |-> kind, of |-> of, status |-> new, at |-> at, alone |-> On(of) = {}]

\* What a beat may find; the warnings of a certificate are like "down" here.
Results(m) == {"up", "down"} \cup IF IsAgent(m) THEN {"alert", "pending"} ELSE {}

\* A change is announced before it is written; the worker compares with the status it
\* has confirmed, so that an outage it retries is none and one it was started with may be.
BeginBeat(m) ==
  /\ topic = "monitors"
  /\ status[m] \in Active
  /\ \A h \in On(m) : h.kind # "heartbeat"
  /\ \E new \in Results(m) :
       LET h == Handler("heartbeat", m, new, "write")
       IN  /\ handlers' = With(h)
           /\ Emit(Event("change", h)) \/ UNCHANGED <<wire, fetches, excused>>
  /\ UNCHANGED <<status, table, session, user, socket, heard, page, stores>>

\* updateStatus: no row is updated when the monitor is gone.
WriteBeat(h) ==
  /\ h.at = "write" /\ h.kind = "heartbeat"
  /\ status' = [status EXCEPT ![h.of] = IF @ = "absent" THEN @ ELSE h.status]
  /\ handlers' = (handlers \ {h}) \cup {[h EXCEPT !.at = "emit"]}
  /\ UNCHANGED <<table, session, user, link, page, fetches, stores, excused>>

\* The first beat of an agent's worker finds no push yet: it leaves the row to the agent,
\* and tells the tabs all the same.
SkipWrite(h) ==
  /\ h.at = "write" /\ h.kind = "heartbeat"
  /\ IsAgent(h.of) /\ h.status = "down"
  /\ handlers' = (handlers \ {h}) \cup {[h EXCEPT !.at = "emit", !.alone = FALSE]}
  /\ UNCHANGED <<status, table, session, user, link, page, fetches, stores, excused>>

\* POST, DELETE and pause of a monitor: the row is written, the worker started or
\* stopped, and the event sent after that.
Write(kind, m, new) ==
  /\ topic = "monitors"
  /\ Cardinality({h \in handlers : h.kind \notin {"heartbeat", "push"}}) < MaxRequests
  /\ status' = [status EXCEPT ![m] = new]
  /\ handlers' = With(Handler(kind, m, new, "emit"))
  /\ UNCHANGED <<table, session, user, link, page, fetches, stores, excused>>

Create(m) == status[m] = "absent" /\ Write("created", m, "pending")
Delete(m) == status[m] # "absent" /\ Write("deleted", m, "absent")
Pause(m) ==
  /\ status[m] # "absent"
  /\ Write("updated", m, IF status[m] = "paused" THEN "pending" ELSE "paused")

\* PUT: the event carries the whole row as the update returned it.
Update(m) == status[m] # "absent" /\ Write("updated", m, status[m])

\* Groups deleted with their monitors' groups, devices approved, files imported: no event.
WriteQuietly(m) ==
  /\ "quiet" \in faults
  /\ topic = "monitors"
  /\ \E new \in {"absent", "pending"} \ {status[m]} : status' = [status EXCEPT ![m] = new]
  /\ handlers' = {[h EXCEPT !.alone = h.of # m /\ h.alone] : h \in handlers}
  /\ wire' = Outdated(m)
  /\ excused' = TRUE
  /\ fetches' = Missed
  /\ UNCHANGED <<table, session, user, socket, heard, page, stores>>

\* handlePush: the status is announced at once; the row is written and the heartbeat, an
\* "up", inserted and announced side by side, and either may fail.
Push(m) ==
  /\ "push" \in faults
  /\ topic = "monitors"
  /\ IsAgent(m) /\ status[m] # "absent"
  /\ \A h \in On(m) : h.kind # "push"
  /\ \E new \in {"up", "alert"} :
       LET h == [Handler("push", m, new, "write") EXCEPT !.alone = FALSE]
       IN  /\ handlers' = With(h) \cup {[h EXCEPT !.status = "up", !.at = "emit"]}
           /\ Emit(Event("push", h))
  /\ UNCHANGED <<status, table, session, user, socket, heard, page, stores>>

\* The events of a push may all have gone before its row is written.
WritePush(h) ==
  /\ h.at = "write" /\ h.kind = "push"
  /\ status' = [status EXCEPT ![h.of] = IF @ = "absent" THEN @ ELSE h.status]
  /\ handlers' = {[k EXCEPT !.alone = k.of # h.of /\ k.alone] : k \in handlers \ {h}}
  /\ wire' = Outdated(h.of)
  /\ excused' = TRUE
  /\ fetches' = Missed
  /\ UNCHANGED <<table, session, user, socket, heard, page, stores>>

\* The newest MaxListed of them.
Latest(alerts) == {a \in alerts : Cardinality({b \in alerts : b > a}) < MaxListed}

Ours(alerts) == {a \in alerts : Home[a] \in Member}

\* getForTenants: the newest of all the user's tenants.
ToList == Latest(Ours(table))

\* Only the newest of its tenant stay in the table.
Trimmed(a) ==
  LET posted == table \cup {a}
  IN  {b \in posted : Home[b] = Home[a] => b \in Latest({c \in posted : Home[c] = Home[a]})}

Crowded(a) == Home[a] \in Member /\ Cardinality(Ours(table \cup {a})) > MaxListed

\* liveAlertService.add.
Post(a) ==
  /\ topic = "alerts"
  /\ On(a) = {} /\ \A b \in table : b < a
  /\ table' = Trimmed(a)
  /\ LET h == Handler("alert", a, "new", "emit")
     IN  IF Crowded(a)
           THEN /\ handlers' = {[k EXCEPT !.alone = FALSE] : k \in With(h)}
                /\ wire' = Unsure
                /\ excused' = TRUE
                /\ fetches' = Missed
           ELSE handlers' = With(h) /\ UNCHANGED <<wire, fetches, excused>>
  /\ UNCHANGED <<status, session, user, socket, heard, page, stores>>

\* Removed by another client: no event.
Discard(a) ==
  /\ "quiet" \in faults
  /\ a \in table /\ On(a) = {}
  /\ table' = table \ {a}
  /\ wire' = Outdated(a)
  /\ excused' = TRUE
  /\ fetches' = Missed
  /\ UNCHANGED <<status, handlers, session, user, socket, heard, page, stores>>

\* The heartbeat of an agent that can be reached is pinned to "up", but for the beats of
\* the grace period, which repeat the confirmed status.  POST /monitors waits two seconds
\* and reads the row once more for its event.
Carried(h) ==
  CASE h.kind = "heartbeat" /\ h.status \in pinned[h.of] -> {h.status, "up"}
    [] h.kind = "created" /\ status[h.of] # "absent"     -> {status[h.of]}
    [] OTHER                                             -> {h.status}

EmitFor(h) ==
  /\ h.at = "emit"
  /\ handlers' = handlers \ {h}
  /\ \E s \in Carried(h) : Emit([Event(h.kind, h) EXCEPT !.status = s])
  /\ UNCHANGED <<status, table, session, user, socket, heard, page, stores>>

\* A statement fails: what is not written or sent yet never is.
Fail(h) ==
  /\ "fail" \in faults
  /\ handlers' = handlers \ {h}
  /\ wire' = Outdated(h.of)
  /\ fetches' = IF Concerns(h.of) THEN Missed ELSE fetches
  /\ excused' = (excused \/ Concerns(h.of))
  /\ UNCHANGED <<status, table, session, user, socket, heard, page, stores>>

-----------------------------------------------------------------------------
(***************************************************************************)
(* The connection.                                                         *)
(***************************************************************************)

\* io.use and 'connection': the rooms of the handshake's tenant at once, the
\* notification rooms when a query has told the user's tenants.
Connect ==
  /\ socket # Null /\ ~socket.open
  /\ socket' = [socket EXCEPT !.open = TRUE]
  /\ UNCHANGED <<server, session, user, wire, heard, page, fetches, stores, excused>>

JoinNotifications ==
  /\ topic = "alerts"
  /\ socket # Null /\ socket.open /\ ~socket.alerts
  /\ socket' = [socket EXCEPT !.alerts = TRUE]
  /\ UNCHANGED <<server, session, user, wire, heard, page, fetches, stores, excused>>

\* Lost, or given up after a sleep: the socket connects again, for the same tenant
\* and with its listeners, and nothing is fetched again.
Drop ==
  /\ "drop" \in faults
  /\ socket # Null /\ socket.open
  /\ socket' = Connected(socket.tenant)
  /\ wire' = <<>>
  /\ IF wire = <<>> THEN UNCHANGED <<fetches, excused>>
                    ELSE fetches' = Missed /\ excused' = TRUE
  /\ UNCHANGED <<server, session, user, heard, page, stores>>

\* useSocket's listeners and the actions of the stores they call.
\* Mutants: removeMonitor forgotten; addHeartbeat leaves the status alone.
KeepsDeleted(event) ==
  CASE event.kind = "created" -> [store EXCEPT ![event.of] = event.status]
    [] event.kind \in {"alert", "deleted"} -> store
    [] OTHER -> [store EXCEPT ![event.of] = IF @ = "absent" THEN @ ELSE event.status]

BeatsIgnored(event) ==
  CASE event.kind = "created" -> [store EXCEPT ![event.of] = event.status]
    [] event.kind = "deleted" -> [store EXCEPT ![event.of] = "absent"]
    [] event.kind \in {"alert", "heartbeat"} -> store
    [] OTHER -> [store EXCEPT ![event.of] = IF @ = "absent" THEN @ ELSE event.status]

Changed(event) ==
  CASE event.kind = "created" -> [store EXCEPT ![event.of] = event.status]
    [] event.kind = "deleted" -> [store EXCEPT ![event.of] = "absent"]
    [] event.kind = "alert"   -> store
    [] OTHER -> [store EXCEPT ![event.of] = IF @ = "absent" THEN @ ELSE event.status]

\* addAlertFromServer: the new one is put first, and the list cut behind it.
Full(a) == a \notin bell /\ Cardinality(bell) >= MaxListed

Inserted(a) ==
  IF Full(a) THEN {(bell \ {b}) \cup {a} : b \in bell} ELSE {bell \cup {a}}

Deliver ==
  /\ wire # <<>>
  /\ LET event == Head(wire)
     IN  /\ wire' = Tail(wire)
         /\ fetches' = Missed
         /\ IF heard
              THEN /\ store' = Changed(event)
                   /\ bell' \in IF event.kind = "alert" THEN Inserted(event.of) ELSE {bell}
                   /\ excused' = (excused \/ ~event.alone
                                    \/ IF event.kind = "alert" THEN Full(event.of)
                                       ELSE session # Home[event.of])
              ELSE excused' = TRUE /\ UNCHANGED <<store, bell>>
  /\ UNCHANGED <<server, session, user, socket, heard, page, removed>>

-----------------------------------------------------------------------------
(***************************************************************************)
(* The tab.                                                                *)
(***************************************************************************)
New == [reply |-> Null, clean |-> TRUE]

\* A load of the page: the stores are empty until checkSession has answered.
Loads ==
  /\ page' = "loading"
  /\ socket' = Null /\ wire' = <<>> /\ heard' = FALSE
  /\ fetches' = {}
  /\ store' = Nothing /\ bell' = {} /\ removed' = {}
  /\ excused' = TRUE

Reload ==
  /\ page # "loading"
  /\ Loads
  /\ UNCHANGED <<server, session, user>>

\* The application is shown: the socket is opened, useSocket listens, the stores are
\* fetched.
Shows(tenant) ==
  /\ page' = "app"
  /\ socket' = Connected(tenant)
  /\ heard' = TRUE
  /\ UNCHANGED wire

CheckSession ==
  /\ page = "loading"
  /\ IF session = Null THEN page' = "login" /\ UNCHANGED <<link, fetches>>
                       ELSE Shows(session) /\ fetches' = fetches \cup {New}
  /\ UNCHANGED <<server, session, user, stores, excused>>

\* login() opens the socket without a tenant; after a second factor checkSession
\* names the session's.  A reply made for an earlier session may still come.
LogIn ==
  /\ page = "login"
  /\ Cardinality(fetches) < MaxFetches
  /\ session' = FirstTenant
  /\ \E tenant \in {DefaultTenant, FirstTenant} : Shows(tenant)
  /\ fetches' = Missed \cup {New}
  /\ excused' = TRUE
  /\ UNCHANGED <<server, user, stores>>

\* The stores keep what they hold.
LogOut ==
  /\ page = "app"
  /\ session' = Null
  /\ page' = "login"
  /\ socket' = Null /\ wire' = <<>> /\ heard' = FALSE
  /\ fetches' = Missed
  /\ excused' = TRUE
  /\ UNCHANGED <<server, user, stores>>

\* The sidebar, the dashboard and the group tree fetch when they are mounted; the
\* alerts are fetched once.
FetchAgain ==
  /\ page = "app" /\ topic = "monitors"
  /\ Cardinality(fetches \cup {New}) <= MaxFetches
  /\ fetches' = fetches \cup {New}
  /\ UNCHANGED <<server, session, user, link, page, stores, excused>>

Visible ==
  IF topic = "alerts" THEN ToList
  ELSE [m \in Monitors |-> IF Home[m] = session THEN status[m] ELSE "absent"]

\* Without a session the request fails, and sends the page to the login.
Reply(f) ==
  /\ f.reply = Null
  /\ CASE session # Null ->
            /\ fetches' = (fetches \ {f}) \cup {[f EXCEPT !.reply = Visible]}
            /\ UNCHANGED <<link, page, stores, excused>>
       [] session = Null /\ page = "app" -> Loads
       [] OTHER ->
            /\ fetches' = fetches \ {f}
            /\ UNCHANGED <<link, page, stores, excused>>
  /\ UNCHANGED <<server, session, user>>

\* Mutant: a reply is merged into the store.
ApplyMerges(f) ==
  /\ f.reply # Null
  /\ fetches' = fetches \ {f}
  /\ IF topic = "alerts" THEN bell' = bell \cup f.reply /\ removed' = {} /\ UNCHANGED store
                         ELSE store' = f.reply /\ UNCHANGED <<bell, removed>>
  /\ excused' = ~f.clean
  /\ UNCHANGED <<server, session, user, link, page>>

\* The reply replaces the store, whatever has happened since it was made.
Apply(f) ==
  /\ f.reply # Null
  /\ fetches' = fetches \ {f}
  /\ IF topic = "alerts" THEN bell' = f.reply /\ removed' = {} /\ UNCHANGED store
                         ELSE store' = f.reply /\ UNCHANGED <<bell, removed>>
  /\ excused' = ~f.clean
  /\ UNCHANGED <<server, session, user, link, page>>

\* removeAlert: the list first, then a request to a path the server does not have.
RemoveAlert(a) ==
  /\ page = "app" /\ a \in bell
  /\ bell' = bell \ {a}
  /\ removed' = removed \cup {a}
  /\ UNCHANGED <<server, session, user, link, page, fetches, store, excused>>

\* setCurrentTenant reloads the page.
Switch ==
  /\ page = "app" /\ session # Null
  /\ \E t \in MayEnter \ {session} : session' = t
  /\ Loads
  /\ UNCHANGED <<server, user>>

\* Its failure is swallowed: handleSwitch fetches (FetchAgain), waits for the replies and
\* replaces the socket by one for the other tenant, on which nobody listens.
SwitchFails ==
  /\ "switch" \in faults
  /\ page = "app" /\ fetches = {}
  /\ \E t \in MayEnter \ {session} : socket' = Connected(t)
  /\ wire' = <<>> /\ heard' = FALSE
  /\ excused' = (excused \/ wire # <<>>)
  /\ UNCHANGED <<server, session, user, page, fetches, stores>>

\* Another tab of the browser switches or ends the session they share.
OtherTab ==
  /\ "tab" \in faults
  /\ \E t \in (IF session = Null THEN {FirstTenant} ELSE MayEnter \cup {Null}) \ {session} :
       session' = t
  /\ excused' = TRUE
  /\ fetches' = Missed
  /\ UNCHANGED <<server, user, link, page, stores>>

-----------------------------------------------------------------------------
Serve(h) == WriteBeat(h) \/ SkipWrite(h) \/ WritePush(h) \/ EmitFor(h) \/ Fail(h)

Request(m) == Create(m) \/ Delete(m) \/ Pause(m) \/ Update(m)

ViewNext ==
  \/ \E m \in Monitors : BeginBeat(m) \/ Request(m) \/ Push(m) \/ WriteQuietly(m)
  \/ \E a \in Alerts : Post(a) \/ Discard(a) \/ RemoveAlert(a)
  \/ \E h \in handlers : Serve(h)
  \/ Connect \/ JoinNotifications \/ Drop \/ Deliver
  \/ Reload \/ CheckSession \/ LogIn \/ LogOut \/ FetchAgain
  \/ \E f \in fetches : Reply(f) \/ Apply(f)
  \/ Switch \/ SwitchFails \/ OtherTab

ViewSpec == ViewInit /\ [][ViewNext]_viewVars

\* Beats are timed, and written and told in the end; the socket delivers in order.
ViewFairness ==
  /\ \A m \in Monitors :
       /\ SF_viewVars(BeginBeat(m))
       /\ SF_viewVars(\E h \in On(m) : WriteBeat(h))
       /\ SF_viewVars(\E h \in On(m) : h.kind = "heartbeat" /\ EmitFor(h))
  /\ WF_viewVars(Deliver)

-----------------------------------------------------------------------------
Settled == page = "app" /\ fetches = {} /\ wire = <<>> /\ handlers = {}

\* Once everything is answered, emitted and delivered, the tab shows the monitors of
\* the session's tenant as the server has them (an agent in alert as such, or as up: its
\* heartbeats say so): unless an event has passed it by since its last fetch, because the
\* connection was lost or not open yet, because its kind is sent to administrators only,
\* because a statement failed before it or it told of a row that was not written, because
\* it arrived between the making of a reply and its arrival, because two handlers
\* overlapped on the monitor or its agent pushed, or because the session was moved to
\* another tenant behind the tab.
ViewIsCurrent ==
  topic = "monitors" /\ Settled /\ ~excused =>
    \A m \in Monitors : Looks(store[m], Visible[m], m)

\* Likewise the bell lists the newest alerts of all the user's tenants and no other: none
\* is lost between the fetch and the first event.  One that was removed in the tab may be
\* missing, or be back when its event came late; and once his tenants have more than the
\* bell can list, a new alert excuses it until the next fetch.
BellIsComplete ==
  topic = "alerts" /\ Settled /\ ~excused => Visible \ removed \subseteq bell /\ bell \subseteq Visible

(***************************************************************************)
(* Why the tab is current.                                                 *)
(***************************************************************************)
Coming(x) == {i \in DOMAIN wire : wire[i].of = x}

\* An event that will excuse the stores is among those from the k-th on, or a handler will
\* send one.
Uncertain(k, m) ==
  (\E h \in On(m) : ~h.alone) \/ (\E i \in Coming(m) : i >= k /\ ~wire[i].alone)

\* A store that has m as x will list m when the events from the k-th on are delivered.
Listed(k, x, m) ==
  \E i \in k - 1 .. Len(wire) :
    /\ IF i < k THEN x # "absent" ELSE wire[i].of = m /\ wire[i].kind = "created"
    /\ \A j \in i + 1 .. Len(wire) : wire[j].of = m => wire[j].kind # "deleted"

\* The last event about m carries its status, as far as events tell; without one x must.
Told(k, x, m) ==
  IF \A i \in Coming(m) : i < k
    THEN Looks(x, status[m], m)
    ELSE \A i \in Coming(m) :
           (\A j \in Coming(m) : j <= i) => Looks(wire[i].status, status[m], m)

Follows(k, x, m) ==
  \/ Uncertain(k, m)
  \/ /\ \/ \E h \in On(m) : h.kind \in {"created", "deleted"}
        \/ Listed(k, x, m) <=> status[m] # "absent"
     /\ On(m) = {} /\ status[m] # "absent" => Told(k, x, m)

Current(view) ==
  \A m \in Monitors : IF Home[m] = session THEN Follows(1, view[m], m) ELSE view[m] = "absent"

\* A handler that no other overlapped finds the row as it left it.
Undisturbed(h) ==
  /\ On(h.of) = {h} /\ h.kind # "push"
  /\ h.kind = "created" => status[h.of] # "absent"
  /\ h.kind = "deleted" => status[h.of] = "absent"
  /\ h.kind = "updated" => status[h.of] = h.status
  /\ h.kind = "heartbeat" =>
       status[h.of] # "absent" /\ (h.at = "emit" => status[h.of] = h.status)

HandlersKnown ==
  \A h \in handlers :
    h.kind # "alert" /\ (h.kind # "deleted" => h.status # "absent") /\ (h.alone => Undisturbed(h))

EventsKnown ==
  /\ \A i \in DOMAIN wire :
       wire[i].kind # "alert" /\ (wire[i].kind # "deleted" => wire[i].status # "absent")
  /\ \A m \in Monitors : \A k \in 1 .. Len(wire) + 1 : Follows(k, status[m], m)

ViewShown ==
  /\ ~excused => Current(store)
  /\ \A f \in fetches : f.clean /\ f.reply # Null => Current(f.reply)

\* What a reply made now would show is followed by the events from any point on, so that a
\* store or a reply that nothing has passed by is current once they are delivered.
MonitorsInv == topic = "monitors" => HandlersKnown /\ EventsKnown /\ ViewShown

\* Likewise of the bell: what it lists is to be listed, what it misses is on its way.
Complete(list, gone) ==
  /\ list \subseteq ToList
  /\ \A a \in ToList \ gone : a \in list \/ Coming(a) # {} \/ On(a) # {}

AlertsKnown ==
  /\ \A h \in handlers :
       h.kind = "alert" /\ (h.alone /\ Home[h.of] \in Member => h.of \in ToList)
  /\ \A i \in DOMAIN wire :
       wire[i].kind = "alert" /\ Home[wire[i].of] \in Member /\ (wire[i].alone => wire[i].of \in ToList)

BellShown ==
  /\ ~excused => session # Null /\ Complete(bell, removed)
  /\ \A f \in fetches : f.clean /\ f.reply # Null => session # Null /\ Complete(f.reply, {})

BellInv == topic = "alerts" => AlertsKnown /\ BellShown

Attached(m) ==
  /\ page = "app" /\ heard /\ session = Home[m]
  /\ socket # Null /\ (socket # Null => socket.open /\ socket.tenant = Home[m])

\* A monitor that the tab knows and that keeps a status is shown with it in the end,
\* whatever was missed before: the next beat that is written tells it again.  An agent that
\* stays in alert may be shown as up for good.
Keeps(m, s) ==
  /\ status[m] = s
  /\ \A h \in On(m) : h.kind \in {"heartbeat", "push"} => Looks(h.status, s, m)

ViewHeals ==
  \A m \in Monitors : \A s \in {"up", "down", "alert"} :
    <>[](Attached(m) /\ Keeps(m, s) /\ store[m] # "absent") => <>[]Looks(store[m], s, m)
=============================================================================
