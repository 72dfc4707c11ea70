---------------------------- MODULE AgentChannel ----------------------------
(***************************************************************************)
(* The command channel of one agent and the monitors it checks as a proxy: *)
(* the hub's entry for the device, the sockets the agent has opened, one   *)
(* after the other, the lists of monitors on their way to the agent, the   *)
(* agent's runners and the results on their way back.                      *)
(*                                                                         *)
(* A socket fails without telling either side: the agent gives up when no  *)
(* frame arrives in time, the server may find out much later, and a socket *)
(* may close while the server still looks up its key.  Heartbeats and      *)
(* commands on the channel are AgentDevices.                               *)
(***************************************************************************)
EXTENDS Integers, Sequences, FiniteSets

CONSTANTS
  Sockets,     \* connections, used again once nothing refers to them
  NoSocket,
  Monitors,    \* monitors that may have the agent as their proxy
  Editors,     \* calls of the monitors API that may overlap
  MaxEdits,    \* bound: changes of monitors
  MaxFaults    \* bound: broken connections, failed queries and server crashes

ASSUME AgentChannelAssumption ==
  /\ NoSocket \notin Sockets /\ MaxEdits \in Nat /\ MaxFaults \in Nat
  /\ Editors \intersect Sockets = {}

VARIABLES
  rows,      \* the version of each monitor the agent is to check, 0 when none
  edits,     \* versions given
  socket,    \* what the server knows of each connection
  attached,  \* connections whose handlers register has attached
  hub,       \* byDevice of the device
  syncs,     \* the calls of syncProxyMonitors: by editors, and by register
  down,      \* lists of monitors on their way to the agent
  session,   \* the connection of the agent
  runners,   \* its proxyRunners
  checks,    \* checks under way, of runners that may have been cancelled since,
             \* and results on their way, with the connection they go out on
  results,   \* proxyResults: the version each monitor's last result is about
  faults,    \* faults so far
  behind     \* history: the lists sent may not be in order, or one is missing

agent == <<session, runners>>
vars == <<rows, edits, socket, attached, hub, syncs, down, agent, checks, results,
          faults, behind>>

Versions == 0 .. MaxEdits
Config == [monitor : Monitors, version : 1 .. MaxEdits]
Idle == [phase |-> "idle", to |-> NoSocket, list |-> {}]
Sync == [phase : {"idle", "call", "read", "send"}, to : Sockets \union {NoSocket},
         list : SUBSET Config]

\* A map by monitor id.
OncePerMonitor(list) == \A c, d \in list : c.monitor = d.monitor => c = d

TypeOK ==
  /\ rows \in [Monitors -> Versions] /\ edits \in Versions
  /\ socket \in [Sockets -> {"none", "open", "closing", "closed"}]
  /\ attached \subseteq Sockets
  /\ hub \in Sockets \union {NoSocket} /\ session \in Sockets \union {NoSocket}
  /\ syncs \in [Editors \union Sockets -> Sync]
  /\ down \in [Sockets -> Seq(SUBSET Config)]
  /\ runners \subseteq Config /\ OncePerMonitor(runners)
  /\ checks \subseteq Config \X Sockets
  /\ results \in [Monitors -> Versions]
  /\ faults \in 0 .. MaxFaults /\ behind \in BOOLEAN

Init ==
  /\ rows = [m \in Monitors |-> 0] /\ edits = 0
  /\ socket = [s \in Sockets |-> "none"] /\ attached = {}
  /\ hub = NoSocket /\ session = NoSocket
  /\ syncs = [a \in Editors \union Sockets |-> Idle]
  /\ down = [s \in Sockets |-> <<>>]
  /\ runners = {} /\ checks = {}
  /\ results = [m \in Monitors |-> 0]
  /\ faults = 0 /\ behind = FALSE

Current == {[monitor |-> m, version |-> rows[m]] : m \in {n \in Monitors : rows[n] # 0}}
Fault == faults < MaxFaults /\ faults' = faults + 1

\* Syncs that have chosen their connection.
Underway == {a \in DOMAIN syncs : syncs[a].phase \in {"read", "send"}}

-----------------------------------------------------------------------------
(***************************************************************************)
(* Connecting and registering.                                             *)
(***************************************************************************)
\* A connection that nothing refers to any more.
Reusable(s) ==
  /\ socket[s] \in {"none", "closed"} /\ hub # s /\ syncs[s] = Idle
  /\ \A a \in DOMAIN syncs : syncs[a].to # s
  /\ \A c \in checks : c[2] # s

\* The agent dials, and the server starts to look the key up.
Connect ==
  LET s == CHOOSE t \in Sockets : Reusable(t) IN
  /\ session = NoSocket
  /\ \E t \in Sockets : Reusable(t)
  /\ session' = s
  /\ socket' = [socket EXCEPT ![s] = "open"]
  /\ attached' = attached \ {s}
  /\ UNCHANGED <<rows, edits, hub, syncs, down, runners, checks, results,
                 faults, behind>>

\* Mutant of Replaced: an open connection is kept, and the new one closed.
ReplacedNever(s) ==
  IF hub # NoSocket /\ socket[hub] = "open"
    THEN /\ hub' = hub /\ socket' = [socket EXCEPT ![s] = "closing"]
    ELSE /\ hub' = s /\ UNCHANGED socket

\* The previous connection is closed if the server believes it open.
Replaced(s) ==
  /\ hub' = s
  /\ socket' = IF hub # NoSocket /\ socket[hub] = "open"
                 THEN [socket EXCEPT ![hub] = "closing"] ELSE socket

\* The key is found.  The connection may be closed by now, and its close event
\* gone by: the hub then keeps it until the next one.  The first answer is
\* awaited before the list of monitors is sent.
Register(s) ==
  /\ socket[s] # "none" /\ s \notin attached /\ syncs[s] = Idle
  /\ Replaced(s)
  /\ attached' = attached \union {s}
  /\ syncs' = [syncs EXCEPT ![s].phase = "call"]
  /\ UNCHANGED <<rows, edits, down, agent, checks, results, faults, behind>>

\* Mutant of Unregistered: the entry goes whatever connection it holds.
UnregisteredAny(s) == IF s \in attached THEN NoSocket ELSE hub

Unregistered(s) == IF s \in attached /\ hub = s THEN NoSocket ELSE hub

\* The close event, after ws.close or once the server notices that the agent left.
Closed(s) ==
  /\ socket[s] = "closing" \/ (socket[s] = "open" /\ session # s)
  /\ socket' = [socket EXCEPT ![s] = IF s \in attached THEN "none" ELSE "closed"]
  /\ hub' = Unregistered(s)
  /\ attached' = attached \ {s}
  /\ down' = [down EXCEPT ![s] = <<>>]
  /\ checks' = {c \in checks : c[2] # s}
  /\ UNCHANGED <<rows, edits, syncs, agent, results, faults, behind>>

\* cmdWSSession returns: the runners stop, and what had not arrived is lost.
\* Results that were written may still arrive.
Leave ==
  /\ session' = NoSocket
  /\ runners' = {}
  /\ \E lost \in SUBSET {c \in checks : c[2] = session} : checks' = checks \ lost
  /\ down' = [down EXCEPT ![session] = <<>>]
  /\ UNCHANGED <<rows, edits, socket, attached, hub, syncs, results, behind>>

\* The agent sees the close, or misses the server's pings.
SessionEnds ==
  /\ session # NoSocket /\ socket[session] # "open"
  /\ Leave /\ UNCHANGED faults

\* The connection breaks, or the agent restarts; the server may not notice.
Break == session # NoSocket /\ Leave /\ Fault

-----------------------------------------------------------------------------
(***************************************************************************)
(* Changes of the monitors, and syncProxyMonitors.                         *)
(***************************************************************************)
\* Created, updated, deleted; assigned to the agent, or taken from it.
Write(m) ==
  /\ edits < MaxEdits
  /\ edits' = edits + 1
  /\ \/ rows' = [rows EXCEPT ![m] = edits + 1]
     \/ rows[m] # 0 /\ rows' = [rows EXCEPT ![m] = 0]

\* create, update and delete of the monitors API sync when they have written.
\* behind: a list read before the change is not sent yet.
Edit(e, m) ==
  /\ syncs[e] = Idle
  /\ Write(m)
  /\ syncs' = [syncs EXCEPT ![e].phase = "call"]
  /\ behind' = (behind \/ \E a \in Underway : syncs[a].phase = "send")
  /\ UNCHANGED <<socket, attached, hub, down, agent, checks, results, faults>>

\* bulkUpdate and bulkDelete do not.
BulkEdit(m) ==
  /\ Write(m)
  /\ behind' = TRUE
  /\ UNCHANGED <<socket, attached, hub, syncs, down, agent, checks, results, faults>>

Chosen == hub # NoSocket /\ socket[hub] = "open"

CallSync(a) ==
  /\ syncs[a].phase = "call"
  /\ syncs' = [syncs EXCEPT ![a] =
       IF Chosen THEN [phase |-> "read", to |-> hub, list |-> {}] ELSE Idle]
  /\ behind' = (behind /\ Underway # {})
  /\ UNCHANGED <<rows, edits, socket, attached, hub, down, agent, checks,
                 results, faults>>

ReadSync(a) ==
  /\ syncs[a].phase = "read"
  /\ syncs' = [syncs EXCEPT ![a].phase = "send", ![a].list = Current]
  /\ UNCHANGED <<rows, edits, socket, attached, hub, down, agent, checks,
                 results, faults, behind>>

\* A failed query is logged, and nothing tries again.
FailSync(a) ==
  /\ syncs[a].phase = "read"
  /\ Fault
  /\ syncs' = [syncs EXCEPT ![a] = Idle]
  /\ behind' = TRUE
  /\ UNCHANGED <<rows, edits, socket, attached, hub, down, agent, checks, results>>

SendSync(a) ==
  LET s == syncs[a].to IN
  /\ syncs[a].phase = "send"
  /\ syncs' = [syncs EXCEPT ![a] = Idle]
  /\ down' = IF socket[s] = "open" /\ session = s
               THEN [down EXCEPT ![s] = Append(@, syncs[a].list)] ELSE down
  /\ UNCHANGED <<rows, edits, socket, attached, hub, agent, checks, results,
                 faults, behind>>

-----------------------------------------------------------------------------
(***************************************************************************)
(* The agent's runners, and their results.                                 *)
(***************************************************************************)
\* Mutant of Reconciled: a running monitor is left alone.
ReconciledById(list) ==
  LET kept == {r \in runners : \E c \in list : c.monitor = r.monitor} IN
  kept \union {c \in list : \A r \in kept : r.monitor # c.monitor}

\* Removed monitors stop, changed ones restart, new ones start, the others go on.
Reconciled(list) == list

ReceiveSync ==
  /\ session # NoSocket /\ down[session] # <<>>
  /\ runners' = Reconciled(Head(down[session]))
  /\ down' = [down EXCEPT ![session] = Tail(@)]
  /\ UNCHANGED <<rows, edits, socket, attached, hub, syncs, session, checks,
                 results, faults, behind>>

\* Cancelling a runner does not stop the check it is in.
StartCheck(r) ==
  /\ <<r, session>> \notin checks
  /\ checks' = checks \union {<<r, session>>}
  /\ UNCHANGED <<rows, edits, socket, attached, hub, syncs, down, agent,
                 results, faults, behind>>

\* The result goes out on the connection the runner was started with, and
\* arrives: _handleProxyResult, unless nobody listens before registration.
EndCheck(c) ==
  LET r == c[1] IN
  /\ checks' = checks \ {c}
  /\ results' = IF c[2] \in attached
                  THEN [results EXCEPT ![r.monitor] = r.version] ELSE results
  /\ UNCHANGED <<rows, edits, socket, attached, hub, syncs, down, agent, faults, behind>>

-----------------------------------------------------------------------------
\* The server restarts with an empty hub; the agent has yet to find out.
Crash ==
  /\ Fault
  /\ socket' = [s \in Sockets |-> "none"] /\ attached' = {} /\ checks' = {}
  /\ hub' = NoSocket
  /\ syncs' = [a \in DOMAIN syncs |-> Idle]
  /\ down' = [s \in Sockets |-> <<>>]
  /\ results' = [m \in Monitors |-> 0]
  /\ behind' = FALSE
  /\ UNCHANGED <<rows, edits, agent>>

SyncStep(a) == CallSync(a) \/ ReadSync(a) \/ FailSync(a) \/ SendSync(a)

Next ==
  \/ Connect
  \/ \E s \in Sockets : Register(s) \/ Closed(s)
  \/ SessionEnds \/ Break
  \/ \E m \in Monitors : BulkEdit(m) \/ \E e \in Editors : Edit(e, m)
  \/ \E a \in DOMAIN syncs : SyncStep(a)
  \/ ReceiveSync
  \/ \E r \in runners : StartCheck(r)
  \/ \E c \in checks : EndCheck(c)
  \/ Crash

\* The agent dials again and again, queries are answered, a side that is told of
\* the end acts on it, what was sent arrives, the runners' tickers tick and checks
\* end.  Nothing obliges the server to notice a connection that broke.
Fairness ==
  /\ WF_vars(Connect)
  /\ \A s \in Sockets : WF_vars(Register(s)) /\ WF_vars(socket[s] = "closing" /\ Closed(s))
  /\ WF_vars(SessionEnds) /\ WF_vars(ReceiveSync)
  /\ \A a \in Editors \union Sockets : WF_vars(SyncStep(a))
  /\ \A m \in Monitors : WF_vars(\E r \in runners : r.monitor = m /\ StartCheck(r))
  /\ \A m \in Monitors : WF_vars(\E c \in checks : c[1].monitor = m /\ EndCheck(c))

Spec == Init /\ [][Next]_vars /\ Fairness

-----------------------------------------------------------------------------
\* The only connection that is open and registered is the hub's: a device never
\* keeps two, and none is forgotten while it is open, in whatever order
\* connections are registered, replaced and closed (register, _unregister).
OneChannel == \A s \in Sockets : (s \in attached /\ socket[s] = "open") => hub = s

\* Once the last list has arrived the agent runs the active monitors assigned to
\* it, as they are now, unless a change overtook a list, was made in bulk, or a
\* sync failed, and no sync has begun alone since (syncProxyMonitors,
\* handleProxySync, stopAllProxyRunners).
RunnersFollowMonitors ==
  (/\ session # NoSocket /\ hub = session /\ socket[session] = "open"
   /\ \A a \in DOMAIN syncs : syncs[a] = Idle
   /\ down[session] = <<>> /\ ~behind)
    => runners = Current

\* Why: as long as no list was overtaken, the lists still to be sent are current, and
\* what the agent is left with at the end is, or a sync is about to make it so.
TypeInv ==
  /\ TypeOK
  /\ session = NoSocket => runners = {}
  /\ \A a \in DOMAIN syncs : OncePerMonitor(syncs[a].list)
  /\ \A s \in Sockets : \A i \in DOMAIN down[s] : OncePerMonitor(down[s][i])

Arriving == IF down[session] = <<>> THEN runners ELSE down[session][Len(down[session])]

ListsInv ==
  ~behind =>
    /\ \A a \in DOMAIN syncs : syncs[a].phase = "send" => syncs[a].list = Current
    /\ session # NoSocket /\ hub = session /\ socket[session] = "open" =>
         \/ Arriving = Current
         \/ \E a \in DOMAIN syncs :
              \/ syncs[a].phase = "call"
              \/ syncs[a].phase \in {"read", "send"} /\ syncs[a].to = session

\* When faults end, the agent gets a channel that the hub knows, and keeps it
\* (runCmdWS, register).
Reconnects == <>[](session # NoSocket /\ hub = session /\ socket[session] = "open")

\* When changes and faults end and the lists arrived in order, the results the
\* workers read end up being about the monitors as they are, although cancelled
\* runners may still deliver (executeAndPush, recordProxyResult).
ResultsCatchUp ==
  <>[]~behind => <>[](\A m \in Monitors : rows[m] # 0 => results[m] = rows[m])

\* Once faults end, the channel and what comes through it are what they should be.
ChannelHeals == Reconnects /\ ResultsCatchUp
=============================================================================
