---------------------------- MODULE Checks_proofs ----------------------------
(***************************************************************************)
(* Proofs about the checks: about the channel over which an agent is given *)
(* those it makes (AgentChannel), for any number of connections, monitors, *)
(* overlapping calls of the monitors API, changes and faults, and about    *)
(* what the checks conclude (Checks), for any configurations, answers,     *)
(* certificates, intervals and numbers of restarts.                        *)
(***************************************************************************)
EXTENDS AgentChannel, Checks, SequenceTheorems, TLAPS

-----------------------------------------------------------------------------
(***************************************************************************)
(* The channel.                                                            *)
(***************************************************************************)
\* Changing a sync, to idle or to a further phase, keeps the syncs well formed.
LEMMA SyncType ==
  ASSUME TypeOK, NEW a \in Editors \union Sockets
  PROVE  /\ [syncs EXCEPT ![a] = Idle] \in [Editors \union Sockets -> Sync]
         /\ [syncs EXCEPT ![a].phase = "call"] \in [Editors \union Sockets -> Sync]
         /\ \A to \in Sockets : [syncs EXCEPT ![a] = [phase |-> "read", to |-> to, list |-> {}]]
                                  \in [Editors \union Sockets -> Sync]
         /\ \A list \in SUBSET Config :
              [syncs EXCEPT ![a].phase = "send", ![a].list = list]
                                  \in [Editors \union Sockets -> Sync]
         /\ syncs[a] \in Sync
<1> DEFINE A == Editors \union Sockets
<1>1. syncs \in [A -> Sync] /\ syncs[a] \in Sync
  BY DEF TypeOK
<1>2. Idle \in Sync /\ \A to \in Sockets : [phase |-> "read", to |-> to, list |-> {}] \in Sync
  BY DEF Sync, Idle
<1>3. [syncs[a] EXCEPT !.phase = "call"] \in Sync
  BY <1>1 DEF Sync
<1>4. \A list \in SUBSET Config : [syncs[a] EXCEPT !.phase = "send", !.list = list] \in Sync
  BY <1>1 DEF Sync
<1>5. /\ [syncs EXCEPT ![a].phase = "call"] = [syncs EXCEPT ![a] = [syncs[a] EXCEPT !.phase = "call"]]
      /\ \A list : [syncs EXCEPT ![a].phase = "send", ![a].list = list]
                    = [syncs EXCEPT ![a] = [syncs[a] EXCEPT !.phase = "send", !.list = list]]
  BY <1>1
<1>6. \A v \in Sync : [syncs EXCEPT ![a] = v] \in [A -> Sync]
  BY <1>1
<1> QED
  BY <1>1, <1>2, <1>3, <1>4, <1>5, <1>6

\* What a sync reads of the monitors is a map by monitor id.
LEMMA CurrentType ==
  ASSUME TypeOK
  PROVE  Current \in SUBSET Config /\ OncePerMonitor(Current)
<1>1. ASSUME NEW m \in Monitors, rows[m] # 0
      PROVE  [monitor |-> m, version |-> rows[m]] \in Config
  <2>1. rows[m] \in 0 .. MaxEdits /\ MaxEdits \in Nat
    BY AgentChannelAssumption DEF TypeOK, Versions
  <2>2. rows[m] \in 1 .. MaxEdits
    BY <1>1, <2>1
  <2> QED
    BY <2>2 DEF Config
<1> QED
  BY <1>1 DEF Current, OncePerMonitor

\* The connection the agent dials is one of them, and nothing refers to it.
LEMMA Dialled ==
  ASSUME Connect
  PROVE  /\ session' \in Sockets /\ Reusable(session')
         /\ socket' = [socket EXCEPT ![session'] = "open"]
         /\ attached' = attached \ {session'}
<1>1. /\ \E t \in Sockets : Reusable(t)
      /\ session' = CHOOSE t \in Sockets : Reusable(t)
      /\ socket' = [socket EXCEPT ![CHOOSE t \in Sockets : Reusable(t)] = "open"]
      /\ attached' = attached \ {CHOOSE t \in Sockets : Reusable(t)}
  BY DEF Connect
<1> QED
  BY <1>1

\* A change gives the monitor a version of its own, or takes it from the agent.
LEMMA WriteType ==
  ASSUME TypeOK, NEW m \in Monitors, Write(m)
  PROVE  rows' \in [Monitors -> Versions] /\ edits' \in Versions
<1>1. edits + 1 \in Versions /\ 0 \in Versions /\ rows \in [Monitors -> Versions]
  BY AgentChannelAssumption DEF TypeOK, Versions, Write
<1> QED
  BY <1>1 DEF Write

\* A fault keeps the types.
LEMMA FaultType ==
  ASSUME TypeOK, Fault
  PROVE  faults' \in 0 .. MaxFaults
  BY AgentChannelAssumption DEF TypeOK, Fault

\* The rows, the connections, the syncs, the lists and the runners have their types,
\* every list names a monitor once, and an agent without a connection runs nothing.
THEOREM TypeCorrect == Spec => []TypeInv
<1> DEFINE Syncs == Editors \union Sockets
           DownInv == /\ down \in [Sockets -> Seq(SUBSET Config)]
                      /\ \A s \in Sockets : \A i \in DOMAIN down[s] : OncePerMonitor(down[s][i])
<1>1. Init => TypeInv
  <2> SUFFICES ASSUME Init PROVE TypeInv
    OBVIOUS
  <2>1. /\ rows \in [Monitors -> Versions] /\ edits \in Versions /\ faults \in 0 .. MaxFaults
        /\ results \in [Monitors -> Versions]
    BY AgentChannelAssumption DEF Init, Versions
  <2>2. syncs \in [Syncs -> Sync] /\ \A a \in DOMAIN syncs : OncePerMonitor(syncs[a].list)
    BY DEF Init, Sync, Idle, OncePerMonitor
  <2>3. DownInv
    BY DEF Init
  <2> QED
    BY <2>1, <2>2, <2>3 DEF Init, TypeInv, TypeOK, OncePerMonitor
<1>2. ASSUME TypeInv, [Next]_vars
      PROVE  TypeInv'
  <2> USE <1>2 DEF TypeInv
  <2> DEFINE SyncsInv == syncs \in [Syncs -> Sync]
                         /\ \A a \in Syncs : OncePerMonitor(syncs[a].list)
             RunsInv == /\ runners \subseteq Config /\ OncePerMonitor(runners)
                        /\ session \in Sockets \union {NoSocket}
                        /\ session = NoSocket => runners = {}
             LinkInv == /\ socket \in [Sockets -> {"none", "open", "closing", "closed"}]
                        /\ attached \subseteq Sockets
                        /\ hub \in Sockets \union {NoSocket}
             DataInv == /\ rows \in [Monitors -> Versions] /\ edits \in Versions
                        /\ checks \subseteq Config \X Sockets
                        /\ results \in [Monitors -> Versions]
                        /\ faults \in 0 .. MaxFaults /\ behind \in BOOLEAN
  <2>1. TypeInv <=> DataInv /\ LinkInv /\ RunsInv /\ SyncsInv /\ DownInv
    BY DEF TypeOK
  <2>2. TypeInv' <=> DataInv' /\ LinkInv' /\ RunsInv' /\ SyncsInv' /\ DownInv'
    BY DEF TypeOK
  <2>3. /\ UNCHANGED down => DownInv'
        /\ UNCHANGED syncs => SyncsInv'
        /\ UNCHANGED <<session, runners>> => RunsInv'
    BY <2>1
  <2>4. ASSUME NEW s \in Sockets \union {NoSocket}, down' = [down EXCEPT ![s] = <<>>]
        PROVE  DownInv'
    <3>1. \A t \in Sockets : down'[t] = <<>> \/ down'[t] = down[t]
      BY <2>1, <2>4
    <3>2. down' \in [Sockets -> Seq(SUBSET Config)]
      <4>1. << >> \in Seq(SUBSET Config)
        OBVIOUS
      <4>2. \A t \in Sockets : down'[t] \in Seq(SUBSET Config)
        BY <2>1, <3>1, <4>1
      <4> QED
        BY <2>1, <2>4, <4>2
    <3>3. ASSUME NEW t \in Sockets, NEW i \in DOMAIN down'[t]
          PROVE  OncePerMonitor(down'[t][i])
      <4>1. DOMAIN << >> = {}
        OBVIOUS
      <4> QED
        BY <2>1, <3>1, <3>3, <4>1
    <3> QED
      BY <3>2, <3>3
  <2>5. ASSUME NEW a \in Syncs, syncs' = [syncs EXCEPT ![a] = Idle]
        PROVE  SyncsInv'
    BY <2>1, <2>5, SyncType DEF Idle, OncePerMonitor
  <2>6. ASSUME NEW a \in Syncs, syncs' = [syncs EXCEPT ![a].phase = "call"]
        PROVE  SyncsInv'
    <3>1. \A b \in Syncs : syncs'[b].list = syncs[b].list
      BY <2>1, <2>6 DEF Sync
    <3> QED
      BY <2>1, <2>6, <3>1, SyncType
  <2>7. CASE Connect
    <3>1. LinkInv'
      BY <2>1, <2>7, Dialled DEF Connect
    <3>2. RunsInv'
      BY <2>1, <2>7, Dialled DEF Connect
    <3>3. DataInv'
      BY <2>1, <2>7 DEF Connect
    <3> QED
      BY <2>2, <2>3, <2>7, <3>1, <3>2, <3>3 DEF Connect
  <2>8. ASSUME NEW s \in Sockets, Register(s)
        PROVE  TypeInv'
    <3>1. LinkInv'
      BY <2>1, <2>8 DEF Register, Replaced
    <3>2. DataInv' /\ SyncsInv'
      BY <2>1, <2>6, <2>8 DEF Register
    <3> QED
      BY <2>2, <2>3, <2>8, <3>1, <3>2 DEF Register, agent
  <2>9. ASSUME NEW s \in Sockets, Closed(s)
        PROVE  TypeInv'
    <3>1. LinkInv'
      BY <2>1, <2>9 DEF Closed, Unregistered
    <3>2. DataInv' /\ DownInv'
      BY <2>1, <2>4, <2>9 DEF Closed
    <3> QED
      BY <2>2, <2>3, <2>9, <3>1, <3>2 DEF Closed, agent
  <2>10. CASE SessionEnds \/ Break
    <3>1. Leave /\ (UNCHANGED faults \/ Fault)
      BY <2>10 DEF SessionEnds, Break
    <3>2. RunsInv'
      BY <3>1 DEF Leave, OncePerMonitor
    <3>3. DataInv' /\ LinkInv'
      BY <2>1, <3>1, FaultType DEF Leave
    <3>4. DownInv' /\ SyncsInv'
      BY <2>1, <2>3, <2>4, <3>1 DEF Leave
    <3> QED
      BY <2>2, <3>2, <3>3, <3>4
  <2>11. ASSUME NEW m \in Monitors, BulkEdit(m) \/ \E e \in Editors : Edit(e, m)
         PROVE  TypeInv'
    <3>1. DataInv'
      BY <2>1, <2>11, WriteType DEF BulkEdit, Edit
    <3>2. SyncsInv'
      BY <2>3, <2>6, <2>11 DEF BulkEdit, Edit
    <3>3. LinkInv' /\ RunsInv' /\ DownInv'
      BY <2>1, <2>11 DEF BulkEdit, Edit, agent
    <3> QED
      BY <2>2, <3>1, <3>2, <3>3
  <2>12. ASSUME NEW a \in Syncs, SyncStep(a)
         PROVE  TypeInv'
    <3>1. /\ UNCHANGED <<rows, edits, socket, attached, hub, agent, checks, results>>
          /\ UNCHANGED faults \/ Fault
          /\ behind' \in BOOLEAN
      BY <2>12 DEF SyncStep, CallSync, ReadSync, FailSync, SendSync, TypeOK
    <3>2. DataInv' /\ LinkInv' /\ RunsInv'
      BY <2>1, <3>1, FaultType DEF agent
    <3>3. SyncsInv'
      <4>1. CASE CallSync(a)
        <5>1. syncs' = [syncs EXCEPT ![a] =
                IF Chosen THEN [phase |-> "read", to |-> hub, list |-> {}] ELSE Idle]
          BY <4>1 DEF CallSync
        <5>2. CASE Chosen
          <6>1. syncs' = [syncs EXCEPT ![a] = [phase |-> "read", to |-> hub, list |-> {}]]
                /\ hub \in Sockets
            BY <2>1, <5>1, <5>2 DEF Chosen
          <6>2. syncs' \in [Syncs -> Sync]
            BY <6>1, SyncType
          <6>3. \A b \in Syncs : syncs'[b].list \in {syncs[b].list, {}}
            BY <2>1, <6>1
          <6> QED
            BY <2>1, <6>2, <6>3 DEF OncePerMonitor
        <5> QED
          BY <2>5, <5>1, <5>2
      <4>2. CASE ReadSync(a)
        <5>1. syncs' = [syncs EXCEPT ![a].phase = "send", ![a].list = Current]
          BY <4>2 DEF ReadSync
        <5>2. syncs' \in [Syncs -> Sync]
          BY <5>1, SyncType, CurrentType
        <5>3. \A b \in Syncs : syncs'[b].list \in {syncs[b].list, Current}
          BY <2>1, <5>1 DEF Sync
        <5> QED
          BY <2>1, <5>2, <5>3, CurrentType
      <4>3. CASE FailSync(a) \/ SendSync(a)
        BY <2>5, <4>3 DEF FailSync, SendSync
      <4> QED
        BY <2>12, <4>1, <4>2, <4>3 DEF SyncStep
    <3>4. DownInv'
      <4>1. CASE UNCHANGED down
        BY <2>3, <4>1
      <4>2. CASE SendSync(a) /\ down' # down
        <5> DEFINE s == syncs[a].to
        <5>1. /\ down' = [down EXCEPT ![s] = Append(@, syncs[a].list)]
              /\ s \in Sockets \union {NoSocket} /\ syncs[a].list \in SUBSET Config
              /\ OncePerMonitor(syncs[a].list)
          BY <2>1, <4>2 DEF SendSync, Sync
        <5>2. s \in Sockets => /\ down'[s] = Append(down[s], syncs[a].list)
                               /\ down'[s] \in Seq(SUBSET Config)
          <6> SUFFICES ASSUME s \in Sockets
                       PROVE  /\ down'[s] = Append(down[s], syncs[a].list)
                              /\ down'[s] \in Seq(SUBSET Config)
            OBVIOUS
          <6>1. down \in [Sockets -> Seq(SUBSET Config)] /\ down[s] \in Seq(SUBSET Config)
            BY <2>1
          <6>2. down'[s] = Append(down[s], syncs[a].list)
            BY <5>1, <6>1
          <6>3. Append(down[s], syncs[a].list) \in Seq(SUBSET Config)
            BY <5>1, <6>1, AppendProperties
          <6> QED
            BY <6>2, <6>3
        <5>3. s \in Sockets => \A i \in DOMAIN down'[s] : OncePerMonitor(down'[s][i])
          <6> SUFFICES ASSUME s \in Sockets, NEW i \in 1 .. Len(down[s]) + 1
                       PROVE  OncePerMonitor(down'[s][i])
            <7>1. s \in Sockets => DOMAIN down'[s] = 1 .. Len(down[s]) + 1
              BY <2>1, <5>1, <5>2
            <7> QED
              BY <7>1
          <6>1. i = Len(down[s]) + 1 => down'[s][i] = syncs[a].list
            BY <2>1, <5>1, <5>2
          <6>2. i # Len(down[s]) + 1 => down'[s][i] = down[s][i] /\ i \in DOMAIN down[s]
            BY <2>1, <5>1, <5>2
          <6> QED
            BY <2>1, <5>1, <6>1, <6>2
        <5>4. \A t \in Sockets \ {s} : down'[t] = down[t]
          BY <2>1, <5>1
        <5>5. down' \in [Sockets -> Seq(SUBSET Config)]
          BY <2>1, <5>1, <5>2
        <5> QED
          BY <2>1, <5>3, <5>4, <5>5
      <4> QED
        BY <2>12, <4>1, <4>2 DEF SyncStep, CallSync, ReadSync, FailSync
    <3> QED
      BY <2>2, <3>2, <3>3, <3>4
  <2>13. CASE ReceiveSync
    <3> DEFINE list == Head(down[session])
    <3>1. /\ session \in Sockets /\ down[session] \in Seq(SUBSET Config) /\ down[session] # <<>>
          /\ runners' = list /\ down' = [down EXCEPT ![session] = Tail(@)]
          /\ UNCHANGED <<rows, edits, socket, attached, hub, syncs, session, checks, results,
                         faults, behind>>
      BY <2>1, <2>13 DEF ReceiveSync, Reconciled
    <3>2. list \in SUBSET Config /\ list = down[session][1] /\ 1 \in DOMAIN down[session]
      BY <3>1
    <3>3. RunsInv'
      BY <2>1, <3>1, <3>2, AgentChannelAssumption
    <3>4. /\ Tail(down[session]) \in Seq(SUBSET Config)
          /\ \A i \in DOMAIN Tail(down[session]) :
               i + 1 \in DOMAIN down[session] /\ Tail(down[session])[i] = down[session][i + 1]
      BY <3>1
    <3>5. DownInv'
      BY <2>1, <3>1, <3>4
    <3> QED
      BY <2>1, <2>2, <2>3, <3>1, <3>3, <3>5
  <2>14. ASSUME NEW r \in runners, StartCheck(r)
         PROVE  TypeInv'
    <3>1. r \in Config /\ session \in Sockets
      BY <2>1
    <3>2. DataInv'
      BY <2>1, <2>14, <3>1 DEF StartCheck
    <3> QED
      BY <2>1, <2>2, <2>3, <2>14, <3>2 DEF StartCheck, agent
  <2>15. ASSUME NEW c \in checks, EndCheck(c)
         PROVE  TypeInv'
    <3>1. c[1] \in Config
      BY <2>1
    <3>2. c[1].monitor \in Monitors /\ c[1].version \in Versions
      BY <3>1, AgentChannelAssumption DEF Config, Versions
    <3>3. results' \in [Monitors -> Versions] /\ checks' \subseteq checks
      BY <2>1, <2>15, <3>2 DEF EndCheck
    <3>4. DataInv'
      BY <2>1, <2>15, <3>3 DEF EndCheck
    <3> QED
      BY <2>1, <2>2, <2>3, <2>15, <3>4 DEF EndCheck, agent
  <2>16. CASE Crash
    <3>1. /\ UNCHANGED <<rows, edits>> /\ checks' = {} /\ behind' = FALSE
          /\ results' = [m \in Monitors |-> 0] /\ 0 \in Versions
          /\ faults' \in 0 .. MaxFaults
      BY <2>16, FaultType, AgentChannelAssumption DEF Crash, Versions
    <3>2. SyncsInv' /\ DownInv'
      BY <2>1, <2>16 DEF Crash, Idle, Sync, OncePerMonitor
    <3>3. DataInv'
      BY <2>1, <3>1
    <3> QED
      BY <2>2, <2>3, <2>16, <3>2, <3>3 DEF Crash, agent
  <2>17. CASE UNCHANGED vars
    BY <2>1, <2>2, <2>17 DEF vars, agent
  <2>18. DOMAIN syncs = Syncs
    BY <2>1
  <2> QED
    BY <2>7, <2>8, <2>9, <2>10, <2>11, <2>12, <2>13, <2>14, <2>15, <2>16, <2>17, <2>18
       DEF Next
<1> QED
  BY <1>1, <1>2, PTL DEF Spec
-----------------------------------------------------------------------------
\* A device never has two connections that are open and registered, and the hub's entry
\* is the one that is (AgentWSHub.register, _unregister).
THEOREM OneChannelOnly == Spec => []OneChannel
<1>1. Init => OneChannel
  BY DEF Init, OneChannel
<1>2. ASSUME TypeInv, OneChannel, [Next]_vars
      PROVE  OneChannel'
  <2> USE <1>2
  <2>1. /\ socket \in [Sockets -> {"none", "open", "closing", "closed"}]
        /\ attached \subseteq Sockets /\ hub \in Sockets \union {NoSocket}
    BY DEF TypeInv, TypeOK
  <2>2. UNCHANGED <<socket, attached, hub>> => OneChannel'
    BY DEF OneChannel
  <2>3. CASE Connect
    BY <2>1, <2>3, Dialled DEF Connect, OneChannel
  <2>4. ASSUME NEW s \in Sockets, Register(s)
        PROVE  OneChannel'
    \* Another one that was registered and open was the hub's, and is closing now.
    <3>1. ASSUME NEW t \in Sockets, t # s, t \in attached, socket'[t] = "open"
          PROVE  FALSE
      <4>1. socket[t] = "open" /\ hub = t
        BY <2>1, <2>4, <3>1 DEF Register, Replaced, OneChannel
      <4> QED
        BY <2>1, <2>4, <3>1, <4>1, AgentChannelAssumption DEF Register, Replaced
    <3> QED
      BY <2>4, <3>1 DEF Register, Replaced, OneChannel
  <2>5. ASSUME NEW s \in Sockets, Closed(s)
        PROVE  OneChannel'
    BY <2>1, <2>5, AgentChannelAssumption DEF Closed, Unregistered, OneChannel
  <2>6. CASE SessionEnds \/ Break
    BY <2>2, <2>6 DEF SessionEnds, Break, Leave
  <2>7. ASSUME NEW m \in Monitors, BulkEdit(m) \/ \E e \in Editors : Edit(e, m)
        PROVE  OneChannel'
    BY <2>2, <2>7 DEF BulkEdit, Edit
  <2>8. ASSUME NEW a \in DOMAIN syncs, SyncStep(a)
        PROVE  OneChannel'
    BY <2>2, <2>8 DEF SyncStep, CallSync, ReadSync, FailSync, SendSync
  <2>9. CASE ReceiveSync
    BY <2>2, <2>9 DEF ReceiveSync
  <2>10. ASSUME NEW r \in runners, StartCheck(r)
         PROVE  OneChannel'
    BY <2>2, <2>10 DEF StartCheck
  <2>11. ASSUME NEW c \in checks, EndCheck(c)
         PROVE  OneChannel'
    BY <2>2, <2>11 DEF EndCheck
  <2>12. CASE Crash
    BY <2>12 DEF Crash, OneChannel
  <2>13. CASE UNCHANGED vars
    BY <2>2, <2>13 DEF vars
  <2> QED
    BY <2>3, <2>4, <2>5, <2>6, <2>7, <2>8, <2>9, <2>10, <2>11, <2>12, <2>13 DEF Next
<1> QED
  BY <1>1, <1>2, TypeCorrect, PTL DEF Spec

\* Taking the head of a list leaves its last element where it was, or takes it.
LEMMA LastStays ==
  ASSUME NEW S, NEW d \in Seq(S), d # <<>>
  PROVE  IF Len(d) = 1 THEN Tail(d) = <<>> /\ Head(d) = d[Len(d)]
                       ELSE Tail(d) # <<>> /\ Tail(d)[Len(Tail(d))] = d[Len(d)]
<1>1. /\ Tail(d) \in Seq(S) /\ Len(Tail(d)) = Len(d) - 1
      /\ \A i \in 1 .. Len(Tail(d)) : Tail(d)[i] = d[i + 1]
  BY HeadTailProperties
<1>2. Len(d) \in Nat \ {0} /\ Head(d) = d[1]
  BY EmptySeq
<1>3. Tail(d) = <<>> <=> Len(Tail(d)) = 0
  BY <1>1, EmptySeq
<1>4. CASE Len(d) = 1
  BY <1>1, <1>2, <1>3, <1>4
<1>5. CASE Len(d) # 1
  <2>1. Len(Tail(d)) \in 1 .. Len(Tail(d)) /\ Len(Tail(d)) + 1 = Len(d)
    BY <1>1, <1>2, <1>5
  <2>2. Tail(d)[Len(Tail(d))] = d[Len(Tail(d)) + 1]
    BY <1>1, <2>1
  <2> QED
    BY <1>1, <1>2, <1>3, <1>5, <2>1, <2>2
<1> QED
  BY <1>4, <1>5

\* As long as no change overtook a list, was made in bulk, and no sync failed, every list
\* still to be sent is current, and the last one on the way to the agent, or a sync under
\* way, leaves it with the monitors as they are (syncProxyMonitors).
THEOREM ListsInvariant == Spec => []ListsInv
<1> DEFINE Syncs == Editors \union Sockets
           SentCurrent == \A a \in Syncs : syncs[a].phase = "send" => syncs[a].list = Current
           Comes(a) == \/ syncs[a].phase = "call"
                       \/ syncs[a].phase \in {"read", "send"} /\ syncs[a].to = session
           Linked == session # NoSocket /\ hub = session /\ socket[session] = "open"
<1>1. Init => ListsInv
  BY DEF Init, ListsInv, Idle
<1>2. ASSUME TypeInv, TypeInv', ListsInv, [Next]_vars
      PROVE  ListsInv'
  <2> USE <1>2
  <2>1. /\ socket \in [Sockets -> {"none", "open", "closing", "closed"}]
        /\ hub \in Sockets \union {NoSocket} /\ session \in Sockets \union {NoSocket}
        /\ syncs \in [Syncs -> Sync] /\ down \in [Sockets -> Seq(SUBSET Config)]
    BY DEF TypeInv, TypeOK
  <2>2. /\ ListsInv <=> (~behind => SentCurrent
                          /\ (Linked => Arriving = Current \/ \E a \in Syncs : Comes(a)))
        /\ ListsInv' <=> (~behind' => SentCurrent'
                          /\ (Linked' => Arriving' = Current' \/ \E a \in Syncs : Comes(a)'))
    BY DEF ListsInv, TypeInv, TypeOK
  <2>3. /\ UNCHANGED rows => Current' = Current
        /\ UNCHANGED <<down, session, runners>> => Arriving' = Arriving
        /\ UNCHANGED <<rows, syncs>> /\ SentCurrent => SentCurrent'
        /\ UNCHANGED <<syncs, session>> => \A a \in Syncs : Comes(a)' = Comes(a)
    BY DEF Current, Arriving
  <2>4. ASSUME UNCHANGED <<rows, syncs, behind>>, ~Linked'
        PROVE  ListsInv'
    BY <2>2, <2>3, <2>4
  <2>5. CASE Connect
    <3>1. hub # session' /\ UNCHANGED <<rows, syncs, behind, hub>>
      BY <2>5, Dialled DEF Connect, Reusable
    <3> QED
      BY <2>4, <3>1
  <2>6. ASSUME NEW s \in Sockets, Register(s)
        PROVE  ListsInv'
    <3>1. /\ syncs' = [syncs EXCEPT ![s].phase = "call"] /\ UNCHANGED <<rows, behind>>
      BY <2>6 DEF Register
    <3>2. /\ syncs'[s].phase = "call"
          /\ \A a \in Syncs \ {s} : syncs'[a] = syncs[a]
      BY <2>1, <3>1 DEF Sync
    <3>3. SentCurrent => SentCurrent'
      BY <2>3, <3>1, <3>2
    <3> QED
      BY <2>2, <3>1, <3>2, <3>3
  <2>7. ASSUME NEW s \in Sockets, Closed(s)
        PROVE  ListsInv'
    <3>1. /\ UNCHANGED <<rows, syncs, behind, session, runners>>
          /\ socket' = [socket EXCEPT ![s] = IF s \in attached THEN "none" ELSE "closed"]
          /\ down' = [down EXCEPT ![s] = <<>>]
          /\ hub' \in {hub, NoSocket}
      BY <2>7 DEF Closed, Unregistered, agent
    <3>2. CASE session = s
      BY <2>1, <2>4, <3>1, <3>2
    <3>3. CASE session # s
      <4>1. Linked' => Linked
        BY <2>1, <3>1, <3>3
      <4>2. Linked => Arriving' = Arriving
        BY <2>1, <3>1, <3>3 DEF Arriving
      <4> QED
        BY <2>2, <2>3, <3>1, <4>1, <4>2
    <3> QED
      BY <3>2, <3>3
  <2>8. CASE SessionEnds \/ Break
    BY <2>4, <2>8 DEF SessionEnds, Break, Leave
  <2>9. ASSUME NEW m \in Monitors, BulkEdit(m)
        PROVE  ListsInv'
    BY <2>9 DEF BulkEdit, ListsInv
  <2>10. ASSUME NEW m \in Monitors, NEW e \in Editors, Edit(e, m)
         PROVE  ListsInv'
    <3>1. /\ syncs' = [syncs EXCEPT ![e].phase = "call"]
          /\ behind' = (behind \/ \E a \in Underway : syncs[a].phase = "send")
      BY <2>10 DEF Edit
    <3>2. /\ syncs'[e].phase = "call"
          /\ \A a \in Syncs \ {e} : syncs'[a] = syncs[a]
      BY <2>1, <3>1 DEF Sync
    <3>3. ~behind' => SentCurrent'
      BY <2>1, <3>1, <3>2 DEF Underway
    <3> QED
      BY <2>2, <3>2, <3>3
  <2>11. ASSUME NEW a \in Syncs, SyncStep(a)
         PROVE  ListsInv'
    <3>1. UNCHANGED <<rows, socket, hub, session, runners>> /\ syncs[a] \in Sync
      BY <2>1, <2>11 DEF SyncStep, CallSync, ReadSync, FailSync, SendSync, agent
    <3>2. CASE CallSync(a)
      <4>1. /\ syncs' = [syncs EXCEPT ![a] =
                  IF Chosen THEN [phase |-> "read", to |-> hub, list |-> {}] ELSE Idle]
            /\ behind' = (behind /\ Underway # {})
            /\ UNCHANGED down
        BY <3>2 DEF CallSync
      <4>2. /\ syncs'[a].phase \in {"idle", "read"}
            /\ Chosen => syncs'[a].phase = "read" /\ syncs'[a].to = hub
            /\ \A b \in Syncs \ {a} : syncs'[b] = syncs[b]
        BY <2>1, <4>1 DEF Idle
      <4>3. ~behind' => SentCurrent'
        BY <2>1, <2>2, <2>3, <3>1, <4>1, <4>2 DEF Underway
      <4>4. Linked' => Comes(a)'
        BY <3>1, <4>2 DEF Chosen
      <4> QED
        BY <2>2, <4>3, <4>4
    <3>3. CASE ReadSync(a)
      <4>1. /\ syncs' = [syncs EXCEPT ![a].phase = "send", ![a].list = Current]
            /\ syncs[a].phase = "read" /\ UNCHANGED <<down, behind>>
        BY <3>3 DEF ReadSync
      <4>2. /\ syncs'[a].phase = "send" /\ syncs'[a].list = Current
            /\ syncs'[a].to = syncs[a].to
            /\ \A b \in Syncs \ {a} : syncs'[b] = syncs[b]
        BY <2>1, <4>1 DEF Sync
      <4>3. \A b \in Syncs : Comes(b) => Comes(b)'
        BY <3>1, <4>1, <4>2
      <4>4. SentCurrent => SentCurrent'
        BY <2>3, <3>1, <4>2
      <4> QED
        BY <2>2, <2>3, <3>1, <4>1, <4>3, <4>4
    <3>4. CASE FailSync(a)
      BY <3>4 DEF FailSync, ListsInv
    <3>5. CASE SendSync(a)
      <4> DEFINE s == syncs[a].to
      <4>1. /\ syncs' = [syncs EXCEPT ![a] = Idle] /\ syncs[a].phase = "send"
            /\ down' = IF socket[s] = "open" /\ session = s
                         THEN [down EXCEPT ![s] = Append(@, syncs[a].list)] ELSE down
            /\ UNCHANGED behind
        BY <3>5 DEF SendSync
      <4>2. /\ syncs'[a].phase = "idle"
            /\ \A b \in Syncs \ {a} : syncs'[b] = syncs[b]
        BY <2>1, <4>1 DEF Idle
      <4>3. SentCurrent => SentCurrent' /\ syncs[a].list = Current
        BY <2>3, <3>1, <4>1, <4>2
      <4>4. CASE Linked /\ s = session
        <5>1. /\ down' = [down EXCEPT ![session] = Append(@, syncs[a].list)]
              /\ session \in Sockets /\ syncs[a].list \in SUBSET Config
          BY <2>1, <3>1, <4>1, <4>4 DEF Sync
        <5>2. down'[session] = Append(down[session], syncs[a].list)
          BY <2>1, <5>1
        <5>3. /\ Len(down'[session]) = Len(down[session]) + 1
              /\ down'[session] # <<>>
              /\ down'[session][Len(down[session]) + 1] = syncs[a].list
          <6>1. down[session] \in Seq(SUBSET Config)
            BY <2>1, <5>1
          <6> QED
            BY <5>1, <5>2, <6>1, AppendProperties
        <5>4. Arriving' = syncs[a].list
          BY <3>1, <5>3 DEF Arriving
        <5> QED
          BY <2>2, <2>3, <3>1, <4>1, <4>3, <5>4
      <4>5. CASE ~Linked
        BY <2>2, <3>1, <4>1, <4>3, <4>5
      <4>6. CASE Linked /\ s # session
        <5>1. Arriving' = Arriving
          BY <2>3, <3>1, <4>1, <4>6
        <5>2. ~Comes(a)
          BY <4>1, <4>6
        <5> QED
          BY <2>2, <2>3, <3>1, <4>1, <4>2, <4>3, <5>1, <5>2
      <4> QED
        BY <4>4, <4>5, <4>6
    <3> QED
      BY <2>11, <3>2, <3>3, <3>4, <3>5 DEF SyncStep
  <2>12. CASE ReceiveSync
    <3> DEFINE d == down[session]
    <3>1. /\ session \in Sockets /\ d \in Seq(SUBSET Config) /\ d # <<>>
          /\ runners' = Head(d) /\ down' = [down EXCEPT ![session] = Tail(@)]
          /\ UNCHANGED <<rows, socket, hub, syncs, session, behind>>
      BY <2>1, <2>12 DEF ReceiveSync, Reconciled
    <3>2. down'[session] = Tail(d) /\ Len(Tail(d)) = Len(d) - 1 /\ Len(d) \in Nat \ {0}
      BY <2>1, <3>1
    <3>3. CASE Len(d) = 1
      BY <2>2, <2>3, <3>1, <3>2, <3>3, LastStays DEF Arriving
    <3>4. CASE Len(d) # 1
      BY <2>2, <2>3, <3>1, <3>2, <3>4, LastStays DEF Arriving
    <3> QED
      BY <3>3, <3>4
  <2>13. ASSUME UNCHANGED <<rows, syncs, behind, session, hub, socket, down, runners>>
         PROVE  ListsInv'
    BY <2>2, <2>3, <2>13
  <2>14. ASSUME NEW r \in runners, StartCheck(r)
         PROVE  ListsInv'
    BY <2>13, <2>14 DEF StartCheck, agent
  <2>15. ASSUME NEW c \in checks, EndCheck(c)
         PROVE  ListsInv'
    BY <2>13, <2>15 DEF EndCheck, agent
  <2>16. CASE Crash
    <3>1. ~Linked' /\ \A a \in Syncs : syncs'[a].phase = "idle"
      BY <2>1, <2>16 DEF Crash, Idle
    <3> QED
      BY <2>2, <3>1
  <2>17. CASE UNCHANGED vars
    BY <2>13, <2>17 DEF vars, agent
  <2>18. DOMAIN syncs = Syncs
    BY <2>1
  <2> QED
    BY <2>5, <2>6, <2>7, <2>8, <2>9, <2>10, <2>11, <2>12, <2>14, <2>15, <2>16, <2>17, <2>18
       DEF Next
<1> QED
  BY <1>1, <1>2, TypeCorrect, PTL DEF Spec

\* So the agent ends up running the active monitors assigned to it, as they are
\* (syncProxyMonitors, handleProxySync).
THEOREM RunnersFollow == Spec => []RunnersFollowMonitors
<1>1. ASSUME TypeInv, ListsInv
      PROVE  RunnersFollowMonitors
  BY <1>1 DEF ListsInv, RunnersFollowMonitors, Arriving, Idle
<1> QED
  BY <1>1, TypeCorrect, ListsInvariant, PTL

-----------------------------------------------------------------------------
(***************************************************************************)
(* Verdicts.                                                               *)
(***************************************************************************)
\* An executor comes to one of the four outcomes, whatever it is asked.
LEMMA VerdictType ==
  ASSUME NEW e \in Executors, NEW cfg, NEW ans, Exchange(cfg, ans),
         NEW first \in Certificates, NEW later \in Certificates
  PROVE  Verdict(e, cfg, ans, first, later) \in Outcomes
<1>1. ServerCertificate(later) \in Outcomes
  BY DEF ServerCertificate, Outcomes
<1>2. ProxiedBody(e, cfg, ans) \in Outcomes
  BY DEF ProxiedBody, Outcomes
<1>3. ServerHttp(cfg, ans, first, later) \in Outcomes
  BY <1>1 DEF ServerHttp, Outcomes
<1>4. CASE cfg.type \in {"http", "json_api"} /\ cfg.type \in Understood(e)
  <2>1. AgentHttp(cfg, ans, first) \in Outcomes
    BY DEF AgentHttp, Overridden, ProxiedBody, Outcomes
  <2>2. ProxyHttp(cfg, ans, first, later) \in Outcomes
    BY DEF ProxyHttp, Overridden, ProxiedBody, Outcomes
  <2>3. WebVerdict(e, cfg, ans, first, later) \in Outcomes
    BY <1>3, <2>1, <2>2 DEF WebVerdict, Executors
  <2> QED
    BY <1>4, <2>3 DEF Verdict
<1>5. CASE ~(cfg.type \in {"http", "json_api"} /\ cfg.type \in Understood(e))
  <2>1. /\ SslVerdict(e, ans, first) \in Outcomes
        /\ DnsVerdict(e, cfg, ans) \in Outcomes
        /\ SmtpVerdict(e, cfg, ans) \in Outcomes
        /\ DockerVerdict(ans) \in Outcomes
        /\ ScriptVerdict(cfg, ans) \in Outcomes
        /\ BrowserVerdict(cfg, ans) \in Outcomes
        /\ ReachVerdict(ans) \in Outcomes
        /\ "down" \in Outcomes
    BY DEF SslVerdict, DnsVerdict, SmtpVerdict, DockerVerdict, ScriptVerdict, BrowserVerdict,
           ReachVerdict, Outcomes
  <2>2. cfg.type \in {"http", "json_api", "ssl", "dns", "smtp", "docker", "script", "browser",
                      "ping", "tcp", "game_server"}
    BY DEF Exchange
  <2> QED
    BY <1>5, <2>1, <2>2 DEF Verdict
<1> QED
  BY <1>4, <1>5

\* Who says 'up' has had an answer that shows what was asked, or has looked at a
\* certificate about to expire.
LEMMA Earned ==
  ASSUME NEW e \in Executors, NEW cfg, NEW ans, Exchange(cfg, ans),
         NEW first \in Certificates, NEW later \in Certificates,
         Coarse(Verdict(e, cfg, ans, first, later)) = "up"
  PROVE  /\ ans.reach
         /\ Web(cfg) /\ Secured(cfg) => Valid(first)
         /\ \/ Asked(cfg, ans)
            \/ /\ e # "server" /\ Web(cfg) /\ Secured(cfg)
               /\ first.days <= WarnDays \/ later.days <= WarnDays
<1> DEFINE v == Verdict(e, cfg, ans, first, later)
<1>0. cfg.type \in Understood(e) /\ v \in {"up", "ssl_warning"}
  <2>1. v \in Outcomes
    BY VerdictType
  <2>2. v # "down" /\ v # "ssl_expired"
    BY DEF Coarse
  <2>3. cfg.type \notin Understood(e) => v = "down"
    BY DEF Verdict
  <2> QED
    BY <2>1, <2>2, <2>3 DEF Outcomes
<1>1. CASE cfg.type \in {"http", "json_api"}
  <2>1. /\ cfg \in [type : {"http", "json_api"}, https : BOOLEAN, ignoreSsl : BOOLEAN,
                    headers : BOOLEAN, codes : {"default", "custom", "empty"}, keyword : Keywords,
                    path : {"none", "plain", "rooted"}, expected : STRING \ {"text", "missing"}]
        /\ ans \in [reach : BOOLEAN, code : Nat, found : BOOLEAN, json : STRING]
        /\ cfg.type = "http" => cfg.path = "none"
        /\ cfg.type = "json_api" => cfg.codes = "default" /\ cfg.keyword = "none"
    BY <1>1 DEF Exchange
  <2>2. v = WebVerdict(e, cfg, ans, first, later)
    BY <1>0, <1>1 DEF Verdict
  <2>3. CASE e = "server"
    <3>1. v = ServerHttp(cfg, ans, first, later)
      BY <2>2, <2>3 DEF WebVerdict
    <3>2. Answers(cfg, ans, first)
      BY <3>1, <1>0 DEF ServerHttp
    <3>5. ServerBody(cfg, ans)
      BY <3>1, <3>2, <1>0 DEF ServerHttp
    <3>3. CASE cfg.type = "http"
      <4>1. Accepts("server", cfg.codes, ans.code) /\ KeywordHolds("server", cfg.keyword, ans.found)
        BY <3>5, <3>3 DEF ServerBody
      <4>2. IF cfg.codes = "custom" THEN ans.code \in CustomCodes ELSE ans.code \in 200 .. 399
        BY <4>1, <2>1 DEF Accepts, ListedCodes
      <4>3. (cfg.keyword = "present" => ans.found) /\ (cfg.keyword = "absent" => ~ans.found)
        BY <4>1 DEF KeywordHolds
      <4> QED
        BY <3>2, <3>3, <4>2, <4>3 DEF Answers, Asked
    <3>4. CASE cfg.type = "json_api"
      <4>1. ans.code >= 200 /\ ans.code < 300 /\ ServerJsonHolds(cfg.path, cfg.expected, ans.json)
        BY <3>5, <3>4 DEF ServerBody
      <4>2. Asked(cfg, ans)
        BY <4>1, <3>4, <2>1 DEF Asked, ServerJsonHolds
      <4> QED
        BY <3>2, <4>2 DEF Answers
    <3> QED
      BY <1>1, <3>3, <3>4
  <2>4. CASE e # "server"
    <3>1. e \in {"agent", "proxy"}
      BY <2>4 DEF Executors
    <3>2. v = IF e = "agent" THEN AgentHttp(cfg, ans, first) ELSE ProxyHttp(cfg, ans, first, later)
      BY <2>2, <3>1 DEF WebVerdict
    <3>3. Answers(cfg, ans, first) /\ Accepts(e, cfg.codes, ans.code)
      BY <3>1, <3>2, <1>0 DEF AgentHttp, ProxyHttp
    <3>4. \/ ProxiedBody(e, cfg, ans) = "up"
          \/ Secured(cfg) /\ (first.days <= WarnDays \/ later.days <= WarnDays)
      <4>1. CASE e = "agent"
        BY <3>2, <3>3, <4>1, <1>0 DEF AgentHttp, Overridden, ProxiedBody, Certificates, WarnDays
      <4>2. CASE e = "proxy"
        BY <3>2, <3>3, <4>2, <1>0 DEF ProxyHttp, Overridden, ProxiedBody, Certificates, WarnDays
      <4> QED
        BY <3>1, <4>1, <4>2
    <3>5. CASE ProxiedBody(e, cfg, ans) = "up"
      <4>1. /\ KeywordHolds(e, cfg.keyword, ans.found)
            /\ ProxiedJsonHolds(cfg.path, cfg.expected, ans.json)
        BY <3>5 DEF ProxiedBody
      <4>2. IF cfg.codes = "custom" THEN ans.code \in CustomCodes ELSE ans.code \in 200 .. 399
        BY <3>1, <3>3, <2>1 DEF Accepts, ListedCodes
      <4>3. (cfg.keyword = "present" => ans.found) /\ (cfg.keyword = "absent" => ~ans.found)
        BY <4>1 DEF KeywordHolds
      <4>4. cfg.path # "none" /\ cfg.expected \notin {"null", "empty"} => ans.json = cfg.expected
        BY <4>1 DEF ProxiedJsonHolds, ProxiedValue
      <4>5. Asked(cfg, ans)
        BY <4>2, <4>3, <4>4, <2>1, <1>1 DEF Asked
      <4> QED
        BY <4>5, <3>3 DEF Answers
    <3> QED
      BY <3>3, <3>4, <3>5, <2>4, <1>1 DEF Answers, Web
  <2> QED
    BY <2>3, <2>4
<1>2. CASE cfg.type \notin {"http", "json_api"}
  <2>1. ~Web(cfg)
    BY <1>2 DEF Web
  <2>2. ans.reach /\ Asked(cfg, ans)
    BY <1>0, <1>2 DEF Verdict, Exchange, SslVerdict, DnsVerdict, SmtpVerdict, DockerVerdict,
       ScriptVerdict, BrowserVerdict, ReachVerdict, Asked, Shows, KeywordHolds
  <2> QED
    BY <2>1, <2>2
<1> QED
  BY <1>1, <1>2

\* Where nothing is known to divide them, an executor that can send the request judges a
\* web page as the server does.
LEMMA WebAgreement ==
  ASSUME NEW e \in {"agent", "proxy"}, NEW cfg, NEW ans, Exchange(cfg, ans),
         cfg.type \in {"http", "json_api"}, met \in Certificates, ~Diverges(cfg, ans),
         ~(e = "proxy" /\ Unsendable(cfg))
  PROVE  Coarse(WebVerdict(e, cfg, ans, met, met)) = Coarse(WebVerdict("server", cfg, ans, met, met))
<1> DEFINE Body == /\ cfg.type = "http" => /\ Accepts("server", cfg.codes, ans.code)
                                          /\ KeywordHolds("server", cfg.keyword, ans.found)
                   /\ cfg.type = "json_api" => ServerJsonHolds(cfg.path, cfg.expected, ans.json)
<1>1. /\ cfg \in [type : {"http", "json_api"}, https : BOOLEAN, ignoreSsl : BOOLEAN,
                  headers : BOOLEAN, codes : {"default", "custom", "empty"}, keyword : Keywords,
                  path : {"none", "plain", "rooted"}, expected : STRING \ {"text", "missing"}]
      /\ ans \in [reach : BOOLEAN, code : Nat, found : BOOLEAN, json : STRING]
      /\ cfg.type = "http" => cfg.path = "none"
      /\ cfg.type = "json_api" => cfg.codes = "default" /\ cfg.keyword = "none"
  BY DEF Exchange
<1>2. /\ cfg.codes # "empty" /\ cfg.keyword # "unset"
      /\ cfg.type = "http" /\ cfg.codes = "default" => ans.code \notin (200 .. 399) \ ListedCodes
      /\ cfg.type = "json_api" =>
           /\ ans.code \in 200 .. 299 /\ ans.code \in ListedCodes
           /\ cfg.path # "rooted"
           /\ ~(cfg.path = "none" /\ ans.json = "text")
           /\ ~(cfg.path = "plain" /\ cfg.expected \in {"null", "empty"})
      /\ Secured(cfg) => /\ met.days # 0
                         /\ ~(met.days <= WarnDays /\ ProxiedBody("agent", cfg, ans) = "down")
  BY DEF Diverges, Web
<1>3. Accepts(e, cfg.codes, ans.code) <=> Accepts("server", cfg.codes, ans.code)
  BY <1>1, <1>2 DEF Accepts, ListedCodes
<1>4. cfg.type = "json_api" => Accepts(e, cfg.codes, ans.code)
  BY <1>1, <1>2 DEF Accepts, ListedCodes
<1>5. \A x \in {e, "agent"} : KeywordHolds(x, cfg.keyword, ans.found)
                              <=> KeywordHolds("server", cfg.keyword, ans.found)
  BY <1>1, <1>2 DEF KeywordHolds, Keywords
<1>6. cfg.type = "http" => ProxiedJsonHolds(cfg.path, cfg.expected, ans.json)
  BY <1>1 DEF ProxiedJsonHolds
<1>7. cfg.type = "json_api" =>
        /\ KeywordHolds(e, cfg.keyword, ans.found) /\ KeywordHolds("agent", cfg.keyword, ans.found)
        /\ ProxiedJsonHolds(cfg.path, cfg.expected, ans.json)
             <=> ServerJsonHolds(cfg.path, cfg.expected, ans.json)
  <2> SUFFICES ASSUME cfg.type = "json_api"
               PROVE  /\ KeywordHolds(e, cfg.keyword, ans.found)
                      /\ KeywordHolds("agent", cfg.keyword, ans.found)
                      /\ ProxiedJsonHolds(cfg.path, cfg.expected, ans.json)
                           <=> ServerJsonHolds(cfg.path, cfg.expected, ans.json)
    OBVIOUS
  <2>1. KeywordHolds(e, cfg.keyword, ans.found) /\ KeywordHolds("agent", cfg.keyword, ans.found)
    BY <1>1 DEF KeywordHolds
  <2>2. cfg.path \in {"none", "plain"}
    BY <1>1, <1>2
  <2>3. ASSUME cfg.path = "none"
        PROVE  /\ ProxiedJsonHolds(cfg.path, cfg.expected, ans.json)
               /\ ServerJsonHolds(cfg.path, cfg.expected, ans.json)
    BY <2>3, <1>2 DEF ProxiedJsonHolds, ServerJsonHolds
  <2>4. ASSUME cfg.path = "plain"
        PROVE  ProxiedJsonHolds(cfg.path, cfg.expected, ans.json)
                 <=> ServerJsonHolds(cfg.path, cfg.expected, ans.json)
    <3>1. cfg.expected \notin {"null", "empty", "text", "missing"}
      BY <2>4, <1>1, <1>2
    <3> QED
      BY <2>4, <3>1 DEF ProxiedJsonHolds, ServerJsonHolds, ProxiedValue
  <2> QED
    BY <2>1, <2>2, <2>3, <2>4
<1>8. \A x \in {e, "agent"} : Accepts(e, cfg.codes, ans.code) =>
        (Body <=> ProxiedBody(x, cfg, ans) = "up")
  BY <1>1, <1>3, <1>5, <1>6, <1>7 DEF ProxiedBody
<1>9. \A x : ProxiedBody(x, cfg, ans) \in {"up", "down"}
  BY DEF ProxiedBody
<1>10. WebVerdict("server", cfg, ans, met, met) =
         IF ~Answers(cfg, ans, met) \/ ~Accepts(e, cfg.codes, ans.code) \/ ~Body THEN "down"
         ELSE IF Secured(cfg) THEN ServerCertificate(met) ELSE "up"
  <2>1. WebVerdict("server", cfg, ans, met, met) = ServerHttp(cfg, ans, met, met)
    BY DEF WebVerdict
  <2>2. cfg.type = "json_api" => ans.code >= 200 /\ ans.code < 300
    BY <1>1, <1>2
  <2> QED
    BY <2>1, <2>2, <1>1, <1>3, <1>4 DEF ServerHttp, ServerBody
<1>11. WebVerdict(e, cfg, ans, met, met) =
         IF ~Answers(cfg, ans, met) \/ ~Accepts(e, cfg.codes, ans.code) THEN "down"
         ELSE IF Secured(cfg) THEN Overridden(met, ProxiedBody(e, cfg, ans))
         ELSE ProxiedBody(e, cfg, ans)
  <2>1. Answers(cfg, ans, met) /\ Secured(cfg) => Valid(met)
    BY DEF Answers
  <2>2. CASE e = "agent"
    BY <2>2 DEF WebVerdict, AgentHttp
  <2>3. CASE e = "proxy"
    BY <2>1, <2>3 DEF WebVerdict, ProxyHttp
  <2> QED
    BY <2>2, <2>3
<1>12. CASE ~Answers(cfg, ans, met) \/ ~Accepts(e, cfg.codes, ans.code)
  BY <1>10, <1>11, <1>12
<1>13. CASE /\ Answers(cfg, ans, met) /\ Accepts(e, cfg.codes, ans.code) /\ ~Secured(cfg)
  BY <1>8, <1>9, <1>10, <1>11, <1>13
<1>14. CASE /\ Answers(cfg, ans, met) /\ Accepts(e, cfg.codes, ans.code) /\ Secured(cfg)
  <2>1. met.days >= 0 /\ ~met.broken /\ met.days \in Int
    BY <1>14 DEF Answers, Valid, Certificates
  <2>2. Coarse(ServerCertificate(met)) = "up"
    BY <2>1 DEF Coarse, ServerCertificate
  <2>3. met.days <= WarnDays => Body
    BY <1>2, <1>8, <1>9, <1>14
  <2>4. Overridden(met, ProxiedBody(e, cfg, ans)) = ProxiedBody(e, cfg, ans)
    BY <1>2, <1>8, <1>14, <2>1, <2>3 DEF Overridden, WarnDays
  <2>5. CASE Body
    BY <1>8, <1>10, <1>11, <1>14, <2>2, <2>4, <2>5 DEF Coarse
  <2>6. CASE ~Body
    BY <1>8, <1>9, <1>10, <1>11, <1>14, <2>4, <2>6 DEF Coarse
  <2> QED
    BY <2>5, <2>6
<1> QED
  BY <1>12, <1>13, <1>14

\* So for every type it knows.
LEMMA Agreement ==
  ASSUME NEW e \in Executors, NEW cfg, NEW ans, Exchange(cfg, ans), cfg.type \in Understood(e),
         met \in Certificates, ~Diverges(cfg, ans), ~(e = "proxy" /\ Web(cfg) /\ Unsendable(cfg))
  PROVE  Coarse(Verdict(e, cfg, ans, met, met)) = Coarse(Verdict("server", cfg, ans, met, met))
<1>1. CASE e = "server"
  BY <1>1
<1>2. CASE e # "server" /\ cfg.type \in {"http", "json_api"}
  <2>1. e \in {"agent", "proxy"}
    BY <1>2 DEF Executors
  <2>2. Coarse(WebVerdict(e, cfg, ans, met, met)) = Coarse(WebVerdict("server", cfg, ans, met, met))
    BY <1>2, <2>1, WebAgreement DEF Web
  <2>3. cfg.type \in Understood("server")
    BY <1>2 DEF Understood
  <2> QED
    BY <1>2, <2>2, <2>3 DEF Verdict
<1>3. CASE e # "server" /\ cfg.type \notin {"http", "json_api"}
  <2>1. e \in {"agent", "proxy"}
    BY <1>3 DEF Executors
  <2>2. cfg.type \in {"ping", "tcp", "dns", "ssl", "smtp", "game_server"}
    BY <1>3, <2>1 DEF Understood
  <2>3. cfg.type \in Understood("server")
    BY <2>2 DEF Understood
  <2>4. CASE cfg.type = "ssl"
    <3>1. Verdict(e, cfg, ans, met, met) = SslVerdict(e, ans, met)
      BY <2>3, <2>4 DEF Verdict
    <3>2. Verdict("server", cfg, ans, met, met) = SslVerdict("server", ans, met)
      BY <2>3, <2>4 DEF Verdict
    <3>3. met.trusted /\ met.days # 0
      BY <2>4 DEF Diverges
    <3> QED
      BY <2>1, <3>1, <3>2, <3>3 DEF SslVerdict, Coarse, Valid, Certificates
  <2>5. CASE cfg.type = "dns"
    <3>1. Verdict(e, cfg, ans, met, met) = DnsVerdict(e, cfg, ans)
      BY <2>3, <2>5 DEF Verdict
    <3>2. Verdict("server", cfg, ans, met, met) = DnsVerdict("server", cfg, ans)
      BY <2>3, <2>5 DEF Verdict
    <3>3. /\ cfg \in [type : {"dns"}, record : Records, expected : {"none", "whole", "part", "other"}]
          /\ ans \in [reach : BOOLEAN, records : SUBSET Records]
      BY <2>5 DEF Exchange
    <3>4. /\ cfg.record # "SOA"
          /\ cfg.record \in {"A", "AAAA", "CNAME"} => cfg.record \in ans.records
          /\ cfg.record = "CNAME" => ans.records \cap {"A", "AAAA"} # {}
          /\ cfg.expected # "part"
          /\ ~(cfg.expected = "whole" /\ cfg.record = "MX")
      BY <2>5 DEF Diverges
    <3>5. \A x \in {"agent", "proxy", "server"} :
            Resolved(x, cfg.record, ans.records) <=> cfg.record \in ans.records
      BY <3>3, <3>4 DEF Resolved, Records
    <3>6. Resolved(e, cfg.record, ans.records) =>
            (Shows(e, cfg.record, cfg.expected, ans.records)
               <=> Shows("server", cfg.record, cfg.expected, ans.records))
      BY <2>1, <3>3, <3>4, <3>5 DEF Shows, Records
    <3>7. DnsVerdict(e, cfg, ans) = DnsVerdict("server", cfg, ans)
      BY <2>1, <3>5, <3>6 DEF DnsVerdict
    <3> QED
      BY <3>1, <3>2, <3>7
  <2>6. CASE cfg.type = "smtp"
    <3>1. Verdict(e, cfg, ans, met, met) = SmtpVerdict(e, cfg, ans)
      BY <2>3, <2>6 DEF Verdict
    <3>2. Verdict("server", cfg, ans, met, met) = SmtpVerdict("server", cfg, ans)
      BY <2>3, <2>6 DEF Verdict
    <3>3. cfg.port \in {"smtp", "general"} /\ cfg.port # "general" /\ ans.ehlo
      BY <2>6 DEF Diverges, Exchange
    <3>4. SmtpVerdict(e, cfg, ans) = SmtpVerdict("server", cfg, ans)
      BY <3>3 DEF SmtpVerdict
    <3> QED
      BY <3>1, <3>2, <3>4
  <2>7. CASE cfg.type \in {"ping", "tcp", "game_server"}
    BY <2>3, <2>7 DEF Verdict
  <2> QED
    BY <2>2, <2>4, <2>5, <2>6, <2>7
<1> QED
  BY <1>1, <1>2, <1>3

-----------------------------------------------------------------------------
(***************************************************************************)
(* Types.                                                                  *)
(***************************************************************************)
\* A check of a target keeps its types.
LEMMA TargetType ==
  ASSUME ChecksTypeOK, TargetNext
  PROVE  /\ case' \in Cases /\ cert' \in case'.certs /\ met' \in case'.certs \cup {None}
         /\ verdict' \in [Executors -> Outcomes] \cup {None}
<1>1. CASE Request \/ ReplaceCertificate \/ CheckAgain
  BY <1>1 DEF ChecksTypeOK, Request, ReplaceCertificate, CheckAgain
<1>2. CASE Conclude
  <2>1. Exchange(case.cfg, case.ans) /\ met \in Certificates /\ cert \in Certificates
    BY <1>2, CasesAssumption DEF ChecksTypeOK, Conclude
  <2>2. \A e \in Executors : Verdict(e, case.cfg, case.ans, met, cert) \in Outcomes
    BY <2>1, VerdictType
  <2> QED
    BY <1>2, <2>2 DEF ChecksTypeOK, Conclude
<1> QED
  BY <1>1, <1>2 DEF TargetNext

\* So does a watcher.
LEMMA WatcherType ==
  ASSUME WatcherTypeOK, WatcherNext
  PROVE  WatcherTypeOK'
<1> USE DEF WatcherTypeOK
<1>0. Unborn \in Watcher /\ Gone \in Watcher
  BY DEF Unborn, Gone, Watcher, Known
<1>1. ASSUME NEW w \in Objects, Begin(w)
      PROVE  WatcherTypeOK'
  <2>1. [Unborn EXCEPT !.step = "idle", !.runs = TRUE, !.loaded = row] \in Watcher
    BY <1>0 DEF Watcher
  <2>2. \A o \in Objects : [watcher[o] EXCEPT !.runs = FALSE] \in Watcher
    BY DEF Watcher
  <2>3. watcher' \in [Objects -> Watcher]
    BY <1>0, <1>1, <2>1, <2>2 DEF Begin
  <2> QED
    BY <1>1, <2>3 DEF Begin
<1>2. ASSUME NEW w \in Objects, Read(w)
      PROVE  WatcherTypeOK'
  <2>1. Previous(w) \in Known /\ value \in Known
    BY DEF Previous, Watcher, Known
  <2>2. [watcher[w] EXCEPT !.old = Previous(w), !.prev = value, !.step = "persist"] \in Watcher
    BY <2>1 DEF Watcher
  <2>3. watcher' = [watcher EXCEPT ![w] =
          [watcher[w] EXCEPT !.old = Previous(w), !.prev = value, !.step = "persist"]]
    BY <1>2 DEF Read
  <2> QED
    BY <1>2, <2>2, <2>3 DEF Read
<1>3. ASSUME NEW w \in Objects, Persist(w)
      PROVE  WatcherTypeOK'
  <2>1. watcher' = [watcher EXCEPT ![w] = [watcher[w] EXCEPT !.step = "report"]]
    BY <1>3 DEF Persist
  <2>2. [watcher[w] EXCEPT !.step = "report"] \in Watcher /\ watcher[w].prev \in Known
    BY DEF Watcher
  <2> QED
    BY <1>3, <2>1, <2>2 DEF Persist
<1>4. ASSUME NEW w \in Objects, Report(w) \/ FailReport(w)
      PROVE  WatcherTypeOK'
  <2>1. [watcher[w] EXCEPT !.step = "idle"] \in Watcher /\ watcher[w].prev \in Known
    BY DEF Watcher
  <2>2. told' \in Known /\ missed' \in BOOLEAN
    BY <1>4, <2>1 DEF Report, FailReport
  <2> QED
    BY <1>0, <1>4, <2>1, <2>2 DEF Report, FailReport, Finish
<1>5. CASE Die
  BY <1>0, <1>5 DEF Die
<1>6. CASE ValueChanges
  BY <1>6 DEF ValueChanges
<1> QED
  BY <1>1, <1>2, <1>3, <1>4, <1>5, <1>6 DEF WatcherNext

\* And a push monitor.
LEMMA PushType ==
  ASSUME PushTypeOK, PushNext
  PROVE  PushTypeOK'
<1>0. /\ 0 \in 0 .. Old /\ Old \in 0 .. Old /\ 0 \in 0 .. MaxArriving
      /\ Unchecked \in [status : {"pending", "up", "down"}, quiet : 0 .. Old, known : BOOLEAN]
  BY IntervalAssumption DEF Old, Unchecked
<1> USE DEF PushTypeOK
<1>1. Older(lastPush) \in 0 .. Old \cup {Never} /\ Older(quiet) \in 0 .. Old
  BY IntervalAssumption DEF Older, Old
<1>2. CASE LookUp \/ RecordPush
  <2>1. arriving' \in 0 .. MaxArriving
    BY <1>2, IntervalAssumption DEF LookUp, RecordPush
  <2> QED
    BY <1>0, <1>2, <2>1 DEF LookUp, RecordPush
<1>3. CASE CheckPush
  BY <1>3 DEF CheckPush, PushVerdict
<1>4. CASE PassTime
  BY <1>1, <1>4 DEF PassTime
<1>5. CASE PausePush \/ RestartServer
  BY <1>0, <1>5 DEF PausePush, RestartServer
<1> QED
  BY <1>2, <1>3, <1>4, <1>5 DEF PushNext

\* And a proxied one.
LEMMA ResultType ==
  ASSUME ResultTypeOK, ResultNext
  PROVE  ResultTypeOK'
<1> USE DEF ResultTypeOK
<1>1. ASSUME NEW s \in {"up", "down"}, RecordResult(s)
      PROVE  ResultTypeOK'
  BY <1>1, WaitAssumption DEF RecordResult
<1>2. CASE BeatWithout
  BY <1>2 DEF BeatWithout, Shown, Turned
<1>3. CASE BeatWith
  <2>1. entry \in [status : {"up", "down"}, age : 0 .. MaxWait + 1] /\ Shown(entry.status) \in {"up", "down"}
    BY <1>3 DEF BeatWith, Fresh, Shown, Turned
  <2> QED
    BY <1>3, <2>1 DEF BeatWith
<1>4. CASE ResultAges
  <2>1. entry \in [status : {"up", "down"}, age : 0 .. MaxWait + 1] /\ entry.age + 1 \in 0 .. MaxWait + 1
    BY <1>4, WaitAssumption DEF ResultAges, Fresh
  <2> QED
    BY <1>4, <2>1 DEF ResultAges
<1>5. CASE RestartProcess
  BY <1>5 DEF RestartProcess
<1> QED
  BY <1>1, <1>2, <1>3, <1>4, <1>5 DEF ResultNext

\* Configurations, verdicts, watchers, pushes and results have their types.
THEOREM ChecksTypeCorrect == ChecksSpec => []ChecksTypeOK
<1>1. ChecksInit => ChecksTypeOK
  <2> SUFFICES ASSUME ChecksInit PROVE ChecksTypeOK
    OBVIOUS
  <2>1. case \in Cases
    BY CasesAssumption DEF ChecksInit
  <2>2. cert \in case.certs
    BY <2>1, CasesAssumption DEF ChecksInit
  <2>3. WatcherTypeOK
    BY ValueAssumption DEF ChecksInit, WatcherInit, WatcherTypeOK, Watcher, Unborn, Known
  <2>4. PushTypeOK
    <3>1. /\ 0 \in 0 .. Old /\ Old \in 0 .. Old /\ 0 \in 0 .. MaxArriving
          /\ Unchecked \in [status : {"pending", "up", "down"}, quiet : 0 .. Old, known : BOOLEAN]
      BY IntervalAssumption DEF Old, Unchecked
    <3> QED
      BY <3>1 DEF ChecksInit, PushInit, PushTypeOK
  <2>5. ResultTypeOK
    BY DEF ChecksInit, ResultInit, ResultTypeOK
  <2> QED
    BY <2>1, <2>2, <2>3, <2>4, <2>5 DEF ChecksInit, ChecksTypeOK
<1>2. ChecksTypeOK /\ [ChecksNext]_checksVars => ChecksTypeOK'
  <2> SUFFICES ASSUME ChecksTypeOK, [ChecksNext]_checksVars PROVE ChecksTypeOK'
    OBVIOUS
  <2>1. /\ kind' = kind
        /\ TargetNext \/ UNCHANGED targetVars
        /\ WatcherNext \/ UNCHANGED watcherVars
        /\ PushNext \/ UNCHANGED pushVars
        /\ ResultNext \/ UNCHANGED resultVars
    BY DEF ChecksNext, checksVars
  <2>2. /\ case' \in Cases /\ cert' \in case'.certs /\ met' \in case'.certs \cup {None}
        /\ verdict' \in [Executors -> Outcomes] \cup {None}
    <3>1. CASE UNCHANGED targetVars
      BY <3>1 DEF ChecksTypeOK, targetVars
    <3> QED
      BY <2>1, <3>1, TargetType
  <2>3. WatcherTypeOK'
    <3>1. CASE UNCHANGED watcherVars
      BY <3>1 DEF ChecksTypeOK, WatcherTypeOK, watcherVars
    <3> QED
      BY <2>1, <3>1, WatcherType DEF ChecksTypeOK
  <2>4. PushTypeOK'
    <3>1. CASE UNCHANGED pushVars
      BY <3>1 DEF ChecksTypeOK, PushTypeOK, pushVars
    <3> QED
      BY <2>1, <3>1, PushType DEF ChecksTypeOK
  <2>5. ResultTypeOK'
    <3>1. CASE UNCHANGED resultVars
      BY <3>1 DEF ChecksTypeOK, ResultTypeOK, resultVars
    <3> QED
      BY <2>1, <3>1, ResultType DEF ChecksTypeOK
  <2> QED
    BY <2>1, <2>2, <2>3, <2>4, <2>5 DEF ChecksTypeOK
<1> QED
  BY <1>1, <1>2, PTL DEF ChecksSpec

-----------------------------------------------------------------------------
(***************************************************************************)
(* The executors.                                                          *)
(***************************************************************************)
\* The age of the latest push in memory, a result as it is kept, and the verdict of each
\* executor are what they are said to be.
StatusInv ==
  /\ ConcludedInv
  /\ SilenceInv /\ SilenceIsDown
  /\ ResultInv /\ ProxiedUpIsReported

\* A conclusion is the verdict on what the request met.
LEMMA ConcludedStep ==
  ASSUME ChecksTypeOK, ConcludedInv, TargetNext \/ UNCHANGED targetVars
  PROVE  ConcludedInv'
<1>1. CASE Request \/ ReplaceCertificate \/ CheckAgain
  BY <1>1 DEF ConcludedInv, Request, ReplaceCertificate, CheckAgain
<1>2. CASE Conclude
  BY <1>2 DEF ConcludedInv, Conclude
<1>3. CASE UNCHANGED targetVars
  BY <1>3 DEF ConcludedInv, targetVars
<1> QED
  BY <1>1, <1>2, <1>3 DEF TargetNext

\* The age in memory grows with the silence.
LEMMA SilenceStep ==
  ASSUME PushTypeOK, SilenceInv, SilenceIsDown, PushNext \/ UNCHANGED pushVars
  PROVE  SilenceInv' /\ SilenceIsDown'
<1> USE DEF PushTypeOK
<1>1. CASE LookUp \/ RecordPush
  BY <1>1 DEF LookUp, RecordPush, SilenceInv, SilenceIsDown
<1>2. CASE CheckPush
  <2>1. SilenceInv'
    BY <1>2 DEF CheckPush, SilenceInv
  <2>2. ~dropped /\ arriving = 0 =>
          PushVerdict = IF quiet > MaxInterval THEN "down" ELSE "up"
    BY IntervalAssumption DEF PushVerdict, SilenceInv, Old
  <2>3. SilenceIsDown'
    BY <1>2, <2>2 DEF CheckPush, SilenceIsDown
  <2> QED
    BY <2>1, <2>3
<1>3. CASE PassTime
  <2>1. SilenceIsDown'
    BY <1>3 DEF PassTime, SilenceIsDown
  <2>2. ~dropped => Older(lastPush) = Older(quiet) \/ (Older(lastPush) = Never /\ Older(quiet) = Old)
    BY <1>3, IntervalAssumption DEF PassTime, SilenceInv, Older, Old
  <2>3. SilenceInv'
    BY <1>3, <2>2 DEF PassTime, SilenceInv
  <2> QED
    BY <2>1, <2>3
<1>4. CASE PausePush \/ RestartServer
  BY <1>4 DEF PausePush, RestartServer, Unchecked, SilenceInv, SilenceIsDown
<1>5. CASE UNCHANGED pushVars
  BY <1>5 DEF pushVars, SilenceInv, SilenceIsDown
<1> QED
  BY <1>1, <1>2, <1>3, <1>4, <1>5 DEF PushNext

\* A result that is not turned is shown as it was reported.
LEMMA ResultStep ==
  ASSUME ResultTypeOK, ResultInv, ProxiedUpIsReported, ResultNext \/ UNCHANGED resultVars
  PROVE  ResultInv' /\ ProxiedUpIsReported'
<1> USE DEF ResultInv, ProxiedUpIsReported
<1>1. ASSUME NEW s \in {"up", "down"}, RecordResult(s)
      PROVE  ResultInv' /\ ProxiedUpIsReported'
  BY <1>1 DEF RecordResult
<1>2. CASE BeatWithout
  BY <1>2 DEF BeatWithout
<1>3. CASE BeatWith
  <2>1. entry \in [status : {"up", "down"}, age : 0 .. MaxWait + 1]
    BY <1>3 DEF BeatWith, Fresh, ResultTypeOK
  <2>2. entry'.status = Shown(entry.status) /\ beat'.status = Shown(entry.status) /\ beat'.of = reported
    BY <1>3, <2>1 DEF BeatWith
  <2>3. ~upsideDown => Shown(entry.status) = reported
    BY <1>3, <2>1 DEF Shown, BeatWith, Fresh
  <2> QED
    BY <1>3, <2>2, <2>3 DEF BeatWith
<1>4. CASE ResultAges
  <2>1. entry \in [status : {"up", "down"}, age : 0 .. MaxWait + 1] /\ entry # NoResult
    BY <1>4 DEF ResultAges, Fresh, ResultTypeOK
  <2>2. entry'.status = entry.status
    BY <1>4, <2>1 DEF ResultAges
  <2> QED
    BY <1>4, <2>1, <2>2 DEF ResultAges
<1>5. CASE RestartProcess
  BY <1>5 DEF RestartProcess
<1>6. CASE UNCHANGED resultVars
  BY <1>6 DEF resultVars
<1> QED
  BY <1>1, <1>2, <1>3, <1>4, <1>5, <1>6 DEF ResultNext

\* The inductive invariant of the two properties of a status.
THEOREM StatusInvariant == ChecksSpec => [](ChecksTypeOK /\ StatusInv)
<1>1. ChecksInit => StatusInv
  BY DEF ChecksInit, StatusInv, ConcludedInv, PushInit, Unchecked, SilenceInv, SilenceIsDown,
         ResultInit, ResultInv, ProxiedUpIsReported
<1>2. ChecksTypeOK /\ StatusInv /\ [ChecksNext]_checksVars => StatusInv'
  <2> SUFFICES ASSUME ChecksTypeOK, StatusInv, [ChecksNext]_checksVars PROVE StatusInv'
    OBVIOUS
  <2>1. /\ TargetNext \/ UNCHANGED targetVars
        /\ PushNext \/ UNCHANGED pushVars
        /\ ResultNext \/ UNCHANGED resultVars
    BY DEF ChecksNext, checksVars
  <2>2. ConcludedInv'
    BY <2>1, ConcludedStep DEF StatusInv
  <2>3. SilenceInv' /\ SilenceIsDown'
    BY <2>1, SilenceStep DEF StatusInv, ChecksTypeOK
  <2>4. ResultInv' /\ ProxiedUpIsReported'
    BY <2>1, ResultStep DEF StatusInv, ChecksTypeOK
  <2> QED
    BY <2>2, <2>3, <2>4 DEF StatusInv
<1> QED
  BY <1>1, <1>2, ChecksTypeCorrect, PTL DEF ChecksSpec

\* What each executor concluded, about an exchange and certificates that can be.
LEMMA Conclusions ==
  ASSUME ChecksTypeOK, ConcludedInv, verdict # None
  PROVE  /\ Exchange(case.cfg, case.ans) /\ met \in Certificates /\ cert \in Certificates
         /\ \A e \in Executors : verdict[e] = Verdict(e, case.cfg, case.ans, met, cert)
BY CasesAssumption DEF ChecksTypeOK, ConcludedInv

\* No check, no result and no push that never came makes a monitor 'up', whatever is
\* asked and answered, whatever the certificates and however long the intervals.
THEOREM StatusEarned == ChecksSpec => []StatusIsEarned
<1>1. ChecksTypeOK /\ StatusInv => StatusIsEarned
  <2> SUFFICES ASSUME ChecksTypeOK, StatusInv PROVE StatusIsEarned
    OBVIOUS
  <2>1. ASSUME verdict # None, NEW e \in Executors, Coarse(verdict[e]) = "up"
        PROVE  /\ case.ans.reach
               /\ Web(case.cfg) /\ Secured(case.cfg) => Valid(met)
               /\ \/ Asked(case.cfg, case.ans)
                  \/ /\ e # "server" /\ Web(case.cfg) /\ Secured(case.cfg)
                     /\ met.days <= WarnDays \/ cert.days <= WarnDays
    <3>1. /\ Exchange(case.cfg, case.ans) /\ met \in Certificates /\ cert \in Certificates
          /\ Coarse(Verdict(e, case.cfg, case.ans, met, cert)) = "up"
      BY <2>1, Conclusions DEF StatusInv
    <3> QED
      BY <3>1, Earned
  <2>2. UpIsEarned
    BY <2>1 DEF UpIsEarned, StatusInv
  <2> QED
    BY <2>2 DEF StatusIsEarned, StatusInv
<1> QED
  BY <1>1, StatusInvariant, PTL

\* A monitor moved to an agent or to a proxy says what it said on the server, apart from
\* what Diverges lists and from the requests the TypeScript proxy cannot send.
THEOREM SameEverywhere == ChecksSpec => []ExecutorsAgree
<1>1. ChecksTypeOK /\ StatusInv => ExecutorsAgree
  <2> SUFFICES ASSUME ChecksTypeOK, StatusInv, verdict # None, met = cert,
                      ~Diverges(case.cfg, case.ans),
                      NEW e \in Executors, case.cfg.type \in Understood(e),
                      ~(e = "proxy" /\ Web(case.cfg) /\ Unsendable(case.cfg))
               PROVE  Coarse(verdict[e]) = Coarse(verdict["server"])
    BY DEF ExecutorsAgree
  <2>1. /\ Exchange(case.cfg, case.ans) /\ met \in Certificates
        /\ verdict[e] = Verdict(e, case.cfg, case.ans, met, met)
        /\ verdict["server"] = Verdict("server", case.cfg, case.ans, met, met)
    BY Conclusions DEF StatusInv, Executors
  <2> QED
    BY <2>1, Agreement
<1> QED
  BY <1>1, StatusInvariant, PTL

-----------------------------------------------------------------------------
(***************************************************************************)
(* The value watcher.                                                      *)
(***************************************************************************)
\* While no worker was started from a row that is not what was told, at most one checks,
\* and compares with what was told, unless a failed report kept that from being told.
LEMMA ComparesStep ==
  ASSUME WatcherTypeOK, ComparesInv, WatcherNext \/ UNCHANGED watcherVars
  PROVE  ComparesInv'
<1> USE DEF WatcherTypeOK, Watcher, Known
<1>0. \A w \in Objects : w \in Live <=> watcher[w].step \in {"idle", "persist", "report"}
  BY DEF Live, Unfinished
<1>a. \A w \in Objects : (w \in Live)' <=> watcher'[w].step \in {"idle", "persist", "report"}
  BY DEF Live, Unfinished
<1>b. Live' \subseteq Objects /\ Live \subseteq Objects
  BY DEF Live, Unfinished
<1>1. ASSUME NEW w \in Objects, Begin(w)
      PROVE  ComparesInv'
  <2> SUFFICES ASSUME ~misread'
               PROVE  (\A o \in Live :
                         /\ watcher[o].runs
                         /\ \A p \in Live : p = o
                         /\ watcher[o].step # "idle" => watcher[o].prev \in Values
                         /\ ~missed => IF watcher[o].step = "idle" THEN Previous(o) = told
                                                                  ELSE watcher[o].old = told)'
    BY DEF ComparesInv
  <2>1. row = told /\ row # Empty /\ Unfinished = {} /\ told' = told
    BY <1>1 DEF Begin
  <2>2. watcher'[w] = [Unborn EXCEPT !.step = "idle", !.runs = TRUE, !.loaded = row]
    BY <1>1 DEF Begin
  <2>3. \A o \in Objects \ {w} : watcher'[o].step \in {"unborn", "gone"}
    BY <1>1, <2>1 DEF Begin, Unfinished, Gone, Unborn
  <2>4. \A o \in Live' : o = w
    BY <1>a, <1>b, <2>3
  <2>5. watcher'[w].step = "idle" /\ watcher'[w].runs /\ Previous(w)' = told'
    BY <2>1, <2>2, ValueAssumption DEF Unborn, Previous
  <2> QED
    BY <2>4, <2>5
<1>2. ASSUME NEW w \in Objects, Read(w) \/ Persist(w) \/ Report(w) \/ FailReport(w)
      PROVE  ComparesInv'
  <2> SUFFICES ASSUME ~misread'
               PROVE  (\A o \in Live :
                         /\ watcher[o].runs
                         /\ \A p \in Live : p = o
                         /\ watcher[o].step # "idle" => watcher[o].prev \in Values
                         /\ ~missed => IF watcher[o].step = "idle" THEN Previous(o) = told
                                                                  ELSE watcher[o].old = told)'
    BY DEF ComparesInv
  <2>1. ~misread /\ w \in Live
    BY <1>0, <1>2 DEF Read, Persist, Report, FailReport, Finish
  <2>2. /\ watcher[w].runs
        /\ \A o \in Live : o = w
        /\ watcher[w].step # "idle" => watcher[w].prev \in Values
        /\ ~missed => IF watcher[w].step = "idle" THEN Previous(w) = told
                                                 ELSE watcher[w].old = told
    BY <2>1 DEF ComparesInv
  <2>3. \A o \in Objects \ {w} : watcher'[o] = watcher[o]
    BY <1>2 DEF Read, Persist, Report, FailReport, Finish
  <2>4. \A o \in Live' : o = w
    BY <1>0, <1>a, <1>b, <2>2, <2>3
  <2>5. CASE Read(w)
    <3>1. watcher'[w] = [watcher[w] EXCEPT !.old = Previous(w), !.prev = value, !.step = "persist"]
      BY <2>5 DEF Read
    <3>2. /\ watcher'[w].step = "persist" /\ watcher'[w].runs = watcher[w].runs
          /\ watcher'[w].old = Previous(w) /\ watcher'[w].prev = value
      BY <3>1
    <3> QED
      BY <2>2, <2>4, <2>5, <3>2 DEF Read
  <2>6. CASE Persist(w)
    <3>1. watcher'[w] = [watcher[w] EXCEPT !.step = "report"]
      BY <2>6 DEF Persist
    <3>2. /\ watcher'[w].step = "report" /\ watcher'[w].runs = watcher[w].runs
          /\ watcher'[w].old = watcher[w].old /\ watcher'[w].prev = watcher[w].prev
      BY <3>1
    <3> QED
      BY <2>2, <2>4, <2>6, <3>2 DEF Persist
  <2>7. CASE Report(w) \/ FailReport(w)
    <3>1. watcher'[w] = [watcher[w] EXCEPT !.step = "idle"]
      BY <2>2, <2>7 DEF Report, FailReport, Finish
    <3>2. /\ watcher'[w].step = "idle" /\ watcher'[w].runs = watcher[w].runs
          /\ watcher'[w].prev = watcher[w].prev
      BY <3>1
    <3>3. watcher[w].prev \in Values /\ (~missed' => told' = watcher[w].prev)
      BY <2>2, <2>7 DEF Report, FailReport, Finish, Changed
    <3>4. ~missed' => Previous(w)' = told'
      BY <3>2, <3>3, ValueAssumption DEF Previous
    <3> QED
      BY <2>2, <2>4, <3>2, <3>4
  <2> QED
    BY <1>2, <2>5, <2>6, <2>7
<1>3. CASE Die
  <2>1. \A o \in Objects : watcher'[o].step \in {"unborn", "gone"}
    BY <1>3 DEF Die, Unborn, Gone
  <2> QED
    BY <1>a, <1>b, <2>1 DEF ComparesInv
<1>4. CASE ValueChanges \/ UNCHANGED watcherVars
  BY <1>4 DEF ValueChanges, watcherVars, ComparesInv, Live, Unfinished, Previous
<1> QED
  BY <1>1, <1>2, <1>3, <1>4 DEF WatcherNext

\* The inductive invariant of ChangesToldOnce.
THEOREM ComparesInvariant == ChecksSpec => [](ChecksTypeOK /\ ComparesInv)
<1>1. ChecksInit => ComparesInv
  BY DEF ChecksInit, WatcherInit, ComparesInv, Live, Unfinished, Unborn
<1>2. ChecksTypeOK /\ ComparesInv /\ [ChecksNext]_checksVars => ComparesInv'
  <2>1. [ChecksNext]_checksVars => WatcherNext \/ UNCHANGED watcherVars
    BY DEF ChecksNext, checksVars
  <2> QED
    BY <2>1, ComparesStep DEF ChecksTypeOK
<1> QED
  BY <1>1, <1>2, ChecksTypeCorrect, PTL DEF ChecksSpec

\* A change of a watched value is told once, and from what was told before, across any
\* number of restarts, as long as the reports do not fail.
THEOREM ChangesTold == ChecksSpec => ChangesToldOnce
<1> DEFINE Told == \A w \in Objects :
             (watcher[w].step = "report" /\ watcher'[w].step = "idle" /\ ~misread /\ ~missed)
               => /\ Changed(w) => watcher[w].old = told
                  /\ told' = watcher[w].prev \/ missed'
<1>1. ChecksTypeOK /\ ComparesInv /\ [ChecksNext]_checksVars => [Told]_watcherVars
  <2> SUFFICES ASSUME ChecksTypeOK, ComparesInv, WatcherNext,
                      NEW w \in Objects,
                      watcher[w].step = "report", watcher'[w].step = "idle",
                      ~misread, ~missed
               PROVE  watcher[w].old = told /\ (told' = watcher[w].prev \/ missed')
    BY DEF ChecksNext, checksVars
  <2>1. watcher[w].old = told /\ \A o \in Live : o = w
    BY DEF ComparesInv, Live, Unfinished
  <2>2. ASSUME NEW o \in Objects, Begin(o)
        PROVE  FALSE
    BY <2>2 DEF Begin, ChecksTypeOK, WatcherTypeOK, Watcher
  <2>3. ASSUME NEW o \in Objects, Read(o) \/ Persist(o)
        PROVE  FALSE
    BY <2>3 DEF Read, Persist, ChecksTypeOK, WatcherTypeOK, Watcher
  <2>4. ~Die /\ ~ValueChanges
    BY DEF Die, ValueChanges, Gone, Unborn
  <2>5. PICK o \in Objects : Report(o) \/ FailReport(o)
    BY <2>2, <2>3, <2>4 DEF WatcherNext
  <2>6. o = w
    BY <2>5 DEF Report, FailReport, Finish, ChecksTypeOK, WatcherTypeOK
  <2> QED
    BY <2>1, <2>5, <2>6 DEF Report, FailReport, Changed
<1> QED
  BY <1>1, ComparesInvariant, PTL DEF ChecksSpec, ChangesToldOnce
=============================================================================
