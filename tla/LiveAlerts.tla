----------------------------- MODULE LiveAlerts ------------------------------
(***************************************************************************)
(* liveAlertService for one tenant.  add looks for an unread alert with    *)
(* the same stable key, inserts and trims, and awaits the database between *)
(* the three, while users read and delete alerts.                          *)
(***************************************************************************)
EXTENDS ServerClock, SequencesExt

CONSTANTS
  Keys,      \* stable keys
  NoKey,     \* of an alert that is never deduplicated
  Limit,     \* alerts kept per tenant
  Adders     \* calls of add that may overlap

ASSUME LiveAlertsAssumption ==
  Limit \in Nat \ {0} /\ NoKey \notin Keys /\ IsFiniteSet(Adders)

VARIABLES
  alerts,    \* the tenant's live_alerts, oldest first
  adds,      \* calls of add in flight
  raced,     \* history: keys of which two adds were in flight at once
  untrimmed  \* history: inserts whose trim a crash has lost

avars == <<alerts, adds, raced, untrimmed>>

Alert == [key : Keys \union {NoKey}, read : BOOLEAN]

NotAdding == [phase |-> "idle", key |-> NoKey]
AddState == [phase : {"idle", "insert", "trim"}, key : Keys \union {NoKey}]

LiveAlertsTypeOK ==
  /\ alerts \in Seq(Alert)
  /\ adds \in [Adders -> AddState]
  /\ raced \subseteq Keys
  /\ untrimmed \in Nat

LiveAlertsInit ==
  /\ alerts = <<>>
  /\ adds = [a \in Adders |-> NotAdding]
  /\ raced = {}
  /\ untrimmed = 0

Unread(k) == {i \in DOMAIN alerts : alerts[i].key = k /\ ~alerts[i].read}

\* Mutant of Known: only the latest alert is compared.
KnownLatest(k) == k # NoKey /\ Len(alerts) \in Unread(k)

\* Nothing to add when the key has an unread alert.
Known(k) == k # NoKey /\ Unread(k) # {}

Add(a, k) ==
  /\ adds[a].phase = "idle"
  /\ adds' = IF Known(k) THEN adds
             ELSE [adds EXCEPT ![a] = [phase |-> "insert", key |-> k]]
  /\ raced' = IF \E b \in Adders \ {a} : adds[b] = [phase |-> "insert", key |-> k]
                THEN raced \union ({k} \ {NoKey}) ELSE raced
  /\ UNCHANGED <<alerts, untrimmed>>

Insert(a) ==
  /\ adds[a].phase = "insert"
  /\ alerts' = Append(alerts, [key |-> adds[a].key, read |-> FALSE])
  /\ adds' = [adds EXCEPT ![a].phase = "trim"]
  /\ UNCHANGED <<raced, untrimmed>>

Newest(s) == IF Len(s) <= Limit THEN s ELSE SubSeq(s, Len(s) - Limit + 1, Len(s))

Trim(a) ==
  /\ adds[a].phase = "trim"
  /\ alerts' = Newest(alerts)
  /\ adds' = [adds EXCEPT ![a] = NotAdding]
  /\ untrimmed' = 0
  /\ UNCHANGED raced

MarkRead(i) ==
  /\ i \in DOMAIN alerts
  /\ alerts' = [alerts EXCEPT ![i].read = TRUE]
  /\ UNCHANGED <<adds, raced, untrimmed>>

MarkAllRead ==
  /\ alerts' = [i \in DOMAIN alerts |-> [alerts[i] EXCEPT !.read = TRUE]]
  /\ UNCHANGED <<adds, raced, untrimmed>>

DeleteAlert(i) ==
  /\ i \in DOMAIN alerts
  /\ alerts' = RemoveAt(alerts, i)
  /\ UNCHANGED <<adds, raced, untrimmed>>

ClearAll ==
  /\ alerts' = <<>>
  /\ UNCHANGED <<adds, raced, untrimmed>>

LiveAlertsStep ==
  \/ /\ NoCall
     /\ \E a \in Adders : Insert(a) \/ Trim(a)
  \/ /\ Call
     /\ \/ \E a \in Adders, k \in Keys : Add(a, k)
        \/ \E i \in DOMAIN alerts : MarkRead(i) \/ DeleteAlert(i)
        \/ MarkAllRead \/ ClearAll

\* An add lasts less than a tick.
LiveAlertsTick ==
  /\ \A a \in Adders : adds[a].phase = "idle"
  /\ UNCHANGED avars

LiveAlertsCrash ==
  /\ untrimmed' = untrimmed + Cardinality({a \in Adders : adds[a].phase = "trim"})
  /\ adds' = [a \in Adders |-> NotAdding]
  /\ UNCHANGED <<alerts, raced>>

\* Unless two calls of add for one key were in flight at once, the key has at most
\* one unread alert; and when no add is under way the tenant has no more alerts
\* than the limit, but for those whose trim was lost (the three statements of add).
AlertsKeptDown ==
  /\ \A k \in Keys \ raced : Cardinality(Unread(k)) <= 1
  /\ (\A a \in Adders : adds[a].phase # "trim") => Len(alerts) <= Limit + untrimmed

\* Why: such a key has an unread alert or an add about to insert one, never both, and
\* whatever is over the limit waits for a trim.
Inserting(k) == {a \in Adders : adds[a].phase = "insert" /\ adds[a].key = k}
Trimming == {a \in Adders : adds[a].phase = "trim"}

AlertsInv ==
  /\ \A k \in Keys \ raced :
       /\ \A i, j \in Unread(k) : i = j
       /\ \A a, b \in Inserting(k) : a = b
       /\ Inserting(k) = {} \/ Unread(k) = {}
  /\ Len(alerts) <= Limit + Cardinality(Trimming) + untrimmed
=============================================================================
