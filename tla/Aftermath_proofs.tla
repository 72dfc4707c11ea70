-------------------------- MODULE Aftermath_proofs --------------------------
(***************************************************************************)
(* Proofs about Aftermath and, last, LiveView: any windows and schedules,  *)
(* any number of questions, job runs, triggers and adds that overlap, any  *)
(* remedies and cooldowns, any limit, and any bound on time and calls.     *)
(***************************************************************************)
EXTENDS Aftermath, LiveView, FiniteSetTheorems, SequenceTheorems, TLAPS

-----------------------------------------------------------------------------
(***************************************************************************)
(* Which steps each service takes part in.                                 *)
(***************************************************************************)
\* The clock only moves when no service does; calls are counted up to their bound.
LEMMA ClockMoves ==
  ASSUME TypeOK, [Next]_vars
  PROVE  /\ ClockTypeOK'
         /\ calls' \in {calls, calls + 1}
         /\ now' = now \/ (now' = now + 1 /\ Tick)
         /\ focus' = focus
<1>1. /\ now \in 0 .. Horizon /\ calls \in 0 .. MaxCalls
      /\ Horizon \in Nat /\ MaxCalls \in Nat
  BY ServerClockAssumption DEF TypeOK, ClockTypeOK
<1>2. CASE Question
  BY <1>1, <1>2 DEF Question, AskStep, Ask, ReadDisables, ReadPlace, Call, ClockTypeOK
<1>3. CASE WindowsChange
  <2>1. CASE \E w \in Windows : CreateWindow(w) \/ UpdateWindow(w) \/ DeleteWindow(w)
                               \/ DisableWindow(w) \/ EnableWindow(w)
    BY <1>1, <1>3, <2>1 DEF WindowsChange, CreateWindow, UpdateWindow, DeleteWindow,
       DisableWindow, EnableWindow, Edited, Call, ClockTypeOK
  <2>2. CASE \/ \E w \in Windows : Expire(w)
             \/ ClearCache
             \/ \E j \in Jobs : StartJob(j) \/ Announce(j) \/ Mark(j) \/ EndJob(j)
    BY <1>1, <1>3, <2>2 DEF WindowsChange, Expire, ClearCache, StartJob, Announce, Mark, EndJob,
       ClockTypeOK
  <2> QED
    BY <1>3, <2>1, <2>2 DEF WindowsChange, WindowStep
<1>4. CASE Dispatch \/ Remedying
  BY <1>1, <1>4 DEF Dispatch, Remedying, RemediationStep, Aside, NoCall, ClockTypeOK
<1>5. CASE Alerting
  BY <1>1, <1>5 DEF Alerting, LiveAlertsStep, Aside, NoCall, Call, ClockTypeOK
<1>6. CASE Tick \/ Crash \/ UNCHANGED vars
  BY <1>1, <1>6 DEF Tick, Crash, NoCall, vars, ClockTypeOK
<1> QED
  BY <1>2, <1>3, <1>4, <1>5, <1>6 DEF Next

\* The steps in which the remedies, and the live alerts, take part.
LEMMA RemediationMoves ==
  ASSUME [Next]_vars
  PROVE  \/ \E t \in Triggers, change \in Changes : Trigger(t, change)
         \/ \E t \in Triggers, r \in Remedies : SkipRemedy(t, r) \/ StartRemedy(t, r)
         \/ \E r \in Remedies, began \in 0 .. Horizon : EndRemedy(r, began)
         \/ RemediationCrash
         \/ UNCHANGED rvars
  BY DEF Next, Question, WindowsChange, Dispatch, Remedying, RemediationStep, Alerting, Tick,
     RemediationTick, Crash, vars

\* Whatever else steps leaves the live alerts alone.
LEMMA LiveAlertsMoves ==
  ASSUME [Next]_vars
  PROVE  \/ \E a \in Adders, k \in Keys \union {NoKey} : Add(a, k)
         \/ \E a \in Adders : Insert(a) \/ Trim(a)
         \/ \E i \in DOMAIN alerts : MarkRead(i) \/ DeleteAlert(i)
         \/ MarkAllRead \/ ClearAll
         \/ LiveAlertsCrash
         \/ UNCHANGED avars
  BY DEF Next, Question, WindowsChange, Dispatch, Remedying, Alerting, LiveAlertsStep, Tick,
     LiveAlertsTick, Crash, vars

-----------------------------------------------------------------------------
(***************************************************************************)
(* Remedies.                                                               *)
(***************************************************************************)
\* The remedies keep their types.
LEMMA RemediationType ==
  ASSUME TypeOK, [Next]_vars
  PROVE  RemediationTypeOK'
<1> DEFINE Running == Remedies \X (0 .. Horizon)
<1>1. /\ triggers \in [Triggers -> SUBSET Remedies]
      /\ running \in [Running -> 0 .. MaxRunning]
      /\ runs \subseteq Run /\ now \in 0 .. Horizon
  BY DEF TypeOK, RemediationTypeOK, ClockTypeOK
<1>2. MaxRunning \in Nat /\ Horizon \in Nat
  BY RemediationAssumption, ServerClockAssumption
<1>3. ASSUME NEW t \in Triggers, NEW change \in Changes, Trigger(t, change)
      PROVE  RemediationTypeOK'
  BY <1>1, <1>3 DEF Trigger, Triggered, RemediationTypeOK
<1>4. ASSUME NEW t \in Triggers, NEW r \in Remedies, SkipRemedy(t, r)
      PROVE  RemediationTypeOK'
  <2>1. [of |-> r, begun |-> now, at |-> now, skipped |-> TRUE] \in Run
    BY <1>1, <1>2 DEF Run
  <2> QED
    BY <1>1, <1>4, <2>1 DEF SkipRemedy, RemediationTypeOK
<1>5. ASSUME NEW t \in Triggers, NEW r \in Remedies, StartRemedy(t, r)
      PROVE  RemediationTypeOK'
  <2>1. <<r, now>> \in Running /\ running[<<r, now>>] + 1 \in 0 .. MaxRunning
    BY <1>1, <1>2, <1>5 DEF StartRemedy
  <2>2. running' \in [Running -> 0 .. MaxRunning]
    BY <1>1, <1>5, <2>1 DEF StartRemedy
  <2> QED
    BY <1>1, <1>5, <2>2 DEF StartRemedy, RemediationTypeOK
<1>6. ASSUME NEW r \in Remedies, NEW began \in 0 .. Horizon, EndRemedy(r, began)
      PROVE  RemediationTypeOK'
  <2>1. <<r, began>> \in Running /\ running[<<r, began>>] - 1 \in 0 .. MaxRunning
    BY <1>1, <1>2, <1>6 DEF EndRemedy
  <2>2. running' \in [Running -> 0 .. MaxRunning]
    BY <1>1, <1>6, <2>1 DEF EndRemedy
  <2>3. [of |-> r, begun |-> began, at |-> now, skipped |-> FALSE] \in Run
    BY <1>1, <1>2 DEF Run
  <2>4. runs' \subseteq Run
    BY <1>1, <1>6, <2>3 DEF EndRemedy
  <2> QED
    BY <1>1, <1>6, <2>2, <2>4 DEF EndRemedy, RemediationTypeOK
<1>7. CASE RemediationCrash
  BY <1>1, <1>2, <1>7 DEF RemediationCrash, RemediationTypeOK
<1>8. CASE UNCHANGED rvars
  BY <1>1, <1>8 DEF rvars, RemediationTypeOK
<1> QED
  BY <1>3, <1>4, <1>5, <1>6, <1>7, <1>8, RemediationMoves

\* A step of the remedies, or of anything else, keeps the cooldown honoured.
LEMMA CooldownStep ==
  ASSUME TypeOK, CooldownInv, [Next]_vars
  PROVE  CooldownInv'
<1> DEFINE Running == Remedies \X (0 .. Horizon)
           Apart(r, began, run) == run.of = r /\ ~run.skipped /\ began > run.at
                                     => began - run.at >= RemedyCooldown[r]
           Excused(run, recorded) == \E real \in recorded :
             /\ real.of = run.of /\ ~real.skipped
             /\ real.at <= run.at /\ run.at - real.at < RemedyCooldown[run.of]
<1>1. /\ running \in [Running -> 0 .. MaxRunning]
      /\ runs \subseteq Run /\ now \in 0 .. Horizon /\ now' \in 0 .. Horizon /\ now <= now'
  BY ClockMoves DEF TypeOK, RemediationTypeOK, ClockTypeOK
<1>2. /\ Horizon \in Nat /\ MaxRunning \in Nat
      /\ \A r \in Remedies : RemedyCooldown[r] \in Nat
  BY RemediationAssumption, ServerClockAssumption
<1>3. /\ \A run \in runs : run.begun <= run.at /\ run.at <= now
      /\ \A r \in Remedies, began \in 0 .. Horizon : running[<<r, began>>] > 0 =>
           began <= now /\ \A run \in runs : Apart(r, began, run)
      /\ \A run \in runs : run.skipped => Excused(run, runs)
      /\ \A run, later \in runs : ~run.skipped /\ ~later.skipped =>
           Apart(later.of, later.begun, run)
  BY DEF CooldownInv, CooldownHonoured
<1>4. ASSUME /\ \A run \in runs' : run.begun <= run.at /\ run.at <= now'
             /\ \A r \in Remedies, began \in 0 .. Horizon : running'[<<r, began>>] > 0 =>
                  began <= now' /\ \A run \in runs' : Apart(r, began, run)
             /\ \A run \in runs' : run.skipped => Excused(run, runs')
             /\ \A run, later \in runs' : ~run.skipped /\ ~later.skipped =>
                  Apart(later.of, later.begun, run)
      PROVE  CooldownInv'
  BY <1>4 DEF CooldownInv, CooldownHonoured
<1>5. \A run \in runs : /\ run.of \in Remedies /\ run.begun \in Int /\ run.at \in Int
                        /\ run.skipped \in BOOLEAN
  BY <1>1 DEF Run
<1>6. CASE UNCHANGED <<running, runs>>
  BY <1>1, <1>3, <1>4, <1>5, <1>6
<1>7. ASSUME NEW t \in Triggers, NEW r \in Remedies, SkipRemedy(t, r)
      PROVE  CooldownInv'
  <2> DEFINE new == [of |-> r, begun |-> now, at |-> now, skipped |-> TRUE]
  <2>1. runs' = runs \union {new} /\ UNCHANGED running
    BY <1>7 DEF SkipRemedy
  <2>2. PICK real \in runs : real.of = r /\ ~real.skipped /\ real.at > now - RemedyCooldown[r]
    BY <1>7 DEF SkipRemedy, CoolingDown, RecentRun
  <2>3. Excused(new, runs')
    BY <1>1, <1>2, <1>3, <1>5, <2>1, <2>2
  <2>4. \A run \in runs : Excused(run, runs) => Excused(run, runs')
    BY <2>1
  <2> QED
    BY <1>1, <1>3, <1>4, <1>5, <2>1, <2>3, <2>4
<1>8. ASSUME NEW t \in Triggers, NEW r \in Remedies, StartRemedy(t, r)
      PROVE  CooldownInv'
  <2>1. /\ running' = [running EXCEPT ![<<r, now>>] = @ + 1] /\ UNCHANGED runs
        /\ ~CoolingDown(r)
    BY <1>8 DEF StartRemedy
  <2>2. \A run \in runs : Apart(r, now, run)
    BY <1>1, <1>2, <1>5, <2>1 DEF CoolingDown, RecentRun
  <2>3. \A q \in Remedies, began \in 0 .. Horizon :
          <<q, began>> # <<r, now>> => running'[<<q, began>>] = running[<<q, began>>]
    BY <1>1, <2>1
  <2>4. \A q \in Remedies, began \in 0 .. Horizon :
          running'[<<q, began>>] > 0 => began <= now' /\ \A run \in runs' : Apart(q, began, run)
    BY <1>1, <1>3, <2>1, <2>2, <2>3
  <2> QED
    BY <1>1, <1>3, <1>4, <1>5, <2>1, <2>4
<1>9. ASSUME NEW r \in Remedies, NEW b \in 0 .. Horizon, EndRemedy(r, b)
      PROVE  CooldownInv'
  <2> DEFINE new == [of |-> r, begun |-> b, at |-> now, skipped |-> FALSE]
  <2>1. /\ runs' = runs \union {new} /\ running[<<r, b>>] > 0
        /\ running' = [running EXCEPT ![<<r, b>>] = @ - 1]
    BY <1>9 DEF EndRemedy
  <2>2. b <= now /\ \A run \in runs : Apart(r, b, run)
    BY <1>3, <2>1
  <2>3. \A q \in Remedies, began \in 0 .. Horizon :
          running'[<<q, began>>] > 0 => running[<<q, began>>] > 0
    BY <1>1, <1>2, <2>1
  <2>4. \A q \in Remedies, began \in 0 .. Horizon :
          running'[<<q, began>>] > 0 => began <= now /\ \A run \in runs' : Apart(q, began, run)
    BY <1>1, <1>3, <2>1, <2>3
  <2>5. \A later \in runs' : Apart(later.of, later.begun, new)
    BY <1>1, <1>3, <1>5, <2>1, <2>2
  <2>6. \A run, later \in runs' : ~run.skipped /\ ~later.skipped =>
          Apart(later.of, later.begun, run)
    BY <1>3, <2>1, <2>2, <2>5
  <2>7. \A run \in runs : Excused(run, runs) => Excused(run, runs')
    BY <2>1
  <2> QED
    BY <1>1, <1>3, <1>4, <1>5, <2>1, <2>2, <2>4, <2>6, <2>7
<1>10. CASE RemediationCrash
  <2>1. UNCHANGED runs /\ \A r \in Remedies, began \in 0 .. Horizon : running'[<<r, began>>] = 0
    BY <1>1, <1>10 DEF RemediationCrash
  <2> QED
    BY <1>1, <1>3, <1>4, <1>5, <2>1
<1>11. ASSUME NEW t \in Triggers, NEW change \in Changes, Trigger(t, change)
       PROVE  CooldownInv'
  BY <1>6, <1>11 DEF Trigger
<1> QED
  BY <1>6, <1>7, <1>8, <1>9, <1>10, <1>11, RemediationMoves DEF rvars
-----------------------------------------------------------------------------
(***************************************************************************)
(* Live alerts.                                                            *)
(***************************************************************************)
\* Deleting from a sequence keeps the other elements, in order.
LEMMA RemoveAtProperties ==
  ASSUME NEW S, NEW s \in Seq(S), NEW i \in 1 .. Len(s)
  PROVE  /\ RemoveAt(s, i) \in Seq(S)
         /\ Len(RemoveAt(s, i)) = Len(s) - 1
         /\ \A j \in 1 .. Len(s) - 1 :
              RemoveAt(s, i)[j] = s[IF j < i THEN j ELSE j + 1]
<1> DEFINE left == SubSeq(s, 1, i - 1)
           right == SubSeq(s, i + 1, Len(s))
<1>1. Len(s) \in Nat /\ \A j \in 1 .. Len(s) : s[j] \in S
  BY LenProperties, ElementOfSeq
<1>2. /\ left \in Seq(S) /\ Len(left) = i - 1
      /\ \A j \in 1 .. i - 1 : left[j] = s[j]
  <2>1. \A j \in 1 .. i - 1 : s[j] \in S
    BY <1>1
  <2>2. /\ left \in Seq(S)
        /\ Len(left) = IF 1 <= i - 1 THEN (i - 1) - 1 + 1 ELSE 0
        /\ \A j \in 1 .. (i - 1) - 1 + 1 : left[j] = s[1 + j - 1]
    BY <2>1, SubSeqProperties
  <2> QED
    BY <1>1, <2>2
<1>3. /\ right \in Seq(S) /\ Len(right) = Len(s) - i
      /\ \A j \in 1 .. Len(s) - i : right[j] = s[i + j]
  <2>1. \A j \in i + 1 .. Len(s) : s[j] \in S
    BY <1>1
  <2>2. /\ right \in Seq(S)
        /\ Len(right) = IF i + 1 <= Len(s) THEN Len(s) - (i + 1) + 1 ELSE 0
        /\ \A j \in 1 .. Len(s) - (i + 1) + 1 : right[j] = s[i + 1 + j - 1]
    BY <1>1, <2>1, SubSeqProperties
  <2> QED
    BY <1>1, <2>2
<1>4. /\ left \o right \in Seq(S) /\ Len(left \o right) = Len(left) + Len(right)
      /\ \A j \in 1 .. Len(left) + Len(right) :
           (left \o right)[j] = IF j <= Len(left) THEN left[j] ELSE right[j - Len(left)]
  BY <1>2, <1>3, ConcatProperties
<1>5. RemoveAt(s, i) = left \o right
  BY DEF RemoveAt
<1> HIDE DEF left, right
<1>6. ASSUME NEW j \in 1 .. Len(s) - 1
      PROVE  (left \o right)[j] = s[IF j < i THEN j ELSE j + 1]
  <2> Len(left) = i - 1 /\ j \in 1 .. Len(left) + Len(right)
    BY <1>1, <1>2, <1>3
  <2>1. (left \o right)[j] = IF j <= i - 1 THEN left[j] ELSE right[j - (i - 1)]
    BY <1>4
  <2>2. ASSUME j < i
        PROVE  (left \o right)[j] = s[j]
    BY <1>1, <1>2, <2>1, <2>2
  <2>3. ASSUME ~(j < i)
        PROVE  (left \o right)[j] = s[j + 1]
    <3>1. j - (i - 1) \in 1 .. Len(s) - i /\ i + (j - (i - 1)) = j + 1 /\ ~(j <= i - 1)
      BY <1>1, <2>3
    <3> QED
      BY <1>1, <1>3, <2>1, <3>1
  <2> QED
    BY <2>2, <2>3
<1>7. Len(left \o right) = Len(s) - 1
  BY <1>1, <1>2, <1>3, <1>4
<1> QED
  BY <1>4, <1>5, <1>6, <1>7

\* The domain of a sequence says how long it is.
LEMMA SameLength ==
  ASSUME NEW m \in Nat, NEW n \in Nat, 1 .. m = 1 .. n
  PROVE  m = n
<1>1. m > 0 => m \in 1 .. n
  OBVIOUS
<1>2. n > 0 => n \in 1 .. m
  OBVIOUS
<1> QED
  BY <1>1, <1>2

\* Trimming keeps the last elements.
LEMMA NewestProperties ==
  ASSUME NEW S, NEW s \in Seq(S)
  PROVE  /\ Newest(s) \in Seq(S)
         /\ Len(Newest(s)) <= Limit /\ Len(Newest(s)) <= Len(s)
         /\ \A j \in 1 .. Len(Newest(s)) : Newest(s)[j] = s[j + Len(s) - Len(Newest(s))]
<1>1. /\ Len(s) \in Nat /\ Limit \in Nat \ {0}
      /\ \A j \in 1 .. Len(s) : s[j] \in S
  BY LiveAlertsAssumption, LenProperties, ElementOfSeq
<1>2. CASE Len(s) <= Limit
  BY <1>1, <1>2 DEF Newest
<1>3. CASE Len(s) > Limit
  <2> DEFINE m == Len(s) - Limit + 1
  <2>1. /\ SubSeq(s, m, Len(s)) \in Seq(S)
        /\ Len(SubSeq(s, m, Len(s))) = IF m <= Len(s) THEN Len(s) - m + 1 ELSE 0
        /\ \A j \in 1 .. Len(s) - m + 1 : SubSeq(s, m, Len(s))[j] = s[m + j - 1]
    <3>1. \A j \in m .. Len(s) : s[j] \in S
      BY <1>1, <1>3
    <3> QED
      BY <1>1, <3>1, SubSeqProperties
  <2>2. Newest(s) = SubSeq(s, m, Len(s))
    BY <1>1, <1>3 DEF Newest
  <2>3. Len(Newest(s)) = Limit
    BY <1>1, <1>3, <2>1, <2>2
  <2>4. \A j \in 1 .. Limit : m + j - 1 = j + Len(s) - Limit
    BY <1>1
  <2>5. Len(s) - m + 1 = Limit
    BY <1>1
  <2> HIDE DEF m
  <2>6. \A j \in 1 .. Limit : Newest(s)[j] = s[j + Len(s) - Limit]
    BY <2>1, <2>2, <2>4, <2>5
  <2>7. Newest(s) \in Seq(S)
    BY <2>1, <2>2
  <2>8. Len(Newest(s)) <= Limit /\ Len(Newest(s)) <= Len(s)
    BY <1>1, <1>3, <2>3
  <2>9. \A j \in 1 .. Len(Newest(s)) : Newest(s)[j] = s[j + Len(s) - Len(Newest(s))]
    BY <2>3, <2>6
  <2> QED
    BY <2>7, <2>8, <2>9
<1>4. Len(s) <= Limit \/ Len(s) > Limit
  BY <1>1
<1> QED
  BY <1>2, <1>3, <1>4

\* The live alerts keep their types.
LEMMA LiveAlertsType ==
  ASSUME TypeOK, [Next]_vars
  PROVE  LiveAlertsTypeOK'
<1>1. /\ alerts \in Seq(Alert) /\ adds \in [Adders -> AddState]
      /\ raced \subseteq Keys /\ untrimmed \in Nat
  BY DEF TypeOK, LiveAlertsTypeOK
<1>2. Len(alerts) \in Nat /\ \A i \in DOMAIN alerts : alerts[i] \in Alert
  BY <1>1, LenProperties, ElementOfSeq
<1>3. NotAdding \in AddState
  BY DEF NotAdding, AddState
<1>4. ASSUME NEW a \in Adders, NEW k \in Keys \union {NoKey}, Add(a, k)
      PROVE  LiveAlertsTypeOK'
  <2>1. [phase |-> "insert", key |-> k] \in AddState
    BY DEF AddState
  <2>2. adds' \in [Adders -> AddState]
    BY <1>1, <1>4, <2>1 DEF Add
  <2>3. raced' \subseteq Keys
    BY <1>1, <1>4 DEF Add
  <2> QED
    BY <1>1, <1>4, <2>2, <2>3 DEF Add, LiveAlertsTypeOK
<1>5. ASSUME NEW a \in Adders, Insert(a)
      PROVE  LiveAlertsTypeOK'
  <2>1. [key |-> adds[a].key, read |-> FALSE] \in Alert
    BY <1>1 DEF Alert, AddState
  <2>2. alerts' \in Seq(Alert)
    BY <1>1, <1>5, <2>1, AppendProperties DEF Insert
  <2>3. adds' \in [Adders -> AddState]
    BY <1>1, <1>5 DEF Insert, AddState
  <2> QED
    BY <1>1, <1>5, <2>2, <2>3 DEF Insert, LiveAlertsTypeOK
<1>6. ASSUME NEW a \in Adders, Trim(a)
      PROVE  LiveAlertsTypeOK'
  <2>1. alerts' \in Seq(Alert)
    BY <1>1, <1>6, NewestProperties DEF Trim
  <2> QED
    BY <1>1, <1>3, <1>6, <2>1 DEF Trim, LiveAlertsTypeOK
<1>7. ASSUME NEW i \in DOMAIN alerts, MarkRead(i)
      PROVE  LiveAlertsTypeOK'
  <2>1. [alerts[i] EXCEPT !.read = TRUE] \in Alert
    BY <1>2 DEF Alert
  <2>2. alerts' = [alerts EXCEPT ![i] = [alerts[i] EXCEPT !.read = TRUE]]
    BY <1>7 DEF MarkRead
  <2>3. alerts' \in Seq(Alert)
    BY <1>1, <1>2, <2>1, <2>2, ExceptSeq, LenProperties
  <2> QED
    BY <1>1, <1>7, <2>3 DEF MarkRead, LiveAlertsTypeOK
<1>8. ASSUME NEW i \in DOMAIN alerts, DeleteAlert(i)
      PROVE  LiveAlertsTypeOK'
  <2>1. i \in 1 .. Len(alerts)
    BY <1>1, LenProperties
  <2>2. alerts' \in Seq(Alert)
    BY <1>1, <1>8, <2>1, RemoveAtProperties DEF DeleteAlert
  <2> QED
    BY <1>1, <1>8, <2>2 DEF DeleteAlert, LiveAlertsTypeOK
<1>9. CASE MarkAllRead
  <2>1. \A i \in DOMAIN alerts : [alerts[i] EXCEPT !.read = TRUE] \in Alert
    BY <1>2 DEF Alert
  <2>2. alerts' = [i \in 1 .. Len(alerts) |-> [alerts[i] EXCEPT !.read = TRUE]]
    BY <1>1, <1>9, LenProperties DEF MarkAllRead
  <2>3. alerts' \in Seq(Alert)
    BY <1>1, <1>2, <2>1, <2>2, IsASeq, LenProperties
  <2> QED
    BY <1>1, <1>9, <2>3 DEF MarkAllRead, LiveAlertsTypeOK
<1>10. CASE ClearAll
  BY <1>1, <1>10 DEF ClearAll, LiveAlertsTypeOK
<1>11. CASE LiveAlertsCrash
  <2>1. IsFiniteSet(Adders)
    BY LiveAlertsAssumption
  <2>2. Cardinality({a \in Adders : adds[a].phase = "trim"}) \in Nat
    BY <2>1, FS_Subset, FS_CardinalityType
  <2> QED
    BY <1>1, <1>3, <1>11, <2>2 DEF LiveAlertsCrash, LiveAlertsTypeOK
<1>12. CASE UNCHANGED avars
  BY <1>1, <1>12 DEF avars, LiveAlertsTypeOK
<1> QED
  BY <1>4, <1>5, <1>6, <1>7, <1>8, <1>9, <1>10, <1>11, <1>12, LiveAlertsMoves

\* When each alert of the next state was one of this state's, with the same key and
\* not yet read less, no key has more unread alerts.
LEMMA Fewer ==
  ASSUME NEW m \in [DOMAIN alerts' -> DOMAIN alerts],
         \A i, j \in DOMAIN alerts' : m[i] = m[j] => i = j,
         \A i \in DOMAIN alerts' : /\ alerts'[i].key = alerts[m[i]].key
                                   /\ alerts[m[i]].read => alerts'[i].read
  PROVE  \A k \in Keys :
           /\ (\A i, j \in Unread(k) : i = j) => \A i, j \in Unread(k)' : i = j
           /\ Unread(k) = {} => Unread(k)' = {}
<1> SUFFICES ASSUME NEW k \in Keys
             PROVE  \A i \in Unread(k)' : m[i] \in Unread(k)
  BY DEF Unread
<1> QED
  BY DEF Unread

\* A step of the live alerts, or of anything else, keeps the alerts down.
LEMMA AlertsStep ==
  ASSUME TypeOK, AlertsInv, [Next]_vars
  PROVE  AlertsInv'
<1> DEFINE Single(k) == /\ \A i, j \in Unread(k) : i = j
                        /\ \A a, b \in Inserting(k) : a = b
                        /\ Inserting(k) = {} \/ Unread(k) = {}
           Bounded == Len(alerts) <= Limit + Cardinality(Trimming) + untrimmed
<1>1. /\ alerts \in Seq(Alert) /\ adds \in [Adders -> AddState] /\ untrimmed \in Nat
      /\ raced \subseteq Keys /\ Limit \in Nat /\ alerts' \in Seq(Alert)
      /\ DOMAIN alerts = 1 .. Len(alerts) /\ DOMAIN alerts' = 1 .. Len(alerts')
      /\ Len(alerts) \in Nat /\ Len(alerts') \in Nat
  BY LiveAlertsType, LiveAlertsAssumption, LenProperties DEF TypeOK, LiveAlertsTypeOK
<1>2. /\ IsFiniteSet(Trimming) /\ Cardinality(Trimming) \in Nat
      /\ IsFiniteSet(Trimming') /\ Cardinality(Trimming') \in Nat
  <2>1. Trimming \in SUBSET Adders /\ Trimming' \in SUBSET Adders /\ IsFiniteSet(Adders)
    BY LiveAlertsAssumption DEF Trimming
  <2> QED
    BY <2>1, FS_Subset, FS_CardinalityType
<1>3. (\A k \in Keys \ raced : Single(k)) /\ Bounded
  BY DEF AlertsInv
<1>4. AlertsInv' <=> (\A k \in Keys \ raced' : Single(k)') /\ Bounded'
  BY DEF AlertsInv

\* Reading and deleting alerts.
<1>5. ASSUME UNCHANGED <<adds, raced, untrimmed>>, Len(alerts') <= Len(alerts),
             \A k \in Keys :
               /\ (\A i, j \in Unread(k) : i = j) => \A i, j \in Unread(k)' : i = j
               /\ Unread(k) = {} => Unread(k)' = {}
      PROVE  AlertsInv'
  <2>1. \A k \in Keys : Inserting(k)' = Inserting(k)
    BY <1>5 DEF Inserting
  <2>2. Trimming' = Trimming
    BY <1>5 DEF Trimming
  <2>3. \A k \in Keys \ raced' : Single(k)'
    BY <1>3, <1>5, <2>1
  <2>4. Bounded'
    BY <1>1, <1>2, <1>3, <1>5, <2>2
  <2> QED
    BY <1>4, <2>3, <2>4
<1>6. ASSUME NEW a \in Adders, NEW k \in Keys \union {NoKey}, Add(a, k)
      PROVE  AlertsInv'
  <2>1. /\ UNCHANGED <<alerts, untrimmed>> /\ adds[a].phase = "idle"
        /\ raced \subseteq raced'
        /\ k \in Keys \ raced' => \A b \in Adders \ {a} : adds[b] # [phase |-> "insert", key |-> k]
    BY <1>6, LiveAlertsAssumption DEF Add
  <2>2. \A q \in Keys : Unread(q)' = Unread(q)
    BY <2>1 DEF Unread
  <2>3. CASE Known(k)
    <3>1. UNCHANGED adds
      BY <1>6, <2>3 DEF Add
    <3>2. Trimming' = Trimming /\ \A q \in Keys : Inserting(q)' = Inserting(q)
      BY <3>1 DEF Trimming, Inserting
    <3> QED
      BY <1>3, <1>4, <2>1, <2>2, <3>2
  <2>4. CASE ~Known(k)
    <3>1. adds' = [adds EXCEPT ![a] = [phase |-> "insert", key |-> k]]
      BY <1>6, <2>4 DEF Add
    <3>2. Trimming' = Trimming
      BY <1>1, <2>1, <3>1 DEF Trimming
    <3>3. \A q \in Keys \ {k} : Inserting(q)' = Inserting(q)
      BY <1>1, <2>1, <3>1 DEF Inserting
    <3>4. ASSUME k \in Keys \ raced'
          PROVE  Single(k)'
      <4>1. Unread(k)' = {}
        BY <2>2, <2>4, <3>4, LiveAlertsAssumption DEF Known
      <4>2. ASSUME NEW b \in Adders \ {a}, b \in Inserting(k)'
            PROVE  FALSE
        <5>1. adds[b].phase = "insert" /\ adds[b].key = k /\ adds[b] \in AddState
          BY <1>1, <3>1, <4>2 DEF Inserting
        <5>2. adds[b] = [phase |-> "insert", key |-> k]
          BY <5>1 DEF AddState
        <5> QED
          BY <2>1, <3>4, <5>2
      <4>3. Inserting(k)' \subseteq {a}
        BY <4>2 DEF Inserting
      <4> QED
        BY <4>1, <4>3
    <3>5. \A q \in Keys \ raced' : Single(q)'
      BY <1>3, <2>1, <2>2, <3>3, <3>4
    <3>6. Bounded'
      BY <1>3, <2>1, <3>2
    <3> QED
      BY <1>4, <3>5, <3>6
  <2> QED
    BY <2>3, <2>4
<1>7. ASSUME NEW a \in Adders, Insert(a)
      PROVE  AlertsInv'
  <2> DEFINE new == [key |-> adds[a].key, read |-> FALSE]
  <2>1. /\ adds[a].phase = "insert" /\ alerts' = Append(alerts, new)
        /\ adds' = [adds EXCEPT ![a].phase = "trim"] /\ UNCHANGED <<raced, untrimmed>>
    BY <1>7 DEF Insert
  <2>2. new \in Alert
    BY <1>1 DEF Alert, AddState
  <2>3. /\ Len(alerts') = Len(alerts) + 1 /\ alerts'[Len(alerts) + 1] = new
        /\ \A i \in 1 .. Len(alerts) : alerts'[i] = alerts[i]
    BY <1>1, <2>1, <2>2, AppendProperties
  <2>4. /\ adds'[a].phase = "trim" /\ adds'[a].key = adds[a].key
        /\ \A b \in Adders \ {a} : adds'[b] = adds[b]
    BY <1>1, <2>1 DEF AddState
  <2>5. Bounded'
    <3>1. Trimming' = Trimming \union {a} /\ a \notin Trimming
      BY <2>1, <2>4 DEF Trimming
    <3>2. Cardinality(Trimming') = Cardinality(Trimming) + 1
      BY <1>2, <3>1, FS_AddElement
    <3> QED
      BY <1>1, <1>2, <1>3, <2>1, <2>3, <3>2
  <2>6. \A k \in Keys : k # adds[a].key => Unread(k)' = Unread(k) /\ Inserting(k)' = Inserting(k)
    <3> SUFFICES ASSUME NEW k \in Keys, k # adds[a].key
                 PROVE  Unread(k)' = Unread(k) /\ Inserting(k)' = Inserting(k)
      OBVIOUS
    <3>1. Unread(k)' = Unread(k)
      BY <1>1, <2>3 DEF Unread
    <3>2. Inserting(k)' = Inserting(k)
      BY <2>4 DEF Inserting
    <3> QED
      BY <3>1, <3>2
  <2>7. ASSUME NEW k \in Keys \ raced, k = adds[a].key
        PROVE  Single(k)'
    <3>1. a \in Inserting(k)
      BY <2>1, <2>7 DEF Inserting
    <3>2. Unread(k) = {} /\ Inserting(k) = {a}
      BY <1>3, <3>1
    <3>3. Inserting(k)' = {}
      BY <2>4, <3>2 DEF Inserting
    <3>4. Unread(k)' \subseteq {Len(alerts) + 1}
      BY <1>1, <2>3, <3>2 DEF Unread
    <3> QED
      BY <3>3, <3>4
  <2>8. \A k \in Keys \ raced' : Single(k)'
    BY <1>3, <2>1, <2>6, <2>7
  <2> QED
    BY <1>4, <2>5, <2>8
<1>8. ASSUME NEW a \in Adders, Trim(a)
      PROVE  AlertsInv'
  <2>1. /\ adds[a].phase = "trim" /\ alerts' = Newest(alerts)
        /\ adds' = [adds EXCEPT ![a] = NotAdding] /\ untrimmed' = 0 /\ UNCHANGED raced
    BY <1>8 DEF Trim
  <2> DEFINE d == Len(alerts) - Len(alerts')
             m == [i \in DOMAIN alerts' |-> i + Len(alerts) - Len(alerts')]
  <2>2. /\ Len(alerts') <= Limit /\ Len(alerts') <= Len(alerts)
        /\ \A i \in 1 .. Len(alerts') : alerts'[i] = alerts[i + Len(alerts) - Len(alerts')]
    BY <1>1, <2>1, NewestProperties
  <2>3. /\ m \in [DOMAIN alerts' -> DOMAIN alerts]
        /\ \A i, j \in DOMAIN alerts' : m[i] = m[j] => i = j
        /\ \A i \in DOMAIN alerts' : alerts'[i] = alerts[m[i]]
    BY <1>1, <2>2
  <2>4. \A k \in Keys :
          /\ (\A i, j \in Unread(k) : i = j) => \A i, j \in Unread(k)' : i = j
          /\ Unread(k) = {} => Unread(k)' = {}
    BY <2>3, Fewer
  <2>5. \A k \in Keys : Inserting(k)' = Inserting(k)
    BY <1>1, <2>1 DEF Inserting, NotAdding
  <2>6. \A k \in Keys \ raced' : Single(k)'
    BY <1>3, <2>1, <2>4, <2>5
  <2>7. Bounded'
    BY <1>1, <1>2, <2>1, <2>2
  <2> QED
    BY <1>4, <2>6, <2>7
<1>9. ASSUME NEW i \in DOMAIN alerts, MarkRead(i)
      PROVE  AlertsInv'
  <2>1. alerts' = [alerts EXCEPT ![i].read = TRUE] /\ UNCHANGED <<adds, raced, untrimmed>>
    BY <1>9 DEF MarkRead
  <2>2. \A j \in DOMAIN alerts : alerts[j] \in Alert
    BY <1>1, ElementOfSeq
  <2>3. /\ DOMAIN alerts' = DOMAIN alerts
        /\ \A j \in DOMAIN alerts : /\ alerts'[j].key = alerts[j].key
                                    /\ alerts[j].read => alerts'[j].read
    BY <2>1, <2>2 DEF Alert
  <2>4. Len(alerts') = Len(alerts)
    BY <1>1, <2>3, SameLength
  <2>5. \A k \in Keys : Unread(k)' \subseteq Unread(k)
    BY <2>3 DEF Unread
  <2>6. \A k \in Keys :
          /\ (\A p, q \in Unread(k) : p = q) => \A p, q \in Unread(k)' : p = q
          /\ Unread(k) = {} => Unread(k)' = {}
    BY <2>5
  <2> QED
    BY <1>1, <1>5, <2>1, <2>4, <2>6
<1>10. CASE MarkAllRead
  <2>1. /\ alerts' = [i \in DOMAIN alerts |-> [alerts[i] EXCEPT !.read = TRUE]]
        /\ UNCHANGED <<adds, raced, untrimmed>>
    BY <1>10 DEF MarkAllRead
  <2>2. \A j \in DOMAIN alerts : alerts[j] \in Alert
    BY <1>1, ElementOfSeq
  <2>3. DOMAIN alerts' = DOMAIN alerts /\ \A j \in DOMAIN alerts' : alerts'[j].read
    BY <2>1, <2>2 DEF Alert
  <2>4. Len(alerts') = Len(alerts)
    BY <1>1, <2>3, SameLength
  <2>5. \A k \in Keys : Unread(k)' = {}
    BY <2>3 DEF Unread
  <2> QED
    BY <1>1, <1>5, <2>1, <2>4, <2>5
<1>11. ASSUME NEW i \in DOMAIN alerts, DeleteAlert(i)
       PROVE  AlertsInv'
  <2> DEFINE m == [j \in DOMAIN alerts' |-> IF j < i THEN j ELSE j + 1]
  <2>1. alerts' = RemoveAt(alerts, i) /\ UNCHANGED <<adds, raced, untrimmed>>
    BY <1>11 DEF DeleteAlert
  <2>2. /\ Len(alerts') = Len(alerts) - 1
        /\ \A j \in 1 .. Len(alerts) - 1 : alerts'[j] = alerts[IF j < i THEN j ELSE j + 1]
    BY <1>1, <2>1, RemoveAtProperties
  <2>3. /\ m \in [DOMAIN alerts' -> DOMAIN alerts]
        /\ \A p, q \in DOMAIN alerts' : m[p] = m[q] => p = q
        /\ \A j \in DOMAIN alerts' : alerts'[j] = alerts[m[j]]
    BY <1>1, <2>2
  <2> HIDE DEF m
  <2>4. \A k \in Keys :
          /\ (\A p, q \in Unread(k) : p = q) => \A p, q \in Unread(k)' : p = q
          /\ Unread(k) = {} => Unread(k)' = {}
    BY <2>3, Fewer
  <2> QED
    BY <1>1, <1>5, <2>1, <2>2, <2>4
<1>12. CASE ClearAll
  <2>1. alerts' = <<>> /\ UNCHANGED <<adds, raced, untrimmed>>
    BY <1>12 DEF ClearAll
  <2>2. Len(alerts') = 0 /\ DOMAIN alerts' = {}
    BY <1>1, <2>1, EmptySeq
  <2>3. \A k \in Keys : Unread(k)' = {}
    BY <2>2 DEF Unread
  <2> QED
    BY <1>1, <1>5, <2>1, <2>2, <2>3
<1>13. CASE LiveAlertsCrash
  <2>1. /\ untrimmed' = untrimmed + Cardinality(Trimming)
        /\ adds' = [a \in Adders |-> NotAdding] /\ UNCHANGED <<alerts, raced>>
    BY <1>13 DEF LiveAlertsCrash, Trimming
  <2>2. Trimming' = {} /\ \A k \in Keys : Inserting(k)' = {} /\ Unread(k)' = Unread(k)
    BY <2>1 DEF Trimming, Inserting, NotAdding, Unread
  <2>3. Bounded'
    BY <1>1, <1>2, <1>3, <2>1, <2>2, FS_EmptySet
  <2> QED
    BY <1>3, <1>4, <2>1, <2>2, <2>3
<1>14. CASE UNCHANGED avars
  <2>1. /\ UNCHANGED <<alerts, adds, raced, untrimmed>>
        /\ \A k \in Keys : Unread(k)' = Unread(k)
    BY <1>14 DEF avars, Unread
  <2> QED
    BY <1>1, <1>5, <2>1
<1> QED
  BY <1>6, <1>7, <1>8, <1>9, <1>10, <1>11, <1>12, <1>13, <1>14, LiveAlertsMoves
-----------------------------------------------------------------------------
(***************************************************************************)
(* Maintenance windows.                                                    *)
(***************************************************************************)
EditStep == \E w \in Windows : \/ CreateWindow(w) \/ UpdateWindow(w) \/ DeleteWindow(w)
                              \/ DisableWindow(w) \/ EnableWindow(w)

\* The steps in which the windows, questions and job runs take part.
LEMMA MaintenanceMoves ==
  ASSUME [Next]_vars
  PROVE  \/ EditStep
         \/ ClearCache
         \/ \E w \in Windows : Expire(w)
         \/ \E j \in Jobs : StartJob(j) \/ Announce(j) \/ Mark(j) \/ EndJob(j)
         \/ \E a \in Askers : Ask(a) \/ ReadDisables(a) \/ ReadPlace(a)
         \/ MaintenanceTick /\ now' = now + 1
         \/ MaintenanceCrash /\ now' = now
         \/ /\ answered' \in {None, answered}
            /\ UNCHANGED <<now, rows, disabled, cache, unclear, asks, jobs, announced,
                           steady, slack>>
<1>1. CASE Question
  BY <1>1 DEF Question, AskStep
<1>2. CASE WindowsChange
  BY <1>2 DEF WindowsChange, WindowStep, EditStep
<1>3. CASE Dispatch \/ Remedying \/ Alerting \/ UNCHANGED vars
  BY <1>3 DEF Dispatch, Remedying, Alerting, Aside, vars, mvars
<1>4. CASE Tick \/ Crash
  BY <1>4 DEF Tick, Crash
<1> QED
  BY <1>1, <1>2, <1>3, <1>4 DEF Next

\* What the job writes to a row.
LEMMA MarkedType ==
  ASSUME NEW w \in Window, NEW event
  PROVE  /\ Marked(w, event) \in Window
         /\ Marked(w, event).plan = w.plan /\ Marked(w, event).active = w.active
         /\ Marked(w, event).startTold = (w.startTold \/ event = "start")
         /\ Marked(w, event).endTold = (event # "start")
  BY DEF Marked, Window

\* What is counted about the jobs is finite.
LEMMA JobsFinite ==
  ASSUME NEW T \in SUBSET Jobs
  PROVE  IsFiniteSet(T) /\ Cardinality(T) \in Nat
<1>1. IsFiniteSet(Jobs)
  BY MaintenanceAssumption
<1> QED
  BY <1>1, FS_Subset, FS_CardinalityType

\* How far an edit changes what the service keeps.
LEMMA EditType ==
  ASSUME TypeOK, EditStep
  PROVE  /\ rows' \in [Windows -> Window \union {NoRow, Deleted}]
         /\ disabled' \subseteq Windows
         /\ unclear' \in 0 .. calls'
         /\ Edited
<1>1. /\ rows \in [Windows -> Window \union {NoRow, Deleted}] /\ disabled \subseteq Windows
      /\ unclear \in 0 .. calls /\ MaxCalls \in Nat /\ calls \in 0 .. MaxCalls
  BY ServerClockAssumption DEF TypeOK, MaintenanceTypeOK, ClockTypeOK
<1>2. PICK w \in Windows : \/ CreateWindow(w) \/ UpdateWindow(w) \/ DeleteWindow(w)
                          \/ DisableWindow(w) \/ EnableWindow(w)
  BY DEF EditStep
<1>3. Edited
  BY <1>2 DEF CreateWindow, UpdateWindow, DeleteWindow, DisableWindow, EnableWindow
<1>4. unclear' \in 0 .. calls'
  BY <1>1, <1>3 DEF Edited, Call
<1>5. disabled' \subseteq Windows
  BY <1>1, <1>2 DEF CreateWindow, UpdateWindow, DeleteWindow, DisableWindow, EnableWindow
<1>6. \/ \E row \in Window \union {Deleted} : rows' = [rows EXCEPT ![w] = row]
      \/ rows' = rows
  <2>1. CASE CreateWindow(w)
    <3>1. PICK p \in Schedules, active \in BOOLEAN :
            rows' = [rows EXCEPT ![w] = [plan |-> p, active |-> active,
                                         startTold |-> FALSE, endTold |-> FALSE]]
      BY <2>1 DEF CreateWindow
    <3>2. [plan |-> p, active |-> active, startTold |-> FALSE, endTold |-> FALSE] \in Window
      BY MaintenanceAssumption DEF Window
    <3> QED
      BY <3>1, <3>2
  <2>2. CASE UpdateWindow(w)
    <3>1. rows[w] \in Window /\ rows[w].plan \in Schedule
      BY <1>1, <2>2 DEF UpdateWindow, Stored, Window
    <3>2. PICK p \in Schedules \union {[rows[w].plan EXCEPT !.from = None, !.to = None]},
               active \in BOOLEAN :
            rows' = [rows EXCEPT ![w].plan = p, ![w].active = active]
      BY <2>2 DEF UpdateWindow
    <3>3. p \in Schedule
      BY <3>1, MaintenanceAssumption DEF Schedule
    <3>4. [rows[w] EXCEPT !.plan = p, !.active = active] \in Window
      BY <3>1, <3>3 DEF Window
    <3>5. rows' = [rows EXCEPT ![w] = [rows[w] EXCEPT !.plan = p, !.active = active]]
      BY <1>1, <3>2
    <3> QED
      BY <3>4, <3>5
  <2>3. CASE DeleteWindow(w) \/ DisableWindow(w) \/ EnableWindow(w)
    BY <2>3 DEF DeleteWindow, DisableWindow, EnableWindow
  <2> QED
    BY <1>2, <2>1, <2>2, <2>3
<1>7. rows' \in [Windows -> Window \union {NoRow, Deleted}]
  BY <1>1, <1>6
<1> QED
  BY <1>3, <1>4, <1>5, <1>7

\* The maintenance service keeps its types.
LEMMA MaintenanceType ==
  ASSUME TypeOK, [Next]_vars
  PROVE  MaintenanceTypeOK'
<1>1. /\ rows \in [Windows -> Window \union {NoRow, Deleted}] /\ disabled \subseteq Windows
      /\ cache \in [value : BOOLEAN, at : Times] \union {None}
      /\ unclear \in 0 .. calls
      /\ asks \in [Askers -> AskState] /\ jobs \in [Jobs -> JobState]
      /\ answered \in [by : Askers, value : BOOLEAN] \union {None}
      /\ announced \in [Due -> Nat] /\ steady \in 0 .. Stalest + 1
      /\ slack \in 0 .. MaxSlack
  BY DEF TypeOK, MaintenanceTypeOK
<1>2. calls \in Nat /\ calls' \in Nat /\ calls <= calls' /\ now \in Times /\ now' \in Times
  <2>1. ClockTypeOK /\ ClockTypeOK' /\ MaxCalls \in Nat
    BY ClockMoves, ServerClockAssumption DEF TypeOK
  <2>2. calls' = calls \/ calls' = calls + 1
    BY ClockMoves
  <2> QED
    BY <2>1, <2>2 DEF ClockTypeOK, Times
<1>3. CacheTtl \in Nat /\ MaxSlack \in Nat /\ Stalest \in Nat /\ None \notin Due
  BY MaintenanceAssumption, NothingAssumption DEF Stalest
<1>4. CASE EditStep
  BY <1>1, <1>3, <1>4, EditType DEF Edited, MaintenanceTypeOK
<1>5. CASE ClearCache
  BY <1>1, <1>2, <1>5 DEF ClearCache, MaintenanceTypeOK
<1>6. ASSUME NEW w \in Windows, Expire(w)
      PROVE  MaintenanceTypeOK'
  <2>1. steady' \in 0 .. Stalest + 1
    BY <1>1, <1>3, <1>6 DEF Expire, Steady
  <2>2. disabled' \subseteq Windows /\ rows' \in [Windows -> Window \union {NoRow, Deleted}]
    BY <1>1, <1>6 DEF Expire
  <2> QED
    BY <1>1, <1>2, <1>6, <2>1, <2>2 DEF Expire, MaintenanceTypeOK
<1>7. ASSUME NEW j \in Jobs, StartJob(j)
      PROVE  MaintenanceTypeOK'
  <2>1. PICK todo \in SUBSET Due :
          jobs' = [jobs EXCEPT ![j] = [phase |-> "run", todo |-> todo, marking |-> None]]
    BY <1>7 DEF StartJob, DueNow
  <2>2. [phase |-> "run", marking |-> None, todo |-> todo] \in JobState
    BY DEF JobState
  <2>3. jobs' \in [Jobs -> JobState]
    BY <1>1, <2>1, <2>2
  <2>4. slack' \in 0 .. MaxSlack
    <3> DEFINE Others == {i \in Jobs : jobs[i].phase # "idle"}
    <3>1. Cardinality(Others) \in Nat
      BY JobsFinite
    <3> HIDE DEF Others
    <3>2. slack' = slack + Cardinality(Others) /\ slack' <= MaxSlack
      BY <1>7 DEF StartJob, Others
    <3> QED
      BY <1>1, <1>3, <3>1, <3>2
  <2> QED
    BY <1>1, <1>2, <1>7, <2>3, <2>4 DEF StartJob, MaintenanceTypeOK
<1>8. ASSUME NEW j \in Jobs, Announce(j)
      PROVE  MaintenanceTypeOK'
  <2>1. PICK d \in jobs[j].todo :
          /\ announced' = [announced EXCEPT ![d] = @ + 1]
          /\ jobs' = [jobs EXCEPT ![j].marking = d, ![j].todo = @ \ {d}]
    BY <1>8 DEF Announce
  <2>2. jobs[j] \in JobState /\ d \in Due
    BY <1>1, <2>1 DEF JobState
  <2>3. [jobs[j] EXCEPT !.marking = d, !.todo = @ \ {d}] \in JobState
    BY <2>2 DEF JobState
  <2>4. jobs' = [jobs EXCEPT ![j] = [jobs[j] EXCEPT !.marking = d, !.todo = @ \ {d}]]
    BY <1>1, <2>1
  <2>5. jobs' \in [Jobs -> JobState] /\ announced' \in [Due -> Nat]
    BY <1>1, <2>1, <2>2, <2>3, <2>4
  <2> QED
    BY <1>1, <1>2, <1>8, <2>5 DEF Announce, MaintenanceTypeOK
<1>9. ASSUME NEW j \in Jobs, Mark(j)
      PROVE  MaintenanceTypeOK'
  <2>1. jobs[j] \in JobState
    BY <1>1
  <2>2. [jobs[j] EXCEPT !.marking = None] \in JobState
    BY <2>1 DEF JobState
  <2>3. jobs' = [jobs EXCEPT ![j] = [jobs[j] EXCEPT !.marking = None]]
    BY <1>1, <1>9 DEF Mark
  <2>4. jobs' \in [Jobs -> JobState]
    BY <1>1, <2>2, <2>3
  <2> DEFINE w == jobs[j].marking[1]
             event == jobs[j].marking[2]
  <2>5. rows' = rows \/ (w \in Stored /\ rows' = [rows EXCEPT ![w] = Marked(@, event)])
    BY <1>9 DEF Mark
  <2>6. w \in Stored => Marked(rows[w], event) \in Window
    BY <1>1, MarkedType DEF Stored
  <2>7. rows' \in [Windows -> Window \union {NoRow, Deleted}]
    BY <1>1, <2>5, <2>6 DEF Stored
  <2> QED
    BY <1>1, <1>2, <1>9, <2>4, <2>7 DEF Mark, MaintenanceTypeOK
<1>10. ASSUME NEW j \in Jobs, EndJob(j)
       PROVE  MaintenanceTypeOK'
  <2>1. NoJob \in JobState
    BY DEF NoJob, JobState
  <2> QED
    BY <1>1, <1>2, <1>10, <2>1 DEF EndJob, MaintenanceTypeOK
<1>11. ASSUME NEW a \in Askers, Ask(a)
       PROVE  MaintenanceTypeOK'
  <2>1. [Idle EXCEPT !.phase = "disables", !.at = now] \in AskState
    BY <1>2 DEF Idle, AskState, Times
  <2>2. asks' \in [Askers -> AskState]
    BY <1>1, <1>11, <2>1 DEF Ask
  <2>3. Usable(cache) => cache.value \in BOOLEAN
    BY <1>1 DEF Usable
  <2>4. /\ answered' \in [by : Askers, value : BOOLEAN] \union {None}
        /\ cache' \in {cache, None}
    BY <1>1, <1>11, <2>3 DEF Ask, Answer
  <2> QED
    BY <1>1, <1>2, <1>11, <2>2, <2>4 DEF Ask, MaintenanceTypeOK
<1>12. ASSUME NEW a \in Askers, ReadDisables(a)
       PROVE  MaintenanceTypeOK'
  <2>1. [asks[a] EXCEPT !.phase = "own", !.off = disabled] \in AskState
    BY <1>1 DEF AskState, Places
  <2>2. asks' = [asks EXCEPT ![a] = [asks[a] EXCEPT !.phase = "own", !.off = disabled]]
    BY <1>1, <1>12 DEF ReadDisables
  <2>3. asks' \in [Askers -> AskState]
    BY <1>1, <2>1, <2>2
  <2> QED
    BY <1>1, <1>2, <1>12, <2>3 DEF ReadDisables, MaintenanceTypeOK
<1>13. ASSUME NEW a \in Askers, ReadPlace(a)
       PROVE  MaintenanceTypeOK'
  <2> DEFINE open == OpenIn(asks[a].phase, asks[a].off, asks[a].at) # {}
             next == IF asks[a].phase = "own" THEN "group" ELSE "global"
  <2>1. open \in BOOLEAN
    OBVIOUS
  <2>2. Idle \in AskState /\ [asks[a] EXCEPT !.phase = next] \in AskState
    <3>1. asks[a] \in AskState /\ 0 \in Times /\ next \in Places
      BY <1>1, ServerClockAssumption DEF Times, Places
    <3> QED
      BY <3>1 DEF Idle, AskState
  <2> HIDE DEF open
  <2>3. \/ /\ asks' = [asks EXCEPT ![a] = Idle] /\ cache' = [value |-> open, at |-> now]
           /\ answered' = [by |-> a, value |-> open]
        \/ /\ asks' = [asks EXCEPT ![a].phase = next] /\ cache' = cache /\ answered' = None
    BY <1>13 DEF ReadPlace, Answer, open
  <2>4. asks' = [asks EXCEPT ![a] = Idle]
        \/ asks' = [asks EXCEPT ![a] = [asks[a] EXCEPT !.phase = next]]
    BY <1>1, <2>3
  <2>5. asks' \in [Askers -> AskState]
    BY <1>1, <2>2, <2>4
  <2>6. cache' \in [value : BOOLEAN, at : Times] \union {None}
        /\ answered' \in [by : Askers, value : BOOLEAN] \union {None}
    BY <1>1, <1>2, <2>1, <2>3
  <2> QED
    BY <1>1, <1>2, <1>13, <2>5, <2>6 DEF ReadPlace, MaintenanceTypeOK
<1>14. CASE MaintenanceTick
  <2>1. steady' \in 0 .. Stalest + 1
    BY <1>1, <1>3, <1>14 DEF MaintenanceTick, Steady
  <2> QED
    BY <1>1, <1>2, <1>14, <2>1 DEF MaintenanceTick, MaintenanceTypeOK
<1>15. CASE MaintenanceCrash
  <2>1. Idle \in AskState /\ NoJob \in JobState
    BY ServerClockAssumption DEF Idle, NoJob, AskState, JobState, Times
  <2> QED
    BY <1>1, <1>2, <1>3, <1>15, <2>1 DEF MaintenanceCrash, MaintenanceTypeOK
<1>16. CASE answered' \in {None, answered}
            /\ UNCHANGED <<now, rows, disabled, cache, unclear, asks, jobs, announced,
                           steady, slack>>
  BY <1>1, <1>2, <1>16 DEF MaintenanceTypeOK
<1> QED
  BY <1>4, <1>5, <1>6, <1>7, <1>8, <1>9, <1>10, <1>11, <1>12, <1>13, <1>14, <1>15, <1>16,
     MaintenanceMoves
-----------------------------------------------------------------------------
(***************************************************************************)
(* The types.                                                              *)
(***************************************************************************)
\* Every variable has its type to begin with.
LEMMA InitType ==
  ASSUME Init
  PROVE  TypeOK
<1>1. ClockTypeOK /\ focus \in {"windows", "changes"}
  BY ServerClockAssumption DEF Init, ClockInit, ClockTypeOK
<1>2. MaintenanceTypeOK
  BY MaintenanceAssumption, ServerClockAssumption
     DEF Init, ClockInit, MaintenanceInit, MaintenanceTypeOK, Idle, NoJob, AskState, JobState,
         Times, Stalest
<1>3. RemediationTypeOK
  BY RemediationAssumption DEF Init, RemediationInit, RemediationTypeOK
<1>4. LiveAlertsTypeOK
  <2>1. NotAdding \in AddState
    BY DEF NotAdding, AddState
  <2> QED
    BY EmptySeq, <2>1 DEF Init, LiveAlertsInit, LiveAlertsTypeOK
<1> QED
  BY <1>1, <1>2, <1>3, <1>4 DEF TypeOK

\* A step keeps every variable of the three services and the clock in its type.
LEMMA StepType ==
  ASSUME TypeOK, [Next]_vars
  PROVE  TypeOK'
BY ClockMoves, MaintenanceType, RemediationType, LiveAlertsType DEF TypeOK

\* Type correctness of the services that follow a beat, whatever they are given.
THEOREM TypeCorrect == Spec => []TypeOK
BY InitType, StepType, PTL DEF Spec
-----------------------------------------------------------------------------
(***************************************************************************)
(* Remedies and live alerts.                                               *)
(***************************************************************************)
\* What began the cooldown after a record stays so: the inductive invariant.
THEOREM CooldownInvariant == Spec => []CooldownInv
<1>1. Init => CooldownInv
  <2> SUFFICES ASSUME Init PROVE CooldownInv
    OBVIOUS
  <2>1. runs = {} /\ \A r \in Remedies, began \in 0 .. Horizon : running[<<r, began>>] = 0
    BY DEF Init, RemediationInit
  <2> QED
    BY <2>1 DEF CooldownInv, CooldownHonoured
<1>2. TypeOK /\ CooldownInv /\ [Next]_vars => CooldownInv'
  BY CooldownStep
<1> QED
  BY <1>1, <1>2, TypeCorrect, PTL DEF Spec

\* triggerForMonitor skips only because of a run recorded within the cooldown, and
\* what began after a run was recorded began the cooldown after it.
THEOREM CooldownKept == Spec => []CooldownHonoured
<1>1. CooldownInv => CooldownHonoured
  BY DEF CooldownInv
<1> QED
  BY <1>1, CooldownInvariant, PTL

\* An unread alert of a key, or an add about to insert one: the inductive invariant.
THEOREM AlertsInvariant == Spec => []AlertsInv
<1>1. Init => AlertsInv
  <2> SUFFICES ASSUME Init PROVE AlertsInv
    OBVIOUS
  <2>1. alerts = <<>> /\ adds = [a \in Adders |-> NotAdding] /\ untrimmed = 0
    BY DEF Init, LiveAlertsInit
  <2>2. Len(alerts) = 0 /\ DOMAIN alerts = {}
    BY <2>1, EmptySeq
  <2>3. Trimming = {} /\ \A k \in Keys : Inserting(k) = {} /\ Unread(k) = {}
    BY <2>1, <2>2 DEF Trimming, Inserting, NotAdding, Unread
  <2> QED
    BY <2>1, <2>2, <2>3, FS_EmptySet, LiveAlertsAssumption DEF AlertsInv
<1>2. TypeOK /\ AlertsInv /\ [Next]_vars => AlertsInv'
  BY AlertsStep
<1> QED
  BY <1>1, <1>2, TypeCorrect, PTL DEF Spec

\* add never leaves a key with two unread alerts, unless two calls of it raced, nor
\* the tenant with more than the limit, but for the trims a crash has lost.
THEOREM AlertsDown == Spec => []AlertsKeptDown
<1>1. AlertsInv => AlertsKeptDown
  <2> SUFFICES ASSUME AlertsInv PROVE AlertsKeptDown
    OBVIOUS
  <2>1. ASSUME NEW k \in Keys \ raced
        PROVE  Cardinality(Unread(k)) <= 1
    <3>1. \A i, j \in Unread(k) : i = j
      BY DEF AlertsInv
    <3>2. CASE Unread(k) = {}
      BY <3>2, FS_EmptySet
    <3>3. CASE Unread(k) # {}
      <4>1. PICK i \in Unread(k) : TRUE
        BY <3>3
      <4>2. Unread(k) = {i}
        BY <3>1, <4>1
      <4>3. Cardinality({i}) = 1
        BY FS_Singleton
      <4> QED
        BY <4>2, <4>3
    <3> QED
      BY <3>2, <3>3
  <2>2. ASSUME \A a \in Adders : adds[a].phase # "trim"
        PROVE  Len(alerts) <= Limit + untrimmed
    <3>1. Cardinality(Trimming) = 0
      BY <2>2, FS_EmptySet DEF Trimming
    <3>2. Len(alerts) <= Limit + Cardinality(Trimming) + untrimmed
      BY DEF AlertsInv
    <3> HIDE DEF Trimming
    <3> QED
      BY <3>1, <3>2, LiveAlertsAssumption
  <2> QED
    BY <2>1, <2>2 DEF AlertsKeptDown
<1> QED
  BY <1>1, AlertsInvariant, PTL
-----------------------------------------------------------------------------
(***************************************************************************)
(* Announcements: how many runs of the job have an announcement to make or *)
(* to mark, against how often it was made.                                 *)
(***************************************************************************)
\* The runs that have something in hand, one more or one less.
LEMMA OneMore ==
  ASSUME NEW T \in SUBSET Jobs, NEW j \in Jobs
  PROVE  /\ Cardinality(T \union {j}) = IF j \in T THEN Cardinality(T) ELSE Cardinality(T) + 1
         /\ Cardinality(T \ {j}) = IF j \in T THEN Cardinality(T) - 1 ELSE Cardinality(T)
         /\ Cardinality(T) \in Nat
         /\ Cardinality(T) = 0 <=> T = {}
BY JobsFinite, FS_AddElement, FS_RemoveElement, FS_EmptySet

\* The numbers the invariant compares.
LEMMA Counts ==
  ASSUME TypeOK, NEW w \in Windows
  PROVE  /\ <<w, "start">> \in Due /\ <<w, "end">> \in Due
         /\ announced[<<w, "start">>] \in Nat /\ announced[<<w, "end">>] \in Nat
         /\ slack \in Nat /\ rows[w] \in Window \union {NoRow, Deleted}
         /\ \A d \in Due : /\ Doing(d) \subseteq Jobs /\ Telling(d) \subseteq Jobs
                           /\ Cardinality(Doing(d)) \in Nat
                           /\ Cardinality(Telling(d)) \in Nat
                           /\ Cardinality(Doing(d)) = 0 <=> Doing(d) = {}
                           /\ Cardinality(Telling(d)) = 0 <=> Telling(d) = {}
<1>1. <<w, "start">> \in Due /\ <<w, "end">> \in Due
  BY DEF Due
<1>2. /\ announced[<<w, "start">>] \in Nat /\ announced[<<w, "end">>] \in Nat
      /\ rows[w] \in Window \union {NoRow, Deleted}
  BY <1>1 DEF TypeOK, MaintenanceTypeOK
<1>3. slack \in Nat
  BY MaintenanceAssumption DEF TypeOK, MaintenanceTypeOK
<1>4. \A d \in Due : Doing(d) \in SUBSET Jobs /\ Telling(d) \in SUBSET Jobs
  BY DEF Doing, Telling
<1>5. \A T \in SUBSET Jobs : Cardinality(T) \in Nat /\ (Cardinality(T) = 0 <=> T = {})
  BY JobsFinite, FS_EmptySet
<1> QED
  BY <1>1, <1>2, <1>3, <1>4, <1>5

\* A step that neither announces nor marks: a row it changes keeps what it was told,
\* or is deleted, or is new.
LEMMA RowsStep ==
  ASSUME TypeOK, TransitionsInv, NEW w \in Windows,
         UNCHANGED <<jobs, announced, slack>>,
         \/ rows'[w] = rows[w]
         \/ rows'[w] = Deleted
         \/ /\ rows[w] = NoRow /\ rows'[w] \in Window
            /\ ~rows'[w].startTold
         \/ /\ rows[w] \in Window /\ rows'[w] \in Window
            /\ rows'[w].startTold = rows[w].startTold
            /\ rows'[w].endTold = rows[w].endTold
  PROVE  StartInv(w)' /\ EndInv(w)'
<1>1. StartInv(w) /\ EndInv(w)
  BY DEF TransitionsInv
<1>2. \A d \in Due : Doing(d)' = Doing(d) /\ Telling(d)' = Telling(d)
  BY DEF Doing, Telling
<1>3. /\ Untold(w)' => Untold(w)
      /\ (w \in Stored)' => (w \in Stored /\ (Untold(w) => Untold(w)')) \/ Untold(w)'
      /\ EndOpen(w)' => EndOpen(w)
      /\ rows'[w] = NoRow => rows[w] = NoRow
  BY <1>2, NothingAssumption, Counts DEF Untold, EndOpen, Stored
<1> QED
  BY <1>1, <1>2, <1>3, Counts DEF StartInv, EndInv

\* A run that starts alone finds what no other is about to announce; with others, it
\* uses their slack.
LEMMA StartJobStep ==
  ASSUME TypeOK, TransitionsInv, NEW w \in Windows, NEW j \in Jobs, StartJob(j)
  PROVE  StartInv(w)' /\ EndInv(w)'
<1> DEFINE start == <<w, "start">>
           end == <<w, "end">>
           Others == {i \in Jobs : jobs[i].phase # "idle"}
<1>1. StartInv(w) /\ EndInv(w) /\ \A i \in Jobs : jobs[i].phase = "idle" => jobs[i] = NoJob
  BY DEF TransitionsInv
<1>2. /\ slack' = slack + Cardinality(Others) /\ Cardinality(Others) \in Nat
      /\ Others \in SUBSET Jobs
  BY JobsFinite DEF StartJob
<1>3. jobs[j] = NoJob /\ UNCHANGED <<rows, announced>>
  BY <1>1 DEF StartJob
<1>4. PICK todo \in SUBSET Due :
        /\ jobs' = [jobs EXCEPT ![j] = [phase |-> "run", todo |-> todo, marking |-> None]]
        /\ start \in todo => Untold(w) /\ w \in Stored
        /\ end \in todo => w \in Stored /\ rows[w].startTold /\ ~rows[w].endTold
  <2>1. jobs' = [jobs EXCEPT ![j] = [phase |-> "run", todo |-> DueNow, marking |-> None]]
    BY DEF StartJob
  <2>2. DueNow \subseteq Due
    BY DEF DueNow
  <2>3. start \in DueNow => Untold(w) /\ w \in Stored
    BY DEF DueNow, DueAt, Untold
  <2>4. end \in DueNow => w \in Stored /\ rows[w].startTold /\ ~rows[w].endTold
    BY DEF DueNow, DueAt
  <2> QED
    BY <2>1, <2>2, <2>3, <2>4
<1>5. jobs \in [Jobs -> JobState]
  BY DEF TypeOK, MaintenanceTypeOK
<1>6. ASSUME NEW d \in Due
      PROVE  /\ Doing(d)' = IF d \in todo THEN Doing(d) \union {j} ELSE Doing(d)
             /\ j \notin Doing(d)
             /\ Telling(d)' = Telling(d)
  BY <1>3, <1>4, <1>5, NothingAssumption DEF Doing, Telling, NoJob
<1>7. ASSUME NEW d \in Due
      PROVE  /\ Cardinality(Doing(d)') = IF d \in todo THEN Cardinality(Doing(d)) + 1
                                                       ELSE Cardinality(Doing(d))
             /\ Cardinality(Telling(d)') = Cardinality(Telling(d))
  <2>1. Doing(d) \in SUBSET Jobs
    BY DEF Doing
  <2> QED
    BY <1>6, <2>1, OneMore
<1>8. Others # {} => Cardinality(Others) > 0
  <2>1. \A T \in SUBSET Jobs : Cardinality(T) \in Nat /\ (T # {} => Cardinality(T) # 0)
    BY OneMore
  <2> QED
    BY <1>2, <2>1
<1>9. Others = {} => \A d \in Due : Doing(d) = {} /\ Telling(d) = {}
  BY <1>1, NothingAssumption DEF NoJob, Doing, Telling
<1>10. /\ Untold(w)' = Untold(w) /\ (w \in Stored)' = (w \in Stored)
       /\ EndOpen(w)' => EndOpen(w)
       /\ end \in todo => ~EndOpen(w)'
       /\ end \in todo /\ Others = {} => EndOpen(w)
       /\ end \in todo => ~Untold(w)
       /\ start \in todo => rows[w] # NoRow
  BY <1>3, <1>4, <1>6, <1>9, Counts DEF Untold, EndOpen, Stored
<1> HIDE DEF Others
<1>11. /\ Cardinality(Doing(start)) = 0 <=> Doing(start) = {}
       /\ Cardinality(Telling(start)) = 0 <=> Telling(start) = {}
       /\ Cardinality(Doing(end)) = 0 <=> Doing(end) = {}
       /\ Cardinality(Telling(end)) = 0 <=> Telling(end) = {}
       /\ start \in Due /\ end \in Due
  BY Counts
<1>12. StartInv(w)'
  <2>1. announced[start] + Cardinality(Doing(start)') <= 1 + slack'
    <3>1. CASE start \notin todo
      BY <1>1, <1>2, <1>7, <1>11, <3>1, Counts DEF StartInv
    <3>2. CASE start \in todo /\ Others = {}
      BY <1>1, <1>2, <1>4, <1>7, <1>9, <1>11, <3>2, Counts DEF StartInv
    <3>3. CASE start \in todo /\ Others # {}
      BY <1>1, <1>2, <1>7, <1>8, <1>11, <3>3, Counts DEF StartInv
    <3> QED
      BY <3>1, <3>2, <3>3
  <2>2. Doing(start)' = {} => Doing(start) = {}
    BY <1>6, <1>11
  <2> QED
    BY <1>1, <1>2, <1>3, <1>6, <1>10, <1>11, <2>1, <2>2, Counts DEF StartInv
<1>13. EndInv(w)'
  <2>1. announced[end] + Cardinality(Doing(end)') + Cardinality(Telling(start)')
          + (IF EndOpen(w)' THEN 1 ELSE 0) <= announced[start] + slack'
    <3>1. CASE end \notin todo
      BY <1>1, <1>2, <1>7, <1>10, <1>11, <3>1, Counts DEF EndInv
    <3>2. CASE end \in todo /\ Others = {}
      BY <1>1, <1>2, <1>4, <1>7, <1>10, <1>11, <3>2, Counts DEF EndInv
    <3>3. CASE end \in todo /\ Others # {}
      BY <1>1, <1>2, <1>7, <1>8, <1>10, <1>11, <3>3, Counts DEF EndInv
    <3> QED
      BY <3>1, <3>2, <3>3
  <2>2. Untold(w)' \/ announced[start] = 0 => end \notin todo
    BY <1>1, <1>4, <1>10 DEF EndInv
  <2> QED
    BY <1>1, <1>2, <1>3, <1>6, <1>10, <1>11, <2>1, <2>2 DEF EndInv
<1> QED
  BY <1>12, <1>13

\* What is announced is no longer to do and still to be marked.
LEMMA AnnounceStep ==
  ASSUME TypeOK, TransitionsInv, NEW w \in Windows, NEW j \in Jobs, Announce(j)
  PROVE  StartInv(w)' /\ EndInv(w)'
<1> DEFINE start == <<w, "start">>
           end == <<w, "end">>
<1>1. StartInv(w) /\ EndInv(w)
  BY DEF TransitionsInv
<1>2. PICK d \in jobs[j].todo :
        /\ announced' = [announced EXCEPT ![d] = @ + 1]
        /\ jobs' = [jobs EXCEPT ![j].marking = d, ![j].todo = @ \ {d}]
  BY DEF Announce
<1>3. /\ jobs \in [Jobs -> JobState] /\ announced \in [Due -> Nat]
      /\ jobs[j].marking = None /\ UNCHANGED <<rows, slack>>
  BY DEF TypeOK, MaintenanceTypeOK, Announce
<1>4. d \in Due /\ d # None /\ j \in Doing(d)
  BY <1>2, <1>3, NothingAssumption DEF JobState, Doing
<1>5. jobs' = [jobs EXCEPT ![j] = [jobs[j] EXCEPT !.marking = d, !.todo = @ \ {d}]]
  BY <1>2, <1>3
<1>6. ASSUME NEW e \in Due
      PROVE  /\ Doing(e)' = IF e = d THEN Doing(e) \ {j} ELSE Doing(e)
             /\ Telling(e)' = IF e = d THEN Telling(e) \union {j} ELSE Telling(e)
             /\ j \notin Telling(e)
             /\ announced'[e] = IF e = d THEN announced[e] + 1 ELSE announced[e]
  <2>1. e # None
    BY NothingAssumption
  <2>2. /\ jobs'[j].todo = jobs[j].todo \ {d} /\ jobs'[j].marking = d
        /\ \A i \in Jobs \ {j} : jobs'[i] = jobs[i]
    BY <1>3, <1>5 DEF JobState
  <2> QED
    BY <1>2, <1>3, <1>4, <2>1, <2>2 DEF Doing, Telling
<1>7. ASSUME NEW e \in Due
      PROVE  /\ Cardinality(Doing(e)') = IF e = d THEN Cardinality(Doing(e)) - 1
                                                  ELSE Cardinality(Doing(e))
             /\ Cardinality(Telling(e)') = IF e = d THEN Cardinality(Telling(e)) + 1
                                                    ELSE Cardinality(Telling(e))
  <2>1. Doing(e) \in SUBSET Jobs /\ Telling(e) \in SUBSET Jobs
    BY DEF Doing, Telling
  <2> QED
    BY <1>4, <1>6, <2>1, OneMore
<1>8. start # end /\ start \in Due /\ end \in Due
  BY Counts
<1>9. /\ Untold(w)' = Untold(w) /\ (w \in Stored)' = (w \in Stored)
      /\ EndOpen(w)' => EndOpen(w) \/ d = end
      /\ d = end => ~EndOpen(w) /\ ~EndOpen(w)'
  BY <1>3, <1>4, <1>6, <1>8 DEF Untold, EndOpen, Stored
<1>10. Doing(d) # {} /\ d = start => Telling(start)' # {}
  BY <1>6, <1>8
<1>11. CASE d = start
  <2>1. StartInv(w)'
    BY <1>1, <1>3, <1>4, <1>6, <1>7, <1>8, <1>9, <1>10, <1>11, Counts DEF StartInv
  <2>2. /\ announced'[start] = announced[start] + 1 /\ announced'[end] = announced[end]
        /\ Cardinality(Telling(start)') = Cardinality(Telling(start)) + 1
        /\ Doing(end)' = Doing(end) /\ Telling(end)' = Telling(end)
    BY <1>6, <1>7, <1>8, <1>11
  <2>3. EndOpen(w)' = EndOpen(w)
    BY <1>3, <2>2 DEF EndOpen, Stored
  <2>4. announced[start] + 1 # 0
    <3>1. announced[start] \in Nat
      BY Counts
    <3> QED
      BY <3>1
  <2>5. Untold(w)' => announced[end] = 0 /\ Doing(end) = {} /\ Telling(end) = {}
    BY <1>1, <1>9 DEF EndInv
  <2>6. announced[end] + Cardinality(Doing(end)) + Cardinality(Telling(start)) + 1
          + (IF EndOpen(w) THEN 1 ELSE 0) <= announced[start] + 1 + slack
    BY <1>1, <1>8, Counts DEF EndInv
  <2>7. announced'[end] + Cardinality(Doing(end)') + Cardinality(Telling(start)')
          + (IF EndOpen(w)' THEN 1 ELSE 0) <= announced'[start] + slack'
    <3> DEFINE b == IF EndOpen(w) THEN 1 ELSE 0
    <3>1. b \in Nat /\ (IF EndOpen(w)' THEN 1 ELSE 0) = b
      BY <2>3
    <3> HIDE DEF b
    <3>2. announced[end] + Cardinality(Doing(end)) + (Cardinality(Telling(start)) + 1)
            + b <= announced[start] + 1 + slack
      BY <2>6, <3>1, <1>8, Counts DEF b
    <3> QED
      BY <1>3, <2>2, <3>1, <3>2
  <2>8. EndInv(w)'
    BY <2>2, <2>4, <2>5, <2>7 DEF EndInv
  <2> QED
    BY <2>1, <2>8
<1>12. CASE d = end
  <2>1. StartInv(w)'
    BY <1>1, <1>3, <1>6, <1>7, <1>8, <1>9, <1>12, Counts DEF StartInv
  <2>2. EndInv(w)'
    BY <1>1, <1>3, <1>4, <1>6, <1>7, <1>8, <1>9, <1>12, Counts DEF EndInv
  <2> QED
    BY <2>1, <2>2
<1>13. CASE d # start /\ d # end
  <2>1. EndOpen(w)' = EndOpen(w)
    BY <1>3, <1>6, <1>8, <1>13 DEF EndOpen, Stored
  <2>2. StartInv(w)'
    BY <1>1, <1>3, <1>6, <1>7, <1>8, <1>9, <1>13, Counts DEF StartInv
  <2>3. EndInv(w)'
    BY <1>1, <1>3, <1>6, <1>7, <1>8, <1>9, <1>13, <2>1, Counts DEF EndInv
  <2> QED
    BY <2>2, <2>3
<1> QED
  BY <1>11, <1>12, <1>13

\* A mark of the start may open one more end, which it had been counted for; a mark
\* of the end opens none.
LEMMA MarkStep ==
  ASSUME TypeOK, TransitionsInv, NEW w \in Windows, NEW j \in Jobs, Mark(j)
  PROVE  StartInv(w)' /\ EndInv(w)'
<1> DEFINE start == <<w, "start">>
           end == <<w, "end">>
           d == jobs[j].marking
<1>1. StartInv(w) /\ EndInv(w)
  BY DEF TransitionsInv
<1>2. /\ jobs \in [Jobs -> JobState] /\ rows \in [Windows -> Window \union {NoRow, Deleted}]
      /\ UNCHANGED <<announced, slack>> /\ d # None
      /\ jobs' = [jobs EXCEPT ![j] = [jobs[j] EXCEPT !.marking = None]]
  BY DEF TypeOK, MaintenanceTypeOK, Mark
<1>3. d \in Due /\ j \in Telling(d) /\ d = <<d[1], d[2]>> /\ d[2] \in {"start", "end"}
  BY <1>2 DEF JobState, Telling, Due
<1>4. ASSUME NEW e \in Due
      PROVE  /\ Doing(e)' = Doing(e)
             /\ Telling(e)' = IF e = d THEN Telling(e) \ {j} ELSE Telling(e)
  <2>1. e # None
    BY NothingAssumption
  <2>2. /\ jobs'[j].todo = jobs[j].todo /\ jobs'[j].marking = None
        /\ \A i \in Jobs \ {j} : jobs'[i] = jobs[i]
    BY <1>2 DEF JobState
  <2> QED
    BY <2>1, <2>2 DEF Doing, Telling
<1>5. ASSUME NEW e \in Due
      PROVE  Cardinality(Telling(e)') = IF e = d THEN Cardinality(Telling(e)) - 1
                                                 ELSE Cardinality(Telling(e))
  <2>1. Telling(e) \in SUBSET Jobs
    BY DEF Telling
  <2> QED
    BY <1>3, <1>4, <2>1, OneMore
<1>6. start # end /\ start \in Due /\ end \in Due
  BY Counts
<1>7. \/ rows' = rows /\ d[1] \notin Stored
      \/ d[1] \in Stored /\ rows' = [rows EXCEPT ![d[1]] = Marked(@, d[2])]
  BY DEF Mark
<1> HIDE DEF d
<1>8. CASE d = start
  <2>1. d[1] = w /\ d[2] = "start" /\ Telling(start) # {}
    BY <1>3, <1>8
  <2>2. announced[start] # 0 /\ rows[w] # NoRow
    BY <1>1, <2>1 DEF StartInv, EndInv
  <2>3. ~Untold(w)'
    <3>1. CASE w \in Stored
      <4>1. rows[w] \in Window /\ rows' = [rows EXCEPT ![w] = Marked(@, "start")]
        BY <1>2, <1>7, <2>1, <3>1 DEF Stored
      <4>2. rows'[w] = Marked(rows[w], "start") /\ rows'[w] \in Window /\ rows'[w].startTold
        BY <1>2, <4>1, MarkedType
      <4> QED
        BY <4>2, NothingAssumption DEF Untold
    <3>2. CASE w \notin Stored
      BY <1>7, <2>1, <2>2, <3>2 DEF Untold, Stored
    <3> QED
      BY <3>1, <3>2
  <2>4. /\ announced[end] + Cardinality(Doing(end)) + Cardinality(Telling(start))
             <= announced[start] + slack
        /\ announced[start] + Cardinality(Doing(start)) <= 1 + slack
    BY <1>1, <1>6, Counts DEF StartInv, EndInv
  <2>5. rows'[w] = NoRow => rows[w] = NoRow
    BY <2>3 DEF Untold
  <2>6. StartInv(w)'
    BY <1>2, <1>4, <1>6, <2>2, <2>3, <2>4, <2>5 DEF StartInv
  <2>7. announced'[end] + Cardinality(Doing(end)') + Cardinality(Telling(start)')
          + (IF EndOpen(w)' THEN 1 ELSE 0) <= announced'[start] + slack'
    BY <1>2, <1>4, <1>5, <1>6, <1>8, <2>4, Counts
  <2>8. EndInv(w)'
    BY <1>2, <2>2, <2>3, <2>7 DEF EndInv
  <2> QED
    BY <2>6, <2>8
<1>9. CASE d = end
  <2>1. d[1] = w /\ d[2] = "end" /\ Telling(end) # {}
    BY <1>3, <1>9
  <2>2. ~Untold(w) /\ announced[start] # 0
    BY <1>1, <2>1 DEF EndInv
  <2>3. ~Untold(w)' /\ ~EndOpen(w)'
    <3>1. CASE w \in Stored
      <4>1. rows[w] \in Window /\ rows' = [rows EXCEPT ![w] = Marked(@, "end")]
        BY <1>2, <1>7, <2>1, <3>1 DEF Stored
      <4>2. /\ rows'[w] = Marked(rows[w], "end") /\ rows'[w] \in Window
            /\ rows'[w].startTold = rows[w].startTold /\ rows'[w].endTold
        <5>1. rows'[w] = Marked(rows[w], "end") /\ w \in DOMAIN rows
          BY <1>2, <4>1
        <5>2. /\ Marked(rows[w], "end") \in Window
              /\ Marked(rows[w], "end").startTold = rows[w].startTold
              /\ Marked(rows[w], "end").endTold
          BY <4>1 DEF Marked, Window
        <5> QED
          BY <5>1, <5>2
      <4> QED
        BY <2>2, <3>1, <4>2, NothingAssumption DEF Untold, EndOpen
    <3>2. CASE w \notin Stored
      BY <1>7, <2>1, <2>2, <3>2 DEF Untold, EndOpen, Stored
    <3> QED
      BY <3>1, <3>2
  <2>4. Doing(start)' = Doing(start) /\ Doing(end)' = Doing(end) /\ Telling(start)' = Telling(start)
    BY <1>4, <1>6, <1>9
  <2>5. StartInv(w)'
    <3>1. rows'[w] # NoRow
      BY <2>3 DEF Untold
    <3> QED
      BY <1>1, <1>2, <2>3, <2>4, <3>1 DEF StartInv
  <2>6. announced[end] + Cardinality(Doing(end)) + Cardinality(Telling(start))
          <= announced[start] + slack
    BY <1>1, <1>6, Counts DEF EndInv
  <2>7. EndInv(w)'
    BY <1>2, <1>6, <2>2, <2>3, <2>4, <2>6, Counts DEF EndInv
  <2> QED
    BY <2>5, <2>7
<1>10. CASE d # start /\ d # end
  <2>1. d[1] # w
    BY <1>3, <1>10
  <2>2. rows'[w] = rows[w]
    BY <1>2, <1>7, <2>1
  <2>3. \A e \in {start, end} : Doing(e)' = Doing(e) /\ Telling(e)' = Telling(e)
    BY <1>4, <1>6, <1>10
  <2>4. /\ Untold(w)' = Untold(w) /\ (w \in Stored)' = (w \in Stored)
        /\ EndOpen(w)' = EndOpen(w)
    BY <2>2, <2>3 DEF Untold, Stored, EndOpen
  <2> QED
    BY <1>1, <1>2, <2>2, <2>3, <2>4 DEF StartInv, EndInv
<1> QED
  BY <1>8, <1>9, <1>10

\* What a crash makes the job forget is one more message at most.
LEMMA CrashStep ==
  ASSUME TypeOK, TransitionsInv, NEW w \in Windows, MaintenanceCrash
  PROVE  StartInv(w)' /\ EndInv(w)'
<1> DEFINE start == <<w, "start">>
           end == <<w, "end">>
<1>1. StartInv(w) /\ EndInv(w)
  BY DEF TransitionsInv
<1>2. /\ UNCHANGED <<rows, announced>> /\ slack' = slack + 1
      /\ \A i \in Jobs : jobs'[i] = NoJob
  BY DEF MaintenanceCrash
<1>3. \A d \in Due : Doing(d)' = {} /\ Telling(d)' = {}
  BY <1>2, NothingAssumption DEF Doing, Telling, NoJob
<1>4. start \in Due /\ end \in Due /\ Cardinality({}) = 0
  BY Counts, FS_EmptySet
<1>5. Untold(w)' = Untold(w) /\ (w \in Stored)' = (w \in Stored)
  BY <1>2 DEF Untold, Stored
<1>6. announced[start] <= 1 + slack /\ announced[end] <= announced[start] + slack
  <2>1. announced[start] + Cardinality(Doing(start)) <= 1 + slack
    BY <1>1 DEF StartInv
  <2>2. announced[end] + Cardinality(Doing(end)) + Cardinality(Telling(start))
          <= announced[start] + slack
    BY <1>1, <1>4, Counts DEF EndInv
  <2> QED
    BY <1>4, <2>1, <2>2, Counts
<1>7. StartInv(w)'
  <2>1. announced'[start] + Cardinality(Doing(start)') <= 1 + slack'
    <3>1. Cardinality(Doing(start)') = 0
      BY <1>3, <1>4
    <3>2. announced'[start] \in Nat /\ slack \in Nat
      BY <1>2, Counts
    <3> QED
      BY <1>2, <1>6, <3>1, <3>2
  <2>2. announced'[start] <= slack'
    BY <1>2, <1>6, Counts
  <2>3. rows'[w] = NoRow => announced'[start] = 0 /\ Doing(start)' = {}
    BY <1>1, <1>2, <1>3, <1>4 DEF StartInv
  <2> QED
    BY <2>1, <2>2, <2>3 DEF StartInv
<1>8. announced'[end] + Cardinality(Doing(end)') + Cardinality(Telling(start)')
        + (IF EndOpen(w)' THEN 1 ELSE 0) <= announced'[start] + slack'
  <2>1. Cardinality(Doing(end)') = 0 /\ Cardinality(Telling(start)') = 0
    BY <1>3, <1>4
  <2>2. announced'[end] <= announced'[start] + slack
    BY <1>2, <1>6
  <2>3. announced'[end] \in Nat /\ announced'[start] \in Nat
    BY <1>2, Counts
  <2> QED
    BY <1>2, <2>1, <2>2, <2>3, Counts
<1>9. EndInv(w)'
  BY <1>1, <1>2, <1>3, <1>4, <1>5, <1>8 DEF EndInv
<1> QED
  BY <1>7, <1>9

\* No run of the job holds anything once it is idle.
LEMMA IdleStep ==
  ASSUME TypeOK, TransitionsInv, [Next]_vars
  PROVE  \A i \in Jobs : jobs'[i].phase = "idle" => jobs'[i] = NoJob
<1>1. /\ \A i \in Jobs : jobs[i].phase = "idle" => jobs[i] = NoJob
      /\ jobs \in [Jobs -> JobState]
  BY DEF TransitionsInv, TypeOK, MaintenanceTypeOK
<1>2. ASSUME NEW j \in Jobs, StartJob(j)
      PROVE  \A i \in Jobs : jobs'[i].phase = "idle" => jobs'[i] = NoJob
  BY <1>1, <1>2 DEF StartJob
<1>3. ASSUME NEW j \in Jobs, Announce(j) \/ Mark(j)
      PROVE  \A i \in Jobs : jobs'[i].phase = "idle" => jobs'[i] = NoJob
  <2>1. /\ jobs[j].phase # "idle" /\ jobs'[j].phase = jobs[j].phase
        /\ \A i \in Jobs \ {j} : jobs'[i] = jobs[i]
    <3>1. CASE Announce(j)
      BY <1>1, <3>1 DEF Announce, JobState
    <3>2. CASE Mark(j)
      BY <1>1, <3>2 DEF Mark, JobState, NoJob
    <3> QED
      BY <1>3, <3>1, <3>2
  <2> QED
    BY <1>1, <2>1
<1>4. ASSUME NEW j \in Jobs, EndJob(j)
      PROVE  \A i \in Jobs : jobs'[i].phase = "idle" => jobs'[i] = NoJob
  BY <1>1, <1>4 DEF EndJob
<1>5. CASE MaintenanceCrash
  BY <1>5 DEF MaintenanceCrash
<1>6. CASE jobs' = jobs
  BY <1>1, <1>6
<1>7. CASE \/ EditStep \/ ClearCache \/ \E w \in Windows : Expire(w)
           \/ \E a \in Askers : Ask(a) \/ ReadDisables(a) \/ ReadPlace(a)
           \/ MaintenanceTick
  BY <1>6, <1>7, EditType
     DEF Edited, ClearCache, Expire, Ask, ReadDisables, ReadPlace, MaintenanceTick
<1> QED
  BY <1>2, <1>3, <1>4, <1>5, <1>6, <1>7, MaintenanceMoves

\* What an edit does to a row.
LEMMA EditRows ==
  ASSUME TypeOK, EditStep, NEW w \in Windows
  PROVE  \/ rows'[w] = rows[w]
         \/ rows'[w] = Deleted
         \/ /\ rows[w] = NoRow /\ rows'[w] \in Window
            /\ ~rows'[w].startTold
         \/ /\ rows[w] \in Window /\ rows'[w] \in Window
            /\ rows'[w].startTold = rows[w].startTold
            /\ rows'[w].endTold = rows[w].endTold
<1>1. rows \in [Windows -> Window \union {NoRow, Deleted}]
  BY DEF TypeOK, MaintenanceTypeOK
<1>2. PICK v \in Windows : \/ CreateWindow(v) \/ UpdateWindow(v) \/ DeleteWindow(v)
                          \/ DisableWindow(v) \/ EnableWindow(v)
  BY DEF EditStep
<1>3. CASE CreateWindow(v)
  <2>1. PICK p \in Schedules, active \in BOOLEAN :
          rows' = [rows EXCEPT ![v] = [plan |-> p, active |-> active,
                                       startTold |-> FALSE, endTold |-> FALSE]]
    BY <1>3 DEF CreateWindow
  <2>2. [plan |-> p, active |-> active, startTold |-> FALSE, endTold |-> FALSE] \in Window
    BY MaintenanceAssumption DEF Window
  <2> QED
    BY <1>1, <1>3, <2>1, <2>2 DEF CreateWindow
<1>4. CASE UpdateWindow(v)
  <2>1. rows[v] \in Window
    BY <1>1, <1>4 DEF UpdateWindow, Stored
  <2>2. PICK p \in Schedules \union {[rows[v].plan EXCEPT !.from = None, !.to = None]},
             active \in BOOLEAN :
          rows' = [rows EXCEPT ![v].plan = p, ![v].active = active]
    BY <1>4 DEF UpdateWindow
  <2>3. rows' = [rows EXCEPT ![v] = [rows[v] EXCEPT !.plan = p, !.active = active]]
    BY <1>1, <2>2
  <2>4. p \in Schedule
    <3>1. rows[v].plan \in Schedule
      BY <2>1 DEF Window
    <3> QED
      BY <2>2, <3>1, MaintenanceAssumption DEF Schedule
  <2>5. /\ [rows[v] EXCEPT !.plan = p, !.active = active] \in Window
        /\ [rows[v] EXCEPT !.plan = p, !.active = active].startTold = rows[v].startTold
        /\ [rows[v] EXCEPT !.plan = p, !.active = active].endTold = rows[v].endTold
    BY <2>1, <2>4 DEF Window
  <2> QED
    BY <1>1, <2>1, <2>3, <2>5
<1>5. CASE DeleteWindow(v) \/ DisableWindow(v) \/ EnableWindow(v)
  BY <1>1, <1>5 DEF DeleteWindow, DisableWindow, EnableWindow
<1> QED
  BY <1>2, <1>3, <1>4, <1>5

\* A step of the job or of the users, or of anything else, keeps the count.
LEMMA TransitionsStep ==
  ASSUME TypeOK, TransitionsInv, [Next]_vars
  PROVE  TransitionsInv'
<1> SUFFICES ASSUME NEW w \in Windows PROVE StartInv(w)' /\ EndInv(w)'
  BY IdleStep DEF TransitionsInv
<1>1. CASE rows'[w] = rows[w] /\ UNCHANGED <<jobs, announced, slack>>
  BY <1>1, RowsStep
<1>2. CASE EditStep
  BY <1>2, EditType, EditRows, RowsStep DEF Edited
<1>3. ASSUME NEW v \in Windows, Expire(v)
      PROVE  StartInv(w)' /\ EndInv(w)'
  <2>1. rows'[w] = rows[w] \/ rows'[w] = Deleted
    BY <1>3 DEF Expire, TypeOK, MaintenanceTypeOK
  <2> QED
    BY <1>3, <2>1, RowsStep DEF Expire
<1>4. ASSUME NEW j \in Jobs, StartJob(j) \/ Announce(j) \/ Mark(j)
      PROVE  StartInv(w)' /\ EndInv(w)'
  BY <1>4, StartJobStep, AnnounceStep, MarkStep
<1>5. ASSUME NEW j \in Jobs, EndJob(j)
      PROVE  StartInv(w)' /\ EndInv(w)'
  <2>1. /\ UNCHANGED <<rows, announced, slack>>
        /\ \A d \in Due : Doing(d)' = Doing(d) /\ Telling(d)' = Telling(d)
    BY <1>5, NothingAssumption DEF EndJob, Doing, Telling, NoJob, TypeOK, MaintenanceTypeOK
  <2>2. Untold(w)' = Untold(w) /\ (w \in Stored)' = (w \in Stored) /\ EndOpen(w)' = EndOpen(w)
    BY <2>1, Counts DEF Untold, Stored, EndOpen
  <2> QED
    BY <2>1, <2>2, Counts DEF TransitionsInv, StartInv, EndInv
<1>6. CASE MaintenanceCrash
  BY <1>6, CrashStep
<1>7. CASE \/ ClearCache
           \/ \E a \in Askers : Ask(a) \/ ReadDisables(a) \/ ReadPlace(a)
           \/ MaintenanceTick
  BY <1>1, <1>7 DEF ClearCache, Ask, ReadDisables, ReadPlace, MaintenanceTick
<1> QED
  BY <1>1, <1>2, <1>3, <1>4, <1>5, <1>6, <1>7, MaintenanceMoves

\* The count of announcements made, in hand and on the rows: the inductive invariant.
THEOREM TransitionsInvariant == Spec => []TransitionsInv
<1>1. Init => TransitionsInv
  <2> SUFFICES ASSUME Init PROVE TransitionsInv
    OBVIOUS
  <2>1. /\ \A j \in Jobs : jobs[j] = NoJob
        /\ \A w \in Windows : rows[w] = NoRow
        /\ \A d \in Due : announced[d] = 0
        /\ slack = 0
    BY DEF Init, MaintenanceInit
  <2>2. \A d \in Due : Doing(d) = {} /\ Telling(d) = {}
    BY <2>1, NothingAssumption DEF Doing, Telling, NoJob
  <2>3. ASSUME NEW w \in Windows
        PROVE  StartInv(w) /\ EndInv(w)
    <3>1. <<w, "start">> \in Due /\ <<w, "end">> \in Due /\ Cardinality({}) = 0
      BY FS_EmptySet DEF Due
    <3>2. ~EndOpen(w) /\ w \notin Stored
      BY <2>1 DEF EndOpen, Stored
    <3> QED
      BY <2>1, <2>2, <3>1, <3>2 DEF StartInv, EndInv
  <2> QED
    BY <2>1, <2>3 DEF TransitionsInv
<1>2. TypeOK /\ TransitionsInv /\ [Next]_vars => TransitionsInv'
  BY TransitionsStep
<1> QED
  BY <1>1, <1>2, TypeCorrect, PTL DEF Spec

\* checkMaintenanceTransitions announces a start once, and an end only after its start
\* and once, but for one more message for each crash and each run that overlaps.
THEOREM AnnouncedOnce == Spec => []TransitionsToldOnce
<1>1. TypeOK /\ TransitionsInv => TransitionsToldOnce
  <2> SUFFICES ASSUME TypeOK, TransitionsInv, NEW w \in Windows
               PROVE  /\ announced[<<w, "start">>] <= 1 + slack
                      /\ announced[<<w, "end">>] <= announced[<<w, "start">>] + slack
                      /\ announced[<<w, "end">>] > 0 => announced[<<w, "start">>] > 0
    BY DEF TransitionsToldOnce
  <2> DEFINE start == <<w, "start">>
             end == <<w, "end">>
  <2>1. StartInv(w) /\ EndInv(w)
    BY DEF TransitionsInv
  <2>2. announced[start] + Cardinality(Doing(start)) <= 1 + slack
    BY <2>1 DEF StartInv
  <2>3. announced[end] + Cardinality(Doing(end)) + Cardinality(Telling(start))
          <= announced[start] + slack
    BY <2>1, Counts DEF EndInv
  <2>4. announced[start] = 0 => announced[end] = 0
    BY <2>1 DEF EndInv
  <2>5. /\ announced[start] \in Nat /\ announced[end] \in Nat /\ slack \in Nat
        /\ \A d \in {start, end} : Cardinality(Doing(d)) \in Nat /\ Cardinality(Telling(d)) \in Nat
    BY Counts
  <2> QED
    BY <2>2, <2>3, <2>4, <2>5
<1> QED
  BY <1>1, TransitionsInvariant, TypeCorrect, PTL
-----------------------------------------------------------------------------
(***************************************************************************)
(* Answers.                                                                *)
(***************************************************************************)
\* The types the arithmetic of answers needs.
LEMMA AnswerTypes ==
  ASSUME TypeOK
  PROVE  /\ now \in Int /\ steady \in Nat /\ steady <= Stalest + 1
         /\ Stalest \in Nat /\ Stalest = CacheTtl + 1 /\ CacheTtl \in Nat
         /\ cache \in [value : BOOLEAN, at : Times] \union {None}
         /\ cache # None => cache.at \in Int
         /\ asks \in [Askers -> AskState] /\ \A a \in Askers : asks[a].at \in Int
         /\ rows \in [Windows -> Window \union {NoRow, Deleted}] /\ disabled \subseteq Windows
<1>1. /\ asks \in [Askers -> AskState] /\ steady \in 0 .. Stalest + 1
      /\ cache \in [value : BOOLEAN, at : Times] \union {None}
      /\ now \in Times
      /\ rows \in [Windows -> Window \union {NoRow, Deleted}] /\ disabled \subseteq Windows
  BY DEF TypeOK, MaintenanceTypeOK, ClockTypeOK, Times
<1>2. Times \subseteq Int /\ CacheTtl \in Nat
  BY ServerClockAssumption, MaintenanceAssumption DEF Times
<1>3. \A a \in Askers : asks[a].at \in Times
  BY <1>1 DEF AskState
<1>4. cache # None => cache.at \in Times
  BY <1>1
<1>5. Stalest = CacheTtl + 1 /\ Stalest \in Nat
  BY <1>2 DEF Stalest
<1>6. steady \in Nat /\ steady <= Stalest + 1 /\ now \in Int
  BY <1>1, <1>2, <1>5
<1>7. (cache # None => cache.at \in Int) /\ \A a \in Askers : asks[a].at \in Int
  BY <1>2, <1>3, <1>4
<1> QED
  BY <1>1, <1>2, <1>5, <1>6, <1>7

\* A step that changes no plan, no switch and no question asks nothing new of the
\* answers; it may only forget them.
LEMMA FrameStep ==
  ASSUME TypeOK, AnswersInv,
         UNCHANGED <<now, disabled, asks, steady>>,
         cache' \in {cache, None}, answered' \in {answered, None},
         Stored' = Stored,
         \A w \in Stored : /\ rows'[w].plan = rows[w].plan
                           /\ rows'[w].active = rows[w].active
  PROVE  AnswersInv'
<1>1. \A p, t : OpenIn(p, disabled, t)' = OpenIn(p, disabled, t)
  BY DEF OpenIn, ActiveAt
<1>2. Truth' = Truth
  BY <1>1 DEF Truth
<1>3. \A a \in Askers : Asked(a)' => QuestionInv(a)'
  BY <1>1, <1>2 DEF AnswersInv, QuestionInv, Asked
<1>4. CacheInv'
  BY <1>2 DEF AnswersInv, CacheInv
<1>5. AnswersFollowWindows'
  BY <1>2 DEF AnswersInv, AnswersFollowWindows
<1> QED
  BY <1>3, <1>4, <1>5 DEF AnswersInv

\* After an edit nothing has been steady.
LEMMA EditAnswers ==
  ASSUME TypeOK, AnswersInv, EditStep
  PROVE  AnswersInv'
<1>1. steady' = 0 /\ answered' = None /\ UNCHANGED <<now, cache, asks>>
  BY EditType DEF Edited
<1>2. ASSUME NEW a \in Askers, Asked(a)'
      PROVE  QuestionInv(a)'
  <2>1. asks[a].at \in {now - 1, now}
    BY <1>1, <1>2 DEF AnswersInv, QuestionInv, Asked
  <2>2. ~(steady' > now - asks[a].at)
    BY <1>1, <2>1, AnswerTypes
  <2> QED
    BY <1>1, <2>1, <2>2 DEF QuestionInv
<1>3. CacheInv'
  BY <1>1, AnswerTypes DEF AnswersInv, CacheInv
<1>4. AnswersFollowWindows'
  BY <1>1 DEF AnswersFollowWindows
<1> QED
  BY <1>2, <1>3, <1>4 DEF AnswersInv

\* A window that is long over covers nobody, for whoever asked since.
LEMMA ExpireAnswers ==
  ASSUME TypeOK, AnswersInv, NEW w \in Windows, Expire(w)
  PROVE  AnswersInv'
<1>1. /\ UNCHANGED <<now, cache, asks>> /\ answered' = None
      /\ w \in Stored /\ rows' = [rows EXCEPT ![w] = Deleted]
      /\ disabled' = disabled \ {w}
      /\ rows[w].plan.kind = "one_time" /\ rows[w].plan.to # None
      /\ rows[w].plan.to < now - Retention
  BY DEF Expire
<1>2. Stored' = Stored \ {w} /\ \A v \in Stored \ {w} : rows'[v] = rows[v]
  BY <1>1, AnswerTypes DEF Stored
<1>3. ASSUME NEW t \in {now - 1, now}
      PROVE  ~ActiveAt(rows[w], t)
  <2>1. rows[w].plan \in Schedule
    BY <1>1, AnswerTypes DEF Stored, Window
  <2>2. rows[w].plan.to \in Int
    BY <1>1, <2>1, ServerClockAssumption DEF Schedule, Times
  <2>3. ~(t <= rows[w].plan.to)
    BY <1>1, <2>2, AnswerTypes, MaintenanceAssumption
  <2> QED
    BY <1>1, <2>3 DEF ActiveAt
<1>4. ASSUME NEW t \in {now - 1, now}, NEW p
      PROVE  OpenIn(p, disabled, t)' = OpenIn(p, disabled, t)
  BY <1>1, <1>2, <1>3 DEF OpenIn
<1>5. Truth' = Truth
  BY <1>1, <1>4 DEF Truth
<1>6. steady' = steady
  <2>1. Steady(0)
    BY DEF Expire
  <2> QED
    BY <1>5, <2>1, AnswerTypes DEF Steady
<1>7. ASSUME NEW a \in Askers, Asked(a)'
      PROVE  QuestionInv(a)'
  <2>1. QuestionInv(a) /\ asks'[a] = asks[a]
    BY <1>1, <1>7 DEF AnswersInv, Asked
  <2> DEFINE at == asks[a].at
  <2>2. asks[a].at \in {now - 1, now}
    BY <2>1 DEF QuestionInv
  <2>3. \A p : OpenIn(p, disabled, asks[a].at)' = OpenIn(p, disabled, asks[a].at)
    BY <1>1, <1>4, <2>2
  <2>4. asks[a].off \intersect Stored = disabled \intersect Stored
          => asks[a].off \intersect Stored' = disabled' \intersect Stored'
    BY <1>1, <1>2
  <2>5. asks'[a].at \in {now' - 1, now'} /\ (steady' > now' - at => steady > now - at)
    BY <1>1, <1>6, <2>1, <2>2
  <2>6. ASSUME steady > now - at
        PROVE  /\ Truth' <=> \E p \in Places : OpenIn(p, disabled, at)' # {}
               /\ asks[a].phase # "disables"
                    => asks[a].off \intersect Stored' = disabled' \intersect Stored'
               /\ asks[a].phase \in {"group", "global"} => OpenIn("own", disabled, at)' = {}
               /\ asks[a].phase = "global" => OpenIn("group", disabled, at)' = {}
    BY <1>5, <2>1, <2>3, <2>4, <2>6 DEF QuestionInv
  <2> QED
    BY <2>1, <2>5, <2>6 DEF QuestionInv
<1>8. CacheInv'
  BY <1>1, <1>5, <1>6 DEF AnswersInv, CacheInv
<1>9. AnswersFollowWindows'
  BY <1>1 DEF AnswersFollowWindows
<1> QED
  BY <1>7, <1>8, <1>9 DEF AnswersInv

\* A question begins now, and a cached answer is given while it is fresh.
LEMMA AskAnswers ==
  ASSUME TypeOK, AnswersInv, NEW a \in Askers, Ask(a)
  PROVE  AnswersInv'
<1>1. UNCHANGED <<now, rows, disabled, steady>> /\ ~Asked(a)
  BY DEF Ask
<1>2. /\ \A p, t : OpenIn(p, disabled, t)' = OpenIn(p, disabled, t)
      /\ Truth' = Truth /\ Stored' = Stored
  BY <1>1 DEF OpenIn, Stored, Truth
<1>3. CASE Usable(cache)
  <2>1. answered' = [by |-> a, value |-> cache.value] /\ UNCHANGED <<cache, asks>>
    BY <1>3 DEF Ask, Answer
  <2>2. \A b \in Askers : Asked(b)' => QuestionInv(b)'
    BY <1>1, <1>2, <2>1 DEF AnswersInv, QuestionInv, Asked
  <2>3. CacheInv'
    BY <1>1, <1>2, <2>1 DEF AnswersInv, CacheInv
  <2>4. steady > Stalest => cache.value = Truth
    <3>1. cache # None /\ now - cache.at <= CacheTtl
      BY <1>3 DEF Usable
    <3>2. steady > Stalest => steady > now - cache.at + 1
      BY <3>1, AnswerTypes
    <3> QED
      BY <3>1, <3>2 DEF AnswersInv, CacheInv
  <2>5. AnswersFollowWindows'
    BY <1>1, <1>2, <2>1, <2>4 DEF AnswersFollowWindows, Stalest
  <2> QED
    BY <2>2, <2>3, <2>5 DEF AnswersInv
<1>4. CASE ~Usable(cache)
  <2>1. /\ cache' = None /\ answered' = None
        /\ asks' = [asks EXCEPT ![a] = [Idle EXCEPT !.phase = "disables", !.at = now]]
    BY <1>4 DEF Ask
  <2>2. asks'[a] = [Idle EXCEPT !.phase = "disables", !.at = now]
    BY <2>1, AnswerTypes
  <2>3. asks'[a].phase = "disables" /\ asks'[a].at = now
    BY <2>2 DEF Idle
  <2>4. QuestionInv(a)'
    BY <1>1, <1>2, <2>3 DEF QuestionInv, Truth
  <2>5. ASSUME NEW b \in Askers \ {a}, Asked(b)'
        PROVE  QuestionInv(b)'
    <3>1. asks'[b] = asks[b]
      BY <2>1, AnswerTypes
    <3>2. QuestionInv(b)
      BY <2>5, <3>1 DEF AnswersInv, Asked
    <3> QED
      BY <1>1, <1>2, <3>1, <3>2 DEF QuestionInv
  <2> QED
    BY <2>1, <2>4, <2>5 DEF AnswersInv, CacheInv, AnswersFollowWindows
<1> QED
  BY <1>3, <1>4

\* What a question reads of the switches is what they are now.
LEMMA ReadDisablesAnswers ==
  ASSUME TypeOK, AnswersInv, NEW a \in Askers, ReadDisables(a)
  PROVE  AnswersInv'
<1>1. /\ UNCHANGED <<now, rows, disabled, steady, cache>> /\ answered' = None
      /\ asks' = [asks EXCEPT ![a] = [asks[a] EXCEPT !.phase = "own", !.off = disabled]]
      /\ Asked(a)
  BY DEF ReadDisables, Asked
<1>2. /\ \A p, t : OpenIn(p, disabled, t)' = OpenIn(p, disabled, t)
      /\ Truth' = Truth /\ Stored' = Stored
  BY <1>1 DEF OpenIn, Stored, Truth
<1>3. QuestionInv(a)'
  <2>1. asks'[a].phase = "own" /\ asks'[a].off = disabled /\ asks'[a].at = asks[a].at
    BY <1>1, AnswerTypes DEF AskState
  <2>2. QuestionInv(a)
    BY <1>1 DEF AnswersInv
  <2> QED
    BY <1>1, <1>2, <2>1, <2>2 DEF QuestionInv
<1>4. ASSUME NEW b \in Askers \ {a}, Asked(b)'
      PROVE  QuestionInv(b)'
  <2>1. asks'[b] = asks[b]
    BY <1>1, AnswerTypes
  <2>2. QuestionInv(b)
    BY <1>4, <2>1 DEF AnswersInv, Asked
  <2> QED
    BY <1>1, <1>2, <2>1, <2>2 DEF QuestionInv
<1>5. CacheInv'
  BY <1>1, <1>2 DEF AnswersInv, CacheInv
<1> QED
  BY <1>1, <1>3, <1>4, <1>5 DEF AnswersInv, AnswersFollowWindows

\* The search through the places finds what it would find if it began now.
LEMMA ReadPlaceAnswers ==
  ASSUME TypeOK, AnswersInv, NEW a \in Askers, ReadPlace(a)
  PROVE  AnswersInv'
<1> DEFINE ask == asks[a]
           open == OpenIn(ask.phase, ask.off, ask.at) # {}
           next == IF ask.phase = "own" THEN "group" ELSE "global"
<1>1. UNCHANGED <<now, rows, disabled, steady>> /\ ask.phase \in Places
  BY DEF ReadPlace
<1>2. /\ \A p, t : OpenIn(p, disabled, t)' = OpenIn(p, disabled, t)
      /\ Truth' = Truth /\ Stored' = Stored
  BY <1>1 DEF OpenIn, Stored, Truth
<1>3. QuestionInv(a)
  BY <1>1 DEF AnswersInv, Asked, Places
<1>4. ask.at \in {now - 1, now}
  BY <1>3 DEF QuestionInv
<1>5. ASSUME steady > now - ask.at
      PROVE  /\ Truth <=> \E p \in Places : OpenIn(p, disabled, ask.at) # {}
             /\ \A p \in Places : OpenIn(p, ask.off, ask.at) = OpenIn(p, disabled, ask.at)
             /\ ask.phase \in {"group", "global"} => OpenIn("own", disabled, ask.at) = {}
             /\ ask.phase = "global" => OpenIn("group", disabled, ask.at) = {}
  <2>1. ask.off \intersect Stored = disabled \intersect Stored
    BY <1>1, <1>3, <1>5 DEF QuestionInv, Places
  <2>2. \A p \in Places : OpenIn(p, ask.off, ask.at) = OpenIn(p, disabled, ask.at)
    BY <2>1 DEF OpenIn
  <2> QED
    BY <1>3, <1>5, <2>2 DEF QuestionInv
<1>6. \A b \in Askers \ {a} : asks'[b] = asks[b]
  BY AnswerTypes DEF ReadPlace
<1>7. \A b \in Askers \ {a} : Asked(b)' => QuestionInv(b)'
  BY <1>1, <1>2, <1>6 DEF AnswersInv, QuestionInv, Asked
<1>8. CASE open \/ ask.phase = "global"
  <2>1. /\ asks' = [asks EXCEPT ![a] = Idle]
        /\ cache' = [value |-> open, at |-> now]
        /\ answered' = [by |-> a, value |-> open]
    BY <1>8 DEF ReadPlace, Answer
  <2>2. ~Asked(a)'
    BY <2>1, AnswerTypes DEF Asked, Idle
  <2>3. steady > now - ask.at => open = Truth
    <3>1. CASE open
      BY <1>1, <1>5, <3>1
    <3>2. CASE ~open
      <4>1. ask.phase = "global"
        BY <1>8, <3>2
      <4>2. ASSUME steady > now - ask.at
            PROVE  ~Truth
        <5>1. /\ OpenIn("own", disabled, ask.at) = {} /\ OpenIn("group", disabled, ask.at) = {}
              /\ OpenIn("global", ask.off, ask.at) = OpenIn("global", disabled, ask.at)
          BY <1>5, <4>1, <4>2 DEF Places
        <5>2. OpenIn("global", ask.off, ask.at) = {}
          BY <3>2, <4>1
        <5> QED
          BY <1>5, <4>2, <5>1, <5>2 DEF Places
      <4> QED
        BY <3>2, <4>2 DEF Truth
    <3> QED
      BY <3>1, <3>2
  <2>4. steady > 1 => open = Truth
    BY <1>4, <2>3, AnswerTypes
  <2> HIDE DEF open
  <2>5. CacheInv'
    <3>1. cache'.at = now /\ cache'.value = open
      BY <2>1
    <3> QED
      BY <1>1, <1>2, <2>4, <3>1, AnswerTypes DEF CacheInv
  <2>6. AnswersFollowWindows'
    <3>1. answered'.value = open
      BY <2>1
    <3>2. steady > Stalest => steady > 1
      BY AnswerTypes
    <3> QED
      BY <1>1, <1>2, <2>4, <3>1, <3>2 DEF AnswersFollowWindows, Stalest
  <2> QED
    BY <1>7, <2>2, <2>5, <2>6 DEF AnswersInv
<1>9. CASE ~(open \/ ask.phase = "global")
  <2>1. asks' = [asks EXCEPT ![a].phase = next] /\ cache' = cache /\ answered' = None
    BY <1>9 DEF ReadPlace
  <2>2. asks'[a].phase = next /\ asks'[a].off = ask.off /\ asks'[a].at = ask.at
    BY <2>1, AnswerTypes DEF AskState
  <2>3. /\ next # "disables" /\ (next \in {"group", "global"})
        /\ ask.phase = "own" \/ (ask.phase = "group" /\ next = "global")
        /\ ask.phase = "own" => next = "group"
    BY <1>1, <1>9 DEF Places
  <2>4. ASSUME steady > now - ask.at
        PROVE  /\ Truth <=> \E p \in Places : OpenIn(p, disabled, ask.at) # {}
               /\ ask.off \intersect Stored = disabled \intersect Stored
               /\ OpenIn("own", disabled, ask.at) = {}
               /\ next = "global" => OpenIn("group", disabled, ask.at) = {}
    <3>1. ask.off \intersect Stored = disabled \intersect Stored
      BY <1>1, <1>3, <2>4 DEF QuestionInv, Places
    <3>2. OpenIn(ask.phase, disabled, ask.at) = {}
      BY <1>1, <1>5, <1>9, <2>4
    <3> QED
      BY <1>5, <2>3, <2>4, <3>1, <3>2
  <2>5. QuestionInv(a)'
    BY <1>1, <1>2, <1>4, <2>2, <2>3, <2>4 DEF QuestionInv
  <2>6. CacheInv'
    BY <1>1, <1>2, <2>1 DEF AnswersInv, CacheInv
  <2> QED
    BY <1>7, <2>1, <2>5, <2>6 DEF AnswersInv, AnswersFollowWindows
<1> QED
  BY <1>8, <1>9

\* A tick makes every question and every cached answer one tick older, and what did
\* not change one tick steadier.
LEMMA TickAnswers ==
  ASSUME TypeOK, AnswersInv, MaintenanceTick, now' = now + 1
  PROVE  AnswersInv'
<1>1. /\ UNCHANGED <<rows, disabled, cache, asks>> /\ answered' = None /\ Steady(1)
      /\ \A a \in Askers : Asked(a) => asks[a].at = now
  BY DEF MaintenanceTick
<1>2. /\ \A p, t : OpenIn(p, disabled, t)' = OpenIn(p, disabled, t)
      /\ Stored' = Stored
  BY <1>1 DEF OpenIn, Stored
<1>3. \/ Truth' = Truth /\ steady' <= steady + 1 /\ steady' \in Nat
      \/ steady' = 0
  BY <1>1, AnswerTypes DEF Steady
<1>4. ASSUME NEW a \in Askers, Asked(a)'
      PROVE  QuestionInv(a)'
  <2>1. QuestionInv(a) /\ asks[a].at = now /\ asks'[a] = asks[a]
    BY <1>1, <1>4 DEF AnswersInv, Asked
  <2>2. asks'[a].at = now' - 1
    BY <2>1, AnswerTypes
  <2>3. steady' > now' - asks[a].at => Truth' = Truth /\ steady > now - asks[a].at
    BY <1>3, <2>1, AnswerTypes
  <2> QED
    BY <1>1, <1>2, <2>1, <2>2, <2>3 DEF QuestionInv
<1>5. CacheInv'
  <2>1. CASE cache = None
    BY <1>1, <2>1 DEF CacheInv
  <2>2. CASE cache # None
    <3>1. cache.at <= now /\ (steady > now - cache.at + 1 => cache.value = Truth)
      BY <2>2 DEF AnswersInv, CacheInv
    <3>2. cache.at \in Int /\ cache.at <= now'
      BY <2>2, <3>1, AnswerTypes
    <3>3. steady' > now' - cache.at + 1 => Truth' = Truth /\ steady > now - cache.at + 1
      BY <1>3, <3>1, <3>2, AnswerTypes
    <3> QED
      BY <1>1, <3>1, <3>2, <3>3 DEF CacheInv
  <2> QED
    BY <2>1, <2>2
<1> QED
  BY <1>1, <1>4, <1>5 DEF AnswersInv, AnswersFollowWindows

\* A step of the questions or of the users, or of anything else, keeps the answers right.
LEMMA AnswersStep ==
  ASSUME TypeOK, AnswersInv, [Next]_vars
  PROVE  AnswersInv'
<1>1. CASE \/ ClearCache
           \/ \E j \in Jobs : StartJob(j) \/ Announce(j) \/ EndJob(j)
           \/ /\ answered' \in {None, answered}
              /\ UNCHANGED <<now, rows, disabled, cache, unclear, asks, jobs, announced,
                             steady, slack>>
  <2>1. /\ UNCHANGED <<now, rows, disabled, asks, steady>>
        /\ cache' \in {cache, None} /\ answered' \in {answered, None}
    BY <1>1 DEF ClearCache, StartJob, Announce, EndJob
  <2>2. Stored' = Stored
    BY <2>1 DEF Stored
  <2> QED
    BY <2>1, <2>2, FrameStep
<1>2. ASSUME NEW j \in Jobs, Mark(j)
      PROVE  AnswersInv'
  <2> DEFINE v == jobs[j].marking[1]
             event == jobs[j].marking[2]
  <2>1. /\ UNCHANGED <<now, disabled, cache, asks, steady>> /\ answered' = None
        /\ rows' = rows \/ (v \in Stored /\ rows' = [rows EXCEPT ![v] = Marked(@, event)])
    BY <1>2 DEF Mark
  <2>2. ASSUME v \in Stored, rows' = [rows EXCEPT ![v] = Marked(@, event)]
        PROVE  /\ rows'[v] \in Window /\ rows'[v].plan = rows[v].plan
               /\ rows'[v].active = rows[v].active
               /\ \A u \in Windows \ {v} : rows'[u] = rows[u]
    <3>1. rows[v] \in Window /\ rows'[v] = Marked(rows[v], event)
      BY <2>2, AnswerTypes DEF Stored
    <3> HIDE DEF v, event
    <3>2. \A u \in Windows \ {v} : rows'[u] = rows[u]
      BY <2>2, AnswerTypes
    <3> QED
      BY <3>1, <3>2, MarkedType
  <2> HIDE DEF v, event
  <2>3. Stored' = Stored
    BY <2>1, <2>2, NothingAssumption DEF Stored
  <2>4. \A u \in Stored : rows'[u].plan = rows[u].plan /\ rows'[u].active = rows[u].active
    BY <2>1, <2>2 DEF Stored
  <2> QED
    BY <2>1, <2>3, <2>4, FrameStep
<1>3. CASE MaintenanceCrash
  BY <1>3 DEF MaintenanceCrash, AnswersInv, CacheInv, AnswersFollowWindows, Asked, Idle
<1>4. CASE EditStep \/ \E w \in Windows : Expire(w)
  BY <1>4, EditAnswers, ExpireAnswers
<1>5. CASE \E a \in Askers : Ask(a) \/ ReadDisables(a) \/ ReadPlace(a)
  BY <1>5, AskAnswers, ReadDisablesAnswers, ReadPlaceAnswers
<1>6. CASE MaintenanceTick /\ now' = now + 1
  BY <1>6, TickAnswers
<1> QED
  BY <1>1, <1>2, <1>3, <1>4, <1>5, <1>6, MaintenanceMoves

\* What questions have found and the cache holds: the inductive invariant.
THEOREM AnswersInvariant == Spec => []AnswersInv
<1>1. Init => AnswersInv
  BY DEF Init, MaintenanceInit, AnswersInv, CacheInv, AnswersFollowWindows, Asked, Idle
<1>2. TypeOK /\ AnswersInv /\ [Next]_vars => AnswersInv'
  BY AnswersStep
<1> QED
  BY <1>1, <1>2, TypeCorrect, PTL DEF Spec

\* Once nothing was edited, opened or closed for a cache lifetime and the length of a
\* question, every answer of isInMaintenance is right, whatever was interleaved before.
THEOREM AnswersRight == Spec => []AnswersFollowWindows
<1>1. AnswersInv => AnswersFollowWindows
  BY DEF AnswersInv
<1> QED
  BY <1>1, AnswersInvariant, PTL

-----------------------------------------------------------------------------
(***************************************************************************)
(* Proofs about LiveView, the tab that shows these alerts and the          *)
(* monitors: any tenants, monitors, alerts and memberships, any bound on   *)
(* requests, events and fetches, any faults.                               *)
(***************************************************************************)

\* Outdated keeps every event on its way, and only marks those about x.
LEMMA OutdatedEvents ==
  ASSUME wire \in Seq(Events), NEW x
  PROVE  /\ Outdated(x) \in Seq(Events) /\ Len(Outdated(x)) = Len(wire)
         /\ \A i \in 1 .. Len(wire) :
              /\ Outdated(x)[i].of = wire[i].of /\ Outdated(x)[i].kind = wire[i].kind
              /\ Outdated(x)[i].status = wire[i].status
              /\ Outdated(x)[i].alone = (wire[i].of # x /\ wire[i].alone)
<1> DEFINE o(i) == [wire[i] EXCEPT !.alone = wire[i].of # x /\ wire[i].alone]
<1>1. DOMAIN wire = 1 .. Len(wire) /\ Len(wire) \in Nat
  OBVIOUS
<1>2. ASSUME NEW i \in 1 .. Len(wire)
      PROVE  /\ o(i) \in Events
             /\ o(i).of = wire[i].of /\ o(i).kind = wire[i].kind /\ o(i).status = wire[i].status
             /\ o(i).alone = (wire[i].of # x /\ wire[i].alone)
  <2>1. wire[i] \in Events
    OBVIOUS
  <2> QED
    BY <2>1 DEF Events, About
<1>3. Outdated(x) = [i \in 1 .. Len(wire) |-> o(i)]
  BY <1>1 DEF Outdated
<1> HIDE DEF o
<1>4. Outdated(x) \in Seq(Events) /\ Len(Outdated(x)) = Len(wire)
  BY <1>1, <1>2, <1>3
<1> QED
  BY <1>1, <1>2, <1>3, <1>4

\* The same of the wire that a write nobody announces leaves behind.
LEMMA StaleEvents ==
  ASSUME wire \in Seq(Events), NEW x, wire' = Outdated(x)
  PROVE  /\ DOMAIN wire = 1 .. Len(wire) /\ DOMAIN wire' = 1 .. Len(wire) /\ Len(wire') = Len(wire)
         /\ \A i \in 1 .. Len(wire) :
              /\ wire'[i].of = wire[i].of /\ wire'[i].kind = wire[i].kind
              /\ wire'[i].status = wire[i].status
              /\ wire'[i].alone => wire[i].of # x /\ wire[i].alone
              /\ wire[i].of # x => wire'[i].alone = wire[i].alone
<1>1. wire' \in Seq(Events) /\ Len(wire') = Len(wire)
  BY OutdatedEvents
<1>2. DOMAIN wire = 1 .. Len(wire) /\ DOMAIN wire' = 1 .. Len(wire)
  BY <1>1
<1>3. \A i \in 1 .. Len(wire) : wire[i] \in Events
  BY <1>2
<1>4. \A i \in 1 .. Len(wire) : wire[i].alone \in BOOLEAN
  BY <1>3 DEF Events
<1>5. \A i \in 1 .. Len(wire) :
        /\ wire'[i].of = wire[i].of /\ wire'[i].kind = wire[i].kind
        /\ wire'[i].status = wire[i].status
        /\ wire'[i].alone = (wire[i].of # x /\ wire[i].alone)
  BY OutdatedEvents
<1> QED
  BY <1>1, <1>2, <1>4, <1>5

\* When the alerts are too many, the events on their way are all marked.
LEMMA UnsureEvents ==
  ASSUME wire \in Seq(Events)
  PROVE  /\ Unsure \in Seq(Events) /\ Len(Unsure) = Len(wire)
         /\ \A i \in 1 .. Len(wire) :
              /\ Unsure[i].of = wire[i].of /\ Unsure[i].kind = wire[i].kind
              /\ ~Unsure[i].alone
<1> DEFINE o(i) == [wire[i] EXCEPT !.alone = FALSE]
<1>1. DOMAIN wire = 1 .. Len(wire) /\ Len(wire) \in Nat
  OBVIOUS
<1>2. ASSUME NEW i \in 1 .. Len(wire)
      PROVE  o(i) \in Events /\ o(i).of = wire[i].of /\ o(i).kind = wire[i].kind /\ ~o(i).alone
  <2>1. wire[i] \in Events
    OBVIOUS
  <2> QED
    BY <2>1 DEF Events, About
<1>3. Unsure = [i \in 1 .. Len(wire) |-> o(i)]
  BY <1>1 DEF Unsure
<1> HIDE DEF o
<1>4. Unsure \in Seq(Events) /\ Len(Unsure) = Len(wire)
  BY <1>1, <1>2, <1>3
<1> QED
  BY <1>1, <1>2, <1>3, <1>4

\* An event that is sent comes last.
LEMMA AppendedEvents ==
  ASSUME wire \in Seq(Events), NEW e \in Events
  PROVE  /\ Append(wire, e) \in Seq(Events) /\ Len(Append(wire, e)) = Len(wire) + 1
         /\ \A i \in 1 .. Len(wire) : Append(wire, e)[i] = wire[i]
         /\ Append(wire, e)[Len(wire) + 1] = e
OBVIOUS

\* An event that is delivered was the first, and the others move up.
LEMMA DeliveredEvents ==
  ASSUME wire \in Seq(Events), wire # <<>>
  PROVE  /\ Head(wire) = wire[1] /\ Head(wire) \in Events
         /\ Tail(wire) \in Seq(Events) /\ Len(Tail(wire)) = Len(wire) - 1
         /\ \A i \in 1 .. Len(wire) - 1 : Tail(wire)[i] = wire[i + 1]
         /\ Len(wire) \in Nat \ {0}
BY SMT

\* A connection that is lost loses what was on its way.
LEMMA EmptyWire ==
  <<>> \in Seq(Events) /\ Len(<<>>) = 0 /\ Len(<<>>) <= MaxWire
BY WireAssumption

\* A page that loads shows no monitor.
LEMMA NothingShown == Nothing \in [Monitors -> Statuses]
BY DEF Nothing, Statuses

\* After an event that the stores do not get, no reply on its way is clean.
LEMMA MissedFetches ==
  ASSUME fetches \subseteq Fetches
  PROVE  Missed \subseteq Fetches /\ \A f \in Missed : f.clean => f.reply = Null
<1> SUFFICES ASSUME NEW f \in fetches
             PROVE  /\ [f EXCEPT !.clean = f.reply = Null] \in Fetches
                    /\ [f EXCEPT !.clean = f.reply = Null].clean = (f.reply = Null)
                    /\ [f EXCEPT !.clean = f.reply = Null].reply = f.reply
  BY DEF Missed
<1> QED
  BY DEF Fetches

\* A handler that begins only marks those it overlaps.
LEMMA HandlersWith ==
  ASSUME handlers \subseteq Handlers, NEW k \in Handlers
  PROVE  With(k) \subseteq Handlers
<1> SUFFICES ASSUME NEW h \in handlers
             PROVE  [h EXCEPT !.alone = FALSE] \in Handlers
  BY DEF With
<1> QED
  BY DEF Handlers, About

\* What a request or a beat begins is a handler.
LEMMA NewHandler ==
  ASSUME NEW kind \in {"heartbeat", "created", "deleted", "updated", "alert"},
         NEW of \in Monitors \cup Alerts, NEW new \in Statuses \cup {"new"},
         NEW at \in {"write", "emit"},
         About(Handler(kind, of, new, at)), at = "write" => kind = "heartbeat"
  PROVE  Handler(kind, of, new, at) \in Handlers
BY DEF Handler, Handlers

\* Types: emitting sends an event, or passes the tab by.
LEMMA EmittedTypes ==
  ASSUME ViewTypeOK, NEW e \in Events, Emit(e), topic' = topic
  PROVE  /\ wire' \in Seq(Events) /\ Len(wire') <= MaxWire
         /\ fetches' \subseteq Fetches' /\ excused' \in BOOLEAN
<1> USE DEF ViewTypeOK
<1>0. Fetches' = Fetches
  BY DEF Fetches, Replies
<1>1. CASE Reaches(e)
  BY <1>0, <1>1, AppendedEvents, WireAssumption DEF Emit
<1>2. CASE ~Reaches(e)
  <2>1. wire' = Outdated(e.of) /\ excused' = (excused \/ Concerns(e.of))
        /\ fetches' \in {fetches, Missed}
    BY <1>2 DEF Emit
  <2>2. excused' \in BOOLEAN
    BY <2>1
  <2>3. fetches' \subseteq Fetches
    BY <2>1, MissedFetches
  <2> QED
    BY <1>0, <2>1, <2>2, <2>3, OutdatedEvents
<1> QED
  BY <1>1, <1>2

\* Types: a beat begins.
LEMMA BeatTypes ==
  ASSUME ViewTypeOK, NEW m \in Monitors, BeginBeat(m)
  PROVE  ViewTypeOK'
<1>1. PICK new \in Results(m) :
        /\ handlers' = With(Handler("heartbeat", m, new, "write"))
        /\ \/ Emit(Event("change", Handler("heartbeat", m, new, "write")))
           \/ UNCHANGED <<wire, fetches, excused>>
  BY DEF BeginBeat
<1> DEFINE h == Handler("heartbeat", m, new, "write")
<1>2. h \in Handlers /\ h.kind = "heartbeat"
  BY NewHandler DEF Results, Statuses, Active, About, Handler
<1>3. Event("change", h) \in Events
  BY <1>2 DEF Event, Events, Handlers, About
<1> HIDE DEF h
<1>4. handlers' \subseteq Handlers /\ topic' = topic /\ Fetches' = Fetches
  BY <1>1, <1>2, HandlersWith DEF ViewTypeOK, BeginBeat, user, h, Fetches, Replies
<1>5. /\ wire' \in Seq(Events) /\ Len(wire') <= MaxWire
      /\ fetches' \subseteq Fetches' /\ excused' \in BOOLEAN
  <2>1. CASE Emit(Event("change", h))
    BY <1>3, <1>4, <2>1, EmittedTypes
  <2>2. CASE UNCHANGED <<wire, fetches, excused>>
    BY <1>4, <2>2 DEF ViewTypeOK
  <2> QED
    BY <1>1, <2>1, <2>2 DEF h
<1> QED
  BY <1>4, <1>5 DEF ViewTypeOK, BeginBeat, user, stores

\* Types: an agent pushes.
LEMMA PushTypes ==
  ASSUME ViewTypeOK, NEW m \in Monitors, Push(m)
  PROVE  ViewTypeOK'
<1>1. PICK new \in {"up", "alert"} :
        LET h == [Handler("push", m, new, "write") EXCEPT !.alone = FALSE]
        IN  /\ handlers' = With(h) \cup {[h EXCEPT !.status = "up", !.at = "emit"]}
            /\ Emit(Event("push", h))
  BY DEF Push
<1> DEFINE h == [Handler("push", m, new, "write") EXCEPT !.alone = FALSE]
<1>2. h \in Handlers /\ h.kind = "push"
  BY DEF Statuses, Active, About, Handler, Handlers
<1>3. Event("push", h) \in Events
  BY <1>2 DEF Event, Events, Handlers, About
<1>4. [h EXCEPT !.status = "up", !.at = "emit"] \in Handlers
  BY <1>2 DEF Handlers, About, Statuses, Active
<1>5. handlers' = With(h) \cup {[h EXCEPT !.status = "up", !.at = "emit"]} /\ Emit(Event("push", h))
  BY <1>1
<1> HIDE DEF h
<1>6. handlers' \subseteq Handlers /\ topic' = topic /\ Fetches' = Fetches
  BY <1>2, <1>4, <1>5, HandlersWith DEF ViewTypeOK, Push, user, Fetches, Replies
<1>7. /\ wire' \in Seq(Events) /\ Len(wire') <= MaxWire
      /\ fetches' \subseteq Fetches' /\ excused' \in BOOLEAN
  BY <1>3, <1>5, <1>6, EmittedTypes
<1> QED
  BY <1>6, <1>7 DEF ViewTypeOK, Push, user, stores

\* What a handler emits is an event about what it is about.
LEMMA CarriedEvents ==
  ASSUME ViewTypeOK, NEW h \in handlers, NEW s \in Carried(h)
  PROVE  /\ [Event(h.kind, h) EXCEPT !.status = s] \in Events
         /\ [Event(h.kind, h) EXCEPT !.status = s].of = h.of
         /\ [Event(h.kind, h) EXCEPT !.status = s].kind = h.kind
         /\ [Event(h.kind, h) EXCEPT !.status = s].status = s
         /\ [Event(h.kind, h) EXCEPT !.status = s].alone = h.alone
<1>1. h \in Handlers
  BY DEF ViewTypeOK
<1>2. s = h.status \/ (h.of \in Monitors /\ s \in Statuses)
  <2>1. CASE h.kind = "heartbeat" \/ h.kind = "created"
    <3>1. h.of \in Monitors /\ status[h.of] \in Statuses
      BY <1>1, <2>1 DEF Handlers, About, ViewTypeOK
    <3> QED
      BY <3>1 DEF Carried, Statuses, Active
  <2>2. CASE ~(h.kind = "heartbeat" \/ h.kind = "created")
    BY <2>2 DEF Carried
  <2> QED
    BY <2>1, <2>2
<1> QED
  BY <1>1, <1>2 DEF Event, Events, Handlers, About

\* Types: a handler writes or emits.
LEMMA ServeTypes ==
  ASSUME ViewTypeOK, NEW h \in handlers, Serve(h)
  PROVE  ViewTypeOK'
<1>0. h \in Handlers
  BY DEF ViewTypeOK
<1>1. CASE WriteBeat(h)
  <2>1. [h EXCEPT !.at = "emit"] \in Handlers
    BY <1>0 DEF Handlers, About
  <2>2. handlers' \subseteq Handlers
    BY <1>1, <2>1 DEF WriteBeat, ViewTypeOK
  <2>3. status' \in [Monitors -> Statuses]
    BY <1>0, <1>1 DEF WriteBeat, ViewTypeOK, Handlers, About
  <2> QED
    BY <1>1, <2>2, <2>3 DEF WriteBeat, ViewTypeOK, user, link, stores, Fetches, Replies
<1>2. CASE EmitFor(h)
  <2>1. PICK s \in Carried(h) : Emit([Event(h.kind, h) EXCEPT !.status = s])
    BY <1>2 DEF EmitFor
  <2> DEFINE e == [Event(h.kind, h) EXCEPT !.status = s]
  <2>2. e \in Events
    BY CarriedEvents
  <2>3. Emit(e) /\ topic' = topic /\ handlers' \subseteq Handlers
    BY <1>2, <2>1 DEF EmitFor, user, ViewTypeOK
  <2> HIDE DEF e
  <2>4. /\ wire' \in Seq(Events) /\ Len(wire') <= MaxWire
        /\ fetches' \subseteq Fetches' /\ excused' \in BOOLEAN
    BY <2>2, <2>3, EmittedTypes
  <2> QED
    BY <1>2, <2>3, <2>4 DEF EmitFor, ViewTypeOK, user, stores
<1>3. CASE SkipWrite(h)
  <2>1. [h EXCEPT !.at = "emit", !.alone = FALSE] \in Handlers
    BY <1>0 DEF Handlers, About
  <2>2. handlers' \subseteq Handlers
    BY <1>3, <2>1 DEF SkipWrite, ViewTypeOK
  <2>3. /\ UNCHANGED <<status, table, session, page, fetches, excused>>
        /\ UNCHANGED user /\ UNCHANGED link /\ UNCHANGED stores
    BY <1>3 DEF SkipWrite
  <2>4. Fetches' = Fetches
    BY <2>3 DEF user, Fetches, Replies
  <2>5. UNCHANGED <<admin, topic, faults, pinned, socket, wire, heard, store, bell, removed>>
    BY <2>3 DEF user, link, stores
  <2> QED
    BY <2>2, <2>3, <2>4, <2>5, SMTT(30) DEF ViewTypeOK
<1>4. CASE WritePush(h)
  <2>1. ASSUME NEW k \in handlers
        PROVE  [k EXCEPT !.alone = k.of # h.of /\ k.alone] \in Handlers
    BY <2>1 DEF ViewTypeOK, Handlers, About
  <2>2. handlers' \subseteq Handlers
    BY <1>4, <2>1 DEF WritePush
  <2>3. fetches' \subseteq Fetches /\ Fetches' = Fetches
    BY <1>4, MissedFetches DEF WritePush, ViewTypeOK, user, Fetches, Replies
  <2>4. wire' \in Seq(Events) /\ Len(wire') <= MaxWire
    BY <1>4, OutdatedEvents DEF WritePush, ViewTypeOK
  <2>5. status' \in [Monitors -> Statuses]
    BY <1>0, <1>4 DEF WritePush, ViewTypeOK, Handlers, About
  <2> QED
    BY <1>4, <2>2, <2>3, <2>4, <2>5 DEF WritePush, ViewTypeOK, user, stores
<1>5. CASE Fail(h)
  <2>1. fetches' \subseteq Fetches /\ Fetches' = Fetches
    BY <1>5, MissedFetches DEF Fail, ViewTypeOK, user, Fetches, Replies
  <2>2. wire' \in Seq(Events) /\ Len(wire') <= MaxWire
    BY <1>5, OutdatedEvents DEF Fail, ViewTypeOK
  <2>3. excused' \in BOOLEAN /\ handlers' \subseteq Handlers
    BY <1>5 DEF Fail, ViewTypeOK
  <2> QED
    BY <1>5, <2>1, <2>2, <2>3 DEF Fail, ViewTypeOK, user, stores
<1> QED
  BY <1>1, <1>2, <1>3, <1>4, <1>5 DEF Serve

\* Types: the monitor API's requests, and the writes that emit nothing.
LEMMA RequestTypes ==
  ASSUME ViewTypeOK, NEW m \in Monitors, Request(m) \/ WriteQuietly(m)
  PROVE  ViewTypeOK'
<1>1. ASSUME NEW kind \in {"created", "deleted", "updated"}, NEW new \in Statuses, Write(kind, m, new)
      PROVE  ViewTypeOK'
  <2>1. Handler(kind, m, new, "emit") \in Handlers
    BY NewHandler DEF About, Handler
  <2>2. handlers' \subseteq Handlers
    BY <1>1, <2>1, HandlersWith DEF Write, ViewTypeOK
  <2> QED
    BY <1>1, <2>2 DEF Write, ViewTypeOK, user, link, stores, Fetches, Replies
<1>2. CASE Request(m)
  BY <1>1, <1>2 DEF Request, Create, Delete, Pause, Update, Statuses, Active, ViewTypeOK
<1>3. CASE WriteQuietly(m)
  <2>1. ASSUME NEW h \in handlers
        PROVE  [h EXCEPT !.alone = h.of # m /\ h.alone] \in Handlers
    BY <2>1 DEF ViewTypeOK, Handlers, About
  <2>2. handlers' \subseteq Handlers
    BY <1>3, <2>1 DEF WriteQuietly
  <2>3. fetches' \subseteq Fetches /\ Fetches' = Fetches
    BY <1>3, MissedFetches DEF WriteQuietly, ViewTypeOK, user, Fetches, Replies
  <2>4. wire' \in Seq(Events) /\ Len(wire') <= MaxWire
    BY <1>3, OutdatedEvents DEF WriteQuietly, ViewTypeOK
  <2>5. status' \in [Monitors -> Statuses]
    BY <1>3 DEF WriteQuietly, ViewTypeOK, Statuses, Active
  <2> QED
    BY <1>3, <2>2, <2>3, <2>4, <2>5 DEF WriteQuietly, ViewTypeOK, user, stores
<1> QED
  BY <1>2, <1>3

\* Types: alerts are added, trimmed and removed in the tab.
LEMMA AlertTypes ==
  ASSUME ViewTypeOK, NEW a \in Alerts, Post(a) \/ Discard(a) \/ RemoveAlert(a)
  PROVE  ViewTypeOK'
<1>1. CASE Post(a)
  <2>1. Handler("alert", a, "new", "emit") \in Handlers
    BY NewHandler DEF About, Handler
  <2> DEFINE h == Handler("alert", a, "new", "emit")
  <2>2. With(h) \subseteq Handlers
    BY <2>1, HandlersWith DEF ViewTypeOK
  <2> HIDE DEF h
  <2>3. table' \subseteq Alerts /\ topic' = topic /\ Fetches' = Fetches
    BY <1>1 DEF Post, Trimmed, ViewTypeOK, user, Fetches, Replies
  <2>4. CASE Crowded(a)
    <3>1. handlers' = {[k EXCEPT !.alone = FALSE] : k \in With(h)}
      BY <1>1, <2>4 DEF Post, h
    <3>2. ASSUME NEW k \in With(h) PROVE [k EXCEPT !.alone = FALSE] \in Handlers
      BY <2>2 DEF Handlers, About
    <3>3. handlers' \subseteq Handlers
      BY <3>1, <3>2
    <3>4. wire' = Unsure /\ excused' = TRUE /\ fetches' = Missed
      BY <1>1, <2>4 DEF Post, Unsure
    <3>5. wire' \in Seq(Events) /\ Len(wire') <= MaxWire /\ fetches' \subseteq Fetches
      BY <3>4, UnsureEvents, MissedFetches DEF ViewTypeOK
    <3> QED
      BY <1>1, <2>3, <3>3, <3>4, <3>5 DEF Post, ViewTypeOK, user, stores
  <2>5. CASE ~Crowded(a)
    <3>1. handlers' = With(h) /\ UNCHANGED <<wire, fetches, excused>>
      BY <1>1, <2>5 DEF Post, h
    <3> QED
      BY <1>1, <2>2, <2>3, <3>1 DEF Post, ViewTypeOK, user, stores
  <2> QED
    BY <2>4, <2>5
<1>2. CASE Discard(a)
  <2>1. fetches' \subseteq Fetches /\ Fetches' = Fetches
    BY <1>2, MissedFetches DEF Discard, ViewTypeOK, user, Fetches, Replies
  <2>2. wire' \in Seq(Events) /\ Len(wire') <= MaxWire
    BY <1>2, OutdatedEvents DEF Discard, ViewTypeOK
  <2> QED
    BY <1>2, <2>1, <2>2 DEF Discard, ViewTypeOK, user, stores
<1>3. CASE RemoveAlert(a)
  BY <1>3 DEF RemoveAlert, ViewTypeOK, server, user, link, Fetches, Replies
<1> QED
  BY <1>1, <1>2, <1>3

\* Types: the socket connects, is lost and delivers.
LEMMA LinkTypes ==
  ASSUME ViewTypeOK, Connect \/ JoinNotifications \/ Drop \/ Deliver
  PROVE  ViewTypeOK'
<1>0. Missed \subseteq Fetches
  BY MissedFetches DEF ViewTypeOK
<1>1. CASE Connect \/ JoinNotifications
  BY <1>1 DEF Connect, JoinNotifications, ViewTypeOK, server, user, stores, Fetches, Replies
<1>2. CASE Drop
  <2>1. socket' \in [tenant : Tenants, open : BOOLEAN, alerts : BOOLEAN] \/ socket' = Null
    BY <1>2 DEF Drop, Connected, ViewTypeOK
  <2>2. wire' \in Seq(Events) /\ Len(wire') <= MaxWire
    BY <1>2, EmptyWire DEF Drop
  <2> QED
    BY <1>0, <1>2, <2>1, <2>2 DEF Drop, ViewTypeOK, server, user, stores, Fetches, Replies
<1>3. CASE Deliver
  <2>1. Head(wire) \in Events /\ Tail(wire) \in Seq(Events) /\ Len(Tail(wire)) <= MaxWire
    BY <1>3, DeliveredEvents, WireAssumption DEF Deliver, ViewTypeOK
  <2>2. Changed(Head(wire)) \in [Monitors -> Statuses]
    BY <2>1 DEF Changed, ViewTypeOK, Events, About, Statuses
  <2>3. Head(wire).kind = "alert" => Head(wire).of \in Alerts
    BY <2>1 DEF Events, About
  <2>4. store' \in [Monitors -> Statuses]
    BY <1>3, <2>2 DEF Deliver, ViewTypeOK
  <2>6. bell' \subseteq Alerts
    <3>1. CASE heard /\ Head(wire).kind = "alert"
      <4>1. bell' \in Inserted(Head(wire).of)
        BY <1>3, <3>1 DEF Deliver
      <4> QED
        BY <2>3, <3>1, <4>1 DEF Inserted, ViewTypeOK
    <3>2. CASE ~(heard /\ Head(wire).kind = "alert")
      BY <1>3, <3>2 DEF Deliver, ViewTypeOK
    <3> QED
      BY <3>1, <3>2
  <2>5. excused' \in BOOLEAN
    BY <1>3 DEF Deliver
  <2> QED
    BY <1>0, <1>3, <2>1, <2>4, <2>5, <2>6
    DEF Deliver, ViewTypeOK, server, user, Fetches, Replies
<1> QED
  BY <1>1, <1>2, <1>3

\* A session begins in a tenant.
LEMMA FirstTenantExists == FirstTenant \in Tenants
BY TenantAssumption DEF FirstTenant

\* Types: a load of the page.
LEMMA LoadTypes ==
  ASSUME ViewTypeOK, Loads, UNCHANGED <<server, user>>, session' \in Tenants \cup {Null}
  PROVE  ViewTypeOK'
<1>1. wire' \in Seq(Events) /\ Len(wire') <= MaxWire /\ store' \in [Monitors -> Statuses]
  BY EmptyWire, NothingShown DEF Loads
<1> QED
  BY <1>1 DEF Loads, ViewTypeOK, server, user

\* Types: what the tab does.
LEMMA TabTypes ==
  ASSUME ViewTypeOK,
         \/ Reload \/ CheckSession \/ LogIn \/ LogOut \/ FetchAgain
         \/ \E f \in fetches : Reply(f) \/ Apply(f)
         \/ Switch \/ SwitchFails \/ OtherTab
  PROVE  ViewTypeOK'
<1>0. Missed \subseteq Fetches /\ New \in Fetches /\ (topic' = topic => Fetches' = Fetches)
  BY MissedFetches DEF ViewTypeOK, New, Fetches, Replies
<1>1. CASE Reload
  BY <1>1, LoadTypes DEF Reload, server, user, ViewTypeOK
<1>2. CASE CheckSession
  <2>1. CASE session = Null
    BY <1>0, <1>2, <2>1 DEF CheckSession, ViewTypeOK, server, user, link, stores
  <2>2. CASE session # Null
    <3>1. Connected(session) \in [tenant : Tenants, open : BOOLEAN, alerts : BOOLEAN]
      BY <2>2 DEF Connected, ViewTypeOK
    <3>2. fetches' \subseteq Fetches /\ Fetches' = Fetches
      BY <1>0, <1>2, <2>2 DEF CheckSession, ViewTypeOK, user
    <3> QED
      BY <1>2, <2>2, <3>1, <3>2 DEF CheckSession, Shows, ViewTypeOK, server, user, stores
  <2> QED
    BY <2>1, <2>2
<1>3. CASE LogIn
  BY <1>0, <1>3, FirstTenantExists, TenantAssumption
  DEF LogIn, Shows, Connected, ViewTypeOK, server, user, stores
<1>4. CASE LogOut
  BY <1>0, <1>4, EmptyWire DEF LogOut, ViewTypeOK, server, user, stores
<1>5. CASE FetchAgain
  BY <1>0, <1>5 DEF FetchAgain, ViewTypeOK, server, user, link, stores
<1>6. ASSUME NEW f \in fetches, Reply(f) PROVE ViewTypeOK'
  <2>1. CASE session # Null
    <3>1. Visible \in Replies
      BY DEF Visible, ToList, Replies, Latest, Ours, ViewTypeOK, Statuses
    <3>2. [f EXCEPT !.reply = Visible] \in Fetches
      BY <3>1 DEF ViewTypeOK, Fetches
    <3> QED
      BY <1>0, <1>6, <2>1, <3>2 DEF Reply, ViewTypeOK, server, user, link, stores
  <2>2. CASE session = Null /\ page = "app"
    BY <1>6, <2>2, LoadTypes DEF Reply, server, user, ViewTypeOK
  <2>3. CASE session = Null /\ page # "app"
    BY <1>0, <1>6, <2>3 DEF Reply, ViewTypeOK, server, user, link, stores
  <2> QED
    BY <2>1, <2>2, <2>3
<1>7. ASSUME NEW f \in fetches, Apply(f) PROVE ViewTypeOK'
  <2>1. f.reply \in Replies /\ f.clean \in BOOLEAN
    BY <1>7 DEF Apply, ViewTypeOK, Fetches
  <2> QED
    BY <1>0, <1>7, <2>1 DEF Apply, ViewTypeOK, Replies, server, user, link
<1>8. CASE Switch
  BY <1>8, LoadTypes, TenantAssumption DEF Switch, MayEnter, server, user, ViewTypeOK
<1>9. CASE SwitchFails
  <2>1. socket' \in [tenant : Tenants, open : BOOLEAN, alerts : BOOLEAN]
    BY <1>9, TenantAssumption DEF SwitchFails, MayEnter, Connected
  <2>2. wire' \in Seq(Events) /\ Len(wire') <= MaxWire
    BY <1>9, EmptyWire DEF SwitchFails
  <2>3. excused' \in BOOLEAN
    BY <1>9 DEF SwitchFails
  <2> QED
    BY <1>0, <1>9, <2>1, <2>2, <2>3 DEF SwitchFails, ViewTypeOK, server, user, stores
<1>10. CASE OtherTab
  BY <1>0, <1>10, FirstTenantExists, TenantAssumption
  DEF OtherTab, MayEnter, ViewTypeOK, server, user, link, stores
<1> QED
  BY <1>1, <1>2, <1>3, <1>4, <1>5, <1>6, <1>7, <1>8, <1>9, <1>10

\* Every step keeps the types.
LEMMA ViewTypesKept == ViewTypeOK /\ [ViewNext]_viewVars => ViewTypeOK'
<1> SUFFICES ASSUME ViewTypeOK, [ViewNext]_viewVars PROVE ViewTypeOK'
  OBVIOUS
<1>1. CASE ViewNext
  BY <1>1, BeatTypes, PushTypes, ServeTypes, RequestTypes, AlertTypes, LinkTypes, TabTypes DEF ViewNext
<1>2. CASE UNCHANGED viewVars
  BY <1>2 DEF viewVars, server, user, link, stores, ViewTypeOK, Fetches, Replies
<1> QED
  BY <1>1, <1>2

\* Every variable of the tab's model has its type, the wire its bound included.
THEOREM ViewTypeCorrect == ViewSpec => []ViewTypeOK
<1>1. ViewInit => ViewTypeOK
  <2>1. ASSUME ViewInit
        PROVE  /\ wire \in Seq(Events) /\ Len(wire) <= MaxWire
               /\ store \in [Monitors -> Statuses] /\ status \in [Monitors -> Statuses]
    BY <2>1, EmptyWire, NothingShown DEF ViewInit, Statuses, Active
  <2> QED
    BY <2>1 DEF ViewInit, ViewTypeOK
<1> QED
  BY <1>1, ViewTypesKept, PTL DEF ViewSpec

\* Marking the events on their way changes none of the alerts they are about.
LEMMA StillComing ==
  ASSUME wire \in Seq(Events), NEW y, wire' = wire \/ wire' = Outdated(y)
  PROVE  \A x : Coming(x)' = Coming(x)
BY OutdatedEvents DEF Coming

\* An event that is sent is one more on its way.
LEMMA SentEvents ==
  ASSUME wire \in Seq(Events), NEW e \in Events, wire' = Append(wire, e)
  PROVE  \A x : Coming(x)' = IF e.of = x THEN Coming(x) \cup {Len(wire) + 1} ELSE Coming(x)
BY AppendedEvents DEF Coming

\* A delivery takes only the first event off the wire.
LEMMA LeftComing ==
  ASSUME wire \in Seq(Events), wire # <<>>, wire' = Tail(wire)
  PROVE  \A x : Coming(x) # {} /\ wire[1].of # x => Coming(x)' # {}
<1> SUFFICES ASSUME NEW x, NEW i \in Coming(x), wire[1].of # x PROVE Coming(x)' # {}
  OBVIOUS
<1>1. i \in 1 .. Len(wire) /\ wire[i].of = x /\ i # 1
  BY DEF Coming
<1>2. i - 1 \in 1 .. Len(wire') /\ wire'[i - 1] = wire[i] /\ DOMAIN wire' = 1 .. Len(wire')
  BY <1>1, DeliveredEvents
<1> QED
  BY <1>1, <1>2 DEF Coming

\* Of as many alerts as can be listed, none is too old.
LEMMA AllListed ==
  ASSUME NEW S \in SUBSET Alerts, Cardinality(S) <= MaxListed, NEW T \in SUBSET S
  PROVE  Latest(T) = T
<1> SUFFICES ASSUME NEW a \in T PROVE Cardinality({b \in T : b > a}) < MaxListed
  BY DEF Latest
<1>1. IsFiniteSet(S) /\ a \in S /\ a \in Nat
  BY BellAssumption, FS_Subset
<1>2. {b \in T : b > a} \subseteq S \ {a}
  <2>1. ~(a > a)
    BY <1>1
  <2> QED
    BY <2>1
<1>3. IsFiniteSet(S \ {a}) /\ Cardinality(S \ {a}) = Cardinality(S) - 1
  BY <1>1, FS_RemoveElement
<1>4. /\ Cardinality({b \in T : b > a}) <= Cardinality(S) - 1
      /\ Cardinality({b \in T : b > a}) \in Nat /\ Cardinality(S) \in Nat
  BY <1>1, <1>2, <1>3, FS_Subset, FS_CardinalityType
<1> QED
  BY <1>4, BellAssumption

\* One that is not too old stays so when another is removed.
LEMMA LatestKept ==
  ASSUME NEW S \in SUBSET Alerts, NEW a, NEW b \in Latest(S), b # a
  PROVE  b \in Latest(S \ {a})
<1> DEFINE newer(T) == {c \in T : c > b}
<1>1. IsFiniteSet(newer(S)) /\ newer(S \ {a}) \subseteq newer(S)
  BY BellAssumption, FS_Subset
<1>2. /\ Cardinality(newer(S \ {a})) <= Cardinality(newer(S))
      /\ Cardinality(newer(S \ {a})) \in Nat /\ Cardinality(newer(S)) \in Nat
  BY <1>1, FS_Subset, FS_CardinalityType
<1> QED
  BY <1>2, BellAssumption DEF Latest

\* A new alert joins those to be listed, when they are not too many.
LEMMA ListedPost ==
  ASSUME ViewTypeOK, NEW a \in Alerts, table' = Trimmed(a), ~Crowded(a)
  PROVE  ToList' = IF Home[a] \in Member THEN ToList \cup {a} ELSE ToList
<1>1. table \subseteq Alerts
  BY DEF ViewTypeOK
<1>2. CASE Home[a] \in Member
  <2> DEFINE S == Ours(table \cup {a})
             T == {c \in table \cup {a} : Home[c] = Home[a]}
  <2>1. IsFiniteSet(S) /\ Cardinality(S) <= MaxListed
    <3>1. S \subseteq Alerts
      BY <1>1 DEF Ours
    <3>2. IsFiniteSet(S) /\ Cardinality(S) \in Nat
      BY <3>1, BellAssumption, FS_Subset, FS_CardinalityType
    <3> QED
      BY <1>2, <3>2, BellAssumption DEF Crowded
  <2>2. S \in SUBSET Alerts /\ T \in SUBSET S /\ Ours(table) \in SUBSET S
    BY <1>1, <1>2 DEF Ours
  <2> HIDE DEF S, T
  <2>3. Latest(T) = T /\ Latest(S) = S /\ Latest(Ours(table)) = Ours(table)
    BY <2>1, <2>2, AllListed
  <2>4. table' = table \cup {a}
    BY <2>3 DEF Trimmed, T
  <2>5. Ours(table)' = S /\ S = Ours(table) \cup {a}
    BY <1>2, <2>4 DEF S, Ours
  <2>6. Latest(Ours(table))' = Latest(S)
    BY <2>5 DEF Latest
  <2> QED
    BY <1>2, <2>3, <2>5, <2>6 DEF ToList
<1>3. CASE Home[a] \notin Member
  <2>1. Ours(table)' = Ours(table)
    BY <1>3 DEF Ours, Trimmed
  <2>2. Latest(Ours(table))' = Latest(Ours(table))
    BY <2>1 DEF Latest
  <2> QED
    BY <1>3, <2>2 DEF ToList
<1> QED
  BY <1>2, <1>3

\* A tab that something has passed by promises nothing.
LEMMA DirtyBell ==
  ASSUME excused', \A f \in fetches' : f.clean => f.reply = Null
  PROVE  BellShown'
BY DEF BellShown

\* An alert that is added is on its way, as its handler; when they are too many, the bell
\* is excused.
LEMMA BellPost ==
  ASSUME ViewTypeOK, AlertsKnown, BellShown, NEW a \in Alerts, Post(a)
  PROVE  (AlertsKnown /\ BellShown)'
<1> DEFINE h == Handler("alert", a, "new", "emit")
<1>0. h.kind = "alert" /\ h.of = a /\ With(h) = handlers \cup {h} /\ a \notin On(a)
  BY DEF Post, With, On, Handler
<1>1. table' = Trimmed(a) /\ UNCHANGED <<session, bell, removed>>
  BY DEF Post, stores
<1>2. CASE Crowded(a)
  <2>1. handlers' = {[k EXCEPT !.alone = FALSE] : k \in With(h)}
        /\ wire' = Unsure /\ excused' /\ fetches' = Missed
    BY <1>2 DEF Post
  <2> HIDE DEF h
  <2>2. ASSUME NEW k \in With(h)
        PROVE  [k EXCEPT !.alone = FALSE].kind = "alert" /\ ~[k EXCEPT !.alone = FALSE].alone
    <3>1. k.kind = "alert"
      BY <1>0 DEF AlertsKnown
    <3>2. h \in Handlers
      BY NewHandler DEF h, About, Handler
    <3>3. k \in Handlers
      BY <1>0, <3>2 DEF ViewTypeOK
    <3> QED
      BY <3>1, <3>3 DEF Handlers
  <2>3. /\ DOMAIN wire = 1 .. Len(wire) /\ DOMAIN wire' = 1 .. Len(wire)
        /\ \A i \in 1 .. Len(wire) :
             wire'[i].of = wire[i].of /\ wire'[i].kind = wire[i].kind /\ ~wire'[i].alone
    BY <2>1, UnsureEvents DEF ViewTypeOK
  <2>4. AlertsKnown'
    <3>1. \A k \in handlers' : k.kind = "alert" /\ ~k.alone
      BY <2>1, <2>2
    <3>2. \A i \in DOMAIN wire : wire[i].kind = "alert" /\ Home[wire[i].of] \in Member
      BY DEF AlertsKnown
    <3> QED
      BY <2>3, <3>1, <3>2 DEF AlertsKnown
  <2>5. BellShown'
    BY <2>1, MissedFetches, DirtyBell DEF ViewTypeOK
  <2> QED
    BY <2>4, <2>5
<1>3. CASE ~Crowded(a)
  <2>1. handlers' = handlers \cup {h} /\ UNCHANGED <<wire, fetches, excused>>
    BY <1>0, <1>3 DEF Post
  <2>2. ToList' = IF Home[a] \in Member THEN ToList \cup {a} ELSE ToList
    BY <1>1, <1>3, ListedPost
  <2> HIDE DEF h
  <2>3. \A x : Coming(x)' = Coming(x)
    BY <2>1 DEF Coming
  <2>4. On(a)' # {} /\ \A x : On(x) # {} => On(x)' # {}
    BY <1>0, <2>1 DEF On
  <2>5. AlertsKnown'
    BY <1>0, <2>1, <2>2 DEF AlertsKnown
  <2>6. ASSUME NEW list, NEW gone, Complete(list, gone) PROVE Complete(list, gone)'
    BY <2>2, <2>3, <2>4, <2>6 DEF Complete
  <2>7. (~excused => session # Null /\ Complete(bell, removed))'
    BY <1>1, <2>1, <2>2, <2>3, <2>4 DEF BellShown, Complete
  <2> QED
    BY <1>1, <2>1, <2>5, <2>6, <2>7 DEF BellShown
<1> QED
  BY <1>2, <1>3

\* A row that is deleted marks its events and excuses the bell.
LEMMA BellDiscard ==
  ASSUME ViewTypeOK, AlertsKnown, NEW a \in Alerts, Discard(a)
  PROVE  (AlertsKnown /\ BellShown)'
<1>1. wire' = Outdated(a) /\ fetches' = Missed /\ excused' /\ table' = table \ {a}
      /\ handlers' = handlers /\ On(a) = {}
  BY DEF Discard
<1>2. BellShown'
  BY <1>1, MissedFetches, DirtyBell DEF ViewTypeOK
<1>3. AlertsKnown'
  <2>1. \A h \in handlers : h.of # a
    BY <1>1 DEF On
  <2>2. ASSUME NEW b \in ToList, b # a PROVE b \in ToList'
    <3>1. Ours(table)' = Ours(table) \ {a} /\ Ours(table) \in SUBSET Alerts
      BY <1>1 DEF Ours, ViewTypeOK
    <3>2. b \in Latest(Ours(table) \ {a})
      BY <2>2, <3>1, LatestKept DEF ToList
    <3> QED
      BY <3>1, <3>2 DEF ToList, Latest
  <2> QED
    <3>1. /\ DOMAIN wire = 1 .. Len(wire) /\ DOMAIN wire' = 1 .. Len(wire)
          /\ \A i \in 1 .. Len(wire) :
               /\ wire'[i].of = wire[i].of /\ wire'[i].kind = wire[i].kind
               /\ wire'[i].alone => wire[i].of # a /\ wire[i].alone
      BY <1>1, StaleEvents DEF ViewTypeOK
    <3> QED
      BY <1>1, <2>1, <2>2, <3>1 DEF AlertsKnown
<1> QED
  BY <1>2, <1>3

\* What the tab removes it may miss.
LEMMA BellRemove ==
  ASSUME ViewTypeOK, AlertsKnown, BellShown, NEW a \in Alerts, RemoveAlert(a)
  PROVE  (AlertsKnown /\ BellShown)'
<1>1. /\ UNCHANGED <<wire, handlers, table, session, fetches, excused>>
      /\ bell' = bell \ {a} /\ removed' = removed \cup {a}
  BY DEF RemoveAlert, server, link
<1>2. \A x : Coming(x)' = Coming(x) /\ On(x)' = On(x)
  BY <1>1 DEF Coming, On
<1>4. ToList' = ToList
  BY <1>1 DEF ToList, Latest, Ours
<1>3. AlertsKnown'
  BY <1>1, <1>4 DEF AlertsKnown
<1> QED
  BY <1>1, <1>2, <1>3, <1>4 DEF BellShown, Complete

\* An alert that passes the tab by, or is never announced, excuses it.
LEMMA BellPassed ==
  ASSUME ViewTypeOK, AlertsKnown, BellShown, NEW h \in handlers, h.of \in Alerts,
         handlers' = handlers \ {h}, wire' = Outdated(h.of),
         fetches' = IF Concerns(h.of) THEN Missed ELSE fetches,
         excused' = (excused \/ Concerns(h.of)),
         UNCHANGED <<table, session, bell, removed>>
  PROVE  (AlertsKnown /\ BellShown)'
<1>1. \A x : x # h.of => On(x)' = On(x)
  BY DEF On
<1>2. \A x : Coming(x)' = Coming(x)
  BY StillComing DEF ViewTypeOK
<1>3. ToList' = ToList
  BY DEF ToList, Latest, Ours
<1>4. AlertsKnown'
  <2>1. /\ DOMAIN wire = 1 .. Len(wire) /\ DOMAIN wire' = 1 .. Len(wire)
        /\ \A i \in 1 .. Len(wire) :
             /\ wire'[i].of = wire[i].of /\ wire'[i].kind = wire[i].kind
             /\ wire'[i].alone => wire[i].alone
    BY StaleEvents DEF ViewTypeOK
  <2> QED
    BY <1>3, <2>1 DEF AlertsKnown
<1>5. CASE Concerns(h.of)
  <2>1. \A f \in fetches' : f.clean => f.reply = Null
    BY <1>5, MissedFetches DEF ViewTypeOK
  <2>2. BellShown'
    BY <1>5, <2>1, DirtyBell
  <2> QED
    BY <1>4, <2>2
<1>6. CASE ~Concerns(h.of)
  <2>1. fetches' = fetches /\ excused' = excused /\ (session = Null \/ h.of \notin ToList)
    BY <1>6, TenantAssumption DEF Concerns, ViewTypeOK, ToList, Latest, Ours
  <2>2. (~excused => session # Null /\ Complete(bell, removed))'
    BY <1>1, <1>2, <1>3, <2>1 DEF BellShown, Complete
  <2>3. (\A f \in fetches : f.clean /\ f.reply # Null => session # Null /\ Complete(f.reply, {}))'
    BY <1>1, <1>2, <1>3, <2>1 DEF BellShown, Complete
  <2> QED
    BY <1>4, <2>2, <2>3 DEF BellShown
<1> QED
  BY <1>5, <1>6

\* An alert is emitted, or is not: its event takes the place of its handler, or passes the
\* tab by.
LEMMA BellEmit ==
  ASSUME ViewTypeOK, topic = "alerts", AlertsKnown, BellShown, NEW h \in handlers,
         EmitFor(h) \/ Fail(h)
  PROVE  (AlertsKnown /\ BellShown)'
<1>0. h \in Handlers /\ h.kind = "alert" /\ h.of \in Alerts
      /\ (h.alone /\ Home[h.of] \in Member => h.of \in ToList)
  BY DEF AlertsKnown, ViewTypeOK, Handlers, About
<1>1. CASE Fail(h)
  BY <1>0, <1>1, BellPassed DEF Fail, stores
<1>2. CASE EmitFor(h)
  <2>1. Carried(h) = {h.status}
    BY <1>0 DEF Carried
  <2>2. PICK e : e = [Event(h.kind, h) EXCEPT !.status = h.status]
    OBVIOUS
  <2>3. /\ Emit(e) /\ handlers' = handlers \ {h}
        /\ UNCHANGED <<table, session, bell, removed>>
    BY <1>2, <2>1, <2>2 DEF EmitFor, stores
  <2>4. e \in Events /\ e.of = h.of /\ e.kind = "alert" /\ e.alone = h.alone
    BY <1>0, <2>1, <2>2, CarriedEvents
  <2>5. CASE Reaches(e)
    <3>1. wire' = Append(wire, e) /\ UNCHANGED <<fetches, excused>> /\ Home[h.of] \in Member
      BY <2>3, <2>4, <2>5 DEF Emit, Reaches
    <3>2. \A x : Coming(x)' = IF h.of = x THEN Coming(x) \cup {Len(wire) + 1} ELSE Coming(x)
      BY <2>4, <3>1, SentEvents DEF ViewTypeOK
    <3>3. \A x : Coming(x) # {} \/ On(x) # {} => Coming(x)' # {} \/ On(x)' # {}
      BY <2>3, <3>2 DEF On
    <3>4. ToList' = ToList
      BY <2>3 DEF ToList, Latest, Ours
    <3>5. AlertsKnown'
      <4>1. /\ DOMAIN wire' = 1 .. Len(wire) + 1 /\ wire'[Len(wire) + 1] = e
            /\ \A i \in 1 .. Len(wire) : wire'[i] = wire[i]
            /\ DOMAIN wire = 1 .. Len(wire) /\ Len(wire) \in Nat
        BY <2>4, <3>1, AppendedEvents DEF ViewTypeOK
      <4> QED
        BY <1>0, <2>3, <2>4, <3>1, <3>4, <4>1 DEF AlertsKnown
    <3>6. (~excused => session # Null /\ Complete(bell, removed))'
      BY <2>3, <3>1, <3>3, <3>4 DEF BellShown, Complete
    <3>7. (\A f \in fetches : f.clean /\ f.reply # Null => session # Null /\ Complete(f.reply, {}))'
      BY <2>3, <3>1, <3>3, <3>4 DEF BellShown, Complete
    <3> QED
      BY <3>5, <3>6, <3>7 DEF BellShown
  <2>6. CASE ~Reaches(e)
    <3>1. wire' = Outdated(h.of) /\ fetches' = (IF Concerns(h.of) THEN Missed ELSE fetches)
          /\ excused' = (excused \/ Concerns(h.of))
      BY <2>3, <2>4, <2>6 DEF Emit
    <3> QED
      BY <1>0, <2>3, <3>1, BellPassed
  <2> QED
    BY <2>5, <2>6
<1> QED
  BY <1>1, <1>2

\* An alert is delivered: the bell takes it up, or the tab is excused.
LEMMA BellDeliver ==
  ASSUME ViewTypeOK, AlertsKnown, BellShown, Deliver
  PROVE  (AlertsKnown /\ BellShown)'
<1> DEFINE e == wire[1]
<1>1. /\ wire # <<>> /\ wire' = Tail(wire) /\ Head(wire) = e /\ fetches' = Missed
      /\ UNCHANGED <<table, handlers, session, removed>>
      /\ DOMAIN wire = 1 .. Len(wire) /\ DOMAIN wire' = 1 .. Len(wire) - 1 /\ Len(wire) \in Nat \ {0}
      /\ \A i \in 1 .. Len(wire) - 1 : wire'[i] = wire[i + 1]
  BY DeliveredEvents DEF Deliver, ViewTypeOK, server
<1>2. e.kind = "alert" /\ Home[e.of] \in Member /\ (e.alone => e.of \in ToList) /\ 1 \in 1 .. Len(wire)
  BY <1>1 DEF AlertsKnown
<1>7. ToList' = ToList
  BY <1>1 DEF ToList, Latest, Ours
<1>3. AlertsKnown'
  BY <1>1, <1>7 DEF AlertsKnown
<1>4. \A f \in fetches' : f.clean => f.reply = Null
  BY <1>1, MissedFetches DEF ViewTypeOK
<1>5. CASE ~heard \/ ~e.alone \/ excused \/ Full(e.of)
  <2>1. excused'
    BY <1>1, <1>2, <1>5 DEF Deliver, ViewTypeOK
  <2> QED
    BY <1>3, <1>4, <2>1, DirtyBell
<1>6. CASE heard /\ e.alone /\ ~excused /\ ~Full(e.of)
  <2>1. bell' = bell \cup {e.of}
    BY <1>1, <1>2, <1>6 DEF Deliver, Inserted
  <2>2. \A x : Coming(x) # {} /\ e.of # x => Coming(x)' # {}
    BY <1>1, LeftComing DEF ViewTypeOK
  <2>3. \A x : On(x)' = On(x)
    BY <1>1 DEF On
  <2>4. session # Null /\ Complete(bell, removed)
    BY <1>6 DEF BellShown
  <2>5. (session # Null /\ Complete(bell, removed))'
    BY <1>1, <1>2, <1>6, <1>7, <2>1, <2>2, <2>3, <2>4 DEF Complete
  <2> QED
    BY <1>3, <1>4, <2>5 DEF BellShown
<1> QED
  BY <1>5, <1>6 DEF ViewTypeOK, Events

\* Steps that leave the server alone leave what is on its way true.
LEMMA BellUntold ==
  ASSUME AlertsKnown, UNCHANGED <<handlers, table>>, wire' = wire \/ wire' = <<>>
  PROVE  AlertsKnown'
<1>1. DOMAIN <<>> = {}
  OBVIOUS
<1>2. ToList' = ToList
  BY DEF ToList, Latest, Ours
<1> QED
  BY <1>1, <1>2 DEF AlertsKnown

\* The tab's own steps keep the bell's invariant.
LEMMA BellTab ==
  ASSUME ViewTypeOK, topic = "alerts", AlertsKnown, BellShown,
         \/ Connect \/ JoinNotifications \/ Drop
         \/ Reload \/ CheckSession \/ LogIn \/ LogOut \/ FetchAgain
         \/ \E f \in fetches : Reply(f) \/ Apply(f)
         \/ Switch \/ SwitchFails \/ OtherTab \/ UNCHANGED viewVars
  PROVE  (AlertsKnown /\ BellShown)'
<1> USE DEF server, user, link, stores
<1>1. AlertsKnown'
  BY BellUntold DEF Connect, JoinNotifications, Drop, Reload, CheckSession, LogIn, LogOut, FetchAgain,
     Reply, Apply, Switch, SwitchFails, OtherTab, Loads, Shows, viewVars
<1>2. ASSUME Loads \/ LogIn \/ LogOut \/ OtherTab \/ (Drop /\ wire # <<>>)
      PROVE  BellShown'
  <2>1. \A f \in Missed \cup {New} : f.clean => f.reply = Null
    BY MissedFetches DEF ViewTypeOK, New
  <2>2. excused' /\ fetches' \subseteq Missed \cup {New}
    BY <1>2 DEF Loads, LogIn, LogOut, OtherTab, Drop
  <2> QED
    BY <2>1, <2>2, DirtyBell
<1>3. ASSUME wire' = wire, UNCHANGED <<table, handlers, session, bell, removed, excused>>,
             fetches' \subseteq fetches \cup {New}
      PROVE  BellShown'
  <2>1. ToList' = ToList /\ \A x : Coming(x)' = Coming(x) /\ On(x)' = On(x)
    BY <1>3 DEF Coming, On, ToList, Latest, Ours
  <2>2. \A f \in fetches' : f.clean /\ f.reply # Null => f \in fetches
    BY <1>3 DEF New
  <2>3. (~excused => session # Null /\ Complete(bell, removed))'
    BY <1>3, <2>1 DEF BellShown, Complete
  <2> QED
    BY <1>3, <2>1, <2>2, <2>3 DEF BellShown, Complete
<1>4. CASE Connect \/ JoinNotifications \/ (Drop /\ wire = <<>>) \/ FetchAgain \/ UNCHANGED viewVars
  BY <1>1, <1>3, <1>4 DEF Connect, JoinNotifications, Drop, FetchAgain, viewVars
<1>5. CASE CheckSession
  BY <1>1, <1>3, <1>5 DEF CheckSession, Shows
<1>6. ASSUME NEW f \in fetches, Reply(f) PROVE BellShown'
  <2>1. CASE session = Null /\ page = "app"
    <3>1. Loads
      BY <1>6, <2>1 DEF Reply
    <3> QED
      BY <1>2, <3>1
  <2>2. CASE session = Null /\ page # "app"
    BY <1>3, <1>6, <2>2 DEF Reply
  <2>3. CASE session # Null
    <3>0. PICK g : g = [f EXCEPT !.reply = Visible]
      OBVIOUS
    <3>1. fetches' = (fetches \ {f}) \cup {g} /\ UNCHANGED <<server, session, link, stores, excused>>
      BY <1>6, <2>3, <3>0 DEF Reply
    <3>2. g.reply = ToList
      BY <3>0 DEF Visible, ViewTypeOK, Fetches
    <3>3. ToList' = ToList /\ \A x : Coming(x)' = Coming(x) /\ On(x)' = On(x)
      BY <3>1 DEF Coming, On, ToList, Latest, Ours
    <3>4. (session # Null /\ Complete(g.reply, {}))'
      BY <2>3, <3>1, <3>2, <3>3 DEF Complete
    <3>5. (~excused => session # Null /\ Complete(bell, removed))'
      BY <3>1, <3>3 DEF BellShown, Complete
    <3> QED
      BY <3>1, <3>3, <3>4, <3>5 DEF BellShown, Complete
  <2> QED
    BY <2>1, <2>2, <2>3
<1>7. ASSUME NEW f \in fetches, Apply(f) PROVE BellShown'
  <2>1. /\ bell' = f.reply /\ removed' = {} /\ excused' = ~f.clean /\ f.reply # Null
        /\ fetches' = fetches \ {f} /\ UNCHANGED <<server, session, link>>
    BY <1>7 DEF Apply
  <2>2. ToList' = ToList /\ \A x : Coming(x)' = Coming(x) /\ On(x)' = On(x)
    BY <2>1 DEF Coming, On, ToList, Latest, Ours
  <2>3. (~excused => session # Null /\ Complete(bell, removed))'
    BY <2>1, <2>2 DEF BellShown, Complete, ViewTypeOK, Fetches
  <2> QED
    BY <2>1, <2>2, <2>3 DEF BellShown, Complete
<1>8. CASE SwitchFails
  <2>1. CASE wire = <<>>
    <3>1. excused' = excused
      BY <1>8, <2>1 DEF SwitchFails, ViewTypeOK
    <3>2. wire' = wire /\ fetches' = fetches /\ UNCHANGED <<table, handlers, session, bell, removed>>
      BY <1>8, <2>1 DEF SwitchFails
    <3> QED
      BY <1>1, <1>3, <3>1, <3>2
  <2>2. CASE wire # <<>>
    <3>1. excused'
      BY <1>8, <2>2 DEF SwitchFails
    <3>2. fetches' = {}
      BY <1>8 DEF SwitchFails
    <3> QED
      BY <1>1, <3>1, <3>2, DirtyBell
  <2> QED
    BY <2>1, <2>2
<1> QED
  <2>1. CASE Reload \/ Switch \/ LogIn \/ LogOut \/ OtherTab \/ Drop
    <3>1. Drop => (Drop /\ wire # <<>>) \/ (Drop /\ wire = <<>>)
      OBVIOUS
    <3> QED
      BY <1>1, <1>2, <1>4, <2>1, <3>1 DEF Reload, Switch
  <2> QED
    BY <1>1, <1>4, <1>5, <1>6, <1>7, <1>8, <2>1

\* Every step keeps the bell's invariant.
LEMMA BellKept == ViewTypeOK /\ BellInv /\ [ViewNext]_viewVars => BellInv'
<1> SUFFICES ASSUME ViewTypeOK, BellInv, [ViewNext]_viewVars, topic' = "alerts" PROVE BellInv'
  BY DEF BellInv
<1>1. topic = "alerts"
  <2>1. UNCHANGED topic
    <3>1. CASE ViewNext
      BY <3>1 DEF ViewNext, Request, Create, Delete, Pause, Update, Write, BeginBeat, Push,
         WriteQuietly, Post, Discard, RemoveAlert, Serve, WriteBeat, SkipWrite, WritePush, EmitFor, Fail, Connect, JoinNotifications, Drop, Deliver,
         Reload, CheckSession, LogIn, LogOut, FetchAgain, Reply, Apply, Switch, SwitchFails, OtherTab,
         user
    <3> QED
      BY <3>1 DEF viewVars, user
  <2> QED
    BY <2>1
<1>2. AlertsKnown /\ BellShown
  BY <1>1 DEF BellInv
<1>3. (AlertsKnown /\ BellShown)'
  <2>1. ASSUME NEW m \in Monitors, BeginBeat(m) \/ Request(m) \/ Push(m) \/ WriteQuietly(m)
        PROVE  FALSE
    BY <1>1, <2>1 DEF BeginBeat, Push, Request, Create, Delete, Pause, Update, Write, WriteQuietly
  <2>2. ASSUME NEW a \in Alerts, Post(a) \/ Discard(a) \/ RemoveAlert(a)
        PROVE  (AlertsKnown /\ BellShown)'
    BY <1>2, <2>2, BellPost, BellDiscard, BellRemove
  <2>3. ASSUME NEW h \in handlers, Serve(h)
        PROVE  (AlertsKnown /\ BellShown)'
    <3>1. ~WriteBeat(h) /\ ~SkipWrite(h) /\ ~WritePush(h)
      BY <1>2 DEF WriteBeat, SkipWrite, WritePush, AlertsKnown, ViewTypeOK, Handlers
    <3> QED
      BY <1>1, <1>2, <2>3, <3>1, BellEmit DEF Serve
  <2> QED
    BY <1>1, <1>2, <2>1, <2>2, <2>3, BellDeliver, BellTab DEF ViewNext
<1> QED
  BY <1>3 DEF BellInv

\* What the bell lists is in live_alerts and of one of the user's tenants; what it misses is
\* on its way, whatever replies and events cross.
THEOREM BellInvariant == ViewSpec => []BellInv
<1>1. ViewInit => BellInv
  <2>1. DOMAIN <<>> = {}
    OBVIOUS
  <2> QED
    BY <2>1 DEF ViewInit, BellInv, AlertsKnown, BellShown
<1> QED
  BY <1>1, ViewTypeCorrect, BellKept, PTL DEF ViewSpec

\* Once all is delivered, a bell that nothing has passed by lists exactly the alerts of the
\* user's tenants that the server would, the newest of them all, but for those removed in
\* the tab.
THEOREM BellStaysComplete == ViewSpec => []BellIsComplete
<1>1. ViewTypeOK /\ BellInv => BellIsComplete
  <2> SUFFICES ASSUME ViewTypeOK, BellInv, topic = "alerts", Settled, ~excused
               PROVE  Visible \ removed \subseteq bell /\ bell \subseteq Visible
    BY DEF BellIsComplete
  <2>1. \A x : Coming(x) = {} /\ On(x) = {}
    BY DEF Settled, Coming, On
  <2> QED
    BY <2>1 DEF BellInv, BellShown, Complete, Visible, ViewTypeOK
<1> QED
  BY <1>1, ViewTypeCorrect, BellInvariant, PTL

\* An event decides whether its monitor is listed only when it creates or deletes it.
LEMMA ListedAfter ==
  ASSUME wire \in Seq(Events), NEW e \in Events, wire' = Append(wire, e),
         NEW m, NEW x, NEW k \in 1 .. Len(wire) + 1
  PROVE  /\ e.of = m /\ e.kind = "created" => Listed(k, x, m)'
         /\ e.of = m /\ e.kind = "deleted" => ~Listed(k, x, m)'
         /\ e.of # m \/ e.kind \notin {"created", "deleted"} => (Listed(k, x, m)' <=> Listed(k, x, m))
<1> DEFINE n == Len(wire)
<1>0. /\ n \in Nat /\ Len(wire') = n + 1 /\ wire'[n + 1] = e
      /\ \A i \in 1 .. n : wire'[i] = wire[i]
  BY AppendedEvents
<1> HIDE DEF n
<1>1. CASE e.of = m /\ e.kind = "created"
  <2>1. n + 1 \in k - 1 .. Len(wire') /\ ~(n + 1 < k) /\ n + 2 .. Len(wire') = {}
    BY <1>0 DEF n
  <2> QED
    BY <1>0, <1>1, <2>1 DEF Listed
<1>2. CASE e.of = m /\ e.kind = "deleted"
  <2>1. ASSUME NEW i \in k - 1 .. Len(wire'),
               IF i < k THEN x # "absent" ELSE wire'[i].of = m /\ wire'[i].kind = "created",
               \A j \in i + 1 .. Len(wire') : wire'[j].of = m => wire'[j].kind # "deleted"
        PROVE  FALSE
    <3>1. CASE i = n + 1
      BY <1>0, <1>2, <2>1, <3>1 DEF n
    <3>2. CASE i # n + 1
      <4>1. n + 1 \in i + 1 .. Len(wire')
        BY <1>0, <3>2 DEF n
      <4> QED
        BY <1>0, <1>2, <2>1, <4>1
    <3> QED
      BY <3>1, <3>2
  <2> QED
    BY <2>1 DEF Listed
<1>3. CASE e.of # m \/ e.kind \notin {"created", "deleted"}
  <2>1. ASSUME NEW i \in k - 1 .. n
        PROVE  /\ i >= k => i \in 1 .. n
               /\ i \in k - 1 .. Len(wire')
               /\ i + 1 .. n \subseteq 1 .. n
               /\ \A j \in i + 1 .. Len(wire') : j \in i + 1 .. n \/ j = n + 1
               /\ \A j \in i + 1 .. n : j \in i + 1 .. Len(wire')
    BY <1>0 DEF n
  <2>2. ASSUME NEW i \in k - 1 .. n
        PROVE  /\ (IF i < k THEN x # "absent" ELSE wire'[i].of = m /\ wire'[i].kind = "created")
                     <=> (IF i < k THEN x # "absent" ELSE wire[i].of = m /\ wire[i].kind = "created")
               /\ (\A j \in i + 1 .. Len(wire') : wire'[j].of = m => wire'[j].kind # "deleted")
                     <=> (\A j \in i + 1 .. n : wire[j].of = m => wire[j].kind # "deleted")
    <3>1. i >= k => wire'[i] = wire[i]
      BY <1>0, <2>1
    <3>2. \A j \in i + 1 .. n : wire'[j] = wire[j]
      BY <1>0, <2>1
    <3>3. (IF i < k THEN x # "absent" ELSE wire'[i].of = m /\ wire'[i].kind = "created")
            <=> (IF i < k THEN x # "absent" ELSE wire[i].of = m /\ wire[i].kind = "created")
      BY <1>0, <3>1 DEF n
    <3>4. (\A j \in i + 1 .. Len(wire') : wire'[j].of = m => wire'[j].kind # "deleted")
            => (\A j \in i + 1 .. n : wire[j].of = m => wire[j].kind # "deleted")
      BY <2>1, <3>2
    <3>5. (\A j \in i + 1 .. n : wire[j].of = m => wire[j].kind # "deleted")
            => (\A j \in i + 1 .. Len(wire') : wire'[j].of = m => wire'[j].kind # "deleted")
      BY <1>0, <1>3, <2>1, <3>2
    <3> QED
      BY <3>3, <3>4, <3>5
  <2>3. ASSUME NEW i \in k - 1 .. Len(wire'), i \notin k - 1 .. n
        PROVE  i = n + 1 /\ ~(i < k)
    BY <1>0, <2>3 DEF n
  <2>4. Listed(k, x, m) => Listed(k, x, m)'
    BY <2>1, <2>2 DEF Listed, n
  <2>5. Listed(k, x, m)' => Listed(k, x, m)
    BY <1>0, <1>3, <2>2, <2>3 DEF Listed, n
  <2> QED
    BY <1>3, <2>4, <2>5
<1> QED
  BY <1>1, <1>2, <1>3

\* What happens to other monitors does not change what the events tell of this one.
LEMMA FollowsUndisturbed ==
  ASSUME wire \in Seq(Events), NEW m \in Monitors, NEW x, NEW k \in 1 .. Len(wire) + 1,
         On(m)' = On(m), status'[m] = status[m], UNCHANGED pinned, Follows(k, x, m),
         \/ wire' = wire
         \/ \E y : y # m /\ wire' = Outdated(y)
         \/ \E e \in Events : e.of # m /\ wire' = Append(wire, e)
  PROVE  Follows(k, x, m)'
<1>0. Len(wire) \in Nat /\ DOMAIN wire = 1 .. Len(wire)
  OBVIOUS
<1>1. CASE wire' = wire
  BY <1>1 DEF Follows, Uncertain, Listed, Told, Looks, Coming
<1>2. ASSUME NEW y, y # m, wire' = Outdated(y) PROVE Follows(k, x, m)'
  <2>1. /\ Len(wire') = Len(wire) /\ DOMAIN wire' = 1 .. Len(wire)
        /\ \A i \in 1 .. Len(wire) :
             /\ wire'[i].of = wire[i].of /\ wire'[i].kind = wire[i].kind
             /\ wire'[i].status = wire[i].status
             /\ wire[i].of = m => wire'[i].alone = wire[i].alone
    BY <1>2, StaleEvents
  <2>2. Coming(m)' = Coming(m)
    BY <1>0, <2>1 DEF Coming
  <2>3. Uncertain(k, m)' <=> Uncertain(k, m)
    BY <1>0, <2>1, <2>2 DEF Uncertain, Coming
  <2>4. Listed(k, x, m)' <=> Listed(k, x, m)
    <3>1. ASSUME NEW i \in k - 1 .. Len(wire)
          PROVE  /\ i >= k => i \in 1 .. Len(wire)
                 /\ i + 1 .. Len(wire) \subseteq 1 .. Len(wire)
      BY <1>0
    <3>2. ASSUME NEW i \in k - 1 .. Len(wire)
          PROVE  /\ (IF i < k THEN x # "absent" ELSE wire'[i].of = m /\ wire'[i].kind = "created")
                       <=> (IF i < k THEN x # "absent" ELSE wire[i].of = m /\ wire[i].kind = "created")
                 /\ (\A j \in i + 1 .. Len(wire) : wire'[j].of = m => wire'[j].kind # "deleted")
                       <=> (\A j \in i + 1 .. Len(wire) : wire[j].of = m => wire[j].kind # "deleted")
      <4>1. (IF i < k THEN x # "absent" ELSE wire'[i].of = m /\ wire'[i].kind = "created")
              <=> (IF i < k THEN x # "absent" ELSE wire[i].of = m /\ wire[i].kind = "created")
        <5>1. i >= k => wire'[i].of = wire[i].of /\ wire'[i].kind = wire[i].kind
          BY <2>1, <3>1
        <5>2. i < k \/ i >= k
          BY <1>0
        <5> QED
          BY <5>1, <5>2
      <4>2. \A j \in i + 1 .. Len(wire) : wire'[j].of = wire[j].of /\ wire'[j].kind = wire[j].kind
        BY <2>1, <3>1
      <4> QED
        BY <4>1, <4>2
    <3> DEFINE start(w, i) == IF i < k THEN x # "absent" ELSE w[i].of = m /\ w[i].kind = "created"
               rest(w, i)  == \A j \in i + 1 .. Len(wire) : w[j].of = m => w[j].kind # "deleted"
    <3>3. Listed(k, x, m) <=> \E i \in k - 1 .. Len(wire) : start(wire, i) /\ rest(wire, i)
      BY DEF Listed
    <3>4. Listed(k, x, m)' <=> \E i \in k - 1 .. Len(wire) : start(wire', i) /\ rest(wire', i)
      BY <2>1 DEF Listed
    <3>5. \A i \in k - 1 .. Len(wire) : (start(wire', i) <=> start(wire, i)) /\ (rest(wire', i) <=> rest(wire, i))
      BY <3>2
    <3> HIDE DEF start, rest
    <3> QED
      BY <3>3, <3>4, <3>5
  <2>5. Told(k, x, m)' <=> Told(k, x, m)
    BY <1>0, <2>1, <2>2 DEF Told, Looks, Coming
  <2> QED
    BY <2>3, <2>4, <2>5 DEF Follows
<1>3. ASSUME NEW e \in Events, e.of # m, wire' = Append(wire, e) PROVE Follows(k, x, m)'
  <2>1. /\ Len(wire') = Len(wire) + 1 /\ DOMAIN wire' = 1 .. Len(wire) + 1
        /\ \A i \in 1 .. Len(wire) : wire'[i] = wire[i]
        /\ wire'[Len(wire) + 1] = e
    BY <1>3, AppendedEvents
  <2>2. Coming(m)' = Coming(m)
    <3>1. \A i \in 1 .. Len(wire) + 1 : i \in 1 .. Len(wire) \/ i = Len(wire) + 1
      BY <1>0
    <3>2. \A i \in 1 .. Len(wire) : i \in 1 .. Len(wire) + 1
      BY <1>0
    <3> QED
      BY <1>0, <1>3, <2>1, <3>1, <3>2 DEF Coming
  <2>3. Uncertain(k, m)' <=> Uncertain(k, m)
    BY <1>0, <2>1, <2>2 DEF Uncertain, Coming
  <2>4. Listed(k, x, m)' <=> Listed(k, x, m)
    BY <1>0, <1>3, <2>1, ListedAfter
  <2>5. Told(k, x, m)' <=> Told(k, x, m)
    BY <1>0, <2>1, <2>2 DEF Told, Looks, Coming
  <2> QED
    BY <2>3, <2>4, <2>5 DEF Follows
<1> QED
  BY <1>1, <1>2, <1>3

\* Without an event from the k-th on, the row itself is what they lead to.
LEMMA FollowsUntold ==
  ASSUME NEW m \in Monitors, NEW k \in Nat \ {0}, Len(wire') \in Nat,
         \A i \in k .. Len(wire') : wire'[i].of # m, DOMAIN wire' = 1 .. Len(wire'), k <= Len(wire') + 1
  PROVE  Follows(k, status[m], m)'
<1>1. \A i \in Coming(m)' : i < k
  BY DEF Coming
<1>2. Told(k, status[m], m)'
  BY <1>1 DEF Told, Looks
<1>3. Listed(k, status[m], m)' <=> status'[m] # "absent"
  <2>1. ASSUME status'[m] # "absent" PROVE Listed(k, status[m], m)'
    <3>1. k - 1 \in k - 1 .. Len(wire') /\ k - 1 < k
      OBVIOUS
    <3>2. \A j \in k - 1 + 1 .. Len(wire') : wire'[j].of # m
      OBVIOUS
    <3> QED
      BY <2>1, <3>1, <3>2 DEF Listed
  <2> QED
    BY <2>1 DEF Listed
<1> QED
  BY <1>2, <1>3 DEF Follows

\* After a write that nobody announces, the events about the monitor are uncertain.
LEMMA FollowsStale ==
  ASSUME wire \in Seq(Events), NEW m \in Monitors, NEW k \in 1 .. Len(wire) + 1,
         wire' = Outdated(m)
  PROVE  Follows(k, status[m], m)'
<1>0. /\ Len(wire) \in Nat /\ Len(wire') = Len(wire) /\ DOMAIN wire' = 1 .. Len(wire)
      /\ \A i \in 1 .. Len(wire) : wire'[i].of = wire[i].of /\ (wire'[i].alone => wire[i].of # m)
  BY StaleEvents
<1>1. CASE \A i \in k .. Len(wire') : wire'[i].of # m
  BY <1>0, <1>1, FollowsUntold
<1>2. CASE \E i \in k .. Len(wire') : wire'[i].of = m
  BY <1>0, <1>2 DEF Follows, Uncertain, Coming
<1> QED
  BY <1>1, <1>2

\* Only whether the store has the monitor counts.
LEMMA ListedAlike ==
  ASSUME NEW m, NEW x, NEW y, NEW k, x = "absent" <=> y = "absent", Listed(k, x, m)
  PROVE  Listed(k, y, m)
BY DEF Listed

\* A delivery moves the events up by one.
LEMMA FollowsDelivered ==
  ASSUME wire \in Seq(Events), wire # <<>>, wire' = Tail(wire), UNCHANGED <<status, handlers, pinned>>,
         NEW m \in Monitors, NEW x, NEW k \in 1 .. Len(wire), Follows(k + 1, x, m)
  PROVE  Follows(k, x, m)'
<1>0. /\ Len(wire) \in Nat /\ DOMAIN wire = 1 .. Len(wire)
      /\ Len(wire') = Len(wire) - 1 /\ DOMAIN wire' = 1 .. Len(wire) - 1
      /\ \A i \in 1 .. Len(wire') : wire'[i] = wire[i + 1]
      /\ \A i \in 2 .. Len(wire) : wire[i] = wire'[i - 1]
  BY DeliveredEvents
<1>1. On(m)' = On(m)
  BY DEF On
<1>2. /\ \A i \in Coming(m)' : i + 1 \in Coming(m) /\ wire'[i] = wire[i + 1]
      /\ \A i \in Coming(m) : i >= 2 => i - 1 \in Coming(m)' /\ wire[i] = wire'[i - 1]
      /\ Coming(m) \subseteq Nat /\ Coming(m)' \subseteq Nat
  BY <1>0 DEF Coming
<1>3. Uncertain(k + 1, m) => Uncertain(k, m)'
  <2>1. ASSUME NEW i \in Coming(m), i >= k + 1, ~wire[i].alone
        PROVE  i - 1 \in Coming(m)' /\ i - 1 >= k /\ ~wire'[i - 1].alone
    <3>1. i \in Nat /\ k \in Nat /\ i >= 2
      BY <1>0, <1>2, <2>1
    <3>2. i - 1 \in Coming(m)' /\ wire[i] = wire'[i - 1]
      BY <1>2, <3>1
    <3>3. i - 1 >= k
      BY <2>1, <3>1
    <3> QED
      BY <2>1, <3>2, <3>3
  <2> QED
    BY <1>1, <2>1 DEF Uncertain
<1>4. ASSUME Listed(k + 1, x, m) PROVE Listed(k, x, m)'
  <2>1. PICK i \in k + 1 - 1 .. Len(wire) :
          /\ IF i < k + 1 THEN x # "absent" ELSE wire[i].of = m /\ wire[i].kind = "created"
          /\ \A j \in i + 1 .. Len(wire) : wire[j].of = m => wire[j].kind # "deleted"
    BY <1>4 DEF Listed
  <2>2. Listed(k, x, m)'
    <3>0. PICK n : n = i - 1
      OBVIOUS
    <3>1. n \in k - 1 .. Len(wire') /\ (n < k <=> i < k + 1) /\ (i >= k + 1 => i \in 2 .. Len(wire))
      BY <1>0, <3>0
    <3>2. \A j \in n + 1 .. Len(wire') : j + 1 \in i + 1 .. Len(wire) /\ wire'[j] = wire[j + 1]
      BY <1>0, <3>0
    <3>3. i >= k + 1 => wire[i] = wire'[n]
      BY <1>0, <3>0, <3>1
    <3>4. IF n < k THEN x # "absent" ELSE wire'[n].of = m /\ wire'[n].kind = "created"
      BY <1>0, <2>1, <3>1, <3>3
    <3>5. \A j \in n + 1 .. Len(wire') : wire'[j].of = m => wire'[j].kind # "deleted"
      BY <2>1, <3>2
    <3>6. /\ n < k => x # "absent"
          /\ ~(n < k) => wire'[n].of = m /\ wire'[n].kind = "created"
      BY <3>4
    <3>7. \E j \in k - 1 .. Len(wire') :
            /\ IF j < k THEN x # "absent" ELSE wire'[j].of = m /\ wire'[j].kind = "created"
            /\ \A l \in j + 1 .. Len(wire') : wire'[l].of = m => wire'[l].kind # "deleted"
      <4>1. n \in k - 1 .. Len(wire')
        BY <3>1
      <4> WITNESS n \in k - 1 .. Len(wire')
      <4> QED
        BY <3>5, <3>6
    <3> QED
      BY <3>7 DEF Listed
  <2> QED
    BY <2>2
<1>5. ASSUME Listed(k, x, m)' PROVE Listed(k + 1, x, m)
  <2>1. PICK i \in k - 1 .. Len(wire') :
          /\ IF i < k THEN x # "absent" ELSE wire'[i].of = m /\ wire'[i].kind = "created"
          /\ \A j \in i + 1 .. Len(wire') : wire'[j].of = m => wire'[j].kind # "deleted"
    BY <1>5 DEF Listed
  <2>2. Listed(k + 1, x, m)
    <3>1. i + 1 \in k + 1 - 1 .. Len(wire) /\ (i + 1 < k + 1 <=> i < k)
          /\ (i >= k => i \in 1 .. Len(wire'))
      BY <1>0
    <3>2. \A j \in i + 1 + 1 .. Len(wire) : j - 1 \in i + 1 .. Len(wire') /\ wire[j] = wire'[j - 1]
      BY <1>0
    <3>3. i >= k => wire'[i] = wire[i + 1]
      BY <1>0, <3>1
    <3>4. IF i + 1 < k + 1 THEN x # "absent" ELSE wire[i + 1].of = m /\ wire[i + 1].kind = "created"
      BY <1>0, <2>1, <3>1, <3>3
    <3>5. \A j \in (i + 1) + 1 .. Len(wire) : wire[j].of = m => wire[j].kind # "deleted"
      BY <2>1, <3>2
    <3> QED
      BY <3>1, <3>4, <3>5 DEF Listed
  <2> QED
    BY <2>2
<1>6. Told(k + 1, x, m) => Told(k, x, m)'
  <2>1. CASE \A i \in Coming(m) : i < k + 1
    <3>1. \A i \in Coming(m)' : i < k
      BY <1>0, <1>2, <2>1
    <3> QED
      BY <2>1, <3>1 DEF Told, Looks
  <2>2. ASSUME NEW i \in Coming(m), ~(i < k + 1), Told(k + 1, x, m) PROVE Told(k, x, m)'
    <3>1. i - 1 \in Coming(m)' /\ ~(i - 1 < k)
      BY <1>0, <1>2, <2>2
    <3>2. ASSUME NEW l \in Coming(m)', \A j \in Coming(m)' : j <= l
          PROVE  Looks(wire[l].status, status[m], m)'
      <4>1. l + 1 \in Coming(m) /\ wire'[l] = wire[l + 1]
        BY <1>2
      <4>2. ASSUME NEW j \in Coming(m) PROVE j <= l + 1
        <5>1. CASE j >= 2
          BY <1>2, <3>2, <5>1
        <5>2. CASE ~(j >= 2)
          BY <1>2, <5>2
        <5> QED
          BY <5>1, <5>2
      <4>3. Looks(wire[l + 1].status, status[m], m)
        BY <2>2, <4>1, <4>2 DEF Told
      <4> QED
        BY <4>1, <4>3 DEF Looks
    <3> QED
      BY <3>1, <3>2 DEF Told
  <2> QED
    BY <2>1, <2>2
<1> QED
  BY <1>1, <1>3, <1>4, <1>5, <1>6 DEF Follows

\* The first event does not concern other monitors.
LEMMA HeadElsewhere ==
  ASSUME wire \in Seq(Events), wire # <<>>, NEW m, wire[1].of # m, NEW x, Follows(1, x, m)
  PROVE  Follows(2, x, m)
<1>0. Len(wire) \in Nat \ {0} /\ DOMAIN wire = 1 .. Len(wire)
  BY DeliveredEvents
<1>1. \A i \in Coming(m) : i \in Nat /\ i >= 2
  BY <1>0 DEF Coming
<1>2. Uncertain(1, m) => Uncertain(2, m)
  BY <1>1 DEF Uncertain
<1>3. Told(1, x, m) => Told(2, x, m)
  BY <1>1 DEF Told
<1>4. Listed(1, x, m) => Listed(2, x, m)
  <2>1. ASSUME NEW i \in 0 .. Len(wire),
               IF i < 1 THEN x # "absent" ELSE wire[i].of = m /\ wire[i].kind = "created",
               \A j \in i + 1 .. Len(wire) : wire[j].of = m => wire[j].kind # "deleted"
        PROVE  Listed(2, x, m)
    <3>1. CASE i = 0
      <4>1. 1 \in 2 - 1 .. Len(wire) /\ 1 < 2 /\ x # "absent"
        BY <1>0, <2>1, <3>1
      <4>2. \A j \in 1 + 1 .. Len(wire) : wire[j].of = m => wire[j].kind # "deleted"
        BY <2>1, <3>1
      <4> QED
        BY <4>1, <4>2 DEF Listed
    <3>2. CASE i # 0
      <4>1. i \in 2 - 1 .. Len(wire) /\ ~(i < 2)
        BY <1>0, <2>1, <3>2
      <4> QED
        BY <2>1, <3>2, <4>1 DEF Listed
    <3> QED
      BY <3>1, <3>2
  <2> QED
    BY <2>1 DEF Listed
<1>5. Listed(2, x, m) => Listed(1, x, m)
  <2>1. ASSUME NEW i \in 1 .. Len(wire),
               IF i < 2 THEN x # "absent" ELSE wire[i].of = m /\ wire[i].kind = "created",
               \A j \in i + 1 .. Len(wire) : wire[j].of = m => wire[j].kind # "deleted"
        PROVE  Listed(1, x, m)
    <3>1. CASE i = 1
      <4>1. 0 \in 1 - 1 .. Len(wire) /\ 0 < 1 /\ x # "absent"
        BY <1>0, <2>1, <3>1
      <4>2. \A j \in 0 + 1 .. Len(wire) : j = 1 \/ j \in 1 + 1 .. Len(wire)
        BY <1>0
      <4>3. \A j \in 0 + 1 .. Len(wire) : wire[j].of = m => wire[j].kind # "deleted"
        BY <2>1, <3>1, <4>2
      <4> QED
        BY <4>1, <4>3 DEF Listed
    <3>2. CASE i # 1
      <4>1. i \in 1 - 1 .. Len(wire) /\ ~(i < 1) /\ ~(i < 2)
        BY <1>0, <2>1, <3>2
      <4> QED
        BY <2>1, <4>1 DEF Listed
    <3> QED
      BY <3>1, <3>2
  <2> QED
    BY <2>1 DEF Listed
<1> QED
  BY <1>2, <1>3, <1>4, <1>5 DEF Follows

\* What an event that concerns m makes of x.
Becomes(e, x) ==
  IF e.kind = "created" THEN e.status
  ELSE IF e.kind = "deleted" \/ x = "absent" THEN "absent" ELSE e.status

\* A store that takes up the first event is as current before the second as it was before the
\* first.
LEMMA HeadHere ==
  ASSUME wire \in Seq(Events), wire # <<>>, NEW m, wire[1].of = m, wire[1].alone,
         wire[1].kind # "deleted" => wire[1].status # "absent", NEW x, Follows(1, x, m)
  PROVE  Follows(2, Becomes(wire[1], x), m)
<1> DEFINE y == Becomes(wire[1], x)
<1>0. Len(wire) \in Nat \ {0} /\ DOMAIN wire = 1 .. Len(wire)
  BY DeliveredEvents
<1>1. \A i \in Coming(m) : i \in Nat /\ (i = 1 \/ i >= 2)
  BY <1>0 DEF Coming
<1>2. Uncertain(1, m) => Uncertain(2, m)
  BY <1>1 DEF Uncertain
<1>3. y # "absent" <=> wire[1].kind = "created" \/ (wire[1].kind # "deleted" /\ x # "absent")
  BY DEF Becomes
<1> HIDE DEF y
<1>4. Listed(1, x, m) => Listed(2, y, m)
  <2>1. ASSUME NEW i \in 0 .. Len(wire),
               IF i < 1 THEN x # "absent" ELSE wire[i].of = m /\ wire[i].kind = "created",
               \A j \in i + 1 .. Len(wire) : wire[j].of = m => wire[j].kind # "deleted"
        PROVE  Listed(2, y, m)
    <3>1. CASE i < 2
      <4>1. \A j \in 1 + 1 .. Len(wire) : j \in i + 1 .. Len(wire)
        BY <3>1
      <4>2. i = 0 => 1 \in i + 1 .. Len(wire)
        BY <1>0
      <4>3. y # "absent"
        BY <1>3, <2>1, <3>1, <4>2
      <4>4. 1 \in 2 - 1 .. Len(wire) /\ 1 < 2
        BY <1>0
      <4> QED
        BY <2>1, <4>1, <4>3, <4>4 DEF Listed
    <3>2. CASE ~(i < 2)
      <4>1. i \in 2 - 1 .. Len(wire) /\ ~(i < 1)
        BY <1>0, <2>1, <3>2
      <4> QED
        BY <2>1, <3>2, <4>1 DEF Listed
    <3> QED
      BY <3>1, <3>2
  <2> QED
    BY <2>1 DEF Listed
<1>5. Listed(2, y, m) => Listed(1, x, m)
  <2>1. ASSUME NEW i \in 1 .. Len(wire),
               IF i < 2 THEN y # "absent" ELSE wire[i].of = m /\ wire[i].kind = "created",
               \A j \in i + 1 .. Len(wire) : wire[j].of = m => wire[j].kind # "deleted"
        PROVE  Listed(1, x, m)
    <3>1. CASE i = 1 /\ wire[1].kind = "created"
      <4>1. 1 \in 1 - 1 .. Len(wire) /\ ~(1 < 1)
        BY <1>0
      <4> QED
        BY <2>1, <3>1, <4>1 DEF Listed
    <3>2. CASE i = 1 /\ wire[1].kind # "created"
      <4>1. x # "absent" /\ wire[1].kind # "deleted"
        BY <1>3, <2>1, <3>2
      <4>2. \A j \in 0 + 1 .. Len(wire) : j = 1 \/ j \in 1 + 1 .. Len(wire)
        BY <1>0
      <4>3. \A j \in 0 + 1 .. Len(wire) : wire[j].of = m => wire[j].kind # "deleted"
        BY <2>1, <3>2, <4>1, <4>2
      <4>4. 0 \in 1 - 1 .. Len(wire) /\ 0 < 1
        BY <1>0
      <4> QED
        BY <4>1, <4>3, <4>4 DEF Listed
    <3>3. CASE i # 1
      <4>1. i \in 1 - 1 .. Len(wire) /\ ~(i < 1) /\ ~(i < 2)
        BY <1>0, <2>1, <3>3
      <4> QED
        BY <2>1, <4>1 DEF Listed
    <3> QED
      BY <3>1, <3>2, <3>3
  <2> QED
    BY <2>1 DEF Listed
<1>6. Listed(1, x, m) /\ Told(1, x, m) => Told(2, y, m)
  <2> SUFFICES ASSUME Listed(1, x, m), Told(1, x, m) PROVE Told(2, y, m)
    OBVIOUS
  <2>1. 1 \in Coming(m) /\ ~(1 < 1)
    BY <1>0 DEF Coming
  <2>2. \A i \in Coming(m) : (\A j \in Coming(m) : j <= i) => Looks(wire[i].status, status[m], m)
    BY <2>1 DEF Told
  <2>3. CASE \A i \in Coming(m) : i < 2
    <3>1. \A j \in Coming(m) : j <= 1
      BY <1>1, <2>3
    <3>2. Looks(wire[1].status, status[m], m)
      BY <2>1, <2>2, <3>1
    <3>3. Listed(2, y, m)
      BY <1>4
    <3>4. PICK i \in 1 .. Len(wire) :
            IF i < 2 THEN y # "absent" ELSE wire[i].of = m /\ wire[i].kind = "created"
      BY <3>3 DEF Listed
    <3>5. i < 2
      BY <1>0, <2>3, <3>4 DEF Coming
    <3>6. y = wire[1].status
      BY <3>4, <3>5 DEF y, Becomes
    <3> QED
      BY <2>3, <3>2, <3>6 DEF Told
  <2>4. CASE ~\A i \in Coming(m) : i < 2
    BY <2>2, <2>4 DEF Told
  <2> QED
    BY <2>3, <2>4
<1>7. (On(m) = {} /\ status[m] # "absent" => Told(1, x, m)) /\ ~Uncertain(1, m)
        /\ ((\E h \in On(m) : h.kind \in {"created", "deleted"}) \/ (Listed(1, x, m) <=> status[m] # "absent"))
      => (On(m) = {} /\ status[m] # "absent" => Told(2, y, m))
  BY <1>6
<1> QED
  BY <1>2, <1>4, <1>5, <1>7 DEF Follows, y

\* A handler that emits tells the row, unless it was overlapped: the events then follow any
\* point as before.
LEMMA FollowsEmitted ==
  ASSUME ViewTypeOK, HandlersKnown, NEW h \in handlers, h.at = "emit", handlers' = handlers \ {h},
         UNCHANGED <<status, pinned>>, NEW e \in Events, e.of = h.of, e.kind = h.kind, e.alone = h.alone,
         e.status \in Carried(h), wire' = Append(wire, e), NEW x, NEW k \in 1 .. Len(wire) + 1, Follows(k, x, h.of)
  PROVE  Follows(k, x, h.of)'
<1> DEFINE m == h.of
           n == Len(wire)
<1>0. /\ n \in Nat /\ Len(wire') = n + 1 /\ wire'[n + 1] = e /\ wire \in Seq(Events)
      /\ \A i \in 1 .. n : wire'[i] = wire[i]
  BY AppendedEvents DEF ViewTypeOK
<1>1. Coming(m)' = Coming(m) \cup {n + 1} /\ Coming(m) \subseteq 1 .. n
  BY <1>0, SentEvents DEF Coming
<1>2. CASE ~h.alone
  <2>1. n + 1 \in Coming(m)' /\ n + 1 >= k /\ ~wire'[n + 1].alone
    BY <1>0, <1>1, <1>2
  <2> QED
    BY <2>1 DEF Follows, Uncertain
<1>3. CASE h.alone /\ Uncertain(k, m)
  <2>1. On(m) = {h}
    BY <1>3 DEF HandlersKnown, Undisturbed
  <2>2. PICK i \in Coming(m) : i >= k /\ ~wire[i].alone
    BY <1>3, <2>1 DEF Uncertain
  <2>3. i \in Coming(m)' /\ ~wire'[i].alone
    BY <1>0, <1>1, <2>2
  <2> QED
    BY <2>2, <2>3 DEF Follows, Uncertain
<1>4. CASE h.alone /\ ~Uncertain(k, m)
  <2>1. /\ On(m) = {h} /\ h.kind \notin {"alert", "push"}
        /\ h.kind = "created" => status[m] # "absent"
        /\ h.kind = "deleted" => status[m] = "absent"
        /\ h.kind = "updated" => status[m] = h.status
        /\ h.kind = "heartbeat" => status[m] = h.status
    BY <1>4 DEF HandlersKnown, Undisturbed
  <2>2. h.kind \in {"created", "deleted"} \/ (Listed(k, x, m) <=> status[m] # "absent")
    BY <1>4, <2>1 DEF Follows
  <2>3. Listed(k, x, m)' <=> status'[m] # "absent"
    BY <1>0, <2>1, <2>2, ListedAfter
  <2>4. status[m] # "absent" => Told(k, x, m)'
    <3> SUFFICES ASSUME status[m] # "absent" PROVE Told(k, x, m)'
      OBVIOUS
    <3>1. Looks(e.status, status[m], m)
      BY <1>4, <2>1 DEF ViewTypeOK, Handlers, Carried, Looks
    <3>2. \A i \in Coming(m)' : (\A j \in Coming(m)' : j <= i) => i = n + 1
      BY <1>0, <1>1
    <3>3. n + 1 \in Coming(m)' /\ ~(n + 1 < k)
      BY <1>0, <1>1
    <3> QED
      BY <1>0, <3>1, <3>2, <3>3 DEF Told, Looks
  <2> QED
    BY <2>3, <2>4 DEF Follows
<1> QED
  BY <1>2, <1>3, <1>4

\* A handler that begins is alone, or marks all those of its monitor.
LEMMA BegunHandler ==
  ASSUME NEW h, h.alone = (On(h.of) = {}), handlers' = With(h), handlers \subseteq Handlers
  PROVE  /\ \A x : x # h.of => On(x)' = On(x)
         /\ On(h.of) = {} => On(h.of)' = {h}
         /\ On(h.of) # {} => h \in On(h.of)' /\ ~h.alone
         /\ \A g \in handlers' :
              \/ g = h
              \/ g \in handlers /\ g.of # h.of
              \/ ~g.alone /\ \E f \in handlers : g.kind = f.kind /\ g.status = f.status
<1>1. ASSUME NEW f \in handlers
      PROVE  LET g == [f EXCEPT !.alone = FALSE]
             IN  g.of = f.of /\ g.kind = f.kind /\ g.status = f.status /\ ~g.alone
  BY DEF Handlers
<1>2. \A x : x # h.of => On(x)' = On(x)
  BY <1>1 DEF On, With
<1>3. On(h.of) = {} => On(h.of)' = {h}
  BY <1>1 DEF On, With
<1>4. h \in On(h.of)'
  BY DEF On, With
<1>5. ASSUME NEW g \in handlers'
      PROVE  \/ g = h
             \/ g \in handlers /\ g.of # h.of
             \/ ~g.alone /\ \E f \in handlers : g.kind = f.kind /\ g.status = f.status
  BY <1>1 DEF With
<1> QED
  BY <1>2, <1>3, <1>4, <1>5

\* A handler that begins answers for what the row now is.
LEMMA FollowsBegun ==
  ASSUME ViewTypeOK, NEW m, NEW h, On(m) = {} => On(m)' = {h},
         On(m) # {} => h \in On(m)' /\ ~h.alone,
         \/ wire' = wire
         \/ \E e \in Events : e.of = m /\ e.kind = "change" /\ wire' = Append(wire, e),
         NEW x, NEW y, NEW k \in 1 .. Len(wire) + 1,
         \/ h.kind \in {"created", "deleted"}
         \/ (x = "absent" <=> y = "absent") /\ (status'[m] = "absent" <=> status[m] = "absent"),
         Follows(k, x, m)
  PROVE  Follows(k, y, m)'
<1>0. Len(wire) \in Nat /\ DOMAIN wire = 1 .. Len(wire)
  BY DEF ViewTypeOK
<1>1. CASE On(m) # {}
  BY <1>1 DEF Follows, Uncertain
<1>2. CASE On(m) = {} /\ Uncertain(k, m)
  <2>1. PICK i \in Coming(m) : i >= k /\ ~wire[i].alone
    BY <1>2 DEF Uncertain
  <2>2. i \in Coming(m)' /\ wire'[i] = wire[i]
    <3>1. CASE wire' = wire
      BY <3>1 DEF Coming
    <3>2. ASSUME NEW e \in Events, wire' = Append(wire, e) PROVE i \in Coming(m)' /\ wire'[i] = wire[i]
      <4>1. i \in 1 .. Len(wire)
        BY <1>0 DEF Coming
      <4> QED
        BY <3>2, <4>1, AppendedEvents, SentEvents DEF ViewTypeOK
    <3> QED
      BY <3>1, <3>2
  <2> QED
    BY <2>1, <2>2 DEF Follows, Uncertain
<1>3. CASE On(m) = {} /\ ~Uncertain(k, m) /\ h.kind \in {"created", "deleted"}
  BY <1>3 DEF Follows
<1>4. CASE /\ On(m) = {} /\ ~Uncertain(k, m) /\ h.kind \notin {"created", "deleted"}
  <2>1. Listed(k, x, m) <=> status[m] # "absent"
    BY <1>4 DEF Follows
  <2>2. Listed(k, y, m) <=> status'[m] # "absent"
    BY <1>4, <2>1, ListedAlike
  <2>3. Listed(k, y, m)' <=> Listed(k, y, m)
    <3>1. CASE wire' = wire
      BY <3>1 DEF Listed
    <3>2. ASSUME NEW e \in Events, e.kind = "change", wire' = Append(wire, e)
          PROVE  Listed(k, y, m)' <=> Listed(k, y, m)
      BY <3>2, ListedAfter DEF ViewTypeOK
    <3> QED
      BY <3>1, <3>2
  <2>4. On(m)' # {}
    BY <1>4
  <2> QED
    BY <2>2, <2>3, <2>4 DEF Follows
<1> QED
  BY <1>1, <1>2, <1>3, <1>4

\* A beat's write is told by the event it has yet to emit.
LEMMA FollowsWritten ==
  ASSUME ViewTypeOK, NEW m, NEW h \in On(m), NEW g, g.alone = h.alone, g.kind = h.kind, g.of = m,
         handlers' = (handlers \ {h}) \cup {g}, wire' = wire, h.kind = "heartbeat",
         NEW x, NEW y, NEW k, x = "absent" <=> y = "absent",
         status'[m] = "absent" <=> status[m] = "absent", Follows(k, x, m)
  PROVE  Follows(k, y, m)'
<1>1. On(m)' = (On(m) \ {h}) \cup {g} /\ On(m)' # {}
  BY DEF On
<1>2. Coming(m)' = Coming(m)
  BY DEF Coming
<1>3. Uncertain(k, m) => Uncertain(k, m)'
  BY <1>1, <1>2 DEF Uncertain
<1>4. Listed(k, y, m)' <=> Listed(k, x, m)
  BY ListedAlike DEF Listed
<1>5. (\E f \in On(m) : f.kind \in {"created", "deleted"})
        => (\E f \in On(m)' : f.kind \in {"created", "deleted"})
  BY <1>1
<1> QED
  BY <1>1, <1>3, <1>4, <1>5 DEF Follows

\* A step that leaves store and session alone keeps what the tab shows, if the events still
\* lead where they did.
LEMMA ViewCarried ==
  ASSUME ViewShown, UNCHANGED <<session, store>>, excused => excused',
         \A f \in fetches' : f.clean /\ f.reply # Null => f \in fetches,
         \A m \in Monitors : \A x :
           Home[m] = session /\ Follows(1, x, m) => Follows(1, x, m)'
  PROVE  ViewShown'
<1>1. ASSUME NEW view, Current(view) PROVE Current(view)'
  BY <1>1 DEF Current
<1>2. (~excused => Current(store))'
  BY DEF ViewShown, Current
<1> QED
  BY <1>1, <1>2 DEF ViewShown

\* A tab that something has passed by promises nothing.
LEMMA DirtyView ==
  ASSUME excused', \A f \in fetches' : f.clean => f.reply = Null
  PROVE  ViewShown'
BY DEF ViewShown

\* What is never sent, or reaches nobody, excuses the tab when it concerns it.
LEMMA ViewPassed ==
  ASSUME ViewTypeOK, EventsKnown, ViewShown, NEW y \in Monitors, wire' = Outdated(y),
         Concerns(y) => fetches' = Missed /\ excused',
         ~Concerns(y) => fetches' = fetches /\ excused' = excused,
         UNCHANGED <<session, store, status, pinned>>,
         \A m \in Monitors : m # y => On(m)' = On(m)
  PROVE  (EventsKnown /\ ViewShown)'
<1>0. wire \in Seq(Events) /\ Len(wire) \in Nat /\ DOMAIN wire = 1 .. Len(wire)
  BY DEF ViewTypeOK
<1>2. /\ Len(wire') = Len(wire) /\ DOMAIN wire' = 1 .. Len(wire)
      /\ \A i \in 1 .. Len(wire) : wire'[i].kind = wire[i].kind /\ wire'[i].status = wire[i].status
  BY <1>0, StaleEvents
<1>3. ASSUME NEW m \in Monitors, m # y, NEW k \in 1 .. Len(wire) + 1, NEW x, Follows(k, x, m)
      PROVE  Follows(k, x, m)'
  BY <1>0, <1>3, FollowsUndisturbed
<1>4. ASSUME NEW m \in Monitors, NEW k \in 1 .. Len(wire) + 1
      PROVE  Follows(k, status[m], m)'
  <2>1. CASE m # y
    <3>1. PICK x : x = status[m]
      OBVIOUS
    <3>2. Follows(k, x, m)'
      BY <1>3, <2>1, <3>1 DEF EventsKnown
    <3> QED
      BY <3>1, <3>2
  <2>2. CASE m = y
    BY <1>0, <2>2, FollowsStale
  <2> QED
    BY <2>1, <2>2
<1>5. EventsKnown'
  BY <1>0, <1>2, <1>4 DEF EventsKnown
<1>6. CASE Concerns(y)
  <2>1. \A f \in fetches' : f.clean => f.reply = Null
    BY <1>6, MissedFetches DEF ViewTypeOK
  <2>2. ViewShown'
    BY <1>6, <2>1, DirtyView
  <2> QED
    BY <1>5, <2>2
<1>7. CASE ~Concerns(y)
  <2>1. Home[y] # session
    BY <1>7, TenantAssumption DEF Concerns
  <2>2. 1 \in 1 .. Len(wire) + 1
    BY <1>0
  <2> QED
    BY <1>3, <1>5, <1>7, <2>1, <2>2, ViewCarried
<1> QED
  BY <1>6, <1>7

\* An event that is sent, or passes the tab by.
LEMMA ViewEmitted ==
  ASSUME ViewTypeOK, EventsKnown, ViewShown, UNCHANGED <<session, store>>, NEW e \in Events,
         Emit(e), e.kind # "alert", e.kind # "deleted" => e.status # "absent", UNCHANGED <<status, pinned>>,
         \A m \in Monitors : m # e.of => On(m)' = On(m),
         \A k \in 1 .. Len(wire) + 1 : \A x :
           Reaches(e) /\ Follows(k, x, e.of) => Follows(k, x, e.of)'
  PROVE  (EventsKnown /\ ViewShown)'
<1>0. e.of \in Monitors /\ wire \in Seq(Events) /\ Len(wire) \in Nat /\ DOMAIN wire = 1 .. Len(wire)
  BY DEF Events, About, ViewTypeOK
<1>1. CASE Reaches(e)
  <2>1. wire' = Append(wire, e) /\ UNCHANGED <<fetches, excused>>
    BY <1>1 DEF Emit
  <2>2. /\ Len(wire') = Len(wire) + 1 /\ DOMAIN wire' = 1 .. Len(wire) + 1
        /\ wire'[Len(wire) + 1] = e /\ \A i \in 1 .. Len(wire) : wire'[i] = wire[i]
    BY <1>0, <2>1, AppendedEvents
  <2>3. ASSUME NEW m \in Monitors, NEW k \in 1 .. Len(wire) + 1, NEW x, Follows(k, x, m)
        PROVE  Follows(k, x, m)'
    <3>1. CASE m = e.of
      BY <1>1, <2>3, <3>1
    <3>2. CASE m # e.of
      BY <1>0, <2>1, <2>3, <3>2, FollowsUndisturbed
    <3> QED
      BY <3>1, <3>2
  <2>4. ASSUME NEW m \in Monitors, NEW k \in 1 .. Len(wire') + 1
        PROVE  Follows(k, status[m], m)'
    <3>1. CASE k \in 1 .. Len(wire) + 1
      <4>1. PICK x : x = status[m]
        OBVIOUS
      <4>2. Follows(k, x, m)'
        BY <2>3, <3>1, <4>1 DEF EventsKnown
      <4> QED
        BY <4>1, <4>2
    <3>2. CASE k \notin 1 .. Len(wire) + 1
      <4>1. k \in Nat \ {0} /\ k .. Len(wire') = {} /\ k <= Len(wire') + 1 /\ Len(wire') \in Nat
        BY <1>0, <2>2, <3>2
      <4> QED
        BY <2>2, <4>1, FollowsUntold
    <3> QED
      BY <3>1, <3>2
  <2>5. EventsKnown'
    <3>1. \A i \in 1 .. Len(wire) + 1 : i \in 1 .. Len(wire) \/ i = Len(wire) + 1
      BY <1>0
    <3>2. (\A i \in DOMAIN wire :
             wire[i].kind # "alert" /\ (wire[i].kind # "deleted" => wire[i].status # "absent"))'
      BY <1>0, <2>2, <3>1 DEF EventsKnown
    <3> QED
      BY <2>4, <3>2 DEF EventsKnown
  <2>6. 1 \in 1 .. Len(wire) + 1
    BY <1>0
  <2> QED
    BY <2>1, <2>3, <2>5, <2>6, ViewCarried
<1>2. CASE ~Reaches(e)
  <2>1. /\ wire' = Outdated(e.of)
        /\ Concerns(e.of) => fetches' = Missed /\ excused'
        /\ ~Concerns(e.of) => fetches' = fetches /\ excused' = excused
    BY <1>2 DEF Emit, ViewTypeOK
  <2> QED
    BY <1>0, <2>1, ViewPassed
<1> QED
  BY <1>1, <1>2

\* The handlers stay known when one begins.
LEMMA HandlersBegun ==
  ASSUME ViewTypeOK, HandlersKnown, NEW h, h.of \in Monitors, h.alone = (On(h.of) = {}),
         h.kind \notin {"alert", "push"}, h.kind # "deleted" => h.status # "absent", handlers' = With(h),
         \A m \in Monitors : m # h.of => status'[m] = status[m],
         h.kind = "created" => status'[h.of] # "absent",
         h.kind = "deleted" => status'[h.of] = "absent",
         h.kind = "updated" => status'[h.of] = h.status,
         h.kind = "heartbeat" => status'[h.of] # "absent" /\ h.at = "write"
  PROVE  HandlersKnown'
<1>1. handlers \subseteq Handlers
  BY DEF ViewTypeOK
<1>2. ASSUME NEW g \in handlers'
      PROVE  g.kind # "alert" /\ (g.kind # "deleted" => g.status # "absent")
  BY <1>1, <1>2, BegunHandler DEF HandlersKnown
<1>3. ASSUME NEW g \in handlers', g.alone PROVE Undisturbed(g)'
  <2>1. CASE g = h
    <3>1. On(h.of)' = {h}
      BY <1>1, <1>3, <2>1, BegunHandler
    <3> QED
      BY <2>1, <3>1 DEF Undisturbed
  <2>2. CASE g \in handlers /\ g.of # h.of
    <3>1. On(g.of)' = On(g.of) /\ g.kind # "alert" /\ Undisturbed(g)
      BY <1>1, <1>3, <2>2, BegunHandler DEF HandlersKnown
    <3>2. g.of \in Monitors
      BY <1>1, <2>2, <3>1 DEF Handlers, About
    <3> QED
      BY <2>2, <3>1, <3>2 DEF Undisturbed
  <2> QED
    BY <1>1, <1>3, <2>1, <2>2, BegunHandler
<1> QED
  BY <1>2, <1>3 DEF HandlersKnown

\* A beat begins, and announces a change before it writes it.
LEMMA ViewBeat ==
  ASSUME ViewTypeOK, HandlersKnown, EventsKnown, ViewShown, NEW m \in Monitors, BeginBeat(m)
  PROVE  (HandlersKnown /\ EventsKnown /\ ViewShown)'
<1>1. PICK new \in Results(m) :
        /\ handlers' = With(Handler("heartbeat", m, new, "write"))
        /\ \/ Emit(Event("change", Handler("heartbeat", m, new, "write")))
           \/ UNCHANGED <<wire, fetches, excused>>
  BY DEF BeginBeat
<1>2. PICK h : h = Handler("heartbeat", m, new, "write")
  OBVIOUS
<1>3. /\ h.of = m /\ h.kind = "heartbeat" /\ h.status = new /\ h.at = "write"
      /\ h.alone = (On(m) = {}) /\ h \in Handlers /\ new # "absent"
  BY <1>2, NewHandler DEF Handler, About, Statuses, Active, Results
<1>4. /\ UNCHANGED <<status, pinned, session, store>> /\ status[m] \in Active /\ handlers' = With(h)
      /\ handlers \subseteq Handlers /\ Len(wire) \in Nat
  BY <1>1, <1>2 DEF BeginBeat, stores, user, ViewTypeOK
<1>5. HandlersKnown'
  BY <1>3, <1>4, HandlersBegun DEF Active
<1>6. /\ \A x : x # m => On(x)' = On(x)
      /\ On(m) = {} => On(m)' = {h}
      /\ On(m) # {} => h \in On(m)' /\ ~h.alone
  <2>1. h.alone = (On(h.of) = {}) /\ handlers' = With(h) /\ handlers \subseteq Handlers
    BY <1>3, <1>4
  <2>2. /\ \A x : x # h.of => On(x)' = On(x)
        /\ On(h.of) = {} => On(h.of)' = {h}
        /\ On(h.of) # {} => h \in On(h.of)' /\ ~h.alone
    BY <2>1, BegunHandler
  <2> QED
    BY <1>3, <1>4, <2>2
<1>7. CASE Emit(Event("change", h))
  <2>1. PICK e : e = Event("change", h)
    OBVIOUS
  <2>2. e \in Events /\ e.of = m /\ e.kind = "change" /\ e.status = new /\ Emit(e)
    BY <1>3, <1>7, <2>1 DEF Event, Events, Handlers, About
  <2>3. ASSUME NEW k \in 1 .. Len(wire) + 1, NEW x, Reaches(e), Follows(k, x, m)
        PROVE  Follows(k, x, m)'
    <3>1. wire' = Append(wire, e)
      BY <2>2, <2>3 DEF Emit
    <3> QED
      BY <1>4, <1>6, <2>2, <2>3, <3>1, FollowsBegun
  <2> QED
    BY <1>3, <1>4, <1>5, <1>6, <2>2, <2>3, ViewEmitted
<1>8. CASE UNCHANGED <<wire, fetches, excused>>
  <2>1. UNCHANGED <<wire, fetches, excused>>
    BY <1>8
  <2>2. ASSUME NEW n \in Monitors, NEW k \in 1 .. Len(wire) + 1, NEW x, Follows(k, x, n)
        PROVE  Follows(k, x, n)'
    <3>1. CASE n = m
      BY <1>4, <1>6, <2>1, <2>2, <3>1, FollowsBegun
    <3>2. CASE n # m
      BY <1>4, <1>6, <2>1, <2>2, <3>2, FollowsUndisturbed DEF ViewTypeOK
    <3> QED
      BY <3>1, <3>2
  <2>3. EventsKnown'
    <3>1. ASSUME NEW n \in Monitors, NEW k \in 1 .. Len(wire) + 1 PROVE Follows(k, status[n], n)'
      <4>1. PICK x : x = status[n]
        OBVIOUS
      <4>2. Follows(k, x, n)'
        BY <2>2, <4>1 DEF EventsKnown
      <4> QED
        BY <1>4, <4>1, <4>2
    <3> QED
      BY <2>1, <3>1 DEF EventsKnown
  <2>4. 1 \in 1 .. Len(wire) + 1
    BY <1>4
  <2> QED
    BY <1>4, <1>5, <2>1, <2>2, <2>3, <2>4, ViewCarried
<1> QED
  BY <1>1, <1>2, <1>7, <1>8

\* A request writes its row and has its event yet to emit.
LEMMA ViewRequest ==
  ASSUME ViewTypeOK, HandlersKnown, EventsKnown, ViewShown, NEW m \in Monitors,
         NEW kind \in {"created", "deleted", "updated"}, NEW new \in Statuses, Write(kind, m, new),
         kind = "created" => new # "absent",
         kind = "deleted" => new = "absent",
         kind = "updated" => new # "absent" /\ status[m] # "absent"
  PROVE  (HandlersKnown /\ EventsKnown /\ ViewShown)'
<1>1. PICK h : h = Handler(kind, m, new, "emit")
  OBVIOUS
<1>2. h.of = m /\ h.kind = kind /\ h.status = new /\ h.alone = (On(m) = {})
  BY <1>1 DEF Handler
<1>3. /\ status' = [status EXCEPT ![m] = new] /\ handlers' = With(h)
      /\ UNCHANGED <<session, store, wire, fetches, excused, pinned>>
      /\ handlers \subseteq Handlers /\ Len(wire) \in Nat /\ status'[m] = new
      /\ \A n \in Monitors : n # m => status'[n] = status[n]
  BY <1>1 DEF Write, link, stores, user, ViewTypeOK
<1>4. HandlersKnown'
  <2>1. /\ h.of \in Monitors /\ h.alone = (On(h.of) = {}) /\ handlers' = With(h)
        /\ \A n \in Monitors : n # h.of => status'[n] = status[n]
    BY <1>2, <1>3
  <2>2. h.kind \notin {"alert", "push"} /\ h.kind # "heartbeat" /\ (h.kind # "deleted" => h.status # "absent")
    BY <1>2
  <2>3. /\ h.kind = "created" => status'[h.of] # "absent"
        /\ h.kind = "deleted" => status'[h.of] = "absent"
        /\ h.kind = "updated" => status'[h.of] = h.status
    BY <1>2, <1>3
  <2> QED
    BY <2>1, <2>2, <2>3, HandlersBegun
<1>5. /\ \A x : x # m => On(x)' = On(x)
      /\ On(m) = {} => On(m)' = {h}
      /\ On(m) # {} => h \in On(m)' /\ ~h.alone
  <2>1. h.alone = (On(h.of) = {}) /\ handlers' = With(h) /\ handlers \subseteq Handlers
    BY <1>2, <1>3
  <2>2. /\ \A x : x # h.of => On(x)' = On(x)
        /\ On(h.of) = {} => On(h.of)' = {h}
        /\ On(h.of) # {} => h \in On(h.of)' /\ ~h.alone
    BY <2>1, BegunHandler
  <2> QED
    BY <1>2, <1>3, <2>2
<1>6. ASSUME NEW n \in Monitors, n # m, NEW k \in 1 .. Len(wire) + 1, NEW x, Follows(k, x, n)
      PROVE  Follows(k, x, n)'
  BY <1>3, <1>5, <1>6, FollowsUndisturbed DEF ViewTypeOK
<1>7. ASSUME NEW k \in 1 .. Len(wire) + 1, NEW x, NEW y, Follows(k, x, m),
             x = y \/ (x = status[m] /\ y = new)
      PROVE  Follows(k, y, m)'
  BY <1>2, <1>3, <1>5, <1>7, FollowsBegun
<1>8. EventsKnown'
  <2>1. ASSUME NEW n \in Monitors, NEW k \in 1 .. Len(wire) + 1 PROVE Follows(k, status[n], n)'
    <3>1. PICK x : x = status[n]
      OBVIOUS
    <3>2. PICK y : y = status'[n]
      OBVIOUS
    <3>3. Follows(k, x, n)
      BY <3>1 DEF EventsKnown
    <3>4. Follows(k, y, n)'
      BY <1>3, <1>6, <1>7, <3>1, <3>2, <3>3
    <3> QED
      BY <3>2, <3>4
  <2> QED
    BY <1>3, <2>1 DEF EventsKnown
<1>9. 1 \in 1 .. Len(wire) + 1
  BY <1>3
<1> QED
  BY <1>3, <1>4, <1>6, <1>7, <1>8, <1>9, ViewCarried

\* A row written apart from its events makes them uncertain, and excuses the tab.
LEMMA ViewRewritten ==
  ASSUME ViewTypeOK, HandlersKnown, EventsKnown, NEW m \in Monitors, NEW rest \in SUBSET handlers,
         \A h \in handlers \ rest : h.of = m,
         handlers' = {[h EXCEPT !.alone = h.of # m /\ h.alone] : h \in rest},
         wire' = Outdated(m), excused', fetches' = Missed, UNCHANGED pinned,
         \A n \in Monitors : n # m => status'[n] = status[n]
  PROVE  (HandlersKnown /\ EventsKnown /\ ViewShown)'
<1> DEFINE marked(h) == [h EXCEPT !.alone = h.of # m /\ h.alone]
<1>1. handlers' = {marked(h) : h \in rest}
  OBVIOUS
<1>2. ASSUME NEW h \in handlers
      PROVE  /\ marked(h).of = h.of /\ marked(h).kind = h.kind /\ marked(h).status = h.status
             /\ marked(h).alone => h.of # m /\ h.alone
             /\ h.of # m => marked(h) = h
  BY DEF ViewTypeOK, Handlers
<1> HIDE DEF marked
<1>3. \A x : x # m => On(x)' = On(x)
  BY <1>1, <1>2 DEF On
<1>4. HandlersKnown'
  <2>1. ASSUME NEW h \in rest
        PROVE  /\ marked(h).kind # "alert" /\ (marked(h).kind # "deleted" => marked(h).status # "absent")
               /\ marked(h).alone => Undisturbed(marked(h))'
    <3>1. ASSUME h.of # m, h.alone PROVE Undisturbed(h)'
      <4>1. h.of \in Monitors /\ Undisturbed(h)
        BY <3>1 DEF HandlersKnown, ViewTypeOK, Handlers, About
      <4>2. On(h.of)' = On(h.of) /\ status'[h.of] = status[h.of]
        BY <1>1, <1>3, <3>1, <4>1
      <4> QED
        BY <4>1, <4>2 DEF Undisturbed
    <3> QED
      BY <1>2, <3>1 DEF HandlersKnown
  <2> QED
    BY <1>1, <2>1 DEF HandlersKnown
<1>5. EventsKnown'
  <2>1. /\ Len(wire) \in Nat /\ DOMAIN wire = 1 .. Len(wire)
        /\ Len(wire') = Len(wire) /\ DOMAIN wire' = 1 .. Len(wire)
        /\ \A i \in 1 .. Len(wire) : wire'[i].kind = wire[i].kind /\ wire'[i].status = wire[i].status
    BY <1>1, StaleEvents DEF ViewTypeOK
  <2>2. ASSUME NEW n \in Monitors, NEW k \in 1 .. Len(wire) + 1 PROVE Follows(k, status[n], n)'
    <3>1. CASE n = m
      BY <1>1, <3>1, FollowsStale DEF ViewTypeOK
    <3>2. CASE n # m
      <4>1. PICK x : x = status[n]
        OBVIOUS
      <4>2. Follows(k, x, n)
        BY <4>1 DEF EventsKnown
      <4>3. Follows(k, x, n)'
        BY <1>1, <1>3, <3>2, <4>2, FollowsUndisturbed DEF ViewTypeOK
      <4> QED
        BY <1>1, <3>2, <4>1, <4>3
    <3> QED
      BY <3>1, <3>2
  <2> QED
    BY <2>1, <2>2 DEF EventsKnown
<1>6. \A f \in fetches' : f.clean => f.reply = Null
  BY <1>1, MissedFetches DEF ViewTypeOK
<1> QED
  BY <1>1, <1>4, <1>5, <1>6, DirtyView

\* A write that nobody announces excuses the tab.
LEMMA ViewQuiet ==
  ASSUME ViewTypeOK, HandlersKnown, EventsKnown, NEW m \in Monitors, WriteQuietly(m)
  PROVE  (HandlersKnown /\ EventsKnown /\ ViewShown)'
<1>1. /\ handlers' = {[h EXCEPT !.alone = h.of # m /\ h.alone] : h \in handlers}
      /\ wire' = Outdated(m) /\ excused' /\ fetches' = Missed /\ UNCHANGED pinned
      /\ \A n \in Monitors : n # m => status'[n] = status[n]
  BY DEF WriteQuietly, user, ViewTypeOK
<1> QED
  BY <1>1, ViewRewritten

\* So does the row of a push, whose events may have gone before.
LEMMA ViewPushWritten ==
  ASSUME ViewTypeOK, HandlersKnown, EventsKnown, NEW h \in handlers, WritePush(h)
  PROVE  (HandlersKnown /\ EventsKnown /\ ViewShown)'
<1>1. PICK m : m = h.of
  OBVIOUS
<1>2. m \in Monitors
  BY <1>1 DEF WritePush, ViewTypeOK, Handlers, About
<1>3. /\ handlers' = {[k EXCEPT !.alone = k.of # m /\ k.alone] : k \in handlers \ {h}}
      /\ wire' = Outdated(m) /\ excused' /\ fetches' = Missed /\ UNCHANGED pinned
      /\ \A n \in Monitors : n # m => status'[n] = status[n]
  BY <1>1, <1>2 DEF WritePush, user, ViewTypeOK
<1>4. handlers \ {h} \in SUBSET handlers /\ \A k \in handlers \ (handlers \ {h}) : k.of = m
  BY <1>1
<1> QED
  BY <1>2, <1>3, <1>4, ViewRewritten

\* A beat writes its status.
LEMMA ViewWritten ==
  ASSUME ViewTypeOK, HandlersKnown, EventsKnown, ViewShown, NEW h \in handlers, WriteBeat(h)
  PROVE  (HandlersKnown /\ EventsKnown /\ ViewShown)'
<1> DEFINE m == h.of
<1>1. PICK g : g = [h EXCEPT !.at = "emit"]
  OBVIOUS
<1>2. /\ h \in Handlers /\ h.kind = "heartbeat" /\ m \in Monitors /\ h.at = "write"
      /\ h.status \in Statuses \ {"absent"}
  BY DEF WriteBeat, ViewTypeOK, HandlersKnown, Handlers, About
<1>3. g.of = m /\ g.kind = h.kind /\ g.alone = h.alone /\ g.status = h.status /\ g.at = "emit"
  BY <1>1, <1>2 DEF Handlers
<1>4. /\ handlers' = (handlers \ {h}) \cup {g}
      /\ status'[m] = (IF status[m] = "absent" THEN "absent" ELSE h.status)
      /\ \A n \in Monitors : n # m => status'[n] = status[n]
      /\ UNCHANGED <<session, store, wire, fetches, excused, pinned>>
      /\ Len(wire) \in Nat /\ h \in On(m)
  BY <1>1, <1>2 DEF WriteBeat, link, stores, user, ViewTypeOK, On
<1>5. status'[m] = "absent" <=> status[m] = "absent"
  BY <1>2, <1>4
<1>6. /\ On(m)' = (On(m) \ {h}) \cup {g}
      /\ \A x : x # m => On(x)' = On(x)
  BY <1>3, <1>4 DEF On
<1>7. HandlersKnown'
  <2>1. ASSUME NEW f \in handlers', f.alone PROVE Undisturbed(f)'
    <3>1. CASE f = g
      <4>1. Undisturbed(h)
        BY <1>3, <2>1, <3>1 DEF HandlersKnown
      <4>2. On(g.of)' = {g}
        BY <1>3, <1>6, <4>1 DEF Undisturbed
      <4> QED
        BY <1>2, <1>3, <1>4, <3>1, <4>1, <4>2 DEF Undisturbed
    <3>2. CASE f # g
      <4>1. f \in handlers /\ f # h /\ Undisturbed(f) /\ f.of \in Monitors
        BY <1>4, <2>1, <3>2 DEF HandlersKnown, ViewTypeOK, Handlers, About
      <4>2. f.of # m
        BY <1>4, <4>1 DEF Undisturbed
      <4> QED
        BY <1>4, <1>6, <4>1, <4>2 DEF Undisturbed
    <3> QED
      BY <3>1, <3>2
  <2>2. ASSUME NEW f \in handlers'
        PROVE  f.kind # "alert" /\ (f.kind # "deleted" => f.status # "absent")
    BY <1>2, <1>3, <1>4 DEF HandlersKnown
  <2> QED
    BY <2>1, <2>2 DEF HandlersKnown
<1>8. ASSUME NEW n \in Monitors, NEW k \in 1 .. Len(wire) + 1, NEW x, NEW y, Follows(k, x, n),
             x = y \/ (x = status[n] /\ y = status'[n])
      PROVE  Follows(k, y, n)'
  <2>1. CASE n = m
    BY <1>2, <1>3, <1>4, <1>5, <1>8, <2>1, FollowsWritten
  <2>2. CASE n # m
    BY <1>4, <1>6, <1>8, <2>2, FollowsUndisturbed DEF ViewTypeOK
  <2> QED
    BY <2>1, <2>2
<1>9. EventsKnown'
  <2>1. ASSUME NEW n \in Monitors, NEW k \in 1 .. Len(wire) + 1 PROVE Follows(k, status[n], n)'
    <3>1. PICK x : x = status[n]
      OBVIOUS
    <3>2. PICK y : y = status'[n]
      OBVIOUS
    <3>3. Follows(k, x, n)
      BY <3>1 DEF EventsKnown
    <3>4. Follows(k, y, n)'
      BY <1>8, <3>1, <3>2, <3>3
    <3> QED
      BY <3>2, <3>4
  <2> QED
    BY <1>4, <2>1 DEF EventsKnown
<1>10. 1 \in 1 .. Len(wire) + 1
  BY <1>4
<1> QED
  BY <1>4, <1>7, <1>8, <1>9, <1>10, ViewCarried

\* The handlers that are left stay known.
LEMMA HandlersLeft ==
  ASSUME HandlersKnown, NEW h \in handlers, handlers' = handlers \ {h}, UNCHANGED status
  PROVE  HandlersKnown'
<1>1. \A x : x # h.of => On(x)' = On(x)
  BY DEF On
<1>2. ASSUME NEW f \in handlers', f.alone PROVE Undisturbed(f)'
  <2>1. f \in handlers /\ f # h /\ Undisturbed(f) /\ h \in On(h.of)
    BY <1>2 DEF HandlersKnown, On
  <2>2. f.of # h.of
    BY <2>1 DEF Undisturbed
  <2> QED
    BY <1>1, <2>1, <2>2 DEF Undisturbed
<1> QED
  BY <1>2 DEF HandlersKnown

\* A handler emits.
LEMMA ViewSent ==
  ASSUME ViewTypeOK, HandlersKnown, EventsKnown, ViewShown, NEW h \in handlers, EmitFor(h)
  PROVE  (HandlersKnown /\ EventsKnown /\ ViewShown)'
<1>1. /\ h \in Handlers /\ h.kind # "alert" /\ h.of \in Monitors
      /\ h.kind # "deleted" => h.status # "absent"
      /\ h.at = "emit" /\ handlers' = handlers \ {h}
      /\ UNCHANGED <<status, session, store, pinned>>
  BY DEF EmitFor, ViewTypeOK, HandlersKnown, Handlers, About, stores, user
<1>2. PICK s \in Carried(h) : Emit([Event(h.kind, h) EXCEPT !.status = s])
  BY DEF EmitFor
<1>3. PICK e : e = [Event(h.kind, h) EXCEPT !.status = s]
  OBVIOUS
<1>4. Emit(e)
  BY <1>2, <1>3
<1>5. /\ e \in Events /\ e.of = h.of /\ e.kind = h.kind /\ e.alone = h.alone
      /\ e.status \in Carried(h)
  BY <1>3, CarriedEvents
<1>6. \A x : x # h.of => On(x)' = On(x)
  BY <1>1 DEF On
<1>7. e.kind # "deleted" => e.status # "absent"
  BY <1>1, <1>5 DEF Carried
<1>8. HandlersKnown'
  BY <1>1, HandlersLeft
<1>9. ASSUME NEW k \in 1 .. Len(wire) + 1, NEW x, Reaches(e), Follows(k, x, h.of)
      PROVE  Follows(k, x, h.of)'
  <2>1. wire' = Append(wire, e)
    BY <1>4, <1>9 DEF Emit
  <2> QED
    BY <1>1, <1>5, <1>9, <2>1, FollowsEmitted
<1> QED
  BY <1>1, <1>4, <1>5, <1>6, <1>7, <1>8, <1>9, ViewEmitted

\* A handler fails: what it had yet to tell never comes.
LEMMA ViewFailed ==
  ASSUME ViewTypeOK, HandlersKnown, EventsKnown, ViewShown, NEW h \in handlers, Fail(h)
  PROVE  (HandlersKnown /\ EventsKnown /\ ViewShown)'
<1>1. PICK y : y = h.of
  OBVIOUS
<1>2. y \in Monitors
  BY <1>1 DEF ViewTypeOK, HandlersKnown, Handlers, About
<1>3. /\ wire' = Outdated(y) /\ handlers' = handlers \ {h}
      /\ Concerns(y) => fetches' = Missed /\ excused'
      /\ ~Concerns(y) => fetches' = fetches /\ excused' = excused
      /\ UNCHANGED <<session, store, status, pinned>>
  BY <1>1 DEF Fail, ViewTypeOK, stores, user
<1>4. \A m : m # y => On(m)' = On(m)
  BY <1>1, <1>3 DEF On
<1>5. HandlersKnown'
  BY <1>3, HandlersLeft
<1> QED
  BY <1>2, <1>3, <1>4, <1>5, ViewPassed

\* The first beat of an agent's worker leaves the row alone, and its event is uncertain.
LEMMA ViewSkipped ==
  ASSUME ViewTypeOK, HandlersKnown, EventsKnown, ViewShown, NEW h \in handlers, SkipWrite(h)
  PROVE  (HandlersKnown /\ EventsKnown /\ ViewShown)'
<1>1. PICK m : m = h.of
  OBVIOUS
<1>2. PICK g : g = [h EXCEPT !.at = "emit", !.alone = FALSE]
  OBVIOUS
<1>3. h \in Handlers /\ m \in Monitors /\ h \in On(m) /\ Len(wire) \in Nat
  BY <1>1 DEF SkipWrite, ViewTypeOK, Handlers, About, On
<1>4. g.of = m /\ g.kind = h.kind /\ ~g.alone /\ g.status = h.status
  BY <1>1, <1>2, <1>3 DEF Handlers
<1>5. /\ handlers' = (handlers \ {h}) \cup {g}
      /\ UNCHANGED <<status, pinned, session, store, wire, fetches, excused>>
  BY <1>2 DEF SkipWrite, link, stores, user
<1>6. g \in On(m)' /\ \A x : x # m => On(x)' = On(x)
  BY <1>1, <1>4, <1>5 DEF On
<1>7. HandlersKnown'
  <2>1. ASSUME NEW f \in handlers', f.alone PROVE Undisturbed(f)'
    <3>1. f \in handlers /\ f # h /\ Undisturbed(f)
      BY <1>4, <1>5, <2>1 DEF HandlersKnown
    <3>2. f.of # m
      BY <1>3, <3>1 DEF Undisturbed
    <3> QED
      BY <1>5, <1>6, <3>1, <3>2 DEF Undisturbed
  <2>2. ASSUME NEW f \in handlers'
        PROVE  f.kind # "alert" /\ (f.kind # "deleted" => f.status # "absent")
    BY <1>4, <1>5 DEF HandlersKnown
  <2> QED
    BY <2>1, <2>2 DEF HandlersKnown
<1>8. ASSUME NEW n \in Monitors, NEW k \in 1 .. Len(wire) + 1, NEW x, Follows(k, x, n)
      PROVE  Follows(k, x, n)'
  <2>1. CASE n = m
    BY <1>4, <1>6, <2>1 DEF Follows, Uncertain
  <2>2. CASE n # m
    BY <1>5, <1>6, <1>8, <2>2, FollowsUndisturbed DEF ViewTypeOK
  <2> QED
    BY <2>1, <2>2
<1>9. EventsKnown'
  <2>1. ASSUME NEW n \in Monitors, NEW k \in 1 .. Len(wire) + 1 PROVE Follows(k, status[n], n)'
    <3>1. PICK x : x = status[n]
      OBVIOUS
    <3>2. Follows(k, x, n)'
      BY <1>8, <3>1 DEF EventsKnown
    <3> QED
      BY <1>5, <3>1, <3>2
  <2> QED
    BY <1>5, <2>1 DEF EventsKnown
<1>10. 1 \in 1 .. Len(wire) + 1
  BY <1>3
<1> QED
  BY <1>5, <1>7, <1>8, <1>9, <1>10, ViewCarried

\* A push is announced, and has a row and a heartbeat yet to come: neither is sure.
LEMMA ViewPush ==
  ASSUME ViewTypeOK, HandlersKnown, EventsKnown, ViewShown, NEW m \in Monitors, Push(m)
  PROVE  (HandlersKnown /\ EventsKnown /\ ViewShown)'
<1>1. PICK new \in {"up", "alert"} :
        LET h == [Handler("push", m, new, "write") EXCEPT !.alone = FALSE]
        IN  /\ handlers' = With(h) \cup {[h EXCEPT !.status = "up", !.at = "emit"]}
            /\ Emit(Event("push", h))
  BY DEF Push
<1>2. PICK h : h = [Handler("push", m, new, "write") EXCEPT !.alone = FALSE]
  OBVIOUS
<1>3. PICK g : g = [h EXCEPT !.status = "up", !.at = "emit"]
  OBVIOUS
<1>4. /\ h \in Handlers /\ h.of = m /\ h.kind = "push" /\ h.status = new /\ ~h.alone
      /\ g.of = m /\ g.kind = "push" /\ g.status = "up" /\ ~g.alone
  BY <1>2, <1>3 DEF Statuses, Active, About, Handler, Handlers
<1>5. handlers' = With(h) \cup {g} /\ Emit(Event("push", h))
  BY <1>1, <1>2, <1>3
<1>6. PICK e : e = Event("push", h)
  OBVIOUS
<1>7. e \in Events /\ e.of = m /\ e.kind = "push" /\ e.status # "absent" /\ Emit(e)
  BY <1>4, <1>5, <1>6 DEF Event, Events, Handlers, About
<1>8. UNCHANGED <<status, pinned, session, store>> /\ handlers \subseteq Handlers
  BY DEF Push, stores, user, ViewTypeOK
<1>9. ASSUME NEW f \in handlers
      PROVE  LET k == [f EXCEPT !.alone = FALSE]
             IN  k.of = f.of /\ k.kind = f.kind /\ k.status = f.status /\ ~k.alone
  BY <1>8 DEF Handlers
<1>10. ASSUME NEW f \in handlers'
       PROVE  \/ f = h \/ f = g
              \/ f \in handlers /\ f.of # m
              \/ f.of = m /\ ~f.alone /\ \E k \in handlers : f.kind = k.kind /\ f.status = k.status
  BY <1>4, <1>5, <1>9 DEF With
<1>11. h \in On(m)' /\ \A x : x # m => On(x)' = On(x)
  <2>1. h \in handlers' /\ \A f \in handlers : f.of # m => f \in handlers'
    BY <1>4, <1>5 DEF With
  <2> QED
    BY <1>4, <1>10, <2>1 DEF On
<1>12. HandlersKnown'
  <2>1. ASSUME NEW f \in handlers'
        PROVE  f.kind # "alert" /\ (f.kind # "deleted" => f.status # "absent")
    BY <1>4, <1>10 DEF HandlersKnown
  <2>2. ASSUME NEW f \in handlers', f.alone PROVE Undisturbed(f)'
    <3>1. f \in handlers /\ f.of # m /\ Undisturbed(f)
      BY <1>4, <1>10, <2>2 DEF HandlersKnown
    <3> QED
      BY <1>8, <1>11, <3>1 DEF Undisturbed
  <2> QED
    BY <2>1, <2>2 DEF HandlersKnown
<1>13. \A k \in 1 .. Len(wire) + 1 : \A x : Follows(k, x, m)'
  BY <1>4, <1>11 DEF Follows, Uncertain
<1> QED
  BY <1>7, <1>8, <1>11, <1>12, <1>13, ViewEmitted

\* An event is delivered: the store takes it up, or the tab is excused.
LEMMA ViewDelivered ==
  ASSUME ViewTypeOK, HandlersKnown, EventsKnown, ViewShown, Deliver
  PROVE  (HandlersKnown /\ EventsKnown /\ ViewShown)'
<1>1. /\ wire # <<>> /\ wire' = Tail(wire) /\ Head(wire) = wire[1] /\ fetches' = Missed
      /\ UNCHANGED <<status, handlers, session, pinned>> /\ wire \in Seq(Events) /\ Len(wire) \in Nat \ {0}
      /\ DOMAIN wire = 1 .. Len(wire) /\ Len(wire') = Len(wire) - 1 /\ DOMAIN wire' = 1 .. Len(wire) - 1
      /\ \A i \in 1 .. Len(wire) - 1 : wire'[i] = wire[i + 1]
      /\ wire[1] \in Events
  BY DeliveredEvents DEF Deliver, ViewTypeOK, server, user
<1>2. HandlersKnown'
  BY <1>1 DEF HandlersKnown, Undisturbed, On
<1>3. EventsKnown'
  <2>1. ASSUME NEW m \in Monitors, NEW k \in 1 .. Len(wire') + 1 PROVE Follows(k, status[m], m)'
    <3>1. k \in 1 .. Len(wire) /\ k + 1 \in 1 .. Len(wire) + 1
      BY <1>1
    <3>2. PICK x : x = status[m]
      OBVIOUS
    <3>3. Follows(k + 1, x, m)
      BY <3>1, <3>2 DEF EventsKnown
    <3>4. Follows(k, x, m)'
      BY <1>1, <3>1, <3>3, FollowsDelivered
    <3> QED
      BY <1>1, <3>2, <3>4
  <2>2. \A i \in 1 .. Len(wire) - 1 : i + 1 \in 1 .. Len(wire)
    BY <1>1
  <2>3. (\A i \in DOMAIN wire :
           wire[i].kind # "alert" /\ (wire[i].kind # "deleted" => wire[i].status # "absent"))'
    BY <1>1, <2>2 DEF EventsKnown
  <2> QED
    BY <2>1, <2>3 DEF EventsKnown
<1>4. \A f \in fetches' : f.clean => f.reply = Null
  BY <1>1, MissedFetches DEF ViewTypeOK
<1>5. PICK e : e = wire[1]
  OBVIOUS
<1>6. /\ e.kind # "alert" /\ (e.kind # "deleted" => e.status # "absent")
      /\ e.of \in Monitors /\ e.alone \in BOOLEAN /\ e.status \in Statuses
  <2>1. 1 \in DOMAIN wire
    BY <1>1
  <2> QED
    BY <1>1, <1>5, <2>1 DEF EventsKnown, Events, About
<1>7. CASE excused \/ ~heard \/ ~e.alone \/ session # Home[e.of]
  <2>1. excused'
    BY <1>1, <1>5, <1>6, <1>7 DEF Deliver, ViewTypeOK
  <2> QED
    BY <1>2, <1>3, <1>4, <2>1, DirtyView
<1>8. CASE ~excused /\ heard /\ e.alone /\ session = Home[e.of]
  <2>1. store' = Changed(e)
    BY <1>1, <1>5, <1>8 DEF Deliver
  <2>2. store'[e.of] = Becomes(e, store[e.of]) /\ \A m \in Monitors : m # e.of => store'[m] = store[m]
    BY <1>6, <2>1 DEF Changed, Becomes, ViewTypeOK
  <2>3. Current(store)
    BY <1>8 DEF ViewShown
  <2>4. ASSUME NEW m \in Monitors, Home[m] = session PROVE Follows(1, store[m], m)'
    <3>1. PICK x : x = store[m]
      OBVIOUS
    <3>2. PICK y : y = store'[m]
      OBVIOUS
    <3>3. Follows(1, x, m)
      BY <2>3, <2>4, <3>1 DEF Current
    <3>4. Follows(2, y, m)
      <4>1. CASE m = e.of
        <5>1. y = Becomes(wire[1], x)
          BY <1>5, <2>2, <3>1, <3>2, <4>1
        <5> QED
          BY <1>1, <1>5, <1>6, <1>8, <3>3, <4>1, <5>1, HeadHere
      <4>2. CASE m # e.of
        BY <1>1, <1>5, <2>2, <3>1, <3>2, <3>3, <4>2, HeadElsewhere
      <4> QED
        BY <4>1, <4>2
    <3>5. 1 \in 1 .. Len(wire) /\ 1 + 1 = 2
      BY <1>1
    <3>6. Follows(1, y, m)'
      BY <1>1, <3>4, <3>5, FollowsDelivered
    <3> QED
      BY <3>2, <3>6
  <2>5. ASSUME NEW m \in Monitors, Home[m] # session PROVE store'[m] = "absent"
    BY <1>8, <2>2, <2>3, <2>5 DEF Current
  <2>6. Current(store)'
    BY <1>1, <2>4, <2>5 DEF Current
  <2> QED
    BY <1>2, <1>3, <1>4, <2>6 DEF ViewShown
<1> QED
  BY <1>6, <1>7, <1>8 DEF ViewTypeOK

\* Steps that leave the server alone keep what its handlers and events tell.
LEMMA ViewUntold ==
  ASSUME ViewTypeOK, HandlersKnown, EventsKnown, UNCHANGED <<status, handlers, pinned>>,
         wire' = wire \/ wire' = <<>>
  PROVE  (HandlersKnown /\ EventsKnown)'
<1>1. HandlersKnown'
  BY DEF HandlersKnown, Undisturbed, On
<1>2. CASE wire' = wire
  BY <1>1, <1>2 DEF EventsKnown, Follows, Uncertain, Listed, Told, Looks, Coming, On
<1>3. CASE wire' = <<>>
  <2>1. Len(wire') = 0 /\ DOMAIN wire' = {} /\ DOMAIN wire' = 1 .. Len(wire')
    BY <1>3
  <2>2. ASSUME NEW m \in Monitors, NEW k \in 1 .. Len(wire') + 1 PROVE Follows(k, status[m], m)'
    <3>1. k = 1 /\ k .. Len(wire') = {}
      BY <2>1
    <3> QED
      BY <2>1, <3>1, FollowsUntold
  <2> QED
    BY <1>1, <2>1, <2>2 DEF EventsKnown
<1> QED
  BY <1>2, <1>3

\* A reply shows the rows as they are, and every event on its way follows it.
LEMMA ViewReplied ==
  ASSUME ViewTypeOK, topic = "monitors", EventsKnown, ViewShown, session # Null,
         NEW f \in fetches, Reply(f)
  PROVE  ViewShown'
<1>1. PICK view : view = Visible
  OBVIOUS
<1>2. PICK g : g = [f EXCEPT !.reply = view]
  OBVIOUS
<1>3. /\ fetches' = (fetches \ {f}) \cup {g}
      /\ UNCHANGED <<status, handlers, session, wire, store, excused, pinned>>
  BY <1>1, <1>2 DEF Reply, server, link, stores, user
<1>4. g.reply = view
  BY <1>2 DEF ViewTypeOK, Fetches
<1>5. \A m \in Monitors : view[m] = IF Home[m] = session THEN status[m] ELSE "absent"
  BY <1>1 DEF Visible
<1>6. ASSUME NEW m \in Monitors, NEW x, Follows(1, x, m)
      PROVE  Follows(1, x, m)'
  BY <1>3, <1>6 DEF Follows, Uncertain, Listed, Told, Looks, Coming, On
<1>7. ASSUME NEW v, Current(v) PROVE Current(v)'
  BY <1>3, <1>6, <1>7 DEF Current
<1>8. Current(view)
  <2>1. 1 \in 1 .. Len(wire) + 1
    BY DEF ViewTypeOK
  <2>2. \A m \in Monitors : Follows(1, status[m], m)
    BY <2>1 DEF EventsKnown
  <2> QED
    BY <1>5, <2>2 DEF Current
<1>9. (~excused => Current(store))'
  <2>1. PICK s : s = store
    OBVIOUS
  <2>2. ~excused => Current(s)
    BY <2>1 DEF ViewShown
  <2> QED
    BY <1>3, <1>7, <2>1, <2>2
<1>10. ASSUME NEW e \in fetches', e.clean, e.reply # Null PROVE Current(e.reply)'
  <2>1. CASE e = g
    BY <1>4, <1>7, <1>8, <2>1
  <2>2. CASE e # g
    BY <1>3, <1>7, <1>10, <2>2 DEF ViewShown
  <2> QED
    BY <2>1, <2>2
<1> QED
  BY <1>9, <1>10 DEF ViewShown

\* The store is what the reply was, and as current.
LEMMA ViewApplied ==
  ASSUME ViewTypeOK, topic = "monitors", ViewShown, NEW f \in fetches, Apply(f)
  PROVE  ViewShown'
<1>1. /\ store' = f.reply /\ excused' = ~f.clean /\ f.reply # Null
      /\ fetches' = fetches \ {f} /\ UNCHANGED <<status, handlers, session, wire, pinned>>
  BY DEF Apply, server, link, user
<1>2. ASSUME NEW m \in Monitors, NEW x, Follows(1, x, m)
      PROVE  Follows(1, x, m)'
  BY <1>1, <1>2 DEF Follows, Uncertain, Listed, Told, Looks, Coming, On
<1>3. ASSUME NEW v, Current(v) PROVE Current(v)'
  BY <1>1, <1>2, <1>3 DEF Current
<1>4. (~excused => Current(store))'
  <2>1. f.clean \in BOOLEAN
    BY DEF ViewTypeOK, Fetches
  <2>2. f.clean => Current(f.reply)'
    BY <1>1, <1>3 DEF ViewShown
  <2> QED
    BY <1>1, <2>1, <2>2
<1> QED
  BY <1>1, <1>3, <1>4 DEF ViewShown

\* The tab's own steps keep the store's invariant.
LEMMA ViewTab ==
  ASSUME ViewTypeOK, topic = "monitors", HandlersKnown, EventsKnown, ViewShown,
         \/ Connect \/ JoinNotifications \/ Drop
         \/ Reload \/ CheckSession \/ LogIn \/ LogOut \/ FetchAgain
         \/ \E f \in fetches : Reply(f) \/ Apply(f)
         \/ Switch \/ SwitchFails \/ OtherTab \/ UNCHANGED viewVars
  PROVE  (HandlersKnown /\ EventsKnown /\ ViewShown)'
<1> USE DEF server, user, link, stores
<1>1. (HandlersKnown /\ EventsKnown)'
  BY ViewUntold DEF Connect, JoinNotifications, Drop, Reload, CheckSession, LogIn, LogOut, FetchAgain,
     Reply, Apply, Switch, SwitchFails, OtherTab, Loads, Shows, viewVars
<1>2. ASSUME Loads \/ LogIn \/ LogOut \/ OtherTab \/ (Drop /\ wire # <<>>)
      PROVE  ViewShown'
  <2>1. \A f \in Missed \cup {New} : f.clean => f.reply = Null
    BY MissedFetches DEF ViewTypeOK, New
  <2>2. excused' /\ fetches' \subseteq Missed \cup {New}
    BY <1>2 DEF Loads, LogIn, LogOut, OtherTab, Drop
  <2> QED
    BY <2>1, <2>2, DirtyView
<1>3. ASSUME wire' = wire, UNCHANGED <<status, handlers, session, store, excused, pinned>>,
             fetches' \subseteq fetches \cup {New}
      PROVE  ViewShown'
  <2>1. \A m \in Monitors : \A x : Follows(1, x, m) => Follows(1, x, m)'
    BY <1>3 DEF Follows, Uncertain, Listed, Told, Looks, Coming, On
  <2>2. \A f \in fetches' : f.clean /\ f.reply # Null => f \in fetches
    BY <1>3 DEF New
  <2> QED
    BY <1>3, <2>1, <2>2, ViewCarried
<1>4. CASE Connect \/ JoinNotifications \/ (Drop /\ wire = <<>>) \/ FetchAgain \/ UNCHANGED viewVars
  BY <1>1, <1>3, <1>4 DEF Connect, JoinNotifications, Drop, FetchAgain, viewVars
<1>5. CASE CheckSession
  BY <1>1, <1>3, <1>5 DEF CheckSession, Shows
<1>6. ASSUME NEW f \in fetches, Reply(f) PROVE ViewShown'
  <2>1. CASE session = Null /\ page = "app"
    <3>1. Loads
      BY <1>6, <2>1 DEF Reply
    <3> QED
      BY <1>2, <3>1
  <2>2. CASE session = Null /\ page # "app"
    BY <1>3, <1>6, <2>2 DEF Reply
  <2>3. CASE session # Null
    BY <1>6, <2>3, ViewReplied
  <2> QED
    BY <2>1, <2>2, <2>3
<1>7. ASSUME NEW f \in fetches, Apply(f) PROVE ViewShown'
  BY <1>7, ViewApplied
<1>8. CASE SwitchFails
  <2>1. CASE wire = <<>>
    <3>1. excused' = excused
      BY <1>8, <2>1 DEF SwitchFails, ViewTypeOK
    <3>2. wire' = wire /\ fetches' = fetches /\ UNCHANGED <<status, handlers, session, store, pinned>>
      BY <1>8, <2>1 DEF SwitchFails
    <3> QED
      BY <1>1, <1>3, <3>1, <3>2
  <2>2. CASE wire # <<>>
    <3>1. excused' /\ fetches' = {}
      BY <1>8, <2>2 DEF SwitchFails
    <3> QED
      BY <1>1, <3>1, DirtyView
  <2> QED
    BY <2>1, <2>2
<1> QED
  <2>1. CASE Reload \/ Switch \/ LogIn \/ LogOut \/ OtherTab \/ Drop
    <3>1. Drop => (Drop /\ wire # <<>>) \/ (Drop /\ wire = <<>>)
      OBVIOUS
    <3> QED
      BY <1>1, <1>2, <1>4, <2>1, <3>1 DEF Reload, Switch
  <2> QED
    BY <1>1, <1>4, <1>5, <1>6, <1>7, <1>8, <2>1

\* Alerts leave the monitors alone.
LEMMA ViewAlert ==
  ASSUME ViewTypeOK, topic = "monitors", HandlersKnown, EventsKnown, ViewShown,
         NEW a \in Alerts, Post(a) \/ Discard(a) \/ RemoveAlert(a)
  PROVE  (HandlersKnown /\ EventsKnown /\ ViewShown)'
<1>1. CASE Post(a)
  BY <1>1 DEF Post
<1>2. CASE Discard(a)
  <2>1. /\ wire' = Outdated(a) /\ excused' /\ fetches' = Missed /\ UNCHANGED <<status, handlers, pinned>>
        /\ wire \in Seq(Events)
    BY <1>2 DEF Discard, ViewTypeOK, user
  <2>2. HandlersKnown'
    BY <2>1 DEF HandlersKnown, Undisturbed, On
  <2>3. /\ DOMAIN wire = 1 .. Len(wire) /\ DOMAIN wire' = 1 .. Len(wire) /\ Len(wire') = Len(wire)
        /\ \A i \in 1 .. Len(wire) : wire'[i].kind = wire[i].kind /\ wire'[i].status = wire[i].status
    BY <2>1, StaleEvents
  <2>4. ASSUME NEW m \in Monitors, NEW k \in 1 .. Len(wire) + 1 PROVE Follows(k, status[m], m)'
    <3>1. PICK x : x = status[m]
      OBVIOUS
    <3>2. Follows(k, x, m) /\ a # m
      BY <3>1, TenantAssumption DEF EventsKnown
    <3>3. On(m)' = On(m)
      BY <2>1 DEF On
    <3>4. Follows(k, x, m)'
      BY <2>1, <3>2, <3>3, FollowsUndisturbed
    <3> QED
      BY <2>1, <3>1, <3>4
  <2>5. EventsKnown'
    BY <2>3, <2>4 DEF EventsKnown
  <2>6. \A f \in fetches' : f.clean => f.reply = Null
    BY <2>1, MissedFetches DEF ViewTypeOK
  <2> QED
    BY <2>1, <2>2, <2>5, <2>6, DirtyView
<1>3. CASE RemoveAlert(a)
  <2>1. UNCHANGED <<status, handlers, session, wire, store, excused, fetches, pinned>>
    BY <1>3 DEF RemoveAlert, server, link, user
  <2>2. (HandlersKnown /\ EventsKnown)'
    BY <2>1, ViewUntold
  <2>3. \A m \in Monitors : \A x : Follows(1, x, m) => Follows(1, x, m)'
    BY <2>1 DEF Follows, Uncertain, Listed, Told, Looks, Coming, On
  <2> QED
    BY <2>1, <2>2, <2>3, ViewCarried
<1> QED
  BY <1>1, <1>2, <1>3

\* The requests of the monitor API.
LEMMA ViewRequested ==
  ASSUME ViewTypeOK, HandlersKnown, EventsKnown, ViewShown, NEW m \in Monitors, Request(m)
  PROVE  (HandlersKnown /\ EventsKnown /\ ViewShown)'
<1>1. CASE Create(m)
  BY <1>1, ViewRequest DEF Create, Statuses, Active
<1>2. CASE Delete(m)
  BY <1>2, ViewRequest DEF Delete, Statuses
<1>3. CASE Pause(m)
  <2>1. PICK new \in {"pending", "paused"} : Write("updated", m, new) /\ status[m] # "absent"
    BY <1>3 DEF Pause
  <2> QED
    BY <2>1, ViewRequest DEF Statuses, Active
<1>4. CASE Update(m)
  <2>1. PICK new : new = status[m]
    OBVIOUS
  <2>2. new \in Statuses /\ new # "absent" /\ status[m] # "absent" /\ Write("updated", m, new)
    BY <1>4, <2>1 DEF Update, ViewTypeOK
  <2> QED
    BY <2>2, ViewRequest
<1> QED
  BY <1>1, <1>2, <1>3, <1>4 DEF Request

\* Every step keeps the store's invariant.
LEMMA ViewKept == ViewTypeOK /\ MonitorsInv /\ [ViewNext]_viewVars => MonitorsInv'
<1> SUFFICES ASSUME ViewTypeOK, MonitorsInv, [ViewNext]_viewVars, topic' = "monitors"
             PROVE  MonitorsInv'
  BY DEF MonitorsInv
<1>1. topic = "monitors"
  <2>1. UNCHANGED topic
    <3>1. CASE ViewNext
      BY <3>1 DEF ViewNext, Request, Create, Delete, Pause, Update, Write, BeginBeat, Push,
         WriteQuietly, Post, Discard, RemoveAlert, Serve, WriteBeat, SkipWrite, WritePush, EmitFor, Fail, Connect, JoinNotifications, Drop, Deliver,
         Reload, CheckSession, LogIn, LogOut, FetchAgain, Reply, Apply, Switch, SwitchFails, OtherTab,
         user
    <3> QED
      BY <3>1 DEF viewVars, user
  <2> QED
    BY <2>1
<1>2. HandlersKnown /\ EventsKnown /\ ViewShown
  BY <1>1 DEF MonitorsInv
<1>3. (HandlersKnown /\ EventsKnown /\ ViewShown)'
  <2>1. ASSUME NEW m \in Monitors, BeginBeat(m) \/ Request(m) \/ Push(m) \/ WriteQuietly(m)
        PROVE  (HandlersKnown /\ EventsKnown /\ ViewShown)'
    BY <1>2, <2>1, ViewBeat, ViewRequested, ViewPush, ViewQuiet
  <2>2. ASSUME NEW a \in Alerts, Post(a) \/ Discard(a) \/ RemoveAlert(a)
        PROVE  (HandlersKnown /\ EventsKnown /\ ViewShown)'
    BY <1>1, <1>2, <2>2, ViewAlert
  <2>3. ASSUME NEW h \in handlers, Serve(h)
        PROVE  (HandlersKnown /\ EventsKnown /\ ViewShown)'
    BY <1>2, <2>3, ViewWritten, ViewSkipped, ViewPushWritten, ViewSent, ViewFailed DEF Serve
  <2> QED
    BY <1>1, <1>2, <2>1, <2>2, <2>3, ViewDelivered, ViewTab DEF ViewNext
<1> QED
  BY <1>3 DEF MonitorsInv

\* A store or a reply that nothing has passed by becomes current by the events still on their
\* way, from whichever of them on it is read.
THEOREM ViewInvariant == ViewSpec => []MonitorsInv
<1>1. ViewInit => MonitorsInv
  <2> SUFFICES ASSUME ViewInit PROVE HandlersKnown /\ EventsKnown /\ ViewShown
    BY DEF MonitorsInv
  <2>1. wire = <<>> /\ DOMAIN wire = {} /\ Len(wire) = 0 /\ handlers = {}
    BY DEF ViewInit
  <2>2. HandlersKnown /\ ViewShown
    BY <2>1 DEF ViewInit, HandlersKnown, ViewShown
  <2>3. ASSUME NEW m \in Monitors, NEW k \in 1 .. Len(wire) + 1 PROVE Follows(k, status[m], m)
    <3>1. k = 1 /\ On(m) = {} /\ Coming(m) = {} /\ k - 1 .. Len(wire) = {0}
          /\ 0 + 1 .. Len(wire) = {}
      BY <2>1 DEF On, Coming
    <3>2. Listed(k, status[m], m) <=> status[m] # "absent"
      BY <2>1, <3>1 DEF Listed
    <3> QED
      BY <3>1, <3>2 DEF Follows, Told, Looks
  <2> QED
    BY <2>1, <2>2, <2>3 DEF EventsKnown
<1> QED
  BY <1>1, ViewTypeCorrect, ViewKept, PTL DEF ViewSpec

\* Once all is answered, emitted and delivered, a store that nothing has passed by shows the
\* monitors of the session's tenant as the server has them, but for an agent's that may
\* look up while its row says alert, or down when it is upside-down.
THEOREM ViewStaysCurrent == ViewSpec => []ViewIsCurrent
<1>1. ViewTypeOK /\ MonitorsInv => ViewIsCurrent
  <2> SUFFICES ASSUME ViewTypeOK, MonitorsInv, topic = "monitors", Settled, ~excused
               PROVE  \A m \in Monitors : Looks(store[m], Visible[m], m)
    BY DEF ViewIsCurrent
  <2>1. Current(store)
    BY DEF MonitorsInv, ViewShown
  <2>2. ASSUME NEW m \in Monitors, Home[m] = session PROVE Looks(store[m], status[m], m)
    <3>1. On(m) = {} /\ Coming(m) = {} /\ Len(wire) = 0
      BY DEF Settled, On, Coming
    <3>2. Follows(1, store[m], m)
      BY <2>1, <2>2 DEF Current
    <3>3. Listed(1, store[m], m) <=> status[m] # "absent"
      BY <3>1, <3>2 DEF Follows, Uncertain
    <3>4. Listed(1, store[m], m) => store[m] # "absent"
      BY <3>1 DEF Listed
    <3>5. store[m] # "absent" => Listed(1, store[m], m)
      <4>1. 0 \in 1 - 1 .. Len(wire) /\ 0 < 1 /\ 0 + 1 .. Len(wire) = {}
        BY <3>1
      <4> QED
        BY <4>1 DEF Listed
    <3>6. status[m] # "absent" => Looks(store[m], status[m], m)
      BY <3>1, <3>2 DEF Follows, Uncertain, Told
    <3> QED
      BY <3>3, <3>4, <3>5, <3>6 DEF Looks
  <2>3. ASSUME NEW m \in Monitors PROVE Looks(store[m], Visible[m], m)
    <3>1. CASE Home[m] = session
      BY <2>2, <3>1 DEF Visible
    <3>2. CASE Home[m] # session
      BY <2>1, <3>2 DEF Visible, Current, Looks
    <3> QED
      BY <3>1, <3>2
  <2> QED
    BY <2>3
<1> QED
  BY <1>1, ViewTypeCorrect, ViewInvariant, PTL
=============================================================================
