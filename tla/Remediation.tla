----------------------------- MODULE Remediation -----------------------------
(***************************************************************************)
(* remediationService for one monitor: a confirmed change of status        *)
(* triggers the actions bound to the monitor one after the other, and what *)
(* an action does runs on by itself.  A run is recorded when it has ended, *)
(* and the cooldown of an action is measured against the recorded runs.    *)
(* Which actions are bound is resolved in Inheritance.                     *)
(***************************************************************************)
EXTENDS ServerClock, FiniteSets

CONSTANTS
  Remedies,      \* the actions bound to the monitor
  RemedyCooldown,\* cooldownSeconds of each binding, in ticks
  TriggerOn,     \* trigger_on of each binding
  Triggers,      \* calls of triggerForMonitor that may overlap
  MaxRunning     \* bound: executions of one action in flight

Changes == {"down", "up"}

ASSUME RemediationAssumption ==
  /\ RemedyCooldown \in [Remedies -> Nat]
  /\ TriggerOn \in [Remedies -> Changes \union {"both"}]
  /\ MaxRunning \in Nat

VARIABLES
  triggers,   \* bindings each call has still to look at
  running,    \* when the executions in flight began
  runs        \* remediation_runs

rvars == <<triggers, running, runs>>

Run == [of : Remedies, begun : Int, at : Int, skipped : BOOLEAN]

RemediationTypeOK ==
  /\ triggers \in [Triggers -> SUBSET Remedies]
  /\ running \in [Remedies \X (0 .. Horizon) -> 0 .. MaxRunning]
  /\ runs \subseteq Run

RemediationInit ==
  /\ triggers = [t \in Triggers |-> {}]
  /\ running = [e \in Remedies \X (0 .. Horizon) |-> 0]
  /\ runs = {}

\* The bindings that a change to a problem status, or to another one, triggers.
Triggered(change) == {r \in Remedies : TriggerOn[r] \in {change, "both"}}

Trigger(t, change) ==
  /\ triggers[t] = {}
  /\ triggers' = [triggers EXCEPT ![t] = Triggered(change)]
  /\ UNCHANGED <<running, runs>>

\* Mutant of RecentRun: the runs of the monitor's other actions count.
RecentOfAny(r) == \E run \in runs : ~run.skipped /\ run.at > now - RemedyCooldown[r]

\* A run of this action within its cooldown that really ran.
RecentRun(r) ==
  \E run \in runs : run.of = r /\ ~run.skipped /\ run.at > now - RemedyCooldown[r]

CoolingDown(r) == RemedyCooldown[r] > 0 /\ RecentRun(r)

SkipRemedy(t, r) ==
  /\ r \in triggers[t]
  /\ CoolingDown(r)
  /\ runs' = runs \union {[of |-> r, begun |-> now, at |-> now, skipped |-> TRUE]}
  /\ triggers' = [triggers EXCEPT ![t] = @ \ {r}]
  /\ UNCHANGED running

\* _executeAction is not awaited.
StartRemedy(t, r) ==
  /\ r \in triggers[t]
  /\ ~CoolingDown(r)
  /\ running[<<r, now>>] < MaxRunning
  /\ running' = [running EXCEPT ![<<r, now>>] = @ + 1]
  /\ triggers' = [triggers EXCEPT ![t] = @ \ {r}]
  /\ UNCHANGED runs

\* It succeeded, failed or timed out; the row's triggered_at is this moment.
EndRemedy(r, began) ==
  /\ running[<<r, began>>] > 0
  /\ running' = [running EXCEPT ![<<r, began>>] = @ - 1]
  /\ runs' = runs \union {[of |-> r, begun |-> began, at |-> now, skipped |-> FALSE]}
  /\ UNCHANGED triggers

RemediationStep ==
  /\ NoCall
  /\ \/ \E t \in Triggers, r \in Remedies : SkipRemedy(t, r) \/ StartRemedy(t, r)
     \/ \E r \in Remedies, began \in 0 .. Horizon : EndRemedy(r, began)

\* The loop over the bindings lasts less than a tick.
RemediationTick ==
  /\ \A t \in Triggers : triggers[t] = {}
  /\ UNCHANGED rvars

\* What was running ends unrecorded.
RemediationCrash ==
  /\ triggers' = [t \in Triggers |-> {}]
  /\ running' = [e \in DOMAIN running |-> 0]
  /\ UNCHANGED runs

\* A trigger is skipped only because of a run that ended within the cooldown:
\* skipped triggers do not prolong it, however often the monitor changes.  And
\* an execution that began after another had been recorded is the cooldown away
\* from it, however triggers and executions interleave (triggerForMonitor counts
\* recorded runs, and a run is recorded when it ends).
CooldownHonoured ==
  \A run \in runs :
    IF run.skipped
      THEN \E real \in runs :
             /\ real.of = run.of /\ ~real.skipped
             /\ real.at <= run.at /\ run.at - real.at < RemedyCooldown[run.of]
      ELSE \A later \in runs :
             later.of = run.of /\ ~later.skipped /\ later.begun > run.at
               => later.begun - run.at >= RemedyCooldown[run.of]

\* Why: what runs began the cooldown after everything recorded before it began.
CooldownInv ==
  /\ \A run \in runs : run.begun <= run.at /\ run.at <= now
  /\ \A r \in Remedies, began \in 0 .. Horizon : running[<<r, began>>] > 0 =>
       /\ began <= now
       /\ \A run \in runs :
            run.of = r /\ ~run.skipped /\ began > run.at
              => began - run.at >= RemedyCooldown[r]
  /\ CooldownHonoured
=============================================================================
