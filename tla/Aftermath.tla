------------------------------ MODULE Aftermath ------------------------------
(***************************************************************************)
(* What follows a beat of a monitor, in one server process: the question   *)
(* whether the monitor is in maintenance and, when it is not, the remedies *)
(* and the live alert that dispatchNotification starts and does not await. *)
(* The three services interleave with each other, with their users and     *)
(* with their timers, and die together.                                    *)
(***************************************************************************)
EXTENDS Maintenance, Remediation, LiveAlerts

CONSTANT Worker   \* the asker that is the monitor's worker

ASSUME AftermathAssumption == Worker \in Askers

VARIABLE focus    \* bound: a behaviour has edits of windows or changes of status

vars == <<now, calls, mvars, rvars, avars, focus>>

TypeOK ==
  /\ ClockTypeOK /\ MaintenanceTypeOK /\ RemediationTypeOK /\ LiveAlertsTypeOK
  /\ focus \in {"windows", "changes"}

Init ==
  /\ ClockInit /\ MaintenanceInit /\ RemediationInit /\ LiveAlertsInit
  /\ focus \in {"windows", "changes"}

\* handleStatusChange and dispatchNotification of a beat that was told that no
\* window covers its monitor.
Dispatch ==
  /\ focus = "changes"
  /\ answered = [by |-> Worker, value |-> FALSE]
  /\ \E t \in Triggers, change \in Changes : Trigger(t, change)
  /\ \E a \in Adders : Add(a, NoKey)
  /\ answered' = None
  /\ UNCHANGED <<now, calls, rows, disabled, cache, unclear, asks, jobs,
                 announced, steady, slack, focus>>

Tick ==
  /\ now < Horizon
  /\ now' = now + 1
  /\ NoCall
  /\ MaintenanceTick /\ RemediationTick /\ LiveAlertsTick
  /\ UNCHANGED focus

Crash ==
  /\ UNCHANGED <<now, calls, focus>>
  /\ MaintenanceCrash /\ RemediationCrash /\ LiveAlertsCrash

Question == AskStep /\ UNCHANGED <<rvars, avars, focus>>

WindowsChange ==
  /\ focus = "windows"
  /\ WindowStep
  /\ UNCHANGED <<rvars, avars, focus>>

\* The other services leave maintenanceService alone.
Aside == /\ answered' = None
         /\ UNCHANGED <<now, rows, disabled, cache, unclear, asks, jobs,
                        announced, steady, slack, focus>>

Remedying == RemediationStep /\ Aside /\ UNCHANGED avars

Alerting ==
  /\ focus = "changes"
  /\ LiveAlertsStep
  /\ Aside
  /\ UNCHANGED rvars

Next ==
  \/ Question \/ WindowsChange
  \/ Dispatch \/ Remedying \/ Alerting
  \/ Tick \/ Crash

Spec == Init /\ [][Next]_vars
=============================================================================
