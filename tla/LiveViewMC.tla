----------------------------- MODULE LiveViewMC -----------------------------
(***************************************************************************)
(* LiveView for TLC: one monitor and alerts of the tenant t2, to which the *)
(* user belongs, while a socket that names no tenant gets t1.              *)
(***************************************************************************)
EXTENDS LiveView, TLC

CONSTANTS m, t1, t2

MCHome == (m :> t2) @@ [a \in Alerts |-> t2]

MCFaults == {{"drop", "quiet", "switch"}, {"drop", "tab"}, {"push", "fail"}, {"fail"}}

\* Only an administrator has a second tenant here; another tab is checked for a user, an
\* agent with its pushes, and without them the failures of alerts.
MCInit ==
  /\ ViewInit
  /\ topic = "monitors" => (admin <=> "tab" \notin faults)
  /\ "switch" \in faults => admin
  /\ IF "push" \in faults THEN topic = "monitors" /\ pinned[m] = {"alert"} ELSE ~IsAgent(m)
  /\ faults = {"fail"} => topic = "alerts"

\* Bound: nobody edits the agent's monitor, and it does not update itself; monitors are
\* only created and deleted while another tab is in play.
MCNext ==
  /\ ViewNext
  /\ "push" \in faults =>
       \A h \in handlers' : h.kind \in {"heartbeat", "push"} /\ h.status # "pending"
  /\ "tab" \in faults => \A h \in handlers' : h.kind # "updated"

MCSpec == MCInit /\ [][MCNext]_viewVars /\ ViewFairness
=============================================================================
