------------------------ MODULE WorkerManagerHistory ------------------------
(***************************************************************************)
(* WorkerManager with the history of its requests: some properties hold    *)
(* only as long as no two of them overlapped, or none paused the monitor.  *)
(***************************************************************************)
EXTENDS WorkerManager

VARIABLES overlapped, paused

historyVars == <<overlapped, paused>>

InitH ==
  /\ Init
  /\ overlapped = FALSE
  /\ paused = FALSE

Overlap == \E r, q \in InFlight : r # q

NextH ==
  /\ Next
  /\ overlapped' = (overlapped \/ Overlap')
  /\ paused' = (paused \/ row'.status = "paused")

SpecH == InitH /\ [][NextH]_<<vars, historyVars>>

-----------------------------------------------------------------------------
\* When requests do not overlap, the worker in the map is the only one running,
\* although beats of its predecessors may still be in flight (restartMonitor).
OneRunningWorker ==
  ~overlapped => \A w \in Workers : worker[w].isRunning => w = slot

\* When requests do not overlap, the worker runs with the monitor and the
\* settings as they were edited last (restartMonitor, restartAffectedBySettings).
ConfigIsCurrent ==
  ~overlapped /\ InFlight = {} /\ slot # None
    => \/ worker[slot].edits = row.edits /\ worker[slot].settings = settings
       \/ row.status = "deleted"

\* No interleaving of creations, edits, settings changes and deletions leaves an
\* active monitor without a worker (startMonitor, stopMonitor); a pause can.
ActiveUnlessPaused == ~paused => ActiveIsChecked

-----------------------------------------------------------------------------
(***************************************************************************)
(* Why they hold: the inductive invariants.                                *)
(***************************************************************************)
\* A request that is alone has emptied the map before it starts a worker, and brings
\* the worker what it has read; one whose change the worker lacks is still to stop it.
Alone(r) ==
  /\ req[r].step \in {"read", "start", "build", "spawn"} => slot = None
  /\ req[r].step \in {"start", "build", "spawn"} => req[r].seen.edits = row.edits
  /\ req[r].step = "spawn" => req[r].settings = settings

SerialInv ==
  ~overlapped =>
    /\ ~Overlap
    /\ \A w \in Workers : worker[w].isRunning => w = slot
    /\ \A r \in InFlight : Alone(r)
    /\ slot # None =>
         \/ worker[slot].edits = row.edits /\ worker[slot].settings = settings
         \/ row.status = "deleted"
         \/ \E r \in Requests : req[r].step \in {"affected", "restart"}

\* As long as nothing paused the monitor, it has a worker if it is active, or a request is on
\* its way to starting one, or to deleting it; nobody has read that it is paused, and who
\* stops the worker for a pause came too late for a row that is gone.
UnpausedInv ==
  ~paused =>
    /\ row.status # "paused"
    /\ \/ row.status \in {"unborn", "deleted"} \/ ~row.active
       \/ slot # None
       \/ \E r \in Requests : OnItsWay(r) \/ req[r].step = "erase"
    /\ \A r \in Requests :
         /\ req[r].seen.status # "paused"
         /\ req[r].step = "stop" => row.status = "deleted"
=============================================================================
