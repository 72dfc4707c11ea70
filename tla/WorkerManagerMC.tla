--------------------------- MODULE WorkerManagerMC ---------------------------
(***************************************************************************)
(* WorkerManager and its history on a small instance, whose requests and   *)
(* workers are numbers that come in their order.                           *)
(***************************************************************************)
EXTENDS WorkerManagerHistory

InitMC == InitH /\ slot \in {None, 0}

InOrder(Coming(_), S) == \A i, j \in S : i < j /\ Coming(i) => Coming(j)

NextMC ==
  /\ NextH
  /\ InOrder(LAMBDA w : worker'[w].phase = "unborn", Workers)
  /\ InOrder(LAMBDA r : req'[r].step = "new", Requests)

SpecMC == InitMC /\ [][NextMC]_<<vars, historyVars>> /\ Fairness
=============================================================================
