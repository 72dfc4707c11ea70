--------------------------- MODULE ProxiedResult ---------------------------
(***************************************************************************)
(* The worker of a monitor that an agent checks: agentHub records the      *)
(* latest result, performCheckViaProxy reads it at every beat, and beat    *)
(* turns it round when the monitor is upside down.  The worker reads the   *)
(* recorded object itself, and beat turns it in place.                     *)
(***************************************************************************)
EXTENDS Integers

CONSTANTS
  MaxWait,       \* three intervals, in beats
  NoResult       \* no entry in proxyResults

ASSUME WaitAssumption == MaxWait \in Nat

VARIABLES
  upsideDown,    \* the monitor's setting
  entry,         \* its entry in proxyResults: [status, age]
  reported,      \* history: the status the agent reported in that entry
  beat           \* the latest beat: its status, whether it stays silent, what it was of

resultVars == <<upsideDown, entry, reported, beat>>

Turned(status) == IF status = "up" THEN "down" ELSE "up"
Shown(status)  == IF upsideDown THEN Turned(status) ELSE status

ResultTypeOK ==
  /\ upsideDown \in BOOLEAN
  /\ entry \in [status : {"up", "down"}, age : 0 .. MaxWait + 1] \cup {NoResult}
  /\ reported \in {"up", "down", NoResult}
  /\ beat \in [status : {"up", "down"}, silent : BOOLEAN, of : {"up", "down", NoResult}]

ResultInit ==
  /\ upsideDown \in BOOLEAN
  /\ entry = NoResult
  /\ reported = NoResult
  /\ beat = [status |-> "up", silent |-> TRUE, of |-> NoResult]

\* handleProxyResult, recordProxyResult.
RecordResult(status) ==
  /\ entry' = [status |-> status, age |-> 0]
  /\ reported' = status
  /\ UNCHANGED <<upsideDown, beat>>

Fresh == entry # NoResult /\ entry.age <= MaxWait

\* No result, or none within three intervals: 'down', without a notification; turned
\* round like any other status.
BeatWithout ==
  /\ ~Fresh
  /\ beat' = [status |-> Shown("down"), silent |-> TRUE, of |-> NoResult]
  /\ UNCHANGED <<upsideDown, entry, reported>>

\* The result is turned where it is kept.
BeatWith ==
  /\ Fresh
  /\ beat' = [status |-> Shown(entry.status), silent |-> FALSE, of |-> reported]
  /\ entry' = [entry EXCEPT !.status = Shown(entry.status)]
  /\ UNCHANGED <<upsideDown, reported>>

ResultAges ==
  /\ Fresh
  /\ entry' = [entry EXCEPT !.age = @ + 1]
  /\ UNCHANGED <<upsideDown, reported, beat>>

\* The map is in memory, and is cleared only with the process.
RestartProcess ==
  /\ entry' = NoResult
  /\ reported' = NoResult
  /\ UNCHANGED <<upsideDown, beat>>

ResultNext ==
  \/ \E status \in {"up", "down"} : RecordResult(status)
  \/ BeatWithout
  \/ BeatWith
  \/ ResultAges
  \/ RestartProcess

-----------------------------------------------------------------------------
\* A result that is not turned stays what the agent reported.
ResultInv == ~upsideDown /\ entry # NoResult => entry.status = reported

\* A monitor that is not upside down shows 'up' only from a result its agent reported
\* as 'up' (an upside-down one shows the opposite of every second beat that reads the
\* same result, performCheckViaProxy).
ProxiedUpIsReported ==
  ~upsideDown /\ beat.status = "up" /\ ~beat.silent => beat.of = "up"
=============================================================================
