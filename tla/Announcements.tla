---------------------------- MODULE Announcements ----------------------------
(***************************************************************************)
(* What a monitor's worker promises its users, without retries, heartbeats *)
(* or debouncing: a problem the worker has confirmed is told at once or    *)
(* put in a queue of one, a newer change takes the place of the queued     *)
(* one, and what leaves the queue is told.  MonitorWorker implements it.   *)
(***************************************************************************)
CONSTANTS
  Status,    \* what can be told
  Problem,   \* the part of it that must be told
  Fine,      \* the worker knows of no problem of its own finding
  Nothing    \* the queue is empty; nothing was told yet

VARIABLES
  known,     \* the problem confirmed by the present worker
  queue,     \* the change still to be told
  told       \* what the users heard last

Init == known = Fine /\ queue = Nothing /\ told = Nothing

Knowing(s) == IF s \in Problem THEN s ELSE Fine

TellNow(s) ==
  /\ queue = Nothing
  /\ told' = s
  /\ known' = Knowing(s)
  /\ UNCHANGED queue

TellLater(s) ==
  /\ queue' = s
  /\ known' = Knowing(s)
  /\ UNCHANGED told

\* What is told is the queued change, whatever the worker learns meanwhile.
Deliver ==
  /\ queue # Nothing
  /\ told' = queue
  /\ queue' = Nothing
  /\ known' \in {known, Fine}

\* A problem ends unannounced, in maintenance; or the worker is lost, its queue
\* with it.
Forget ==
  /\ known' = Fine
  /\ queue' \in {queue, Nothing}
  /\ UNCHANGED told

Next ==
  \/ \E s \in Status : TellNow(s) \/ TellLater(s)
  \/ Deliver
  \/ Forget

Spec == Init /\ [][Next]_<<known, queue, told>>

\* The promise: a problem the worker knows of was the last thing told, or is
\* what the queue will tell.
NothingConcealed ==
  known # Fine => IF queue = Nothing THEN told = known ELSE queue = known
=============================================================================
