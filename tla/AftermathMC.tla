----------------------------- MODULE AftermathMC -----------------------------
(***************************************************************************)
(* The small instance of Aftermath: one window of the monitor's own and an *)
(* inherited one, days of two ticks, and two remedies.                     *)
(***************************************************************************)
EXTENDS Aftermath

CONSTANTS w1, w2, r1, r2, j1, j2, d1, d2

PlaceMC == w1 :> "own" @@ w2 :> "global"

\* A window that closes for good, one over midnight, and one a day of the week.
SchedulesMC == {
  [kind |-> "one_time", from |-> 1, to |-> 1, days |-> {}],
  [kind |-> "daily", from |-> 1, to |-> 0, days |-> {}],
  [kind |-> "weekly", from |-> 0, to |-> 1, days |-> {1}] }

RemedyCooldownMC == r1 :> 0 @@ r2 :> 2
SymmetryMC == Permutations({j1, j2}) \union Permutations({d1, d2})

TriggerOnMC == r1 :> "down" @@ r2 :> "both"
=============================================================================
