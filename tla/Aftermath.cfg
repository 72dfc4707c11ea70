\* The bounds on time and calls end every behaviour: hence no deadlock check.
SPECIFICATION Spec
CONSTANTS
  w1 = w1
  w2 = w2
  r1 = r1
  r2 = r2
  None = None
  NoRow = NoRow
  Deleted = Deleted
  NoKey = NoKey
  Worker = worker
  Horizon = 3
  MaxCalls = 3
  DayLength = 2
  CacheTtl = 1
  Retention = 1
  MaxSlack = 1
  MaxRunning = 1
  Limit = 2
  Windows = {w1, w2}
  Askers = {worker}
  Jobs = {j1, j2}
  Triggers = {t1}
  Adders = {d1, d2}
  d1 = d1
  d2 = d2
  j1 = j1
  j2 = j2
  Keys = {k1}
  Remedies = {r1, r2}
  Place <- PlaceMC
  Schedules <- SchedulesMC
  RemedyCooldown <- RemedyCooldownMC
  TriggerOn <- TriggerOnMC
SYMMETRY SymmetryMC
CHECK_DEADLOCK FALSE
INVARIANTS AnswersFollowWindows TransitionsToldOnce CooldownHonoured AlertsKeptDown
