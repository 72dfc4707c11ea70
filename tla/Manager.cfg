\* Every kind of request, one after the other or two at a time.
SPECIFICATION SpecMC
CONSTANTS
  Requests = {1, 2, 3}
  Workers = {0, 1, 2, 3}
  Ops = {"create", "update", "settings", "toggle", "pause", "resume", "delete"}
  MaxInFlight = 2
  None = None
INVARIANTS OneRunningWorker ConfigIsCurrent ActiveUnlessPaused
PROPERTIES StoppedStaysStopped DeletedIsSilent
CHECK_DEADLOCK FALSE
