\* One device, two pushes that may overlap, one administrator at a time.
CONSTANTS
  Pushes = {1, 2}
  Callers = {c1}
  StaleAfter = 1
  UpdateWindow = 1
  Uninstalls = {1}
  Offline = "down"
  MaxCalls = 2
SPECIFICATION Spec
INVARIANTS CommandsReachAgent ApprovedIsMonitored AnnouncementsAreTrue
PROPERTIES SilenceReported
