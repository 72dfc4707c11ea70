\* An agent's monitor, whose dispatches can fail.
SPECIFICATION FairSpec
CONSTANTS
  MaxRetries = 1
  MaxCooldown = 1
  UpsideDown = FALSE
  CheckStatuses = {"up", "down", "alert"}
  Cooldowns = {1}
  Proxied = FALSE
  AgentMonitor = TRUE
  Disturbances = {"abort", "pause", "maintenance"}
PROPERTIES OutageTold
