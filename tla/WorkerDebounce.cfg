\* Retries, maintenance, restarts, failing calls and pauses behind a cooldown.
SPECIFICATION Spec
CONSTANTS
  MaxRetries = 1
  MaxCooldown = 2
  UpsideDown = TRUE
  CheckStatuses = {"up", "down", "ssl_expired"}
  Cooldowns = {2}
  Proxied = FALSE
  AgentMonitor = FALSE
  Disturbances = {"restart", "abort", "pause", "maintenance"}
PROPERTIES NoRepeatBehindCooldown NotificationsAreSpaced ProblemsAreRetried KeepsPromise
