SPECIFICATION FairSpec
CONSTANTS
  MaxRetries = 0
  MaxCooldown = 0
  UpsideDown = FALSE
  Monitors = {m1, m2}
  CheckStatuses = {"up", "ssl_expired"}
  Cooldown = 0
  Disturbances = {"fail", "delete", "restart", "reboot"}
  None = None
INVARIANTS DownSetIsConfirmed
PROPERTIES RecoveryAfterAlarm GroupRecovers
