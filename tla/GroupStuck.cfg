SPECIFICATION FairSpec
CONSTANTS
  MaxRetries = 0
  MaxCooldown = 1
  UpsideDown = FALSE
  Monitors = {m1}
  CheckStatuses = {"up", "down"}
  Cooldown = 1
  Disturbances = {}
  None = None
PROPERTIES GroupRecovers
