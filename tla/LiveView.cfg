SPECIFICATION MCSpec
CONSTANTS
  Tenants = {t1, t2}
  DefaultTenant = t1
  Member = {t2}
  Monitors = {m}
  Alerts = {1, 2}
  MaxListed = 1
  Home <- MCHome
  Faults <- MCFaults
  MaxRequests = 1
  MaxWire = 1
  MaxFetches = 1
  Null = Null
  m = m
  t1 = t1
  t2 = t2
INVARIANTS ViewIsCurrent BellIsComplete
PROPERTIES ViewHeals
CHECK_DEADLOCK FALSE
