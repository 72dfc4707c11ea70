\* One proxied monitor, one editor beside the register calls, two connections
\* at a time, two changes and two faults.
CONSTANTS
  Sockets = {s1, s2}
  NoSocket = NoSocket
  Monitors = {m1}
  Editors = {e1}
  MaxEdits = 2
  MaxFaults = 2
SPECIFICATION Spec
INVARIANTS OneChannel RunnersFollowMonitors
PROPERTIES ChannelHeals
CHECK_DEADLOCK FALSE
