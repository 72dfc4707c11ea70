\* One monitor: of every type on a target, a value watcher with three workers and two
\* restarts, a push monitor, a proxied monitor.
SPECIFICATION ChecksSpec
CONSTANTS
  Kinds = {"target", "watcher", "push", "proxied"}
  Cases <- MCCases
  None = None
  Values = {v1, v2, empty}
  Empty = empty
  NoValue = NoValue
  MaxStarts = 3
  MaxInterval = 3
  MaxArriving = 2
  Never = Never
  MaxWait = 3
  NoResult = NoResult
SYMMETRY MCSymmetry
INVARIANTS ExecutorsAgree StatusIsEarned
PROPERTIES ChangesToldOnce
CHECK_DEADLOCK FALSE
