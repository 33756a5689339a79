\* Nothing fails and no client leaves: only a SIGTERM.
CONSTANTS
  r1 = r1
  Requests = {r1}
  Kinds <- ChatKinds
  Leavers = {}
  CaptureMax = 2
  MaxLen = 3
  Faults = FALSE
SPECIFICATION Spec
INVARIANT EveryRequestRecorded
\* The process may end.
CHECK_DEADLOCK FALSE
