\* Every kind of request; everything may fail, the upstream may stall.
CONSTANTS
  r1 = r1
  Requests = {r1}
  Kinds <- AllKinds
  Leavers = {r1}
  CaptureMax = 2
  MaxLen = 5
  Faults = TRUE
SPECIFICATION FairSpec
INVARIANTS
  TypeOK
  LeavingSkipsNoCheck
  DeliveredIsBilled
  RowsNotAhead
  MissingRowExplained
PROPERTY RequestEnds
\* The process may end.
CHECK_DEADLOCK FALSE
