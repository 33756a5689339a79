\* Minute 1 (2 .. 3 of true time, 1 .. 4 for a skewed clock), with a margin of
\* 3 that just covers a delay of 1 and two clocks off by 1.  A counter set as
\* early as possible expires at 6, after the last possible increment at 5.
CONSTANTS
  q1 = q1
  q2 = q2
  q3 = q3
  Requests = {q1, q2, q3}
  Limit = 2
  Minute = 2
  Expire = 5
  MaxDelay = 1
  MaxSkew = 1
  Buckets = {1}
  MaxTime = 8
  MaxReq = 4
SPECIFICATION Spec
SYMMETRY Symmetry
INVARIANTS
  TypeOK
  LimitHolds
  FullLimitGranted
\* The bounded clock and the bounded requests run out.
CHECK_DEADLOCK FALSE
