\* Redis and Postgres may fail at every call; both quotas set.
CONSTANTS
  s1 = s1
  s2 = s2
  Slots = {s1, s2}
  Usages <- MCUsages
  TokenQuota = 1
  DollarQuota = 6
  Unit = 4
  Grain = 8
  Faults = TRUE
  MaxRetries = 1
  MaxRequests = 3
SPECIFICATION Spec
SYMMETRY Symmetry
INVARIANTS
  TypeOK
  CounterTracksTable
  OverrunBounded
\* The bounded requests run out.
CHECK_DEADLOCK FALSE
