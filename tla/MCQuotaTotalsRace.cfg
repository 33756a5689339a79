\* Nothing fails: only the order of steps of two requests.
CONSTANTS
  s1 = s1
  s2 = s2
  Slots = {s1, s2}
  Usages <- MCUsagesRace
  TokenQuota = 3
  DollarQuota <- Unlimited
  Unit = 1
  Grain = 2
  Faults = FALSE
  MaxRetries = 0
  MaxRequests = 5
SPECIFICATION Spec
INVARIANT QuotaEnforced
CHECK_DEADLOCK FALSE
