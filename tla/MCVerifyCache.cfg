\* One key: Redis entries and rows of different keys never meet.
CONSTANTS
  k1 = k1
  v1 = v1
  v2 = v2
  a1 = a1
  Keys = {k1}
  Verifiers = {v1, v2}
  Admins = {a1}
  Deadlines = {3}
  CacheTTL = 2
  MaxFill = 1
  MaxVer = 2
  MaxTime = 4
SPECIFICATION Spec
SYMMETRY Symmetry
INVARIANTS
  TypeOK
  BoundedStaleness
  StaleEntryExplained
  IssuedSecretOnly
  SettledVerdict
