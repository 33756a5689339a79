CONSTANTS
  r1 = r1
  r2 = r2
  a1 = a1
  Replicas = {r1, r2}
  Admins = {a1}
  Fallback = {r1, r2}
  MaxRows = 3
SPECIFICATION Spec
INVARIANT FallbackOnlyWhenEmpty
