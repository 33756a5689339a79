SPECIFICATION Spec
CONSTANTS
  Replicas = {r1, r2}
  Clients = {c}
  Keys = {k}
  Passwords = {"p1", "p2"}
  Secrets = {"s1", "s2"}
  TTL = 3
  Second = 2
  MaxSkew = 1
  MaxTime = 5
  MaxTokens = 1
  MaxDeploys = 1
INVARIANTS
  TypeOK
  SessionBounded
  SessionLasts
  AnswerTellsEffect
CHECK_DEADLOCK FALSE
