SPECIFICATION FairSpec
CONSTANTS
  Replicas = {r1, r2}
  Writers = {w}
  Envs <- MCEnvs
  MaxFaults = 1
INVARIANTS
  TypeOK
  SchemaMatchesRecord
  MigratedMeansComplete
PROPERTIES
  LosesOnlyToWinner
  ServesIffConfigured
CHECK_DEADLOCK FALSE
