SPECIFICATION Spec
CONSTANTS
  Responses <- MCResponses
  Models <- MCModels
  Prices <- MCPrices
  CaptureMax = 5
INVARIANTS
  TypeOK
  BilledAsReported
  BilledWasWritten
  CutBilledByLast
