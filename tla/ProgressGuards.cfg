CONSTANTS
  Files = {"f"}
  Errors = {"e"}
  Tests = {"t"}
  Headless = TRUE
  MaxIterations = 5
  MaxErrorStall = 2
  MaxConsecutiveErrors = 2
  MaxNoinfo = 2
  MaxNochange = 2
  Gate = 2
  SteerBudget = 2
  ResendBudget = 1
  MaxCalls = 2
  Issued <- MCIssued
SPECIFICATION Spec
CHECK_DEADLOCK FALSE
INVARIANTS TypeOK StallBounded StallStopIsFair FutilityBounded GateRearms
