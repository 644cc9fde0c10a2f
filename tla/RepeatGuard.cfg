CONSTANTS
  Batches = {"edit", "check", "read", "finish"}
  NoBatch = NoBatch
  Calls <- MCCalls
  PlanOf <- MCPlanOf
  Refusable = {"edit"}
  Texts = {"ok", "error"}
  ErrTexts = {"error"}
  MaxIterations = 6
  MaxRepeat = 3
  MaxForgivenRereads = 2
  MaxForgivenNudged = 1
  MaxOpenTaskNudges = 2
SPECIFICATION Spec
CHECK_DEADLOCK FALSE
INVARIANTS TypeOK RepeatedEditBounded FutileRunsBounded DoneReadingIsCurrent
PROPERTIES NoFalseAlarm
