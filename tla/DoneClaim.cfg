CONSTANTS
  Batches = {"edit", "check", "compile"}
  NoBatch = NoBatch
  Calls <- MCCalls
  PlanOf <- MCPlanOf
  Refusable = {}
  Texts = {"ok", "error"}
  ErrTexts = {"error"}
  MaxIterations = 7
  MaxRepeat = 3
  MaxForgivenRereads = 2
  MaxForgivenNudged = 1
  MaxOpenTaskNudges = 2
SPECIFICATION Spec
CHECK_DEADLOCK FALSE
INVARIANTS DoneClaimTrue
