CONSTANTS
  Batches = {"read", "check", "write", "finish"}
  Calls <- MCCalls
  Rescued = "write"
  MaxIterations = 4
  MaxWallclock = 3
  Grant = 2
  MaxForgivenRereads = 1
  MaxForgivenNudged = 1
  MaxHeaders = 2
  MaxTool = 1
  MaxConfirm = 1
  MaxTasks = 1
SPECIFICATION Spec
CHECK_DEADLOCK FALSE
INVARIANTS TypeOK BudgetFollowsProgress OnlyQuietTurnsDie OverrunBounded PaidBounded
