CONSTANTS
  Prose = {"document"}
  Spoken <- MCSpoken
  MaxNudges <- MCMaxNudges
  MaxMalformed = 2
  MaxSalvaged = 1
  Requests <- MCRequests
  MaxTasks = 1
SPECIFICATION FairSpec
CHECK_DEADLOCK FALSE
INVARIANTS TypeOK GrindsOncePerText AnswerIsEarned
PROPERTIES PatienceRunsOut QuietTurnsEnd
