CONSTANTS
  Sessions = {"repl", "headless"}
  Commands <- MCCommands
  Models = {"m", "n"}
  Servers = {1, 2}
  NoServer = 0
  Tries = 2
  MaxWedges = 1
SPECIFICATION FairSpec
CHECK_DEADLOCK FALSE
INVARIANTS TypeOK StopIsThorough OneModelWired
PROPERTIES UndisturbedIsRight OperationsEnd
