CONSTANTS
  Sessions = {"repl"}
  Commands <- MCCommands
  Models = {"m", "n"}
  Servers = {1, 2}
  NoServer = 0
  Tries = 2
  MaxWedges = 1
SPECIFICATION Spec
CHECK_DEADLOCK FALSE
PROPERTIES StartIsAnsweredByIt
