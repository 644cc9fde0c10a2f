SPECIFICATION Spec
CONSTANTS
  Files <- MCFiles
  Python <- MCPython
  Area <- MCArea
  Base <- MCBase
  Yolo = FALSE
  Approver = TRUE
  Toks <- MCToks
  Openers <- MCOpeners
  MaxIndent = 2
  MaxLines = 3
  MaxRemembered = 1
  Ratio <- MCRatio
  Calls <- MCCalls
  Saves <- MCSaves
INVARIANT TypeOK
PROPERTIES
  EditsKeepParsing
  ShownIsWritten
  OnePlaceChanges
  ChangesAreAuthorised
