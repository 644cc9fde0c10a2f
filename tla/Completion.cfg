SPECIFICATION Spec
CONSTANT MaxCalls <- MCMaxCalls
INVARIANTS
  TypeOK
  ClosedWhenOver
  AftermathBounded
  CommandsAreReached
PROPERTY
  EscEnds
