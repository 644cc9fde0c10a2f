SPECIFICATION Spec
CONSTANTS
  Dirs = {"d1", "d2"}
  Names = {"a", "b"}
  Start = "d1"
  SizeOf <- MCSizeOf
  LongSize = 2100
  ShortSize = 700
  Keep = 2
  Soft = 2800
  Hard = 5600
  RecoveryShare = 20
  MaxNotices = 1
  MaxMessages = 6
  MaxSaved = 1
INVARIANTS
  TypeOK
  RecordIsHonest
  CompactSettles
PROPERTIES
  RecentReadSurvives
  OnlyNoiseGoes
