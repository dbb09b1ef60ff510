SPECIFICATION Spec
CONSTANTS
  a1 = a1 a2 = a2 b1 = b1 k1 = k1 a = a b = b k = k
  NoRpm = NoRpm
  Pkgs <- VersionsAndKey
  Names <- NameAndKey
  NameOf <- VersionsAndKeyOf
  Available <- TwoVersions
  PubKeys <- OneKey
  ExternalAt <- BetweenCommands
  Failures <- Crashes
  MaxPlan = 2
  MaxExtra = 1
  MaxTrans = 3
  MaxFlags = 2
  MaxInst = 4
INVARIANTS TypeOK RollbackExact RangeReapplied RangeFlags NothingLeftToDo InstallRecorded ContextIsLast
CHECK_DEADLOCK FALSE
