SPECIFICATION FairSpec
CONSTANTS
  a1 = a1 a2 = a2 b1 = b1 k1 = k1 a = a b = b k = k
  NoRpm = NoRpm
  Pkgs <- TwoVersions
  Names <- OneName
  NameOf <- VersionsOf
  Available <- OnlyA1
  PubKeys <- NoKeys
  ExternalAt <- Anywhere
  Failures <- Anything
  MaxPlan = 2
  MaxExtra = 0
  MaxTrans = 2
  MaxFlags = 1
  MaxInst = 3
PROPERTIES CommandEnds
CHECK_DEADLOCK FALSE
