SPECIFICATION Spec
CONSTANTS
  a1 = a1 a2 = a2 b1 = b1 k1 = k1 a = a b = b k = k
  NoRpm = NoRpm
  Pkgs <- TwoPkgs
  Names <- TwoNames
  NameOf <- TwoNameOf
  Available <- TwoPkgs
  PubKeys <- NoKeys
  ExternalAt <- AfterCookie
  Failures <- NoFailures
  MaxPlan = 1
  MaxExtra = 0
  MaxTrans = 2
  MaxFlags = 2
  MaxInst = 4
INVARIANTS NoLostChange
CHECK_DEADLOCK FALSE
