SPECIFICATION FairSpec
CONSTANTS
  p1 = p1 p2 = p2 p3 = p3 u1 = u1
  Procs <- AllFour
  Root <- ThreeRoots
  Failures <- AllFailures
  MaxRuns = 2
INVARIANTS LockExclusion ExclusiveUntilRecreated
PROPERTIES WaitersServed
CHECK_DEADLOCK FALSE
