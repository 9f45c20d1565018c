SPECIFICATION FairSpec
CONSTANTS
  N = 3
  OrderMax = 3
PROPERTY ExecReturns
INVARIANTS
  TypeOK
  InitOnTopOfEarlier
  ExitAtMostOnce
  TeardownDescends
  ExitFollowsInit
  LowerOrdersGoDown
