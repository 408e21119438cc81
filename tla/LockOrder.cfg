SPECIFICATION FairSpec
CONSTANTS
  t1 = t1  t2 = t2
  N = 3
  Thread <- TwoThreads
  Nobody = Nobody
  MaxCalls = 4
CHECK_DEADLOCK FALSE
INVARIANTS TypeOK DeadlocksNeedScan
PROPERTY CallsReturnOrHang
