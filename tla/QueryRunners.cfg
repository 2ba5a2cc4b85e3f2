SPECIFICATION FairSpec
CONSTANTS
  r1 = r1
  r2 = r2
  r3 = r3
  Requests <- MCRequests
  PoolSize = 2
INVARIANTS PoolInv CommitsWithinPool
PROPERTIES WaitsOnlyForKept
