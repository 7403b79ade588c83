\* Three pools, two callers, a length for each pool and one that none can serve.
SPECIFICATION Spec
CONSTANTS
  Callers = {c1, c2}
  NumPools = 3
  PoolLen <- MCLen
  PoolNum <- MCNum
  PoolStart <- MCStart
  ReqLens = {1, 2, 3, 5}
INVARIANTS Partition BestFit
