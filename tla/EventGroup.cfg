SPECIFICATION FairSpec
CONSTANTS
  b1 = b1
  b2 = b2
  Threads = {t1, t2, t3}
  Bits <- TwoBits
  Masks <- AllMasks
  Requests <- MixedRequests
  None = None
INVARIANT NoMissedWakeup
PROPERTIES ClearedBitsAreReported Refinement WaitsEnd
