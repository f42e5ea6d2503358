\* Two client threads and a stats() reader; one small and two large buckets;
\* requests that reuse a pooled block for a different n and that bypass the pool.
CONSTANTS
  a1 = a1
  a2 = a2
  Threads <- MCThreads
  Sizes <- MCSizes
  Requests <- MCRequests
  LargeThreshold = 32
  MaxAlign = 16
  W = 8
  MaxLive = 2
SPECIFICATION Spec
CHECK_DEADLOCK FALSE
PROPERTY StatsReserveNotNegative
