\* The unit test with three thieves (it runs 31): one stalled between its
\* CAS on top and its load of tail, one between its tail CAS and its push
\* onto the retire stack, and one that retires the next block meanwhile.
CONSTANTS
  t1 = t1
  t2 = t2
  t3 = t3
  Nil = Nil
  Thieves <- MCThieves3
  BS = 1
  MaxPush = 3
SPECIFICATION TestSpec
CHECK_DEADLOCK FALSE
INVARIANT TailWalkFindsBlock
