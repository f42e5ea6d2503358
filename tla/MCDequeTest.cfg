\* The owner and two thieves drain 5 values from one-slot blocks, so the
\* thieves retire blocks and walk back from a tail another thief moved.
CONSTANTS
  t1 = t1
  t2 = t2
  t3 = t3
  Nil = Nil
  Thieves <- MCThieves2
  BS = 1
  MaxPush = 5
SPECIFICATION TestSpec
CHECK_DEADLOCK FALSE
INVARIANT TestPopsAll
