\* Two thieves, one-slot blocks, 4 pushes, reclamation under the hazard rule:
\* a thief walking back from tail reaches a block the owner has reclaimed.
CONSTANTS
  t1 = t1
  t2 = t2
  Nil = Nil
  Thieves <- MCThieves2
  BS = 1
  MaxPush = 4
  Policy = "no_hazard"
SPECIFICATION ReclaimSpec
CHECK_DEADLOCK FALSE
INVARIANT ReuseNotInUse
