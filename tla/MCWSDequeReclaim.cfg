\* Two thieves, one-slot blocks, 4 pushes: blocks are retired, reclaimed and
\* handed out again by ca_alloc with a new block_id before the destructor.
CONSTANTS
  t1 = t1
  t2 = t2
  Nil = Nil
  Thieves <- MCThieves2
  BS = 1
  MaxPush = 4
  Policy = "quiescent"
SPECIFICATION ReclaimSpec
CHECK_DEADLOCK FALSE
INVARIANT TypeOK
INVARIANT ReuseNotInUse
INVARIANT DestructorFreesOnce
PROPERTY GetRetiredOrder
PROPERTY DequeRefinement
