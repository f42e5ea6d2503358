\* Two thieves, 1-slot blocks, two pushes: a thief whose view predates the
\* allocation of block 1 loads tail = 1, just moved there by another thief.
CONSTANTS
  t1 = t1
  t2 = t2
  Nil = Nil
  Thieves <- MCThieves2
  BS = 1
  MaxPush = 2
SPECIFICATION RCSpec
INVARIANT BlockInitVisible
