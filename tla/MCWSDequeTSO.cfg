\* Two thieves, blocks of 2 slots, 4 pushes, a 2-entry store buffer: the
\* owner's restore of bot can still sit in the buffer when it pops again.
CONSTANTS
  t1 = t1
  t2 = t2
  Nil = Nil
  Thieves <- MCThieves2
  BS = 2
  MaxPush = 4
  SBSize = 2
SPECIFICATION TSOSpec
INVARIANT TSOTypeOK
PROPERTY TSORefinement
PROPERTY ThiefSeesI1
