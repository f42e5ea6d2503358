\* One thief is enough: the owner wins the last item at offset 0 of a block.
CONSTANTS
  t1 = t1
  Nil = Nil
  Thieves <- MCThieves1
  BS = 2
  MaxPush = 5
SPECIFICATION Spec
INVARIANT TailFollowsTop
