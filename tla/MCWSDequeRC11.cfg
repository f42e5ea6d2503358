\* Two thieves, blocks of 2 slots, 5 pushes (3 blocks): thieves cross two
\* block boundaries and retire blocks concurrently, and slots are written
\* again when the owner pops and pushes, so a stale slot load could return
\* an earlier value as well as the uninitialised cell.
CONSTANTS
  t1 = t1
  t2 = t2
  Nil = Nil
  Thieves <- MCThieves2
  BS = 2
  MaxPush = 5
SPECIFICATION RCSpec
INVARIANT RCTypeOK
INVARIANT StealSynchronizedWithPush
INVARIANT RetireBehindTail
PROPERTY DequeRefinement
PROPERTY OwnerCursorOK
SYMMETRY ThiefSymmetry
