\* One thief; the owner pushes between the thief's load of bot and its CAS.
CONSTANTS
  t1 = t1
  Nil = Nil
  Thieves <- MCThieves1
  BS = 2
  MaxPush = 3
SPECIFICATION Spec
PROPERTY EmptyFlagTruthful
