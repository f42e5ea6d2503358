------------------------- MODULE MCWSDequeReclaim --------------------------
(* Model-checking instance of WSDequeReclaim: thieves are model values.     *)
EXTENDS WSDequeReclaim, TLC

CONSTANTS t1, t2

MCThieves2 == {t1, t2}

ThiefSymmetry == Permutations(MCThieves2)
=============================================================================
