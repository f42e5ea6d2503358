---------------------------- MODULE MCWSDequeRC11 ---------------------------
(* Model-checking instance of WSDequeRC11: thieves are model values.        *)
EXTENDS WSDequeRC11, TLC

CONSTANTS t1, t2

MCThieves2 == {t1, t2}

ThiefSymmetry == Permutations(MCThieves2)
=============================================================================
