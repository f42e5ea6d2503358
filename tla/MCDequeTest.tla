------------------------------ MODULE MCDequeTest ----------------------------
(* Model-checking instance of DequeTest: thieves are model values.          *)
EXTENDS DequeTest, TLC

CONSTANTS t1, t2, t3

MCThieves2 == {t1, t2}
MCThieves3 == {t1, t2, t3}
=============================================================================
