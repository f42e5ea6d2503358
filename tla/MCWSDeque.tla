----------------------------- MODULE MCWSDeque -----------------------------
(* Model-checking instance of WSDeque: the thief is a model value.          *)
EXTENDS WSDeque, TLC

CONSTANT t1

MCThieves1 == {t1}
=============================================================================
