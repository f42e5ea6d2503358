---------------------------- MODULE MCWSDequeTSO ----------------------------
(* Model-checking instance of WSDequeTSO: thieves are model values.         *)
EXTENDS WSDequeTSO, TLC

CONSTANTS t1, t2

MCThieves2 == {t1, t2}
=============================================================================
