------------------------------- MODULE MCLogger -------------------------------
(* Instances of Logger for TLC. *)
EXTENDS Logger, TLC

CONSTANTS t1, t2, none

OneThread == {t1}
TwoThreads == {t1, t2}
OneLevel == {1}

===============================================================================
