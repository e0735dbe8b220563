----------------------------- MODULE MCThreadPool -----------------------------
(* Instances of ThreadPool for TLC. *)
EXTENDS ThreadPool, TLC

CONSTANTS w1, w2, w3, c1, c2, t1, t2, t3, owner, none

ThreeWorkers == {w1, w2, w3}
TwoCallers == {c1, c2}
ThreeTasks == {t1, t2, t3}

===============================================================================

