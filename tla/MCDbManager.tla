------------------------------ MODULE MCDbManager ------------------------------
(* Instances of DbManager for TLC. *)
EXTENDS DbManager, TLC

CONSTANTS m1, m2, r1, r2, s1, s2, nobody, none

OneManager == {m1}
TwoManagers == {m1, m2}
OneRow == {r1}
TwoRows == {r1, r2}
OneSession == {s1}
TwoSessions == {s1, s2}
TwoValues == {0, 1}
Symmetry == Permutations(Managers) \cup Permutations(Rows) \cup Permutations(Sessions)

===============================================================================
