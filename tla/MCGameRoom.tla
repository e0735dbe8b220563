------------------------------ MODULE MCGameRoom ------------------------------
(* Instances of GameRoom for TLC. *)
EXTENDS GameRoom, TLC

CONSTANTS r1, s1, s2, w1, hello, empty, other, io_thread, none

OneRoom == {r1}
TwoSessions == {s1, s2}
AllInOneRoom == [s \in Sessions |-> r1]
OneWorker == {w1}

\* A TESTER packet, one with no body, and one whose event Parse does not know.
ThreeMessages == {hello, empty, other}
TwoMessages == {hello, empty}
TesterMessages == {hello, empty}
ParsableMessages == {hello, other} \cap Messages
Symmetry == Permutations(TwoSessions)

BodyLens == [m \in Messages |-> CASE m = hello -> 1 [] m = empty -> 0 [] m = other -> 2]

===============================================================================
