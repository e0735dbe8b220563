----------------------------- MODULE MCLifetimes -----------------------------
(* Instances of Lifetimes for TLC. *)
EXTENDS Lifetimes

CONSTANTS s1, s2, w1, b1, b2, junk, none

TwoSessions == {s1, s2}
OneWorker == {w1}
TwoBlocks == {b1, b2}

===============================================================================
