----------------------------- MODULE MCPacketCodec -----------------------------
(* Instances of PacketCodec for TLC. *)
EXTENDS PacketCodec, TLC

CONSTANTS c1, c2

TwoClients == {c1, c2}
Symmetry == Permutations(Clients)

\* Memory without digits, as a debug heap fills it, and memory that is full of them.
BlankOrDigits == {[i \in AreaCells |-> Fill], [i \in AreaCells |-> i % 2]}
SomeLeftovers == {<<>>, <<1>>}

\* Numbers of one, two and four binary digits.
TwoNumbers == [1 .. 2 -> {0, 3, 9, 11}]

===============================================================================
