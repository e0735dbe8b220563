---------------------------- MODULE MCDummyClient ----------------------------
(* Instances of DummyClientMain for TLC. *)
EXTENDS DummyClientMain

CONSTANT junk

TwoBlocksAndMore == 2 * BlockSize + 1

===============================================================================
