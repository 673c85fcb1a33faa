---------------------------- MODULE MCPageTable ----------------------------
(* An instance of PageTable for TLC.                                          *)
EXTENDS PageTable, TLC

\* The fields of 0xdeadbeef: PRESENT and SWAPPED set, bits 0 to 25.
Deadbeef == [present |-> TRUE, swapped |-> TRUE, low |-> 44941039]
=============================================================================
