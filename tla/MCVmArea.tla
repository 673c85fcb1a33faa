------------------------------ MODULE MCVmArea ------------------------------
(* Instances of VmArea for TLC.                                               *)
EXTENDS VmArea, TLC

CONSTANTS a, b, c

\* Nothing distinguishes one symbol from another.
Symbols == Permutations(RgId)
=============================================================================
