------------------------------ MODULE MCPaging ------------------------------
(* Instances of Paging for TLC.                                               *)
EXTENDS Paging, TLC

CONSTANTS p1, p2

\* Nothing distinguishes one process from another.
Processes == Permutations(Proc)
=============================================================================
