----------------------------- MODULE MCKernelMm -----------------------------
(* Instances of KernelMm for TLC.                                             *)
EXTENDS KernelMm, TLC

CONSTANTS cpu0, cpu1, p1, p2, p3

\* Nothing distinguishes one process from another, or one CPU.
Symmetry == Permutations(Proc) \cup Permutations(Devices)
=============================================================================
