----------------------------- MODULE MCTimer -----------------------------
(* Names for the devices of Timer.  No symmetry: the run checks liveness too.  *)
EXTENDS Timer, TLC

CONSTANTS cpu0, cpu1, ld
=============================================================================
