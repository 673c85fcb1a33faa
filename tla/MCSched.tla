----------------------------- MODULE MCSched -----------------------------
(* SchedWait for TLC: three levels, and two processes on the lowest.           *)
EXTENDS SchedWait, TLC

CONSTANTS hi, lo, lo2

Prio == hi :> 0 @@ lo :> 2 @@ lo2 :> 2
=============================================================================
