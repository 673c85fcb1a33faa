------------------------------- MODULE MCOs -------------------------------
(* Os for TLC: a small configuration file, with processes that meet on a      *)
(* level, a process that arrives late, and both a short and a longer program. *)
EXTENDS Os, TLC

CONSTANTS cpu0, cpu1, cpu2, p1, p2, p3

MCConfig == <<p1, p2, p3>>
MCPrio == p1 :> 1 @@ p2 :> 0 @@ p3 :> 1
MCStart == p1 :> 0 @@ p2 :> 0 @@ p3 :> 3
MCSize == p1 :> 3 @@ p2 :> 1 @@ p3 :> 3

\* Another file: fewer processes than CPUs.
FewConfig == <<p1>>
FewPrio == p1 :> 0
FewStart == p1 :> 0
FewSize == p1 :> 2
=============================================================================
