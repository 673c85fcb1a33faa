------------------------------ MODULE PageMap ------------------------------
(* What a page table is for whoever uses it: one entry per page number, each  *)
(* changed by itself.  PageTable.tla is the tree of tables of mm64.c, checked *)
(* to implement this; Paging.tla takes it for granted.                        *)
EXTENDS Pte

CONSTANTS PageNo,           \* page numbers in use
          Frame, Swap,      \* frame numbers and swap offsets
          Pattern           \* the entry of a reserved page

VARIABLE entry

MapInit == entry = [g \in PageNo |-> NoEntry]

MapSetFpn(g, f) == entry' = [entry EXCEPT ![g] = SetFpn(@, f)]

MapSetSwap(g, o) == entry' = [entry EXCEPT ![g] = SetSwap(@, o)]

MapMemset(range) == entry' = [g \in PageNo |-> IF g \in range THEN Pattern ELSE entry[g]]

MapNext == \/ \E g \in PageNo : \/ \E f \in Frame : MapSetFpn(g, f)
                                \/ \E o \in Swap : MapSetSwap(g, o)
           \/ \E range \in SUBSET PageNo : MapMemset(range)

MapSpec == MapInit /\ [][MapNext]_entry
=============================================================================
