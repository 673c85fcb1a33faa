----------------------------- MODULE PageTable -----------------------------
(* The page table of a process in the 64-bit build: pgd, p4d, pud, pmd and pt *)
(* are tables of Fanout slots each; those below pgd are allocated when a page *)
(* of theirs is first mapped, and never freed.  A slot holds the address of a *)
(* table (0 for none), and a slot of a pt an entry.  An address is where the  *)
(* table stands in dir or, for a pt, in ptab.                                 *)
EXTENDS Pte, Sequences

CONSTANTS Levels, Fanout,   \* 5 and 512
          PageNo, Frame, Swap,
          Pattern,          \* what 0xdeadbeef decodes to
          MaxRange          \* bound: pages reserved at once

\* A page number without its k lowest digits: 9 bits of the address each.
High(g, k) ==
    LET h[j \in 0..Levels] == IF j = 0 THEN g ELSE h[j - 1] \div Fanout
    IN  h[k]

ASSUME TreeAssumption ==
    /\ Levels \in Nat \ {0, 1} /\ Fanout \in Nat \ {0}
    /\ PageNo \subseteq Nat /\ \A g \in PageNo : High(g, Levels) = 0
ASSUME PatternAssumption == Pattern \in PTE
ASSUME NumberAssumption == Frame \subseteq Nat /\ Swap \subseteq Nat

VARIABLES dir,              \* pgd (the first), p4d, pud and pmd tables
          ptab              \* pt tables

vars == <<dir, ptab>>

Slot == 0..(Fanout - 1)

\* init_mm: pgd alone.
Init == /\ dir = <<[i \in Slot |-> 0]>>
        /\ ptab = << >>

\* Mutant: the mask of the pgd digit is empty.
IndexNarrow(g, l) == IF l = 1 THEN 0 ELSE High(g, Levels - l) % Fanout

\* get_pd_from_pagenum: the slot of page g at a level (1 is pgd, Levels is pt).
Index(g, l) == High(g, Levels - l) % Fanout

-----------------------------------------------------------------------------

\* Where the table of page g at each level is, or 0 if one on the way is missing.
TableOf(g) ==
    LET at[l \in 1..Levels] ==
            IF l = 1 THEN 1
            ELSE IF at[l - 1] = 0 THEN 0
            ELSE dir[at[l - 1]][Index(g, l - 1)]
    IN  at

\* pte_get_entry.
PteGetEntry(g) == LET t == TableOf(g)[Levels] IN
                  IF t = 0 THEN NoEntry ELSE ptab[t][Index(g, Levels)]

\* Mutant: malloc without memset; the block had been a table in use.
FreshDirty == [i \in Slot |-> Pattern]

\* Mutant: a table one slot short.
FreshShort == [i \in Slot \ {Fanout - 1} |-> NoEntry]

\* A new pt.
FreshTable == [i \in Slot |-> NoEntry]

\* One level down from the table s.at, which exists; the next one may not.
Down(s, g, l) ==
    LET slot == s.dir[s.at][Index(g, l)]
        lowest == l = Levels - 1
        new == 1 + IF lowest THEN Len(s.ptab) ELSE Len(s.dir)
        linked == [s.dir EXCEPT ![s.at][Index(g, l)] = new]
    IN  IF slot # 0 THEN [s EXCEPT !.at = slot]
        ELSE IF lowest
          THEN [dir |-> linked, ptab |-> Append(s.ptab, FreshTable), at |-> new]
        ELSE [dir |-> Append(linked, [i \in Slot |-> 0]), ptab |-> s.ptab, at |-> new]

\* All the way down: s.at is a pt then.
Walk(d, p, g) ==
    LET s[l \in 0..(Levels - 1)] ==
            IF l = 0 THEN [dir |-> d, ptab |-> p, at |-> 1] ELSE Down(s[l - 1], g, l)
    IN  s[Levels - 1]

\* pte_set_fpn.
PteSetFpn(g, f) ==
    LET s == Walk(dir, ptab, g) IN
    /\ dir' = s.dir
    /\ ptab' = [s.ptab EXCEPT ![s.at][Index(g, Levels)] = SetFpn(@, f)]

\* pte_set_swap.
PteSetSwap(g, o) ==
    LET s == Walk(dir, ptab, g) IN
    /\ dir' = s.dir
    /\ ptab' = [s.ptab EXCEPT ![s.at][Index(g, Levels)] = SetSwap(@, o)]

\* vmap_pgd_memset.
VmapPgdMemset(first, n) ==
    LET s[k \in 0..n] ==
            IF k = 0 THEN [dir |-> dir, ptab |-> ptab]
            ELSE LET t == Walk(s[k - 1].dir, s[k - 1].ptab, first + k - 1) IN
                 [dir |-> t.dir,
                  ptab |-> [t.ptab EXCEPT ![t.at][Index(first + k - 1, Levels)] = Pattern]]
    IN  /\ dir' = s[n].dir /\ ptab' = s[n].ptab

Next == \/ \E g \in PageNo : \/ \E f \in Frame : PteSetFpn(g, f)
                             \/ \E o \in Swap : PteSetSwap(g, o)
        \/ \E g \in PageNo, n \in 1..MaxRange :
               (g..(g + n - 1)) \subseteq PageNo /\ VmapPgdMemset(g, n)

Spec == Init /\ [][Next]_vars

-----------------------------------------------------------------------------
(* Properties.                                                                *)

PageTableTypeOK ==
    /\ dir \in Seq([Slot -> Nat])
    /\ ptab \in Seq([Slot -> PTE])
    /\ \A g \in PageNo : \A l \in 1..Levels :
           TableOf(g)[l] \in 0..Len(IF l = Levels THEN ptab ELSE dir)

\* Two pages share a table just when their numbers agree above it, and no table is
\* out of every page's reach: nothing is overwritten and no table leaks.
OneTablePerPrefix ==
    /\ \A g, h \in PageNo : \A l \in 1..Levels :
           TableOf(g)[l] # 0 /\ TableOf(h)[l] # 0 =>
               (TableOf(g)[l] = TableOf(h)[l]
                    <=> High(g, Levels - l + 1) = High(h, Levels - l + 1))
    /\ \A t \in 1..Len(ptab) : \E g \in PageNo : TableOf(g)[Levels] = t
    /\ \A t \in 1..Len(dir) : \E g \in PageNo, l \in 1..(Levels - 1) : TableOf(g)[l] = t

Flat == INSTANCE PageMap WITH entry <- [g \in PageNo |-> PteGetEntry(g)]

\* The tree of tables is one entry per page: mapping, swapping out or reserving a
\* page, and the tables that have to be made for it, change no other page's entry.
ImplementsPageMap == Flat!MapSpec
=============================================================================
