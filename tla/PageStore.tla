----------------------------- MODULE PageStore -----------------------------
(* What the 32-bit build's paging gives its processes, however short of RAM and *)
(* swap: each its own pages, which keep what was written to them, but for one  *)
(* page in the life of the system (the first ever evicted, see SwapIn in       *)
(* Paging.tla).  A page is not cleared when it is allocated, yet shows nothing *)
(* of another process.                                                         *)
EXTENDS Naturals

CONSTANTS Proc, Page, Value,
          Unwritten         \* what a page never written shows

VARIABLES content,          \* what a read of each page would return
          size,             \* pages each process has been given
          intact            \* no page has been lost

storeVars == <<content, size, intact>>

StoreInit == /\ content = [p \in Proc |-> [g \in Page |-> Unwritten]]
             /\ size = [p \in Proc |-> 0]
             /\ intact \in BOOLEAN

\* Every page but these pages of p shows what it did ...
Kept(p, pages) ==
    \A q \in Proc, g \in Page :
        ~(q = p /\ g \in pages) => content'[q][g] = content[q][g]

\* ... or one page of p, and of p only, has been lost.
KeptOrLost(p, pages) ==
    \/ Kept(p, pages) /\ intact' = intact
    \/ /\ intact /\ ~intact'
       /\ \E lost \in Page : /\ Kept(p, pages \cup {lost})
                             /\ lost \notin pages => content'[p][lost] = Unwritten

\* The pages the area of p grows by show nothing, or what p had in another page.
StoreAlloc(p) ==
    \E n \in Page :
        LET new == {g \in Page : size[p] <= g /\ g <= size[p] + n} IN
        /\ size' = [size EXCEPT ![p] = @ + n + 1]
        /\ KeptOrLost(p, new)
        /\ \A g \in new : content'[p][g] \in {Unwritten} \cup {content[p][h] : h \in Page}

StoreWrite(p, g, v) ==
    /\ g < size[p]
    /\ KeptOrLost(p, {g})
    /\ content'[p][g] = v
    /\ UNCHANGED size

StoreRead(p) == KeptOrLost(p, {}) /\ UNCHANGED size

StoreNext == \E p \in Proc : \/ StoreAlloc(p) \/ StoreRead(p)
                              \/ \E g \in Page, v \in Value : StoreWrite(p, g, v)

StoreSpec == StoreInit /\ [][StoreNext]_storeVars
=============================================================================
