-------------------------------- MODULE Pte --------------------------------
(* A page table entry: the present and the swapped bit, and the low bits in   *)
(* which the frame number and the swap offset overlap.                        *)
EXTENDS Naturals

CONSTANTS SWPOFF,           \* 2^PAGING_PTE_SWPOFF_LOBIT
          FPNSPAN,          \* 2^(PAGING_PTE_FPN_HIBIT + 1)
          MM64

ASSUME EntryAssumption == SWPOFF \in Nat \ {0} /\ FPNSPAN \in Nat \ {0}
ASSUME BuildAssumption == MM64 \in BOOLEAN

PTE == [present : BOOLEAN, swapped : BOOLEAN, low : Nat]

NoEntry == [present |-> FALSE, swapped |-> FALSE, low |-> 0]

FPN(pte) == pte.low % FPNSPAN
SWP(pte) == pte.low \div SWPOFF

\* pte_set_fpn keeps the bits above the frame number.
SetFpn(pte, f) == [present |-> TRUE, swapped |-> FALSE,
                   low |-> pte.low - FPN(pte) + f]

\* Mutant: the present bit survives in the 32-bit build too.
SetSwapPresent(pte, g) == [present |-> TRUE, swapped |-> TRUE, low |-> g * SWPOFF]

\* pte_set_swap with swap type 0: mm.c takes the page off line, ...
SetSwap32(pte, g) == [present |-> FALSE, swapped |-> TRUE, low |-> g * SWPOFF]

\* ... mm64.c does not.
SetSwap64(pte, g) == [present |-> TRUE, swapped |-> TRUE, low |-> g * SWPOFF]

SetSwap(pte, g) == IF MM64 THEN SetSwap64(pte, g) ELSE SetSwap32(pte, g)
=============================================================================
