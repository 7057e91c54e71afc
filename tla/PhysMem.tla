------------------------------ MODULE PhysMem ------------------------------
(***************************************************************************)
(* The physical memory allocator: mm/pm.c and the loops of pm_init() in    *)
(* arch/x86/pm.c that fill it at boot.                                     *)
(*                                                                         *)
(* Three LIFO free lists hold blocks of 4 KiB, 512 KiB and 64 MiB.  An     *)
(* empty list is refilled by splitting one block of the next larger size;  *)
(* blocks are never merged again.  A list, which the code threads through  *)
(* the first word of the free blocks, is a sequence of addresses here,     *)
(* head first.  `held' records the blocks the callers own: it is the       *)
(* callers' half of the contract (free only what you hold, once, with the  *)
(* size you asked for) and no variable of the code.                        *)
(***************************************************************************)
EXTENDS Integers, Sequences

CONSTANTS
    KernelEnd,       \* kernel_end, the first address after the kernel image
    MemTotal,        \* SYSTEM.memtotal
    AllocatableMax,  \* what the page-table scan of pm_init() found
    PM_4K, PM_512K, PM_64M,
    SplitN           \* 128, the trip count of both splitting loops

ASSUME PMAssumption ==
    /\ PM_4K \in Nat \ {0} /\ SplitN \in Nat \ {0}
    /\ PM_512K \in Nat /\ PM_512K = SplitN * PM_4K
    /\ PM_64M \in Nat /\ PM_64M = SplitN * PM_512K
    /\ KernelEnd \in Nat \ {0}
    /\ AllocatableMax \in Nat /\ MemTotal \in Nat
    /\ AllocatableMax <= MemTotal

VARIABLES
    pmmap,            \* the heads of the free lists, by size index
    allocatable_max,  \* pm_init()'s local: everything from here up was freed
    held,             \* blocks owned by callers
    panic             \* the reason of the panic() that stopped the kernel

pmVars == <<pmmap, allocatable_max, held, panic>>

Idx == 0 .. 2

\* _pm_size_to_idx() read from right to left: the size of an index.
Size == [i \in Idx |-> IF i = 0 THEN PM_4K ELSE IF i = 1 THEN PM_512K ELSE PM_64M]

Running == panic = "none"

-----------------------------------------------------------------------------
(* The list operations as functions of the lists' value.                   *)

Push(m, i, a) == [m EXCEPT ![i] = <<a>> \o m[i]]

\* Mutated forms.
SplitShort(base, i) == [k \in 1 .. SplitN - 1 |-> base + (k - 1) * Size[i]]
SplitCoarse(base, i) == [k \in 1 .. SplitN |-> base + (k - 1) * PM_4K]

\* The list SplitN calls of pmfree() leave behind, from the top of the block
\* down, on a list that was empty: ascending, the block's base at the head.
Split(base, i) == [k \in 1 .. SplitN |-> base + (k - 1) * Size[i]]

\* The lists when pmalloc() of a 512 KiB (4 KiB) block reaches its pop: the
\* list was not empty, or a larger block was taken and split.
Refill512K(m) ==
    IF m[1] # <<>> THEN m
    ELSE [m EXCEPT ![1] = Split(Head(m[2]), 1), ![2] = Tail(m[2])]

Refill4K(m) ==
    IF m[0] # <<>> THEN m
    ELSE LET n == Refill512K(m)
         IN [n EXCEPT ![0] = Split(Head(n[1]), 0), ![1] = Tail(n[1])]

Refill(m, i) == IF i = 0 THEN Refill4K(m) ELSE IF i = 1 THEN Refill512K(m) ELSE m

\* The recursion of pmalloc() reaches the empty 64 MiB list and panics.
OutOfMemory(m, i) == \A j \in i .. 2 : m[j] = <<>>

\* Mutated form: the address where a splitting loop that counts upwards ends,
\* instead of the head of the refilled list.
NewBlockPast(m, i) ==
    IF m[i] # <<>> THEN Head(m[i]) ELSE Head(Refill(m, i)[i]) + SplitN * Size[i]

\* The block pmalloc() returns and the lists it leaves.
NewBlock(m, i) == Head(Refill(m, i)[i])

\* Mutated form.
TakeTwice(m, i) == Refill(m, i)

Take(m, i) == [Refill(m, i) EXCEPT ![i] = Tail(Refill(m, i)[i])]

\* The sanity check at the head of pmfree().
InvalidAddress(a) == a = 0 \/ a < KernelEnd \/ a >= MemTotal

\* Some piece that the splitting loops hand to pmfree() fails that check (what
\* was on the lists before has passed it).
BadSplit(m, i) ==
    \E j \in Idx : \E k \in 1 .. Len(Refill(m, i)[j]) : InvalidAddress(Refill(m, i)[j][k])

-----------------------------------------------------------------------------
PMInit ==
    /\ pmmap = [i \in Idx |-> <<>>]
    /\ allocatable_max = AllocatableMax
    /\ held = {}
    /\ panic = "none"

\* Mutated form.
FitsLoose(i) == allocatable_max >= Size[i]

\* The condition of the while loop of pm_init() that frees blocks of index i.
Fits(i) == allocatable_max >= KernelEnd + Size[i]

Booting == Fits(0)

\* One iteration of the loops of pm_init(): 64 MiB blocks while they fit,
\* then 512 KiB blocks, then 4 KiB blocks, downwards to the kernel.
pm_init(i) ==
    /\ Running /\ Fits(i) /\ \A j \in Idx : j > i => ~Fits(j)
    /\ LET a == allocatable_max - Size[i]
       IN IF InvalidAddress(a)
          THEN panic' = "pmfree: invalid address" /\ UNCHANGED <<pmmap, allocatable_max>>
          ELSE /\ allocatable_max' = a
               /\ pmmap' = Push(pmmap, i, a)
               /\ UNCHANGED panic
    /\ UNCHANGED held

pmalloc(i) ==
    /\ Running /\ ~Booting
    /\ IF OutOfMemory(pmmap, i)
       THEN panic' = "pmalloc: out of memory" /\ UNCHANGED <<pmmap, held>>
       ELSE IF BadSplit(pmmap, i)
       THEN panic' = "pmfree: invalid address" /\ UNCHANGED <<pmmap, held>>
       ELSE /\ pmmap' = Take(pmmap, i)
            /\ held' = held \cup {[addr |-> NewBlock(pmmap, i), idx |-> i]}
            /\ UNCHANGED panic
    /\ UNCHANGED allocatable_max

pmfree(b) ==
    /\ Running /\ ~Booting
    /\ IF InvalidAddress(b.addr)
       THEN panic' = "pmfree: invalid address" /\ UNCHANGED <<pmmap, held>>
       ELSE /\ pmmap' = Push(pmmap, b.idx, b.addr)
            /\ held' = held \ {b}
            /\ UNCHANGED panic
    /\ UNCHANGED allocatable_max

\* panic() prints and spins.
Halted == ~Running /\ UNCHANGED pmVars

PMNext ==
    \/ \E i \in Idx : pm_init(i) \/ pmalloc(i)
    \/ \E b \in held : pmfree(b)
    \/ Halted

PMSpec == PMInit /\ [][PMNext]_pmVars

-----------------------------------------------------------------------------
(* Properties.                                                             *)

Addr == KernelEnd .. (MemTotal - 1)

\* Type invariant: every address the allocator knows lies above the kernel
\* image and inside memory (the range pmfree() checks), and a caller's block
\* is a block.
PMTypeOK ==
    /\ pmmap \in [Idx -> Seq(Addr)]
    /\ allocatable_max \in Nat
    /\ held \subseteq [addr : Addr, idx : Idx]
    /\ panic \in {"none", "pmalloc: out of memory", "pmfree: invalid address"}

Apart(a, m, b, n) == a + m <= b \/ b + n <= a

\* No two blocks, free or held, on any lists, share an address: what pmalloc()
\* hands out is nobody else's, through any history of splits, frees and
\* allocations of mixed sizes.
FreeApart ==
    \A i, j \in Idx : \A k \in 1 .. Len(pmmap[i]), l \in 1 .. Len(pmmap[j]) :
        (i # j \/ k # l) => Apart(pmmap[i][k], Size[i], pmmap[j][l], Size[j])

HeldApartFromFree ==
    \A b \in held, i \in Idx : \A k \in 1 .. Len(pmmap[i]) :
        Apart(b.addr, Size[b.idx], pmmap[i][k], Size[i])

HeldApart ==
    \A b, c \in held : b # c => Apart(b.addr, Size[b.idx], c.addr, Size[c.idx])

Disjoint == FreeApart /\ HeldApartFromFree /\ HeldApart

InBlock(x, a, n) == a <= x /\ x < a + n

IsFree(x) == \E i \in Idx : \E k \in 1 .. Len(pmmap[i]) : InBlock(x, pmmap[i][k], Size[i])

IsHeld(x) == \E b \in held : InBlock(x, b.addr, Size[b.idx])

\* Splitting loses nothing and invents nothing: an address is free or held
\* exactly when pm_init() has freed it, whatever has been split since.
Conserved ==
    \A x \in 0 .. MemTotal :
        (allocatable_max <= x /\ x < AllocatableMax) <=> (IsFree(x) \/ IsHeld(x))

\* The only way to stop the allocator is to exhaust it: no block that
\* pm_init(), a split or a well-behaved caller frees fails the check at the
\* head of pmfree().
PanicOnlyWhenExhausted ==
    panic # "none" => panic = "pmalloc: out of memory" /\ pmmap[2] = <<>>

FreeAddrs == {x \in 0 .. MemTotal : IsFree(x)}

HeldBlocks == {<<b.addr, Size[b.idx]>> : b \in held}

Abs == INSTANCE PageAlloc WITH
         Addrs <- 0 .. MemTotal, Sizes <- {Size[i] : i \in Idx},
         free  <- FreeAddrs, owned <- HeldBlocks

\* Refinement: the lists implement the allocator of PageAlloc.  Every step of
\* pm_init(), pmalloc() and pmfree() gives, hands out or takes back exactly one
\* whole block, or (a panic) leaves free and owned memory as they are.
ImplementsPageAlloc == Abs!ASpec
=============================================================================
