----------------------------- MODULE SlabTests -----------------------------
(***************************************************************************)
(* slab_tests() of mm/slab.c: the script of kmalloc() and kmfree() calls   *)
(* that slab_init() runs at every boot (the Makefile defines __DEBUG__),   *)
(* with the state of the lists it checks after each part, on the real      *)
(* sizes.  The calls are the actions of Slab; a check that fails panics.   *)
(***************************************************************************)
EXTENDS Slab, TLC

VARIABLES
    round,   \* the loop of slab_tests() that runs
    i,       \* its variable
    addr     \* the arrays addr and addr2: <<array, index>> |-> address

testVars == <<allVars, round, i, addr>>

Loop(op, array, first, last, by, size) ==
    [op |-> op, array |-> array, first |-> first, last |-> last, by |-> by, size |-> size]

Loops ==
    <<Loop("kmalloc", 1, 0, 64, 1, 64),
      Loop("kmfree", 1, 0, 64, 2, 0),
      Loop("kmalloc", 2, 0, 63, 1, 64),
      Loop("kmfree", 1, 1, 64, 2, 0),
      Loop("kmfree", 2, 0, 63, 1, 0),
      Loop("kmalloc", 1, 0, 32, 1, 128),
      Loop("kmfree", 1, 0, 32, 2, 0),
      Loop("kmfree", 1, 1, 32, 2, 0),
      Loop("kmalloc", 1, 0, 64, 1, 8192),
      Loop("kmfree", 1, 0, 64, 1, 0)>>

slab64 == 0
slab128 == 1
slab8K == 7

Odd(n) == {k \in 0 .. n - 1 : k % 2 = 1}

\* What is checked after a loop: the bitmaps along the list of some classes.
Expected ==
    <<slab64 :> <<0 .. 63, {0, 1}>>,
      slab64 :> <<Odd(64)>>,
      slab64 :> <<0 .. 63, 0 .. 32>>,
      <<>>,
      slab64 :> <<{}>>,
      slab64 :> <<{0}>> @@ slab128 :> <<0 .. 31, {0}>>,
      slab64 :> <<{}>> @@ slab128 :> <<Odd(32)>>,
      slab64 :> <<{}>> @@ slab128 :> <<{}>>,
      slab64 :> <<{0}>> @@ slab8K :> <<0 .. 63, {0}>>,
      slab64 :> <<{}>> @@ slab128 :> <<{}>> @@ slab8K :> <<{}>>>>

AsExpected(r) ==
    \A c \in DOMAIN Expected[r] : [k \in 1 .. Len(slabs[c]) |-> slabs[c][k].bitmap] = Expected[r][c]

TestInit == SInit /\ round = 1 /\ i = 0 /\ addr = <<>>

BootHeap == (BootPages \/ \E c \in Class : slab_init(c)) /\ UNCHANGED <<round, i, addr>>

InLoop == Ready /\ round <= Len(Loops) /\ i <= Loops[round].last

TestMalloc ==
    /\ InLoop /\ Loops[round].op = "kmalloc"
    /\ kmalloc(Loops[round].size)
    /\ addr' = (<<Loops[round].array, i>> :> MallocAddr(Heap, _size_to_slab_idx(Loops[round].size)))
                 @@ addr
    /\ i' = i + Loops[round].by
    /\ UNCHANGED round

TestFree ==
    /\ InLoop /\ Loops[round].op = "kmfree"
    /\ \E o \in live : o.addr = addr[<<Loops[round].array, i>>] /\ kmfree(o)
    /\ i' = i + Loops[round].by
    /\ UNCHANGED <<round, addr>>

\* The end of a loop, with the check that follows it.
TestCheck ==
    /\ Ready /\ round <= Len(Loops) /\ i > Loops[round].last
    /\ panic' = IF AsExpected(round) THEN panic ELSE "slab_tests failed"
    /\ round' = round + 1
    /\ i' = IF round < Len(Loops) THEN Loops[round + 1].first ELSE 0
    /\ UNCHANGED <<pmmap, allocatable_max, held, slabVars, addr>>

Finished == round > Len(Loops)

TestOver == (~Running \/ Finished) /\ UNCHANGED testVars

TestNext == BootHeap \/ TestMalloc \/ TestFree \/ TestCheck \/ TestOver

TestSpec == TestInit /\ [][TestNext]_testVars

-----------------------------------------------------------------------------

\* "Free slab if all sectors are free": when slab_tests() has passed its nine
\* checks and freed all it took, every page taken from the page allocator
\* belongs to a linked slab.
NoPageLostByTests == Finished /\ Running => NoPageLost
=============================================================================
