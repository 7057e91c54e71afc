-------------------------------- MODULE Slab --------------------------------
(***************************************************************************)
(* The kernel heap, mm/slab.c, on top of the physical allocator.           *)
(*                                                                         *)
(* A size class is a list of slabs; a slab is one page (4 KiB up to class  *)
(* SLAB_4K, 512 KiB above) cut into equal slots, with a bitmap of the      *)
(* slots in use.  The first slab of each class is static and stays; the    *)
(* others are described by a SLAB structure that itself lives in the heap: *)
(* in slot 0 of its own page for class 64, in a 64-byte object for all     *)
(* other classes.  So kmalloc() and kmfree() call themselves, and a free   *)
(* of one object may give back two slots and a page.                       *)
(*                                                                         *)
(* `self' is the address of a slab's SLAB structure, 0 for the static one. *)
(* The kernel runs kmalloc() and kmfree() to the end: no interrupt handler *)
(* allocates, so each is one action.  `live' is the callers' half of the   *)
(* contract: the objects handed out and not yet freed.                     *)
(***************************************************************************)
EXTENDS PhysMem, FiniteSets

CONSTANTS
    SLAB_MIN_SIZE,  \* 64
    SLAB_4K,        \* the class of 4 KiB objects
    SLAB_NUM,       \* number of classes
    Requests,       \* the sizes the kernel asks for
    MaxLive         \* bound: how many objects the kernel holds at a time

ASSUME SlabAssumption ==
    /\ SLAB_MIN_SIZE \in Nat \ {0}
    /\ SLAB_4K \in Nat /\ SLAB_NUM \in Nat /\ 0 < SLAB_4K /\ SLAB_4K < SLAB_NUM
    /\ PM_4K = SLAB_MIN_SIZE * 2 ^ SLAB_4K
    /\ PM_512K = SLAB_MIN_SIZE * 2 ^ (SLAB_NUM - 1)
    /\ Requests \subseteq Nat
    /\ MaxLive \in Nat

VARIABLES
    slabs,   \* class |-> its slabs, the static one first
    live     \* the objects the callers hold

slabVars == <<slabs, live>>

allVars == <<pmVars, slabVars>>

Class == 0 .. SLAB_NUM - 1

ClassSize == [i \in Class |-> SLAB_MIN_SIZE * 2 ^ i]

PageIdx(i) == IF i > SLAB_4K THEN 1 ELSE 0

Slots(i) == Size[PageIdx(i)] \div ClassSize[i]

\* What the powers of two above come to: a page of each class is cut into whole
\* slots, at most as many as a bitmap has bits; one of class 64 has a second slot.
ASSUME LayoutAssumption ==
    /\ ClassSize \in [Class -> Nat \ {0}] /\ ClassSize[0] = SLAB_MIN_SIZE
    /\ \A i \in Class : Slots(i) \in 1 .. 64 /\ Size[PageIdx(i)] = Slots(i) * ClassSize[i]
    /\ Slots(0) > 1

\* _size_to_slab_idx(): the smallest class the size fits in.
Supported(size) == size <= ClassSize[SLAB_NUM - 1]

_size_to_slab_idx(size) ==
    CHOOSE i \in Class : size <= ClassSize[i] /\ \A j \in 0 .. i - 1 : size > ClassSize[j]

-----------------------------------------------------------------------------
(* The heap as a value [m, h, s, out]: page lists, pages held, slabs, and  *)
(* the outcome of the last call ("ok" or the panic).                       *)

Heap == [m |-> pmmap, h |-> held, s |-> slabs, out |-> "ok"]

\* A call of pmalloc(); its address is NewBlock(hp.m, i).
GetPage(hp, i) ==
    IF OutOfMemory(hp.m, i) THEN [hp EXCEPT !.out = "pmalloc: out of memory"]
    ELSE IF BadSplit(hp.m, i) THEN [hp EXCEPT !.out = "pmfree: invalid address"]
    ELSE [hp EXCEPT !.m = Take(hp.m, i),
                    !.h = @ \cup {[addr |-> NewBlock(hp.m, i), idx |-> i]}]

\* A call of pmfree().
PutPage(hp, i, a) ==
    IF InvalidAddress(a) THEN [hp EXCEPT !.out = "pmfree: invalid address"]
    ELSE [hp EXCEPT !.m = Push(hp.m, i, a), !.h = @ \ {[addr |-> a, idx |-> i]}]

\* Mutated form: i <= pages in the loop of find_free_slab().
FreeSlotsPast(s, i, p) == (0 .. Slots(i)) \ s[i][p].bitmap

FreeSlots(s, i, p) == (0 .. Slots(i) - 1) \ s[i][p].bitmap

\* Mutated form: only the static slab is searched.
HeadOnly(s, i) == {p \in {1} : FreeSlots(s, i, p) # {}}

\* The slabs of class i with a free slot.
Roomy(s, i) == {p \in 1 .. Len(s[i]) : FreeSlots(s, i, p) # {}}

First(S) == CHOOSE x \in S : \A y \in S : x <= y

\* find_free_slab(): the first free slot of the first roomy slab.
FoundPos(s, i) == First(Roomy(s, i))
FoundSlot(s, i) == First(FreeSlots(s, i, FoundPos(s, i)))

\* Mutated form: a slot of a later slab is found but not marked.
MarkHeadOnly(s, i) ==
    IF FoundPos(s, i) = 1 THEN [s EXCEPT ![i][1].bitmap = @ \cup {FoundSlot(s, i)}] ELSE s

MarkFound(s, i) == [s EXCEPT ![i][FoundPos(s, i)].bitmap = @ \cup {FoundSlot(s, i)}]

FoundAddr(s, i) == s[i][FoundPos(s, i)].address + FoundSlot(s, i) * ClassSize[i]

AddSlab(hp, i, slab) == [hp EXCEPT !.s[i] = Append(@, slab)]

\* Mutated form: slot 0, the SLAB structure, is left unmarked.
NewPage64Unmarked(hp) ==
    LET a == NewBlock(hp.m, 0)
        r == GetPage(hp, 0)
    IN IF r.out # "ok" THEN r
       ELSE AddSlab(r, 0, [address |-> a, bitmap |-> {1}, self |-> a])

\* kmalloc() of at most 64 bytes with every slab full: a new page, whose slot
\* 0 holds its own SLAB structure and slot 1 the object.
NewPage64(hp) ==
    LET a == NewBlock(hp.m, 0)
        r == GetPage(hp, 0)
    IN IF r.out # "ok" THEN r
       ELSE AddSlab(r, 0, [address |-> a, bitmap |-> {0, 1}, self |-> a])

\* kmalloc() of at most 64 bytes, and the address it returns.
Malloc64(hp) ==
    IF Roomy(hp.s, 0) # {} THEN [hp EXCEPT !.s = MarkFound(hp.s, 0)] ELSE NewPage64(hp)

Malloc64Addr(hp) ==
    IF Roomy(hp.s, 0) # {} THEN FoundAddr(hp.s, 0)
    ELSE NewBlock(hp.m, 0) + SLAB_MIN_SIZE

\* kmalloc() of a larger class with every slab full: a SLAB structure from
\* class 64 first, then the page.
NewSlab(hp, i) ==
    LET d == Malloc64(hp)
        r == GetPage(d, PageIdx(i))
    IN IF d.out # "ok" THEN d
       ELSE IF r.out # "ok" THEN r
       ELSE AddSlab(r, i, [address |-> NewBlock(d.m, PageIdx(i)), bitmap |-> {0},
                           self |-> Malloc64Addr(hp)])

Malloc(hp, i) ==
    IF i = 0 THEN Malloc64(hp)
    ELSE IF Roomy(hp.s, i) # {} THEN [hp EXCEPT !.s = MarkFound(hp.s, i)]
    ELSE NewSlab(hp, i)

MallocAddr(hp, i) ==
    IF i = 0 THEN Malloc64Addr(hp)
    ELSE IF Roomy(hp.s, i) # {} THEN FoundAddr(hp.s, i)
    ELSE NewBlock(Malloc64(hp).m, PageIdx(i))

-----------------------------------------------------------------------------
(* kmfree().                                                               *)

\* The search: the slabs whose page contains a; the code takes the first, by
\* class and then along the list.
Hits(s, a) ==
    {e \in UNION {{i} \X (1 .. Len(s[i])) : i \in Class} :
        InBlock(a, s[e[1]][e[2]].address, Size[PageIdx(e[1])])}

FirstHit(s, a) ==
    CHOOSE e \in Hits(s, a) :
        \A f \in Hits(s, a) : e[1] < f[1] \/ (e[1] = f[1] /\ e[2] <= f[2])

\* Mutated form: a drained slab stays linked.
KeepLinked(q, p) == q

Unlink(q, p) == SubSeq(q, 1, p - 1) \o SubSeq(q, p + 1, Len(q))

\* The slab is empty and not the static one: it is unlinked and its SLAB
\* structure freed.
Drained(i, p, bitmap) == bitmap = {} /\ p # 1

\* Mutated form: the test for class 64 is missing.
DrainedAny(i, p, bitmap) == bitmap = {0} /\ p # 1

\* Of a page of class 64 only the SLAB structure in slot 0 is left: the page
\* goes back to the page allocator.
Drained64(i, p, bitmap) == bitmap = {0} /\ i = 0 /\ p # 1

\* One activation of kmfree().  `next' is the address of the recursive call,
\* 0 if there is none.
KmfreeOnce(hp, a) ==
    IF Hits(hp.s, a) = {} THEN [hp |-> [hp EXCEPT !.out = "kmfree: not found"], next |-> 0]
    ELSE
    LET i == FirstHit(hp.s, a)[1]
        p == FirstHit(hp.s, a)[2]
        e == hp.s[i][p]
        bitmap == e.bitmap \ {(a - e.address) \div ClassSize[i]}
        cleared == [hp EXCEPT !.s[i][p].bitmap = bitmap]
        unlinked == [hp EXCEPT !.s[i] = Unlink(@, p)]
    IN IF a % ClassSize[i] # 0
       THEN [hp |-> [hp EXCEPT !.out = "kmfree: invalid addr"], next |-> 0]
       ELSE IF Drained(i, p, bitmap) THEN [hp |-> unlinked, next |-> e.self]
       ELSE IF Drained64(i, p, bitmap) THEN [hp |-> PutPage(unlinked, 0, e.self), next |-> 0]
       ELSE [hp |-> cleared, next |-> 0]

\* The whole call.  The recursion frees a SLAB structure, which ends it; a
\* third activation would be the outcome "kmfree: recursion".
Kmfree(hp, a) ==
    LET r == KmfreeOnce(hp, a)
        t == KmfreeOnce(r.hp, r.next)
    IN IF r.next = 0 THEN r.hp
       ELSE IF t.next = 0 THEN t.hp
       ELSE [t.hp EXCEPT !.out = "kmfree: recursion"]

-----------------------------------------------------------------------------
(* The actions.                                                            *)

SInit == PMInit /\ slabs = [i \in Class |-> <<>>] /\ live = {}

Become(hp) ==
    /\ pmmap' = hp.m /\ held' = hp.h /\ slabs' = hp.s
    /\ panic' = IF hp.out = "ok" THEN panic ELSE hp.out
    /\ UNCHANGED allocatable_max

\* One iteration of pm_init(), with no heap yet.
BootPages == \E i \in Idx : pm_init(i) /\ UNCHANGED slabVars

\* One iteration of the loop of slab_init(): the static slab of class i.
slab_init(i) ==
    /\ Running /\ ~Booting
    /\ slabs[i] = <<>> /\ \A j \in 0 .. i - 1 : slabs[j] # <<>>
    /\ LET r == GetPage(Heap, PageIdx(i))
           a == NewBlock(pmmap, PageIdx(i))
       IN Become(IF r.out # "ok" THEN r
                 ELSE AddSlab(r, i, [address |-> a, bitmap |-> {}, self |-> 0]))
    /\ UNCHANGED live

Ready == Running /\ ~Booting /\ \A i \in Class : slabs[i] # <<>>

kmalloc(size) ==
    /\ Ready /\ Cardinality(live) < MaxLive
    /\ IF size > ClassSize[0] /\ ~Supported(size)
       THEN /\ panic' = "kmalloc: size not supported"
            /\ UNCHANGED <<pmmap, allocatable_max, held, slabVars>>
       ELSE LET i == _size_to_slab_idx(size)
                r == Malloc(Heap, i)
            IN /\ Become(r)
               /\ live' = IF r.out # "ok" THEN live
                          ELSE live \cup {[addr |-> MallocAddr(Heap, i), idx |-> i]}

kmfree(o) ==
    /\ Ready
    /\ Become(Kmfree(Heap, o.addr))
    /\ live' = live \ {o}

Stopped == Halted /\ UNCHANGED slabVars

SNext ==
    \/ BootPages
    \/ \E i \in Class : slab_init(i)
    \/ \E size \in Requests : kmalloc(size)
    \/ \E o \in live : kmfree(o)
    \/ Stopped

SSpec == SInit /\ [][SNext]_allVars

-----------------------------------------------------------------------------
(* Properties.                                                             *)

SlabRec == [address : Addr, bitmap : SUBSET (0 .. 63), self : Addr \cup {0}]

\* Type invariant of the heap.
SlabTypeOK ==
    /\ pmmap \in [Idx -> Seq(Addr)]
    /\ held \subseteq [addr : Addr, idx : Idx]
    /\ slabs \in [Class -> Seq(SlabRec)]
    /\ live \subseteq [addr : Addr, idx : Class]

Entries == UNION {{i} \X (1 .. Len(slabs[i])) : i \in Class}

SlabAt(e) == slabs[e[1]][e[2]]

\* The SLAB structures in the heap.
Descriptors == {SlabAt(e).self : e \in Entries} \ {0}

SlotAddr(e, k) == SlabAt(e).address + k * ClassSize[e[1]]

\* The bitmaps are exact: a bit is set if and only if its slot holds a live
\* object of that class or (class 64) a SLAB structure of a linked slab, and
\* every live object has its slot in a linked slab.  (A panic between the two
\* allocations of a new slab leaves a slot marked, for good reason unused.)
BitmapExact ==
  Running =>
    /\ \A e \in Entries : \A k \in 0 .. Slots(e[1]) - 1 :
         k \in SlabAt(e).bitmap <=>
            \/ [addr |-> SlotAddr(e, k), idx |-> e[1]] \in live
            \/ e[1] = 0 /\ SlotAddr(e, k) \in Descriptors
    /\ \A o \in live : \E e \in Entries : \E k \in SlabAt(e).bitmap :
         e[1] = o.idx /\ SlotAddr(e, k) = o.addr

\* What the kernel uses at the same time never overlaps: live objects, SLAB
\* structures and the free blocks, whose first word is the free list's link.
InUse ==
    {<<o.addr, ClassSize[o.idx]>> : o \in live} \cup {<<d, SLAB_MIN_SIZE>> : d \in Descriptors}

HeapDisjoint ==
    /\ \A o \in live : o.addr \notin Descriptors
    /\ \A u, v \in InUse : u # v => Apart(u[1], u[2], v[1], v[2])
    /\ \A u \in InUse, i \in Idx : \A k \in 1 .. Len(pmmap[i]) :
         Apart(u[1], u[2], pmmap[i][k], Size[i])

\* Freeing what kmalloc() returned never panics, in any order of calls: not
\* the caller's free and not the recursive one; only exhaustion and a size
\* above the largest class stop the heap.  This is for memory that ends on a
\* boundary of the largest class, as in the run: kmfree() tests the absolute
\* address, and on other memory rejects objects that kmalloc() returned.
FreeNeverPanics ==
    panic \in {"none", "pmalloc: out of memory", "kmalloc: size not supported"}

\* What the tests of slab.c expect after each round, for every order of calls:
\* when all objects are freed, each class is back to its static slab, empty.
DrainedIsPristine ==
    Ready /\ live = {} => \A i \in Class : Len(slabs[i]) = 1 /\ slabs[i][1].bitmap = {}

\* A class grows only when every slot of it is taken, also when it is class 64
\* growing for the SLAB structure of another class.
GrowOnlyWhenFull ==
    [][\A i \in Class : Len(slabs'[i]) > Len(slabs[i]) /\ slabs[i] # <<>>
         => \A p \in 1 .. Len(slabs[i]) : slabs[i][p].bitmap = 0 .. Slots(i) - 1]_allVars

\* "Free slab if all sectors are free": every page taken from the page
\* allocator belongs to a linked slab.
NoPageLost ==
    \A b \in held : \E e \in Entries : SlabAt(e).address = b.addr
=============================================================================
