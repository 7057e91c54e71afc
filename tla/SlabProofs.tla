----------------------------- MODULE SlabProofs -----------------------------
(***************************************************************************)
(* Proofs about the kernel heap, for every memory layout, every number of  *)
(* classes, every set of request sizes and every history of calls.         *)
(*                                                                         *)
(* The argument forgets the order of the slabs.  The linked slabs are a    *)
(* set of pairs <<class, slab>>; on it `Accounted' says that the marked    *)
(* slots are exactly the objects handed out together with the SLAB         *)
(* structures of the linked slabs, and that no object is both.  Between    *)
(* the two activations of a nested kmalloc() or kmfree() the SLAB          *)
(* structure belongs to no linked slab: there it counts as an object handed *)
(* out, and the property holds again.  Pages come from the invariant of    *)
(* PhysMemProofs.                                                          *)
(***************************************************************************)
EXTENDS Slab, PhysMemProofs, WellFoundedInduction

-----------------------------------------------------------------------------
(* Arithmetic.                                                             *)

LEMMA LeastNatural ==
  ASSUME NEW S \in SUBSET Nat, S # {}
  PROVE  \E m \in S : \A n \in S : m <= n
<1>1. IsWellFoundedOn(OpToRel(<, Nat), Nat)
  BY NatLessThanWellFounded
<1> DEFINE R == OpToRel(<, Nat)
<1>2. \A x, y \in Nat : <<y, x>> \in R <=> y < x
  BY DEF OpToRel
<1> HIDE DEF R
<1>3. PICK m \in S : \A y \in S : ~ (<<y, m>> \in R)
  BY <1>1, WFMin DEF R
<1>4. ASSUME NEW n \in S PROVE m <= n
  <2>1. ~ (n < m)
    BY <1>2, <1>3, Zenon
  <2> QED BY <2>1
<1> QED BY <1>4

\* The search of find_free_slab() ends at a member of a set that is not empty.
LEMMA FirstIn ==
  ASSUME NEW S \in SUBSET Nat, S # {}
  PROVE  First(S) \in S
BY LeastNatural DEF First

LEMMA MulDiv ==
  ASSUME NEW S \in Nat \ {0}, NEW k \in Nat
  PROVE  (k * S) \div S = k
OBVIOUS

\* Multiples, for the alignment check of kmfree().
Multiple(a, S) == \E q \in Nat : a = q * S

LEMMA MultipleMod ==
  ASSUME NEW S \in Nat \ {0}, NEW a \in Nat, Multiple(a, S)
  PROVE  (a % S) = 0
<1>1. PICK q \in Nat : a = q * S
  BY DEF Multiple
<1>2. (q * S) % S = 0
  OBVIOUS
<1> QED BY <1>1, <1>2

LEMMA ModMultiple ==
  ASSUME NEW S \in Nat \ {0}, NEW a \in Nat, (a % S) = 0
  PROVE  Multiple(a, S)
<1>1. a = (a \div S) * S /\ a \div S \in Nat
  OBVIOUS
<1> QED BY <1>1 DEF Multiple

LEMMA MultipleAdd ==
  ASSUME NEW S \in Nat, NEW a \in Nat, Multiple(a, S), NEW k \in Nat
  PROVE  Multiple(a + k * S, S)
<1>1. PICK q \in Nat : a = q * S
  BY DEF Multiple
<1>2. a + k * S = (q + k) * S
  BY <1>1
<1> QED BY <1>2 DEF Multiple

LEMMA MultipleSub ==
  ASSUME NEW S \in Nat, NEW a \in Nat, Multiple(a, S), NEW k \in Nat, k * S <= a
  PROVE  Multiple(a - k * S, S)
<1>1. PICK q \in Nat : a = q * S
  BY DEF Multiple
<1>2. CASE k <= q
  <2>1. a - k * S = (q - k) * S
    BY <1>1
  <2>2. q - k \in Nat
    BY <1>2
  <2> QED BY <2>1, <2>2 DEF Multiple
<1>3. CASE q < k
  <2>1. q * S + S <= k * S
    BY <1>3, MulStep
  <2>2. S = 0
    BY <2>1, <1>1
  <2>3. a - k * S = 0 /\ 0 = 0 * S
    BY <2>2, <1>1
  <2> QED BY <2>3 DEF Multiple
<1> QED BY <1>2, <1>3

LEMMA MultipleFiner ==
  ASSUME NEW S \in Nat, NEW N \in Nat, NEW a \in Nat, Multiple(a, N * S)
  PROVE  Multiple(a, S)
<1>1. PICK q \in Nat : a = q * (N * S)
  BY DEF Multiple
<1>2. a = (q * N) * S /\ q * N \in Nat
  BY <1>1
<1> QED BY <1>2 DEF Multiple

-----------------------------------------------------------------------------
(* The linked slabs as a set.                                              *)

Linkeds == Class \X SlabRec

Cls(x) == x[1]
Base(x) == x[2].address
Bits(x) == x[2].bitmap
Self(x) == x[2].self

Width(x) == ClassSize[Cls(x)]
Count(x) == Slots(Cls(x))
Page(x) == Blk(Base(x), PageIdx(Cls(x)))
SlotOf(x, k) == Base(x) + k * Width(x)

Objects == [addr : Addr, idx : Class]
Obj(a, i) == [addr |-> a, idx |-> i]

LEMMA AddrType == Addr \subseteq Nat \ {0}
BY PMAssumption DEF Addr

LEMMA ClassFacts ==
  ASSUME NEW i \in Class
  PROVE  /\ i \in Nat /\ ClassSize[i] \in Nat \ {0} /\ Slots(i) \in 1 .. 64
         /\ PageIdx(i) \in {0, 1} /\ PageIdx(i) \in Idx
         /\ Size[PageIdx(i)] = Slots(i) * ClassSize[i]
         /\ Size[PageIdx(i)] \in Nat \ {0}
<1>1. ClassSize \in [Class -> Nat \ {0}] /\ Slots(i) \in 1 .. 64 /\ Size[PageIdx(i)] = Slots(i) * ClassSize[i]
  BY LayoutAssumption
<1>2. PageIdx(i) \in {0, 1} /\ PageIdx(i) \in Idx
  BY DEF PageIdx, Idx
<1>3. Class \subseteq Nat
  BY SlabAssumption DEF Class
<1> QED BY <1>1, <1>2, <1>3, SizeType, Zenon

LEMMA ClassZero == 0 \in Class /\ PageIdx(0) = 0 /\ ClassSize[0] = SLAB_MIN_SIZE /\ 1 < Slots(0)
<1>1. 0 \in Class /\ PageIdx(0) = 0
  BY SlabAssumption DEF Class, PageIdx
<1> QED BY <1>1, LayoutAssumption, ClassFacts

LEMMA SlabFacts ==
  ASSUME NEW x \in Linkeds
  PROVE  /\ Cls(x) \in Class /\ Base(x) \in Addr /\ Base(x) \in Nat
         /\ Bits(x) \subseteq 0 .. 63
         /\ Self(x) \in Addr \cup {0}
         /\ Width(x) \in Nat \ {0} /\ Count(x) \in 1 .. 64
         /\ Size[PageIdx(Cls(x))] = Count(x) * Width(x)
         /\ Size[PageIdx(Cls(x))] \in Nat \ {0}
         /\ PageIdx(Cls(x)) \in Idx
         /\ Page(x) \in Blocks /\ Page(x).addr = Base(x) /\ Page(x).idx = PageIdx(Cls(x))
<1>1. Cls(x) \in Class /\ Base(x) \in Addr /\ Bits(x) \subseteq 0 .. 63 /\ Self(x) \in Addr \cup {0}
  BY DEF Linkeds, SlabRec, Cls, Base, Bits, Self
<1>2. Width(x) \in Nat \ {0} /\ Count(x) \in 1 .. 64 /\ Size[PageIdx(Cls(x))] = Count(x) * Width(x)
      /\ Size[PageIdx(Cls(x))] \in Nat \ {0} /\ PageIdx(Cls(x)) \in Idx
  BY <1>1, ClassFacts DEF Width, Count
<1>3. Page(x) \in Blocks /\ Page(x).addr = Base(x) /\ Page(x).idx = PageIdx(Cls(x))
  BY <1>1, <1>2 DEF Page, Blk, Blocks
<1> QED BY <1>1, <1>2, <1>3, AddrType

LEMMA SlotInPage ==
  ASSUME NEW x \in Linkeds, NEW k \in 0 .. Count(x) - 1
  PROVE  /\ SlotOf(x, k) \in Nat /\ Base(x) <= SlotOf(x, k)
         /\ SlotOf(x, k) + Width(x) <= Base(x) + Size[PageIdx(Cls(x))]
<1>1. Base(x) \in Nat /\ Width(x) \in Nat \ {0} /\ Count(x) \in 1 .. 64
      /\ Size[PageIdx(Cls(x))] = Count(x) * Width(x)
  BY SlabFacts
<1>2. k \in Nat /\ Count(x) \in Nat /\ k < Count(x)
  BY <1>1
<1>3. k * Width(x) + Width(x) <= Count(x) * Width(x)
  BY <1>1, <1>2, MulStep
<1>4. k * Width(x) \in Nat /\ Count(x) * Width(x) \in Nat
  BY <1>1, <1>2
<1>5. PICK d \in Nat, e \in Nat : d = k * Width(x) /\ e = Count(x) * Width(x)
  BY <1>4
<1>6. d + Width(x) <= e /\ SlotOf(x, k) = Base(x) + d /\ Size[PageIdx(Cls(x))] = e
  BY <1>1, <1>3, <1>5 DEF SlotOf
<1> QED BY <1>1, <1>6

-----------------------------------------------------------------------------
(* The invariant of the set.                                               *)

\* Every linked slab has its page and marks only slots of it.
Paged(L, h) ==
  /\ L \subseteq Linkeds
  /\ \A x \in L : Page(x) \in h /\ Bits(x) \subseteq 0 .. Count(x) - 1

Distinct(L) == \A x, y \in L : Base(x) = Base(y) => x = y

Used(L, o) == \E x \in L : Cls(x) = o.idx /\ \E k \in Bits(x) : SlotOf(x, k) = o.addr

IsDesc(L, o) == o.idx = 0 /\ \E x \in L : Self(x) = o.addr

\* The marked slots are the objects handed out and the SLAB structures.
Accounted(L, lv) ==
  /\ lv \subseteq Objects
  /\ \A o \in Objects : Used(L, o) <=> o \in lv \/ IsDesc(L, o)
  /\ \A o \in lv : ~IsDesc(L, o)

\* A slab that is not static holds something besides its own SLAB structure, which
\* describes no other slab.
Selfs(L) ==
  /\ \A x \in L : Self(x) # 0 => IF Cls(x) = 0 THEN Self(x) = Base(x) /\ \E k \in Bits(x) : k # 0
                                 ELSE Bits(x) # {}
  /\ \A x, y \in L : Self(x) = Self(y) /\ Self(x) # 0 => x = y

HeapSet(L, h, lv) == Paged(L, h) /\ Accounted(L, lv) /\ Selfs(L)

\* Slots of linked slabs do not overlap.
LEMMA SlotsApart ==
  ASSUME NEW m, NEW h, NEW lo, Sound(m, h, lo), NEW L, Paged(L, h), Distinct(L),
         NEW x \in L, NEW y \in L, NEW k \in 0 .. Count(x) - 1, NEW l \in 0 .. Count(y) - 1,
         ~ (x = y /\ k = l)
  PROVE  Apart(SlotOf(x, k), Width(x), SlotOf(y, l), Width(y))
<1>1. x \in Linkeds /\ y \in Linkeds
  BY DEF Paged
<1>2. /\ SlotOf(x, k) \in Nat /\ Base(x) <= SlotOf(x, k)
      /\ SlotOf(x, k) + Width(x) <= Base(x) + Size[PageIdx(Cls(x))]
  BY <1>1, SlotInPage
<1>3. /\ SlotOf(y, l) \in Nat /\ Base(y) <= SlotOf(y, l)
      /\ SlotOf(y, l) + Width(y) <= Base(y) + Size[PageIdx(Cls(y))]
  BY <1>1, SlotInPage
<1>4. /\ Base(x) \in Nat /\ Width(x) \in Nat /\ Size[PageIdx(Cls(x))] \in Nat /\ Count(x) \in Nat
      /\ Base(y) \in Nat /\ Width(y) \in Nat /\ Size[PageIdx(Cls(y))] \in Nat /\ Count(y) \in Nat
  BY <1>1, SlabFacts
<1>5. CASE x # y
  <2>1. Page(x) \in h /\ Page(y) \in h
    BY DEF Paged
  <2>2. Page(x).addr # Page(y).addr
    BY <1>1, <1>5, SlabFacts DEF Distinct
  <2>3. BlocksApart(Page(x), Page(y))
    BY <2>1, <2>2 DEF Sound, Tiles
  <2>4. Apart(Base(x), Size[PageIdx(Cls(x))], Base(y), Size[PageIdx(Cls(y))])
    BY <1>1, <2>3, SlabFacts DEF BlocksApart
  <2> QED BY <1>2, <1>3, <1>4, <2>4 DEF Apart
<1>6. CASE x = y /\ k # l
  <2>1. k \in Nat /\ l \in Nat /\ k * Width(x) \in Nat /\ l * Width(x) \in Nat
    BY <1>4, <1>6
  <2>2. CASE k < l
    <3>1. k * Width(x) + Width(x) <= l * Width(x)
      BY <1>4, <2>1, <2>2, MulStep
    <3> QED BY <1>4, <1>6, <2>1, <3>1 DEF Apart, SlotOf
  <2>3. CASE l < k
    <3>1. l * Width(x) + Width(x) <= k * Width(x)
      BY <1>4, <2>1, <2>3, MulStep
    <3> QED BY <1>4, <1>6, <2>1, <3>1 DEF Apart, SlotOf
  <2> QED BY <1>6, <2>1, <2>2, <2>3
<1> QED BY <1>5, <1>6

\* An address belongs to one slot at most, and all slots are in memory.
Unique(L) ==
  /\ \A x \in L : \A k \in 0 .. Count(x) - 1 : SlotOf(x, k) \in Addr
  /\ \A x, y \in L : \A k \in 0 .. Count(x) - 1, l \in 0 .. Count(y) - 1 :
       SlotOf(x, k) = SlotOf(y, l) => x = y /\ k = l

LEMMA SlotUnique ==
  ASSUME NEW m, NEW h, NEW lo, Sound(m, h, lo), NEW L, Paged(L, h), Distinct(L)
  PROVE  Unique(L)
<1>1. ASSUME NEW x \in L, NEW k \in 0 .. Count(x) - 1
      PROVE  SlotOf(x, k) \in Addr
  <2>1. x \in Linkeds /\ Page(x) \in h
    BY DEF Paged
  <2>2. InsideBlock(Page(x), lo)
    BY <2>1 DEF Sound, Tiles
  <2>3. Base(x) + Size[PageIdx(Cls(x))] <= AllocatableMax
    BY <2>1, <2>2, SlabFacts DEF InsideBlock
  <2>4. /\ SlotOf(x, k) \in Nat /\ Base(x) <= SlotOf(x, k)
        /\ SlotOf(x, k) + Width(x) <= Base(x) + Size[PageIdx(Cls(x))]
    BY <2>1, SlotInPage
  <2>5. Base(x) \in Addr /\ Base(x) \in Nat /\ Width(x) \in Nat \ {0} /\ Size[PageIdx(Cls(x))] \in Nat
    BY <2>1, SlabFacts
  <2> QED BY <2>3, <2>4, <2>5, PMAssumption DEF Addr
<1>2. ASSUME NEW x \in L, NEW y \in L, NEW k \in 0 .. Count(x) - 1, NEW l \in 0 .. Count(y) - 1,
             SlotOf(x, k) = SlotOf(y, l), ~ (x = y /\ k = l)
      PROVE  FALSE
  <2>1. Apart(SlotOf(x, k), Width(x), SlotOf(y, l), Width(y))
    BY <1>2, SlotsApart
  <2>2. x \in Linkeds /\ y \in Linkeds
    BY DEF Paged
  <2>3. SlotOf(x, k) \in Nat /\ Width(x) \in Nat \ {0} /\ Width(y) \in Nat \ {0}
    BY <2>2, SlotInPage, SlabFacts
  <2> QED BY <1>2, <2>1, <2>3 DEF Apart
<1> QED BY <1>1, <1>2 DEF Unique

-----------------------------------------------------------------------------
(* Marking and clearing a slot.                                            *)

Alike(x, y) == Cls(y) = Cls(x) /\ Base(y) = Base(x) /\ Self(y) = Self(x)

LEMMA AlikeFacts ==
  ASSUME NEW x, NEW y, Alike(x, y)
  PROVE  /\ Count(y) = Count(x) /\ Page(y) = Page(x)
         /\ \A k : SlotOf(y, k) = SlotOf(x, k)
BY DEF Alike, Count, Page, SlotOf, Width

LEMMA SwapDesc ==
  ASSUME NEW L, NEW x \in L, NEW y, Alike(x, y), NEW o
  PROVE  IsDesc((L \ {x}) \cup {y}, o) <=> IsDesc(L, o)
BY DEF IsDesc, Alike

\* A slot of x is used as y says, any other as before.
LEMMA SwapUsed ==
  ASSUME NEW L, Unique(L), NEW x \in L, NEW y, Alike(x, y),
         \A z \in L : Bits(z) \subseteq 0 .. Count(z) - 1,
         NEW k \in 0 .. Count(x) - 1,
         \A l : l # k => (l \in Bits(y) <=> l \in Bits(x)), NEW o \in Objects
  PROVE  Used((L \ {x}) \cup {y}, o)
           <=> IF o = Obj(SlotOf(x, k), Cls(x)) THEN k \in Bits(y) ELSE Used(L, o)
<1> DEFINE M == (L \ {x}) \cup {y}
<1>1. \A l : SlotOf(y, l) = SlotOf(x, l)
  BY AlikeFacts
<1>2. Cls(y) = Cls(x)
  BY DEF Alike
<1>3. CASE o = Obj(SlotOf(x, k), Cls(x))
  <2>1. o.addr = SlotOf(x, k) /\ o.idx = Cls(x)
    BY <1>3 DEF Obj
  <2>2. ASSUME k \in Bits(y) PROVE Used(M, o)
    BY <1>1, <1>2, <2>1, <2>2 DEF Used
  <2>3. ASSUME Used(M, o) PROVE k \in Bits(y)
    <3>1. PICK z \in M : Cls(z) = o.idx /\ \E l \in Bits(z) : SlotOf(z, l) = o.addr
      BY <2>3 DEF Used
    <3>2. PICK l \in Bits(z) : SlotOf(z, l) = o.addr
      BY <3>1
    <3>3. CASE z = y
      <4>1. CASE l = k
        BY <4>1, <3>3
      <4>2. CASE l # k
        <5>1. l \in Bits(x) /\ SlotOf(x, l) = SlotOf(x, k)
          BY <3>3, <3>2, <4>2, <1>1, <2>1
        <5>2. l \in 0 .. Count(x) - 1
          BY <5>1
        <5> QED BY <5>1, <5>2, <4>2 DEF Unique
      <4> QED BY <4>1, <4>2
    <3>4. CASE z # y
      <4>1. z \in L /\ z # x /\ l \in 0 .. Count(z) - 1
        BY <3>4
      <4> QED BY <4>1, <3>2, <2>1 DEF Unique
    <3> QED BY <3>3, <3>4
  <2> QED BY <2>2, <2>3, <1>3
<1>4. CASE o # Obj(SlotOf(x, k), Cls(x))
  <2>1. o.idx = Cls(x) => o.addr # SlotOf(x, k)
    BY <1>4 DEF Obj, Objects
  <2>2. ASSUME NEW l, o.idx = Cls(x), SlotOf(x, l) = o.addr
        PROVE  l \in Bits(y) <=> l \in Bits(x)
    BY <2>1, <2>2
  <2>3. ASSUME Used(L, o) PROVE Used(M, o)
    <3>1. PICK z \in L : Cls(z) = o.idx /\ \E l \in Bits(z) : SlotOf(z, l) = o.addr
      BY <2>3 DEF Used
    <3>2. CASE z = x
      BY <3>1, <3>2, <2>2, <1>1, <1>2 DEF Used
    <3>3. CASE z # x
      BY <3>1, <3>3 DEF Used
    <3> QED BY <3>2, <3>3
  <2>4. ASSUME Used(M, o) PROVE Used(L, o)
    <3>1. PICK z \in M : Cls(z) = o.idx /\ \E l \in Bits(z) : SlotOf(z, l) = o.addr
      BY <2>4 DEF Used
    <3>2. CASE z = y
      BY <3>1, <3>2, <2>2, <1>1, <1>2 DEF Used
    <3>3. CASE z # y
      BY <3>1, <3>3 DEF Used
    <3> QED BY <3>2, <3>3
  <2> QED BY <2>3, <2>4, <1>4
<1> QED BY <1>3, <1>4

LEMMA SwapPaged ==
  ASSUME NEW L, NEW h, Paged(L, h), NEW x \in L, NEW y \in Linkeds, Alike(x, y),
         Bits(y) \subseteq 0 .. Count(x) - 1
  PROVE  Paged((L \ {x}) \cup {y}, h)
BY AlikeFacts DEF Paged

LEMMA SwapSelfs ==
  ASSUME NEW L, Selfs(L), NEW x \in L, NEW y, Alike(x, y),
         Self(x) # 0 => IF Cls(x) = 0 THEN \E k \in Bits(y) : k # 0 ELSE Bits(y) # {}
  PROVE  Selfs((L \ {x}) \cup {y})
BY DEF Selfs, Alike

\* A slot of class Cls(x) found free is marked for the caller.
LEMMA OpMark ==
  ASSUME NEW L, NEW h, NEW lv, HeapSet(L, h, lv), Unique(L), NEW x \in L,
         NEW k \in (0 .. Count(x) - 1) \ Bits(x), NEW y \in Linkeds, Alike(x, y),
         Bits(y) = Bits(x) \cup {k}
  PROVE  /\ HeapSet((L \ {x}) \cup {y}, h, lv \cup {Obj(SlotOf(x, k), Cls(x))})
         /\ Obj(SlotOf(x, k), Cls(x)) \in Objects \ lv
<1> DEFINE M == (L \ {x}) \cup {y}
           n == Obj(SlotOf(x, k), Cls(x))
<1>1. Paged(L, h) /\ Accounted(L, lv) /\ Selfs(L)
  BY DEF HeapSet
<1>2. x \in Linkeds /\ Bits(x) \subseteq 0 .. Count(x) - 1
  BY <1>1 DEF Paged
<1>3. Paged(M, h)
  BY <1>1, <1>2, SwapPaged
<1>4. Selfs(M)
  <2>1. Self(x) # 0 => IF Cls(x) = 0 THEN \E l \in Bits(y) : l # 0 ELSE Bits(y) # {}
    BY <1>1 DEF Selfs
  <2> QED BY <1>1, <2>1, SwapSelfs
<1>5. n \in Objects
  BY <1>2, SlabFacts DEF Unique, Obj, Objects
<1>6. \A z \in L : Bits(z) \subseteq 0 .. Count(z) - 1
  BY <1>1 DEF Paged
<1>7. ASSUME NEW o \in Objects
      PROVE  Used(M, o) <=> o = n \/ Used(L, o)
  <2>1. \A l : l # k => (l \in Bits(y) <=> l \in Bits(x))
    OBVIOUS
  <2>2. k \in 0 .. Count(x) - 1 /\ k \in Bits(y)
    OBVIOUS
  <2> QED BY <2>1, <2>2, <1>6, SwapUsed
<1>8. ~Used(L, n)
  <2> SUFFICES ASSUME Used(L, n) PROVE FALSE
    OBVIOUS
  <2>1. PICK z \in L : \E l \in Bits(z) : SlotOf(z, l) = SlotOf(x, k)
    BY DEF Used, Obj
  <2>2. PICK l \in Bits(z) : SlotOf(z, l) = SlotOf(x, k)
    BY <2>1
  <2>3. l \in 0 .. Count(z) - 1
    BY <1>6
  <2> QED BY <2>2, <2>3 DEF Unique
<1>9. n \notin lv /\ ~IsDesc(L, n)
  BY <1>1, <1>5, <1>8 DEF Accounted
<1>10. \A o : IsDesc(M, o) <=> IsDesc(L, o)
  BY SwapDesc
<1> HIDE DEF M, n
<1>11. Accounted(M, lv \cup {n})
  <2>1. lv \cup {n} \subseteq Objects
    BY <1>1, <1>5 DEF Accounted
  <2>2. ASSUME NEW o \in Objects
        PROVE  Used(M, o) <=> o \in lv \cup {n} \/ IsDesc(M, o)
    BY <1>1, <1>7, <1>10 DEF Accounted
  <2>3. ASSUME NEW o \in lv \cup {n} PROVE ~IsDesc(M, o)
    BY <1>1, <1>9, <1>10 DEF Accounted
  <2> QED BY <2>1, <2>2, <2>3 DEF Accounted
<1> QED BY <1>3, <1>4, <1>5, <1>9, <1>11 DEF HeapSet, M, n

\* A live object is in a marked slot of one slab.
LEMMA ObjectSlot ==
  ASSUME NEW L, NEW h, NEW lv, HeapSet(L, h, lv), NEW o \in lv
  PROVE  \E x \in L : /\ Cls(x) = o.idx
                      /\ \E k \in Bits(x) : SlotOf(x, k) = o.addr /\ k \in 0 .. Count(x) - 1
<1>1. Used(L, o)
  BY DEF HeapSet, Accounted
<1> QED BY <1>1 DEF HeapSet, Used, Paged

\* kmfree() clears the slot of a live object in a slab that stays.
LEMMA OpClear ==
  ASSUME NEW L, NEW h, NEW lv, HeapSet(L, h, lv), Unique(L), NEW x \in L,
         NEW k \in Bits(x), Obj(SlotOf(x, k), Cls(x)) \in lv, NEW y \in Linkeds, Alike(x, y),
         Bits(y) = Bits(x) \ {k},
         Self(x) # 0 => IF Cls(x) = 0 THEN \E l \in Bits(y) : l # 0 ELSE Bits(y) # {}
  PROVE  HeapSet((L \ {x}) \cup {y}, h, lv \ {Obj(SlotOf(x, k), Cls(x))})
<1> DEFINE M == (L \ {x}) \cup {y}
           n == Obj(SlotOf(x, k), Cls(x))
<1>1. Paged(L, h) /\ Accounted(L, lv) /\ Selfs(L)
  BY DEF HeapSet
<1>2. x \in Linkeds /\ Bits(x) \subseteq 0 .. Count(x) - 1
  BY <1>1 DEF Paged
<1>3. Paged(M, h)
  BY <1>1, <1>2, SwapPaged
<1>4. Selfs(M)
  BY <1>1, SwapSelfs
<1>5. n \in Objects /\ ~IsDesc(L, n)
  BY <1>1 DEF Accounted
<1>6. \A z \in L : Bits(z) \subseteq 0 .. Count(z) - 1
  BY <1>1 DEF Paged
<1>7. ASSUME NEW o \in Objects
      PROVE  Used(M, o) <=> o # n /\ Used(L, o)
  <2>1. \A l : l # k => (l \in Bits(y) <=> l \in Bits(x))
    OBVIOUS
  <2>2. k \in 0 .. Count(x) - 1 /\ k \notin Bits(y)
    BY <1>6
  <2> QED BY <2>1, <2>2, <1>6, SwapUsed
<1>8. \A o : IsDesc(M, o) <=> IsDesc(L, o)
  BY SwapDesc
<1> HIDE DEF M, n
<1>9. Accounted(M, lv \ {n})
  <2>1. lv \ {n} \subseteq Objects
    BY <1>1 DEF Accounted
  <2>2. ASSUME NEW o \in Objects
        PROVE  Used(M, o) <=> o \in lv \ {n} \/ IsDesc(M, o)
    BY <1>1, <1>5, <1>7, <1>8 DEF Accounted
  <2>3. ASSUME NEW o \in lv \ {n} PROVE ~IsDesc(M, o)
    BY <1>1, <1>8 DEF Accounted
  <2> QED BY <2>1, <2>2, <2>3 DEF Accounted
<1> QED BY <1>3, <1>4, <1>9 DEF HeapSet, M, n

-----------------------------------------------------------------------------
(* Linking a new slab.                                                     *)

LEMMA AddUsed ==
  ASSUME NEW L, NEW y, NEW o
  PROVE  Used(L \cup {y}, o) <=>
           \/ Used(L, o)
           \/ Cls(y) = o.idx /\ \E k \in Bits(y) : SlotOf(y, k) = o.addr
BY DEF Used

LEMMA AddDesc ==
  ASSUME NEW L, NEW y, NEW o
  PROVE  IsDesc(L \cup {y}, o) <=> IsDesc(L, o) \/ (o.idx = 0 /\ Self(y) = o.addr)
BY DEF IsDesc

LEMMA AddFresh ==
  ASSUME NEW L, NEW y, y \notin L, Unique(L \cup {y}), NEW k \in 0 .. Count(y) - 1, NEW i,
         \A z \in L : Bits(z) \subseteq 0 .. Count(z) - 1
  PROVE  ~Used(L, Obj(SlotOf(y, k), i))
<1> SUFFICES ASSUME Used(L, Obj(SlotOf(y, k), i)) PROVE FALSE
  OBVIOUS
<1>1. PICK z \in L : \E l \in Bits(z) : SlotOf(z, l) = SlotOf(y, k)
  BY DEF Used, Obj
<1>2. PICK l \in Bits(z) : SlotOf(z, l) = SlotOf(y, k)
  BY <1>1
<1>3. l \in 0 .. Count(z) - 1 /\ z # y
  BY <1>2
<1> QED BY <1>2, <1>3 DEF Unique

LEMMA AddPaged ==
  ASSUME NEW L, NEW h, Paged(L, h), NEW y \in Linkeds, Page(y) \notin h,
         Bits(y) \subseteq 0 .. Count(y) - 1
  PROVE  Paged(L \cup {y}, h \cup {Page(y)}) /\ y \notin L
BY DEF Paged

\* slab_init(): a static slab, all free.
LEMMA OpStatic ==
  ASSUME NEW L, NEW h, NEW lv, HeapSet(L, h, lv), NEW y \in Linkeds, Page(y) \notin h,
         Bits(y) = {}, Self(y) = 0
  PROVE  HeapSet(L \cup {y}, h \cup {Page(y)}, lv)
<1>1. Paged(L, h) /\ Accounted(L, lv) /\ Selfs(L)
  BY DEF HeapSet
<1>2. Paged(L \cup {y}, h \cup {Page(y)})
  BY <1>1, AddPaged
<1>3. Selfs(L \cup {y})
  BY <1>1 DEF Selfs
<1>4. ASSUME NEW o \in Objects
      PROVE  (Used(L \cup {y}, o) <=> Used(L, o)) /\ (IsDesc(L \cup {y}, o) <=> IsDesc(L, o))
  <2>1. o.addr # 0
    BY AddrType DEF Objects
  <2> QED BY <2>1, AddUsed, AddDesc
<1>5. Accounted(L \cup {y}, lv)
  BY <1>1, <1>4 DEF Accounted
<1> QED BY <1>2, <1>3, <1>5 DEF HeapSet

LEMMA SlotZero ==
  ASSUME NEW y \in Linkeds
  PROVE  SlotOf(y, 0) = Base(y) /\ 0 \in 0 .. Count(y) - 1
<1>1. Base(y) \in Nat /\ Width(y) \in Nat /\ Count(y) \in 1 .. 64
  BY SlabFacts
<1> QED BY <1>1 DEF SlotOf

\* kmalloc(): a page of class 64 with its own SLAB structure and the object.
LEMMA OpPage64 ==
  ASSUME NEW L, NEW h, NEW lv, HeapSet(L, h, lv), NEW y \in Linkeds, Page(y) \notin h,
         Unique(L \cup {y}), Cls(y) = 0, Bits(y) = {0, 1}, Self(y) = Base(y)
  PROVE  /\ HeapSet(L \cup {y}, h \cup {Page(y)}, lv \cup {Obj(SlotOf(y, 1), 0)})
         /\ Obj(SlotOf(y, 1), 0) \in Objects \ lv
<1> DEFINE M == L \cup {y}
           n == Obj(SlotOf(y, 1), 0)
           d == Obj(Base(y), 0)
<1>1. Paged(L, h) /\ Accounted(L, lv) /\ Selfs(L)
  BY DEF HeapSet
<1>2. SlotOf(y, 0) = Base(y) /\ 0 \in 0 .. Count(y) - 1 /\ 1 \in 0 .. Count(y) - 1
  <2>1. Count(y) = Slots(0) /\ 1 < Slots(0) /\ Slots(0) \in 1 .. 64
    BY ClassZero, ClassFacts DEF Count
  <2> QED BY <2>1, SlotZero
<1>3. Paged(M, h \cup {Page(y)}) /\ y \notin L
  BY <1>1, <1>2, AddPaged
<1>4. n \in Objects /\ d \in Objects
  BY <1>2, ClassZero DEF Unique, Obj, Objects
<1>5. \A z \in L : Bits(z) \subseteq 0 .. Count(z) - 1
  BY <1>1 DEF Paged
<1>6. ~Used(L, n) /\ ~Used(L, d)
  <2>1. \A k \in 0 .. Count(y) - 1 : ~Used(L, Obj(SlotOf(y, k), 0))
    BY <1>3, <1>5, AddFresh
  <2> QED BY <2>1, <1>2
<1>7. n \notin lv /\ d \notin lv /\ ~IsDesc(L, n) /\ ~IsDesc(L, d)
  BY <1>1, <1>4, <1>6 DEF Accounted
<1>8. n # d
  <2>1. SlotOf(y, 1) # SlotOf(y, 0)
    BY <1>2 DEF Unique
  <2> QED BY <2>1, <1>2 DEF Obj
<1>9. ASSUME NEW o \in Objects
      PROVE  /\ Used(M, o) <=> Used(L, o) \/ o = n \/ o = d
             /\ IsDesc(M, o) <=> IsDesc(L, o) \/ o = d
  <2>1. o.idx = 0 /\ o.addr = SlotOf(y, 1) <=> o = n
    BY DEF Obj, Objects
  <2>2. o.idx = 0 /\ o.addr = Base(y) <=> o = d
    BY DEF Obj, Objects
  <2>3. (Cls(y) = o.idx /\ \E k \in Bits(y) : SlotOf(y, k) = o.addr) <=> o = n \/ o = d
    BY <2>1, <2>2, <1>2
  <2>4. (o.idx = 0 /\ Self(y) = o.addr) <=> o = d
    BY <2>2
  <2> QED BY <2>3, <2>4, AddUsed, AddDesc
<1>10. Selfs(M)
  <2>1. ASSUME NEW z \in L PROVE Self(z) # Base(y)
    <3>1. Self(z) = Base(y) => IsDesc(L, d)
      BY DEF IsDesc, Obj
    <3> QED BY <3>1, <1>7
  <2>2. ASSUME NEW z \in M, NEW w \in M, Self(z) = Self(w), Self(z) # 0
        PROVE  z = w
    BY <2>1, <2>2, <1>1 DEF Selfs
  <2>3. ASSUME NEW z \in M, Self(z) # 0
        PROVE  IF Cls(z) = 0 THEN Self(z) = Base(z) /\ \E k \in Bits(z) : k # 0 ELSE Bits(z) # {}
    <3>1. CASE z = y
      BY <3>1
    <3>2. CASE z \in L
      BY <3>2, <2>3, <1>1 DEF Selfs
    <3> QED BY <3>1, <3>2
  <2> QED BY <2>2, <2>3 DEF Selfs
<1> HIDE DEF M, n, d
<1>11. Accounted(M, lv \cup {n})
  <2>1. lv \cup {n} \subseteq Objects
    BY <1>1, <1>4 DEF Accounted
  <2>2. ASSUME NEW o \in Objects
        PROVE  Used(M, o) <=> o \in lv \cup {n} \/ IsDesc(M, o)
    BY <1>1, <1>9 DEF Accounted
  <2>3. ASSUME NEW o \in lv \cup {n} PROVE ~IsDesc(M, o)
    BY <1>1, <1>7, <1>8, <1>9, <2>1 DEF Accounted
  <2> QED BY <2>1, <2>2, <2>3 DEF Accounted
<1> QED BY <1>3, <1>4, <1>7, <1>10, <1>11 DEF HeapSet, M, n

\* kmalloc(): a slab of a larger class whose SLAB structure, at d, has been taken
\* from class 64.
LEMMA OpSlab ==
  ASSUME NEW L, NEW h, NEW lv, HeapSet(L, h, lv), NEW y \in Linkeds, Page(y) \notin h,
         Unique(L \cup {y}), Cls(y) # 0, Bits(y) = {0}, Obj(Self(y), 0) \in lv
  PROVE  /\ HeapSet(L \cup {y}, h \cup {Page(y)},
                    (lv \ {Obj(Self(y), 0)}) \cup {Obj(Base(y), Cls(y))})
         /\ Obj(Base(y), Cls(y)) \in Objects \ lv
<1> DEFINE M == L \cup {y}
           n == Obj(Base(y), Cls(y))
           d == Obj(Self(y), 0)
           new == (lv \ {d}) \cup {n}
<1>1. Paged(L, h) /\ Accounted(L, lv) /\ Selfs(L)
  BY DEF HeapSet
<1>2. SlotOf(y, 0) = Base(y) /\ 0 \in 0 .. Count(y) - 1
  BY SlotZero
<1>3. Paged(M, h \cup {Page(y)}) /\ y \notin L
  BY <1>1, <1>2, AddPaged
<1>4. n \in Objects /\ d \in Objects
  <2>1. Cls(y) \in Class /\ Base(y) \in Addr
    BY SlabFacts
  <2> QED BY <2>1, <1>1 DEF Accounted, Obj, Objects
<1>5. \A z \in L : Bits(z) \subseteq 0 .. Count(z) - 1
  BY <1>1 DEF Paged
<1>6. ~Used(L, n)
  <2>1. ~Used(L, Obj(SlotOf(y, 0), Cls(y)))
    BY <1>2, <1>3, <1>5, AddFresh
  <2> QED BY <2>1, <1>2
<1>7. n \notin lv /\ ~IsDesc(L, n) /\ ~IsDesc(L, d)
  BY <1>1, <1>4, <1>6 DEF Accounted
<1>8. n # d
  BY DEF Obj
<1>9. ASSUME NEW o \in Objects
      PROVE  /\ Used(M, o) <=> Used(L, o) \/ o = n
             /\ IsDesc(M, o) <=> IsDesc(L, o) \/ o = d
  <2>1. o.idx = Cls(y) /\ o.addr = Base(y) <=> o = n
    BY DEF Obj, Objects
  <2>2. o.idx = 0 /\ o.addr = Self(y) <=> o = d
    BY DEF Obj, Objects
  <2>3. (Cls(y) = o.idx /\ \E k \in Bits(y) : SlotOf(y, k) = o.addr) <=> o = n
    BY <2>1, <1>2
  <2>4. (o.idx = 0 /\ Self(y) = o.addr) <=> o = d
    BY <2>2
  <2> QED BY <2>3, <2>4, AddUsed, AddDesc
<1>10. Selfs(M)
  <2>1. ASSUME NEW z \in L PROVE Self(z) # Self(y)
    <3>1. Self(z) = Self(y) => IsDesc(L, d)
      BY DEF IsDesc, Obj
    <3> QED BY <3>1, <1>7
  <2>2. ASSUME NEW z \in M, NEW w \in M, Self(z) = Self(w), Self(z) # 0
        PROVE  z = w
    BY <2>1, <2>2, <1>1 DEF Selfs
  <2>3. ASSUME NEW z \in M, Self(z) # 0
        PROVE  IF Cls(z) = 0 THEN Self(z) = Base(z) /\ \E k \in Bits(z) : k # 0 ELSE Bits(z) # {}
    <3>1. CASE z = y
      BY <3>1
    <3>2. CASE z \in L
      BY <3>2, <2>3, <1>1 DEF Selfs
    <3> QED BY <3>1, <3>2
  <2> QED BY <2>2, <2>3 DEF Selfs
<1>11. d \in lv
  OBVIOUS
<1> HIDE DEF M, n, d
<1>12. Accounted(M, new)
  <2>1. new \subseteq Objects
    BY <1>1, <1>4 DEF Accounted
  <2>2. ASSUME NEW o \in Objects
        PROVE  Used(M, o) <=> o \in new \/ IsDesc(M, o)
    BY <1>1, <1>9, <1>11 DEF Accounted
  <2>3. ASSUME NEW o \in new PROVE ~IsDesc(M, o)
    BY <1>1, <1>7, <1>8, <1>9, <2>1 DEF Accounted
  <2> QED BY <2>1, <2>2, <2>3 DEF Accounted
<1> QED BY <1>3, <1>4, <1>7, <1>10, <1>12 DEF HeapSet, M, n, d

-----------------------------------------------------------------------------
(* Unlinking a drained slab.                                               *)

LEMMA LessUsed ==
  ASSUME NEW L, Unique(L), NEW x \in L, NEW o,
         \A z \in L : Bits(z) \subseteq 0 .. Count(z) - 1
  PROVE  Used(L \ {x}, o) <=>
           Used(L, o) /\ ~ (Cls(x) = o.idx /\ \E k \in Bits(x) : SlotOf(x, k) = o.addr)
<1>1. ASSUME Used(L \ {x}, o), NEW k \in Bits(x), SlotOf(x, k) = o.addr PROVE FALSE
  <2>1. PICK z \in L \ {x} : \E l \in Bits(z) : SlotOf(z, l) = o.addr
    BY <1>1 DEF Used
  <2>2. PICK l \in Bits(z) : SlotOf(z, l) = o.addr
    BY <2>1
  <2>3. l \in 0 .. Count(z) - 1 /\ k \in 0 .. Count(x) - 1
    OBVIOUS
  <2> QED BY <1>1, <2>2, <2>3 DEF Unique
<1>2. Used(L \ {x}, o) => Used(L, o)
  BY DEF Used
<1>3. ASSUME Used(L, o), ~ (Cls(x) = o.idx /\ \E k \in Bits(x) : SlotOf(x, k) = o.addr)
      PROVE  Used(L \ {x}, o)
  BY <1>3 DEF Used
<1> QED BY <1>1, <1>2, <1>3

LEMMA LessDesc ==
  ASSUME NEW L, Selfs(L), NEW x \in L, Self(x) # 0, NEW o
  PROVE  IsDesc(L \ {x}, o) <=> IsDesc(L, o) /\ ~ (o.idx = 0 /\ Self(x) = o.addr)
BY DEF IsDesc, Selfs

\* The last object of a slab of a larger class: the slab goes, its SLAB structure
\* is what the nested kmfree() is called with.
LEMMA OpUnlink ==
  ASSUME NEW L, NEW h, NEW lv, HeapSet(L, h, lv), Unique(L), NEW x \in L, Cls(x) # 0,
         Self(x) # 0, NEW k, Bits(x) = {k}, Obj(SlotOf(x, k), Cls(x)) \in lv
  PROVE  /\ HeapSet(L \ {x}, h, (lv \ {Obj(SlotOf(x, k), Cls(x))}) \cup {Obj(Self(x), 0)})
         /\ Obj(Self(x), 0) \in Objects \ lv
<1> DEFINE M == L \ {x}
           n == Obj(SlotOf(x, k), Cls(x))
           d == Obj(Self(x), 0)
           new == (lv \ {n}) \cup {d}
<1>1. Paged(L, h) /\ Accounted(L, lv) /\ Selfs(L)
  BY DEF HeapSet
<1>2. Paged(M, h) /\ Selfs(M)
  BY <1>1 DEF Paged, Selfs
<1>3. x \in Linkeds /\ \A z \in L : Bits(z) \subseteq 0 .. Count(z) - 1
  BY <1>1 DEF Paged
<1>4. n \in Objects /\ d \in Objects
  <2>1. Self(x) \in Addr
    BY <1>3, SlabFacts
  <2> QED BY <2>1, <1>1, ClassZero DEF Accounted, Obj, Objects
<1>5. ASSUME NEW o \in Objects
      PROVE  /\ Used(M, o) <=> Used(L, o) /\ o # n
             /\ IsDesc(M, o) <=> IsDesc(L, o) /\ o # d
  <2>1. o.idx = Cls(x) /\ o.addr = SlotOf(x, k) <=> o = n
    BY DEF Obj, Objects
  <2>2. (o.idx = 0 /\ Self(x) = o.addr) <=> o = d
    BY DEF Obj, Objects
  <2>3. (Cls(x) = o.idx /\ \E l \in Bits(x) : SlotOf(x, l) = o.addr) <=> o = n
    BY <2>1
  <2>4. Used(M, o) <=> Used(L, o) /\ ~ (Cls(x) = o.idx /\ \E l \in Bits(x) : SlotOf(x, l) = o.addr)
    BY <1>3, LessUsed
  <2>5. IsDesc(M, o) <=> IsDesc(L, o) /\ ~ (o.idx = 0 /\ Self(x) = o.addr)
    BY <1>1, LessDesc
  <2> QED BY <2>2, <2>3, <2>4, <2>5
<1>6. n # d /\ n \in lv /\ IsDesc(L, d)
  BY DEF Obj, IsDesc
<1> HIDE DEF M, n, d
<1>7. Accounted(M, new)
  <2>1. new \subseteq Objects
    BY <1>1, <1>4 DEF Accounted
  <2>2. ASSUME NEW o \in Objects
        PROVE  Used(M, o) <=> o \in new \/ IsDesc(M, o)
    BY <1>1, <1>5, <1>6 DEF Accounted
  <2>3. ASSUME NEW o \in new PROVE ~IsDesc(M, o)
    BY <1>1, <1>5, <2>1 DEF Accounted
  <2> QED BY <2>1, <2>2, <2>3 DEF Accounted
<1>8. d \notin lv
  BY <1>1, <1>6 DEF Accounted
<1> QED BY <1>2, <1>4, <1>7, <1>8 DEF HeapSet, M, n, d

\* In a slab of class 64 the SLAB structure, in slot 0, is marked and not live.
LEMMA SlotZeroIsSelf ==
  ASSUME NEW L, NEW h, NEW lv, HeapSet(L, h, lv), Unique(L), NEW x \in L, Cls(x) = 0,
         Self(x) # 0
  PROVE  /\ 0 \in Bits(x) /\ Self(x) = Base(x) /\ SlotOf(x, 0) = Base(x)
         /\ Obj(SlotOf(x, 0), 0) \notin lv
<1>1. Paged(L, h) /\ Accounted(L, lv) /\ Selfs(L)
  BY DEF HeapSet
<1>2. x \in Linkeds /\ \A z \in L : Bits(z) \subseteq 0 .. Count(z) - 1
  BY <1>1 DEF Paged
<1>3. Self(x) = Base(x)
  BY <1>1 DEF Selfs
<1>4. SlotOf(x, 0) = Base(x) /\ 0 \in 0 .. Count(x) - 1
  BY <1>2, SlotZero
<1> DEFINE d == Obj(SlotOf(x, 0), 0)
<1>5. IsDesc(L, d)
  BY <1>3, <1>4 DEF IsDesc, Obj
<1>6. d \in Objects
  BY <1>4, ClassZero DEF Unique, Obj, Objects
<1>7. Used(L, d) /\ d \notin lv
  BY <1>1, <1>5, <1>6 DEF Accounted
<1>8. PICK z \in L : \E l \in Bits(z) : SlotOf(z, l) = SlotOf(x, 0)
  BY <1>7 DEF Used, Obj
<1>9. PICK l \in Bits(z) : SlotOf(z, l) = SlotOf(x, 0)
  BY <1>8
<1>10. z = x /\ l = 0
  <2>1. l \in 0 .. Count(z) - 1
    BY <1>2
  <2> QED BY <2>1, <1>4, <1>9 DEF Unique
<1> QED BY <1>3, <1>4, <1>7, <1>9, <1>10

\* The last object of a page of class 64: slab, SLAB structure and page go together.
LEMMA OpUnlink64 ==
  ASSUME NEW L, NEW h, NEW lv, HeapSet(L, h, lv), Unique(L), Distinct(L), NEW x \in L,
         Cls(x) = 0, Self(x) # 0, NEW k \in Bits(x), Bits(x) \ {k} = {0},
         Obj(SlotOf(x, k), 0) \in lv
  PROVE  HeapSet(L \ {x}, h \ {Page(x)}, lv \ {Obj(SlotOf(x, k), 0)})
<1> DEFINE M == L \ {x}
           n == Obj(SlotOf(x, k), 0)
           d == Obj(SlotOf(x, 0), 0)
           new == lv \ {n}
<1>1. Paged(L, h) /\ Accounted(L, lv) /\ Selfs(L)
  BY DEF HeapSet
<1>2. Self(x) = Base(x) /\ SlotOf(x, 0) = Base(x) /\ d \notin lv
  BY SlotZeroIsSelf
<1>3. \A z \in L : z \in Linkeds /\ Bits(z) \subseteq 0 .. Count(z) - 1
  BY <1>1 DEF Paged
<1>4. Paged(M, h \ {Page(x)})
  <2>1. ASSUME NEW z \in M PROVE Page(z) # Page(x)
    <3>1. Base(z) # Base(x)
      BY DEF Distinct
    <3>2. Page(z).addr = Base(z) /\ Page(x).addr = Base(x)
      BY <1>3, SlabFacts
    <3> QED BY <3>1, <3>2
  <2> QED BY <2>1, <1>1 DEF Paged
<1>5. Selfs(M)
  BY <1>1 DEF Selfs
<1>6. ASSUME NEW o \in Objects
      PROVE  /\ Used(M, o) <=> Used(L, o) /\ o # n /\ o # d
             /\ IsDesc(M, o) <=> IsDesc(L, o) /\ o # d
  <2>1. o.idx = 0 /\ o.addr = SlotOf(x, k) <=> o = n
    BY DEF Obj, Objects
  <2>2. o.idx = 0 /\ o.addr = SlotOf(x, 0) <=> o = d
    BY DEF Obj, Objects
  <2>3. \A l : l \in Bits(x) <=> l = 0 \/ l = k
    OBVIOUS
  <2>4. (Cls(x) = o.idx /\ \E l \in Bits(x) : SlotOf(x, l) = o.addr) <=> o = n \/ o = d
    BY <2>1, <2>2, <2>3
  <2>5. Used(M, o) <=> Used(L, o) /\ ~ (Cls(x) = o.idx /\ \E l \in Bits(x) : SlotOf(x, l) = o.addr)
    BY <1>3, LessUsed
  <2>6. IsDesc(M, o) <=> IsDesc(L, o) /\ ~ (o.idx = 0 /\ Self(x) = o.addr)
    BY <1>1, LessDesc
  <2> QED BY <1>2, <2>2, <2>4, <2>5, <2>6
<1>7. n \in lv /\ IsDesc(L, d)
  BY <1>2 DEF Obj, IsDesc
<1> HIDE DEF M, n, d
<1>8. Accounted(M, new)
  <2>1. new \subseteq Objects
    BY <1>1 DEF Accounted
  <2>2. ASSUME NEW o \in Objects
        PROVE  Used(M, o) <=> o \in new \/ IsDesc(M, o)
    BY <1>1, <1>2, <1>6, <1>7 DEF Accounted
  <2>3. ASSUME NEW o \in new PROVE ~IsDesc(M, o)
    BY <1>1, <1>6, <2>1 DEF Accounted
  <2> QED BY <2>1, <2>2, <2>3 DEF Accounted
<1> QED BY <1>4, <1>5, <1>8 DEF HeapSet, M, n, d

-----------------------------------------------------------------------------
(* The lists of slabs.                                                     *)

\* The static slab, and no other, is the first; no two slabs share a page.
Listing(s) ==
  /\ s \in [Class -> Seq(SlabRec)]
  /\ \A i \in Class : \A p \in 1 .. Len(s[i]) : s[i][p].self = 0 <=> p = 1
  /\ \A i, j \in Class : \A p \in 1 .. Len(s[i]), q \in 1 .. Len(s[j]) :
       s[i][p].address = s[j][q].address => i = j /\ p = q

At(s, i, p) == <<i, s[i][p]>>

Linked(s) == {x \in Linkeds : \E p \in 1 .. Len(s[Cls(x)]) : x = At(s, Cls(x), p)}

LEMMA AtFields ==
  ASSUME NEW s, NEW i, NEW p
  PROVE  /\ Cls(At(s, i, p)) = i /\ Base(At(s, i, p)) = s[i][p].address
         /\ Bits(At(s, i, p)) = s[i][p].bitmap /\ Self(At(s, i, p)) = s[i][p].self
BY DEF At, Cls, Base, Bits, Self

LEMMA AtLinked ==
  ASSUME NEW s \in [Class -> Seq(SlabRec)], NEW i \in Class, NEW p \in 1 .. Len(s[i])
  PROVE  At(s, i, p) \in Linked(s) /\ At(s, i, p) \in Linkeds
<1>1. s[i][p] \in SlabRec
  OBVIOUS
<1>2. At(s, i, p) \in Linkeds
  BY <1>1 DEF At, Linkeds
<1> QED BY <1>2, AtFields DEF Linked

LEMMA LinkedAt ==
  ASSUME NEW s, NEW x \in Linked(s)
  PROVE  \E i \in Class : \E p \in 1 .. Len(s[i]) : x = At(s, i, p)
<1>1. Cls(x) \in Class
  BY SlabFacts DEF Linked
<1> QED BY <1>1 DEF Linked

LEMMA LinkedDistinct ==
  ASSUME NEW s, Listing(s)
  PROVE  Distinct(Linked(s))
<1> SUFFICES ASSUME NEW x \in Linked(s), NEW y \in Linked(s), Base(x) = Base(y)
             PROVE  x = y
  BY DEF Distinct
<1>1a. PICK i \in Class : \E p \in 1 .. Len(s[i]) : x = At(s, i, p)
  BY LinkedAt
<1>1. PICK p \in 1 .. Len(s[i]) : x = At(s, i, p)
  BY <1>1a
<1>2a. PICK j \in Class : \E q \in 1 .. Len(s[j]) : y = At(s, j, q)
  BY LinkedAt
<1>2. PICK q \in 1 .. Len(s[j]) : y = At(s, j, q)
  BY <1>2a
<1>3. s[i][p].address = s[j][q].address
  BY <1>1, <1>2, AtFields
<1> QED BY <1>1, <1>2, <1>3 DEF Listing

\* The three changes of the lists.
Marked(s, i, p, B) == [s EXCEPT ![i][p].bitmap = B]
Appended(s, i, r) == [s EXCEPT ![i] = Append(s[i], r)]
Unlinked(s, i, p) == [s EXCEPT ![i] = Unlink(s[i], p)]

LEMMA ListMark ==
  ASSUME NEW s, Listing(s), NEW i \in Class, NEW p \in 1 .. Len(s[i]),
         NEW B \in SUBSET (0 .. 63), NEW t, t = Marked(s, i, p, B)
  PROVE  /\ Listing(t)
         /\ Linked(t) = (Linked(s) \ {At(s, i, p)}) \cup {At(t, i, p)}
         /\ At(t, i, p) \in Linkeds /\ Alike(At(s, i, p), At(t, i, p))
         /\ Bits(At(t, i, p)) = B
         /\ \A j \in Class : Len(t[j]) = Len(s[j])
<1>1. s \in [Class -> Seq(SlabRec)]
  BY DEF Listing
<1>2. PICK r : r = [s[i][p] EXCEPT !.bitmap = B]
  OBVIOUS
<1>3. s[i] \in Seq(SlabRec) /\ s[i][p] \in SlabRec
  BY <1>1
<1>4. r \in SlabRec /\ r.address = s[i][p].address /\ r.self = s[i][p].self /\ r.bitmap = B
  BY <1>2, <1>3 DEF SlabRec
<1>5. PICK q : q = [s[i] EXCEPT ![p] = r]
  OBVIOUS
<1>6. t = [s EXCEPT ![i] = q]
  BY <1>2, <1>5, <1>1 DEF Marked
<1>7. /\ q \in Seq(SlabRec) /\ Len(q) = Len(s[i]) /\ q[p] = r
      /\ \A k \in 1 .. Len(s[i]) : k # p => q[k] = s[i][k]
  BY <1>3, <1>4, <1>5
<1>8. t \in [Class -> Seq(SlabRec)] /\ t[i] = q /\ \A j \in Class : j # i => t[j] = s[j]
  BY <1>1, <1>6, <1>7
<1>9. /\ \A j \in Class : Len(t[j]) = Len(s[j])
      /\ t[i][p] = r
      /\ \A j \in Class : \A k \in 1 .. Len(s[j]) : ~ (j = i /\ k = p) => t[j][k] = s[j][k]
  BY <1>7, <1>8
<1>10. \A j \in Class : \A k \in 1 .. Len(s[j]) :
         t[j][k].address = s[j][k].address /\ t[j][k].self = s[j][k].self
  BY <1>4, <1>9
<1>11. Listing(t)
  <2>1. \A j \in Class : \A k \in 1 .. Len(t[j]) : t[j][k].self = 0 <=> k = 1
    BY <1>9, <1>10 DEF Listing
  <2>2. ASSUME NEW j \in Class, NEW c \in Class, NEW k \in 1 .. Len(t[j]), NEW l \in 1 .. Len(t[c]),
               t[j][k].address = t[c][l].address
        PROVE  j = c /\ k = l
    <3>1. k \in 1 .. Len(s[j]) /\ l \in 1 .. Len(s[c])
      BY <1>9
    <3>2. s[j][k].address = s[c][l].address
      BY <3>1, <2>2, <1>10
    <3> QED BY <3>1, <3>2 DEF Listing
  <2> QED BY <1>8, <2>1, <2>2 DEF Listing
<1>12. At(t, i, p) \in Linkeds /\ At(t, i, p) \in Linked(t)
  BY <1>8, <1>9, AtLinked
<1>13. Alike(At(s, i, p), At(t, i, p)) /\ Bits(At(t, i, p)) = B
  BY <1>4, <1>9 DEF Alike, At, Cls, Base, Bits, Self
<1>14. ASSUME NEW x \in Linked(t), x # At(t, i, p) PROVE x \in Linked(s) \ {At(s, i, p)}
  <2>1a. PICK j \in Class : \E k \in 1 .. Len(t[j]) : x = At(t, j, k)
    BY LinkedAt
  <2>1. PICK k \in 1 .. Len(t[j]) : x = At(t, j, k)
    BY <2>1a
  <2>2. k \in 1 .. Len(s[j]) /\ ~ (j = i /\ k = p)
    BY <1>9, <1>14, <2>1
  <2>3. x = At(s, j, k)
    BY <1>9, <2>1, <2>2 DEF At
  <2>4. x \in Linked(s)
    BY <1>1, <2>2, <2>3, AtLinked
  <2>5. x # At(s, i, p)
    <3>1. x = At(s, i, p) => s[j][k].address = s[i][p].address
      BY <2>3 DEF At
    <3> QED BY <3>1, <2>2 DEF Listing
  <2> QED BY <2>4, <2>5
<1>15. ASSUME NEW x \in Linked(s), x # At(s, i, p) PROVE x \in Linked(t)
  <2>1a. PICK j \in Class : \E k \in 1 .. Len(s[j]) : x = At(s, j, k)
    BY LinkedAt
  <2>1. PICK k \in 1 .. Len(s[j]) : x = At(s, j, k)
    BY <2>1a
  <2>2. k \in 1 .. Len(t[j]) /\ ~ (j = i /\ k = p)
    BY <1>9, <1>15, <2>1
  <2>3. x = At(t, j, k)
    BY <1>9, <2>1, <2>2 DEF At
  <2> QED BY <1>8, <2>2, <2>3, AtLinked
<1>16. Linked(t) = (Linked(s) \ {At(s, i, p)}) \cup {At(t, i, p)}
  BY <1>12, <1>14, <1>15
<1> QED BY <1>9, <1>11, <1>12, <1>13, <1>16

\* A new slab at the end of its list.
LEMMA ListAppend ==
  ASSUME NEW s, Listing(s), NEW i \in Class, NEW r \in SlabRec,
         r.self = 0 <=> s[i] = <<>>, \A x \in Linked(s) : Base(x) # r.address,
         NEW t, t = Appended(s, i, r)
  PROVE  /\ Listing(t)
         /\ Linked(t) = Linked(s) \cup {<<i, r>>}
         /\ <<i, r>> \in Linkeds
         /\ \A j \in Class : j # i => t[j] = s[j]
         /\ t[i] # <<>>
<1>1. s \in [Class -> Seq(SlabRec)]
  BY DEF Listing
<1>2. PICK n \in Nat : n = Len(s[i])
  BY <1>1
<1>3. s[i] = <<>> <=> n = 0
  BY <1>1, <1>2
<1>4. /\ t \in [Class -> Seq(SlabRec)] /\ t[i] = Append(s[i], r)
      /\ \A j \in Class : j # i => t[j] = s[j]
  BY <1>1 DEF Appended
<1>5. /\ Len(t[i]) = n + 1 /\ t[i][n + 1] = r
      /\ \A k \in 1 .. n : t[i][k] = s[i][k]
  BY <1>1, <1>2, <1>4
<1>6. ASSUME NEW j \in Class, NEW k \in 1 .. Len(t[j])
      PROVE  \/ j = i /\ k = n + 1 /\ t[j][k] = r
             \/ k \in 1 .. Len(s[j]) /\ t[j][k] = s[j][k]
  <2>1. CASE j = i
    <3>1. k \in 1 .. n \/ k = n + 1
      BY <2>1, <1>5
    <3> QED BY <3>1, <2>1, <1>5, <1>2
  <2>2. CASE j # i
    BY <2>2, <1>4
  <2> QED BY <2>1, <2>2
<1>7. ASSUME NEW j \in Class, NEW k \in 1 .. Len(s[j])
      PROVE  k \in 1 .. Len(t[j]) /\ t[j][k] = s[j][k]
  <2>1. CASE j = i
    <3>1. k \in 1 .. n
      BY <2>1, <1>2
    <3> QED BY <3>1, <2>1, <1>5
  <2>2. CASE j # i
    BY <2>2, <1>4
  <2> QED BY <2>1, <2>2
<1>8. \A j \in Class : \A k \in 1 .. Len(s[j]) : s[j][k].address # r.address
  BY <1>1, AtLinked, AtFields
<1>9. Listing(t)
  <2>1. ASSUME NEW j \in Class, NEW k \in 1 .. Len(t[j])
        PROVE  t[j][k].self = 0 <=> k = 1
    <3>1. CASE j = i /\ k = n + 1 /\ t[j][k] = r
      BY <3>1, <1>3
    <3>2. CASE k \in 1 .. Len(s[j]) /\ t[j][k] = s[j][k]
      BY <3>2 DEF Listing
    <3> QED BY <3>1, <3>2, <1>6
  <2>2. ASSUME NEW j \in Class, NEW c \in Class, NEW k \in 1 .. Len(t[j]), NEW l \in 1 .. Len(t[c]),
               t[j][k].address = t[c][l].address
        PROVE  j = c /\ k = l
    <3>1. \/ j = i /\ k = n + 1 /\ t[j][k] = r
          \/ k \in 1 .. Len(s[j]) /\ t[j][k] = s[j][k]
      BY <1>6
    <3>2. \/ c = i /\ l = n + 1 /\ t[c][l] = r
          \/ l \in 1 .. Len(s[c]) /\ t[c][l] = s[c][l]
      BY <1>6
    <3>3. CASE j = i /\ k = n + 1 /\ t[j][k] = r /\ c = i /\ l = n + 1
      BY <3>3
    <3>4. CASE j = i /\ k = n + 1 /\ t[j][k] = r /\ l \in 1 .. Len(s[c]) /\ t[c][l] = s[c][l]
      BY <3>4, <2>2, <1>8
    <3>5. CASE k \in 1 .. Len(s[j]) /\ t[j][k] = s[j][k] /\ c = i /\ l = n + 1 /\ t[c][l] = r
      BY <3>5, <2>2, <1>8
    <3>6. CASE k \in 1 .. Len(s[j]) /\ t[j][k] = s[j][k] /\ l \in 1 .. Len(s[c]) /\ t[c][l] = s[c][l]
      BY <3>6, <2>2 DEF Listing
    <3> QED BY <3>1, <3>2, <3>3, <3>4, <3>5, <3>6
  <2> QED BY <1>4, <2>1, <2>2 DEF Listing
<1>10. <<i, r>> \in Linkeds
  BY DEF Linkeds
<1>11. <<i, r>> \in Linked(t)
  <2>1. <<i, r>> = At(t, i, n + 1) /\ n + 1 \in 1 .. Len(t[i])
    BY <1>5 DEF At
  <2> QED BY <2>1, <1>4, AtLinked
<1>12. ASSUME NEW x \in Linked(s) PROVE x \in Linked(t)
  <2>1a. PICK j \in Class : \E k \in 1 .. Len(s[j]) : x = At(s, j, k)
    BY LinkedAt
  <2>1. PICK k \in 1 .. Len(s[j]) : x = At(s, j, k)
    BY <2>1a
  <2>2. k \in 1 .. Len(t[j]) /\ x = At(t, j, k)
    BY <2>1, <1>7 DEF At
  <2> QED BY <2>2, <1>4, AtLinked
<1>13. ASSUME NEW x \in Linked(t) PROVE x \in Linked(s) \/ x = <<i, r>>
  <2>1a. PICK j \in Class : \E k \in 1 .. Len(t[j]) : x = At(t, j, k)
    BY LinkedAt
  <2>1. PICK k \in 1 .. Len(t[j]) : x = At(t, j, k)
    BY <2>1a
  <2>2. CASE j = i /\ t[j][k] = r
    BY <2>1, <2>2 DEF At
  <2>3. CASE k \in 1 .. Len(s[j]) /\ t[j][k] = s[j][k]
    <3>1. x = At(s, j, k)
      BY <2>1, <2>3 DEF At
    <3> QED BY <3>1, <2>3, <1>1, AtLinked
  <2> QED BY <2>2, <2>3, <1>6
<1>14. t[i] # <<>>
  BY <1>5
<1> QED BY <1>4, <1>9, <1>10, <1>11, <1>12, <1>13, <1>14

LEMMA UnlinkFacts ==
  ASSUME NEW q \in Seq(SlabRec), NEW p \in 2 .. Len(q)
  PROVE  /\ Unlink(q, p) \in Seq(SlabRec)
         /\ Len(Unlink(q, p)) = Len(q) - 1
         /\ \A k \in 1 .. Len(q) - 1 : Unlink(q, p)[k] = IF k < p THEN q[k] ELSE q[k + 1]
<1>1. PICK n \in Nat : n = Len(q)
  OBVIOUS
<1>2. p - 1 \in 1 .. n /\ p \in 2 .. n /\ p + 1 \in Nat
  BY <1>1
<1>3. PICK a : a = SubSeq(q, 1, p - 1)
  OBVIOUS
<1>4. PICK b : b = SubSeq(q, p + 1, n)
  OBVIOUS
<1>5. a \in Seq(SlabRec) /\ Len(a) = p - 1 /\ \A k \in 1 .. p - 1 : a[k] = q[k]
  BY <1>1, <1>2, <1>3
<1>6. b \in Seq(SlabRec) /\ Len(b) = n - p /\ \A k \in 1 .. n - p : b[k] = q[k + p]
  <2>1. Len(b) = n - p
    BY <1>1, <1>2, <1>4
  <2>2. b \in Seq(SlabRec)
    BY <1>1, <1>2, <1>4
  <2>3. ASSUME NEW k \in 1 .. n - p PROVE b[k] = q[k + p]
    <3>1. b[k] = q[(p + 1) + k - 1] /\ (p + 1) + k - 1 = k + p
      BY <1>1, <1>2, <1>4
    <3> QED BY <3>1
  <2> QED BY <2>1, <2>2, <2>3
<1>7. Unlink(q, p) = a \o b
  BY <1>1, <1>3, <1>4 DEF Unlink
<1>8. a \o b \in Seq(SlabRec) /\ Len(a \o b) = n - 1
  <2>1. a \o b \in Seq(SlabRec) /\ Len(a \o b) = Len(a) + Len(b)
    BY <1>5, <1>6
  <2> QED BY <2>1, <1>2, <1>5, <1>6
<1>9. ASSUME NEW k \in 1 .. n - 1
      PROVE  (a \o b)[k] = IF k < p THEN q[k] ELSE q[k + 1]
  <2>1. CASE k < p
    BY <1>2, <1>5, <1>6, <2>1
  <2>2. CASE ~ (k < p)
    <3>1. (a \o b)[k] = b[k - (p - 1)]
      BY <1>2, <1>5, <1>6, <2>2
    <3>2. k - (p - 1) \in 1 .. n - p /\ k - (p - 1) + p = k + 1
      BY <1>2, <2>2
    <3> QED BY <3>1, <3>2, <2>2, <1>6
  <2> QED BY <2>1, <2>2
<1> QED BY <1>1, <1>7, <1>8, <1>9

\* A slab that is not the static one leaves its list.
LEMMA ListUnlink ==
  ASSUME NEW s, Listing(s), NEW i \in Class, NEW p \in 2 .. Len(s[i]),
         NEW t, t = Unlinked(s, i, p)
  PROVE  /\ Listing(t)
         /\ Linked(t) = Linked(s) \ {At(s, i, p)}
         /\ \A j \in Class : j # i => t[j] = s[j]
         /\ Len(t[i]) < Len(s[i]) /\ t[i] # <<>>
<1>1. s \in [Class -> Seq(SlabRec)] /\ s[i] \in Seq(SlabRec)
  BY DEF Listing
<1>2. PICK n \in Nat : n = Len(s[i])
  BY <1>1
<1>3. /\ t \in [Class -> Seq(SlabRec)] /\ t[i] = Unlink(s[i], p)
      /\ \A j \in Class : j # i => t[j] = s[j]
  BY <1>1, UnlinkFacts DEF Unlinked
<1>4. /\ Len(t[i]) = n - 1 /\ n >= 2 /\ p \in 2 .. n
      /\ \A k \in 1 .. n - 1 : t[i][k] = IF k < p THEN s[i][k] ELSE s[i][k + 1]
  BY <1>1, <1>2, <1>3, UnlinkFacts, SMTT(40)
<1> DEFINE Old(j, k) == IF j = i /\ k >= p THEN k + 1 ELSE k
<1>5. ASSUME NEW j \in Class, NEW k \in 1 .. Len(t[j])
      PROVE  /\ Old(j, k) \in 1 .. Len(s[j]) /\ t[j][k] = s[j][Old(j, k)]
             /\ ~ (j = i /\ Old(j, k) = p) /\ k \in Int
             /\ Old(j, k) = 1 <=> k = 1
  <2>1. CASE j = i
    <3>1. k \in 1 .. n - 1
      BY <2>1, <1>4
    <3> QED BY <3>1, <2>1, <1>2, <1>4
  <2>2. CASE j # i
    BY <2>2, <1>3
  <2> QED BY <2>1, <2>2
<1>6. ASSUME NEW j \in Class, NEW k \in 1 .. Len(s[j]), ~ (j = i /\ k = p)
      PROVE  \E l \in 1 .. Len(t[j]) : t[j][l] = s[j][k]
  <2>1. CASE j = i
    <3>1. k \in 1 .. n /\ k # p
      BY <2>1, <1>2, <1>6
    <3>2. CASE k < p
      <4>1. k \in 1 .. n - 1
        BY <3>1, <3>2, <1>4
      <4> QED BY <4>1, <3>2, <2>1, <1>4
    <3>3. CASE k > p
      <4>1. k - 1 \in 1 .. n - 1 /\ ~ (k - 1 < p) /\ (k - 1) + 1 = k
        BY <3>1, <3>3, <1>4
      <4>2. t[i][k - 1] = s[i][k]
        BY <4>1, <1>4
      <4> QED BY <4>1, <4>2, <2>1, <1>4
    <3> QED BY <3>1, <3>2, <3>3, <1>4
  <2>2. CASE j # i
    BY <2>2, <1>3
  <2> QED BY <2>1, <2>2
<1>7. \A j \in Class : \A k, l \in 1 .. Len(t[j]) : Old(j, k) = Old(j, l) => k = l
  BY <1>4
<1> HIDE DEF Old
<1>8. Listing(t)
  <2>1. ASSUME NEW j \in Class, NEW k \in 1 .. Len(t[j])
        PROVE  t[j][k].self = 0 <=> k = 1
    <3>1. PICK l \in 1 .. Len(s[j]) : t[j][k] = s[j][l] /\ (l = 1 <=> k = 1)
      BY <1>5
    <3> QED BY <3>1 DEF Listing
  <2>2. ASSUME NEW j \in Class, NEW c \in Class, NEW k \in 1 .. Len(t[j]), NEW l \in 1 .. Len(t[c]),
               t[j][k].address = t[c][l].address
        PROVE  j = c /\ k = l
    <3>0. /\ Old(j, k) \in 1 .. Len(s[j]) /\ t[j][k] = s[j][Old(j, k)]
          /\ Old(c, l) \in 1 .. Len(s[c]) /\ t[c][l] = s[c][Old(c, l)]
      BY <1>5
    <3>1. j = c /\ Old(j, k) = Old(c, l)
      BY <2>2, <3>0 DEF Listing
    <3> QED BY <3>1, <1>7
  <2> QED BY <1>3, <2>1, <2>2 DEF Listing
<1>9. ASSUME NEW x \in Linked(t) PROVE x \in Linked(s) \ {At(s, i, p)}
  <2>1a. PICK j \in Class : \E k \in 1 .. Len(t[j]) : x = At(t, j, k)
    BY LinkedAt
  <2>1. PICK k \in 1 .. Len(t[j]) : x = At(t, j, k)
    BY <2>1a
  <2>2. PICK l \in 1 .. Len(s[j]) : t[j][k] = s[j][l] /\ ~ (j = i /\ l = p)
    BY <1>5
  <2>3. x = At(s, j, l)
    BY <2>1, <2>2 DEF At
  <2>4. x \in Linked(s)
    BY <1>1, <2>2, <2>3, AtLinked
  <2>5. x # At(s, i, p)
    <3>1. x = At(s, i, p) => s[j][l].address = s[i][p].address
      BY <2>3 DEF At
    <3>2. p \in 1 .. Len(s[i])
      BY <1>2, <1>4
    <3> QED BY <3>1, <3>2, <2>2 DEF Listing
  <2> QED BY <2>4, <2>5
<1>10. ASSUME NEW x \in Linked(s), x # At(s, i, p) PROVE x \in Linked(t)
  <2>1a. PICK j \in Class : \E k \in 1 .. Len(s[j]) : x = At(s, j, k)
    BY LinkedAt
  <2>1. PICK k \in 1 .. Len(s[j]) : x = At(s, j, k)
    BY <2>1a
  <2>2. ~ (j = i /\ k = p)
    BY <2>1, <1>10
  <2>3. PICK l \in 1 .. Len(t[j]) : t[j][l] = s[j][k]
    BY <1>6, <2>2
  <2>4. x = At(t, j, l)
    BY <2>1, <2>3 DEF At
  <2> QED BY <2>4, <1>3, AtLinked
<1>11. Len(t[i]) < Len(s[i]) /\ t[i] # <<>>
  BY <1>2, <1>3, <1>4
<1> QED BY <1>3, <1>8, <1>9, <1>10, <1>11

-----------------------------------------------------------------------------
(* Alignment of blocks: where memory ends on a 512 KiB boundary, a block of *)
(* 4 KiB lies on a multiple of its size and a larger one on a multiple of   *)
(* 512 KiB.                                                                *)

Even == (AllocatableMax % PM_512K) = 0

Grain(i) == IF i = 0 THEN PM_4K ELSE PM_512K

Aligned(m, h) == \A b \in Listed(m) \cup h : Multiple(b.addr, Grain(b.idx))

LEMMA GrainFacts ==
  /\ PM_4K \in Nat \ {0} /\ PM_512K \in Nat \ {0} /\ PM_512K = SplitN * PM_4K /\ SplitN \in Nat
  /\ Size[0] = PM_4K /\ Size[1] = PM_512K /\ Size[2] = SplitN * PM_512K
  /\ Grain(0) = PM_4K /\ Grain(1) = PM_512K /\ Grain(2) = PM_512K
<1>1. PM_4K \in Nat \ {0} /\ SplitN \in Nat \ {0} /\ PM_512K = SplitN * PM_4K /\ PM_512K \in Nat
  BY PMAssumption
<1>2. PM_512K # 0
  BY <1>1
<1>3. Size[0] = PM_4K /\ Size[1] = PM_512K /\ Size[2] = SplitN * PM_512K
  BY PMAssumption DEF Size, Idx
<1> QED BY <1>1, <1>2, <1>3 DEF Grain

\* The pieces of an aligned block are aligned.
LEMMA PiecesAligned ==
  ASSUME NEW i \in {0, 1}, NEW a \in Nat, Multiple(a, PM_512K), NEW b \in Pieces(a, i)
  PROVE  Multiple(b.addr, Grain(b.idx))
<1>1. PICK k \in 1 .. SplitN : b = Blk(a + (k - 1) * Size[i], i)
  BY DEF Pieces
<1>2. b.addr = a + (k - 1) * Size[i] /\ b.idx = i
  BY <1>1 DEF Blk
<1>3. Size[i] = Grain(i) /\ Grain(i) \in Nat
  BY GrainFacts
<1>4. Multiple(a, Grain(i))
  <2>1. CASE i = 0
    <3>1. Multiple(a, SplitN * PM_4K)
      BY GrainFacts
    <3>2. Multiple(a, PM_4K)
      BY <3>1, GrainFacts, MultipleFiner
    <3> QED BY <3>2, <2>1, GrainFacts
  <2>2. CASE i = 1
    BY <2>2, GrainFacts
  <2> QED BY <2>1, <2>2
<1>5. k - 1 \in Nat
  BY GrainFacts
<1>6. Multiple(a + (k - 1) * Grain(i), Grain(i))
  BY <1>3, <1>4, <1>5, MultipleAdd
<1> QED BY <1>2, <1>3, <1>6

LEMMA AlignedSplit ==
  ASSUME NEW m, NEW h, NEW lo, Sound(m, h, lo), Aligned(m, h), NEW i \in {0, 1},
         NEW j, j = i + 1, m[i] = <<>>, m[j] # <<>>
  PROVE  Aligned([m EXCEPT ![i] = Split(Head(m[j]), i), ![j] = Tail(m[j])], h)
<1> DEFINE a == Head(m[j])
           c == Blk(a, j)
           p == [m EXCEPT ![j] = Tail(m[j])]
           n == [p EXCEPT ![i] = Split(a, i)]
<1>1. i \in Idx /\ j \in Idx /\ j # i
  BY SizeStep
<1>2. /\ p \in [Idx -> Seq(Addr)] /\ a \in Addr /\ c \in Listed(m)
      /\ Listed(p) = Listed(m) \ {c} /\ NoRepeats(p)
  BY <1>1, PopListed DEF Sound
<1>3. p[i] = <<>> /\ c.addr = a /\ c.idx = j /\ a \in Nat
  BY <1>1, <1>2, PMAssumption DEF Sound, Blk, Addr
<1>4. n = [m EXCEPT ![i] = Split(Head(m[j]), i), ![j] = Tail(m[j])]
  <2>1. m \in [Idx -> Seq(Addr)]
    BY DEF Sound
  <2> QED BY <1>1, <2>1
<1> HIDE DEF a, c, p
<1>5. \A k \in 1 .. SplitN : a + (k - 1) * Size[i] \in Addr
  <2>1. c \in Listed(m) \cup h /\ c.idx = i + 1 /\ c.addr = a
    BY <1>2, <1>3
  <2>2. Tiles(Listed(m) \cup h, lo) /\ lo \in Nat
    BY DEF Sound
  <2> QED BY <2>1, <2>2, TilesSplit
<1>6. Listed(n) = Listed(p) \cup Pieces(a, i)
  BY <1>2, <1>3, <1>5, SplitListed
<1>7. Multiple(a, PM_512K)
  <2>1. Multiple(c.addr, Grain(c.idx))
    BY <1>2 DEF Aligned
  <2>2. Grain(j) = PM_512K
    BY GrainFacts
  <2> QED BY <2>1, <2>2, <1>3
<1>8. \A b \in Pieces(a, i) : Multiple(b.addr, Grain(b.idx))
  BY <1>3, <1>7, PiecesAligned
<1> HIDE DEF n
<1>9. Aligned(n, h)
  BY <1>2, <1>6, <1>8 DEF Aligned
<1> QED BY <1>4, <1>9

LEMMA AlignedRefill ==
  ASSUME NEW m, NEW h, NEW lo, Sound(m, h, lo), Aligned(m, h), NEW i \in Idx,
         ~OutOfMemory(m, i)
  PROVE  Aligned(Refill(m, i), h)
<1>0. m \in [Idx -> Seq(Addr)]
  BY DEF Sound
<1>1. ASSUME m[1] # <<>> \/ m[2] # <<>>
      PROVE  Aligned(Refill512K(m), h)
  <2>1. CASE m[1] # <<>>
    BY <2>1 DEF Refill512K
  <2>2. CASE m[1] = <<>>
    <3>1. Aligned([m EXCEPT ![1] = Split(Head(m[2]), 1), ![2] = Tail(m[2])], h)
      BY <1>1, <2>2, AlignedSplit
    <3> QED BY <2>2, <3>1 DEF Refill512K
  <2> QED BY <2>1, <2>2
<1>2. CASE i = 2
  BY <1>2 DEF Refill
<1>3. CASE i = 1
  <2>1. m[1] # <<>> \/ m[2] # <<>>
    BY <1>3 DEF OutOfMemory
  <2> QED BY <1>1, <1>3, <2>1 DEF Refill
<1>4. CASE i = 0
  <2>1. CASE m[0] # <<>>
    BY <1>4, <2>1 DEF Refill, Refill4K
  <2>2. CASE m[0] = <<>>
    <3> DEFINE n == Refill512K(m)
    <3>1. m[1] # <<>> \/ m[2] # <<>>
      BY <1>4, <2>2 DEF OutOfMemory
    <3>2. ~OutOfMemory(m, 1) /\ Refill(m, 1) = n /\ 1 \in Idx
      BY <3>1 DEF OutOfMemory, Refill, Idx
    <3>3. Sound(n, h, lo) /\ n[1] # <<>>
      BY <3>2, SoundRefill
    <3>4. Aligned(n, h)
      BY <1>1, <3>1
    <3>5. n[0] = <<>>
      BY <1>0, <2>2 DEF Refill512K, Idx
    <3>6. Refill(m, i) = [n EXCEPT ![0] = Split(Head(n[1]), 0), ![1] = Tail(n[1])]
      BY <1>4, <2>2 DEF Refill, Refill4K
    <3> HIDE DEF n
    <3>7. Aligned([n EXCEPT ![0] = Split(Head(n[1]), 0), ![1] = Tail(n[1])], h)
      BY <3>3, <3>4, <3>5, AlignedSplit
    <3> QED BY <3>6, <3>7
  <2> QED BY <2>1, <2>2
<1> QED BY <1>2, <1>3, <1>4 DEF Idx

-----------------------------------------------------------------------------
(* The page allocator under the heap.                                      *)

PageLists(m, h, lo) == Sound(m, h, lo) /\ (Even => Aligned(m, h))

\* pmalloc() as kmalloc() and slab_init() see it: a block nobody holds, or a panic.
LEMMA TakePage ==
  ASSUME NEW m, NEW h, NEW lo, PageLists(m, h, lo), NEW i \in Idx, ~OutOfMemory(m, i)
  PROVE  /\ ~BadSplit(m, i)
         /\ NewBlock(m, i) \in Addr /\ Blk(NewBlock(m, i), i) \notin h
         /\ PageLists(Take(m, i), h \cup {Blk(NewBlock(m, i), i)}, lo)
<1> DEFINE r == Refill(m, i)
           b == Blk(Head(r[i]), i)
           n == [r EXCEPT ![i] = Tail(r[i])]
<1>1. Sound(m, h, lo)
  BY DEF PageLists
<1>2. Sound(r, h, lo) /\ r[i] # <<>>
  BY <1>1, SoundRefill
<1>3. ~BadSplit(m, i)
  <2>1. ASSUME NEW j \in Idx, NEW k \in 1 .. Len(r[j]) PROVE ~InvalidAddress(r[j][k])
    <3>1. r[j][k] \in Addr
      BY <1>2 DEF Sound
    <3> QED BY <3>1, PMAssumption DEF Addr, InvalidAddress
  <2> QED BY <2>1 DEF BadSplit
<1>4. NewBlock(m, i) = Head(r[i]) /\ Take(m, i) = n
  BY DEF NewBlock, Take
<1> HIDE DEF r
<1>5. Sound(n, h \cup {b}, lo)
  BY <1>2, SoundPop
<1>6. /\ Head(r[i]) \in Addr /\ b \in Listed(r) /\ Listed(n) = Listed(r) \ {b}
  BY <1>2, PopListed DEF Sound
<1>7. b \notin h
  BY <1>2, <1>6 DEF Sound
<1> HIDE DEF b, n
<1>8. ASSUME Even PROVE Aligned(n, h \cup {b})
  <2>1. Aligned(r, h)
    BY <1>1, <1>8, AlignedRefill DEF PageLists, r
  <2> QED BY <2>1, <1>6 DEF Aligned
<1> QED BY <1>3, <1>4, <1>5, <1>6, <1>7, <1>8 DEF PageLists, b

\* pmfree() of a page of the heap.
LEMMA ReturnPage ==
  ASSUME NEW m, NEW h, NEW lo, PageLists(m, h, lo), NEW a, NEW i, Blk(a, i) \in h
  PROVE  /\ ~InvalidAddress(a)
         /\ PageLists(Push(m, i, a), h \ {Blk(a, i)}, lo)
<1>1. PICK b \in h : b = Blk(a, i)
  OBVIOUS
<1>2. Sound(m, h, lo)
  BY DEF PageLists
<1>3. b \in Blocks /\ b.addr = a /\ b.idx = i
  BY <1>1, <1>2 DEF Sound, Blk
<1>4. ~InvalidAddress(a)
  <2>1. a \in Addr
    BY <1>3, BlockType
  <2> QED BY <2>1, PMAssumption DEF Addr, InvalidAddress
<1>5. Sound(Push(m, i, a), h \ {b}, lo)
  <2>1. Sound(Push(m, b.idx, b.addr), h \ {b}, lo)
    BY <1>2, SoundPush
  <2> QED BY <2>1, <1>3
<1>6. ASSUME Even PROVE Aligned(Push(m, i, a), h \ {b})
  <2>1. b \notin Listed(m) /\ NoRepeats(m) /\ m \in [Idx -> Seq(Addr)]
    BY <1>2 DEF Sound
  <2>2. a \in Addr /\ i \in Idx
    BY <1>3, BlockType
  <2>3. Listed(Push(m, i, a)) = Listed(m) \cup {b}
    BY <1>1, <2>1, <2>2, PushListed
  <2>4. Aligned(m, h)
    BY <1>6 DEF PageLists
  <2> QED BY <2>3, <2>4 DEF Aligned
<1> QED BY <1>1, <1>4, <1>5, <1>6 DEF PageLists

-----------------------------------------------------------------------------
(* The calls.                                                              *)

IsHeap(hp) == hp = [m |-> hp.m, h |-> hp.h, s |-> hp.s, out |-> hp.out]

\* lv: the objects handed out.
Good(m, h, s, lv, lo) == PageLists(m, h, lo) /\ Listing(s) /\ HeapSet(Linked(s), h, lv)

GoodHeap(hp, lv, lo) == IsHeap(hp) /\ Good(hp.m, hp.h, hp.s, lv, lo)

Full(s, i) == \A p \in 1 .. Len(s[i]) : s[i][p].bitmap = 0 .. Slots(i) - 1

OOM == "pmalloc: out of memory"

LEMMA GoodUnique ==
  ASSUME NEW m, NEW h, NEW s, NEW lv, NEW lo, Good(m, h, s, lv, lo)
  PROVE  Distinct(Linked(s)) /\ Unique(Linked(s)) /\ s \in [Class -> Seq(SlabRec)]
<1>1. Sound(m, h, lo) /\ Listing(s) /\ Paged(Linked(s), h)
  BY DEF Good, PageLists, HeapSet
<1>2. Distinct(Linked(s))
  BY <1>1, LinkedDistinct
<1> QED BY <1>1, <1>2, SlotUnique DEF Listing

LEMMA SlabAtFacts ==
  ASSUME NEW m, NEW h, NEW s, NEW lv, NEW lo, Good(m, h, s, lv, lo),
         NEW i \in Class, NEW p \in 1 .. Len(s[i])
  PROVE  /\ s[i][p] \in SlabRec
         /\ At(s, i, p) \in Linked(s) /\ At(s, i, p) \in Linkeds
         /\ Cls(At(s, i, p)) = i /\ Base(At(s, i, p)) = s[i][p].address
         /\ Bits(At(s, i, p)) = s[i][p].bitmap /\ Self(At(s, i, p)) = s[i][p].self
         /\ Count(At(s, i, p)) = Slots(i) /\ Width(At(s, i, p)) = ClassSize[i]
         /\ s[i][p].bitmap \subseteq 0 .. Slots(i) - 1
         /\ \A k : SlotOf(At(s, i, p), k) = s[i][p].address + k * ClassSize[i]
         /\ s[i][p].self = 0 <=> p = 1
<1>1. Listing(s) /\ s \in [Class -> Seq(SlabRec)] /\ Paged(Linked(s), h)
  BY DEF Good, HeapSet, Listing
<1>2. At(s, i, p) \in Linked(s) /\ At(s, i, p) \in Linkeds
  BY <1>1, AtLinked
<1>3. /\ Cls(At(s, i, p)) = i /\ Base(At(s, i, p)) = s[i][p].address
      /\ Bits(At(s, i, p)) = s[i][p].bitmap /\ Self(At(s, i, p)) = s[i][p].self
  BY AtFields
<1>4. Count(At(s, i, p)) = Slots(i) /\ Width(At(s, i, p)) = ClassSize[i]
  BY <1>3 DEF Count, Width
<1>5. s[i][p].bitmap \subseteq 0 .. Slots(i) - 1
  BY <1>1, <1>2, <1>3, <1>4 DEF Paged
<1>6. \A k : SlotOf(At(s, i, p), k) = s[i][p].address + k * ClassSize[i]
  BY <1>3, <1>4 DEF SlotOf
<1>7. s[i][p] \in SlabRec /\ (s[i][p].self = 0 <=> p = 1)
  BY <1>1 DEF Listing
<1> QED BY <1>2, <1>3, <1>4, <1>5, <1>6, <1>7

\* What pmalloc() makes of the heap: r has the page a, or has panicked.
Got(hp, r, a, i, lo) ==
  /\ IsHeap(r) /\ r.s = hp.s /\ PageLists(r.m, r.h, lo)
  /\ \/ r.out = OOM /\ r.h = hp.h /\ r.m = hp.m
     \/ /\ r.out = "ok" /\ a \in Addr /\ Blk(a, i) \notin hp.h
        /\ r.h = hp.h \cup {Blk(a, i)}

LEMMA GetPageFacts ==
  ASSUME NEW hp, IsHeap(hp), NEW lo, PageLists(hp.m, hp.h, lo), NEW i \in Idx, hp.out = "ok"
  PROVE  Got(hp, GetPage(hp, i), NewBlock(hp.m, i), i, lo)
<1> DEFINE r == GetPage(hp, i)
           a == NewBlock(hp.m, i)
<1>1. CASE OutOfMemory(hp.m, i)
  <2>1. r = [hp EXCEPT !.out = OOM]
    BY <1>1 DEF GetPage, OOM
  <2>2. r = [m |-> hp.m, h |-> hp.h, s |-> hp.s, out |-> OOM]
    BY <2>1 DEF IsHeap
  <2> HIDE DEF r, a
  <2>3. IsHeap(r) /\ r.s = hp.s /\ r.m = hp.m /\ r.h = hp.h /\ r.out = OOM
    BY <2>2 DEF IsHeap
  <2>4. Got(hp, r, a, i, lo)
    BY <2>3 DEF Got
  <2> QED BY <2>4 DEF r, a
<1>2. CASE ~OutOfMemory(hp.m, i)
  <2>1. /\ ~BadSplit(hp.m, i) /\ a \in Addr /\ Blk(a, i) \notin hp.h
        /\ PageLists(Take(hp.m, i), hp.h \cup {Blk(a, i)}, lo)
    BY <1>2, TakePage
  <2>2. r = [hp EXCEPT !.m = Take(hp.m, i), !.h = hp.h \cup {Blk(a, i)}]
    BY <1>2, <2>1 DEF GetPage, Blk
  <2>3. r = [m |-> Take(hp.m, i), h |-> hp.h \cup {Blk(a, i)}, s |-> hp.s, out |-> "ok"]
    BY <2>2 DEF IsHeap
  <2> HIDE DEF r, a
  <2>4. Got(hp, r, a, i, lo)
    BY <2>1, <2>3 DEF IsHeap, Got
  <2> QED BY <2>4 DEF r, a
<1> QED BY <1>1, <1>2

\* What kmalloc() of class i makes of the heap: r, with a handed out, or a panic
\* that may leave a SLAB structure taken; a list grows only if it was full.
Served(hp, r, a, i, lv, lo) ==
  /\ r.out \in {"ok", OOM}
  /\ r.out = "ok" => GoodHeap(r, lv \cup {Obj(a, i)}, lo) /\ Obj(a, i) \in Objects \ lv
  /\ r.out # "ok" => \E lw \in SUBSET Objects : lv \subseteq lw /\ GoodHeap(r, lw, lo)
  /\ \A j \in Class : Len(r.s[j]) > Len(hp.s[j]) => Full(hp.s, j)
  /\ \A j \in Class : hp.s[j] # <<>> => r.s[j] # <<>>

\* find_free_slab() found a slot: it is marked and handed out.
LEMMA MarkGood ==
  ASSUME NEW hp, NEW lv, NEW lo, GoodHeap(hp, lv, lo), hp.out = "ok", NEW i \in Class, Roomy(hp.s, i) # {},
         NEW r, r = [hp EXCEPT !.s = MarkFound(hp.s, i)]
  PROVE  Served(hp, r, FoundAddr(hp.s, i), i, lv, lo)
<1>0. PICK a : a = FoundAddr(hp.s, i)
  OBVIOUS
<1>1. PICK s : s = hp.s
  OBVIOUS
<1>2. Good(hp.m, hp.h, s, lv, lo) /\ IsHeap(hp)
  BY <1>1 DEF GoodHeap
<1>3. PICK p : p = FoundPos(s, i)
  OBVIOUS
<1>4. p \in 1 .. Len(s[i]) /\ FreeSlots(s, i, p) # {}
  <2>1. Roomy(s, i) \in SUBSET Nat /\ Roomy(s, i) # {}
    BY <1>1, <1>2, GoodUnique DEF Roomy
  <2>2. p \in Roomy(s, i)
    BY <2>1, <1>3, FirstIn DEF FoundPos
  <2> QED BY <2>2 DEF Roomy
<1>5. PICK k : k = FoundSlot(s, i)
  OBVIOUS
<1>6. k \in (0 .. Slots(i) - 1) \ s[i][p].bitmap
  <2>1. FreeSlots(s, i, p) \in SUBSET Nat
    BY ClassFacts DEF FreeSlots
  <2>2. k \in FreeSlots(s, i, p)
    BY <1>3, <1>4, <1>5, <2>1, FirstIn DEF FoundSlot
  <2> QED BY <2>2 DEF FreeSlots
<1>7. PICK x : x = At(s, i, p)
  OBVIOUS
<1>8. /\ x \in Linked(s) /\ x \in Linkeds /\ Cls(x) = i /\ Bits(x) = s[i][p].bitmap
      /\ Count(x) = Slots(i) /\ SlotOf(x, k) = s[i][p].address + k * ClassSize[i]
      /\ s[i][p].bitmap \subseteq 0 .. Slots(i) - 1
  BY <1>2, <1>4, <1>7, SlabAtFacts
<1>9. PICK t : t = MarkFound(s, i)
  OBVIOUS
<1>10. PICK B : B = s[i][p].bitmap \cup {k}
  OBVIOUS
<1>11. t = Marked(s, i, p, B)
  BY <1>3, <1>5, <1>9, <1>10 DEF MarkFound, Marked
<1>12. B \in SUBSET (0 .. 63)
  BY <1>6, <1>8, <1>10, ClassFacts
<1>13. /\ Listing(t)
       /\ Linked(t) = (Linked(s) \ {x}) \cup {At(t, i, p)}
       /\ At(t, i, p) \in Linkeds /\ Alike(x, At(t, i, p))
       /\ Bits(At(t, i, p)) = B
       /\ \A j \in Class : Len(t[j]) = Len(s[j])
  <2>1. Listing(s)
    BY <1>2 DEF Good
  <2>2. /\ Listing(t)
        /\ Linked(t) = (Linked(s) \ {At(s, i, p)}) \cup {At(t, i, p)}
        /\ At(t, i, p) \in Linkeds /\ Alike(At(s, i, p), At(t, i, p))
        /\ Bits(At(t, i, p)) = B
        /\ \A j \in Class : Len(t[j]) = Len(s[j])
    BY <2>1, <1>4, <1>11, <1>12, ListMark
  <2> QED BY <2>2, <1>7
<1>14. a = SlotOf(x, k)
  BY <1>0, <1>1, <1>3, <1>5, <1>8 DEF FoundAddr
<1>15. PICK y : y = At(t, i, p)
  OBVIOUS
<1>16. k \in (0 .. Count(x) - 1) \ Bits(x) /\ Bits(y) = Bits(x) \cup {k} /\ Alike(x, y) /\ y \in Linkeds
  BY <1>6, <1>8, <1>10, <1>13, <1>15
<1>17. Unique(Linked(s)) /\ HeapSet(Linked(s), hp.h, lv)
  BY <1>2, GoodUnique DEF Good
<1>18. /\ HeapSet((Linked(s) \ {x}) \cup {y}, hp.h, lv \cup {Obj(SlotOf(x, k), Cls(x))})
       /\ Obj(SlotOf(x, k), Cls(x)) \in Objects \ lv
  BY <1>8, <1>16, <1>17, OpMark
<1>19. HeapSet(Linked(t), hp.h, lv \cup {Obj(a, i)}) /\ Obj(a, i) \in Objects \ lv
  BY <1>8, <1>13, <1>14, <1>15, <1>18
<1>20. r = [m |-> hp.m, h |-> hp.h, s |-> t, out |-> hp.out]
  BY <1>1, <1>2, <1>9 DEF IsHeap
<1>21. IsHeap(r) /\ r.m = hp.m /\ r.h = hp.h /\ r.s = t /\ r.out = hp.out
  <2>1. r.m = hp.m /\ r.h = hp.h /\ r.s = t /\ r.out = hp.out
    BY <1>20
  <2> QED BY <1>20, <2>1 DEF IsHeap
<1>22. GoodHeap(r, lv \cup {Obj(a, i)}, lo)
  BY <1>2, <1>13, <1>19, <1>21 DEF GoodHeap, Good
<1>23. s \in [Class -> Seq(SlabRec)] /\ t \in [Class -> Seq(SlabRec)]
  BY <1>2, <1>13 DEF Good, Listing
<1>24. \A j \in Class : /\ ~ (Len(r.s[j]) > Len(hp.s[j]))
                        /\ hp.s[j] # <<>> => r.s[j] # <<>>
  BY <1>1, <1>13, <1>21, <1>23
<1> QED BY <1>0, <1>19, <1>21, <1>22, <1>24 DEF Served

\* The lists t, after the slab b of class i, as y, has been linked.
Added(s, t, y, i, b) ==
  /\ Listing(t) /\ Linked(t) = Linked(s) \cup {y} /\ Unique(Linked(s) \cup {y})
  /\ y \in Linkeds /\ Page(y) = Blk(b.address, PageIdx(i)) /\ Cls(y) = i
  /\ Base(y) = b.address /\ Bits(y) = b.bitmap /\ Self(y) = b.self
  /\ Width(y) = ClassSize[i]
  /\ \A j \in Class : j # i => t[j] = s[j]
  /\ t[i] # <<>>

\* A slab on a page that nobody held.
LEMMA AddGood ==
  ASSUME NEW m, NEW h, NEW s, NEW lv, NEW lo, Listing(s), HeapSet(Linked(s), h, lv),
         NEW i \in Class, NEW b \in SlabRec, Blk(b.address, PageIdx(i)) \notin h,
         PageLists(m, h \cup {Blk(b.address, PageIdx(i))}, lo),
         b.self = 0 <=> s[i] = <<>>, b.bitmap \subseteq 0 .. Slots(i) - 1
  PROVE  Added(s, Appended(s, i, b), <<i, b>>, i, b)
<1>0a. PICK g : g = h \cup {Blk(b.address, PageIdx(i))}
  OBVIOUS
<1>0b. PICK t : t = Appended(s, i, b)
  OBVIOUS
<1>0. PICK y : y = <<i, b>>
  OBVIOUS
<1>1. Cls(y) = i /\ Base(y) = b.address /\ Bits(y) = b.bitmap /\ Self(y) = b.self
  BY <1>0 DEF Cls, Base, Bits, Self
<1>2. Page(y) = Blk(b.address, PageIdx(i)) /\ Count(y) = Slots(i) /\ Width(y) = ClassSize[i]
  BY <1>1 DEF Page, Count, Width
<1>3. Paged(Linked(s), h)
  BY DEF HeapSet
<1>4. \A x \in Linked(s) : Base(x) # b.address
  <2> SUFFICES ASSUME NEW x \in Linked(s), Base(x) = b.address PROVE FALSE
    OBVIOUS
  <2>1. x \in Linkeds /\ Page(x) \in h
    BY <1>3 DEF Paged
  <2>2. Page(x) \in Blocks /\ Page(x).addr = Base(x) /\ Page(x).idx = PageIdx(Cls(x))
        /\ Size[PageIdx(Cls(x))] \in Nat \ {0} /\ Base(x) \in Nat
    BY <2>1, SlabFacts
  <2>3. PICK c : c = Blk(b.address, PageIdx(i))
    OBVIOUS
  <2>4. c \in g /\ Page(x) \in g /\ Page(x) # c /\ c.addr = b.address /\ c.idx = PageIdx(i)
    BY <2>1, <2>3, <1>0a DEF Blk
  <2>5. BlocksApart(Page(x), c)
    BY <2>4, <1>0a DEF PageLists, Sound, Tiles
  <2>6. Size[PageIdx(i)] \in Nat \ {0}
    BY ClassFacts
  <2> QED BY <2>2, <2>4, <2>5, <2>6 DEF BlocksApart, Apart
<1>5. /\ Listing(t) /\ Linked(t) = Linked(s) \cup {<<i, b>>} /\ <<i, b>> \in Linkeds
      /\ \A j \in Class : j # i => t[j] = s[j]
      /\ t[i] # <<>>
  BY <1>4, <1>0b, ListAppend
<1>6. Paged(Linked(s) \cup {y}, g)
  <2>1. Paged(Linked(s) \cup {y}, h \cup {Page(y)})
    BY <1>0, <1>1, <1>2, <1>3, <1>5, AddPaged
  <2> QED BY <2>1, <1>0a, <1>2
<1>7. Distinct(Linked(s) \cup {y})
  BY <1>0, <1>5, LinkedDistinct
<1>8. Unique(Linked(s) \cup {y})
  BY <1>0a, <1>6, <1>7, SlotUnique DEF PageLists
<1>9. Added(s, t, y, i, b)
  BY <1>0, <1>1, <1>2, <1>5, <1>8 DEF Added
<1> QED BY <1>0, <1>0b, <1>9

LEMMA AddSlabIs ==
  ASSUME NEW hp, IsHeap(hp), hp.s \in [Class -> Seq(SlabRec)], NEW i \in Class, NEW b,
         NEW r, r = AddSlab(hp, i, b)
  PROVE  /\ IsHeap(r) /\ r.m = hp.m /\ r.h = hp.h /\ r.out = hp.out
         /\ r.s = Appended(hp.s, i, b)
<1>1. PICK t : t = Appended(hp.s, i, b)
  OBVIOUS
<1>2. r = [hp EXCEPT !.s = t]
  BY <1>1 DEF AddSlab, Appended, IsHeap
<1>3. r = [m |-> hp.m, h |-> hp.h, s |-> t, out |-> hp.out]
  BY <1>2 DEF IsHeap
<1>4. r.m = hp.m /\ r.h = hp.h /\ r.s = t /\ r.out = hp.out
  BY <1>3
<1> QED BY <1>1, <1>3, <1>4 DEF IsHeap

LEMMA RoomlessFull ==
  ASSUME NEW m, NEW h, NEW s, NEW lv, NEW lo, Good(m, h, s, lv, lo), NEW i \in Class,
         Roomy(s, i) = {}
  PROVE  Full(s, i)
<1> SUFFICES ASSUME NEW p \in 1 .. Len(s[i]) PROVE s[i][p].bitmap = 0 .. Slots(i) - 1
  BY DEF Full
<1>1. s[i][p].bitmap \subseteq 0 .. Slots(i) - 1
  BY SlabAtFacts
<1>2. FreeSlots(s, i, p) = {}
  BY DEF Roomy
<1> QED BY <1>1, <1>2 DEF FreeSlots

\* kmalloc() of at most 64 bytes with every slab full.
LEMMA NewPage64Good ==
  ASSUME NEW hp, NEW lv, NEW lo, GoodHeap(hp, lv, lo), hp.out = "ok", hp.s[0] # <<>>,
         Roomy(hp.s, 0) = {}
  PROVE  Served(hp, NewPage64(hp), NewBlock(hp.m, 0) + SLAB_MIN_SIZE, 0, lv, lo)
<1>0a. PICK r : r = NewPage64(hp)
  OBVIOUS
<1>0. PICK a : a = NewBlock(hp.m, 0) + SLAB_MIN_SIZE
  OBVIOUS
<1>1. PICK q : q = GetPage(hp, 0)
  OBVIOUS
<1>2. PICK c : c = NewBlock(hp.m, 0)
  OBVIOUS
<1>3. /\ IsHeap(hp) /\ PageLists(hp.m, hp.h, lo) /\ Listing(hp.s)
      /\ HeapSet(Linked(hp.s), hp.h, lv)
  BY DEF GoodHeap, Good
<1>4. /\ 0 \in Class /\ PageIdx(0) = 0 /\ ClassSize[0] = SLAB_MIN_SIZE /\ 0 \in Idx
      /\ {0, 1} \subseteq 0 .. Slots(0) - 1
  <2>1. 0 \in Class /\ PageIdx(0) = 0 /\ ClassSize[0] = SLAB_MIN_SIZE /\ 1 < Slots(0)
    BY ClassZero
  <2>2. PICK z \in Class : z = 0
    BY <2>1
  <2>3. 0 \in Idx
    BY DEF Idx
  <2>4. Slots(z) \in 1 .. 64 /\ 1 < Slots(z)
    BY <2>1, <2>2, ClassFacts
  <2>5. PICK n \in 1 .. 64 : n = Slots(z) /\ 1 < n
    BY <2>4
  <2>6. {0, 1} \subseteq 0 .. n - 1
    BY <2>5
  <2> QED BY <2>1, <2>2, <2>3, <2>5, <2>6
<1>5. /\ IsHeap(q) /\ q.s = hp.s /\ PageLists(q.m, q.h, lo)
      /\ \/ q.out = OOM /\ q.h = hp.h /\ q.m = hp.m
         \/ /\ q.out = "ok" /\ c \in Addr /\ Blk(c, 0) \notin hp.h
            /\ q.h = hp.h \cup {Blk(c, 0)}
  <2>1. Got(hp, q, c, 0, lo)
    BY <1>1, <1>2, <1>3, <1>4, GetPageFacts
  <2> QED BY <2>1 DEF Got
<1>6. CASE q.out # "ok"
  <2>1. r = q
    BY <1>0a, <1>1, <1>6 DEF NewPage64
  <2>2. q.out = OOM /\ q.h = hp.h /\ q.m = hp.m
    BY <1>5, <1>6
  <2>3. GoodHeap(r, lv, lo) /\ r.s = hp.s
    BY <2>1, <2>2, <1>3, <1>5 DEF GoodHeap, Good
  <2>4. lv \in SUBSET Objects
    BY <1>3 DEF HeapSet, Accounted
  <2>5. hp.s \in [Class -> Seq(SlabRec)]
    BY <1>3 DEF Listing
  <2>6. \A j \in Class : ~ (Len(r.s[j]) > Len(hp.s[j]))
    BY <2>3, <2>5
  <2>7. Served(hp, r, a, 0, lv, lo)
    BY <2>1, <2>2, <2>3, <2>4, <2>6, <1>6 DEF Served
  <2> QED BY <2>7, <1>0, <1>0a
<1>7. CASE q.out = "ok"
  <2>1. c \in Addr /\ Blk(c, 0) \notin hp.h /\ q.h = hp.h \cup {Blk(c, 0)}
    BY <1>5, <1>7 DEF OOM
  <2>2. PICK b : b = [address |-> c, bitmap |-> {0, 1}, self |-> c]
    OBVIOUS
  <2>3. b \in SlabRec /\ b.address = c /\ b.bitmap = {0, 1} /\ b.self = c /\ c # 0
    BY <2>1, <2>2, AddrType DEF SlabRec
  <2>4. r = AddSlab(q, 0, b)
    BY <1>0a, <1>1, <1>2, <1>7, <2>2 DEF NewPage64
  <2>5. hp.s \in [Class -> Seq(SlabRec)]
    BY <1>3 DEF Listing
  <2>6. /\ IsHeap(r) /\ r.m = q.m /\ r.h = q.h /\ r.out = q.out
        /\ r.s = Appended(hp.s, 0, b)
    BY <1>4, <1>5, <2>4, <2>5, AddSlabIs
  <2>7. PICK y : y = <<0, b>>
    OBVIOUS
  <2>8. /\ Listing(r.s) /\ Linked(r.s) = Linked(hp.s) \cup {y} /\ Unique(Linked(hp.s) \cup {y})
        /\ y \in Linkeds /\ Page(y) = Blk(c, 0) /\ Cls(y) = 0
        /\ Base(y) = c /\ Bits(y) = {0, 1} /\ Self(y) = c /\ Width(y) = ClassSize[0]
        /\ \A j \in Class : j # 0 => r.s[j] = hp.s[j]
        /\ r.s[0] # <<>>
    <3>1. /\ Blk(b.address, PageIdx(0)) \notin hp.h
          /\ PageLists(q.m, hp.h \cup {Blk(b.address, PageIdx(0))}, lo)
          /\ (b.self = 0 <=> hp.s[0] = <<>>) /\ b.bitmap \subseteq 0 .. Slots(0) - 1
      BY <1>4, <1>5, <2>1, <2>3
    <3>2. Added(hp.s, Appended(hp.s, 0, b), <<0, b>>, 0, b)
      BY <3>1, <1>3, <1>4, <2>3, AddGood
    <3>3. Added(hp.s, r.s, y, 0, b)
      BY <3>2, <2>6, <2>7
    <3> QED BY <3>3, <1>4, <2>3 DEF Added
  <2>9. /\ HeapSet(Linked(hp.s) \cup {y}, hp.h \cup {Page(y)}, lv \cup {Obj(SlotOf(y, 1), 0)})
        /\ Obj(SlotOf(y, 1), 0) \in Objects \ lv
    BY <1>3, <2>1, <2>8, OpPage64
  <2>10. SlotOf(y, 1) = a
    <3>1. SlotOf(y, 1) = c + 1 * SLAB_MIN_SIZE
      BY <1>4, <2>8 DEF SlotOf
    <3> QED BY <3>1, <1>0, <1>2, SlabAssumption
  <2>11. HeapSet(Linked(r.s), r.h, lv \cup {Obj(a, 0)}) /\ Obj(a, 0) \in Objects \ lv
    BY <2>1, <2>6, <2>8, <2>9, <2>10
  <2>12. GoodHeap(r, lv \cup {Obj(a, 0)}, lo)
    BY <1>5, <2>6, <2>8, <2>11 DEF GoodHeap, Good
  <2>13. Full(hp.s, 0)
    BY <1>4, RoomlessFull DEF GoodHeap
  <2>14. ASSUME NEW j \in Class, Len(r.s[j]) > Len(hp.s[j]) PROVE Full(hp.s, j)
    <3>1. CASE j = 0
      BY <3>1, <2>13
    <3>2. CASE j # 0
      <4>1. Len(r.s[j]) = Len(hp.s[j]) /\ Len(hp.s[j]) \in Nat
        BY <3>2, <2>5, <2>8
      <4> QED BY <4>1, <2>14
    <3> QED BY <3>1, <3>2
  <2>15. Served(hp, r, a, 0, lv, lo)
    BY <1>7, <2>6, <2>8, <2>11, <2>12, <2>14 DEF Served
  <2> QED BY <2>15, <1>0, <1>0a
<1> QED BY <1>6, <1>7

\* kmalloc() of at most 64 bytes.
LEMMA Malloc64Good ==
  ASSUME NEW hp, NEW lv, NEW lo, GoodHeap(hp, lv, lo), hp.out = "ok", hp.s[0] # <<>>
  PROVE  Served(hp, Malloc64(hp), Malloc64Addr(hp), 0, lv, lo)
<1>1. CASE Roomy(hp.s, 0) # {}
  <2>1. PICK r : r = [hp EXCEPT !.s = MarkFound(hp.s, 0)]
    OBVIOUS
  <2>2. Malloc64(hp) = r /\ Malloc64Addr(hp) = FoundAddr(hp.s, 0)
    BY <1>1, <2>1 DEF Malloc64, Malloc64Addr
  <2>3. 0 \in Class
    BY ClassZero
  <2>4. Served(hp, r, FoundAddr(hp.s, 0), 0, lv, lo)
    BY <1>1, <2>1, <2>3, MarkGood
  <2> QED BY <2>2, <2>4
<1>2. CASE Roomy(hp.s, 0) = {}
  <2>1. Malloc64(hp) = NewPage64(hp) /\ Malloc64Addr(hp) = NewBlock(hp.m, 0) + SLAB_MIN_SIZE
    BY <1>2 DEF Malloc64, Malloc64Addr
  <2>2. Served(hp, NewPage64(hp), NewBlock(hp.m, 0) + SLAB_MIN_SIZE, 0, lv, lo)
    BY <1>2, NewPage64Good
  <2> QED BY <2>1, <2>2
<1> QED BY <1>1, <1>2

\* kmalloc() of a larger class with every slab full: SLAB structure, then page.
LEMMA NewSlabGood ==
  ASSUME NEW hp, NEW lv, NEW lo, GoodHeap(hp, lv, lo), hp.out = "ok", hp.s[0] # <<>>,
         NEW i \in Class, i # 0, hp.s[i] # <<>>, Roomy(hp.s, i) = {}
  PROVE  Served(hp, NewSlab(hp, i), NewBlock(Malloc64(hp).m, PageIdx(i)), i, lv, lo)
<1>1. PICK d : d = Malloc64(hp)
  OBVIOUS
<1>2. PICK a : a = Malloc64Addr(hp)
  OBVIOUS
<1>3. PICK q : q = GetPage(d, PageIdx(i))
  OBVIOUS
<1>4. PICK c : c = NewBlock(d.m, PageIdx(i))
  OBVIOUS
<1>5. PICK r : r = NewSlab(hp, i)
  OBVIOUS
<1>6. Served(hp, d, a, 0, lv, lo)
  BY <1>1, <1>2, Malloc64Good
<1>7. CASE d.out # "ok"
  <2>1. r = d
    BY <1>1, <1>5, <1>7 DEF NewSlab
  <2>2. Served(hp, d, c, i, lv, lo)
    BY <1>6, <1>7 DEF Served
  <2> QED BY <1>1, <1>4, <1>5, <2>1, <2>2
<1>8. CASE d.out = "ok"
  <2> DEFINE lw == lv \cup {Obj(a, 0)}
  <2>1. /\ GoodHeap(d, lw, lo) /\ Obj(a, 0) \in Objects \ lv
        /\ \A j \in Class : Len(d.s[j]) > Len(hp.s[j]) => Full(hp.s, j)
        /\ \A j \in Class : hp.s[j] # <<>> => d.s[j] # <<>>
    BY <1>6, <1>8 DEF Served
  <2> HIDE DEF lw
  <2>2. /\ IsHeap(d) /\ PageLists(d.m, d.h, lo) /\ Listing(d.s)
        /\ HeapSet(Linked(d.s), d.h, lw)
    BY <2>1 DEF GoodHeap, Good
  <2>3. PageIdx(i) \in Idx
    BY ClassFacts
  <2>4. Got(d, q, c, PageIdx(i), lo)
    BY <1>3, <1>4, <1>8, <2>2, <2>3, GetPageFacts
  <2>5. lw \in SUBSET Objects /\ lv \subseteq lw
    BY <2>2 DEF HeapSet, Accounted, lw
  <2>6. hp.s \in [Class -> Seq(SlabRec)] /\ d.s \in [Class -> Seq(SlabRec)]
    BY <2>2 DEF GoodHeap, Good, Listing
  <2>7. CASE q.out # "ok"
    <3>1. r = q
      BY <1>1, <1>3, <1>5, <1>8, <2>7 DEF NewSlab
    <3>2. q.out = OOM /\ q.h = d.h /\ q.m = d.m /\ q.s = d.s /\ IsHeap(q)
      BY <2>4, <2>7 DEF Got
    <3>3. GoodHeap(q, lw, lo)
      BY <3>2, <2>2 DEF GoodHeap, Good
    <3>4. Served(hp, q, c, i, lv, lo)
      BY <3>2, <3>3, <2>1, <2>5, <2>7 DEF Served
    <3> QED BY <1>1, <1>4, <1>5, <3>1, <3>4
  <2>8. CASE q.out = "ok"
    <3>1. /\ IsHeap(q) /\ q.s = d.s /\ PageLists(q.m, q.h, lo) /\ c \in Addr
          /\ Blk(c, PageIdx(i)) \notin d.h /\ q.h = d.h \cup {Blk(c, PageIdx(i))}
      BY <2>4, <2>8 DEF Got, OOM
    <3>2. PICK b : b = [address |-> c, bitmap |-> {0}, self |-> a]
      OBVIOUS
    <3>3. a \in Addr /\ a # 0
      BY <2>1, AddrType DEF Objects, Obj
    <3>4. b \in SlabRec /\ b.address = c /\ b.bitmap = {0} /\ b.self = a
      BY <3>1, <3>2, <3>3 DEF SlabRec
    <3>5. r = AddSlab(q, i, b)
      BY <1>1, <1>2, <1>3, <1>4, <1>5, <1>8, <2>8, <3>2 DEF NewSlab
    <3>6. /\ IsHeap(r) /\ r.m = q.m /\ r.h = q.h /\ r.out = q.out
          /\ r.s = Appended(d.s, i, b)
      BY <2>6, <3>1, <3>5, AddSlabIs
    <3>7. PICK y : y = <<i, b>>
      OBVIOUS
    <3>8. Added(d.s, r.s, y, i, b)
      <4>1. d.s[i] # <<>>
        BY <2>1
      <4>2. b.bitmap \subseteq 0 .. Slots(i) - 1
        <5>1. PICK n \in 1 .. 64 : n = Slots(i)
          BY ClassFacts
        <5>2. {0} \subseteq 0 .. n - 1
          OBVIOUS
        <5> QED BY <5>1, <5>2, <3>4
      <4>3. /\ Blk(b.address, PageIdx(i)) \notin d.h
            /\ PageLists(q.m, d.h \cup {Blk(b.address, PageIdx(i))}, lo)
            /\ (b.self = 0 <=> d.s[i] = <<>>)
        BY <3>1, <3>3, <3>4, <4>1
      <4>4. Added(d.s, Appended(d.s, i, b), <<i, b>>, i, b)
        BY <4>2, <4>3, <2>2, <3>4, AddGood
      <4> QED BY <4>4, <3>6, <3>7
    <3>9. /\ Listing(r.s) /\ Linked(r.s) = Linked(d.s) \cup {y} /\ Unique(Linked(d.s) \cup {y})
          /\ y \in Linkeds /\ Page(y) = Blk(c, PageIdx(i)) /\ Cls(y) = i
          /\ Base(y) = c /\ Bits(y) = {0} /\ Self(y) = a
          /\ \A j \in Class : j # i => r.s[j] = d.s[j]
          /\ r.s[i] # <<>>
      BY <3>4, <3>8 DEF Added
    <3>10. /\ HeapSet(Linked(d.s) \cup {y}, d.h \cup {Page(y)},
                      (lw \ {Obj(Self(y), 0)}) \cup {Obj(Base(y), Cls(y))})
           /\ Obj(Base(y), Cls(y)) \in Objects \ lw
      <4>1. Obj(Self(y), 0) \in lw
        BY <3>9 DEF lw
      <4>2. Page(y) \notin d.h
        BY <3>1, <3>9
      <4> QED BY <4>1, <4>2, <2>2, <3>9, OpSlab
    <3>11. lw \ {Obj(a, 0)} = lv
      BY <2>1 DEF lw
    <3>12. HeapSet(Linked(r.s), r.h, lv \cup {Obj(c, i)}) /\ Obj(c, i) \in Objects \ lv
      BY <3>1, <3>6, <3>9, <3>10, <3>11, <2>5
    <3>13. GoodHeap(r, lv \cup {Obj(c, i)}, lo)
      BY <3>1, <3>6, <3>9, <3>12 DEF GoodHeap, Good
    <3>14. ASSUME NEW j \in Class, Len(r.s[j]) > Len(hp.s[j]) PROVE Full(hp.s, j)
      <4>1. CASE j = i
        BY <4>1, RoomlessFull DEF GoodHeap
      <4>2. CASE j # i
        BY <4>2, <3>14, <3>9, <2>1
      <4> QED BY <4>1, <4>2
    <3>15. \A j \in Class : hp.s[j] # <<>> => r.s[j] # <<>>
      BY <2>1, <3>9
    <3>16. Served(hp, r, c, i, lv, lo)
      BY <2>8, <3>6, <3>12, <3>13, <3>14, <3>15 DEF Served
    <3> QED BY <1>1, <1>4, <1>5, <3>16
  <2> QED BY <2>7, <2>8
<1> QED BY <1>7, <1>8

\* kmalloc(), whatever the class.
LEMMA MallocGood ==
  ASSUME NEW hp, NEW lv, NEW lo, GoodHeap(hp, lv, lo), hp.out = "ok", NEW i \in Class,
         \A j \in Class : hp.s[j] # <<>>
  PROVE  Served(hp, Malloc(hp, i), MallocAddr(hp, i), i, lv, lo)
<1>1. hp.s[0] # <<>> /\ hp.s[i] # <<>>
  BY ClassZero
<1>2. CASE i = 0
  <2>1. Malloc(hp, i) = Malloc64(hp) /\ MallocAddr(hp, i) = Malloc64Addr(hp)
    BY <1>2 DEF Malloc, MallocAddr
  <2>2. Served(hp, Malloc64(hp), Malloc64Addr(hp), 0, lv, lo)
    BY <1>1, Malloc64Good
  <2> QED BY <1>2, <2>1, <2>2
<1>3. CASE i # 0 /\ Roomy(hp.s, i) # {}
  <2>1. PICK r : r = [hp EXCEPT !.s = MarkFound(hp.s, i)]
    OBVIOUS
  <2>2. Malloc(hp, i) = r /\ MallocAddr(hp, i) = FoundAddr(hp.s, i)
    BY <1>3, <2>1 DEF Malloc, MallocAddr
  <2>3. Served(hp, r, FoundAddr(hp.s, i), i, lv, lo)
    BY <1>3, <2>1, MarkGood
  <2> QED BY <2>2, <2>3
<1>4. CASE i # 0 /\ Roomy(hp.s, i) = {}
  <2>1. Malloc(hp, i) = NewSlab(hp, i) /\ MallocAddr(hp, i) = NewBlock(Malloc64(hp).m, PageIdx(i))
    BY <1>4 DEF Malloc, MallocAddr
  <2>2. Served(hp, NewSlab(hp, i), NewBlock(Malloc64(hp).m, PageIdx(i)), i, lv, lo)
    BY <1>1, <1>4, NewSlabGood
  <2> QED BY <2>1, <2>2
<1> QED BY <1>2, <1>3, <1>4

-----------------------------------------------------------------------------
(* kmfree().                                                               *)

\* The slab and the slot of a live object, which is what the search finds.
LEMMA HitIs ==
  ASSUME NEW m, NEW h, NEW s, NEW lv, NEW lo, Good(m, h, s, lv, lo), NEW o \in lv
  PROVE  \E i \in Class : \E p \in 1 .. Len(s[i]) : \E k \in s[i][p].bitmap :
           /\ Hits(s, o.addr) # {} /\ FirstHit(s, o.addr) = <<i, p>>
           /\ o = Obj(SlotOf(At(s, i, p), k), i) /\ o.addr = SlotOf(At(s, i, p), k)
           /\ k \in 0 .. Slots(i) - 1
<1>1. Sound(m, h, lo) /\ Listing(s) /\ HeapSet(Linked(s), h, lv) /\ Paged(Linked(s), h)
  BY DEF Good, PageLists, HeapSet
<1>2. PICK x \in Linked(s) :
         /\ Cls(x) = o.idx
         /\ \E k \in Bits(x) : SlotOf(x, k) = o.addr /\ k \in 0 .. Count(x) - 1
  BY <1>1, ObjectSlot
<1>3. PICK k \in Bits(x) : SlotOf(x, k) = o.addr /\ k \in 0 .. Count(x) - 1
  BY <1>2
<1>4a. PICK i \in Class : \E p \in 1 .. Len(s[i]) : x = At(s, i, p)
  BY LinkedAt
<1>4. PICK p \in 1 .. Len(s[i]) : x = At(s, i, p)
  BY <1>4a
<1>5. /\ x \in Linkeds /\ Cls(x) = i /\ Base(x) = s[i][p].address /\ Bits(x) = s[i][p].bitmap
      /\ Count(x) = Slots(i)
  BY <1>4, SlabAtFacts
<1>6. o = Obj(SlotOf(x, k), i)
  <2>1. o \in Objects
    BY <1>1 DEF HeapSet, Accounted
  <2> QED BY <2>1, <1>2, <1>3, <1>5 DEF Objects, Obj
<1>7. /\ Base(x) \in Nat /\ Width(x) \in Nat \ {0} /\ Size[PageIdx(i)] \in Nat \ {0}
      /\ o.addr \in Nat /\ Base(x) <= o.addr
      /\ o.addr + Width(x) <= Base(x) + Size[PageIdx(i)]
  BY <1>3, <1>5, SlotInPage, SlabFacts
<1>8. InBlock(o.addr, s[i][p].address, Size[PageIdx(i)])
  BY <1>5, <1>7 DEF InBlock
<1>9. ASSUME NEW j \in Class, NEW q \in 1 .. Len(s[j]),
             InBlock(o.addr, s[j][q].address, Size[PageIdx(j)])
      PROVE  j = i /\ q = p
  <2>1. PICK y : y = At(s, j, q)
    OBVIOUS
  <2>2. y \in Linked(s) /\ y \in Linkeds /\ Cls(y) = j /\ Base(y) = s[j][q].address
    BY <2>1, SlabAtFacts
  <2>3. Base(y) \in Nat /\ Size[PageIdx(j)] \in Nat \ {0}
    BY <2>2, SlabFacts
  <2>4. Page(x) \in h /\ Page(y) \in h
    BY <1>1, <2>2 DEF Paged
  <2>5. /\ Page(x).addr = Base(x) /\ Page(x).idx = PageIdx(i)
        /\ Page(y).addr = Base(y) /\ Page(y).idx = PageIdx(j)
    BY <1>5, <2>2, SlabFacts
  <2>6. CASE Page(x) = Page(y)
    <3>1. s[i][p].address = s[j][q].address
      BY <2>6, <2>5, <2>2, <1>5
    <3> QED BY <3>1, <1>1 DEF Listing
  <2>7. CASE Page(x) # Page(y)
    <3>1. BlocksApart(Page(x), Page(y))
      BY <1>1, <2>4, <2>7 DEF Sound, Tiles
    <3>2. Apart(Base(x), Size[PageIdx(i)], Base(y), Size[PageIdx(j)])
      BY <3>1, <2>5 DEF BlocksApart
    <3> QED BY <3>2, <1>7, <1>9, <2>2, <2>3, SMTT(40) DEF Apart, InBlock
  <2> QED BY <2>6, <2>7
<1>10. Hits(s, o.addr) = {<<i, p>>}
  <2>1. <<i, p>> \in Hits(s, o.addr)
    BY <1>8 DEF Hits
  <2>2. ASSUME NEW e \in Hits(s, o.addr) PROVE e = <<i, p>>
    <3>1. PICK j \in Class : e \in {j} \X (1 .. Len(s[j]))
      BY DEF Hits
    <3>2. e = <<j, e[2]>> /\ e[2] \in 1 .. Len(s[j]) /\ e[1] = j
      BY <3>1
    <3>3. InBlock(o.addr, s[e[1]][e[2]].address, Size[PageIdx(e[1])])
      BY DEF Hits
    <3> QED BY <1>9, <3>2, <3>3
  <2> QED BY <2>1, <2>2
<1>11. FirstHit(s, o.addr) = <<i, p>>
  <2>1. p \in Int /\ i \in Int
    BY ClassFacts
  <2>2. \A f \in Hits(s, o.addr) : <<i, p>>[1] < f[1] \/ (<<i, p>>[1] = f[1] /\ <<i, p>>[2] <= f[2])
    BY <1>10, <2>1
  <2>3. FirstHit(s, o.addr) \in Hits(s, o.addr)
    BY <1>10, <2>2 DEF FirstHit
  <2> QED BY <2>3, <1>10
<1> QED BY <1>3, <1>4, <1>5, <1>6, <1>10, <1>11

\* The alignment check passes where memory ends on a 512 KiB boundary.
LEMMA SlotAligned ==
  ASSUME NEW m, NEW h, NEW s, NEW lv, NEW lo, Good(m, h, s, lv, lo), Even,
         NEW x \in Linked(s), NEW k \in 0 .. Count(x) - 1
  PROVE  (SlotOf(x, k) % Width(x)) = 0
<1>1. Aligned(m, h) /\ Paged(Linked(s), h)
  BY DEF Good, PageLists, HeapSet
<1>2. x \in Linkeds /\ Page(x) \in h
  BY <1>1 DEF Paged
<1>3. /\ Cls(x) \in Class /\ Base(x) \in Nat /\ Width(x) \in Nat \ {0} /\ Count(x) \in Nat
      /\ Size[PageIdx(Cls(x))] = Count(x) * Width(x)
      /\ Page(x).addr = Base(x) /\ Page(x).idx = PageIdx(Cls(x))
  BY <1>2, SlabFacts
<1>4. Grain(PageIdx(Cls(x))) = Size[PageIdx(Cls(x))]
  BY <1>3, GrainFacts, ClassFacts
<1>5. Multiple(Base(x), Count(x) * Width(x))
  BY <1>1, <1>2, <1>3, <1>4 DEF Aligned
<1>6. Multiple(Base(x), Width(x))
  BY <1>3, <1>5, MultipleFiner
<1>7. k \in Nat
  OBVIOUS
<1>8. Multiple(Base(x) + k * Width(x), Width(x))
  BY <1>3, <1>6, <1>7, MultipleAdd
<1>9. Base(x) + k * Width(x) \in Nat
  BY <1>3, <1>7
<1> QED BY <1>3, <1>8, <1>9, MultipleMod DEF SlotOf

\* What one activation of kmfree(), called with the object o, makes of the heap.
\* The check of the address fails only where memory ends off a 512 KiB boundary.
Freed(hp, r, o, lv, lo) ==
  /\ \/ r.next = 0 /\ r.hp.out = "ok" /\ GoodHeap(r.hp, lv \ {o}, lo)
     \/ r.next = 0 /\ r.hp.out = "kmfree: invalid addr" /\ ~Even /\ GoodHeap(r.hp, lv, lo)
     \/ /\ r.next # 0 /\ r.hp.out = "ok" /\ o.idx # 0 /\ Obj(r.next, 0) \in Objects \ lv
        /\ GoodHeap(r.hp, (lv \ {o}) \cup {Obj(r.next, 0)}, lo)
  /\ \A j \in Class : ~ (Len(r.hp.s[j]) > Len(hp.s[j]))

LEMMA UnlinkShorter ==
  ASSUME NEW s, Listing(s), NEW i \in Class, NEW p \in 2 .. Len(s[i])
  PROVE  \A j \in Class : ~ (Len(Unlinked(s, i, p)[j]) > Len(s[j]))
<1>1. PICK t : t = Unlinked(s, i, p)
  OBVIOUS
<1>2. (\A j \in Class : j # i => t[j] = s[j]) /\ Len(t[i]) < Len(s[i]) /\ Listing(t)
  BY <1>1, ListUnlink
<1>3. \A j \in Class : Len(t[j]) \in Nat /\ Len(s[j]) \in Nat
  BY <1>2 DEF Listing
<1> QED BY <1>1, <1>2, <1>3

\* The object o is in slot k of the p-th slab of class i; B are the other slots.
HitAt(s, lv, i, p, k, o, B) ==
  /\ i \in Class /\ p \in 1 .. Len(s[i]) /\ k \in s[i][p].bitmap
  /\ o \in lv /\ o = Obj(SlotOf(At(s, i, p), k), i) /\ B = s[i][p].bitmap \ {k}

\* The slab stays: the slot is cleared.
SameLengths(s, t) == \A j \in Class : Len(t[j]) = Len(s[j])

LEMMA ClearGood ==
  ASSUME NEW m, NEW h, NEW s, NEW lv, NEW lo, Good(m, h, s, lv, lo),
         NEW i, NEW p, NEW k, NEW o, NEW B, HitAt(s, lv, i, p, k, o, B),
         ~Drained(i, p, B), ~Drained64(i, p, B)
  PROVE  /\ Good(m, h, Marked(s, i, p, B), lv \ {o}, lo)
         /\ SameLengths(s, Marked(s, i, p, B))
<1>0. /\ i \in Class /\ p \in 1 .. Len(s[i]) /\ k \in s[i][p].bitmap
      /\ o \in lv /\ o = Obj(SlotOf(At(s, i, p), k), i) /\ B = s[i][p].bitmap \ {k}
  BY DEF HitAt
<1>1. PICK x : x = At(s, i, p)
  OBVIOUS
<1>2. /\ x \in Linked(s) /\ x \in Linkeds /\ Cls(x) = i /\ Bits(x) = s[i][p].bitmap
      /\ Self(x) = s[i][p].self /\ (s[i][p].self = 0 <=> p = 1)
      /\ s[i][p].bitmap \subseteq 0 .. Slots(i) - 1
  BY <1>0, <1>1, SlabAtFacts
<1>3a. PICK C : C = B
  OBVIOUS
<1>3. PICK t : t = Marked(s, i, p, C)
  OBVIOUS
<1>4. C \in SUBSET (0 .. 63)
  <2>0. PICK c \in 1 .. 64 : c = Slots(i)
    BY <1>0, ClassFacts
  <2>1. \A n \in 0 .. c - 1 : n \in 0 .. 63
    OBVIOUS
  <2> QED BY <1>0, <2>0, <2>1, <1>2, <1>3a
<1>5. Listing(s) /\ HeapSet(Linked(s), h, lv) /\ PageLists(m, h, lo) /\ Unique(Linked(s))
  BY <1>0, GoodUnique DEF Good
<1>6. /\ Listing(t)
      /\ Linked(t) = (Linked(s) \ {At(s, i, p)}) \cup {At(t, i, p)}
      /\ At(t, i, p) \in Linkeds /\ Alike(At(s, i, p), At(t, i, p))
      /\ Bits(At(t, i, p)) = C
      /\ \A j \in Class : Len(t[j]) = Len(s[j])
  BY <1>0, <1>3, <1>4, <1>5, ListMark
<1>7. PICK y : y = At(t, i, p)
  OBVIOUS
<1>8. /\ Linked(t) = (Linked(s) \ {x}) \cup {y} /\ y \in Linkeds /\ Alike(x, y)
      /\ Bits(y) = Bits(x) \ {k} /\ k \in Bits(x) /\ o = Obj(SlotOf(x, k), Cls(x))
  BY <1>0, <1>1, <1>2, <1>3a, <1>6, <1>7
<1>9. ASSUME Self(x) # 0
      PROVE  IF Cls(x) = 0 THEN \E l \in Bits(y) : l # 0 ELSE Bits(y) # {}
  <2>1. p # 1 /\ Bits(y) = B
    BY <1>0, <1>2, <1>3a, <1>6, <1>7, <1>9
  <2>2. CASE Cls(x) # 0
    BY <1>0, <2>1, <2>2 DEF Drained
  <2>3. CASE Cls(x) = 0
    <3>1. 0 \in Bits(x) /\ Obj(SlotOf(x, 0), 0) \notin lv
      BY <1>0, <1>2, <1>5, <1>9, <2>3, SlotZeroIsSelf
    <3>2. k # 0
      BY <1>0, <1>8, <2>3, <3>1
    <3>3. 0 \in B
      BY <1>0, <1>2, <3>1, <3>2
    <3>4. B # {0}
      BY <1>0, <1>2, <2>1, <2>3 DEF Drained64
    <3> QED BY <1>0, <2>1, <2>3, <3>3, <3>4
  <2> QED BY <1>0, <2>2, <2>3
<1>10. HeapSet((Linked(s) \ {x}) \cup {y}, h, lv \ {Obj(SlotOf(x, k), Cls(x))})
  BY <1>0, <1>2, <1>5, <1>8, <1>9, OpClear
<1>11. HeapSet(Linked(t), h, lv \ {o})
  BY <1>0, <1>8, <1>10
<1> QED BY <1>0, <1>3, <1>3a, <1>5, <1>6, <1>11 DEF Good, SameLengths

\* The slab of a larger class is empty: it is unlinked.
LEMMA DrainGood ==
  ASSUME NEW m, NEW h, NEW s, NEW lv, NEW lo, Good(m, h, s, lv, lo),
         NEW i, NEW p, NEW k, NEW o, NEW B, HitAt(s, lv, i, p, k, o, B),
         Drained(i, p, B)
  PROVE  /\ i # 0 /\ s[i][p].self # 0 /\ p \in 2 .. Len(s[i])
         /\ Good(m, h, Unlinked(s, i, p), (lv \ {o}) \cup {Obj(s[i][p].self, 0)}, lo)
         /\ Obj(s[i][p].self, 0) \in Objects \ lv
<1>0. /\ i \in Class /\ p \in 1 .. Len(s[i]) /\ k \in s[i][p].bitmap
      /\ o \in lv /\ o = Obj(SlotOf(At(s, i, p), k), i) /\ B = s[i][p].bitmap \ {k}
  BY DEF HitAt
<1>1. PICK x : x = At(s, i, p)
  OBVIOUS
<1>2. /\ x \in Linked(s) /\ x \in Linkeds /\ Cls(x) = i /\ Bits(x) = s[i][p].bitmap
      /\ Self(x) = s[i][p].self /\ (s[i][p].self = 0 <=> p = 1)
  BY <1>0, <1>1, SlabAtFacts
<1>3. Listing(s) /\ HeapSet(Linked(s), h, lv) /\ PageLists(m, h, lo) /\ Unique(Linked(s))
  BY <1>0, GoodUnique DEF Good
<1>4. p # 1 /\ Self(x) # 0 /\ Bits(x) = {k} /\ o = Obj(SlotOf(x, k), Cls(x))
  BY <1>0, <1>1, <1>2 DEF Drained
<1>5. i # 0
  <2> SUFFICES ASSUME i = 0 PROVE FALSE
    OBVIOUS
  <2>1. 0 \in Bits(x) /\ Obj(SlotOf(x, 0), 0) \notin lv
    BY <1>0, <1>2, <1>3, <1>4, SlotZeroIsSelf
  <2> QED BY <1>0, <1>2, <1>4, <2>1
<1>6. Len(s[i]) \in Nat
  BY <1>0, <1>3 DEF Listing
<1>7. p \in 2 .. Len(s[i])
  BY <1>0, <1>4, <1>6
<1>8. PICK t : t = Unlinked(s, i, p)
  OBVIOUS
<1>9. Listing(t) /\ Linked(t) = Linked(s) \ {x}
  BY <1>0, <1>1, <1>3, <1>7, <1>8, ListUnlink
<1>10. /\ HeapSet(Linked(s) \ {x}, h, (lv \ {Obj(SlotOf(x, k), Cls(x))}) \cup {Obj(Self(x), 0)})
       /\ Obj(Self(x), 0) \in Objects \ lv
  BY <1>0, <1>2, <1>3, <1>4, <1>5, OpUnlink
<1>11. HeapSet(Linked(t), h, (lv \ {o}) \cup {Obj(s[i][p].self, 0)})
  BY <1>0, <1>2, <1>4, <1>9, <1>10
<1> QED BY <1>0, <1>2, <1>3, <1>4, <1>5, <1>7, <1>8, <1>9, <1>10, <1>11 DEF Good

\* A page of class 64 holds only its SLAB structure: the page goes back.
LEMMA Drain64Good ==
  ASSUME NEW m, NEW h, NEW s, NEW lv, NEW lo, Good(m, h, s, lv, lo),
         NEW i, NEW p, NEW k, NEW o, NEW B, HitAt(s, lv, i, p, k, o, B),
         Drained64(i, p, B), NEW a, a = s[i][p].self
  PROVE  /\ p \in 2 .. Len(s[i]) /\ ~InvalidAddress(a)
         /\ Good(Push(m, 0, a), h \ {Blk(a, 0)}, Unlinked(s, i, p), lv \ {o}, lo)
<1>0. /\ i \in Class /\ p \in 1 .. Len(s[i]) /\ k \in s[i][p].bitmap
      /\ o \in lv /\ o = Obj(SlotOf(At(s, i, p), k), i) /\ B = s[i][p].bitmap \ {k}
  BY DEF HitAt
<1>1. PICK x : x = At(s, i, p)
  OBVIOUS
<1>2. /\ x \in Linked(s) /\ x \in Linkeds /\ Cls(x) = i /\ Bits(x) = s[i][p].bitmap
      /\ Self(x) = s[i][p].self /\ (s[i][p].self = 0 <=> p = 1)
  BY <1>0, <1>1, SlabAtFacts
<1>3. /\ Listing(s) /\ HeapSet(Linked(s), h, lv) /\ PageLists(m, h, lo) /\ Unique(Linked(s))
      /\ Distinct(Linked(s))
  BY <1>0, GoodUnique DEF Good
<1>4. /\ p # 1 /\ i = 0 /\ Cls(x) = 0 /\ Self(x) # 0 /\ Bits(x) \ {k} = {0} /\ k \in Bits(x)
      /\ o = Obj(SlotOf(x, k), 0)
  BY <1>0, <1>1, <1>2 DEF Drained64
<1>5. Len(s[i]) \in Nat
  BY <1>0, <1>3 DEF Listing
<1>6. p \in 2 .. Len(s[i])
  BY <1>0, <1>4, <1>5
<1>7. PICK t : t = Unlinked(s, i, p)
  OBVIOUS
<1>8. Listing(t) /\ Linked(t) = Linked(s) \ {x}
  BY <1>0, <1>1, <1>3, <1>6, <1>7, ListUnlink
<1>9. HeapSet(Linked(s) \ {x}, h \ {Page(x)}, lv \ {Obj(SlotOf(x, k), 0)})
  BY <1>0, <1>2, <1>3, <1>4, OpUnlink64
<1>10. Self(x) = Base(x)
  BY <1>0, <1>2, <1>3, <1>4, SlotZeroIsSelf
<1>11. Page(x) = Blk(a, 0) /\ Page(x) \in h
  <2>1. Page(x) = Blk(Base(x), PageIdx(Cls(x)))
    BY DEF Page
  <2>2. Page(x) \in h
    BY <1>0, <1>2, <1>3 DEF HeapSet, Paged
  <2> QED BY <1>0, <1>2, <1>4, <1>10, <2>1, <2>2, ClassZero
<1>12. ~InvalidAddress(a) /\ PageLists(Push(m, 0, a), h \ {Blk(a, 0)}, lo)
  BY <1>0, <1>3, <1>11, ReturnPage
<1>13. HeapSet(Linked(t), h \ {Blk(a, 0)}, lv \ {o})
  BY <1>0, <1>4, <1>8, <1>9, <1>11
<1> QED BY <1>0, <1>6, <1>7, <1>8, <1>12, <1>13 DEF Good

\* Replacing the lists of slabs in the heap.
Relisted(hp, r, t) ==
  IsHeap(r) /\ r.m = hp.m /\ r.h = hp.h /\ r.s = t /\ r.out = hp.out

LEMMA WithLists ==
  ASSUME NEW hp, IsHeap(hp), NEW t
  PROVE  Relisted(hp, [hp EXCEPT !.s = t], t)
<1>0. PICK r : r = [hp EXCEPT !.s = t]
  OBVIOUS
<1>1. r = [m |-> hp.m, h |-> hp.h, s |-> t, out |-> hp.out]
  BY <1>0 DEF IsHeap
<1>2. r.m = hp.m /\ r.h = hp.h /\ r.s = t /\ r.out = hp.out
  BY <1>1
<1>3. Relisted(hp, r, t)
  BY <1>1, <1>2 DEF IsHeap, Relisted
<1> QED BY <1>0, <1>3

LEMMA PutPageIs ==
  ASSUME NEW hp, IsHeap(hp), NEW a, ~InvalidAddress(a), NEW r, r = PutPage(hp, 0, a)
  PROVE  /\ IsHeap(r) /\ r.m = Push(hp.m, 0, a) /\ r.h = hp.h \ {Blk(a, 0)}
         /\ r.s = hp.s /\ r.out = hp.out
<1>1. r = [m |-> Push(hp.m, 0, a), h |-> hp.h \ {Blk(a, 0)}, s |-> hp.s, out |-> hp.out]
  BY DEF IsHeap, PutPage, Blk
<1>2. /\ r.m = Push(hp.m, 0, a) /\ r.h = hp.h \ {Blk(a, 0)}
      /\ r.s = hp.s /\ r.out = hp.out
  BY <1>1
<1> QED BY <1>1, <1>2 DEF IsHeap

\* One activation of kmfree() on a live object.
LEMMA KmfreeOnceGood ==
  ASSUME NEW hp, NEW lv, NEW lo, GoodHeap(hp, lv, lo), hp.out = "ok", NEW o \in lv
  PROVE  Freed(hp, KmfreeOnce(hp, o.addr), o, lv, lo)
<1>1. PICK s : s = hp.s
  OBVIOUS
<1>2. PICK m : m = hp.m
  OBVIOUS
<1>3. PICK h : h = hp.h
  OBVIOUS
<1>4. Good(m, h, s, lv, lo) /\ IsHeap(hp) /\ Listing(s) /\ s \in [Class -> Seq(SlabRec)]
  BY <1>1, <1>2, <1>3 DEF GoodHeap, Good, Listing
<1>5. PICK i \in Class : \E p \in 1 .. Len(s[i]) : \E k \in s[i][p].bitmap :
           /\ Hits(s, o.addr) # {} /\ FirstHit(s, o.addr) = <<i, p>>
           /\ o = Obj(SlotOf(At(s, i, p), k), i) /\ o.addr = SlotOf(At(s, i, p), k)
           /\ k \in 0 .. Slots(i) - 1
  BY <1>4, HitIs
<1>6. PICK p \in 1 .. Len(s[i]) : \E k \in s[i][p].bitmap :
           /\ Hits(s, o.addr) # {} /\ FirstHit(s, o.addr) = <<i, p>>
           /\ o = Obj(SlotOf(At(s, i, p), k), i) /\ o.addr = SlotOf(At(s, i, p), k)
           /\ k \in 0 .. Slots(i) - 1
  BY <1>5
<1>7. PICK k \in s[i][p].bitmap :
           /\ Hits(s, o.addr) # {} /\ FirstHit(s, o.addr) = <<i, p>>
           /\ o = Obj(SlotOf(At(s, i, p), k), i) /\ o.addr = SlotOf(At(s, i, p), k)
           /\ k \in 0 .. Slots(i) - 1
  BY <1>6
<1>8. PICK x : x = At(s, i, p)
  OBVIOUS
<1>9. /\ x \in Linked(s) /\ s[i][p] \in SlabRec /\ Count(x) = Slots(i) /\ Width(x) = ClassSize[i]
      /\ SlotOf(x, k) = s[i][p].address + k * ClassSize[i]
  BY <1>4, <1>8, SlabAtFacts
<1>10. PICK a : a = o.addr
  OBVIOUS
<1>11. (a - s[i][p].address) \div ClassSize[i] = k
  <2>1. PICK b \in Nat : b = s[i][p].address
    BY <1>9, AddrType DEF SlabRec
  <2>2. PICK w \in Nat \ {0} : w = ClassSize[i]
    BY ClassFacts
  <2>3. k \in Nat
    BY <1>7
  <2>4. PICK n \in Nat : n = k * w
    BY <2>2, <2>3
  <2>5. a = b + n
    BY <1>7, <1>8, <1>9, <1>10, <2>1, <2>2, <2>4
  <2>6. a - b = n
    BY <2>4, <2>5
  <2>7. (k * w) \div w = k
    BY <2>2, <2>3, MulDiv
  <2> QED BY <2>1, <2>2, <2>4, <2>6, <2>7
<1>12. PICK B : B = s[i][p].bitmap \ {k}
  OBVIOUS
<1>12a. HitAt(s, lv, i, p, k, o, B)
  BY <1>7, <1>12 DEF HitAt
<1>13. PICK r : r = KmfreeOnce(hp, a)
  OBVIOUS
<1>14. PICK cleared : cleared = [hp EXCEPT !.s[i][p].bitmap = B]
  OBVIOUS
<1>15. PICK unlinked : unlinked = [hp EXCEPT !.s[i] = Unlink(s[i], p)]
  OBVIOUS
<1>16. r = IF a % ClassSize[i] # 0
       THEN [hp |-> [hp EXCEPT !.out = "kmfree: invalid addr"], next |-> 0]
       ELSE IF Drained(i, p, B) THEN [hp |-> unlinked, next |-> s[i][p].self]
       ELSE IF Drained64(i, p, B) THEN [hp |-> PutPage(unlinked, 0, s[i][p].self), next |-> 0]
       ELSE [hp |-> cleared, next |-> 0]
  <2>1. Hits(hp.s, a) # {} /\ FirstHit(hp.s, a)[1] = i /\ FirstHit(hp.s, a)[2] = p
    BY <1>1, <1>7, <1>10
  <2>2. hp.s[i][p].bitmap \ {(a - hp.s[i][p].address) \div ClassSize[i]} = B
    BY <1>1, <1>11, <1>12
  <2> QED BY <1>1, <1>13, <1>14, <1>15, <2>1, <2>2 DEF KmfreeOnce
<1>17. PICK t : t = Marked(s, i, p, B)
  OBVIOUS
<1>18. IsHeap(cleared) /\ cleared.m = m /\ cleared.h = h /\ cleared.s = t /\ cleared.out = "ok"
  <2>1. cleared = [hp EXCEPT !.s = t]
    BY <1>1, <1>4, <1>14, <1>17 DEF Marked, IsHeap
  <2>2. Relisted(hp, cleared, t)
    BY <2>1, <1>4, WithLists
  <2> QED BY <2>2, <1>2, <1>3 DEF Relisted
<1>19. PICK u : u = Unlinked(s, i, p)
  OBVIOUS
<1>20. IsHeap(unlinked) /\ unlinked.m = m /\ unlinked.h = h /\ unlinked.s = u /\ unlinked.out = "ok"
  <2>1. unlinked = [hp EXCEPT !.s = u]
    BY <1>1, <1>4, <1>15, <1>19 DEF Unlinked, IsHeap
  <2>2. Relisted(hp, unlinked, u)
    BY <2>1, <1>4, WithLists
  <2> QED BY <2>2, <1>2, <1>3 DEF Relisted
<1>21. \A j \in Class : Len(s[j]) \in Nat
  BY <1>4
<1>22. CASE a % ClassSize[i] # 0
  <2>1. r = [hp |-> [hp EXCEPT !.out = "kmfree: invalid addr"], next |-> 0]
    BY <1>16, <1>22
  <2>2. PICK g : g = [hp EXCEPT !.out = "kmfree: invalid addr"]
    OBVIOUS
  <2>3. g = [m |-> m, h |-> h, s |-> s, out |-> "kmfree: invalid addr"]
    BY <1>1, <1>2, <1>3, <1>4, <2>2 DEF IsHeap
  <2>4a. r.hp = g /\ r.next = 0
    BY <2>1, <2>2
  <2>4b. g.s = s /\ g.m = m /\ g.h = h /\ g.out = "kmfree: invalid addr"
    BY <2>3
  <2>4. r.hp = g /\ r.next = 0 /\ g.s = s /\ g.m = m /\ g.h = h /\ g.out = "kmfree: invalid addr"
    BY <2>4a, <2>4b
  <2>5. IsHeap(g)
    BY <2>3, <2>4 DEF IsHeap
  <2>6. ~Even
    <3>1. Even => (SlotOf(x, k) % Width(x)) = 0
      BY <1>4, <1>7, <1>9, SlotAligned
    <3> QED BY <3>1, <1>7, <1>8, <1>9, <1>10, <1>22
  <2>7. GoodHeap(g, lv, lo)
    BY <1>4, <2>4, <2>5 DEF GoodHeap
  <2>8. \A j \in Class : ~ (Len(r.hp.s[j]) > Len(hp.s[j]))
    <3>1. r.hp.s = s /\ hp.s = s
      BY <1>1, <2>4
    <3> QED BY <1>21, <3>1
  <2>9. Freed(hp, r, o, lv, lo)
    BY <2>4, <2>6, <2>7, <2>8 DEF Freed
  <2> QED BY <2>9, <1>10, <1>13
<1>23. CASE (a % ClassSize[i]) = 0 /\ Drained(i, p, B)
  <2>1. r = [hp |-> unlinked, next |-> s[i][p].self]
    BY <1>16, <1>23
  <2>2. PICK d : d = s[i][p].self
    OBVIOUS
  <2>3. r.hp = unlinked /\ r.next = d
    BY <2>1, <2>2
  <2>4. /\ i # 0 /\ d # 0 /\ p \in 2 .. Len(s[i])
        /\ Good(m, h, u, (lv \ {o}) \cup {Obj(d, 0)}, lo)
        /\ Obj(d, 0) \in Objects \ lv
    <3>1. /\ i # 0 /\ s[i][p].self # 0 /\ p \in 2 .. Len(s[i])
          /\ Good(m, h, Unlinked(s, i, p), (lv \ {o}) \cup {Obj(s[i][p].self, 0)}, lo)
          /\ Obj(s[i][p].self, 0) \in Objects \ lv
      BY <1>4, <1>12a, <1>23, DrainGood
    <3> QED BY <1>19, <2>2, <3>1
  <2>5. o.idx # 0
    BY <1>7, <2>4 DEF Obj
  <2>6. GoodHeap(unlinked, (lv \ {o}) \cup {Obj(d, 0)}, lo)
    BY <1>20, <2>4 DEF GoodHeap
  <2>7. \A j \in Class : ~ (Len(r.hp.s[j]) > Len(hp.s[j]))
    BY <1>1, <1>4, <1>19, <1>20, <2>3, <2>4, UnlinkShorter
  <2>8. Freed(hp, r, o, lv, lo)
    BY <1>20, <2>3, <2>4, <2>5, <2>6, <2>7 DEF Freed
  <2> QED BY <2>8, <1>10, <1>13
<1>24. CASE (a % ClassSize[i]) = 0 /\ ~Drained(i, p, B) /\ Drained64(i, p, B)
  <2>1. r = [hp |-> PutPage(unlinked, 0, s[i][p].self), next |-> 0]
    BY <1>16, <1>24
  <2>2. PICK d : d = s[i][p].self
    OBVIOUS
  <2>3. PICK g : g = PutPage(unlinked, 0, d)
    OBVIOUS
  <2>4. r.hp = g /\ r.next = 0
    BY <2>1, <2>2, <2>3
  <2>5. /\ p \in 2 .. Len(s[i]) /\ ~InvalidAddress(d)
        /\ Good(Push(m, 0, d), h \ {Blk(d, 0)}, u, lv \ {o}, lo)
    <3>1. /\ p \in 2 .. Len(s[i]) /\ ~InvalidAddress(d)
          /\ Good(Push(m, 0, d), h \ {Blk(d, 0)}, Unlinked(s, i, p), lv \ {o}, lo)
      BY <1>4, <1>12a, <1>24, <2>2, Drain64Good
    <3> QED BY <1>19, <3>1
  <2>6. /\ IsHeap(g) /\ g.m = Push(m, 0, d) /\ g.h = h \ {Blk(d, 0)}
        /\ g.s = u /\ g.out = "ok"
    BY <1>20, <2>3, <2>5, PutPageIs
  <2>7. GoodHeap(g, lv \ {o}, lo)
    BY <2>5, <2>6 DEF GoodHeap
  <2>8. \A j \in Class : ~ (Len(r.hp.s[j]) > Len(hp.s[j]))
    BY <1>1, <1>4, <1>19, <2>4, <2>5, <2>6, UnlinkShorter
  <2>9. Freed(hp, r, o, lv, lo)
    BY <2>4, <2>6, <2>7, <2>8 DEF Freed
  <2> QED BY <2>9, <1>10, <1>13
<1>25. CASE (a % ClassSize[i]) = 0 /\ ~Drained(i, p, B) /\ ~Drained64(i, p, B)
  <2>1. r = [hp |-> cleared, next |-> 0]
    BY <1>16, <1>25
  <2>2. r.hp = cleared /\ r.next = 0
    BY <2>1
  <2>3. /\ Good(m, h, t, lv \ {o}, lo)
        /\ \A j \in Class : Len(t[j]) = Len(s[j])
    <3>1. /\ Good(m, h, Marked(s, i, p, B), lv \ {o}, lo)
          /\ SameLengths(s, Marked(s, i, p, B))
      BY <1>4, <1>12a, <1>25, ClearGood
    <3> QED BY <1>17, <3>1 DEF SameLengths
  <2>4. GoodHeap(cleared, lv \ {o}, lo)
    BY <1>18, <2>3 DEF GoodHeap
  <2>5. \A j \in Class : ~ (Len(r.hp.s[j]) > Len(hp.s[j]))
    BY <1>1, <1>18, <1>21, <2>2, <2>3
  <2>6. Freed(hp, r, o, lv, lo)
    BY <1>18, <2>2, <2>4, <2>5 DEF Freed
  <2> QED BY <2>6, <1>10, <1>13
<1> QED BY <1>22, <1>23, <1>24, <1>25

\* What the whole of kmfree() makes of the heap.
Released(hp, r, o, lv, lo) ==
  /\ \/ r.out = "ok" /\ GoodHeap(r, lv \ {o}, lo)
     \/ /\ r.out = "kmfree: invalid addr" /\ ~Even
        /\ \E lw \in SUBSET Objects : lv \ {o} \subseteq lw /\ GoodHeap(r, lw, lo)
  /\ \A j \in Class : ~ (Len(r.s[j]) > Len(hp.s[j]))

LEMMA KmfreeGood ==
  ASSUME NEW hp, NEW lv, NEW lo, GoodHeap(hp, lv, lo), hp.out = "ok", NEW o \in lv
  PROVE  Released(hp, Kmfree(hp, o.addr), o, lv, lo)
<1>1. PICK r : r = KmfreeOnce(hp, o.addr)
  OBVIOUS
<1>2. Freed(hp, r, o, lv, lo)
  BY <1>1, KmfreeOnceGood
<1>3. lv \in SUBSET Objects
  BY DEF GoodHeap, Good, HeapSet, Accounted
<1>4. CASE r.next = 0
  <2>1. Kmfree(hp, o.addr) = r.hp
    BY <1>1, <1>4 DEF Kmfree
  <2>2. Released(hp, r.hp, o, lv, lo)
    BY <1>2, <1>3, <1>4 DEF Freed, Released
  <2> QED BY <2>1, <2>2
<1>5. CASE r.next # 0
  <2>1. PICK g : g = r.hp
    OBVIOUS
  <2>2. PICK d : d = Obj(r.next, 0)
    OBVIOUS
  <2>3. d.addr = r.next /\ d.idx = 0
    BY <2>2 DEF Obj
  <2>4. PICK lw : lw = (lv \ {o}) \cup {d}
    OBVIOUS
  <2>5. g.out = "ok" /\ d \in Objects \ lv /\ GoodHeap(g, lw, lo) /\ d \in lw
    BY <1>2, <1>5, <2>1, <2>2, <2>4 DEF Freed
  <2>6. lw \ {d} = lv \ {o} /\ lw \in SUBSET Objects
    BY <1>3, <2>4, <2>5
  <2>7. PICK t : t = KmfreeOnce(g, d.addr)
    OBVIOUS
  <2>8. Freed(g, t, d, lw, lo)
    BY <2>5, <2>7, KmfreeOnceGood
  <2>9. t.next = 0
    BY <2>3, <2>8 DEF Freed
  <2>10. Kmfree(hp, o.addr) = t.hp
    BY <1>1, <1>5, <2>1, <2>3, <2>7, <2>9 DEF Kmfree
  <2>11. \A j \in Class : ~ (Len(t.hp.s[j]) > Len(hp.s[j]))
    <3>1. \A j \in Class : ~ (Len(t.hp.s[j]) > Len(g.s[j])) /\ ~ (Len(g.s[j]) > Len(hp.s[j]))
      BY <1>2, <2>1, <2>8 DEF Freed
    <3>2. GoodHeap(t.hp, lw, lo) \/ GoodHeap(t.hp, lw \ {d}, lo)
      BY <2>8, <2>9 DEF Freed
    <3>3. /\ t.hp.s \in [Class -> Seq(SlabRec)] /\ g.s \in [Class -> Seq(SlabRec)]
          /\ hp.s \in [Class -> Seq(SlabRec)]
      BY <3>2, <2>5 DEF GoodHeap, Good, Listing
    <3>4. \A j \in Class : Len(t.hp.s[j]) \in Nat /\ Len(g.s[j]) \in Nat /\ Len(hp.s[j]) \in Nat
      BY <3>3
    <3> QED BY <3>1, <3>4
  <2>12. \/ t.hp.out = "ok" /\ GoodHeap(t.hp, lv \ {o}, lo)
         \/ t.hp.out = "kmfree: invalid addr" /\ ~Even /\ GoodHeap(t.hp, lw, lo)
    BY <2>6, <2>8, <2>9 DEF Freed
  <2>13. lv \ {o} \subseteq lw
    BY <2>4
  <2>14. Released(hp, t.hp, o, lv, lo)
    BY <2>6, <2>11, <2>12, <2>13 DEF Released
  <2> QED BY <2>10, <2>14
<1> QED BY <1>4, <1>5

-----------------------------------------------------------------------------
(* slab_init() and pm_init().                                              *)

InitSlab(hp, i) ==
  LET r == GetPage(hp, PageIdx(i))
      a == NewBlock(hp.m, PageIdx(i))
  IN IF r.out # "ok" THEN r ELSE AddSlab(r, i, [address |-> a, bitmap |-> {}, self |-> 0])

Started(hp, r, i, lv, lo) ==
  /\ r.out \in {"ok", OOM} /\ GoodHeap(r, lv, lo)
  /\ \A j \in Class : j # i => r.s[j] = hp.s[j]

\* The static slab of class i.
LEMMA StaticGood ==
  ASSUME NEW hp, NEW lv, NEW lo, GoodHeap(hp, lv, lo), hp.out = "ok", NEW i \in Class,
         hp.s[i] = <<>>
  PROVE  Started(hp, InitSlab(hp, i), i, lv, lo)
<1>0. PICK r : r = InitSlab(hp, i)
  OBVIOUS
<1>1. PICK q : q = GetPage(hp, PageIdx(i))
  OBVIOUS
<1>2. PICK c : c = NewBlock(hp.m, PageIdx(i))
  OBVIOUS
<1>3. /\ IsHeap(hp) /\ PageLists(hp.m, hp.h, lo) /\ Listing(hp.s)
      /\ HeapSet(Linked(hp.s), hp.h, lv)
  BY DEF GoodHeap, Good
<1>4. PICK z \in Idx : z = PageIdx(i)
  BY ClassFacts
<1>5. /\ IsHeap(q) /\ q.s = hp.s /\ PageLists(q.m, q.h, lo)
      /\ \/ q.out = OOM /\ q.h = hp.h /\ q.m = hp.m
         \/ /\ q.out = "ok" /\ c \in Addr /\ Blk(c, z) \notin hp.h
            /\ q.h = hp.h \cup {Blk(c, z)}
  <2>1. Got(hp, GetPage(hp, z), NewBlock(hp.m, z), z, lo)
    BY <1>3, GetPageFacts
  <2>2. Got(hp, q, c, z, lo)
    BY <1>1, <1>2, <1>4, <2>1
  <2> QED BY <2>2 DEF Got
<1>6. CASE q.out # "ok"
  <2>1. r = q
    BY <1>0, <1>1, <1>6 DEF InitSlab
  <2>2. q.out = OOM /\ q.h = hp.h /\ q.m = hp.m
    BY <1>5, <1>6
  <2>3. GoodHeap(r, lv, lo) /\ r.s = hp.s
    BY <2>1, <2>2, <1>3, <1>5 DEF GoodHeap, Good
  <2>4. Started(hp, r, i, lv, lo)
    BY <2>1, <2>2, <2>3 DEF Started
  <2> QED BY <2>4, <1>0
<1>7. CASE q.out = "ok"
  <2>1. c \in Addr /\ Blk(c, z) \notin hp.h /\ q.h = hp.h \cup {Blk(c, z)}
    BY <1>5, <1>7 DEF OOM
  <2>2. PICK b : b = [address |-> c, bitmap |-> {}, self |-> 0]
    OBVIOUS
  <2>3. b \in SlabRec /\ b.address = c /\ b.bitmap = {} /\ b.self = 0
    BY <2>1, <2>2 DEF SlabRec
  <2>4. r = AddSlab(q, i, b)
    BY <1>0, <1>1, <1>2, <1>7, <2>2 DEF InitSlab
  <2>5. hp.s \in [Class -> Seq(SlabRec)]
    BY <1>3 DEF Listing
  <2>6. /\ IsHeap(r) /\ r.m = q.m /\ r.h = q.h /\ r.out = q.out
        /\ r.s = Appended(hp.s, i, b)
    BY <1>5, <2>4, <2>5, AddSlabIs
  <2>7. PICK y : y = <<i, b>>
    OBVIOUS
  <2>8. /\ Listing(r.s) /\ Linked(r.s) = Linked(hp.s) \cup {y}
        /\ y \in Linkeds /\ Page(y) = Blk(c, z)
        /\ Bits(y) = {} /\ Self(y) = 0
        /\ \A j \in Class : j # i => r.s[j] = hp.s[j]
    <3>1. /\ Blk(b.address, PageIdx(i)) \notin hp.h
          /\ PageLists(q.m, hp.h \cup {Blk(b.address, PageIdx(i))}, lo)
          /\ (b.self = 0 <=> hp.s[i] = <<>>) /\ b.bitmap \subseteq 0 .. Slots(i) - 1
      BY <1>4, <1>5, <2>1, <2>3
    <3>2. Added(hp.s, Appended(hp.s, i, b), <<i, b>>, i, b)
      BY <3>1, <1>3, <2>3, AddGood
    <3>3. Added(hp.s, r.s, y, i, b)
      BY <3>2, <2>6, <2>7
    <3> QED BY <3>3, <1>4, <2>3 DEF Added
  <2>9. HeapSet(Linked(hp.s) \cup {y}, hp.h \cup {Page(y)}, lv)
    BY <1>3, <2>1, <2>8, OpStatic
  <2>10. HeapSet(Linked(r.s), r.h, lv)
    BY <2>1, <2>6, <2>8, <2>9
  <2>11. GoodHeap(r, lv, lo)
    BY <1>5, <2>6, <2>8, <2>10 DEF GoodHeap, Good
  <2>12. Started(hp, r, i, lv, lo)
    BY <1>7, <2>6, <2>8, <2>11 DEF Started
  <2> QED BY <2>12, <1>0
<1> QED BY <1>6, <1>7

\* Where pm_init() stands: a block it frees next is aligned to its size, or to
\* 512 KiB if it is of 64 MiB.
Line(lo) ==
  /\ lo \in Nat /\ lo <= AllocatableMax
  /\ Even => /\ Multiple(lo, PM_4K)
             /\ Multiple(lo, PM_512K) \/ lo < KernelEnd + PM_512K

LEMMA BootAligned ==
  ASSUME NEW lo, Line(lo), Even, NEW i \in Idx, lo >= KernelEnd + Size[i],
         i = 0 => lo < KernelEnd + PM_512K,
         NEW a, a = lo - Size[i]
  PROVE  Line(a) /\ Multiple(a, Grain(i))
<1>1. /\ PM_4K \in Nat \ {0} /\ PM_512K \in Nat \ {0} /\ PM_512K = SplitN * PM_4K /\ SplitN \in Nat \ {0}
      /\ Size[0] = PM_4K /\ Size[1] = PM_512K /\ Size[2] = SplitN * PM_512K
      /\ Grain(0) = PM_4K /\ Grain(1) = PM_512K /\ Grain(2) = PM_512K
  BY GrainFacts, PMAssumption
<1>2. lo \in Nat /\ lo <= AllocatableMax /\ AllocatableMax \in Nat /\ KernelEnd \in Nat
      /\ Multiple(lo, PM_4K) /\ (Multiple(lo, PM_512K) \/ lo < KernelEnd + PM_512K)
  BY PMAssumption DEF Line
<1>3. Size[i] \in Nat \ {0}
  BY SizeType
<1>4. a \in Nat /\ a < lo /\ Size[i] <= lo
  BY <1>2, <1>3
<1>5. CASE i = 0
  <2>1. PM_4K <= lo /\ a = lo - 1 * PM_4K /\ 1 * PM_4K <= lo
    BY <1>1, <1>2, <1>4, <1>5
  <2>2. Multiple(a, PM_4K)
    BY <1>1, <1>2, <2>1, MultipleSub
  <2>3. a < KernelEnd + PM_512K
    BY <1>1, <1>2, <1>4, <1>5
  <2>4. a <= AllocatableMax
    BY <1>2, <1>4
  <2> QED BY <1>1, <1>4, <1>5, <2>2, <2>3, <2>4 DEF Line
<1>6. CASE i # 0
  <2>1. PICK k \in Nat \ {0} : Size[i] = k * PM_512K
    <3>1. i = 1 \/ i = 2
      BY <1>6 DEF Idx
    <3>2. CASE i = 1
      <4>1. Size[i] = 1 * PM_512K
        BY <1>1, <3>2
      <4> QED BY <4>1
    <3>3. CASE i = 2
      BY <1>1, <3>3
    <3> QED BY <3>1, <3>2, <3>3
  <2>2. PM_512K <= Size[i]
    <3>1. 0 * PM_512K + PM_512K <= k * PM_512K
      BY <1>1, MulStep
    <3> QED BY <1>1, <2>1, <3>1
  <2>3. Multiple(lo, PM_512K)
    BY <1>1, <1>2, <1>3, <2>2
  <2>4. a = lo - k * PM_512K /\ k * PM_512K <= lo
    BY <2>1, <1>4
  <2>5. Multiple(a, PM_512K)
    BY <1>1, <1>2, <2>3, <2>4, MultipleSub
  <2>6. Multiple(a, PM_4K)
    <3>1. Multiple(a, SplitN * PM_4K)
      BY <1>1, <2>5
    <3> QED BY <1>1, <1>4, <3>1, MultipleFiner
  <2>7. Grain(i) = PM_512K
    BY <1>6 DEF Grain
  <2>8. a <= AllocatableMax
    BY <1>2, <1>4
  <2> QED BY <1>4, <2>5, <2>6, <2>7, <2>8 DEF Line
<1> QED BY <1>5, <1>6

\* One iteration of pm_init().
LEMMA BootGood ==
  ASSUME NEW m, NEW h, NEW s, NEW lv, NEW lo, Good(m, h, s, lv, lo), Line(lo),
         NEW i \in Idx, lo >= KernelEnd + Size[i], i = 0 => lo < KernelEnd + PM_512K,
         NEW a, a = lo - Size[i]
  PROVE  Good(Push(m, i, a), h, s, lv, a) /\ Line(a) /\ ~InvalidAddress(a)
<1>1. /\ lo \in Nat /\ lo <= AllocatableMax /\ Size[i] \in Nat \ {0} /\ AllocatableMax \in Nat
      /\ AllocatableMax <= MemTotal /\ MemTotal \in Nat /\ KernelEnd \in Nat \ {0}
  BY SizeType, PMAssumption DEF Line
<1>2. a \in Addr /\ ~InvalidAddress(a) /\ a + Size[i] = lo /\ a <= AllocatableMax /\ a \in Nat
  BY <1>1 DEF Addr, InvalidAddress
<1>3. PageLists(m, h, lo) /\ Listing(s) /\ HeapSet(Linked(s), h, lv) /\ Sound(m, h, lo)
  BY DEF Good, PageLists
<1>4. Sound(Push(m, i, a), h, a)
  BY <1>1, <1>2, <1>3, SoundBoot
<1>5. CASE ~Even
  <2>1. Line(a)
    BY <1>2, <1>5 DEF Line
  <2> QED BY <1>2, <1>3, <1>4, <1>5, <2>1 DEF Good, PageLists
<1>6. CASE Even
  <2>1. Line(a) /\ Multiple(a, Grain(i))
    BY <1>6, BootAligned
  <2>2. Aligned(m, h)
    BY <1>3, <1>6 DEF PageLists
  <2>3. m \in [Idx -> Seq(Addr)] /\ NoRepeats(m)
    BY <1>3 DEF Sound
  <2>4. PICK b : b = Blk(a, i)
    OBVIOUS
  <2>5. b.addr = a /\ b.idx = i
    BY <2>4 DEF Blk
  <2>6. b \notin Listed(m)
    <3> SUFFICES ASSUME b \in Listed(m) PROVE FALSE
      OBVIOUS
    <3>1. InsideBlock(b, lo)
      BY <1>3 DEF Sound, Tiles
    <3> QED BY <3>1, <1>1, <1>2, <2>5 DEF InsideBlock
  <2>7. Listed(Push(m, i, a)) = Listed(m) \cup {b}
    BY <1>2, <2>3, <2>4, <2>6, PushListed
  <2>8. Aligned(Push(m, i, a), h)
    BY <2>1, <2>2, <2>5, <2>7 DEF Aligned
  <2> QED BY <1>2, <1>3, <1>4, <2>1, <2>8 DEF Good, PageLists
<1> QED BY <1>5, <1>6

-----------------------------------------------------------------------------
(* The inductive invariant.                                                *)

NoSize == "kmalloc: size not supported"
BadAddr == "kmfree: invalid addr"

\* `live' is what is handed out; after a panic in the middle of a call, part of it.
Holds(m, h, s, lo, pn, l) ==
  /\ Line(lo)
  /\ pn \in {"none", OOM, NoSize, BadAddr}
  /\ Even => pn # BadAddr
  /\ \E lv \in SUBSET Objects :
       l \subseteq lv /\ (pn = "none" => lv = l) /\ Good(m, h, s, lv, lo)

HeapInv == Holds(pmmap, held, slabs, allocatable_max, panic, live)

LEMMA InitHeapInv == SInit => HeapInv
<1> SUFFICES ASSUME SInit PROVE HeapInv
  OBVIOUS
<1>1. /\ PMInit /\ slabs = [i \in Class |-> <<>>] /\ live = {}
      /\ held = {} /\ allocatable_max = AllocatableMax /\ panic = "none"
      /\ pmmap = [i \in Idx |-> <<>>]
  BY DEF SInit, PMInit
<1>2. Sound(pmmap, held, allocatable_max)
  BY <1>1, InitIInv DEF IInv
<1>3. Listed(pmmap) = {}
  <2> SUFFICES ASSUME NEW b \in Listed(pmmap) PROVE FALSE
    OBVIOUS
  <2>1. b.idx \in Idx /\ \E k \in 1 .. Len(pmmap[b.idx]) : pmmap[b.idx][k] = b.addr
    BY DEF Listed, Blocks
  <2>2. pmmap[b.idx] = <<>>
    BY <1>1, <2>1
  <2> QED BY <2>1, <2>2
<1>4. PageLists(pmmap, held, allocatable_max)
  <2>1. Aligned(pmmap, held)
    BY <1>1, <1>3 DEF Aligned
  <2> QED BY <1>2, <2>1 DEF PageLists
<1>5. \A i \in Class : slabs[i] = <<>> /\ Len(slabs[i]) = 0
  BY <1>1
<1>6. Listing(slabs)
  <2>1. slabs \in [Class -> Seq(SlabRec)]
    BY <1>1
  <2>2. \A i \in Class : \A p \in 1 .. Len(slabs[i]) : FALSE
    BY <1>5
  <2> QED BY <2>1, <2>2 DEF Listing
<1>7. Linked(slabs) = {}
  <2> SUFFICES ASSUME NEW x \in Linked(slabs) PROVE FALSE
    OBVIOUS
  <2>1. PICK i \in Class : \E p \in 1 .. Len(slabs[i]) : x = At(slabs, i, p)
    BY LinkedAt
  <2> QED BY <2>1, <1>5
<1>8. HeapSet({}, held, {})
  BY DEF HeapSet, Paged, Accounted, Selfs, Used, IsDesc
<1>9. Good(pmmap, held, slabs, {}, allocatable_max)
  BY <1>4, <1>6, <1>7, <1>8 DEF Good
<1>10. Line(allocatable_max)
  <2>1. allocatable_max \in Nat /\ allocatable_max <= AllocatableMax
    BY <1>1, PMAssumption
  <2>2. ASSUME Even PROVE Multiple(allocatable_max, PM_512K) /\ Multiple(allocatable_max, PM_4K)
    <3>1. PM_512K \in Nat \ {0} /\ PM_512K = SplitN * PM_4K /\ SplitN \in Nat /\ PM_4K \in Nat
      BY GrainFacts
    <3>2. (allocatable_max % PM_512K) = 0
      BY <1>1, <2>2 DEF Even
    <3>3. Multiple(allocatable_max, PM_512K)
      BY <2>1, <3>1, <3>2, ModMultiple
    <3>4. Multiple(allocatable_max, SplitN * PM_4K)
      BY <3>1, <3>3
    <3> QED BY <2>1, <3>1, <3>3, <3>4, MultipleFiner
  <2> QED BY <2>1, <2>2 DEF Line
<1>11. panic = "none" /\ panic # BadAddr
  BY <1>1 DEF BadAddr
<1>12. \E lv \in SUBSET Objects :
         live \subseteq lv /\ (panic = "none" => lv = live) /\ Good(pmmap, held, slabs, lv, allocatable_max)
  BY <1>1, <1>9
<1> QED BY <1>10, <1>11, <1>12 DEF HeapInv, Holds

LEMMA HeapIs ==
  /\ IsHeap(Heap) /\ Heap.m = pmmap /\ Heap.h = held /\ Heap.s = slabs /\ Heap.out = "ok"
BY DEF Heap, IsHeap

\* While the kernel runs, the objects handed out are `live'.
LEMMA RunningGood ==
  ASSUME HeapInv, Running
  PROVE  /\ GoodHeap(Heap, live, allocatable_max) /\ Heap.out = "ok" /\ live \in SUBSET Objects
         /\ Good(pmmap, held, slabs, live, allocatable_max)
<1>1. PICK lv \in SUBSET Objects :
         live \subseteq lv /\ (panic = "none" => lv = live) /\ Good(pmmap, held, slabs, lv, allocatable_max)
  BY DEF HeapInv, Holds
<1>2. lv = live
  BY <1>1 DEF Running
<1> QED BY <1>1, <1>2, HeapIs DEF GoodHeap

\* A call that ends well.
LEMMA BecomeOk ==
  ASSUME HeapInv, Running, NEW r, NEW l, NEW lo, lo = allocatable_max, r.out = "ok",
         GoodHeap(r, l, lo), Become(r), live' = l
  PROVE  HeapInv'
<1>1. /\ pmmap' = r.m /\ held' = r.h /\ slabs' = r.s /\ panic' = panic
      /\ allocatable_max' = lo /\ panic = "none"
  BY DEF Become, Running
<1>2. Line(lo) /\ panic \in {"none", OOM, NoSize, BadAddr} /\ (Even => panic # BadAddr)
  BY DEF HeapInv, Holds
<1>3. Good(r.m, r.h, r.s, l, lo) /\ l \in SUBSET Objects
  BY DEF GoodHeap, Good, HeapSet, Accounted
<1>4. Holds(r.m, r.h, r.s, lo, panic, l)
  BY <1>1, <1>2, <1>3 DEF Holds
<1> QED BY <1>1, <1>4 DEF HeapInv

\* A call that panics.
LEMMA BecomePanic ==
  ASSUME HeapInv, Running, NEW r, NEW lo, lo = allocatable_max, r.out \in {OOM, BadAddr},
         Even => r.out # BadAddr,
         NEW lw \in SUBSET Objects, GoodHeap(r, lw, lo), Become(r), live' \subseteq lw
  PROVE  HeapInv'
<1>1. /\ pmmap' = r.m /\ held' = r.h /\ slabs' = r.s /\ panic' = r.out
      /\ allocatable_max' = lo
  BY DEF Become, OOM, BadAddr
<1>2. Line(lo)
  BY DEF HeapInv, Holds
<1>3. Good(r.m, r.h, r.s, lw, lo)
  BY DEF GoodHeap
<1>4. r.out # "none"
  BY DEF OOM, BadAddr
<1>5. Holds(r.m, r.h, r.s, lo, r.out, live')
  BY <1>2, <1>3, <1>4 DEF Holds
<1> QED BY <1>1, <1>5 DEF HeapInv

LEMMA StepBootPages ==
  ASSUME HeapInv, BootPages
  PROVE  HeapInv'
<1>1. PICK i \in Idx : pm_init(i) /\ UNCHANGED slabVars
  BY DEF BootPages
<1>2. PICK a : a = allocatable_max - Size[i]
  OBVIOUS
<1>3. Running /\ Fits(i) /\ (\A j \in Idx : j > i => ~Fits(j)) /\ held' = held
      /\ slabs' = slabs /\ live' = live
  BY <1>1 DEF pm_init, slabVars
<1>4. Good(pmmap, held, slabs, live, allocatable_max) /\ live \in SUBSET Objects
  BY <1>3, RunningGood
<1>5. Line(allocatable_max) /\ panic \in {"none", OOM, NoSize, BadAddr} /\ (Even => panic # BadAddr)
  BY DEF HeapInv, Holds
<1>6. allocatable_max >= KernelEnd + Size[i]
  BY <1>3 DEF Fits
<1>7. ASSUME i = 0 PROVE allocatable_max < KernelEnd + PM_512K
  <2>1. 1 \in Idx /\ 1 > i
    BY <1>7 DEF Idx
  <2>2. ~ (allocatable_max >= KernelEnd + Size[1])
    BY <1>3, <2>1 DEF Fits
  <2>3. Size[1] = PM_512K /\ PM_512K \in Nat /\ KernelEnd \in Nat /\ allocatable_max \in Nat
    BY <1>5, GrainFacts, PMAssumption DEF Line
  <2> QED BY <2>2, <2>3
<1>8. Good(Push(pmmap, i, a), held, slabs, live, a) /\ Line(a) /\ ~InvalidAddress(a)
  BY <1>2, <1>4, <1>5, <1>6, <1>7, BootGood
<1>9. allocatable_max' = a /\ pmmap' = Push(pmmap, i, a) /\ panic' = panic
  BY <1>1, <1>2, <1>8 DEF pm_init
<1>10. Holds(Push(pmmap, i, a), held, slabs, a, panic, live)
  BY <1>4, <1>5, <1>8 DEF Holds
<1> QED BY <1>3, <1>9, <1>10 DEF HeapInv

LEMMA StepSlabInit ==
  ASSUME HeapInv, NEW i \in Class, slab_init(i)
  PROVE  HeapInv' /\ \A j \in Class : slabs[j] # <<>> => slabs'[j] = slabs[j]
<1>1. Running /\ slabs[i] = <<>> /\ live' = live
  BY DEF slab_init
<1>2. PICK r : r = InitSlab(Heap, i)
  OBVIOUS
<1>3. Become(r)
  BY <1>2, HeapIs DEF slab_init, InitSlab
<1>4. PICK lo : lo = allocatable_max
  OBVIOUS
<1>5. GoodHeap(Heap, live, lo) /\ Heap.out = "ok" /\ live \in SUBSET Objects /\ Heap.s[i] = <<>>
  BY <1>1, <1>4, HeapIs, RunningGood
<1>6. Started(Heap, r, i, live, lo)
  BY <1>2, <1>5, StaticGood
<1>7. /\ r.out \in {"ok", OOM} /\ GoodHeap(r, live, lo)
      /\ \A j \in Class : j # i => r.s[j] = slabs[j]
  BY <1>6, HeapIs DEF Started
<1>8. ASSUME r.out = "ok" PROVE HeapInv'
  BY <1>1, <1>3, <1>4, <1>7, <1>8, BecomeOk
<1>9. ASSUME r.out = OOM PROVE HeapInv'
  <2>1. r.out # BadAddr
    BY <1>9 DEF OOM, BadAddr
  <2> QED BY <1>1, <1>3, <1>4, <1>5, <1>7, <1>9, <2>1, BecomePanic
<1>10. slabs' = r.s
  BY <1>3 DEF Become
<1> QED BY <1>1, <1>7, <1>8, <1>9, <1>10

\* _size_to_slab_idx() finds a class for every size it is called with.
LEMMA ClassFound ==
  ASSUME NEW size \in Nat, ~ (size > ClassSize[0] /\ ~Supported(size))
  PROVE  _size_to_slab_idx(size) \in Class
<1>1. \E i \in Class : size <= ClassSize[i]
  <2>1. 0 \in Class /\ SLAB_NUM - 1 \in Class
    BY SlabAssumption DEF Class
  <2>2. ClassSize[0] \in Nat /\ ClassSize[SLAB_NUM - 1] \in Nat
    BY <2>1, ClassFacts
  <2> QED BY <2>1, <2>2 DEF Supported
<1> DEFINE S == {i \in Class : size <= ClassSize[i]}
<1>2. S # {} /\ S \in SUBSET Nat
  BY <1>1, ClassFacts
<1>3. PICK c \in S : \A n \in S : c <= n
  BY <1>2, LeastNatural
<1>4. ASSUME NEW j \in 0 .. c - 1 PROVE size > ClassSize[j]
  <2>1. c \in Class /\ c \in Nat
    BY <1>3, ClassFacts
  <2>2. j \in Class /\ j < c
    BY <2>1, SlabAssumption DEF Class
  <2>3. ~ (size <= ClassSize[j])
    <3>1. j \in Nat /\ ~ (c <= j)
      BY <2>1, <2>2
    <3> QED BY <1>3, <2>2, <3>1
  <2> QED BY <2>2, <2>3, ClassFacts
<1>5. c \in Class /\ size <= ClassSize[c] /\ \A j \in 0 .. c - 1 : size > ClassSize[j]
  BY <1>3, <1>4
<1> QED BY <1>5 DEF _size_to_slab_idx

LEMMA StepKmalloc ==
  ASSUME HeapInv, NEW size \in Requests, kmalloc(size)
  PROVE  HeapInv' /\ \A j \in Class : Len(slabs'[j]) > Len(slabs[j]) => Full(slabs, j)
<1>1. Running /\ \A j \in Class : slabs[j] # <<>>
  BY DEF kmalloc, Ready
<1>2. size \in Nat
  BY SlabAssumption
<1>3. PICK lo : lo = allocatable_max
  OBVIOUS
<1>4. /\ GoodHeap(Heap, live, lo) /\ Heap.out = "ok" /\ live \in SUBSET Objects
      /\ Good(pmmap, held, slabs, live, lo)
  BY <1>1, <1>3, RunningGood
<1>5. CASE size > ClassSize[0] /\ ~Supported(size)
  <2>1. /\ panic' = NoSize /\ pmmap' = pmmap /\ allocatable_max' = lo /\ held' = held
        /\ slabs' = slabs /\ live' = live
    BY <1>3, <1>5 DEF kmalloc, NoSize, slabVars
  <2>2. NoSize # "none" /\ NoSize # BadAddr /\ Line(lo)
    BY <1>3 DEF NoSize, BadAddr, HeapInv, Holds
  <2>3. Holds(pmmap, held, slabs, lo, NoSize, live)
    BY <1>4, <2>2 DEF Holds
  <2>4. HeapInv'
    BY <2>1, <2>3 DEF HeapInv
  <2>5. \A j \in Class : Len(slabs[j]) \in Nat
    BY <1>4 DEF Good, Listing
  <2> QED BY <2>1, <2>4, <2>5
<1>6. CASE ~ (size > ClassSize[0] /\ ~Supported(size))
  <2>1. PICK i \in Class : i = _size_to_slab_idx(size)
    BY <1>2, <1>6, ClassFound
  <2>2. PICK r : r = Malloc(Heap, i)
    OBVIOUS
  <2>3. PICK a : a = MallocAddr(Heap, i)
    OBVIOUS
  <2>4. Become(r) /\ live' = IF r.out # "ok" THEN live ELSE live \cup {Obj(a, i)}
    BY <1>6, <2>1, <2>2, <2>3 DEF kmalloc, Obj
  <2>5. \A j \in Class : Heap.s[j] # <<>>
    BY <1>1, HeapIs
  <2>6. Served(Heap, Malloc(Heap, i), MallocAddr(Heap, i), i, live, lo)
    BY <1>4, <2>5, MallocGood
  <2>7. Served(Heap, r, a, i, live, lo)
    BY <2>2, <2>3, <2>6
  <2>8. slabs' = r.s /\ Heap.s = slabs
    BY <2>4, HeapIs DEF Become
  <2>9. \A j \in Class : Len(slabs'[j]) > Len(slabs[j]) => Full(slabs, j)
    BY <2>7, <2>8 DEF Served
  <2>10. CASE r.out = "ok"
    <3>1. GoodHeap(r, live \cup {Obj(a, i)}, lo)
      BY <2>7, <2>10 DEF Served
    <3>2. live' = live \cup {Obj(a, i)}
      BY <2>4, <2>10
    <3>3. HeapInv'
      BY <1>1, <1>3, <2>4, <2>10, <3>1, <3>2, BecomeOk
    <3> QED BY <2>9, <3>3
  <2>11. CASE r.out # "ok"
    <3>1. r.out = OOM /\ r.out # BadAddr
      BY <2>7, <2>11 DEF Served, OOM, BadAddr
    <3>2. PICK lw \in SUBSET Objects : live \subseteq lw /\ GoodHeap(r, lw, lo)
      BY <2>7, <2>11 DEF Served
    <3>3. live' \subseteq lw
      BY <2>4, <2>11, <3>2
    <3>4. HeapInv'
      BY <1>1, <1>3, <2>4, <3>1, <3>2, <3>3, BecomePanic
    <3> QED BY <2>9, <3>4
  <2> QED BY <2>10, <2>11
<1> QED BY <1>5, <1>6

LEMMA StepKmfree ==
  ASSUME HeapInv, NEW o \in live, kmfree(o)
  PROVE  HeapInv' /\ \A j \in Class : ~ (Len(slabs'[j]) > Len(slabs[j]))
<1>1. Running
  BY DEF kmfree, Ready
<1>2. PICK lo : lo = allocatable_max
  OBVIOUS
<1>3. GoodHeap(Heap, live, lo) /\ Heap.out = "ok" /\ live \in SUBSET Objects
  BY <1>1, <1>2, RunningGood
<1>4. PICK r : r = Kmfree(Heap, o.addr)
  OBVIOUS
<1>5. Become(r) /\ live' = live \ {o}
  BY <1>4 DEF kmfree
<1>6. Released(Heap, r, o, live, lo)
  BY <1>3, <1>4, KmfreeGood
<1>7. slabs' = r.s /\ Heap.s = slabs
  BY <1>5, HeapIs DEF Become
<1>8. \A j \in Class : ~ (Len(slabs'[j]) > Len(slabs[j]))
  BY <1>6, <1>7 DEF Released
<1>9. CASE r.out = "ok"
  <2>1. GoodHeap(r, live \ {o}, lo)
    BY <1>6, <1>9 DEF Released
  <2>2. HeapInv'
    BY <1>1, <1>2, <1>5, <1>9, <2>1, BecomeOk
  <2> QED BY <1>8, <2>2
<1>10. CASE r.out # "ok"
  <2>1. r.out = BadAddr /\ ~Even
    BY <1>6, <1>10 DEF Released, BadAddr
  <2>2. PICK lw \in SUBSET Objects : live \ {o} \subseteq lw /\ GoodHeap(r, lw, lo)
    BY <1>6, <1>10 DEF Released
  <2>3. live' \subseteq lw
    BY <1>5, <2>2
  <2>4. HeapInv'
    BY <1>1, <1>2, <1>5, <2>1, <2>2, <2>3, BecomePanic
  <2> QED BY <1>8, <2>4
<1> QED BY <1>9, <1>10

LEMMA NextHeapInv == HeapInv /\ [SNext]_allVars => HeapInv'
<1> SUFFICES ASSUME HeapInv, [SNext]_allVars PROVE HeapInv'
  OBVIOUS
<1>1. CASE BootPages
  BY <1>1, StepBootPages
<1>2. ASSUME NEW i \in Class, slab_init(i) PROVE HeapInv'
  BY <1>2, StepSlabInit
<1>3. ASSUME NEW size \in Requests, kmalloc(size) PROVE HeapInv'
  BY <1>3, StepKmalloc
<1>4. ASSUME NEW o \in live, kmfree(o) PROVE HeapInv'
  BY <1>4, StepKmfree
<1>5. CASE Stopped \/ UNCHANGED allVars
  <2>1. UNCHANGED <<pmmap, allocatable_max, held, panic, slabs, live>>
    BY <1>5 DEF Stopped, Halted, allVars, pmVars, slabVars
  <2> QED BY <2>1 DEF HeapInv
<1> QED BY <1>1, <1>2, <1>3, <1>4, <1>5 DEF SNext

LEMMA HeapInductive == SSpec => []HeapInv
<1>1. SInit => HeapInv
  BY InitHeapInv
<1>2. HeapInv /\ [SNext]_allVars => HeapInv'
  BY NextHeapInv
<1> QED BY <1>1, <1>2, PTL DEF SSpec

-----------------------------------------------------------------------------
(* What the invariant says about the properties of Slab.                   *)

\* The positions of Slab and the pairs of this module.
LEMMA EntryIs ==
  ASSUME HeapInv, NEW e \in Entries
  PROVE  /\ e[1] \in Class /\ e[2] \in 1 .. Len(slabs[e[1]])
         /\ At(slabs, e[1], e[2]) \in Linked(slabs)
         /\ \A k : SlotAddr(e, k) = SlotOf(At(slabs, e[1], e[2]), k)
         /\ Cls(At(slabs, e[1], e[2])) = e[1]
         /\ Bits(At(slabs, e[1], e[2])) = SlabAt(e).bitmap
         /\ Self(At(slabs, e[1], e[2])) = SlabAt(e).self
         /\ Count(At(slabs, e[1], e[2])) = Slots(e[1])
<1>1. PICK i \in Class : e \in {i} \X (1 .. Len(slabs[i]))
  BY DEF Entries
<1>2. e[1] \in Class /\ e[2] \in 1 .. Len(slabs[e[1]])
  BY <1>1
<1>3. PICK lv : Good(pmmap, held, slabs, lv, allocatable_max)
  BY DEF HeapInv, Holds
<1>4. PICK x : x = At(slabs, e[1], e[2])
  OBVIOUS
<1>5. /\ x \in Linked(slabs) /\ Cls(x) = e[1] /\ Bits(x) = slabs[e[1]][e[2]].bitmap
      /\ Self(x) = slabs[e[1]][e[2]].self /\ Count(x) = Slots(e[1])
      /\ \A k : SlotOf(x, k) = slabs[e[1]][e[2]].address + k * ClassSize[e[1]]
  BY <1>2, <1>3, <1>4, SlabAtFacts
<1> QED BY <1>2, <1>4, <1>5 DEF SlotAddr, SlabAt

LEMMA LinkedEntry ==
  ASSUME NEW x \in Linked(slabs)
  PROVE  \E e \in Entries : x = At(slabs, e[1], e[2])
<1>1. PICK i \in Class : \E p \in 1 .. Len(slabs[i]) : x = At(slabs, i, p)
  BY LinkedAt
<1>2. PICK p \in 1 .. Len(slabs[i]) : x = At(slabs, i, p)
  BY <1>1
<1>3. <<i, p>> \in Entries /\ <<i, p>>[1] = i /\ <<i, p>>[2] = p
  BY DEF Entries
<1> QED BY <1>2, <1>3

LEMMA DescriptorIs ==
  ASSUME HeapInv, NEW d, d # 0
  PROVE  d \in Descriptors <=> \E x \in Linked(slabs) : Self(x) = d
<1>1. ASSUME d \in Descriptors PROVE \E x \in Linked(slabs) : Self(x) = d
  <2>1. PICK e \in Entries : d = SlabAt(e).self
    BY <1>1 DEF Descriptors
  <2> QED BY <2>1, EntryIs
<1>2. ASSUME NEW x \in Linked(slabs), Self(x) = d PROVE d \in Descriptors
  <2>1. PICK e \in Entries : x = At(slabs, e[1], e[2])
    BY LinkedEntry
  <2>2. d = SlabAt(e).self
    BY <1>2, <2>1, EntryIs
  <2> QED BY <2>2 DEF Descriptors
<1> QED BY <1>1, <1>2

\* A slot is marked if and only if its object is in use.
LEMMA MarkedUsed ==
  ASSUME NEW L, Unique(L), NEW h, Paged(L, h), NEW x \in L, NEW k \in 0 .. Count(x) - 1
  PROVE  Used(L, Obj(SlotOf(x, k), Cls(x))) <=> k \in Bits(x)
<1>1. PICK o : o = Obj(SlotOf(x, k), Cls(x))
  OBVIOUS
<1>2. o.addr = SlotOf(x, k) /\ o.idx = Cls(x)
  BY <1>1 DEF Obj
<1>3. ASSUME Used(L, o) PROVE k \in Bits(x)
  <2>1. PICK y \in L : Cls(y) = o.idx /\ \E l \in Bits(y) : SlotOf(y, l) = o.addr
    BY <1>3 DEF Used
  <2>2. PICK l \in Bits(y) : SlotOf(y, l) = o.addr
    BY <2>1
  <2>3. l \in 0 .. Count(y) - 1
    BY DEF Paged
  <2>4. y = x /\ l = k
    BY <1>2, <2>2, <2>3 DEF Unique
  <2> QED BY <2>4
<1>4. ASSUME k \in Bits(x) PROVE Used(L, o)
  BY <1>2, <1>4 DEF Used
<1> QED BY <1>1, <1>3, <1>4

LEMMA ExactFromInv == HeapInv => BitmapExact
<1> SUFFICES ASSUME HeapInv, Running PROVE
    /\ \A e \in Entries : \A k \in 0 .. Slots(e[1]) - 1 :
         k \in SlabAt(e).bitmap <=>
            \/ [addr |-> SlotAddr(e, k), idx |-> e[1]] \in live
            \/ e[1] = 0 /\ SlotAddr(e, k) \in Descriptors
    /\ \A o \in live : \E e \in Entries : \E k \in SlabAt(e).bitmap :
         e[1] = o.idx /\ SlotAddr(e, k) = o.addr
  BY DEF BitmapExact
<1>1. Good(pmmap, held, slabs, live, allocatable_max)
  BY RunningGood
<1>2. PICK L : L = Linked(slabs)
  OBVIOUS
<1>3. Unique(L) /\ Paged(L, held) /\ Accounted(L, live) /\ HeapSet(L, held, live)
  BY <1>1, <1>2, GoodUnique DEF Good, HeapSet
<1>4. ASSUME NEW e \in Entries, NEW k \in 0 .. Slots(e[1]) - 1
      PROVE  k \in SlabAt(e).bitmap <=>
               \/ [addr |-> SlotAddr(e, k), idx |-> e[1]] \in live
               \/ e[1] = 0 /\ SlotAddr(e, k) \in Descriptors
  <2>1. PICK x : x = At(slabs, e[1], e[2])
    OBVIOUS
  <2>2. /\ x \in L /\ e[1] \in Class /\ SlotAddr(e, k) = SlotOf(x, k) /\ Cls(x) = e[1]
        /\ Bits(x) = SlabAt(e).bitmap /\ Count(x) = Slots(e[1])
    BY <1>2, <2>1, EntryIs
  <2>3. PICK o : o = Obj(SlotOf(x, k), Cls(x))
    OBVIOUS
  <2>4. k \in 0 .. Count(x) - 1
    BY <2>2
  <2>5. Used(L, o) <=> k \in Bits(x)
    BY <1>3, <2>2, <2>3, <2>4, MarkedUsed
  <2>6. SlotOf(x, k) \in Addr /\ o \in Objects
    BY <1>3, <2>2, <2>3, <2>4 DEF Unique, Objects, Obj
  <2>7. Used(L, o) <=> o \in live \/ IsDesc(L, o)
    BY <1>3, <2>6 DEF Accounted
  <2>8. SlotOf(x, k) # 0
    BY <2>6, AddrType
  <2>9. IsDesc(L, o) <=> e[1] = 0 /\ SlotOf(x, k) \in Descriptors
    <3>1. SlotOf(x, k) \in Descriptors <=> \E y \in L : Self(y) = SlotOf(x, k)
      BY <1>2, <2>8, DescriptorIs
    <3>2. o.addr = SlotOf(x, k) /\ o.idx = e[1]
      BY <2>2, <2>3 DEF Obj
    <3> QED BY <3>1, <3>2 DEF IsDesc
  <2>10. o = [addr |-> SlotAddr(e, k), idx |-> e[1]]
    BY <2>2, <2>3 DEF Obj
  <2> QED BY <2>2, <2>5, <2>7, <2>9, <2>10
<1>5. ASSUME NEW o \in live
      PROVE  \E e \in Entries : \E k \in SlabAt(e).bitmap : e[1] = o.idx /\ SlotAddr(e, k) = o.addr
  <2>1. PICK x \in L : /\ Cls(x) = o.idx
                       /\ \E k \in Bits(x) : SlotOf(x, k) = o.addr /\ k \in 0 .. Count(x) - 1
    BY <1>3, ObjectSlot
  <2>2. PICK k \in Bits(x) : SlotOf(x, k) = o.addr
    BY <2>1
  <2>3. PICK e \in Entries : x = At(slabs, e[1], e[2])
    BY <1>2, LinkedEntry
  <2>4. /\ SlotAddr(e, k) = SlotOf(x, k) /\ Cls(x) = e[1] /\ Bits(x) = SlabAt(e).bitmap
    BY <2>3, EntryIs
  <2> QED BY <2>1, <2>2, <2>4
<1> QED BY <1>4, <1>5

\* A SLAB structure lies in a marked slot of class 64.
LEMMA DescriptorSlot ==
  ASSUME NEW L, NEW h, NEW lv, HeapSet(L, h, lv), NEW y \in L, Self(y) # 0
  PROVE  \E x \in L : Cls(x) = 0 /\ \E k \in Bits(x) : SlotOf(x, k) = Self(y)
<1>1. y \in Linkeds
  BY DEF HeapSet, Paged
<1>2. PICK d : d = Obj(Self(y), 0)
  OBVIOUS
<1>3. Self(y) \in Addr
  BY <1>1 DEF Linkeds, SlabRec, Self
<1>4. d \in Objects /\ d.addr = Self(y) /\ d.idx = 0
  BY <1>2, <1>3, ClassZero DEF Obj, Objects
<1>5. IsDesc(L, d)
  BY <1>4 DEF IsDesc
<1>6. Used(L, d)
  BY <1>4, <1>5 DEF HeapSet, Accounted
<1> QED BY <1>4, <1>6 DEF Used

LEMMA DisjointFromInv == HeapInv => HeapDisjoint
<1> SUFFICES ASSUME HeapInv PROVE HeapDisjoint
  OBVIOUS
<1>1. PICK lv \in SUBSET Objects : live \subseteq lv /\ Good(pmmap, held, slabs, lv, allocatable_max)
  BY DEF HeapInv, Holds
<1>2. PICK L : L = Linked(slabs)
  OBVIOUS
<1>3. /\ Unique(L) /\ Paged(L, held) /\ Accounted(L, lv) /\ HeapSet(L, held, lv) /\ Distinct(L)
      /\ Sound(pmmap, held, allocatable_max)
  BY <1>1, <1>2, GoodUnique DEF Good, HeapSet, PageLists
<1>4. \A x \in L : x \in Linkeds /\ Page(x) \in held /\ Bits(x) \subseteq 0 .. Count(x) - 1
  BY <1>3 DEF Paged
<1>5. ASSUME NEW o \in live
      PROVE  \E x \in L : Cls(x) = o.idx /\ \E k \in Bits(x) : SlotOf(x, k) = o.addr
  BY <1>1, <1>3, ObjectSlot
<1>6. ASSUME NEW d \in Descriptors
      PROVE  \E x \in L : Cls(x) = 0 /\ \E k \in Bits(x) : SlotOf(x, k) = d
  <2>1. d # 0
    BY DEF Descriptors
  <2>2. PICK y \in L : Self(y) = d
    BY <1>2, <2>1, DescriptorIs
  <2> QED BY <1>3, <2>1, <2>2, DescriptorSlot
<1>7. ASSUME NEW o \in live, o.addr \in Descriptors PROVE FALSE
  <2>1. PICK x \in L : Cls(x) = o.idx /\ \E k \in Bits(x) : SlotOf(x, k) = o.addr
    BY <1>5
  <2>2. PICK k \in Bits(x) : SlotOf(x, k) = o.addr
    BY <2>1
  <2>3. PICK y \in L : Cls(y) = 0 /\ \E l \in Bits(y) : SlotOf(y, l) = o.addr
    BY <1>6, <1>7
  <2>4. PICK l \in Bits(y) : SlotOf(y, l) = o.addr
    BY <2>3
  <2>5. k \in 0 .. Count(x) - 1 /\ l \in 0 .. Count(y) - 1
    BY <1>4
  <2>6. x = y
    BY <1>3, <2>2, <2>4, <2>5 DEF Unique
  <2>7. o.addr # 0
    BY <1>7 DEF Descriptors
  <2>8. PICK z \in L : Self(z) = o.addr
    BY <1>2, <1>7, <2>7, DescriptorIs
  <2>9. o.idx = 0 /\ IsDesc(L, o)
    BY <2>1, <2>3, <2>6, <2>8 DEF IsDesc
  <2> QED BY <1>1, <1>3, <2>9 DEF Accounted
<1>8. ASSUME NEW u \in InUse
      PROVE  \E x \in L : \E k \in 0 .. Count(x) - 1 : u = <<SlotOf(x, k), Width(x)>>
  <2>1. CASE u \in {<<o.addr, ClassSize[o.idx]>> : o \in live}
    <3>1. PICK o \in live : u = <<o.addr, ClassSize[o.idx]>>
      BY <2>1
    <3>2. PICK x \in L : Cls(x) = o.idx /\ \E k \in Bits(x) : SlotOf(x, k) = o.addr
      BY <1>5
    <3>3. PICK k \in Bits(x) : SlotOf(x, k) = o.addr
      BY <3>2
    <3> QED BY <1>4, <3>1, <3>2, <3>3 DEF Width
  <2>2. CASE u \in {<<d, SLAB_MIN_SIZE>> : d \in Descriptors}
    <3>1. PICK d \in Descriptors : u = <<d, SLAB_MIN_SIZE>>
      BY <2>2
    <3>2. PICK x \in L : Cls(x) = 0 /\ \E k \in Bits(x) : SlotOf(x, k) = d
      BY <1>6
    <3>3. PICK k \in Bits(x) : SlotOf(x, k) = d
      BY <3>2
    <3>4. Width(x) = SLAB_MIN_SIZE
      BY <3>2, ClassZero DEF Width
    <3> QED BY <1>4, <3>1, <3>3, <3>4
  <2> QED BY <2>1, <2>2 DEF InUse
<1>9. ASSUME NEW u \in InUse, NEW v \in InUse, u # v PROVE Apart(u[1], u[2], v[1], v[2])
  <2>1. PICK x \in L : \E k \in 0 .. Count(x) - 1 : u = <<SlotOf(x, k), Width(x)>>
    BY <1>8
  <2>2. PICK k \in 0 .. Count(x) - 1 : u = <<SlotOf(x, k), Width(x)>>
    BY <2>1
  <2>3. PICK y \in L : \E l \in 0 .. Count(y) - 1 : v = <<SlotOf(y, l), Width(y)>>
    BY <1>8
  <2>4. PICK l \in 0 .. Count(y) - 1 : v = <<SlotOf(y, l), Width(y)>>
    BY <2>3
  <2>5. ~ (x = y /\ k = l)
    BY <1>9, <2>2, <2>4
  <2>6. Apart(SlotOf(x, k), Width(x), SlotOf(y, l), Width(y))
    BY <1>3, <2>5, SlotsApart
  <2> QED BY <2>2, <2>4, <2>6
<1>10. ASSUME NEW u \in InUse, NEW i \in Idx, NEW n \in 1 .. Len(pmmap[i])
       PROVE  Apart(u[1], u[2], pmmap[i][n], Size[i])
  <2>1. PICK x \in L : \E k \in 0 .. Count(x) - 1 : u = <<SlotOf(x, k), Width(x)>>
    BY <1>8
  <2>2. PICK k \in 0 .. Count(x) - 1 : u = <<SlotOf(x, k), Width(x)>>
    BY <2>1
  <2>3. PICK b : b = Blk(pmmap[i][n], i)
    OBVIOUS
  <2>4. pmmap[i][n] \in Addr
    BY <1>3 DEF Sound
  <2>5. b \in Blocks /\ b.addr = pmmap[i][n] /\ b.idx = i
    BY <2>3, <2>4 DEF Blk, Blocks
  <2>6. b \in Listed(pmmap)
    BY <2>5 DEF Listed
  <2>7. Page(x) \in held /\ x \in Linkeds /\ Page(x) # b
    BY <1>3, <1>4, <2>6 DEF Sound
  <2>8. BlocksApart(Page(x), b)
    BY <1>3, <2>6, <2>7 DEF Sound, Tiles
  <2>9. Apart(Base(x), Size[PageIdx(Cls(x))], pmmap[i][n], Size[i])
    BY <2>5, <2>7, <2>8, SlabFacts DEF BlocksApart
  <2>10. /\ SlotOf(x, k) \in Nat /\ Base(x) <= SlotOf(x, k)
         /\ SlotOf(x, k) + Width(x) <= Base(x) + Size[PageIdx(Cls(x))]
    BY <2>7, SlotInPage
  <2>11. /\ Base(x) \in Nat /\ Width(x) \in Nat /\ Size[PageIdx(Cls(x))] \in Nat
         /\ pmmap[i][n] \in Nat /\ Size[i] \in Nat
    BY <2>4, <2>7, SlabFacts, AddrType, SizeType
  <2>12. Apart(SlotOf(x, k), Width(x), pmmap[i][n], Size[i])
    BY <2>9, <2>10, <2>11 DEF Apart
  <2> QED BY <2>2, <2>12
<1> QED BY <1>7, <1>9, <1>10 DEF HeapDisjoint

LEMMA PristineFromInv == HeapInv => DrainedIsPristine
<1> SUFFICES ASSUME HeapInv, Ready, live = {}, NEW i \in Class
             PROVE  Len(slabs[i]) = 1 /\ slabs[i][1].bitmap = {}
  BY DEF DrainedIsPristine
<1>1. Running /\ slabs[i] # <<>>
  BY DEF Ready
<1>2. Good(pmmap, held, slabs, {}, allocatable_max)
  BY <1>1, RunningGood
<1>3. PICK L : L = Linked(slabs)
  OBVIOUS
<1>4. /\ Unique(L) /\ Paged(L, held) /\ Accounted(L, {}) /\ HeapSet(L, held, {}) /\ Selfs(L)
      /\ slabs \in [Class -> Seq(SlabRec)]
  BY <1>2, <1>3, GoodUnique DEF Good, HeapSet
<1>5. \A x \in L : x \in Linkeds /\ Bits(x) \subseteq 0 .. Count(x) - 1
  BY <1>4 DEF Paged
<1>6. ASSUME NEW x \in L, NEW k \in Bits(x)
      PROVE  Cls(x) = 0 /\ \E y \in L : Self(y) = SlotOf(x, k)
  <2>1. PICK o : o = Obj(SlotOf(x, k), Cls(x))
    OBVIOUS
  <2>2. k \in 0 .. Count(x) - 1 /\ Cls(x) \in Class
    BY <1>5, SlabFacts
  <2>3. o \in Objects
    BY <1>4, <2>1, <2>2 DEF Unique, Obj, Objects
  <2>4. Used(L, o)
    BY <1>4, <2>1, <2>2, MarkedUsed
  <2>5. IsDesc(L, o)
    BY <1>4, <2>3, <2>4 DEF Accounted
  <2> QED BY <2>1, <2>5 DEF IsDesc, Obj
<1>7. \A y \in L : Self(y) # 0 => Cls(y) = 0 /\ Self(y) = Base(y) /\ \E k \in Bits(y) : k # 0
  <2> SUFFICES ASSUME NEW y \in L, Self(y) # 0
               PROVE  Cls(y) = 0 /\ Self(y) = Base(y) /\ \E k \in Bits(y) : k # 0
    OBVIOUS
  <2>1. IF Cls(y) = 0 THEN Self(y) = Base(y) /\ \E k \in Bits(y) : k # 0 ELSE Bits(y) # {}
    BY <1>4 DEF Selfs
  <2>2. Cls(y) = 0
    BY <1>6, <2>1
  <2> QED BY <2>1, <2>2
<1>8. ASSUME NEW x \in L, Self(x) # 0 PROVE FALSE
  <2>1. PICK k \in Bits(x) : k # 0
    BY <1>7, <1>8
  <2>2. PICK y \in L : Self(y) = SlotOf(x, k)
    BY <1>6
  <2>3. k \in 0 .. Count(x) - 1 /\ SlotOf(x, k) \in Addr
    BY <1>4, <1>5 DEF Unique
  <2>4. SlotOf(x, k) # 0
    BY <2>3, AddrType
  <2>5. Self(y) = Base(y)
    BY <1>7, <2>2, <2>4
  <2>6. SlotOf(y, 0) = Base(y) /\ 0 \in 0 .. Count(y) - 1
    BY <1>5, SlotZero
  <2>7. k = 0
    BY <1>4, <2>2, <2>3, <2>5, <2>6 DEF Unique
  <2> QED BY <2>1, <2>7
<1>9. ASSUME NEW p \in 1 .. Len(slabs[i]) PROVE p = 1 /\ slabs[i][p].bitmap = {}
  <2>1. PICK x : x = At(slabs, i, p)
    OBVIOUS
  <2>2. x \in L /\ Self(x) = slabs[i][p].self /\ (slabs[i][p].self = 0 <=> p = 1)
        /\ Bits(x) = slabs[i][p].bitmap
    BY <1>2, <1>3, <2>1, SlabAtFacts
  <2>3. p = 1
    BY <1>8, <2>2
  <2>4. ASSUME NEW k \in Bits(x) PROVE FALSE
    <3>1. PICK y \in L : Self(y) = SlotOf(x, k)
      BY <1>6, <2>2
    <3>2. k \in 0 .. Count(x) - 1 /\ SlotOf(x, k) \in Addr
      BY <1>4, <1>5, <2>2 DEF Unique
    <3>3. SlotOf(x, k) # 0
      BY <3>2, AddrType
    <3> QED BY <1>8, <3>1, <3>3
  <2> QED BY <2>2, <2>3, <2>4
<1>10. PICK n \in Nat : n = Len(slabs[i])
  BY <1>4
<1>11. n # 0
  BY <1>1, <1>4, <1>10
<1>12. n \in 1 .. n /\ 1 \in 1 .. n
  BY <1>10, <1>11
<1> QED BY <1>9, <1>10, <1>12

-----------------------------------------------------------------------------
(* The theorems.                                                           *)

\* The heap keeps its types: every address it stores, of a page, a slab or an
\* object, lies above the kernel image and inside memory.
THEOREM HeapTypeCorrect == SSpec => []SlabTypeOK
<1>1. HeapInv => SlabTypeOK
  <2> SUFFICES ASSUME HeapInv PROVE SlabTypeOK
    OBVIOUS
  <2>1. PICK lv \in SUBSET Objects : live \subseteq lv /\ Good(pmmap, held, slabs, lv, allocatable_max)
    BY DEF HeapInv, Holds
  <2>2. Sound(pmmap, held, allocatable_max) /\ Listing(slabs)
    BY <2>1 DEF Good, PageLists
  <2>3. live \subseteq [addr : Addr, idx : Class]
    BY <2>1 DEF Objects
  <2> QED BY <2>2, <2>3 DEF SlabTypeOK, Sound, Blocks, Listing
<1> QED BY <1>1, HeapInductive, PTL

\* The bitmaps of kmalloc() and kmfree() are exact after any history of calls,
\* with the SLAB structures the heap allocates for itself counted in.
THEOREM BitmapsExact == SSpec => []BitmapExact
BY ExactFromInv, HeapInductive, PTL

\* Objects, SLAB structures and free pages never overlap.
THEOREM HeapIsDisjoint == SSpec => []HeapDisjoint
BY DisjointFromInv, HeapInductive, PTL

\* Whatever was allocated and in whatever order it was freed, with nothing live
\* every class is back to its empty static slab.
THEOREM DrainsCompletely == SSpec => []DrainedIsPristine
BY PristineFromInv, HeapInductive, PTL

\* The check of kmfree() rejects no live object, and no search or page return of
\* a nested call fails, if the memory pm_init() found ends on a 512 KiB boundary.
THEOREM FreeingIsSafe == Even => (SSpec => []FreeNeverPanics)
<1> SUFFICES ASSUME Even PROVE SSpec => []FreeNeverPanics
  OBVIOUS
<1>1. HeapInv => FreeNeverPanics
  BY DEF HeapInv, Holds, FreeNeverPanics, OOM, NoSize, BadAddr
<1> QED BY <1>1, HeapInductive, PTL

\* A class grows only when all of its slabs are full.
THEOREM GrowsOnlyWhenFull == SSpec => GrowOnlyWhenFull
<1> DEFINE A == \A i \in Class : Len(slabs'[i]) > Len(slabs[i]) /\ slabs[i] # <<>>
                  => \A p \in 1 .. Len(slabs[i]) : slabs[i][p].bitmap = 0 .. Slots(i) - 1
<1>1. HeapInv /\ [SNext]_allVars => [A]_allVars
  <2> SUFFICES ASSUME HeapInv, SNext PROVE A
    OBVIOUS
  <2>0. \A j \in Class : Len(slabs[j]) \in Nat
    BY DEF HeapInv, Holds, Good, Listing
  <2>1. CASE BootPages \/ Stopped
    <3>1. slabs' = slabs
      BY <2>1 DEF BootPages, Stopped, slabVars
    <3> QED BY <2>0, <3>1
  <2>2. ASSUME NEW i \in Class, slab_init(i) PROVE A
    <3>1. \A j \in Class : slabs[j] # <<>> => slabs'[j] = slabs[j]
      BY <2>2, StepSlabInit
    <3> QED BY <2>0, <3>1
  <2>3. ASSUME NEW size \in Requests, kmalloc(size) PROVE A
    <3>1. \A j \in Class : Len(slabs'[j]) > Len(slabs[j]) => Full(slabs, j)
      BY <2>3, StepKmalloc
    <3> QED BY <3>1 DEF Full
  <2>4. ASSUME NEW o \in live, kmfree(o) PROVE A
    <3>1. \A j \in Class : ~ (Len(slabs'[j]) > Len(slabs[j]))
      BY <2>4, StepKmfree
    <3> QED BY <3>1
  <2> QED BY <2>1, <2>2, <2>3, <2>4 DEF SNext
<1>2. SSpec => [][A]_allVars
  BY <1>1, HeapInductive, PTL DEF SSpec
<1> QED BY <1>2 DEF GrowOnlyWhenFull
=============================================================================
