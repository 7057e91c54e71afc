--------------------------- MODULE PhysMemProofs ---------------------------
(***************************************************************************)
(* Proofs about the physical allocator for every memory layout, block size *)
(* and split factor that satisfy PMAssumption.                             *)
(*                                                                         *)
(* The argument forgets the order of the lists.  The free blocks are a set *)
(* (Listed), every list is free of repetitions, and the free and the held  *)
(* blocks together tile the memory pm_init() has freed: they are inside    *)
(* it, no two share an address, and they cover it.  Popping a block for a  *)
(* caller and pushing it back move a block between the two sets, so the    *)
(* tiling is the same tiling; only pm_init() adds a tile, and only a split *)
(* replaces one by smaller ones.                                           *)
(***************************************************************************)
EXTENDS PhysMem, TLAPS

-----------------------------------------------------------------------------
(* Arithmetic of a block cut into equal pieces.                            *)

\* Two pieces of size S do not overlap.
LEMMA MulStep ==
  ASSUME NEW S \in Nat, NEW k \in Nat, NEW l \in Nat, k < l
  PROVE  k * S + S <= l * S
<1>1. PICK d \in Nat : l = k + 1 + d
  <2> WITNESS l - k - 1 \in Nat
  <2> QED OBVIOUS
<1>2. l * S = k * S + S + d * S
  BY <1>1
<1>3. d * S \in Nat /\ k * S \in Nat /\ l * S \in Nat
  OBVIOUS
<1> QED BY <1>2, <1>3

\* Every offset below N * S lies in one of the N pieces.
LEMMA DivStep ==
  ASSUME NEW S \in Nat \ {0}, NEW N \in Nat, NEW y \in Nat, y < N * S
  PROVE  \E q \in 0 .. N - 1 : q * S <= y /\ y < q * S + S
<1>1. PICK q \in Nat : q * S <= y /\ y < q * S + S
  <2> WITNESS y \div S \in Nat
  <2> QED OBVIOUS
<1>2. ASSUME N <= q PROVE FALSE
  <2>1. N * S \in Nat /\ q * S \in Nat
    OBVIOUS
  <2>2. CASE N = q
    BY <2>1, <2>2, <1>1
  <2>3. CASE N < q
    <3>1. N * S + S <= q * S
      BY MulStep, <2>3
    <3> QED BY <3>1, <2>1, <1>1
  <2> QED BY <2>2, <2>3, <1>2
<1>3. q \in 0 .. N - 1
  BY <1>2
<1> QED BY <1>1, <1>3

LEMMA SizeType == Size \in [Idx -> Nat \ {0}]
<1>1. PM_512K # 0 /\ PM_64M # 0
  <2>1. PM_512K # 0
    BY PMAssumption
  <2> QED BY <2>1, PMAssumption
<1> QED BY <1>1, PMAssumption DEF Size, Idx

-----------------------------------------------------------------------------
Blocks == [addr : Addr, idx : Idx]

Blk(a, i) == [addr |-> a, idx |-> i]

Listed(m) == {b \in Blocks : \E k \in 1 .. Len(m[b.idx]) : m[b.idx][k] = b.addr}

NoRepeats(m) ==
  \A i \in Idx : \A k, l \in 1 .. Len(m[i]) : m[i][k] = m[i][l] => k = l

InsideBlock(b, lo) == lo <= b.addr /\ b.addr + Size[b.idx] <= AllocatableMax

BlocksApart(b, c) == Apart(b.addr, Size[b.idx], c.addr, Size[c.idx])

Tiles(U, lo) ==
  /\ U \subseteq Blocks
  /\ \A b \in U : InsideBlock(b, lo)
  /\ \A b, c \in U : b # c => BlocksApart(b, c)
  /\ \A x \in Nat : lo <= x /\ x < AllocatableMax
                      => \E b \in U : InBlock(x, b.addr, Size[b.idx])

Sound(m, h, lo) ==
  /\ m \in [Idx -> Seq(Addr)]
  /\ h \subseteq Blocks
  /\ lo \in Nat
  /\ NoRepeats(m)
  /\ Listed(m) \cap h = {}
  /\ Tiles(Listed(m) \cup h, lo)

-----------------------------------------------------------------------------
(* What the list operations do to the set of free blocks.                  *)

LEMMA TailFacts ==
  ASSUME NEW s \in Seq(Addr), s # <<>>
  PROVE  /\ Tail(s) \in Seq(Addr)
         /\ Head(s) \in Addr
         /\ Head(s) = s[1]
         /\ Len(s) \in Nat \ {0}
         /\ Len(Tail(s)) = Len(s) - 1
         /\ \A k \in 1 .. Len(Tail(s)) : Tail(s)[k] = s[k + 1]
OBVIOUS

LEMMA PushFacts ==
  ASSUME NEW m \in [Idx -> Seq(Addr)], NEW i \in Idx, NEW a \in Addr
  PROVE  /\ Push(m, i, a) \in [Idx -> Seq(Addr)]
         /\ Len(Push(m, i, a)[i]) = Len(m[i]) + 1
         /\ Push(m, i, a)[i][1] = a
         /\ \A k \in 1 .. Len(m[i]) : Push(m, i, a)[i][k + 1] = m[i][k]
         /\ \A k \in 2 .. Len(m[i]) + 1 : Push(m, i, a)[i][k] = m[i][k - 1]
         /\ \A j \in Idx : j # i => Push(m, i, a)[j] = m[j]
BY DEF Push, Idx

LEMMA PushListed ==
  ASSUME NEW m \in [Idx -> Seq(Addr)], NEW i \in Idx, NEW a \in Addr,
         NoRepeats(m), Blk(a, i) \notin Listed(m)
  PROVE  /\ Push(m, i, a) \in [Idx -> Seq(Addr)]
         /\ Listed(Push(m, i, a)) = Listed(m) \cup {Blk(a, i)}
         /\ NoRepeats(Push(m, i, a))
<1> DEFINE n == Push(m, i, a)
<1>1. /\ n \in [Idx -> Seq(Addr)]
      /\ Len(n[i]) = Len(m[i]) + 1 /\ n[i][1] = a
      /\ \A k \in 1 .. Len(m[i]) : n[i][k + 1] = m[i][k]
      /\ \A k \in 2 .. Len(m[i]) + 1 : n[i][k] = m[i][k - 1]
      /\ \A j \in Idx : j # i => n[j] = m[j]
  BY PushFacts
<1> HIDE DEF n
<1>2. Len(m[i]) \in Nat
  OBVIOUS
<1>3. ASSUME NEW b \in Listed(n) PROVE b \in Listed(m) \cup {Blk(a, i)}
  <2>1. b \in Blocks /\ b.idx \in Idx /\ b = Blk(b.addr, b.idx)
    BY DEF Listed, Blocks, Blk
  <2>2. PICK k \in 1 .. Len(n[b.idx]) : n[b.idx][k] = b.addr
    BY DEF Listed
  <2>3. CASE b.idx # i
    <3>1. n[b.idx] = m[b.idx]
      BY <1>1, <2>1, <2>3
    <3> QED BY <2>1, <2>2, <3>1 DEF Listed
  <2>4. CASE b.idx = i /\ k = 1
    BY <1>1, <2>1, <2>2, <2>4
  <2>5. CASE b.idx = i /\ k # 1
    <3>1. k - 1 \in 1 .. Len(m[i]) /\ m[i][k - 1] = b.addr
      BY <1>1, <1>2, <2>2, <2>5
    <3> QED BY <2>1, <2>5, <3>1 DEF Listed
  <2> QED BY <2>3, <2>4, <2>5
<1>4. ASSUME NEW b \in Listed(m) PROVE b \in Listed(n)
  <2>1. b \in Blocks /\ b.idx \in Idx
    BY DEF Listed, Blocks
  <2>2. PICK k \in 1 .. Len(m[b.idx]) : m[b.idx][k] = b.addr
    BY DEF Listed
  <2>3. CASE b.idx # i
    <3>1. n[b.idx] = m[b.idx]
      BY <1>1, <2>1, <2>3
    <3> QED BY <2>1, <2>2, <3>1 DEF Listed
  <2>4. CASE b.idx = i
    <3>1. k + 1 \in 1 .. Len(n[i]) /\ n[i][k + 1] = b.addr
      BY <1>1, <1>2, <2>2, <2>4
    <3> QED BY <2>1, <2>4, <3>1 DEF Listed
  <2> QED BY <2>3, <2>4
<1>5. Blk(a, i) \in Listed(n)
  <2>1. Blk(a, i) \in Blocks /\ Blk(a, i).idx = i /\ Blk(a, i).addr = a
    BY DEF Blk, Blocks
  <2>2. 1 \in 1 .. Len(n[i])
    BY <1>1, <1>2
  <2> QED BY <1>1, <2>1, <2>2 DEF Listed
<1>6. ASSUME NEW k \in 1 .. Len(m[i]) PROVE m[i][k] # a
  <2>1. Blk(a, i) \in Blocks /\ Blk(a, i).idx = i /\ Blk(a, i).addr = a
    BY DEF Blk, Blocks
  <2> QED BY <2>1 DEF Listed
<1>7. NoRepeats(n)
  <2> SUFFICES ASSUME NEW j \in Idx, NEW k \in 1 .. Len(n[j]), NEW l \in 1 .. Len(n[j]),
                      n[j][k] = n[j][l]
               PROVE  k = l
    BY DEF NoRepeats
  <2>1. CASE j # i
    <3>1. n[j] = m[j]
      BY <1>1, <2>1
    <3> QED BY <3>1 DEF NoRepeats
  <2>2. CASE j = i
    <3>1. ASSUME NEW p \in 1 .. Len(n[i]), p # 1
          PROVE  p - 1 \in 1 .. Len(m[i]) /\ n[i][p] = m[i][p - 1]
      BY <1>1, <1>2, <3>1
    <3>2. CASE k = 1 /\ l # 1
      BY <1>1, <1>6, <2>2, <3>1, <3>2
    <3>3. CASE k # 1 /\ l = 1
      BY <1>1, <1>6, <2>2, <3>1, <3>3, ZenonT(90)
    <3>4. CASE k # 1 /\ l # 1
      <4>1. m[i][k - 1] = m[i][l - 1]
        BY <2>2, <3>1, <3>4
      <4>2. k - 1 = l - 1
        BY <2>2, <3>1, <3>4, <4>1 DEF NoRepeats
      <4> QED BY <4>2
    <3> QED BY <3>2, <3>3, <3>4
  <2> QED BY <2>1, <2>2
<1> QED BY <1>1, <1>3, <1>4, <1>5, <1>7 DEF n

LEMMA PopListed ==
  ASSUME NEW m \in [Idx -> Seq(Addr)], NEW i \in Idx, NoRepeats(m), m[i] # <<>>
  PROVE  /\ [m EXCEPT ![i] = Tail(m[i])] \in [Idx -> Seq(Addr)]
         /\ Head(m[i]) \in Addr
         /\ Blk(Head(m[i]), i) \in Listed(m)
         /\ Listed([m EXCEPT ![i] = Tail(m[i])]) = Listed(m) \ {Blk(Head(m[i]), i)}
         /\ NoRepeats([m EXCEPT ![i] = Tail(m[i])])
<1> DEFINE n == [m EXCEPT ![i] = Tail(m[i])]
           a == Head(m[i])
<1>1. /\ Tail(m[i]) \in Seq(Addr) /\ a \in Addr /\ a = m[i][1]
      /\ Len(m[i]) \in Nat \ {0}
      /\ Len(Tail(m[i])) = Len(m[i]) - 1
      /\ \A k \in 1 .. Len(Tail(m[i])) : Tail(m[i])[k] = m[i][k + 1]
  BY TailFacts
<1>2. /\ n \in [Idx -> Seq(Addr)]
      /\ n[i] = Tail(m[i])
      /\ \A j \in Idx : j # i => n[j] = m[j]
  BY <1>1
<1>3. /\ Len(n[i]) = Len(m[i]) - 1
      /\ \A k \in 1 .. Len(n[i]) : n[i][k] = m[i][k + 1]
  BY <1>1, <1>2
<1>10. Len(m[i]) \in Nat \ {0} /\ Len(n[i]) = Len(m[i]) - 1
  BY <1>1, <1>3
<1> HIDE DEF n, a
<1>4. Blk(a, i) \in Blocks /\ Blk(a, i).idx = i /\ Blk(a, i).addr = a
  BY <1>1 DEF Blk, Blocks
<1>5. Blk(a, i) \in Listed(m)
  <2>1. 1 \in 1 .. Len(m[i])
    BY <1>1
  <2> QED BY <1>1, <1>4, <2>1 DEF Listed
<1>6. ASSUME NEW k \in 1 .. Len(n[i])
      PROVE  k + 1 \in 1 .. Len(m[i]) /\ n[i][k] = m[i][k + 1] /\ m[i][k + 1] # a
  <2>1. k + 1 \in 1 .. Len(m[i]) /\ 1 \in 1 .. Len(m[i]) /\ k + 1 # 1
    BY <1>10
  <2>2. m[i][k + 1] # m[i][1]
    BY <2>1 DEF NoRepeats
  <2> QED BY <1>1, <1>3, <2>1, <2>2
<1>7. ASSUME NEW b \in Listed(n) PROVE b \in Listed(m) /\ b # Blk(a, i)
  <2>1. b \in Blocks /\ b.idx \in Idx
    BY DEF Listed, Blocks
  <2>2. PICK k \in 1 .. Len(n[b.idx]) : n[b.idx][k] = b.addr
    BY DEF Listed
  <2>3. CASE b.idx # i
    <3>1. n[b.idx] = m[b.idx]
      BY <1>2, <2>1, <2>3
    <3> QED BY <1>4, <2>1, <2>2, <2>3, <3>1 DEF Listed
  <2>4. CASE b.idx = i
    <3>1. k + 1 \in 1 .. Len(m[i]) /\ b.addr = m[i][k + 1] /\ b.addr # a
      BY <1>6, <2>2, <2>4
    <3> QED BY <1>4, <2>1, <2>4, <3>1 DEF Listed
  <2> QED BY <2>3, <2>4
<1>8. ASSUME NEW b \in Listed(m), b # Blk(a, i) PROVE b \in Listed(n)
  <2>1. b \in Blocks /\ b.idx \in Idx /\ b = Blk(b.addr, b.idx)
    BY DEF Listed, Blocks, Blk
  <2>2. PICK k \in 1 .. Len(m[b.idx]) : m[b.idx][k] = b.addr
    BY DEF Listed
  <2>3. CASE b.idx # i
    <3>1. n[b.idx] = m[b.idx]
      BY <1>2, <2>1, <2>3
    <3> QED BY <2>1, <2>2, <3>1 DEF Listed
  <2>4. CASE b.idx = i
    <3>1. k # 1
      BY <1>1, <1>8, <2>1, <2>2, <2>4
    <3>2. k - 1 \in 1 .. Len(n[i]) /\ (k - 1) + 1 = k
      BY <1>10, <2>4, <3>1
    <3>3. n[i][k - 1] = m[i][k]
      BY <1>3, <3>2
    <3> QED BY <2>1, <2>2, <2>4, <3>2, <3>3 DEF Listed
  <2> QED BY <2>3, <2>4
<1>9. NoRepeats(n)
  <2> SUFFICES ASSUME NEW j \in Idx, NEW k \in 1 .. Len(n[j]), NEW l \in 1 .. Len(n[j]),
                      n[j][k] = n[j][l]
               PROVE  k = l
    BY DEF NoRepeats
  <2>1. CASE j # i
    <3>1. n[j] = m[j]
      BY <1>2, <2>1
    <3> QED BY <3>1 DEF NoRepeats
  <2>2. CASE j = i
    <3>1. k + 1 = l + 1
      BY <1>6, <2>2 DEF NoRepeats
    <3> QED BY <3>1
  <2> QED BY <2>1, <2>2
<1> QED BY <1>1, <1>2, <1>5, <1>7, <1>8, <1>9 DEF n, a

-----------------------------------------------------------------------------
(* Cutting a block.                                                        *)

Pieces(a, i) == {Blk(a + (k - 1) * Size[i], i) : k \in 1 .. SplitN}

LEMMA SizeStep ==
  ASSUME NEW i \in {0, 1}
  PROVE  /\ i \in Idx /\ i + 1 \in Idx /\ i + 1 # i
         /\ Size[i] \in Nat \ {0} /\ Size[i + 1] \in Nat
         /\ Size[i + 1] = SplitN * Size[i]
<1>1. CASE i = 0
  BY <1>1, SizeType, PMAssumption DEF Size, Idx
<1>2. CASE i = 1
  BY <1>2, SizeType, PMAssumption DEF Size, Idx
<1> QED BY <1>1, <1>2

\* A piece lies inside the block it was cut from.
LEMMA PieceInside ==
  ASSUME NEW i \in {0, 1}, NEW k \in 1 .. SplitN
  PROVE  /\ (k - 1) * Size[i] \in Nat
         /\ (k - 1) * Size[i] + Size[i] <= Size[i + 1]
<1>1. Size[i] \in Nat /\ Size[i + 1] = SplitN * Size[i] /\ SplitN \in Nat
  BY SizeStep, PMAssumption
<1>2. k - 1 \in Nat /\ k - 1 < SplitN
  BY <1>1
<1>3. (k - 1) * Size[i] + Size[i] <= SplitN * Size[i]
  BY <1>1, <1>2, MulStep
<1>4. (k - 1) * Size[i] \in Nat
  BY <1>1, <1>2
<1> QED BY <1>1, <1>3, <1>4

LEMMA PiecesApart ==
  ASSUME NEW i \in {0, 1}, NEW a \in Nat, NEW k \in 1 .. SplitN, NEW l \in 1 .. SplitN, k # l
  PROVE  Apart(a + (k - 1) * Size[i], Size[i], a + (l - 1) * Size[i], Size[i])
<1>1. Size[i] \in Nat \ {0} /\ SplitN \in Nat
  BY SizeStep, PMAssumption
<1>2. k - 1 \in Nat /\ l - 1 \in Nat /\ (k - 1) * Size[i] \in Nat /\ (l - 1) * Size[i] \in Nat
  BY <1>1, PieceInside
<1>3. CASE k < l
  <2>1. (k - 1) * Size[i] + Size[i] <= (l - 1) * Size[i]
    BY <1>1, <1>2, <1>3, MulStep
  <2> QED BY <1>1, <1>2, <2>1 DEF Apart
<1>4. CASE l < k
  <2>1. (l - 1) * Size[i] + Size[i] <= (k - 1) * Size[i]
    BY <1>1, <1>2, <1>4, MulStep
  <2> QED BY <1>1, <1>2, <2>1 DEF Apart
<1> QED BY <1>1, <1>3, <1>4

LEMMA PiecesCover ==
  ASSUME NEW i \in {0, 1}, NEW a \in Nat, NEW x \in Nat, InBlock(x, a, Size[i + 1])
  PROVE  \E k \in 1 .. SplitN : InBlock(x, a + (k - 1) * Size[i], Size[i])
<1>1. /\ Size[i] \in Nat \ {0} /\ Size[i + 1] = SplitN * Size[i]
      /\ SplitN \in Nat /\ Size[i + 1] \in Nat
  BY SizeStep, PMAssumption
<1>2. x - a \in Nat /\ x - a < SplitN * Size[i]
  BY <1>1 DEF InBlock
<1>3. PICK q \in 0 .. SplitN - 1 : q * Size[i] <= x - a /\ x - a < q * Size[i] + Size[i]
  BY <1>1, <1>2, DivStep
<1>4. q + 1 \in 1 .. SplitN /\ (q + 1) - 1 = q /\ q * Size[i] \in Nat
  BY <1>1
<1>5. InBlock(x, a + q * Size[i], Size[i])
  BY <1>1, <1>3, <1>4 DEF InBlock
<1> QED BY <1>4, <1>5

LEMMA SplitListed ==
  ASSUME NEW m \in [Idx -> Seq(Addr)], NoRepeats(m), NEW i \in {0, 1}, m[i] = <<>>,
         NEW a \in Nat, \A k \in 1 .. SplitN : a + (k - 1) * Size[i] \in Addr
  PROVE  /\ [m EXCEPT ![i] = Split(a, i)] \in [Idx -> Seq(Addr)]
         /\ Listed([m EXCEPT ![i] = Split(a, i)]) = Listed(m) \cup Pieces(a, i)
         /\ NoRepeats([m EXCEPT ![i] = Split(a, i)])
<1> DEFINE n == [m EXCEPT ![i] = Split(a, i)]
<1>1. i \in Idx /\ Size[i] \in Nat \ {0} /\ SplitN \in Nat
  BY SizeStep, PMAssumption
<1>2. /\ Split(a, i) \in Seq(Addr) /\ Len(Split(a, i)) = SplitN
      /\ \A k \in 1 .. SplitN : Split(a, i)[k] = a + (k - 1) * Size[i]
  <2>1. Split(a, i) \in [1 .. SplitN -> Addr]
    BY DEF Split
  <2>2. Split(a, i) \in Seq(Addr) /\ Len(Split(a, i)) = SplitN
    BY <1>1, <2>1
  <2> QED BY <2>2 DEF Split
<1>3. /\ n \in [Idx -> Seq(Addr)] /\ n[i] = Split(a, i)
      /\ \A j \in Idx : j # i => n[j] = m[j]
  BY <1>1, <1>2
<1>4. /\ Len(n[i]) = SplitN
      /\ \A k \in 1 .. SplitN : n[i][k] = a + (k - 1) * Size[i]
  BY <1>2, <1>3
<1> HIDE DEF n
<1>5. ASSUME NEW b \in Listed(n) PROVE b \in Listed(m) \cup Pieces(a, i)
  <2>1. b \in Blocks /\ b.idx \in Idx /\ b = Blk(b.addr, b.idx)
    BY DEF Listed, Blocks, Blk
  <2>2. PICK k \in 1 .. Len(n[b.idx]) : n[b.idx][k] = b.addr
    BY DEF Listed
  <2>3. CASE b.idx # i
    <3>1. n[b.idx] = m[b.idx]
      BY <1>3, <2>1, <2>3
    <3> QED BY <2>1, <2>2, <3>1 DEF Listed
  <2>4. CASE b.idx = i
    <3>1. k \in 1 .. SplitN /\ b.addr = a + (k - 1) * Size[i]
      BY <1>4, <2>2, <2>4
    <3>2. b = Blk(a + (k - 1) * Size[i], i)
      BY <2>1, <2>4, <3>1
    <3> QED BY <3>1, <3>2 DEF Pieces
  <2> QED BY <2>3, <2>4
<1>6. ASSUME NEW b \in Listed(m) PROVE b \in Listed(n)
  <2>1. b \in Blocks /\ b.idx \in Idx
    BY DEF Listed, Blocks
  <2>2. PICK k \in 1 .. Len(m[b.idx]) : m[b.idx][k] = b.addr
    BY DEF Listed
  <2>3. b.idx # i
    BY <2>2
  <2>4. n[b.idx] = m[b.idx]
    BY <1>3, <2>1, <2>3
  <2> QED BY <2>1, <2>2, <2>4 DEF Listed
<1>7. ASSUME NEW b \in Pieces(a, i) PROVE b \in Listed(n)
  <2>1. PICK k \in 1 .. SplitN : b = Blk(a + (k - 1) * Size[i], i)
    BY DEF Pieces
  <2>2. b \in Blocks /\ b.idx = i /\ b.addr = a + (k - 1) * Size[i]
    BY <1>1, <2>1 DEF Blk, Blocks
  <2> QED BY <1>4, <2>2 DEF Listed
<1>8. NoRepeats(n)
  <2> SUFFICES ASSUME NEW j \in Idx, NEW k \in 1 .. Len(n[j]), NEW l \in 1 .. Len(n[j]),
                      n[j][k] = n[j][l], k # l
               PROVE  FALSE
    BY DEF NoRepeats
  <2>1. CASE j # i
    <3>1. n[j] = m[j]
      BY <1>3, <2>1
    <3> QED BY <3>1 DEF NoRepeats
  <2>2. CASE j = i
    <3>1. k \in 1 .. SplitN /\ l \in 1 .. SplitN
      BY <1>4, <2>2
    <3>2. a + (k - 1) * Size[i] = a + (l - 1) * Size[i]
      BY <1>4, <2>2, <3>1
    <3>3. Apart(a + (k - 1) * Size[i], Size[i], a + (l - 1) * Size[i], Size[i])
      BY <3>1, PiecesApart
    <3>4. (k - 1) * Size[i] \in Nat /\ (l - 1) * Size[i] \in Nat
      BY <3>1, PieceInside
    <3> QED BY <1>1, <3>2, <3>3, <3>4, SMTT(40) DEF Apart
  <2> QED BY <2>1, <2>2
<1> QED BY <1>3, <1>5, <1>6, <1>7, <1>8 DEF n

-----------------------------------------------------------------------------
(* The tiling.                                                             *)

LEMMA BlockType ==
  ASSUME NEW b \in Blocks
  PROVE  /\ b.addr \in Addr /\ b.addr \in Nat /\ b.idx \in Idx
         /\ Size[b.idx] \in Nat \ {0}
BY SizeType, PMAssumption DEF Blocks, Addr

\* pm_init() adds the block that ends where the freed memory begins.
LEMMA TilesBoot ==
  ASSUME NEW U, NEW lo \in Nat, Tiles(U, lo), NEW c \in Blocks,
         c.addr + Size[c.idx] = lo, lo <= AllocatableMax
  PROVE  Tiles(U \cup {c}, c.addr) /\ c \notin U
<1>0. /\ c.addr \in Nat /\ Size[c.idx] \in Nat \ {0} /\ AllocatableMax \in Nat
      /\ c.addr < lo
  BY BlockType, PMAssumption
<1>1. ASSUME NEW b \in U
      PROVE  /\ b \in Blocks /\ b.addr \in Nat /\ Size[b.idx] \in Nat
             /\ lo <= b.addr /\ b.addr + Size[b.idx] <= AllocatableMax
  <2>1. b \in Blocks /\ InsideBlock(b, lo)
    BY DEF Tiles
  <2> QED BY <2>1, BlockType DEF InsideBlock
<1>2. ASSUME NEW b \in U PROVE InsideBlock(b, c.addr)
  BY <1>0, <1>1 DEF InsideBlock
<1>3. InsideBlock(c, c.addr)
  BY <1>0 DEF InsideBlock
<1>4. ASSUME NEW b \in U PROVE BlocksApart(b, c) /\ BlocksApart(c, b) /\ b # c
  <2>1. lo <= b.addr /\ b.addr \in Nat
    BY <1>1
  <2> QED BY <1>0, <2>1 DEF BlocksApart, Apart
<1>5. ASSUME NEW x \in Nat, c.addr <= x, x < AllocatableMax
      PROVE  \E b \in U \cup {c} : InBlock(x, b.addr, Size[b.idx])
  <2>1. CASE x < lo
    BY <1>0, <1>5, <2>1 DEF InBlock
  <2>2. CASE lo <= x
    BY <1>5, <2>2 DEF Tiles
  <2> QED BY <2>1, <2>2
<1>6. U \cup {c} \subseteq Blocks
  BY DEF Tiles
<1>7. \A b \in U \cup {c} : InsideBlock(b, c.addr)
  BY <1>2, <1>3
<1>8. ASSUME NEW b \in U \cup {c}, NEW d \in U \cup {c}, b # d PROVE BlocksApart(b, d)
  <2>1. CASE b \in U /\ d \in U
    BY <1>8, <2>1 DEF Tiles
  <2> QED BY <1>4, <1>8, <2>1
<1> QED BY <1>4, <1>5, <1>6, <1>7, <1>8 DEF Tiles

\* A split replaces a tile by smaller tiles of the same memory.
LEMMA TilesSplit ==
  ASSUME NEW U, NEW lo \in Nat, Tiles(U, lo), NEW i \in {0, 1},
         NEW c \in U, c.idx = i + 1
  PROVE  /\ \A k \in 1 .. SplitN : c.addr + (k - 1) * Size[i] \in Addr
         /\ Tiles((U \ {c}) \cup Pieces(c.addr, i), lo)
         /\ (U \ {c}) \cap Pieces(c.addr, i) = {}
<1> DEFINE V == (U \ {c}) \cup Pieces(c.addr, i)
<1>1. /\ c \in Blocks /\ c.addr \in Addr /\ c.addr \in Nat
      /\ lo <= c.addr /\ c.addr + Size[i + 1] <= AllocatableMax
  <2>1. c \in Blocks /\ InsideBlock(c, lo)
    BY DEF Tiles
  <2> QED BY <2>1, BlockType DEF InsideBlock
<1>2. /\ i \in Idx /\ Size[i] \in Nat \ {0} /\ Size[i + 1] \in Nat
      /\ AllocatableMax \in Nat /\ MemTotal \in Nat /\ AllocatableMax <= MemTotal
      /\ KernelEnd \in Nat
  BY SizeStep, PMAssumption
<1>3. ASSUME NEW k \in 1 .. SplitN
      PROVE  /\ c.addr + (k - 1) * Size[i] \in Addr
             /\ c.addr <= c.addr + (k - 1) * Size[i]
             /\ c.addr + (k - 1) * Size[i] + Size[i] <= c.addr + Size[i + 1]
  <2>1. (k - 1) * Size[i] \in Nat /\ (k - 1) * Size[i] + Size[i] <= Size[i + 1]
    BY PieceInside
  <2> QED BY <1>1, <1>2, <2>1 DEF Addr
<1>4. ASSUME NEW b \in Pieces(c.addr, i)
      PROVE  /\ b \in Blocks /\ b.idx = i /\ b.addr \in Nat
             /\ c.addr <= b.addr /\ b.addr + Size[i] <= c.addr + Size[i + 1]
  <2>1. PICK k \in 1 .. SplitN : b = Blk(c.addr + (k - 1) * Size[i], i)
    BY DEF Pieces
  <2>2. b.addr = c.addr + (k - 1) * Size[i] /\ b.idx = i /\ b \in Blocks
    BY <1>2, <1>3, <2>1 DEF Blk, Blocks
  <2> QED BY <1>3, <2>2, BlockType
<1>5. ASSUME NEW b \in U, b # c
      PROVE  /\ b \in Blocks /\ b.addr \in Nat /\ Size[b.idx] \in Nat \ {0}
             /\ b.addr + Size[b.idx] <= c.addr \/ c.addr + Size[i + 1] <= b.addr
  <2>1. b \in Blocks /\ BlocksApart(b, c)
    BY <1>5 DEF Tiles
  <2> QED BY <2>1, BlockType DEF BlocksApart, Apart
<1>6. ASSUME NEW b \in U, b # c, NEW d \in Pieces(c.addr, i)
      PROVE  BlocksApart(b, d) /\ BlocksApart(d, b) /\ b # d
  <2>1. /\ d.idx = i /\ d.addr \in Nat /\ c.addr <= d.addr
        /\ d.addr + Size[i] <= c.addr + Size[i + 1]
    BY <1>4
  <2>2. /\ b.addr \in Nat /\ Size[b.idx] \in Nat \ {0}
        /\ b.addr + Size[b.idx] <= c.addr \/ c.addr + Size[i + 1] <= b.addr
    BY <1>5, <1>6
  <2>3. c.addr \in Nat /\ Size[i] \in Nat \ {0} /\ Size[i + 1] \in Nat
    BY <1>1, <1>2
  <2>4. Apart(b.addr, Size[b.idx], d.addr, Size[i]) /\ Apart(d.addr, Size[i], b.addr, Size[b.idx])
    BY <2>1, <2>2, <2>3 DEF Apart
  <2>5. b # d
    BY <2>1, <2>2, <2>3
  <2> QED BY <2>1, <2>4, <2>5 DEF BlocksApart
<1>7. ASSUME NEW b \in Pieces(c.addr, i), NEW d \in Pieces(c.addr, i), b # d
      PROVE  BlocksApart(b, d)
  <2>1. PICK k \in 1 .. SplitN : b = Blk(c.addr + (k - 1) * Size[i], i)
    BY DEF Pieces
  <2>2. PICK l \in 1 .. SplitN : d = Blk(c.addr + (l - 1) * Size[i], i)
    BY DEF Pieces
  <2>3. k # l
    BY <1>7, <2>1, <2>2
  <2>4. Apart(c.addr + (k - 1) * Size[i], Size[i], c.addr + (l - 1) * Size[i], Size[i])
    BY <1>1, <2>3, PiecesApart
  <2> QED BY <2>1, <2>2, <2>4 DEF BlocksApart, Blk
<1>8. V \subseteq Blocks
  BY <1>4, <1>5
<1>9. ASSUME NEW b \in V PROVE InsideBlock(b, lo)
  <2>1. CASE b \in U
    BY <2>1 DEF Tiles
  <2>2. CASE b \in Pieces(c.addr, i)
    <3>1. /\ b.idx = i /\ b.addr \in Nat /\ c.addr <= b.addr
          /\ b.addr + Size[i] <= c.addr + Size[i + 1]
      BY <1>4, <2>2
    <3> QED BY <1>1, <1>2, <3>1 DEF InsideBlock
  <2> QED BY <2>1, <2>2
<1>10. ASSUME NEW b \in V, NEW d \in V, b # d PROVE BlocksApart(b, d)
  <2>1. CASE b \in U \ {c} /\ d \in U \ {c}
    BY <1>10, <2>1 DEF Tiles
  <2> QED BY <1>6, <1>7, <1>10, <2>1
<1>11. ASSUME NEW x \in Nat, lo <= x, x < AllocatableMax
       PROVE  \E b \in V : InBlock(x, b.addr, Size[b.idx])
  <2>1. PICK b \in U : InBlock(x, b.addr, Size[b.idx])
    BY <1>11 DEF Tiles
  <2>2. CASE b = c
    <3>1. PICK k \in 1 .. SplitN : InBlock(x, c.addr + (k - 1) * Size[i], Size[i])
      BY <1>1, <2>1, <2>2, PiecesCover
    <3>2. Blk(c.addr + (k - 1) * Size[i], i) \in V
      BY DEF Pieces
    <3> QED BY <3>1, <3>2 DEF Blk
  <2> QED BY <2>1, <2>2
<1> QED BY <1>3, <1>6, <1>8, <1>9, <1>10, <1>11 DEF Tiles

-----------------------------------------------------------------------------
(* What the code does to lists and owners preserves Sound.                 *)

LEMMA SoundBoot ==
  ASSUME NEW m, NEW h, NEW lo, Sound(m, h, lo), NEW i \in Idx, NEW a \in Addr,
         a + Size[i] = lo, lo <= AllocatableMax
  PROVE  Sound(Push(m, i, a), h, a)
<1> DEFINE c == Blk(a, i)
<1>1. c \in Blocks /\ c.addr = a /\ c.idx = i /\ a \in Nat
  BY PMAssumption DEF Blk, Blocks, Addr
<1> HIDE DEF c
<1>2. /\ Tiles((Listed(m) \cup h) \cup {c}, a)
      /\ c \notin Listed(m) \cup h
  BY <1>1, TilesBoot DEF Sound
<1>3. /\ Push(m, i, a) \in [Idx -> Seq(Addr)]
      /\ Listed(Push(m, i, a)) = Listed(m) \cup {c}
      /\ NoRepeats(Push(m, i, a))
  BY <1>2, PushListed DEF Sound, c
<1>4. (Listed(m) \cup h) \cup {c} = Listed(Push(m, i, a)) \cup h
  BY <1>3
<1> QED BY <1>1, <1>2, <1>3, <1>4 DEF Sound

LEMMA SoundPush ==
  ASSUME NEW m, NEW h, NEW lo, Sound(m, h, lo), NEW b \in h
  PROVE  Sound(Push(m, b.idx, b.addr), h \ {b}, lo)
<1>1. b \in Blocks /\ b = Blk(b.addr, b.idx) /\ b.addr \in Addr /\ b.idx \in Idx
  BY DEF Sound, Blocks, Blk
<1>2. b \notin Listed(m)
  BY DEF Sound
<1>3. /\ Push(m, b.idx, b.addr) \in [Idx -> Seq(Addr)]
      /\ Listed(Push(m, b.idx, b.addr)) = Listed(m) \cup {b}
      /\ NoRepeats(Push(m, b.idx, b.addr))
  BY <1>1, <1>2, PushListed DEF Sound
<1>4. Listed(Push(m, b.idx, b.addr)) \cup (h \ {b}) = Listed(m) \cup h
  BY <1>3
<1> QED BY <1>2, <1>3, <1>4 DEF Sound

LEMMA SoundPop ==
  ASSUME NEW m, NEW h, NEW lo, Sound(m, h, lo), NEW i \in Idx, m[i] # <<>>
  PROVE  Sound([m EXCEPT ![i] = Tail(m[i])], h \cup {Blk(Head(m[i]), i)}, lo)
<1> DEFINE n == [m EXCEPT ![i] = Tail(m[i])]
           b == Blk(Head(m[i]), i)
<1>1. /\ n \in [Idx -> Seq(Addr)] /\ b \in Listed(m)
      /\ Listed(n) = Listed(m) \ {b} /\ NoRepeats(n)
  BY PopListed DEF Sound
<1> HIDE DEF n, b
<1>2. b \in Blocks
  BY <1>1 DEF Listed
<1>3. Listed(n) \cup (h \cup {b}) = Listed(m) \cup h
  BY <1>1
<1> QED BY <1>1, <1>2, <1>3 DEF Sound, n, b

LEMMA SoundSplit ==
  ASSUME NEW m, NEW h, NEW lo, Sound(m, h, lo), NEW i \in {0, 1},
         NEW j, j = i + 1, m[i] = <<>>, m[j] # <<>>
  PROVE  Sound([m EXCEPT ![i] = Split(Head(m[j]), i), ![j] = Tail(m[j])], h, lo)
<1> DEFINE a == Head(m[j])
           c == Blk(a, j)
           p == [m EXCEPT ![j] = Tail(m[j])]
           n == [p EXCEPT ![i] = Split(a, i)]
<1>1. i \in Idx /\ j \in Idx /\ j # i
  BY SizeStep
<1>2. /\ p \in [Idx -> Seq(Addr)] /\ a \in Addr /\ c \in Listed(m)
      /\ Listed(p) = Listed(m) \ {c} /\ NoRepeats(p)
  BY <1>1, PopListed DEF Sound
<1>3. p[i] = <<>> /\ c.addr = a /\ c.idx = j /\ a \in Nat
  BY <1>1, <1>2, PMAssumption DEF Sound, Blk, Addr
<1>4. n = [m EXCEPT ![i] = Split(Head(m[j]), i), ![j] = Tail(m[j])]
  <2>1. m \in [Idx -> Seq(Addr)]
    BY DEF Sound
  <2> QED BY <1>1, <2>1
<1> HIDE DEF a, c, p
<1>5. /\ \A k \in 1 .. SplitN : a + (k - 1) * Size[i] \in Addr
      /\ Tiles(((Listed(m) \cup h) \ {c}) \cup Pieces(a, i), lo)
      /\ ((Listed(m) \cup h) \ {c}) \cap Pieces(a, i) = {}
  <2>1. c \in Listed(m) \cup h /\ c.idx = i + 1 /\ c.addr = a
    BY <1>2, <1>3
  <2>2. Tiles(Listed(m) \cup h, lo) /\ lo \in Nat
    BY DEF Sound
  <2> QED BY <2>1, <2>2, TilesSplit
<1>6. /\ n \in [Idx -> Seq(Addr)]
      /\ Listed(n) = Listed(p) \cup Pieces(a, i)
      /\ NoRepeats(n)
  BY <1>2, <1>3, <1>5, SplitListed
<1> HIDE DEF n
<1>7. c \notin h
  BY <1>2 DEF Sound
<1>8. ((Listed(m) \cup h) \ {c}) \cup Pieces(a, i) = Listed(n) \cup h
  BY <1>2, <1>6, <1>7
<1>9. Listed(n) \cap h = {}
  BY <1>2, <1>5, <1>6, <1>7 DEF Sound
<1>10. Sound(n, h, lo)
  BY <1>5, <1>6, <1>8, <1>9 DEF Sound
<1> QED BY <1>4, <1>10

\* The refill that precedes the pop of pmalloc(): up to two splits.
LEMMA SoundRefill ==
  ASSUME NEW m, NEW h, NEW lo, Sound(m, h, lo), NEW i \in Idx, ~OutOfMemory(m, i)
  PROVE  Sound(Refill(m, i), h, lo) /\ Refill(m, i)[i] # <<>>
<1>0. m \in [Idx -> Seq(Addr)]
  BY DEF Sound
<1>1. ASSUME NEW n, Sound(n, h, lo), n[1] # <<>> \/ n[2] # <<>>
      PROVE  Sound(Refill512K(n), h, lo) /\ Refill512K(n)[1] # <<>>
  <2>1. n \in [Idx -> Seq(Addr)]
    BY <1>1 DEF Sound
  <2>2. CASE n[1] # <<>>
    BY <1>1, <2>2 DEF Refill512K
  <2>3. CASE n[1] = <<>>
    <3>1. Sound([n EXCEPT ![1] = Split(Head(n[2]), 1), ![2] = Tail(n[2])], h, lo)
      BY <1>1, <2>3, SoundSplit
    <3>2. Refill512K(n) = [n EXCEPT ![1] = Split(Head(n[2]), 1), ![2] = Tail(n[2])]
      BY <2>3 DEF Refill512K
    <3>3. Refill512K(n)[1] = Split(Head(n[2]), 1)
      BY <2>1, <3>2 DEF Idx
    <3>4. Split(Head(n[2]), 1) # <<>>
      BY PMAssumption DEF Split
    <3> QED BY <3>1, <3>2, <3>3, <3>4
  <2> QED BY <2>2, <2>3
<1>2. CASE i = 2
  BY <1>2 DEF Refill, OutOfMemory
<1>3. CASE i = 1
  <2>1. m[1] # <<>> \/ m[2] # <<>>
    BY <1>3 DEF OutOfMemory
  <2> QED BY <1>1, <1>3, <2>1 DEF Refill
<1>4. CASE i = 0
  <2>1. CASE m[0] # <<>>
    BY <1>4, <2>1 DEF Refill, Refill4K
  <2>2. CASE m[0] = <<>>
    <3> DEFINE n == Refill512K(m)
    <3>1. m[1] # <<>> \/ m[2] # <<>>
      BY <1>4, <2>2 DEF OutOfMemory
    <3>2. Sound(n, h, lo) /\ n[1] # <<>>
      BY <1>1, <3>1
    <3>3. n[0] = <<>>
      BY <1>0, <2>2 DEF Refill512K, Idx
    <3>4. Refill(m, i) = [n EXCEPT ![0] = Split(Head(n[1]), 0), ![1] = Tail(n[1])]
      BY <1>4, <2>2 DEF Refill, Refill4K
    <3> HIDE DEF n
    <3>5. Sound([n EXCEPT ![0] = Split(Head(n[1]), 0), ![1] = Tail(n[1])], h, lo)
      BY <3>2, <3>3, SoundSplit
    <3>6. n \in [Idx -> Seq(Addr)]
      BY <3>2 DEF Sound
    <3>7. Refill(m, i)[0] = Split(Head(n[1]), 0)
      BY <3>4, <3>6 DEF Idx
    <3>8. Split(Head(n[1]), 0) # <<>>
      BY PMAssumption DEF Split
    <3> QED BY <1>4, <3>4, <3>5, <3>7, <3>8
  <2> QED BY <2>1, <2>2
<1> QED BY <1>2, <1>3, <1>4 DEF Idx

-----------------------------------------------------------------------------
(* The inductive invariant and the theorems.                               *)

IInv ==
  /\ Sound(pmmap, held, allocatable_max)
  /\ allocatable_max <= AllocatableMax
  /\ panic \in {"none", "pmalloc: out of memory"}
  /\ panic # "none" => pmmap[2] = <<>>

LEMMA InitIInv == PMInit => IInv
<1> SUFFICES ASSUME PMInit PROVE IInv
  OBVIOUS
<1>1. pmmap = [i \in Idx |-> <<>>] /\ held = {} /\ allocatable_max = AllocatableMax /\ panic = "none"
  BY DEF PMInit
<1>2. pmmap \in [Idx -> Seq(Addr)] /\ NoRepeats(pmmap)
  BY <1>1 DEF NoRepeats
<1>3. Listed(pmmap) = {}
  <2> SUFFICES ASSUME NEW b \in Listed(pmmap) PROVE FALSE
    OBVIOUS
  <2>1. b.idx \in Idx /\ \E k \in 1 .. Len(pmmap[b.idx]) : pmmap[b.idx][k] = b.addr
    BY DEF Listed, Blocks
  <2>2. pmmap[b.idx] = <<>>
    BY <1>1, <2>1
  <2> QED BY <2>1, <2>2
<1>4. Tiles({}, allocatable_max)
  BY <1>1, PMAssumption DEF Tiles
<1>5. Listed(pmmap) \cup held = {}
  BY <1>1, <1>3
<1>6. Sound(pmmap, held, allocatable_max)
  BY <1>1, <1>2, <1>3, <1>4, <1>5, PMAssumption DEF Sound
<1> QED BY <1>1, <1>6, PMAssumption DEF IInv

LEMMA StepBoot ==
  ASSUME IInv, NEW i \in Idx, pm_init(i)
  PROVE  IInv'
<1> DEFINE a == allocatable_max - Size[i]
<1>1. /\ allocatable_max \in Nat /\ allocatable_max <= AllocatableMax
      /\ Size[i] \in Nat \ {0} /\ allocatable_max >= KernelEnd + Size[i]
  BY SizeType DEF IInv, Sound, pm_init, Fits
<1>2. /\ a \in Addr /\ ~InvalidAddress(a) /\ a + Size[i] = allocatable_max
      /\ a <= AllocatableMax
  BY <1>1, PMAssumption DEF Addr, InvalidAddress
<1>3. /\ allocatable_max' = a /\ pmmap' = Push(pmmap, i, a) /\ held' = held
      /\ panic' = panic /\ panic = "none"
  BY <1>2 DEF pm_init, Running
<1> HIDE DEF a
<1>4. Sound(pmmap', held', allocatable_max')
  BY <1>1, <1>2, <1>3, SoundBoot DEF IInv
<1> QED BY <1>2, <1>3, <1>4 DEF IInv

LEMMA StepMalloc ==
  ASSUME IInv, NEW i \in Idx, pmalloc(i)
  PROVE  IInv'
<1>1. CASE OutOfMemory(pmmap, i)
  <2>1. /\ panic' = "pmalloc: out of memory" /\ pmmap' = pmmap /\ held' = held
        /\ allocatable_max' = allocatable_max
    BY <1>1 DEF pmalloc
  <2>2. pmmap[2] = <<>>
    BY <1>1 DEF OutOfMemory, Idx
  <2> QED BY <2>1, <2>2 DEF IInv
<1>2. CASE ~OutOfMemory(pmmap, i)
  <2> DEFINE r == Refill(pmmap, i)
  <2>1. Sound(r, held, allocatable_max) /\ r[i] # <<>>
    BY <1>2, SoundRefill DEF IInv
  <2>4. ~BadSplit(pmmap, i)
    <3>1. ASSUME NEW j \in Idx, NEW k \in 1 .. Len(r[j]) PROVE ~InvalidAddress(r[j][k])
      <4>1. r[j][k] \in Addr
        BY <2>1 DEF Sound
      <4> QED BY <4>1, PMAssumption DEF Addr, InvalidAddress
    <3> QED BY <3>1 DEF BadSplit
  <2>2. /\ pmmap' = [r EXCEPT ![i] = Tail(r[i])]
        /\ held' = held \cup {Blk(Head(r[i]), i)}
        /\ allocatable_max' = allocatable_max /\ panic' = panic /\ panic = "none"
    BY <1>2, <2>4 DEF pmalloc, Take, NewBlock, Blk, Running
  <2> HIDE DEF r
  <2>3. Sound(pmmap', held', allocatable_max')
    BY <2>1, <2>2, SoundPop
  <2> QED BY <2>2, <2>3 DEF IInv
<1> QED BY <1>1, <1>2

LEMMA StepFree ==
  ASSUME IInv, NEW b \in held, pmfree(b)
  PROVE  IInv'
<1>1. b.addr \in Addr /\ ~InvalidAddress(b.addr)
  <2>1. b \in Blocks
    BY DEF IInv, Sound
  <2>2. b.addr \in Addr
    BY <2>1, BlockType
  <2> QED BY <2>2, PMAssumption DEF Addr, InvalidAddress
<1>2. /\ pmmap' = Push(pmmap, b.idx, b.addr) /\ held' = held \ {b}
      /\ allocatable_max' = allocatable_max /\ panic' = panic /\ panic = "none"
  BY <1>1 DEF pmfree, Running
<1>3. Sound(pmmap', held', allocatable_max')
  BY <1>2, SoundPush DEF IInv
<1> QED BY <1>2, <1>3 DEF IInv

LEMMA NextIInv == IInv /\ [PMNext]_pmVars => IInv'
<1> SUFFICES ASSUME IInv, [PMNext]_pmVars PROVE IInv'
  OBVIOUS
<1>1. ASSUME NEW i \in Idx, pm_init(i) PROVE IInv'
  BY <1>1, StepBoot
<1>2. ASSUME NEW i \in Idx, pmalloc(i) PROVE IInv'
  BY <1>2, StepMalloc
<1>3. ASSUME NEW b \in held, pmfree(b) PROVE IInv'
  BY <1>3, StepFree
<1>4. CASE Halted \/ UNCHANGED pmVars
  BY <1>4 DEF Halted, pmVars, IInv
<1> QED BY <1>1, <1>2, <1>3, <1>4 DEF PMNext

\* Every reachable state satisfies the inductive invariant.
LEMMA Inductive == PMSpec => []IInv
BY InitIInv, NextIInv, PTL DEF PMSpec

\* A block of the lists or of a caller, and how it stands to any other.
LEMMA IInvDisjoint == IInv => Disjoint
<1> SUFFICES ASSUME IInv PROVE Disjoint
  OBVIOUS
<1>1. /\ pmmap \in [Idx -> Seq(Addr)] /\ held \subseteq Blocks /\ NoRepeats(pmmap)
      /\ Listed(pmmap) \cap held = {}
      /\ \A b, c \in Listed(pmmap) \cup held : b # c => BlocksApart(b, c)
  BY DEF IInv, Sound, Tiles
<1>2. ASSUME NEW i \in Idx, NEW k \in 1 .. Len(pmmap[i])
      PROVE  /\ Blk(pmmap[i][k], i) \in Listed(pmmap)
             /\ Blk(pmmap[i][k], i).addr = pmmap[i][k] /\ Blk(pmmap[i][k], i).idx = i
  <2>1. pmmap[i][k] \in Addr
    BY <1>1
  <2>2. Blk(pmmap[i][k], i) \in Blocks
    BY <2>1 DEF Blk, Blocks
  <2> QED BY <2>2 DEF Listed, Blk
<1>3. FreeApart
  <2> SUFFICES ASSUME NEW i \in Idx, NEW j \in Idx, NEW k \in 1 .. Len(pmmap[i]),
                      NEW l \in 1 .. Len(pmmap[j]), i # j \/ k # l
               PROVE  Apart(pmmap[i][k], Size[i], pmmap[j][l], Size[j])
    BY DEF FreeApart
  <2>1. Blk(pmmap[i][k], i) # Blk(pmmap[j][l], j)
    <3>1. i # j \/ pmmap[i][k] # pmmap[j][l]
      BY <1>1 DEF NoRepeats
    <3> QED BY <1>2, <3>1
  <2>2. BlocksApart(Blk(pmmap[i][k], i), Blk(pmmap[j][l], j))
    BY <1>1, <1>2, <2>1
  <2> QED BY <1>2, <2>2 DEF BlocksApart
<1>4. HeldApartFromFree
  <2> SUFFICES ASSUME NEW b \in held, NEW i \in Idx, NEW k \in 1 .. Len(pmmap[i])
               PROVE  Apart(b.addr, Size[b.idx], pmmap[i][k], Size[i])
    BY DEF HeldApartFromFree
  <2>1. BlocksApart(b, Blk(pmmap[i][k], i))
    BY <1>1, <1>2
  <2> QED BY <1>2, <2>1 DEF BlocksApart
<1>5. HeldApart
  BY <1>1 DEF HeldApart, BlocksApart
<1> QED BY <1>3, <1>4, <1>5 DEF Disjoint

LEMMA IInvConserved == IInv => Conserved
<1> SUFFICES ASSUME IInv, NEW x \in 0 .. MemTotal
             PROVE  (allocatable_max <= x /\ x < AllocatableMax) <=> (IsFree(x) \/ IsHeld(x))
  BY DEF Conserved
<1>1. /\ pmmap \in [Idx -> Seq(Addr)] /\ held \subseteq Blocks
      /\ Tiles(Listed(pmmap) \cup held, allocatable_max) /\ allocatable_max \in Nat
  BY DEF IInv, Sound
<1>0. x \in Nat /\ AllocatableMax \in Nat
  BY PMAssumption
<1>2. ASSUME allocatable_max <= x, x < AllocatableMax PROVE IsFree(x) \/ IsHeld(x)
  <2>1. PICK b \in Listed(pmmap) \cup held : InBlock(x, b.addr, Size[b.idx])
    BY <1>0, <1>1, <1>2 DEF Tiles
  <2>2. CASE b \in held
    BY <2>1, <2>2 DEF IsHeld
  <2>3. CASE b \in Listed(pmmap)
    <3>1. b.idx \in Idx /\ \E k \in 1 .. Len(pmmap[b.idx]) : pmmap[b.idx][k] = b.addr
      BY <2>3 DEF Listed, Blocks
    <3> QED BY <2>1, <3>1 DEF IsFree
  <2> QED BY <2>1, <2>2, <2>3
<1>3. ASSUME NEW b \in Listed(pmmap) \cup held, InBlock(x, b.addr, Size[b.idx])
      PROVE  allocatable_max <= x /\ x < AllocatableMax
  <2>1. b \in Blocks /\ InsideBlock(b, allocatable_max)
    BY <1>1 DEF Tiles
  <2>2. b.addr \in Nat /\ Size[b.idx] \in Nat
    BY <2>1, BlockType
  <2> QED BY <1>0, <1>1, <1>3, <2>1, <2>2 DEF InsideBlock, InBlock
<1>4. ASSUME IsFree(x) PROVE \E b \in Listed(pmmap) : InBlock(x, b.addr, Size[b.idx])
  <2>1. PICK i \in Idx : \E k \in 1 .. Len(pmmap[i]) : InBlock(x, pmmap[i][k], Size[i])
    BY <1>4 DEF IsFree
  <2>2. PICK k \in 1 .. Len(pmmap[i]) : InBlock(x, pmmap[i][k], Size[i])
    BY <2>1
  <2>3. pmmap[i][k] \in Addr
    BY <1>1
  <2>4. Blk(pmmap[i][k], i) \in Blocks
    BY <2>3 DEF Blk, Blocks
  <2>5. Blk(pmmap[i][k], i) \in Listed(pmmap)
    BY <2>4 DEF Listed, Blk
  <2> QED BY <2>2, <2>5 DEF Blk
<1>5. ASSUME IsHeld(x) PROVE \E b \in held : InBlock(x, b.addr, Size[b.idx])
  BY <1>5 DEF IsHeld
<1> QED BY <1>2, <1>3, <1>4, <1>5

\* Type correctness of the allocator, for every layout: the lists and the
\* callers only ever hold addresses between the kernel image and the end of
\* memory, the range pmfree() insists on.
THEOREM TypeCorrect == PMSpec => []PMTypeOK
<1>1. IInv => PMTypeOK
  BY DEF IInv, Sound, PMTypeOK, Blocks
<1> QED BY <1>1, Inductive, PTL

\* No two blocks, free or handed out, ever share an address, whatever the
\* callers of pmalloc() and pmfree() do within their contract.
THEOREM BlocksDisjoint == PMSpec => []Disjoint
BY Inductive, IInvDisjoint, PTL

\* Splitting neither loses nor invents memory: exactly what pm_init() freed
\* is on a list or with a caller.
THEOREM MemoryConserved == PMSpec => []Conserved
BY Inductive, IInvConserved, PTL

\* The checks of pmfree() never stop a well-behaved kernel; only exhaustion of
\* the largest list does.
THEOREM PanicMeansExhausted == PMSpec => []PanicOnlyWhenExhausted
<1>1. IInv => PanicOnlyWhenExhausted
  BY DEF IInv, PanicOnlyWhenExhausted
<1> QED BY <1>1, Inductive, PTL

-----------------------------------------------------------------------------
(* Refinement.  What is free is what pm_init() has freed and no caller     *)
(* holds, before a step and after it: the abstract free memory follows     *)
(* from the callers' blocks, however the lists were split.                 *)

FreeExact ==
  \A x : x \in FreeAddrs <=> /\ x \in 0 .. MemTotal /\ allocatable_max <= x
                             /\ x < AllocatableMax /\ ~IsHeld(x)

LEMMA FreeIs == IInv => FreeExact
<1> SUFFICES ASSUME IInv, NEW x
             PROVE  x \in FreeAddrs <=> /\ x \in 0 .. MemTotal /\ allocatable_max <= x
                                        /\ x < AllocatableMax /\ ~IsHeld(x)
  BY DEF FreeExact
<1>1. ASSUME x \in 0 .. MemTotal, IsFree(x), IsHeld(x) PROVE FALSE
  <2>1. PICK i \in Idx : \E k \in 1 .. Len(pmmap[i]) : InBlock(x, pmmap[i][k], Size[i])
    BY <1>1 DEF IsFree
  <2>2. PICK k \in 1 .. Len(pmmap[i]) : InBlock(x, pmmap[i][k], Size[i])
    BY <2>1
  <2>3. PICK b \in held : InBlock(x, b.addr, Size[b.idx])
    BY <1>1 DEF IsHeld
  <2>4. Apart(b.addr, Size[b.idx], pmmap[i][k], Size[i])
    BY IInvDisjoint DEF Disjoint, HeldApartFromFree
  <2>5. b \in Blocks /\ pmmap[i][k] \in Addr
    <3>1. held \subseteq Blocks /\ pmmap \in [Idx -> Seq(Addr)]
      BY DEF IInv, Sound
    <3> QED BY <3>1
  <2>6. b.addr \in Nat /\ Size[b.idx] \in Nat /\ pmmap[i][k] \in Nat /\ Size[i] \in Nat /\ x \in Nat
    BY <1>1, <2>5, BlockType, SizeType, PMAssumption DEF Addr
  <2> QED BY <2>2, <2>3, <2>4, <2>6 DEF InBlock, Apart
<1>2. x \in 0 .. MemTotal =>
        ((allocatable_max <= x /\ x < AllocatableMax) <=> (IsFree(x) \/ IsHeld(x)))
  BY IInvConserved DEF Conserved
<1> QED BY <1>1, <1>2 DEF FreeAddrs

\* The addresses of a caller's block are memory that pm_init() has freed.
LEMMA HeldInside ==
  ASSUME IInv, NEW b \in held
  PROVE  /\ b.addr \in Nat /\ Size[b.idx] \in Nat \ {0} /\ b.idx \in Idx
         /\ allocatable_max <= b.addr /\ b.addr + Size[b.idx] <= AllocatableMax
         /\ b.addr \in 0 .. MemTotal
         /\ \A x : x \in Abs!Block(b.addr, Size[b.idx])
                     <=> x \in 0 .. MemTotal /\ InBlock(x, b.addr, Size[b.idx])
<1>1. b \in Blocks /\ InsideBlock(b, allocatable_max)
  BY DEF IInv, Sound, Tiles
<1>2. b.addr \in Nat /\ Size[b.idx] \in Nat \ {0} /\ b.idx \in Idx
  BY <1>1, BlockType
<1>3. allocatable_max <= b.addr /\ b.addr + Size[b.idx] <= AllocatableMax
  BY <1>1 DEF InsideBlock
<1>4. AllocatableMax \in Nat /\ MemTotal \in Nat /\ AllocatableMax <= MemTotal
  BY PMAssumption
<1> QED BY <1>2, <1>3, <1>4 DEF InBlock, Abs!Block

\* Blocks of different callers share no address.
LEMMA HeldOnce ==
  ASSUME IInv, NEW b \in held, NEW c \in held, b # c, NEW x \in 0 .. MemTotal,
         InBlock(x, b.addr, Size[b.idx])
  PROVE  ~InBlock(x, c.addr, Size[c.idx])
<1>1. Apart(b.addr, Size[b.idx], c.addr, Size[c.idx])
  BY IInvDisjoint DEF Disjoint, HeldApart
<1>2. /\ b.addr \in Nat /\ Size[b.idx] \in Nat /\ c.addr \in Nat /\ Size[c.idx] \in Nat
      /\ x \in Nat
  BY HeldInside, PMAssumption
<1> QED BY <1>1, <1>2 DEF Apart, InBlock

LEMMA OwnedIsHeld ==
  ASSUME IInv, NEW x \in Abs!OwnedAddrs
  PROVE  x \in 0 .. MemTotal /\ IsHeld(x)
<1>1. PICK o \in HeldBlocks : x \in Abs!Block(o[1], o[2])
  BY DEF Abs!OwnedAddrs
<1>2. PICK b \in held : o = <<b.addr, Size[b.idx]>>
  BY DEF HeldBlocks
<1>3. x \in Abs!Block(b.addr, Size[b.idx])
  BY <1>1, <1>2
<1> QED BY <1>3, HeldInside DEF IsHeld

LEMMA BootDonates ==
  ASSUME IInv, IInv', NEW i \in Idx, pm_init(i)
  PROVE  Abs!ANext
<1> DEFINE a == allocatable_max - Size[i]
           B == Abs!Block(a, Size[i])
<1>1. /\ allocatable_max \in Nat /\ allocatable_max <= AllocatableMax
      /\ Size[i] \in Nat \ {0} /\ allocatable_max >= KernelEnd + Size[i]
  BY SizeType DEF IInv, Sound, pm_init, Fits
<1>2. a \in Addr /\ ~InvalidAddress(a)
  BY <1>1, PMAssumption DEF Addr, InvalidAddress
<1>3. allocatable_max' = a /\ held' = held
  BY <1>2 DEF pm_init
<1>4. a \in Nat /\ a + Size[i] = allocatable_max /\ a \in 0 .. MemTotal
  BY <1>1, <1>2, PMAssumption DEF Addr
<1>5. \A x : x \in B <=> x \in 0 .. MemTotal /\ a <= x /\ x < allocatable_max
  BY <1>1, <1>4, PMAssumption DEF Abs!Block
<1>6. ASSUME NEW x, x \in 0 .. MemTotal, IsHeld(x) PROVE allocatable_max <= x /\ x < AllocatableMax
  BY <1>6, IInvConserved DEF Conserved
<1>7. \A x : IsHeld(x)' <=> IsHeld(x)
  BY <1>3 DEF IsHeld
<1> HIDE DEF a, B
<1>8. B \cap (FreeAddrs \cup Abs!OwnedAddrs) = {}
  <2> SUFFICES ASSUME NEW x \in B, x \in FreeAddrs \/ x \in Abs!OwnedAddrs PROVE FALSE
    OBVIOUS
  <2>1. x \in 0 .. MemTotal /\ x < allocatable_max /\ MemTotal \in Nat
    BY <1>5, PMAssumption
  <2>2. allocatable_max <= x
    BY <1>6, FreeIs, OwnedIsHeld DEF FreeExact
  <2> QED BY <2>1, <2>2, <1>1
<1>9. FreeAddrs' = FreeAddrs \cup B
  <2> SUFFICES ASSUME NEW x PROVE x \in FreeAddrs' <=> x \in FreeAddrs \/ x \in B
    OBVIOUS
  <2>1. x \in FreeAddrs' <=> /\ x \in 0 .. MemTotal
                             /\ a <= x /\ x < AllocatableMax /\ ~IsHeld(x)
    <3>1. FreeExact'
      BY FreeIs, PTL
    <3>2. x \in FreeAddrs' <=> /\ x \in 0 .. MemTotal /\ allocatable_max' <= x
                               /\ x < AllocatableMax /\ ~IsHeld(x)'
      BY <3>1 DEF FreeExact
    <3> QED BY <3>2, <1>3, <1>7
  <2>2. x \in FreeAddrs <=> /\ x \in 0 .. MemTotal /\ allocatable_max <= x
                            /\ x < AllocatableMax /\ ~IsHeld(x)
    BY FreeIs DEF FreeExact
  <2>3. AllocatableMax \in Nat /\ MemTotal \in Nat
    BY PMAssumption
  <2> QED BY <2>1, <2>2, <2>3, <1>1, <1>4, <1>5, <1>6
<1>10. HeldBlocks' = HeldBlocks
  BY <1>3 DEF HeldBlocks
<1>11. Abs!Donate(a, Size[i])
  BY <1>8, <1>9, <1>10 DEF Abs!Donate, B
<1> QED BY <1>4, <1>11 DEF Abs!ANext

LEMMA MallocAllocates ==
  ASSUME IInv, IInv', NEW i \in Idx, pmalloc(i), ~OutOfMemory(pmmap, i)
  PROVE  Abs!ANext
<1> DEFINE r == Refill(pmmap, i)
           b == Blk(Head(r[i]), i)
           B == Abs!Block(b.addr, Size[b.idx])
<1>1. Sound(r, held, allocatable_max) /\ r[i] # <<>>
  BY SoundRefill DEF IInv
<1>2. b \notin held
  <2>1. b \in Listed(r)
    BY <1>1, PopListed DEF Sound
  <2> QED BY <2>1, <1>1 DEF Sound
<1>3. held' = held \cup {b} /\ allocatable_max' = allocatable_max
  <2>1. ~BadSplit(pmmap, i)
    <3>1. ASSUME NEW j \in Idx, NEW k \in 1 .. Len(r[j]) PROVE ~InvalidAddress(r[j][k])
      <4>1. r[j][k] \in Addr
        BY <1>1 DEF Sound
      <4> QED BY <4>1, PMAssumption DEF Addr, InvalidAddress
    <3> QED BY <3>1 DEF BadSplit
  <2> QED BY <2>1 DEF pmalloc, NewBlock, Blk
<1> HIDE DEF r, b
<1>4. PICK c : c = b
  OBVIOUS
<1>5. /\ c \in held' /\ c \notin held /\ held' = held \cup {c}
      /\ b.addr = c.addr /\ b.idx = c.idx
  BY <1>2, <1>3, <1>4
<1>6. /\ c.addr \in Nat /\ Size[c.idx] \in Nat \ {0} /\ c.idx \in Idx
      /\ allocatable_max <= c.addr /\ c.addr + Size[c.idx] <= AllocatableMax
      /\ allocatable_max \in Nat
  <2>1. Sound(pmmap, held, allocatable_max)'
    BY DEF IInv
  <2>2. c \in Blocks /\ InsideBlock(c, allocatable_max) /\ allocatable_max \in Nat
    BY <2>1, <1>3, <1>5 DEF Sound, Tiles
  <2> QED BY <2>2, BlockType DEF InsideBlock
<1>7. c.addr \in 0 .. MemTotal /\ \A x : x \in B <=> x \in 0 .. MemTotal /\ InBlock(x, c.addr, Size[c.idx])
  BY <1>5, <1>6, PMAssumption DEF InBlock, Abs!Block
<1>8. \A x : IsHeld(x)' <=> IsHeld(x) \/ InBlock(x, c.addr, Size[c.idx])
  BY <1>5 DEF IsHeld
<1>9. ASSUME NEW x \in B PROVE allocatable_max <= x /\ x < AllocatableMax /\ ~IsHeld(x)
  <2>1. x \in Nat /\ x \in 0 .. MemTotal /\ InBlock(x, c.addr, Size[c.idx])
    BY <1>7, PMAssumption
  <2>2. allocatable_max <= x /\ x < AllocatableMax
    BY <2>1, <1>6, PMAssumption DEF InBlock
  <2>3. ASSUME NEW d \in held PROVE ~InBlock(x, d.addr, Size[d.idx])
    <3>1. d \in held' /\ d # c /\ d.addr \in Nat /\ Size[d.idx] \in Nat
      BY <1>5, HeldInside
    <3>2. BlocksApart(c, d)
      <4>1. Sound(pmmap, held, allocatable_max)'
        BY DEF IInv
      <4> QED BY <4>1, <3>1, <1>5 DEF Sound, Tiles
    <3> QED BY <3>1, <3>2, <2>1, <1>6 DEF BlocksApart, Apart, InBlock
  <2> QED BY <2>2, <2>3 DEF IsHeld
<1> HIDE DEF B
<1>10. B \subseteq FreeAddrs
  BY <1>7, <1>9, FreeIs DEF FreeExact
<1>11. FreeAddrs' = FreeAddrs \ B
  <2> SUFFICES ASSUME NEW x PROVE x \in FreeAddrs' <=> x \in FreeAddrs /\ x \notin B
    OBVIOUS
  <2>1. FreeExact'
    BY FreeIs, PTL
  <2>2. x \in FreeAddrs' <=> /\ x \in 0 .. MemTotal /\ allocatable_max <= x
                             /\ x < AllocatableMax /\ ~IsHeld(x)'
    BY <2>1, <1>3 DEF FreeExact
  <2>3. x \in FreeAddrs <=> /\ x \in 0 .. MemTotal /\ allocatable_max <= x
                            /\ x < AllocatableMax /\ ~IsHeld(x)
    BY FreeIs DEF FreeExact
  <2> QED BY <2>2, <2>3, <1>7, <1>8, Zenon
<1>12. HeldBlocks' = HeldBlocks \cup {<<c.addr, Size[c.idx]>>}
  BY <1>5 DEF HeldBlocks
<1>13. Abs!Allocate(c.addr, Size[c.idx])
  <2>1. B = Abs!Block(c.addr, Size[c.idx])
    BY <1>5 DEF B
  <2> QED BY <2>1, <1>10, <1>11, <1>12 DEF Abs!Allocate
<1> QED BY <1>6, <1>7, <1>13 DEF Abs!ANext

LEMMA FreeReleases ==
  ASSUME IInv, IInv', NEW b \in held, pmfree(b)
  PROVE  Abs!ANext
<1> DEFINE B == Abs!Block(b.addr, Size[b.idx])
<1>1. /\ b.addr \in Nat /\ Size[b.idx] \in Nat \ {0} /\ b.idx \in Idx
      /\ allocatable_max <= b.addr /\ b.addr + Size[b.idx] <= AllocatableMax
      /\ b.addr \in 0 .. MemTotal
      /\ \A x : x \in B <=> x \in 0 .. MemTotal /\ InBlock(x, b.addr, Size[b.idx])
  BY HeldInside
<1>2. held' = held \ {b} /\ allocatable_max' = allocatable_max
  <2>1. b \in Blocks
    BY DEF IInv, Sound
  <2>2. b.addr \in Addr
    BY <2>1, BlockType
  <2>3. ~InvalidAddress(b.addr)
    BY <2>2, PMAssumption DEF Addr, InvalidAddress
  <2> QED BY <2>3 DEF pmfree
<1> HIDE DEF B
<1>3. \A x \in 0 .. MemTotal :
        IsHeld(x)' <=> IsHeld(x) /\ ~InBlock(x, b.addr, Size[b.idx])
  BY <1>2, HeldOnce DEF IsHeld
<1>4. \A x \in B : allocatable_max <= x /\ x < AllocatableMax
  <2>1. allocatable_max \in Nat
    BY DEF IInv, Sound
  <2> QED BY <2>1, <1>1, PMAssumption DEF InBlock
<1>5. FreeAddrs' = FreeAddrs \cup B
  <2> SUFFICES ASSUME NEW x PROVE x \in FreeAddrs' <=> x \in FreeAddrs \/ x \in B
    OBVIOUS
  <2>1. FreeExact'
    BY FreeIs, PTL
  <2>2. x \in FreeAddrs' <=> /\ x \in 0 .. MemTotal /\ allocatable_max <= x
                             /\ x < AllocatableMax /\ ~IsHeld(x)'
    BY <2>1, <1>2 DEF FreeExact
  <2>3. x \in FreeAddrs <=> /\ x \in 0 .. MemTotal /\ allocatable_max <= x
                            /\ x < AllocatableMax /\ ~IsHeld(x)
    BY FreeIs DEF FreeExact
  <2> QED BY <2>2, <2>3, <1>1, <1>3, <1>4, Zenon
<1>6. HeldBlocks' = HeldBlocks \ {<<b.addr, Size[b.idx]>>}
  <2>1. ASSUME NEW c \in held, <<c.addr, Size[c.idx]>> = <<b.addr, Size[b.idx]>>
        PROVE  c = b
    <3>1. c.addr = b.addr /\ Size[c.idx] = Size[b.idx]
      BY <2>1
    <3>2. InBlock(b.addr, b.addr, Size[b.idx])
      BY <1>1 DEF InBlock
    <3> QED BY <3>1, <3>2, <1>1, HeldOnce
  <2> QED BY <2>1, <1>2 DEF HeldBlocks
<1>7. <<b.addr, Size[b.idx]>> \in HeldBlocks
  BY DEF HeldBlocks
<1>8. Abs!Release(b.addr, Size[b.idx])
  BY <1>5, <1>6, <1>7 DEF Abs!Release, B
<1> QED BY <1>1, <1>8 DEF Abs!ANext

LEMMA SameMemory ==
  ASSUME UNCHANGED <<pmmap, held>>
  PROVE  UNCHANGED <<FreeAddrs, HeldBlocks>>
BY DEF FreeAddrs, IsFree, HeldBlocks

\* The free lists implement the allocator of PageAlloc: every step of
\* pm_init(), pmalloc() and pmfree() gives, hands out or takes back one whole
\* block, and a step that panics changes neither free nor owned memory.
THEOREM Refinement == PMSpec => ImplementsPageAlloc
<1>1. PMInit => Abs!AInit
  <2> SUFFICES ASSUME PMInit PROVE FreeAddrs = {} /\ HeldBlocks = {}
    BY DEF Abs!AInit
  <2>1. \A i \in Idx : Len(pmmap[i]) = 0
    BY DEF PMInit
  <2> QED BY <2>1 DEF PMInit, FreeAddrs, IsFree, HeldBlocks
<1>2. IInv /\ IInv' /\ [PMNext]_pmVars => [Abs!ANext]_<<FreeAddrs, HeldBlocks>>
  <2> SUFFICES ASSUME IInv, IInv', [PMNext]_pmVars
               PROVE  Abs!ANext \/ UNCHANGED <<FreeAddrs, HeldBlocks>>
    OBVIOUS
  <2>1. ASSUME NEW i \in Idx, pm_init(i) PROVE Abs!ANext
    BY <2>1, BootDonates
  <2>2. ASSUME NEW i \in Idx, pmalloc(i)
        PROVE  Abs!ANext \/ UNCHANGED <<FreeAddrs, HeldBlocks>>
    <3>1. CASE OutOfMemory(pmmap, i)
      <4>1. UNCHANGED <<pmmap, held>>
        BY <2>2, <3>1 DEF pmalloc
      <4> QED BY <4>1, SameMemory
    <3>2. CASE ~OutOfMemory(pmmap, i)
      BY <2>2, <3>2, MallocAllocates
    <3> QED BY <3>1, <3>2
  <2>3. ASSUME NEW b \in held, pmfree(b) PROVE Abs!ANext
    BY <2>3, FreeReleases
  <2>4. CASE Halted \/ UNCHANGED pmVars
    <3>1. UNCHANGED <<pmmap, held>>
      BY <2>4 DEF Halted, pmVars
    <3> QED BY <3>1, SameMemory
  <2> QED BY <2>1, <2>2, <2>3, <2>4 DEF PMNext
<1> QED BY <1>1, <1>2, Inductive, PTL DEF PMSpec, ImplementsPageAlloc, Abs!ASpec
=============================================================================
