---------------------------- MODULE Fat16Proofs ----------------------------
(***************************************************************************)
(* Proofs about the file system for any disk, any paths and any reads of   *)
(* the widths the code computes with.                                      *)
(*                                                                         *)
(* A read that begins at a cluster fills its destination cluster by        *)
(* cluster: when the loop variable is at i, the bytes of the clusters      *)
(* before i are there and nothing else.  The loop variable counts clusters *)
(* in 16 bits and the end of the read is computed in 64: neither wraps for *)
(* a read that lies in the file; an end that does wrap passes the check    *)
(* but, for a size that a file can have, lies before the beginning, and    *)
(* the loop is not entered.                                                *)
(***************************************************************************)
EXTENDS Fat16, SequenceTheorems, WellFoundedInduction, TLAPS

-----------------------------------------------------------------------------
(* Arithmetic.                                                             *)

LEMMA DivMod ==
  ASSUME NEW n \in Nat, NEW c \in Nat \ {0}
  PROVE  n \div c \in Nat /\ n % c \in Nat /\ n % c < c /\ n = c * (n \div c) + (n % c)
OBVIOUS

LEMMA DivModUnique ==
  ASSUME NEW c \in Nat \ {0}, NEW q \in Nat, NEW r \in Nat, r < c
  PROVE  (c * q + r) \div c = q /\ (c * q + r) % c = r
OBVIOUS

LEMMA DivLess ==
  ASSUME NEW c \in Nat \ {0}, NEW n \in Nat, NEW m \in Nat, n < c * m
  PROVE  n \div c < m
OBVIOUS

LEMMA DivMonotone ==
  ASSUME NEW c \in Nat \ {0}, NEW n \in Nat, NEW m \in Nat, n <= m
  PROVE  n \div c <= m \div c
OBVIOUS

LEMMA ModSmall ==
  ASSUME NEW c \in Nat \ {0}, NEW n \in Nat, n < c
  PROVE  n % c = n
OBVIOUS

\* A set of naturals has a least element.
LEMMA LeastNatural ==
  ASSUME NEW S \in SUBSET Nat, S # {}
  PROVE  \E m \in S : \A n \in S : m <= n
<1>1. IsWellFoundedOn(OpToRel(<, Nat), Nat)
  BY NatLessThanWellFounded
<1> DEFINE R == OpToRel(<, Nat)
<1>2. \A x, y \in Nat : <<y, x>> \in R <=> y < x
  BY DEF OpToRel
<1> HIDE DEF R
<1>3. PICK m \in S : \A y \in S : ~ (<<y, m>> \in R)
  BY <1>1, WFMin DEF R
<1>4. ASSUME NEW n \in S PROVE m <= n
  <2>1. ~ (n < m)
    BY <1>2, <1>3, Zenon
  <2> QED BY <2>1
<1> QED BY <1>4

Widths ==
  cluster_size \in Nat \ {0} /\ Uint16Size \in Nat \ {0} /\ Uint64Size \in Nat \ {0}

LEMMA WidthFacts == Widths
BY FatAssumption DEF Widths

\* 2^64 is a multiple of the bytes that 16 bits count in clusters.
LEMMA Multiple ==
  \E k \in Nat \ {0} : Uint64Size = cluster_size * (Uint16Size * k)
<1> DEFINE b == cluster_size * Uint16Size
           k == Uint64Size \div b
<1>1. b \in Nat \ {0}
  BY WidthFacts DEF Widths
<1>2. Uint64Size % b = 0 /\ Uint64Size \in Nat \ {0}
  BY FatAssumption
<1>3. k \in Nat /\ Uint64Size = b * k
  <2> HIDE DEF b
  <2> QED BY <1>1, <1>2, DivMod
<1>4. k # 0
  BY <1>1, <1>2, <1>3
<1>5. b * k = cluster_size * (Uint16Size * k)
  <2> HIDE DEF k
  <2> QED BY <1>3, WidthFacts DEF Widths
<1> HIDE DEF k
<1> QED BY <1>3, <1>4, <1>5

LEMMA Reach16 == cluster_size * Uint16Size <= Uint64Size
<1>1. cluster_size \in Nat \ {0} /\ Uint16Size \in Nat \ {0} /\ Uint64Size \in Nat \ {0}
  BY WidthFacts DEF Widths
<1>2. PICK k \in Nat \ {0} : Uint64Size = cluster_size * (Uint16Size * k)
  BY Multiple
<1>3. Uint16Size <= Uint16Size * k
  BY <1>1
<1>4. PICK d \in Nat : Uint16Size * k = Uint16Size + d
  BY <1>1, <1>3
<1>5. Uint64Size = cluster_size * Uint16Size + cluster_size * d
  BY <1>1, <1>2, <1>4
<1> QED BY <1>1, <1>5

\* A read inside 16 bits of clusters: nothing wraps.
LEMMA NoWrap ==
  ASSUME NEW offset \in Nat, NEW size \in Nat, offset + size < cluster_size * Uint16Size
  PROVE  /\ EndOf(offset, size) = offset + size
         /\ ClusterOf(offset) = offset \div cluster_size
         /\ ClusterOf(offset + size) = (offset + size) \div cluster_size
<1>1. cluster_size \in Nat \ {0} /\ Uint16Size \in Nat \ {0} /\ Uint64Size \in Nat \ {0}
  BY WidthFacts DEF Widths
<1>2. cluster_size * Uint16Size <= Uint64Size
  BY Reach16
<1>3. offset + size < Uint64Size
  BY <1>1, <1>2
<1>4. EndOf(offset, size) = offset + size
  BY <1>1, <1>3, ModSmall DEF EndOf
<1>5. offset \div cluster_size < Uint16Size /\ (offset + size) \div cluster_size < Uint16Size
  BY <1>1, DivLess
<1>6. offset \div cluster_size \in Nat /\ (offset + size) \div cluster_size \in Nat
  BY <1>1, DivMod
<1> QED BY <1>1, <1>4, <1>5, <1>6, ModSmall DEF ClusterOf

\* An end that wraps around lies before the beginning.
LEMMA WrapsBack ==
  ASSUME NEW offset \in 0 .. Uint64Size - 1, NEW size \in Nat,
         size < cluster_size * (Uint16Size - 1), offset + size >= Uint64Size
  PROVE  ClusterOf(EndOf(offset, size)) < ClusterOf(offset)
<1> DEFINE cs == cluster_size
           U == Uint16Size
           x == Uint64Size - offset
           c == (x + (cs - 1)) \div cs
           e == (size - x) \div cs
<1>1. /\ cs \in Nat \ {0} /\ U \in Nat \ {0} /\ Uint64Size \in Nat \ {0}
      /\ size < cs * (U - 1)
  BY WidthFacts DEF Widths
<1>2. PICK k \in Nat \ {0} : Uint64Size = cs * (U * k)
  BY Multiple
<1>3. x \in Nat /\ 1 <= x /\ x <= size /\ size \in Nat /\ offset \in Nat
  BY <1>1
<1>4. offset = Uint64Size - x
  BY <1>1
<1> HIDE DEF cs, U, x
<1>5. c \in Nat /\ cs * c < x + cs /\ x <= cs * c
  <2>1. x + (cs - 1) \in Nat
    BY <1>1, <1>3
  <2>2. PICK m \in Nat : m = x + (cs - 1)
    BY <2>1
  <2>3. m \div cs \in Nat /\ m % cs \in Nat /\ m % cs < cs /\ m = cs * (m \div cs) + (m % cs)
    BY <1>1, DivMod
  <2>4. c = m \div cs
    BY <2>2
  <2>5. PICK y \in Nat : y = cs * (m \div cs)
    BY <2>3, <1>1
  <2> HIDE DEF c
  <2> QED BY <2>2, <2>3, <2>4, <2>5, <1>1, <1>3
<1>6. e \in Nat /\ cs * e <= size - x
  <2>1. PICK m \in Nat : m = size - x
    BY <1>3
  <2>2. m \div cs \in Nat /\ m % cs \in Nat /\ m = cs * (m \div cs) + (m % cs)
    BY <1>1, DivMod
  <2>3. e = m \div cs
    BY <2>1
  <2>4. PICK y \in Nat : y = cs * (m \div cs)
    BY <2>2, <1>1
  <2> HIDE DEF e
  <2> QED BY <2>1, <2>2, <2>3, <2>4
<1> HIDE DEF c, e
<1>7. e + c < U
  <2>1. cs * (e + c) = cs * e + cs * c
    BY <1>1, <1>5, <1>6
  <2>2. cs * (U - 1) = cs * U - cs
    BY <1>1
  <2>3. cs * e \in Nat /\ cs * c \in Nat /\ cs * U \in Nat
    BY <1>1, <1>5, <1>6
  <2>4. cs * (e + c) < cs * U
    BY <1>1, <1>3, <1>5, <1>6, <2>1, <2>2, <2>3
  <2> QED BY <2>4, <1>1, <1>5, <1>6
<1>8. ClusterOf(offset) = U - c
  <2>1. PICK j \in Nat : k = j + 1
    BY <1>2
  <2>2. U * k = U * j + U
    BY <2>1, <1>1
  <2>3. PICK q \in Nat : q = U * j + (U - c)
    BY <1>1, <1>5, <1>6, <1>7
  <2>4. PICK r \in Nat : r = cs * c - x
    BY <1>1, <1>3, <1>5
  <2>5. r < cs
    BY <2>4, <1>1, <1>3, <1>5
  <2>6. offset = cs * q + r
    <3>1. q = U * k - c /\ U * k \in Nat
      BY <2>1, <2>2, <2>3, <1>1, <1>5
    <3>2. cs * q = cs * (U * k) - cs * c
      BY <3>1, <1>1, <1>5
    <3>3. cs * q \in Int /\ cs * c \in Int
      BY <1>1, <1>5
    <3> QED BY <3>2, <3>3, <2>4, <1>1, <1>2, <1>3, <1>4
  <2>7. offset \div cs = q
    BY <2>5, <2>6, <1>1, DivModUnique
  <2>8. q % U = U - c
    <3>1. U - c \in Nat /\ U - c < U
      <4>1. c # 0
        BY <1>1, <1>3, <1>5
      <4> QED BY <4>1, <1>1, <1>5, <1>6, <1>7
    <3> QED BY <3>1, <2>3, <1>1, DivModUnique
  <2> QED BY <2>7, <2>8 DEF ClusterOf, cs, U
<1>9. ClusterOf(EndOf(offset, size)) = e
  <2>1. PICK m \in Nat : m = size - x
    BY <1>3
  <2>2. offset + size = Uint64Size * 1 + m
    BY <2>1, <1>1, <1>3, <1>4
  <2>3. m < Uint64Size
    <3>1. cs * U <= Uint64Size
      BY Reach16 DEF cs, U
    <3>2. cs * (U - 1) = cs * U - cs /\ cs * U \in Nat
      BY <1>1
    <3> QED BY <3>1, <3>2, <2>1, <1>1, <1>3
  <2>4. EndOf(offset, size) = m
    BY <2>2, <2>3, <1>1, DivModUnique DEF EndOf
  <2>5. m \div cs = e
    BY <2>1 DEF e
  <2>6. e % U = e
    BY <1>1, <1>5, <1>6, <1>7, ModSmall
  <2> QED BY <2>4, <2>5, <2>6 DEF ClusterOf, cs, U
<1> QED BY <1>1, <1>5, <1>6, <1>7, <1>8, <1>9

-----------------------------------------------------------------------------
(* The inductive invariant.                                                *)

Held == [id |-> ip.id, size |-> ip.size, refcnt |-> 1]

Open == pc \in {"open", "read", "trap", "done"}

\* The list holds the inode in use, once; a buffer is taken only during a search
\* or a read.
ListSound ==
  /\ pc \in {"idle", "walk", "search", "null", "found", "open", "read", "trap", "done"}
  /\ ilist = IF Open THEN <<Held>> ELSE <<>>
  /\ bufs = IF pc \in {"search", "read", "trap"} THEN 1 ELSE 0

\* An inode is one of the disk's files.
InodeSound ==
  /\ dir \in Clusters \cup {0}
  /\ pc = "found" \/ Open =>
       ip.id \in Nat /\ ip.size \in Nat /\ ip.size < cluster_size * Uint16Size

RequestSound ==
  pc \in {"read", "done"} =>
    req.offset \in 0 .. Uint64Size - 1 /\ req.size \in 0 .. Uint64Size - 1

\* g holds n bytes, those from offset on of the clusters that follow id, and no others.
Holds(g, id, offset, n) ==
  /\ DOMAIN g = 0 .. n - 1
  /\ \A k \in 0 .. n - 1 :
       g[k] = Byte(id + ((offset + k) \div cluster_size), (offset + k) % cluster_size)

FilledTo(n) == Holds(dst, ip.id, req.offset, n)

Filled ==
  IF i = First THEN dst = <<>>
  ELSE IF i > End THEN FilledTo(req.size)
  ELSE FilledTo((i - First) * cluster_size)

ReadSound ==
  pc = "read" =>
    /\ ret = 0 /\ i \in Nat /\ EndOf(req.offset, req.size) <= ip.size
    /\ IF Wraps THEN FileSized => i = First /\ i > End /\ dst = <<>>
       ELSE First <= i /\ i <= End + 1 /\ (Remain = 0 \/ First = End => Filled)

FatInv == ListSound /\ InodeSound /\ RequestSound /\ ReadSound /\ AlignedReadExact

LEMMA InitFat == FatInit => FatInv
BY DEF FatInit, FatInv, ListSound, InodeSound, RequestSound, ReadSound, AlignedReadExact, Open

-----------------------------------------------------------------------------
(* Path resolution and the inode list.                                     *)

\* What the search finds is an entry of the directory that matches the name.
LEMMA FindHit ==
  ASSUME NEW d \in Clusters \cup {0}, NEW name, fat16_find_cluster(name, d).cluster # 0
  PROVE  /\ Dir[d] \in Seq(DirEntries)
         /\ \E k \in 1 .. Len(Dir[d]) :
              /\ Matches(Dir[d][k], name)
              /\ fat16_find_cluster(name, d) =
                   [cluster |-> Dir[d][k].cluster, size |-> Dir[d][k].size]
<1> DEFINE H == Hits(name, d)
<1>1. H # {}
  BY DEF fat16_find_cluster
<1>2. Dir[d] \in Seq(DirEntries) /\ H \subseteq 1 .. Len(Dir[d])
  BY FatAssumption DEF Hits
<1>3. H \in SUBSET Nat
  BY <1>2
<1>4. \E k \in H : \A l \in H : k <= l
  BY <1>1, <1>3, LeastNatural
<1>5. PICK k \in H : fat16_find_cluster(name, d) = [cluster |-> Dir[d][k].cluster, size |-> Dir[d][k].size]
  <2> DEFINE k == CHOOSE k \in H : \A l \in H : k <= l
  <2>1. k \in H
    BY <1>4
  <2>2. fat16_find_cluster(name, d) = [cluster |-> Dir[d][k].cluster, size |-> Dir[d][k].size]
    BY <1>1 DEF fat16_find_cluster
  <2> HIDE DEF k
  <2> QED BY <2>1, <2>2
<1>6. k \in 1 .. Len(Dir[d]) /\ Matches(Dir[d][k], name)
  BY <1>5, Zenon DEF Hits
<1> QED BY <1>2, <1>5, <1>6, Zenon

LEMMA FindFacts ==
  ASSUME NEW d \in Clusters \cup {0}, NEW name, fat16_find_cluster(name, d).cluster # 0
  PROVE  LET f == fat16_find_cluster(name, d)
         IN f.cluster \in Clusters /\ f.size \in Nat /\ f.size < cluster_size * Uint16Size
<1>2. Dir[d] \in Seq(DirEntries)
  BY FindHit, Zenon
<1>5. PICK k \in 1 .. Len(Dir[d]) :
        fat16_find_cluster(name, d) = [cluster |-> Dir[d][k].cluster, size |-> Dir[d][k].size]
  BY FindHit, Zenon
<1>6. k \in 1 .. Len(Dir[d])
  OBVIOUS
<1>7. Dir[d][k] \in DirEntries /\ Dir[d][k].size < cluster_size * Uint16Size
  <2>1. Dir[d][k] \in DirEntries
    BY <1>2, <1>6
  <2>2. Dir[d][k].size < cluster_size * Uint16Size
    BY <1>6, FatAssumption, Zenon
  <2> QED BY <2>1, <2>2
<1>8. Dir[d][k].cluster \in Clusters \cup {0} /\ Dir[d][k].size \in Nat
  BY <1>7 DEF DirEntries
<1> QED BY <1>5, <1>7, <1>8

\* Steps that leave the inode, the request and the buffer as they are, outside a
\* read and its result.
LEMMA Elsewhere ==
  ASSUME FatInv, pc' \in {"idle", "walk", "null"}, ilist' = <<>>, bufs' = 0,
         dir' \in Clusters \cup {0}
  PROVE  FatInv'
BY DEF FatInv, ListSound, InodeSound, RequestSound, ReadSound, AlignedReadExact, Open

LEMMA StepWalk ==
  ASSUME FatInv, (\E p \in Paths : NameiBegin(p)) \/ NameiEmpty \/ NameiNull
  PROVE  FatInv'
<1>1. pc' \in {"idle", "walk", "null"} /\ ilist' = ilist /\ bufs' = bufs
      /\ pc \in {"idle", "walk", "null"} /\ (dir' = dir \/ dir' = 0)
  BY DEF NameiBegin, NameiEmpty, NameiNull
<1>2. ilist = <<>> /\ bufs = 0 /\ dir \in Clusters \cup {0}
  BY <1>1 DEF FatInv, ListSound, InodeSound, Open
<1> QED BY <1>1, <1>2, Elsewhere

LEMMA StepSearch ==
  ASSUME FatInv, NameiRead
  PROVE  FatInv'
<1>1. pc = "walk" /\ pc' = "search" /\ bufs' = bufs + 1 /\ UNCHANGED <<dir, ilist>>
  BY DEF NameiRead
<1>2. ilist = <<>> /\ bufs = 0 /\ dir \in Clusters \cup {0}
  BY <1>1 DEF FatInv, ListSound, InodeSound, Open
<1> QED BY <1>1, <1>2
           DEF FatInv, ListSound, InodeSound, RequestSound, ReadSound, AlignedReadExact, Open

LEMMA StepName ==
  ASSUME FatInv, NameiStep
  PROVE  FatInv'
<1> DEFINE f == fat16_find_cluster(Name, dir)
<1>1. /\ pc = "search" /\ ilist' = ilist /\ bufs' = bufs - 1
      /\ pc' = IF f.cluster = 0 \/ (Last /\ path.slash) THEN "null"
               ELSE IF Last THEN "found" ELSE "walk"
      /\ dir' = IF Last THEN dir ELSE f.cluster
      /\ ip' = IF Last /\ ~path.slash THEN [id |-> f.cluster, size |-> f.size] ELSE ip
  BY DEF NameiStep, FreeDir
<1>2. ilist = <<>> /\ bufs' = 0 /\ dir \in Clusters \cup {0}
  BY <1>1 DEF FatInv, ListSound, InodeSound, Open
<1>3. f.cluster # 0 =>
        f.cluster \in Clusters /\ f.size \in Nat /\ f.size < cluster_size * Uint16Size
  BY <1>2, FindFacts
<1> HIDE DEF f
<1>4. dir' \in Clusters \cup {0}
  BY <1>1, <1>2, <1>3
<1>5. CASE pc' # "found"
  <2>1. pc' \in {"walk", "null"}
    BY <1>1, <1>5
  <2> QED BY <2>1, <1>1, <1>2, <1>4, Elsewhere
<1>6. CASE pc' = "found"
  <2>1. ip' = [id |-> f.cluster, size |-> f.size] /\ f.cluster # 0
    BY <1>1, <1>6
  <2>2. f.cluster \in Nat
    BY <2>1, <1>3, FatAssumption
  <2>3. ip'.id \in Nat /\ ip'.size \in Nat /\ ip'.size < cluster_size * Uint16Size
    BY <2>1, <2>2, <1>3
  <2> QED BY <2>3, <1>1, <1>2, <1>4, <1>6
             DEF FatInv, ListSound, InodeSound, RequestSound, ReadSound, AlignedReadExact, Open
<1> QED BY <1>5, <1>6

LEMMA StepIalloc ==
  ASSUME FatInv, ialloc
  PROVE  FatInv'
<1>1. pc = "found" /\ UNCHANGED <<dir, ip, bufs>>
  BY DEF ialloc
<1>2. ilist = <<>> /\ bufs = 0 /\ dir \in Clusters \cup {0}
  BY <1>1 DEF FatInv, ListSound, InodeSound, Open
<1>3. CASE LowWord = ip.id
  <2>1. pc' = "null" /\ ilist' = <<>>
    BY <1>2, <1>3 DEF ialloc
  <2> QED BY <2>1, <1>1, <1>2, Elsewhere
<1>4. CASE LowWord # ip.id
  <2>1. {k \in 1 .. Len(ilist) : ilist[k].id = ip.id} = {}
    BY <1>2
  <2>2. pc' = "open" /\ ilist' = Append(ilist, Held)
    BY <1>4, <2>1 DEF ialloc, Held
  <2>3. ilist' = <<Held>>
    BY <2>2, <1>2
  <2>4. Held' = Held
    BY <1>1 DEF Held
  <2>5. ListSound'
    BY <2>2, <2>3, <2>4, <1>1, <1>2 DEF ListSound, Open
  <2>6. InodeSound'
    BY <1>1 DEF FatInv, InodeSound, Open
  <2> QED BY <2>2, <2>5, <2>6 DEF FatInv, RequestSound, ReadSound, AlignedReadExact
<1> QED BY <1>3, <1>4

LEMMA StepIfree ==
  ASSUME FatInv, ifree
  PROVE  FatInv'
<1>1. /\ pc \in {"open", "done"} /\ pc' = "idle" /\ UNCHANGED <<dir, bufs>>
      /\ \E k \in 1 .. Len(ilist) : ilist' = Dropped(k)
  BY DEF ifree
<1>2. ilist = <<Held>> /\ bufs = 0 /\ dir \in Clusters \cup {0}
  BY <1>1 DEF FatInv, ListSound, InodeSound, Open
<1>3. PICK k \in 1 .. Len(ilist) : ilist' = Dropped(k)
  BY <1>1
<1>4. Len(ilist) = 1 /\ k = 1 /\ ilist[1] = Held
  BY <1>2, <1>3
<1>5. ilist[1].refcnt = 1
  BY <1>4 DEF Held
<1>6. ilist' = SubSeq(ilist, 1, 0) \o SubSeq(ilist, 2, 1)
  BY <1>3, <1>4, <1>5 DEF Dropped
<1>7. ilist' = <<>>
  BY <1>6, <1>2
<1> QED BY <1>1, <1>2, <1>7, Elsewhere

-----------------------------------------------------------------------------
(* Reading.                                                                *)

LEMMA StepBegin ==
  ASSUME FatInv, NEW o \in Offsets, NEW n \in Sizes, ReadBegin(o, n)
  PROVE  FatInv'
<1>1. /\ pc \in {"open", "done"} /\ req' = [offset |-> o, size |-> n] /\ dst' = <<>>
      /\ UNCHANGED <<dir, ip, ilist>>
  BY DEF ReadBegin
<1>2. o \in 0 .. Uint64Size - 1 /\ n \in 0 .. Uint64Size - 1 /\ Uint64Size \in Nat \ {0}
  BY FatAssumption
<1>3. o \in Nat /\ n \in Nat /\ o < Uint64Size
  BY <1>2
<1>4. /\ ip.id \in Nat /\ ip.size \in Nat /\ ip.size < cluster_size * Uint16Size
      /\ ilist = <<Held>> /\ bufs = 0 /\ dir \in Clusters \cup {0}
  BY <1>1 DEF FatInv, ListSound, InodeSound, Open
<1>5. req'.offset = o /\ req'.size = n /\ Held' = Held
  BY <1>1 DEF Held
<1>6. EndOf(o, n) \in Nat /\ EndOf(o, n) <= o + n
  BY <1>2, <1>3 DEF EndOf
<1>7. CASE PastEnd(o, n)
  <2>1. ret' = -1 /\ pc' = "done" /\ bufs' = bufs
    BY <1>7 DEF ReadBegin
  <2>2. o + n > ip.size
    BY <1>3, <1>4, <1>6, <1>7 DEF PastEnd
  <2>3. AlignedReadExact'
    BY <2>1, <2>2, <1>1, <1>5 DEF AlignedReadExact
  <2> QED BY <2>1, <2>3, <1>1, <1>2, <1>4, <1>5
             DEF FatInv, ListSound, InodeSound, RequestSound, ReadSound, Open
<1>8. CASE ~PastEnd(o, n)
  <2>1. ret' = 0 /\ pc' = "read" /\ i' = ClusterOf(o) /\ bufs' = bufs + 1
    BY <1>8 DEF ReadBegin
  <2>2. EndOf(o, n) <= ip.size
    BY <1>4, <1>6, <1>8 DEF PastEnd
  <2>3. First' = i' /\ End' = ClusterOf(EndOf(o, n)) /\ (Wraps' <=> o + n >= Uint64Size)
    BY <2>1, <1>5 DEF First, End, Wraps
  <2>4. i' \in Nat
    <3>1. cluster_size \in Nat \ {0} /\ Uint16Size \in Nat \ {0}
      BY FatAssumption
    <3> QED BY <3>1, <2>1, <1>3, DivMod DEF ClusterOf
  <2>5. CASE o + n >= Uint64Size
    <3>1. n < cluster_size * (Uint16Size - 1) => ClusterOf(EndOf(o, n)) < ClusterOf(o)
      BY <2>5, <1>2, <1>3, WrapsBack
    <3>2. FileSized' <=> n < cluster_size * (Uint16Size - 1)
      BY <1>5 DEF FileSized
    <3>3. ReadSound'
      <4>1. ClusterOf(o) \in Int /\ ClusterOf(EndOf(o, n)) \in Int
        <5>1. cluster_size \in Nat \ {0} /\ Uint16Size \in Nat \ {0}
          BY FatAssumption
        <5> QED BY <5>1, <1>3, <1>6, DivMod DEF ClusterOf
      <4> QED BY <4>1, <3>1, <3>2, <2>1, <2>2, <2>3, <2>4, <2>5, <1>1, <1>5 DEF ReadSound
    <3> QED BY <3>3, <2>1, <1>1, <1>2, <1>4, <1>5
               DEF FatInv, ListSound, InodeSound, RequestSound, AlignedReadExact, Open
  <2>6. CASE ~(o + n >= Uint64Size)
    <3>1. EndOf(o, n) = o + n
      BY <2>6, <1>2, <1>3, ModSmall DEF EndOf
    <3>2. o + n < cluster_size * Uint16Size
      <4>1. cluster_size * Uint16Size \in Nat
        BY FatAssumption
      <4> QED BY <4>1, <3>1, <2>2, <1>3, <1>4
    <3>3. ClusterOf(o) <= ClusterOf(o + n)
      <4>1. ClusterOf(o) = o \div cluster_size /\ ClusterOf(o + n) = (o + n) \div cluster_size
        BY <3>2, <1>3, NoWrap
      <4>2. o <= o + n /\ cluster_size \in Nat \ {0}
        BY <1>3, FatAssumption
      <4> QED BY <4>1, <4>2, <1>3, DivMonotone
    <3>4. ClusterOf(o + n) \in Nat
      <4>1. cluster_size \in Nat \ {0} /\ Uint16Size \in Nat \ {0}
        BY FatAssumption
      <4> QED BY <4>1, <1>3, DivMod DEF ClusterOf
    <3>5. Filled'
      BY <2>3, <1>1 DEF Filled
    <3>6. First' <= i' /\ i' <= End' + 1
      BY <3>1, <3>3, <3>4, <2>1, <2>3, <2>4
    <3>7. ReadSound'
      BY <3>5, <3>6, <2>1, <2>2, <2>3, <2>4, <2>6, <1>1, <1>5 DEF ReadSound
    <3> QED BY <3>7, <2>1, <1>1, <1>2, <1>4, <1>5
               DEF FatInv, ListSound, InodeSound, RequestSound, AlignedReadExact, Open
  <2> QED BY <2>5, <2>6
<1> QED BY <1>7, <1>8

\* A copy of bytes that continue what is there.
LEMMA CopyContinues ==
  ASSUME NEW d, NEW id \in Nat, NEW offset \in Nat, NEW at \in Nat, NEW n \in Nat,
         NEW c \in Nat, NEW from \in Nat, Holds(d, id, offset, at),
         \A k \in at .. at + n - 1 :
           c = id + ((offset + k) \div cluster_size)
             /\ from + k - at = (offset + k) % cluster_size
  PROVE  Holds(Copy(d, at, c, from, n), id, offset, at + n)
<1> DEFINE g == Copy(d, at, c, from, n)
<1>1. DOMAIN d = 0 .. at - 1
  BY DEF Holds
<1>2. (0 .. at - 1) \cup (at .. at + n - 1) = 0 .. at + n - 1
  OBVIOUS
<1>3. g = [k \in 0 .. at + n - 1 |->
             IF k \in at .. at + n - 1 THEN Byte(c, from + k - at) ELSE d[k]]
  BY <1>1, <1>2 DEF Copy
<1>4. ASSUME NEW k \in 0 .. at + n - 1
      PROVE  g[k] = Byte(id + ((offset + k) \div cluster_size), (offset + k) % cluster_size)
  <2>1. CASE k \in at .. at + n - 1
    BY <2>1, <1>3, Zenon
  <2>2. CASE k \notin at .. at + n - 1
    <3>1. k \in 0 .. at - 1
      BY <2>2, <1>2
    <3>2. g[k] = d[k]
      BY <2>2, <1>3
    <3> QED BY <3>1, <3>2, Zenon DEF Holds
  <2> QED BY <2>1, <2>2
<1>5. DOMAIN g = 0 .. at + n - 1
  BY <1>3
<1> HIDE DEF g
<1>6. at + n - 1 = (at + n) - 1
  OBVIOUS
<1>7. Holds(g, id, offset, at + n)
  BY <1>4, <1>5, <1>6, Zenon DEF Holds
<1> QED BY <1>7 DEF g

\* What the invariant says of a read that does not wrap, in full-width numbers.
LEMMA ReadNumbers ==
  ASSUME FatInv, pc = "read", ~Wraps
  PROVE  /\ req.offset \in Nat /\ req.size \in Nat /\ ip.id \in Nat /\ i \in Nat
         /\ First = req.offset \div cluster_size
         /\ End = (req.offset + req.size) \div cluster_size
         /\ EndRemain = (req.offset + req.size) % cluster_size
         /\ First \in Nat /\ End \in Nat /\ Remain \in Nat /\ EndRemain \in Nat
         /\ Remain < cluster_size /\ EndRemain < cluster_size
         /\ req.offset = cluster_size * First + Remain
         /\ req.offset + req.size = cluster_size * End + EndRemain
         /\ First <= i /\ i <= End + 1
<1>1. /\ req.offset \in 0 .. Uint64Size - 1 /\ req.size \in 0 .. Uint64Size - 1
      /\ ip.id \in Nat /\ ip.size \in Nat /\ ip.size < cluster_size * Uint16Size
      /\ EndOf(req.offset, req.size) <= ip.size
      /\ i \in Nat /\ First <= i /\ i <= End + 1
  BY DEF FatInv, RequestSound, InodeSound, ReadSound, Open
<1>2. /\ cluster_size \in Nat \ {0} /\ Uint16Size \in Nat \ {0} /\ Uint64Size \in Nat \ {0}
      /\ cluster_size * Uint16Size \in Nat
  BY FatAssumption
<1>3. req.offset \in Nat /\ req.size \in Nat
  BY <1>1, <1>2
<1>4. EndOf(req.offset, req.size) = req.offset + req.size
  BY <1>2, <1>3, ModSmall DEF EndOf, Wraps
<1>5. req.offset + req.size < cluster_size * Uint16Size /\ req.offset + req.size \in Nat
  BY <1>1, <1>2, <1>3, <1>4
<1>6. First = req.offset \div cluster_size /\ End = (req.offset + req.size) \div cluster_size
  BY <1>3, <1>4, <1>5, NoWrap DEF First, End
<1>7. /\ req.offset \div cluster_size \in Nat /\ Remain \in Nat /\ Remain < cluster_size
      /\ req.offset = cluster_size * (req.offset \div cluster_size) + Remain
  BY <1>2, <1>3, DivMod DEF Remain
<1>8. /\ EndRemain = (req.offset + req.size) % cluster_size
      /\ (req.offset + req.size) \div cluster_size \in Nat /\ EndRemain \in Nat
      /\ EndRemain < cluster_size
      /\ req.offset + req.size = cluster_size * ((req.offset + req.size) \div cluster_size) + EndRemain
  BY <1>2, <1>4, <1>5, DivMod DEF EndRemain
<1> QED BY <1>1, <1>3, <1>6, <1>7, <1>8

\* One cluster more, of a read that begins at a cluster: the bytes at .. at + n - 1
\* are those of cluster i.
LEMMA ClusterBytes ==
  ASSUME NEW cs \in Nat \ {0}, NEW f \in Nat, NEW j \in Nat, f <= j,
         NEW k \in ((j - f) * cs) .. ((j - f) * cs + cs - 1)
  PROVE  (cs * f + k) \div cs = j /\ (cs * f + k) % cs = k - (j - f) * cs
<1>1. PICK d \in Nat : d = j - f
  OBVIOUS
<1>2. PICK at \in Nat : at = d * cs
  <2>1. d * cs \in Nat
    BY <1>1
  <2> QED BY <2>1
<1>3. k \in at .. at + cs - 1
  BY <1>1, <1>2
<1>4. PICK r \in Nat : r = k - at
  BY <1>3
<1>5. r < cs
  BY <1>3, <1>4
<1>6. j = f + d
  BY <1>1
<1>7. cs * j = cs * f + at
  BY <1>2, <1>6
<1>8. cs * f + k = cs * j + r
  <2>1. cs * f \in Nat
    OBVIOUS
  <2> QED BY <2>1, <1>3, <1>4, <1>7
<1>9. (cs * f + k) \div cs = j /\ (cs * f + k) % cs = r
  BY <1>5, <1>8, DivModUnique
<1> QED BY <1>1, <1>2, <1>4, <1>9

LEMMA ChunkFills ==
  ASSUME FatInv, ReadCluster, ~Wraps, Remain = 0 \/ First = End
  PROVE  Filled'
<1> DEFINE cs == cluster_size
<1>1. pc = "read" /\ i <= End /\ dst' = Chunk /\ i' = i + 1 /\ UNCHANGED <<ip, req>>
  BY DEF ReadCluster
<1>2. /\ req.offset \in Nat /\ req.size \in Nat /\ ip.id \in Nat /\ i \in Nat
      /\ First \in Nat /\ End \in Nat /\ Remain \in Nat /\ EndRemain \in Nat
      /\ Remain < cs /\ EndRemain < cs /\ First <= i
  BY <1>1, ReadNumbers
<1>3. req.offset = cs * First + Remain /\ req.offset + req.size = cs * End + EndRemain
  BY <1>1, ReadNumbers
<1>4. cs \in Nat \ {0}
  BY FatAssumption
<1>5. First' = First /\ End' = End
  BY <1>1 DEF First, End
<1>6. Filled
  BY <1>1 DEF FatInv, ReadSound
<1>7. ASSUME NEW c \in Nat, c = (IF i = End THEN req.size ELSE (i + 1 - First) * cs),
             Holds(dst', ip.id, req.offset, c)
      PROVE  Filled'
  <2>1. i' # First'
    BY <1>1, <1>2, <1>5
  <2>2. i' > End' <=> i = End
    BY <1>1, <1>2, <1>5
  <2>3. i' - First' = i + 1 - First
    BY <1>1, <1>2, <1>5
  <2>4. FilledTo(c)'
    BY <1>1, <1>7 DEF FilledTo, Holds
  <2>5. CASE i = End
    BY <2>1, <2>2, <2>4, <2>5, <1>1, <1>7 DEF Filled
  <2>6. CASE i # End
    BY <2>1, <2>2, <2>3, <2>4, <2>6, <1>1, <1>7 DEF Filled
  <2> QED BY <2>5, <2>6
<1>8. CASE i = First
  <2>1. Holds(dst, ip.id, req.offset, 0)
    <3>1. dst = <<>>
      BY <1>6, <1>8 DEF Filled
    <3>2. 0 .. 0 - 1 = {} /\ DOMAIN dst = {}
      BY <3>1
    <3> QED BY <3>2 DEF Holds
  <2>2. PICK n \in Nat : /\ n = IF i = End THEN req.size ELSE cs
                         /\ Remain + n <= cs
                         /\ dst' = Copy(dst, 0, ip.id + i, Remain, n)
    <3>1. CASE i = End
      <4>1. req.offset + req.size = cs * First + EndRemain
        BY <3>1, <1>3, <1>8
      <4>2. PICK y \in Nat : y = cs * First
        BY <1>2, <1>4
      <4>3. Remain + req.size = EndRemain
        BY <4>1, <4>2, <1>2, <1>3
      <4>4. dst' = Copy(dst, 0, ip.id + i, Remain, req.size)
        BY <1>1, <1>8, <3>1 DEF Chunk
      <4>5. Remain + req.size <= cs
        BY <4>3, <1>2, <1>4
      <4> QED BY <4>4, <4>5, <3>1, <1>2
    <3>2. CASE i # End
      <4>1. Remain = 0 /\ cs - Remain = cs
        BY <1>4, <1>8, <3>2
      <4>2. dst' = Copy(dst, 0, ip.id + i, Remain, cs - Remain)
        BY <1>1, <1>8, <3>2 DEF Chunk
      <4>3. Remain + cs <= cs
        BY <4>1, <1>4
      <4> QED BY <4>1, <4>2, <4>3, <3>2, <1>4
    <3> QED BY <3>1, <3>2
  <2>3. ASSUME NEW k \in 0 .. 0 + n - 1
        PROVE  ip.id + i = ip.id + ((req.offset + k) \div cs)
               /\ Remain + k - 0 = (req.offset + k) % cs
    <3>1. Remain + k \in Nat /\ Remain + k < cs /\ Remain + k - 0 = Remain + k /\ k \in Nat
      BY <2>2, <1>2, <1>4
    <3>2. PICK r \in Nat : r = Remain + k
      BY <3>1
    <3>3. req.offset + k = cs * First + r
      <4>1. PICK y \in Nat : y = cs * First
        BY <1>2, <1>4
      <4> QED BY <4>1, <3>1, <3>2, <1>2, <1>3
    <3>4. (req.offset + k) \div cs = First /\ (req.offset + k) % cs = r
      <4>1. r < cs /\ First \in Nat
        BY <3>1, <3>2, <1>2
      <4>2. (cs * First + r) \div cs = First /\ (cs * First + r) % cs = r
        BY <4>1, <1>4, DivModUnique
      <4> QED BY <4>2, <3>3, Zenon
    <3> QED BY <3>1, <3>2, <3>4, <1>8
  <2>4. ip.id + i \in Nat
    BY <1>2
  <2>5. Holds(Copy(dst, 0, ip.id + i, Remain, n), ip.id, req.offset, 0 + n)
    BY <2>1, <2>3, <2>4, <1>2, CopyContinues
  <2>6. 0 + n = n /\ n = IF i = End THEN req.size ELSE (i + 1 - First) * cs
    <3>1. i + 1 - First = 1
      BY <1>2, <1>8
    <3>2. (i + 1 - First) * cs = cs
      BY <3>1, <1>4
    <3> QED BY <3>2, <2>2
  <2> QED BY <2>2, <2>5, <2>6, <1>7
<1>9. CASE i # First
  <2>1. i > First /\ First # End /\ Remain = 0
    BY <1>1, <1>2, <1>9
  <2>2. PICK d \in Nat : d = i - First /\ i = First + d /\ i + 1 - First = d + 1
    BY <1>2
  <2>3. PICK at \in Nat : at = d * cs /\ at = (i - First) * cs
    <3>1. d * cs \in Nat
      BY <1>4
    <3> QED BY <3>1, <2>2
  <2>4. Holds(dst, ip.id, req.offset, at)
    <3>1. ~(i > End)
      BY <1>1, <1>2
    <3> QED BY <3>1, <2>3, <1>6, <1>9 DEF Filled, FilledTo
  <2>5. PICK n \in Nat : n = (IF i = End THEN EndRemain ELSE cs) /\ n <= cs
    BY <1>2, <1>4
  <2>6. dst' = Copy(dst, at, ip.id + i, 0, n)
    BY <2>3, <2>5, <1>1, <1>9 DEF Chunk
  <2>7. req.offset = cs * First
    <3>1. PICK y \in Nat : y = cs * First
      BY <1>2, <1>4
    <3> QED BY <3>1, <2>1, <1>2, <1>3
  <2>8. ASSUME NEW k \in at .. at + n - 1
        PROVE  ip.id + i = ip.id + ((req.offset + k) \div cs)
               /\ 0 + k - at = (req.offset + k) % cs
    <3>1. k \in at .. at + cs - 1 /\ 0 + k - at = k - at
      BY <2>5, <1>4
    <3>2. (cs * First + k) \div cs = i /\ (cs * First + k) % cs = k - at
      <4>1. k \in ((i - First) * cs) .. ((i - First) * cs + cs - 1)
        BY <3>1, <2>3, Zenon
      <4>2. i \in Nat /\ First \in Nat /\ First <= i
        BY <1>2
      <4>3. (cs * First + k) \div cs = i /\ (cs * First + k) % cs = k - (i - First) * cs
        BY <4>1, <4>2, <1>4, ClusterBytes, Zenon
      <4> QED BY <4>3, <2>3, Zenon
    <3> QED BY <3>1, <3>2, <2>7
  <2>9. Holds(Copy(dst, at, ip.id + i, 0, n), ip.id, req.offset, at + n)
    <3>1. ip.id + i \in Nat
      BY <1>2
    <3> QED BY <3>1, <2>4, <2>8, <1>2, CopyContinues
  <2>10. at + n = IF i = End THEN req.size ELSE (i + 1 - First) * cs
    <3>1. CASE i = End
      <4>1. PICK y \in Nat : y = cs * First
        BY <1>2, <1>4
      <4>2. cs * i = y + at
        BY <4>1, <2>2, <2>3, <1>2, <1>4
      <4>3. y + req.size = y + at + EndRemain
        BY <4>1, <4>2, <2>7, <3>1, <1>3
      <4> QED BY <4>3, <2>5, <3>1, <1>2
    <3>2. CASE i # End
      <4>1. (d + 1) * cs = at + cs
        BY <2>3, <1>4
      <4> QED BY <4>1, <2>2, <2>5, <3>2
    <3> QED BY <3>1, <3>2
  <2> QED BY <2>6, <2>9, <2>10, <1>7
<1> QED BY <1>8, <1>9

LEMMA StepCluster ==
  ASSUME FatInv, ReadCluster
  PROVE  FatInv'
<1>1. /\ pc = "read" /\ i <= End /\ i' = i + 1
      /\ UNCHANGED <<pc, dir, ip, ilist, req, ret, bufs>>
  BY DEF ReadCluster
<1>2. /\ First' = First /\ End' = End /\ Remain' = Remain /\ (Wraps' <=> Wraps) /\ Held' = Held
      /\ EndOf(req.offset, req.size)' = EndOf(req.offset, req.size)
  BY <1>1 DEF First, End, Remain, Wraps, Held
<1>3. ret = 0 /\ EndOf(req.offset, req.size) <= ip.size /\ i \in Nat /\ i' \in Nat
  BY <1>1 DEF FatInv, ReadSound
<1>4. CASE Wraps
  <2>1. End \in Int
    <3>1. cluster_size \in Nat \ {0} /\ Uint16Size \in Nat \ {0} /\ Uint64Size \in Nat \ {0}
      BY FatAssumption
    <3>2. req.offset \in Nat /\ req.size \in Nat
      BY <1>1, FatAssumption DEF FatInv, RequestSound
    <3>3. EndOf(req.offset, req.size) \in Nat
      BY <3>1, <3>2 DEF EndOf
    <3> QED BY <3>1, <3>3, DivMod DEF End, ClusterOf
  <2>2. ~FileSized
    BY <2>1, <1>1, <1>3, <1>4 DEF FatInv, ReadSound
  <2>3. FileSized' <=> FileSized
    BY <1>1 DEF FileSized
  <2>4. ReadSound'
    BY <2>2, <2>3, <1>1, <1>2, <1>3, <1>4 DEF ReadSound
  <2> QED BY <2>4, <1>1, <1>2
             DEF FatInv, ListSound, InodeSound, RequestSound, AlignedReadExact, Open
<1>5. CASE ~Wraps
  <2>1. i \in Nat /\ First \in Nat /\ End \in Nat /\ First <= i
    BY <1>1, <1>5, ReadNumbers
  <2>2. Remain = 0 \/ First = End => Filled'
    BY <1>5, ChunkFills
  <2>3. First' <= i' /\ i' <= End' + 1
    BY <2>1, <1>1, <1>2
  <2>4. ReadSound'
    BY <2>2, <2>3, <1>1, <1>2, <1>3, <1>5 DEF ReadSound
  <2> QED BY <2>4, <1>1, <1>2
             DEF FatInv, ListSound, InodeSound, RequestSound, AlignedReadExact, Open
<1> QED BY <1>4, <1>5

\* A copy that leaves what is mapped stops the kernel.
LEMMA StepTrap ==
  ASSUME FatInv, ReadTrap
  PROVE  FatInv'
<1>1. pc = "read" /\ pc' = "trap" /\ UNCHANGED <<dir, ip, ilist, bufs>>
  BY DEF ReadTrap
<1> QED BY <1>1 DEF FatInv, ListSound, InodeSound, RequestSound, ReadSound, AlignedReadExact,
                    Open, Held

\* What has been filled is what the file holds.
LEMMA FilledIsExact ==
  ASSUME req.offset \in Nat, req.size \in Nat, FilledTo(req.size), Contiguous
  PROVE  Exact
<1>1. DOMAIN dst = 0 .. req.size - 1
  BY DEF FilledTo, Holds
<1>2. cluster_size \in Nat \ {0}
  BY FatAssumption
<1>3. ASSUME NEW k \in 0 .. req.size - 1
      PROVE  dst[k] = FileByte(ip.id, req.offset + k)
  <2> DEFINE q == (req.offset + k) \div cluster_size
  <2>1. dst[k] = Byte(ip.id + q, (req.offset + k) % cluster_size)
    BY DEF FilledTo, Holds
  <2>2. PICK a \in Nat : a = req.offset + k
    OBVIOUS
  <2>3. PICK b \in Nat : b = req.offset + req.size - 1 /\ a <= b
    BY <2>2
  <2>4. a \div cluster_size \in Nat /\ b \div cluster_size \in Nat
        /\ a \div cluster_size <= b \div cluster_size
    BY <2>3, <1>2, DivMod, DivMonotone
  <2>5. q \in 0 .. (req.offset + req.size - 1) \div cluster_size
    BY <2>2, <2>3, <2>4
  <2>6. Hop[q][ip.id] = ip.id + q
    BY <2>5 DEF Contiguous
  <2> QED BY <2>1, <2>6 DEF FileByte
<1> QED BY <1>1, <1>3 DEF Exact

LEMMA StepEnd ==
  ASSUME FatInv, ReadEnd
  PROVE  FatInv'
<1>1. /\ pc = "read" /\ i > End /\ pc' = "done" /\ bufs' = bufs - 1
      /\ UNCHANGED <<dir, ip, ilist, req, i, dst, ret>>
  BY DEF ReadEnd
<1>2. /\ ret = 0 /\ bufs = 1 /\ ilist = <<Held>> /\ ip.size \in Nat
      /\ ip.size < cluster_size * Uint16Size
  BY <1>1 DEF FatInv, ListSound, InodeSound, ReadSound, Open
<1>3. req.offset \in Nat /\ req.size \in Nat
  BY <1>1, FatAssumption DEF FatInv, RequestSound
<1>4. CASE Wraps
  <2>1. FileSized => dst = <<>>
    BY <1>1, <1>4 DEF FatInv, ReadSound
  <2>2. AlignedReadExact'
    BY <2>1, <1>1, <1>2, <1>4 DEF AlignedReadExact, Wraps, FileSized
  <2> QED BY <2>2, <1>1, <1>2 DEF FatInv, ListSound, InodeSound, RequestSound, ReadSound, Open, Held
<1>5. CASE ~Wraps
  <2>1. (Remain = 0 \/ First = End) /\ Contiguous => Exact
    <3> SUFFICES ASSUME Remain = 0 \/ First = End, Contiguous PROVE Exact
      OBVIOUS
    <3>1. Filled
      BY <1>1, <1>5 DEF FatInv, ReadSound
    <3>2. i # First
      <4>1. First \in Nat /\ End \in Nat /\ i \in Nat /\ First <= End
        <5>1. First = req.offset \div cluster_size /\ End = (req.offset + req.size) \div cluster_size
              /\ First \in Nat /\ End \in Nat /\ i \in Nat
          BY <1>1, <1>5, ReadNumbers
        <5>2. req.offset <= req.offset + req.size /\ cluster_size \in Nat \ {0}
          BY <1>3, FatAssumption
        <5> QED BY <5>1, <5>2, <1>3, DivMonotone
      <4> QED BY <4>1, <1>1
    <3>3. FilledTo(req.size)
      BY <3>1, <3>2, <1>1 DEF Filled
    <3> QED BY <3>3, <1>3, FilledIsExact
  <2>2. AlignedReadExact'
    <3>1. /\ Wraps' = Wraps /\ Remain' = Remain /\ First' = First /\ End' = End
          /\ Contiguous' = Contiguous /\ Exact' = Exact /\ ret' = 0
      BY <1>1, <1>2 DEF Wraps, Remain, First, End, Contiguous, Exact
    <3> QED BY <3>1, <2>1, <1>1, <1>5 DEF AlignedReadExact
  <2> QED BY <2>2, <1>1, <1>2 DEF FatInv, ListSound, InodeSound, RequestSound, ReadSound, Open, Held
<1> QED BY <1>4, <1>5

LEMMA StepStutter ==
  ASSUME FatInv, UNCHANGED fatVars
  PROVE  FatInv'
<1>1. UNCHANGED <<pc, dir, ip, ilist, req, i, dst, ret, bufs>>
  BY DEF fatVars
<1>2. ListSound' /\ InodeSound' /\ RequestSound'
  BY <1>1 DEF FatInv, ListSound, InodeSound, RequestSound, Open, Held
<1>3. ReadSound'
  BY <1>1 DEF FatInv, ReadSound, Wraps, FileSized, First, End, Remain, Filled, FilledTo
<1>4. AlignedReadExact'
  BY <1>1 DEF FatInv, AlignedReadExact, Wraps, FileSized, First, End, Remain, Contiguous, Exact
<1> QED BY <1>2, <1>3, <1>4 DEF FatInv

LEMMA FatInductive == FatSpec => []FatInv
<1>1. FatInv /\ [FatNextStep]_fatVars => FatInv'
  BY StepWalk, StepSearch, StepName, StepIalloc, StepIfree, StepBegin, StepCluster, StepTrap,
     StepEnd, StepStutter DEF FatNextStep, FatStopped
<1> QED BY <1>1, InitFat, PTL DEF FatSpec

-----------------------------------------------------------------------------

\* fat16_readi() delivers exactly the bytes asked for when it begins at a cluster
\* or stays in one and the file is not fragmented; a read past the end, or whose
\* end wraps around 64 bits by its offset (with a size that a file can have),
\* delivers none.
THEOREM ReadsExact == FatSpec => []AlignedReadExact
BY FatInductive, PTL DEF FatInv

\* Every way through fat16_find_cluster(), ialloc(), fat16_readi() and ifree()
\* gives back its buffer and its inode.
THEOREM InodesAndBuffersReturned == FatSpec => []NothingKept
<1>1. FatInv => NothingKept
  BY DEF FatInv, ListSound, Open, NothingKept
<1> QED BY <1>1, FatInductive, PTL

-----------------------------------------------------------------------------
(* Path resolution.                                                        *)

\* On its way the search is in the directory that the names so far lead to.
OnTheWay ==
  pc \in {"walk", "search"} /\ depth < Len(path.names) => \A ds \in Through[path] : dir = ds[depth + 1]

PathInv ==
  /\ path \in Paths /\ depth \in Nat /\ dir \in Clusters \cup {0}
  /\ pc = "search" => depth < Len(path.names)
  /\ OnTheWay /\ NameiInDirectory

LEMMA InitPath == FatInit => PathInv
BY DEF FatInit, PathInv, OnTheWay, NameiInDirectory

\* What a member of Through is.
LEMMA ThroughFacts ==
  ASSUME NEW p \in Paths, NEW ds \in Through[p]
  PROVE  /\ Len(p.names) \in Nat
         /\ Len(p.names) # 0 => ds[1] = 0
         /\ \A k \in 1 .. Len(p.names) - 1 :
              /\ ds[k] \in Clusters \cup {0}
              /\ \E l \in 1 .. Len(Dir[ds[k]]) :
                   /\ Dir[ds[k]][l].kind = "dir" /\ <<Dir[ds[k]][l].base>> = p.names[k]
                   /\ Dir[ds[k]][l].cluster = ds[k + 1]
<1>1. p.names \in Seq(Seq(STRING)) /\ Len(p.names) \in Nat
  BY PathsAssumption
<1>2. ds \in {es \in [1 .. Len(p.names) -> Clusters \cup {0}] :
                /\ p.names # <<>> => es[1] = 0
                /\ \A k \in 1 .. Len(p.names) - 1 : \E l \in 1 .. Len(Dir[es[k]]) :
                     /\ Dir[es[k]][l].kind = "dir" /\ <<Dir[es[k]][l].base>> = p.names[k]
                     /\ Dir[es[k]][l].cluster = es[k + 1]}
  BY Zenon DEF Through
<1>3. /\ ds \in [1 .. Len(p.names) -> Clusters \cup {0}]
      /\ p.names # <<>> => ds[1] = 0
      /\ \A k \in 1 .. Len(p.names) - 1 : \E l \in 1 .. Len(Dir[ds[k]]) :
           /\ Dir[ds[k]][l].kind = "dir" /\ <<Dir[ds[k]][l].base>> = p.names[k]
           /\ Dir[ds[k]][l].cluster = ds[k + 1]
  BY <1>2, Zenon
<1>4. Len(p.names) # 0 => p.names # <<>>
  BY <1>1
<1>5. ASSUME NEW k \in 1 .. Len(p.names) - 1 PROVE ds[k] \in Clusters \cup {0}
  <2>1. k \in 1 .. Len(p.names)
    BY <1>1
  <2> QED BY <2>1, <1>3, Zenon
<1> QED BY <1>1, <1>3, <1>4, <1>5, Zenon

\* A directory is found under its own name.
LEMMA FindDirectory ==
  ASSUME PlainNames, NEW d \in Clusters \cup {0}, NEW name,
         fat16_find_cluster(name, d).cluster # 0,
         NEW l \in 1 .. Len(Dir[d]), Dir[d][l].kind = "dir", <<Dir[d][l].base>> = name
  PROVE  fat16_find_cluster(name, d).cluster = Dir[d][l].cluster
<1>1. PICK k \in 1 .. Len(Dir[d]) :
        /\ Matches(Dir[d][k], name)
        /\ fat16_find_cluster(name, d) = [cluster |-> Dir[d][k].cluster, size |-> Dir[d][k].size]
  BY FindHit, Zenon
<1>2. Dir[d][k] \in DirEntries
  <2>1. Dir[d] \in Seq(DirEntries)
    BY FindHit, Zenon
  <2> QED BY <2>1
<1>3. Dir[d][k].kind \in {"file", "dir"}
  BY <1>1, <1>2 DEF Matches, DirEntries
<1>4. Shown(Dir[d][l]) = name
  BY Zenon DEF PlainNames, Shown
<1>5. Shown(Dir[d][k]) = Shown(Dir[d][l])
  BY <1>1, <1>4, Zenon DEF Matches
<1>6. k = l
  BY <1>3, <1>5, Zenon DEF PlainNames
<1> QED BY <1>1, <1>6

\* An entry that matches has the first part of the name as its base.
LEMMA FindBase ==
  ASSUME NEW d \in Clusters \cup {0}, NEW name, fat16_find_cluster(name, d).cluster # 0
  PROVE  \E k \in 1 .. Len(Dir[d]) :
           /\ Dir[d][k].base = name[1] /\ Dir[d][k].kind \in {"file", "dir"}
           /\ Dir[d][k].cluster = fat16_find_cluster(name, d).cluster
           /\ Dir[d][k].size = fat16_find_cluster(name, d).size
<1>1. PICK k \in 1 .. Len(Dir[d]) :
        /\ Matches(Dir[d][k], name)
        /\ fat16_find_cluster(name, d) = [cluster |-> Dir[d][k].cluster, size |-> Dir[d][k].size]
  BY FindHit, Zenon
<1>2. Dir[d][k] \in DirEntries
  <2>1. Dir[d] \in Seq(DirEntries)
    BY FindHit, Zenon
  <2> QED BY <2>1
<1>3. Dir[d][k].kind \in {"file", "dir"}
  BY <1>1, <1>2 DEF Matches, DirEntries
<1>4. Dir[d][k].base = name[1]
  <2>1. name = <<Dir[d][k].base>> \/ name = <<Dir[d][k].base, Dir[d][k].ext>>
    BY <1>1, Zenon DEF Matches, Shown
  <2> QED BY <2>1
<1> QED BY <1>1, <1>3, <1>4

LEMMA PathBegin ==
  ASSUME PathInv, NEW p \in Paths, NameiBegin(p)
  PROVE  PathInv'
<1>1. path' = p /\ depth' = 0 /\ dir' = 0 /\ pc' \in {"walk", "null"}
  BY DEF NameiBegin
<1>2. \A ds \in Through[p] : 0 < Len(p.names) => 0 = ds[0 + 1]
  BY ThroughFacts
<1>3. OnTheWay'
  BY <1>1, <1>2 DEF OnTheWay
<1> QED BY <1>1, <1>3 DEF PathInv, NameiInDirectory

LEMMA PathStep ==
  ASSUME PlainNames, PathInv, NameiStep
  PROVE  PathInv'
<1> DEFINE f == fat16_find_cluster(Name, dir)
<1>1. /\ pc = "search" /\ path' = path /\ depth' = depth + 1
      /\ pc' = IF f.cluster = 0 \/ (Last /\ path.slash) THEN "null"
               ELSE IF Last THEN "found" ELSE "walk"
      /\ dir' = IF Last THEN dir ELSE f.cluster
      /\ ip' = IF Last /\ ~path.slash THEN [id |-> f.cluster, size |-> f.size] ELSE ip
  BY DEF NameiStep
<1>2. path \in Paths /\ depth \in Nat /\ dir \in Clusters \cup {0} /\ depth < Len(path.names)
  BY <1>1 DEF PathInv
<1>3. Len(path.names) \in Nat
  BY <1>2, PathsAssumption
<1>4. ASSUME NEW ds \in Through[path] PROVE dir = ds[depth + 1]
  BY <1>1, <1>2 DEF PathInv, OnTheWay
<1>5. dir' \in Clusters \cup {0}
  <2>1. f.cluster # 0 => f.cluster \in Clusters
    BY <1>2, FindFacts
  <2> HIDE DEF f
  <2> QED BY <2>1, <1>1, <1>2
<1>6. OnTheWay'
  <2> SUFFICES ASSUME pc' = "walk", NEW ds \in Through[path] PROVE f.cluster = ds[depth + 2]
    <3>1. pc' = "walk" => dir' = f.cluster
      <4> HIDE DEF f
      <4> QED BY <1>1
    <3>2. depth' + 1 = depth + 2
      BY <1>1, <1>2
    <3> HIDE DEF f
    <3> QED BY <3>1, <3>2, <1>1 DEF OnTheWay
  <2>1. f.cluster # 0 /\ ~Last
    <3> HIDE DEF f
    <3> QED BY <1>1
  <2>2. depth + 1 \in 1 .. Len(path.names) - 1 /\ (depth + 1) + 1 = depth + 2
    BY <2>1, <1>1, <1>2, <1>3 DEF Last
  <2>3. PICK l \in 1 .. Len(Dir[dir]) :
          /\ Dir[dir][l].kind = "dir" /\ <<Dir[dir][l].base>> = Name
          /\ Dir[dir][l].cluster = ds[depth + 2]
    <3>1. \E l \in 1 .. Len(Dir[ds[depth + 1]]) :
            /\ Dir[ds[depth + 1]][l].kind = "dir"
            /\ <<Dir[ds[depth + 1]][l].base>> = path.names[depth + 1]
            /\ Dir[ds[depth + 1]][l].cluster = ds[(depth + 1) + 1]
      BY <2>2, <1>2, ThroughFacts, Zenon
    <3> QED BY <3>1, <2>2, <1>4, Zenon DEF Name
  <2>4. f.cluster = Dir[dir][l].cluster
    BY <2>1, <2>3, <1>2, FindDirectory, Zenon
  <2> QED BY <2>3, <2>4, Zenon
<1>7. NameiInDirectory'
  <2> SUFFICES ASSUME pc' \in {"found", "open", "read", "done"}, NEW ds \in Through[path]
               PROVE  InDirectory(ds[Len(path.names)])'
    BY <1>1 DEF NameiInDirectory
  <2>1. f.cluster # 0 /\ Last /\ ip' = [id |-> f.cluster, size |-> f.size]
    <3> HIDE DEF f
    <3> QED BY <1>1
  <2>2. ds[Len(path.names)] = dir /\ Name = path.names[Len(path.names)]
    BY <2>1, <1>4, Zenon DEF Last, Name
  <2>3. PICK k \in 1 .. Len(Dir[dir]) :
          /\ Dir[dir][k].base = Name[1] /\ Dir[dir][k].kind \in {"file", "dir"}
          /\ Dir[dir][k].cluster = f.cluster /\ Dir[dir][k].size = f.size
    BY <2>1, <1>2, FindBase, Zenon
  <2>4. ip'.id = f.cluster /\ ip'.size = f.size
    <3> HIDE DEF f
    <3> QED BY <2>1
  <2> HIDE DEF f
  <2> QED BY <2>2, <2>3, <2>4, <1>1, Zenon DEF InDirectory
<1>8. path' \in Paths /\ depth' \in Nat /\ pc' # "search"
  BY <1>1, <1>2
<1> QED BY <1>5, <1>6, <1>7, <1>8 DEF PathInv

\* The steps after the search leave the path and the inode as they are, or end in
\* the idle state.
LEMMA PathElse ==
  ASSUME PathInv, UNCHANGED <<path, depth, dir>>, pc' \notin {"walk", "search"} \/ pc' = pc,
         pc' \in {"idle", "null"} \/ UNCHANGED ip,
         pc' \in {"idle", "null"} \/ pc \in {"found", "open", "read", "done"} \/ pc' = pc
  PROVE  PathInv'
<1>1. OnTheWay'
  BY DEF PathInv, OnTheWay
<1>2. NameiInDirectory'
  <2>1. CASE pc' \in {"idle", "null"}
    BY <2>1 DEF NameiInDirectory
  <2>2. CASE pc' \notin {"idle", "null"}
    <3>1. UNCHANGED ip /\ (pc \in {"found", "open", "read", "done"} \/ pc' = pc)
      BY <2>2, Zenon
    <3>2. pc' \in {"found", "open", "read", "done"} => pc \in {"found", "open", "read", "done"}
      BY <3>1
    <3> QED BY <3>1, <3>2, Zenon DEF PathInv, NameiInDirectory, InDirectory
  <2> QED BY <2>1, <2>2
<1> QED BY <1>1, <1>2 DEF PathInv

\* fat16_namei() follows the directories of a path: what it finds is an entry of the
\* last of them, with the base name asked for, on any disk with plain names.
THEOREM PathsResolve == PlainNames => (FatSpec => []NameiInDirectory)
<1> SUFFICES ASSUME PlainNames PROVE FatSpec => []NameiInDirectory
  OBVIOUS
<1>1. PathInv /\ [FatNextStep]_fatVars => PathInv'
  <2> SUFFICES ASSUME PathInv, [FatNextStep]_fatVars PROVE PathInv'
    OBVIOUS
  <2>1. CASE \E p \in Paths : NameiBegin(p)
    BY <2>1, PathBegin
  <2>2. CASE NameiStep
    BY <2>2, PathStep
  <2>3. CASE NameiRead
    BY <2>3 DEF NameiRead, PathInv, OnTheWay, NameiInDirectory
  <2>4. CASE NameiEmpty \/ NameiNull
    BY <2>4, PathElse DEF NameiEmpty, NameiNull
  <2>5. CASE ialloc
    BY <2>5, PathElse DEF ialloc
  <2>6. CASE ifree
    BY <2>6, PathElse DEF ifree
  <2>7. ASSUME NEW o \in Offsets, NEW n \in Sizes, ReadBegin(o, n) PROVE PathInv'
    BY <2>7, PathElse DEF ReadBegin
  <2>8. CASE ReadCluster
    BY <2>8, PathElse DEF ReadCluster
  <2>9. CASE ReadEnd
    BY <2>9, PathElse DEF ReadEnd
  <2>10. CASE ReadTrap
    BY <2>10, PathElse DEF ReadTrap
  <2>11. CASE UNCHANGED fatVars
    BY <2>11, PathElse DEF fatVars
  <2> QED BY <2>1, <2>2, <2>3, <2>4, <2>5, <2>6, <2>7, <2>8, <2>9, <2>10, <2>11
          DEF FatNextStep, FatStopped
<1>2. PathInv => NameiInDirectory
  BY DEF PathInv
<1> QED BY <1>1, <1>2, InitPath, PTL DEF FatSpec
=============================================================================
