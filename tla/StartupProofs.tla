--------------------------- MODULE StartupProofs ---------------------------
(***************************************************************************)
(* Proofs about the way from the firmware to the kernel, for any machine,  *)
(* any kernel file and any behaviour of the firmware.                      *)
(*                                                                         *)
(* The loader: the volumes it has passed over cannot have the kernel; the  *)
(* headers it has counted are in memory, and a segment that is read later  *)
(* does not disturb them; the map key it holds when it leaves the firmware *)
(* is the current one unless the map has changed since.                    *)
(*                                                                         *)
(* The scan of pm_init() stops at the first of its hits, which is the      *)
(* lowest; the walk over the MADT stands where an entry begins; the PCI    *)
(* list holds the functions of the slots scanned, as many as there are.    *)
(***************************************************************************)
EXTENDS Startup, WellFoundedInduction, FiniteSetTheorems, TLAPS

-----------------------------------------------------------------------------
(* The inductive invariant of the loader.                                  *)

Usable(v) == volumes[v].proto /\ volumes[v].opens /\ volumes[v].has

SearchSound ==
  /\ bpc = "locate" => vol = 1
  /\ bpc = "volume" => vol \in Nat \ {0} /\ \A v \in 1 .. vol - 1 : ~Usable(v)

MapSound == bpc = "exit" /\ ~moved => map_key = mapkey

FilesSound == bpc # "kernel" => volumes \in VolumeLists /\ kernel \in Kernels

\* What belongs at byte n of a segment.
Content(s, n) == IF n < s.filesz THEN s.offset + n ELSE "zero"

SegmentIntact(s) == \A n \in 0 .. s.memsz - 1 : mem[s.paddr + n] = Content(s, n)

\* The first n headers have been served.
Intact(n) ==
  WholeKernel =>
    \A j \in 1 .. Len(kernel.phdrs) :
      j <= n /\ kernel.phdrs[j].load => SegmentIntact(kernel.phdrs[j])

LoadSound ==
  /\ ph \in Nat
  /\ bpc \in {"locate", "volume", "ehdr"} => ph = 0
  /\ bpc = "phdr" => Intact(ph)
  /\ bpc \in {"info", "map", "exit", "enter"} => Intact(Len(kernel.phdrs))

LoaderInv == SearchSound /\ MapSound /\ FilesSound /\ LoadSound /\ HaltHasCause

-----------------------------------------------------------------------------
(* Its parts, step by step.                                                *)

LEMMA StartSteps ==
  ASSUME [StartNext]_startVars
  PROVE  LoaderStep \/ FirmwareMoves \/ UNCHANGED bootVars
BY DEF StartNext, Load, cpu_init, ReadAcpi, ScanMemory, ScanPci, StartOver, startVars

LEMMA InitLoader == StartInit => LoaderInv
<1> SUFFICES ASSUME BootInit PROVE LoaderInv
  BY DEF StartInit
<1>1. bpc = "locate" /\ vol = 1 /\ ph = 0 /\ moved = FALSE
      /\ volumes \in VolumeLists /\ kernel \in Kernels
  BY DEF BootInit
<1> QED BY <1>1 DEF LoaderInv, SearchSound, MapSound, FilesSound, LoadSound, HaltHasCause

\* The volumes that have been looked at.
LEMMA SearchStep ==
  ASSUME LoaderInv, LoaderStep \/ FirmwareMoves \/ UNCHANGED bootVars
  PROVE  SearchSound'
<1>1. CASE LocateHandleBuffer
  <2>1. bpc = "locate" /\ vol' = vol /\ bpc' \in {"volume", "halt"}
    BY <1>1 DEF LocateHandleBuffer, Asserted
  <2> QED BY <2>1 DEF LoaderInv, SearchSound
<1>2. CASE search_volume_contains_file
  <2>1. bpc = "volume" /\ volumes' = volumes /\ vol \in Nat \ {0}
        /\ \A v \in 1 .. vol - 1 : ~Usable(v)
    BY <1>2 DEF search_volume_contains_file, LoaderInv, SearchSound
  <2>2. CASE bpc' = "volume"
    <3>1. vol' = vol + 1 /\ ~Usable(vol)
      BY <1>2, <2>2 DEF search_volume_contains_file, Usable
    <3>2. \A v \in 1 .. vol' - 1 : ~Usable(v)
      BY <3>1, <2>1
    <3> QED BY <3>1, <3>2, <2>1, <2>2 DEF SearchSound, Usable
  <2>3. CASE bpc' # "volume"
    BY <1>2, <2>1, <2>3 DEF search_volume_contains_file, SearchSound
  <2> QED BY <2>2, <2>3
<1>3. CASE ReadEhdr \/ load_kernel \/ BootInformation \/ GetMemoryMap \/ ExitBootServices \/ EnterKernel
  <2>1. bpc' \notin {"locate", "volume"}
    BY <1>3 DEF ReadEhdr, load_kernel, BootInformation, GetMemoryMap, ExitBootServices,
                EnterKernel, Asserted
  <2> QED BY <2>1 DEF SearchSound
<1>4. CASE FirmwareMoves \/ UNCHANGED bootVars
  <2>1. UNCHANGED <<bpc, vol, volumes>>
    BY <1>4 DEF FirmwareMoves, bootVars
  <2> QED BY <2>1 DEF LoaderInv, SearchSound, Usable
<1> QED BY <1>1, <1>2, <1>3, <1>4 DEF LoaderStep

LEMMA MapStep ==
  ASSUME LoaderInv, LoaderStep \/ FirmwareMoves \/ UNCHANGED bootVars
  PROVE  MapSound'
<1>1. CASE GetMemoryMap
  BY <1>1 DEF GetMemoryMap, MapKeyFresh, MapSound
<1>2. CASE LocateHandleBuffer \/ search_volume_contains_file \/ ReadEhdr \/ load_kernel
             \/ BootInformation \/ ExitBootServices \/ EnterKernel
  <2>1. bpc' # "exit"
    BY <1>2 DEF LocateHandleBuffer, search_volume_contains_file, ReadEhdr, load_kernel,
                BootInformation, ExitBootServices, EnterKernel, Asserted
  <2> QED BY <2>1 DEF MapSound
<1>3. CASE FirmwareMoves
  BY <1>3 DEF FirmwareMoves, MapSound
<1>4. CASE UNCHANGED bootVars
  BY <1>4 DEF bootVars, LoaderInv, MapSound
<1> QED BY <1>1, <1>2, <1>3, <1>4 DEF LoaderStep

LEMMA FilesStep ==
  ASSUME LoaderInv, LoaderStep \/ FirmwareMoves \/ UNCHANGED bootVars
  PROVE  FilesSound' /\ (bpc' # "kernel" => UNCHANGED <<volumes, kernel>>)
<1>1. CASE EnterKernel
  BY <1>1 DEF EnterKernel, FilesSound
<1>2. CASE ~EnterKernel
  <2>1. UNCHANGED <<volumes, kernel>>
    BY <1>2 DEF LoaderStep, LocateHandleBuffer, search_volume_contains_file, ReadEhdr,
                load_kernel, BootInformation, GetMemoryMap, ExitBootServices,
                FirmwareMoves, bootVars
  <2>2. bpc' # "kernel" => bpc # "kernel"
    BY <1>2 DEF LoaderStep, LocateHandleBuffer, search_volume_contains_file, ReadEhdr,
                load_kernel, BootInformation, GetMemoryMap, ExitBootServices,
                FirmwareMoves, bootVars
  <2> QED BY <2>1, <2>2 DEF LoaderInv, FilesSound
<1> QED BY <1>1, <1>2

\* The loader gives up for a reason.
LEMMA HaltStep ==
  ASSUME LoaderInv, LoaderStep \/ FirmwareMoves \/ UNCHANGED bootVars
  PROVE  HaltHasCause'
<1> SUFFICES ASSUME bpc' = "halt", ~failed', kernel'.magic, ~moved'
             PROVE  \A v \in 1 .. Len(volumes') :
                      volumes'[v].has => ~volumes'[v].proto \/ ~volumes'[v].opens
  BY DEF HaltHasCause
<1>1. CASE LocateHandleBuffer \/ load_kernel \/ BootInformation \/ GetMemoryMap \/ EnterKernel
  BY <1>1 DEF LocateHandleBuffer, load_kernel, BootInformation, GetMemoryMap, EnterKernel, Asserted
<1>2. CASE search_volume_contains_file
  <2>1. /\ bpc = "volume" /\ volumes' = volumes /\ vol \in Nat \ {0} /\ vol > Len(volumes)
        /\ \A v \in 1 .. vol - 1 : ~Usable(v)
    BY <1>2 DEF search_volume_contains_file, LoaderInv, SearchSound, SearchedAll
  <2>2. Len(volumes) \in Nat
    BY <2>1, LoaderAssumption DEF LoaderInv, FilesSound
  <2>3. \A v \in 1 .. Len(volumes) : ~Usable(v)
    BY <2>1, <2>2
  <2> QED BY <2>1, <2>3 DEF Usable
<1>3. CASE ReadEhdr
  BY <1>3 DEF ReadEhdr, Asserted
<1>4. CASE ExitBootServices
  BY <1>4 DEF ExitBootServices, LoaderInv, MapSound
<1>5. CASE FirmwareMoves
  BY <1>5 DEF FirmwareMoves
<1>6. CASE UNCHANGED bootVars
  BY <1>6 DEF bootVars, LoaderInv, HaltHasCause
<1> QED BY <1>1, <1>2, <1>3, <1>4, <1>5, <1>6 DEF LoaderStep

\* A segment that is read is where its header says, and those read before are
\* where they were.
LEMMA LoadedFacts ==
  ASSUME kernel \in Kernels, WholeKernel,
         NEW i \in 1 .. Len(kernel.phdrs), kernel.phdrs[i].load,
         NEW j \in 1 .. Len(kernel.phdrs), kernel.phdrs[j].load,
         i = j \/ SegmentIntact(kernel.phdrs[j]),
         mem' = Loaded(kernel.phdrs[i])
  PROVE  \A n \in 0 .. kernel.phdrs[j].memsz - 1 :
            mem'[kernel.phdrs[j].paddr + n] = Content(kernel.phdrs[j], n)
<1> DEFINE p == kernel.phdrs[i]
           s == kernel.phdrs[j]
<1>1. kernel.phdrs \in Seq(Headers)
  BY LoaderAssumption
<1>2. p \in Headers /\ s \in Headers
  BY <1>1
<1>3. /\ s.filesz <= s.memsz /\ p.filesz <= p.memsz
      /\ \A n \in 0 .. s.memsz - 1 : s.paddr + n \in Ram
      /\ i # j => p.paddr + p.memsz <= s.paddr \/ s.paddr + s.memsz <= p.paddr
  BY LoaderAssumption
<1>4. Short(p.offset, p.filesz) = p.filesz
  BY DEF WholeKernel
<1>5. /\ p.paddr \in Nat /\ p.memsz \in Nat /\ p.filesz \in Nat /\ p.offset \in Nat
      /\ s.paddr \in Nat /\ s.memsz \in Nat /\ s.filesz \in Nat /\ s.offset \in Nat
  BY <1>2 DEF Headers
<1>6. SUFFICES ASSUME NEW n \in 0 .. s.memsz - 1
               PROVE  mem'[s.paddr + n] = Content(s, n)
  OBVIOUS
<1> HIDE DEF p, s
<1>7. mem' = [a \in Ram |-> IF a - p.paddr \in 0 .. p.filesz - 1 THEN p.offset + a - p.paddr
                            ELSE IF a - p.paddr \in p.filesz .. p.memsz - 1 THEN "zero"
                            ELSE mem[a]]
  BY <1>4 DEF Loaded, p
<1> DEFINE a == s.paddr + n
<1>8. a \in Ram /\ a \in Nat /\ n \in Nat /\ n < s.memsz
  BY <1>3, <1>5, SMTT(90)
<1>9. CASE i = j
  <2>1. p = s
    BY <1>9 DEF p, s
  <2>2. a - p.paddr = n
    BY <2>1, <1>5, <1>8
  <2>3. CASE n < s.filesz
    <3>1. a - p.paddr \in 0 .. p.filesz - 1 /\ p.offset + a - p.paddr = s.offset + n
      BY <2>1, <2>2, <2>3, <1>5, <1>8, SMTT(40)
    <3>2. mem'[a] = p.offset + a - p.paddr
      BY <3>1, <1>7, <1>8
    <3> QED BY <3>1, <3>2, <2>3 DEF Content
  <2>4. CASE ~(n < s.filesz)
    <3>1. a - p.paddr \notin 0 .. p.filesz - 1 /\ a - p.paddr \in p.filesz .. p.memsz - 1
      BY <2>1, <2>2, <2>4, <1>5, <1>8, SMTT(40)
    <3>2. mem'[a] = "zero"
      BY <3>1, <1>7, <1>8
    <3> QED BY <3>2, <2>4 DEF Content
  <2> QED BY <2>3, <2>4
<1>10. CASE i # j
  <2>1. a - p.paddr \notin 0 .. p.filesz - 1 /\ a - p.paddr \notin p.filesz .. p.memsz - 1
    <3>1. ASSUME NEW b \in Nat, NEW f \in Nat, NEW m \in Nat, f <= m,
                 NEW k \in Nat, b + m <= k \/ k < b
          PROVE  k - b \notin 0 .. f - 1 /\ k - b \notin f .. m - 1
      BY <3>1
    <3>2. ASSUME NEW b \in Nat, NEW m \in Nat, NEW c \in Nat, NEW l \in Nat,
                 n \in Nat, n < l, b + m <= c \/ c + l <= b
          PROVE  b + m <= c + n \/ c + n < b
      BY <3>2
    <3>3. p.paddr + p.memsz <= s.paddr \/ s.paddr + s.memsz <= p.paddr
      BY <1>3, <1>10
    <3>4. p.paddr + p.memsz <= a \/ a < p.paddr
      BY <3>2, <3>3, <1>5, <1>8
    <3> QED BY <3>1, <3>4, <1>3, <1>5, <1>8
  <2>2. mem'[a] = mem[a]
    BY <2>1, <1>7, <1>8
  <2>3. mem[a] = Content(s, n)
    BY <1>10 DEF SegmentIntact, s
  <2> QED BY <2>2, <2>3
<1> QED BY <1>9, <1>10

\* The headers counted are in memory, also when the count wraps.
LEMMA LoadStep ==
  ASSUME LoaderInv, LoaderStep \/ FirmwareMoves \/ UNCHANGED bootVars
  PROVE  LoadSound'
<1>1. CASE load_kernel
  <2>1. bpc = "phdr" /\ kernel' = kernel /\ kernel \in Kernels /\ ph \in Nat /\ Intact(ph)
    BY <1>1 DEF load_kernel, LoaderInv, FilesSound, LoadSound
  <2>2. kernel.phdrs \in Seq(Headers) /\ Len(kernel.phdrs) \in Nat
    BY <2>1, LoaderAssumption
  <2>3. CASE MoreHeaders
    <3>1. /\ ph' = NextHeader /\ bpc' \in {"phdr", "halt"}
          /\ bpc' = "phdr" => mem' = IF kernel.phdrs[ph + 1].load
                                     THEN Loaded(kernel.phdrs[ph + 1]) ELSE mem
      BY <1>1, <2>3 DEF load_kernel, Asserted
    <3>2. ph' \in Nat /\ ph' <= ph + 1
      BY <3>1, <2>1, LoaderAssumption, SMTT(40) DEF NextHeader
    <3>3. ph + 1 \in 1 .. Len(kernel.phdrs)
      BY <2>1, <2>2, <2>3 DEF MoreHeaders
    <3>4. ASSUME bpc' = "phdr", WholeKernel, NEW j \in 1 .. Len(kernel.phdrs), j <= ph',
                 kernel.phdrs[j].load
          PROVE  \A n \in 0 .. kernel.phdrs[j].memsz - 1 :
                    mem'[kernel.phdrs[j].paddr + n] = Content(kernel.phdrs[j], n)
      <4>1. j = ph + 1 \/ SegmentIntact(kernel.phdrs[j])
        <5>1. j <= ph \/ j = ph + 1
          BY <3>2, <3>4, <2>1
        <5> QED BY <5>1, <3>4, <2>1 DEF Intact
      <4>2. CASE kernel.phdrs[ph + 1].load
        BY <4>1, <4>2, <3>1, <3>3, <3>4, <2>1, LoadedFacts
      <4>3. CASE ~kernel.phdrs[ph + 1].load
        <5>1. SegmentIntact(kernel.phdrs[j]) /\ mem' = mem
          BY <4>1, <4>3, <3>1, <3>4
        <5> QED BY <5>1 DEF SegmentIntact
      <4> QED BY <4>2, <4>3
    <3>5. WholeKernel' <=> WholeKernel
      BY <2>1 DEF WholeKernel, Short
    <3>6. bpc' = "phdr" => Intact(ph)'
      BY <3>4, <3>5, <2>1 DEF Intact, SegmentIntact, Content
    <3> QED BY <3>1, <3>2, <3>6 DEF LoadSound
  <2>4. CASE ~MoreHeaders
    <3>1. bpc' = "info" /\ ph' = ph /\ mem' = mem
      BY <1>1, <2>4 DEF load_kernel
    <3>2. Intact(Len(kernel.phdrs))
      BY <2>1, <2>2, <2>4 DEF MoreHeaders, Intact
    <3>3. Intact(Len(kernel.phdrs))'
      BY <3>1, <3>2, <2>1 DEF Intact, SegmentIntact, Content, WholeKernel, Short
    <3> QED BY <3>1, <3>3, <2>1 DEF LoadSound
  <2> QED BY <2>3, <2>4
<1>2. CASE EnterKernel
  BY <1>2 DEF EnterKernel, LoadSound
<1>3. CASE LocateHandleBuffer \/ search_volume_contains_file \/ ReadEhdr
  <2>1. /\ bpc \in {"locate", "volume", "ehdr"} /\ UNCHANGED <<kernel, ph, mem>>
        /\ bpc' \in {"volume", "ehdr", "phdr", "halt"}
    BY <1>3 DEF LocateHandleBuffer, search_volume_contains_file, ReadEhdr, Asserted
  <2>2. ph = 0 /\ ph' = 0
    BY <2>1 DEF LoaderInv, LoadSound
  <2>3. Intact(0)'
    BY DEF Intact
  <2> QED BY <2>1, <2>2, <2>3 DEF LoadSound
<1>4. CASE BootInformation \/ GetMemoryMap \/ ExitBootServices
  <2>1. /\ bpc \in {"info", "map", "exit"} /\ UNCHANGED <<kernel, ph, mem>>
        /\ bpc' \in {"map", "exit", "enter", "halt"}
    BY <1>4 DEF BootInformation, GetMemoryMap, ExitBootServices, Asserted
  <2>2. Intact(Len(kernel.phdrs)) /\ ph \in Nat
    BY <2>1 DEF LoaderInv, LoadSound
  <2>3. Intact(Len(kernel.phdrs))'
    BY <2>1, <2>2 DEF Intact, SegmentIntact, Content, WholeKernel, Short
  <2> QED BY <2>1, <2>2, <2>3 DEF LoadSound
<1>5. CASE FirmwareMoves \/ UNCHANGED bootVars
  <2>1. UNCHANGED <<bpc, kernel, ph, mem>>
    BY <1>5 DEF FirmwareMoves, bootVars
  <2> QED BY <2>1 DEF LoaderInv, LoadSound, Intact, SegmentIntact, Content, WholeKernel, Short
<1> QED BY <1>1, <1>2, <1>3, <1>4, <1>5 DEF LoaderStep

LEMMA LoaderInductive == StartSpec => []LoaderInv
<1>1. LoaderInv /\ [StartNext]_startVars => LoaderInv'
  BY StartSteps, SearchStep, MapStep, FilesStep, LoadStep, HaltStep DEF LoaderInv
<1> QED BY <1>1, InitLoader, PTL DEF StartSpec

\* The loader gives up only for one of four reasons: a failed call, no volume with
\* the kernel, no ELF magic, a memory map that has changed after it was fetched.
THEOREM LoaderHaltsForCause == StartSpec => []HaltHasCause
BY LoaderInductive, PTL DEF LoaderInv

\* When the loader jumps, every segment of a complete kernel file is in memory as
\* its header says, whatever their number and order.
THEOREM KernelLoaded == StartSpec => []KernelIntact
<1>1. LoaderInv => KernelIntact
  <2> SUFFICES ASSUME LoaderInv, bpc = "enter", WholeKernel,
                      NEW j \in 1 .. Len(kernel.phdrs), kernel.phdrs[j].load,
                      NEW n \in 0 .. kernel.phdrs[j].memsz - 1
               PROVE  mem[kernel.phdrs[j].paddr + n]
                        = IF n < kernel.phdrs[j].filesz THEN kernel.phdrs[j].offset + n ELSE "zero"
    BY DEF KernelIntact
  <2>1. Len(kernel.phdrs) \in Nat
    BY LoaderAssumption DEF LoaderInv, FilesSound
  <2>2. SegmentIntact(kernel.phdrs[j])
    BY <2>1 DEF LoaderInv, LoadSound, Intact
  <2> QED BY <2>2 DEF SegmentIntact, Content
<1> QED BY <1>1, LoaderInductive, PTL

-----------------------------------------------------------------------------
(* The scan of pm_init().  It stops at the first of its hits; the tables   *)
(* map ascending addresses, so the first hit maps the lowest page.         *)

LEMMA LeastNatural ==
  ASSUME NEW S \in SUBSET Nat, S # {}
  PROVE  \E m \in S : \A n \in S : m <= n
<1> DEFINE R == OpToRel(<, Nat)
<1>1. IsWellFoundedOn(R, Nat)
  BY NatLessThanWellFounded
<1>2. \A x, y \in Nat : <<y, x>> \in R <=> y < x
  BY DEF OpToRel
<1> HIDE DEF R
<1>3. PICK m \in S : \A y \in S : ~ (<<y, m>> \in R)
  BY <1>1, WFMin
<1>4. ASSUME NEW n \in S PROVE m <= n
  <2>1. ~ (n < m)
    BY <1>2, <1>3, Zenon
  <2> QED BY <2>1
<1> QED BY <1>4

LEMMA FirstPlace ==
  ASSUME NEW S \in SUBSET (Nat \X Nat \X Nat), S # {}
  PROVE  \E x \in S : \A y \in S : Before(x, y)
<1> DEFINE A == {x[1] : x \in S}
<1>1. PICK a \in A : \A n \in A : a <= n
  <2>1. A \in SUBSET Nat /\ A # {}
    OBVIOUS
  <2> QED BY <2>1, LeastNatural
<1> DEFINE T == {x \in S : x[1] = a}
           B == {x[2] : x \in T}
<1>2. PICK b \in B : \A n \in B : b <= n
  <2>1. B \in SUBSET Nat /\ B # {}
    BY <1>1
  <2> QED BY <2>1, LeastNatural
<1> DEFINE U == {x \in T : x[2] = b}
           C == {x[3] : x \in U}
<1>3. PICK c \in C : \A n \in C : c <= n
  <2>1. C \in SUBSET Nat /\ C # {}
    BY <1>2
  <2> QED BY <2>1, LeastNatural
<1>4. PICK x \in U : x[3] = c
  BY <1>3
<1>5. ASSUME NEW y \in S PROVE Before(x, y)
  <2>1. a \in Nat /\ b \in Nat /\ c \in Nat /\ y[1] \in Nat /\ y[2] \in Nat /\ y[3] \in Nat
        /\ x[1] = a /\ x[2] = b /\ x[3] = c /\ a <= y[1]
    BY <1>1, <1>2, <1>3, <1>4
  <2>2. y[1] = a => b <= y[2]
    BY <1>2
  <2>3. y[1] = a /\ y[2] = b => c <= y[3]
    BY <1>3
  <2> QED BY <2>1, <2>2, <2>3 DEF Before
<1> QED BY <1>4, <1>5

\* A place where the loops stop, if tables are writable: a large page or a small one.
IsHit(h) ==
  /\ h \in Nat \X Nat \X Nat
  /\ h[1] \in 1 .. Len(fw) /\ h[2] \in 1 .. Len(fw[h[1]].pd)
  /\ fw[h[1]].pd[h[2]].p
  /\ \/ h[3] = 0 /\ Pd(h).ps /\ ~Pd(h).rw
     \/ /\ h[3] \in 1 .. Len(Pd(h).pt) /\ ~Pd(h).ps /\ Pd(h).rw
        /\ Pt(h).p /\ ~Pt(h).rw /\ fw[h[1]].p
  /\ fw[h[1]].p

LEMMA EntryType ==
  ASSUME fw \in FwTables, NEW j \in 1 .. Len(fw), NEW k \in 1 .. Len(fw[j].pd)
  PROVE  /\ fw \in Seq(FwDirs) /\ fw[j] \in FwDirs /\ fw[j].pd[k] \in FwEntries
         /\ Len(fw[j].pd) \in Nat /\ k <= PdSpan /\ PdSpan \in Nat \ {0}
         /\ fw[j].pd[k].pt \in Seq(FwPages) /\ Len(fw[j].pd[k].pt) \in Nat
<1>1. fw \in Seq(FwDirs) /\ PdSpan \in Nat \ {0} /\ Len(fw[j].pd) <= PdSpan
  BY FwAssumption
<1>2. fw[j] \in FwDirs
  BY <1>1
<1>3. fw[j].pd \in Seq(FwEntries)
  BY <1>2 DEF FwDirs
<1>4. fw[j].pd[k] \in FwEntries /\ Len(fw[j].pd) \in Nat
  BY <1>3
<1>5. fw[j].pd[k].pt \in Seq(FwPages)
  BY <1>4 DEF FwEntries
<1>6. k <= PdSpan
  BY <1>1, <1>4
<1> QED BY <1>1, <1>2, <1>4, <1>5, <1>6

\* An entry is in Directory.
LEMMA PresentIs ==
  ASSUME fw \in FwTables
  PROVE  \A d : d \in Directory <=>
           \E j \in 1 .. Len(fw) : \E k \in 1 .. Len(fw[j].pd) :
             d = <<j, k>> /\ fw[j].p /\ fw[j].pd[k].p
<1>0. PdSpan \in Nat \ {0}
  BY FwAssumption
<1> SUFFICES ASSUME NEW d
             PROVE  d \in Directory <=>
                      \E j \in 1 .. Len(fw) : \E k \in 1 .. Len(fw[j].pd) :
                        d = <<j, k>> /\ fw[j].p /\ fw[j].pd[k].p
  OBVIOUS
<1>1. ASSUME d \in Directory
      PROVE  \E j \in 1 .. Len(fw) : \E k \in 1 .. Len(fw[j].pd) :
               d = <<j, k>> /\ fw[j].p /\ fw[j].pd[k].p
  <2>1. d \in (1 .. Len(fw)) \X (1 .. PdSpan) /\ d[2] <= Len(fw[d[1]].pd)
        /\ fw[d[1]].p /\ fw[d[1]].pd[d[2]].p
    BY <1>1 DEF Directory
  <2>2. d = <<d[1], d[2]>> /\ d[1] \in 1 .. Len(fw) /\ d[2] \in 1 .. PdSpan
    BY <2>1
  <2>3. fw[d[1]] \in FwDirs
    <3>1. fw \in Seq(FwDirs)
      BY FwAssumption
    <3> QED BY <2>2, <3>1
  <2>4. Len(fw[d[1]].pd) \in Nat
    BY <2>3 DEF FwDirs
  <2>5. d[2] \in 1 .. Len(fw[d[1]].pd)
    BY <1>0, <2>1, <2>2, <2>4
  <2> QED BY <2>1, <2>2, <2>5
<1>2. ASSUME NEW j \in 1 .. Len(fw), NEW k \in 1 .. Len(fw[j].pd),
             d = <<j, k>>, fw[j].p, fw[j].pd[k].p
      PROVE  d \in Directory
  <2>1. k \in 1 .. PdSpan /\ k <= Len(fw[j].pd)
    BY EntryType
  <2>2. d \in (1 .. Len(fw)) \X (1 .. PdSpan) /\ d[1] = j /\ d[2] = k
    BY <1>2, <2>1
  <2> QED BY <1>2, <2>1, <2>2 DEF Directory
<1> QED BY <1>1, <1>2

LEMMA HitsAre ==
  ASSUME fw \in FwTables, TablesWritable, NEW h \in Hits
  PROVE  IsHit(h)
<1>1. CASE h \in {<<jk[1], jk[2], 0>> : jk \in {d \in Directory : ~Pd(d).rw}}
  <2>1. PICK d \in Directory : ~Pd(d).rw /\ h = <<d[1], d[2], 0>>
    BY <1>1
  <2>2. PICK j \in 1 .. Len(fw) : \E k \in 1 .. Len(fw[j].pd) :
               d = <<j, k>> /\ fw[j].p /\ fw[j].pd[k].p
    BY PresentIs
  <2>3. PICK k \in 1 .. Len(fw[j].pd) : d = <<j, k>> /\ fw[j].p /\ fw[j].pd[k].p
    BY <2>2
  <2>4. h[1] = j /\ h[2] = k /\ h[3] = 0 /\ h \in Nat \X Nat \X Nat
    BY <2>1, <2>3
  <2>5. Pd(h) = Pd(d) /\ Pd(h) = fw[j].pd[k]
    BY <2>3, <2>4 DEF Pd
  <2>6. Pd(d).ps \/ Pd(d).rw
    BY DEF TablesWritable
  <2> QED BY <2>1, <2>3, <2>4, <2>5, <2>6 DEF IsHit
<1>2. CASE h \in {jkl \in UNION {Pages(d) : d \in {d \in Directory : Pd(d).rw /\ ~Pd(d).ps}} : ~Pt(jkl).rw}
  <2>1. PICK d \in Directory : Pd(d).rw /\ ~Pd(d).ps /\ h \in Pages(d) /\ ~Pt(h).rw
    BY <1>2
  <2>2. PICK j \in 1 .. Len(fw) : \E k \in 1 .. Len(fw[j].pd) :
               d = <<j, k>> /\ fw[j].p /\ fw[j].pd[k].p
    BY PresentIs
  <2>3. PICK k \in 1 .. Len(fw[j].pd) : d = <<j, k>> /\ fw[j].p /\ fw[j].pd[k].p
    BY <2>2
  <2>4. d[1] = j /\ d[2] = k
    BY <2>3
  <2>5. PICK l \in 1 .. Len(fw[j].pd[k].pt) : h = <<j, k, l>> /\ fw[j].pd[k].pt[l].p
    BY <2>1, <2>4 DEF Pages
  <2>6. h[1] = j /\ h[2] = k /\ h[3] = l /\ h \in Nat \X Nat \X Nat
    BY <2>5
  <2>7. Pd(h) = fw[j].pd[k] /\ Pd(d) = fw[j].pd[k] /\ Pt(h) = fw[j].pd[k].pt[l]
    BY <2>4, <2>6 DEF Pd, Pt
  <2> QED BY <2>1, <2>3, <2>5, <2>6, <2>7 DEF IsHit
<1> QED BY <1>1, <1>2 DEF Hits

\* The pages at which the loops may stop.
HitPages(h) == IF h[3] = 0 THEN Mapped(Pd(h)) ELSE {Pt(h).paddr}

LEMMA ReadOnlyIsHit ==
  ASSUME fw \in FwTables, TablesWritable, NEW a
  PROVE  a \in ReadOnlyPages <=> \E h \in Hits : a \in HitPages(h)
<1>1. ASSUME a \in ReadOnlyPages PROVE \E h \in Hits : a \in HitPages(h)
  <2>1. PICK d \in Directory :
          a \in IF Pd(d).ps THEN IF Pd(d).rw THEN {} ELSE Pd(d).paddr .. Pd(d).paddr + PdSpan - 1
                ELSE {Pt(x).paddr : x \in {x \in Pages(d) : ~Pt(x).rw \/ ~Pd(d).rw}}
    BY <1>1 DEF ReadOnlyPages
  <2>2. CASE Pd(d).ps
    <3>1. ~Pd(d).rw /\ a \in Mapped(Pd(d))
      BY <2>1, <2>2 DEF Mapped
    <3>2. PICK h : h = <<d[1], d[2], 0>>
      OBVIOUS
    <3>3. h \in Hits
      BY <3>1, <3>2 DEF Hits
    <3>4. Pd(h) = Pd(d) /\ h[3] = 0
      BY <3>2 DEF Pd
    <3> QED BY <3>1, <3>3, <3>4 DEF HitPages
  <2>3. CASE ~Pd(d).ps
    <3>1. Pd(d).rw
      BY <2>3 DEF TablesWritable
    <3>2. PICK x \in Pages(d) : ~Pt(x).rw /\ a = Pt(x).paddr
      BY <2>1, <2>3, <3>1
    <3>3. x \in Hits
      BY <2>3, <3>1, <3>2 DEF Hits
    <3>4. x[3] # 0
      <4>1. PICK l \in 1 .. Len(fw[d[1]].pd[d[2]].pt) : x = <<d[1], d[2], l>>
        BY DEF Pages
      <4> QED BY <4>1
    <3> QED BY <3>2, <3>3, <3>4 DEF HitPages
  <2> QED BY <2>2, <2>3
<1>2. ASSUME NEW h \in Hits, a \in HitPages(h) PROVE a \in ReadOnlyPages
  <2>1. IsHit(h)
    BY HitsAre
  <2>2. PICK d : d = <<h[1], h[2]>>
    OBVIOUS
  <2>3. d \in Directory /\ d[1] = h[1] /\ d[2] = h[2] /\ Pd(d) = Pd(h)
    BY <2>1, <2>2, PresentIs DEF IsHit, Pd
  <2>4. CASE h[3] = 0
    <3>1. Pd(d).ps /\ ~Pd(d).rw /\ a \in Pd(d).paddr .. Pd(d).paddr + PdSpan - 1
      BY <1>2, <2>1, <2>3, <2>4 DEF IsHit, HitPages, Mapped
    <3> QED BY <2>3, <3>1 DEF ReadOnlyPages
  <2>5. CASE h[3] # 0
    <3>1. h[3] \in 1 .. Len(Pd(h).pt) /\ ~Pd(d).ps /\ Pt(h).p /\ ~Pt(h).rw /\ a = Pt(h).paddr
      BY <1>2, <2>1, <2>3, <2>5 DEF IsHit, HitPages
    <3>2. h = <<d[1], d[2], h[3]>>
      BY <2>1, <2>3 DEF IsHit
    <3>3. h \in Pages(d)
      BY <2>3, <3>1, <3>2 DEF Pages, Pd, Pt
    <3> QED BY <2>3, <3>1, <3>3 DEF ReadOnlyPages
  <2> QED BY <2>4, <2>5
<1> QED BY <1>1, <1>2

\* What the scan computes from the hit h.
EndAt(h) == IF h[3] = 0 THEN (Pd(h).paddr \div PdSpan) * PdSpan ELSE Pt(h).paddr

LEMMA EndAtHit ==
  ASSUME fw \in FwTables, NEW h, IsHit(h)
  PROVE  EndAt(h) \in HitPages(h) /\ EndAt(h) \in Mapped(Pd(h))
         /\ \A a \in HitPages(h) : EndAt(h) <= a
<1>1. PICK j \in 1 .. Len(fw) : j = h[1]
  BY DEF IsHit
<1>2. PICK k \in 1 .. Len(fw[j].pd) : k = h[2]
  BY <1>1 DEF IsHit
<1>3. PICK e \in FwEntries : e = fw[j].pd[k]
  BY EntryType
<1>4. Pd(h) = e /\ e.p /\ PdSpan \in Nat \ {0} /\ e.paddr \in Nat
  BY <1>1, <1>2, <1>3, EntryType DEF Pd, IsHit, FwEntries
<1>5. CASE h[3] = 0
  <2>1. e.ps
    BY <1>4, <1>5 DEF IsHit
  <2>2. (e.paddr % PdSpan) = 0
    BY <1>3, <1>4, <2>1, FwAssumption
  <2>3. EndAt(h) = e.paddr
    <3>1. PICK n \in Nat : n = e.paddr
      BY <1>4
    <3>2. PICK c \in Nat \ {0} : c = PdSpan
      BY <1>4
    <3>3. (n % c) = 0 => (n \div c) * c = n
      OBVIOUS
    <3> QED BY <1>4, <1>5, <2>2, <3>1, <3>2, <3>3 DEF EndAt
  <2>4. Mapped(e) = e.paddr .. e.paddr + PdSpan - 1
    BY <2>1 DEF Mapped
  <2> QED BY <1>4, <1>5, <2>3, <2>4 DEF HitPages
<1>6. CASE h[3] # 0
  <2>1. PICK l \in 1 .. Len(e.pt) : l = h[3] /\ e.pt[l].p /\ ~e.ps /\ Pt(h) = e.pt[l]
    BY <1>1, <1>2, <1>3, <1>4, <1>6 DEF IsHit, Pt, Pd
  <2>2. EndAt(h) = e.pt[l].paddr /\ HitPages(h) = {e.pt[l].paddr}
    BY <1>6, <2>1 DEF EndAt, HitPages
  <2>3. e.pt[l].paddr \in Mapped(e)
    BY <2>1 DEF Mapped
  <2>4. e.pt \in Seq(FwPages)
    BY <1>3 DEF FwEntries
  <2>5. e.pt[l] \in FwPages
    BY <2>1, <2>4
  <2>6. e.pt[l].paddr \in Nat
    BY <2>5 DEF FwPages
  <2> QED BY <1>4, <2>2, <2>3, <2>6
<1> QED BY <1>5, <1>6

\* The first hit is not above any other.
LEMMA FirstIsLowest ==
  ASSUME fw \in FwTables, NEW h, IsHit(h), NEW y, IsHit(y), Before(h, y), NEW a \in HitPages(y)
  PROVE  EndAt(h) <= a
<1>1. /\ h[1] \in 1 .. Len(fw) /\ h[2] \in 1 .. Len(fw[h[1]].pd) /\ fw[h[1]].pd[h[2]].p
      /\ y[1] \in 1 .. Len(fw) /\ y[2] \in 1 .. Len(fw[y[1]].pd) /\ fw[y[1]].pd[y[2]].p
      /\ h \in Nat \X Nat \X Nat /\ y \in Nat \X Nat \X Nat
  BY DEF IsHit
<1>2. h[1] \in Nat /\ h[2] \in Nat /\ h[3] \in Nat /\ y[1] \in Nat /\ y[2] \in Nat /\ y[3] \in Nat
  BY <1>1
<1>3. EndAt(h) \in Mapped(Pd(h)) /\ \A b \in HitPages(h) : EndAt(h) <= b
  BY EndAtHit
<1>4. a \in Mapped(Pd(y))
  BY DEF IsHit, HitPages, Mapped, Pd, Pt
<1>5. \A j \in 1 .. Len(fw) : \A k \in 1 .. Len(fw[j].pd) : Mapped(fw[j].pd[k]) \subseteq Nat
  <2> SUFFICES ASSUME NEW j \in 1 .. Len(fw), NEW k \in 1 .. Len(fw[j].pd)
               PROVE  Mapped(fw[j].pd[k]) \subseteq Nat
    OBVIOUS
  <2>1. PICK e \in FwEntries : e = fw[j].pd[k]
    BY EntryType
  <2>2. e.paddr \in Nat /\ e.pt \in Seq(FwPages) /\ PdSpan \in Nat
    BY <2>1, EntryType DEF FwEntries
  <2>3. ASSUME NEW l \in 1 .. Len(e.pt) PROVE e.pt[l].paddr \in Nat
    <3>1. e.pt[l] \in FwPages
      BY <2>2
    <3> QED BY <3>1 DEF FwPages
  <2>4. Mapped(e) \subseteq Nat
    BY <2>2, <2>3 DEF Mapped
  <2> QED BY <2>1, <2>4
<1>6. EndAt(h) \in Nat /\ a \in Nat
  BY <1>1, <1>3, <1>4, <1>5 DEF Pd
<1>7. CASE h[1] < y[1] \/ (h[1] = y[1] /\ h[2] < y[2])
  <2>1. \A b \in Mapped(fw[h[1]].pd[h[2]]), c \in Mapped(fw[y[1]].pd[y[2]]) : b < c
    BY <1>1, <1>7, FwAssumption
  <2>2. EndAt(h) < a
    BY <1>3, <1>4, <2>1 DEF Pd
  <2> QED BY <1>6, <2>2
<1>8. CASE h[1] = y[1] /\ h[2] = y[2]
  <2>1. Pd(h) = Pd(y)
    BY <1>8 DEF Pd
  <2>2. CASE h[3] = 0
    <3>1. y[3] = 0
      BY <2>1, <2>2 DEF IsHit
    <3>2. a \in HitPages(h)
      BY <2>1, <2>2, <3>1 DEF HitPages
    <3> QED BY <1>3, <3>2
  <2>3. CASE h[3] # 0
    <3>1. y[3] # 0
      BY <2>1, <2>3 DEF IsHit
    <3>2. PICK e : e = fw[h[1]].pd[h[2]]
      OBVIOUS
    <3>3. /\ h[3] \in 1 .. Len(e.pt) /\ e.pt[h[3]].p /\ Pt(h) = e.pt[h[3]]
          /\ y[3] \in 1 .. Len(e.pt) /\ e.pt[y[3]].p /\ Pt(y) = e.pt[y[3]]
      BY <1>8, <2>1, <2>3, <3>1, <3>2 DEF IsHit, Pd, Pt
    <3>4. EndAt(h) = e.pt[h[3]].paddr /\ a = e.pt[y[3]].paddr
      BY <2>3, <3>1, <3>3 DEF EndAt, HitPages
    <3>5. h[3] <= y[3]
      BY <1>2, <1>8 DEF Before
    <3>6. CASE h[3] = y[3]
      BY <1>6, <3>4, <3>6
    <3>7. CASE h[3] < y[3]
      <4>1. e.pt[h[3]].paddr < e.pt[y[3]].paddr
        BY <1>1, <3>2, <3>3, <3>7, FwAssumption
      <4> QED BY <1>6, <3>4, <4>1
    <3> QED BY <1>2, <3>5, <3>6, <3>7
  <2> QED BY <2>2, <2>3
<1> QED BY <1>2, <1>7, <1>8 DEF Before

ScanInv == (spc \in {"scan", "end"} => fw \in FwTables) /\ EndsAtReadOnly

\* A step that leaves the table alone leaves what is read from it.
LEMMA SameTable ==
  ASSUME fw' = fw
  PROVE  ReadOnlyPages' = ReadOnlyPages /\ TablesWritable' = TablesWritable
<1>1. Directory' = Directory
  BY DEF Directory
<1>2. \A d : Pd(d)' = Pd(d)
  BY DEF Pd
<1>3. \A d : Pt(d)' = Pt(d)
  BY DEF Pt
<1>4. \A d : Pages(d)' = Pages(d)
  BY DEF Pages
<1>5. TablesWritable' = TablesWritable
  BY <1>1, <1>2 DEF TablesWritable
<1>6. ReadOnlyPages' = ReadOnlyPages
  BY <1>1, <1>2, <1>3, <1>4 DEF ReadOnlyPages
<1> QED BY <1>5, <1>6

LEMMA ScanStepInv ==
  ASSUME ScanInv, Scan
  PROVE  ScanInv'
<1>1. fw \in FwTables /\ fw' = fw /\ spc' = "end"
  BY DEF ScanInv, Scan
<1>2. ASSUME TablesWritable
      PROVE  /\ \A a \in ReadOnlyPages : allocatable_max' <= a
             /\ ReadOnlyPages # {} => allocatable_max' \in ReadOnlyPages
  <2>1. CASE Hits = {}
    <3>1. ReadOnlyPages = {}
      BY <1>1, <1>2, <2>1, ReadOnlyIsHit
    <3> QED BY <3>1
  <2>2. CASE Hits # {}
    <3>1. \A h \in Hits : IsHit(h) /\ h \in Nat \X Nat \X Nat
      BY <1>1, <1>2, HitsAre DEF IsHit
    <3>2. \E x \in Hits : \A y \in Hits : Before(x, y)
      BY <2>2, <3>1, FirstPlace
    <3>3. PICK h : h = CHOOSE x \in Hits : \A y \in Hits : Before(x, y)
      OBVIOUS
    <3>4. h \in Hits /\ \A y \in Hits : Before(h, y)
      BY <3>2, <3>3
    <3>5. allocatable_max' = EndAt(h)
      BY <2>2, <3>3 DEF Scan, EndAt
    <3>6. EndAt(h) \in ReadOnlyPages
      BY <1>1, <1>2, <3>1, <3>4, EndAtHit, ReadOnlyIsHit
    <3>7. ASSUME NEW a \in ReadOnlyPages PROVE EndAt(h) <= a
      <4>1. PICK y \in Hits : a \in HitPages(y)
        BY <1>1, <1>2, ReadOnlyIsHit
      <4> QED BY <1>1, <3>1, <3>4, <4>1, FirstIsLowest
    <3> QED BY <3>5, <3>6, <3>7
  <2> QED BY <2>1, <2>2
<1>3. EndsAtReadOnly'
  BY <1>1, <1>2, SameTable DEF EndsAtReadOnly
<1> QED BY <1>1, <1>3 DEF ScanInv

LEMMA ScanInductive == StartSpec => []ScanInv
<1>1. StartInit => ScanInv
  BY DEF StartInit, ScanInit, ScanInv, EndsAtReadOnly
<1>2. ScanInv /\ [StartNext]_startVars => ScanInv'
  <2> SUFFICES ASSUME ScanInv, [StartNext]_startVars PROVE ScanInv'
    OBVIOUS
  <2>1. ScanStep \/ UNCHANGED scanVars
    BY DEF StartNext, Load, cpu_init, ReadAcpi, ScanMemory, ScanPci, StartOver, startVars
  <2>2. CASE ScanBegin
    BY <2>2 DEF ScanBegin, ScanInv, EndsAtReadOnly
  <2>3. CASE Scan
    BY <2>3, ScanStepInv
  <2>4. CASE ScanReturn
    BY <2>4 DEF ScanReturn, ScanInv, EndsAtReadOnly
  <2>5. CASE UNCHANGED scanVars
    BY <2>5, SameTable DEF scanVars, ScanInv, EndsAtReadOnly
  <2> QED BY <2>1, <2>2, <2>3, <2>4, <2>5 DEF ScanStep
<1> QED BY <1>1, <1>2, PTL DEF StartSpec

\* The memory pm_init() hands to the page allocator ends at the lowest read-only
\* page, whatever mixture of large and small pages the firmware left.
THEOREM MemoryEndsAtReadOnly == StartSpec => []EndsAtReadOnly
BY ScanInductive, PTL DEF ScanInv

-----------------------------------------------------------------------------
(* The walk over the MADT.  In step, it stands where an entry begins, or   *)
(* at the end, and has taken the address of the last I/O APIC before.      *)

\* What the recursive function of StartOf satisfies.
Starts(es, n, s) ==
  s = [k \in 1 .. n + 1 |-> IF k = 1 THEN 0 ELSE s[k - 1] + es[k - 1].length]

LEMMA StartsExist ==
  ASSUME NEW es, NEW n \in Nat
  PROVE  \E s : Starts(es, n, s)
<1> DEFINE Bad == {m \in Nat : ~ \E s : Starts(es, m, s)}
<1> SUFFICES ASSUME Bad # {} PROVE FALSE
  OBVIOUS
<1>1. PICK m \in Bad : \A q \in Bad : m <= q
  BY LeastNatural
<1>2. m \in Nat /\ ~ \E s : Starts(es, m, s)
  BY <1>1
<1>3. m # 0
  <2> DEFINE z == [k \in 1 .. 1 |-> 0]
  <2>1. Starts(es, 0, z)
    BY DEF Starts
  <2> QED BY <1>2, <2>1
<1>4. m - 1 \in Nat /\ m - 1 \notin Bad
  BY <1>1, <1>2, <1>3
<1>5. PICK s : Starts(es, m - 1, s)
  BY <1>4
<1> DEFINE r == [k \in 1 .. m + 1 |-> IF k = m + 1 THEN s[m] + es[m].length ELSE s[k]]
<1>6. s = [k \in 1 .. m |-> IF k = 1 THEN 0 ELSE s[k - 1] + es[k - 1].length]
  BY <1>2, <1>5 DEF Starts
<1>7. \A k \in 1 .. m : s[k] = IF k = 1 THEN 0 ELSE s[k - 1] + es[k - 1].length
  BY <1>6
<1>8. ASSUME NEW k \in 1 .. m + 1
      PROVE  r[k] = IF k = 1 THEN 0 ELSE r[k - 1] + es[k - 1].length
  <2>1. CASE k = m + 1
    <3>1. k - 1 = m /\ k # 1 /\ m \in 1 .. m + 1 /\ m # m + 1
      BY <1>2, <1>3, <2>1
    <3>2. r[k] = s[m] + es[m].length /\ r[m] = s[m]
      BY <2>1, <3>1
    <3> QED BY <3>1, <3>2
  <2>2. CASE k # m + 1
    <3>1. k \in 1 .. m /\ r[k] = s[k]
      BY <1>2, <2>2
    <3>2. CASE k = 1
      BY <1>7, <3>1, <3>2
    <3>3. CASE k # 1
      <4>1. k - 1 \in 1 .. m + 1 /\ k - 1 # m + 1
        BY <1>2, <3>1, <3>3
      <4>2. r[k - 1] = s[k - 1]
        BY <4>1
      <4> QED BY <1>7, <3>1, <3>3, <4>2
    <3> QED BY <3>2, <3>3
  <2> QED BY <2>1, <2>2
<1>9. r = [k \in 1 .. m + 1 |-> IF k = 1 THEN 0 ELSE r[k - 1] + es[k - 1].length]
  BY <1>8
<1> QED BY <1>2, <1>9 DEF Starts

LEMMA StartOfIs ==
  ASSUME NEW es, Len(es) \in Nat
  PROVE  Starts(es, Len(es), StartOf(es))
<1>1. \E s : Starts(es, Len(es), s)
  BY StartsExist
<1> QED BY <1>1 DEF Starts, StartOf

LEMMA EntryStarts ==
  ASSUME NEW es, Len(es) \in Nat
  PROVE  /\ StartOf(es)[1] = 0
         /\ \A k \in 1 .. Len(es) : StartOf(es)[k + 1] = StartOf(es)[k] + es[k].length
<1> DEFINE s == StartOf(es)
<1>1. s = [k \in 1 .. Len(es) + 1 |-> IF k = 1 THEN 0 ELSE s[k - 1] + es[k - 1].length]
  BY StartOfIs DEF Starts
<1> HIDE DEF s
<1>2. s[1] = 0
  <2>1. 1 \in 1 .. Len(es) + 1
    OBVIOUS
  <2> QED BY <1>1, <2>1
<1>3. ASSUME NEW k \in 1 .. Len(es) PROVE s[k + 1] = s[k] + es[k].length
  <2>1. k + 1 \in 1 .. Len(es) + 1 /\ k + 1 # 1 /\ (k + 1) - 1 = k
    OBVIOUS
  <2> QED BY <1>1, <2>1
<1> QED BY <1>2, <1>3 DEF s

\* Entries that are not empty begin in their order.
LEMMA StartAscends ==
  ASSUME NEW es, Len(es) \in Nat, \A k \in 1 .. Len(es) : es[k].length \in Nat \ {0},
         NEW i \in 1 .. Len(es) + 1
  PROVE  StartOf(es)[i] \in Nat /\ \A j \in 1 .. i - 1 : StartOf(es)[j] < StartOf(es)[i]
<1> DEFINE s == StartOf(es)
           Good(k) == s[k] \in Nat /\ \A j \in 1 .. k - 1 : s[j] < s[k]
           Bad == {k \in 1 .. Len(es) + 1 : ~Good(k)}
<1>0. s[1] = 0 /\ \A k \in 1 .. Len(es) : s[k + 1] = s[k] + es[k].length
  BY EntryStarts
<1> HIDE DEF s
<1> SUFFICES ASSUME Bad # {} PROVE FALSE
  BY DEF s
<1>1. PICK m \in Bad : \A q \in Bad : m <= q
  <2>1. Bad \in SUBSET Nat
    OBVIOUS
  <2> QED BY <2>1, LeastNatural
<1>2. m \in 1 .. Len(es) + 1 /\ ~Good(m)
  BY <1>1
<1>3. m # 1
  BY <1>0, <1>2
<1>4. m - 1 \in 1 .. Len(es) /\ (m - 1) + 1 = m
  BY <1>2, <1>3
<1>5. m - 1 \in 1 .. Len(es) + 1 /\ m - 1 \notin Bad
  BY <1>1, <1>4
<1>6. Good(m - 1)
  BY <1>5
<1>7. s[m] = s[m - 1] + es[m - 1].length /\ es[m - 1].length \in Nat \ {0}
  BY <1>0, <1>4
<1>8. s[m] \in Nat /\ s[m - 1] < s[m]
  BY <1>6, <1>7
<1>9. ASSUME NEW j \in 1 .. m - 1 PROVE s[j] < s[m]
  <2>1. CASE j = m - 1
    BY <1>8, <2>1
  <2>2. CASE j # m - 1
    <3>1. j \in 1 .. (m - 1) - 1
      BY <1>4, <2>2
    <3>2. s[j] < s[m - 1]
      BY <1>6, <3>1
    <3>3. s[j] \in Nat
      <4>1. j \in 1 .. Len(es) + 1 /\ ~ (m <= j)
        BY <1>2, <3>1
      <4>2. Good(j)
        BY <1>1, <4>1
      <4> QED BY <4>2
    <3> QED BY <1>6, <1>8, <3>2, <3>3
  <2> QED BY <2>1, <2>2
<1> QED BY <1>2, <1>8, <1>9

LEMMA StartsDistinct ==
  ASSUME NEW es, Len(es) \in Nat, \A k \in 1 .. Len(es) : es[k].length \in Nat \ {0},
         NEW i \in 1 .. Len(es) + 1, NEW j \in 1 .. Len(es) + 1, StartOf(es)[i] = StartOf(es)[j]
  PROVE  i = j
<1>1. StartOf(es)[i] \in Nat /\ StartOf(es)[j] \in Nat
  BY StartAscends
<1>2. ~ (i < j)
  <2> SUFFICES ASSUME i < j PROVE FALSE
    OBVIOUS
  <2>1. i \in 1 .. j - 1
    OBVIOUS
  <2> QED BY <1>1, <2>1, StartAscends
<1>3. ~ (j < i)
  <2> SUFFICES ASSUME j < i PROVE FALSE
    OBVIOUS
  <2>1. j \in 1 .. i - 1
    OBVIOUS
  <2> QED BY <1>1, <2>1, StartAscends
<1> QED BY <1>2, <1>3

\* In step: the entries of each table have the lengths the walk takes.
LEMMA InStepEntry ==
  ASSUME xsdt \in Seq(AcpiTables), InStep, NEW n \in 1 .. Len(xsdt)
  PROVE  /\ Len(xsdt[n].entries) \in Nat
         /\ \A k \in 1 .. Len(xsdt[n].entries) :
              LET e == xsdt[n].entries[k]
              IN e.type \in Known /\ e.length = Sizeof(e.type) /\ e.length \in Nat \ {0}
<1>1. xsdt[n] \in AcpiTables
  OBVIOUS
<1>2. xsdt[n].entries \in Seq(AcpiEntries)
  BY <1>1 DEF AcpiTables
<1>3. ASSUME NEW k \in 1 .. Len(xsdt[n].entries)
      PROVE  LET e == xsdt[n].entries[k]
             IN e.type \in Known /\ e.length = Sizeof(e.type) /\ e.length \in Nat \ {0}
  <2>1. PICK e : e = xsdt[n].entries[k]
    OBVIOUS
  <2>2. e.type \in Known \ {3} /\ e.length = AcpiLength(e.type)
    BY <2>1 DEF InStep
  <2>3. e.type \in {0, 1, 2, 4, 5, 9}
    BY <2>2 DEF Known
  <2>4. PICK y \in {0, 1, 2, 4, 5, 9} : y = e.type
    BY <2>3
  <2>5. AcpiLength(y) = Sizeof(y) /\ Sizeof(y) \in Nat \ {0}
    BY <2>4 DEF AcpiLength, Sizeof
  <2> QED BY <2>1, <2>2, <2>4, <2>5
<1> QED BY <1>2, <1>3

-----------------------------------------------------------------------------

\* I/O APICs of the tables x before entry k of table n.
Passed(x, n, k) ==
  {p \in (1 .. Len(x)) \X Nat :
     /\ p[1] < n \/ (p[1] = n /\ p[2] < k)
     /\ p[2] \in 1 .. Len(x[p[1]].entries)
     /\ x[p[1]].sig = "APIC" /\ x[p[1]].entries[p[2]].type = IOAPIC}

LastOf(S, p) == p \in S /\ \A q \in S : q[1] < p[1] \/ (q[1] = p[1] /\ q[2] <= p[2])

\* v is the value of the last of them, or 0.
LastTaken(x, v, n, k) ==
  \/ Passed(x, n, k) = {} /\ v = 0
  \/ \E p : LastOf(Passed(x, n, k), p) /\ v = x[p[1]].entries[p[2]].val

AcpiInv ==
  /\ found = [lapic_addr |-> found.lapic_addr, ioapic_addr |-> found.ioapic_addr]
  /\ apc = "off" => found.ioapic_addr = 0 /\ t = 1
  /\ apc \in {"table", "walk", "end"} => xsdt \in Seq(AcpiTables)
  /\ apc = "table" => t \in 1 .. xsdt_n + 1
  /\ apc = "walk" => t \in 1 .. xsdt_n /\ xsdt[t].sig = "APIC"
  /\ apc = "end" => t = xsdt_n + 1
  /\ InStep =>
       /\ apc # "panic"
       /\ apc \in {"table", "end"} => LastTaken(xsdt, found.ioapic_addr, t, 1)
       /\ apc = "walk" =>
            \E k \in 1 .. Len(Entries) + 1 :
              pos = StartOf(Entries)[k] /\ LastTaken(xsdt, found.ioapic_addr, t, k)

LEMMA PassedFirst ==
  ASSUME NEW x, Len(x) \in Nat
  PROVE  Passed(x, 1, 1) = {}
BY DEF Passed

LEMMA PassedTable ==
  ASSUME NEW x, NEW n \in 1 .. Len(x), Len(x[n].entries) \in Nat
  PROVE  /\ x[n].sig # "APIC" => Passed(x, n + 1, 1) = Passed(x, n, 1)
         /\ Passed(x, n + 1, 1) = Passed(x, n, Len(x[n].entries) + 1)
<1>1. ASSUME x[n].sig # "APIC", NEW p \in (1 .. Len(x)) \X Nat
      PROVE  p \in Passed(x, n + 1, 1) <=> p \in Passed(x, n, 1)
  BY <1>1 DEF Passed
<1>2. ASSUME NEW p \in (1 .. Len(x)) \X Nat
      PROVE  p \in Passed(x, n + 1, 1) <=> p \in Passed(x, n, Len(x[n].entries) + 1)
  <2>1. PICK i \in 1 .. Len(x), j \in Nat : p = <<i, j>>
    OBVIOUS
  <2>2. p[1] = i /\ p[2] = j
    BY <2>1
  <2>3. i < n + 1 \/ (i = n + 1 /\ j < 1) <=> i < n \/ i = n \/ (i = n + 1 /\ j < 1)
    OBVIOUS
  <2> QED BY <2>2, <2>3 DEF Passed
<1>3. \A m, k : Passed(x, m, k) \subseteq (1 .. Len(x)) \X Nat
  BY DEF Passed
<1>4. x[n].sig # "APIC" => Passed(x, n + 1, 1) = Passed(x, n, 1)
  BY <1>1, <1>3, Zenon
<1>5. Passed(x, n + 1, 1) = Passed(x, n, Len(x[n].entries) + 1)
  <2>1. PICK A, B : A = Passed(x, n + 1, 1) /\ B = Passed(x, n, Len(x[n].entries) + 1)
    OBVIOUS
  <2>2. A \subseteq (1 .. Len(x)) \X Nat /\ B \subseteq (1 .. Len(x)) \X Nat
    BY <1>3, <2>1
  <2>3. \A p \in (1 .. Len(x)) \X Nat : p \in A <=> p \in B
    BY <1>2, <2>1
  <2>4. A = B
    BY <2>2, <2>3, Zenon
  <2> QED BY <2>1, <2>4
<1> QED BY <1>4, <1>5

LEMMA PassedEntry ==
  ASSUME NEW x, NEW n \in 1 .. Len(x), Len(x[n].entries) \in Nat, x[n].sig = "APIC",
         NEW k \in 1 .. Len(x[n].entries)
  PROVE  /\ x[n].entries[k].type = IOAPIC => Passed(x, n, k + 1) = Passed(x, n, k) \cup {<<n, k>>}
         /\ x[n].entries[k].type # IOAPIC => Passed(x, n, k + 1) = Passed(x, n, k)
<1>1. ASSUME NEW p \in (1 .. Len(x)) \X Nat
      PROVE  p \in Passed(x, n, k + 1) <=>
               p \in Passed(x, n, k) \/ (x[n].entries[k].type = IOAPIC /\ p = <<n, k>>)
  <2>1. PICK i \in 1 .. Len(x), j \in Nat : p = <<i, j>>
    OBVIOUS
  <2>2. p[1] = i /\ p[2] = j /\ (p = <<n, k>> <=> i = n /\ j = k)
    BY <2>1
  <2>3. j < k + 1 <=> j < k \/ j = k
    OBVIOUS
  <2> QED BY <2>2, <2>3 DEF Passed
<1>2. \A m, l : Passed(x, m, l) \subseteq (1 .. Len(x)) \X Nat
  BY DEF Passed
<1>3. <<n, k>> \in (1 .. Len(x)) \X Nat
  OBVIOUS
<1> QED BY <1>1, <1>2, <1>3

\* The walk past an entry.
LEMMA TakeEntry ==
  ASSUME NEW x, NEW n \in 1 .. Len(x), Len(x[n].entries) \in Nat, x[n].sig = "APIC",
         NEW k \in 1 .. Len(x[n].entries), NEW v, LastTaken(x, v, n, k)
  PROVE  LastTaken(x, IF x[n].entries[k].type = IOAPIC THEN x[n].entries[k].val ELSE v, n, k + 1)
<1>1. CASE x[n].entries[k].type = IOAPIC
  <2>1. Passed(x, n, k + 1) = Passed(x, n, k) \cup {<<n, k>>}
    BY <1>1, PassedEntry
  <2>2. PICK p : p = <<n, k>>
    OBVIOUS
  <2>3. p[1] = n /\ p[2] = k /\ p \in Passed(x, n, k + 1)
    BY <2>1, <2>2
  <2>4. ASSUME NEW q \in Passed(x, n, k + 1)
        PROVE  q[1] < p[1] \/ (q[1] = p[1] /\ q[2] <= p[2])
    <3>1. q[1] \in Nat /\ q[2] \in Nat /\ (q[1] < n \/ (q[1] = n /\ q[2] < k + 1))
      BY DEF Passed
    <3> QED BY <2>3, <3>1
  <2>5. LastOf(Passed(x, n, k + 1), p)
    BY <2>3, <2>4 DEF LastOf
  <2> QED BY <1>1, <2>3, <2>5 DEF LastTaken
<1>2. CASE x[n].entries[k].type # IOAPIC
  <2>1. Passed(x, n, k + 1) = Passed(x, n, k)
    BY <1>2, PassedEntry
  <2> QED BY <1>2, <2>1 DEF LastTaken
<1> QED BY <1>1, <1>2

\* The count of tables is never more than there are, and exact below its limit.
LEMMA TableCount ==
  ASSUME NEW n \in Nat
  PROVE  n % TableCounts \in 0 .. n /\ (n < TableCounts => n % TableCounts = n)
BY AcpiAssumption

LEMMA AcpiBeginInv == ASSUME AcpiInv, AcpiBegin PROVE AcpiInv'
<1>1. /\ apc = "off" /\ apc' = "table" /\ xsdt' \in Seq(AcpiTables) /\ t' = 1
      /\ found' = found /\ found.ioapic_addr = 0
  BY AcpiAssumption DEF AcpiBegin, AcpiInv
<1>2. Len(xsdt') \in Nat /\ t' \in 1 .. xsdt_n' + 1
  BY <1>1, TableCount DEF xsdt_n
<1>3. LastTaken(xsdt', found'.ioapic_addr, t', 1)
  BY <1>1, <1>2, PassedFirst DEF LastTaken
<1> QED BY <1>1, <1>2, <1>3 DEF AcpiInv

LEMMA NextTableInv == ASSUME AcpiInv, NextTable PROVE AcpiInv'
<1>1. /\ apc = "table" /\ xsdt' = xsdt /\ xsdt \in Seq(AcpiTables) /\ t \in 1 .. xsdt_n + 1
      /\ InStep => LastTaken(xsdt, found.ioapic_addr, t, 1)
      /\ found = [lapic_addr |-> found.lapic_addr, ioapic_addr |-> found.ioapic_addr]
  BY DEF NextTable, AcpiInv
<1>2. InStep' = InStep /\ xsdt_n' = xsdt_n /\ xsdt_n \in 0 .. Len(xsdt) /\ Len(xsdt) \in Nat
  BY <1>1, TableCount DEF InStep, xsdt_n
<1>3. CASE t > xsdt_n
  <2>1. apc' = "end" /\ t' = t /\ found' = found /\ t = xsdt_n + 1
    BY <1>1, <1>2, <1>3 DEF NextTable
  <2> QED BY <1>1, <1>2, <2>1 DEF AcpiInv
<1>4. CASE t <= xsdt_n
  <2>1. t \in 1 .. xsdt_n /\ t \in 1 .. Len(xsdt)
    BY <1>1, <1>2, <1>4
  <2>2. xsdt[t] \in AcpiTables
    BY <1>1, <2>1
  <2>3. Len(xsdt[t].entries) \in Nat
    BY <2>2 DEF AcpiTables
  <2>4. CASE xsdt[t].sig = "APIC"
    <3>1. /\ apc' = "walk" /\ pos' = 0 /\ t' = t
          /\ found' = [found EXCEPT !.lapic_addr = xsdt[t].lapic]
      BY <1>1, <1>2, <1>4, <2>1, <2>4 DEF NextTable
    <3>2. found' = [lapic_addr |-> xsdt[t].lapic, ioapic_addr |-> found.ioapic_addr]
      BY <1>1, <3>1
    <3>3. /\ found'.ioapic_addr = found.ioapic_addr
          /\ found' = [lapic_addr |-> found'.lapic_addr, ioapic_addr |-> found'.ioapic_addr]
      BY <3>2
    <3>4. Entries' = Entries /\ Entries = xsdt[t].entries
      BY <1>1, <3>1 DEF Entries
    <3>5. 1 \in 1 .. Len(Entries') + 1 /\ pos' = StartOf(Entries')[1]
      BY <2>3, <3>1, <3>4, EntryStarts
    <3> QED BY <1>1, <1>2, <2>1, <2>4, <3>1, <3>3, <3>5 DEF AcpiInv
  <2>5. CASE xsdt[t].sig # "APIC"
    <3>1. apc' = apc /\ t' = t + 1 /\ found' = found
      BY <1>1, <1>2, <1>4, <2>1, <2>5 DEF NextTable
    <3>2. Passed(xsdt, t + 1, 1) = Passed(xsdt, t, 1)
      BY <2>1, <2>3, <2>5, PassedTable
    <3>3. t + 1 \in 1 .. xsdt_n + 1
      BY <1>2, <2>1
    <3>4. InStep => LastTaken(xsdt', found'.ioapic_addr, t', 1)
      BY <1>1, <3>1, <3>2 DEF LastTaken
    <3> QED BY <1>1, <1>2, <3>1, <3>3, <3>4 DEF AcpiInv
  <2> QED BY <2>4, <2>5
<1>5. t > xsdt_n \/ t <= xsdt_n
  BY <1>1, <1>2
<1> QED BY <1>3, <1>4, <1>5

LEMMA WalkStepInv == ASSUME AcpiInv, WalkStep PROVE AcpiInv'
<1>1. /\ apc = "walk" /\ pos < TableEnd /\ xsdt' = xsdt /\ t' = t /\ xsdt \in Seq(AcpiTables)
      /\ t \in 1 .. xsdt_n /\ t \in 1 .. Len(xsdt) /\ xsdt[t].sig = "APIC"
      /\ found = [lapic_addr |-> found.lapic_addr, ioapic_addr |-> found.ioapic_addr]
  <2>1. xsdt \in Seq(AcpiTables) /\ t \in 1 .. xsdt_n
    BY DEF WalkStep, AcpiInv
  <2>2. Len(xsdt) \in Nat /\ xsdt_n \in 0 .. Len(xsdt)
    BY <2>1, TableCount DEF xsdt_n
  <2>3. t \in 1 .. Len(xsdt)
    BY <2>1, <2>2
  <2> QED BY <2>1, <2>3 DEF WalkStep, AcpiInv
<1>2. InStep' = InStep /\ xsdt_n' = xsdt_n /\ xsdt_n \in 0 .. Len(xsdt) /\ Len(xsdt) \in Nat
  BY <1>1, TableCount DEF InStep, xsdt_n
<1>3. PICK e \in Seen :
         IF e.type \in Known
         THEN found' = Taken(e) /\ pos' = pos + Sizeof(e.type) /\ UNCHANGED apc
         ELSE apc' = "panic" /\ UNCHANGED <<found, pos>>
  BY DEF WalkStep
<1>4. /\ Taken(e).ioapic_addr = IF e.type = IOAPIC THEN e.val ELSE found.ioapic_addr
      /\ Taken(e) = [lapic_addr |-> Taken(e).lapic_addr, ioapic_addr |-> Taken(e).ioapic_addr]
  <2>1. PICK a, b : found = [lapic_addr |-> a, ioapic_addr |-> b]
    BY <1>1
  <2>2. PICK g : g = Taken(e)
    OBVIOUS
  <2>3. /\ g.ioapic_addr = IF e.type = IOAPIC THEN e.val ELSE b
        /\ DOMAIN g = {"lapic_addr", "ioapic_addr"}
    BY <2>1, <2>2 DEF Taken
  <2>4. g = [j \in {"lapic_addr", "ioapic_addr"} |-> g[j]]
    BY <2>1, <2>2 DEF Taken
  <2>5. g = [lapic_addr |-> g.lapic_addr, ioapic_addr |-> g.ioapic_addr]
    BY <2>3, <2>4
  <2> QED BY <2>1, <2>2, <2>3, <2>5
<1>5. CASE ~InStep
  <2>1. found' = [lapic_addr |-> found'.lapic_addr, ioapic_addr |-> found'.ioapic_addr]
        /\ apc' \in {"walk", "panic"}
    BY <1>1, <1>3, <1>4
  <2> QED BY <1>1, <1>2, <1>5, <2>1 DEF AcpiInv
<1>6. CASE InStep
  <2>1. PICK k \in 1 .. Len(Entries) + 1 :
           pos = StartOf(Entries)[k] /\ LastTaken(xsdt, found.ioapic_addr, t, k)
    BY <1>1, <1>6 DEF AcpiInv
  <2>2. PICK es : es = Entries /\ es = xsdt[t].entries /\ Entries' = es
    BY <1>1 DEF Entries
  <2>3. Len(es) \in Nat /\ \A j \in 1 .. Len(es) :
          es[j].type \in Known /\ es[j].length = Sizeof(es[j].type) /\ es[j].length \in Nat \ {0}
    BY <1>1, <1>6, <2>2, InStepEntry
  <2>4. k \in 1 .. Len(es)
    <3>1. StartOf(es)[k] \in Nat
      BY <2>1, <2>2, <2>3, StartAscends
    <3>2. k # Len(es) + 1
      BY <1>1, <2>1, <2>2, <3>1 DEF TableEnd
    <3> QED BY <2>1, <2>2, <2>3, <3>2
  <2>5. e.type = es[k].type /\ e.val = es[k].val
    <3>1. ASSUME NEW j \in 1 .. Len(es) PROVE StartOf(es)[j] = pos <=> j = k
      <4>1. j \in 1 .. Len(es) + 1 /\ k \in 1 .. Len(es) + 1
        BY <2>3, <2>4
      <4>2. \A i \in 1 .. Len(es) : es[i].length \in Nat \ {0}
        BY <2>3
      <4>3. StartOf(es)[j] = StartOf(es)[k] => j = k
        BY <2>3, <4>1, <4>2, StartsDistinct
      <4> QED BY <2>1, <2>2, <4>3
    <3>2. {j \in 1 .. Len(es) : StartOf(es)[j] = pos} = {k}
      BY <2>4, <3>1
    <3>3. Seen = {[type |-> es[j].type, val |-> es[j].val] : j \in {k}}
      BY <2>2, <3>2 DEF Seen
    <3> QED BY <1>3, <3>3
  <2>6. found' = Taken(e) /\ pos' = pos + es[k].length /\ apc' = apc
    BY <1>3, <2>3, <2>4, <2>5
  <2>7. k + 1 \in 1 .. Len(es) + 1 /\ pos' = StartOf(es)[k + 1]
    <3>1. StartOf(es)[k + 1] = StartOf(es)[k] + es[k].length
      BY <2>3, <2>4, EntryStarts
    <3>2. StartOf(es)[k] = pos
      BY <2>1, <2>2
    <3>3. pos' = StartOf(es)[k + 1]
      BY <2>6, <3>1, <3>2, Zenon
    <3> QED BY <2>3, <2>4, <3>3
  <2>8. LastTaken(xsdt, found'.ioapic_addr, t, k + 1)
    <3>1. LastTaken(xsdt, IF es[k].type = IOAPIC THEN es[k].val ELSE found.ioapic_addr, t, k + 1)
      BY <1>1, <2>1, <2>2, <2>3, <2>4, TakeEntry
    <3>2. found'.ioapic_addr = IF es[k].type = IOAPIC THEN es[k].val ELSE found.ioapic_addr
      BY <1>4, <2>5, <2>6
    <3> QED BY <3>1, <3>2
  <2>9. found' = [lapic_addr |-> found'.lapic_addr, ioapic_addr |-> found'.ioapic_addr]
    BY <1>4, <2>6
  <2> QED BY <1>1, <1>2, <2>2, <2>6, <2>7, <2>8, <2>9 DEF AcpiInv
<1> QED BY <1>5, <1>6

LEMMA WalkEndInv == ASSUME AcpiInv, WalkEnd PROVE AcpiInv'
<1>1. /\ apc = "walk" /\ apc' = "table" /\ pos >= TableEnd /\ xsdt' = xsdt /\ t' = t + 1
      /\ found' = found /\ xsdt \in Seq(AcpiTables)
      /\ t \in 1 .. xsdt_n /\ t \in 1 .. Len(xsdt) /\ xsdt[t].sig = "APIC"
      /\ found = [lapic_addr |-> found.lapic_addr, ioapic_addr |-> found.ioapic_addr]
  <2>1. xsdt \in Seq(AcpiTables) /\ t \in 1 .. xsdt_n
    BY DEF WalkEnd, AcpiInv
  <2>2. Len(xsdt) \in Nat /\ xsdt_n \in 0 .. Len(xsdt)
    BY <2>1, TableCount DEF xsdt_n
  <2>3. t \in 1 .. Len(xsdt)
    BY <2>1, <2>2
  <2> QED BY <2>1, <2>3 DEF WalkEnd, AcpiInv
<1>2. InStep' = InStep /\ xsdt_n' = xsdt_n /\ xsdt_n \in 0 .. Len(xsdt) /\ Len(xsdt) \in Nat
  BY <1>1, TableCount DEF InStep, xsdt_n
<1>3. t + 1 \in 1 .. xsdt_n + 1
  BY <1>1, <1>2
<1>4. ASSUME InStep PROVE LastTaken(xsdt, found.ioapic_addr, t + 1, 1)
  <2>1. PICK k \in 1 .. Len(Entries) + 1 :
           pos = StartOf(Entries)[k] /\ LastTaken(xsdt, found.ioapic_addr, t, k)
    BY <1>1, <1>4 DEF AcpiInv
  <2>2. PICK es : es = Entries /\ es = xsdt[t].entries
    BY DEF Entries
  <2>3. Len(es) \in Nat /\ \A j \in 1 .. Len(es) : es[j].length \in Nat \ {0}
    BY <1>1, <1>4, <2>2, InStepEntry
  <2>4. k = Len(es) + 1
    <3>1. StartOf(es)[Len(es) + 1] \in Nat /\ StartOf(es)[k] \in Nat
          /\ \A j \in 1 .. Len(es) : StartOf(es)[j] < StartOf(es)[Len(es) + 1]
      <4>1. Len(es) + 1 \in 1 .. Len(es) + 1 /\ (Len(es) + 1) - 1 = Len(es)
        BY <2>3
      <4> QED BY <2>1, <2>2, <2>3, <4>1, StartAscends
    <3>2. StartOf(es)[k] >= StartOf(es)[Len(es) + 1]
      BY <1>1, <2>1, <2>2 DEF TableEnd
    <3>3. k \notin 1 .. Len(es)
      BY <3>1, <3>2
    <3> QED BY <2>1, <2>2, <2>3, <3>3
  <2>5. Passed(xsdt, t + 1, 1) = Passed(xsdt, t, k)
    BY <1>1, <2>2, <2>3, <2>4, PassedTable
  <2> QED BY <2>1, <2>5 DEF LastTaken
<1> QED BY <1>1, <1>2, <1>3, <1>4 DEF AcpiInv

LEMMA AcpiInductive == StartSpec => []AcpiInv
<1>1. StartInit => AcpiInv
  BY DEF StartInit, AcpiInit, NotFound, AcpiInv
<1>2. AcpiInv /\ [StartNext]_startVars => AcpiInv'
  <2> SUFFICES ASSUME AcpiInv, [StartNext]_startVars PROVE AcpiInv'
    OBVIOUS
  <2>1. AcpiStep \/ UNCHANGED acpiVars
    BY DEF StartNext, Load, cpu_init, ReadAcpi, ScanMemory, ScanPci, StartOver, startVars
  <2>2. CASE AcpiBegin
    BY <2>2, AcpiBeginInv
  <2>3. CASE NextTable
    BY <2>3, NextTableInv
  <2>4. CASE WalkStep
    BY <2>4, WalkStepInv
  <2>5. CASE WalkEnd
    BY <2>5, WalkEndInv
  <2>6. CASE AcpiReturn
    BY <2>6 DEF AcpiReturn, AcpiInv
  <2>7. CASE UNCHANGED acpiVars
    <3>1. apc' = apc /\ xsdt' = xsdt /\ t' = t /\ pos' = pos /\ found' = found
      BY <2>7 DEF acpiVars
    <3>2. InStep' = InStep /\ Entries' = Entries /\ xsdt_n' = xsdt_n
      BY <3>1 DEF InStep, Entries, xsdt_n
    <3> QED BY <3>1, <3>2 DEF AcpiInv
  <2> QED BY <2>1, <2>2, <2>3, <2>4, <2>5, <2>6, <2>7 DEF AcpiStep
<1> QED BY <1>1, <1>2, PTL DEF StartSpec

\* After the last table all places have been passed.
LEMMA AllPassed ==
  ASSUME xsdt \in Seq(AcpiTables)
  PROVE  Places(IOAPIC) = Passed(xsdt, Len(xsdt) + 1, 1)
<1>1. ASSUME NEW p \in Places(IOAPIC) PROVE p \in Passed(xsdt, Len(xsdt) + 1, 1)
  <2>1. PICK n \in 1 .. Len(xsdt) : p \in {n} \X (1 .. Len(xsdt[n].entries))
    BY DEF Places
  <2>2. xsdt[p[1]].sig = "APIC" /\ xsdt[p[1]].entries[p[2]].type = IOAPIC
    BY DEF Places
  <2>3. xsdt[n] \in AcpiTables
    OBVIOUS
  <2>4. Len(xsdt[n].entries) \in Nat
    BY <2>3 DEF AcpiTables
  <2>5. p \in (1 .. Len(xsdt)) \X Nat /\ p[1] = n /\ p[2] \in 1 .. Len(xsdt[n].entries)
    BY <2>1, <2>4
  <2> QED BY <2>2, <2>5 DEF Passed
<1>2. ASSUME NEW p \in Passed(xsdt, Len(xsdt) + 1, 1) PROVE p \in Places(IOAPIC)
  <2>1. p \in (1 .. Len(xsdt)) \X Nat /\ p[2] \in 1 .. Len(xsdt[p[1]].entries)
        /\ xsdt[p[1]].sig = "APIC" /\ xsdt[p[1]].entries[p[2]].type = IOAPIC
    BY DEF Passed
  <2>2. p[1] \in 1 .. Len(xsdt) /\ p \in {p[1]} \X (1 .. Len(xsdt[p[1]].entries))
    BY <2>1
  <2> QED BY <2>1, <2>2 DEF Places
<1> QED BY <1>1, <1>2

LEMMA LastIsLast ==
  ASSUME xsdt \in Seq(AcpiTables), NEW v, LastTaken(xsdt, v, Len(xsdt) + 1, 1)
  PROVE  v = LastVal(IOAPIC)
<1> DEFINE all == Passed(xsdt, Len(xsdt) + 1, 1)
<1>1. Places(IOAPIC) = all
  BY AllPassed
<1>2. \A p \in all : p \in Nat \X Nat
  BY DEF Passed
<1> HIDE DEF all
<1>3. CASE all = {}
  <2>1. v = 0
    BY <1>3 DEF LastTaken, LastOf, all
  <2> QED BY <1>1, <1>3, <2>1 DEF LastVal
<1>4. CASE all # {}
  <2>1. PICK p : LastOf(all, p) /\ v = xsdt[p[1]].entries[p[2]].val
    BY <1>4 DEF LastTaken, all
  <2>2. PICK r : r = CHOOSE y \in all : \A q \in all : q[1] < y[1] \/ (q[1] = y[1] /\ q[2] <= y[2])
    OBVIOUS
  <2>3. r \in all /\ \A q \in all : q[1] < r[1] \/ (q[1] = r[1] /\ q[2] <= r[2])
    BY <2>1, <2>2 DEF LastOf
  <2>4. p \in all /\ p \in Nat \X Nat /\ r \in Nat \X Nat
    BY <1>2, <2>1, <2>3 DEF LastOf
  <2>5. p[1] = r[1] /\ p[2] = r[2]
    BY <2>1, <2>3, <2>4 DEF LastOf
  <2>6. LastVal(IOAPIC) = xsdt[r[1]].entries[r[2]].val
    BY <1>1, <1>4, <2>2 DEF LastVal
  <2> QED BY <2>1, <2>5, <2>6
<1> QED BY <1>3, <1>4

\* The walk over MADTs whose entries have the sizes of the code's structures does
\* not panic, does not run past the end of a table, and finds the last I/O APIC, if
\* the count of tables fits the 8 bits of acpi_init().
THEOREM MadtReadExactly == StartSpec => []MadtExact
<1>1. AcpiInv => MadtExact
  <2> SUFFICES ASSUME AcpiInv, InStep
               PROVE  /\ apc # "panic"
                      /\ apc = "walk" => pos <= TableEnd
                      /\ apc = "end" /\ Len(xsdt) < TableCounts
                           => found.ioapic_addr = LastVal(IOAPIC)
    BY DEF MadtExact
  <2>1. apc # "panic"
    BY DEF AcpiInv
  <2>2. ASSUME apc = "walk" PROVE pos <= TableEnd
    <3>1. PICK k \in 1 .. Len(Entries) + 1 : pos = StartOf(Entries)[k]
      BY <2>2 DEF AcpiInv
    <3>2. PICK es : es = Entries /\ es = xsdt[t].entries
      BY DEF Entries
    <3>3. xsdt \in Seq(AcpiTables) /\ t \in 1 .. Len(xsdt)
      <4>1. xsdt \in Seq(AcpiTables) /\ t \in 1 .. xsdt_n
        BY <2>2 DEF AcpiInv
      <4>2. Len(xsdt) \in Nat /\ xsdt_n \in 0 .. Len(xsdt)
        BY <4>1, TableCount DEF xsdt_n
      <4> QED BY <4>1, <4>2
    <3>4. Len(es) \in Nat /\ \A j \in 1 .. Len(es) : es[j].length \in Nat \ {0}
      BY <3>2, <3>3, InStepEntry
    <3>5. Len(es) + 1 \in 1 .. Len(es) + 1 /\ (Len(es) + 1) - 1 = Len(es)
      BY <3>4
    <3>6. StartOf(es)[Len(es) + 1] \in Nat /\ StartOf(es)[k] \in Nat
          /\ \A j \in 1 .. Len(es) : StartOf(es)[j] < StartOf(es)[Len(es) + 1]
      BY <3>1, <3>2, <3>4, <3>5, StartAscends
    <3>7. k = Len(es) + 1 \/ k \in 1 .. Len(es)
      BY <3>1, <3>2, <3>4
    <3> QED BY <3>1, <3>2, <3>6, <3>7 DEF TableEnd
  <2>3. ASSUME apc = "end", Len(xsdt) < TableCounts
        PROVE  found.ioapic_addr = LastVal(IOAPIC)
    <3>1. /\ xsdt \in Seq(AcpiTables) /\ t = xsdt_n + 1
          /\ LastTaken(xsdt, found.ioapic_addr, t, 1)
      BY <2>3 DEF AcpiInv
    <3>2. xsdt_n = Len(xsdt)
      BY <2>3, <3>1, TableCount DEF xsdt_n
    <3> QED BY <3>1, <3>2, LastIsLast
  <2> QED BY <2>1, <2>2, <2>3
<1> QED BY <1>1, AcpiInductive, PTL

-----------------------------------------------------------------------------
(* The PCI scan.  The list holds the promised functions of the slots       *)
(* scanned, as many as there are.                                          *)

Rank(S, f) == Cardinality({g \in S : g < f})

\* Ranks count a finite set of numbers from 0.
LEMMA RankBijective ==
  ASSUME NEW S \in SUBSET Nat, IsFiniteSet(S)
  PROVE  /\ \A f \in S : Rank(S, f) \in 0 .. Cardinality(S) - 1
         /\ \A f, h \in S : Rank(S, f) = Rank(S, h) => f = h
         /\ \A n \in 0 .. Cardinality(S) - 1 : \E f \in S : Rank(S, f) = n
<1> DEFINE below(f) == {g \in S : g < f}
<1>1. Cardinality(S) \in Nat
  BY FS_CardinalityType
<1>2. ASSUME NEW f \in S
      PROVE  /\ IsFiniteSet(below(f)) /\ Rank(S, f) \in Nat /\ Rank(S, f) < Cardinality(S)
  <2>1. below(f) \in SUBSET S /\ f \notin below(f)
    OBVIOUS
  <2>2. IsFiniteSet(below(f)) /\ Cardinality(below(f)) <= Cardinality(S)
        /\ (Cardinality(S) = Cardinality(below(f)) => S = below(f))
    BY <2>1, FS_Subset
  <2>3. Cardinality(below(f)) \in Nat /\ Cardinality(below(f)) # Cardinality(S)
    BY <2>1, <2>2, FS_CardinalityType
  <2> QED BY <1>1, <2>2, <2>3 DEF Rank
<1>3. ASSUME NEW f \in S, NEW h \in S, f < h PROVE Rank(S, f) < Rank(S, h)
  <2>1. below(f) \cup {f} \in SUBSET below(h) /\ f \notin below(f)
    <3>1. ASSUME NEW g \in below(f) PROVE g \in below(h)
      <4>1. g \in S /\ g < f /\ g \in Nat /\ f \in Nat /\ h \in Nat
        OBVIOUS
      <4> QED BY <1>3, <4>1
    <3>2. f \in below(h)
      BY <1>3
    <3>3. f \notin below(f)
      OBVIOUS
    <3> QED BY <3>1, <3>2, <3>3, Zenon
  <2>2. IsFiniteSet(below(f)) /\ IsFiniteSet(below(h))
    BY <1>2
  <2>3. Cardinality(below(f) \cup {f}) = Cardinality(below(f)) + 1
    BY <2>1, <2>2, FS_AddElement
  <2>4. Cardinality(below(f) \cup {f}) <= Cardinality(below(h))
    BY <2>1, <2>2, FS_Subset
  <2>5. Rank(S, f) \in Nat /\ Rank(S, h) \in Nat
    BY <1>2
  <2> QED BY <2>3, <2>4, <2>5 DEF Rank
<1> HIDE DEF below
<1>4. ASSUME NEW f \in S, NEW h \in S, Rank(S, f) = Rank(S, h) PROVE f = h
  <2>1. Rank(S, f) \in Nat /\ Rank(S, h) \in Nat /\ f \in Nat /\ h \in Nat
    BY <1>2
  <2>2. f < h => Rank(S, f) < Rank(S, h)
    BY <1>3
  <2>3. h < f => Rank(S, h) < Rank(S, f)
    BY <1>3
  <2> QED BY <1>4, <2>1, <2>2, <2>3
<1>5. ASSUME NEW f \in S PROVE Rank(S, f) \in 0 .. Cardinality(S) - 1
  <2>1. Rank(S, f) \in Nat /\ Rank(S, f) < Cardinality(S)
    BY <1>2
  <2> QED BY <1>1, <2>1
<1> DEFINE T == 0 .. Cardinality(S) - 1
           r == [f \in S |-> Rank(S, f)]
<1>6. r \in Injection(S, T)
  BY <1>4, <1>5 DEF Injection, IsInjective
<1>7. IsFiniteSet(T) /\ Cardinality(T) = Cardinality(S)
  <2>1. PICK a \in Int, b \in Int : a = 0 /\ b = Cardinality(S) - 1
    BY <1>1
  <2>2. IsFiniteSet(a .. b) /\ Cardinality(a .. b) = IF a > b THEN 0 ELSE b - a + 1
    BY FS_Interval
  <2> QED BY <1>1, <2>1, <2>2
<1>8. r \in Surjection(S, T)
  BY <1>6, <1>7, FS_Injection
<1>9. \A n \in T : \E f \in S : r[f] = n
  BY <1>8 DEF Surjection
<1> QED BY <1>4, <1>5, <1>9

LEMMA NthIs ==
  ASSUME NEW S \in SUBSET Nat, IsFiniteSet(S)
  PROVE  /\ Cardinality(S) \in Nat
         /\ \A n \in 1 .. Cardinality(S) : Nth(S, n) \in S
         /\ \A f \in S : \E n \in 1 .. Cardinality(S) : Nth(S, n) = f
<1>1. Cardinality(S) \in Nat
  BY FS_CardinalityType
<1>2. ASSUME NEW n \in 1 .. Cardinality(S) PROVE Nth(S, n) \in S /\ Rank(S, Nth(S, n)) = n - 1
  <2>1. n - 1 \in 0 .. Cardinality(S) - 1
    BY <1>1
  <2>2. \E f \in S : Cardinality({g \in S : g < f}) = n - 1
    BY <2>1, RankBijective DEF Rank
  <2> QED BY <2>2 DEF Nth, Rank
<1>3. ASSUME NEW f \in S PROVE \E n \in 1 .. Cardinality(S) : Nth(S, n) = f
  <2>1. PICK i \in 0 .. Cardinality(S) - 1 : i = Rank(S, f)
    BY RankBijective
  <2>2. i + 1 \in 1 .. Cardinality(S) /\ (i + 1) - 1 = i
    BY <1>1
  <2>3. Nth(S, i + 1) \in S /\ Rank(S, Nth(S, i + 1)) = Rank(S, f)
    BY <1>2, <2>1, <2>2
  <2>4. Nth(S, i + 1) = f
    <3>1. \A h, k \in S : Rank(S, h) = Rank(S, k) => h = k
      BY RankBijective
    <3> QED BY <2>3, <3>1, Zenon
  <2> QED BY <2>2, <2>4
<1> QED BY <1>1, <1>2, <1>3

\* The promised functions of a slot.
InSlot(b, s) == {d \in Promised : d[1] = b /\ d[2] = s}

LEMMA OthersAre ==
  ASSUME NEW b, NEW s, NFunc \in Nat
  PROVE  Others(b, s) \in SUBSET Nat /\ IsFiniteSet(Others(b, s)) /\ 0 \notin Others(b, s)
<1>1. Funcs \in SUBSET Nat /\ 0 \notin Funcs
  BY DEF Funcs
<1>2. IsFiniteSet(Funcs)
  <2>1. NFunc - 1 \in Int
    OBVIOUS
  <2> QED BY <2>1, FS_Interval DEF Funcs
<1>3. Others(b, s) \in SUBSET Funcs
  BY DEF Others
<1> QED BY <1>1, <1>2, <1>3, FS_Subset

\* A slot whose function 0 is there.
LEMMA SlotFunctions ==
  ASSUME present \subseteq PciFunctions, NEW b, NEW s, <<b, s, 0>> \in present
  PROVE  InSlot(b, s) = {<<b, s, 0>>} \cup {<<b, s, f>> : f \in Others(b, s)}
<1>1. ASSUME NEW d \in InSlot(b, s)
      PROVE  d \in {<<b, s, 0>>} \cup {<<b, s, f>> : f \in Others(b, s)}
  <2>1. d \in present /\ d[1] = b /\ d[2] = s /\ (d[3] = 0 \/ <<d[1], d[2]>> \in multi)
    BY DEF InSlot, Promised
  <2>2. d \in PciFunctions
    BY <2>1
  <2>3. d = <<b, s, d[3]>> /\ d[3] \in 0 .. NFunc - 1
    BY <2>1, <2>2 DEF PciFunctions
  <2>4. CASE d[3] = 0
    BY <2>3, <2>4
  <2>5. CASE d[3] # 0
    <3>1. <<b, s>> \in multi
      BY <2>1, <2>5
    <3>2. d[3] \in Funcs
      BY <2>3, <2>5, PciAssumption DEF Funcs
    <3>3. d[3] \in Others(b, s)
      BY <2>1, <2>3, <3>1, <3>2 DEF Others
    <3> QED BY <2>3, <3>3
  <2> QED BY <2>4, <2>5
<1>2. <<b, s, 0>> \in InSlot(b, s)
  BY DEF InSlot, Promised
<1>3. ASSUME NEW f \in Others(b, s) PROVE <<b, s, f>> \in InSlot(b, s)
  <2>1. <<b, s>> \in multi /\ <<b, s, f>> \in present
    BY DEF Others
  <2> QED BY <2>1 DEF InSlot, Promised
<1> QED BY <1>1, <1>2, <1>3

LEMMA SlotCount ==
  ASSUME present \subseteq PciFunctions, NEW b, NEW s, <<b, s, 0>> \in present
  PROVE  IsFiniteSet(InSlot(b, s)) /\ Cardinality(InSlot(b, s)) = 1 + Cardinality(Others(b, s))
<1>0. NFunc \in Nat
  BY PciAssumption
<1> DEFINE O == Others(b, s)
           R == {<<b, s, f>> : f \in O}
           z == <<b, s, 0>>
           g == [f \in O |-> <<b, s, f>>]
<1>1. IsFiniteSet(O) /\ 0 \notin O /\ Cardinality(O) \in Nat
  BY <1>0, OthersAre, FS_CardinalityType
<1> HIDE DEF O
<1>2. g \in Bijection(O, R)
  <2>1. g \in [O -> R]
    OBVIOUS
  <2>2. \A f, h \in O : g[f] = g[h] => f = h
    OBVIOUS
  <2>3. \A d \in R : \E f \in O : g[f] = d
    OBVIOUS
  <2> QED BY <2>1, <2>2, <2>3 DEF Bijection, Injection, Surjection, IsInjective
<1>3. IsFiniteSet(R) /\ Cardinality(R) = Cardinality(O)
  BY <1>1, <1>2, FS_Bijection DEF ExistsBijection
<1>4. z \notin R
  BY <1>1
<1>5. IsFiniteSet(R \cup {z}) /\ Cardinality(R \cup {z}) = Cardinality(R) + 1
  BY <1>3, <1>4, FS_AddElement
<1>6. InSlot(b, s) = R \cup {z}
  BY SlotFunctions DEF O
<1> QED BY <1>1, <1>3, <1>5, <1>6 DEF O

\* What a slot adds to the list: each of its promised functions, once.
LEMMA SlotAnswers ==
  ASSUME present \subseteq PciFunctions, NEW b, NEW s
  PROVE  /\ Answering(b, s) \in Seq(PciFunctions)
         /\ IsFiniteSet(InSlot(b, s))
         /\ Len(Answering(b, s)) = Cardinality(InSlot(b, s))
         /\ \A d \in InSlot(b, s) : \E n \in 1 .. Len(Answering(b, s)) : Answering(b, s)[n] = d
<1>1. CASE <<b, s, 0>> \notin present
  <2>1. Answering(b, s) = <<>>
    BY <1>1 DEF Answering
  <2>2. InSlot(b, s) = {}
    <3> SUFFICES ASSUME NEW d \in InSlot(b, s) PROVE FALSE
      OBVIOUS
    <3>1. d \in present /\ d[1] = b /\ d[2] = s /\ (d[3] = 0 \/ <<d[1], d[2], 0>> \in present)
      BY DEF InSlot, Promised
    <3>2. d = <<d[1], d[2], d[3]>>
      BY <3>1 DEF PciFunctions
    <3> QED BY <1>1, <3>1, <3>2
  <2> QED BY <2>1, <2>2, FS_EmptySet
<1>2. CASE <<b, s, 0>> \in present
  <2>0. NFunc \in Nat
    BY PciAssumption
  <2> DEFINE O == Others(b, s)
             q == [n \in 1 .. Cardinality(O) |-> <<b, s, Nth(O, n)>>]
             z == <<b, s, 0>>
  <2>1. O \in SUBSET Nat /\ IsFiniteSet(O)
    BY <2>0, OthersAre
  <2>2. /\ Cardinality(O) \in Nat
        /\ \A n \in 1 .. Cardinality(O) : Nth(O, n) \in O
        /\ \A f \in O : \E n \in 1 .. Cardinality(O) : Nth(O, n) = f
    BY <2>1, NthIs
  <2>3. Answering(b, s) = <<z>> \o q
    BY <1>2 DEF Answering
  <2>4. InSlot(b, s) = {z} \cup {<<b, s, f>> : f \in O}
    BY <1>2, SlotFunctions
  <2>5. InSlot(b, s) \subseteq PciFunctions
    BY DEF InSlot, Promised
  <2> HIDE DEF O
  <2>6. \A n \in 1 .. Cardinality(O) : <<b, s, Nth(O, n)>> \in PciFunctions
    BY <2>2, <2>4, <2>5
  <2>7. q \in Seq(PciFunctions) /\ Len(q) = Cardinality(O)
    BY <2>2, <2>6
  <2>8. z \in PciFunctions
    BY <1>2
  <2> HIDE DEF z
  <2>9. \A f \in O : \E n \in 1 .. Len(q) : q[n] = <<b, s, f>>
    <3> SUFFICES ASSUME NEW f \in O PROVE \E n \in 1 .. Len(q) : q[n] = <<b, s, f>>
      OBVIOUS
    <3>1. PICK n \in 1 .. Cardinality(O) : Nth(O, n) = f
      BY <2>2
    <3> QED BY <2>7, <3>1
  <2> HIDE DEF q
  <2>10. /\ <<z>> \o q \in Seq(PciFunctions) /\ Len(<<z>> \o q) = 1 + Cardinality(O)
         /\ (<<z>> \o q)[1] = z
    BY <2>2, <2>7, <2>8
  <2>11. ASSUME NEW n \in 1 .. Len(q)
         PROVE  n + 1 \in 1 .. Len(<<z>> \o q) /\ (<<z>> \o q)[n + 1] = q[n]
    BY <2>2, <2>7, <2>8, <2>10
  <2>12. ASSUME NEW d \in InSlot(b, s)
         PROVE  \E n \in 1 .. Len(<<z>> \o q) : (<<z>> \o q)[n] = d
    <3>1. CASE d = z
      <4>1. 1 \in 1 .. Len(<<z>> \o q)
        BY <2>2, <2>10
      <4> QED BY <2>10, <3>1, <4>1
    <3>2. CASE d # z
      <4>1. PICK f \in O : d = <<b, s, f>>
        BY <2>4, <3>2
      <4>2. PICK n \in 1 .. Len(q) : q[n] = d
        BY <2>9, <4>1
      <4> QED BY <2>11, <4>2
    <3> QED BY <3>1, <3>2
  <2>13. IsFiniteSet(InSlot(b, s)) /\ Cardinality(InSlot(b, s)) = 1 + Cardinality(O)
    BY <1>2, SlotCount DEF O
  <2> QED BY <2>3, <2>10, <2>12, <2>13
<1> QED BY <1>1, <1>2

-----------------------------------------------------------------------------

LEMMA Coordinates ==
  ASSUME NEW N \in Nat \ {0}, NEW n \in Nat, NEW b \in Nat, NEW s \in 0 .. N - 1
  PROVE  b * N + s \in Nat /\ (b * N + s = n <=> b = n \div N /\ s = n % N)
<1>1. n \div N \in Nat /\ n % N \in 0 .. N - 1 /\ n = (n \div N) * N + (n % N)
  OBVIOUS
<1>2. PICK c \in Nat, r \in 0 .. N - 1 : c = n \div N /\ r = n % N /\ n = c * N + r
  BY <1>1
<1>3. b * N \in Nat /\ c * N \in Nat
  OBVIOUS
<1>4. ASSUME b * N + s = c * N + r PROVE b = c /\ s = r
  <2>1. ASSUME b < c PROVE FALSE
    <3>1. (b + 1) * N <= c * N /\ (b + 1) * N = b * N + N
      BY <2>1
    <3> QED BY <1>3, <1>4, <3>1
  <2>2. ASSUME c < b PROVE FALSE
    <3>1. (c + 1) * N <= b * N /\ (c + 1) * N = c * N + N
      BY <2>2
    <3> QED BY <1>3, <1>4, <3>1
  <2>3. b = c
    BY <2>1, <2>2
  <2> QED BY <1>3, <1>4, <2>3
<1> QED BY <1>2, <1>3, <1>4

\* The promised functions of the first n slots.
Scanned(n) == {d \in Promised : d[1] * NSlot + d[2] < n}

LEMMA FunctionPlace ==
  ASSUME present \subseteq PciFunctions, NEW d \in Promised
  PROVE  /\ d[1] \in Nat /\ d[1] <= NBus - 1 /\ d[2] \in 0 .. NSlot - 1
         /\ NSlot \in Nat \ {0} /\ NBus \in Nat \ {0} /\ d[1] * NSlot + d[2] \in Nat
<1>1. NSlot \in Nat \ {0} /\ NBus \in Nat \ {0}
  BY PciAssumption
<1>2. d \in PciFunctions
  BY DEF Promised
<1>3. d[1] \in 0 .. NBus - 1 /\ d[2] \in 0 .. NSlot - 1
  BY <1>2 DEF PciFunctions
<1>4. d[1] \in Nat /\ d[2] \in Nat /\ d[1] <= NBus - 1
  BY <1>1, <1>3
<1>5. d[1] * NSlot + d[2] \in Nat
  BY <1>1, <1>3, <1>4, Coordinates
<1> QED BY <1>1, <1>3, <1>4, <1>5

LEMMA ScannedNext ==
  ASSUME present \subseteq PciFunctions, NEW n \in Nat
  PROVE  /\ Scanned(n + 1) = Scanned(n) \cup InSlot(n \div NSlot, n % NSlot)
         /\ Scanned(n) \cap InSlot(n \div NSlot, n % NSlot) = {}
<1>1. ASSUME NEW d \in Promised
      PROVE  /\ d \in Scanned(n + 1) <=> d \in Scanned(n) \/ d \in InSlot(n \div NSlot, n % NSlot)
             /\ ~ (d \in Scanned(n) /\ d \in InSlot(n \div NSlot, n % NSlot))
  <2>1. PICK b, s : b = d[1] /\ s = d[2]
    OBVIOUS
  <2>2. b \in Nat /\ s \in 0 .. NSlot - 1 /\ NSlot \in Nat \ {0} /\ b * NSlot + s \in Nat
    BY <2>1, FunctionPlace
  <2>3. b * NSlot + s = n <=> b = n \div NSlot /\ s = n % NSlot
    BY <2>2, Coordinates
  <2>4. PICK v \in Nat : v = b * NSlot + s
    BY <2>2
  <2>5. d \in Scanned(n + 1) <=> v < n + 1
    BY <2>1, <2>4 DEF Scanned
  <2>6. d \in Scanned(n) <=> v < n
    BY <2>1, <2>4 DEF Scanned
  <2>7. d \in InSlot(n \div NSlot, n % NSlot) <=> v = n
    BY <2>1, <2>3, <2>4 DEF InSlot
  <2> QED BY <2>5, <2>6, <2>7
<1>2. /\ Scanned(n + 1) \subseteq Promised /\ Scanned(n) \subseteq Promised
      /\ InSlot(n \div NSlot, n % NSlot) \subseteq Promised
  BY DEF Scanned, InSlot
<1> DEFINE A == Scanned(n + 1)
           B == Scanned(n)
           C == InSlot(n \div NSlot, n % NSlot)
<1> HIDE DEF A, B, C
<1>3. A \subseteq Promised /\ B \subseteq Promised /\ C \subseteq Promised
  BY <1>2 DEF A, B, C
<1>4. \A d \in Promised : (d \in A <=> d \in B \/ d \in C) /\ ~ (d \in B /\ d \in C)
  BY <1>1 DEF A, B, C
<1>5. A = B \cup C /\ B \cap C = {}
  BY <1>3, <1>4, Zenon
<1> QED BY <1>5 DEF A, B, C

LEMMA ScannedAll ==
  ASSUME present \subseteq PciFunctions
  PROVE  Scanned(NBus * NSlot) = Promised
<1> SUFFICES ASSUME NEW d \in Promised PROVE d[1] * NSlot + d[2] < NBus * NSlot
  BY DEF Scanned
<1>1. PICK b, s : b = d[1] /\ s = d[2]
  OBVIOUS
<1>2. /\ b \in Nat /\ b <= NBus - 1 /\ s \in 0 .. NSlot - 1
      /\ NSlot \in Nat \ {0} /\ NBus \in Nat \ {0}
  BY <1>1, FunctionPlace
<1>3. (b + 1) * NSlot <= NBus * NSlot /\ (b + 1) * NSlot = b * NSlot + NSlot
  BY <1>2
<1>4. b * NSlot \in Nat /\ NBus * NSlot \in Nat
  BY <1>2
<1>5. b * NSlot + s < NBus * NSlot
  BY <1>2, <1>3, <1>4
<1> QED BY <1>1, <1>5

PciInv ==
  /\ ppc = "off" => slot = 0 /\ pci_devices = <<>>
  /\ ppc \in {"scan", "end"} =>
       /\ present \subseteq PciFunctions
       /\ slot \in Nat /\ pci_devices \in Seq(PciFunctions)
       /\ IsFiniteSet(Scanned(slot)) /\ Len(pci_devices) = Cardinality(Scanned(slot))
       /\ \A d \in Scanned(slot) : \E n \in 1 .. Len(pci_devices) : pci_devices[n] = d
  /\ ppc = "end" => slot = NBus * NSlot

LEMMA PciBeginInv == ASSUME PciInv, PciBegin PROVE PciInv'
<1>1. /\ ppc' = "scan" /\ slot' = 0 /\ pci_devices' = <<>> /\ present' \subseteq PciFunctions
  BY PciAssumption DEF PciInv, PciBegin
<1>2. Scanned(0)' = {}
  <2> SUFFICES ASSUME NEW d \in Scanned(0)' PROVE FALSE
    OBVIOUS
  <2>1. d \in present' /\ d[1] * NSlot + d[2] < 0
    BY DEF Scanned, Promised
  <2>2. d \in PciFunctions
    BY <1>1, <2>1
  <2>3. d[1] \in 0 .. NBus - 1 /\ d[2] \in 0 .. NSlot - 1
    BY <2>2 DEF PciFunctions
  <2>4. d[1] \in Nat /\ NSlot \in Nat \ {0}
    BY <2>3, PciAssumption
  <2>5. d[1] * NSlot + d[2] \in Nat
    BY <2>3, <2>4, Coordinates
  <2> QED BY <2>1, <2>5
<1>3. Scanned(slot)' = {}
  BY <1>1, <1>2 DEF Scanned
<1>4. <<>> \in Seq(PciFunctions) /\ Len(<<>>) = 0
  OBVIOUS
<1> QED BY <1>1, <1>3, <1>4, FS_EmptySet DEF PciInv

LEMMA PciSlotInv == ASSUME PciInv, PciSlot PROVE PciInv'
<1>1. /\ ppc = "scan" /\ ppc' = "scan" /\ present' = present /\ multi' = multi /\ slot' = slot + 1
      /\ pci_devices' = pci_devices \o Answering(slot \div NSlot, slot % NSlot)
      /\ present \subseteq PciFunctions /\ slot \in Nat /\ pci_devices \in Seq(PciFunctions)
      /\ IsFiniteSet(Scanned(slot)) /\ Len(pci_devices) = Cardinality(Scanned(slot))
      /\ \A d \in Scanned(slot) : \E n \in 1 .. Len(pci_devices) : pci_devices[n] = d
  BY DEF PciInv, PciSlot
<1>2. Scanned(slot)' = Scanned(slot + 1)
  <2>1. Promised' = Promised
    BY <1>1 DEF Promised
  <2> QED BY <1>1, <2>1 DEF Scanned
<1>3. PICK q, I : q = Answering(slot \div NSlot, slot % NSlot) /\ I = InSlot(slot \div NSlot, slot % NSlot)
  OBVIOUS
<1>4. /\ q \in Seq(PciFunctions) /\ IsFiniteSet(I) /\ Len(q) = Cardinality(I)
      /\ \A d \in I : \E n \in 1 .. Len(q) : q[n] = d
  BY <1>1, <1>3, SlotAnswers
<1>5. Scanned(slot + 1) = Scanned(slot) \cup I /\ Scanned(slot) \cap I = {}
  BY <1>1, <1>3, ScannedNext
<1>6. /\ IsFiniteSet(Scanned(slot + 1))
      /\ Cardinality(Scanned(slot + 1)) = Cardinality(Scanned(slot)) + Cardinality(I)
  <2>1. /\ IsFiniteSet(Scanned(slot) \cup I)
        /\ Cardinality(Scanned(slot) \cup I) =
             Cardinality(Scanned(slot)) + Cardinality(I) - Cardinality(Scanned(slot) \cap I)
    BY <1>1, <1>4, FS_Union
  <2>2. Cardinality(Scanned(slot) \cap I) = 0
    BY <1>5, FS_EmptySet
  <2>3. Cardinality(Scanned(slot)) \in Nat /\ Cardinality(I) \in Nat
    BY <1>1, <1>4, FS_CardinalityType
  <2> QED BY <1>5, <2>1, <2>2, <2>3
<1>7. PICK p : p = pci_devices
  OBVIOUS
<1>8. /\ p \o q \in Seq(PciFunctions) /\ Len(p \o q) = Len(p) + Len(q)
      /\ \A n \in 1 .. Len(p) : n \in 1 .. Len(p \o q) /\ (p \o q)[n] = p[n]
      /\ \A n \in 1 .. Len(q) : Len(p) + n \in 1 .. Len(p \o q) /\ (p \o q)[Len(p) + n] = q[n]
  <2>1. p \in Seq(PciFunctions) /\ q \in Seq(PciFunctions)
    BY <1>1, <1>4, <1>7
  <2>2. p \o q \in Seq(PciFunctions) /\ Len(p \o q) = Len(p) + Len(q) /\ Len(p) \in Nat /\ Len(q) \in Nat
    BY <2>1
  <2>3. ASSUME NEW n \in 1 .. Len(p) PROVE n \in 1 .. Len(p \o q) /\ (p \o q)[n] = p[n]
    BY <2>1, <2>2
  <2>4. ASSUME NEW n \in 1 .. Len(q)
        PROVE  Len(p) + n \in 1 .. Len(p \o q) /\ (p \o q)[Len(p) + n] = q[n]
    <3>1. Len(p) + n \in 1 .. Len(p) + Len(q) /\ ~ (Len(p) + n <= Len(p)) /\ (Len(p) + n) - Len(p) = n
      BY <2>2
    <3> QED BY <2>1, <2>2, <3>1
  <2> QED BY <2>2, <2>3, <2>4
<1>9. ASSUME NEW d \in Scanned(slot + 1) PROVE \E n \in 1 .. Len(p \o q) : (p \o q)[n] = d
  <2>1. CASE d \in Scanned(slot)
    <3>1. PICK n \in 1 .. Len(p) : p[n] = d
      BY <1>1, <1>7, <2>1
    <3> QED BY <1>8, <3>1
  <2>2. CASE d \in I
    <3>1. PICK n \in 1 .. Len(q) : q[n] = d
      BY <1>4, <2>2
    <3> QED BY <1>8, <3>1
  <2> QED BY <1>5, <2>1, <2>2
<1>10. pci_devices' = p \o q /\ slot' \in Nat
  BY <1>1, <1>3, <1>7
<1>11. Len(p \o q) = Cardinality(Scanned(slot + 1))
  BY <1>1, <1>4, <1>6, <1>7, <1>8
<1> QED BY <1>1, <1>2, <1>6, <1>8, <1>9, <1>10, <1>11 DEF PciInv

LEMMA PciInductive == StartSpec => []PciInv
<1>1. StartInit => PciInv
  BY DEF StartInit, PciInit, PciInv
<1>2. PciInv /\ [StartNext]_startVars => PciInv'
  <2> SUFFICES ASSUME PciInv, [StartNext]_startVars PROVE PciInv'
    OBVIOUS
  <2>1. PciStep \/ UNCHANGED pciVars
    BY DEF StartNext, Load, cpu_init, ReadAcpi, ScanMemory, ScanPci, StartOver, startVars
  <2>2. CASE PciBegin
    BY <2>2, PciBeginInv
  <2>3. CASE PciSlot
    BY <2>3, PciSlotInv
  <2>4. CASE PciEnd \/ UNCHANGED pciVars
    <3>1. /\ present' = present /\ multi' = multi /\ slot' = slot /\ pci_devices' = pci_devices
          /\ ppc' = ppc \/ (ppc = "scan" /\ ppc' = "end" /\ slot = NBus * NSlot)
      BY <2>4 DEF PciEnd, pciVars
    <3>2. Promised' = Promised
      BY <3>1 DEF Promised
    <3>3. Scanned(slot)' = Scanned(slot)
      BY <3>1, <3>2 DEF Scanned
    <3> QED BY <3>1, <3>3 DEF PciInv
  <2> QED BY <2>1, <2>2, <2>3, <2>4 DEF PciStep
<1> QED BY <1>1, <1>2, PTL DEF StartSpec

\* After pci_scan() the list has every function the buses promise, and no other and
\* none twice: it is as long as they are many.
THEOREM DevicesListedOnce == StartSpec => []EachDeviceOnce
<1>1. PciInv => EachDeviceOnce
  BY ScannedAll DEF PciInv, EachDeviceOnce
<1> QED BY <1>1, PciInductive, PTL
=============================================================================
