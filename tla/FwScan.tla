------------------------------- MODULE FwScan -------------------------------
(***************************************************************************)
(* The walk of pm_init() over the firmware's page table (arch/x86/pm.c:8): *)
(* allocatable memory ends at the first read-only page.                    *)
(*                                                                         *)
(* A directory (the level of 2 MiB) is a sequence of entries [p, rw, ps,   *)
(* paddr, pt] with pt the entries [p, rw, paddr] of a page table; the two  *)
(* levels above are one sequence of [p, pd].  Addresses are pages.         *)
(***************************************************************************)
EXTENDS Integers, Sequences

CONSTANTS
    FwTables,  \* page tables the firmware may leave
    PdSpan     \* pages of a directory entry: 512

FwPages == [p : BOOLEAN, rw : BOOLEAN, paddr : Nat]
FwEntries == [p : BOOLEAN, rw : BOOLEAN, ps : BOOLEAN, paddr : Nat, pt : Seq(FwPages)]
FwDirs == [p : BOOLEAN, pd : Seq(FwEntries)]

\* The pages a directory entry maps.
Mapped(e) ==
    IF e.ps THEN e.paddr .. e.paddr + PdSpan - 1
    ELSE {e.pt[l].paddr : l \in {l \in 1 .. Len(e.pt) : e.pt[l].p}}

\* What UEFI promises of its page table, the identity: large pages are aligned, and
\* addresses ascend.
ASSUME FwAssumption ==
    /\ PdSpan \in Nat \ {0}
    /\ \A f \in FwTables :
         /\ f \in Seq(FwDirs)
         /\ \A j \in 1 .. Len(f) : Len(f[j].pd) <= PdSpan /\ \A k \in 1 .. Len(f[j].pd) :
              LET e == f[j].pd[k]
              IN /\ e.p /\ e.ps => e.paddr % PdSpan = 0
                 /\ \A l, n \in 1 .. Len(e.pt) :
                      l < n /\ e.pt[l].p /\ e.pt[n].p => e.pt[l].paddr < e.pt[n].paddr
         /\ \A i, j \in 1 .. Len(f) : \A k \in 1 .. Len(f[i].pd), n \in 1 .. Len(f[j].pd) :
              (i < j \/ (i = j /\ k < n)) /\ f[i].pd[k].p /\ f[j].pd[n].p =>
                \A a \in Mapped(f[i].pd[k]), b \in Mapped(f[j].pd[n]) : a < b

VARIABLES
    spc,             \* "off", "scan", "end", "over"
    fw,              \* the firmware's table
    allocatable_max

scanVars == <<spc, fw, allocatable_max>>

ScanInit == spc = "off" /\ fw = <<>> /\ allocatable_max = 0

ScanBegin ==
    /\ spc = "off"
    /\ fw' \in FwTables /\ spc' = "scan"
    /\ UNCHANGED allocatable_max

\* Present entries of the directories, and of page tables, by their place.
Directory ==
    {jk \in (1 .. Len(fw)) \X (1 .. PdSpan) :
        jk[2] <= Len(fw[jk[1]].pd) /\ fw[jk[1]].p /\ fw[jk[1]].pd[jk[2]].p}

Pages(jk) ==
    {<<jk[1], jk[2], l>> : l \in {l \in 1 .. Len(fw[jk[1]].pd[jk[2]].pt) :
        fw[jk[1]].pd[jk[2]].pt[l].p}}

Pd(jk) == fw[jk[1]].pd[jk[2]]
Pt(jkl) == fw[jkl[1]].pd[jkl[2]].pt[jkl[3]]

\* Mutated form: page tables are not entered.
HitsLarge == {<<jk[1], jk[2], 0>> : jk \in {d \in Directory : ~Pd(d).rw}}

\* The entries the loops stop at: a directory entry that is read-only, whether it is
\* a page or a table, and a read-only page of a table that is not.
Hits ==
    {<<jk[1], jk[2], 0>> : jk \in {d \in Directory : ~Pd(d).rw}}
      \cup {jkl \in UNION {Pages(d) : d \in {d \in Directory : Pd(d).rw /\ ~Pd(d).ps}} : ~Pt(jkl).rw}

Before(x, y) ==
    \/ x[1] < y[1] \/ (x[1] = y[1] /\ x[2] < y[2])
    \/ x[1] = y[1] /\ x[2] = y[2] /\ x[3] <= y[3]

\* The first of them gives the end, cut to the size of its level; without one it is 0.
Scan ==
    /\ spc = "scan" /\ spc' = "end"
    /\ allocatable_max' =
         IF Hits = {} THEN 0
         ELSE LET h == CHOOSE x \in Hits : \A y \in Hits : Before(x, y)
              IN IF h[3] = 0 THEN (Pd(h).paddr \div PdSpan) * PdSpan ELSE Pt(h).paddr
    /\ UNCHANGED fw

ScanReturn ==
    /\ spc = "end" /\ spc' = "over" /\ fw' = <<>>
    /\ UNCHANGED allocatable_max

ScanStep == ScanBegin \/ Scan \/ ScanReturn

-----------------------------------------------------------------------------

\* Pages that are mapped and cannot be written: large ones and small ones.
ReadOnlyPages ==
    UNION {IF Pd(d).ps THEN IF Pd(d).rw THEN {} ELSE Pd(d).paddr .. Pd(d).paddr + PdSpan - 1
           ELSE {Pt(x).paddr : x \in {x \in Pages(d) : ~Pt(x).rw \/ ~Pd(d).rw}} : d \in Directory}

\* The firmware's map is the identity and its tables, as opposed to pages, are
\* writable.
TablesWritable == \A d \in Directory : ~Pd(d).ps => Pd(d).rw

\* Nothing below the end of allocatable memory is read-only, and the end is itself
\* the lowest page that is.
EndsAtReadOnly ==
    spc = "end" /\ TablesWritable =>
        /\ \A a \in ReadOnlyPages : allocatable_max <= a
        /\ ReadOnlyPages # {} => allocatable_max \in ReadOnlyPages
=============================================================================
