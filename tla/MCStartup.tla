----------------------------- MODULE MCStartup -----------------------------
(* Volumes, kernels, ACPI tables and page tables for Startup.              *)
EXTENDS Startup

Volume == [proto : BOOLEAN, opens : BOOLEAN, has : BOOLEAN]

MCVolumeLists == UNION {[1 .. n -> Volume] : n \in 0 .. 2}

Segment(load, offset, paddr, filesz, memsz) ==
    [load |-> load, offset |-> offset, paddr |-> paddr, filesz |-> filesz, memsz |-> memsz]

Text == Segment(TRUE, 1, 0, 2, 2)
Data == Segment(TRUE, 3, 2, 1, 3)
Note == Segment(FALSE, 0, 1, 2, 2)

\* Complete, cut short in the data, more headers than the loop can count, and
\* not an ELF file.
MCKernels ==
    {[magic |-> TRUE, phdrs |-> <<Text, Data, Note>>, len |-> 4],
     [magic |-> TRUE, phdrs |-> <<Text, Data>>, len |-> 3],
     [magic |-> TRUE, phdrs |-> <<Text, Data, Note, Note>>, len |-> 4],
     [magic |-> FALSE, phdrs |-> <<>>, len |-> 4]}

MCRam == 0 .. 4

Entry(type, length, val) == [type |-> type, length |-> length, val |-> val]

MadtEntries ==
    {Entry(0, 8, 0), Entry(1, 12, 5), Entry(2, 10, 0), Entry(3, 8, 0), Entry(5, 12, 7),
     Entry(10, 12, 0)}

Other == [sig |-> "FACP", lapic |-> 0, entries |-> <<>>]

Madt(entries) == [sig |-> "APIC", lapic |-> 6, entries |-> entries]

\* Tables that the count takes in, and more tables than it can hold.
MCXsdts ==
    {<<Other>>} \cup
    {<<Other, Madt(e)>> : e \in UNION {[1 .. n -> MadtEntries] : n \in 0 .. 3}} \cup
    {<<Madt(<<e>>), Madt(<<f>>)>> : e, f \in MadtEntries} \cup
    {<<Other, Other, Madt(<<e>>), Other>> : e \in MadtEntries} \cup
    {<<Madt(<<e>>), Other, Other, Other, Madt(<<f>>)>> : e, f \in MadtEntries}

\* Directory entries of two pages at page a.
Large(a) == [p : {TRUE}, rw : BOOLEAN, ps : {TRUE}, paddr : {a}, pt : {<<>>}]

PageEntry(a) == [p : {TRUE}, rw : BOOLEAN, paddr : {a}] \cup [p : {FALSE}, rw : {FALSE}, paddr : {a}]

Table(a) ==
    {[p |-> TRUE, rw |-> w, ps |-> FALSE, paddr |-> 9, pt |-> <<x, y>>] :
        w \in BOOLEAN, x \in PageEntry(a), y \in PageEntry(a + 1)}

Absent == [p |-> FALSE, rw |-> FALSE, ps |-> FALSE, paddr |-> 0, pt |-> <<>>]

DirEntry(a) == Large(a) \cup Table(a) \cup {Absent}

MCFwTables ==
    {<<[p |-> TRUE, pd |-> <<d>>], [p |-> TRUE, pd |-> <<e>>]>> :
        d \in DirEntry(0), e \in DirEntry(2)}
      \cup {<<[p |-> FALSE, pd |-> <<>>], [p |-> TRUE, pd |-> <<e>>]>> : e \in DirEntry(2)}
      \cup {<<[p |-> TRUE, pd |-> <<d, e>>]>> : d \in DirEntry(0), e \in Large(2) \cup {Absent}}

\* All that two slots may hold, on different buses.
MCMachines ==
    {m \in [present : SUBSET ({<<0, 1, f>> : f \in 0 .. 2} \cup {<<1, 0, f>> : f \in 0 .. 2}),
            multi : SUBSET {<<0, 1>>, <<1, 0>>}] :
        \A s \in m.multi : <<s[1], s[2], 0>> \in m.present}
=============================================================================
