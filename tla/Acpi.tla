-------------------------------- MODULE Acpi --------------------------------
(***************************************************************************)
(* acpi_init() (acpi.c): the search for the MADT and the walk over its     *)
(* entries, which finds the addresses of the APICs.                        *)
(*                                                                         *)
(* A table is [sig, lapic, entries], an entry [type, length, val] with val *)
(* the address the code takes from it.  The walk advances by the           *)
(* size of the structure the code knows, not by the entry's length: once   *)
(* out of step it finds arbitrary types and values.  The firmware has an   *)
(* ACPI 2.0 table (search_xsdp() returns 0 otherwise, and nobody looks).   *)
(***************************************************************************)
EXTENDS Integers, Sequences

CONSTANTS
    Xsdts,       \* what the firmware may describe: sequences of tables
    TableCounts  \* values of the count of tables, 8 bits wide: 256 in the code

AcpiEntries == [type : 0 .. 255, length : Nat, val : Nat]
AcpiTables == [sig : STRING, lapic : Nat, entries : Seq(AcpiEntries)]

ASSUME AcpiAssumption == Xsdts \subseteq Seq(AcpiTables) /\ TableCounts \in Nat \ {0}

VARIABLES
    apc,    \* "off", "table", "walk", "end", "panic", "over"
    xsdt,   \* the tables
    t,      \* loop variable over the tables
    pos,    \* bytes of the MADT's entries walked over
    found   \* apic: [lapic_addr, ioapic_addr]; the numbers of the APICs are never used

acpiVars == <<apc, xsdt, t, pos, found>>

NotFound == [lapic_addr |-> 0, ioapic_addr |-> 0]

AcpiInit == apc = "off" /\ xsdt = <<>> /\ t = 1 /\ pos = 0 /\ found = NotFound

IOAPIC == 1
LAPIC_ADDRESS_OVERRIDE == 5

\* Mutated form: the size of a source override is off by its flags.
SizeofShort(type) ==
    CASE type = 0 -> 8 [] type = 1 -> 12 [] type = 2 -> 8 [] type = 3 -> 10
      [] type = 4 -> 6 [] type = 5 -> 12 [] type = 9 -> 16

\* Mutated form: the length of an interrupt override is not set.
SizeofUnset(type) ==
    CASE type = 0 -> 8 [] type = 1 -> 12 [] type = 2 -> 0 [] type = 3 -> 10
      [] type = 4 -> 6 [] type = 5 -> 12 [] type = 9 -> 16

\* The structures the walk knows: LAPIC, IOAPIC, interrupt override, NMI, LAPIC
\* NMI, LAPIC address override, x2APIC.
Sizeof(type) ==
    CASE type = 0 -> 8 [] type = 1 -> 12 [] type = 2 -> 10 [] type = 3 -> 10
      [] type = 4 -> 6 [] type = 5 -> 12 [] type = 9 -> 16

Known == {0, 1, 2, 3, 4, 5, 9}

AcpiBegin ==
    /\ apc = "off"
    /\ xsdt' \in Xsdts /\ apc' = "table"
    /\ UNCHANGED <<t, pos, found>>

\* The number of tables, cut to 8 bits: the loop does not see the others.
xsdt_n == Len(xsdt) % TableCounts

\* The next table; the MADT has the signature "APIC".
NextTable ==
    /\ apc = "table"
    /\ IF t > xsdt_n THEN apc' = "end" /\ UNCHANGED <<t, pos, found>>
       ELSE IF xsdt[t].sig = "APIC"
       THEN /\ apc' = "walk" /\ pos' = 0
            /\ found' = [found EXCEPT !.lapic_addr = xsdt[t].lapic] /\ UNCHANGED t
       ELSE t' = t + 1 /\ UNCHANGED <<apc, pos, found>>
    /\ UNCHANGED xsdt

\* Where entry k of a table begins; the one after the last, where the table ends.
StartOf(entries) ==
    LET s[k \in 1 .. Len(entries) + 1] == IF k = 1 THEN 0 ELSE s[k - 1] + entries[k - 1].length
    IN s

Entries == xsdt[t].entries

\* What the walk may see at its position: the entry that begins there or, out of
\* step, anything.
Seen ==
    LET at == {k \in 1 .. Len(Entries) : StartOf(Entries)[k] = pos}
    IN IF at # {} THEN {[type |-> Entries[k].type, val |-> Entries[k].val] : k \in at}
       ELSE [type : Known \cup {255}, val : {-1}]

Taken(e) ==
    [found EXCEPT
       !.ioapic_addr = IF e.type = IOAPIC THEN e.val ELSE @,
       !.lapic_addr = IF e.type = LAPIC_ADDRESS_OVERRIDE THEN e.val ELSE @]

TableEnd == StartOf(Entries)[Len(Entries) + 1]

WalkStep ==
    /\ apc = "walk" /\ pos < TableEnd
    /\ \E e \in Seen :
         IF e.type \in Known
         THEN found' = Taken(e) /\ pos' = pos + Sizeof(e.type) /\ UNCHANGED apc
         ELSE apc' = "panic" /\ UNCHANGED <<found, pos>>
    /\ UNCHANGED <<xsdt, t>>

WalkEnd ==
    /\ apc = "walk" /\ pos >= TableEnd
    /\ apc' = "table" /\ t' = t + 1
    /\ UNCHANGED <<xsdt, pos, found>>

\* acpi_init() returns; the tables are not looked at again.
AcpiReturn ==
    /\ apc = "end" /\ apc' = "over" /\ xsdt' = <<>> /\ t' = 1 /\ pos' = 0
    /\ UNCHANGED found

AcpiStep == AcpiBegin \/ NextTable \/ WalkStep \/ WalkEnd \/ AcpiReturn

-----------------------------------------------------------------------------

\* The lengths of the ACPI specification: an NMI source has 8 bytes, its structure
\* in acpi.h 10.
AcpiLength(type) ==
    CASE type = 0 -> 8 [] type = 1 -> 12 [] type = 2 -> 10 [] type = 3 -> 8
      [] type = 4 -> 6 [] type = 5 -> 12 [] type = 9 -> 16

\* The tables have only entries the walk knows, of their right lengths, and no NMI
\* source.
InStep ==
    \A k \in 1 .. Len(xsdt) : \A j \in 1 .. Len(xsdt[k].entries) :
        LET e == xsdt[k].entries[j]
        IN e.type \in Known \ {3} /\ e.length = AcpiLength(e.type)

\* The entries of a type in the MADTs, by table and place.
Places(type) ==
    {p \in UNION {{k} \X (1 .. Len(xsdt[k].entries)) : k \in 1 .. Len(xsdt)} :
        xsdt[p[1]].sig = "APIC" /\ xsdt[p[1]].entries[p[2]].type = type}

\* The value of the last of them, or 0.
LastVal(type) ==
    LET all == Places(type)
        last == CHOOSE p \in all : \A q \in all : q[1] < p[1] \/ (q[1] = p[1] /\ q[2] <= p[2])
    IN IF all = {} THEN 0 ELSE xsdt[last[1]].entries[last[2]].val

\* With tables of the expected shape the walk reaches the end of each MADT exactly,
\* never panics, and takes the address of the I/O APIC from the entry of that type,
\* if 8 bits count the tables.
MadtExact ==
    InStep =>
      /\ apc # "panic"
      /\ apc = "walk" => pos <= TableEnd
      /\ apc = "end" /\ Len(xsdt) < TableCounts => found.ioapic_addr = LastVal(IOAPIC)
=============================================================================
