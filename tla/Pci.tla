-------------------------------- MODULE Pci --------------------------------
(***************************************************************************)
(* pci_scan() (pci.c): every slot of every bus, function 0 first and the   *)
(* others only if function 0 has the multi-function bit.  The list cells   *)
(* and records come from the heap (Slab).  Registers read into a record    *)
(* are abstracted to the function's address.                               *)
(***************************************************************************)
EXTENDS Integers, Sequences, FiniteSets

CONSTANTS
    NBus, NSlot, NFunc,  \* 256, 32 and 8
    Machines             \* what may be plugged in: [present, multi]

PciFunctions == (0 .. NBus - 1) \X (0 .. NSlot - 1) \X (0 .. NFunc - 1)

ASSUME PciAssumption ==
    /\ NBus \in Nat \ {0} /\ NSlot \in Nat \ {0} /\ NFunc \in Nat \ {0}
    /\ \A m \in Machines : m.present \subseteq PciFunctions

VARIABLES
    ppc,          \* "off", "scan", "end"
    present,      \* functions that answer: <<bus, slot, func>>
    multi,        \* <<bus, slot>> with bit 7 of the header type
    slot,         \* slots scanned, over all buses
    pci_devices   \* the list

pciVars == <<ppc, present, multi, slot, pci_devices>>

PciInit == ppc = "off" /\ present = {} /\ multi = {} /\ slot = 0 /\ pci_devices = <<>>

PciBegin ==
    /\ ppc = "off"
    /\ \E m \in Machines : present' = m.present /\ multi' = m.multi
    /\ ppc' = "scan"
    /\ UNCHANGED <<slot, pci_devices>>

\* Mutated form: the last function is left out.
FuncsButOne == 1 .. NFunc - 2

Funcs == 1 .. NFunc - 1

\* The functions besides function 0 that a slot is asked for and that answer.
Others(b, s) == IF <<b, s>> \in multi THEN {f \in Funcs : <<b, s, f>> \in present} ELSE {}

\* The n-th lowest of a set of numbers.
Nth(S, n) == CHOOSE f \in S : Cardinality({g \in S : g < f}) = n - 1

\* The functions of a slot, in the order they are pushed.
Answering(b, s) ==
    IF <<b, s, 0>> \notin present THEN <<>>
    ELSE <<<<b, s, 0>>>> \o [n \in 1 .. Cardinality(Others(b, s)) |-> <<b, s, Nth(Others(b, s), n)>>]

PciSlot ==
    /\ ppc = "scan" /\ slot < NBus * NSlot
    /\ pci_devices' = pci_devices \o Answering(slot \div NSlot, slot % NSlot)
    /\ slot' = slot + 1
    /\ UNCHANGED <<ppc, present, multi>>

PciEnd ==
    /\ ppc = "scan" /\ slot = NBus * NSlot
    /\ ppc' = "end"
    /\ UNCHANGED <<present, multi, slot, pci_devices>>

PciStep == PciBegin \/ PciSlot \/ PciEnd

-----------------------------------------------------------------------------

\* Functions the bus promises to be there: function 0, and the others of a slot
\* whose function 0 announces them.
Promised == {d \in present : d[3] = 0 \/ (<<d[1], d[2], 0>> \in present /\ <<d[1], d[2]>> \in multi)}

\* After the scan each promised function is on the list exactly once.
EachDeviceOnce ==
    ppc = "end" =>
        /\ Len(pci_devices) = Cardinality(Promised)
        /\ \A d \in Promised : \E n \in 1 .. Len(pci_devices) : pci_devices[n] = d
=============================================================================
