------------------------------ MODULE Startup ------------------------------
(***************************************************************************)
(* From the firmware to a kernel that knows its hardware: the loader, then *)
(* the calls of kernel_main() that read what the machine offers, in their  *)
(* order.  Each step of one component leaves the others alone.             *)
(***************************************************************************)
EXTENDS Loader, Acpi, FwScan, Pci

VARIABLES
    has_syscall,  \* bit 11 of CPUID 8000_0001 EDX
    cpc           \* cpu_init(): "off", "over" or "panic"

cpuVars == <<has_syscall, cpc>>

startVars == <<bootVars, cpuVars, acpiVars, scanVars, pciVars>>

StartInit ==
    BootInit /\ AcpiInit /\ ScanInit /\ PciInit /\ has_syscall \in BOOLEAN /\ cpc = "off"

\* cpu_init(): without SYSCALL the kernel stops; all else it asks the processor
\* for, it only prints.
cpu_init ==
    /\ bpc = "kernel" /\ cpc = "off"
    /\ cpc' = IF has_syscall THEN "over" ELSE "panic"
    /\ UNCHANGED <<bootVars, has_syscall, acpiVars, scanVars, pciVars>>

\* kernel_main(): cpu_init(), acpi_init(), mm_init(), pci_scan().
InOrder(component) ==
    CASE component = "acpi" -> cpc = "over"
      [] component = "scan" -> apc = "over"
      [] component = "pci" -> spc = "over"

Load == LoaderStep /\ UNCHANGED <<cpuVars, acpiVars, scanVars, pciVars>>
ReadAcpi == InOrder("acpi") /\ AcpiStep /\ UNCHANGED <<bootVars, cpuVars, scanVars, pciVars>>
ScanMemory == InOrder("scan") /\ ScanStep /\ UNCHANGED <<bootVars, cpuVars, acpiVars, pciVars>>
ScanPci == InOrder("pci") /\ PciStep /\ UNCHANGED <<bootVars, cpuVars, acpiVars, scanVars>>

\* The machine has stopped, or the kernel goes on with what the other modules
\* describe.
StartOver ==
    (bpc = "halt" \/ "panic" \in {cpc, apc} \/ ppc = "end") /\ UNCHANGED startVars

StartNext ==
    \/ Load \/ cpu_init \/ ReadAcpi \/ ScanMemory \/ ScanPci \/ StartOver
    \/ FirmwareMoves /\ UNCHANGED <<cpuVars, acpiVars, scanVars, pciVars>>

\* The processor runs; the firmware promises nothing.
StartSpec ==
    StartInit /\ [][StartNext]_startVars
      /\ WF_startVars(Load) /\ WF_startVars(cpu_init \/ ReadAcpi \/ ScanMemory \/ ScanPci)

-----------------------------------------------------------------------------

\* Startup ends.  The loader jumps or halts, if 8 bits count the program headers;
\* then, whatever the firmware's tables hold, also when the walk over the MADT is
\* out of step, the kernel gets through its scans or panics.
StartupEnds == LoaderEnds /\ (bpc = "kernel" ~> (ppc = "end" \/ "panic" \in {cpc, apc}))
=============================================================================
