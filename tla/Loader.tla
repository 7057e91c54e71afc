------------------------------- MODULE Loader -------------------------------
(***************************************************************************)
(* The UEFI loader: boot/main.c, boot/efi.c and assert() of boot/common.c. *)
(* The firmware is external.  Any of its calls may fail; it may change its *)
(* memory map at any moment until ExitBootServices(), which refuses a map  *)
(* key that is out of date.  A read beyond the end of a file is short.     *)
(* Memory holds offsets into the kernel's file, "zero" or "old" contents.  *)
(***************************************************************************)
EXTENDS Integers, Sequences

CONSTANTS
    VolumeLists,  \* what LocateHandleBuffer() may find: sequences of [proto, opens, has]
    Kernels,      \* kernel files: [magic, phdrs, len]
    Ram,          \* addresses the segments of these files lie in
    Uint8Size,    \* values of the loop variable over headers: 256 in the code
    MaxMoves      \* bound: changes of the memory map

Volumes == [proto : BOOLEAN, opens : BOOLEAN, has : BOOLEAN]
Headers == [load : BOOLEAN, offset : Nat, paddr : Nat, filesz : Nat, memsz : Nat]

\* What the linker promises of the kernel: its segments lie in memory that is there,
\* apart from one another, and occupy at least what the file holds of them.
ASSUME LoaderAssumption ==
    /\ Uint8Size \in Nat \ {0} /\ MaxMoves \in Nat /\ Ram \subseteq Nat
    /\ \A l \in VolumeLists : l \in Seq(Volumes)
    /\ \A k \in Kernels :
         /\ k.phdrs \in Seq(Headers) /\ k.len \in Nat
         /\ \A i \in 1 .. Len(k.phdrs) : k.phdrs[i].load =>
              /\ k.phdrs[i].filesz <= k.phdrs[i].memsz
              /\ \A n \in 0 .. k.phdrs[i].memsz - 1 : k.phdrs[i].paddr + n \in Ram
              /\ \A j \in 1 .. Len(k.phdrs) : k.phdrs[j].load /\ i # j =>
                   \/ k.phdrs[i].paddr + k.phdrs[i].memsz <= k.phdrs[j].paddr
                   \/ k.phdrs[j].paddr + k.phdrs[j].memsz <= k.phdrs[i].paddr

VARIABLES
    bpc,      \* where the loader is; "kernel" after the jump, "halt" in assert() or panic()
    volumes,  \* the volumes found
    kernel,   \* kernel.bin on the volume
    vol,      \* loop variable of search_volume_contains_file()
    ph,       \* loop variable of load_kernel()
    mem,      \* contents of Ram
    mapkey,   \* the firmware's current map key
    map_key,  \* the key the loader holds
    moved,    \* the map has changed since it was last fetched
    failed,   \* a call of the firmware has failed
    exited    \* ExitBootServices() has succeeded

bootVars == <<bpc, volumes, kernel, vol, ph, mem, mapkey, map_key, moved, failed, exited>>

BootInit ==
    /\ bpc = "locate" /\ volumes \in VolumeLists /\ kernel \in Kernels /\ vol = 1 /\ ph = 0
    /\ mem = [a \in Ram |-> "old"] /\ mapkey = 0 /\ map_key = 0
    /\ moved = FALSE /\ failed = FALSE /\ exited = FALSE

Booting == bpc \notin {"kernel", "halt"}

\* A call of the firmware whose status assert() looks at: on failure the loader
\* spins.
Asserted(next) ==
    \/ bpc' = next /\ UNCHANGED failed
    \/ bpc' = "halt" /\ failed' = TRUE

FirmwareMoves ==
    /\ Booting /\ ~exited /\ mapkey < MaxMoves
    /\ mapkey' = mapkey + 1 /\ moved' = TRUE
    /\ UNCHANGED <<bpc, volumes, kernel, vol, ph, mem, map_key, failed, exited>>

\* The handles of all volumes are asked for.
LocateHandleBuffer ==
    /\ bpc = "locate" /\ Asserted("volume")
    /\ UNCHANGED <<volumes, kernel, vol, ph, mem, mapkey, map_key, moved, exited>>

SearchedAll == vol > Len(volumes)

\* One round of search_volume_contains_file(): volumes that cannot be opened are
\* passed over.  Without a kernel the loader panics.
search_volume_contains_file ==
    /\ bpc = "volume"
    /\ IF SearchedAll THEN bpc' = "halt" /\ UNCHANGED vol
       ELSE IF volumes[vol].proto /\ volumes[vol].opens /\ volumes[vol].has
       THEN bpc' = "ehdr" /\ UNCHANGED vol
       ELSE vol' = vol + 1 /\ UNCHANGED bpc
    /\ UNCHANGED <<volumes, kernel, ph, mem, mapkey, map_key, moved, failed, exited>>

\* The file is opened and its header read.
ReadEhdr ==
    /\ bpc = "ehdr"
    /\ Asserted(IF kernel.magic THEN "phdr" ELSE "halt")
    /\ UNCHANGED <<volumes, kernel, vol, ph, mem, mapkey, map_key, moved, exited>>

\* The bytes a Read() of n bytes at an offset delivers.
Short(offset, n) ==
    IF offset + n <= kernel.len THEN n ELSE IF offset < kernel.len THEN kernel.len - offset ELSE 0

\* Mutated form: no SetMem().
LoadedNoZero(p) ==
    [a \in Ram |-> IF a - p.paddr \in 0 .. Short(p.offset, p.filesz) - 1
                   THEN p.offset + a - p.paddr ELSE mem[a]]

\* Memory after Read() and SetMem() of a segment: p_filesz is what was read.
Loaded(p) ==
    [a \in Ram |-> IF a - p.paddr \in 0 .. Short(p.offset, p.filesz) - 1
                   THEN p.offset + a - p.paddr
                   ELSE IF a - p.paddr \in Short(p.offset, p.filesz) .. p.memsz - 1
                   THEN "zero" ELSE mem[a]]

MoreHeaders == ph < Len(kernel.phdrs)

\* Mutated form: the loop variable is wide.
NextHeaderWide == ph + 1

NextHeader == (ph + 1) % Uint8Size

\* One round of load_kernel(), or its end.
load_kernel ==
    /\ bpc = "phdr"
    /\ IF MoreHeaders
       THEN /\ Asserted("phdr") /\ ph' = NextHeader
            /\ mem' = IF bpc' = "phdr" /\ kernel.phdrs[ph + 1].load
                      THEN Loaded(kernel.phdrs[ph + 1]) ELSE mem
       ELSE bpc' = "info" /\ UNCHANGED <<ph, mem, failed>>
    /\ UNCHANGED <<volumes, kernel, vol, mapkey, map_key, moved, exited>>

\* get_total_memory_size() and search_xsdp().
BootInformation ==
    /\ bpc = "info" /\ Asserted("map") /\ map_key' = mapkey /\ moved' = FALSE
    /\ UNCHANGED <<volumes, kernel, vol, ph, mem, mapkey, exited>>

\* Mutated form: the key of get_total_memory_size() is used.
MapKeyOld == map_key

MapKeyFresh == mapkey

\* exit_boot_services(): the map is fetched again, then the firmware left.
GetMemoryMap ==
    /\ bpc = "map" /\ Asserted("exit") /\ map_key' = MapKeyFresh /\ moved' = FALSE
    /\ UNCHANGED <<volumes, kernel, vol, ph, mem, mapkey, exited>>

ExitBootServices ==
    /\ bpc = "exit"
    /\ exited' = (map_key = mapkey) /\ bpc' = IF exited' THEN "enter" ELSE "halt"
    /\ UNCHANGED <<volumes, kernel, vol, ph, mem, mapkey, map_key, moved, failed>>

\* The jump: what the loader kept is given up.
EnterKernel ==
    /\ bpc = "enter" /\ bpc' = "kernel"
    /\ volumes' = <<>> /\ vol' = 1 /\ ph' = 0 /\ mem' = [a \in Ram |-> "old"]
    /\ kernel' = [magic |-> TRUE, phdrs |-> <<>>, len |-> 0] /\ mapkey' = 0 /\ map_key' = 0
    /\ moved' = FALSE /\ UNCHANGED <<failed, exited>>

LoaderStep ==
    \/ LocateHandleBuffer \/ search_volume_contains_file \/ ReadEhdr \/ load_kernel \/ BootInformation
    \/ GetMemoryMap \/ ExitBootServices \/ EnterKernel

-----------------------------------------------------------------------------

\* The file holds all of its segments.
WholeKernel ==
    \A s \in 1 .. Len(kernel.phdrs) : kernel.phdrs[s].load =>
        Short(kernel.phdrs[s].offset, kernel.phdrs[s].filesz) = kernel.phdrs[s].filesz

\* When the loader jumps, all of each segment is where its header says, and the
\* rest of its memory is zero.
KernelIntact ==
    bpc = "enter" /\ WholeKernel =>
        \A s \in {kernel.phdrs[k] : k \in {j \in 1 .. Len(kernel.phdrs) : kernel.phdrs[j].load}} :
            \A n \in 0 .. s.memsz - 1 :
                mem[s.paddr + n] = IF n < s.filesz THEN s.offset + n ELSE "zero"

\* The loader gives up only if a call has failed, no volume it could open has the
\* kernel, the kernel has no ELF magic, or the memory map has changed after it was
\* fetched for the last time.
HaltHasCause ==
    bpc = "halt" =>
        \/ failed \/ ~kernel.magic \/ moved
        \/ \A v \in 1 .. Len(volumes) : volumes[v].has => ~volumes[v].proto \/ ~volumes[v].opens

\* The loader ends if the headers can be counted in 8 bits.
LoaderEnds == Len(kernel.phdrs) < Uint8Size ~> ~Booting
=============================================================================
