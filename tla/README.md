# A TLA+ model of March-OS

March-OS is a small x86-64 kernel with a UEFI loader: one processor, one process
(`init`) that spawns one more, a FAT16 file system on an IDE disk. This directory
holds TLA+ modules that model its core, TLC configurations that check them on
small instances, and TLAPS proofs that hold for every instance. `PROJECT.json`
maps every definition to the lines it models and lists components, runs, hazards,
findings and theorems.

## 1. Inventory

| Component | State | Operations | Talks to |
|---|---|---|---|
| Physical pages `mm/pm.c`, `arch/x86/pm.c` | three LIFO free lists threaded through the free blocks | `pm_init`, `pmalloc` (splits recursively), `pmfree` | heap, page tables, TSS stack |
| Kernel heap `mm/slab.c` | per class a list of slabs with bitmaps | `slab_init`, `kmalloc`, `kmfree` (both call themselves) | page allocator; every other component allocates here |
| Address spaces `arch/x86/vm.c`, `#PF` in `arch/x86/trap.c` | one PML4, slot 2 switched between processes; the TLB | `vm_init`, `walk_pgdir`, `switch_uvm`, `free_uvm`, page fault | page allocator, processes |
| Processes `arch/x86/proc.c`, `syscall/spawn.c`, `syscall/call.c` | process list, `curproc`, process states | `palloc`, `pfree`, `uinit`, `sys_spawn`; `switch_proc` has no caller | heap, address spaces, file system |
| FAT16 `fs/fat16/*`, `fs/vfs.c` | partition layout; the disk is never written | `fat16_init`, `fat16_namei`, `fat16_find_cluster`, `fat16_readi` | IDE driver, heap, inodes |
| Inodes `fs/inode.c`, `list.c` | list of reference-counted inodes | `ialloc`, `ifree` | heap |
| Interrupts `arch/x86/{trap,apic,idt}.c`, `vectors.S` | tick counter, APIC registers, IDT, TSS | `trap`, `apic_init`, `apic_eoi`, `idt_init` | keyboard, timer, page faults |
| Keyboard `drivers/kbd.c` | one shift flag | `kbdgetc` | interrupts |
| System call entry `arch/x86/sys.S`, `syscall.c`, `swtch.S` | MSRs, kernel stack | `_syscall`, `_sysret`, `context_switch` | processes |
| IDE driver `arch/x86/ide.c` | none of its own; the drive's registers | `ide_read_seq`, polling with a retry limit | FAT16 |
| ACPI `acpi.c` | addresses of the APICs | `acpi_init`: walk over the MADT | interrupts |
| PCI `pci.c` | list of devices | `pci_scan` | heap |
| Loader `boot/*` | boot information | find and load the kernel, leave the firmware | UEFI |
| Serial output `serial.c`, `arch/x86/serial.c` | the UART's transmitter | `_kprintf`, `printn`, `serial_putchar` (polls) | every component prints, handlers too |
| `kernel.c`, `cpu.c`, `entry.S`, `devfs`, `string.c` | little or none | initialisation, byte copying | all |

What is hard here. Nothing runs in parallel, but: page faults nest in the
kernel's own copies; the two allocators call themselves and each other; an
address space is replaced under a running kernel while the TLB remembers the old
one; a failing spawn must undo a half-built address space; reads cross cluster
boundaries at every alignment; drivers poll hardware with a retry limit or with
none; and interrupts stay enabled in the kernel, whose handlers print into the line the
kernel is printing. The only test in the repository
(`slab_tests`) makes ten fixed sequences of heap calls.

What makes each part correct:

* pages: no block belongs to two owners, none is lost, `panic` only at exhaustion;
* heap: a bit is set exactly when its slot is in use; objects, slab records and
  free pages never overlap; no legal call panics; a drained heap is as new;
* address spaces: every frame has one owner, user and kernel halves never mix,
  the caller's space comes back after a spawn, the new image is in the new space;
* file system: a path leads to the entry it names, a read delivers those bytes
  and writes nowhere else, buffers and inodes are given back;
* interrupts: every interrupt that can be delivered is handled and acknowledged,
  the shift state follows the keys;
* drivers: a slow or failing device leads to the documented panic and never to
  wrong data; a table walk stays inside its table;
* output: what is printed arrives once and in order, a handler's line in one piece,
  and a slow or missing UART stops nothing.

## 2. Modules

**PageAlloc** is the abstract allocator: a set of free addresses and a set of
owned blocks. **PhysMem** is `mm/pm.c` with the loops of `pm_init()`: the lists
are sequences (`pmmap`), one action per call, and the recursion of `pmalloc()` is
the function `Refill`. `held` is not in the code: it records what callers own
and so states their half of the contract, that a block is freed once, with the
size it was taken with. `PhysMem!ImplementsPageAlloc` is the refinement.
**PhysMemProofs** holds the proofs; **SlabProofs**, **UserVMProofs**, **InterruptsProofs**, **DiskProofs**,
**StartupProofs** and **Fat16Proofs** do the same for the modules below (section 5).

**Slab** extends PhysMem with `mm/slab.c`. A call is one action, since no
interrupt handler allocates; inside, the heap is a value `[m, h, s, out]` that the
operators transform in the order of the code, so the nested `kmalloc(sizeof(SLAB))`
and the nested `kmfree(entry)` act on what the outer call has already changed.
`self` is the address of a slab's record, which lies in the heap itself; this is
what makes growth and release interesting. **SlabTests** runs the script of
`slab_tests()` on these actions with the real page and class sizes and makes the
checks the code makes after each loop: the model passes all nine, which ties it to
the only expectations the authors wrote down.

**UserVM** is `vm.c`, `proc.c`, the page fault case of `trap.c` and `sys_spawn()`.
Tables are frames with two entries (512 in the code) and the walk has all four
levels. The TLB is external hardware: it may keep a translation until CR3 is
loaded and may drop one at any time. `sys_spawn()` is a sequence of steps, so that
faults, evictions and failures come between any two. A program header is a
choice: skipped, bad, or a set of pages to be written. The heap objects `palloc()`
takes are not repeated here, only its PDPT. A PML4 slot other than 2 belongs to the tree
all processes share: `OwnedOnce` counts the user addresses from 1.5T on there. `mem.twice`
is not in the code: it collects the frames `free_uvm()` hands to `pmfree()` although they
are free, or from two places. After the teardown of a failed spawn slot 2 still names the
freed PDPT; the panic in `pfree()` comes before anything walks it, which is why the
conjunct about slot 2 is for a running kernel. A `p_vaddr` that is not canonical faults with
another exception: it is in Interrupts.

**Fat16** is path resolution, the inode list and `fat16_readi()` over a disk given
as constants. A byte is `<<cluster, position>>`, so a read shows where each byte
came from and where it went. Names are tuples of parts compared as the code
compares strings: blanks end them. Names have at most 11 characters (the code cuts
longer ones) and every middle name of a path is an entry whose cluster `Dir`
describes. The buffer of `fat16_find_cluster()` is taken in `NameiRead` and given back in
`NameiStep`, that of `fat16_readi()` in `ReadBegin` and `ReadEnd`. Offsets and sizes are any
64-bit values: a size that makes `offset + size` wrap passes the check and reaches the copy
of line 30, which delivers the memory behind the buffer or traps (`Overruns`, `ReadTrap`). The word at address 0, which `ialloc()` reads through the list head's
NULL node, is the constant `LowWord`.

**Disk** is the IDE driver under `fat16_init()` and the reads of directory, clusters
and table. Each poll of the drive's status is a step, so the drive becomes ready,
delivers or fails between any two; `ide_wait_ready` and `ide_wait_data` also contain
what follows a successful poll (the registers, the words of a sector). A sector's
content is its number. Numbers keep their real widths: 16-bit layout fields, an
8-bit sector count, 28 bits of address. Where the partition's sector number is cut, the sector
read instead may be rejected or taken for a BPB (`fat16_init`).

**Interrupts** is `trap()` with its entry and `iretq`, the calls of `kernel_main()`
in their order, the keyboard driver and the entry of a system call. The state is
`IF`, the stack of trap frames, the requests and in-service vectors of the local
APIC, and the keyboard controller with its one-byte buffer. The keyboard handler is
two steps, since the controller may refill its buffer before the EOI. `apic_init()` panics
without an APIC (`NoApic`), masks the legacy controller, starts the timer, writes an EOI and then polls for its
INIT IPI without a limit; the second part of the call begins when the IPI is delivered
(`IpiDelivered`), so interrupts may come in between. Until it is masked the legacy
controller interrupts on vectors `trap()` does not know (`DeliverLegacy`). Exceptions other than the
page fault, from ring 3 or from `sys_spawn()` writing to a `p_vaddr` that is not canonical, are one vector
(`OtherException`); `pmalloc()` may panic wherever it is reached (`OutOfMemory`). A trap without an IDT
stops the processor.

**Startup** composes the components that run once before anything else:
**Loader** (the UEFI loader, against a firmware whose calls fail and whose memory map
moves; `cpu_init()`, which may panic, follows it), **Acpi** (the walk over the MADT, by the code's structure sizes, over entries
that carry their own lengths, in as many tables as its 8-bit count leaves), **FwScan** (the walk of `pm_init()` over the firmware's
page table) and **Pci** (`pci_scan()`). Each chooses its input when it begins and gives
it up when it returns, as the code does not look at the tables again; what remains
is what the kernel keeps. Once the walk over the MADT is out of step it may see any type.

**Serial** is `_kprintf()` over the polled driver. A script of calls stands for what the
kernel prints; the text of each call is computed by the conversions of the code, one
step tests the transmitter and the next writes, and the timer, the keyboard and a page
fault on a user string print from their handlers between any two. The UART sends
at its own pace, holds 16 characters, and may be faulty or absent: an absent one reads as ready, a
faulty one need never send what it has. A run of literal
text counts as one character.

The modules meet at these points: FwScan computes what PhysMem takes as `AllocatableMax`; Slab contains PhysMem; UserVM takes frames by the
contract PageAlloc states; Fat16's `Byte` takes for granted what Disk shows
(`DataExact`, `RightPlace`), a page fault in Interrupts stands for the one UserVM
spells out. MC modules give the constants that a cfg file cannot express.

## 3. Runs

| Run | Shows |
|---|---|
| `phys_mem` | the allocator's invariants and the refinement of PageAlloc |
| `slab` | heap invariants through growth, release, recursion and exhaustion |
| `slab_page_leak` (violation) | `slab_tests()` passes its checks and has lost two pages: those of drained slabs above 64 bytes |
| `user_vm` | one owner per frame, halves apart, current process restored, `sys_spawn()` ends |
| `user_vm_tlb` (violation) | a stale translation sends the new image to init's page |
| `user_vm_bad_file` (violation) | a rejected file stops the kernel in `pfree()` |
| `fat16` | aligned reads are exact, lookups stay in the directory, nothing is kept |
| `fat16_read` (violation) | a fragmented file is read from the wrong clusters |
| `disk` | what a read returns is complete, from the right place and inside its buffer; the drive is drained; every read ends |
| `interrupts` | timer, keyboard and page faults never stop the kernel, no trap nests, each interrupt is acknowledged once and served; keys are read in order |
| `startup` | the kernel is loaded whole, the loader halts only with a cause, tables and buses are read exactly, startup ends |
| `serial` | no character is lost or reordered, handlers' lines stay whole, numbers are right, printing ends unless the chip is faulty |

Bounds, and why they are enough:

* `phys_mem`: blocks of 2, 4 and 8 addresses, split in two, and memory with one
  block of each size above the kernel and a rest nothing fits in. Every list
  empties and refills through both levels of recursion; TLAPS removes the bounds.
* `slab`: four classes in place of 14, 1 to 8 units, pages of 4 and 8 units
  in place of 4 and 512 KiB; so a page has 4, 2, 1 (small pages) or 1 slots. Six live objects
  fill and grow the first class twice over and leave room for the records of the
  others; the request of 9 is above the largest class.
* `user_vm`: 18 frames; the two address spaces, the slot above 1.5T and the
  kernel table need more, so every allocation also fails somewhere. Three user
  pages cover same table, other PD, other slot. Two program headers.
* `fat16`: clusters of two bytes and reads of at most eight at offsets of at most
  eight cover first, middle, last and empty last cluster at both alignments. The sum wraps around at
  64 in place of 2^64 and cluster counts at 8 in place of 2^16; offsets 48, 62 and 63 and sizes 22 and 63
  make the sum wrap by the offset, by the size and by both, to either side of the file's end.
* `slab_page_leak`: no bound; the script is fixed, on 72 MiB of memory.
* `disk`: three polls in place of 10000, since only "before the last" and "too
  late" differ; disks as mkfs makes them, with root directories of 256 and 257
  sectors (the edge of the count register), with layouts and clusters that need 17
  bits, with a partition beyond sector 65535, and two that the mount rejects.
* `interrupts`: two shift keys and one with a character, four key events, two
  timer periods, at any time from the first call of `kernel_main()`. Four events
  hold both shift keys and release one; two periods let a tick wait behind another.
  `IF` is unknown at the start: the code does not clear it.
* `startup`: up to two volumes of every kind; kernels that are complete, cut short,
  not ELF, or with as many headers as the loop variable has values (4 for 256); up to five tables where the
  count holds values below four (`TableCounts`, 256 in the code); two
  changes of the memory map; MADTs of up to three entries, NMI source and unknown
  type among them, and two MADTs; two levels of page tables with two pages each;
  all that two slots on different buses may hold.
* `serial`: a FIFO of 16 as in the chip; the lines of a spawn whose path runs into a page
  that is not there, and those of `acpi_init()` with a format that is unknown; a line of
  the timer every 5 ticks (100) and 10 ticks, so that one number has two digits; one key.
  Each message is shorter than the FIFO, all together are longer.

Fairness. `user_vm`, `disk`, `interrupts`, `startup` and `serial` assume weak fairness of the
kernel's own steps (`Kernel`, `Cpu`; the loader's too in `startup`). The code justifies it: one processor, no
scheduler, and interrupts return to where they were. `interrupts` also assumes strong fairness
of `Deliver`: the processor accepts a request if `IF` is set again and again, though it may
be cleared between. Nothing is assumed of the IPI that `apic_init()` polls for (`apic.c:144`), so `EveryInterruptServed`
leaves out a kernel that waits for it. `UserVM!KernelFair` is weak fairness with ENABLED written out, which
TLC checks much faster. `serial` also assumes that a UART that works goes on sending; of a faulty one nothing is assumed, since
`serial_putchar()` (`arch/x86/serial.c:32`) polls without a limit and may wait for ever, and `PrintEnds` leaves it out. Ring 3, the TLB, the drive, the firmware, the keys and the choice of system calls
are not fair.

Deadlock is checked in every run. A panicked or spinning kernel has a step that
changes nothing (`Halted`, `Stopped`, `VMStopped`, `FatStopped`, `DiskStopped`, `Spin`, `PollAgain`, `StartOver`,
`TestOver`), as `panic()` and `syscall()`
spin.

## 4. Disagreements found

The four violation runs and the findings in `PROJECT.json` describe them with the
quoted lines. More were met and given no run of their own:

* `fs/fat16/common.c:57-62` against `fs/fat16/name.c:10` "FAT16 filename (8.3
  format)": blanks become end of string, so `KERNEL.BIN` is found as `KERNEL`,
  `LONGNAME.TXT` as `LONGNAMETXT`, and neither under its name.
* `arch/x86/trap.c:16` against `note/mm.txt:54` "Virtual Memory (non-exist, not
  mapped)": a fault above 1.5T is served like any other, in a PML4 slot shared by
  all processes.
* `fs/fat16/name.c:44-45` "If it's a directory, update dinode and continue": the
  code does not look at the attribute, so a file in the middle of a path is
  searched as a directory.
* `arch/x86/apic.c:122,135` give the APIC vectors for spurious and error
  interrupts; `arch/x86/trap.c:36` calls them unknown and stops.
* An interrupt of the legacy controller, which `apic_init()` masks only at `apic.c:120`, stops the kernel if the
  firmware leaves `IF` set: before `idt_init()` there is no IDT, after it `trap()` does not know the vector.
* `syscall/spawn.c:45` accepts every `p_vaddr` above user space's start; one that is not canonical raises an
  exception that `trap()` does not know, and the kernel stops.
* `fs/fat16/read.c:37-42` writes from the second cluster on at multiples of the cluster size although the
  first copy was `cluster_offset_remain` bytes shorter: a read that begins inside a cluster and continues in
  the next leaves a gap and ends past `dst + size`; `sys_spawn()` reads segments at any `p_offset`. `ReadExact` is
  violated by it too, but the trace TLC shows is the shorter one of a fragmented file.
* `fs/fat16/read.c:14` adds two 64-bit numbers without a check for wrap-around, and `sys_spawn()` passes
  `p_filesz` as it is: with offset 1 and size 2^64-1 the sum is 0, and line 30 copies `size` bytes.
  `AlignedReadExact` says nothing of sizes no file can have.
* `fs/inode.c:27` removes an inode with two holders (2 is not "> 2"); no call sequence leads to a second one.
* `acpi.c:21` cuts the number of tables to 8 bits; with 256 or more a MADT may be overlooked (`MadtExact` is for
  fewer).
* `mm/slab.c:118` checks the absolute address, not the offset in the page: when
  allocatable memory ends on a 4 KiB boundary (`arch/x86/pm.c:45`), 512 KiB blocks are
  not aligned to the sector size and `kmfree()` panics on an object of `kmalloc()`.
  With `AllocatableMax = 52` and `KernelEnd = 16` in `MCSlab.cfg` TLC finds it.
* `include/acpi.h:110-116`: the structure of an NMI source has 10 bytes, the entry 8
  (ACPI 5.2.12); after one the walk is out of step (`MadtExact` excludes it).
* `boot/main.c:22`: an 8-bit variable against the 16-bit `e_phnum`; 256 headers loop
  for ever (`StartupEnds` excludes them).
* A key pressed before IRQ 1 is unmasked fills the controller's buffer without an
  edge; nothing reads it, and no later key raises one (`KbdFills`; `KbdByteThere` shows
  that it is the only way to a silent keyboard).
* `fs/fat16/init.c:27-54` cuts sector numbers and the cluster size to 16 bits
  without a check; `RightPlace` holds only for layouts that fit.
* `ide_wait_data()` trusts DRQ while BSY is set; a drive whose DRQ is undefined then
  (`DrqWhenBusy = TRUE`) violates `DataExact`.
* `mm/slab.c:252-253` expects `bitmap:0b0` in the 64-byte class, the check at 260 `0b1`;
  the code does the latter (the record of the added slab).
* `acpi.c:106` prints with `%llx`, which `_kprintf()` does not know: "Unknown format l" and
  the rest of the line is dropped.
* `arch/x86/cpu.c:20-27` keeps 32-bit words of the processor's name in 64-bit elements, so
  the string ends after four characters.
* `kernel.c:13` declares `serial_init()` without a result, `arch/x86/serial.c:18-21` returns 1
  for a faulty chip and leaves it in loopback mode: all output is lost, and if its transmitter never gets
  empty the poll of `arch/x86/serial.c:32` hangs the kernel.
* `fs/fat16/common.c:63-64` reads `dir[i]` after `kmfree(dir)`; harmless as long as `kmfree()`
  writes into no page above the 64-byte class.
* `arch/x86/sys.S` pops `r13`-`r15` in another order than it pushes them; the path is never
  taken.

## 5. Proofs

Eight modules hold proofs, each about the module whose name it begins with; every theorem
is about the specification the runs check. `TypeCorrect` (`HeapTypeCorrect`) proves the
type invariant of the module.

**PhysMemProofs**, from `PMAssumption` (positive block sizes, each `SplitN` times the one
before, a kernel that does not begin at 0, allocatable memory inside memory):
`BlocksDisjoint`, `MemoryConserved`, `PanicMeansExhausted` and `Refinement`, that the lists
implement PageAlloc. None of the invariants is inductive alone: disjointness after a split
needs that the pieces stay inside the block that was split, and that the block was apart
from the rest, on lists whose order carries no information. So `IInv` forgets the order.
`Listed(m)` is the set of blocks on the lists, `NoRepeats` says no list holds one twice, and
`Tiles(U, lo)` says of free and held blocks together that they are inside
`lo .. AllocatableMax`, pairwise apart, and cover it. `pmfree` and the pop of `pmalloc` move
a block between the two sets (`PushListed`, `PopListed`), `pm_init` adds a tile at the bottom
(`TilesBoot`), a split replaces one by `SplitN` equal ones (`TilesSplit`). For the refinement
the same tiles give the free addresses: `pm_init` is `Donate`, `pmalloc` is `Allocate` of one
whole block whatever it had to split, `pmfree` is `Release`.

**SlabProofs**, on top of that invariant, from `SlabAssumption` and `LayoutAssumption` (what
its powers of two come to: a page is cut into whole slots, at most 64; TLC evaluates both):
`BitmapsExact`, `HeapIsDisjoint`, `DrainsCompletely`, `GrowsOnlyWhenFull` and, where
allocatable memory ends on a 512 KiB boundary (`Even`), `FreeingIsSafe`; without that
hypothesis it is false (section 4). The linked slabs are a set of pairs `<<class, slab>>`.
`Accounted(L, lv)` says that the marked slots are exactly the objects handed out, `lv`, and
the slabs' own records, and that no object is both; `Selfs` says that no record serves two
slabs and that a slab which is not static holds something else. Between the two activations
of a nested call the record belongs to no linked slab: there it counts as handed out, so each
activation can be proved by itself (`KmfreeOnceGood`, `Malloc64Good`) and the second
of `kmfree()` can be shown to be the last. After a panic inside a call `lv` may be larger
than `live`. `Even` gives alignment of every page (`Aligned`), which the address check of
`kmfree()` needs.

**UserVMProofs**, from `VMAssumption`, for any number of frames and any addresses:
`FramesOwnedOnce`, `HalvesSeparate`, `CurrentProcessRestored`. Reachability in three steps is
not inductive, because `walk_pgdir()` works on one table at a time. `VMInv` gives each frame a level, the
one place that refers to it and a half of the address space (`Owned`, `Sound`); it says that such
an assignment exists, and each operation shows the next one. The one place also gives that `free_uvm()` frees
nothing twice (`FreedOnce`). `Slot2` ties the PML4's user slot
to the current process and to the steps of `sys_spawn()`.

**InterruptsProofs**, from `IntAssumption`, for any keys and any number of events:
`ReadyForInterrupts`, `TrapsDoNotNest`, `EoiExact`, `KbdByteForEveryInterrupt`,
`KeysTypedFaithfully`. `Core` says that a frame exists only with IF clear (`FrameSound`), that
a source is enabled only after the call that enables it (`BootSound`), and that the byte in the
controller stands for one request, in the APIC or in the one frame that has not read it
(`KbdSound`); the legacy controller is live only before `apic_init()`. `Text` says that the shift flag is the shift state of the keys read so far.

**DiskProofs**, from `ImagesAssumption` (fields of a boot sector have their widths):
`ReadsInPlace`; with `DrqWhenBusy = FALSE` `ReadsExact`, and with non-empty clusters and root
directory (`WellFormed`) `DriveDrained`. The invariant `Transfer`: while the drive has something to
send, what it has and what the driver has stored add up to the command, and the sector
on the port is the next of the buffer.

**StartupProofs**, for any volumes, kernel files and tables. From `LoaderAssumption`:
`LoaderHaltsForCause`, `KernelLoaded`. `LoaderInv` says that the volumes passed over have no
kernel, that the segments of the headers counted are in memory and the following ones do not
disturb them, and that the map key is current unless the map has moved since. From
`FwAssumption` (large pages are aligned and addresses ascend, as in UEFI's identity map):
`MemoryEndsAtReadOnly`; the hits have a first one, because every non-empty set of
naturals has a least (`LeastNatural`), and no page of another hit is below it
(`FirstIsLowest`). From `AcpiAssumption` (types of the fields): `MadtReadExactly`, whose last part, the address found, is for
fewer tables than the 8-bit count has values.
`AcpiInv` says that the walk stands where some entry begins and has taken the
last I/O APIC before it; that `StartOf`, a recursive function, exists and ascends is shown by
the least length for which it would not. From `PciAssumption` (addresses inside the buses):
`DevicesListedOnce`. `PciInv` counts: the list holds the promised functions of the slots
scanned and is as long as they are many; `RankBijective` shows that the enumeration
of a slot's functions in ascending order leaves none out.

**Fat16Proofs**, from `FatAssumption` (16-bit cluster numbers, 64-bit offsets and sizes), for any disk, cluster size and request: `ReadsExact`,
`InodesAndBuffersReturned`. The first is its own invariant, together with `ReadSound`: at loop
variable `i` the bytes of the clusters before `i` are in the buffer and nothing else is. The rest is about
the widths, that neither the cluster count nor the end of a read wraps for a read inside the file, and that a wrapped
end of a read whose size a file can have lies before its first cluster.
`PathsResolve`, from `PathsAssumption` (types of a path) too, says that `fat16_namei()` finds what it
looks for in the directory the path leads to, at any depth. Its hypothesis is `PlainNames`: no directory has an
extension, and none shows the same characters as another file of its directory. It is needed: the comparison
loses the extension after a short base name, so a file `BIN.TXT` listed before the directory `BIN` would be
entered in its place. TLC evaluates that the disk of run `fat16` is such a disk. `PathInv` says that the search
stands where every way through directories stands after as many names.

**SerialProofs**, from `SerialAssumption` (the FIFO holds two characters or more, the scripts have
the types of calls): `OutputIsExact`, `LinesStayWhole`. The hard part of the invariant `SerialInv` is `Room`, which
says how full the FIFO may be: at most two characters wait; one at most when the kernel has seen the transmitter empty and
not yet written, which is the last of a handler that has printed since then; and none when a handler has seen it. `Nesting`
says that at most one handler prints and that its line, of literals and a number, cannot fault;
`StillOpen` that the characters of a handler that still prints are the end of what was printed,
from which its line stays whole. The text of a call is `FlattenSeq` of its parts and a number
the recursive function `printn`; that both are what they should be for every length is shown by the least
length for which they would not be, so that `Decimal` of the digits is the number (`Stamped`).

Only model-checked: liveness (`SpawnEnds`, `ReadEnds`, `EveryInterruptServed`, `StartupEnds`,
`PrintEnds`), which is outside the prover's reach (fairness and ENABLED). Every invariant of a
passing run is the conclusion of a theorem.

## 6. Not modelled

PhysMem takes the result of the firmware page table scan as a constant, any
address inside memory. Directory entries of 1 GiB are not among FwScan's tables, and
ACPI is assumed to be there (`search_xsdp()` returns 0 otherwise and nobody looks). The 2 MiB user page (`vm.c:66`) and `switch_proc()` have no
caller. Contents of memory are left out except for the bytes of a read; flag bits of page
table entries are reduced to present and the half they lie in. The kernel stack's size
is not modelled: it depends on compiled frames. Key codes with an E0 prefix, the task priority
register and descriptor encodings are left out of Interrupts; a root directory of fewer than 16
entries (a read of no sectors) is not among the disks. The names of PCI classes
(`pci_parse_class()`, 700 lines), `pci_dump()` and `fs/fat16/dump.c` only print; `boot/efi.h`,
`x86/desc.h` and `x86/cpuid.h` only declare layouts and bit numbers; `string.c` is the equality
and assignment of the modules that use it; `devfs` has no state and no caller.

## 7. Plan

In this order:

1. A composition of Slab with `palloc()` and `pfree()`, which UserVM reduces to frames,
   and of Disk with Fat16's reads.
2. The values of ELF headers in `sys_spawn()`, which UserVM takes as choices.

Done so far: PhysMem, Slab with `slab_tests()`, UserVM, Fat16 with wrap-around, Disk, Interrupts,
Startup with `cpu_init()`, Serial, and the proofs of section 5.
