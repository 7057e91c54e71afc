------------------------------- MODULE UserVM -------------------------------
(***************************************************************************)
(* Address spaces and processes: arch/x86/vm.c, arch/x86/proc.c, the page  *)
(* fault case of arch/x86/trap.c, and syscall/spawn.c, which drives them.  *)
(*                                                                         *)
(* There is one PML4.  Slots 0 and 1 are the kernel's, slot 2 (1T .. 1.5T) *)
(* is switched between processes, the others are shared by all.  An        *)
(* address is <<PML4, PDPT, PD, PT index>>; a table is a frame whose words *)
(* are in `tab'; an entry is 0 (absent), a frame, or Direct, the identity  *)
(* mapping of kernel addresses (a 2 MiB page in a PD, a 4 KiB one in a     *)
(* PT).  Frames are interchangeable, so pmalloc() may as well return the   *)
(* least free one; PhysMem shows it is nobody else's.                      *)
(*                                                                         *)
(* The TLB is hardware: it may keep any translation that was used until    *)
(* CR3 is loaded, and may drop one at any time.                            *)
(*                                                                         *)
(* Process 1 is init, process 2 the one sys_spawn() makes; syscall() never *)
(* returns to ring 3, so there is no third.                                *)
(***************************************************************************)
EXTENDS Integers, FiniteSets

CONSTANTS
    NFrames,    \* physical page frames: 1 .. NFrames
    VAddrs,     \* the addresses user code and program headers name
    MaxPhnum    \* bound: program headers of a spawned file

Index == 0 .. 1     \* scaled: 512 entries in a table
L4 == 0 .. 3
UserSlot == 2       \* PML4_IDX(USER_ADDR_START)
Direct == -1
Frames == 1 .. NFrames
Pids == 1 .. 2

Start == <<UserSlot, 0, 0, 0>>   \* USER_ADDR_START

ASSUME VMAssumption ==
    /\ NFrames \in Nat /\ NFrames >= 3 /\ MaxPhnum \in Nat
    /\ VAddrs \subseteq L4 \X Index \X Index \X Index
    /\ Start \in VAddrs

VARIABLES
    mem,      \* [free, twice, tab, pgdir, out]: free frames, frames given to pmfree()
              \* once too often, tables, PML4, "ok" or a panic
    procs,    \* pid |-> [stat, upml4]
    tlb,      \* address |-> cached frame, 0 if none
    mode,     \* where the kernel is
    left,     \* program headers sys_spawn() has still to read
    seg,      \* pages of the current segment still to be read
    loaded    \* <<address, frame>> of the pages the new image was read into

vmVars == <<mem, procs, tlb, mode, left, seg, loaded>>

curproc == 1

IsUser(va) == va[1] >= UserSlot

Least(S) == CHOOSE x \in S : \A y \in S : x <= y

Zeroed == [i \in Index |-> 0]

-----------------------------------------------------------------------------
(* The page table walk.                                                    *)

\* pmalloc(PM_4K), which clears the frame; the frame is Least(m.free).
Alloc(m) ==
    IF m.free = {} THEN [m EXCEPT !.out = "pmalloc: out of memory"]
    ELSE [m EXCEPT !.free = @ \ {Least(m.free)}, !.tab[Least(m.free)] = Zeroed]

\* Make entry i of table t present: with a new frame, unless it is.
Ensure(m, t, i) ==
    IF m.out # "ok" \/ m.tab[t][i] # 0 THEN m
    ELSE LET n == Alloc(m)
         IN IF n.out # "ok" THEN n ELSE [n EXCEPT !.tab[t][i] = Least(m.free)]

EnsureRoot(m, i) ==
    IF m.pgdir[i] # 0 THEN m
    ELSE LET n == Alloc(m)
         IN IF n.out # "ok" THEN n ELSE [n EXCEPT !.pgdir[i] = Least(m.free)]

\* Mutated form: a kernel address gets a fresh frame as well.
LeafAlways(m, t, i, va) == Ensure(m, t, i)

\* The last level: a frame for user space, the identity mapping for the kernel.
Leaf(m, t, i, va) ==
    IF IsUser(va) THEN Ensure(m, t, i)
    ELSE IF m.out # "ok" \/ m.tab[t][i] # 0 THEN m ELSE [m EXCEPT !.tab[t][i] = Direct]

\* walk_pgdir(va, TRUE, FALSE).
walk_pgdir(m, va) ==
    LET m4 == EnsureRoot(m, va[1])
        pdpt == m4.pgdir[va[1]]
        m3 == Ensure(m4, pdpt, va[2])
        pd == m3.tab[pdpt][va[2]]
        m2 == Ensure(m3, pd, va[3])
        pt == m2.tab[pd][va[3]]
    IN IF m4.out # "ok" THEN m4
       ELSE IF m3.out # "ok" THEN m3
       ELSE IF m2.out # "ok" \/ pt = Direct THEN m2
       ELSE Leaf(m2, pt, va[4], va)

\* What the processor's own walk finds: walk_pgdir(va, FALSE, FALSE).
Lookup(m, va) ==
    LET pdpt == m.pgdir[va[1]]
        pd == m.tab[pdpt][va[2]]
        pt == m.tab[pd][va[3]]
    IN IF pdpt = 0 THEN 0
       ELSE IF pd = 0 THEN 0
       ELSE IF pt \in {0, Direct} THEN pt
       ELSE m.tab[pt][va[4]]

\* An access, with the page fault trap() serves if it faults: the memory after
\* it and the frame it goes to.
Fault(m, va) == IF Lookup(m, va) # 0 THEN m ELSE walk_pgdir(m, va)

Accessed(m, va) == IF tlb[va] # 0 THEN m ELSE Fault(m, va)

FrameOf(m, va) == IF tlb[va] # 0 THEN tlb[va] ELSE Lookup(Fault(m, va), va)

-----------------------------------------------------------------------------
(* Processes.                                                              *)

\* palloc(): a new PDPT for slot 2.
palloc(p) ==
    IF mem.free = {} THEN <<[mem EXCEPT !.out = "pmalloc: out of memory"], procs>>
    ELSE <<Alloc(mem), [procs EXCEPT ![p] = [stat |-> "SET", upml4 |-> Least(mem.free)]]>>

\* switch_uvm(): one entry of the PML4 is written and CR3 is not reloaded.
switch_uvm(m, root) == [m EXCEPT !.pgdir[UserSlot] = root]

Entries(m, T) == {m.tab[t][i] : t \in T, i \in Index} \ {0, Direct}

\* Mutated form: the page tables are kept.
ReachLeaky(m, root) ==
    LET pds == Entries(m, {root})
        pts == Entries(m, pds)
    IN {root} \cup pds \cup Entries(m, pts)

\* The frames free_uvm() gives back: pages, PTs, PDs and the PDPT.
Reach(m, root) ==
    LET pds == Entries(m, {root})
        pts == Entries(m, pds)
    IN {root} \cup pds \cup pts \cup Entries(m, pts)

\* The calls of pmfree() that free_uvm() makes, as the place (table and index) it
\* reads each frame from; the PDPT is the process's own.
Given(m, p) ==
    LET root == procs[p].upml4
        pds == Entries(m, {root})
        pts == Entries(m, pds)
    IN {<<-1, p, root>>}
         \cup {x \in {<<t, i, m.tab[t][i]>> : t \in {root} \cup pds \cup pts, i \in Index} :
                 x[3] \notin {0, Direct}}

\* The frames among them that were free already, or are given back from two places.
GivenTwice(m, p) ==
    {x[3] : x \in {y \in Given(m, p) :
        y[3] \in m.free \/ \E z \in Given(m, p) : z # y /\ z[3] = y[3]}}

\* free_uvm() clears upml4; pfree() then hands that 0 to pmfree(), which panics.
free_uvm(m, p) ==
    [m EXCEPT !.free = @ \cup Reach(m, procs[p].upml4), !.twice = @ \cup GivenTwice(m, p)]

pfree(p) ==
    /\ mem' = [free_uvm(mem, p) EXCEPT !.out = "pmfree: invalid address"]
    /\ procs' = [procs EXCEPT ![p].upml4 = 0]

-----------------------------------------------------------------------------
(* The kernel's steps.                                                     *)

VMInit ==
    /\ mem = [free |-> Frames, twice |-> {}, tab |-> [f \in Frames |-> Zeroed],
              pgdir |-> [i \in L4 |-> 0], out |-> "ok"]
    /\ procs = [p \in Pids |-> [stat |-> "UNUSED", upml4 |-> 0]]
    /\ tlb = [va \in VAddrs |-> 0]
    /\ mode = "vm_init"
    /\ left = 0 /\ seg = {} /\ loaded = {}

Running == mem.out = "ok"

\* vm_init(): frame 1 becomes the PML4, 2 a PDPT, 3 a PD filled with 2 MiB
\* pages; scr3() empties the TLB.  The first PDPT entry stands for 0 .. 4G.
vm_init ==
    /\ Running /\ mode = "vm_init"
    /\ mem' = [mem EXCEPT !.free = @ \ {1, 2, 3}, !.pgdir[0] = 2, !.tab[2][0] = 3,
                          !.tab[3] = [i \in Index |-> Direct]]
    /\ mode' = "uinit"
    /\ UNCHANGED <<procs, tlb, left, seg, loaded>>

\* uinit(): init's address space, its code copied to USER_ADDR_START (through a
\* page fault), and on to ring 3.
uinit ==
    /\ Running /\ mode = "uinit"
    /\ LET a == palloc(1)
           m == IF a[1].out # "ok" THEN a[1] ELSE switch_uvm(a[1], a[2][1].upml4)
           n == IF m.out # "ok" THEN m ELSE Accessed(m, Start)
       IN /\ mem' = n
          /\ procs' = [a[2] EXCEPT ![1].stat = "RUN"]
          /\ tlb' = IF n.out # "ok" THEN tlb ELSE [tlb EXCEPT ![Start] = FrameOf(m, Start)]
    /\ mode' = "user"
    /\ UNCHANGED <<left, seg, loaded>>

\* Ring 3 touches an address.  A kernel address is mapped for the supervisor
\* only: it faults again after trap() has mapped it, and never gets a TLB entry.
UserTouch(va) ==
    /\ Running /\ mode = "user"
    /\ mem' = Accessed(mem, va)
    /\ tlb' = IF IsUser(va) /\ mem'.out = "ok"
              THEN [tlb EXCEPT ![va] = FrameOf(mem, va)] ELSE tlb
    /\ UNCHANGED <<procs, mode, left, seg, loaded>>

\* The TLB drops a translation.
Evict(va) ==
    /\ Running /\ tlb[va] # 0
    /\ tlb' = [tlb EXCEPT ![va] = 0]
    /\ UNCHANGED <<mem, procs, mode, left, seg, loaded>>

\* syscall() with another number, or a path that vfs_namei() does not find.
SyscallOther ==
    /\ Running /\ mode = "user"
    /\ mode' = "spin"
    /\ UNCHANGED <<mem, procs, tlb, left, seg, loaded>>

\* sys_spawn() up to switch_uvm(new_proc).
SpawnBegin ==
    /\ Running /\ mode = "user"
    /\ LET a == palloc(2)
       IN /\ mem' = IF a[1].out # "ok" THEN a[1] ELSE switch_uvm(a[1], a[2][2].upml4)
          /\ procs' = a[2]
    /\ mode' = "ehdr"
    /\ UNCHANGED <<tlb, left, seg, loaded>>

\* The ELF header is read (to the kernel stack) and names the number of
\* program headers.
SpawnEhdr(n) ==
    /\ Running /\ mode = "ehdr"
    /\ left' = n /\ mode' = "phdr"
    /\ UNCHANGED <<mem, procs, tlb, seg, loaded>>

\* Mutated form: the next header is the same one.
KeepHeader == left

NextHeader == left - 1

\* Mutated form: i <= e_phnum.
SpawnSkipPast ==
    /\ Running /\ mode = "phdr"
    /\ left' = NextHeader
    /\ UNCHANGED <<mem, procs, tlb, mode, seg, loaded>>

\* A program header of another type than PT_LOAD.
SpawnSkip ==
    /\ Running /\ mode = "phdr" /\ left > 0
    /\ left' = NextHeader
    /\ UNCHANGED <<mem, procs, tlb, mode, seg, loaded>>

\* A loadable segment: vfs_read() writes its pages at p_vaddr.
SpawnSegment(S) ==
    /\ Running /\ mode = "phdr" /\ left > 0
    /\ left' = NextHeader /\ seg' = S /\ mode' = "load"
    /\ UNCHANGED <<mem, procs, tlb, loaded>>

SpawnLoad(va) ==
    /\ Running /\ mode = "load"
    /\ mem' = Accessed(mem, va)
    /\ tlb' = IF mem'.out = "ok" THEN [tlb EXCEPT ![va] = FrameOf(mem, va)] ELSE tlb
    /\ loaded' = IF mem'.out = "ok" THEN loaded \cup {<<va, FrameOf(mem, va)>>} ELSE loaded
    /\ seg' = seg \ {va}
    /\ UNCHANGED <<procs, mode, left>>

SpawnLoaded ==
    /\ Running /\ mode = "load" /\ seg = {}
    /\ mode' = "phdr"
    /\ UNCHANGED <<mem, procs, tlb, left, seg, loaded>>

\* goto bad: a header or a segment that vfs_read() rejects before it copies
\* anything, p_filesz > p_memsz, or p_vaddr below user space.
SpawnBad ==
    /\ Running
    /\ mode = "ehdr" \/ (mode = "phdr" /\ left > 0)
    /\ pfree(2)
    /\ UNCHANGED <<tlb, mode, left, seg, loaded>>

\* Mutated form: the current process is not restored.
SpawnOutAway ==
    /\ Running /\ mode = "phdr" /\ left = 0
    /\ mode' = "spin"
    /\ UNCHANGED <<mem, procs, tlb, left, seg, loaded>>

\* out: restore the current process; syscall() then spins.
SpawnOut ==
    /\ Running /\ mode = "phdr" /\ left = 0
    /\ mem' = switch_uvm(mem, procs[curproc].upml4)
    /\ mode' = "spin"
    /\ UNCHANGED <<procs, tlb, left, seg, loaded>>

\* The kernel has panicked, or spins at the end of syscall().
VMStopped == (~Running \/ mode = "spin") /\ UNCHANGED vmVars

Kernel ==
    \/ SpawnSkip \/ SpawnLoaded \/ SpawnOut
    \/ \E n \in 0 .. MaxPhnum : SpawnEhdr(n)
    \/ SpawnBad \/ vm_init \/ uinit
    \/ \E S \in SUBSET {va \in VAddrs : IsUser(va)} : SpawnSegment(S)
    \/ \E va \in seg : SpawnLoad(va)

VMNext ==
    \/ Kernel
    \/ \E va \in VAddrs : UserTouch(va) \/ Evict(va)
    \/ SyscallOther \/ SpawnBegin \/ VMStopped

KernelTurn == Running /\ mode \in {"vm_init", "uinit", "ehdr", "phdr", "load"}

KernelMoves == KernelTurn /\ <<mem, mode, left, seg>>' # <<mem, mode, left, seg>>

\* One processor runs the kernel; the timer interrupts it but returns to where it
\* was (trap.c never switches processes), so it keeps stepping.  This is
\* WF_vmVars(Kernel) with ENABLED written out: the kernel has a step exactly in
\* KernelTurn, and its steps are those that change more than the TLB.
KernelFair == []<>~KernelTurn \/ []<><<KernelMoves>>_vmVars

VMSpec == VMInit /\ [][VMNext]_vmVars /\ KernelFair

-----------------------------------------------------------------------------
(* Properties.                                                             *)

Entry == Frames \cup {0, Direct}

\* Type invariant.
VMTypeOK ==
    /\ mem \in [free : SUBSET Frames, twice : SUBSET Frames, tab : [Frames -> [Index -> Entry]],
                pgdir : [L4 -> Frames \cup {0}],
                out : {"ok", "pmalloc: out of memory", "pmfree: invalid address"}]
    /\ procs \in [Pids -> [stat : {"UNUSED", "SET", "RUN"}, upml4 : Frames \cup {0}]]
    /\ tlb \in [VAddrs -> Entry]
    /\ mode \in {"vm_init", "uinit", "user", "ehdr", "phdr", "load", "spin"}
    /\ left \in 0 .. MaxPhnum /\ seg \subseteq VAddrs
    /\ loaded \subseteq VAddrs \X Entry

\* Where a frame can be referred to from: a shared slot of the PML4, a process,
\* an entry of a table in use.  (The first component tells the three apart.)
SharedRoots == {mem.pgdir[i] : i \in L4 \ {UserSlot}} \ {0}
ProcRoots == {procs[p].upml4 : p \in Pids} \ {0}
Tables ==
    LET r == SharedRoots \cup ProcRoots
        pds == Entries(mem, r)
    IN r \cup pds \cup Entries(mem, pds)
Refs ==
    {<<0, i, mem.pgdir[i]>> : i \in L4 \ {UserSlot}}
      \cup {<<-1, p, procs[p].upml4>> : p \in Pids}
      \cup {<<t, i, mem.tab[t][i]>> : t \in Tables, i \in Index}

\* Every frame has one owner: it is free, or exactly one place refers to it: a
\* shared slot of the PML4, a process's PDPT, or an entry of a table below them.
\* So what is mapped in slot 2 (1T .. 1.5T) belongs to one process, and what the
\* other slots map, user addresses from 1.5T on included, to the one tree that all
\* processes share; no frame is lost and none that is free is in any of these
\* trees.  free_uvm() hands no frame to pmfree() twice.  Slot 2 is empty or a
\* process's while the kernel runs: sys_spawn()'s way out of a bad file leaves the
\* tree it has freed in slot 2, but the panic in pfree() comes before it is used.
OwnedOnce ==
    mode # "vm_init" =>
      /\ \A r, s \in Refs : r[3] = s[3] /\ r[3] \in Frames => r = s
      /\ {r[3] : r \in Refs} \cap Frames = Frames \ (mem.free \cup {1})
      /\ mem.twice = {}
      /\ Running => mem.pgdir[UserSlot] \in ProcRoots \cup {0}

\* The kernel's half maps kernel addresses to themselves and never to a frame
\* that was allocated; the user's half never maps the kernel's memory.
HalvesApart ==
    \A va \in L4 \X Index \X Index \X Index :
        Running => IF IsUser(va) THEN Lookup(mem, va) # Direct
                   ELSE Lookup(mem, va) \in {0, Direct}

\* Ring 3, and everything after a system call, runs in the address space of the
\* current process: sys_spawn() puts it back on every path that returns.
CurprocRestored ==
    Running /\ mode \in {"user", "spin"} => mem.pgdir[UserSlot] = procs[curproc].upml4

\* sys_spawn() comes to an end, by returning or by a panic.
SpawnEnds == mode = "ehdr" ~> (mode = "spin" \/ ~Running)

\* "Switch User Space by PML4[2]": the image sys_spawn() reads is written to
\* pages of the new process.
ImageInNewProcess ==
    \A x \in loaded : IsUser(x[1]) /\ x[1][1] = UserSlot
                        => x[2] \in Reach(mem, procs[2].upml4)

\* sys_spawn() gives up a bad file by freeing the new process and restoring the
\* current one: the page allocator's checks do not stop the kernel.
BadFileIsSurvived == mem.out # "pmfree: invalid address"
=============================================================================
