----------------------------- MODULE Interrupts -----------------------------
(***************************************************************************)
(* Interrupts: the calls of kernel_main() that prepare them (kernel.c,     *)
(* arch/x86/idt.c, apic.c, syscall.c), trap() with its entry and return    *)
(* (arch/x86/trap.c, vectors.S), the keyboard driver (drivers/kbd.c) and   *)
(* the entry of a system call (arch/x86/sys.S).                            *)
(*                                                                         *)
(* Hardware, seen through the registers the code writes: a local APIC with *)
(* its requested (irr) and in-service (isr) vectors, its timer, and a      *)
(* keyboard controller whose one-byte buffer raises an edge when it fills. *)
(* An edge that meets a masked I/O APIC pin is lost.  Whether the firmware *)
(* leaves interrupts enabled is not known; the legacy interrupt controller *)
(* it has used is live until apic_init() masks it.                         *)
(***************************************************************************)
EXTENDS Integers, Sequences, FiniteSets

CONSTANTS
    ShiftKeys,   \* the keys of scan codes 0x2A and 0x36
    CharKeys,    \* the keys with a character
    MaxEvents,   \* bound: keys pressed and released
    MaxPeriods   \* bound: periods of the timer

ASSUME IntAssumption ==
    ShiftKeys \cap CharKeys = {} /\ MaxEvents \in Nat /\ MaxPeriods \in Nat

Keys == ShiftKeys \cup CharKeys

GP == 13        \* stands for every exception but the page fault
PF == 14        \* X86_EX_PF
Timer == 32     \* T_IRQ0 + IRQ_TIMER
Kbd == 33       \* T_IRQ0 + IRQ_KBD
ApicError == 51 \* T_IRQ0 + IRQ_ERROR
Spurious == 63  \* T_IRQ0 + IRQ_SPURIOUS
Legacy == 104   \* stands for the firmware's vectors of the legacy controller

VARIABLES
    todo,     \* calls kernel_main() has still to make
    mode,     \* "boot", ring 3 "user", "entry" to and body of "syscall"
    intr,     \* RFLAGS.IF
    frames,   \* trap frames, innermost last: [vec, ifl, stack, stage]
    apic,     \* [irr, isr, pic, timer, kbd, ipi]: requests, in service, sources
              \* enabled, INIT IPI not yet delivered
    board,    \* keyboard: [down, queue, full]; full is <<>> or <<code>>
    flags,    \* KBD_FLAG_SHIFT
    taken,    \* scan codes read, in order
    typed,    \* characters printed: [key, shift]
    periods,  \* timer periods over
    ticks,
    mapped,   \* the page of USER_ADDR_START is present
    stop      \* why the kernel stopped

intVars == <<todo, mode, intr, frames, apic, board, flags, taken, typed, periods,
             ticks, mapped, stop>>
devices == <<apic, board, periods>>
driver == <<flags, taken, typed, ticks>>

Running == stop = "none"

\* Mutated form: the APIC before the IDT.
ApicFirst ==
    <<"acpi_init", "mm_init", "apic_init", "ioapic_init", "idt_init", "syscall_init", "uinit">>

\* The order of kernel_main(), with apic_init() cut at the wait for the IPI: an
\* interrupt may come there.
BootOrder ==
    <<"acpi_init", "mm_init", "idt_init", "apic_init", "ioapic_init", "syscall_init", "uinit">>

IntInit ==
    /\ todo = BootOrder /\ mode = "boot" /\ intr \in BOOLEAN /\ frames = <<>>
    /\ apic = [irr |-> {}, isr |-> {}, pic |-> TRUE, timer |-> FALSE, kbd |-> FALSE,
               ipi |-> FALSE]
    /\ board = [down |-> {}, queue |-> <<>>, full |-> <<>>]
    /\ flags = FALSE /\ taken = <<>> /\ typed = <<>> /\ periods = 0 /\ ticks = 0
    /\ mapped = FALSE /\ stop = "none"

Pending(call) == \E k \in 1 .. Len(todo) : todo[k] = call

-----------------------------------------------------------------------------
(* The devices.                                                            *)

\* A period of the timer ends.
TimerFires ==
    /\ Running /\ apic.timer /\ periods < MaxPeriods
    /\ periods' = periods + 1
    /\ apic' = [apic EXCEPT !.irr = @ \cup {Timer}]
    /\ UNCHANGED <<todo, mode, intr, frames, board, driver, mapped, stop>>

Events == Len(taken) + Len(board.full) + Len(board.queue)

\* A key is pressed, or released.
KeyMoves(k) ==
    /\ Running /\ Events < MaxEvents
    /\ board' = [board EXCEPT
                   !.down = IF k \in @ THEN @ \ {k} ELSE @ \cup {k},
                   !.queue = Append(@, [key |-> k, make |-> k \notin board.down])]
    /\ UNCHANGED <<todo, mode, intr, frames, apic, driver, periods, mapped, stop>>

\* The controller fills its buffer and raises IRQ 1.
KbdFills ==
    /\ Running /\ board.queue # <<>> /\ board.full = <<>>
    /\ board' = [board EXCEPT !.full = <<Head(board.queue)>>, !.queue = Tail(@)]
    /\ apic' = IF apic.kbd THEN [apic EXCEPT !.irr = @ \cup {Kbd}] ELSE apic
    /\ UNCHANGED <<todo, mode, intr, frames, driver, periods, mapped, stop>>

\* The local APIC has sent the INIT IPI: its delivery status is idle.
IpiDelivered ==
    /\ Running /\ apic.ipi
    /\ apic' = [apic EXCEPT !.ipi = FALSE]
    /\ UNCHANGED <<todo, mode, intr, frames, board, driver, periods, mapped, stop>>

Highest(S) == CHOOSE v \in S : \A w \in S : w <= v

\* The vector the local APIC offers: the highest requested, if its priority
\* class is above the one in service.
Offered ==
    {v \in apic.irr : v = Highest(apic.irr)
                        /\ \A w \in apic.isr : v \div 16 > w \div 16}

\* A write to the EOI register.
apic_eoi == [apic EXCEPT !.isr = IF @ = {} THEN {} ELSE @ \ {Highest(@)}]

-----------------------------------------------------------------------------
(* Entry to and return from the kernel.                                    *)

\* The stack a trap is pushed on: rsp0 of the TSS from ring 3, the current one
\* from ring 0, which is still the user's until sys.S has switched.
Stack ==
    IF frames # <<>> THEN frames[Len(frames)].stack
    ELSE IF mode = "user" THEN "rsp0"
    ELSE IF mode = "entry" THEN "user"
    ELSE IF mode = "syscall" THEN "kstack" ELSE "boot"

\* Mutated form: trap gates.
GateIntrTrap == intr

\* idt_init() makes interrupt gates: IF is cleared on the way in.
GateIntr == FALSE

\* A trap is taken.  Without the kernel's IDT the processor shuts down.
Enter(vec) ==
    /\ frames' = Append(frames, [vec |-> vec, ifl |-> intr, stack |-> Stack, stage |-> "entry"])
    /\ intr' = GateIntr
    /\ stop' = IF Pending("idt_init") THEN "no IDT" ELSE stop

\* The processor accepts an interrupt of the local APIC.
Deliver ==
    /\ Running /\ intr
    /\ \E v \in Offered :
         /\ Enter(v)
         /\ apic' = [apic EXCEPT !.irr = @ \ {v}, !.isr = @ \cup {v}]
    /\ UNCHANGED <<todo, mode, board, driver, periods, mapped>>

\* The local APIC reports an error, or withdraws a request the processor has
\* already seen (which puts nothing in service).
DeliverError(v) ==
    /\ Running /\ intr /\ apic.timer
    /\ Enter(v)
    /\ apic' = [apic EXCEPT !.isr = IF v = ApicError THEN @ \cup {v} ELSE @]
    /\ UNCHANGED <<todo, mode, board, driver, periods, mapped>>

\* The legacy controller interrupts.  Before idt_init() the firmware's handler
\* may still be there and return (no step), or its memory is gone.
DeliverLegacy ==
    /\ Running /\ intr /\ apic.pic
    /\ Enter(Legacy)
    /\ UNCHANGED <<todo, mode, devices, driver, mapped>>

\* A page fault: of ring 3, of a copy to user memory in sys_spawn(), of uinit()
\* copying init's code.
PageFault ==
    /\ Running /\ frames = <<>>
    /\ \/ mode \in {"user", "syscall"}
       \/ mode = "boot" /\ todo = <<"uinit">> /\ ~mapped
    /\ Enter(PF)
    /\ UNCHANGED <<todo, mode, devices, driver, mapped>>

\* Any other exception: of ring 3, or of sys_spawn() reading a segment to an
\* address of the file that is not canonical.
OtherException ==
    /\ Running /\ frames = <<>> /\ mode \in {"user", "syscall"}
    /\ Enter(GP)
    /\ UNCHANGED <<todo, mode, devices, driver, mapped>>

Top == frames[Len(frames)]

InHandler(vec, stage) ==
    Running /\ frames # <<>> /\ Top.vec = vec /\ Top.stage = stage

Goto(stage) == frames' = [frames EXCEPT ![Len(frames)].stage = stage]

\* Mutated form: IF stays cleared.
IretMasked ==
    /\ Running /\ frames # <<>> /\ Top.stage = "return"
    /\ frames' = SubSeq(frames, 1, Len(frames) - 1) /\ UNCHANGED intr
    /\ UNCHANGED <<todo, mode, devices, driver, mapped, stop>>

\* trapret: iretq restores RFLAGS.
Iret ==
    /\ Running /\ frames # <<>> /\ Top.stage = "return"
    /\ frames' = SubSeq(frames, 1, Len(frames) - 1) /\ intr' = Top.ifl
    /\ UNCHANGED <<todo, mode, devices, driver, mapped, stop>>

-----------------------------------------------------------------------------
(* trap().                                                                 *)

TrapPF ==
    /\ InHandler(PF, "entry")
    /\ Goto("return") /\ mapped' = TRUE
    /\ UNCHANGED <<todo, mode, intr, devices, driver, stop>>

\* Mutated form: a tick too many.
TickTwice == ticks + 2

Tick == ticks + 1

\* Ticks are printed after the EOI, with interrupts still off.
TrapTimer ==
    /\ InHandler(Timer, "entry")
    /\ ticks' = Tick /\ apic' = apic_eoi /\ Goto("return")
    /\ UNCHANGED <<todo, mode, intr, board, periods, flags, taken, typed, mapped, stop>>

\* Mutated form: releasing a shift key is ignored.
ShiftSticks(c) == flags \/ c.key \in ShiftKeys

ShiftAfter(c) == IF c.key \in ShiftKeys THEN c.make ELSE flags

\* kbdgetc() returns a character for a key of its maps that is pressed.
HasChar(c) == c.make /\ c.key \in CharKeys

\* One byte is read, which empties the controller's buffer (KbdByteThere: it is
\* never empty here), and the character, if there is one, is printed.
TrapKbd ==
    /\ InHandler(Kbd, "entry") /\ board.full # <<>>
    /\ LET c == board.full[1]
       IN /\ flags' = ShiftAfter(c) /\ taken' = Append(taken, c)
          /\ typed' = IF HasChar(c)
                      THEN Append(typed, [key |-> c.key, shift |-> flags]) ELSE typed
    /\ board' = [board EXCEPT !.full = <<>>]
    /\ Goto("eoi")
    /\ UNCHANGED <<todo, mode, intr, apic, periods, ticks, mapped, stop>>

\* Mutated form: no EOI.
KbdAckNone == apic

KbdAck == apic_eoi

\* Mutated form: the data port is read once more.
TrapKbdEoiReads ==
    /\ InHandler(Kbd, "eoi")
    /\ apic' = KbdAck /\ Goto("return") /\ board' = [board EXCEPT !.full = <<>>]
    /\ UNCHANGED <<todo, mode, intr, driver, periods, mapped, stop>>

TrapKbdEoi ==
    /\ InHandler(Kbd, "eoi")
    /\ apic' = KbdAck /\ Goto("return")
    /\ UNCHANGED <<todo, mode, intr, board, driver, periods, mapped, stop>>

\* The default case: the frame is dumped and the kernel stops.
TrapUnknown ==
    /\ Running /\ frames # <<>> /\ Top.vec \notin {PF, Timer, Kbd}
    /\ stop' = "unknown interrupt"
    /\ UNCHANGED <<todo, mode, intr, frames, devices, driver, mapped>>

-----------------------------------------------------------------------------
(* kernel_main() and a system call.                                        *)

\* idt_init() takes a page for the stack of the TSS.
idt_init == IF Pending("mm_init") THEN "no allocator" ELSE stop

\* apic_init() up to the wait for the IPI: the legacy controller is masked, the
\* timer runs, whatever was in service is acknowledged, the IPI is on its way.
apic_init == [apic_eoi EXCEPT !.pic = FALSE, !.timer = TRUE, !.ipi = TRUE]

\* The pin of IRQ 1 is unmasked, at the address acpi_init() has found.
ioapic_init == IF Pending("acpi_init") THEN apic ELSE [apic EXCEPT !.kbd = TRUE]

\* A call of kernel_main() other than the last; the rest of apic_init() waits
\* for the IPI, without a limit.
BootCall ==
    /\ Running /\ mode = "boot" /\ frames = <<>> /\ Len(todo) > 1
    /\ Head(todo) = "ioapic_init" => ~apic.ipi
    /\ todo' = Tail(todo)
    /\ stop' = IF Head(todo) = "idt_init" THEN idt_init ELSE stop
    /\ apic' = CASE Head(todo) = "apic_init" -> apic_init
                 [] Head(todo) = "ioapic_init" -> ioapic_init
                 [] OTHER -> apic
    /\ UNCHANGED <<mode, intr, frames, board, driver, periods, mapped>>

\* check_apic() fails: the processor has no APIC.
NoApic ==
    /\ Running /\ mode = "boot" /\ frames = <<>> /\ todo # <<>> /\ Head(todo) = "apic_init"
    /\ stop' = "apic: not supported"
    /\ UNCHANGED <<todo, mode, intr, frames, devices, driver, mapped>>

\* pmalloc() panics: in walk_pgdir() for a page fault, in the calls of
\* kernel_main() that allocate (pci_scan() and vfs_init() with syscall_init()),
\* in a system call.
OutOfMemory ==
    /\ \/ InHandler(PF, "entry")
       \/ /\ Running /\ mode = "boot" /\ frames = <<>> /\ todo # <<>>
          /\ Head(todo) \in {"mm_init", "idt_init", "syscall_init", "uinit"}
       \/ Running /\ mode = "syscall" /\ frames = <<>>
    /\ stop' = "out of memory"
    /\ UNCHANGED <<todo, mode, intr, frames, devices, driver, mapped>>

\* palloc() puts RFLAGS_IF where context_switch() and sysretq find the flags.
SysretIntr == TRUE

\* uinit(): the code is copied and sysretq enables interrupts in ring 3; the
\* sti() after it is never reached.
uinit ==
    /\ Running /\ mode = "boot" /\ frames = <<>> /\ todo = <<"uinit">> /\ mapped
    /\ todo' = <<>> /\ mode' = "user" /\ intr' = SysretIntr
    /\ UNCHANGED <<frames, devices, driver, mapped, stop>>

\* The instruction: SFMASK is 0, so IF stays, and rsp is the user's.
Syscall ==
    /\ Running /\ mode = "user" /\ frames = <<>>
    /\ mode' = "entry"
    /\ UNCHANGED <<todo, intr, frames, devices, driver, mapped, stop>>

\* sys.S loads rsp from IA32_SYSENTER_ESP; syscall() never returns.
_syscall ==
    /\ Running /\ mode = "entry" /\ frames = <<>>
    /\ mode' = "syscall"
    /\ UNCHANGED <<todo, intr, frames, devices, driver, mapped, stop>>

Cpu == TrapPF \/ TrapTimer \/ TrapKbd \/ TrapKbdEoi \/ TrapUnknown \/ Iret
         \/ BootCall \/ NoApic \/ uinit \/ _syscall \/ (mode = "boot" /\ PageFault)

\* The end of syscall(), and of panic(), is an endless loop.
Spin == (~Running \/ mode = "syscall") /\ UNCHANGED intVars

IntNext ==
    \/ TimerFires \/ KbdFills \/ IpiDelivered \/ \E k \in Keys : KeyMoves(k)
    \/ \E v \in {ApicError, Spurious} : DeliverError(v)
    \/ Deliver \/ DeliverLegacy \/ PageFault \/ OtherException \/ OutOfMemory
    \/ Syscall \/ Cpu \/ Spin

\* The processor runs, and a request is accepted when interrupts are enabled
\* again and again.
IntSpec == IntInit /\ [][IntNext]_intVars /\ WF_intVars(Cpu) /\ SF_intVars(Deliver)

-----------------------------------------------------------------------------
(* Properties.                                                             *)

Code == [key : Keys, make : BOOLEAN]

\* Type invariant.
IntTypeOK ==
    /\ mode \in {"boot", "user", "entry", "syscall"} /\ intr \in BOOLEAN
    /\ \A k \in 1 .. Len(frames) :
         frames[k] \in [vec : {GP, PF, Timer, Kbd, ApicError, Spurious, Legacy}, ifl : BOOLEAN,
                        stack : {"boot", "rsp0", "user", "kstack"},
                        stage : {"entry", "eoi", "return"}]
    /\ apic \in [irr : SUBSET {Timer, Kbd}, isr : SUBSET {Timer, Kbd, ApicError},
                 pic : BOOLEAN, timer : BOOLEAN, kbd : BOOLEAN, ipi : BOOLEAN]
    /\ board.down \subseteq Keys /\ board.queue \in Seq(Code) /\ board.full \in Seq(Code)
    /\ flags \in BOOLEAN /\ taken \in Seq(Code)
    /\ typed \in Seq([key : CharKeys, shift : BOOLEAN])
    /\ periods \in 0 .. MaxPeriods /\ ticks \in 0 .. periods
    /\ mapped \in BOOLEAN

\* kernel_main() prepares for every interrupt before it lets it come: the timer,
\* the keyboard and page faults never stop the kernel, whatever the firmware left
\* in IF.  What stops it is a processor without an APIC, the end of memory, an
\* exception or APIC vector that trap() does not know, or an interrupt of the
\* legacy controller before apic_init() has masked it.
StopsForCause ==
    stop # "none" =>
      \/ stop \in {"apic: not supported", "out of memory"}
      \/ stop = "unknown interrupt" /\ Top.vec \in {GP, ApicError, Spurious}
      \/ Top.vec = Legacy /\ Pending("apic_init")

\* At most one trap frame exists, so one rsp0 stack serves all processes and a
\* system call needs room for one frame on its stack.
NoNesting == Len(frames) <= 1

\* A vector is in service exactly while its handler has not acknowledged it: no
\* return leaves a vector that would block the later ones.
InServiceExact ==
    apic.isr = {frames[k].vec : k \in {j \in 1 .. Len(frames) :
                    frames[j].vec \in {Timer, Kbd, ApicError} /\ frames[j].stage \in {"entry", "eoi"}}}

\* The keyboard interrupt always finds a byte to read.  And once a byte has been
\* read none waits without its interrupt: the keyboard is silent only if it has
\* been so from the start, by a key pressed before its pin was unmasked.
KbdByteThere ==
    LET called == Kbd \in apic.irr \/ InHandler(Kbd, "entry")
    IN (called => board.full # <<>>) /\ (board.full # <<>> /\ taken # <<>> => called)

\* The shift keys held down after the first n codes read.
ShiftsHeld(n) ==
    {k \in ShiftKeys : \E i \in 1 .. n :
        /\ taken[i] = [key |-> k, make |-> TRUE]
        /\ \A j \in i + 1 .. n : taken[j].key # k}

CharCodes == {i \in 1 .. Len(taken) : taken[i].make /\ taken[i].key \in CharKeys}

\* Each key pressed gives one character, in order, and a shifted one only
\* while a shift key is held.
TypedFaithful ==
    /\ Len(typed) = Cardinality(CharCodes)
    /\ \A i \in CharCodes :
         LET n == Cardinality({j \in CharCodes : j <= i})
         IN typed[n].key = taken[i].key /\ (typed[n].shift => ShiftsHeld(i) # {})

\* Every requested interrupt is accepted and its handler returns, unless the
\* kernel stops or apic_init() waits for ever for its IPI.
EveryInterruptServed ==
    /\ \A v \in {Timer, Kbd} : v \in apic.irr ~> (v \notin apic.irr \/ ~Running \/ apic.ipi)
    /\ frames # <<>> ~> (frames = <<>> \/ ~Running)
=============================================================================
