-------------------------- MODULE InterruptsProofs --------------------------
(***************************************************************************)
(* Proofs about traps and the keyboard for any keys and any number of      *)
(* events and timer periods.                                               *)
(*                                                                         *)
(* Three facts carry the argument.  A trap frame exists only while RFLAGS  *)
(* has IF clear, so that nothing is delivered above it.  A source of       *)
(* interrupts is enabled only after the call of kernel_main() that enables *)
(* it, which comes after idt_init().  And the byte in the keyboard         *)
(* controller stands for one request: in the APIC, or taken by the one     *)
(* frame whose handler has not read it yet.                                *)
(***************************************************************************)
EXTENDS Interrupts, FiniteSetTheorems, SequenceTheorems, TLAPS

Vectors == {GP, PF, Timer, Kbd, ApicError, Spurious, Legacy}

Frame == [vec : Vectors, ifl : BOOLEAN,
          stack : {"boot", "rsp0", "user", "kstack"}, stage : {"entry", "eoi", "return"}]

Calls ==
  {"acpi_init", "mm_init", "idt_init", "apic_init", "ioapic_init", "syscall_init", "uinit"}

ApicType == [irr : SUBSET {Timer, Kbd}, isr : SUBSET {Timer, Kbd, ApicError},
             pic : BOOLEAN, timer : BOOLEAN, kbd : BOOLEAN, ipi : BOOLEAN]

BoardType == [down : SUBSET Keys, queue : Seq(Code), full : Seq(Code)]

Shape ==
  /\ todo \in Seq(Calls) /\ mode \in {"boot", "user", "entry", "syscall"}
  /\ intr \in BOOLEAN /\ frames \in Seq(Frame)
  /\ apic \in ApicType /\ board \in BoardType
  /\ flags \in BOOLEAN /\ taken \in Seq(Code)
  /\ typed \in Seq([key : CharKeys, shift : BOOLEAN])
  /\ periods \in 0 .. MaxPeriods /\ ticks \in Nat /\ mapped \in BOOLEAN

\* The calls still to make are the last ones of BootOrder, and a source is
\* enabled only by its call.
BootSound ==
  /\ Len(todo) <= 7
  /\ \A k \in 1 .. Len(todo) : todo[k] = BootOrder[k + (7 - Len(todo))]
  /\ mode # "boot" => Len(todo) = 0
  /\ apic.timer => Len(todo) <= 3
  /\ apic.kbd => Len(todo) <= 2
  /\ Timer \in apic.irr => apic.timer
  /\ Kbd \in apic.irr => apic.kbd

At(vec, stage) == frames # <<>> /\ frames[1].vec = vec /\ frames[1].stage = stage

\* There is one frame at most, none while interrupts are enabled, and what is in
\* service is what that frame has not acknowledged.
FrameSound ==
  /\ Len(frames) <= 1
  /\ frames # <<>> => ~intr
  /\ \A v \in {Timer, Kbd, ApicError} :
       v \in apic.isr <=> At(v, "entry") \/ At(v, "eoi")

\* The legacy controller is live, and its frame there, only before apic_init();
\* and why the kernel has stopped.
StopSound ==
  /\ apic.pic => Len(todo) >= 4
  /\ frames # <<>> /\ frames[1].vec = Legacy => Len(todo) >= 4
  /\ stop # "none" =>
       \/ /\ stop \in {"apic: not supported", "out of memory"}
          /\ frames = <<>> \/ frames[1].vec = PF
       \/ /\ stop = "unknown interrupt" /\ frames # <<>>
          /\ frames[1].vec \in {GP, ApicError, Spurious}
       \/ frames # <<>> /\ frames[1].vec = Legacy

\* A tick is counted for a period that has ended and has no request and no
\* handler any more.
TicksBehind ==
  ticks + (IF Timer \in apic.irr THEN 1 ELSE 0)
        + (IF At(Timer, "entry") THEN 1 ELSE 0) <= periods

KbdSound ==
  /\ ~(Kbd \in apic.irr /\ At(Kbd, "entry"))
  /\ Kbd \in apic.irr \/ At(Kbd, "entry") => board.full # <<>>
  /\ board.full # <<>> /\ taken # <<>> => Kbd \in apic.irr \/ At(Kbd, "entry")
  /\ taken # <<>> \/ At(Kbd, "entry") => apic.kbd

ShiftSound == flags => ShiftsHeld(Len(taken)) # {}

Core == Shape /\ BootSound /\ FrameSound /\ TicksBehind /\ KbdSound

Text == ShiftSound /\ TypedFaithful

IInv == Core /\ StopSound /\ Text

-----------------------------------------------------------------------------
(* What the parts of a step do.                                            *)

\* Which calls are pending can be told from how many are.
LEMMA PendingFacts ==
  ASSUME Shape, BootSound
  PROVE  /\ Len(todo) \in 0 .. 7
         /\ Pending("idt_init") <=> Len(todo) >= 5
         /\ Pending("apic_init") <=> Len(todo) >= 4
         /\ Pending("mm_init") <=> Len(todo) >= 6
         /\ Pending("acpi_init") <=> Len(todo) = 7
<1> DEFINE n == Len(todo)
<1>1. n \in Nat /\ n <= 7
  <2>1. todo \in Seq(Calls)
    BY DEF Shape
  <2> QED BY <2>1 DEF BootSound
<1>2. \A k \in 1 .. n : todo[k] = BootOrder[k + (7 - n)]
  BY DEF BootSound
<1> HIDE DEF n
<1>3. \A k \in 1 .. n : k + (7 - n) \in 1 .. 7
  BY <1>1
<1>4. \A d \in 1 .. 7 : /\ BootOrder[d] = "idt_init" <=> d = 3
                        /\ BootOrder[d] = "apic_init" <=> d = 4
                        /\ BootOrder[d] = "mm_init" <=> d = 2
                        /\ BootOrder[d] = "acpi_init" <=> d = 1
  <2> SUFFICES ASSUME NEW d \in 1 .. 7
               PROVE  /\ BootOrder[d] = "idt_init" <=> d = 3
                      /\ BootOrder[d] = "apic_init" <=> d = 4
                      /\ BootOrder[d] = "mm_init" <=> d = 2
                      /\ BootOrder[d] = "acpi_init" <=> d = 1
    OBVIOUS
  <2>1. d = 1 \/ d = 2 \/ d = 3 \/ d = 4 \/ d = 5 \/ d = 6 \/ d = 7
    OBVIOUS
  <2> QED BY <2>1 DEF BootOrder
<1>5. ASSUME NEW call, NEW c \in 1 .. 7, \A d \in 1 .. 7 : BootOrder[d] = call <=> d = c
      PROVE  (\E k \in 1 .. n : todo[k] = call) <=> n >= 8 - c
  <2>1. ASSUME NEW k \in 1 .. n, todo[k] = call PROVE n >= 8 - c
    <3>1. k + (7 - n) = c
      BY <1>2, <1>3, <1>5, <2>1
    <3> QED BY <3>1, <1>1
  <2>2. ASSUME n >= 8 - c PROVE \E k \in 1 .. n : todo[k] = call
    <3>1. c - (7 - n) \in 1 .. n /\ (c - (7 - n)) + (7 - n) = c
      BY <1>1, <2>2
    <3>2. todo[c - (7 - n)] = BootOrder[c]
      BY <1>2, <3>1
    <3> QED BY <3>1, <3>2, <1>5
  <2> QED BY <2>1, <2>2
<1>6. Pending("idt_init") <=> n >= 5
  BY <1>4, <1>5 DEF Pending, n
<1>7. Pending("mm_init") <=> n >= 6
  BY <1>4, <1>5, SMTT(40) DEF Pending, n
<1>8. Pending("acpi_init") <=> n = 7
  <2>1. Pending("acpi_init") <=> n >= 7
    BY <1>4, <1>5 DEF Pending, n
  <2>2. n >= 7 <=> n = 7
    BY <1>1
  <2> QED BY <2>1, <2>2
<1>9. n \in 0 .. 7
  BY <1>1
<1>10. Pending("apic_init") <=> n >= 4
  BY <1>4, <1>5, SMTT(40) DEF Pending, n
<1> QED BY <1>6, <1>7, <1>8, <1>9, <1>10, Zenon DEF n

\* With one frame at most, the innermost is the first.
LEMMA TopFirst ==
  ASSUME Shape, FrameSound, frames # <<>>
  PROVE  Len(frames) = 1 /\ Top = frames[1] /\ frames[1] \in Frame
<1>1. frames \in Seq(Frame)
  BY DEF Shape
<1>2. Len(frames) <= 1
  BY DEF FrameSound
<1>3. Len(frames) = 1
  BY <1>1, <1>2, EmptySeq
<1>4. frames[1] \in Frame
  BY <1>1, <1>3
<1> QED BY <1>3, <1>4 DEF Top

\* A trap taken with no frame below it leaves one frame and IF clear.
LEMMA EnterFacts ==
  ASSUME Shape, frames = <<>>, NEW vec \in Vectors, Enter(vec)
  PROVE  /\ frames' \in Seq(Frame) /\ Len(frames') = 1 /\ frames' # <<>>
         /\ frames'[1].vec = vec /\ frames'[1].stage = "entry" /\ intr' = FALSE
         /\ stop' = IF Pending("idt_init") THEN "no IDT" ELSE stop
<1> DEFINE f == [vec |-> vec, ifl |-> intr, stack |-> Stack, stage |-> "entry"]
<1>1. f \in Frame
  BY DEF Shape, Frame, Stack
<1>2. /\ frames' = Append(frames, f) /\ intr' = FALSE
      /\ stop' = IF Pending("idt_init") THEN "no IDT" ELSE stop
  BY Zenon DEF Enter, GateIntr
<1>3. frames' = <<f>>
  <2>1. frames' = Append(frames, f)
    BY <1>2
  <2> HIDE DEF f
  <2> QED BY <2>1, <1>1
<1> HIDE DEF f
<1>4. /\ frames' \in Seq(Frame) /\ Len(frames') = 1 /\ frames' # <<>>
      /\ frames'[1].vec = vec /\ frames'[1].stage = "entry"
  BY <1>1, <1>3 DEF f
<1> QED BY <1>2, <1>4, Zenon

\* A handler that moves on stays in its frame.
LEMMA GotoFacts ==
  ASSUME Shape, FrameSound, frames # <<>>, NEW st \in {"entry", "eoi", "return"}, Goto(st)
  PROVE  /\ frames' \in Seq(Frame) /\ Len(frames') = 1 /\ frames' # <<>>
         /\ frames'[1].vec = frames[1].vec /\ frames'[1].stage = st
<1>1. Len(frames) = 1 /\ frames[1] \in Frame /\ frames \in Seq(Frame)
  BY TopFirst DEF Shape
<1>2. frames' = [frames EXCEPT ![1].stage = st]
  BY <1>1 DEF Goto
<1>3. frames'[1] = [frames[1] EXCEPT !.stage = st] /\ Len(frames') = 1
  BY <1>1, <1>2
<1>4. frames'[1] \in Frame
  BY <1>1, <1>3 DEF Frame
<1> QED BY <1>1, <1>2, <1>3, <1>4 DEF Frame

\* An EOI with one vector in service ends that one.
LEMMA EoiFacts ==
  ASSUME Shape, FrameSound, NEW v \in {Timer, Kbd},
         At(v, "entry") \/ At(v, "eoi")
  PROVE  apic_eoi = [apic EXCEPT !.isr = {}]
<1>1. apic.isr = {v}
  <2>1. apic.isr \subseteq {Timer, Kbd, ApicError}
    BY DEF Shape, ApicType
  <2>2. \A w \in {Timer, Kbd, ApicError} : w \in apic.isr <=> At(w, "entry") \/ At(w, "eoi")
    BY DEF FrameSound
  <2>3. \A w \in {Timer, Kbd, ApicError} : (At(w, "entry") \/ At(w, "eoi")) <=> w = v
    BY DEF At, Timer, Kbd, ApicError
  <2> QED BY <2>1, <2>2, <2>3
<1>2. Highest({v}) = v
  BY DEF Highest, Timer, Kbd
<1>3. (IF apic.isr = {} THEN {} ELSE apic.isr \ {Highest(apic.isr)}) = {}
  BY <1>1, <1>2
<1> QED BY <1>3 DEF apic_eoi

\* What the keyboard has printed depends on the driver's variables alone.
LEMMA TextKept ==
  ASSUME Text, UNCHANGED <<flags, taken, typed>>
  PROVE  Text'
<1>1. CharCodes' = CharCodes /\ \A n : ShiftsHeld(n)' = ShiftsHeld(n)
  BY DEF ShiftsHeld, CharCodes
<1>2. TypedFaithful'
  BY <1>1, Zenon DEF Text, TypedFaithful
<1>3. ShiftSound'
  BY <1>1, Zenon DEF Text, ShiftSound
<1> QED BY <1>2, <1>3 DEF Text

-----------------------------------------------------------------------------
LEMMA InitIInv == IntInit => IInv
<1> SUFFICES ASSUME IntInit PROVE IInv
  OBVIOUS
<1>1. Shape
  <2>1. todo \in Seq(Calls)
    BY DEF IntInit, BootOrder, Calls
  <2>2. apic \in ApicType
    BY DEF IntInit, ApicType
  <2>3. board \in BoardType
    BY DEF IntInit, BoardType
  <2>4. mode \in {"boot", "user", "entry", "syscall"} /\ intr \in BOOLEAN
          /\ flags \in BOOLEAN /\ mapped \in BOOLEAN
    BY DEF IntInit
  <2>5. periods \in 0 .. MaxPeriods /\ ticks \in Nat
    BY IntAssumption DEF IntInit
  <2>6. /\ frames \in Seq(Frame) /\ taken \in Seq(Code)
        /\ typed \in Seq([key : CharKeys, shift : BOOLEAN])
    BY DEF IntInit
  <2> QED BY <2>1, <2>2, <2>3, <2>4, <2>5, <2>6, Zenon DEF Shape
<1>2. BootSound
  BY DEF IntInit, BootSound, BootOrder
<1>3. FrameSound /\ TicksBehind /\ KbdSound
  BY DEF IntInit, FrameSound, TicksBehind, KbdSound, At
<1>6. StopSound
  BY DEF IntInit, StopSound, BootOrder
<1>4. CharCodes = {} /\ Len(typed) = 0
  BY DEF IntInit, CharCodes
<1>5. TypedFaithful
  BY <1>4, FS_EmptySet DEF TypedFaithful
<1> QED BY <1>1, <1>2, <1>3, <1>5, <1>6 DEF IInv, Core, Text, ShiftSound, IntInit

-----------------------------------------------------------------------------
(* The devices.                                                            *)

LEMMA StepTimerFires ==
  ASSUME Core, TimerFires
  PROVE  Core'
<1>1. /\ apic' \in ApicType /\ apic'.irr = apic.irr \cup {Timer} /\ apic'.isr = apic.isr
      /\ apic'.timer = apic.timer /\ apic'.kbd = apic.kbd /\ apic.timer
  <2>1. apic \in ApicType
    BY DEF Core, Shape
  <2>2. apic' = [apic EXCEPT !.irr = @ \cup {Timer}] /\ apic.timer
    BY DEF TimerFires
  <2> QED BY <2>1, <2>2 DEF ApicType
<1>2. periods' = periods + 1 /\ periods' \in 0 .. MaxPeriods /\ periods \in Nat /\ ticks \in Nat
  BY IntAssumption DEF Core, Shape, TimerFires
<1>3. UNCHANGED <<todo, mode, intr, frames, board, flags, taken, typed, ticks, mapped, stop>>
  BY DEF TimerFires, driver
<1>4. Shape'
  BY <1>1, <1>2, <1>3, Zenon DEF Core, Shape
<1>5. BootSound'
  BY <1>1, <1>3 DEF Core, BootSound, Timer, Kbd
<1>6. FrameSound'
  BY <1>1, <1>3, Zenon DEF Core, FrameSound, At
<1>7. TicksBehind'
  BY <1>1, <1>2, <1>3 DEF Core, TicksBehind, At
<1>8. KbdSound'
  BY <1>1, <1>3 DEF Core, KbdSound, At, Timer, Kbd
<1> QED BY <1>4, <1>5, <1>6, <1>7, <1>8 DEF Core

LEMMA StepIpi ==
  ASSUME Core, IpiDelivered
  PROVE  Core'
<1>1. /\ apic' \in ApicType /\ apic'.irr = apic.irr /\ apic'.isr = apic.isr
      /\ apic'.timer = apic.timer /\ apic'.kbd = apic.kbd
  <2>1. apic \in ApicType
    BY DEF Core, Shape
  <2>2. apic' = [apic EXCEPT !.ipi = FALSE]
    BY DEF IpiDelivered
  <2> QED BY <2>1, <2>2 DEF ApicType
<1>2. UNCHANGED <<todo, mode, intr, frames, board, flags, taken, typed, ticks, periods, mapped>>
  BY DEF IpiDelivered, driver
<1>3. Shape'
  BY <1>1, <1>2, Zenon DEF Core, Shape
<1>4. BootSound' /\ FrameSound' /\ TicksBehind' /\ KbdSound'
  BY <1>1, <1>2, Zenon DEF Core, BootSound, FrameSound, TicksBehind, KbdSound, At
<1> QED BY <1>3, <1>4 DEF Core

LEMMA StepKeyMoves ==
  ASSUME Core, NEW k \in Keys, KeyMoves(k)
  PROVE  Core'
<1>1. board' \in BoardType /\ board'.full = board.full
  <2> DEFINE c == [key |-> k, make |-> k \notin board.down]
             d == IF k \in board.down THEN board.down \ {k} ELSE board.down \cup {k}
  <2>1. c \in Code
    BY DEF Code
  <2>2. board \in BoardType
    BY DEF Core, Shape
  <2>3. d \in SUBSET Keys
    BY <2>2 DEF BoardType
  <2>4. board' = [board EXCEPT !.down = d, !.queue = Append(@, c)]
    BY DEF KeyMoves
  <2>5. Append(board.queue, c) \in Seq(Code)
    BY <2>1, <2>2 DEF BoardType
  <2> HIDE DEF c, d
  <2> QED BY <2>2, <2>3, <2>4, <2>5 DEF BoardType
<1>2. UNCHANGED <<todo, mode, intr, frames, apic, flags, taken, typed, ticks, periods, mapped, stop>>
  BY DEF KeyMoves, driver
<1>3. Shape'
  BY <1>1, <1>2, Zenon DEF Core, Shape
<1>4. BootSound' /\ FrameSound' /\ TicksBehind' /\ KbdSound'
  BY <1>1, <1>2, Zenon DEF Core, BootSound, FrameSound, TicksBehind, KbdSound, At
<1> QED BY <1>3, <1>4 DEF Core

LEMMA StepKbdFills ==
  ASSUME Core, KbdFills
  PROVE  Core'
<1>1. board' \in BoardType /\ board'.full # <<>> /\ board.full = <<>>
  <2>1. board \in BoardType /\ board.queue # <<>> /\ board.full = <<>>
    BY DEF Core, Shape, KbdFills
  <2>2. Head(board.queue) \in Code /\ Tail(board.queue) \in Seq(Code)
    BY <2>1, HeadTailProperties DEF BoardType
  <2>3. board' = [board EXCEPT !.full = <<Head(board.queue)>>, !.queue = Tail(@)]
    BY DEF KbdFills
  <2>4. <<Head(board.queue)>> \in Seq(Code) /\ <<Head(board.queue)>> # <<>>
    BY <2>2
  <2> QED BY <2>1, <2>2, <2>3, <2>4 DEF BoardType
<1>2. /\ apic' \in ApicType /\ apic'.isr = apic.isr /\ apic'.timer = apic.timer
      /\ apic'.kbd = apic.kbd
      /\ apic'.irr = IF apic.kbd THEN apic.irr \cup {Kbd} ELSE apic.irr
  <2>1. apic \in ApicType
    BY DEF Core, Shape
  <2>2. apic' = IF apic.kbd THEN [apic EXCEPT !.irr = @ \cup {Kbd}] ELSE apic
    BY DEF KbdFills
  <2> QED BY <2>1, <2>2 DEF ApicType
<1>3. UNCHANGED <<todo, mode, intr, frames, flags, taken, typed, ticks, periods, mapped, stop>>
  BY DEF KbdFills, driver
<1>4. Shape'
  BY <1>1, <1>2, <1>3, Zenon DEF Core, Shape
<1>5. BootSound'
  BY <1>2, <1>3 DEF Core, BootSound, Timer, Kbd
<1>6. FrameSound'
  BY <1>2, <1>3, Zenon DEF Core, FrameSound, At
<1>7. TicksBehind'
  BY <1>2, <1>3 DEF Core, TicksBehind, At, Timer, Kbd
<1>8. KbdSound'
  BY <1>1, <1>2, <1>3 DEF Core, KbdSound, At
<1> QED BY <1>4, <1>5, <1>6, <1>7, <1>8 DEF Core

-----------------------------------------------------------------------------
(* Entry and return.                                                       *)

\* What every trap taken does to the frames, given what it does to the APIC.
LEMMA StepEnter ==
  ASSUME Core, intr \/ frames = <<>>, stop = "none",
         NEW vec \in Vectors, Enter(vec),
         apic' \in ApicType, apic'.timer = apic.timer, apic'.kbd = apic.kbd,
         vec \in {Timer, Kbd} => vec \in apic.irr,
         apic'.irr = apic.irr \ {vec},
         apic'.isr = IF vec \in {Timer, Kbd, ApicError} THEN apic.isr \cup {vec} ELSE apic.isr,
         UNCHANGED <<todo, mode, board, driver, periods, mapped>>
  PROVE  Core'
<1>1. frames = <<>>
  BY DEF Core, FrameSound
<1>2. /\ frames' \in Seq(Frame) /\ Len(frames') = 1 /\ frames' # <<>>
      /\ frames'[1].vec = vec /\ frames'[1].stage = "entry" /\ intr' = FALSE
  BY <1>1, EnterFacts DEF Core
<1>3. UNCHANGED <<todo, mode, board, flags, taken, typed, ticks, periods, mapped>>
  BY DEF driver
<1>4. \A v, st : At(v, st) = FALSE
  BY <1>1 DEF At
<1>5. \A v, st : At(v, st)' <=> v = vec /\ st = "entry"
  BY <1>2 DEF At
<1>6. Shape'
  BY <1>2, <1>3, Zenon DEF Core, Shape
<1>7. BootSound'
  BY <1>3 DEF Core, BootSound
<1>8. FrameSound'
  <2>1. \A v \in {Timer, Kbd, ApicError} : v \notin apic.isr
    BY <1>4 DEF Core, FrameSound
  <2>2. \A v \in {Timer, Kbd, ApicError} : v \in apic'.isr <=> v = vec
    BY <2>1
  <2>3. \A v \in {Timer, Kbd, ApicError} : v \in apic'.isr <=> At(v, "entry")' \/ At(v, "eoi")'
    BY <2>2, <1>5
  <2>4. Len(frames') <= 1
    BY <1>2
  <2> QED BY <2>3, <2>4, <1>2, <1>3, Zenon DEF FrameSound
<1>9. TicksBehind'
  BY <1>3, <1>4, <1>5 DEF Core, Shape, TicksBehind, Timer
<1>10. KbdSound'
  <2>1. vec = Kbd => Kbd \in apic.irr /\ apic.kbd
    BY DEF Core, BootSound
  <2>2. Kbd \in apic'.irr <=> Kbd \in apic.irr /\ vec # Kbd
    OBVIOUS
  <2> QED BY <2>1, <2>2, <1>3, <1>4, <1>5, Zenon DEF Core, KbdSound
<1> QED BY <1>6, <1>7, <1>8, <1>9, <1>10 DEF Core

LEMMA StepDeliver ==
  ASSUME Core, Deliver
  PROVE  Core'
<1>1. PICK v \in Offered : /\ Enter(v)
                           /\ apic' = [apic EXCEPT !.irr = @ \ {v}, !.isr = @ \cup {v}]
  BY DEF Deliver
<1>2. v \in apic.irr /\ v \in {Timer, Kbd} /\ apic \in ApicType
  BY DEF Offered, Core, Shape, ApicType
<1>3. /\ apic' \in ApicType /\ apic'.timer = apic.timer /\ apic'.kbd = apic.kbd
      /\ apic'.irr = apic.irr \ {v} /\ apic'.isr = apic.isr \cup {v}
  BY <1>1, <1>2 DEF ApicType
<1>4. v \in Vectors /\ v \in {Timer, Kbd, ApicError}
  BY <1>2 DEF Vectors
<1>5. intr /\ stop = "none" /\ UNCHANGED <<todo, mode, board, driver, periods, mapped>>
  BY DEF Deliver, Running
<1> QED BY <1>1, <1>2, <1>3, <1>4, <1>5, StepEnter

LEMMA StepDeliverError ==
  ASSUME Core, NEW v \in {ApicError, Spurious}, DeliverError(v)
  PROVE  Core'
<1>1. apic \in ApicType
  BY DEF Core, Shape
<1>2. /\ v \notin {Timer, Kbd} /\ v \in Vectors
      /\ Spurious \notin {Timer, Kbd, ApicError}
  BY DEF Timer, Kbd, ApicError, Spurious, Vectors
<1>3. /\ apic' \in ApicType /\ apic'.timer = apic.timer /\ apic'.kbd = apic.kbd
      /\ apic'.irr = apic.irr \ {v}
      /\ apic'.isr = IF v \in {Timer, Kbd, ApicError} THEN apic.isr \cup {v} ELSE apic.isr
  BY <1>1, <1>2 DEF DeliverError, ApicType
<1>4. /\ intr /\ stop = "none" /\ Enter(v)
      /\ UNCHANGED <<todo, mode, board, driver, periods, mapped>>
  BY DEF DeliverError, Running
<1> QED BY <1>2, <1>3, <1>4, StepEnter

\* A legacy interrupt or an exception leaves the local APIC alone.
LEMMA StepFault ==
  ASSUME Core, DeliverLegacy \/ PageFault \/ OtherException
  PROVE  Core'
<1>1. PICK v \in {GP, PF, Legacy} : Enter(v)
  BY DEF DeliverLegacy, PageFault, OtherException
<1>2. /\ intr \/ frames = <<>>
      /\ stop = "none"
      /\ UNCHANGED <<todo, mode, apic, board, driver, periods, mapped>>
  BY DEF DeliverLegacy, PageFault, OtherException, Running, devices
<1>3. v \notin {Timer, Kbd, ApicError} /\ v \in Vectors /\ apic \in ApicType
  BY DEF GP, PF, Legacy, Timer, Kbd, ApicError, Vectors, Core, Shape
<1>4. apic.irr \ {v} = apic.irr
  BY <1>3 DEF ApicType
<1> QED BY <1>1, <1>2, <1>3, <1>4, StepEnter

LEMMA StepIret ==
  ASSUME Core, Iret
  PROVE  Core'
<1>1. /\ Len(frames) = 1 /\ frames[1] \in Frame /\ frames[1].stage = "return"
      /\ intr' = frames[1].ifl /\ stop = "none" /\ frames # <<>>
  BY TopFirst DEF Core, Iret, Running
<1>2. frames' = <<>>
  <2>1. frames' = SubSeq(frames, 1, 0)
    BY <1>1 DEF Iret
  <2> QED BY <2>1, SubSeqEmpty
<1>3. UNCHANGED <<todo, mode, apic, board, flags, taken, typed, ticks, periods, mapped, stop>>
  BY DEF Iret, devices, driver
<1>4. \A v, st : At(v, st)' = FALSE
  BY <1>2 DEF At
<1>5. \A v : ~At(v, "entry") /\ ~At(v, "eoi")
  BY <1>1 DEF At
<1>6. Shape'
  <2>1. intr' \in BOOLEAN
    BY <1>1 DEF Frame
  <2>2. frames' \in Seq(Frame) /\ Len(frames') <= 1
    BY <1>2
  <2> QED BY <2>1, <2>2, <1>3, Zenon DEF Core, Shape
<1>7. BootSound'
  BY <1>3, Zenon DEF Core, BootSound
<1>8. FrameSound'
  <2>1. Len(frames') <= 1
    BY <1>2
  <2> QED BY <2>1, <1>1, <1>2, <1>3, <1>4, <1>5 DEF Core, FrameSound
<1>9. TicksBehind'
  BY <1>3, <1>4, <1>5 DEF Core, TicksBehind
<1>10. KbdSound'
  BY <1>3, <1>4, <1>5 DEF Core, KbdSound
<1> QED BY <1>6, <1>7, <1>8, <1>9, <1>10 DEF Core

-----------------------------------------------------------------------------
(* trap().                                                                 *)

\* A handler whose vector is v moves from stage st to st2: the facts its step
\* needs about the frame.
LEMMA HandlerFacts ==
  ASSUME Core, NEW v, NEW st, InHandler(v, st),
         NEW st2 \in {"entry", "eoi", "return"}, Goto(st2)
  PROVE  /\ At(v, st) /\ stop = "none" /\ frames # <<>> /\ frames[1].vec = v
         /\ frames' \in Seq(Frame) /\ Len(frames') <= 1 /\ frames' # <<>>
         /\ \A w, s : At(w, s) <=> w = v /\ s = st
         /\ \A w, s : At(w, s)' <=> w = v /\ s = st2
         /\ ~intr
<1>1. frames # <<>> /\ Top = frames[1] /\ Top.vec = v /\ Top.stage = st /\ stop = "none"
  BY TopFirst DEF Core, InHandler, Running
<1>2. /\ frames' \in Seq(Frame) /\ Len(frames') = 1 /\ frames' # <<>>
      /\ frames'[1].vec = frames[1].vec /\ frames'[1].stage = st2
  BY <1>1, GotoFacts DEF Core
<1>3. Len(frames') <= 1
  BY <1>2
<1>4. ~intr
  BY <1>1 DEF Core, FrameSound
<1> QED BY <1>1, <1>2, <1>3, <1>4, Zenon DEF At

LEMMA StepTrapPF ==
  ASSUME Core, TrapPF
  PROVE  Core'
<1>1. InHandler(PF, "entry") /\ Goto("return")
      /\ UNCHANGED <<todo, mode, intr, apic, board, periods, flags, taken, typed, ticks, stop>>
  BY DEF TrapPF, devices, driver
<1>2. /\ stop = "none" /\ ~intr
      /\ frames' \in Seq(Frame) /\ Len(frames') <= 1 /\ frames' # <<>>
      /\ \A w, s : At(w, s) <=> w = PF /\ s = "entry"
      /\ \A w, s : At(w, s)' <=> w = PF /\ s = "return"
  BY <1>1, HandlerFacts
<1>3. PF # Timer /\ PF # Kbd /\ PF # ApicError
  BY DEF PF, Timer, Kbd, ApicError
<1>4. Shape'
  <2>1. mapped' \in BOOLEAN
    BY DEF TrapPF
  <2> QED BY <2>1, <1>1, <1>2, Zenon DEF Core, Shape
<1>5. BootSound'
  BY <1>1, Zenon DEF Core, BootSound
<1>6. FrameSound'
  <2>1. \A v \in {Timer, Kbd, ApicError} : v # PF
    BY <1>3
  <2> QED BY <2>1, <1>1, <1>2, Zenon DEF Core, FrameSound
<1>7. TicksBehind'
  <2>1. ~At(Timer, "entry") /\ ~At(Timer, "entry")'
    BY <1>2, <1>3
  <2> QED BY <2>1, <1>1 DEF Core, TicksBehind
<1>8. KbdSound'
  BY <1>1, <1>2, <1>3, Zenon DEF Core, KbdSound
<1> QED BY <1>4, <1>5, <1>6, <1>7, <1>8 DEF Core

\* An acknowledged interrupt leaves nothing in service.
LEMMA EoiStep ==
  ASSUME Core, NEW v \in {Timer, Kbd}, NEW st \in {"entry", "eoi"}, InHandler(v, st),
         Goto("return"), apic' = apic_eoi
  PROVE  /\ apic' \in ApicType /\ apic'.isr = {} /\ apic'.irr = apic.irr
         /\ apic'.timer = apic.timer /\ apic'.kbd = apic.kbd
<1>1. At(v, "entry") \/ At(v, "eoi")
  BY HandlerFacts
<1>2. apic' = [apic EXCEPT !.isr = {}]
  BY <1>1, EoiFacts DEF Core
<1>3. apic \in ApicType
  BY DEF Core, Shape
<1> QED BY <1>2, <1>3 DEF ApicType

LEMMA StepTrapTimer ==
  ASSUME Core, TrapTimer
  PROVE  Core'
<1>1. /\ InHandler(Timer, "entry") /\ Goto("return") /\ apic' = apic_eoi /\ ticks' = ticks + 1
      /\ UNCHANGED <<todo, mode, intr, board, periods, flags, taken, typed, mapped, stop>>
  BY DEF TrapTimer, Tick
<1>2. /\ stop = "none" /\ ~intr
      /\ frames' \in Seq(Frame) /\ Len(frames') <= 1 /\ frames' # <<>>
      /\ \A w, s : At(w, s) <=> w = Timer /\ s = "entry"
      /\ \A w, s : At(w, s)' <=> w = Timer /\ s = "return"
  BY <1>1, HandlerFacts
<1>3. /\ apic' \in ApicType /\ apic'.isr = {} /\ apic'.irr = apic.irr
      /\ apic'.timer = apic.timer /\ apic'.kbd = apic.kbd
  BY <1>1, EoiStep
<1>4. Shape'
  <2>1. ticks' \in Nat
    BY <1>1 DEF Core, Shape
  <2> QED BY <2>1, <1>1, <1>2, <1>3, Zenon DEF Core, Shape
<1>5. BootSound'
  BY <1>1, <1>3, Zenon DEF Core, BootSound
<1>6. FrameSound'
  <2>1. \A v : ~At(v, "entry")' /\ ~At(v, "eoi")' /\ v \notin apic'.isr
    BY <1>2, <1>3
  <2> QED BY <2>1, <1>1, <1>2, Zenon DEF Core, FrameSound
<1>7. TicksBehind'
  <2>1. At(Timer, "entry") /\ ~At(Timer, "entry")'
    BY <1>2
  <2>2. ticks \in Nat /\ periods \in Nat
    BY IntAssumption DEF Core, Shape
  <2> QED BY <2>1, <2>2, <1>1, <1>3 DEF Core, TicksBehind
<1>8. KbdSound'
  <2>1. Timer # Kbd
    BY DEF Timer, Kbd
  <2> QED BY <2>1, <1>1, <1>2, <1>3, Zenon DEF Core, KbdSound
<1> QED BY <1>4, <1>5, <1>6, <1>7, <1>8 DEF Core

LEMMA StepTrapKbdEoi ==
  ASSUME Core, TrapKbdEoi
  PROVE  Core'
<1>1. /\ InHandler(Kbd, "eoi") /\ Goto("return") /\ apic' = apic_eoi
      /\ UNCHANGED <<todo, mode, intr, board, periods, flags, taken, typed, ticks, mapped, stop>>
  BY DEF TrapKbdEoi, KbdAck, driver
<1>2. /\ stop = "none" /\ ~intr
      /\ frames' \in Seq(Frame) /\ Len(frames') <= 1 /\ frames' # <<>>
      /\ \A w, s : At(w, s) <=> w = Kbd /\ s = "eoi"
      /\ \A w, s : At(w, s)' <=> w = Kbd /\ s = "return"
  BY <1>1, HandlerFacts
<1>3. /\ apic' \in ApicType /\ apic'.isr = {} /\ apic'.irr = apic.irr
      /\ apic'.timer = apic.timer /\ apic'.kbd = apic.kbd
  BY <1>1, EoiStep
<1>4. Shape'
  BY <1>1, <1>2, <1>3, Zenon DEF Core, Shape
<1>5. BootSound'
  BY <1>1, <1>3, Zenon DEF Core, BootSound
<1>6. FrameSound'
  <2>1. \A v : ~At(v, "entry")' /\ ~At(v, "eoi")' /\ v \notin apic'.isr
    BY <1>2, <1>3
  <2> QED BY <2>1, <1>1, <1>2, Zenon DEF Core, FrameSound
<1>7. TicksBehind'
  <2>1. ~At(Timer, "entry") /\ ~At(Timer, "entry")'
    BY <1>2
  <2> QED BY <2>1, <1>1, <1>3 DEF Core, TicksBehind
<1>8. KbdSound'
  <2>1. ~At(Kbd, "entry") /\ ~At(Kbd, "entry")'
    BY <1>2
  <2> QED BY <2>1, <1>1, <1>3, Zenon DEF Core, KbdSound
<1> QED BY <1>4, <1>5, <1>6, <1>7, <1>8 DEF Core

\* The panics: an unknown interrupt, no memory, no APIC.
LEMMA StepPanic ==
  ASSUME Core, TrapUnknown \/ OutOfMemory \/ NoApic
  PROVE  Core'
<1>1. UNCHANGED <<todo, mode, intr, frames, apic, board, periods, flags, taken, typed,
                  ticks, mapped>>
  BY DEF TrapUnknown, OutOfMemory, NoApic, devices, driver
<1>2. Shape' /\ BootSound'
  BY <1>1, ZenonT(60) DEF Core, Shape, BootSound
<1>3. FrameSound' /\ TicksBehind' /\ KbdSound'
  BY <1>1, ZenonT(60) DEF Core, FrameSound, TicksBehind, KbdSound, At
<1> QED BY <1>2, <1>3 DEF Core

\* The byte is read: the buffer is empty, and no request was waiting for it.
LEMMA StepTrapKbd ==
  ASSUME Core, TrapKbd
  PROVE  Core'
<1> DEFINE c == board.full[1]
<1>1. /\ InHandler(Kbd, "entry") /\ Goto("eoi") /\ board.full # <<>>
      /\ board' = [board EXCEPT !.full = <<>>]
      /\ UNCHANGED <<todo, mode, intr, apic, periods, ticks, mapped, stop>>
  BY DEF TrapKbd
<1>2. /\ flags' = ShiftAfter(c) /\ taken' = Append(taken, c)
      /\ typed' = IF HasChar(c)
                  THEN Append(typed, [key |-> c.key, shift |-> flags]) ELSE typed
  BY DEF TrapKbd
<1>3. /\ stop = "none" /\ ~intr
      /\ frames' \in Seq(Frame) /\ Len(frames') <= 1 /\ frames' # <<>>
      /\ \A w, s : At(w, s) <=> w = Kbd /\ s = "entry"
      /\ \A w, s : At(w, s)' <=> w = Kbd /\ s = "eoi"
  BY <1>1, HandlerFacts
<1>4. board \in BoardType /\ board' \in BoardType /\ board'.full = <<>>
  <2>1. board \in BoardType
    BY DEF Core, Shape
  <2>2. board' = [board EXCEPT !.full = <<>>]
    BY <1>1
  <2>3. <<>> \in Seq(Code)
    BY EmptySeq
  <2>4. board'.full = <<>> /\ board'.down = board.down /\ board'.queue = board.queue
    BY <2>1, <2>2 DEF BoardType
  <2>5. board' = [down |-> board.down, queue |-> board.queue, full |-> <<>>]
    BY <2>1, <2>2 DEF BoardType
  <2> QED BY <2>1, <2>3, <2>4, <2>5 DEF BoardType
<1>5. c \in Code
  <2>1. board.full \in Seq(Code) /\ Len(board.full) \in Nat \ {0}
    BY <1>1, <1>4, EmptySeq DEF BoardType
  <2> QED BY <2>1
<1> HIDE DEF c
<1>6. Shape'
  <2>1. taken' \in Seq(Code) /\ flags \in BOOLEAN
    BY <1>2, <1>5 DEF Core, Shape
  <2>2. flags' \in BOOLEAN
    BY <1>2, <1>5, <2>1 DEF ShiftAfter, Code
  <2>3. typed' \in Seq([key : CharKeys, shift : BOOLEAN])
    <3>1. CASE HasChar(c)
      <4>1. [key |-> c.key, shift |-> flags] \in [key : CharKeys, shift : BOOLEAN]
        BY <2>1, <3>1 DEF HasChar
      <4>2. typed \in Seq([key : CharKeys, shift : BOOLEAN])
        BY DEF Core, Shape
      <4> QED BY <4>1, <4>2, <3>1, <1>2
    <3>2. CASE ~HasChar(c)
      BY <3>2, <1>2 DEF Core, Shape
    <3> QED BY <3>1, <3>2
  <2> QED BY <2>1, <2>2, <2>3, <1>1, <1>3, <1>4, Zenon DEF Core, Shape
<1>7. BootSound'
  BY <1>1, Zenon DEF Core, BootSound
<1>8. FrameSound'
  <2>1. \A v : At(v, "entry") \/ At(v, "eoi") <=> At(v, "entry")' \/ At(v, "eoi")'
    BY <1>3
  <2> QED BY <2>1, <1>1, <1>3, Zenon DEF Core, FrameSound
<1>9. TicksBehind'
  <2>1. ~At(Timer, "entry") /\ ~At(Timer, "entry")'
    BY <1>3 DEF Timer, Kbd
  <2> QED BY <2>1, <1>1 DEF Core, TicksBehind
<1>10. KbdSound'
  <2>1. At(Kbd, "entry") /\ ~At(Kbd, "entry")'
    BY <1>3
  <2>2. Kbd \notin apic.irr /\ apic.kbd
    BY <2>1 DEF Core, KbdSound
  <2> QED BY <2>1, <2>2, <1>1, <1>4, Zenon DEF KbdSound
<1> QED BY <1>6, <1>7, <1>8, <1>9, <1>10 DEF Core

-----------------------------------------------------------------------------
(* kernel_main() and a system call.                                        *)

\* The EOI of apic_init() finds nothing in service.
LEMMA NothingInService ==
  ASSUME Shape, FrameSound, frames = <<>>
  PROVE  apic_eoi = apic
<1>1. apic \in ApicType
  BY DEF Shape
<1>2. apic.isr = {}
  BY <1>1 DEF FrameSound, At, ApicType
<1> QED BY <1>1, <1>2 DEF apic_eoi, ApicType

LEMMA StepBootCall ==
  ASSUME Core, BootCall
  PROVE  Core'
<1> DEFINE n == Len(todo)
<1>1. /\ stop = "none" /\ mode = "boot" /\ frames = <<>> /\ n > 1 /\ todo' = Tail(todo)
      /\ apic' = CASE Head(todo) = "apic_init" -> apic_init
                   [] Head(todo) = "ioapic_init" -> ioapic_init
                   [] OTHER -> apic
      /\ UNCHANGED <<mode, intr, frames, board, flags, taken, typed, ticks, periods, mapped>>
  BY DEF BootCall, Running, driver
<1>2. n \in 2 .. 7 /\ todo \in Seq(Calls)
  BY <1>1, PendingFacts DEF Core, Shape
<1>3. \A k \in 1 .. n : todo[k] = BootOrder[k + (7 - n)]
  BY DEF Core, BootSound
<1>4. /\ todo' \in Seq(Calls) /\ Len(todo') = n - 1
      /\ \A k \in 1 .. n - 1 : todo'[k] = todo[k + 1]
      /\ Head(todo) = todo[1]
  BY <1>1, <1>2
<1>5. Head(todo) = BootOrder[8 - n]
  BY <1>2, <1>3, <1>4
<1> HIDE DEF n
<1>7. apic \in ApicType
  BY DEF Core, Shape
<1>8. /\ apic' \in ApicType /\ apic'.irr = apic.irr /\ apic'.isr = apic.isr
      /\ apic.timer => apic'.timer
      /\ apic.kbd => apic'.kbd
      /\ apic'.timer => apic.timer \/ n <= 4
      /\ apic'.kbd => apic.kbd \/ n <= 3
  <2>1. n = 2 \/ n = 3 \/ n = 4 \/ n = 5 \/ n = 6 \/ n = 7
    BY <1>2
  <2>2. (Head(todo) = "apic_init" => n = 4) /\ (Head(todo) = "ioapic_init" => n = 3)
    BY <2>1, <1>5 DEF BootOrder
  <2>3. CASE Head(todo) = "apic_init"
    <3>1. apic' = [apic EXCEPT !.pic = FALSE, !.timer = TRUE, !.ipi = TRUE]
      BY <2>3, <1>1, <1>7, NothingInService DEF apic_init, Core
    <3>2. /\ apic' \in ApicType /\ apic'.irr = apic.irr /\ apic'.isr = apic.isr
          /\ apic'.timer = TRUE /\ apic'.kbd = apic.kbd
      BY <3>1, <1>7 DEF ApicType
    <3>3. n <= 4
      BY <2>2, <2>3
    <3> QED BY <3>2, <3>3, Zenon
  <2>4. CASE Head(todo) = "ioapic_init"
    <3>1. apic' = apic \/ apic' = [apic EXCEPT !.kbd = TRUE]
      BY <2>4, <1>1 DEF ioapic_init
    <3>2. /\ apic' \in ApicType /\ apic'.irr = apic.irr /\ apic'.isr = apic.isr
          /\ apic'.kbd = TRUE \/ apic'.kbd = apic.kbd
          /\ apic'.timer = apic.timer
      BY <3>1, <1>7 DEF ApicType
    <3>3. n <= 3
      BY <2>2, <2>4
    <3> QED BY <3>2, <3>3, Zenon
  <2>5. CASE Head(todo) # "apic_init" /\ Head(todo) # "ioapic_init"
    <3>1. apic' = apic
      BY <2>5, <1>1
    <3> QED BY <3>1, <1>7
  <2> QED BY <2>3, <2>4, <2>5
<1>9. Shape'
  BY <1>1, <1>4, <1>8, Zenon DEF Core, Shape
<1>10. BootSound'
  <2>1. Len(todo') <= 7
    BY <1>2, <1>4
  <2>2. \A k \in 1 .. Len(todo') : todo'[k] = BootOrder[k + (7 - Len(todo'))]
    <3> SUFFICES ASSUME NEW k \in 1 .. n - 1
                 PROVE  todo'[k] = BootOrder[k + (7 - (n - 1))]
      BY <1>4
    <3>1. k + 1 \in 1 .. n /\ (k + 1) + (7 - n) = k + (7 - (n - 1))
      BY <1>2
    <3> QED BY <3>1, <1>3, <1>4
  <2>3. (apic'.timer => Len(todo') <= 3) /\ (apic'.kbd => Len(todo') <= 2)
    <3>1. (apic.timer => n <= 3) /\ (apic.kbd => n <= 2)
      BY DEF Core, BootSound, n
    <3> QED BY <3>1, <1>2, <1>4, <1>8
  <2>4. (Timer \in apic'.irr => apic'.timer) /\ (Kbd \in apic'.irr => apic'.kbd)
    BY <1>8 DEF Core, BootSound
  <2>5. mode' = "boot"
    BY <1>1
  <2> QED BY <2>1, <2>2, <2>3, <2>4, <2>5, Zenon DEF BootSound
<1>11. FrameSound' /\ TicksBehind' /\ KbdSound'
  BY <1>1, <1>8, Zenon DEF Core, FrameSound, TicksBehind, KbdSound, At
<1> QED BY <1>9, <1>10, <1>11 DEF Core

LEMMA StepUinit ==
  ASSUME Core, uinit
  PROVE  Core'
<1>1. /\ stop = "none" /\ todo' = <<>> /\ mode' = "user" /\ frames = <<>> /\ intr' \in BOOLEAN
      /\ UNCHANGED <<frames, apic, board, periods, flags, taken, typed, ticks, mapped, stop>>
  BY DEF uinit, Running, devices, driver, SysretIntr
<1>2. todo' \in Seq(Calls) /\ Len(todo') = 0
  BY <1>1, EmptySeq
<1>3. Shape'
  <2>1. mode' \in {"boot", "user", "entry", "syscall"}
    BY <1>1
  <2> QED BY <2>1, <1>1, <1>2, Zenon DEF Core, Shape
<1>4. BootSound'
  <2>1. Len(todo') <= 7 /\ Len(todo') <= 3 /\ Len(todo') <= 2
        /\ \A k \in 1 .. Len(todo') : FALSE
    BY <1>2
  <2> QED BY <2>1, <1>1, <1>2, Zenon DEF Core, BootSound
<1>5. FrameSound' /\ TicksBehind' /\ KbdSound'
  BY <1>1, Zenon DEF Core, FrameSound, TicksBehind, KbdSound, At
<1> QED BY <1>3, <1>4, <1>5 DEF Core

\* The instruction of a system call, and the switch of stacks after it.
LEMMA StepSyscall ==
  ASSUME Core, Syscall \/ _syscall
  PROVE  Core'
<1>1. /\ mode # "boot" /\ mode' \in {"boot", "user", "entry", "syscall"}
      /\ UNCHANGED <<todo, intr, frames, apic, board, periods, flags, taken, typed, ticks,
                     mapped, stop>>
  BY DEF Syscall, _syscall, devices, driver
<1> QED BY <1>1, ZenonT(90) DEF Core, Shape, BootSound, FrameSound, TicksBehind, KbdSound, At

LEMMA CoreKept == Core /\ UNCHANGED intVars => Core'
<1> SUFFICES ASSUME Core, UNCHANGED intVars PROVE Core'
  OBVIOUS
<1>1. UNCHANGED <<todo, mode, intr, frames, apic, board, flags, taken, typed, periods,
                  ticks, mapped, stop>>
  BY DEF intVars
<1>2. Shape' /\ BootSound'
  BY <1>1, Zenon DEF Core, Shape, BootSound
<1>3. FrameSound' /\ TicksBehind' /\ KbdSound'
  BY <1>1, Zenon DEF Core, FrameSound, TicksBehind, KbdSound, At
<1> QED BY <1>2, <1>3 DEF Core

-----------------------------------------------------------------------------
(* What has been read and printed.                                         *)

CharsUpTo(i) == {j \in CharCodes : j <= i}

LEMMA TextTrapKbd ==
  ASSUME Core, Text, TrapKbd
  PROVE  Text'
<1> DEFINE c == board.full[1]
           x == [key |-> c.key, shift |-> flags]
<1>1. /\ flags' = ShiftAfter(c) /\ taken' = Append(taken, c)
      /\ typed' = IF HasChar(c) THEN Append(typed, x) ELSE typed
  BY DEF TrapKbd
<1>0. taken \in Seq(Code) /\ typed \in Seq([key : CharKeys, shift : BOOLEAN])
      /\ flags \in BOOLEAN
  BY DEF Core, Shape
<1>n. PICK n \in Nat : n = Len(taken)
  BY <1>0
<1>m. PICK m \in Nat : m = Len(typed)
  BY <1>0
<1>2. n = Len(taken) /\ m = Len(typed)
  BY <1>n, <1>m
<1>3. c \in Code
  <2>1. board.full \in Seq(Code) /\ Len(board.full) \in Nat \ {0}
    BY EmptySeq DEF Core, Shape, BoardType, TrapKbd
  <2> QED BY <2>1
<1> HIDE DEF c
<1>4. /\ Len(taken') = n + 1 /\ taken'[n + 1] = c
      /\ \A i \in 1 .. n : taken'[i] = taken[i]
  BY <1>0, <1>1, <1>2, <1>3
<1>5. c.make \in BOOLEAN /\ c = [key |-> c.key, make |-> c.make]
  BY <1>3 DEF Code
<1> HIDE DEF x
<1>6. ASSUME NEW i \in 0 .. n PROVE ShiftsHeld(i)' = ShiftsHeld(i)
  <2>1. \A a \in 1 .. i : /\ taken'[a] = taken[a]
                         /\ \A j \in a + 1 .. i : taken'[j] = taken[j]
    BY <1>4
  <2> QED BY <2>1, ZenonT(90) DEF ShiftsHeld
<1>7. ASSUME c.key \notin ShiftKeys PROVE ShiftsHeld(n) \subseteq ShiftsHeld(n + 1)'
  <2> SUFFICES ASSUME NEW k \in ShiftsHeld(n) PROVE k \in ShiftsHeld(n + 1)'
    OBVIOUS
  <2>1. PICK i \in 1 .. n : /\ taken[i] = [key |-> k, make |-> TRUE]
                           /\ \A j \in i + 1 .. n : taken[j].key # k
    BY DEF ShiftsHeld
  <2>2. k \in ShiftKeys /\ k # c.key
    BY <1>7 DEF ShiftsHeld
  <2>3. i \in 1 .. n + 1 /\ taken'[i] = [key |-> k, make |-> TRUE]
    BY <2>1, <1>4
  <2>4. ASSUME NEW j \in i + 1 .. n + 1 PROVE taken'[j].key # k
    <3>1. CASE j = n + 1
      BY <3>1, <2>2, <1>4
    <3>2. CASE j # n + 1
      <4>1. j \in i + 1 .. n /\ j \in 1 .. n
        BY <3>2
      <4> QED BY <4>1, <2>1, <1>4
    <3> QED BY <3>1, <3>2
  <2> QED BY <2>2, <2>3, <2>4, Zenon DEF ShiftsHeld
<1>8. ASSUME c.key \in ShiftKeys, c.make PROVE c.key \in ShiftsHeld(n + 1)'
  <2>1. taken'[n + 1] = [key |-> c.key, make |-> TRUE]
    BY <1>4, <1>5, <1>8
  <2>2. n + 1 \in 1 .. n + 1 /\ \A j \in (n + 1) + 1 .. n + 1 : FALSE
    BY <1>2
  <2> QED BY <1>8, <2>1, <2>2, Zenon DEF ShiftsHeld
<1>9. ShiftSound'
  <2>1. flags => ShiftsHeld(n) # {}
    BY <1>2 DEF Text, ShiftSound
  <2>2. flags' => ShiftsHeld(n + 1)' # {}
    BY <2>1, <1>1, <1>7, <1>8 DEF ShiftAfter
  <2> QED BY <2>2, <1>4, Zenon DEF ShiftSound
<1>10. CharCodes \subseteq 1 .. n /\ IsFiniteSet(CharCodes) /\ Cardinality(CharCodes) = m
  <2>1. CharCodes \subseteq 1 .. n
    BY <1>2 DEF CharCodes
  <2>2. IsFiniteSet(1 .. n)
    BY FS_Interval
  <2> QED BY <2>1, <2>2, <1>2, FS_Subset DEF Text, TypedFaithful
<1>11. CharCodes' = IF HasChar(c) THEN CharCodes \cup {n + 1} ELSE CharCodes
  BY <1>2, <1>4 DEF CharCodes, HasChar
<1>12. ASSUME NEW i \in CharCodes
       PROVE  /\ CharsUpTo(i)' = CharsUpTo(i)
              /\ Cardinality(CharsUpTo(i)) \in 1 .. m
              /\ typed[Cardinality(CharsUpTo(i))].key = taken[i].key
              /\ typed[Cardinality(CharsUpTo(i))].shift => ShiftsHeld(i) # {}
  <2>1. CharsUpTo(i)' = CharsUpTo(i)
    BY <1>2, <1>10, <1>11 DEF CharsUpTo
  <2>2. CharsUpTo(i) \subseteq CharCodes /\ i \in CharsUpTo(i)
    BY <1>10 DEF CharsUpTo
  <2>3. IsFiniteSet(CharsUpTo(i)) /\ Cardinality(CharsUpTo(i)) <= m
    BY <2>2, <1>10, FS_Subset
  <2>4. Cardinality(CharsUpTo(i)) \in Nat /\ Cardinality(CharsUpTo(i)) # 0
    BY <2>2, <2>3, FS_CardinalityType, FS_EmptySet
  <2>5. Cardinality(CharsUpTo(i)) \in 1 .. m
    BY <2>3, <2>4, <1>2
  <2> QED BY <2>1, <2>5 DEF Text, TypedFaithful, CharsUpTo
<1>13. CASE ~HasChar(c)
  <2>1. typed' = typed /\ CharCodes' = CharCodes
    BY <1>1, <1>11, <1>13
  <2>2. \A i \in CharCodes : taken'[i] = taken[i] /\ ShiftsHeld(i)' = ShiftsHeld(i)
    BY <1>2, <1>4, <1>6, <1>10
  <2>3. TypedFaithful'
    BY <2>1, <2>2, <1>10, <1>12, <1>2 DEF TypedFaithful, CharsUpTo
  <2> QED BY <2>3, <1>9 DEF Text
<1>14. CASE HasChar(c)
  <2>1. /\ typed' = Append(typed, x) /\ CharCodes' = CharCodes \cup {n + 1}
        /\ n + 1 \notin CharCodes
    BY <1>1, <1>2, <1>10, <1>11, <1>14
  <2>2. /\ Len(typed') = m + 1 /\ typed'[m + 1] = x
        /\ \A k \in 1 .. m : typed'[k] = typed[k]
    <3>1. x \in [key : CharKeys, shift : BOOLEAN]
      BY <1>0, <1>14 DEF x, HasChar
    <3> QED BY <3>1, <2>1, <1>0, <1>2
  <2>3. Cardinality(CharCodes') = m + 1
    BY <2>1, <1>10, FS_AddElement
  <2>4. ASSUME NEW i \in CharCodes
        PROVE  LET k == Cardinality(CharsUpTo(i)')
               IN typed'[k].key = taken'[i].key /\ (typed'[k].shift => ShiftsHeld(i)' # {})
    <3>1. taken'[i] = taken[i] /\ ShiftsHeld(i)' = ShiftsHeld(i)
      BY <1>2, <1>4, <1>6, <1>10
    <3> QED BY <3>1, <2>2, <1>12
  <2>5. LET k == Cardinality(CharsUpTo(n + 1)')
        IN typed'[k].key = taken'[n + 1].key
             /\ (typed'[k].shift => ShiftsHeld(n + 1)' # {})
    <3>1. CharsUpTo(n + 1)' = CharCodes'
      <4>1. \A j \in CharCodes' : j <= n + 1
        BY <2>1, <1>10
      <4> QED BY <4>1, Zenon DEF CharsUpTo
    <3>2. c.key \notin ShiftKeys
      BY <1>14, IntAssumption DEF HasChar
    <3>3. flags => ShiftsHeld(n + 1)' # {}
      BY <3>2, <1>2, <1>7 DEF Text, ShiftSound
    <3>4. typed'[m + 1].key = c.key /\ typed'[m + 1].shift = flags
      BY <2>2 DEF x
    <3> QED BY <3>1, <3>3, <3>4, <2>3, <1>4
  <2>6. TypedFaithful'
    BY <2>1, <2>2, <2>3, <2>4, <2>5 DEF TypedFaithful, CharsUpTo
  <2> QED BY <2>6, <1>9 DEF Text
<1> QED BY <1>13, <1>14

-----------------------------------------------------------------------------
(* Why the kernel stops.                                                   *)

\* A step that leaves the calls, the frame, the legacy controller and stop alone.
LEMMA StopKept ==
  ASSUME StopSound, UNCHANGED <<todo, frames, stop>>, apic'.pic = apic.pic
  PROVE  StopSound'
BY Zenon DEF StopSound

\* A trap is taken with an IDT, or it is a legacy interrupt.
LEMMA StopEnter ==
  ASSUME Core, StopSound, stop = "none", intr \/ frames = <<>>, NEW vec \in Vectors,
         Enter(vec), UNCHANGED todo, apic'.pic = apic.pic,
         IF vec = Legacy THEN apic.pic ELSE ~Pending("idt_init")
  PROVE  StopSound'
<1>1. frames = <<>>
  BY DEF Core, FrameSound
<1>2. /\ frames' # <<>> /\ frames'[1].vec = vec
      /\ stop' = IF Pending("idt_init") THEN "no IDT" ELSE stop
  BY <1>1, EnterFacts DEF Core
<1>3. Len(todo) \in Nat
  BY PendingFacts DEF Core
<1> QED BY <1>2, <1>3 DEF StopSound

\* A handler that runs on stays in the frame of its vector.
LEMMA StopHandler ==
  ASSUME Core, StopSound, NEW v, NEW st, InHandler(v, st),
         NEW st2 \in {"entry", "eoi", "return"}, Goto(st2),
         UNCHANGED <<todo, stop>>, apic'.pic = apic.pic
  PROVE  StopSound'
<1>1. stop = "none" /\ frames # <<>>
  BY HandlerFacts
<1>2. frames' # <<>> /\ frames'[1].vec = frames[1].vec
  BY <1>1, GotoFacts DEF Core
<1> QED BY <1>1, <1>2 DEF StopSound

LEMMA StopBootCall ==
  ASSUME Core, StopSound, BootCall
  PROVE  StopSound'
<1> DEFINE n == Len(todo)
<1>1. /\ stop = "none" /\ frames = <<>> /\ n > 1 /\ todo' = Tail(todo) /\ UNCHANGED frames
      /\ stop' = IF Head(todo) = "idt_init" THEN idt_init ELSE stop
      /\ apic' = CASE Head(todo) = "apic_init" -> apic_init
                   [] Head(todo) = "ioapic_init" -> ioapic_init
                   [] OTHER -> apic
  BY DEF BootCall, Running
<1>2. n \in 2 .. 7 /\ todo \in Seq(Calls) /\ apic \in ApicType
  BY <1>1, PendingFacts DEF Core, Shape
<1>3. Len(todo') = n - 1 /\ Head(todo) = todo[1]
  BY <1>1, <1>2
<1>4. Head(todo) = BootOrder[8 - n]
  <2>1. \A k \in 1 .. n : todo[k] = BootOrder[k + (7 - n)]
    BY DEF Core, BootSound
  <2> QED BY <2>1, <1>2, <1>3
<1>5. n = 5 => ~Pending("mm_init")
  BY PendingFacts DEF Core
<1>6. apic.pic => n >= 4
  BY DEF StopSound
<1> HIDE DEF n
<1>7. /\ Head(todo) = "idt_init" <=> n = 5
      /\ Head(todo) = "apic_init" <=> n = 4
      /\ Head(todo) = "ioapic_init" <=> n = 3
  <2>1. n = 2 \/ n = 3 \/ n = 4 \/ n = 5 \/ n = 6 \/ n = 7
    BY <1>2
  <2> QED BY <2>1, <1>4 DEF BootOrder
<1>8. stop' = "none"
  BY <1>1, <1>5, <1>7 DEF idt_init
<1>9. apic'.pic => Len(todo') >= 4
  <2>1. CASE n = 4
    <3>1. apic' = [apic EXCEPT !.pic = FALSE, !.timer = TRUE, !.ipi = TRUE]
      BY <2>1, <1>1, <1>7, NothingInService DEF apic_init, Core
    <3>2. apic'.pic = FALSE
      BY <3>1, <1>2 DEF ApicType
    <3> QED BY <3>2
  <2>2. CASE n # 4
    <3>1. apic' = apic \/ apic' = [apic EXCEPT !.kbd = TRUE]
      BY <2>2, <1>1, <1>7 DEF ioapic_init
    <3>2. apic'.pic = apic.pic
      BY <3>1, <1>2 DEF ApicType
    <3> QED BY <3>2, <2>2, <1>2, <1>3, <1>6
  <2> QED BY <2>1, <2>2
<1> QED BY <1>1, <1>8, <1>9 DEF StopSound

LEMMA StopStep ==
  ASSUME Core, StopSound, [IntNext]_intVars
  PROVE  StopSound'
<1>1. apic \in ApicType
  BY DEF Core, Shape
<1>2. CASE TimerFires \/ KbdFills \/ IpiDelivered \/ \E k \in Keys : KeyMoves(k)
  <2>1. UNCHANGED <<todo, frames, stop>>
    BY <1>2 DEF TimerFires, KbdFills, IpiDelivered, KeyMoves
  <2>2. \/ apic' = [apic EXCEPT !.irr = @ \cup {Timer}] \/ apic' = [apic EXCEPT !.irr = @ \cup {Kbd}]
        \/ apic' = [apic EXCEPT !.ipi = FALSE] \/ apic' = apic
    BY <1>2 DEF TimerFires, KbdFills, IpiDelivered, KeyMoves
  <2>3. apic'.pic = apic.pic
    BY <2>2, <1>1 DEF ApicType
  <2> QED BY <2>1, <2>3, StopKept
<1>3. CASE Syscall \/ _syscall \/ UNCHANGED intVars
  BY <1>3, StopKept DEF Syscall, _syscall, devices, intVars
<1>4. CASE Deliver
  <2>1. PICK v \in Offered : /\ Enter(v)
                             /\ apic' = [apic EXCEPT !.irr = @ \ {v}, !.isr = @ \cup {v}]
    BY <1>4 DEF Deliver
  <2>2. v \in apic.irr /\ v \in {Timer, Kbd} /\ apic'.pic = apic.pic
    BY <2>1, <1>1 DEF Offered, ApicType
  <2>3. ~Pending("idt_init")
    <3>1. Len(todo) <= 3 \/ Len(todo) <= 2
      BY <2>2, Zenon DEF Core, BootSound
    <3> QED BY <3>1, PendingFacts DEF Core
  <2>4. v # Legacy /\ v \in Vectors
    BY <2>2 DEF Timer, Kbd, Legacy, Vectors
  <2> QED BY <2>1, <2>2, <2>3, <2>4, <1>4, StopEnter DEF Deliver, Running
<1>5. ASSUME NEW v \in {ApicError, Spurious}, DeliverError(v) PROVE StopSound'
  <2>1. v # Legacy /\ v \in Vectors /\ apic'.pic = apic.pic
    BY <1>1, <1>5 DEF ApicError, Spurious, Legacy, Vectors, DeliverError, ApicType
  <2>2. ~Pending("idt_init")
    BY <1>5, PendingFacts DEF DeliverError, Core, BootSound
  <2> QED BY <2>1, <2>2, <1>5, StopEnter DEF DeliverError, Running
<1>6. CASE DeliverLegacy
  BY <1>6, StopEnter DEF DeliverLegacy, Running, devices, Vectors
<1>7. CASE PageFault \/ OtherException
  <2>1. Len(todo) = 0 \/ todo = <<"uinit">>
    BY <1>7 DEF PageFault, OtherException, Core, BootSound
  <2>2. Len(todo) = 0 \/ Len(todo) = 1
    <3>1. Len(<<"uinit">>) = 1
      OBVIOUS
    <3> QED BY <2>1, <3>1, Zenon
  <2>3. ~Pending("idt_init")
    <3>1. PICK n \in Nat : n = Len(todo)
      BY PendingFacts DEF Core
    <3>2. n = 0 \/ n = 1
      BY <2>2, <3>1, Zenon
    <3>3. ~(n >= 5)
      BY <3>2
    <3> QED BY <3>1, <3>3, PendingFacts, Zenon DEF Core
  <2>4. PICK v \in {GP, PF} : Enter(v)
    BY <1>7 DEF PageFault, OtherException
  <2>5. v # Legacy /\ v \in Vectors
    BY DEF GP, PF, Legacy, Vectors
  <2> QED BY <2>3, <2>4, <2>5, <1>7, StopEnter DEF PageFault, OtherException, Running, devices
<1>8. CASE TrapPF
  BY <1>8, StopHandler DEF TrapPF, devices
<1>9. CASE TrapTimer
  <2>1. InHandler(Timer, "entry") /\ Goto("return") /\ apic' = apic_eoi /\ UNCHANGED <<todo, stop>>
    BY <1>9 DEF TrapTimer
  <2>2. apic'.pic = apic.pic
    BY <2>1, <1>1 DEF apic_eoi, ApicType
  <2> QED BY <2>1, <2>2, StopHandler
<1>10. CASE TrapKbd
  BY <1>10, StopHandler DEF TrapKbd
<1>11. CASE TrapKbdEoi
  <2>1. InHandler(Kbd, "eoi") /\ Goto("return") /\ apic' = apic_eoi /\ UNCHANGED <<todo, stop>>
    BY <1>11 DEF TrapKbdEoi, KbdAck
  <2>2. apic'.pic = apic.pic
    BY <2>1, <1>1 DEF apic_eoi, ApicType
  <2> QED BY <2>1, <2>2, StopHandler
<1>12. CASE TrapUnknown
  <2>1. frames # <<>> /\ frames[1].vec \in Vectors /\ frames[1].vec \notin {PF, Timer, Kbd}
    BY <1>12, TopFirst DEF TrapUnknown, Core, Frame
  <2>2. frames[1].vec \in {GP, ApicError, Spurious} \/ frames[1].vec = Legacy
    BY <2>1 DEF Vectors
  <2>3. stop' = "unknown interrupt" /\ UNCHANGED <<todo, frames, apic>>
    BY <1>12 DEF TrapUnknown, devices
  <2> QED BY <2>1, <2>2, <2>3 DEF StopSound
<1>13. CASE OutOfMemory
  <2>1. frames = <<>> \/ frames[1].vec = PF
    BY <1>13, TopFirst DEF OutOfMemory, InHandler, Core
  <2>2. stop' = "out of memory" /\ UNCHANGED <<todo, frames, apic>>
    BY <1>13 DEF OutOfMemory, devices
  <2> QED BY <2>1, <2>2 DEF StopSound
<1>14. CASE NoApic
  <2>1. frames = <<>> /\ stop' = "apic: not supported" /\ UNCHANGED <<todo, frames, apic>>
    BY <1>14 DEF NoApic, devices
  <2> QED BY <2>1 DEF StopSound
<1>15. CASE Iret
  <2>1. frames' = <<>>
    <3>1. Len(frames) = 1 /\ frames' = SubSeq(frames, 1, Len(frames) - 1)
      BY <1>15, TopFirst DEF Iret, Core
    <3> QED BY <3>1, SubSeqEmpty
  <2>2. stop' = "none" /\ UNCHANGED <<todo, apic>>
    BY <1>15 DEF Iret, Running, devices
  <2> QED BY <2>1, <2>2 DEF StopSound
<1>16. CASE BootCall
  BY <1>16, StopBootCall
<1>17. CASE uinit
  <2>1. ~apic.pic
    <3>1. Len(todo) = 1
      BY <1>17 DEF uinit
    <3>2. ~(Len(todo) >= 4)
      BY <3>1
    <3> QED BY <3>2, Zenon DEF StopSound
  <2> QED BY <2>1, <1>17 DEF uinit, Running, devices, StopSound
<1> QED BY <1>2, <1>3, <1>4, <1>5, <1>6, <1>7, <1>8, <1>9, <1>10, <1>11, <1>12, <1>13, <1>14,
           <1>15, <1>16, <1>17 DEF IntNext, Cpu, Spin

-----------------------------------------------------------------------------
LEMMA StepIInv ==
  ASSUME IInv, [IntNext]_intVars
  PROVE  IInv'
<1> USE DEF IInv
<1>1. StopSound'
  BY StopStep
<1>2. CASE TimerFires
  <2>1. UNCHANGED <<flags, taken, typed>>
    BY <1>2 DEF TimerFires, driver
  <2> QED BY <2>1, <1>1, <1>2, StepTimerFires, TextKept
<1>3. CASE KbdFills
  <2>1. UNCHANGED <<flags, taken, typed>>
    BY <1>3 DEF KbdFills, driver
  <2> QED BY <2>1, <1>1, <1>3, StepKbdFills, TextKept
<1>4. CASE IpiDelivered
  <2>1. UNCHANGED <<flags, taken, typed>>
    BY <1>4 DEF IpiDelivered, driver
  <2> QED BY <2>1, <1>1, <1>4, StepIpi, TextKept
<1>5. CASE Deliver
  <2>1. UNCHANGED <<flags, taken, typed>>
    BY <1>5 DEF Deliver, driver
  <2> QED BY <2>1, <1>1, <1>5, StepDeliver, TextKept
<1>6. CASE DeliverLegacy \/ PageFault \/ OtherException
  <2>1. UNCHANGED <<flags, taken, typed>>
    BY <1>6 DEF DeliverLegacy, PageFault, OtherException, driver
  <2> QED BY <2>1, <1>1, <1>6, StepFault, TextKept
<1>7. CASE Syscall \/ _syscall
  <2>1. UNCHANGED <<flags, taken, typed>>
    BY <1>7 DEF Syscall, _syscall, driver
  <2> QED BY <2>1, <1>1, <1>7, StepSyscall, TextKept
<1>8. CASE TrapPF
  <2>1. UNCHANGED <<flags, taken, typed>>
    BY <1>8 DEF TrapPF, driver
  <2> QED BY <2>1, <1>1, <1>8, StepTrapPF, TextKept
<1>9. CASE TrapTimer
  <2>1. UNCHANGED <<flags, taken, typed>>
    BY <1>9 DEF TrapTimer
  <2> QED BY <2>1, <1>1, <1>9, StepTrapTimer, TextKept
<1>10. CASE TrapKbdEoi
  <2>1. UNCHANGED <<flags, taken, typed>>
    BY <1>10 DEF TrapKbdEoi, driver
  <2> QED BY <2>1, <1>1, <1>10, StepTrapKbdEoi, TextKept
<1>11. CASE TrapUnknown \/ OutOfMemory \/ NoApic
  <2>1. UNCHANGED <<flags, taken, typed>>
    BY <1>11 DEF TrapUnknown, OutOfMemory, NoApic, driver
  <2> QED BY <2>1, <1>1, <1>11, StepPanic, TextKept
<1>12. CASE Iret
  <2>1. UNCHANGED <<flags, taken, typed>>
    BY <1>12 DEF Iret, driver
  <2> QED BY <2>1, <1>1, <1>12, StepIret, TextKept
<1>13. CASE BootCall
  <2>1. UNCHANGED <<flags, taken, typed>>
    BY <1>13 DEF BootCall, driver
  <2> QED BY <2>1, <1>1, <1>13, StepBootCall, TextKept
<1>14. CASE uinit
  <2>1. UNCHANGED <<flags, taken, typed>>
    BY <1>14 DEF uinit, driver
  <2> QED BY <2>1, <1>1, <1>14, StepUinit, TextKept
<1>15. CASE UNCHANGED intVars
  <2>1. UNCHANGED <<flags, taken, typed>>
    BY <1>15 DEF intVars
  <2> QED BY <2>1, <1>1, <1>15, CoreKept, TextKept
<1>16. ASSUME NEW k \in Keys, KeyMoves(k) PROVE IInv'
  <2>1. UNCHANGED <<flags, taken, typed>>
    BY <1>16 DEF KeyMoves, driver
  <2> QED BY <2>1, <1>1, <1>16, StepKeyMoves, TextKept
<1>17. ASSUME NEW v \in {ApicError, Spurious}, DeliverError(v) PROVE IInv'
  <2>1. UNCHANGED <<flags, taken, typed>>
    BY <1>17 DEF DeliverError, driver
  <2> QED BY <2>1, <1>1, <1>17, StepDeliverError, TextKept
<1>18. CASE TrapKbd
  BY <1>1, <1>18, StepTrapKbd, TextTrapKbd
<1> QED BY <1>1, <1>2, <1>3, <1>4, <1>5, <1>6, <1>7, <1>8, <1>9, <1>10, <1>11,
           <1>12, <1>13, <1>14, <1>15, <1>16, <1>17, <1>18 DEF IntNext, Cpu, Spin

LEMMA Inductive == IntSpec => []IInv
<1>1. IInv /\ [IntNext]_intVars => IInv'
  BY StepIInv
<1> QED BY InitIInv, <1>1, PTL DEF IntSpec

-----------------------------------------------------------------------------
(* The theorems.                                                           *)

\* The state of the trap handlers and of the keyboard driver keeps its type,
\* and no more ticks are counted than periods have ended.
THEOREM TypeCorrect == IntSpec => []IntTypeOK
<1>1. IInv => IntTypeOK
  <2> SUFFICES ASSUME IInv PROVE IntTypeOK
    OBVIOUS
  <2>1. Shape /\ TicksBehind
    BY DEF IInv, Core
  <2>2. ticks \in 0 .. periods
    BY <2>1, IntAssumption DEF Shape, TicksBehind
  <2>3. \A k \in 1 .. Len(frames) : frames[k] \in Frame
    BY <2>1 DEF Shape
  <2>4. board.down \subseteq Keys /\ board.queue \in Seq(Code) /\ board.full \in Seq(Code)
    BY <2>1 DEF Shape, BoardType
  <2> QED BY <2>1, <2>2, <2>3, <2>4, Zenon DEF Shape, IntTypeOK, Frame, Vectors, ApicType
<1> QED BY <1>1, Inductive, PTL

\* However interrupts and faults fall among the calls of kernel_main(), trap() is
\* entered only with an IDT (but for the firmware's own interrupts), and neither
\* the timer nor the keyboard nor a page fault that finds memory stops it.
THEOREM ReadyForInterrupts == IntSpec => []StopsForCause
<1>1. IInv => StopsForCause
  <2> SUFFICES ASSUME IInv PROVE StopsForCause
    OBVIOUS
  <2>1. frames # <<>> => Top = frames[1]
    BY TopFirst DEF IInv, Core
  <2>2. frames # <<>> /\ frames[1].vec = Legacy => Pending("apic_init")
    BY PendingFacts DEF IInv, Core, StopSound
  <2> QED BY <2>1, <2>2, Zenon DEF IInv, StopSound, StopsForCause
<1> QED BY <1>1, Inductive, PTL

\* trap() is never interrupted: the stack of the TSS holds one frame.
THEOREM TrapsDoNotNest == IntSpec => []NoNesting
<1>1. IInv => NoNesting
  BY DEF IInv, Core, FrameSound, NoNesting
<1> QED BY <1>1, Inductive, PTL

\* The EOI that trap() and the keyboard handler write ends the interrupt being
\* handled, and none is left in service when the frame is gone.
THEOREM EoiExact == IntSpec => []InServiceExact
<1>1. IInv => InServiceExact
  <2> SUFFICES ASSUME IInv PROVE InServiceExact
    OBVIOUS
  <2>1. Shape /\ FrameSound
    BY DEF IInv, Core
  <2>2. apic.isr \subseteq {Timer, Kbd, ApicError}
    BY <2>1 DEF Shape, ApicType
  <2>3. frames \in Seq(Frame) /\ Len(frames) <= 1
    BY <2>1 DEF Shape, FrameSound
  <2>4. CASE frames = <<>>
    <3>1. Len(frames) = 0
      BY <2>4
    <3>2. apic.isr = {}
      BY <2>1, <2>2, <2>4 DEF FrameSound, At
    <3> QED BY <3>1, <3>2 DEF InServiceExact
  <2>5. CASE frames # <<>>
    <3>1. Len(frames) = 1 /\ frames[1] \in Frame
      BY <2>1, <2>5, TopFirst
    <3>2. frames[1].vec \in Vectors
      BY <3>1 DEF Frame
    <3>3. \A v \in {Timer, Kbd, ApicError} :
            v \in apic.isr <=> frames[1].vec = v /\ frames[1].stage \in {"entry", "eoi"}
      BY <2>1, <2>5 DEF FrameSound, At
    <3>4. \A k : k \in 1 .. Len(frames) <=> k = 1
      BY <3>1
    <3> QED BY <3>2, <3>3, <3>4, <2>2 DEF InServiceExact
  <2> QED BY <2>4, <2>5
<1> QED BY <1>1, Inductive, PTL

\* kbdgetc() always finds a byte, and a byte that waits has its interrupt, once
\* one has been read.
THEOREM KbdByteForEveryInterrupt == IntSpec => []KbdByteThere
<1>1. IInv => KbdByteThere
  <2> SUFFICES ASSUME IInv PROVE KbdByteThere
    OBVIOUS
  <2>1. Shape /\ FrameSound /\ StopSound /\ KbdSound
    BY DEF IInv, Core
  <2>2. Kbd \notin {GP, PF, ApicError, Spurious, Legacy}
    BY DEF Kbd, GP, PF, ApicError, Spurious, Legacy
  <2>3. InHandler(Kbd, "entry") <=> At(Kbd, "entry")
    <3>1. CASE frames = <<>>
      BY <3>1 DEF InHandler, At
    <3>2. CASE frames # <<>>
      <4>1. Top = frames[1]
        BY <2>1, <3>2, TopFirst
      <4> QED BY <4>1, <2>1, <2>2, <3>2 DEF InHandler, At, StopSound, Running
    <3> QED BY <3>1, <3>2
  <2> QED BY <2>1, <2>3, Zenon DEF KbdSound, KbdByteThere
<1> QED BY <1>1, Inductive, PTL

\* Every key pressed prints one character, in order, shifted only while a shift
\* key is held.
THEOREM KeysTypedFaithfully == IntSpec => []TypedFaithful
<1>1. IInv => TypedFaithful
  BY DEF IInv, Text
<1> QED BY <1>1, Inductive, PTL
=============================================================================
