------------------------------- MODULE Serial -------------------------------
(***************************************************************************)
(* What the kernel prints and what arrives at the other end of the line:   *)
(* _kprintf() (serial.c, include/serial.h) on the polled driver of COM1    *)
(* (arch/x86/serial.c), with the handlers of trap() that print while the   *)
(* kernel prints (arch/x86/trap.c).                                        *)
(*                                                                         *)
(* The UART is external: it sends at its own pace, may be faulty (its      *)
(* loopback test fails) or absent (every port reads 0xFF).  A run of       *)
(* literal text counts as one character, a conversion is a token "%d",     *)
(* "%s"...; a read of user memory that faults is marked by Fault.          *)
(***************************************************************************)
EXTENDS Integers, Sequences, SequencesExt

CONSTANTS
    FifoSize,      \* 16: what the transmitter holds when its FIFO is enabled
    Scripts,       \* what the kernel prints: [intr, calls], a call is [fmt, args]
    TicksPerLine,  \* 100: ticks between two lines of the timer
    MaxTicks,      \* bound: timer interrupts
    MaxKeys        \* bound: keyboard interrupts

Calls == [fmt : Seq(STRING), args : Seq([n : Nat, s : Seq(STRING)])]

\* A FIFO holds more than one character, unlike the transmitter without it.
ASSUME SerialAssumption ==
    /\ FifoSize \in Nat \ {0, 1} /\ TicksPerLine \in Nat \ {0} /\ MaxTicks \in Nat /\ MaxKeys \in Nat
    /\ Scripts \subseteq [intr : BOOLEAN, calls : Seq(Calls)]

VARIABLES
    uart,    \* [chip, depth, loop, fifo]: kind, capacity, loopback, waiting characters
    line,    \* characters sent: [msg, ch]
    msgs,    \* everything begun to be printed: [text, val], val the tick count or 0
    frames,  \* who is printing, innermost last: [msg, text, ready, ifl]
    intr,    \* RFLAGS.IF
    ticks,
    keys     \* keys handled

serialVars == <<uart, line, msgs, frames, intr, ticks, keys>>

-----------------------------------------------------------------------------
(* Formatting.  An argument is [n, s]: its value as a number, as a string. *)

digits == <<"0", "1", "2", "3", "4", "5", "6", "7", "8", "9", "A", "B", "C", "D", "E", "F">>

Fault == "fault"
Null == <<"NULL">>

Number(n, base) ==
    LET printn[m \in 0 .. n] ==
          (IF m \div base # 0 THEN printn[m \div base] ELSE <<>>) \o <<digits[(m % base) + 1]>>
    IN printn[n]

Conversions == {"%d", "%x", "%p", "%o", "%c", "%s", "%X"}

Converted(c, a) ==
    CASE c = "%d" -> Number(a.n, 10)
      [] c \in {"%x", "%p"} -> <<"0x">> \o Number(a.n, 16)
      [] c = "%o" -> <<"0o">> \o Number(a.n, 8)
      [] c = "%c" -> a.s
      [] c = "%s" -> IF a.s = Null THEN <<"(null)">> ELSE a.s
      [] c = "%X" -> Number(a.n, 16)

\* The other characters that may follow a '%'.
Unknown == {"%l"}

\* The arguments used when token k is reached.
arg_index(call, k) == Cardinality({j \in 1 .. k - 1 : call.fmt[j] \in Conversions})

\* A token after which _kprintf() returns: an error.
Returns(call, k) ==
    /\ call.fmt[k] \in Conversions \cup Unknown
    /\ arg_index(call, k) >= Len(call.args) \/ call.fmt[k] \in Unknown

\* What token k prints.
Put(call, k) ==
    IF call.fmt[k] \notin Conversions \cup Unknown THEN <<call.fmt[k]>>
    ELSE IF arg_index(call, k) >= Len(call.args) THEN <<"Error: Not enough arguments">>
    ELSE IF call.fmt[k] \in Unknown THEN <<"Unknown format ", "l">>
    ELSE Converted(call.fmt[k], call.args[arg_index(call, k) + 1])

\* The tokens it gets to: all, or those up to the first after which it returns.
Reached(call) ==
    {k \in 1 .. Len(call.fmt) : \A j \in 1 .. k - 1 : ~Returns(call, j)}

_kprintf(call) == FlattenSeq([k \in 1 .. Cardinality(Reached(call)) |-> Put(call, k)])

Text(calls) == FlattenSeq([k \in 1 .. Len(calls) |-> _kprintf(calls[k])])

Arg(n, s) == [n |-> n, s |-> s]

\* The lines of trap().
TickLine(t) == _kprintf([fmt |-> <<"ticks = ", "%d", "\n">>, args |-> <<Arg(t, Null)>>])
KbdLine == _kprintf([fmt |-> <<"kbd: ", "%c", "\n">>, args |-> <<Arg(0, <<"k">>)>>])
PFLine == _kprintf([fmt |-> <<"#PF: CR2 = ", "%x", "\n">>, args |-> <<Arg(11, Null)>>])

-----------------------------------------------------------------------------
(* The driver and the UART.                                                *)

SerialInit ==
    /\ uart \in [chip : {"good", "faulty", "absent"}, depth : {1}, loop : {FALSE}, fifo : {<<>>}]
    /\ line = <<>> /\ msgs = <<>> /\ frames = <<>> /\ intr = FALSE /\ ticks = 0 /\ keys = 0

\* Mutated form: the FIFO is left disabled.
FifoOff == 1

\* 0xC7 to the FIFO control register.
FifoEnabled == FifoSize

\* The chip is left in loopback mode if the byte sent does not come back, and
\* kernel_stub() does not look at the result.  Then the script begins.
serial_init(s) ==
    /\ frames = <<>>
    /\ uart' = [uart EXCEPT !.depth = FifoEnabled, !.loop = uart.chip # "good"]
    /\ msgs' = <<[text |-> Text(s.calls), val |-> 0]>>
    /\ frames' = <<[msg |-> 1, text |-> Text(s.calls), ready |-> FALSE, ifl |-> s.intr]>>
    /\ intr' = s.intr
    /\ UNCHANGED <<line, ticks, keys>>

Top == frames[Len(frames)]

Writing == frames # <<>> /\ Top.text # <<>> /\ Head(Top.text) # Fault

\* Mutated form: bit 0 of the status, data received.
DataReady == uart.chip = "absent"

\* Bit 5 of the status: the transmitter has nothing waiting.  0xFF if absent.
serial_ready == uart.chip = "absent" \/ uart.fifo = <<>>

\* The loop of serial_putchar() ends.
Poll ==
    /\ Writing /\ ~Top.ready /\ serial_ready
    /\ frames' = [frames EXCEPT ![Len(frames)].ready = TRUE]
    /\ UNCHANGED <<uart, line, msgs, intr, ticks, keys>>

\* Another round of the loop.
PollAgain == Writing /\ ~Top.ready /\ ~serial_ready /\ UNCHANGED serialVars

\* A write to a transmitter that is full is lost.
Write(c) ==
    IF uart.chip = "absent" \/ Len(uart.fifo) >= uart.depth THEN uart
    ELSE [uart EXCEPT !.fifo = Append(@, c)]

\* The outb() of serial_putchar(), an instruction after the loop.
serial_putchar ==
    /\ Writing /\ Top.ready
    /\ uart' = Write([msg |-> Top.msg, ch |-> Head(Top.text)])
    /\ frames' = [frames EXCEPT ![Len(frames)].text = Tail(@), ![Len(frames)].ready = FALSE]
    /\ UNCHANGED <<line, msgs, intr, ticks, keys>>

\* The UART sends a character; in loopback mode it does not reach the line.
Send ==
    /\ uart.fifo # <<>>
    /\ uart' = [uart EXCEPT !.fifo = Tail(@)]
    /\ line' = IF uart.loop THEN line ELSE Append(line, Head(uart.fifo))
    /\ UNCHANGED <<msgs, frames, intr, ticks, keys>>

-----------------------------------------------------------------------------
(* Handlers.                                                               *)

\* Mutated form: trap gates.
HandlerIntrOn == TRUE

\* Interrupt gates: IF is clear in a handler.
HandlerIntr == FALSE

Handle(text, val, interrupted) ==
    /\ frames' = Append(interrupted, [msg |-> Len(msgs) + 1, text |-> text, ready |-> FALSE,
                                      ifl |-> intr])
    /\ msgs' = Append(msgs, [text |-> text, val |-> val])
    /\ intr' = HandlerIntr

\* A timer interrupt; most print nothing.
TrapTimer ==
    /\ frames # <<>> /\ intr /\ ticks < MaxTicks
    /\ ticks' = ticks + 1
    /\ IF ticks' % TicksPerLine = 0 THEN Handle(TickLine(ticks'), ticks', frames)
       ELSE UNCHANGED <<msgs, frames, intr>>
    /\ UNCHANGED <<uart, line, keys>>

TrapKbd ==
    /\ frames # <<>> /\ intr /\ keys < MaxKeys
    /\ keys' = keys + 1
    /\ Handle(KbdLine, 0, frames)
    /\ UNCHANGED <<uart, line, ticks>>

\* The string of %s is in user memory and the page of its next byte is not
\* there yet; the new page holds zeroes, so the string ends.
TrapPF ==
    /\ frames # <<>> /\ Top.text # <<>> /\ Head(Top.text) = Fault
    /\ Handle(PFLine, 0, [frames EXCEPT ![Len(frames)].text = Tail(@)])
    /\ UNCHANGED <<uart, line, ticks, keys>>

Iret ==
    /\ Len(frames) > 1 /\ Top.text = <<>>
    /\ frames' = Front(frames) /\ intr' = Top.ifl
    /\ UNCHANGED <<uart, line, msgs, ticks, keys>>

\* Everything is printed; the kernel spins.
Spin ==
    /\ frames # <<>> /\ Len(frames) = 1 /\ Top.text = <<>> /\ uart.fifo = <<>>
    /\ UNCHANGED serialVars

Cpu == Poll \/ serial_putchar \/ TrapPF \/ Iret \/ \E s \in Scripts : serial_init(s)

SerialNext == Cpu \/ Send \/ TrapTimer \/ TrapKbd \/ PollAgain \/ Spin

\* The processor runs and a UART that works keeps sending.  Nothing is assumed of a
\* faulty one, whose transmitter may never be empty again, and nothing makes an
\* interrupt come.
SerialSpec ==
    /\ SerialInit /\ [][SerialNext]_serialVars
    /\ WF_serialVars(Cpu) /\ WF_serialVars(uart.chip = "good" /\ Send)

-----------------------------------------------------------------------------
(* Properties.                                                             *)

Accepted == line \o uart.fifo

NoFault(text) ==
    FlattenSeq([k \in 1 .. Len(text) |-> IF text[k] = Fault THEN <<>> ELSE <<text[k]>>])

CharsOf(id) ==
    FlattenSeq([k \in 1 .. Len(Accepted) |->
                  IF Accepted[k].msg = id THEN <<Accepted[k].ch>> ELSE <<>>])

StillToPrint(id) ==
    LET at == {k \in 1 .. Len(frames) : frames[k].msg = id}
    IN IF at = {} THEN <<>> ELSE frames[CHOOSE k \in at : TRUE].text

Decimal(d) ==
    LET value[k \in 0 .. Len(d)] ==
          IF k = 0 THEN 0
          ELSE 10 * value[k - 1] + (CHOOSE v \in 0 .. 9 : digits[v + 1] = d[k])
    IN value[Len(d)]

\* With a chip that works no character is lost, doubled or reordered: what was
\* accepted of a message and what is still to print make up its text, although
\* the transmitter may have been filled by a handler between the test of its
\* status and the write.  And a line of the timer reads as the tick count.
OutputExact ==
    /\ uart.chip = "good" =>
         \A id \in 1 .. Len(msgs) :
            NoFault(msgs[id].text) = CharsOf(id) \o NoFault(StillToPrint(id))
    /\ \A id \in 1 .. Len(msgs) : msgs[id].val # 0 =>
         LET d == SubSeq(msgs[id].text, 2, Len(msgs[id].text) - 1)
         IN d[1] # "0" /\ Decimal(d) = msgs[id].val

\* A handler's line is never split: not by another handler and not by the
\* character the kernel was about to write when it was interrupted.
LinesWhole ==
    \A j, k \in 1 .. Len(Accepted) :
        Accepted[j].msg = Accepted[k].msg /\ Accepted[j].msg # 1
          => \A l \in j .. k : Accepted[l].msg = Accepted[j].msg

\* Printing ends, with a chip that works and with none (whose status reads as
\* ready), although serial_putchar() waits without a limit: every handler returns
\* and the kernel gets through its own text.  With a faulty chip, which
\* serial_init() notices and nobody asks for, it need not end.
PrintEnds ==
    /\ uart.chip # "faulty" /\ Len(frames) > 1 ~> Len(frames) = 1
    /\ uart.chip # "faulty" /\ frames # <<>> ~> (Len(frames) = 1 /\ Top.text = <<>>)
=============================================================================
