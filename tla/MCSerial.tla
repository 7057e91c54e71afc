------------------------------ MODULE MCSerial ------------------------------
(* What Serial prints: the lines of a spawn whose path runs into a page    *)
(* that is not there, and those of acpi_init() for a LAPIC override.       *)
EXTENDS Serial

Call(fmt, args) == [fmt |-> fmt, args |-> args]

MCScripts ==
    {[intr |-> TRUE,
      calls |-> <<Call(<<"#SYSCALL: ">>, <<>>),
                  Call(<<"sys_spawn(", "%s", ")">>, <<Arg(0, <<"/", Fault>>)>>),
                  Call(<<" mapped ", "%x", "-", "%x">>, <<Arg(16, Null), Arg(27, Null)>>)>>],
     [intr |-> FALSE,
      calls |-> <<Call(<<"  OEMID: ", "%s", "\n">>, <<Arg(0, <<"B">>)>>),
                  Call(<<"    Local APIC Address: ", "%l", "l", "x", "\n">>, <<Arg(5, Null)>>)>>]}
=============================================================================
