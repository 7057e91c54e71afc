\* Two shift keys and one character; keys may be pressed from the first call of
\* kernel_main() on.
CONSTANTS
    ShiftKeys = {"left", "right"}
    CharKeys = {"a"}
    MaxEvents = 4
    MaxPeriods = 2
SPECIFICATION IntSpec
INVARIANTS IntTypeOK StopsForCause NoNesting InServiceExact KbdByteThere TypedFaithful
PROPERTY EveryInterruptServed
