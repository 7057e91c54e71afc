\* A line of one digit and one of two, and one key.
CONSTANTS
    FifoSize = 16
    Scripts <- MCScripts
    TicksPerLine = 5
    MaxTicks = 10
    MaxKeys = 1
SPECIFICATION SerialSpec
INVARIANTS OutputExact LinesWhole
PROPERTY PrintEnds
