\* As many headers as the loop variable counts, as many and more tables than the count holds, two buses of two slots.
CONSTANTS
    VolumeLists <- MCVolumeLists
    Kernels <- MCKernels
    Ram <- MCRam
    Uint8Size = 4
    MaxMoves = 2
    Xsdts <- MCXsdts
    TableCounts = 4
    FwTables <- MCFwTables
    PdSpan = 2
    NBus = 2
    NSlot = 2
    NFunc = 3
    Machines <- MCMachines
SPECIFICATION StartSpec
INVARIANTS KernelIntact HaltHasCause MadtExact EndsAtReadOnly EachDeviceOnce
PROPERTY StartupEnds
