\* One block of each size above the kernel and a remainder no block fits in.
\* A block splits into two: every mix of sizes, frees in every order.
CONSTANTS
    KernelEnd = 3
    MemTotal = 18
    AllocatableMax = 18
    PM_4K = 2
    PM_512K = 4
    PM_64M = 8
    SplitN = 2
SPECIFICATION PMSpec
INVARIANTS PMTypeOK Disjoint Conserved PanicOnlyWhenExhausted 
PROPERTY ImplementsPageAlloc
