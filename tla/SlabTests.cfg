\* The real sizes, on 72 MiB with a kernel that ends inside the third.
CONSTANTS
    KernelEnd = 2500000
    MemTotal = 75497472
    AllocatableMax = 75497472
    PM_4K = 4096
    PM_512K = 524288
    PM_64M = 67108864
    SplitN = 128
    SLAB_MIN_SIZE = 64
    SLAB_4K = 6
    SLAB_NUM = 14
    MaxLive = 200
    Requests = {}
SPECIFICATION TestSpec
INVARIANT NoPageLostByTests
