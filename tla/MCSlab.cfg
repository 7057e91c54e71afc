\* The four static slabs and room for some growth of every class.
CONSTANTS
    KernelEnd = 20
    MemTotal = 56
    AllocatableMax = 56
    PM_4K = 4
    PM_512K = 8
    PM_64M = 16
    SplitN = 2
    SLAB_MIN_SIZE = 1
    SLAB_4K = 2
    SLAB_NUM = 4
    MaxLive = 6
    Requests = {1, 2, 7, 9}
SPECIFICATION SSpec
INVARIANTS SlabTypeOK BitmapExact HeapDisjoint FreeNeverPanics DrainedIsPristine
PROPERTY GrowOnlyWhenFull
