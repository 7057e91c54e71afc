\* Frames enough for two full address spaces, but not for everything at once.
CONSTANTS
    NFrames = 18
    VAddrs <- MCVAddrs
    MaxPhnum = 2
SPECIFICATION VMSpec
INVARIANTS VMTypeOK OwnedOnce HalvesApart CurprocRestored
PROPERTY SpawnEnds
