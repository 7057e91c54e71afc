\* A spawn of a file that is rejected.
CONSTANTS
    NFrames = 18
    VAddrs <- MCVAddrs
    MaxPhnum = 2
SPECIFICATION VMSpec
INVARIANT BadFileIsSurvived
