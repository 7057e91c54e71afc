\* A spawn after init has run.
CONSTANTS
    NFrames = 18
    VAddrs <- MCVAddrs
    MaxPhnum = 2
SPECIFICATION VMSpec
INVARIANT ImageInNewProcess
