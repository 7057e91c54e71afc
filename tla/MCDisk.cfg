\* Asked: the first cluster, the next, and one in the second sector of the FAT.
CONSTANTS
    Images <- MCImages
    MaxRetries = 3
    Asked = {2, 3, 300}
    DrqWhenBusy = FALSE
SPECIFICATION DiskSpec
INVARIANTS DiskTypeOK DataExact NothingLeftBehind RightPlace
PROPERTY ReadEnds
