\* Reads that begin inside a cluster, and reads of a fragmented file.
CONSTANTS
    cluster_size = 2
    Clusters <- MCClusters
    Dir <- MCDir
    FatNext <- MCFatNext
    ShortBases <- MCShortBases
    LowWord = 0
    Paths <- MCPaths
    Offsets <- MCNear
    Sizes <- MCNear
    Uint16Size = 8
    Uint64Size = 64
SPECIFICATION FatSpec
INVARIANT ReadExact
