\* Clusters of two bytes and a file of three and a half of them; the word at
\* address 0 happens to equal the cluster of one of the files.
CONSTANTS
    cluster_size = 2
    Clusters <- MCClusters
    Dir <- MCDir
    FatNext <- MCFatNext
    ShortBases <- MCShortBases
    LowWord = 10
    Paths <- MCPaths
    Offsets <- MCOffsets
    Sizes <- MCSizes
    Uint16Size = 8
    Uint64Size = 64
SPECIFICATION FatSpec
INVARIANTS AlignedReadExact NothingKept NameiInDirectory
