------------------------------- MODULE Fat16 -------------------------------
(***************************************************************************)
(* The file system as sys_spawn() uses it: fs/fat16/name.c, common.c and   *)
(* read.c behind fs/vfs.c, and the inode list of fs/inode.c.               *)
(*                                                                         *)
(* The disk is read-only and a parameter.  A byte is <<cluster, position>>,*)
(* so that what a read delivers shows where it came from.  A name is the   *)
(* tuple of its parts: <<b>>, <<b, e>> for the characters of b and e run   *)
(* together, <<b, ".", e>> with the dot; equal tuples are equal strings.   *)
(* An inode's address is abstracted: with one user at a time the list never*)
(* holds two.                                                              *)
(***************************************************************************)
EXTENDS Integers, Sequences, FiniteSets

CONSTANTS
    cluster_size,  \* bytes in a cluster
    Clusters,      \* numbers of the data clusters
    Dir,           \* directory cluster (0: the root) |-> sequence of entries
    FatNext,       \* the file allocation table: cluster |-> next, 0 at the end
    ShortBases,    \* base names of fewer than 8 characters, padded with blanks
    LowWord,       \* the 8 bytes at physical address 0
    Paths,         \* the paths asked for: [abs, names, slash]
    Offsets,       \* the offsets asked for
    Sizes,         \* the sizes asked for
    Uint16Size,    \* 2^16, of the cluster counts
    Uint64Size     \* 2^64, of offset + size

None == "none"

\* Directory entries.  What a cluster of a file holds may be taken for a directory.
DirEntries == [kind : {"unused", "lfn", "file", "dir"}, base : STRING, ext : STRING,
               cluster : Clusters \cup {0}, size : Nat]

\* FAT16 numbers clusters in 16 bits, so a file is smaller than that many; the
\* sizes are powers of two.
ASSUME FatAssumption ==
    /\ cluster_size \in Nat \ {0}
    /\ Uint16Size \in Nat \ {0} /\ Uint64Size \in Nat \ {0}
    /\ Uint64Size % (cluster_size * Uint16Size) = 0
    /\ Offsets \subseteq 0 .. Uint64Size - 1 /\ Sizes \subseteq 0 .. Uint64Size - 1
    /\ Clusters \subseteq Nat /\ DOMAIN Dir = Clusters \cup {0}
    /\ \A d \in Clusters \cup {0} :
         /\ Dir[d] \in Seq(DirEntries)
         /\ \A k \in 1 .. Len(Dir[d]) : Dir[d][k].size < cluster_size * Uint16Size

ASSUME PathsAssumption ==
    Paths \subseteq [abs : BOOLEAN, names : Seq(Seq(STRING)), slash : BOOLEAN]

VARIABLES
    pc,       \* where the kernel is
    path,     \* argument of namei
    depth,    \* components already resolved
    dir,      \* dir_cluster
    ip,       \* the inode in use: [id, size], id 0 for NULL
    ilist,    \* inode_list after its head: sequence of [id, size, refcnt]
    req,      \* arguments of readi: [offset, size]
    i,        \* readi's loop variable
    dst,      \* the bytes written, by distance from the destination
    ret,      \* what readi returned
    bufs      \* buffers taken from the heap and not given back

fatVars == <<pc, path, depth, dir, ip, ilist, req, i, dst, ret, bufs>>

NoInode == [id |-> 0, size |-> 0]

FatInit ==
    /\ pc = "idle" /\ path \in Paths /\ depth = 0 /\ dir = 0
    /\ ip = NoInode /\ ilist = <<>>
    /\ req = [offset |-> 0, size |-> 0] /\ i = 0 /\ dst = <<>> /\ ret = 0 /\ bufs = 0

-----------------------------------------------------------------------------
(* Path resolution.                                                        *)

\* What the comparison sees of an entry: blanks become end of string, so a
\* padded base hides the extension; a full base is followed by it, undotted.
Shown(e) == IF e.base \in ShortBases \/ e.ext = None THEN <<e.base>> ELSE <<e.base, e.ext>>

\* Mutated form: long file name entries are not skipped.
MatchesAny(e, name) == e.kind # "unused" /\ Shown(e) = name

Matches(e, name) == e.kind \notin {"unused", "lfn"} /\ Shown(e) = name

Hits(name, d) == {k \in 1 .. Len(Dir[d]) : Matches(Dir[d][k], name)}

\* fat16_find_cluster(): the first match, or cluster 0.
fat16_find_cluster(name, d) ==
    IF Hits(name, d) = {} THEN [cluster |-> 0, size |-> 0]
    ELSE LET k == CHOOSE k \in Hits(name, d) : \A l \in Hits(name, d) : k <= l
         IN [cluster |-> Dir[d][k].cluster, size |-> Dir[d][k].size]

\* vfs_namei() is called; only absolute paths are supported.
NameiBegin(p) ==
    /\ pc = "idle"
    /\ path' = p /\ depth' = 0 /\ dir' = 0
    /\ pc' = IF p.abs THEN "walk" ELSE "null"
    /\ UNCHANGED <<ip, ilist, req, i, dst, ret, bufs>>

Name == path.names[depth + 1]

Last == depth + 1 = Len(path.names)

\* fat16_find_cluster() is called for a component: the root directory or the
\* cluster is read into a buffer from the heap.
NameiRead ==
    /\ pc = "walk" /\ depth < Len(path.names)
    /\ pc' = "search" /\ bufs' = bufs + 1
    /\ UNCHANGED <<path, depth, dir, ip, ilist, req, i, dst, ret>>

\* Mutated form: only the way out with a match frees the buffer.
FreeDirOnHit(f) == IF f.cluster = 0 THEN bufs ELSE bufs - 1

\* The buffer is freed on both ways out of the search.
FreeDir(f) == bufs - 1

\* The search ends, and fat16_namei() goes on with what it found.
NameiStep ==
    /\ pc = "search"
    /\ LET f == fat16_find_cluster(Name, dir)
       IN /\ pc' = IF f.cluster = 0 \/ (Last /\ path.slash) THEN "null"
                   ELSE IF Last THEN "found" ELSE "walk"
          /\ dir' = IF Last THEN dir ELSE f.cluster
          /\ ip' = IF Last /\ ~path.slash THEN [id |-> f.cluster, size |-> f.size] ELSE ip
          /\ depth' = depth + 1
          /\ bufs' = FreeDir(f)
    /\ UNCHANGED <<path, ilist, req, i, dst, ret>>

\* The path is "/".
NameiEmpty ==
    /\ pc = "walk" /\ depth = Len(path.names)
    /\ pc' = "null"
    /\ UNCHANGED <<path, depth, dir, ip, ilist, req, i, dst, ret, bufs>>

\* sys_spawn() returns -1.
NameiNull ==
    /\ pc = "null"
    /\ pc' = "idle" /\ ip' = NoInode
    /\ UNCHANGED <<path, depth, dir, ilist, req, i, dst, ret, bufs>>

\* ialloc(): the head of the list has no inode, so the search first reads the
\* id at physical address 0; then the list; else a new inode.
ialloc ==
    /\ pc = "found"
    /\ LET same == {k \in 1 .. Len(ilist) : ilist[k].id = ip.id}
       IN IF LowWord = ip.id THEN pc' = "null" /\ UNCHANGED ilist
          ELSE /\ pc' = "open"
               /\ ilist' = IF same = {}
                           THEN Append(ilist, [id |-> ip.id, size |-> ip.size, refcnt |-> 1])
                           ELSE [k \in 1 .. Len(ilist) |->
                                  IF k \in same
                                  THEN [ilist[k] EXCEPT !.refcnt = @ + 1, !.size = ip.size]
                                  ELSE ilist[k]]
    /\ UNCHANGED <<path, depth, dir, ip, req, i, dst, ret, bufs>>

\* ifree() of the inode at position k of the list.
Dropped(k) ==
    IF ilist[k].refcnt > 2 THEN [ilist EXCEPT ![k].refcnt = @ - 1]
    ELSE SubSeq(ilist, 1, k - 1) \o SubSeq(ilist, k + 1, Len(ilist))

ifree ==
    /\ pc \in {"open", "done"}
    /\ \E k \in 1 .. Len(ilist) : ilist[k].id = ip.id /\ ilist' = Dropped(k)
    /\ pc' = "idle" /\ ip' = NoInode /\ dst' = <<>>
    /\ UNCHANGED <<path, depth, dir, req, i, ret, bufs>>

-----------------------------------------------------------------------------
(* Reading a file.                                                         *)

Byte(c, k) == <<c, k>>

\* memcpy(dst + at, buf + from, n) with cluster c in the buffer: dst is a set
\* of <<distance, byte>>, one per distance.
Copy(d, at, c, from, n) ==
    [k \in DOMAIN d \cup (at .. at + n - 1) |->
        IF k \in at .. at + n - 1 THEN Byte(c, from + k - at) ELSE d[k]]

\* offset + size and the cluster counts, in the width of the code.
EndOf(offset, size) == (offset + size) % Uint64Size
ClusterOf(offset) == (offset \div cluster_size) % Uint16Size

PastEnd(offset, size) == EndOf(offset, size) > ip.size

First == ClusterOf(req.offset)
Remain == req.offset % cluster_size
End == ClusterOf(EndOf(req.offset, req.size))
EndRemain == EndOf(req.offset, req.size) % cluster_size

ReadBegin(offset, size) ==
    /\ pc \in {"open", "done"}
    /\ req' = [offset |-> offset, size |-> size] /\ dst' = <<>>
    /\ IF PastEnd(offset, size)
       THEN ret' = -1 /\ pc' = "done" /\ UNCHANGED <<i, bufs>>
       ELSE ret' = 0 /\ pc' = "read" /\ i' = ClusterOf(offset) /\ bufs' = bufs + 1
    /\ UNCHANGED <<path, depth, dir, ip, ilist>>

\* Mutated form: the middle clusters are written one cluster early.
ChunkEarly ==
    IF i = First /\ i = End THEN Copy(dst, 0, ip.id + i, Remain, req.size)
    ELSE IF i = First THEN Copy(dst, 0, ip.id + i, Remain, cluster_size - Remain)
    ELSE IF i = End THEN Copy(dst, (i - First) * cluster_size, ip.id + i, 0, EndRemain)
    ELSE Copy(dst, (i - First - 1) * cluster_size, ip.id + i, 0, cluster_size)

\* The cluster read in this round is the i-th after the file's first: the file
\* allocation table is not consulted.
Chunk ==
    IF i = First /\ i = End THEN Copy(dst, 0, ip.id + i, Remain, req.size)
    ELSE IF i = First THEN Copy(dst, 0, ip.id + i, Remain, cluster_size - Remain)
    ELSE IF i = End THEN Copy(dst, (i - First) * cluster_size, ip.id + i, 0, EndRemain)
    ELSE Copy(dst, (i - First) * cluster_size, ip.id + i, 0, cluster_size)

ReadCluster ==
    /\ pc = "read" /\ i <= End
    /\ dst' = Chunk /\ i' = i + 1
    /\ UNCHANGED <<pc, path, depth, dir, ip, ilist, req, ret, bufs>>

\* A read of one cluster copies as much as was asked for, more than the buffer
\* holds when the size made the end wrap around.
Overruns == i = First /\ i = End /\ req.size > cluster_size - Remain

\* Such a copy delivers the memory behind the buffer (ReadCluster, with positions
\* beyond the cluster), or leaves what is mapped and the kernel stops.
ReadTrap ==
    /\ pc = "read" /\ Overruns
    /\ pc' = "trap"
    /\ UNCHANGED <<path, depth, dir, ip, ilist, req, i, dst, ret, bufs>>

FatStopped == pc = "trap" /\ UNCHANGED fatVars

ReadEnd ==
    /\ pc = "read" /\ i > End
    /\ pc' = "done" /\ bufs' = bufs - 1
    /\ UNCHANGED <<path, depth, dir, ip, ilist, req, i, dst, ret>>

FatNextStep ==
    \/ \E p \in Paths : NameiBegin(p)
    \/ NameiRead \/ NameiStep \/ NameiEmpty \/ NameiNull \/ ialloc \/ ifree
    \/ \E o \in Offsets, n \in Sizes : ReadBegin(o, n)
    \/ ReadCluster \/ ReadTrap \/ ReadEnd \/ FatStopped

FatSpec == FatInit /\ [][FatNextStep]_fatVars

-----------------------------------------------------------------------------
(* Properties.                                                             *)

\* The k-th cluster of the chain that begins at c.
Hop[k \in 0 .. Uint64Size \div cluster_size] ==
    [c \in Clusters \cup {0} |->
        IF k = 0 THEN c ELSE IF c = 0 THEN 0 ELSE FatNext[Hop[k - 1][c]]]

\* Byte number o of the file that begins at cluster c.
FileByte(c, o) == Byte(Hop[o \div cluster_size][c], o % cluster_size)

\* What a read must do for its caller: size bytes of the file from offset on, and no
\* other byte of memory written.
Exact ==
    /\ DOMAIN dst = 0 .. req.size - 1
    /\ \A k \in DOMAIN dst : dst[k] = FileByte(ip.id, req.offset + k)

\* The clusters up to the last one the read needs follow one another.
Contiguous ==
    \A k \in 0 .. (req.offset + req.size - 1) \div cluster_size : Hop[k][ip.id] = ip.id + k

Wraps == req.offset + req.size >= Uint64Size

\* A size that some file can have.
FileSized == req.size < cluster_size * (Uint16Size - 1)

\* fat16_readi(): a read inside one cluster, or from the start of one, of a file
\* that is not fragmented delivers exactly the bytes asked for; a read past the
\* end is refused, or, when the offset makes offset + size wrap around and pass
\* the check, ends before it has begun.  Nothing is said of a size so large that
\* it wraps the sum by itself: read.c:30 copies that many bytes.
AlignedReadExact ==
    pc = "done" =>
      IF ret = -1 THEN dst = <<>> /\ req.offset + req.size > ip.size
      ELSE IF Wraps THEN FileSized => dst = <<>>
      ELSE (Remain = 0 \/ First = End) /\ Contiguous => Exact

\* Every way through fat16_find_cluster() and fat16_readi() gives back its buffer,
\* a path that is not found leaves no inode, and ifree() leaves none.
NothingKept ==
    /\ pc \in {"idle", "null"} => ilist = <<>>
    /\ pc \in {"idle", "walk", "null", "found", "open", "done"} => bufs = 0

\* The ways of a path through directories, from the root to the one its last
\* name is looked up in.
Through ==
    [p \in Paths |->
        {ds \in [1 .. Len(p.names) -> Clusters \cup {0}] :
            /\ p.names # <<>> => ds[1] = 0
            /\ \A k \in 1 .. Len(p.names) - 1 : \E l \in 1 .. Len(Dir[ds[k]]) :
                 LET e == Dir[ds[k]][l]
                 IN e.kind = "dir" /\ <<e.base>> = p.names[k] /\ e.cluster = ds[k + 1]}]

InDirectory(d) ==
    \E k \in 1 .. Len(Dir[d]) :
      LET e == Dir[d][k]
      IN /\ e.base = path.names[Len(path.names)][1] /\ e.kind \in {"file", "dir"}
         /\ e.cluster = ip.id /\ e.size = ip.size

\* A path that runs through directories yields an entry of the last of them
\* with the base name asked for, its cluster and its size.
NameiInDirectory ==
    pc \in {"found", "open", "read", "done"} =>
      \A ds \in Through[path] : InDirectory(ds[Len(path.names)])

\* A disk whose directories have no extension and are not taken for another file
\* of the same directory when the comparison loses the extension of that file.
PlainNames ==
    \A d \in Clusters \cup {0} : \A k \in 1 .. Len(Dir[d]) :
      Dir[d][k].kind = "dir" =>
        /\ Dir[d][k].ext = None
        /\ \A l \in 1 .. Len(Dir[d]) :
             Dir[d][l].kind \in {"file", "dir"} /\ Shown(Dir[d][l]) = Shown(Dir[d][k]) => l = k

\* "Load the file into memory": every read inside a file delivers exactly the
\* bytes asked for, wherever it begins and however the file lies on the disk.
ReadExact == pc = "done" /\ ret = 0 => Exact
=============================================================================
