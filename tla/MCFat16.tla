------------------------------ MODULE MCFat16 ------------------------------
(***************************************************************************)
(* A small disk: /BIN/SHELL on contiguous clusters, KERNEL.BIN and         *)
(* LONGNAME.TXT in the root, a file whose second cluster is elsewhere, and *)
(* a file whose contents look like a directory.                            *)
(***************************************************************************)
EXTENDS Fat16, TLC

File(b, e, c, n) == [kind |-> "file", base |-> b, ext |-> e, cluster |-> c, size |-> n]
Directory(b, c) == [kind |-> "dir", base |-> b, ext |-> None, cluster |-> c, size |-> 0]
Other(k, b, c) == [kind |-> k, base |-> b, ext |-> None, cluster |-> c, size |-> 1]

MCClusters == 2 .. 13

Named ==
    (0 :> <<Other("unused", "BIN", 9), Other("lfn", "FRAG", 9), Directory("BIN", 2),
            File("KERNEL", "BIN", 10, 2), File("LONGNAME", "TXT", 11, 1),
            File("FRAG", None, 7, 3), File("EMPTY", None, 0, 0), File("FAKE", None, 12, 2)>>)
 @@ (2 :> <<Directory("BIN", 2), File("SHELL", None, 3, 7)>>)
 @@ (12 :> <<File("SHELL", None, 9, 1)>>)

MCDir == [c \in MCClusters \cup {0} |-> IF c \in DOMAIN Named THEN Named[c] ELSE <<>>]

\* SHELL is 3, 4, 5, 6; FRAG is 7, then 9.
MCFatNext == [c \in MCClusters |-> IF c \in 3 .. 5 THEN c + 1 ELSE IF c = 7 THEN 9 ELSE 0]

\* Offsets and sizes inside the files, at their ends, and large ones whose sums
\* wrap around 2^64, by the offset, by the size and by both.
MCOffsets == 0 .. 8 \cup {48, 62, 63}

MCSizes == 0 .. 8 \cup {22, 63}

MCNear == 0 .. 8

MCShortBases == {"BIN", "KERNEL", "FRAG", "EMPTY", "FAKE", "SHELL", "NONE"}

Abs(names) == [abs |-> TRUE, names |-> names, slash |-> FALSE]

MCPaths ==
    {Abs(<<>>), Abs(<<<<"BIN">>, <<"SHELL">>>>), Abs(<<<<"FRAG">>>>), Abs(<<<<"EMPTY">>>>),
     Abs(<<<<"KERNEL">>>>), Abs(<<<<"LONGNAME", "TXT">>>>), Abs(<<<<"BIN">>, <<"NONE">>>>),
     Abs(<<<<"KERNEL", ".", "BIN">>>>), Abs(<<<<"FAKE">>, <<"SHELL">>>>),
     [Abs(<<<<"BIN">>>>) EXCEPT !.slash = TRUE], [Abs(<<<<"BIN">>>>) EXCEPT !.abs = FALSE]}

\* The disk is one that the theorem on path resolution is about.
ASSUME MCPlainNames == PlainNames
=============================================================================
