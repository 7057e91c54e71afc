-------------------------------- MODULE Disk --------------------------------
(***************************************************************************)
(* The IDE driver (arch/x86/ide.c) against a drive, under the calls that   *)
(* reach it: fat16_init() (fs/fat16/init.c) and the reads of the root      *)
(* directory, of a cluster and of the file allocation table                *)
(* (fs/fat16/common.c).                                                    *)
(*                                                                         *)
(* The drive is external.  It takes any time it likes, or fails, and the   *)
(* driver sees only its status: BSY, DRDY and DRQ.  The contents of a      *)
(* sector are its number.  What the disk holds in the sectors fat16_init() *)
(* reads is the image, a record of the fields the code looks at.           *)
(***************************************************************************)
EXTENDS Integers, Sequences

CONSTANTS
    Images,       \* disks the kernel may be started on
    MaxRetries,   \* polls before a panic: 10000 in the code
    Asked,        \* cluster numbers the file system asks for
    DrqWhenBusy   \* the drive may show DRQ while it is busy

ASSUME DiskAssumption == MaxRetries \in Nat \ {0} /\ DrqWhenBusy \in BOOLEAN

UINT16_MAX == 65535
Words == 0 .. UINT16_MAX

\* The widths of the fields on the disk.  Clusters are numbered from 2, in 16 bits.
ASSUME ImagesAssumption ==
    /\ \A i \in Images :
         /\ i.mbr.bpb_begin \in Nat
         /\ i.bpb.reserved_sectors \in Words /\ i.bpb.sectors_per_fat \in Words
         /\ i.bpb.root_entries \in Words /\ i.bpb.sectors_per_cluster \in 0 .. 255
    /\ Asked \subseteq Words \ {0, 1}

VARIABLES
    image,    \* the disk
    fat16,    \* the layout fat16_init() has computed
    task,     \* whose read it is: [name, cluster, room], room in bytes
    pc,       \* "free", "ready" and "data" in the two polling loops, "done"
    req,      \* arguments of ide_read_seq(): [sector, count]
    retries,  \* polls left
    buf,      \* the sectors read
    drive,    \* [st, lba, left]: state, next sector and sectors to come
    stop      \* the message of panic()

diskVars == <<image, fat16, task, pc, req, retries, buf, drive, stop>>

SECTOR_SIZE == 512

\* The fields of fat16 are 16 bits wide.
Uint16(n) == n % 65536

Running == stop = "none"

NoLayout == [fat_entry |-> 0, rootdir_entry |-> 0, data_entry |-> 0, root_entries |-> 0,
             sector_size |-> 0, sector_per_cluster |-> 0, cluster_size |-> 0]

NoTask == [name |-> "none", cluster |-> 0, room |-> 0]

DiskInit ==
    /\ image \in Images /\ fat16 = NoLayout /\ task = NoTask /\ pc = "free"
    /\ req = [sector |-> 0, count |-> 0] /\ retries = 0 /\ buf = <<>> /\ stop = "none"
    /\ drive \in [st : {"spinup", "idle"}, lba : {0}, left : {0}]

-----------------------------------------------------------------------------
(* The drive.                                                              *)

\* BSY clear and DRDY set.
Ready == drive.st \in {"idle", "drq", "failed"}

\* What the DRQ bit may read as: it means nothing while BSY is set.
DrqSeen == IF drive.st = "busy" /\ DrqWhenBusy THEN BOOLEAN ELSE {drive.st = "drq"}

\* The READ SECTORS command: 28 bits of address, 8 bits of count, 0 for 256.
Accepted(sector, count) ==
    [st |-> "busy", lba |-> sector % 2^28,
     left |-> IF count % 256 = 0 THEN 256 ELSE count % 256]

\* The drive is ready, has the next sector, or gives up on it.
DriveSteps ==
    /\ Running
    /\ \/ drive.st = "spinup" /\ drive' = [drive EXCEPT !.st = "idle"]
       \/ drive.st = "busy" /\ \E s \in {"drq", "failed"} : drive' = [drive EXCEPT !.st = s]
    /\ UNCHANGED <<image, fat16, task, pc, req, retries, buf, stop>>

\* The sector on the data port, when all its words have been read.
OnPort == IF drive.st = "drq" THEN drive.lba ELSE -1

Drained ==
    IF drive.st # "drq" THEN drive
    ELSE [st |-> IF drive.left = 1 THEN "idle" ELSE "busy",
          lba |-> drive.lba + 1, left |-> drive.left - 1]

-----------------------------------------------------------------------------
(* The driver.                                                             *)

Panic(message) ==
    stop' = message /\ UNCHANGED <<image, fat16, task, pc, req, retries, buf, drive>>

\* ide_read_seq(sector, buf, count) for a buffer of room bytes.
Calls(name, cluster, sector, count, room) ==
    /\ task' = [name |-> name, cluster |-> cluster, room |-> room]
    /\ req' = [sector |-> sector, count |-> count]
    /\ pc' = "ready" /\ retries' = MaxRetries /\ buf' = <<>>

\* The loop of ide_wait_ready() and, when it ends well, the command.
ide_wait_ready ==
    /\ Running /\ pc = "ready" /\ retries > 0
    /\ IF Ready
       THEN /\ drive' = Accepted(req.sector, req.count) /\ retries' = MaxRetries
            /\ pc' = IF req.count = 0 THEN "done" ELSE "data"
       ELSE retries' = retries - 1 /\ UNCHANGED <<drive, pc>>
    /\ UNCHANGED <<image, fat16, task, req, buf, stop>>

\* Mutated form: a poll too many is not noticed.
RetriesKept == retries

RetriesLeft == retries - 1

\* Mutated form: the last sector is not fetched.
LastSectorEarly(n) == n + 1 >= req.count

LastSector(n) == n >= req.count

\* Mutated form: DRQ is awaited for the first sector only.
DrqFirstOnly == IF buf = <<>> THEN DrqSeen ELSE {TRUE}

DrqRead == DrqSeen

\* The loop of ide_wait_data() and, when it ends well, the words of a sector.
ide_wait_data ==
    /\ Running /\ pc = "data" /\ retries > 0
    /\ \E drq \in DrqRead :
         IF drq
         THEN /\ buf' = Append(buf, OnPort) /\ drive' = Drained /\ retries' = MaxRetries
              /\ pc' = IF LastSector(Len(buf')) THEN "done" ELSE "data"
         ELSE retries' = RetriesLeft /\ UNCHANGED <<buf, drive, pc>>
    /\ UNCHANGED <<image, fat16, task, req, stop>>

TimesOut ==
    /\ Running /\ retries = 0
    /\ \/ pc = "ready" /\ Panic("IDE: Wait Ready Timeout")
       \/ pc = "data" /\ Panic("IDE: Wait Data Timeout")

-----------------------------------------------------------------------------
(* fat16_init().                                                           *)

ReadMbr ==
    /\ Running /\ pc = "free" /\ task = NoTask
    /\ Calls("mbr", 0, 0, 1, SECTOR_SIZE)
    /\ UNCHANGED <<image, fat16, drive, stop>>

GoodMbr(mbr) == mbr.bootsig = 43605 /\ mbr.boot = 128 /\ mbr.type \in {4, 6}

\* Partition 0 is taken, its first sector cut to 16 bits.
ReadBpb ==
    /\ Running /\ pc = "done" /\ task.name = "mbr"
    /\ IF GoodMbr(image.mbr)
       THEN Calls("bpb", 0, Uint16(image.mbr.bpb_begin), 1, SECTOR_SIZE)
            /\ UNCHANGED <<image, fat16, drive, stop>>
       ELSE Panic("FAT16: Invalid MBR")

GoodBpb(bpb) ==
    /\ bpb.bytes_per_sector = SECTOR_SIZE /\ bpb.fats = 2
    /\ bpb.signature \in {40, 41}

DirSectors(entries, size) == (32 * entries) \div size

\* Mutated form: the fields are as wide as the sums.
LayoutWide(begin, bpb) ==
    LET fat == begin + bpb.reserved_sectors
        root == fat + bpb.sectors_per_fat * bpb.fats
    IN [fat_entry |-> fat, rootdir_entry |-> root,
        data_entry |-> root + DirSectors(bpb.root_entries, bpb.bytes_per_sector),
        root_entries |-> bpb.root_entries, sector_size |-> bpb.bytes_per_sector,
        sector_per_cluster |-> bpb.sectors_per_cluster,
        cluster_size |-> bpb.bytes_per_sector * bpb.sectors_per_cluster]

Layout(begin, bpb) ==
    LET fat == Uint16(begin + bpb.reserved_sectors)
        root == Uint16(fat + bpb.sectors_per_fat * bpb.fats)
    IN [fat_entry |-> fat, rootdir_entry |-> root,
        data_entry |-> Uint16(root + DirSectors(bpb.root_entries, bpb.bytes_per_sector)),
        root_entries |-> bpb.root_entries, sector_size |-> bpb.bytes_per_sector,
        sector_per_cluster |-> bpb.sectors_per_cluster,
        cluster_size |-> Uint16(bpb.bytes_per_sector * bpb.sectors_per_cluster)]

\* The sector that a cut number names in place of the partition's first may hold
\* no BPB, or one like the partition's.
fat16_init ==
    /\ Running /\ pc = "done" /\ task.name = "bpb"
    /\ \/ /\ GoodBpb(image.bpb)
          /\ fat16' = Layout(req.sector, image.bpb) /\ pc' = "free"
          /\ UNCHANGED <<image, task, req, retries, buf, drive, stop>>
       \/ /\ req.sector # image.mbr.bpb_begin \/ ~GoodBpb(image.bpb)
          /\ Panic("FAT16: Invalid BPB")

-----------------------------------------------------------------------------
(* The reads of a running system.                                          *)

Mounted == Running /\ pc = "free" /\ fat16 # NoLayout

\* The root directory, into a buffer of its size, as fat16_find_cluster() does.
fat16_read_rootdir ==
    /\ Mounted
    /\ Calls("rootdir", 0, fat16.rootdir_entry,
             DirSectors(fat16.root_entries, fat16.sector_size), 32 * fat16.root_entries)
    /\ UNCHANGED <<image, fat16, drive, stop>>

\* Mutated form: the data area begins with cluster 0.
SectorFromZero(cluster) == fat16.data_entry + cluster * fat16.sector_per_cluster

SectorOf(cluster) == fat16.data_entry + (cluster - 2) * fat16.sector_per_cluster

fat16_read_cluster(cluster) ==
    /\ Mounted
    /\ Calls("cluster", cluster, SectorOf(cluster), fat16.sector_per_cluster, fat16.cluster_size)
    /\ UNCHANGED <<image, fat16, drive, stop>>

fat_entries == fat16.sector_size \div 2

\* The entry of a cluster is at cluster % fat_entries of this sector.
fat16_next_cluster(cluster) ==
    /\ Mounted
    /\ Calls("fat", cluster, fat16.fat_entry + (cluster \div fat_entries), 1, fat16.sector_size)
    /\ UNCHANGED <<image, fat16, drive, stop>>

\* The caller has used its buffer and frees it.
ReadReturns ==
    /\ Running /\ pc = "done" /\ task.name \in {"rootdir", "cluster", "fat"}
    /\ pc' = "free"
    /\ UNCHANGED <<image, fat16, task, req, retries, buf, drive, stop>>

Kernel == ide_wait_ready \/ ide_wait_data \/ TimesOut \/ ReadMbr \/ ReadBpb \/ fat16_init
            \/ ReadReturns

\* panic() spins.
DiskStopped == ~Running /\ UNCHANGED diskVars

DiskNext ==
    \/ Kernel \/ DriveSteps \/ fat16_read_rootdir \/ DiskStopped
    \/ \E c \in Asked : fat16_read_cluster(c) \/ fat16_next_cluster(c)

\* The kernel runs; the drive promises nothing.
DiskSpec == DiskInit /\ [][DiskNext]_diskVars /\ WF_diskVars(Kernel)

-----------------------------------------------------------------------------
(* Properties.                                                             *)

\* Type invariant: the layout fits the 16-bit fields, a call never polls
\* longer than its limit.
DiskTypeOK ==
    /\ image \in Images /\ pc \in {"free", "ready", "data", "done"}
    /\ \A f \in DOMAIN fat16 : fat16[f] \in Words
    /\ task.name \in {"none", "mbr", "bpb", "rootdir", "cluster", "fat"}
    /\ retries \in 0 .. MaxRetries /\ Len(buf) <= req.count
    /\ drive.st \in {"spinup", "idle", "busy", "drq", "failed"} /\ drive.left \in 0 .. 256

\* However slow the drive and wherever it fails, a read that returns has
\* delivered the sectors asked for, in order and complete.
DataExact == pc = "done" => buf = [k \in 1 .. req.count |-> req.sector + k - 1]

\* When a read returns the drive has nothing left to say: no sector that the
\* next command would cut off, no failure that nobody has seen.
NothingLeftBehind ==
    Running /\ pc \in {"free", "done"} => drive.left = 0 /\ drive.st \in {"spinup", "idle"}

\* The on-disk format, in full-width arithmetic.
TrueFat == image.mbr.bpb_begin + image.bpb.reserved_sectors
TrueRoot == TrueFat + 2 * image.bpb.sectors_per_fat
TrueData == TrueRoot + (32 * image.bpb.root_entries) \div SECTOR_SIZE

\* Images the 16-bit fields can describe.
Fits == TrueData < 65536 /\ SECTOR_SIZE * image.bpb.sectors_per_cluster < 65536

\* A mounted file system reads its directory, clusters and table where the disk
\* has them, all of each, and never beyond the caller's buffer, if the layout
\* fits 16 bits.
RightPlace ==
    Fits =>
      /\ task.name = "rootdir" => /\ req.sector = TrueRoot
                                  /\ req.sector + req.count = TrueData
      /\ task.name = "cluster" =>
           /\ req.count = image.bpb.sectors_per_cluster
           /\ req.sector = TrueData + (task.cluster - 2) * req.count
      /\ task.name = "fat" =>
           req.sector = TrueFat + (2 * task.cluster) \div SECTOR_SIZE
      /\ Len(buf) * SECTOR_SIZE <= task.room

\* Every read ends, in a return or in a panic, even if the drive never answers.
ReadEnds == pc \in {"ready", "data"} ~> (pc \in {"done", "free"} \/ ~Running)
=============================================================================
