----------------------------- MODULE DiskProofs -----------------------------
(***************************************************************************)
(* Proofs about the IDE driver for any disk, any number of retries and any *)
(* speed of the drive.                                                     *)
(*                                                                         *)
(* The drive counts down what the command asked for while the driver       *)
(* counts up what it has: as long as the drive has something to send, the  *)
(* two add up to the sectors of the command, and the sector on the port is *)
(* the next one of the buffer.  The count of the command is the caller's   *)
(* modulo 256, so the drive never has more to send than the driver wants:  *)
(* it may run dry early, and then the poll times out, but a read that      *)
(* returns leaves nothing behind.                                          *)
(***************************************************************************)
EXTENDS Disk, SequenceTheorems, TLAPS

-----------------------------------------------------------------------------
(* Arithmetic.                                                             *)

LEMMA WordFacts ==
  /\ \A n : n \in Words <=> n \in Nat /\ n <= UINT16_MAX
  /\ UINT16_MAX \in Nat /\ UINT16_MAX + 1 = 65536
<1>1. UINT16_MAX \in Nat /\ UINT16_MAX + 1 = 65536
  BY DEF UINT16_MAX
<1>2. ASSUME NEW m \in Nat PROVE \A n : n \in 0 .. m <=> n \in Nat /\ n <= m
  OBVIOUS
<1> QED BY <1>1, <1>2 DEF Words

LEMMA Uint16Facts ==
  ASSUME NEW n \in Nat
  PROVE  Uint16(n) \in Words /\ (n < 65536 => Uint16(n) = n)
<1>1. Uint16(n) \in Nat /\ Uint16(n) < 65536
  BY DEF Uint16
<1>2. n < 65536 => Uint16(n) = n
  BY DEF Uint16
<1> QED BY <1>1, <1>2, WordFacts

\* A cluster of a 16-bit number and 8-bit size begins below sector 2^24.
LEMMA ProductBound ==
  ASSUME NEW d \in Nat, d < 65534, NEW s \in 0 .. 255
  PROVE  d * s \in Nat /\ d * s < 16711170
<1>1. PICK a \in Nat : a = d * s
  OBVIOUS
<1>2. PICK b \in Nat : b = d * (255 - s)
  OBVIOUS
<1>3. d * 255 = a + b
  BY <1>1, <1>2
<1>4. d * 255 < 16711170
  OBVIOUS
<1> QED BY <1>1, <1>3, <1>4

\* Sectors of a command as the drive counts them.
Counted(count) == IF count % 256 = 0 THEN 256 ELSE count % 256

LEMMA CountedFacts ==
  ASSUME NEW count \in Nat
  PROVE  Counted(count) \in 1 .. 256 /\ (count # 0 => Counted(count) <= count)
BY DEF Counted

-----------------------------------------------------------------------------
(* The inductive invariant.                                                *)

\* Bounds of the arguments of ide_read_seq(): the last sector of the last cluster,
\* and the sectors of the largest root directory.
SectorLimit == 16776706
CountLimit == 4096

LayoutType == [fat_entry : Words, rootdir_entry : Words, data_entry : Words, root_entries : Words,
               sector_size : {512}, sector_per_cluster : 0 .. 255, cluster_size : Words]

ImageTyped ==
  /\ image \in Images
  /\ image.mbr.bpb_begin \in Nat
  /\ image.bpb.reserved_sectors \in Words /\ image.bpb.sectors_per_fat \in Words
  /\ image.bpb.root_entries \in Words /\ image.bpb.sectors_per_cluster \in 0 .. 255

\* A layout is the one of a valid BPB.
LaidOut ==
  \/ fat16 = NoLayout
  \/ /\ GoodBpb(image.bpb)
     /\ fat16 = Layout(image.mbr.bpb_begin, image.bpb)

\* The arguments of a read follow from its task and the layout.
Request(sector, count, room) ==
  req.sector = sector /\ req.count = count /\ task.room = room

ReqSound ==
  /\ req.sector \in Nat /\ req.sector < SectorLimit /\ req.count \in Nat /\ req.count < CountLimit
  /\ \/ task = NoTask /\ pc = "free" /\ req.count = 0
     \/ /\ task.name \in {"mbr", "bpb"} /\ req.count = 1 /\ task.room = SECTOR_SIZE
        /\ task.name = "bpb" => req.sector = Uint16(image.mbr.bpb_begin)
     \/ /\ fat16 # NoLayout
        /\ \/ /\ task.name = "rootdir"
              /\ Request(fat16.rootdir_entry, DirSectors(fat16.root_entries, 512),
                         32 * fat16.root_entries)
           \/ /\ task.name = "cluster" /\ task.cluster \in Words \ {0, 1}
              /\ Request(SectorOf(task.cluster), fat16.sector_per_cluster, fat16.cluster_size)
           \/ /\ task.name = "fat" /\ task.cluster \in Words \ {0, 1}
              /\ Request(fat16.fat_entry + (task.cluster \div 256), 1, 512)

DriveType ==
  [st : {"spinup", "idle", "busy", "drq", "failed"}, lba : Nat, left : 0 .. 256]

DriveTyped ==
  /\ drive \in DriveType
  /\ drive.st \in {"busy", "drq"} => drive.left >= 1

PollSound ==
  /\ pc \in {"free", "ready", "data", "done"}
  /\ retries \in 0 .. MaxRetries
  /\ buf \in Seq(Int) /\ Len(buf) <= req.count
  /\ pc = "ready" => buf = <<>>
  /\ pc = "data" => Len(buf) < req.count

\* What the drive sends is what the driver expects, for a drive that shows DRQ
\* only with data.
Transfer ==
  /\ pc \in {"data", "done"} => \A k \in 1 .. Len(buf) : buf[k] = req.sector + k - 1
  /\ pc = "done" => Len(buf) = req.count
  /\ pc = "data" =>
       /\ drive.st # "spinup"
       /\ drive.st = "idle" => drive.left = 0
       /\ drive.left = Counted(req.count) - Len(buf)
       /\ drive.left >= 1 => drive.lba = req.sector + Len(buf)

Base == ImageTyped /\ LaidOut /\ ReqSound /\ DriveTyped /\ PollSound

-----------------------------------------------------------------------------
(* The layout.                                                             *)

LEMMA ImageFacts ==
  ASSUME image \in Images
  PROVE  ImageTyped
BY ImagesAssumption DEF ImageTyped

LEMMA DirSectorsFacts ==
  ASSUME NEW e \in Words
  PROVE  /\ DirSectors(e, 512) \in Nat
         /\ DirSectors(e, 512) < CountLimit
         /\ DirSectors(e, 512) * 512 <= 32 * e
         /\ e >= 16 => DirSectors(e, 512) >= 1
<1>1. e \in Nat /\ e < 65536
  BY WordFacts
<1> QED BY <1>1 DEF DirSectors, CountLimit

\* The sums of fat16_init(), cut to 16 bits, and exact when the true ones fit.
LEMMA LayoutFacts ==
  ASSUME ImageTyped, GoodBpb(image.bpb), fat16 = Layout(image.mbr.bpb_begin, image.bpb)
  PROVE  /\ fat16 \in LayoutType
         /\ fat16.root_entries = image.bpb.root_entries
         /\ fat16.sector_per_cluster = image.bpb.sectors_per_cluster
         /\ Fits => /\ fat16.fat_entry = TrueFat /\ fat16.rootdir_entry = TrueRoot
                    /\ fat16.data_entry = TrueData
                    /\ fat16.cluster_size = SECTOR_SIZE * image.bpb.sectors_per_cluster
<1> DEFINE b == image.bpb
           n == DirSectors(b.root_entries, b.bytes_per_sector)
           fat == Uint16(image.mbr.bpb_begin + b.reserved_sectors)
           root == Uint16(fat + b.sectors_per_fat * b.fats)
           data == Uint16(root + n)
           size == Uint16(b.bytes_per_sector * b.sectors_per_cluster)
<1>1. /\ fat16.fat_entry = fat /\ fat16.rootdir_entry = root /\ fat16.data_entry = data
      /\ fat16.root_entries = b.root_entries /\ fat16.sector_size = b.bytes_per_sector
      /\ fat16.sector_per_cluster = b.sectors_per_cluster /\ fat16.cluster_size = size
      /\ fat16 = [fat_entry |-> fat, rootdir_entry |-> root, data_entry |-> data,
                  root_entries |-> b.root_entries, sector_size |-> b.bytes_per_sector,
                  sector_per_cluster |-> b.sectors_per_cluster, cluster_size |-> size]
  BY DEF Layout
<1>2. b.bytes_per_sector = 512 /\ b.fats = 2
  BY DEF GoodBpb, SECTOR_SIZE
<1>3. /\ image.mbr.bpb_begin \in Nat /\ b.reserved_sectors \in Words /\ b.sectors_per_fat \in Words
      /\ b.root_entries \in Words /\ b.sectors_per_cluster \in 0 .. 255
  BY DEF ImageTyped
<1>4. n \in Nat /\ n = (32 * b.root_entries) \div SECTOR_SIZE
  BY <1>2, <1>3, DirSectorsFacts DEF DirSectors, SECTOR_SIZE
<1> HIDE DEF b, n
<1>5. /\ image.mbr.bpb_begin + b.reserved_sectors \in Nat
      /\ fat \in Words /\ (image.mbr.bpb_begin + b.reserved_sectors < 65536
                           => fat = image.mbr.bpb_begin + b.reserved_sectors)
  <2>1. image.mbr.bpb_begin + b.reserved_sectors \in Nat
    BY <1>3, WordFacts
  <2> QED BY <2>1, Uint16Facts
<1> HIDE DEF fat
<1>6. /\ fat + b.sectors_per_fat * b.fats \in Nat
      /\ b.sectors_per_fat * b.fats = 2 * b.sectors_per_fat
      /\ root \in Words /\ (fat + b.sectors_per_fat * b.fats < 65536
                            => root = fat + b.sectors_per_fat * b.fats)
  <2>1. /\ fat + b.sectors_per_fat * b.fats \in Nat
        /\ b.sectors_per_fat * b.fats = 2 * b.sectors_per_fat
    BY <1>2, <1>3, <1>5, WordFacts
  <2> QED BY <2>1, Uint16Facts
<1> HIDE DEF root
<1>7. data \in Words /\ (root + n < 65536 => data = root + n)
  <2>1. root + n \in Nat
    BY <1>4, <1>6, WordFacts
  <2> QED BY <2>1, Uint16Facts
<1> HIDE DEF data
<1>8. size \in Words /\ (SECTOR_SIZE * b.sectors_per_cluster < 65536
                         => size = SECTOR_SIZE * b.sectors_per_cluster)
  <2>1. b.bytes_per_sector * b.sectors_per_cluster \in Nat
        /\ b.bytes_per_sector * b.sectors_per_cluster = SECTOR_SIZE * b.sectors_per_cluster
    BY <1>2, <1>3 DEF SECTOR_SIZE
  <2> QED BY <2>1, Uint16Facts
<1> HIDE DEF size
<1>9. fat16 \in LayoutType
  BY <1>1, <1>2, <1>3, <1>5, <1>6, <1>7, <1>8 DEF LayoutType
<1>10. ASSUME Fits
       PROVE  /\ fat = TrueFat /\ root = TrueRoot /\ data = TrueData
              /\ size = SECTOR_SIZE * b.sectors_per_cluster
  <2>1. /\ TrueFat = image.mbr.bpb_begin + b.reserved_sectors
        /\ TrueRoot = TrueFat + 2 * b.sectors_per_fat /\ TrueData = TrueRoot + n
        /\ TrueData < 65536 /\ SECTOR_SIZE * b.sectors_per_cluster < 65536
    BY <1>4, <1>10 DEF Fits, TrueFat, TrueRoot, TrueData, b
  <2>2. TrueFat \in Nat /\ TrueRoot \in Nat /\ TrueRoot < 65536 /\ TrueFat < 65536
    BY <2>1, <1>3, <1>4, <1>5, WordFacts
  <2>3. fat = TrueFat
    BY <2>1, <2>2, <1>5
  <2>4. root = TrueRoot
    BY <2>1, <2>2, <2>3, <1>6
  <2> QED BY <2>1, <2>3, <2>4, <1>7, <1>8
<1> QED BY <1>1, <1>9, <1>10 DEF b

\* While a file system is mounted.
LEMMA MountedFacts ==
  ASSUME ImageTyped, LaidOut, fat16 # NoLayout
  PROVE  /\ fat16 \in LayoutType
         /\ fat16.fat_entry \in Words /\ fat16.rootdir_entry \in Words /\ fat16.data_entry \in Words
         /\ fat16.root_entries \in Words /\ fat16.sector_size = 512
         /\ fat16.sector_per_cluster \in 0 .. 255 /\ fat16.cluster_size \in Words
<1>1. fat16 \in LayoutType
  BY LayoutFacts DEF LaidOut
<1> QED BY <1>1 DEF LayoutType

LEMMA SectorOfFacts ==
  ASSUME ImageTyped, LaidOut, fat16 # NoLayout, NEW c \in Words \ {0, 1}
  PROVE  SectorOf(c) \in Nat /\ SectorOf(c) < SectorLimit
<1>1. fat16.data_entry \in Words /\ fat16.sector_per_cluster \in 0 .. 255
  BY MountedFacts
<1>2. c - 2 \in Nat /\ c - 2 < 65534
  BY WordFacts
<1>3. /\ (c - 2) * fat16.sector_per_cluster \in Nat
      /\ (c - 2) * fat16.sector_per_cluster < 16711170
  BY <1>1, <1>2, ProductBound
<1>4. fat16.data_entry \in Nat /\ fat16.data_entry < 65536
  BY <1>1, WordFacts
<1> QED BY <1>3, <1>4 DEF SectorOf, SectorLimit

-----------------------------------------------------------------------------
(* The steps.  Base holds for any drive.                                   *)

LEMMA InitBase == DiskInit => Base
<1> SUFFICES ASSUME DiskInit PROVE Base
  OBVIOUS
<1>1. ImageTyped
  BY ImageFacts DEF DiskInit
<1>2. ReqSound
  BY DEF DiskInit, ReqSound, SectorLimit, CountLimit
<1>3. DriveTyped
  BY DEF DiskInit, DriveTyped, DriveType
<1>4. PollSound
  <2>1. buf \in Seq(Int) /\ Len(buf) = 0 /\ retries = 0 /\ pc = "free" /\ req.count = 0
    BY EmptySeq DEF DiskInit
  <2> QED BY <2>1, DiskAssumption DEF PollSound
<1>5. LaidOut
  BY DEF DiskInit, LaidOut
<1> QED BY <1>1, <1>2, <1>3, <1>4, <1>5 DEF Base

\* A step that leaves disk, layout and request alone.
LEMMA RequestKept ==
  ASSUME Base, UNCHANGED <<image, fat16, task, req>>, pc' = pc \/ task # NoTask
  PROVE  ImageTyped' /\ LaidOut' /\ ReqSound'
<1>1. ImageTyped' /\ LaidOut'
  BY Zenon DEF Base, ImageTyped, LaidOut
<1>2. \A c : SectorOf(c)' = SectorOf(c)
  BY DEF SectorOf
<1>3. ReqSound'
  BY <1>2 DEF Base, ReqSound, Request
<1> QED BY <1>1, <1>3

\* A call of ide_read_seq().
LEMMA CallBase ==
  ASSUME Base, NEW name, NEW cluster, NEW sector, NEW count, NEW room,
         Calls(name, cluster, sector, count, room), UNCHANGED <<image, fat16, drive>>,
         ReqSound'
  PROVE  Base'
<1>1. ImageTyped' /\ LaidOut' /\ DriveTyped'
  BY Zenon DEF Base, ImageTyped, LaidOut, DriveTyped
<1>2. pc' = "ready" /\ retries' = MaxRetries /\ buf' = <<>> /\ req'.count \in Nat
  BY DEF Calls, ReqSound
<1>3. PollSound'
  <2>1. buf' \in Seq(Int) /\ Len(buf') = 0
    BY <1>2, EmptySeq
  <2>2. Len(buf') <= req'.count /\ retries' \in 0 .. MaxRetries
    BY <1>2, <2>1, DiskAssumption
  <2> QED BY <1>2, <2>1, <2>2 DEF PollSound
<1> QED BY <1>1, <1>3 DEF Base

LEMMA StepReadMbr ==
  ASSUME Base, ReadMbr
  PROVE  Base'
<1>1. Calls("mbr", 0, 0, 1, SECTOR_SIZE) /\ UNCHANGED <<image, fat16, drive>>
  BY DEF ReadMbr
<1>2. task'.name = "mbr" /\ task'.room = SECTOR_SIZE /\ req'.sector = 0 /\ req'.count = 1
  BY <1>1 DEF Calls
<1>3. ReqSound'
  BY <1>2 DEF ReqSound, SectorLimit, CountLimit
<1> QED BY <1>1, <1>3, CallBase

LEMMA StepReadBpb ==
  ASSUME Base, ReadBpb, stop' = "none"
  PROVE  Base'
<1> DEFINE sector == Uint16(image.mbr.bpb_begin)
<1>1. Calls("bpb", 0, sector, 1, SECTOR_SIZE) /\ UNCHANGED <<image, fat16, drive>>
  BY DEF ReadBpb, Panic
<1>2. sector \in Nat /\ sector < 65536
  BY Uint16Facts, WordFacts DEF Base, ImageTyped
<1> HIDE DEF sector
<1>3. task'.name = "bpb" /\ task'.room = SECTOR_SIZE /\ req'.sector = sector /\ req'.count = 1
  BY <1>1 DEF Calls
<1>4. ReqSound'
  <2>1. Uint16(image.mbr.bpb_begin)' = sector
    BY <1>1 DEF sector
  <2> QED BY <1>2, <1>3, <2>1 DEF ReqSound, SectorLimit, CountLimit
<1> QED BY <1>1, <1>4, CallBase

LEMMA StepReadRootdir ==
  ASSUME Base, fat16_read_rootdir
  PROVE  Base'
<1> DEFINE count == DirSectors(fat16.root_entries, fat16.sector_size)
<1>1. /\ Calls("rootdir", 0, fat16.rootdir_entry, count, 32 * fat16.root_entries)
      /\ UNCHANGED <<image, fat16, drive>> /\ fat16 # NoLayout
  BY DEF fat16_read_rootdir, Mounted
<1>2. /\ fat16.rootdir_entry \in Words /\ fat16.root_entries \in Words /\ fat16.sector_size = 512
  BY <1>1, MountedFacts DEF Base
<1>3. /\ fat16.rootdir_entry \in Nat /\ fat16.rootdir_entry < 65536
      /\ count \in Nat /\ count < CountLimit /\ count = DirSectors(fat16.root_entries, 512)
  BY <1>2, WordFacts, DirSectorsFacts
<1> HIDE DEF count
<1>4. /\ task'.name = "rootdir" /\ task'.room = 32 * fat16.root_entries
      /\ req'.sector = fat16.rootdir_entry /\ req'.count = count /\ fat16' = fat16
  BY <1>1 DEF Calls
<1>5. ReqSound'
  <2>1. req'.sector \in Nat /\ req'.sector < SectorLimit /\ req'.count \in Nat /\ req'.count < CountLimit
    BY <1>3, <1>4 DEF SectorLimit
  <2>2. Request(fat16.rootdir_entry, DirSectors(fat16.root_entries, 512),
                32 * fat16.root_entries)'
    BY <1>3, <1>4 DEF Request
  <2>3. (fat16 # NoLayout)'
    BY <1>1, <1>4 DEF NoLayout
  <2> QED BY <2>1, <2>2, <2>3, <1>4 DEF ReqSound
<1> QED BY <1>1, <1>5, CallBase

LEMMA StepReadCluster ==
  ASSUME Base, NEW c \in Asked, fat16_read_cluster(c)
  PROVE  Base'
<1> DEFINE count == fat16.sector_per_cluster
<1>1. /\ Calls("cluster", c, SectorOf(c), count, fat16.cluster_size)
      /\ UNCHANGED <<image, fat16, drive>> /\ fat16 # NoLayout
  BY DEF fat16_read_cluster, Mounted
<1>2. c \in Words \ {0, 1}
  BY ImagesAssumption
<1>3. SectorOf(c) \in Nat /\ SectorOf(c) < SectorLimit /\ count \in Nat /\ count < CountLimit
  <2>1. count \in 0 .. 255
    BY <1>1, MountedFacts DEF Base
  <2> QED BY <2>1, <1>1, <1>2, SectorOfFacts DEF Base, CountLimit
<1>4. /\ task'.name = "cluster" /\ task'.room = fat16.cluster_size /\ task'.cluster = c
      /\ req'.sector = SectorOf(c) /\ req'.count = count /\ fat16' = fat16
  BY <1>1 DEF Calls
<1>5. SectorOf(c)' = SectorOf(c)
  BY <1>4 DEF SectorOf
<1>6. ReqSound'
  BY <1>1, <1>2, <1>3, <1>4, <1>5, Zenon DEF ReqSound, Request
<1> QED BY <1>1, <1>6, CallBase

LEMMA StepNextCluster ==
  ASSUME Base, NEW c \in Asked, fat16_next_cluster(c)
  PROVE  Base'
<1> DEFINE sector == fat16.fat_entry + (c \div 256)
<1>1. /\ Calls("fat", c, fat16.fat_entry + (c \div fat_entries), 1, fat16.sector_size)
      /\ UNCHANGED <<image, fat16, drive>> /\ fat16 # NoLayout
  BY DEF fat16_next_cluster, Mounted
<1>2. c \in Words \ {0, 1}
  BY ImagesAssumption
<1>3. fat16.fat_entry \in Words /\ fat16.sector_size = 512
  BY <1>1, MountedFacts DEF Base
<1>4. fat_entries = 256
  BY <1>3 DEF fat_entries
<1>5. sector \in Nat /\ sector < SectorLimit
  <2>1. c \in Nat /\ c < 65536 /\ fat16.fat_entry \in Nat /\ fat16.fat_entry < 65536
    BY <1>2, <1>3, WordFacts
  <2> QED BY <2>1 DEF SectorLimit
<1>6. /\ task'.name = "fat" /\ task'.room = 512 /\ task'.cluster = c
      /\ req'.sector = sector /\ req'.count = 1 /\ fat16' = fat16
  BY <1>1, <1>3, <1>4 DEF Calls
<1>7. ReqSound'
  <2>1. /\ req'.sector \in Nat /\ req'.sector < SectorLimit /\ req'.count \in Nat /\ req'.count < CountLimit
    BY <1>5, <1>6 DEF CountLimit
  <2> QED BY <2>1, <1>1, <1>2, <1>6 DEF ReqSound, Request
<1> QED BY <1>1, <1>7, CallBase

LEMMA Uint16Twice ==
  ASSUME NEW a \in Nat, NEW b \in Nat
  PROVE  Uint16(Uint16(a) + b) = Uint16(a + b)
BY SMT DEF Uint16

LEMMA StepInit ==
  ASSUME Base, fat16_init, stop' = "none"
  PROVE  Base' /\ UNCHANGED <<buf, req, drive>> /\ pc' = "free"
<1>1. /\ GoodBpb(image.bpb)
      /\ fat16' = Layout(req.sector, image.bpb) /\ pc' = "free"
      /\ UNCHANGED <<image, task, req, retries, buf, drive>> /\ task.name = "bpb"
  BY DEF fat16_init, Panic
<1>2. ImageTyped' /\ DriveTyped'
  BY <1>1, Zenon DEF Base, ImageTyped, DriveTyped
<1>3. LaidOut'
  <2>1. req.sector = Uint16(image.mbr.bpb_begin)
    BY <1>1 DEF Base, ReqSound, NoTask
  <2>2. image.mbr.bpb_begin \in Nat /\ image.bpb.reserved_sectors \in Nat
    BY WordFacts DEF Base, ImageTyped
  <2>3. Uint16(req.sector + image.bpb.reserved_sectors)
          = Uint16(image.mbr.bpb_begin + image.bpb.reserved_sectors)
    BY <2>1, <2>2, Uint16Twice
  <2>4. Layout(req.sector, image.bpb) = Layout(image.mbr.bpb_begin, image.bpb)
    BY <2>3 DEF Layout
  <2> QED BY <1>1, <2>4 DEF LaidOut
<1>4. ReqSound'
  BY <1>1 DEF Base, ReqSound, NoTask
<1>5. PollSound'
  BY <1>1 DEF Base, PollSound
<1> QED BY <1>1, <1>2, <1>3, <1>4, <1>5 DEF Base

LEMMA StepReturns ==
  ASSUME Base, ReadReturns
  PROVE  Base'
<1>1. pc' = "free" /\ UNCHANGED <<image, fat16, task, req, retries, buf, drive>>
      /\ task.name \in {"rootdir", "cluster", "fat"}
  BY DEF ReadReturns
<1>2. task # NoTask
  BY <1>1 DEF NoTask
<1>3. ImageTyped' /\ LaidOut' /\ ReqSound'
  BY <1>1, <1>2, RequestKept
<1>4. DriveTyped' /\ PollSound'
  BY <1>1 DEF Base, DriveTyped, PollSound
<1> QED BY <1>3, <1>4 DEF Base

LEMMA StepDrive ==
  ASSUME Base, DriveSteps
  PROVE  /\ Base' /\ UNCHANGED <<image, fat16, task, pc, req, retries, buf>>
         /\ drive'.lba = drive.lba /\ drive'.left = drive.left
         /\ \/ drive.st = "spinup" /\ drive'.st = "idle"
            \/ drive.st = "busy" /\ drive'.st \in {"drq", "failed"}
<1>1. UNCHANGED <<image, fat16, task, pc, req, retries, buf>>
  BY DEF DriveSteps
<1>2. \E s \in {"idle", "drq", "failed"} :
         /\ drive' = [drive EXCEPT !.st = s]
         /\ \/ drive.st = "spinup" /\ s = "idle"
            \/ drive.st = "busy" /\ s \in {"drq", "failed"}
  <2>1. CASE drive.st = "spinup" /\ drive' = [drive EXCEPT !.st = "idle"]
    BY <2>1, Zenon
  <2>2. CASE drive.st = "busy" /\ \E s \in {"drq", "failed"} : drive' = [drive EXCEPT !.st = s]
    <3>1. PICK s \in {"drq", "failed"} : drive' = [drive EXCEPT !.st = s]
      BY <2>2
    <3>2. s \in {"idle", "drq", "failed"}
      OBVIOUS
    <3> QED BY <3>1, <3>2, <2>2, Zenon
  <2> QED BY <2>1, <2>2 DEF DriveSteps
<1>3. drive \in DriveType
  BY DEF Base, DriveTyped
<1>4. PICK s \in {"idle", "drq", "failed"} :
         /\ drive' = [drive EXCEPT !.st = s]
         /\ \/ drive.st = "spinup" /\ s = "idle"
            \/ drive.st = "busy" /\ s \in {"drq", "failed"}
  BY <1>2
<1>5. /\ drive'.lba = drive.lba /\ drive'.left = drive.left /\ drive'.st = s
      /\ drive' \in DriveType
  BY <1>3, <1>4 DEF DriveType
<1>6. DriveTyped'
  <2>1. drive.st = "busy" => drive.left >= 1
    BY DEF Base, DriveTyped
  <2>2. s \in {"busy", "drq"} => drive.st = "busy"
    BY <1>4
  <2> QED BY <2>1, <2>2, <1>5 DEF DriveTyped
<1>7. ImageTyped' /\ LaidOut' /\ ReqSound' /\ PollSound'
  BY <1>1, RequestKept DEF Base, PollSound
<1> QED BY <1>1, <1>4, <1>5, <1>6, <1>7 DEF Base

\* What the READ SECTORS command sets up.
LEMMA AcceptedFacts ==
  ASSUME Base
  PROVE  LET d == Accepted(req.sector, req.count)
         IN /\ d \in DriveType /\ d.st = "busy" /\ d.lba = req.sector
            /\ d.left = Counted(req.count) /\ d.left >= 1
<1>1. req.sector \in Nat /\ req.count \in Nat /\ req.sector < 268435456
  BY DEF Base, ReqSound, SectorLimit
<1>2. req.sector % 2^28 = req.sector
  <2>1. 2^28 = 268435456
    OBVIOUS
  <2>2. req.sector % 268435456 = req.sector
    BY <1>1
  <2> QED BY <2>1, <2>2
<1>3. Counted(req.count) \in 1 .. 256
  BY <1>1, CountedFacts
<1>4. Accepted(req.sector, req.count)
        = [st |-> "busy", lba |-> req.sector, left |-> Counted(req.count)]
  BY <1>2 DEF Accepted, Counted
<1> QED BY <1>1, <1>3, <1>4 DEF DriveType

\* ide_wait_ready() polls once more, or gives the command.
LEMMA StepReady ==
  ASSUME Base, ide_wait_ready
  PROVE  /\ Base' /\ UNCHANGED <<image, fat16, task, req, buf>> /\ buf = <<>> /\ pc = "ready"
         /\ \/ UNCHANGED <<drive, pc>>
            \/ /\ drive' = Accepted(req.sector, req.count)
               /\ pc' = IF req.count = 0 THEN "done" ELSE "data"
<1>1. /\ pc = "ready" /\ retries > 0 /\ buf = <<>>
      /\ UNCHANGED <<image, fat16, task, req, buf>>
  BY DEF ide_wait_ready, Base, PollSound
<1>2. task # NoTask
  BY <1>1 DEF Base, ReqSound, NoTask
<1>3. ImageTyped' /\ LaidOut' /\ ReqSound'
  BY <1>1, <1>2, RequestKept
<1>4. retries \in 0 .. MaxRetries /\ MaxRetries \in Nat /\ req.count \in Nat /\ Len(buf) = 0
  BY <1>1, DiskAssumption, EmptySeq DEF Base, PollSound, ReqSound
<1>5. CASE Ready
  <2>1. /\ drive' = Accepted(req.sector, req.count) /\ retries' = MaxRetries
        /\ pc' = IF req.count = 0 THEN "done" ELSE "data"
    BY <1>5 DEF ide_wait_ready
  <2>2. DriveTyped'
    BY <2>1, AcceptedFacts DEF DriveTyped
  <2>3. PollSound'
    BY <2>1, <1>1, <1>4 DEF Base, PollSound
  <2> QED BY <2>1, <2>2, <2>3, <1>1, <1>3 DEF Base
<1>6. CASE ~Ready
  <2>1. retries' = retries - 1 /\ UNCHANGED <<drive, pc>>
    BY <1>6 DEF ide_wait_ready
  <2>2. DriveTyped' /\ PollSound'
    BY <2>1, <1>1, <1>4 DEF Base, PollSound, DriveTyped
  <2> QED BY <2>1, <2>2, <1>1, <1>3 DEF Base
<1> QED BY <1>5, <1>6

\* ide_wait_data() polls once more, or a sector is read.
LEMMA StepData ==
  ASSUME Base, ide_wait_data
  PROVE  /\ Base' /\ UNCHANGED <<image, fat16, task, req>> /\ pc = "data"
         /\ \/ UNCHANGED <<drive, pc, buf>>
            \/ \E drq \in DrqSeen :
                 /\ drq /\ drive' = Drained /\ buf' = Append(buf, OnPort)
                 /\ buf \in Seq(Int) /\ OnPort \in Int
                 /\ pc' = IF Len(buf) + 1 >= req.count THEN "done" ELSE "data"
<1>1. pc = "data" /\ retries > 0 /\ UNCHANGED <<image, fat16, task, req>>
  BY DEF ide_wait_data
<1>2. task # NoTask
  BY <1>1 DEF Base, ReqSound, NoTask
<1>3. ImageTyped' /\ LaidOut' /\ ReqSound'
  BY <1>1, <1>2, RequestKept
<1>4. /\ retries \in 0 .. MaxRetries /\ MaxRetries \in Nat /\ req.count \in Nat
      /\ buf \in Seq(Int) /\ Len(buf) \in Nat /\ Len(buf) < req.count
  BY <1>1, DiskAssumption DEF Base, PollSound, ReqSound
<1>5. drive \in DriveType /\ (drive.st \in {"busy", "drq"} => drive.left >= 1)
  BY DEF Base, DriveTyped
<1>6. PICK drq \in DrqSeen :
         IF drq
         THEN /\ buf' = Append(buf, OnPort) /\ drive' = Drained /\ retries' = MaxRetries
              /\ pc' = IF LastSector(Len(buf')) THEN "done" ELSE "data"
         ELSE retries' = RetriesLeft /\ UNCHANGED <<buf, drive, pc>>
  BY DEF ide_wait_data, DrqRead
<1>7. CASE drq
  <2>1. OnPort \in Int
    BY <1>5 DEF OnPort, DriveType
  <2>2. /\ buf' \in Seq(Int) /\ Len(buf') = Len(buf) + 1 /\ retries' = MaxRetries
        /\ buf' = Append(buf, OnPort)
    BY <2>1, <1>4, <1>6, <1>7
  <2>3. pc' = IF Len(buf) + 1 >= req.count THEN "done" ELSE "data"
    BY <2>2, <1>6, <1>7 DEF LastSector
  <2>4. PollSound'
    BY <2>2, <2>3, <1>1, <1>4 DEF PollSound
  <2>5. DriveTyped'
    <3>1. CASE drive.st # "drq"
      BY <3>1, <1>5, <1>6, <1>7 DEF Drained, DriveTyped
    <3>2. CASE drive.st = "drq"
      <4>1. drive' = [st |-> IF drive.left = 1 THEN "idle" ELSE "busy",
                      lba |-> drive.lba + 1, left |-> drive.left - 1]
        BY <3>2, <1>6, <1>7 DEF Drained
      <4>2. drive.left \in 1 .. 256 /\ drive.lba \in Nat
        BY <3>2, <1>5 DEF DriveType
      <4> QED BY <4>1, <4>2 DEF DriveTyped, DriveType
    <3> QED BY <3>1, <3>2
  <2> QED BY <2>1, <2>2, <2>3, <2>4, <2>5, <1>1, <1>3, <1>4, <1>6, <1>7 DEF Base
<1>8. CASE ~drq
  <2>1. retries' = retries - 1 /\ UNCHANGED <<buf, drive, pc>>
    BY <1>6, <1>8 DEF RetriesLeft
  <2>2. DriveTyped' /\ PollSound'
    BY <2>1, <1>1, <1>4 DEF Base, PollSound, DriveTyped
  <2> QED BY <2>1, <2>2, <1>1, <1>3 DEF Base
<1> QED BY <1>7, <1>8

LEMMA BaseKept ==
  ASSUME Base, UNCHANGED <<image, fat16, task, pc, req, retries, buf, drive>>
  PROVE  Base'
<1>1. ImageTyped' /\ LaidOut' /\ ReqSound'
  BY RequestKept
<1>2. DriveTyped' /\ PollSound'
  BY DEF Base, DriveTyped, PollSound
<1> QED BY <1>1, <1>2 DEF Base

\* The steps of the kernel other than those of the driver's loops.
LEMMA OtherSteps ==
  ASSUME Base, [DiskNext]_diskVars
  PROVE  \/ DriveSteps \/ ide_wait_ready \/ ide_wait_data
         \/ Base' /\ buf' = <<>> /\ pc' = "ready" /\ pc \in {"free", "done"} /\ drive' = drive
         \/ Base' /\ UNCHANGED <<pc, req, buf, drive>>
         \/ Base' /\ UNCHANGED <<req, buf, drive>> /\ pc = "done" /\ pc' = "free"
<1>1. ASSUME NEW m, Panic(m) PROVE Base' /\ UNCHANGED <<pc, req, buf, drive>>
  BY <1>1, BaseKept DEF Panic
<1>2. CASE TimesOut
  BY <1>1, <1>2 DEF TimesOut
<1>3. CASE ReadMbr
  <2>1. buf' = <<>> /\ pc' = "ready" /\ pc = "free" /\ drive' = drive
    BY <1>3 DEF ReadMbr, Calls
  <2> QED BY <2>1, <1>3, StepReadMbr
<1>4. CASE ReadBpb
  <2>1. CASE GoodMbr(image.mbr)
    <3>1. buf' = <<>> /\ pc' = "ready" /\ pc = "done" /\ drive' = drive /\ stop' = "none"
      BY <1>4, <2>1 DEF ReadBpb, Calls, Running
    <3> QED BY <3>1, <1>4, StepReadBpb
  <2>2. CASE ~GoodMbr(image.mbr)
    BY <1>1, <1>4, <2>2 DEF ReadBpb
  <2> QED BY <2>1, <2>2
<1>5. CASE fat16_init
  <2>1. CASE stop' = "none"
    <3>1. pc = "done"
      BY <1>5 DEF fat16_init
    <3> QED BY <3>1, <2>1, <1>5, StepInit
  <2>2. CASE stop' # "none"
    BY <1>1, <1>5, <2>2 DEF fat16_init, Running
  <2> QED BY <2>1, <2>2
<1>6. CASE ReadReturns
  <2>1. UNCHANGED <<req, buf, drive>> /\ pc = "done" /\ pc' = "free"
    BY <1>6 DEF ReadReturns
  <2> QED BY <2>1, <1>6, StepReturns
<1>7. CASE fat16_read_rootdir
  <2>1. buf' = <<>> /\ pc' = "ready" /\ pc = "free" /\ drive' = drive
    BY <1>7 DEF fat16_read_rootdir, Calls, Mounted
  <2> QED BY <2>1, <1>7, StepReadRootdir
<1>8. ASSUME NEW c \in Asked, fat16_read_cluster(c)
      PROVE  Base' /\ buf' = <<>> /\ pc' = "ready" /\ pc = "free" /\ drive' = drive
  <2>1. buf' = <<>> /\ pc' = "ready" /\ pc = "free" /\ drive' = drive
    BY <1>8 DEF fat16_read_cluster, Calls, Mounted
  <2> QED BY <2>1, <1>8, StepReadCluster
<1>9. ASSUME NEW c \in Asked, fat16_next_cluster(c)
      PROVE  Base' /\ buf' = <<>> /\ pc' = "ready" /\ pc = "free" /\ drive' = drive
  <2>1. buf' = <<>> /\ pc' = "ready" /\ pc = "free" /\ drive' = drive
    BY <1>9 DEF fat16_next_cluster, Calls, Mounted
  <2> QED BY <2>1, <1>9, StepNextCluster
<1>10. CASE DiskStopped \/ UNCHANGED diskVars
  BY <1>10, BaseKept DEF DiskStopped, diskVars
<1> QED BY <1>2, <1>3, <1>4, <1>5, <1>6, <1>7, <1>8, <1>9, <1>10 DEF DiskNext, Kernel

LEMMA NextBase == Base /\ [DiskNext]_diskVars => Base'
BY OtherSteps, StepDrive, StepReady, StepData

LEMMA BaseInductive == DiskSpec => []Base
BY InitBase, NextBase, PTL DEF DiskSpec

-----------------------------------------------------------------------------
(* Transfer holds for a drive that shows DRQ only with data.               *)

LEMMA TransferStep ==
  ASSUME DrqWhenBusy = FALSE, Base, Base', Transfer, [DiskNext]_diskVars
  PROVE  Transfer'
<1> DEFINE n == Len(buf)
<1>0. req.count \in Nat /\ req.sector \in Nat /\ n \in Nat /\ Counted(req.count) \in 1 .. 256
  <2>1. req.count \in Nat /\ req.sector \in Nat
    BY DEF Base, ReqSound
  <2>2. buf \in Seq(Int)
    BY DEF Base, PollSound
  <2>3. Counted(req.count) \in 1 .. 256
    BY <2>1, CountedFacts
  <2>4. Len(buf) \in Nat
    BY <2>2
  <2> QED BY <2>1, <2>3, <2>4
<1>1. CASE DriveSteps
  <2>1. /\ UNCHANGED <<pc, req, buf>> /\ drive'.lba = drive.lba /\ drive'.left = drive.left
        /\ \/ drive.st = "spinup" /\ drive'.st = "idle"
           \/ drive.st = "busy" /\ drive'.st \in {"drq", "failed"}
    BY <1>1, StepDrive
  <2> QED BY <2>1 DEF Transfer
<1>2. CASE ide_wait_ready
  <2>1. /\ UNCHANGED <<req, buf>> /\ buf = <<>> /\ pc = "ready"
        /\ \/ UNCHANGED <<drive, pc>>
           \/ /\ drive' = Accepted(req.sector, req.count)
              /\ pc' = IF req.count = 0 THEN "done" ELSE "data"
    BY <1>2, StepReady
  <2>2. Len(buf') = 0 /\ req' = req
    BY <2>1
  <2>3. CASE pc' = pc
    BY <2>1, <2>3 DEF Transfer
  <2>4. CASE pc' # pc
    <3>0. drive' = Accepted(req.sector, req.count)
      BY <2>1, <2>4
    <3>1. drive'.st = "busy" /\ drive'.lba = req.sector /\ drive'.left = Counted(req.count)
      BY <3>0, AcceptedFacts
    <3>2. CASE req.count = 0
      BY <3>2, <2>1, <2>2, <2>4 DEF Transfer
    <3>3. CASE req.count # 0
      <4>1. Counted(req.count) = Counted(req.count) - Len(buf')
            /\ req.sector = req.sector + Len(buf') /\ \A k \in 1 .. Len(buf') : FALSE
        <5>1. Counted(req.count) \in Int /\ req.sector \in Int
          <6>1. Counted(req.count) \in Int
            BY <1>0 DEF Counted
          <6> QED BY <6>1, <1>0
        <5>2. 1 .. Len(buf') = {}
          BY <2>2
        <5> HIDE DEF n
        <5> QED BY <2>2, <5>1, <5>2
      <4>2. pc' # "done"
        BY <3>3, <2>1, <2>4
      <4> QED BY <3>1, <4>1, <4>2, <2>2 DEF Transfer
    <3> QED BY <3>2, <3>3
  <2> QED BY <2>3, <2>4
<1>3. CASE ide_wait_data
  <2>1. /\ req' = req /\ pc = "data"
        /\ \/ UNCHANGED <<drive, pc, buf>>
           \/ \E drq \in DrqSeen :
                 /\ drq /\ drive' = Drained /\ buf' = Append(buf, OnPort)
                 /\ buf \in Seq(Int) /\ OnPort \in Int
                 /\ pc' = IF Len(buf) + 1 >= req.count THEN "done" ELSE "data"
    BY <1>3, StepData
  <2>2. CASE UNCHANGED <<drive, pc, buf>>
    BY <2>1, <2>2 DEF Transfer
  <2>3. ASSUME NEW drq \in DrqSeen, drq, drive' = Drained, buf' = Append(buf, OnPort),
               buf \in Seq(Int), OnPort \in Int,
               pc' = IF Len(buf) + 1 >= req.count THEN "done" ELSE "data"
        PROVE  Transfer'
    <3>1. drive.st = "drq" /\ OnPort = drive.lba /\ drive \in DriveType /\ drive.left >= 1
      BY <2>3 DEF DrqSeen, OnPort, Base, DriveTyped
    <3>2. /\ drive.left = Counted(req.count) - n /\ drive.lba = req.sector + n
          /\ \A k \in 1 .. n : buf[k] = req.sector + k - 1
          /\ n < req.count
      BY <3>1, <2>1 DEF Transfer, Base, PollSound
    <3>3. drive' = [st |-> IF drive.left = 1 THEN "idle" ELSE "busy",
                    lba |-> drive.lba + 1, left |-> drive.left - 1]
      BY <2>3, <3>1 DEF Drained
    <3>4. /\ Len(buf') = n + 1 /\ buf'[n + 1] = req.sector + n
          /\ \A k \in 1 .. n : buf'[k] = buf[k]
      BY <2>3, <3>1, <3>2
    <3> HIDE DEF n
    <3>5. \A k \in 1 .. n + 1 : buf'[k] = req.sector + k - 1
      <4> SUFFICES ASSUME NEW k \in 1 .. n + 1 PROVE buf'[k] = req.sector + k - 1
        OBVIOUS
      <4>1. CASE k = n + 1
        BY <4>1, <3>4, <1>0
      <4>2. CASE k # n + 1
        <5>1. k \in 1 .. n
          BY <4>2, <1>0
        <5> QED BY <5>1, <3>2, <3>4
      <4> QED BY <4>1, <4>2
    <3>6. pc' = "done" => Len(buf') = req.count
      BY <2>3, <3>2, <3>4, <1>0 DEF n
    <3>7. drive.left \in 1 .. 256 /\ drive.lba \in Nat
      BY <3>1 DEF DriveType
    <3>8. /\ drive'.st # "spinup" /\ (drive'.st = "idle" => drive'.left = 0)
          /\ drive'.left = Counted(req.count) - (n + 1)
          /\ drive'.lba = req.sector + (n + 1)
      BY <3>2, <3>3, <3>7, <1>0
    <3> QED BY <3>4, <3>5, <3>6, <3>8, <2>1 DEF Transfer
  <2> QED BY <2>1, <2>2, <2>3
<1>4. CASE buf' = <<>> /\ pc' = "ready" /\ pc \in {"free", "done"} /\ drive' = drive
  BY <1>4 DEF Transfer
<1>5. CASE UNCHANGED <<pc, req, buf, drive>>
  BY <1>5 DEF Transfer
<1>6. CASE UNCHANGED <<req, buf, drive>> /\ pc = "done" /\ pc' = "free"
  BY <1>6 DEF Transfer
<1> QED BY <1>1, <1>2, <1>3, <1>4, <1>5, <1>6, OtherSteps

LEMMA TransferInductive ==
  ASSUME DrqWhenBusy = FALSE
  PROVE  DiskSpec => [](Base /\ Transfer)
<1>1. DiskInit => Transfer
  BY DEF DiskInit, Transfer
<1>2. Base /\ Base' /\ Transfer /\ [DiskNext]_diskVars => Transfer'
  BY TransferStep
<1> QED BY <1>1, <1>2, BaseInductive, PTL DEF DiskSpec

-----------------------------------------------------------------------------
(* The theorems.                                                           *)

\* The layout that fat16_init() computes fits its fields, no call polls beyond
\* its limit or stores more sectors than it was asked for, on any disk and with
\* any drive.
THEOREM TypeCorrect == DiskSpec => []DiskTypeOK
<1>1. Base => DiskTypeOK
  <2> SUFFICES ASSUME Base PROVE DiskTypeOK
    OBVIOUS
  <2>1. image \in Images /\ pc \in {"free", "ready", "data", "done"}
        /\ retries \in 0 .. MaxRetries /\ Len(buf) <= req.count
    BY DEF Base, ImageTyped, PollSound
  <2>2. \A f \in DOMAIN fat16 : fat16[f] \in Words
    <3>1. 0 \in Words
      BY WordFacts
    <3>2. 512 \in Words /\ \A n \in 0 .. 255 : n \in Words
      BY WordFacts
    <3>3. CASE fat16 = NoLayout
      BY <3>1, <3>3 DEF NoLayout
    <3>4. CASE fat16 # NoLayout
      <4>1. fat16 \in LayoutType
        BY <3>4, MountedFacts DEF Base
      <4> QED BY <4>1, <3>2 DEF LayoutType
    <3> QED BY <3>3, <3>4
  <2>3. task.name \in {"none", "mbr", "bpb", "rootdir", "cluster", "fat"}
    BY DEF Base, ReqSound, NoTask
  <2>4. drive.st \in {"spinup", "idle", "busy", "drq", "failed"} /\ drive.left \in 0 .. 256
    BY DEF Base, DriveTyped, DriveType
  <2> QED BY <2>1, <2>2, <2>3, <2>4 DEF DiskTypeOK
<1> QED BY <1>1, BaseInductive, PTL

\* A read that returns has delivered the sectors asked for, in order and
\* complete, with any drive that shows DRQ only when it has data: the assumption
\* that ide_wait_data() makes by not looking at BSY.
THEOREM ReadsExact ==
  ASSUME DrqWhenBusy = FALSE
  PROVE  DiskSpec => []DataExact
<1>1. Base /\ Transfer => DataExact
  <2> SUFFICES ASSUME Base, Transfer, pc = "done"
               PROVE  buf = [k \in 1 .. req.count |-> req.sector + k - 1]
    BY DEF DataExact
  <2>1. buf \in Seq(Int) /\ Len(buf) = req.count
        /\ \A k \in 1 .. Len(buf) : buf[k] = req.sector + k - 1
    BY DEF Base, PollSound, Transfer
  <2> QED BY <2>1
<1> QED BY <1>1, TransferInductive, PTL

\* The on-disk structure of a FAT16 volume: no cluster and no root directory is
\* empty.
WellFormed ==
  \A i \in Images : i.bpb.sectors_per_cluster # 0 /\ i.bpb.root_entries >= 16

Quiet == drive.left = 0 /\ drive.st \in {"spinup", "idle"}

\* A read that returns has drained the drive, so that the next command cuts
\* nothing off, on volumes whose clusters and root directory are not empty.
THEOREM DriveDrained ==
  ASSUME DrqWhenBusy = FALSE, WellFormed
  PROVE  DiskSpec => []NothingLeftBehind
<1> DEFINE Calm == pc \in {"free", "done", "ready"} => Quiet
<1>1. DiskInit => Calm
  BY DEF DiskInit, Quiet
<1>2. ASSUME Base, Base', Transfer, Calm, [DiskNext]_diskVars PROVE Calm'
  <2>1. CASE DriveSteps
    <3>1. /\ pc' = pc /\ drive'.left = drive.left
          /\ \/ drive.st = "spinup" /\ drive'.st = "idle"
             \/ drive.st = "busy" /\ drive'.st \in {"drq", "failed"}
      BY <1>2, <2>1, StepDrive
    <3> QED BY <3>1, <1>2 DEF Quiet
  <2>2. CASE ide_wait_ready
    <3>1. /\ pc = "ready" /\ buf = <<>>
          /\ UNCHANGED <<drive, pc>> \/ pc' = IF req.count = 0 THEN "done" ELSE "data"
      BY <1>2, <2>2, StepReady
    <3>2. req.count # 0
      <4>1. image \in Images /\ image.bpb.sectors_per_cluster # 0 /\ image.bpb.root_entries >= 16
        BY <1>2 DEF WellFormed, Base, ImageTyped
      <4>2. CASE fat16 # NoLayout
        <5>1. /\ fat16.root_entries = image.bpb.root_entries
              /\ fat16.sector_per_cluster = image.bpb.sectors_per_cluster
          BY <1>2, <4>2, LayoutFacts DEF Base, LaidOut
        <5>2. DirSectors(fat16.root_entries, 512) # 0
          <6>1. fat16.root_entries \in Words
            BY <1>2, <4>2, MountedFacts DEF Base
          <6>2. DirSectors(fat16.root_entries, 512) >= 1
            BY <6>1, <5>1, <4>1, DirSectorsFacts
          <6> QED BY <6>2
        <5> QED BY <1>2, <3>1, <4>1, <5>1, <5>2 DEF Base, ReqSound, Request
      <4>3. CASE fat16 = NoLayout
        BY <1>2, <3>1, <4>3 DEF Base, ReqSound
      <4> QED BY <4>2, <4>3
    <3> QED BY <3>1, <3>2, <1>2 DEF Quiet
  <2>3. CASE ide_wait_data
    <3>1. /\ pc = "data" /\ req' = req
          /\ \/ UNCHANGED <<drive, pc, buf>>
             \/ \E drq \in DrqSeen :
                 /\ drq /\ drive' = Drained /\ buf' = Append(buf, OnPort)
                 /\ buf \in Seq(Int) /\ OnPort \in Int
                 /\ pc' = IF Len(buf) + 1 >= req.count THEN "done" ELSE "data"
      BY <1>2, <2>3, StepData
    <3>2. ASSUME NEW drq \in DrqSeen, drq, drive' = Drained, pc' = "done",
                 Len(buf) + 1 >= req.count
          PROVE  Quiet'
      <4>1. drive.st = "drq" /\ drive \in DriveType /\ drive.left >= 1
        BY <1>2, <3>2 DEF DrqSeen, Base, DriveTyped
      <4>2. /\ drive.left = Counted(req.count) - Len(buf) /\ Len(buf) \in Nat
            /\ req.count \in Nat /\ Len(buf) < req.count
        BY <1>2, <3>1, <4>1 DEF Transfer, Base, PollSound, ReqSound
      <4>3. Counted(req.count) \in Int /\ Counted(req.count) <= req.count
        <5>1. req.count # 0
          BY <4>2
        <5> QED BY <4>2, <5>1 DEF Counted
      <4>4. drive.left = 1
        BY <3>2, <4>1, <4>2, <4>3
      <4>5. drive'.st = "idle" /\ drive'.left = 0
        BY <3>2, <4>1, <4>4 DEF Drained
      <4> QED BY <4>5 DEF Quiet
    <3>3. CASE UNCHANGED <<drive, pc, buf>>
      BY <3>1, <3>3
    <3>4. CASE pc' = "data"
      BY <3>4
    <3> QED BY <3>1, <3>2, <3>3, <3>4
  <2>4. CASE buf' = <<>> /\ pc' = "ready" /\ pc \in {"free", "done"} /\ drive' = drive
    BY <1>2, <2>4 DEF Quiet
  <2>5. CASE UNCHANGED <<pc, req, buf, drive>>
    BY <1>2, <2>5 DEF Quiet
  <2>6. CASE UNCHANGED <<req, buf, drive>> /\ pc = "done" /\ pc' = "free"
    BY <1>2, <2>6 DEF Quiet
  <2> QED BY <1>2, <2>1, <2>2, <2>3, <2>4, <2>5, <2>6, OtherSteps
<1>3. Calm => NothingLeftBehind
  BY DEF NothingLeftBehind, Quiet
<1> HIDE DEF Calm
<1> QED BY <1>1, <1>2, <1>3, TransferInductive, PTL DEF DiskSpec

\* On a volume whose layout fits 16 bits, the root directory, the clusters and
\* the file allocation table are read where the disk has them, and never beyond
\* the caller's buffer.
THEOREM ReadsInPlace == DiskSpec => []RightPlace
<1>1. Base => RightPlace
  <2> SUFFICES ASSUME Base, Fits
               PROVE  /\ task.name = "rootdir" => /\ req.sector = TrueRoot
                                                  /\ req.sector + req.count = TrueData
                      /\ task.name = "cluster" =>
                           /\ req.count = image.bpb.sectors_per_cluster
                           /\ req.sector = TrueData + (task.cluster - 2) * req.count
                      /\ task.name = "fat" =>
                           req.sector = TrueFat + (2 * task.cluster) \div SECTOR_SIZE
                      /\ Len(buf) * SECTOR_SIZE <= task.room
    BY DEF RightPlace
  <2>0. Len(buf) \in Nat /\ req.count \in Nat /\ Len(buf) <= req.count
    BY DEF Base, PollSound, ReqSound
  <2>1. CASE task = NoTask
    BY <2>0, <2>1 DEF Base, ReqSound, NoTask, SECTOR_SIZE
  <2>2. CASE task.name \in {"mbr", "bpb"}
    <3>1. req.count = 1 /\ task.room = 512
      BY <2>2 DEF Base, ReqSound, NoTask, SECTOR_SIZE
    <3> QED BY <3>1, <2>0, <2>2 DEF SECTOR_SIZE
  <2>3. CASE fat16 # NoLayout /\ task.name \in {"rootdir", "cluster", "fat"}
    <3>1. /\ fat16.root_entries = image.bpb.root_entries
          /\ fat16.sector_per_cluster = image.bpb.sectors_per_cluster
          /\ fat16.fat_entry = TrueFat /\ fat16.rootdir_entry = TrueRoot
          /\ fat16.data_entry = TrueData
          /\ fat16.cluster_size = SECTOR_SIZE * image.bpb.sectors_per_cluster
      BY <2>3, LayoutFacts DEF Base, LaidOut
    <3>2. /\ fat16.root_entries \in Words /\ fat16.sector_per_cluster \in 0 .. 255
          /\ fat16.fat_entry \in Words /\ fat16.rootdir_entry \in Words
      BY <2>3, MountedFacts DEF Base
    <3>3. CASE task.name = "rootdir"
      <4>1. /\ req.sector = TrueRoot /\ req.count = DirSectors(fat16.root_entries, 512)
            /\ task.room = 32 * fat16.root_entries
        BY <3>1, <3>3 DEF Base, ReqSound, Request, NoTask
      <4>2. DirSectors(fat16.root_entries, 512) * 512 <= 32 * fat16.root_entries
        BY <3>2, DirSectorsFacts
      <4>3. TrueData = TrueRoot + DirSectors(fat16.root_entries, 512)
        BY <3>1 DEF TrueData, DirSectors, SECTOR_SIZE
      <4>4. fat16.root_entries \in Nat
        BY <3>2, WordFacts
      <4>5. Len(buf) * 512 <= req.count * 512
        BY <2>0
      <4>6. Len(buf) * SECTOR_SIZE <= task.room
        BY <4>1, <4>2, <4>4, <4>5, <2>0 DEF SECTOR_SIZE
      <4> QED BY <4>1, <4>3, <4>6, <3>3
    <3>4. CASE task.name = "cluster"
      <4>1. /\ req.sector = SectorOf(task.cluster) /\ req.count = fat16.sector_per_cluster
            /\ task.room = fat16.cluster_size
        BY <3>4 DEF Base, ReqSound, Request, NoTask
      <4>2. Len(buf) * SECTOR_SIZE <= task.room
        BY <4>1, <3>1, <3>2, <2>0 DEF SECTOR_SIZE
      <4> QED BY <4>1, <4>2, <3>1, <3>4 DEF SectorOf
    <3>5. CASE task.name = "fat"
      <4>1. /\ req.sector = TrueFat + (task.cluster \div 256) /\ req.count = 1
            /\ task.room = 512 /\ task.cluster \in Words
        BY <3>1, <3>5 DEF Base, ReqSound, Request, NoTask
      <4>2. task.cluster \in Nat
        BY <4>1, WordFacts
      <4>3. (2 * task.cluster) \div SECTOR_SIZE = task.cluster \div 256
        BY <4>2 DEF SECTOR_SIZE
      <4> QED BY <4>1, <4>3, <3>5, <2>0 DEF SECTOR_SIZE
    <3> QED BY <2>3, <3>3, <3>4, <3>5
  <2> QED BY <2>1, <2>2, <2>3 DEF Base, ReqSound
<1> QED BY <1>1, BaseInductive, PTL
=============================================================================
