------------------------------- MODULE MCDisk -------------------------------
(* Disks for Disk: one as mkfs makes it, root directories of 256 and 257   *)
(* sectors, a layout and a cluster that need 17 bits, a partition beyond   *)
(* sector 65535, and disks that fat16_init() rejects.                      *)
EXTENDS Disk

GoodImage ==
    [mbr |-> [bootsig |-> 43605, boot |-> 128, type |-> 6, bpb_begin |-> 2048],
     bpb |-> [bytes_per_sector |-> 512, fats |-> 2, signature |-> 41, reserved_sectors |-> 1,
              sectors_per_fat |-> 3, root_entries |-> 32, sectors_per_cluster |-> 2]]

MCImages ==
    {GoodImage,
     [GoodImage EXCEPT !.bpb.root_entries = 4096],
     [GoodImage EXCEPT !.bpb.root_entries = 4112],
     [GoodImage EXCEPT !.mbr.bpb_begin = 65000, !.bpb.sectors_per_fat = 300],
     [GoodImage EXCEPT !.bpb.sectors_per_cluster = 128],
     [GoodImage EXCEPT !.mbr.bpb_begin = 65536 + 2048],
     [GoodImage EXCEPT !.mbr.type = 14],
     [GoodImage EXCEPT !.bpb.signature = 0]}
=============================================================================
