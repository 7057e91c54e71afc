------------------------------- MODULE MCSlab -------------------------------
(***************************************************************************)
(* Slab on a small memory: classes of 1, 2, 4 (the "4 KiB" class) and 8    *)
(* (the "512 KiB" class) units, a page of 4 slots of the smallest class.   *)
(***************************************************************************)
EXTENDS Slab
=============================================================================
