------------------------------ MODULE MCUserVM ------------------------------
(***************************************************************************)
(* UserVM on five addresses: three pages of user space, two of them in one *)
(* page table, one above 1.5T, and one of the kernel's half that vm_init() *)
(* does not map.                                                           *)
(***************************************************************************)
EXTENDS UserVM

MCVAddrs == {Start, <<2, 0, 0, 1>>, <<2, 1, 0, 0>>, <<3, 0, 0, 0>>, <<1, 0, 0, 0>>}
=============================================================================
