----------------------------- MODULE MCPhysMem -----------------------------
(***************************************************************************)
(* PhysMem on a small memory: a block splits into SplitN blocks of the     *)
(* next size (128 in the code).                                            *)
(***************************************************************************)
EXTENDS PhysMem
=============================================================================
