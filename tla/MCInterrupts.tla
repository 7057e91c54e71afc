---------------------------- MODULE MCInterrupts ----------------------------
(* Interrupts with model values for the keys. *)
EXTENDS Interrupts
=============================================================================
