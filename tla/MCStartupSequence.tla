------------------------- MODULE MCStartupSequence -------------------------
(* The longest chain registers hi, lo, lo_basic and readout. *)
EXTENDS StartupSequence

FourRegistrations == 4
=============================================================================
