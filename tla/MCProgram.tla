----------------------------- MODULE MCProgram -----------------------------
(* Two devices, given in this order, and up to two records of each. *)
EXTENDS Program

CONSTANTS d1, d2

TwoDevices == <<d1, d2>>
TwoRecords == 2
=============================================================================
