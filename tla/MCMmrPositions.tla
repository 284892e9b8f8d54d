--------------------------- MODULE MCMmrPositions ---------------------------
EXTENDS MmrPositions

(* Every size around the bound 2^7: zero, every valid size, the sizes in   *)
(* between and some that fail the range check.                             *)
MCSizes == 0..140
=============================================================================
