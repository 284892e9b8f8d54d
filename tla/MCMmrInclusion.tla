--------------------------- MODULE MCMmrInclusion ---------------------------
EXTENDS MmrInclusion

CONSTANTS v1, v2

(* Hashing builds the pair: hashes of different pairs differ.              *)
MCHash(x, y) == <<x, y>>

(* Leaves that are not themselves hashes of two nodes.                     *)
MCElement == {v1, v2}

(* The two leaf values are interchangeable.                                *)
MCSymmetry == Permutations(MCElement)
=============================================================================
