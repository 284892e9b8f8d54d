-------------------------- MODULE MCMmrLockstep --------------------------
EXTENDS MmrLockstep

CONSTANTS v1

(* Hashing builds the pair: hashes of different pairs differ.              *)
MCHash(x, y) == <<x, y>>

(* A plain value and the hash of it with itself: a leaf that looks like an *)
(* inner node.                                                             *)
MCElement == {v1, <<v1, v1>>}
=============================================================================
