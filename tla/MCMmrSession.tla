---------------------------- MODULE MCMmrSession ----------------------------
EXTENDS MmrSession

CONSTANTS v1, v2

(* Each hash function builds its own kind of pair.                         *)
MCPoseidon(x, y) == <<"poseidon", x, y>>
MCKeccak(x, y) == <<"keccak", x, y>>

MCElement == {[poseidon |-> e, keccak |-> e] : e \in {v1, v2}}
=============================================================================
