---------------------------- MODULE MmrLockstep ----------------------------
(***************************************************************************)
(* A Rust and a Python Merkle Mountain Range side by side, as the tests    *)
(* use them: one computes the root the other is compared with.  Each grows *)
(* on its own.                                                             *)
(***************************************************************************)
EXTENDS Mmr

CONSTANT MaxPyLeaves  \* bound on the leaves of the Python MMR

ASSUME MaxPyLeavesAssumption == MaxPyLeaves \in Nat

VARIABLES last_pos, pos_hash  \* the Python MMR

Python == INSTANCE PyMmr WITH MaxLeaves <- MaxPyLeaves

lockstepVars == <<nodes, leaf_count, last_pos, pos_hash>>

LockstepInit == Init /\ Python!Init

LockstepNext ==
  \/ Next /\ UNCHANGED <<last_pos, pos_hash>>
  \/ Python!Next /\ UNCHANGED vars

LockstepSpec == LockstepInit /\ [][LockstepNext]_lockstepVars

-----------------------------------------------------------------------------
(* The two have the same root exactly when they have the same leaves in    *)
(* the same order.  One direction says that the implementations agree, the *)
(* other that a root binds all the leaves: leaves are not hashed, so only  *)
(* the size hashed into the root tells a leaf that is itself a hash from   *)
(* an inner node.                                                          *)
RootsBindLeaves ==
  leaf_count > 0 /\ last_pos >= 0 =>
    (GetRoot = Python!GetRoot <=> Leaves = Python!Leaves)
=============================================================================
