------------------------------ MODULE MmrHeight ------------------------------
(***************************************************************************)
(* compute_height_pre_alloc_pow2: the height of a node from its 1-based    *)
(* position.  Every call either recognises a position whose bits are all   *)
(* ones or jumps to the node of the same height in the left sibling tree.  *)
(* The bit length comes from a hint; the range checks decide which values  *)
(* of the hint let the run continue.                                       *)
(***************************************************************************)
EXTENDS MmrMath

CONSTANT TableBits  \* largest index of the table of powers of two: 127

ASSUME TableBitsAssumption == TableBits \in Nat

VARIABLES
  pos,     \* the argument of the last outermost call, 0 before the first
  x,       \* the argument of its current recursive call
  height   \* the result, NoHeight until the recursion ends

heightVars == <<pos, x, height>>

NoHeight == -1

-----------------------------------------------------------------------------
(* Mutant: the last entry of the table is never used.                      *)
BitLengthsShort == 1..(TableBits - 1)

(* The bit lengths the range checks let through.  (A hint of 0 would read  *)
(* before the table, which stops the run.)                                 *)
BitLengths == 1..TableBits

(* Mutant: the jump lands one position short.                              *)
JumpTargetShort(bit_length) == x - Pow2[bit_length - 1]

(* The node of the same height in the left sibling tree.                   *)
JumpTarget(bit_length) == x - Pow2[bit_length - 1] + 1

-----------------------------------------------------------------------------
HeightInit ==
  /\ pos = 0
  /\ x = 0
  /\ height = NoHeight

(* A call of the function, from a step of its caller.                      *)
CallHeight(position) ==
  /\ pos' = position
  /\ x' = position
  /\ height' = NoHeight

HeightPending == pos # 0 /\ height = NoHeight
HeightReturned == pos # 0 /\ height # NoHeight

(* x has bit_length bits and they are all ones.                            *)
AllOnes ==
  /\ HeightPending
  /\ \E bit_length \in BitLengths :
       /\ x = Pow2[bit_length] - 1
       /\ height' = bit_length - 1
  /\ UNCHANGED <<pos, x>>

(* The asserts 2^(bit_length - 1) <= x < 2^bit_length hold: jump left.     *)
JumpLeft ==
  /\ HeightPending
  /\ \E bit_length \in BitLengths :
       /\ x # Pow2[bit_length] - 1
       /\ x < Pow2[bit_length] /\ Pow2[bit_length - 1] <= x
       /\ x' = JumpTarget(bit_length)
  /\ UNCHANGED <<pos, height>>

-----------------------------------------------------------------------------
(* The height returned is the one the append that created the node gave    *)
(* it, and what tree_pos_height of mmr.py computes; on the way no jump     *)
(* leaves the level of the node: whatever height the current position has, *)
(* the position asked for has it too.                                      *)
HeightCorrect ==
  /\ HeightReturned => HasHeight(pos, height) /\ height = Height[pos]
  /\ \A h \in 0..TableBits : HasHeight(x, h) => HasHeight(pos, h)
=============================================================================
