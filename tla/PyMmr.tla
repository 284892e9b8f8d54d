------------------------------- MODULE PyMmr -------------------------------
(***************************************************************************)
(* MMR of tools/py/mmr.py: nodes in a dictionary keyed by 0-based          *)
(* positions, merges found by looking at the height of the next position.  *)
(* Its inclusion proofs are in MmrInclusion.                               *)
(***************************************************************************)
EXTENDS MmrPeaks, SequencesExt

CONSTANTS
  Element,     \* the values added
  Hash(_, _),  \* the digest of two updates of the hasher
  NoRoot,      \* stands for the root of an empty MMR
  MaxLeaves    \* bound on the number of leaves, for model checking

ASSUME MaxLeavesAssumption == MaxLeaves \in Nat

VARIABLES
  last_pos,  \* position of the last node, -1 when there is none
  pos_hash   \* the node at each position

vars == <<last_pos, pos_hash>>

-----------------------------------------------------------------------------
MmrSize == last_pos + 1

PeaksValues(poss) == [i \in DOMAIN poss |-> pos_hash[poss[i]]]

(* Mutant: bagged from the left.                                           *)
BagPeaksFromLeft(peaks) == FoldLeft(Hash, Head(peaks), Tail(peaks))

(* bag_peaks and _bag_rhs_peaks, H(p1, H(p2, ... H(pn-1, pn))): bag[i] is  *)
(* the hash of the last i of them.                                         *)
BagPeaks(peaks) ==
  LET bag[i \in 1..Len(peaks)] ==
        IF i = 1 THEN Last(peaks)
        ELSE Hash(peaks[Len(peaks) - i + 1], bag[i - 1])
  IN  bag[Len(peaks)]

(* MMR.get_root of an MMR that is not empty.                               *)
GetRoot == Hash(MmrSize, BagPeaks(PeaksValues(PyGetPeaks(MmrSize))))

(* How often the loop of add merges after storing a leaf at pos: while the *)
(* next position is higher than the merges so far.                         *)
Merges(pos) ==
  CHOOSE m \in 0..(pos + 1) :
    /\ TreePosHeight(pos + m + 1) <= m
    /\ \A i \in 0..(m - 1) : TreePosHeight(pos + i + 1) > i

(* Where add looks for the children of a parent at pos, one above height.  *)
LeftChildPos(pos, height) == pos - 2 * Pow2[height]
RightChildPos(pos, height) == LeftChildPos(pos, height) + SiblingOffset(height)

(* The nodes add stores from pos on: the leaf, then the parents.           *)
AddedNodes(pos, elem) ==
  LET node[i \in 0..Merges(pos)] ==
        LET At(p) == IF p >= pos THEN node[p - pos] ELSE pos_hash[p]
        IN  IF i = 0 THEN elem
            ELSE Hash(At(LeftChildPos(pos + i, i - 1)),
                      At(RightChildPos(pos + i, i - 1)))
  IN  node

-----------------------------------------------------------------------------
(* MMR.__init__                                                            *)
Init ==
  /\ last_pos = -1
  /\ pos_hash = [p \in {} |-> NoRoot]

(* The positions of the leaves, from left to right.                        *)
LeafPositionsBelow[pos \in Nat] ==
  IF pos = 0 THEN <<>>
  ELSE LET below == LeafPositionsBelow[pos - 1]
       IN  IF TreePosHeight(pos - 1) = 0 THEN Append(below, pos - 1) ELSE below

LeafPositions == LeafPositionsBelow[MmrSize]

(* MMR.add                                                                 *)
Add(elem) ==
  /\ Len(LeafPositions) < MaxLeaves
  /\ LET pos  == last_pos + 1
         node == AddedNodes(pos, elem)
     IN  /\ last_pos' = pos + Merges(pos)
         /\ pos_hash' = [p \in 0..last_pos' |->
                           IF p < pos THEN pos_hash[p] ELSE node[p - pos]]

Next == \E elem \in Element : Add(elem)

Spec == Init /\ [][Next]_vars

-----------------------------------------------------------------------------
(* The leaves, from left to right.                                         *)
Leaves == PeaksValues(LeafPositions)

Abstract == INSTANCE Accumulator
  WITH leaves <- Leaves,
       root <- IF last_pos = -1 THEN NoRoot ELSE GetRoot

(* The Python MMR implements the accumulator, with the root the Rust one   *)
(* has for the same leaves.                                                *)
ImplementsAccumulator == Abstract!Spec
=============================================================================
