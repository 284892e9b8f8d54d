-------------------------------- MODULE Mmr --------------------------------
(***************************************************************************)
(* Mmr of cairo_vm_hints/src/mmr.rs: the vector of the nodes of a Merkle   *)
(* Mountain Range in the order they were created, and the number of its    *)
(* leaves.  append keeps the two in step without ever comparing them: the  *)
(* peaks come from the number of nodes, the merges from the number of      *)
(* leaves.                                                                 *)
(***************************************************************************)
EXTENDS MmrPeaks, SequencesExt

CONSTANTS
  Element,     \* the values appended
  Hash(_, _),  \* Hasher::hash
  NoRoot,      \* stands for the root of an empty MMR, which get_root refuses
  MaxLeaves    \* bound on the number of leaves, for model checking

ASSUME MaxLeavesAssumption == MaxLeaves \in Nat

VARIABLES
  nodes,      \* node i (from 1) of the MMR
  leaf_count  \* number of leaves appended

vars == <<nodes, leaf_count>>

-----------------------------------------------------------------------------
(* Mmr::size and Mmr::get_peaks on the current state.                      *)
Size == Len(nodes)

GetPeaks == RsGetPeaks(Size)

RetrieveNodes(indices) == [i \in DOMAIN indices |-> nodes[indices[i]]]

(* Mutant: bagged from the left.                                           *)
BagPeaksFromLeft(peaks) == FoldLeft(Hash, Head(peaks), Tail(peaks))

(* Hashing peaks from the right, H(p1, H(p2, ... H(pn-1, pn))): bag[i] is  *)
(* the hash of the last i of them.                                         *)
BagPeaks(peaks) ==
  LET bag[i \in 1..Len(peaks)] ==
        IF i = 1 THEN Last(peaks)
        ELSE Hash(peaks[Len(peaks) - i + 1], bag[i - 1])
  IN  bag[Len(peaks)]

(* Mutant: the size is not hashed into the root.                           *)
GetRootWithoutSize == BagPeaks(RetrieveNodes(GetPeaks))

(* Mmr::get_root of an MMR that is not empty.                              *)
GetRoot == Hash(Size, BagPeaks(RetrieveNodes(GetPeaks)))

(* Mutant: the leaf count is read after it was incremented.                *)
NoMergedPeaksLate == TrailingOnes[leaf_count + 1]

(* How many peaks the next leaf merges with.                               *)
NoMergedPeaks == TrailingOnes[leaf_count]

(* Mutant: the children of a parent are swapped.                           *)
ParentSwapped(peak, last) == Hash(last, peak)

(* A peak is the left child of the parent it gets, what was pushed last    *)
(* the right one.                                                          *)
Parent(peak, last) == Hash(peak, last)

(* The nodes append pushes: the element, then one parent for each of the   *)
(* rightmost peaks it merges with.                                         *)
PushedNodes(element, peaks, merged) ==
  LET node[i \in 1..(merged + 1)] ==
        IF i = 1 THEN element
        ELSE Parent(peaks[Len(peaks) - i + 2], node[i - 1])
  IN  node

-----------------------------------------------------------------------------
(* Mmr::new                                                                *)
Init ==
  /\ nodes = <<>>
  /\ leaf_count = 0

(* Mmr::append, when the assertion of get_peaks holds: the trailing ones   *)
(* of the leaf count say how many peaks to take from the right.            *)
AppendElement(element) ==
  /\ leaf_count < MaxLeaves
  /\ RsPeaksCover(Size)
  /\ LET peaks == RetrieveNodes(GetPeaks)
         taken == IF NoMergedPeaks <= Len(peaks) THEN NoMergedPeaks
                  ELSE Len(peaks)
     IN  nodes' = nodes \o PushedNodes(element, peaks, taken)
  /\ leaf_count' = leaf_count + 1

Next == \E element \in Element : AppendElement(element)

Spec == Init /\ [][Next]_vars

-----------------------------------------------------------------------------
(* The leaves, read back from the vector of nodes.                         *)
Leaves == [i \in 1..leaf_count |-> nodes[SizeOfLeaves(i - 1) + 1]]

Abstract == INSTANCE Accumulator
  WITH leaves <- Leaves,
       root <- IF nodes = <<>> THEN NoRoot ELSE GetRoot

(* The number of nodes is the one an MMR of leaf_count leaves has, so the  *)
(* two counters append relies on never drift apart.                        *)
SizeFormula == Size = SizeOfLeaves(leaf_count)

(* The assertion "Invalid node count" of get_peaks never fires, and take() *)
(* never finds fewer peaks than the leaf count says there are to merge.    *)
PeaksSuffice ==
  /\ RsPeaksCover(Size)
  /\ TrailingOnes[leaf_count] <= Len(GetPeaks)

(* Every node is the hash over the leaves below it: node p of height h is  *)
(* the root of the perfect tree over the 2^h leaves that end where it was  *)
(* added.                                                                  *)
NodesArePerfectTrees ==
  \A k \in 0..(leaf_count - 1) : \A h \in 0..TrailingOnes[k] :
    nodes[SizeOfLeaves(k) + 1 + h]
      = Abstract!TreeOver(Leaves)[h][k + 1 - Pow2[h]]

(* The MMR implements the accumulator: a log that only grows, and a root   *)
(* that is the function of the log the accumulator defines.                *)
ImplementsAccumulator == Abstract!Spec
=============================================================================
