---------------------------- MODULE MmrInclusion ----------------------------
(***************************************************************************)
(* Inclusion proofs: MMR.gen_proof and MerkleProof.verify of mmr.py, with  *)
(* proofs that are generated at one size and verified later, and their     *)
(* Cairo counterparts hash_subtree_path and mmr_root_poseidon.  The Python *)
(* code numbers the nodes from 0 and asks whether the next node is higher; *)
(* the Cairo code numbers them from 1 and asks whether it is exactly one   *)
(* level higher.                                                           *)
(***************************************************************************)
EXTENDS PyMmr

CONSTANT NoProof  \* no proof has been generated

VARIABLE held  \* the last proof generated, as its holder keeps it: the
               \* MerkleProof, the leaf it is for, the root of its time

proofVars == <<last_pos, pos_hash, held>>

-----------------------------------------------------------------------------
(* The loop of gen_proof: the siblings on the way from pos up to its peak, *)
(* and the position of the peak.  A turn leads to a later position, so     *)
(* there are at most as many turns as nodes.                               *)
IsRightChild(pos) == TreePosHeight(pos + 1) > TreePosHeight(pos)

SiblingPos(pos, height) ==
  IF IsRightChild(pos) THEN pos - SiblingOffset(height)
  ELSE pos + SiblingOffset(height)

ParentPos(pos, height) ==
  IF IsRightChild(pos) THEN pos + 1 ELSE pos + 2 * Pow2[height]

Climb ==
  LET Up[turns \in Nat] ==
        [height \in Nat |-> [pos \in Nat |->
           LET sib == SiblingPos(pos, height)
               up  == Up[turns - 1][height + 1][ParentPos(pos, height)]
           IN  IF turns = 0 \/ pos > last_pos \/ sib > last_pos
                 THEN [path |-> <<>>, peak |-> pos]
               ELSE [path |-> <<pos_hash[sib]>> \o up.path, peak |-> up.peak]]]
  IN  Up

ClimbFrom(pos) == Climb[MmrSize][0][pos]

(* The positions of a list that are wanted, in their order.                *)
PeaksAmong(poss, wanted) ==
  LET kept[i \in 0..Len(poss)] ==
        IF i = 0 THEN <<>>
        ELSE IF poss[i] \in wanted THEN Append(kept[i - 1], poss[i])
        ELSE kept[i - 1]
  IN  kept[Len(poss)]

(* _bag_rhs_peaks and _lhs_peaks: the peaks on either side, all of them    *)
(* nodes of the MMR.                                                       *)
RhsPeaks(peak_pos, poss) ==
  PeaksValues(PeaksAmong(poss, (peak_pos + 1)..last_pos))

LhsPeaks(peak_pos, poss) == PeaksValues(PeaksAmong(poss, 0..(peak_pos - 1)))

(* What _bag_rhs_peaks adds to the path: nothing behind the last peak.     *)
BaggedRhs(peak_pos, poss) ==
  LET rhs == RhsPeaks(peak_pos, poss)
  IN  IF rhs = <<>> THEN <<>> ELSE <<BagPeaks(rhs)>>

(* Mutant: the peaks on the left in the order of the MMR.                  *)
PeaksProofInOrder(peak_pos, poss) ==
  BaggedRhs(peak_pos, poss) \o LhsPeaks(peak_pos, poss)

(* What gen_proof appends to the path: the peaks on the right bagged into  *)
(* one value, then those on the left from right to left.                   *)
PeaksProof(peak_pos, poss) ==
  BaggedRhs(peak_pos, poss) \o Reverse(LhsPeaks(peak_pos, poss))

GenProof(pos) ==
  LET climb == ClimbFrom(pos)
  IN  [mmr_size |-> MmrSize,
       proof    |-> climb.path
                      \o PeaksProof(climb.peak, PyGetPeaks(MmrSize))]

(* One item of the proof in MerkleProof.verify: at a peak it is what is    *)
(* bagged with it, below a peak it is the sibling.                         *)
VerifyItem(poss, at, item) ==
  IF at.pos \in Range(poss)
    THEN IF at.pos = Last(poss)
           THEN [at EXCEPT !.hash = Hash(item, at.hash)]
           ELSE [at EXCEPT !.hash = Hash(at.hash, item), !.pos = Last(poss)]
    ELSE [pos    |-> ParentPos(at.pos, at.height),
          height |-> at.height + 1,
          hash   |-> IF IsRightChild(at.pos) THEN Hash(item, at.hash)
                     ELSE Hash(at.hash, item)]

(* Mutant: the assertion is compiled out.                                  *)
VerifyWithoutAssert(proof, root, pos, elem) == TRUE

(* MerkleProof.verify: its last assertion compares with the root.          *)
Verify(proof, root, pos, elem) ==
  LET poss == PyGetPeaks(proof.mmr_size)
      at[i \in 0..Len(proof.proof)] ==
        IF i = 0 THEN [pos |-> pos, height |-> 0, hash |-> elem]
        ELSE VerifyItem(poss, at[i - 1], proof.proof[i])
  IN  Hash(proof.mmr_size, at[Len(proof.proof)].hash) = root

-----------------------------------------------------------------------------
(* Mutant: a left child goes up by its own size only.                      *)
ParentPositionShort(position, height) == position + Pow2[height]

(* The parent of a left child.                                             *)
ParentPosition(position, height) == position + Pow2[height + 1]

(* One call of hash_subtree_path, which consumes one sibling.  It is told  *)
(* the height and computes it again from the position.                     *)
HashSibling(at, sibling) ==
  LET position_height == Height[at.position]
      next_height     == Height[at.position + 1]
  IN  IF next_height = position_height + 1
        THEN [element  |-> Hash(sibling, at.element),
              height   |-> at.height + 1,
              position |-> at.position + 1]
        ELSE [element  |-> Hash(at.element, sibling),
              height   |-> at.height + 1,
              position |-> ParentPosition(at.position, at.height)]

HashSubtreePath(element, height, position, inclusion_proof) ==
  LET at[i \in 0..Len(inclusion_proof)] ==
        IF i = 0
          THEN [element |-> element, height |-> height, position |-> position]
        ELSE HashSibling(at[i - 1], inclusion_proof[i])
  IN  at[Len(inclusion_proof)]

(* Mutant: the bag of the rest comes first.                                *)
BagPeaksPoseidonSwapped(peaks) ==
  LET bag[i \in 1..Len(peaks)] ==
        IF i = Len(peaks) THEN peaks[i] ELSE Hash(bag[i + 1], peaks[i])
  IN  bag[1]

(* mmr_root_poseidon: the root from all the peaks.  bag_peaks_poseidon     *)
(* recurses from the left.                                                 *)
BagPeaksPoseidon(peaks) ==
  LET bag[i \in 1..Len(peaks)] ==
        IF i = Len(peaks) THEN peaks[i] ELSE Hash(peaks[i], bag[i + 1])
  IN  bag[1]

MmrRootPoseidon(peaks, mmr_size) == Hash(mmr_size, BagPeaksPoseidon(peaks))

-----------------------------------------------------------------------------
ProofInit == Init /\ held = NoProof

Grow == \E elem \in Element : Add(elem) /\ UNCHANGED held

(* MMR.gen_proof, by a caller that keeps the proof, the leaf it is for and *)
(* the root of that moment; gen_proof refuses a position above height 0.   *)
Prove(pos) ==
  /\ TreePosHeight(pos) = 0
  /\ held' = [merkle |-> GenProof(pos), pos |-> pos, elem |-> pos_hash[pos],
              root |-> GetRoot]
  /\ UNCHANGED <<last_pos, pos_hash>>

ProofNext == Grow \/ \E pos \in 0..last_pos : Prove(pos)

ProofSpec == ProofInit /\ [][ProofNext]_proofVars

-----------------------------------------------------------------------------
(* The proof of every leaf verifies against the root of its time, and goes *)
(* on doing so after the MMR has grown: the leaf is still where it was.    *)
HeldProofVerifies ==
  held # NoProof =>
    /\ Verify(held.merkle, held.root, held.pos, held.elem)
    /\ pos_hash[held.pos] = held.elem
    /\ TreePosHeight(held.pos) = 0

(* Once the MMR has grown, the proof is refused against the new root.      *)
StaleProofRefused ==
  held # NoProof /\ held.merkle.mmr_size # MmrSize =>
    ~Verify(held.merkle, GetRoot, held.pos, held.elem)

(* From every leaf, the siblings of its Python proof lead the Cairo        *)
(* program to the peak above the leaf, at its position and height.         *)
SubtreePathReachesPeak ==
  \A pos \in Range(LeafPositions) :
    LET climb == ClimbFrom(pos)
        top   == HashSubtreePath(pos_hash[pos], 0, pos + 1, climb.path)
    IN  /\ climb.peak \in Range(PyGetPeaks(MmrSize))
        /\ top.position = climb.peak + 1
        /\ top.height = TreePosHeight(climb.peak)
        /\ top.element = pos_hash[climb.peak]

(* The root the Cairo program computes from the peaks is the Python one.   *)
CairoRootAgrees ==
  last_pos >= 0 =>
    MmrRootPoseidon(PeaksValues(PyGetPeaks(MmrSize)), MmrSize) = GetRoot
=============================================================================
