-------------------------- MODULE MmrSessionProofs --------------------------
(***************************************************************************)
(* For every number of leaves, every sequence of runs and every pair of    *)
(* hash functions whose first one binds the size, the run that holds only  *)
(* peaks and the nodes it added computes what the whole MMRs would.        *)
(***************************************************************************)
EXTENDS MmrSession, MmrPeaksProofs

InPoseidon == INSTANCE MmrProofs
  WITH nodes <- nodes_poseidon, Hash <- Poseidon,
       Element <- {e.poseidon : e \in Element}
InKeccak == INSTANCE MmrProofs
  WITH nodes <- nodes_keccak, Hash <- Keccak,
       Element <- {e.keccak : e \in Element}

-----------------------------------------------------------------------------
(* The two instances of the Rust MMR share their definitions with the one  *)
(* its proofs are about.                                                   *)
LEMMA PoseidonArithmetic ==
  /\ InPoseidon!Pow2 = Pow2 /\ InPoseidon!TrailingOnes = TrailingOnes
  /\ \A n : InPoseidon!SizeOfLeaves(n) = SizeOfLeaves(n)
  /\ \A n : InPoseidon!RsGetPeaks(n) = RsGetPeaks(n)
<1>1. InPoseidon!Pow2 = Pow2
  BY DEF InPoseidon!Pow2, Pow2
<1>2. InPoseidon!PopCount = PopCount
  BY DEF InPoseidon!PopCount, PopCount
<1>3. InPoseidon!TrailingOnes = TrailingOnes
  BY DEF InPoseidon!TrailingOnes, TrailingOnes
<1>4. ASSUME NEW n
      PROVE  InPoseidon!SizeOfLeaves(n) = SizeOfLeaves(n)
  BY <1>2 DEF InPoseidon!SizeOfLeaves, SizeOfLeaves
<1>5. ASSUME NEW n
      PROVE  InPoseidon!BitLength(n) = BitLength(n)
  BY <1>1 DEF InPoseidon!BitLength, BitLength
<1>6. ASSUME NEW h, NEW below
      PROVE  InPoseidon!PeaksLevel(h, below) = PeaksLevel(h, below)
  BY <1>1 DEF InPoseidon!PeaksLevel, PeaksLevel
<1>7. InPoseidon!RsPeaksFrom = RsPeaksFrom
  BY <1>6 DEF InPoseidon!RsPeaksFrom, RsPeaksFrom
<1>8. ASSUME NEW n
      PROVE  InPoseidon!RsGetPeaks(n) = RsGetPeaks(n)
  BY <1>5, <1>7 DEF InPoseidon!RsGetPeaks, RsGetPeaks
<1> QED
  BY <1>1, <1>3, <1>4, <1>8

LEMMA PoseidonInstance ==
  /\ \A e : OutPoseidon!AppendElement(e) <=> InPoseidon!AppendElement(e)
  /\ OutPoseidon!GetRoot = InPoseidon!GetRoot
<1>1. OutPoseidon!Pow2 = InPoseidon!Pow2
  BY DEF OutPoseidon!Pow2, InPoseidon!Pow2
<1>2. OutPoseidon!TrailingOnes = InPoseidon!TrailingOnes
  BY DEF OutPoseidon!TrailingOnes, InPoseidon!TrailingOnes
<1>3. ASSUME NEW n
      PROVE  OutPoseidon!BitLength(n) = InPoseidon!BitLength(n)
  BY <1>1 DEF OutPoseidon!BitLength, InPoseidon!BitLength
<1>4. ASSUME NEW h, NEW below
      PROVE  OutPoseidon!PeaksLevel(h, below) = InPoseidon!PeaksLevel(h, below)
  BY <1>1 DEF OutPoseidon!PeaksLevel, InPoseidon!PeaksLevel
<1>5. OutPoseidon!RsPeaksFrom = InPoseidon!RsPeaksFrom
  BY <1>4 DEF OutPoseidon!RsPeaksFrom, InPoseidon!RsPeaksFrom
<1>6. ASSUME NEW n
      PROVE  OutPoseidon!RsGetPeaks(n) = InPoseidon!RsGetPeaks(n)
  BY <1>3, <1>5 DEF OutPoseidon!RsGetPeaks, InPoseidon!RsGetPeaks
<1>7. OutPoseidon!Size = InPoseidon!Size /\ OutPoseidon!GetPeaks = InPoseidon!GetPeaks
  BY <1>6 DEF OutPoseidon!Size, InPoseidon!Size, OutPoseidon!GetPeaks, InPoseidon!GetPeaks
<1>8. ASSUME NEW peaks
      PROVE  OutPoseidon!BagPeaks(peaks) = InPoseidon!BagPeaks(peaks)
  BY DEF OutPoseidon!BagPeaks, InPoseidon!BagPeaks, OutPoseidon!Last, InPoseidon!Last
<1>9. ASSUME NEW indices
      PROVE  OutPoseidon!RetrieveNodes(indices) = InPoseidon!RetrieveNodes(indices)
  BY DEF OutPoseidon!RetrieveNodes, InPoseidon!RetrieveNodes
<1>10. OutPoseidon!GetRoot = InPoseidon!GetRoot
  BY <1>7, <1>8, <1>9 DEF OutPoseidon!GetRoot, InPoseidon!GetRoot
<1>11. ASSUME NEW element, NEW peaks, NEW merged
       PROVE  OutPoseidon!PushedNodes(element, peaks, merged)
                = InPoseidon!PushedNodes(element, peaks, merged)
  BY DEF OutPoseidon!PushedNodes, InPoseidon!PushedNodes, OutPoseidon!Parent, InPoseidon!Parent
<1>12. OutPoseidon!RsPeaksCover(OutPoseidon!Size) <=> InPoseidon!RsPeaksCover(InPoseidon!Size)
  BY <1>6, <1>7 DEF OutPoseidon!RsPeaksCover, InPoseidon!RsPeaksCover
<1>13. OutPoseidon!NoMergedPeaks = InPoseidon!NoMergedPeaks
  BY <1>2 DEF OutPoseidon!NoMergedPeaks, InPoseidon!NoMergedPeaks
<1>14. ASSUME NEW e
       PROVE  OutPoseidon!AppendElement(e) <=> InPoseidon!AppendElement(e)
  BY <1>7, <1>9, <1>11, <1>12, <1>13 DEF OutPoseidon!AppendElement, InPoseidon!AppendElement
<1> QED
  BY <1>10, <1>14

(* The two instances of the Rust MMR share their definitions with the one  *)
(* its proofs are about.                                                   *)
LEMMA KeccakArithmetic ==
  /\ InKeccak!Pow2 = Pow2 /\ InKeccak!TrailingOnes = TrailingOnes
  /\ \A n : InKeccak!SizeOfLeaves(n) = SizeOfLeaves(n)
  /\ \A n : InKeccak!RsGetPeaks(n) = RsGetPeaks(n)
<1>1. InKeccak!Pow2 = Pow2
  BY DEF InKeccak!Pow2, Pow2
<1>2. InKeccak!PopCount = PopCount
  BY DEF InKeccak!PopCount, PopCount
<1>3. InKeccak!TrailingOnes = TrailingOnes
  BY DEF InKeccak!TrailingOnes, TrailingOnes
<1>4. ASSUME NEW n
      PROVE  InKeccak!SizeOfLeaves(n) = SizeOfLeaves(n)
  BY <1>2 DEF InKeccak!SizeOfLeaves, SizeOfLeaves
<1>5. ASSUME NEW n
      PROVE  InKeccak!BitLength(n) = BitLength(n)
  BY <1>1 DEF InKeccak!BitLength, BitLength
<1>6. ASSUME NEW h, NEW below
      PROVE  InKeccak!PeaksLevel(h, below) = PeaksLevel(h, below)
  BY <1>1 DEF InKeccak!PeaksLevel, PeaksLevel
<1>7. InKeccak!RsPeaksFrom = RsPeaksFrom
  BY <1>6 DEF InKeccak!RsPeaksFrom, RsPeaksFrom
<1>8. ASSUME NEW n
      PROVE  InKeccak!RsGetPeaks(n) = RsGetPeaks(n)
  BY <1>5, <1>7 DEF InKeccak!RsGetPeaks, RsGetPeaks
<1> QED
  BY <1>1, <1>3, <1>4, <1>8

LEMMA KeccakInstance ==
  /\ \A e : OutKeccak!AppendElement(e) <=> InKeccak!AppendElement(e)
  /\ OutKeccak!GetRoot = InKeccak!GetRoot
<1>1. OutKeccak!Pow2 = InKeccak!Pow2
  BY DEF OutKeccak!Pow2, InKeccak!Pow2
<1>2. OutKeccak!TrailingOnes = InKeccak!TrailingOnes
  BY DEF OutKeccak!TrailingOnes, InKeccak!TrailingOnes
<1>3. ASSUME NEW n
      PROVE  OutKeccak!BitLength(n) = InKeccak!BitLength(n)
  BY <1>1 DEF OutKeccak!BitLength, InKeccak!BitLength
<1>4. ASSUME NEW h, NEW below
      PROVE  OutKeccak!PeaksLevel(h, below) = InKeccak!PeaksLevel(h, below)
  BY <1>1 DEF OutKeccak!PeaksLevel, InKeccak!PeaksLevel
<1>5. OutKeccak!RsPeaksFrom = InKeccak!RsPeaksFrom
  BY <1>4 DEF OutKeccak!RsPeaksFrom, InKeccak!RsPeaksFrom
<1>6. ASSUME NEW n
      PROVE  OutKeccak!RsGetPeaks(n) = InKeccak!RsGetPeaks(n)
  BY <1>3, <1>5 DEF OutKeccak!RsGetPeaks, InKeccak!RsGetPeaks
<1>7. OutKeccak!Size = InKeccak!Size /\ OutKeccak!GetPeaks = InKeccak!GetPeaks
  BY <1>6 DEF OutKeccak!Size, InKeccak!Size, OutKeccak!GetPeaks, InKeccak!GetPeaks
<1>8. ASSUME NEW peaks
      PROVE  OutKeccak!BagPeaks(peaks) = InKeccak!BagPeaks(peaks)
  BY DEF OutKeccak!BagPeaks, InKeccak!BagPeaks, OutKeccak!Last, InKeccak!Last
<1>9. ASSUME NEW indices
      PROVE  OutKeccak!RetrieveNodes(indices) = InKeccak!RetrieveNodes(indices)
  BY DEF OutKeccak!RetrieveNodes, InKeccak!RetrieveNodes
<1>10. OutKeccak!GetRoot = InKeccak!GetRoot
  BY <1>7, <1>8, <1>9 DEF OutKeccak!GetRoot, InKeccak!GetRoot
<1>11. ASSUME NEW element, NEW peaks, NEW merged
       PROVE  OutKeccak!PushedNodes(element, peaks, merged)
                = InKeccak!PushedNodes(element, peaks, merged)
  BY DEF OutKeccak!PushedNodes, InKeccak!PushedNodes, OutKeccak!Parent, InKeccak!Parent
<1>12. OutKeccak!RsPeaksCover(OutKeccak!Size) <=> InKeccak!RsPeaksCover(InKeccak!Size)
  BY <1>6, <1>7 DEF OutKeccak!RsPeaksCover, InKeccak!RsPeaksCover
<1>13. OutKeccak!NoMergedPeaks = InKeccak!NoMergedPeaks
  BY <1>2 DEF OutKeccak!NoMergedPeaks, InKeccak!NoMergedPeaks
<1>14. ASSUME NEW e
       PROVE  OutKeccak!AppendElement(e) <=> InKeccak!AppendElement(e)
  BY <1>7, <1>9, <1>11, <1>12, <1>13 DEF OutKeccak!AppendElement, InKeccak!AppendElement
<1> QED
  BY <1>10, <1>14

-----------------------------------------------------------------------------
(* What an append does to each of the MMRs outside.                        *)
LEMMA PoseidonAppend ==
  ASSUME InPoseidon!IInv, NEW element \in Element, OutPoseidon!AppendElement(element.poseidon)
  PROVE  LET S == SizeOfLeaves(leaf_count)
             P == RsGetPeaks(S)
         IN  /\ leaf_count' = leaf_count + 1
             /\ \A p \in 1..S : nodes_poseidon'[p] = nodes_poseidon[p]
             /\ nodes_poseidon'[S + 1] = element.poseidon
             /\ \A i \in 1..TrailingOnes[leaf_count] :
                  nodes_poseidon'[S + 1 + i] = Poseidon(nodes_poseidon[P[Len(P) - i + 1]], nodes_poseidon'[S + i])
             /\ InPoseidon!IInv'
<1> DEFINE e == element.poseidon
<1>1. e \in {x.poseidon : x \in Element}
  OBVIOUS
<1>2. InPoseidon!AppendElement(e)
  BY PoseidonInstance
<1> HIDE DEF e
<1>3. /\ leaf_count' = leaf_count + 1
      /\ \A p \in 1..InPoseidon!SizeOfLeaves(leaf_count) : nodes_poseidon'[p] = nodes_poseidon[p]
      /\ nodes_poseidon'[InPoseidon!SizeOfLeaves(leaf_count) + 1] = e
      /\ \A i \in 1..InPoseidon!TrailingOnes[leaf_count] :
           nodes_poseidon'[InPoseidon!SizeOfLeaves(leaf_count) + 1 + i]
             = Poseidon(nodes_poseidon[InPoseidon!GetPeaks[Len(InPoseidon!GetPeaks) - i + 1]],
                   nodes_poseidon'[InPoseidon!SizeOfLeaves(leaf_count) + i])
      /\ InPoseidon!IInv'
  BY <1>1, <1>2, MaxLeavesAssumption, InPoseidon!AppendEffect
<1>4. InPoseidon!GetPeaks = RsGetPeaks(SizeOfLeaves(leaf_count))
  BY PoseidonArithmetic DEF InPoseidon!IInv, InPoseidon!GetPeaks, InPoseidon!Size
<1> QED
  BY <1>3, <1>4, PoseidonArithmetic DEF e

LEMMA KeccakAppend ==
  ASSUME InKeccak!IInv, NEW element \in Element, OutKeccak!AppendElement(element.keccak)
  PROVE  LET S == SizeOfLeaves(leaf_count)
             P == RsGetPeaks(S)
         IN  /\ leaf_count' = leaf_count + 1
             /\ \A p \in 1..S : nodes_keccak'[p] = nodes_keccak[p]
             /\ nodes_keccak'[S + 1] = element.keccak
             /\ \A i \in 1..TrailingOnes[leaf_count] :
                  nodes_keccak'[S + 1 + i] = Keccak(nodes_keccak[P[Len(P) - i + 1]], nodes_keccak'[S + i])
             /\ InKeccak!IInv'
<1> DEFINE e == element.keccak
<1>1. e \in {x.keccak : x \in Element}
  OBVIOUS
<1>2. InKeccak!AppendElement(e)
  BY KeccakInstance
<1> HIDE DEF e
<1>3. /\ leaf_count' = leaf_count + 1
      /\ \A p \in 1..InKeccak!SizeOfLeaves(leaf_count) : nodes_keccak'[p] = nodes_keccak[p]
      /\ nodes_keccak'[InKeccak!SizeOfLeaves(leaf_count) + 1] = e
      /\ \A i \in 1..InKeccak!TrailingOnes[leaf_count] :
           nodes_keccak'[InKeccak!SizeOfLeaves(leaf_count) + 1 + i]
             = Keccak(nodes_keccak[InKeccak!GetPeaks[Len(InKeccak!GetPeaks) - i + 1]],
                   nodes_keccak'[InKeccak!SizeOfLeaves(leaf_count) + i])
      /\ InKeccak!IInv'
  BY <1>1, <1>2, MaxLeavesAssumption, InKeccak!AppendEffect
<1>4. InKeccak!GetPeaks = RsGetPeaks(SizeOfLeaves(leaf_count))
  BY KeccakArithmetic DEF InKeccak!IInv, InKeccak!GetPeaks, InKeccak!Size
<1> QED
  BY <1>3, <1>4, KeccakArithmetic DEF e

(* ... and to both.                                                        *)
NodeOf(p) == [poseidon |-> nodes_poseidon[p], keccak |-> nodes_keccak[p]]

NewNodeOf(p) ==
  [poseidon |-> nodes_poseidon'[p], keccak |-> nodes_keccak'[p]]

OutsideInv ==
  /\ InPoseidon!IInv
  /\ InKeccak!IInv
  /\ leaf_count >= 1

LEMMA OutsideSize ==
  ASSUME OutsideInv
  PROVE  /\ leaf_count \in Nat /\ leaf_count >= 1
         /\ Len(nodes_poseidon) = SizeOfLeaves(leaf_count)
         /\ Len(nodes_keccak) = SizeOfLeaves(leaf_count)
BY PoseidonArithmetic, KeccakArithmetic
   DEF OutsideInv, InPoseidon!IInv, InKeccak!IInv

LEMMA OutsideAppend ==
  ASSUME OutsideInv, NEW element \in Element, AppendLeaf(element)
  PROVE  LET S == SizeOfLeaves(leaf_count)
             P == RsGetPeaks(S)
         IN  /\ leaf_count' = leaf_count + 1
             /\ \A p \in 1..S : NewNodeOf(p) = NodeOf(p)
             /\ NewNodeOf(S + 1) = element
             /\ \A i \in 1..TrailingOnes[leaf_count] :
                  NewNodeOf(S + 1 + i)
                    = HashBoth(NodeOf(P[Len(P) - i + 1]), NewNodeOf(S + i))
             /\ OutsideInv'
<1> DEFINE S == SizeOfLeaves(leaf_count)
           P == RsGetPeaks(S)
<1>1. /\ leaf_count' = leaf_count + 1
      /\ \A p \in 1..S : nodes_poseidon'[p] = nodes_poseidon[p]
      /\ nodes_poseidon'[S + 1] = element.poseidon
      /\ \A i \in 1..TrailingOnes[leaf_count] :
           nodes_poseidon'[S + 1 + i]
             = Poseidon(nodes_poseidon[P[Len(P) - i + 1]], nodes_poseidon'[S + i])
      /\ InPoseidon!IInv'
  BY PoseidonAppend DEF OutsideInv, AppendLeaf
<1>2. /\ \A p \in 1..S : nodes_keccak'[p] = nodes_keccak[p]
      /\ nodes_keccak'[S + 1] = element.keccak
      /\ \A i \in 1..TrailingOnes[leaf_count] :
           nodes_keccak'[S + 1 + i]
             = Keccak(nodes_keccak[P[Len(P) - i + 1]], nodes_keccak'[S + i])
      /\ InKeccak!IInv'
  BY KeccakAppend DEF OutsideInv, AppendLeaf
<1>3. leaf_count \in Nat /\ leaf_count >= 1
  BY OutsideSize
<1> HIDE DEF S, P
<1>4. \A p \in 1..S : NewNodeOf(p) = NodeOf(p)
  BY <1>1, <1>2 DEF NodeOf, NewNodeOf
<1>5. NewNodeOf(S + 1) = element
  <2>1. element = [poseidon |-> element.poseidon, keccak |-> element.keccak]
    BY ElementAssumption
  <2> QED
    BY <1>1, <1>2, <2>1 DEF NewNodeOf
<1>6. ASSUME NEW i \in 1..TrailingOnes[leaf_count]
      PROVE  NewNodeOf(S + 1 + i)
               = HashBoth(NodeOf(P[Len(P) - i + 1]), NewNodeOf(S + i))
  <2> DEFINE q == P[Len(P) - i + 1]
             lp == nodes_poseidon[q]
             lk == nodes_keccak[q]
  <2>1. /\ nodes_poseidon'[S + 1 + i] = Poseidon(lp, nodes_poseidon'[S + i])
        /\ nodes_keccak'[S + 1 + i] = Keccak(lk, nodes_keccak'[S + i])
    BY <1>1, <1>2
  <2>2. NodeOf(q).poseidon = lp /\ NodeOf(q).keccak = lk
    BY DEF NodeOf
  <2> HIDE DEF q, lp, lk
  <2> QED
    BY <2>1, <2>2 DEF NewNodeOf, HashBoth, q
<1>7. OutsideInv'
  BY <1>1, <1>2, <1>3 DEF OutsideInv
<1> QED
  BY <1>1, <1>4, <1>5, <1>6, <1>7 DEF S, P

-----------------------------------------------------------------------------
(* What a run knows of the MMRs it extends, which had count leaves when it *)
(* started: their size, their peaks, and in its array every later node.    *)
PeakSet(size) == {RsGetPeaks(size)[i] : i \in DOMAIN RsGetPeaks(size)}

RunInv(count) ==
  /\ mmr_offset = SizeOfLeaves(count)
  /\ previous_peaks_dict = [p \in PeakSet(mmr_offset) |-> NodeOf(p)]
  /\ mmr_array = [i \in 1..(SizeOfLeaves(leaf_count) - mmr_offset) |->
                    NodeOf(mmr_offset + i)]

LEMMA RunSize ==
  ASSUME OutsideInv, NEW count \in 1..leaf_count, RunInv(count)
  PROVE  /\ count \in Nat /\ leaf_count \in Nat /\ count <= leaf_count
         /\ mmr_offset \in Nat /\ SizeOfLeaves(leaf_count) \in Nat
         /\ SizeOfLeaves(leaf_count) - mmr_offset \in Nat
         /\ Len(mmr_array) = SizeOfLeaves(leaf_count) - mmr_offset
         /\ MmrSize = SizeOfLeaves(leaf_count)
<1>1. leaf_count \in Nat /\ count \in Nat /\ count <= leaf_count
  BY OutsideSize
<1>2. /\ mmr_offset \in Nat /\ SizeOfLeaves(leaf_count) \in Nat
      /\ mmr_offset <= SizeOfLeaves(leaf_count)
  BY <1>1, SizeOfLeavesBounds, SizeMonotone DEF RunInv
<1>3. SizeOfLeaves(leaf_count) - mmr_offset \in Nat
  BY <1>2
<1>4. IsRow(mmr_array, SizeOfLeaves(leaf_count) - mmr_offset)
  BY DEF IsRow, RunInv
<1>5. Len(mmr_array) = SizeOfLeaves(leaf_count) - mmr_offset
  BY <1>3, <1>4, RowIsSequence
<1> QED
  BY <1>1, <1>2, <1>3, <1>5 DEF MmrSize

(* Looking up a peak of the MMR finds the node outside: in the array above *)
(* mmr_offset, and below it as a peak the MMR already had.                 *)
LEMMA LookupPeak ==
  ASSUME OutsideInv, NEW count \in 1..leaf_count, RunInv(count),
         NEW i \in DOMAIN RsGetPeaks(SizeOfLeaves(leaf_count))
  PROVE  LET p == RsGetPeaks(SizeOfLeaves(leaf_count))[i]
         IN  /\ p \in 1..SizeOfLeaves(leaf_count)
             /\ GetFullMmrPeakValues(p) = NodeOf(p)
             /\ p <= mmr_offset => p \in DOMAIN previous_peaks_dict
<1> DEFINE p == RsGetPeaks(SizeOfLeaves(leaf_count))[i]
           S == SizeOfLeaves(leaf_count)
<1>1. /\ count \in Nat /\ leaf_count \in Nat /\ count <= leaf_count
      /\ mmr_offset \in Nat /\ S \in Nat /\ S - mmr_offset \in Nat
  BY RunSize
<1>2. p \in 1..S
  BY <1>1, PeakInside
<1>3. ASSUME p <= mmr_offset
      PROVE  p \in PeakSet(mmr_offset)
  <2>1. mmr_offset = SizeOfLeaves(count)
    BY DEF RunInv
  <2>2. \E l \in DOMAIN RsGetPeaks(SizeOfLeaves(count)) :
          RsGetPeaks(SizeOfLeaves(count))[l] = p
    BY <1>1, <1>3, <2>1, OldPeak
  <2> HIDE DEF p
  <2> QED
    BY <2>1, <2>2 DEF PeakSet
<1> HIDE DEF p, S
<1>4. GetFullMmrPeakValues(p) = NodeOf(p)
  <2>1. CASE p > mmr_offset
    <3>1. p - mmr_offset \in 1..(S - mmr_offset) /\ mmr_offset + (p - mmr_offset) = p
      BY <1>1, <1>2, <2>1
    <3>2. mmr_array[p - mmr_offset] = NodeOf(mmr_offset + (p - mmr_offset))
      BY <3>1 DEF RunInv, S
    <3>3. GetFullMmrPeakValues(p) = mmr_array[p - mmr_offset]
      BY <2>1 DEF GetFullMmrPeakValues, IsPositionInMmrArray
    <3> QED
      BY <3>1, <3>2, <3>3
  <2>2. CASE ~(p > mmr_offset)
    <3>1. p \in PeakSet(mmr_offset)
      BY <1>1, <1>2, <1>3, <2>2
    <3> QED
      BY <2>2, <3>1 DEF RunInv, GetFullMmrPeakValues, IsPositionInMmrArray
  <2> QED
    BY <2>1, <2>2
<1>5. p <= mmr_offset => p \in DOMAIN previous_peaks_dict
  BY <1>3 DEF RunInv
<1> QED
  BY <1>2, <1>4, <1>5 DEF p, S

(* The values at the peaks are those outside, so the run computes the      *)
(* roots from them.                                                        *)
LEMMA LookupPeaks ==
  ASSUME OutsideInv, NEW count \in 1..leaf_count, RunInv(count)
  PROVE  GetRoots = Roots(SizeOfLeaves(leaf_count), PeaksAt(leaf_count))
<1> DEFINE P == RsGetPeaks(SizeOfLeaves(leaf_count))
<1>1. MmrSize = SizeOfLeaves(leaf_count)
  BY RunSize
<1>2. \A i \in DOMAIN P : GetFullMmrPeakValues(P[i]) = NodeOf(P[i])
  BY LookupPeak
<1>3. GetPeaksFromPositions(P) = PeaksAt(leaf_count)
  BY <1>2 DEF GetPeaksFromPositions, PeaksAt, NodeOf
<1> QED
  BY <1>1, <1>3 DEF GetRoots

(* The i-th merge after the leaf n: its left child is the i-th peak from   *)
(* the right, its right child the node added before.                       *)
LEMMA MergePositions ==
  ASSUME NEW n \in Nat, NEW i \in 1..TrailingOnes[n]
  PROVE  LET pos == SizeOfLeaves(n) + 1
             P   == RsGetPeaks(SizeOfLeaves(n))
         IN  /\ Len(P) - i + 1 \in DOMAIN P
             /\ LeftPosition(pos + i, i - 1) = P[Len(P) - i + 1]
             /\ LeftPosition(pos + i, i - 1) < pos
             /\ RightPosition(pos + i, i - 1) = pos + (i - 1)
<1> DEFINE S == SizeOfLeaves(n)
           P == RsGetPeaks(S)
<1>1. /\ i \in Nat /\ Len(P) - i + 1 \in DOMAIN P
      /\ P[Len(P) - i + 1] = S + 1 + i - Pow2[i]
  BY MergedPeak
<1>2. P[Len(P) - i + 1] \in 1..S
  BY <1>1, PeakInside
<1>3. S \in Nat /\ Pow2[i] \in Nat /\ (i - 1) + 1 = i
  BY <1>1, SizeOfLeavesBounds, Pow2Unfold
<1> HIDE DEF P, S
<1>4. LeftPosition(S + 1 + i, i - 1) = S + 1 + i - Pow2[i]
  BY <1>3 DEF LeftPosition
<1>5. RightPosition(S + 1 + i, i - 1) = S + 1 + (i - 1)
  BY <1>1, <1>3, <1>4 DEF RightPosition
<1> QED
  BY <1>1, <1>2, <1>3, <1>4, <1>5 DEF P, S

LEMMA MergesIs ==
  ASSUME NEW n \in Nat
  PROVE  Merges(SizeOfLeaves(n) + 1) = TrailingOnes[n]
<1> DEFINE pos == SizeOfLeaves(n) + 1
           T == TrailingOnes[n]
<1>1. T \in 0..pos /\ pos \in Nat
  BY SizeOfLeavesBounds, TrailingOnesUnfold, MergesOfLeaf
<1>2. \A m \in 0..pos : NextIsNoParent(pos, m) <=> m = T
  BY <1>1, MergesOfLeaf
<1>3. Merges(pos) = CHOOSE m \in 0..pos : NextIsNoParent(pos, m)
  BY DEF Merges, NextIsNoParent
<1> HIDE DEF pos, T
<1>4. Merges(pos) = T
  BY <1>1, <1>2, <1>3
<1> QED
  BY <1>4 DEF pos, T

(* Merging with peaks that are looked up gives the nodes that appending    *)
(* outside gives.                                                          *)
AddedNode(node, i, element) ==
  LET pos   == MmrSize + 1
      At(p) == IF p >= pos THEN node[p - pos] ELSE GetFullMmrPeakValues(p)
  IN  IF i = 0 THEN element
      ELSE HashBoth(At(LeftPosition(pos + i, i - 1)),
                    At(RightPosition(pos + i, i - 1)))

LEMMA AddedNodeIs ==
  ASSUME OutsideInv, NEW count \in 1..leaf_count, RunInv(count), NEW element,
         NEW node, NEW i \in 0..TrailingOnes[leaf_count]
  PROVE  LET P == RsGetPeaks(SizeOfLeaves(leaf_count))
         IN  AddedNode(node, i, element)
               = IF i = 0 THEN element
                 ELSE HashBoth(NodeOf(P[Len(P) - i + 1]), node[i - 1])
<1> DEFINE n == leaf_count
           S == SizeOfLeaves(n)
           P == RsGetPeaks(S)
           pos == S + 1
           left == LeftPosition(pos + i, i - 1)
           right == RightPosition(pos + i, i - 1)
<1>1. n \in Nat /\ S \in Nat /\ MmrSize = S /\ TrailingOnes[n] \in Nat
  BY RunSize, TrailingOnesUnfold
<1>2. CASE i = 0
  BY <1>2 DEF AddedNode
<1>3. CASE i # 0
  <2>1. i \in 1..TrailingOnes[n]
    BY <1>1, <1>3
  <2>2. /\ Len(P) - i + 1 \in DOMAIN P /\ left = P[Len(P) - i + 1] /\ left < pos
        /\ right = pos + (i - 1)
    BY <1>1, <2>1, MergePositions
  <2>3. GetFullMmrPeakValues(P[Len(P) - i + 1]) = NodeOf(P[Len(P) - i + 1])
        /\ P[Len(P) - i + 1] \in 1..S
    <3> DEFINE l == Len(P) - i + 1
    <3>1. l \in DOMAIN P
      BY <2>2
    <3> HIDE DEF l
    <3>2. GetFullMmrPeakValues(P[l]) = NodeOf(P[l]) /\ P[l] \in 1..S
      BY <3>1, LookupPeak
    <3> QED
      BY <3>2 DEF l
  <2>4. right >= pos /\ right - pos = i - 1 /\ ~(left >= pos)
    BY <1>1, <2>1, <2>2, <2>3
  <2>5. AddedNode(node, i, element)
          = HashBoth(IF left >= pos THEN node[left - pos]
                     ELSE GetFullMmrPeakValues(left),
                     IF right >= pos THEN node[right - pos]
                     ELSE GetFullMmrPeakValues(right))
    BY <1>1, <1>3 DEF AddedNode
  <2> HIDE DEF left, right, pos, P
  <2> QED
    BY <1>3, <2>2, <2>3, <2>4, <2>5 DEF P
<1> QED
  BY <1>2, <1>3

LEMMA AddedNodesAre ==
  ASSUME OutsideInv, NEW count \in 1..leaf_count, RunInv(count),
         NEW element \in Element, AppendLeaf(element)
  PROVE  AddedNodes(element)
           = [i \in 1..(TrailingOnes[leaf_count] + 1) |->
                NewNodeOf(SizeOfLeaves(leaf_count) + i)]
<1> DEFINE n == leaf_count
           S == SizeOfLeaves(n)
           P == RsGetPeaks(S)
           m == TrailingOnes[n]
           Step(i, before) == IF i = 0 THEN element
                              ELSE HashBoth(NodeOf(P[Len(P) - i + 1]), before)
           Is(f) == f = [i \in 0..m |-> AddedNode(f, i, element)]
           g == [i \in 0..m |-> NewNodeOf(S + 1 + i)]
           node == CHOOSE f : Is(f)
<1>1. n \in Nat /\ S \in Nat /\ MmrSize = S /\ m \in Nat
  BY RunSize, TrailingOnesUnfold
<1>2. Merges(MmrSize + 1) = m
  BY <1>1, MergesIs
<1>3. AddedNodes(element) = [i \in 1..(m + 1) |-> node[i - 1]]
  <2> DEFINE M == Merges(MmrSize + 1)
  <2>1. AddedNodes(element)
          = [i \in 1..(M + 1) |->
               (CHOOSE f : f = [j \in 0..M |-> AddedNode(f, j, element)])[i - 1]]
    BY DEF AddedNodes, AddedNode
  <2> HIDE DEF M
  <2>2. M = m
    BY <1>2 DEF M
  <2> QED
    BY <2>1, <2>2
<1>4. /\ NewNodeOf(S + 1) = element
      /\ \A i \in 1..m : NewNodeOf(S + 1 + i)
                           = HashBoth(NodeOf(P[Len(P) - i + 1]), NewNodeOf(S + i))
  BY OutsideAppend
<1>5. ASSUME NEW f, NEW i \in 0..m
      PROVE  AddedNode(f, i, element) = Step(i, f[i - 1])
  BY AddedNodeIs
<1> HIDE DEF P, S, m
<1>6. \A i \in 0..m : g[i] = Step(i, g[i - 1])
  <2> SUFFICES ASSUME NEW i \in 0..m PROVE g[i] = Step(i, g[i - 1])
    OBVIOUS
  <2>1. CASE i = 0
    <3>1. S + 1 + 0 = S + 1
      BY <1>1
    <3> QED
      BY <1>4, <2>1, <3>1
  <2>2. CASE i # 0
    <3>1. i \in 1..m /\ i - 1 \in 0..m /\ S + 1 + (i - 1) = S + i
      BY <1>1, <2>2
    <3>2. g[i - 1] = NewNodeOf(S + i)
      BY <3>1
    <3>3. g[i] = NewNodeOf(S + 1 + i)
      OBVIOUS
    <3> HIDE DEF g
    <3> QED
      BY <1>4, <2>2, <3>1, <3>2, <3>3
  <2> QED
    BY <2>1, <2>2
<1>7. Is(g)
  <2>1. g = [i \in 0..m |-> g[i]]
    OBVIOUS
  <2> HIDE DEF g, Step
  <2>2. \A i \in 0..m : g[i] = AddedNode(g, i, element)
    BY <1>5, <1>6
  <2> QED
    BY <2>1, <2>2
<1> HIDE DEF g
<1>8. Is(node)
  <2> HIDE DEF Is
  <2> QED
    BY <1>7
<1> HIDE DEF node
<1>9. \A i \in 0..m : node[i] = Step(i, node[i - 1])
  <2>1. \A i \in 0..m : node[i] = AddedNode(node, i, element)
    BY <1>8
  <2> HIDE DEF Step
  <2> QED
    BY <1>5, <2>1
<1> DEFINE E == {i \in Nat : i <= m => node[i] = g[i]}
<1>10. 0 \in E
  <2>1. 0 \in 0..m
    BY <1>1
  <2> QED
    BY <1>6, <1>9, <2>1
<1>11. ASSUME NEW i \in Nat, i \in E
       PROVE  i + 1 \in E
  <2> SUFFICES ASSUME i + 1 <= m PROVE node[i + 1] = g[i + 1]
    OBVIOUS
  <2>1. i + 1 \in 0..m /\ (i + 1) - 1 = i /\ node[i] = g[i]
    BY <1>1, <1>11
  <2>2. node[i + 1] = Step(i + 1, node[i]) /\ g[i + 1] = Step(i + 1, g[i])
    <3> HIDE DEF Step
    <3> QED
      BY <1>6, <1>9, <2>1
  <2> HIDE DEF Step
  <2> QED
    BY <2>1, <2>2
<1> HIDE DEF E, Step, Is
<1>12. \A i \in Nat : i \in E
  BY <1>10, <1>11, NatSetInduction
<1>13. ASSUME NEW i \in 1..(m + 1)
       PROVE  node[i - 1] = NewNodeOf(S + i)
  <2>1. i - 1 \in 0..m /\ i - 1 \in Nat /\ S + 1 + (i - 1) = S + i
    BY <1>1
  <2>2. node[i - 1] = g[i - 1]
    BY <1>12, <2>1 DEF E
  <2>3. g[i - 1] = NewNodeOf(S + 1 + (i - 1))
    BY <2>1 DEF g
  <2> QED
    BY <2>1, <2>2, <2>3
<1>14. AddedNodes(element) = [i \in 1..(m + 1) |-> NewNodeOf(S + i)]
  BY <1>3, <1>13
<1> QED
  BY <1>14 DEF S, m

-----------------------------------------------------------------------------
(* The inductive invariant: outside, two MMRs of the same leaf count; in a *)
(* run, what it knows of them; between runs, their roots are the published *)
(* ones.                                                                   *)
SessionInv ==
  /\ OutsideInv
  /\ running => \E count \in 1..leaf_count : RunInv(count)
  /\ ~running => mmr_last_roots = Roots(SizeOfLeaves(leaf_count), PeaksAt(leaf_count))

(* An append keeps what the run knows: the old nodes and peaks are where   *)
(* they were, and the array takes the nodes that were added outside.       *)
LEMMA AppendKeepsRun ==
  ASSUME OutsideInv, NEW count \in 1..leaf_count, RunInv(count),
         NEW element \in Element, AppendLeaf(element)
  PROVE  count \in 1..leaf_count' /\ RunInv(count)'
<1> DEFINE n == leaf_count
           S == SizeOfLeaves(n)
           m == TrailingOnes[n]
           d == S - mmr_offset
           added == AddedNodes(element)
<1>1. /\ count \in Nat /\ n \in Nat /\ count <= n /\ m \in Nat
      /\ mmr_offset \in Nat /\ S \in Nat /\ d \in Nat
  BY RunSize, TrailingOnesUnfold
<1>2. leaf_count' = n + 1 /\ (\A p \in 1..S : NewNodeOf(p) = NodeOf(p))
  BY OutsideAppend
<1>3. /\ mmr_array' = mmr_array \o added
      /\ mmr_offset' = mmr_offset /\ previous_peaks_dict' = previous_peaks_dict
  BY DEF AppendLeaf
<1>4. added = [i \in 1..(m + 1) |-> NewNodeOf(S + i)]
  BY AddedNodesAre
<1>5. mmr_array = [i \in 1..d |-> NodeOf(mmr_offset + i)]
  BY DEF RunInv
<1>6. SizeOfLeaves(n + 1) = S + (m + 1)
  <2>1. SizeOfLeaves(n + 1) = S + 1 + m
    BY <1>1, SizeSuccessor
  <2> HIDE DEF S, m
  <2> QED
    BY <1>1, <2>1
<1> HIDE DEF added, n, S, m
<1>7. mmr_array \o added = [i \in 1..(d + (m + 1)) |-> NewNodeOf(mmr_offset + i)]
  <2>1. IsRow(mmr_array, d) /\ IsRow(added, m + 1) /\ m + 1 \in Nat
    BY <1>1, <1>4, <1>5 DEF IsRow
  <2>2. Len(mmr_array) = d /\ \E T : mmr_array \in Seq(T)
    BY <1>1, <2>1, RowIsSequence
  <2>3. PICK T : mmr_array \in Seq(T)
    BY <2>2
  <2> DEFINE both == mmr_array \o added
  <2>4. /\ \E U : both \in Seq(U)
        /\ Len(both) = Len(mmr_array) + (m + 1)
        /\ \A i \in 1..Len(mmr_array) : both[i] = mmr_array[i]
        /\ \A i \in 1..(m + 1) : both[Len(mmr_array) + i] = added[i]
    BY <2>1, <2>3, Extend
  <2> HIDE DEF both
  <2>5. both = [i \in 1..(d + (m + 1)) |-> both[i]]
    <3>1. PICK U : both \in Seq(U)
      BY <2>4
    <3>2. DOMAIN both = 1..Len(both) /\ both \in [1..Len(both) -> U]
      BY <3>1, LenProperties
    <3> QED
      BY <2>2, <2>4, <3>2
  <2>6. ASSUME NEW i \in 1..(d + (m + 1))
        PROVE  both[i] = NewNodeOf(mmr_offset + i)
    <3>1. CASE i <= d
      <4>1. i \in 1..d /\ mmr_offset + i \in 1..S
        BY <1>1, <3>1
      <4>2. both[i] = NodeOf(mmr_offset + i)
        BY <1>5, <2>2, <2>4, <4>1
      <4> QED
        BY <1>2, <4>1, <4>2
    <3>2. CASE ~(i <= d)
      <4> DEFINE l == i - d
      <4>1. l \in 1..(m + 1) /\ d + l = i /\ S + l = mmr_offset + i
        BY <1>1, <3>2
      <4> HIDE DEF l, d
      <4>2. both[d + l] = added[l]
        BY <2>2, <2>4, <4>1
      <4>3. added[l] = NewNodeOf(S + l)
        BY <1>4, <4>1
      <4> QED
        BY <4>1, <4>2, <4>3
    <3> QED
      BY <3>1, <3>2
  <2> QED
    BY <2>5, <2>6 DEF both
<1>8. SizeOfLeaves(leaf_count') - mmr_offset' = d + (m + 1)
  <2>1. SizeOfLeaves(leaf_count') = S + (m + 1)
    BY <1>2, <1>6
  <2> QED
    BY <1>1, <1>3, <2>1
<1>9. mmr_array' = [i \in 1..(SizeOfLeaves(leaf_count') - mmr_offset') |->
                      NewNodeOf(mmr_offset' + i)]
  BY <1>3, <1>7, <1>8
<1>10. \A p \in PeakSet(mmr_offset) : NewNodeOf(p) = NodeOf(p)
  <2> SUFFICES ASSUME NEW p \in PeakSet(mmr_offset) PROVE p \in 1..S
    BY <1>2
  <2>1. PICK i \in DOMAIN RsGetPeaks(SizeOfLeaves(count)) :
          p = RsGetPeaks(SizeOfLeaves(count))[i]
    BY DEF PeakSet, RunInv
  <2>2. p \in 1..SizeOfLeaves(count)
    BY <1>1, <2>1, PeakInside
  <2>3. SizeOfLeaves(count) = mmr_offset
    BY DEF RunInv
  <2> QED
    BY <1>1, <2>2, <2>3
<1>11. previous_peaks_dict' = [p \in PeakSet(mmr_offset') |-> NewNodeOf(p)]
  BY <1>3, <1>10 DEF RunInv
<1>12. mmr_offset' = SizeOfLeaves(count)
  BY <1>3 DEF RunInv
<1>13. count \in 1..leaf_count'
  BY <1>1, <1>2 DEF n
<1> QED
  BY <1>9, <1>11, <1>12, <1>13 DEF RunInv, NodeOf, NewNodeOf

(* The one leaf both MMRs have when the first run starts.                  *)
LEMMA FirstLeaf == SizeOfLeaves(1) = 1 /\ RsGetPeaks(1) = <<1>>
<1>1. SizeOfLeaves(1) = 1
  BY SizeOfLeavesBounds
<1>2. Pow2[0] = 1 /\ Pow2[0 + 1] = 2
  BY Pow2Unfold
<1>3. Block(1, 0, 0)
  <2>1. 0 = 0 * Pow2[0 + 1]
    BY <1>2
  <2>2. Multiple(0, 0 + 1)
    BY <2>1 DEF Multiple
  <2> QED
    BY <1>2, <2>2 DEF Block
<1>4. PopCount[0] = 0 /\ PopCount[1] = 1
  <2>1. PopCount[Pow2[0]] = 1
    BY PopCountPow2
  <2> QED
    BY <1>2, <2>1, PopCountUnfold
<1>5. RsGetPeaks(1) \in Seq(Nat) /\ Len(RsGetPeaks(1)) = 1
  BY <1>1, <1>4, GetPeaksOfLeaves
<1>6. RsGetPeaks(1)[1] = 1
  <2>1. RsGetPeaks(SizeOfLeaves(1))[PopCount[0] + 1] = SizeOfLeaves(0 + Pow2[0])
    BY <1>3, PeaksOfBlocks
  <2> QED
    BY <1>1, <1>2, <1>4, <2>1
<1> HIDE DEF RsGetPeaks
<1> QED
  BY <1>1, <1>5, <1>6

LEMMA InitSession == Init => SessionInv
<1> SUFFICES ASSUME Init PROVE SessionInv
  OBVIOUS
<1>1. PICK element \in Element :
        /\ nodes_poseidon = <<element.poseidon>>
        /\ nodes_keccak = <<element.keccak>>
        /\ mmr_last_roots = Roots(1, <<element>>)
  BY DEF Init
<1>2. leaf_count = 1 /\ running = FALSE
  BY DEF Init
<1>3. InPoseidon!IInv
  <2>1. nodes_poseidon \in Seq({element.poseidon}) /\ Len(nodes_poseidon) = 1
    BY <1>1
  <2> QED
    BY <1>2, <2>1, FirstLeaf, PoseidonArithmetic DEF InPoseidon!IInv
<1>4. InKeccak!IInv
  <2>1. nodes_keccak \in Seq({element.keccak}) /\ Len(nodes_keccak) = 1
    BY <1>1
  <2> QED
    BY <1>2, <2>1, FirstLeaf, KeccakArithmetic DEF InKeccak!IInv
<1>5. PeaksAt(1) = <<element>>
  <2>1. PeaksAt(1) = [i \in {1} |-> element]
    <3>1. DOMAIN <<1>> = {1} /\ <<1>>[1] = 1
      OBVIOUS
    <3>2. nodes_poseidon[1] = element.poseidon /\ nodes_keccak[1] = element.keccak
      BY <1>1
    <3>3. element = [poseidon |-> element.poseidon, keccak |-> element.keccak]
      BY ElementAssumption
    <3> QED
      BY <3>1, <3>2, <3>3, FirstLeaf DEF PeaksAt
  <2>2. <<element>> = [i \in {1} |-> element]
    OBVIOUS
  <2> QED
    BY <2>1, <2>2
<1>6. mmr_last_roots = Roots(SizeOfLeaves(leaf_count), PeaksAt(leaf_count))
  BY <1>1, <1>2, <1>5, FirstLeaf
<1> QED
  BY <1>2, <1>3, <1>4, <1>6 DEF SessionInv, OutsideInv

(* What the assertions on the roots rely on: a root of another size is     *)
(* another root.                                                           *)
SizeBinding == \A i, j \in Nat : \A x, y : Poseidon(i, x) = Poseidon(j, y) => i = j

(* A run starts on the peaks the last run left, or not at all.             *)
LEMMA StartKeepsInv ==
  ASSUME SizeBinding, SessionInv, StartRun
  PROVE  SessionInv'
<1> DEFINE n == leaf_count
<1>1. n \in Nat /\ n >= 1 /\ OutsideInv
  BY OutsideSize DEF SessionInv
<1>2. mmr_last_roots = Roots(SizeOfLeaves(n), PeaksAt(n))
  BY DEF SessionInv, StartRun
<1>3. PICK count \in 1..n :
        /\ RootsMatch(SizeOfLeaves(count), PeaksAt(count))
        /\ mmr_offset' = SizeOfLeaves(count)
        /\ previous_peaks_dict' =
             [p \in {RsGetPeaks(SizeOfLeaves(count))[i] :
                       i \in DOMAIN RsGetPeaks(SizeOfLeaves(count))} |->
                PeaksAt(count)[CHOOSE i \in DOMAIN RsGetPeaks(SizeOfLeaves(count)) :
                                 RsGetPeaks(SizeOfLeaves(count))[i] = p]]
  BY DEF StartRun
<1>4. UNCHANGED outside /\ running' = TRUE /\ mmr_array' = <<>>
  BY DEF StartRun
<1>5. SizeOfLeaves(count) = SizeOfLeaves(n)
  <2>1. SizeOfLeaves(count) \in Nat /\ SizeOfLeaves(n) \in Nat
    BY <1>1, SizeOfLeavesBounds
  <2>2. Roots(SizeOfLeaves(count), PeaksAt(count)) = Roots(SizeOfLeaves(n), PeaksAt(n))
    BY <1>2, <1>3 DEF RootsMatch
  <2> DEFINE x == BagPeaks(PeaksAt(count)).poseidon
             y == BagPeaks(PeaksAt(n)).poseidon
  <2>3. /\ Roots(SizeOfLeaves(count), PeaksAt(count)).poseidon
             = Poseidon(SizeOfLeaves(count), x)
        /\ Roots(SizeOfLeaves(n), PeaksAt(n)).poseidon = Poseidon(SizeOfLeaves(n), y)
    BY DEF Roots
  <2>4. Poseidon(SizeOfLeaves(count), x) = Poseidon(SizeOfLeaves(n), y)
    BY <2>2, <2>3
  <2> HIDE DEF x, y
  <2> QED
    BY <2>1, <2>4 DEF SizeBinding
<1>6. count = n
  <2>1. count \in Nat /\ count <= n
    BY <1>1
  <2>2. ~(count < n)
    <3> SUFFICES ASSUME count < n PROVE FALSE
      OBVIOUS
    <3>1. SizeOfLeaves(count) < SizeOfLeaves(n)
      BY <1>1, <2>1, SizeStrict
    <3>2. SizeOfLeaves(n) \in Nat
      BY <1>1, SizeOfLeavesBounds
    <3> QED
      BY <1>5, <3>1, <3>2
  <2> QED
    BY <1>1, <2>1, <2>2
<1> HIDE DEF n
<1>7. OutsideInv' /\ leaf_count' = n
  BY <1>1, <1>4 DEF OutsideInv, outside, InPoseidon!IInv, InKeccak!IInv, n
<1>8. \A p : NewNodeOf(p) = NodeOf(p)
  BY <1>4 DEF NewNodeOf, NodeOf, outside
<1>9. previous_peaks_dict' = [p \in PeakSet(SizeOfLeaves(n)) |-> NodeOf(p)]
  <2> DEFINE P == RsGetPeaks(SizeOfLeaves(n))
             V == PeaksAt(n)
  <2>1. ASSUME NEW p \in PeakSet(SizeOfLeaves(n))
        PROVE  V[CHOOSE i \in DOMAIN P : P[i] = p] = NodeOf(p)
    <3> DEFINE k == CHOOSE i \in DOMAIN P : P[i] = p
    <3>1. \E i \in DOMAIN P : P[i] = p
      BY DEF PeakSet
    <3>2. k \in DOMAIN P /\ P[k] = p
      BY <3>1
    <3> HIDE DEF k
    <3>3. V[k] = NodeOf(P[k])
      BY <3>2 DEF PeaksAt, NodeOf
    <3> QED
      BY <3>2, <3>3 DEF k
  <2>2. PeakSet(SizeOfLeaves(n)) = {P[i] : i \in DOMAIN P}
    BY DEF PeakSet
  <2>3. previous_peaks_dict' =
          [p \in {P[i] : i \in DOMAIN P} |-> V[CHOOSE i \in DOMAIN P : P[i] = p]]
    BY <1>3, <1>6
  <2> DEFINE Q == {P[i] : i \in DOMAIN P}
             F(p) == V[CHOOSE i \in DOMAIN P : P[i] = p]
  <2>4. \A p \in Q : F(p) = NodeOf(p)
    BY <2>1, <2>2
  <2>5. previous_peaks_dict' = [p \in Q |-> F(p)]
    BY <2>3
  <2>6. PeakSet(SizeOfLeaves(n)) = Q
    BY <2>2
  <2> HIDE DEF P, V, Q, F
  <2> QED
    BY <2>4, <2>5, <2>6
<1>10. mmr_array' = [i \in 1..(SizeOfLeaves(leaf_count') - mmr_offset') |->
                       NewNodeOf(mmr_offset' + i)]
  <2>1. SizeOfLeaves(leaf_count') - mmr_offset' = 0
    <3>1. SizeOfLeaves(n) \in Nat
      BY <1>1, SizeOfLeavesBounds DEF n
    <3> QED
      BY <1>3, <1>6, <1>7, <3>1
  <2> QED
    BY <1>4, <2>1
<1>11. RunInv(n)'
  <2>1. mmr_offset' = SizeOfLeaves(n)
    BY <1>3, <1>6
  <2>2. n' = n
    BY <1>7 DEF n
  <2>3. previous_peaks_dict' = [p \in PeakSet(mmr_offset') |-> NewNodeOf(p)]
    BY <1>8, <1>9, <2>1
  <2> QED
    BY <1>10, <2>1, <2>2, <2>3 DEF RunInv, NodeOf, NewNodeOf
<1>12. \E c \in 1..leaf_count' : RunInv(c)'
  <2>1. n \in 1..leaf_count'
    BY <1>1, <1>7 DEF n
  <2>2. n' = n
    BY <1>7 DEF n
  <2> QED
    BY <1>11, <2>1, <2>2 DEF RunInv
<1> QED
  BY <1>4, <1>7, <1>12 DEF SessionInv

LEMMA AppendKeepsInv ==
  ASSUME SessionInv, NEW element \in Element, AppendLeaf(element)
  PROVE  SessionInv'
<1>1. OutsideInv /\ running /\ running' = running
  BY DEF SessionInv, AppendLeaf
<1>2. PICK count \in 1..leaf_count : RunInv(count)
  BY <1>1 DEF SessionInv
<1>3. count \in 1..leaf_count' /\ RunInv(count)'
  BY <1>1, <1>2, AppendKeepsRun
<1>4. OutsideInv'
  BY <1>1, OutsideAppend
<1>5. \E c \in 1..leaf_count' : RunInv(c)'
  BY <1>3
<1> QED
  BY <1>1, <1>4, <1>5 DEF SessionInv

LEMMA EndKeepsInv ==
  ASSUME SessionInv, EndRun
  PROVE  SessionInv'
<1>1. OutsideInv /\ running
  BY DEF SessionInv, EndRun
<1>2. PICK count \in 1..leaf_count : RunInv(count)
  BY <1>1 DEF SessionInv
<1>3. GetRoots = Roots(SizeOfLeaves(leaf_count), PeaksAt(leaf_count))
  BY <1>1, <1>2, LookupPeaks
<1>4. UNCHANGED outside /\ running' = FALSE /\ mmr_last_roots' = GetRoots
  BY DEF EndRun
<1>5. OutsideInv'
  BY <1>1, <1>4 DEF OutsideInv, outside, InPoseidon!IInv, InKeccak!IInv
<1>6. PeaksAt(leaf_count)' = PeaksAt(leaf_count)
  BY <1>4 DEF PeaksAt, outside
<1>7. leaf_count' = leaf_count
  BY <1>4 DEF outside
<1> QED
  BY <1>3, <1>4, <1>5, <1>6, <1>7 DEF SessionInv

LEMMA NextSession ==
  ASSUME SizeBinding
  PROVE  SessionInv /\ [Next]_vars => SessionInv'
<1> SUFFICES ASSUME SessionInv, [Next]_vars PROVE SessionInv'
  OBVIOUS
<1>1. CASE StartRun
  BY <1>1, StartKeepsInv
<1>2. ASSUME NEW element \in Element, AppendLeaf(element)
      PROVE  SessionInv'
  BY <1>2, AppendKeepsInv
<1>3. CASE EndRun
  BY <1>3, EndKeepsInv
<1>4. CASE UNCHANGED vars
  <2>1. UNCHANGED outside
    BY <1>4 DEF vars
  <2>2. OutsideInv' <=> OutsideInv
    BY <2>1 DEF OutsideInv, outside, InPoseidon!IInv, InKeccak!IInv
  <2>3. leaf_count' = leaf_count /\ PeaksAt(leaf_count)' = PeaksAt(leaf_count)
    BY <2>1 DEF PeaksAt, outside
  <2>4. \A c : RunInv(c)' <=> RunInv(c)
    BY <1>4 DEF RunInv, NodeOf, vars, outside
  <2>5. running' = running /\ mmr_last_roots' = mmr_last_roots
    BY <1>4 DEF vars
  <2> QED
    BY <2>2, <2>3, <2>4, <2>5 DEF SessionInv
<1> QED
  BY <1>1, <1>2, <1>3, <1>4 DEF Next

(* In every state of every sequence of runs, the run knows the peaks of    *)
(* the MMRs it extends and every node after them, and the published roots  *)
(* are those of the MMRs outside.                                          *)
THEOREM SessionInvariantHolds ==
  ASSUME SizeBinding
  PROVE  Spec => []SessionInv
<1>1. Init => SessionInv
  BY InitSession
<1>2. SessionInv /\ [Next]_vars => SessionInv'
  BY NextSession
<1> QED
  BY <1>1, <1>2, PTL DEF Spec

-----------------------------------------------------------------------------
(* A run never starts on peaks of an earlier time, and what it adds starts *)
(* where the MMRs end: its size is always the size of the whole MMRs.      *)
THEOREM StalePeaksRefused ==
  ASSUME SizeBinding
  PROVE  Spec => []RunExtendsLastRun
<1>1. SessionInv => RunExtendsLastRun
  <2> SUFFICES ASSUME SessionInv, running
               PROVE  MmrSize = Len(nodes_poseidon) /\ MmrSize = Len(nodes_keccak)
    BY DEF RunExtendsLastRun
  <2>1. OutsideInv /\ \E count \in 1..leaf_count : RunInv(count)
    BY DEF SessionInv
  <2> QED
    BY <2>1, RunSize, OutsideSize
<1> QED
  BY <1>1, SessionInvariantHolds, PTL

(* No merge and no root computation reads a node of the previous MMR other *)
(* than its peaks: every position at or below mmr_offset that is looked up *)
(* is a key of the dictionary the run was given.                           *)
THEOREM OnlyPeaksAreNeeded ==
  ASSUME SizeBinding
  PROVE  Spec => []OnlyPeaksAreLookedUp
<1>1. SessionInv => OnlyPeaksAreLookedUp
  <2> SUFFICES ASSUME SessionInv, running,
                      NEW p \in MergeReads \cup PeakReads
               PROVE  p \in DOMAIN previous_peaks_dict
    BY DEF OnlyPeaksAreLookedUp
  <2> DEFINE S == SizeOfLeaves(leaf_count)
             P == RsGetPeaks(S)
             pos == S + 1
             m == TrailingOnes[leaf_count]
  <2>1. OutsideInv
    BY DEF SessionInv
  <2>2. PICK count \in 1..leaf_count : RunInv(count)
    BY DEF SessionInv
  <2>3. /\ leaf_count \in Nat /\ MmrSize = S /\ S \in Nat /\ mmr_offset \in Nat
        /\ mmr_offset <= S
    BY <2>1, <2>2, RunSize
  <2>4. \A i \in DOMAIN P :
          P[i] <= mmr_offset => P[i] \in DOMAIN previous_peaks_dict
    BY <2>1, <2>2, LookupPeak
  <2>5. Merges(pos) = m /\ m \in Nat
    BY <2>3, MergesIs, TrailingOnesUnfold
  <2>6. CASE p \in PeakReads
    BY <2>3, <2>4, <2>6 DEF PeakReads
  <2>7. CASE p \in MergeReads
    <3>1. /\ p <= mmr_offset
          /\ \/ \E i \in 1..m : p = LeftPosition(pos + i, i - 1)
             \/ \E i \in 1..m : p = RightPosition(pos + i, i - 1)
      BY <2>3, <2>5, <2>7 DEF MergeReads
    <3>2. ASSUME NEW i \in 1..m
          PROVE  /\ Len(P) - i + 1 \in DOMAIN P
                 /\ LeftPosition(pos + i, i - 1) = P[Len(P) - i + 1]
                 /\ RightPosition(pos + i, i - 1) = pos + (i - 1)
      BY <2>3, MergePositions
    <3> HIDE DEF P, m
    <3>3. CASE \E i \in 1..m : p = LeftPosition(pos + i, i - 1)
      BY <2>4, <3>1, <3>2, <3>3
    <3>4. CASE \E i \in 1..m : p = RightPosition(pos + i, i - 1)
      <4>1. PICK i \in 1..m : p = pos + (i - 1)
        BY <3>2, <3>4
      <4> QED
        BY <2>3, <2>5, <3>1, <4>1
    <3> QED
      BY <3>1, <3>3, <3>4
  <2> QED
    BY <2>6, <2>7
<1> QED
  BY <1>1, SessionInvariantHolds, PTL

-----------------------------------------------------------------------------
(* Bagging pairs of values from the left, as the run does, gives what the  *)
(* MMRs outside get from the right, one hash at a time.                    *)
LEMMA BagPeaksOutside ==
  ASSUME NEW vp, NEW vk, NEW n \in Nat, n >= 1, Len(vp) = n, Len(vk) = n,
         NEW peaks, Len(peaks) = n,
         \A i \in 1..n : peaks[i] = [poseidon |-> vp[i], keccak |-> vk[i]]
  PROVE  BagPeaks(peaks) = [poseidon |-> InPoseidon!BagPeaks(vp),
                            keccak   |-> InKeccak!BagPeaks(vk)]
<1>1. PICK bp : /\ bp = [i \in 1..n |-> IF i = 1 THEN vp[n]
                                        ELSE Poseidon(vp[n - i + 1], bp[i - 1])]
                /\ InPoseidon!BagPeaks(vp) = bp[n]
  <2>1. PICK b : /\ InPoseidon!IsChain(b, InPoseidon!Last(vp),
                                       InPoseidon!FromRight(vp), Len(vp))
                 /\ InPoseidon!BagPeaks(vp) = b[Len(vp)]
    BY MaxLeavesAssumption, InPoseidon!BagPeaksUnfold
  <2>2. b = [i \in 1..n |-> IF i = 1 THEN vp[n] ELSE Poseidon(vp[n - i + 1], b[i - 1])]
    BY <2>1 DEF InPoseidon!IsChain, InPoseidon!Last, InPoseidon!FromRight
  <2> QED
    BY <2>1, <2>2
<1>2. PICK bk : /\ bk = [i \in 1..n |-> IF i = 1 THEN vk[n]
                                        ELSE Keccak(vk[n - i + 1], bk[i - 1])]
                /\ InKeccak!BagPeaks(vk) = bk[n]
  <2>1. PICK b : /\ InKeccak!IsChain(b, InKeccak!Last(vk),
                                     InKeccak!FromRight(vk), Len(vk))
                 /\ InKeccak!BagPeaks(vk) = b[Len(vk)]
    BY MaxLeavesAssumption, InKeccak!BagPeaksUnfold
  <2>2. b = [i \in 1..n |-> IF i = 1 THEN vk[n] ELSE Keccak(vk[n - i + 1], b[i - 1])]
    BY <2>1 DEF InKeccak!IsChain, InKeccak!Last, InKeccak!FromRight
  <2> QED
    BY <2>1, <2>2
<1> DEFINE Is(f) == f = [i \in 1..n |-> IF i = n THEN peaks[i]
                                        ELSE HashBoth(peaks[i], f[i + 1])]
           g == [i \in 1..n |-> [poseidon |-> bp[n - i + 1], keccak |-> bk[n - i + 1]]]
           bag == CHOOSE f : Is(f)
<1>3. BagPeaks(peaks) = bag[1]
  BY DEF BagPeaks
<1>4. \A i \in 1..n : g[i] = IF i = n THEN peaks[i] ELSE HashBoth(peaks[i], g[i + 1])
  <2> SUFFICES ASSUME NEW i \in 1..n
               PROVE  g[i] = IF i = n THEN peaks[i] ELSE HashBoth(peaks[i], g[i + 1])
    OBVIOUS
  <2>1. CASE i = n
    <3>1. n - i + 1 = 1
      BY <2>1
    <3>2. bp[1] = vp[n] /\ bk[1] = vk[n]
      BY <1>1, <1>2
    <3> QED
      BY <2>1, <3>1, <3>2
  <2>2. CASE i # n
    <3> DEFINE l == n - i + 1
    <3>1. l \in 1..n /\ l # 1 /\ n - l + 1 = i /\ i + 1 \in 1..n
          /\ n - (i + 1) + 1 = l - 1
      BY <2>2
    <3>2. g[i + 1] = [poseidon |-> bp[l - 1], keccak |-> bk[l - 1]]
      BY <3>1
    <3>3. g[i] = [poseidon |-> bp[l], keccak |-> bk[l]]
      OBVIOUS
    <3> HIDE DEF l, g
    <3>4. bp[l] = Poseidon(vp[i], bp[l - 1]) /\ bk[l] = Keccak(vk[i], bk[l - 1])
      BY <1>1, <1>2, <3>1
    <3>5. peaks[i] = [poseidon |-> vp[i], keccak |-> vk[i]]
      OBVIOUS
    <3> QED
      BY <2>2, <3>2, <3>3, <3>4, <3>5 DEF HashBoth
  <2> QED
    BY <2>1, <2>2
<1>5. Is(g)
  <2>1. g = [i \in 1..n |-> g[i]]
    OBVIOUS
  <2> HIDE DEF g
  <2> QED
    BY <1>4, <2>1
<1>6. g[1] = [poseidon |-> bp[n], keccak |-> bk[n]]
  <2>1. 1 \in 1..n /\ n - 1 + 1 = n
    OBVIOUS
  <2> QED
    BY <2>1
<1> HIDE DEF g
<1>7. Is(bag)
  <2> HIDE DEF Is
  <2> QED
    BY <1>5
<1> HIDE DEF bag
<1> DEFINE E == {d \in Nat : d < n => bag[n - d] = g[n - d]}
<1>8. 0 \in E
  <2>1. n \in 1..n /\ n - 0 = n
    OBVIOUS
  <2> QED
    BY <1>5, <1>7, <2>1
<1>9. ASSUME NEW d \in Nat, d \in E
      PROVE  d + 1 \in E
  <2> SUFFICES ASSUME d + 1 < n PROVE bag[n - (d + 1)] = g[n - (d + 1)]
    OBVIOUS
  <2> DEFINE i == n - (d + 1)
  <2>1. i \in 1..n /\ i # n /\ i + 1 = n - d /\ d < n
    OBVIOUS
  <2>2. bag[i + 1] = g[i + 1]
    BY <1>9, <2>1
  <2> HIDE DEF i
  <2>3. bag[i] = HashBoth(peaks[i], bag[i + 1]) /\ g[i] = HashBoth(peaks[i], g[i + 1])
    BY <1>5, <1>7, <2>1
  <2>4. bag[i] = g[i]
    BY <2>2, <2>3
  <2> QED
    BY <2>4 DEF i
<1>10. n - 1 \in E
  <2> HIDE DEF E
  <2>1. n - 1 \in Nat
    OBVIOUS
  <2> QED
    BY <1>8, <1>9, <2>1, NatSetInduction
<1>11. bag[1] = g[1]
  <2>1. n - 1 < n /\ n - (n - 1) = 1
    OBVIOUS
  <2> QED
    BY <1>10, <2>1
<1> QED
  BY <1>1, <1>2, <1>3, <1>6, <1>11

LEMMA RootsOutside ==
  ASSUME OutsideInv
  PROVE  Roots(SizeOfLeaves(leaf_count), PeaksAt(leaf_count))
           = [poseidon |-> OutPoseidon!GetRoot, keccak |-> OutKeccak!GetRoot]
<1> DEFINE n == leaf_count
           S == SizeOfLeaves(n)
           P == RsGetPeaks(S)
           vp == InPoseidon!RetrieveNodes(InPoseidon!GetPeaks)
           vk == InKeccak!RetrieveNodes(InKeccak!GetPeaks)
           V == PeaksAt(n)
           l == Len(P)
<1>1. n \in Nat /\ n >= 1
  BY OutsideSize
<1>2. P \in Seq(Nat) /\ l = PopCount[n] /\ l \in Nat /\ DOMAIN P = 1..l
  BY <1>1, GetPeaksOfLeaves
<1>3. l >= 1
  BY <1>1, <1>2, PopCountBounds
<1>4. InPoseidon!GetPeaks = P /\ InPoseidon!Size = S
  BY PoseidonArithmetic, OutsideSize DEF InPoseidon!GetPeaks, InPoseidon!Size
<1>5. InKeccak!GetPeaks = P /\ InKeccak!Size = S
  BY KeccakArithmetic, OutsideSize DEF InKeccak!GetPeaks, InKeccak!Size
<1> HIDE DEF l, P
<1>6. vp = [i \in 1..l |-> nodes_poseidon[P[i]]]
  BY <1>2, <1>4 DEF InPoseidon!RetrieveNodes
<1>7. vk = [i \in 1..l |-> nodes_keccak[P[i]]]
  BY <1>2, <1>5 DEF InKeccak!RetrieveNodes
<1>8. V = [i \in 1..l |-> [poseidon |-> nodes_poseidon[P[i]],
                           keccak   |-> nodes_keccak[P[i]]]]
  BY <1>2 DEF PeaksAt, P
<1> HIDE DEF vp, vk, V, S, n
<1>9. /\ Len(vp) = l /\ Len(vk) = l /\ Len(V) = l
      /\ \A i \in 1..l : V[i] = [poseidon |-> vp[i], keccak |-> vk[i]]
  BY <1>2, <1>6, <1>7, <1>8
<1>10. BagPeaks(V) = [poseidon |-> InPoseidon!BagPeaks(vp),
                      keccak   |-> InKeccak!BagPeaks(vk)]
  BY <1>2, <1>3, <1>9, BagPeaksOutside
<1>11. Roots(S, V) = [poseidon |-> Poseidon(S, InPoseidon!BagPeaks(vp)),
                      keccak   |-> Keccak(S, InKeccak!BagPeaks(vk))]
  BY <1>10 DEF Roots
<1>12. /\ InPoseidon!GetRoot = Poseidon(S, InPoseidon!BagPeaks(vp))
       /\ InKeccak!GetRoot = Keccak(S, InKeccak!BagPeaks(vk))
  BY <1>4, <1>5 DEF InPoseidon!GetRoot, InKeccak!GetRoot, vp, vk
<1> QED
  BY <1>11, <1>12, PoseidonInstance, KeccakInstance DEF V, S, n

(* What get_roots computes in a run, from the peaks it was given and the   *)
(* nodes it added, are the roots of the whole MMRs.                        *)
THEOREM RunComputesRoots ==
  ASSUME SizeBinding
  PROVE  Spec => []RootsOfWholeMmr
<1>1. SessionInv => RootsOfWholeMmr
  <2> SUFFICES ASSUME SessionInv, running
               PROVE  GetRoots = [poseidon |-> OutPoseidon!GetRoot,
                                  keccak   |-> OutKeccak!GetRoot]
    BY DEF RootsOfWholeMmr
  <2>1. OutsideInv /\ \E count \in 1..leaf_count : RunInv(count)
    BY DEF SessionInv
  <2> QED
    BY <2>1, LookupPeaks, RootsOutside
<1> QED
  BY <1>1, SessionInvariantHolds, PTL
=============================================================================
