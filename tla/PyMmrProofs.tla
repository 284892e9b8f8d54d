---------------------------- MODULE PyMmrProofs ----------------------------
(***************************************************************************)
(* The Python MMR stores, at position p, what the Rust MMR has in place    *)
(* p + 1 of its vector: add, which looks at heights of positions, does the *)
(* step append does from the leaf count.  So the Python MMR implements the *)
(* accumulator too.  The second half is about inclusion proofs: the way    *)
(* from a leaf up to its peak, what gen_proof collects on it and behind    *)
(* it, and what verify and the Cairo functions make of that.               *)
(***************************************************************************)
EXTENDS MmrInclusion, MmrPeaksProofs

-----------------------------------------------------------------------------
(* The leaves are at the positions of height 0.                            *)
LeavesTo(pos, below) ==
  IF TreePosHeight(pos - 1) = 0 THEN Append(below, pos - 1) ELSE below

LEMMA LeafPositionsUnfold ==
  /\ \A pos \in Nat : LeafPositionsBelow[pos] \in Seq(Int)
  /\ LeafPositionsBelow[0] = <<>>
  /\ \A pos \in Nat : LeafPositionsBelow[pos + 1]
                        = LeavesTo(pos + 1, LeafPositionsBelow[pos])
<1> DEFINE S == Seq(Int)
           next == [pos \in Nat |-> [below \in S |-> LeavesTo(pos, below)]]
<1>1. <<>> \in S
  OBVIOUS
<1>2. next \in [Nat -> [S -> S]]
  <2>1. ASSUME NEW pos \in Nat, NEW below \in S
        PROVE  LeavesTo(pos, below) \in S
    <3>1. pos - 1 \in Int
      OBVIOUS
    <3>2. Append(below, pos - 1) \in S
      BY <3>1
    <3> HIDE DEF S
    <3> QED
      BY <3>2 DEF LeavesTo
  <2> HIDE DEF S
  <2> QED
    BY <2>1
<1>3. PICK f : /\ f \in [Nat -> S] /\ f[0] = <<>>
               /\ \A n \in Nat : f[n + 1] = next[n + 1][f[n]]
  <2> HIDE DEF S, next
  <2>1. \E f : Iterates(f, S, <<>>, next)
    BY <1>1, <1>2, PrimitiveRecursion
  <2> QED
    BY <2>1 DEF Iterates
<1>4. \A n \in Nat : f[n + 1] = LeavesTo(n + 1, f[n])
  <2> TAKE n \in Nat
  <2>1. f[n] \in S /\ n + 1 \in Nat
    BY <1>3
  <2> HIDE DEF S
  <2> QED
    BY <1>3, <2>1
<1> DEFINE Level(g, pos) == IF pos = 0 THEN <<>> ELSE LeavesTo(pos, g[pos - 1])
<1> HIDE DEF S
<1>5. ASSUME NEW pos \in Nat
      PROVE  f[pos] = Level(f, pos)
  <2>1. CASE pos = 0
    BY <1>3, <2>1
  <2>2. CASE pos # 0
    <3>1. pos - 1 \in Nat /\ (pos - 1) + 1 = pos
      BY <2>2
    <3>2. f[(pos - 1) + 1] = LeavesTo((pos - 1) + 1, f[pos - 1])
      BY <1>4, <3>1
    <3> QED
      BY <2>2, <3>1, <3>2
  <2> QED
    BY <2>1, <2>2
<1>6. f = [pos \in Nat |-> Level(f, pos)]
  <2> HIDE DEF Level
  <2> QED
    BY <1>3, <1>5
<1> DEFINE D == LeafPositionsBelow
<1>7. D = [pos \in Nat |-> Level(D, pos)]
  <2>1. D = CHOOSE g : g = [pos \in Nat |-> Level(g, pos)]
    BY DEF LeafPositionsBelow, LeavesTo
  <2> HIDE DEF D, Level
  <2> QED
    BY <1>6, <2>1
<1> HIDE DEF D
<1>8. D[0] = <<>>
  BY <1>7
<1>9. ASSUME NEW pos \in Nat
      PROVE  D[pos + 1] = LeavesTo(pos + 1, D[pos])
  <2>1. pos + 1 \in Nat /\ pos + 1 # 0 /\ (pos + 1) - 1 = pos
    OBVIOUS
  <2> QED
    BY <1>7, <2>1
<1> DEFINE E == {pos \in Nat : D[pos] \in S}
<1>10. 0 \in E
  BY <1>1, <1>8
<1>11. ASSUME NEW pos \in Nat, pos \in E
       PROVE  pos + 1 \in E
  <2>1. D[pos + 1] = LeavesTo(pos + 1, D[pos]) /\ D[pos] \in S
    BY <1>9, <1>11
  <2>2. (pos + 1) - 1 \in Int /\ pos + 1 \in Nat
    OBVIOUS
  <2>3. LeavesTo(pos + 1, D[pos]) \in S
    BY <2>1, <2>2 DEF LeavesTo, S
  <2> QED
    BY <2>1, <2>2, <2>3
<1> HIDE DEF E
<1>12. \A pos \in Nat : pos \in E
  BY <1>10, <1>11, NatSetInduction
<1> QED
  BY <1>8, <1>9, <1>12 DEF D, E, S

(* An MMR of n leaves has leaf i at the position behind the MMR of the     *)
(* leaves before it.                                                       *)
LeavesAt(n) == [i \in 1..n |-> SizeOfLeaves(i - 1)]

LEMMA LeavesBehindLeaf ==
  ASSUME NEW n \in Nat, NEW d \in 0..TrailingOnes[n]
  PROVE  LeafPositionsBelow[SizeOfLeaves(n) + 1 + d]
           = Append(LeafPositionsBelow[SizeOfLeaves(n)], SizeOfLeaves(n))
<1> DEFINE S == SizeOfLeaves(n)
           T == TrailingOnes[n]
           L == Append(LeafPositionsBelow[S], S)
           E == {e \in Nat : e <= T => LeafPositionsBelow[S + 1 + e] = L}
<1>1. S \in Nat /\ T \in Nat
  BY SizeOfLeavesBounds, TrailingOnesUnfold
<1>2. \A i \in 0..T : Height[S + 1 + i] = i
  BY HeightsBehindLeaf
<1>3. \A i \in 0..T : TreePosHeight(S + i) = i
  <2> TAKE i \in 0..T
  <2>1. S + i + 1 = S + 1 + i
    BY <1>1
  <2> QED
    BY <1>2, <2>1 DEF TreePosHeight
<1> HIDE DEF S, T
<1>4. 0 \in E
  <2>1. S + 1 + 0 = S + 1 /\ (S + 1) - 1 = S + 0 /\ S + 0 = S /\ 0 \in 0..T
    BY <1>1
  <2>2. LeafPositionsBelow[S + 1] = LeavesTo(S + 1, LeafPositionsBelow[S])
    BY <1>1, LeafPositionsUnfold
  <2>3. TreePosHeight((S + 1) - 1) = 0
    BY <1>3, <2>1
  <2> QED
    BY <2>1, <2>2, <2>3 DEF LeavesTo
<1>5. ASSUME NEW e \in Nat, e \in E
      PROVE  e + 1 \in E
  <2> SUFFICES ASSUME e + 1 <= T
               PROVE  LeafPositionsBelow[S + 1 + (e + 1)] = L
    OBVIOUS
  <2>1. LeafPositionsBelow[S + 1 + e] = L
    BY <1>1, <1>5
  <2>2. /\ S + 1 + e \in Nat /\ S + 1 + (e + 1) = (S + 1 + e) + 1
        /\ ((S + 1 + e) + 1) - 1 = S + (e + 1) /\ e + 1 \in 0..T /\ e + 1 # 0
    BY <1>1
  <2>3. LeafPositionsBelow[(S + 1 + e) + 1] = LeavesTo((S + 1 + e) + 1, L)
    BY <2>1, <2>2, LeafPositionsUnfold
  <2>4. TreePosHeight(S + (e + 1)) # 0
    <3>1. TreePosHeight(S + (e + 1)) = e + 1
      BY <1>3, <2>2
    <3> QED
      BY <2>2, <3>1
  <2>5. LeavesTo((S + 1 + e) + 1, L) = L
    BY <2>2, <2>4 DEF LeavesTo
  <2> QED
    BY <2>2, <2>3, <2>5
<1> HIDE DEF E
<1>6. d \in E
  <2>1. d \in Nat
    BY <1>1
  <2> QED
    BY <1>4, <1>5, <2>1, NatSetInduction
<1>7. d <= T
  BY <1>1 DEF T
<1> QED
  BY <1>6, <1>7 DEF E, S, T

LEMMA LeavesAreAt ==
  \A n \in Nat : LeafPositionsBelow[SizeOfLeaves(n)] = LeavesAt(n)
<1> DEFINE E == {n \in Nat : LeafPositionsBelow[SizeOfLeaves(n)] = LeavesAt(n)}
<1>1. 0 \in E
  <2>1. SizeOfLeaves(0) = 0
    BY SizeOfLeavesBounds
  <2>2. LeavesAt(0) = <<>>
    BY DEF LeavesAt
  <2> QED
    BY <2>1, <2>2, LeafPositionsUnfold
<1>2. ASSUME NEW n \in Nat, n \in E
      PROVE  n + 1 \in E
  <2>1. TrailingOnes[n] \in 0..TrailingOnes[n]
    BY TrailingOnesUnfold
  <2>2. SizeOfLeaves(n + 1) = SizeOfLeaves(n) + 1 + TrailingOnes[n]
    BY SizeSuccessor
  <2>3. LeafPositionsBelow[SizeOfLeaves(n + 1)] = Append(LeavesAt(n), SizeOfLeaves(n))
    <3>1. LeafPositionsBelow[SizeOfLeaves(n) + 1 + TrailingOnes[n]]
            = Append(LeafPositionsBelow[SizeOfLeaves(n)], SizeOfLeaves(n))
      BY <2>1, LeavesBehindLeaf
    <3> QED
      BY <1>2, <2>2, <3>1
  <2>4. ASSUME NEW i \in 1..(n + 1)
        PROVE  SizeOfLeaves(i - 1) \in Nat
    <3>1. i - 1 \in Nat
      OBVIOUS
    <3> QED
      BY <3>1, SizeOfLeavesBounds
  <2>5. LeavesAt(n) \in Seq(Nat) /\ Len(LeavesAt(n)) = n
    BY <2>4 DEF LeavesAt
  <2>6. LeavesAt(n + 1) \in Seq(Nat) /\ Len(LeavesAt(n + 1)) = n + 1
    BY <2>4 DEF LeavesAt
  <2>7. SizeOfLeaves(n) \in Nat /\ (n + 1) - 1 = n
    BY SizeOfLeavesBounds
  <2>8. \A i \in 1..(n + 1) :
          LeavesAt(n + 1)[i] = Append(LeavesAt(n), SizeOfLeaves(n))[i]
    <3> SUFFICES ASSUME NEW i \in 1..(n + 1)
                 PROVE  LeavesAt(n + 1)[i] = Append(LeavesAt(n), SizeOfLeaves(n))[i]
      OBVIOUS
    <3>1. LeavesAt(n + 1)[i] = SizeOfLeaves(i - 1)
      BY DEF LeavesAt
    <3>2. CASE i = n + 1
      BY <2>5, <2>7, <3>1, <3>2
    <3>3. CASE i # n + 1
      <4>1. i \in 1..n
        BY <3>3
      <4>2. LeavesAt(n)[i] = SizeOfLeaves(i - 1)
        BY <4>1 DEF LeavesAt
      <4> QED
        BY <2>5, <2>7, <3>1, <4>1, <4>2
    <3> QED
      BY <3>2, <3>3
  <2>9. LeavesAt(n + 1) = Append(LeavesAt(n), SizeOfLeaves(n))
    BY <2>5, <2>6, <2>7, <2>8
  <2> QED
    BY <2>3, <2>9
<1> HIDE DEF E
<1>3. \A n \in Nat : n \in E
  BY <1>1, <1>2, NatSetInduction
<1> QED
  BY <1>3 DEF E

(* add merges as often as the leaf count says.                             *)
LEMMA MergesIs ==
  ASSUME NEW n \in Nat
  PROVE  Merges(SizeOfLeaves(n)) = TrailingOnes[n]
<1> DEFINE pos == SizeOfLeaves(n)
           T == TrailingOnes[n]
<1>1. T \in 0..(pos + 1) /\ pos \in Nat
  BY SizeOfLeavesBounds, TrailingOnesUnfold, MergesOfLeaf
<1>2. \A m \in 0..(pos + 1) : NextIsNoParent(pos + 1, m) <=> m = T
  BY <1>1, MergesOfLeaf
<1>3. ASSUME NEW m \in 0..(pos + 1)
      PROVE  (/\ TreePosHeight(pos + m + 1) <= m
              /\ \A i \in 0..(m - 1) : TreePosHeight(pos + i + 1) > i)
             <=> NextIsNoParent(pos + 1, m)
  <2>1. \A i \in 0..m : TreePosHeight(pos + i + 1) = Height[pos + 1 + i + 1]
    <3> TAKE i \in 0..m
    <3>1. (pos + i + 1) + 1 = pos + 1 + i + 1
      BY <1>1
    <3> QED
      BY <3>1 DEF TreePosHeight
  <2>2. m \in 0..m /\ \A i \in 0..(m - 1) : i \in 0..m
    BY <1>1
  <2> HIDE DEF pos
  <2> QED
    BY <2>1, <2>2 DEF NextIsNoParent
<1>4. Merges(pos) = CHOOSE m \in 0..(pos + 1) : NextIsNoParent(pos + 1, m)
  <2> HIDE DEF pos
  <2> QED
    BY <1>3 DEF Merges
<1> HIDE DEF pos, T
<1>5. Merges(pos) = T
  BY <1>1, <1>2, <1>4
<1> QED
  BY <1>5 DEF pos, T

-----------------------------------------------------------------------------
(* The state of the Python MMR, read as one of the Rust MMR.               *)
NodeVector == [p \in 1..MmrSize |-> pos_hash[p - 1]]

LeafCount == Len(LeafPositions)

Rust == INSTANCE MmrProofs WITH nodes <- NodeVector, leaf_count <- LeafCount

LEMMA RustArithmetic ==
  /\ Rust!Pow2 = Pow2 /\ Rust!TrailingOnes = TrailingOnes
  /\ \A n : Rust!SizeOfLeaves(n) = SizeOfLeaves(n)
  /\ \A n : Rust!RsGetPeaks(n) = RsGetPeaks(n)
<1>1. Rust!Pow2 = Pow2
  BY DEF Rust!Pow2, Pow2
<1>2. Rust!PopCount = PopCount
  BY DEF Rust!PopCount, PopCount
<1>3. Rust!TrailingOnes = TrailingOnes
  BY DEF Rust!TrailingOnes, TrailingOnes
<1>4. ASSUME NEW n
      PROVE  Rust!SizeOfLeaves(n) = SizeOfLeaves(n)
  BY <1>2 DEF Rust!SizeOfLeaves, SizeOfLeaves
<1>5. ASSUME NEW n
      PROVE  Rust!BitLength(n) = BitLength(n)
  BY <1>1 DEF Rust!BitLength, BitLength
<1>6. ASSUME NEW h, NEW below
      PROVE  Rust!PeaksLevel(h, below) = PeaksLevel(h, below)
  BY <1>1 DEF Rust!PeaksLevel, PeaksLevel
<1>7. Rust!RsPeaksFrom = RsPeaksFrom
  BY <1>6 DEF Rust!RsPeaksFrom, RsPeaksFrom
<1>8. ASSUME NEW n
      PROVE  Rust!RsGetPeaks(n) = RsGetPeaks(n)
  BY <1>5, <1>7 DEF Rust!RsGetPeaks, RsGetPeaks
<1> QED
  BY <1>1, <1>3, <1>4, <1>8

LEMMA RustRow == \A f, m : Rust!IsRow(f, m) <=> IsRow(f, m)
BY DEF Rust!IsRow, IsRow

(* The size of the Python MMR is the one of an MMR of some leaves.         *)
HasLeaves(n) == n \in Nat /\ last_pos \in Int /\ MmrSize = SizeOfLeaves(n)

PyInv == \E n \in Nat : HasLeaves(n)

(* The nodes at the peaks.                                                 *)
PeakNodes(n) ==
  LET P == RsGetPeaks(SizeOfLeaves(n)) IN [i \in DOMAIN P |-> pos_hash[P[i] - 1]]

LEMMA ReadAsRust ==
  ASSUME NEW n, HasLeaves(n)
  PROVE  /\ LeafPositions = LeavesAt(n) /\ LeafCount = n
         /\ IsRow(NodeVector, SizeOfLeaves(n))
         /\ \E T : NodeVector \in Seq(T)
         /\ Rust!Size = SizeOfLeaves(n)
         /\ Rust!GetPeaks = RsGetPeaks(SizeOfLeaves(n))
         /\ Rust!RetrieveNodes(Rust!GetPeaks) = PeakNodes(n)
         /\ Rust!IInv
<1> DEFINE S == SizeOfLeaves(n)
           P == RsGetPeaks(S)
<1>1. n \in Nat /\ MmrSize = S /\ S \in Nat
  BY SizeOfLeavesBounds DEF HasLeaves
<1>2. LeafPositions = LeavesAt(n)
  BY <1>1, LeavesAreAt DEF LeafPositions
<1>3. LeafCount = n
  BY <1>1, <1>2 DEF LeafCount, LeavesAt
<1> HIDE DEF S
<1>4. IsRow(NodeVector, S)
  BY <1>1 DEF IsRow, NodeVector
<1>5. Len(NodeVector) = S /\ \E T : NodeVector \in Seq(T)
  BY <1>1, <1>4, RowIsSequence
<1>6. Rust!Size = S
  BY <1>5 DEF Rust!Size
<1>7. Rust!GetPeaks = P
  BY <1>6, RustArithmetic DEF Rust!GetPeaks
<1>8. ASSUME NEW i \in DOMAIN P
      PROVE  NodeVector[P[i]] = pos_hash[P[i] - 1]
  <2>1. P[i] \in 1..S
    BY <1>1, PeakInside DEF S
  <2> QED
    BY <1>1, <2>1 DEF NodeVector
<1>9. Rust!RetrieveNodes(Rust!GetPeaks) = PeakNodes(n)
  <2>1. Rust!RetrieveNodes(P) = [i \in DOMAIN P |-> NodeVector[P[i]]]
    BY DEF Rust!RetrieveNodes
  <2>2. PeakNodes(n) = [i \in DOMAIN P |-> pos_hash[P[i] - 1]]
    BY DEF PeakNodes, S
  <2> HIDE DEF P
  <2> QED
    BY <1>7, <1>8, <2>1, <2>2
<1>10. Rust!IInv
  BY <1>1, <1>3, <1>5, RustArithmetic DEF Rust!IInv, S
<1> QED
  BY <1>2, <1>3, <1>4, <1>5, <1>6, <1>7, <1>9, <1>10 DEF S

(* The i-th merge after the leaf n: its left child is the i-th peak from   *)
(* the right, its right child the node added before.                       *)
LEMMA MergePositions ==
  ASSUME NEW n \in Nat, NEW i \in 1..TrailingOnes[n]
  PROVE  LET pos == SizeOfLeaves(n)
             P   == RsGetPeaks(pos)
         IN  /\ Len(P) - i + 1 \in DOMAIN P
             /\ LeftChildPos(pos + i, i - 1) = P[Len(P) - i + 1] - 1
             /\ LeftChildPos(pos + i, i - 1) < pos
             /\ RightChildPos(pos + i, i - 1) = pos + (i - 1)
<1> DEFINE S == SizeOfLeaves(n)
           P == RsGetPeaks(S)
<1>1. /\ i \in Nat /\ Len(P) - i + 1 \in DOMAIN P
      /\ P[Len(P) - i + 1] = S + 1 + i - Pow2[i]
      /\ Pow2[i] = 2 * Pow2[i - 1]
  BY MergedPeak
<1>2. P[Len(P) - i + 1] \in 1..S
  BY <1>1, PeakInside
<1>3. S \in Nat /\ Pow2[i] \in Nat
  BY <1>1, SizeOfLeavesBounds, Pow2Unfold
<1> HIDE DEF P, S
<1>4. LeftChildPos(S + i, i - 1) = S + i - Pow2[i]
  BY <1>1, <1>3 DEF LeftChildPos
<1>5. RightChildPos(S + i, i - 1) = S + (i - 1)
  BY <1>1, <1>3, <1>4 DEF RightChildPos, SiblingOffset
<1> QED
  BY <1>1, <1>2, <1>3, <1>4, <1>5 DEF P, S

(* What add stores at the i-th position from pos on, given what it stored  *)
(* before.                                                                 *)
AddedNode(node, i, pos, elem) ==
  LET At(p) == IF p >= pos THEN node[p - pos] ELSE pos_hash[p]
  IN  IF i = 0 THEN elem
      ELSE Hash(At(LeftChildPos(pos + i, i - 1)),
                At(RightChildPos(pos + i, i - 1)))

LEMMA AddedNodeIs ==
  ASSUME NEW n \in Nat, NEW elem, NEW node, NEW i \in 0..TrailingOnes[n]
  PROVE  AddedNode(node, i, SizeOfLeaves(n), elem)
           = IF i = 0 THEN elem
             ELSE Hash(PeakNodes(n)[Len(PeakNodes(n)) - i + 1], node[i - 1])
<1> DEFINE pos == SizeOfLeaves(n)
           P == RsGetPeaks(pos)
           V == PeakNodes(n)
           left == LeftChildPos(pos + i, i - 1)
           right == RightChildPos(pos + i, i - 1)
<1>1. pos \in Nat /\ TrailingOnes[n] \in Nat
  BY SizeOfLeavesBounds, TrailingOnesUnfold
<1>2. CASE i = 0
  BY <1>2 DEF AddedNode
<1>3. CASE i # 0
  <2>1. i \in 1..TrailingOnes[n]
    BY <1>1, <1>3
  <2>2. /\ Len(P) - i + 1 \in DOMAIN P /\ left = P[Len(P) - i + 1] - 1
        /\ left < pos /\ right = pos + (i - 1)
    BY <2>1, MergePositions
  <2>3. P[Len(P) - i + 1] \in 1..pos /\ P \in Seq(Nat)
    BY <2>2, PeakInside, GetPeaksOfLeaves
  <2>4. Len(V) = Len(P) /\ V[Len(P) - i + 1] = pos_hash[left]
    BY <2>2, <2>3 DEF PeakNodes
  <2>5. right >= pos /\ right - pos = i - 1 /\ ~(left >= pos)
    <3>1. pos \in Nat /\ i \in Nat /\ i >= 1
      BY <1>1, <2>1
    <3>2. P[Len(P) - i + 1] \in Int /\ P[Len(P) - i + 1] <= pos
      BY <1>1, <2>3
    <3> HIDE DEF left, right, pos, P
    <3> QED
      BY <2>2, <3>1, <3>2
  <2>6. AddedNode(node, i, pos, elem)
          = Hash(IF left >= pos THEN node[left - pos] ELSE pos_hash[left],
                 IF right >= pos THEN node[right - pos] ELSE pos_hash[right])
    BY <1>3 DEF AddedNode
  <2> HIDE DEF left, right, pos, P, V
  <2> QED
    BY <1>3, <2>4, <2>5, <2>6 DEF V, pos
<1> QED
  BY <1>2, <1>3

(* The nodes add stores are those append pushes.                           *)
LEMMA AddedNodesAre ==
  ASSUME NEW n, HasLeaves(n), NEW elem
  PROVE  /\ TrailingOnes[n] \in Nat /\ TrailingOnes[n] <= Len(PeakNodes(n))
         /\ IsRow(Rust!PushedNodes(elem, PeakNodes(n), TrailingOnes[n]), TrailingOnes[n] + 1)
         /\ \A i \in 0..TrailingOnes[n] :
              AddedNodes(SizeOfLeaves(n), elem)[i]
                = Rust!PushedNodes(elem, PeakNodes(n), TrailingOnes[n])[i + 1]
<1> DEFINE pos == SizeOfLeaves(n)
           P == RsGetPeaks(pos)
           V == PeakNodes(n)
           m == TrailingOnes[n]
           pushed == Rust!PushedNodes(elem, V, m)
           Step(i, before) == IF i = 0 THEN elem ELSE Hash(V[Len(V) - i + 1], before)
           Is(f) == f = [i \in 0..m |-> AddedNode(f, i, pos, elem)]
           g == [i \in 0..m |-> pushed[i + 1]]
           node == CHOOSE f : Is(f)
<1>1. n \in Nat /\ m \in Nat
  BY TrailingOnesUnfold DEF HasLeaves
<1>2. P \in Seq(Nat) /\ Len(P) \in Nat
  BY <1>1, GetPeaksOfLeaves
<1>3. Len(V) = Len(P)
  BY <1>2 DEF PeakNodes
<1>4. m <= Len(V)
  BY <1>1, <1>3, MaxLeavesAssumption, RustArithmetic, Rust!NodesPushed
<1>5. AddedNodes(pos, elem) = node
  <2> DEFINE M == Merges(pos)
  <2>1. AddedNodes(pos, elem) = CHOOSE f : f = [i \in 0..M |-> AddedNode(f, i, pos, elem)]
    BY DEF AddedNodes, AddedNode
  <2>2. M = m
    BY <1>1, MergesIs
  <2> HIDE DEF M
  <2> QED
    BY <2>1, <2>2
<1>6. /\ IsRow(pushed, m + 1) /\ pushed[1] = elem
      /\ \A i \in 1..m : pushed[i + 1] = Hash(V[Len(V) - i + 1], pushed[i])
  <2>1. Len(V) \in Nat
    BY <1>2, <1>3
  <2> HIDE DEF m, V
  <2> QED
    BY <1>1, <2>1, MaxLeavesAssumption, RustRow, Rust!PushedNodesUnfold
<1>7. ASSUME NEW f, NEW i \in 0..m
      PROVE  AddedNode(f, i, pos, elem) = Step(i, f[i - 1])
  BY <1>1, AddedNodeIs
<1> HIDE DEF P, V, pos, m, pushed
<1>8. \A i \in 0..m : g[i] = Step(i, g[i - 1])
  <2> SUFFICES ASSUME NEW i \in 0..m PROVE g[i] = Step(i, g[i - 1])
    OBVIOUS
  <2>1. CASE i = 0
    BY <1>6, <2>1
  <2>2. CASE i # 0
    <3>1. i \in 1..m /\ i - 1 \in 0..m /\ (i - 1) + 1 = i
      BY <1>1, <2>2
    <3>2. g[i - 1] = pushed[i]
      BY <3>1
    <3>3. g[i] = pushed[i + 1]
      OBVIOUS
    <3> HIDE DEF g
    <3> QED
      BY <1>6, <2>2, <3>1, <3>2, <3>3
  <2> QED
    BY <2>1, <2>2
<1>9. Is(g)
  <2>1. g = [i \in 0..m |-> g[i]]
    OBVIOUS
  <2> HIDE DEF g, Step
  <2>2. \A i \in 0..m : g[i] = AddedNode(g, i, pos, elem)
    BY <1>7, <1>8
  <2> QED
    BY <2>1, <2>2
<1> HIDE DEF g
<1>10. Is(node)
  <2> HIDE DEF Is
  <2> QED
    BY <1>9
<1> HIDE DEF node
<1>11. \A i \in 0..m : node[i] = Step(i, node[i - 1])
  <2>1. \A i \in 0..m : node[i] = AddedNode(node, i, pos, elem)
    BY <1>10
  <2> HIDE DEF Step
  <2> QED
    BY <1>7, <2>1
<1> DEFINE E == {i \in Nat : i <= m => node[i] = g[i]}
<1>12. 0 \in E
  <2>1. 0 \in 0..m
    BY <1>1
  <2> QED
    BY <1>8, <1>11, <2>1
<1>13. ASSUME NEW i \in Nat, i \in E
       PROVE  i + 1 \in E
  <2> SUFFICES ASSUME i + 1 <= m PROVE node[i + 1] = g[i + 1]
    OBVIOUS
  <2>1. i + 1 \in 0..m /\ (i + 1) - 1 = i /\ node[i] = g[i]
    BY <1>1, <1>13
  <2>2. node[i + 1] = Step(i + 1, node[i]) /\ g[i + 1] = Step(i + 1, g[i])
    <3> HIDE DEF Step
    <3> QED
      BY <1>8, <1>11, <2>1
  <2> HIDE DEF Step
  <2> QED
    BY <2>1, <2>2
<1> HIDE DEF E, Step, Is
<1>14. \A i \in Nat : i \in E
  BY <1>12, <1>13, NatSetInduction
<1>15. ASSUME NEW i \in 0..m
       PROVE  AddedNodes(pos, elem)[i] = pushed[i + 1]
  <2>1. i \in Nat /\ i <= m
    BY <1>1
  <2>2. node[i] = g[i]
    BY <1>14, <2>1 DEF E
  <2>3. g[i] = pushed[i + 1]
    BY DEF g
  <2> QED
    BY <1>5, <2>2, <2>3
<1> QED
  BY <1>1, <1>4, <1>6, <1>15 DEF pos, m, V, pushed

(* add does what append does.                                              *)
LEMMA AddIsAppend ==
  ASSUME NEW n, HasLeaves(n), NEW elem, Add(elem)
  PROVE  /\ Rust!AppendElement(elem)
         /\ HasLeaves(n + 1)'
<1> DEFINE S == SizeOfLeaves(n)
           m == TrailingOnes[n]
           pushed == Rust!PushedNodes(elem, PeakNodes(n), m)
           both == NodeVector \o pushed
<1>1. /\ n \in Nat /\ S \in Nat /\ n + 1 \in Nat
      /\ last_pos \in Int /\ last_pos + 1 = S
  BY SizeOfLeavesBounds DEF HasLeaves, MmrSize
<1>2. /\ m \in Nat /\ m <= Len(PeakNodes(n)) /\ IsRow(pushed, m + 1)
      /\ \A i \in 0..m : AddedNodes(S, elem)[i] = pushed[i + 1]
  BY AddedNodesAre
<1>3. Merges(S) = m
  BY <1>1, MergesIs
<1>4. SizeOfLeaves(n + 1) = S + 1 + m
  BY <1>1, SizeSuccessor
<1>5. /\ LeafCount = n /\ IsRow(NodeVector, S)
      /\ (\E T : NodeVector \in Seq(T))
      /\ Rust!Size = S /\ Rust!RetrieveNodes(Rust!GetPeaks) = PeakNodes(n)
  BY ReadAsRust
<1> HIDE DEF S, m, pushed
<1>6. /\ last_pos' = S + m
      /\ pos_hash' = [p \in 0..(S + m) |->
                        IF p < S THEN pos_hash[p] ELSE AddedNodes(S, elem)[p - S]]
  BY <1>1, <1>3 DEF Add
<1>7. MmrSize' = S + (m + 1) /\ last_pos' \in Int
  BY <1>1, <1>2, <1>6 DEF MmrSize
<1>8. HasLeaves(n + 1)'
  <2>1. MmrSize' = SizeOfLeaves(n + 1)
    BY <1>1, <1>2, <1>4, <1>7
  <2> QED
    BY <1>1, <1>7, <2>1 DEF HasLeaves
<1>9. (LeafCount)' = n + 1
  <2>1. (LeafPositions)' = LeavesAt(n + 1)
    <3>1. LeafPositionsBelow[SizeOfLeaves(n + 1)] = LeavesAt(n + 1)
      BY <1>1, LeavesAreAt
    <3> QED
      BY <1>8, <3>1 DEF LeafPositions, HasLeaves
  <2>2. Len(LeavesAt(n + 1)) = n + 1
    BY <1>1 DEF LeavesAt
  <2> QED
    BY <2>1, <2>2 DEF LeafCount
<1>10. NodeVector' = both
  <2>1. Len(NodeVector) = S
    BY <1>1, <1>5, RowIsSequence
  <2>2. m + 1 \in Nat
    BY <1>2
  <2>3. /\ \E U : both \in Seq(U)
        /\ Len(both) = S + (m + 1)
        /\ \A i \in 1..S : both[i] = NodeVector[i]
        /\ \A i \in 1..(m + 1) : both[S + i] = pushed[i]
    <3>1. PICK T : NodeVector \in Seq(T)
      BY <1>5
    <3>2. /\ \E U : both \in Seq(U)
          /\ Len(both) = Len(NodeVector) + (m + 1)
          /\ \A i \in 1..Len(NodeVector) : both[i] = NodeVector[i]
          /\ \A i \in 1..(m + 1) : both[Len(NodeVector) + i] = pushed[i]
      BY <1>2, <2>2, <3>1, Extend
    <3> QED
      BY <2>1, <3>2
  <2> HIDE DEF both
  <2>4. both = [p \in 1..(S + (m + 1)) |-> both[p]]
    BY <2>3
  <2>5. NodeVector' = [p \in 1..(S + (m + 1)) |-> pos_hash'[p - 1]]
    BY <1>7 DEF NodeVector
  <2>6. ASSUME NEW p \in 1..(S + (m + 1))
        PROVE  pos_hash'[p - 1] = both[p]
    <3>1. p - 1 \in 0..(S + m)
      BY <1>1, <1>2
    <3>2. pos_hash'[p - 1]
            = IF p - 1 < S THEN pos_hash[p - 1] ELSE AddedNodes(S, elem)[p - 1 - S]
      BY <1>6, <3>1
    <3>3. CASE p <= S
      <4>1. p \in 1..S /\ p - 1 < S
        BY <1>1, <1>2, <3>3
      <4>2. NodeVector[p] = pos_hash[p - 1]
        BY <1>1, <4>1 DEF NodeVector, MmrSize
      <4> QED
        BY <2>3, <3>2, <4>1, <4>2
    <3>4. CASE ~(p <= S)
      <4> DEFINE i == p - S
      <4>1. /\ i \in 1..(m + 1) /\ S + i = p /\ ~(p - 1 < S)
            /\ p - 1 - S \in 0..m /\ (p - 1 - S) + 1 = i
        BY <1>1, <1>2, <3>4
      <4>2. AddedNodes(S, elem)[p - 1 - S] = pushed[i]
        BY <1>2, <4>1
      <4>3. both[p] = pushed[i]
        <5> HIDE DEF i
        <5> QED
          BY <2>3, <4>1
      <4> QED
        BY <3>2, <4>1, <4>2, <4>3
    <3> QED
      BY <3>3, <3>4
  <2> QED
    BY <2>4, <2>5, <2>6
<1>11. LeafCount < MaxLeaves
  BY DEF Add, LeafCount
<1>12. Rust!RsPeaksCover(Rust!Size)
  BY <1>1, <1>5, MaxLeavesAssumption, RustArithmetic, Rust!GetPeaksOfLeaves DEF S
<1>13. Rust!NoMergedPeaks = m
  BY <1>5, RustArithmetic DEF Rust!NoMergedPeaks, m
<1> QED
  BY <1>2, <1>5, <1>8, <1>9, <1>10, <1>11, <1>12, <1>13
     DEF Rust!AppendElement, pushed

-----------------------------------------------------------------------------
(* The inductive invariant.                                                *)
PyIInv == PyInv /\ Rust!NodesArePerfectTrees

LEMMA InitPyIInv == ProofInit => PyIInv
<1> SUFFICES ASSUME ProofInit PROVE PyIInv
  OBVIOUS
<1>1. last_pos = -1 /\ SizeOfLeaves(0) = 0
  BY SizeOfLeavesBounds DEF ProofInit, Init
<1>2. HasLeaves(0)
  BY <1>1 DEF HasLeaves, MmrSize
<1>3. LeafCount = 0
  BY <1>2, ReadAsRust
<1>4. Rust!NodesArePerfectTrees
  <2>1. 0..(LeafCount - 1) = {}
    BY <1>3
  <2> QED
    BY <2>1 DEF Rust!NodesArePerfectTrees
<1> QED
  BY <1>2, <1>4 DEF PyIInv, PyInv, HasLeaves

LEMMA NextPyIInv == PyIInv /\ [ProofNext]_proofVars => PyIInv'
<1> SUFFICES ASSUME PyIInv, [ProofNext]_proofVars PROVE PyIInv'
  OBVIOUS
<1>1. PICK n : HasLeaves(n)
  BY DEF PyIInv, PyInv
<1>2. ASSUME UNCHANGED <<last_pos, pos_hash>>
      PROVE  PyIInv'
  <2>1. HasLeaves(n)'
    BY <1>1, <1>2 DEF HasLeaves, MmrSize
  <2>2. PyInv'
    BY <2>1 DEF PyInv, HasLeaves
  <2>3. NodeVector' = NodeVector /\ LeafCount' = LeafCount
    BY <1>2 DEF NodeVector, LeafCount, LeafPositions, MmrSize
  <2>4. Rust!NodesArePerfectTrees'
    BY <2>3 DEF PyIInv, Rust!NodesArePerfectTrees, Rust!Leaves
  <2> QED
    BY <2>2, <2>4 DEF PyIInv
<1>3. ASSUME NEW elem \in Element, Add(elem)
      PROVE  PyIInv'
  <2>1. Rust!AppendElement(elem) /\ HasLeaves(n + 1)'
    BY <1>1, <1>3, AddIsAppend
  <2>2. PyInv'
    BY <2>1 DEF PyInv, HasLeaves
  <2>3. Rust!IInv /\ Rust!NodesArePerfectTrees
    BY <1>1, ReadAsRust DEF PyIInv
  <2>4. [Rust!Next]_(Rust!vars)
    BY <2>1 DEF Rust!Next
  <2>5. Rust!NodesArePerfectTrees'
    BY <2>3, <2>4, MaxLeavesAssumption, Rust!NextTrees
  <2> QED
    BY <2>2, <2>5 DEF PyIInv
<1> QED
  BY <1>2, <1>3 DEF ProofNext, Grow, Prove, proofVars

LEMMA PyInvariantHolds == ProofSpec => []PyIInv
<1> QED
  BY InitPyIInv, NextPyIInv, PTL DEF ProofSpec

-----------------------------------------------------------------------------
(* The log and the root of the Python MMR are those of the Rust one with   *)
(* the same nodes.                                                         *)
PyRoot == IF last_pos = -1 THEN NoRoot ELSE GetRoot

LEMMA BagIsRustBag == \A peaks : Rust!BagPeaks(peaks) = BagPeaks(peaks)
BY DEF Rust!BagPeaks, BagPeaks, Rust!Last, Last

LEMMA SameLeaves ==
  ASSUME NEW n, HasLeaves(n)
  PROVE  Rust!Leaves = Leaves
<1> DEFINE S == SizeOfLeaves(n)
<1>1. n \in Nat /\ S \in Nat /\ MmrSize = S
  BY SizeOfLeavesBounds DEF HasLeaves
<1>2. LeafPositions = LeavesAt(n) /\ LeafCount = n
  BY ReadAsRust
<1>3. ASSUME NEW i \in 1..n
      PROVE  NodeVector[SizeOfLeaves(i - 1) + 1] = pos_hash[SizeOfLeaves(i - 1)]
  <2>1. i - 1 \in Nat /\ i - 1 < n
    BY <1>1
  <2>2. SizeOfLeaves(i - 1) \in Nat /\ SizeOfLeaves(i - 1) < S
    BY <1>1, <2>1, SizeStrict, SizeOfLeavesBounds
  <2> DEFINE q == SizeOfLeaves(i - 1)
  <2> HIDE DEF q, S
  <2>3. q + 1 \in 1..S /\ (q + 1) - 1 = q
    BY <1>1, <2>2 DEF q
  <2> QED
    BY <1>1, <2>3 DEF NodeVector, q
<1>4. Rust!Leaves = [i \in 1..n |-> pos_hash[SizeOfLeaves(i - 1)]]
  BY <1>2, <1>3, RustArithmetic DEF Rust!Leaves
<1>5. Leaves = [i \in 1..n |-> pos_hash[SizeOfLeaves(i - 1)]]
  BY <1>2 DEF Leaves, PeaksValues, LeavesAt
<1> QED
  BY <1>4, <1>5

SameLog == \A n : HasLeaves(n) => Rust!Leaves = Leaves

LEMMA SameLogNext == SameLog'
<1>1. SameLog
  BY SameLeaves DEF SameLog
<1> QED
  BY <1>1, PTL

LEMMA SameRoot ==
  ASSUME NEW n, HasLeaves(n)
  PROVE  PyRoot = IF NodeVector = <<>> THEN NoRoot ELSE Rust!GetRoot
<1> DEFINE S == SizeOfLeaves(n)
           P == RsGetPeaks(S)
<1>1. n \in Nat /\ S \in Nat /\ n <= S /\ (n = 0 => S = 0) /\ MmrSize = S
      /\ last_pos \in Int /\ last_pos + 1 = S
  BY SizeOfLeavesBounds DEF HasLeaves, MmrSize
<1>2. /\ IsRow(NodeVector, S) /\ Rust!Size = S
      /\ Rust!RetrieveNodes(Rust!GetPeaks) = PeakNodes(n)
  BY ReadAsRust
<1>3. Len(NodeVector) = S
  BY <1>1, <1>2, RowIsSequence
<1>4. CASE n = 0
  <2>1. last_pos = -1
    BY <1>1, <1>4
  <2>2. NodeVector = <<>>
    <3>1. 1..MmrSize = {}
      BY <1>1, <1>4
    <3> QED
      BY <3>1 DEF NodeVector
  <2> QED
    BY <2>1, <2>2 DEF PyRoot
<1>5. CASE n # 0
  <2>1. last_pos # -1 /\ NodeVector # <<>>
    BY <1>1, <1>3, <1>5
  <2>2. PyGetPeaks(MmrSize) = FromZero(P)
    <3>1. n \in Nat \ {0}
      BY <1>1, <1>5
    <3> QED
      BY <1>1, <3>1, PyPeaksOfLeaves
  <2>3. PeaksValues(FromZero(P)) = PeakNodes(n)
    <3> HIDE DEF P
    <3> QED
      BY DEF PeaksValues, FromZero, PeakNodes, P
  <2>4. GetRoot = Hash(S, BagPeaks(PeakNodes(n)))
    BY <1>1, <2>2, <2>3 DEF GetRoot
  <2>5. Rust!GetRoot = Hash(S, BagPeaks(PeakNodes(n)))
    BY <1>2, BagIsRustBag DEF Rust!GetRoot
  <2> QED
    BY <2>1, <2>4, <2>5 DEF PyRoot
<1> QED
  BY <1>4, <1>5

LEMMA SameAbstraction == \A log : Rust!Abstract!RootOf(log) = Abstract!RootOf(log)
<1>1. Rust!Abstract!Pow2 = Abstract!Pow2
  BY DEF Rust!Abstract!Pow2, Abstract!Pow2
<1>2. Rust!Abstract!PopCount = Abstract!PopCount
  BY DEF Rust!Abstract!PopCount, Abstract!PopCount
<1>3. ASSUME NEW n
      PROVE  Rust!Abstract!SizeOfLeaves(n) = Abstract!SizeOfLeaves(n)
  BY <1>2 DEF Rust!Abstract!SizeOfLeaves, Abstract!SizeOfLeaves
<1>4. ASSUME NEW n
      PROVE  Rust!Abstract!BitLength(n) = Abstract!BitLength(n)
  BY <1>1 DEF Rust!Abstract!BitLength, Abstract!BitLength
<1>5. ASSUME NEW log
      PROVE  Rust!Abstract!TreeOver(log) = Abstract!TreeOver(log)
  BY <1>1 DEF Rust!Abstract!TreeOver, Abstract!TreeOver
<1>6. ASSUME NEW log
      PROVE  Rust!Abstract!HashOver(log) = Abstract!HashOver(log)
  BY <1>1, <1>4, <1>5 DEF Rust!Abstract!HashOver, Abstract!HashOver
<1> QED
  BY <1>3, <1>6 DEF Rust!Abstract!RootOf, Abstract!RootOf

(* The root of the Python MMR is the root of the log of its leaves.        *)
PyRootOfLeaves == PyRoot = Abstract!RootOf(Leaves)

LEMMA PyRootIsRootOf == PyIInv => PyRootOfLeaves
<1> SUFFICES ASSUME PyIInv PROVE PyRootOfLeaves
  OBVIOUS
<1>1. PICK n : HasLeaves(n)
  BY DEF PyIInv, PyInv
<1>2. Rust!IInv /\ Rust!NodesArePerfectTrees
  BY <1>1, ReadAsRust DEF PyIInv
<1>3. Rust!RootOfLeaves
  BY <1>2, MaxLeavesAssumption, Rust!RootIsRootOf
<1>4. PyRoot = Rust!Abstract!RootOf(Rust!Leaves)
  BY <1>1, <1>3, SameRoot DEF Rust!RootOfLeaves
<1> QED
  BY <1>1, <1>4, SameLeaves, SameAbstraction DEF PyRootOfLeaves

(* The Python MMR is an accumulator as the Rust one is: every add is an    *)
(* append to the log of its leaves, and its get_root is the root the       *)
(* accumulator defines from the log alone; generating a proof changes      *)
(* neither.                                                                *)
THEOREM PyImplementsLog == ProofSpec => ImplementsAccumulator
<1>1. ProofInit /\ PyRootOfLeaves => Abstract!Init
  <2> SUFFICES ASSUME ProofInit, PyRootOfLeaves PROVE Abstract!Init
    OBVIOUS
  <2>1. last_pos = -1 /\ SizeOfLeaves(0) = 0
    BY SizeOfLeavesBounds DEF ProofInit, Init
  <2>2. HasLeaves(0)
    BY <2>1 DEF HasLeaves, MmrSize
  <2>3. LeafPositions = LeavesAt(0)
    BY <2>2, ReadAsRust
  <2>4. Leaves = <<>>
    BY <2>3 DEF Leaves, PeaksValues, LeavesAt
  <2> QED
    BY <2>4 DEF Abstract!Init, PyRootOfLeaves, PyRoot
<1>2. PyIInv /\ PyRootOfLeaves' /\ [ProofNext]_proofVars
        => [Abstract!Next]_(Abstract!vars)
  <2> SUFFICES ASSUME PyIInv, PyRootOfLeaves', [ProofNext]_proofVars
               PROVE  [Abstract!Next]_(Abstract!vars)
    OBVIOUS
  <2>1. PICK n : HasLeaves(n)
    BY DEF PyIInv, PyInv
  <2>2. ASSUME UNCHANGED <<last_pos, pos_hash>>
        PROVE  UNCHANGED Abstract!vars
    <3>1. UNCHANGED Leaves
      BY <2>2 DEF Leaves, PeaksValues, LeafPositions, MmrSize
    <3>2. UNCHANGED PyRoot
      BY <2>2 DEF PyRoot, GetRoot, PeaksValues, MmrSize
    <3> QED
      BY <3>1, <3>2 DEF Abstract!vars, PyRoot
  <2>3. ASSUME NEW elem \in Element, Add(elem)
        PROVE  Abstract!Next
    <3>1. Rust!AppendElement(elem) /\ HasLeaves(n + 1)' /\ Rust!IInv
      BY <2>1, <2>3, AddIsAppend, ReadAsRust
    <3>2. (Rust!Leaves)' = Append(Rust!Leaves, elem)
      BY <2>3, <3>1, MaxLeavesAssumption, Rust!AppendLeaves
    <3>3. (Rust!Leaves)' = Leaves'
      BY <3>1, SameLogNext DEF SameLog
    <3>4. Leaves' = Append(Leaves, elem)
      BY <2>1, <3>2, <3>3, SameLeaves
    <3> QED
      BY <3>4 DEF Abstract!Next, Abstract!AppendLeaf, PyRootOfLeaves, PyRoot
  <2> QED
    BY <2>2, <2>3 DEF ProofNext, Grow, Prove, proofVars
<1>3. ProofSpec => []PyRootOfLeaves
  BY PyRootIsRootOf, PyInvariantHolds, PTL
<1> QED
  BY <1>1, <1>2, <1>3, PyInvariantHolds, PTL
     DEF ProofSpec, ImplementsAccumulator, Abstract!Spec

-----------------------------------------------------------------------------
(* The perfect tree of height h whose first leaf is leaf a, counted from 0 *)
(* and a multiple of 2^h, has its root at RootPos(a, h).  Its sibling and  *)
(* its parent are found by the parity of a / 2^h, which the heights of     *)
(* that position and the next one tell.                                    *)
LEMMA LessFactor ==
  ASSUME NEW x \in Nat, NEW y \in Nat, NEW P \in Nat, P > 0, x * P < y * P
  PROVE  x < y
<1>1. ASSUME y <= x
      PROVE  FALSE
  <2>1. PICK d \in Nat : x = y + d
    <3>1. x - y \in Nat /\ x = y + (x - y)
      BY <1>1
    <3> QED
      BY <3>1
  <2>2. x * P = y * P + d * P /\ d * P \in Nat /\ y * P \in Nat
    BY <2>1
  <2> QED
    BY <2>2
<1> QED
  BY <1>1

LEMMA CancelFactor ==
  ASSUME NEW x \in Nat, NEW y \in Nat, NEW P \in Nat, P > 0, x * P = y * P
  PROVE  x = y
<1>1. ASSUME NEW u \in Nat, NEW v \in Nat, u < v
      PROVE  u * P < v * P
  <2>1. PICK d \in Nat : v = u + d + 1
    <3>1. v - u - 1 \in Nat /\ v = u + (v - u - 1) + 1
      BY <1>1
    <3> QED
      BY <3>1
  <2>2. v * P = u * P + d * P + P /\ d * P \in Nat /\ u * P \in Nat
    BY <2>1
  <2> QED
    BY <2>2
<1>2. x * P \in Nat /\ y * P \in Nat
  OBVIOUS
<1>3. ~(x < y) /\ ~(y < x)
  <2>1. ASSUME x < y PROVE FALSE
    BY <1>1, <1>2, <2>1
  <2>2. ASSUME y < x PROVE FALSE
    BY <1>1, <1>2, <2>2
  <2> QED
    BY <2>1, <2>2
<1> QED
  BY <1>3

-----------------------------------------------------------------------------
(* The way of a proof.  The 0-based position of the root of the tree of    *)
(* height h over the leaves from a on.                                     *)
RootPos(a, h) == SizeOfLeaves(a) + TreeSize(h) - 1

(* A multiple of 2^h is one of 2^(h + 1), or 2^h behind one.               *)
LEMMA Parity ==
  ASSUME NEW a \in Nat, NEW h \in Nat, Multiple(a, h)
  PROVE  /\ ~Multiple(a, h + 1) => /\ a - Pow2[h] \in Nat
                                   /\ Multiple(a - Pow2[h], h + 1)
         /\ Multiple(a, h + 1) <=> ~Multiple(a + Pow2[h], h + 1)
<1>1. PICK q \in Nat : a = q * Pow2[h]
  BY DEF Multiple
<1>2. Pow2[h] \in Nat /\ Pow2[h] >= 1 /\ Pow2[h + 1] = 2 * Pow2[h]
  BY Pow2Unfold, Pow2Exceeds
<1>3. PICK P \in Nat : P = Pow2[h]
  BY <1>2
<1>4. q \div 2 \in Nat /\ q % 2 \in {0, 1} /\ q = 2 * (q \div 2) + (q % 2)
  BY Halving
<1>5. PICK c \in Nat : q = 2 * c \/ q = 2 * c + 1
  BY <1>4
<1>6. CASE q = 2 * c
  <2>1. a = c * (2 * P)
    BY <1>1, <1>3, <1>6
  <2>2. Multiple(a, h + 1)
    BY <1>2, <1>3, <2>1 DEF Multiple
  <2>3. ASSUME Multiple(a + P, h + 1)
        PROVE  FALSE
    <3>1. PICK s \in Nat : a + P = s * (2 * P)
      BY <1>2, <1>3, <2>3 DEF Multiple
    <3>2. (2 * c + 1) * P = (2 * s) * P
      BY <2>1, <3>1
    <3>3. 2 * c + 1 = 2 * s
      <4>1. P > 0
        BY <1>2, <1>3
      <4> QED
        BY <3>2, <4>1, CancelFactor
    <3> QED
      BY <3>3
  <2> QED
    BY <1>3, <2>2, <2>3
<1>7. CASE q = 2 * c + 1
  <2> DEFINE R == 2 * P
  <2>0. /\ c * R \in Nat /\ R = P + P
        /\ (2 * c + 1) * P = c * R + P /\ (c + 1) * R = c * R + R
    OBVIOUS
  <2>1. a = c * (2 * P) + P /\ a + P = (c + 1) * (2 * P)
    <3>1. a = (2 * c + 1) * P
      BY <1>1, <1>3, <1>7
    <3> QED
      BY <2>0, <3>1
  <2>2. c * (2 * P) \in Nat /\ a - P = c * (2 * P) /\ c + 1 \in Nat
    BY <2>1
  <2>3. Multiple(a - P, h + 1) /\ a - P \in Nat
    BY <1>2, <1>3, <2>2 DEF Multiple
  <2>4. Multiple(a + P, h + 1)
    BY <1>2, <1>3, <2>1, <2>2 DEF Multiple
  <2>5. ASSUME Multiple(a, h + 1)
        PROVE  FALSE
    <3>1. PICK s \in Nat : a = s * (2 * P)
      BY <1>2, <1>3, <2>5 DEF Multiple
    <3>2. (2 * c + 1) * P = (2 * s) * P
      BY <2>1, <3>1
    <3>3. 2 * c + 1 = 2 * s
      <4>1. P > 0
        BY <1>2, <1>3
      <4> QED
        BY <3>2, <4>1, CancelFactor
    <3> QED
      BY <3>3
  <2> QED
    BY <1>3, <2>3, <2>4, <2>5
<1> QED
  BY <1>5, <1>6, <1>7

(* The root of a tree is the h-th parent added after its last leaf; it is  *)
(* a right child when one more parent was added there.                     *)
LEMMA SubtreeRoot ==
  ASSUME NEW a \in Nat, NEW h \in Nat, Multiple(a, h), NEW k, k = a + Pow2[h] - 1
  PROVE  /\ k \in Nat /\ h \in 0..TrailingOnes[k]
         /\ RootPos(a, h) = SizeOfLeaves(k) + h /\ RootPos(a, h) \in Nat
         /\ TreePosHeight(RootPos(a, h)) = h
         /\ TreePosHeight(RootPos(a, h) + 1)
              = IF Multiple(a, h + 1) THEN 0 ELSE h + 1
         /\ IsRightChild(RootPos(a, h)) <=> ~Multiple(a, h + 1)
<1> DEFINE o == Pow2[h] - 1
           S == SizeOfLeaves(k)
           T == TrailingOnes[k]
<1>1. Pow2[h] \in Nat /\ Pow2[h] >= 1 /\ Pow2[h + 1] = 2 * Pow2[h] /\ h + 1 \in Nat
  BY Pow2Unfold, Pow2Exceeds
<1>2. o \in Nat /\ o < Pow2[h] /\ k = a + o /\ k \in Nat
  BY <1>1
<1>3. SizeOfLeaves(o) = 2 * Pow2[h] - 2 - h
  BY AllOnesCount
<1>4. S = SizeOfLeaves(a) + SizeOfLeaves(o)
  <2> HIDE DEF o
  <2> QED
    BY <1>2, SizeBehind
<1>5. S \in Nat /\ T \in Nat /\ SizeOfLeaves(a) \in Nat
  BY <1>2, SizeOfLeavesBounds, TrailingOnesUnfold
<1>6. h <= T
  <2>1. PICK q \in Nat : a = q * Pow2[h]
    BY DEF Multiple
  <2>2. k = q * Pow2[h] + (Pow2[h] - 1)
    BY <1>2, <2>1
  <2> QED
    BY <2>2, TrailingOnesBehind
<1>7. RootPos(a, h) = S + h
  <2> HIDE DEF S, o
  <2> QED
    BY <1>1, <1>3, <1>4, <1>5 DEF RootPos, TreeSize
<1>8. h + 1 <= T <=> ~Multiple(a, h + 1)
  <2>1. ASSUME h + 1 <= T
        PROVE  Multiple(a + Pow2[h], h + 1)
    <3>1. PICK q \in Nat : k = q * Pow2[h + 1] + (Pow2[h + 1] - 1)
      BY <1>1, <1>2, <2>1, TrailingOnesMultiple
    <3>2. a + Pow2[h] = (q + 1) * Pow2[h + 1] /\ q + 1 \in Nat
      <4>1. PICK Q \in Nat : Q = Pow2[h + 1]
        BY <1>1
      <4>2. a + Pow2[h] = q * Q + Q /\ q * Q \in Nat
        <5>1. PICK r \in Nat : r = q * Q
          OBVIOUS
        <5>2. k = r + (Q - 1)
          BY <3>1, <4>1, <5>1
        <5>3. PICK P \in Nat : P = Pow2[h]
          BY <1>1
        <5>4. k = a + P - 1
          BY <5>3
        <5>5. a + P = r + Q
          BY <4>1, <5>2, <5>4
        <5> QED
          BY <5>1, <5>3, <5>5
      <4>3. (q + 1) * Q = q * Q + Q
        OBVIOUS
      <4> QED
        BY <4>1, <4>2, <4>3
    <3> QED
      BY <3>2 DEF Multiple
  <2>2. ASSUME ~Multiple(a, h + 1)
        PROVE  h + 1 <= T
    <3>1. a - Pow2[h] \in Nat /\ Multiple(a - Pow2[h], h + 1)
      BY <2>2, Parity
    <3>2. PICK q \in Nat : a - Pow2[h] = q * Pow2[h + 1]
      BY <3>1 DEF Multiple
    <3>3. k = q * Pow2[h + 1] + (Pow2[h + 1] - 1)
      BY <1>1, <1>2, <3>2
    <3> QED
      BY <1>1, <3>3, TrailingOnesBehind
  <2> QED
    BY <2>1, <2>2, Parity
<1>9. /\ \A i \in 0..T : Height[S + 1 + i] = i
      /\ Height[S + 1 + T + 1] = 0
  BY <1>2, HeightsBehindLeaf
<1> HIDE DEF S, T
<1>10. TreePosHeight(S + h) = h
  <2>1. h \in 0..T /\ S + h + 1 = S + 1 + h
    BY <1>5, <1>6
  <2> QED
    BY <1>9, <2>1 DEF TreePosHeight
<1>11. TreePosHeight(S + h + 1) = IF Multiple(a, h + 1) THEN 0 ELSE h + 1
  <2>1. S + h + 1 + 1 = S + 1 + (h + 1) /\ S + h + 1 + 1 = S + 1 + h + 1
    BY <1>5
  <2>2. CASE h + 1 <= T
    <3>1. h + 1 \in 0..T
      BY <1>5, <2>2
    <3> QED
      BY <1>8, <1>9, <2>1, <2>2, <3>1 DEF TreePosHeight
  <2>3. CASE ~(h + 1 <= T)
    <3>1. h = T
      BY <1>5, <1>6, <2>3
    <3> QED
      BY <1>8, <1>9, <2>1, <2>3, <3>1 DEF TreePosHeight
  <2> QED
    BY <2>2, <2>3
<1>12. IsRightChild(S + h) <=> ~Multiple(a, h + 1)
  BY <1>1, <1>10, <1>11 DEF IsRightChild
<1>13. S + h \in Nat /\ h \in 0..T
  BY <1>5, <1>6
<1> QED
  BY <1>2, <1>7, <1>10, <1>11, <1>12, <1>13 DEF S, T

(* The tree over the leaves from a on lies inside an MMR of n leaves.      *)
Inside(n, a, h) == a + Pow2[h] <= n

LEMMA RootInside ==
  ASSUME NEW n \in Nat, NEW a \in Nat, NEW h \in Nat, Multiple(a, h), Inside(n, a, h)
  PROVE  RootPos(a, h) \in 0..(SizeOfLeaves(n) - 1)
<1> DEFINE k == a + Pow2[h] - 1
<1>1. /\ k \in Nat /\ h \in 0..TrailingOnes[k]
      /\ RootPos(a, h) = SizeOfLeaves(k) + h /\ RootPos(a, h) \in Nat
  BY SubtreeRoot
<1>2. k + 1 <= n
  BY Pow2Unfold DEF Inside
<1> HIDE DEF k
<1>3. SizeOfLeaves(k + 1) <= SizeOfLeaves(n) /\ SizeOfLeaves(n) \in Nat
  BY <1>1, <1>2, SizeMonotone, SizeOfLeavesBounds
<1>4. SizeOfLeaves(k + 1) = SizeOfLeaves(k) + 1 + TrailingOnes[k]
      /\ SizeOfLeaves(k) \in Nat /\ TrailingOnes[k] \in Nat
  BY <1>1, SizeSuccessor, SizeOfLeavesBounds, TrailingOnesUnfold
<1> QED
  BY <1>1, <1>3, <1>4

(* The two children of a root and the root.                                *)
LEMMA Family ==
  ASSUME NEW a \in Nat, NEW h \in Nat, Multiple(a, h + 1)
  PROVE  /\ Multiple(a, h) /\ a + Pow2[h] \in Nat /\ Multiple(a + Pow2[h], h)
         /\ ~Multiple(a + Pow2[h], h + 1)
         /\ RootPos(a + Pow2[h], h) = RootPos(a, h) + SiblingOffset(h)
         /\ RootPos(a, h + 1) = RootPos(a, h) + 2 * Pow2[h]
         /\ RootPos(a, h + 1) = RootPos(a + Pow2[h], h) + 1
<1> DEFINE S == SizeOfLeaves(a)
           P == Pow2[h]
<1>1. P \in Nat /\ Pow2[h + 1] = 2 * P /\ Pow2[(h + 1) + 1] = 2 * Pow2[h + 1]
      /\ h + 1 \in Nat /\ h <= h + 1
  BY Pow2Unfold
<1>2. PICK q \in Nat : a = q * Pow2[h + 1]
  BY DEF Multiple
<1>3. Multiple(a, h)
  BY <1>1, MultipleOfLower
<1>4. Multiple(a + P, h)
  <2>1. a + P = (2 * q + 1) * P /\ 2 * q + 1 \in Nat
    BY <1>1, <1>2
  <2> QED
    BY <2>1 DEF Multiple
<1>5. ~Multiple(a + P, h + 1)
  BY <1>3, Parity
<1>6. SizeOfLeaves(a + P) = S + TreeSize(h)
  BY <1>2, SizeOfLeavesLowTree
<1>7. S \in Nat /\ a + P \in Nat
  BY <1>1, SizeOfLeavesBounds
<1> HIDE DEF P, S
<1>8. TreeSize(h) = 2 * P - 1 /\ TreeSize(h + 1) = 4 * P - 1
  BY <1>1 DEF TreeSize
<1>9. SiblingOffset(h) = 2 * P - 1
  BY DEF SiblingOffset, P
<1>10. /\ RootPos(a, h) = S + 2 * P - 2
       /\ RootPos(a + P, h) = S + 4 * P - 3
       /\ RootPos(a, h + 1) = S + 4 * P - 2
  BY <1>1, <1>6, <1>7, <1>8 DEF RootPos, S
<1> QED
  BY <1>1, <1>3, <1>4, <1>5, <1>7, <1>9, <1>10 DEF P

-----------------------------------------------------------------------------
(* The first leaf of the tree of height h that leaf k is in.               *)
IsAncestor(k, h, a) == a \in 0..k /\ Multiple(a, h) /\ k < a + Pow2[h]

Ancestor(k, h) == CHOOSE a \in 0..k : IsAncestor(k, h, a)

LEMMA AncestorIs ==
  ASSUME NEW k \in Nat, NEW h \in Nat, NEW a, IsAncestor(k, h, a)
  PROVE  Ancestor(k, h) = a
<1>1. a \in 0..k /\ a \in Nat /\ Multiple(a, h) /\ k < a + Pow2[h]
  BY DEF IsAncestor
<1>2. Pow2[h] \in Nat /\ Pow2[h] > 0
  BY Pow2Unfold, Pow2Exceeds
<1>3. ASSUME NEW b, IsAncestor(k, h, b)
      PROVE  b = a
  <2>1. b \in Nat /\ b <= k /\ k < b + Pow2[h]
    BY <1>3 DEF IsAncestor
  <2>2. PICK q \in Nat : a = q * Pow2[h]
    BY <1>1 DEF Multiple
  <2>3. PICK r \in Nat : b = r * Pow2[h]
    BY <1>3 DEF IsAncestor, Multiple
  <2>4. PICK P \in Nat : P = Pow2[h]
    BY <1>2
  <2>5. q * P < (r + 1) * P /\ r * P < (q + 1) * P
    BY <1>1, <2>1, <2>2, <2>3, <2>4
  <2>6. q < r + 1 /\ r < q + 1
    <3>1. q + 1 \in Nat /\ r + 1 \in Nat /\ P > 0
      BY <1>2, <2>4
    <3> QED
      BY <2>5, <3>1, LessFactor
  <2>7. q = r
    BY <2>6
  <2> QED
    BY <2>2, <2>3, <2>7
<1>4. IsAncestor(k, h, Ancestor(k, h))
  BY <1>1 DEF Ancestor
<1> QED
  BY <1>3, <1>4

LEMMA AncestorUp ==
  ASSUME NEW k \in Nat, NEW h \in Nat, NEW a, IsAncestor(k, h, a)
  PROVE  IsAncestor(k, h + 1, IF Multiple(a, h + 1) THEN a ELSE a - Pow2[h])
<1>1. a \in Nat /\ a <= k /\ Multiple(a, h) /\ k < a + Pow2[h]
  BY DEF IsAncestor
<1>2. Pow2[h] \in Nat /\ Pow2[h + 1] = 2 * Pow2[h]
  BY Pow2Unfold
<1>3. CASE Multiple(a, h + 1)
  BY <1>1, <1>2, <1>3 DEF IsAncestor
<1>4. CASE ~Multiple(a, h + 1)
  <2> DEFINE b == a - Pow2[h]
  <2>1. b \in Nat /\ Multiple(b, h + 1)
    BY <1>1, <1>4, Parity
  <2>2. b <= k /\ k < b + Pow2[h + 1]
    BY <1>1, <1>2
  <2> HIDE DEF b
  <2>3. IsAncestor(k, h + 1, b)
    BY <2>1, <2>2 DEF IsAncestor
  <2> QED
    BY <1>4, <2>3 DEF b
<1> QED
  BY <1>3, <1>4

LEMMA AncestorSpec ==
  ASSUME NEW k \in Nat
  PROVE  /\ Ancestor(k, 0) = k
         /\ \A h \in Nat : IsAncestor(k, h, Ancestor(k, h))
         /\ \A h \in Nat :
              Ancestor(k, h + 1)
                = IF Multiple(Ancestor(k, h), h + 1) THEN Ancestor(k, h)
                  ELSE Ancestor(k, h) - Pow2[h]
<1> DEFINE E == {h \in Nat : IsAncestor(k, h, Ancestor(k, h))}
<1>1. IsAncestor(k, 0, k)
  <2>1. Pow2[0] = 1 /\ k = k * Pow2[0]
    BY Pow2Unfold
  <2> QED
    BY <2>1 DEF IsAncestor, Multiple
<1>2. Ancestor(k, 0) = k
  BY <1>1, AncestorIs
<1>3. ASSUME NEW h \in Nat, IsAncestor(k, h, Ancestor(k, h))
      PROVE  /\ Ancestor(k, h + 1)
                  = IF Multiple(Ancestor(k, h), h + 1) THEN Ancestor(k, h)
                    ELSE Ancestor(k, h) - Pow2[h]
             /\ IsAncestor(k, h + 1, Ancestor(k, h + 1))
  <2> DEFINE a == Ancestor(k, h)
             b == IF Multiple(a, h + 1) THEN a ELSE a - Pow2[h]
  <2>1. IsAncestor(k, h + 1, b)
    BY <1>3, AncestorUp
  <2> HIDE DEF b
  <2>2. Ancestor(k, h + 1) = b
    BY <2>1, AncestorIs
  <2> QED
    BY <2>1, <2>2 DEF b
<1>4. 0 \in E
  BY <1>1, <1>2
<1>5. ASSUME NEW h \in Nat, h \in E
      PROVE  h + 1 \in E
  BY <1>3, <1>5
<1> HIDE DEF E
<1>6. \A h \in Nat : h \in E
  BY <1>4, <1>5, NatSetInduction
<1> QED
  BY <1>2, <1>3, <1>6 DEF E

(* The peak above leaf k: of height j, with every tree on the way inside.  *)
PeakAbove(n, k, j) ==
  /\ j \in Nat
  /\ Block(n, Ancestor(k, j), j)
  /\ \A i \in 0..j : Inside(n, Ancestor(k, i), i)

LEMMA PeakAboveExists ==
  ASSUME NEW n \in Nat, NEW k \in 0..(n - 1)
  PROVE  \E j : PeakAbove(n, k, j)
<1> DEFINE Upto(h) == \A i \in 0..h : Inside(n, Ancestor(k, i), i)
           E == {h \in Nat : Upto(h) \/ \E j : PeakAbove(n, k, j)}
<1>1. k \in Nat /\ k < n
  OBVIOUS
<1>2. 0 \in E
  <2>1. Ancestor(k, 0) + Pow2[0] <= n
    BY <1>1, AncestorSpec, Pow2Unfold
  <2>2. \A i \in 0..0 : i = 0
    OBVIOUS
  <2> QED
    BY <2>1, <2>2 DEF Inside
<1>3. ASSUME NEW h \in Nat, h \in E
      PROVE  h + 1 \in E
  <2> DEFINE a == Ancestor(k, h)
             b == Ancestor(k, h + 1)
  <2>1. CASE Inside(n, b, h + 1) /\ Upto(h)
    <3>1. \A i \in 0..(h + 1) : i \in 0..h \/ i = h + 1
      OBVIOUS
    <3> QED
      BY <2>1, <3>1
  <2>2. CASE ~Inside(n, b, h + 1) /\ Upto(h)
    <3>1. Inside(n, a, h)
      BY <2>2
    <3>2. IsAncestor(k, h, a) /\ b = IF Multiple(a, h + 1) THEN a ELSE a - Pow2[h]
      BY <1>1, AncestorSpec
    <3>3. a \in Nat
      BY <3>2 DEF IsAncestor
    <3>4. Pow2[h] \in Nat /\ Pow2[h + 1] = 2 * Pow2[h]
      BY Pow2Unfold
    <3> HIDE DEF a, b, Upto
    <3>5. Multiple(a, h + 1)
      <4>1. ASSUME ~Multiple(a, h + 1)
            PROVE  Inside(n, b, h + 1)
        BY <3>1, <3>2, <3>3, <3>4, <4>1 DEF Inside
      <4> QED
        BY <2>2, <4>1
    <3>6. n < a + Pow2[h + 1]
      BY <2>2, <3>2, <3>3, <3>4, <3>5 DEF Inside
    <3>7. Block(n, a, h)
      BY <3>1, <3>5, <3>6 DEF Block, Inside
    <3>8. PeakAbove(n, k, h)
      BY <2>2, <3>7 DEF PeakAbove, a, Upto
    <3> QED
      BY <3>8
  <2> QED
    BY <1>3, <2>1, <2>2
<1> HIDE DEF E
<1>4. n \in E
  BY <1>2, <1>3, NatSetInduction
<1>5. ~Upto(n)
  <2>1. Pow2[n] \in Nat /\ Pow2[n] >= n + 1 /\ n \in 0..n
    BY Pow2Unfold, Pow2Exceeds
  <2>2. Ancestor(k, n) \in Nat
    BY <1>1, AncestorSpec DEF IsAncestor
  <2>3. ~Inside(n, Ancestor(k, n), n)
    BY <2>1, <2>2 DEF Inside
  <2> QED
    BY <2>1, <2>3
<1> QED
  BY <1>4, <1>5 DEF E

(* No tree on the way below is a peak, so the way leads up by one parent   *)
(* after the other.                                                        *)
WayPos(k, h) == RootPos(Ancestor(k, h), h)

LEMMA WayUp ==
  ASSUME NEW n \in Nat, NEW k \in 0..(n - 1), NEW j, PeakAbove(n, k, j),
         NEW i \in 0..(j - 1)
  PROVE  /\ WayPos(k, i) \in 0..(SizeOfLeaves(n) - 1)
         /\ SiblingPos(WayPos(k, i), i) \in 0..(SizeOfLeaves(n) - 1)
         /\ ParentPos(WayPos(k, i), i) = WayPos(k, i + 1)
         /\ ~Block(n, Ancestor(k, i), i)
         /\ TreePosHeight(WayPos(k, i)) = i
         /\ TreePosHeight(WayPos(k, i) + 1)
              = IF IsRightChild(WayPos(k, i)) THEN i + 1 ELSE 0
         /\ LET b == Ancestor(k, i + 1)
            IN  /\ Multiple(b, i + 1) /\ b \in Nat /\ Inside(n, b, i + 1)
                /\ IF IsRightChild(WayPos(k, i))
                     THEN /\ SiblingPos(WayPos(k, i), i) = RootPos(b, i)
                          /\ WayPos(k, i) = RootPos(b + Pow2[i], i)
                   ELSE /\ SiblingPos(WayPos(k, i), i) = RootPos(b + Pow2[i], i)
                        /\ WayPos(k, i) = RootPos(b, i)
<1> DEFINE a == Ancestor(k, i)
           b == Ancestor(k, i + 1)
           S == SizeOfLeaves(n)
<1>1. k \in Nat /\ j \in Nat /\ i \in Nat /\ i + 1 \in 0..j /\ i + 1 \in Nat
  BY DEF PeakAbove
<1>2. Inside(n, b, i + 1)
  BY <1>1 DEF PeakAbove
<1>3. /\ IsAncestor(k, i, a) /\ IsAncestor(k, i + 1, b)
      /\ b = IF Multiple(a, i + 1) THEN a ELSE a - Pow2[i]
  BY <1>1, AncestorSpec
<1>4. Pow2[i] \in Nat /\ Pow2[i + 1] = 2 * Pow2[i] /\ Pow2[i] >= 1
  BY <1>1, Pow2Unfold, Pow2Exceeds
<1>5. /\ a \in Nat /\ b \in Nat /\ Multiple(a, i) /\ Multiple(b, i + 1)
  BY <1>3 DEF IsAncestor
<1> HIDE DEF a, b
<1>6. /\ TreePosHeight(RootPos(a, i)) = i
      /\ TreePosHeight(RootPos(a, i) + 1) = IF Multiple(a, i + 1) THEN 0 ELSE i + 1
      /\ IsRightChild(RootPos(a, i)) <=> ~Multiple(a, i + 1)
  BY <1>1, <1>5, SubtreeRoot
<1>7. /\ Multiple(b, i) /\ b + Pow2[i] \in Nat /\ Multiple(b + Pow2[i], i)
      /\ ~Multiple(b + Pow2[i], i + 1)
      /\ RootPos(b + Pow2[i], i) = RootPos(b, i) + SiblingOffset(i)
      /\ RootPos(b, i + 1) = RootPos(b, i) + 2 * Pow2[i]
      /\ RootPos(b, i + 1) = RootPos(b + Pow2[i], i) + 1
  BY <1>1, <1>5, Family
<1>8. Inside(n, b, i) /\ Inside(n, b + Pow2[i], i)
  BY <1>2, <1>4, <1>5 DEF Inside
<1>9. RootPos(b, i) \in 0..(S - 1) /\ RootPos(b + Pow2[i], i) \in 0..(S - 1)
  BY <1>1, <1>5, <1>7, <1>8, RootInside
<1>10. RootPos(b, i) \in Int /\ S \in Nat /\ SiblingOffset(i) \in Int
  BY <1>4, <1>9, SizeOfLeavesBounds DEF SiblingOffset
<1>11. ~Block(n, a, i)
  <2>1. ASSUME Block(n, a, i)
        PROVE  FALSE
    <3>1. b = a /\ n < a + Pow2[i + 1]
      BY <1>3, <2>1 DEF Block
    <3> QED
      BY <1>2, <1>4, <1>5, <3>1 DEF Inside
  <2> QED
    BY <2>1
<1> DEFINE at == RootPos(a, i)
           sib == SiblingPos(at, i)
           lower == RootPos(b, i)
           upper == RootPos(b + Pow2[i], i)
           up == RootPos(b, i + 1)
<1>12. /\ upper = lower + SiblingOffset(i) /\ up = lower + 2 * Pow2[i]
       /\ up = upper + 1 /\ lower \in Int
  BY <1>7, <1>10
<1>13. CASE Multiple(a, i + 1)
  <2>1. a = b /\ at = lower /\ ~IsRightChild(at)
    BY <1>3, <1>6, <1>13
  <2>2. sib = upper /\ ParentPos(at, i) = up
    <3> HIDE DEF upper, lower, up, at
    <3> QED
      BY <1>12, <2>1 DEF SiblingPos, ParentPos
  <2> QED
    BY <1>1, <1>2, <1>5, <1>6, <1>9, <1>11, <1>13, <2>1, <2>2 DEF WayPos, a, b
<1>14. CASE ~Multiple(a, i + 1)
  <2>1. b + Pow2[i] = a
    BY <1>3, <1>4, <1>5, <1>14
  <2>2. at = upper /\ IsRightChild(at)
    BY <1>6, <1>14, <2>1
  <2>3. sib = lower /\ ParentPos(at, i) = up
    <3> HIDE DEF upper, lower, up, at
    <3> QED
      BY <1>10, <1>12, <2>2 DEF SiblingPos, ParentPos
  <2> QED
    BY <1>1, <1>2, <1>5, <1>6, <1>9, <1>11, <1>14, <2>2, <2>3 DEF WayPos, a, b
<1> QED
  BY <1>13, <1>14

(* At the peak: its right sibling would lie behind the last node.          *)
LEMMA WayEnds ==
  ASSUME NEW n \in Nat, NEW k \in 0..(n - 1), NEW j, PeakAbove(n, k, j)
  PROVE  /\ WayPos(k, j) \in 0..(SizeOfLeaves(n) - 1)
         /\ SiblingPos(WayPos(k, j), j) >= SizeOfLeaves(n)
         /\ SiblingPos(WayPos(k, j), j) \in Nat
         /\ TreePosHeight(WayPos(k, j)) = j
         /\ WayPos(k, j) + 1 = SizeOfLeaves(Ancestor(k, j) + Pow2[j])
         /\ j \in Nat /\ j < n
<1> DEFINE a == Ancestor(k, j)
           P == Pow2[j]
           c == a + P
           r == n - c
<1>1. k \in Nat /\ j \in Nat /\ Block(n, a, j) /\ Inside(n, a, j)
  BY DEF PeakAbove
<1>2. /\ P \in Nat /\ Pow2[j + 1] = 2 * P /\ P >= j + 1
  BY <1>1, Pow2Unfold, Pow2Exceeds
<1>3. a \in Nat
  BY <1>1, AncestorSpec DEF IsAncestor
<1> HIDE DEF a
<1>4. Multiple(a, j + 1) /\ c <= n /\ n < a + Pow2[j + 1]
  BY <1>1 DEF Block
<1>5. /\ Multiple(a, j) /\ c \in Nat /\ Multiple(c, j)
      /\ RootPos(c, j) = RootPos(a, j) + SiblingOffset(j)
  BY <1>1, <1>3, <1>4, Family
<1>6. RootPos(a, j) \in 0..(SizeOfLeaves(n) - 1)
  BY <1>1, <1>3, <1>5, RootInside
<1>7. TreePosHeight(RootPos(a, j)) = j /\ ~IsRightChild(RootPos(a, j))
  BY <1>1, <1>3, <1>4, <1>5, SubtreeRoot
<1>8. SiblingPos(RootPos(a, j), j) = RootPos(c, j)
  BY <1>5, <1>7 DEF SiblingPos
<1>9. r \in Nat /\ r < P /\ n = c + r
  BY <1>2, <1>3, <1>4, <1>5
<1> HIDE DEF c, r
<1>10. SizeOfLeaves(n) = SizeOfLeaves(c) + SizeOfLeaves(r)
  BY <1>1, <1>5, <1>9, SizeBehind
<1>11. /\ SizeOfLeaves(c) \in Nat /\ SizeOfLeaves(r) \in Nat
       /\ SizeOfLeaves(a) \in Nat
  BY <1>3, <1>5, <1>9, SizeOfLeavesBounds
<1>12. TreeSize(j) \in Nat /\ SizeOfLeaves(r) < TreeSize(j)
  <2>1. ~(P <= r)
    BY <1>2, <1>9
  <2>2. ~(TreeSize(j) <= SizeOfLeaves(r))
    BY <1>1, <1>9, <2>1, BlockFits
  <2>3. TreeSize(j) \in Nat
    BY <1>1, <1>2 DEF TreeSize
  <2> QED
    BY <1>11, <2>2, <2>3
<1>13. RootPos(c, j) >= SizeOfLeaves(n) /\ RootPos(c, j) \in Nat
  <2>1. RootPos(c, j) = SizeOfLeaves(c) + TreeSize(j) - 1
    BY DEF RootPos
  <2> QED
    BY <1>10, <1>11, <1>12, <2>1
<1>14. SizeOfLeaves(c) = SizeOfLeaves(a) + TreeSize(j)
  <2>1. PICK q \in Nat : a = q * Pow2[j + 1]
    BY <1>4 DEF Multiple
  <2> QED
    BY <1>1, <2>1, SizeOfLeavesLowTree DEF c
<1>15. RootPos(a, j) + 1 = SizeOfLeaves(c)
  BY <1>11, <1>12, <1>14 DEF RootPos
<1>16. j < n
  BY <1>1, <1>2, <1>3, <1>4, <1>5 DEF c
<1> QED
  BY <1>1, <1>6, <1>7, <1>8, <1>13, <1>15, <1>16 DEF WayPos, a, c

-----------------------------------------------------------------------------
(* The loop of gen_proof unfolds.                                          *)
Stored == {pos_hash[p] : p \in Int}

Climbs == [Nat -> [Nat -> [path : Seq(Stored), peak : Nat]]]

ClimbLevel(turns, up) ==
  [height \in Nat |-> [pos \in Nat |->
     IF turns = 0 \/ pos > last_pos \/ SiblingPos(pos, height) > last_pos
       THEN [path |-> <<>>, peak |-> pos]
     ELSE [path |-> <<pos_hash[SiblingPos(pos, height)]>>
                      \o up[height + 1][ParentPos(pos, height)].path,
           peak |-> up[height + 1][ParentPos(pos, height)].peak]]]

LEMMA ClimbLevelType ==
  ASSUME NEW t \in Nat, NEW up, t = 0 \/ up \in Climbs
  PROVE  ClimbLevel(t, up) \in Climbs
<1>1. ASSUME NEW h \in Nat, NEW pos \in Nat
      PROVE  /\ pos_hash[SiblingPos(pos, h)] \in Stored
             /\ h + 1 \in Nat /\ ParentPos(pos, h) \in Nat
  <2>1. Pow2[h] \in Nat
    BY Pow2Unfold
  <2>2. SiblingPos(pos, h) \in Int /\ ParentPos(pos, h) \in Nat
    BY <2>1 DEF SiblingPos, SiblingOffset, ParentPos
  <2> QED
    BY <2>2 DEF Stored
<1>2. ASSUME NEW h \in Nat, NEW pos \in Nat, t # 0
      PROVE  /\ <<pos_hash[SiblingPos(pos, h)]>>
                  \o up[h + 1][ParentPos(pos, h)].path \in Seq(Stored)
             /\ up[h + 1][ParentPos(pos, h)].peak \in Nat
  <2>1. up[h + 1][ParentPos(pos, h)] \in [path : Seq(Stored), peak : Nat]
    BY <1>1, <1>2 DEF Climbs
  <2>2. up[h + 1][ParentPos(pos, h)].path \in Seq(Stored)
    BY <2>1
  <2>3. <<pos_hash[SiblingPos(pos, h)]>> \in Seq(Stored)
    BY <1>1
  <2> HIDE DEF Stored
  <2> QED
    BY <2>1, <2>2, <2>3, ConcatProperties
<1>3. <<>> \in Seq(Stored)
  OBVIOUS
<1>4. ASSUME NEW h \in Nat, NEW pos \in Nat
      PROVE  (IF t = 0 \/ pos > last_pos \/ SiblingPos(pos, h) > last_pos
                THEN [path |-> <<>>, peak |-> pos]
              ELSE [path |-> <<pos_hash[SiblingPos(pos, h)]>>
                               \o up[h + 1][ParentPos(pos, h)].path,
                    peak |-> up[h + 1][ParentPos(pos, h)].peak])
               \in [path : Seq(Stored), peak : Nat]
  <2> DEFINE stops == t = 0 \/ pos > last_pos \/ SiblingPos(pos, h) > last_pos
  <2>1. CASE stops
    BY <1>3, <2>1
  <2>2. CASE ~stops
    <3>1. t # 0
      BY <2>2
    <3> HIDE DEF stops, Stored
    <3> QED
      BY <1>2, <2>2, <3>1
  <2> QED
    BY <2>1, <2>2
<1> QED
  BY <1>4 DEF ClimbLevel, Climbs

LEMMA ClimbUnfold ==
  /\ Climb[0] = ClimbLevel(0, <<>>)
  /\ \A t \in Nat : Climb[t + 1] = ClimbLevel(t + 1, Climb[t])
<1> DEFINE first == ClimbLevel(0, <<>>)
           next == [t \in Nat |-> [up \in Climbs |-> ClimbLevel(t, up)]]
           Body(g, t) ==
             [height \in Nat |-> [pos \in Nat |->
                LET sib == SiblingPos(pos, height)
                    up  == g[t - 1][height + 1][ParentPos(pos, height)]
                IN  IF t = 0 \/ pos > last_pos \/ sib > last_pos
                      THEN [path |-> <<>>, peak |-> pos]
                    ELSE [path |-> <<pos_hash[sib]>> \o up.path, peak |-> up.peak]]]
<1>1. first \in Climbs
  BY ClimbLevelType
<1>2. next \in [Nat -> [Climbs -> Climbs]]
  BY ClimbLevelType
<1>3. PICK f : f \in [Nat -> Climbs] /\ f[0] = first
                /\ \A n \in Nat : f[n + 1] = next[n + 1][f[n]]
  <2> HIDE DEF first, next
  <2>1. \E f : Iterates(f, Climbs, first, next)
    BY <1>1, <1>2, PrimitiveRecursion
  <2> QED
    BY <2>1 DEF Iterates
<1>4. \A t \in Nat : f[t + 1] = ClimbLevel(t + 1, f[t])
  <2> TAKE t \in Nat
  <2>1. f[t] \in Climbs /\ t + 1 \in Nat
    BY <1>3
  <2> QED
    BY <1>3, <2>1
<1>5. ASSUME NEW g, NEW t \in Nat, t # 0
      PROVE  Body(g, t) = ClimbLevel(t, g[t - 1])
  BY DEF ClimbLevel
<1>6. ASSUME NEW g
      PROVE  Body(g, 0) = first
  BY DEF ClimbLevel
<1> HIDE DEF Body, first, next
<1>7. ASSUME NEW t \in Nat
      PROVE  f[t] = Body(f, t)
  <2>1. CASE t = 0
    BY <1>3, <1>6, <2>1
  <2>2. CASE t # 0
    <3>1. t - 1 \in Nat /\ (t - 1) + 1 = t
      BY <2>2
    <3>2. f[(t - 1) + 1] = ClimbLevel((t - 1) + 1, f[t - 1])
      BY <1>4, <3>1
    <3> QED
      BY <1>5, <2>2, <3>1, <3>2
  <2> QED
    BY <2>1, <2>2
<1>8. f = [t \in Nat |-> Body(f, t)]
  <2>1. f \in [Nat -> Climbs]
    BY <1>3
  <2> QED
    BY <1>7, <2>1
<1> DEFINE C == Climb
<1>9. C = [t \in Nat |-> Body(C, t)]
  <2>1. C = CHOOSE g : g = [t \in Nat |-> Body(g, t)]
    BY Zenon DEF Climb, Body
  <2> HIDE DEF C
  <2> QED
    BY <1>8, <2>1
<1> HIDE DEF C
<1>10. C[0] = first
  BY <1>6, <1>9
<1>11. ASSUME NEW t \in Nat
       PROVE  C[t + 1] = ClimbLevel(t + 1, C[t])
  <2>1. t + 1 \in Nat /\ t + 1 # 0 /\ (t + 1) - 1 = t
    OBVIOUS
  <2>2. C[t + 1] = Body(C, t + 1)
    BY <1>9, <2>1
  <2>3. Body(C, t + 1) = ClimbLevel(t + 1, C[(t + 1) - 1])
    BY <1>5, <2>1
  <2> QED
    BY <2>1, <2>2, <2>3
<1> QED
  BY <1>10, <1>11 DEF C, first

(* From leaf k on, the siblings on the way are what gen_proof collects.    *)
WayItem(k, i) == pos_hash[SiblingPos(WayPos(k, i), i)]

WayPath(k, i, j) == [x \in 1..(j - i) |-> WayItem(k, i + x - 1)]

LEMMA WayPathFront ==
  ASSUME NEW k \in Nat, NEW i \in Nat, NEW j \in Nat, i < j
  PROVE  <<WayItem(k, i)>> \o WayPath(k, i + 1, j) = WayPath(k, i, j)
<1> DEFINE one == <<WayItem(k, i)>>
           rest == WayPath(k, i + 1, j)
           m == j - (i + 1)
           U == {WayItem(k, i)}
<1>1. m \in Nat /\ m + 1 = j - i
  OBVIOUS
<1>2. rest = [x \in 1..m |-> WayItem(k, (i + 1) + x - 1)]
  BY DEF WayPath
<1>3. IsRow(rest, m)
  BY <1>2 DEF IsRow
<1>4. one \in Seq(U) /\ Len(one) = 1 /\ one[1] = WayItem(k, i)
  OBVIOUS
<1> HIDE DEF one, rest, m, U
<1>5. /\ \E T : one \o rest \in Seq(T)
      /\ Len(one \o rest) = Len(one) + m
      /\ \A x \in 1..Len(one) : (one \o rest)[x] = one[x]
      /\ \A x \in 1..m : (one \o rest)[Len(one) + x] = rest[x]
  <2>1. m \in Nat
    BY <1>1
  <2>2. one \in Seq(U)
    BY <1>4
  <2> QED
    BY <1>3, <2>1, <2>2, Extend
<1> DEFINE both == one \o rest
<1> HIDE DEF both
<1>6. both = [x \in 1..(m + 1) |-> both[x]]
  <2>1. \E T : both \in Seq(T)
    BY <1>5 DEF both
  <2>2. Len(both) = m + 1
    BY <1>1, <1>4, <1>5 DEF both
  <2> QED
    BY <2>1, <2>2
<1>7. ASSUME NEW x \in 1..(m + 1)
      PROVE  both[x] = WayItem(k, i + x - 1)
  <2>1. CASE x = 1
    <3>1. both[1] = one[1]
      <4>1. 1 \in 1..Len(one)
        BY <1>4
      <4> QED
        BY <1>5, <4>1 DEF both
    <3>2. i + 1 - 1 = i
      OBVIOUS
    <3> QED
      BY <1>4, <2>1, <3>1, <3>2
  <2>2. CASE x # 1
    <3> DEFINE y == x - 1
    <3>1. y \in 1..m /\ 1 + y = x /\ (i + 1) + y - 1 = i + x - 1
      BY <1>1, <2>2
    <3> HIDE DEF y
    <3>2. both[1 + y] = rest[y]
      BY <1>4, <1>5, <3>1 DEF both
    <3>3. rest[y] = WayItem(k, (i + 1) + y - 1)
      BY <1>2, <3>1
    <3> QED
      BY <3>1, <3>2, <3>3
  <2> QED
    BY <2>1, <2>2
<1>8. WayPath(k, i, j) = [x \in 1..(m + 1) |-> WayItem(k, i + x - 1)]
  BY <1>1 DEF WayPath
<1>9. both = WayPath(k, i, j)
  BY <1>6, <1>7, <1>8
<1> QED
  BY <1>9 DEF both, one, rest

LEMMA ClimbReaches ==
  ASSUME NEW n, HasLeaves(n), NEW k \in 0..(n - 1), NEW j, PeakAbove(n, k, j)
  PROVE  /\ WayPos(k, 0) = SizeOfLeaves(k)
         /\ ClimbFrom(SizeOfLeaves(k)) = [path |-> WayPath(k, 0, j), peak |-> WayPos(k, j)]
<1> DEFINE S == SizeOfLeaves(n)
           Result(i) == [path |-> WayPath(k, i, j), peak |-> WayPos(k, j)]
           E == {d \in Nat : d <= j => \A t \in Nat : t >= d =>
                    Climb[t][j - d][WayPos(k, j - d)] = Result(j - d)}
<1>1. /\ n \in Nat /\ k \in Nat /\ k < n /\ last_pos \in Int /\ S \in Nat
      /\ MmrSize = S /\ last_pos = S - 1 /\ n <= S
  BY SizeOfLeavesBounds DEF HasLeaves, MmrSize
<1>2. /\ j \in Nat /\ j < n
      /\ WayPos(k, j) \in 0..(S - 1) /\ SiblingPos(WayPos(k, j), j) >= S
      /\ SiblingPos(WayPos(k, j), j) \in Nat
  BY <1>1, WayEnds
<1>3. ASSUME NEW i \in 0..(j - 1)
      PROVE  /\ WayPos(k, i) \in 0..(S - 1)
             /\ SiblingPos(WayPos(k, i), i) \in 0..(S - 1)
             /\ ParentPos(WayPos(k, i), i) = WayPos(k, i + 1)
  BY <1>1, <1>3, WayUp
<1> HIDE DEF S
<1>4. 0 \in E
  <2> SUFFICES ASSUME NEW t \in Nat
               PROVE  Climb[t][j][WayPos(k, j)] = Result(j)
    <3>1. j - 0 = j
      BY <1>2
    <3> QED
      BY <3>1
  <2>1. PICK up : Climb[t] = ClimbLevel(t, up)
    <3>1. CASE t = 0
      BY <3>1, ClimbUnfold
    <3>2. CASE t # 0
      <4>1. t - 1 \in Nat /\ (t - 1) + 1 = t
        BY <3>2
      <4>2. Climb[(t - 1) + 1] = ClimbLevel((t - 1) + 1, Climb[t - 1])
        BY <4>1, ClimbUnfold
      <4> QED
        BY <4>1, <4>2
    <3> QED
      BY <3>1, <3>2
  <2>2. SiblingPos(WayPos(k, j), j) > last_pos /\ WayPos(k, j) \in Nat
    BY <1>1, <1>2
  <2>3. Climb[t][j][WayPos(k, j)] = [path |-> <<>>, peak |-> WayPos(k, j)]
    BY <1>2, <2>1, <2>2 DEF ClimbLevel
  <2>4. WayPath(k, j, j) = <<>>
    <3>1. 1..(j - j) = {}
      BY <1>2
    <3> QED
      BY <3>1 DEF WayPath
  <2> QED
    BY <2>3, <2>4
<1>5. ASSUME NEW d \in Nat, d \in E
      PROVE  d + 1 \in E
  <2> SUFFICES ASSUME d + 1 <= j, NEW t \in Nat, t >= d + 1
               PROVE  Climb[t][j - (d + 1)][WayPos(k, j - (d + 1))]
                        = Result(j - (d + 1))
    OBVIOUS
  <2> DEFINE i == j - (d + 1)
             u == t - 1
             up == Climb[u][i + 1][WayPos(k, i + 1)]
  <2>1. /\ i \in 0..(j - 1) /\ i \in Nat /\ i + 1 = j - d /\ i < j /\ i + 1 \in Nat
        /\ u \in Nat /\ u >= d /\ u + 1 = t /\ d <= j
    BY <1>2
  <2> HIDE DEF i, u
  <2>2. up = Result(i + 1)
    BY <1>5, <2>1
  <2>3. /\ WayPos(k, i) \in Nat /\ ~(WayPos(k, i) > last_pos)
        /\ ~(SiblingPos(WayPos(k, i), i) > last_pos)
        /\ ParentPos(WayPos(k, i), i) = WayPos(k, i + 1)
    BY <1>1, <1>3, <2>1
  <2>4. Climb[u + 1] = ClimbLevel(u + 1, Climb[u]) /\ u + 1 # 0
    BY <2>1, ClimbUnfold
  <2>5. Climb[u + 1][i][WayPos(k, i)]
          = [path |-> <<WayItem(k, i)>> \o up.path, peak |-> up.peak]
    BY <2>1, <2>3, <2>4 DEF ClimbLevel, WayItem
  <2>6. up.path = WayPath(k, i + 1, j) /\ up.peak = WayPos(k, j)
    <3> HIDE DEF up
    <3> QED
      BY <2>2
  <2>7. <<WayItem(k, i)>> \o WayPath(k, i + 1, j) = WayPath(k, i, j)
    BY <1>1, <1>2, <2>1, WayPathFront
  <2>8. Climb[t][i][WayPos(k, i)] = Result(i)
    <3> HIDE DEF up
    <3> QED
      BY <2>1, <2>5, <2>6, <2>7
  <2> QED
    BY <2>8 DEF i
<1> HIDE DEF E
<1>6. j \in E
  BY <1>2, <1>4, <1>5, NatSetInduction
<1>7. Climb[S][0][WayPos(k, 0)] = Result(0)
  <2>1. S >= j /\ j - j = 0 /\ j <= j
    BY <1>1, <1>2
  <2> QED
    BY <1>1, <1>6, <2>1 DEF E
<1>8. WayPos(k, 0) = SizeOfLeaves(k)
  <2>1. TreeSize(0) = 1
    <3>1. 0 + 1 = 1 /\ Pow2[0 + 1] = 2 * Pow2[0] /\ Pow2[0] = 1
      BY Pow2Unfold
    <3> QED
      BY <3>1 DEF TreeSize
  <2>2. Ancestor(k, 0) = k /\ SizeOfLeaves(k) \in Nat
    BY <1>1, AncestorSpec, SizeOfLeavesBounds
  <2> QED
    BY <2>1, <2>2 DEF WayPos, RootPos
<1> QED
  BY <1>1, <1>7, <1>8 DEF ClimbFrom

-----------------------------------------------------------------------------
(* The nodes on the way.  The root of a tree is stored at its position.    *)
TreeHash(a, h) == Rust!Abstract!TreeOver(Rust!Leaves)[h][a]

LEMMA NodeAt ==
  ASSUME NEW n, HasLeaves(n), Rust!NodesArePerfectTrees,
         NEW a \in Nat, NEW h \in Nat, Multiple(a, h), Inside(n, a, h)
  PROVE  pos_hash[RootPos(a, h)] = TreeHash(a, h)
<1> DEFINE k == a + Pow2[h] - 1
           p == SizeOfLeaves(k) + 1 + h
<1>1. n \in Nat /\ MmrSize = SizeOfLeaves(n) /\ LeafCount = n
  BY ReadAsRust DEF HasLeaves
<1>2. /\ k \in Nat /\ h \in 0..TrailingOnes[k]
      /\ RootPos(a, h) = SizeOfLeaves(k) + h
  BY SubtreeRoot
<1>3. k \in 0..(n - 1) /\ k + 1 - Pow2[h] = a
  BY <1>1, <1>2, Pow2Unfold DEF Inside
<1>4. RootPos(a, h) \in 0..(SizeOfLeaves(n) - 1)
  BY <1>1, RootInside
<1> HIDE DEF k
<1>5. SizeOfLeaves(n) \in Nat /\ SizeOfLeaves(k) \in Nat
  BY <1>1, <1>2, SizeOfLeavesBounds
<1>6. p \in 1..SizeOfLeaves(n) /\ p - 1 = RootPos(a, h)
  BY <1>2, <1>4, <1>5
<1>7. NodeVector[p] = pos_hash[RootPos(a, h)]
  <2> HIDE DEF p
  <2> QED
    BY <1>1, <1>6 DEF NodeVector
<1>8. NodeVector[p] = TreeHash(k + 1 - Pow2[h], h)
  BY <1>1, <1>2, <1>3, RustArithmetic DEF Rust!NodesArePerfectTrees, TreeHash
<1> QED
  BY <1>3, <1>7, <1>8

LEMMA ParentIsHash ==
  ASSUME NEW n, HasLeaves(n), Rust!NodesArePerfectTrees,
         NEW b \in Nat, NEW i \in Nat, Multiple(b, i + 1), Inside(n, b, i + 1)
  PROVE  pos_hash[RootPos(b, i + 1)]
           = Hash(pos_hash[RootPos(b, i)], pos_hash[RootPos(b + Pow2[i], i)])
<1>1. Pow2[i] \in Nat /\ Pow2[i + 1] = 2 * Pow2[i] /\ i + 1 \in Nat /\ n \in Nat
  BY Pow2Unfold DEF HasLeaves
<1>2. Multiple(b, i) /\ b + Pow2[i] \in Nat /\ Multiple(b + Pow2[i], i)
  BY Family
<1>3. Inside(n, b, i) /\ Inside(n, b + Pow2[i], i)
  BY <1>1 DEF Inside
<1>4. TreeHash(b, i + 1) = Hash(TreeHash(b, i), TreeHash(b + Pow2[i], i))
  BY RustArithmetic, MaxLeavesAssumption, Rust!TreeUnfold DEF TreeHash
<1>5. pos_hash[RootPos(b, i + 1)] = TreeHash(b, i + 1)
  BY <1>1, NodeAt
<1>6. pos_hash[RootPos(b, i)] = TreeHash(b, i)
  BY <1>2, <1>3, NodeAt
<1>7. pos_hash[RootPos(b + Pow2[i], i)] = TreeHash(b + Pow2[i], i)
  BY <1>2, <1>3, NodeAt
<1> QED
  BY <1>4, <1>5, <1>6, <1>7

(* A step up the way hashes the node with its sibling, on the side where   *)
(* the sibling is.                                                         *)
WayNode(k, i) == pos_hash[WayPos(k, i)]

LEMMA WayHash ==
  ASSUME NEW n, HasLeaves(n), Rust!NodesArePerfectTrees,
         NEW k \in 0..(n - 1), NEW j, PeakAbove(n, k, j), NEW i \in 0..(j - 1)
  PROVE  WayNode(k, i + 1)
           = IF IsRightChild(WayPos(k, i)) THEN Hash(WayItem(k, i), WayNode(k, i))
             ELSE Hash(WayNode(k, i), WayItem(k, i))
<1> DEFINE b == Ancestor(k, i + 1)
           at == WayPos(k, i)
<1>1. n \in Nat /\ i \in Nat
  BY DEF HasLeaves
<1>2. /\ Multiple(b, i + 1) /\ b \in Nat /\ Inside(n, b, i + 1)
      /\ IF IsRightChild(at)
           THEN SiblingPos(at, i) = RootPos(b, i) /\ at = RootPos(b + Pow2[i], i)
         ELSE SiblingPos(at, i) = RootPos(b + Pow2[i], i) /\ at = RootPos(b, i)
  BY <1>1, WayUp
<1>3. WayPos(k, i + 1) = RootPos(b, i + 1)
  BY DEF WayPos
<1> HIDE DEF b, at
<1>4. pos_hash[RootPos(b, i + 1)]
        = Hash(pos_hash[RootPos(b, i)], pos_hash[RootPos(b + Pow2[i], i)])
  BY <1>1, <1>2, ParentIsHash
<1>5. WayNode(k, i) = pos_hash[at] /\ WayItem(k, i) = pos_hash[SiblingPos(at, i)]
  BY DEF WayNode, WayItem, at
<1>6. WayNode(k, i + 1) = pos_hash[RootPos(b, i + 1)]
  BY <1>3 DEF WayNode
<1>7. CASE IsRightChild(at)
  BY <1>2, <1>4, <1>5, <1>6, <1>7 DEF at
<1>8. CASE ~IsRightChild(at)
  BY <1>2, <1>4, <1>5, <1>6, <1>8 DEF at
<1> QED
  BY <1>7, <1>8

-----------------------------------------------------------------------------
(* The peaks on both sides.  The peaks ascend.                             *)
SizesApart ==
  \A k, l \in Nat : SizeOfLeaves(k) = SizeOfLeaves(l) => k = l

LEMMA SizesDiffer == SizesApart
<1> SUFFICES ASSUME NEW k \in Nat, NEW l \in Nat, SizeOfLeaves(k) = SizeOfLeaves(l)
             PROVE  k = l
  BY DEF SizesApart
<1>1. SizeOfLeaves(k) \in Nat /\ SizeOfLeaves(l) \in Nat
  BY SizeOfLeavesBounds
<1>2. k < l => SizeOfLeaves(k) < SizeOfLeaves(l)
  BY SizeStrict
<1>3. l < k => SizeOfLeaves(l) < SizeOfLeaves(k)
  BY SizeStrict
<1> QED
  BY <1>1, <1>2, <1>3

Ascends(h, r, offset) ==
  LET peaks == RsPeaksFrom[h][SizeOfLeaves(r)][offset]
  IN  /\ \A x \in 1..Len(peaks) : peaks[x] > offset
      /\ \A x, y \in 1..Len(peaks) : x < y => peaks[x] < peaks[y]

LEMMA AscendsTakes ==
  ASSUME NEW h \in Nat, NEW r \in Nat, r < Pow2[h], NEW offset \in Nat,
         Ascends(h, r, offset + TreeSize(h))
  PROVE  Ascends(h + 1, r + Pow2[h], offset)
<1> DEFINE T == TreeSize(h)
           below == RsPeaksFrom[h][SizeOfLeaves(r)][offset + T]
           found == RsPeaksFrom[h + 1][SizeOfLeaves(r + Pow2[h])][offset]
           first == <<offset + T>>
<1>1. found = first \o below /\ T \in Nat
  BY LoopTakes
<1>2. T >= 1
  BY Pow2Unfold, Pow2Exceeds DEF TreeSize
<1>3. below \in Seq(Nat)
  <2>1. offset + TreeSize(h) \in Nat
    BY <1>1
  <2> QED
    BY <2>1, PeaksFound DEF FindsPeaks
<1>4. /\ \A x \in 1..Len(below) : below[x] > offset + T
      /\ \A x, y \in 1..Len(below) : x < y => below[x] < below[y]
  BY DEF Ascends
<1>5. first \in Seq(Nat) /\ Len(first) = 1 /\ first[1] = offset + T
  BY <1>1
<1> HIDE DEF T, below, found, first
<1> DEFINE both == first \o below
<1>6. /\ Len(both) = Len(first) + Len(below)
      /\ \A x \in 1..(Len(first) + Len(below)) :
           both[x] = IF x <= Len(first) THEN first[x] ELSE below[x - Len(first)]
  <2>1. first \in Seq(Nat)
    BY <1>5
  <2> QED
    BY <1>3, <2>1, ConcatProperties
<1> HIDE DEF both
<1>7. found = both /\ Len(found) = 1 + Len(below) /\ Len(below) \in Nat
  BY <1>1, <1>3, <1>5, <1>6 DEF both
<1>8. found[1] = offset + T
  <2>1. 1 \in 1..(Len(first) + Len(below)) /\ 1 <= Len(first)
    BY <1>5, <1>7
  <2> QED
    BY <1>5, <1>6, <1>7, <2>1
<1>9. \A x \in 1..Len(found) : x # 1 =>
         x - 1 \in 1..Len(below) /\ found[x] = below[x - 1]
  <2> SUFFICES ASSUME NEW x \in 1..Len(found), x # 1
               PROVE  x - 1 \in 1..Len(below) /\ found[x] = below[x - 1]
    OBVIOUS
  <2>1. /\ x - 1 \in 1..Len(below) /\ x \in 1..(Len(first) + Len(below))
        /\ ~(x <= Len(first)) /\ x - Len(first) = x - 1
    BY <1>5, <1>7
  <2>2. both[x] = below[x - 1]
    BY <1>6, <2>1
  <2> QED
    BY <1>7, <2>1, <2>2
<1>10. \A x \in 1..Len(below) : below[x] \in Nat
  BY <1>3
<1>11. \A x \in 1..Len(found) : found[x] > offset
  <2> SUFFICES ASSUME NEW x \in 1..Len(found) PROVE found[x] > offset
    OBVIOUS
  <2>1. CASE x = 1
    BY <1>1, <1>2, <1>8, <2>1
  <2>2. CASE x # 1
    <3>1. x - 1 \in 1..Len(below) /\ found[x] = below[x - 1]
      BY <1>9, <2>2
    <3>2. below[x - 1] \in Nat /\ below[x - 1] > offset + T
      BY <1>4, <1>10, <3>1
    <3> QED
      BY <1>1, <3>1, <3>2
  <2> QED
    BY <2>1, <2>2
<1>12. \A x, y \in 1..Len(found) : x < y => found[x] < found[y]
  <2> SUFFICES ASSUME NEW x \in 1..Len(found), NEW y \in 1..Len(found), x < y
               PROVE  found[x] < found[y]
    OBVIOUS
  <2>1. y - 1 \in 1..Len(below) /\ found[y] = below[y - 1]
    BY <1>7, <1>9
  <2>2. CASE x = 1
    BY <1>4, <1>8, <2>1, <2>2
  <2>3. CASE x # 1
    <3>1. x - 1 \in 1..Len(below) /\ found[x] = below[x - 1] /\ x - 1 < y - 1
      BY <1>7, <1>9, <2>3
    <3> QED
      BY <1>4, <2>1, <3>1
  <2> QED
    BY <2>2, <2>3
<1> QED
  BY <1>11, <1>12 DEF Ascends, found

LEMMA PeaksAscendFrom ==
  \A h \in Nat : \A r \in Nat : \A offset \in Nat :
    r < Pow2[h] => Ascends(h, r, offset)
<1> DEFINE E == {h \in Nat : \A r \in Nat : \A offset \in Nat :
                    r < Pow2[h] => Ascends(h, r, offset)}
<1>1. 0 \in E
  <2> SUFFICES ASSUME NEW r \in Nat, NEW offset \in Nat
               PROVE  Ascends(0, r, offset)
    OBVIOUS
  <2>1. RsPeaksFrom[0][SizeOfLeaves(r)][offset] = <<>>
    BY SizeOfLeavesBounds, RsPeaksFromUnfold
  <2> QED
    BY <2>1 DEF Ascends
<1>2. ASSUME NEW h \in Nat, h \in E
      PROVE  h + 1 \in E
  <2> SUFFICES ASSUME NEW r \in Nat, NEW offset \in Nat, r < Pow2[h + 1]
               PROVE  Ascends(h + 1, r, offset)
    OBVIOUS
  <2>1. CASE r < Pow2[h]
    <3>1. Ascends(h, r, offset)
      BY <1>2, <2>1
    <3> QED
      BY <2>1, <3>1, LoopSkips DEF Ascends
  <2>2. CASE ~(r < Pow2[h])
    <3> DEFINE s == r - Pow2[h]
    <3>1. s \in Nat /\ s < Pow2[h] /\ s + Pow2[h] = r
      BY <2>2, Pow2Unfold
    <3> HIDE DEF s
    <3>2. offset + TreeSize(h) \in Nat
      BY Pow2Unfold, Pow2Exceeds DEF TreeSize
    <3>3. Ascends(h, s, offset + TreeSize(h))
      BY <1>2, <3>1, <3>2
    <3> QED
      BY <3>1, <3>3, AscendsTakes
  <2> QED
    BY <2>1, <2>2
<1> HIDE DEF E
<1>3. \A h \in Nat : h \in E
  BY <1>1, <1>2, NatSetInduction
<1> QED
  BY <1>3 DEF E

(* The 0-based positions of the peaks of an MMR of n leaves.               *)
Poss(n) == FromZero(RsGetPeaks(SizeOfLeaves(n)))

LEMMA PossAscend ==
  ASSUME NEW n \in Nat \ {0}
  PROVE  /\ PyGetPeaks(SizeOfLeaves(n)) = Poss(n)
         /\ IsRow(Poss(n), PopCount[n]) /\ PopCount[n] \in Nat
         /\ PopCount[n] >= 1 /\ Len(Poss(n)) = PopCount[n]
         /\ \A x \in 1..PopCount[n] : Poss(n)[x] \in 0..(SizeOfLeaves(n) - 1)
         /\ \A x, y \in 1..PopCount[n] : x < y => Poss(n)[x] < Poss(n)[y]
<1> DEFINE S == SizeOfLeaves(n)
           P == RsGetPeaks(S)
           L == PopCount[n]
<1>1. P \in Seq(Nat) /\ Len(P) = L /\ L \in Nat /\ L >= 1
  <2>1. n \in Nat /\ n > 0
    OBVIOUS
  <2>2. P \in Seq(Nat) /\ Len(P) = L
    BY <2>1, GetPeaksOfLeaves
  <2>3. L \in Nat /\ L >= 1
    BY <2>1, PopCountUnfold, PopCountBounds
  <2> QED
    BY <2>2, <2>3
<1>2. S \in Nat /\ S # 0 /\ n <= S
  BY SizeOfLeavesBounds
<1>3. DOMAIN P = 1..L
  BY <1>1
<1>4. \A x \in 1..L : P[x] \in 1..S
  BY <1>3, PeakInside
<1>5. \A x, y \in 1..L : x < y => P[x] < P[y]
  <2> DEFINE b == BitLength(S)
  <2>1. P = RsPeaksFrom[b][S][0]
    BY <1>2 DEF RsGetPeaks
  <2>2. b \in Nat /\ n < Pow2[b]
    <3>1. b \in 0..S /\ S < Pow2[b]
      BY <1>2, BitLengthSpec
    <3> HIDE DEF b, S
    <3> QED
      BY <1>2, <3>1, Pow2Unfold
  <2>3. Ascends(b, n, 0)
    <3> HIDE DEF b
    <3> QED
      BY <2>2, PeaksAscendFrom
  <2> HIDE DEF b, P
  <2> QED
    BY <1>1, <2>1, <2>3 DEF Ascends
<1> HIDE DEF S, L
<1>6. Poss(n) = [x \in 1..L |-> P[x] - 1]
  BY <1>3 DEF Poss, FromZero, S
<1> HIDE DEF P
<1>7. IsRow(Poss(n), L)
  BY <1>6 DEF IsRow
<1>8. Len(Poss(n)) = L
  BY <1>1, <1>7, RowIsSequence
<1>9. \A x \in 1..L : Poss(n)[x] \in 0..(S - 1)
  BY <1>2, <1>4, <1>6
<1>10. \A x, y \in 1..L : x < y => Poss(n)[x] < Poss(n)[y]
  <2> SUFFICES ASSUME NEW x \in 1..L, NEW y \in 1..L, x < y
               PROVE  Poss(n)[x] < Poss(n)[y]
    OBVIOUS
  <2>1. P[x] \in Nat /\ P[y] \in Nat /\ P[x] < P[y]
    BY <1>4, <1>5
  <2> QED
    BY <1>6, <2>1
<1>11. PyGetPeaks(S) = Poss(n)
  BY PyPeaksOfLeaves DEF Poss, S
<1> QED
  BY <1>1, <1>7, <1>8, <1>9, <1>10, <1>11 DEF S, L

(* Two walks that begin alike and go on alike end alike.                   *)
LEMMA WalksAgree ==
  ASSUME NEW lo \in Nat, NEW N \in Nat, lo <= N, NEW f, NEW g, f[lo] = g[lo],
         \A i \in lo..(N - 1) : f[i] = g[i] => f[i + 1] = g[i + 1]
  PROVE  f[N] = g[N]
<1> DEFINE E == {d \in Nat : lo + d <= N => f[lo + d] = g[lo + d]}
<1>1. 0 \in E
  BY lo + 0 = lo
<1>2. ASSUME NEW d \in Nat, d \in E
      PROVE  d + 1 \in E
  <2> SUFFICES ASSUME lo + (d + 1) <= N
               PROVE  f[lo + (d + 1)] = g[lo + (d + 1)]
    OBVIOUS
  <2>1. lo + d \in lo..(N - 1) /\ (lo + d) + 1 = lo + (d + 1) /\ lo + d <= N
    OBVIOUS
  <2>2. f[lo + d] = g[lo + d]
    BY <1>2, <2>1
  <2> QED
    BY <2>1, <2>2
<1> HIDE DEF E
<1>3. N - lo \in E
  <2>1. N - lo \in Nat
    OBVIOUS
  <2> QED
    BY <1>1, <1>2, <2>1, NatSetInduction
<1>4. lo + (N - lo) = N /\ N <= N
  OBVIOUS
<1> QED
  BY <1>3, <1>4 DEF E

(* The members of a list behind the lo-th, up to the c-th.                 *)
Seg(s, lo, c) == [x \in 1..(c - lo) |-> s[lo + x]]

LEMMA SegIs ==
  ASSUME NEW s, NEW lo \in Nat, NEW c \in Nat, lo <= c
  PROVE  /\ IsRow(Seg(s, lo, c), c - lo) /\ Len(Seg(s, lo, c)) = c - lo
         /\ \E T : Seg(s, lo, c) \in Seq(T)
         /\ \A x \in 1..(c - lo) : Seg(s, lo, c)[x] = s[lo + x]
<1>1. c - lo \in Nat
  OBVIOUS
<1>2. IsRow(Seg(s, lo, c), c - lo)
  BY DEF IsRow, Seg
<1>3. /\ \E T : Seg(s, lo, c) \in Seq(T)
      /\ Len(Seg(s, lo, c)) = c - lo
  BY <1>1, <1>2, RowIsSequence
<1> QED
  BY <1>2, <1>3 DEF Seg

LEMMA SegGrows ==
  ASSUME NEW s, NEW lo \in Nat, NEW c \in Nat, lo <= c
  PROVE  Append(Seg(s, lo, c), s[c + 1]) = Seg(s, lo, c + 1)
<1> DEFINE T == {s[x] : x \in Int}
           old == Seg(s, lo, c)
           new == Seg(s, lo, c + 1)
           m == c - lo
<1>1. m \in Nat /\ (c + 1) - lo = m + 1 /\ lo + (m + 1) = c + 1
  OBVIOUS
<1>2. old \in Seq(T) /\ Len(old) = m
  <2>1. \A x \in 1..m : s[lo + x] \in T
    OBVIOUS
  <2> HIDE DEF T, m
  <2> QED
    BY <1>1, <2>1 DEF Seg, m
<1>3. new \in Seq(T) /\ Len(new) = m + 1
  <2>1. \A x \in 1..(m + 1) : s[lo + x] \in T
    OBVIOUS
  <2>2. new = [x \in 1..(m + 1) |-> s[lo + x]]
    BY <1>1 DEF Seg
  <2>3. m + 1 \in Nat
    BY <1>1
  <2> HIDE DEF T, m, new
  <2> QED
    BY <2>1, <2>2, <2>3
<1>4. s[c + 1] \in T
  OBVIOUS
<1> HIDE DEF T
<1>5. ASSUME NEW x \in 1..(m + 1)
      PROVE  new[x] = Append(old, s[c + 1])[x]
  <2>1. new[x] = s[lo + x]
    BY <1>1 DEF Seg
  <2>2. CASE x = m + 1
    <3>1. Append(old, s[c + 1])[x] = s[c + 1]
      <4> HIDE DEF old, m
      <4> QED
        BY <1>2, <1>4, <2>2
    <3> QED
      BY <1>1, <2>1, <2>2, <3>1
  <2>3. CASE x # m + 1
    <3>1. x \in 1..m
      BY <1>1, <2>3
    <3>2. old[x] = s[lo + x]
      BY <3>1 DEF Seg
    <3>3. Append(old, s[c + 1])[x] = old[x]
      <4> HIDE DEF old, m
      <4> QED
        BY <1>2, <1>4, <3>1
    <3> QED
      BY <2>1, <3>2, <3>3
  <2> QED
    BY <2>2, <2>3
<1> HIDE DEF old, new, m
<1>6. Append(old, s[c + 1]) \in Seq(T) /\ Len(Append(old, s[c + 1])) = m + 1
  BY <1>2, <1>4
<1>7. new = Append(old, s[c + 1])
  BY <1>1, <1>3, <1>5, <1>6
<1> QED
  BY <1>7 DEF old, new

(* When those wanted are next to each other, they are the segment.         *)
LEMMA PeaksAmongIs ==
  ASSUME NEW poss, NEW N \in Nat, Len(poss) = N, NEW wanted,
         NEW lo \in Nat, NEW hi \in Nat, lo <= hi, hi <= N,
         \A i \in 1..N : poss[i] \in wanted <=> lo < i /\ i <= hi
  PROVE  PeaksAmong(poss, wanted) = Seg(poss, lo, hi)
<1> DEFINE Clip(i) == IF i <= lo THEN lo ELSE IF i <= hi THEN i ELSE hi
           Keep(i, before) ==
             IF i = 0 THEN <<>>
             ELSE IF poss[i] \in wanted THEN Append(before, poss[i]) ELSE before
           Is(f) == f = [i \in 0..N |-> Keep(i, f[i - 1])]
           g == [i \in 0..N |-> Seg(poss, lo, Clip(i))]
           kept == CHOOSE f : Is(f)
<1>1. PeaksAmong(poss, wanted) = kept[N]
  BY DEF PeaksAmong
<1>2. Seg(poss, lo, lo) = <<>>
  <2>1. 1..(lo - lo) = {}
    OBVIOUS
  <2> QED
    BY <2>1 DEF Seg
<1>3. ASSUME NEW i \in 0..N
      PROVE  g[i] = Keep(i, g[i - 1])
  <2>1. CASE i = 0
    BY <1>2, <2>1
  <2>2. CASE i # 0
    <3>1. i \in 1..N /\ i - 1 \in 0..N /\ i \in Nat
      BY <2>2
    <3>2. g[i - 1] = Seg(poss, lo, Clip(i - 1)) /\ g[i] = Seg(poss, lo, Clip(i))
      BY <3>1
    <3> HIDE DEF g
    <3>3. CASE i <= lo
      <4>1. Clip(i) = lo /\ Clip(i - 1) = lo /\ poss[i] \notin wanted
        BY <3>1, <3>3
      <4> QED
        BY <2>2, <3>2, <4>1
    <3>4. CASE lo < i /\ i <= hi
      <4>1. Clip(i) = i /\ Clip(i - 1) = i - 1 /\ poss[i] \in wanted
        BY <3>1, <3>4
      <4>2. i - 1 \in Nat /\ lo <= i - 1 /\ (i - 1) + 1 = i
        BY <3>1, <3>4
      <4>3. Append(Seg(poss, lo, i - 1), poss[(i - 1) + 1]) = Seg(poss, lo, (i - 1) + 1)
        BY <4>2, SegGrows
      <4> QED
        BY <2>2, <3>2, <4>1, <4>2, <4>3
    <3>5. CASE hi < i
      <4>1. Clip(i) = hi /\ Clip(i - 1) = hi /\ poss[i] \notin wanted
        BY <3>1, <3>5
      <4> QED
        BY <2>2, <3>2, <4>1
    <3> QED
      BY <3>1, <3>3, <3>4, <3>5
  <2> QED
    BY <2>1, <2>2
<1>4. Is(g)
  <2>1. g = [i \in 0..N |-> g[i]]
    OBVIOUS
  <2> HIDE DEF g, Keep
  <2> QED
    BY <1>3, <2>1
<1> HIDE DEF g
<1>5. Is(kept)
  <2> HIDE DEF Is
  <2> QED
    BY <1>4
<1> HIDE DEF kept
<1>6. \A i \in 0..N : kept[i] = Keep(i, kept[i - 1])
  <2> HIDE DEF Keep
  <2> QED
    BY <1>5
<1>7. kept[0] = g[0]
  BY <1>3, <1>6
<1>8. \A i \in 0..(N - 1) : kept[i] = g[i] => kept[i + 1] = g[i + 1]
  <2> TAKE i \in 0..(N - 1)
  <2>1. i + 1 \in 0..N /\ (i + 1) - 1 = i
    OBVIOUS
  <2>2. kept[i + 1] = Keep(i + 1, kept[(i + 1) - 1])
    BY <1>6, <2>1
  <2>3. g[i + 1] = Keep(i + 1, g[(i + 1) - 1])
    BY <1>3, <2>1
  <2> HIDE DEF Keep
  <2> QED
    BY <2>1, <2>2, <2>3
<1>9. kept[N] = g[N]
  <2>1. 0 \in Nat /\ 0 <= N
    OBVIOUS
  <2> QED
    BY <1>7, <1>8, <2>1, WalksAgree
<1>10. g[N] = Seg(poss, lo, hi)
  <2>1. N \in 0..N /\ Clip(N) = hi
    OBVIOUS
  <2> HIDE DEF Clip
  <2> QED
    BY <2>1 DEF g
<1> QED
  BY <1>1, <1>9, <1>10

-----------------------------------------------------------------------------
(* What gen_proof finds on both sides of the m-th peak.                    *)
Lefts(n, m) == [x \in 1..(m - 1) |-> PeakNodes(n)[m - x]]

LEMMA PeakNodesAre ==
  ASSUME NEW n \in Nat \ {0}
  PROVE  /\ PeaksValues(Poss(n)) = PeakNodes(n)
         /\ IsRow(PeakNodes(n), PopCount[n]) /\ Len(PeakNodes(n)) = PopCount[n]
         /\ \A x \in 1..PopCount[n] : PeakNodes(n)[x] = pos_hash[Poss(n)[x]]
<1> DEFINE P == RsGetPeaks(SizeOfLeaves(n))
           L == PopCount[n]
<1>1. n \in Nat
  OBVIOUS
<1>2. P \in Seq(Nat) /\ Len(P) = L
  BY <1>1, GetPeaksOfLeaves
<1>3. L \in Nat
  BY <1>1, PopCountUnfold
<1>4. DOMAIN P = 1..L
  BY <1>2
<1> HIDE DEF P, L
<1>5. Poss(n) = [x \in 1..L |-> P[x] - 1]
  BY <1>4 DEF Poss, FromZero, P
<1>6. PeakNodes(n) = [x \in 1..L |-> pos_hash[P[x] - 1]]
  BY <1>4 DEF PeakNodes, P
<1>7. PeaksValues(Poss(n)) = PeakNodes(n)
  BY <1>5, <1>6 DEF PeaksValues
<1>8. IsRow(PeakNodes(n), L)
  BY <1>6 DEF IsRow
<1>9. Len(PeakNodes(n)) = L
  BY <1>3, <1>8, RowIsSequence
<1> QED
  BY <1>5, <1>6, <1>7, <1>8, <1>9 DEF L

LEMMA SidesOfPeak ==
  ASSUME NEW n \in Nat \ {0}, HasLeaves(n), NEW m \in 1..PopCount[n]
  PROVE  /\ RhsPeaks(Poss(n)[m], Poss(n)) = Seg(PeakNodes(n), m, PopCount[n])
         /\ Reverse(LhsPeaks(Poss(n)[m], Poss(n))) = Lefts(n, m)
<1> DEFINE L == PopCount[n]
           P == Poss(n)
           V == PeakNodes(n)
           S == SizeOfLeaves(n)
<1>1. /\ L \in Nat /\ Len(P) = L /\ IsRow(P, L)
      /\ \A x \in 1..L : P[x] \in 0..(S - 1)
      /\ \A x, y \in 1..L : x < y => P[x] < P[y]
  BY PossAscend
<1>2. /\ IsRow(V, L) /\ \A x \in 1..L : V[x] = pos_hash[P[x]]
  BY PeakNodesAre
<1>3. S \in Nat /\ last_pos = S - 1
  BY SizeOfLeavesBounds DEF HasLeaves, MmrSize
<1> HIDE DEF P, V, S, L
<1>4. m \in 1..L /\ m \in Nat /\ m - 1 \in Nat
  BY <1>1 DEF L
<1>5. ASSUME NEW lo \in Nat, NEW hi \in Nat, lo <= hi, hi <= L
      PROVE  PeaksValues(Seg(P, lo, hi)) = Seg(V, lo, hi)
  <2>1. \A x \in 1..(hi - lo) : lo + x \in 1..L
    BY <1>1, <1>5
  <2>2. \A x \in 1..(hi - lo) : pos_hash[P[lo + x]] = V[lo + x]
    BY <1>2, <2>1
  <2> QED
    BY <2>2 DEF PeaksValues, Seg
<1>6. PeaksAmong(P, (P[m] + 1)..last_pos) = Seg(P, m, L)
  <2>1. ASSUME NEW i \in 1..L
        PROVE  P[i] \in (P[m] + 1)..last_pos <=> m < i /\ i <= L
    <3>1. P[i] \in 0..(S - 1) /\ P[m] \in 0..(S - 1)
      BY <1>1, <1>4
    <3>2. (m < i => P[m] < P[i]) /\ (i < m => P[i] < P[m])
      BY <1>1, <1>4
    <3>3. i \in Nat /\ i <= L
      BY <1>1
    <3>4. CASE m < i
      BY <1>3, <3>1, <3>2, <3>3, <3>4
    <3>5. CASE i < m
      BY <1>3, <3>1, <3>2, <3>3, <3>5
    <3>6. CASE i = m
      BY <1>3, <3>1, <3>6
    <3> QED
      BY <1>4, <3>3, <3>4, <3>5, <3>6
  <2>2. L \in Nat /\ Len(P) = L
    BY <1>1
  <2>3. m \in Nat /\ m <= L /\ L <= L
    BY <1>1, <1>4
  <2> DEFINE wanted == (P[m] + 1)..last_pos
  <2>4. \A i \in 1..L : P[i] \in wanted <=> m < i /\ i <= L
    BY <2>1
  <2> HIDE DEF wanted
  <2>5. PeaksAmong(P, wanted) = Seg(P, m, L)
    BY <2>2, <2>3, <2>4, PeaksAmongIs
  <2> QED
    BY <2>5 DEF wanted
<1>7. PeaksAmong(P, 0..(P[m] - 1)) = Seg(P, 0, m - 1)
  <2>1. ASSUME NEW i \in 1..L
        PROVE  P[i] \in 0..(P[m] - 1) <=> 0 < i /\ i <= m - 1
    <3>1. P[i] \in 0..(S - 1) /\ P[m] \in 0..(S - 1)
      BY <1>1, <1>4
    <3>2. (m < i => P[m] < P[i]) /\ (i < m => P[i] < P[m])
      BY <1>1, <1>4
    <3>3. i \in Nat /\ i > 0
      BY <1>1
    <3>4. CASE m < i
      BY <1>3, <1>4, <3>1, <3>2, <3>3, <3>4
    <3>5. CASE i < m
      BY <1>3, <1>4, <3>1, <3>2, <3>3, <3>5
    <3>6. CASE i = m
      BY <1>3, <1>4, <3>1, <3>6
    <3> QED
      BY <1>4, <3>3, <3>4, <3>5, <3>6
  <2>2. L \in Nat /\ Len(P) = L
    BY <1>1
  <2>3. 0 \in Nat /\ m - 1 \in Nat /\ 0 <= m - 1 /\ m - 1 <= L
    BY <1>1, <1>4
  <2> DEFINE wanted == 0..(P[m] - 1)
  <2>4. \A i \in 1..L : P[i] \in wanted <=> 0 < i /\ i <= m - 1
    BY <2>1
  <2> HIDE DEF wanted
  <2>5. PeaksAmong(P, wanted) = Seg(P, 0, m - 1)
    BY <2>2, <2>3, <2>4, PeaksAmongIs
  <2> QED
    BY <2>5 DEF wanted
<1>8. RhsPeaks(P[m], P) = Seg(V, m, L)
  <2>1. m <= L /\ L <= L
    BY <1>1, <1>4
  <2> QED
    BY <1>1, <1>4, <1>5, <1>6, <2>1 DEF RhsPeaks
<1>9. LhsPeaks(P[m], P) = Seg(V, 0, m - 1)
  <2>1. 0 \in Nat /\ 0 <= m - 1 /\ m - 1 <= L
    BY <1>1, <1>4
  <2> QED
    BY <1>4, <1>5, <1>7, <2>1 DEF LhsPeaks
<1>10. Reverse(Seg(V, 0, m - 1)) = [x \in 1..(m - 1) |-> V[m - x]]
  <2> DEFINE s == Seg(V, 0, m - 1)
  <2>1. Len(s) = m - 1 /\ \A x \in 1..(m - 1) : s[x] = V[0 + x]
    <3> DEFINE c == m - 1
    <3>1. 0 \in Nat /\ c \in Nat /\ 0 <= c /\ c - 0 = c
      BY <1>4
    <3> HIDE DEF c
    <3>2. /\ Len(Seg(V, 0, c)) = c - 0
          /\ \A x \in 1..(c - 0) : Seg(V, 0, c)[x] = V[0 + x]
      BY <3>1, SegIs
    <3> QED
      BY <3>1, <3>2 DEF c
  <2> HIDE DEF s
  <2>2. ASSUME NEW x \in 1..(m - 1)
        PROVE  s[(Len(s) - x) + 1] = V[m - x]
    <3>1. m - x \in 1..(m - 1) /\ (Len(s) - x) + 1 = m - x /\ 0 + (m - x) = m - x
      BY <1>4, <2>1
    <3> QED
      BY <2>1, <3>1
  <2>3. Reverse(s) = [x \in 1..Len(s) |-> s[(Len(s) - x) + 1]]
    BY DEF Reverse
  <2>4. Reverse(s) = [x \in 1..(m - 1) |-> V[m - x]]
    BY <2>1, <2>2, <2>3
  <2> QED
    BY <2>4 DEF s
<1> QED
  BY <1>8, <1>9, <1>10 DEF Lefts, P, V, L

(* bag_peaks from the right: bag[i] is the hash of the last i of N peaks.  *)
Bags(bag, peaks, N) ==
  /\ bag[1] = peaks[N]
  /\ \A i \in 1..(N - 1) : bag[i + 1] = Hash(peaks[N - i], bag[i])

LEMMA BagIs ==
  ASSUME NEW peaks, NEW N \in Nat \ {0}, Len(peaks) = N
  PROVE  \E bag : Bags(bag, peaks, N) /\ BagPeaks(peaks) = bag[N]
<1>1. PICK bag : /\ Rust!IsChain(bag, Rust!Last(peaks), Rust!FromRight(peaks), Len(peaks))
                 /\ Rust!BagPeaks(peaks) = bag[Len(peaks)]
  <2>1. Len(peaks) \in Nat
    OBVIOUS
  <2> QED
    BY <2>1, MaxLeavesAssumption, Rust!BagPeaksUnfold
<1>2. BagPeaks(peaks) = bag[N]
  BY <1>1, BagIsRustBag
<1> DEFINE left == [i \in 1..N |-> peaks[N - i + 1]]
<1>3. bag = [i \in 1..N |-> IF i = 1 THEN peaks[N] ELSE Hash(left[i], bag[i - 1])]
  BY <1>1 DEF Rust!IsChain, Rust!FromRight, Rust!Last
<1>4. bag[1] = peaks[N]
  <2>1. 1 \in 1..N
    OBVIOUS
  <2> QED
    BY <1>3, <2>1
<1>5. ASSUME NEW i \in 1..(N - 1)
      PROVE  bag[i + 1] = Hash(peaks[N - i], bag[i])
  <2>1. i + 1 \in 1..N /\ i + 1 # 1 /\ (i + 1) - 1 = i /\ N - (i + 1) + 1 = N - i
    OBVIOUS
  <2>2. left[i + 1] = peaks[N - i]
    BY <2>1
  <2> HIDE DEF left
  <2> QED
    BY <1>3, <2>1, <2>2
<1> QED
  BY <1>2, <1>4, <1>5 DEF Bags

(* The peaks behind the m-th bag to what the last L - m of all bag to.     *)
LEMMA BagOfRest ==
  ASSUME NEW V, NEW L \in Nat, NEW m \in Nat, m < L, NEW bag, Bags(bag, V, L)
  PROVE  BagPeaks(Seg(V, m, L)) = bag[L - m]
<1> DEFINE N == L - m
           s == Seg(V, m, L)
<1>1. N \in Nat \ {0} /\ m + N = L
  OBVIOUS
<1>2. Len(s) = N /\ \A x \in 1..N : s[x] = V[m + x]
  <2>1. m <= L
    OBVIOUS
  <2> QED
    BY <2>1, SegIs
<1> HIDE DEF N, s
<1>3. PICK rest : Bags(rest, s, N) /\ BagPeaks(s) = rest[N]
  BY <1>1, <1>2, BagIs
<1>4. rest[1] = bag[1]
  <2>1. N \in 1..N
    BY <1>1
  <2> QED
    BY <1>1, <1>2, <1>3, <2>1 DEF Bags
<1>5. \A i \in 1..(N - 1) : rest[i] = bag[i] => rest[i + 1] = bag[i + 1]
  <2> TAKE i \in 1..(N - 1)
  <2>1. i \in 1..(L - 1) /\ N - i \in 1..N /\ m + (N - i) = L - i
    BY <1>1
  <2>2. rest[i + 1] = Hash(s[N - i], rest[i])
    BY <1>3 DEF Bags
  <2>3. bag[i + 1] = Hash(V[L - i], bag[i])
    BY <2>1 DEF Bags
  <2>4. s[N - i] = V[L - i]
    BY <1>2, <2>1
  <2> QED
    BY <2>2, <2>3, <2>4
<1>6. rest[N] = bag[N]
  <2>1. 1 \in Nat /\ N \in Nat /\ 1 <= N
    BY <1>1
  <2> QED
    BY <1>4, <1>5, <2>1, WalksAgree
<1> QED
  BY <1>3, <1>6 DEF N, s

-----------------------------------------------------------------------------
(* Where the way meets the peaks.                                          *)
PeakIndex(k, j) == PopCount[Ancestor(k, j)] + 1

LEMMA PeakFound ==
  ASSUME NEW n \in Nat \ {0}, NEW k \in 0..(n - 1), NEW j, PeakAbove(n, k, j)
  PROVE  /\ PeakIndex(k, j) \in 1..PopCount[n]
         /\ Poss(n)[PeakIndex(k, j)] = WayPos(k, j)
<1> DEFINE a == Ancestor(k, j)
           P == RsGetPeaks(SizeOfLeaves(n))
           m == PeakIndex(k, j)
<1>1. n \in Nat /\ k \in Nat /\ j \in Nat /\ Block(n, a, j)
  BY DEF PeakAbove
<1>2. a \in Nat
  BY <1>1, AncestorSpec DEF IsAncestor
<1>3. m \in DOMAIN P /\ P[m] = SizeOfLeaves(a + Pow2[j])
  BY <1>1, <1>2, PeaksOfBlocks DEF PeakIndex
<1>4. DOMAIN P = 1..PopCount[n]
  <2>1. P \in Seq(Nat) /\ Len(P) = PopCount[n]
    BY <1>1, GetPeaksOfLeaves
  <2> HIDE DEF P
  <2> QED
    BY <2>1
<1>5. WayPos(k, j) + 1 = SizeOfLeaves(a + Pow2[j]) /\ WayPos(k, j) \in Int
  <2>1. WayPos(k, j) \in 0..(SizeOfLeaves(n) - 1)
    BY <1>1, WayEnds
  <2> QED
    BY <1>1, <2>1, WayEnds
<1> HIDE DEF P, m, a
<1>6. Poss(n)[m] = P[m] - 1
  BY <1>3 DEF Poss, FromZero, P
<1> QED
  BY <1>3, <1>4, <1>5, <1>6 DEF m

LEMMA WayBelowPeak ==
  ASSUME NEW n \in Nat \ {0}, NEW k \in 0..(n - 1), NEW j, PeakAbove(n, k, j),
         NEW i \in 0..(j - 1)
  PROVE  WayPos(k, i) \notin Range(Poss(n))
<1> DEFINE P == RsGetPeaks(SizeOfLeaves(n))
           b == Ancestor(k, i)
<1>1. n \in Nat /\ k \in Nat /\ i \in Nat
  OBVIOUS
<1>2. b \in Nat /\ ~Block(n, b, i) /\ TreePosHeight(RootPos(b, i)) = i
  BY <1>1, AncestorSpec, WayUp DEF IsAncestor, WayPos
<1>3. WayPos(k, i) = RootPos(b, i)
  BY DEF WayPos
<1> HIDE DEF b
<1> SUFFICES ASSUME NEW x \in DOMAIN Poss(n), Poss(n)[x] = RootPos(b, i)
             PROVE  FALSE
  BY <1>3 DEF Range
<1>4. x \in DOMAIN P /\ Poss(n)[x] = P[x] - 1
  BY DEF Poss, FromZero
<1>5. PICK a \in Nat, h \in Nat : Block(n, a, h) /\ PopCount[a] + 1 = x
  BY <1>1, <1>4, PeaksOfBlocks
<1>6. P[x] = SizeOfLeaves(a + Pow2[h])
  BY <1>1, <1>5, PeaksOfBlocks
<1>7. Multiple(a, h + 1)
  BY <1>5 DEF Block
<1>8. Multiple(a, h)
  BY <1>7, Family
<1>9. SizeOfLeaves(a + Pow2[h]) = SizeOfLeaves(a) + TreeSize(h)
  <2>1. PICK q \in Nat : a = q * Pow2[h + 1]
    BY <1>7 DEF Multiple
  <2> QED
    BY <2>1, SizeOfLeavesLowTree
<1>10. SizeOfLeaves(a) \in Nat /\ SizeOfLeaves(b) \in Nat /\ TreeSize(h) \in Nat
  <2>1. SizeOfLeaves(a) \in Nat /\ SizeOfLeaves(b) \in Nat
    BY <1>2, SizeOfLeavesBounds
  <2>2. TreeSize(h) \in Nat
    BY Pow2Unfold, Pow2Exceeds DEF TreeSize
  <2> QED
    BY <2>1, <2>2
<1> DEFINE root == RootPos(b, i)
<1> HIDE DEF P, root
<1>11. RootPos(a, h) = root
  <2>1. Poss(n)[x] = root
    BY DEF root
  <2> QED
    <3>1. P[x] = SizeOfLeaves(a) + TreeSize(h)
      BY <1>6, <1>9
    <3>2. P[x] - 1 = root
      BY <1>4, <2>1
    <3>3. RootPos(a, h) = (SizeOfLeaves(a) + TreeSize(h)) - 1
      BY <1>10 DEF RootPos
    <3> QED
      BY <3>1, <3>2, <3>3
<1>12. TreePosHeight(RootPos(a, h)) = h
  BY <1>8, SubtreeRoot
<1>13. h = i
  BY <1>2, <1>11, <1>12 DEF root
<1>14. SizeOfLeaves(a) = SizeOfLeaves(b)
  <2>1. SizeOfLeaves(a) + TreeSize(h) - 1 = SizeOfLeaves(b) + TreeSize(h) - 1
    BY <1>11, <1>13 DEF RootPos, root
  <2> QED
    BY <1>10, <2>1
<1>15. a = b
  BY <1>2, <1>14, SizesDiffer DEF SizesApart
<1> QED
  BY <1>2, <1>5, <1>13, <1>15

-----------------------------------------------------------------------------
(* What gen_proof returns for leaf k: the siblings on its way, the bag of  *)
(* the peaks behind, the peaks before from right to left.                  *)
Behind(n, k, j) == IF PeakIndex(k, j) < PopCount[n] THEN 1 ELSE 0

ProofIs(q, n, k, j, bag) ==
  LET m == PeakIndex(k, j)
      e == Behind(n, k, j)
  IN  /\ Len(q) = j + e + (m - 1)
      /\ \A i \in 1..j : q[i] = WayItem(k, i - 1)
      /\ e = 1 => q[j + 1] = bag[PopCount[n] - m]
      /\ \A r \in 1..(m - 1) : q[j + e + r] = PeakNodes(n)[m - r]

LEMMA ProofOfLeaf ==
  ASSUME NEW n \in Nat \ {0}, HasLeaves(n), NEW k \in 0..(n - 1),
         NEW j, PeakAbove(n, k, j), NEW bag, Bags(bag, PeakNodes(n), PopCount[n])
  PROVE  /\ GenProof(SizeOfLeaves(k)).mmr_size = SizeOfLeaves(n)
         /\ ProofIs(GenProof(SizeOfLeaves(k)).proof, n, k, j, bag)
<1> DEFINE L == PopCount[n]
           m == PeakIndex(k, j)
           e == Behind(n, k, j)
           V == PeakNodes(n)
           S == SizeOfLeaves(n)
           path == WayPath(k, 0, j)
           rhs == BaggedRhs(Poss(n)[m], Poss(n))
           lefts == Lefts(n, m)
           tail == rhs \o lefts
           q == GenProof(SizeOfLeaves(k)).proof
<1>1. /\ L \in Nat /\ PyGetPeaks(S) = Poss(n) /\ MmrSize = S
  BY PossAscend DEF HasLeaves
<1>2. m \in 1..L /\ Poss(n)[m] = WayPos(k, j)
  BY PeakFound
<1>3. /\ j \in Nat
      /\ ClimbFrom(SizeOfLeaves(k)) = [path |-> path, peak |-> WayPos(k, j)]
  <2>1. ClimbFrom(SizeOfLeaves(k)) = [path |-> path, peak |-> WayPos(k, j)]
    BY ClimbReaches
  <2>2. j \in Nat
    BY DEF PeakAbove
  <2> QED
    BY <2>1, <2>2
<1>4. /\ RhsPeaks(Poss(n)[m], Poss(n)) = Seg(V, m, L)
      /\ Reverse(LhsPeaks(Poss(n)[m], Poss(n))) = lefts
  BY <1>2, SidesOfPeak
<1>5. GenProof(SizeOfLeaves(k)).mmr_size = S /\ q = path \o tail
  <2>1. GenProof(SizeOfLeaves(k))
          = [mmr_size |-> S, proof |-> path \o PeaksProof(WayPos(k, j), Poss(n))]
    <3> DEFINE climb == ClimbFrom(SizeOfLeaves(k))
    <3>1. climb.path = path /\ climb.peak = WayPos(k, j)
      <4> HIDE DEF path
      <4> QED
        BY <1>3
    <3> HIDE DEF climb, path, S
    <3> QED
      BY <1>1, <3>1 DEF GenProof, climb
  <2>2. PeaksProof(WayPos(k, j), Poss(n)) = tail
    BY <1>2, <1>4 DEF PeaksProof
  <2> HIDE DEF path, tail, S
  <2> QED
    BY <2>1, <2>2
<1>6. m \in Nat /\ m - 1 \in Nat /\ m <= L /\ e \in {0, 1} /\ (e = 1 <=> m < L)
  BY <1>1, <1>2 DEF Behind
<1>7. /\ \E T : rhs \in Seq(T)
      /\ Len(rhs) = e /\ (e = 1 => rhs[1] = bag[L - m])
  <2>1. CASE m < L
    <3>1. Len(Seg(V, m, L)) = L - m
      BY <1>1, <1>6, SegIs
    <3>2. Seg(V, m, L) # <<>>
      BY <1>1, <1>6, <2>1, <3>1
    <3>3. BagPeaks(Seg(V, m, L)) = bag[L - m]
      BY <1>1, <1>6, <2>1, BagOfRest
    <3>4. rhs = <<bag[L - m]>>
      <4> HIDE DEF L, V, m
      <4> QED
        BY <1>4, <3>2, <3>3 DEF BaggedRhs
    <3> DEFINE item == bag[L - m]
    <3> HIDE DEF item, rhs
    <3>5. rhs = <<item>>
      BY <3>4 DEF item
    <3>6. rhs \in Seq({item}) /\ Len(rhs) = 1 /\ rhs[1] = item
      BY <3>5
    <3> QED
      BY <1>6, <2>1, <3>6 DEF item
  <2>2. CASE ~(m < L)
    <3>1. 1..(L - m) = {}
      BY <1>1, <1>6, <2>2
    <3>2. Seg(V, m, L) = <<>>
      BY <3>1 DEF Seg
    <3>3. rhs = <<>>
      <4> HIDE DEF L, V, m
      <4> QED
        BY <1>4, <3>2 DEF BaggedRhs
    <3> HIDE DEF rhs
    <3>4. rhs \in Seq({}) /\ Len(rhs) = 0
      BY <3>3
    <3> QED
      BY <1>6, <2>2, <3>4
  <2> QED
    BY <2>1, <2>2
<1>8. PICK T : rhs \in Seq(T)
  BY <1>7
<1>9. IsRow(lefts, m - 1) /\ \A r \in 1..(m - 1) : lefts[r] = V[m - r]
  BY DEF IsRow, Lefts
<1>10. IsRow(path, j) /\ \A i \in 1..j : path[i] = WayItem(k, i - 1)
  <2>1. j - 0 = j /\ \A i \in 1..j : 0 + i - 1 = i - 1
    BY <1>3
  <2>2. path = [i \in 1..j |-> WayItem(k, 0 + i - 1)]
    BY <2>1 DEF WayPath
  <2> HIDE DEF path
  <2>3. IsRow(path, j)
    BY <2>2 DEF IsRow
  <2> QED
    BY <2>1, <2>2, <2>3
<1>11. PICK U : path \in Seq(U)
  BY <1>3, <1>10, RowIsSequence
<1>12. Len(path) = j
  BY <1>3, <1>10, RowIsSequence
<1> HIDE DEF path, rhs, lefts, q, L, m, e, V, S
<1>13. /\ \E W : tail \in Seq(W)
       /\ Len(tail) = Len(rhs) + (m - 1)
       /\ \A x \in 1..Len(rhs) : tail[x] = rhs[x]
       /\ \A x \in 1..(m - 1) : tail[Len(rhs) + x] = lefts[x]
  <2>1. m - 1 \in Nat /\ IsRow(lefts, m - 1)
    BY <1>6, <1>9
  <2> DEFINE c == m - 1
  <2> HIDE DEF c
  <2>2. c \in Nat /\ IsRow(lefts, c)
    BY <2>1 DEF c
  <2>3. /\ \E W : tail \in Seq(W)
        /\ Len(tail) = Len(rhs) + c
        /\ \A x \in 1..Len(rhs) : tail[x] = rhs[x]
        /\ \A x \in 1..c : tail[Len(rhs) + x] = lefts[x]
    BY <1>8, <2>2, Extend
  <2> QED
    BY <2>3 DEF c
<1> HIDE DEF tail
<1> DEFINE t == e + (m - 1)
<1>14. t \in Nat /\ Len(tail) = t /\ IsRow(tail, t)
  <2>1. t \in Nat /\ Len(tail) = t
    BY <1>6, <1>7, <1>13
  <2>2. PICK W : tail \in Seq(W)
    BY <1>13
  <2> HIDE DEF t
  <2>3. tail = [x \in 1..t |-> tail[x]]
    BY <2>1, <2>2
  <2> QED
    BY <2>1, <2>3 DEF IsRow
<1>15. /\ Len(q) = Len(path) + t
       /\ \A x \in 1..Len(path) : q[x] = path[x]
       /\ \A x \in 1..t : q[Len(path) + x] = tail[x]
  <2> DEFINE both == path \o tail
  <2> HIDE DEF t, both
  <2>1. t \in Nat /\ IsRow(tail, t)
    BY <1>14
  <2>2. /\ Len(both) = Len(path) + t
        /\ \A x \in 1..Len(path) : both[x] = path[x]
        /\ \A x \in 1..t : both[Len(path) + x] = tail[x]
    BY <1>11, <2>1, Extend DEF both
  <2> QED
    BY <1>5, <2>2 DEF both
<1>16. Len(q) = j + e + (m - 1)
  BY <1>3, <1>6, <1>12, <1>15
<1>17. \A i \in 1..j : q[i] = WayItem(k, i - 1)
  BY <1>10, <1>12, <1>15
<1>18. e = 1 => q[j + 1] = bag[L - m]
  <2> SUFFICES ASSUME e = 1 PROVE q[j + 1] = bag[L - m]
    OBVIOUS
  <2>1. 1 \in 1..t /\ 1 \in 1..Len(rhs)
    BY <1>6, <1>7
  <2>2. q[Len(path) + 1] = tail[1] /\ tail[1] = rhs[1]
    BY <1>13, <1>15, <2>1
  <2> QED
    BY <1>7, <1>12, <2>2
<1>19. \A r \in 1..(m - 1) : q[j + e + r] = V[m - r]
  <2> SUFFICES ASSUME NEW r \in 1..(m - 1) PROVE q[j + e + r] = V[m - r]
    OBVIOUS
  <2>1. e + r \in 1..t /\ j + (e + r) = j + e + r
    BY <1>3, <1>6
  <2>2. q[Len(path) + (e + r)] = tail[e + r]
    BY <1>15, <2>1
  <2>3. tail[e + r] = lefts[r]
    BY <1>7, <1>13
  <2> QED
    BY <1>9, <1>12, <2>1, <2>2, <2>3
<1> QED
  BY <1>5, <1>16, <1>17, <1>18, <1>19 DEF ProofIs, L, m, e, V, S, q

-----------------------------------------------------------------------------
(* verify walks: a list of states in which each follows from the one       *)
(* before by an item of the proof is its walk.                             *)
At(pos, height, hash) == [pos |-> pos, height |-> height, hash |-> hash]

VerifyWalks(g, proof, pos, elem) ==
  /\ Len(proof.proof) \in Nat
  /\ g[0] = At(pos, 0, elem)
  /\ \A i \in 0..(Len(proof.proof) - 1) :
       g[i + 1] = VerifyItem(PyGetPeaks(proof.mmr_size), g[i],
                             proof.proof[i + 1])

LEMMA VerifyWalk ==
  ASSUME NEW g, NEW proof, NEW root, NEW pos, NEW elem,
         VerifyWalks(g, proof, pos, elem)
  PROVE  Verify(proof, root, pos, elem)
           <=> Hash(proof.mmr_size, g[Len(proof.proof)].hash) = root
<1> DEFINE N == Len(proof.proof)
           poss == PyGetPeaks(proof.mmr_size)
           items == proof.proof
           start == [pos |-> pos, height |-> 0, hash |-> elem]
           Go(i, before) ==
             IF i = 0 THEN start ELSE VerifyItem(poss, before, items[i])
           Is(f) == f = [i \in 0..N |-> Go(i, f[i - 1])]
           h == [i \in 0..N |-> g[i]]
           at == CHOOSE f : Is(f)
<1>1. Verify(proof, root, pos, elem) <=> Hash(proof.mmr_size, at[N].hash) = root
  BY Zenon DEF Verify
<1>0. /\ N \in Nat /\ g[0] = start
      /\ \A i \in 0..(N - 1) : g[i + 1] = VerifyItem(poss, g[i], items[i + 1])
  BY DEF VerifyWalks, At
<1> HIDE DEF N, poss, items, start
<1>2. ASSUME NEW i \in 0..N
      PROVE  h[i] = Go(i, h[i - 1])
  <2>1. CASE i = 0
    BY <1>0, <2>1
  <2>2. CASE i # 0
    <3>1. i - 1 \in 0..(N - 1) /\ i - 1 \in 0..N /\ (i - 1) + 1 = i
      BY <1>0, <2>2
    <3>2. g[(i - 1) + 1] = VerifyItem(poss, g[i - 1], items[(i - 1) + 1])
      BY <1>0, <3>1
    <3>3. h[i] = g[i] /\ h[i - 1] = g[i - 1]
      BY <3>1
    <3> HIDE DEF h
    <3> QED
      BY <2>2, <3>1, <3>2, <3>3
  <2> QED
    BY <2>1, <2>2
<1>3. Is(h)
  <2>1. h = [i \in 0..N |-> h[i]]
    OBVIOUS
  <2> HIDE DEF h, Go
  <2> QED
    BY <1>2, <2>1
<1>4. h[N] = g[N]
  BY <1>0
<1> HIDE DEF h
<1>5. Is(at)
  <2> HIDE DEF Is
  <2> QED
    BY <1>3
<1> HIDE DEF at
<1>6. \A i \in 0..N : at[i] = Go(i, at[i - 1])
  <2> HIDE DEF Go
  <2> QED
    BY <1>5
<1>7. at[0] = h[0]
  <2>1. 0 \in 0..N
    BY <1>0
  <2>2. at[0] = Go(0, at[0 - 1]) /\ h[0] = Go(0, h[0 - 1])
    BY <1>2, <1>6, <2>1
  <2> HIDE DEF h
  <2> QED
    BY <2>2
<1>8. \A i \in 0..(N - 1) : at[i] = h[i] => at[i + 1] = h[i + 1]
  <2> TAKE i \in 0..(N - 1)
  <2>1. i + 1 \in 0..N /\ (i + 1) - 1 = i
    BY <1>0
  <2>2. at[i + 1] = Go(i + 1, at[(i + 1) - 1])
    BY <1>6, <2>1
  <2>3. h[i + 1] = Go(i + 1, h[(i + 1) - 1])
    BY <1>2, <2>1
  <2> HIDE DEF Go
  <2> QED
    BY <2>1, <2>2, <2>3
<1>9. at[N] = h[N]
  <2>1. 0 \in Nat /\ 0 <= N /\ N \in Nat
    BY <1>0
  <2> QED
    BY <1>7, <1>8, <2>1, WalksAgree
<1> QED
  BY <1>1, <1>4, <1>9 DEF N

LEMMA VerifyItemIs ==
  ASSUME NEW poss, NEW p, NEW h, NEW x, NEW item
  PROVE  /\ p \notin Range(poss) =>
              VerifyItem(poss, At(p, h, x), item)
                = At(ParentPos(p, h), h + 1,
                     IF IsRightChild(p) THEN Hash(item, x) ELSE Hash(x, item))
         /\ p \in Range(poss) /\ p = Last(poss) =>
              VerifyItem(poss, At(p, h, x), item) = At(p, h, Hash(item, x))
         /\ p \in Range(poss) /\ p # Last(poss) =>
              VerifyItem(poss, At(p, h, x), item) = At(Last(poss), h, Hash(x, item))
<1> DEFINE at == At(p, h, x)
<1>1. at.pos = p /\ at.height = h /\ at.hash = x
  BY DEF At
<1>2. ASSUME NEW y PROVE [at EXCEPT !.hash = y] = At(p, h, y)
  BY DEF At
<1>3. ASSUME NEW y, NEW q PROVE [At(p, h, y) EXCEPT !.pos = q] = At(q, h, y)
  BY DEF At
<1>4. ASSUME NEW y, NEW q
      PROVE  [at EXCEPT !.hash = y, !.pos = q] = At(q, h, y)
  <2>1. [at EXCEPT !.hash = y, !.pos = q] = [[at EXCEPT !.hash = y] EXCEPT !.pos = q]
    OBVIOUS
  <2> HIDE DEF at
  <2> QED
    BY <1>2, <1>3, <2>1
<1> HIDE DEF at
<1>5. p \notin Range(poss) =>
        VerifyItem(poss, at, item)
          = At(ParentPos(p, h), h + 1,
               IF IsRightChild(p) THEN Hash(item, x) ELSE Hash(x, item))
  BY <1>1 DEF VerifyItem, At
<1>6. p \in Range(poss) /\ p = Last(poss) =>
        VerifyItem(poss, at, item) = At(p, h, Hash(item, x))
  BY <1>1, <1>2 DEF VerifyItem
<1>7. p \in Range(poss) /\ p # Last(poss) =>
        VerifyItem(poss, at, item) = At(Last(poss), h, Hash(x, item))
  BY <1>1, <1>4 DEF VerifyItem
<1> QED
  BY <1>5, <1>6, <1>7 DEF at

LEMMA ProofVerifies ==
  ASSUME NEW n, HasLeaves(n), Rust!NodesArePerfectTrees, NEW k \in 0..(n - 1)
  PROVE  Verify(GenProof(SizeOfLeaves(k)), GetRoot, SizeOfLeaves(k),
                pos_hash[SizeOfLeaves(k)])
<1>1. n \in Nat \ {0}
  BY DEF HasLeaves
<1>2. PICK j : PeakAbove(n, k, j)
  BY <1>1, PeakAboveExists
<1> DEFINE L == PopCount[n]
           m == PeakIndex(k, j)
           e == Behind(n, k, j)
           V == PeakNodes(n)
           S == SizeOfLeaves(n)
           poss == Poss(n)
           proof == GenProof(SizeOfLeaves(k))
           items == proof.proof
           N == j + e + (m - 1)
<1>3. /\ L \in Nat /\ PyGetPeaks(S) = poss /\ MmrSize = S /\ Len(poss) = L /\ L >= 1
      /\ IsRow(poss, L)
      /\ \A x, y \in 1..L : x < y => poss[x] < poss[y]
      /\ \A x \in 1..L : poss[x] \in 0..(S - 1)
  BY <1>1, PossAscend DEF HasLeaves
<1>4. /\ PeaksValues(poss) = V /\ Len(V) = L
      /\ \A x \in 1..L : V[x] = pos_hash[poss[x]]
  BY <1>1, PeakNodesAre
<1>5. PICK bag : Bags(bag, V, L) /\ BagPeaks(V) = bag[L]
  <2>1. L \in Nat \ {0}
    BY <1>3
  <2> HIDE DEF L, V
  <2> QED
    BY <1>4, <2>1, BagIs
<1>6. proof.mmr_size = S /\ ProofIs(items, n, k, j, bag)
  BY <1>1, <1>2, <1>5, ProofOfLeaf
<1>7. m \in 1..L /\ poss[m] = WayPos(k, j)
  BY <1>1, <1>2, PeakFound
<1>8. /\ Len(items) = N
      /\ \A i \in 1..j : items[i] = WayItem(k, i - 1)
      /\ e = 1 => items[j + 1] = bag[L - m]
      /\ \A r \in 1..(m - 1) : items[j + e + r] = V[m - r]
  BY <1>6 DEF ProofIs
<1>9. j \in Nat /\ e \in {0, 1} /\ (e = 1 <=> m < L)
  BY <1>2 DEF PeakAbove, Behind
<1>10. WayPos(k, 0) = SizeOfLeaves(k)
  BY <1>2, ClimbReaches
<1>11. ASSUME NEW i \in 0..(j - 1)
       PROVE  /\ WayPos(k, i) \notin Range(poss)
              /\ ParentPos(WayPos(k, i), i) = WayPos(k, i + 1)
              /\ WayNode(k, i + 1)
                   = IF IsRightChild(WayPos(k, i)) THEN Hash(WayItem(k, i), WayNode(k, i))
                     ELSE Hash(WayNode(k, i), WayItem(k, i))
  <2>1. WayPos(k, i) \notin Range(poss)
    BY <1>1, <1>2, WayBelowPeak
  <2>2. ParentPos(WayPos(k, i), i) = WayPos(k, i + 1)
    BY <1>1, <1>2, WayUp
  <2>3. WayNode(k, i + 1)
          = IF IsRightChild(WayPos(k, i)) THEN Hash(WayItem(k, i), WayNode(k, i))
            ELSE Hash(WayNode(k, i), WayItem(k, i))
    BY <1>2, WayHash
  <2> QED
    BY <2>1, <2>2, <2>3
<1>12. GetRoot = Hash(S, bag[L])
  BY <1>3, <1>4, <1>5 DEF GetRoot
<1> HIDE DEF L, m, e, V, S, poss, proof, items
<1>13. Range(poss) = {poss[x] : x \in 1..L} /\ Last(poss) = poss[L]
  <2>1. DOMAIN poss = 1..L
    BY <1>3 DEF IsRow
  <2> QED
    BY <1>3, <2>1 DEF Range, Last
<1>14. poss[m] \in Range(poss) /\ poss[L] \in Range(poss)
  <2>1. L \in 1..L
    BY <1>3
  <2> QED
    BY <1>7, <1>13, <2>1
<1>15. m \in Nat /\ m >= 1 /\ m <= L /\ N \in Nat /\ N >= j
  BY <1>3, <1>7, <1>9
<1>16. WayNode(k, j) = V[m]
  BY <1>4, <1>7 DEF WayNode
<1>17. \A c \in 1..(L - 1) : bag[c + 1] = Hash(V[L - c], bag[c])
  BY <1>5 DEF Bags
<1>18. bag[1] = V[L]
  BY <1>5 DEF Bags
<1> DEFINE Top(i) == (L - m + 1) + (i - j - e)
           g == [i \in 0..N |->
                   IF i <= j THEN At(WayPos(k, i), i, WayNode(k, i))
                   ELSE At(poss[L], j, bag[Top(i)])]
<1>19. ASSUME NEW i \in 0..N
       PROVE  /\ i <= j => g[i] = At(WayPos(k, i), i, WayNode(k, i))
              /\ i >= j + e => g[i] = At(poss[L], j, bag[Top(i)])
  <2>1. i <= j => g[i] = At(WayPos(k, i), i, WayNode(k, i))
    OBVIOUS
  <2>2. i > j => g[i] = At(poss[L], j, bag[Top(i)])
    BY <1>9
  <2> HIDE DEF g
  <2>3. CASE i = j /\ i >= j + e
    <3>1. e = 0 /\ m = L /\ Top(i) = 1
      BY <1>3, <1>9, <1>15, <2>3
    <3> HIDE DEF Top
    <3>2. WayPos(k, i) = poss[L] /\ WayNode(k, i) = bag[1]
      BY <1>7, <1>16, <1>18, <2>3, <3>1
    <3> QED
      BY <2>1, <2>3, <3>1, <3>2
  <2> QED
    BY <1>9, <2>1, <2>2, <2>3
<1> HIDE DEF g, Top
<1>20. ASSUME NEW i \in 0..(N - 1)
       PROVE  g[i + 1] = VerifyItem(poss, g[i], items[i + 1])
  <2>1. i \in 0..N /\ i + 1 \in 0..N /\ i \in Nat
    BY <1>15
  <2>2. CASE i < j
    <3>1. i \in 0..(j - 1) /\ i + 1 \in 1..j /\ i <= j /\ i + 1 <= j /\ (i + 1) - 1 = i
      BY <1>9, <2>1, <2>2
    <3>2. items[i + 1] = WayItem(k, i)
      BY <1>8, <3>1
    <3>3. g[i] = At(WayPos(k, i), i, WayNode(k, i))
      BY <1>19, <2>1, <3>1
    <3>4. g[i + 1] = At(WayPos(k, i + 1), i + 1, WayNode(k, i + 1))
      BY <1>19, <2>1, <3>1
    <3>5. VerifyItem(poss, At(WayPos(k, i), i, WayNode(k, i)), WayItem(k, i))
            = At(ParentPos(WayPos(k, i), i), i + 1,
                 IF IsRightChild(WayPos(k, i)) THEN Hash(WayItem(k, i), WayNode(k, i))
                 ELSE Hash(WayNode(k, i), WayItem(k, i)))
      BY <1>11, <3>1, VerifyItemIs
    <3> QED
      BY <1>11, <3>1, <3>2, <3>3, <3>4, <3>5
  <2>3. CASE i = j /\ e = 1
    <3>1. m < L /\ items[i + 1] = bag[L - m] /\ i <= j /\ i + 1 >= j + e
      BY <1>8, <1>9, <2>3
    <3>2. poss[m] # Last(poss)
      <4>1. L \in 1..L /\ poss[m] < poss[L]
        BY <1>3, <1>7, <3>1
      <4>2. poss[m] \in Int /\ poss[L] \in Int
        BY <1>3, <1>7, <4>1
      <4> QED
        BY <1>13, <4>1, <4>2
    <3>3. g[i] = At(poss[m], j, V[m])
      BY <1>7, <1>16, <1>19, <2>1, <2>3, <3>1
    <3>4. VerifyItem(poss, At(poss[m], j, V[m]), bag[L - m])
            = At(Last(poss), j, Hash(V[m], bag[L - m]))
      BY <1>14, <3>2, VerifyItemIs
    <3>5. Hash(V[m], bag[L - m]) = bag[(L - m) + 1]
      <4>1. L - m \in 1..(L - 1) /\ L - (L - m) = m
        BY <1>3, <1>15, <3>1
      <4> QED
        BY <1>17, <4>1
    <3>6. Top(i + 1) = (L - m) + 1
      BY <1>3, <1>9, <1>15, <2>3 DEF Top
    <3>7. g[i + 1] = At(poss[L], j, bag[Top(i + 1)])
      BY <1>19, <2>1, <3>1
    <3> QED
      BY <1>13, <3>1, <3>3, <3>4, <3>5, <3>6, <3>7
  <2>4. CASE i >= j + e
    <3> DEFINE c == Top(i)
               r == (i - j - e) + 1
    <3>1. /\ i + 1 >= j + e /\ r \in 1..(m - 1) /\ j + e + r = i + 1
          /\ c \in 1..(L - 1) /\ L - c = m - r /\ Top(i + 1) = c + 1
      BY <1>3, <1>9, <1>15, <2>1, <2>4 DEF Top
    <3> HIDE DEF c, r
    <3>2. g[i] = At(poss[L], j, bag[c])
      BY <1>19, <2>1, <2>4 DEF c
    <3>3. g[i + 1] = At(poss[L], j, bag[c + 1])
      BY <1>19, <2>1, <3>1
    <3>4. items[i + 1] = V[m - r]
      BY <1>8, <3>1
    <3>5. bag[c + 1] = Hash(V[m - r], bag[c])
      BY <1>17, <3>1
    <3>6. VerifyItem(poss, At(poss[L], j, bag[c]), V[m - r])
            = At(poss[L], j, Hash(V[m - r], bag[c]))
      BY <1>13, <1>14, VerifyItemIs
    <3> QED
      BY <3>2, <3>3, <3>4, <3>5, <3>6
  <2>5. i < j \/ (i = j /\ e = 1) \/ i >= j + e
    BY <1>9, <2>1
  <2> QED
    BY <2>2, <2>3, <2>4, <2>5
<1>21. g[N].hash = bag[L]
  <2>1. N \in 0..N /\ N >= j + e /\ Top(N) = L
    BY <1>3, <1>9, <1>15 DEF Top
  <2>2. g[N] = At(poss[L], j, bag[L])
    BY <1>19, <2>1
  <2> QED
    BY <2>2 DEF At
<1>22. g[0] = At(SizeOfLeaves(k), 0, pos_hash[SizeOfLeaves(k)])
  <2>1. 0 \in 0..N /\ 0 <= j
    BY <1>9, <1>15
  <2> QED
    BY <1>10, <1>19, <2>1 DEF WayNode
<1>23. proof.mmr_size = S /\ proof.proof = items
  BY <1>6 DEF items
<1> HIDE DEF N
<1>24. Verify(proof, GetRoot, SizeOfLeaves(k), pos_hash[SizeOfLeaves(k)])
         <=> Hash(S, g[N].hash) = GetRoot
  <2>1. N \in Nat /\ Len(items) = N /\ PyGetPeaks(S) = poss
    BY <1>3, <1>8, <1>15 DEF N
  <2> DEFINE root == GetRoot
             pos == SizeOfLeaves(k)
             elem == pos_hash[pos]
  <2>2. g[0] = At(pos, 0, elem)
    BY <1>22
  <2> HIDE DEF root, pos, elem
  <2>3. VerifyWalks(g, proof, pos, elem)
    BY <1>20, <1>23, <2>1, <2>2 DEF VerifyWalks
  <2>4. Verify(proof, root, pos, elem)
          <=> Hash(proof.mmr_size, g[Len(proof.proof)].hash) = root
    BY <2>3, VerifyWalk
  <2>5. Verify(proof, root, pos, elem) <=> Hash(S, g[N].hash) = root
    BY <1>23, <2>1, <2>4
  <2> QED
    BY <2>5 DEF root, pos, elem
<1> QED
  BY <1>12, <1>21, <1>24 DEF proof
-----------------------------------------------------------------------------
(* What the holder of a proof relies on: the proof verifies, and the leaf  *)
(* stays where it was.                                                     *)
LEMMA LeafAt ==
  ASSUME NEW n, HasLeaves(n), NEW pos \in 0..last_pos, TreePosHeight(pos) = 0
  PROVE  \E k \in 0..(n - 1) : pos = SizeOfLeaves(k)
<1>1. n \in Nat /\ last_pos \in Int /\ last_pos + 1 = SizeOfLeaves(n)
  BY DEF HasLeaves, MmrSize
<1>2. pos + 1 \in Nat \ {0} /\ Height[pos + 1] = 0
  BY <1>1 DEF TreePosHeight
<1>3. HasHeight(pos + 1, 0)
  BY <1>2, HeightExists
<1>4. PICK k \in 0..(pos + 1) : pos + 1 = SizeOfLeaves(k) + 1 + 0
  BY <1>3 DEF HasHeight
<1>5. k \in Nat /\ SizeOfLeaves(k) \in Nat /\ SizeOfLeaves(n) \in Nat
  BY <1>1, <1>2, SizeOfLeavesBounds
<1>6. pos = SizeOfLeaves(k) /\ SizeOfLeaves(k) < SizeOfLeaves(n)
  BY <1>1, <1>4, <1>5
<1>7. k < n
  <2> SUFFICES ASSUME ~(k < n) PROVE FALSE
    OBVIOUS
  <2>1. n <= k
    BY <1>1, <1>5
  <2>2. SizeOfLeaves(n) <= SizeOfLeaves(k)
    BY <1>1, <1>5, <2>1, SizeMonotone
  <2> QED
    BY <1>5, <1>6, <2>2
<1> QED
  BY <1>1, <1>5, <1>6, <1>7

LEMMA AddKeepsNodes ==
  ASSUME NEW n, HasLeaves(n), NEW elem, Add(elem), NEW p \in 0..last_pos
  PROVE  p \in 0..last_pos' /\ pos_hash'[p] = pos_hash[p]
<1> DEFINE S == SizeOfLeaves(n)
           m == TrailingOnes[n]
<1>1. n \in Nat /\ S \in Nat /\ m \in Nat /\ last_pos \in Int /\ last_pos + 1 = S
  BY SizeOfLeavesBounds, TrailingOnesUnfold DEF HasLeaves, MmrSize
<1>2. Merges(S) = m
  BY <1>1, MergesIs
<1> HIDE DEF S, m
<1>3. /\ last_pos' = S + m
      /\ pos_hash' = [q \in 0..(S + m) |->
                        IF q < S THEN pos_hash[q] ELSE AddedNodes(S, elem)[q - S]]
  BY <1>1, <1>2 DEF Add
<1>4. p \in 0..(S + m) /\ p < S
  BY <1>1
<1> QED
  BY <1>3, <1>4

HeldInv ==
  /\ HeldProofVerifies
  /\ held # NoProof =>
       held.pos \in 0..last_pos /\ held.merkle.mmr_size \in Nat

LEMMA InitHeld == ProofInit => HeldInv
BY DEF ProofInit, HeldInv, HeldProofVerifies

LEMMA ProveKeepsHeld ==
  ASSUME PyIInv, NEW pos \in 0..last_pos, Prove(pos)
  PROVE  HeldInv'
<1>1. PICK n : HasLeaves(n)
  BY DEF PyIInv, PyInv
<1>2. Rust!NodesArePerfectTrees
  BY DEF PyIInv
<1>3. /\ TreePosHeight(pos) = 0
      /\ held' = [merkle |-> GenProof(pos), pos |-> pos, elem |-> pos_hash[pos],
                  root |-> GetRoot]
      /\ last_pos' = last_pos /\ pos_hash' = pos_hash
  BY DEF Prove
<1>4. PICK k \in 0..(n - 1) : pos = SizeOfLeaves(k)
  BY <1>1, <1>3, LeafAt
<1>5. Verify(GenProof(pos), GetRoot, pos, pos_hash[pos])
  BY <1>1, <1>2, <1>4, ProofVerifies
<1>6. GenProof(pos).mmr_size \in Nat
  BY <1>1, SizeOfLeavesBounds DEF GenProof, HasLeaves
<1>7. /\ held'.merkle = GenProof(pos) /\ held'.pos = pos
      /\ held'.elem = pos_hash[pos] /\ held'.root = GetRoot
  BY <1>3
<1>8. HeldProofVerifies'
  BY <1>3, <1>5, <1>7 DEF HeldProofVerifies
<1> QED
  BY <1>3, <1>6, <1>7, <1>8 DEF HeldInv

LEMMA GrowKeepsHeld ==
  ASSUME PyIInv, HeldInv, NEW elem, Add(elem), UNCHANGED held
  PROVE  HeldInv'
<1>1. PICK n : HasLeaves(n)
  BY DEF PyIInv, PyInv
<1>2. held' = held
  OBVIOUS
<1> SUFFICES ASSUME held # NoProof PROVE HeldInv'
  BY <1>2 DEF HeldInv, HeldProofVerifies
<1>3. /\ held.pos \in 0..last_pos /\ held.merkle.mmr_size \in Nat
      /\ Verify(held.merkle, held.root, held.pos, held.elem)
      /\ pos_hash[held.pos] = held.elem /\ TreePosHeight(held.pos) = 0
  BY DEF HeldInv, HeldProofVerifies
<1>4. held.pos \in 0..last_pos' /\ pos_hash'[held.pos] = pos_hash[held.pos]
  BY <1>1, <1>3, AddKeepsNodes
<1>5. HeldProofVerifies'
  BY <1>2, <1>3, <1>4 DEF HeldProofVerifies
<1> QED
  BY <1>2, <1>3, <1>4, <1>5 DEF HeldInv

LEMMA NextHeld == PyIInv /\ HeldInv /\ [ProofNext]_proofVars => HeldInv'
<1> SUFFICES ASSUME PyIInv, HeldInv, [ProofNext]_proofVars PROVE HeldInv'
  OBVIOUS
<1>1. CASE UNCHANGED proofVars
  BY <1>1 DEF proofVars, HeldInv, HeldProofVerifies
<1>2. CASE Grow
  <2>1. PICK elem \in Element : Add(elem) /\ UNCHANGED held
    BY <1>2 DEF Grow
  <2> QED
    BY <2>1, GrowKeepsHeld
<1>3. CASE \E pos \in 0..last_pos : Prove(pos)
  BY <1>3, ProveKeepsHeld
<1> QED
  BY <1>1, <1>2, <1>3 DEF ProofNext

LEMMA HeldInvariantHolds == ProofSpec => []HeldInv
<1> QED
  BY InitHeld, NextHeld, PyInvariantHolds, PTL DEF ProofSpec

(* HeldProofVerifies: the proof gen_proof gives for any leaf of an MMR of  *)
(* any size verifies against the root of its time, for ever.               *)
THEOREM HeldProofsVerify == ProofSpec => []HeldProofVerifies
<1>1. HeldInv => HeldProofVerifies
  BY DEF HeldInv
<1> QED
  BY <1>1, HeldInvariantHolds, PTL

(* What refusing a stale proof relies on: the size that is hashed into the *)
(* root can be told from the root.                                         *)
SizeBinding == \A i, j \in Nat : \A x, y : Hash(i, x) = Hash(j, y) => i = j

(* StaleProofRefused: a proof of another size does not verify against the  *)
(* root of today.                                                          *)
THEOREM StaleProofsAreRefused ==
  ASSUME SizeBinding
  PROVE  ProofSpec => []StaleProofRefused
<1>1. PyIInv /\ HeldInv => StaleProofRefused
  <2> SUFFICES ASSUME PyIInv, HeldInv, held # NoProof,
                      held.merkle.mmr_size # MmrSize,
                      Verify(held.merkle, GetRoot, held.pos, held.elem)
               PROVE  FALSE
    BY DEF StaleProofRefused
  <2>1. held.merkle.mmr_size \in Nat
    BY DEF HeldInv
  <2>2. MmrSize \in Nat
    BY SizeOfLeavesBounds DEF PyIInv, PyInv, HasLeaves
  <2>3. \E x : Hash(held.merkle.mmr_size, x) = GetRoot
    BY Zenon DEF Verify
  <2>4. \E y : GetRoot = Hash(MmrSize, y)
    BY Zenon DEF GetRoot
  <2> QED
    BY <2>1, <2>2, <2>3, <2>4 DEF SizeBinding
<1> QED
  BY <1>1, PyInvariantHolds, HeldInvariantHolds, PTL
-----------------------------------------------------------------------------
(* hash_subtree_path climbs the same way, one item of the path at a time.  *)
SubAt(element, height, position) ==
  [element |-> element, height |-> height, position |-> position]

SubtreeWalks(g, element, height, position, items) ==
  /\ Len(items) \in Nat
  /\ g[0] = SubAt(element, height, position)
  /\ \A i \in 0..(Len(items) - 1) : g[i + 1] = HashSibling(g[i], items[i + 1])

LEMMA SubtreeWalk ==
  ASSUME NEW g, NEW element, NEW height, NEW position, NEW items,
         SubtreeWalks(g, element, height, position, items)
  PROVE  HashSubtreePath(element, height, position, items) = g[Len(items)]
<1> DEFINE N == Len(items)
           start == [element |-> element, height |-> height,
                     position |-> position]
           Go(i, before) == IF i = 0 THEN start ELSE HashSibling(before, items[i])
           Is(f) == f = [i \in 0..N |-> Go(i, f[i - 1])]
           h == [i \in 0..N |-> g[i]]
           at == CHOOSE f : Is(f)
<1>1. HashSubtreePath(element, height, position, items) = at[N]
  BY Zenon DEF HashSubtreePath
<1>2. /\ N \in Nat /\ g[0] = start
      /\ \A i \in 0..(N - 1) : g[i + 1] = HashSibling(g[i], items[i + 1])
  BY DEF SubtreeWalks, SubAt
<1> HIDE DEF N, start
<1>3. ASSUME NEW i \in 0..N
      PROVE  h[i] = Go(i, h[i - 1])
  <2>1. CASE i = 0
    BY <1>2, <2>1
  <2>2. CASE i # 0
    <3>1. i - 1 \in 0..(N - 1) /\ i - 1 \in 0..N /\ (i - 1) + 1 = i
      BY <1>2, <2>2
    <3>2. g[(i - 1) + 1] = HashSibling(g[i - 1], items[(i - 1) + 1])
      BY <1>2, <3>1
    <3>3. h[i] = g[i] /\ h[i - 1] = g[i - 1]
      BY <3>1
    <3> HIDE DEF h
    <3> QED
      BY <2>2, <3>1, <3>2, <3>3
  <2> QED
    BY <2>1, <2>2
<1>4. Is(h)
  <2>1. h = [i \in 0..N |-> h[i]]
    OBVIOUS
  <2> HIDE DEF h, Go
  <2> QED
    BY <1>3, <2>1
<1>5. h[N] = g[N]
  BY <1>2
<1> HIDE DEF h
<1>6. Is(at)
  <2> HIDE DEF Is
  <2> QED
    BY <1>4
<1> HIDE DEF at
<1>7. \A i \in 0..N : at[i] = Go(i, at[i - 1])
  <2> HIDE DEF Go
  <2> QED
    BY <1>6
<1>8. at[0] = h[0]
  <2>1. 0 \in 0..N
    BY <1>2
  <2>2. at[0] = Go(0, at[0 - 1]) /\ h[0] = Go(0, h[0 - 1])
    BY <1>3, <1>7, <2>1
  <2> QED
    BY <2>2
<1>9. \A i \in 0..(N - 1) : at[i] = h[i] => at[i + 1] = h[i + 1]
  <2> TAKE i \in 0..(N - 1)
  <2>1. i + 1 \in 0..N /\ (i + 1) - 1 = i
    BY <1>2
  <2>2. at[i + 1] = Go(i + 1, at[(i + 1) - 1])
    BY <1>7, <2>1
  <2>3. h[i + 1] = Go(i + 1, h[(i + 1) - 1])
    BY <1>3, <2>1
  <2> HIDE DEF Go
  <2> QED
    BY <2>1, <2>2, <2>3
<1>10. at[N] = h[N]
  <2>1. 0 \in Nat /\ 0 <= N /\ N \in Nat
    BY <1>2
  <2> QED
    BY <1>8, <1>9, <2>1, WalksAgree
<1> QED
  BY <1>1, <1>5, <1>10 DEF N

LEMMA SiblingHashed ==
  ASSUME NEW n, HasLeaves(n), Rust!NodesArePerfectTrees,
         NEW k \in 0..(n - 1), NEW j, PeakAbove(n, k, j), NEW i \in 0..(j - 1)
  PROVE  HashSibling(SubAt(WayNode(k, i), i, WayPos(k, i) + 1), WayItem(k, i))
           = SubAt(WayNode(k, i + 1), i + 1, WayPos(k, i + 1) + 1)
<1> DEFINE p == WayPos(k, i)
           at == SubAt(WayNode(k, i), i, p + 1)
<1>1. n \in Nat /\ j \in Nat /\ i \in Nat
  BY DEF HasLeaves, PeakAbove
<1>2. /\ p \in 0..(SizeOfLeaves(n) - 1) /\ ParentPos(p, i) = WayPos(k, i + 1)
      /\ TreePosHeight(p) = i
      /\ TreePosHeight(p + 1) = IF IsRightChild(p) THEN i + 1 ELSE 0
  BY <1>1, WayUp
<1>3. WayNode(k, i + 1)
        = IF IsRightChild(p) THEN Hash(WayItem(k, i), WayNode(k, i))
          ELSE Hash(WayNode(k, i), WayItem(k, i))
  BY WayHash
<1>4. p \in Nat
  BY <1>1, <1>2, SizeOfLeavesBounds
<1>5. Pow2[i] \in Nat /\ Pow2[i + 1] = 2 * Pow2[i]
  BY <1>1, Pow2Unfold
<1>6. at.element = WayNode(k, i) /\ at.height = i /\ at.position = p + 1
  BY DEF SubAt
<1> HIDE DEF p, at
<1>7. Height[at.position] = i /\ Height[at.position + 1] = TreePosHeight(p + 1)
  BY <1>2, <1>6 DEF TreePosHeight
<1>8. CASE IsRightChild(p)
  <2>1. Height[at.position + 1] = Height[at.position] + 1
    BY <1>2, <1>7, <1>8
  <2>2. HashSibling(at, WayItem(k, i))
          = SubAt(Hash(WayItem(k, i), WayNode(k, i)), i + 1, (p + 1) + 1)
    BY <1>6, <2>1 DEF HashSibling, SubAt
  <2>3. WayPos(k, i + 1) = p + 1
    BY <1>2, <1>8 DEF ParentPos
  <2> QED
    BY <1>3, <1>8, <2>2, <2>3 DEF p, at
<1>9. CASE ~IsRightChild(p)
  <2>1. Height[at.position + 1] # Height[at.position] + 1
    <3>1. Height[at.position + 1] = 0 /\ Height[at.position] + 1 = i + 1 /\ i + 1 # 0
      BY <1>1, <1>2, <1>7, <1>9
    <3> QED
      BY <3>1
  <2>2. HashSibling(at, WayItem(k, i))
          = SubAt(Hash(WayNode(k, i), WayItem(k, i)), i + 1, ParentPosition(p + 1, i))
    BY <1>6, <2>1 DEF HashSibling, SubAt
  <2>3. WayPos(k, i + 1) + 1 = ParentPosition(p + 1, i)
    <3>1. WayPos(k, i + 1) = p + 2 * Pow2[i]
      BY <1>2, <1>9 DEF ParentPos
    <3>2. ParentPosition(p + 1, i) = (p + 1) + 2 * Pow2[i]
      BY <1>5 DEF ParentPosition
    <3> QED
      BY <1>4, <1>5, <3>1, <3>2
  <2> QED
    BY <1>3, <1>9, <2>2, <2>3 DEF p, at
<1> QED
  BY <1>8, <1>9

LEMMA SubtreePath ==
  ASSUME NEW n, HasLeaves(n), Rust!NodesArePerfectTrees,
         NEW k \in 0..(n - 1), NEW j, PeakAbove(n, k, j)
  PROVE  HashSubtreePath(pos_hash[SizeOfLeaves(k)], 0, SizeOfLeaves(k) + 1,
                         WayPath(k, 0, j))
           = SubAt(WayNode(k, j), j, WayPos(k, j) + 1)
<1> DEFINE items == WayPath(k, 0, j)
           g == [i \in 0..j |-> SubAt(WayNode(k, i), i, WayPos(k, i) + 1)]
<1>1. j \in Nat
  BY DEF PeakAbove
<1>2. Len(items) = j /\ \A i \in 0..(j - 1) : items[i + 1] = WayItem(k, i)
  <2>1. items = [x \in 1..j |-> WayItem(k, x - 1)]
    <3>1. j - 0 = j /\ \A x \in 1..j : 0 + x - 1 = x - 1
      BY <1>1
    <3> QED
      BY <3>1 DEF WayPath
  <2> HIDE DEF items
  <2>2. Len(items) = j
    BY <1>1, <2>1, RowIsSequence DEF IsRow
  <2>3. ASSUME NEW i \in 0..(j - 1) PROVE items[i + 1] = WayItem(k, i)
    <3>1. i + 1 \in 1..j /\ (i + 1) - 1 = i
      BY <1>1
    <3> QED
      BY <2>1, <3>1
  <2> QED
    BY <2>2, <2>3
<1>3. WayPos(k, 0) = SizeOfLeaves(k)
  BY ClimbReaches
<1>4. ASSUME NEW i \in 0..(j - 1)
      PROVE  g[i + 1] = HashSibling(g[i], items[i + 1])
  <2>1. i \in 0..j /\ i + 1 \in 0..j
    BY <1>1
  <2>2. /\ g[i] = SubAt(WayNode(k, i), i, WayPos(k, i) + 1)
        /\ g[i + 1] = SubAt(WayNode(k, i + 1), i + 1, WayPos(k, i + 1) + 1)
    BY <2>1
  <2> HIDE DEF g, items
  <2> QED
    BY <1>2, <2>2, SiblingHashed
<1>5. g[0] = SubAt(pos_hash[SizeOfLeaves(k)], 0, SizeOfLeaves(k) + 1)
  <2>1. 0 \in 0..j
    BY <1>1
  <2> QED
    BY <1>3, <2>1 DEF WayNode
<1>6. g[j] = SubAt(WayNode(k, j), j, WayPos(k, j) + 1)
  BY <1>1
<1> HIDE DEF g, items
<1> DEFINE element == pos_hash[SizeOfLeaves(k)]
           position == SizeOfLeaves(k) + 1
<1> HIDE DEF element, position
<1>7. SubtreeWalks(g, element, 0, position, items)
  BY <1>1, <1>2, <1>4, <1>5 DEF SubtreeWalks, element, position
<1>8. HashSubtreePath(element, 0, position, items) = g[Len(items)]
  BY <1>7, SubtreeWalk
<1> QED
  BY <1>2, <1>6, <1>8 DEF element, position, items

(* SubtreePathReachesPeak: for every number of leaves, the Cairo program,  *)
(* fed with the siblings of the Python proof, arrives at the peak above    *)
(* the leaf, at its position, its height and its hash.                     *)
THEOREM SubtreePathsReachPeaks == ProofSpec => []SubtreePathReachesPeak
<1>1. PyIInv => SubtreePathReachesPeak
  <2> SUFFICES ASSUME PyIInv, NEW pos \in Range(LeafPositions)
               PROVE  LET climb == ClimbFrom(pos)
                          top == HashSubtreePath(pos_hash[pos], 0, pos + 1, climb.path)
                      IN  /\ climb.peak \in Range(PyGetPeaks(MmrSize))
                          /\ top.position = climb.peak + 1
                          /\ top.height = TreePosHeight(climb.peak)
                          /\ top.element = pos_hash[climb.peak]
    BY DEF SubtreePathReachesPeak
  <2>1. PICK n : HasLeaves(n)
    BY DEF PyIInv, PyInv
  <2>2. Rust!NodesArePerfectTrees
    BY DEF PyIInv
  <2>3. n \in Nat /\ LeafPositions = LeavesAt(n) /\ MmrSize = SizeOfLeaves(n)
    BY <2>1, ReadAsRust DEF HasLeaves
  <2>4. PICK i \in 1..n : pos = SizeOfLeaves(i - 1)
    BY <2>3 DEF Range, LeavesAt
  <2> DEFINE k == i - 1
  <2>5. k \in 0..(n - 1) /\ n \in Nat \ {0}
    BY <2>3
  <2>6. pos = SizeOfLeaves(k)
    BY <2>4
  <2> HIDE DEF k
  <2>7. PICK j : PeakAbove(n, k, j)
    BY <2>3, <2>5, PeakAboveExists
  <2>8. ClimbFrom(pos) = [path |-> WayPath(k, 0, j), peak |-> WayPos(k, j)]
    BY <2>1, <2>5, <2>6, <2>7, ClimbReaches
  <2>9. HashSubtreePath(pos_hash[pos], 0, pos + 1, WayPath(k, 0, j))
          = SubAt(WayNode(k, j), j, WayPos(k, j) + 1)
    BY <2>1, <2>2, <2>5, <2>6, <2>7, SubtreePath
  <2>10. TreePosHeight(WayPos(k, j)) = j
    BY <2>3, <2>5, <2>7, WayEnds
  <2>11. WayPos(k, j) \in Range(PyGetPeaks(MmrSize))
    <3>1. PeakIndex(k, j) \in 1..PopCount[n] /\ Poss(n)[PeakIndex(k, j)] = WayPos(k, j)
      BY <2>5, <2>7, PeakFound
    <3>2. PyGetPeaks(MmrSize) = Poss(n) /\ IsRow(Poss(n), PopCount[n])
      BY <2>3, <2>5, PossAscend
    <3>3. DOMAIN Poss(n) = 1..PopCount[n]
      BY <3>2 DEF IsRow
    <3> QED
      BY <3>1, <3>2, <3>3 DEF Range
  <2> DEFINE climb == ClimbFrom(pos)
             top == HashSubtreePath(pos_hash[pos], 0, pos + 1, climb.path)
  <2>12. climb.path = WayPath(k, 0, j) /\ climb.peak = WayPos(k, j)
    BY <2>8
  <2> HIDE DEF climb
  <2>13. /\ top.element = WayNode(k, j) /\ top.height = j
         /\ top.position = WayPos(k, j) + 1
    BY <2>9, <2>12 DEF SubAt
  <2> QED
    BY <2>10, <2>11, <2>12, <2>13 DEF WayNode, climb
<1> QED
  BY <1>1, PyInvariantHolds, PTL
-----------------------------------------------------------------------------
(* bag_peaks_poseidon recurses from the left into what the loop of         *)
(* bag_peaks builds from the right.                                        *)
LEMMA SameBag ==
  ASSUME NEW peaks, Len(peaks) \in Nat \ {0}
  PROVE  BagPeaksPoseidon(peaks) = BagPeaks(peaks)
<1> DEFINE L == Len(peaks)
           Go(i, behind) == IF i = L THEN peaks[i] ELSE Hash(peaks[i], behind)
           Is(f) == f = [i \in 1..L |-> Go(i, f[i + 1])]
           at == CHOOSE f : Is(f)
<1>1. BagPeaksPoseidon(peaks) = at[1]
  BY Zenon DEF BagPeaksPoseidon
<1>2. L \in Nat /\ L >= 1
  OBVIOUS
<1>3. PICK bag : Bags(bag, peaks, L) /\ BagPeaks(peaks) = bag[L]
  BY BagIs
<1> HIDE DEF L
<1> DEFINE h == [i \in 1..L |-> bag[L - i + 1]]
<1>4. ASSUME NEW i \in 1..L
      PROVE  h[i] = Go(i, h[i + 1])
  <2>1. h[i] = bag[L - i + 1]
    OBVIOUS
  <2>2. i + 1 \in 1..L => h[i + 1] = bag[L - (i + 1) + 1]
    OBVIOUS
  <2> HIDE DEF h
  <2>3. CASE i = L
    <3>1. L - i + 1 = 1
      BY <1>2, <2>3
    <3> QED
      BY <1>3, <2>1, <2>3, <3>1 DEF Bags
  <2>4. CASE i # L
    <3> DEFINE c == L - i
    <3>1. /\ c \in 1..(L - 1) /\ L - c = i /\ L - i + 1 = c + 1
          /\ i + 1 \in 1..L /\ L - (i + 1) + 1 = c
      BY <1>2, <2>4
    <3> HIDE DEF c
    <3>2. bag[c + 1] = Hash(peaks[L - c], bag[c])
      BY <1>3, <3>1 DEF Bags
    <3> QED
      BY <2>1, <2>2, <2>4, <3>1, <3>2
  <2> QED
    BY <2>3, <2>4
<1>5. Is(h)
  <2>1. h = [i \in 1..L |-> h[i]]
    OBVIOUS
  <2> HIDE DEF h, Go
  <2> QED
    BY <1>4, <2>1
<1>6. h[1] = bag[L]
  <2>1. 1 \in 1..L /\ L - 1 + 1 = L
    BY <1>2
  <2> QED
    BY <2>1
<1> HIDE DEF h
<1>7. Is(at)
  <2> HIDE DEF Is
  <2> QED
    BY <1>5
<1> HIDE DEF at
<1>8. \A i \in 1..L : at[i] = Go(i, at[i + 1])
  <2> HIDE DEF Go
  <2> QED
    BY <1>7
<1> DEFINE f == [d \in 0..(L - 1) |-> at[L - d]]
           g == [d \in 0..(L - 1) |-> h[L - d]]
<1>9. \A d \in 0..(L - 1) : f[d] = at[L - d] /\ g[d] = h[L - d]
  OBVIOUS
<1> HIDE DEF f, g
<1>10. f[0] = g[0]
  <2>1. 0 \in 0..(L - 1) /\ L - 0 = L /\ L \in 1..L
    BY <1>2
  <2>2. at[L] = Go(L, at[L + 1]) /\ h[L] = Go(L, h[L + 1])
    BY <1>4, <1>8, <2>1
  <2> QED
    BY <1>9, <2>1, <2>2
<1>11. \A d \in 0..((L - 1) - 1) : f[d] = g[d] => f[d + 1] = g[d + 1]
  <2> TAKE d \in 0..((L - 1) - 1)
  <2> DEFINE i == L - (d + 1)
  <2>1. /\ d \in 0..(L - 1) /\ d + 1 \in 0..(L - 1) /\ i \in 1..L
        /\ i + 1 = L - d
    BY <1>2
  <2>2. f[d + 1] = at[i] /\ g[d + 1] = h[i] /\ f[d] = at[L - d] /\ g[d] = h[L - d]
    BY <1>9, <2>1
  <2> HIDE DEF i
  <2>3. at[i] = Go(i, at[i + 1]) /\ h[i] = Go(i, h[i + 1])
    BY <1>4, <1>8, <2>1
  <2> HIDE DEF Go
  <2> QED
    BY <2>1, <2>2, <2>3
<1>12. f[L - 1] = g[L - 1]
  <2> DEFINE N == L - 1
  <2>1. N \in Nat /\ 0 \in Nat /\ 0 <= N
    BY <1>2
  <2>2. \A d \in 0..(N - 1) : f[d] = g[d] => f[d + 1] = g[d + 1]
    BY <1>11
  <2> HIDE DEF N
  <2>3. f[N] = g[N]
    BY <1>10, <2>1, <2>2, WalksAgree
  <2> QED
    BY <2>3 DEF N
<1>13. at[1] = h[1]
  <2>1. L - 1 \in 0..(L - 1) /\ L - (L - 1) = 1
    BY <1>2
  <2> QED
    BY <1>9, <1>12, <2>1
<1> QED
  BY <1>1, <1>3, <1>6, <1>13

(* CairoRootAgrees: mmr_root_poseidon computes the root of the Python MMR  *)
(* from its peaks.                                                         *)
THEOREM CairoRootsAgree == ProofSpec => []CairoRootAgrees
<1>1. PyIInv => CairoRootAgrees
  <2> SUFFICES ASSUME PyIInv, last_pos >= 0
               PROVE  MmrRootPoseidon(PeaksValues(PyGetPeaks(MmrSize)), MmrSize)
                        = GetRoot
    BY DEF CairoRootAgrees
  <2>1. PICK n : HasLeaves(n)
    BY DEF PyIInv, PyInv
  <2>2. n \in Nat \ {0} /\ MmrSize = SizeOfLeaves(n)
    BY <2>1, SizeOfLeavesBounds DEF HasLeaves, MmrSize
  <2>3. Len(PeaksValues(PyGetPeaks(MmrSize))) \in Nat \ {0}
    BY <2>2, PossAscend, PeakNodesAre
  <2>4. BagPeaksPoseidon(PeaksValues(PyGetPeaks(MmrSize)))
          = BagPeaks(PeaksValues(PyGetPeaks(MmrSize)))
    BY <2>3, SameBag
  <2> QED
    BY <2>4 DEF MmrRootPoseidon, GetRoot
<1> QED
  BY <1>1, PyInvariantHolds, PTL
=============================================================================
