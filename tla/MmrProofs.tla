----------------------------- MODULE MmrProofs -----------------------------
(***************************************************************************)
(* For every number of leaves and every hash function, the Rust MMR has    *)
(* 2 * leaf_count - popcount(leaf_count) nodes, so the assertion of        *)
(* get_peaks never fires and append always finds the peaks it merges.      *)
(***************************************************************************)
EXTENDS Mmr, MmrPeaksProofs

-----------------------------------------------------------------------------
(* A chain of m hashes, each of one more value and the hash before: what   *)
(* append pushes and what get_root bags.                                   *)
IsChain(f, first, left, m) ==
  f = [i \in 1..m |-> IF i = 1 THEN first ELSE Hash(left[i], f[i - 1])]

LEMMA ChainExists ==
  ASSUME NEW first, NEW left, NEW m \in Nat
  PROVE  \E f : IsChain(f, first, left, m)
<1> DEFINE E == {n \in Nat : \E f : IsChain(f, first, left, n)}
<1>1. 0 \in E
  <2>1. IsChain([i \in 1..0 |-> first], first, left, 0)
    BY DEF IsChain
  <2> QED
    BY <2>1
<1>2. ASSUME NEW n \in Nat, n \in E
      PROVE  n + 1 \in E
  <2>1. PICK f : IsChain(f, first, left, n)
    BY <1>2
  <2> DEFINE g == [i \in 1..(n + 1) |->
                     IF i = 1 THEN first ELSE Hash(left[i], f[i - 1])]
  <2>2. \A i \in 1..n : g[i] = f[i]
    BY <2>1 DEF IsChain
  <2>3. \A i \in 1..(n + 1) : i # 1 => g[i - 1] = f[i - 1]
    <3>1. \A i \in 1..(n + 1) : i # 1 => i - 1 \in 1..n
      OBVIOUS
    <3> HIDE DEF g
    <3> QED
      BY <2>2, <3>1
  <2>4. IsChain(g, first, left, n + 1)
    <3>1. g = [i \in 1..(n + 1) |->
                 IF i = 1 THEN first ELSE Hash(left[i], g[i - 1])]
      <4>1. \A i \in 1..(n + 1) :
              g[i] = IF i = 1 THEN first ELSE Hash(left[i], g[i - 1])
        BY <2>3
      <4>2. DOMAIN g = 1..(n + 1) /\ g = [i \in DOMAIN g |-> g[i]]
        OBVIOUS
      <4> HIDE DEF g
      <4> QED
        BY <4>1, <4>2
    <3> HIDE DEF g
    <3> QED
      BY <3>1, Zenon DEF IsChain
  <2>5. \E e : IsChain(e, first, left, n + 1)
    <3> HIDE DEF g
    <3> QED
      BY <2>4
  <2>6. n + 1 \in Nat
    OBVIOUS
  <2> QED
    BY <2>5, <2>6
<1> HIDE DEF E
<1>3. m \in E
  BY <1>1, <1>2, NatSetInduction
<1> QED
  BY <1>3 DEF E

(* append pushes one node more than it merges peaks: the element, and each *)
(* time the parent of a peak and the node before.                          *)
LEMMA PushedNodesUnfold ==
  ASSUME NEW element, NEW peaks, Len(peaks) \in Nat, NEW merged \in Nat
  PROVE  /\ IsRow(PushedNodes(element, peaks, merged), merged + 1)
         /\ PushedNodes(element, peaks, merged)[1] = element
         /\ \A i \in 1..merged :
              PushedNodes(element, peaks, merged)[i + 1]
                = Hash(peaks[Len(peaks) - i + 1],
                       PushedNodes(element, peaks, merged)[i])
<1> DEFINE left == [i \in 1..(merged + 1) |-> peaks[Len(peaks) - i + 2]]
           node == PushedNodes(element, peaks, merged)
<1>1. PICK f : IsChain(f, element, left, merged + 1)
  <2>1. merged + 1 \in Nat
    OBVIOUS
  <2> HIDE DEF left
  <2> QED
    BY <2>1, ChainExists
<1>2. f = [i \in 1..(merged + 1) |->
             IF i = 1 THEN element ELSE Parent(peaks[Len(peaks) - i + 2], f[i - 1])]
  BY <1>1 DEF Parent, IsChain
<1>3. node = [i \in 1..(merged + 1) |->
                IF i = 1 THEN element
                ELSE Parent(peaks[Len(peaks) - i + 2], node[i - 1])]
  BY <1>2 DEF PushedNodes
<1> HIDE DEF node
<1>4. node[1] = element
  BY <1>3
<1>5. ASSUME NEW i \in 1..merged
      PROVE  node[i + 1] = Hash(peaks[Len(peaks) - i + 1], node[i])
  <2>1. i + 1 \in 1..(merged + 1) /\ i + 1 # 1 /\ (i + 1) - 1 = i
    OBVIOUS
  <2>2. node[i + 1] = Hash(peaks[Len(peaks) - (i + 1) + 2], node[(i + 1) - 1])
    BY <1>3, <2>1 DEF Parent
  <2>3. Len(peaks) - (i + 1) + 2 = Len(peaks) - i + 1
    OBVIOUS
  <2> QED
    BY <2>1, <2>2, <2>3
<1>6. IsRow(node, merged + 1)
  BY <1>3 DEF IsRow
<1> QED
  BY <1>4, <1>5, <1>6 DEF node

(* The inductive invariant: the two counters append relies on agree.       *)
IInv ==
  /\ leaf_count \in Nat
  /\ \E T : nodes \in Seq(T)
  /\ Len(nodes) = SizeOfLeaves(leaf_count)

(* The empty MMR of Mmr::new.                                              *)
LEMMA InitIInv == Init => IInv
<1> SUFFICES ASSUME Init PROVE IInv
  OBVIOUS
<1>1. leaf_count = 0 /\ nodes = <<>>
  BY DEF Init
<1>2. SizeOfLeaves(0) = 0
  BY SizeOfLeavesBounds
<1>3. nodes \in Seq(Nat) /\ Len(nodes) = 0
  BY <1>1
<1> QED
  BY <1>1, <1>2, <1>3 DEF IInv

(* The leaf count says how many peaks to merge, and there are as many: the *)
(* leaf and its parents are the difference of two consecutive MMR sizes.   *)
LEMMA NodesPushed ==
  ASSUME NEW n \in Nat
  PROVE  /\ TrailingOnes[n] \in Nat
         /\ TrailingOnes[n] <= Len(RsGetPeaks(SizeOfLeaves(n)))
         /\ SizeOfLeaves(n + 1) = SizeOfLeaves(n) + (TrailingOnes[n] + 1)
<1>1. /\ TrailingOnes[n] \in Nat /\ TrailingOnes[n] <= PopCount[n]
      /\ PopCount[n + 1] + TrailingOnes[n] = PopCount[n] + 1
      /\ PopCount[n] \in Nat /\ PopCount[n + 1] \in Nat
  <2>1. TrailingOnes[n] \in Nat /\ TrailingOnes[n] <= PopCount[n]
    BY TrailingOnesBound
  <2>2. PopCount[n + 1] + TrailingOnes[n] = PopCount[n] + 1
    BY PopCountSuccessor
  <2>3. PopCount[n] \in Nat /\ PopCount[n + 1] \in Nat
    BY PopCountUnfold
  <2> QED
    BY <2>1, <2>2, <2>3
<1>2. Len(RsGetPeaks(SizeOfLeaves(n))) = PopCount[n]
  BY GetPeaksOfLeaves
<1>3. SizeOfLeaves(n + 1) = SizeOfLeaves(n) + (TrailingOnes[n] + 1)
  BY <1>1 DEF SizeOfLeaves
<1> QED
  BY <1>1, <1>2, <1>3

(* What append does to the vector of nodes: nothing to those it has, then  *)
(* the element, and each time the hash of a peak and the node before.      *)
LEMMA AppendEffect ==
  ASSUME IInv, NEW element \in Element, AppendElement(element)
  PROVE  /\ leaf_count' = leaf_count + 1
         /\ \A p \in 1..SizeOfLeaves(leaf_count) : nodes'[p] = nodes[p]
         /\ nodes'[SizeOfLeaves(leaf_count) + 1] = element
         /\ \A i \in 1..TrailingOnes[leaf_count] :
              nodes'[SizeOfLeaves(leaf_count) + 1 + i]
                = Hash(nodes[GetPeaks[Len(GetPeaks) - i + 1]],
                       nodes'[SizeOfLeaves(leaf_count) + i])
         /\ IInv'
<1> DEFINE peaks == RetrieveNodes(GetPeaks)
           m == TrailingOnes[leaf_count]
           pushed == PushedNodes(element, peaks, m)
           S == SizeOfLeaves(leaf_count)
<1>1. leaf_count \in Nat /\ Size = S
  BY DEF IInv, Size
<1>2. m \in Nat /\ m <= Len(GetPeaks) /\ SizeOfLeaves(leaf_count + 1) = S + (m + 1)
  BY <1>1, NodesPushed DEF GetPeaks
<1>3. GetPeaks \in Seq(Nat) /\ Len(GetPeaks) \in Nat
  BY <1>1, GetPeaksOfLeaves DEF GetPeaks
<1>4. /\ peaks = [i \in 1..Len(GetPeaks) |-> nodes[GetPeaks[i]]]
      /\ Len(peaks) = Len(GetPeaks)
  BY <1>3 DEF RetrieveNodes
<1>5. nodes' = nodes \o pushed /\ leaf_count' = leaf_count + 1
  BY <1>2, <1>4 DEF AppendElement, NoMergedPeaks
<1> HIDE DEF peaks
<1>6. /\ IsRow(pushed, m + 1) /\ pushed[1] = element
      /\ \A i \in 1..m : pushed[i + 1] = Hash(peaks[Len(peaks) - i + 1], pushed[i])
  <2>1. Len(peaks) \in Nat
    BY <1>3, <1>4
  <2> HIDE DEF m
  <2> QED
    BY <2>1, <1>2, PushedNodesUnfold
<1> HIDE DEF pushed
<1>7. PICK T : nodes \in Seq(T)
  BY DEF IInv
<1>8. /\ \E U : nodes \o pushed \in Seq(U)
      /\ Len(nodes \o pushed) = Len(nodes) + (m + 1)
      /\ \A i \in 1..Len(nodes) : (nodes \o pushed)[i] = nodes[i]
      /\ \A i \in 1..(m + 1) : (nodes \o pushed)[Len(nodes) + i] = pushed[i]
  <2>1. m + 1 \in Nat
    BY <1>2
  <2> HIDE DEF m
  <2> QED
    BY <1>6, <1>7, <2>1, Extend
<1>9. Len(nodes) = S /\ S \in Nat
  BY <1>1, SizeOfLeavesBounds DEF Size
<1> HIDE DEF m, S
<1>10. IInv'
  <2>1. Len(nodes') = SizeOfLeaves(leaf_count')
    BY <1>2, <1>5, <1>8, <1>9
  <2>2. leaf_count' \in Nat
    BY <1>1, <1>5
  <2> QED
    BY <1>5, <1>8, <2>1, <2>2 DEF IInv
<1>11. ASSUME NEW p \in 1..S
       PROVE  nodes'[p] = nodes[p]
  BY <1>5, <1>8, <1>9
<1>12. nodes'[S + 1] = element
  BY <1>2, <1>5, <1>6, <1>8, <1>9
<1>13. ASSUME NEW i \in 1..m
       PROVE  nodes'[S + 1 + i]
                = Hash(nodes[GetPeaks[Len(GetPeaks) - i + 1]], nodes'[S + i])
  <2>1. /\ i + 1 \in 1..(m + 1) /\ i \in 1..(m + 1) /\ S + (i + 1) = S + 1 + i
    BY <1>2, <1>9
  <2>2. nodes'[S + 1 + i] = pushed[i + 1] /\ nodes'[S + i] = pushed[i]
    BY <1>5, <1>8, <1>9, <2>1
  <2>3. Len(GetPeaks) - i + 1 \in 1..Len(GetPeaks)
    BY <1>2, <1>3
  <2>4. peaks[Len(peaks) - i + 1] = nodes[GetPeaks[Len(GetPeaks) - i + 1]]
    BY <1>4, <2>3
  <2> QED
    BY <1>6, <2>2, <2>4
<1> QED
  BY <1>5, <1>10, <1>11, <1>12, <1>13 DEF S, m

(* An append adds as many nodes as the size of one more leaf asks for.     *)
LEMMA NextIInv == IInv /\ [Next]_vars => IInv'
<1> SUFFICES ASSUME IInv, [Next]_vars PROVE IInv'
  OBVIOUS
<1>1. CASE UNCHANGED vars
  BY <1>1 DEF IInv, vars
<1>2. ASSUME NEW element \in Element, AppendElement(element)
      PROVE  IInv'
  BY <1>2, AppendEffect
<1> QED
  BY <1>1, <1>2 DEF Next

(* In every state append reaches, the vector of nodes has the length the   *)
(* leaf count asks for.                                                    *)
THEOREM InvariantHolds == Spec => []IInv
<1>1. Init => IInv
  BY InitIInv
<1>2. IInv /\ [Next]_vars => IInv'
  BY NextIInv
<1> QED
  BY <1>1, <1>2, PTL DEF Spec

(* The number of nodes of the Rust MMR is always the one an MMR of         *)
(* leaf_count leaves has, whatever was appended and whatever the hash.     *)
THEOREM NodeCountCorrect == Spec => []SizeFormula
<1>1. IInv => SizeFormula
  BY DEF IInv, SizeFormula, Size
<1> QED
  BY <1>1, InvariantHolds, PTL

(* The assertion "Invalid node count" of Mmr::get_peaks never fires, and   *)
(* append always finds the peaks it merges.                                *)
THEOREM AppendNeverPanics == Spec => []PeaksSuffice
<1>1. IInv => PeaksSuffice
  BY GetPeaksOfLeaves, NodesPushed DEF IInv, PeaksSuffice, GetPeaks, Size
<1> QED
  BY <1>1, InvariantHolds, PTL

-----------------------------------------------------------------------------
(* The arithmetic of the accumulator is the one of the MMR.                *)
LEMMA SameArithmetic ==
  /\ Abstract!Pow2 = Pow2
  /\ \A n : Abstract!SizeOfLeaves(n) = SizeOfLeaves(n)
  /\ \A n : Abstract!BitLength(n) = BitLength(n)
<1>1. Abstract!Pow2 = Pow2
  BY DEF Abstract!Pow2, Pow2
<1>2. Abstract!PopCount = PopCount
  BY DEF Abstract!PopCount, PopCount
<1>3. ASSUME NEW n
      PROVE  Abstract!SizeOfLeaves(n) = SizeOfLeaves(n)
  BY <1>2 DEF Abstract!SizeOfLeaves, SizeOfLeaves
<1>4. ASSUME NEW n
      PROVE  Abstract!BitLength(n) = BitLength(n)
  BY <1>1 DEF Abstract!BitLength, BitLength
<1> QED
  BY <1>1, <1>3, <1>4

(* The perfect trees of height h over a log, from those one level lower.   *)
Level(h, below, log) ==
  [from \in Nat |->
     IF h = 0 THEN log[from + 1]
     ELSE Hash(below[from], below[from + Pow2[h - 1]])]

IsForest(f, n, log) == f = [h \in 0..n |-> Level(h, f[h - 1], log)]

LEMMA LowestLevel ==
  ASSUME NEW f, NEW g, NEW log
  PROVE  Level(0, f, log) = Level(0, g, log)
BY DEF Level

LEMMA ForestExists ==
  ASSUME NEW log, NEW m \in Nat
  PROVE  \E f : IsForest(f, m, log)
<1> DEFINE E == {n \in Nat : \E f : IsForest(f, n, log)}
<1>1. 0 \in E
  <2> DEFINE g == [h \in 0..0 |-> Level(0, log, log)]
  <2>1. \A h \in 0..0 : h = 0 /\ Level(0, log, log) = Level(0, g[0 - 1], log)
    BY LowestLevel
  <2>2. IsForest(g, 0, log)
    BY <2>1 DEF IsForest
  <2>3. \E e : IsForest(e, 0, log)
    <3> HIDE DEF g
    <3> QED
      BY <2>2
  <2> QED
    BY <2>3
<1>2. ASSUME NEW n \in Nat, n \in E
      PROVE  n + 1 \in E
  <2>1. PICK f : IsForest(f, n, log)
    BY <1>2
  <2> DEFINE g == [h \in 0..(n + 1) |-> Level(h, f[h - 1], log)]
  <2>2. f = [h \in 0..n |-> Level(h, f[h - 1], log)]
    BY <2>1 DEF IsForest
  <2>3. \A h \in 0..n : g[h] = f[h]
    BY <2>2
  <2>4. ASSUME NEW h \in 0..(n + 1)
        PROVE  Level(h, f[h - 1], log) = Level(h, g[h - 1], log)
    <3>1. CASE h = 0
      <4> HIDE DEF g
      <4> QED
        BY <3>1, LowestLevel
    <3>2. CASE h # 0
      <4>1. h - 1 \in 0..n
        BY <3>2
      <4>2. g[h - 1] = f[h - 1]
        BY <2>3, <4>1
      <4> QED
        BY <4>2
    <3> QED
      BY <3>1, <3>2
  <2>5. g = [h \in 0..(n + 1) |-> Level(h, g[h - 1], log)]
    BY <2>4
  <2>6. \E e : IsForest(e, n + 1, log)
    <3>1. IsForest(g, n + 1, log)
      BY <2>5 DEF IsForest
    <3> HIDE DEF g
    <3> QED
      BY <3>1
  <2>7. n + 1 \in Nat
    OBVIOUS
  <2> QED
    BY <2>6, <2>7
<1> HIDE DEF E
<1>3. m \in E
  BY <1>1, <1>2, NatSetInduction
<1> QED
  BY <1>3 DEF E

LEMMA ForestsAgree ==
  ASSUME NEW log, NEW m \in Nat, NEW n \in Nat, m <= n,
         NEW f, IsForest(f, m, log), NEW g, IsForest(g, n, log)
  PROVE  f[m] = g[m]
<1> DEFINE E == {h \in Nat : h <= m => f[h] = g[h]}
<1>1. /\ \A h \in 0..m : f[h] = Level(h, f[h - 1], log)
      /\ \A h \in 0..n : g[h] = Level(h, g[h - 1], log)
  BY DEF IsForest
<1>2. 0 \in E
  <2>1. f[0] = Level(0, f[0 - 1], log) /\ g[0] = Level(0, g[0 - 1], log)
    BY <1>1
  <2> QED
    BY <2>1, LowestLevel
<1>3. ASSUME NEW h \in Nat, h \in E
      PROVE  h + 1 \in E
  <2>1. (h + 1) - 1 = h
    OBVIOUS
  <2>2. ASSUME h + 1 <= m
        PROVE  f[h + 1] = g[h + 1]
    <3>1. f[h] = g[h]
      BY <1>3, <2>2
    <3>2. h + 1 \in 0..m /\ h + 1 \in 0..n
      BY <2>2
    <3>3. /\ f[h + 1] = Level(h + 1, f[h], log)
          /\ g[h + 1] = Level(h + 1, g[h], log)
      BY <1>1, <2>1, <3>2
    <3> QED
      BY <3>1, <3>3
  <2> QED
    BY <2>2
<1> HIDE DEF E
<1>4. m \in E
  BY <1>2, <1>3, NatSetInduction
<1> QED
  BY <1>4 DEF E

(* The trees of the accumulator satisfy the equation that defines them.    *)
LEMMA TreeUnfold ==
  ASSUME NEW log
  PROVE  /\ \A from \in Nat : Abstract!TreeOver(log)[0][from] = log[from + 1]
         /\ \A h, from \in Nat :
              Abstract!TreeOver(log)[h + 1][from]
                = Hash(Abstract!TreeOver(log)[h][from],
                       Abstract!TreeOver(log)[h][from + Pow2[h]])
<1> DEFINE F == [n \in Nat |-> (CHOOSE f : IsForest(f, n, log))[n]]
           G == Abstract!TreeOver(log)
<1>1. ASSUME NEW n \in Nat
      PROVE  F[n] = Level(n, F[n - 1], log)
  <2> DEFINE f == CHOOSE e : IsForest(e, n, log)
             g == CHOOSE e : IsForest(e, n - 1, log)
  <2>1. IsForest(f, n, log)
    BY ForestExists
  <2>2. F[n] = Level(n, f[n - 1], log)
    <3>1. F[n] = f[n]
      OBVIOUS
    <3> HIDE DEF F, f
    <3>2. n \in 0..n
      OBVIOUS
    <3> QED
      BY <2>1, <3>1, <3>2 DEF IsForest
  <2>3. CASE n = 0
    <3> HIDE DEF F, f
    <3> QED
      BY <2>2, <2>3, LowestLevel
  <2>4. CASE n # 0
    <3>1. n - 1 \in Nat /\ n - 1 <= n
      BY <2>4
    <3>2. IsForest(g, n - 1, log)
      BY <3>1, ForestExists
    <3>3. F[n - 1] = g[n - 1]
      BY <3>1
    <3> HIDE DEF F, f, g
    <3>4. g[n - 1] = f[n - 1]
      BY <2>1, <3>1, <3>2, ForestsAgree
    <3> QED
      BY <2>2, <3>3, <3>4
  <2> QED
    BY <2>3, <2>4
<1>2. F = [n \in Nat |-> Level(n, F[n - 1], log)]
  <2>1. F = [n \in Nat |-> F[n]]
    OBVIOUS
  <2> HIDE DEF F
  <2>2. [n \in Nat |-> F[n]] = [n \in Nat |-> Level(n, F[n - 1], log)]
    BY <1>1
  <2> QED
    BY <2>1, <2>2
<1>3. \E e : e = [n \in Nat |-> Level(n, e[n - 1], log)]
  <2> HIDE DEF F
  <2> QED
    BY <1>2
<1>4. G = CHOOSE e : e = [n \in Nat |-> Level(n, e[n - 1], log)]
  BY SameArithmetic DEF Abstract!TreeOver, Level
<1> HIDE DEF F, G
<1>5. G = [n \in Nat |-> Level(n, G[n - 1], log)]
  BY <1>3, <1>4
<1>6. ASSUME NEW from \in Nat
      PROVE  G[0][from] = log[from + 1]
  <2>1. G[0] = Level(0, G[0 - 1], log)
    BY <1>5
  <2> QED
    BY <2>1 DEF Level
<1>7. ASSUME NEW h \in Nat, NEW from \in Nat
      PROVE  G[h + 1][from] = Hash(G[h][from], G[h][from + Pow2[h]])
  <2>1. h + 1 \in Nat /\ (h + 1) - 1 = h /\ h + 1 # 0
    OBVIOUS
  <2>2. G[h + 1] = Level(h + 1, G[h], log)
    BY <1>5, <2>1
  <2> QED
    BY <2>1, <2>2 DEF Level
<1> QED
  BY <1>6, <1>7 DEF G

(* A tree depends on the leaves below it alone.                            *)
LEMMA TreeOfLeaves ==
  ASSUME NEW log, NEW new, NEW h \in Nat, NEW from \in Nat,
         \A i \in (from + 1)..(from + Pow2[h]) : log[i] = new[i]
  PROVE  Abstract!TreeOver(log)[h][from] = Abstract!TreeOver(new)[h][from]
<1> DEFINE T(l) == Abstract!TreeOver(l)
           E == {g \in Nat : \A o \in Nat :
                   (\A i \in (o + 1)..(o + Pow2[g]) : log[i] = new[i])
                     => T(log)[g][o] = T(new)[g][o]}
<1>1. 0 \in E
  <2> SUFFICES ASSUME NEW o \in Nat,
                      \A i \in (o + 1)..(o + Pow2[0]) : log[i] = new[i]
               PROVE  T(log)[0][o] = T(new)[0][o]
    OBVIOUS
  <2>1. Pow2[0] = 1
    BY Pow2Unfold
  <2>2. log[o + 1] = new[o + 1]
    BY <2>1
  <2> QED
    BY <2>2, TreeUnfold
<1>2. ASSUME NEW g \in Nat, g \in E
      PROVE  g + 1 \in E
  <2> SUFFICES ASSUME NEW o \in Nat,
                      \A i \in (o + 1)..(o + Pow2[g + 1]) : log[i] = new[i]
               PROVE  T(log)[g + 1][o] = T(new)[g + 1][o]
    OBVIOUS
  <2>1. Pow2[g + 1] = 2 * Pow2[g] /\ Pow2[g] \in Nat
    BY Pow2Unfold, Pow2Exceeds
  <2> DEFINE e == Pow2[g]
             u == o + e
  <2>2. u \in Nat
    BY <2>1
  <2>3. \A i \in (o + 1)..(o + e) : log[i] = new[i]
    BY <2>1
  <2>4. \A i \in (u + 1)..(u + e) : log[i] = new[i]
    BY <2>1
  <2>5. T(log)[g][o] = T(new)[g][o]
    BY <1>2, <2>3
  <2>6. T(log)[g][u] = T(new)[g][u]
    <3> HIDE DEF u
    <3> QED
      BY <1>2, <2>2, <2>4
  <2>7. ASSUME NEW l
        PROVE  T(l)[g + 1][o] = Hash(T(l)[g][o], T(l)[g][u])
    BY TreeUnfold
  <2> HIDE DEF T, u
  <2> QED
    BY <2>5, <2>6, <2>7
<1> HIDE DEF E
<1>3. h \in E
  BY <1>1, <1>2, NatSetInduction
<1> QED
  BY <1>3 DEF E

(* The leaves under a node are leaves the MMR has.                         *)
LEMMA NodeGeometry ==
  ASSUME NEW n \in Nat, NEW k \in 0..(n - 1), NEW h \in 0..TrailingOnes[k]
  PROVE  /\ h \in Nat /\ k \in Nat /\ Pow2[h] \in Nat
         /\ k + 1 - Pow2[h] \in Nat
         /\ (k + 1 - Pow2[h]) + Pow2[h] = k + 1
         /\ SizeOfLeaves(k) + 1 + h \in 1..SizeOfLeaves(n)
<1>1. TrailingOnes[k] \in Nat /\ k \in Nat /\ k + 1 <= n /\ k + 1 \in Nat
  BY TrailingOnesUnfold
<1>2. h \in Nat /\ h <= TrailingOnes[k]
  BY <1>1
<1>3. PICK q \in Nat : k = q * Pow2[h] + (Pow2[h] - 1)
  BY <1>1, <1>2, TrailingOnesMultiple
<1>4. Pow2[h] \in Nat /\ Pow2[h] >= 1
  BY <1>2, Pow2Unfold, Pow2Exceeds
<1> DEFINE e == Pow2[h]
           x == q * Pow2[h]
<1>5. x \in Nat
  BY <1>4
<1>6. k + 1 - e = x
  <2> HIDE DEF x, e
  <2>1. k = x + (e - 1) /\ e \in Nat
    BY <1>3, <1>4 DEF x, e
  <2> QED
    BY <1>5, <2>1
<1>7. SizeOfLeaves(k + 1) = SizeOfLeaves(k) + 1 + TrailingOnes[k]
  BY <1>1, SizeSuccessor
<1>8. SizeOfLeaves(k + 1) <= SizeOfLeaves(n)
  BY <1>1, SizeMonotone
<1>9. SizeOfLeaves(k) \in Nat /\ SizeOfLeaves(n) \in Nat
  BY <1>1, SizeOfLeavesBounds
<1>10. SizeOfLeaves(k) + 1 + h \in 1..SizeOfLeaves(n)
  BY <1>1, <1>2, <1>7, <1>8, <1>9
<1> QED
  BY <1>1, <1>2, <1>4, <1>5, <1>6, <1>10

(* The leaves of the MMR are a log, which an append extends by its element *)
(* at the end.                                                             *)
LEMMA AppendLeaves ==
  ASSUME IInv, NEW element \in Element, AppendElement(element)
  PROVE  /\ Leaves' = Append(Leaves, element)
         /\ \A i \in 1..leaf_count : Leaves'[i] = Leaves[i]
         /\ Leaves'[leaf_count + 1] = element
<1>1. /\ leaf_count' = leaf_count + 1
      /\ \A p \in 1..SizeOfLeaves(leaf_count) : nodes'[p] = nodes[p]
      /\ nodes'[SizeOfLeaves(leaf_count) + 1] = element
  BY AppendEffect
<1>2. leaf_count \in Nat
  BY DEF IInv
<1>3. Leaves' = [i \in 1..(leaf_count + 1) |-> nodes'[SizeOfLeaves(i - 1) + 1]]
  BY <1>1 DEF Leaves
<1>4. ASSUME NEW i \in 1..leaf_count
      PROVE  nodes'[SizeOfLeaves(i - 1) + 1] = nodes[SizeOfLeaves(i - 1) + 1]
  <2> DEFINE k == i - 1
  <2>1. k \in 0..(leaf_count - 1) /\ k \in Nat
    BY <1>2
  <2> HIDE DEF k
  <2>2. TrailingOnes[k] \in Nat /\ SizeOfLeaves(k) \in Nat
    BY <2>1, TrailingOnesUnfold, SizeOfLeavesBounds
  <2>3. 0 \in 0..TrailingOnes[k]
    BY <2>2
  <2>4. SizeOfLeaves(k) + 1 + 0 \in 1..SizeOfLeaves(leaf_count)
    BY <1>2, <2>1, <2>3, NodeGeometry
  <2>5. SizeOfLeaves(k) + 1 \in 1..SizeOfLeaves(leaf_count)
    BY <2>2, <2>4
  <2> QED
    BY <1>1, <2>5 DEF k
<1>5. Leaves = [i \in 1..leaf_count |-> nodes[SizeOfLeaves(i - 1) + 1]]
  BY DEF Leaves
<1>6. \A i \in 1..leaf_count : Leaves'[i] = Leaves[i]
  BY <1>2, <1>3, <1>4, <1>5
<1>7. Leaves'[leaf_count + 1] = element
  BY <1>1, <1>2, <1>3
<1>8. Len(Leaves) = leaf_count
  BY <1>2, <1>5
<1>9. Leaves' = Append(Leaves, element)
  <2> DEFINE T == {Leaves[i] : i \in 1..leaf_count} \cup {element}
             longer == Append(Leaves, element)
  <2>1. Leaves \in [1..leaf_count -> T]
    BY <1>5
  <2>2. element \in T
    OBVIOUS
  <2> HIDE DEF T
  <2>3. Leaves \in Seq(T)
    BY <1>2, <2>1, SeqDef
  <2>4. /\ longer \in Seq(T) /\ Len(longer) = leaf_count + 1
        /\ \A i \in 1..leaf_count : longer[i] = Leaves[i]
        /\ longer[leaf_count + 1] = element
    BY <1>8, <2>2, <2>3, AppendProperties
  <2> HIDE DEF longer
  <2>5. longer \in [1..(leaf_count + 1) -> T]
    BY <2>4, LenProperties
  <2>6. ASSUME NEW i \in 1..(leaf_count + 1)
        PROVE  Leaves'[i] = longer[i]
    <3>1. i \in 1..leaf_count \/ i = leaf_count + 1
      BY <1>2
    <3> QED
      BY <1>6, <1>7, <2>4, <3>1
  <2>7. Leaves' = [i \in 1..(leaf_count + 1) |-> Leaves'[i]]
    BY <1>3
  <2> QED
    BY <2>5, <2>6, <2>7 DEF longer
<1> QED
  BY <1>6, <1>7, <1>9

(* The node of height h that the leaf k brought is the tree over the 2^h   *)
(* leaves that end with it.                                                *)
NodeIsTree(vector, log, k, h) ==
  vector[SizeOfLeaves(k) + 1 + h] = Abstract!TreeOver(log)[h][k + 1 - Pow2[h]]

(* An append leaves the old nodes roots of the same trees.                 *)
LEMMA OldNodesStayTrees ==
  ASSUME IInv, NodesArePerfectTrees,
         NEW element \in Element, AppendElement(element),
         NEW k \in 0..(leaf_count - 1), NEW h \in 0..TrailingOnes[k]
  PROVE  NodeIsTree(nodes', Leaves', k, h)
<1> DEFINE from == k + 1 - Pow2[h]
           p == SizeOfLeaves(k) + 1 + h
<1>1. leaf_count \in Nat
  BY DEF IInv
<1>2. /\ h \in Nat /\ k \in Nat /\ Pow2[h] \in Nat /\ from \in Nat
      /\ from + Pow2[h] = k + 1 /\ p \in 1..SizeOfLeaves(leaf_count)
  BY <1>1, NodeGeometry
<1>3. nodes[p] = Abstract!TreeOver(Leaves)[h][from]
  BY DEF NodesArePerfectTrees
<1>4. nodes'[p] = nodes[p]
  BY <1>2, AppendEffect
<1>5. \A i \in (from + 1)..(from + Pow2[h]) : Leaves[i] = Leaves'[i]
  <2>1. \A i \in 1..leaf_count : Leaves'[i] = Leaves[i]
    BY AppendLeaves
  <2>2. k + 1 <= leaf_count
    BY <1>1
  <2> HIDE DEF from
  <2>3. (from + 1)..(from + Pow2[h]) \subseteq 1..leaf_count
    BY <1>1, <1>2, <2>2
  <2> QED
    BY <2>1, <2>3
<1> HIDE DEF from, p
<1>6. Abstract!TreeOver(Leaves)[h][from] = Abstract!TreeOver(Leaves')[h][from]
  <2>1. h \in Nat /\ from \in Nat
    BY <1>2
  <2> DEFINE log == Leaves
             new == Leaves'
  <2>2. \A i \in (from + 1)..(from + Pow2[h]) : log[i] = new[i]
    BY <1>5
  <2> HIDE DEF log, new
  <2>3. Abstract!TreeOver(log)[h][from] = Abstract!TreeOver(new)[h][from]
    BY <2>1, <2>2, TreeOfLeaves
  <2> QED
    BY <2>3 DEF log, new
<1>7. nodes'[p] = Abstract!TreeOver(Leaves')[h][from]
  BY <1>3, <1>4, <1>6
<1> QED
  BY <1>7 DEF NodeIsTree, from, p

(* Every node an append pushes is the root of the tree over the leaves     *)
(* that end with the element: the peak it merges with is the tree to the   *)
(* left of the node pushed before.                                         *)
LEMMA NewNodesAreTrees ==
  ASSUME IInv, NodesArePerfectTrees,
         NEW element \in Element, AppendElement(element),
         NEW h \in 0..TrailingOnes[leaf_count]
  PROVE  NodeIsTree(nodes', Leaves', leaf_count, h)
<1> DEFINE n == leaf_count
           m == TrailingOnes[n]
           E == {g \in Nat : g <= m => NodeIsTree(nodes', Leaves', n, g)}
<1>1. n \in Nat /\ m \in Nat /\ SizeOfLeaves(n) \in Nat
  BY SizeOfLeavesBounds, TrailingOnesUnfold DEF IInv
<1>2. 0 \in E
  <2>1. nodes'[SizeOfLeaves(n) + 1] = element /\ Leaves'[n + 1] = element
    BY AppendEffect, AppendLeaves
  <2>2. Abstract!TreeOver(Leaves')[0][n] = Leaves'[n + 1]
    BY <1>1, TreeUnfold
  <2>3. n + 1 - Pow2[0] = n /\ SizeOfLeaves(n) + 1 + 0 = SizeOfLeaves(n) + 1
    BY <1>1, Pow2Unfold
  <2>4. NodeIsTree(nodes', Leaves', n, 0)
    BY <2>1, <2>2, <2>3 DEF NodeIsTree
  <2> QED
    BY <2>4
<1>3. ASSUME NEW g \in Nat, g \in E
      PROVE  g + 1 \in E
  <2> SUFFICES ASSUME g + 1 <= m
               PROVE  NodeIsTree(nodes', Leaves', n, g + 1)
    OBVIOUS
  <2> DEFINE i == g + 1
             peaks == RsGetPeaks(SizeOfLeaves(n))
             k == n - Pow2[g]
             a == n + 1 - Pow2[i]
             T == Abstract!TreeOver(Leaves')
  <2>1. i \in 1..m /\ i - 1 = g
    BY <1>1
  <2>2. NodeIsTree(nodes', Leaves', n, g)
    BY <1>1, <1>3
  <2>3. /\ a \in Nat /\ Pow2[i] = 2 * Pow2[g]
        /\ peaks[Len(peaks) - i + 1] = SizeOfLeaves(k) + 1 + g
        /\ k \in Nat /\ k < n /\ g <= TrailingOnes[k]
        /\ k + 1 - Pow2[g] = a
    <3> HIDE DEF i
    <3>1. i \in 1..TrailingOnes[n]
      BY <2>1
    <3> QED
      BY <1>1, <2>1, <3>1, MergedPeak
  <2>4. Pow2[g] \in Nat
    BY Pow2Unfold, Pow2Exceeds
  <2>5. nodes'[SizeOfLeaves(n) + 1 + i]
          = Hash(nodes[SizeOfLeaves(k) + 1 + g], nodes'[SizeOfLeaves(n) + i])
    <3>1. GetPeaks = peaks
      BY DEF IInv, GetPeaks, Size
    <3> HIDE DEF i, peaks, k
    <3> QED
      BY <2>1, <2>3, <3>1, AppendEffect
  <2>6. nodes[SizeOfLeaves(k) + 1 + g] = T[g][a]
    <3>1. k \in 0..(n - 1) /\ g \in 0..TrailingOnes[k]
      <4>1. TrailingOnes[k] \in Nat
        BY <2>3, TrailingOnesUnfold
      <4> HIDE DEF k
      <4> QED
        BY <1>1, <2>3, <4>1
    <3> HIDE DEF k, a
    <3>2. SizeOfLeaves(k) + 1 + g \in 1..SizeOfLeaves(n)
      BY <1>1, <3>1, NodeGeometry
    <3>3. nodes'[SizeOfLeaves(k) + 1 + g] = nodes[SizeOfLeaves(k) + 1 + g]
      BY <3>2, AppendEffect
    <3>4. NodeIsTree(nodes', Leaves', k, g)
      BY <3>1, OldNodesStayTrees
    <3> QED
      BY <2>3, <3>3, <3>4 DEF NodeIsTree
  <2>7. nodes'[SizeOfLeaves(n) + i] = T[g][a + Pow2[g]]
    <3>1. n + 1 - Pow2[g] = a + Pow2[g]
      BY <1>1, <2>3, <2>4
    <3>2. SizeOfLeaves(n) + 1 + g = SizeOfLeaves(n) + i
      <4>1. SizeOfLeaves(n) \in Nat /\ g \in Nat /\ i = g + 1
        BY <1>1, SizeOfLeavesBounds
      <4> HIDE DEF i
      <4> QED
        BY <4>1
    <3> HIDE DEF a, i
    <3> QED
      BY <2>2, <3>1, <3>2 DEF NodeIsTree
  <2>8. T[g + 1][a] = Hash(T[g][a], T[g][a + Pow2[g]])
    BY <2>3, TreeUnfold
  <2> HIDE DEF T
  <2>9. nodes'[SizeOfLeaves(n) + 1 + i] = T[g + 1][a]
    BY <2>5, <2>6, <2>7, <2>8
  <2> QED
    BY <2>9 DEF NodeIsTree, T
<1>4. h \in Nat /\ h <= m
  BY <1>1
<1> HIDE DEF E
<1>5. h \in E
  BY <1>2, <1>3, <1>4, NatSetInduction
<1> QED
  BY <1>4, <1>5 DEF E

(* Both invariants are kept by an append.                                  *)
LEMMA NextTrees ==
  IInv /\ NodesArePerfectTrees /\ [Next]_vars => NodesArePerfectTrees'
<1> SUFFICES ASSUME IInv, NodesArePerfectTrees, [Next]_vars
             PROVE  NodesArePerfectTrees'
  OBVIOUS
<1>1. CASE UNCHANGED vars
  BY <1>1 DEF NodesArePerfectTrees, Leaves, vars
<1>2. ASSUME NEW element \in Element, AppendElement(element)
      PROVE  NodesArePerfectTrees'
  <2>1. leaf_count \in Nat /\ leaf_count' = leaf_count + 1
    BY <1>2, AppendEffect DEF IInv
  <2>2. ASSUME NEW k \in 0..(leaf_count' - 1), NEW h \in 0..TrailingOnes[k]
        PROVE  NodeIsTree(nodes', Leaves', k, h)
    <3>1. k \in 0..(leaf_count - 1) \/ k = leaf_count
      BY <2>1
    <3> QED
      BY <1>2, <3>1, OldNodesStayTrees, NewNodesAreTrees
  <2> QED
    BY <2>2 DEF NodesArePerfectTrees, NodeIsTree
<1> QED
  BY <1>1, <1>2 DEF Next

(* For every hash and every number of leaves, each node of the vector the  *)
(* appends build is the root of the perfect tree over the leaves below it, *)
(* as the accumulator defines it from the leaves alone.                    *)
THEOREM NodesAreTrees == Spec => []NodesArePerfectTrees
<1>1. Init => NodesArePerfectTrees
  BY DEF Init, NodesArePerfectTrees
<1>2. IInv /\ NodesArePerfectTrees /\ [Next]_vars => NodesArePerfectTrees'
  BY NextTrees
<1> QED
  BY <1>1, <1>2, InvariantHolds, PTL DEF Spec

-----------------------------------------------------------------------------
(* The hash over the last leaves of a log, from the hash over fewer.       *)
OverStep(left, rest, log) ==
  LET h    == BitLength(left) - 1
      tree == Abstract!TreeOver(log)[h][Len(log) - left]
  IN  IF left = Pow2[h] THEN tree ELSE Hash(tree, rest)

Rest(left) == left - Pow2[BitLength(left) - 1]

IsOver(f, m, log) == f = [left \in 1..m |-> OverStep(left, f[Rest(left)], log)]

LEMMA RestBound ==
  ASSUME NEW left \in Nat, left >= 1
  PROVE  /\ Rest(left) \in 0..(left - 1)
         /\ Rest(left) = 0 <=> left = Pow2[BitLength(left) - 1]
<1>1. /\ BitLength(left) - 1 \in Nat /\ Pow2[BitLength(left) - 1] <= left
  BY BitLengthSpec
<1>2. Pow2[BitLength(left) - 1] \in Nat /\ Pow2[BitLength(left) - 1] >= 1
  BY <1>1, Pow2Unfold, Pow2Exceeds
<1> QED
  BY <1>1, <1>2 DEF Rest

LEMMA WholeTree ==
  ASSUME NEW left, NEW log, left = Pow2[BitLength(left) - 1], NEW x, NEW y
  PROVE  OverStep(left, x, log) = OverStep(left, y, log)
BY DEF OverStep

LEMMA OverExists ==
  ASSUME NEW log, NEW m \in Nat
  PROVE  \E f : IsOver(f, m, log)
<1> DEFINE E == {n \in Nat : \E f : IsOver(f, n, log)}
<1>1. 0 \in E
  <2> DEFINE g == [left \in 1..0 |-> log]
  <2>1. IsOver(g, 0, log)
    BY DEF IsOver
  <2>2. \E e : IsOver(e, 0, log)
    <3> HIDE DEF g
    <3> QED
      BY <2>1
  <2> QED
    BY <2>2
<1>2. ASSUME NEW n \in Nat, n \in E
      PROVE  n + 1 \in E
  <2>1. PICK f : IsOver(f, n, log)
    BY <1>2
  <2> DEFINE g == [left \in 1..(n + 1) |-> OverStep(left, f[Rest(left)], log)]
  <2>2. f = [left \in 1..n |-> OverStep(left, f[Rest(left)], log)]
    BY <2>1 DEF IsOver
  <2>3. \A left \in 1..n : g[left] = f[left]
    BY <2>2
  <2>4. ASSUME NEW left \in 1..(n + 1)
        PROVE  OverStep(left, f[Rest(left)], log) = OverStep(left, g[Rest(left)], log)
    <3>1. left \in Nat /\ left >= 1
      OBVIOUS
    <3>2. /\ Rest(left) \in 0..(left - 1)
          /\ Rest(left) = 0 <=> left = Pow2[BitLength(left) - 1]
      BY <3>1, RestBound
    <3>3. CASE Rest(left) = 0
      <4> HIDE DEF g
      <4> QED
        BY <3>2, <3>3, WholeTree
    <3>4. CASE Rest(left) # 0
      <4>1. Rest(left) \in 1..n
        BY <3>2, <3>4
      <4>2. g[Rest(left)] = f[Rest(left)]
        BY <2>3, <4>1
      <4> QED
        BY <4>2
    <3> QED
      BY <3>3, <3>4
  <2>5. g = [left \in 1..(n + 1) |-> OverStep(left, g[Rest(left)], log)]
    BY <2>4
  <2>6. \E e : IsOver(e, n + 1, log)
    <3>1. IsOver(g, n + 1, log)
      BY <2>5 DEF IsOver
    <3> HIDE DEF g
    <3> QED
      BY <3>1
  <2>7. n + 1 \in Nat
    OBVIOUS
  <2> QED
    BY <2>6, <2>7
<1> HIDE DEF E
<1>3. m \in E
  BY <1>1, <1>2, NatSetInduction
<1> QED
  BY <1>3 DEF E

(* The hashes of the accumulator satisfy the equation that defines them.   *)
LEMMA OverUnfold ==
  ASSUME NEW log, Len(log) \in Nat
  PROVE  IsOver(Abstract!HashOver(log), Len(log), log)
<1> DEFINE G == Abstract!HashOver(log)
<1>1. \E f : IsOver(f, Len(log), log)
  BY OverExists
<1>2. G = CHOOSE f : f = [left \in 1..Len(log) |->
                            OverStep(left, f[Rest(left)], log)]
  BY SameArithmetic DEF Abstract!HashOver, OverStep, Rest
<1> HIDE DEF G
<1>3. G = CHOOSE f : IsOver(f, Len(log), log)
  BY <1>2 DEF IsOver
<1> QED
  BY <1>1, <1>3 DEF G

(* Bagging hashes the peaks from the right.                                *)
FromRight(peaks) == [i \in 1..Len(peaks) |-> peaks[Len(peaks) - i + 1]]

LEMMA BagPeaksUnfold ==
  ASSUME NEW peaks, Len(peaks) \in Nat
  PROVE  \E bag : /\ IsChain(bag, Last(peaks), FromRight(peaks), Len(peaks))
                  /\ BagPeaks(peaks) = bag[Len(peaks)]
<1> DEFINE left == FromRight(peaks)
           Is(f) == IsChain(f, Last(peaks), left, Len(peaks))
           bag == CHOOSE f : f = [i \in 1..Len(peaks) |->
                     IF i = 1 THEN Last(peaks)
                     ELSE Hash(peaks[Len(peaks) - i + 1], f[i - 1])]
<1>1. \E f : Is(f)
  <2> HIDE DEF left
  <2> QED
    BY ChainExists
<1>2. bag = CHOOSE f : Is(f)
  BY DEF IsChain, FromRight
<1>3. BagPeaks(peaks) = bag[Len(peaks)]
  BY DEF BagPeaks
<1> HIDE DEF bag
<1>4. Is(bag)
  <2> HIDE DEF Is
  <2> QED
    BY <1>1, <1>2
<1> QED
  BY <1>3, <1>4

(* The hash the last peaks bag to is the hash over the leaves below them:  *)
(* as many of the peaks as r has ones, for the last r leaves.              *)
LEMMA BagIsHashOver ==
  ASSUME IInv, NodesArePerfectTrees, leaf_count # 0
  PROVE  BagPeaks(RetrieveNodes(GetPeaks)) = Abstract!HashOver(Leaves)[leaf_count]
<1> DEFINE n == leaf_count
           P == RsGetPeaks(SizeOfLeaves(n))
           V == RetrieveNodes(GetPeaks)
           L == Leaves
           T == Abstract!TreeOver(Leaves)
           O == Abstract!HashOver(Leaves)
<1>1. n \in Nat /\ n >= 1
  BY DEF IInv
<1>2. GetPeaks = P
  BY DEF IInv, GetPeaks, Size
<1>3. P \in Seq(Nat) /\ Len(P) = PopCount[n] /\ Len(P) \in Nat /\ DOMAIN P = 1..Len(P)
  BY <1>1, GetPeaksOfLeaves
<1>4. /\ Len(V) = Len(P)
      /\ \A i \in 1..Len(P) : V[i] = nodes[P[i]]
  BY <1>2, <1>3 DEF RetrieveNodes
<1>5. Len(L) = n
  BY <1>1 DEF Leaves
<1> HIDE DEF V, P, L
<1>6. PICK bag : /\ IsChain(bag, Last(V), FromRight(V), Len(V))
                 /\ BagPeaks(V) = bag[Len(V)]
  BY <1>3, <1>4, BagPeaksUnfold
<1>7. /\ bag = [i \in 1..Len(V) |->
                  IF i = 1 THEN Last(V) ELSE Hash(FromRight(V)[i], bag[i - 1])]
  BY <1>6 DEF IsChain
<1>8. \A left \in 1..n : O[left] = OverStep(left, O[Rest(left)], L)
  <2>1. IsOver(Abstract!HashOver(L), Len(L), L)
    BY <1>1, <1>5, OverUnfold
  <2>2. O = Abstract!HashOver(L)
    BY DEF L
  <2> HIDE DEF O
  <2> QED
    BY <1>5, <2>1, <2>2 DEF IsOver
<1>9. \A a, j \in Nat : Block(n, a, j) =>
         /\ PopCount[a] + 1 \in DOMAIN P
         /\ P[PopCount[a] + 1] = SizeOfLeaves(a + Pow2[j])
  BY <1>1, PeaksOfBlocks DEF P
<1> DEFINE Whole(r) == \E b \in Nat : r < Pow2[b] /\ Multiple(n - r, b)
           E == {r \in Nat : r \in 1..n /\ Whole(r) => bag[PopCount[r]] = O[r]}
<1>10. ASSUME NEW r \in Nat, \A s \in Nat : s < r => s \in E
       PROVE  r \in E
  <2> SUFFICES ASSUME r \in 1..n, Whole(r)
               PROVE  bag[PopCount[r]] = O[r]
    OBVIOUS
  <2> DEFINE j == BitLength(r) - 1
             a == n - r
             s == r - Pow2[j]
             c == PopCount[r]
  <2>1. PICK b \in Nat : r < Pow2[b] /\ Multiple(n - r, b)
    OBVIOUS
  <2>2. /\ j \in Nat /\ Block(n, a, j)
        /\ s \in Nat /\ s < r /\ s < Pow2[j]
        /\ Multiple(n - s, j) /\ n - s = a + Pow2[j]
        /\ c = PopCount[s] + 1
        /\ PopCount[n] = PopCount[a] + c
    <3>1. j = BitLength(r) - 1
      OBVIOUS
    <3> HIDE DEF j
    <3> QED
      BY <1>1, <2>1, <3>1, LastBlocks
  <2>3. a \in Nat /\ PopCount[a] \in Nat /\ PopCount[s] \in Nat
    BY <1>1, <2>2, PopCountUnfold
  <2>4. c \in 1..Len(V) /\ Len(V) - c + 1 = PopCount[a] + 1
        /\ Len(V) - c + 1 \in 1..Len(P)
    <3>1. c = PopCount[s] + 1 /\ PopCount[n] = PopCount[a] + c
      BY <2>2
    <3> HIDE DEF c, a, s
    <3>2. c \in Nat /\ c >= 1
      BY <2>3, <3>1
    <3>3. Len(V) = PopCount[a] + c /\ Len(V) = Len(P)
      BY <1>3, <1>4, <3>1
    <3> QED
      BY <2>3, <3>2, <3>3
  <2>5. V[Len(V) - c + 1] = T[j][a]
    <3> DEFINE k == a + Pow2[j] - 1
    <3>1. /\ k \in 0..(n - 1) /\ j \in 0..TrailingOnes[k]
          /\ SizeOfLeaves(a + Pow2[j]) = SizeOfLeaves(k) + 1 + j
          /\ k + 1 - Pow2[j] = a
      <4>1. k = a + Pow2[j] - 1
        OBVIOUS
      <4> HIDE DEF j, a, k
      <4> QED
        BY <1>1, <2>2, <2>3, <4>1, PeakIsRoot
    <3> HIDE DEF j, a, k, c
    <3>2. V[Len(V) - c + 1] = nodes[P[PopCount[a] + 1]]
      BY <1>4, <2>4
    <3>3. P[PopCount[a] + 1] = SizeOfLeaves(a + Pow2[j])
      BY <1>9, <2>2, <2>3
    <3>4. nodes[SizeOfLeaves(k) + 1 + j] = T[j][k + 1 - Pow2[j]]
      BY <3>1 DEF NodesArePerfectTrees
    <3> QED
      BY <3>1, <3>2, <3>3, <3>4
  <2>6. O[r] = IF s = 0 THEN T[j][a] ELSE Hash(T[j][a], O[s])
    <3>1. O[r] = OverStep(r, O[Rest(r)], L)
      BY <1>8
    <3>2. Rest(r) = s
      BY DEF Rest
    <3>3. Len(L) - r = a
      BY <1>5
    <3>4. OverStep(r, O[s], L)
            = IF r = Pow2[j] THEN T[j][a] ELSE Hash(T[j][a], O[s])
      <4> HIDE DEF O, a
      <4> QED
        BY <3>3 DEF OverStep, L
    <3>5. r = Pow2[j] <=> s = 0
      <4>1. Pow2[j] \in Nat
        BY <2>2, Pow2Unfold
      <4> HIDE DEF j
      <4> QED
        BY <4>1
    <3> HIDE DEF j, s, a, O, T
    <3> QED
      BY <3>1, <3>2, <3>4, <3>5
  <2>7. FromRight(V)[c] = V[Len(V) - c + 1]
    BY <2>4 DEF FromRight
  <2>8. CASE s = 0
    <3>1. c = 1
      BY <2>2, <2>8, PopCountUnfold
    <3>2. bag[1] = Last(V)
      BY <1>7, <2>4, <3>1
    <3>3. Last(V) = V[Len(V) - 1 + 1]
      <4>1. Len(V) - 1 + 1 = Len(V)
        BY <1>3, <1>4
      <4> QED
        BY <4>1 DEF Last
    <3> HIDE DEF c, j, a, s, O, T
    <3> QED
      BY <2>5, <2>6, <2>8, <3>1, <3>2, <3>3 DEF c
  <2>9. CASE s # 0
    <3>1. s \in 1..n /\ Whole(s)
      <4>1. s \in 1..n
        BY <1>1, <2>2, <2>9
      <4>2. s < Pow2[j] /\ Multiple(n - s, j) /\ j \in Nat
        BY <2>2
      <4> HIDE DEF s, j
      <4> QED
        BY <4>1, <4>2
    <3>2. bag[PopCount[s]] = O[s]
      <4> HIDE DEF s, Whole, O
      <4> QED
        BY <1>10, <2>2, <3>1
    <3>3. PopCount[s] >= 1
      <4>1. s > 0
        BY <2>2, <2>9
      <4> QED
        BY <2>2, <4>1, PopCountBounds
    <3>4. c # 1 /\ c - 1 = PopCount[s]
      BY <2>2, <2>3, <3>3
    <3> HIDE DEF c, j, a, s, O, T
    <3>5. bag[c] = Hash(FromRight(V)[c], bag[c - 1])
      BY <1>7, <2>4, <3>4
    <3> QED
      BY <2>5, <2>6, <2>7, <2>9, <3>2, <3>4, <3>5 DEF c
  <2> QED
    BY <2>8, <2>9
<1>11. n \in E
  <2> HIDE DEF E
  <2> QED
    BY <1>1, <1>10, StrongNatInduction
<1>12. Whole(n)
  <2>1. BitLength(n) \in Nat /\ n < Pow2[BitLength(n)]
    BY <1>1, BitLengthSpec
  <2>2. n - n = 0 * Pow2[BitLength(n)]
    <3>1. Pow2[BitLength(n)] \in Nat
      BY <2>1, Pow2Unfold
    <3> QED
      BY <1>1, <3>1
  <2>3. Multiple(n - n, BitLength(n))
    BY <2>2 DEF Multiple
  <2> QED
    BY <2>1, <2>3
<1>13. bag[PopCount[n]] = O[n]
  <2>1. n \in 1..n
    BY <1>1
  <2> HIDE DEF Whole, O
  <2> QED
    BY <1>11, <1>12, <2>1
<1> HIDE DEF O
<1>14. BagPeaks(V) = O[n]
  BY <1>3, <1>4, <1>6, <1>13
<1> QED
  BY <1>14 DEF V, O

(* The root of the MMR is the root the accumulator defines for its leaves. *)
RootOfLeaves == (IF nodes = <<>> THEN NoRoot ELSE GetRoot) = Abstract!RootOf(Leaves)

LEMMA RootIsRootOf == IInv /\ NodesArePerfectTrees => RootOfLeaves
<1> SUFFICES ASSUME IInv, NodesArePerfectTrees PROVE RootOfLeaves
  OBVIOUS
<1>1. leaf_count \in Nat /\ Len(nodes) = SizeOfLeaves(leaf_count)
  BY DEF IInv
<1>2. Len(Leaves) = leaf_count
  BY <1>1 DEF Leaves
<1>3. CASE leaf_count = 0
  <2>1. Len(nodes) = 0
    BY <1>1, <1>3, SizeOfLeavesBounds
  <2>2. nodes = <<>>
    BY <2>1, EmptySeq DEF IInv
  <2>3. Leaves = <<>>
    BY <1>3 DEF Leaves
  <2> QED
    BY <2>2, <2>3 DEF RootOfLeaves, Abstract!RootOf
<1>4. CASE leaf_count # 0
  <2>1. nodes # <<>>
    <3>1. leaf_count <= SizeOfLeaves(leaf_count) /\ SizeOfLeaves(leaf_count) \in Nat
      BY <1>1, SizeOfLeavesBounds
    <3>2. Len(nodes) # 0
      BY <1>1, <1>4, <3>1
    <3> QED
      BY <3>2
  <2>2. Leaves # <<>>
    BY <1>1, <1>2, <1>4
  <2>3. Abstract!RootOf(Leaves)
          = Hash(SizeOfLeaves(leaf_count), Abstract!HashOver(Leaves)[leaf_count])
    BY <1>2, <2>2, SameArithmetic DEF Abstract!RootOf
  <2>4. GetRoot = Hash(SizeOfLeaves(leaf_count), BagPeaks(RetrieveNodes(GetPeaks)))
    BY <1>1 DEF GetRoot, Size
  <2>5. GetRoot = Abstract!RootOf(Leaves)
    BY <1>4, <2>3, <2>4, BagIsHashOver
  <2> QED
    BY <2>1, <2>5 DEF RootOfLeaves
<1> QED
  BY <1>3, <1>4

(* The Rust MMR is an accumulator: every append of the vector of nodes is  *)
(* an append to the log of its leaves, and what get_root computes from the *)
(* peaks is the root the accumulator defines from the log alone.           *)
THEOREM ImplementsLog == Spec => ImplementsAccumulator
<1>1. Init /\ RootOfLeaves => Abstract!Init
  <2> SUFFICES ASSUME Init, RootOfLeaves PROVE Abstract!Init
    OBVIOUS
  <2>1. Leaves = <<>>
    BY DEF Init, Leaves
  <2> QED
    BY <2>1 DEF Abstract!Init, RootOfLeaves
<1>2. IInv /\ RootOfLeaves' /\ [Next]_vars => [Abstract!Next]_(Abstract!vars)
  <2> SUFFICES ASSUME IInv, RootOfLeaves', [Next]_vars
               PROVE  [Abstract!Next]_(Abstract!vars)
    OBVIOUS
  <2>1. CASE UNCHANGED vars
    BY <2>1 DEF vars, Abstract!vars, Leaves, GetRoot, GetPeaks, Size, RetrieveNodes
  <2>2. ASSUME NEW element \in Element, AppendElement(element)
        PROVE  Abstract!Next
    <3>1. Leaves' = Append(Leaves, element)
      BY <2>2, AppendLeaves
    <3> QED
      BY <3>1 DEF Abstract!Next, Abstract!AppendLeaf, RootOfLeaves
  <2> QED
    BY <2>1, <2>2 DEF Next
<1>3. Spec => []RootOfLeaves
  BY RootIsRootOf, InvariantHolds, NodesAreTrees, PTL
<1> QED
  BY <1>1, <1>2, <1>3, InvariantHolds, PTL DEF Spec, ImplementsAccumulator, Abstract!Spec
=============================================================================
