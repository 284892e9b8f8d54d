------------------------- MODULE MmrLockstepProofs -------------------------
(***************************************************************************)
(* The roots of the Rust and of the Python MMR are equal exactly when      *)
(* their leaves are: both are the root the accumulator defines, and with a *)
(* hash that binds its arguments that root binds the log.                  *)
(***************************************************************************)
EXTENDS MmrLockstep, MmrProofs

(* What a comparison of roots relies on: equal hashes come from equal      *)
(* arguments.                                                              *)
HashBinding == \A a, b, c, d : Hash(a, b) = Hash(c, d) => a = c /\ b = d

-----------------------------------------------------------------------------
(* The root of a perfect tree binds the leaves below it.                   *)
SameAt(log1, from1, log2, from2, count) ==
  \A i \in 1..count : log1[from1 + i] = log2[from2 + i]

TreesBind(h, log1, log2) ==
  \A from1, from2 \in Nat :
    Abstract!TreeOver(log1)[h][from1] = Abstract!TreeOver(log2)[h][from2]
      => SameAt(log1, from1, log2, from2, Pow2[h])

LEMMA TreeBinds ==
  ASSUME HashBinding, NEW log1, NEW log2
  PROVE  \A h \in Nat : TreesBind(h, log1, log2)
<1> DEFINE E == {h \in Nat : TreesBind(h, log1, log2)}
<1>1. 0 \in E
  <2> SUFFICES ASSUME NEW from1 \in Nat, NEW from2 \in Nat,
                      Abstract!TreeOver(log1)[0][from1]
                        = Abstract!TreeOver(log2)[0][from2],
                      NEW i \in 1..Pow2[0]
               PROVE  log1[from1 + i] = log2[from2 + i]
    BY DEF TreesBind, SameAt
  <2>1. i = 1
    BY Pow2Unfold
  <2> QED
    BY <2>1, TreeUnfold
<1>2. ASSUME NEW h \in Nat, h \in E
      PROVE  h + 1 \in E
  <2> SUFFICES ASSUME NEW from1 \in Nat, NEW from2 \in Nat,
                      Abstract!TreeOver(log1)[h + 1][from1]
                        = Abstract!TreeOver(log2)[h + 1][from2],
                      NEW i \in 1..Pow2[h + 1]
               PROVE  log1[from1 + i] = log2[from2 + i]
    BY DEF TreesBind, SameAt
  <2>1. PICK P \in Nat : P = Pow2[h] /\ Pow2[h + 1] = 2 * P
    BY Pow2Unfold
  <2>2. from1 + P \in Nat /\ from2 + P \in Nat
    OBVIOUS
  <2>3. Hash(Abstract!TreeOver(log1)[h][from1], Abstract!TreeOver(log1)[h][from1 + P])
          = Hash(Abstract!TreeOver(log2)[h][from2], Abstract!TreeOver(log2)[h][from2 + P])
    <3>1. Abstract!TreeOver(log1)[h + 1][from1]
            = Hash(Abstract!TreeOver(log1)[h][from1],
                   Abstract!TreeOver(log1)[h][from1 + Pow2[h]])
      BY TreeUnfold
    <3>2. Abstract!TreeOver(log2)[h + 1][from2]
            = Hash(Abstract!TreeOver(log2)[h][from2],
                   Abstract!TreeOver(log2)[h][from2 + Pow2[h]])
      BY TreeUnfold
    <3> QED
      BY <2>1, <3>1, <3>2
  <2>4. /\ Abstract!TreeOver(log1)[h][from1] = Abstract!TreeOver(log2)[h][from2]
        /\ Abstract!TreeOver(log1)[h][from1 + P] = Abstract!TreeOver(log2)[h][from2 + P]
    BY <2>3 DEF HashBinding
  <2>5. TreesBind(h, log1, log2)
    BY <1>2
  <2>6. SameAt(log1, from1, log2, from2, P)
    BY <2>1, <2>4, <2>5 DEF TreesBind
  <2>7. SameAt(log1, from1 + P, log2, from2 + P, P)
    BY <2>1, <2>2, <2>4, <2>5 DEF TreesBind
  <2>8. CASE i <= P
    <3>1. i \in 1..P
      BY <2>1, <2>8
    <3> QED
      BY <2>6, <3>1 DEF SameAt
  <2>9. CASE i > P
    <3>1. /\ i - P \in 1..P
          /\ (from1 + P) + (i - P) = from1 + i /\ (from2 + P) + (i - P) = from2 + i
      BY <2>1, <2>9
    <3>2. log1[(from1 + P) + (i - P)] = log2[(from2 + P) + (i - P)]
      BY <2>7, <3>1 DEF SameAt
    <3> QED
      BY <3>1, <3>2
  <2> QED
    BY <2>1, <2>8, <2>9
<1> HIDE DEF E
<1>3. \A h \in Nat : h \in E
  BY <1>1, <1>2, NatSetInduction
<1> QED
  BY <1>3 DEF E

(* So does the hash over the last leaves of a log.                         *)
LEMMA HashOverBinds ==
  ASSUME HashBinding, NEW n \in Nat,
         NEW log1, Len(log1) = n, NEW log2, Len(log2) = n
  PROVE  \A left \in 1..n :
           Abstract!HashOver(log1)[left] = Abstract!HashOver(log2)[left]
             => SameAt(log1, n - left, log2, n - left, left)
<1> DEFINE O1 == Abstract!HashOver(log1)
           O2 == Abstract!HashOver(log2)
           Bound(left) == O1[left] = O2[left]
                            => SameAt(log1, n - left, log2, n - left, left)
           E == {left \in Nat : left \in 1..n => Bound(left)}
<1>1. /\ \A left \in 1..n : O1[left] = OverStep(left, O1[Rest(left)], log1)
      /\ \A left \in 1..n : O2[left] = OverStep(left, O2[Rest(left)], log2)
  <2>1. IsOver(O1, n, log1) /\ IsOver(O2, n, log2)
    BY OverUnfold
  <2> HIDE DEF O1, O2
  <2> QED
    BY <2>1 DEF IsOver
<1> HIDE DEF O1, O2
<1>2. ASSUME NEW left \in Nat, \A m \in Nat : m < left => m \in E
      PROVE  left \in E
  <2> SUFFICES ASSUME left \in 1..n, O1[left] = O2[left]
               PROVE  SameAt(log1, n - left, log2, n - left, left)
    OBVIOUS
  <2> DEFINE h == BitLength(left) - 1
             from == n - left
             rest == Rest(left)
  <2>1. h \in Nat /\ Pow2[h] <= left /\ from \in Nat
    <3>1. left > 0 /\ from \in Nat
      OBVIOUS
    <3>2. /\ BitLength(left) \in 0..left
          /\ BitLength(left) >= 1 /\ Pow2[BitLength(left) - 1] <= left
      BY <3>1, BitLengthSpec
    <3>3. h \in Nat
      BY <3>2
    <3> QED
      BY <3>1, <3>2, <3>3
  <2>2. PICK P \in Nat : P = Pow2[h] /\ P <= left /\ P >= 1
    <3> HIDE DEF h
    <3> QED
      BY <2>1, Pow2Unfold, Pow2Exceeds
  <2>3. rest = left - P
    BY <2>2 DEF Rest
  <2>4. /\ O1[left] = IF left = P THEN Abstract!TreeOver(log1)[h][from]
                      ELSE Hash(Abstract!TreeOver(log1)[h][from], O1[rest])
        /\ O2[left] = IF left = P THEN Abstract!TreeOver(log2)[h][from]
                      ELSE Hash(Abstract!TreeOver(log2)[h][from], O2[rest])
    BY <1>1, <2>2 DEF OverStep
  <2> HIDE DEF h, from, rest
  <2>5. /\ Abstract!TreeOver(log1)[h][from] = Abstract!TreeOver(log2)[h][from]
        /\ left # P => O1[rest] = O2[rest]
    <3>1. CASE left = P
      BY <2>4, <3>1
    <3>2. CASE left # P
      <4>1. Hash(Abstract!TreeOver(log1)[h][from], O1[rest])
              = Hash(Abstract!TreeOver(log2)[h][from], O2[rest])
        BY <2>4, <3>2
      <4> QED
        BY <4>1 DEF HashBinding
    <3> QED
      BY <3>1, <3>2
  <2>6. SameAt(log1, from, log2, from, P)
    <3>1. TreesBind(h, log1, log2)
      BY <2>1, TreeBinds
    <3> QED
      BY <2>1, <2>2, <2>5, <3>1 DEF TreesBind
  <2>7. CASE left = P
    BY <2>6, <2>7 DEF from
  <2>8. CASE left # P
    <3>1. rest \in 1..n /\ rest < left /\ rest \in Nat
      BY <2>2, <2>3, <2>8
    <3>2. rest \in E
      BY <1>2, <3>1
    <3>3. SameAt(log1, n - rest, log2, n - rest, rest)
      BY <2>5, <2>8, <3>1, <3>2
    <3> SUFFICES ASSUME NEW i \in 1..left
                 PROVE  log1[from + i] = log2[from + i]
      BY DEF SameAt, from
    <3>4. CASE i <= P
      <4>1. i \in 1..P
        BY <2>2, <3>4
      <4> QED
        BY <2>6, <4>1 DEF SameAt
    <3>5. CASE i > P
      <4>1. i - P \in 1..rest /\ (n - rest) + (i - P) = from + i
        BY <2>2, <2>3, <3>5 DEF from
      <4>2. log1[(n - rest) + (i - P)] = log2[(n - rest) + (i - P)]
        BY <3>3, <4>1 DEF SameAt
      <4> QED
        BY <4>1, <4>2
    <3> QED
      BY <2>2, <3>4, <3>5
  <2> QED
    BY <2>7, <2>8
<1> HIDE DEF E
<1>3. \A left \in Nat : left \in E
  BY <1>2, StrongNatInduction
<1> QED
  BY <1>3 DEF E, O1, O2

(* And so does the root, which has the number of leaves in its size.       *)
LEMMA RootBinds ==
  ASSUME HashBinding,
         NEW n \in Nat, n > 0, NEW log1, Len(log1) = n, IsRow(log1, n),
         NEW m \in Nat, m > 0, NEW log2, Len(log2) = m, IsRow(log2, m),
         Abstract!RootOf(log1) = Abstract!RootOf(log2)
  PROVE  log1 = log2
<1>1. log1 # <<>> /\ log2 # <<>>
  OBVIOUS
<1>2. Hash(SizeOfLeaves(n), Abstract!HashOver(log1)[n])
        = Hash(SizeOfLeaves(m), Abstract!HashOver(log2)[m])
  BY <1>1, SameArithmetic DEF Abstract!RootOf
<1>3. /\ SizeOfLeaves(n) = SizeOfLeaves(m)
      /\ Abstract!HashOver(log1)[n] = Abstract!HashOver(log2)[m]
  BY <1>2 DEF HashBinding
<1>4. n = m
  <2>1. SizeOfLeaves(n) \in Nat /\ SizeOfLeaves(m) \in Nat
    BY SizeOfLeavesBounds
  <2>2. ~(n < m)
    BY <1>3, <2>1, SizeStrict
  <2>3. ~(m < n)
    BY <1>3, <2>1, SizeStrict
  <2> QED
    BY <2>2, <2>3
<1>5. n \in 1..n /\ n - n = 0
  OBVIOUS
<1>6. SameAt(log1, 0, log2, 0, n)
  BY <1>3, <1>4, <1>5, HashOverBinds
<1>7. \A i \in 1..n : log1[i] = log2[i]
  BY <1>6 DEF SameAt
<1> QED
  BY <1>4, <1>7 DEF IsRow
-----------------------------------------------------------------------------
(* The Python MMR, as PyMmrProofs knows it: one of which no proof is held. *)
PyProofs == INSTANCE PyMmrProofs
  WITH MaxLeaves <- MaxPyLeaves, held <- NoRoot, NoProof <- NoRoot

LEMMA SamePeakFunctions ==
  /\ PyProofs!Pow2 = Python!Pow2 /\ PyProofs!Height = Python!Height
  /\ \A n : PyProofs!PyGetPeaks(n) = Python!PyGetPeaks(n)
<1>1. PyProofs!Pow2 = Python!Pow2
  BY DEF PyProofs!Pow2, Python!Pow2
<1>2. ASSUME NEW n
      PROVE  PyProofs!BitLength(n) = Python!BitLength(n)
  BY <1>1 DEF PyProofs!BitLength, Python!BitLength
<1>3. PyProofs!Height = Python!Height
  BY <1>1, <1>2 DEF PyProofs!Height, Python!Height
<1>4. ASSUME NEW h
      PROVE  /\ PyProofs!SiblingOffset(h) = Python!SiblingOffset(h)
             /\ PyProofs!LeftPos(h) = Python!LeftPos(h)
  BY <1>1 DEF PyProofs!SiblingOffset, Python!SiblingOffset,
              PyProofs!LeftPos, Python!LeftPos
<1>5. ASSUME NEW n
      PROVE  PyProofs!LeftPeakHeight(n) = Python!LeftPeakHeight(n)
  BY <1>4 DEF PyProofs!LeftPeakHeight, Python!LeftPeakHeight
<1>6. PyProofs!NoPeak = Python!NoPeak
  BY DEF PyProofs!NoPeak, Python!NoPeak
<1>7. ASSUME NEW n
      PROVE  PyProofs!PyDescend(n) = Python!PyDescend(n)
  BY <1>1, <1>6 DEF PyProofs!PyDescend, Python!PyDescend
<1>8. ASSUME NEW n
      PROVE  PyProofs!PyPeaksFrom(n) = Python!PyPeaksFrom(n)
  <2>1. PyProofs!PyDescend(n) = Python!PyDescend(n)
    BY <1>7
  <2> QED
    BY <1>1, <1>6, <2>1
    DEF PyProofs!PyPeaksFrom, Python!PyPeaksFrom,
        PyProofs!GetRightPeak, Python!GetRightPeak,
        PyProofs!SiblingOffset, Python!SiblingOffset
<1>9. ASSUME NEW n
      PROVE  PyProofs!PyGetPeaks(n) = Python!PyGetPeaks(n)
  BY <1>4, <1>5, <1>8 DEF PyProofs!PyGetPeaks, Python!PyGetPeaks
<1> QED
  BY <1>1, <1>3, <1>9

PyReads ==
  /\ PyProofs!MmrSize = Python!MmrSize
  /\ PyProofs!LeafPositions = Python!LeafPositions
  /\ PyProofs!Leaves = Python!Leaves
  /\ PyProofs!GetRoot = Python!GetRoot

LEMMA SameReads == PyReads
<1>1. PyProofs!MmrSize = Python!MmrSize
  BY DEF PyProofs!MmrSize, Python!MmrSize
<1>2. ASSUME NEW p
      PROVE  PyProofs!TreePosHeight(p) = Python!TreePosHeight(p)
  BY SamePeakFunctions DEF PyProofs!TreePosHeight, Python!TreePosHeight
<1>3. PyProofs!LeafPositionsBelow = Python!LeafPositionsBelow
  BY <1>2 DEF PyProofs!LeafPositionsBelow, Python!LeafPositionsBelow
<1>4. PyProofs!LeafPositions = Python!LeafPositions
  BY <1>1, <1>3 DEF PyProofs!LeafPositions, Python!LeafPositions
<1>5. ASSUME NEW poss
      PROVE  PyProofs!PeaksValues(poss) = Python!PeaksValues(poss)
  BY DEF PyProofs!PeaksValues, Python!PeaksValues
<1>6. PyProofs!Leaves = Python!Leaves
  BY <1>4, <1>5 DEF PyProofs!Leaves, Python!Leaves
<1>7. ASSUME NEW peaks
      PROVE  PyProofs!BagPeaks(peaks) = Python!BagPeaks(peaks)
  BY DEF PyProofs!BagPeaks, Python!BagPeaks, PyProofs!Last, Python!Last
<1>8. PyProofs!GetRoot = Python!GetRoot
  BY <1>1, <1>5, <1>7, SamePeakFunctions DEF PyProofs!GetRoot, Python!GetRoot
<1> QED
  BY <1>1, <1>4, <1>6, <1>8 DEF PyReads

LEMMA SameAdd ==
  ASSUME NEW elem, Python!Add(elem)
  PROVE  PyProofs!Add(elem)
<1>1. ASSUME NEW p
      PROVE  PyProofs!TreePosHeight(p) = Python!TreePosHeight(p)
  BY SamePeakFunctions DEF PyProofs!TreePosHeight, Python!TreePosHeight
<1>2. ASSUME NEW p
      PROVE  PyProofs!Merges(p) = Python!Merges(p)
  BY <1>1 DEF PyProofs!Merges, Python!Merges
<1>3. ASSUME NEW p, NEW h
      PROVE  /\ PyProofs!LeftChildPos(p, h) = Python!LeftChildPos(p, h)
             /\ PyProofs!RightChildPos(p, h) = Python!RightChildPos(p, h)
  BY SamePeakFunctions
     DEF PyProofs!LeftChildPos, Python!LeftChildPos, PyProofs!RightChildPos,
         Python!RightChildPos, PyProofs!SiblingOffset, Python!SiblingOffset
<1>4. ASSUME NEW p
      PROVE  PyProofs!AddedNodes(p, elem) = Python!AddedNodes(p, elem)
  BY <1>2, <1>3 DEF PyProofs!AddedNodes, Python!AddedNodes
<1>5. PyProofs!LeafPositions = Python!LeafPositions
  BY SameReads DEF PyReads
<1> QED
  BY <1>2, <1>4, <1>5 DEF PyProofs!Add, Python!Add

LEMMA SameRootOf == \A log : PyProofs!Abstract!RootOf(log) = Abstract!RootOf(log)
<1>1. PyProofs!Abstract!Pow2 = Abstract!Pow2
  BY DEF PyProofs!Abstract!Pow2, Abstract!Pow2
<1>2. PyProofs!Abstract!PopCount = Abstract!PopCount
  BY DEF PyProofs!Abstract!PopCount, Abstract!PopCount
<1>3. ASSUME NEW n
      PROVE  PyProofs!Abstract!SizeOfLeaves(n) = Abstract!SizeOfLeaves(n)
  BY <1>2 DEF PyProofs!Abstract!SizeOfLeaves, Abstract!SizeOfLeaves
<1>4. ASSUME NEW n
      PROVE  PyProofs!Abstract!BitLength(n) = Abstract!BitLength(n)
  BY <1>1 DEF PyProofs!Abstract!BitLength, Abstract!BitLength
<1>5. ASSUME NEW log
      PROVE  PyProofs!Abstract!TreeOver(log) = Abstract!TreeOver(log)
  BY <1>1 DEF PyProofs!Abstract!TreeOver, Abstract!TreeOver
<1>6. ASSUME NEW log
      PROVE  PyProofs!Abstract!HashOver(log) = Abstract!HashOver(log)
  BY <1>1, <1>4, <1>5 DEF PyProofs!Abstract!HashOver, Abstract!HashOver
<1> QED
  BY <1>3, <1>6 DEF PyProofs!Abstract!RootOf, Abstract!RootOf

-----------------------------------------------------------------------------
(* What both MMRs are known to be while they grow.                         *)
BothInv == IInv /\ NodesArePerfectTrees /\ PyProofs!PyIInv

LEMMA InitBoth == LockstepInit => BothInv
<1> SUFFICES ASSUME LockstepInit PROVE BothInv
  OBVIOUS
<1>1. Init /\ Python!Init
  BY DEF LockstepInit
<1>2. IInv
  BY <1>1, InitIInv
<1>3. NodesArePerfectTrees
  BY <1>1 DEF Init, NodesArePerfectTrees
<1>4. PyProofs!ProofInit
  BY <1>1 DEF PyProofs!ProofInit, PyProofs!Init, Python!Init
<1>5. PyProofs!PyIInv
  BY <1>4, MaxPyLeavesAssumption, PyProofs!InitPyIInv
<1> QED
  BY <1>2, <1>3, <1>5 DEF BothInv

LEMMA NextBoth == BothInv /\ [LockstepNext]_lockstepVars => BothInv'
<1> SUFFICES ASSUME BothInv, [LockstepNext]_lockstepVars PROVE BothInv'
  OBVIOUS
<1>1. [Next]_vars /\ [PyProofs!ProofNext]_(PyProofs!proofVars)
  <2>1. CASE UNCHANGED lockstepVars
    BY <2>1 DEF lockstepVars, vars, PyProofs!proofVars
  <2>2. CASE Next /\ UNCHANGED <<last_pos, pos_hash>>
    BY <2>2 DEF PyProofs!proofVars
  <2>3. CASE Python!Next /\ UNCHANGED vars
    <3>1. PICK elem \in Element : Python!Add(elem)
      BY <2>3 DEF Python!Next
    <3>2. PyProofs!Add(elem)
      BY <3>1, SameAdd
    <3>3. PyProofs!ProofNext
      BY <3>2 DEF PyProofs!ProofNext, PyProofs!Grow
    <3> QED
      BY <2>3, <3>3
  <2> QED
    BY <2>1, <2>2, <2>3 DEF LockstepNext
<1>2. IInv'
  BY <1>1, NextIInv DEF BothInv
<1>3. NodesArePerfectTrees'
  BY <1>1, NextTrees DEF BothInv
<1>4. PyProofs!PyIInv'
  BY <1>1, MaxPyLeavesAssumption, PyProofs!NextPyIInv DEF BothInv
<1> QED
  BY <1>2, <1>3, <1>4 DEF BothInv

(* The logs of leaves are sequences, and the roots are theirs.             *)
LEMMA RustLog ==
  ASSUME BothInv, leaf_count > 0
  PROVE  /\ leaf_count \in Nat /\ Len(Leaves) = leaf_count
         /\ IsRow(Leaves, leaf_count) /\ GetRoot = Abstract!RootOf(Leaves)
<1>1. leaf_count \in Nat /\ Len(nodes) = SizeOfLeaves(leaf_count)
  BY DEF BothInv, IInv
<1>2. Len(Leaves) = leaf_count /\ IsRow(Leaves, leaf_count)
  BY <1>1 DEF Leaves, IsRow
<1>3. nodes # <<>>
  <2>1. leaf_count <= SizeOfLeaves(leaf_count) /\ SizeOfLeaves(leaf_count) \in Nat
    BY <1>1, SizeOfLeavesBounds
  <2>2. Len(nodes) # 0
    BY <1>1, <2>1
  <2> QED
    BY <2>2
<1>4. RootOfLeaves
  BY RootIsRootOf DEF BothInv
<1> QED
  BY <1>1, <1>2, <1>3, <1>4 DEF RootOfLeaves

LEMMA PyLog ==
  ASSUME BothInv, last_pos >= 0
  PROVE  \E n \in Nat :
           /\ n > 0 /\ Len(Python!Leaves) = n /\ IsRow(Python!Leaves, n)
           /\ Python!GetRoot = Abstract!RootOf(Python!Leaves)
<1>1. PyProofs!PyIInv
  BY DEF BothInv
<1>2. PICK n : PyProofs!HasLeaves(n)
  BY <1>1 DEF PyProofs!PyIInv, PyProofs!PyInv
<1>3. PyProofs!LeafPositions = PyProofs!LeavesAt(n)
  BY <1>2, MaxPyLeavesAssumption, PyProofs!ReadAsRust
<1>4. n \in Nat /\ last_pos \in Int /\ last_pos + 1 = PyProofs!SizeOfLeaves(n)
  BY <1>2 DEF PyProofs!HasLeaves, PyProofs!MmrSize
<1>5. n > 0
  <2>1. n = 0 => PyProofs!SizeOfLeaves(n) = 0
    BY <1>4, MaxPyLeavesAssumption, PyProofs!SizeOfLeavesBounds
  <2> QED
    BY <1>4, <2>1
<1>6. /\ PyProofs!Leaves = Python!Leaves /\ PyProofs!GetRoot = Python!GetRoot
  BY SameReads DEF PyReads
<1>7. Len(PyProofs!Leaves) = n /\ IsRow(PyProofs!Leaves, n)
  <2>1. DOMAIN PyProofs!LeafPositions = 1..n
    BY <1>3, <1>4 DEF PyProofs!LeavesAt
  <2>2. PyProofs!Leaves = [i \in 1..n |-> pos_hash[PyProofs!LeafPositions[i]]]
    BY <2>1 DEF PyProofs!Leaves, PyProofs!PeaksValues
  <2> QED
    BY <1>4, <2>2 DEF IsRow
<1>8. PyProofs!PyRootOfLeaves
  BY <1>1, MaxPyLeavesAssumption, PyProofs!PyRootIsRootOf
<1>9. PyProofs!GetRoot = Abstract!RootOf(PyProofs!Leaves)
  <2>1. last_pos # -1
    OBVIOUS
  <2> QED
    BY <1>8, <2>1, SameRootOf DEF PyProofs!PyRootOfLeaves, PyProofs!PyRoot
<1> QED
  BY <1>4, <1>5, <1>6, <1>7, <1>9

(* RootsBindLeaves: the tests compare the roots of a Rust and a Python MMR *)
(* in the place of their leaves; the roots are equal exactly when the      *)
(* leaves are, for every number of leaves of either.                       *)
THEOREM EqualRootsEqualLeaves ==
  ASSUME HashBinding
  PROVE  LockstepSpec => []RootsBindLeaves
<1>1. BothInv => RootsBindLeaves
  <2> SUFFICES ASSUME BothInv, leaf_count > 0, last_pos >= 0
               PROVE  GetRoot = Python!GetRoot <=> Leaves = Python!Leaves
    BY DEF RootsBindLeaves
  <2>1. /\ leaf_count \in Nat /\ Len(Leaves) = leaf_count
        /\ IsRow(Leaves, leaf_count) /\ GetRoot = Abstract!RootOf(Leaves)
    BY RustLog
  <2>2. PICK n \in Nat :
          /\ n > 0 /\ Len(Python!Leaves) = n /\ IsRow(Python!Leaves, n)
          /\ Python!GetRoot = Abstract!RootOf(Python!Leaves)
    BY PyLog
  <2>3. ASSUME GetRoot = Python!GetRoot
        PROVE  Leaves = Python!Leaves
    <3>1. Abstract!RootOf(Leaves) = Abstract!RootOf(Python!Leaves)
      BY <2>1, <2>2, <2>3
    <3> QED
      BY <2>1, <2>2, <3>1, RootBinds
  <2> QED
    BY <2>1, <2>2, <2>3
<1>2. LockstepSpec => []BothInv
  BY InitBoth, NextBoth, PTL DEF LockstepSpec
<1> QED
  BY <1>1, <1>2, PTL
=============================================================================
