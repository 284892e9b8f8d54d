------------------------- MODULE MmrPositionsProofs -------------------------
(***************************************************************************)
(* The MMR functions of the Cairo library, for every size, every bound and *)
(* every table of powers of two.  The size checker accepts exactly the     *)
(* sizes 2 * leaves - popcount(leaves) within range, like the checkers of  *)
(* the tests; the height of a position is computed right for both callers, *)
(* the peaks of an MMR and the nodes of a path; and the peaks found are    *)
(* those the Rust and the Python library find.                             *)
(***************************************************************************)
EXTENDS MmrPositions, MmrPeaksProofs

-----------------------------------------------------------------------------
(* The size checker.                                                       *)

LEMMA TreeSizeNat ==
  ASSUME NEW j \in Nat
  PROVE  TreeSize(j) \in Nat \ {0} /\ Pow2[j] \in Nat
<1>1. Pow2[j] \in Nat /\ Pow2[j] >= 1 /\ Pow2[j + 1] = 2 * Pow2[j]
  BY Pow2Unfold, Pow2Exceeds
<1> QED
  BY <1>1 DEF TreeSize

(* The peak peeled off a remainder m > 0 is the largest tree that fits.    *)
LEMMA LargestPeakSpec ==
  ASSUME NEW m \in Nat, m > 0, NEW b \in Nat, b >= 1, m < Pow2[b], Pow2[b - 1] <= m
  PROVE  \E j \in Nat : /\ LargestPeak(m, b) = TreeSize(j)
                        /\ TreeSize(j) \in Nat /\ 1 <= TreeSize(j)
                        /\ TreeSize(j) <= m /\ m < TreeSize(j + 1)
<1>1. b >= 1 /\ m < Pow2[b] /\ Pow2[b - 1] <= m /\ b - 1 \in Nat
  OBVIOUS
<1>2. /\ Pow2[b] \in Nat /\ Pow2[b - 1] \in Nat /\ Pow2[b - 1] >= 1
      /\ Pow2[b + 1] = 2 * Pow2[b]
  BY <1>1, Pow2Unfold, Pow2Exceeds
<1>3. Pow2[b] = 2 * Pow2[b - 1]
  <2>1. (b - 1) + 1 = b
    OBVIOUS
  <2> QED
    BY <1>1, <2>1, Pow2Unfold
<1>4. CASE m + 1 <= Pow2[b] - 1
  <2>1. b >= 2
    <3>1. b = 1 => Pow2[b - 1] = 1
      BY Pow2Unfold
    <3> QED
      BY <1>1, <1>2, <1>3, <1>4, <3>1
  <2>2. PICK j \in Nat : j = b - 2
    BY <2>1
  <2>3. Pow2[j + 1] = Pow2[b - 1] /\ Pow2[j + 1 + 1] = Pow2[b]
    BY <2>2
  <2>4. Pow2[j + 1] = 2 * Pow2[j] /\ Pow2[j] \in Nat /\ Pow2[j] >= 1
    BY Pow2Unfold, Pow2Exceeds
  <2> QED
    BY <1>1, <1>2, <1>3, <1>4, <2>3, <2>4 DEF LargestPeak, TreeSize
<1>5. CASE ~(m + 1 <= Pow2[b] - 1)
  <2>1. PICK j \in Nat : j = b - 1
    BY <1>1
  <2>2. Pow2[j + 1] = Pow2[b] /\ Pow2[j + 1 + 1] = Pow2[b + 1]
    BY <2>1
  <2> QED
    BY <1>1, <1>2, <1>3, <1>5, <2>2 DEF LargestPeak, TreeSize
<1> QED
  BY <1>4, <1>5
-----------------------------------------------------------------------------
(* IsMmrSize does not depend on the bound of its quantifier.               *)
LEMMA IsMmrSizeUnbounded ==
  ASSUME NEW total \in Nat
  PROVE  IsMmrSize(total) <=> total > 0 /\ \E m \in Nat : total = SizeOfLeaves(m)
<1>1. ASSUME total > 0, NEW m \in Nat, total = SizeOfLeaves(m)
      PROVE  m \in 1..total
  BY <1>1, SizeOfLeavesBounds
<1>2. ASSUME NEW m \in 1..total, total = SizeOfLeaves(m)
      PROVE  total > 0 /\ m \in Nat
  OBVIOUS
<1> QED
  BY <1>1, <1>2 DEF IsMmrSize

(* A size up to 2^MaxBits holds no tree of more than MaxBits levels.       *)
LEMMA PeakHeightBound ==
  ASSUME NEW k \in Nat, TreeSize(k) <= Pow2[MaxBits]
  PROVE  k \in 0..MaxBits
<1> USE MaxBitsAssumption
<1>1. ASSUME k > MaxBits PROVE FALSE
  <2>1. Pow2[MaxBits] < Pow2[k] /\ Pow2[k] \in Nat /\ Pow2[MaxBits] \in Nat
    BY <1>1, Pow2Monotone, Pow2Unfold
  <2>2. Pow2[k + 1] = 2 * Pow2[k]
    BY Pow2Unfold
  <2> QED
    BY <2>1, <2>2 DEF TreeSize
<1> QED
  BY <1>1

(* Peeling a tree that fits and is not the last one again keeps both       *)
(* halves of the invariant: the argument of the whole proof.               *)
LEMMA PeelKeepsInvariant ==
  ASSUME NEW total \in Nat, NEW n0 \in Nat, NEW last \in Nat,
         n0 <= total, total <= Pow2[MaxBits], n0 > 0,
         PeeledIsMmr(total, n0, last), RestIsMmr(total, n0, last),
         NEW b \in 0..(MaxBits + 1), AcceptsBitLength(n0, b),
         LargestPeak(n0, b) # last,
         NEW n1, n1 = n0 - LargestPeak(n0, b),
         NEW peak, peak = LargestPeak(n0, b)
  PROVE  /\ PeeledIsMmr(total, n1, peak) /\ RestIsMmr(total, n1, peak)
         /\ n1 \in 0..total /\ peak \in 0..total
<1> USE MaxBitsAssumption
<1>1. /\ n0 \in Nat /\ total \in Nat /\ n0 <= total /\ last \in Nat
      /\ total <= Pow2[MaxBits] /\ total > 0
      /\ PeeledIsMmr(total, n0, last) /\ RestIsMmr(total, n0, last)
  OBVIOUS
<1>2. PICK j \in Nat :
        /\ LargestPeak(n0, b) = TreeSize(j)
        /\ TreeSize(j) \in Nat /\ 1 <= TreeSize(j)
        /\ TreeSize(j) <= n0 /\ n0 < TreeSize(j + 1)
  BY <1>1, LargestPeakSpec DEF AcceptsBitLength
<1>3. /\ Pow2[j] \in Nat /\ Pow2[j] >= 1 /\ Pow2[j + 1] = 2 * Pow2[j]
      /\ Pow2[j + 1 + 1] = 2 * Pow2[j + 1]
  BY Pow2Unfold, Pow2Exceeds
<1>4. Pow2[MaxBits] \in Nat
  BY Pow2Unfold
<1>5. j \in 0..MaxBits
  BY <1>1, <1>2, <1>4, PeakHeightBound
<1>6. n1 \in 0..total /\ peak \in 0..total /\ peak = TreeSize(j)
      /\ n1 = n0 - TreeSize(j) /\ n1 <= peak
  BY <1>1, <1>2, <1>3 DEF TreeSize
<1>7. PeeledIsMmr(total, n1, peak)
  <2>1. PICK m \in 0..total :
          /\ total - n0 = SizeOfLeaves(m)
          /\ \/ last = 0 /\ m = 0
             \/ \E k \in 0..MaxBits, q \in 0..total :
                  /\ last = TreeSize(k)
                  /\ m = q * Pow2[k]
                  /\ n0 <= last
    BY <1>1 DEF PeeledIsMmr
  <2>2. PICK q \in Nat : m = q * Pow2[j + 1]
    <3>1. CASE last = 0 /\ m = 0
      <4>1. m = 0 * Pow2[j + 1]
        BY <3>1, <1>3
      <4> QED
        BY <4>1
    <3>2. CASE \E k \in 0..MaxBits, q \in 0..total :
                  /\ last = TreeSize(k)
                  /\ m = q * Pow2[k]
                  /\ n0 <= last
      <4>1. PICK k \in 0..MaxBits, q \in 0..total :
                  /\ last = TreeSize(k)
                  /\ m = q * Pow2[k]
                  /\ n0 <= last
        BY <3>2
      <4>2. /\ Pow2[k] \in Nat /\ Pow2[k] >= 1 /\ k \in Nat
            /\ Pow2[k + 1] = 2 * Pow2[k]
        BY Pow2Unfold, Pow2Exceeds
      <4>3. j < k
        <5>1. CASE k < j
          <6>1. Pow2[k] < Pow2[j]
            BY <5>1, <4>2, Pow2Monotone
          <6>2. TreeSize(k) < TreeSize(j)
            BY <6>1, <1>3, <4>2 DEF TreeSize
          <6>3. TreeSize(k) \in Nat
            BY <4>2 DEF TreeSize
          <6> QED
            BY <6>2, <6>3, <1>1, <1>2, <4>1
        <5>2. CASE k = j
          BY <5>2, <1>1, <1>2, <4>1
        <5> QED
          BY <5>1, <5>2, <4>2
      <4>4. PICK d \in Nat : k = j + 1 + d
        <5>1. k - (j + 1) \in Nat /\ k = j + 1 + (k - (j + 1))
          BY <4>3, <4>2
        <5> QED
          BY <5>1
      <4>5. \E p \in Nat : q * Pow2[k] = p * Pow2[j + 1]
        <5>1. Pow2[j + 1 + d] = Pow2[d] * Pow2[j + 1]
          BY Pow2Sum
        <5>2. Pow2[d] \in Nat /\ Pow2[j + 1] \in Nat
          BY Pow2Unfold
        <5>3. q * (Pow2[d] * Pow2[j + 1]) = (q * Pow2[d]) * Pow2[j + 1]
          BY <5>2
        <5>4. q * Pow2[d] \in Nat
          BY <5>2
        <5> QED
          BY <5>1, <5>3, <5>4, <4>4
      <4> QED
        BY <4>1, <4>5
    <3> QED
      BY <2>1, <3>1, <3>2
  <2> DEFINE w == m + Pow2[j]
  <2>3. w \in Nat /\ w = (2 * q + 1) * Pow2[j] /\ 2 * q + 1 \in Nat
    <3>1. m = 2 * (q * Pow2[j])
      BY <2>2, <1>3
    <3> QED
      BY <3>1, <1>3
  <2>4. SizeOfLeaves(w) = SizeOfLeaves(m) + TreeSize(j)
    BY <2>2, SizeOfLeavesLowTree
  <2>5. total - n1 = SizeOfLeaves(w)
    BY <1>1, <1>2, <1>6, <2>1, <2>4
  <2> HIDE DEF w
  <2>6. w \in 0..total
    <3>1. w <= SizeOfLeaves(w)
      BY <2>3, SizeOfLeavesBounds
    <3> QED
      BY <3>1, <2>3, <2>5, <1>1, <1>6
  <2>7. 2 * q + 1 \in 0..total
    <3>1. PICK p \in Nat : Pow2[j] = 1 + p
      <4>1. Pow2[j] - 1 \in Nat /\ Pow2[j] = 1 + (Pow2[j] - 1)
        BY <1>3
      <4> QED
        BY <4>1
    <3> DEFINE a == 2 * q + 1
    <3>2. a \in Nat /\ w = a * (1 + p)
      BY <2>3, <3>1
    <3> HIDE DEF a
    <3>3. a * (1 + p) = a + a * p /\ a * p \in Nat
      BY <3>2
    <3>4. a <= w
      BY <3>2, <3>3
    <3>5. a \in 0..total
      BY <3>2, <3>4, <2>6, <1>1
    <3> QED
      BY <3>5 DEF a
  <2> QED
    BY <1>5, <1>6, <2>3, <2>5, <2>6, <2>7 DEF PeeledIsMmr
<1>8. RestIsMmr(total, n1, peak)
  <2> SUFFICES ASSUME IsMmrSize(total)
               PROVE  \E s \in 0..n1 :
                        n1 = SizeOfLeaves(s) /\ (peak = 0 \/ n1 < peak)
    BY DEF RestIsMmr
  <2>1. PICK r \in 0..n0 : n0 = SizeOfLeaves(r)
    BY <1>1 DEF RestIsMmr
  <2>2. r > 0 /\ r \in Nat
    BY <2>1, SizeOfLeavesBounds
  <2>3. PICK i \in Nat :
           /\ Pow2[i] <= r /\ r - Pow2[i] \in Nat
           /\ SizeOfLeaves(r) = TreeSize(i) + SizeOfLeaves(r - Pow2[i])
           /\ SizeOfLeaves(r - Pow2[i]) < TreeSize(i)
    BY <2>2, FirstTree
  <2> DEFINE s == r - Pow2[i]
  <2>4. s \in Nat /\ SizeOfLeaves(s) \in Nat /\ s <= SizeOfLeaves(s)
    BY <2>3, SizeOfLeavesBounds
  <2>5. n0 = TreeSize(i) + SizeOfLeaves(s) /\ SizeOfLeaves(s) < TreeSize(i)
    BY <2>1, <2>3
  <2> HIDE DEF s
  <2>6. i = j
    <3>1. /\ Pow2[i] \in Nat /\ Pow2[i + 1] = 2 * Pow2[i]
          /\ Pow2[i + 1 + 1] = 2 * Pow2[i + 1]
      BY Pow2Unfold
    <3>2. CASE i < j
      <4>1. 2 * Pow2[i] <= Pow2[j]
        BY <3>2, Pow2Monotone
      <4> QED
        BY <4>1, <3>1, <1>2, <1>3, <2>4, <2>5 DEF TreeSize
    <3>3. CASE j < i
      <4>1. 2 * Pow2[j] <= Pow2[i]
        BY <3>3, Pow2Monotone
      <4> QED
        BY <4>1, <3>1, <1>2, <1>3, <2>4, <2>5 DEF TreeSize
    <3> QED
      BY <3>2, <3>3
  <2>7. n1 = SizeOfLeaves(s) /\ n1 < peak /\ s \in 0..n1
    BY <1>1, <1>2, <1>6, <2>4, <2>5, <2>6
  <2> QED
    BY <2>7
<1> QED
  BY <1>6, <1>7, <1>8
-----------------------------------------------------------------------------
(* The first state satisfies the inductive invariant.                      *)
LEMMA InitIInv == Init => IInv
<1> SUFFICES ASSUME Init PROVE IInv
  OBVIOUS
<1>1. size \in Nat
  BY SizesAssumption DEF Init
<1> QED
  BY <1>1 DEF Init, IInv, TypeOK

(* Before the first peak nothing is peeled off.                            *)
LEMMA StartInvariant ==
  ASSUME NEW total \in Nat
  PROVE  PeeledIsMmr(total, total, 0) /\ RestIsMmr(total, total, 0)
<1>1. SizeOfLeaves(0) = 0 /\ total - total = 0 /\ 0 \in 0..total
  BY SizeOfLeavesBounds
<1>2. PeeledIsMmr(total, total, 0)
  BY <1>1 DEF PeeledIsMmr
<1>3. RestIsMmr(total, total, 0)
  BY DEF RestIsMmr, IsMmrSize
<1> QED
  BY <1>2, <1>3

(* Every step keeps it.                                                    *)
LEMMA NextIInv == IInv /\ [Next]_vars => IInv'
<1> SUFFICES ASSUME IInv, [Next]_vars PROVE IInv'
  OBVIOUS
<1> USE MaxBitsAssumption
<1>1. /\ size \in Sizes /\ size \in Nat /\ n \in 0..size
      /\ prev_peak \in 0..size /\ Pow2[MaxBits] \in Nat
  BY SizesAssumption, Pow2Unfold DEF IInv, TypeOK
<1>2. CASE CheckRange
  <2>1. n = size /\ prev_peak = 0
    BY <1>2 DEF CheckRange, IInv
  <2>2. PeeledIsMmr(size, n, prev_peak) /\ RestIsMmr(size, n, prev_peak)
    BY <1>1, <2>1, StartInvariant
  <2>3. /\ size' = size /\ n' = n /\ prev_peak' = prev_peak
        /\ \/ verdict' = "invalid" /\ (size = 0 \/ size > Pow2[MaxBits])
           \/ verdict' = "loop" /\ size > 0 /\ size <= Pow2[MaxBits]
    BY <1>1, <1>2 DEF CheckRange
  <2> QED
    BY <1>1, <2>2, <2>3 DEF IInv, TypeOK
<1>3. CASE Finish
  BY <1>1, <1>3 DEF Finish, IInv, TypeOK
<1>4. CASE PeelPeak
  <2>1. /\ size > 0 /\ size <= Pow2[MaxBits] /\ n > 0 /\ verdict = "loop"
        /\ PeeledIsMmr(size, n, prev_peak) /\ RestIsMmr(size, n, prev_peak)
    BY <1>4 DEF PeelPeak, IInv
  <2>2. PICK b \in 0..(MaxBits + 1) :
          /\ AcceptsBitLength(n, b)
          /\ IF LargestPeak(n, b) = prev_peak
                THEN verdict' = "invalid" /\ UNCHANGED <<n, prev_peak>>
                ELSE /\ n' = n - LargestPeak(n, b)
                     /\ prev_peak' = LargestPeak(n, b)
                     /\ UNCHANGED verdict
    BY <1>4 DEF PeelPeak, PeakRepeats
  <2>3. size' = size
    BY <1>4 DEF PeelPeak
  <2>4. CASE LargestPeak(n, b) = prev_peak
    <3>1. verdict' = "invalid" /\ n' = n /\ prev_peak' = prev_peak
      BY <2>2, <2>4
    <3>2. prev_peak >= 1 /\ prev_peak <= n
      BY <1>1, <2>1, <2>2, <2>4, LargestPeakSpec DEF AcceptsBitLength
    <3>3. ~IsMmrSize(size)
      BY <1>1, <2>1, <3>2 DEF RestIsMmr
    <3> QED
      BY <1>1, <2>3, <3>1, <3>3 DEF IInv, TypeOK
  <2>5. CASE LargestPeak(n, b) # prev_peak
    <3>1. /\ n' = n - LargestPeak(n, b) /\ prev_peak' = LargestPeak(n, b)
          /\ verdict' = verdict
      BY <2>2, <2>5
    <3>2. /\ PeeledIsMmr(size, n', prev_peak')
          /\ RestIsMmr(size, n', prev_peak')
          /\ n' \in 0..size /\ prev_peak' \in 0..size
      BY <1>1, <2>1, <2>2, <2>5, <3>1, PeelKeepsInvariant
    <3> QED
      BY <1>1, <2>1, <2>3, <3>1, <3>2 DEF IInv, TypeOK
  <2> QED
    BY <2>4, <2>5
<1>5. CASE UNCHANGED vars
  BY <1>5 DEF vars, IInv, TypeOK
<1> QED
  BY <1>2, <1>3, <1>4, <1>5 DEF Next

(* What was peeled off is an MMR, and what is left is one if the size is.  *)
THEOREM InvariantHolds == Spec => []IInv
BY InitIInv, NextIInv, PTL DEF Spec

-----------------------------------------------------------------------------
(* The state of the checker is well typed: no remainder is negative and no *)
(* peak is larger than the size.                                           *)
THEOREM TypeCorrect == Spec => []TypeOK
<1>1. IInv => TypeOK
  BY DEF IInv
<1> QED
  BY <1>1, InvariantHolds, PTL

(* assert_mmr_size_is_valid accepts a felt exactly when it is at most      *)
(* 2^MaxBits and 2 * leaves - popcount(leaves) for some number of leaves.  *)
THEOREM CheckerIsCorrect == Spec => []VerdictCorrect
<1>1. IInv => VerdictCorrect
  <2> SUFFICES ASSUME IInv, Decided PROVE VerdictCorrect
    BY DEF VerdictCorrect
  <2>1. size \in Nat
    BY SizesAssumption DEF IInv, TypeOK
  <2>2. CASE verdict = "valid"
    <3>1. /\ n = 0 /\ size > 0 /\ size <= Pow2[MaxBits]
          /\ PeeledIsMmr(size, n, prev_peak)
      BY <2>2 DEF IInv
    <3>2. \E m \in 0..size : size = SizeOfLeaves(m)
      BY <2>1, <3>1 DEF PeeledIsMmr
    <3>3. IsMmrSize(size)
      BY <2>1, <3>1, <3>2, IsMmrSizeUnbounded
    <3> QED
      BY <2>2, <3>1, <3>3 DEF VerdictCorrect
  <2>3. CASE verdict = "invalid"
    <3>1. size = 0 \/ size > Pow2[MaxBits] \/ ~IsMmrSize(size)
      BY <2>3 DEF IInv
    <3>2. size = 0 => ~IsMmrSize(size)
      BY <2>1, IsMmrSizeUnbounded
    <3>3. Pow2[MaxBits] \in Nat
      BY MaxBitsAssumption, Pow2Unfold
    <3> QED
      BY <2>1, <2>3, <3>1, <3>2, <3>3 DEF VerdictCorrect
  <2> QED
    BY <2>2, <2>3 DEF Decided
<1> QED
  BY <1>1, InvariantHolds, PTL

(* The bit length of every remainder is an index of the table of powers of *)
(* two the checker allocates: some hint value is always accepted.          *)
THEOREM CheckerNeverStuck == Spec => []PeelNeverStuck
<1>1. IInv => PeelNeverStuck
  <2> SUFFICES ASSUME IInv, verdict = "loop", n > 0
               PROVE  \E b \in 0..(MaxBits + 1) : AcceptsBitLength(n, b)
    BY DEF PeelNeverStuck
  <2> USE MaxBitsAssumption
  <2>1. /\ size \in Nat /\ n \in 0..size /\ size <= Pow2[MaxBits]
        /\ Pow2[MaxBits] \in Nat
    BY SizesAssumption, Pow2Unfold DEF IInv, TypeOK
  <2>2. PICK b \in Nat :
          b = BitLength(n) /\ b >= 1 /\ n < Pow2[b] /\ Pow2[b - 1] <= n
    BY <2>1, BitLengthSpec
  <2>3. b - 1 <= MaxBits
    <3>1. ASSUME MaxBits < b - 1 PROVE FALSE
      <4>1. b - 1 \in Nat
        BY <2>2
      <4>2. Pow2[MaxBits] < Pow2[b - 1] /\ Pow2[b - 1] \in Nat
        BY <3>1, <4>1, Pow2Monotone, Pow2Unfold
      <4> QED
        BY <4>2, <2>1, <2>2
    <3> QED
      BY <3>1, <2>2
  <2>4. b \in 1..(MaxBits + 1)
    BY <2>2, <2>3
  <2>5. AcceptsBitLength(n, b)
    BY <2>1, <2>2, <2>4 DEF AcceptsBitLength
  <2> QED
    BY <2>4, <2>5
<1> QED
  BY <1>1, InvariantHolds, PTL

-----------------------------------------------------------------------------
(* The reference checkers.                                                 *)

(* The loop of mmr_size_generate.rs at one height.                         *)
RsPeelLevel(h, below) ==
  [m \in Nat |->
     LET rest == IF TreeSize(h) <= m THEN m - TreeSize(h) ELSE m
     IN  IF h = 0 THEN rest ELSE below[rest]]

LEMMA RsPeelUnfold ==
  /\ RsPeel[0] = RsPeelLevel(0, <<>>)
  /\ \A h \in Nat : RsPeel[h + 1] = RsPeelLevel(h + 1, RsPeel[h])
<1> DEFINE S == [Nat -> Nat]
           first == RsPeelLevel(0, <<>>)
           next == [h \in Nat |-> [g \in S |-> RsPeelLevel(h, g)]]
<1>1. ASSUME NEW h \in Nat, NEW g, h = 0 \/ g \in S
      PROVE  RsPeelLevel(h, g) \in S
  <2>1. ASSUME NEW m \in Nat
        PROVE  (IF TreeSize(h) <= m THEN m - TreeSize(h) ELSE m) \in Nat
    BY TreeSizeNat
  <2> QED
    BY <1>1, <2>1 DEF RsPeelLevel
<1>2. first \in S /\ next \in [Nat -> [S -> S]]
  BY <1>1
<1> HIDE DEF S, first, next
<1>3. \E f : Iterates(f, S, first, next)
  BY <1>2, PrimitiveRecursion
<1>4. PICK f : /\ f \in [Nat -> S] /\ f[0] = first
               /\ \A h \in Nat : f[h + 1] = next[h + 1][f[h]]
  BY <1>3 DEF Iterates
<1>5. f[0] = RsPeelLevel(0, <<>>)
  BY <1>4 DEF first
<1>6. ASSUME NEW h \in Nat
      PROVE  f[h + 1] = RsPeelLevel(h + 1, f[h])
  <2>1. f[h] \in S /\ h + 1 \in Nat
    BY <1>4
  <2>2. next[h + 1][f[h]] = RsPeelLevel(h + 1, f[h])
    BY <2>1 DEF next
  <2> QED
    BY <1>4, <2>2
<1>7. ASSUME NEW h \in Nat
      PROVE  f[h] = [m \in Nat |->
                       LET rest == IF TreeSize(h) <= m THEN m - TreeSize(h) ELSE m
                       IN  IF h = 0 THEN rest ELSE f[h - 1][rest]]
  <2>1. CASE h = 0
    BY <1>5, <2>1 DEF RsPeelLevel
  <2>2. CASE h # 0
    <3>1. h - 1 \in Nat /\ (h - 1) + 1 = h
      BY <2>2
    <3>2. f[h] = RsPeelLevel(h, f[h - 1])
      BY <1>6, <3>1
    <3> QED
      BY <2>2, <3>2 DEF RsPeelLevel
  <2> QED
    BY <2>1, <2>2
<1>8. f = [h \in Nat |-> [m \in Nat |->
             LET rest == IF TreeSize(h) <= m THEN m - TreeSize(h) ELSE m
             IN  IF h = 0 THEN rest ELSE f[h - 1][rest]]]
  <2>1. f \in [Nat -> S]
    BY <1>4
  <2> QED
    BY <1>7, <2>1
<1>9. RsPeel = [h \in Nat |-> [m \in Nat |->
                  LET rest == IF TreeSize(h) <= m THEN m - TreeSize(h) ELSE m
                  IN  IF h = 0 THEN rest ELSE RsPeel[h - 1][rest]]]
  BY <1>8, Zenon DEF RsPeel
<1>10. RsPeel[0] = RsPeelLevel(0, <<>>)
  BY <1>9 DEF RsPeelLevel
<1>11. ASSUME NEW h \in Nat
       PROVE  RsPeel[h + 1] = RsPeelLevel(h + 1, RsPeel[h])
  <2>1. h + 1 \in Nat /\ h + 1 # 0 /\ (h + 1) - 1 = h
    OBVIOUS
  <2> QED
    BY <1>9, <2>1 DEF RsPeelLevel
<1> QED
  BY <1>10, <1>11

(* From height h down the Rust checker leaves nothing of the MMRs of fewer *)
(* than 2^(h+1) leaves, and something of every other size.                 *)
RsPeelsAll(h, m) ==
  RsPeel[h][m] = 0 <=> \E r \in Nat : r < Pow2[h + 1] /\ m = SizeOfLeaves(r)

LEMMA RsPeelFinds == \A h \in Nat : \A m \in Nat : RsPeelsAll(h, m)
<1> DEFINE E == {h \in Nat : \A m \in Nat : RsPeelsAll(h, m)}
<1>1. ASSUME NEW m \in Nat
      PROVE  RsPeelsAll(0, m)
  <2>1. Pow2[0] = 1 /\ Pow2[0 + 1] = 2
    BY Pow2Unfold
  <2>2. RsPeel[0][m] = IF 1 <= m THEN m - 1 ELSE m
    <3>1. RsPeel[0] = RsPeelLevel(0, <<>>)
      BY RsPeelUnfold
    <3>2. TreeSize(0) = 1
      BY <2>1 DEF TreeSize
    <3> QED
      BY <3>1, <3>2 DEF RsPeelLevel
  <2>3. SizeOfLeaves(0) = 0 /\ SizeOfLeaves(1) = 1
    BY SizeOfLeavesBounds
  <2>4. \A r \in Nat : r < 2 <=> r = 0 \/ r = 1
    OBVIOUS
  <2> QED
    BY <2>1, <2>2, <2>3, <2>4 DEF RsPeelsAll
<1>2. ASSUME NEW h \in Nat, \A m \in Nat : RsPeelsAll(h, m), NEW m \in Nat
      PROVE  RsPeelsAll(h + 1, m)
  <2> DEFINE g == h + 1
             T == TreeSize(g)
             rest == IF T <= m THEN m - T ELSE m
  <2>1. /\ g \in Nat /\ Pow2[g] \in Nat /\ Pow2[g + 1] = 2 * Pow2[g]
        /\ T \in Nat /\ g # 0
    BY Pow2Unfold, TreeSizeNat
  <2>2. rest \in Nat
    BY <2>1
  <2>3. RsPeel[g][m] = RsPeel[h][rest]
    <3>1. RsPeel[h + 1] = RsPeelLevel(h + 1, RsPeel[h])
      BY RsPeelUnfold
    <3>2. RsPeelLevel(h + 1, RsPeel[h])[m] = RsPeel[h][rest]
      BY DEF RsPeelLevel
    <3> QED
      BY <3>1, <3>2
  <2>4. RsPeel[h][rest] = 0 <=> \E r \in Nat : r < Pow2[g] /\ rest = SizeOfLeaves(r)
    BY <1>2, <2>2 DEF RsPeelsAll
  <2> HIDE DEF g, T
  <2>5. ASSUME NEW r \in Nat, r < Pow2[g], rest = SizeOfLeaves(r)
        PROVE  \E s \in Nat : s < Pow2[g + 1] /\ m = SizeOfLeaves(s)
    <3>1. CASE T <= m
      <4>1. m = SizeOfLeaves(r + Pow2[g])
        <5>1. SizeOfLeaves(r + Pow2[g]) = T + SizeOfLeaves(r)
          BY <2>1, <2>5, SizeOfLeavesTopTree DEF T
        <5> QED
          BY <2>1, <2>5, <3>1, <5>1
      <4>2. r + Pow2[g] \in Nat /\ r + Pow2[g] < Pow2[g + 1]
        BY <2>1, <2>5
      <4> QED
        BY <4>1, <4>2
    <3>2. CASE ~(T <= m)
      BY <2>1, <2>5, <3>2
    <3> QED
      BY <3>1, <3>2
  <2>6. ASSUME NEW s \in Nat, s < Pow2[g + 1], m = SizeOfLeaves(s)
        PROVE  \E r \in Nat : r < Pow2[g] /\ rest = SizeOfLeaves(r)
    <3>1. Pow2[g] <= s <=> T <= m
      BY <2>1, <2>6, BlockFits DEF T
    <3>2. CASE T <= m
      <4>1. s - Pow2[g] \in Nat /\ s - Pow2[g] < Pow2[g]
        BY <2>1, <2>6, <3>1, <3>2
      <4>2. SizeOfLeaves((s - Pow2[g]) + Pow2[g]) = T + SizeOfLeaves(s - Pow2[g])
        BY <2>1, <4>1, SizeOfLeavesTopTree DEF T
      <4>3. (s - Pow2[g]) + Pow2[g] = s /\ SizeOfLeaves(s - Pow2[g]) \in Nat
        <5>1. SizeOfLeaves(s - Pow2[g]) \in Nat
          BY <4>1, SizeOfLeavesBounds
        <5> QED
          BY <2>1, <5>1
      <4>4. rest = SizeOfLeaves(s - Pow2[g])
        BY <2>1, <2>6, <3>2, <4>2, <4>3
      <4> QED
        BY <4>1, <4>4
    <3>3. CASE ~(T <= m)
      BY <2>1, <2>6, <3>1, <3>3
    <3> QED
      BY <3>2, <3>3
  <2> HIDE DEF rest
  <2>7. RsPeel[g][m] = 0 <=> \E s \in Nat : s < Pow2[g + 1] /\ m = SizeOfLeaves(s)
    BY <2>3, <2>4, <2>5, <2>6
  <2> QED
    BY <2>7 DEF RsPeelsAll, g
<1>3. 0 \in E
  BY <1>1
<1>4. ASSUME NEW h \in Nat, h \in E
      PROVE  h + 1 \in E
  BY <1>2, <1>4
<1> HIDE DEF E
<1>5. \A h \in Nat : h \in E
  BY <1>3, <1>4, NatSetInduction
<1> QED
  BY <1>5 DEF E

(* The Rust checker accepts the sizes of MMRs.                             *)
LEMMA RsCheckerIsCorrect ==
  ASSUME NEW m \in Nat
  PROVE  RsIsValidMmrSize(m) <=> IsMmrSize(m)
<1> DEFINE b == BitLength(m)
<1>1. b \in Nat /\ m < Pow2[b] /\ Pow2[b] \in Nat /\ Pow2[b + 1] = 2 * Pow2[b]
  BY BitLengthSpec, Pow2Unfold
<1>2. RsPeel[b][m] = 0 <=> \E r \in Nat : r < Pow2[b + 1] /\ m = SizeOfLeaves(r)
  BY <1>1, RsPeelFinds DEF RsPeelsAll
<1> HIDE DEF b
<1>3. ASSUME NEW r \in Nat, m = SizeOfLeaves(r)
      PROVE  r < Pow2[b + 1]
  BY <1>1, <1>3, SizeOfLeavesBounds
<1>4. IsMmrSize(m) <=> m > 0 /\ \E r \in Nat : m = SizeOfLeaves(r)
  BY IsMmrSizeUnbounded
<1> QED
  BY <1>2, <1>3, <1>4 DEF RsIsValidMmrSize, b

(* The loop of mmr.py peels off the largest tree that fits, as a function  *)
(* of the last one peeled off.                                             *)
PyPeelTurn(m, below) ==
  [last \in Nat |-> m = 0 \/ (PyPeak(m) # last /\ below[PyPeak(m)])]

LEMMA PyPeakSpec ==
  ASSUME NEW m \in Nat \ {0}
  PROVE  \E j \in Nat : /\ PyPeak(m) = TreeSize(j)
                        /\ TreeSize(j) \in Nat /\ 1 <= TreeSize(j)
                        /\ TreeSize(j) <= m /\ m < TreeSize(j + 1)
<1> DEFINE b == BitLength(m)
<1>1. b \in Nat /\ b >= 1 /\ m < Pow2[b] /\ Pow2[b - 1] <= m
  BY BitLengthSpec
<1>2. Pow2[b] \in Nat
  BY <1>1, Pow2Unfold
<1>3. PyPeak(m) = LargestPeak(m, b)
  BY <1>1, <1>2 DEF PyPeak, LargestPeak
<1> HIDE DEF b
<1> QED
  BY <1>1, <1>3, LargestPeakSpec

LEMMA PyPeelUnfold ==
  /\ \A last \in Nat : PyPeel[0][last] = TRUE
  /\ \A m \in Nat \ {0} : \A last \in Nat :
       PyPeel[m][last]
         <=> PyPeak(m) # last /\ PyPeel[m - PyPeak(m)][PyPeak(m)]
<1> DEFINE S == [Nat -> BOOLEAN]
           stop == {0}
           base == [m \in Nat |-> [last \in Nat |-> TRUE]]
           comb == [m \in Nat |-> [g \in S |-> PyPeelTurn(m, g)]]
           pred == [m \in Nat |-> IF m = 0 THEN 0 ELSE m - PyPeak(m)]
<1>1. ASSUME NEW m \in Nat \ {0}
      PROVE  PyPeak(m) \in Nat /\ m - PyPeak(m) \in Nat /\ m - PyPeak(m) < m
  BY PyPeakSpec
<1>2. ASSUME NEW m \in Nat, NEW g
      PROVE  PyPeelTurn(m, g) \in S
  BY DEF PyPeelTurn
<1>3. WellPosed(S, stop, base, comb, pred)
  <2>1. stop \subseteq Nat /\ base \in [Nat -> S]
    OBVIOUS
  <2>2. comb \in [Nat -> [S -> S]]
    <3> HIDE DEF S
    <3> QED
      BY <1>2
  <2>3. pred \in [Nat -> Nat] /\ \A m \in Nat : m \notin stop => pred[m] < m
    BY <1>1
  <2> HIDE DEF S, stop, base, comb, pred
  <2> QED
    BY <2>1, <2>2, <2>3 DEF WellPosed
<1>4. PICK f \in [Nat -> S] : Satisfies(f, Nat, stop, base, comb, pred)
  <2> HIDE DEF S, stop, base, comb, pred
  <2> QED
    BY <1>3, RecursionExists
<1>5. ASSUME NEW m \in Nat
      PROVE  f[m] = IF m \in stop THEN base[m] ELSE comb[m][f[pred[m]]]
  <2> HIDE DEF S, stop, base, comb, pred
  <2> QED
    BY <1>4 DEF Satisfies
<1>6. ASSUME NEW m \in Nat
      PROVE  f[m] = [last \in Nat |->
                       m = 0 \/ (PyPeak(m) # last /\ f[m - PyPeak(m)][PyPeak(m)])]
  <2>1. CASE m = 0
    <3>1. f[m] = [last \in Nat |-> TRUE]
      BY <1>5, <2>1
    <3> QED
      BY <2>1, <3>1
  <2>2. CASE m # 0
    <3>1. m - PyPeak(m) \in Nat /\ pred[m] = m - PyPeak(m) /\ m \notin stop
      BY <1>1, <2>2
    <3>2. f[pred[m]] \in S
      <4> HIDE DEF S, pred
      <4> QED
        BY <1>4, <3>1
    <3>3. f[m] = comb[m][f[pred[m]]]
      <4> HIDE DEF S, stop, base, comb, pred
      <4> QED
        BY <1>5, <3>1
    <3>4. comb[m][f[pred[m]]] = PyPeelTurn(m, f[pred[m]])
      <4> HIDE DEF S, pred
      <4> QED
        BY <3>2
    <3>5. f[m] = PyPeelTurn(m, f[m - PyPeak(m)])
      <4> HIDE DEF S, stop, base, comb, pred
      <4> QED
        BY <3>1, <3>3, <3>4
    <3> HIDE DEF S, stop, base, comb, pred
    <3> QED
      BY <2>2, <3>5 DEF PyPeelTurn
  <2> QED
    BY <2>1, <2>2
<1>7. f = [m \in Nat |-> [last \in Nat |->
             m = 0 \/ (PyPeak(m) # last /\ f[m - PyPeak(m)][PyPeak(m)])]]
  <2> HIDE DEF S, stop, base, comb, pred
  <2> QED
    BY <1>4, <1>6, ZenonT(40)
<1>8. PyPeel = [m \in Nat |-> [last \in Nat |->
                  m = 0 \/ (PyPeak(m) # last /\ PyPeel[m - PyPeak(m)][PyPeak(m)])]]
  <2> HIDE DEF S, stop, base, comb, pred
  <2> QED
    BY <1>7 DEF PyPeel
<1> HIDE DEF S, stop, base, comb, pred
<1>9. ASSUME NEW m \in Nat, NEW last \in Nat
      PROVE  PyPeel[m][last] =
               (m = 0 \/ (PyPeak(m) # last /\ PyPeel[m - PyPeak(m)][PyPeak(m)]))
  BY <1>8, Zenon
<1>10. ASSUME NEW last \in Nat
       PROVE  PyPeel[0][last] = TRUE
  <2>1. PyPeel[0][last] = (0 = 0 \/ (PyPeak(0) # last /\ PyPeel[0 - PyPeak(0)][PyPeak(0)]))
    BY <1>9
  <2> QED
    BY <2>1, Zenon
<1>11. ASSUME NEW m \in Nat \ {0}, NEW last \in Nat
       PROVE  PyPeel[m][last]
                <=> PyPeak(m) # last /\ PyPeel[m - PyPeak(m)][PyPeak(m)]
  <2>1. m \in Nat /\ m # 0
    OBVIOUS
  <2>2. PyPeel[m][last] =
          (m = 0 \/ (PyPeak(m) # last /\ PyPeel[m - PyPeak(m)][PyPeak(m)]))
    BY <1>9, <2>1
  <2> QED
    BY <2>1, <2>2, Zenon
<1> QED
  BY <1>10, <1>11, Zenon

(* Behind a tree of the given size, or at the start, the Python checker    *)
(* accepts the MMRs of lower trees.                                        *)
PyPeelsAll(m, last) ==
  PyPeel[m][last]
    <=> (\E r \in Nat : m = SizeOfLeaves(r)) /\ (last # 0 => m < last)

PyPeelsBelow(m) ==
  \A last \in Nat :
    last = 0 \/ (m <= last /\ \E k \in Nat : last = TreeSize(k))
      => PyPeelsAll(m, last)

LEMMA PyPeelFinds == \A m \in Nat : PyPeelsBelow(m)
<1> DEFINE E == {m \in Nat : PyPeelsBelow(m)}
<1>1. PyPeelsBelow(0)
  <2> SUFFICES ASSUME NEW last \in Nat PROVE PyPeelsAll(0, last)
    BY DEF PyPeelsBelow
  <2>1. PyPeel[0][last] = TRUE
    BY PyPeelUnfold
  <2>2. 0 = SizeOfLeaves(0) /\ (last # 0 => 0 < last)
    BY SizeOfLeavesBounds
  <2>3. (\E r \in Nat : 0 = SizeOfLeaves(r)) /\ (last # 0 => 0 < last)
    BY <2>2
  <2> QED
    BY <2>1, <2>3, Zenon DEF PyPeelsAll
<1>2. ASSUME NEW m \in Nat \ {0}, \A i \in Nat : i < m => PyPeelsBelow(i),
             NEW last \in Nat,
             last = 0 \/ (m <= last /\ \E k \in Nat : last = TreeSize(k))
      PROVE  PyPeelsAll(m, last)
  <2> DEFINE T == PyPeak(m)
             rest == m - T
  <2>1. PyPeel[m][last] <=> T # last /\ PyPeel[rest][T]
    BY PyPeelUnfold
  <2>2. PICK j \in Nat : /\ T = TreeSize(j) /\ T \in Nat /\ 1 <= T
                         /\ T <= m /\ m < TreeSize(j + 1)
    BY PyPeakSpec
  <2> HIDE DEF T
  <2>3. /\ Pow2[j] \in Nat /\ Pow2[j + 1] = 2 * Pow2[j] /\ Pow2[j + 1] \in Nat
        /\ Pow2[j + 1 + 1] = 2 * Pow2[j + 1] /\ j + 1 \in Nat
    BY Pow2Unfold
  <2>4. rest \in Nat /\ rest < m /\ rest <= T /\ m = rest + T
    BY <2>2, <2>3 DEF TreeSize
  <2> HIDE DEF rest
  <2>5. PyPeelsAll(rest, T)
    BY <1>2, <2>2, <2>4 DEF PyPeelsBelow
  <2>6. PyPeel[rest][T] <=> (\E r \in Nat : rest = SizeOfLeaves(r)) /\ rest < T
    <3>1. T # 0
      BY <2>2
    <3> QED
      BY <2>5, <3>1, Zenon DEF PyPeelsAll
  <2>7. ASSUME NEW r \in Nat, rest = SizeOfLeaves(r), rest < T
        PROVE  \E s \in Nat : m = SizeOfLeaves(s)
    <3>1. r < Pow2[j]
      <4>1. Pow2[j] <= r <=> TreeSize(j) <= SizeOfLeaves(r)
        BY BlockFits
      <4> QED
        BY <2>2, <2>3, <2>4, <2>7, <4>1
    <3>2. SizeOfLeaves(r + Pow2[j]) = T + rest /\ r + Pow2[j] \in Nat
      BY <2>2, <2>3, <2>7, <3>1, SizeOfLeavesTopTree
    <3>3. m = SizeOfLeaves(r + Pow2[j])
      BY <2>2, <2>4, <3>2
    <3> QED
      BY <3>2, <3>3
  <2>8. ASSUME NEW s \in Nat, m = SizeOfLeaves(s)
        PROVE  (\E r \in Nat : rest = SizeOfLeaves(r)) /\ rest < T
    <3>1. Pow2[j] <= s /\ ~(Pow2[j + 1] <= s)
      <4>1. TreeSize(j + 1) \in Nat
        BY <2>3, TreeSizeNat
      <4>2. TreeSize(j) <= SizeOfLeaves(s) /\ ~(TreeSize(j + 1) <= SizeOfLeaves(s))
        BY <2>2, <2>8, <4>1
      <4> QED
        BY <2>3, <4>2, BlockFits
    <3>2. s - Pow2[j] \in Nat /\ s - Pow2[j] < Pow2[j]
      BY <2>3, <3>1
    <3>3. SizeOfLeaves((s - Pow2[j]) + Pow2[j]) = T + SizeOfLeaves(s - Pow2[j])
      BY <2>2, <3>2, SizeOfLeavesTopTree
    <3>4. (s - Pow2[j]) + Pow2[j] = s /\ SizeOfLeaves(s - Pow2[j]) \in Nat
      <4>1. SizeOfLeaves(s - Pow2[j]) \in Nat
        BY <3>2, SizeOfLeavesBounds
      <4> QED
        BY <2>3, <4>1
    <3>5. rest = SizeOfLeaves(s - Pow2[j])
      BY <2>2, <2>4, <2>8, <3>3, <3>4
    <3>6. ~(T <= rest)
      BY <2>2, <3>2, <3>5, BlockFits, <2>3
    <3> QED
      BY <2>2, <2>4, <3>2, <3>5, <3>6
  <2>9. PyPeel[rest][T] <=> \E s \in Nat : m = SizeOfLeaves(s)
    BY <2>6, <2>7, <2>8, Zenon
  <2>10. CASE T = last
    <3>1. last # 0 /\ ~(m < last)
      BY <2>2, <2>10
    <3> QED
      BY <2>1, <2>10, <3>1, Zenon DEF PyPeelsAll
  <2>11. CASE T # last
    <3>1. last # 0 => m < last
      <4> SUFFICES ASSUME last # 0, m = last PROVE FALSE
        BY <1>2
      <4>1. PICK k \in Nat : last = TreeSize(k)
        BY <1>2
      <4>2. /\ Pow2[k] \in Nat /\ Pow2[k + 1] = 2 * Pow2[k]
            /\ TreeSize(k) <= SizeOfLeaves(Pow2[k])
        <5>1. Pow2[k] \in Nat /\ Pow2[k] <= Pow2[k] /\ Pow2[k + 1] = 2 * Pow2[k]
          BY Pow2Unfold
        <5> QED
          BY <5>1, SizeOfManyLeaves
      <4>3. k # j
        BY <2>2, <2>11, <4>1
      <4>4. CASE k < j
        <5>1. Pow2[k] < Pow2[j]
          BY <4>4, Pow2Monotone
        <5> QED
          BY <2>2, <2>3, <4>1, <4>2, <5>1 DEF TreeSize
      <4>5. CASE j < k
        <5>1. j + 1 = k \/ j + 1 < k
          BY <4>5
        <5>2. Pow2[j + 1] <= Pow2[k]
          BY <2>3, <4>2, <5>1, Pow2Monotone
        <5> QED
          BY <2>2, <2>3, <4>1, <4>2, <5>2 DEF TreeSize
      <4> QED
        BY <4>3, <4>4, <4>5
    <3> QED
      BY <2>1, <2>9, <2>11, <3>1, Zenon DEF PyPeelsAll
  <2> QED
    BY <2>10, <2>11
<1>3. ASSUME NEW m \in Nat, \A i \in Nat : i < m => i \in E
      PROVE  m \in E
  <2>1. CASE m = 0
    BY <1>1, <2>1
  <2>2. CASE m # 0
    <3>1. m \in Nat \ {0} /\ \A i \in Nat : i < m => PyPeelsBelow(i)
      BY <1>3, <2>2
    <3>2. PyPeelsBelow(m)
      BY <1>2, <3>1 DEF PyPeelsBelow
    <3> QED
      BY <3>2
  <2> QED
    BY <2>1, <2>2
<1> HIDE DEF E
<1>4. \A m \in Nat : m \in E
  BY <1>3, StrongNatInduction
<1> QED
  BY <1>4 DEF E

(* The Python checker accepts the sizes of MMRs, and 0.                    *)
LEMMA PyCheckerIsCorrect ==
  ASSUME NEW m \in Nat
  PROVE  PyIsValidMmrSize(m) <=> m = 0 \/ IsMmrSize(m)
<1>1. PyPeelsAll(m, 0)
  BY PyPeelFinds DEF PyPeelsBelow
<1>2. PyPeel[m][0] <=> \E r \in Nat : m = SizeOfLeaves(r)
  BY <1>1, Zenon DEF PyPeelsAll
<1>3. IsMmrSize(m) <=> m > 0 /\ \E r \in Nat : m = SizeOfLeaves(r)
  BY IsMmrSizeUnbounded
<1>4. (\E r \in Nat : m = SizeOfLeaves(r)) <=> m = 0 \/ IsMmrSize(m)
  BY <1>3, SizeOfLeavesBounds
<1> QED
  BY <1>2, <1>4, Zenon DEF PyIsValidMmrSize

(* The verdict of the Cairo checker is the one of both reference checkers, *)
(* except that the Python one accepts 0.                                   *)
THEOREM ReferencesAgree == Spec => []ReferenceCheckersAgree
<1>1. VerdictCorrect /\ TypeOK => ReferenceCheckersAgree
  <2> SUFFICES ASSUME VerdictCorrect, TypeOK, Decided, size <= Pow2[MaxBits]
               PROVE  /\ verdict = "valid" <=> RsIsValidMmrSize(size)
                      /\ verdict = "valid" \/ size = 0 <=> PyIsValidMmrSize(size)
    BY DEF ReferenceCheckersAgree
  <2>1. size \in Nat
    BY SizesAssumption DEF TypeOK
  <2>2. verdict = "valid" <=> IsMmrSize(size)
    BY DEF VerdictCorrect
  <2>3. /\ RsIsValidMmrSize(size) <=> IsMmrSize(size)
        /\ PyIsValidMmrSize(size) <=> size = 0 \/ IsMmrSize(size)
    BY <2>1, RsCheckerIsCorrect, PyCheckerIsCorrect
  <2> QED
    BY <2>2, <2>3, Zenon
<1> QED
  BY <1>1, CheckerIsCorrect, TypeCorrect, PTL

-----------------------------------------------------------------------------
(* The recursion stays among the positions of one height.                  *)
LevelKept ==
  /\ Height[x] = Height[pos]
  /\ \A h \in Nat : HasHeight(x, h) => HasHeight(pos, h)
  /\ HeightReturned => HasHeight(pos, height) /\ height = Height[pos]

HeightTypes == pos \in Int /\ x \in Int /\ height \in Int

PeaksTypes ==
  /\ size \in Nat /\ mmr_len \in Int /\ left_child \in Int
  /\ peaks \in Seq(Int)
  /\ pc \in {"inner", "height"} => peaks # <<>>

PositionsInv == HeightTypes /\ PeaksTypes /\ LevelKept

LEMMA CallKeepsInv ==
  ASSUME NEW position \in Int, CallHeight(position)
  PROVE  HeightTypes' /\ LevelKept'
<1>1. pos' = position /\ x' = position /\ height' = NoHeight /\ NoHeight \in Int
  BY DEF CallHeight, NoHeight
<1>2. ~HeightReturned'
  BY <1>1 DEF HeightReturned
<1> QED
  BY <1>1, <1>2 DEF HeightTypes, LevelKept

LEMMA RecursionKeepsInv ==
  ASSUME HeightTypes, LevelKept, AllOnes \/ JumpLeft
  PROVE  HeightTypes' /\ LevelKept'
<1>1. CASE AllOnes
  <2>1. PICK b \in BitLengths : x = Pow2[b] - 1 /\ height' = b - 1
    BY <1>1 DEF AllOnes
  <2>2. b \in Nat /\ b >= 1 /\ b - 1 \in Nat /\ pos' = pos /\ x' = x
    BY <1>1, TableBitsAssumption DEF AllOnes, BitLengths
  <2>3. HasHeight(x, b - 1)
    <3>1. HasHeight(Pow2[(b - 1) + 1] - 1, b - 1)
      BY <2>2, AllOnesHeight
    <3>2. (b - 1) + 1 = b
      BY <2>2
    <3> QED
      BY <2>1, <3>1, <3>2
  <2>4. Height[x] = b - 1
    <3>1. /\ Pow2[b] \in Nat /\ Pow2[b - 1] \in Nat /\ Pow2[b - 1] >= 1
          /\ Pow2[(b - 1) + 1] = 2 * Pow2[b - 1] /\ (b - 1) + 1 = b
      BY <2>2, Pow2Unfold, Pow2Exceeds
    <3>2. x \in Nat /\ Pow2[b - 1] <= x /\ x < Pow2[b]
      BY <2>1, <3>1
    <3>3. BitLength(x) = b
      BY <2>2, <3>2, BitLengthUnique
    <3> QED
      BY <2>1, <3>2, <3>3, HeightUnfold
  <2> QED
    BY <2>1, <2>2, <2>3, <2>4 DEF HeightTypes, LevelKept
<1>2. CASE JumpLeft
  <2>1. PICK b \in BitLengths :
          /\ x # Pow2[b] - 1 /\ x < Pow2[b] /\ Pow2[b - 1] <= x
          /\ x' = x - Pow2[b - 1] + 1
    BY <1>2 DEF JumpLeft, JumpTarget
  <2>2. /\ b \in Nat /\ b >= 1 /\ b - 1 \in Nat
        /\ pos' = pos /\ height' = height /\ ~HeightReturned
    BY <1>2, TableBitsAssumption
       DEF JumpLeft, BitLengths, HeightPending, HeightReturned
  <2>3. x \in Nat
    <3>1. Pow2[b - 1] \in Nat
      BY <2>2, Pow2Unfold
    <3> QED
      BY <2>1, <3>1 DEF HeightTypes
  <2>4. PICK j \in Nat :
          /\ TreeSize(j) \in Nat /\ x' \in Nat /\ x' <= TreeSize(j)
          /\ x = x' + TreeSize(j)
    BY <2>1, <2>2, <2>3, JumpGeometry
  <2>5. \A h \in Nat : HasHeight(x', h) => HasHeight(x, h)
    BY <2>4, JumpKeepsLevel
  <2>6. Height[x] = Height[x']
    <3>1. BitLength(x) = b
      BY <2>1, <2>2, <2>3, BitLengthUnique
    <3> QED
      BY <2>1, <2>3, <3>1, HeightUnfold
  <2>7. ~HeightReturned'
    BY <2>2 DEF HeightReturned
  <2> QED
    BY <2>2, <2>4, <2>5, <2>6, <2>7 DEF HeightTypes, LevelKept
<1> QED
  BY <1>1, <1>2

LEMMA PositionsInvInit == PositionsInit => PositionsInv
<1> SUFFICES ASSUME PositionsInit PROVE PositionsInv
  OBVIOUS
<1>1. /\ pos = 0 /\ x = 0 /\ height = NoHeight /\ size \in Sizes
      /\ mmr_len = 0 /\ peaks = <<>> /\ left_child = 0 /\ pc = "idle"
  BY DEF PositionsInit, Init, HeightInit, PeaksInit
<1>2. HeightTypes /\ LevelKept
  BY <1>1 DEF HeightTypes, LevelKept, NoHeight, HeightReturned
<1>3. PeaksTypes
  BY <1>1, SizesAssumption DEF PeaksTypes
<1> QED
  BY <1>2, <1>3 DEF PositionsInv

LEMMA PeaksNextKeepsInv ==
  ASSUME PositionsInv, PeaksNext, UNCHANGED size
  PROVE  PositionsInv'
<1> USE DEF PositionsInv
<1>1. ASSUME UNCHANGED heightVars
      PROVE  HeightTypes' /\ LevelKept'
  BY <1>1 DEF heightVars, HeightTypes, LevelKept, HeightReturned
<1>2. CASE FirstPeak
  <2>1. PICK b \in BitLengths :
          peaks' = << IF mmr_len = Pow2[b] - 1 THEN mmr_len ELSE Pow2[b - 1] - 1 >>
    BY <1>2 DEF FirstPeak
  <2>2. Pow2[b - 1] \in Nat
    BY TableBitsAssumption, Pow2Unfold DEF BitLengths
  <2>3. peaks' \in Seq(Int) /\ peaks' # <<>>
    BY <2>1, <2>2 DEF PeaksTypes
  <2> QED
    BY <1>1, <1>2, <2>3 DEF FirstPeak, PeaksTypes
<1>3. CASE LastPeak
  BY <1>1, <1>3 DEF LastPeak, PeaksTypes
<1>4. CASE AskPeakHeight
  <2>1. mmr_pos \in Int /\ CallHeight(mmr_pos)
    BY <1>4 DEF AskPeakHeight, PeaksTypes, mmr_pos
  <2>2. HeightTypes' /\ LevelKept'
    BY <2>1, CallKeepsInv
  <2> QED
    BY <1>4, <2>2 DEF AskPeakHeight, PeaksTypes
<1>5. CASE PeakHeight
  BY <1>5, RecursionKeepsInv DEF PeakHeight, PeaksTypes, peaksVars
<1>6. CASE RightSibling
  <2>1. mmr_pos \in Int /\ height + 1 \in Nat
    BY <1>6, TableBitsAssumption DEF RightSibling, PeaksTypes, mmr_pos
  <2>2. left_child' \in Int
    BY <1>6, <2>1, Pow2Unfold DEF RightSibling, RightSiblingOf
  <2> QED
    BY <1>1, <1>6, <2>2 DEF RightSibling, PeaksTypes
<1>7. CASE JumpInside
  <2>1. peaks' \in Seq(Int) /\ peaks' # <<>>
    BY <1>7 DEF JumpInside, PeaksTypes
  <2> QED
    BY <1>1, <1>7, <2>1 DEF JumpInside, PeaksTypes
<1>8. CASE JumpLeftChild
  <2>1. left_child' \in Int
    BY <1>8, TableBitsAssumption, Pow2Unfold
       DEF JumpLeftChild, LeftChildOf, PeaksTypes
  <2> QED
    BY <1>1, <1>8, <2>1 DEF JumpLeftChild, PeaksTypes
<1> QED
  BY <1>2, <1>3, <1>4, <1>5, <1>6, <1>7, <1>8 DEF PeaksNext

LEMMA PositionsInvStep ==
  PositionsInv /\ [PositionsNext]_positionVars => PositionsInv'
<1> SUFFICES ASSUME PositionsInv, [PositionsNext]_positionVars
             PROVE  PositionsInv'
  OBVIOUS
<1>1. ASSUME UNCHANGED <<size, heightVars, peaksVars>>
      PROVE  PositionsInv'
  BY <1>1 DEF PositionsInv, heightVars, peaksVars, HeightTypes, PeaksTypes,
              LevelKept, HeightReturned
<1>2. CASE CheckSize
  BY <1>1, <1>2 DEF CheckSize, Next, CheckRange, Finish, PeelPeak
<1>3. CASE PeaksOfSize
  <2>1. /\ mmr_len' = size /\ pc' = "first" /\ size' = size
        /\ UNCHANGED <<peaks, left_child, pos, x, height>>
    BY <1>3 DEF PeaksOfSize, CallPeaks, checkVars, vars, heightVars
  <2> QED
    BY <2>1 DEF PositionsInv, HeightTypes, PeaksTypes, LevelKept, HeightReturned
<1>4. CASE WalkPeaks
  BY <1>4, PeaksNextKeepsInv DEF WalkPeaks, checkVars, vars
<1>5. CASE NodeHeight
  <2>1. PICK position \in 1..mmr_len : CallHeight(position)
    BY <1>5 DEF NodeHeight
  <2>2. position \in Int
    BY DEF PositionsInv, PeaksTypes
  <2>3. HeightTypes' /\ LevelKept'
    BY <2>1, <2>2, CallKeepsInv
  <2> QED
    BY <1>5, <2>3 DEF NodeHeight, PositionsInv, PeaksTypes, checkVars, vars
<1>6. CASE NodeHeightStep
  BY <1>6, RecursionKeepsInv
     DEF NodeHeightStep, PositionsInv, PeaksTypes, checkVars, vars, peaksVars
<1>7. CASE UNCHANGED positionVars
  BY <1>1, <1>7 DEF positionVars, checkVars, vars
<1> QED
  BY <1>2, <1>3, <1>4, <1>5, <1>6, <1>7 DEF PositionsNext

(* The height of every position a program asks for is the one the append   *)
(* gave the node, and no jump on the way leaves the level of the node.     *)
THEOREM HeightIsCorrect == PositionsSpec => []HeightCorrect
<1>1. PositionsInit => PositionsInv
  BY PositionsInvInit
<1>2. PositionsInv /\ [PositionsNext]_positionVars => PositionsInv'
  BY PositionsInvStep
<1>3. PositionsInv => HeightCorrect
  BY TableBitsAssumption DEF PositionsInv, LevelKept, HeightCorrect
<1> QED
  BY <1>1, <1>2, <1>3, PTL DEF PositionsSpec

-----------------------------------------------------------------------------
(* a leaves are under the peaks up to p, in blocks of the height of p, and *)
(* r others behind it.                                                     *)
Splits(p, a, r) ==
  /\ p \in Nat \ {0} /\ p = SizeOfLeaves(a) /\ Multiple(a, Height[p])
  /\ r < Pow2[Height[p]]
  /\ mmr_len = p + SizeOfLeaves(r)

(* Where the walk is: at a peak with leaves behind it, or on the left      *)
(* spine of the tree that would stand there, of which there are enough     *)
(* leaves for less than the tree above.                                    *)
OnTheWay(a, r) ==
  /\ Splits(mmr_pos, a, r)
  /\ pc = "height" => r > 0 /\ pos = mmr_pos
  /\ pc = "jump" =>
       /\ r > 0 /\ left_child_height \in Nat
       /\ left_child_height <= Height[mmr_pos]
       /\ left_child = mmr_pos + TreeSize(left_child_height)
       /\ r < Pow2[left_child_height + 1]

TilingInv ==
  /\ PositionsInv /\ IInv
  /\ PeaksTile
  /\ pc \in {"idle", "first"} => peaks = <<>>
  /\ pc = "first" => \E m \in Nat \ {0} : mmr_len = SizeOfLeaves(m)
  /\ pc \in {"inner", "height", "jump"} =>
       peaks # <<>> /\ \E a, r \in Nat : OnTheWay(a, r)

(* A validated size is the size of an MMR with leaves.                     *)
LEMMA ValidSizes ==
  ASSUME IInv, verdict = "valid"
  PROVE  \E m \in Nat \ {0} : size = SizeOfLeaves(m)
<1>1. /\ size \in Nat /\ size > 0 /\ n = 0
      /\ PeeledIsMmr(size, n, prev_peak)
  BY SizesAssumption DEF IInv, TypeOK
<1>2. PICK m \in 0..size : size - n = SizeOfLeaves(m)
  BY <1>1 DEF PeeledIsMmr
<1>3. m # 0
  BY <1>1, <1>2, SizeOfLeavesBounds
<1> QED
  BY <1>1, <1>2, <1>3

(* PeaksTile says this of every element of peaks.                          *)
Tile(s, i) ==
  LET before == IF i = 1 THEN 0 ELSE s[i - 1]
  IN  /\ HasHeight(s[i], Height[s[i]])
      /\ s[i] = before + TreeSize(Height[s[i]])
      /\ i > 1 => Height[s[i]] < Height[before]

(* Another peak behind the last one, lower than it.                        *)
LEMMA AppendTiles ==
  ASSUME PeaksTypes, PeaksTile, peaks # <<>>, NEW p \in Nat \ {0},
         peaks' = Append(peaks, p), HasHeight(p, Height[p]),
         p = mmr_pos + TreeSize(Height[p]), Height[p] < Height[mmr_pos]
  PROVE  PeaksTile'
<1> DEFINE l == Len(peaks)
<1>1. peaks \in Seq(Int) /\ l \in Nat /\ l >= 1 /\ mmr_pos = peaks[l]
  BY DEF PeaksTypes, mmr_pos
<1>2. /\ Len(peaks') = l + 1 /\ peaks'[l + 1] = p
      /\ \A i \in 1..l : peaks'[i] = peaks[i]
  BY <1>1
<1> HIDE DEF l
<1>3. Tile(peaks', l + 1)
  <2>1. (l + 1) - 1 = l /\ l + 1 > 1 /\ peaks'[l] = mmr_pos
    BY <1>1, <1>2
  <2> QED
    BY <1>2, <2>1 DEF Tile
<1>4. ASSUME NEW i \in 1..l
      PROVE  Tile(peaks', i)
  <2>1. Tile(peaks, i)
    BY DEF PeaksTile, Tile, l
  <2>2. peaks'[i] = peaks[i] /\ (i # 1 => peaks'[i - 1] = peaks[i - 1])
    BY <1>1, <1>2
  <2>3. CASE i = 1
    BY <2>1, <2>2, <2>3 DEF Tile
  <2>4. CASE i # 1
    BY <2>1, <2>2, <2>4 DEF Tile
  <2> QED
    BY <2>3, <2>4
<1>5. \A i \in 1..(l + 1) : Tile(peaks', i)
  <2> SUFFICES ASSUME NEW i \in 1..(l + 1) PROVE Tile(peaks', i)
    OBVIOUS
  <2>1. i = l + 1 \/ i \in 1..l
    BY <1>1
  <2> QED
    BY <1>3, <1>4, <2>1
<1> QED
  BY <1>2, <1>5 DEF PeaksTile, Tile

(* A step that leaves the walk alone.                                      *)
LEMMA WalkUntouched ==
  ASSUME TilingInv, PositionsInv', IInv', UNCHANGED <<heightVars, peaksVars>>
  PROVE  TilingInv'
<1>1. \A a, r : OnTheWay(a, r)' = OnTheWay(a, r)
  BY DEF heightVars, peaksVars, OnTheWay, Splits, mmr_pos
<1> QED
  BY <1>1 DEF TilingInv, PeaksTile, heightVars, peaksVars

LEMMA WalkTiles ==
  ASSUME TilingInv, PeaksNext, UNCHANGED checkVars, PositionsInv', IInv'
  PROVE  TilingInv'
<1>1. PositionsInv /\ IInv /\ PeaksTile /\ PeaksTypes /\ HeightTypes /\ LevelKept
  BY DEF TilingInv, PositionsInv
<1>2. CASE FirstPeak
  <2>1. PICK m \in Nat \ {0} : mmr_len = SizeOfLeaves(m)
    BY <1>2 DEF FirstPeak, TilingInv
  <2>2. PICK b \in BitLengths :
          /\ mmr_len < Pow2[b] /\ Pow2[b - 1] <= mmr_len
          /\ peaks' = << IF mmr_len = Pow2[b] - 1 THEN mmr_len
                         ELSE Pow2[b - 1] - 1 >>
    BY <1>2 DEF FirstPeak
  <2>3. b \in Nat /\ b >= 1
    BY TableBitsAssumption DEF BitLengths
  <2> DEFINE p == IF mmr_len = Pow2[b] - 1 THEN mmr_len ELSE Pow2[b - 1] - 1
  <2>4. PICK i \in Nat, r \in Nat :
           /\ p = TreeSize(i) /\ p = SizeOfLeaves(Pow2[i]) /\ p \in Nat \ {0}
           /\ HasHeight(p, i) /\ Height[p] = i /\ Multiple(Pow2[i], i)
           /\ r < Pow2[i] /\ mmr_len = p + SizeOfLeaves(r)
    BY <2>1, <2>2, <2>3, FirstPeakSpec
  <2> HIDE DEF p
  <2>5. peaks' = <<p>> /\ mmr_pos' = p /\ pc' = "inner" /\ mmr_len' = mmr_len
    BY <1>2, <2>2 DEF FirstPeak, mmr_pos, p
  <2>6. PeaksTile'
    <3>1. Len(peaks') = 1 /\ peaks'[1] = p
      BY <2>5
    <3>2. p = 0 + TreeSize(i)
      BY <2>4
    <3>3. Tile(peaks', 1)
      BY <2>4, <3>1, <3>2 DEF Tile
    <3>4. \A k \in 1..1 : k = 1
      OBVIOUS
    <3>5. \A k \in 1..Len(peaks') : Tile(peaks', k)
      BY <3>1, <3>3, <3>4
    <3> QED
      BY <3>5 DEF PeaksTile, Tile
  <2>7. Pow2[i] \in Nat
    BY Pow2Unfold
  <2>8. OnTheWay(Pow2[i], r)'
    BY <2>4, <2>5 DEF OnTheWay, Splits
  <2> QED
    BY <2>5, <2>6, <2>7, <2>8 DEF TilingInv
<1>3. CASE LastPeak
  BY <1>3 DEF LastPeak, TilingInv, PeaksTile
<1> DEFINE p == mmr_pos
<1>4. ASSUME pc \in {"inner", "height", "jump"}, UNCHANGED <<peaks, mmr_len>>,
             pc' \in {"inner", "height", "jump"},
             \A a, r \in Nat : OnTheWay(a, r) => OnTheWay(a, r)'
      PROVE  TilingInv'
  BY <1>4 DEF TilingInv, PeaksTile
<1>5. CASE AskPeakHeight
  <2>1. /\ pc' = "height" /\ p # mmr_len /\ pos' = p /\ p' = p
        /\ UNCHANGED <<peaks, mmr_len>> /\ pc = "inner"
    BY <1>5 DEF AskPeakHeight, CallHeight, mmr_pos
  <2>2. ASSUME NEW a \in Nat, NEW r \in Nat, OnTheWay(a, r)
        PROVE  OnTheWay(a, r)'
    <3>1. Splits(p, a, r)
      BY <2>2 DEF OnTheWay
    <3>2. r > 0
      <4> SUFFICES ASSUME r = 0 PROVE FALSE
        OBVIOUS
      <4>1. SizeOfLeaves(r) = 0 /\ p \in Nat
        BY <3>1, SizeOfLeavesBounds DEF Splits
      <4> QED
        BY <2>1, <3>1, <4>1 DEF Splits
    <3>3. Splits(p, a, r)'
      BY <2>1, <3>1 DEF Splits
    <3> QED
      BY <2>1, <3>2, <3>3 DEF OnTheWay
  <2> QED
    BY <1>4, <2>1, <2>2
<1>6. CASE PeakHeight
  <2>1. pos' = pos /\ UNCHANGED peaksVars /\ pc = "height"
    BY <1>6 DEF PeakHeight, AllOnes, JumpLeft
  <2> QED
    BY <1>4, <2>1 DEF peaksVars, OnTheWay, Splits, mmr_pos
<1>7. CASE RightSibling
  <2>1. /\ pc = "height" /\ HeightReturned /\ pc' = "jump" /\ p' = p
        /\ left_child' = p + Pow2[height + 1] - 1 /\ left_child_height' = height
        /\ UNCHANGED <<peaks, mmr_len, pos>>
    BY <1>7 DEF RightSibling, RightSiblingOf, heightVars, mmr_pos
  <2>2. ASSUME NEW a \in Nat, NEW r \in Nat, OnTheWay(a, r)
        PROVE  OnTheWay(a, r)'
    <3>1. Splits(p, a, r) /\ r > 0 /\ pos = p
      BY <2>1, <2>2 DEF OnTheWay
    <3>2. height = Height[p] /\ height \in Nat
      BY <1>1, <2>1, <3>1, HeightExists DEF LevelKept, Splits
    <3>3. /\ Pow2[height + 1] = 2 * Pow2[height] /\ Pow2[height] \in Nat
          /\ r < Pow2[height] /\ p \in Nat
      BY <3>1, <3>2, Pow2Unfold DEF Splits
    <3>4. r < Pow2[height + 1] /\ left_child' = p + TreeSize(height)
      BY <2>1, <3>3 DEF TreeSize
    <3>5. Splits(p, a, r)'
      BY <2>1, <3>1 DEF Splits
    <3> QED
      BY <2>1, <3>1, <3>2, <3>4, <3>5 DEF OnTheWay
  <2> QED
    BY <1>4, <2>1, <2>2
<1>8. CASE JumpInside
  <2>1. /\ pc = "jump" /\ left_child <= mmr_len /\ pc' = "inner"
        /\ peaks' = Append(peaks, left_child) /\ mmr_len' = mmr_len
        /\ peaks # <<>>
    BY <1>8 DEF JumpInside, InMmr, TilingInv
  <2>2. PICK a \in Nat, r \in Nat : OnTheWay(a, r)
    BY <2>1 DEF TilingInv
  <2>3. PICK j \in Nat :
          /\ Splits(p, a, r) /\ r > 0 /\ r < Pow2[j + 1]
          /\ left_child = p + TreeSize(j)
    BY <2>1, <2>2 DEF OnTheWay
  <2>4. Pow2[j] <= r
    <3>1. SizeOfLeaves(r) \in Nat /\ TreeSize(j) \in Nat
      BY <2>3, SizeOfLeavesBounds, TreeSizeNat
    <3>2. TreeSize(j) <= SizeOfLeaves(r)
      BY <2>1, <2>3, <3>1 DEF Splits
    <3> QED
      BY <2>3, <3>2, BlockFits
  <2>5. Height[p] \in Nat
    BY <2>3, HeightExists DEF Splits
  <2>6. /\ j < Height[p] /\ left_child \in Nat \ {0}
        /\ HasHeight(left_child, j) /\ Height[left_child] = j
        /\ a + Pow2[j] \in Nat /\ Multiple(a + Pow2[j], j)
        /\ left_child = SizeOfLeaves(a + Pow2[j])
        /\ r - Pow2[j] \in Nat /\ r - Pow2[j] < Pow2[j]
        /\ SizeOfLeaves(a) + SizeOfLeaves(r)
             = left_child + SizeOfLeaves(r - Pow2[j])
    BY <2>3, <2>4, <2>5, NextPeak DEF Splits
  <2>7. mmr_pos' = left_child
    BY <1>1, <2>1, <2>6 DEF mmr_pos, PeaksTypes
  <2>8. PeaksTile'
    BY <1>1, <2>1, <2>3, <2>6, AppendTiles
  <2>9. OnTheWay(a + Pow2[j], r - Pow2[j])'
    BY <2>1, <2>3, <2>6, <2>7 DEF OnTheWay, Splits
  <2> QED
    BY <2>1, <2>6, <2>8, <2>9 DEF TilingInv, PositionsInv, PeaksTypes
<1>9. CASE JumpLeftChild
  <2>1. /\ pc = "jump" /\ left_child > mmr_len /\ pc' = "jump" /\ p' = p
        /\ left_child' = left_child - Pow2[left_child_height]
        /\ left_child_height' = left_child_height - 1
        /\ UNCHANGED <<peaks, mmr_len, pos>>
    BY <1>1, <1>9
       DEF JumpLeftChild, InMmr, LeftChildOf, heightVars, mmr_pos, PeaksTypes
  <2>2. ASSUME NEW a \in Nat, NEW r \in Nat, OnTheWay(a, r)
        PROVE  OnTheWay(a, r)'
    <3> DEFINE j == left_child_height
    <3>1. /\ Splits(p, a, r) /\ r > 0 /\ j \in Nat /\ j <= Height[p]
          /\ left_child = p + TreeSize(j)
      BY <2>1, <2>2 DEF OnTheWay
    <3>2. r < Pow2[j]
      <4>1. /\ SizeOfLeaves(r) \in Nat /\ TreeSize(j) \in Nat
            /\ Pow2[j] \in Nat
        BY <3>1, SizeOfLeavesBounds, TreeSizeNat
      <4>2. ~(TreeSize(j) <= SizeOfLeaves(r))
        BY <2>1, <3>1, <4>1 DEF Splits
      <4> QED
        BY <3>1, <4>1, <4>2, BlockFits
    <3>3. j # 0 /\ j - 1 \in Nat /\ (j - 1) + 1 = j
      BY <3>1, <3>2, Pow2Unfold
    <3>4. left_child' = p + TreeSize(j - 1)
      <4>1. /\ Pow2[j] \in Nat /\ Pow2[j + 1] = 2 * Pow2[j] /\ p \in Nat
        BY <3>1, Pow2Unfold DEF Splits
      <4> QED
        BY <2>1, <3>1, <3>3, <4>1 DEF TreeSize
    <3>5. Splits(p, a, r)'
      BY <2>1, <3>1 DEF Splits
    <3>6. j - 1 <= Height[p]
      BY <3>1, HeightExists DEF Splits
    <3> QED
      BY <2>1, <3>1, <3>2, <3>3, <3>4, <3>5, <3>6 DEF OnTheWay
  <2> QED
    BY <1>4, <2>1, <2>2
<1> QED
  BY <1>2, <1>3, <1>5, <1>6, <1>7, <1>8, <1>9 DEF PeaksNext

LEMMA TilingInit == PositionsInit => TilingInv
<1> SUFFICES ASSUME PositionsInit PROVE TilingInv
  OBVIOUS
<1>1. PositionsInv /\ IInv
  BY PositionsInvInit, InitIInv DEF PositionsInit
<1>2. peaks = <<>> /\ pc = "idle"
  BY DEF PositionsInit, PeaksInit
<1> QED
  BY <1>1, <1>2 DEF TilingInv, PeaksTile

LEMMA TilingStep == TilingInv /\ [PositionsNext]_positionVars => TilingInv'
<1> SUFFICES ASSUME TilingInv, [PositionsNext]_positionVars
             PROVE  TilingInv'
  OBVIOUS
<1>1. PositionsInv'
  BY PositionsInvStep DEF TilingInv
<1>2. IInv'
  <2>1. [Next]_vars
    BY DEF PositionsNext, CheckSize, PeaksOfSize, WalkPeaks, NodeHeight,
           NodeHeightStep, positionVars, checkVars
  <2> QED
    BY <2>1, NextIInv DEF TilingInv
<1>3. CASE CheckSize \/ UNCHANGED positionVars
  BY <1>1, <1>2, <1>3, WalkUntouched DEF CheckSize, positionVars
<1>4. CASE PeaksOfSize
  <2>1. /\ verdict = "valid" /\ pc = "idle" /\ mmr_len' = size /\ pc' = "first"
        /\ peaks' = peaks
    BY <1>4 DEF PeaksOfSize, CallPeaks
  <2>2. \E m \in Nat \ {0} : mmr_len' = SizeOfLeaves(m)
    BY <2>1, ValidSizes DEF TilingInv
  <2> QED
    BY <1>1, <1>2, <2>1, <2>2 DEF TilingInv, PeaksTile
<1>5. CASE WalkPeaks
  BY <1>1, <1>2, <1>5, WalkTiles DEF WalkPeaks
<1>6. CASE NodeHeight \/ NodeHeightStep
  <2>1. peaks' = peaks /\ pc' = "node"
    BY <1>6 DEF NodeHeight, NodeHeightStep, peaksVars
  <2> QED
    BY <1>1, <1>2, <2>1 DEF TilingInv, PeaksTile
<1> QED
  BY <1>3, <1>4, <1>5, <1>6 DEF PositionsNext

LEMMA TilingAlways == PositionsSpec => []TilingInv
<1>1. PositionsInit => TilingInv
  BY TilingInit
<1>2. TilingInv /\ [PositionsNext]_positionVars => TilingInv'
  BY TilingStep
<1> QED
  BY <1>1, <1>2, PTL DEF PositionsSpec

(* The peaks found are the roots of consecutive perfect trees, each lower  *)
(* than the one before, for every size the checker lets through.           *)
THEOREM PeaksAreTrees == PositionsSpec => []PeaksTile
<1>1. TilingInv => PeaksTile
  BY DEF TilingInv
<1> QED
  BY <1>1, TilingAlways, PTL

(* On the way down to the next peak the position is the one of a node of   *)
(* the height the program believes it has.                                 *)
THEOREM DescentIsLevel == PositionsSpec => []DescentKeepsHeight
<1>1. TilingInv => DescentKeepsHeight
  <2> SUFFICES ASSUME TilingInv, pc = "jump"
               PROVE  HasHeight(left_child, left_child_height)
    BY DEF DescentKeepsHeight
  <2>1. PICK a \in Nat, r \in Nat : OnTheWay(a, r)
    BY DEF TilingInv
  <2>2. Height[mmr_pos] \in Nat
    BY <2>1, HeightExists DEF OnTheWay, Splits
  <2>3. Multiple(a, left_child_height)
    BY <2>1, <2>2, MultipleOfLower DEF OnTheWay, Splits
  <2> QED
    BY <2>1, <2>3, RootBehind DEF OnTheWay, Splits
<1> QED
  BY <1>1, TilingAlways, PTL

-----------------------------------------------------------------------------
(* The next largest block of leaves behind whole blocks gives the next     *)
(* peak of get_peaks.                                                      *)
LEMMA PeakBehind ==
  ASSUME NEW a \in Nat, NEW r \in Nat, NEW j \in Nat,
         Multiple(a, j + 1), Pow2[j] <= r, r < Pow2[j + 1]
  PROVE  /\ PopCount[a] + 1 \in DOMAIN RsGetPeaks(SizeOfLeaves(a + r))
         /\ RsGetPeaks(SizeOfLeaves(a + r))[PopCount[a] + 1]
              = SizeOfLeaves(a + Pow2[j])
         /\ PopCount[a + Pow2[j]] = PopCount[a] + 1
<1>1. /\ Pow2[j] \in Nat /\ Pow2[j] >= 1 /\ Pow2[j + 1] \in Nat
      /\ Pow2[j + 1] = 2 * Pow2[j] /\ j + 1 \in Nat /\ a + r \in Nat
  BY Pow2Unfold, Pow2Exceeds
<1>2. Block(a + r, a, j)
  BY <1>1 DEF Block
<1>3. PICK q \in Nat : a = q * Pow2[j + 1]
  BY DEF Multiple
<1>4. /\ PopCount[q * Pow2[j + 1] + Pow2[j]] = PopCount[q] + PopCount[Pow2[j]]
      /\ PopCount[q * Pow2[j + 1] + 0] = PopCount[q] + PopCount[0]
  <2> DEFINE k == j + 1
  <2>1. k \in Nat /\ Pow2[j] < Pow2[k] /\ 0 < Pow2[k] /\ Pow2[j] \in Nat
    BY <1>1
  <2> HIDE DEF k
  <2>2. PopCount[q * Pow2[k] + Pow2[j]] = PopCount[q] + PopCount[Pow2[j]]
    BY <2>1, PopCountParts
  <2>3. PopCount[q * Pow2[k] + 0] = PopCount[q] + PopCount[0]
    BY <2>1, PopCountParts
  <2> QED
    BY <2>2, <2>3 DEF k
<1>5. PopCount[Pow2[j]] = 1 /\ PopCount[0] = 0 /\ PopCount[q] \in Nat
  BY PopCountPow2, PopCountUnfold
<1>6. PopCount[a + Pow2[j]] = PopCount[a] + 1
  <2>1. q * Pow2[j + 1] + 0 = a
    BY <1>1, <1>3
  <2>2. PopCount[a] = PopCount[q]
    BY <1>4, <1>5, <2>1
  <2> QED
    BY <1>3, <1>4, <1>5, <2>2
<1> QED
  BY <1>1, <1>2, <1>6, PeaksOfBlocks

(* SizeOfLeaves tells the number of leaves.                                *)
LEMMA SizeInjective ==
  ASSUME NEW k \in Nat, NEW l \in Nat, SizeOfLeaves(k) = SizeOfLeaves(l)
  PROVE  k = l
<1>1. SizeOfLeaves(k) \in Nat /\ SizeOfLeaves(l) \in Nat
  BY SizeOfLeavesBounds
<1>2. k < l => SizeOfLeaves(k) < SizeOfLeaves(l)
  BY SizeStrict
<1>3. l < k => SizeOfLeaves(l) < SizeOfLeaves(k)
  BY SizeStrict
<1> QED
  BY <1>1, <1>2, <1>3

(* The walk has found the peaks of get_peaks of mmr.rs that cover the      *)
(* first a of the m leaves.                                                *)
FoundSoFar(m, a) ==
  /\ mmr_len = SizeOfLeaves(m) /\ mmr_pos = SizeOfLeaves(a)
  /\ Len(peaks) = PopCount[a]
  /\ \A i \in 1..Len(peaks) : peaks[i] = RsGetPeaks(mmr_len)[i]
  /\ pc = "done" => a = m

AgreeInv ==
  pc \in {"inner", "height", "jump", "done"} =>
    \E m \in Nat \ {0} : \E a \in Nat : FoundSoFar(m, a)

LEMMA WalkAgrees ==
  ASSUME TilingInv, AgreeInv, PeaksNext
  PROVE  AgreeInv'
<1>1. PositionsInv /\ PeaksTypes
  BY DEF TilingInv, PositionsInv
<1>2. CASE FirstPeak
  <2>1. PICK m \in Nat \ {0} : mmr_len = SizeOfLeaves(m)
    BY <1>2 DEF FirstPeak, TilingInv
  <2>2. PICK b \in BitLengths :
          /\ mmr_len < Pow2[b] /\ Pow2[b - 1] <= mmr_len
          /\ peaks' = << IF mmr_len = Pow2[b] - 1 THEN mmr_len
                         ELSE Pow2[b - 1] - 1 >>
    BY <1>2 DEF FirstPeak
  <2>3. b \in Nat /\ b >= 1
    BY TableBitsAssumption DEF BitLengths
  <2> DEFINE p == IF mmr_len = Pow2[b] - 1 THEN mmr_len ELSE Pow2[b - 1] - 1
  <2>4. PICK i \in Nat, r \in Nat :
           /\ p = TreeSize(i) /\ p = SizeOfLeaves(Pow2[i]) /\ p \in Nat \ {0}
           /\ HasHeight(p, i) /\ Height[p] = i /\ Multiple(Pow2[i], i)
           /\ r < Pow2[i] /\ mmr_len = p + SizeOfLeaves(r)
    BY <2>1, <2>2, <2>3, FirstPeakSpec
  <2> HIDE DEF p
  <2>5. peaks' = <<p>> /\ mmr_pos' = p /\ pc' = "inner" /\ mmr_len' = mmr_len
    BY <1>2, <2>2 DEF FirstPeak, mmr_pos, p
  <2>6. /\ Pow2[i] \in Nat /\ Pow2[i] >= 1 /\ Pow2[i + 1] = 2 * Pow2[i]
        /\ i + 1 \in Nat /\ Pow2[i + 1] \in Nat
    BY Pow2Unfold, Pow2Exceeds
  <2>7. m = Pow2[i] + r
    <3>1. SizeOfLeaves(Pow2[i] + r) = SizeOfLeaves(Pow2[i]) + SizeOfLeaves(r)
      BY <2>4, <2>6, SizeBehind
    <3>2. SizeOfLeaves(m) = SizeOfLeaves(Pow2[i] + r) /\ Pow2[i] + r \in Nat
      BY <2>1, <2>4, <2>6, <3>1
    <3> QED
      BY <3>2, SizeInjective
  <2>8. Multiple(0, i + 1)
    <3>1. 0 = 0 * Pow2[i + 1]
      BY <2>6
    <3> QED
      BY <3>1 DEF Multiple
  <2>9. /\ RsGetPeaks(SizeOfLeaves(0 + m))[PopCount[0] + 1]
             = SizeOfLeaves(0 + Pow2[i])
        /\ PopCount[0 + Pow2[i]] = PopCount[0] + 1
    <3>1. Pow2[i] <= m /\ m < Pow2[i + 1]
      BY <2>4, <2>6, <2>7
    <3> QED
      BY <2>8, <3>1, PeakBehind
  <2>10. RsGetPeaks(mmr_len)[1] = p /\ PopCount[Pow2[i]] = 1
    <3>1. 0 + m = m /\ 0 + Pow2[i] = Pow2[i] /\ PopCount[0] = 0 /\ 0 + 1 = 1
      BY <2>6, PopCountUnfold
    <3> QED
      BY <2>1, <2>4, <2>9, <3>1
  <2>11. FoundSoFar(m, Pow2[i])'
    <3>1. Len(peaks') = 1 /\ peaks'[1] = p /\ \A k \in 1..1 : k = 1
      BY <2>5
    <3>2. \A k \in 1..Len(peaks') : peaks'[k] = RsGetPeaks(mmr_len')[k]
      BY <2>5, <2>10, <3>1
    <3> QED
      BY <2>1, <2>4, <2>5, <2>10, <3>1, <3>2 DEF FoundSoFar
  <2> QED
    BY <2>6, <2>11 DEF AgreeInv
<1>3. ASSUME pc \in {"inner", "height", "jump"}, UNCHANGED <<peaks, mmr_len>>,
             pc' = "done" => mmr_pos = mmr_len
      PROVE  AgreeInv'
  <2>1. PICK m \in Nat \ {0}, a \in Nat : FoundSoFar(m, a)
    BY <1>3 DEF AgreeInv
  <2>2. pc' = "done" => a = m
    BY <1>3, <2>1, SizeInjective DEF FoundSoFar
  <2>3. FoundSoFar(m, a)'
    BY <1>3, <2>1, <2>2 DEF FoundSoFar, mmr_pos
  <2> QED
    BY <2>3 DEF AgreeInv
<1>4. CASE LastPeak \/ AskPeakHeight \/ PeakHeight \/ RightSibling \/ JumpLeftChild
  <2>1. /\ pc \in {"inner", "height", "jump"} /\ UNCHANGED <<peaks, mmr_len>>
        /\ pc' = "done" => mmr_pos = mmr_len
    BY <1>4 DEF LastPeak, AskPeakHeight, PeakHeight, RightSibling,
                JumpLeftChild, peaksVars
  <2> QED
    BY <1>3, <2>1
<1>5. CASE JumpInside
  <2>1. /\ pc = "jump" /\ left_child <= mmr_len /\ pc' = "inner"
        /\ peaks' = Append(peaks, left_child) /\ mmr_len' = mmr_len
        /\ peaks # <<>>
    BY <1>5 DEF JumpInside, InMmr, TilingInv
  <2>2. PICK a \in Nat, r \in Nat : OnTheWay(a, r)
    BY <2>1 DEF TilingInv
  <2>3. PICK m \in Nat \ {0}, found \in Nat : FoundSoFar(m, found)
    BY <2>1 DEF AgreeInv
  <2>4. PICK j \in Nat :
          /\ Splits(mmr_pos, a, r) /\ r > 0 /\ r < Pow2[j + 1]
          /\ left_child = mmr_pos + TreeSize(j)
    BY <2>1, <2>2 DEF OnTheWay
  <2>5. found = a
    BY <2>3, <2>4, SizeInjective DEF FoundSoFar, Splits
  <2>6. Height[mmr_pos] \in Nat
    BY <2>4, HeightExists DEF Splits
  <2>7. m = a + r
    <3>1. SizeOfLeaves(a + r) = SizeOfLeaves(a) + SizeOfLeaves(r)
      BY <2>4, <2>6, SizeBehind DEF Splits
    <3>2. SizeOfLeaves(m) = SizeOfLeaves(a + r) /\ a + r \in Nat
      BY <2>3, <2>4, <3>1 DEF FoundSoFar, Splits
    <3> QED
      BY <3>2, SizeInjective
  <2>8. Pow2[j] <= r
    <3>1. SizeOfLeaves(r) \in Nat /\ TreeSize(j) \in Nat
      BY SizeOfLeavesBounds, TreeSizeNat
    <3>2. TreeSize(j) <= SizeOfLeaves(r)
      BY <2>1, <2>4, <3>1 DEF Splits
    <3> QED
      BY <3>2, BlockFits
  <2>9. /\ j < Height[mmr_pos] /\ left_child = SizeOfLeaves(a + Pow2[j])
        /\ a + Pow2[j] \in Nat
    BY <2>4, <2>6, <2>8, NextPeak DEF Splits
  <2>10. Multiple(a, j + 1)
    <3>1. j + 1 \in Nat /\ j + 1 <= Height[mmr_pos]
      BY <2>6, <2>9
    <3> QED
      BY <2>4, <2>6, <3>1, MultipleOfLower DEF Splits
  <2>11. /\ RsGetPeaks(SizeOfLeaves(a + r))[PopCount[a] + 1]
              = SizeOfLeaves(a + Pow2[j])
         /\ PopCount[a + Pow2[j]] = PopCount[a] + 1
    BY <2>4, <2>8, <2>10, PeakBehind
  <2> DEFINE l == Len(peaks)
  <2>12. /\ l \in Nat /\ Len(peaks') = l + 1 /\ peaks'[l + 1] = left_child
         /\ \A i \in 1..l : peaks'[i] = peaks[i]
    BY <1>1, <2>1 DEF PeaksTypes
  <2>13. l = PopCount[a] /\ \A i \in 1..l : peaks[i] = RsGetPeaks(mmr_len)[i]
    BY <2>3, <2>5 DEF FoundSoFar
  <2>14. mmr_pos' = left_child
    BY <2>12 DEF mmr_pos
  <2>15. RsGetPeaks(mmr_len)[l + 1] = left_child
    BY <2>3, <2>7, <2>9, <2>11, <2>13 DEF FoundSoFar
  <2> HIDE DEF l
  <2>16. \A i \in 1..(l + 1) : peaks'[i] = RsGetPeaks(mmr_len)[i]
    <3> SUFFICES ASSUME NEW i \in 1..(l + 1)
                 PROVE  peaks'[i] = RsGetPeaks(mmr_len)[i]
      OBVIOUS
    <3>1. i = l + 1 \/ i \in 1..l
      BY <2>12
    <3> QED
      BY <2>12, <2>13, <2>15, <3>1
  <2>17. FoundSoFar(m, a + Pow2[j])'
    BY <2>1, <2>3, <2>9, <2>11, <2>12, <2>13, <2>14, <2>16 DEF FoundSoFar
  <2> QED
    BY <2>9, <2>17 DEF AgreeInv
<1> QED
  BY <1>2, <1>4, <1>5 DEF PeaksNext

LEMMA AgreeStep ==
  TilingInv /\ AgreeInv /\ [PositionsNext]_positionVars => AgreeInv'
<1> SUFFICES ASSUME TilingInv, AgreeInv, [PositionsNext]_positionVars
             PROVE  AgreeInv'
  OBVIOUS
<1>1. CASE CheckSize \/ UNCHANGED positionVars
  BY <1>1 DEF CheckSize, positionVars, peaksVars, AgreeInv, FoundSoFar, mmr_pos
<1>2. CASE PeaksOfSize \/ NodeHeight \/ NodeHeightStep
  BY <1>2 DEF PeaksOfSize, CallPeaks, NodeHeight, NodeHeightStep, peaksVars,
              AgreeInv
<1>3. CASE WalkPeaks
  BY <1>3, WalkAgrees DEF WalkPeaks
<1> QED
  BY <1>1, <1>2, <1>3 DEF PositionsNext

(* At the end of the walk the positions are those get_peaks of mmr.rs and  *)
(* get_peaks of mmr.py compute.                                            *)
LEMMA FoundAll == TilingInv /\ AgreeInv => PeaksAgree
<1> SUFFICES ASSUME TilingInv, AgreeInv, pc = "done"
             PROVE  /\ peaks = RsGetPeaks(mmr_len)
                    /\ LET py_peaks == PyGetPeaks(mmr_len)
                       IN  peaks = [i \in DOMAIN py_peaks |-> py_peaks[i] + 1]
  BY DEF PeaksAgree
<1>1. PICK m \in Nat \ {0} : FoundSoFar(m, m)
  BY DEF AgreeInv, FoundSoFar
<1> DEFINE rs == RsGetPeaks(mmr_len)
           py == PyGetPeaks(mmr_len)
<1>2. mmr_len = SizeOfLeaves(m) /\ rs \in Seq(Nat) /\ Len(rs) = PopCount[m]
  BY <1>1, GetPeaksOfLeaves DEF FoundSoFar
<1>3. /\ peaks \in Seq(Int) /\ Len(peaks) = Len(rs)
      /\ \A i \in 1..Len(peaks) : peaks[i] = rs[i]
  BY <1>1, <1>2 DEF TilingInv, PositionsInv, PeaksTypes, FoundSoFar
<1>4. py = FromZero(rs)
  BY <1>2, PyPeaksOfLeaves
<1> HIDE DEF rs, py
<1>5. peaks = rs
  BY <1>2, <1>3
<1>6. DOMAIN py = DOMAIN rs /\ \A i \in DOMAIN rs : py[i] = rs[i] - 1 /\ rs[i] \in Nat
  BY <1>2, <1>4 DEF FromZero
<1>7. rs = [i \in DOMAIN py |-> py[i] + 1]
  <2>1. \A i \in DOMAIN rs : rs[i] = py[i] + 1
    BY <1>6
  <2>2. rs = [i \in DOMAIN rs |-> rs[i]]
    BY <1>2
  <2> QED
    BY <1>6, <2>1, <2>2
<1> QED
  BY <1>5, <1>7 DEF rs, py

(* The Cairo program finds the peaks the Rust and the Python library find, *)
(* for every size the checker lets through.                                *)
THEOREM PeaksAreThoseOfBoth == PositionsSpec => []PeaksAgree
<1>1. PositionsInit => AgreeInv
  BY DEF PositionsInit, PeaksInit, AgreeInv
<1>2. TilingInv /\ AgreeInv /\ [PositionsNext]_positionVars => AgreeInv'
  BY AgreeStep
<1>3. TilingInv /\ AgreeInv => PeaksAgree
  BY FoundAll
<1> QED
  BY <1>1, <1>2, <1>3, TilingAlways, PTL DEF PositionsSpec
=============================================================================
