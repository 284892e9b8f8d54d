---------------------------- MODULE MmrSizeCheck ----------------------------
(***************************************************************************)
(* assert_mmr_size_is_valid: is a felt the size of some MMR?  The checker  *)
(* peels the largest perfect tree off the remaining size, one call of      *)
(* is_valid_mmr_size_inner per step, and refuses the size when the same    *)
(* tree would have to be peeled twice.                                     *)
(*                                                                         *)
(* The two reference checkers the tests compare it with, the Python one of *)
(* tools/py/mmr.py and the Rust one of mmr_size_generate.rs, are           *)
(* operators.                                                              *)
(***************************************************************************)
EXTENDS MmrMath

CONSTANTS
  Sizes,    \* the felts the checker may be called with
  MaxBits   \* sizes are at most 2^MaxBits: 126 in the code

ASSUME SizesAssumption == Sizes \subseteq Nat
ASSUME MaxBitsAssumption == MaxBits \in Nat

VARIABLES
  size,       \* x, the argument of assert_mmr_size_is_valid
  n,          \* size not yet associated with a peak
  prev_peak,  \* size of the last peak peeled off, 0 before the first
  verdict     \* "start", "loop", then "valid" or "invalid"

vars == <<size, n, prev_peak, verdict>>

-----------------------------------------------------------------------------
(* Mutant: the table of powers of two is one entry short.                  *)
AcceptsBitLengthShort(x, b) ==
  IF x = 0 THEN b = 0
  ELSE b \in 1..MaxBits /\ x < Pow2[b] /\ Pow2[b - 1] <= x

(* The constraints get_felt_bitlength puts on the bit length a hint        *)
(* supplies: they leave one value, whatever the hint computes.             *)
AcceptsBitLength(x, b) ==
  IF x = 0 THEN b = 0
  ELSE b \in 1..(MaxBits + 1) /\ x < Pow2[b] /\ Pow2[b - 1] <= x

(* Mutant: the comparison with m is forgotten.                             *)
LargestPeakUnchecked(m, b) == Pow2[b] - 1

(* The largest 2^k - 1 that is at most m, from the bit length b of m.      *)
LargestPeak(m, b) ==
  IF m + 1 <= Pow2[b] - 1 THEN Pow2[b - 1] - 1 ELSE Pow2[b] - 1

(* Mutant: the same tree may be peeled twice.                              *)
PeakNeverRepeats(peak) == FALSE

(* The test that refuses two trees of one size.                            *)
PeakRepeats(peak) == peak = prev_peak

-----------------------------------------------------------------------------
Init ==
  /\ size \in Sizes
  /\ n = size
  /\ prev_peak = 0
  /\ verdict = "start"

(* The range checks and the zero test of assert_mmr_size_is_valid.         *)
CheckRange ==
  /\ verdict = "start"
  /\ verdict' = IF size = 0 \/ size > Pow2[MaxBits] THEN "invalid" ELSE "loop"
  /\ UNCHANGED <<size, n, prev_peak>>

(* is_valid_mmr_size_inner with nothing left.                              *)
Finish ==
  /\ verdict = "loop"
  /\ n = 0
  /\ verdict' = "valid"
  /\ UNCHANGED <<size, n, prev_peak>>

(* is_valid_mmr_size_inner on a positive remainder: it returns 0 on a      *)
(* repeated peak and calls itself on the rest otherwise.                   *)
PeelPeak ==
  /\ verdict = "loop"
  /\ n > 0
  /\ \E b \in 0..(MaxBits + 1) :
       /\ AcceptsBitLength(n, b)
       /\ LET peak == LargestPeak(n, b)
          IN  IF PeakRepeats(peak)
                THEN verdict' = "invalid" /\ UNCHANGED <<n, prev_peak>>
                ELSE n' = n - peak /\ prev_peak' = peak /\ UNCHANGED verdict
  /\ UNCHANGED size

Next == CheckRange \/ Finish \/ PeelPeak

Spec == Init /\ [][Next]_vars /\ WF_vars(Next)

-----------------------------------------------------------------------------
(* The reference checkers.                                                 *)

(* is_valid_mmr_size of tools/py/mmr.py: the same loop, with no test for   *)
(* zero before it.                                                         *)
PyPeak(m) ==
  LET b == BitLength(m)
  IN  IF Pow2[b] - 1 > m THEN Pow2[b - 1] - 1 ELSE Pow2[b] - 1

PyPeel[m \in Nat] ==
  [last \in Nat |->
     m = 0 \/ (PyPeak(m) # last /\ PyPeel[m - PyPeak(m)][PyPeak(m)])]

PyIsValidMmrSize(m) == PyPeel[m][0]

(* is_valid_mmr_size of mmr_size_generate.rs: every height from the top,   *)
(* at most one tree of each.                                               *)
RsPeel[h \in Nat] ==
  [m \in Nat |->
     LET rest == IF TreeSize(h) <= m THEN m - TreeSize(h) ELSE m
     IN  IF h = 0 THEN rest ELSE RsPeel[h - 1][rest]]

(* Mutant: no test for zero.                                               *)
RsIsValidMmrSizeOrZero(m) == RsPeel[BitLength(m)][m] = 0

RsIsValidMmrSize(m) == m # 0 /\ RsPeel[BitLength(m)][m] = 0

-----------------------------------------------------------------------------
Decided == verdict \in {"valid", "invalid"}

(* The remainder never grows past the input, a peak is one less than a     *)
(* power of two.                                                           *)
TypeOK ==
  /\ size \in Sizes
  /\ n \in 0..size
  /\ prev_peak \in 0..size
  /\ verdict \in {"start", "loop", "valid", "invalid"}

(* The checker accepts exactly the sizes an MMR can have, up to the bound: *)
(* those 2 * leaves - popcount(leaves) gives for some number of leaves.    *)
VerdictCorrect ==
  Decided => (verdict = "valid" <=> IsMmrSize(size) /\ size <= Pow2[MaxBits])

(* The Rust checker that generates the expected outputs of the tests gives *)
(* the verdict of the Cairo checker, and the Python one the tests compare  *)
(* it with does for every size but 0, which it accepts.                    *)
ReferenceCheckersAgree ==
  Decided /\ size <= Pow2[MaxBits] =>
    /\ verdict = "valid" <=> RsIsValidMmrSize(size)
    /\ verdict = "valid" \/ size = 0 <=> PyIsValidMmrSize(size)

(* Every index the checker reads the table of powers of two at is one of   *)
(* its 128 entries, so a remainder within the bound has a bit length.      *)
PeelNeverStuck ==
  verdict = "loop" /\ n > 0 =>
    \E b \in 0..(MaxBits + 1) : AcceptsBitLength(n, b)

-----------------------------------------------------------------------------
(* The inductive invariant behind VerdictCorrect.                          *)

(* What has been peeled off x when rest is left is the MMR of some number  *)
(* m of leaves, whose trees are at least as high as the last one peeled.   *)
PeeledIsMmr(x, rest, last) ==
  \E m \in 0..x :
    /\ x - rest = SizeOfLeaves(m)
    /\ \/ last = 0 /\ m = 0
       \/ \E k \in 0..MaxBits, q \in 0..x :
            /\ last = TreeSize(k)
            /\ m = q * Pow2[k]
            /\ rest <= last

(* If x is the size of an MMR, so is what is left of it, and its trees are *)
(* lower than the last one peeled.                                         *)
RestIsMmr(x, rest, last) ==
  IsMmrSize(x) =>
    \E r \in 0..rest :
      /\ rest = SizeOfLeaves(r)
      /\ last = 0 \/ rest < last

IInv ==
  /\ TypeOK
  /\ verdict = "start" => n = size /\ prev_peak = 0
  /\ verdict \in {"loop", "valid"} =>
       /\ size > 0 /\ size <= Pow2[MaxBits]
       /\ PeeledIsMmr(size, n, prev_peak)
       /\ RestIsMmr(size, n, prev_peak)
  /\ verdict = "valid" => n = 0
  /\ verdict = "invalid" =>
       size = 0 \/ size > Pow2[MaxBits] \/ ~IsMmrSize(size)
=============================================================================
