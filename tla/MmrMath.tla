------------------------------ MODULE MmrMath ------------------------------
(***************************************************************************)
(* The arithmetic every Merkle Mountain Range implementation of the        *)
(* repository shares: the table of powers of two, bit lengths, population  *)
(* counts, the size of an MMR of n leaves and the height of a position.    *)
(*                                                                         *)
(* Recursion is written as recursive functions, never as RECURSIVE         *)
(* operators, so that the modules built on this one can be proved about.   *)
(***************************************************************************)
EXTENDS Integers

(* pow2_array, the table pow2alloc127 returns: entry i is 2^i.             *)
Pow2[i \in Nat] == IF i = 0 THEN 1 ELSE 2 * Pow2[i - 1]

(* Number of bits of x: the least b with x < 2^b (Python's bit_length,     *)
(* Felt::bits, get_felt_bitlength). BitLength(0) = 0.                      *)
BitLength(x) ==
  CHOOSE b \in 0..x : x < Pow2[b] /\ (b = 0 \/ Pow2[b - 1] <= x)

(* Number of ones of n in binary (u64::count_ones).                        *)
PopCount[n \in Nat] == IF n = 0 THEN 0 ELSE (n % 2) + PopCount[n \div 2]

(* Number of consecutive ones at the low end of n (usize::trailing_ones).  *)
TrailingOnes[n \in Nat] ==
  IF n % 2 = 0 THEN 0 ELSE 1 + TrailingOnes[n \div 2]

(* Nodes of an MMR of n leaves: the formula of hint_generate_sequential.   *)
SizeOfLeaves(n) == 2 * n - PopCount[n]

(* The sizes an MMR can have, the empty one excluded.                      *)
IsMmrSize(x) == \E n \in 1..x : x = SizeOfLeaves(n)

(* Appending leaf k (from 0) adds the leaf and one parent for every        *)
(* trailing one of k, so the node at the 1-based position p has height h   *)
(* when it is the h-th parent some append added.                           *)
HasHeight(p, h) ==
  \E k \in 0..p : p = SizeOfLeaves(k) + 1 + h /\ h <= TrailingOnes[k]

(* Nodes of a perfect tree of the given height.                            *)
TreeSize(height) == Pow2[height + 1] - 1

(* Height of the node at the 1-based position x: jump to the left sibling  *)
(* tree until the position is all ones.                                    *)
Height[x \in Nat] ==
  LET b == BitLength(x)
  IN  IF x = Pow2[b] - 1 THEN b - 1 ELSE Height[x - Pow2[b - 1] + 1]
=============================================================================
