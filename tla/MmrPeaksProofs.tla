-------------------------- MODULE MmrPeaksProofs ---------------------------
(***************************************************************************)
(* Facts about the functions of MmrMath and MmrPeaks, for every natural    *)
(* number: induction and recursion in first-order form, the arithmetic of  *)
(* sizes, the heights of positions, the peaks of MMRs.  The induction      *)
(* theorems of the library take a predicate as a parameter; the ones below *)
(* take a set instead, which the back ends can instantiate.                *)
(***************************************************************************)
EXTENDS MmrPeaks, WellFoundedInduction, SequenceTheorems, TLAPS

-----------------------------------------------------------------------------
(* Induction and recursion.                                                *)

LessThanOnNat == {p \in Nat \X Nat : p[1] < p[2]}

(* The order of the naturals, as a set of pairs, is well founded.          *)
LEMMA LessThanOnNatWellFounded == IsWellFoundedOn(LessThanOnNat, Nat)
<1>1. OpToRel(<, Nat) = LessThanOnNat
  BY DEF OpToRel, LessThanOnNat
<1> QED
  BY <1>1, NatLessThanWellFounded

(* Strong induction: a set that contains every natural all of whose        *)
(* predecessors it contains holds all naturals.                            *)
LEMMA StrongNatInduction ==
  ASSUME NEW S,
         \A n \in Nat : (\A m \in Nat : m < n => m \in S) => n \in S
  PROVE  \A n \in Nat : n \in S
<1> DEFINE T == {n \in Nat : n \notin S}
<1>1. SUFFICES ASSUME T # {} PROVE FALSE
  OBVIOUS
<1>2. PICK x \in T : \A y \in T : ~ (<<y, x>> \in LessThanOnNat)
  <2>1. T \subseteq Nat
    OBVIOUS
  <2> QED
    BY <1>1, <2>1, LessThanOnNatWellFounded, WFMin
<1>3. \A m \in Nat : m < x => m \in S
  BY <1>2 DEF LessThanOnNat
<1> QED
  BY <1>3

(* Induction: a set that contains 0 and the successor of each of its       *)
(* elements contains every natural.                                        *)
LEMMA NatSetInduction ==
  ASSUME NEW S, 0 \in S,
         \A n \in Nat : n \in S => n + 1 \in S
  PROVE  \A n \in Nat : n \in S
<1>1. ASSUME NEW n \in Nat, \A m \in Nat : m < n => m \in S
      PROVE  n \in S
  <2>1. CASE n = 0
    BY <2>1
  <2>2. CASE n # 0
    <3>1. n - 1 \in Nat /\ n - 1 < n
      BY <2>2
    <3>2. n - 1 \in S
      BY <3>1, <1>1
    <3>3. (n - 1) + 1 \in S
      BY <3>1, <3>2
    <3> QED
      BY <3>3
  <2> QED
    BY <2>1, <2>2
<1> QED
  BY <1>1, StrongNatInduction

-----------------------------------------------------------------------------
(* The equation a recursive function with at most one recursive call       *)
(* satisfies on the arguments up to n: stop is where the recursion      *)
(* ends, base what it returns there, pred the argument of the recursive    *)
(* call and comb how its result is used.                                   *)
Satisfies(f, D, stop, base, comb, pred) ==
  \A i \in D : f[i] = IF i \in stop THEN base[i] ELSE comb[i][f[pred[i]]]

WellPosed(S, stop, base, comb, pred) ==
  /\ stop \subseteq Nat
  /\ base \in [Nat -> S]
  /\ comb \in [Nat -> [S -> S]]
  /\ pred \in [Nat -> Nat]
  /\ \A n \in Nat : n \notin stop => pred[n] < n

(* Two functions that satisfy the equation up to m and up to n agree       *)
(* wherever both are defined.                                              *)
LEMMA RecursionUnique ==
  ASSUME NEW S, NEW stop, NEW base, NEW comb, NEW pred,
         WellPosed(S, stop, base, comb, pred),
         NEW m \in Nat, NEW n \in Nat, NEW f, NEW g,
         Satisfies(f, 0..m, stop, base, comb, pred),
         Satisfies(g, 0..n, stop, base, comb, pred)
  PROVE  \A i \in Nat : i <= m /\ i <= n => f[i] = g[i]
<1> DEFINE E == {i \in Nat : i <= m /\ i <= n => f[i] = g[i]}
<1>1. ASSUME NEW i \in Nat, \A j \in Nat : j < i => j \in E
      PROVE  i \in E
  <2> SUFFICES ASSUME i <= m, i <= n
               PROVE  f[i] = g[i]
    OBVIOUS
  <2>1. i \in 0..m /\ i \in 0..n
    OBVIOUS
  <2>2. /\ f[i] = IF i \in stop THEN base[i] ELSE comb[i][f[pred[i]]]
        /\ g[i] = IF i \in stop THEN base[i] ELSE comb[i][g[pred[i]]]
    BY <2>1 DEF Satisfies
  <2>3. CASE i \in stop
    BY <2>2, <2>3
  <2>4. CASE i \notin stop
    <3> DEFINE p == pred[i]
    <3>1. p \in Nat /\ p < i
      BY <2>4 DEF WellPosed
    <3> HIDE DEF p
    <3>2. p \in E
      BY <3>1, <1>1
    <3>3. f[p] = g[p]
      <4>1. p <= m /\ p <= n
        BY <3>1
      <4>2. p <= m /\ p <= n => f[p] = g[p]
        BY <3>2
      <4> QED
        BY <4>1, <4>2
    <3> QED
      BY <2>2, <2>4, <3>3 DEF p
  <2> QED
    BY <2>3, <2>4
<1> HIDE DEF E
<1>2. \A i \in Nat : i \in E
  BY <1>1, StrongNatInduction
<1> QED
  BY <1>2 DEF E

(* Such a function exists on every initial segment of the naturals ...     *)
LEMMA RecursionExistsUpTo ==
  ASSUME NEW S, NEW stop, NEW base, NEW comb, NEW pred,
         WellPosed(S, stop, base, comb, pred)
  PROVE  \A n \in Nat : \E f \in [0..n -> S] :
            Satisfies(f, 0..n, stop, base, comb, pred)
<1> USE DEF WellPosed
<1> DEFINE E == {n \in Nat : \E f \in [0..n -> S] :
                     Satisfies(f, 0..n, stop, base, comb, pred)}
<1>1. 0 \in E
  <2> DEFINE f == [i \in 0..0 |-> base[i]]
  <2>1. \A i \in 0..0 : i = 0
    OBVIOUS
  <2>2. f \in [0..0 -> S]
    OBVIOUS
  <2>3. 0 \in stop
    OBVIOUS
  <2>4. Satisfies(f, 0..0, stop, base, comb, pred)
    BY <2>1, <2>3 DEF Satisfies
  <2> QED
    BY <2>2, <2>4
<1>2. ASSUME NEW n \in Nat, n \in E
      PROVE  n + 1 \in E
  <2>1. PICK f \in [0..n -> S] :
          Satisfies(f, 0..n, stop, base, comb, pred)
    BY <1>2
  <2> DEFINE v == IF (n + 1) \in stop THEN base[n + 1]
                  ELSE comb[n + 1][f[pred[n + 1]]]
             g == [i \in 0..(n + 1) |-> IF i = n + 1 THEN v ELSE f[i]]
  <2>2. v \in S
    <3>1. CASE (n + 1) \in stop
      BY <3>1
    <3>2. CASE (n + 1) \notin stop
      <4>1. pred[n + 1] \in 0..n
        BY <3>2
      <4>2. f[pred[n + 1]] \in S
        BY <4>1
      <4> QED
        BY <3>2, <4>2
    <3> QED
      BY <3>1, <3>2
  <2> HIDE DEF v
  <2>3. g \in [0..(n + 1) -> S]
    BY <2>2
  <2>4. ASSUME NEW i \in 0..(n + 1)
        PROVE  g[i] = IF i \in stop THEN base[i] ELSE comb[i][g[pred[i]]]
    <3>1. ASSUME i \notin stop
          PROVE  pred[i] \in 0..n /\ pred[i] # n + 1 /\ g[pred[i]] = f[pred[i]]
      <4>1. pred[i] \in Nat /\ pred[i] < i
        BY <3>1
      <4>2. pred[i] \in 0..n /\ pred[i] # n + 1
        BY <4>1
      <4> QED
        BY <4>2
    <3>2. CASE i = n + 1
      BY <3>1, <3>2 DEF v
    <3>3. CASE i # n + 1
      <4>1. i \in 0..n
        BY <3>3
      <4>2. f[i] = IF i \in stop THEN base[i] ELSE comb[i][f[pred[i]]]
        BY <4>1, <2>1 DEF Satisfies
      <4> QED
        BY <4>2, <3>1, <3>3
    <3> QED
      BY <3>2, <3>3
  <2> HIDE DEF g
  <2>5. Satisfies(g, 0..(n + 1), stop, base, comb, pred)
    BY <2>4 DEF Satisfies
  <2>6. n + 1 \in Nat
    OBVIOUS
  <2> QED
    BY <2>3, <2>5, <2>6
<1> HIDE DEF E
<1>3. \A n \in Nat : n \in E
  BY <1>1, <1>2, NatSetInduction
<1> QED
  BY <1>3 DEF E

(* ... and on all of Nat.  Every recursive function of MmrMath is an       *)
(* instance: this is what makes their defining equations usable.           *)
LEMMA RecursionExists ==
  ASSUME NEW S, NEW stop, NEW base, NEW comb, NEW pred,
         WellPosed(S, stop, base, comb, pred)
  PROVE  \E f \in [Nat -> S] : Satisfies(f, Nat, stop, base, comb, pred)
<1> DEFINE Sat(f, n) == Satisfies(f, 0..n, stop, base, comb, pred)
           G(n) == CHOOSE f \in [0..n -> S] : Sat(f, n)
           F == [n \in Nat |-> G(n)[n]]
<1>unique. ASSUME NEW m \in Nat, NEW n \in Nat, NEW f, NEW g,
                  Satisfies(f, 0..m, stop, base, comb, pred),
                  Satisfies(g, 0..n, stop, base, comb, pred)
           PROVE  \A i \in Nat : i <= m /\ i <= n => f[i] = g[i]
  BY <1>unique, RecursionUnique
<1>1. ASSUME NEW n \in Nat
      PROVE  G(n) \in [0..n -> S] /\ Sat(G(n), n)
  BY RecursionExistsUpTo
<1> HIDE DEF G
<1>2. F \in [Nat -> S]
  BY <1>1
<1>3. ASSUME NEW n \in Nat
      PROVE  F[n] = IF n \in stop THEN base[n] ELSE comb[n][F[pred[n]]]
  <2>1. G(n)[n] = IF n \in stop THEN base[n] ELSE comb[n][G(n)[pred[n]]]
    <3>1. n \in 0..n
      OBVIOUS
    <3> QED
      BY <1>1, <3>1 DEF Satisfies
  <2>2. CASE n \in stop
    BY <2>1, <2>2
  <2>3. CASE n \notin stop
    <3> DEFINE p == pred[n]
    <3>1. p \in Nat /\ p <= n
      BY <2>3 DEF WellPosed
    <3> HIDE DEF p
    <3>2. G(p)[p] = G(n)[p]
      <4>1. Sat(G(p), p) /\ Sat(G(n), n)
        BY <3>1, <1>1
      <4> HIDE DEF Sat
      <4> QED
        BY <4>1, <3>1, <1>unique DEF Sat
    <3> QED
      BY <2>1, <2>3, <3>1, <3>2 DEF p
  <2> QED
    BY <2>2, <2>3
<1> HIDE DEF F
<1>4. Satisfies(F, Nat, stop, base, comb, pred)
  BY <1>3 DEF Satisfies
<1> QED
  BY <1>2, <1>4

(* A function on the naturals defined from its value one below.            *)
Iterates(f, S, first, next) ==
  /\ f \in [Nat -> S]
  /\ f[0] = first
  /\ \A n \in Nat : f[n + 1] = next[n + 1][f[n]]

LEMMA PrimitiveRecursion ==
  ASSUME NEW S, NEW first, NEW next, first \in S, next \in [Nat -> [S -> S]]
  PROVE  \E f : Iterates(f, S, first, next)
<1> DEFINE stop == {0}
           base == [n \in Nat |-> first]
           pred == [n \in Nat |-> IF n = 0 THEN 0 ELSE n - 1]
<1>1. WellPosed(S, stop, base, next, pred)
  <2>1. stop \subseteq Nat /\ base \in [Nat -> S] /\ pred \in [Nat -> Nat]
    OBVIOUS
  <2>2. 0 \in stop /\ \A n \in Nat : n \notin stop => pred[n] < n
    OBVIOUS
  <2> HIDE DEF stop, base, pred
  <2> QED
    BY <2>1, <2>2 DEF WellPosed
<1>2. PICK f \in [Nat -> S] : Satisfies(f, Nat, stop, base, next, pred)
  <2> HIDE DEF stop, base, pred
  <2> QED
    BY <1>1, RecursionExists
<1>3. ASSUME NEW n \in Nat
      PROVE  f[n] = IF n \in stop THEN base[n] ELSE next[n][f[pred[n]]]
  BY <1>2 DEF Satisfies
<1>4. f[0] = first
  <2>1. 0 \in Nat /\ 0 \in stop /\ base[0] = first
    OBVIOUS
  <2> HIDE DEF stop, base, pred
  <2> QED
    BY <1>3, <2>1
<1>5. ASSUME NEW n \in Nat
      PROVE  f[n + 1] = next[n + 1][f[n]]
  <2>1. n + 1 \in Nat /\ n + 1 \notin stop /\ pred[n + 1] = n
    OBVIOUS
  <2> HIDE DEF stop, base, pred
  <2> QED
    BY <1>3, <2>1
<1> QED
  BY <1>4, <1>5 DEF Iterates

-----------------------------------------------------------------------------
(* Powers of two.                                                          *)

(* The recursive definition of Pow2 unfolds.                               *)
LEMMA Pow2Unfold ==
  /\ Pow2 \in [Nat -> Nat]
  /\ Pow2[0] = 1
  /\ \A n \in Nat : Pow2[n + 1] = 2 * Pow2[n]
<1> DEFINE stop == {0}
           base == [n \in Nat |-> 1]
           comb == [n \in Nat |-> [v \in Nat |-> 2 * v]]
           pred == [n \in Nat |-> IF n = 0 THEN 0 ELSE n - 1]
<1>1. WellPosed(Nat, stop, base, comb, pred)
  <2>1. stop \subseteq Nat /\ base \in [Nat -> Nat] /\ pred \in [Nat -> Nat]
    OBVIOUS
  <2>2. comb \in [Nat -> [Nat -> Nat]]
    OBVIOUS
  <2>3. \A n \in Nat : n \notin stop => pred[n] < n
    OBVIOUS
  <2> HIDE DEF stop, base, comb, pred
  <2> QED
    BY <2>1, <2>2, <2>3 DEF WellPosed
<1>2. PICK f \in [Nat -> Nat] : Satisfies(f, Nat, stop, base, comb, pred)
  <2> HIDE DEF stop, base, comb, pred
  <2> QED
    BY <1>1, RecursionExists
<1>3. f = [n \in Nat |-> IF n = 0 THEN 1 ELSE 2 * f[n - 1]]
  <2>1. ASSUME NEW n \in Nat
        PROVE  f[n] = IF n = 0 THEN 1 ELSE 2 * f[n - 1]
    <3>1. f[n] = IF n \in stop THEN base[n] ELSE comb[n][f[pred[n]]]
      BY <1>2 DEF Satisfies
    <3>2. CASE n = 0
      BY <3>1, <3>2
    <3>3. CASE n # 0
      <4>1. pred[n] = n - 1 /\ f[n - 1] \in Nat
        BY <3>3
      <4> QED
        BY <3>1, <3>3, <4>1
    <3> QED
      BY <3>2, <3>3
  <2> QED
    BY <2>1
<1>4. Pow2 = [n \in Nat |-> IF n = 0 THEN 1 ELSE 2 * Pow2[n - 1]]
  BY <1>3 DEF Pow2
<1>5. Pow2 \in [Nat -> Nat]
  <2> DEFINE E == {n \in Nat : Pow2[n] \in Nat}
  <2>1. 0 \in E
    BY <1>4
  <2>2. ASSUME NEW n \in Nat, n \in E
        PROVE  n + 1 \in E
    BY <1>4, <2>2
  <2> HIDE DEF E
  <2>3. \A n \in Nat : n \in E
    BY <2>1, <2>2, NatSetInduction
  <2> QED
    BY <2>3, <1>4 DEF E
<1>6. Pow2[0] = 1
  BY <1>4
<1>7. ASSUME NEW n \in Nat
      PROVE  Pow2[n + 1] = 2 * Pow2[n]
  <2>1. n + 1 \in Nat /\ n + 1 # 0 /\ (n + 1) - 1 = n
    OBVIOUS
  <2> QED
    BY <1>4, <2>1
<1> QED
  BY <1>5, <1>6, <1>7

(* Powers of two exceed their exponent.                                    *)
LEMMA Pow2Exceeds == \A n \in Nat : Pow2[n] >= n + 1
<1> DEFINE E == {n \in Nat : Pow2[n] >= n + 1}
<1>1. 0 \in E
  BY Pow2Unfold
<1>2. ASSUME NEW n \in Nat, n \in E
      PROVE  n + 1 \in E
  BY <1>2, Pow2Unfold
<1> HIDE DEF E
<1>3. \A n \in Nat : n \in E
  BY <1>1, <1>2, NatSetInduction
<1> QED
  BY <1>3 DEF E

(* Powers of two are positive and increase.                                *)
LEMMA Pow2Monotone ==
  ASSUME NEW i \in Nat, NEW j \in Nat, i < j
  PROVE  /\ Pow2[i] \in Nat /\ Pow2[i] >= 1
         /\ 2 * Pow2[i] <= Pow2[j]
         /\ Pow2[i] < Pow2[j]
<1> DEFINE E == {n \in Nat : 2 * Pow2[i] <= Pow2[i + 1 + n]}
<1>1. 0 \in E
  BY Pow2Unfold
<1>2. ASSUME NEW n \in Nat, n \in E
      PROVE  n + 1 \in E
  <2>1. Pow2[i + 1 + (n + 1)] = 2 * Pow2[i + 1 + n]
    BY Pow2Unfold
  <2>2. Pow2[i] \in Nat /\ Pow2[i + 1 + n] \in Nat
    BY Pow2Unfold
  <2> QED
    BY <1>2, <2>1, <2>2
<1> HIDE DEF E
<1>3. \A n \in Nat : n \in E
  BY <1>1, <1>2, NatSetInduction
<1>4. j - i - 1 \in Nat
  OBVIOUS
<1>5. 2 * Pow2[i] <= Pow2[i + 1 + (j - i - 1)]
  BY <1>3, <1>4 DEF E
<1>6. i + 1 + (j - i - 1) = j
  OBVIOUS
<1>7. Pow2[i] \in Nat /\ Pow2[j] \in Nat /\ Pow2[i] >= 1
  BY Pow2Unfold, Pow2Exceeds
<1> QED
  BY <1>5, <1>6, <1>7

(* 2^(i + d) = 2^d * 2^i.                                                  *)
LEMMA Pow2Sum ==
  ASSUME NEW i \in Nat
  PROVE  \A d \in Nat : Pow2[i + d] = Pow2[d] * Pow2[i]
<1> DEFINE E == {d \in Nat : Pow2[i + d] = Pow2[d] * Pow2[i]}
<1>1. 0 \in E
  BY Pow2Unfold
<1>2. ASSUME NEW d \in Nat, d \in E
      PROVE  d + 1 \in E
  <2>1. Pow2[i + (d + 1)] = 2 * Pow2[i + d] /\ Pow2[d + 1] = 2 * Pow2[d]
    BY Pow2Unfold
  <2>2. Pow2[i] \in Nat /\ Pow2[d] \in Nat
    BY Pow2Unfold
  <2>3. 2 * (Pow2[d] * Pow2[i]) = (2 * Pow2[d]) * Pow2[i]
    BY <2>2
  <2> QED
    BY <1>2, <2>1, <2>3
<1> HIDE DEF E
<1>3. \A d \in Nat : d \in E
  BY <1>1, <1>2, NatSetInduction
<1> QED
  BY <1>3 DEF E

(* Every natural number has a bit length.                                  *)
LEMMA BitLengthExists ==
  \A x \in Nat : \E b \in 0..x : x < Pow2[b] /\ (b = 0 \/ Pow2[b - 1] <= x)
<1> DEFINE E == {x \in Nat : \E b \in 0..x :
                    x < Pow2[b] /\ (b = 0 \/ Pow2[b - 1] <= x)}
<1>1. 0 \in E
  BY Pow2Unfold
<1>2. ASSUME NEW x \in Nat, x \in E
      PROVE  x + 1 \in E
  <2>1. PICK b \in 0..x : x < Pow2[b] /\ (b = 0 \/ Pow2[b - 1] <= x)
    BY <1>2
  <2>2. Pow2[b] \in Nat /\ Pow2[b + 1] \in Nat /\ Pow2[b + 1] = 2 * Pow2[b]
    BY Pow2Unfold
  <2>3. CASE x + 1 < Pow2[b]
    <3>1. b = 0 \/ Pow2[b - 1] \in Nat
      BY Pow2Unfold
    <3>2. b = 0 \/ Pow2[b - 1] <= x + 1
      BY <2>1, <3>1
    <3>3. b \in 0..(x + 1)
      OBVIOUS
    <3> QED
      BY <2>3, <3>2, <3>3
  <2>4. CASE x + 1 >= Pow2[b]
    <3>1. b + 1 \in 0..(x + 1) /\ (b + 1) - 1 = b
      OBVIOUS
    <3>2. x + 1 < Pow2[b + 1] /\ Pow2[(b + 1) - 1] <= x + 1
      BY <2>1, <2>2, <2>4, <3>1
    <3> QED
      BY <3>1, <3>2
  <2> QED
    BY <2>2, <2>3, <2>4
<1> HIDE DEF E
<1>3. \A x \in Nat : x \in E
  BY <1>1, <1>2, NatSetInduction
<1> QED
  BY <1>3 DEF E

(* BitLength(x) is a natural b with 2^(b-1) <= x < 2^b.                    *)
LEMMA BitLengthSpec ==
  ASSUME NEW x \in Nat
  PROVE  /\ BitLength(x) \in 0..x
         /\ x < Pow2[BitLength(x)]
         /\ x > 0 => BitLength(x) >= 1 /\ Pow2[BitLength(x) - 1] <= x
<1>1. /\ BitLength(x) \in 0..x
      /\ x < Pow2[BitLength(x)]
      /\ BitLength(x) = 0 \/ Pow2[BitLength(x) - 1] <= x
  BY BitLengthExists DEF BitLength
<1>2. BitLength(x) = 0 => x < 1
  BY <1>1, Pow2Unfold
<1> QED
  BY <1>1, <1>2

(* A number between two consecutive powers of two has that bit length.     *)
LEMMA BitLengthUnique ==
  ASSUME NEW x \in Nat, NEW b \in Nat, b > 0, Pow2[b - 1] <= x, x < Pow2[b]
  PROVE  BitLength(x) = b
<1> DEFINE c == BitLength(x)
<1>0. b - 1 \in Nat /\ Pow2[b - 1] >= 1 /\ Pow2[b - 1] \in Nat /\ Pow2[b] \in Nat
  <2>1. b - 1 \in Nat
    OBVIOUS
  <2> QED
    BY <2>1, Pow2Unfold, Pow2Exceeds
<1>1. c \in Nat /\ c >= 1 /\ c - 1 \in Nat /\ x < Pow2[c] /\ Pow2[c - 1] <= x
  BY <1>0, BitLengthSpec
<1> HIDE DEF c
<1>2. Pow2[c] \in Nat /\ Pow2[c - 1] \in Nat
  BY <1>1, Pow2Unfold
<1>3. CASE c < b
  <2>1. c < b - 1 \/ c = b - 1
    BY <1>1, <1>3
  <2>2. Pow2[c] <= Pow2[b - 1]
    BY <1>0, <1>1, <1>2, <2>1, Pow2Monotone
  <2> QED
    BY <1>0, <1>1, <1>2, <2>2
<1>4. CASE b < c
  <2>1. b < c - 1 \/ b = c - 1
    BY <1>1, <1>4
  <2>2. Pow2[b] <= Pow2[c - 1]
    BY <1>0, <1>1, <1>2, <2>1, Pow2Monotone
  <2> QED
    BY <1>0, <1>1, <1>2, <2>2
<1> QED
  BY <1>1, <1>3, <1>4 DEF c
-----------------------------------------------------------------------------
(* Population counts.                                                      *)

(* Halving a natural number.                                               *)
LEMMA Halving ==
  ASSUME NEW n \in Nat
  PROVE  /\ n \div 2 \in Nat /\ n % 2 \in {0, 1}
         /\ n = 2 * (n \div 2) + (n % 2)
         /\ n > 0 => n \div 2 < n
  OBVIOUS

(* The recursive definition of PopCount unfolds.                           *)
LEMMA PopCountUnfold ==
  /\ PopCount \in [Nat -> Nat]
  /\ PopCount[0] = 0
  /\ \A n \in Nat : PopCount[n] = (n % 2) + PopCount[n \div 2]
<1> DEFINE stop == {0}
           base == [n \in Nat |-> 0]
           comb == [n \in Nat |-> [v \in Nat |-> (n % 2) + v]]
           pred == [n \in Nat |-> n \div 2]
<1>1. WellPosed(Nat, stop, base, comb, pred)
  <2>1. stop \subseteq Nat /\ base \in [Nat -> Nat] /\ pred \in [Nat -> Nat]
    OBVIOUS
  <2>2. comb \in [Nat -> [Nat -> Nat]]
    OBVIOUS
  <2>3. \A n \in Nat : n \notin stop => pred[n] < n
    OBVIOUS
  <2> HIDE DEF stop, base, comb, pred
  <2> QED
    BY <2>1, <2>2, <2>3 DEF WellPosed
<1>2. PICK f \in [Nat -> Nat] : Satisfies(f, Nat, stop, base, comb, pred)
  <2> HIDE DEF stop, base, comb, pred
  <2> QED
    BY <1>1, RecursionExists
<1>3. f = [n \in Nat |-> IF n = 0 THEN 0 ELSE (n % 2) + f[n \div 2]]
  <2>1. ASSUME NEW n \in Nat
        PROVE  f[n] = IF n = 0 THEN 0 ELSE (n % 2) + f[n \div 2]
    <3>1. f[n] = IF n \in stop THEN base[n] ELSE comb[n][f[pred[n]]]
      BY <1>2 DEF Satisfies
    <3>2. CASE n = 0
      BY <3>1, <3>2
    <3>3. CASE n # 0
      <4>1. pred[n] = n \div 2 /\ f[n \div 2] \in Nat
        BY <3>3, Halving
      <4> QED
        BY <3>1, <3>3, <4>1
    <3> QED
      BY <3>2, <3>3
  <2> QED
    BY <2>1
<1>4. PopCount = [n \in Nat |->
                    IF n = 0 THEN 0 ELSE (n % 2) + PopCount[n \div 2]]
  BY <1>3 DEF PopCount
<1>5. PopCount[0] = 0
  BY <1>4
<1>6. \A n \in Nat : PopCount[n] \in Nat
  <2> DEFINE E == {n \in Nat : PopCount[n] \in Nat}
  <2>1. ASSUME NEW n \in Nat, \A m \in Nat : m < n => m \in E
        PROVE  n \in E
    <3>1. CASE n = 0
      BY <3>1, <1>5
    <3>2. CASE n # 0
      <4>1. PopCount[n] = (n % 2) + PopCount[n \div 2]
        BY <3>2, <1>4
      <4>2. PopCount[n \div 2] \in Nat
        BY <3>2, <2>1, Halving
      <4>3. n % 2 \in Nat
        BY Halving
      <4> QED
        BY <4>1, <4>2, <4>3
    <3> QED
      BY <3>1, <3>2
  <2> HIDE DEF E
  <2>2. \A n \in Nat : n \in E
    BY <2>1, StrongNatInduction
  <2> QED
    BY <2>2 DEF E
<1>7. PopCount \in [Nat -> Nat]
  BY <1>4, <1>6
<1>8. ASSUME NEW n \in Nat
      PROVE  PopCount[n] = (n % 2) + PopCount[n \div 2]
  <2>1. CASE n = 0
    <3>1. n % 2 = 0 /\ n \div 2 = 0
      BY <2>1
    <3> QED
      BY <2>1, <3>1, <1>5
  <2>2. CASE n # 0
    BY <2>2, <1>4
  <2> QED
    BY <2>1, <2>2
<1> QED
  BY <1>5, <1>7, <1>8

(* A number has at most as many ones as its value, and at least one if it  *)
(* is not zero.                                                            *)
LEMMA PopCountBounds ==
  \A n \in Nat : PopCount[n] <= n /\ (n > 0 => PopCount[n] >= 1)
<1> DEFINE E == {n \in Nat : PopCount[n] <= n /\ (n > 0 => PopCount[n] >= 1)}
<1>1. ASSUME NEW n \in Nat, \A m \in Nat : m < n => m \in E
      PROVE  n \in E
  <2>1. CASE n = 0
    BY <2>1, PopCountUnfold
  <2>2. CASE n # 0
    <3> DEFINE h == n \div 2
    <3>1. h \in Nat /\ h < n /\ n % 2 \in {0, 1} /\ n = 2 * h + (n % 2)
      BY <2>2, Halving
    <3>2. PopCount[n] = (n % 2) + PopCount[h] /\ PopCount[h] \in Nat
      BY <3>1, PopCountUnfold
    <3> HIDE DEF h
    <3>3. PopCount[h] <= h /\ (h > 0 => PopCount[h] >= 1)
      BY <3>1, <1>1
    <3>4. PopCount[n] <= n
      BY <3>1, <3>2, <3>3
    <3>5. PopCount[n] >= 1
      BY <2>2, <3>1, <3>2, <3>3
    <3> QED
      BY <3>4, <3>5
  <2> QED
    BY <2>1, <2>2
<1> HIDE DEF E
<1>2. \A n \in Nat : n \in E
  BY <1>1, StrongNatInduction
<1> QED
  BY <1>2 DEF E

(* Setting a bit above the top bit of r adds one to its population count.  *)
LEMMA PopCountTopBit ==
  \A j \in Nat : \A r \in Nat :
     r < Pow2[j] => PopCount[r + Pow2[j]] = PopCount[r] + 1
<1> DEFINE E == {j \in Nat : \A r \in Nat :
                    r < Pow2[j] => PopCount[r + Pow2[j]] = PopCount[r] + 1}
<1>1. 0 \in E
  <2>1. Pow2[0] = 1
    BY Pow2Unfold
  <2>2. PopCount[1] = 1 /\ PopCount[0] = 0
    <3>1. 1 % 2 = 1 /\ 1 \div 2 = 0
      OBVIOUS
    <3> QED
      BY <3>1, PopCountUnfold
  <2> QED
    BY <2>1, <2>2
<1>2. ASSUME NEW j \in Nat, j \in E
      PROVE  j + 1 \in E
  <2> SUFFICES ASSUME NEW r \in Nat, r < Pow2[j + 1]
               PROVE  PopCount[r + Pow2[j + 1]] = PopCount[r] + 1
    OBVIOUS
  <2> DEFINE h == r \div 2
             b == r % 2
  <2>1. h \in Nat /\ b \in {0, 1} /\ r = 2 * h + b
    BY Halving
  <2>2. Pow2[j + 1] = 2 * Pow2[j] /\ Pow2[j] \in Nat
    BY Pow2Unfold
  <2>3. PopCount[r] = b + PopCount[h] /\ PopCount[h] \in Nat
    BY <2>1, PopCountUnfold
  <2> HIDE DEF h, b
  <2>4. h < Pow2[j]
    BY <2>1, <2>2
  <2>5. PopCount[h + Pow2[j]] = PopCount[h] + 1
    BY <1>2, <2>1, <2>4
  <2> DEFINE m == r + Pow2[j + 1]
  <2>6. m \in Nat /\ m = 2 * (h + Pow2[j]) + b
    BY <2>1, <2>2
  <2> HIDE DEF m
  <2>7. m \div 2 = h + Pow2[j] /\ m % 2 = b
    BY <2>1, <2>2, <2>6
  <2>8. PopCount[m] = b + PopCount[h + Pow2[j]]
    BY <2>6, <2>7, PopCountUnfold
  <2> QED
    BY <2>1, <2>3, <2>5, <2>8 DEF m
<1> HIDE DEF E
<1>3. \A j \in Nat : j \in E
  BY <1>1, <1>2, NatSetInduction
<1> QED
  BY <1>3 DEF E

(* Setting a clear bit below every set bit of m adds one as well.          *)
LEMMA PopCountLowBit ==
  \A j \in Nat : \A q \in Nat :
     PopCount[q * Pow2[j + 1] + Pow2[j]] = PopCount[q * Pow2[j + 1]] + 1
<1> DEFINE E == {j \in Nat : \A q \in Nat :
      PopCount[q * Pow2[j + 1] + Pow2[j]] = PopCount[q * Pow2[j + 1]] + 1}
<1>1. 0 \in E
  <2> SUFFICES ASSUME NEW q \in Nat
               PROVE  PopCount[q * Pow2[1] + Pow2[0]] = PopCount[q * Pow2[1]] + 1
    OBVIOUS
  <2>1. Pow2[0] = 1 /\ Pow2[1] = 2
    <3>1. Pow2[0 + 1] = 2 * Pow2[0]
      BY Pow2Unfold
    <3> QED
      BY <3>1, Pow2Unfold
  <2>2. /\ (q * 2 + 1) % 2 = 1 /\ (q * 2 + 1) \div 2 = q
        /\ (q * 2) % 2 = 0 /\ (q * 2) \div 2 = q
        /\ q * 2 + 1 \in Nat /\ q * 2 \in Nat
    OBVIOUS
  <2>3. PopCount[q * 2 + 1] = 1 + PopCount[q] /\ PopCount[q * 2] = 0 + PopCount[q]
    BY <2>2, PopCountUnfold
  <2>4. PopCount[q] \in Nat
    BY PopCountUnfold
  <2> QED
    BY <2>1, <2>3, <2>4
<1>2. ASSUME NEW j \in Nat, j \in E
      PROVE  j + 1 \in E
  <2> SUFFICES ASSUME NEW q \in Nat
               PROVE  PopCount[q * Pow2[j + 1 + 1] + Pow2[j + 1]]
                        = PopCount[q * Pow2[j + 1 + 1]] + 1
    OBVIOUS
  <2>1. /\ Pow2[j + 1] = 2 * Pow2[j] /\ Pow2[j] \in Nat
        /\ Pow2[j + 1 + 1] = 2 * Pow2[j + 1]
    BY Pow2Unfold
  <2> DEFINE a == q * Pow2[j + 1]
             p == Pow2[j]
  <2>2. a \in Nat /\ p \in Nat
    BY <2>1
  <2>3. q * Pow2[j + 1 + 1] = 2 * a
    BY <2>1
  <2>4. PopCount[a + p] = PopCount[a] + 1
    BY <1>2
  <2>5. Pow2[j + 1] = 2 * p
    BY <2>1
  <2> HIDE DEF a, p
  <2>6. /\ (2 * a + 2 * p) % 2 = 0 /\ (2 * a + 2 * p) \div 2 = a + p
        /\ (2 * a) % 2 = 0 /\ (2 * a) \div 2 = a
        /\ 2 * a + 2 * p \in Nat /\ 2 * a \in Nat
    BY <2>2
  <2>7. /\ PopCount[2 * a + 2 * p] = 0 + PopCount[a + p]
        /\ PopCount[2 * a] = 0 + PopCount[a]
    BY <2>6, PopCountUnfold
  <2>8. PopCount[a] \in Nat /\ PopCount[a + p] \in Nat
    BY <2>2, PopCountUnfold
  <2> QED
    BY <2>3, <2>4, <2>5, <2>7, <2>8
<1> HIDE DEF E
<1>3. \A j \in Nat : j \in E
  BY <1>1, <1>2, NatSetInduction
<1> QED
  BY <1>3 DEF E
-----------------------------------------------------------------------------
(* The recursive definition of TrailingOnes unfolds.                       *)
LEMMA TrailingOnesUnfold ==
  /\ TrailingOnes \in [Nat -> Nat]
  /\ \A n \in Nat : n % 2 = 0 => TrailingOnes[n] = 0
  /\ \A n \in Nat : n % 2 = 1 => TrailingOnes[n] = 1 + TrailingOnes[n \div 2]
<1> DEFINE stop == {n \in Nat : n % 2 = 0}
           base == [n \in Nat |-> 0]
           comb == [n \in Nat |-> [v \in Nat |-> 1 + v]]
           pred == [n \in Nat |-> n \div 2]
<1>1. WellPosed(Nat, stop, base, comb, pred)
  <2>1. stop \subseteq Nat /\ base \in [Nat -> Nat] /\ pred \in [Nat -> Nat]
    OBVIOUS
  <2>2. comb \in [Nat -> [Nat -> Nat]]
    OBVIOUS
  <2>3. \A n \in Nat : n \notin stop => pred[n] < n
    OBVIOUS
  <2> HIDE DEF stop, base, comb, pred
  <2> QED
    BY <2>1, <2>2, <2>3 DEF WellPosed
<1>2. PICK f \in [Nat -> Nat] : Satisfies(f, Nat, stop, base, comb, pred)
  <2> HIDE DEF stop, base, comb, pred
  <2> QED
    BY <1>1, RecursionExists
<1>3. f = [n \in Nat |-> IF n % 2 = 0 THEN 0 ELSE 1 + f[n \div 2]]
  <2>1. ASSUME NEW n \in Nat
        PROVE  f[n] = IF n % 2 = 0 THEN 0 ELSE 1 + f[n \div 2]
    <3>1. f[n] = IF n \in stop THEN base[n] ELSE comb[n][f[pred[n]]]
      BY <1>2 DEF Satisfies
    <3>2. CASE n % 2 = 0
      BY <3>1, <3>2
    <3>3. CASE n % 2 # 0
      <4>1. pred[n] = n \div 2 /\ f[n \div 2] \in Nat
        BY <3>3, Halving
      <4> QED
        BY <3>1, <3>3, <4>1
    <3> QED
      BY <3>2, <3>3
  <2> QED
    BY <2>1
<1>4. TrailingOnes = [n \in Nat |-> IF n % 2 = 0 THEN 0
                                    ELSE 1 + TrailingOnes[n \div 2]]
  BY <1>3 DEF TrailingOnes
<1>5. \A n \in Nat : TrailingOnes[n] \in Nat
  <2> DEFINE E == {n \in Nat : TrailingOnes[n] \in Nat}
  <2>1. ASSUME NEW n \in Nat, \A m \in Nat : m < n => m \in E
        PROVE  n \in E
    <3>1. CASE n % 2 = 0
      BY <3>1, <1>4
    <3>2. CASE n % 2 # 0
      <4>1. TrailingOnes[n] = 1 + TrailingOnes[n \div 2]
        BY <3>2, <1>4
      <4>2. n > 0
        BY <3>2
      <4>3. TrailingOnes[n \div 2] \in Nat
        BY <4>2, <2>1, Halving
      <4> QED
        BY <4>1, <4>3
    <3> QED
      BY <3>1, <3>2
  <2> HIDE DEF E
  <2>2. \A n \in Nat : n \in E
    BY <2>1, StrongNatInduction
  <2> QED
    BY <2>2 DEF E
<1>6. TrailingOnes \in [Nat -> Nat]
  BY <1>4, <1>5
<1> QED
  BY <1>4, <1>6

(* Adding one clears the trailing ones and sets the bit above them.        *)
LEMMA PopCountSuccessor ==
  \A n \in Nat : PopCount[n + 1] + TrailingOnes[n] = PopCount[n] + 1
<1> DEFINE E == {n \in Nat :
                    PopCount[n + 1] + TrailingOnes[n] = PopCount[n] + 1}
<1>1. ASSUME NEW n \in Nat, \A m \in Nat : m < n => m \in E
      PROVE  n \in E
  <2> DEFINE h == n \div 2
  <2>1. h \in Nat /\ n % 2 \in {0, 1} /\ n = 2 * h + (n % 2)
    BY Halving
  <2>2. /\ PopCount[n] = (n % 2) + PopCount[h]
        /\ PopCount[n + 1] = ((n + 1) % 2) + PopCount[(n + 1) \div 2]
        /\ PopCount[h] \in Nat /\ PopCount[h + 1] \in Nat
        /\ TrailingOnes[h] \in Nat
    <3>1. n + 1 \in Nat /\ h + 1 \in Nat
      BY <2>1
    <3>2. PopCount[n] = (n % 2) + PopCount[h]
      BY PopCountUnfold
    <3>3. PopCount[n + 1] = ((n + 1) % 2) + PopCount[(n + 1) \div 2]
      BY <3>1, PopCountUnfold
    <3> HIDE DEF h
    <3>4. PopCount[h] \in Nat /\ PopCount[h + 1] \in Nat
      BY <2>1, <3>1, PopCountUnfold
    <3>5. TrailingOnes[h] \in Nat
      BY <2>1, TrailingOnesUnfold
    <3> QED
      BY <3>2, <3>3, <3>4, <3>5
  <2>3. CASE n % 2 = 0
    <3>1. (n + 1) % 2 = 1 /\ (n + 1) \div 2 = h
      BY <2>3
    <3>2. TrailingOnes[n] = 0
      BY <2>3, TrailingOnesUnfold
    <3> HIDE DEF h
    <3> QED
      BY <2>2, <2>3, <3>1, <3>2
  <2>4. CASE n % 2 = 1
    <3>1. (n + 1) % 2 = 0 /\ (n + 1) \div 2 = h + 1 /\ h < n
      BY <2>4
    <3>2. TrailingOnes[n] = 1 + TrailingOnes[h]
      BY <2>4, TrailingOnesUnfold
    <3> HIDE DEF h
    <3>3. PopCount[h + 1] + TrailingOnes[h] = PopCount[h] + 1
      BY <2>1, <3>1, <1>1
    <3> QED
      BY <2>2, <2>4, <3>1, <3>2, <3>3
  <2> QED
    BY <2>1, <2>3, <2>4
<1> HIDE DEF E
<1>2. \A n \in Nat : n \in E
  BY <1>1, StrongNatInduction
<1> QED
  BY <1>2 DEF E

(* The next leaf never merges more trees than there are.                   *)
LEMMA TrailingOnesBound ==
  \A n \in Nat : TrailingOnes[n] \in Nat /\ TrailingOnes[n] <= PopCount[n]
<1> SUFFICES ASSUME NEW n \in Nat
             PROVE  TrailingOnes[n] \in Nat /\ TrailingOnes[n] <= PopCount[n]
  OBVIOUS
<1>1. /\ PopCount[n] \in Nat /\ PopCount[n + 1] \in Nat
      /\ TrailingOnes[n] \in Nat
  BY PopCountUnfold, TrailingOnesUnfold
<1>2. PopCount[n + 1] >= 1
  BY PopCountBounds
<1>3. PopCount[n + 1] + TrailingOnes[n] = PopCount[n] + 1
  BY PopCountSuccessor
<1> QED
  BY <1>1, <1>2, <1>3
-----------------------------------------------------------------------------
(* An MMR has at least as many nodes as leaves and less than twice as many.*)
LEMMA SizeOfLeavesBounds ==
  ASSUME NEW m \in Nat
  PROVE  /\ SizeOfLeaves(m) \in Nat
         /\ m <= SizeOfLeaves(m)
         /\ m > 0 => SizeOfLeaves(m) < 2 * m
         /\ m = 0 => SizeOfLeaves(m) = 0
<1>1. PopCount[m] \in Nat /\ PopCount[m] <= m /\ (m > 0 => PopCount[m] >= 1)
  BY PopCountUnfold, PopCountBounds
<1>2. m = 0 => PopCount[m] = 0
  BY PopCountUnfold
<1> QED
  BY <1>1, <1>2 DEF SizeOfLeaves

(* A perfect tree of height j in front of a smaller MMR.                   *)
LEMMA SizeOfLeavesTopTree ==
  ASSUME NEW j \in Nat, NEW r \in Nat, r < Pow2[j]
  PROVE  SizeOfLeaves(r + Pow2[j]) = TreeSize(j) + SizeOfLeaves(r)
<1>1. PopCount[r + Pow2[j]] = PopCount[r] + 1
  BY PopCountTopBit
<1>2. Pow2[j + 1] = 2 * Pow2[j] /\ Pow2[j] \in Nat /\ PopCount[r] \in Nat
  BY Pow2Unfold, PopCountUnfold
<1> QED
  BY <1>1, <1>2 DEF SizeOfLeaves, TreeSize

(* A perfect tree of height j behind an MMR of higher trees.               *)
LEMMA SizeOfLeavesLowTree ==
  ASSUME NEW j \in Nat, NEW q \in Nat
  PROVE  SizeOfLeaves(q * Pow2[j + 1] + Pow2[j])
           = SizeOfLeaves(q * Pow2[j + 1]) + TreeSize(j)
<1> DEFINE a == q * Pow2[j + 1]
<1>1. PopCount[a + Pow2[j]] = PopCount[a] + 1
  BY PopCountLowBit
<1>2. /\ Pow2[j + 1] = 2 * Pow2[j]
      /\ Pow2[j] \in Nat /\ Pow2[j + 1] \in Nat /\ a \in Nat
  BY Pow2Unfold
<1>3. PopCount[a] \in Nat
  BY <1>2, PopCountUnfold
<1> HIDE DEF a
<1>4. SizeOfLeaves(a + Pow2[j]) = SizeOfLeaves(a) + TreeSize(j)
  BY <1>1, <1>2, <1>3 DEF SizeOfLeaves, TreeSize
<1> QED
  BY <1>4 DEF a

(* The tallest tree of an MMR of r > 0 leaves: there is a height j with    *)
(* 2^j <= r < 2^(j+1), the first tree has that height and the rest is the  *)
(* MMR of the r - 2^j other leaves.                                        *)
LEMMA FirstTree ==
  ASSUME NEW r \in Nat, r > 0
  PROVE  \E j \in Nat :
           /\ Pow2[j] <= r /\ r - Pow2[j] \in Nat /\ r - Pow2[j] < Pow2[j]
           /\ SizeOfLeaves(r) = TreeSize(j) + SizeOfLeaves(r - Pow2[j])
           /\ SizeOfLeaves(r - Pow2[j]) < TreeSize(j)
<1> DEFINE j == BitLength(r) - 1
<1>1. j \in Nat /\ Pow2[j] <= r /\ r < Pow2[j + 1]
  <2>1. /\ BitLength(r) \in 0..r /\ BitLength(r) >= 1
        /\ r < Pow2[BitLength(r)] /\ Pow2[BitLength(r) - 1] <= r
    BY BitLengthSpec
  <2> QED
    BY <2>1
<1> HIDE DEF j
<1>2. Pow2[j + 1] = 2 * Pow2[j] /\ Pow2[j] \in Nat /\ Pow2[j] >= 1
  BY <1>1, Pow2Unfold, Pow2Exceeds
<1>3. PICK s \in Nat : s = r - Pow2[j]
  BY <1>1, <1>2
<1>4. s < Pow2[j] /\ r = s + Pow2[j]
  BY <1>1, <1>2, <1>3
<1>5. SizeOfLeaves(r) = TreeSize(j) + SizeOfLeaves(s)
  BY <1>1, <1>4, SizeOfLeavesTopTree
<1>6. SizeOfLeaves(s) < TreeSize(j)
  <2>1. SizeOfLeaves(s) \in Nat /\ (s > 0 => SizeOfLeaves(s) < 2 * s)
                               /\ (s = 0 => SizeOfLeaves(s) = 0)
    BY SizeOfLeavesBounds
  <2> QED
    BY <2>1, <1>2, <1>4 DEF TreeSize
<1> QED
  BY <1>1, <1>3, <1>4, <1>5, <1>6

-----------------------------------------------------------------------------
(* Heights of positions.                                                   *)

(* A top bit in front of a number does not break its trailing ones.        *)
LEMMA TrailingOnesTopBit ==
  \A j \in Nat : \A k \in Nat :
    k < Pow2[j] => TrailingOnes[k] <= TrailingOnes[k + Pow2[j]]
<1> DEFINE E == {j \in Nat : \A k \in Nat :
                   k < Pow2[j] => TrailingOnes[k] <= TrailingOnes[k + Pow2[j]]}
<1>1. 0 \in E
  <2> SUFFICES ASSUME NEW k \in Nat, k < Pow2[0]
               PROVE  TrailingOnes[k] <= TrailingOnes[k + Pow2[0]]
    OBVIOUS
  <2>1. k = 0 /\ k + Pow2[0] = 1
    BY Pow2Unfold
  <2>2. TrailingOnes[0] = 0 /\ TrailingOnes[1] \in Nat
    BY TrailingOnesUnfold
  <2> QED
    BY <2>1, <2>2
<1>2. ASSUME NEW j \in Nat, j \in E
      PROVE  j + 1 \in E
  <2> SUFFICES ASSUME NEW k \in Nat, k < Pow2[j + 1]
               PROVE  TrailingOnes[k] <= TrailingOnes[k + Pow2[j + 1]]
    OBVIOUS
  <2>1. /\ Pow2[j + 1] = 2 * Pow2[j] /\ Pow2[j] \in Nat
        /\ k + Pow2[j + 1] \in Nat
    BY Pow2Unfold
  <2>2. TrailingOnes[k] \in Nat /\ TrailingOnes[k + Pow2[j + 1]] \in Nat
    BY <2>1, TrailingOnesUnfold
  <2>3. CASE k % 2 = 0
    BY <2>2, <2>3, TrailingOnesUnfold
  <2>4. CASE k % 2 = 1
    <3> DEFINE h == k \div 2
    <3>1. h \in Nat /\ h < Pow2[j] /\ k = 2 * h + 1
      BY <2>1, <2>4
    <3>2. (k + Pow2[j + 1]) % 2 = 1 /\ (k + Pow2[j + 1]) \div 2 = h + Pow2[j]
      <4> HIDE DEF h
      <4> QED
        BY <2>1, <3>1
    <3>3. /\ TrailingOnes[k] = 1 + TrailingOnes[h]
          /\ TrailingOnes[k + Pow2[j + 1]] = 1 + TrailingOnes[h + Pow2[j]]
      BY <2>1, <2>4, <3>2, TrailingOnesUnfold
    <3> HIDE DEF h
    <3>4. TrailingOnes[h] <= TrailingOnes[h + Pow2[j]]
      BY <1>2, <3>1
    <3>5. TrailingOnes[h] \in Nat /\ TrailingOnes[h + Pow2[j]] \in Nat
      BY <2>1, <3>1, TrailingOnesUnfold
    <3> QED
      BY <3>3, <3>4, <3>5
  <2> QED
    BY <2>3, <2>4, Halving
<1> HIDE DEF E
<1>3. \A j \in Nat : j \in E
  BY <1>1, <1>2, NatSetInduction
<1> QED
  BY <1>3 DEF E

(* A number of j ones has j trailing ones, ...                             *)
LEMMA TrailingOnesAll ==
  \A j \in Nat : TrailingOnes[Pow2[j] - 1] = j
<1> DEFINE E == {j \in Nat : TrailingOnes[Pow2[j] - 1] = j}
<1>1. 0 \in E
  <2>1. Pow2[0] - 1 = 0
    BY Pow2Unfold
  <2>2. TrailingOnes[0] = 0
    BY TrailingOnesUnfold
  <2> QED
    BY <2>1, <2>2
<1>2. ASSUME NEW j \in Nat, j \in E
      PROVE  j + 1 \in E
  <2> DEFINE k == Pow2[j] - 1
             l == Pow2[j + 1] - 1
  <2>1. k \in Nat /\ l = 2 * k + 1
    BY Pow2Unfold, Pow2Exceeds
  <2>2. TrailingOnes[k] = j
    BY <1>2
  <2> HIDE DEF k, l
  <2>3. l \in Nat /\ l % 2 = 1 /\ l \div 2 = k
    BY <2>1
  <2>4. TrailingOnes[l] = 1 + j
    BY <2>2, <2>3, TrailingOnesUnfold
  <2> QED
    BY <2>4 DEF l
<1> HIDE DEF E
<1>3. \A j \in Nat : j \in E
  BY <1>1, <1>2, NatSetInduction
<1> QED
  BY <1>3 DEF E

(* ... so the last parent the append of that leaf adds, which makes the    *)
(* MMR one perfect tree, has height j.                                     *)
LEMMA AllOnesHeight ==
  ASSUME NEW j \in Nat
  PROVE  HasHeight(Pow2[j + 1] - 1, j)
<1> DEFINE k == Pow2[j] - 1
<1>1. /\ Pow2[j] \in Nat /\ Pow2[j] >= 1 /\ Pow2[j + 1] = 2 * Pow2[j]
      /\ k \in Nat /\ k + 1 = Pow2[j]
  BY Pow2Unfold, Pow2Exceeds
<1>2. TrailingOnes[k] = j
  BY TrailingOnesAll
<1>3. PopCount[k + 1] = 1
  <2>1. PopCount[0 + Pow2[j]] = PopCount[0] + 1
    BY <1>1, PopCountTopBit
  <2>2. 0 + Pow2[j] = k + 1
    BY <1>1
  <2> QED
    BY <2>1, <2>2, PopCountUnfold
<1>4. PopCount[k] \in Nat
  BY <1>1, PopCountUnfold
<1> HIDE DEF k
<1>5. PopCount[k] = j
  BY <1>1, <1>2, <1>3, <1>4, PopCountSuccessor
<1>6. SizeOfLeaves(k) + 1 + j = Pow2[j + 1] - 1
  BY <1>1, <1>5 DEF SizeOfLeaves
<1>7. k \in 0..(Pow2[j + 1] - 1)
  BY <1>1
<1> QED
  BY <1>2, <1>6, <1>7 DEF HasHeight

(* An MMR of 2^j leaves or more has a tree of height j.                    *)
LEMMA SizeOfManyLeaves ==
  ASSUME NEW j \in Nat, NEW k \in Nat, Pow2[j] <= k
  PROVE  TreeSize(j) <= SizeOfLeaves(k)
<1>1. k > 0 /\ Pow2[j] \in Nat /\ Pow2[j + 1] = 2 * Pow2[j]
  BY Pow2Unfold, Pow2Exceeds
<1>2. PICK i \in Nat :
        /\ Pow2[i] <= k /\ k - Pow2[i] \in Nat /\ k - Pow2[i] < Pow2[i]
        /\ SizeOfLeaves(k) = TreeSize(i) + SizeOfLeaves(k - Pow2[i])
  BY <1>1, FirstTree
<1>3. SizeOfLeaves(k - Pow2[i]) \in Nat
  BY <1>2, SizeOfLeavesBounds
<1>4. Pow2[i] \in Nat /\ Pow2[i + 1] = 2 * Pow2[i]
  BY Pow2Unfold
<1>5. ~(i < j)
  <2> SUFFICES ASSUME i < j PROVE FALSE
    OBVIOUS
  <2>1. 2 * Pow2[i] <= Pow2[j]
    BY Pow2Monotone
  <2> QED
    BY <1>1, <1>2, <1>4, <2>1
<1>6. Pow2[j] <= Pow2[i]
  BY <1>1, <1>5, <1>4, Pow2Monotone
<1> QED
  BY <1>1, <1>2, <1>3, <1>4, <1>6 DEF TreeSize

(* The jump goes from the tree of height j + 1 or less that holds x to the *)
(* same node of its left sibling.                                          *)
LEMMA JumpKeepsLevel ==
  ASSUME NEW j \in Nat, NEW to \in Nat, to <= TreeSize(j),
         NEW h \in Nat, HasHeight(to, h)
  PROVE  HasHeight(to + TreeSize(j), h)
<1>1. PICK k \in 0..to : to = SizeOfLeaves(k) + 1 + h /\ h <= TrailingOnes[k]
  BY DEF HasHeight
<1>2. /\ k \in Nat /\ Pow2[j] \in Nat /\ TreeSize(j) \in Nat
      /\ SizeOfLeaves(k) \in Nat
  <2>1. Pow2[j + 1] \in Nat /\ Pow2[j + 1] >= 1 /\ Pow2[j] \in Nat
    BY Pow2Unfold, Pow2Exceeds
  <2> QED
    BY <2>1, SizeOfLeavesBounds DEF TreeSize
<1>3. k < Pow2[j]
  BY <1>1, <1>2, SizeOfManyLeaves
<1>4. SizeOfLeaves(k + Pow2[j]) = TreeSize(j) + SizeOfLeaves(k)
  BY <1>2, <1>3, SizeOfLeavesTopTree
<1>5. /\ TrailingOnes[k] <= TrailingOnes[k + Pow2[j]]
      /\ TrailingOnes[k] \in Nat /\ TrailingOnes[k + Pow2[j]] \in Nat
  BY <1>2, <1>3, TrailingOnesTopBit, TrailingOnesUnfold
<1>6. k + Pow2[j] <= SizeOfLeaves(k + Pow2[j])
  BY <1>2, SizeOfLeavesBounds
<1>7. k + Pow2[j] \in 0..(to + TreeSize(j))
  BY <1>1, <1>2, <1>4, <1>6
<1>8. to + TreeSize(j) = SizeOfLeaves(k + Pow2[j]) + 1 + h
  BY <1>1, <1>2, <1>4
<1>9. h <= TrailingOnes[k + Pow2[j]]
  BY <1>1, <1>5
<1> QED
  BY <1>7, <1>8, <1>9 DEF HasHeight

-----------------------------------------------------------------------------
(* What the asserts on the bit length b of a position p leave.             *)
LEMMA JumpGeometry ==
  ASSUME NEW p \in Nat, NEW b \in Nat, b >= 1, Pow2[b - 1] <= p, p < Pow2[b],
         p # Pow2[b] - 1
  PROVE  \E j \in Nat :
           /\ b = j + 2 /\ Pow2[b - 1] - 1 = TreeSize(j) /\ TreeSize(j) \in Nat
           /\ p - Pow2[b - 1] + 1 \in Nat \ {0}
           /\ p - Pow2[b - 1] + 1 <= TreeSize(j)
           /\ p - Pow2[b - 1] + 1 < p
           /\ p = (p - Pow2[b - 1] + 1) + TreeSize(j)
<1>1. b # 1
  BY Pow2Unfold
<1> DEFINE j == b - 2
<1>2. j \in Nat /\ b = j + 2 /\ b - 1 = j + 1
  BY <1>1
<1> HIDE DEF j
<1>3. /\ Pow2[j + 1] = 2 * Pow2[j] /\ Pow2[j] \in Nat /\ Pow2[j] >= 1
      /\ Pow2[(j + 1) + 1] = 2 * Pow2[j + 1]
  BY <1>2, Pow2Unfold, Pow2Exceeds
<1>4. Pow2[b] = 2 * Pow2[j + 1] /\ Pow2[b - 1] = Pow2[j + 1]
  <2>1. b = (j + 1) + 1
    BY <1>2
  <2> QED
    BY <1>2, <1>3, <2>1
<1> QED
  BY <1>2, <1>3, <1>4 DEF TreeSize

(* The recursive definition of Height unfolds.                             *)
LEMMA HeightUnfold ==
  \A p \in Nat :
    Height[p] = IF p = Pow2[BitLength(p)] - 1 THEN BitLength(p) - 1
                ELSE Height[p - Pow2[BitLength(p) - 1] + 1]
<1> DEFINE stop == {p \in Nat : p = Pow2[BitLength(p)] - 1}
           base == [p \in Nat |-> BitLength(p) - 1]
           comb == [p \in Nat |-> [v \in Int |-> v]]
           pred == [p \in Nat |-> IF p \in stop THEN 0
                                  ELSE p - Pow2[BitLength(p) - 1] + 1]
<1>1. ASSUME NEW p \in Nat
      PROVE  /\ BitLength(p) \in Nat /\ p < Pow2[BitLength(p)]
             /\ p \notin stop => /\ p - Pow2[BitLength(p) - 1] + 1 \in Nat
                                 /\ p - Pow2[BitLength(p) - 1] + 1 < p
  <2>1. /\ BitLength(p) \in 0..p /\ p < Pow2[BitLength(p)]
        /\ p > 0 => BitLength(p) >= 1 /\ Pow2[BitLength(p) - 1] <= p
    BY BitLengthSpec
  <2>2. p = 0 => p \in stop
    <3> SUFFICES ASSUME p = 0 PROVE p = Pow2[BitLength(p)] - 1
      OBVIOUS
    <3>1. BitLength(p) = 0
      BY <2>1
    <3> QED
      BY <3>1, Pow2Unfold
  <2>3. ASSUME p \notin stop
        PROVE  /\ p - Pow2[BitLength(p) - 1] + 1 \in Nat
               /\ p - Pow2[BitLength(p) - 1] + 1 < p
    <3>1. /\ BitLength(p) \in Nat /\ BitLength(p) >= 1
          /\ Pow2[BitLength(p) - 1] <= p /\ p # Pow2[BitLength(p)] - 1
      BY <2>1, <2>2, <2>3
    <3> QED
      BY <2>1, <3>1, JumpGeometry
  <2> QED
    BY <2>1, <2>3
<1>2. WellPosed(Int, stop, base, comb, pred)
  <2>1. stop \subseteq Nat
    OBVIOUS
  <2>2. base \in [Nat -> Int]
    BY <1>1
  <2>3. comb \in [Nat -> [Int -> Int]]
    OBVIOUS
  <2>4. pred \in [Nat -> Nat] /\ \A p \in Nat : p \notin stop => pred[p] < p
    <3> HIDE DEF stop
    <3> QED
      BY <1>1
  <2> HIDE DEF stop, base, comb, pred
  <2> QED
    BY <2>1, <2>2, <2>3, <2>4 DEF WellPosed
<1>3. PICK f \in [Nat -> Int] : Satisfies(f, Nat, stop, base, comb, pred)
  <2> HIDE DEF stop, base, comb, pred
  <2> QED
    BY <1>2, RecursionExists
<1>4. ASSUME NEW p \in Nat
      PROVE  f[p] = IF p = Pow2[BitLength(p)] - 1 THEN BitLength(p) - 1
                    ELSE f[p - Pow2[BitLength(p) - 1] + 1]
  <2>1. f[p] = IF p \in stop THEN base[p] ELSE comb[p][f[pred[p]]]
    <3> HIDE DEF stop, base, comb, pred
    <3> QED
      BY <1>3 DEF Satisfies
  <2>2. CASE p \in stop
    BY <2>1, <2>2
  <2>3. CASE p \notin stop
    <3>1. pred[p] = p - Pow2[BitLength(p) - 1] + 1 /\ pred[p] \in Nat
      <4> HIDE DEF stop
      <4> QED
        BY <1>1, <2>3
    <3>2. comb[p][f[pred[p]]] = f[pred[p]]
      <4> HIDE DEF pred
      <4> QED
        BY <3>1
    <3> HIDE DEF pred, comb, base
    <3> QED
      BY <2>1, <2>3, <3>1, <3>2
  <2> QED
    BY <2>2, <2>3
<1>5. f = [p \in Nat |-> LET b == BitLength(p)
                         IN  IF p = Pow2[b] - 1 THEN b - 1
                             ELSE f[p - Pow2[b - 1] + 1]]
  BY <1>4
<1>6. Height = [p \in Nat |-> LET b == BitLength(p)
                              IN  IF p = Pow2[b] - 1 THEN b - 1
                                  ELSE Height[p - Pow2[b - 1] + 1]]
  BY <1>5 DEF Height
<1> QED
  BY <1>6

-----------------------------------------------------------------------------
(* Heights are unique, and every position has one.                         *)

LEMMA SizeSuccessor ==
  ASSUME NEW k \in Nat
  PROVE  SizeOfLeaves(k + 1) = SizeOfLeaves(k) + 1 + TrailingOnes[k]
<1>1. /\ PopCount[k + 1] \in Nat /\ PopCount[k] \in Nat /\ TrailingOnes[k] \in Nat
      /\ PopCount[k + 1] + TrailingOnes[k] = PopCount[k] + 1
  <2>1. k + 1 \in Nat
    OBVIOUS
  <2> QED
    BY <2>1, PopCountUnfold, TrailingOnesUnfold, PopCountSuccessor
<1> QED
  BY <1>1 DEF SizeOfLeaves

LEMMA SizeMonotone ==
  ASSUME NEW k \in Nat, NEW l \in Nat, k <= l
  PROVE  SizeOfLeaves(k) <= SizeOfLeaves(l)
<1> DEFINE E == {d \in Nat : SizeOfLeaves(k) <= SizeOfLeaves(k + d)}
<1>1. 0 \in E
  BY SizeOfLeavesBounds
<1>2. ASSUME NEW d \in Nat, d \in E
      PROVE  d + 1 \in E
  <2>1. /\ SizeOfLeaves(k + d) \in Nat /\ SizeOfLeaves(k) \in Nat
        /\ TrailingOnes[k + d] \in Nat
    BY SizeOfLeavesBounds, TrailingOnesUnfold
  <2>2. SizeOfLeaves((k + d) + 1) = SizeOfLeaves(k + d) + 1 + TrailingOnes[k + d]
    BY SizeSuccessor
  <2>3. (k + d) + 1 = k + (d + 1)
    OBVIOUS
  <2>4. SizeOfLeaves(k) <= SizeOfLeaves(k + (d + 1))
    BY <1>2, <2>1, <2>2, <2>3
  <2> QED
    BY <2>4
<1> HIDE DEF E
<1>3. l - k \in E
  BY <1>1, <1>2, NatSetInduction
<1>4. k + (l - k) = l
  OBVIOUS
<1> QED
  BY <1>3, <1>4 DEF E

LEMMA HeightUnique ==
  ASSUME NEW p, NEW g \in Nat, NEW h \in Nat, HasHeight(p, g), HasHeight(p, h)
  PROVE  g = h
<1>1. PICK k \in 0..p : p = SizeOfLeaves(k) + 1 + g /\ g <= TrailingOnes[k]
  BY DEF HasHeight
<1>2. PICK l \in 0..p : p = SizeOfLeaves(l) + 1 + h /\ h <= TrailingOnes[l]
  BY DEF HasHeight
<1>3. /\ SizeOfLeaves(k) \in Nat /\ SizeOfLeaves(l) \in Nat
      /\ TrailingOnes[k] \in Nat /\ TrailingOnes[l] \in Nat
  BY SizeOfLeavesBounds, TrailingOnesUnfold
<1>4. ASSUME k < l PROVE FALSE
  <2>1. SizeOfLeaves(k + 1) <= SizeOfLeaves(l)
    BY <1>4, SizeMonotone
  <2>2. SizeOfLeaves(k + 1) = SizeOfLeaves(k) + 1 + TrailingOnes[k]
    BY SizeSuccessor
  <2> QED
    BY <1>1, <1>2, <1>3, <2>1, <2>2
<1>5. ASSUME l < k PROVE FALSE
  <2>1. SizeOfLeaves(l + 1) <= SizeOfLeaves(k)
    BY <1>5, SizeMonotone
  <2>2. SizeOfLeaves(l + 1) = SizeOfLeaves(l) + 1 + TrailingOnes[l]
    BY SizeSuccessor
  <2> QED
    BY <1>1, <1>2, <1>3, <2>1, <2>2
<1>6. k = l
  BY <1>4, <1>5
<1> QED
  BY <1>1, <1>2, <1>3, <1>6

LEMMA HeightExists ==
  \A p \in Nat \ {0} : Height[p] \in Nat /\ HasHeight(p, Height[p])
<1> DEFINE E == {p \in Nat : p # 0 => Height[p] \in Nat /\ HasHeight(p, Height[p])}
<1>1. ASSUME NEW p \in Nat, \A m \in Nat : m < p => m \in E
      PROVE  p \in E
  <2> SUFFICES ASSUME p # 0 PROVE Height[p] \in Nat /\ HasHeight(p, Height[p])
    OBVIOUS
  <2> DEFINE b == BitLength(p)
  <2>1. b \in Nat /\ b >= 1 /\ b - 1 \in Nat /\ Pow2[b - 1] <= p /\ p < Pow2[b]
    BY BitLengthSpec
  <2>2. Height[p] = IF p = Pow2[b] - 1 THEN b - 1 ELSE Height[p - Pow2[b - 1] + 1]
    BY HeightUnfold
  <2> HIDE DEF b
  <2>3. CASE p = Pow2[b] - 1
    <3>1. HasHeight(Pow2[(b - 1) + 1] - 1, b - 1) /\ (b - 1) + 1 = b
      BY <2>1, AllOnesHeight
    <3> QED
      BY <2>1, <2>2, <2>3, <3>1
  <2>4. CASE p # Pow2[b] - 1
    <3> DEFINE to == p - Pow2[b - 1] + 1
    <3>1. PICK j \in Nat :
            /\ TreeSize(j) \in Nat /\ to \in Nat \ {0} /\ to <= TreeSize(j)
            /\ to < p /\ p = to + TreeSize(j)
      BY <2>1, <2>4, JumpGeometry
    <3>2. Height[p] = Height[to]
      BY <2>2, <2>4
    <3> HIDE DEF to
    <3>3. Height[to] \in Nat /\ HasHeight(to, Height[to])
      BY <1>1, <3>1
    <3> QED
      BY <3>1, <3>2, <3>3, JumpKeepsLevel
  <2> QED
    BY <2>3, <2>4
<1> HIDE DEF E
<1>2. \A p \in Nat : p \in E
  BY <1>1, StrongNatInduction
<1> QED
  BY <1>2 DEF E

LEMMA HeightIs ==
  ASSUME NEW p \in Nat \ {0}, NEW h \in Nat, HasHeight(p, h)
  PROVE  Height[p] = h
BY HeightExists, HeightUnique

-----------------------------------------------------------------------------
(* MMRs of whole blocks of leaves, and what comes behind them.             *)
Multiple(a, j) == \E q \in Nat : a = q * Pow2[j]

LEMMA MultipleOfLower ==
  ASSUME NEW a \in Nat, NEW j \in Nat, NEW i \in Nat, i <= j, Multiple(a, j)
  PROVE  Multiple(a, i)
<1>1. PICK q \in Nat : a = q * Pow2[j]
  BY DEF Multiple
<1>2. j - i \in Nat /\ i + (j - i) = j
  OBVIOUS
<1>3. Pow2[i + (j - i)] = Pow2[j - i] * Pow2[i]
  BY <1>2, Pow2Sum
<1>4. Pow2[i] \in Nat /\ Pow2[j - i] \in Nat
  BY <1>2, Pow2Unfold
<1> DEFINE d == Pow2[j - i]
           e == Pow2[i]
<1>5. a = q * (d * e)
  BY <1>1, <1>2, <1>3
<1> HIDE DEF d, e
<1>6. d \in Nat /\ e \in Nat
  BY <1>4 DEF d, e
<1>7. q * (d * e) = (q * d) * e /\ q * d \in Nat
  BY <1>6
<1>8. a = (q * d) * Pow2[i]
  BY <1>5, <1>7 DEF e
<1> QED
  BY <1>7, <1>8 DEF Multiple

LEMMA PopCountBehind ==
  \A j \in Nat : \A q, r \in Nat :
    r < Pow2[j] => PopCount[q * Pow2[j] + r] = PopCount[q] + PopCount[r]
<1> DEFINE E == {j \in Nat : \A q, r \in Nat :
                   r < Pow2[j] => PopCount[q * Pow2[j] + r] = PopCount[q] + PopCount[r]}
<1>1. 0 \in E
  <2> SUFFICES ASSUME NEW q \in Nat, NEW r \in Nat, r < Pow2[0]
               PROVE  PopCount[q * Pow2[0] + r] = PopCount[q] + PopCount[r]
    OBVIOUS
  <2>1. r = 0 /\ q * Pow2[0] + r = q
    BY Pow2Unfold
  <2>2. PopCount[q] \in Nat /\ PopCount[0] = 0
    BY PopCountUnfold
  <2> QED
    BY <2>1, <2>2
<1>2. ASSUME NEW j \in Nat, j \in E
      PROVE  j + 1 \in E
  <2> SUFFICES ASSUME NEW q \in Nat, NEW r \in Nat, r < Pow2[j + 1]
               PROVE  PopCount[q * Pow2[j + 1] + r] = PopCount[q] + PopCount[r]
    OBVIOUS
  <2> DEFINE h == r \div 2
             b == r % 2
             m == q * Pow2[j + 1] + r
             c == q * Pow2[j]
  <2>1. h \in Nat /\ b \in {0, 1} /\ r = 2 * h + b
    BY Halving
  <2>2. Pow2[j + 1] = 2 * Pow2[j] /\ Pow2[j] \in Nat
    BY Pow2Unfold
  <2>3. PopCount[r] = b + PopCount[h] /\ PopCount[h] \in Nat /\ PopCount[q] \in Nat
    BY <2>1, PopCountUnfold
  <2> HIDE DEF h, b
  <2>4. h < Pow2[j]
    BY <2>1, <2>2
  <2>5. q * (2 * Pow2[j]) = 2 * (q * Pow2[j]) /\ c \in Nat
    BY <2>2
  <2>6. PopCount[c + h] = PopCount[q] + PopCount[h]
    BY <1>2, <2>1, <2>4
  <2>7. m = 2 * (c + h) + b
    BY <2>1, <2>2, <2>5
  <2> HIDE DEF m, c
  <2>8. m \in Nat /\ m \div 2 = c + h /\ m % 2 = b
    BY <2>1, <2>5, <2>7
  <2>9. PopCount[m] = b + PopCount[c + h]
    BY <2>8, PopCountUnfold
  <2> QED
    BY <2>1, <2>3, <2>6, <2>9 DEF m
<1> HIDE DEF E
<1>3. \A j \in Nat : j \in E
  BY <1>1, <1>2, NatSetInduction
<1> QED
  BY <1>3 DEF E

(* Fewer leaves than a block: the nodes of the two parts add up.           *)
LEMMA SizeBehind ==
  ASSUME NEW a \in Nat, NEW r \in Nat, NEW j \in Nat, Multiple(a, j), r < Pow2[j]
  PROVE  SizeOfLeaves(a + r) = SizeOfLeaves(a) + SizeOfLeaves(r)
<1>1. PICK q \in Nat : a = q * Pow2[j]
  BY DEF Multiple
<1>2. 0 < Pow2[j]
  BY Pow2Unfold, Pow2Exceeds
<1>3. /\ PopCount[a + r] = PopCount[q] + PopCount[r]
      /\ PopCount[a + 0] = PopCount[q] + PopCount[0]
  BY <1>1, <1>2, PopCountBehind
<1>4. PopCount[q] \in Nat /\ PopCount[r] \in Nat /\ PopCount[0] = 0 /\ a + 0 = a
  BY PopCountUnfold
<1> QED
  BY <1>3, <1>4 DEF SizeOfLeaves

LEMMA TrailingOnesBehind ==
  \A j \in Nat : \A q \in Nat : j <= TrailingOnes[q * Pow2[j] + (Pow2[j] - 1)]
<1> DEFINE E == {j \in Nat : \A q \in Nat :
                   j <= TrailingOnes[q * Pow2[j] + (Pow2[j] - 1)]}
<1>1. 0 \in E
  <2> SUFFICES ASSUME NEW q \in Nat
               PROVE  0 <= TrailingOnes[q * Pow2[0] + (Pow2[0] - 1)]
    OBVIOUS
  <2>1. q * Pow2[0] + (Pow2[0] - 1) = q
    BY Pow2Unfold
  <2> QED
    BY <2>1, TrailingOnesUnfold
<1>2. ASSUME NEW j \in Nat, j \in E
      PROVE  j + 1 \in E
  <2> SUFFICES ASSUME NEW q \in Nat
               PROVE  j + 1 <= TrailingOnes[q * Pow2[j + 1] + (Pow2[j + 1] - 1)]
    OBVIOUS
  <2> DEFINE k == q * Pow2[j] + (Pow2[j] - 1)
             l == q * Pow2[j + 1] + (Pow2[j + 1] - 1)
  <2>1. Pow2[j + 1] = 2 * Pow2[j] /\ Pow2[j] \in Nat /\ Pow2[j] >= 1
    BY Pow2Unfold, Pow2Exceeds
  <2>2. q * (2 * Pow2[j]) = 2 * (q * Pow2[j]) /\ q * Pow2[j] \in Nat
    BY <2>1
  <2>3. k \in Nat /\ l = 2 * k + 1
    BY <2>1, <2>2
  <2>4. j <= TrailingOnes[k]
    BY <1>2
  <2> HIDE DEF k, l
  <2>5. l \in Nat /\ l % 2 = 1 /\ l \div 2 = k
    BY <2>3
  <2>6. TrailingOnes[l] = 1 + TrailingOnes[k] /\ TrailingOnes[k] \in Nat
    BY <2>3, <2>5, TrailingOnesUnfold
  <2>7. j + 1 <= TrailingOnes[l]
    BY <2>4, <2>6
  <2> QED
    BY <2>7 DEF l
<1> HIDE DEF E
<1>3. \A j \in Nat : j \in E
  BY <1>1, <1>2, NatSetInduction
<1> QED
  BY <1>3 DEF E

(* The root of the next perfect tree of height j behind blocks of 2^j.     *)
LEMMA RootBehind ==
  ASSUME NEW a \in Nat, NEW j \in Nat, Multiple(a, j)
  PROVE  HasHeight(SizeOfLeaves(a) + TreeSize(j), j)
<1> DEFINE o == Pow2[j] - 1
<1>1. /\ Pow2[j] \in Nat /\ Pow2[j] >= 1 /\ Pow2[j + 1] = 2 * Pow2[j]
      /\ o \in Nat /\ o < Pow2[j]
  BY Pow2Unfold, Pow2Exceeds
<1>2. PICK q \in Nat : a = q * Pow2[j]
  BY DEF Multiple
<1>3. j <= TrailingOnes[a + o]
  BY <1>2, TrailingOnesBehind
<1>4. TrailingOnes[o] = j /\ PopCount[o] \in Nat
  BY <1>1, TrailingOnesAll, PopCountUnfold
<1>5. PopCount[o] = j
  <2>1. PopCount[0 + Pow2[j]] = PopCount[0] + 1
    BY <1>1, PopCountTopBit
  <2>2. 0 + Pow2[j] = o + 1 /\ PopCount[0] = 0
    BY <1>1, PopCountUnfold
  <2>3. PopCount[o + 1] + TrailingOnes[o] = PopCount[o] + 1
    BY <1>1, PopCountSuccessor
  <2> HIDE DEF o
  <2> QED
    BY <1>4, <2>1, <2>2, <2>3
<1>6. SizeOfLeaves(a + o) = SizeOfLeaves(a) + SizeOfLeaves(o)
  BY <1>1, SizeBehind
<1>7. /\ SizeOfLeaves(a) \in Nat /\ SizeOfLeaves(a + o) \in Nat
      /\ a + o <= SizeOfLeaves(a + o)
  BY <1>1, SizeOfLeavesBounds
<1>8. SizeOfLeaves(o) + 1 + j = TreeSize(j)
  BY <1>1, <1>5 DEF SizeOfLeaves, TreeSize
<1>9. SizeOfLeaves(o) \in Nat
  BY <1>1, SizeOfLeavesBounds
<1> HIDE DEF o
<1>10. SizeOfLeaves(a) + TreeSize(j) = SizeOfLeaves(a + o) + 1 + j
  BY <1>6, <1>7, <1>8, <1>9
<1>11. a + o \in 0..(SizeOfLeaves(a) + TreeSize(j))
  BY <1>1, <1>7, <1>10
<1> QED
  BY <1>3, <1>10, <1>11 DEF HasHeight

(* A block fits in the rest exactly when its nodes do.                     *)
LEMMA BlockFits ==
  ASSUME NEW r \in Nat, NEW j \in Nat
  PROVE  Pow2[j] <= r <=> TreeSize(j) <= SizeOfLeaves(r)
<1>1. Pow2[j] \in Nat /\ Pow2[j] >= 1 /\ Pow2[j + 1] = 2 * Pow2[j]
  BY Pow2Unfold, Pow2Exceeds
<1>2. Pow2[j] <= r => TreeSize(j) <= SizeOfLeaves(r)
  BY SizeOfManyLeaves
<1>3. /\ SizeOfLeaves(r) \in Nat /\ (r > 0 => SizeOfLeaves(r) < 2 * r)
      /\ (r = 0 => SizeOfLeaves(r) = 0)
  BY SizeOfLeavesBounds
<1>4. r < Pow2[j] => SizeOfLeaves(r) < TreeSize(j)
  BY <1>1, <1>3 DEF TreeSize
<1> QED
  BY <1>1, <1>2, <1>3, <1>4 DEF TreeSize

-----------------------------------------------------------------------------
(* The first peak of an MMR of m leaves: the tallest tree, i high, with    *)
(* 2^i leaves and r others behind it.                                      *)
LEMMA FirstPeakSpec ==
  ASSUME NEW m \in Nat \ {0}, NEW b \in Nat, b >= 1,
         SizeOfLeaves(m) < Pow2[b], Pow2[b - 1] <= SizeOfLeaves(m),
         NEW p, p = IF SizeOfLeaves(m) = Pow2[b] - 1 THEN SizeOfLeaves(m)
                    ELSE Pow2[b - 1] - 1
  PROVE  \E i, r \in Nat :
           /\ p = TreeSize(i) /\ p = SizeOfLeaves(Pow2[i]) /\ p \in Nat \ {0}
           /\ HasHeight(p, i) /\ Height[p] = i /\ Multiple(Pow2[i], i)
           /\ r < Pow2[i] /\ SizeOfLeaves(m) = p + SizeOfLeaves(r)
<1>1. PICK i \in Nat :
        /\ Pow2[i] <= m /\ m - Pow2[i] \in Nat /\ m - Pow2[i] < Pow2[i]
        /\ SizeOfLeaves(m) = TreeSize(i) + SizeOfLeaves(m - Pow2[i])
        /\ SizeOfLeaves(m - Pow2[i]) < TreeSize(i)
  BY FirstTree
<1> DEFINE r == m - Pow2[i]
           s == SizeOfLeaves(m)
<1>2. /\ Pow2[i] \in Nat /\ Pow2[i] >= 1 /\ Pow2[i + 1] = 2 * Pow2[i]
      /\ Pow2[i + 1 + 1] = 2 * Pow2[i + 1]
  BY Pow2Unfold, Pow2Exceeds
<1>3. s \in Nat /\ SizeOfLeaves(r) \in Nat
  BY <1>1, SizeOfLeavesBounds
<1>4. TreeSize(i) = 2 * Pow2[i] - 1
  BY <1>2 DEF TreeSize
<1>5. BitLength(s) = b
  BY <1>3, BitLengthUnique
<1>6. p = TreeSize(i)
  <2>1. CASE SizeOfLeaves(r) = 0
    <3>1. s = Pow2[i + 1] - 1 /\ Pow2[(i + 1) - 1] <= s /\ s < Pow2[i + 1]
      BY <1>1, <1>2, <1>4, <2>1
    <3>2. BitLength(s) = i + 1
      BY <1>3, <3>1, BitLengthUnique
    <3>3. b = i + 1
      BY <1>5, <3>2
    <3> HIDE DEF s
    <3> QED
      BY <1>2, <1>4, <3>1, <3>3 DEF s
  <2>2. CASE SizeOfLeaves(r) # 0
    <3>1. /\ Pow2[(i + 1 + 1) - 1] <= s /\ s < Pow2[i + 1 + 1] - 1
      BY <1>1, <1>2, <1>3, <1>4, <2>2
    <3>2. BitLength(s) = i + 1 + 1
      <4>1. s < Pow2[i + 1 + 1]
        BY <1>2, <1>3, <3>1
      <4> QED
        BY <1>3, <3>1, <4>1, BitLengthUnique
    <3>3. b = i + 1 + 1 /\ b - 1 = i + 1 /\ s # Pow2[b] - 1
      BY <1>2, <1>3, <1>5, <3>1, <3>2
    <3> QED
      BY <1>2, <1>4, <3>3
  <2> QED
    BY <2>1, <2>2
<1>7. p \in Nat \ {0} /\ HasHeight(p, i)
  BY <1>2, <1>4, <1>6, AllOnesHeight DEF TreeSize
<1>8. Height[p] = i
  BY <1>7, HeightIs
<1>9. p = SizeOfLeaves(Pow2[i])
  <2>1. SizeOfLeaves(0 + Pow2[i]) = TreeSize(i) + SizeOfLeaves(0)
    BY <1>2, SizeOfLeavesTopTree
  <2>2. SizeOfLeaves(0) = 0 /\ 0 + Pow2[i] = Pow2[i]
    BY <1>2, SizeOfLeavesBounds
  <2> QED
    BY <1>6, <1>7, <2>1, <2>2
<1>10. Multiple(Pow2[i], i)
  <2>1. Pow2[i] = 1 * Pow2[i]
    BY <1>2
  <2> QED
    BY <2>1 DEF Multiple
<1>11. r \in Nat /\ r < Pow2[i] /\ SizeOfLeaves(m) = p + SizeOfLeaves(r)
  BY <1>1, <1>6
<1> QED
  BY <1>6, <1>7, <1>8, <1>9, <1>10, <1>11

(* The next peak after a leaves, in blocks of 2^h, with r others behind.   *)
LEMMA NextPeak ==
  ASSUME NEW a \in Nat, NEW h \in Nat, NEW r \in Nat, NEW j \in Nat,
         Multiple(a, h), r < Pow2[h], Pow2[j] <= r, r < Pow2[j + 1],
         NEW p, p = SizeOfLeaves(a) + TreeSize(j)
  PROVE  /\ j < h /\ p \in Nat \ {0} /\ HasHeight(p, j) /\ Height[p] = j
         /\ a + Pow2[j] \in Nat /\ Multiple(a + Pow2[j], j)
         /\ p = SizeOfLeaves(a + Pow2[j])
         /\ r - Pow2[j] \in Nat /\ r - Pow2[j] < Pow2[j]
         /\ SizeOfLeaves(a) + SizeOfLeaves(r) = p + SizeOfLeaves(r - Pow2[j])
<1>1. /\ Pow2[j] \in Nat /\ Pow2[j] >= 1 /\ Pow2[j + 1] = 2 * Pow2[j]
      /\ Pow2[h] \in Nat /\ TreeSize(j) \in Nat \ {0}
  BY Pow2Unfold, Pow2Exceeds DEF TreeSize
<1>2. j < h
  <2> SUFFICES ASSUME ~(j < h) PROVE FALSE
    OBVIOUS
  <2>1. j = h \/ h < j
    OBVIOUS
  <2>2. Pow2[h] <= Pow2[j]
    BY <1>1, <2>1, Pow2Monotone
  <2> QED
    BY <1>1, <2>2
<1>3. Multiple(a, j + 1) /\ Multiple(a, j)
  BY <1>2, MultipleOfLower
<1>4. SizeOfLeaves(a) \in Nat
  BY SizeOfLeavesBounds
<1>5. p \in Nat \ {0} /\ HasHeight(p, j)
  BY <1>1, <1>3, <1>4, RootBehind
<1>6. Height[p] = j
  BY <1>5, HeightIs
<1>7. p = SizeOfLeaves(a + Pow2[j])
  <2>1. PICK q \in Nat : a = q * Pow2[j + 1]
    BY <1>3 DEF Multiple
  <2> QED
    BY <2>1, SizeOfLeavesLowTree
<1>8. a + Pow2[j] \in Nat /\ Multiple(a + Pow2[j], j)
  <2>1. PICK q \in Nat : a = q * Pow2[j]
    BY <1>3 DEF Multiple
  <2>2. a + Pow2[j] = (q + 1) * Pow2[j] /\ q + 1 \in Nat
    BY <1>1, <2>1
  <2> QED
    BY <1>1, <2>2 DEF Multiple
<1>9. r - Pow2[j] \in Nat /\ r - Pow2[j] < Pow2[j]
  BY <1>1
<1>10. SizeOfLeaves(r) = TreeSize(j) + SizeOfLeaves(r - Pow2[j])
  <2>1. (r - Pow2[j]) + Pow2[j] = r
    BY <1>1
  <2> QED
    BY <1>9, <2>1, SizeOfLeavesTopTree
<1>11. SizeOfLeaves(r) \in Nat /\ SizeOfLeaves(r - Pow2[j]) \in Nat
  BY <1>9, SizeOfLeavesBounds
<1> QED
  BY <1>1, <1>2, <1>4, <1>5, <1>6, <1>7, <1>8, <1>9, <1>10, <1>11

-----------------------------------------------------------------------------
(* The loop of get_peaks in mmr.rs.                                        *)

PairsToSeqs == [Nat -> [Nat -> Seq(Nat)]]

(* One turn of the loop of get_peaks yields sequences of positions.        *)
LEMMA PeaksLevelType ==
  ASSUME NEW h \in Nat, NEW below \in PairsToSeqs
  PROVE  PeaksLevel(h, below) \in PairsToSeqs
<1>1. Pow2[h] \in Nat /\ Pow2[h] - 1 \in Nat
  BY Pow2Unfold, Pow2Exceeds
<1> DEFINE size == Pow2[h] - 1
<1>2. ASSUME NEW node_count \in Nat, NEW offset \in Nat
      PROVE  (IF size <= node_count
                THEN <<offset + size>> \o below[node_count - size][offset + size]
                ELSE below[node_count][offset]) \in Seq(Nat)
  <2> HIDE DEF size
  <2>1. size \in Nat
    BY <1>1 DEF size
  <2>2. CASE size <= node_count
    <3>1. node_count - size \in Nat /\ offset + size \in Nat
      BY <2>1, <2>2
    <3>2. below[node_count - size][offset + size] \in Seq(Nat)
      BY <3>1 DEF PairsToSeqs
    <3>3. <<offset + size>> \in Seq(Nat)
      BY <3>1
    <3> QED
      BY <2>2, <3>2, <3>3
  <2>3. CASE ~(size <= node_count)
    BY <2>3 DEF PairsToSeqs
  <2> QED
    BY <2>2, <2>3
<1> QED
  BY <1>2 DEF PairsToSeqs, PeaksLevel

(* The recursive definition of the loop of get_peaks unfolds.              *)
LEMMA RsPeaksFromUnfold ==
  /\ \A h \in Nat : RsPeaksFrom[h] \in PairsToSeqs
  /\ \A c, o \in Nat : RsPeaksFrom[0][c][o] = <<>>
  /\ \A h \in Nat : RsPeaksFrom[h + 1] = PeaksLevel(h + 1, RsPeaksFrom[h])
<1> DEFINE empty == [c \in Nat |-> [o \in Nat |-> <<>>]]
           stop == {0}
           base == [h \in Nat |-> empty]
           comb == [h \in Nat |-> [g \in PairsToSeqs |-> PeaksLevel(h, g)]]
           pred == [h \in Nat |-> IF h = 0 THEN 0 ELSE h - 1]
<1>0. empty \in PairsToSeqs
  BY DEF PairsToSeqs
<1>1. WellPosed(PairsToSeqs, stop, base, comb, pred)
  <2>1. stop \subseteq Nat /\ pred \in [Nat -> Nat]
    OBVIOUS
  <2>2. base \in [Nat -> PairsToSeqs]
    BY <1>0
  <2>3. comb \in [Nat -> [PairsToSeqs -> PairsToSeqs]]
    BY PeaksLevelType
  <2>4. \A n \in Nat : n \notin stop => pred[n] < n
    OBVIOUS
  <2> HIDE DEF stop, base, comb, pred
  <2> QED
    BY <2>1, <2>2, <2>3, <2>4 DEF WellPosed
<1>2. PICK f \in [Nat -> PairsToSeqs] :
         Satisfies(f, Nat, stop, base, comb, pred)
  <2> HIDE DEF stop, base, comb, pred
  <2> QED
    BY <1>1, RecursionExists
<1>3. f = [h \in Nat |-> IF h = 0 THEN empty ELSE PeaksLevel(h, f[h - 1])]
  <2>1. ASSUME NEW h \in Nat
        PROVE  f[h] = IF h = 0 THEN empty ELSE PeaksLevel(h, f[h - 1])
    <3>1. f[h] = IF h \in stop THEN base[h] ELSE comb[h][f[pred[h]]]
      BY <1>2 DEF Satisfies
    <3> HIDE DEF empty
    <3>2. CASE h = 0
      BY <3>1, <3>2
    <3>3. CASE h # 0
      <4>1. pred[h] = h - 1 /\ h - 1 \in Nat
        BY <3>3
      <4>2. f[h - 1] \in PairsToSeqs
        BY <4>1
      <4>3. comb[h][f[h - 1]] = PeaksLevel(h, f[h - 1])
        BY <4>2
      <4> QED
        BY <3>1, <3>3, <4>1, <4>3
    <3> QED
      BY <3>2, <3>3
  <2> QED
    BY <2>1
<1>4. RsPeaksFrom = [h \in Nat |->
                       IF h = 0 THEN empty ELSE PeaksLevel(h, RsPeaksFrom[h - 1])]
  BY <1>3 DEF RsPeaksFrom
<1> HIDE DEF empty
<1>5. \A h \in Nat : RsPeaksFrom[h + 1] = PeaksLevel(h + 1, RsPeaksFrom[h])
  <2> SUFFICES ASSUME NEW h \in Nat
               PROVE  RsPeaksFrom[h + 1] = PeaksLevel(h + 1, RsPeaksFrom[h])
    OBVIOUS
  <2>1. h + 1 \in Nat /\ h + 1 # 0 /\ (h + 1) - 1 = h
    OBVIOUS
  <2>2. RsPeaksFrom[h + 1] = PeaksLevel(h + 1, RsPeaksFrom[(h + 1) - 1])
    BY <1>4, <2>1
  <2> QED
    BY <2>1, <2>2
<1>6. RsPeaksFrom[0] = empty
  BY <1>4
<1>7. \A h \in Nat : RsPeaksFrom[h] \in PairsToSeqs
  <2> DEFINE E == {h \in Nat : RsPeaksFrom[h] \in PairsToSeqs}
  <2>1. 0 \in E
    BY <1>0, <1>6
  <2>2. ASSUME NEW h \in Nat, h \in E
        PROVE  h + 1 \in E
    BY <1>5, <2>2, PeaksLevelType
  <2> HIDE DEF E
  <2>3. \A h \in Nat : h \in E
    BY <2>1, <2>2, NatSetInduction
  <2> QED
    BY <2>3 DEF E
<1>8. \A c, o \in Nat : RsPeaksFrom[0][c][o] = <<>>
  BY <1>6 DEF empty
<1> QED
  BY <1>5, <1>7, <1>8
-----------------------------------------------------------------------------
(* What the loop of get_peaks finds from height h on, when offset nodes    *)
(* are under the peaks found so far and the rest is an MMR of r leaves:    *)
(* one peak for each one of r, the last of them at the last node.          *)
FindsPeaks(h, r, offset) ==
  LET peaks == RsPeaksFrom[h][SizeOfLeaves(r)][offset]
  IN  /\ peaks \in Seq(Nat)
      /\ Len(peaks) = PopCount[r]
      /\ r > 0 => peaks[Len(peaks)] = offset + SizeOfLeaves(r)

(* An MMR of fewer than 2^h leaves is smaller than a tree of height h.     *)
LEMMA LoopSkips ==
  ASSUME NEW h \in Nat, NEW r \in Nat, r < Pow2[h], NEW offset \in Nat
  PROVE  RsPeaksFrom[h + 1][SizeOfLeaves(r)][offset]
           = RsPeaksFrom[h][SizeOfLeaves(r)][offset]
<1>1. SizeOfLeaves(r) \in Nat /\ SizeOfLeaves(r) < Pow2[h + 1] - 1
  <2>1. /\ SizeOfLeaves(r) \in Nat
        /\ r > 0 => SizeOfLeaves(r) < 2 * r
        /\ r = 0 => SizeOfLeaves(r) = 0
    BY SizeOfLeavesBounds
  <2>2. Pow2[h + 1] = 2 * Pow2[h] /\ Pow2[h] \in Nat /\ Pow2[h] >= 1
    BY Pow2Unfold, Pow2Exceeds
  <2> QED
    BY <2>1, <2>2
<1>2. Pow2[h + 1] \in Nat
  BY Pow2Unfold
<1>3. ~(Pow2[h + 1] - 1 <= SizeOfLeaves(r))
  BY <1>1, <1>2
<1>4. RsPeaksFrom[h + 1] = PeaksLevel(h + 1, RsPeaksFrom[h])
  BY RsPeaksFromUnfold
<1> QED
  BY <1>1, <1>3, <1>4 DEF PeaksLevel

(* An MMR of 2^h + r leaves starts with a tree of height h.                *)
LEMMA LoopTakes ==
  ASSUME NEW h \in Nat, NEW r \in Nat, r < Pow2[h], NEW offset \in Nat
  PROVE  /\ TreeSize(h) \in Nat
         /\ RsPeaksFrom[h + 1][SizeOfLeaves(r + Pow2[h])][offset]
              = <<offset + TreeSize(h)>>
                  \o RsPeaksFrom[h][SizeOfLeaves(r)][offset + TreeSize(h)]
<1> DEFINE T == TreeSize(h)
           S == SizeOfLeaves(r)
<1>1. T = Pow2[h + 1] - 1 /\ T \in Nat /\ S \in Nat
  <2>1. Pow2[h] \in Nat /\ Pow2[h] >= h + 1 /\ Pow2[h + 1] = 2 * Pow2[h]
    BY Pow2Unfold, Pow2Exceeds
  <2>2. S \in Nat
    BY SizeOfLeavesBounds
  <2>3. T = Pow2[h + 1] - 1
    BY DEF TreeSize
  <2> HIDE DEF T
  <2> QED
    BY <2>1, <2>2, <2>3
<1>2. SizeOfLeaves(r + Pow2[h]) = T + S
  BY SizeOfLeavesTopTree
<1> HIDE DEF T, S
<1>3. T + S \in Nat /\ (T + S) - T = S /\ T <= T + S
  BY <1>1
<1>4. \A m \in Nat :
        PeaksLevel(h + 1, RsPeaksFrom[h])[m][offset]
          = IF Pow2[h + 1] - 1 <= m
              THEN <<offset + (Pow2[h + 1] - 1)>>
                     \o RsPeaksFrom[h][m - (Pow2[h + 1] - 1)]
                                      [offset + (Pow2[h + 1] - 1)]
              ELSE RsPeaksFrom[h][m][offset]
  BY DEF PeaksLevel
<1>5. RsPeaksFrom[h + 1] = PeaksLevel(h + 1, RsPeaksFrom[h])
  BY RsPeaksFromUnfold
<1>6. RsPeaksFrom[h + 1][T + S][offset]
        = <<offset + T>> \o RsPeaksFrom[h][S][offset + T]
  BY <1>1, <1>3, <1>4, <1>5
<1> QED
  BY <1>1, <1>2, <1>6 DEF T, S

LEMMA LevelSkips ==
  ASSUME NEW h \in Nat, NEW r \in Nat, r < Pow2[h], NEW offset \in Nat,
         FindsPeaks(h, r, offset)
  PROVE  FindsPeaks(h + 1, r, offset)
BY LoopSkips DEF FindsPeaks

LEMMA LevelTakes ==
  ASSUME NEW h \in Nat, NEW r \in Nat, r < Pow2[h], NEW offset \in Nat,
         FindsPeaks(h, r, offset + TreeSize(h))
  PROVE  FindsPeaks(h + 1, r + Pow2[h], offset)
<1> DEFINE T == TreeSize(h)
           S == SizeOfLeaves(r)
           below == RsPeaksFrom[h][S][offset + T]
           peaks == RsPeaksFrom[h + 1][T + S][offset]
<1>1. T \in Nat /\ S \in Nat
  <2>1. TreeSize(h) \in Nat
    BY LoopTakes
  <2>2. SizeOfLeaves(r) \in Nat
    BY SizeOfLeavesBounds
  <2> QED
    BY <2>1, <2>2
<1>2. SizeOfLeaves(r + Pow2[h]) = T + S
  BY SizeOfLeavesTopTree
<1>3. PopCount[r + Pow2[h]] = PopCount[r] + 1 /\ PopCount[r] \in Nat
  BY PopCountTopBit, PopCountUnfold
<1>4. r = 0 => S = 0
  BY SizeOfLeavesBounds
<1>5. /\ below \in Seq(Nat)
      /\ Len(below) = PopCount[r]
      /\ r > 0 => below[Len(below)] = offset + T + S
  BY <1>1 DEF FindsPeaks
<1>7. peaks = <<offset + T>> \o below
  <2>1. RsPeaksFrom[h + 1][SizeOfLeaves(r + Pow2[h])][offset]
          = <<offset + TreeSize(h)>>
              \o RsPeaksFrom[h][SizeOfLeaves(r)][offset + TreeSize(h)]
    BY LoopTakes
  <2> QED
    BY <1>2, <2>1
<1> HIDE DEF below, peaks, T, S
<1>8. /\ peaks \in Seq(Nat)
      /\ Len(peaks) = PopCount[r] + 1
  <2>1. <<offset + T>> \in Seq(Nat) /\ Len(<<offset + T>>) = 1
    BY <1>1
  <2>2. peaks \in Seq(Nat)
    BY <2>1, <1>5, <1>7, ConcatProperties
  <2>3. Len(peaks) = 1 + Len(below)
    BY <2>1, <1>5, <1>7, ConcatProperties
  <2> QED
    BY <2>2, <2>3, <1>3, <1>5
<1>9. peaks[Len(peaks)] = offset + (T + S)
  <2>1. CASE r = 0
    <3>1. PopCount[r] = 0
      BY <2>1, PopCountUnfold
    <3>2. peaks[1] = offset + T
      BY <1>1, <1>5, <1>7
    <3> QED
      BY <1>1, <1>4, <1>8, <2>1, <3>1, <3>2
  <2>2. CASE r > 0
    <3>1. Len(below) >= 1
      BY <2>2, <1>5, PopCountBounds
    <3>2. peaks[Len(below) + 1] = below[Len(below)]
      <4>1. <<offset + T>> \in Seq(Nat) /\ Len(<<offset + T>>) = 1
        BY <1>1
      <4>2. /\ Len(below) \in Nat
            /\ Len(below) + 1 \in 1..(Len(<<offset + T>>) + Len(below))
            /\ ~(Len(below) + 1 <= Len(<<offset + T>>))
            /\ (Len(below) + 1) - Len(<<offset + T>>) = Len(below)
        BY <3>1, <4>1, <1>5
      <4> QED
        BY <4>1, <4>2, <1>5, <1>7, ConcatProperties
    <3> QED
      BY <1>1, <1>5, <1>8, <2>2, <3>2
  <2> QED
    BY <2>1, <2>2
<1>10. peaks = RsPeaksFrom[h + 1][SizeOfLeaves(r + Pow2[h])][offset]
  BY <1>2 DEF peaks
<1> QED
  BY <1>2, <1>3, <1>8, <1>9, <1>10 DEF FindsPeaks

(* By induction over the heights.                                          *)
LEMMA PeaksFound ==
  \A h \in Nat : \A r \in Nat : \A offset \in Nat :
    r < Pow2[h] => FindsPeaks(h, r, offset)
<1> DEFINE E == {h \in Nat : \A r \in Nat : \A offset \in Nat :
                     r < Pow2[h] => FindsPeaks(h, r, offset)}
<1>1. 0 \in E
  <2> SUFFICES ASSUME NEW r \in Nat, NEW offset \in Nat, r < Pow2[0]
               PROVE  FindsPeaks(0, r, offset)
    OBVIOUS
  <2>1. r = 0
    BY Pow2Unfold
  <2>2. SizeOfLeaves(r) \in Nat
    BY SizeOfLeavesBounds
  <2>3. RsPeaksFrom[0][SizeOfLeaves(r)][offset] = <<>>
    BY <2>2, RsPeaksFromUnfold
  <2> QED
    BY <2>1, <2>3, PopCountUnfold DEF FindsPeaks
<1>2. ASSUME NEW h \in Nat, h \in E
      PROVE  h + 1 \in E
  <2> SUFFICES ASSUME NEW r \in Nat, NEW offset \in Nat, r < Pow2[h + 1]
               PROVE  FindsPeaks(h + 1, r, offset)
    OBVIOUS
  <2>1. Pow2[h + 1] = 2 * Pow2[h] /\ Pow2[h] \in Nat /\ TreeSize(h) \in Nat
    BY Pow2Unfold, Pow2Exceeds DEF TreeSize
  <2>2. CASE r < Pow2[h]
    <3>1. FindsPeaks(h, r, offset)
      BY <1>2, <2>2
    <3> QED
      BY <2>2, <3>1, LevelSkips
  <2>3. CASE ~(r < Pow2[h])
    <3>1. PICK s \in Nat : r = s + Pow2[h]
      <4>1. r - Pow2[h] \in Nat /\ r = (r - Pow2[h]) + Pow2[h]
        BY <2>1, <2>3
      <4> QED
        BY <4>1
    <3>2. s < Pow2[h]
      BY <2>1, <3>1
    <3>3. offset + TreeSize(h) \in Nat
      BY <2>1
    <3>4. FindsPeaks(h, s, offset + TreeSize(h))
      BY <1>2, <3>2, <3>3
    <3>5. FindsPeaks(h + 1, s + Pow2[h], offset)
      BY <3>2, <3>4, LevelTakes
    <3> QED
      BY <3>1, <3>5
  <2> QED
    BY <2>2, <2>3
<1> HIDE DEF E
<1>3. \A h \in Nat : h \in E
  BY <1>1, <1>2, NatSetInduction
<1> QED
  BY <1>3 DEF E

(* get_peaks finds one peak for each one of the leaf count, and the last   *)
(* peak it finds is the last node.                                         *)
LEMMA GetPeaksOfLeaves ==
  ASSUME NEW n \in Nat
  PROVE  /\ RsPeaksCover(SizeOfLeaves(n))
         /\ RsGetPeaks(SizeOfLeaves(n)) \in Seq(Nat)
         /\ Len(RsGetPeaks(SizeOfLeaves(n))) = PopCount[n]
<1>1. SizeOfLeaves(n) \in Nat /\ n <= SizeOfLeaves(n)
      /\ (n = 0 <=> SizeOfLeaves(n) = 0)
  BY SizeOfLeavesBounds
<1>2. CASE n = 0
  BY <1>1, <1>2, PopCountUnfold DEF RsPeaksCover, RsGetPeaks
<1>3. CASE n > 0
  <2> DEFINE b == BitLength(SizeOfLeaves(n))
             peaks == RsPeaksFrom[b][SizeOfLeaves(n)][0]
  <2>1. b \in Nat /\ SizeOfLeaves(n) < Pow2[b] /\ Pow2[b] \in Nat
    BY <1>1, BitLengthSpec, Pow2Unfold
  <2>2. n < Pow2[b]
    BY <1>1, <2>1
  <2>3. FindsPeaks(b, n, 0)
    BY <2>1, <2>2, PeaksFound
  <2>4. /\ peaks \in Seq(Nat)
        /\ Len(peaks) = PopCount[n]
        /\ peaks[Len(peaks)] = SizeOfLeaves(n)
    BY <1>1, <1>3, <2>3 DEF FindsPeaks
  <2>5. RsGetPeaks(SizeOfLeaves(n)) = peaks
    BY <1>1, <1>3 DEF RsGetPeaks
  <2>6. Len(peaks) >= 1
    BY <1>3, <2>4, PopCountBounds
  <2> HIDE DEF peaks
  <2>7. peaks # <<>>
    BY <2>4, <2>6
  <2> QED
    BY <2>4, <2>5, <2>7 DEF RsPeaksCover
<1> QED
  BY <1>2, <1>3

-----------------------------------------------------------------------------
(* The perfect trees an MMR of n leaves consists of: one of 2^j leaves     *)
(* behind the first a of them, and fewer than 2^j leaves behind it.        *)
Block(n, a, j) == Multiple(a, j + 1) /\ a + Pow2[j] <= n /\ n < a + Pow2[j + 1]

(* Blocks of a lower height tile those of a higher one.                    *)
LEMMA MultiplesApart ==
  ASSUME NEW a \in Nat, NEW i \in Nat, NEW j \in Nat, i <= j, Multiple(a, i)
  PROVE  /\ a < Pow2[j] => a + Pow2[i] <= Pow2[j]
         /\ \A b \in Nat : a = b + Pow2[j] => Multiple(b, i)
<1>1. PICK q \in Nat : a = q * Pow2[i]
  BY DEF Multiple
<1> DEFINE d == Pow2[j - i]
           e == Pow2[i]
<1>2. /\ Pow2[j] = d * e /\ d \in Nat /\ e \in Nat /\ e >= 1
  <2>1. j - i \in Nat /\ i + (j - i) = j
    OBVIOUS
  <2>2. Pow2[i + (j - i)] = Pow2[j - i] * Pow2[i]
    BY <2>1, Pow2Sum
  <2> QED
    BY <2>1, <2>2, Pow2Unfold, Pow2Exceeds
<1> HIDE DEF d
<1>3. ASSUME a < Pow2[j]
      PROVE  a + Pow2[i] <= Pow2[j]
  <2>1. a = q * e /\ q * e < d * e
    BY <1>1, <1>2, <1>3
  <2> HIDE DEF e
  <2>2. q < d
    <3>1. CASE d <= q
      <4>1. q * e = d * e + (q - d) * e /\ (q - d) * e \in Nat /\ d * e \in Nat
        BY <1>2, <3>1
      <4> QED
        BY <2>1, <4>1
    <3> QED
      BY <1>2, <3>1
  <2>3. d * e = (q + 1) * e + (d - (q + 1)) * e /\ (d - (q + 1)) * e \in Nat
    BY <1>2, <2>2
  <2>4. (q + 1) * e = q * e + e /\ q * e \in Nat
    BY <1>2
  <2> QED
    BY <1>2, <2>1, <2>3, <2>4 DEF e
<1>4. ASSUME NEW b \in Nat, a = b + Pow2[j]
      PROVE  Multiple(b, i)
  <2>1. q * e = b + d * e
    BY <1>1, <1>2, <1>4
  <2> HIDE DEF e
  <2>2. d <= q
    <3>1. CASE q < d
      <4>1. d * e = q * e + (d - q) * e /\ (d - q) * e = e + (d - q - 1) * e
        BY <1>2, <3>1
      <4>2. (d - q - 1) * e \in Nat /\ q * e \in Nat /\ d * e \in Nat
        BY <1>2, <3>1
      <4> QED
        BY <1>2, <2>1, <4>1, <4>2
    <3> QED
      BY <1>2, <3>1
  <2>3. q * e = d * e + (q - d) * e /\ q - d \in Nat /\ d * e \in Nat
        /\ (q - d) * e \in Nat
    BY <1>2, <2>2
  <2>4. b = (q - d) * Pow2[i]
    BY <2>1, <2>3 DEF e
  <2> QED
    BY <2>3, <2>4 DEF Multiple
<1> QED
  BY <1>3, <1>4

(* A tree of 2^h leaves put in front moves every block behind it, and is   *)
(* the only new one.                                                       *)
LEMMA BlockBehind ==
  ASSUME NEW h \in Nat, NEW s \in Nat, s < Pow2[h], NEW a \in Nat, NEW j \in Nat
  PROVE  /\ Block(s, a, j) => Block(s + Pow2[h], a + Pow2[h], j)
         /\ Block(s + Pow2[h], a, j) =>
              \/ a = 0 /\ j = h
              \/ \E b \in Nat : a = b + Pow2[h] /\ Block(s, b, j) /\ b + Pow2[j] <= s
<1>1. /\ Pow2[h] \in Nat /\ Pow2[h] >= 1 /\ Pow2[h + 1] = 2 * Pow2[h]
      /\ Pow2[j] \in Nat /\ Pow2[j] >= 1 /\ Pow2[j + 1] = 2 * Pow2[j]
  BY Pow2Unfold, Pow2Exceeds
<1>2. Pow2[j] < Pow2[h] => j < h
  <2>1. j = h \/ h < j \/ j < h
    OBVIOUS
  <2> QED
    BY <2>1, <1>1, Pow2Monotone
<1>3. ASSUME Block(s, a, j)
      PROVE  Block(s + Pow2[h], a + Pow2[h], j)
  <2>1. j < h
    BY <1>1, <1>2, <1>3 DEF Block
  <2>2. PICK q \in Nat : a = q * Pow2[j + 1]
    BY <1>3 DEF Block, Multiple
  <2>3. /\ h - (j + 1) \in Nat
        /\ Pow2[h] = Pow2[h - (j + 1)] * Pow2[j + 1]
    <3>1. h - (j + 1) \in Nat /\ (j + 1) + (h - (j + 1)) = h
      BY <2>1
    <3> QED
      BY <3>1, Pow2Sum
  <2> DEFINE d == Pow2[h - (j + 1)]
             e == Pow2[j + 1]
  <2>4. d \in Nat /\ e \in Nat
    BY <2>3, Pow2Unfold
  <2>5. a + Pow2[h] = q * e + d * e
    BY <2>2, <2>3
  <2> HIDE DEF d, e
  <2>6. q * e + d * e = (q + d) * e /\ q + d \in Nat
    BY <2>4
  <2>7. Multiple(a + Pow2[h], j + 1)
    BY <2>5, <2>6 DEF Multiple, e
  <2> QED
    BY <2>7, <1>1, <1>3 DEF Block
<1>4. ASSUME Block(s + Pow2[h], a, j)
      PROVE  \/ a = 0 /\ j = h
             \/ \E b \in Nat : a = b + Pow2[h] /\ Block(s, b, j) /\ b + Pow2[j] <= s
  <2>1. /\ Multiple(a, j + 1)
        /\ a + Pow2[j] <= s + Pow2[h] /\ s + Pow2[h] < a + Pow2[j + 1]
    BY <1>4 DEF Block
  <2>2. CASE j < h
    <3>1. ~(a < Pow2[h])
      <4>1. a < Pow2[h] => a + Pow2[j + 1] <= Pow2[h]
        BY <2>1, <2>2, MultiplesApart
      <4> QED
        BY <1>1, <2>1, <4>1
    <3> DEFINE b == a - Pow2[h]
    <3>2. b \in Nat /\ a = b + Pow2[h]
      BY <1>1, <3>1
    <3>3. Multiple(b, j + 1)
      BY <2>1, <2>2, <3>2, MultiplesApart
    <3> HIDE DEF b
    <3>4. b + Pow2[j] <= s /\ s < b + Pow2[j + 1]
      BY <1>1, <2>1, <3>2
    <3>5. Block(s, b, j)
      BY <3>3, <3>4 DEF Block
    <3> QED
      BY <3>2, <3>4, <3>5
  <2>3. CASE h <= j
    <3>1. j = h
      <4>1. h < j => 2 * Pow2[h] <= Pow2[j]
        BY Pow2Monotone
      <4> QED
        BY <1>1, <2>1, <2>3, <4>1
    <3>2. a < Pow2[j + 1]
      BY <1>1, <2>1, <3>1
    <3>3. a + Pow2[j + 1] <= Pow2[j + 1]
      BY <2>1, <3>2, MultiplesApart
    <3> QED
      BY <1>1, <3>1, <3>3
  <2> QED
    BY <2>2, <2>3
<1> QED
  BY <1>3, <1>4

(* What the loop of get_peaks finds are the last nodes of the blocks, in   *)
(* their order: behind as many other peaks as there are blocks in front.   *)
PeaksAreBlocks(h, m, offset) ==
  LET peaks == RsPeaksFrom[h][SizeOfLeaves(m)][offset]
  IN  /\ \A a, j \in Nat : Block(m, a, j) =>
           /\ PopCount[a] + 1 <= PopCount[m]
           /\ peaks[PopCount[a] + 1] = offset + SizeOfLeaves(a + Pow2[j])
      /\ \A i \in 1..PopCount[m] :
           \E a, j \in Nat : Block(m, a, j) /\ PopCount[a] + 1 = i

(* The tree in front gives the first peak.                                 *)
LEMMA BlocksTake ==
  ASSUME NEW h \in Nat, NEW s \in Nat, s < Pow2[h], NEW offset \in Nat,
         PeaksAreBlocks(h, s, offset + TreeSize(h))
  PROVE  PeaksAreBlocks(h + 1, s + Pow2[h], offset)
<1> DEFINE m == s + Pow2[h]
           below == RsPeaksFrom[h][SizeOfLeaves(s)][offset + TreeSize(h)]
           peaks == RsPeaksFrom[h + 1][SizeOfLeaves(m)][offset]
<1>1. TreeSize(h) \in Nat /\ peaks = <<offset + TreeSize(h)>> \o below
  BY LoopTakes
<1>2. /\ Pow2[h] \in Nat /\ Pow2[h] >= 1 /\ Pow2[h + 1] = 2 * Pow2[h]
      /\ m \in Nat
  BY Pow2Unfold, Pow2Exceeds
<1>3. PopCount[m] = PopCount[s] + 1 /\ PopCount[s] \in Nat
  BY PopCountTopBit, PopCountUnfold
<1>4. below \in Seq(Nat) /\ Len(below) = PopCount[s]
  <2>1. offset + TreeSize(h) \in Nat
    BY <1>1
  <2>2. FindsPeaks(h, s, offset + TreeSize(h))
    BY <2>1, PeaksFound
  <2> QED
    BY <2>2, Zenon DEF FindsPeaks
<1> HIDE DEF below, peaks
<1>5. /\ peaks[1] = offset + TreeSize(h)
      /\ \A i \in 1..PopCount[s] : peaks[i + 1] = below[i]
  <2> DEFINE at == offset + TreeSize(h)
  <2>1. at \in Nat /\ peaks = <<at>> \o below
    BY <1>1
  <2> HIDE DEF at
  <2>2. peaks[1] = at
    BY <1>4, <2>1
  <2>3. \A i \in 1..Len(below) : peaks[i + 1] = below[i]
    <3> DEFINE one == <<at>>
    <3>1. one \in Seq(Nat) /\ Len(one) = 1
      BY <2>1
    <3>2. Len(below) \in Nat
      BY <1>4
    <3> HIDE DEF one
    <3>3. \A i \in 1..(Len(one) + Len(below)) :
            (one \o below)[i] = IF i <= Len(one) THEN one[i] ELSE below[i - Len(one)]
      BY <1>4, <3>1, ConcatProperties
    <3>4. \A i \in 1..(1 + Len(below)) :
            peaks[i] = IF i <= 1 THEN one[i] ELSE below[i - 1]
      BY <2>1, <3>1, <3>3 DEF one
    <3> TAKE i \in 1..Len(below)
    <3>5. i + 1 \in 1..(1 + Len(below)) /\ ~(i + 1 <= 1) /\ (i + 1) - 1 = i
      BY <3>2
    <3> QED
      BY <3>4, <3>5
  <2> QED
    BY <1>4, <2>2, <2>3 DEF at
<1>6. PopCount[0] = 0 /\ SizeOfLeaves(0) = 0
      /\ SizeOfLeaves(0 + Pow2[h]) = TreeSize(h) + SizeOfLeaves(0)
  <2>1. 0 < Pow2[h]
    BY <1>2
  <2>2. SizeOfLeaves(0 + Pow2[h]) = TreeSize(h) + SizeOfLeaves(0)
    BY <2>1, SizeOfLeavesTopTree
  <2> QED
    BY <2>2, PopCountUnfold, SizeOfLeavesBounds
<1>7. ASSUME NEW a \in Nat, NEW j \in Nat, Block(m, a, j)
      PROVE  /\ PopCount[a] + 1 <= PopCount[m]
             /\ peaks[PopCount[a] + 1] = offset + SizeOfLeaves(a + Pow2[j])
  <2>1. \/ a = 0 /\ j = h
        \/ \E b \in Nat : a = b + Pow2[h] /\ Block(s, b, j) /\ b + Pow2[j] <= s
    BY <1>7, BlockBehind
  <2>2. CASE a = 0 /\ j = h
    BY <1>1, <1>3, <1>5, <1>6, <2>2
  <2>3. CASE \E b \in Nat : a = b + Pow2[h] /\ Block(s, b, j) /\ b + Pow2[j] <= s
    <3>1. PICK b \in Nat : a = b + Pow2[h] /\ Block(s, b, j) /\ b + Pow2[j] <= s
      BY <2>3
    <3>2. Pow2[j] \in Nat /\ Pow2[j] >= 1
      BY Pow2Unfold, Pow2Exceeds
    <3>3. PopCount[a] = PopCount[b] + 1 /\ PopCount[b] \in Nat
      <4>1. b < Pow2[h]
        BY <1>2, <3>1, <3>2
      <4> QED
        BY <3>1, <4>1, PopCountTopBit, PopCountUnfold
    <3>4. SizeOfLeaves(a + Pow2[j]) = TreeSize(h) + SizeOfLeaves(b + Pow2[j])
          /\ SizeOfLeaves(b + Pow2[j]) \in Nat
      <4>1. b + Pow2[j] \in Nat /\ b + Pow2[j] < Pow2[h]
        BY <1>2, <3>1, <3>2
      <4>2. a + Pow2[j] = (b + Pow2[j]) + Pow2[h]
        BY <1>2, <3>1, <3>2
      <4> QED
        BY <4>1, <4>2, SizeOfLeavesTopTree, SizeOfLeavesBounds
    <3>5. /\ PopCount[b] + 1 <= PopCount[s]
          /\ below[PopCount[b] + 1]
               = (offset + TreeSize(h)) + SizeOfLeaves(b + Pow2[j])
      <4>1. \A c, i \in Nat : Block(s, c, i) =>
              /\ PopCount[c] + 1 <= PopCount[s]
              /\ below[PopCount[c] + 1]
                   = (offset + TreeSize(h)) + SizeOfLeaves(c + Pow2[i])
        BY DEF PeaksAreBlocks, below
      <4> QED
        BY <3>1, <4>1
    <3>6. peaks[(PopCount[b] + 1) + 1] = below[PopCount[b] + 1]
      BY <1>3, <1>5, <3>3, <3>5
    <3>7. peaks[PopCount[a] + 1] = offset + SizeOfLeaves(a + Pow2[j])
      <4>1. PopCount[a] + 1 = (PopCount[b] + 1) + 1
        BY <3>3
      <4>2. (offset + TreeSize(h)) + SizeOfLeaves(b + Pow2[j])
              = offset + SizeOfLeaves(a + Pow2[j])
        <5> DEFINE T == TreeSize(h)
                   B == SizeOfLeaves(b + Pow2[j])
        <5>1. T \in Nat /\ B \in Nat /\ SizeOfLeaves(a + Pow2[j]) = T + B
          BY <1>1, <3>4
        <5> HIDE DEF T, B
        <5>2. (offset + T) + B = offset + SizeOfLeaves(a + Pow2[j])
          BY <5>1
        <5> QED
          BY <5>2 DEF T, B
      <4> QED
        BY <3>5, <3>6, <4>1, <4>2
    <3> QED
      BY <1>3, <3>3, <3>5, <3>7
  <2> QED
    BY <2>1, <2>2, <2>3
<1>8. ASSUME NEW i \in 1..PopCount[m]
      PROVE  \E a, j \in Nat : Block(m, a, j) /\ PopCount[a] + 1 = i
  <2>1. CASE i = 1
    <3>1. Multiple(0, h + 1)
      BY <1>2, Pow2Unfold DEF Multiple
    <3>2. Block(m, 0, h)
      BY <1>2, <3>1 DEF Block
    <3> QED
      BY <1>6, <2>1, <3>2
  <2>2. CASE i > 1
    <3>1. i - 1 \in 1..PopCount[s]
      BY <1>3, <2>2
    <3>2. PICK b, j \in Nat : Block(s, b, j) /\ PopCount[b] + 1 = i - 1
      BY <3>1 DEF PeaksAreBlocks
    <3>3. Block(m, b + Pow2[h], j)
      BY <3>2, BlockBehind
    <3>4. b < Pow2[h] /\ b + Pow2[h] \in Nat
      BY <1>2, <3>2, Pow2Unfold, Pow2Exceeds DEF Block
    <3>5. PopCount[b + Pow2[h]] = PopCount[b] + 1 /\ PopCount[b] \in Nat
      BY <3>4, PopCountTopBit, PopCountUnfold
    <3>6. PopCount[b + Pow2[h]] + 1 = i
      BY <3>2, <3>5
    <3> QED
      BY <3>3, <3>4, <3>6
  <2> QED
    BY <2>1, <2>2
<1> QED
  BY <1>7, <1>8 DEF PeaksAreBlocks, peaks, m

(* By induction over the heights.                                          *)
LEMMA LoopFindsBlocks ==
  \A h \in Nat : \A m \in Nat : \A offset \in Nat :
    m < Pow2[h] => PeaksAreBlocks(h, m, offset)
<1> DEFINE E == {h \in Nat : \A m \in Nat : \A offset \in Nat :
                     m < Pow2[h] => PeaksAreBlocks(h, m, offset)}
<1>1. 0 \in E
  <2> SUFFICES ASSUME NEW m \in Nat, NEW offset \in Nat, m < Pow2[0]
               PROVE  PeaksAreBlocks(0, m, offset)
    OBVIOUS
  <2>1. m = 0 /\ PopCount[0] = 0
    BY Pow2Unfold, PopCountUnfold
  <2>2. ASSUME NEW a \in Nat, NEW j \in Nat
        PROVE  ~Block(m, a, j)
    BY <2>1, Pow2Unfold, Pow2Exceeds DEF Block
  <2> QED
    BY <2>1, <2>2 DEF PeaksAreBlocks
<1>2. ASSUME NEW h \in Nat, h \in E
      PROVE  h + 1 \in E
  <2> SUFFICES ASSUME NEW m \in Nat, NEW offset \in Nat, m < Pow2[h + 1]
               PROVE  PeaksAreBlocks(h + 1, m, offset)
    OBVIOUS
  <2>1. Pow2[h + 1] = 2 * Pow2[h] /\ Pow2[h] \in Nat /\ TreeSize(h) \in Nat
    BY Pow2Unfold, Pow2Exceeds DEF TreeSize
  <2>2. CASE m < Pow2[h]
    <3>1. PeaksAreBlocks(h, m, offset)
      BY <1>2, <2>2
    <3> QED
      BY <2>2, <3>1, LoopSkips DEF PeaksAreBlocks
  <2>3. CASE ~(m < Pow2[h])
    <3>1. PICK s \in Nat : m = s + Pow2[h]
      <4>1. m - Pow2[h] \in Nat /\ m = (m - Pow2[h]) + Pow2[h]
        BY <2>1, <2>3
      <4> QED
        BY <4>1
    <3>2. s < Pow2[h] /\ offset + TreeSize(h) \in Nat
      BY <2>1, <3>1
    <3>3. PeaksAreBlocks(h, s, offset + TreeSize(h))
      BY <1>2, <3>2
    <3> QED
      BY <3>1, <3>2, <3>3, BlocksTake
  <2> QED
    BY <2>2, <2>3
<1> HIDE DEF E
<1>3. \A h \in Nat : h \in E
  BY <1>1, <1>2, NatSetInduction
<1> QED
  BY <1>3 DEF E

(* get_peaks finds the last nodes of the blocks of the MMR, and no others. *)
LEMMA PeaksOfBlocks ==
  ASSUME NEW n \in Nat
  PROVE  LET peaks == RsGetPeaks(SizeOfLeaves(n))
         IN  /\ \A a, j \in Nat : Block(n, a, j) =>
                  /\ PopCount[a] + 1 \in DOMAIN peaks
                  /\ peaks[PopCount[a] + 1] = SizeOfLeaves(a + Pow2[j])
             /\ \A i \in DOMAIN peaks :
                  \E a, j \in Nat : Block(n, a, j) /\ PopCount[a] + 1 = i
<1> DEFINE peaks == RsGetPeaks(SizeOfLeaves(n))
           b == BitLength(SizeOfLeaves(n))
<1>1. SizeOfLeaves(n) \in Nat /\ n <= SizeOfLeaves(n)
      /\ (n = 0 <=> SizeOfLeaves(n) = 0)
  BY SizeOfLeavesBounds
<1>2. peaks \in Seq(Nat) /\ Len(peaks) = PopCount[n] /\ PopCount[n] \in Nat
  BY GetPeaksOfLeaves, PopCountUnfold
<1>3. DOMAIN peaks = 1..PopCount[n]
  BY <1>2
<1>4. CASE n = 0
  <2>1. PopCount[n] = 0
    BY <1>4, PopCountUnfold
  <2>2. ASSUME NEW a \in Nat, NEW j \in Nat
        PROVE  ~Block(n, a, j)
    BY <1>4, Pow2Unfold, Pow2Exceeds DEF Block
  <2> QED
    BY <1>3, <2>1, <2>2
<1>5. CASE n > 0
  <2>1. b \in Nat /\ SizeOfLeaves(n) < Pow2[b] /\ Pow2[b] \in Nat
    BY <1>1, BitLengthSpec, Pow2Unfold
  <2>2. n < Pow2[b]
    BY <1>1, <2>1
  <2>3. PeaksAreBlocks(b, n, 0)
    BY <2>1, <2>2, LoopFindsBlocks
  <2>4. peaks = RsPeaksFrom[b][SizeOfLeaves(n)][0]
    BY <1>1, <1>5 DEF RsGetPeaks
  <2>5. ASSUME NEW a \in Nat, NEW j \in Nat, Block(n, a, j)
        PROVE  /\ PopCount[a] + 1 \in DOMAIN peaks
               /\ peaks[PopCount[a] + 1] = SizeOfLeaves(a + Pow2[j])
    <3>1. PopCount[a] \in Nat /\ SizeOfLeaves(a + Pow2[j]) \in Nat
      <4>1. a + Pow2[j] \in Nat
        BY Pow2Unfold
      <4> QED
        BY <4>1, PopCountUnfold, SizeOfLeavesBounds
    <3>2. /\ PopCount[a] + 1 <= PopCount[n]
          /\ peaks[PopCount[a] + 1] = 0 + SizeOfLeaves(a + Pow2[j])
      BY <2>3, <2>4, <2>5 DEF PeaksAreBlocks
    <3> QED
      BY <1>2, <1>3, <3>1, <3>2
  <2>6. \A i \in DOMAIN peaks :
          \E a, j \in Nat : Block(n, a, j) /\ PopCount[a] + 1 = i
    BY <1>3, <2>3 DEF PeaksAreBlocks
  <2> QED
    BY <2>5, <2>6
<1> QED
  BY <1>4, <1>5

-----------------------------------------------------------------------------
(* The peaks an append merges with, and those that were there before.      *)

LEMMA SizeStrict ==
  ASSUME NEW k \in Nat, NEW l \in Nat, k < l
  PROVE  SizeOfLeaves(k) < SizeOfLeaves(l)
<1>1. SizeOfLeaves(k + 1) = SizeOfLeaves(k) + 1 + TrailingOnes[k]
  BY SizeSuccessor
<1>2. k + 1 \in Nat /\ SizeOfLeaves(k + 1) <= SizeOfLeaves(l)
  BY SizeMonotone
<1>3. /\ SizeOfLeaves(k) \in Nat /\ SizeOfLeaves(l) \in Nat /\ TrailingOnes[k] \in Nat
  BY SizeOfLeavesBounds, TrailingOnesUnfold
<1> QED
  BY <1>1, <1>2, <1>3

(* The ones of the two parts of a number add up.                           *)
LEMMA PopCountParts ==
  ASSUME NEW j \in Nat, NEW q \in Nat, NEW r \in Nat, r < Pow2[j]
  PROVE  PopCount[q * Pow2[j] + r] = PopCount[q] + PopCount[r]
BY PopCountBehind

LEMMA PopCountPow2 ==
  ASSUME NEW j \in Nat
  PROVE  PopCount[Pow2[j]] = 1
<1>1. Pow2[j] \in Nat /\ 0 < Pow2[j] /\ 0 + Pow2[j] = Pow2[j]
  BY Pow2Unfold, Pow2Exceeds
<1>2. PopCount[0 + Pow2[j]] = PopCount[0] + 1
  BY <1>1, PopCountTopBit
<1>3. PopCount[0] = 0
  BY PopCountUnfold
<1> QED
  BY <1>1, <1>2, <1>3

(* 2^j - 1 is j ones.                                                      *)
LEMMA AllOnesCount ==
  ASSUME NEW j \in Nat
  PROVE  /\ Pow2[j] - 1 \in Nat /\ PopCount[Pow2[j] - 1] = j
         /\ SizeOfLeaves(Pow2[j] - 1) = 2 * Pow2[j] - 2 - j
<1> DEFINE o == Pow2[j] - 1
<1>1. Pow2[j] \in Nat /\ Pow2[j] >= 1 /\ o \in Nat /\ o + 1 = Pow2[j]
  BY Pow2Unfold, Pow2Exceeds
<1>2. TrailingOnes[o] = j /\ PopCount[o] \in Nat
  BY <1>1, TrailingOnesAll, PopCountUnfold
<1>3. PopCount[0 + Pow2[j]] = PopCount[0] + 1 /\ PopCount[0] = 0
  BY <1>1, PopCountTopBit, PopCountUnfold
<1>4. PopCount[o + 1] + TrailingOnes[o] = PopCount[o] + 1
  BY <1>1, PopCountSuccessor
<1>5. PopCount[o] = j
  <2> HIDE DEF o
  <2>1. 0 + Pow2[j] = o + 1
    BY <1>1
  <2> QED
    BY <1>2, <1>3, <1>4, <2>1
<1>6. SizeOfLeaves(o) = 2 * o - j
  BY <1>5 DEF SizeOfLeaves
<1> QED
  BY <1>1, <1>5, <1>6

(* As many trailing ones as are merged: the leaves behind a multiple.      *)
LEMMA TrailingOnesMultiple ==
  \A i \in Nat : \A n \in Nat :
    i <= TrailingOnes[n] => \E q \in Nat : n = q * Pow2[i] + (Pow2[i] - 1)
<1> DEFINE E == {i \in Nat : \A n \in Nat :
                   i <= TrailingOnes[n] => \E q \in Nat : n = q * Pow2[i] + (Pow2[i] - 1)}
<1>1. 0 \in E
  <2>1. \A n \in Nat : n = n * Pow2[0] + (Pow2[0] - 1)
    BY Pow2Unfold
  <2> QED
    BY <2>1
<1>2. ASSUME NEW i \in Nat, i \in E
      PROVE  i + 1 \in E
  <2> SUFFICES ASSUME NEW n \in Nat, i + 1 <= TrailingOnes[n]
               PROVE  \E q \in Nat : n = q * Pow2[i + 1] + (Pow2[i + 1] - 1)
    OBVIOUS
  <2> DEFINE m == n \div 2
             b == n % 2
  <2>1. m \in Nat /\ b \in {0, 1} /\ n = 2 * m + b
    BY Halving
  <2>2. /\ b = 0 => TrailingOnes[n] = 0
        /\ b = 1 => TrailingOnes[n] = 1 + TrailingOnes[m]
    BY TrailingOnesUnfold
  <2>3. TrailingOnes[m] \in Nat
    BY <2>1, TrailingOnesUnfold
  <2> HIDE DEF m, b
  <2>4. b = 1 /\ i <= TrailingOnes[m]
    BY <2>1, <2>2, <2>3
  <2>5. PICK q \in Nat : m = q * Pow2[i] + (Pow2[i] - 1)
    BY <1>2, <2>1, <2>4
  <2>6. Pow2[i + 1] = 2 * Pow2[i] /\ Pow2[i] \in Nat
    BY Pow2Unfold
  <2>7. q * (2 * Pow2[i]) = 2 * (q * Pow2[i]) /\ q * Pow2[i] \in Nat
    BY <2>6
  <2>8. n = q * Pow2[i + 1] + (Pow2[i + 1] - 1)
    BY <2>1, <2>4, <2>5, <2>6, <2>7
  <2> QED
    BY <2>8
<1> HIDE DEF E
<1>3. \A i \in Nat : i \in E
  BY <1>1, <1>2, NatSetInduction
<1> QED
  BY <1>3 DEF E

(* The peak the i-th merge takes: the last node of a block of 2^(i-1)      *)
(* leaves that begins 2^i leaves before the end of the new tree, the left  *)
(* sibling of the node that was pushed last, and the (i-1)-th parent of    *)
(* the last leaf k of that block.                                          *)
LEMMA MergedPeak ==
  ASSUME NEW n \in Nat, NEW i \in 1..TrailingOnes[n]
  PROVE  LET peaks == RsGetPeaks(SizeOfLeaves(n))
             a     == n + 1 - Pow2[i]
             k     == n - Pow2[i - 1]
         IN  /\ i \in Nat /\ a \in Nat /\ Pow2[i] = 2 * Pow2[i - 1]
             /\ Len(peaks) - i + 1 \in DOMAIN peaks
             /\ peaks[Len(peaks) - i + 1] = SizeOfLeaves(n) + 1 + i - Pow2[i]
             /\ k \in Nat /\ k < n /\ i - 1 <= TrailingOnes[k]
             /\ SizeOfLeaves(n) + 1 + i - Pow2[i] = SizeOfLeaves(k) + 1 + (i - 1)
             /\ k + 1 - Pow2[i - 1] = a
<1> DEFINE peaks == RsGetPeaks(SizeOfLeaves(n))
           j == i - 1
           o == Pow2[i] - 1
           a == n + 1 - Pow2[i]
           k == n - Pow2[j]
           p == SizeOfLeaves(n) + 1 + i - Pow2[i]
<1>1. /\ TrailingOnes[n] \in Nat /\ i \in Nat /\ j \in Nat /\ j + 1 = i
      /\ i <= TrailingOnes[n]
  BY TrailingOnesUnfold
<1>2. /\ Pow2[i] = 2 * Pow2[j] /\ Pow2[j] \in Nat /\ Pow2[j] >= 1 /\ Pow2[i] \in Nat
  <2>1. Pow2[j + 1] = 2 * Pow2[j] /\ Pow2[j] >= j + 1 /\ Pow2[j] \in Nat
    BY <1>1, Pow2Unfold, Pow2Exceeds
  <2> QED
    BY <1>1, <2>1
<1> HIDE DEF j
<1>3. PICK q \in Nat : n = q * Pow2[i] + (Pow2[i] - 1)
  BY <1>1, TrailingOnesMultiple
<1>4. a = q * Pow2[i] /\ a \in Nat /\ n = a + o
  BY <1>2, <1>3
<1>5. Multiple(a, i) /\ Multiple(a, j)
  <2>1. Multiple(a, i)
    BY <1>4 DEF Multiple
  <2> QED
    BY <1>1, <1>4, <2>1, MultipleOfLower
<1>6. o \in Nat /\ PopCount[o] = i /\ SizeOfLeaves(o) = 2 * Pow2[i] - 2 - i
  BY <1>1, AllOnesCount
<1>7. /\ PopCount[n] = PopCount[a] + i /\ PopCount[a] \in Nat
  <2>1. o < Pow2[i]
    BY <1>2
  <2>2. /\ PopCount[q * Pow2[i] + o] = PopCount[q] + PopCount[o]
        /\ PopCount[q * Pow2[i] + 0] = PopCount[q] + PopCount[0]
    <3>1. 0 < Pow2[i]
      BY <1>2
    <3> HIDE DEF o
    <3> QED
      BY <1>1, <1>6, <2>1, <3>1, PopCountParts
  <2>3. PopCount[q] \in Nat /\ PopCount[0] = 0 /\ PopCount[a] \in Nat
    BY <1>4, PopCountUnfold
  <2> HIDE DEF o, a
  <2>4. q * Pow2[i] + 0 = a /\ q * Pow2[i] + o = n
    BY <1>4
  <2> QED
    BY <1>6, <2>2, <2>3, <2>4
<1>8. SizeOfLeaves(n) = SizeOfLeaves(a) + SizeOfLeaves(o)
  <2>1. o < Pow2[i]
    BY <1>2
  <2> QED
    BY <1>1, <1>4, <1>5, <1>6, <2>1, SizeBehind
<1>9. SizeOfLeaves(a) \in Nat
  BY <1>4, SizeOfLeavesBounds
<1>10. Block(n, a, j)
  <2>1. a + Pow2[j] <= n /\ n < a + Pow2[i]
    BY <1>2, <1>4
  <2> QED
    BY <1>1, <1>5, <2>1 DEF Block
<1>11. k = a + (Pow2[j] - 1) /\ k \in Nat /\ k < n
  BY <1>2, <1>4
<1>12. /\ Pow2[j] - 1 \in Nat /\ SizeOfLeaves(Pow2[j] - 1) = 2 * Pow2[j] - 2 - j
  BY <1>1, AllOnesCount
<1>13. SizeOfLeaves(k) = SizeOfLeaves(a) + (2 * Pow2[j] - 2 - j)
  <2>1. Pow2[j] - 1 < Pow2[j]
    BY <1>2
  <2>2. SizeOfLeaves(a + (Pow2[j] - 1)) = SizeOfLeaves(a) + SizeOfLeaves(Pow2[j] - 1)
    BY <1>1, <1>4, <1>5, <1>12, <2>1, SizeBehind
  <2> QED
    BY <1>11, <1>12, <2>2
<1>14. j <= TrailingOnes[k]
  <2>1. PICK r \in Nat : a = r * Pow2[j]
    BY <1>5 DEF Multiple
  <2> QED
    BY <1>1, <1>11, <2>1, TrailingOnesBehind
<1>15. SizeOfLeaves(a + Pow2[j]) = SizeOfLeaves(k) + 1 + j
  <2>1. k + 1 = a + Pow2[j] /\ a + Pow2[j] \in Nat
    BY <1>2, <1>4, <1>11
  <2>2. SizeOfLeaves(k + 1) = SizeOfLeaves(k) + 1 + TrailingOnes[k]
    BY <1>11, SizeSuccessor
  <2>3. TrailingOnes[k] = j
    <3>1. PopCount[k + 1] + TrailingOnes[k] = PopCount[k] + 1
      BY <1>11, PopCountSuccessor
    <3>2. PICK r \in Nat : a = r * Pow2[i]
      BY <1>5 DEF Multiple
    <3>3. Pow2[j] - 1 < Pow2[i] /\ Pow2[j] < Pow2[i]
      BY <1>2
    <3>4. /\ PopCount[r * Pow2[i] + (Pow2[j] - 1)] = PopCount[r] + PopCount[Pow2[j] - 1]
          /\ PopCount[r * Pow2[i] + Pow2[j]] = PopCount[r] + PopCount[Pow2[j]]
      <4> DEFINE w == Pow2[j] - 1
             v == Pow2[j]
      <4>1. w \in Nat /\ w < Pow2[i] /\ v \in Nat /\ v < Pow2[i]
        BY <1>2, <1>12, <3>3
      <4> HIDE DEF w, v
      <4>2. PopCount[r * Pow2[i] + w] = PopCount[r] + PopCount[w]
        BY <1>1, <4>1, PopCountParts
      <4>3. PopCount[r * Pow2[i] + v] = PopCount[r] + PopCount[v]
        BY <1>1, <4>1, PopCountParts
      <4> QED
        BY <4>2, <4>3 DEF w, v
    <3>5. PopCount[Pow2[j] - 1] = j
      BY <1>1, AllOnesCount
    <3>6. PopCount[Pow2[j]] = 1
      BY <1>1, PopCountPow2
    <3>7. PopCount[r] \in Nat /\ TrailingOnes[k] \in Nat
      BY <1>11, PopCountUnfold, TrailingOnesUnfold
    <3>8. PopCount[k] = PopCount[r] + j /\ PopCount[k + 1] = PopCount[r] + 1
      BY <1>11, <2>1, <3>2, <3>4, <3>5, <3>6
    <3> QED
      BY <1>1, <3>1, <3>7, <3>8
  <2> QED
    BY <2>1, <2>2, <2>3
<1>16. p = SizeOfLeaves(k) + 1 + j
  <2> HIDE DEF a, k, o
  <2> QED
    BY <1>1, <1>2, <1>6, <1>8, <1>9, <1>13
<1>17. /\ Len(peaks) = PopCount[n]
       /\ PopCount[a] + 1 \in DOMAIN peaks
       /\ peaks[PopCount[a] + 1] = SizeOfLeaves(a + Pow2[j])
  <2>1. Len(peaks) = PopCount[n]
    BY GetPeaksOfLeaves
  <2>2. \A e, g \in Nat : Block(n, e, g) =>
           /\ PopCount[e] + 1 \in DOMAIN peaks
           /\ peaks[PopCount[e] + 1] = SizeOfLeaves(e + Pow2[g])
    BY PeaksOfBlocks
  <2>3. a \in Nat /\ j \in Nat /\ Block(n, a, j)
    BY <1>1, <1>4, <1>10
  <2> HIDE DEF peaks, a
  <2> QED
    BY <2>1, <2>2, <2>3
<1>18. Len(peaks) - i + 1 = PopCount[a] + 1
  <2> HIDE DEF a, peaks
  <2> QED
    BY <1>1, <1>7, <1>17
<1>19. k + 1 - Pow2[j] = a
  BY <1>2, <1>4, <1>11
<1> QED
  BY <1>1, <1>2, <1>4, <1>11, <1>14, <1>15, <1>16, <1>17, <1>18, <1>19 DEF j

(* A peak at or below the size the MMR had was a peak then: a block that   *)
(* was complete has been there since.                                      *)
LEMMA OldPeak ==
  ASSUME NEW n \in Nat, NEW c \in Nat, c <= n,
         NEW i \in DOMAIN RsGetPeaks(SizeOfLeaves(n)),
         RsGetPeaks(SizeOfLeaves(n))[i] <= SizeOfLeaves(c)
  PROVE  \E l \in DOMAIN RsGetPeaks(SizeOfLeaves(c)) :
           RsGetPeaks(SizeOfLeaves(c))[l] = RsGetPeaks(SizeOfLeaves(n))[i]
<1>1. PICK a, j \in Nat : Block(n, a, j) /\ PopCount[a] + 1 = i
  BY PeaksOfBlocks
<1>2. RsGetPeaks(SizeOfLeaves(n))[i] = SizeOfLeaves(a + Pow2[j])
  BY <1>1, PeaksOfBlocks
<1>3. a + Pow2[j] \in Nat /\ Pow2[j + 1] \in Nat
  BY Pow2Unfold
<1>4. a + Pow2[j] <= c
  <2>1. CASE c < a + Pow2[j]
    <3>1. SizeOfLeaves(c) < SizeOfLeaves(a + Pow2[j])
      BY <1>3, <2>1, SizeStrict
    <3>2. SizeOfLeaves(c) \in Nat /\ SizeOfLeaves(a + Pow2[j]) \in Nat
      BY <1>3, SizeOfLeavesBounds
    <3> QED
      BY <1>2, <3>1, <3>2
  <2> QED
    BY <1>3, <2>1
<1>5. Block(c, a, j)
  BY <1>1, <1>3, <1>4 DEF Block
<1>6. /\ PopCount[a] + 1 \in DOMAIN RsGetPeaks(SizeOfLeaves(c))
      /\ RsGetPeaks(SizeOfLeaves(c))[PopCount[a] + 1] = SizeOfLeaves(a + Pow2[j])
  BY <1>5, PeaksOfBlocks
<1> QED
  BY <1>2, <1>6

(* Peaks are nodes of the MMR.                                             *)
LEMMA PeakInside ==
  ASSUME NEW n \in Nat, NEW i \in DOMAIN RsGetPeaks(SizeOfLeaves(n))
  PROVE  RsGetPeaks(SizeOfLeaves(n))[i] \in 1..SizeOfLeaves(n)
<1>1. PICK a, j \in Nat : Block(n, a, j) /\ PopCount[a] + 1 = i
  BY PeaksOfBlocks
<1>2. RsGetPeaks(SizeOfLeaves(n))[i] = SizeOfLeaves(a + Pow2[j])
  BY <1>1, PeaksOfBlocks
<1>3. Pow2[j] \in Nat /\ Pow2[j] >= 1
  BY Pow2Unfold, Pow2Exceeds
<1>4. a + Pow2[j] \in Nat /\ a + Pow2[j] >= 1 /\ a + Pow2[j] <= n
  BY <1>1, <1>3 DEF Block
<1>5. /\ SizeOfLeaves(a + Pow2[j]) <= SizeOfLeaves(n)
      /\ SizeOfLeaves(a + Pow2[j]) \in Nat
      /\ a + Pow2[j] <= SizeOfLeaves(a + Pow2[j])
      /\ SizeOfLeaves(n) \in Nat
  BY <1>4, SizeMonotone, SizeOfLeavesBounds
<1> QED
  BY <1>2, <1>4, <1>5

(* The peak over a block is the topmost node its last leaf brought.        *)
LEMMA PeakIsRoot ==
  ASSUME NEW n \in Nat, NEW a \in Nat, NEW j \in Nat, Block(n, a, j),
         NEW k, k = a + Pow2[j] - 1
  PROVE  /\ k \in 0..(n - 1) /\ j \in 0..TrailingOnes[k]
         /\ SizeOfLeaves(a + Pow2[j]) = SizeOfLeaves(k) + 1 + j
         /\ k + 1 - Pow2[j] = a
<1> DEFINE e == Pow2[j]
           p == SizeOfLeaves(a + e)
<1>1. e \in Nat /\ e >= 1 /\ Pow2[j + 1] = 2 * e /\ e < Pow2[j + 1] /\ e <= e
  BY Pow2Unfold, Pow2Exceeds
<1>2. k \in Nat /\ k + 1 = a + e /\ a + e <= n /\ k + 1 - e = a /\ a + e \in Nat
  BY <1>1 DEF Block
<1>3. HasHeight(p, j) /\ p \in Nat
  <2> DEFINE q == SizeOfLeaves(a) + TreeSize(j)
             h == j + 1
  <2>1. Multiple(a, h) /\ h \in Nat
    BY DEF Block
  <2>2. e < Pow2[h]
    BY <1>1
  <2>3. HasHeight(q, j) /\ q = SizeOfLeaves(a + e) /\ q \in Nat
    <3> HIDE DEF q, h
    <3>1. q = SizeOfLeaves(a) + TreeSize(j) /\ e < Pow2[j + 1]
      BY <1>1 DEF q
    <3>2. Multiple(a, h) /\ e < Pow2[h] /\ h \in Nat
      BY <2>1, <2>2
    <3>3. q = SizeOfLeaves(a) + TreeSize(j)
      BY DEF q
    <3> QED
      BY <1>1, <3>1, <3>2, <3>3, NextPeak
  <2> QED
    BY <2>3
<1> HIDE DEF p, e
<1>4. PICK l \in 0..p : p = SizeOfLeaves(l) + 1 + j /\ j <= TrailingOnes[l]
  BY <1>3 DEF HasHeight
<1>5. l \in Nat /\ TrailingOnes[l] \in Nat /\ SizeOfLeaves(l) \in Nat
      /\ l + 1 \in Nat
  BY <1>3, <1>4, TrailingOnesUnfold, SizeOfLeavesBounds
<1>6. SizeOfLeaves(l + 1) = SizeOfLeaves(l) + 1 + TrailingOnes[l]
  BY <1>5, SizeSuccessor
<1>7. l < a + e
  <2> SUFFICES ASSUME ~(l < a + e) PROVE FALSE
    OBVIOUS
  <2>1. a + e <= l
    BY <1>2, <1>5
  <2>2. p <= SizeOfLeaves(l)
    BY <1>2, <1>5, <2>1, SizeMonotone DEF p
  <2> QED
    BY <1>3, <1>4, <1>5, <2>2
<1>8. ~(l + 1 < a + e)
  <2> SUFFICES ASSUME l + 1 < a + e PROVE FALSE
    OBVIOUS
  <2>1. SizeOfLeaves(l + 1) < p
    BY <1>2, <1>5, SizeStrict DEF p
  <2> QED
    BY <1>3, <1>4, <1>5, <1>6, <2>1
<1>9. l = k
  BY <1>2, <1>5, <1>7, <1>8
<1>10. p = SizeOfLeaves(k) + 1 + j /\ j <= TrailingOnes[k] /\ TrailingOnes[k] \in Nat
  BY <1>4, <1>5, <1>9
<1>11. k \in 0..(n - 1) /\ j \in 0..TrailingOnes[k]
  BY <1>2, <1>10
<1> QED
  BY <1>2, <1>10, <1>11 DEF e, p

(* The largest tree of the last r leaves, when they are whole blocks: the  *)
(* first of as many peaks as r has ones.                                   *)
LEMMA LastBlocks ==
  ASSUME NEW n \in Nat, NEW r \in 1..n, NEW b \in Nat, r < Pow2[b],
         Multiple(n - r, b), NEW j, j = BitLength(r) - 1
  PROVE  /\ j \in Nat /\ Block(n, n - r, j)
         /\ r - Pow2[j] \in Nat /\ r - Pow2[j] < r /\ r - Pow2[j] < Pow2[j]
         /\ Multiple(n - (r - Pow2[j]), j)
         /\ n - (r - Pow2[j]) = (n - r) + Pow2[j]
         /\ PopCount[r] = PopCount[r - Pow2[j]] + 1
         /\ PopCount[n] = PopCount[n - r] + PopCount[r]
<1> DEFINE a == n - r
           e == Pow2[j]
           s == r - e
<1>1. r \in Nat /\ r > 0 /\ a \in Nat /\ a + r = n
  OBVIOUS
<1>2. j \in Nat /\ e <= r /\ r < Pow2[j + 1]
  <2>1. /\ BitLength(r) \in Nat /\ r < Pow2[BitLength(r)]
        /\ BitLength(r) >= 1 /\ Pow2[BitLength(r) - 1] <= r
    BY <1>1, BitLengthSpec
  <2>2. j + 1 = BitLength(r)
    BY <2>1
  <2> QED
    BY <2>1, <2>2
<1>3. e \in Nat /\ e >= 1 /\ Pow2[j + 1] = 2 * e
  BY <1>2, Pow2Unfold, Pow2Exceeds
<1>4. /\ j < b /\ a + e \in Nat /\ Multiple(a + e, j) /\ s \in Nat /\ s < e
  <2> DEFINE p == SizeOfLeaves(a) + TreeSize(j)
  <2>1. p = SizeOfLeaves(a) + TreeSize(j)
    OBVIOUS
  <2>2. Multiple(a, b)
    OBVIOUS
  <2> HIDE DEF p, a
  <2> QED
    BY <1>1, <1>2, <2>1, <2>2, NextPeak
<1>5. Multiple(a, j + 1)
  BY <1>1, <1>2, <1>4, MultipleOfLower
<1> HIDE DEF a, e, s
<1>6. Block(n, a, j)
  BY <1>1, <1>2, <1>3, <1>5 DEF Block, e
<1>7. s < r /\ n - s = a + e
  BY <1>1, <1>2, <1>3, <1>4 DEF s
<1>8. PopCount[r] = PopCount[s] + 1
  <2>1. s + Pow2[j] = r
    BY <1>1, <1>3 DEF s, e
  <2>2. s < Pow2[j]
    BY <1>4 DEF e
  <2>3. PopCount[s + Pow2[j]] = PopCount[s] + 1
    BY <1>2, <1>4, <2>2, PopCountTopBit
  <2> QED
    BY <2>1, <2>3
<1>9. PopCount[n] = PopCount[a] + PopCount[r]
  <2>1. PICK q \in Nat : a = q * Pow2[b]
    BY DEF Multiple, a
  <2>2. PopCount[q * Pow2[b] + r] = PopCount[q] + PopCount[r]
    BY <1>1, PopCountParts
  <2>3. 0 \in Nat /\ 0 < Pow2[b]
    BY Pow2Unfold, Pow2Exceeds
  <2>4. PopCount[q * Pow2[b] + 0] = PopCount[q] + PopCount[0]
    BY <2>3, PopCountParts
  <2>5. q * Pow2[b] + 0 = a /\ q * Pow2[b] + r = n
    <3> DEFINE x == q * Pow2[b]
    <3> HIDE DEF x
    <3>1. a = x
      BY <2>1 DEF x
    <3>2. x + 0 = a /\ x + r = n
      BY <1>1, <3>1
    <3> QED
      BY <3>2 DEF x
  <2>6. PopCount[q] \in Nat /\ PopCount[0] = 0
    BY PopCountUnfold
  <2> QED
    BY <2>2, <2>4, <2>5, <2>6
<1>10. Multiple(n - s, j)
  BY <1>4, <1>7
<1>11. s \in Nat /\ s < r /\ s < e
  BY <1>4, <1>7
<1> QED
  BY <1>2, <1>6, <1>7, <1>8, <1>9, <1>10, <1>11 DEF a, e, s

-----------------------------------------------------------------------------
(* Every value with these m places is a function of them.                  *)
IsRow(f, m) == f = [i \in 1..m |-> f[i]]

(* Appending m values to a sequence gives a sequence.                      *)
LEMMA Extend ==
  ASSUME NEW S, NEW s \in Seq(S), NEW m \in Nat, NEW f, IsRow(f, m)
  PROVE  /\ \E T : s \o f \in Seq(T)
         /\ Len(s \o f) = Len(s) + m
         /\ \A i \in 1..Len(s) : (s \o f)[i] = s[i]
         /\ \A i \in 1..m : (s \o f)[Len(s) + i] = f[i]
<1> DEFINE T == S \cup {f[i] : i \in 1..m}
<1>1. s \in Seq(T)
  BY SeqMonotonic
<1>2. f \in [1..m -> T]
  BY DEF IsRow
<1>3. f \in Seq(T) /\ Len(f) = m
  <2>1. f \in Seq(T)
    <3> HIDE DEF T
    <3> QED
      BY <1>2, SeqDef
  <2>2. Len(f) \in Nat /\ DOMAIN f = 1..Len(f)
    BY <2>1, LenProperties
  <2> QED
    BY <1>2, <2>1, <2>2
<1> HIDE DEF T
<1>4. /\ s \o f \in Seq(T) /\ Len(s \o f) = Len(s) + m
      /\ \A i \in 1..(Len(s) + m) :
           (s \o f)[i] = IF i <= Len(s) THEN s[i] ELSE f[i - Len(s)]
  BY <1>1, <1>3, ConcatProperties
<1>5. Len(s) \in Nat
  BY <1>1, LenProperties
<1>6. ASSUME NEW i \in 1..m
      PROVE  (s \o f)[Len(s) + i] = f[i]
  <2>1. Len(s) + i \in 1..(Len(s) + m) /\ ~(Len(s) + i <= Len(s))
        /\ (Len(s) + i) - Len(s) = i
    BY <1>5
  <2> QED
    BY <1>4, <2>1
<1>7. ASSUME NEW i \in 1..Len(s)
      PROVE  (s \o f)[i] = s[i]
  BY <1>4, <1>5
<1> QED
  BY <1>4, <1>6, <1>7

LEMMA RowIsSequence ==
  ASSUME NEW m \in Nat, NEW f, IsRow(f, m)
  PROVE  /\ \E T : f \in Seq(T)
         /\ Len(f) = m
<1> DEFINE T == {f[i] : i \in 1..m}
<1>1. f \in [1..m -> T]
  BY DEF IsRow
<1> HIDE DEF T
<1>2. f \in Seq(T)
  BY <1>1, SeqDef
<1>3. Len(f) \in Nat /\ DOMAIN f = 1..Len(f)
  BY <1>2, LenProperties
<1> QED
  BY <1>1, <1>2, <1>3

-----------------------------------------------------------------------------
(* Looking at the height of the next position finds the trailing ones of   *)
(* the leaf count: after m parents of the leaf n the next node is higher   *)
(* exactly when it is one more parent.                                     *)
NextIsNoParent(pos, m) ==
  /\ Height[pos + m + 1] <= m
  /\ \A i \in 0..(m - 1) : Height[pos + i + 1] > i

LEMMA HeightsBehindLeaf ==
  ASSUME NEW n \in Nat
  PROVE  /\ \A i \in 0..TrailingOnes[n] : Height[SizeOfLeaves(n) + 1 + i] = i
         /\ Height[SizeOfLeaves(n) + 1 + TrailingOnes[n] + 1] = 0
<1> DEFINE S == SizeOfLeaves(n)
           m == TrailingOnes[n]
<1>1. S \in Nat /\ n <= S /\ m \in Nat
  BY SizeOfLeavesBounds, TrailingOnesUnfold
<1>2. ASSUME NEW i \in 0..m
      PROVE  Height[S + 1 + i] = i
  <2>1. S + 1 + i \in Nat \ {0} /\ i \in Nat /\ i <= m /\ n \in 0..(S + 1 + i)
    BY <1>1
  <2>2. HasHeight(S + 1 + i, i)
    BY <2>1 DEF HasHeight
  <2> HIDE DEF S
  <2> QED
    BY <2>1, <2>2, HeightIs
<1>3. Height[S + 1 + m + 1] = 0
  <2> DEFINE k == n + 1
             p == S + 1 + m + 1
  <2>1. SizeOfLeaves(k) = S + 1 + m
    BY SizeSuccessor
  <2>2. k \in Nat /\ k <= SizeOfLeaves(k)
    BY SizeOfLeavesBounds
  <2>3. p \in Nat \ {0} /\ 0 \in Nat /\ k \in 0..p /\ p = SizeOfLeaves(k) + 1 + 0
    BY <1>1, <2>1, <2>2
  <2>4. TrailingOnes[k] \in Nat
    BY <2>2, TrailingOnesUnfold
  <2> HIDE DEF p, k
  <2>5. HasHeight(p, 0)
    BY <2>3, <2>4 DEF HasHeight
  <2>6. Height[p] = 0
    BY <2>3, <2>5, HeightIs
  <2> QED
    BY <2>6 DEF p
<1> QED
  BY <1>2, <1>3

LEMMA MergesOfLeaf ==
  ASSUME NEW n \in Nat, NEW m \in Nat
  PROVE  /\ NextIsNoParent(SizeOfLeaves(n) + 1, m) <=> m = TrailingOnes[n]
         /\ TrailingOnes[n] \in 0..(SizeOfLeaves(n) + 1)
<1> DEFINE S == SizeOfLeaves(n)
           T == TrailingOnes[n]
           p == S + 1
<1>1. S \in Nat /\ n <= S /\ T \in Nat /\ T <= PopCount[n] /\ PopCount[n] <= n
      /\ PopCount[n] \in Nat
  BY SizeOfLeavesBounds, TrailingOnesBound, PopCountBounds, PopCountUnfold
<1>2. /\ \A i \in 0..T : Height[p + i] = i
      /\ Height[p + T + 1] = 0
  BY HeightsBehindLeaf
<1>3. p \in Nat
  BY <1>1
<1> HIDE DEF p, T, S
<1>4. ASSUME NEW i \in Nat, i < T
      PROVE  Height[p + i + 1] = i + 1
  <2>1. i + 1 \in 0..T /\ p + (i + 1) = p + i + 1
    BY <1>1, <1>3, <1>4
  <2> QED
    BY <1>2, <2>1
<1>5. NextIsNoParent(p, T)
  <2>1. \A i \in 0..(T - 1) : i \in Nat /\ i < T /\ i + 1 > i
    BY <1>1
  <2> QED
    BY <1>1, <1>2, <1>4, <2>1 DEF NextIsNoParent
<1>6. ASSUME NextIsNoParent(p, m), m < T
      PROVE  FALSE
  <2>1. Height[p + m + 1] = m + 1
    BY <1>4, <1>6
  <2> QED
    BY <1>6, <2>1 DEF NextIsNoParent
<1>7. ASSUME NextIsNoParent(p, m), T < m
      PROVE  FALSE
  <2>1. T \in 0..(m - 1)
    BY <1>1, <1>7
  <2>2. Height[p + T + 1] > T
    BY <1>7, <2>1 DEF NextIsNoParent
  <2> QED
    BY <1>1, <1>2, <2>2
<1>8. T \in 0..p
  BY <1>1, <1>3 DEF p
<1> QED
  BY <1>1, <1>5, <1>6, <1>7, <1>8 DEF p, T, S

-----------------------------------------------------------------------------
(* get_peaks of mmr.py finds the same nodes, numbered from 0.              *)

(* The moves to left children, one level at a time.                        *)
HeightAndPos == (Nat \X Int) \cup {NoPeak}

DownLevel(size, h, below) ==
  [pos \in Int |->
     IF pos <= size - 1 THEN <<h, pos>>
     ELSE IF h = 0 THEN NoPeak ELSE below[pos - Pow2[h]]]

LEMMA PyDescendUnfold ==
  ASSUME NEW size \in Int
  PROVE  /\ \A h \in Nat : PyDescend(size)[h] \in [Int -> HeightAndPos]
         /\ PyDescend(size)[0] = DownLevel(size, 0, <<>>)
         /\ \A h \in Nat : PyDescend(size)[h + 1]
                             = DownLevel(size, h + 1, PyDescend(size)[h])
<1> DEFINE S == [Int -> HeightAndPos]
           first == DownLevel(size, 0, <<>>)
           next == [h \in Nat |-> [g \in S |-> DownLevel(size, h, g)]]
<1>1. first \in S
  BY DEF DownLevel, HeightAndPos, NoPeak
<1>2. ASSUME NEW h \in Nat, NEW g \in S
      PROVE  DownLevel(size, h, g) \in S
  <2>1. Pow2[h] \in Nat
    BY Pow2Unfold
  <2>2. \A pos \in Int : g[pos - Pow2[h]] \in HeightAndPos
    BY <2>1
  <2>3. \A pos \in Int : <<h, pos>> \in HeightAndPos
    BY DEF HeightAndPos
  <2>4. NoPeak \in HeightAndPos
    BY DEF HeightAndPos, NoPeak
  <2> QED
    BY <2>2, <2>3, <2>4 DEF DownLevel
<1>3. next \in [Nat -> [S -> S]]
  BY <1>2
<1>4. PICK f : f \in [Nat -> S] /\ f[0] = first
                /\ \A n \in Nat : f[n + 1] = next[n + 1][f[n]]
  <2> HIDE DEF S, first, next
  <2>1. \E f : Iterates(f, S, first, next)
    BY <1>1, <1>3, PrimitiveRecursion
  <2> QED
    BY <2>1 DEF Iterates
<1>5. \A n \in Nat : f[n + 1] = DownLevel(size, n + 1, f[n])
  <2> TAKE n \in Nat
  <2>1. f[n] \in S /\ n + 1 \in Nat
    BY <1>4
  <2> QED
    BY <1>4, <2>1
<1> DEFINE Level(g, h) ==
             [pos \in Int |->
                IF pos <= size - 1 THEN <<h, pos>>
                ELSE IF h = 0 THEN NoPeak ELSE g[h - 1][pos - Pow2[h]]]
<1>6. ASSUME NEW h \in Nat
      PROVE  f[h] = Level(f, h)
  <2>1. CASE h = 0
    BY <1>4, <2>1 DEF DownLevel
  <2>2. CASE h # 0
    <3>1. h - 1 \in Nat /\ (h - 1) + 1 = h
      BY <2>2
    <3>2. f[(h - 1) + 1] = DownLevel(size, (h - 1) + 1, f[h - 1])
      BY <1>5, <3>1
    <3>3. f[h] = DownLevel(size, h, f[h - 1])
      BY <3>1, <3>2
    <3> QED
      BY <2>2, <3>3 DEF DownLevel
  <2> QED
    BY <2>1, <2>2
<1>7. f = [h \in Nat |-> Level(f, h)]
  <2> HIDE DEF Level, S, first, next
  <2>1. f \in [Nat -> S]
    BY <1>4
  <2> QED
    BY <1>6, <2>1
<1>8. PyDescend(size) = [h \in Nat |-> Level(PyDescend(size), h)]
  BY <1>7, Zenon DEF PyDescend
<1> DEFINE D == PyDescend(size)
<1>9. /\ D[0] = DownLevel(size, 0, <<>>)
      /\ \A h \in Nat : D[h + 1] = DownLevel(size, h + 1, D[h])
  <2> HIDE DEF D
  <2>1. D = [h \in Nat |-> Level(D, h)]
    BY <1>8 DEF D
  <2>2. D[0] = DownLevel(size, 0, <<>>)
    BY <2>1 DEF DownLevel
  <2>3. ASSUME NEW h \in Nat
        PROVE  D[h + 1] = DownLevel(size, h + 1, D[h])
    <3>1. h + 1 \in Nat /\ h + 1 # 0 /\ (h + 1) - 1 = h
      OBVIOUS
    <3>2. D[h + 1] = Level(D, h + 1)
      <4> HIDE DEF Level
      <4> QED
        BY <2>1, <3>1
    <3> QED
      BY <3>1, <3>2 DEF DownLevel
  <2> QED
    BY <2>2, <2>3
<1>10. \A h \in Nat : D[h] \in S
  <2> DEFINE E == {h \in Nat : D[h] \in S}
  <2>1. 0 \in E
    BY <1>1, <1>9
  <2>2. ASSUME NEW h \in Nat, h \in E
        PROVE  h + 1 \in E
    <3>1. h + 1 \in Nat
      OBVIOUS
    <3> HIDE DEF D, S
    <3> QED
      BY <1>2, <1>9, <2>2, <3>1
  <2> HIDE DEF E
  <2>3. \A h \in Nat : h \in E
    BY <2>1, <2>2, NatSetInduction
  <2> QED
    BY <2>3 DEF E
<1> QED
  BY <1>9, <1>10

(* Where the root of a tree of height h would be behind the first base     *)
(* nodes, with r < 2^(h+1) leaves there, the moves end at the root of the  *)
(* largest tree of these leaves.                                           *)
DescentFinds(h, base, r) ==
  PyDescend(base + SizeOfLeaves(r))[h][base + TreeSize(h) - 1]
    = IF r = 0 THEN NoPeak
      ELSE <<BitLength(r) - 1, base + TreeSize(BitLength(r) - 1) - 1>>

LEMMA PyDescentFinds ==
  \A h \in Nat : \A base \in Nat : \A r \in Nat :
    r < Pow2[h + 1] => DescentFinds(h, base, r)
<1> DEFINE E == {h \in Nat : \A base \in Nat : \A r \in Nat :
                   r < Pow2[h + 1] => DescentFinds(h, base, r)}
<1>1. ASSUME NEW h \in Nat, NEW base \in Nat, NEW r \in Nat, r < Pow2[h + 1]
      PROVE  LET size == base + SizeOfLeaves(r)
                 pos  == base + TreeSize(h) - 1
             IN  /\ size \in Int /\ pos \in Int
                 /\ pos <= size - 1 <=> Pow2[h] <= r
                 /\ Pow2[h] <= r => r # 0 /\ BitLength(r) - 1 = h
  <2>1. /\ TreeSize(h) \in Nat /\ SizeOfLeaves(r) \in Nat
        /\ Pow2[h] \in Nat /\ Pow2[h] >= 1
    <3>1. /\ Pow2[h] \in Nat /\ Pow2[h] >= 1 /\ Pow2[h + 1] = 2 * Pow2[h]
          /\ SizeOfLeaves(r) \in Nat
      BY Pow2Unfold, Pow2Exceeds, SizeOfLeavesBounds
    <3> QED
      BY <3>1 DEF TreeSize
  <2>2. Pow2[h] <= r <=> TreeSize(h) <= SizeOfLeaves(r)
    BY BlockFits
  <2>3. ASSUME Pow2[h] <= r
        PROVE  BitLength(r) = h + 1
    <3>1. h + 1 \in Nat /\ h + 1 > 0 /\ (h + 1) - 1 = h
      OBVIOUS
    <3>2. Pow2[(h + 1) - 1] <= r
      BY <2>3, <3>1
    <3> QED
      BY <1>1, <3>1, <3>2, BitLengthUnique
  <2> HIDE DEF TreeSize, SizeOfLeaves
  <2> QED
    BY <2>1, <2>2, <2>3
<1>2. ASSUME NEW h \in Nat, NEW base \in Nat, NEW r \in Nat, Pow2[h] <= r,
             r < Pow2[h + 1],
             NEW below,
             PyDescend(base + SizeOfLeaves(r))[h]
               = DownLevel(base + SizeOfLeaves(r), h, below)
      PROVE  DescentFinds(h, base, r)
  <2> DEFINE size == base + SizeOfLeaves(r)
             pos == base + TreeSize(h) - 1
  <2>1. /\ pos \in Int /\ pos <= size - 1
        /\ r # 0 /\ BitLength(r) - 1 = h
    BY <1>1, <1>2
  <2>2. PyDescend(size)[h][pos] = <<h, pos>>
    <3> HIDE DEF pos
    <3> QED
      BY <1>2, <2>1 DEF DownLevel
  <2> QED
    BY <2>1, <2>2 DEF DescentFinds
<1>3. 0 \in E
  <2> SUFFICES ASSUME NEW base \in Nat, NEW r \in Nat, r < Pow2[0 + 1]
               PROVE  DescentFinds(0, base, r)
    OBVIOUS
  <2> DEFINE size == base + SizeOfLeaves(r)
             pos == base + TreeSize(0) - 1
  <2>1. /\ size \in Int /\ pos \in Int
        /\ pos <= size - 1 <=> Pow2[0] <= r
    BY <1>1
  <2>2. Pow2[0] = 1
    BY Pow2Unfold
  <2>3. PyDescend(size)[0] = DownLevel(size, 0, <<>>)
    BY <2>1, PyDescendUnfold
  <2>4. CASE Pow2[0] <= r
    BY <1>2, <2>3, <2>4
  <2>5. CASE ~(Pow2[0] <= r)
    <3>1. r = 0
      BY <2>2, <2>5
    <3>2. PyDescend(size)[0][pos] = NoPeak
      <4> HIDE DEF pos
      <4> QED
        BY <2>1, <2>3, <2>5 DEF DownLevel
    <3> QED
      BY <3>1, <3>2 DEF DescentFinds
  <2> QED
    BY <2>4, <2>5
<1>4. ASSUME NEW h \in Nat, h \in E
      PROVE  h + 1 \in E
  <2> SUFFICES ASSUME NEW base \in Nat, NEW r \in Nat, r < Pow2[(h + 1) + 1]
               PROVE  DescentFinds(h + 1, base, r)
    OBVIOUS
  <2> DEFINE g == h + 1
             size == base + SizeOfLeaves(r)
             pos == base + TreeSize(g) - 1
  <2>1. g \in Nat /\ g # 0
    OBVIOUS
  <2>2. /\ size \in Int /\ pos \in Int
        /\ pos <= size - 1 <=> Pow2[g] <= r
    BY <1>1, <2>1
  <2>3. PyDescend(size)[g] = DownLevel(size, g, PyDescend(size)[h])
    BY <2>2, PyDescendUnfold
  <2>4. CASE Pow2[g] <= r
    BY <1>2, <2>1, <2>3, <2>4
  <2>5. CASE ~(Pow2[g] <= r)
    <3>1. r < Pow2[h + 1]
      BY <2>5, Pow2Unfold
    <3>2. DescentFinds(h, base, r)
      BY <1>4, <3>1
    <3>3. pos - Pow2[g] = base + TreeSize(h) - 1
      <4>1. Pow2[g + 1] = 2 * Pow2[g] /\ Pow2[g] \in Nat
        BY <2>1, Pow2Unfold
      <4>2. TreeSize(g) = 2 * Pow2[g] - 1 /\ TreeSize(h) = Pow2[g] - 1
        BY <4>1 DEF TreeSize
      <4> HIDE DEF g
      <4> QED
        BY <4>1, <4>2
    <3>4. PyDescend(size)[g][pos] = PyDescend(size)[h][pos - Pow2[g]]
      <4> HIDE DEF pos, g
      <4> QED
        BY <2>1, <2>2, <2>3, <2>5 DEF DownLevel
    <3>5. PyDescend(size)[g][pos] = PyDescend(size)[h][base + TreeSize(h) - 1]
      BY <3>3, <3>4
    <3> QED
      BY <3>2, <3>5 DEF DescentFinds
  <2> QED
    BY <2>4, <2>5
<1> HIDE DEF E
<1>5. \A h \in Nat : h \in E
  BY <1>3, <1>4, NatSetInduction
<1> QED
  BY <1>5 DEF E

(* One turn of the loop of get_peaks.                                      *)
PeakLists == [Nat -> [Int -> Seq(Int)]]

PyTurn(size, below) ==
  [height \in Nat |-> [pos \in Int |->
     IF height = 0 THEN <<>>
     ELSE LET next == GetRightPeak(size, height, pos)
          IN  IF next = NoPeak THEN <<>>
              ELSE <<next[2]>> \o below[next[1]][next[2]]]]

LEMMA PyPeaksFromUnfold ==
  ASSUME NEW size \in Int
  PROVE  /\ \A t \in Nat : PyPeaksFrom(size)[t] \in PeakLists
         /\ \A h \in Nat, pos \in Int : PyPeaksFrom(size)[0][h][pos] = <<>>
         /\ \A t \in Nat : PyPeaksFrom(size)[t + 1] = PyTurn(size, PyPeaksFrom(size)[t])
<1> DEFINE S == PeakLists
           first == [h \in Nat |-> [pos \in Int |-> <<>>]]
           next == [t \in Nat |-> [g \in S |-> PyTurn(size, g)]]
<1>1. first \in S
  BY DEF PeakLists
<1>2. ASSUME NEW g \in S
      PROVE  PyTurn(size, g) \in S
  <2>1. ASSUME NEW height \in Nat, NEW pos \in Int
        PROVE  (IF height = 0 THEN <<>>
                ELSE LET nxt == GetRightPeak(size, height, pos)
                     IN  IF nxt = NoPeak THEN <<>>
                         ELSE <<nxt[2]>> \o g[nxt[1]][nxt[2]]) \in Seq(Int)
    <3> DEFINE nxt == GetRightPeak(size, height, pos)
    <3>1. pos + SiblingOffset(height) \in Int
      BY Pow2Unfold DEF SiblingOffset
    <3>2. nxt \in HeightAndPos
      BY <3>1, PyDescendUnfold DEF GetRightPeak
    <3> HIDE DEF nxt
    <3>3. ASSUME nxt # NoPeak
          PROVE  <<nxt[2]>> \o g[nxt[1]][nxt[2]] \in Seq(Int)
      <4>1. nxt[1] \in Nat /\ nxt[2] \in Int
        BY <3>2, <3>3 DEF HeightAndPos
      <4>2. g[nxt[1]][nxt[2]] \in Seq(Int)
        BY <4>1 DEF PeakLists
      <4> QED
        BY <4>1, <4>2
    <3>4. <<>> \in Seq(Int)
      OBVIOUS
    <3> QED
      BY <3>3, <3>4 DEF nxt
  <2> QED
    BY <2>1 DEF PyTurn, PeakLists
<1>3. next \in [Nat -> [S -> S]]
  BY <1>2
<1>4. PICK f : f \in [Nat -> S] /\ f[0] = first
                /\ \A n \in Nat : f[n + 1] = next[n + 1][f[n]]
  <2> HIDE DEF S, first, next
  <2>1. \E f : Iterates(f, S, first, next)
    BY <1>1, <1>3, PrimitiveRecursion
  <2> QED
    BY <2>1 DEF Iterates
<1>5. \A n \in Nat : f[n + 1] = PyTurn(size, f[n])
  <2> TAKE n \in Nat
  <2>1. f[n] \in S /\ n + 1 \in Nat
    BY <1>4
  <2> QED
    BY <1>4, <2>1
<1> DEFINE Turn(g, t) ==
             [height \in Nat |-> [pos \in Int |->
                IF t = 0 \/ height = 0 THEN <<>>
                ELSE LET nxt == GetRightPeak(size, height, pos)
                     IN  IF nxt = NoPeak THEN <<>>
                         ELSE <<nxt[2]>> \o g[t - 1][nxt[1]][nxt[2]]]]
<1>6. ASSUME NEW t \in Nat, t # 0, NEW g
      PROVE  Turn(g, t) = PyTurn(size, g[t - 1])
  BY <1>6 DEF PyTurn
<1>7. \A g : Turn(g, 0) = first
  OBVIOUS
<1> HIDE DEF Turn
<1>8. ASSUME NEW t \in Nat
      PROVE  f[t] = Turn(f, t)
  <2>1. CASE t = 0
    BY <1>4, <1>7, <2>1
  <2>2. CASE t # 0
    <3>1. t - 1 \in Nat /\ (t - 1) + 1 = t
      BY <2>2
    <3>2. f[(t - 1) + 1] = PyTurn(size, f[t - 1])
      BY <1>5, <3>1
    <3> QED
      BY <1>6, <2>2, <3>1, <3>2
  <2> QED
    BY <2>1, <2>2
<1>9. f = [t \in Nat |-> Turn(f, t)]
  <2> HIDE DEF S, first, next
  <2>1. f \in [Nat -> S]
    BY <1>4
  <2> QED
    BY <1>8, <2>1
<1>10. PyPeaksFrom(size) = [t \in Nat |-> Turn(PyPeaksFrom(size), t)]
  BY <1>9, Zenon DEF PyPeaksFrom, Turn
<1> DEFINE P == PyPeaksFrom(size)
<1> HIDE DEF P
<1>11. P = [t \in Nat |-> Turn(P, t)]
  BY <1>10 DEF P
<1>12. P[0] = first
  BY <1>7, <1>11
<1>13. ASSUME NEW t \in Nat
       PROVE  P[t + 1] = PyTurn(size, P[t])
  <2>1. t + 1 \in Nat /\ t + 1 # 0 /\ (t + 1) - 1 = t
    OBVIOUS
  <2>2. P[t + 1] = Turn(P, t + 1)
    BY <1>11, <2>1
  <2>3. Turn(P, t + 1) = PyTurn(size, P[(t + 1) - 1])
    BY <1>6, <2>1
  <2> QED
    BY <2>1, <2>2, <2>3
<1>14. \A t \in Nat : P[t] \in S
  <2> DEFINE E == {t \in Nat : P[t] \in S}
  <2>1. 0 \in E
    BY <1>1, <1>12
  <2>2. ASSUME NEW t \in Nat, t \in E
        PROVE  t + 1 \in E
    <3>1. t + 1 \in Nat
      OBVIOUS
    <3> HIDE DEF S
    <3> QED
      BY <1>2, <1>13, <2>2, <3>1
  <2> HIDE DEF E
  <2>3. \A t \in Nat : t \in E
    BY <2>1, <2>2, NatSetInduction
  <2> QED
    BY <2>3 DEF E
<1>15. \A h \in Nat, pos \in Int : P[0][h][pos] = <<>>
  BY <1>12
<1> QED
  BY <1>13, <1>14, <1>15 DEF P

(* One turn, given where the moves end.                                    *)
TurnFrom(size, u, t, h, at, next) ==
  /\ next = NoPeak => PyPeaksFrom(size)[t][h][at] = <<>>
  /\ h # 0 /\ next # NoPeak =>
       PyPeaksFrom(size)[t][h][at]
         = <<next[2]>> \o PyPeaksFrom(size)[u][next[1]][next[2]]

LEMMA TurnIs ==
  ASSUME NEW size \in Int, NEW t \in Nat, NEW h \in Nat, NEW at \in Int
  PROVE  TurnFrom(size, t, t + 1, h, at, GetRightPeak(size, h, at))
<1> DEFINE next == GetRightPeak(size, h, at)
<1> DEFINE below == PyPeaksFrom(size)[t]
           Value(height, pos) ==
             IF height = 0 THEN <<>>
             ELSE LET n == GetRightPeak(size, height, pos)
                  IN  IF n = NoPeak THEN <<>>
                      ELSE <<n[2]>> \o below[n[1]][n[2]]
<1>1. PyTurn(size, below) = [height \in Nat |-> [pos \in Int |-> Value(height, pos)]]
  BY DEF PyTurn
<1>2. Value(h, at) = IF h = 0 \/ next = NoPeak THEN <<>>
                     ELSE <<next[2]>> \o below[next[1]][next[2]]
  <2> HIDE DEF below
  <2>1. CASE h = 0
    BY <2>1
  <2>2. CASE h # 0
    <3>1. Value(h, at) = IF next = NoPeak THEN <<>>
                         ELSE <<next[2]>> \o below[next[1]][next[2]]
      BY <2>2, Zenon
    <3> HIDE DEF Value
    <3> QED
      BY <2>2, <3>1
  <2> QED
    BY <2>1, <2>2
<1> HIDE DEF Value, next
<1>3. PyTurn(size, below)[h][at] = Value(h, at)
  BY <1>1
<1>4. PyPeaksFrom(size)[t + 1] = PyTurn(size, below)
  BY PyPeaksFromUnfold
<1> QED
  BY <1>2, <1>3, <1>4 DEF TurnFrom, next

(* Positions numbered from 0.                                              *)
FromZero(poss) == [i \in DOMAIN poss |-> poss[i] - 1]

LEMMA FromZeroConcat ==
  ASSUME NEW x \in Nat, NEW poss \in Seq(Nat)
  PROVE  FromZero(<<x>> \o poss) = <<x - 1>> \o FromZero(poss)
<1> DEFINE n == Len(poss)
           l == <<x>> \o poss
           f == FromZero(poss)
           r == <<x - 1>> \o f
<1>1. /\ n \in Nat /\ l \in Seq(Nat) /\ Len(l) = n + 1
      /\ \A i \in 1..(n + 1) : l[i] = IF i = 1 THEN x ELSE poss[i - 1]
  OBVIOUS
<1>2. f \in Seq(Int) /\ Len(f) = n /\ \A i \in 1..n : f[i] = poss[i] - 1
  BY DEF FromZero
<1> HIDE DEF l, f
<1>3. /\ r \in Seq(Int) /\ Len(r) = n + 1
      /\ \A i \in 1..(n + 1) : r[i] = IF i = 1 THEN x - 1 ELSE f[i - 1]
  BY <1>1, <1>2
<1> HIDE DEF r, n
<1>4. ASSUME NEW i \in 1..(n + 1)
      PROVE  r[i] = l[i] - 1
  <2>1. CASE i = 1
    BY <1>1, <1>3, <2>1
  <2>2. CASE i # 1
    <3>1. i - 1 \in 1..n
      BY <1>1, <2>2
    <3> QED
      BY <1>1, <1>2, <1>3, <2>2, <3>1
  <2> QED
    BY <2>1, <2>2
<1>5. DOMAIN l = 1..(n + 1) /\ r = [i \in 1..(n + 1) |-> r[i]]
  BY <1>1, <1>3
<1>6. FromZero(l) = r
  BY <1>4, <1>5 DEF FromZero
<1> QED
  BY <1>6 DEF l, f, r

(* The loop of get_peaks in mmr.rs skips to the largest tree and takes it. *)
LEMMA RsLoopSplits ==
  \A b \in Nat : \A r \in Nat \ {0} : \A offset \in Nat :
    r < Pow2[b] =>
      LET j == BitLength(r) - 1
      IN  RsPeaksFrom[b][SizeOfLeaves(r)][offset]
            = <<offset + TreeSize(j)>>
                \o RsPeaksFrom[j][SizeOfLeaves(r - Pow2[j])][offset + TreeSize(j)]
<1> DEFINE Split(b, r, offset) ==
             LET j == BitLength(r) - 1
             IN  RsPeaksFrom[b][SizeOfLeaves(r)][offset]
                   = <<offset + TreeSize(j)>>
                       \o RsPeaksFrom[j][SizeOfLeaves(r - Pow2[j])][offset + TreeSize(j)]
           E == {b \in Nat : \A r \in Nat \ {0} : \A offset \in Nat :
                   r < Pow2[b] => Split(b, r, offset)}
<1> HIDE DEF Split
<1>1. 0 \in E
  <2>1. Pow2[0] = 1
    BY Pow2Unfold
  <2> QED
    BY <2>1
<1>2. ASSUME NEW b \in Nat, b \in E
      PROVE  b + 1 \in E
  <2> SUFFICES ASSUME NEW r \in Nat \ {0}, NEW offset \in Nat, r < Pow2[b + 1]
               PROVE  Split(b + 1, r, offset)
    OBVIOUS
  <2>1. Pow2[b + 1] = 2 * Pow2[b] /\ Pow2[b] \in Nat
    BY Pow2Unfold
  <2>2. CASE r < Pow2[b]
    <3>1. Split(b, r, offset)
      BY <1>2, <2>2
    <3>2. RsPeaksFrom[b + 1][SizeOfLeaves(r)][offset]
            = RsPeaksFrom[b][SizeOfLeaves(r)][offset]
      BY <2>2, LoopSkips
    <3> QED
      BY <3>1, <3>2 DEF Split
  <2>3. CASE ~(r < Pow2[b])
    <3> DEFINE s == r - Pow2[b]
    <3>1. s \in Nat /\ s < Pow2[b] /\ s + Pow2[b] = r
      BY <2>1, <2>3
    <3>2. BitLength(r) = b + 1
      <4>1. b + 1 \in Nat /\ b + 1 > 0 /\ (b + 1) - 1 = b /\ Pow2[b] <= r
        BY <2>1, <2>3
      <4>2. Pow2[(b + 1) - 1] <= r
        BY <4>1
      <4> QED
        BY <4>1, <4>2, BitLengthUnique
    <3> HIDE DEF s
    <3>3. RsPeaksFrom[b + 1][SizeOfLeaves(s + Pow2[b])][offset]
            = <<offset + TreeSize(b)>>
                \o RsPeaksFrom[b][SizeOfLeaves(s)][offset + TreeSize(b)]
      BY <3>1, LoopTakes
    <3>4. BitLength(r) - 1 = b
      BY <3>2
    <3> QED
      BY <3>1, <3>3, <3>4 DEF Split, s
  <2> QED
    BY <2>2, <2>3
<1> HIDE DEF E
<1>3. \A b \in Nat : b \in E
  BY <1>1, <1>2, NatSetInduction
<1> QED
  BY <1>3 DEF E, Split

(* The first tree of r leaves, and what is left of them.                   *)
LEMMA LargestTree ==
  ASSUME NEW r \in Nat \ {0}, NEW j, j = BitLength(r) - 1
  PROVE  /\ j \in Nat /\ Pow2[j] <= r /\ r < Pow2[j + 1]
         /\ r - Pow2[j] \in Nat /\ r - Pow2[j] < Pow2[j]
         /\ TreeSize(j) \in Nat \ {0}
         /\ SizeOfLeaves(r) = TreeSize(j) + SizeOfLeaves(r - Pow2[j])
         /\ PopCount[r] = PopCount[r - Pow2[j]] + 1
<1> DEFINE s == r - Pow2[j]
<1>1. /\ BitLength(r) \in Nat /\ BitLength(r) >= 1
      /\ r < Pow2[BitLength(r)] /\ Pow2[BitLength(r) - 1] <= r
  BY BitLengthSpec
<1>2. j \in Nat /\ BitLength(r) = j + 1
  BY <1>1
<1>3. Pow2[j] <= r /\ r < Pow2[j + 1]
  BY <1>1, <1>2
<1>4. Pow2[j] \in Nat /\ Pow2[j] >= 1 /\ Pow2[j + 1] = 2 * Pow2[j]
  BY <1>2, Pow2Unfold, Pow2Exceeds
<1>5. s \in Nat /\ s < Pow2[j] /\ s + Pow2[j] = r
  BY <1>3, <1>4
<1> HIDE DEF s
<1>6. /\ SizeOfLeaves(s + Pow2[j]) = TreeSize(j) + SizeOfLeaves(s)
      /\ PopCount[s + Pow2[j]] = PopCount[s] + 1
  BY <1>2, <1>5, SizeOfLeavesTopTree, PopCountTopBit
<1>7. TreeSize(j) \in Nat \ {0}
  BY <1>4 DEF TreeSize
<1> QED
  BY <1>2, <1>3, <1>5, <1>6, <1>7 DEF s

(* Behind the first offset nodes, at r leaves, both loops find the same.   *)
LoopsAgree(t, h, r, offset) ==
  PyPeaksFrom(offset + SizeOfLeaves(r))[t][h][offset - 1]
    = FromZero(RsPeaksFrom[h][SizeOfLeaves(r)][offset])

LEMMA NothingLeft ==
  ASSUME NEW t \in Nat, NEW h \in Nat, NEW offset \in Nat
  PROVE  LoopsAgree(t, h, 0, offset)
<1>1. SizeOfLeaves(0) = 0 /\ 0 < Pow2[h] /\ 0 < Pow2[h + 1] /\ PopCount[0] = 0
  <2>1. /\ Pow2[h] \in Nat /\ Pow2[h] >= h + 1
        /\ h + 1 \in Nat /\ Pow2[h + 1] \in Nat /\ Pow2[h + 1] >= (h + 1) + 1
    BY Pow2Unfold, Pow2Exceeds
  <2> QED
    BY <2>1, SizeOfLeavesBounds, PopCountUnfold
<1> DEFINE peaks == RsPeaksFrom[h][SizeOfLeaves(0)][offset]
           size == offset + SizeOfLeaves(0)
           at == offset - 1
<1>2. peaks = <<>>
  <2>1. FindsPeaks(h, 0, offset)
    BY <1>1, PeaksFound
  <2> QED
    BY <1>1, <2>1 DEF FindsPeaks
<1>3. FromZero(<<>>) = <<>>
  BY DEF FromZero
<1>4. size \in Int /\ at \in Int
  BY <1>1
<1>5. PyPeaksFrom(size)[t][h][at] = <<>>
  <2>1. CASE t = 0
    <3> HIDE DEF size, at
    <3> QED
      BY <1>4, <2>1, PyPeaksFromUnfold
  <2>2. CASE t # 0
    <3> DEFINE u == t - 1
    <3>1. u \in Nat /\ u + 1 = t
      BY <2>2
    <3> HIDE DEF u
    <3>3. GetRightPeak(size, h, at) = NoPeak
      <4>1. DescentFinds(h, offset, 0)
        BY <1>1, PyDescentFinds
      <4>2. at + SiblingOffset(h) = offset + TreeSize(h) - 1
        BY Pow2Unfold DEF SiblingOffset, TreeSize
      <4>3. PyDescend(size)[h][offset + TreeSize(h) - 1] = NoPeak
        BY <4>1 DEF DescentFinds
      <4> HIDE DEF size, at
      <4> QED
        BY <4>2, <4>3 DEF GetRightPeak
    <3> HIDE DEF size, at
    <3>4. TurnFrom(size, u, u + 1, h, at, GetRightPeak(size, h, at))
      BY <1>4, <3>1, TurnIs
    <3>5. PyPeaksFrom(size)[u + 1][h][at] = <<>>
      BY <3>3, <3>4 DEF TurnFrom
    <3> QED
      BY <3>1, <3>5
  <2> QED
    BY <2>1, <2>2
<1> QED
  BY <1>2, <1>3, <1>5 DEF LoopsAgree

LEMMA OneTurnAgrees ==
  ASSUME NEW t \in Nat, NEW h \in Nat, NEW r \in Nat \ {0}, NEW offset \in Nat,
         r < Pow2[h], NEW j, j = BitLength(r) - 1,
         LoopsAgree(t, j, r - Pow2[j], offset + TreeSize(j))
  PROVE  LoopsAgree(t + 1, h, r, offset)
<1> DEFINE s == r - Pow2[j]
           next == offset + TreeSize(j)
           size == offset + SizeOfLeaves(r)
           at == offset - 1
           below == RsPeaksFrom[j][SizeOfLeaves(s)][next]
<1>1. /\ j \in Nat /\ s \in Nat /\ s < Pow2[j] /\ TreeSize(j) \in Nat \ {0}
      /\ SizeOfLeaves(r) = TreeSize(j) + SizeOfLeaves(s)
  BY LargestTree
<1>2. SizeOfLeaves(r) \in Nat /\ SizeOfLeaves(s) \in Nat
  BY <1>1, SizeOfLeavesBounds
<1>3. size \in Int /\ at \in Int /\ next \in Nat /\ next + SizeOfLeaves(s) = size
  <2> HIDE DEF s
  <2> QED
    BY <1>1, <1>2
<1>4. RsPeaksFrom[h][SizeOfLeaves(r)][offset] = <<next>> \o below
  BY RsLoopSplits
<1>5. below \in Seq(Nat)
  <2>1. FindsPeaks(j, s, next)
    <3> HIDE DEF s, next
    <3> QED
      BY <1>1, <1>3, PeaksFound
  <2> QED
    BY <2>1 DEF FindsPeaks
<1>6. FromZero(RsPeaksFrom[h][SizeOfLeaves(r)][offset])
        = <<next - 1>> \o FromZero(below)
  <2> HIDE DEF below, next
  <2> QED
    BY <1>3, <1>4, <1>5, FromZeroConcat
<1>8. GetRightPeak(size, h, at) = <<j, next - 1>>
  <2>1. r < Pow2[h + 1]
    BY Pow2Unfold
  <2>2. DescentFinds(h, offset, r)
    BY <2>1, PyDescentFinds
  <2>3. at + SiblingOffset(h) = offset + TreeSize(h) - 1
    BY Pow2Unfold DEF SiblingOffset, TreeSize
  <2>4. PyDescend(size)[h][offset + TreeSize(h) - 1]
          = <<j, offset + TreeSize(j) - 1>>
    BY <2>2 DEF DescentFinds
  <2>5. offset + TreeSize(j) - 1 = next - 1
    BY <1>1
  <2>6. GetRightPeak(size, h, at) = PyDescend(size)[h][offset + TreeSize(h) - 1]
    BY <2>3 DEF GetRightPeak
  <2> HIDE DEF at, next, size
  <2> QED
    BY <2>4, <2>5, <2>6 DEF size
<1>9. h # 0
  BY Pow2Unfold
<1>10. <<j, next - 1>> # NoPeak
  BY <1>1 DEF NoPeak
<1>11. PyPeaksFrom(size)[t][j][next - 1] = FromZero(below)
  <2>1. PyPeaksFrom(next + SizeOfLeaves(s))[t][j][next - 1] = FromZero(below)
    BY DEF LoopsAgree
  <2> HIDE DEF next, s, size, below
  <2> QED
    BY <1>3, <2>1
<1>12. PyPeaksFrom(size)[t + 1][h][at] = <<next - 1>> \o FromZero(below)
  <2> HIDE DEF next, size, at, below
  <2>1. PyPeaksFrom(size)[t + 1][h][at]
          = <<next - 1>> \o PyPeaksFrom(size)[t][j][next - 1]
    <3> DEFINE found == <<j, next - 1>>
    <3>1. found[1] = j /\ found[2] = next - 1 /\ found # NoPeak
      BY <1>10
    <3> HIDE DEF found
    <3>2. GetRightPeak(size, h, at) = found
      BY <1>8 DEF found
    <3>3. TurnFrom(size, t, t + 1, h, at, GetRightPeak(size, h, at))
      BY <1>3, TurnIs
    <3>4. PyPeaksFrom(size)[t + 1][h][at]
            = <<found[2]>> \o PyPeaksFrom(size)[t][found[1]][found[2]]
      BY <1>9, <3>1, <3>2, <3>3 DEF TurnFrom
    <3> QED
      BY <3>1, <3>4
  <2> QED
    BY <1>11, <2>1, Zenon
<1> QED
  BY <1>6, <1>12, Zenon DEF LoopsAgree

(* By induction over the turns: there are at most as many as ones in r.    *)
LEMMA PyLoopAgrees ==
  \A t \in Nat : \A h \in Nat : \A r \in Nat : \A offset \in Nat :
    r < Pow2[h] /\ PopCount[r] <= t => LoopsAgree(t, h, r, offset)
<1> DEFINE E == {t \in Nat : \A h \in Nat : \A r \in Nat : \A offset \in Nat :
                   r < Pow2[h] /\ PopCount[r] <= t => LoopsAgree(t, h, r, offset)}
<1>1. ASSUME NEW r \in Nat \ {0}
      PROVE  PopCount[r] \in Nat /\ PopCount[r] >= 1
  BY PopCountUnfold, PopCountBounds
<1>2. 0 \in E
  <2> SUFFICES ASSUME NEW h \in Nat, NEW r \in Nat, NEW offset \in Nat,
                      r < Pow2[h], PopCount[r] <= 0
               PROVE  LoopsAgree(0, h, r, offset)
    OBVIOUS
  <2>1. r = 0
    BY <1>1
  <2> QED
    BY <2>1, NothingLeft
<1>3. ASSUME NEW t \in Nat, t \in E
      PROVE  t + 1 \in E
  <2> SUFFICES ASSUME NEW h \in Nat, NEW r \in Nat, NEW offset \in Nat,
                      r < Pow2[h], PopCount[r] <= t + 1
               PROVE  LoopsAgree(t + 1, h, r, offset)
    OBVIOUS
  <2>1. CASE r = 0
    BY <2>1, NothingLeft
  <2>2. CASE r # 0
    <3> DEFINE j == BitLength(r) - 1
               s == r - Pow2[j]
               next == offset + TreeSize(j)
    <3>1. r \in Nat \ {0}
      BY <2>2
    <3>2. /\ j \in Nat /\ s \in Nat /\ s < Pow2[j] /\ TreeSize(j) \in Nat \ {0}
          /\ PopCount[r] = PopCount[s] + 1
      BY <3>1, LargestTree
    <3>3. PopCount[s] \in Nat
      BY <3>2, PopCountUnfold
    <3>4. next \in Nat
      BY <3>2
    <3>5. PopCount[s] <= t
      BY <3>2, <3>3
    <3>6. LoopsAgree(t, j, s, next)
      <4> HIDE DEF j, s, next
      <4> QED
        BY <1>3, <3>2, <3>4, <3>5
    <3>7. j = BitLength(r) - 1
      OBVIOUS
    <3>8. LoopsAgree(t, j, r - Pow2[j], offset + TreeSize(j))
      BY <3>6
    <3> HIDE DEF j
    <3> QED
      BY <3>1, <3>7, <3>8, OneTurnAgrees
  <2> QED
    BY <2>1, <2>2
<1> HIDE DEF E
<1>4. \A t \in Nat : t \in E
  BY <1>2, <1>3, NatSetInduction
<1> QED
  BY <1>4 DEF E

(* The leftmost peak is that of the largest tree.                          *)
LEMMA LeftPeak ==
  ASSUME NEW n \in Nat \ {0}
  PROVE  LeftPeakHeight(SizeOfLeaves(n)) = BitLength(n) - 1
<1> DEFINE size == SizeOfLeaves(n)
           h == BitLength(n) - 1
           Left(i) == LeftPos(i) < size /\ LeftPos(i + 1) >= size
<1>1. /\ h \in Nat /\ Pow2[h] <= n /\ n < Pow2[h + 1]
  BY LargestTree
<1>2. size \in Nat /\ n <= size
  BY SizeOfLeavesBounds
<1>3. ASSUME NEW i \in Nat
      PROVE  LeftPos(i) < size <=> Pow2[i] <= n
  <2>1. Pow2[i] <= n <=> TreeSize(i) <= SizeOfLeaves(n)
    BY BlockFits
  <2>2. Pow2[i + 1] \in Nat
    BY Pow2Unfold
  <2> QED
    BY <1>2, <2>1, <2>2 DEF LeftPos, TreeSize
<1>4. ASSUME NEW i \in Nat
      PROVE  Left(i) <=> Pow2[i] <= n /\ n < Pow2[i + 1]
  <2>1. i + 1 \in Nat /\ Pow2[i + 1] \in Nat /\ LeftPos(i + 1) \in Int
    BY Pow2Unfold DEF LeftPos
  <2>2. LeftPos(i + 1) < size <=> Pow2[i + 1] <= n
    BY <1>3, <2>1
  <2> HIDE DEF size
  <2> QED
    BY <1>2, <1>3, <2>1, <2>2
<1>5. h \in 0..size
  <2>1. Pow2[h] \in Nat /\ Pow2[h] >= h + 1
    BY <1>1, Pow2Unfold, Pow2Exceeds
  <2> HIDE DEF h, size
  <2> QED
    BY <1>1, <1>2, <2>1
<1>6. ASSUME NEW i \in 0..size, Left(i)
      PROVE  i = h
  <2>1. i \in Nat /\ i + 1 \in Nat /\ i + 1 > 0 /\ (i + 1) - 1 = i
    OBVIOUS
  <2>2. Pow2[i] <= n /\ n < Pow2[i + 1]
    BY <1>4, <1>6, <2>1
  <2>3. Pow2[(i + 1) - 1] <= n
    BY <2>1, <2>2
  <2>4. BitLength(n) = i + 1
    BY <2>1, <2>2, <2>3, BitLengthUnique
  <2> QED
    BY <2>1, <2>4
<1>7. Left(h)
  BY <1>1, <1>4
<1>8. LeftPeakHeight(size) = CHOOSE i \in 0..size : Left(i)
  BY DEF LeftPeakHeight
<1> HIDE DEF Left, h, size
<1>9. LeftPeakHeight(size) = h
  <2>1. \A i \in 0..size : Left(i) <=> i = h
    BY <1>5, <1>6, <1>7
  <2>2. (CHOOSE i \in 0..size : Left(i)) = h
    BY <1>5, <2>1, Zenon
  <2> QED
    BY <1>8, <2>2
<1> QED
  BY <1>9 DEF size, h

(* get_peaks of mmr.py and of mmr.rs agree on every MMR with leaves.       *)
LEMMA PyPeaksOfLeaves ==
  ASSUME NEW n \in Nat \ {0}
  PROVE  PyGetPeaks(SizeOfLeaves(n)) = FromZero(RsGetPeaks(SizeOfLeaves(n)))
<1> DEFINE size == SizeOfLeaves(n)
           h == BitLength(n) - 1
           r == n - Pow2[h]
           T == TreeSize(h)
           b == BitLength(size)
           below == RsPeaksFrom[h][SizeOfLeaves(r)][T]
<1>1. /\ h \in Nat /\ r \in Nat /\ r < Pow2[h] /\ T \in Nat \ {0}
      /\ size = T + SizeOfLeaves(r)
  BY LargestTree
<1>2. size \in Nat /\ n <= size /\ size # 0
  BY SizeOfLeavesBounds
<1>3. n < Pow2[b] /\ b \in Nat
  <2>1. b \in Nat /\ size < Pow2[b] /\ Pow2[b] \in Nat
    <3> HIDE DEF size
    <3> QED
      BY <1>2, BitLengthSpec, Pow2Unfold
  <2> QED
    BY <1>2, <2>1
<1>4. RsGetPeaks(size) = <<T>> \o below
  <2>1. RsPeaksFrom[b][SizeOfLeaves(n)][0] = <<0 + T>> \o RsPeaksFrom[h][SizeOfLeaves(r)][0 + T]
    <3> HIDE DEF b
    <3> QED
      BY <1>3, RsLoopSplits
  <2>2. 0 + T = T
    BY <1>1
  <2>3. RsGetPeaks(size) = RsPeaksFrom[b][size][0]
    BY <1>2 DEF RsGetPeaks
  <2> HIDE DEF T, r, h, b
  <2> QED
    BY <2>1, <2>2, <2>3
<1>5. below \in Seq(Nat)
  <2>1. FindsPeaks(h, r, T)
    <3> HIDE DEF h, r, T
    <3> QED
      BY <1>1, PeaksFound
  <2> QED
    BY <2>1 DEF FindsPeaks
<1>6. FromZero(RsGetPeaks(size)) = <<T - 1>> \o FromZero(below)
  <2> HIDE DEF T, below, size
  <2> QED
    BY <1>1, <1>4, <1>5, FromZeroConcat
<1>7. LoopsAgree(size, h, r, T)
  <2>1. PopCount[r] \in Nat /\ PopCount[r] <= r
    <3> HIDE DEF r
    <3> QED
      BY <1>1, PopCountUnfold, PopCountBounds
  <2>2. r <= n
    BY <1>1, Pow2Unfold
  <2>3. PopCount[r] <= size
    <3> HIDE DEF r, size
    <3> QED
      BY <1>1, <1>2, <2>1, <2>2
  <2> HIDE DEF r, size, h, T
  <2> QED
    BY <1>1, <1>2, <2>3, PyLoopAgrees
<1>8. PyPeaksFrom(size)[size][h][T - 1] = FromZero(below)
  <2>1. PyPeaksFrom(T + SizeOfLeaves(r))[size][h][T - 1] = FromZero(below)
    BY <1>7 DEF LoopsAgree
  <2> HIDE DEF size, T, r, h, below
  <2> QED
    BY <1>1, <2>1
<1>9. LeftPeakHeight(size) = h
  BY LeftPeak
<1>10. LeftPos(h) = T - 1
  <2>1. Pow2[h + 1] \in Nat
    BY <1>1, Pow2Unfold
  <2> HIDE DEF h
  <2> QED
    BY <2>1 DEF LeftPos, TreeSize, T
<1>11. PyGetPeaks(size) = <<T - 1>> \o FromZero(below)
  <2> HIDE DEF size, h, T, below
  <2> QED
    BY <1>8, <1>9, <1>10 DEF PyGetPeaks
<1> QED
  BY <1>6, <1>11
=============================================================================
