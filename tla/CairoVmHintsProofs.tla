------------------------ MODULE CairoVmHintsProofs --------------------------
(***************************************************************************)
(* The functions that rely on hints and the runner of the crate            *)
(* cairo_vm_hints.                                                         *)
(*                                                                         *)
(* What no hint can change, for words of every width, every field and      *)
(* every bound of the range checks that fit the assumptions: the results   *)
(* of uint256_add, uint256_sub, felt_divmod, the extraction of bytes from  *)
(* an array, of a nibble from a key and of the fields of a block header,   *)
(* the reversal of a word and of a number, and the count of leading        *)
(* zeroes; and that a hint is run by the one table that knows it.          *)
(*                                                                         *)
(* Then, for every set of paths and of command lines, what the files of a  *)
(* run are worth, whichever call fails and whenever the process is killed. *)
(***************************************************************************)
EXTENDS HintedCalls, Runner, MmrPeaksProofs

-----------------------------------------------------------------------------
(* uint256_add and uint256_sub.                                            *)

(* Every half but the low one of a complement is below Shift.              *)
LEMMA AddendType ==
  ASSUME b \in Uint256
  PROVE  /\ Addend.low \in 0..Shift
         /\ Addend.high \in Half
         /\ operation = "add" => Addend = b
<1>1. b.low \in Half /\ b.high \in Half
  BY DEF Uint256
<1>2. CASE operation = "add"
  BY <1>1, <1>2, ShiftAssumption DEF Addend, Half
<1>3. CASE operation # "add"
  <2>1. Addend.low = Shift - 1 - b.low + 1 /\ Addend.high = Shift - 1 - b.high
    BY <1>3 DEF Addend, Minus
  <2> QED
    BY <1>1, <1>3, <2>1, ShiftAssumption DEF Half
<1> QED
  BY <1>2, <1>3

(* The value of the addend: b, or Shift * Shift - b.                       *)
LEMMA AddendValue ==
  ASSUME b \in Uint256
  PROVE  Value(Addend) = IF operation = "add" THEN Value(b)
                         ELSE Shift * Shift - Value(b)
<1>1. b.low \in Int /\ b.high \in Int /\ Shift \in Int
  BY ShiftAssumption DEF Uint256, Half
<1>2. CASE operation = "add"
  BY <1>2 DEF Addend
<1>3. CASE operation # "add"
  <2>1. Addend.low = Shift - b.low /\ Addend.high = Shift - 1 - b.high
    BY <1>1, <1>3 DEF Addend, Minus
  <2>2. Shift * (Shift - 1 - b.high) = Shift * Shift - Shift - Shift * b.high
    BY <1>1
  <2>3. Shift * Shift \in Int /\ Shift * b.high \in Int
    BY <1>1
  <2> QED
    BY <1>1, <1>3, <2>1, <2>2, <2>3 DEF Value
<1> QED
  BY <1>2, <1>3

(* The branches lose nothing: half sums and carries make the whole sum.    *)
LEMMA SumValue ==
  ASSUME a \in Uint256, b \in Uint256, NEW c \in Carries
  PROVE  Value(HalvesSum(c)) + Shift * Shift * c.high = Value(a) + Value(Addend)
<1> DEFINE al == a.low  ah == a.high  dl == Addend.low  dh == Addend.high
<1>1. /\ al \in Int /\ ah \in Int /\ dl \in Int /\ dh \in Int
      /\ Shift \in Int /\ c.low \in Int /\ c.high \in Int
  BY AddendType, ShiftAssumption DEF Uint256, Half, Carries
<1>2. /\ HalvesSum(c).low = al + dl - c.low * Shift
      /\ HalvesSum(c).high = ah + dh + c.low - c.high * Shift
  BY DEF HalvesSum
<1> HIDE DEF al, ah, dl, dh
<1>3. Shift * (ah + dh + c.low - c.high * Shift)
        = Shift * ah + Shift * dh + Shift * c.low - Shift * Shift * c.high
  BY <1>1
<1>4. /\ Shift * ah \in Int /\ Shift * dh \in Int /\ Shift * c.low \in Int
      /\ Shift * Shift * c.high \in Int /\ c.low * Shift = Shift * c.low
  BY <1>1
<1>5. Value(a) = al + Shift * ah /\ Value(Addend) = dl + Shift * dh
  BY DEF Value, al, ah, dl, dh
<1>6. Value(HalvesSum(c)) = HalvesSum(c).low + Shift * HalvesSum(c).high
  BY DEF Value
<1> QED
  BY <1>1, <1>2, <1>3, <1>4, <1>5, <1>6

(* With the carries of the Python hint both halves are in range.           *)
LEMMA PyCarriesInRange ==
  ASSUME a \in Uint256, b \in Uint256
  PROVE  HalvesSum(PyCarries) \in Uint256
<1> DEFINE al == a.low  ah == a.high  dl == Addend.low  dh == Addend.high
           cl == PyCarries.low  ch == PyCarries.high
<1>1. /\ al \in Half /\ ah \in Half /\ dl \in 0..Shift /\ dh \in Half
      /\ Shift \in Nat \ {0}
  BY AddendType, ShiftAssumption DEF Uint256
<1>2. /\ cl = IF al + dl >= Shift THEN 1 ELSE 0
      /\ ch = IF ah + dh + cl >= Shift THEN 1 ELSE 0
  BY DEF PyCarries
<1>3. HalvesSum(PyCarries) = [low  |-> al + dl - cl * Shift,
                        high |-> ah + dh + cl - ch * Shift]
  BY DEF HalvesSum
<1> HIDE DEF al, ah, dl, dh, cl, ch
<1>4. al + dl - cl * Shift \in Half
  <2>1. CASE al + dl >= Shift
    BY <1>1, <1>2, <2>1 DEF Half
  <2>2. CASE ~(al + dl >= Shift)
    BY <1>1, <1>2, <2>2 DEF Half
  <2> QED
    BY <2>1, <2>2
<1>5. cl \in 0..1
  BY <1>2
<1>6. ah + dh + cl - ch * Shift \in Half
  <2>1. CASE ah + dh + cl >= Shift
    BY <1>1, <1>2, <1>5, <2>1 DEF Half
  <2>2. CASE ~(ah + dh + cl >= Shift)
    BY <1>1, <1>2, <1>5, <2>2 DEF Half
  <2> QED
    BY <2>1, <2>2
<1> QED
  BY <1>3, <1>4, <1>6 DEF Uint256

-----------------------------------------------------------------------------
(* felt_divmod.                                                            *)

(* The field element of a number is the number, or wraps around once.      *)
LEMMA Residue ==
  ASSUME NEW p \in Nat \ {0}, NEW x \in Int, -p <= x, x < p
  PROVE  x % p = IF x < 0 THEN x + p ELSE x
<1>1. CASE x < 0
  <2>1. /\ x = p * (-1) + (x + p)
        /\ 0 <= x + p /\ x + p < p
    BY <1>1
  <2> QED
    BY <1>1, <2>1, Z3T(30)
<1>2. CASE 0 <= x
  BY <1>2, Z3T(30)
<1> QED
  BY <1>1, <1>2

(* A product of factors in bounds is at most the product of the bounds.    *)
LEMMA ProductMonotone ==
  ASSUME NEW m \in Nat, NEW n \in Nat, NEW d \in Nat, m <= n
  PROVE  m * d <= n * d
<1>1. n * d = m * d + (n - m) * d
  OBVIOUS
<1>2. (n - m) * d \in Nat /\ m * d \in Nat
  OBVIOUS
<1> QED
  BY <1>1, <1>2

(* The divisors the function assumes: RcBound of them fit below the prime. *)
LEMMA DivisorFits ==
  ASSUME NEW d \in 0..(Prime \div RcBound)
  PROVE  d \in Nat /\ RcBound * d <= Prime
<1> DEFINE top == Prime \div RcBound
<1>1. top \in Nat /\ RcBound * top <= Prime
  BY FieldAssumption, Z3T(30)
<1> HIDE DEF top
<1>2. d \in Nat /\ d <= top
  BY <1>1 DEF top
<1>3. d * RcBound <= top * RcBound
  BY <1>1, <1>2, FieldAssumption, ProductMonotone
<1>4. d * RcBound = RcBound * d /\ top * RcBound = RcBound * top
  BY <1>1, <1>2, FieldAssumption
<1>5. RcBound * d \in Nat /\ RcBound * top \in Nat
  BY <1>1, <1>2, FieldAssumption
<1> QED
  BY <1>1, <1>2, <1>3, <1>4, <1>5, FieldAssumption

(* The third range check: a remainder that passes it is below the divisor. *)
LEMMA RemainderBelowDivisor ==
  ASSUME NEW r \in RangeChecked, call.div \in Nat, RcBound * call.div <= Prime,
         RemainderCheck(r) \in RangeChecked
  PROVE  r < call.div
<1> DEFINE x == call.div - 1 - r
<1>1. /\ Prime \in Nat \ {0} /\ RcBound \in Nat \ {0} /\ 2 * RcBound <= Prime
      /\ r \in Nat /\ r < RcBound
  BY FieldAssumption DEF RangeChecked
<1>2. call.div <= Prime
  <2>1. 1 * call.div <= RcBound * call.div
    BY <1>1, ProductMonotone
  <2>2. RcBound * call.div \in Nat /\ 1 * call.div = call.div
    BY <1>1
  <2> QED
    BY <1>1, <2>1, <2>2
<1>3. x \in Int /\ -RcBound <= x /\ -Prime <= x /\ x < Prime
  BY <1>1, <1>2
<1>4. x % Prime = IF x < 0 THEN x + Prime ELSE x
  <2> HIDE DEF x
  <2> QED
    BY <1>1, <1>3, Residue
<1>5. x % Prime < RcBound
  <2>1. RemainderCheck(r) = x % Prime
    BY DEF RemainderCheck
  <2>2. \A y \in RangeChecked : y < RcBound
    BY <1>1 DEF RangeChecked
  <2> QED
    BY <2>1, <2>2
<1>6. ~(x < 0)
  BY <1>1, <1>3, <1>4, <1>5
<1> QED
  BY <1>1, <1>6

(* The product does not wrap around the prime.                             *)
LEMMA NoWrap ==
  ASSUME NEW quot \in RangeChecked, NEW r \in Nat, NEW d \in Nat,
         RcBound * d <= Prime, r < d
  PROVE  (quot * d + r) % Prime = quot * d + r
<1>1. /\ Prime \in Nat \ {0} /\ RcBound \in Nat
      /\ quot \in Nat /\ quot + 1 \in Nat /\ quot + 1 <= RcBound
  BY FieldAssumption DEF RangeChecked
<1>2. (quot + 1) * d <= RcBound * d
  BY <1>1, ProductMonotone
<1>3. (quot + 1) * d = quot * d + d /\ quot * d \in Nat /\ RcBound * d \in Nat
  BY <1>1
<1>4. quot * d + r \in Nat /\ quot * d + r < Prime
  BY <1>1, <1>2, <1>3
<1> DEFINE x == quot * d + r
<1> HIDE DEF x
<1>5. x \in Int /\ 0 <= x /\ x < Prime /\ -Prime <= x
  BY <1>1, <1>4 DEF x
<1>6. x % Prime = x
  BY <1>1, <1>5, Residue
<1> QED
  BY <1>6 DEF x


-----------------------------------------------------------------------------
(* Bytes cut out of an array are consecutive: n of them after byte first.  *)
BytesFrom(first, n) == [i \in 1..n |-> first + i]

(* Their number and each of them.                                          *)
LEMMA BytesFromIs ==
  ASSUME NEW first \in Int, NEW n \in Nat
  PROVE  /\ BytesFrom(first, n) \in Seq(Int)
         /\ Len(BytesFrom(first, n)) = n
         /\ \A i \in 1..n : BytesFrom(first, n)[i] = first + i
BY DEF BytesFrom

(* Consecutive bytes and those that follow them.                           *)
LEMMA BytesJoined ==
  ASSUME NEW first \in Int, NEW m \in Nat, NEW n \in Nat
  PROVE  BytesFrom(first, m) \o BytesFrom(first + m, n) = BytesFrom(first, m + n)
<1> DEFINE s == BytesFrom(first, m)
           t == BytesFrom(first + m, n)
           u == BytesFrom(first, m + n)
<1>1. /\ s \in Seq(Int) /\ Len(s) = m /\ \A i \in 1..m : s[i] = first + i
      /\ t \in Seq(Int) /\ Len(t) = n /\ \A i \in 1..n : t[i] = first + m + i
      /\ u \in Seq(Int) /\ Len(u) = m + n /\ \A i \in 1..(m + n) : u[i] = first + i
  <2>1. first + m \in Int /\ m + n \in Nat
    OBVIOUS
  <2> QED
    BY <2>1, BytesFromIs
<1> HIDE DEF s, t, u
<1>2. /\ s \o t \in Seq(Int) /\ Len(s \o t) = m + n
      /\ \A i \in 1..(m + n) : (s \o t)[i] = IF i <= m THEN s[i] ELSE t[i - m]
  BY <1>1, ConcatProperties
<1>3. \A i \in 1..(m + n) : (s \o t)[i] = u[i]
  <2> TAKE i \in 1..(m + n)
  <2>1. CASE i <= m
    BY <1>1, <1>2, <2>1
  <2>2. CASE ~(i <= m)
    <3>1. i - m \in 1..n /\ first + m + (i - m) = first + i
      BY <2>2
    <3> QED
      BY <1>1, <1>2, <2>2, <3>1
  <2> QED
    BY <2>1, <2>2
<1> QED
  BY <1>1, <1>2, <1>3, SeqEqual DEF s, t, u

(* SubSeq of consecutive bytes.                                            *)
LEMMA BytesCut ==
  ASSUME NEW first \in Int, NEW n \in Nat, NEW from \in Nat, NEW to \in 0..n,
         from <= to
  PROVE  SubSeq(BytesFrom(first, n), from + 1, to) = BytesFrom(first + from, to - from)
<1> DEFINE s == BytesFrom(first, n)
           t == BytesFrom(first + from, to - from)
<1>1. /\ s \in Seq(Int) /\ Len(s) = n /\ \A i \in 1..n : s[i] = first + i
      /\ t \in Seq(Int) /\ Len(t) = to - from
      /\ \A i \in 1..(to - from) : t[i] = first + from + i
  <2>1. first + from \in Int /\ to - from \in Nat
    OBVIOUS
  <2> QED
    BY <2>1, BytesFromIs
<1> HIDE DEF s, t
<1>2. \A i \in (from + 1)..to : s[i] \in Int
  BY <1>1
<1>3. /\ SubSeq(s, from + 1, to) \in Seq(Int)
      /\ Len(SubSeq(s, from + 1, to)) = to - from
      /\ \A i \in 1..(to - from) : SubSeq(s, from + 1, to)[i] = s[from + i]
  <2>1. from + 1 \in Int /\ to \in Int
    OBVIOUS
  <2>2. /\ SubSeq(s, from + 1, to) \in Seq(Int)
        /\ Len(SubSeq(s, from + 1, to))
             = IF from + 1 <= to THEN to - (from + 1) + 1 ELSE 0
        /\ \A i \in 1..(to - (from + 1) + 1) :
             SubSeq(s, from + 1, to)[i] = s[from + 1 + i - 1]
    BY <1>2, <2>1, SubSeqProperties
  <2>3. to - (from + 1) + 1 = to - from
    OBVIOUS
  <2>4. \A i \in 1..(to - from) : from + 1 + i - 1 = from + i
    OBVIOUS
  <2> QED
    BY <2>2, <2>3, <2>4
<1>4. \A i \in 1..(to - from) : SubSeq(s, from + 1, to)[i] = t[i]
  BY <1>1, <1>3
<1> QED
  BY <1>1, <1>3, <1>4, SeqEqual DEF s, t

(* Their front.                                                            *)
LEMMA BytesFront ==
  ASSUME NEW first \in Int, NEW n \in Nat, NEW to \in 0..n
  PROVE  SubSeq(BytesFrom(first, n), 1, to) = BytesFrom(first, to)
<1>1. 0 \in Nat /\ 0 <= to /\ first + 0 = first /\ to - 0 = to /\ 0 + 1 = 1
  OBVIOUS
<1>2. SubSeq(BytesFrom(first, n), 0 + 1, to) = BytesFrom(first + 0, to - 0)
  BY <1>1, BytesCut
<1> QED
  BY <1>1, <1>2

(* Above and Below cut a word in two.                                      *)
LEMMA MinIs ==
  ASSUME NEW i \in Int, NEW j \in Int
  PROVE  Min({i, j}) = IF i <= j THEN i ELSE j
BY DEF Min

(* What is above an offset is the bytes from there on, ...                 *)
LEMMA AboveIs ==
  ASSUME NEW first \in Int, NEW n \in Nat, NEW k \in Nat
  PROVE  Above(BytesFrom(first, n), k)
           = BytesFrom(first + k, IF k <= n THEN n - k ELSE 0)
<1>1. Len(BytesFrom(first, n)) = n
  BY BytesFromIs
<1>2. CASE k <= n
  <2>1. n \in 0..n
    OBVIOUS
  <2>2. SubSeq(BytesFrom(first, n), k + 1, n) = BytesFrom(first + k, n - k)
    BY <1>2, <2>1, BytesCut
  <2> QED
    BY <1>1, <1>2, <2>2 DEF Above
<1>3. CASE ~(k <= n)
  <2>1. SubSeq(BytesFrom(first, n), k + 1, n) = <<>>
    <3>1. k + 1 \in Int /\ n \in Int /\ n < k + 1
      BY <1>3
    <3> QED
      BY <3>1, SubSeqEmpty
  <2>2. BytesFrom(first + k, 0) = <<>>
    BY DEF BytesFrom
  <2> QED
    BY <1>1, <1>3, <2>1, <2>2 DEF Above
<1> QED
  BY <1>2, <1>3

(* ... and what is below it the bytes before.                              *)
LEMMA BelowIs ==
  ASSUME NEW first \in Int, NEW n \in Nat, NEW k \in Nat
  PROVE  Below(BytesFrom(first, n), k) = BytesFrom(first, IF k <= n THEN k ELSE n)
<1> DEFINE to == IF k <= n THEN k ELSE n
<1>1. Len(BytesFrom(first, n)) = n
  BY BytesFromIs
<1>2. Min({k, n}) = to
  BY MinIs
<1>3. to \in 0..n
  OBVIOUS
<1> HIDE DEF to
<1>4. SubSeq(BytesFrom(first, n), 1, to) = BytesFrom(first, to)
  BY <1>3, BytesFront
<1>5. Below(BytesFrom(first, n), k) = BytesFrom(first, to)
  BY <1>1, <1>2, <1>4 DEF Below
<1> QED
  BY <1>5 DEF to
-----------------------------------------------------------------------------
(* Words that hold n bytes from first on, all of them full but the last.   *)
CutInWords(words, first, c) ==
  LET m == Len(words)
  IN  /\ m \in Nat \ {0}
      /\ DOMAIN words = 1..m
      /\ \A i \in 1..(m - 1) :
           words[i] = BytesFrom(first + (i - 1) * WordBytes, WordBytes)
      /\ words[m] = BytesFrom(first + (m - 1) * WordBytes, c)

(* One word after the other, they are these bytes in order.                *)
LEMMA FlattenWords ==
  ASSUME NEW words, NEW first \in Int, NEW c \in Nat, CutInWords(words, first, c)
  PROVE  FlattenSeq(words)
           = BytesFrom(first, (Len(words) - 1) * WordBytes + c)
<1> DEFINE m == Len(words)
           W == WordBytes
           Is(f) == f = [i \in 1..m |-> IF i = 1 THEN words[i]
                                        ELSE f[i - 1] \o words[i]]
           flat == CHOOSE f : Is(f)
<1>1. /\ m \in Nat \ {0}
      /\ \A i \in 1..(m - 1) : words[i] = BytesFrom(first + (i - 1) * W, W)
      /\ words[m] = BytesFrom(first + (m - 1) * W, c)
  BY DEF CutInWords
<1>2. FlattenSeq(words) = flat[m]
  <2>1. m # 0
    BY <1>1
  <2> QED
    BY <2>1, Zenon DEF FlattenSeq
<1>3. W \in Nat
  BY ScaleAssumption
<1> DEFINE size == [i \in 1..m |-> IF i = m THEN c ELSE W]
           g == [i \in 1..m |-> BytesFrom(first, (i - 1) * W + size[i])]
<1> HIDE DEF m, W
<1>4. \A i \in 1..m : /\ size[i] \in Nat
                      /\ words[i] = BytesFrom(first + (i - 1) * W, size[i])
                      /\ (i # m => size[i] = W)
                      /\ g[i] = BytesFrom(first, (i - 1) * W + size[i])
  BY <1>1, <1>3
<1>5. size[m] = c
  BY <1>1
<1> HIDE DEF size
<1>6. \A i \in 1..m : g[i] = IF i = 1 THEN words[i] ELSE g[i - 1] \o words[i]
  <2> TAKE i \in 1..m
  <2>1. CASE i = 1
    <3>1. (i - 1) * W = 0
      BY <1>3, <2>1
    <3>2. first + 0 = first /\ 0 + size[i] = size[i]
      BY <1>4
    <3> QED
      BY <1>4, <2>1, <3>1, <3>2
  <2>2. CASE i # 1
    <3>1. i - 1 \in 1..m /\ i - 1 # m
      BY <1>1, <2>2
    <3>2. g[i - 1] = BytesFrom(first, ((i - 1) - 1) * W + W)
      BY <1>4, <3>1
    <3>3. ((i - 1) - 1) * W + W = (i - 1) * W /\ (i - 1) * W \in Nat
      BY <1>1, <1>3, <2>2
    <3> DEFINE k == (i - 1) * W
    <3>4. k \in Nat /\ g[i - 1] = BytesFrom(first, k)
          /\ words[i] = BytesFrom(first + k, size[i]) /\ size[i] \in Nat
          /\ g[i] = BytesFrom(first, k + size[i])
      BY <1>4, <3>2, <3>3
    <3> HIDE DEF k, g
    <3> QED
      BY <2>2, <3>4, BytesJoined
  <2> QED
    BY <2>1, <2>2
<1>7. Is(g)
  <2>1. g = [i \in 1..m |-> g[i]]
    OBVIOUS
  <2> HIDE DEF g
  <2> QED
    BY <1>6, <2>1
<1> HIDE DEF g
<1>8. Is(flat)
  <2> HIDE DEF Is
  <2> QED
    BY <1>7
<1> HIDE DEF flat
<1>9. \A i \in 1..m : flat[i] = IF i = 1 THEN words[i] ELSE flat[i - 1] \o words[i]
  BY <1>8
<1>10. \A i \in Nat : i \in 1..m => flat[i] = g[i]
  <2> DEFINE E == {i \in Nat : i \in 1..m => flat[i] = g[i]}
  <2>1. 0 \in E
    OBVIOUS
  <2>2. ASSUME NEW i \in Nat, i \in E
        PROVE  i + 1 \in E
    <3> SUFFICES ASSUME i + 1 \in 1..m
                 PROVE  flat[i + 1] = g[i + 1]
      OBVIOUS
    <3>1. flat[i + 1] = IF i + 1 = 1 THEN words[i + 1]
                        ELSE flat[(i + 1) - 1] \o words[i + 1]
      BY <1>9
    <3>2. g[i + 1] = IF i + 1 = 1 THEN words[i + 1]
                     ELSE g[(i + 1) - 1] \o words[i + 1]
      BY <1>6
    <3>3. CASE i = 0
      BY <3>1, <3>2, <3>3
    <3>4. CASE i # 0
      <4>1. i \in 1..m /\ (i + 1) - 1 = i /\ i + 1 # 1
        BY <1>1, <3>4
      <4>2. flat[i] = g[i]
        BY <2>2, <4>1
      <4> QED
        BY <3>1, <3>2, <4>1, <4>2
    <3> QED
      BY <3>3, <3>4
  <2> HIDE DEF E
  <2>3. \A i \in Nat : i \in E
    BY <2>1, <2>2, NatSetInduction
  <2> QED
    BY <2>3 DEF E
<1>11. flat[m] = g[m]
  BY <1>1, <1>10
<1> QED
  BY <1>1, <1>2, <1>4, <1>5, <1>11 DEF m, W
-----------------------------------------------------------------------------
(* A call of the two functions: the array holds the bytes asked for.       *)
FirstByte == call.start_word * WordBytes + call.start_offset

(* The numbers of a call.                                                  *)
LEMMA ExtractTypes ==
  ASSUME call \in ExtractCalls
  PROVE  /\ WordBytes \in Nat /\ WordBytes > 0
         /\ call.start_word \in Nat /\ call.start_offset \in 0..(WordBytes - 1)
         /\ call.n_bytes \in Nat /\ call.length \in Nat
         /\ FirstByte \in Nat /\ FirstByte + call.n_bytes <= call.length
<1>1. WordBytes \in Nat /\ WordBytes > 0
  BY ScaleAssumption
<1>2. /\ call.start_word \in 0..(MaxArrayBytes \div WordBytes)
      /\ call.start_offset \in 0..(WordBytes - 1)
      /\ call.n_bytes \in 0..MaxArrayBytes /\ call.length \in 1..MaxArrayBytes
      /\ call.start_word * WordBytes + call.start_offset + call.n_bytes <= call.length
  BY DEF ExtractCalls
<1>3. call.start_word * WordBytes \in Nat
  BY <1>1, <1>2
<1> QED
  BY <1>1, <1>2, <1>3 DEF FirstByte

(* The words behind the first one start a word further each.               *)
LEMMA WordStarts ==
  ASSUME call \in ExtractCalls, NEW i \in Nat
  PROVE  /\ (call.start_word + i) * WordBytes \in Nat
         /\ (call.start_word + i + 1) * WordBytes
              = (call.start_word + i) * WordBytes + WordBytes
         /\ (call.start_word + i) * WordBytes + call.start_offset
              = FirstByte + i * WordBytes
         /\ i * WordBytes \in Nat
<1>1. WordBytes \in Nat /\ call.start_word \in Nat /\ call.start_offset \in Nat
  BY ExtractTypes
<1>2. /\ (call.start_word + i) * WordBytes
           = call.start_word * WordBytes + i * WordBytes
      /\ (call.start_word + i + 1) * WordBytes
           = call.start_word * WordBytes + i * WordBytes + WordBytes
      /\ call.start_word * WordBytes \in Nat /\ i * WordBytes \in Nat
  BY <1>1
<1> QED
  BY <1>1, <1>2 DEF FirstByte

(* The bytes asked for make q full words and a rest.                       *)
LEMMA SplitBytes ==
  ASSUME call \in ExtractCalls
  PROVE  /\ q \in Nat /\ n_ending_bytes \in 0..(WordBytes - 1)
         /\ call.n_bytes = q * WordBytes + n_ending_bytes
         /\ n_words = IF n_ending_bytes = 0 THEN q ELSE q + 1
<1>1. WordBytes \in Nat /\ WordBytes > 0 /\ call.n_bytes \in Nat
  BY ExtractTypes
<1> DEFINE n == call.n_bytes
           W == WordBytes
<1> HIDE DEF n, W
<1>2. /\ n \div W \in Nat /\ n % W \in 0..(W - 1)
      /\ n = (n \div W) * W + (n % W)
  BY <1>1 DEF n, W
<1> QED
  BY <1>2 DEF q, n_ending_bytes, n_words, n, W

(* The bytes of a word of the array: all of them but in the last word.     *)
WordLen(i) ==
  LET rest == call.length - (call.start_word + i) * WordBytes
  IN  IF WordBytes <= rest THEN WordBytes ELSE IF rest >= 0 THEN rest ELSE 0

(* A word of the array is its bytes.                                       *)
LEMMA WordAtIs ==
  ASSUME call \in ExtractCalls, NEW i \in Nat
  PROVE  /\ WordLen(i) \in 0..WordBytes
         /\ WordAt(i) = BytesFrom((call.start_word + i) * WordBytes, WordLen(i))
<1> DEFINE at0 == (call.start_word + i) * WordBytes
           rest == call.length - at0
<1>1. /\ WordBytes \in Nat /\ at0 \in Nat /\ call.length \in Nat /\ rest \in Int
  <2>1. WordBytes \in Nat /\ call.length \in Nat
    BY ExtractTypes
  <2>2. at0 \in Nat
    BY WordStarts
  <2> HIDE DEF at0
  <2> QED
    BY <2>1, <2>2
<1>2. WordAt(i) = [j \in 1..Min({WordBytes, rest}) |-> at0 + j]
  BY DEF WordAt, ArrayWord
<1> HIDE DEF at0
<1>3. WordLen(i) = IF WordBytes <= rest THEN WordBytes
                   ELSE IF rest >= 0 THEN rest ELSE 0
  BY DEF WordLen, at0
<1> HIDE DEF rest
<1>4. 1..Min({WordBytes, rest}) = 1..WordLen(i) /\ WordLen(i) \in 0..WordBytes
  <2>1. Min({WordBytes, rest}) = IF WordBytes <= rest THEN WordBytes ELSE rest
    BY <1>1, MinIs
  <2> QED
    BY <1>1, <1>3, <2>1
<1> QED
  BY <1>2, <1>4 DEF BytesFrom, at0

(* What is left of a word behind the offset, and the front of a word.      *)
LEMMA WordParts ==
  ASSUME call \in ExtractCalls, NEW i \in Nat, NEW k \in Nat
  PROVE  /\ Above(WordAt(i), call.start_offset)
              = BytesFrom(FirstByte + i * WordBytes,
                          IF call.start_offset <= WordLen(i)
                            THEN WordLen(i) - call.start_offset ELSE 0)
         /\ Below(WordAt(i), k)
              = BytesFrom((call.start_word + i) * WordBytes,
                          IF k <= WordLen(i) THEN k ELSE WordLen(i))
<1>1. /\ WordLen(i) \in Nat
      /\ WordAt(i) = BytesFrom((call.start_word + i) * WordBytes, WordLen(i))
  BY WordAtIs, ExtractTypes
<1>2. /\ (call.start_word + i) * WordBytes \in Int
      /\ (call.start_word + i) * WordBytes + call.start_offset
           = FirstByte + i * WordBytes
      /\ call.start_offset \in Nat
  <2>1. /\ (call.start_word + i) * WordBytes \in Nat
        /\ (call.start_word + i) * WordBytes + call.start_offset
             = FirstByte + i * WordBytes
    BY WordStarts
  <2>2. WordBytes \in Nat /\ call.start_offset \in 0..(WordBytes - 1)
    BY ExtractTypes
  <2> DEFINE at0 == (call.start_word + i) * WordBytes
  <2>3. at0 \in Nat
    BY <2>1
  <2> HIDE DEF at0
  <2>4. at0 \in Int /\ call.start_offset \in Nat
    BY <2>2, <2>3
  <2> QED
    BY <2>1, <2>4 DEF at0
<1>3. Below(WordAt(i), k)
        = BytesFrom((call.start_word + i) * WordBytes,
                    IF k <= WordLen(i) THEN k ELSE WordLen(i))
  BY <1>1, <1>2, BelowIs
<1>4. Above(WordAt(i), call.start_offset)
        = BytesFrom((call.start_word + i) * WordBytes + call.start_offset,
                    IF call.start_offset <= WordLen(i)
                      THEN WordLen(i) - call.start_offset ELSE 0)
  BY <1>1, <1>2, AboveIs
<1> QED
  BY <1>2, <1>3, <1>4

(* Products are in the order of their factors.                             *)
LEMMA TimesMonotone ==
  ASSUME NEW i \in Nat, NEW j \in Nat, i <= j, NEW w \in Nat
  PROVE  i * w <= j * w /\ i * w \in Nat /\ j * w \in Nat
<1>1. PICK d \in Nat : j = i + d
  <2>1. j - i \in Nat /\ j = i + (j - i)
    OBVIOUS
  <2> QED
    BY <2>1
<1>2. j * w = i * w + d * w /\ i * w \in Nat /\ d * w \in Nat
  BY <1>1
<1> QED
  BY <1>2

(* As long as the bytes asked for go on, words are full.                   *)
LEMMA LenWithin ==
  ASSUME call \in ExtractCalls, NEW i \in Nat,
         NEW c \in Nat, i * WordBytes + c <= call.n_bytes
  PROVE  WordLen(i) >= IF call.start_offset + c <= WordBytes
                       THEN call.start_offset + c ELSE WordBytes
<1> DEFINE at0 == (call.start_word + i) * WordBytes
           w == i * WordBytes
<1>1. /\ WordBytes \in Nat /\ call.length \in Nat /\ call.n_bytes \in Nat
      /\ call.start_offset \in Nat /\ FirstByte \in Nat
      /\ FirstByte + call.n_bytes <= call.length
  BY ExtractTypes
<1>2. at0 \in Nat /\ w \in Nat /\ at0 + call.start_offset = FirstByte + w
  BY WordStarts
<1>3. WordLen(i) = LET rest == call.length - at0
                   IN  IF WordBytes <= rest THEN WordBytes
                       ELSE IF rest >= 0 THEN rest ELSE 0
  BY DEF WordLen
<1>4. w + c <= call.n_bytes
  OBVIOUS
<1> HIDE DEF at0, w
<1> QED
  BY <1>1, <1>2, <1>3, <1>4

(* Two neighbours make one word of the result.                             *)
LEMMA JoinedWord ==
  ASSUME call \in ExtractCalls, NEW i \in Nat,
         (i + 1) * WordBytes <= call.n_bytes
  PROVE  Above(WordAt(i), call.start_offset)
           \o Below(WordAt(i + 1), call.start_offset)
         = BytesFrom(FirstByte + i * WordBytes, WordBytes)
<1> DEFINE o == call.start_offset
           W == WordBytes
           f == FirstByte + i * W
<1>1. o \in 0..(W - 1) /\ W \in Nat /\ FirstByte \in Nat
  BY ExtractTypes
<1>2. i * W \in Nat /\ (i + 1) * W \in Nat /\ (i + 1) * W = i * W + W
  BY <1>1
<1>3. WordLen(i) = W
  <2>1. WordLen(i) >= W
    <3>1. i * W + W <= call.n_bytes
      BY <1>2
    <3> QED
      BY <1>1, <3>1, LenWithin
  <2> QED
    BY <2>1, <1>1, WordAtIs
<1>4. WordLen(i + 1) >= o /\ WordLen(i + 1) \in Nat
  <2>1. (i + 1) * W + 0 <= call.n_bytes
    BY <1>2
  <2>2. i + 1 \in Nat /\ 0 \in Nat
    OBVIOUS
  <2>3. WordLen(i + 1) >= IF o + 0 <= W THEN o + 0 ELSE W
    BY <2>1, <2>2, LenWithin
  <2>4. WordLen(i + 1) \in 0..W
    BY <2>2, WordAtIs
  <2> QED
    BY <1>1, <2>3, <2>4
<1>5. Above(WordAt(i), o) = BytesFrom(f, W - o)
  <2>1. Above(WordAt(i), o)
          = BytesFrom(f, IF o <= WordLen(i) THEN WordLen(i) - o ELSE 0)
    BY <1>1, WordParts
  <2> QED
    BY <1>1, <1>3, <2>1
<1>6. Below(WordAt(i + 1), o) = BytesFrom(f + (W - o), o)
  <2>1. Below(WordAt(i + 1), o)
          = BytesFrom((call.start_word + (i + 1)) * W,
                      IF o <= WordLen(i + 1) THEN o ELSE WordLen(i + 1))
    BY <1>1, WordParts
  <2>2. (call.start_word + (i + 1)) * W = f + (W - o)
    <3>1. i + 1 \in Nat
      OBVIOUS
    <3>2. (call.start_word + (i + 1)) * W + o = FirstByte + (i + 1) * W
          /\ (call.start_word + (i + 1)) * W \in Nat
      BY <3>1, WordStarts
    <3> QED
      BY <1>1, <1>2, <3>2
  <2> QED
    BY <1>1, <1>4, <2>1, <2>2
<1>7. f \in Int /\ W - o \in Nat /\ o \in Nat /\ (W - o) + o = W
  BY <1>1, <1>2
<1> HIDE DEF f, o, W
<1>8. Above(WordAt(i), o) \o Below(WordAt(i + 1), o) = BytesFrom(f, (W - o) + o)
  BY <1>5, <1>6, <1>7, BytesJoined
<1> QED
  BY <1>7, <1>8 DEF f, o, W

(* A word of the array is long enough for bytes the array has.             *)
LEMMA LenReaches ==
  ASSUME call \in ExtractCalls, NEW i \in Nat, NEW c \in Nat,
         (call.start_word + i) * WordBytes + c <= call.length
  PROVE  WordLen(i) >= IF c <= WordBytes THEN c ELSE WordBytes
<1> DEFINE at0 == (call.start_word + i) * WordBytes
<1>1. WordBytes \in Nat /\ call.length \in Nat
  BY ExtractTypes
<1>2. at0 \in Nat
  BY WordStarts
<1>3. WordLen(i) = LET rest == call.length - at0
                   IN  IF WordBytes <= rest THEN WordBytes
                       ELSE IF rest >= 0 THEN rest ELSE 0
  BY DEF WordLen
<1>4. at0 + c <= call.length
  OBVIOUS
<1> HIDE DEF at0
<1> QED
  BY <1>1, <1>2, <1>3, <1>4

(* Consecutive bytes begin with fewer of them, and so does what follows.   *)
LEMMA FrontOfMore ==
  ASSUME NEW f \in Int, NEW n \in Nat, NEW c \in Nat, n <= c, NEW more \in Seq(Int)
  PROVE  IsPrefix(BytesFrom(f, n), BytesFrom(f, c) \o more)
<1>1. /\ BytesFrom(f, n) \in Seq(Int) /\ Len(BytesFrom(f, n)) = n
      /\ BytesFrom(f, c) \in Seq(Int) /\ Len(BytesFrom(f, c)) = c
  BY BytesFromIs
<1> DEFINE t == BytesFrom(f, c) \o more
<1>2. /\ t \in Seq(Int) /\ Len(t) = c + Len(more) /\ Len(more) \in Nat
      /\ \A i \in 1..c : t[i] = BytesFrom(f, c)[i]
  <2>1. PICK s \in Seq(Int) : s = BytesFrom(f, c) /\ Len(s) = c
    BY <1>1
  <2>2. /\ s \o more \in Seq(Int) /\ Len(s \o more) = c + Len(more)
        /\ Len(more) \in Nat /\ \A i \in 1..c : (s \o more)[i] = s[i]
    BY <2>1
  <2> QED
    BY <2>1, <2>2
<1> HIDE DEF t
<1>3. \A i \in 1..n : t[i] = BytesFrom(f, n)[i]
  BY <1>2 DEF BytesFrom
<1>4. SubSeq(BytesFrom(f, n), 1, n) = SubSeq(t, 1, n)
  <2>1. /\ SubSeq(t, 1, n) \in Seq(Int) /\ Len(SubSeq(t, 1, n)) = n
        /\ \A i \in 1..n : SubSeq(t, 1, n)[i] = t[i]
    BY <1>2
  <2>2. /\ SubSeq(BytesFrom(f, n), 1, n) \in Seq(Int)
        /\ Len(SubSeq(BytesFrom(f, n), 1, n)) = n
        /\ \A i \in 1..n : SubSeq(BytesFrom(f, n), 1, n)[i] = BytesFrom(f, n)[i]
    BY <1>1
  <2> QED
    BY <1>3, <2>1, <2>2, SeqEqual
<1>5. n <= Len(t)
  BY <1>2
<1> QED
  BY <1>1, <1>4, <1>5 DEF IsPrefix, t

LEMMA FrontOfBytes ==
  ASSUME NEW f \in Int, NEW n \in Nat, NEW c \in Nat, n <= c
  PROVE  IsPrefix(BytesFrom(f, n), BytesFrom(f, c))
<1>1. BytesFrom(f, c) \in Seq(Int)
  BY BytesFromIs
<1>2. IsPrefix(BytesFrom(f, n), BytesFrom(f, c) \o <<>>)
  <2>1. <<>> \in Seq(Int)
    OBVIOUS
  <2> QED
    BY <2>1, FrontOfMore
<1> QED
  BY <1>1, <1>2, ConcatEmptySeq

-----------------------------------------------------------------------------
(* A last word that has c of the bytes asked for, n of which are left: all *)
(* of them, unless a hint decides, or some, or all and more.               *)
LastWordServes(word, k, n) ==
  \E c \in Nat, more \in Seq(Int) :
    /\ word = BytesFrom(FirstByte + k * WordBytes, c) \o more
    /\ more = <<>> \/ c >= n
    /\ Shipped \/ ~LastWordByHint => more = <<>> /\ c = n

(* Words that are the bytes asked for, up to the last one.                 *)
ServesBytes(words) ==
  /\ words \in Seq(Seq(Int)) /\ Len(words) = n_words /\ n_words \in Nat \ {0}
  /\ \A i \in 1..(n_words - 1) :
       words[i] = BytesFrom(FirstByte + (i - 1) * WordBytes, WordBytes)
  /\ \E n \in Nat : /\ (n_words - 1) * WordBytes + n = call.n_bytes
                   /\ LastWordServes(words[n_words], n_words - 1, n)

(* The first k words of the result, all full.                              *)
FullWordsTo(res, k) ==
  /\ res \in Seq(Seq(Int)) /\ Len(res) = k
  /\ \A i \in 1..k : res[i] = BytesFrom(FirstByte + (i - 1) * WordBytes, WordBytes)

(* Full words serve the call when they hold as many bytes, ...             *)
LEMMA WholeWordsServe ==
  ASSUME call \in ExtractCalls, NEW k \in Nat \ {0}, NEW res, FullWordsTo(res, k),
         call.n_bytes = k * WordBytes, n_words = k
  PROVE  ServesBytes(res)
<1>1. WordBytes \in Nat /\ FirstByte \in Nat
  BY ExtractTypes
<1>2. /\ res \in Seq(Seq(Int)) /\ Len(res) = k
      /\ \A i \in 1..k : res[i] = BytesFrom(FirstByte + (i - 1) * WordBytes, WordBytes)
  BY DEF FullWordsTo
<1>3. (k - 1) * WordBytes + WordBytes = k * WordBytes /\ (k - 1) * WordBytes \in Nat
  BY <1>1
<1>4. LastWordServes(res[k], k - 1, WordBytes)
  <2>1. res[k] = BytesFrom(FirstByte + (k - 1) * WordBytes, WordBytes)
    BY <1>2
  <2>2. BytesFrom(FirstByte + (k - 1) * WordBytes, WordBytes) \in Seq(Int)
    BY <1>1, <1>3, BytesFromIs
  <2>3. res[k] = BytesFrom(FirstByte + (k - 1) * WordBytes, WordBytes) \o <<>>
    BY <2>1, <2>2, ConcatEmptySeq
  <2>4. <<>> \in Seq(Int) /\ WordBytes >= WordBytes
    BY <1>1
  <2> QED
    BY <1>1, <2>3, <2>4 DEF LastWordServes
<1>5. \A i \in 1..(k - 1) :
        res[i] = BytesFrom(FirstByte + (i - 1) * WordBytes, WordBytes)
  BY <1>2
<1> QED
  BY <1>1, <1>2, <1>3, <1>4, <1>5 DEF ServesBytes

(* ... and so they do with a last word that goes on where they end.        *)
LEMMA AppendedServes ==
  ASSUME call \in ExtractCalls, NEW k \in Nat, NEW res, FullWordsTo(res, k),
         n_words = k + 1, NEW n \in Nat, k * WordBytes + n = call.n_bytes,
         NEW word \in Seq(Int), LastWordServes(word, k, n)
  PROVE  ServesBytes(Append(res, word)) /\ Len(Append(res, word)) = k + 1
<1> DEFINE words == Append(res, word)
<1>1. /\ res \in Seq(Seq(Int)) /\ Len(res) = k
      /\ \A i \in 1..k : res[i] = BytesFrom(FirstByte + (i - 1) * WordBytes, WordBytes)
  BY DEF FullWordsTo
<1>2. /\ words \in Seq(Seq(Int)) /\ Len(words) = k + 1
      /\ \A i \in 1..k : words[i] = res[i]
      /\ words[k + 1] = word
  BY <1>1, AppendProperties
<1> HIDE DEF words
<1>3. (k + 1) - 1 = k /\ k + 1 \in Nat \ {0}
  OBVIOUS
<1>4. \A i \in 1..k : words[i] = BytesFrom(FirstByte + (i - 1) * WordBytes, WordBytes)
  BY <1>1, <1>2
<1>5. ServesBytes(words)
  BY <1>2, <1>3, <1>4 DEF ServesBytes
<1> QED
  BY <1>2, <1>5 DEF words

(* Consecutive bytes out of consecutive bytes.                             *)
LEMMA AskedPart ==
  ASSUME call \in ExtractCalls, NEW i \in Nat, NEW n \in Nat, i + n <= call.n_bytes
  PROVE  SubSeq(AskedBytes, i + 1, i + n) = BytesFrom(FirstByte + i, n)
<1>1. FirstByte \in Nat /\ call.n_bytes \in Nat
  BY ExtractTypes
<1>2. AskedBytes = [j \in 1..call.n_bytes |-> FirstByte + j]
  BY DEF AskedBytes, FirstByte
<1>3. AskedBytes \in Seq(Int) /\ Len(AskedBytes) = call.n_bytes
  <2>1. AskedBytes \in [1..call.n_bytes -> Int]
    BY <1>1, <1>2
  <2> QED
    BY <1>1, <2>1
<1> DEFINE m == i + n
<1>4. m \in Nat /\ m <= call.n_bytes /\ m - i = n
  BY <1>1
<1> HIDE DEF m
<1>5. SubSeq(AskedBytes, i + 1, m) = [j \in 1..n |-> AskedBytes[i + j]]
  <2>1. /\ SubSeq(AskedBytes, i + 1, m) \in Seq(Int)
        /\ Len(SubSeq(AskedBytes, i + 1, m)) = n
        /\ \A j \in 1..n : SubSeq(AskedBytes, i + 1, m)[j] = AskedBytes[i + j]
    BY <1>1, <1>3, <1>4 DEF m
  <2>2. SubSeq(AskedBytes, i + 1, m)
          = [j \in 1..n |-> SubSeq(AskedBytes, i + 1, m)[j]]
    BY <2>1
  <2> QED
    BY <2>1, <2>2
<1>6. \A j \in 1..n : AskedBytes[i + j] = FirstByte + i + j
  BY <1>1, <1>2, <1>4
<1> QED
  BY <1>5, <1>6 DEF BytesFrom, m

(* Such words are what the property asks for.                              *)
LEMMA ServedIsExtracted ==
  ASSUME call \in ExtractCalls, NEW words, ServesBytes(words)
  PROVE  /\ Len(words) = n_words
         /\ \A i \in 1..(n_words - 1) :
              words[i] = SubSeq(AskedBytes, (i - 1) * WordBytes + 1, i * WordBytes)
         /\ IsPrefix(words[n_words], LastBytes) \/ IsPrefix(LastBytes, words[n_words])
         /\ Shipped \/ ~LastWordByHint => FlattenSeq(words) = AskedBytes
<1> DEFINE W == WordBytes
           k == n_words - 1
           p == k * W
           f == FirstByte + p
<1>1. /\ words \in Seq(Seq(Int)) /\ Len(words) = n_words /\ n_words \in Nat \ {0}
      /\ \A i \in 1..k : words[i] = BytesFrom(FirstByte + (i - 1) * W, W)
  BY DEF ServesBytes
<1>2. PICK n \in Nat : p + n = call.n_bytes /\ LastWordServes(words[n_words], k, n)
  BY DEF ServesBytes
<1>3. PICK c \in Nat, more \in Seq(Int) :
        /\ words[n_words] = BytesFrom(f, c) \o more
        /\ more = <<>> \/ c >= n
        /\ Shipped \/ ~LastWordByHint => more = <<>> /\ c = n
  BY <1>2 DEF LastWordServes
<1>4. /\ W \in Nat /\ FirstByte \in Nat /\ call.n_bytes \in Nat
      /\ k \in Nat /\ p \in Nat /\ f \in Int
  <2>1. W \in Nat /\ FirstByte \in Nat /\ call.n_bytes \in Nat
    BY ExtractTypes
  <2>2. k \in Nat
    BY <1>1
  <2>3. p \in Nat
    BY <2>1, <2>2
  <2> QED
    BY <2>1, <2>2, <2>3
<1>5. ASSUME NEW i \in 1..k
      PROVE  words[i] = SubSeq(AskedBytes, (i - 1) * W + 1, i * W)
  <2> DEFINE s == (i - 1) * W
  <2>1. /\ s \in Nat /\ s + W = i * W /\ i * W <= p
    <3>1. i - 1 \in Nat /\ i \in Nat /\ i <= k
      BY <1>4
    <3>2. i * W <= p
      BY <1>4, <3>1, TimesMonotone
    <3>3. s \in Nat /\ s + W = i * W
      BY <1>4, <3>1
    <3> QED
      BY <3>2, <3>3
  <2>2. s + W <= call.n_bytes
    BY <1>2, <1>4, <2>1
  <2>3. words[i] = BytesFrom(FirstByte + s, W)
    BY <1>1
  <2> HIDE DEF s, p
  <2>4. SubSeq(AskedBytes, s + 1, s + W) = BytesFrom(FirstByte + s, W)
    BY <1>4, <2>1, <2>2, AskedPart
  <2> QED
    BY <2>1, <2>3, <2>4 DEF s
<1>6. LastBytes = BytesFrom(f, n)
  <2>0. p \in Nat /\ p + n <= call.n_bytes
    BY <1>2, <1>4
  <2> HIDE DEF p
  <2>1. SubSeq(AskedBytes, p + 1, p + n) = BytesFrom(FirstByte + p, n)
    BY <2>0, AskedPart
  <2> QED
    BY <1>2, <2>1 DEF LastBytes, p
<1> HIDE DEF f, p, k
<1>7. IsPrefix(words[n_words], LastBytes) \/ IsPrefix(LastBytes, words[n_words])
  <2>1. CASE more = <<>> /\ c <= n
    <3>1. words[n_words] = BytesFrom(f, c)
      BY <1>3, <1>4, <2>1, BytesFromIs, ConcatEmptySeq
    <3>2. IsPrefix(BytesFrom(f, c), BytesFrom(f, n))
      BY <1>4, <2>1, FrontOfBytes
    <3> QED
      BY <1>6, <3>1, <3>2
  <2>2. CASE c >= n
    <3>1. IsPrefix(BytesFrom(f, n), BytesFrom(f, c) \o more)
      BY <1>4, <2>2, FrontOfMore
    <3> QED
      BY <1>3, <1>6, <3>1
  <2> QED
    BY <1>3, <2>1, <2>2
<1>8. ASSUME Shipped \/ ~LastWordByHint
      PROVE  FlattenSeq(words) = AskedBytes
  <2>1. words[n_words] = BytesFrom(f, n)
    BY <1>3, <1>4, <1>8, BytesFromIs, ConcatEmptySeq
  <2>2. CutInWords(words, FirstByte, n)
    BY <1>1, <2>1 DEF CutInWords, f, p, k
  <2>3. FlattenSeq(words) = BytesFrom(FirstByte, (Len(words) - 1) * W + n)
    BY <1>4, <2>2, FlattenWords
  <2>4. (Len(words) - 1) * W + n = call.n_bytes
    BY <1>1, <1>2 DEF p, k
  <2> QED
    BY <2>3, <2>4 DEF AskedBytes, BytesFrom, FirstByte
<1> QED
  BY <1>1, <1>5, <1>7, <1>8 DEF k

-----------------------------------------------------------------------------
(* The words of the aligned branch.                                        *)
LEMMA CopiedServe ==
  ASSUME call \in ExtractCalls, call.start_offset = 0, call.n_bytes > 0
  PROVE  ServesBytes(CopiedWords) /\ Len(CopiedWords) = n_words
<1> DEFINE W == WordBytes
           n == call.n_bytes
           e == n_ending_bytes
           full == [i \in 1..q |-> WordAt(i - 1)]
<1>1. W \in Nat /\ W > 0 /\ n \in Nat /\ FirstByte \in Nat /\ n > 0
  BY ExtractTypes
<1>2. /\ q \in Nat /\ e \in 0..(W - 1) /\ n = q * W + e
      /\ n_words = IF e = 0 THEN q ELSE q + 1
  BY SplitBytes
<1>3. q * W \in Nat
  BY <1>1, <1>2
<1>4. \A i \in Nat : (call.start_word + i) * W = FirstByte + i * W
  <2> TAKE i \in Nat
  <2> DEFINE at0 == (call.start_word + i) * W
  <2>1. at0 \in Nat /\ at0 + call.start_offset = FirstByte + i * W
    BY WordStarts
  <2> HIDE DEF at0
  <2>2. at0 = FirstByte + i * W
    BY <2>1
  <2> QED
    BY <2>2 DEF at0
<1>5. ASSUME NEW i \in 1..q
      PROVE  WordAt(i - 1) = BytesFrom(FirstByte + (i - 1) * W, W)
  <2>1. i - 1 \in Nat
    BY <1>2
  <2>2. (i - 1) * W + W <= n
    <3>1. (i - 1) * W + W = i * W /\ i * W <= q * W /\ i * W \in Nat
      BY <1>1, <1>2
    <3> QED
      BY <1>2, <1>3, <3>1
  <2>3. WordLen(i - 1) >= W
    <3>1. WordLen(i - 1) >= IF call.start_offset + W <= W
                            THEN call.start_offset + W ELSE W
      BY <1>1, <2>1, <2>2, LenWithin
    <3> QED
      BY <1>1, <3>1
  <2>4. WordLen(i - 1) = W
    <3>1. WordLen(i - 1) \in 0..W
      BY <2>1, WordAtIs
    <3> QED
      BY <1>1, <2>3, <3>1
  <2> QED
    BY <1>4, <2>1, <2>4, WordAtIs
<1>6. FullWordsTo(full, q)
  <2>1. \A i \in 1..q : BytesFrom(FirstByte + (i - 1) * W, W) \in Seq(Int)
    <3> TAKE i \in 1..q
    <3>1. FirstByte + (i - 1) * W \in Int
      BY <1>1, <1>2
    <3> QED
      BY <1>1, <3>1, BytesFromIs
  <2>2. \A i \in 1..q : full[i] = BytesFrom(FirstByte + (i - 1) * W, W)
    BY <1>5
  <2>3. full \in [1..q -> Seq(Int)]
    BY <1>5, <2>1
  <2> HIDE DEF full
  <2>4. full \in Seq(Seq(Int)) /\ Len(full) = q
    BY <1>2, <2>3
  <2> QED
    BY <2>2, <2>4 DEF FullWordsTo
<1>7. CASE e = 0
  <2>1. CopiedWords = full
    <3>1. CopiedWords = full \o <<>>
      BY <1>7 DEF CopiedWords
    <3>2. full \in Seq(Seq(Int))
      BY <1>6 DEF FullWordsTo
    <3> HIDE DEF full
    <3> QED
      BY <3>1, <3>2, ConcatEmptySeq
  <2>2. q # 0 /\ n = q * W
    BY <1>1, <1>2, <1>3, <1>7
  <2>3. Len(full) = q
    BY <1>6 DEF FullWordsTo
  <2> HIDE DEF full
  <2> QED
    BY <1>2, <1>6, <1>7, <2>1, <2>2, <2>3, WholeWordsServe DEF n, W, e
<1>8. CASE e # 0
  <2> DEFINE last == Below(WordAt(q), e)
  <2>1. CopiedWords = Append(full, last)
    <3>1. CopiedWords = full \o <<last>>
      BY <1>8 DEF CopiedWords
    <3> HIDE DEF last, full
    <3>2. full \in Seq(Seq(Int) \cup {last})
      BY <1>6 DEF FullWordsTo
    <3> QED
      BY <3>1, <3>2, AppendIsConcat
  <2>2. WordLen(q) >= e
    <3>1. q * W + e <= n
      BY <1>1, <1>2, <1>3
    <3>2. WordLen(q) >= IF call.start_offset + e <= W
                        THEN call.start_offset + e ELSE W
      BY <1>2, <3>1, LenWithin
    <3>3. WordLen(q) \in 0..W
      BY <1>2, WordAtIs
    <3> QED
      BY <1>1, <1>2, <3>2, <3>3
  <2>3. last = BytesFrom(FirstByte + q * W, e)
    <3>1. last = BytesFrom((call.start_word + q) * W, IF e <= WordLen(q) THEN e ELSE WordLen(q))
      BY <1>2, WordParts
    <3>2. WordLen(q) \in 0..W
      BY <1>2, WordAtIs
    <3> QED
      BY <1>1, <1>2, <1>4, <2>2, <3>1, <3>2
  <2>4. q * W + e <= n /\ e \in Nat
    BY <1>1, <1>2, <1>3
  <2>5. last \in Seq(Int) /\ LastWordServes(last, q, e)
    <3>1. FirstByte + q * W \in Int
      BY <1>1, <1>3
    <3>2. BytesFrom(FirstByte + q * W, e) \in Seq(Int)
      BY <2>4, <3>1, BytesFromIs
    <3>3. last = BytesFrom(FirstByte + q * W, e) \o <<>>
      BY <2>3, <3>2, ConcatEmptySeq
    <3>4. <<>> \in Seq(Int)
      OBVIOUS
    <3> HIDE DEF last, e
    <3> QED
      BY <2>3, <2>4, <3>2, <3>3, <3>4 DEF LastWordServes
  <2>6. q * WordBytes + e = call.n_bytes /\ n_words = q + 1
    BY <1>2, <1>8
  <2> HIDE DEF last, full, e, n, W
  <2>7. ServesBytes(Append(full, last)) /\ Len(Append(full, last)) = q + 1
    BY <1>2, <1>6, <2>4, <2>5, <2>6, AppendedServes
  <2> QED
    BY <2>1, <2>6, <2>7
<1> QED
  BY <1>7, <1>8

(* The ending bytes are those that are left for the last word.             *)
LEMMA EndingBytes ==
  ASSUME call \in ExtractCalls, NEW k \in Nat, NEW n \in 1..WordBytes,
         k * WordBytes + n = call.n_bytes
  PROVE  n_ending_bytes = IF n = WordBytes THEN 0 ELSE n
<1> DEFINE W == WordBytes
           e == n_ending_bytes
<1>1. W \in Nat /\ W > 0 /\ n \in 1..W
  BY ExtractTypes
<1>2. q \in Nat /\ e \in 0..(W - 1) /\ k * W + n = q * W + e
  BY SplitBytes
<1>3. k * W \in Nat /\ q * W \in Nat
  BY <1>1, <1>2
<1>4. CASE q <= k
  <2>1. PICK d \in Nat : k = q + d
    <3>1. k - q \in Nat /\ k = q + (k - q)
      BY <1>2, <1>4
    <3> QED
      BY <3>1
  <2>2. k * W = q * W + d * W /\ d * W \in Nat
    BY <1>1, <1>2, <2>1
  <2>3. e = d * W + n
    <3> HIDE DEF W, e
    <3> QED
      BY <1>1, <1>2, <1>3, <2>2
  <2>4. d = 0
    <3>1. d # 0 => d * W >= W
      BY <1>1
    <3> HIDE DEF W, e
    <3> QED
      BY <1>1, <1>2, <2>2, <2>3, <3>1
  <2> QED
    BY <1>1, <1>2, <2>3, <2>4
<1>5. CASE k < q
  <2>1. PICK d \in Nat : q = k + 1 + d
    <3>1. q - k - 1 \in Nat /\ q = k + 1 + (q - k - 1)
      BY <1>2, <1>5
    <3> QED
      BY <3>1
  <2>2. q * W = k * W + W + d * W /\ d * W \in Nat
    BY <1>1, <1>2, <2>1
  <2>3. n = W + d * W + e
    <3> HIDE DEF W, e
    <3> QED
      BY <1>1, <1>2, <1>3, <2>2
  <2> HIDE DEF W, e
  <2>4. n = W /\ e = 0
    BY <1>1, <1>2, <2>2, <2>3
  <2> QED
    BY <2>4 DEF W, e
<1> QED
  BY <1>2, <1>4, <1>5

(* A last word that is some of the bytes, or all of them.                  *)
LEMMA PartServes ==
  ASSUME LastWordByHint, NEW k \in Nat, NEW n \in Nat, NEW c \in Nat,
         Shipped => c = n, FirstByte + k * WordBytes \in Int,
         NEW word, word = BytesFrom(FirstByte + k * WordBytes, c)
  PROVE  word \in Seq(Int) /\ LastWordServes(word, k, n)
<1>1. word \in Seq(Int)
  BY BytesFromIs
<1>2. word = BytesFrom(FirstByte + k * WordBytes, c) \o <<>> /\ <<>> \in Seq(Int)
  BY <1>1, ConcatEmptySeq
<1> QED
  BY <1>1, <1>2 DEF LastWordServes

(* The last word, whatever the hint on the next one says.                  *)
LEMMA LastWordIs ==
  ASSUME call \in ExtractCalls, LastWordByHint, NEW k \in Nat, NEW n \in 1..WordBytes,
         k * WordBytes + n = call.n_bytes,
         NEW needs_next_word \in HintValues(NeedsNextWord(n), BOOLEAN),
         NEW word \in LastWordsAt(k, n, needs_next_word)
  PROVE  word \in Seq(Int) /\ LastWordServes(word, k, n)
<1> DEFINE W == WordBytes
           o == call.start_offset
           f == FirstByte + k * W
           at0 == (call.start_word + k) * W
<1>1. /\ W \in Nat /\ W > 0 /\ o \in 0..(W - 1) /\ FirstByte \in Nat
      /\ call.length \in Nat /\ FirstByte + call.n_bytes <= call.length
      /\ call.n_bytes \in Nat
  BY ExtractTypes
<1>2. /\ at0 \in Nat /\ at0 + o = f /\ (call.start_word + k + 1) * W = at0 + W
      /\ k * W \in Nat
  BY WordStarts
<1>3. n \in Nat /\ n >= 1 /\ n <= W
  BY <1>1
<1>4. WordLen(k) \in 0..W /\ WordLen(k) >= IF o + n <= W THEN o + n ELSE W
  <2>1. k * W + n <= call.n_bytes
    BY <1>1
  <2>2. WordLen(k) >= IF o + n <= W THEN o + n ELSE W
    BY <1>3, <2>1, LenWithin
  <2>3. WordLen(k) \in 0..W
    BY WordAtIs
  <2> QED
    BY <2>2, <2>3
<1>5. /\ needs_next_word \in BOOLEAN
      /\ Shipped => (needs_next_word <=> n > W - o)
  <2> DEFINE needed == n > W - o
  <2>1. needs_next_word \in IF Shipped THEN {needed} ELSE BOOLEAN
    BY DEF HintValues, NeedsNextWord, avl_bytes_in_word
  <2>2. needed \in BOOLEAN
    BY <1>1, <1>3
  <2>3. CASE Shipped
    <3>1. needs_next_word = needed
      BY <2>1, <2>3
    <3> QED
      BY <2>2, <3>1
  <2>4. CASE ~Shipped
    BY <2>1, <2>4
  <2> QED
    BY <2>3, <2>4
<1>6. Above(WordAt(k), o) = BytesFrom(f, WordLen(k) - o)
  <2>1. Above(WordAt(k), o)
          = BytesFrom(f, IF o <= WordLen(k) THEN WordLen(k) - o ELSE 0)
    BY WordParts, <1>1
  <2> QED
    BY <1>1, <1>3, <1>4, <2>1
<1>7. f \in Nat
  BY <1>1, <1>2
<1>8. FirstByte + k * W + n <= call.length
  BY <1>1, <1>2, <1>3
<1>9. CASE needs_next_word /\ n >= W - o
  <2> DEFINE m == n - (W - o)
  <2>1. m \in 0..o /\ m \in Nat /\ (W - o) + m = n /\ W - o \in Nat
    BY <1>1, <1>3, <1>5, <1>9
  <2>2. WordLen(k) = W
    BY <1>1, <1>3, <1>4, <1>5, <1>9
  <2>3. (call.start_word + (k + 1)) * W = at0 + W /\ at0 + W = f + (W - o)
    <3>1. call.start_word + (k + 1) = call.start_word + k + 1
      BY ExtractTypes
    <3>2. (call.start_word + (k + 1)) * W = at0 + W
      BY <1>2, <3>1
    <3> HIDE DEF at0, f
    <3>3. at0 + W = f + (W - o)
      BY <1>1, <1>2, <1>7
    <3> QED
      BY <3>2, <3>3
  <2>4. WordLen(k + 1) >= m /\ WordLen(k + 1) \in 0..W
    <3>1. (call.start_word + (k + 1)) * W + m <= call.length
      <4>1. f + (W - o) + m <= call.length
        BY <1>1, <1>7, <1>8, <2>1
      <4> HIDE DEF f, at0, m
      <4> QED
        BY <2>3, <4>1
    <3>2. k + 1 \in Nat
      OBVIOUS
    <3>3. WordLen(k + 1) >= IF m <= W THEN m ELSE W
      BY <2>1, <3>1, <3>2, LenReaches
    <3>4. WordLen(k + 1) \in 0..W
      BY <3>2, WordAtIs
    <3> QED
      BY <1>1, <2>1, <3>3, <3>4
  <2>5. Below(WordAt(k + 1), m) = BytesFrom(f + (W - o), m)
    <3>1. k + 1 \in Nat
      OBVIOUS
    <3>2. Below(WordAt(k + 1), m)
            = BytesFrom((call.start_word + (k + 1)) * W,
                        IF m <= WordLen(k + 1) THEN m ELSE WordLen(k + 1))
      BY <2>1, <3>1, WordParts
    <3> HIDE DEF m, f, at0
    <3>3. (IF m <= WordLen(k + 1) THEN m ELSE WordLen(k + 1)) = m
      BY <2>1, <2>4
    <3> QED
      BY <2>3, <3>2, <3>3
  <2>6. word = BytesFrom(f, W - o) \o BytesFrom(f + (W - o), m)
    BY <1>6, <1>9, <2>2, <2>5 DEF LastWordsAt, avl_bytes_in_word
  <2>7. f \in Int /\ W - o \in Nat
    BY <1>7, <2>1
  <2> HIDE DEF m, f
  <2>8. word = BytesFrom(f, (W - o) + m)
    BY <2>1, <2>6, <2>7, BytesJoined
  <2>9. word = BytesFrom(f, n)
    BY <2>1, <2>8
  <2> QED
    BY <1>3, <1>7, <2>9, PartServes DEF f
<1>10. CASE needs_next_word /\ ~(n >= W - o)
  <2> DEFINE c == WordLen(k) - o
  <2>1. c \in Nat /\ c >= n
    BY <1>1, <1>3, <1>4, <1>10
  <2>2. PICK more \in Overrun : word = Above(WordAt(k), o) \o more
    BY <1>10 DEF LastWordsAt, avl_bytes_in_word
  <2>3. more \in Seq(Int)
    <3>1. <<>> \in Seq(Int) /\ <<0>> \in Seq(Int)
      OBVIOUS
    <3>2. more = <<>> \/ more = <<0>>
      BY DEF Overrun, NoByte
    <3> QED
      BY <3>1, <3>2
  <2>4. ~Shipped
    BY <1>5, <1>1, <1>3, <1>10
  <2>5. word = BytesFrom(f, c) \o more
    BY <1>6, <2>2
  <2>6. f \in Int
    BY <1>7
  <2> HIDE DEF c, f
  <2>7. BytesFrom(f, c) \in Seq(Int)
    BY <2>1, <2>6, BytesFromIs
  <2>8. word \in Seq(Int)
    BY <2>3, <2>5, <2>7, ConcatProperties
  <2> QED
    BY <2>1, <2>3, <2>4, <2>5, <2>8 DEF LastWordServes, f
<1>11. CASE ~needs_next_word
  <2> DEFINE rest == WordLen(k) - o
             e == n_ending_bytes
             c == IF e <= rest THEN e ELSE rest
  <2>0. e = (IF n = W THEN 0 ELSE n) /\ e \in Nat
    BY <1>3, EndingBytes
  <2>1. rest \in Nat /\ c \in Nat /\ c <= n
    <3> HIDE DEF e
    <3> QED
      BY <1>1, <1>3, <1>4, <2>0
  <2>2. Shipped => c = n
    <3>1. o # 0
      BY DEF LastWordByHint
    <3> HIDE DEF e
    <3> QED
      BY <1>1, <1>3, <1>4, <1>5, <1>11, <2>0, <3>1
  <2>3. word = Below(BytesFrom(f, rest), e)
    BY <1>6, <1>11 DEF LastWordsAt
  <2>4. f \in Int
    BY <1>7
  <2> HIDE DEF rest, f, e
  <2>5. word = BytesFrom(f, c)
    BY <2>0, <2>1, <2>3, <2>4, BelowIs
  <2> HIDE DEF c
  <2> QED
    BY <2>1, <2>2, <2>4, <2>5, PartServes DEF f
<1> QED
  BY <1>5, <1>9, <1>10, <1>11

-----------------------------------------------------------------------------
(* The words of a hash, five of which it may touch.                        *)
LEMMA HashWords ==
  ASSUME call \in ExtractCalls, call.fn \in HashFns
  PROVE  LET o == call.start_offset
             low == Above(WordAt(0), o) \o WordAt(1) \o Below(WordAt(2), o)
             high == Above(WordAt(2), o) \o WordAt(3) \o Below(WordAt(4), o)
         IN  /\ low \o high = AskedBytes
             /\ Len(low) = Len(high)
<1> DEFINE W == WordBytes
           o == call.start_offset
           f == FirstByte
           s == call.start_word
           At0(i) == (s + i) * W
<1>1. /\ W \in Nat /\ W > 0 /\ o \in 0..(W - 1) /\ f \in Nat
      /\ call.length \in Nat /\ f + 4 * W <= call.length /\ call.n_bytes = 4 * W
  <2>1. call.n_bytes = 4 * W
    BY DEF ExtractCalls, HashBytes
  <2> QED
    BY <2>1, ExtractTypes
<1>2. ASSUME NEW i \in 0..4
      PROVE  /\ At0(i) \in Nat /\ At0(i) + o = f + i * W /\ i * W \in Nat
             /\ WordLen(i) \in 0..W
  BY WordStarts, WordAtIs
<1>3. ASSUME NEW i \in 0..3
      PROVE  WordLen(i) = W
  <2>1. i * W + W <= call.n_bytes
    BY <1>1
  <2>2. WordLen(i) >= IF o + W <= W THEN o + W ELSE W
    BY <1>1, <2>1, LenWithin
  <2> QED
    BY <1>1, <1>2, <2>2
<1>4. WordLen(4) >= o
  <2>1. 4 * W + 0 <= call.n_bytes
    BY <1>1
  <2>2. WordLen(4) >= IF o + 0 <= W THEN o + 0 ELSE W
    BY <2>1, LenWithin
  <2> QED
    BY <1>1, <2>2
<1>5. ASSUME NEW i \in 0..3
      PROVE  /\ Above(WordAt(i), o) = BytesFrom(f + i * W, W - o)
             /\ WordAt(i) = BytesFrom(f + i * W - o, W)
  <2>1. Above(WordAt(i), o)
          = BytesFrom(f + i * W, IF o <= WordLen(i) THEN WordLen(i) - o ELSE 0)
    BY <1>1, WordParts
  <2>2. WordAt(i) = BytesFrom(At0(i), WordLen(i))
    BY WordAtIs
  <2>3. At0(i) = f + i * W - o
    <3>1. At0(i) \in Nat /\ At0(i) + o = f + i * W /\ i * W \in Nat
      BY <1>2
    <3> HIDE DEF At0
    <3> QED
      BY <1>1, <3>1
  <2> HIDE DEF At0
  <2> QED
    BY <1>1, <1>3, <2>1, <2>2, <2>3
<1>6. ASSUME NEW i \in {2, 4}
      PROVE  Below(WordAt(i), o) = BytesFrom(f + i * W - o, o)
  <2>1. Below(WordAt(i), o)
          = BytesFrom(At0(i), IF o <= WordLen(i) THEN o ELSE WordLen(i))
    BY <1>1, WordParts
  <2>2. At0(i) = f + i * W - o
    <3>1. At0(i) \in Nat /\ At0(i) + o = f + i * W /\ i * W \in Nat
      BY <1>2
    <3> HIDE DEF At0
    <3> QED
      BY <1>1, <3>1
  <2>3. WordLen(i) >= o /\ WordLen(i) \in Nat
    BY <1>1, <1>2, <1>3, <1>4
  <2> HIDE DEF At0
  <2> QED
    BY <1>1, <2>1, <2>2, <2>3
<1>7. ASSUME NEW g \in Int
      PROVE  BytesFrom(g, W - o) \o BytesFrom(g + W - o, W) \o BytesFrom(g + 2 * W - o, o)
               = BytesFrom(g, 2 * W)
  <2>1. W - o \in Nat /\ o \in Nat /\ (W - o) + W \in Nat
        /\ g + W - o = g + (W - o) /\ g + 2 * W - o = g + ((W - o) + W)
        /\ ((W - o) + W) + o = 2 * W
    BY <1>1
  <2> HIDE DEF W, o
  <2>2. BytesFrom(g, W - o) \o BytesFrom(g + (W - o), W) = BytesFrom(g, (W - o) + W)
    BY <1>1, <2>1, BytesJoined
  <2>3. BytesFrom(g, (W - o) + W) \o BytesFrom(g + ((W - o) + W), o)
          = BytesFrom(g, ((W - o) + W) + o)
    BY <1>1, <2>1, BytesJoined
  <2> QED
    BY <2>1, <2>2, <2>3
<1> DEFINE low == Above(WordAt(0), o) \o WordAt(1) \o Below(WordAt(2), o)
           high == Above(WordAt(2), o) \o WordAt(3) \o Below(WordAt(4), o)
<1>8. low = BytesFrom(f, 2 * W)
  <2>1. /\ Above(WordAt(0), o) = BytesFrom(f, W - o)
        /\ WordAt(1) = BytesFrom(f + W - o, W)
        /\ Below(WordAt(2), o) = BytesFrom(f + 2 * W - o, o)
    <3>1. f + 0 * W = f /\ f + 1 * W - o = f + W - o
      BY <1>1
    <3>2. Above(WordAt(0), o) = BytesFrom(f + 0 * W, W - o)
      BY <1>5
    <3>3. WordAt(1) = BytesFrom(f + 1 * W - o, W)
      BY <1>5
    <3>4. Below(WordAt(2), o) = BytesFrom(f + 2 * W - o, o)
      BY <1>6
    <3> HIDE DEF f, W, o
    <3> QED
      BY <3>1, <3>2, <3>3, <3>4
  <2>2. f \in Int
    BY <1>1
  <2> HIDE DEF f, W, o
  <2> QED
    BY <1>7, <2>1, <2>2
<1>9. high = BytesFrom(f + 2 * W, 2 * W)
  <2> DEFINE g == f + 2 * W
  <2>1. /\ Above(WordAt(2), o) = BytesFrom(g, W - o)
        /\ WordAt(3) = BytesFrom(g + W - o, W)
        /\ Below(WordAt(4), o) = BytesFrom(g + 2 * W - o, o)
    <3>1. f + 3 * W - o = g + W - o /\ f + 4 * W - o = g + 2 * W - o
      BY <1>1
    <3>2. Above(WordAt(2), o) = BytesFrom(f + 2 * W, W - o)
      BY <1>5
    <3>3. WordAt(3) = BytesFrom(f + 3 * W - o, W)
      BY <1>5
    <3>4. Below(WordAt(4), o) = BytesFrom(f + 4 * W - o, o)
      BY <1>6
    <3> QED
      BY <3>1, <3>2, <3>3, <3>4
  <2>2. g \in Int
    BY <1>1
  <2> HIDE DEF g, W, o
  <2>3. high = BytesFrom(g, 2 * W)
    BY <1>7, <2>1, <2>2
  <2> QED
    BY <2>3 DEF g
<1>10. f \in Int /\ 2 * W \in Nat /\ 2 * W + 2 * W = 4 * W /\ f + 2 * W \in Int
  BY <1>1
<1>11. AskedBytes = BytesFrom(f, 4 * W)
  BY <1>1 DEF AskedBytes, BytesFrom, FirstByte
<1>12. low \o high = BytesFrom(f, 4 * W)
  <2> HIDE DEF low, high, f
  <2>1. low \o high = BytesFrom(f, 2 * W + 2 * W)
    BY <1>8, <1>9, <1>10, BytesJoined
  <2> QED
    BY <1>10, <2>1
<1>13. Len(low) = 2 * W /\ Len(high) = 2 * W
  BY <1>8, <1>9, <1>10, BytesFromIs
<1> QED
  BY <1>11, <1>12, <1>13

-----------------------------------------------------------------------------
(* Between the steps of an extraction: the words of the result so far and  *)
(* the rest of the word of the array they end in.  A hint may have made    *)
(* more turns than there are words; such a call is never answered.         *)
WordsCut ==
  call.fn \in BytesFns /\ outcome = InProgress /\ at # "start" =>
    LET k == Len(ids.res)
    IN  /\ at \in {"loop", "last"} /\ call.n_bytes > 0
        /\ ids.res \in Seq(Seq(Int))
        /\ \A i \in 1..k : i <= q =>
             ids.res[i] = BytesFrom(FirstByte + (i - 1) * WordBytes, WordBytes)
        /\ ids.current_word = Above(WordAt(k), call.start_offset)
        /\ call.start_offset # 0
        /\ at = "last" => /\ k <= q /\ n_words = k + 1
                          /\ call.n_bytes - WordBytes * k \in 1..WordBytes
                          /\ LastWordByHint

(* What has been returned.                                                 *)
WordsReturned ==
  /\ call.fn \in BytesFns /\ Answered =>
       /\ ServesBytes(outcome.value.words)
       /\ outcome.value.n_words = Len(outcome.value.words)
  /\ call.fn \in HashFns /\ Answered =>
       /\ outcome.value.low \o outcome.value.high = AskedBytes
       /\ Len(outcome.value.low) = Len(outcome.value.high)

ExtractInv ==
  call.fn \in BytesFns \cup HashFns => WordsCut /\ WordsReturned

(* What has been returned are the bytes asked for.                         *)
LEMMA ExtractInvCorrect == call \in Calls /\ ExtractInv => BytesExtracted
<1> SUFFICES ASSUME call \in Calls, ExtractInv PROVE BytesExtracted
  OBVIOUS
<1>1. call.fn \in BytesFns \cup HashFns => call \in ExtractCalls
  BY DEF Calls, DivmodCalls, WordCalls, NoPaddingCalls, LeadingZeroesCalls,
         NibbleCalls, HeaderCalls, ExecuteCalls, SumCalls, DivmodFns, WordFns,
         NoPaddingFns, LeadingZeroesFns, NibbleFns, BytesFns, HashFns,
         HeaderHashFns, NumberFns, ExecuteFns, SumFns
<1> QED
  BY <1>1, ServedIsExtracted DEF ExtractInv, WordsReturned, BytesExtracted,
         ServesBytes

(* The steps of an extraction.                                             *)
LEMMA StatusesDiffer ==
  /\ InProgress.status # "answered" /\ Refused.status # "answered"
  /\ InProgress # Refused
<1>1. InProgress.status = "in progress" /\ Refused.status = "refused"
  BY DEF InProgress, Refused
<1>2. /\ "in progress" # "answered" /\ "refused" # "answered"
      /\ "in progress" # "refused"
  OBVIOUS
<1> QED
  BY <1>1, <1>2

(* What is asked for does not change.                                      *)
LEMMA SameCall ==
  ASSUME call' = call
  PROVE  /\ n_words' = n_words /\ FirstByte' = FirstByte /\ q' = q
         /\ LastWordByHint' <=> LastWordByHint
         /\ Shipped' <=> Shipped
  BY DEF n_words, n_ending_bytes, q, FirstByte, LastWordByHint, Shipped

(* Words that serve the call may be returned.                              *)
LEMMA ReturnedWords ==
  ASSUME NEW words, ServesBytes(words), call' = call, call.fn \in BytesFns,
         Return([words |-> words, n_words |-> Len(words)])
  PROVE  ExtractInv'
<1>1. outcome' = Answer([words |-> words, n_words |-> Len(words)])
  BY DEF Return
<1>2. outcome'.status = "answered" /\ outcome'.value.words = words
      /\ outcome'.value.n_words = Len(words)
  BY <1>1 DEF Answer
<1>3. outcome' # InProgress
  BY <1>2, StatusesDiffer
<1>4. WordsCut'
  BY <1>3 DEF WordsCut, InProgress
<1>5. ServesBytes(outcome.value.words)'
  BY <1>2, SameCall DEF ServesBytes, LastWordServes
<1>6. WordsReturned'
  <2>1. call'.fn \notin HashFns
    BY DEF BytesFns, HashFns
  <2> QED
    BY <1>2, <1>5, <2>1 DEF WordsReturned
<1> QED
  BY <1>4, <1>6 DEF ExtractInv

(* A call that is not answered keeps what holds between the steps.         *)
LEMMA NotReturned ==
  ASSUME outcome' \in {InProgress, Refused}, WordsCut'
  PROVE  ExtractInv'
<1>1. outcome'.status # "answered"
  BY StatusesDiffer
<1> QED
  BY <1>1 DEF ExtractInv, WordsReturned, Answered

(* A refused call keeps the invariant.                                     *)
LEMMA RefusedExtract ==
  ASSUME outcome' = Refused
  PROVE  ExtractInv'
<1>1. outcome' # InProgress
  BY StatusesDiffer
<1>2. WordsCut'
  BY <1>1 DEF WordsCut, InProgress
<1> QED
  BY <1>2, NotReturned

(* Between two turns of the loop k words have been cut.                    *)
LEMMA WordsSoFar ==
  ASSUME WordsCut, call.fn \in BytesFns, outcome = InProgress, at = "loop"
  PROVE  \E k \in Nat :
           /\ k = Len(ids.res) /\ call.n_bytes > 0 /\ ids.res \in Seq(Seq(Int))
           /\ \A i \in 1..k : i <= q =>
                ids.res[i] = BytesFrom(FirstByte + (i - 1) * WordBytes, WordBytes)
           /\ ids.current_word = Above(WordAt(k), call.start_offset)
           /\ call.start_offset # 0
<1>1. at # "start"
  OBVIOUS
<1>2. /\ call.n_bytes > 0 /\ ids.res \in Seq(Seq(Int))
      /\ \A i \in 1..Len(ids.res) : i <= q =>
           ids.res[i] = BytesFrom(FirstByte + (i - 1) * WordBytes, WordBytes)
      /\ ids.current_word = Above(WordAt(Len(ids.res)), call.start_offset)
      /\ call.start_offset # 0
  BY <1>1, Zenon DEF WordsCut
<1>3. Len(ids.res) \in Nat
  BY <1>2, LenProperties
<1> WITNESS Len(ids.res) \in Nat
<1> QED
  BY <1>2, Zenon

(* Every turn of the loop and every word behind it keeps the invariant.    *)
LEMMA ExtractInvStep ==
  ASSUME call \in ExtractCalls, call.fn \in BytesFns \cup HashFns, ExtractInv,
         call' = call, RlpExtractNext \/ UNCHANGED callVars
  PROVE  ExtractInv'
<1> DEFINE W == WordBytes
           o == call.start_offset
           n == call.n_bytes
<1>0. /\ W \in Nat /\ W > 0 /\ o \in 0..(W - 1) /\ n \in Nat
      /\ q \in Nat /\ n_ending_bytes \in 0..(W - 1) /\ n = q * W + n_ending_bytes
      /\ n_words = IF n_ending_bytes = 0 THEN q ELSE q + 1
  BY ExtractTypes, SplitBytes
<1>1. CASE ExtractAligned
  <2>1. call.fn \in BytesFns /\ (n = 0 \/ o = 0)
    BY <1>1 DEF ExtractAligned, At
  <2>2. CASE n = 0
    <3>1. outcome' = Refused
      BY <1>1, <2>2 DEF ExtractAligned, Refuse
    <3> QED
      BY <3>1, RefusedExtract
  <2>3. CASE n # 0
    <3>1. Return([words |-> CopiedWords, n_words |-> n_words])
      BY <1>1, <2>3 DEF ExtractAligned
    <3>2. ServesBytes(CopiedWords) /\ Len(CopiedWords) = n_words
      BY <1>0, <2>1, <2>3, CopiedServe
    <3> QED
      BY <2>1, <3>1, <3>2, ReturnedWords
  <2> QED
    BY <2>2, <2>3
<1>2. CASE ExtractUnaligned
  <2>1. /\ call.fn \in BytesFns /\ n > 0 /\ o > 0 /\ outcome = InProgress
        /\ ids' = [res |-> <<>>, current_word |-> Above(WordAt(0), o)]
        /\ at' = (IF n_words = 1 THEN "last" ELSE "loop") /\ outcome' = outcome
    BY <1>2 DEF ExtractUnaligned, At, GoTo
  <2>2. ids'.res = <<>> /\ ids'.current_word = Above(WordAt(0), o) /\ Len(ids'.res) = 0
    BY <2>1
  <2>3. at' = "last" => /\ 0 <= q /\ n_words = 0 + 1 /\ n - W * 0 \in 1..W
                        /\ LastWordByHint
    <3>1. ASSUME n_words = 1
          PROVE  n - W * 0 \in 1..W
      <4>1. q * W = IF n_ending_bytes = 0 THEN W ELSE 0
        BY <1>0, <3>1
      <4> QED
        BY <1>0, <2>1, <4>1
    <3>2. n_words = 1 => LastWordByHint
      BY <1>0, <2>1 DEF LastWordByHint
    <3> QED
      BY <1>0, <2>1, <3>1, <3>2
  <2>4. WordAt(0)' = WordAt(0)
    BY DEF WordAt, ArrayWord
  <2>5. WordsCut'
    <3>1. /\ at' \in {"loop", "last"} /\ call'.n_bytes > 0
          /\ call'.start_offset # 0 /\ ids'.res \in Seq(Seq(Int))
          /\ \A i \in 1..Len(ids'.res) : FALSE
      BY <2>1, <2>2
    <3>2. ids'.current_word = (Above(WordAt(Len(ids.res)), call.start_offset))'
      BY <2>2, <2>4 DEF Above
    <3> QED
      BY <2>2, <2>3, <3>1, <3>2, SameCall DEF WordsCut
  <2> QED
    BY <2>1, <2>5, NotReturned
<1>3. CASE CutWord
  <2>1. /\ call.fn \in BytesFns /\ outcome = InProgress /\ at = "loop"
        /\ WordsCut
    BY <1>3 DEF CutWord, At, ExtractInv
  <2>2. PICK k \in Nat :
        /\ k = Len(ids.res) /\ n > 0 /\ ids.res \in Seq(Seq(Int))
        /\ \A i \in 1..k : i <= q => ids.res[i] = BytesFrom(FirstByte + (i - 1) * W, W)
        /\ ids.current_word = Above(WordAt(k), o) /\ o # 0
    BY <2>1, WordsSoFar, Zenon
  <2>3. CASE outcome' = Refused
    BY <2>3, RefusedExtract
  <2>4. CASE outcome' # Refused
    <3> DEFINE new == ids.current_word \o Below(WordAt(k + 1), o)
    <3>1. /\ ids' = [res |-> Append(ids.res, new),
                     current_word |-> Above(WordAt(k + 1), o)]
          /\ at' = "loop" /\ outcome' = InProgress
      BY <1>3, <2>1, <2>2, <2>4 DEF CutWord, GoTo, Refuse
    <3>2. ids'.res = Append(ids.res, new)
          /\ ids'.current_word = Above(WordAt(k + 1), o)
      BY <3>1
    <3>3. new \in Seq(Int)
      <4>1. Above(WordAt(k), o) \in Seq(Int)
        <5> DEFINE c == IF o <= WordLen(k) THEN WordLen(k) - o ELSE 0
        <5>1. Above(WordAt(k), o) = BytesFrom(FirstByte + k * W, c)
          BY <1>0, <2>2, WordParts
        <5>2. c \in Nat
          <6>1. WordLen(k) \in 0..W
            BY <2>2, WordAtIs
          <6> QED
            BY <1>0, <6>1
        <5>3. FirstByte + k * W \in Int
          BY <1>0, <2>2, ExtractTypes
        <5> HIDE DEF c
        <5> QED
          BY <5>1, <5>2, <5>3, BytesFromIs
      <4>2. Below(WordAt(k + 1), o) \in Seq(Int)
        <5> DEFINE c == IF o <= WordLen(k + 1) THEN o ELSE WordLen(k + 1)
        <5>1. k + 1 \in Nat /\ o \in Nat
          BY <1>0, <2>2
        <5>2. Below(WordAt(k + 1), o) = BytesFrom((call.start_word + (k + 1)) * W, c)
          BY <5>1, WordParts
        <5>3. c \in Nat
          <6>1. WordLen(k + 1) \in 0..W
            BY <5>1, WordAtIs
          <6> QED
            BY <1>0, <6>1
        <5>4. (call.start_word + (k + 1)) * W \in Int
          BY <5>1, WordStarts
        <5> HIDE DEF c
        <5> QED
          BY <5>2, <5>3, <5>4, BytesFromIs
      <4> HIDE DEF o, W
      <4> QED
        BY <2>2, <4>1, <4>2
    <3>4. k + 1 <= q => new = BytesFrom(FirstByte + k * W, W)
      <4> SUFFICES ASSUME k + 1 <= q
                   PROVE  new = BytesFrom(FirstByte + k * W, W)
        OBVIOUS
      <4>1. (k + 1) * W <= n
        <5>1. (k + 1) * W <= q * W /\ (k + 1) * W \in Nat /\ q * W \in Nat
          <6>1. k + 1 \in Nat /\ q \in Nat /\ k + 1 <= q /\ W \in Nat
            BY <1>0
          <6> HIDE DEF W
          <6> QED
            BY <6>1, TimesMonotone
        <5> QED
          BY <1>0, <5>1
      <4> QED
        BY <2>2, <4>1, JoinedWord
    <3> HIDE DEF new
    <3>5. /\ ids'.res \in Seq(Seq(Int)) /\ Len(ids'.res) = k + 1
          /\ \A i \in 1..k : ids'.res[i] = ids.res[i]
          /\ ids'.res[k + 1] = new
      BY <2>2, <3>2, <3>3, AppendProperties
    <3>6. \A i \in 1..(k + 1) : i <= q =>
            ids'.res[i] = BytesFrom(FirstByte + (i - 1) * W, W)
      <4> TAKE i \in 1..(k + 1)
      <4>1. CASE i \in 1..k
        BY <2>2, <3>5, <4>1
      <4>2. CASE i = k + 1
        <5>1. i - 1 = k
          BY <2>2, <4>2
        <5> QED
          BY <3>4, <3>5, <4>2, <5>1
      <4>3. i \in 1..k \/ i = k + 1
        OBVIOUS
      <4> QED
        BY <4>1, <4>2, <4>3
    <3>7. WordsCut'
      <4>1. /\ \A i \in Nat : WordAt(i)' = WordAt(i)
            /\ q' = q /\ FirstByte' = FirstByte
        BY DEF WordAt, ArrayWord, q, FirstByte
      <4>2. PICK j \in Nat : j = k + 1
        BY <2>2
      <4>3. WordAt(j)' = WordAt(j) /\ Len(ids'.res) = j
        BY <3>5, <4>1, <4>2
      <4>4. ids'.current_word = (Above(WordAt(k + 1), call.start_offset))'
        BY <3>2, <4>2, <4>3 DEF Above
      <4>5. /\ at' \in {"loop", "last"} /\ at' # "last" /\ call'.n_bytes > 0
            /\ call'.start_offset # 0
        BY <2>2, <3>1
      <4> QED
        BY <3>5, <3>6, <4>1, <4>4, <4>5 DEF WordsCut
    <3> QED
      BY <3>1, <3>7, NotReturned
  <2> QED
    BY <2>3, <2>4
<1>4. CASE EndLoop
  <2>1. /\ call.fn \in BytesFns /\ outcome = InProgress /\ at = "loop"
        /\ WordsCut
    BY <1>4 DEF EndLoop, At, ExtractInv
  <2>2. PICK k \in Nat :
        /\ k = Len(ids.res) /\ n > 0 /\ ids.res \in Seq(Seq(Int))
        /\ \A i \in 1..k : i <= q => ids.res[i] = BytesFrom(FirstByte + (i - 1) * W, W)
        /\ ids.current_word = Above(WordAt(k), o) /\ o # 0
    BY <2>1, WordsSoFar, Zenon
  <2>3. CASE k # q
    <3>1. outcome' = Refused
      BY <1>4, <2>2, <2>3 DEF EndLoop, LoopWords, Refuse
    <3> QED
      BY <3>1, RefusedExtract
  <2>4. CASE k = q /\ n_ending_bytes = 0
    <3>1. Return([words |-> ids.res, n_words |-> Len(ids.res)])
      BY <1>4, <2>2, <2>4 DEF EndLoop, LoopWords
    <3>2. q # 0 /\ n = q * W /\ n_words = q
      <4>1. q = 0 => q * W = 0
        BY <1>0
      <4>2. n = q * W
        BY <1>0, <2>4
      <4> QED
        BY <1>0, <2>2, <2>4, <4>1, <4>2
    <3>3. FullWordsTo(ids.res, q)
      BY <2>2, <2>4 DEF FullWordsTo
    <3>4. ServesBytes(ids.res)
      BY <1>0, <3>2, <3>3, WholeWordsServe
    <3> QED
      BY <2>1, <3>1, <3>4, ReturnedWords
  <2>5. CASE k = q /\ n_ending_bytes # 0
    <3>1. at' = "last" /\ ids' = ids /\ outcome' = InProgress
      BY <1>4, <2>1, <2>2, <2>5 DEF EndLoop, LoopWords, GoTo
    <3>2. k <= q /\ n_words = k + 1 /\ n - W * k \in 1..W
      <4> DEFINE p == q * W
                 e == n_ending_bytes
      <4>1. W * k = p /\ p \in Nat
        BY <1>0, <2>5
      <4>2. n = p + e /\ e \in 1..W
        BY <1>0, <2>5
      <4>3. k <= q /\ n_words = k + 1
        BY <1>0, <2>5
      <4>4. n - W * k = e
        <5>1. p \in Nat /\ e \in Nat
          BY <4>1, <4>2
        <5> HIDE DEF p, e, n, W
        <5> QED
          BY <4>1, <4>2, <5>1
      <4> QED
        BY <4>2, <4>3, <4>4
    <3>3. WordsCut'
      <4>1. \A i \in Nat : WordAt(i)' = WordAt(i)
        BY DEF WordAt, ArrayWord
      <4>0. LastWordByHint
        BY <2>2, <2>5 DEF LastWordByHint
      <4>2. WordAt(k)' = WordAt(k)
        BY <2>2, <3>1, <4>1
      <4>3. ids'.current_word = (Above(WordAt(Len(ids.res)), call.start_offset))'
        BY <2>2, <3>1, <4>2 DEF Above
      <4> QED
        BY <2>2, <3>1, <3>2, <4>0, <4>3, SameCall DEF WordsCut
    <3> QED
      BY <3>1, <3>3, NotReturned
  <2> QED
    BY <2>3, <2>4, <2>5
<1>5. CASE ExtractLastWord
  <2>1. /\ call.fn \in BytesFns /\ outcome = InProgress /\ at = "last"
        /\ WordsCut
    BY <1>5 DEF ExtractLastWord, At, ExtractInv
  <2>2. PICK k \in Nat :
        /\ k = Len(ids.res) /\ n > 0 /\ ids.res \in Seq(Seq(Int))
        /\ \A i \in 1..k : i <= q => ids.res[i] = BytesFrom(FirstByte + (i - 1) * W, W)
        /\ k <= q /\ n_words = k + 1 /\ n - W * k \in 1..W /\ LastWordByHint
    <3> DEFINE len == Len(ids.res)
    <3>1. /\ n > 0 /\ ids.res \in Seq(Seq(Int))
          /\ \A i \in 1..len : i <= q => ids.res[i] = BytesFrom(FirstByte + (i - 1) * W, W)
          /\ len <= q /\ n_words = len + 1 /\ n - W * len \in 1..W
          /\ LastWordByHint
      BY <2>1 DEF WordsCut
    <3>2. len \in Nat
      BY <3>1
    <3> HIDE DEF n, W
    <3> QED
      BY <3>1, <3>2
  <2>3. CASE outcome' = Refused
    BY <2>3, RefusedExtract
  <2>4. CASE outcome' # Refused
    <3> DEFINE m == n - W * k
    <3>0. PICK needs_next_word \in HintValues(NeedsNextWord(m), BOOLEAN) :
            \E word \in LastWordsAt(k, m, needs_next_word) :
               Return([words |-> Append(ids.res, word), n_words |-> n_words])
      BY <1>5, <2>2, <2>4 DEF ExtractLastWord, Refuse
    <3>1. PICK word \in LastWordsAt(k, m, needs_next_word) :
            Return([words |-> Append(ids.res, word), n_words |-> n_words])
      BY <3>0
    <3>2. k * W + m = n /\ m \in 1..W /\ m \in Nat /\ k * W \in Nat
      <4> DEFINE p == k * W
      <4>1. W * k = p /\ p \in Nat
        BY <1>0
      <4>2. m = n - p /\ m \in 1..W /\ n \in Nat /\ W \in Nat
        BY <1>0, <2>2, <4>1
      <4> HIDE DEF m, p, n, W
      <4>3. p + m = n /\ m \in 1..W /\ m \in Nat /\ p \in Nat
        BY <4>1, <4>2
      <4> QED
        BY <4>3 DEF p
    <3> HIDE DEF m
    <3>3. word \in Seq(Int) /\ LastWordServes(word, k, m)
      <4>1. k * WordBytes + m = call.n_bytes /\ m \in 1..WordBytes
        BY <3>2
      <4> QED
        BY <2>2, <4>1, LastWordIs
    <3>4. FullWordsTo(ids.res, k)
      <4>1. q \in Nat /\ k \in Nat /\ k <= q
        BY <1>0, <2>2
      <4>2. \A i \in 1..k : i <= q
        BY <4>1
      <4> QED
        BY <2>2, <4>2 DEF FullWordsTo
    <3>6. ServesBytes(Append(ids.res, word)) /\ Len(Append(ids.res, word)) = k + 1
      <4>1. k * WordBytes + m = call.n_bytes
        BY <3>2
      <4> QED
        BY <2>2, <3>2, <3>3, <3>4, <4>1, AppendedServes
    <3>7. Return([words   |-> Append(ids.res, word),
                  n_words |-> Len(Append(ids.res, word))])
      BY <2>2, <3>1, <3>6
    <3> QED
      BY <2>1, <3>6, <3>7, ReturnedWords
  <2> QED
    BY <2>3, <2>4
<1>6. CASE ExtractHash
  <2> DEFINE low == Above(WordAt(0), o) \o WordAt(1) \o Below(WordAt(2), o)
             high == Above(WordAt(2), o) \o WordAt(3) \o Below(WordAt(4), o)
  <2>1. call.fn \in HashFns /\ call'.fn \notin BytesFns
    BY <1>6 DEF ExtractHash, At, HashFns, BytesFns
  <2>2. CASE outcome' = Refused
    BY <2>2, RefusedExtract
  <2>3. CASE outcome' # Refused
    <3>1. outcome' = Answer([low |-> low, high |-> high])
      BY <1>6, <2>3 DEF ExtractHash, Return, Refuse
    <3>2. low \o high = AskedBytes /\ Len(low) = Len(high)
      BY <2>1, HashWords
    <3> HIDE DEF low, high
    <3>3. outcome'.value.low = low /\ outcome'.value.high = high
      BY <3>1 DEF Answer
    <3>4. AskedBytes' = AskedBytes
      BY DEF AskedBytes
    <3> QED
      BY <2>1, <3>2, <3>3, <3>4 DEF ExtractInv, WordsCut, WordsReturned
  <2> QED
    BY <2>2, <2>3
<1>7. CASE UNCHANGED callVars
  <2>1. call' = call /\ at' = at /\ ids' = ids /\ outcome' = outcome
    BY <1>7 DEF callVars
  <2>2. /\ \A i : WordAt(i)' = WordAt(i)
        /\ AskedBytes' = AskedBytes
    BY DEF WordAt, ArrayWord, AskedBytes
  <2>3. WordsCut'
    <3>1. (Above(WordAt(Len(ids.res)), call.start_offset))'
            = Above(WordAt(Len(ids.res)), call.start_offset)
      BY <2>1, <2>2 DEF Above
    <3> QED
      BY <2>1, <2>2, <3>1, SameCall DEF ExtractInv, WordsCut
  <2>4. WordsReturned'
    <3>1. ServesBytes(outcome.value.words)' <=> ServesBytes(outcome.value.words)
      BY <2>1, SameCall DEF ServesBytes, LastWordServes
    <3> QED
      BY <2>1, <2>2, <3>1 DEF ExtractInv, WordsReturned, Answered
  <2> QED
    BY <2>3, <2>4 DEF ExtractInv
<1> QED
  BY <1>1, <1>2, <1>3, <1>4, <1>5, <1>6, <1>7 DEF RlpExtractNext

-----------------------------------------------------------------------------
(* Powers and digits.                                                      *)

(* The recursive definition of the powers of a base unfolds.               *)
LEMMA PowerUnfold ==
  ASSUME NEW base \in Nat
  PROVE  /\ Power(base) \in [Nat -> Nat]
         /\ Power(base)[0] = 1
         /\ \A n \in Nat : Power(base)[n + 1] = base * Power(base)[n]
<1> DEFINE next == [n \in Nat |-> [v \in Nat |-> base * v]]
<1>1. PICK f : Iterates(f, Nat, 1, next)
  <2>1. next \in [Nat -> [Nat -> Nat]] /\ 1 \in Nat
    OBVIOUS
  <2> HIDE DEF next
  <2> QED
    BY <2>1, PrimitiveRecursion
<1>2. /\ f \in [Nat -> Nat] /\ f[0] = 1
      /\ \A n \in Nat : f[n + 1] = base * f[n]
  <2>1. \A n \in Nat : f[n] \in Nat
    BY <1>1 DEF Iterates
  <2>2. \A n \in Nat : n + 1 \in Nat /\ next[n + 1][f[n]] = base * f[n]
    BY <2>1
  <2> QED
    BY <1>1, <2>2 DEF Iterates
<1>3. f = [n \in Nat |-> IF n = 0 THEN 1 ELSE base * f[n - 1]]
  <2>1. ASSUME NEW n \in Nat, n # 0
        PROVE  f[n] = base * f[n - 1]
    <3>1. n - 1 \in Nat /\ (n - 1) + 1 = n
      BY <2>1
    <3> QED
      BY <1>2, <3>1
  <2> QED
    BY <1>2, <2>1
<1>4. Power(base) = [n \in Nat |-> IF n = 0 THEN 1 ELSE base * Power(base)[n - 1]]
  BY <1>3 DEF Power
<1>5. \A n \in Nat : Power(base)[n] = f[n]
  <2> DEFINE E == {n \in Nat : Power(base)[n] = f[n]}
  <2>1. 0 \in E
    BY <1>2, <1>4
  <2>2. ASSUME NEW n \in Nat, n \in E
        PROVE  n + 1 \in E
    <3>1. n + 1 \in Nat /\ n + 1 # 0 /\ (n + 1) - 1 = n
      OBVIOUS
    <3>2. Power(base)[n + 1] = base * Power(base)[n]
      BY <1>4, <3>1
    <3> QED
      BY <1>2, <2>2, <3>1, <3>2
  <2> HIDE DEF E
  <2>3. \A n \in Nat : n \in E
    BY <2>1, <2>2, NatSetInduction
  <2> QED
    BY <2>3 DEF E
<1>6. Power(base) = f
  BY <1>2, <1>4, <1>5
<1> QED
  BY <1>2, <1>6

(* The power of a sum of exponents.                                        *)
LEMMA PowerSum ==
  ASSUME NEW base \in Nat, NEW i \in Nat
  PROVE  \A d \in Nat : Power(base)[i + d] = Power(base)[d] * Power(base)[i]
<1> DEFINE P == Power(base)
           E == {d \in Nat : P[i + d] = P[d] * P[i]}
<1>1. /\ P \in [Nat -> Nat] /\ P[0] = 1
      /\ \A n \in Nat : P[n + 1] = base * P[n]
  BY PowerUnfold
<1> HIDE DEF P
<1>2. 0 \in E
  BY <1>1
<1>3. ASSUME NEW d \in Nat, d \in E
      PROVE  d + 1 \in E
  <2>1. P[i + (d + 1)] = base * P[i + d] /\ P[d + 1] = base * P[d]
    BY <1>1
  <2>2. P[i] \in Nat /\ P[d] \in Nat
    BY <1>1
  <2>3. base * (P[d] * P[i]) = (base * P[d]) * P[i]
    BY <2>2
  <2> QED
    BY <1>3, <2>1, <2>3
<1> HIDE DEF E
<1>4. \A d \in Nat : d \in E
  BY <1>2, <1>3, NatSetInduction
<1> QED
  BY <1>4 DEF E, P

(* Powers of a base above 1 exceed their exponent.                         *)
LEMMA PowerExceeds ==
  ASSUME NEW base \in Nat, base > 1
  PROVE  \A n \in Nat : Power(base)[n] \in Nat /\ Power(base)[n] >= n + 1
<1> DEFINE P == Power(base)
           E == {n \in Nat : P[n] >= n + 1}
<1>1. /\ P \in [Nat -> Nat] /\ P[0] = 1
      /\ \A n \in Nat : P[n + 1] = base * P[n]
  BY PowerUnfold
<1> HIDE DEF P
<1>2. 0 \in E
  BY <1>1
<1>3. ASSUME NEW n \in Nat, n \in E
      PROVE  n + 1 \in E
  <2>1. P[n + 1] = base * P[n] /\ P[n] \in Nat /\ P[n] >= n + 1
    BY <1>1, <1>3
  <2>2. base * P[n] = P[n] + (base - 1) * P[n]
    BY <2>1
  <2>3. (base - 1) * P[n] >= 1 * P[n]
    <3>1. base - 1 \in Nat /\ 1 <= base - 1
      OBVIOUS
    <3> QED
      BY <2>1, <3>1, ProductMonotone
  <2>4. (base - 1) * P[n] \in Int /\ 1 * P[n] = P[n]
    BY <2>1
  <2> QED
    BY <2>1, <2>2, <2>3, <2>4
<1> HIDE DEF E
<1>4. \A n \in Nat : n \in E
  BY <1>2, <1>3, NatSetInduction
<1> QED
  BY <1>1, <1>4 DEF E, P

(* They increase.                                                          *)
LEMMA PowerMonotone ==
  ASSUME NEW base \in Nat, base > 1, NEW i \in Nat, NEW j \in Nat
  PROVE  /\ i <= j => Power(base)[i] <= Power(base)[j]
         /\ Power(base)[i] < Power(base)[j] => i < j
<1>1. ASSUME NEW m \in Nat, NEW n \in Nat, m <= n
      PROVE  Power(base)[m] <= Power(base)[n]
  <2> DEFINE p == Power(base)[m]
             r == Power(base)[n - m]
  <2>1. n - m \in Nat /\ m + (n - m) = n
    BY <1>1
  <2>2. Power(base)[n] = r * p /\ p \in Nat /\ r \in Nat /\ 1 <= r
    <3>1. Power(base)[m + (n - m)] = Power(base)[n - m] * Power(base)[m]
      BY <2>1, PowerSum
    <3>2. /\ Power(base)[m] \in Nat /\ Power(base)[n - m] \in Nat
          /\ Power(base)[n - m] >= (n - m) + 1
      BY <2>1, PowerExceeds
    <3> QED
      BY <2>1, <3>1, <3>2
  <2> HIDE DEF p, r
  <2>3. 1 * p <= r * p /\ 1 * p = p
    BY <2>2, ProductMonotone
  <2> QED
    BY <2>2, <2>3 DEF p
<1>2. Power(base)[i] \in Nat /\ Power(base)[j] \in Nat
  BY PowerExceeds
<1>3. ASSUME Power(base)[i] < Power(base)[j] PROVE i < j
  <2>1. CASE j <= i
    <3>1. Power(base)[j] <= Power(base)[i]
      BY <1>1, <2>1
    <3> QED
      BY <1>2, <1>3, <3>1
  <2> QED
    BY <2>1
<1> QED
  BY <1>1, <1>3

(* Quotient and remainder are found by any equation that has them.         *)
LEMMA DivisionIs ==
  ASSUME NEW p \in Nat, NEW x \in Nat, NEW y \in Nat, y < p
  PROVE  /\ (p * x + y) \div p = x
         /\ (p * x + y) % p = y
<1> DEFINE n == p * x + y
<1>1. n \in Nat
  OBVIOUS
<1>2. n = p * (n \div p) + (n % p) /\ n % p \in 0..(p - 1) /\ n \div p \in Nat
  <2> HIDE DEF n
  <2> QED
    BY <1>1, Z3T(30)
<1> DEFINE k == n \div p
           r == n % p
<1>3. p * x + y = p * k + r /\ r \in Nat /\ r < p /\ k \in Nat
  BY <1>2
<1> HIDE DEF n, k, r
<1>4. k = x
  <2>1. CASE k < x
    <3>1. p * (x - k) = p * x - p * k /\ p * x \in Nat /\ p * k \in Nat
      BY <1>3
    <3>2. (x - k) * p >= 1 * p /\ (x - k) * p = p * (x - k) /\ 1 * p = p
      <4>1. x - k \in Nat /\ 1 <= x - k
        BY <1>3, <2>1
      <4> QED
        BY <4>1, ProductMonotone
    <3> QED
      BY <1>3, <3>1, <3>2
  <2>2. CASE x < k
    <3>1. p * (k - x) = p * k - p * x /\ p * x \in Nat /\ p * k \in Nat
      BY <1>3
    <3>2. (k - x) * p >= 1 * p /\ (k - x) * p = p * (k - x) /\ 1 * p = p
      <4>1. k - x \in Nat /\ 1 <= k - x
        BY <1>3, <2>2
      <4> QED
        BY <4>1, ProductMonotone
    <3> QED
      BY <1>3, <3>1, <3>2
  <2> QED
    BY <1>3, <2>1, <2>2
<1>5. r = y
  BY <1>3, <1>4
<1> QED
  BY <1>4, <1>5 DEF k, r, n

(* The number of digits is found: no digit is left and the last is not 0.  *)
LEMMA DigitCountIs ==
  ASSUME NEW base \in Nat, base > 1, NEW x \in Nat
  PROVE  /\ DigitCount(x, base) \in 0..x
         /\ x < Power(base)[DigitCount(x, base)]
         /\ \/ DigitCount(x, base) = 0
            \/ Power(base)[DigitCount(x, base) - 1] <= x
<1> DEFINE P == Power(base)
           Is(n) == x < P[n] /\ (n = 0 \/ P[n - 1] <= x)
<1>1. /\ P \in [Nat -> Nat] /\ P[0] = 1 /\ \A n \in Nat : P[n] \in Nat /\ P[n] >= n + 1
  BY PowerUnfold, PowerExceeds
<1> HIDE DEF P
<1> DEFINE S == {n \in Nat : P[n] <= x}
<1>2. \E n \in 0..x : Is(n)
  <2>1. CASE x < P[0]
    BY <2>1
  <2>2. CASE P[0] <= x
    <3> SUFFICES ASSUME \A n \in 0..x : ~Is(n) PROVE FALSE
      OBVIOUS
    <3>1. 0 \in S
      BY <2>2
    <3>2. ASSUME NEW n \in Nat, n \in S PROVE n + 1 \in S
      <4>1. P[n] <= x /\ n + 1 <= x + 0
        BY <1>1, <3>2
      <4>2. n + 1 \in 0..x /\ (n + 1) - 1 = n /\ n + 1 # 0
        BY <4>1
      <4>3. ~(x < P[n + 1])
        BY <4>1, <4>2
      <4>4. P[n + 1] \in Nat
        BY <1>1, <4>2
      <4> QED
        BY <4>3, <4>4
    <3> HIDE DEF S
    <3>3. x \in S
      BY <3>1, <3>2, NatSetInduction
    <3> QED
      BY <1>1, <3>3 DEF S
  <2> QED
    BY <1>1, <2>1, <2>2
<1>3. DigitCount(x, base) = CHOOSE n \in 0..x : Is(n)
  BY DEF DigitCount, P
<1> HIDE DEF Is
<1>4. DigitCount(x, base) \in 0..x /\ Is(DigitCount(x, base))
  BY <1>2, <1>3
<1> QED
  BY <1>4 DEF Is, P

(* A number below a power has no more digits than its exponent says.       *)
LEMMA DigitCountBound ==
  ASSUME NEW base \in Nat, base > 1, NEW x \in Nat, NEW n \in Nat, x < Power(base)[n]
  PROVE  DigitCount(x, base) <= n
<1> DEFINE c == DigitCount(x, base)
<1>1. c \in Nat /\ (c = 0 \/ Power(base)[c - 1] <= x)
  BY DigitCountIs
<1> HIDE DEF c
<1>2. CASE c = 0
  BY <1>2 DEF c
<1>3. CASE c # 0
  <2>1. c - 1 \in Nat /\ Power(base)[c - 1] <= x
    BY <1>1, <1>3
  <2>2. Power(base)[c - 1] \in Nat /\ Power(base)[n] \in Nat
    BY <2>1, PowerExceeds
  <2>3. Power(base)[c - 1] < Power(base)[n]
    BY <2>1, <2>2
  <2>4. c - 1 < n
    BY <2>1, <2>3, PowerMonotone
  <2> QED
    BY <1>1, <2>4 DEF c
<1> QED
  BY <1>2, <1>3

(* A byte is two nibbles.                                                  *)
LEMMA BytePowers ==
  ASSUME NEW n \in Nat
  PROVE  /\ Power(ByteBase)[n] = Power(NibbleBase)[2 * n]
         /\ NibbleBase \in Nat /\ NibbleBase > 1 /\ ByteBase \in Nat /\ ByteBase > 1
<1> DEFINE B == NibbleBase
           E == {m \in Nat : Power(B * B)[m] = Power(B)[2 * m]}
<1>1. B \in Nat /\ B > 1
  BY ScaleAssumption
<1>2. B * B \in Nat /\ B * B > 1 /\ ByteBase = B * B
  <2>1. 1 * B <= B * B /\ 1 * B = B
    BY <1>1, ProductMonotone
  <2>2. B * B \in Nat
    BY <1>1
  <2> QED
    BY <1>1, <2>1, <2>2 DEF ByteBase
<1> HIDE DEF B
<1>3. 0 \in E
  <2>1. Power(B * B)[0] = 1 /\ Power(B)[0] = 1 /\ 2 * 0 = 0
    BY <1>1, <1>2, PowerUnfold
  <2> QED
    BY <2>1
<1>4. ASSUME NEW m \in Nat, m \in E PROVE m + 1 \in E
  <2>1. Power(B * B)[m + 1] = (B * B) * Power(B * B)[m]
    BY <1>2, PowerUnfold
  <2>2. /\ Power(B)[2 * m + 1] = B * Power(B)[2 * m]
        /\ Power(B)[(2 * m + 1) + 1] = B * Power(B)[2 * m + 1]
    <3>1. 2 * m \in Nat /\ 2 * m + 1 \in Nat
      OBVIOUS
    <3> QED
      BY <1>1, <3>1, PowerUnfold
  <2>3. (2 * m + 1) + 1 = 2 * (m + 1) /\ Power(B)[2 * m] \in Nat
    <3>1. 2 * m \in Nat
      OBVIOUS
    <3> QED
      BY <1>1, <3>1, PowerExceeds
  <2>4. (B * B) * Power(B)[2 * m] = B * (B * Power(B)[2 * m])
    BY <1>1, <2>3
  <2> QED
    BY <1>4, <2>1, <2>2, <2>3, <2>4
<1> HIDE DEF E
<1>5. n \in E
  BY <1>3, <1>4, NatSetInduction
<1> QED
  BY <1>1, <1>2, <1>5 DEF E, B

-----------------------------------------------------------------------------
(* extract_nibble_from_key_be.                                             *)

(* What is right to return.                                                *)
NibbleIsRight(nibble) ==
  IndexInKey => \/ nibble = NibbleOfKey(call.nibble_index)
                \/ ~Shipped /\ ~(IndexServed /\ call.high = 0)

(* The index passed the range check before a half is read.                 *)
NibbleInv ==
  call.fn \in NibbleFns =>
    /\ at = "extract" => Reindexed >= 0
    /\ Answered => NibbleIsRight(outcome.value)

(* The numbers of a call.                                                  *)
LEMMA NibbleTypes ==
  ASSUME call \in NibbleCalls
  PROVE  /\ call.low \in Nat /\ call.low < HalfShift
         /\ call.high \in Nat /\ HalfShift \in Nat
         /\ call.nibble_index \in Nat /\ call.key_leading_zeroes_nibbles \in Nat
         /\ HalfBytes \in Nat
         /\ Key \in Nat /\ KeyNibbleCount \in Nat
<1>1. HalfShift \in Nat /\ HalfBytes \in Nat
  <2>1. HalfBytes \in Nat
    BY ScaleAssumption
  <2>2. ByteBase \in Nat /\ ByteBase > 1
    BY BytePowers
  <2> QED
    BY <2>1, <2>2, PowerExceeds DEF HalfShift
<1>2. /\ call.low \in Halves /\ call.high \in Halves
      /\ call.nibble_index \in 0..(2 * HalfNibbles)
      /\ call.key_leading_zeroes_nibbles \in 0..2
  BY DEF NibbleCalls
<1>3. /\ call.low \in Nat /\ call.low < HalfShift /\ call.high \in Nat
  <2>1. call.low \in 0..(HalfShift - 1) /\ call.high \in 0..(HalfShift - 1)
    BY <1>2, HalvesAssumption
  <2> QED
    BY <1>1, <2>1
<1>4. call.nibble_index \in Nat /\ call.key_leading_zeroes_nibbles \in Nat
  BY <1>1, <1>2 DEF HalfNibbles
<1>5. Key \in Nat
  BY <1>1, <1>3 DEF Key, WholeNumber
<1>6. KeyNibbleCount \in Nat
  <2>1. NibbleBase \in Nat /\ NibbleBase > 1
    BY BytePowers
  <2> QED
    BY <1>5, <2>1, DigitCountIs DEF KeyNibbleCount
<1> QED
  BY <1>1, <1>3, <1>4, <1>5, <1>6

(* A nibble in front of the others is 0.                                   *)
LEMMA LeadingNibble ==
  ASSUME call \in NibbleCalls, IsLeadingZero
  PROVE  NibbleIsRight(0)
<1>1. call.nibble_index < call.key_leading_zeroes_nibbles
  BY NibbleTypes DEF IsLeadingZero
<1> QED
  BY <1>1 DEF NibbleIsRight, NibbleOfKey

(* With a high half of 0 the checks leave the low half, and the entry of   *)
(* the table is the one of the index.                                      *)
LEMMA NibbleOfLow ==
  ASSUME call \in NibbleCalls, Reindexed >= 0, call.high = 0, IndexInKey,
         NEW nibble \in Extracted, HalfChecked
  PROVE  nibble = NibbleOfKey(call.nibble_index)
<1>1. Key = call.low
  BY NibbleTypes DEF Key, WholeNumber
<1>2. KeyNibbleCount <= HalfNibbles /\ HalfNibbles \in Nat
  <2>1. HalfBytes \in Nat /\ HalfNibbles = 2 * HalfBytes /\ call.low \in Nat
        /\ call.low < HalfShift
    BY NibbleTypes DEF HalfNibbles
  <2>2. HalfNibbles \in Nat /\ NibbleBase \in Nat /\ NibbleBase > 1
        /\ call.low < Power(NibbleBase)[HalfNibbles]
    BY <2>1, BytePowers DEF HalfShift
  <2> QED
    BY <1>1, <2>1, <2>2, DigitCountBound DEF KeyNibbleCount
<1>3. ids.from_low
  BY DEF HalfChecked
<1>4. Offset = KeyNibbleCount - Reindexed - 1
  BY <1>3 DEF Offset
<1>5. /\ Reindexed = call.nibble_index - call.key_leading_zeroes_nibbles
      /\ KeyLength = call.key_leading_zeroes_nibbles + KeyNibbleCount
      /\ call.nibble_index < KeyLength
  BY DEF Reindexed, KeyLength, IndexInKey
<1>6. /\ Offset = KeyLength - call.nibble_index - 1 /\ Offset \in 0..(HalfNibbles - 1)
      /\ ~(call.nibble_index < call.key_leading_zeroes_nibbles)
      /\ KeyNibbleCount # 0
  BY <1>2, <1>4, <1>5, NibbleTypes
<1>7. nibble = NibbleOf(Key, Offset)
  BY <1>1, <1>3, <1>6 DEF Extracted, OffsetInTable
<1>8. Key # 0
  <2>1. NibbleBase \in Nat /\ NibbleBase > 1
    BY BytePowers
  <2>2. KeyNibbleCount \in 0..Key
    BY <2>1, NibbleTypes, DigitCountIs DEF KeyNibbleCount
  <2> QED
    BY <1>6, <2>2
<1> QED
  BY <1>6, <1>7, <1>8 DEF NibbleOfKey

(* A right answer keeps the invariant.                                     *)
LEMMA NibbleAnswered ==
  ASSUME call' = call, at' = at, NibbleInv,
         NEW nibble, outcome' = Answer(nibble), NibbleIsRight(nibble)
  PROVE  NibbleInv'
<1>1. outcome'.value = nibble
  BY DEF Answer
<1>2. (at = "extract" => Reindexed >= 0)' <=> (at = "extract" => Reindexed >= 0)
  BY DEF Reindexed
<1>3. NibbleIsRight(outcome.value)'
  BY <1>1 DEF NibbleIsRight, IndexInKey, KeyLength, NibbleOfKey, NibbleOf, Shipped,
              IndexServed, Reindexed, KeyNibbleCount, Key, WholeNumber
<1>4. call'.fn \in NibbleFns <=> call.fn \in NibbleFns
  OBVIOUS
<1> QED
  BY <1>2, <1>3, <1>4 DEF NibbleInv

(* No step breaks it: a zero is returned when it is right to, and a nibble *)
(* of the half the checks leave.                                           *)
LEMMA NibbleInvStep ==
  ASSUME call \in NibbleCalls, call.fn \in NibbleFns, NibbleInv, call' = call,
         KeyNibblesNext \/ UNCHANGED callVars
  PROVE  NibbleInv'
<1>0. call.fn \notin LeadingZeroesFns
  BY DEF NibbleFns, LeadingZeroesFns
<1>1. CASE WriteIsZero
  <2>1. /\ at' \in {"zero", "nonzero"} /\ outcome' = InProgress
    BY <1>1 DEF WriteIsZero, GoTo, At
  <2>2. at' # "extract"
    BY <2>1
  <2>3. ~Answered'
    BY <2>1, StatusesDiffer DEF Answered, InProgress
  <2> QED
    BY <2>2, <2>3 DEF NibbleInv
<1>2. CASE ReturnZeroNibble
  <2>1. outcome' = Answer(0) /\ at' = at /\ IsLeadingZero
    BY <1>2 DEF ReturnZeroNibble, Return
  <2> QED
    BY <2>1, LeadingNibble, NibbleAnswered
<1>3. CASE RefuseZeroNibble \/ RefuseNibble
  <2>1. outcome' = Refused /\ at' = at
    BY <1>3 DEF RefuseZeroNibble, RefuseNibble, Refuse
  <2>2. ~Answered'
    BY <2>1, StatusesDiffer DEF Answered, Refused
  <2> QED
    BY <2>1, <2>2 DEF NibbleInv, Reindexed
<1>4. CASE WriteFromLow
  <2>1. outcome = InProgress
    BY <1>4 DEF WriteFromLow, At
  <2>2. \/ outcome' = Refused /\ at' = at
        \/ outcome' = InProgress /\ ~(Reindexed < 0)
    BY <1>4, <2>1 DEF WriteFromLow, Refuse, GoTo
  <2>3. ~Answered'
    BY <2>2, StatusesDiffer DEF Answered, Refused, InProgress
  <2>4. Reindexed \in Int
    BY NibbleTypes DEF Reindexed
  <2>5. at' = "extract" => Reindexed >= 0
    BY <2>2, <2>4 DEF NibbleInv
  <2> QED
    BY <2>3, <2>5 DEF NibbleInv, Reindexed
<1>5. CASE ReturnNibble
  <2>1. PICK nibble \in Extracted : NibbleAccepted(nibble) /\ outcome' = Answer(nibble)
    BY <1>5 DEF ReturnNibble, Return
  <2>2. at' = at /\ at = "extract" /\ Reindexed >= 0
    BY <1>5 DEF ReturnNibble, Return, At, NibbleInv
  <2>3. HalfChecked /\ (Shipped => nibble = NibbleOfKey(call.nibble_index))
    BY <2>1 DEF NibbleAccepted
  <2>4. IndexInKey /\ call.high = 0 => nibble = NibbleOfKey(call.nibble_index)
    BY <2>2, <2>3, NibbleOfLow
  <2>5. NibbleIsRight(nibble)
    BY <2>3, <2>4 DEF NibbleIsRight, IndexServed
  <2> QED
    BY <2>1, <2>2, <2>5, NibbleAnswered
<1>6. CASE UNCHANGED callVars
  BY <1>6 DEF callVars, NibbleInv, Answered, NibbleIsRight, IndexInKey, KeyLength,
              NibbleOfKey, NibbleOf, Shipped, IndexServed, Reindexed, KeyNibbleCount,
              Key, WholeNumber
<1>7. ~(ScanZeroBytes \/ ReturnZeroes \/ RefuseZeroes)
  BY <1>0 DEF ScanZeroBytes, ReturnZeroes, RefuseZeroes, At
<1> QED
  BY <1>1, <1>2, <1>3, <1>4, <1>5, <1>6, <1>7 DEF KeyNibblesNext

-----------------------------------------------------------------------------
(* word_reverse_endian_16_RC and its sisters.                              *)

AreDigits(digits, base, n) ==
  Len(digits) = n /\ \A i \in 1..n : digits[i] \in 0..(base - 1)

(* The sums of digits unfold.                                              *)
SumsUnfold(sums, powers, digits, n) ==
  /\ sums[0] = 0
  /\ \A i \in 0..n : sums[i] \in Nat
  /\ \A i \in 1..n : sums[i] = sums[i - 1] + digits[i] * powers[i - 1]

(* Those of digits do.                                                     *)
LEMMA DigitSumsUnfold ==
  ASSUME NEW base \in Nat, base > 1, NEW n \in Nat, NEW digits, AreDigits(digits, base, n)
  PROVE  SumsUnfold(DigitSums(digits, base), Power(base), digits, n)
<1>0. Len(digits) = n /\ \A i \in 1..n : digits[i] \in Nat
  <2>1. \A x \in 0..(base - 1) : x \in Nat
    OBVIOUS
  <2> QED
    BY <2>1 DEF AreDigits
<1> DEFINE term == [i \in Nat |-> IF i \in 1..n THEN digits[i] * Power(base)[i - 1] ELSE 0]
           next == [i \in Nat |-> [v \in Nat |-> v + term[i]]]
<1>1. \A i \in Nat : term[i] \in Nat
  <2> SUFFICES ASSUME NEW i \in 1..n PROVE digits[i] * Power(base)[i - 1] \in Nat
    OBVIOUS
  <2>1. i - 1 \in Nat
    OBVIOUS
  <2>2. Power(base)[i - 1] \in Nat
    BY <2>1, PowerUnfold
  <2> QED
    BY <1>0, <2>2
<1>2. PICK f : Iterates(f, Nat, 0, next)
  <2>1. next \in [Nat -> [Nat -> Nat]] /\ 0 \in Nat
    <3> HIDE DEF term
    <3> QED
      BY <1>1
  <2> HIDE DEF next
  <2> QED
    BY <2>1, PrimitiveRecursion
<1>3. /\ f \in [Nat -> Nat] /\ f[0] = 0
      /\ \A i \in Nat : f[i + 1] = f[i] + term[i + 1]
  <2> HIDE DEF term
  <2>1. \A i \in Nat : f[i] \in Nat
    BY <1>2 DEF Iterates
  <2>2. \A i \in Nat : i + 1 \in Nat /\ next[i + 1][f[i]] = f[i] + term[i + 1]
    BY <2>1
  <2> QED
    BY <1>2, <2>2 DEF Iterates
<1>4. ASSUME NEW i \in 1..n
      PROVE  f[i] = f[i - 1] + digits[i] * Power(base)[i - 1]
  <2>1. i - 1 \in Nat /\ (i - 1) + 1 = i /\ i \in Nat
    OBVIOUS
  <2>2. term[i] = digits[i] * Power(base)[i - 1]
    BY <2>1
  <2> HIDE DEF term
  <2> QED
    BY <1>3, <2>1, <2>2
<1> DEFINE g == [i \in 0..n |-> f[i]]
           Body(h) == [i \in 0..n |-> IF i = 0 THEN 0
                                      ELSE h[i - 1] + digits[i] * Power(base)[i - 1]]
<1>5. g = Body(g)
  <2>1. ASSUME NEW i \in 0..n, i # 0
        PROVE  g[i] = g[i - 1] + digits[i] * Power(base)[i - 1]
    <3>1. i \in 1..n /\ i - 1 \in 0..n
      BY <2>1
    <3> QED
      BY <1>4, <3>1
  <2> QED
    BY <1>3, <2>1
<1>6. DigitSums(digits, base) = CHOOSE h : h = Body(h)
  BY <1>0, Zenon DEF DigitSums
<1> DEFINE D == DigitSums(digits, base)
<1> HIDE DEF g
<1>7. D = Body(D)
  <2> HIDE DEF Body
  <2> QED
    BY <1>5, <1>6
<1> HIDE DEF D
<1>8. D[0] = 0 /\ \A i \in 1..n : D[i] = D[i - 1] + digits[i] * Power(base)[i - 1]
  BY <1>7
<1>9. \A i \in 0..n : D[i] \in Nat
  <2> DEFINE E == {i \in Nat : i <= n => D[i] \in Nat}
  <2>1. 0 \in E
    BY <1>8
  <2>2. ASSUME NEW i \in Nat, i \in E PROVE i + 1 \in E
    <3> SUFFICES ASSUME i + 1 <= n PROVE D[i + 1] \in Nat
      OBVIOUS
    <3>1. i + 1 \in 1..n /\ (i + 1) - 1 = i /\ D[i] \in Nat
      BY <2>2
    <3>2. Power(base)[i] \in Nat /\ digits[i + 1] \in Nat
      BY <1>0, <3>1, PowerUnfold
    <3>3. digits[i + 1] * Power(base)[i] \in Nat
      BY <3>2
    <3> QED
      BY <1>8, <3>1, <3>3
  <2> HIDE DEF E
  <2>3. \A i \in Nat : i \in E
    BY <2>1, <2>2, NatSetInduction
  <2> QED
    BY <2>3 DEF E
<1> QED
  BY <1>8, <1>9 DEF D, SumsUnfold

(* n digits make a number below the power of n, ...                        *)
LEMMA DigitSumsBelow ==
  ASSUME NEW base \in Nat, base > 1, NEW n \in Nat, NEW digits,
         AreDigits(digits, base, n)
  PROVE  \A i \in 0..n : /\ DigitSums(digits, base)[i] \in Nat
                         /\ DigitSums(digits, base)[i] < Power(base)[i]
<1> DEFINE D == DigitSums(digits, base)
           P == Power(base)
           E == {i \in Nat : i <= n => D[i] < P[i]}
<1>1. SumsUnfold(D, P, digits, n)
  BY DigitSumsUnfold
<1>2. P[0] = 1 /\ \A i \in Nat : P[i] \in Nat /\ P[i + 1] = base * P[i]
  BY PowerUnfold
<1> HIDE DEF D, P
<1>3. 0 \in E
  BY <1>1, <1>2 DEF SumsUnfold
<1>4. ASSUME NEW i \in Nat, i \in E PROVE i + 1 \in E
  <2> SUFFICES ASSUME i + 1 <= n PROVE D[i + 1] < P[i + 1]
    OBVIOUS
  <2> DEFINE d == digits[i + 1]
             p == P[i]
  <2>1. i + 1 \in 1..n /\ (i + 1) - 1 = i /\ i \in 0..n
    OBVIOUS
  <2>2. D[i + 1] = D[i] + d * p /\ D[i] < p /\ D[i] \in Nat
    BY <1>1, <1>4, <2>1 DEF SumsUnfold
  <2>3. d \in Nat /\ d + 1 <= base /\ p \in Nat /\ P[i + 1] = base * p
    <3>1. d \in 0..(base - 1)
      BY <2>1 DEF AreDigits
    <3> QED
      BY <1>2, <3>1
  <2> DEFINE c == D[i]
             e == D[i + 1]
  <2>c. e = c + d * p /\ c < p /\ c \in Nat
    BY <2>2
  <2> HIDE DEF c, d, e, p
  <2>4. (d + 1) * p <= base * p
    <3>1. d + 1 \in Nat /\ d + 1 <= base /\ p \in Nat
      BY <2>3
    <3> QED
      BY <3>1, ProductMonotone
  <2>5. (d + 1) * p = d * p + p /\ d * p \in Nat /\ base * p \in Nat
    BY <2>3
  <2>6. e < base * p
    BY <2>c, <2>3, <2>4, <2>5
  <2> QED
    BY <2>3, <2>6 DEF e
<1> HIDE DEF E
<1>5. \A i \in Nat : i \in E
  BY <1>3, <1>4, NatSetInduction
<1> QED
  BY <1>1, <1>5 DEF E, D, P, SumsUnfold

(* ... and higher digits only add multiples of it.                         *)
LEMMA HigherDigits ==
  ASSUME NEW base \in Nat, base > 1, NEW n \in Nat, NEW digits,
         AreDigits(digits, base, n),
         NEW k \in 0..n
  PROVE  \E m \in Nat : DigitSums(digits, base)[n]
                          = DigitSums(digits, base)[k] + Power(base)[k] * m
<1> DEFINE D == DigitSums(digits, base)
           P == Power(base)
           E == {i \in Nat : k + i <= n => \E m \in Nat : D[k + i] = D[k] + P[k] * m}
<1>1. SumsUnfold(D, P, digits, n)
  BY DigitSumsUnfold
<1>2. P[k] \in Nat /\ \A i \in Nat : P[i] \in Nat /\ P[k + i] = P[i] * P[k]
  <2>1. k \in Nat
    OBVIOUS
  <2>2. \A i \in Nat : P[k + i] = P[i] * P[k]
    BY <2>1, PowerSum
  <2>3. \A i \in Nat : P[i] \in Nat
    BY PowerUnfold
  <2> QED
    BY <2>1, <2>2, <2>3
<1> HIDE DEF D, P
<1>3. 0 \in E
  <2>1. D[k] = D[k] + P[k] * 0 /\ k + 0 = k
    <3>1. D[k] \in Nat /\ P[k] \in Nat
      BY <1>1, <1>2 DEF SumsUnfold
    <3> QED
      BY <3>1
  <2> QED
    BY <2>1
<1>4. ASSUME NEW i \in Nat, i \in E PROVE i + 1 \in E
  <2> SUFFICES ASSUME k + (i + 1) <= n
               PROVE  \E m \in Nat : D[k + (i + 1)] = D[k] + P[k] * m
    OBVIOUS
  <2>1. PICK m \in Nat : D[k + i] = D[k] + P[k] * m
    BY <1>4
  <2>2. k + (i + 1) \in 1..n /\ (k + (i + 1)) - 1 = k + i /\ k \in 0..n
    OBVIOUS
  <2> DEFINE d == digits[k + (i + 1)]
             c == D[k]
             p == P[k]
             r == P[i]
  <2>3. D[k + (i + 1)] = (c + p * m) + d * (r * p)
    <3>1. D[k + (i + 1)] = D[k + i] + d * P[k + i]
      BY <1>1, <2>2 DEF SumsUnfold
    <3>2. P[k + i] = r * p
      BY <1>2
    <3> QED
      BY <2>1, <3>1, <3>2
  <2>4. d \in Nat /\ c \in Nat /\ p \in Nat /\ r \in Nat
    <3>1. d \in 0..(base - 1)
      BY <2>2 DEF AreDigits
    <3> QED
      BY <1>1, <1>2, <2>2, <3>1 DEF SumsUnfold
  <2> HIDE DEF c, d, p, r
  <2>5. (c + p * m) + d * (r * p) = c + p * (m + d * r) /\ m + d * r \in Nat
    BY <2>4
  <2> QED
    BY <2>3, <2>5 DEF c, p
<1> HIDE DEF E
<1>5. \A i \in Nat : i \in E
  BY <1>3, <1>4, NatSetInduction
<1>6. n - k \in E
  <2>1. n - k \in Nat
    OBVIOUS
  <2> QED
    BY <1>5, <2>1
<1>7. k + (n - k) = n
  OBVIOUS
<1> QED
  BY <1>6, <1>7 DEF E, D, P

(* The digits of the number some digits make are those digits.             *)
LEMMA DigitsOfValue ==
  ASSUME NEW base \in Nat, base > 1, NEW n \in Nat, NEW digits,
         AreDigits(digits, base, n)
  PROVE  /\ ValueOf(digits, base) \in Nat
         /\ ValueOf(digits, base) < Power(base)[n]
         /\ \A i \in 1..n : Digits(ValueOf(digits, base), base, n)[i] = digits[i]
<1> DEFINE v == ValueOf(digits, base)
<1>0. v = DigitSums(digits, base)[n]
  BY DEF ValueOf, AreDigits
<1>1. v \in Nat /\ v < Power(base)[n]
  BY <1>0, DigitSumsBelow
<1> HIDE DEF v
<1>2. ASSUME NEW i \in 1..n
      PROVE  (v \div Power(base)[i - 1]) % base = digits[i]
  <2> DEFINE c == DigitSums(digits, base)[i - 1]
             p == Power(base)[i - 1]
             d == digits[i]
  <2>1. i - 1 \in 0..n /\ i \in 0..n /\ i - 1 \in Nat /\ (i - 1) + 1 = i
    OBVIOUS
  <2>2. PICK m \in Nat : v = DigitSums(digits, base)[i] + Power(base)[i] * m
    BY <1>0, <2>1, HigherDigits
  <2>3. DigitSums(digits, base)[i] = c + d * p
    <3>1. SumsUnfold(DigitSums(digits, base), Power(base), digits, n)
      BY DigitSumsUnfold
    <3> QED
      BY <3>1 DEF SumsUnfold
  <2>4. Power(base)[i] = base * p /\ p \in Nat
    BY <2>1, PowerUnfold
  <2>5. c \in Nat /\ c < p
    BY <2>1, DigitSumsBelow
  <2>6. d \in Nat /\ d < base
    BY DEF AreDigits
  <2> HIDE DEF c, p, d
  <2>7. v = (c + d * p) + (base * p) * m
    BY <2>2, <2>3, <2>4
  <2> DEFINE x == base * m + d
  <2>8. v = p * x + c /\ x \in Nat
    BY <2>4, <2>5, <2>6, <2>7
  <2>9. x % base = d
    BY <2>6, DivisionIs
  <2> HIDE DEF x
  <2>10. v \div p = x
    BY <2>4, <2>5, <2>8, DivisionIs
  <2> QED
    BY <2>9, <2>10 DEF p, d
<1> QED
  BY <1>1, <1>2 DEF Digits, v
(* What the hint wrote: any values in the range, or the bytes of a word.   *)
BytesWritten(bytes) ==
  /\ bytes \in [1..call.n -> Nat]
  /\ \A i \in 1..call.n : bytes[i] \in RangeChecked \/ bytes[i] < ByteBase

WordInv ==
  call.fn \in WordFns =>
    /\ at = "check" => BytesWritten(ids.bytes)
    /\ Answered => /\ at = "check" /\ WordChecked
                   /\ outcome.value = ValueOf(ids.bytes, ByteBase)

(* What passes the range check of 255 - b is a byte.                       *)
LEMMA CheckedByte ==
  ASSUME NEW byte \in Nat, byte \in RangeChecked \/ byte < ByteBase,
         (ByteBase - 1 - byte) % Prime \in RangeChecked
  PROVE  byte \in 0..(ByteBase - 1)
<1> DEFINE x == ByteBase - 1 - byte
<1>1. /\ Prime \in Nat \ {0} /\ RcBound \in Nat \ {0} /\ 2 * RcBound <= Prime
      /\ ByteBase \in Nat /\ ByteBase > 1
  BY FieldAssumption, BytePowers
<1>2. CASE byte < ByteBase
  BY <1>1, <1>2
<1>3. CASE ~(byte < ByteBase)
  <2>1. byte < RcBound
    BY <1>1, <1>3 DEF RangeChecked
  <2>2. x \in Int /\ -Prime <= x /\ x < Prime /\ x < 0 /\ x + Prime >= RcBound
    BY <1>1, <1>3, <2>1
  <2> HIDE DEF x
  <2>3. x % Prime = x + Prime
    BY <1>1, <2>2, Residue
  <2>4. x % Prime < RcBound
    <3>1. \A y \in RangeChecked : y < RcBound
      BY <1>1 DEF RangeChecked
    <3> QED
      BY <3>1 DEF x
  <2> QED
    BY <1>1, <2>2, <2>3, <2>4
<1> QED
  BY <1>2, <1>3

(* A sequence that is turned round twice is the same.                      *)
LEMMA ReverseIs ==
  ASSUME NEW n \in Nat, NEW s \in [1..n -> Nat]
  PROVE  /\ Reverse(s) \in [1..n -> Nat] /\ Len(Reverse(s)) = n
         /\ \A i \in 1..n : Reverse(s)[i] = s[n - i + 1]
         /\ Reverse(Reverse(s)) = s
<1>1. ASSUME NEW t \in [1..n -> Nat]
      PROVE  /\ Len(t) = n /\ Reverse(t) \in [1..n -> Nat]
             /\ \A i \in 1..n : Reverse(t)[i] = t[n - i + 1]
  <2>1. t \in Seq(Nat) /\ Len(t) = n
    OBVIOUS
  <2>2. Reverse(t) = [i \in 1..n |-> t[(n - i) + 1]]
    BY <2>1 DEF Reverse
  <2>3. \A i \in 1..n : (n - i) + 1 \in 1..n /\ (n - i) + 1 = n - i + 1
    OBVIOUS
  <2> QED
    BY <2>1, <2>2, <2>3
<1> DEFINE r == Reverse(s)
           rr == Reverse(r)
<1>2. /\ r \in [1..n -> Nat] /\ \A i \in 1..n : r[i] = s[n - i + 1]
  BY <1>1
<1> HIDE DEF r
<1>3. /\ Len(r) = n /\ rr \in [1..n -> Nat] /\ \A i \in 1..n : rr[i] = r[n - i + 1]
  BY <1>1, <1>2
<1>4. \A i \in 1..n : rr[i] = s[i]
  <2> TAKE i \in 1..n
  <2>1. n - i + 1 \in 1..n /\ n - (n - i + 1) + 1 = i
    OBVIOUS
  <2> QED
    BY <1>2, <1>3, <2>1
<1> HIDE DEF rr
<1>5. rr = s
  BY <1>3, <1>4
<1> QED
  BY <1>2, <1>3, <1>5 DEF r, rr

(* The types of a call.                                                    *)
LEMMA WordTypes ==
  ASSUME call \in WordCalls
  PROVE  /\ call.n \in Nat /\ call.word \in Nat /\ call.word < Prime
         /\ Power(ByteBase)[call.n] \in Nat /\ Power(ByteBase)[call.n] <= Prime
<1>1. call.word \in 0..(Prime - 1) /\ call.n \in 2..(WordBytes - 1)
  BY DEF WordCalls, Felt
<1>2. /\ WordBytes \in Nat /\ Prime \in Nat /\ ByteBase \in Nat /\ ByteBase > 1
  BY ScaleAssumption, FieldAssumption, BytePowers
<1>3. call.n \in Nat /\ WordBytes - 1 \in Nat /\ call.n <= WordBytes - 1
  BY <1>1, <1>2
<1>4. Power(ByteBase)[call.n] <= Power(ByteBase)[WordBytes - 1]
  BY <1>2, <1>3, PowerMonotone
<1>5. Power(ByteBase)[call.n] \in Nat /\ Power(ByteBase)[WordBytes - 1] \in Nat
  BY <1>2, <1>3, PowerExceeds
<1> QED
  BY <1>1, <1>2, <1>3, <1>4, <1>5, WordAssumption

(* Bytes that passed the checks are those of the word.                     *)
LEMMA WordInvCorrect ==
  ASSUME call \in Calls, WordInv
  PROVE  WordReversed
<1> SUFFICES ASSUME call.fn \in WordFns, Answered
             PROVE  /\ call.word < Power(ByteBase)[call.n]
                    /\ outcome.value < Power(ByteBase)[call.n]
                    /\ Digits(outcome.value, ByteBase, call.n) = WordBytesOf
  BY DEF WordReversed
<1> DEFINE n == call.n
           B == ByteBase
           bytes == ids.bytes
           turned == Reverse(bytes)
<1>1. call \in WordCalls
  BY DEF Calls, DivmodCalls, ExtractCalls, NoPaddingCalls, LeadingZeroesCalls,
         NibbleCalls, HeaderCalls, ExecuteCalls, SumCalls, DivmodFns, WordFns,
         NoPaddingFns, LeadingZeroesFns, NibbleFns, BytesFns, HashFns,
         HeaderHashFns, NumberFns, ExecuteFns, SumFns
<1>2. /\ n \in Nat /\ call.word \in Nat /\ call.word < Prime
      /\ Power(B)[n] \in Nat /\ Power(B)[n] <= Prime
  BY <1>1, WordTypes
<1>3. B \in Nat /\ B > 1 /\ Prime \in Nat \ {0}
  BY BytePowers, FieldAssumption
<1>4. /\ BytesWritten(bytes) /\ AreBytes(bytes)
      /\ call.word = ValueOf(turned, B) % Prime
      /\ outcome.value = ValueOf(bytes, B)
  BY DEF WordInv, WordChecked
<1>5. bytes \in [1..n -> Nat] /\ \A i \in 1..n : bytes[i] \in 0..(B - 1)
  <2>1. bytes \in [1..n -> Nat]
    BY <1>4 DEF BytesWritten
  <2>2. ASSUME NEW i \in 1..n PROVE bytes[i] \in 0..(B - 1)
    <3>1. /\ bytes[i] \in Nat /\ (bytes[i] \in RangeChecked \/ bytes[i] < ByteBase)
          /\ (ByteBase - 1 - bytes[i]) % Prime \in RangeChecked
      BY <1>4, <2>1 DEF BytesWritten, AreBytes
    <3> QED
      BY <3>1, CheckedByte
  <2> QED
    BY <2>1, <2>2
<1> HIDE DEF n, B, bytes
<1>6. /\ turned \in [1..n -> Nat] /\ Len(turned) = n
      /\ \A i \in 1..n : turned[i] = bytes[n - i + 1]
      /\ Reverse(turned) = bytes
  BY <1>2, <1>5, ReverseIs
<1> HIDE DEF turned
<1>7. AreDigits(bytes, B, n) /\ AreDigits(turned, B, n)
  <2>1. \A i \in 1..n : n - i + 1 \in 1..n
    BY <1>2
  <2>2. \A i \in 1..n : turned[i] \in 0..(B - 1)
    BY <1>5, <1>6, <2>1
  <2>3. Len(bytes) = n
    BY <1>2, <1>5
  <2> QED
    BY <1>5, <1>6, <2>2, <2>3 DEF AreDigits
<1> DEFINE v == ValueOf(turned, B)
           w == ValueOf(bytes, B)
<1>8. /\ v \in Nat /\ v < Power(B)[n]
      /\ \A i \in 1..n : Digits(v, B, n)[i] = turned[i]
  BY <1>2, <1>3, <1>7, DigitsOfValue
<1>9. /\ w \in Nat /\ w < Power(B)[n]
      /\ \A i \in 1..n : Digits(w, B, n)[i] = bytes[i]
  BY <1>2, <1>3, <1>7, DigitsOfValue
<1> HIDE DEF v, w
<1>10. call.word = v
  <2>1. v \in Int /\ 0 <= v /\ v < Prime /\ -Prime <= v
    BY <1>2, <1>3, <1>8
  <2>2. v % Prime = v
    BY <1>3, <2>1, Residue
  <2> QED
    BY <1>4, <2>2 DEF v
<1>11. Digits(v, B, n) = turned
  <2>1. Digits(v, B, n) = [i \in 1..n |-> Digits(v, B, n)[i]]
    BY Zenon DEF Digits
  <2>2. turned = [i \in 1..n |-> turned[i]]
    BY <1>6
  <2> QED
    BY <1>8, <2>1, <2>2
<1>12. Digits(w, B, n) = bytes
  <2>1. Digits(w, B, n) = [i \in 1..n |-> Digits(w, B, n)[i]]
    BY Zenon DEF Digits
  <2>2. bytes = [i \in 1..n |-> bytes[i]]
    BY <1>5
  <2> QED
    BY <1>9, <2>1, <2>2
<1>13. WordBytesOf = bytes
  BY <1>6, <1>10, <1>11 DEF WordBytesOf, B, n
<1>14. outcome.value = w
  BY <1>4 DEF w
<1> QED
  BY <1>8, <1>9, <1>10, <1>12, <1>13, <1>14 DEF B, n

(* The bytes the shipped hints write.                                      *)
LEMMA WordBytesAreBytes ==
  ASSUME call \in WordCalls
  PROVE  BytesWritten(WordBytesOf)
<1> DEFINE n == call.n
           B == ByteBase
           s == Digits(call.word, B, n)
<1>1. n \in Nat /\ call.word \in Nat /\ B \in Nat /\ B > 1
  BY WordTypes, BytePowers
<1>2. ASSUME NEW i \in 1..n
      PROVE  s[i] \in Nat /\ s[i] < B
  <2>1. s[i] = (call.word \div Power(B)[i - 1]) % B
    BY DEF Digits
  <2>2. Power(B)[i - 1] \in Nat /\ Power(B)[i - 1] > 0
    <3>1. i - 1 \in Nat
      BY <1>1
    <3>2. Power(B)[i - 1] \in Nat /\ Power(B)[i - 1] >= (i - 1) + 1
      BY <1>1, <3>1, PowerExceeds
    <3> QED
      BY <3>1, <3>2
  <2> DEFINE p == Power(B)[i - 1]
             x == call.word
  <2> HIDE DEF p, x, B, n
  <2>3. x \div p \in Int
    BY <1>1, <2>2 DEF x, p
  <2> DEFINE y == x \div p
  <2> HIDE DEF y
  <2>4. y % B \in 0..(B - 1)
    BY <1>1, <2>3 DEF y
  <2> QED
    BY <1>1, <2>1, <2>4 DEF y, x, p
<1>3. s \in [1..n -> Nat]
  <2>1. s = [i \in 1..n |-> s[i]]
    BY Zenon DEF Digits
  <2> HIDE DEF s
  <2> QED
    BY <1>2, <2>1
<1> HIDE DEF s, n, B
<1>4. /\ Reverse(s) \in [1..n -> Nat]
      /\ \A i \in 1..n : Reverse(s)[i] = s[n - i + 1]
  BY <1>1, <1>3, ReverseIs
<1>5. \A i \in 1..n : n - i + 1 \in 1..n
  BY <1>1
<1>6. WordBytesOf = Reverse(s)
  BY DEF WordBytesOf, s, n, B
<1> QED
  BY <1>2, <1>4, <1>5, <1>6 DEF BytesWritten, n, B

(* The hint writes bytes and nothing but a check that passes answers.      *)
LEMMA WordInvStep ==
  ASSUME call \in WordCalls, call.fn \in WordFns, WordInv, call' = call,
         EndiannessNext \/ UNCHANGED callVars
  PROVE  WordInv'
<1>0. call.fn \notin NoPaddingFns
  BY DEF WordFns, NoPaddingFns
<1>1. CASE WriteWord
  <2>1. outcome = InProgress /\ at = "start"
    BY <1>1 DEF WriteWord, At
  <2>2. CASE outcome' = Refused /\ at' = at
    <3>1. ~Answered' /\ at' # "check"
      BY <2>1, <2>2, StatusesDiffer DEF Answered, Refused
    <3> QED
      BY <3>1 DEF WordInv
  <2>3. CASE ~(outcome' = Refused /\ at' = at)
    <3>1. PICK bytes \in HintValues(WordBytesOf, [1..call.n -> RangeChecked]) :
            ids' = [bytes |-> bytes] /\ outcome' = outcome
      BY <1>1, <2>3 DEF WriteWord, Refuse, GoTo
    <3>2. BytesWritten(bytes)
      <4>1. CASE bytes \in [1..call.n -> RangeChecked]
        <5>1. RangeChecked \subseteq Nat
          BY FieldAssumption DEF RangeChecked
        <5> QED
          BY <4>1, <5>1 DEF BytesWritten
      <4>2. CASE bytes = WordBytesOf
        BY <4>2, WordBytesAreBytes
      <4> QED
        BY <3>1, <4>1, <4>2 DEF HintValues
    <3>3. ids'.bytes = bytes /\ ~Answered'
      BY <2>1, <3>1, StatusesDiffer DEF Answered, InProgress
    <3>4. BytesWritten(ids.bytes)'
      BY <3>2, <3>3 DEF BytesWritten
    <3> QED
      BY <3>3, <3>4 DEF WordInv
  <2> QED
    BY <2>2, <2>3
<1>2. CASE ReturnWord
  <2>1. /\ at = "check" /\ WordChecked
        /\ outcome' = Answer(ValueOf(ids.bytes, ByteBase)) /\ at' = at /\ ids' = ids
    BY <1>2 DEF ReturnWord, At, Return
  <2>2. outcome'.value = ValueOf(ids.bytes, ByteBase)
    BY <2>1 DEF Answer
  <2>3. WordChecked'
    BY <2>1 DEF WordChecked, AreBytes
  <2>4. BytesWritten(ids.bytes)' <=> BytesWritten(ids.bytes)
    BY <2>1 DEF BytesWritten
  <2> QED
    BY <2>1, <2>2, <2>3, <2>4 DEF WordInv
<1>3. CASE RefuseWord
  <2>1. outcome' = Refused /\ at' = at /\ ids' = ids
    BY <1>3 DEF RefuseWord, Refuse
  <2>2. ~Answered'
    BY <2>1, StatusesDiffer DEF Answered, Refused
  <2>3. BytesWritten(ids.bytes)' <=> BytesWritten(ids.bytes)
    BY <2>1 DEF BytesWritten
  <2> QED
    BY <2>1, <2>2, <2>3 DEF WordInv
<1>4. CASE UNCHANGED callVars
  BY <1>4 DEF callVars, WordInv, BytesWritten, WordChecked, AreBytes, Answered
<1>5. ~(CountZeroBytes \/ ReturnNoPadding \/ RefuseNoPadding)
  BY <1>0 DEF CountZeroBytes, ReturnNoPadding, RefuseNoPadding, At
<1> QED
  BY <1>1, <1>2, <1>3, <1>4, <1>5 DEF EndiannessNext

-----------------------------------------------------------------------------
(* Digits of numbers.                                                      *)

(* Quotient and remainder.                                                 *)
LEMMA Division ==
  ASSUME NEW p \in Nat, p > 0, NEW x \in Nat
  PROVE  /\ x \div p \in Nat /\ x % p \in Nat /\ x % p < p
         /\ x = p * (x \div p) + (x % p)
BY Z3T(30)

(* Two divisions are one by the product.                                   *)
LEMMA DivisionTwice ==
  ASSUME NEW p \in Nat, p > 0, NEW r \in Nat, r > 0, NEW x \in Nat
  PROVE  x \div (p * r) = (x \div p) \div r
<1> DEFINE quo == x \div p
           rem == x % p
           e == quo \div r
           f == quo % r
<1>1. quo \in Nat /\ rem \in Nat /\ rem < p /\ x = p * quo + rem
  BY Division
<1> HIDE DEF quo, rem
<1>2. e \in Nat /\ f \in Nat /\ f < r /\ quo = r * e + f
  BY <1>1, Division
<1> HIDE DEF e, f
<1> DEFINE y == p * f + rem
           m == p * r
<1>3. x = m * e + y
  BY <1>1, <1>2
<1>4. y \in Nat /\ y < m /\ m \in Nat
  <2>1. (f + 1) * p <= r * p
    <3>1. f + 1 \in Nat /\ f + 1 <= r
      BY <1>2
    <3> QED
      BY <3>1, ProductMonotone
  <2>2. (f + 1) * p = p * f + p /\ r * p = p * r /\ p * f \in Nat /\ p * r \in Nat
    BY <1>2
  <2> QED
    BY <1>1, <2>1, <2>2
<1> HIDE DEF m, y
<1>5. x \div m = e
  BY <1>2, <1>3, <1>4, DivisionIs
<1> QED
  BY <1>5 DEF m, e, quo

(* The digit of a number that counts the base to the i.                    *)
DigitAt(base, x, i) == (x \div Power(base)[i]) % base

(* The powers of a base are positive.                                      *)
LEMMA PowersOf ==
  ASSUME NEW base \in Nat, base > 1, NEW i \in Nat
  PROVE  /\ Power(base)[i] \in Nat /\ Power(base)[i] > 0
         /\ \A j \in Nat : Power(base)[i + j]
                             = Power(base)[i] * Power(base)[j]
         /\ Power(base)[i + 1] = base * Power(base)[i]
<1>1. \A j \in Nat : Power(base)[j] \in Nat /\ Power(base)[j] >= j + 1
  BY PowerExceeds
<1>2. ASSUME NEW j \in Nat
      PROVE  Power(base)[i + j] = Power(base)[i] * Power(base)[j]
  <2>1. Power(base)[i + j] = Power(base)[j] * Power(base)[i]
    BY PowerSum
  <2>2. Power(base)[i] \in Nat /\ Power(base)[j] \in Nat
    BY <1>1
  <2> QED
    BY <2>1, <2>2
<1>3. Power(base)[i] >= 1
  <2>1. Power(base)[i] \in Nat /\ Power(base)[i] >= i + 1
    BY <1>1
  <2> QED
    BY <2>1
<1>4. Power(base)[i + 1] = base * Power(base)[i]
  BY PowerUnfold
<1> QED
  BY <1>1, <1>2, <1>3, <1>4

(* The digits of a number behind the first m of them.                      *)
LEMMA DigitsBehind ==
  ASSUME NEW base \in Nat, base > 1, NEW x \in Nat, NEW m \in Nat, NEW i \in Nat
  PROVE  DigitAt(base, x, m + i) = DigitAt(base, x \div Power(base)[m], i)
<1> DEFINE p == Power(base)[m]
           r == Power(base)[i]
<1>1. p \in Nat /\ p > 0 /\ r \in Nat /\ r > 0 /\ Power(base)[m + i] = p * r
  <2>1. p \in Nat /\ p > 0 /\ \A j \in Nat : Power(base)[m + j] = p * Power(base)[j]
    BY PowersOf
  <2>2. r \in Nat /\ r > 0
    BY PowersOf
  <2> QED
    BY <2>1, <2>2
<1> HIDE DEF p, r
<1>2. x \div (p * r) = (x \div p) \div r
  BY <1>1, DivisionTwice
<1> QED
  BY <1>1, <1>2 DEF DigitAt, p, r

(* A multiple of a power of the base in front of a number does not change  *)
(* the digits before it; behind it are its own.                            *)
LEMMA DigitsOfSum ==
  ASSUME NEW base \in Nat, base > 1, NEW x \in Nat, NEW m \in Nat, x < Power(base)[m], NEW y \in Nat, NEW i \in Nat
  PROVE  /\ i < m => DigitAt(base, x + Power(base)[m] * y, i) = DigitAt(base, x, i)
         /\ DigitAt(base, x + Power(base)[m] * y, m + i) = DigitAt(base, y, i)
<1> DEFINE p == Power(base)[m]
           B == base
           n == x + p * y
<1>1. p \in Nat /\ p > 0 /\ B \in Nat /\ B > 1
  BY PowersOf
<1>2. n \in Nat
  BY <1>1
<1>3. n \div p = y
  <2> HIDE DEF p
  <2>1. p * y + x = n
    BY <1>1
  <2>2. (p * y + x) \div p = y
    BY <1>1, DivisionIs DEF p
  <2> QED
    BY <2>1, <2>2
<1>4. DigitAt(base, n, m + i) = DigitAt(base, y, i)
  <2>1. DigitAt(base, n, m + i) = DigitAt(base, n \div p, i)
    <3> HIDE DEF n
    <3> QED
      BY <1>2, DigitsBehind
  <2> QED
    BY <1>3, <2>1
<1>5. ASSUME i < m
      PROVE  DigitAt(base, n, i) = DigitAt(base, x, i)
  <2> DEFINE r == Power(base)[i]
             d == m - i - 1
             e == Power(base)[d]
             quo == x \div r
             rem == x % r
  <2>1. d \in Nat /\ i \in Nat /\ i + (d + 1) = m /\ d + 1 \in Nat
    BY <1>5
  <2>2. /\ r \in Nat /\ r > 0 /\ e \in Nat
        /\ Power(base)[i + (d + 1)] = r * Power(base)[d + 1]
        /\ Power(base)[d + 1] = B * e
    <3>1. r \in Nat /\ r > 0 /\ \A j \in Nat : Power(base)[i + j] = r * Power(base)[j]
      BY PowersOf
    <3>2. e \in Nat /\ Power(base)[d + 1] = base * e
      <4> HIDE DEF d
      <4> QED
        BY <2>1, PowersOf
    <3> HIDE DEF r, e, d
    <3> QED
      BY <2>1, <3>1, <3>2
  <2>3. p = r * (B * e)
    BY <2>1, <2>2
  <2>4. quo \in Nat /\ rem \in Nat /\ rem < r /\ x = r * quo + rem
    <3> HIDE DEF r
    <3> QED
      BY <2>2, Division
  <2> HIDE DEF r, e, quo, rem, d, p, B
  <2> DEFINE k == quo + B * (e * y)
             g == e * y
  <2>5. n = r * k + rem /\ k \in Nat /\ g \in Nat
    <3>1. n = (r * quo + rem) + (r * (B * e)) * y
      BY <2>3, <2>4
    <3>2. (r * quo + rem) + (r * (B * e)) * y = r * (quo + B * (e * y)) + rem
      BY <1>1, <2>2, <2>4
    <3>3. k \in Nat /\ e * y \in Nat
      BY <1>1, <2>2, <2>4
    <3> QED
      BY <3>1, <3>2, <3>3
  <2> HIDE DEF n
  <2>6. n \div r = k
    <3> HIDE DEF k
    <3> QED
      BY <2>2, <2>4, <2>5, DivisionIs
  <2>7. k % B = quo % B
    <3> DEFINE u == quo \div B
               w == quo % B
    <3>1. u \in Nat /\ w \in Nat /\ w < B /\ quo = B * u + w
      BY <1>1, <2>4, Division
    <3> HIDE DEF u, w
    <3>2. k = B * (u + g) + w /\ u + g \in Nat
      <4>1. k = quo + B * g
        OBVIOUS
      <4> HIDE DEF k, g
      <4>2. B * (u + g) = B * u + B * g /\ u + g \in Nat
        BY <1>1, <2>5, <3>1
      <4>3. B * u \in Nat /\ B * g \in Nat
        BY <1>1, <2>5, <3>1
      <4> QED
        BY <3>1, <4>1, <4>2, <4>3
    <3> HIDE DEF k, g
    <3>3. k % B = w
      BY <1>1, <3>1, <3>2, DivisionIs
    <3> QED
      BY <3>3 DEF w
  <2>8. DigitAt(base, n, i) = (n \div r) % B /\ DigitAt(base, x, i) = quo % B
    BY DEF DigitAt, r, B, quo
  <2> QED
    BY <2>6, <2>7, <2>8
<1> QED
  BY <1>4, <1>5

(* A number below a power has no digits from its exponent on.              *)
LEMMA NoDigits ==
  ASSUME NEW base \in Nat, base > 1, NEW i \in Nat
  PROVE  /\ DigitAt(base, 0, i) = 0
         /\ \A x \in Nat, m \in Nat : x < Power(base)[m] /\ DigitAt(base, x, i) # 0 => i < m
<1>1. ASSUME NEW j \in Nat PROVE DigitAt(base, 0, j) = 0
  <2> DEFINE p == Power(base)[j]
  <2>1. p \in Nat /\ p > 0 /\ base \in Nat /\ base > 1
    BY PowersOf
  <2> HIDE DEF p
  <2>2. (p * 0 + 0) \div p = 0 /\ p * 0 + 0 = 0
    BY <2>1, DivisionIs
  <2>3. (base * 0 + 0) % base = 0 /\ base * 0 + 0 = 0
    BY <2>1, DivisionIs
  <2> QED
    BY <2>2, <2>3 DEF DigitAt, p
<1>2. ASSUME NEW x \in Nat, NEW m \in Nat, x < Power(base)[m], DigitAt(base, x, i) # 0,
             m <= i
      PROVE  FALSE
  <2>1. i - m \in Nat /\ m + (i - m) = i
    BY <1>2
  <2>2. DigitAt(base, x + Power(base)[m] * 0, m + (i - m)) = DigitAt(base, 0, i - m)
    BY <1>2, <2>1, DigitsOfSum
  <2>3. Power(base)[m] \in Nat
    BY PowersOf
  <2>4. x + Power(base)[m] * 0 = x
    BY <2>3
  <2> QED
    BY <1>1, <1>2, <2>1, <2>2, <2>4
<1> QED
  BY <1>1, <1>2


(* The digits of a number are digits.                                      *)
LEMMA DigitsAre ==
  ASSUME NEW base \in Nat, base > 1, NEW x \in Nat, NEW n \in Nat
  PROVE  /\ Digits(x, base, n) \in [1..n -> Nat]
         /\ AreDigits(Digits(x, base, n), base, n)
         /\ \A i \in 1..n : Digits(x, base, n)[i] = DigitAt(base, x, i - 1)
<1> DEFINE s == Digits(x, base, n)
<1>1. s = [i \in 1..n |-> (x \div Power(base)[i - 1]) % base]
  BY DEF Digits
<1>2. ASSUME NEW i \in 1..n
      PROVE  s[i] = DigitAt(base, x, i - 1) /\ s[i] \in 0..(base - 1)
  <2> DEFINE p == Power(base)[i - 1]
             y == x \div p
  <2>1. s[i] = y % base
    BY <1>1
  <2>2. p \in Nat /\ p > 0
    <3>1. i - 1 \in Nat
      OBVIOUS
    <3> QED
      BY <3>1, PowersOf
  <2> HIDE DEF p
  <2>3. y \in Nat
    BY <2>2, Division
  <2> HIDE DEF y
  <2>4. y % base \in Nat /\ y % base < base
    BY <2>3, Division
  <2> HIDE DEF s
  <2>5. s[i] \in 0..(base - 1)
    BY <2>1, <2>4
  <2> QED
    BY <2>1, <2>5 DEF DigitAt, y, p
<1>3. s \in [1..n -> Nat] /\ Len(s) = n
  <2>1. s = [i \in 1..n |-> s[i]]
    BY <1>1, Zenon
  <2> HIDE DEF s
  <2>2. \A i \in 1..n : s[i] \in Nat
    BY <1>2
  <2> QED
    BY <2>1, <2>2
<1> QED
  BY <1>2, <1>3 DEF AreDigits

(* Digits that are turned round are digits.                                *)
LEMMA ReversedDigits ==
  ASSUME NEW base \in Nat, base > 1, NEW x \in Nat, NEW n \in Nat
  PROVE  /\ AreDigits(Reverse(Digits(x, base, n)), base, n)
         /\ \A i \in 1..n : Reverse(Digits(x, base, n))[i] = DigitAt(base, x, n - i)
<1> DEFINE s == Digits(x, base, n)
           r == Reverse(s)
<1>1. s \in [1..n -> Nat] /\ AreDigits(s, base, n)
  BY DigitsAre
<1>2. \A i \in 1..n : s[i] = DigitAt(base, x, i - 1)
  BY DigitsAre
<1> HIDE DEF s
<1>3. Len(r) = n /\ \A i \in 1..n : r[i] = s[n - i + 1]
  BY <1>1, ReverseIs
<1>4. \A i \in 1..n : n - i + 1 \in 1..n /\ n - i + 1 - 1 = n - i
  OBVIOUS
<1> HIDE DEF r
<1> QED
  BY <1>1, <1>2, <1>3, <1>4 DEF AreDigits, r, s

(* Higher digits make a number of their own, times a power.                *)
LEMMA SumsAppend ==
  ASSUME NEW base \in Nat, base > 1, NEW m \in Nat, NEW n \in Nat,
         NEW s, AreDigits(s, base, m + n), NEW t, AreDigits(t, base, n),
         \A i \in 1..n : t[i] = s[m + i]
  PROVE  ValueOf(s, base) = DigitSums(s, base)[m] + Power(base)[m] * ValueOf(t, base)
<1> DEFINE S == DigitSums(s, base)
           T == DigitSums(t, base)
           P == Power(base)
           E == {j \in Nat : j <= n => S[m + j] = S[m] + P[m] * T[j]}
<1>1. SumsUnfold(S, P, s, m + n)
  <2>1. m + n \in Nat
    OBVIOUS
  <2> QED
    BY <2>1, DigitSumsUnfold
<1>2. SumsUnfold(T, P, t, n)
  BY DigitSumsUnfold
<1>3. P[m] \in Nat /\ \A j \in Nat : P[j] \in Nat /\ P[m + j] = P[m] * P[j]
  <2>1. P[m] \in Nat /\ \A j \in Nat : P[m + j] = P[m] * P[j]
    BY PowersOf
  <2>2. \A j \in Nat : P[j] \in Nat
    BY PowerUnfold
  <2> QED
    BY <2>1, <2>2
<1> HIDE DEF S, T, P
<1>4. 0 \in E
  <2>1. S[m] \in Nat /\ T[0] = 0 /\ m + 0 = m
    <3>1. m \in 0..(m + n)
      OBVIOUS
    <3> QED
      BY <1>1, <1>2, <3>1 DEF SumsUnfold
  <2>2. S[m] + P[m] * 0 = S[m]
    BY <1>3, <2>1
  <2> QED
    BY <2>1, <2>2
<1>5. ASSUME NEW j \in Nat, j \in E PROVE j + 1 \in E
  <2> SUFFICES ASSUME j + 1 <= n PROVE S[m + (j + 1)] = S[m] + P[m] * T[j + 1]
    OBVIOUS
  <2>1. /\ j + 1 \in 1..n /\ (j + 1) - 1 = j /\ j \in 0..n /\ m \in 0..(m + n)
        /\ m + (j + 1) \in 1..(m + n) /\ (m + (j + 1)) - 1 = m + j
    OBVIOUS
  <2> DEFINE d == t[j + 1]
             c == S[m]
             p == P[m]
             r == P[j]
             e == T[j]
  <2>2. S[m + j] = c + p * e
    BY <1>5, <2>1
  <2>3. S[m + (j + 1)] = (c + p * e) + d * (p * r)
    <3>1. S[m + (j + 1)] = S[m + j] + s[m + (j + 1)] * P[m + j]
      BY <1>1, <2>1 DEF SumsUnfold
    <3>2. s[m + (j + 1)] = d /\ P[m + j] = p * r
      BY <1>3, <2>1
    <3> QED
      BY <2>2, <3>1, <3>2
  <2>4. T[j + 1] = e + d * r
    BY <1>2, <2>1 DEF SumsUnfold
  <2>5. d \in Nat /\ c \in Nat /\ p \in Nat /\ r \in Nat /\ e \in Nat
    <3>1. d \in 0..(base - 1)
      BY <2>1 DEF AreDigits
    <3> QED
      BY <1>1, <1>2, <1>3, <2>1, <3>1 DEF SumsUnfold
  <2> HIDE DEF c, d, p, r, e
  <2>6. (c + p * e) + d * (p * r) = c + p * (e + d * r)
    BY <2>5
  <2> QED
    BY <2>3, <2>4, <2>6 DEF c, p
<1> HIDE DEF E
<1>6. n \in E
  BY <1>4, <1>5, NatSetInduction
<1>7. ValueOf(s, base) = S[m + n] /\ ValueOf(t, base) = T[n]
  BY DEF ValueOf, AreDigits, S, T
<1> QED
  BY <1>6, <1>7 DEF E, S, P

(* Sums depend on the digits only.                                         *)
LEMMA SumsAgree ==
  ASSUME NEW base \in Nat, base > 1, NEW n \in Nat, NEW m \in 0..n,
         NEW s, AreDigits(s, base, n), NEW t, AreDigits(t, base, m),
         \A i \in 1..m : t[i] = s[i]
  PROVE  DigitSums(s, base)[m] = ValueOf(t, base)
<1> DEFINE S == DigitSums(s, base)
           T == DigitSums(t, base)
           P == Power(base)
           E == {j \in Nat : j <= m => S[j] = T[j]}
<1>1. SumsUnfold(S, P, s, n)
  BY DigitSumsUnfold
<1>2. SumsUnfold(T, P, t, m) /\ m \in Nat
  <2>1. m \in Nat
    OBVIOUS
  <2> QED
    BY <2>1, DigitSumsUnfold
<1> HIDE DEF S, T, P
<1>3. 0 \in E
  BY <1>1, <1>2 DEF SumsUnfold
<1>4. ASSUME NEW j \in Nat, j \in E PROVE j + 1 \in E
  <2> SUFFICES ASSUME j + 1 <= m PROVE S[j + 1] = T[j + 1]
    OBVIOUS
  <2>1. j + 1 \in 1..m /\ (j + 1) - 1 = j /\ j + 1 \in 1..n
    OBVIOUS
  <2>2. S[j + 1] = S[j] + s[j + 1] * P[j] /\ T[j + 1] = T[j] + t[j + 1] * P[j]
    BY <1>1, <1>2, <2>1 DEF SumsUnfold
  <2>3. S[j] = T[j] /\ s[j + 1] = t[j + 1]
    BY <1>4, <2>1
  <2> QED
    BY <2>2, <2>3
<1> HIDE DEF E
<1>5. m \in E
  BY <1>2, <1>3, <1>4, NatSetInduction
<1> QED
  BY <1>5 DEF E, S, T, ValueOf, AreDigits

(* The sum of digits that are all 0.                                       *)
LEMMA SumsOfZeroes ==
  ASSUME NEW base \in Nat, base > 1, NEW n \in Nat, NEW s, AreDigits(s, base, n),
         NEW m \in 0..n, \A i \in 1..m : s[i] = 0
  PROVE  DigitSums(s, base)[m] = 0
<1> DEFINE S == DigitSums(s, base)
           P == Power(base)
           E == {j \in Nat : j <= m => S[j] = 0}
<1>1. SumsUnfold(S, P, s, n)
  BY DigitSumsUnfold
<1>2. \A j \in Nat : P[j] \in Nat
  BY PowerUnfold
<1> HIDE DEF S, P
<1>3. 0 \in E
  BY <1>1 DEF SumsUnfold
<1>4. ASSUME NEW j \in Nat, j \in E PROVE j + 1 \in E
  <2> SUFFICES ASSUME j + 1 <= m PROVE S[j + 1] = 0
    OBVIOUS
  <2>1. j + 1 \in 1..m /\ (j + 1) - 1 = j /\ j + 1 \in 1..n
    OBVIOUS
  <2>2. S[j + 1] = S[j] + s[j + 1] * P[j] /\ S[j] = 0 /\ s[j + 1] = 0
    BY <1>1, <1>4, <2>1 DEF SumsUnfold
  <2>3. 0 * P[j] = 0
    BY <1>2
  <2> QED
    BY <2>2, <2>3
<1> HIDE DEF E
<1>5. m \in E
  BY <1>3, <1>4, NatSetInduction
<1> QED
  BY <1>5 DEF E, S

(* The number of digits is found by the powers around a number.            *)
LEMMA DigitCountFound ==
  ASSUME NEW base \in Nat, base > 1, NEW x \in Nat, NEW n \in Nat \ {0},
         Power(base)[n - 1] <= x, x < Power(base)[n]
  PROVE  DigitCount(x, base) = n
<1> DEFINE c == DigitCount(x, base)
<1>1. c \in Nat /\ x < Power(base)[c]
  BY DigitCountIs
<1>2. c <= n
  BY DigitCountBound
<1> HIDE DEF c
<1>3. n - 1 < c
  <2>1. n - 1 \in Nat
    OBVIOUS
  <2>2. Power(base)[n - 1] \in Nat /\ Power(base)[c] \in Nat
    BY <1>1, <2>1, PowersOf
  <2>3. Power(base)[n - 1] < Power(base)[c]
    BY <1>1, <2>2
  <2> QED
    BY <1>1, <2>1, <2>3, PowerMonotone
<1> QED
  BY <1>1, <1>2, <1>3 DEF c

(* The digits before those that are divided away are 0.                    *)
LEMMA DigitsBefore ==
  ASSUME NEW base \in Nat, base > 1, NEW x \in Nat, NEW t \in Nat,
         x % Power(base)[t] = 0, NEW i \in Nat, i < t
  PROVE  DigitAt(base, x, i) = 0
<1> DEFINE p == Power(base)[t]
           y == x \div p
<1>1. p \in Nat /\ p > 0
  BY PowersOf
<1>2. y \in Nat /\ x = p * y + (x % p)
  <2> HIDE DEF p
  <2> QED
    BY <1>1, Division
<1> HIDE DEF y
<1>3. x = 0 + p * y /\ 0 < p /\ 0 \in Nat
  BY <1>1, <1>2
<1>4. DigitAt(base, 0 + p * y, i) = DigitAt(base, 0, i)
  BY <1>2, <1>3, DigitsOfSum
<1>5. DigitAt(base, 0, i) = 0
  BY NoDigits
<1> QED
  BY <1>3, <1>4, <1>5

-----------------------------------------------------------------------------
(* Nibbles.                                                                *)

(* The powers of the base of a nibble are positive.                        *)
LEMMA NibblePowers ==
  ASSUME NEW i \in Nat
  PROVE  /\ NibbleBase \in Nat /\ NibbleBase > 1
         /\ Power(NibbleBase)[i] \in Nat /\ Power(NibbleBase)[i] > 0
         /\ \A j \in Nat : Power(NibbleBase)[i + j]
                             = Power(NibbleBase)[i] * Power(NibbleBase)[j]
         /\ Power(NibbleBase)[i + 1] = NibbleBase * Power(NibbleBase)[i]
<1>1. NibbleBase \in Nat /\ NibbleBase > 1
  BY ScaleAssumption
<1> QED
  BY <1>1, PowersOf

(* A multiple of a power of the base in front of a number does not change  *)
(* the nibbles before it; behind it are its own.                           *)
LEMMA NibblesOfSum ==
  ASSUME NEW x \in Nat, NEW m \in Nat, x < Power(NibbleBase)[m], NEW y \in Nat, NEW i \in Nat
  PROVE  /\ i < m => NibbleOf(x + Power(NibbleBase)[m] * y, i) = NibbleOf(x, i)
         /\ NibbleOf(x + Power(NibbleBase)[m] * y, m + i) = NibbleOf(y, i)
<1>1. NibbleBase \in Nat /\ NibbleBase > 1
  BY ScaleAssumption
<1>2. \A n, j : NibbleOf(n, j) = DigitAt(NibbleBase, n, j)
  BY DEF NibbleOf, DigitAt
<1> QED
  BY <1>1, <1>2, DigitsOfSum

(* A number below a power has no nibbles from its exponent on.             *)
LEMMA NoNibbles ==
  ASSUME NEW i \in Nat
  PROVE  /\ NibbleOf(0, i) = 0
         /\ \A x \in Nat, m \in Nat : x < Power(NibbleBase)[m] /\ NibbleOf(x, i) # 0 => i < m
<1>1. NibbleBase \in Nat /\ NibbleBase > 1
  BY ScaleAssumption
<1>2. \A n, j : NibbleOf(n, j) = DigitAt(NibbleBase, n, j)
  BY DEF NibbleOf, DigitAt
<1> QED
  BY <1>1, <1>2, NoDigits

(* The nibbles of byte t.                                                  *)
LEMMA NibblesOfByte ==
  ASSUME NEW x \in Nat, NEW t \in Nat
  PROVE  (x \div Power(ByteBase)[t]) % ByteBase
           = NibbleBase * NibbleOf(x, 2 * t + 1) + NibbleOf(x, 2 * t)
<1> DEFINE B == NibbleBase
           P == Power(NibbleBase)
           k == x \div P[2 * t]
           u == k \div B
           l == k % B
           v == u \div B
           h == u % B
<1>0. 2 * t \in Nat
  OBVIOUS
<1>1. /\ B \in Nat /\ B > 1 /\ P[2 * t] \in Nat /\ P[2 * t] > 0
      /\ P[2 * t + 1] = P[2 * t] * B
      /\ Power(ByteBase)[t] = P[2 * t] /\ ByteBase = B * B
  <2>1. /\ B \in Nat /\ P[2 * t] \in Nat /\ P[2 * t + 1] = B * P[2 * t]
    BY <1>0, NibblePowers
  <2>2. P[2 * t + 1] = P[2 * t] * B
    BY <2>1
  <2> QED
    BY <1>0, <2>1, <2>2, NibblePowers, BytePowers DEF ByteBase
<1>2. k \in Nat
  <2> HIDE DEF P
  <2> QED
    BY <1>1, Division
<1>3. x \div P[2 * t + 1] = u
  <2> DEFINE p == P[2 * t]
  <2>1. p \in Nat /\ p > 0 /\ P[2 * t + 1] = p * B
    BY <1>1
  <2> HIDE DEF p, P, B
  <2>2. x \div (p * B) = (x \div p) \div B
    BY <1>1, <2>1, DivisionTwice
  <2> QED
    BY <2>1, <2>2 DEF p
<1> HIDE DEF k
<1>4. u \in Nat /\ l \in Nat /\ l < B /\ k = B * u + l
  BY <1>1, <1>2, Division
<1> HIDE DEF u, l
<1>5. v \in Nat /\ h \in Nat /\ h < B /\ u = B * v + h
  BY <1>1, <1>4, Division
<1> HIDE DEF v, h, B
<1> DEFINE y == B * h + l
           m == B * B
<1>6. k = m * v + y
  BY <1>1, <1>4, <1>5
<1>7. y \in Nat /\ y < m /\ m \in Nat
  <2>1. (h + 1) * B <= B * B
    <3>1. h + 1 \in Nat /\ h + 1 <= B
      BY <1>1, <1>5
    <3> QED
      BY <1>1, <3>1, ProductMonotone
  <2>2. (h + 1) * B = B * h + B /\ B * h \in Nat /\ B * B \in Nat
    BY <1>1, <1>5
  <2> QED
    BY <1>1, <1>4, <2>1, <2>2
<1> HIDE DEF y, m
<1>8. k % m = y
  BY <1>5, <1>6, <1>7, DivisionIs
<1>9. NibbleOf(x, 2 * t + 1) = h /\ NibbleOf(x, 2 * t) = l
  BY <1>3 DEF NibbleOf, h, l, k, B
<1>10. (x \div Power(ByteBase)[t]) % ByteBase = y
  BY <1>1, <1>8 DEF k, m
<1> QED
  BY <1>9, <1>10 DEF y, B

(* A half with t zero bytes at the end and another byte behind them.       *)
LEMMA NibblesVerified ==
  ASSUME NEW x \in Nat, x # 0, NEW t \in Nat, TrailingZeroesVerified(x, t)
  PROVE  /\ \A i \in Nat : i < 2 * t => NibbleOf(x, i) = 0
         /\ NibbleOf(x, 2 * t) # 0 \/ NibbleOf(x, 2 * t + 1) # 0
<1>1. x % Power(ByteBase)[t] = 0 /\ (x \div Power(ByteBase)[t]) % ByteBase # 0
  BY DEF TrailingZeroesVerified
<1> DEFINE p == Power(NibbleBase)[2 * t]
           k == x \div p
<1>2. p \in Nat /\ p > 0 /\ 2 * t \in Nat /\ Power(ByteBase)[t] = p
  <2>1. 2 * t \in Nat
    OBVIOUS
  <2> QED
    BY <2>1, NibblePowers, BytePowers
<1>3. k \in Nat /\ x = 0 + p * k
  <2> HIDE DEF p
  <2>1. k \in Nat /\ x = p * k + (x % p) /\ x % p = 0
    BY <1>1, <1>2, Division
  <2> QED
    BY <1>2, <2>1
<1>4. ASSUME NEW i \in Nat, i < 2 * t PROVE NibbleOf(x, i) = 0
  <2> HIDE DEF k
  <2>1. 0 < Power(NibbleBase)[2 * t] /\ 0 \in Nat
    BY <1>2
  <2>2. NibbleOf(0 + Power(NibbleBase)[2 * t] * k, i) = NibbleOf(0, i)
    BY <1>2, <1>3, <1>4, <2>1, NibblesOfSum
  <2> QED
    BY <1>3, <2>2, NoNibbles
<1>5. NibbleOf(x, 2 * t) # 0 \/ NibbleOf(x, 2 * t + 1) # 0
  <2>1. NibbleBase \in Nat
    BY ScaleAssumption
  <2>2. NibbleBase * 0 + 0 = 0
    BY <2>1
  <2> QED
    BY <1>1, <2>2, NibblesOfByte
<1> QED
  BY <1>4, <1>5

-----------------------------------------------------------------------------
(* count_leading_zeroes_from_uint256_le_before_reversion.                  *)

(* The numbers of a call, and that its number is the sum of its halves.    *)
LEMMA ZeroesTypes ==
  ASSUME call \in LeadingZeroesCalls
  PROVE  /\ call.low \in Nat /\ call.low < Power(NibbleBase)[HalfNibbles]
         /\ call.high \in Nat /\ call.high < Power(NibbleBase)[HalfNibbles]
         /\ HalfNibbles \in Nat /\ HalfNibbles >= 2
         /\ HalfShift = Power(NibbleBase)[HalfNibbles]
         /\ call.cut_nibble \in 0..1 /\ call.n_bytes \in Nat /\ call.n_bytes >= 1
         /\ WholeNumber(call) = call.low + Power(NibbleBase)[HalfNibbles] * call.high
         /\ WholeNumber(call) \in Nat
         /\ WholeNumber(call) < Power(NibbleBase)[2 * call.n_bytes]
<1>1. HalfBytes \in Nat /\ HalfBytes >= 1 /\ HalfNibbles = 2 * HalfBytes
  BY ScaleAssumption DEF HalfNibbles
<1>2. HalfShift = Power(NibbleBase)[HalfNibbles]
  BY <1>1, BytePowers DEF HalfShift
<1>3. HalfNibbles \in Nat /\ HalfNibbles >= 2
  BY <1>1
<1>4. HalfShift \in Nat
  BY <1>2, <1>3, NibblePowers
<1>5. /\ call.low \in Halves /\ call.high \in Halves
      /\ call.cut_nibble \in 0..1 /\ call.n_bytes \in 1..(2 * HalfBytes)
      /\ WholeNumber(call) < Power(ByteBase)[call.n_bytes]
  BY DEF LeadingZeroesCalls
<1>6. call.low \in 0..(HalfShift - 1) /\ call.high \in 0..(HalfShift - 1)
  BY <1>5, HalvesAssumption
<1>7. call.n_bytes \in Nat /\ call.n_bytes >= 1
  BY <1>1, <1>5
<1>8. WholeNumber(call) \in Nat
  BY <1>4, <1>6 DEF WholeNumber
<1>9. Power(ByteBase)[call.n_bytes] = Power(NibbleBase)[2 * call.n_bytes]
  BY <1>7, BytePowers
<1>10. WholeNumber(call) = call.low + HalfShift * call.high
  BY DEF WholeNumber
<1> QED
  BY <1>2, <1>3, <1>4, <1>5, <1>6, <1>7, <1>8, <1>9, <1>10

(* The nibbles of the lower half without the one that is cut.              *)
LEMMA CutLowIs ==
  ASSUME call \in LeadingZeroesCalls
  PROVE  /\ CutLow \in Nat /\ CutLow < Power(NibbleBase)[HalfNibbles]
         /\ call.cut_nibble = 1 => NibbleOf(CutLow, 1) = 0
         /\ \A i \in Nat : call.cut_nibble = 0 \/ i # 1
              => NibbleOf(CutLow, i) = NibbleOf(call.low, i)
<1>1. /\ call.low \in Nat /\ call.low < Power(NibbleBase)[HalfNibbles]
      /\ call.cut_nibble \in 0..1
      /\ HalfNibbles \in Nat /\ Power(NibbleBase)[HalfNibbles] \in Nat
  BY ZeroesTypes, NibblePowers
<1>2. CASE call.cut_nibble = 0
  BY <1>1, <1>2 DEF CutLow
<1>3. CASE call.cut_nibble = 1
  <2> DEFINE B == NibbleBase
             x == call.low
             u == x \div B
             l == x % B
             m == u \div B
             h == u % B
             c == B * B * m + l
             top == Power(NibbleBase)[HalfNibbles]
  <2>1. B \in Nat /\ B > 1 /\ x \in Nat /\ x < top /\ top \in Nat
    BY <1>1, ScaleAssumption
  <2>2. u \in Nat /\ l \in Nat /\ l < B /\ x = B * u + l
    <3> HIDE DEF B, x
    <3> QED
      BY <2>1, Division
  <2>p. Power(NibbleBase)[0] = 1 /\ Power(NibbleBase)[1] = B /\ Power(NibbleBase)[2] = B * B
    <3>1. /\ Power(NibbleBase)[0] = 1
          /\ Power(NibbleBase)[0 + 1] = B * Power(NibbleBase)[0]
          /\ Power(NibbleBase)[1 + 1] = B * Power(NibbleBase)[1]
      BY <2>1, PowerUnfold, NibblePowers
    <3>2. 0 + 1 = 1 /\ 1 + 1 = 2 /\ B * 1 = B
      BY <2>1
    <3> QED
      BY <3>1, <3>2
  <2>h. NibbleOf(x, 1) = h /\ NibbleOf(x, 0) = l
    <3>1. x \div 1 = x
      <4> HIDE DEF x
      <4> QED
        BY <2>1
    <3> QED
      BY <2>p, <3>1 DEF NibbleOf
  <2>c. CutLow = x - h * B
    BY <1>3, <2>h DEF CutLow
  <2> HIDE DEF x, u, l, B, top
  <2>3. m \in Nat /\ h \in Nat /\ h < B /\ u = B * m + h
    BY <2>1, <2>2, Division
  <2> HIDE DEF m, h
  <2>4. x = (B * h + l) + B * B * m /\ CutLow = c /\ c = l + B * B * m /\ c \in Nat
    <3>1. x = B * (B * m + h) + l
      BY <2>2, <2>3
    <3>2. B * (B * m + h) = B * B * m + B * h /\ h * B = B * h
          /\ B * B * m \in Nat /\ B * h \in Nat
      BY <2>1, <2>3
    <3> QED
      BY <2>2, <2>c, <3>1, <3>2
  <2>5. c < top
    <3>1. B * h \in Nat /\ B * B * m \in Nat
      BY <2>1, <2>3
    <3> QED
      BY <2>1, <2>2, <2>4, <3>1
  <2>6. l < B * B /\ B * h + l \in Nat /\ B * h + l < B * B
    <3>1. (h + 1) * B <= B * B /\ 1 * B <= B * B
      <4>1. h + 1 \in Nat /\ h + 1 <= B /\ 1 <= B
        BY <2>1, <2>3
      <4> QED
        BY <2>1, <4>1, ProductMonotone
    <3>2. (h + 1) * B = B * h + B /\ 1 * B = B /\ B * h \in Nat /\ B * B \in Nat
      BY <2>1, <2>3
    <3> QED
      BY <2>1, <2>2, <3>1, <3>2
  <2>7. l < Power(NibbleBase)[2] /\ B * h + l < Power(NibbleBase)[2]
        /\ c = l + Power(NibbleBase)[2] * m
        /\ x = (B * h + l) + Power(NibbleBase)[2] * m
    BY <2>p, <2>4, <2>6
  <2> HIDE DEF c
  <2>8. \A i \in Nat : i < 2 => NibbleOf(c, i) = NibbleOf(l, i)
    BY <2>2, <2>3, <2>7, NibblesOfSum
  <2>9. \A i \in Nat : NibbleOf(c, 2 + i) = NibbleOf(m, i)
    BY <2>2, <2>3, <2>7, NibblesOfSum
  <2>10. \A i \in Nat : NibbleOf(x, 2 + i) = NibbleOf(m, i)
    <3> DEFINE y == B * h + l
    <3>1. y \in Nat /\ y < Power(NibbleBase)[2] /\ x = y + Power(NibbleBase)[2] * m
      BY <2>6, <2>7
    <3> HIDE DEF y
    <3> QED
      BY <2>3, <3>1, NibblesOfSum
  <2>11. NibbleOf(l, 0) = l
    <3>1. l = B * 0 + l /\ l \div 1 = l
      BY <2>1, <2>2
    <3>2. (B * 0 + l) % B = l
      BY <2>1, <2>2, DivisionIs
    <3> QED
      BY <2>p, <3>1, <3>2 DEF NibbleOf, B
  <2>12. NibbleOf(l, 1) = 0
    <3>1. l < Power(NibbleBase)[1]
      BY <2>2, <2>p
    <3>2. NibbleOf(l, 1) # 0 => 1 < 1
      BY <2>2, <3>1, NoNibbles
    <3> QED
      BY <3>2
  <2>13. NibbleOf(c, 1) = 0 /\ NibbleOf(c, 0) = NibbleOf(x, 0)
    BY <2>8, <2>11, <2>12, <2>h
  <2>14. ASSUME NEW i \in Nat, i # 1 PROVE NibbleOf(c, i) = NibbleOf(x, i)
    <3>1. CASE i = 0
      BY <2>13, <3>1
    <3>2. CASE i # 0
      <4>1. i - 2 \in Nat /\ 2 + (i - 2) = i
        BY <2>14, <3>2
      <4> QED
        BY <2>9, <2>10, <4>1
    <3> QED
      BY <3>1, <3>2
  <2> QED
    BY <1>3, <2>4, <2>5, <2>13, <2>14 DEF x, top
<1> QED
  BY <1>1, <1>2, <1>3

(* The elements in front that are 0 are those up to one that is not.       *)
LEMMA ZeroesInFrontIs ==
  ASSUME NEW s, Len(s) \in Nat, NEW n \in 0..Len(s),
         \A i \in 1..n : s[i] = 0,
         n = Len(s) \/ s[n + 1] # 0
  PROVE  ZeroesInFront(s) = n
<1> DEFINE Is(m) == (\A i \in 1..m : s[i] = 0) /\ (m = Len(s) \/ s[m + 1] # 0)
           z == CHOOSE m \in 0..Len(s) : Is(m)
<1>1. n \in 0..Len(s) /\ Is(n)
  OBVIOUS
<1>2. ZeroesInFront(s) = z
  BY Zenon DEF ZeroesInFront
<1>3. z \in 0..Len(s) /\ Is(z)
  <2> HIDE DEF Is
  <2> QED
    BY <1>1
<1> HIDE DEF z
<1>4. CASE z < n
  <2>1. z + 1 \in 1..n /\ z # Len(s)
    BY <1>3, <1>4
  <2> QED
    BY <1>1, <1>3, <2>1
<1>5. CASE n < z
  <2>1. n + 1 \in 1..z /\ n # Len(s)
    BY <1>3, <1>5
  <2> QED
    BY <1>1, <1>3, <2>1
<1> QED
  BY <1>2, <1>3, <1>4, <1>5

(* Where a nibble stands before its bytes are reversed.                    *)
PlaceBefore(i) == IF i % 2 = 1 THEN i ELSE i - 2

(* How many nibbles are 0 in front, counted with the one that is cut.      *)
LEMMA ZeroesBeforeCut ==
  ASSUME NEW x \in Nat, NEW n \in Nat, n >= 1, call.cut_nibble \in 0..1,
         NEW z \in call.cut_nibble..(2 * n),
         \A i \in (1 + call.cut_nibble)..z : NibbleOf(x, PlaceBefore(i)) = 0,
         z = 2 * n \/ NibbleOf(x, PlaceBefore(z + 1)) # 0
  PROVE  ZeroesInFront(Cut(ReversedNibbles(x, n))) = z - call.cut_nibble
<1> DEFINE c == call.cut_nibble
           r == ReversedNibbles(x, n)
           s == Cut(r)
<1>1. r = [i \in 1..(2 * n) |-> NibbleOf(x, PlaceBefore(i))]
  BY DEF ReversedNibbles, PlaceBefore
<1>2. 2 * n \in Nat /\ 2 * n >= 2 /\ c \in 0..1
  OBVIOUS
<1>3. Len(r) = 2 * n /\ \A i \in 1..(2 * n) : r[i] = NibbleOf(x, PlaceBefore(i))
  BY <1>1, <1>2
<1>4. s = SubSeq(r, 1 + c, 2 * n)
  BY <1>3 DEF Cut
<1>5. Len(s) = 2 * n - c /\ \A i \in 1..(2 * n - c) : s[i] = r[i + c]
  <2> DEFINE S == {NibbleOf(x, PlaceBefore(i)) : i \in 1..(2 * n)}
             m == 1 + c
             k == 2 * n
  <2>1. /\ m \in Int /\ k \in Int /\ m <= k /\ k - m + 1 = 2 * n - c
        /\ \A i \in m..k : i \in 1..(2 * n)
        /\ \A i \in 1..(2 * n - c) : m + i - 1 = i + c
    BY <1>2
  <2>2. \A i \in m..k : r[i] \in S
    BY <1>3, <2>1
  <2> HIDE DEF r, m, k, S
  <2>3. /\ Len(SubSeq(r, m, k)) = k - m + 1
        /\ \A i \in 1..(k - m + 1) : SubSeq(r, m, k)[i] = r[m + i - 1]
    BY <2>1, <2>2, SubSeqProperties
  <2>4. s = SubSeq(r, m, k)
    BY <1>4 DEF m, k
  <2> HIDE DEF s, c
  <2> QED
    BY <2>1, <2>3, <2>4
<1> HIDE DEF r, s
<1>6. z - c \in 0..Len(s)
  BY <1>2, <1>5
<1>7. \A i \in 1..(z - c) : s[i] = 0
  <2> TAKE i \in 1..(z - c)
  <2>1. i \in 1..(2 * n - c) /\ i + c \in 1..(2 * n) /\ i + c \in (1 + c)..z
    BY <1>2
  <2> QED
    BY <1>3, <1>5, <2>1
<1>8. z - c = Len(s) \/ s[(z - c) + 1] # 0
  <2>1. CASE z = 2 * n
    BY <1>5, <2>1
  <2>2. CASE z # 2 * n
    <3>1. (z - c) + 1 \in 1..(2 * n - c) /\ ((z - c) + 1) + c = z + 1 /\ z + 1 \in 1..(2 * n)
      BY <1>2, <2>2
    <3> QED
      BY <1>3, <1>5, <2>2, <3>1
  <2> QED
    BY <2>1, <2>2
<1>9. Len(s) \in Nat
  BY <1>2, <1>5
<1>10. ZeroesInFront(s) = z - c
  BY <1>6, <1>7, <1>8, <1>9, ZeroesInFrontIs
<1> QED
  BY <1>10 DEF s, r

(* The nibble at i as if the one that is cut were 0.                       *)
Uncut(x, i) == IF call.cut_nibble = 1 /\ i = 1 THEN 0 ELSE NibbleOf(x, i)

(* The first byte that is not 0, the cut made, ends the zeroes.            *)
LEMMA ZeroesBeforeByte ==
  ASSUME NEW x \in Nat, NEW n \in Nat, n >= 1, call.cut_nibble \in 0..1,
         x < Power(NibbleBase)[2 * n], NEW t \in Nat,
         \A i \in Nat : i < 2 * t => Uncut(x, i) = 0,
         Uncut(x, 2 * t) # 0 \/ Uncut(x, 2 * t + 1) # 0
  PROVE  ZeroesInFront(Cut(ReversedNibbles(x, n)))
           = 2 * t - call.cut_nibble + (IF Uncut(x, 2 * t + 1) = 0 THEN 1 ELSE 0)
<1> DEFINE c == call.cut_nibble
           z == 2 * t + (IF Uncut(x, 2 * t + 1) = 0 THEN 1 ELSE 0)
<1>1. 2 * t \in Nat /\ 2 * t + 1 \in Nat /\ 2 * n \in Nat /\ c \in 0..1
  OBVIOUS
<1>2. 2 * t + 1 < 2 * n
  <2>1. ASSUME NEW i \in Nat, Uncut(x, i) # 0 PROVE i < 2 * n
    <3>1. NibbleOf(x, i) # 0
      BY <2>1 DEF Uncut
    <3> QED
      BY <1>1, <3>1, NoNibbles
  <2>2. 2 * t < 2 * n
    <3>1. 2 * t < 2 * n \/ 2 * t + 1 < 2 * n
      BY <1>1, <2>1
    <3> QED
      BY <3>1
  <2> QED
    BY <2>2
<1>3. z \in c..(2 * n) /\ z # 2 * n /\ z \in {2 * t, 2 * t + 1}
  <2>1. z \in {2 * t, 2 * t + 1}
    OBVIOUS
  <2>2. c = 1 /\ t = 0 => z = 1
    BY DEF Uncut
  <2>3. z \in Nat
    BY <1>1, <2>1
  <2> HIDE DEF z
  <2>4. c <= z
    BY <1>1, <2>1, <2>2
  <2> QED
    BY <1>1, <1>2, <2>1, <2>3, <2>4
<1>4. ASSUME NEW i \in (1 + c)..z
      PROVE  NibbleOf(x, PlaceBefore(i)) = 0
  <2> DEFINE j == PlaceBefore(i)
  <2>1. i \in Nat /\ i >= 1 + c /\ i <= 2 * t + 1 /\ (i = 2 * t + 1 => z = 2 * t + 1)
    BY <1>1, <1>3
  <2>2. /\ j \in Nat /\ (j = 1 => c = 0)
        /\ \/ j < 2 * t
           \/ j = 2 * t + 1 /\ i = 2 * t + 1
    <3>1. CASE i % 2 = 1
      <4>1. j = i
        BY <3>1 DEF PlaceBefore
      <4>2. i # 2 * t
        BY <2>1, <3>1
      <4>3. i < 2 * t \/ i = 2 * t + 1
        BY <2>1, <4>2
      <4> QED
        BY <1>1, <2>1, <4>1, <4>3
    <3>2. CASE i % 2 # 1
      <4>1. j = i - 2
        BY <3>2 DEF PlaceBefore
      <4>2. i >= 2 /\ i # 3 /\ i # 2 * t + 1
        BY <2>1, <3>2
      <4> QED
        BY <1>1, <2>1, <4>1, <4>2
    <3> QED
      BY <3>1, <3>2
  <2> HIDE DEF j
  <2>3. Uncut(x, j) = 0
    <3>1. CASE j < 2 * t
      BY <2>2, <3>1
    <3>2. CASE j = 2 * t + 1 /\ i = 2 * t + 1
      <4>1. z = 2 * t + 1
        BY <2>1, <3>2
      <4>2. 2 * t # 2 * t + 1
        BY <1>1
      <4>3. Uncut(x, 2 * t + 1) = 0
        <5>1. CASE Uncut(x, 2 * t + 1) # 0
          <6>1. z = 2 * t + 0
            BY <5>1
          <6> QED
            BY <1>1, <4>1, <6>1
        <5> QED
          BY <5>1
      <4> QED
        BY <3>2, <4>3
    <3> QED
      BY <2>2, <3>1, <3>2
  <2>4. Uncut(x, j) = NibbleOf(x, j)
    BY <2>2 DEF Uncut
  <2> QED
    BY <2>3, <2>4 DEF j
<1>5. NibbleOf(x, PlaceBefore(z + 1)) # 0
  <2>1. CASE Uncut(x, 2 * t + 1) = 0
    <3>1. z + 1 = 2 * t + 2
      BY <2>1
    <3>2. PlaceBefore(2 * t + 2) = 2 * t
      <4>1. (2 * t + 2) % 2 # 1 /\ (2 * t + 2) - 2 = 2 * t
        OBVIOUS
      <4> QED
        BY <4>1 DEF PlaceBefore
    <3>3. Uncut(x, 2 * t) # 0
      BY <2>1
    <3>4. NibbleOf(x, 2 * t) # 0
      BY <3>3 DEF Uncut
    <3> QED
      BY <3>1, <3>2, <3>4
  <2>2. CASE Uncut(x, 2 * t + 1) # 0
    <3>1. z + 1 = 2 * t + 1
      BY <2>2
    <3>2. PlaceBefore(2 * t + 1) = 2 * t + 1
      <4>1. (2 * t + 1) % 2 = 1
        OBVIOUS
      <4> QED
        BY <4>1 DEF PlaceBefore
    <3>3. NibbleOf(x, 2 * t + 1) # 0
      BY <2>2 DEF Uncut
    <3> QED
      BY <3>1, <3>2, <3>3
  <2> QED
    BY <2>1, <2>2
<1>6. ZeroesInFront(Cut(ReversedNibbles(x, n))) = z - c
  <2> HIDE DEF z
  <2> QED
    BY <1>3, <1>4, <1>5, ZeroesBeforeCut
<1> QED
  BY <1>1, <1>6

(* No byte is left once the cut is made.                                   *)
LEMMA ZeroesOfAll ==
  ASSUME NEW x \in Nat, NEW n \in Nat, n >= 1, call.cut_nibble \in 0..1,
         \A i \in Nat : Uncut(x, i) = 0
  PROVE  ZeroesInFront(Cut(ReversedNibbles(x, n))) = 2 * n - call.cut_nibble
<1> DEFINE c == call.cut_nibble
           z == 2 * n
<1>1. z \in c..(2 * n)
  OBVIOUS
<1>2. ASSUME NEW i \in (1 + c)..z
      PROVE  NibbleOf(x, PlaceBefore(i)) = 0
  <2> DEFINE j == PlaceBefore(i)
  <2>1. j \in Nat /\ (j = 1 => c = 0)
    <3>1. i \in Nat /\ i >= 1 + c /\ c \in 0..1
      OBVIOUS
    <3>2. CASE i % 2 = 1
      BY <3>1, <3>2 DEF PlaceBefore
    <3>3. CASE i % 2 # 1
      <4>1. i >= 2 /\ i # 3
        BY <3>1, <3>3
      <4> QED
        BY <3>1, <3>3, <4>1 DEF PlaceBefore
    <3> QED
      BY <3>2, <3>3
  <2> HIDE DEF j
  <2>2. Uncut(x, j) = NibbleOf(x, j)
    BY <2>1 DEF Uncut
  <2> QED
    BY <2>1, <2>2 DEF j
<1> HIDE DEF z
<1>3. ZeroesInFront(Cut(ReversedNibbles(x, n))) = z - c
  BY <1>1, <1>2, ZeroesBeforeCut DEF z
<1> QED
  BY <1>3 DEF z

(* What count_trailing_zeroes_128 is told is a number.                     *)
LEMMA TrailingZeroBytesIs ==
  ASSUME NEW x \in Nat
  PROVE  TrailingZeroBytes(x) \in 0..HalfBytes
<1> DEFINE P == Power(ByteBase)
           Is(t) == x % P[t] = 0 /\ (t = HalfBytes \/ x % P[t + 1] # 0)
           S == {t \in Nat : t <= HalfBytes => x % P[t] = 0}
<1>1. HalfBytes \in Nat
  BY ScaleAssumption
<1>2. \E t \in 0..HalfBytes : Is(t)
  <2> SUFFICES ASSUME \A t \in 0..HalfBytes : ~Is(t) PROVE FALSE
    OBVIOUS
  <2>1. 0 \in S
    <3>1. P[0] = 1
      BY BytePowers, PowerUnfold
    <3>2. x % 1 = 0
      OBVIOUS
    <3> QED
      BY <3>1, <3>2
  <2>2. ASSUME NEW t \in Nat, t \in S PROVE t + 1 \in S
    <3> SUFFICES ASSUME t + 1 <= HalfBytes PROVE x % P[t + 1] = 0
      OBVIOUS
    <3>1. t \in 0..HalfBytes /\ t # HalfBytes /\ x % P[t] = 0
      BY <1>1, <2>2
    <3> QED
      BY <3>1
  <2> HIDE DEF S
  <2>3. HalfBytes \in S
    BY <1>1, <2>1, <2>2, NatSetInduction
  <2> QED
    BY <1>1, <2>3 DEF S
<1>3. TrailingZeroBytes(x) = CHOOSE t \in 0..HalfBytes : Is(t)
  BY Zenon DEF TrailingZeroBytes
<1> HIDE DEF Is
<1> QED
  BY <1>2, <1>3

(* What was returned is computed from zero bytes that were verified.       *)
ZeroesInv ==
  call.fn \in LeadingZeroesFns =>
    /\ at = "check" => ids.t \in Nat
    /\ Answered => /\ at = "check" /\ TrailingZeroesVerified(ScannedHalf, ids.t)
                   /\ outcome.value = ZeroesCounted

(* The half that is scanned holds the first byte that is not 0, so the     *)
(* nibbles before it and in it that are 0 are those that are counted.      *)
LEMMA ZeroesInvCorrect ==
  ASSUME call \in Calls, ZeroesInv
  PROVE  LeadingZeroesCounted
<1> DEFINE x == WholeNumber(call)
           n == call.n_bytes
           c == call.cut_nibble
           t == ids.t
           H == HalfNibbles
<1> SUFFICES ASSUME call.fn \in LeadingZeroesFns, Answered
             PROVE  outcome.value = ZeroesInFront(Cut(ReversedNibbles(x, n)))
  BY DEF LeadingZeroesCounted
<1>1. call \in LeadingZeroesCalls
  BY DEF Calls, DivmodCalls, ExtractCalls, NoPaddingCalls, WordCalls,
         NibbleCalls, HeaderCalls, ExecuteCalls, SumCalls, DivmodFns, WordFns,
         NoPaddingFns, LeadingZeroesFns, NibbleFns, BytesFns, HashFns,
         HeaderHashFns, NumberFns, ExecuteFns, SumFns
<1>2. /\ call.low \in Nat /\ call.low < Power(NibbleBase)[H]
      /\ call.high \in Nat /\ call.high < Power(NibbleBase)[H]
      /\ H \in Nat /\ H >= 2
      /\ c \in 0..1 /\ n \in Nat /\ n >= 1
      /\ x = call.low + Power(NibbleBase)[H] * call.high
      /\ x \in Nat /\ x < Power(NibbleBase)[2 * n]
  BY <1>1, ZeroesTypes
<1>3. /\ CutLow \in Nat /\ CutLow < Power(NibbleBase)[H]
      /\ c = 1 => NibbleOf(CutLow, 1) = 0
      /\ \A i \in Nat : c = 0 \/ i # 1 => NibbleOf(CutLow, i) = NibbleOf(call.low, i)
  BY <1>1, CutLowIs
<1>4. t \in Nat /\ TrailingZeroesVerified(ScannedHalf, t) /\ outcome.value = ZeroesCounted
  BY DEF ZeroesInv
<1> HIDE DEF x, n, t, H
<1>5. ASSUME NEW i \in Nat, i < H PROVE Uncut(x, i) = NibbleOf(CutLow, i)
  <2>1. NibbleOf(x, i) = NibbleOf(call.low, i)
    BY <1>2, <1>5, NibblesOfSum
  <2> QED
    BY <1>2, <1>3, <2>1 DEF Uncut
<1>6. ASSUME NEW i \in Nat PROVE Uncut(x, H + i) = NibbleOf(call.high, i)
  <2>1. NibbleOf(x, H + i) = NibbleOf(call.high, i)
    BY <1>2, <1>6, NibblesOfSum
  <2>2. H + i # 1
    BY <1>2
  <2> QED
    BY <2>1, <2>2 DEF Uncut
<1>7. CASE CutLow # 0
  <2>1. ScannedHalf = CutLow
    BY <1>7 DEF ScannedHalf
  <2>2. /\ \A i \in Nat : i < 2 * t => NibbleOf(CutLow, i) = 0
        /\ NibbleOf(CutLow, 2 * t) # 0 \/ NibbleOf(CutLow, 2 * t + 1) # 0
    BY <1>3, <1>4, <1>7, <2>1, NibblesVerified
  <2>3. 2 * t \in Nat /\ 2 * t + 1 \in Nat
    BY <1>4
  <2>4. 2 * t + 1 < H
    <3>1. 2 * t < H
      <4>1. CASE NibbleOf(CutLow, 2 * t) # 0
        BY <1>2, <1>3, <2>3, <4>1, NoNibbles
      <4>2. CASE NibbleOf(CutLow, 2 * t + 1) # 0
        <5>1. 2 * t + 1 < H
          BY <1>2, <1>3, <2>3, <4>2, NoNibbles
        <5> QED
          BY <1>2, <2>3, <5>1
      <4> QED
        BY <2>2, <4>1, <4>2
    <3>2. HalfBytes \in Nat /\ H = 2 * HalfBytes
      BY ScaleAssumption DEF H, HalfNibbles
    <3> QED
      BY <1>4, <3>1, <3>2
  <2>5. \A i \in Nat : i < 2 * t => Uncut(x, i) = 0
    BY <1>2, <1>5, <2>2, <2>3, <2>4
  <2>6. /\ Uncut(x, 2 * t) = NibbleOf(CutLow, 2 * t)
        /\ Uncut(x, 2 * t + 1) = NibbleOf(CutLow, 2 * t + 1)
    <3>1. 2 * t < H
      BY <1>2, <2>3, <2>4
    <3> QED
      BY <1>5, <2>3, <2>4, <3>1
  <2>7. ZeroesInFront(Cut(ReversedNibbles(x, n)))
          = 2 * t - c + (IF Uncut(x, 2 * t + 1) = 0 THEN 1 ELSE 0)
    <3>1. Uncut(x, 2 * t) # 0 \/ Uncut(x, 2 * t + 1) # 0
      BY <2>2, <2>6
    <3> QED
      BY <1>2, <1>4, <2>5, <3>1, ZeroesBeforeByte
  <2>8. ZeroesCounted = 2 * t - c + (IF NibbleOf(CutLow, 2 * t + 1) = 0 THEN 1 ELSE 0)
    <3>1. CASE t # 0
      BY <1>7, <3>1 DEF ZeroesCounted, ZeroesFrom, t
    <3>2. CASE t = 0
      <4>1. ZeroesCounted = IF FirstNibble = 0 THEN 1 ELSE 0
        BY <1>7, <3>2 DEF ZeroesCounted, t
      <4>2. 2 * t = 0 /\ 2 * t + 1 = 1
        BY <3>2
      <4>3. CASE c = 0
        <5>1. FirstNibble = NibbleOf(CutLow, 1)
          <6>1. FirstNibble = NibbleOf(call.low, 1)
            BY <4>3 DEF FirstNibble
          <6> QED
            BY <1>3, <4>3, <6>1
        <5> QED
          BY <4>1, <4>2, <4>3, <5>1
      <4>4. CASE c = 1
        <5>1. FirstNibble = NibbleOf(CutLow, 0)
          <6>1. FirstNibble = NibbleOf(call.low, 0)
            BY <4>4 DEF FirstNibble
          <6> QED
            BY <1>3, <6>1
        <5>2. FirstNibble # 0 /\ NibbleOf(CutLow, 2 * t + 1) = 0
          BY <1>3, <2>2, <4>2, <4>4, <5>1
        <5>3. ZeroesCounted = 0
          BY <4>1, <5>2
        <5>4. 2 * t - c + 1 = 0
          BY <4>2, <4>4
        <5> QED
          BY <5>2, <5>3, <5>4
      <4> QED
        BY <1>2, <4>3, <4>4
    <3> QED
      BY <3>1, <3>2
  <2> QED
    BY <1>4, <2>6, <2>7, <2>8
<1>8. CASE CutLow = 0 /\ call.high # 0
  <2>1. ScannedHalf = call.high
    BY <1>8 DEF ScannedHalf
  <2>2. /\ \A i \in Nat : i < 2 * t => NibbleOf(call.high, i) = 0
        /\ NibbleOf(call.high, 2 * t) # 0 \/ NibbleOf(call.high, 2 * t + 1) # 0
    BY <1>2, <1>4, <1>8, <2>1, NibblesVerified
  <2>3. PICK h \in Nat : H = 2 * h
    BY ScaleAssumption DEF H, HalfNibbles
  <2> DEFINE u == h + t
  <2>4. /\ u \in Nat /\ 2 * u = H + 2 * t /\ 2 * u + 1 = H + (2 * t + 1)
        /\ 2 * t \in Nat /\ 2 * t + 1 \in Nat
    BY <1>4, <2>3
  <2>5. ASSUME NEW i \in Nat, i < 2 * u PROVE Uncut(x, i) = 0
    <3>1. CASE i < H
      BY <1>5, <1>8, <3>1, NoNibbles
    <3>2. CASE ~(i < H)
      <4>1. i - H \in Nat /\ i - H < 2 * t /\ H + (i - H) = i
        BY <1>2, <2>4, <2>5, <3>2
      <4>2. Uncut(x, H + (i - H)) = NibbleOf(call.high, i - H)
        BY <1>6, <4>1
      <4>3. NibbleOf(call.high, i - H) = 0
        BY <2>2, <4>1
      <4> QED
        BY <4>1, <4>2, <4>3
    <3> QED
      BY <3>1, <3>2
  <2>6. /\ Uncut(x, 2 * u) = NibbleOf(call.high, 2 * t)
        /\ Uncut(x, 2 * u + 1) = NibbleOf(call.high, 2 * t + 1)
    BY <1>6, <2>4
  <2> HIDE DEF u
  <2>7. ZeroesInFront(Cut(ReversedNibbles(x, n)))
          = 2 * u - c + (IF Uncut(x, 2 * u + 1) = 0 THEN 1 ELSE 0)
    <3>1. Uncut(x, 2 * u) # 0 \/ Uncut(x, 2 * u + 1) # 0
      BY <2>2, <2>6
    <3> QED
      BY <1>2, <2>4, <2>5, <3>1, ZeroesBeforeByte
  <2>8. ZeroesCounted
          = H + (2 * t - c + (IF NibbleOf(call.high, 2 * t + 1) = 0 THEN 1 ELSE 0))
    BY <1>8 DEF ZeroesCounted, ZeroesFrom, t, H
  <2>9. 2 * u - c = H + (2 * t - c)
    BY <1>2, <2>4
  <2> QED
    BY <1>2, <1>4, <2>4, <2>6, <2>7, <2>8, <2>9
<1>9. CASE CutLow = 0 /\ call.high = 0
  <2>1. ASSUME NEW i \in Nat PROVE Uncut(x, i) = 0
    <3>1. CASE i < H
      BY <1>5, <1>9, <3>1, NoNibbles
    <3>2. CASE ~(i < H)
      <4>1. i - H \in Nat /\ H + (i - H) = i
        BY <1>2, <3>2
      <4>2. Uncut(x, H + (i - H)) = NibbleOf(0, i - H)
        BY <1>6, <1>9, <4>1
      <4> QED
        BY <4>1, <4>2, NoNibbles
    <3> QED
      BY <3>1, <3>2
  <2>2. ZeroesInFront(Cut(ReversedNibbles(x, n))) = 2 * n - c
    BY <1>2, <2>1, ZeroesOfAll
  <2>3. ZeroesCounted = 2 * n - c
    BY <1>9 DEF ZeroesCounted, NibblesAfterReversion, n
  <2> QED
    BY <1>4, <2>2, <2>3
<1> QED
  BY <1>7, <1>8, <1>9

(* Nothing but a check that passes answers.                                *)
LEMMA ZeroesInvStep ==
  ASSUME call \in LeadingZeroesCalls, call.fn \in LeadingZeroesFns, ZeroesInv, call' = call,
         KeyNibblesNext \/ UNCHANGED callVars
  PROVE  ZeroesInv'
<1>0. call.fn \notin NibbleFns
  BY DEF NibbleFns, LeadingZeroesFns
<1>1. CASE ScanZeroBytes
  <2>1. PICK t \in TrailingZeroHints(ScannedHalf) : ids'.t = t
    BY <1>1 DEF ScanZeroBytes
  <2>2. outcome' = InProgress /\ at' = "check"
    BY <1>1 DEF ScanZeroBytes, At, GoTo
  <2>3. t \in Nat
    <3>1. HalfBytes \in Nat
      BY ScaleAssumption
    <3>2. ScannedHalf \in Nat
      BY CutLowIs, ZeroesTypes DEF ScannedHalf
    <3>3. TrailingZeroBytes(ScannedHalf) \in 0..HalfBytes
      BY <3>2, TrailingZeroBytesIs
    <3> QED
      BY <2>1, <3>1, <3>3 DEF TrailingZeroHints, HintValues
  <2>4. ~Answered'
    BY <2>2, StatusesDiffer DEF Answered, InProgress
  <2> QED
    BY <2>1, <2>3, <2>4 DEF ZeroesInv
<1>2. CASE ReturnZeroes
  <2>1. /\ at = "check" /\ TrailingZeroesVerified(ScannedHalf, ids.t)
        /\ outcome' = Answer(ZeroesCounted) /\ at' = at /\ ids' = ids
    BY <1>2 DEF ReturnZeroes, ZeroesAccepted, At, Return
  <2>2. outcome'.value = ZeroesCounted
    BY <2>1 DEF Answer
  <2>3. ScannedHalf' = ScannedHalf /\ ZeroesCounted' = ZeroesCounted
    BY <2>1 DEF ScannedHalf, ZeroesCounted, CutLow, FirstNibble, ZeroesFrom,
                NibblesAfterReversion
  <2>4. TrailingZeroesVerified(ScannedHalf, ids.t)'
    BY <2>1, <2>3 DEF TrailingZeroesVerified
  <2> QED
    BY <2>1, <2>2, <2>3, <2>4 DEF ZeroesInv
<1>3. CASE RefuseZeroes
  <2>1. outcome' = Refused /\ at' = at /\ ids' = ids
    BY <1>3 DEF RefuseZeroes, Refuse
  <2>2. ~Answered'
    BY <2>1, StatusesDiffer DEF Answered, Refused
  <2> QED
    BY <2>1, <2>2 DEF ZeroesInv
<1>4. CASE UNCHANGED callVars
  <2>1. call' = call /\ at' = at /\ ids' = ids /\ outcome' = outcome
    BY <1>4 DEF callVars
  <2>2. ScannedHalf' = ScannedHalf /\ ZeroesCounted' = ZeroesCounted
    BY <2>1 DEF ScannedHalf, ZeroesCounted, CutLow, FirstNibble, ZeroesFrom,
                NibblesAfterReversion
  <2>3. TrailingZeroesVerified(ScannedHalf, ids.t)' <=> TrailingZeroesVerified(ScannedHalf, ids.t)
    BY <2>1, <2>2 DEF TrailingZeroesVerified
  <2> QED
    BY <2>1, <2>2, <2>3 DEF ZeroesInv, Answered
<1>5. ~(\/ WriteIsZero \/ ReturnZeroNibble \/ RefuseZeroNibble
        \/ WriteFromLow \/ ReturnNibble \/ RefuseNibble)
  BY <1>0 DEF WriteIsZero, ReturnZeroNibble, RefuseZeroNibble, WriteFromLow,
              ReturnNibble, RefuseNibble, At
<1> QED
  BY <1>1, <1>2, <1>3, <1>4, <1>5 DEF KeyNibblesNext

-----------------------------------------------------------------------------
(* uint256_reverse_endian_no_padding.                                      *)

(* The number whose digits are the n lowest ones of x turned round.        *)
Turned(x, n) == ValueOf(Reverse(Digits(x, ByteBase, n)), ByteBase)

(* It has no more digits than that.                                        *)
LEMMA TurnedType ==
  ASSUME NEW x \in Nat, NEW n \in Nat
  PROVE  Turned(x, n) \in Nat /\ Turned(x, n) < Power(ByteBase)[n]
<1>1. ByteBase \in Nat /\ ByteBase > 1
  BY BytePowers
<1>2. AreDigits(Reverse(Digits(x, ByteBase, n)), ByteBase, n)
  BY <1>1, ReversedDigits
<1> QED
  BY <1>1, <1>2, DigitsOfValue DEF Turned

(* A half turned round is its own bytes turned round behind zero bytes.    *)
LEMMA HalfTurned ==
  ASSUME NEW x \in Nat, x < HalfShift, NEW n \in Nat, n <= HalfBytes,
         x < Power(ByteBase)[n]
  PROVE  ReverseHalf(x) = Power(ByteBase)[HalfBytes - n] * Turned(x, n)
<1> DEFINE H == HalfBytes
           B == ByteBase
           m == H - n
           s == Reverse(Digits(x, B, H))
           t == Reverse(Digits(x, B, n))
<1>1. H \in Nat /\ m \in Nat /\ m + n = H /\ m \in 0..H
  BY ScaleAssumption
<1>2. B \in Nat /\ B > 1
  BY BytePowers
<1>3. AreDigits(s, B, H) /\ \A i \in 1..H : s[i] = DigitAt(B, x, H - i)
  BY <1>1, <1>2, ReversedDigits
<1>4. AreDigits(t, B, n) /\ \A i \in 1..n : t[i] = DigitAt(B, x, n - i)
  BY <1>1, <1>2, ReversedDigits
<1>5. ReverseHalf(x) = ValueOf(s, B) /\ Turned(x, n) = ValueOf(t, B)
  BY DEF ReverseHalf, Turned
<1> HIDE DEF s, t, B, H, m
<1>6. \A i \in 1..n : t[i] = s[m + i]
  <2>1. \A i \in 1..n : m + i \in 1..H /\ H - (m + i) = n - i
    BY <1>1
  <2> QED
    BY <1>3, <1>4, <2>1
<1>7. \A i \in 1..m : s[i] = 0
  <2> TAKE i \in 1..m
  <2>1. i \in 1..H /\ H - i \in Nat /\ ~(H - i < n)
    BY <1>1
  <2>2. DigitAt(B, x, H - i) # 0 => H - i < n
    BY <1>2, <2>1, NoDigits DEF B
  <2> QED
    BY <1>3, <2>1, <2>2
<1>8. ValueOf(s, B) = DigitSums(s, B)[m] + Power(B)[m] * ValueOf(t, B)
  <2>1. AreDigits(s, B, m + n)
    BY <1>1, <1>3
  <2> QED
    BY <1>1, <1>2, <1>4, <1>6, <2>1, SumsAppend
<1>9. DigitSums(s, B)[m] = 0
  BY <1>1, <1>2, <1>3, <1>7, SumsOfZeroes
<1>10. Power(B)[m] \in Nat /\ ValueOf(t, B) \in Nat
  BY <1>1, <1>2, <1>4, PowersOf, DigitsOfValue
<1>11. ValueOf(s, B) = Power(B)[m] * ValueOf(t, B)
  BY <1>8, <1>9, <1>10
<1> QED
  BY <1>5, <1>11 DEF B, m, H

(* It is shorter by the zero bytes it had at the end.                      *)
LEMMA TurnedLength ==
  ASSUME NEW x \in Nat, x < HalfShift, NEW t \in Nat,
         x % Power(ByteBase)[t] = 0, (x \div Power(ByteBase)[t]) % ByteBase # 0
  PROVE  t < HalfBytes /\ DigitCount(ReverseHalf(x), ByteBase) = HalfBytes - t
<1> DEFINE H == HalfBytes
           B == ByteBase
           k == H - t
           s == Reverse(Digits(x, B, H))
           z == [i \in 1..t |-> s[k + i]]
           S == DigitSums(s, B)
<1>1. H \in Nat
  BY ScaleAssumption
<1>2. B \in Nat /\ B > 1
  BY BytePowers
<1>3. AreDigits(s, B, H) /\ \A i \in 1..H : s[i] = DigitAt(B, x, H - i)
  BY <1>1, <1>2, ReversedDigits
<1>4. ReverseHalf(x) = ValueOf(s, B)
  BY DEF ReverseHalf
<1>5. DigitAt(B, x, t) # 0
  BY DEF DigitAt
<1>6. t < H
  BY <1>1, <1>2, <1>5, NoDigits DEF HalfShift
<1>7. \A i \in Nat : i < t => DigitAt(B, x, i) = 0
  BY <1>2, DigitsBefore
<1> HIDE DEF s, B, H
<1>8. k \in Nat /\ k \in 1..H /\ k + t = H /\ H - k = t /\ k - 1 \in Nat /\ k \in 0..H /\ k \in Nat \ {0}
  BY <1>1, <1>6
<1>9. /\ AreDigits(z, B, t) /\ \A i \in 1..t : z[i] = s[k + i] /\ z[i] = 0
  <2>1. \A i \in 1..t : k + i \in 1..H /\ H - (k + i) = t - i /\ t - i \in Nat /\ t - i < t
    BY <1>1, <1>8
  <2>2. \A i \in 1..t : z[i] = s[k + i] /\ z[i] = 0
    BY <1>3, <1>7, <2>1
  <2>3. Len(z) = t
    OBVIOUS
  <2> HIDE DEF z
  <2> QED
    BY <1>2, <2>2, <2>3 DEF AreDigits
<1> HIDE DEF z, k
<1>10. ValueOf(s, B) = S[k] + Power(B)[k] * ValueOf(z, B)
  <2>1. AreDigits(s, B, k + t)
    BY <1>3, <1>8
  <2> QED
    BY <1>2, <1>8, <1>9, <2>1, SumsAppend
<1>11. ValueOf(z, B) = 0
  <2>1. DigitSums(z, B)[t] = 0
    <3>1. t \in 0..t
      OBVIOUS
    <3> QED
      BY <1>2, <1>9, <3>1, SumsOfZeroes
  <2> QED
    BY <1>9, <2>1 DEF ValueOf, AreDigits
<1>12. Power(B)[k] \in Nat /\ Power(B)[k - 1] \in Nat
  BY <1>2, <1>8, PowersOf
<1>13. S[k] \in Nat /\ S[k] < Power(B)[k]
  BY <1>1, <1>2, <1>3, <1>8, DigitSumsBelow
<1>14. Power(B)[k - 1] <= S[k]
  <2>1. SumsUnfold(S, Power(B), s, H)
    BY <1>1, <1>2, <1>3, DigitSumsUnfold
  <2> DEFINE d == s[k]
             pow == Power(B)[k - 1]
             c == S[k - 1]
  <2>2. S[k] = c + d * pow /\ c \in Nat
    <3>1. k - 1 \in 0..H
      BY <1>1, <1>8
    <3> QED
      BY <1>8, <2>1, <3>1 DEF SumsUnfold
  <2>3. d \in Nat /\ 1 <= d
    <3>1. d = DigitAt(B, x, t)
      BY <1>3, <1>8
    <3>2. d \in 0..(B - 1)
      BY <1>3, <1>8 DEF AreDigits
    <3> HIDE DEF d
    <3> QED
      BY <1>2, <1>5, <3>1, <3>2
  <2>4. pow \in Nat
    BY <1>12
  <2> HIDE DEF d, pow, c
  <2>5. 1 * pow <= d * pow
    BY <2>3, <2>4, ProductMonotone
  <2>6. 1 * pow = pow /\ d * pow \in Nat
    BY <2>3, <2>4
  <2>7. pow <= c + d * pow
    BY <2>2, <2>4, <2>5, <2>6
  <2> QED
    BY <2>2, <2>7 DEF pow
<1>15. ValueOf(s, B) = S[k]
  BY <1>10, <1>11, <1>12, <1>13
<1>16. DigitCount(S[k], B) = k
  BY <1>2, <1>8, <1>13, <1>14, DigitCountFound
<1> QED
  BY <1>4, <1>6, <1>15, <1>16 DEF B, H, k

(* What is left of a half that is turned round once the padding is cut.    *)
LEMMA PaddingCut ==
  ASSUME NEW x \in Nat, x < HalfShift, NEW t \in Nat, TrailingZeroesVerified(x, t),
         ~KeepsLength(x)
  PROVE  ReverseHalf(x) \div Power(ByteBase)[PaddingOf(x, t)]
           = Turned(x, DigitCount(x, ByteBase))
<1> DEFINE H == HalfBytes
           B == ByteBase
           n == DigitCount(x, B)
           n_rev == DigitCount(ReverseHalf(x), B)
           r == ReverseHalf(x)
           y == Turned(x, n)
<1>1. H \in Nat /\ B \in Nat /\ B > 1
  BY ScaleAssumption, BytePowers
<1>2. n \in Nat /\ x < Power(B)[n]
  BY <1>1, DigitCountIs
<1>3. n <= H
  BY <1>1, DigitCountBound DEF HalfShift
<1>4. y \in Nat /\ y < Power(B)[n]
  <2> HIDE DEF n
  <2> QED
    BY <1>2, TurnedType
<1>5. r = Power(B)[H - n] * y
  <2> HIDE DEF n
  <2> QED
    BY <1>2, <1>3, HalfTurned
<1>6. PaddingOf(x, t) = IF n = n_rev THEN 0 ELSE n_rev - n + t
  BY DEF PaddingOf
<1>7. ~(n = n_rev /\ x > 0 /\ x % B = 0)
  BY DEF KeepsLength
<1>8. x > 0 => n_rev = H - t /\ t < H
  <2> SUFFICES ASSUME x > 0 PROVE n_rev = H - t /\ t < H
    OBVIOUS
  <2>1. x % Power(ByteBase)[t] = 0 /\ (x \div Power(ByteBase)[t]) % ByteBase # 0
    BY DEF TrailingZeroesVerified
  <2> QED
    BY <2>1, TurnedLength
<1>9. x % B # 0 /\ x > 0 => t = 0
  <2> SUFFICES ASSUME x > 0, t # 0 PROVE x % B = 0
    OBVIOUS
  <2>1. x % Power(B)[t] = 0
    BY DEF TrailingZeroesVerified
  <2>2. DigitAt(B, x, 0) = 0
    <3>1. 0 \in Nat /\ 0 < t
      OBVIOUS
    <3> QED
      BY <1>1, <2>1, <3>1, DigitsBefore
  <2>3. Power(B)[0] = 1 /\ x \div 1 = x
    BY <1>1, PowerUnfold
  <2> QED
    BY <2>2, <2>3 DEF DigitAt
<1>10. x = 0 => n = 0 /\ y = 0 /\ r = 0 /\ n_rev = 0
  <2> SUFFICES ASSUME x = 0 PROVE n = 0 /\ y = 0 /\ r = 0 /\ n_rev = 0
    OBVIOUS
  <2>1. n = 0
    <3>1. n \in 0..x
      BY <1>1, DigitCountIs
    <3> QED
      BY <3>1
  <2>2. y = 0
    <3>1. Power(B)[0] = 1
      BY <1>1, PowerUnfold
    <3> HIDE DEF y, n
    <3> QED
      BY <1>4, <2>1, <3>1
  <2>3. r = 0
    <3>1. Power(B)[H - n] \in Nat
      <4>1. H - n \in Nat
        BY <1>1, <1>2, <1>3
      <4> QED
        BY <1>1, <4>1, PowersOf
    <3> HIDE DEF y, r, n
    <3> QED
      BY <1>5, <2>2, <3>1
  <2>4. n_rev \in 0..r
    <3> HIDE DEF r
    <3>1. r \in Nat
      BY <2>3
    <3>2. DigitCount(r, B) \in 0..r
      BY <1>1, <3>1, DigitCountIs
    <3> QED
      BY <3>2 DEF r
  <2> HIDE DEF r, y, n, n_rev
  <2> QED
    BY <2>1, <2>2, <2>3, <2>4
<1>11. CASE x = 0
  <2>1. PaddingOf(x, t) = 0 /\ r = 0 /\ y = 0
    BY <1>6, <1>10, <1>11
  <2>2. Power(B)[0] = 1 /\ 0 \div 1 = 0
    BY <1>1, PowerUnfold
  <2> HIDE DEF y, r
  <2>3. r \div Power(B)[PaddingOf(x, t)] = y
    BY <2>1, <2>2
  <2> QED
    BY <2>3 DEF y, r
<1>12. CASE x > 0
  <2> HIDE DEF n, n_rev, y, r, H
  <2>1. PaddingOf(x, t) = H - n
    BY <1>1, <1>2, <1>6, <1>7, <1>8, <1>9, <1>12
  <2> DEFINE pow == Power(B)[H - n]
  <2>2. pow \in Nat /\ pow > 0
    <3>1. H - n \in Nat
      BY <1>1, <1>2, <1>3
    <3> QED
      BY <1>1, <3>1, PowersOf
  <2> HIDE DEF pow
  <2>3. (pow * y + 0) \div pow = y /\ pow * y + 0 = pow * y
    BY <1>4, <2>2, DivisionIs
  <2>4. r = pow * y
    BY <1>5 DEF pow
  <2>5. r \div pow = y
    BY <2>3, <2>4
  <2> QED
    BY <2>1, <2>5 DEF pow, y, r, n
<1> QED
  BY <1>11, <1>12

(* A number of two halves: its length, and its bytes turned round.         *)
LEMMA WholeTurned ==
  ASSUME NEW low \in Nat, low < HalfShift, NEW high \in Nat, high < HalfShift, high # 0
  PROVE  LET n     == DigitCount(high, ByteBase)
             whole == low + HalfShift * high
         IN  /\ DigitCount(whole, ByteBase) = HalfBytes + n
             /\ Turned(whole, HalfBytes + n)
                  = Turned(high, n) + Power(ByteBase)[n] * ReverseHalf(low)
<1> DEFINE H == HalfBytes
           B == ByteBase
           P == Power(B)
           n == DigitCount(high, B)
           whole == low + P[H] * high
           len == H + n
           s == Reverse(Digits(whole, B, len))
           t == Reverse(Digits(high, B, n))
           u == Reverse(Digits(low, B, H))
<1>1. H \in Nat /\ B \in Nat /\ B > 1
  BY ScaleAssumption, BytePowers
<1>2. /\ n \in Nat \ {0} /\ high < P[n] /\ P[n - 1] <= high /\ n - 1 \in Nat
  <2>1. n \in Nat /\ high < P[n] /\ (n = 0 \/ P[n - 1] <= high)
    BY <1>1, DigitCountIs
  <2>2. P[0] = 1
    BY <1>1, PowerUnfold
  <2> HIDE DEF n, P
  <2>3. n # 0
    BY <2>1, <2>2
  <2> QED
    BY <2>1, <2>3
<1>3. P[H] = HalfShift /\ P[H] \in Nat /\ P[H] > 0
  <2>1. P[H] = HalfShift
    BY DEF HalfShift
  <2> QED
    BY <1>1, <2>1, PowersOf
<1> HIDE DEF n
<1>4. /\ P[n] \in Nat /\ P[n - 1] \in Nat
      /\ P[H + n] = P[H] * P[n] /\ P[H + (n - 1)] = P[H] * P[n - 1]
  <2>1. P[n] \in Nat /\ P[n - 1] \in Nat
    BY <1>1, <1>2, PowersOf
  <2>2. \A j \in Nat : P[H + j] = P[H] * P[j]
    BY <1>1, PowersOf
  <2> QED
    BY <1>2, <2>1, <2>2
<1>5. len \in Nat \ {0} /\ len - 1 = H + (n - 1) /\ len = n + H
  BY <1>1, <1>2
<1>6. low < P[H]
  BY <1>3
<1> HIDE DEF P, H, B
<1>7. whole \in Nat /\ whole < P[len] /\ P[len - 1] <= whole
  <2> DEFINE p == P[H]
             pow == P[n]
             o == P[n - 1]
  <2>1. p \in Nat /\ pow \in Nat /\ o \in Nat /\ high + 1 \in Nat /\ high + 1 <= pow /\ o <= high
    BY <1>2, <1>3, <1>4
  <2> HIDE DEF p, pow, o
  <2>2. (high + 1) * p <= pow * p /\ o * p <= high * p
    BY <2>1, ProductMonotone
  <2>3. /\ (high + 1) * p = p * high + p /\ pow * p = p * pow /\ o * p = p * o
        /\ high * p = p * high
        /\ p * high \in Nat /\ p * pow \in Nat /\ p * o \in Nat
    BY <2>1
  <2>4. low < p
    BY <1>6 DEF p
  <2>5. low + p * high < p * pow /\ p * o <= low + p * high /\ low + p * high \in Nat
    BY <2>1, <2>2, <2>3, <2>4
  <2> QED
    BY <1>4, <1>5, <2>5 DEF p, pow, o
<1>8. DigitCount(whole, B) = len
  <2> HIDE DEF whole, len
  <2> QED
    BY <1>1, <1>5, <1>7, DigitCountFound DEF P
<1>9. AreDigits(s, B, len) /\ \A i \in 1..len : s[i] = DigitAt(B, whole, len - i)
  <2> HIDE DEF whole, len
  <2> QED
    BY <1>1, <1>5, <1>7, ReversedDigits
<1>10. AreDigits(t, B, n) /\ \A i \in 1..n : t[i] = DigitAt(B, high, n - i)
  BY <1>1, <1>2, ReversedDigits
<1>11. AreDigits(u, B, H) /\ \A i \in 1..H : u[i] = DigitAt(B, low, H - i)
  BY <1>1, ReversedDigits
<1> HIDE DEF s, t, u
<1>12. \A i \in 1..H : u[i] = s[n + i]
  <2> TAKE i \in 1..H
  <2>1. n + i \in 1..len /\ len - (n + i) = H - i /\ H - i \in Nat /\ H - i < H
    BY <1>1, <1>2, <1>5
  <2>2. DigitAt(B, low + P[H] * high, H - i) = DigitAt(B, low, H - i)
    BY <1>1, <1>6, <2>1, DigitsOfSum DEF P
  <2> QED
    BY <1>9, <1>11, <2>1, <2>2
<1>13. \A i \in 1..n : t[i] = s[i]
  <2> TAKE i \in 1..n
  <2>1. i \in 1..len /\ len - i = H + (n - i) /\ n - i \in Nat
    BY <1>1, <1>2, <1>5
  <2>2. DigitAt(B, low + P[H] * high, H + (n - i)) = DigitAt(B, high, n - i)
    BY <1>1, <1>6, <2>1, DigitsOfSum DEF P
  <2> QED
    BY <1>9, <1>10, <2>1, <2>2
<1>14. AreDigits(s, B, n + H) /\ n \in Nat
  BY <1>2, <1>5, <1>9
<1>15. ValueOf(s, B) = DigitSums(s, B)[n] + Power(B)[n] * ValueOf(u, B)
  BY <1>1, <1>11, <1>12, <1>14, SumsAppend
<1>16. DigitSums(s, B)[n] = ValueOf(t, B)
  <2>1. len \in Nat /\ n \in 0..len
    BY <1>1, <1>2, <1>5, <1>14
  <2> QED
    BY <1>1, <1>9, <1>10, <1>13, <2>1, SumsAgree
<1>17. /\ Turned(whole, len) = ValueOf(s, B) /\ Turned(high, n) = ValueOf(t, B)
       /\ ReverseHalf(low) = ValueOf(u, B)
  BY DEF Turned, ReverseHalf, s, t, u, B, H
<1>18. whole = low + HalfShift * high
  BY <1>3
<1>19. /\ DigitCount(whole, B) = H + n
       /\ Turned(whole, H + n) = Turned(high, n) + Power(B)[n] * ReverseHalf(low)
  BY <1>8, <1>15, <1>16, <1>17
<1> HIDE DEF whole
<1> QED
  BY <1>18, <1>19 DEF H, B, n

(* What was returned passed the checks of the number of zero bytes.        *)
NoPaddingInv ==
  call.fn \in NoPaddingFns =>
    /\ at = "check" => ids.t \in Nat
    /\ Answered => at = "check" /\ NoPaddingChecked /\ outcome.value = HalvesReversed

(* The types of a call.                                                    *)
LEMMA NoPaddingTypes ==
  ASSUME call \in NoPaddingCalls
  PROVE  /\ call.low \in Nat /\ call.low < HalfShift
         /\ call.high \in Nat /\ call.high < HalfShift
         /\ TopHalf \in Nat /\ TopHalf < HalfShift
<1>1. HalfShift \in Nat
  BY ScaleAssumption, BytePowers, PowersOf DEF HalfShift
<1>2. call.low \in Halves /\ call.high \in Halves
  BY DEF NoPaddingCalls
<1>3. call.low \in 0..(HalfShift - 1) /\ call.high \in 0..(HalfShift - 1)
  BY <1>2, HalvesAssumption
<1>4. TopHalf = call.low \/ TopHalf = call.high
  BY DEF TopHalf
<1> QED
  BY <1>1, <1>3, <1>4

(* Unless the top half keeps its length, what passed the checks is right.  *)
LEMMA NoPaddingInvCorrect ==
  ASSUME call \in Calls, NoPaddingInv
  PROVE  ReversedWithoutPadding
<1> SUFFICES ASSUME call.fn \in NoPaddingFns, Answered, ~KeepsLength(TopHalf)
             PROVE  IsReversed(outcome.value)
  BY DEF ReversedWithoutPadding
<1> DEFINE H == HalfBytes
           B == ByteBase
           P == Power(B)
           x == TopHalf
           n == DigitCount(x, B)
           y == Turned(x, n)
           rev == ReverseHalf(call.low)
           cut == P[H - n]
           pow == P[n]
           answer == outcome.value
           whole == call.low + HalfShift * call.high
<1>1. call \in NoPaddingCalls
  BY DEF Calls, DivmodCalls, ExtractCalls, NoPaddingCalls, WordCalls, LeadingZeroesCalls,
         NibbleCalls, HeaderCalls, ExecuteCalls, SumCalls, DivmodFns, WordFns,
         NoPaddingFns, LeadingZeroesFns, NibbleFns, BytesFns, HashFns,
         HeaderHashFns, NumberFns, ExecuteFns, SumFns
<1>2. /\ call.low \in Nat /\ call.low < HalfShift
      /\ call.high \in Nat /\ call.high < HalfShift
      /\ x \in Nat /\ x < HalfShift
  BY <1>1, NoPaddingTypes
<1>3. ids.t \in Nat /\ TrailingZeroesVerified(x, ids.t) /\ answer = HalvesReversed
  BY DEF NoPaddingInv, NoPaddingChecked
<1>4. ReverseHalf(x) \div P[PaddingOf(x, ids.t)] = y
  BY <1>2, <1>3, PaddingCut
<1>5. answer = IF call.high = 0 THEN [low |-> y, high |-> 0, n_bytes |-> n]
               ELSE [low |-> y + pow * (rev % cut), high |-> rev \div cut, n_bytes |-> H + n]
  BY <1>3, <1>4 DEF HalvesReversed
<1>6. H \in Nat /\ B \in Nat /\ B > 1
  BY ScaleAssumption, BytePowers
<1>7. n \in Nat /\ n <= H /\ y \in Nat
  <2>1. n \in Nat
    BY <1>2, <1>6, DigitCountIs
  <2>2. n <= H
    BY <1>2, <1>6, DigitCountBound DEF HalfShift
  <2> HIDE DEF n
  <2> QED
    BY <1>2, <2>1, <2>2, TurnedType
<1>8. WholeNumber(call) = whole
  BY DEF WholeNumber
<1>9. IsReversed(answer) <=> /\ answer.n_bytes = DigitCount(whole, B)
                             /\ answer.low + HalfShift * answer.high
                                  = Turned(whole, DigitCount(whole, B))
  BY <1>8 DEF IsReversed, WholeNumber, Turned
<1>10. HalfShift \in Nat
  BY <1>6, PowersOf DEF HalfShift
<1>11. CASE call.high = 0
  <2>1. whole = call.low /\ x = call.low
    BY <1>2, <1>10, <1>11 DEF TopHalf
  <2>2. answer.low = y /\ answer.high = 0 /\ answer.n_bytes = n
    BY <1>5, <1>11
  <2>3. DigitCount(whole, B) = n /\ Turned(whole, n) = y
    BY <2>1
  <2> HIDE DEF n, y, whole, answer
  <2>4. answer.low + HalfShift * answer.high = y
    BY <1>7, <1>10, <2>2
  <2> QED
    BY <1>9, <2>2, <2>3, <2>4 DEF answer
<1>12. CASE call.high # 0
  <2>1. x = call.high
    BY <1>12 DEF TopHalf
  <2>2. /\ DigitCount(whole, B) = H + n
        /\ Turned(whole, H + n) = y + pow * rev
    BY <1>2, <1>12, <2>1, WholeTurned
  <2>3. /\ answer.low = y + pow * (rev % cut) /\ answer.high = rev \div cut
        /\ answer.n_bytes = H + n
    BY <1>5, <1>12
  <2>4. rev \in Nat
    <3>1. rev = Turned(call.low, H)
      BY DEF ReverseHalf, Turned
    <3> QED
      BY <1>2, <1>6, <3>1, TurnedType
  <2>5. /\ cut \in Nat /\ cut > 0 /\ pow \in Nat /\ HalfShift = pow * cut
    <3> HIDE DEF n
    <3>1. H - n \in Nat /\ n + (H - n) = H
      BY <1>6, <1>7
    <3>2. pow \in Nat /\ \A j \in Nat : P[n + j] = pow * P[j]
      BY <1>6, <1>7, PowersOf
    <3>3. cut \in Nat /\ cut > 0
      BY <1>6, <3>1, PowersOf
    <3> QED
      BY <3>1, <3>2, <3>3 DEF HalfShift
  <2> HIDE DEF n, y, whole, answer, cut, pow, rev
  <2> DEFINE c == rev \div cut
             d == rev % cut
  <2>6. c \in Nat /\ d \in Nat /\ rev = cut * c + d
    BY <2>4, <2>5, Division
  <2>7. answer.low = y + pow * d /\ answer.high = c
    BY <2>3
  <2> HIDE DEF c, d
  <2>8. (y + pow * d) + (pow * cut) * c = y + pow * (cut * c + d)
    BY <1>7, <2>5, <2>6
  <2>9. answer.low + HalfShift * answer.high = y + pow * rev
    BY <2>5, <2>6, <2>7, <2>8
  <2> QED
    BY <1>9, <2>2, <2>3, <2>9 DEF answer
<1> QED
  BY <1>11, <1>12

(* Nothing but a check that passes answers.                                *)
LEMMA NoPaddingInvStep ==
  ASSUME call \in NoPaddingCalls, call.fn \in NoPaddingFns, NoPaddingInv, call' = call,
         EndiannessNext \/ UNCHANGED callVars
  PROVE  NoPaddingInv'
<1>0. call.fn \notin WordFns
  BY DEF WordFns, NoPaddingFns
<1>1. CASE CountZeroBytes
  <2>1. PICK t \in TrailingZeroHints(TopHalf) : ids' = [t |-> t]
    BY <1>1 DEF CountZeroBytes
  <2>2. outcome' = InProgress /\ at' = "check"
    BY <1>1 DEF CountZeroBytes, At, GoTo
  <2>3. t \in Nat
    <3>1. HalfBytes \in Nat
      BY ScaleAssumption
    <3>2. TopHalf \in Nat
      BY NoPaddingTypes
    <3>3. TrailingZeroBytes(TopHalf) \in 0..HalfBytes
      BY <3>2, TrailingZeroBytesIs
    <3> QED
      BY <3>1, <3>3 DEF TrailingZeroHints, HintValues
  <2>4. ~Answered'
    BY <2>2, StatusesDiffer DEF Answered, InProgress
  <2> QED
    BY <2>1, <2>3, <2>4 DEF NoPaddingInv
<1>2. CASE ReturnNoPadding
  <2>1. /\ at = "check" /\ NoPaddingChecked
        /\ outcome' = Answer(HalvesReversed) /\ at' = at /\ ids' = ids
    BY <1>2 DEF ReturnNoPadding, At, Return
  <2>2. outcome'.value = HalvesReversed
    BY <2>1 DEF Answer
  <2>3. HalvesReversed' = HalvesReversed /\ NoPaddingChecked'
    BY <2>1 DEF HalvesReversed, NoPaddingChecked, TopHalf
  <2>4. ids'.t \in Nat
    BY <2>1 DEF NoPaddingInv
  <2> QED
    BY <2>1, <2>2, <2>3, <2>4 DEF NoPaddingInv
<1>3. CASE RefuseNoPadding
  <2>1. outcome' = Refused /\ at' = at /\ ids' = ids
    BY <1>3 DEF RefuseNoPadding, Refuse
  <2>2. ~Answered'
    BY <2>1, StatusesDiffer DEF Answered, Refused
  <2> QED
    BY <2>1, <2>2 DEF NoPaddingInv
<1>4. CASE UNCHANGED callVars
  <2>1. call' = call /\ at' = at /\ ids' = ids /\ outcome' = outcome
    BY <1>4 DEF callVars
  <2>2. HalvesReversed' = HalvesReversed /\ (NoPaddingChecked' <=> NoPaddingChecked)
    BY <2>1 DEF HalvesReversed, NoPaddingChecked, TopHalf
  <2> QED
    BY <2>1, <2>2 DEF NoPaddingInv, Answered
<1>5. ~(WriteWord \/ ReturnWord \/ RefuseWord)
  BY <1>0 DEF WriteWord, ReturnWord, RefuseWord, At
<1> QED
  BY <1>1, <1>2, <1>3, <1>4, <1>5 DEF EndiannessNext

-----------------------------------------------------------------------------
(* Fields of a block header.  The places in the code are sums of the       *)
(* lengths of the items before a field; what follows the difficulty is     *)
(* found by the length of the difficulty, which its first byte tells.      *)

(* The number of bytes up to each item.                                    *)
LEMMA HeaderOffsets ==
  /\ Len(HeaderItems) = 7 /\ DOMAIN HeaderItems = 1..7
  /\ BytesOfItems[0] = 3 /\ BytesOfItems[3] = 90 /\ BytesOfItems[7] = 448
<1> DEFINE len == [n \in 1..7 |-> HeaderItems[n].prefix + HeaderItems[n].len]
           g == [n \in 0..7 |-> <<3, 36, 69, 90, 123, 156, 189, 448>>[n + 1]]
           Body(h) == [n \in 0..7 |-> IF n = 0 THEN 3
                                      ELSE h[n - 1] + HeaderItems[n].prefix
                                             + HeaderItems[n].len]
<1>1. Len(HeaderItems) = 7 /\ DOMAIN HeaderItems = 1..7
  BY DEF HeaderItems
<1>2. /\ HeaderItems[1].prefix = 1 /\ HeaderItems[1].len = 32
      /\ HeaderItems[2].prefix = 1 /\ HeaderItems[2].len = 32
      /\ HeaderItems[3].prefix = 1 /\ HeaderItems[3].len = 20
      /\ HeaderItems[4].prefix = 1 /\ HeaderItems[4].len = 32
      /\ HeaderItems[5].prefix = 1 /\ HeaderItems[5].len = 32
      /\ HeaderItems[6].prefix = 1 /\ HeaderItems[6].len = 32
      /\ HeaderItems[7].prefix = 3 /\ HeaderItems[7].len = 256
  BY DEF HeaderItems
<1>3. g = Body(g)
  <2>1. /\ g[0] = 3 /\ g[1] = 36 /\ g[2] = 69 /\ g[3] = 90 /\ g[4] = 123
        /\ g[5] = 156 /\ g[6] = 189 /\ g[7] = 448
    OBVIOUS
  <2> HIDE DEF g
  <2>2. ASSUME NEW n \in 0..7 PROVE g[n] = Body(g)[n]
    <3>1. n \in {0, 1, 2, 3, 4, 5, 6, 7}
      OBVIOUS
    <3> QED
      BY <1>2, <2>1, <3>1
  <2>3. DOMAIN g = 0..7 /\ g = [n \in 0..7 |-> g[n]]
    BY DEF g
  <2> QED
    BY <2>2, <2>3
<1> DEFINE B == CHOOSE h : h = Body(h)
<1>4. BytesOfItems = [n \in 0..7 |-> B[n]]
  <2> DEFINE Sums(m) ==
               [n \in 0..m |->
                  (CHOOSE h : h = [k \in 0..m |-> IF k = 0 THEN 3
                                                 ELSE h[k - 1] + HeaderItems[k].prefix
                                                        + HeaderItems[k].len])[n]]
  <2>1. BytesOfItems = Sums(Len(HeaderItems))
    BY Zenon DEF BytesOfItems
  <2>2. Sums(7) = [n \in 0..7 |-> B[n]]
    BY Zenon
  <2> HIDE DEF Sums
  <2> QED
    BY <1>1, <2>1, <2>2
<1>5. B = Body(B)
  <2> HIDE DEF Body, g
  <2> QED
    BY <1>3 DEF B
<1> HIDE DEF B
<1>6. B[0] = 3 /\ \A n \in 1..7 : B[n] = B[n - 1] + HeaderItems[n].prefix + HeaderItems[n].len
  BY <1>5
<1>7. /\ B[1] = 36 /\ B[2] = 69 /\ B[3] = 90 /\ B[4] = 123
      /\ B[5] = 156 /\ B[6] = 189 /\ B[7] = 448
  <2>1. B[1] = 36
    BY <1>2, <1>6
  <2>2. B[2] = 69
    BY <1>2, <1>6, <2>1
  <2>3. B[3] = 90
    BY <1>2, <1>6, <2>2
  <2>4. B[4] = 123
    BY <1>2, <1>6, <2>3
  <2>5. B[5] = 156
    BY <1>2, <1>6, <2>4
  <2>6. B[6] = 189
    BY <1>2, <1>6, <2>5
  <2> QED
    BY <1>2, <1>6, <2>1, <2>2, <2>3, <2>4, <2>5, <2>6
<1>8. BytesOfItems[0] = B[0] /\ BytesOfItems[3] = B[3] /\ BytesOfItems[7] = B[7]
  BY <1>4
<1> QED
  BY <1>1, <1>6, <1>7, <1>8

(* The two hashes are where their fields are.                              *)
LEMMA HashFieldsAre ==
  /\ HeaderField("parentHash") = BytesFrom(1004, 32)
  /\ HeaderField("stateRoot") = BytesFrom(1091, 32)
<1>1. /\ HeaderItems[1].item = "parentHash" /\ HeaderItems[1].prefix = 1
      /\ HeaderItems[1].len = 32
      /\ HeaderItems[4].item = "stateRoot" /\ HeaderItems[4].prefix = 1
      /\ HeaderItems[4].len = 32
      /\ \A i \in 1..7 : /\ HeaderItems[i].item = "parentHash" => i = 1
                         /\ HeaderItems[i].item = "stateRoot" => i = 4
  BY DEF HeaderItems
<1>2. (CHOOSE i \in DOMAIN HeaderItems : HeaderItems[i].item = "parentHash") = 1
  BY <1>1, HeaderOffsets
<1>3. (CHOOSE i \in DOMAIN HeaderItems : HeaderItems[i].item = "stateRoot") = 4
  BY <1>1, HeaderOffsets
<1>4. HeaderField("parentHash") = [j \in 1..32 |-> 1000 + (3 + 1) + j]
  BY <1>1, <1>2, HeaderOffsets DEF HeaderField
<1>5. HeaderField("stateRoot") = [j \in 1..32 |-> 1000 + (90 + 1) + j]
  BY <1>1, <1>3, HeaderOffsets DEF HeaderField
<1> QED
  BY <1>4, <1>5 DEF BytesFrom

-----------------------------------------------------------------------------
(* The bytes of a header.                                                  *)
NumberBytes == EncodedNumber(call.difficulty) \o EncodedNumber(call.number)

HeaderByte(j) ==
  IF j > 448 /\ j <= 448 + Len(NumberBytes) THEN NumberBytes[j - 448] ELSE 1000 + j

(* The words are these bytes, eight by eight.                              *)
LEMMA HeaderWordIs ==
  ASSUME NEW i
  PROVE  HeaderWord(i) = [k \in 1..8 |-> HeaderByte(i * 8 + k)]
BY HeaderOffsets DEF HeaderWord, HeaderByte, NumberBytes, HeaderWordBytes

LEMMA EarlyWord ==
  ASSUME NEW i \in 0..55
  PROVE  HeaderWord(i) = BytesFrom(1000 + 8 * i, 8)
<1>1. ASSUME NEW k \in 1..8 PROVE HeaderByte(i * 8 + k) = 1000 + 8 * i + k
  <2>1. ~(i * 8 + k > 448) /\ 1000 + (i * 8 + k) = 1000 + 8 * i + k
    OBVIOUS
  <2> QED
    BY <2>1 DEF HeaderByte
<1> QED
  BY <1>1, HeaderWordIs DEF BytesFrom

(* The two halves of a hash make its bytes.                                *)
HalvesJoin(f) == BytesFrom(f, 16) \o BytesFrom(f + 16, 16) = BytesFrom(f, 32)

LEMMA HalvesJoined == ASSUME NEW f \in Int PROVE HalvesJoin(f)
<1> DEFINE h == 16
<1>1. h \in Nat /\ h + h = 32
  OBVIOUS
<1> HIDE DEF h
<1>2. BytesFrom(f, h) \o BytesFrom(f + h, h) = BytesFrom(f, h + h)
  BY <1>1, BytesJoined
<1>3. BytesFrom(f, h) \o BytesFrom(f + h, h) = BytesFrom(f, 32)
  BY <1>1, <1>2
<1> QED
  BY <1>3 DEF h, HalvesJoin

Joined(hash) == hash.low \o hash.high

(* Five words, cut, are four words.                                        *)
LEMMA HashFromIs ==
  ASSUME NEW i \in 0..51, NEW cut \in 0..8, NEW f, f = 1000 + 8 * i + cut
  PROVE  Joined(HashFrom(i, cut)) = BytesFrom(f, 32)
<1> DEFINE Low(j) == Above(HeaderWord(j), cut) \o HeaderWord(j + 1)
                       \o Below(HeaderWord(j + 2), cut)
<1>1. ASSUME NEW j \in 0..53
      PROVE  Low(j) = BytesFrom(1000 + 8 * j + cut, 16)
  <2> DEFINE g == 1000 + 8 * j + cut
             m == 8 - cut
  <2>1. /\ HeaderWord(j) = BytesFrom(1000 + 8 * j, 8)
        /\ HeaderWord(j + 1) = BytesFrom(1000 + 8 * (j + 1), 8)
        /\ HeaderWord(j + 2) = BytesFrom(1000 + 8 * (j + 2), 8)
    <3>1. j \in 0..55 /\ j + 1 \in 0..55 /\ j + 2 \in 0..55
      OBVIOUS
    <3> QED
      BY <3>1, EarlyWord
  <2>2. /\ 1000 + 8 * j \in Int /\ 1000 + 8 * (j + 2) \in Int /\ cut \in Nat /\ cut <= 8
        /\ g \in Int /\ m \in Nat
        /\ 1000 + 8 * j + cut = g /\ 1000 + 8 * (j + 1) = g + m
        /\ 1000 + 8 * (j + 2) = g + (m + 8) /\ g + m \in Int
    OBVIOUS
  <2>3. Above(HeaderWord(j), cut) = BytesFrom(g, m)
    <3>1. Above(BytesFrom(1000 + 8 * j, 8), cut)
            = BytesFrom(1000 + 8 * j + cut, IF cut <= 8 THEN 8 - cut ELSE 0)
      BY <2>2, AboveIs
    <3> QED
      BY <2>1, <2>2, <3>1
  <2>4. Below(HeaderWord(j + 2), cut) = BytesFrom(g + (m + 8), cut)
    <3>1. Below(BytesFrom(1000 + 8 * (j + 2), 8), cut)
            = BytesFrom(1000 + 8 * (j + 2), IF cut <= 8 THEN cut ELSE 8)
      BY <2>2, BelowIs
    <3> QED
      BY <2>1, <2>2, <3>1
  <2>5. HeaderWord(j + 1) = BytesFrom(g + m, 8)
    BY <2>1, <2>2
  <2>6. (m + 8) + cut = 16 /\ m + 8 \in Nat /\ cut \in Nat
    BY <2>2
  <2>9. g \in Int /\ m \in Nat /\ 8 \in Nat
    BY <2>2
  <2>10. 1000 + 8 * j + cut = g
    OBVIOUS
  <2> HIDE DEF g, m
  <2>7. BytesFrom(g, m) \o BytesFrom(g + m, 8) = BytesFrom(g, m + 8)
    BY <2>9, BytesJoined
  <2> DEFINE p == m + 8
  <2>8. BytesFrom(g, p) \o BytesFrom(g + p, cut) = BytesFrom(g, p + cut)
    <3>1. g \in Int /\ p \in Nat /\ cut \in Nat
      BY <2>6, <2>9
    <3> HIDE DEF p
    <3> QED
      BY <3>1, BytesJoined
  <2>11. Low(j) = BytesFrom(g, p) \o BytesFrom(g + p, cut)
    BY <2>3, <2>4, <2>5, <2>7
  <2>12. p + cut = 16
    BY <2>6
  <2> HIDE DEF p, Low
  <2>13. Low(j) = BytesFrom(g, 16)
    BY <2>8, <2>11, <2>12
  <2> QED
    BY <2>10, <2>13
<1>2. HashFrom(i, cut).low = Low(i) /\ HashFrom(i, cut).high = Low(i + 2)
  <2>1. (i + 2) + 1 = i + 3 /\ (i + 2) + 2 = i + 4
    OBVIOUS
  <2> QED
    BY <2>1 DEF HashFrom
<1> HIDE DEF Low
<1>3. Low(i) = BytesFrom(f, 16)
  <2>1. i \in 0..53
    OBVIOUS
  <2> QED
    BY <1>1, <2>1
<1>4. Low(i + 2) = BytesFrom(f + 16, 16)
  <2>1. i + 2 \in 0..53 /\ 1000 + 8 * (i + 2) + cut = f + 16
    OBVIOUS
  <2> QED
    BY <1>1, <2>1
<1>5. f \in Int
  OBVIOUS
<1>6. HalvesJoin(f)
  BY <1>5, HalvesJoined
<1> QED
  BY <1>2, <1>3, <1>4, <1>6 DEF Joined, HalvesJoin

(* The places in the code are those of the two fields.                     *)
LEMMA HashesAre ==
  /\ Joined(HashFrom(0, 4)) = HeaderField("parentHash")
  /\ Joined(HashFrom(11, 3)) = HeaderField("stateRoot")
<1>1. Joined(HashFrom(0, 4)) = BytesFrom(1004, 32)
  <2>1. 0 \in 0..51 /\ 4 \in 0..8 /\ 1004 = 1000 + 8 * 0 + 4
    OBVIOUS
  <2> QED
    BY <2>1, HashFromIs
<1>2. Joined(HashFrom(11, 3)) = BytesFrom(1091, 32)
  <2>1. 11 \in 0..51 /\ 3 \in 0..8 /\ 1091 = 1000 + 8 * 11 + 3
    OBVIOUS
  <2> QED
    BY <2>1, HashFromIs
<1> QED
  BY <1>1, <1>2, HashFieldsAre

-----------------------------------------------------------------------------
(* Numbers in a row are a sequence.                                        *)
LEMMA RowIs ==
  ASSUME NEW n \in Nat, NEW s \in [1..n -> Nat]
  PROVE  s \in Seq(Nat) /\ Len(s) = n
OBVIOUS

LEMMA RowLength ==
  ASSUME NEW n \in Nat, NEW s \in Seq(Nat), Len(s) = n
  PROVE  s \in [1..n -> Nat]
OBVIOUS

(* Parts of a row and two rows, one behind the other.                      *)
LEMMA RowPart ==
  ASSUME NEW n \in Nat, NEW s \in [1..n -> Nat], NEW m \in 0..n
  PROVE  /\ SubSeq(s, 1, m) \in [1..m -> Nat]
         /\ \A i \in 1..m : SubSeq(s, 1, m)[i] = s[i]
<1>1. m \in Nat
  OBVIOUS
<1>2. s \in Seq(Nat) /\ Len(s) = n
  BY RowIs
<1>3. SubSeq(s, 1, m) \in Seq(Nat) /\ Len(SubSeq(s, 1, m)) = m
  BY <1>1, <1>2
<1>4. SubSeq(s, 1, m) \in [1..m -> Nat]
  BY <1>1, <1>3, RowLength
<1>5. \A i \in 1..m : SubSeq(s, 1, m)[i] = s[i]
  BY <1>1, <1>2
<1> QED
  BY <1>4, <1>5

LEMMA RowsJoined ==
  ASSUME NEW m \in Nat, NEW n \in Nat, NEW s \in [1..m -> Nat], NEW t \in [1..n -> Nat]
  PROVE  /\ s \o t \in [1..(m + n) -> Nat]
         /\ \A i \in 1..m : (s \o t)[i] = s[i]
         /\ \A i \in 1..n : (s \o t)[m + i] = t[i]
<1>1. s \in Seq(Nat) /\ Len(s) = m /\ t \in Seq(Nat) /\ Len(t) = n
  BY RowIs
<1>2. s \o t \in Seq(Nat) /\ Len(s \o t) = m + n
  BY <1>1, ConcatProperties
<1>3. s \o t \in [1..(m + n) -> Nat]
  <2>1. m + n \in Nat
    OBVIOUS
  <2> QED
    BY <1>2, <2>1, RowLength
<1>4. \A i \in 1..m : (s \o t)[i] = s[i]
  BY <1>1
<1>5. \A i \in 1..n : (s \o t)[m + i] = t[i]
  BY <1>1
<1> QED
  BY <1>3, <1>4, <1>5

LEMMA RowAbove ==
  ASSUME NEW n \in Nat, NEW s \in [1..n -> Nat], NEW k \in 0..n
  PROVE  /\ Above(s, k) \in [1..(n - k) -> Nat]
         /\ \A i \in 1..(n - k) : Above(s, k)[i] = s[k + i]
<1>1. s \in Seq(Nat) /\ Len(s) = n
  BY RowIs
<1> DEFINE m == n - k
           f == k + 1
<1>2. /\ m \in Nat /\ f \in 1..(n + 1) /\ n \in (f - 1)..n /\ (n - f) + 1 = m
      /\ \A i \in 1..m : (f + i) - 1 = k + i /\ f + i - 1 = k + i /\ k + i \in 1..n
  OBVIOUS
<1>3. Above(s, k) = SubSeq(s, f, n)
  BY <1>1 DEF Above
<1> HIDE DEF f, m
<1>4. SubSeq(s, f, n) \in Seq(Nat) /\ Len(SubSeq(s, f, n)) = m
      /\ \A i \in 1..m : SubSeq(s, f, n)[i] = s[f + i - 1]
  BY <1>1, <1>2, SubSeqProperties
<1>5. SubSeq(s, f, n) \in [1..m -> Nat]
  BY <1>2, <1>4, RowLength
<1>6. \A i \in 1..m : SubSeq(s, f, n)[i] = s[k + i]
  BY <1>2, <1>4
<1> QED
  BY <1>3, <1>5, <1>6 DEF m

LEMMA RowBelow ==
  ASSUME NEW n \in Nat, NEW s \in [1..n -> Nat], NEW k \in 0..n
  PROVE  /\ Below(s, k) \in [1..k -> Nat]
         /\ \A i \in 1..k : Below(s, k)[i] = s[i]
<1>1. Len(s) = n
  BY RowIs
<1>2. Min({k, n}) = k
  BY MinIs
<1>3. Below(s, k) = SubSeq(s, 1, k)
  BY <1>1, <1>2 DEF Below
<1>4. /\ SubSeq(s, 1, k) \in [1..k -> Nat]
      /\ \A i \in 1..k : SubSeq(s, 1, k)[i] = s[i]
  BY RowPart
<1> QED
  BY <1>3, <1>4

(* The first byte of an encoded number tells its length.                   *)
LEMMA EncodedIs ==
  ASSUME NEW n \in Numbers
  PROVE  LET e == EncodedNumber(n)
             s == Len(e) - 1
         IN  /\ e \in Seq(Nat) /\ s \in 0..7 /\ Len(e) = s + 1 /\ n \in [1..Len(n) -> Nat]
             /\ \/ e = n /\ e[1] <= 127 /\ s = 0 /\ Len(n) = 1
                \/ /\ e # n /\ e[1] = 128 + s /\ Len(n) = s
                   /\ \A i \in 1..s : e[i + 1] = n[i]
<1> DEFINE e == EncodedNumber(n)
           s == Len(e) - 1
<1> DEFINE B == 0..255
           m == Len(n)
<1>1. /\ n \in Seq(Nat) /\ Len(n) \in 0..7 /\ n \in [1..Len(n) -> Nat]
      /\ \A i \in 1..Len(n) : n[i] \in Nat
  <2>1. n \in Seq(B) /\ m <= 7
    BY NumbersAssumption
  <2>2. B \subseteq Nat
    OBVIOUS
  <2> HIDE DEF B
  <2>3. m \in Nat /\ n \in [1..m -> B]
    BY <2>1
  <2> HIDE DEF m
  <2>4. n \in [1..m -> Nat] /\ \A i \in 1..m : n[i] \in Nat
    BY <2>2, <2>3
  <2>5. n \in Seq(Nat)
    BY <2>3, <2>4, RowIs
  <2>6. m \in 0..7
    BY <2>1, <2>3
  <2> QED
    BY <2>4, <2>5, <2>6 DEF m
<1>2. CASE Len(n) = 1 /\ n[1] < 128
  <2>1. e = n
    BY <1>2 DEF EncodedNumber
  <2>2. n[1] \in Nat
    <3>1. 1 \in 1..Len(n)
      BY <1>2
    <3> QED
      BY <1>1, <3>1
  <2> QED
    BY <1>1, <1>2, <2>1, <2>2
<1>3. CASE ~(Len(n) = 1 /\ n[1] < 128)
  <2>1. e = <<128 + Len(n)>> \o n
    BY <1>3 DEF EncodedNumber
  <2>2. /\ e \in Seq(Nat) /\ Len(e) = 1 + Len(n) /\ e[1] = 128 + Len(n)
        /\ \A i \in 1..Len(n) : e[i + 1] = n[i]
    BY <1>1, <2>1
  <2>3. s = Len(n) /\ s \in 0..7
    <3> DEFINE l == Len(e)
    <3>1. l = 1 + m /\ m \in 0..7 /\ s = l - 1
      BY <1>1, <2>2
    <3> HIDE DEF l, m, s
    <3>2. s = m
      BY <3>1
    <3> QED
      BY <3>1, <3>2 DEF m
  <2>4. e # n
    BY <1>1, <2>2
  <2>5. Len(e) = s + 1 /\ e[1] = 128 + s /\ \A i \in 1..s : e[i + 1] = n[i]
    BY <1>1, <2>2, <2>3
  <2> HIDE DEF s, e
  <2>6. /\ e # n /\ e[1] = 128 + s /\ Len(n) = s
        /\ \A i \in 1..s : e[i + 1] = n[i]
    BY <2>3, <2>4, <2>5
  <2>7. e \in Seq(Nat) /\ s \in 0..7 /\ Len(e) = s + 1 /\ n \in [1..Len(n) -> Nat]
    BY <1>1, <2>2, <2>3, <2>5
  <2> QED
    BY <2>6, <2>7 DEF e, s
<1> QED
  BY <1>2, <1>3

NumberCall == call \in HeaderCalls /\ call.fn \in NumberFns

(* The numbers of such a call.                                             *)
LEMMA NumberCallTypes ==
  ASSUME NumberCall
  PROVE  call.difficulty \in Numbers /\ call.number \in Numbers
<1>1. NumberFns \cap HeaderHashFns = {}
  BY DEF NumberFns, HeaderHashFns
<1> QED
  BY <1>1 DEF NumberCall, HeaderCalls

(* The bytes from the word at 56 on are those of the two numbers.          *)
LEMMA NumbersIn ==
  ASSUME NumberCall
  PROVE  LET D == EncodedNumber(call.difficulty)
             N == EncodedNumber(call.number)
         IN  /\ \A i \in 1..Len(D) : HeaderByte(448 + i) = D[i]
             /\ \A i \in 1..Len(N) : HeaderByte(448 + Len(D) + i) = N[i]
             /\ \A j \in Nat : HeaderByte(j) \in Nat
<1> DEFINE D == EncodedNumber(call.difficulty)
           N == EncodedNumber(call.number)
<1>1. D \in Seq(Nat) /\ N \in Seq(Nat) /\ NumberBytes = D \o N
  BY NumberCallTypes, EncodedIs DEF NumberBytes
<1> HIDE DEF D, N
<1>2. /\ Len(NumberBytes) = Len(D) + Len(N) /\ Len(D) \in Nat /\ Len(N) \in Nat
      /\ \A i \in 1..(Len(D) + Len(N)) : NumberBytes[i] \in Nat
      /\ \A i \in 1..Len(D) : NumberBytes[i] = D[i]
      /\ \A i \in 1..Len(N) : NumberBytes[Len(D) + i] = N[i]
  BY <1>1
<1> DEFINE d == Len(D)
           m == Len(N)
<1> HIDE DEF d, m
<1>3. \A i \in 1..d : HeaderByte(448 + i) = D[i]
  <2> TAKE i \in 1..d
  <2>1. 448 + i > 448 /\ 448 + i <= 448 + (d + m) /\ (448 + i) - 448 = i
    BY <1>2 DEF d, m
  <2> QED
    BY <1>2, <2>1 DEF HeaderByte, d, m
<1>4. \A i \in 1..m : HeaderByte(448 + d + i) = N[i]
  <2> TAKE i \in 1..m
  <2>1. /\ 448 + d + i > 448 /\ 448 + d + i <= 448 + (d + m)
        /\ (448 + d + i) - 448 = d + i
    BY <1>2 DEF d, m
  <2> QED
    BY <1>2, <2>1 DEF HeaderByte, d, m
<1>5. \A j \in Nat : HeaderByte(j) \in Nat
  <2> TAKE j \in Nat
  <2>1. CASE j > 448 /\ j <= 448 + (d + m)
    <3>1. j - 448 \in 1..(d + m)
      BY <1>2, <2>1 DEF d, m
    <3> QED
      BY <1>2, <2>1, <3>1 DEF HeaderByte, d, m
  <2>2. CASE ~(j > 448 /\ j <= 448 + (d + m))
    BY <1>2, <2>2 DEF HeaderByte, d, m
  <2> QED
    BY <2>1, <2>2
<1> QED
  BY <1>3, <1>4, <1>5 DEF D, N, d, m

(* The two words that are looked at, the most significant byte last.       *)
LEMMA ReversedWordsAre ==
  ASSUME NumberCall
  PROVE  /\ ReversedWord(56) \in [1..8 -> Nat] /\ ReversedWord(57) \in [1..8 -> Nat]
         /\ \A k \in 1..8 : /\ ReversedWord(56)[k] = HeaderByte(457 - k)
                            /\ ReversedWord(57)[k] = HeaderByte(465 - k)
<1>1. ASSUME NEW i \in Nat
      PROVE  /\ HeaderWord(i) \in [1..8 -> Nat]
             /\ \A k \in 1..8 : HeaderWord(i)[k] = HeaderByte(i * 8 + k)
  <2>1. \A k \in 1..8 : i * 8 + k \in Nat
    OBVIOUS
  <2> QED
    BY <2>1, NumbersIn, HeaderWordIs
<1>2. ASSUME NEW i \in Nat
      PROVE  /\ ReversedWord(i) \in [1..8 -> Nat]
             /\ \A k \in 1..8 : ReversedWord(i)[k] = HeaderWord(i)[8 - k + 1]
  BY <1>1, ReverseIs DEF ReversedWord
<1>3. ASSUME NEW k \in 1..8
      PROVE  /\ ReversedWord(56)[k] = HeaderByte(457 - k)
             /\ ReversedWord(57)[k] = HeaderByte(465 - k)
  <2>1. /\ 8 - k + 1 \in 1..8 /\ 56 * 8 + (8 - k + 1) = 457 - k
        /\ 57 * 8 + (8 - k + 1) = 465 - k
    OBVIOUS
  <2>2. /\ ReversedWord(56)[k] = HeaderWord(56)[8 - k + 1]
        /\ ReversedWord(57)[k] = HeaderWord(57)[8 - k + 1]
    BY <1>2
  <2> DEFINE l == 8 - k + 1
  <2> HIDE DEF l
  <2>3. HeaderWord(56)[l] = HeaderByte(56 * 8 + l) /\ HeaderWord(57)[l] = HeaderByte(57 * 8 + l)
    <3>1. l \in 1..8 /\ 56 \in Nat /\ 57 \in Nat
      BY <2>1 DEF l
    <3> QED
      BY <1>1, <3>1
  <2> QED
    BY <2>1, <2>2, <2>3 DEF l
<1> QED
  BY <1>2, <1>3

(* The difficulty is in front of the first of them.                        *)
LEMMA DifficultyPrefixIs ==
  ASSUME NumberCall
  PROVE  DifficultyPrefix = EncodedNumber(call.difficulty)[1]
<1> DEFINE w == ReversedWord(56)
<1>1. w \in [1..8 -> Nat] /\ w[8] = HeaderByte(449)
  <2>1. 457 - 8 = 449 /\ 8 \in 1..8
    OBVIOUS
  <2> QED
    BY <2>1, ReversedWordsAre
<1>2. HeaderByte(449) = EncodedNumber(call.difficulty)[1]
  <2>1. 1 \in 1..Len(EncodedNumber(call.difficulty)) /\ 448 + 1 = 449
    BY NumberCallTypes, EncodedIs
  <2> QED
    BY <2>1, NumbersIn
<1> HIDE DEF w
<1>3. w \in Seq(Nat) /\ Len(w) = 8
  <2>1. 8 \in Nat
    OBVIOUS
  <2> QED
    BY <1>1, <2>1, RowIs
<1>4. SubSeq(w, 8, 8)[1] = w[8]
  BY <1>3
<1>5. DifficultyPrefix = SubSeq(w, 7 + 1, Len(w))[1]
  BY DEF DifficultyPrefix, Above, w
<1> QED
  BY <1>1, <1>2, <1>3, <1>4, <1>5

(* Behind a difficulty of the length found the item of the number begins.  *)
LEMMA NumberItemIs ==
  ASSUME NumberCall, NEW d \in 0..7, ids.difficulty_offset = d
  PROVE  /\ BlockNumberItem \in [1..(15 - d) -> Nat]
         /\ \A i \in 1..(15 - d) : BlockNumberItem[i] = HeaderByte(465 - i)
<1> DEFINE u == ReversedWord(57)
           w == ReversedWord(56)
           r == Remaining7
           v == Below(r, 7 - d)
<1> DEFINE m == 7 - d
<1>1. /\ u \in [1..8 -> Nat] /\ w \in [1..8 -> Nat]
      /\ \A k \in 1..8 : u[k] = HeaderByte(465 - k) /\ w[k] = HeaderByte(457 - k)
  BY ReversedWordsAre
<1>2. BlockNumberItem = u \o v
  BY DEF BlockNumberItem
<1>3. r = SubSeq(w, 1, Min({7, Len(w)})) /\ v = SubSeq(r, 1, Min({7 - d, Len(r)}))
  BY DEF Remaining7, Below
<1>4. /\ m \in 0..7 /\ m \in Nat /\ 15 - d = 8 + m /\ 7 \in 0..8 /\ 8 \in Nat
      /\ 7 \in Nat
  OBVIOUS
<1>5. Min({7, 8}) = 7 /\ Min({m, 7}) = m
  <2>1. 7 \in Int /\ 8 \in Int /\ m \in Int
    OBVIOUS
  <2> QED
    BY <2>1, MinIs
<1>6. v = SubSeq(r, 1, Min({m, Len(r)}))
  BY <1>3
<1> HIDE DEF u, w, r, v, m
<1>7. Len(w) = 8
  BY <1>1, <1>4, RowIs
<1>8. r = SubSeq(w, 1, 7)
  BY <1>3, <1>5, <1>7
<1>9. r \in [1..7 -> Nat] /\ \A i \in 1..7 : r[i] = w[i]
  <2>1. w \in [1..8 -> Nat] /\ 8 \in Nat /\ 7 \in 0..8
    BY <1>1, <1>4
  <2>2. /\ SubSeq(w, 1, 7) \in [1..7 -> Nat]
        /\ \A i \in 1..7 : SubSeq(w, 1, 7)[i] = w[i]
    BY <2>1, RowPart, Zenon
  <2> QED
    BY <1>8, <2>2, Zenon
<1>10. Len(r) = 7
  BY <1>4, <1>9, RowIs
<1>11. v = SubSeq(r, 1, m)
  BY <1>5, <1>6, <1>10
<1>12. v \in [1..m -> Nat] /\ \A i \in 1..m : v[i] = r[i]
  BY <1>4, <1>9, <1>11, RowPart
<1> DEFINE item == u \o v
<1>13. /\ item \in [1..(8 + m) -> Nat] /\ \A i \in 1..8 : item[i] = u[i]
       /\ \A i \in 1..m : item[8 + i] = v[i]
  <2>1. u \in [1..8 -> Nat] /\ 8 \in Nat /\ m \in Nat /\ v \in [1..m -> Nat]
    BY <1>1, <1>4, <1>12
  <2> QED
    BY <2>1, RowsJoined, Zenon
<1> HIDE DEF item
<1>14. ASSUME NEW i \in 1..(8 + m)
       PROVE  item[i] = HeaderByte(465 - i)
  <2>1. CASE i <= 8
    <3>1. i \in 1..8
      BY <1>4, <2>1
    <3>2. item[i] = u[i]
      BY <1>13, <3>1
    <3>3. u[i] = HeaderByte(465 - i)
      BY <1>1, <3>1
    <3> QED
      BY <3>2, <3>3
  <2>2. CASE i > 8
    <3> DEFINE k == i - 8
    <3>1. /\ k \in 1..m /\ k \in 1..7 /\ k \in 1..8 /\ 8 + k = i
          /\ 457 - k = 465 - i
      BY <1>4, <2>2
    <3> HIDE DEF k
    <3>2. item[8 + k] = v[k]
      BY <1>13, <3>1
    <3>3. v[k] = r[k]
      BY <1>12, <3>1
    <3>4. r[k] = w[k]
      BY <1>9, <3>1
    <3>5. w[k] = HeaderByte(457 - k)
      BY <1>1, <3>1
    <3> QED
      BY <3>1, <3>2, <3>3, <3>4, <3>5
  <2> QED
    BY <1>4, <2>1, <2>2
<1>15. BlockNumberItem = item
  BY <1>2 DEF item
<1> QED
  BY <1>4, <1>13, <1>14, <1>15

(* What the code takes the difficulty's length for, once found.            *)
OffsetFound == ids.difficulty_offset = Len(EncodedNumber(call.difficulty)) - 1

(* The item then holds the number, the most significant byte on top.       *)
LEMMA FoundItemIs ==
  ASSUME NumberCall, OffsetFound
  PROVE  /\ RemainderBytes \in 7..14
         /\ BlockNumberItem \in [1..(RemainderBytes + 1) -> Nat]
         /\ \A i \in 1..Len(EncodedNumber(call.number)) :
              i <= RemainderBytes + 1 =>
                BlockNumberItem[RemainderBytes + 2 - i] = EncodedNumber(call.number)[i]
<1> DEFINE d == Len(EncodedNumber(call.difficulty)) - 1
           l == Len(EncodedNumber(call.difficulty))
           R == 14 - d
<1>1. d \in 0..7 /\ l = d + 1
  BY NumberCallTypes, EncodedIs
<1>2. ids.difficulty_offset = d
  BY DEF OffsetFound
<1>3. \A i \in 1..Len(EncodedNumber(call.number)) :
        HeaderByte(448 + l + i) = EncodedNumber(call.number)[i]
  BY NumbersIn
<1>4. Len(EncodedNumber(call.number)) \in Nat
  <2>1. EncodedNumber(call.number) \in Seq(Nat)
    BY NumberCallTypes, EncodedIs
  <2> QED
    BY <2>1
<1> HIDE DEF d, l
<1>5. RemainderBytes = R /\ R \in 7..14 /\ 15 - d = R + 1
  BY <1>1, <1>2 DEF RemainderBytes
<1>6. /\ BlockNumberItem \in [1..(15 - d) -> Nat]
      /\ \A i \in 1..(15 - d) : BlockNumberItem[i] = HeaderByte(465 - i)
  BY <1>1, <1>2, NumberItemIs
<1>7. ASSUME NEW i \in 1..Len(EncodedNumber(call.number)), i <= R + 1
      PROVE  BlockNumberItem[R + 2 - i] = EncodedNumber(call.number)[i]
  <2> DEFINE k == R + 2 - i
  <2>1. k \in 1..(15 - d) /\ 465 - k = 448 + l + i
    BY <1>1, <1>5, <1>7, <1>4
  <2> HIDE DEF k, R
  <2>2. BlockNumberItem[k] = HeaderByte(465 - k)
    BY <1>6, <2>1
  <2>3. HeaderByte(448 + l + i) = EncodedNumber(call.number)[i]
    BY <1>3
  <2>4. BlockNumberItem[k] = EncodedNumber(call.number)[i]
    BY <2>1, <2>2, <2>3
  <2> QED
    BY <2>4 DEF k
<1> HIDE DEF R
<1> QED
  BY <1>5, <1>6, <1>7

(* The prefix read is that of the number, ...                              *)
LEMMA NumberPrefixIs ==
  ASSUME NumberCall, OffsetFound
  PROVE  NumberPrefix = EncodedNumber(call.number)[1]
<1> DEFINE R == RemainderBytes
           item == BlockNumberItem
           N == EncodedNumber(call.number)
<1>1. /\ R \in 7..14 /\ item \in [1..(R + 1) -> Nat]
      /\ \A i \in 1..Len(N) : i <= R + 1 => item[R + 2 - i] = N[i]
  BY FoundItemIs
<1>2. Len(N) \in Nat /\ 1 \in 1..Len(N)
  <2>1. Len(N) - 1 \in 0..7 /\ Len(N) = (Len(N) - 1) + 1
    BY NumberCallTypes, EncodedIs
  <2> DEFINE l == Len(N)
             s == l - 1
  <2>2. s \in 0..7 /\ l = s + 1
    BY <2>1
  <2> HIDE DEF s, l
  <2>3. l \in Nat /\ 1 \in 1..l
    BY <2>2
  <2> QED
    BY <2>3 DEF l
<1>3. NumberPrefix = Above(item, R)[1]
  BY DEF NumberPrefix
<1> HIDE DEF R, item, N
<1>4. R + 1 \in Nat /\ R \in 0..(R + 1) /\ 1 \in 1..((R + 1) - R) /\ 1 <= R + 1
      /\ R + 2 - 1 = R + 1
  BY <1>1
<1>5. item[R + 2 - 1] = N[1]
  BY <1>1, <1>2, <1>4
<1>6. Above(item, R)[1] = item[R + 1]
  BY <1>1, <1>4, RowAbove
<1> QED
  BY <1>3, <1>4, <1>5, <1>6 DEF N

(* ... and a size of the number's bytes finds them, ...                    *)
LEMMA BlockNumberIs ==
  ASSUME NumberCall, OffsetFound,
         EncodedNumber(call.number) # call.number,
         NEW s \in 0..7, Len(EncodedNumber(call.number)) = s + 1
  PROVE  BlockNumber(s) = Reverse(call.number)
<1> DEFINE R == RemainderBytes
           item == BlockNumberItem
           n == call.number
           N == EncodedNumber(n)
<1>1. /\ R \in 7..14 /\ item \in [1..(R + 1) -> Nat]
      /\ \A i \in 1..Len(N) : i <= R + 1 => item[R + 2 - i] = N[i]
  BY FoundItemIs
<1>2. /\ Len(N) = s + 1 /\ n \in [1..s -> Nat] /\ N[1] = 128 + s
      /\ \A i \in 1..s : N[i + 1] = n[i]
  <2> DEFINE z == Len(N) - 1
  <2>1. n \in Numbers
    BY NumberCallTypes
  <2>2. /\ n \in [1..Len(n) -> Nat] /\ N[1] = 128 + z /\ Len(n) = z
        /\ \A i \in 1..z : N[i + 1] = n[i]
    BY <2>1, EncodedIs
  <2>3. z = s
    <3> DEFINE l == Len(N)
    <3>1. l = s + 1 /\ z = l - 1
      OBVIOUS
    <3> HIDE DEF l, z
    <3> QED
      BY <3>1
  <2> HIDE DEF z
  <2> QED
    BY <2>2, <2>3
<1>3. NumberPrefix = N[1]
  BY NumberPrefixIs
<1>4. BlockNumber(s) = IF s > 0 THEN Above(Below(item, R), R - s)
                       ELSE IF NumberPrefix = 128 THEN <<>> ELSE <<NumberPrefix>>
  BY DEF BlockNumber
<1> HIDE DEF R, item, N, n
<1>5. s \in Nat
  BY <1>2
<1>6. /\ Reverse(n) \in [1..s -> Nat]
      /\ \A j \in 1..s : Reverse(n)[j] = n[s - j + 1]
  BY <1>2, <1>5, ReverseIs
<1>7. CASE s > 0
  <2> DEFINE w == Below(item, R)
             k == R - s
             t == Above(w, k)
  <2>1. R + 1 \in Nat /\ R \in 0..(R + 1) /\ R \in Nat /\ k \in 0..R /\ R - k = s
    BY <1>1, <1>2
  <2> HIDE DEF w, t, k
  <2>2. w \in [1..R -> Nat] /\ \A i \in 1..R : w[i] = item[i]
    BY <1>1, <2>1, RowBelow DEF w
  <2>3. t \in [1..s -> Nat] /\ \A j \in 1..s : t[j] = w[k + j]
    <3>1. /\ t \in [1..(R - k) -> Nat]
          /\ \A j \in 1..(R - k) : t[j] = w[k + j]
      BY <2>1, <2>2, RowAbove DEF t
    <3> QED
      BY <2>1, <3>1
  <2>4. ASSUME NEW j \in 1..s PROVE t[j] = Reverse(n)[j]
    <3> DEFINE i == s - j + 1
               h == k + j
               c == i + 1
    <3>1. /\ i \in 1..s /\ h \in 1..R /\ h = R + 2 - c /\ c \in 1..(s + 1)
          /\ c <= R + 1
      BY <1>1, <1>2, <2>1
    <3>2. Reverse(n)[j] = n[i]
      BY <1>6
    <3>3. t[j] = w[h]
      BY <2>3
    <3> DEFINE g == i + 1
    <3>5. c = i + 1
      OBVIOUS
    <3> HIDE DEF i, h, c
    <3>4. w[h] = item[h]
      BY <2>2, <3>1
    <3>6. item[R + 2 - c] = N[c]
      BY <1>1, <1>2, <3>1
    <3>7. N[i + 1] = n[i]
      BY <1>2, <3>1
    <3> QED
      BY <3>1, <3>2, <3>3, <3>4, <3>5, <3>6, <3>7
  <2>5. t = Reverse(n)
    BY <1>6, <2>3, <2>4
  <2>6. BlockNumber(s) = t
    BY <1>4, <1>7 DEF t, w, k
  <2> QED
    BY <2>5, <2>6 DEF n
<1>8. CASE ~(s > 0)
  <2>1. s = 0
    BY <1>2, <1>8
  <2>2. BlockNumber(s) = <<>>
    BY <1>2, <1>3, <1>4, <2>1
  <2>3. Reverse(n) = <<>>
    <3>1. Reverse(n) \in Seq(Nat) /\ Len(Reverse(n)) = s
      BY <1>5, <1>6, RowIs
    <3> QED
      BY <2>1, <3>1, EmptySeq
  <2> QED
    BY <2>2, <2>3 DEF n
<1> QED
  BY <1>7, <1>8

(* ... or the number is its own prefix.                                    *)
LEMMA SingleByteIs ==
  ASSUME NumberCall, OffsetFound,
         EncodedNumber(call.number) = call.number
  PROVE  BlockNumber(0) = Reverse(call.number)
<1> DEFINE n == call.number
<1>1. n[1] <= 127 /\ n \in [1..1 -> Nat]
  <2>1. n \in Numbers
    BY NumberCallTypes
  <2> QED
    BY <2>1, EncodedIs
<1>2. NumberPrefix = n[1]
  BY NumberPrefixIs
<1>3. BlockNumber(0) = IF NumberPrefix = 128 THEN <<>> ELSE <<NumberPrefix>>
  BY DEF BlockNumber
<1> HIDE DEF n
<1>4. n[1] \in Nat /\ n[1] # 128
  BY <1>1
<1>5. BlockNumber(0) = <<n[1]>>
  BY <1>2, <1>3, <1>4
<1>6. Reverse(n) \in [1..1 -> Nat] /\ Reverse(n)[1] = n[1]
  <2>1. 1 \in Nat /\ 1 \in 1..1 /\ 1 - 1 + 1 = 1
    OBVIOUS
  <2>2. Reverse(n) \in [1..1 -> Nat] /\ \A i \in 1..1 : Reverse(n)[i] = n[1 - i + 1]
    BY <1>1, <2>1, ReverseIs, Zenon
  <2> QED
    BY <2>1, <2>2
<1>7. Reverse(n) = <<n[1]>>
  BY <1>4, <1>6
<1> QED
  BY <1>5, <1>7 DEF n

(* A hint on a first byte is checked, but for one that denies a byte its   *)
(* being a number.                                                         *)
LEMMA BigintSizeIs ==
  ASSUME NEW n \in Numbers, NEW single \in BOOLEAN, NEW R \in 7..14
  PROVE  LET e    == EncodedNumber(n)
             size == BigintByteSize(e[1], single)
         IN  /\ BigintChecked(e[1], single) /\ size \in 0..R => size = Len(e) - 1
             /\ size < 0 => e = n /\ ~single
             /\ RlpBigintSize(e[1]) <=> e = n
<1> DEFINE e == EncodedNumber(n)
           s == Len(e) - 1
           p == e[1]
<1>1. /\ s \in 0..7
      /\ \/ e = n /\ p \in Nat /\ p <= 127 /\ s = 0
         \/ e # n /\ p = 128 + s
  BY EncodedIs
<1> HIDE DEF e, s, p
<1>2. /\ BigintChecked(p, single) /\ BigintByteSize(p, single) \in 0..R
           => BigintByteSize(p, single) = s
      /\ BigintByteSize(p, single) < 0 => e = n /\ ~single
      /\ RlpBigintSize(p) <=> e = n
  <2>1. CASE single = TRUE
    BY <1>1, <2>1 DEF BigintChecked, BigintByteSize, RlpBigintSize
  <2>2. CASE single = FALSE
    BY <1>1, <2>2 DEF BigintChecked, BigintByteSize, RlpBigintSize
  <2> QED
    BY <2>1, <2>2
<1> QED
  BY <1>2 DEF e, s, p

(* The difficulty's length is known where the number is looked for, and    *)
(* what is returned is the field.                                          *)
HeaderInv ==
  /\ call.fn \in NumberFns /\ at = "number" => OffsetFound
  /\ HeaderFieldsExtracted

(* The choices of a hint on a branch.                                      *)
LEMMA BooleanHint ==
  ASSUME NEW right \in BOOLEAN, NEW hint \in HintValues(right, BOOLEAN)
  PROVE  hint \in BOOLEAN /\ (Shipped => hint = right)
BY Zenon DEF HintValues

(* Every step of a call on a header keeps that.                            *)
LEMMA HeaderInvStep ==
  ASSUME call \in HeaderCalls, call.fn \in HeaderHashFns \cup NumberFns, HeaderInv,
         call' = call, BlockHeaderNext \/ UNCHANGED callVars
  PROVE  HeaderInv'
<1>0. /\ ~InProgress.status = "answered" /\ ~Refused.status = "answered"
      /\ call.fn \in NumberFns => call.fn \notin HeaderHashFns
      /\ "start" # "number"
  BY StatusesDiffer DEF NumberFns, HeaderHashFns
<1>1. CASE ExtractHeaderHash
  <2>1. /\ call.fn \in HeaderHashFns /\ call.fn \notin NumberFns
        /\ outcome' = Answer(IF call.fn = "extract_parent_hash_little" THEN HashFrom(0, 4)
                             ELSE HashFrom(11, 3))
    BY <1>0, <1>1 DEF ExtractHeaderHash, At, Return
  <2>2. /\ HashFrom(0, 4).low \o HashFrom(0, 4).high = HeaderField("parentHash")
        /\ HashFrom(11, 3).low \o HashFrom(11, 3).high = HeaderField("stateRoot")
    BY HashesAre DEF Joined
  <2>3. CASE call.fn = "extract_parent_hash_little"
    <3>1. outcome'.value = HashFrom(0, 4)
      BY <2>1, <2>3 DEF Answer
    <3> QED
      BY <2>1, <2>2, <2>3, <3>1 DEF HeaderInv, HeaderFieldsExtracted
  <2>4. CASE call.fn # "extract_parent_hash_little"
    <3>1. outcome'.value = HashFrom(11, 3)
      BY <2>1, <2>4 DEF Answer
    <3> QED
      BY <2>1, <2>2, <2>4, <3>1 DEF HeaderInv, HeaderFieldsExtracted
  <2> QED
    BY <2>3, <2>4
<1> DEFINE Unchecked == ~Shipped /\ \E n \in {call.difficulty, call.number} :
                                     EncodedNumber(n) = n
<1>2. CASE DifficultySize
  <2>1. NumberCall /\ at = "start" /\ outcome = InProgress
    BY <1>2 DEF DifficultySize, At, NumberCall
  <2> DEFINE n == call.difficulty
             p == DifficultyPrefix
  <2>2. PICK single \in HintValues(RlpBigintSize(p), BOOLEAN) :
          LET size   == BigintByteSize(p, single)
              passes == BigintChecked(p, single) /\ size \in 0..7
          IN  \/ passes /\ ids' = [difficulty_offset |-> size] /\ GoTo("number")
              \/ size < 0 /\ Return(Misread)
              \/ ~passes /\ Refuse
    BY <1>2 DEF DifficultySize
  <2>3. single \in BOOLEAN /\ (Shipped => single = RlpBigintSize(p))
    <3>1. RlpBigintSize(p) \in BOOLEAN
      BY DEF RlpBigintSize
    <3> QED
      BY <2>2, <3>1, BooleanHint, Zenon
  <2>4. n \in Numbers /\ p = EncodedNumber(n)[1]
    BY <2>1, NumberCallTypes, DifficultyPrefixIs
  <2>5. /\ BigintChecked(p, single) /\ BigintByteSize(p, single) \in 0..7
             => BigintByteSize(p, single) = Len(EncodedNumber(n)) - 1
        /\ BigintByteSize(p, single) < 0 => EncodedNumber(n) = n /\ ~single
        /\ RlpBigintSize(p) <=> EncodedNumber(n) = n
    <3>1. 7 \in 7..14
      OBVIOUS
    <3> HIDE DEF n, p
    <3> QED
      BY <2>3, <2>4, <3>1, BigintSizeIs, Zenon
  <2>6. CASE /\ BigintChecked(p, single) /\ BigintByteSize(p, single) \in 0..7
             /\ ids' = [difficulty_offset |-> BigintByteSize(p, single)] /\ GoTo("number")
    <3>1. ids'.difficulty_offset = Len(EncodedNumber(n)) - 1
      BY <2>5, <2>6
    <3>2. OffsetFound'
      BY <3>1 DEF OffsetFound
    <3>3. ~Answered'
      BY <1>0, <2>1, <2>6 DEF GoTo, Answered
    <3> QED
      BY <3>2, <3>3 DEF HeaderInv, HeaderFieldsExtracted
  <2>7. CASE BigintByteSize(p, single) < 0 /\ Return(Misread)
    <3>1. EncodedNumber(n) = n /\ ~Shipped
      BY <2>3, <2>5, <2>7
    <3>2. Unchecked'
      BY <3>1 DEF Shipped, EncodedNumber
    <3>3. at' = "start"
      BY <2>1, <2>7 DEF Return
    <3> QED
      BY <1>0, <2>1, <3>2, <3>3 DEF HeaderInv, HeaderFieldsExtracted, NumberCall
  <2>8. CASE Refuse
    BY <1>0, <2>1, <2>8 DEF Refuse, HeaderInv, HeaderFieldsExtracted, Answered
  <2> QED
    BY <2>2, <2>6, <2>7, <2>8
<1>3. CASE NumberSize
  <2>1. NumberCall /\ at = "number" /\ outcome = InProgress /\ OffsetFound
    BY <1>3 DEF NumberSize, At, NumberCall, HeaderInv
  <2> DEFINE n == call.number
             p == NumberPrefix
             R == RemainderBytes
  <2>2. PICK single \in HintValues(RlpBigintSize(p), BOOLEAN) :
          LET size   == BigintByteSize(p, single)
              passes == BigintChecked(p, single) /\ size \in 0..R
          IN  \/ passes /\ Return(BlockNumber(size))
              \/ size < 0 /\ Return(Misread)
              \/ ~passes /\ Refuse
    BY <1>3 DEF NumberSize
  <2>3. single \in BOOLEAN /\ (Shipped => single = RlpBigintSize(p))
    <3>1. RlpBigintSize(p) \in BOOLEAN
      BY DEF RlpBigintSize
    <3> QED
      BY <2>2, <3>1, BooleanHint, Zenon
  <2>4. n \in Numbers /\ p = EncodedNumber(n)[1] /\ R \in 7..14
    BY <2>1, NumberCallTypes, NumberPrefixIs, FoundItemIs
  <2>5. /\ BigintChecked(p, single) /\ BigintByteSize(p, single) \in 0..R
             => BigintByteSize(p, single) = Len(EncodedNumber(n)) - 1
        /\ BigintByteSize(p, single) < 0 => EncodedNumber(n) = n /\ ~single
        /\ RlpBigintSize(p) <=> EncodedNumber(n) = n
    <3> HIDE DEF n, p, R
    <3> QED
      BY <2>3, <2>4, BigintSizeIs, Zenon
  <2>6. CASE /\ BigintChecked(p, single) /\ BigintByteSize(p, single) \in 0..R
             /\ Return(BlockNumber(BigintByteSize(p, single)))
    <3> DEFINE s == Len(EncodedNumber(n)) - 1
    <3>1. outcome' = Answer(BlockNumber(s)) /\ at' = at /\ ids' = ids
      BY <2>5, <2>6 DEF Return
    <3>2. BlockNumber(s) = Reverse(n)
      <4>1. s \in 0..7 /\ Len(EncodedNumber(n)) = s + 1
        BY <2>4, EncodedIs
      <4>2. CASE EncodedNumber(n) = n
        <5>1. s = 0
          BY <2>4, <4>2, EncodedIs
        <5>2. BlockNumber(0) = Reverse(n)
          BY <2>1, <4>2, SingleByteIs
        <5> QED
          BY <5>1, <5>2
      <4>3. CASE EncodedNumber(n) # n
        <5> HIDE DEF s
        <5> QED
          BY <2>1, <4>1, <4>3, BlockNumberIs
      <4> QED
        BY <4>2, <4>3
    <3> HIDE DEF s
    <3>3. outcome'.value = Reverse(call.number)
      BY <3>1, <3>2 DEF Answer
    <3>4. OffsetFound'
      BY <2>1, <3>1 DEF OffsetFound
    <3> QED
      BY <1>0, <2>1, <3>3, <3>4 DEF HeaderInv, HeaderFieldsExtracted, NumberCall
  <2>7. CASE BigintByteSize(p, single) < 0 /\ Return(Misread)
    <3>1. EncodedNumber(n) = n /\ ~Shipped
      BY <2>3, <2>5, <2>7
    <3>2. Unchecked'
      BY <3>1 DEF Shipped, EncodedNumber
    <3>3. OffsetFound'
      BY <2>1, <2>7 DEF Return, OffsetFound
    <3> QED
      BY <1>0, <2>1, <3>2, <3>3 DEF HeaderInv, HeaderFieldsExtracted, NumberCall
  <2>8. CASE Refuse
    <3>1. OffsetFound' /\ ~Answered'
      BY <1>0, <2>1, <2>8 DEF Refuse, OffsetFound, Answered
    <3> QED
      BY <3>1 DEF HeaderInv, HeaderFieldsExtracted
  <2> QED
    BY <2>2, <2>6, <2>7, <2>8
<1>4. CASE UNCHANGED callVars
  <2>1. call' = call /\ at' = at /\ ids' = ids /\ outcome' = outcome
    BY <1>4 DEF callVars
  <2>2. (OffsetFound' <=> OffsetFound) /\ (HeaderFieldsExtracted' <=> HeaderFieldsExtracted)
    BY <2>1 DEF OffsetFound, HeaderFieldsExtracted, Answered, Shipped, EncodedNumber
  <2> QED
    BY <2>1, <2>2 DEF HeaderInv
<1> QED
  BY <1>1, <1>2, <1>3, <1>4 DEF BlockHeaderNext

-----------------------------------------------------------------------------
(* The invariant of one call: the sum it may be of, the checks an answer   *)
(* of felt_divmod has passed, the tables asked for a hint, and those of    *)
(* the sections above.                                                     *)

(* What was returned passed the checks.                                    *)
DivmodAnswerChecked ==
  call.fn \in DivmodFns =>
    outcome \in {InProgress, Refused} \/ (outcome = Answer(ids) /\ DivmodChecked)

(* The tables were asked in order, and all but the last one of an answered *)
(* call did not know the hint.                                             *)
TablesAskedInOrder ==
  call.fn \in ExecuteFns =>
    /\ Len(ids) \in 0..Len(Tables)
    /\ ids = [i \in 1..Len(ids) |-> Tables[i]]
    /\ \A i \in 1..(Len(ids) - 1) : ~Knows(ids[i])
    /\ \/ /\ outcome \in {InProgress, Refused}
          /\ Len(ids) > 0 => ~Knows(ids[Len(ids)])
          /\ outcome = Refused => Len(ids) = Len(Tables)
       \/ /\ outcome.status = "answered" /\ Len(ids) > 0
          /\ outcome.value.table = ids[Len(ids)] /\ Knows(ids[Len(ids)])

HintedInv ==
  /\ call \in Calls
  /\ IInv
  /\ DivmodAnswerChecked
  /\ TablesAskedInOrder
  /\ ExtractInv
  /\ NibbleInv
  /\ WordInv
  /\ ZeroesInv
  /\ NoPaddingInv
  /\ HeaderInv

(* The calls by their function.                                            *)
LEMMA CallTypes ==
  ASSUME call \in Calls
  PROVE  /\ call.fn \in DivmodFns => /\ call \in DivmodCalls
                                    /\ call.value \in Felt /\ call.div \in Nat
                                    /\ RcBound * call.div <= Prime
         /\ call.fn \in ExecuteFns => call \in ExecuteCalls
         /\ call.fn \in BytesFns \cup HashFns => call \in ExtractCalls
         /\ call.fn \in NibbleFns => call \in NibbleCalls
         /\ call.fn \in WordFns => call \in WordCalls
         /\ call.fn \in LeadingZeroesFns => call \in LeadingZeroesCalls
         /\ call.fn \in NoPaddingFns => call \in NoPaddingCalls
         /\ call.fn \in HeaderHashFns \cup NumberFns => call \in HeaderCalls
<1> USE DEF WordFns, NoPaddingFns, LeadingZeroesFns, NibbleFns, BytesFns, HashFns,
            HeaderHashFns, NumberFns, ExecuteFns, SumFns, DivmodFns
<1>1. \/ call \in DivmodCalls
      \/ call \in ExecuteCalls
      \/ call \in ExtractCalls
      \/ call \in NibbleCalls
      \/ call \in WordCalls
      \/ call \in LeadingZeroesCalls
      \/ call \in NoPaddingCalls
      \/ call \in HeaderCalls
      \/ call.fn \in SumFns
  BY DEF Calls, SumCalls
<1>2. call \in ExecuteCalls => call.fn \in ExecuteFns
  BY DEF ExecuteCalls
<1>3. call \in DivmodCalls => /\ call.fn \in DivmodFns /\ call.value \in Felt
                              /\ call.div \in 0..(Prime \div RcBound)
  BY DEF DivmodCalls
<1>4. call \in ExtractCalls => call.fn \in BytesFns \cup HashFns
  BY DEF ExtractCalls
<1>5. /\ call \in NibbleCalls => call.fn \in NibbleFns
      /\ call \in WordCalls => call.fn \in WordFns
      /\ call \in LeadingZeroesCalls => call.fn \in LeadingZeroesFns
      /\ call \in NoPaddingCalls => call.fn \in NoPaddingFns
  BY DEF NibbleCalls, WordCalls, LeadingZeroesCalls, NoPaddingCalls
<1>6. call \in HeaderCalls => call.fn \in HeaderHashFns \cup NumberFns
  BY DEF HeaderCalls
<1> QED
  BY <1>1, <1>2, <1>3, <1>4, <1>5, <1>6, DivisorFits

(* Steps of one function's call leave those of the others alone: a step of *)
(* a module is of one of the functions the module has.                     *)
LEMMA StepsByFunction ==
  ASSUME HintedNext
  PROVE  /\ call' = call
         /\ call.fn \in DivmodFns => DivmodNext
         /\ call.fn \in ExecuteFns => HintProcessorNext
         /\ call.fn \in BytesFns \cup HashFns => RlpExtractNext
         /\ call.fn \in NibbleFns \cup LeadingZeroesFns => KeyNibblesNext
         /\ call.fn \in WordFns \cup NoPaddingFns => EndiannessNext
         /\ call.fn \in HeaderHashFns \cup NumberFns => BlockHeaderNext
         /\ [Next]_vars
<1> DEFINE ExtractFns == BytesFns \cup HashFns
           HeaderFns == HeaderHashFns \cup NumberFns
           ZeroFns == NibbleFns \cup LeadingZeroesFns
           ReverseFns == WordFns \cup NoPaddingFns
<1>1. CASE call.fn \in SumFns /\ Next /\ UNCHANGED callVars
  <2>1. call.fn \notin DivmodFns \cup ExecuteFns \cup ExtractFns \cup ZeroFns \cup ReverseFns
                         \cup HeaderFns
    BY <1>1 DEF SumFns, DivmodFns, ExecuteFns, BytesFns, HashFns, NibbleFns,
                LeadingZeroesFns, WordFns, NoPaddingFns, HeaderHashFns, NumberFns
  <2> QED
    BY <1>1, <2>1 DEF callVars
<1>2. CASE (\/ DivmodNext \/ EndiannessNext \/ KeyNibblesNext \/ RlpExtractNext
            \/ BlockHeaderNext \/ HintProcessorNext) /\ UNCHANGED vars
  <2>1. DivmodNext => call' = call /\ call.fn \in DivmodFns
    BY DEF DivmodNext, DivmodHints, DivmodReturn, DivmodRefuse, At, GoTo, Return, Refuse
  <2>2. EndiannessNext => call' = call /\ call.fn \in ReverseFns
    BY DEF EndiannessNext, WriteWord, ReturnWord, RefuseWord, CountZeroBytes,
           ReturnNoPadding, RefuseNoPadding, At, GoTo, Return, Refuse
  <2>3. KeyNibblesNext => call' = call /\ call.fn \in ZeroFns
    BY DEF KeyNibblesNext, ScanZeroBytes, ReturnZeroes, RefuseZeroes, WriteIsZero,
           ReturnZeroNibble, RefuseZeroNibble, WriteFromLow, ReturnNibble,
           RefuseNibble, At, GoTo, Return, Refuse
  <2>4. RlpExtractNext => call' = call /\ call.fn \in ExtractFns
    BY DEF RlpExtractNext, ExtractAligned, ExtractUnaligned, CutWord, EndLoop,
           ExtractLastWord, ExtractHash, At, GoTo, Return, Refuse
  <2>5. BlockHeaderNext => call' = call /\ call.fn \in HeaderFns
    BY DEF BlockHeaderNext, ExtractHeaderHash, DifficultySize, NumberSize,
           At, GoTo, Return, Refuse
  <2>6. HintProcessorNext => call' = call /\ call.fn \in ExecuteFns
    BY DEF HintProcessorNext, AskTable, UnknownHint, At, Refuse
  <2>7. /\ call.fn \in DivmodFns => call.fn \notin ExecuteFns \cup ExtractFns \cup HeaderFns
                                     \cup ZeroFns \cup ReverseFns
        /\ call.fn \in ExecuteFns => call.fn \notin ExtractFns \cup HeaderFns \cup ZeroFns
                                     \cup ReverseFns
        /\ call.fn \in ExtractFns => call.fn \notin HeaderFns \cup ZeroFns \cup ReverseFns
        /\ call.fn \in HeaderFns => call.fn \notin ZeroFns \cup ReverseFns
        /\ call.fn \in ZeroFns => call.fn \notin ReverseFns
    BY DEF WordFns, NoPaddingFns, LeadingZeroesFns, NibbleFns, BytesFns, HashFns,
           HeaderHashFns, NumberFns, ExecuteFns, DivmodFns
  <2>8. [Next]_vars
    BY <1>2
  <2>9. NibbleFns \cup LeadingZeroesFns = ZeroFns /\ BytesFns \cup HashFns = ExtractFns
        /\ WordFns \cup NoPaddingFns = ReverseFns
        /\ HeaderHashFns \cup NumberFns = HeaderFns
    OBVIOUS
  <2> HIDE DEF ExtractFns, HeaderFns, ZeroFns, ReverseFns
  <2>10. CASE DivmodNext
    BY <2>1, <2>7, <2>8, <2>9, <2>10
  <2>11. CASE EndiannessNext
    BY <2>2, <2>7, <2>8, <2>9, <2>11
  <2>12. CASE KeyNibblesNext
    BY <2>3, <2>7, <2>8, <2>9, <2>12
  <2>13. CASE RlpExtractNext
    BY <2>4, <2>7, <2>8, <2>9, <2>13
  <2>14. CASE BlockHeaderNext
    BY <2>5, <2>7, <2>8, <2>9, <2>14
  <2>15. CASE HintProcessorNext
    BY <2>6, <2>7, <2>8, <2>9, <2>15
  <2> QED
    BY <1>2, <2>10, <2>11, <2>12, <2>13, <2>14, <2>15
<1> QED
  BY <1>1, <1>2 DEF HintedNext

(* The sum: a call of another function is as if it had not begun.          *)
LEMMA SumInvStep == IInv /\ [Next]_vars => IInv'
<1> SUFFICES ASSUME IInv, [Next]_vars PROVE IInv'
  OBVIOUS
<1>1. CASE WriteCarries
  <2>1. NoCarries \notin Carries
    BY DEF NoCarries, Carries
  <2>2. result = Running
    BY <1>1 DEF WriteCarries, IInv
  <2> QED
    BY <1>1, <2>1, <2>2 DEF WriteCarries, IInv
<1>2. CASE ReturnSum
  BY <1>2 DEF ReturnSum, IInv, HalvesSum, Addend
<1>3. CASE FailRangeCheck
  BY <1>3 DEF FailRangeCheck, IInv, HalvesSum, Addend
<1>4. CASE UNCHANGED vars
  BY <1>4 DEF vars, IInv, HalvesSum, Addend
<1> QED
  BY <1>1, <1>2, <1>3, <1>4 DEF Next

(* Only DivmodReturn answers, and it answers what the checks let pass.     *)
LEMMA DivmodInvStep ==
  ASSUME call.fn \in DivmodFns, call' = call, DivmodAnswerChecked,
         DivmodNext \/ UNCHANGED callVars
  PROVE  DivmodAnswerChecked'
<1>1. CASE DivmodHints
  <2>1. outcome = InProgress
    BY <1>1 DEF DivmodHints, At
  <2>2. outcome' \in {InProgress, Refused}
    BY <1>1, <2>1 DEF DivmodHints, GoTo, Refuse
  <2> QED
    BY <2>2 DEF DivmodAnswerChecked
<1>2. CASE DivmodReturn
  <2>1. /\ DivmodChecked /\ outcome' = Answer(ids)
        /\ call' = call /\ ids' = ids
    BY <1>2 DEF DivmodReturn, Return
  <2>2. DivmodChecked' /\ outcome' = Answer(ids')
    BY <2>1 DEF DivmodChecked, RemainderCheck
  <2> QED
    BY <2>2 DEF DivmodAnswerChecked
<1>3. CASE DivmodRefuse
  BY <1>3 DEF DivmodRefuse, Refuse, DivmodAnswerChecked
<1>4. CASE UNCHANGED callVars
  BY <1>4 DEF callVars, DivmodAnswerChecked, DivmodChecked, RemainderCheck, Answer
<1> QED
  BY <1>1, <1>2, <1>3, <1>4 DEF DivmodNext

(* A table is asked after those before it have not known the hint.         *)
LEMMA TablesInvStep ==
  ASSUME call.fn \in ExecuteFns, call' = call, TablesAskedInOrder,
         HintProcessorNext \/ UNCHANGED callVars
  PROVE  TablesAskedInOrder'
<1> DEFINE n == Len(ids)
<1>0. /\ n \in 0..Len(Tables) /\ Len(Tables) \in Nat
      /\ ids = [i \in 1..n |-> Tables[i]]
      /\ \A i \in 1..(n - 1) : ~Knows(ids[i])
      /\ Tables' = Tables /\ \A t : Knows(t)' = Knows(t)
  BY DEF TablesAskedInOrder, Tables, Knows, LibTables
<1>1. CASE AskTable
  <2> DEFINE table == Tables[n + 1]
  <2>1. /\ outcome = InProgress /\ n < Len(Tables)
        /\ ids' = Append(ids, table)
    BY <1>1 DEF AskTable, At
  <2>2. n > 0 => ~Knows(ids[n])
    BY <2>1, <1>0 DEF TablesAskedInOrder, InProgress
  <2>3. ids \in Seq({Tables[i] : i \in 1..n})
    BY <1>0
  <2>4. /\ Len(ids') = n + 1
        /\ \A i \in 1..n : ids'[i] = ids[i]
        /\ ids'[n + 1] = table
        /\ DOMAIN ids' = 1..(n + 1)
    BY <2>1, <2>3, <1>0
  <2>5. ids' = [i \in 1..(n + 1) |-> Tables[i]]
    BY <2>4, <2>1, <2>3, <1>0
  <2>6. \A i \in 1..n : ~Knows(ids'[i])
    BY <2>2, <2>4, <1>0
  <2>7. PICK res \in (IF Knows(table) THEN {"ok", "error"} ELSE {"unknown"}) :
          outcome' = IF GoesOn(res) THEN InProgress
                     ELSE Answer([table |-> table, res |-> res])
    BY <1>1 DEF AskTable
  <2>8. \/ ~Knows(table) /\ outcome' = InProgress
        \/ /\ Knows(table) /\ outcome'.status = "answered"
           /\ outcome'.value.table = table
    BY <2>7 DEF GoesOn, Answer
  <2>9. InProgress # Refused
    BY DEF InProgress, Refused
  <2> QED
    BY <2>1, <2>4, <2>5, <2>6, <2>8, <2>9, <1>0 DEF TablesAskedInOrder
<1>2. CASE UnknownHint
  <2>1. ids' = ids /\ outcome' = Refused /\ n = Len(Tables) /\ outcome = InProgress
    BY <1>2 DEF UnknownHint, Refuse, At
  <2>2. n > 0 => ~Knows(ids[n])
    BY <2>1, <1>0 DEF TablesAskedInOrder, InProgress
  <2> QED
    BY <2>1, <2>2, <1>0 DEF TablesAskedInOrder
<1>3. CASE UNCHANGED callVars
  BY <1>0, <1>3 DEF callVars, TablesAskedInOrder
<1> QED
  BY <1>1, <1>2, <1>3 DEF HintProcessorNext

(* Every call keeps the invariant of its function.                         *)
THEOREM HintedInvariantHolds == HintedSpec => []HintedInv
<1>1. HintedInit => HintedInv
  <2> SUFFICES ASSUME HintedInit PROVE HintedInv
    OBVIOUS
  <2>1. IInv
    BY ShiftAssumption DEF HintedInit, Init, NoSum, IInv, Uint256, Half
  <2>2. DivmodAnswerChecked
    BY DEF HintedInit, DivmodAnswerChecked
  <2>3. TablesAskedInOrder
    <3>1. ids = <<>> /\ Len(ids) = 0 /\ outcome = InProgress /\ InProgress # Refused
      BY DEF HintedInit, InProgress, Refused
    <3>2. Len(Tables) \in Nat
      BY DEF Tables, LibTables
    <3>3. ids = [i \in 1..Len(ids) |-> Tables[i]]
      BY <3>1
    <3> QED
      BY <3>1, <3>2, <3>3 DEF TablesAskedInOrder
  <2>4. ExtractInv
    <3>1. at = "start" /\ ~Answered
      BY StatusesDiffer DEF HintedInit, Answered
    <3> QED
      BY <3>1 DEF ExtractInv, WordsCut, WordsReturned
  <2>5. NibbleInv /\ WordInv /\ ZeroesInv /\ NoPaddingInv
    <3>1. at = "start" /\ ~Answered
      BY StatusesDiffer DEF HintedInit, Answered
    <3> QED
      BY <3>1 DEF NibbleInv, WordInv, ZeroesInv, NoPaddingInv
  <2>6. HeaderInv
    <3>1. at = "start" /\ ~Answered
      BY StatusesDiffer DEF HintedInit, Answered
    <3> QED
      BY <3>1 DEF HeaderInv, HeaderFieldsExtracted
  <2> QED
    BY <2>1, <2>2, <2>3, <2>4, <2>5, <2>6 DEF HintedInit, HintedInv
<1>2. HintedInv /\ [HintedNext]_hintedVars => HintedInv'
  <2> SUFFICES ASSUME HintedInv, [HintedNext]_hintedVars PROVE HintedInv'
    OBVIOUS
  <2>1. /\ call' = call
        /\ call.fn \in DivmodFns => DivmodNext \/ UNCHANGED callVars
        /\ call.fn \in ExecuteFns => HintProcessorNext \/ UNCHANGED callVars
        /\ call.fn \in BytesFns \cup HashFns => RlpExtractNext \/ UNCHANGED callVars
        /\ call.fn \in NibbleFns \cup LeadingZeroesFns => KeyNibblesNext \/ UNCHANGED callVars
        /\ call.fn \in WordFns \cup NoPaddingFns => EndiannessNext \/ UNCHANGED callVars
        /\ call.fn \in HeaderHashFns \cup NumberFns => BlockHeaderNext \/ UNCHANGED callVars
        /\ [Next]_vars
    BY StepsByFunction DEF hintedVars, callVars
  <2>2. IInv'
    BY <2>1, SumInvStep DEF HintedInv
  <2>3. DivmodAnswerChecked'
    BY <2>1, DivmodInvStep DEF HintedInv, DivmodAnswerChecked
  <2>4. TablesAskedInOrder'
    BY <2>1, TablesInvStep DEF HintedInv, TablesAskedInOrder
  <2>5. (call \in Calls)'
    BY <2>1 DEF HintedInv, Calls, DivmodCalls
  <2>6. ExtractInv'
    <3>1. CASE call.fn \in BytesFns \cup HashFns
      BY <2>1, <3>1, CallTypes, ExtractInvStep DEF HintedInv
    <3>2. CASE call.fn \notin BytesFns \cup HashFns
      BY <2>1, <3>2 DEF ExtractInv
    <3> QED
      BY <3>1, <3>2
  <2>7. NibbleInv'
    <3>1. CASE call.fn \in NibbleFns
      BY <2>1, <3>1, CallTypes, NibbleInvStep DEF HintedInv
    <3>2. CASE call.fn \notin NibbleFns
      BY <2>1, <3>2 DEF NibbleInv
    <3> QED
      BY <3>1, <3>2
  <2>8. WordInv'
    <3>1. CASE call.fn \in WordFns
      BY <2>1, <3>1, CallTypes, WordInvStep DEF HintedInv
    <3>2. CASE call.fn \notin WordFns
      BY <2>1, <3>2 DEF WordInv
    <3> QED
      BY <3>1, <3>2
  <2>9. ZeroesInv'
    <3>1. CASE call.fn \in LeadingZeroesFns
      BY <2>1, <3>1, CallTypes, ZeroesInvStep DEF HintedInv
    <3>2. CASE call.fn \notin LeadingZeroesFns
      BY <2>1, <3>2 DEF ZeroesInv
    <3> QED
      BY <3>1, <3>2
  <2>10. NoPaddingInv'
    <3>1. CASE call.fn \in NoPaddingFns
      BY <2>1, <3>1, CallTypes, NoPaddingInvStep DEF HintedInv
    <3>2. CASE call.fn \notin NoPaddingFns
      BY <2>1, <3>2 DEF NoPaddingInv
    <3> QED
      BY <3>1, <3>2
  <2>11. HeaderInv'
    <3>1. CASE call.fn \in HeaderHashFns \cup NumberFns
      BY <2>1, <3>1, CallTypes, HeaderInvStep DEF HintedInv
    <3>2. CASE call.fn \notin HeaderHashFns \cup NumberFns
      BY <2>1, <3>2 DEF HeaderInv, HeaderFieldsExtracted
    <3> QED
      BY <3>1, <3>2
  <2> QED
    BY <2>2, <2>3, <2>4, <2>5, <2>6, <2>7, <2>8, <2>9, <2>10, <2>11 DEF HintedInv
<1> QED
  BY <1>1, <1>2, PTL DEF HintedSpec

-----------------------------------------------------------------------------
(* An answer that passed the checks is quotient and remainder.             *)
LEMMA CheckedAnswerCorrect == call \in Calls /\ DivmodAnswerChecked => DivmodCorrect
<1> SUFFICES ASSUME call \in Calls, DivmodAnswerChecked, call.fn \in DivmodFns, Answered
             PROVE  LET quot == outcome.value.q
                        r == outcome.value.r
                    IN  call.value = quot * call.div + r /\ 0 <= r /\ r < call.div
  BY DEF DivmodCorrect
<1>1. outcome = Answer(ids) /\ DivmodChecked
  <2>1. outcome # InProgress /\ outcome # Refused
    <3>1. InProgress.status = "in progress" /\ Refused.status = "refused"
      BY DEF InProgress, Refused
    <3>2. "in progress" # "answered" /\ "refused" # "answered"
      OBVIOUS
    <3> QED
      BY <3>1, <3>2 DEF Answered
  <2> QED
    BY <2>1 DEF DivmodAnswerChecked
<1>2. outcome.value = ids
  BY <1>1 DEF Answer
<1>3. /\ ids.q \in RangeChecked /\ ids.r \in RangeChecked
      /\ RemainderCheck(ids.r) \in RangeChecked
      /\ call.value = (ids.q * call.div + ids.r) % Prime
  BY <1>1 DEF DivmodChecked
<1>4. call.div \in Nat /\ RcBound * call.div <= Prime
  BY CallTypes
<1>5. ids.r \in Nat /\ ids.r < call.div
  BY <1>3, <1>4, RemainderBelowDivisor, FieldAssumption DEF RangeChecked
<1>6. call.value = ids.q * call.div + ids.r
  BY <1>3, <1>4, <1>5, NoWrap
<1> QED
  BY <1>2, <1>5, <1>6

(* For every width of the halves and every carries a hint may write,       *)
(* uint256_add returns the sum and uint256_sub the difference modulo       *)
(* Shift * Shift.                                                          *)
THEOREM SumIsCorrect == HintedSpec => []SumCorrect
<1>1. IInv => SumCorrect
  <2> SUFFICES ASSUME IInv, result.status = "returned"
               PROVE  LET exact == Value(result.res) + Shift * Shift * result.carry
                      IN  IF operation = "add" THEN exact = Value(a) + Value(b)
                          ELSE exact = Value(a) - Value(b) + Shift * Shift
    BY DEF SumCorrect
  <2>1. /\ carries \in Carries
        /\ result = Returned(HalvesSum(carries), carries.high)
    BY DEF IInv, Running, RangeCheckFailed
  <2>2. result.res = HalvesSum(carries) /\ result.carry = carries.high
    BY <2>1 DEF Returned
  <2>3. a \in Uint256 /\ b \in Uint256
    BY DEF IInv
  <2>4. Value(result.res) + Shift * Shift * result.carry = Value(a) + Value(Addend)
    BY <2>1, <2>2, <2>3, SumValue
  <2>5. Value(a) \in Int /\ Value(b) \in Int /\ Shift * Shift \in Int
    BY <2>3, ShiftAssumption DEF Value, Uint256, Half
  <2> QED
    BY <2>3, <2>4, <2>5, AddendValue
<1> QED
  BY <1>1, HintedInvariantHolds, PTL DEF HintedInv

(* The carries of the Python hint never make a range check fail.           *)
THEOREM PyHintIsAccepted == HintedSpec => []PyHintAccepted
<1>1. IInv => PyHintAccepted
  <2> SUFFICES ASSUME IInv, carries = PyCarries PROVE result # RangeCheckFailed
    BY DEF PyHintAccepted
  <2>1. HalvesSum(carries) \in Uint256
    BY PyCarriesInRange DEF IInv
  <2> QED
    BY <2>1 DEF IInv, Running, RangeCheckFailed, Returned
<1> QED
  BY <1>1, HintedInvariantHolds, PTL DEF HintedInv

(* Whatever the hints write, an answer of felt_divmod and of its forms     *)
(* with a fixed divisor is the quotient and the remainder of the integers. *)
THEOREM DivmodIsCorrect == HintedSpec => []DivmodCorrect
<1>1. HintedInv => DivmodCorrect
  BY CheckedAnswerCorrect DEF HintedInv
<1> QED
  BY <1>1, HintedInvariantHolds, PTL

(* The hints of the library are spread over the tables of the extended     *)
(* processor.                                                              *)
LEMMA LibraryHintsKnown ==
  ASSUME call.processor = "extended", call.code \in LibraryHints
  PROVE  \E i \in 1..Len(Tables) : Knows(Tables[i])
<1>1. /\ Len(Tables) = 8
      /\ Tables[1] = "bit_length" /\ Tables[2] = "block_header"
      /\ Tables[3] = "mmr" /\ Tables[4] = "mpt"
      /\ Tables[5] = "rlp_little" /\ Tables[6] = "utils"
  BY DEF Tables, LibTables
<1>2. call.code \in BitLengthHints \cup BlockHeaderHints \cup MmrHints \cup MptHints
                      \cup RlpLittleHints \cup UtilsHints
  BY DEF LibraryHints, BitLengthHints, BlockHeaderHints, MmrHints, MptHints,
         RlpLittleHints, UtilsHints
<1>3. \/ Knows("bit_length") \/ Knows("block_header") \/ Knows("mmr")
      \/ Knows("mpt") \/ Knows("rlp_little") \/ Knows("utils")
  BY <1>2 DEF Knows, HintsOf
<1> QED
  BY <1>1, <1>3

(* One table and no other runs a hint, and it is the last one asked,       *)
(* whether the hint succeeds or fails; the extended processor runs every   *)
(* hint of the library.                                                    *)
THEOREM OneTableRunsAHint == HintedSpec => []HintRunOnce
<1>1. HintedInv => HintRunOnce
  <2> SUFFICES ASSUME HintedInv, call.fn \in ExecuteFns
               PROVE  /\ \A i, j \in DOMAIN ids : Knows(ids[i]) /\ Knows(ids[j]) => i = j
                      /\ Answered => outcome.value.table = Last(ids) /\ Knows(Last(ids))
                      /\ call.processor = "extended" /\ call.code \in LibraryHints
                           => outcome # Refused
    BY DEF HintRunOnce
  <2> DEFINE n == Len(ids)
  <2>1. /\ n \in Nat /\ ids = [i \in 1..n |-> Tables[i]]
        /\ \A i \in 1..(n - 1) : ~Knows(ids[i])
        /\ \/ /\ outcome \in {InProgress, Refused}
              /\ n > 0 => ~Knows(ids[n])
              /\ outcome = Refused => n = Len(Tables)
           \/ /\ outcome.status = "answered" /\ n > 0
              /\ outcome.value.table = ids[n] /\ Knows(ids[n])
    BY DEF HintedInv, TablesAskedInOrder, Tables, LibTables
  <2> HIDE DEF n
  <2>2. DOMAIN ids = 1..n
    BY <2>1
  <2>3. \A i \in 1..n : Knows(ids[i]) => i = n
    BY <2>1
  <2>s. /\ InProgress.status = "in progress" /\ Refused.status = "refused"
        /\ "in progress" # "answered" /\ "refused" # "answered"
    BY DEF InProgress, Refused
  <2>4. Answered => outcome.value.table = ids[n] /\ Knows(ids[n])
    <3>1. Answered => outcome # InProgress /\ outcome # Refused
      BY <2>s DEF Answered
    <3> QED
      BY <2>1, <3>1
  <2>5. Last(ids) = ids[n]
    BY DEF Last, n
  <2>6. ASSUME call.processor = "extended", call.code \in LibraryHints, outcome = Refused
        PROVE  FALSE
    <3>0. outcome.status # "answered"
      BY <2>s, <2>6
    <3>1. n = Len(Tables) /\ (n > 0 => ~Knows(ids[n]))
      BY <2>1, <2>6, <3>0
    <3>3. \A i \in 1..n : ~Knows(ids[i])
      <4> TAKE i \in 1..n
      <4>1. i \in 1..(n - 1) \/ (i = n /\ n > 0)
        BY <2>1
      <4> QED
        BY <4>1, <3>1, <2>1
    <3>2. \A i \in 1..n : ids[i] = Tables[i]
      BY <2>1
    <3> QED
      BY <3>1, <3>2, <3>3, <2>6, LibraryHintsKnown
  <2> QED
    BY <2>2, <2>3, <2>4, <2>5, <2>6
<1> QED
  BY <1>1, HintedInvariantHolds, PTL

(* Whatever the hints write, an extraction returns as many words as the    *)
(* bytes asked for fill, and all but the last are those bytes; so is the   *)
(* last one with the shipped hints or where no hint decides about it, and  *)
(* otherwise it begins them or begins with them.  The halves of a hash are *)
(* all its bytes.                                                          *)
THEOREM BytesAreThoseAsked == HintedSpec => []BytesExtracted
<1>1. HintedInv => BytesExtracted
  BY ExtractInvCorrect DEF HintedInv
<1> QED
  BY <1>1, HintedInvariantHolds, PTL

(* A nibble that is returned for an index of the key is the nibble there,  *)
(* when the hints are the shipped ones or when the lower half holds the    *)
(* key: then no hint can make the checks pass on another one.              *)
THEOREM NibblesAreThoseOfKey == HintedSpec => []NibbleExtracted
<1>1. HintedInv => NibbleExtracted
  BY DEF HintedInv, NibbleInv, NibbleIsRight, NibbleExtracted
<1> QED
  BY <1>1, HintedInvariantHolds, PTL

(* Whatever bytes the hint writes, a word that is returned has the bytes   *)
(* of the argument in reverse order, for every base and every length whose *)
(* words a felt holds.                                                     *)
THEOREM WordsAreReversed == HintedSpec => []WordReversed
<1>1. HintedInv => WordReversed
  BY WordInvCorrect DEF HintedInv
<1> QED
  BY <1>1, HintedInvariantHolds, PTL

(* Whatever number of zero bytes the hint writes, the zero nibbles that    *)
(* are returned are those in front of the key, without the nibble cut.     *)
THEOREM ZeroesAreCounted == HintedSpec => []LeadingZeroesCounted
<1>1. HintedInv => LeadingZeroesCounted
  BY ZeroesInvCorrect DEF HintedInv
<1> QED
  BY <1>1, HintedInvariantHolds, PTL

(* Whatever number of zero bytes the hint writes, a number that is         *)
(* returned has the bytes of the argument in reverse order, and as many,   *)
(* for halves of every length, unless the top half is as long after its    *)
(* reversal though it ends with zero bytes.                                *)
THEOREM NumbersAreReversed == HintedSpec => []ReversedWithoutPadding
<1>1. HintedInv => ReversedWithoutPadding
  BY NoPaddingInvCorrect DEF HintedInv
<1> QED
  BY <1>1, HintedInvariantHolds, PTL

(* Whatever the hints write and whatever difficulty and number a header    *)
(* has, of up to seven bytes each: the parent hash and the state root that *)
(* are returned are the fields, and so is the block number unless a hint   *)
(* that is not a shipped one denies that a byte is a number of its own.    *)
THEOREM HeaderFieldsAreThose == HintedSpec => []HeaderFieldsExtracted
<1>1. HintedInv => HeaderFieldsExtracted
  BY DEF HintedInv, HeaderInv
<1> QED
  BY <1>1, HintedInvariantHolds, PTL

-----------------------------------------------------------------------------
(* The runner.                                                             *)

StepNames == {"parse", "params", "execute", "print"} \cup Artifacts \cup {"end"}

(* The order of the steps.                                                 *)
LEMMA StepOrder ==
  /\ StepAfter("parse") = "params"    /\ StepAfter("params") = "execute"
  /\ StepAfter("execute") = "print"   /\ StepAfter("print") = "trace"
  /\ StepAfter("trace") = "memory"    /\ StepAfter("memory") = "public"
  /\ StepAfter("public") = "private"  /\ StepAfter("private") = "pie"
  /\ StepAfter("pie") = "end"
<1> DEFINE Index(step) == CHOOSE i \in DOMAIN Steps : Steps[i] = step
<1>1. /\ DOMAIN Steps = 1..10
      /\ Steps[1] = "parse" /\ Steps[2] = "params" /\ Steps[3] = "execute"
      /\ Steps[4] = "print" /\ Steps[5] = "trace" /\ Steps[6] = "memory"
      /\ Steps[7] = "public" /\ Steps[8] = "private" /\ Steps[9] = "pie"
      /\ Steps[10] = "end"
  BY DEF Steps
<1>2. ASSUME NEW i \in 1..10, NEW j \in 1..10, Steps[i] = Steps[j]
      PROVE  i = j
  BY <1>1, <1>2
<1>3. ASSUME NEW i \in 1..10
      PROVE  Index(Steps[i]) = i
  <2>1. Index(Steps[i]) \in DOMAIN Steps /\ Steps[Index(Steps[i])] = Steps[i]
    BY <1>1
  <2> QED
    BY <1>1, <1>2, <2>1
<1>4. ASSUME NEW i \in 1..9
      PROVE  StepAfter(Steps[i]) = Steps[i + 1]
  <2>1. StepAfter(Steps[i]) = Steps[Index(Steps[i]) + 1]
    BY DEF StepAfter
  <2> HIDE DEF Index
  <2> QED
    BY <1>3, <2>1
<1> HIDE DEF Index
<1>5. /\ StepAfter(Steps[1]) = Steps[2] /\ StepAfter(Steps[2]) = Steps[3]
      /\ StepAfter(Steps[3]) = Steps[4] /\ StepAfter(Steps[4]) = Steps[5]
      /\ StepAfter(Steps[5]) = Steps[6] /\ StepAfter(Steps[6]) = Steps[7]
      /\ StepAfter(Steps[7]) = Steps[8] /\ StepAfter(Steps[8]) = Steps[9]
      /\ StepAfter(Steps[9]) = Steps[10]
  BY <1>4
<1> QED
  BY <1>1, <1>5

(* The files that come before a step.                                      *)
LEMMA FilesBefore ==
  ASSUME NEW artifact \in Artifacts
  PROVE  /\ \A step \in {"parse", "params", "execute", "print", "trace"} :
              ~Before(artifact, step)
         /\ Before(artifact, "memory") <=> artifact = "trace"
         /\ Before(artifact, "public") <=> artifact \in {"trace", "memory"}
         /\ Before(artifact, "private") <=> artifact \in {"trace", "memory", "public"}
         /\ Before(artifact, "pie") <=> artifact # "pie"
         /\ Before(artifact, "end")
  BY DEF Before, Steps, Artifacts

-----------------------------------------------------------------------------
Contents ==
  FromBefore \cup
    {Written(artifact, whole) : artifact \in Artifacts, whole \in BOOLEAN}

RunnerTypes ==
  /\ args \in Options
  /\ pc \in StepNames
  /\ directory \in [Paths -> Contents]
  /\ pc # "end" => run_result = "running"

(* What the steps before this one have settled: the command line is in     *)
(* order, and the machine keeps what the configuration asks for.           *)
Settled ==
  /\ pc \notin {"parse", "end"} \/ run_result = "Ok" => Accepted
  /\ pc \in {"print"} \cup Artifacts =>
       runner = [trace |-> TraceEnabled, memory |-> RelocateMem]

(* A file is only open at its step.                                        *)
OpenAtItsStep == file # "closed" => pc \in Artifacts /\ Wanted(pc)

(* Nothing is written up to the trace.                                     *)
CleanStart ==
  pc \in {"parse", "params", "execute", "print"} =>
    \A path \in Paths : directory[path] \in FromBefore

(* The files whose step is over without an error.                          *)
Passed(artifact) == Before(artifact, pc) /\ (pc = "end" => run_result = "Ok")

PassedAreWhole ==
  \A artifact \in Artifacts :
    Passed(artifact) /\ Given(artifact) /\ NotOverwritten(artifact) =>
      WholeHere(artifact)

PrivateIsLate ==
  Given("private") /\ InDirectory("private") => pc \in {"private", "pie", "end"}

(* Only a path that is given to the run loses a file of an earlier one.    *)
EarlierNamed ==
  \A path \in Paths, named \in SUBSET Paths :
    directory[path] = EarlierPrivate(named) =>
      \A other \in named :
        \/ directory[other] = Earlier
        \/ \E artifact \in Artifacts : Given(artifact) /\ PathOf(artifact) = other

RunnerInv ==
  /\ RunnerTypes /\ Settled /\ OpenAtItsStep /\ CleanStart
  /\ PassedAreWhole /\ PrivateIsLate
  /\ FailedProgramWritesNothing
  /\ OwnPrivateInput /\ EarlierNamed
  /\ AcceptedArgsSuffice

-----------------------------------------------------------------------------
LEMMA WrittenInjective ==
  ASSUME NEW one, NEW two, NEW v, NEW w
  PROVE  /\ Written(one, v) = Written(two, w) <=> one = two /\ v = w
         /\ Written(one, v) \notin FromBefore
         /\ \A named : Written(one, v) # EarlierPrivate(named)
<1>1. /\ Written(one, v).artifact = one /\ Written(two, w).artifact = two
      /\ Written(one, v).whole = v /\ Written(two, w).whole = w
      /\ Written(one, v).of = "this run"
  BY DEF Written
<1>2. /\ Absent.of = "nothing" /\ Earlier.of = "earlier run"
      /\ \A named : EarlierPrivate(named).of = "earlier run"
  BY DEF Absent, Earlier, EarlierPrivate
<1>3. \A content \in FromBefore :
        content \in {Absent, Earlier} \/ \E named : content = EarlierPrivate(named)
  BY DEF FromBefore
<1>4. \A content \in FromBefore : content.of # "this run"
  BY <1>2, <1>3
<1> QED
  BY <1>1, <1>2, <1>4

LEMMA GivenPath ==
  ASSUME args \in Options, NEW artifact \in Artifacts, Given(artifact)
  PROVE  PathOf(artifact) \in Paths
<1>1. args.out \in [Artifacts -> Paths \cup {NoPath}]
  BY DEF Options
<1> QED
  BY <1>1 DEF Given, PathOf

(* What one write changes.                                                 *)
LEMMA PutEffect ==
  ASSUME RunnerTypes, UNCHANGED args, NEW written \in Artifacts, Given(written),
         NEW whole \in BOOLEAN, Put(written, whole)
  PROVE  /\ directory' \in [Paths -> Contents]
         /\ whole => WholeHere(written)'
         /\ \A other \in Artifacts :
              /\ Given(other) /\ PathOf(other) # PathOf(written) /\ WholeHere(other)
                   => WholeHere(other)'
              /\ Given(other) /\ other # written /\ InDirectory(other)'
                   => InDirectory(other) /\ PathOf(other) # PathOf(written)
         /\ EarlierNamed => EarlierNamed'
<1>1. /\ args \in Options /\ directory \in [Paths -> Contents]
      /\ PathOf(written) \in Paths
  BY GivenPath DEF RunnerTypes
<1>2. directory' = [directory EXCEPT ![PathOf(written)] = Written(written, whole)]
  BY DEF Put
<1>3. Written(written, whole) \in Contents
  BY DEF Contents
<1>4. \A artifact : PathOf(artifact)' = PathOf(artifact)
  BY DEF PathOf
<1>5. directory'[PathOf(written)] = Written(written, whole)
  BY <1>1, <1>2
<1>6. directory' \in [Paths -> Contents]
  BY <1>1, <1>2, <1>3
<1>7. whole => WholeHere(written)'
  BY <1>4, <1>5 DEF WholeHere
<1>8. ASSUME NEW other \in Artifacts, Given(other)
      PROVE  /\ PathOf(other) # PathOf(written) /\ WholeHere(other)
                  => WholeHere(other)'
             /\ other # written /\ InDirectory(other)'
                  => InDirectory(other) /\ PathOf(other) # PathOf(written)
  <2>1. PathOf(other) \in Paths
    BY <1>1, <1>8, GivenPath
  <2>2. PathOf(other) # PathOf(written) =>
          directory'[PathOf(other)] = directory[PathOf(other)]
    BY <1>1, <1>2, <2>1
  <2>3. PathOf(other) # PathOf(written) /\ WholeHere(other) => WholeHere(other)'
    BY <1>4, <2>2 DEF WholeHere
  <2>4. ASSUME other # written, InDirectory(other)'
        PROVE  InDirectory(other) /\ PathOf(other) # PathOf(written)
    <3>1. PICK here \in BOOLEAN : directory'[PathOf(other)] = Written(other, here)
      BY <1>4, <2>4 DEF InDirectory
    <3>2. PathOf(other) # PathOf(written)
      BY <1>5, <2>4, <3>1, WrittenInjective
    <3> QED
      BY <2>2, <3>1, <3>2 DEF InDirectory
  <2> QED
    BY <2>3, <2>4
<1>9. ASSUME EarlierNamed PROVE EarlierNamed'
  <2> SUFFICES ASSUME NEW path \in Paths, NEW named \in SUBSET Paths,
                      directory'[path] = EarlierPrivate(named), NEW other \in named
               PROVE  \/ directory'[other] = Earlier
                      \/ \E artifact \in Artifacts :
                           Given(artifact)' /\ PathOf(artifact)' = other
    BY DEF EarlierNamed
  <2>1. Given(written)' /\ PathOf(written)' = PathOf(written)
    BY DEF Given, PathOf
  <2>2. path # PathOf(written)
    BY <1>5, WrittenInjective
  <2>3. directory[path] = EarlierPrivate(named)
    BY <1>1, <1>2, <2>2
  <2>4. CASE directory[other] = Earlier
    <3>1. other = PathOf(written) \/ directory'[other] = Earlier
      BY <1>1, <1>2, <2>4
    <3> QED
      BY <2>1, <3>1
  <2>5. ASSUME NEW artifact \in Artifacts, Given(artifact), PathOf(artifact) = other
        PROVE  Given(artifact)' /\ PathOf(artifact)' = other
    BY <2>5 DEF Given, PathOf
  <2> QED
    BY <1>9, <2>3, <2>4, <2>5 DEF EarlierNamed
<1> QED
  BY <1>6, <1>7, <1>8, <1>9

(* A step that goes on leaves one more file behind, its own if it has one. *)
LEMMA GoOnEffect ==
  ASSUME RunnerTypes, pc # "end", GoOn
  PROVE  /\ pc' = StepAfter(pc) /\ pc' \in StepNames
         /\ pc' # "end" => run_result' = "running"
         /\ pc' = "end" => run_result' = "Ok" /\ pc = "pie"
         /\ \A artifact \in Artifacts :
              Passed(artifact)' => Passed(artifact) \/ artifact = pc
<1>1. pc' = StepAfter(pc) /\ pc \in StepNames \ {"end"} /\ run_result = "running"
  BY DEF GoOn, RunnerTypes
<1>2. pc' \in StepNames /\ (pc' = "end" => pc = "pie")
  BY <1>1, StepOrder DEF StepNames, Artifacts
<1>3. run_result' = IF pc' = "end" THEN "Ok" ELSE run_result
  BY DEF GoOn
<1>4. ASSUME NEW artifact \in Artifacts, Before(artifact, pc')
      PROVE  Before(artifact, pc) \/ artifact = pc
  BY <1>1, <1>4, StepOrder, FilesBefore DEF StepNames, Artifacts
<1> QED
  BY <1>1, <1>2, <1>3, <1>4 DEF Passed

LEMMA FailEffect ==
  ASSUME NEW error, error # "Ok", Fail(error)
  PROVE  /\ pc' = "end" /\ run_result' = error
         /\ \A artifact : ~Passed(artifact)'
  BY DEF Fail, Passed

(* What does not depend on the directory moves with the command line.      *)
LEMMA ArgsFixed ==
  ASSUME UNCHANGED args
  PROVE  /\ Accepted' = Accepted /\ TraceEnabled' = TraceEnabled
         /\ RelocateMem' = RelocateMem
         /\ \A artifact : /\ Given(artifact)' = Given(artifact)
                          /\ PathOf(artifact)' = PathOf(artifact)
                          /\ NotOverwritten(artifact)' = NotOverwritten(artifact)
<1>1. \A artifact : /\ Given(artifact)' = Given(artifact)
                    /\ PathOf(artifact)' = PathOf(artifact)
  BY DEF Given, PathOf
<1> QED
  BY <1>1 DEF Accepted, TraceEnabled, RelocateMem, NotOverwritten, Given, PathOf, Before

-----------------------------------------------------------------------------
LEMMA RunnerInvInit ==
  ASSUME RunnerInit
  PROVE  RunnerInv
<1>1. /\ args \in Options /\ pc = "parse" /\ run_result = "running" /\ file = "closed"
      /\ directory \in [Paths -> FromBefore] /\ EarlierNamed
  BY RequestsAssumption DEF RunnerInit, EarlierNamed
<1>2. RunnerTypes /\ Settled /\ CleanStart
  BY <1>1 DEF RunnerTypes, Settled, CleanStart, StepNames, Artifacts, Contents
<1>3. PassedAreWhole
  BY <1>1, FilesBefore DEF PassedAreWhole, Passed
<1>4. Given("private") => ~InDirectory("private")
  <2> SUFFICES ASSUME Given("private"), InDirectory("private") PROVE FALSE
    OBVIOUS
  <2>1. PathOf("private") \in Paths
    BY <1>1, GivenPath DEF Artifacts
  <2> QED
    BY <1>1, <2>1, WrittenInjective DEF InDirectory
<1>5. FailedProgramWritesNothing /\ AcceptedArgsSuffice /\ OpenAtItsStep
  BY <1>1 DEF FailedProgramWritesNothing, AcceptedArgsSuffice, OpenAtItsStep
<1> QED
  BY <1>1, <1>2, <1>3, <1>4, <1>5
     DEF RunnerInv, PrivateIsLate, OwnPrivateInput

(* A step that writes nothing: the run goes on, or it ends with an error.  *)
LEMMA QuietStep ==
  ASSUME RunnerInv, pc # "end", UNCHANGED <<args, directory>>,
         Settled', FailedProgramWritesNothing',
         \/ GoOn /\ (pc \in Artifacts => ~Given(pc))
         \/ \E error \in {"Cli", "IO", "Runner", "VirtualMachine", "PublicInput",
                          "EncodeTrace", "killed"} : Fail(error)
  PROVE  RunnerInv'
<1>1. UNCHANGED args /\ UNCHANGED directory
  OBVIOUS
<1>2. \A artifact : /\ WholeHere(artifact)' = WholeHere(artifact)
                    /\ InDirectory(artifact)' = InDirectory(artifact)
  BY <1>1 DEF WholeHere, InDirectory, PathOf
<1>3. OwnPrivateInput' /\ EarlierNamed'
  BY <1>1, <1>2, ArgsFixed DEF RunnerInv, OwnPrivateInput, EarlierNamed
<1>0. OpenAtItsStep'
  BY DEF GoOn, Fail, OpenAtItsStep
<1>4. CASE GoOn /\ (pc \in Artifacts => ~Given(pc))
  <2>1. RunnerTypes' /\ AcceptedArgsSuffice'
    BY <1>1, <1>4, GoOnEffect DEF RunnerInv, RunnerTypes, AcceptedArgsSuffice
  <2>2. PassedAreWhole'
    BY <1>1, <1>2, <1>4, GoOnEffect, ArgsFixed DEF RunnerInv, PassedAreWhole
  <2>3. CleanStart' /\ PrivateIsLate'
    BY <1>1, <1>2, <1>4, ArgsFixed, StepOrder, GoOnEffect
       DEF RunnerInv, RunnerTypes, CleanStart, PrivateIsLate, StepNames, Artifacts
  <2> QED
    BY <1>0, <1>3, <2>1, <2>2, <2>3 DEF RunnerInv
<1>5. CASE \E error \in {"Cli", "IO", "Runner", "VirtualMachine", "PublicInput",
                         "EncodeTrace", "killed"} : Fail(error)
  <2>1. pc' = "end" /\ run_result' # "Ok" /\ run_result' # "Trace"
    BY <1>5 DEF Fail
  <2>2. RunnerTypes' /\ AcceptedArgsSuffice' /\ CleanStart' /\ PrivateIsLate'
    BY <1>1, <2>1 DEF RunnerInv, RunnerTypes, AcceptedArgsSuffice, CleanStart,
                      PrivateIsLate, StepNames
  <2>3. PassedAreWhole'
    BY <2>1 DEF PassedAreWhole, Passed
  <2> QED
    BY <1>0, <1>3, <2>2, <2>3 DEF RunnerInv
<1> QED
  BY <1>4, <1>5

(* A step that writes the file it is at, all of it if the run goes on.     *)
LEMMA WritingStep ==
  ASSUME RunnerInv, NEW written \in Artifacts, pc = written, Wanted(written),
         UNCHANGED <<args, runner>>, NEW whole \in BOOLEAN, Put(written, whole),
         \/ GoOn /\ whole
         \/ Fail("IO")
         \/ UNCHANGED <<pc, run_result>>
  PROVE  RunnerInv'
<1>0. OpenAtItsStep'
  BY DEF GoOn, Fail, OpenAtItsStep, Wanted, Given
<1>1. /\ UNCHANGED args /\ UNCHANGED runner /\ Given(written)
      /\ RunnerTypes /\ Settled /\ PassedAreWhole /\ PrivateIsLate
      /\ OwnPrivateInput /\ EarlierNamed /\ AcceptedArgsSuffice
      /\ FailedProgramWritesNothing
      /\ pc # "end" /\ run_result = "running" /\ Accepted
      /\ pc \notin {"parse", "params", "execute", "print", "end"}
  BY DEF Wanted, RunnerInv, RunnerTypes, Settled, Artifacts
<1>2. /\ directory' \in [Paths -> Contents]
      /\ whole => WholeHere(written)'
      /\ \A other \in Artifacts :
           /\ Given(other) /\ PathOf(other) # PathOf(written) /\ WholeHere(other)
                => WholeHere(other)'
           /\ Given(other) /\ other # written /\ InDirectory(other)'
                => InDirectory(other) /\ PathOf(other) # PathOf(written)
      /\ EarlierNamed'
  BY <1>1, PutEffect
<1>3. /\ pc' \in StepNames /\ (pc' # "end" => run_result' = "running")
      /\ pc' \notin {"parse", "params", "execute", "print"}
      /\ run_result' \in {"running", "Ok", "IO"}
      /\ run_result' = "Ok" => pc' = "end"
  BY <1>1, GoOnEffect, StepOrder DEF Fail, RunnerTypes, Artifacts, StepNames
<1>4. RunnerTypes' /\ CleanStart' /\ AcceptedArgsSuffice' /\ Settled'
  BY <1>1, <1>2, <1>3, ArgsFixed
     DEF RunnerTypes, CleanStart, AcceptedArgsSuffice, Settled
<1>5. FailedProgramWritesNothing'
  BY <1>3 DEF FailedProgramWritesNothing
<1>6. \A artifact \in Artifacts :
        Passed(artifact)' => Passed(artifact) \/ (artifact = written /\ whole)
  BY <1>1, GoOnEffect, FailEffect DEF Passed, Before
<1>7. PassedAreWhole'
  <2> SUFFICES ASSUME NEW artifact \in Artifacts, Passed(artifact)',
                      Given(artifact), NotOverwritten(artifact)
               PROVE  WholeHere(artifact)'
    BY <1>1, ArgsFixed DEF PassedAreWhole
  <2>1. CASE artifact = written /\ whole
    BY <1>2, <2>1
  <2>2. CASE Passed(artifact)
    <3>1. WholeHere(artifact)
      BY <1>1, <2>2 DEF PassedAreWhole
    <3>2. PathOf(written) # PathOf(artifact)
      BY <2>2 DEF Passed, NotOverwritten
    <3> QED
      BY <1>2, <3>1, <3>2
  <2> QED
    BY <1>6, <2>1, <2>2
<1>8. PrivateIsLate'
  <2> SUFFICES ASSUME Given("private"), InDirectory("private")'
               PROVE  pc' \in {"private", "pie", "end"}
    BY <1>1, ArgsFixed DEF PrivateIsLate
  <2>1. pc = "private" \/ InDirectory("private")
    BY <1>2 DEF Artifacts
  <2>2. pc \in {"private", "pie"}
    BY <1>1, <2>1 DEF PrivateIsLate
  <2> QED
    BY <1>1, <2>2, GoOnEffect, StepOrder DEF Fail
<1>9. OwnPrivateInput'
  <2> SUFFICES ASSUME Given("private"), InDirectory("private")',
                      NEW named \in {"trace", "memory"},
                      \A other \in Artifacts \ {named} : PathOf(other) # PathOf(named)
               PROVE  WholeHere(named)'
    BY <1>1, ArgsFixed DEF OwnPrivateInput
  <2>1. named \in Artifacts /\ named # "private" /\ Given(named)
    BY <1>1 DEF Accepted, Artifacts
  <2>2. pc = "private" \/ InDirectory("private")
    BY <1>2 DEF Artifacts
  <2>3. written \in {"private", "pie"}
    BY <1>1, <2>2 DEF PrivateIsLate
  <2>4. Passed(named)
    BY <1>1, <2>1, <2>3, FilesBefore DEF Passed
  <2>5. NotOverwritten(named)
    <3>1. ~Before(named, named)
      BY <2>1, FilesBefore
    <3> QED
      BY <3>1 DEF NotOverwritten
  <2>6. WholeHere(named)
    BY <1>1, <2>1, <2>4, <2>5 DEF PassedAreWhole
  <2>7. PathOf(named) # PathOf(written)
    BY <1>1, <2>3, <2>1
  <2> QED
    BY <1>2, <2>1, <2>6, <2>7
<1> QED
  BY <1>0, <1>2, <1>4, <1>5, <1>7, <1>8, <1>9 DEF RunnerInv

(* A step that changes nothing but the state of the open file.             *)
LEMMA BufferStep ==
  ASSUME RunnerInv, UNCHANGED <<args, pc, runner, directory, run_result>>,
         OpenAtItsStep'
  PROVE  RunnerInv'
<1>1. RunnerTypes' /\ Settled' /\ CleanStart' /\ AcceptedArgsSuffice'
  BY ArgsFixed
     DEF RunnerInv, RunnerTypes, Settled, CleanStart, AcceptedArgsSuffice
<1>2. PassedAreWhole' /\ FailedProgramWritesNothing'
  BY ArgsFixed
     DEF RunnerInv, PassedAreWhole, FailedProgramWritesNothing, Passed,
         WholeHere, PathOf
<1>3. PrivateIsLate' /\ OwnPrivateInput' /\ EarlierNamed'
  BY ArgsFixed
     DEF RunnerInv, PrivateIsLate, OwnPrivateInput, EarlierNamed, InDirectory,
         WholeHere, PathOf
<1> QED
  BY <1>1, <1>2, <1>3 DEF RunnerInv

-----------------------------------------------------------------------------
(* A file the accepted command line does not ask for is not given.         *)
LEMMA SkippedNotGiven ==
  ASSUME RunnerInv, pc \in Artifacts, ~Wanted(pc)
  PROVE  ~Given(pc)
<1>1. Accepted
  BY DEF RunnerInv, Settled, Artifacts
<1> QED
  BY <1>1 DEF Wanted, Accepted

(* The configuration has what the files need.                              *)
LEMMA SomethingToWrite ==
  ASSUME RunnerInv, pc \in Artifacts, Wanted(pc)
  PROVE  ~NothingToWrite /\ (pc = "memory" => runner.memory) = TRUE
<1>1. runner = [trace |-> TraceEnabled, memory |-> RelocateMem] /\ Given(pc)
  BY DEF RunnerInv, Settled, Wanted
<1> QED
  BY <1>1 DEF NothingToWrite, TraceEnabled, RelocateMem

LEMMA RunnerInvStep == RunnerInv /\ [RunnerNext]_runnerVars => RunnerInv'
<1> SUFFICES ASSUME RunnerInv, [RunnerNext]_runnerVars
             PROVE  RunnerInv'
  OBVIOUS
<1> USE DEF RunnerInv
<1>1. CASE ParseArgs
  <2>1. /\ pc = "parse" /\ UNCHANGED <<args, runner, directory>>
        /\ run_result = "running"
        /\ \A path \in Paths : directory[path] \in FromBefore
    BY <1>1 DEF ParseArgs, RunnerTypes, CleanStart
  <2>2. (Accepted /\ GoOn) \/ Fail("Cli")
    BY <1>1 DEF ParseArgs
  <2>3. FailedProgramWritesNothing'
    BY <2>1 DEF FailedProgramWritesNothing
  <2>4. Settled'
    BY <2>1, <2>2, StepOrder, ArgsFixed DEF Settled, GoOn, Fail, Artifacts
  <2> QED
    BY <2>1, <2>2, <2>3, <2>4, QuietStep DEF Artifacts
<1>2. CASE ReadLayoutParams
  <2>1. /\ pc = "params" /\ UNCHANGED <<args, runner, directory>>
        /\ run_result = "running" /\ Accepted
        /\ \A path \in Paths : directory[path] \in FromBefore
    BY <1>2 DEF ReadLayoutParams, RunnerTypes, CleanStart, Settled
  <2>2. GoOn \/ Fail("IO")
    BY <1>2 DEF ReadLayoutParams
  <2>3. FailedProgramWritesNothing'
    BY <2>1 DEF FailedProgramWritesNothing
  <2>4. Settled'
    BY <2>1, <2>2, StepOrder, ArgsFixed DEF Settled, GoOn, Fail, Artifacts
  <2> QED
    BY <2>1, <2>2, <2>3, <2>4, QuietStep DEF Artifacts
<1>3. CASE Execute
  <2>1. /\ pc = "execute" /\ UNCHANGED <<args, directory>>
        /\ run_result = "running" /\ Accepted /\ GoOn
        /\ \A path \in Paths : directory[path] \in FromBefore
    BY <1>3 DEF Execute, RunnerTypes, CleanStart, Settled
  <2>2. FailedProgramWritesNothing'
    BY <2>1 DEF FailedProgramWritesNothing
  <2>3. pc' = "print" /\ runner' = [trace |-> TraceEnabled, memory |-> RelocateMem]
    BY <1>3, <2>1, StepOrder DEF GoOn, Execute
  <2>4. Settled'
    BY <2>1, <2>3, ArgsFixed DEF Settled, Artifacts
  <2> QED
    BY <2>1, <2>2, <2>4, QuietStep DEF Artifacts
<1>4. CASE ExecutionFails
  <2>1. /\ pc = "execute" /\ UNCHANGED <<args, runner, directory>>
        /\ \E error \in {"IO", "Runner"} : Fail(error)
        /\ \A path \in Paths : directory[path] \in FromBefore
    BY <1>4 DEF ExecutionFails, CleanStart
  <2>2. FailedProgramWritesNothing'
    BY <2>1 DEF FailedProgramWritesNothing
  <2>3. Settled'
    BY <2>1 DEF Settled, Fail, Artifacts
  <2> QED
    BY <2>1, <2>2, <2>3, QuietStep
<1>5. CASE PrintOutput
  <2>1. /\ pc = "print" /\ UNCHANGED <<args, runner, directory>>
        /\ run_result = "running" /\ Accepted
        /\ runner = [trace |-> TraceEnabled, memory |-> RelocateMem]
        /\ \A path \in Paths : directory[path] \in FromBefore
    BY <1>5 DEF PrintOutput, RunnerTypes, CleanStart, Settled
  <2>2. GoOn \/ Fail("VirtualMachine")
    BY <1>5 DEF PrintOutput
  <2>3. FailedProgramWritesNothing'
    BY <2>1 DEF FailedProgramWritesNothing
  <2>4. Settled'
    BY <2>1, <2>2, ArgsFixed DEF Settled, Fail, Artifacts
  <2> QED
    BY <2>1, <2>2, <2>3, <2>4, QuietStep DEF Artifacts
<1>6. ASSUME pc \in Artifacts, UNCHANGED <<args, runner>>,
             \/ GoOn
             \/ UNCHANGED <<pc, run_result>>
             \/ \E error \in {"IO", "Runner", "PublicInput", "EncodeTrace", "killed"} :
                  Fail(error) /\ (error = "Runner" => Given("pie"))
      PROVE  Settled' /\ FailedProgramWritesNothing'
  <2>1. /\ Accepted /\ runner = [trace |-> TraceEnabled, memory |-> RelocateMem]
        /\ run_result = "running" /\ pc # "end"
        /\ pc \notin {"parse", "params", "execute", "print"}
    BY <1>6 DEF Settled, RunnerTypes, Artifacts
  <2>2. /\ pc' \notin {"parse", "params", "execute"}
        /\ run_result' # "Cli" /\ (run_result' = "Runner" => Given("pie"))
    BY <1>6, <2>1, StepOrder DEF GoOn, Fail, Artifacts
  <2> QED
    BY <1>6, <2>1, <2>2, ArgsFixed DEF Settled, FailedProgramWritesNothing
<1>7. CASE SkipFile
  <2>1. /\ pc \in Artifacts /\ UNCHANGED <<args, runner, directory>>
        /\ GoOn /\ ~Given(pc)
    BY <1>7, SkippedNotGiven DEF SkipFile
  <2> QED
    BY <1>6, <2>1, QuietStep DEF Artifacts
<1>8. CASE FailBeforeFile
  <2>1. /\ pc \in Artifacts /\ UNCHANGED <<args, runner, directory>>
        /\ Wanted(pc) /\ ~NothingToWrite
    BY <1>8, SomethingToWrite DEF FailBeforeFile
  <2>2. PICK error \in ErrorsBeforeFile : Fail(error)
    BY <1>8 DEF FailBeforeFile
  <2>3. /\ error \in {"IO", "Runner", "PublicInput"}
        /\ error = "Runner" => Given("pie")
    BY <2>1, <2>2 DEF ErrorsBeforeFile, Wanted
  <2> QED
    BY <1>6, <2>1, <2>2, <2>3, QuietStep DEF Artifacts
<1>9. CASE CreateFile
  <2>1. /\ pc \in Artifacts /\ Wanted(pc) /\ Put(pc, FALSE)
        /\ UNCHANGED <<args, runner>> /\ UNCHANGED <<pc, run_result>>
    BY <1>9 DEF CreateFile
  <2> QED
    BY <2>1, WritingStep
<1>10. CASE EncodeToBuffer
  <2>1. /\ pc \in Artifacts /\ UNCHANGED <<args, runner, directory>>
        /\ UNCHANGED <<pc, run_result>> \/ Fail("EncodeTrace")
        /\ Wanted(pc)
    BY <1>10 DEF EncodeToBuffer, Artifacts, OpenAtItsStep
  <2>2. CASE Fail("EncodeTrace")
    BY <1>6, <2>1, <2>2, QuietStep DEF Artifacts
  <2>3. CASE UNCHANGED <<pc, run_result>>
    <3>1. OpenAtItsStep'
      BY <2>1, <2>3 DEF OpenAtItsStep, Wanted, Given
    <3> QED
      BY <2>1, <2>3, <3>1, BufferStep
  <2> QED
    BY <2>1, <2>2, <2>3
<1>11. CASE Flush
  <2>1. pc \in Artifacts /\ Wanted(pc) /\ UNCHANGED <<args, runner>>
    BY <1>11 DEF Flush, OpenAtItsStep
  <2>2. CASE Put(pc, pc = "memory" => runner.memory) /\ GoOn
    <3>1. Put(pc, TRUE)
      BY <2>1, <2>2, SomethingToWrite
    <3> QED
      BY <2>1, <2>2, <3>1, WritingStep
  <2>3. CASE \E whole \in BOOLEAN : Put(pc, whole) /\ Fail("IO")
    BY <2>1, <2>3, WritingStep
  <2> QED
    BY <1>11, <2>2, <2>3 DEF Flush
<1>12. CASE WriteFile
  <2>1. pc \in Artifacts /\ Wanted(pc) /\ UNCHANGED <<args, runner>>
    BY <1>12 DEF WriteFile, OpenAtItsStep
  <2>2. CASE Put(pc, TRUE) /\ GoOn
    BY <2>1, <2>2, WritingStep
  <2>3. CASE UNCHANGED directory /\ Fail("IO")
    BY <1>6, <2>1, <2>3, QuietStep DEF Artifacts
  <2> QED
    BY <1>12, <2>2, <2>3 DEF WriteFile
<1>13. CASE Kill
  <2>1. pc # "end" /\ Fail("killed") /\ UNCHANGED <<args, runner, directory>>
    BY <1>13 DEF Kill
  <2>2. CASE pc \in Artifacts
    BY <1>6, <2>1, <2>2, QuietStep
  <2>3. CASE pc \notin Artifacts
    <3>1. \A path \in Paths : directory[path] \in FromBefore
      BY <2>1, <2>3 DEF RunnerTypes, CleanStart, StepNames
    <3>2. Settled' /\ FailedProgramWritesNothing'
      BY <2>1, <3>1 DEF Settled, FailedProgramWritesNothing, Fail, Artifacts
    <3> QED
      BY <2>1, <3>2, QuietStep
  <2> QED
    BY <2>2, <2>3
<1>14. CASE UNCHANGED runnerVars
  BY <1>14, BufferStep DEF runnerVars, OpenAtItsStep, Wanted, Given
<1> QED
  BY <1>1, <1>2, <1>3, <1>4, <1>5, <1>7, <1>8, <1>9, <1>10, <1>11, <1>12,
     <1>13, <1>14 DEF RunnerNext

-----------------------------------------------------------------------------
LEMMA RunnerInvAlways == RunnerSpec => []RunnerInv
<1>1. RunnerInit => RunnerInv
  BY RunnerInvInit
<1>2. RunnerInv /\ [RunnerNext]_runnerVars => RunnerInv'
  BY RunnerInvStep
<1> QED
  BY <1>1, <1>2, PTL DEF RunnerSpec

(* run() only returns Ok when every file asked for is whole, but for those *)
(* whose path a later file shares.                                         *)
THEOREM OkMeansComplete == RunnerSpec => []SuccessIsComplete
<1>1. RunnerInv => SuccessIsComplete
  <2> SUFFICES ASSUME RunnerInv, run_result = "Ok"
               PROVE  \A artifact \in Artifacts :
                        Given(artifact) /\ NotOverwritten(artifact) => WholeHere(artifact)
    BY DEF SuccessIsComplete
  <2>1. pc = "end" /\ PassedAreWhole
    BY DEF RunnerInv, RunnerTypes
  <2> QED
    BY <2>1, FilesBefore DEF PassedAreWhole, Passed
<1> QED
  BY <1>1, RunnerInvAlways, PTL

(* A refused command line and a failing program leave the files of earlier *)
(* runs as they were.                                                      *)
THEOREM FailureKeepsFiles == RunnerSpec => []FailedProgramWritesNothing
<1>1. RunnerInv => FailedProgramWritesNothing
  BY DEF RunnerInv
<1> QED
  BY <1>1, RunnerInvAlways, PTL

(* Also after an error or a kill, the private input of the run comes with  *)
(* the trace and the memory it names, whole and of the same run.  One from *)
(* before the run keeps its files unless the run is given one of their     *)
(* paths, and is gone from the path of this run's own when run() returns Ok.*)
THEOREM PrivateInputIsLast == RunnerSpec => []PrivateInputNamesWholeFiles
<1>1. ASSUME RunnerInv
      PROVE  PrivateInputNamesWholeFiles
  <2>1. ASSUME NEW path \in Paths, NEW named \in SUBSET Paths,
               directory[path] = EarlierPrivate(named),
               run_result = "Ok", PathOf("private") = path
        PROVE  FALSE
    <3>1. pc = "end" /\ Accepted /\ PassedAreWhole
      BY <1>1, <2>1 DEF RunnerInv, RunnerTypes, Settled
    <3>2. Given("private")
      BY <2>1, PathsAssumption DEF Given, PathOf
    <3>3. NotOverwritten("private")
      <4>1. PathOf("pie") # PathOf("private")
        BY <2>1, <3>1, <3>2, PathsAssumption DEF Accepted, Given, PathOf
      <4>2. ASSUME NEW other \in Artifacts, Before("private", other)
            PROVE  other = "pie"
        BY <4>2, FilesBefore DEF Artifacts
      <4> QED
        BY <4>1, <4>2 DEF NotOverwritten
    <3>4. Passed("private")
      BY <2>1, <3>1, FilesBefore DEF Passed, Artifacts
    <3>5. WholeHere("private")
      BY <3>1, <3>2, <3>3, <3>4 DEF PassedAreWhole, Artifacts
    <3>6. Written("private", TRUE) # EarlierPrivate(named)
      BY WrittenInjective
    <3> QED
      BY <2>1, <3>5, <3>6 DEF WholeHere
  <2> QED
    BY <1>1, <2>1
       DEF RunnerInv, PrivateInputNamesWholeFiles, EarlierPrivateInputs, EarlierNamed
<1> QED
  BY <1>1, RunnerInvAlways, PTL

(* The options clap accepts never lead to the missing trace error.         *)
THEOREM OptionsSuffice == RunnerSpec => []AcceptedArgsSuffice
<1>1. RunnerInv => AcceptedArgsSuffice
  BY DEF RunnerInv
<1> QED
  BY <1>1, RunnerInvAlways, PTL
=============================================================================
