----------------------------- MODULE HintedCall -----------------------------
(***************************************************************************)
(* One call of a Cairo function that gets values from hints.  A hint only  *)
(* writes memory: Python and Rust forms of it are shipped, and a prover    *)
(* may have written anything else.  The function goes on, is refused by a  *)
(* range check or an assertion, or answers.                                *)
(*                                                                         *)
(* Numbers are scaled: a nibble has NibbleBase values, a word WordBytes    *)
(* bytes, each half of a Uint256 HalfBytes bytes.  Field elements are      *)
(* below Prime and range checks accept what is below RcBound.              *)
(***************************************************************************)
EXTENDS Integers, SequencesExt

CONSTANTS
  NibbleBase,  \* 16 in the code
  HalfBytes,   \* 16
  WordBytes,   \* 8
  Prime,       \* the prime of the field
  RcBound      \* 2^128

ASSUME ScaleAssumption ==
  /\ NibbleBase \in Nat \ {0, 1}
  /\ HalfBytes \in Nat \ {0}
  /\ WordBytes \in Nat \ {0}

(* A felt holds two range checked values, and not their product.           *)
ASSUME FieldAssumption ==
  /\ Prime \in Nat /\ RcBound \in Nat \ {0}
  /\ 2 * RcBound <= Prime /\ Prime <= RcBound * RcBound

VARIABLES
  call,    \* the function, its arguments and whose hints run
  at,      \* the point of the function that has been reached
  ids,     \* what the hints have written, by name
  outcome  \* InProgress, Refused or an answer

callVars == <<call, at, ids, outcome>>

Felt == 0..(Prime - 1)
RangeChecked == 0..(RcBound - 1)
ByteBase == NibbleBase * NibbleBase

(* Whose hints run: the two shipped forms, or any values.                  *)
Providers == {"python", "rust", "any"}
Shipped == call.hints # "any"

InProgress == [status |-> "in progress"]
Refused == [status |-> "refused"]
Answer(v) == [status |-> "answered", value |-> v]
Answered == outcome.status = "answered"

-----------------------------------------------------------------------------
At(fns, point) == call.fn \in fns /\ at = point /\ outcome = InProgress

(* What a hint may leave: its value, or any of the possible ones.          *)
HintValues(value, possible) == IF Shipped THEN {value} ELSE possible

GoTo(point) == at' = point /\ UNCHANGED <<call, outcome>>

(* The function answers v or, when a check on the way fails, the run stops.*)
Return(v) == outcome' = Answer(v) /\ UNCHANGED <<call, at, ids>>
Refuse == outcome' = Refused /\ UNCHANGED <<call, at, ids>>

-----------------------------------------------------------------------------
(* The powers of a base, from that of 0; ^ has no theory in the provers.   *)
Power(base) == LET p[n \in Nat] == IF n = 0 THEN 1 ELSE base * p[n - 1] IN p

(* The digits of x, the least significant one first.                       *)
Digits(x, base, n) == [i \in 1..n |-> (x \div Power(base)[i - 1]) % base]

(* The number of digits of x without leading zeroes.                       *)
DigitCount(x, base) ==
  CHOOSE n \in 0..x : x < Power(base)[n] /\ (n = 0 \/ Power(base)[n - 1] <= x)

(* The number the digits make, from the sums of the lowest ones.           *)
DigitSums(digits, base) ==
  LET sum[n \in 0..Len(digits)] ==
        IF n = 0 THEN 0 ELSE sum[n - 1] + digits[n] * Power(base)[n - 1]
  IN  sum

ValueOf(digits, base) == DigitSums(digits, base)[Len(digits)]
=============================================================================
