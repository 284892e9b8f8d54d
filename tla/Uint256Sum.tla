----------------------------- MODULE Uint256Sum -----------------------------
(***************************************************************************)
(* uint256_add and uint256_sub of lib/utils.cairo: two words are added or  *)
(* subtracted half by half.  The carries of the halves come from a hint,   *)
(* one written in Python in the program and one in Rust in the runner that *)
(* replaces it; the range checks on the halves of the result decide which  *)
(* carries let the run continue.                                           *)
(***************************************************************************)
EXTENDS Integers

CONSTANT Shift  \* a half is below it: 2^128

ASSUME ShiftAssumption == Shift \in Nat \ {0}

VARIABLES
  operation,  \* "add" or "sub"
  a, b,       \* the arguments
  carries,    \* carry_low and carry_high, NoCarries before the hint
  result      \* Running, RangeCheckFailed or what is returned

vars == <<operation, a, b, carries, result>>

Half == 0..(Shift - 1)
Uint256 == [low : Half, high : Half]

NoCarries == [low |-> -1, high |-> -1]
Carries == [low : 0..1, high : 0..1]

Running == [status |-> "running"]
RangeCheckFailed == [status |-> "failed"]
Returned(res, carry) == [status |-> "returned", res |-> res, carry |-> carry]

-----------------------------------------------------------------------------
(* Mutant: the one of the two's complement is forgotten.                   *)
ComplementOf(x) == [low |-> Shift - 1 - x.low, high |-> Shift - 1 - x.high]

(* -x in two's complement; its low half may be Shift itself.               *)
Minus(x) == [low |-> Shift - 1 - x.low + 1, high |-> Shift - 1 - x.high]

(* What is added to a.                                                     *)
Addend == IF operation = "add" THEN b ELSE Minus(b)

(* The Python hint.                                                        *)
PyCarries ==
  LET carry_low == IF a.low + Addend.low >= Shift THEN 1 ELSE 0
  IN  [low  |-> carry_low,
       high |-> IF a.high + Addend.high + carry_low >= Shift THEN 1 ELSE 0]

(* hint_carry, the Rust hint, on the inputs it names.                      *)
RsCarries ==
  [low  |-> IF a.low + Addend.low >= Shift THEN 1 ELSE 0,
   high |-> IF a.high + Addend.high >= Shift THEN 1 ELSE 0]

(* Mutant: the carry of the low half is lost.                              *)
SumWithoutCarry(c) ==
  [low  |-> a.low + Addend.low - c.low * Shift,
   high |-> a.high + Addend.high - c.high * Shift]

(* The halves of the sum in the branch the carries select.                 *)
HalvesSum(c) ==
  [low  |-> a.low + Addend.low - c.low * Shift,
   high |-> a.high + Addend.high + c.low - c.high * Shift]

-----------------------------------------------------------------------------
Init ==
  /\ operation \in {"add", "sub"}
  /\ a \in Uint256
  /\ b \in Uint256
  /\ carries = NoCarries
  /\ result = Running

(* Any carries: what a hint writes is not part of what is verified.        *)
WriteCarries ==
  /\ carries = NoCarries
  /\ carries' \in Carries
  /\ UNCHANGED <<operation, a, b, result>>

ReturnSum ==
  /\ carries # NoCarries
  /\ result = Running
  /\ HalvesSum(carries) \in Uint256
  /\ result' = Returned(HalvesSum(carries), carries.high)
  /\ UNCHANGED <<operation, a, b, carries>>

FailRangeCheck ==
  /\ carries # NoCarries
  /\ result = Running
  /\ HalvesSum(carries) \notin Uint256
  /\ result' = RangeCheckFailed
  /\ UNCHANGED <<operation, a, b, carries>>

Next == WriteCarries \/ ReturnSum \/ FailRangeCheck

Spec == Init /\ [][Next]_vars

-----------------------------------------------------------------------------
Value(x) == x.low + Shift * x.high

(* Whatever carries the hint writes: what uint256_add returns is the sum,  *)
(* with its carry, and what uint256_sub returns is the difference modulo   *)
(* Shift * Shift (its carry, which is not returned, says that it is not    *)
(* negative).                                                              *)
SumCorrect ==
  result.status = "returned" =>
    LET exact == Value(result.res) + Shift * Shift * result.carry
    IN  IF operation = "add" THEN exact = Value(a) + Value(b)
        ELSE exact = Value(a) - Value(b) + Shift * Shift

(* The Python hint never makes a range check fail.                         *)
PyHintAccepted == carries = PyCarries => result # RangeCheckFailed

(* Nor does the hint the Rust runner executes for the same lines of the    *)
(* program, which are quoted in front of it (carry.rs:9): they add the     *)
(* carry of the low half to the high one.                                  *)
RsHintAccepted == carries = RsCarries => result # RangeCheckFailed

(* The inductive invariant: what is returned passed the range checks.      *)
IInv ==
  /\ operation \in {"add", "sub"}
  /\ a \in Uint256 /\ b \in Uint256
  /\ carries \in Carries \cup {NoCarries}
  /\ \/ result = Running
     \/ /\ carries # NoCarries
        /\ IF HalvesSum(carries) \in Uint256
             THEN result = Returned(HalvesSum(carries), carries.high)
             ELSE result = RangeCheckFailed
=============================================================================
