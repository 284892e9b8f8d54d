------------------------------- MODULE Divmod -------------------------------
(***************************************************************************)
(* felt_divmod and its forms with a fixed divisor (lib/utils.cairo): a     *)
(* hint asserts the divisor, another writes quotient and remainder into    *)
(* two range check cells, and a third cell checks the remainder.           *)
(***************************************************************************)
EXTENDS HintedCall

DivmodFns == {"felt_divmod", "felt_divmod_2pow32", "felt_divmod_8"}

(* Any value, divisors up to Prime / RcBound as the function assumes, and  *)
(* the divisor 0.                                                          *)
DivmodCalls ==
  [fn : DivmodFns, hints : Providers, value : Felt, div : 0..(Prime \div RcBound)]

-----------------------------------------------------------------------------
(* Mutant: the constant is not reduced modulo the prime.                   *)
PRIMEUnreduced == Prime

(* The constant PRIME of utils.cairo as a field element.                   *)
PRIME == Prime % Prime

(* The hints that assert the divisor: the Python one raises for 0, the     *)
(* Rust one compares with PRIME the other way around, and never errs.      *)
AssertRaises ==
  /\ call.fn # "felt_divmod_8"
  /\ \/ call.hints = "python" /\ call.div = 0
     \/ call.hints = "rust" /\ 0 < call.div /\ call.div <= PRIME

(* Mutant: a remainder equal to the divisor passes.                        *)
RemainderCheckLoose(r) == (call.div - r) % Prime

(* What the third range check cell is asserted to be.                      *)
RemainderCheck(r) == (call.div - 1 - r) % Prime

-----------------------------------------------------------------------------
(* The assertion on the divisor, then divmod, which has no answer for 0.   *)
DivmodHints ==
  /\ At(DivmodFns, "start")
  /\ IF AssertRaises \/ (Shipped /\ call.div = 0) THEN Refuse
     ELSE \E q \in HintValues(call.value \div call.div, RangeChecked),
             r \in HintValues(call.value % call.div, RangeChecked) :
            /\ ids' = [q |-> q, r |-> r]
            /\ GoTo("check")

DivmodChecked ==
  /\ ids.q \in RangeChecked /\ ids.r \in RangeChecked
  /\ RemainderCheck(ids.r) \in RangeChecked
  /\ call.value = (ids.q * call.div + ids.r) % Prime

DivmodReturn == At(DivmodFns, "check") /\ DivmodChecked /\ Return(ids)

DivmodRefuse == At(DivmodFns, "check") /\ ~DivmodChecked /\ Refuse

DivmodNext == DivmodHints \/ DivmodReturn \/ DivmodRefuse

-----------------------------------------------------------------------------
(* The quotient fits a range check.                                        *)
DivmodLegal == call.div > 0 /\ call.value < call.div * RcBound

(* Whatever the hints write, felt_divmod answers the quotient and the      *)
(* remainder of the integers: the products do not wrap around the prime.   *)
DivmodCorrect ==
  call.fn \in DivmodFns /\ Answered =>
    LET q == outcome.value.q
        r == outcome.value.r
    IN  call.value = q * call.div + r /\ 0 <= r /\ r < call.div
=============================================================================
