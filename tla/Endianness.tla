----------------------------- MODULE Endianness -----------------------------
(***************************************************************************)
(* Byte reversals of lib/utils.cairo that rely on hints: the words of two  *)
(* to seven bytes reversed with range checks, and the numbers reversed     *)
(* without padding, which count the zero bytes at the end of a half.       *)
(***************************************************************************)
EXTENDS HintedCall

CONSTANT Halves  \* the halves of the numbers the functions are called with

HalfShift == Power(ByteBase)[HalfBytes]

ASSUME HalvesAssumption == Halves \subseteq 0..(HalfShift - 1)

(* word_reverse_endian of the Cairo library, on a half.                    *)
ReverseHalf(x) == ValueOf(Reverse(Digits(x, ByteBase, HalfBytes)), ByteBase)

-----------------------------------------------------------------------------
(* word_reverse_endian_16_RC to word_reverse_endian_56_RC, by their n.     *)

(* A felt holds the longest of these words.                                *)
ASSUME WordAssumption == Power(ByteBase)[WordBytes - 1] <= Prime

WordFns == {"word_reverse_endian_RC"}
WordCalls == [fn : WordFns, hints : Providers, word : Felt, n : 2..(WordBytes - 1)]

(* Bytes from the most significant one, as write_word_to_memory leaves     *)
(* them; the Rust form keeps the n last bytes of a longer word.            *)
WordBytesOf == Reverse(Digits(call.word, ByteBase, call.n))

WriteWord ==
  /\ At(WordFns, "start")
  /\ IF call.hints = "python" /\ call.word >= Power(ByteBase)[call.n] THEN Refuse
     ELSE \E bytes \in HintValues(WordBytesOf, [1..call.n -> RangeChecked]) :
            ids' = [bytes |-> bytes] /\ GoTo("check")

(* Mutant: the last byte is not compared with 255.                         *)
AllButLastAreBytes(bytes) ==
  \A i \in 1..(call.n - 1) : (ByteBase - 1 - bytes[i]) % Prime \in RangeChecked

(* The range checks of 255 - b.                                            *)
AreBytes(bytes) ==
  \A i \in 1..call.n : (ByteBase - 1 - bytes[i]) % Prime \in RangeChecked

WordChecked ==
  /\ AreBytes(ids.bytes)
  /\ call.word = ValueOf(Reverse(ids.bytes), ByteBase) % Prime

ReturnWord ==
  At(WordFns, "check") /\ WordChecked /\ Return(ValueOf(ids.bytes, ByteBase))

RefuseWord == At(WordFns, "check") /\ ~WordChecked /\ Refuse

(* Whatever the hint writes, the word had n bytes and what is returned is  *)
(* them in the opposite order.                                             *)
WordReversed ==
  call.fn \in WordFns /\ Answered =>
    /\ call.word < Power(ByteBase)[call.n]
    /\ outcome.value < Power(ByteBase)[call.n]
    /\ Digits(outcome.value, ByteBase, call.n) = WordBytesOf

-----------------------------------------------------------------------------
(* uint256_reverse_endian_no_padding; uint128_reverse_endian_no_padding is *)
(* what it does to the higher half that is not 0.                          *)

NoPaddingFns == {"uint256_reverse_endian_no_padding"}
NoPaddingCalls ==
  [fn : NoPaddingFns, hints : Providers, low : Halves, high : Halves]

(* The number of zero bytes at the end of a half.                          *)
TrailingZeroBytes(x) ==
  CHOOSE t \in 0..HalfBytes :
    /\ x % Power(ByteBase)[t] = 0
    /\ t = HalfBytes \/ x % Power(ByteBase)[t + 1] # 0

(* What count_trailing_zeroes_128 may have been told: nothing for 0, else  *)
(* an offset the table of powers of two has.                               *)
TrailingZeroHints(x) ==
  IF x = 0 THEN {HalfBytes}
  ELSE HintValues(TrailingZeroBytes(x), 0..(HalfBytes - 1))

(* Mutant: the byte before the zeroes is not looked at.                    *)
ZeroesAtEnd(x, t) == x % Power(ByteBase)[t] = 0

(* What count_trailing_zeroes_128 asserts of it.                           *)
TrailingZeroesVerified(x, t) ==
  x = 0 \/ (x % Power(ByteBase)[t] = 0 /\ (x \div Power(ByteBase)[t]) % ByteBase # 0)

(* The half uint128_reverse_endian_no_padding is called with.              *)
TopHalf == IF call.high # 0 THEN call.high ELSE call.low

(* The bytes it cuts from the reversed half, if the length has changed.    *)
PaddingOf(x, t) ==
  LET n     == DigitCount(x, ByteBase)
      n_rev == DigitCount(ReverseHalf(x), ByteBase)
  IN  IF n = n_rev THEN 0 ELSE n_rev - n + t

CountZeroBytes ==
  /\ At(NoPaddingFns, "start")
  /\ \E t \in TrailingZeroHints(TopHalf) : ids' = [t |-> t] /\ GoTo("check")

NoPaddingChecked ==
  /\ TrailingZeroesVerified(TopHalf, ids.t)
  /\ PaddingOf(TopHalf, ids.t) \in 0..HalfBytes
  /\ ReverseHalf(TopHalf) % Power(ByteBase)[PaddingOf(TopHalf, ids.t)] = 0

(* The low half follows the high one: what of it fits the low half of the  *)
(* result is put on top of the reversed high half.                         *)
HalvesReversed ==
  LET n   == DigitCount(TopHalf, ByteBase)
      top == ReverseHalf(TopHalf) \div Power(ByteBase)[PaddingOf(TopHalf, ids.t)]
      cut == Power(ByteBase)[HalfBytes - n]
      rev == ReverseHalf(call.low)
  IN  IF call.high = 0 THEN [low |-> top, high |-> 0, n_bytes |-> n]
      ELSE [low     |-> top + Power(ByteBase)[n] * (rev % cut),
            high    |-> rev \div cut,
            n_bytes |-> HalfBytes + n]

ReturnNoPadding ==
  At(NoPaddingFns, "check") /\ NoPaddingChecked /\ Return(HalvesReversed)

RefuseNoPadding == At(NoPaddingFns, "check") /\ ~NoPaddingChecked /\ Refuse

WholeNumber(x) == x.low + HalfShift * x.high

(* The answer is the bytes of the number in the opposite order.            *)
IsReversed(answer) ==
  LET n == DigitCount(WholeNumber(call), ByteBase)
  IN  /\ answer.n_bytes = n
      /\ WholeNumber(answer)
           = ValueOf(Reverse(Digits(WholeNumber(call), ByteBase, n)), ByteBase)

(* The half is as long after the reversal, though it ends with zero bytes: *)
(* its zero bytes at both ends have changed places.                        *)
KeepsLength(x) ==
  /\ DigitCount(x, ByteBase) = DigitCount(ReverseHalf(x), ByteBase)
  /\ x > 0 /\ x % ByteBase = 0

(* Whatever the hint says of the zero bytes, the result is the number with *)
(* its bytes reversed, unless the top half keeps its length.               *)
ReversedWithoutPadding ==
  call.fn \in NoPaddingFns /\ Answered /\ ~KeepsLength(TopHalf) =>
    IsReversed(outcome.value)

(* "reverse its byte endianness without adding right-padding" (utils.cairo,*)
(* line 131), whatever the number.                                         *)
NeverPadded == call.fn \in NoPaddingFns /\ Answered => IsReversed(outcome.value)

EndiannessNext ==
  \/ WriteWord \/ ReturnWord \/ RefuseWord
  \/ CountZeroBytes \/ ReturnNoPadding \/ RefuseNoPadding
=============================================================================
