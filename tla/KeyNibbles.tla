----------------------------- MODULE KeyNibbles -----------------------------
(***************************************************************************)
(* Nibbles of trie keys (lib/rlp_little.cairo): the zero nibbles a path    *)
(* will start with once its bytes are reversed, and one nibble of a key.   *)
(* Both functions leave an expected value in the scope of the hints, which *)
(* a later hint compares with what the function found.                     *)
(***************************************************************************)
EXTENDS Endianness

HalfNibbles == 2 * HalfBytes

NibbleOf(x, i) == (x \div Power(NibbleBase)[i]) % NibbleBase

(* Elements at the front of a sequence that are 0.                         *)
ZeroesInFront(s) ==
  CHOOSE n \in 0..Len(s) :
    /\ \A i \in 1..n : s[i] = 0
    /\ n = Len(s) \/ s[n + 1] # 0

-----------------------------------------------------------------------------
(* count_leading_zeroes_from_uint256_le_before_reversion on a path of      *)
(* n_bytes bytes, whose first nibble is cut or not.                        *)

LeadingZeroesFns == {"count_leading_zeroes_from_uint256_le_before_reversion"}
LeadingZeroesCalls ==
  {c \in [fn : LeadingZeroesFns, hints : Providers, low : Halves,
          high : Halves, cut_nibble : 0..1, n_bytes : 1..(2 * HalfBytes)] :
     WholeNumber(c) < Power(ByteBase)[c.n_bytes]}

NibblesAfterReversion == 2 * call.n_bytes - call.cut_nibble

(* The nibbles in the order they have once the bytes are reversed.         *)
ReversedNibbles(x, n_bytes) ==
  [i \in 1..(2 * n_bytes) |->
     NibbleOf(x, IF i % 2 = 1 THEN i ELSE i - 2)]

Cut(nibbles) == SubSeq(nibbles, 1 + call.cut_nibble, Len(nibbles))

(* The Python hint reverses the bytes of the number.                       *)
PyExpectedZeroes ==
  LET x == WholeNumber(call)
      n == IF x = 0 THEN 1 ELSE DigitCount(x, ByteBase)
  IN  ZeroesInFront(Cut(ReversedNibbles(x, n)))

(* The Rust hint reverses its digits in base 16, all 64 of them.           *)
RsExpectedZeroes ==
  ZeroesInFront(Cut(Digits(WholeNumber(call), NibbleBase, 2 * HalfNibbles)))

(* x_f.low: the first nibble after reversion set to 0 when it is cut.      *)
CutLow ==
  IF call.cut_nibble = 0 THEN call.low
  ELSE call.low - NibbleOf(call.low, 1) * NibbleBase

(* Mutant: without a cut the low nibble of the byte is looked at, too.     *)
FirstNibbleLow == NibbleOf(call.low, 0)

(* The nibble that comes first after the reversion and the cut.            *)
FirstNibble == NibbleOf(call.low, 1 - call.cut_nibble)

(* The zero nibbles of a half that starts with t zero bytes.               *)
ZeroesFrom(half, t) ==
  2 * t - call.cut_nibble + (IF NibbleOf(half, 2 * t + 1) = 0 THEN 1 ELSE 0)

(* What the function returns, from the zero bytes of the halves.           *)
ZeroesCounted ==
  IF CutLow # 0
    THEN IF ids.t = 0 THEN (IF FirstNibble = 0 THEN 1 ELSE 0)
         ELSE ZeroesFrom(CutLow, ids.t)
  ELSE IF call.high # 0 THEN HalfNibbles + ZeroesFrom(call.high, ids.t)
  ELSE NibblesAfterReversion

ScannedHalf == IF CutLow # 0 THEN CutLow ELSE call.high

(* The hint at the start and the one inside count_trailing_zeroes_128.     *)
ScanZeroBytes ==
  /\ At(LeadingZeroesFns, "start")
  /\ \E t \in TrailingZeroHints(ScannedHalf) :
       ids' = [t |-> t,
               expected_leading_zeroes |->
                 IF call.hints = "rust" THEN RsExpectedZeroes ELSE PyExpectedZeroes]
  /\ GoTo("check")

(* The assertions; nothing is compared for a number that is 0.             *)
ZeroesAccepted ==
  /\ TrailingZeroesVerified(ScannedHalf, ids.t)
  /\ Shipped /\ ScannedHalf # 0 => ZeroesCounted = ids.expected_leading_zeroes

ReturnZeroes ==
  At(LeadingZeroesFns, "check") /\ ZeroesAccepted /\ Return(ZeroesCounted)

RefuseZeroes == At(LeadingZeroesFns, "check") /\ ~ZeroesAccepted /\ Refuse

(* Whatever the hints say, the count is the number of nibbles that are 0   *)
(* in front of the path after its bytes are reversed and the cut made.     *)
LeadingZeroesCounted ==
  call.fn \in LeadingZeroesFns /\ Answered =>
    outcome.value
      = ZeroesInFront(Cut(ReversedNibbles(WholeNumber(call), call.n_bytes)))

(* The hint that leading_zeros.rs (line 9) quotes and replaces expects the *)
(* number the function finds, so the comparison never fails.               *)
RustExpectsTheCount ==
  call.fn \in LeadingZeroesFns /\ call.hints = "rust" => outcome # Refused

-----------------------------------------------------------------------------
(* extract_nibble_from_key_be                                              *)

NibbleFns == {"extract_nibble_from_key_be"}
NibbleCalls ==
  [fn : NibbleFns, hints : Providers, low : Halves, high : Halves,
   key_leading_zeroes_nibbles : 0..2, nibble_index : 0..(2 * HalfNibbles)]

Key == WholeNumber(call)
KeyNibbleCount == DigitCount(Key, NibbleBase)

(* The nibbles of the key and the one at an index, from 0: the leading     *)
(* zeroes first.                                                           *)
KeyLength == call.key_leading_zeroes_nibbles + KeyNibbleCount

NibbleOfKey(i) ==
  IF i < call.key_leading_zeroes_nibbles \/ Key = 0 THEN 0
  ELSE NibbleOf(Key, KeyLength - i - 1)

IndexInKey == call.nibble_index < KeyLength

(* The digits the hints look the expected nibble up in: 0 has one digit in *)
(* Python, none in Rust.                                                   *)
DigitsOfHex ==
  IF Key = 0 /\ call.hints = "python" THEN KeyLength + 1 ELSE KeyLength

(* Mutant: the index of the first nibble counts as a leading zero.         *)
IsLeadingZeroOrFirst == call.nibble_index <= call.key_leading_zeroes_nibbles

(* What the first hint answers.                                            *)
IsLeadingZero == call.nibble_index <= call.key_leading_zeroes_nibbles - 1

(* The index without the leading zeroes.                                   *)
Reindexed == call.nibble_index - call.key_leading_zeroes_nibbles

(* What the second hint answers.                                           *)
FromLow ==
  \/ Reindexed \in 0..(HalfNibbles - 1) /\ KeyNibbleCount <= HalfNibbles
  \/ Reindexed \in HalfNibbles..(2 * HalfNibbles - 1) /\ KeyNibbleCount > HalfNibbles

(* The third hint fails beyond the key.                                    *)
WriteIsZero ==
  /\ At(NibbleFns, "start")
  /\ \E is_zero \in HintValues(IsLeadingZero, BOOLEAN) :
       /\ ids' = [is_zero |-> is_zero]
       /\ GoTo(IF is_zero THEN "zero" ELSE "nonzero")

ReturnZeroNibble == At(NibbleFns, "zero") /\ IsLeadingZero /\ Return(0)

RefuseZeroNibble == At(NibbleFns, "zero") /\ ~IsLeadingZero /\ Refuse

(* The range check, the hints on the half and on the expected nibble.      *)
WriteFromLow ==
  /\ At(NibbleFns, "nonzero")
  /\ IF Reindexed < 0 \/ (Shipped /\ call.nibble_index >= DigitsOfHex) THEN Refuse
     ELSE \E from_low \in HintValues(FromLow, BOOLEAN) :
            ids' = ids @@ [from_low |-> from_low] /\ GoTo("extract")

(* The range checks of the branches; a high half of 0 has no nibble.       *)
HalfChecked ==
  /\ Reindexed < IF ids.from_low /\ call.high # 0 THEN 2 * HalfNibbles
                 ELSE HalfNibbles
  /\ ~ids.from_low => call.high # 0

(* The nibble of the half that is read: the entry of the table of powers   *)
(* of two, in nibbles.                                                     *)
Offset ==
  IF ~ids.from_low THEN KeyNibbleCount - HalfNibbles - Reindexed - 1
  ELSE IF call.high # 0 THEN HalfNibbles - Reindexed - 1
  ELSE KeyNibbleCount - Reindexed - 1

OffsetInTable == Offset \in 0..(HalfNibbles - 1)

(* A number in front of the table masks and divides to some felt, here a   *)
(* nibble or NibbleBase for all others.                                    *)
Extracted ==
  IF OffsetInTable
    THEN {NibbleOf(IF ids.from_low THEN call.low ELSE call.high, Offset)}
    ELSE 0..NibbleBase

(* expected_nibble == extracted_nibble_at_pos, in the shipped hints.       *)
NibbleAccepted(nibble) ==
  /\ HalfChecked
  /\ Shipped => nibble = NibbleOfKey(call.nibble_index)

ReturnNibble ==
  /\ At(NibbleFns, "extract")
  /\ \E nibble \in Extracted : NibbleAccepted(nibble) /\ Return(nibble)

RefuseNibble ==
  /\ At(NibbleFns, "extract")
  /\ \E nibble \in Extracted : ~NibbleAccepted(nibble) /\ Refuse

(* The indices whose entry the table of powers of two has: all of a key    *)
(* that fits the low half, else those before the low half.                 *)
IndexServed ==
  IndexInKey /\ (call.high = 0 \/ Reindexed < KeyNibbleCount - HalfNibbles)

(* The hints of the repository never let a nibble through that is not the  *)
(* one of the key.  Nor do any others, for an index that is served and a   *)
(* high half of 0: only there do the checks pin the half down.             *)
NibbleExtracted ==
  call.fn \in NibbleFns /\ Answered /\ IndexInKey =>
    \/ outcome.value = NibbleOfKey(call.nibble_index)
    \/ ~Shipped /\ ~(IndexServed /\ call.high = 0)

(* "returns ni such that i = nibble_index" (rlp_little.cairo, line 379),   *)
(* for every index of the key.                                             *)
EveryIndexServed ==
  call.fn \in NibbleFns /\ Shipped /\ IndexInKey => outcome # Refused

KeyNibblesNext ==
  \/ ScanZeroBytes \/ ReturnZeroes \/ RefuseZeroes
  \/ WriteIsZero \/ ReturnZeroNibble \/ RefuseZeroNibble
  \/ WriteFromLow \/ ReturnNibble \/ RefuseNibble
=============================================================================
