----------------------------- MODULE BlockHeader -----------------------------
(***************************************************************************)
(* lib/block_header.cairo: fields of a block header, which is an array of  *)
(* words of eight bytes.  Hashes are cut out of little endian words at     *)
(* fixed places; the block number is found in words that have been         *)
(* reversed, behind a difficulty of any length.  Sizes are those of the    *)
(* code.  A word is the sequence of its bytes from the least significant   *)
(* one; dividing by a power of 256 splits it and multiplying joins two.    *)
(***************************************************************************)
EXTENDS RlpExtract

CONSTANT Numbers  \* the difficulties and block numbers of the headers

HeaderHashFns == {"extract_parent_hash_little", "extract_state_root_little"}
NumberFns == {"extract_block_number_big"}

HeaderWordBytes == 8

(* Numbers of at most seven bytes, the most significant one first.         *)
ASSUME NumbersAssumption ==
  \A bytes \in Numbers : bytes \in Seq(0..255) /\ Len(bytes) <= 7

HeaderCalls ==
  [fn : NumberFns, hints : Providers, difficulty : Numbers, number : Numbers]
    \cup [fn : HeaderHashFns, hints : Providers, difficulty : {<<>>}, number : {<<1>>}]

-----------------------------------------------------------------------------
(* An Ethereum header up to its number: a list prefix of three bytes, then *)
(* the items, by the bytes of their prefixes and of their values.          *)
HeaderItems ==
  <<[item |-> "parentHash", prefix |-> 1, len |-> 32],
    [item |-> "unclesHash", prefix |-> 1, len |-> 32],
    [item |-> "coinbase", prefix |-> 1, len |-> 20],
    [item |-> "stateRoot", prefix |-> 1, len |-> 32],
    [item |-> "transactionsRoot", prefix |-> 1, len |-> 32],
    [item |-> "receiptsRoot", prefix |-> 1, len |-> 32],
    [item |-> "logsBloom", prefix |-> 3, len |-> 256]>>

BytesOfItems ==
  LET bytes[n \in 0..Len(HeaderItems)] ==
        IF n = 0 THEN 3
        ELSE bytes[n - 1] + HeaderItems[n].prefix + HeaderItems[n].len
  IN  [n \in 0..Len(HeaderItems) |-> bytes[n]]

(* The bytes of an item: byte i of the header is the number 1000 + i.      *)
HeaderField(item) ==
  LET i     == CHOOSE i \in DOMAIN HeaderItems : HeaderItems[i].item = item
      start == BytesOfItems[i - 1] + HeaderItems[i].prefix
  IN  [j \in 1..HeaderItems[i].len |-> 1000 + start + j]

EncodedNumber(bytes) ==
  IF Len(bytes) = 1 /\ bytes[1] < 128 THEN bytes
  ELSE <<128 + Len(bytes)>> \o bytes

(* Other fields follow.                                                    *)
HeaderWord(i) ==
  LET before  == BytesOfItems[Len(HeaderItems)]
      numbers == EncodedNumber(call.difficulty) \o EncodedNumber(call.number)
      Byte(j) == IF j > before /\ j <= before + Len(numbers) THEN numbers[j - before]
                 ELSE 1000 + j
  IN  [k \in 1..HeaderWordBytes |-> Byte(i * HeaderWordBytes + k)]

(* reverse_block_header_chunks: each word on its own; that the words are   *)
(* reversed whatever the hints is what WordReversed shows.                 *)
ReversedWord(i) == Reverse(HeaderWord(i))

-----------------------------------------------------------------------------
(* Four words of a hash from five of the array.                            *)
HashFrom(i, cut) ==
  [low  |-> Above(HeaderWord(i), cut) \o HeaderWord(i + 1)
              \o Below(HeaderWord(i + 2), cut),
   high |-> Above(HeaderWord(i + 2), cut) \o HeaderWord(i + 3)
              \o Below(HeaderWord(i + 4), cut)]

ExtractHeaderHash ==
  /\ At(HeaderHashFns, "start")
  /\ Return(IF call.fn = "extract_parent_hash_little" THEN HashFrom(0, 4)
            ELSE HashFrom(11, 3))

-----------------------------------------------------------------------------
(* get_bigint_byte_size: what the hint on its branch says, the range check *)
(* of the branch and the size it returns.                                  *)
RlpBigintSize(byte) == byte <= 127

BigintChecked(byte, is_single_byte) == byte <= IF is_single_byte THEN 127 ELSE 183

BigintByteSize(byte, is_single_byte) == IF is_single_byte THEN 0 ELSE byte - 128

(* A size of a byte below 128 that a hint did not call single is negative: *)
(* the table of powers of two is read far from its start, which stops the  *)
(* run or gives any divisor.                                               *)
Misread == <<256>>

(* The first byte of the word at 56 and the other seven.                   *)
DifficultyPrefix == Above(ReversedWord(56), 7)[1]
Remaining7 == Below(ReversedWord(56), 7)

DifficultySize ==
  /\ At(NumberFns, "start")
  /\ \E is_single_byte \in HintValues(RlpBigintSize(DifficultyPrefix), BOOLEAN) :
       LET size   == BigintByteSize(DifficultyPrefix, is_single_byte)
           passes == BigintChecked(DifficultyPrefix, is_single_byte) /\ size \in 0..7
       IN  \/ passes /\ ids' = [difficulty_offset |-> size] /\ GoTo("number")
           \/ size < 0 /\ Return(Misread)
           \/ ~passes /\ Refuse

(* What is left of the word behind the difficulty, on top of the next.     *)
BlockNumberItem == ReversedWord(57) \o Below(Remaining7, 7 - ids.difficulty_offset)

(* The powers the item and its remainder are divided by, in bytes.         *)
RemainderBytes == 7 - ids.difficulty_offset + 7
NumberPrefix == Above(BlockNumberItem, RemainderBytes)[1]

(* Mutant: the number 0, which is a prefix alone, is not told apart.       *)
BlockNumberOfPrefix(size) ==
  IF size > 0
    THEN Above(Below(BlockNumberItem, RemainderBytes), RemainderBytes - size)
  ELSE <<NumberPrefix>>

BlockNumber(size) ==
  IF size > 0
    THEN Above(Below(BlockNumberItem, RemainderBytes), RemainderBytes - size)
  ELSE IF NumberPrefix = 128 THEN <<>> ELSE <<NumberPrefix>>

NumberSize ==
  /\ At(NumberFns, "number")
  /\ \E is_single_byte \in HintValues(RlpBigintSize(NumberPrefix), BOOLEAN) :
       LET size   == BigintByteSize(NumberPrefix, is_single_byte)
           passes == /\ BigintChecked(NumberPrefix, is_single_byte)
                     /\ size \in 0..RemainderBytes
       IN  \/ passes /\ Return(BlockNumber(size))
           \/ size < 0 /\ Return(Misread)
           \/ ~passes /\ Refuse

BlockHeaderNext == ExtractHeaderHash \/ DifficultySize \/ NumberSize

-----------------------------------------------------------------------------
(* The fixed places are those of the fields, and the number is found       *)
(* behind a difficulty of up to seven bytes.  A hint that denies that a    *)
(* byte is a number of its own is not checked: unless the hints are those  *)
(* of the repository, the result is the number for items with a prefix.    *)
HeaderFieldsExtracted ==
  /\ call.fn \in HeaderHashFns /\ Answered =>
       outcome.value.low \o outcome.value.high
         = HeaderField(IF call.fn = "extract_parent_hash_little"
                         THEN "parentHash" ELSE "stateRoot")
  /\ call.fn \in NumberFns /\ Answered =>
       \/ outcome.value = Reverse(call.number)
       \/ ~Shipped /\ \E n \in {call.difficulty, call.number} : EncodedNumber(n) = n
=============================================================================
