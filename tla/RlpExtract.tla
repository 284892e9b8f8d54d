----------------------------- MODULE RlpExtract -----------------------------
(***************************************************************************)
(* extract_n_bytes_from_le_64_chunks_array and                             *)
(* extract_le_hash_from_le_64_chunks_array (lib/rlp_little.cairo): bytes   *)
(* cut out of an array of little endian words.  Divisions by powers of 256 *)
(* split a word, multiplications by them join two; what Divmod shows of    *)
(* felt_divmod is used.                                                    *)
(***************************************************************************)
EXTENDS HintedCall

CONSTANT MaxArrayBytes  \* longest array of the calls

ASSUME MaxArrayBytesAssumption == MaxArrayBytes \in Nat

BytesFns == {"extract_n_bytes_from_le_64_chunks_array"}
HashFns == {"extract_le_hash_from_le_64_chunks_array"}

HashBytes == 4 * WordBytes

(* Arrays that hold at least the bytes asked for.                          *)
ExtractCalls ==
  {c \in [fn : BytesFns \cup HashFns, hints : Providers, length : 1..MaxArrayBytes,
          start_word : 0..(MaxArrayBytes \div WordBytes),
          start_offset : 0..(WordBytes - 1), n_bytes : 0..MaxArrayBytes] :
     /\ c.start_word * WordBytes + c.start_offset + c.n_bytes <= c.length
     /\ c.fn \in HashFns => c.n_bytes = HashBytes}

-----------------------------------------------------------------------------
(* The array: byte i is the number i, the last word may be shorter.        *)
ArrayWord(i) ==
  [j \in 1..Min({WordBytes, call.length - i * WordBytes}) |-> i * WordBytes + j]

InArray(i) == i * WordBytes < call.length

(* Quotient and remainder of a word divided by the power of n bytes.       *)
Above(word, n) == SubSeq(word, n + 1, Len(word))
Below(word, n) == SubSeq(word, 1, Min({n, Len(word)}))

q == call.n_bytes \div WordBytes
n_ending_bytes == call.n_bytes % WordBytes
n_words == q + (IF n_ending_bytes = 0 THEN 0 ELSE 1)
avl_bytes_in_word == WordBytes - call.start_offset

(* n_words_to_handle_in_loop                                               *)
LoopWords == q

WordAt(i) == ArrayWord(call.start_word + i)

(* The words the aligned branch copies.                                    *)
CopiedWords ==
  [i \in 1..q |-> WordAt(i - 1)]
    \o (IF n_ending_bytes = 0 THEN <<>> ELSE <<Below(WordAt(q), n_ending_bytes)>>)

-----------------------------------------------------------------------------
(* Mutant: the word that holds the end is read only if a byte is to spare. *)
NeedsNextWordLate(n) == n > avl_bytes_in_word + 1

(* Both hints on needs_next_word, of all the bytes or the ending ones.     *)
NeedsNextWord(n) == n > avl_bytes_in_word

(* What remains of a word divided by a number in front of the table of     *)
(* powers: nothing, or something that is no byte of the array.             *)
NoByte == 0
Overrun == {<<>>, <<NoByte>>}

(* What the last word may be, from the rest of the word at i and, if it is *)
(* said to be needed, the next one.  If that is denied the rest is cut to  *)
(* the ending bytes, of which a full word has none.  If it is claimed and  *)
(* not true, the index into the table is negative and the rest is not cut. *)
LastWordsAt(i, n, needs_next_word) ==
  LET current_word == Above(WordAt(i), call.start_offset)
  IN  IF ~needs_next_word THEN {Below(current_word, n_ending_bytes)}
      ELSE IF n >= avl_bytes_in_word
        THEN {current_word \o Below(WordAt(i + 1), n - avl_bytes_in_word)}
      ELSE {current_word \o more : more \in Overrun}

(* A read behind the array stops the run; it may stop when what is read in *)
(* front of the table is no divisor.                                       *)
LastWordReadable(i, needs_next_word) ==
  InArray(call.start_word + i + (IF needs_next_word THEN 1 ELSE 0))

LastWordRefused(i, n, needs_next_word) ==
  \/ ~LastWordReadable(i, needs_next_word)
  \/ needs_next_word /\ n < avl_bytes_in_word

-----------------------------------------------------------------------------
(* No bytes are not extracted; aligned words are copied.                   *)
ExtractAligned ==
  /\ At(BytesFns, "start")
  /\ call.n_bytes = 0 \/ call.start_offset = 0
  /\ IF call.n_bytes = 0 THEN Refuse
     ELSE Return([words |-> CopiedWords, n_words |-> n_words])

ExtractUnaligned ==
  /\ At(BytesFns, "start")
  /\ call.n_bytes > 0 /\ call.start_offset > 0
  /\ ids' = [res |-> <<>>, current_word |-> Above(WordAt(0), call.start_offset)]
  /\ GoTo(IF n_words = 1 THEN "last" ELSE "loop")

(* One turn of cut_loop.  The hint on its end may be wrong: a turn too     *)
(* many is stopped behind the array only.                                  *)
CutWord ==
  LET n_words_handled == Len(ids.res)
      word == WordAt(n_words_handled + 1)
  IN  /\ At(BytesFns, "loop")
      /\ FALSE \in HintValues(n_words_handled = LoopWords, BOOLEAN)
      /\ IF ~InArray(call.start_word + n_words_handled + 1) THEN Refuse
         ELSE /\ ids' = [res |-> Append(ids.res, ids.current_word
                                          \o Below(word, call.start_offset)),
                         current_word |-> Above(word, call.start_offset)]
              /\ GoTo("loop")

(* end_loop and its assertion.                                             *)
EndLoop ==
  /\ At(BytesFns, "loop")
  /\ TRUE \in HintValues(Len(ids.res) = LoopWords, BOOLEAN)
  /\ IF Len(ids.res) # LoopWords THEN Refuse
     ELSE IF n_ending_bytes = 0 THEN Return([words |-> ids.res, n_words |-> Len(ids.res)])
     ELSE GoTo("last") /\ UNCHANGED ids

(* The last word, which is the only one of a short extraction.  Nothing    *)
(* checks the hint on the next word.                                       *)
ExtractLastWord ==
  LET i == Len(ids.res)
      n == call.n_bytes - WordBytes * i
  IN  /\ At(BytesFns, "last")
      /\ \E needs_next_word \in HintValues(NeedsNextWord(n), BOOLEAN) :
           \/ LastWordRefused(i, n, needs_next_word) /\ Refuse
           \/ /\ LastWordReadable(i, needs_next_word)
              /\ \E word \in LastWordsAt(i, n, needs_next_word) :
                   Return([words |-> Append(ids.res, word), n_words |-> n_words])

(* The five words a hash may touch; the last is read although the hash may *)
(* have ended before it.                                                   *)
ExtractHash ==
  /\ At(HashFns, "start")
  /\ IF ~InArray(call.start_word + 4) THEN Refuse
     ELSE LET o == call.start_offset
          IN  Return([low  |-> Above(WordAt(0), o) \o WordAt(1) \o Below(WordAt(2), o),
                      high |-> Above(WordAt(2), o) \o WordAt(3) \o Below(WordAt(4), o)])

RlpExtractNext ==
  \/ ExtractAligned \/ ExtractUnaligned
  \/ CutWord \/ EndLoop \/ ExtractLastWord \/ ExtractHash

-----------------------------------------------------------------------------
AskedBytes ==
  LET first == call.start_word * WordBytes + call.start_offset
  IN  [i \in 1..call.n_bytes |-> first + i]

(* The bytes asked for that are in the last word of the result.            *)
LastBytes == SubSeq(AskedBytes, (n_words - 1) * WordBytes + 1, call.n_bytes)

(* The last word is cut out of one word of the array or of two, by a hint. *)
LastWordByHint == call.start_offset # 0 /\ (n_words = 1 \/ n_ending_bytes # 0)

(* Some bytes, and of a hash not the last ones of an array at a word       *)
(* boundary.                                                               *)
ExtractLegal ==
  /\ call.n_bytes > 0
  /\ call.fn \in HashFns => InArray(call.start_word + 4)

(* Whatever the hints say, there are as many words as the bytes asked for  *)
(* fill, and all but the last hold those bytes.  So does the last one with *)
(* the hints of the repository, and where no hint decides whether it needs *)
(* the next word of the array.  That hint is not checked: with another one *)
(* the last word has a part of its bytes only, or more behind them.        *)
BytesExtracted ==
  /\ call.fn \in BytesFns /\ Answered =>
       LET words == outcome.value.words
       IN  /\ outcome.value.n_words = n_words /\ Len(words) = n_words
           /\ \A i \in 1..(n_words - 1) :
                words[i] = SubSeq(AskedBytes, (i - 1) * WordBytes + 1, i * WordBytes)
           /\ \/ IsPrefix(words[n_words], LastBytes)
              \/ IsPrefix(LastBytes, words[n_words])
           /\ Shipped \/ ~LastWordByHint => FlattenSeq(words) = AskedBytes
  /\ call.fn \in HashFns /\ Answered =>
       /\ outcome.value.low \o outcome.value.high = AskedBytes
       /\ Len(outcome.value.low) = Len(outcome.value.high)
=============================================================================
