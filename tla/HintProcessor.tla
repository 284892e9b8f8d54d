--------------------------- MODULE HintProcessor ---------------------------
(***************************************************************************)
(* The dispatch of hints by their text (hint_processor/mod.rs, hints/):    *)
(* tables are asked one after another, and one that does not know the text *)
(* answers UnknownHint, which sends the question on.  Texts go by the name *)
(* of their Rust constant; that a text of the library and a constant are   *)
(* the same, character by character, is not modelled.                      *)
(***************************************************************************)
EXTENDS HintedCall

(* The run_hint functions below hints/lib, in the order they are asked.    *)
LibTables == <<"bit_length", "block_header", "mmr", "mpt", "rlp_little", "utils">>

MptHints == {"LONG_SHORT_LIST", "FIRST_ITEM_TYPE", "SECOND_ITEM_TYPE", "ITEM_TYPE"}

RlpLittleHints ==
  {"ASSERT_LEADING_ZEROES", "ASSERT_NIBBLE", "POW_CUT", "EXPECTED_LEADING_ZEROES",
   "EXPECTED_NIBBLE", "IS_ZERO", "NIBBLE_FROM_LOW", "NEEDS_NEXT_WORD",
   "NEEDS_NEXT_WORD_ENDING", "WORDS_LOOP"}

UtilsHints ==
  {"ASSERT_INTEGER_DIV32", "ASSERT_INTEGER_DIV", "CARRY", "VALUE_DIV32", "VALUE_8",
   "VALUE_DIV", "TRAILING_ZEROES_BYTES", "WRITE_2", "WRITE_3", "WRITE_4", "WRITE_5",
   "WRITE_6", "WRITE_7"}

BitLengthHints == {"BIT_LENGTH"}
BlockHeaderHints == {"RLP_BIGINT_SIZE"}
MmrHints == {"MMR_BIT_LENGTH", "MMR_LEFT_CHILD", "IS_POSITION_IN_MMR_ARRAY"}

(* One of the hints of the test programs.                                  *)
TestHints == {"TEST_CONSTRUCT_MMR"}

(* The Cairo VM's own table also knows the text of the carry hint, which   *)
(* is the one of uint256_add in Cairo's library.                           *)
BuiltinHints == {"CARRY", "BUILTIN_HINT"}

HintsOf ==
  [bit_length   |-> BitLengthHints,
   block_header |-> BlockHeaderHints,
   mmr          |-> MmrHints,
   mpt          |-> MptHints,
   rlp_little   |-> RlpLittleHints,
   utils        |-> UtilsHints,
   tests        |-> TestHints,
   builtin      |-> BuiltinHints]

(* The hints the functions of lib/*.cairo run, the one that reads a block  *)
(* header from the input of the program excepted.                          *)
LibraryHints ==
  {"BIT_LENGTH",
   "RLP_BIGINT_SIZE",
   "MMR_BIT_LENGTH", "MMR_LEFT_CHILD", "IS_POSITION_IN_MMR_ARRAY",
   "LONG_SHORT_LIST", "FIRST_ITEM_TYPE", "SECOND_ITEM_TYPE", "ITEM_TYPE",
   "EXPECTED_LEADING_ZEROES", "ASSERT_LEADING_ZEROES", "IS_ZERO",
   "NIBBLE_FROM_LOW", "EXPECTED_NIBBLE", "ASSERT_NIBBLE", "NEEDS_NEXT_WORD",
   "WORDS_LOOP", "POW_CUT", "NEEDS_NEXT_WORD_ENDING",
   "TRAILING_ZEROES_BYTES", "CARRY", "ASSERT_INTEGER_DIV32", "VALUE_DIV32",
   "VALUE_8", "ASSERT_INTEGER_DIV", "VALUE_DIV",
   "WRITE_2", "WRITE_3", "WRITE_4", "WRITE_5", "WRITE_6", "WRITE_7"}

-----------------------------------------------------------------------------
ExecuteFns == {"execute_hint"}

(* The extended processor runs programs; the builtin one runs PIEs.        *)
ExecuteCalls ==
  [fn : ExecuteFns, hints : {"rust"}, processor : {"extended", "builtin"},
   code : LibraryHints \cup TestHints \cup BuiltinHints \cup {"PROGRAM_INPUT"}]

Tables ==
  IF call.processor = "extended" THEN LibTables \o <<"tests", "builtin">>
  ELSE <<"builtin">>

Knows(table) == call.code \in HintsOf[table]

(* Mutant: any error sends the question on.                                *)
GoesOnAfterError(res) == res # "ok"

(* Only UnknownHint does.                                                  *)
GoesOn(res) == res = "unknown"

(* One table: the hint it knows may fail.  ids lists the tables asked.     *)
AskTable ==
  /\ At(ExecuteFns, "start")
  /\ Len(ids) < Len(Tables)
  /\ LET table == Tables[Len(ids) + 1]
     IN  \E res \in IF Knows(table) THEN {"ok", "error"} ELSE {"unknown"} :
           /\ ids' = Append(ids, table)
           /\ outcome' = IF GoesOn(res) THEN InProgress
                         ELSE Answer([table |-> table, res |-> res])
           /\ UNCHANGED <<call, at>>

UnknownHint == At(ExecuteFns, "start") /\ Len(ids) = Len(Tables) /\ Refuse

HintProcessorNext == AskTable \/ UnknownHint

-----------------------------------------------------------------------------
(* A hint is run by the first table that knows it and by no other, also    *)
(* when it fails: a failure is never replaced by what a later table makes  *)
(* of the text.  The hints of the library are all known to the extended    *)
(* processor.                                                              *)
HintRunOnce ==
  call.fn \in ExecuteFns =>
    /\ \A i, j \in DOMAIN ids : Knows(ids[i]) /\ Knows(ids[j]) => i = j
    /\ Answered => outcome.value.table = Last(ids) /\ Knows(Last(ids))
    /\ call.processor = "extended" /\ call.code \in LibraryHints => outcome # Refused
=============================================================================
