------------------------------ MODULE MptNode ------------------------------
(***************************************************************************)
(* decode_node_list_lazy of lib/mpt.cairo: what one node of a proof says   *)
(* about the next nibbles of a key.  The node is a sequence of bytes; the  *)
(* code addresses byte b as word b / 8 and offset b % 8 of an array of     *)
(* words.                                                                  *)
(*                                                                         *)
(* The hints are those of the repository, in Python or in Rust; what other *)
(* values of a hint do is modelled one call at a time, in KeyNibbles,      *)
(* Endianness and RlpExtract.  Where these show that a call may stop or    *)
(* may not answer what it is asked, so it does here: a node is decoded to  *)
(* one of a set of outcomes.                                               *)
(***************************************************************************)
EXTENDS Trie

CONSTANTS
  HalfBytes,  \* bytes of each half of a Uint256: 16
  WordBytes   \* bytes of a word: 8

ASSUME WidthAssumption == HalfBytes \in Nat \ {0} /\ WordBytes \in Nat \ {0}

VARIABLE hints  \* "python" or "rust"

HalfNibbles == 2 * HalfBytes

-----------------------------------------------------------------------------
(* Byte number at of a node, from 0 (extract_byte_at_pos), and len bytes   *)
(* from there.  What lies behind the node is not modelled: bytes read      *)
(* there are missing, which makes a hash that no node has.                 *)
Byte(rlp, at) == rlp[at + 1]
Bytes(rlp, at, len) == SubSeq(rlp, at + 1, Min({at + len, Len(rlp)}))

(* The length of a long string, in big endian after its prefix.            *)
LongStringLen(rlp, at, len_len) ==
  LET len[i \in 0..len_len] ==
        IF i = 0 THEN 0 ELSE LengthBase * len[i - 1] + Byte(rlp, at + i)
  IN  len[len_len]

-----------------------------------------------------------------------------
(* The hints on a prefix.  The program branches on the type a hint writes  *)
(* and then checks the range of the prefix: no other type passes.          *)
HintError == "error"

IsSingleByte(value) == value \in 0..(StringPrefix - 1)
IsShortString(value) == value \in StringPrefix..(StringPrefix + ShortMax)
IsLongString(value) == value \in (StringPrefix + ShortMax + 1)..(ListPrefix - 1)
IsShortList(value) == value \in ListPrefix..(ListPrefix + ShortMax)
IsLongList(value) == value \in (ListPrefix + ShortMax + 1)..255

HintLongShortList(list_prefix) ==
  CASE IsShortList(list_prefix) -> "short"
    [] IsLongList(list_prefix) -> "long"
    [] OTHER -> HintError

HintFirstItemType(first_item_prefix) ==
  CASE IsSingleByte(first_item_prefix) -> "byte"
    [] IsShortString(first_item_prefix) -> "short"
    [] OTHER -> HintError

HintSecondItemType(second_item_prefix) ==
  CASE IsSingleByte(second_item_prefix) -> "byte"
    [] IsShortString(second_item_prefix) -> "short"
    [] IsLongString(second_item_prefix) -> "long"
    [] OTHER -> HintError

HintItemType(item_prefix) ==
  CASE IsSingleByte(item_prefix) -> "byte"
    [] IsShortString(item_prefix) -> "short"
    [] OTHER -> HintError

-----------------------------------------------------------------------------
(* The item of a type whose prefix is at byte at: where its value starts,  *)
(* how long it is and where the next item starts.                          *)
Nowhere == -1

ItemAt(rlp, at, type) ==
  LET prefix  == Byte(rlp, at)
      len_len == prefix - (StringPrefix + ShortMax)
      Item(value_at, len) == [type |-> type, value_at |-> value_at,
                              len |-> len, next |-> value_at + len]
  IN  CASE type = "byte"  -> Item(at, 1)
        [] type = "short" -> Item(at + 1, prefix - StringPrefix)
        [] type = "long"  -> Item(at + 1 + len_len,
                                  LongStringLen(rlp, at, len_len))
        [] type = HintError -> Item(Nowhere, 0)

(* extract_nibble_from_key_be: the nibble of a key at an index, from 0.    *)
(* If the high half of the key is not 0 the offset of a nibble of the low  *)
(* half into the table is negative and the hints compare what is read with *)
(* the nibble: the run stops, but for a lucky read.  Behind the key the    *)
(* hints find a digit of the key 0 only.                                   *)
NoNibble == -1

LeadingZeroes(nibbles) ==
  CHOOSE n \in 0..Len(nibbles) :
    /\ \A i \in 1..n : nibbles[i] = 0
    /\ n = Len(nibbles) \/ nibbles[n + 1] # 0

IndexServed(key, nibble_index) ==
  \/ nibble_index < LeadingZeroes(key)
  \/ Len(key) - LeadingZeroes(key) <= HalfNibbles
  \/ nibble_index < Len(key) - HalfNibbles

KeyNibble(key, nibble_index) ==
  IF nibble_index < Len(key)
    THEN {key[nibble_index + 1]}
           \cup {n \in {NoNibble} : ~IndexServed(key, nibble_index)}
    ELSE {NoNibble} \cup {n \in {0} : LeadingZeroes(key) = Len(key)}

(* Where the first item of the list starts: at most 7 bytes in.            *)
FirstItemStart(rlp) ==
  LET list_prefix == Byte(rlp, 0)
      len_len == list_prefix - (ListPrefix + ShortMax)
  IN  CASE HintLongShortList(list_prefix) = "short" -> 1
        [] HintLongShortList(list_prefix) = "long" /\ len_len < 7 -> 1 + len_len
        [] OTHER -> Nowhere

FirstItem(rlp) ==
  LET at == FirstItemStart(rlp)
  IN  ItemAt(rlp, at, HintFirstItemType(Byte(rlp, at)))

SecondItem(rlp) ==
  LET at == FirstItem(rlp).next
  IN  ItemAt(rlp, at, HintSecondItemType(Byte(rlp, at)))

(* jump_branch_node_till_element_at_index: where the item of an index      *)
(* starts, from the start of the item of index item_start_index.           *)
JumpTillElement(rlp, item_start_index, target_index, start) ==
  LET Next(at) == IF at = Nowhere THEN Nowhere
                  ELSE ItemAt(rlp, at, HintItemType(Byte(rlp, at))).next
      At[i \in item_start_index..target_index] ==
        IF i = item_start_index THEN start ELSE Next(At[i - 1])
  IN  At[target_index]

(* The value of an item starts after its one byte of prefix.               *)
ValueOfItem(start) == IF start = Nowhere THEN Nowhere ELSE start + 1

(* Mutant: the jump starts from the second item.                           *)
BranchValueAtFromSecond(rlp, nibble) ==
  CASE nibble = 0 -> FirstItemStart(rlp) + 1
    [] nibble = 1 -> SecondItem(rlp).value_at
    [] nibble = 2 -> SecondItem(rlp).next + 1
    [] OTHER -> ValueOfItem(JumpTillElement(rlp, 2, nibble, FirstItem(rlp).next))

(* get_branch_value_precomputed_offsets_1_2_3: where the value of a child  *)
(* of a branch starts.                                                     *)
BranchValueAt(rlp, nibble) ==
  CASE nibble = 0 -> FirstItemStart(rlp) + 1
    [] nibble = 1 -> SecondItem(rlp).value_at
    [] nibble = 2 -> SecondItem(rlp).next + 1
    [] OTHER -> ValueOfItem(JumpTillElement(rlp, 2, nibble, SecondItem(rlp).next))

-----------------------------------------------------------------------------
(* The nibbles of the path in the first item of a leaf or an extension.    *)
(* The first nibble tells only whether the second belongs to the path.     *)
(* Mutant: the odd leaf is forgotten.                                      *)
IsOddOfExtension(rlp, item) == Byte(rlp, item.value_at) \div 16 = 1

IsOdd(rlp, item) == Byte(rlp, item.value_at) \div 16 \notin {0, 2}

PathOf(rlp, item) ==
  LET ByteOf(i) == Byte(rlp, item.value_at + i \div 2)
      nibbles   == [i \in 1..(2 * item.len) |->
                       IF i % 2 = 1 THEN ByteOf(i - 1) \div 16
                       ELSE ByteOf(i - 1) % 16]
  IN  SubSeq(nibbles, IF IsOdd(rlp, item) THEN 2 ELSE 3, 2 * item.len)

(* Its bytes: with an odd path the one that tells so.                      *)
PathBytes(rlp, item) ==
  LET odd == IF IsOdd(rlp, item) THEN 1 ELSE 0
  IN  Bytes(rlp, item.value_at + 1 - odd, item.len - 1 + odd)

(* uint256_reverse_endian_no_padding fails to drop the zero bytes in front *)
(* of the half that comes last if the half, its last zero bytes left out,  *)
(* ends as many bytes before its full length (Endianness: KeepsLength).    *)
TopHalf(bytes) ==
  LET high == SubSeq(bytes, HalfBytes + 1, Len(bytes))
  IN  IF \E i \in DOMAIN high : high[i] # 0 THEN high
      ELSE SubSeq(bytes, 1, Min({HalfBytes, Len(bytes)}))

KeepsLength(bytes) ==
  LET half == TopHalf(bytes)
  IN  \E zeroes \in DOMAIN half :
        /\ HalfBytes - zeroes \in (zeroes + 1)..Len(half)
        /\ half[zeroes + 1] # 0 /\ half[HalfBytes - zeroes] # 0
        /\ \A i \in DOMAIN half :
             i <= zeroes \/ i > HalfBytes - zeroes => half[i] = 0

(* count_leading_zeroes_from_uint256_le_before_reversion is called if the  *)
(* path starts with a zero nibble or ends with a zero byte; unless all of  *)
(* it is 0 the Rust hint stops a run that does not count the zero nibbles  *)
(* it counts: those in front when the nibbles of each byte change places,  *)
(* of which an odd path has none (KeyNibbles: RsExpectedZeroes).           *)
RsExpectedZeroes(path) ==
  IF Len(path) % 2 = 1 THEN 0
  ELSE LeadingZeroes([i \in DOMAIN path |->
                        path[IF i % 2 = 1 THEN i + 1 ELSE i - 1]])

RustStops(path) ==
  /\ hints = "rust"
  /\ \/ path[1] = 0
     \/ Len(path) > 1 /\ path[Len(path)] = 0 /\ path[Len(path) - 1] = 0
  /\ LeadingZeroes(path) \notin {Len(path), RsExpectedZeroes(path)}

(* Mutant: the path only has to be somewhere in the key.                   *)
PathInKeyAnywhere(path, key, checked) ==
  \E from \in 1..(Len(key) - Len(path) + 1) :
    SubSeq(key, from, from + Len(path) - 1) = path

(* The comparison of assert_subset_in_key_be: what follows in the key.     *)
PathInKey(path, key, checked) ==
  SubSeq(key, checked + 1, checked + Len(path)) = path

(* What assert_subset_in_key_be says of a path: it fails for no byte, for  *)
(* more than a Uint256 holds and for a path longer than what is left of    *)
(* the key.  Its answer is not known for a path whose bytes were reversed  *)
(* with padding, nor for all of a key of 64 nibbles: the power of 2 the    *)
(* key is divided by is then 2^256, which is 0 in a Uint256.               *)
SubsetTests(path, bytes, key, checked) ==
  LET rest == Len(key) - checked
  IN  IF \/ bytes = <<>> \/ Len(bytes) > 2 * HalfBytes
         \/ Len(path) > rest
        THEN {"stops"}
      ELSE IF rest = 2 * HalfNibbles \/ KeepsLength(bytes)
        THEN {"in", "out", "stops"}
      ELSE IF RustStops(path) THEN {"stops"}
      ELSE {IF PathInKey(path, key, checked) THEN "in" ELSE "out"}

(* A path of one byte is compared with one nibble or with none.            *)
NibbleTest(nibble, byte) ==
  IF nibble = NoNibble THEN "stops"
  ELSE IF nibble = byte % 16 THEN "in" ELSE "out"

PathTests(rlp, item, key, checked) ==
  IF item.type = "short"
    THEN SubsetTests(PathOf(rlp, item), PathBytes(rlp, item), key, checked)
  ELSE IF IsOdd(rlp, item)
    THEN {NibbleTest(n, Byte(rlp, item.value_at)) : n \in KeyNibble(key, checked)}
  ELSE {"in"}

-----------------------------------------------------------------------------
(* What decode_node_list_lazy returns: the nibbles checked so far, the     *)
(* item of interest and its length; or that an assertion failed.           *)
Found(checked, item, len) ==
  [failed |-> FALSE, checked |-> checked, item |-> item, len |-> len]
Failed == [failed |-> TRUE]

(* A key that is not in the trie: the length is -1 and the key counts as   *)
(* checked.                                                                *)
NotIncluded(rlp, key) == Found(Len(key), rlp, -1)

(* extract_le_hash_from_le_64_chunks_array reads the word that follows the *)
(* bytes of the hash, too: behind the node there may be none.              *)
HashReadable(rlp, at) == ((at + HashLen) \div WordBytes) * WordBytes < Len(rlp)

HashFound(rlp, at, checked) ==
  {Found(checked, Bytes(rlp, at, HashLen), HashLen)}
    \cup {d \in {Failed} : ~HashReadable(rlp, at)}

(* A node of two items: the key goes on with the path or it is not in the  *)
(* trie.  Nothing tells a leaf from an extension.                          *)
PathChecked(rlp, first, second, last_node, checked) ==
  LET all == checked + Len(PathOf(rlp, first))
  IN  IF ~last_node
        THEN IF second.len = HashLen THEN HashFound(rlp, second.value_at, all)
             ELSE {Failed}
      ELSE IF second.len = 0 THEN {Failed}
      ELSE {Found(all, Bytes(rlp, second.value_at, second.len), second.len)}

DecodeLeafOrExtension(rlp, first, second, last_node, key, checked) ==
  LET Outcomes(test) ==
        CASE test = "in"    -> PathChecked(rlp, first, second, last_node, checked)
          [] test = "out"   -> {NotIncluded(rlp, key)}
          [] test = "stops" -> {Failed}
  IN  UNION {Outcomes(test) : test \in PathTests(rlp, first, key, checked)}

(* The byte where the value of a child would start must be the prefix of   *)
(* an empty string if the key ends in the branch.                          *)
EmptyChild(rlp, nibble, key) ==
  LET value_at == BranchValueAt(rlp, nibble)
  IN  IF nibble # NoNibble /\ value_at # Nowhere /\ Byte(rlp, value_at) = StringPrefix
        THEN NotIncluded(rlp, key)
        ELSE Failed

(* A branch that is the last node.  A key that ends there has the last     *)
(* item of the branch, another one no child.                               *)
DecodeLastBranch(rlp, key, checked) ==
  IF Len(key) # checked
    THEN {EmptyChild(rlp, nibble, key) : nibble \in KeyNibble(key, checked)}
    ELSE LET start == JumpTillElement(rlp, 2, Branching, SecondItem(rlp).next)
             len   == Len(rlp) - start
         IN  {IF start = Nowhere \/ len <= 0 THEN Failed
              ELSE Found(checked, Bytes(rlp, start, len), len)}

(* A branch on the way: the hash of the child the next nibble names.       *)
ChildHash(rlp, nibble, checked) ==
  LET value_at == BranchValueAt(rlp, nibble)
  IN  IF nibble = NoNibble \/ value_at = Nowhere THEN {Failed}
      ELSE HashFound(rlp, value_at, checked + 1)

DecodeBranch(rlp, key, checked) ==
  UNION {ChildHash(rlp, nibble, checked) : nibble \in KeyNibble(key, checked)}

HasTwoItems(rlp) == SecondItem(rlp).next = Len(rlp)

DecodeNode(rlp, last_node, key, checked) ==
  IF \/ FirstItemStart(rlp) = Nowhere
     \/ FirstItem(rlp).type = HintError
     \/ SecondItem(rlp).type = HintError
    THEN {Failed}
  ELSE IF HasTwoItems(rlp)
    THEN DecodeLeafOrExtension(rlp, FirstItem(rlp), SecondItem(rlp),
                               last_node, key, checked)
  ELSE IF last_node THEN DecodeLastBranch(rlp, key, checked)
  ELSE DecodeBranch(rlp, key, checked)
=============================================================================
