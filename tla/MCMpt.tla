------------------------------- MODULE MCMpt -------------------------------
EXTENDS Mpt

MCHashHead(node) == 1
MCHashTail(node) ==
  LET sum[i \in 0..Len(node)] ==
        IF i = 0 THEN 0 ELSE (31 * sum[i - 1] + node[i]) % 1000003
  IN  256 + sum[Len(node)]

(* Keys of twelve nibbles fill a Uint256 of six bytes.  The high half of   *)
(* the first three is 0; they share ten and eleven nibbles.                *)
LowKeys == {<<0, 0, 0, 0, 0, 0, 1, 2, 3, 1, 1, 2>>,
            <<0, 0, 0, 0, 0, 0, 1, 2, 3, 1, 1, 3>>,
            <<0, 0, 0, 0, 0, 0, 1, 2, 3, 1, 2, 3>>}

(* These share two: an extension of one nibble leads to their branch.      *)
NearKeys == {<<2, 1, 0, 2, 1, 1, 1, 1, 1, 1, 1, 1>>,
             <<2, 1, 3, 1, 0, 0, 0, 0, 1, 1, 0, 0>>}

(* These share nine: the nibble they part at is one of the low half.       *)
FarKeys == {<<1, 2, 3, 1, 2, 3, 1, 2, 3, 1, 2, 3>>,
            <<1, 2, 3, 1, 2, 3, 1, 2, 3, 0, 2, 3>>}

(* Leaves of ten nibbles; at the path of the first the Rust hint stops.    *)
LateKeys == {<<3, 1, 0, 2, 1, 1, 1, 1, 1, 1, 1, 1>>,
             <<3, 2, 1, 1, 0, 0, 2, 0, 0, 0, 0, 0>>}

(* Below the first nibble the path of this key is padded when reversed.    *)
PaddedKey == <<0, 2, 1, 3, 1, 2, 0, 0, 1, 2, 0, 0>>

(* What follows the first nibble of this key is also what it starts with,  *)
(* as it is of the last of those that are in no trie.                      *)
RepeatedKey == [i \in 1..12 |-> 3]

AbsentKeys == {<<1, 1, 2, 3, 0, 0, 0, 0, 0, 0, 1, 1>>,
               <<2, 1, 1, 1, 1, 1, 1, 1, 1, 1, 1, 1>>,
               [i \in 1..12 |-> IF i = 12 THEN 1 ELSE 3]}

TrieKeys == LowKeys \cup NearKeys \cup FarKeys \cup LateKeys
MCKeys == TrieKeys \cup {PaddedKey, RepeatedKey} \cup AbsentKeys

(* A value is one small byte, a short string or a long string with one or  *)
(* two bytes of length.  Values change from an old trie to a new one.      *)
ValueOf(k, version) ==
  CASE k \in LowKeys -> <<4 * k[11] + k[12] + 40 * version>>
    [] k \in NearKeys -> <<200, k[3]>>
    [] k \in FarKeys -> [i \in 1..8 |-> i]
    [] OTHER -> [i \in 1..17 |-> i]

TrieOf(keys, version) == [k \in keys |-> ValueOf(k, version)]

(* The trie of most keys, a newer one of two branches of it, one with the  *)
(* padded path, one of a single leaf and one with a value that is the hash *)
(* of a leaf: of one that has no path left.                                *)
LeafWithoutPath ==
  RlpList(<<RlpString(HexPrefix(<<>>, 2)),
            RlpString(ValueOf(<<0, 0, 0, 0, 0, 0, 1, 2, 3, 1, 1, 2>>, 0))>>)

MCContents ==
  {TrieOf(TrieKeys, 0),
   TrieOf(LowKeys \cup NearKeys, 1),
   TrieOf(FarKeys \cup {PaddedKey, RepeatedKey}, 0),
   TrieOf({<<2, 1, 0, 2, 1, 1, 1, 1, 1, 1, 1, 1>>}, 0),
   [k \in NearKeys \cup FarKeys |-> HashOf(LeafWithoutPath)]}

(* The proof of every key by every trie: whole, without its first or its   *)
(* last node, and with the leaf that some values are the hash of behind.   *)
MCProofs ==
  LET Whole == {ProofOf(trie, k) : trie \in MCContents, k \in MCKeys}
  IN  (UNION {{p, Tail(p), Front(p), Append(p, LeafWithoutPath)} : p \in Whole})
        \ {<<>>}
=============================================================================
