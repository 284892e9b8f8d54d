-------------------------------- MODULE Trie --------------------------------
(***************************************************************************)
(* Merkle Patricia tries as the nodes the Cairo program is given: the      *)
(* canonical trie of a set of keys, its nodes encoded in RLP, and the      *)
(* proof of a key, which is what eth_getProof returns.  None of this is    *)
(* code of the repository: the bytes are what lib/mpt.cairo expects.       *)
(*                                                                         *)
(* A byte is a number.  No code looks at one byte of a hash after the      *)
(* first one: all of them are the number HashTail gives the node, which no *)
(* other node has.  A value may be bytes or the hash of a node.            *)
(***************************************************************************)
EXTENDS Integers, FiniteSets, SequencesExt

CONSTANTS
  Branching,   \* children of a branch node: 16
  HashLen,     \* bytes of a hash: 32
  ShortMax,    \* longest string or list without bytes for its length: 55
  LengthBase,  \* one byte holds a length below it: 256
  HashHead(_), \* the first byte of the hash of a node
  HashTail(_)  \* the other bytes of it

(* The length of a branch or an extension takes at most two bytes.         *)
ASSUME TrieAssumption ==
  /\ Branching \in 2..16
  /\ HashLen \in 2..ShortMax
  /\ ShortMax \in 2..55
  /\ LengthBase \in 2..256
  /\ Branching * (HashLen + 1) + 1 < LengthBase * LengthBase
  /\ (ShortMax + 1) + (HashLen + 1) < LengthBase * LengthBase

Nibble == 0..(Branching - 1)

StringPrefix == 128
ListPrefix == 192

-----------------------------------------------------------------------------
HashOf(node) ==
  [i \in 1..HashLen |-> IF i = 1 THEN HashHead(node) ELSE HashTail(node)]

(* A length in big endian.                                                 *)
LengthBytes(len) ==
  IF len < LengthBase THEN <<len>>
  ELSE <<len \div LengthBase, len % LengthBase>>

Encode(prefix, bytes) ==
  LET len == Len(bytes)
  IN  IF len <= ShortMax THEN <<prefix + len>> \o bytes
      ELSE <<prefix + ShortMax + Len(LengthBytes(len))>>
             \o LengthBytes(len) \o bytes

(* RLP of a string of numbers, of a hash and of a list of encoded items.   *)
RlpString(bytes) ==
  IF Len(bytes) = 1 /\ bytes[1] < StringPrefix THEN bytes
  ELSE Encode(StringPrefix, bytes)

RlpHash(node) == Encode(StringPrefix, HashOf(node))

RlpList(items) == Encode(ListPrefix, FlattenSeq(items))

(* Hex-prefix encoding of a path: the high nibble of the first byte tells  *)
(* leaf (2) from extension (0) and an odd (+ 1) from an even path.         *)
HexPrefix(path, flag) ==
  LET odd == Len(path) % 2
      first == 16 * (flag + odd) + (IF odd = 1 THEN path[1] ELSE 0)
  IN  <<first>> \o [i \in 1..(Len(path) \div 2) |->
                      16 * path[odd + 2 * i - 1] + path[odd + 2 * i]]

-----------------------------------------------------------------------------
(* content maps the keys of a trie to their values.                        *)
KeysUnder(content, prefix) ==
  {key \in DOMAIN content : IsPrefix(prefix, key)}

(* The nibbles shared by all keys that start with prefix: if they are more *)
(* than prefix there is no branch at prefix.                               *)
Shared(content, prefix) ==
  LET common == CommonPrefixes(KeysUnder(content, prefix))
  IN  CHOOSE shared \in common : \A other \in common : Len(other) <= Len(shared)

IsLeaf(content, prefix) == Cardinality(KeysUnder(content, prefix)) = 1
IsBranch(content, prefix) ==
  ~IsLeaf(content, prefix) /\ Shared(content, prefix) = prefix

(* The node of a trie at each prefix of a key.                             *)
KeyPrefixes(content) == UNION {Prefixes(key) : key \in DOMAIN content}

NodeAt(content) ==
  LET node[prefix \in KeyPrefixes(content)] ==
        LET shared == Shared(content, prefix)
            path   == SubSeq(shared, Len(prefix) + 1, Len(shared))
            Child(nibble) ==
              IF KeysUnder(content, Append(prefix, nibble)) # {}
                THEN RlpHash(node[Append(prefix, nibble)])
                ELSE RlpString(<<>>)
        IN  IF IsLeaf(content, prefix)
              THEN RlpList(<<RlpString(HexPrefix(path, 2)),
                             RlpString(content[shared])>>)
            ELSE IF IsBranch(content, prefix)
              THEN RlpList(Append([i \in 1..Branching |-> Child(i - 1)],
                                  RlpString(IF prefix \in DOMAIN content
                                              THEN content[prefix] ELSE <<>>)))
            ELSE RlpList(<<RlpString(HexPrefix(path, 0)),
                           RlpHash(node[shared])>>)
  IN  node

Root(content) == NodeAt(content)[<<>>]

(* Where the proof of a key goes from the node at prefix: down the path of *)
(* an extension or to the child of a branch, if the trie goes on there.    *)
NextPrefixes(content, key, prefix) ==
  IF IsLeaf(content, prefix) THEN {}
  ELSE IF IsBranch(content, prefix)
    THEN {p \in Prefixes(key) : /\ Len(p) = Len(prefix) + 1
                                /\ KeysUnder(content, p) # {}}
  ELSE {Shared(content, prefix)} \cap Prefixes(key)

(* The proof of a key: the nodes it goes through, from the root.           *)
ProofOf(content, key) ==
  LET From[prefix \in Seq(Nibble)] ==
        LET next == NextPrefixes(content, key, prefix)
        IN  <<NodeAt(content)[prefix]>>
              \o (IF next = {} THEN <<>> ELSE From[CHOOSE p \in next : TRUE])
  IN  From[<<>>]
=============================================================================
