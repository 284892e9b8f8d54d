-------------------------------- MODULE Mpt --------------------------------
(***************************************************************************)
(* verify_mpt_proof of lib/mpt.cairo: the nodes of a proof are hashed and  *)
(* decoded one after the other, from the root down the nibbles of the key. *)
(* A failed assertion ends the program.                                    *)
(*                                                                         *)
(* content, the trie the root belongs to, is known to the caller only; the *)
(* proof may be of another trie or of another key.  Whether a node of two  *)
(* items is a leaf or an extension is never looked at: a value of 32 bytes *)
(* is followed as a hash if more nodes come, and a hash is returned as the *)
(* value if none does.                                                     *)
(***************************************************************************)
EXTENDS MptNode

CONSTANTS
  Contents,  \* the tries, as functions from keys to values
  Keys,      \* the keys asked for and proved
  Proofs     \* what is given as a proof: sequences of any nodes

(* Keys have one length, as those of state and storage tries, that fits in *)
(* a Uint256, and a path of them is a short string; a length takes at most *)
(* two bytes.  A value may be the hash of a node.                          *)
KeysOf(tries) == UNION {DOMAIN trie : trie \in tries}

Nodes ==
  UNION ({Range(nodes) : nodes \in Proofs}
           \cup {Range(NodeAt(trie)) : trie \in Contents})

ValueFits(k, value) ==
  /\ value \in Seq(0..255) \/ \E node \in Nodes : value = HashOf(node)
  /\ Len(k) \div 2 + Len(value) + 5 < LengthBase * LengthBase

ASSUME MptAssumption ==
  /\ Keys \subseteq Seq(Nibble) /\ KeysOf(Contents) \subseteq Seq(Nibble)
  /\ \A k, l \in Keys \cup KeysOf(Contents) : Len(k) = Len(l)
  /\ \A k \in Keys : Len(k) <= 2 * HalfNibbles
  /\ \A k \in KeysOf(Contents) : Len(k) \div 2 < ShortMax
  /\ \A trie \in Contents :
       /\ IsFiniteSet(DOMAIN trie) /\ DOMAIN trie # {}
       /\ \A k \in DOMAIN trie : ValueFits(k, trie[k])
  /\ \A nodes \in Proofs : nodes # <<>> /\ nodes \in Seq(Range(nodes))

(* No two of these nodes have one hash, no hash starts with the prefix of  *)
(* an empty string, and no bytes of a value are a hash by chance.          *)
ASSUME HashAssumption ==
  /\ \A node \in Nodes : /\ HashHead(node) \in (0..255) \ {StringPrefix}
                        /\ HashTail(node) \notin 0..255
  /\ IsInjective([node \in Nodes |-> HashTail(node)])

VARIABLES
  content,
  key,
  proof,                      \* mpt_proof, a sequence of nodes
  node_index,
  n_nibbles_already_checked,
  hash_to_assert,
  result

arguments == <<content, key, proof, hints>>
vars == <<content, key, proof, hints, node_index, n_nibbles_already_checked,
          hash_to_assert, result>>

Verifying == [status |-> "verifying"]
AssertionFailed == [status |-> "failed"]
Returned(value, value_len) ==
  [status |-> "returned", value |-> value, value_len |-> value_len]

-----------------------------------------------------------------------------
Init ==
  /\ content \in Contents
  /\ hash_to_assert = HashOf(Root(content))
  /\ proof \in Proofs
  /\ key \in Keys
  /\ hints \in {"python", "rust"}
  /\ node_index = 0
  /\ n_nibbles_already_checked = 0
  /\ result = Verifying

LastNode == node_index = Len(proof) - 1
Node == proof[node_index + 1]
NodeHashed == HashOf(Node) = hash_to_assert
Decodings == DecodeNode(Node, LastNode, key, n_nibbles_already_checked)

(* The assertions in the decoding of a node and, for the last one, that    *)
(* the key is checked to its end.                                          *)
NodeAccepted(decoded) ==
  /\ ~decoded.failed
  /\ LastNode => decoded.checked = Len(key)

DescendNode ==
  /\ result = Verifying
  /\ ~LastNode
  /\ NodeHashed
  /\ \E decoded \in Decodings :
       /\ NodeAccepted(decoded)
       /\ node_index' = node_index + 1
       /\ n_nibbles_already_checked' = decoded.checked
       /\ hash_to_assert' = decoded.item
  /\ UNCHANGED <<arguments, result>>

ReturnItem ==
  /\ result = Verifying
  /\ LastNode
  /\ NodeHashed
  /\ \E decoded \in Decodings :
       /\ NodeAccepted(decoded)
       /\ result' = Returned(decoded.item, decoded.len)
  /\ UNCHANGED <<arguments, node_index, n_nibbles_already_checked,
                 hash_to_assert>>

FailAssertion ==
  /\ result = Verifying
  /\ NodeHashed => \E decoded \in Decodings : ~NodeAccepted(decoded)
  /\ result' = AssertionFailed
  /\ UNCHANGED <<arguments, node_index, n_nibbles_already_checked,
                 hash_to_assert>>

Next == DescendNode \/ ReturnItem \/ FailAssertion

Spec == Init /\ [][Next]_vars /\ WF_vars(Next)

-----------------------------------------------------------------------------
OwnProof == proof = ProofOf(content, key)
Present == key \in DOMAIN content

(* What the properties leave out.  A path that uint256_reverse_endian_no_  *)
(* padding pads (utils.cairo:147) is compared with other nibbles; a path   *)
(* in the root of a key of 64 nibbles is compared with the quotient by 0   *)
(* (uint256_pow2(256)); a value that is the hash of a node of the proof is *)
(* followed if its leaf is not the last node.                              *)
Covered ==
  /\ \A node \in Range(proof) :
       HasTwoItems(node) /\ FirstItem(node).type = "short" =>
         ~KeepsLength(PathBytes(node, FirstItem(node)))
  /\ Len(key) = 2 * HalfNibbles => IsBranch(content, <<>>)
  /\ Present => \A node \in Range(proof) : content[key] # HashOf(node)

(* Where a run may stop with a proof as it should be: at a nibble of the   *)
(* key the low half of which cannot be reached, at a path the Rust hint on *)
(* leading zeroes stops at, at a hash that ends with the words of a node.  *)
MayStop ==
  /\ NodeHashed
  /\ IF ~HasTwoItems(Node) THEN ~IndexServed(key, n_nibbles_already_checked)
     ELSE LET first == FirstItem(Node)
          IN  \/ /\ first.type = "byte" /\ IsOdd(Node, first)
                 /\ ~IndexServed(key, n_nibbles_already_checked)
              \/ first.type = "short" /\ RustStops(PathOf(Node, first))
              \/ ~LastNode /\ ~HashReadable(Node, SecondItem(Node).value_at)

(* Whatever proof is given, of this trie or of another, of this key or of  *)
(* another, and with the hints of the repository: a returned value is the  *)
(* one the trie of the root holds for the key, and a returned length of -1 *)
(* means the trie does not hold the key, unless the path of a node of the  *)
(* proof is padded, a key of 64 nibbles has a path in the root or a value  *)
(* is a hash of the proof (Covered).                                       *)
(* (It needs HashHead to differ from StringPrefix: the test for an empty   *)
(* child of the last branch looks at the first byte of the child's hash.)  *)
ResultCorrect ==
  (result.status = "returned" /\ Covered) =>
    IF Present
      THEN result = Returned(content[key], Len(content[key]))
      ELSE result.value_len = -1

(* With the hints of the repository and nothing that Covered leaves out: a *)
(* node whose hash is the asserted one is the node of the trie at the      *)
(* nibbles checked so far: offsets and nibble count never part.            *)
NodeOnKeyPath ==
  LET checked == SubSeq(key, 1, n_nibbles_already_checked)
  IN  (result = Verifying /\ NodeHashed /\ Covered) =>
        /\ KeysUnder(content, checked) # {}
        /\ Node = NodeAt(content)[checked]

(* The trie's own proof of a key it holds is accepted in the end, and the  *)
(* value returned: through leaves and extensions of odd and even paths and *)
(* items of every length, no assertion of the decoding fails but those     *)
(* that MayStop names.  (A run with such a proof starts with its root, and *)
(* NodeHashed.)                                                            *)
PresentKeyAnswered ==
  (NodeHashed /\ Present /\ OwnProof /\ Covered) ~>
    \/ Present /\ result = Returned(content[key], Len(content[key]))
    \/ result = AssertionFailed /\ MayStop

(* The trie's own proof that it does not hold a key is not refused, but    *)
(* where MayStop says.                                                     *)
(* mpt.cairo:512 says what is asserted of its last branch: "the item at    *)
(* the next nibble index should be empty".                                 *)
AbsentKeyNotRefused ==
  (result = AssertionFailed /\ ~Present /\ OwnProof /\ Covered) => MayStop
=============================================================================
