------------------------------ MODULE MptProofs ------------------------------
(***************************************************************************)
(* What verify_mpt_proof returns is what the trie of the root holds, for   *)
(* every set of tries and of keys of one length and whatever is given as a *)
(* proof, if no two of the nodes have one hash.                            *)
(***************************************************************************)
EXTENDS Mpt, MmrPeaksProofs, FiniteSetTheorems

(* The bytes of nodes: numbers and the tails of hashes.                    *)
Symbol == Int \cup {HashTail(node) : node \in Nodes}

-----------------------------------------------------------------------------
(* Sequences and their beginnings.                                         *)
LEMMA IsPrefixIs ==
  ASSUME NEW S, NEW s \in Seq(S), NEW t \in Seq(S)
  PROVE  IsPrefix(s, t) <=> /\ Len(s) <= Len(t)
                            /\ \A i \in 1..Len(s) : s[i] = t[i]
<1>1. Len(s) \in Nat /\ Len(t) \in Nat
  BY LenProperties
<1>2. SubSeq(s, 1, Len(s)) = s
  BY SubSeqFull
<1>3. ASSUME Len(s) <= Len(t)
      PROVE  /\ SubSeq(t, 1, Len(s)) \in Seq(S)
             /\ Len(SubSeq(t, 1, Len(s))) = Len(s)
             /\ \A i \in 1..Len(s) : SubSeq(t, 1, Len(s))[i] = t[i]
  <2>1. \A i \in 1..Len(s) : t[i] \in S
    BY <1>1, <1>3, LenProperties
  <2> HIDE DEF IsPrefix
  <2>2. /\ SubSeq(t, 1, Len(s)) \in Seq(S)
        /\ Len(SubSeq(t, 1, Len(s))) = IF 1 <= Len(s) THEN Len(s) - 1 + 1 ELSE 0
        /\ \A i \in 1..(Len(s) - 1 + 1) : SubSeq(t, 1, Len(s))[i] = t[1 + i - 1]
    BY <1>1, <2>1, SubSeqProperties
  <2> QED
    BY <1>1, <2>2
<1>4. CASE Len(s) <= Len(t)
  <2>1. SubSeq(t, 1, Len(s)) = s <=> \A i \in 1..Len(s) : s[i] = t[i]
    BY <1>3, <1>4, SeqEqual
  <2> QED
    BY <1>2, <1>4, <2>1 DEF IsPrefix
<1> QED
  BY <1>4 DEF IsPrefix

(* The first n elements.                                                   *)
LEMMA FrontIs ==
  ASSUME NEW S, NEW s \in Seq(S), NEW n \in 0..Len(s)
  PROVE  /\ SubSeq(s, 1, n) \in Seq(S)
         /\ Len(SubSeq(s, 1, n)) = n
         /\ \A i \in 1..n : SubSeq(s, 1, n)[i] = s[i]
         /\ IsPrefix(SubSeq(s, 1, n), s)
<1>1. Len(s) \in Nat /\ n \in Nat /\ n <= Len(s)
  BY LenProperties
<1>2. \A i \in 1..n : s[i] \in S
  BY <1>1, LenProperties
<1>3. /\ SubSeq(s, 1, n) \in Seq(S)
      /\ Len(SubSeq(s, 1, n)) = IF 1 <= n THEN n - 1 + 1 ELSE 0
      /\ \A i \in 1..(n - 1 + 1) : SubSeq(s, 1, n)[i] = s[1 + i - 1]
  BY <1>1, <1>2, SubSeqProperties
<1>4. /\ SubSeq(s, 1, n) \in Seq(S)
      /\ Len(SubSeq(s, 1, n)) = n
      /\ \A i \in 1..n : SubSeq(s, 1, n)[i] = s[i]
  BY <1>1, <1>3
<1> QED
  BY <1>1, <1>4, IsPrefixIs

(* The elements behind the first n, of which there are m.                  *)
LEMMA BehindIs ==
  ASSUME NEW S, NEW s \in Seq(S), NEW n \in Nat, NEW m \in Nat,
         n + m <= Len(s)
  PROVE  /\ SubSeq(s, n + 1, n + m) \in Seq(S)
         /\ Len(SubSeq(s, n + 1, n + m)) = m
         /\ \A i \in 1..m : SubSeq(s, n + 1, n + m)[i] = s[n + i]
<1>1. Len(s) \in Nat
  BY LenProperties
<1>2. \A i \in (n + 1)..(n + m) : s[i] \in S
  BY <1>1, LenProperties
<1>3. /\ SubSeq(s, n + 1, n + m) \in Seq(S)
      /\ Len(SubSeq(s, n + 1, n + m))
           = IF n + 1 <= n + m THEN (n + m) - (n + 1) + 1 ELSE 0
      /\ \A i \in 1..((n + m) - (n + 1) + 1) :
           SubSeq(s, n + 1, n + m)[i] = s[(n + 1) + i - 1]
  <2>1. n + 1 \in Int /\ n + m \in Int
    OBVIOUS
  <2> QED
    BY <1>2, <2>1, SubSeqProperties
<1> QED
  BY <1>1, <1>3

-----------------------------------------------------------------------------
(* The keys of a trie and those of them under a prefix.                    *)
LEMMA KeyTypes ==
  ASSUME NEW trie \in Contents, NEW k \in DOMAIN trie
  PROVE  k \in Seq(Nibble) /\ k \in KeysOf(Contents)
BY MptAssumption DEF KeysOf

LEMMA KeysUnderIs ==
  ASSUME NEW trie \in Contents, NEW prefix \in Seq(Nibble), NEW k
  PROVE  k \in KeysUnder(trie, prefix)
           <=> /\ k \in DOMAIN trie
               /\ Len(prefix) <= Len(k)
               /\ \A i \in 1..Len(prefix) : prefix[i] = k[i]
<1>1. CASE k \in DOMAIN trie
  BY <1>1, KeyTypes, IsPrefixIs DEF KeysUnder
<1>2. CASE k \notin DOMAIN trie
  BY <1>2 DEF KeysUnder
<1> QED
  BY <1>1, <1>2

LEMMA KeyPrefixesIs ==
  ASSUME NEW trie \in Contents, NEW prefix
  PROVE  prefix \in KeyPrefixes(trie)
           <=> prefix \in Seq(Nibble) /\ KeysUnder(trie, prefix) # {}
<1>1. ASSUME prefix \in KeyPrefixes(trie)
      PROVE  prefix \in Seq(Nibble) /\ KeysUnder(trie, prefix) # {}
  <2>1. PICK k \in DOMAIN trie : prefix \in Prefixes(k)
    BY <1>1 DEF KeyPrefixes
  <2>2. PICK n \in 0..Len(k) : prefix = SubSeq(k, 1, n)
    BY <2>1 DEF Prefixes
  <2>3. prefix \in Seq(Nibble) /\ IsPrefix(prefix, k)
    BY <2>2, KeyTypes, FrontIs
  <2> QED
    BY <2>3 DEF KeysUnder
<1>2. ASSUME prefix \in Seq(Nibble), KeysUnder(trie, prefix) # {}
      PROVE  prefix \in KeyPrefixes(trie)
  <2>1. PICK k : k \in KeysUnder(trie, prefix)
    BY <1>2
  <2>2. /\ k \in DOMAIN trie /\ k \in Seq(Nibble)
        /\ Len(prefix) <= Len(k)
        /\ \A i \in 1..Len(prefix) : prefix[i] = k[i]
    BY <1>2, <2>1, KeysUnderIs, KeyTypes
  <2>3. Len(prefix) \in 0..Len(k)
    BY <1>2, <2>2, LenProperties
  <2>4. SubSeq(k, 1, Len(prefix)) = prefix
    <3> DEFINE front == SubSeq(k, 1, Len(prefix))
    <3>1. /\ front \in Seq(Nibble) /\ Len(front) = Len(prefix)
          /\ \A i \in 1..Len(prefix) : front[i] = k[i]
      BY <2>2, <2>3, FrontIs
    <3> HIDE DEF front
    <3>2. \A i \in 1..Len(front) : front[i] = prefix[i]
      BY <2>2, <3>1
    <3>3. front = prefix
      BY <1>2, <3>1, <3>2, SeqEqual
    <3> QED
      BY <3>3 DEF front
  <2>5. prefix \in Prefixes(k)
    BY <2>3, <2>4 DEF Prefixes
  <2> QED
    BY <2>2, <2>5 DEF KeyPrefixes
<1> QED
  BY <1>1, <1>2

(* What all keys under a prefix share: they all begin with it, it goes on  *)
(* from the prefix, and no longer sequence does.                           *)
LEMMA SharedIs ==
  ASSUME NEW trie \in Contents, NEW prefix \in KeyPrefixes(trie)
  PROVE  /\ Shared(trie, prefix) \in Seq(Nibble)
         /\ \A k \in KeysUnder(trie, prefix) : IsPrefix(Shared(trie, prefix), k)
         /\ \A other \in Seq(Nibble) :
              (\A k \in KeysUnder(trie, prefix) : IsPrefix(other, k))
                => Len(other) <= Len(Shared(trie, prefix))
<1> DEFINE U == KeysUnder(trie, prefix)
           C == CommonPrefixes(U)
<1>1. /\ prefix \in Seq(Nibble) /\ U # {}
      /\ \A k \in U : k \in Seq(Nibble) /\ IsPrefix(prefix, k)
  BY KeyPrefixesIs, KeyTypes DEF KeysUnder
<1> HIDE DEF U
<1>2. \A other : other \in C <=> /\ other \in Seq(Nibble)
                                 /\ \A k \in U : IsPrefix(other, k)
  <2> TAKE other
  <2>1. ASSUME other \in C
        PROVE  /\ other \in Seq(Nibble)
               /\ \A k \in U : IsPrefix(other, k)
    <3>1. /\ other \in UNION {Prefixes(k) : k \in U}
          /\ \A k \in U : IsPrefix(other, k)
      BY <2>1 DEF CommonPrefixes
    <3>2. PICK k \in U : other \in Prefixes(k)
      BY <3>1
    <3>3. PICK n \in 0..Len(k) : other = SubSeq(k, 1, n)
      BY <3>2 DEF Prefixes
    <3> QED
      BY <1>1, <3>1, <3>3, FrontIs
  <2>2. ASSUME other \in Seq(Nibble), \A k \in U : IsPrefix(other, k)
        PROVE  other \in C
    <3>1. PICK k : k \in U
      BY <1>1
    <3>2. k \in Seq(Nibble) /\ IsPrefix(other, k)
      BY <1>1, <2>2, <3>1
    <3>3. Len(other) \in 0..Len(k) /\ \A i \in 1..Len(other) : other[i] = k[i]
      BY <2>2, <3>2, IsPrefixIs, LenProperties
    <3>4. SubSeq(k, 1, Len(other)) = other
      <4> DEFINE front == SubSeq(k, 1, Len(other))
      <4>1. /\ front \in Seq(Nibble) /\ Len(front) = Len(other)
            /\ \A i \in 1..Len(other) : front[i] = k[i]
        BY <3>2, <3>3, FrontIs
      <4> HIDE DEF front
      <4>2. \A i \in 1..Len(front) : front[i] = other[i]
        BY <3>3, <4>1
      <4>3. front = other
        BY <2>2, <4>1, <4>2, SeqEqual
      <4> QED
        BY <4>3 DEF front
    <3>5. other \in Prefixes(k)
      BY <3>3, <3>4 DEF Prefixes
    <3> QED
      BY <2>2, <3>1, <3>5 DEF CommonPrefixes
  <2> QED
    BY <2>1, <2>2
<1> HIDE DEF C
<1>3. prefix \in C
  BY <1>1, <1>2
<1>4. PICK bound \in Nat : \A other \in C : Len(other) \in Nat /\ Len(other) <= bound
  <2>1. PICK k : k \in U
    BY <1>1
  <2>2. k \in Seq(Nibble) /\ Len(k) \in Nat
    BY <1>1, <2>1, LenProperties
  <2>3. \A other \in C : Len(other) \in Nat /\ Len(other) <= Len(k)
    BY <1>2, <2>1, <2>2, LenProperties, IsPrefixIs
  <2> QED
    BY <2>2, <2>3
<1> DEFINE E == {n \in Nat : \A other \in C : Len(other) <= bound - n}
           Longest(s) == s \in C /\ \A other \in C : Len(other) <= Len(s)
<1>5. \E s : Longest(s)
  <2> SUFFICES ASSUME \A s : ~Longest(s)
               PROVE  FALSE
    OBVIOUS
  <2>1. 0 \in E
    BY <1>4
  <2>2. ASSUME NEW n \in Nat, n \in E
        PROVE  n + 1 \in E
    <3> SUFFICES ASSUME NEW other \in C
                 PROVE  Len(other) <= bound - (n + 1)
      OBVIOUS
    <3>1. PICK longer \in C : ~(Len(longer) <= Len(other))
      OBVIOUS
    <3>2. Len(longer) <= bound - n /\ Len(longer) \in Nat /\ Len(other) \in Nat
      BY <1>4, <2>2
    <3> QED
      BY <3>1, <3>2
  <2>3. \A n \in Nat : n \in E
    <3> HIDE DEF E
    <3> QED
      BY <2>1, <2>2, NatSetInduction
  <2>4. Len(prefix) <= bound - (bound + 1)
    <3>0. bound + 1 \in Nat
      OBVIOUS
    <3>1. bound + 1 \in E
      <4> HIDE DEF E
      <4> QED
        BY <2>3, <3>0
    <3>2. \A other \in C : Len(other) <= bound - (bound + 1)
      BY <3>1
    <3> QED
      BY <1>3, <3>2
  <2> QED
    BY <1>3, <1>4, <2>4
<1>6. Longest(Shared(trie, prefix))
  <2>1. Shared(trie, prefix)
          = CHOOSE s \in C : \A other \in C : Len(other) <= Len(s)
    BY DEF Shared, C, U
  <2> QED
    BY <1>5, <2>1
<1>7. /\ Shared(trie, prefix) \in Seq(Nibble)
      /\ \A k \in U : IsPrefix(Shared(trie, prefix), k)
      /\ \A other \in Seq(Nibble) :
           (\A k \in U : IsPrefix(other, k)) => Len(other) <= Len(Shared(trie, prefix))
  BY <1>2, <1>6
<1> QED
  BY <1>7 DEF U

(* It is a prefix of keys too, and of the same ones.                       *)
LEMMA SharedGoesOn ==
  ASSUME NEW trie \in Contents, NEW prefix \in KeyPrefixes(trie)
  PROVE  /\ IsPrefix(prefix, Shared(trie, prefix))
         /\ Shared(trie, prefix) \in KeyPrefixes(trie)
         /\ KeysUnder(trie, Shared(trie, prefix)) = KeysUnder(trie, prefix)
<1> DEFINE s == Shared(trie, prefix)
<1>1. /\ prefix \in Seq(Nibble) /\ KeysUnder(trie, prefix) # {}
      /\ \A k \in KeysUnder(trie, prefix) : k \in Seq(Nibble) /\ IsPrefix(prefix, k)
  BY KeyPrefixesIs, KeyTypes DEF KeysUnder
<1>2. /\ s \in Seq(Nibble)
      /\ \A k \in KeysUnder(trie, prefix) : IsPrefix(s, k)
      /\ Len(prefix) <= Len(s)
  BY <1>1, SharedIs
<1> HIDE DEF s
<1>3. PICK key0 : key0 \in KeysUnder(trie, prefix)
  BY <1>1
<1>4. IsPrefix(prefix, s)
  <2>1. /\ \A i \in 1..Len(prefix) : prefix[i] = key0[i]
        /\ \A i \in 1..Len(s) : s[i] = key0[i]
    BY <1>1, <1>2, <1>3, IsPrefixIs
  <2>2. Len(prefix) \in Nat /\ Len(s) \in Nat
    BY <1>1, <1>2, LenProperties
  <2> QED
    BY <1>1, <1>2, <2>1, <2>2, IsPrefixIs
<1>5. ASSUME NEW k
      PROVE  k \in KeysUnder(trie, s) <=> k \in KeysUnder(trie, prefix)
  <2>1. ASSUME k \in KeysUnder(trie, s)
        PROVE  k \in KeysUnder(trie, prefix)
    <3>1. k \in DOMAIN trie /\ Len(s) <= Len(k) /\ \A i \in 1..Len(s) : s[i] = k[i]
      BY <1>2, <2>1, KeysUnderIs
    <3>2. \A i \in 1..Len(prefix) : prefix[i] = s[i]
      BY <1>1, <1>2, <1>4, IsPrefixIs
    <3>3. Len(prefix) \in Nat /\ Len(s) \in Nat /\ Len(k) \in Nat
      BY <1>1, <1>2, <3>1, KeyTypes, LenProperties
    <3>4. /\ Len(prefix) <= Len(k)
          /\ \A i \in 1..Len(prefix) : prefix[i] = k[i]
      BY <1>2, <3>1, <3>2, <3>3
    <3> QED
      BY <1>1, <3>1, <3>4, KeysUnderIs
  <2>2. ASSUME k \in KeysUnder(trie, prefix)
        PROVE  k \in KeysUnder(trie, s)
    BY <1>2, <2>2 DEF KeysUnder
  <2> QED
    BY <2>1, <2>2
<1>6. KeysUnder(trie, s) = KeysUnder(trie, prefix)
  <2>1. /\ KeysUnder(trie, s) \subseteq DOMAIN trie
        /\ KeysUnder(trie, prefix) \subseteq DOMAIN trie
    BY DEF KeysUnder
  <2> QED
    BY <1>5
<1>7. s \in KeyPrefixes(trie)
  BY <1>1, <1>2, <1>6, KeyPrefixesIs
<1> QED
  BY <1>4, <1>6, <1>7 DEF s

(* A prefix of a single key: what is shared is the key.                    *)
LEMMA SharedOfOne ==
  ASSUME NEW trie \in Contents, NEW prefix \in KeyPrefixes(trie), NEW k,
         KeysUnder(trie, prefix) = {k}
  PROVE  Shared(trie, prefix) = k
<1> DEFINE s == Shared(trie, prefix)
<1>1. k \in Seq(Nibble)
  BY KeyTypes DEF KeysUnder
<1>2. s \in Seq(Nibble) /\ IsPrefix(s, k)
  BY SharedIs
<1>3. IsPrefix(k, k)
  BY <1>1, IsPrefixIs, LenProperties
<1>4. Len(k) <= Len(s)
  BY <1>1, <1>3, SharedIs
<1> HIDE DEF s
<1>5. Len(s) = Len(k) /\ \A i \in 1..Len(s) : s[i] = k[i]
  BY <1>1, <1>2, <1>4, IsPrefixIs, LenProperties
<1>6. s = k
  BY <1>1, <1>2, <1>5, SeqEqual
<1> QED
  BY <1>6 DEF s

(* Keys have one length: one that a prefix is as long as is the only one   *)
(* under it.                                                               *)
LEMMA NoKeyInside ==
  ASSUME NEW trie \in Contents, NEW prefix \in KeyPrefixes(trie),
         NEW k \in Keys \cup DOMAIN trie
  PROVE  /\ Len(prefix) <= Len(k)
         /\ Len(prefix) = Len(k) => KeysUnder(trie, prefix) = {prefix}
         /\ ~IsLeaf(trie, prefix) => Len(prefix) < Len(k) /\ prefix \notin DOMAIN trie
<1>1. /\ prefix \in Seq(Nibble) /\ KeysUnder(trie, prefix) # {}
      /\ Len(prefix) \in Nat
  BY KeyPrefixesIs, LenProperties
<1>2. \A l \in DOMAIN trie : Len(l) = Len(k) /\ l \in Seq(Nibble) /\ Len(k) \in Nat
  BY KeyTypes, MptAssumption, LenProperties
<1>3. Len(prefix) <= Len(k)
  <2>1. PICK l : l \in KeysUnder(trie, prefix)
    BY <1>1
  <2> QED
    BY <1>1, <1>2, <2>1, KeysUnderIs
<1>4. ASSUME Len(prefix) = Len(k)
      PROVE  KeysUnder(trie, prefix) = {prefix}
  <2>1. ASSUME NEW l \in KeysUnder(trie, prefix)
        PROVE  l = prefix
    <3>1. /\ l \in Seq(Nibble) /\ Len(prefix) = Len(l)
          /\ \A i \in 1..Len(prefix) : prefix[i] = l[i]
      BY <1>1, <1>2, <1>4, KeysUnderIs
    <3> QED
      BY <1>1, <3>1, SeqEqual
  <2> QED
    BY <1>1, <2>1
<1>5. ASSUME Len(prefix) = Len(k)
      PROVE  IsLeaf(trie, prefix)
  BY <1>4, <1>5, FS_Singleton DEF IsLeaf
<1>6. prefix \in DOMAIN trie => Len(prefix) = Len(k)
  BY <1>2
<1> QED
  BY <1>1, <1>2, <1>3, <1>4, <1>5, <1>6

LEMMA LeafHasOneKey ==
  ASSUME NEW trie \in Contents, NEW prefix \in KeyPrefixes(trie)
  PROVE  IsLeaf(trie, prefix) <=> \E k : KeysUnder(trie, prefix) = {k}
<1>1. IsFiniteSet(DOMAIN trie) /\ KeysUnder(trie, prefix) \in SUBSET DOMAIN trie
  BY MptAssumption DEF KeysUnder
<1>2. IsFiniteSet(KeysUnder(trie, prefix))
  BY <1>1, FS_Subset
<1> QED
  BY <1>2, FS_Singleton DEF IsLeaf

-----------------------------------------------------------------------------
(* The equation NodeAt solves.                                             *)
ItemOfChild(trie, node, prefix, nibble) ==
  IF KeysUnder(trie, Append(prefix, nibble)) # {}
    THEN RlpHash(node[Append(prefix, nibble)])
    ELSE RlpString(<<>>)

NodeBody(trie, node, prefix) ==
  LET shared == Shared(trie, prefix)
      path   == SubSeq(shared, Len(prefix) + 1, Len(shared))
  IN  IF IsLeaf(trie, prefix)
        THEN RlpList(<<RlpString(HexPrefix(path, 2)), RlpString(trie[shared])>>)
      ELSE IF IsBranch(trie, prefix)
        THEN RlpList(Append([i \in 1..Branching |->
                               ItemOfChild(trie, node, prefix, i - 1)],
                            RlpString(IF prefix \in DOMAIN trie
                                        THEN trie[prefix] ELSE <<>>)))
      ELSE RlpList(<<RlpString(HexPrefix(path, 0)), RlpHash(node[shared])>>)

(* It looks at nodes of longer prefixes only.                              *)
LEMMA NodeBodyLooksDown ==
  ASSUME NEW trie \in Contents, NEW prefix \in KeyPrefixes(trie),
         NEW f, NEW g,
         \A p \in KeyPrefixes(trie) : Len(prefix) < Len(p) => f[p] = g[p]
  PROVE  NodeBody(trie, f, prefix) = NodeBody(trie, g, prefix)
<1>1. prefix \in Seq(Nibble) /\ Len(prefix) \in Nat
  BY KeyPrefixesIs, LenProperties
<1>2. CASE IsLeaf(trie, prefix)
  BY <1>2 DEF NodeBody
<1>3. CASE ~IsLeaf(trie, prefix) /\ IsBranch(trie, prefix)
  <2>1. ASSUME NEW i \in 1..Branching
        PROVE  ItemOfChild(trie, f, prefix, i - 1) = ItemOfChild(trie, g, prefix, i - 1)
    <3>1. i - 1 \in Nibble
      BY TrieAssumption DEF Nibble
    <3> DEFINE child == Append(prefix, i - 1)
    <3>2. child \in Seq(Nibble) /\ Len(prefix) < Len(child)
      BY <1>1, <3>1, AppendProperties
    <3> HIDE DEF child
    <3>3. KeysUnder(trie, child) # {} => f[child] = g[child]
      BY <3>2, KeyPrefixesIs
    <3> QED
      BY <3>3 DEF ItemOfChild, child
  <2>2. [i \in 1..Branching |-> ItemOfChild(trie, f, prefix, i - 1)]
          = [i \in 1..Branching |-> ItemOfChild(trie, g, prefix, i - 1)]
    BY <2>1
  <2> QED
    BY <1>3, <2>2, Zenon DEF NodeBody
<1>4. CASE ~IsLeaf(trie, prefix) /\ ~IsBranch(trie, prefix)
  <2> DEFINE s == Shared(trie, prefix)
  <2>1. s # prefix /\ s \in KeyPrefixes(trie) /\ IsPrefix(prefix, s) /\ s \in Seq(Nibble)
    BY <1>4, SharedGoesOn, SharedIs DEF IsBranch
  <2> HIDE DEF s
  <2>2. Len(prefix) < Len(s)
    <3>1. /\ Len(prefix) <= Len(s) /\ Len(s) \in Nat
          /\ \A i \in 1..Len(prefix) : prefix[i] = s[i]
      BY <1>1, <2>1, IsPrefixIs, LenProperties
    <3>2. Len(prefix) # Len(s)
      BY <1>1, <2>1, <3>1, SeqEqual
    <3> QED
      BY <1>1, <3>1, <3>2
  <2>3. f[s] = g[s]
    BY <2>1, <2>2
  <2> QED
    BY <1>4, <2>3 DEF NodeBody, s
<1> QED
  BY <1>2, <1>3, <1>4

LEMMA NodeAtUnfold ==
  ASSUME NEW trie \in Contents
  PROVE  /\ DOMAIN NodeAt(trie) = KeyPrefixes(trie)
         /\ \A prefix \in KeyPrefixes(trie) :
              NodeAt(trie)[prefix] = NodeBody(trie, NodeAt(trie), prefix)
<1> DEFINE P == KeyPrefixes(trie)
           Solves(f) == f = [prefix \in P |-> NodeBody(trie, f, prefix)]
<1>1. NodeAt(trie) = CHOOSE f : Solves(f)
  BY Zenon DEF NodeAt, NodeBody, ItemOfChild
<1>2. \A prefix \in P : Len(prefix) \in Nat
  BY KeyPrefixesIs, LenProperties
<1>3. PICK bound \in Nat : \A prefix \in P : Len(prefix) <= bound
  <2>1. PICK k : k \in DOMAIN trie
    BY MptAssumption
  <2>2. Len(k) \in Nat /\ \A prefix \in P : Len(prefix) <= Len(k)
    BY <2>1, NoKeyInside, KeyTypes, LenProperties
  <2> QED
    BY <2>2
<1> HIDE DEF P
<1> DEFINE Below(f, n) == \A prefix \in P :
                            Len(prefix) > bound - n
                              => f[prefix] = NodeBody(trie, f, prefix)
           E == {n \in Nat : \E f : f = [prefix \in P |-> f[prefix]] /\ Below(f, n)}
<1>4. 0 \in E
  <2> DEFINE f == [prefix \in P |-> 0]
  <2>1. f = [prefix \in P |-> f[prefix]]
    OBVIOUS
  <2>2. Below(f, 0)
    <3> HIDE DEF f
    <3> QED
      BY <1>2, <1>3
  <2> HIDE DEF f
  <2> QED
    BY <2>1, <2>2
<1>5. ASSUME NEW n \in Nat, n \in E
      PROVE  n + 1 \in E
  <2>1. PICK f : f = [prefix \in P |-> f[prefix]] /\ Below(f, n)
    BY <1>5
  <2> DEFINE g == [prefix \in P |-> IF Len(prefix) > bound - n THEN f[prefix]
                                   ELSE NodeBody(trie, f, prefix)]
  <2>2. g = [prefix \in P |-> g[prefix]]
    OBVIOUS
  <2>3. \A prefix \in P : g[prefix] = IF Len(prefix) > bound - n THEN f[prefix]
                                     ELSE NodeBody(trie, f, prefix)
    OBVIOUS
  <2> HIDE DEF g
  <2>4. Below(g, n + 1)
    <3> SUFFICES ASSUME NEW prefix \in P, Len(prefix) > bound - (n + 1)
                 PROVE  g[prefix] = NodeBody(trie, g, prefix)
      OBVIOUS
    <3>1. \A p \in P : Len(prefix) < Len(p) => f[p] = g[p]
      <4> TAKE p \in P
      <4>1. Len(prefix) < Len(p) => Len(p) > bound - n
        BY <1>2, <1>3
      <4> QED
        BY <2>3, <4>1
    <3>2. NodeBody(trie, f, prefix) = NodeBody(trie, g, prefix)
      BY <3>1, NodeBodyLooksDown DEF P
    <3>3. g[prefix] = NodeBody(trie, f, prefix)
      BY <2>1, <2>3
    <3> QED
      BY <3>2, <3>3
  <2> HIDE DEF Below
  <2>5. n + 1 \in Nat
    OBVIOUS
  <2> QED
    BY <2>2, <2>4, <2>5
<1>6. \A n \in Nat : n \in E
  <2> HIDE DEF E
  <2> QED
    BY <1>4, <1>5, NatSetInduction
<1>7. \E f : Solves(f)
  <2>1. bound + 1 \in E
    BY <1>6
  <2>2. PICK f : f = [prefix \in P |-> f[prefix]] /\ Below(f, bound + 1)
    BY <2>1
  <2>3. \A prefix \in P : Len(prefix) > bound - (bound + 1)
    BY <1>2, <1>3
  <2>4. \A prefix \in P : f[prefix] = NodeBody(trie, f, prefix)
    BY <2>2, <2>3
  <2>5. [prefix \in P |-> f[prefix]] = [prefix \in P |-> NodeBody(trie, f, prefix)]
    BY <2>4
  <2> QED
    BY <2>2, <2>5
<1>8. Solves(NodeAt(trie))
  <2> HIDE DEF Solves
  <2> QED
    BY <1>1, <1>7
<1> DEFINE N == NodeAt(trie)
<1>9. N = [prefix \in P |-> NodeBody(trie, N, prefix)]
  BY <1>8
<1> HIDE DEF N
<1>10. DOMAIN N = P /\ \A prefix \in P : N[prefix] = NodeBody(trie, N, prefix)
  BY <1>9
<1> QED
  BY <1>10 DEF N, P

-----------------------------------------------------------------------------
(* Bytes that are found in a node behind its first at bytes.               *)
Holds(rlp, at, bytes) ==
  /\ at + Len(bytes) <= Len(rlp)
  /\ \A i \in 1..Len(bytes) : rlp[at + i] = bytes[i]

LEMMA HoldsParts ==
  ASSUME NEW rlp, NEW at \in Nat, NEW s \in Seq(Symbol), NEW t \in Seq(Symbol),
         Holds(rlp, at, s \o t), Len(rlp) \in Nat
  PROVE  Holds(rlp, at, s) /\ Holds(rlp, at + Len(s), t)
<1>1. /\ Len(s) \in Nat /\ Len(t) \in Nat
      /\ Len(s \o t) = Len(s) + Len(t)
      /\ \A i \in 1..(Len(s) + Len(t)) :
           (s \o t)[i] = IF i <= Len(s) THEN s[i] ELSE t[i - Len(s)]
  BY ConcatProperties, LenProperties
<1>2. ASSUME NEW i \in 1..Len(s)
      PROVE  rlp[at + i] = s[i]
  BY <1>1 DEF Holds
<1>3. ASSUME NEW i \in 1..Len(t)
      PROVE  rlp[(at + Len(s)) + i] = t[i]
  <2>1. Len(s) + i \in 1..(Len(s) + Len(t)) /\ ~(Len(s) + i <= Len(s))
    BY <1>1
  <2>2. rlp[at + (Len(s) + i)] = t[(Len(s) + i) - Len(s)]
    BY <1>1, <2>1 DEF Holds
  <2>3. at + (Len(s) + i) = (at + Len(s)) + i /\ (Len(s) + i) - Len(s) = i
    BY <1>1
  <2> QED
    BY <2>2, <2>3
<1> QED
  BY <1>1, <1>2, <1>3 DEF Holds

(* The bytes a length takes, and the length of an encoding.                *)
Fits(len) == len < LengthBase * LengthBase

HeaderLen(len) ==
  IF len <= ShortMax THEN 1 ELSE IF len < LengthBase THEN 2 ELSE 3

LEMMA ScaleFacts ==
  /\ LengthBase \in 2..256 /\ ShortMax \in 2..55 /\ HashLen \in 2..ShortMax
  /\ Branching \in 2..16 /\ LengthBase * LengthBase \in Nat
  /\ StringPrefix = 128 /\ ListPrefix = 192
<1>1. LengthBase \in 2..256 => LengthBase * LengthBase \in Nat
  OBVIOUS
<1> QED
  BY <1>1, TrieAssumption DEF StringPrefix, ListPrefix

LEMMA LongLength ==
  ASSUME NEW len \in Nat, Fits(len)
  PROVE  /\ len \div LengthBase \in 0..255
         /\ len % LengthBase \in 0..255
         /\ LengthBase * (len \div LengthBase) + (len % LengthBase) = len
<1> DEFINE W == LengthBase
           quotient == len \div W
           remainder == len % W
<1>1. W \in Nat \ {0} /\ W <= 256
  BY ScaleFacts
<1>2. quotient \in Int /\ remainder \in 0..(W - 1) /\ len = W * quotient + remainder
  BY <1>1
<1>3. len < W * W
  BY DEF Fits
<1> HIDE DEF W, quotient, remainder
<1>4. quotient < W
  <2> SUFFICES ASSUME quotient >= W
               PROVE  FALSE
    BY <1>1, <1>2
  <2>1. W * quotient >= W * W
    BY <1>1, <1>2
  <2> DEFINE x == W * quotient
             y == W * W
  <2>2. x \in Int /\ y \in Int /\ x >= y /\ len = x + remainder /\ len < y
    BY <1>1, <1>2, <1>3, <2>1
  <2> HIDE DEF x, y
  <2> QED
    BY <1>1, <1>2, <2>2
<1>5. quotient >= 0
  <2> SUFFICES ASSUME quotient <= -1
               PROVE  FALSE
    BY <1>2
  <2>1. W * quotient <= -W
    BY <1>1, <1>2
  <2> DEFINE x == W * quotient
  <2>2. x \in Int /\ x <= -W /\ len = x + remainder
    BY <1>1, <1>2, <2>1
  <2> HIDE DEF x
  <2> QED
    BY <1>1, <1>2, <2>2
<1>6. quotient \in 0..255 /\ remainder \in 0..255 /\ W * quotient + remainder = len
  BY <1>1, <1>2, <1>4, <1>5
<1> QED
  BY <1>6 DEF W, quotient, remainder

LEMMA EncodeIs ==
  ASSUME NEW prefix \in Int, NEW bytes \in Seq(Symbol), Fits(Len(bytes))
  PROVE  LET code == Encode(prefix, bytes)
             len  == Len(bytes)
             head == HeaderLen(len)
         IN  /\ code \in Seq(Symbol)
             /\ Len(code) = head + len
             /\ \A i \in 1..len : code[head + i] = bytes[i]
             /\ head = 1 => code[1] = prefix + len
             /\ head = 2 => code[1] = prefix + ShortMax + 1 /\ code[2] = len
             /\ head = 3 => /\ code[1] = prefix + ShortMax + 2
                            /\ code[2] = len \div LengthBase
                            /\ code[3] = len % LengthBase
<1> DEFINE len  == Len(bytes)
           head == HeaderLen(len)
           front == IF len <= ShortMax THEN <<prefix + len>>
                    ELSE <<prefix + ShortMax + Len(LengthBytes(len))>> \o LengthBytes(len)
<1>1. len \in Nat /\ len % LengthBase \in Int /\ len \div LengthBase \in Int
  <2>1. len \in Nat
    BY LenProperties
  <2> HIDE DEF len
  <2>2. len % LengthBase \in Int /\ len \div LengthBase \in Int
    BY <2>1, ScaleFacts
  <2> QED
    BY <2>1, <2>2
<1>2. /\ ShortMax \in Nat /\ LengthBase \in Nat
  BY ScaleFacts
<1>3. /\ front \in Seq(Symbol) /\ Len(front) = head
      /\ head = 1 => front[1] = prefix + len
      /\ head = 2 => front[1] = prefix + ShortMax + 1 /\ front[2] = len
      /\ head = 3 => /\ front[1] = prefix + ShortMax + 2
                     /\ front[2] = len \div LengthBase
                     /\ front[3] = len % LengthBase
  <2> HIDE DEF len
  <2>0. Int \subseteq Symbol
    BY DEF Symbol
  <2>1. CASE len <= ShortMax
    <3>1. front = <<prefix + len>> /\ head = 1
      BY <2>1 DEF HeaderLen
    <3> HIDE DEF front, head
    <3> QED
      BY <1>1, <2>0, <3>1
  <2>2. CASE len > ShortMax /\ len < LengthBase
    <3>1. LengthBytes(len) = <<len>>
      BY <2>2 DEF LengthBytes
    <3>2. front = <<prefix + ShortMax + 1>> \o <<len>> /\ head = 2
      <4>1. Len(<<len>>) = 1
        OBVIOUS
      <4> QED
        BY <1>1, <1>2, <2>2, <3>1, <4>1 DEF HeaderLen
    <3> HIDE DEF front, head
    <3> QED
      BY <1>1, <1>2, <2>0, <3>2
  <2>3. CASE len > ShortMax /\ len >= LengthBase
    <3> DEFINE x == len \div LengthBase
               y == len % LengthBase
    <3>1. LengthBytes(len) = <<x, y>>
      BY <1>1, <1>2, <2>3 DEF LengthBytes
    <3>2. x \in Int /\ y \in Int
      BY <1>1
    <3> HIDE DEF x, y
    <3>3. front = <<prefix + ShortMax + 2>> \o <<x, y>> /\ head = 3
      <4>1. Len(<<x, y>>) = 2
        OBVIOUS
      <4> QED
        BY <1>1, <1>2, <2>3, <3>1, <3>2, <4>1 DEF HeaderLen
    <3> HIDE DEF front, head
    <3> QED
      BY <1>1, <1>2, <2>0, <3>2, <3>3 DEF x, y
  <2> QED
    BY <1>1, <1>2, <2>1, <2>2, <2>3
<1>4. Encode(prefix, bytes) = front \o bytes
  <2> HIDE DEF front
  <2>1. CASE len <= ShortMax
    BY <2>1 DEF Encode, front
  <2>2. CASE ~(len <= ShortMax)
    BY <2>2 DEF Encode, front
  <2> QED
    BY <2>1, <2>2
<1> HIDE DEF front
<1> DEFINE code == front \o bytes
<1>5. /\ code \in Seq(Symbol) /\ Len(code) = Len(front) + len
      /\ \A i \in 1..(Len(front) + len) :
           code[i] = IF i <= Len(front) THEN front[i] ELSE bytes[i - Len(front)]
  BY <1>3, ConcatProperties
<1>6. head \in 1..3 /\ Len(front) = head
  BY <1>3 DEF HeaderLen
<1> HIDE DEF code, len, head
<1>7. \A i \in 1..head : code[i] = front[i]
  BY <1>1, <1>5, <1>6
<1>8. \A i \in 1..len : code[head + i] = bytes[i]
  <2> TAKE i \in 1..len
  <2>1. head + i \in 1..(Len(front) + len) /\ ~(head + i <= Len(front))
        /\ (head + i) - Len(front) = i
    BY <1>1, <1>6
  <2> QED
    BY <1>5, <2>1
<1>9. /\ code \in Seq(Symbol) /\ Len(code) = head + len
      /\ \A i \in 1..len : code[head + i] = bytes[i]
      /\ head = 1 => code[1] = prefix + len
      /\ head = 2 => code[1] = prefix + ShortMax + 1 /\ code[2] = len
      /\ head = 3 => /\ code[1] = prefix + ShortMax + 2
                     /\ code[2] = len \div LengthBase
                     /\ code[3] = len % LengthBase
  BY <1>3, <1>5, <1>6, <1>7, <1>8
<1> QED
  BY <1>4, <1>9 DEF code, len, head

-----------------------------------------------------------------------------
(* The types the hints give a prefix.                                      *)
LEMMA TypesGiven ==
  ASSUME NEW prefix \in Int
  PROVE  /\ prefix \in 0..127 =>
              /\ HintSecondItemType(prefix) = "byte"
              /\ HintFirstItemType(prefix) = "byte"
              /\ HintItemType(prefix) = "byte"
         /\ prefix \in 128..(128 + ShortMax) =>
              /\ HintSecondItemType(prefix) = "short"
              /\ HintFirstItemType(prefix) = "short"
              /\ HintItemType(prefix) = "short"
         /\ prefix \in (128 + ShortMax + 1)..(128 + ShortMax + 2) =>
              HintSecondItemType(prefix) = "long"
<1>1. ShortMax \in 2..55 /\ StringPrefix = 128 /\ ListPrefix = 192
  BY ScaleFacts
<1>2. ASSUME prefix \in 0..127
      PROVE  IsSingleByte(prefix)
  BY <1>1, <1>2 DEF IsSingleByte
<1>3. ASSUME prefix \in 128..(128 + ShortMax)
      PROVE  ~IsSingleByte(prefix) /\ IsShortString(prefix)
  BY <1>1, <1>3 DEF IsSingleByte, IsShortString
<1>4. ASSUME prefix \in (128 + ShortMax + 1)..(128 + ShortMax + 2)
      PROVE  ~IsSingleByte(prefix) /\ ~IsShortString(prefix) /\ IsLongString(prefix)
  BY <1>1, <1>4 DEF IsSingleByte, IsShortString, IsLongString
<1>5. IsSingleByte(prefix) => ~IsShortString(prefix) /\ ~IsLongString(prefix)
  BY <1>1 DEF IsSingleByte, IsShortString, IsLongString
<1>6. IsShortString(prefix) => ~IsLongString(prefix)
  BY <1>1 DEF IsShortString, IsLongString
<1>7. CASE prefix \in 0..127
  BY <1>1, <1>2, <1>5, <1>7 DEF HintSecondItemType, HintFirstItemType, HintItemType
<1>8. CASE prefix \in 128..(128 + ShortMax)
  BY <1>1, <1>3, <1>6, <1>8 DEF HintSecondItemType, HintFirstItemType, HintItemType
<1>9. CASE prefix \in (128 + ShortMax + 1)..(128 + ShortMax + 2)
  BY <1>1, <1>4, <1>9 DEF HintSecondItemType
<1> QED
  BY <1>7, <1>8, <1>9

(* The length of a long string is read as it was written.                  *)
LEMMA LengthRead ==
  ASSUME NEW rlp, NEW at \in Nat, NEW n \in {1, 2},
         \A i \in 1..n : rlp[at + 1 + i] \in Int
  PROVE  LongStringLen(rlp, at, n)
           = IF n = 1 THEN rlp[at + 2] ELSE LengthBase * rlp[at + 2] + rlp[at + 3]
<1> DEFINE Is(f) == f = [i \in 0..n |->
                           IF i = 0 THEN 0 ELSE LengthBase * f[i - 1] + Byte(rlp, at + i)]
           read == CHOOSE f : Is(f)
           g == [i \in 0..n |->
                   IF i = 0 THEN 0 ELSE IF i = 1 THEN rlp[at + 2]
                   ELSE LengthBase * rlp[at + 2] + rlp[at + 3]]
<1>1. LongStringLen(rlp, at, n) = read[n]
  BY Zenon DEF LongStringLen
<1>2. /\ LengthBase \in Nat
      /\ Byte(rlp, at + 1) = rlp[at + 2] /\ rlp[at + 2] \in Int
      /\ n = 2 => Byte(rlp, at + 2) = rlp[at + 3] /\ rlp[at + 3] \in Int
  <2>1. (at + 1) + 1 = at + 2 /\ (at + 2) + 1 = at + 3 /\ at + 1 + 1 = at + 2
        /\ at + 1 + 2 = at + 3
    OBVIOUS
  <2>2. 1 \in 1..n /\ (n = 2 => 2 \in 1..n)
    OBVIOUS
  <2> QED
    BY <2>1, <2>2, ScaleFacts DEF Byte
<1>3. Is(g)
  <2>1. \A i \in 0..n :
          g[i] = IF i = 0 THEN 0 ELSE LengthBase * g[i - 1] + Byte(rlp, at + i)
    <3> TAKE i \in 0..n
    <3>1. CASE i = 0
      BY <3>1
    <3>2. CASE i = 1
      <4>1. g[0] = 0 /\ g[1] = rlp[at + 2]
        OBVIOUS
      <4>2. LengthBase * 0 = 0 /\ 0 + Byte(rlp, at + 1) = Byte(rlp, at + 1)
        BY <1>2
      <4> HIDE DEF g
      <4> QED
        BY <1>2, <3>2, <4>1, <4>2
    <3>3. CASE i = 2
      <4>1. g[1] = rlp[at + 2] /\ g[2] = LengthBase * rlp[at + 2] + rlp[at + 3] /\ n = 2
        BY <3>3
      <4> HIDE DEF g
      <4> QED
        BY <1>2, <3>3, <4>1
    <3> QED
      BY <3>1, <3>2, <3>3
  <2>2. g = [i \in 0..n |-> g[i]]
    OBVIOUS
  <2> HIDE DEF g
  <2> QED
    BY <2>1, <2>2
<1> HIDE DEF g
<1>4. Is(read)
  <2> HIDE DEF Is
  <2> QED
    BY <1>3
<1> HIDE DEF read
<1>5. \A i \in 0..n :
        read[i] = IF i = 0 THEN 0 ELSE LengthBase * read[i - 1] + Byte(rlp, at + i)
  BY <1>4
<1>6. read[0] = 0 /\ read[1] = LengthBase * read[0] + Byte(rlp, at + 1)
  BY <1>5
<1>7. read[1] = rlp[at + 2]
  BY <1>2, <1>6
<1>8. CASE n = 2
  <2>1. read[2] = LengthBase * read[1] + Byte(rlp, at + 2)
    BY <1>5, <1>8
  <2> QED
    BY <1>1, <1>2, <1>7, <1>8, <2>1
<1> QED
  BY <1>1, <1>7, <1>8

(* The item of each type.                                                  *)
LEMMA ItemAtIs ==
  ASSUME NEW rlp, NEW at, NEW prefix, prefix = Byte(rlp, at)
  PROVE  /\ ItemAt(rlp, at, "byte")
              = [type |-> "byte", value_at |-> at, len |-> 1, next |-> at + 1]
         /\ ItemAt(rlp, at, "short")
              = [type |-> "short", value_at |-> at + 1, len |-> prefix - StringPrefix,
                 next |-> at + 1 + (prefix - StringPrefix)]
         /\ LET len_len == prefix - (StringPrefix + ShortMax)
                len == LongStringLen(rlp, at, len_len)
            IN  ItemAt(rlp, at, "long")
                  = [type |-> "long", value_at |-> at + 1 + len_len, len |-> len,
                     next |-> at + 1 + len_len + len]
<1>1. "byte" # "short" /\ "byte" # "long" /\ "short" # "long"
  OBVIOUS
<1> QED
  BY <1>1 DEF ItemAt, HintError

(* The code of a string of bytes: a small byte is its own.                 *)
IsCodeOf(code, bytes) ==
  \/ code = bytes /\ Len(bytes) = 1 /\ bytes[1] \in 0..127
  \/ code = Encode(StringPrefix, bytes)

ItemRead(item, at, code, bytes) ==
  /\ item.type # HintError
  /\ item.len = Len(bytes)
  /\ item.next = at + Len(code)
  /\ item.value_at = at + (Len(code) - Len(bytes))

LEMMA StringRead ==
  ASSUME NEW rlp \in Seq(Symbol), NEW at \in Nat,
         NEW bytes \in Seq(Symbol), NEW code,
         Fits(Len(bytes)), IsCodeOf(code, bytes), Holds(rlp, at, code)
  PROVE  /\ code \in Seq(Symbol) /\ Len(code) - Len(bytes) \in 0..3 /\ Len(code) >= 1
         /\ Holds(rlp, at + (Len(code) - Len(bytes)), bytes)
         /\ ItemRead(ItemAt(rlp, at, HintSecondItemType(Byte(rlp, at))), at, code, bytes)
         /\ Len(bytes) <= ShortMax =>
              /\ ItemRead(ItemAt(rlp, at, HintFirstItemType(Byte(rlp, at))), at, code, bytes)
              /\ ItemRead(ItemAt(rlp, at, HintItemType(Byte(rlp, at))), at, code, bytes)
<1> DEFINE len == Len(bytes)
           prefix == Byte(rlp, at)
<1>1. len \in Nat /\ Len(rlp) \in Nat /\ prefix = rlp[at + 1]
  BY LenProperties DEF Byte
<1>2. ShortMax \in 2..55 /\ LengthBase \in 2..256 /\ StringPrefix = 128
  BY ScaleFacts
<1> HIDE DEF prefix
<1>3. CASE code = bytes /\ len = 1 /\ bytes[1] \in 0..127
  <2>1. prefix \in 0..127
    BY <1>1, <1>3 DEF Holds
  <2>2. /\ HintSecondItemType(prefix) = "byte"
        /\ HintFirstItemType(prefix) = "byte"
        /\ HintItemType(prefix) = "byte"
    BY <2>1, TypesGiven
  <2>3. ItemAt(rlp, at, "byte")
          = [type |-> "byte", value_at |-> at, len |-> 1, next |-> at + 1]
    BY ItemAtIs
  <2>4. ItemRead(ItemAt(rlp, at, "byte"), at, code, bytes)
    BY <1>1, <1>3, <2>3 DEF ItemRead, HintError
  <2>5. at + (Len(code) - len) = at
    BY <1>1, <1>3
  <2> QED
    BY <1>1, <1>3, <2>2, <2>4, <2>5 DEF prefix
<1>4. CASE code = Encode(StringPrefix, bytes)
  <2> DEFINE head == HeaderLen(len)
  <2>1. /\ code \in Seq(Symbol) /\ Len(code) = head + len
        /\ \A i \in 1..len : code[head + i] = bytes[i]
        /\ head = 1 => code[1] = 128 + len
        /\ head = 2 => code[1] = 128 + ShortMax + 1 /\ code[2] = len
        /\ head = 3 => /\ code[1] = 128 + ShortMax + 2
                       /\ code[2] = len \div LengthBase
                       /\ code[3] = len % LengthBase
    <3>1. StringPrefix \in Int
      BY <1>2
    <3> QED
      BY <1>2, <1>4, <3>1, EncodeIs
  <2>2. head \in 1..3 /\ (head = 1 <=> len <= ShortMax)
    BY <1>1 DEF HeaderLen
  <2> HIDE DEF head, len
  <2>3. /\ at + (head + len) <= Len(rlp)
        /\ \A i \in 1..(head + len) : rlp[at + i] = code[i]
    BY <1>1, <2>1 DEF Holds, len
  <2>4. Holds(rlp, at + head, bytes)
    <3>1. ASSUME NEW i \in 1..len
          PROVE  rlp[(at + head) + i] = bytes[i]
      <4>1. head + i \in 1..(head + len) /\ at + (head + i) = (at + head) + i
        BY <1>1, <2>2
      <4>2. rlp[at + (head + i)] = code[head + i]
        BY <2>3, <4>1
      <4> QED
        BY <2>1, <4>1, <4>2
    <3>2. (at + head) + len <= Len(rlp)
      BY <1>1, <2>2, <2>3
    <3> QED
      BY <3>1, <3>2 DEF Holds, len
  <2>5. 1 \in 1..(head + len) /\ prefix = code[1]
    BY <1>1, <2>2, <2>3
  <2>6. CASE head = 1
    <3>1. prefix = 128 + len /\ prefix \in 128..(128 + ShortMax)
      BY <1>1, <1>2, <2>1, <2>2, <2>5, <2>6
    <3>2. /\ HintSecondItemType(prefix) = "short"
          /\ HintFirstItemType(prefix) = "short"
          /\ HintItemType(prefix) = "short"
      BY <3>1, TypesGiven
    <3>3. ItemAt(rlp, at, "short")
            = [type |-> "short", value_at |-> at + 1, len |-> prefix - 128,
               next |-> (at + 1) + (prefix - 128)]
      BY <1>2, ItemAtIs DEF prefix
    <3>4. prefix - 128 = len /\ (at + 1) + len = at + (head + len)
          /\ at + 1 = at + ((head + len) - len)
      BY <1>1, <2>6, <3>1
    <3>5. ItemRead(ItemAt(rlp, at, "short"), at, code, bytes)
      BY <2>1, <3>3, <3>4 DEF ItemRead, HintError, len
    <3> QED
      BY <1>1, <2>1, <2>2, <2>4, <2>6, <3>2, <3>4, <3>5 DEF prefix, len
  <2>7. CASE head \in {2, 3}
    <3> DEFINE n == head - 1
    <3>1. n \in {1, 2} /\ (n = 1 <=> head = 2) /\ head = n + 1
      BY <2>7
    <3> HIDE DEF n
    <3>2. prefix = 128 + ShortMax + n
      BY <2>1, <2>5, <2>7, <3>1
    <3>3. HintSecondItemType(prefix) = "long"
      <4>1. prefix \in Int /\ prefix \in (128 + ShortMax + 1)..(128 + ShortMax + 2)
        BY <1>2, <3>1, <3>2
      <4> QED
        BY <4>1, TypesGiven
    <3>4. /\ \A i \in 1..n : rlp[at + 1 + i] \in Int
          /\ n = 1 => rlp[at + 2] = len
          /\ n = 2 => LengthBase * rlp[at + 2] + rlp[at + 3] = len
      <4> DEFINE x == len \div LengthBase
                 y == len % LengthBase
      <4>1. x \in Int /\ y \in Int /\ LengthBase * x + y = len
        <5>1. Fits(len)
          BY DEF len
        <5>2. x \in 0..255 /\ y \in 0..255 /\ LengthBase * x + y = len
          <6> HIDE DEF Fits
          <6> QED
            BY ONLY <1>1, <5>1, LongLength, Zenon
        <5> HIDE DEF x, y
        <5> QED
          BY <5>2
      <4>2. head = 3 => code[2] = x /\ code[3] = y
        BY <2>1
      <4> HIDE DEF x, y
      <4>3. 2 \in 1..(head + len) /\ (n = 2 => 3 \in 1..(head + len))
        BY <1>1, <2>7, <3>1
      <4>4. rlp[at + 2] = code[2] /\ (n = 2 => rlp[at + 3] = code[3])
        BY <2>3, <4>3
      <4>5. n = 1 => rlp[at + 2] = len
        BY <2>1, <3>1, <4>4
      <4>6. n = 2 => rlp[at + 2] = x /\ rlp[at + 3] = y
        BY <2>7, <3>1, <4>2, <4>4
      <4>7. at + 1 + 1 = at + 2 /\ at + 1 + 2 = at + 3
        OBVIOUS
      <4>8. \A i \in 1..n : rlp[at + 1 + i] \in Int
        <5> TAKE i \in 1..n
        <5>1. CASE i = 1
          BY <1>1, <3>1, <4>1, <4>5, <4>6, <4>7, <5>1
        <5>2. CASE i = 2
          BY <3>1, <4>1, <4>6, <4>7, <5>2
        <5> QED
          BY <3>1, <5>1, <5>2
      <4> QED
        BY <4>1, <4>5, <4>6, <4>8
    <3>5. LongStringLen(rlp, at, n) = len
      BY <3>1, <3>4, LengthRead
    <3>6. prefix - (128 + ShortMax) = n
      BY <1>2, <3>1, <3>2
    <3>7. ItemAt(rlp, at, "long")
            = [type |-> "long", value_at |-> at + 1 + n, len |-> len,
               next |-> at + 1 + n + len]
      BY <1>2, <3>5, <3>6, ItemAtIs DEF prefix
    <3>8. at + 1 + n + len = at + (head + len)
          /\ at + 1 + n = at + ((head + len) - len) /\ at + 1 + n = at + head
      BY <1>1, <3>1
    <3>9. ItemRead(ItemAt(rlp, at, "long"), at, code, bytes)
      BY <2>1, <3>7, <3>8 DEF ItemRead, HintError, len
    <3>10. ~(len <= ShortMax) /\ (head + len) - len = head /\ head \in 0..3 /\ head + len >= 1
      BY <1>1, <2>2, <2>7
    <3> QED
      BY <2>1, <2>4, <3>3, <3>9, <3>10 DEF prefix, len
  <2> QED
    BY <2>2, <2>6, <2>7
<1> QED
  BY <1>3, <1>4 DEF IsCodeOf

(* Strings of bytes and hashes are encoded so.                             *)
LEMMA StringCode ==
  ASSUME NEW bytes \in Seq(0..255)
  PROVE  bytes \in Seq(Symbol) /\ IsCodeOf(RlpString(bytes), bytes)
<1>0. \A i \in 1..Len(bytes) : bytes[i] \in 0..255
  <2>1. bytes \in [1..Len(bytes) -> 0..255]
    BY LenProperties
  <2> QED
    BY <2>1
<1>1. bytes \in Seq(Symbol)
  <2>0. 0..255 \subseteq Symbol
    <3>1. 0..255 \subseteq Int
      OBVIOUS
    <3> QED
      BY <3>1, Zenon DEF Symbol
  <2>1. \A i \in 1..Len(bytes) : bytes[i] \in Symbol
    BY <1>0, <2>0, Zenon
  <2>2. bytes = [i \in 1..Len(bytes) |-> bytes[i]] /\ Len(bytes) \in Nat
    BY LenProperties
  <2>3. bytes \in [1..Len(bytes) -> Symbol]
    BY <2>1, <2>2
  <2> QED
    BY <2>2, <2>3, SeqDef
<1>2. CASE Len(bytes) = 1 /\ bytes[1] < StringPrefix
  <2>1. bytes[1] \in 0..127
    <3>1. bytes[1] \in 0..255
      BY <1>0, <1>2
    <3> DEFINE byte == bytes[1]
    <3>2. byte \in 0..255 /\ byte < 128
      BY <1>2, <3>1 DEF StringPrefix
    <3> HIDE DEF byte
    <3>3. byte \in 0..127
      BY <3>2
    <3> QED
      BY <3>3 DEF byte
  <2> QED
    BY <1>1, <1>2, <2>1 DEF IsCodeOf, RlpString
<1>3. CASE ~(Len(bytes) = 1 /\ bytes[1] < StringPrefix)
  BY <1>1, <1>3 DEF IsCodeOf, RlpString
<1> QED
  BY <1>2, <1>3

LEMMA HashCode ==
  ASSUME NEW node \in Nodes
  PROVE  /\ HashOf(node) \in Seq(Symbol) /\ Len(HashOf(node)) = HashLen
         /\ HashOf(node)[1] = HashHead(node)
         /\ HashHead(node) \in (0..255) \ {StringPrefix}
         /\ \A i \in 2..HashLen : HashOf(node)[i] = HashTail(node)
         /\ HashTail(node) \notin 0..255
         /\ Fits(HashLen)
         /\ RlpHash(node) \in Seq(Symbol) /\ Len(RlpHash(node)) = HashLen + 1
         /\ RlpHash(node)[1] = 128 + HashLen
         /\ IsCodeOf(RlpHash(node), HashOf(node))
<1>1. HashLen \in 2..ShortMax /\ HashLen \in Nat /\ ShortMax \in Nat /\ StringPrefix = 128
  BY ScaleFacts
<1>2. /\ HashHead(node) \in (0..255) \ {StringPrefix}
      /\ HashTail(node) \notin 0..255
  BY HashAssumption
<1> DEFINE h == HashOf(node)
<1>3. /\ h = [i \in 1..HashLen |-> IF i = 1 THEN HashHead(node) ELSE HashTail(node)]
      /\ HashHead(node) \in Symbol /\ HashTail(node) \in Symbol
  BY <1>2 DEF HashOf, Symbol
<1> HIDE DEF h
<1>4. /\ h \in Seq(Symbol) /\ Len(h) = HashLen
      /\ h[1] = HashHead(node)
      /\ \A i \in 2..HashLen : h[i] = HashTail(node)
  <2>1. h \in [1..HashLen -> Symbol]
    BY <1>3
  <2>2. h \in Seq(Symbol) /\ Len(h) = HashLen
    BY <1>1, <2>1, SeqDef, LenProperties
  <2> QED
    BY <1>1, <1>3, <2>2
<1>5. Fits(Len(h))
  <2>1. HashLen < LengthBase * LengthBase
    <3>1. LengthBase * LengthBase \in Nat
      BY ScaleFacts
    <3> QED
      BY <1>1, <3>1, TrieAssumption
  <2> QED
    BY <1>4, <2>1 DEF Fits
<1>6. /\ Encode(StringPrefix, h) \in Seq(Symbol)
      /\ Len(Encode(StringPrefix, h)) = HashLen + 1
      /\ Encode(StringPrefix, h)[1] = 128 + HashLen
  <2>1. HeaderLen(Len(h)) = 1
    BY <1>1, <1>4 DEF HeaderLen
  <2>2. StringPrefix \in Int
    BY <1>1
  <2>3. LET code == Encode(StringPrefix, h)
            len  == Len(h)
            head == HeaderLen(len)
        IN  /\ code \in Seq(Symbol)
            /\ Len(code) = head + len
            /\ head = 1 => code[1] = StringPrefix + len
    BY <1>4, <1>5, <2>2, EncodeIs
  <2> QED
    BY <1>1, <1>4, <2>1, <2>3
<1> QED
  BY <1>2, <1>4, <1>5, <1>6 DEF IsCodeOf, RlpHash, h

(* A value is bytes or the hash of a node.                                 *)
LEMMA ValueCode ==
  ASSUME NEW value,
         value \in Seq(0..255) \/ \E node \in Nodes : value = HashOf(node)
  PROVE  value \in Seq(Symbol) /\ IsCodeOf(RlpString(value), value)
<1>1. CASE value \in Seq(0..255)
  BY <1>1, StringCode
<1>2. ASSUME NEW node \in Nodes, value = HashOf(node)
      PROVE  value \in Seq(Symbol) /\ IsCodeOf(RlpString(value), value)
  <2>1. /\ value \in Seq(Symbol) /\ Len(value) = HashLen
        /\ IsCodeOf(RlpHash(node), value)
    BY <1>2, HashCode
  <2>2. Len(value) # 1
    BY <2>1, ScaleFacts
  <2>3. RlpString(value) = RlpHash(node)
    BY <1>2, <2>2 DEF RlpString, RlpHash
  <2> QED
    BY <2>1, <2>3
<1> QED
  BY <1>1, <1>2

-----------------------------------------------------------------------------
(* Items one after the other.                                              *)
LEMMA FlattenUnfold ==
  ASSUME NEW S, NEW items \in Seq(Seq(S)), Len(items) # 0
  PROVE  \E f \in [1..Len(items) -> Seq(S)] :
           /\ f[1] = items[1]
           /\ \A i \in 2..Len(items) : f[i] = f[i - 1] \o items[i]
           /\ FlattenSeq(items) = f[Len(items)]
<1> DEFINE m == Len(items)
           Is(f) == f = [i \in 1..m |-> IF i = 1 THEN items[i]
                                        ELSE f[i - 1] \o items[i]]
           flat == CHOOSE f : Is(f)
<1>1. m \in Nat \ {0} /\ \A i \in 1..m : items[i] \in Seq(S)
  BY LenProperties
<1>2. FlattenSeq(items) = flat[m]
  <2>1. m # 0
    BY <1>1
  <2> QED
    BY <2>1, Zenon DEF FlattenSeq
<1> HIDE DEF m
<1> DEFINE next == [n \in Nat |-> [s \in Seq(S) |->
                      IF n + 1 \in 1..m THEN s \o items[n + 1] ELSE s]]
<1>3. next \in [Nat -> [Seq(S) -> Seq(S)]]
  <2>1. \A n \in Nat, s \in Seq(S) :
          (IF n + 1 \in 1..m THEN s \o items[n + 1] ELSE s) \in Seq(S)
    BY <1>1, ConcatProperties
  <2> QED
    BY <2>1
<1>4. items[1] \in Seq(S)
  BY <1>1
<1>5. PICK f : Iterates(f, Seq(S), items[1], next)
  <2> HIDE DEF next
  <2> QED
    BY <1>3, <1>4, PrimitiveRecursion
<1>6. /\ f \in [Nat -> Seq(S)] /\ f[0] = items[1]
      /\ \A n \in Nat : f[n + 1] = next[n + 1][f[n]]
  <2> HIDE DEF next
  <2> QED
    BY <1>5 DEF Iterates
<1>7. \A n \in Nat : n + 2 \in 1..m => f[n + 1] = f[n] \o items[n + 2]
  <2> TAKE n \in Nat
  <2>1. n + 1 \in Nat /\ (n + 1) + 1 = n + 2
    OBVIOUS
  <2> QED
    BY <1>6, <2>1
<1> HIDE DEF next
<1> DEFINE g == [i \in 1..m |-> f[i - 1]]
<1>8. \A i \in 1..m : g[i] \in Seq(S)
                      /\ g[i] = IF i = 1 THEN items[i] ELSE g[i - 1] \o items[i]
  <2> TAKE i \in 1..m
  <2>1. CASE i = 1
    BY <1>6, <2>1
  <2>2. CASE i # 1
    <3>1. i - 2 \in Nat /\ (i - 2) + 2 = i /\ (i - 2) + 1 = i - 1 /\ i - 1 \in 1..m
          /\ (i - 1) - 1 = i - 2 /\ i - 1 \in Nat
      BY <1>1, <2>2
    <3>2. f[i - 1] = f[i - 2] \o items[i] /\ f[i - 1] \in Seq(S)
      BY <1>6, <1>7, <3>1
    <3>3. g[i] = f[i - 1] /\ g[i - 1] = f[i - 2]
      BY <3>1
    <3> HIDE DEF g
    <3> QED
      BY <2>2, <3>2, <3>3
  <2> QED
    BY <2>1, <2>2
<1>9. Is(g)
  <2>1. g = [i \in 1..m |-> g[i]]
    OBVIOUS
  <2> HIDE DEF g
  <2> QED
    BY <1>8, <2>1
<1> HIDE DEF g
<1>10. Is(flat)
  <2> HIDE DEF Is
  <2> QED
    BY <1>9
<1> HIDE DEF flat
<1>11. \A i \in 1..m : flat[i] = IF i = 1 THEN items[i] ELSE flat[i - 1] \o items[i]
  BY <1>10
<1>12. \A n \in Nat : n + 1 \in 1..m => flat[n + 1] = g[n + 1]
  <2> DEFINE E == {n \in Nat : n + 1 \in 1..m => flat[n + 1] = g[n + 1]}
  <2>1. 0 \in E
    BY <1>8, <1>11
  <2>2. ASSUME NEW n \in Nat, n \in E
        PROVE  n + 1 \in E
    <3> SUFFICES ASSUME (n + 1) + 1 \in 1..m
                 PROVE  flat[(n + 1) + 1] = g[(n + 1) + 1]
      OBVIOUS
    <3>1. n + 1 \in 1..m /\ (n + 1) + 1 # 1 /\ ((n + 1) + 1) - 1 = n + 1
      BY <1>1
    <3>2. flat[n + 1] = g[n + 1]
      BY <2>2, <3>1
    <3>3. flat[(n + 1) + 1] = flat[n + 1] \o items[(n + 1) + 1]
      BY <1>11, <3>1
    <3>4. g[(n + 1) + 1] = g[n + 1] \o items[(n + 1) + 1]
      BY <1>8, <3>1
    <3> QED
      BY <3>2, <3>3, <3>4
  <2> HIDE DEF E
  <2>3. \A n \in Nat : n \in E
    BY <2>1, <2>2, NatSetInduction
  <2> QED
    BY <2>3 DEF E
<1>13. \A i \in 1..m : flat[i] = g[i]
  <2> TAKE i \in 1..m
  <2>1. i - 1 \in Nat /\ (i - 1) + 1 = i
    BY <1>1
  <2> QED
    BY <1>12, <2>1
<1>14. /\ flat \in [1..m -> Seq(S)]
       /\ flat[1] = items[1]
       /\ \A i \in 2..m : flat[i] = flat[i - 1] \o items[i]
  <2>1. flat = [i \in 1..m |-> flat[i]]
    BY <1>10
  <2>2. \A i \in 1..m : flat[i] \in Seq(S)
    BY <1>8, <1>13
  <2>3. flat \in [1..m -> Seq(S)]
    BY <2>1, <2>2
  <2>4. flat[1] = items[1] /\ \A i \in 2..m : flat[i] = flat[i - 1] \o items[i]
    <3>1. 1 \in 1..m
      BY <1>1
    <3>2. \A i \in 2..m : i \in 1..m /\ i # 1
      BY <1>1
    <3> QED
      BY <1>11, <3>1, <3>2
  <2> QED
    BY <2>3, <2>4
<1> QED
  BY <1>2, <1>14 DEF m

(* Where items start that lie one behind the other from at on.             *)
StartsOf(start, items, at) ==
  /\ start \in [1..Len(items) -> Nat]
  /\ start[1] = at
  /\ \A i \in 2..Len(items) : start[i] = start[i - 1] + Len(items[i - 1])

LEMMA ItemsHeld ==
  ASSUME NEW rlp \in Seq(Symbol), NEW at \in Nat,
         NEW items \in Seq(Seq(Symbol)), Len(items) # 0,
         Holds(rlp, at, FlattenSeq(items))
  PROVE  \E start :
           /\ StartsOf(start, items, at)
           /\ \A i \in 1..Len(items) : Holds(rlp, start[i], items[i])
           /\ start[Len(items)] + Len(items[Len(items)]) = at + Len(FlattenSeq(items))
<1> DEFINE m == Len(items)
<1>1. m \in Nat \ {0} /\ \A i \in 1..m : items[i] \in Seq(Symbol) /\ Len(items[i]) \in Nat
  BY LenProperties
<1>2. PICK f \in [1..m -> Seq(Symbol)] :
        /\ f[1] = items[1]
        /\ \A i \in 2..m : f[i] = f[i - 1] \o items[i]
        /\ FlattenSeq(items) = f[m]
  BY FlattenUnfold
<1>3. Len(rlp) \in Nat
  BY LenProperties
<1> HIDE DEF m
<1>4. \A i \in 1..m : f[i] \in Seq(Symbol) /\ Len(f[i]) \in Nat
  BY <1>2, LenProperties
<1>5. \A i \in 2..m : Len(f[i]) = Len(f[i - 1]) + Len(items[i])
  <2> TAKE i \in 2..m
  <2>1. i - 1 \in 1..m /\ i \in 1..m
    BY <1>1
  <2> QED
    BY <1>1, <1>2, <1>4, <2>1, ConcatProperties
<1>6. \A n \in Nat : n < m => Holds(rlp, at, f[m - n])
  <2> DEFINE E == {n \in Nat : n < m => Holds(rlp, at, f[m - n])}
  <2>1. 0 \in E
    BY <1>1, <1>2
  <2>2. ASSUME NEW n \in Nat, n \in E
        PROVE  n + 1 \in E
    <3> SUFFICES ASSUME n + 1 < m
                 PROVE  Holds(rlp, at, f[m - (n + 1)])
      OBVIOUS
    <3> DEFINE i == m - n
    <3>1. i \in 2..m /\ i - 1 = m - (n + 1) /\ i - 1 \in 1..m /\ i \in 1..m
      BY <1>1
    <3>2. Holds(rlp, at, f[i])
      BY <1>1, <2>2
    <3> HIDE DEF i
    <3>3. Holds(rlp, at, f[i - 1] \o items[i])
      BY <1>2, <3>1, <3>2
    <3>4. Holds(rlp, at, f[i - 1])
      BY <1>1, <1>3, <1>4, <3>1, <3>3, HoldsParts
    <3> QED
      BY <3>1, <3>4
  <2> HIDE DEF E
  <2>3. \A n \in Nat : n \in E
    BY <2>1, <2>2, NatSetInduction
  <2> QED
    BY <2>3 DEF E
<1>7. \A i \in 1..m : Holds(rlp, at, f[i])
  <2> TAKE i \in 1..m
  <2>1. m - i \in Nat /\ m - i < m /\ m - (m - i) = i
    BY <1>1
  <2> QED
    BY <1>6, <2>1
<1> DEFINE start == [i \in 1..m |-> at + (Len(f[i]) - Len(items[i]))]
<1>8. start[1] = at
  <2>1. 1 \in 1..m
    BY <1>1
  <2>2. start[1] = at + (Len(f[1]) - Len(items[1]))
    BY <2>1
  <2> HIDE DEF start
  <2>3. Len(f[1]) = Len(items[1]) /\ Len(items[1]) \in Nat
    BY <1>1, <1>2, <2>1
  <2> DEFINE l == Len(items[1])
  <2>4. start[1] = at + (l - l) /\ l \in Nat
    BY <2>2, <2>3
  <2> HIDE DEF l
  <2> QED
    BY <2>4
<1>9. \A i \in 2..m : start[i] = at + Len(f[i - 1])
  <2> TAKE i \in 2..m
  <2>1. i - 1 \in 1..m /\ i \in 1..m
    BY <1>1
  <2>2. start[i] = at + (Len(f[i]) - Len(items[i]))
    BY <2>1
  <2> DEFINE x == Len(f[i])
             y == Len(items[i])
             z == Len(f[i - 1])
             v == start[i]
  <2>3. x = z + y /\ y \in Nat /\ z \in Nat /\ v = at + (x - y)
    BY <1>1, <1>4, <1>5, <2>1, <2>2
  <2> HIDE DEF x, y, z, v
  <2>4. v = at + z
    BY <2>3
  <2> QED
    BY <2>4 DEF v, z
<1>10. \A i \in 1..m : start[i] = at + (Len(f[i]) - Len(items[i]))
  OBVIOUS
<1>11. start = [i \in 1..m |-> start[i]]
  OBVIOUS
<1> HIDE DEF start
<1>12. \A i \in 1..m : start[i] \in Nat
  <2> TAKE i \in 1..m
  <2>1. CASE i = 1
    BY <1>8, <2>1
  <2>2. CASE i # 1
    <3>1. i \in 2..m /\ i - 1 \in 1..m
      BY <1>1, <2>2
    <3> QED
      BY <1>4, <1>9, <3>1
  <2> QED
    BY <2>1, <2>2
<1>13. start \in [1..m -> Nat]
  BY <1>11, <1>12
<1>14. \A i \in 2..m : start[i] = start[i - 1] + Len(items[i - 1])
  <2> TAKE i \in 2..m
  <2>1. i - 1 \in 1..m
    BY <1>1
  <2>2. start[i - 1] = at + (Len(f[i - 1]) - Len(items[i - 1]))
    BY <1>10, <2>1
  <2> QED
    BY <1>1, <1>4, <1>9, <2>1, <2>2
<1>15. \A i \in 1..m : Holds(rlp, start[i], items[i])
  <2> TAKE i \in 1..m
  <2>1. CASE i = 1
    <3>1. 1 \in 1..m
      BY <1>1
    <3> QED
      BY <1>2, <1>7, <1>8, <2>1, <3>1
  <2>2. CASE i # 1
    <3>1. i \in 2..m /\ i - 1 \in 1..m
      BY <1>1, <2>2
    <3>2. Holds(rlp, at, f[i - 1] \o items[i])
      BY <1>2, <1>7, <3>1
    <3>3. Holds(rlp, at + Len(f[i - 1]), items[i])
      BY <1>1, <1>3, <1>4, <3>1, <3>2, HoldsParts
    <3> QED
      BY <1>9, <3>1, <3>3
  <2> QED
    BY <2>1, <2>2
<1>16. start[m] + Len(items[m]) = at + Len(FlattenSeq(items))
  <2>1. m \in 1..m
    BY <1>1
  <2>2. start[m] = at + (Len(f[m]) - Len(items[m]))
    BY <1>10, <2>1
  <2> QED
    BY <1>1, <1>2, <1>4, <2>1, <2>2
<1> QED
  BY <1>13, <1>14, <1>15, <1>16, <1>8 DEF StartsOf, m

LEMMA FlattenLength ==
  ASSUME NEW items \in Seq(Seq(Symbol)), Len(items) # 0, NEW c \in Nat, NEW d \in Nat,
         \A i \in 1..(Len(items) - 1) : Len(items[i]) <= c,
         Len(items[Len(items)]) <= d
  PROVE  /\ FlattenSeq(items) \in Seq(Symbol)
         /\ Len(FlattenSeq(items)) <= (Len(items) - 1) * c + d
<1> DEFINE m == Len(items)
<1>1. m \in Nat \ {0} /\ \A i \in 1..m : items[i] \in Seq(Symbol) /\ Len(items[i]) \in Nat
  BY LenProperties
<1>2. PICK f \in [1..m -> Seq(Symbol)] :
        /\ f[1] = items[1]
        /\ \A i \in 2..m : f[i] = f[i - 1] \o items[i]
        /\ FlattenSeq(items) = f[m]
  BY FlattenUnfold
<1>3. (\A i \in 1..(m - 1) : Len(items[i]) <= c) /\ Len(items[m]) <= d
  OBVIOUS
<1> HIDE DEF m
<1>4. \A i \in 1..m : f[i] \in Seq(Symbol) /\ Len(f[i]) \in Nat
  BY <1>2, LenProperties
<1>5. \A i \in 2..m : Len(f[i]) = Len(f[i - 1]) + Len(items[i])
  <2> TAKE i \in 2..m
  <2>1. i - 1 \in 1..m /\ i \in 1..m
    BY <1>1
  <2> QED
    BY <1>1, <1>2, <1>4, <2>1, ConcatProperties
<1>6. \A n \in Nat : n + 1 < m => Len(f[n + 1]) <= (n + 1) * c
  <2> DEFINE E == {n \in Nat : n + 1 < m => Len(f[n + 1]) <= (n + 1) * c}
  <2>1. 0 \in E
    <3>1. (0 + 1) * c = c
      OBVIOUS
    <3>2. 0 + 1 < m => Len(f[1]) <= c
      BY <1>1, <1>2, <1>3
    <3> QED
      BY <3>1, <3>2
  <2>2. ASSUME NEW n \in Nat, n \in E
        PROVE  n + 1 \in E
    <3> SUFFICES ASSUME (n + 1) + 1 < m
                 PROVE  Len(f[(n + 1) + 1]) <= ((n + 1) + 1) * c
      OBVIOUS
    <3> DEFINE x == (n + 1) * c
    <3>1. ((n + 1) + 1) * c = x + c /\ x \in Nat
      OBVIOUS
    <3>2. Len(f[n + 1]) <= x
      BY <1>1, <2>2
    <3> HIDE DEF x
    <3>3. (n + 1) + 1 \in 2..m /\ (n + 1) + 1 \in 1..(m - 1) /\ ((n + 1) + 1) - 1 = n + 1
          /\ (n + 1) + 1 \in 1..m /\ n + 1 \in 1..m
      BY <1>1
    <3>4. Len(f[(n + 1) + 1]) = Len(f[n + 1]) + Len(items[(n + 1) + 1])
      BY <1>5, <3>3
    <3>5. Len(items[(n + 1) + 1]) <= c /\ Len(items[(n + 1) + 1]) \in Nat /\ Len(f[n + 1]) \in Nat
      BY <1>1, <1>3, <1>4, <3>3
    <3> DEFINE u == Len(f[n + 1])
               v == Len(items[(n + 1) + 1])
    <3>6. u + v <= x + c
      <4>1. u \in Nat /\ v \in Nat /\ x \in Nat /\ u <= x /\ v <= c
        BY <3>1, <3>2, <3>5
      <4> HIDE DEF u, v
      <4> QED
        BY <4>1
    <3> QED
      BY <3>1, <3>4, <3>6
  <2> HIDE DEF E
  <2>3. \A n \in Nat : n \in E
    BY <2>1, <2>2, NatSetInduction
  <2> QED
    BY <2>3 DEF E
<1>7. CASE m = 1
  <2>1. (m - 1) * c = 0
    BY <1>7
  <2> QED
    BY <1>1, <1>2, <1>3, <1>4, <1>7, <2>1 DEF m
<1>8. CASE m # 1
  <2> DEFINE n == m - 2
             y == (m - 1) * c
  <2>1. n \in Nat /\ n + 1 < m /\ n + 1 = m - 1 /\ m \in 2..m /\ m - 1 \in 1..m /\ m \in 1..m
        /\ y \in Nat
    BY <1>1, <1>8
  <2>2. Len(f[m - 1]) <= y
    BY <1>6, <2>1
  <2> HIDE DEF y
  <2>3. Len(f[m]) = Len(f[m - 1]) + Len(items[m])
    BY <1>5, <2>1
  <2>4. Len(f[m - 1]) \in Nat /\ Len(items[m]) \in Nat /\ f[m] \in Seq(Symbol)
    BY <1>1, <1>4, <2>1
  <2> DEFINE u == Len(f[m - 1])
             v == Len(items[m])
  <2>5. u + v <= y + d
    <3>1. u \in Nat /\ v \in Nat /\ y \in Nat /\ u <= y /\ v <= d
      BY <1>3, <2>1, <2>2, <2>4
    <3> HIDE DEF u, v
    <3> QED
      BY <3>1
  <2> QED
    BY <1>2, <2>3, <2>4, <2>5 DEF m, y
<1> QED
  BY <1>7, <1>8

LEMMA TwoItems ==
  ASSUME NEW s \in Seq(Symbol), NEW t \in Seq(Symbol)
  PROVE  FlattenSeq(<<s, t>>) = s \o t /\ <<s, t>> \in Seq(Seq(Symbol))
<1> DEFINE items == <<s, t>>
<1>1. items \in Seq(Seq(Symbol)) /\ Len(items) = 2 /\ items[1] = s /\ items[2] = t
  OBVIOUS
<1> HIDE DEF items
<1>2. PICK f \in [1..2 -> Seq(Symbol)] :
        /\ f[1] = items[1]
        /\ \A i \in 2..2 : f[i] = f[i - 1] \o items[i]
        /\ FlattenSeq(items) = f[2]
  <2>1. Len(items) # 0
    BY <1>1
  <2>2. \E f \in [1..Len(items) -> Seq(Symbol)] :
          /\ f[1] = items[1]
          /\ \A i \in 2..Len(items) : f[i] = f[i - 1] \o items[i]
          /\ FlattenSeq(items) = f[Len(items)]
    BY <1>1, <2>1, FlattenUnfold
  <2> QED
    BY <1>1, <2>2
<1>3. f[2] = f[1] \o items[2]
  <2>1. 2 \in 2..2 /\ 2 - 1 = 1
    OBVIOUS
  <2> QED
    BY <1>2, <2>1
<1>4. FlattenSeq(items) = s \o t
  BY <1>1, <1>2, <1>3
<1> QED
  BY <1>1, <1>4 DEF items

-----------------------------------------------------------------------------
(* The items of a list are found behind its header.                        *)
LEMMA ListStart ==
  ASSUME NEW items \in Seq(Seq(Symbol)),
         NEW body \in Seq(Symbol), body = FlattenSeq(items), Fits(Len(body)),
         NEW rlp, rlp = RlpList(items), Len(body) >= 1, body[1] \in 0..255
  PROVE  /\ rlp \in Seq(Symbol)
         /\ FirstItemStart(rlp) \in 1..3
         /\ Len(rlp) = FirstItemStart(rlp) + Len(body)
         /\ Holds(rlp, FirstItemStart(rlp), body)
         /\ rlp[2] \in 0..255
<1> DEFINE len == Len(body)
           head == HeaderLen(len)
<1>1. len \in Nat /\ ShortMax \in 2..55 /\ ListPrefix = 192 /\ ListPrefix \in Int
  BY ScaleFacts, LenProperties
<1>2. rlp = Encode(ListPrefix, body)
  BY DEF RlpList
<1>3. /\ rlp \in Seq(Symbol)
      /\ Len(rlp) = head + len
      /\ \A i \in 1..len : rlp[head + i] = body[i]
      /\ head = 1 => rlp[1] = 192 + len
      /\ head = 2 => rlp[1] = 192 + ShortMax + 1 /\ rlp[2] = len
      /\ head = 3 => /\ rlp[1] = 192 + ShortMax + 2
                     /\ rlp[2] = len \div LengthBase
                     /\ rlp[3] = len % LengthBase
  BY <1>1, <1>2, EncodeIs
<1>4. head \in 1..3 /\ (head = 1 <=> len <= ShortMax)
      /\ (head = 2 => len < LengthBase)
  BY <1>1 DEF HeaderLen
<1>5. rlp[2] \in 0..255
  <2>1. CASE head = 1
    <3>1. 1 \in 1..len
      BY <1>1
    <3>2. rlp[1 + 1] = body[1]
      BY <1>3, <2>1, <3>1
    <3> QED
      BY <3>2
  <2>2. CASE head = 2
    <3> HIDE DEF len, head
    <3>1. rlp[2] = len /\ len < LengthBase
      BY <1>3, <1>4, <2>2
    <3>2. LengthBase \in 2..256
      BY ScaleFacts
    <3> QED
      BY <1>1, <3>1, <3>2
  <2>3. CASE head = 3
    <3>1. Fits(len)
      OBVIOUS
    <3> HIDE DEF len, head, Fits
    <3>2. len \div LengthBase \in 0..255
      BY <1>1, <3>1, LongLength
    <3> QED
      BY <1>3, <2>3, <3>2
  <2> HIDE DEF head
  <2> QED
    BY <1>4, <2>1, <2>2, <2>3
<1>6. Byte(rlp, 0) = rlp[1]
  BY DEF Byte
<1> HIDE DEF len, head
<1>7. FirstItemStart(rlp) = head
  <2>0. "short" # "long"
    OBVIOUS
  <2> DEFINE prefix == Byte(rlp, 0)
  <2>1. CASE head = 1
    <3>1. prefix = 192 + len /\ len <= ShortMax
      BY <1>3, <1>4, <1>6, <2>1
    <3> HIDE DEF prefix
    <3>2. IsShortList(prefix)
      BY <1>1, <3>1 DEF IsShortList
    <3>3. HintLongShortList(prefix) = "short"
      <4>1. ~IsLongList(prefix)
        BY <1>1, <3>1 DEF IsLongList
      <4> QED
        BY <3>2, <4>1 DEF HintLongShortList
    <3> QED
      BY <2>0, <2>1, <3>3 DEF FirstItemStart, prefix
  <2>2. CASE head \in {2, 3}
    <3>1. prefix = 192 + ShortMax + (head - 1)
      BY <1>1, <1>3, <1>6, <2>2
    <3> HIDE DEF prefix
    <3>2. ~IsShortList(prefix) /\ IsLongList(prefix)
      BY <1>1, <2>2, <3>1 DEF IsShortList, IsLongList
    <3>3. HintLongShortList(prefix) = "long"
      BY <3>2 DEF HintLongShortList
    <3>4. prefix - (ListPrefix + ShortMax) = head - 1 /\ head - 1 < 7 /\ 1 + (head - 1) = head
      BY <1>1, <2>2, <3>1
    <3> QED
      BY <2>0, <3>3, <3>4 DEF FirstItemStart, prefix
  <2> QED
    BY <1>4, <2>1, <2>2
<1>8. Holds(rlp, head, body)
  BY <1>3 DEF Holds, len
<1> QED
  BY <1>3, <1>4, <1>5, <1>7, <1>8 DEF len

-----------------------------------------------------------------------------
(* Two nibbles make a byte.                                                *)
LEMMA NibblesOfByte ==
  ASSUME NEW high \in 0..15, NEW low \in 0..15
  PROVE  /\ 16 * high + low \in 0..255
         /\ (16 * high + low) \div 16 = high
         /\ (16 * high + low) % 16 = low
OBVIOUS

(* A path is read from its hex-prefix encoding as it was written.          *)
LEMMA HexPrefixIs ==
  ASSUME NEW path \in Seq(Nibble), NEW flag \in {0, 2}
  PROVE  LET bytes == HexPrefix(path, flag)
             odd == Len(path) % 2
             half == Len(path) \div 2
         IN  /\ bytes \in Seq(0..255) /\ Len(bytes) = half + 1
             /\ bytes[1] \in 0..127
             /\ bytes[1] \div 16 = flag + odd
             /\ odd = 1 => bytes[1] % 16 = path[1]
             /\ \A i \in 1..half : /\ bytes[1 + i] \div 16 = path[odd + 2 * i - 1]
                                   /\ bytes[1 + i] % 16 = path[odd + 2 * i]
<1> DEFINE n == Len(path)
           odd == n % 2
           half == n \div 2
           bytes == HexPrefix(path, flag)
           low == IF odd = 1 THEN path[1] ELSE 0
           rest == [i \in 1..half |-> 16 * path[odd + 2 * i - 1] + path[odd + 2 * i]]
<1>1. n \in Nat /\ \A i \in 1..n : path[i] \in 0..15
  <2>1. n \in Nat /\ path \in [1..n -> Nibble]
    BY LenProperties
  <2>2. Nibble \subseteq 0..15
    BY ScaleFacts DEF Nibble
  <2> QED
    BY <2>1, <2>2
<1>2. bytes = <<16 * (flag + odd) + low>> \o rest
  BY DEF HexPrefix
<1>3. odd \in {0, 1} /\ half \in Nat /\ n = 2 * half + odd
  <2>1. n \in Nat
    BY <1>1
  <2> HIDE DEF n
  <2> QED
    BY <2>1, Halving
<1> HIDE DEF n, odd, half, bytes
<1>4. low \in 0..15
  <2>1. odd = 1 => 1 \in 1..n
    BY <1>1, <1>3
  <2> QED
    BY <1>1, <2>1
<1>5. odd = 1 => low = path[1]
  OBVIOUS
<1>6. \A i \in 1..half : /\ rest[i] \in 0..255
                         /\ rest[i] \div 16 = path[odd + 2 * i - 1]
                         /\ rest[i] % 16 = path[odd + 2 * i]
  <2> TAKE i \in 1..half
  <2>1. odd + 2 * i - 1 \in 1..n /\ odd + 2 * i \in 1..n
    BY <1>1, <1>3
  <2> DEFINE x == path[odd + 2 * i - 1]
             y == path[odd + 2 * i]
  <2>2. x \in 0..15 /\ y \in 0..15 /\ rest[i] = 16 * x + y
    BY <1>1, <2>1
  <2> HIDE DEF x, y, rest
  <2>3. 16 * x + y \in 0..255 /\ (16 * x + y) \div 16 = x /\ (16 * x + y) % 16 = y
    BY <2>2, NibblesOfByte
  <2>4. rest[i] \in 0..255 /\ rest[i] \div 16 = x /\ rest[i] % 16 = y
    BY <2>2, <2>3
  <2> QED
    BY <2>4 DEF x, y
<1>7. rest \in Seq(0..255) /\ Len(rest) = half
  <2>1. rest = [i \in 1..half |-> rest[i]]
    OBVIOUS
  <2> HIDE DEF rest
  <2>2. rest \in [1..half -> 0..255]
    BY <1>6, <2>1
  <2> QED
    BY <1>3, <2>2, SeqDef, LenProperties
<1> DEFINE high == flag + odd
           first == 16 * high + low
<1>8. high \in 0..3 /\ high \in 0..15
  BY <1>3
<1> HIDE DEF low, rest, high
<1>9. first \in 0..255 /\ first \div 16 = high /\ first % 16 = low
  BY <1>4, <1>8, NibblesOfByte
<1>10. first \in 0..127
  BY <1>4, <1>8
<1>11. bytes = <<first>> \o rest
  BY <1>2 DEF high
<1> HIDE DEF first
<1>12. /\ bytes \in Seq(0..255) /\ Len(bytes) = half + 1
       /\ bytes[1] = first
       /\ \A i \in 1..half : bytes[1 + i] = rest[i]
  <2>1. <<first>> \in Seq(0..255) /\ Len(<<first>>) = 1 /\ <<first>>[1] = first
    BY <1>9
  <2>2. /\ <<first>> \o rest \in Seq(0..255)
        /\ Len(<<first>> \o rest) = 1 + half
        /\ \A i \in 1..(1 + half) : (<<first>> \o rest)[i]
             = IF i <= 1 THEN <<first>>[i] ELSE rest[i - 1]
    BY <1>7, <2>1, ConcatProperties
  <2>3. bytes[1] = first
    <3>1. 1 \in 1..(1 + half)
      BY <1>3
    <3> QED
      BY <1>11, <2>1, <2>2, <3>1
  <2>4. \A i \in 1..half : bytes[1 + i] = rest[i]
    <3> TAKE i \in 1..half
    <3>1. 1 + i \in 1..(1 + half) /\ ~(1 + i <= 1) /\ (1 + i) - 1 = i
      BY <1>3
    <3> QED
      BY <1>11, <2>2, <3>1
  <2> QED
    BY <1>3, <1>11, <2>2, <2>3, <2>4
<1>13. /\ bytes \in Seq(0..255) /\ Len(bytes) = half + 1
       /\ bytes[1] \in 0..127
       /\ bytes[1] \div 16 = flag + odd
       /\ odd = 1 => bytes[1] % 16 = path[1]
       /\ \A i \in 1..half : /\ bytes[1 + i] \div 16 = path[odd + 2 * i - 1]
                             /\ bytes[1 + i] % 16 = path[odd + 2 * i]
  BY <1>5, <1>6, <1>9, <1>10, <1>12 DEF high
<1> QED
  BY <1>13 DEF n, odd, half, bytes

LEMMA PathRead ==
  ASSUME NEW rlp, NEW item, NEW at \in Nat, NEW path \in Seq(Nibble), NEW flag \in {0, 2},
         item.value_at = at, item.len = Len(HexPrefix(path, flag)),
         Holds(rlp, at, HexPrefix(path, flag))
  PROVE  PathOf(rlp, item) = path
<1> DEFINE n == Len(path)
           odd == n % 2
           half == n \div 2
           bytes == HexPrefix(path, flag)
           ByteOf(i) == Byte(rlp, item.value_at + i \div 2)
           nibbles == [i \in 1..(2 * item.len) |->
                         IF i % 2 = 1 THEN ByteOf(i - 1) \div 16 ELSE ByteOf(i - 1) % 16]
           from == IF IsOdd(rlp, item) THEN 2 ELSE 3
<1>1. PathOf(rlp, item) = SubSeq(nibbles, from, 2 * item.len)
  BY DEF PathOf
<1>2. n \in Nat /\ odd \in {0, 1} /\ half \in Nat /\ n = 2 * half + odd
  <2>1. n \in Nat
    BY LenProperties
  <2> HIDE DEF n
  <2> QED
    BY <2>1, Halving
<1>3. /\ bytes \in Seq(0..255) /\ Len(bytes) = half + 1
      /\ bytes[1] \div 16 = flag + odd
      /\ odd = 1 => bytes[1] % 16 = path[1]
      /\ \A i \in 1..half : /\ bytes[1 + i] \div 16 = path[odd + 2 * i - 1]
                            /\ bytes[1 + i] % 16 = path[odd + 2 * i]
  BY HexPrefixIs
<1>4. \A i \in 1..(half + 1) : rlp[at + i] = bytes[i]
  BY <1>3 DEF Holds
<1>5. item.len = half + 1
  BY <1>3
<1> HIDE DEF n, odd, half, bytes
<1>6. \A i \in 1..(half + 1) : bytes[i] \in 0..255
  <2>1. bytes \in [1..(half + 1) -> 0..255]
    BY <1>3, LenProperties
  <2> QED
    BY <2>1
<1>7. ASSUME NEW i \in 0..half
      PROVE  /\ ByteOf(2 * i) = bytes[i + 1]
             /\ ByteOf(2 * i + 1) = bytes[i + 1]
  <2>1. (2 * i) \div 2 = i /\ (2 * i + 1) \div 2 = i
    BY <1>2
  <2>2. Byte(rlp, at + i) = bytes[i + 1]
    <3>1. (at + i) + 1 = at + (i + 1) /\ i + 1 \in 1..(half + 1)
      BY <1>2
    <3> QED
      BY <1>4, <3>1 DEF Byte
  <2> QED
    BY <2>1, <2>2
<1>8. ASSUME NEW i \in 0..half
      PROVE  /\ nibbles[2 * i + 1] = bytes[i + 1] \div 16
             /\ nibbles[2 * i + 2] = bytes[i + 1] % 16
  <2>1. /\ 2 * i + 1 \in 1..(2 * item.len) /\ 2 * i + 2 \in 1..(2 * item.len)
        /\ (2 * i + 1) % 2 = 1 /\ (2 * i + 2) % 2 = 0
        /\ (2 * i + 1) - 1 = 2 * i /\ (2 * i + 2) - 1 = 2 * i + 1
    BY <1>2, <1>5
  <2> HIDE DEF ByteOf
  <2>2. /\ nibbles[2 * i + 1] = ByteOf(2 * i) \div 16
        /\ nibbles[2 * i + 2] = ByteOf(2 * i + 1) % 16
    BY <2>1
  <2> QED
    BY <1>7, <2>2
<1>9. from = 3 - odd
  <2>1. IsOdd(rlp, item) <=> bytes[1] \div 16 \notin {0, 2}
    <3>1. Byte(rlp, at) = bytes[1]
      <4>1. 1 \in 1..(half + 1)
        BY <1>2
      <4> QED
        BY <1>4, <4>1 DEF Byte
    <3> QED
      BY <3>1 DEF IsOdd
  <2> QED
    BY <1>2, <1>3, <2>1
<1> HIDE DEF from, nibbles
<1>10. ASSUME NEW k \in 1..n
       PROVE  nibbles[k + (2 - odd)] = path[k]
  <2>1. CASE k = odd
    <3>1. 0 \in 0..half
      BY <1>2
    <3>2. nibbles[2 * 0 + 2] = bytes[0 + 1] % 16
      BY <1>8, <3>1
    <3>3. odd = 1 /\ k = 1 /\ k + (2 - odd) = 2 * 0 + 2
      BY <1>2, <2>1
    <3> QED
      BY <1>3, <3>2, <3>3
  <2>2. CASE k # odd
    <3> DEFINE t == k - odd
               i == (t + 1) \div 2
    <3>1. t \in 1..(2 * half) /\ k = odd + t /\ k + (2 - odd) = t + 2
      BY <1>2, <2>2
    <3> HIDE DEF t
    <3>2. i \in 1..half /\ i \in 0..half /\ (t = 2 * i - 1 \/ t = 2 * i)
      BY <1>2, <3>1
    <3> HIDE DEF i
    <3>3. CASE t = 2 * i - 1
      <4>1. k + (2 - odd) = 2 * i + 1 /\ k = odd + 2 * i - 1
        BY <1>2, <3>1, <3>2, <3>3
      <4>2. nibbles[2 * i + 1] = bytes[i + 1] \div 16
        BY <1>8, <3>2
      <4>3. bytes[1 + i] \div 16 = path[odd + 2 * i - 1] /\ i + 1 = 1 + i
        BY <1>3, <3>2
      <4> QED
        BY <4>1, <4>2, <4>3
    <3>4. CASE t = 2 * i
      <4>1. k + (2 - odd) = 2 * i + 2 /\ k = odd + 2 * i
        BY <1>2, <3>1, <3>2, <3>4
      <4>2. nibbles[2 * i + 2] = bytes[i + 1] % 16
        BY <1>8, <3>2
      <4>3. bytes[1 + i] % 16 = path[odd + 2 * i] /\ i + 1 = 1 + i
        BY <1>3, <3>2
      <4> QED
        BY <4>1, <4>2, <4>3
    <3> QED
      BY <3>2, <3>3, <3>4
  <2> QED
    BY <2>1, <2>2
<1> DEFINE result1 == SubSeq(nibbles, from, 2 * item.len)
<1>11. \A i \in from..(2 * item.len) : nibbles[i] \in Nibble
  <2> TAKE i \in from..(2 * item.len)
  <2>1. i - (2 - odd) \in 1..n /\ (i - (2 - odd)) + (2 - odd) = i
    BY <1>2, <1>5, <1>9
  <2>2. nibbles[i] = path[i - (2 - odd)]
    BY <1>10, <2>1
  <2>3. path \in [1..n -> Nibble]
    BY LenProperties DEF n
  <2> QED
    BY <2>1, <2>2, <2>3
<1>12. /\ result1 \in Seq(Nibble)
       /\ Len(result1) = n
       /\ \A i \in 1..n : result1[i] = nibbles[from + i - 1]
  <2>1. from \in Int /\ 2 * item.len \in Int /\ (2 * item.len) - from + 1 = n
    BY <1>2, <1>5, <1>9
  <2>2. /\ result1 \in Seq(Nibble)
        /\ Len(result1) = IF from <= 2 * item.len THEN (2 * item.len) - from + 1 ELSE 0
        /\ \A i \in 1..((2 * item.len) - from + 1) : result1[i] = nibbles[from + i - 1]
    BY <1>11, <2>1, SubSeqProperties
  <2> HIDE DEF result1
  <2>3. ~(from <= 2 * item.len) => n = 0
    BY <1>2, <2>1
  <2> QED
    BY <2>1, <2>2, <2>3
<1> HIDE DEF result1
<1>13. \A i \in 1..n : result1[i] = path[i]
  <2> TAKE i \in 1..n
  <2>1. from + i - 1 = i + (2 - odd)
    BY <1>2, <1>9
  <2> QED
    BY <1>10, <1>12, <2>1
<1>14. result1 = path
  BY <1>12, <1>13, SeqEqual DEF n
<1> QED
  BY <1>1, <1>14 DEF result1

-----------------------------------------------------------------------------
LEMMA SmallerOf ==
  ASSUME NEW x \in Int, NEW y \in Int
  PROVE  Min({x, y}) = IF x <= y THEN x ELSE y
<1> DEFINE m == IF x <= y THEN x ELSE y
<1>1. m \in {x, y} /\ \A z \in {x, y} : m <= z
  OBVIOUS
<1>2. \A v \in {x, y} : (\A z \in {x, y} : v <= z) => v = m
  OBVIOUS
<1> HIDE DEF m
<1>3. (CHOOSE v \in {x, y} : \A z \in {x, y} : v <= z) = m
  BY <1>1, <1>2
<1> QED
  BY <1>3 DEF Min, m

(* Bytes that are held are those that are read.                            *)
LEMMA BytesRead ==
  ASSUME NEW rlp \in Seq(Symbol), NEW at \in Nat, NEW bytes \in Seq(Symbol),
         Holds(rlp, at, bytes)
  PROVE  Bytes(rlp, at, Len(bytes)) = bytes
<1> DEFINE len == Len(bytes)
           read == SubSeq(rlp, at + 1, at + len)
<1>1. len \in Nat /\ Len(rlp) \in Nat /\ at + len <= Len(rlp)
      /\ \A i \in 1..len : rlp[at + i] = bytes[i]
  BY LenProperties DEF Holds
<1> HIDE DEF len
<1>2. Min({at + len, Len(rlp)}) = at + len
  <2>1. at + len \in Int /\ Len(rlp) \in Int
    BY <1>1
  <2> QED
    BY <1>1, <2>1, SmallerOf
<1>3. read \in Seq(Symbol) /\ Len(read) = len /\ \A i \in 1..len : read[i] = rlp[at + i]
  BY <1>1, BehindIs
<1> HIDE DEF read
<1>4. read = bytes
  BY <1>1, <1>3, SeqEqual DEF len
<1> QED
  BY <1>2, <1>4 DEF Bytes, read, len

(* A node of two items.                                                    *)
TwoItemNode(rlp, path, bytes) ==
  /\ rlp \in Seq(Symbol)
  /\ FirstItemStart(rlp) \in Nat /\ FirstItemStart(rlp) # Nowhere
  /\ FirstItem(rlp).type # HintError
  /\ SecondItem(rlp).type # HintError
  /\ SecondItem(rlp).next = Len(rlp)
  /\ PathOf(rlp, FirstItem(rlp)) = path
  /\ SecondItem(rlp).len = Len(bytes)
  /\ Bytes(rlp, SecondItem(rlp).value_at, SecondItem(rlp).len) = bytes
  /\ rlp[2] \in 0..255

LEMMA CodeLength ==
  ASSUME NEW bytes \in Seq(Symbol), NEW code, Fits(Len(bytes)), IsCodeOf(code, bytes)
  PROVE  /\ code \in Seq(Symbol) /\ Len(code) \in Nat /\ Len(bytes) \in Nat
         /\ Len(code) >= 1 /\ Len(code) <= Len(bytes) + 3
         /\ Len(bytes) <= ShortMax => Len(code) <= Len(bytes) + 1
<1>1. Len(bytes) \in Nat /\ StringPrefix \in Int
  BY ScaleFacts, LenProperties
<1>2. CASE code = bytes /\ Len(bytes) = 1 /\ bytes[1] \in 0..127
  BY <1>1, <1>2
<1>3. CASE code = Encode(StringPrefix, bytes)
  <2> DEFINE len  == Len(bytes)
             head == HeaderLen(len)
  <2>1. code \in Seq(Symbol) /\ Len(code) = head + len
    BY <1>1, <1>3, EncodeIs
  <2>2. head \in 1..3 /\ (len <= ShortMax => head = 1)
    BY DEF HeaderLen
  <2> HIDE DEF head
  <2> QED
    BY <1>1, <2>1, <2>2
<1> QED
  BY <1>2, <1>3 DEF IsCodeOf

LEMMA TwoItemsRead ==
  ASSUME NEW path \in Seq(Nibble), NEW flag \in {0, 2}, Len(path) \div 2 < ShortMax,
         NEW bytes \in Seq(Symbol), NEW code, IsCodeOf(code, bytes), Fits(Len(bytes)),
         Fits(Len(path) \div 2 + 2 + Len(code)),
         NEW rlp, rlp = RlpList(<<RlpString(HexPrefix(path, flag)), code>>)
  PROVE  TwoItemNode(rlp, path, bytes)
<1> DEFINE hex == HexPrefix(path, flag)
           first == RlpString(hex)
           body == first \o code
           items == <<first, code>>
<1>1. /\ hex \in Seq(0..255) /\ Len(hex) = Len(path) \div 2 + 1
      /\ hex[1] \in 0..127
  BY HexPrefixIs
<1>2. hex \in Seq(Symbol) /\ IsCodeOf(first, hex)
  BY <1>1, StringCode
<1>3. Len(path) \in Nat /\ Len(path) \div 2 \in Nat /\ ShortMax \in 2..55
      /\ LengthBase * LengthBase \in Nat /\ StringPrefix = 128
  <2>1. Len(path) \in Nat
    BY LenProperties
  <2> QED
    BY <2>1, ScaleFacts, Halving
<1>4. Len(hex) <= ShortMax /\ Len(hex) >= 1
  BY <1>1, <1>3
<1>5. code \in Seq(Symbol) /\ Len(code) \in Nat /\ Len(code) >= 1
  BY CodeLength
<1>6. Fits(Len(hex))
  <2> DEFINE x == Len(path) \div 2
             y == LengthBase * LengthBase
             z == Len(code)
  <2>1. x \in Nat /\ y \in Nat /\ z \in Nat /\ z >= 1 /\ x + 2 + z < y /\ Len(hex) = x + 1
    BY <1>1, <1>3, <1>5 DEF Fits
  <2> HIDE DEF x, y, z, hex
  <2>2. Len(hex) < y
    BY <2>1
  <2> QED
    BY <2>2 DEF Fits, y
<1> HIDE DEF hex
<1>7. /\ first \in Seq(Symbol) /\ Len(first) \in Nat /\ Len(first) >= 1
      /\ Len(first) <= Len(hex) + 1
  BY <1>2, <1>4, <1>6, CodeLength
<1>8. first[1] \in 0..255
  <2>1. CASE Len(hex) = 1 /\ hex[1] < StringPrefix
    <3>1. first = hex
      BY <2>1 DEF RlpString
    <3> DEFINE byte == hex[1]
    <3>2. byte \in 0..127
      BY <1>1
    <3> HIDE DEF byte
    <3>3. byte \in 0..255
      BY <3>2
    <3> QED
      BY <3>1, <3>3 DEF byte
  <2>2. CASE ~(Len(hex) = 1 /\ hex[1] < StringPrefix)
    <3>1. first = Encode(StringPrefix, hex)
      BY <2>2 DEF RlpString
    <3>2. HeaderLen(Len(hex)) = 1
      BY <1>4 DEF HeaderLen
    <3>3. StringPrefix \in Int
      BY <1>3
    <3>4. LET c == Encode(StringPrefix, hex)
              len == Len(hex)
              head == HeaderLen(len)
          IN  head = 1 => c[1] = StringPrefix + len
      BY <1>2, <1>6, <3>3, EncodeIs
    <3> DEFINE len == Len(hex)
    <3>5. first[1] = 128 + len /\ len \in Nat /\ len <= ShortMax
      <4>1. len \in Nat
        BY <1>2, LenProperties
      <4> QED
        BY <1>3, <1>4, <3>1, <3>2, <3>4, <4>1
    <3> HIDE DEF len, first
    <3>6. 128 + len \in 0..255
      BY <1>3, <3>5
    <3> QED
      BY <3>5, <3>6
  <2> QED
    BY <2>1, <2>2
<1> HIDE DEF first
<1>9. /\ body \in Seq(Symbol) /\ Len(body) = Len(first) + Len(code)
      /\ \A i \in 1..(Len(first) + Len(code)) :
           body[i] = IF i <= Len(first) THEN first[i] ELSE code[i - Len(first)]
  BY <1>5, <1>7, ConcatProperties
<1>10. items \in Seq(Seq(Symbol)) /\ body = FlattenSeq(items)
  BY <1>5, <1>7, TwoItems
<1>11. Fits(Len(body))
  <2> DEFINE x == Len(path) \div 2
             y == LengthBase * LengthBase
             z == Len(code)
             u == Len(first)
  <2>1. x \in Nat /\ y \in Nat /\ z \in Nat /\ x + 2 + z < y /\ u <= (x + 1) + 1 /\ u \in Nat
    BY <1>1, <1>3, <1>5, <1>7 DEF Fits, hex
  <2>2. Len(body) = u + z
    BY <1>9
  <2> HIDE DEF x, y, z, u, body
  <2>3. u + z < y
    BY <2>1
  <2> QED
    BY <2>2, <2>3 DEF Fits, y
<1>12. Len(body) >= 1 /\ body[1] \in 0..255
  <2>1. 1 \in 1..(Len(first) + Len(code)) /\ 1 <= Len(first)
    BY <1>5, <1>7
  <2> QED
    BY <1>5, <1>7, <1>8, <1>9, <2>1
<1>13. rlp = RlpList(items)
  BY DEF first, hex
<1> HIDE DEF body, items
<1> DEFINE head == FirstItemStart(rlp)
<1>14. /\ rlp \in Seq(Symbol) /\ head \in 1..3
       /\ Len(rlp) = head + Len(body)
       /\ Holds(rlp, head, body)
       /\ rlp[2] \in 0..255
  BY <1>9, <1>10, <1>11, <1>12, <1>13, ListStart
<1>15. Holds(rlp, head, first) /\ Holds(rlp, head + Len(first), code)
  <2>1. Len(rlp) \in Nat /\ head \in Nat
    BY <1>14, LenProperties
  <2>2. Holds(rlp, head, first \o code)
    BY <1>14 DEF body
  <2> HIDE DEF head
  <2> QED
    BY <1>5, <1>7, <2>1, <2>2, HoldsParts
<1>16. head \in Nat /\ head # Nowhere
  BY <1>14 DEF Nowhere
<1> DEFINE x == FirstItem(rlp)
           y == SecondItem(rlp)
<1>17. x = ItemAt(rlp, head, HintFirstItemType(Byte(rlp, head)))
  BY DEF FirstItem
<1> HIDE DEF head
<1>18. /\ ItemRead(x, head, first, hex)
       /\ Holds(rlp, head + (Len(first) - Len(hex)), hex)
       /\ Len(first) - Len(hex) \in 0..3
  BY <1>2, <1>4, <1>6, <1>14, <1>15, <1>16, <1>17, StringRead
<1>19. y = ItemAt(rlp, x.next, HintSecondItemType(Byte(rlp, x.next)))
  BY DEF SecondItem
<1> HIDE DEF x, y
<1>20. x.next = head + Len(first) /\ head + Len(first) \in Nat
  BY <1>7, <1>16, <1>18 DEF ItemRead
<1> DEFINE at == head + Len(first)
<1>21. at \in Nat /\ Holds(rlp, at, code)
       /\ y = ItemAt(rlp, at, HintSecondItemType(Byte(rlp, at)))
  BY <1>15, <1>19, <1>20
<1> HIDE DEF at
<1>22. /\ ItemRead(y, at, code, bytes)
       /\ Holds(rlp, at + (Len(code) - Len(bytes)), bytes)
       /\ Len(code) - Len(bytes) \in 0..3
  BY <1>14, <1>21, StringRead
<1>23. PathOf(rlp, x) = path
  <2> DEFINE start == head + (Len(first) - Len(hex))
  <2>1. start \in Nat /\ x.value_at = start /\ x.len = Len(hex) /\ Holds(rlp, start, hex)
    BY <1>16, <1>18 DEF ItemRead
  <2> HIDE DEF start
  <2> QED
    BY <2>1, PathRead DEF hex
<1>24. Bytes(rlp, y.value_at, y.len) = bytes
  <2> DEFINE start == at + (Len(code) - Len(bytes))
  <2>1. start \in Nat /\ y.value_at = start /\ y.len = Len(bytes) /\ Holds(rlp, start, bytes)
    BY <1>21, <1>22 DEF ItemRead
  <2> HIDE DEF start
  <2> QED
    BY <1>14, <2>1, BytesRead
<1>25. y.next = Len(rlp)
  <2>1. y.next = at + Len(code) /\ Len(rlp) = head + (Len(first) + Len(code))
    BY <1>9, <1>14, <1>22 DEF ItemRead
  <2>2. at + Len(code) = head + (Len(first) + Len(code))
    BY <1>5, <1>7, <1>16 DEF at
  <2> QED
    BY <2>1, <2>2
<1>26. x.type # HintError /\ y.type # HintError /\ y.len = Len(bytes)
  BY <1>18, <1>22 DEF ItemRead
<1> QED
  BY <1>14, <1>16, <1>23, <1>24, <1>25, <1>26 DEF TwoItemNode, head, x, y

-----------------------------------------------------------------------------
(* The items of a branch: empty strings and hashes, the last one empty.    *)
EmptyItem == <<128>>

LEMMA EmptyCode ==
  /\ RlpString(<<>>) = EmptyItem
  /\ EmptyItem \in Seq(Symbol) /\ Len(EmptyItem) = 1 /\ EmptyItem[1] = 128
  /\ IsCodeOf(EmptyItem, <<>>) /\ <<>> \in Seq(Symbol) /\ Len(<<>>) = 0 /\ Fits(0)
<1>1. ShortMax \in 2..55 /\ StringPrefix = 128 /\ LengthBase \in 2..256
      /\ LengthBase * LengthBase \in Nat
  BY ScaleFacts
<1>2. Len(<<>>) = 0
  OBVIOUS
<1>3. Encode(StringPrefix, <<>>) = <<128>> \o <<>>
  BY <1>1, <1>2 DEF Encode
<1>4. <<128>> \o <<>> = EmptyItem
  BY DEF EmptyItem
<1>5. RlpString(<<>>) = EmptyItem /\ IsCodeOf(EmptyItem, <<>>)
  BY <1>2, <1>3, <1>4 DEF RlpString, IsCodeOf
<1>6. EmptyItem \in Seq(Symbol) /\ Len(EmptyItem) = 1 /\ EmptyItem[1] = 128
  <2>1. 128 \in Symbol
    BY DEF Symbol
  <2> HIDE DEF Symbol
  <2> QED
    BY <2>1 DEF EmptyItem
<1>7. Fits(0)
  <2>1. LengthBase * LengthBase >= 4
    BY <1>1
  <2> QED
    BY <1>1, <2>1 DEF Fits
<1> QED
  BY <1>2, <1>5, <1>6, <1>7

IsBranchItem(item) == item = EmptyItem \/ \E node \in Nodes : item = RlpHash(node)

BranchItems(items) ==
  /\ items \in Seq(Seq(Symbol))
  /\ Len(items) = Branching + 1
  /\ \A i \in 1..(Branching + 1) : IsBranchItem(items[i])
  /\ items[Branching + 1] = EmptyItem

ReadsItem(read, at, item) ==
  /\ read.type # HintError
  /\ read.next = at + Len(item)
  /\ read.value_at = at + 1

LEMMA BranchItemRead ==
  ASSUME NEW rlp \in Seq(Symbol), NEW at \in Nat, NEW item,
         IsBranchItem(item), Holds(rlp, at, item)
  PROVE  /\ item \in Seq(Symbol) /\ Len(item) \in 1..(HashLen + 1)
         /\ item[1] \in {128, 128 + HashLen}
         /\ ReadsItem(ItemAt(rlp, at, HintFirstItemType(Byte(rlp, at))), at, item)
         /\ ReadsItem(ItemAt(rlp, at, HintSecondItemType(Byte(rlp, at))), at, item)
         /\ ReadsItem(ItemAt(rlp, at, HintItemType(Byte(rlp, at))), at, item)
<1> DEFINE x == ItemAt(rlp, at, HintFirstItemType(Byte(rlp, at)))
           y == ItemAt(rlp, at, HintSecondItemType(Byte(rlp, at)))
           z == ItemAt(rlp, at, HintItemType(Byte(rlp, at)))
<1>1. HashLen \in 2..ShortMax /\ ShortMax \in 2..55
  BY ScaleFacts
<1>2. ASSUME NEW bytes \in Seq(Symbol), IsCodeOf(item, bytes), Fits(Len(bytes)),
             Len(bytes) <= ShortMax, Len(item) = Len(bytes) + 1, Len(bytes) \in Nat
      PROVE  ReadsItem(x, at, item) /\ ReadsItem(y, at, item) /\ ReadsItem(z, at, item)
  <2>1. ItemRead(x, at, item, bytes) /\ ItemRead(y, at, item, bytes)
        /\ ItemRead(z, at, item, bytes)
    BY <1>2, StringRead
  <2> HIDE DEF x, y, z
  <2>2. at + (Len(item) - Len(bytes)) = at + 1
    BY <1>2
  <2> QED
    BY <2>1, <2>2 DEF ItemRead, ReadsItem
<1> HIDE DEF x, y, z
<1>3. CASE item = EmptyItem
  <2>1. /\ item \in Seq(Symbol) /\ Len(item) = 1 /\ item[1] = 128
        /\ IsCodeOf(item, <<>>) /\ <<>> \in Seq(Symbol) /\ Len(<<>>) = 0 /\ Fits(0)
    BY <1>3, EmptyCode
  <2>2. ReadsItem(x, at, item) /\ ReadsItem(y, at, item) /\ ReadsItem(z, at, item)
    <3>1. Fits(Len(<<>>)) /\ Len(<<>>) <= ShortMax /\ Len(item) = Len(<<>>) + 1
          /\ Len(<<>>) \in Nat
      BY <1>1, <2>1
    <3> QED
      BY <1>2, <2>1, <3>1
  <2> QED
    BY <1>1, <2>1, <2>2 DEF x, y, z
<1>4. ASSUME NEW node \in Nodes, item = RlpHash(node)
      PROVE  /\ item \in Seq(Symbol) /\ Len(item) \in 1..(HashLen + 1)
             /\ item[1] = 128 + HashLen
             /\ ReadsItem(x, at, item) /\ ReadsItem(y, at, item) /\ ReadsItem(z, at, item)
  <2> DEFINE bytes == HashOf(node)
  <2>1. /\ bytes \in Seq(Symbol) /\ Len(bytes) = HashLen /\ Fits(HashLen)
        /\ item \in Seq(Symbol) /\ Len(item) = HashLen + 1 /\ item[1] = 128 + HashLen
        /\ IsCodeOf(item, bytes)
    BY <1>4, HashCode
  <2> HIDE DEF bytes
  <2>2. Fits(Len(bytes)) /\ Len(bytes) <= ShortMax /\ Len(item) = Len(bytes) + 1
        /\ Len(bytes) \in Nat
    BY <1>1, <2>1
  <2>3. ReadsItem(x, at, item) /\ ReadsItem(y, at, item) /\ ReadsItem(z, at, item)
    BY <1>2, <2>1, <2>2
  <2> QED
    BY <1>1, <2>1, <2>3
<1>5. CASE \E node \in Nodes : item = RlpHash(node)
  <2>1. PICK node \in Nodes : item = RlpHash(node)
    BY <1>5
  <2>2. /\ item \in Seq(Symbol) /\ Len(item) \in 1..(HashLen + 1)
        /\ item[1] = 128 + HashLen
        /\ ReadsItem(x, at, item) /\ ReadsItem(y, at, item) /\ ReadsItem(z, at, item)
    BY <1>4, <2>1
  <2> QED
    BY <2>2 DEF x, y, z
<1> QED
  BY <1>3, <1>5 DEF IsBranchItem

(* Where its items start in the bytes of a branch.                         *)
ItemsStart(start, rlp, items) ==
  /\ StartsOf(start, items, FirstItemStart(rlp))
  /\ \A i \in 1..Len(items) : Holds(rlp, start[i], items[i])

(* The jump over the items on the way arrives at the one asked for.        *)
LEMMA JumpArrives ==
  ASSUME NEW rlp \in Seq(Symbol), NEW items, BranchItems(items),
         NEW start, ItemsStart(start, rlp, items), NEW target \in 2..Branching
  PROVE  JumpTillElement(rlp, 2, target, start[3]) = start[target + 1]
<1> DEFINE Step(at) == IF at = Nowhere THEN Nowhere
                       ELSE ItemAt(rlp, at, HintItemType(Byte(rlp, at))).next
           Is(f) == f = [i \in 2..target |-> IF i = 2 THEN start[3] ELSE Step(f[i - 1])]
           jump == CHOOSE f : Is(f)
           g == [i \in 2..target |-> start[i + 1]]
<1>1. JumpTillElement(rlp, 2, target, start[3]) = jump[target]
  BY Zenon DEF JumpTillElement
<1>2. Branching \in 2..16 /\ target \in Nat
  BY ScaleFacts
<1>3. /\ Len(items) = Branching + 1
      /\ start \in [1..(Branching + 1) -> Nat]
      /\ \A i \in 2..(Branching + 1) : start[i] = start[i - 1] + Len(items[i - 1])
      /\ \A i \in 1..(Branching + 1) : Holds(rlp, start[i], items[i]) /\ IsBranchItem(items[i])
  <2>1. Len(items) = Branching + 1
    BY DEF BranchItems
  <2> QED
    BY <2>1 DEF BranchItems, ItemsStart, StartsOf
<1>4. ASSUME NEW i \in 3..target
      PROVE  Step(start[i]) = start[i + 1]
  <2>1. i \in 1..(Branching + 1) /\ i + 1 \in 2..(Branching + 1) /\ (i + 1) - 1 = i
    BY <1>2
  <2>2. start[i] \in Nat /\ start[i] # Nowhere /\ Holds(rlp, start[i], items[i])
        /\ IsBranchItem(items[i]) /\ start[i + 1] = start[i] + Len(items[i])
    BY <1>3, <2>1 DEF Nowhere
  <2>3. ReadsItem(ItemAt(rlp, start[i], HintItemType(Byte(rlp, start[i]))), start[i], items[i])
    BY <2>2, BranchItemRead
  <2> QED
    BY <2>2, <2>3 DEF ReadsItem
<1> HIDE DEF Step
<1>5. \A i \in 2..target : g[i] = IF i = 2 THEN start[3] ELSE Step(g[i - 1])
  <2> TAKE i \in 2..target
  <2>1. CASE i = 2
    BY <2>1
  <2>2. CASE i # 2
    <3>1. i \in 3..target /\ i - 1 \in 2..target /\ (i - 1) + 1 = i
      BY <1>2, <2>2
    <3>2. g[i - 1] = start[i] /\ g[i] = start[i + 1]
      BY <3>1
    <3> HIDE DEF g
    <3> QED
      BY <1>4, <2>2, <3>1, <3>2
  <2> QED
    BY <2>1, <2>2
<1>6. Is(g)
  <2>1. g = [i \in 2..target |-> g[i]]
    OBVIOUS
  <2> HIDE DEF g
  <2> QED
    BY <1>5, <2>1
<1>7. \A i \in 2..target : g[i] = start[i + 1]
  OBVIOUS
<1> HIDE DEF g
<1>8. Is(jump)
  <2> HIDE DEF Is
  <2> QED
    BY <1>6
<1> HIDE DEF jump
<1>9. \A i \in 2..target : jump[i] = IF i = 2 THEN start[3] ELSE Step(jump[i - 1])
  BY <1>8
<1>10. \A n \in Nat : n + 2 \in 2..target => jump[n + 2] = g[n + 2]
  <2> DEFINE E == {n \in Nat : n + 2 \in 2..target => jump[n + 2] = g[n + 2]}
  <2>1. 0 \in E
    <3>1. 0 + 2 = 2
      OBVIOUS
    <3>2. 2 \in 2..target => jump[2] = g[2]
      BY <1>5, <1>9
    <3> QED
      BY <3>1, <3>2
  <2>2. ASSUME NEW n \in Nat, n \in E
        PROVE  n + 1 \in E
    <3> SUFFICES ASSUME (n + 1) + 2 \in 2..target
                 PROVE  jump[(n + 1) + 2] = g[(n + 1) + 2]
      OBVIOUS
    <3>1. n + 2 \in 2..target /\ (n + 1) + 2 # 2 /\ ((n + 1) + 2) - 1 = n + 2
      BY <1>2
    <3>2. jump[n + 2] = g[n + 2]
      BY <2>2, <3>1
    <3>3. jump[(n + 1) + 2] = Step(jump[n + 2])
      BY <1>9, <3>1
    <3>4. g[(n + 1) + 2] = Step(g[n + 2])
      BY <1>5, <3>1
    <3> QED
      BY <3>2, <3>3, <3>4
  <2> HIDE DEF E
  <2>3. \A n \in Nat : n \in E
    BY <2>1, <2>2, NatSetInduction
  <2> QED
    BY <2>3 DEF E
<1>11. jump[target] = start[target + 1]
  <2>1. target - 2 \in Nat /\ (target - 2) + 2 = target /\ target \in 2..target
    BY <1>2
  <2> QED
    BY <1>7, <1>10, <2>1
<1> QED
  BY <1>1, <1>11

(* A branch is no node of two items, and where the value of a child is     *)
(* looked for is behind the first byte of its item.                        *)
BranchNode(rlp, items, start) ==
  /\ rlp \in Seq(Symbol)
  /\ FirstItemStart(rlp) # Nowhere
  /\ FirstItem(rlp).type # HintError
  /\ SecondItem(rlp).type # HintError
  /\ SecondItem(rlp).next # Len(rlp)
  /\ start \in [1..(Branching + 1) -> Nat]
  /\ \A i \in 1..Branching : start[i + 1] = start[i] + Len(items[i])
  /\ \A i \in 1..(Branching + 1) : Holds(rlp, start[i], items[i])
  /\ \A nibble \in Nibble : BranchValueAt(rlp, nibble) = start[nibble + 1] + 1

LEMMA BranchRead ==
  ASSUME NEW items, BranchItems(items), NEW rlp, rlp = RlpList(items)
  PROVE  \E start : BranchNode(rlp, items, start)
<1> DEFINE body == FlattenSeq(items)
<1>1. /\ items \in Seq(Seq(Symbol)) /\ Len(items) = Branching + 1
      /\ \A i \in 1..(Branching + 1) : IsBranchItem(items[i])
      /\ items[Branching + 1] = EmptyItem
      /\ Branching \in 2..16 /\ HashLen \in 2..55 /\ Branching \in Nat /\ HashLen \in Nat
  BY ScaleFacts DEF BranchItems
<1>2. \A i \in 1..(Branching + 1) :
        /\ items[i] \in Seq(Symbol) /\ Len(items[i]) \in 1..(HashLen + 1)
        /\ items[i][1] \in {128, 128 + HashLen}
  <2> TAKE i \in 1..(Branching + 1)
  <2>1. IsBranchItem(items[i]) /\ items[i] \in Seq(Symbol)
    BY <1>1, LenProperties
  <2>2. Len(items[i]) \in Nat
    BY <2>1, LenProperties
  <2>3. Holds(items[i], 0, items[i])
    BY <2>2 DEF Holds
  <2> QED
    BY <2>1, <2>3, BranchItemRead
<1>3. body \in Seq(Symbol) /\ Len(body) <= Branching * (HashLen + 1) + 1
  <2> DEFINE c == HashLen + 1
  <2>1. Len(items) # 0 /\ c \in Nat /\ 1 \in Nat /\ Len(items) - 1 = Branching
        /\ Branching + 1 \in 1..(Branching + 1)
    BY <1>1
  <2>2. \A i \in 1..(Len(items) - 1) : Len(items[i]) <= c
    BY <1>1, <1>2, <2>1
  <2>3. Len(items[Len(items)]) <= 1
    BY <1>1, EmptyCode
  <2> HIDE DEF c
  <2>4. body \in Seq(Symbol) /\ Len(body) <= (Len(items) - 1) * c + 1
    BY <1>1, <2>1, <2>2, <2>3, FlattenLength
  <2> QED
    BY <2>1, <2>4 DEF c
<1> HIDE DEF body
<1>4. Fits(Len(body))
  <2> DEFINE x == Branching * (HashLen + 1) + 1
             y == LengthBase * LengthBase
  <2>1. x \in Nat /\ y \in Nat /\ x < y
    <3>1. x \in Nat
      BY <1>1
    <3>2. x < y
      BY TrieAssumption
    <3> HIDE DEF x
    <3> QED
      BY <3>1, <3>2, ScaleFacts
  <2>2. Len(body) \in Nat /\ Len(body) <= x
    BY <1>3, LenProperties
  <2> HIDE DEF x, y
  <2>3. Len(body) < y
    BY <2>1, <2>2
  <2> QED
    BY <2>3 DEF Fits, y
<1>5. PICK f \in [1..Len(items) -> Seq(Symbol)] :
        /\ f[1] = items[1]
        /\ \A i \in 2..Len(items) : f[i] = f[i - 1] \o items[i]
        /\ body = f[Len(items)]
  <2>1. Len(items) # 0
    BY <1>1
  <2> QED
    BY <1>1, <2>1, FlattenUnfold DEF body
<1>6. Len(body) >= 1 /\ body[1] \in 0..255
  <2>1. Holds(body, 0, body)
    <3>1. Len(body) \in Nat
      BY <1>3, LenProperties
    <3> QED
      BY <3>1 DEF Holds
  <2>2. Len(items) # 0
    BY <1>1
  <2>3. PICK s : /\ StartsOf(s, items, 0)
                 /\ \A i \in 1..Len(items) : Holds(body, s[i], items[i])
    <3>1. 0 \in Nat
      OBVIOUS
    <3> QED
      BY <1>1, <1>3, <2>1, <2>2, <3>1, ItemsHeld DEF body
  <2>4. 1 \in 1..Len(items) /\ 1 \in 1..(Branching + 1) /\ s[1] = 0
    BY <1>1, <2>3 DEF StartsOf
  <2>5. Holds(body, 0, items[1])
    BY <2>3, <2>4
  <2>6. Len(items[1]) \in 1..(HashLen + 1) /\ items[1][1] \in {128, 128 + HashLen}
    BY <1>2, <2>4
  <2>7. Len(body) \in Nat /\ 0 + Len(items[1]) <= Len(body)
    BY <1>3, <2>5, LenProperties DEF Holds
  <2>8. body[0 + 1] = items[1][1]
    <3>1. 1 \in 1..Len(items[1])
      BY <1>1, <2>6
    <3> QED
      BY <2>5, <3>1 DEF Holds
  <2>9. Len(body) >= 1
    BY <1>1, <2>6, <2>7
  <2>10. 128 \in 0..255 /\ 128 + HashLen \in 0..255
    BY <1>1
  <2>11. items[1][1] \in 0..255 /\ 0 + 1 = 1
    BY <2>6, <2>10
  <2> QED
    BY <2>8, <2>9, <2>11
<1> DEFINE head == FirstItemStart(rlp)
<1>7. /\ rlp \in Seq(Symbol) /\ head \in 1..3
      /\ Len(rlp) = head + Len(body)
      /\ Holds(rlp, head, body)
  BY <1>1, <1>3, <1>4, <1>6, ListStart DEF body
<1>8. head \in Nat /\ head # Nowhere
  BY <1>7 DEF Nowhere
<1>9. PICK start : /\ StartsOf(start, items, head)
                   /\ \A i \in 1..Len(items) : Holds(rlp, start[i], items[i])
  <2>1. Len(items) # 0 /\ Holds(rlp, head, FlattenSeq(items))
    BY <1>1, <1>7 DEF body
  <2> HIDE DEF head
  <2> QED
    BY <1>1, <1>7, <1>8, <2>1, ItemsHeld
<1>10. ItemsStart(start, rlp, items)
  BY <1>9 DEF ItemsStart
<1>11. /\ start \in [1..(Branching + 1) -> Nat] /\ start[1] = head
       /\ \A i \in 1..(Branching + 1) : Holds(rlp, start[i], items[i])
       /\ \A i \in 1..Branching : start[i + 1] = start[i] + Len(items[i])
  <2>1. /\ start \in [1..(Branching + 1) -> Nat] /\ start[1] = head
        /\ \A i \in 2..(Branching + 1) : start[i] = start[i - 1] + Len(items[i - 1])
        /\ \A i \in 1..(Branching + 1) : Holds(rlp, start[i], items[i])
    BY <1>1, <1>9 DEF StartsOf
  <2>2. \A i \in 1..Branching : i + 1 \in 2..(Branching + 1) /\ (i + 1) - 1 = i
    BY <1>1
  <2> HIDE DEF head
  <2> QED
    BY <2>1, <2>2
<1> DEFINE x == FirstItem(rlp)
           y == SecondItem(rlp)
<1>12. x = ItemAt(rlp, head, HintFirstItemType(Byte(rlp, head)))
  BY DEF FirstItem
<1> HIDE DEF head
<1>13. 1 \in 1..(Branching + 1) /\ 2 \in 1..(Branching + 1) /\ 3 \in 1..(Branching + 1)
       /\ 1 \in 1..Branching /\ 2 \in 1..Branching /\ 1 + 1 = 2 /\ 2 + 1 = 3
  BY <1>1
<1>14. ReadsItem(x, head, items[1])
  BY <1>1, <1>7, <1>8, <1>11, <1>12, <1>13, BranchItemRead
<1>15. x.next = start[2]
  BY <1>11, <1>13, <1>14 DEF ReadsItem
<1>16. y = ItemAt(rlp, start[2], HintSecondItemType(Byte(rlp, start[2])))
  BY <1>15 DEF SecondItem
<1> HIDE DEF x, y
<1>17. ReadsItem(y, start[2], items[2])
  <2>1. start[2] \in Nat /\ Holds(rlp, start[2], items[2]) /\ IsBranchItem(items[2])
    BY <1>1, <1>11, <1>13
  <2> QED
    BY <1>7, <1>16, <2>1, BranchItemRead
<1>18. y.next = start[3] /\ y.value_at = start[2] + 1
  BY <1>11, <1>13, <1>17 DEF ReadsItem
<1>19. y.next # Len(rlp)
  <2>1. start[3] + Len(items[3]) <= Len(rlp) /\ Len(items[3]) \in 1..(HashLen + 1)
        /\ start[3] \in Nat /\ Len(rlp) \in Nat
    BY <1>2, <1>7, <1>11, <1>13, LenProperties DEF Holds
  <2> QED
    BY <1>1, <1>18, <2>1
<1>20. ASSUME NEW nibble \in Nibble
       PROVE  BranchValueAt(rlp, nibble) = start[nibble + 1] + 1
  <2>1. nibble \in 0..(Branching - 1)
    BY DEF Nibble
  <2>2. CASE nibble = 0
    BY <1>11, <2>2 DEF BranchValueAt, head
  <2>3. CASE nibble = 1
    BY <1>18, <2>3 DEF BranchValueAt, y
  <2>4. CASE nibble = 2
    BY <1>18, <2>4 DEF BranchValueAt, y
  <2>5. CASE nibble \notin {0, 1, 2}
    <3>1. nibble \in 2..Branching /\ nibble + 1 \in 1..(Branching + 1)
      BY <1>1, <2>1, <2>5
    <3>2. JumpTillElement(rlp, 2, nibble, start[3]) = start[nibble + 1]
      BY <1>7, <1>10, <3>1, JumpArrives
    <3>3. start[nibble + 1] # Nowhere
      BY <1>11, <3>1 DEF Nowhere
    <3>4. BranchValueAt(rlp, nibble)
            = ValueOfItem(JumpTillElement(rlp, 2, nibble, SecondItem(rlp).next))
      BY <2>5 DEF BranchValueAt
    <3>5. SecondItem(rlp).next = start[3]
      BY <1>18 DEF y
    <3> QED
      BY <3>2, <3>3, <3>4, <3>5 DEF ValueOfItem
  <2> QED
    BY <2>2, <2>3, <2>4, <2>5
<1>21. FirstItem(rlp).type # HintError /\ SecondItem(rlp).type # HintError
       /\ SecondItem(rlp).next # Len(rlp) /\ FirstItemStart(rlp) # Nowhere
  BY <1>8, <1>14, <1>17, <1>19 DEF ReadsItem, x, y, head
<1> QED
  BY <1>7, <1>11, <1>20, <1>21 DEF BranchNode

-----------------------------------------------------------------------------
(* Bytes that are the hash of no node.                                     *)
NotAHash(bytes) == \A node \in Nodes : bytes # HashOf(node)

LEMMA SecondByteTells ==
  ASSUME NEW bytes, bytes[2] \in 0..255
  PROVE  NotAHash(bytes)
<1> SUFFICES ASSUME NEW node \in Nodes, bytes = HashOf(node)
             PROVE  FALSE
  BY DEF NotAHash
<1>1. 2 \in 2..HashLen
  BY ScaleFacts
<1>2. HashOf(node)[2] = HashTail(node) /\ HashTail(node) \notin 0..255
  BY <1>1, HashCode
<1> QED
  BY <1>2

LEMMA FirstByteTells ==
  ASSUME NEW bytes, bytes[1] = 128
  PROVE  NotAHash(bytes)
<1> SUFFICES ASSUME NEW node \in Nodes, bytes = HashOf(node)
             PROVE  FALSE
  BY DEF NotAHash
<1>1. HashOf(node)[1] = HashHead(node) /\ HashHead(node) # StringPrefix
  BY HashCode
<1>2. StringPrefix = 128
  BY ScaleFacts
<1> QED
  BY <1>1, <1>2

(* The hash of a used child is found; behind an empty one is the next item *)
(* of the branch, and no hash begins there.                                *)
LEMMA ChildRead ==
  ASSUME NEW rlp, NEW items, NEW start, BranchItems(items), BranchNode(rlp, items, start),
         NEW nibble \in Nibble
  PROVE  LET at == BranchValueAt(rlp, nibble)
             item == items[nibble + 1]
         IN  /\ at # Nowhere
             /\ \A node \in Nodes :
                  item = RlpHash(node) => /\ Bytes(rlp, at, HashLen) = HashOf(node)
                                          /\ Byte(rlp, at) # StringPrefix
             /\ item = EmptyItem => NotAHash(Bytes(rlp, at, HashLen))
<1> DEFINE j == nibble + 1
           at == start[j] + 1
<1>1. Branching \in 2..16 /\ Branching \in Nat /\ HashLen \in Nat /\ HashLen >= 2
      /\ StringPrefix = 128 /\ nibble \in 0..(Branching - 1)
  BY ScaleFacts DEF Nibble
<1>2. j \in 1..Branching /\ j \in 1..(Branching + 1) /\ j + 1 \in 1..(Branching + 1)
  BY <1>1
<1>3. BranchValueAt(rlp, nibble) = at
  BY DEF BranchNode
<1>4. /\ rlp \in Seq(Symbol) /\ Len(rlp) \in Nat
      /\ start[j] \in Nat /\ start[j + 1] \in Nat
      /\ start[j + 1] = start[j] + Len(items[j])
      /\ Holds(rlp, start[j], items[j]) /\ Holds(rlp, start[j + 1], items[j + 1])
      /\ IsBranchItem(items[j + 1])
  BY <1>2, LenProperties DEF BranchNode, BranchItems
<1> HIDE DEF j, at
<1>5. at \in Nat /\ at # Nowhere
  BY <1>4 DEF Nowhere, at
<1>6. ASSUME NEW node \in Nodes, items[j] = RlpHash(node)
      PROVE  Bytes(rlp, at, HashLen) = HashOf(node) /\ Byte(rlp, at) # StringPrefix
  <2> DEFINE bytes == HashOf(node)
             code == RlpHash(node)
  <2>1. /\ bytes \in Seq(Symbol) /\ Len(bytes) = HashLen /\ Fits(HashLen)
        /\ Len(code) = HashLen + 1 /\ IsCodeOf(code, bytes)
        /\ bytes[1] = HashHead(node) /\ HashHead(node) # StringPrefix
    BY HashCode
  <2> HIDE DEF bytes, code
  <2>2. Holds(rlp, start[j], code) /\ Fits(Len(bytes))
    BY <1>4, <1>6, <2>1 DEF code
  <2>3. Holds(rlp, start[j] + (Len(code) - Len(bytes)), bytes)
    BY <1>4, <2>1, <2>2, StringRead
  <2>4. start[j] + (Len(code) - Len(bytes)) = at
    BY <1>1, <1>4, <2>1 DEF at
  <2>5. Holds(rlp, at, bytes)
    BY <2>3, <2>4
  <2>6. Bytes(rlp, at, Len(bytes)) = bytes
    BY <1>4, <1>5, <2>1, <2>5, BytesRead
  <2>7. Byte(rlp, at) = bytes[1]
    <3>1. 1 \in 1..Len(bytes)
      BY <1>1, <2>1
    <3> QED
      BY <2>5, <3>1 DEF Holds, Byte
  <2> QED
    BY <2>1, <2>6, <2>7 DEF bytes
<1>7. ASSUME items[j] = EmptyItem
      PROVE  NotAHash(Bytes(rlp, at, HashLen))
  <2> DEFINE next == items[j + 1]
             to == Min({at + HashLen, Len(rlp)})
             read == SubSeq(rlp, at + 1, to)
  <2>1. start[j + 1] = at
    BY <1>4, <1>7, EmptyCode DEF at
  <2>2. /\ next \in Seq(Symbol) /\ Len(next) \in 1..(HashLen + 1)
        /\ at + Len(next) <= Len(rlp)
        /\ \A i \in 1..Len(next) : rlp[at + i] = next[i]
    <3>1. next \in Seq(Symbol) /\ Len(next) \in 1..(HashLen + 1)
      BY <1>4, BranchItemRead
    <3> QED
      BY <1>4, <2>1, <3>1 DEF Holds
  <2>3. to \in Nat /\ to <= Len(rlp) /\ to <= at + HashLen
        /\ (to = at + HashLen \/ to = Len(rlp))
    <3>1. at + HashLen \in Int /\ Len(rlp) \in Int
      BY <1>1, <1>4, <1>5
    <3>2. to = IF at + HashLen <= Len(rlp) THEN at + HashLen ELSE Len(rlp)
      BY <3>1, SmallerOf
    <3> HIDE DEF to
    <3> QED
      BY <1>1, <1>4, <1>5, <3>2
  <2> HIDE DEF next, to
  <2>4. \A i \in 1..(to - at) : read[i] = rlp[at + i]
    <3>1. at + 1 \in Int /\ to \in Int
      BY <1>5, <2>3
    <3>2. \A i \in (at + 1)..to : rlp[i] \in Symbol
      BY <1>4, <1>5, <2>3, LenProperties
    <3>3. \A i \in 1..(to - (at + 1) + 1) : read[i] = rlp[(at + 1) + i - 1]
      BY <3>1, <3>2, SubSeqProperties
    <3> HIDE DEF read
    <3> QED
      BY <1>5, <2>3, <3>3
  <2>5. Bytes(rlp, at, HashLen) = read
    BY DEF Bytes, to
  <2> HIDE DEF read
  <2>6. CASE next = EmptyItem
    <3>1. Len(next) = 1 /\ next[1] = 128
      BY <2>6, EmptyCode
    <3>2. 1 \in 1..(to - at) /\ 1 \in 1..Len(next)
      BY <1>1, <1>4, <1>5, <2>2, <2>3, <3>1
    <3>3. read[1] = 128
      BY <2>2, <2>4, <3>1, <3>2
    <3> QED
      BY <2>5, <3>3, FirstByteTells
  <2>7. ASSUME NEW node \in Nodes, next = RlpHash(node)
        PROVE  NotAHash(read)
    <3> DEFINE bytes == HashOf(node)
    <3>1. /\ bytes \in Seq(Symbol) /\ Len(bytes) = HashLen /\ Fits(HashLen)
          /\ Len(next) = HashLen + 1 /\ IsCodeOf(next, bytes)
          /\ bytes[1] = HashHead(node) /\ HashHead(node) \in 0..255
      BY <2>7, HashCode
    <3> HIDE DEF bytes
    <3>2. Holds(next, 0, next) /\ Fits(Len(bytes))
      BY <2>2, <3>1, LenProperties DEF Holds
    <3>3. Holds(next, 0 + (Len(next) - Len(bytes)), bytes)
      <4>1. 0 \in Nat
        OBVIOUS
      <4> QED
        BY <2>2, <3>1, <3>2, <4>1, StringRead
    <3>4. 0 + (Len(next) - Len(bytes)) = 1 /\ 1 \in 1..Len(bytes)
      BY <1>1, <3>1
    <3>5. next[2] = bytes[1]
      <4>1. next[1 + 1] = bytes[1]
        BY <3>3, <3>4 DEF Holds
      <4>2. 1 + 1 = 2
        OBVIOUS
      <4> QED
        BY <4>1, <4>2
    <3>6. 2 \in 1..(to - at) /\ 2 \in 1..Len(next)
      BY <1>1, <1>4, <1>5, <2>2, <2>3, <3>1
    <3>7. read[2] \in 0..255
      <4>1. read[2] = rlp[at + 2]
        BY <2>4, <3>6
      <4>2. rlp[at + 2] = next[2]
        BY <2>2, <3>6
      <4>3. bytes[1] \in 0..255
        BY <3>1
      <4> QED
        BY <3>5, <4>1, <4>2, <4>3
    <3> QED
      BY <3>7, SecondByteTells
  <2>8. CASE \E node \in Nodes : next = RlpHash(node)
    BY <2>5, <2>7, <2>8
  <2> QED
    BY <1>4, <2>6, <2>8 DEF IsBranchItem, next
<1>8. /\ at # Nowhere
      /\ \A node \in Nodes :
           items[j] = RlpHash(node) => /\ Bytes(rlp, at, HashLen) = HashOf(node)
                                       /\ Byte(rlp, at) # StringPrefix
      /\ items[j] = EmptyItem => NotAHash(Bytes(rlp, at, HashLen))
  BY <1>5, <1>6, <1>7
<1> QED
  BY <1>3, <1>8 DEF j

-----------------------------------------------------------------------------
(* A path is found in a key if the key goes on with it.                    *)
LEMMA PathMatches ==
  ASSUME NEW k \in Seq(Nibble), NEW prefix \in Seq(Nibble), NEW shared \in Seq(Nibble),
         IsPrefix(prefix, k), IsPrefix(prefix, shared), Len(shared) <= Len(k)
  PROVE  LET path == SubSeq(shared, Len(prefix) + 1, Len(shared))
         IN  /\ path \in Seq(Nibble)
             /\ Len(path) = Len(shared) - Len(prefix)
             /\ PathInKey(path, k, Len(prefix)) <=> IsPrefix(shared, k)
<1> DEFINE n == Len(prefix)
           l == Len(shared)
           m == l - n
           path == SubSeq(shared, n + 1, l)
           part == SubSeq(k, n + 1, n + m)
<1>1. n \in Nat /\ l \in Nat /\ Len(k) \in Nat /\ n <= l /\ l <= Len(k) /\ n <= Len(k)
      /\ \A i \in 1..n : prefix[i] = k[i] /\ prefix[i] = shared[i]
  BY IsPrefixIs, LenProperties
<1>2. n + m = l /\ m \in Nat /\ n + m <= Len(shared) /\ n + m <= Len(k)
  BY <1>1
<1> HIDE DEF n, l
<1>3. path \in Seq(Nibble) /\ Len(path) = m /\ \A i \in 1..m : path[i] = shared[n + i]
  <2> HIDE DEF m
  <2>1. /\ SubSeq(shared, n + 1, n + m) \in Seq(Nibble)
        /\ Len(SubSeq(shared, n + 1, n + m)) = m
        /\ \A i \in 1..m : SubSeq(shared, n + 1, n + m)[i] = shared[n + i]
    BY <1>1, <1>2, BehindIs
  <2> QED
    BY <1>2, <2>1
<1>4. part \in Seq(Nibble) /\ Len(part) = m /\ \A i \in 1..m : part[i] = k[n + i]
  <2> HIDE DEF m
  <2> QED
    BY <1>1, <1>2, BehindIs
<1> HIDE DEF m, path, part
<1>5. PathInKey(path, k, n) <=> part = path
  BY <1>3 DEF PathInKey, part
<1>6. part = path <=> \A i \in 1..m : part[i] = path[i]
  BY <1>3, <1>4, SeqEqual
<1>7. IsPrefix(shared, k) <=> \A i \in 1..l : shared[i] = k[i]
  BY <1>1, IsPrefixIs DEF l
<1>8. ASSUME \A i \in 1..m : part[i] = path[i]
      PROVE  \A i \in 1..l : shared[i] = k[i]
  <2> TAKE i \in 1..l
  <2>1. CASE i <= n
    <3>1. i \in 1..n
      BY <1>1, <2>1
    <3>2. prefix[i] = k[i] /\ prefix[i] = shared[i]
      BY <1>1, <3>1
    <3> QED
      BY <3>2
  <2>2. CASE i > n
    <3>1. i - n \in 1..m /\ n + (i - n) = i
      BY <1>1, <1>2, <2>2
    <3>2. part[i - n] = k[n + (i - n)] /\ path[i - n] = shared[n + (i - n)]
          /\ part[i - n] = path[i - n]
      BY <1>3, <1>4, <1>8, <3>1
    <3> QED
      BY <3>1, <3>2
  <2> QED
    BY <1>1, <2>1, <2>2
<1>9. ASSUME \A i \in 1..l : shared[i] = k[i]
      PROVE  \A i \in 1..m : part[i] = path[i]
  <2> TAKE i \in 1..m
  <2>1. n + i \in 1..l
    BY <1>1, <1>2
  <2>2. shared[n + i] = k[n + i] /\ part[i] = k[n + i] /\ path[i] = shared[n + i]
    BY <1>3, <1>4, <1>9, <2>1
  <2> QED
    BY <2>2
<1>10. PathInKey(path, k, n) <=> IsPrefix(shared, k)
  BY <1>5, <1>6, <1>7, <1>8, <1>9
<1> QED
  BY <1>3, <1>10 DEF path, n, l, m

-----------------------------------------------------------------------------
(* The nodes of a trie.                                                    *)
LEMMA NodesOfTries ==
  ASSUME NEW trie \in Contents, NEW prefix \in KeyPrefixes(trie)
  PROVE  NodeAt(trie)[prefix] \in Nodes
<1>1. NodeAt(trie)[prefix] \in Range(NodeAt(trie))
  BY NodeAtUnfold, Zenon DEF Range
<1> HIDE DEF NodeAt
<1> QED
  BY <1>1, Zenon DEF Nodes

PathFrom(trie, prefix) ==
  SubSeq(Shared(trie, prefix), Len(prefix) + 1, Len(Shared(trie, prefix)))

LEMMA PathFromFits ==
  ASSUME NEW trie \in Contents, NEW prefix \in KeyPrefixes(trie), NEW k \in DOMAIN trie
  PROVE  /\ PathFrom(trie, prefix) \in Seq(Nibble)
         /\ Len(PathFrom(trie, prefix)) <= Len(k)
         /\ Len(PathFrom(trie, prefix)) \div 2 \in Nat
         /\ Len(PathFrom(trie, prefix)) \div 2 <= Len(k) \div 2
         /\ Len(PathFrom(trie, prefix)) \div 2 < ShortMax
<1> DEFINE shared == Shared(trie, prefix)
           path == PathFrom(trie, prefix)
<1>1. /\ prefix \in Seq(Nibble) /\ shared \in Seq(Nibble) /\ shared \in KeyPrefixes(trie)
      /\ IsPrefix(prefix, shared)
  BY KeyPrefixesIs, SharedIs, SharedGoesOn
<1>2. Len(shared) <= Len(k)
  BY <1>1, NoKeyInside
<1>3. k \in Seq(Nibble) /\ Len(k) \in Nat /\ Len(k) \div 2 < ShortMax /\ ShortMax \in Nat
  BY KeyTypes, MptAssumption, LenProperties, ScaleFacts
<1> HIDE DEF shared
<1>4. Len(prefix) \in Nat /\ Len(shared) \in Nat /\ Len(prefix) <= Len(shared)
  BY <1>1, IsPrefixIs, LenProperties
<1>5. path \in Seq(Nibble) /\ Len(path) = Len(shared) - Len(prefix)
  <2> DEFINE n == Len(prefix)
             m == Len(shared) - n
  <2>1. n \in Nat /\ m \in Nat /\ n + m = Len(shared)
    BY <1>4
  <2>2. path = SubSeq(shared, n + 1, n + m)
    BY <2>1 DEF PathFrom, shared
  <2> HIDE DEF n, m, path
  <2>3. n + m <= Len(shared)
    BY <1>4, <2>1
  <2>4. path \in Seq(Nibble) /\ Len(path) = m
    BY <1>1, <2>1, <2>2, <2>3, BehindIs
  <2> QED
    BY <2>4 DEF m, n
<1> HIDE DEF path
<1>6. Len(path) \in Nat /\ Len(path) <= Len(k)
  BY <1>2, <1>3, <1>4, <1>5
<1>7. Len(path) \div 2 \in Nat /\ Len(path) \div 2 <= Len(k) \div 2
  <2> DEFINE x == Len(path)
             y == Len(k)
  <2>1. x \in Nat /\ y \in Nat /\ x <= y
    BY <1>3, <1>6
  <2> HIDE DEF x, y
  <2>2. x \div 2 \in Nat /\ x \div 2 <= y \div 2
    BY <2>1
  <2> QED
    BY <2>2 DEF x, y
<1>8. Len(k) \div 2 \in Int
  BY <1>3
<1>9. Len(path) \div 2 < ShortMax
  BY <1>3, <1>7, <1>8
<1> QED
  BY <1>5, <1>6, <1>7, <1>9 DEF path

LEMMA LeafNodeRead ==
  ASSUME NEW trie \in Contents, NEW prefix \in KeyPrefixes(trie), NEW k,
         KeysUnder(trie, prefix) = {k}
  PROVE  TwoItemNode(NodeAt(trie)[prefix], PathFrom(trie, prefix), trie[k])
<1> DEFINE path == PathFrom(trie, prefix)
           value == trie[k]
           code == RlpString(value)
           node == NodeAt(trie)[prefix]
<1>1. k \in DOMAIN trie
  BY DEF KeysUnder
<1>2. Shared(trie, prefix) = k
  BY SharedOfOne
<1>3. IsLeaf(trie, prefix)
  BY LeafHasOneKey
<1>4. node = RlpList(<<RlpString(HexPrefix(path, 2)), code>>)
  <2>1. node = NodeBody(trie, NodeAt(trie), prefix)
    BY NodeAtUnfold
  <2> HIDE DEF node
  <2> QED
    BY <1>2, <1>3, <2>1, Zenon DEF NodeBody, PathFrom
<1> HIDE DEF node
<1>5. /\ value \in Seq(0..255) \/ \E below \in Nodes : value = HashOf(below)
      /\ Len(k) \div 2 + Len(value) + 5 < LengthBase * LengthBase
  BY <1>1, MptAssumption DEF ValueFits
<1>6. /\ path \in Seq(Nibble) /\ Len(path) \div 2 \in Nat
      /\ Len(path) \div 2 <= Len(k) \div 2 /\ Len(path) \div 2 < ShortMax
  BY <1>1, PathFromFits
<1>7. value \in Seq(Symbol) /\ IsCodeOf(code, value)
  BY <1>5, ValueCode
<1> HIDE DEF path, value, code
<1>8. Len(value) \in Nat /\ Len(k) \div 2 \in Nat /\ LengthBase * LengthBase \in Nat
  <2>1. Len(k) \in Nat
    BY <1>1, KeyTypes, LenProperties
  <2>2. Len(k) \div 2 \in Nat
    BY <2>1, Halving
  <2>3. Len(value) \in Nat
    BY <1>7, LenProperties
  <2> QED
    BY <2>2, <2>3, ScaleFacts
<1> DEFINE x == Len(path) \div 2
           y == Len(k) \div 2
           z == Len(value)
           u == LengthBase * LengthBase
           v == Len(code)
<1>9. x \in Nat /\ y \in Nat /\ z \in Nat /\ u \in Nat /\ x <= y /\ (y + z) + 5 < u
  BY <1>5, <1>6, <1>8
<1>10. Fits(Len(value))
  <2>1. z < u
    <3> HIDE DEF x, y, z, u
    <3> QED
      BY <1>9
  <2> QED
    BY <2>1 DEF Fits
<1>11. v \in Nat /\ v <= z + 3
  BY <1>7, <1>10, CodeLength
<1>12. Fits(Len(path) \div 2 + 2 + Len(code))
  <2>1. x + 2 + v < u
    <3> HIDE DEF x, y, z, u, v
    <3> QED
      BY <1>9, <1>11
  <2> QED
    BY <2>1 DEF Fits
<1>13. TwoItemNode(node, path, value)
  <2> HIDE DEF x, y, z, u, v
  <2>1. 2 \in {0, 2}
    OBVIOUS
  <2> QED
    BY <1>4, <1>6, <1>7, <1>10, <1>12, <2>1, TwoItemsRead
<1> QED
  BY <1>13 DEF path, value, node

LEMMA ExtensionNodeRead ==
  ASSUME NEW trie \in Contents, NEW prefix \in KeyPrefixes(trie),
         ~IsLeaf(trie, prefix), ~IsBranch(trie, prefix)
  PROVE  TwoItemNode(NodeAt(trie)[prefix], PathFrom(trie, prefix),
                     HashOf(NodeAt(trie)[Shared(trie, prefix)]))
<1> DEFINE path == PathFrom(trie, prefix)
           below == NodeAt(trie)[Shared(trie, prefix)]
           hash == HashOf(below)
           code == RlpHash(below)
           node == NodeAt(trie)[prefix]
<1>1. below \in Nodes
  BY SharedGoesOn, NodesOfTries
<1>2. node = RlpList(<<RlpString(HexPrefix(path, 0)), code>>)
  <2>1. node = NodeBody(trie, NodeAt(trie), prefix)
    BY NodeAtUnfold
  <2> HIDE DEF node
  <2> QED
    BY <2>1, Zenon DEF NodeBody, PathFrom
<1> HIDE DEF node
<1>3. PICK k : k \in DOMAIN trie
  BY MptAssumption
<1>4. path \in Seq(Nibble) /\ Len(path) \div 2 \in Nat /\ Len(path) \div 2 < ShortMax
  BY <1>3, PathFromFits
<1> HIDE DEF below
<1>5. /\ hash \in Seq(Symbol) /\ Len(hash) = HashLen /\ Fits(HashLen)
      /\ code \in Seq(Symbol) /\ Len(code) = HashLen + 1 /\ IsCodeOf(code, hash)
  BY <1>1, HashCode
<1> HIDE DEF path, hash, code
<1>6. Fits(Len(hash)) /\ Fits(Len(path) \div 2 + 2 + Len(code))
  <2> DEFINE x == Len(path) \div 2
             u == LengthBase * LengthBase
  <2>1. x \in Nat /\ u \in Nat /\ x < ShortMax /\ ShortMax \in Nat /\ HashLen \in Nat
        /\ (ShortMax + 1) + (HashLen + 1) < u
    BY <1>4, ScaleFacts, TrieAssumption
  <2>2. x + 2 + (HashLen + 1) < u
    <3> HIDE DEF x, u
    <3> QED
      BY <2>1
  <2> QED
    BY <1>5, <2>2 DEF Fits
<1>7. TwoItemNode(node, path, hash)
  <2>1. 0 \in {0, 2}
    OBVIOUS
  <2> QED
    BY <1>2, <1>4, <1>5, <1>6, <2>1, TwoItemsRead
<1> QED
  BY <1>7 DEF path, hash, below, node

(* The items of a branch of a trie.                                        *)
ItemsOf(trie, prefix) ==
  Append([i \in 1..Branching |-> ItemOfChild(trie, NodeAt(trie), prefix, i - 1)],
         EmptyItem)

LEMMA BranchNodeRead ==
  ASSUME NEW trie \in Contents, NEW prefix \in KeyPrefixes(trie),
         ~IsLeaf(trie, prefix), IsBranch(trie, prefix)
  PROVE  /\ NodeAt(trie)[prefix] = RlpList(ItemsOf(trie, prefix))
         /\ BranchItems(ItemsOf(trie, prefix))
         /\ \A nibble \in Nibble :
              LET child == Append(prefix, nibble)
                  item == ItemsOf(trie, prefix)[nibble + 1]
              IN  IF KeysUnder(trie, child) # {}
                    THEN item = RlpHash(NodeAt(trie)[child]) /\ child \in KeyPrefixes(trie)
                    ELSE item = EmptyItem
<1> DEFINE kids == [i \in 1..Branching |-> ItemOfChild(trie, NodeAt(trie), prefix, i - 1)]
           items == ItemsOf(trie, prefix)
           node == NodeAt(trie)[prefix]
<1>1. prefix \in Seq(Nibble) /\ prefix \notin DOMAIN trie
  <2>1. PICK k : k \in DOMAIN trie
    BY MptAssumption
  <2> QED
    BY <2>1, KeyPrefixesIs, NoKeyInside
<1>2. items = Append(kids, EmptyItem)
  BY DEF ItemsOf
<1>3. node = RlpList(items)
  <2>1. node = NodeBody(trie, NodeAt(trie), prefix)
    BY NodeAtUnfold
  <2>2. (IF prefix \in DOMAIN trie THEN trie[prefix] ELSE <<>>) = <<>>
    BY <1>1
  <2>3. RlpString(IF prefix \in DOMAIN trie THEN trie[prefix] ELSE <<>>) = EmptyItem
    BY <2>2, EmptyCode
  <2> HIDE DEF node, kids, items
  <2>4. NodeBody(trie, NodeAt(trie), prefix)
          = RlpList(Append(kids, RlpString(IF prefix \in DOMAIN trie
                                             THEN trie[prefix] ELSE <<>>)))
    BY Zenon DEF NodeBody, kids
  <2> QED
    BY <1>2, <2>1, <2>3, <2>4
<1>4. Branching \in 2..16 /\ Branching \in Nat
  BY ScaleFacts
<1>5. ASSUME NEW nibble \in Nibble
      PROVE  LET child == Append(prefix, nibble)
                 item == kids[nibble + 1]
             IN  /\ IF KeysUnder(trie, child) # {}
                      THEN item = RlpHash(NodeAt(trie)[child]) /\ child \in KeyPrefixes(trie)
                      ELSE item = EmptyItem
                 /\ IsBranchItem(item)
  <2> DEFINE child == Append(prefix, nibble)
             item == kids[nibble + 1]
  <2>1. child \in Seq(Nibble)
    BY <1>1, AppendProperties
  <2>2. item = ItemOfChild(trie, NodeAt(trie), prefix, nibble)
    <3>1. nibble + 1 \in 1..Branching /\ (nibble + 1) - 1 = nibble
      BY <1>4 DEF Nibble
    <3> QED
      BY <3>1
  <2> HIDE DEF child, kids, item
  <2>3. item = IF KeysUnder(trie, child) # {} THEN RlpHash(NodeAt(trie)[child])
               ELSE RlpString(<<>>)
    BY <2>2, Zenon DEF ItemOfChild, child
  <2>4. CASE KeysUnder(trie, child) # {}
    <3>1. child \in KeyPrefixes(trie)
      BY <2>1, <2>4, KeyPrefixesIs
    <3>2. NodeAt(trie)[child] \in Nodes
      BY <3>1, NodesOfTries
    <3> DEFINE below == NodeAt(trie)[child]
    <3>3. item = RlpHash(below) /\ below \in Nodes
      BY <2>3, <2>4, <3>2
    <3> HIDE DEF below
    <3>4. IsBranchItem(item)
      BY <3>3 DEF IsBranchItem
    <3> QED
      BY <2>4, <3>1, <3>3, <3>4 DEF child, item, below
  <2>5. CASE ~(KeysUnder(trie, child) # {})
    <3>1. item = EmptyItem
      BY <2>3, <2>5, EmptyCode
    <3> QED
      BY <2>5, <3>1 DEF IsBranchItem, child, item
  <2> QED
    BY <2>4, <2>5
<1>6. \A i \in 1..Branching : IsBranchItem(kids[i])
  <2> TAKE i \in 1..Branching
  <2>1. i - 1 \in Nibble /\ (i - 1) + 1 = i
    BY <1>4 DEF Nibble
  <2> HIDE DEF kids
  <2>2. IsBranchItem(kids[(i - 1) + 1])
    BY <1>5, <2>1
  <2> QED
    BY <2>1, <2>2
<1>7. \A item : IsBranchItem(item) => item \in Seq(Symbol)
  BY HashCode, EmptyCode DEF IsBranchItem
<1>8. kids \in Seq(Seq(Symbol)) /\ Len(kids) = Branching
  <2>1. kids = [i \in 1..Branching |-> kids[i]]
    OBVIOUS
  <2> HIDE DEF kids
  <2>2. kids \in [1..Branching -> Seq(Symbol)]
    BY <1>6, <1>7, <2>1
  <2> QED
    BY <1>4, <2>2, SeqDef, LenProperties
<1> HIDE DEF kids
<1>9. /\ items \in Seq(Seq(Symbol)) /\ Len(items) = Branching + 1
      /\ \A i \in 1..Branching : items[i] = kids[i]
      /\ items[Branching + 1] = EmptyItem
  BY <1>2, <1>8, EmptyCode, AppendProperties
<1>10. BranchItems(items)
  <2>1. \A i \in 1..(Branching + 1) : IsBranchItem(items[i])
    <3> TAKE i \in 1..(Branching + 1)
    <3>1. i \in 1..Branching \/ i = Branching + 1
      BY <1>4
    <3>2. IsBranchItem(EmptyItem)
      BY DEF IsBranchItem
    <3> QED
      BY <1>6, <1>9, <3>1, <3>2
  <2> QED
    BY <1>9, <2>1 DEF BranchItems
<1>11. \A nibble \in Nibble : items[nibble + 1] = kids[nibble + 1]
  <2>1. \A nibble \in Nibble : nibble + 1 \in 1..Branching
    BY <1>4 DEF Nibble
  <2> QED
    BY <1>9, <2>1
<1>12. \A nibble \in Nibble :
         LET child == Append(prefix, nibble)
             item == items[nibble + 1]
         IN  IF KeysUnder(trie, child) # {}
               THEN item = RlpHash(NodeAt(trie)[child]) /\ child \in KeyPrefixes(trie)
               ELSE item = EmptyItem
  BY <1>5, <1>11
<1> QED
  BY <1>3, <1>10, <1>12

-----------------------------------------------------------------------------
(* The node of a trie at the first n nibbles of a key, by its hash.        *)
Leads(trie, k, n, hash) ==
  /\ SubSeq(k, 1, n) \in KeyPrefixes(trie)
  /\ hash = HashOf(NodeAt(trie)[SubSeq(k, 1, n)])

(* What is decoded from a node on the way of a key: from the last one,     *)
(* with the whole key checked, the answer of the trie; from another one,   *)
(* the hash of a node further down or of none, or the value of the key.    *)
DecodedRight(trie, k, last, decoded) ==
  IF last
    THEN decoded.checked = Len(k) =>
           IF k \in DOMAIN trie
             THEN decoded.item = trie[k] /\ decoded.len = Len(trie[k])
             ELSE decoded.len = -1
    ELSE /\ decoded.checked \in 0..Len(k)
         /\ \/ NotAHash(decoded.item)
            \/ Leads(trie, k, decoded.checked, decoded.item)
            \/ k \in DOMAIN trie /\ decoded.item = trie[k]

(* A node whose path, if it has one, is compared as it is with a key of    *)
(* which n nibbles are checked.                                            *)
Unpadded(node) ==
  FirstItem(node).type = "short" => ~KeepsLength(PathBytes(node, FirstItem(node)))

Regular(node, k, n) == Unpadded(node) /\ Len(k) - n # 2 * HalfNibbles

LEMMA PrefixIsFront ==
  ASSUME NEW s \in Seq(Nibble), NEW k \in Seq(Nibble), IsPrefix(s, k)
  PROVE  SubSeq(k, 1, Len(s)) = s /\ Len(s) \in 0..Len(k)
<1>1. Len(s) \in 0..Len(k) /\ \A i \in 1..Len(s) : s[i] = k[i]
  BY IsPrefixIs, LenProperties
<1> DEFINE front == SubSeq(k, 1, Len(s))
<1>2. front \in Seq(Nibble) /\ Len(front) = Len(s) /\ \A i \in 1..Len(s) : front[i] = k[i]
  BY <1>1, FrontIs
<1> HIDE DEF front
<1>3. front = s
  <2>1. \A i \in 1..Len(front) : front[i] = s[i]
    BY <1>1, <1>2
  <2> QED
    BY <1>2, <2>1, SeqEqual
<1> QED
  BY <1>1, <1>3 DEF front

(* A path of one nibble or of none, in one byte.                           *)
LEMMA ByteOfPath ==
  ASSUME NEW rlp, NEW item, item.len = 1, item.value_at \in Int,
         NEW path, PathOf(rlp, item) = path
  PROVE  IF IsOdd(rlp, item)
           THEN path = <<Byte(rlp, item.value_at) % 16>>
           ELSE path = <<>>
<1> DEFINE at == item.value_at
           ByteOf(i) == Byte(rlp, at + i \div 2)
           nibbles == [i \in 1..2 |-> IF i % 2 = 1 THEN ByteOf(i - 1) \div 16
                                      ELSE ByteOf(i - 1) % 16]
<1>1. path = SubSeq(nibbles, IF IsOdd(rlp, item) THEN 2 ELSE 3, 2)
  BY DEF PathOf
<1>2. nibbles[2] = Byte(rlp, at) % 16
  <2>1. 2 % 2 # 1 /\ 2 - 1 = 1 /\ 1 \div 2 = 0 /\ at + 0 = at /\ 2 \in 1..2
    OBVIOUS
  <2> QED
    BY <2>1
<1> HIDE DEF nibbles
<1>3. CASE IsOdd(rlp, item)
  <2>1. path = SubSeq(nibbles, 2, 2)
    BY <1>1, <1>3
  <2>2. SubSeq(nibbles, 2, 2) = [i \in 1..1 |-> nibbles[2 + i - 1]]
    BY DEF SubSeq
  <2> DEFINE nibble == nibbles[2]
  <2>3. path = [i \in 1..1 |-> nibble]
    <3>1. \A i \in 1..1 : 2 + i - 1 = 2
      OBVIOUS
    <3> QED
      BY <2>1, <2>2, <3>1
  <2> HIDE DEF nibble
  <2>4. [i \in 1..1 |-> nibble] = <<nibble>>
    OBVIOUS
  <2> QED
    BY <1>2, <1>3, <2>3, <2>4 DEF nibble
<1>4. CASE ~IsOdd(rlp, item)
  <2>1. path = SubSeq(nibbles, 3, 2)
    BY <1>1, <1>4
  <2>2. path = <<>>
    BY <2>1 DEF SubSeq
  <2> QED
    BY <1>4, <2>2
<1> QED
  BY <1>3, <1>4

(* A key goes on with one nibble if that is its next one.                  *)
LEMMA NibbleMatches ==
  ASSUME NEW k \in Seq(Nibble), NEW n \in Nat, n + 1 <= Len(k), NEW nibble,
         <<nibble>> \in Seq(Nibble)
  PROVE  PathInKey(<<nibble>>, k, n) <=> k[n + 1] = nibble
<1> DEFINE part == SubSeq(k, n + 1, n + 1)
           path == <<nibble>>
<1>1. part \in Seq(Nibble) /\ Len(part) = 1 /\ \A i \in 1..1 : part[i] = k[n + i]
  BY BehindIs
<1>2. Len(path) = 1 /\ path[1] = nibble
  OBVIOUS
<1>3. PathInKey(path, k, n) <=> part = path
  BY <1>2 DEF PathInKey
<1> HIDE DEF part, path
<1>4. part = path <=> \A i \in 1..1 : part[i] = path[i]
  BY <1>1, <1>2, SeqEqual DEF path
<1>5. part = path <=> part[1] = path[1]
  BY <1>4
<1>6. part[1] = k[n + 1]
  BY <1>1
<1> QED
  BY <1>2, <1>3, <1>5, <1>6 DEF path

(* What the comparison says of the path of a regular node, if it does not  *)
(* stop the run.                                                           *)
LEMMA PathTested ==
  ASSUME NEW node, NEW path \in Seq(Nibble), NEW bytes, TwoItemNode(node, path, bytes),
         NEW k \in Seq(Nibble), NEW n \in Nat, n + Len(path) <= Len(k),
         Regular(node, k, n),
         NEW test \in PathTests(node, FirstItem(node), k, n), test # "stops"
  PROVE  test = IF PathInKey(path, k, n) THEN "in" ELSE "out"
<1> DEFINE first == FirstItem(node)
<1>1. PathOf(node, first) = path /\ first.type # HintError /\ FirstItemStart(node) \in Nat
  BY DEF TwoItemNode
<1>2. CASE first.type = "short"
  <2> DEFINE code == PathBytes(node, first)
  <2>1. test \in SubsetTests(path, code, k, n)
    BY <1>1, <1>2 DEF PathTests
  <2>2. ~KeepsLength(code) /\ Len(k) - n # 2 * HalfNibbles
    BY <1>2 DEF Regular, Unpadded
  <2> HIDE DEF code, first
  <2> QED
    BY <2>1, <2>2 DEF SubsetTests
<1>3. CASE first.type # "short"
  <2> DEFINE at == FirstItemStart(node)
             type == HintFirstItemType(Byte(node, at))
             byte == Byte(node, first.value_at)
  <2>1. first = ItemAt(node, at, type)
    BY DEF FirstItem
  <2> HIDE DEF first, at
  <2>2. first.len = 1 /\ first.value_at \in Int
    <3>1. type \in {"byte", "short", HintError}
      BY DEF HintFirstItemType
    <3> HIDE DEF type
    <3>2. CASE type = "byte"
      BY <1>1, <2>1, <3>2 DEF ItemAt, at
    <3>3. CASE type = "short"
      <4>1. first.type = "short"
        BY <2>1, <3>3 DEF ItemAt
      <4> QED
        BY <1>3, <4>1
    <3>4. CASE type = HintError
      <4>1. first.type = HintError
        BY <2>1, <3>4 DEF ItemAt, HintError
      <4> QED
        BY <1>1, <4>1
    <3> QED
      BY <3>1, <3>2, <3>3, <3>4
  <2>3. IF IsOdd(node, first) THEN path = <<byte % 16>> ELSE path = <<>>
    BY <1>1, <2>2, ByteOfPath
  <2> HIDE DEF byte
  <2>4. CASE IsOdd(node, first)
    <3>1. PICK m \in KeyNibble(k, n) : test = NibbleTest(m, byte)
      BY <1>3, <2>4 DEF PathTests, byte, first
    <3>2. n + 1 <= Len(k) /\ n < Len(k) /\ Len(k) \in Nat
      <4> DEFINE nibble == byte % 16
      <4>1. path = <<nibble>>
        BY <2>3, <2>4
      <4> HIDE DEF nibble
      <4>2. Len(path) = 1 /\ Len(k) \in Nat
        BY <4>1, LenProperties
      <4> QED
        BY <4>2
    <3>3. m # NoNibble
      BY <3>1 DEF NibbleTest
    <3>4. m = k[n + 1]
      BY <3>2, <3>3 DEF KeyNibble
    <3>5. test = IF k[n + 1] = byte % 16 THEN "in" ELSE "out"
      BY <3>1, <3>3, <3>4 DEF NibbleTest
    <3> DEFINE nibble == byte % 16
    <3>6. path = <<nibble>>
      BY <2>3, <2>4
    <3>7. test = IF k[n + 1] = nibble THEN "in" ELSE "out"
      BY <3>5
    <3> HIDE DEF nibble
    <3>8. PathInKey(<<nibble>>, k, n) <=> k[n + 1] = nibble
      BY <3>2, <3>6, NibbleMatches
    <3> QED
      BY <3>6, <3>7, <3>8
  <2>5. CASE ~IsOdd(node, first)
    <3>1. test = "in"
      BY <1>3, <2>5 DEF PathTests, first
    <3>2. PathInKey(<<>>, k, n)
      <4>1. Len(<<>>) = 0 /\ <<>> \in Seq(Nibble)
        OBVIOUS
      <4>2. SubSeq(k, n + 1, n + 0) = <<>>
        BY DEF SubSeq
      <4> QED
        BY <4>1, <4>2 DEF PathInKey
    <3> QED
      BY <2>3, <2>5, <3>1, <3>2
  <2> QED
    BY <2>4, <2>5
<1> QED
  BY <1>2, <1>3

(* A node of two items whose path goes on with the key or does not.        *)
LEMMA TwoItemsDecoded ==
  ASSUME NEW node, NEW path \in Seq(Nibble), NEW bytes, NEW last \in BOOLEAN,
         TwoItemNode(node, path, bytes),
         NEW k \in Seq(Nibble), NEW n \in Nat, n + Len(path) <= Len(k),
         Regular(node, k, n),
         NEW decoded \in DecodeNode(node, last, k, n), ~decoded.failed
  PROVE  /\ ~PathInKey(path, k, n) => decoded = Found(Len(k), node, -1)
         /\ PathInKey(path, k, n) =>
              /\ decoded.checked = n + Len(path) /\ decoded.item = bytes
              /\ last => decoded.len = Len(bytes)
              /\ ~last => Len(bytes) = HashLen
<1> DEFINE first == FirstItem(node)
           second == SecondItem(node)
<1>1. /\ FirstItemStart(node) # Nowhere /\ first.type # HintError
      /\ second.type # HintError /\ second.next = Len(node)
      /\ PathOf(node, first) = path /\ second.len = Len(bytes)
      /\ Bytes(node, second.value_at, second.len) = bytes
  BY DEF TwoItemNode
<1>2. HasTwoItems(node)
  BY <1>1 DEF HasTwoItems
<1>3. decoded \in DecodeLeafOrExtension(node, first, second, last, k, n)
  BY <1>1, <1>2 DEF DecodeNode
<1> DEFINE tests == PathTests(node, first, k, n)
           ways == PathChecked(node, first, second, last, n)
           Outcomes(test) ==
             CASE test = "in"    -> ways
               [] test = "out"   -> {NotIncluded(node, k)}
               [] test = "stops" -> {Failed}
<1>4. decoded \in UNION {Outcomes(test) : test \in tests}
  BY <1>3 DEF DecodeLeafOrExtension
<1>5. decoded # Failed
  BY DEF Failed
<1> HIDE DEF ways, tests
<1>6. PICK test : test \in tests /\ decoded \in Outcomes(test)
  BY <1>4
<1>7. test # "stops"
  BY <1>5, <1>6
<1>8. test = IF PathInKey(path, k, n) THEN "in" ELSE "out"
  BY <1>6, <1>7, PathTested DEF tests
<1> HIDE DEF first, second
<1>9. CASE ~PathInKey(path, k, n)
  <2>1. decoded = NotIncluded(node, k)
    BY <1>6, <1>8, <1>9
  <2> QED
    BY <1>9, <2>1 DEF NotIncluded
<1> DEFINE all == n + Len(path)
<1>10. ASSUME PathInKey(path, k, n)
       PROVE  decoded \in (IF ~last
                             THEN IF second.len = HashLen
                                    THEN HashFound(node, second.value_at, all) ELSE {Failed}
                           ELSE IF second.len = 0 THEN {Failed}
                           ELSE {Found(all, bytes, second.len)})
  <2>1. decoded \in ways
    BY <1>6, <1>8, <1>10
  <2> QED
    BY <1>1, <2>1 DEF ways, PathChecked
<1> HIDE DEF all
<1>11. CASE PathInKey(path, k, n) /\ last
  <2>1. decoded = Found(all, bytes, Len(bytes))
    BY <1>1, <1>5, <1>10, <1>11
  <2>2. decoded.checked = all /\ decoded.item = bytes /\ decoded.len = Len(bytes)
    BY <2>1 DEF Found
  <2> QED
    BY <1>11, <2>2 DEF all
<1>12. CASE PathInKey(path, k, n) /\ ~last
  <2>1. second.len = HashLen /\ decoded \in HashFound(node, second.value_at, all)
    BY <1>5, <1>10, <1>12
  <2>2. decoded = Found(all, Bytes(node, second.value_at, HashLen), HashLen)
    BY <1>5, <2>1 DEF HashFound
  <2>3. decoded.checked = all /\ decoded.item = bytes
    BY <1>1, <2>1, <2>2 DEF Found
  <2> QED
    BY <1>1, <1>12, <2>1, <2>3 DEF all
<1> QED
  BY <1>9, <1>11, <1>12

LEMMA LeafDecoded ==
  ASSUME NEW trie \in Contents, NEW k \in Keys, NEW prefix \in KeyPrefixes(trie),
         IsPrefix(prefix, k), NEW l, KeysUnder(trie, prefix) = {l}, NEW last \in BOOLEAN,
         Regular(NodeAt(trie)[prefix], k, Len(prefix)),
         NEW decoded \in DecodeNode(NodeAt(trie)[prefix], last, k, Len(prefix)),
         ~decoded.failed
  PROVE  DecodedRight(trie, k, last, decoded)
<1> DEFINE node == NodeAt(trie)[prefix]
           path == PathFrom(trie, prefix)
           n == Len(prefix)
<1>1. /\ l \in DOMAIN trie /\ l \in Seq(Nibble) /\ Len(l) = Len(k) /\ k \in Seq(Nibble)
      /\ prefix \in Seq(Nibble) /\ Shared(trie, prefix) = l /\ IsPrefix(prefix, l)
      /\ Len(k) \in Nat /\ n \in Nat
  <2>1. l \in DOMAIN trie /\ IsPrefix(prefix, l)
    BY DEF KeysUnder
  <2>2. l \in Seq(Nibble) /\ Len(l) = Len(k) /\ k \in Seq(Nibble)
    BY <2>1, KeyTypes, MptAssumption
  <2>3. prefix \in Seq(Nibble) /\ Shared(trie, prefix) = l
    BY KeyPrefixesIs, SharedOfOne
  <2> QED
    BY <2>1, <2>2, <2>3, LenProperties
<1>2. TwoItemNode(node, path, trie[l])
  BY LeafNodeRead
<1>3. /\ path \in Seq(Nibble) /\ Len(path) = Len(k) - n
      /\ PathInKey(path, k, n) <=> IsPrefix(l, k)
  <2>1. path = SubSeq(l, n + 1, Len(l))
    BY <1>1 DEF PathFrom
  <2>2. Len(l) <= Len(k)
    BY <1>1
  <2> HIDE DEF path
  <2> QED
    BY <1>1, <2>1, <2>2, PathMatches
<1>4. IsPrefix(l, k) <=> l = k
  <2>1. IsPrefix(k, k)
    BY <1>1, IsPrefixIs
  <2>2. ASSUME IsPrefix(l, k)
        PROVE  l = k
    <3>1. \A i \in 1..Len(l) : l[i] = k[i]
      BY <1>1, <2>2, IsPrefixIs
    <3> QED
      BY <1>1, <3>1, SeqEqual
  <2> QED
    BY <2>1, <2>2
<1>5. k \in DOMAIN trie => k = l
  BY DEF KeysUnder
<1> HIDE DEF path, n, node
<1>6. /\ decoded \in DecodeNode(node, last, k, n) /\ Regular(node, k, n)
      /\ n + Len(path) <= Len(k)
  <2>1. n + (Len(k) - n) <= Len(k)
    BY <1>1 DEF n
  <2> QED
    BY <1>3, <2>1 DEF node, n
<1>7. /\ ~PathInKey(path, k, n) => decoded = Found(Len(k), node, -1)
      /\ PathInKey(path, k, n) =>
           /\ decoded.checked = n + Len(path) /\ decoded.item = trie[l]
           /\ last => decoded.len = Len(trie[l])
           /\ ~last => Len(trie[l]) = HashLen
  BY <1>1, <1>2, <1>3, <1>6, TwoItemsDecoded
<1>8. CASE l = k
  <2>1. decoded.checked = Len(k) /\ decoded.item = trie[k]
        /\ (last => decoded.len = Len(trie[k])) /\ (~last => Len(trie[k]) = HashLen)
    <3>1. n + (Len(k) - n) = Len(k)
      BY <1>1
    <3> QED
      BY <1>3, <1>4, <1>7, <1>8, <3>1
  <2>2. CASE last
    BY <1>1, <1>8, <2>1, <2>2 DEF DecodedRight
  <2>3. CASE ~last
    <3>1. Len(k) \in 0..Len(k)
      BY <1>1
    <3> QED
      BY <1>1, <1>8, <2>1, <2>3, <3>1 DEF DecodedRight
  <2> QED
    BY <2>2, <2>3
<1>9. CASE l # k
  <2>1. decoded = Found(Len(k), node, -1)
    BY <1>3, <1>4, <1>7, <1>9
  <2>2. decoded.checked = Len(k) /\ decoded.item = node /\ decoded.len = -1
    BY <2>1 DEF Found, Failed
  <2>3. k \notin DOMAIN trie
    <3>1. k \in DOMAIN trie => k \in KeysUnder(trie, prefix)
      BY DEF KeysUnder
    <3> QED
      BY <1>9, <3>1
  <2>4. NotAHash(node)
    BY <1>2, SecondByteTells DEF TwoItemNode
  <2>5. Len(k) \in 0..Len(k)
    BY <1>1
  <2> QED
    BY <2>2, <2>3, <2>4, <2>5 DEF DecodedRight
<1> QED
  BY <1>8, <1>9

LEMMA ExtensionDecoded ==
  ASSUME NEW trie \in Contents, NEW k \in Keys, NEW prefix \in KeyPrefixes(trie),
         IsPrefix(prefix, k), ~IsLeaf(trie, prefix), ~IsBranch(trie, prefix),
         NEW last \in BOOLEAN, Regular(NodeAt(trie)[prefix], k, Len(prefix)),
         NEW decoded \in DecodeNode(NodeAt(trie)[prefix], last, k, Len(prefix)),
         ~decoded.failed
  PROVE  DecodedRight(trie, k, last, decoded)
<1> DEFINE node == NodeAt(trie)[prefix]
           path == PathFrom(trie, prefix)
           n == Len(prefix)
           s == Shared(trie, prefix)
           hash == HashOf(NodeAt(trie)[s])
<1>1. k \in Seq(Nibble) /\ Len(k) \in Nat
  BY MptAssumption, LenProperties
<1>2. /\ prefix \in Seq(Nibble) /\ s \in Seq(Nibble) /\ s \in KeyPrefixes(trie)
      /\ IsPrefix(prefix, s)
  BY KeyPrefixesIs, SharedIs, SharedGoesOn
<1>3. Len(s) < Len(k)
  <2>1. ~IsLeaf(trie, s)
    BY SharedGoesOn DEF IsLeaf
  <2> QED
    BY <1>2, <2>1, NoKeyInside
<1>4. TwoItemNode(node, path, hash)
  BY ExtensionNodeRead
<1> HIDE DEF s, hash, node
<1>5. /\ path \in Seq(Nibble) /\ Len(path) = Len(s) - n
      /\ PathInKey(path, k, n) <=> IsPrefix(s, k)
      /\ n \in Nat /\ Len(s) \in Nat
  <2>1. path = SubSeq(s, n + 1, Len(s))
    BY DEF PathFrom, s
  <2>2. Len(s) <= Len(k) /\ n \in Nat /\ Len(s) \in Nat
    BY <1>1, <1>2, <1>3, LenProperties
  <2> HIDE DEF path
  <2> QED
    BY <1>1, <1>2, <2>1, <2>2, PathMatches
<1> HIDE DEF path
<1>6. /\ decoded \in DecodeNode(node, last, k, n) /\ Regular(node, k, n)
      /\ n + Len(path) <= Len(k)
  <2>1. n + (Len(s) - n) <= Len(k)
    BY <1>1, <1>3, <1>5
  <2> QED
    BY <1>5, <2>1 DEF node
<1> HIDE DEF n
<1>7. /\ ~PathInKey(path, k, n) => decoded = Found(Len(k), node, -1)
      /\ PathInKey(path, k, n) => decoded.checked = n + Len(path) /\ decoded.item = hash
  BY <1>1, <1>4, <1>5, <1>6, TwoItemsDecoded
<1>8. CASE IsPrefix(s, k)
  <2>1. decoded.checked = Len(s) /\ decoded.item = hash
    <3>1. n + (Len(s) - n) = Len(s)
      BY <1>5
    <3> QED
      BY <1>5, <1>7, <1>8, <3>1
  <2>2. SubSeq(k, 1, Len(s)) = s /\ Len(s) \in 0..Len(k)
    BY <1>1, <1>2, <1>8, PrefixIsFront
  <2>3. Len(s) # Len(k)
    BY <1>1, <1>3, <1>5
  <2>4. Leads(trie, k, Len(s), hash)
    BY <1>2, <2>2 DEF Leads, hash
  <2> QED
    BY <2>1, <2>2, <2>3, <2>4 DEF DecodedRight
<1>9. CASE ~IsPrefix(s, k)
  <2>1. decoded = Found(Len(k), node, -1)
    BY <1>5, <1>7, <1>9
  <2>2. decoded.checked = Len(k) /\ decoded.item = node /\ decoded.len = -1
    BY <2>1 DEF Found, Failed
  <2>3. k \notin DOMAIN trie
    <3>1. k \in DOMAIN trie => k \in KeysUnder(trie, prefix)
      BY DEF KeysUnder
    <3>2. k \in KeysUnder(trie, prefix) => IsPrefix(s, k)
      BY SharedIs DEF s
    <3> QED
      BY <1>9, <3>1, <3>2
  <2>4. NotAHash(node)
    BY <1>4, SecondByteTells DEF TwoItemNode
  <2>5. Len(k) \in 0..Len(k)
    BY <1>1
  <2> QED
    BY <2>2, <2>3, <2>4, <2>5 DEF DecodedRight
<1> QED
  BY <1>8, <1>9

LEMMA BranchDecoded ==
  ASSUME NEW trie \in Contents, NEW k \in Keys, NEW prefix \in KeyPrefixes(trie),
         IsPrefix(prefix, k), ~IsLeaf(trie, prefix), IsBranch(trie, prefix),
         NEW last \in BOOLEAN,
         NEW decoded \in DecodeNode(NodeAt(trie)[prefix], last, k, Len(prefix)),
         ~decoded.failed
  PROVE  DecodedRight(trie, k, last, decoded)
<1> DEFINE node == NodeAt(trie)[prefix]
           n == Len(prefix)
           nibble == k[n + 1]
           child == Append(prefix, nibble)
           items == ItemsOf(trie, prefix)
           item == items[nibble + 1]
           at == BranchValueAt(node, nibble)
<1>1. /\ k \in Seq(Nibble) /\ Len(k) \in Nat /\ prefix \in Seq(Nibble)
      /\ n \in Nat /\ n < Len(k) /\ \A i \in 1..n : prefix[i] = k[i]
  <2>1. k \in Seq(Nibble) /\ prefix \in Seq(Nibble)
    BY MptAssumption, KeyPrefixesIs
  <2> QED
    BY <2>1, NoKeyInside, IsPrefixIs, LenProperties
<1> HIDE DEF n
<1>2. nibble \in Nibble /\ nibble = k[n + 1] /\ KeyNibble(k, n) \subseteq {nibble, NoNibble}
  <2>1. n + 1 \in 1..Len(k)
    BY <1>1
  <2>2. k \in [1..Len(k) -> Nibble]
    BY <1>1, LenProperties
  <2>3. KeyNibble(k, n) \subseteq {nibble, NoNibble}
    BY <1>1 DEF KeyNibble
  <2> QED
    BY <2>1, <2>2, <2>3
<1> HIDE DEF nibble
<1>3. /\ child \in Seq(Nibble) /\ Len(child) = n + 1
      /\ \A i \in 1..(n + 1) : child[i] = k[i]
  <2>1. /\ child \in Seq(Nibble) /\ Len(child) = n + 1
        /\ \A i \in 1..n : child[i] = prefix[i]
        /\ child[n + 1] = nibble
    BY <1>1, <1>2, AppendProperties DEF n
  <2>2. \A i \in 1..(n + 1) : i \in 1..n \/ i = n + 1
    BY <1>1
  <2> HIDE DEF child
  <2> QED
    BY <1>1, <1>2, <2>1, <2>2
<1> HIDE DEF child
<1>4. IsPrefix(child, k) /\ SubSeq(k, 1, n + 1) = child /\ n + 1 \in 0..Len(k)
  <2>1. Len(child) <= Len(k)
    BY <1>1, <1>3
  <2>2. IsPrefix(child, k)
    BY <1>1, <1>3, <2>1, IsPrefixIs
  <2> QED
    BY <1>1, <1>3, <2>2, PrefixIsFront
<1>5. /\ node = RlpList(items) /\ BranchItems(items)
      /\ IF KeysUnder(trie, child) # {}
           THEN item = RlpHash(NodeAt(trie)[child]) /\ child \in KeyPrefixes(trie)
           ELSE item = EmptyItem
  BY <1>2, BranchNodeRead DEF child
<1> HIDE DEF node, items
<1>6. PICK start : BranchNode(node, items, start)
  BY <1>5, BranchRead
<1>7. /\ at # Nowhere
      /\ \A below \in Nodes :
           item = RlpHash(below) => /\ Bytes(node, at, HashLen) = HashOf(below)
                                    /\ Byte(node, at) # StringPrefix
      /\ item = EmptyItem => NotAHash(Bytes(node, at, HashLen))
  BY <1>2, <1>5, <1>6, ChildRead
<1>8. decoded \in IF last THEN DecodeLastBranch(node, k, n) ELSE DecodeBranch(node, k, n)
  <2>1. /\ FirstItemStart(node) # Nowhere /\ FirstItem(node).type # HintError
        /\ SecondItem(node).type # HintError /\ ~HasTwoItems(node)
    BY <1>6 DEF BranchNode, HasTwoItems
  <2>2. decoded \in DecodeNode(node, last, k, n)
    BY DEF node, n
  <2> QED
    BY <2>1, <2>2 DEF DecodeNode
<1> HIDE DEF at, item
<1>9. KeysUnder(trie, child) # {} =>
        /\ NodeAt(trie)[child] \in Nodes /\ child \in KeyPrefixes(trie)
        /\ item = RlpHash(NodeAt(trie)[child])
        /\ Bytes(node, at, HashLen) = HashOf(NodeAt(trie)[child])
        /\ Byte(node, at) # StringPrefix
  BY <1>5, <1>7, NodesOfTries
<1>10. CASE last
  <2>1. PICK m \in KeyNibble(k, n) : decoded = EmptyChild(node, m, k)
    <3>1. Len(k) # n
      BY <1>1
    <3> QED
      BY <1>8, <1>10, <3>1 DEF DecodeLastBranch
  <2>2. m = nibble
    <3>1. m # NoNibble
      BY <2>1 DEF EmptyChild, Failed
    <3> QED
      BY <1>2, <2>1, <3>1
  <2>3. Byte(node, at) = StringPrefix /\ decoded.len = -1
    <3>1. decoded = EmptyChild(node, nibble, k)
      BY <2>1, <2>2
    <3> QED
      BY <3>1 DEF EmptyChild, NotIncluded, Found, Failed, at
  <2>4. k \notin DOMAIN trie
    <3>1. KeysUnder(trie, child) = {}
      BY <1>9, <2>3
    <3> QED
      BY <1>4, <3>1 DEF KeysUnder
  <2> QED
    BY <1>10, <2>3, <2>4 DEF DecodedRight
<1>11. CASE ~last
  <2>1. decoded = Found(n + 1, Bytes(node, at, HashLen), HashLen)
    <3>1. decoded \in UNION {ChildHash(node, m, n) : m \in KeyNibble(k, n)}
      BY <1>8, <1>11 DEF DecodeBranch
    <3>2. PICK m : m \in KeyNibble(k, n) /\ decoded \in ChildHash(node, m, n)
      BY <3>1
    <3>3. decoded # Failed
      BY DEF Failed
    <3>4. m = nibble
      <4>1. m # NoNibble
        BY <3>2, <3>3 DEF ChildHash
      <4> QED
        BY <1>2, <3>2, <4>1
    <3>5. decoded \in ChildHash(node, nibble, n)
      BY <3>2, <3>4
    <3>6. decoded \in HashFound(node, at, n + 1)
      BY <3>3, <3>5 DEF ChildHash, at
    <3> QED
      BY <3>3, <3>6 DEF HashFound
  <2>2. decoded.checked = n + 1 /\ decoded.item = Bytes(node, at, HashLen)
    BY <2>1 DEF Found, Failed
  <2>3. CASE KeysUnder(trie, child) # {}
    <3>1. Leads(trie, k, n + 1, decoded.item)
      BY <1>4, <1>9, <2>2, <2>3 DEF Leads
    <3> QED
      BY <1>4, <1>11, <2>2, <3>1 DEF DecodedRight
  <2>4. CASE KeysUnder(trie, child) = {}
    <3>1. NotAHash(decoded.item)
      BY <1>5, <1>7, <2>2, <2>4 DEF item
    <3> QED
      BY <1>4, <1>11, <2>2, <3>1 DEF DecodedRight
  <2> QED
    BY <2>3, <2>4
<1> QED
  BY <1>10, <1>11

LEMMA NodeDecoded ==
  ASSUME NEW trie \in Contents, NEW k \in Keys, NEW n \in 0..Len(k),
         SubSeq(k, 1, n) \in KeyPrefixes(trie), NEW last \in BOOLEAN,
         HasTwoItems(NodeAt(trie)[SubSeq(k, 1, n)]) =>
           Unpadded(NodeAt(trie)[SubSeq(k, 1, n)]),
         Len(k) - n = 2 * HalfNibbles => IsBranch(trie, SubSeq(k, 1, n)),
         NEW decoded \in DecodeNode(NodeAt(trie)[SubSeq(k, 1, n)], last, k, n),
         ~decoded.failed
  PROVE  DecodedRight(trie, k, last, decoded)
<1> DEFINE prefix == SubSeq(k, 1, n)
           node == NodeAt(trie)[prefix]
<1>1. Len(prefix) = n /\ IsPrefix(prefix, k)
  <2>1. k \in Seq(Nibble)
    BY MptAssumption
  <2> QED
    BY <2>1, FrontIs
<1>2. prefix \in KeyPrefixes(trie)
  OBVIOUS
<1>3. /\ decoded \in DecodeNode(node, last, k, Len(prefix))
      /\ HasTwoItems(node) => Unpadded(node)
      /\ Len(k) - Len(prefix) = 2 * HalfNibbles => IsBranch(trie, prefix)
  BY <1>1
<1> HIDE DEF prefix
<1>4. ASSUME HasTwoItems(node), ~IsBranch(trie, prefix)
      PROVE  Regular(node, k, Len(prefix))
  BY <1>3, <1>4 DEF Regular
<1>5. CASE IsLeaf(trie, prefix)
  <2>1. PICK l : KeysUnder(trie, prefix) = {l}
    BY <1>2, <1>5, LeafHasOneKey
  <2>2. HasTwoItems(node) /\ ~IsBranch(trie, prefix)
    BY <1>2, <1>5, <2>1, LeafNodeRead DEF IsBranch, TwoItemNode, HasTwoItems
  <2> QED
    BY <1>1, <1>2, <1>3, <1>4, <2>1, <2>2, LeafDecoded
<1>6. CASE ~IsLeaf(trie, prefix) /\ IsBranch(trie, prefix)
  BY <1>1, <1>2, <1>3, <1>6, BranchDecoded
<1>7. CASE ~IsLeaf(trie, prefix) /\ ~IsBranch(trie, prefix)
  <2>1. HasTwoItems(node)
    BY <1>2, <1>7, ExtensionNodeRead DEF TwoItemNode, HasTwoItems
  <2> QED
    BY <1>1, <1>2, <1>3, <1>4, <1>7, <2>1, ExtensionDecoded
<1> QED
  BY <1>5, <1>6, <1>7

-----------------------------------------------------------------------------
(* No two nodes have one hash.                                             *)
LEMMA HashesDiffer ==
  ASSUME NEW node \in Nodes, NEW other \in Nodes, HashOf(node) = HashOf(other)
  PROVE  node = other
<1>1. 2 \in 2..HashLen
  BY ScaleFacts
<1>2. HashTail(node) = HashTail(other)
  <2>1. HashOf(node)[2] = HashTail(node)
    BY <1>1, HashCode
  <2>2. HashOf(other)[2] = HashTail(other)
    BY <1>1, HashCode
  <2> QED
    BY <2>1, <2>2
<1> DEFINE tail == [x \in Nodes |-> HashTail(x)]
<1>3. \A x, y \in DOMAIN tail : tail[x] = tail[y] => x = y
  BY HashAssumption, Zenon DEF IsInjective
<1>4. DOMAIN tail = Nodes /\ \A x \in Nodes : tail[x] = HashTail(x)
  OBVIOUS
<1> HIDE DEF tail, Nodes
<1> QED
  BY <1>2, <1>3, <1>4

(* What holds between the nodes of a proof, if it is covered: the hash to  *)
(* assert is the one of the node of the trie at the nibbles checked, or of *)
(* no node at all, or the value of the key; in the last two cases the next *)
(* node, whatever it is, is refused.                                       *)
HashExpected ==
  \/ NotAHash(hash_to_assert)
  \/ Leads(content, key, n_nibbles_already_checked, hash_to_assert)
  \/ Present /\ hash_to_assert = content[key]

MptInv ==
  /\ content \in Contents /\ key \in Keys /\ proof \in Proofs
  /\ node_index \in 0..(Len(proof) - 1)
  /\ Covered /\ result = Verifying =>
       n_nibbles_already_checked \in 0..Len(key) /\ HashExpected
  /\ ResultCorrect

LEMMA NodeOfProof ==
  ASSUME MptInv
  PROVE  Node \in Range(proof) /\ Node \in Nodes
<1>1. proof \in Proofs /\ proof \in Seq(Range(proof))
      /\ node_index \in 0..(Len(proof) - 1)
  BY MptAssumption DEF MptInv
<1>2. Len(proof) \in Nat /\ proof \in [1..Len(proof) -> Range(proof)]
  BY <1>1, LenProperties
<1>3. node_index + 1 \in 1..Len(proof)
  BY <1>1, <1>2
<1>4. Node \in Range(proof)
  BY <1>2, <1>3 DEF Node
<1> HIDE DEF Node
<1> QED
  BY <1>1, <1>4, Zenon DEF Nodes

LEMMA NodeExpected ==
  ASSUME MptInv, Covered, result = Verifying, NodeHashed
  PROVE  LET checked == SubSeq(key, 1, n_nibbles_already_checked)
         IN  checked \in KeyPrefixes(content) /\ Node = NodeAt(content)[checked]
<1> DEFINE checked == SubSeq(key, 1, n_nibbles_already_checked)
<1>1. Node \in Range(proof) /\ Node \in Nodes
  BY NodeOfProof
<1>2. HashOf(Node) = hash_to_assert
  BY DEF NodeHashed
<1> HIDE DEF Node
<1>3. ~NotAHash(hash_to_assert)
  BY <1>1, <1>2 DEF NotAHash
<1>4. ~(Present /\ hash_to_assert = content[key])
  <2>1. Present => \A node \in Range(proof) : content[key] # HashOf(node)
    BY DEF Covered
  <2> HIDE DEF Present
  <2> QED
    BY <1>1, <1>2, <2>1
<1>5. Leads(content, key, n_nibbles_already_checked, hash_to_assert)
  BY <1>3, <1>4 DEF MptInv, HashExpected
<1>6. checked \in KeyPrefixes(content) /\ hash_to_assert = HashOf(NodeAt(content)[checked])
  BY <1>5 DEF Leads
<1>7. NodeAt(content)[checked] \in Nodes
  <2>1. content \in Contents
    BY DEF MptInv
  <2> HIDE DEF checked
  <2> QED
    BY <1>6, <2>1, NodesOfTries
<1> DEFINE node == NodeAt(content)[checked]
<1>8. HashOf(Node) = HashOf(node) /\ node \in Nodes
  BY <1>2, <1>6, <1>7
<1> HIDE DEF node
<1>9. Node = node
  BY <1>1, <1>8, HashesDiffer
<1> QED
  BY <1>6, <1>9 DEF node

(* Only in the root a key of 64 nibbles has all of them left.              *)
LEMMA RestFits ==
  ASSUME NEW k \in Keys, NEW n \in 0..Len(k), Len(k) - n = 2 * HalfNibbles
  PROVE  Len(k) = 2 * HalfNibbles /\ SubSeq(k, 1, n) = <<>>
<1>1. k \in Seq(Nibble) /\ Len(k) <= 2 * HalfNibbles
  BY MptAssumption
<1>2. Len(k) \in Nat /\ HalfNibbles \in Nat
  BY <1>1, LenProperties, WidthAssumption DEF HalfNibbles
<1>3. n = 0 /\ Len(k) = 2 * HalfNibbles
  BY <1>1, <1>2
<1>4. SubSeq(k, 1, 0) \in Seq(Nibble) /\ Len(SubSeq(k, 1, 0)) = 0
  BY <1>1, <1>2, FrontIs
<1> QED
  BY <1>3, <1>4, EmptySeq

LEMMA AcceptedDecoded ==
  ASSUME MptInv, Covered, result = Verifying, NodeHashed,
         NEW decoded \in Decodings, NodeAccepted(decoded)
  PROVE  DecodedRight(content, key, LastNode, decoded)
<1> DEFINE n == n_nibbles_already_checked
           checked == SubSeq(key, 1, n)
           node == NodeAt(content)[checked]
<1>1. checked \in KeyPrefixes(content) /\ Node = node
  BY NodeExpected
<1>2. content \in Contents /\ key \in Keys /\ n \in 0..Len(key)
  BY DEF MptInv
<1>3. LastNode \in BOOLEAN /\ ~decoded.failed
  BY DEF LastNode, NodeAccepted
<1>4. decoded \in DecodeNode(Node, LastNode, key, n)
  BY DEF Decodings
<1>5. HasTwoItems(Node) => Unpadded(Node)
  <2>1. Node \in Range(proof)
    BY NodeOfProof
  <2> HIDE DEF Node
  <2> QED
    BY <2>1 DEF Covered, Unpadded
<1>6. Len(key) - n = 2 * HalfNibbles => IsBranch(content, checked)
  <2>1. Len(key) = 2 * HalfNibbles => IsBranch(content, <<>>)
    BY DEF Covered
  <2> HIDE DEF n
  <2> QED
    BY <1>2, <2>1, RestFits
<1> HIDE DEF LastNode, Node, n
<1>7. /\ HasTwoItems(node) => Unpadded(node)
      /\ decoded \in DecodeNode(node, LastNode, key, n)
  BY <1>1, <1>4, <1>5
<1> QED
  BY <1>1, <1>2, <1>3, <1>6, <1>7, NodeDecoded

LEMMA ResultsDiffer ==
  /\ Verifying # AssertionFailed
  /\ \A value, len : Returned(value, len) # Verifying
  /\ Verifying.status # "returned" /\ AssertionFailed.status # "returned"
<1>1. "verifying" # "failed" /\ "returned" # "verifying" /\ "failed" # "returned"
  OBVIOUS
<1>2. Verifying.status = "verifying" /\ AssertionFailed.status = "failed"
      /\ \A value, len : Returned(value, len).status = "returned"
  BY DEF Verifying, AssertionFailed, Returned
<1> QED
  BY <1>1, <1>2

LEMMA MptInvInit == Init => MptInv
<1> SUFFICES ASSUME Init
             PROVE  MptInv
  OBVIOUS
<1>1. /\ content \in Contents /\ key \in Keys /\ proof \in Proofs
      /\ node_index = 0 /\ n_nibbles_already_checked = 0
      /\ hash_to_assert = HashOf(Root(content)) /\ result = Verifying
  BY DEF Init
<1>2. 0 \in 0..(Len(proof) - 1)
  <2>1. proof # <<>> /\ proof \in Seq(Range(proof))
    BY <1>1, MptAssumption
  <2>2. Len(proof) \in Nat /\ Len(proof) # 0
    BY <2>1, LenProperties, EmptySeq
  <2> QED
    BY <2>2
<1>3. 0 \in 0..Len(key) /\ SubSeq(key, 1, 0) = <<>>
  <2>1. key \in Seq(Nibble) /\ Len(key) \in Nat
    BY <1>1, MptAssumption, LenProperties
  <2>2. SubSeq(key, 1, 0) \in Seq(Nibble) /\ Len(SubSeq(key, 1, 0)) = 0
    BY <2>1, FrontIs
  <2> QED
    BY <2>1, <2>2, EmptySeq
<1>4. <<>> \in KeyPrefixes(content)
  <2>1. PICK k : k \in DOMAIN content
    BY <1>1, MptAssumption
  <2>2. k \in Seq(Nibble) /\ <<>> \in Seq(Nibble) /\ Len(<<>>) = 0 /\ Len(k) \in Nat
    BY <1>1, <2>1, KeyTypes, LenProperties, EmptySeq
  <2>3. k \in KeysUnder(content, <<>>)
    <3> DEFINE empty == <<>>
    <3>1. empty \in Seq(Nibble) /\ Len(empty) <= Len(k)
          /\ \A i \in 1..Len(empty) : empty[i] = k[i]
      BY <2>2
    <3> HIDE DEF empty
    <3>2. k \in KeysUnder(content, empty)
      BY <1>1, <2>1, <3>1, KeysUnderIs
    <3> QED
      BY <3>2 DEF empty
  <2> QED
    BY <1>1, <2>2, <2>3, KeyPrefixesIs
<1>5. HashExpected
  <2>1. Leads(content, key, 0, hash_to_assert)
    BY <1>1, <1>3, <1>4 DEF Leads, Root
  <2> QED
    BY <1>1, <2>1 DEF HashExpected
<1>6. ResultCorrect
  BY <1>1, ResultsDiffer DEF ResultCorrect
<1> QED
  BY <1>1, <1>2, <1>3, <1>5, <1>6 DEF MptInv

(* What is covered does not change.                                        *)
LEMMA SameCovered ==
  UNCHANGED arguments =>
    /\ content' = content /\ key' = key /\ proof' = proof
    /\ (Covered' <=> Covered) /\ (Present' <=> Present)
<1> SUFFICES ASSUME UNCHANGED arguments
             PROVE  /\ content' = content /\ key' = key /\ proof' = proof
                    /\ (Covered' <=> Covered) /\ (Present' <=> Present)
  OBVIOUS
<1>1. content' = content /\ key' = key /\ proof' = proof
  BY DEF arguments
<1>2. Present' <=> Present
  BY <1>1 DEF Present
<1>3. Covered' <=> Covered
  BY <1>1, Zenon DEF Covered, Present
<1> QED
  BY <1>1, <1>2, <1>3

LEMMA MptInvDescend == MptInv /\ DescendNode => MptInv'
<1> SUFFICES ASSUME MptInv, DescendNode
             PROVE  MptInv'
  OBVIOUS
<1>1. PICK decoded \in Decodings :
        /\ NodeAccepted(decoded)
        /\ node_index' = node_index + 1
        /\ n_nibbles_already_checked' = decoded.checked
        /\ hash_to_assert' = decoded.item
  BY DEF DescendNode
<1>2. /\ result = Verifying /\ ~LastNode /\ NodeHashed
      /\ result' = result /\ UNCHANGED arguments
  BY DEF DescendNode
<1>3. /\ content' = content /\ key' = key /\ proof' = proof
      /\ (Covered' <=> Covered) /\ (Present' <=> Present)
  BY <1>2, SameCovered
<1>4. node_index' \in 0..(Len(proof) - 1)
  <2>1. proof \in Proofs /\ node_index \in 0..(Len(proof) - 1)
    BY DEF MptInv
  <2>2. Len(proof) \in Nat
    BY <2>1, MptAssumption, LenProperties
  <2> QED
    BY <1>1, <1>2, <2>1, <2>2 DEF LastNode
<1> DEFINE checked == decoded.checked
           item == decoded.item
<1>5. ASSUME Covered
      PROVE  /\ checked \in 0..Len(key)
             /\ \/ NotAHash(item)
                \/ Leads(content, key, checked, item)
                \/ Present /\ item = content[key]
  <2>1. DecodedRight(content, key, LastNode, decoded)
    BY <1>1, <1>2, <1>5, AcceptedDecoded
  <2> HIDE DEF LastNode
  <2> QED
    BY <1>2, <2>1 DEF DecodedRight, Present
<1>6. n_nibbles_already_checked' = checked /\ hash_to_assert' = item
  BY <1>1
<1> HIDE DEF checked, item
<1>7. ASSUME Covered
      PROVE  n_nibbles_already_checked' \in 0..Len(key') /\ HashExpected'
  <2> HIDE DEF Present, Covered
  <2>1. /\ content' = content /\ key' = key /\ (Present' <=> Present)
        /\ n_nibbles_already_checked' = checked /\ hash_to_assert' = item
    BY <1>3, <1>6
  <2>2. CASE NotAHash(item)
    BY <1>5, <1>7, <2>1, <2>2 DEF HashExpected, NotAHash
  <2>3. CASE Leads(content, key, checked, item)
    BY <1>5, <1>7, <2>1, <2>3 DEF HashExpected, Leads
  <2>4. CASE Present /\ item = content[key]
    BY <1>5, <1>7, <2>1, <2>4 DEF HashExpected
  <2> QED
    BY <1>5, <1>7, <2>2, <2>3, <2>4
<1>8. ResultCorrect'
  BY <1>2, ResultsDiffer DEF ResultCorrect
<1>9. content' \in Contents /\ key' \in Keys /\ proof' \in Proofs
  BY <1>3 DEF MptInv
<1> HIDE DEF Covered
<1>10. (Covered /\ result = Verifying =>
         n_nibbles_already_checked \in 0..Len(key) /\ HashExpected)'
  BY <1>3, <1>7
<1>11. (node_index \in 0..(Len(proof) - 1))'
  BY <1>3, <1>4
<1> QED
  BY <1>8, <1>9, <1>10, <1>11 DEF MptInv

LEMMA MptInvReturn == MptInv /\ ReturnItem => MptInv'
<1> SUFFICES ASSUME MptInv, ReturnItem
             PROVE  MptInv'
  OBVIOUS
<1>1. PICK decoded \in Decodings :
        NodeAccepted(decoded) /\ result' = Returned(decoded.item, decoded.len)
  BY DEF ReturnItem
<1>2. /\ result = Verifying /\ LastNode /\ NodeHashed
      /\ node_index' = node_index /\ UNCHANGED arguments
  BY DEF ReturnItem
<1>3. /\ content' = content /\ key' = key /\ proof' = proof
      /\ (Covered' <=> Covered) /\ (Present' <=> Present)
  BY <1>2, SameCovered
<1> DEFINE value == decoded.item
           value_len == decoded.len
<1>4. ASSUME Covered
      PROVE  /\ Present => value = content[key] /\ value_len = Len(content[key])
             /\ ~Present => value_len = -1
  <2>1. DecodedRight(content, key, LastNode, decoded)
    BY <1>1, <1>2, <1>4, AcceptedDecoded
  <2>2. decoded.checked = Len(key)
    BY <1>1, <1>2 DEF NodeAccepted
  <2> HIDE DEF LastNode
  <2> QED
    BY <1>2, <2>1, <2>2 DEF DecodedRight, Present
<1>5. result' = Returned(value, value_len)
  BY <1>1
<1> HIDE DEF value, value_len
<1>6. result' # Verifying
  BY <1>5, ResultsDiffer
<1>7. ResultCorrect'
  <2> HIDE DEF Covered, Present
  <2>1. result'.value_len = value_len
    BY <1>5 DEF Returned
  <2>2. Covered /\ Present => result' = Returned(content[key], Len(content[key]))
    BY <1>4, <1>5
  <2>3. Covered /\ ~Present => result'.value_len = -1
    BY <1>4, <2>1
  <2> QED
    BY <1>3, <2>2, <2>3 DEF ResultCorrect
<1>8. /\ content' \in Contents /\ key' \in Keys /\ proof' \in Proofs
      /\ (node_index \in 0..(Len(proof) - 1))'
  BY <1>2, <1>3 DEF MptInv
<1> QED
  BY <1>6, <1>7, <1>8 DEF MptInv

LEMMA MptInvFail == MptInv /\ FailAssertion => MptInv'
<1> SUFFICES ASSUME MptInv, FailAssertion
             PROVE  MptInv'
  OBVIOUS
<1>1. /\ result' = AssertionFailed
      /\ content' = content /\ key' = key /\ proof' = proof
      /\ node_index' = node_index
  BY DEF FailAssertion, arguments
<1>2. result' # Verifying /\ result'.status # "returned"
  BY <1>1, ResultsDiffer
<1>3. ResultCorrect'
  BY <1>2 DEF ResultCorrect
<1>4. /\ content' \in Contents /\ key' \in Keys /\ proof' \in Proofs
      /\ (node_index \in 0..(Len(proof) - 1))'
  BY <1>1 DEF MptInv
<1> QED
  BY <1>2, <1>3, <1>4 DEF MptInv

LEMMA MptInvStutter == MptInv /\ UNCHANGED vars => MptInv'
<1> SUFFICES ASSUME MptInv, UNCHANGED vars
             PROVE  MptInv'
  OBVIOUS
<1>1. /\ UNCHANGED arguments /\ node_index' = node_index
      /\ n_nibbles_already_checked' = n_nibbles_already_checked
      /\ hash_to_assert' = hash_to_assert /\ result' = result
  BY DEF vars, arguments
<1>2. /\ content' = content /\ key' = key /\ proof' = proof
      /\ (Covered' <=> Covered) /\ (Present' <=> Present)
  BY <1>1, SameCovered
<1> HIDE DEF Covered, Present
<1>3. HashExpected' <=> HashExpected
  BY <1>1, <1>2 DEF HashExpected, NotAHash, Leads
<1>4. ResultCorrect' <=> ResultCorrect
  BY <1>1, <1>2 DEF ResultCorrect
<1> QED
  BY <1>1, <1>2, <1>3, <1>4 DEF MptInv

LEMMA MptInvHolds == Spec => []MptInv
<1>1. Init => MptInv
  BY MptInvInit
<1>2. MptInv /\ [Next]_vars => MptInv'
  BY MptInvDescend, MptInvReturn, MptInvFail, MptInvStutter DEF Next
<1> QED
  BY <1>1, <1>2, PTL DEF Spec

(* Whatever nodes are given as a proof, and with the hints of the          *)
(* repository: verify_mpt_proof returns a value only if it is the one the  *)
(* trie of the root holds for the key, and the length -1 only if the trie  *)
(* does not hold the key; unless the proof has a path that is padded or    *)
(* the hash the key's value is, or a key of 64 nibbles a path in the root. *)
THEOREM ProofsAreSound == Spec => []ResultCorrect
<1>1. MptInv => ResultCorrect
  BY DEF MptInv
<1> QED
  BY <1>1, MptInvHolds, PTL

(* But for the same exceptions, and with the hints of the repository: a    *)
(* node whose hash is the one asserted is the node of the trie at the      *)
(* nibbles checked: offsets into the bytes and the count of nibbles agree. *)
THEOREM NodesOnKeyPath == Spec => []NodeOnKeyPath
<1>1. MptInv => NodeOnKeyPath
  <2> SUFFICES ASSUME MptInv, result = Verifying, NodeHashed, Covered
               PROVE  LET checked == SubSeq(key, 1, n_nibbles_already_checked)
                      IN  /\ KeysUnder(content, checked) # {}
                          /\ Node = NodeAt(content)[checked]
    BY DEF NodeOnKeyPath
  <2> DEFINE checked == SubSeq(key, 1, n_nibbles_already_checked)
  <2>1. checked \in KeyPrefixes(content) /\ Node = NodeAt(content)[checked]
    BY NodeExpected
  <2>2. KeysUnder(content, checked) # {}
    <3>1. content \in Contents
      BY DEF MptInv
    <3> HIDE DEF checked
    <3> QED
      BY <2>1, <3>1, KeyPrefixesIs
  <2> QED
    BY <2>1, <2>2
<1> QED
  BY <1>1, MptInvHolds, PTL
=============================================================================
