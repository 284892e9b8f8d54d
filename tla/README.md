# Verification of eth_essentials in TLA+

eth_essentials is a library of Cairo 0 functions about Ethereum data: Merkle
Mountain Ranges (MMR), Merkle Patricia trie (MPT) proofs, RLP and block
headers. Cairo functions run under a prover, so a wrong intermediate value is
either refused by a range check or an assertion, or ends up in a proof. Next
to the Cairo code there are a Python implementation (`tools/py`), which the
hints and the tests use, and a Rust one (`cairo_vm_hints`), which replaces the
Python hints when the programs run in the Rust Cairo VM.

This directory holds TLA+ modules translated from that code, TLC
configurations that check them on small instances, and proofs TLAPS checks for
every value of the constants.

## 1. Inventory

| component | source | state | operations |
|---|---|---|---|
| MMR functions of the Cairo library | `lib/mmr.cairo` | none between calls; recursion arguments, a dictionary of previous peaks, arrays of new nodes | `assert_mmr_size_is_valid`, `compute_height_pre_alloc_pow2`, `compute_peaks_positions`, `get_full_mmr_peak_values`, `bag_peaks`, `get_roots`, `hash_subtree_path`, `mmr_root_poseidon` |
| MMR of the Rust library | `cairo_vm_hints/src/mmr.rs` | vector of nodes, leaf count | `new`, `append`, `get_peaks`, `get_root`, `size` |
| MMR of the Python tools | `tools/py/mmr.py` | dictionary of nodes, last position | `add`, `get_root`, `gen_proof`, `MerkleProof.verify`, functions on positions |
| Incremental MMR construction | `tests/cairo_programs/construct_mmr_test.cairo` | roots published by the last run | a run checks the previous peaks, appends, publishes new roots |
| MPT proof verification | `lib/mpt.cairo` | node index, nibbles checked, hash expected next | `verify_mpt_proof`, `decode_node_list_lazy`, the jumps over items |
| RLP and key nibbles | `lib/rlp_little.cairo` | none | byte, nibble and word extraction, leading zeroes, `assert_subset_in_key_be` |
| Arithmetic utilities | `lib/utils.cairo` | none | `uint256_add`, `uint256_sub`, divisions, endianness, bit lengths, the table of powers of two |
| Block header fields | `lib/block_header.cairo` | none | parent hash, state root, block number |
| Hint dispatch | `hint_processor/mod.rs`, `hints/mod.rs`, `hints/lib/*/mod.rs` | none | lookup of a hint by its text in one table after another |
| Hint implementations | `cairo_vm_hints/src/hints/lib` | the VM's memory | one function per hint |
| Command-line runner | `cairo_vm_hints/src/main.rs` | files on disk | parse the options, run a program, write up to five files |
| Fetching tools, scripts | `tools/py`, `tools/make` | RPC, files | requests, conversions, compilation |

**How they interact.** A Cairo function calls `lib/utils.cairo` for bit
lengths and divisions; what it needs but does not compute (a bit length, a
carry, a quotient, whether a position is inside) comes from a *hint*, a piece
of Python or Rust that writes unverified values, which the function then
constrains. In the Rust VM the text of the hint is looked up in the tables of
`hint_processor`. The trie verifier and the header functions call the RLP
functions. A program that extends an MMR is given the size and the peaks of
the MMR the run before it left, and keeps the new nodes in its own arrays; the
program that prepares these inputs keeps the whole MMR with the Rust or the
Python library. The runner executes such a program and leaves its trace,
memory and the two inputs of the prover in files. The tests compare the
implementations with each other on random inputs.

**What is hard here.** Nothing runs concurrently, and the only thing that
outlives a process is the runner's files. The difficulty is elsewhere:

- position arithmetic: heights, siblings and peaks are found by jumps on
  numbers, in three forms (1-based Cairo and Rust, 0-based Python);
- two counters that must stay in step (the node vector and the leaf count of
  `mmr.rs`; nibble index and node index of `mpt.cairo`);
- stale data: proofs and peaks of an earlier MMR, proofs of an older trie;
- hints: whatever they write, a function must return the right value or fail,
  and with the hints the repository ships, in either language, it must not fail;
- boundaries: powers of two, the last entry of a table, items of a list with
  no, one or several bytes of length, carries of exactly 2^128, keys of 32
  nibbles, words that straddle, products that reach the prime;
- one step of several failing: a run that ends between two of its files.

**What makes each component correct.** The checkers and position functions
compute what the definition of an MMR says; the MMR implementations compute
one root, a function of the leaves that no other leaves share; a proof
verifies against the root of its time and no other; a run that extends an MMR
computes the root of the whole one; a trie proof is answered with the value the
trie holds for the key, or with its absence; sums, divisions, reversals,
nibbles, bytes and header fields are right for every hint; a hint is run by
one table, once; a runner that reports success has written what it was asked
to. The hazards behind these, with the line where each bites, are in
`PROJECT.json`.

## 2. The modules

| module | models |
|---|---|
| `MmrMath` | powers of two, bit lengths, population counts, sizes and heights, as recursive functions |
| `MmrSizeCheck` | `assert_mmr_size_is_valid`, one action per recursion step; the Python and Rust checkers as operators |
| `MmrHeight` | `compute_height_pre_alloc_pow2`, one action per recursion step |
| `CairoPeaks` | `compute_peaks_positions`, with its calls of `MmrHeight` and the descent to left children |
| `MmrPeaks` | `get_peaks` of `mmr.rs` and of `mmr.py` |
| `MmrPositions` | composes the three Cairo modules above: check a size, find its peaks, ask for the height of a node |
| `Accumulator` | the abstract specification: a log of leaves that only grows and a root defined from the leaves alone |
| `Mmr`, `PyMmr` | the Rust and the Python MMR; each implements `Accumulator` |
| `MmrLockstep` | composes a Rust and a Python MMR side by side |
| `MmrInclusion` | `gen_proof` and `verify`, with proofs kept while the MMR grows; `hash_subtree_path`, `mmr_root_poseidon` |
| `MmrSession` | Cairo runs, one after another, that extend a Poseidon and a Keccak MMR; two instances of `Mmr` outside |
| `Trie` | external: the nodes and proofs an Ethereum node returns, in RLP |
| `MptNode` | `decode_node_list_lazy`, what it calls, and the hints on item types |
| `Mpt` | `verify_mpt_proof`, one action per node |
| `HintedCall` | the frame the next modules share: one call, what its hints wrote, its outcome |
| `Uint256Sum` | `uint256_add`, `uint256_sub`, and their carry hint in Python and Rust |
| `Divmod` | `felt_divmod`, `felt_divmod_8`, `felt_divmod_2pow32` and their hints |
| `Endianness` | `word_reverse_endian_16_RC` to `_56_RC` with their `write` hints, `uint128_reverse_endian_no_padding`, `uint256_reverse_endian_no_padding` |
| `KeyNibbles` | `count_leading_zeroes_from_uint256_le_before_reversion`, `extract_nibble_from_key_be`, and their hints |
| `RlpExtract` | bytes and hashes cut out of an array of words |
| `BlockHeader` | extends `RlpExtract`: parent hash, state root and block number of a header |
| `HintProcessor` | the tables of hints in the order they are asked |
| `HintedCalls` | composes the seven modules above: one call of any of their functions |
| `Runner` | one run of the command-line runner |
| `MmrPeaksProofs`, `MmrPositionsProofs`, `MmrProofs`, `PyMmrProofs`, `MmrLockstepProofs`, `MmrSessionProofs`, `MptProofs`, `CairoVmHintsProofs` | proofs |

Conventions:

- **Hints.** In the MMR modules a hint that only proposes a value is
  an existential: the action takes any value the checks that follow accept,
  and a state without one has no step, which the liveness properties notice.
  In the modules on `HintedCall` a call names its provider: `python` and
  `rust` write what the shipped code writes, `any` writes any value; a failed
  check ends the call `Refused`. So there safety covers every prover, and
  liveness the two shipped ones. A trie proof is verified with one of the two
  shipped providers (`hints`): for some calls another prover may write what
  nothing checks (see *Exceptions* below), so nothing is claimed of
  `verify_mpt_proof` with other hints.
- **Hashes.** `Hash`, `Poseidon` and `Keccak` are constant operators. The runs
  give them pairs: different inputs have different hashes. In `Trie` a hash is
  `HashLen` bytes of which the first is `HashHead(node)`, a byte, and the
  others are `HashTail(node)`, which is no byte: no other bytes are a hash by
  chance. The value of a key may be the hash of a node, as it may be by intent.
- **Field elements.** The MMR and trie functions range-check their inputs far
  below the prime, so numbers are integers there. `Uint256Sum` keeps its
  width (`Shift`) and `Divmod` its prime, because overflow is their subject.
- **Scale.** In `HintedCall` a nibble has `NibbleBase` values, a half of a
  256-bit number `HalfBytes` bytes, a word `WordBytes`; the code has 16, 16
  and 8. `BlockHeader` has the real sizes, its offsets being literals.
- **Bytes by position.** `RlpExtract` and `BlockHeader` represent a byte by
  its place in the array or field, so that a byte taken twice or left out
  cannot go unnoticed.
- **Bounds on counters.** `MaxLeaves` in `Mmr` and `PyMmr`, `MaxPyLeaves` in
  `MmrLockstep`: the only bounds in guards. The theorems hold for every value.
- **Mutants.** An operator under a comment `Mutant:` is a plausible bug in the
  operator after it. No specification uses it; with it in place of that
  operator, the property named in `PROJECT.json` fails.

### Correspondence

*MmrSizeCheck.* `CheckRange` is the range checks and the test for zero,
`PeelPeak` one call of `is_valid_mmr_size_inner` with a remainder, `Finish` the
call without one. `n` and `prev_peak` are the arguments of the call.

*MmrHeight, CairoPeaks.* `pos` is the argument of the outermost call, `x` the
one of the current call; `peaks` is the array written so far; `pc` names the
function being executed (`compute_first_peak_pos`, `compute_peaks_inner`,
`left_child_jump_until_inside_mmr`) or the recursive call it waits for. The
height of a peak is computed by the steps of `MmrHeight`.

*MmrPositions.* A program checks a size, computes peaks, then walks a path:
`CheckSize`, `PeaksOfSize` and `WalkPeaks`, `NodeHeight` and `NodeHeightStep`.
The node is any node of the MMR.

*Mmr.* `nodes` is `hashes`, `AppendElement` is `append` with the `get_peaks`
it calls; its guard `RsPeaksCover` is the assertion of `get_peaks`. `take(n)`
on an iterator that is shorter than `n` takes what there is: so does the model.

*MmrInclusion.* `held` is what the holder of a proof keeps. `Prove` replaces
it at any moment, `Grow` extends the MMR under it.

*MmrSession.* `StartRun` chooses the size and peaks of the MMR at *any*
earlier moment and continues only if their roots are the last published ones,
which is what the assertions of the program do. `AppendLeaf` is the merge loop
of the program that uses the library (external) with every lookup through
`get_full_mmr_peak_values`, whose hint is `IsPositionInMmrArray`; `EndRun` is
`get_roots`.

*Mpt.* `Proofs` is what may be given as a proof, any sequences of nodes; in
the run it is every proof, of every key, from every trie, whole, without its
first node, without its last one, and with a further leaf behind it. `DescendNode`
accepts a node that is not the last and moves the three cursors, `ReturnItem`
accepts the last, `FailAssertion` is any failed assertion. `MptNode` works on
bytes: byte `b` of a node stands for word `b / 8`, offset `b % 8` of the code.
A node is decoded to one of a *set* of outcomes, because the calls it makes do
not always answer what they are asked, as `KeyNibbles`, `Endianness` and
`RlpExtract` show; with the shipped hints that is:

- `extract_nibble_from_key_be` stops, or gives the right nibble by luck, at the
  indices finding 5 is about (`KeyNibble`, `IndexServed`);
- `assert_subset_in_key_be` says anything of a path that comes back padded from
  its reversal, finding 3 (`SubsetTests`, `KeepsLength`), and of one in the
  root of a key of 64 nibbles, where `uint256_pow2(256)` is 0 and the key is
  divided by it; it stops for no byte and for a path longer than what is left
  of the key, and with the Rust hint of finding 4 for some paths that begin
  with a zero nibble or end with a zero byte (`RustStops`);
- `extract_le_hash_from_le_64_chunks_array` stops, or goes on with the right
  hash, when the hash ends with the last word of the node (`HashReadable`).

`Bytes` is `extract_n_bytes_from_le_64_chunks_array`, which with the shipped
hints answers all bytes asked for (`BytesExtracted`). Whether a node of two
items is a leaf or an extension nothing asks: a value of 32 bytes is followed.

*HintedCall and its modules.* `call` is the function with its arguments and
provider, `at` the point reached, `ids` the values hints have written by name,
`outcome` the end. A step from a point to the next is what the code does
between two hints.

*HintProcessor.* `AskTable` is one `run_hint`; a table that does not know the
text answers `UnknownHint`, any other result ends the lookup.

*Runner.* `pc` is the step of `run()`. The trace and the memory are created,
encoded into a buffer and flushed, three steps that fail in different ways;
the other files are created and written in one call. `Fail` is the question
mark operator, `Kill` ends the process between any two steps. `directory`
tells a file of an earlier run, and which two paths it names if it is a
private input, from one this run has begun or finished;
`run_result` is what `main` reports.

## 3. The runs

Every passing configuration turns deadlock checking off: the programs are
sequential and end, and a growing MMR stops at its bound. That they do not
stop *early* is what `EveryCallReturns`, `PresentKeyAnswered`,
`CallsAnswered` and `PeaksSuffice` are about.

| run | shows | bounds |
|---|---|---|
| `positions` | the Cairo checker accepts exactly the sizes `2n - popcount(n)` up to its bound and agrees with the others (Python accepts 0 besides); from an accepted size the peaks found are those of both other implementations and tile the MMR; heights are right on every level of the recursion; no table entry is missing; every call returns | sizes 0..140 around a bound of 2^7, every node of each |
| `mmr` | the Rust MMR implements the accumulator; its two counters never part; every node is the root of the perfect tree below it; Rust and Python roots are equal exactly when the leaves are, also for a leaf that is the hash of two leaves | 8 leaves in Rust, 5 in Python, of 2 values, one the hash of the other |
| `inclusion` | a proof verifies against the root of its time and against no later one; the Cairo path hashing reaches the same peak; the Python MMR implements the accumulator | 7 leaves of 2 values |
| `session` | a run computes the roots of the whole MMRs, looks up only peaks it was given, and builds on the last run | 7 leaves of 2 values, any split into runs |
| `mpt` | with either of the shipped hints: a value returned is the trie's for that key whatever proof is given; a proof's node is at the nibbles checked; the proof of a present key is answered; all three with the exceptions named below | see below |
| `hints` | whatever hints write, sums, divisions, reversals, counts, nibbles, bytes and header fields are right or refused; with the shipped hints every legal call is answered; each hint is run by one table | see below |
| `runner` | success means every file is there and whole; a refused command line or failed program touches none; this run's private input only exists with the whole files it names, an earlier one loses them only to a run that is given one of their paths; the rules on options suffice | 3 paths, every choice of paths, PIE and proof mode, with three ways of the other options |
| `absent_key` | finding 1 | as `mpt` |
| `rust_carry_hint` | finding 2 | halves below 4: all pairs |
| `reverse_no_padding` | finding 3 | as `hints` |
| `rust_leading_zeroes` | finding 4 | as `hints` |
| `nibble_offset` | finding 5 | as `hints` |

Why the bounds are enough. The MMR code treats leaf counts by their binary
digits: sizes up to 2^7 have every pattern of merges and of peaks of up to
seven levels, the sizes on both sides of each perfect tree, and the last entry
of the table. For the modules that hash, 8 leaves have merges of 0 to 3
levels, a single peak and three peaks.

In `mpt` a branch has 4 children, a hash 2 bytes, and lengths take extra bytes
above 7, with a second one from 12 on (in the code: 16, 32, 55, 256), which
leaves no arithmetic out: the first three children use precomputed offsets and
the fourth jumps; leaves have odd and even paths and values of one byte
below and above 0x80, of a short string, and of a long string with one and
with two bytes of length; branches and leaves need one and two bytes of list
length; extensions of one and more nibbles occur. Keys have 12 nibbles, all a
Uint256 of two halves of 3 bytes holds (in the code: 64 and 16), and words have
2 bytes. So there are keys with a high half of 0 and with another, nibbles of
the low half that are and are not served, paths with zero nibbles in front,
zero bytes behind, padded ones and ones the Rust hint stops at, hashes
that end with a node's words and a key of full length with a path in the root.
Five tries: most keys, a newer version of two parts of it, one with the padded
path, a single leaf, and one whose values are the hash of a leaf given behind
a proof. Three keys are in no trie. Every case an exception names occurs, and
without the exception each leads to a wrong answer or a stop.

In `hints` a half has 4 bytes of 2 nibbles of 1 bit, and ten halves stand for
zero bytes and zero nibbles at either end, in the middle and nowhere, so that
all lengths of both halves of a key occur. The prime is 67 and range checks
accept what is below 10: a product of two range-checked values can pass the
prime, as in the field. Arrays have up to 21 bytes in words of 4: every start offset, every number
of bytes, a shorter last word, and hashes of 16 bytes over five words. Headers
have difficulties and numbers (`Numbers`) of 0 to 7 bytes, those of one byte
on both sides of the value from which they get a prefix.

In `runner` three paths let files collide, and each may be empty or hold a
file of an earlier run, one of which may be a private input that names the
other two.

**Fairness.** `PositionsSpec`, `Mpt` and `HintedSpec` have weak fairness of
their next-state relation: each is one sequential program, which the VM
executes until it ends. The other specifications the runs check have none:
nothing obliges anybody to append, prove or run, and a runner may be killed.

**Symmetry.** `inclusion` permutes the two leaf values and `runner` the
paths: no definition compares them with anything but each other, and their
properties are invariants and a safety refinement.

**Exceptions the properties name.** Some values a hint writes are not checked
by the code, so safety for *any* hint stops there and holds for the shipped
ones: whether the last word needs the next one (`BytesExtracted`: with a
hint that denies it the word is cut short, with one that claims it without
need the table of powers is read before its start and more than the bytes
asked for may come back; the words before it are right in any case), which half
of a key a nibble is in when both are used (`NibbleExtracted`), whether a
number in a header is its own prefix (`HeaderFieldsExtracted`).
`ReversedWithoutPadding`, `IndexServed` and `LegalCall` leave out the cases
of findings 3, 5 and 4, and `LegalCall` the hash that ends with the last word
of an array (`rlp_little.cairo:497`).

In `Mpt`, `Covered` names what all properties except: a proof with a path that
is padded, with which the code may answer -1 for a key the trie holds; a
key of 64 nibbles and a trie with a path in its root, as a trie of one leaf
has; and a value that is the hash of a node of the proof, which is followed
when that node comes behind the leaf. `MayStop` names where a good proof may be
refused: a nibble that is not served, a path the Rust hint stops at, a hash
that ends with the words of its node. A key of Ethereum's tries has 64
nibbles, of which all but a few in front are usually not 0: then the indices
32 to 63 are those that are not served, and a branch deep enough to ask for one
does not occur in practice.

`ReferenceCheckersAgree` the size 0, which the Python
checker accepts and Cairo refuses. `ResultCorrect` needs hashes whose first
byte is not 0x80 (`HashAssumption`; the run takes `HashHead = 1`): the
comparison of finding 1 looks at that byte when the child is used. No key of a
trie ends at a branch: all keys have one length (`MptAssumption`), as the
hashed keys of Ethereum's state and storage have. For a key that does, the code returns
the branch's last item with its prefix. `HeaderFieldsExtracted` is about
difficulties and numbers of at most seven bytes (`NumbersAssumption`): a
difficulty of eight leaves nothing of the word the number is cut from.

## 4. Findings

1. **`lib/mpt.cairo:536`, `absent_key`.** For a key that is not in the trie
   and whose proof ends at a branch, a comment (line 512) says that the item
   at the next nibble "should be empty". The offset compared is where that item's *value* starts, one byte
   after its prefix, so the byte looked at belongs to the next item. The proof
   of an absent key is refused when the child after the empty one is used.
2. **`carry.rs:32`, `rust_carry_hint`.** The Rust carry hint leaves the low
   carry out of the high one. When the high halves sum to 2^128 - 1 and the
   low ones carry, the range check fails where the Python hint passes. Every
   difference of numbers with equal high halves and `a.low >= b.low` is such a case.
3. **`lib/utils.cairo:147`, `reverse_no_padding`.** The reversal "without
   adding right-padding" (line 131) cuts the padding off only when the byte
   count changes. A number with as many zero bytes at its end as it is short
   of 16 bytes keeps its count, and its padding.
4. **`leading_zeros.rs:31`, `rust_leading_zeroes`.** The Rust hint reverses
   hexadecimal digits where the Python one, quoted above it, reverses bytes.
   When exactly one nibble of the first used byte is 0 it expects another
   count, and the comparison in `assert.rs` stops the run.
5. **`lib/rlp_little.cairo:453`, `nibble_offset`.** In the branch for the high
   half of a key of more than 32 nibbles, where the comment on line 448 puts all
   indices from 0 to 31, the offset into the table of powers is
   `key_nibbles - 32 - nibble_index - 1`: negative from the index
   `key_nibbles - 32` on. TLC's trace has a key of one nibble more than the low
   half holds and the index 1: the shipped hint says that the nibble is not in
   the low half, and the comparison with the expected nibble fails. (The branch
   for the low half has the same flaw on line 433, for indices from 32 to 63;
   the trace does not reach it.)

## 5. What is proved

TLAPS checks these for every value of the constants, under the assumptions
named in the modules. `Hash` is any operator, except in four places that need
what the programs rely on. In `MmrSessionProofs` and in `StaleProofsAreRefused`
a root binds the size it was made with, and in `EqualRootsEqualLeaves` equal
hashes have equal arguments: each is a hypothesis of its theorem. In
`MptProofs` no two of the nodes in play have one hash, an assumption of `Mpt`.

- **`MmrPositionsProofs`** (`MaxBits < TableBits`, both natural, `Sizes` a
  set of naturals):
  - `CheckerIsCorrect` (the checker accepts exactly the sizes of MMRs up to the
    bound), `CheckerNeverStuck`, `TypeCorrect`. The verdict alone is not
    inductive: the invariant says of the remainder that what has been peeled is
    the MMR of a number of leaves that is a multiple of the last tree's
    (`PeeledIsMmr`, so that accepting is sound) and that, if the input is a
    size, so is what is left, with lower trees only (`RestIsMmr`, so that
    refusing a repeated tree is right). A step splits the rest into its
    largest tree and a smaller rest, which needs
    `popcount(2^k + r) = 1 + popcount(r)` for `r < 2^k`.
  - `ReferencesAgree`: the Rust checker accepts exactly the sizes of MMRs and
    the Python one these and 0, by induction on the height the loops have come
    down to.
  - `HeightIsCorrect`: every jump stays among the positions of one height
    (`LevelKept`), because a position in front of which a perfect tree is
    taken away has the height it had.
  - `PeaksAreTrees`, `DescentIsLevel`. The invariant is `TilingInv`: the
    leaves under the peaks found so far are a multiple of `2^height` of the
    tree looked at, the rest lies behind, and the sizes of both add up to the
    size. It holds at the start because of `CheckerIsCorrect`'s invariant:
    only a size the checker lets through gets here, which is why the two are
    composed.
  - `PeaksAreThoseOfBoth`: the peaks found are those of `get_peaks` of the
    other two libraries. The invariant says that the peaks found so far are
    the first ones of `get_peaks` of `mmr.rs` and the tree looked at is no
    lower than the next (`AgreeInv`); that `get_peaks` of `mmr.py` finds the
    same positions is a lemma (`PyPeaksOfLeaves`).
- **`MmrProofs`** (`MaxLeaves` natural), four theorems:
  - `NodeCountCorrect` (an MMR of n leaves has `2n - popcount(n)` nodes) and
    `AppendNeverPanics` (the assertion of `get_peaks` holds and there are as
    many peaks as `append` merges). The invariant ties the length of the
    vector to the leaf count; the step uses
    `popcount(n + 1) + trailing_ones(n) = popcount(n) + 1`, and that the loop
    of `get_peaks` on the size of n leaves finds one peak per one-bit of n
    and covers every node, a lemma by induction on the height.
  - `NodesAreTrees`: every node is the root of the perfect tree over the
    leaves below it. The induction is over the nodes one append adds: the
    i-th of them closes a tree of height i over the last `2^i` leaves, whose
    left half is the peak the loop takes from the end of the list
    (`MergedPeak`) and whose right half is the node added before it.
  - `ImplementsLog`: the MMR refines `Accumulator`. An append extends the log
    by its leaf; `get_root` bags the peaks from the right, and the peaks are
    the trees over the blocks of leaves the accumulator cuts the log into
    (`PeaksOfBlocks`), so both compute one value.
- **`PyMmrProofs`** (`MaxLeaves` natural), `PyImplementsLog`: the Python MMR
  refines `Accumulator` too. Its dictionary, read as a vector, is a Rust MMR
  of as many leaves as there are positions of height 0: the invariant is that
  the size is the one of a number of leaves. Then the loop of `add`, which
  looks at the height of the next position, merges as often as the leaf count
  has trailing ones (`MergesIs`), takes as left children the peaks from the
  right (`MergePositions`), and so does the step of `append` (`AddIsAppend`).
  The same module has what `MmrInclusion` states, for every leaf of every MMR:
  - `SubtreePathsReachPeaks`: on the siblings of its Python proof a leaf climbs,
    in Cairo, to its peak. The tree of height h that leaf k is in starts at the
    multiple of `2^h` at or below k (`Ancestor`); its root is at `WayPos`. The height
    of that position and of the next one tell whether it is a right child
    (`Family`), and until the tree is one the accumulator cuts the log into
    its sibling is inside as well (`WayUp`, `WayEnds`): so the loop of
    `gen_proof` stops at the peak (`ClimbReaches`), and Cairo's, which asks
    for exactly one level more, takes the same turns.
  - `HeldProofsVerify`: `verify` computes the value stored at each position
    of the way, then, at the peak, one bag after the other until it has the
    bag of all peaks (`ProofVerifies`). It finds the peaks from the size in
    the proof, so a proof depends on no later state, and a leaf stays where
    it was (`AddKeepsNodes`).
  - `StaleProofsAreRefused`: the root of today begins with another size.
  - `CairoRootsAgree`: the recursion of `bag_peaks_poseidon` from the left
    and the loop of `bag_peaks` from the right build one value (`SameBag`).
- **`MmrLockstepProofs`** (`MaxLeaves` and `MaxPyLeaves` natural, `HashBinding`),
  `EqualRootsEqualLeaves`: the roots of a Rust and a Python MMR, of any two
  sizes, are equal exactly when their leaves are. Both are `RootOf` their
  leaves by the two refinements. `RootOf` binds the size, the size binds the
  number of leaves (`SizeStrict`), and then the bag is opened block by block
  (`HashOverBinds`) and each block down to its leaves (`TreeBinds`); that a leaf may
  equal the hash of two others does no harm, because the number of leaves
  says how deep to go.
- **`MmrSessionProofs`** (`MaxLeaves` natural; elements are pairs of a
  Poseidon and a Keccak value; different first arguments of `Poseidon` give
  different hashes), on both MMRs and the run at once: `StalePeaksRefused` (a run
  builds on the last run's MMR and no earlier one), `OnlyPeaksAreNeeded` (no
  lookup of an old node other than a peak), `RunComputesRoots` (the published
  roots are those of the whole MMRs). The invariant says that what the run
  knows, the peaks it was given and the nodes it added, agrees with the whole
  MMR wherever the program may look: a merge looks at a peak of the MMR so
  far, and such a peak is either new or a peak of the MMR the run started
  from (`OldPeak`). The roots the program compares include the size, and two
  moments of an MMR differ in size: so stale peaks do not pass.
- **`MptProofs`** (`MptAssumption`: keys of one length that fit a Uint256,
  paths and lengths that fit the encoding; `HashAssumption`: see above), for
  every set of tries, any nodes as a proof and either of the shipped hints,
  with the exceptions `Covered` names:
  - `ProofsAreSound`: a value returned is the trie's for the key, and the
    length -1 is returned only if the trie does not hold it.
  - `NodesOnKeyPath`: a node whose hash is the expected one is the trie's node
    at the nibbles checked.

  The invariant says of the hash expected next that it is the hash of the
  trie's node at the nibbles checked, or the hash of no node at all, or the
  value of the key (`HashExpected`); without the second part it is not
  inductive, because the code takes any 32 bytes at the offset it has reached,
  which at an empty child are those of no hash, and without the third because
  it takes a leaf for an extension. Of all outcomes of a node only those
  matter in which no assertion fails: there a path that is not padded has been
  compared as it is (`PathTested`), and a nibble is the one of the key.
  `NodeAt` is a recursion from a node to its children; that
  its equation holds is shown by induction over the number of nibbles left
  (`NodeAtUnfold`). A step then reads the bytes of a leaf, an extension or a
  branch back: lengths of no, one or two bytes (`LengthRead`), paths of odd and
  even length in their hex prefix (`PathRead`), the two items of a list
  (`TwoItemsRead`) and the item of a branch the jumps arrive at
  (`BranchItemRead`, `JumpArrives`); `NodeDecoded` puts these together.
  An extension that is left with nibbles of another key is refused, and a leaf
  with another path is no answer (`PathMatches`).
- **`CairoVmHintsProofs`** on the composition of the hinted functions, by one
  invariant: what a call has returned passed the checks of its hints; and on
  the runner.
  - `SumIsCorrect` for every carries, and `PyHintIsAccepted` (`Shift`
    positive).
  - `DivmodIsCorrect`, whatever the hints write
    (`2 RcBound <= Prime <= RcBound^2`, and divisors of at most `Prime / RcBound`, as the
    function's comment asks). Two range-checked values whose product with
    the divisor stays below the prime cannot satisfy the equation modulo the
    prime unless they do in the integers.
  - `OneTableRunsAHint`: the tables asked are a prefix of the processor's,
    none but the last knows the hint, and no two tables share one.
  - `BytesAreThoseAsked` (`WordBytes` positive, `MaxArrayBytes` natural): what
    is extracted from an array of words is what was asked for, but for a last
    word that a hint which is no shipped one decides about. Between two
    turns of `cut_loop` the result holds full words of consecutive bytes and
    `current_word` is the rest of the word of the array the next one begins in
    (`WordsCut`), up to the number of words asked for only: the hint that ends
    the loop may run it further, and such a call is refused at the end. The
    bytes asked for lie within the array, so a word that is cut is long enough
    for its part (`LenReaches`), and full words followed by one last word make
    the bytes in order (`FlattenWords`, `LastWordServes`).
  - `WordsAreReversed` (`WordAssumption`: a felt holds the longest of these
    words). Each value that passes the range check of `255 - b` is a byte
    (`CheckedByte`), so the sums the function compares modulo the prime are
    below it, and equal; and the digits of the number some digits make are
    those digits (`DigitsOfValue`), so both sums determine the bytes.
  - `ZeroesAreCounted`: bytes that are verified to be zero are the lowest
    bytes of the half that is scanned, and the byte behind them is not zero
    (`NibblesVerified`). Counted with a cut nibble set to 0, the zeroes in
    front of the reversed path end in that byte (`ZeroesBeforeByte`), or
    there is none (`ZeroesOfAll`); the cut nibble is one of them
    (`ZeroesBeforeCut`).
  - `NibblesAreThoseOfKey`: the index passed its range check; with a high half
    of 0 the checks leave only the low half, and the entry of the table of
    powers is the one of the index (`NibbleOfLow`).
  - `NumbersAreReversed`: the zero bytes a hint counts are those at the end of
    the top half, so its reversal is shorter by them (`TurnedLength`), and
    the padding that is cut is what the reversal of a whole half puts in front
    of the bytes of the number (`HalfTurned`, `PaddingCut`). The exception the
    property makes, a top half that keeps its length, is finding 3.
    With two halves, the reversed low half goes behind the reversed
    high one, split where the low half of the result is full
    (`WholeTurned`).
  - `HeaderFieldsAreThose` (`NumbersAssumption`). The literal words and cuts of
    the code are sums of the lengths of the items in front of a field
    (`HeaderOffsets`, `HashesAre`). The first byte of an encoded number tells
    its length, a hint on it is range-checked unless it denies a byte below 128
    (`BigintSizeIs`), and with the length of the difficulty the word that is
    masked and joined to the next begins at the number (`FoundItemIs`), whose
    bytes the two divisions single out (`BlockNumberIs`). The invariant carries
    the length found from the first hint to the second (`HeaderInv`).
  - `OkMeansComplete`, `FailureKeepsFiles`, `PrivateInputIsLast`,
    `OptionsSuffice` on the runner (`Requests` are options, `NoPath` is no
    path). Its invariant says that the files of the steps passed are
    whole unless a later one shares the path, that a writer is open only at its
    own step, and that nothing of this run is on disk before the first file;
    a private input exists only from its own step on. A private input from
  before the run (`EarlierPrivate`) is never removed before the files it names
  are written over: after a kill it is found beside a trace or memory of this
  run. The property says so, and that it happens only at paths this run
  was given, and not where a run that reports success was to put its own.

  The reversals, the zeroes and the nibbles rest on lemmas about powers and
  digits in any base (`PowerSum`, `DivisionIs`, `DigitSumsBelow`,
  `DigitsOfSum`, `SumsAppend`). The modules write powers as the recursive
  function `Power` and the number some digits make as `DigitSums`, because `^`
  and the folds of the community modules have no theory in the provers.
- **`MmrPeaksProofs`**: lemmas. It derives, for functions on the naturals
  whose definition at n looks at smaller arguments, that the definition's
  equation holds, from well-founded induction over a set instead of an
  operator; what the functions of `MmrMath` compute; and what both versions
  of `get_peaks` find: which positions are peaks, which nodes an append merges,
  which leaves lie below a node.

## 6. Only model-checked

- Liveness (`EveryCallReturns`, `PresentKeyAnswered`, `CallsAnswered`): TLAPS
  has no fairness reasoning here.
- What the findings' runs show: a counterexample needs no proof.

Every safety property and refinement a passing run checks is a theorem.

## 7. Not modelled

- The tools that fetch headers and proofs and the fact tools: requests and
  conversions without state. Scripts.
- Hints of the test programs, except two that are the reference side of a
  comparison (`MmrSizeCheck`, `MmrLockstep`): the others print or draw inputs.
- That the texts of hints in the library and in the Rust constants are equal
  character by character. The hint that reads a header from the program input
  (`block_header.cairo:36`) has no Rust form and is not in `LibraryHints`.
- `assert_subset_in_key_be` word by word: `PathInKey` is the comparison on
  nibbles, and `SubsetTests` says where the code makes another or none.
- `verify_mpt_proof` with hints that are not the shipped ones, and what lies in
  memory behind a node: bytes read there are missing, which makes a hash no
  node has.
- `bitwise_divmod` and `word_reverse_endian_64`, which only unfold bitwise
  builtins, are operators; the tables of 128 and 251 powers and the dictionary
  helper are left out.
- The last, shorter word of a reversed header; the header class of the Python
  tools, a schema for a library.
- Embedded trie nodes (shorter than a hash): the code expects 32 bytes there.
- What the virtual machine does in a run: one step of `Runner` that succeeds
  or fails.

## 8. Plan

Done: every component above but the tools and scripts, and a proof of every
safety property. Left: `SubsetTests` as the arithmetic on the halves of a path
and of the key, on top of `Endianness` and `KeyNibbles`, so that its cases are
derived and not stated; then the calls of `MptNode` as instances of
`RlpExtract` and `KeyNibbles`, which would give what holds of a trie proof
under any hints.
