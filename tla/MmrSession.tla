----------------------------- MODULE MmrSession -----------------------------
(***************************************************************************)
(* One Cairo run after another extends a Poseidon and a Keccak MMR.  A run *)
(* does not hold the nodes of the MMRs it extends: it is given their size  *)
(* (mmr_offset) and the values of their peaks, which it checks against the *)
(* roots of the run before, and it keeps the nodes it adds in arrays.  The *)
(* values of the nodes it merges come from one or the other, depending on  *)
(* the position.                                                           *)
(*                                                                         *)
(* Outside, the program that prepares the input keeps both whole MMRs with *)
(* the Rust library.                                                       *)
(***************************************************************************)
EXTENDS MmrPeaks

CONSTANTS
  Element,          \* what is appended: [poseidon, keccak] values
  Poseidon(_, _),
  Keccak(_, _),
  NoRoot,
  DefaultValue,     \* what a dictionary returns for a key never written
  MaxLeaves         \* bound on the number of leaves, for model checking

ASSUME MaxLeavesAssumption == MaxLeaves \in Nat

ASSUME ElementAssumption ==
  \A e \in Element : e = [poseidon |-> e.poseidon, keccak |-> e.keccak]

VARIABLES
  nodes_poseidon, nodes_keccak, leaf_count,  \* the MMRs outside
  mmr_last_roots,        \* the roots of the last run that ended
  running,               \* whether a run is under way
  mmr_offset,            \* the size of the MMRs the run extends
  previous_peaks_dict,   \* position -> values of their peaks
  mmr_array              \* the nodes the run added

outside == <<nodes_poseidon, nodes_keccak, leaf_count>>
vars == <<outside, mmr_last_roots, running, mmr_offset,
          previous_peaks_dict, mmr_array>>

OutPoseidon == INSTANCE Mmr
  WITH nodes <- nodes_poseidon, Hash <- Poseidon,
       Element <- {e.poseidon : e \in Element}
OutKeccak == INSTANCE Mmr
  WITH nodes <- nodes_keccak, Hash <- Keccak,
       Element <- {e.keccak : e \in Element}

-----------------------------------------------------------------------------
(* Both hash functions on pairs of values.                                 *)
HashBoth(x, y) ==
  [poseidon |-> Poseidon(x.poseidon, y.poseidon),
   keccak   |-> Keccak(x.keccak, y.keccak)]

(* The hint on the branch; the range checks let no other value through.    *)
IsPositionInMmrArray(position) == position > mmr_offset

(* get_full_mmr_peak_values: the array above mmr_offset, the dictionary at *)
(* or below it.  A position that is neither is read as the default value.  *)
GetFullMmrPeakValues(position) ==
  IF IsPositionInMmrArray(position) THEN mmr_array[position - mmr_offset]
  ELSE IF position \in DOMAIN previous_peaks_dict
    THEN previous_peaks_dict[position]
    ELSE [poseidon |-> DefaultValue, keccak |-> DefaultValue]

(* Mutant: the bag of the rest comes first.                                *)
BagPeaksSwapped(peaks) ==
  LET bag[i \in 1..Len(peaks)] ==
        IF i = Len(peaks) THEN peaks[i] ELSE HashBoth(bag[i + 1], peaks[i])
  IN  bag[1]

(* bag_peaks recurses from the left: H(p1, bag of the rest).               *)
BagPeaks(peaks) ==
  LET bag[i \in 1..Len(peaks)] ==
        IF i = Len(peaks) THEN peaks[i] ELSE HashBoth(peaks[i], bag[i + 1])
  IN  bag[1]

Roots(mmr_size, peaks) ==
  LET bagged == BagPeaks(peaks)
  IN  [poseidon |-> Poseidon(mmr_size, bagged.poseidon),
       keccak   |-> Keccak(mmr_size, bagged.keccak)]

(* get_roots: compute_peaks_positions gives what get_peaks of mmr.rs does. *)
MmrSize == mmr_offset + Len(mmr_array)

GetPeaksFromPositions(positions) ==
  [i \in DOMAIN positions |-> GetFullMmrPeakValues(positions[i])]

GetRoots == Roots(MmrSize, GetPeaksFromPositions(RsGetPeaks(MmrSize)))

-----------------------------------------------------------------------------
(* The main program, outside the library: construct_mmr stores a leaf and  *)
(* merges while the next position is higher.                               *)
Merges(pos) ==
  CHOOSE m \in 0..pos :
    /\ Height[pos + m + 1] <= m
    /\ \A i \in 0..(m - 1) : Height[pos + i + 1] > i

(* Mutant: as on positions from 0.                                         *)
LeftPositionOff(next_pos, height) == next_pos - Pow2[height + 1] - 1

LeftPosition(next_pos, height) == next_pos - Pow2[height + 1]

RightPosition(next_pos, height) ==
  LeftPosition(next_pos, height) + Pow2[height + 1] - 1

AddedNodes(element) ==
  LET pos == MmrSize + 1
      node[i \in 0..Merges(pos)] ==
        LET At(p) == IF p >= pos THEN node[p - pos] ELSE GetFullMmrPeakValues(p)
        IN  IF i = 0 THEN element
            ELSE HashBoth(At(LeftPosition(pos + i, i - 1)),
                          At(RightPosition(pos + i, i - 1)))
  IN  [i \in 1..(Merges(pos) + 1) |-> node[i - 1]]

(* The positions append and get_roots look up that the run did not add.    *)
MergeReads ==
  LET pos == MmrSize + 1
  IN  {p \in {LeftPosition(pos + i, i - 1) : i \in 1..Merges(pos)}
               \cup {RightPosition(pos + i, i - 1) : i \in 1..Merges(pos)} :
         p <= mmr_offset}

PeakReads ==
  LET positions == RsGetPeaks(MmrSize)
  IN  {p \in {positions[i] : i \in DOMAIN positions} : p <= mmr_offset}

-----------------------------------------------------------------------------
(* The peaks the MMRs had at their first `count` leaves.                   *)
PeaksAt(count) ==
  LET positions == RsGetPeaks(SizeOfLeaves(count))
  IN  [i \in DOMAIN positions |->
         [poseidon |-> nodes_poseidon[positions[i]],
          keccak   |-> nodes_keccak[positions[i]]]]

(* Mutant: the roots of the previous peaks are not compared.               *)
RootsUnchecked(offset, values) == TRUE

(* The assertions on the roots of the previous peaks.                      *)
RootsMatch(offset, values) == Roots(offset, values) = mmr_last_roots

(* The very first leaf; there is no run on an empty MMR.                   *)
Init ==
  /\ \E element \in Element :
       /\ nodes_poseidon = <<element.poseidon>>
       /\ nodes_keccak = <<element.keccak>>
       /\ mmr_last_roots = Roots(1, <<element>>)
  /\ leaf_count = 1
  /\ running = FALSE
  /\ mmr_offset = 0
  /\ previous_peaks_dict = [p \in {} |-> DefaultValue]
  /\ mmr_array = <<>>

(* The start of a run, on the size and the peaks a hint writes: those of   *)
(* the MMRs now or at any earlier time.  It continues when their roots are *)
(* the ones the last run ended with.                                       *)
StartRun ==
  /\ ~running
  /\ \E count \in 1..leaf_count :
       LET offset    == SizeOfLeaves(count)
           positions == RsGetPeaks(offset)
           values    == PeaksAt(count)
       IN  /\ RootsMatch(offset, values)
           /\ mmr_offset' = offset
           /\ previous_peaks_dict' =
                [p \in {positions[i] : i \in DOMAIN positions} |->
                   values[CHOOSE i \in DOMAIN positions : positions[i] = p]]
  /\ mmr_array' = <<>>
  /\ running' = TRUE
  /\ UNCHANGED <<outside, mmr_last_roots>>

(* A leaf goes into the arrays of the run and into the MMRs outside.       *)
AppendLeaf(element) ==
  /\ running
  /\ mmr_array' = mmr_array \o AddedNodes(element)
  /\ OutPoseidon!AppendElement(element.poseidon)
  /\ OutKeccak!AppendElement(element.keccak)
  /\ UNCHANGED <<mmr_last_roots, running, mmr_offset, previous_peaks_dict>>

(* The end of a run that added something: its roots are published.         *)
EndRun ==
  /\ running
  /\ Len(mmr_array) >= 1
  /\ mmr_last_roots' = GetRoots
  /\ running' = FALSE
  /\ mmr_array' = <<>>
  /\ mmr_offset' = 0
  /\ previous_peaks_dict' = [p \in {} |-> DefaultValue]
  /\ UNCHANGED outside

Next == StartRun \/ (\E element \in Element : AppendLeaf(element)) \/ EndRun

Spec == Init /\ [][Next]_vars

-----------------------------------------------------------------------------
(* The roots the run computes from previous peaks and new nodes are those  *)
(* of the whole MMRs.                                                      *)
RootsOfWholeMmr ==
  running => GetRoots = [poseidon |-> OutPoseidon!GetRoot,
                         keccak   |-> OutKeccak!GetRoot]

(* Neither a merge nor get_roots ever looks up a position of the previous  *)
(* MMR that is not one of its peaks, where the dictionary would silently   *)
(* return its default value.                                               *)
OnlyPeaksAreLookedUp ==
  running => MergeReads \cup PeakReads \subseteq DOMAIN previous_peaks_dict

(* The run builds on the MMRs the last run left: stale peaks are refused,  *)
(* and what it adds starts where they end.                                 *)
RunExtendsLastRun ==
  running => MmrSize = Len(nodes_poseidon) /\ MmrSize = Len(nodes_keccak)
=============================================================================
