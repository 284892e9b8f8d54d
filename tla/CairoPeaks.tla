----------------------------- MODULE CairoPeaks -----------------------------
(***************************************************************************)
(* compute_peaks_positions: the positions of the peaks of an MMR from its  *)
(* size alone.  From each peak the program jumps to where the right        *)
(* sibling would be, then to left children until it is inside the MMR.     *)
(* The hints (a bit length, whether a position is inside) are free; the    *)
(* range checks decide which values let the run continue.                  *)
(* The height of a peak is a call of the function of MmrHeight.            *)
(***************************************************************************)
EXTENDS MmrPeaks, MmrHeight

VARIABLES
  mmr_len,            \* the argument, 0 before the call
  peaks,              \* the positions found, from left to right
  left_child,         \* the position being moved into the MMR
  left_child_height,  \* the argument height of that move
  pc                  \* "idle", "first", "inner", "height", "jump", "done"

peaksVars == <<mmr_len, peaks, left_child, left_child_height, pc>>

mmr_pos == peaks[Len(peaks)]

(* Mutant: the sibling is taken one position too far.                      *)
RightSiblingOff(from, h) == from + Pow2[h + 1]

RightSiblingOf(from, h) == from + Pow2[h + 1] - 1

(* Mutant: down by the size of the left child instead of the right one.    *)
LeftChildOff(from, h) == from - Pow2[h] + 1

LeftChildOf(from, h) == from - Pow2[h]

(* The condition the range checks pin the hint in_mmr to.                  *)
InMmr(position) == position <= mmr_len

-----------------------------------------------------------------------------
PeaksInit ==
  /\ mmr_len = 0
  /\ peaks = <<>>
  /\ left_child = 0
  /\ left_child_height = 0
  /\ pc = "idle"

(* compute_peaks_positions is called.                                      *)
CallPeaks(len) ==
  /\ pc = "idle"
  /\ mmr_len' = len
  /\ pc' = "first"
  /\ UNCHANGED <<peaks, left_child, left_child_height, heightVars>>

(* compute_first_peak_pos with the bit length the asserts accept.          *)
FirstPeak ==
  /\ pc = "first"
  /\ \E bit_length \in BitLengths :
       /\ mmr_len < Pow2[bit_length] /\ Pow2[bit_length - 1] <= mmr_len
       /\ peaks' = << IF mmr_len = Pow2[bit_length] - 1 THEN mmr_len
                      ELSE Pow2[bit_length - 1] - 1 >>
  /\ pc' = "inner"
  /\ UNCHANGED <<mmr_len, left_child, left_child_height, heightVars>>

(* compute_peaks_inner at the last node: every peak has been found.        *)
LastPeak ==
  /\ pc = "inner"
  /\ mmr_pos = mmr_len
  /\ pc' = "done"
  /\ UNCHANGED <<mmr_len, peaks, left_child, left_child_height, heightVars>>

(* compute_peaks_inner before it: ask for the height of the peak, ...      *)
AskPeakHeight ==
  /\ pc = "inner"
  /\ mmr_pos # mmr_len
  /\ CallHeight(mmr_pos)
  /\ pc' = "height"
  /\ UNCHANGED <<mmr_len, peaks, left_child, left_child_height>>

PeakHeight ==
  /\ pc = "height"
  /\ AllOnes \/ JumpLeft
  /\ UNCHANGED peaksVars

(* ... then go to its right sibling.                                       *)
RightSibling ==
  /\ pc = "height"
  /\ HeightReturned
  /\ height + 1 \in 0..TableBits
  /\ left_child' = RightSiblingOf(mmr_pos, height)
  /\ left_child_height' = height
  /\ pc' = "jump"
  /\ UNCHANGED <<mmr_len, peaks, heightVars>>

(* left_child_jump_until_inside_mmr with in_mmr = 1.                       *)
JumpInside ==
  /\ pc = "jump"
  /\ InMmr(left_child)
  /\ peaks' = Append(peaks, left_child)
  /\ pc' = "inner"
  /\ UNCHANGED <<mmr_len, left_child, left_child_height, heightVars>>

(* left_child_jump_until_inside_mmr with in_mmr = 0.                       *)
JumpLeftChild ==
  /\ pc = "jump"
  /\ ~InMmr(left_child)
  /\ left_child_height \in 0..TableBits
  /\ left_child' = LeftChildOf(left_child, left_child_height)
  /\ left_child_height' = left_child_height - 1
  /\ UNCHANGED <<mmr_len, peaks, pc, heightVars>>

PeaksNext ==
  \/ FirstPeak \/ LastPeak \/ AskPeakHeight \/ PeakHeight
  \/ RightSibling \/ JumpInside \/ JumpLeftChild

-----------------------------------------------------------------------------
(* What the Cairo program computes is what get_peaks of mmr.rs and of      *)
(* mmr.py compute, which number the nodes from 1 and from 0.               *)
PeaksAgree ==
  pc = "done" =>
    /\ peaks = RsGetPeaks(mmr_len)
    /\ LET py_peaks == PyGetPeaks(mmr_len)
       IN  peaks = [i \in DOMAIN py_peaks |-> py_peaks[i] + 1]

(* The peaks found so far are the roots of consecutive perfect trees, each *)
(* lower than the one before: no node is under two of them or under none.  *)
PeaksTile ==
  \A i \in 1..Len(peaks) :
    LET before == IF i = 1 THEN 0 ELSE peaks[i - 1]
    IN  /\ HasHeight(peaks[i], Height[peaks[i]])
        /\ peaks[i] = before + TreeSize(Height[peaks[i]])
        /\ i > 1 => Height[peaks[i]] < Height[before]

(* While it descends, the position is the one of a node of the height the  *)
(* program believes it has.                                                *)
DescentKeepsHeight ==
  pc = "jump" => HasHeight(left_child, left_child_height)
=============================================================================
