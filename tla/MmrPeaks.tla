------------------------------ MODULE MmrPeaks ------------------------------
(***************************************************************************)
(* Where the peaks of an MMR are, as the Rust and the Python libraries     *)
(* compute it: get_peaks of mmr.rs walks down the subtree sizes, get_peaks *)
(* of mmr.py jumps to right siblings and left children.                    *)
(***************************************************************************)
EXTENDS MmrMath, Sequences

-----------------------------------------------------------------------------
(* One turn of the loop of get_peaks in mmr.rs, at height h (in levels):   *)
(* node_count nodes are not under a peak yet, offset nodes are; below is   *)
(* what the loop does from the next height on.                             *)
PeaksLevel(h, below) ==
  LET subtree_size == Pow2[h] - 1
  IN  [node_count \in Nat |-> [offset \in Nat |->
         IF subtree_size <= node_count
           THEN <<offset + subtree_size>>
                  \o below[node_count - subtree_size][offset + subtree_size]
           ELSE below[node_count][offset]]]

(* The whole loop, from height h down to 1.                                *)
RsPeaksFrom[h \in Nat] ==
  IF h = 0 THEN [node_count \in Nat |-> [offset \in Nat |-> <<>>]]
  ELSE PeaksLevel(h, RsPeaksFrom[h - 1])

(* Mmr::get_peaks: 1-based positions, from left to right.                  *)
RsGetPeaks(size) ==
  IF size = 0 THEN <<>> ELSE RsPeaksFrom[BitLength(size)][size][0]

(* The assertion at its end: the peaks found cover every node.             *)
RsPeaksCover(size) ==
  LET peaks == RsGetPeaks(size)
  IN  size = 0 \/ (peaks # <<>> /\ peaks[Len(peaks)] = size)

-----------------------------------------------------------------------------
(* tree_pos_height of mmr.py, on 0-based positions.                        *)
TreePosHeight(pos) == Height[pos + 1]

SiblingOffset(height) == 2 * Pow2[height] - 1

(* left_peak_height_pos: the last height whose leftmost node is inside.    *)
LeftPos(height) == Pow2[height + 1] - 2

LeftPeakHeight(mmr_size) ==
  CHOOSE h \in 0..mmr_size : LeftPos(h) < mmr_size /\ LeftPos(h + 1) >= mmr_size

(* get_right_peak: to the right sibling, then to left children until       *)
(* inside the MMR, NoPeak when the height goes below zero.                 *)
NoPeak == <<-1, -1>>

PyDescend(mmr_size) ==
  LET Down[height \in Nat] ==
        [pos \in Int |->
           IF pos <= mmr_size - 1 THEN <<height, pos>>
           ELSE IF height = 0 THEN NoPeak
           ELSE Down[height - 1][pos - Pow2[height]]]
  IN  Down

GetRightPeak(mmr_size, height, pos) ==
  PyDescend(mmr_size)[height][pos + SiblingOffset(height)]

(* The loop of get_peaks behind the peak at pos, for as many turns as      *)
(* there may be peaks: it ends at height 0 or without a right peak.        *)
PyPeaksFrom(mmr_size) ==
  LET Right[turns \in Nat] ==
        [height \in Nat |-> [pos \in Int |->
           IF turns = 0 \/ height = 0 THEN <<>>
           ELSE LET next == GetRightPeak(mmr_size, height, pos)
                IN  IF next = NoPeak THEN <<>>
                    ELSE <<next[2]>> \o Right[turns - 1][next[1]][next[2]]]]
  IN  Right

(* get_peaks of mmr.py on a size that is not 0: 0-based positions.         *)
PyGetPeaks(mmr_size) ==
  LET height == LeftPeakHeight(mmr_size)
      pos    == LeftPos(height)
  IN  <<pos>> \o PyPeaksFrom(mmr_size)[mmr_size][height][pos]
=============================================================================
