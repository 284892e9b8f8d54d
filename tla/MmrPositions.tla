---------------------------- MODULE MmrPositions ----------------------------
(***************************************************************************)
(* The functions on positions of lib/mmr.cairo as a program uses them: the *)
(* size of an MMR is checked, the positions of its peaks are computed from *)
(* it, and then the height of one of its nodes, as hash_subtree_path does  *)
(* on the way up.                                                          *)
(***************************************************************************)
EXTENDS MmrSizeCheck, CairoPeaks

ASSUME TableAssumption == MaxBits < TableBits

checkVars == vars
positionVars == <<checkVars, heightVars, peaksVars>>

-----------------------------------------------------------------------------
PositionsInit == Init /\ HeightInit /\ PeaksInit

CheckSize == Next /\ UNCHANGED <<heightVars, peaksVars>>

(* mmr_len "must be a validated MMR size".                                 *)
PeaksOfSize == verdict = "valid" /\ CallPeaks(size) /\ UNCHANGED checkVars

WalkPeaks == PeaksNext /\ UNCHANGED checkVars

NodeHeight ==
  /\ pc = "done"
  /\ \E position \in 1..mmr_len : CallHeight(position)
  /\ pc' = "node"
  /\ UNCHANGED <<checkVars, mmr_len, peaks, left_child, left_child_height>>

NodeHeightStep ==
  /\ pc = "node"
  /\ AllOnes \/ JumpLeft
  /\ UNCHANGED <<checkVars, peaksVars>>

PositionsNext ==
  CheckSize \/ PeaksOfSize \/ WalkPeaks \/ NodeHeight \/ NodeHeightStep

PositionsSpec ==
  PositionsInit /\ [][PositionsNext]_positionVars
    /\ WF_positionVars(PositionsNext)

-----------------------------------------------------------------------------
(* No read of the table of powers of two is out of its bounds and no range *)
(* check fails: a size is refused, or its peaks and the height of a node   *)
(* are found.                                                              *)
EveryCallReturns ==
  <>(verdict = "invalid" \/ (pc = "node" /\ HeightReturned))
=============================================================================
