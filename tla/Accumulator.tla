---------------------------- MODULE Accumulator ----------------------------
(***************************************************************************)
(* What every Merkle Mountain Range of the repository promises: a log of   *)
(* leaves that only grows at its end, and a root that is a function of the *)
(* log.  The root is defined from the leaves alone, by cutting the log     *)
(* into the largest perfect trees from the left, without node positions,   *)
(* peaks or stored nodes.                                                  *)
(***************************************************************************)
EXTENDS MmrMath, Sequences

CONSTANTS
  Element,     \* what can be appended
  Hash(_, _),  \* the hash of two values
  NoRoot       \* the root of the empty log

VARIABLES
  leaves,  \* the log
  root     \* its root

vars == <<leaves, root>>

-----------------------------------------------------------------------------
(* The root of the perfect tree over 2^h leaves of a log, after the first  *)
(* from ones.                                                              *)
TreeOver(log) ==
  LET Tree[h \in Nat] ==
        [from \in Nat |->
           IF h = 0 THEN log[from + 1]
           ELSE Hash(Tree[h - 1][from], Tree[h - 1][from + Pow2[h - 1]])]
  IN  Tree

(* The hash over the last leaves of a log: the largest perfect tree, then  *)
(* what follows it.                                                        *)
HashOver(log) ==
  LET Over[left \in 1..Len(log)] ==
        LET h    == BitLength(left) - 1
            tree == TreeOver(log)[h][Len(log) - left]
        IN  IF left = Pow2[h] THEN tree ELSE Hash(tree, Over[left - Pow2[h]])
  IN  Over

(* The root of a log: the hash over it, with the number of nodes of its    *)
(* MMR.                                                                    *)
RootOf(log) ==
  IF log = <<>> THEN NoRoot
  ELSE Hash(SizeOfLeaves(Len(log)), HashOver(log)[Len(log)])

-----------------------------------------------------------------------------
Init == leaves = <<>> /\ root = RootOf(leaves)

AppendLeaf(element) ==
  /\ leaves' = Append(leaves, element)
  /\ root' = RootOf(leaves')

Next == \E element \in Element : AppendLeaf(element)

Spec == Init /\ [][Next]_vars
=============================================================================
