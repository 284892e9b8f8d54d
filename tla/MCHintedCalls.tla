--------------------------- MODULE MCHintedCalls ---------------------------
EXTENDS HintedCalls

(* Halves of four bytes of two nibbles of one bit: zero bytes and zero     *)
(* nibbles at either end, in the middle and nowhere.                       *)
MCHalves == {0, 1, 4, 12, 20, 36, 64, 132, 192, 255}

(* 0, numbers of one byte on both sides of 128, and one of each length.    *)
MCNumbers == {<<>>, <<1>>, <<127>>, <<128>>} \cup {[i \in 1..n |-> i] : n \in 2..7}
=============================================================================
