------------------------------ MODULE MCRunner ------------------------------
EXTENDS Runner, TLC

(* Every choice of paths and of a run from a PIE or for a proof, with three *)
(* of the ways to give the other options.                                  *)
MCRequests ==
  {request \in Options :
     <<request.print_output, request.dynamic, request.params_file>> \in
       {<<FALSE, FALSE, FALSE>>, <<FALSE, TRUE, FALSE>>, <<TRUE, FALSE, TRUE>>}}

(* One path is as good as another.                                         *)
MCSymmetry == Permutations(Paths)
=============================================================================
