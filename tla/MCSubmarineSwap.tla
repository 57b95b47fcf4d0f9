-------------------------- MODULE MCSubmarineSwap --------------------------
(***************************************************************************)
(* SubmarineSwap on small instances: swaps, refund requests and NoSwap are *)
(* model values.  The safety properties do not tell swaps or requests      *)
(* apart, so those runs use symmetry; the runs of liveness do not.         *)
(***************************************************************************)
EXTENDS SubmarineSwap, TLC

Symmetry == Permutations(Swaps) \cup Permutations(Requests)

=============================================================================
