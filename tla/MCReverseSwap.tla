--------------------------- MODULE MCReverseSwap ---------------------------
(***************************************************************************)
(* ReverseSwap on small instances: swaps and NoSwap are model values.  The *)
(* safety properties do not tell swaps apart, so the run that checks them  *)
(* of two instant swaps uses symmetry; the runs of liveness do not.        *)
(***************************************************************************)
EXTENDS ReverseSwap, TLC

Symmetry == Permutations(Swaps)

=============================================================================
