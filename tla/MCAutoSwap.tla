----------------------------- MODULE MCAutoSwap -----------------------------
(***************************************************************************)
(* AutoSwap on small instances: rows and reverse swaps are model values,   *)
(* amounts a few sats.  No symmetry: the run that could use it also checks *)
(* liveness.                                                               *)
(***************************************************************************)
EXTENDS AutoSwap

=============================================================================
