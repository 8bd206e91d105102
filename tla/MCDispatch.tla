----------------------------- MODULE MCDispatch -----------------------------
(***************************************************************************)
(* Instances of Dispatch for TLC: a few documents, as model values, that   *)
(* may be permuted in runs without liveness.                               *)
(***************************************************************************)
EXTENDS Dispatch, TLC

Symmetry == Permutations(Docs)
=============================================================================
