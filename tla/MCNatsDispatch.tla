--------------------------- MODULE MCNatsDispatch ---------------------------
(***************************************************************************)
(* Instances of NatsDispatch for TLC.                                      *)
(***************************************************************************)
EXTENDS NatsDispatch
=============================================================================
