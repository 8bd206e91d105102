------------------------------ MODULE MCWorker ------------------------------
(***************************************************************************)
(* Instances of Worker for TLC: a few documents, as model values.          *)
(***************************************************************************)
EXTENDS Worker
=============================================================================
