------------------------------ MODULE MCDevPki ------------------------------
(***************************************************************************)
(* Instances of DevPki for TLC: a few callers, as model values.            *)
(***************************************************************************)
EXTENDS DevPki
=============================================================================
