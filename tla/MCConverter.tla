---------------------------- MODULE MCConverter ----------------------------
(***************************************************************************)
(* Instances of Converter for TLC: a few helpers, as model values.         *)
(***************************************************************************)
EXTENDS Converter
=============================================================================
