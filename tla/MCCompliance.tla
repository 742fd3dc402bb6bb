---------------------------- MODULE MCCompliance ----------------------------
(***************************************************************************)
(* Compliance with fewer places than modules, so that the list fills up.   *)
(***************************************************************************)
EXTENDS Compliance, TLC

ModuleSymmetry == Permutations(Modules)
=============================================================================
