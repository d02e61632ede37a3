---------------------------- MODULE MCModuleLoading ----------------------------
(* ModuleLoading for TLC: it matters to no action which name is which. *)
EXTENDS ModuleLoading, TLC

Symmetry == Permutations(Names)
=============================================================================
