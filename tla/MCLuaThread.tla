------------------------------ MODULE MCLuaThread ------------------------------
(* LuaThread on two coroutines, which no operation tells apart. *)
EXTENDS LuaThread, TLC

Symmetry == Permutations(Coroutines)
=============================================================================
