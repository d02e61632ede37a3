---------------------------- MODULE MCLuaLifetime ----------------------------
(* LuaLifetime on small sets.  No property tells two instances, two coroutines *)
(* or two variables apart.                                                     *)
EXTENDS LuaLifetime, TLC

Symmetry == Permutations(Instances) \cup Permutations(Threads) \cup Permutations(Objects)
=============================================================================
