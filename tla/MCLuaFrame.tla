------------------------------ MODULE MCLuaFrame ------------------------------
(* LuaFrame on two lua_States, which no operation tells apart. *)
EXTENDS LuaFrame

Symmetry == Permutations(States)

\* States that differ in the last call and its result alone are one.
Now == <<stk, tab, meta, reg, st>>
=============================================================================
