---------------------------- MODULE MCLuaReference ----------------------------
(* One Lua instance with a coroutine, and two instances, for LuaReference. *)
EXTENDS LuaReference, TLC

CONSTANTS
  t1, t2,            \* the instances
  main1, co1, main2, \* their lua_States: co1 is a coroutine of t1
  o1, o2             \* objects: o1 is one of t1's

OneTreeOf == main1 :> t1 @@ co1 :> t1
OneHome == o1 :> t1 @@ o2 :> t1
TwoTreeOf == OneTreeOf @@ main2 :> t2
TwoHome == o1 :> t1 @@ o2 :> t2

\* States that differ in the operation called last alone are one.
View == <<slot, freelist, at, id>>
=============================================================================
