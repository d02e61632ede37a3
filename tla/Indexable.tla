------------------------------- MODULE Indexable -------------------------------
(***************************************************************************)
(* arasy::core::internal::LuaIndexable, the table operations of LuaTable   *)
(* and LuaFullUserData, and the pushes they are made of.  An argument or a *)
(* handle is [val, at]: its value, and the lua_State its reference is      *)
(* bound to; at plays no part for a value that is no reference.  In every  *)
(* operator h is the handle operated on and L == h.at its luaInstance.     *)
(***************************************************************************)
EXTENDS LuaApi

CONSTANT Foreign   \* lua_States of other instances

ASSUME ForeignAssumption == States \cap Foreign = {}

Arguments == [val : Values, at : States \cup Foreign]
TableHandles == [val : Tables, at : States]

\* A call ends here: with what it returns, or with what kept it from returning.  The
\* caller catches a C++ exception and goes on.
ReturnAll(m, rs) ==
  [m EXCEPT !.ret = IF m.st = "ok" THEN rs ELSE <<m.st>>,
            !.st = IF @ = "thrown" THEN "ok" ELSE @]

Return(m, r) == ReturnAll(m, <<r>>)

\* LuaReference::pushOnto: the test is made with L, the push with luaInstance.
pushReference(m, x, L) ==
  IF m.st = "ok" /\ x.at \in Foreign THEN Fail(m, "thrown") ELSE lua_push(m, x.at, x.val)

\* LuaValue::pushOnto(L), by the type of what it holds.  A LuaThread is moved over
\* from its own stack whatever instance that belongs to.
pushOnto(m, x, L) ==
  IF x.val \in Tables THEN pushReference(m, x, L) ELSE lua_push(m, L, x.val)

pushSelf(m, h) == pushReference(m, h, h.at)

isNil(x) == x.val = Nil

\* The classes a value is asked for as, one for each way a LuaStackReader<T> ends: it reads
\* anything, gives nullopt for what is no T, or throws, a LuaString built from nullptr.
Classes == {"LuaValue", "LuaTable", "LuaString"}

readThrows(T, v) == T = "LuaString" /\ v \notin Texts
readAt(T, v) == IF T = "LuaTable" /\ v \notin Tables THEN "nullopt" ELSE v

\* Lua::popStack: checkIndexExists(-1) holds in an empty frame too.  What is read
\* becomes a value bound to L.
Popped(m, L) == [val |-> IF Reaches(m, L, 1) THEN Top(m, L, 1) ELSE Nil, at |-> L]

set(m, h, key, value) ==
  IF isNil(key) THEN Return(m, "NIL_KEY")
  ELSE LET m1 == pushSelf(m, h)
           m2 == pushOnto(m1, key, h.at)
           m3 == pushOnto(m2, value, h.at)
       IN  Return(lua_pop(lua_settable(m3, h.at, 3), h.at, 1), "none")

setStackKV(m, h) ==
  LET value == Popped(m, h.at)
      m1 == lua_pop(m, h.at, 1)
      key == Popped(m1, h.at)
  IN  set(lua_pop(m1, h.at, 1), h, key, value)

\* Variant: the value is popped once more, as if lua_setfield had left it.
setFieldPopsTwo(m, h, fieldName, value) ==
  LET m1 == pushOnto(pushSelf(m, h), value, h.at)
  IN  Return(lua_pop(lua_setfield(m1, h.at, 2, fieldName), h.at, 2), "none")

setField(m, h, fieldName, value) ==
  LET m1 == pushOnto(pushSelf(m, h), value, h.at)
  IN  Return(lua_pop(lua_setfield(m1, h.at, 2, fieldName), h.at, 1), "none")

\* retrieve leaves the value on the stack of h; get reads and pops it.
retrieved(m, h, key) ==
  lua_remove2(lua_gettable(pushOnto(pushSelf(m, h), key, h.at), h.at, 2), h.at)

retrieve(m, h, key) ==
  IF isNil(key) THEN Return(m, "NIL_KEY") ELSE Return(retrieved(m, h, key), "none")

retrieveStackK(m, h) ==
  LET key == Popped(m, h.at) IN retrieve(lua_pop(m, h.at, 1), h, key)

retrieveField(m, h, fieldName) ==
  Return(lua_remove2(lua_getfield(pushSelf(m, h), h.at, 1, fieldName), h.at), "none")

\* An exception of the reader comes before the pop.
ReadAndPop(m, L, T) ==
  LET v == Popped(m, L).val
  IN  IF m.st = "ok" /\ readThrows(T, v) THEN Return(Fail(m, "thrown"), "none")
      ELSE Return(lua_pop(m, L, 1), readAt(T, v))

get(m, h, T, key) ==
  IF isNil(key) THEN Return(m, "nullopt") ELSE ReadAndPop(retrieved(m, h, key), h.at, T)

\* Variant: the table is left under the value.
getFieldKeepsTable(m, h, T, fieldName) ==
  ReadAndPop(lua_getfield(pushSelf(m, h), h.at, 1, fieldName), h.at, T)

getField(m, h, T, fieldName) ==
  ReadAndPop(lua_remove2(lua_getfield(pushSelf(m, h), h.at, 1, fieldName), h.at), h.at, T)

\* The raw operations and those on integer keys make the same calls on the stack; what
\* sets them apart is the metamethods they pass by, and no table here has any.
setRaw(m, h, key, value) == set(m, h, key, value)
setRawStackKV(m, h) == setStackKV(m, h)
setRawi(m, h, i, value) == setField(m, h, i, value)
retrieveRaw(m, h, key) == retrieve(m, h, key)
retrieveRawStackK(m, h) == retrieveStackK(m, h)
retrieveI(m, h, i) == retrieveField(m, h, i)
getI(m, h, T, i) == getField(m, h, T, i)

\* lua_len pushes the length; it is popped, the table is not.
len(m, h) ==
  LET m1 == lua_push(pushSelf(m, h), h.at, Nil) IN Return(lua_pop(m1, h.at, 1), "length")

setMetatable(m, h, mt) ==
  LET m1 == pushSelf(pushSelf(m, h), mt)
  IN  Return(lua_pop(lua_setmetatable2(m1, h.at), h.at, 1), "none")

\* lua_setmetatable has popped the metatable when two more values are popped.
setMetatableStack(m, h) ==
  LET m1 == lua_swap(pushSelf(m, h), h.at)
  IN  Return(lua_pop(lua_setmetatable2(m1, h.at), h.at, 2), "none")

\* t[k]: building the IndexedValue throws for a nil key, before any call is made.
Indexed(m, key, call) == IF isNil(key) THEN Return(Fail(m, "thrown"), "none") ELSE call

\* LuaReference::operator==: other is pushed on its own luaInstance, and both values
\* are popped from that of h.
equals(m, h, other) ==
  LET m1 == pushSelf(m, h)
      m2 == pushReference(m1, other, h.at)
      same == Top(m1, h.at, 1) = Top(m2, h.at, 1)
  IN  IF other.at \in Foreign THEN Return(m, "different")
      ELSE Return(lua_pop(m2, h.at, 2), IF same THEN "equal" ELSE "different")
=============================================================================
