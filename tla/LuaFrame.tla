------------------------------- MODULE LuaFrame -------------------------------
(***************************************************************************)
(* The stack traffic of arasy: what a C++ client that holds the stack of a *)
(* lua_State sees when it works with core::Lua, LuaRegistry and the table  *)
(* handles.  Every operation pushes what it needs on the stack it works    *)
(* on, calls the Lua API and pops what is left; the client's own values    *)
(* lie on the same stack.                                                  *)
(***************************************************************************)
EXTENDS Indexable, FiniteSets, SequencesExt

CONSTANTS
  Names,     \* field names and keys the client uses
  MaxStack,  \* bound: values the client leaves on all stacks together
  MaxFields  \* bound: fields and metatables set at a time

ASSUME FrameAssumption ==
  IsFiniteSet(States) /\ Names \subseteq Keys /\ MaxStack \in Nat

VARIABLES
  stk, tab, meta, reg, st, ret,
  op     \* history: the call made last

vars == <<stk, tab, meta, reg, st, ret, op>>

\* The machine of LuaApi, with the result of the last call.
Machine == [stk |-> stk, tab |-> tab, meta |-> meta, reg |-> reg, st |-> st, ret |-> ret]

Becomes(m) ==
  /\ stk' = m.stk /\ tab' = m.tab /\ meta' = m.meta /\ reg' = m.reg
  /\ st' = m.st /\ ret' = m.ret

\* The client makes a call, on a lua_State or on a handle.
Does(call, on, args, m) == Becomes(m) /\ op' = <<call, on, args>>
-----------------------------------------------------------------------------
(* core::Lua. *)

push(m, L, x) == Return(pushOnto(m, x, L), "none")

popStack(m, L, T) == ReadAndPop(m, L, T)

stackSize(m, L) == Len(m.stk[L]) - 1

\* reserve throws length_error for the size a stack popped below its bottom has.
multiPop(m, L, n) ==
  LET k == IF n < stackSize(m, L) THEN n ELSE stackSize(m, L)
      top == SubSeq(m.stk[L], Len(m.stk[L]) - k + 1, Len(m.stk[L]))
  IN  IF k < 0 THEN Return(Fail(m, "thrown"), "none") ELSE ReturnAll(lua_pop(m, L, k), top)

setGlobal(m, L, name, x) == Return(lua_setglobal(pushOnto(m, x, L), L, name), "none")

retrieveGlobal(m, L, name) == Return(lua_getglobal(m, L, name), "none")
getGlobal(m, L, T, name) == ReadAndPop(lua_getglobal(m, L, name), L, T)
eraseGlobal(m, L, name) == setGlobal(m, L, name, [val |-> Nil, at |-> L])

\* GlobalVariableProxy: what it names is read anew each time.
proxyValue(m, L, T, name) == ReadAndPop(lua_getglobal(m, L, name), L, T)
proxySet(m, L, name, x) == setGlobal(m, L, name, x)

\* type takes an index and looks at the top.
type(m, L, idx) == ReturnAll(m, <<"type", Popped(m, L).val>>)

retrieveGlobalsTable(m, L) == Return(lua_push(m, L, Globals), "none")

ReturnTable(m, L) == ReturnAll(lua_pop(m, L, 1), <<"table", Popped(m, L).val>>)

getGlobalsTable(m, L) == ReturnTable(lua_push(m, L, Globals), L)
pushNewTable(m, L, t) == Return(lua_newtable(m, L, t), "none")
createNewTable(m, L, t) == ReturnTable(lua_newtable(m, L, t), L)

addEntry(m, L, entry) ==
  lua_settable(pushOnto(pushOnto(m, entry.key, L), entry.value, L), L, 3)

addEntries(m, L, entries) ==
  FoldLeft(LAMBDA acc, entry : addEntry(acc, L, entry), m, entries)

\* Where the first entry without a key is, 0 when there is none.
firstNil(entries) == SelectInSeq(entries, LAMBDA entry : isNil(entry.key))

\* A table given up again leaves nothing: the model forgets what it held.
GivenUp(m1, m) == [m1 EXCEPT !.tab = m.tab, !.meta = m.meta]

makeTable(m, L, t, entries) ==
  LET bad == firstNil(entries)
      upto == IF bad = 0 THEN entries ELSE SubSeq(entries, 1, bad - 1)
      m1 == addEntries(lua_newtable(m, L, t), L, upto)
  IN  IF bad # 0 /\ m1.st = "ok"
      THEN Return(GivenUp(lua_pop(m1, L, 1), m), "nullopt")
      ELSE ReturnTable(m1, L)

\* v stands for the new function, string or number.
pushCClosure(m, L, n, v) == Return(lua_pushcclosure(m, L, n, v), "none")
createCClosureStackUpvalues(m, L, n, v) ==
  Return(lua_pop(lua_pushcclosure(m, L, n, v), L, 1), "function")

pushAll(m, args, L) == FoldLeft(LAMBDA acc, x : pushOnto(acc, x, L), m, args)

withUpvalues(m, L, args, v) ==
  Return(lua_pop(lua_pushcclosure(pushAll(m, args, L), L, Len(args), v), L, 1), "function")

arith(m, L, n, v) == Return(lua_arith(m, L, n, v), "none")
concat(m, L, n, v) == Return(lua_concat(m, L, n, v), "none")
-----------------------------------------------------------------------------
(* LuaRegistry.  Keys that are LuaIntegers are refused; the model has none. *)

registryRetrieveField(m, L, k) == Return(reg_getfield(m, L, k), "none")
registryRetrieveKey(m, L, key) == Return(reg_gettable(pushOnto(m, key, L), L), "none")
registryRetrieveStack(m, L) == Return(reg_gettable(m, L), "none")
readField(m, L, T, k) == ReadAndPop(reg_getfield(m, L, k), L, T)

\* readKey<T> takes its key as a T, and reads as one.
KeyClasses(key) ==
  {T \in Classes : /\ T = "LuaTable" => key.val \in Tables
                   /\ T = "LuaString" => key.val \in Texts}
readKey(m, L, T, key) == ReadAndPop(reg_gettable(pushOnto(m, key, L), L), L, T)

writeField(m, L, k, x) == Return(reg_setfield(pushOnto(m, x, L), L, k), "none")

storeField(m, L, k) ==
  IF stackSize(m, L) < 1 THEN Return(m, "none") ELSE Return(reg_setfield(m, L, k), "none")

writeKey(m, L, key, x) ==
  Return(reg_settable(pushOnto(pushOnto(m, key, L), x, L), L), "none")

\* lua_settable has popped the key and the copy when two more values are popped.
storeKey(m, L, key) ==
  IF stackSize(m, L) < 1 THEN Return(m, "none")
  ELSE LET m1 == lua_pushvalue(pushOnto(m, key, L), L, 2)
       IN  Return(lua_pop(reg_settable(m1, L), L, 2), "none")
-----------------------------------------------------------------------------
(* The client. *)

\* Bounds: how much the client leaves on the stacks, and stores.
Left == UNION {{s} \X (2..Len(stk[s])) : s \in States}
Stored ==
  {x \in Tables \X Keys : tab[x[1]][x[2]] # Nil}
    \cup {k \in Keys : reg[k] # Nil} \cup {<<t>> : t \in {u \in Tables : meta[u] # Nil}}

WithinBounds == Cardinality(Left') <= MaxStack /\ Cardinality(Stored') <= MaxFields

\* The client's own stack discipline: n values of its own on the stack of s.
Holds(s, n) == stackSize(Machine, s) >= n

StackCalls(X, L) ==
  \/ \E x \in Arguments : Does("push", L, <<x>>, push(Machine, L, x))
  \/ Holds(L, 1) /\ \E T \in Classes : Does("popStack", L, <<T>>, popStack(Machine, L, T))
  \/ \E n \in 0..MaxStack : Does("multiPop", L, <<n>>, multiPop(Machine, L, n))
  \/ \E k \in Names :
       \/ \E x \in X : \/ Does("setGlobal", L, <<k, x>>, setGlobal(Machine, L, k, x))
                       \/ Does("proxySet", L, <<k, x>>, proxySet(Machine, L, k, x))
       \/ \E T \in Classes : \/ Does("getGlobal", L, <<T, k>>, getGlobal(Machine, L, T, k))
                             \/ Does("proxyValue", L, <<T, k>>, proxyValue(Machine, L, T, k))

GlobalCalls(L) ==
  \/ \E k \in Names : \/ Does("retrieveGlobal", L, <<k>>, retrieveGlobal(Machine, L, k))
                      \/ Does("eraseGlobal", L, <<k>>, eraseGlobal(Machine, L, k))
  \/ Does("retrieveGlobalsTable", L, <<>>, retrieveGlobalsTable(Machine, L))
  \/ Does("getGlobalsTable", L, <<>>, getGlobalsTable(Machine, L))
  \/ \E idx \in {-1, -2} : Does("type", L, <<idx>>, type(Machine, L, idx))

\* Up to one entry, and one with a nil key after it.
EntryLists(X, L) ==
  LET entry(k, x) == [key |-> k, value |-> x]
      none == [val |-> Nil, at |-> L]
  IN  {<<>>} \cup {<<entry(k, x)>> : k, x \in X}
        \cup {<<entry(k, k), entry(none, k)>> : k \in X}

TableMaking(X, L) ==
  \E t \in Tables :
    /\ Unreferenced(Machine, t)
    /\ \/ Does("pushNewTable", L, <<t>>, pushNewTable(Machine, L, t))
       \/ Does("createNewTable", L, <<t>>, createNewTable(Machine, L, t))
       \/ \E entries \in EntryLists({x \in X : x.val # t}, L) :
            Does("makeTable", L, <<t, entries>>, makeTable(Machine, L, t, entries))

\* A new function is no text, the result of an operator is one.
CreateCalls(X, L) ==
  \/ TableMaking(X, L)
  \/ \E v \in Plain \ Texts :
       \/ \E n \in 0..MaxStack :
            /\ Holds(L, n)
            /\ \/ Does("pushCClosure", L, <<n, v>>, pushCClosure(Machine, L, n, v))
               \/ Does("createCClosureStackUpvalues", L, <<n>>,
                       createCClosureStackUpvalues(Machine, L, n, v))
       \/ \E x \in X, n \in 0..2 : LET xs == [i \in 1..n |-> x] IN
            Does("withUpvalues", L, <<xs>>, withUpvalues(Machine, L, xs, v))
  \/ \E v \in Texts :
       \/ \E n \in 0..2 :
            /\ Holds(L, n) /\ AllTexts(Machine, L, n)
            /\ Does("concat", L, <<n, v>>, concat(Machine, L, n, v))
       \/ \E n \in 1..2 :
            /\ Holds(L, n) /\ AllTexts(Machine, L, n)
            /\ Does("arith", L, <<n, v>>, arith(Machine, L, n, v))

RegistryCalls(X, L) ==
  \/ \E k \in Names :
       \/ Does("registryRetrieveField", L, <<k>>, registryRetrieveField(Machine, L, k))
       \/ \E T \in Classes : Does("readField", L, <<T, k>>, readField(Machine, L, T, k))
       \/ \E x \in X : Does("writeField", L, <<k, x>>, writeField(Machine, L, k, x))
       \/ Does("storeField", L, <<k>>, storeField(Machine, L, k))
  \/ Holds(L, 1) /\ Does("registryRetrieveStack", L, <<>>, registryRetrieveStack(Machine, L))
  \/ \E k \in X :
       \/ Does("registryRetrieveKey", L, <<k>>, registryRetrieveKey(Machine, L, k))
       \/ \E T \in KeyClasses(k) : Does("readKey", L, <<T, k>>, readKey(Machine, L, T, k))
       \/ ~isNil(k) /\ \E x \in X : Does("writeKey", L, <<k, x>>, writeKey(Machine, L, k, x))
       \/ ~isNil(k) /\ Holds(L, 2) /\ Does("storeKey", L, <<k>>, storeKey(Machine, L, k))

TableCalls(X, h) ==
  \/ \E k, x \in X :
       \/ Does("set", h, <<k, x>>, set(Machine, h, k, x))
       \/ Does("setRaw", h, <<k, x>>, setRaw(Machine, h, k, x))
       \/ Does("indexedSet", h, <<k, x>>, Indexed(Machine, k, set(Machine, h, k, x)))
  \/ Holds(h.at, 2) /\ \/ Does("setStackKV", h, <<>>, setStackKV(Machine, h))
                       \/ Does("setRawStackKV", h, <<>>, setRawStackKV(Machine, h))
  \/ \E k \in Names, x \in X : \/ Does("setField", h, <<k, x>>, setField(Machine, h, k, x))
                               \/ Does("setRawi", h, <<k, x>>, setRawi(Machine, h, k, x))
  \/ \E k \in X :
       \/ Does("retrieve", h, <<k>>, retrieve(Machine, h, k))
       \/ Does("retrieveRaw", h, <<k>>, retrieveRaw(Machine, h, k))
       \/ \E T \in Classes :
            \/ Does("get", h, <<T, k>>, get(Machine, h, T, k))
            \/ Does("indexedGet", h, <<T, k>>, Indexed(Machine, k, get(Machine, h, T, k)))
  \/ Holds(h.at, 1) /\ \/ Does("retrieveStackK", h, <<>>, retrieveStackK(Machine, h))
                       \/ Does("retrieveRawStackK", h, <<>>, retrieveRawStackK(Machine, h))
  \/ \E k \in Names :
       \/ Does("retrieveField", h, <<k>>, retrieveField(Machine, h, k))
       \/ Does("retrieveI", h, <<k>>, retrieveI(Machine, h, k))
       \/ \E T \in Classes : \/ Does("getField", h, <<T, k>>, getField(Machine, h, T, k))
                             \/ Does("getI", h, <<T, k>>, getI(Machine, h, T, k))
  \/ Does("len", h, <<>>, len(Machine, h))

MetatableCalls(H, h) ==
  \/ \E mt \in H : Does("setMetatable", h, <<mt>>, setMetatable(Machine, h, mt))
  \/ /\ Holds(h.at, 2) /\ Top(Machine, h.at, 1) \in Tables \cup {Nil}
     /\ Does("setMetatableStack", h, <<>>, setMetatableStack(Machine, h))
  \/ \E o \in H : Does("equals", h, <<o>>, equals(Machine, h, o))

BoundTo(A, L) == {x \in A : x.at = L}

\* Arguments bound to L, and tables of another instance.
AtHand(L) ==
  BoundTo(Arguments, L) \cup {x \in Arguments : x.at \in Foreign /\ x.val \in Tables}

Init ==
  /\ stk = [s \in States |-> <<Nil>>]
  /\ tab = [t \in Tables |-> [k \in Keys |-> Nil]]
  /\ meta = [t \in Tables |-> Nil]
  /\ reg = [k \in Keys |-> Nil]
  /\ st = "ok" /\ ret = <<>> /\ op = <<>>

\* A client that uses each handle with the lua_State it is bound to, but may pass it
\* values of another instance, and may push what is bound to another lua_State.
Next ==
  /\ st = "ok"
  /\ \E L \in States :
       \/ StackCalls(AtHand(L), L)
       \/ GlobalCalls(L)
       \/ CreateCalls(AtHand(L), L)
       \/ RegistryCalls(AtHand(L), L)
       \/ \E h \in BoundTo(TableHandles, L) :
            \/ TableCalls(AtHand(L), h)
            \/ MetatableCalls(BoundTo(TableHandles, L), h)
  /\ WithinBounds

Spec == Init /\ [][Next]_vars
-----------------------------------------------------------------------------
(* Properties. *)

\* The state is well formed, and this client meets no Lua error and no access below its
\* frame.
TypeOK ==
  /\ \A s \in States : stk[s] \in Seq(Values) /\ Len(stk[s]) \in 1..MaxStack + 1
  /\ tab \in [Tables -> [Keys -> Values]]
  /\ meta \in [Tables -> Tables \cup {Nil}]
  /\ reg \in [Keys -> Values]
  /\ st = "ok"

\* Every call, seen from its name and its arguments, has the one effect ClientView gives
\* it: on the client's own values on every stack, on the tables and the registry, and in
\* what it returns or throws.  What it pushed for its own use is gone when it returns
\* (indexable.cpp, registry.cpp, core::Lua).
View == INSTANCE ClientView WITH mine <- [s \in States |-> Tail(stk[s])]
ImplementsClientView == View!Spec
=============================================================================
