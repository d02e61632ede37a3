------------------------------ MODULE ClientView ------------------------------
(***************************************************************************)
(* What a client that shares its stack with arasy may rely on: what each   *)
(* call, known by its name and arguments, does to the client's own values, *)
(* to the tables and to the registry fields, and what it returns.  Nothing *)
(* of how a call uses the stack is left here but where the code lets it    *)
(* show: len leaves the table on the stack; setMetatableStack and storeKey *)
(* take one value more than they use; type answers for the top whatever    *)
(* index is asked for; and a call that throws leaves what it had pushed.   *)
(*                                                                         *)
(* An argument or a handle is [val, at]: its value, and the lua_State its  *)
(* reference is bound to.                                                  *)
(***************************************************************************)
EXTENDS Integers, Sequences

CONSTANTS States, Foreign, Tables, Globals, Texts, Values, Nil

VARIABLES
  mine,  \* mine[s]: the client's values on the stack of s, the last one on top
  tab, meta, reg,
  ret,   \* what the last call returned
  op     \* the last call: its name, the lua_State or handle it is made on, its arguments

Keys == Values \ {Nil}
Blank == [k \in Keys |-> Nil]

Init ==
  /\ mine = [s \in States |-> <<>>]
  /\ tab = [t \in Tables |-> Blank]
  /\ meta = [t \in Tables |-> Nil]
  /\ reg = Blank
  /\ ret = <<>> /\ op = <<>>

At(f, k) == IF k = Nil THEN Nil ELSE f[k]
Without(s, n) == SubSeq(mine[s], 1, Len(mine[s]) - n)
FromTop(s, n) == mine[s][Len(mine[s]) + 1 - n]

Leaves(s, q) == mine' = [mine EXCEPT ![s] = q]
LeavesAll == mine' = mine
KeepsTables == UNCHANGED <<tab, meta>>
KeepsData == KeepsTables /\ UNCHANGED reg
-----------------------------------------------------------------------------
(* What a call may come to. *)

Answers(r) == ret' = r /\ KeepsData /\ LeavesAll
Pushes(s, v) == ret' = <<"none">> /\ KeepsData /\ Leaves(s, Append(mine[s], v))
Throws(s, pushed) == ret' = <<"thrown">> /\ KeepsData /\ Leaves(s, mine[s] \o pushed)

Stored(t, k, v) ==
  ret' = <<"none">> /\ tab' = [tab EXCEPT ![t][k] = v] /\ UNCHANGED <<meta, reg>>
Registered(k, v) == ret' = <<"none">> /\ reg' = [reg EXCEPT ![k] = v] /\ KeepsTables

Stores(t, k, v) == Stored(t, k, v) /\ LeavesAll
Registers(k, v) == Registered(k, v) /\ LeavesAll

\* A value v is asked for as a T: any value is a LuaValue, what is no table is no
\* LuaTable, and what is no text makes the reader of LuaString throw.
Unreadable(T, v) == T = "LuaString" /\ v \notin Texts
As(T, v) == IF T = "LuaTable" /\ v \notin Tables THEN "nullopt" ELSE v

Reads(s, T, v) ==
  \/ Unreadable(T, v) /\ Throws(s, <<v>>)
  \/ ~Unreadable(T, v) /\ Answers(<<As(T, v)>>)

\* A reference of another instance is not pushed: the call ends there by an exception,
\* above what it has pushed so far.
Refused(x) == x.val \in Tables /\ x.at \in Foreign
Accepted(xs) == \A i \in DOMAIN xs : ~Refused(xs[i])

Interrupted(s, xs) ==
  \E i \in DOMAIN xs :
    /\ Refused(xs[i]) /\ \A j \in 1..i-1 : ~Refused(xs[j])
    /\ Throws(s, [j \in 1..i-1 |-> xs[j].val])
-----------------------------------------------------------------------------
(* core::Lua. *)

\* A reference goes to the lua_State it is bound to, whichever one it was pushed on.
Push(s, x) ==
  \/ Interrupted(s, <<x>>)
  \/ Accepted(<<x>>) /\ Pushes(IF x.val \in Tables THEN x.at ELSE s, x.val)

\* A value that cannot be read as a T stays.
PopStack(s, T) ==
  /\ mine[s] # <<>>
  /\ \/ Unreadable(T, FromTop(s, 1)) /\ Throws(s, <<>>)
     \/ /\ ~Unreadable(T, FromTop(s, 1))
        /\ ret' = <<As(T, FromTop(s, 1))>> /\ KeepsData /\ Leaves(s, Without(s, 1))

\* As many as there are, in the order they lie on the stack.
MultiPop(s, n) ==
  LET k == IF n < Len(mine[s]) THEN n ELSE Len(mine[s])
  IN  /\ Leaves(s, Without(s, k))
      /\ ret' = SubSeq(mine[s], Len(mine[s]) - k + 1, Len(mine[s]))
      /\ KeepsData

SetGlobal(s, k, x) ==
  Interrupted(s, <<x>>) \/ (Accepted(<<x>>) /\ Stores(Globals, k, x.val))

\* Whatever index is asked for.
Type(s) == Answers(<<"type", IF mine[s] = <<>> THEN Nil ELSE FromTop(s, 1)>>)

\* t is a table nothing leads to.
New(t, content) ==
  /\ t # Globals
  /\ \A s \in States : \A i \in 1..Len(mine[s]) : mine[s][i] # t
  /\ \A k \in Keys : reg[k] # t /\ \A u \in Tables : tab[u][k] # t /\ meta[u] # t
  /\ tab' = [tab EXCEPT ![t] = content] /\ meta' = [meta EXCEPT ![t] = Nil] /\ reg' = reg

PushNew(s, t) == ret' = <<"none">> /\ New(t, Blank) /\ Leaves(s, Append(mine[s], t))
Make(t, content) == ret' = <<"table", t>> /\ New(t, content) /\ LeavesAll

Complete(entry) == entry.key.val # Nil /\ Accepted(<<entry.key, entry.value>>)

\* Each key has the value of the last entry with it.
Filled(entries) ==
  [k \in Keys |->
     LET is == {i \in DOMAIN entries : entries[i].key.val = k}
     IN  IF is = {} THEN Nil
         ELSE entries[CHOOSE i \in is : \A j \in is : j <= i].value.val]

\* An entry without a key undoes the table.  At one that is refused the unfinished table
\* stays on the stack, and above it the key when it is the value that is refused.
StopsAt(s, t, entries, i) ==
  LET entry == entries[i]
      pushed == IF Refused(entry.key) THEN <<t>> ELSE <<t, entry.key.val>>
  IN  \/ entry.key.val = Nil /\ Answers(<<"nullopt">>)
      \/ /\ entry.key.val # Nil /\ ~Accepted(<<entry.key, entry.value>>)
         /\ ret' = <<"thrown">> /\ New(t, Filled(SubSeq(entries, 1, i - 1)))
         /\ Leaves(s, mine[s] \o pushed)

MakeTable(s, t, entries) ==
  \/ \E i \in DOMAIN entries :
       (\A j \in 1..i-1 : Complete(entries[j])) /\ StopsAt(s, t, entries, i)
  \/ (\A i \in DOMAIN entries : Complete(entries[i])) /\ Make(t, Filled(entries))

\* n values on top become one, or go with a function that is returned.
Combine(s, n, v) ==
  /\ Len(mine[s]) >= n
  /\ ret' = <<"none">> /\ KeepsData /\ Leaves(s, Append(Without(s, n), v))

Take(s, n) ==
  ret' = <<"function">> /\ KeepsData /\ Len(mine[s]) >= n /\ Leaves(s, Without(s, n))

WithUpvalues(s, xs) == Interrupted(s, xs) \/ (Accepted(xs) /\ Answers(<<"function">>))

\* One value is its own concatenation.
Concat(s, n, v) == IF n = 1 THEN Answers(<<"none">>) ELSE Combine(s, n, v)
-----------------------------------------------------------------------------
(* LuaRegistry. *)

RetrieveKey(s, x) ==
  Interrupted(s, <<x>>) \/ (Accepted(<<x>>) /\ Pushes(s, At(reg, x.val)))

RetrieveStack(s) ==
  /\ mine[s] # <<>> /\ ret' = <<"none">> /\ KeepsData
  /\ Leaves(s, Append(Without(s, 1), At(reg, FromTop(s, 1))))

ReadKey(s, T, x) ==
  Interrupted(s, <<x>>) \/ (Accepted(<<x>>) /\ Reads(s, T, At(reg, x.val)))

WriteField(s, k, x) == Interrupted(s, <<x>>) \/ (Accepted(<<x>>) /\ Registers(k, x.val))

WriteKey(s, k, x) ==
  Interrupted(s, <<k, x>>) \/ (Accepted(<<k, x>>) /\ Registers(k.val, x.val))

StoreField(s, k) ==
  \/ mine[s] = <<>> /\ Answers(<<"none">>)
  \/ mine[s] # <<>> /\ Registered(k, FromTop(s, 1)) /\ Leaves(s, Without(s, 1))

StoreKey(s, k) ==
  \/ Interrupted(s, <<k>>)
  \/ /\ Accepted(<<k>>) /\ Len(mine[s]) >= 2
     /\ Registered(k.val, FromTop(s, 1)) /\ Leaves(s, Without(s, 2))
-----------------------------------------------------------------------------
(* LuaIndexable, and operator== of references. *)

Set(h, k, x) ==
  \/ k.val = Nil /\ Answers(<<"NIL_KEY">>)
  \/ k.val # Nil /\ Interrupted(h.at, <<h, k, x>>)
  \/ k.val # Nil /\ Accepted(<<h, k, x>>) /\ Stores(h.val, k.val, x.val)

SetStackKV(h) ==
  /\ Len(mine[h.at]) >= 2
  /\ Leaves(h.at, Without(h.at, 2))
  /\ \/ FromTop(h.at, 2) = Nil /\ ret' = <<"NIL_KEY">> /\ KeepsData
     \/ FromTop(h.at, 2) # Nil /\ Stored(h.val, FromTop(h.at, 2), FromTop(h.at, 1))

SetField(h, k, x) ==
  Interrupted(h.at, <<h, x>>) \/ (Accepted(<<h, x>>) /\ Stores(h.val, k, x.val))

Retrieve(h, k) ==
  \/ k.val = Nil /\ Answers(<<"NIL_KEY">>)
  \/ k.val # Nil /\ Interrupted(h.at, <<h, k>>)
  \/ k.val # Nil /\ Accepted(<<h, k>>) /\ Pushes(h.at, tab[h.val][k.val])

RetrieveStackK(h) ==
  /\ mine[h.at] # <<>> /\ KeepsData
  /\ \/ FromTop(h.at, 1) = Nil /\ ret' = <<"NIL_KEY">> /\ Leaves(h.at, Without(h.at, 1))
     \/ /\ FromTop(h.at, 1) # Nil /\ ret' = <<"none">>
        /\ Leaves(h.at, Append(Without(h.at, 1), tab[h.val][FromTop(h.at, 1)]))

Get(h, T, k) ==
  \/ k.val = Nil /\ Answers(<<"nullopt">>)
  \/ k.val # Nil /\ Interrupted(h.at, <<h, k>>)
  \/ k.val # Nil /\ Accepted(<<h, k>>) /\ Reads(h.at, T, tab[h.val][k.val])

\* The table stays.
LenOf(h) == ret' = <<"length">> /\ KeepsData /\ Leaves(h.at, Append(mine[h.at], h.val))

\* t[k] with nil for k.
NoIndex(h) == Throws(h.at, <<>>)

SetMetatable(h, mt) ==
  /\ meta' = [meta EXCEPT ![h.val] = mt.val] /\ ret' = <<"none">>
  /\ LeavesAll /\ UNCHANGED <<tab, reg>>

SetMetatableStack(h) ==
  /\ Len(mine[h.at]) >= 2
  /\ meta' = [meta EXCEPT ![h.val] = FromTop(h.at, 1)] /\ ret' = <<"none">>
  /\ Leaves(h.at, Without(h.at, 2)) /\ UNCHANGED <<tab, reg>>

Equals(h, other) == Answers(<<IF h.val = other.val THEN "equal" ELSE "different">>)
-----------------------------------------------------------------------------
(* What each call comes to. *)

StackCalls(call, s, a) ==
  \/ call = "push" /\ Push(s, a[1])
  \/ call = "popStack" /\ PopStack(s, a[1])
  \/ call = "multiPop" /\ MultiPop(s, a[1])
  \/ call \in {"setGlobal", "proxySet"} /\ SetGlobal(s, a[1], a[2])
  \/ call \in {"getGlobal", "proxyValue"} /\ Reads(s, a[1], tab[Globals][a[2]])

GlobalCalls(call, s, a) ==
  \/ call = "retrieveGlobal" /\ Pushes(s, tab[Globals][a[1]])
  \/ call = "eraseGlobal" /\ Stores(Globals, a[1], Nil)
  \/ call = "retrieveGlobalsTable" /\ Pushes(s, Globals)
  \/ call = "getGlobalsTable" /\ Answers(<<"table", Globals>>)
  \/ call = "type" /\ Type(s)

CreateCalls(call, s, a) ==
  \/ call = "pushNewTable" /\ PushNew(s, a[1])
  \/ call = "createNewTable" /\ Make(a[1], Blank)
  \/ call = "makeTable" /\ MakeTable(s, a[1], a[2])
  \/ call \in {"pushCClosure", "arith"} /\ Combine(s, a[1], a[2])
  \/ call = "createCClosureStackUpvalues" /\ Take(s, a[1])
  \/ call = "withUpvalues" /\ WithUpvalues(s, a[1])
  \/ call = "concat" /\ Concat(s, a[1], a[2])

RegistryCalls(call, s, a) ==
  \/ call = "registryRetrieveField" /\ Pushes(s, reg[a[1]])
  \/ call = "registryRetrieveKey" /\ RetrieveKey(s, a[1])
  \/ call = "registryRetrieveStack" /\ RetrieveStack(s)
  \/ call = "readField" /\ Reads(s, a[1], reg[a[2]])
  \/ call = "readKey" /\ ReadKey(s, a[1], a[2])
  \/ call = "writeField" /\ WriteField(s, a[1], a[2])
  \/ call = "writeKey" /\ WriteKey(s, a[1], a[2])
  \/ call = "storeField" /\ StoreField(s, a[1])
  \/ call = "storeKey" /\ StoreKey(s, a[1])

TableCalls(call, h, a) ==
  \/ call \in {"set", "setRaw"} /\ Set(h, a[1], a[2])
  \/ call \in {"setStackKV", "setRawStackKV"} /\ SetStackKV(h)
  \/ call \in {"setField", "setRawi"} /\ SetField(h, a[1], a[2])
  \/ call \in {"retrieve", "retrieveRaw"} /\ Retrieve(h, a[1])
  \/ call \in {"retrieveStackK", "retrieveRawStackK"} /\ RetrieveStackK(h)
  \/ call \in {"retrieveField", "retrieveI"} /\ Pushes(h.at, tab[h.val][a[1]])
  \/ call = "get" /\ Get(h, a[1], a[2])
  \/ call \in {"getField", "getI"} /\ Reads(h.at, a[1], tab[h.val][a[2]])
  \/ call = "len" /\ LenOf(h)

IndexedCalls(call, h, a) ==
  \/ call = "indexedSet" /\ a[1].val = Nil /\ NoIndex(h)
  \/ call = "indexedSet" /\ a[1].val # Nil /\ Set(h, a[1], a[2])
  \/ call = "indexedGet" /\ a[2].val = Nil /\ NoIndex(h)
  \/ call = "indexedGet" /\ a[2].val # Nil /\ Get(h, a[1], a[2])

MetatableCalls(call, h, a) ==
  \/ call = "setMetatable" /\ SetMetatable(h, a[1])
  \/ call = "setMetatableStack" /\ SetMetatableStack(h)
  \/ call = "equals" /\ Equals(h, a[1])

Effect(call, on, args) ==
  \/ StackCalls(call, on, args) \/ GlobalCalls(call, on, args)
  \/ CreateCalls(call, on, args) \/ RegistryCalls(call, on, args)
  \/ TableCalls(call, on, args) \/ IndexedCalls(call, on, args)
  \/ MetatableCalls(call, on, args)

\* The step is the one of the call that op' says was made.
Next == \E call \in {op'} : Effect(call[1], call[2], call[3])

Spec == Init /\ [][Next]_<<mine, tab, meta, reg, ret, op>>
=============================================================================
