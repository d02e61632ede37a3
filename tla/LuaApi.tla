-------------------------------- MODULE LuaApi --------------------------------
(***************************************************************************)
(* The part of the Lua 5.4 C API arasy is written with, as functions on    *)
(* the state of one Lua instance.  External code: each operator does what  *)
(* the API function of its name does, with indices counted from the top    *)
(* as arasy passes them.  The API checks nothing: an index below the       *)
(* frame, or a pop of more than there is, reads and moves past its bottom. *)
(*                                                                         *)
(* A machine m is a record:                                                *)
(*   stk   stk[s]: current frame of lua_State s; stk[s][1] is the slot of  *)
(*         the running function, nil at base level; the rest are values    *)
(*   tab   tab[t]: what table t maps each key to                           *)
(*   meta  meta[t]: metatable of t.  No table of the model has metamethods *)
(*   reg   the fields of the registry, luaL_ref's integer keys apart       *)
(*   st    "ok"; "thrown": a C++ exception is on its way to the caller;    *)
(*         "error": a Lua error has left the frame; "undefined": outside   *)
(*         of what the frame holds, the model follows it no further        *)
(* Once st is not "ok" the calls that follow do not happen.                *)
(***************************************************************************)
EXTENDS Integers, Sequences

CONSTANTS
  States,   \* the lua_States of the instance
  Tables,   \* tables
  Globals,  \* the table of globals
  Plain,    \* strings and other values without identity
  Texts,    \* those among them that are strings; a number goes by its numeral
  Threads,  \* thread objects
  Nil

Values == Tables \cup Plain \cup Threads \cup {Nil}
Keys == Values \ {Nil}

ASSUME ApiAssumption ==
  /\ Globals \in Tables /\ Texts \subseteq Plain
  /\ Nil \notin Tables \cup Plain \cup Threads
  /\ Tables \cap (Plain \cup Threads) = {}

Fail(m, how) == [m EXCEPT !.st = how]

\* Position in the frame of the index -n, below 1 when it is not in the frame.
Pos(m, s, n) == Len(m.stk[s]) + 1 - n
Top(m, s, n) == m.stk[s][Pos(m, s, n)]

\* The calls below take effect when nothing has gone wrong before and the frame
\* is as deep as they reach.
Reaches(m, s, n) == Pos(m, s, n) >= 1

Call(m, s, n, next) ==
  IF m.st # "ok" THEN m ELSE IF Reaches(m, s, n) THEN next ELSE Fail(m, "undefined")

lua_push(m, s, v) == IF m.st = "ok" THEN [m EXCEPT !.stk[s] = Append(@, v)] ELSE m

Dropped(q, n) == SubSeq(q, 1, Len(q) - n)

lua_pop(m, s, n) == Call(m, s, n, [m EXCEPT !.stk[s] = Dropped(@, n)])

lua_pushvalue(m, s, n) == Call(m, s, n, lua_push(m, s, Top(m, s, n)))

\* lua_remove(L, -2) and lua_rotate(L, -2, 1).
lua_remove2(m, s) ==
  Call(m, s, 2, [m EXCEPT !.stk[s] = Append(Dropped(@, 2), Top(m, s, 1))])
lua_swap(m, s) ==
  Call(m, s, 2, [m EXCEPT !.stk[s] = Dropped(@, 2) \o <<Top(m, s, 1), Top(m, s, 2)>>])

\* t[k] = v for the value v on top, then v and the key below it are popped.
lua_settable(m, s, n) ==
  Call(m, s, n,
    IF Top(m, s, n) \in Tables /\ Top(m, s, 2) # Nil
    THEN [m EXCEPT !.tab[Top(m, s, n)][Top(m, s, 2)] = Top(m, s, 1),
                   !.stk[s] = Dropped(@, 2)]
    ELSE Fail(m, "error"))

lua_setfield(m, s, n, k) ==
  Call(m, s, n,
    IF Top(m, s, n) \in Tables
    THEN [m EXCEPT !.tab[Top(m, s, n)][k] = Top(m, s, 1), !.stk[s] = Dropped(@, 1)]
    ELSE Fail(m, "error"))

Field(f, k) == IF k = Nil THEN Nil ELSE f[k]

\* The key on top is replaced by what the table at -n has for it.
lua_gettable(m, s, n) ==
  Call(m, s, n,
    IF Top(m, s, n) \in Tables
    THEN [m EXCEPT !.stk[s] = Append(Dropped(@, 1), Field(m.tab[Top(m, s, n)], Top(m, s, 1)))]
    ELSE Fail(m, "error"))

lua_getfield(m, s, n, k) ==
  Call(m, s, n,
    IF Top(m, s, n) \in Tables
    THEN lua_push(m, s, m.tab[Top(m, s, n)][k])
    ELSE Fail(m, "error"))

lua_setglobal(m, s, k) ==
  Call(m, s, 1, [m EXCEPT !.tab[Globals][k] = Top(m, s, 1), !.stk[s] = Dropped(@, 1)])
lua_getglobal(m, s, k) == lua_push(m, s, m.tab[Globals][k])

\* lua_setmetatable(L, -2); on anything but a table it would change a whole type.
lua_setmetatable2(m, s) ==
  Call(m, s, 2,
    IF Top(m, s, 2) \in Tables /\ Top(m, s, 1) \in Tables \cup {Nil}
    THEN [m EXCEPT !.meta[Top(m, s, 2)] = Top(m, s, 1), !.stk[s] = Dropped(@, 1)]
    ELSE Fail(m, "undefined"))

\* A table nothing leads to; one that was there before and no longer is stands for it.
Unreferenced(m, t) ==
  /\ t # Globals
  /\ \A s \in States : \A i \in 1..Len(m.stk[s]) : m.stk[s][i] # t
  /\ \A k \in Keys : m.reg[k] # t
  /\ \A u \in Tables : m.meta[u] # t /\ \A k \in Keys : m.tab[u][k] # t

Empty == [k \in Keys |-> Nil]

lua_newtable(m, s, t) == lua_push([m EXCEPT !.tab[t] = Empty, !.meta[t] = Nil], s, t)

\* The n values on top become one: a closure over them, their concatenation, the result
\* of an operator.  Only a closure takes tables.
Combined(m, s, n, v) == lua_push(lua_pop(m, s, n), s, v)
AllTexts(m, s, n) == \A i \in 1..n : Top(m, s, i) \in Texts

lua_pushcclosure(m, s, n, v) == Call(m, s, n, Combined(m, s, n, v))

lua_arith(m, s, n, v) ==
  Call(m, s, n, IF AllTexts(m, s, n) THEN Combined(m, s, n, v) ELSE Fail(m, "error"))

\* One value stays as it is, whatever it is.
lua_concat(m, s, n, v) == IF n = 1 THEN m ELSE lua_arith(m, s, n, v)

\* The same calls on LUA_REGISTRYINDEX.
reg_setfield(m, s, k) ==
  Call(m, s, 1, [m EXCEPT !.reg[k] = Top(m, s, 1), !.stk[s] = Dropped(@, 1)])
reg_settable(m, s) ==
  Call(m, s, 2,
    IF Top(m, s, 2) # Nil
    THEN [m EXCEPT !.reg[Top(m, s, 2)] = Top(m, s, 1), !.stk[s] = Dropped(@, 2)]
    ELSE Fail(m, "error"))
reg_getfield(m, s, k) == lua_push(m, s, m.reg[k])
reg_gettable(m, s) ==
  Call(m, s, 1, [m EXCEPT !.stk[s] = Append(Dropped(@, 1), Field(m.reg, Top(m, s, 1)))])
=============================================================================
