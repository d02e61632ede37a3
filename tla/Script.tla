-------------------------------- MODULE Script --------------------------------
(***************************************************************************)
(* Loading and calling Lua code: Lua::loadString and executeString (and    *)
(* the File ones, which differ in where the chunk comes from), Lua::call,  *)
(* pcall and pcallk, error::wrapScriptError, LuaCallable::pcall and call,  *)
(* and LuaTable::insert, which calls a Lua function.  lua_pcall and the    *)
(* code it runs are external: a call may return any results or fail.       *)
(* What matters of a value is whether it can be called and whether it is   *)
(* text (a string or a number) that lua_tostring gives a pointer to.       *)
(***************************************************************************)
EXTENDS Integers, Sequences, SequencesExt

CONSTANTS
  MaxStack,  \* bound: values on the stack between calls
  MaxArgs    \* bound: arguments and results of a call

ASSUME ScriptAssumption == MaxArgs \in Nat

VARIABLES
  stk,  \* the values on the stack: "text", "object", "callable", "error" (a message)
  ret   \* what the last call returned, or "escaped": a Lua error or a C++ exception
        \* left it, or "undefined": it reached below the frame

vars == <<stk, ret>>

MULTRET == -1
Results == {"text", "object", "callable"}
Texts == {"text", "error"}

Lowered(q, n) == SubSeq(q, 1, Len(q) - n)

\* nret results, or any number of them.
ResultLists(nret) ==
  UNION {[1..n -> Results] : n \in IF nret = MULTRET THEN 0..MaxArgs ELSE {nret}}

\* How the call of what lies under nargs arguments may end: the status, and the
\* stack with function and arguments replaced by results or by an error object.
Calls(q, nargs, nret) ==
  LET below == Lowered(q, nargs + 1)
      fails(what, status) == [stk |-> Append(below, what), status |-> status]
  IN  IF Len(q) <= nargs THEN {[stk |-> <<>>, status |-> "undefined"]}
      ELSE IF q[Len(q) - nargs] # "callable" THEN {fails("error", "ERRRUN")}
      ELSE {[stk |-> below \o rs, status |-> "OK"] : rs \in ResultLists(nret)}
             \cup {fails("error", "ERRRUN"), fails("object", "ERRRUN"),
                   fails("error", "ERRMEM"), fails("error", "ERRERR")}

\* A call ends with the stack q and returns r.
Returns(q, r) == stk' = q /\ ret' = r

\* Variant: the status is handed on as it is.
wrapUnmapped(q, status) ==
  IF status = "OK" THEN Returns(q, "none") ELSE Returns(q, status)

\* The message is popped for LUA_ERRRUN alone.  Of an error object that is no text,
\* lua_tostring gives nullptr and building the std::string throws.
wrapScriptError(q, status) ==
  CASE status = "ERRRUN" ->
         IF q # <<>> /\ Last(q) \in Texts THEN Returns(Front(q), "RUNTIME_ERROR")
         ELSE Returns(q, "escaped")
    [] status = "ERRMEM" -> Returns(q, "MEMORY_ERROR")
    [] status = "undefined" -> Returns(q, "undefined")
    [] status \in {"OK", "YIELD"} -> Returns(q, "none")
    [] OTHER -> Returns(q, "RUNTIME_ERROR")
-----------------------------------------------------------------------------
(* core::Lua. *)

LoadFailures == {"SYNTAX_ERROR", "MEMORY_ERROR", "IO_ERROR", "UNKNOWN"}

\* checkLoadChunk makes a text of its own, the one luaL_load pushed stays.
loadFails(why) == Returns(Append(stk, "error"), why)
load == Returns(Append(stk, "callable"), "none") \/ \E why \in LoadFailures : loadFails(why)

pcallOn(q, narg, nret) == \E o \in Calls(q, narg, nret) : wrapScriptError(o.stk, o.status)

pcall(narg, nret) == pcallOn(stk, narg, nret)

execute ==
  \/ \E why \in LoadFailures : loadFails(why)
  \/ pcallOn(Append(stk, "callable"), 0, MULTRET)

\* An error in lua_call is not caught here.
call(narg, nret) ==
  \E o \in Calls(stk, narg, nret) :
    Returns(o.stk, CASE o.status = "OK" -> "none" [] o.status = "undefined" -> "undefined"
                     [] OTHER -> "escaped")

\* The continuation is called here too, after lua_pcallk has returned, and the number
\* of results it returns is taken for a status.
StatusOf(n) == <<"OK", "YIELD", "ERRRUN", "ERRSYNTAX", "ERRMEM", "ERRERR">>[n + 1]

pcallk(narg, nret) ==
  \E o \in Calls(stk, narg, nret), n \in 0..MaxArgs :
    \E rs \in [1..n -> Results] :
      IF o.status = "undefined" THEN Returns(o.stk, "undefined")
      ELSE wrapScriptError(o.stk \o rs, StatusOf(n))
-----------------------------------------------------------------------------
(* LuaCallable. *)

\* Variant: the message is read and left there.
invokePcallKeepsMessage(q, nargs, nret) ==
  \E o \in Calls(q, nargs, nret) :
    CASE o.status = "undefined" -> Returns(o.stk, "undefined")
      [] o.status = "OK" -> Returns(o.stk, "none")
      [] OTHER -> Returns(o.stk, IF Last(o.stk) \in Texts THEN "message" ELSE "escaped")

\* The PCALL case of invokeHelper pops the message of every error.
invokePcall(q, nargs, nret) ==
  \E o \in Calls(q, nargs, nret) :
    CASE o.status = "undefined" -> Returns(o.stk, "undefined")
      [] o.status = "OK" -> Returns(o.stk, "none")
      [] OTHER -> IF Last(o.stk) \in Texts THEN Returns(Front(o.stk), "message")
                  ELSE Returns(o.stk, "escaped")

WithCallable(args) == stk \o <<"callable">> \o args

callablePcall(args, nret) == invokePcall(WithCallable(args), Len(args), nret)

\* The RAWCALL case runs on into the PCALL case: what the call left is called again,
\* and what that returns is dropped.
callableCall(args, nret) ==
  \E o \in Calls(WithCallable(args), Len(args), nret) :
    IF o.status = "OK" THEN invokePcall(o.stk, Len(args), nret)
    ELSE Returns(o.stk, "escaped")

\* LuaTable::insert reads table.insert and pops it again before it pushes the
\* arguments: the call takes what the client has on top for the function.
insert(nargs) ==
  \E o \in Calls(stk \o [i \in 1..nargs |-> "object"], nargs, 0) :
    Returns(o.stk, CASE o.status = "OK" -> "none" [] o.status = "undefined" -> "undefined"
                     [] OTHER -> "escaped")
-----------------------------------------------------------------------------
(* A client that pushes values, pops them, and calls what it has pushed. *)

Init == stk = <<>> /\ ret = "none"

ArgLists == UNION {[1..n -> {"text"}] : n \in 0..MaxArgs}
Counts == 0..MaxArgs
NRets == Counts \cup {MULTRET}

Push(v) == Returns(Append(stk, v), "none")
Pop == stk # <<>> /\ Returns(Front(stk), "none")

Protected ==
  \/ load \/ execute
  \/ \E n \in Counts, r \in NRets : Len(stk) > n /\ pcall(n, r)
  \/ \E args \in ArgLists, r \in NRets : callablePcall(args, r)

Others ==
  \/ \E n \in Counts, r \in NRets : Len(stk) > n /\ (call(n, r) \/ pcallk(n, r))
  \/ \E args \in ArgLists, r \in NRets : callableCall(args, r)
  \/ \E n \in {2, 3} : insert(n)

InUse == ret \notin {"escaped", "undefined"}

Next ==
  /\ InUse
  /\ (\E v \in Results : Push(v)) \/ Pop \/ Protected \/ Others
  /\ Len(stk') <= MaxStack

Spec == Init /\ [][Next]_vars
-----------------------------------------------------------------------------
(* Properties. *)

TypeOK ==
  /\ stk \in Seq(Results \cup {"error"})
  /\ ret \in {"none", "message", "escaped", "undefined", "RUNTIME_ERROR"} \cup LoadFailures

\* Whatever the code that is run does, a protected call keeps the values of the client
\* that lie below its function.  A script that fails, in loading or in running, leaves
\* no more than its message above them, a LuaCallable that reports an error nothing.
OwnValuesKept ==
  [][/\ load \/ execute =>
          /\ IsPrefix(stk, stk')
          /\ ret' # "none" => Len(stk') <= Len(stk) + 1
     /\ \A n \in Counts, r \in NRets :
          Len(stk) > n /\ pcall(n, r) => IsPrefix(Lowered(stk, n + 1), stk')
     /\ \A args \in ArgLists, r \in NRets :
          callablePcall(args, r) => IsPrefix(stk, stk') /\ (ret' = "message" => stk' = stk)]_vars

\* A call of one result that comes back leaves one value more ("Function did not push
\* expected number of return values").
CallGivesItsResults ==
  [][\A args \in ArgLists :
       callableCall(args, 1) /\ ret' \notin {"escaped", "undefined"} =>
         Len(stk') = Len(stk) + 1]_vars
=============================================================================
