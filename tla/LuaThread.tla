------------------------------- MODULE LuaThread -------------------------------
(***************************************************************************)
(* arasy::core::LuaThread: starting and resuming coroutines, possibly from *)
(* inside a coroutine.  C++ code runs at both ends: the one that resumes,  *)
(* and the C function that is the coroutine's body and yields with         *)
(* Lua::yield or Lua::yieldk.  lua_resume is external and modelled as Lua  *)
(* 5.4 implements it: it takes whatever lies under the arguments of a      *)
(* thread that is at base level for the function to start.                 *)
(***************************************************************************)
EXTENDS Integers, Sequences, FiniteSets, SequencesExt

CONSTANTS
  Main,        \* the main thread
  Coroutines,  \* lua_States of LuaThreads
  Functions,   \* values that can be called
  Plain,       \* values that cannot
  Foreign,     \* the lua_State of another instance
  MaxStack     \* bound: values on all stacks together

Values == Functions \cup Plain
States == {Main} \cup Coroutines

ASSUME ThreadAssumption ==
  /\ Main \notin Coroutines /\ Foreign \notin Coroutines \cup {Main}
  /\ Functions \cap Plain = {}
  /\ MaxStack \in Nat

VARIABLES
  stk,     \* stk[s]: frames of s, the first at base level, the second of its body
  status,  \* status[c]: lua_status: "ok", "yield" or "error"
  goesOn,  \* goesOn[c]: what follows the last yield: "end", "continuation", "script"
  chain,   \* resumes under way, each [co, move]: thread_ and moveRetOver
  ret      \* ResumeResult of the last resume that came back

vars == <<stk, status, goesOn, chain, ret>>

Frame(s) == stk[s][Len(stk[s])]
AtBase(c) == Len(stk[c]) = 1
WithFrame(f, s, q) == [f EXCEPT ![s][Len(f[s])] = q]

Lowered(q, n) == SubSeq(q, 1, Len(q) - n)
Topmost(q, n) == SubSeq(q, Len(q) - n + 1, Len(q))

Active == {chain[i].co : i \in DOMAIN chain}
RunningAfter(ch) == IF ch = <<>> THEN Main ELSE Last(ch).co
Running == RunningAfter(chain)

Error == [kind |-> "error", nret |-> 0]
Thrown == [kind |-> "thrown", nret |-> 0]

\* What a function or an argument is: pushOnto puts a reference on the lua_State it is
\* bound to, and any other value on the coroutine it is passed to.
Passed == [val : Values, at : States \cup {Foreign}]

Pushing(f, a) == WithFrame(f, a.at, Append(f[a.at][Len(f[a.at])], a.val))
PushingAll(f, passed) == IF passed = <<>> THEN f ELSE Pushing(f, passed[1])

\* Variants: the results are counted without the last one; moved unasked.
AnswerOneLess(f, c, L, move, n, kind) ==
  LET q == f[c][Len(f[c])]
      moved == WithFrame(f, c, Lowered(q, n))
  IN  /\ stk' = IF move THEN WithFrame(moved, L, moved[L][Len(moved[L])] \o Topmost(q, n)) ELSE f
      /\ ret' = [kind |-> kind, nret |-> n - 1]

AnswerMovesAlways(f, c, L, move, n, kind) ==
  LET q == f[c][Len(f[c])]
      moved == WithFrame(f, c, Lowered(q, n))
  IN  /\ stk' = WithFrame(moved, L, moved[L][Len(moved[L])] \o Topmost(q, n))
      /\ ret' = [kind |-> kind, nret |-> n]

\* doMoveRet and the Ok it returns: n values on top of c, moved over to L or left.
Answer(f, c, L, move, n, kind) ==
  LET q == f[c][Len(f[c])]
      moved == WithFrame(f, c, Lowered(q, n))
  IN  /\ stk' = IF move THEN WithFrame(moved, L, moved[L][Len(moved[L])] \o Topmost(q, n)) ELSE f
      /\ ret' = [kind |-> kind, nret |-> n]
-----------------------------------------------------------------------------
(* lua_resume of c with n arguments, when f is what the stacks have become. *)

Refusable(f, c, n) ==
  \/ status[c] = "error"
  \/ status[c] = "ok" /\ ~AtBase(c)
  \/ status[c] = "ok" /\ Len(f[c][Len(f[c])]) = n

\* Variant: the arguments of a refused resume stay.
RefusedKeepsArguments(f, c, n) ==
  /\ Refusable(f, c, n)
  /\ stk' = f
  /\ ret' = Error
  /\ UNCHANGED <<status, goesOn, chain>>

\* Running, waiting for another coroutine, without a function, or ended by an error:
\* the arguments make way for a message, which wrapScriptError pops.
Refused(f, c, n) ==
  /\ Refusable(f, c, n)
  /\ stk' = WithFrame(f, c, Lowered(f[c][Len(f[c])], n))
  /\ ret' = Error
  /\ UNCHANGED <<status, goesOn, chain>>

\* Variant: a thread whose body is under way is started again.
StartableAnywhere(c, q, n) == status[c] = "ok" /\ Len(q) > n

Startable(c, q, n) == status[c] = "ok" /\ AtBase(c) /\ Len(q) > n

Begins(f, c, n, move) ==
  LET q == f[c][Len(f[c])]
  IN  /\ Startable(c, q, n) /\ q[Len(q) - n] \in Functions
      /\ stk' = [f EXCEPT ![c] = <<Lowered(q, n + 1), Topmost(q, n)>>]
      /\ chain' = Append(chain, [co |-> c, move |-> move])
      /\ UNCHANGED <<status, goesOn, ret>>

\* "attempt to call": the error kills the thread, its stack stays as it is.
CallsNoFunction(f, c, n) ==
  LET q == f[c][Len(f[c])]
  IN  /\ Startable(c, q, n) /\ q[Len(q) - n] \notin Functions
      /\ stk' = f
      /\ status' = [status EXCEPT ![c] = "error"]
      /\ ret' = Error
      /\ UNCHANGED <<goesOn, chain>>

\* A continuation finds the whole frame, what the yield left there included; a Lua
\* function gets the arguments as the results of its call.
Continues(f, c, n, move) ==
  LET q == f[c][Len(f[c])]
  IN  /\ status[c] = "yield" /\ goesOn[c] # "end"
      /\ stk' = WithFrame(f, c, IF goesOn[c] = "continuation" THEN q ELSE Topmost(q, n))
      /\ status' = [status EXCEPT ![c] = "ok"]
      /\ chain' = Append(chain, [co |-> c, move |-> move])
      /\ UNCHANGED <<goesOn, ret>>

\* A C function that yielded without a continuation returns the arguments.  lua_resume
\* counts all that lies at base level as results.
RunsToEnd(f, c, n, move) ==
  /\ status[c] = "yield" /\ goesOn[c] = "end"
  /\ LET base == f[c][1] \o Topmost(f[c][Len(f[c])], n)
     IN  Answer([f EXCEPT ![c] = <<base>>], c, Running, move, Len(base), "done")
  /\ status' = [status EXCEPT ![c] = "ok"]
  /\ UNCHANGED <<goesOn, chain>>

\* lua_resume is told how many arguments there are, wherever pushOnto has put them.  With
\* fewer values than that on the coroutine it is undefined what it does.
LuaResume(f, c, n, move) ==
  /\ Len(f[c][Len(f[c])]) >= n
  /\ \/ Refused(f, c, n) \/ Begins(f, c, n, move) \/ CallsNoFunction(f, c, n)
     \/ Continues(f, c, n, move) \/ RunsToEnd(f, c, n, move)
-----------------------------------------------------------------------------
(* LuaThread, called by the running code with its own lua_State for L. *)

Mixed(passed) == passed # <<>> /\ passed[1].at = Foreign

\* pushOnto of something bound in another instance: what is pushed already stays.
Throws(f) == stk' = f /\ ret' = Thrown /\ UNCHANGED <<status, goesOn, chain>>

\* start with a function, resume without.
ResumeWith(c, function, args, move) ==
  \/ Mixed(function) /\ Throws(stk)
  \/ ~Mixed(function) /\ Mixed(args) /\ Throws(PushingAll(stk, function))
  \/ /\ ~Mixed(function) /\ ~Mixed(args)
     /\ LuaResume(PushingAll(PushingAll(stk, function), args), c, Len(args), move)

Resume(c, args, move) == ResumeWith(c, <<>>, args, move)
Start(c, f, args, move) == ResumeWith(c, <<f>>, args, move)
-----------------------------------------------------------------------------
(* The body of the running coroutine: it gives back n values or fails. *)

Resumption == Last(chain)
Resumer == RunningAfter(Front(chain))

Yield(n, next) ==
  /\ chain # <<>> /\ n <= Len(Frame(Running))
  /\ Answer(stk, Running, Resumer, Resumption.move, n, "yield")
  /\ status' = [status EXCEPT ![Running] = "yield"]
  /\ goesOn' = [goesOn EXCEPT ![Running] = next]
  /\ chain' = Front(chain)

Return(n) ==
  /\ chain # <<>> /\ n <= Len(Frame(Running))
  /\ LET base == stk[Running][1] \o Topmost(Frame(Running), n)
     IN  Answer([stk EXCEPT ![Running] = <<base>>], Running, Resumer, Resumption.move,
                Len(base), "done")
  /\ chain' = Front(chain)
  /\ UNCHANGED <<status, goesOn>>

\* Variant: the failed coroutine passes for one that goes on.
RaiseUnmarked ==
  /\ chain # <<>>
  /\ chain' = Front(chain)
  /\ ret' = Error
  /\ UNCHANGED <<stk, status, goesOn>>

\* lua_error: the frames of a coroutine are not unwound, and the error object comes on top
\* of them.
RaiseWith(left, how) ==
  /\ chain # <<>>
  /\ stk' = WithFrame(stk, Running, Frame(Running) \o left)
  /\ status' = [status EXCEPT ![Running] = "error"]
  /\ chain' = Front(chain)
  /\ ret' = how
  /\ UNCHANGED goesOn

\* wrapScriptError pops a message, makes no string of an object that is no text, and leaves
\* the message of memory that has run out.
Raise ==
  \/ RaiseWith(<<>>, Error)
  \/ \E v \in Values : RaiseWith(<<v>>, Thrown)
  \/ \E v \in Plain : RaiseWith(<<v>>, Error)

\* The running code works on its own stack,
Push(v) ==
  /\ stk' = WithFrame(stk, Running, Append(Frame(Running), v))
  /\ UNCHANGED <<status, goesOn, chain, ret>>

\* and takes what was left on the stack of a coroutine that does not run.
PopFrom(s) ==
  /\ s \notin Active \cup {Main} \/ s = Running
  /\ Frame(s) # <<>>
  /\ stk' = WithFrame(stk, s, Front(Frame(s)))
  /\ UNCHANGED <<status, goesOn, chain, ret>>
-----------------------------------------------------------------------------
Init ==
  /\ stk = [s \in States |-> << <<>> >>]
  /\ status = [c \in Coroutines |-> "ok"]
  /\ goesOn = [c \in Coroutines |-> "end"]
  /\ chain = <<>>
  /\ ret = [kind |-> "none", nret |-> 0]

\* Bound on what the code leaves on the stacks.
Left == UNION {{s} \X UNION {{i} \X DOMAIN stk[s][i] : i \in DOMAIN stk[s]} : s \in States}

WithinBounds == Cardinality(Left') <= MaxStack

\* Bound on the arguments of one call: none or one.
ArgLists == {<<>>} \cup {<<a>> : a \in Passed}
FunctionsPassed == {a \in Passed : a.val \in Functions}

Bodies ==
  \/ \E n \in 0..MaxStack :
       Return(n) \/ \E next \in {"end", "continuation", "script"} : Yield(n, next)
  \/ Raise
  \/ \E v \in Values : Push(v)
  \/ \E s \in States : PopFrom(s)

Next ==
  /\ \/ Bodies
     \/ \E c \in Coroutines, move \in BOOLEAN, args \in ArgLists :
          \/ Resume(c, args, move)
          \/ \E f \in FunctionsPassed : Start(c, f, args, move)
  /\ WithinBounds

Spec == Init /\ [][Next]_vars

-----------------------------------------------------------------------------
(* Properties. *)

TypeOK ==
  /\ stk \in [States -> Seq(Seq(Values))]
  /\ \A c \in Coroutines : Len(stk[c]) \in {1, 2}
  /\ AtBase(Main)
  /\ status \in [Coroutines -> {"ok", "yield", "error"}]
  /\ goesOn \in [Coroutines -> {"end", "continuation", "script"}]
  /\ chain \in Seq([co : Coroutines, move : BOOLEAN])
  /\ ret \in [kind : {"none", "yield", "done", "error", "thrown"}, nret : Nat]

\* A coroutine has a body under way exactly while a resume of it is, however the
\* resumes are nested, and it is resumed once at a time.
OneResumeEach ==
  /\ \A i, j \in DOMAIN chain : chain[i].co = chain[j].co => i = j
  /\ Active = {c \in Coroutines : status[c] = "ok" /\ ~AtBase(c)}

\* The values of a list that are put on s.
Arriving(s, passed) == IF passed # <<>> /\ passed[1].at = s THEN <<passed[1].val>> ELSE <<>>

\* Code that waits for a resume to come back finds its stack as it left it, whatever
\* is done to and by other coroutines meanwhile, with two exceptions: what is bound to its
\* lua_State comes to lie there when it is passed to a coroutine, any coroutine
\* (LuaReference::pushOnto), and a call to start or resume the waiting coroutine itself,
\* which is refused, takes as many values from it as the call has arguments and leaves the
\* function (LuaThread::start).
WaitersUndisturbed ==
  [][\A s \in Active \cup {Main} : s \notin {Running, Running'} =>
       \/ stk'[s] = stk[s]
       \/ \E c \in Coroutines, move \in BOOLEAN, args \in ArgLists,
             function \in {<<>>} \cup {<<f>> : f \in FunctionsPassed} :
            /\ ResumeWith(c, function, args, move)
            /\ LET q == Frame(s) \o Arriving(s, function) \o Arriving(s, args)
               IN  stk'[s] = [stk[s] EXCEPT ![Len(stk[s])] =
                     IF s = c /\ ret' = Error THEN Lowered(q, Len(args)) ELSE q]]_vars

\* A resume that comes back reports the number of values the body gave, and moves
\* those values, in their order, on top of the stack of the caller
\* (ResumeResult::nret, doMoveRet).  What lay under the function when it was
\* started is given again when it returns.
GivenIsReceived ==
  [][\A n \in 0..MaxStack, L \in {Resumer} :
       LET finishes == Return(n)
           given == (IF finishes THEN stk[Running][1] ELSE <<>>) \o Topmost(Frame(Running), n)
       IN  finishes \/ (\E next \in {"end", "continuation", "script"} : Yield(n, next)) =>
             /\ ret'.nret = Len(given)
             /\ Frame(L)' = Frame(L) \o (IF Resumption.move THEN given ELSE <<>>)]_vars

\* Whatever is left on their stacks, coroutines lead the life Coroutine describes.
Phase(c) ==
  CASE c \in Active -> "active"
    [] status[c] = "yield" -> "suspended"
    [] status[c] = "error" -> "failed"
    [] OTHER -> "idle"

Life == INSTANCE Coroutine WITH
  phase <- [c \in Coroutines |-> Phase(c)],
  resumers <- [i \in DOMAIN chain |-> chain[i].co],
  outcome <- ret.kind
ImplementsCoroutine == Life!Spec
=============================================================================
