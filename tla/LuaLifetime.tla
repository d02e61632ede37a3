------------------------------ MODULE LuaLifetime ------------------------------
(***************************************************************************)
(* Whose lua_State it is: core::Lua objects that close their instance,     *)
(* LuaThread objects that point at a coroutine, and LuaReference objects   *)
(* whose destructor calls the lua_State they are bound to, while Lua       *)
(* instances are opened and closed and the collector frees coroutines.     *)
(* The C++ objects are variables of any lifetime: locals, members, elements*)
(* of a container.                                                         *)
(***************************************************************************)
EXTENDS FiniteSets

CONSTANTS
  Instances,  \* Lua instances, each named as its main lua_State
  Threads,    \* coroutines, lua_States too
  Objects,    \* C++ variables of type Lua, LuaReference or LuaThread
  Nobody      \* no state, no object

ASSUME LifetimeAssumption == Instances \cap Threads = {} /\ Nobody \notin Instances \cup Threads \cup Objects

LuaStates == Instances \cup Threads

VARIABLES
  open,    \* the instances between luaL_newstate and lua_close
  home,    \* home[c]: the instance coroutine c was made in, Nobody when there is none
  held,    \* held[c]: the instances whose main stack or globals hold c
  obj,     \* obj[o]: what variable o holds
  fault,   \* the first thing done on a lua_State that is no more
  keeper,  \* keeper[i]: the object the client relies on to close i
  fresh    \* a coroutine created and not yet put on a stack

vars == <<open, home, held, obj, fault, keeper, fresh>>

\* own: the destructor calls the state (a Lua that is not external, a reference with a
\* slot).  tie, for a reference: the state its user takes it to depend on.
Object == [kind : {"Lua", "Ref", "Thread"}, on : LuaStates, own : BOOLEAN,
           tie : LuaStates \cup {Nobody}]
None == [kind |-> "none", on |-> Nobody, own |-> FALSE, tie |-> Nobody]

Live(o) == obj[o] # None
Is(o, kind) == obj[o].kind = kind

Main(s) == IF s \in Instances THEN s ELSE home[s]
Exists(s) == Main(s) \in open

\* A call on the state s.
Touch(s) == fault' = IF Exists(s) THEN fault ELSE "used after its end"

LuaOn(s, external) == [kind |-> "Lua", on |-> s, own |-> ~external, tie |-> Nobody]
RefOn(s, own, tie) == [kind |-> "Ref", on |-> s, own |-> own, tie |-> tie]
ThreadOf(c) == [kind |-> "Thread", on |-> c, own |-> FALSE, tie |-> Nobody]

Put(o, x) == ~Live(o) /\ obj' = [obj EXCEPT ![o] = x]
-----------------------------------------------------------------------------
(* core::Lua. *)

\* An instance that no variable names any more stands for a new one.
NewLua(o, i) ==
  /\ i \notin open /\ \A p \in Objects : obj[p].on # i
  /\ Put(o, LuaOn(i, FALSE))
  /\ open' = open \cup {i} /\ keeper' = [keeper EXCEPT ![i] = o]
  /\ UNCHANGED <<home, held, fault, fresh>>

WrapLua(o, s) ==
  /\ Put(o, LuaOn(s, TRUE))
  /\ UNCHANGED <<open, home, held, fault, keeper, fresh>>

\* Variant: the copy takes over whether it closes the state.
CopyLuaKeepsExternal(o, p) ==
  /\ Is(p, "Lua") /\ Put(o, LuaOn(obj[p].on, ~obj[p].own))
  /\ UNCHANGED <<open, home, held, fault, keeper, fresh>>

CopyLua(o, p) ==
  /\ Is(p, "Lua") /\ Put(o, LuaOn(obj[p].on, TRUE))
  /\ UNCHANGED <<open, home, held, fault, keeper, fresh>>

\* The source keeps external as it was.  Its user relies on the new object from here on.
MoveLua(o, p) ==
  /\ Is(p, "Lua") /\ Put(o, LuaOn(obj[p].on, ~obj[p].own))
  /\ keeper' = [i \in Instances |-> IF keeper[i] = p THEN o ELSE keeper[i]]
  /\ UNCHANGED <<open, home, held, fault, fresh>>

\* lua_close ends the coroutines of the instance with it.
CloseInstance(i) ==
  /\ fault' = IF i \in open THEN fault ELSE "closed twice"
  /\ open' = open \ {i}
  /\ home' = [c \in Threads |-> IF home[c] = i THEN Nobody ELSE home[c]]
  /\ held' = [c \in Threads |-> held[c] \ {i}]

DropLua(o) ==
  /\ Is(o, "Lua")
  /\ IF obj[o].own THEN CloseInstance(obj[o].on) ELSE UNCHANGED <<open, home, held, fault>>
  /\ keeper' = [i \in Instances |-> IF keeper[i] = o THEN Nobody ELSE keeper[i]]
  /\ obj' = [obj EXCEPT ![o] = None]
  /\ UNCHANGED fresh

\* Any call of a Lua, of a reference or of a thread object on the state it is bound to.
UseObject(o) ==
  /\ Live(o) /\ Touch(obj[o].on)
  /\ UNCHANGED <<open, home, held, obj, keeper, fresh>>
-----------------------------------------------------------------------------
(* LuaThread and its coroutine. *)

\* Variant: the coroutine belongs to the lua_State it is made on.
NewThreadOfState(o, p, c) ==
  /\ Is(p, "Lua") /\ Touch(obj[p].on)
  /\ home[c] = Nobody /\ held[c] = {} /\ \A q \in Objects : obj[q].on # c
  /\ Put(o, ThreadOf(c))
  /\ home' = [home EXCEPT ![c] = obj[p].on]
  /\ fresh' = c
  /\ UNCHANGED <<open, held, keeper>>

\* createNewThread: lua_newthread has pushed the coroutine, popStack has popped it.
NewThread(o, p, c) ==
  /\ Is(p, "Lua") /\ Touch(obj[p].on)
  /\ home[c] = Nobody /\ held[c] = {} /\ \A q \in Objects : obj[q].on # c
  /\ Put(o, ThreadOf(c))
  /\ home' = [home EXCEPT ![c] = Main(obj[p].on)]
  /\ fresh' = c
  /\ UNCHANGED <<open, held, keeper>>

\* LuaThread::pushOnto(L) onto the main stack of i, by way of the coroutine's own stack.
PushThread(o, i) ==
  /\ Is(o, "Thread") /\ Touch(obj[o].on)
  /\ held' = [held EXCEPT ![obj[o].on] = @ \cup {i}]
  /\ fresh' = IF fresh = obj[o].on THEN Nobody ELSE fresh
  /\ UNCHANGED <<open, home, obj, keeper>>

\* readStack<LuaThread> on a stack of instance i, or a copy of a LuaThread.
ReadThread(o, c, i) ==
  /\ i \in held[c] /\ Put(o, ThreadOf(c))
  /\ UNCHANGED <<open, home, held, fault, keeper, fresh>>

CopyThread(o, p) ==
  /\ Is(p, "Thread") /\ Put(o, obj[p])
  /\ UNCHANGED <<open, home, held, fault, keeper, fresh>>

DropThread(o) ==
  /\ Is(o, "Thread") /\ obj' = [obj EXCEPT ![o] = None]
  /\ UNCHANGED <<open, home, held, fault, keeper, fresh>>

\* The last value of instance i that holds c is popped or overwritten.
LetGo(c, i) ==
  /\ i \in held[c] /\ held' = [held EXCEPT ![c] = @ \ {i}]
  /\ UNCHANGED <<open, home, obj, fault, keeper, fresh>>

\* The collector of its home frees a coroutine nothing there holds; a LuaThread is
\* not known to it.
CollectThread(c) ==
  /\ home[c] \in open /\ home[c] \notin held[c]
  /\ home' = [home EXCEPT ![c] = Nobody]
  /\ UNCHANGED <<open, held, obj, fault, keeper, fresh>>
-----------------------------------------------------------------------------
(* LuaReference: which state its destructor calls. *)

MakeRef(o, s) ==
  /\ Touch(s) /\ Put(o, RefOn(s, TRUE, s))
  /\ UNCHANGED <<open, home, held, keeper, fresh>>

CopyRef(o, p) ==
  /\ Is(p, "Ref") /\ Touch(obj[p].on)
  /\ Put(o, RefOn(obj[p].on, obj[p].own, obj[p].tie))
  /\ UNCHANGED <<open, home, held, keeper, fresh>>

\* The source is left with REFNIL.
MovedFrom(x) == [x EXCEPT !.own = FALSE, !.tie = Nobody]

MoveRef(o, p) ==
  /\ Is(p, "Ref") /\ ~Live(o)
  /\ obj' = [obj EXCEPT ![o] = obj[p], ![p] = MovedFrom(@)]
  /\ UNCHANGED <<open, home, held, fault, keeper, fresh>>

\* The slot o had is left as it is: no call on the state o was bound to.
AssignRef(o, p) ==
  /\ Is(o, "Ref") /\ Is(p, "Ref") /\ Touch(obj[p].on)
  /\ obj' = [obj EXCEPT ![o] = obj[p]]
  /\ UNCHANGED <<open, home, held, keeper, fresh>>

MoveAssignRef(o, p) ==
  /\ Is(o, "Ref") /\ Is(p, "Ref") /\ o # p
  /\ obj' = [obj EXCEPT ![o] = obj[p], ![p] = MovedFrom(@)]
  /\ UNCHANGED <<open, home, held, fault, keeper, fresh>>

\* Variant: the reference stays bound to the state it was made on.
ChangeOwnershipKeepsState(o, s) ==
  /\ Is(o, "Ref")
  /\ obj' = [obj EXCEPT ![o].tie = s]
  /\ UNCHANGED <<open, home, held, fault, keeper, fresh>>

ChangeOwnership(o, s) ==
  /\ Is(o, "Ref")
  /\ obj' = [obj EXCEPT ![o].on = s, ![o].tie = s]
  /\ UNCHANGED <<open, home, held, fault, keeper, fresh>>

\* luaL_unref does nothing for a negative id.
DropRef(o) ==
  /\ Is(o, "Ref")
  /\ IF obj[o].own THEN Touch(obj[o].on) ELSE UNCHANGED fault
  /\ obj' = [obj EXCEPT ![o] = None]
  /\ UNCHANGED <<open, home, held, keeper, fresh>>
-----------------------------------------------------------------------------
(* The client. *)

Init ==
  /\ open = {} /\ fault = "none" /\ fresh = Nobody
  /\ home = [c \in Threads |-> Nobody] /\ held = [c \in Threads |-> {}]
  /\ obj = [o \in Objects |-> None] /\ keeper = [i \in Instances |-> Nobody]

\* The states the client may count on: an instance it has an object to close it with,
\* and a coroutine that a value of its own instance holds.
Kept(s) ==
  IF s \in Instances THEN keeper[s] # Nobody
  ELSE /\ home[s] # Nobody /\ keeper[home[s]] # Nobody
       /\ home[s] \in held[s]

Tied(s) == {o \in Objects : obj[o].tie # Nobody /\ (obj[o].tie = s \/ Main(obj[o].tie) = s)}

\* A reference of which something is expected, on a state that is there.
Good(o) == Is(o, "Ref") /\ obj[o].tie # Nobody

\* A client that keeps these rules: it works on states it may count on, and with
\* references not moved from; a new coroutine goes on a stack of its instance before
\* anything is allocated there; threads and ownership stay within one instance; and
\* an instance is closed, or a coroutine let go of, when no reference is tied to it.
LuaCalls(o) ==
  \/ \E i \in Instances : NewLua(o, i)
  \/ \E s \in LuaStates : Kept(s) /\ WrapLua(o, s)
  \/ \E p \in Objects :
       \/ CopyLua(o, p)
       \/ (\A i \in Instances : keeper[i] # p) /\ MoveLua(o, p)
  \/ (\A i \in Instances : keeper[i] = o => Tied(i) = {}) /\ DropLua(o)
  \/ Live(o) /\ Kept(obj[o].on) /\ UseObject(o)

ThreadCalls(o) ==
  \/ \E p \in Objects, c \in Threads :
       Is(p, "Lua") /\ Kept(obj[p].on) /\ NewThread(o, p, c)
  \/ Is(o, "Thread") /\ Kept(obj[o].on) /\ PushThread(o, home[obj[o].on])
  \/ \E c \in Threads, i \in Instances : ReadThread(o, c, i)
  \/ \E p \in Objects : CopyThread(o, p)
  \/ DropThread(o)

RefCalls(o) ==
  \/ \E s \in LuaStates :
       /\ Kept(s)
       /\ \/ MakeRef(o, s)
          \/ Good(o) /\ Main(s) = Main(obj[o].tie) /\ ChangeOwnership(o, s)
  \/ \E p \in Objects :
       Good(p) /\ (CopyRef(o, p) \/ MoveRef(o, p) \/ AssignRef(o, p) \/ MoveAssignRef(o, p))
  \/ DropRef(o)

\* What goes on when no coroutine waits to be put on a stack.
Unhurried ==
  \/ \E o \in Objects : LuaCalls(o) \/ ThreadCalls(o) \/ RefCalls(o)
  \/ \E c \in Threads :
       \/ CollectThread(c)
       \/ \E i \in Instances : (i = home[c] => Tied(c) = {}) /\ LetGo(c, i)

KeepThread == \E o \in Objects : obj[o].on = fresh /\ PushThread(o, home[fresh])

Next == (fresh = Nobody /\ Unhurried) \/ (fresh # Nobody /\ KeepThread)

Spec == Init /\ [][Next]_vars
-----------------------------------------------------------------------------
(* A client that keeps less. *)

\* It also moves the Lua object it closes an instance with.
MovingNext == Next \/ (fresh = Nobody /\ \E o, p \in Objects : MoveLua(o, p))

MovingSpec == Init /\ [][MovingNext]_vars
-----------------------------------------------------------------------------
(* Properties. *)

TypeOK ==
  /\ open \subseteq Instances
  /\ home \in [Threads -> Instances \cup {Nobody}]
  /\ held \in [Threads -> SUBSET Instances]
  /\ obj \in [Objects -> Object \cup {None}]
  /\ keeper \in [Instances -> Objects \cup {Nobody}]
  /\ fresh \in Threads \cup {Nobody}

\* No lua_State is closed twice, and nothing, destructors included, is done on one that
\* is closed or collected (Lua::~Lua, LuaReference::~LuaReference, changeOwnershipTo).
NoFault == fault = "none"

\* An instance is open exactly as long as one object that closes it lives: none is
\* leaked, and no two objects close the same one (the Lua constructors).
OneOwner ==
  \A i \in Instances :
    Cardinality({o \in Objects : Is(o, "Lua") /\ obj[o].own /\ obj[o].on = i})
      = IF i \in open THEN 1 ELSE 0

\* "manages the lua_State lifetime according to its own" (class Lua): no lua_close of
\* a state that is closed, whoever else was given the state.
ClosedOnce == fault # "closed twice"
=============================================================================
