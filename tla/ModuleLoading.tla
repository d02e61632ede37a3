----------------------------- MODULE ModuleLoading -----------------------------
(***************************************************************************)
(* LuaRegistry::loadModule and the Module it builds.  The constructor of a *)
(* module is code of the user's: it runs in the middle of loadModule, with *)
(* four values of loadModule on the stack it shares, and may push and pop, *)
(* run scripts, load modules itself, throw, and catch what those throw.    *)
(***************************************************************************)
EXTENDS Integers, Sequences, SequencesExt

CONSTANTS
  Names,       \* module names
  MaxModules,  \* bound: modules made
  MaxStack,    \* bound: values on the stack
  MaxOwn,      \* bound: those of them that constructors and the client have pushed
  WithField,   \* bound: the modules whose Field is worked with
  Plain,       \* a value that is no table, on the stack or in a field
  Table,       \* a table of a constructor's or the client's own
  Package, Loaded,  \* the table "package" and its field "loaded"
  Scripted,    \* what a script puts into package.loaded
  NoRef, Nil

\* Modules in the order they are made.  A module stands for its userdata on the stack
\* and in the registry, and for its table of members in package.loaded.
Modules == 1..MaxModules

ASSUME ModuleAssumption ==
  /\ MaxModules \in Nat /\ WithField \subseteq Modules
  /\ Modules \cap {Plain, Table, Package, Loaded, Scripted, NoRef, Nil} = {}
  /\ {Plain, Table} \cap {Package, Loaded} = {} /\ Plain # Table /\ Package # Loaded

VARIABLES
  stk,     \* the stack, the last value on top
  loaded,  \* package.loaded
  calls,   \* the calls of loadModule that have not returned, the innermost last
  mod,     \* mod[m]: what has become of module m
  ref,     \* ref[m]: the value in the registry slot of m's ref_
  field,   \* field[m]: what m's members have under the name of a Field of m
  cache,   \* cache[m]: the cachedValue_ of that Field
  behind,  \* behind[m]: whether a script has written the field since m last used it
  ret      \* how the last call of loadModule ended

vars == <<stk, loaded, calls, mod, ref, field, cache, behind, ret>>

FieldValues == {Plain, Nil}
Own == {Plain, Table}
StackValues == Modules \cup {Package, Loaded} \cup Own
Stages == {"none", "building", "ready", "askew", "released", "failed", "freed"}

Running == calls # <<>>
Current == Last(calls)

\* The values on the stack below those of the code that runs now.
Floor == IF Running THEN Len(Current.below) + 4 ELSE 0
-----------------------------------------------------------------------------
(* LuaRegistry::loadModule. *)

\* Variant: the entry is not looked at.
FreeUnseen(n, overwrite) == TRUE

Free(n, overwrite) == loaded[n] = Nil \/ overwrite

Unborn == {m \in Modules : mod[m] = "none"}

\* Variant: luaL_ref is left to pop the userdata itself.
WorkingUncopied(m) == <<Package, Loaded, m>>

\* package, package.loaded, the userdata and the copy luaL_ref will pop.
Working(m) == <<Package, Loaded, m, m>>

\* The constructor runs on top of these.  Module's own part of it makes the table of members.
BeginLoad(n, overwrite) ==
  /\ Free(n, overwrite)
  /\ \E m \in Unborn :
       /\ \A x \in Unborn : m <= x
       /\ stk' = stk \o Working(m)
       /\ calls' = Append(calls, [name |-> n, overwrite |-> overwrite, mod |-> m, below |-> stk])
       /\ mod' = [mod EXCEPT ![m] = "building"]
  /\ UNCHANGED <<loaded, ref, field, cache, behind, ret>>

RefuseLoad(n, overwrite) ==
  /\ ~Free(n, overwrite)
  /\ ret' = "DUPLICATE_NAME"
  /\ UNCHANGED <<stk, loaded, calls, mod, ref, field, cache, behind>>

\* After a constructor that leaves the stack as it found it m is ready, after another
\* askew.
Built(left) == IF Len(left) = Floor THEN "ready" ELSE "askew"

\* A Lua error unwinds to the protected call around the outermost load.
LuaError ==
  /\ stk' = calls[1].below /\ calls' = <<>> /\ ret' = "error"
  /\ mod' = [m \in Modules |-> IF mod[m] = "building" THEN "failed" ELSE mod[m]]
  /\ UNCHANGED loaded

\* Variant: luaL_ref is not called.
Unreferenced == NoRef

\* What luaL_ref pops and refers to.
Referenced == Last(stk)

\* Variant: as if the members were not on the stack yet.
TargetBelow == stk[Len(stk) - 3]

\* The table lua_setfield finds at -3, with the members in place of what luaL_ref popped.
Target == stk[Len(stk) - 2]

\* The constructor returns.  lua_setfield writes into whatever table it finds, and raises
\* an error over any other value.
EndLoad ==
  /\ Running
  /\ ref' = [ref EXCEPT ![Current.mod] = Referenced]
  /\ IF Target \in {Package, Loaded, Table}
     THEN /\ loaded' = IF Target = Loaded THEN [loaded EXCEPT ![Current.name] = Current.mod]
                       ELSE loaded
          /\ stk' = SubSeq(stk, 1, Len(Current.below))
          /\ calls' = Front(calls) /\ ret' = "none"
          /\ mod' = [mod EXCEPT ![Current.mod] = Built(stk)]
     ELSE LuaError
  /\ UNCHANGED <<field, cache, behind>>

\* The constructor throws: the exception passes through loadModule, which has nothing
\* to clean up with.
ConstructorThrows ==
  /\ Running
  /\ calls' = Front(calls) /\ ret' = "thrown"
  /\ mod' = [mod EXCEPT ![Current.mod] = "failed"]
  /\ UNCHANGED <<stk, loaded, ref, field, cache, behind>>
-----------------------------------------------------------------------------
(* Module and Module::Field. *)

\* The C++ object can be worked with.
Usable(m) == mod[m] \in {"building", "ready", "askew", "released"}

unref(m) ==
  /\ Usable(m)
  /\ ref' = [ref EXCEPT ![m] = NoRef]
  /\ mod' = [mod EXCEPT ![m] = IF @ = "building" THEN @ ELSE "released"]
  /\ UNCHANGED <<stk, loaded, calls, field, cache, behind, ret>>

\* Variant: the cache is left for operator-> to fill.
FieldSetOnly(m, v) ==
  /\ Usable(m)
  /\ field' = [field EXCEPT ![m] = v] /\ behind' = [behind EXCEPT ![m] = FALSE]
  /\ UNCHANGED <<stk, loaded, calls, mod, ref, cache, ret>>

FieldSet(m, v) ==
  /\ Usable(m)
  /\ field' = [field EXCEPT ![m] = v] /\ cache' = [cache EXCEPT ![m] = v]
  /\ behind' = [behind EXCEPT ![m] = FALSE]
  /\ UNCHANGED <<stk, loaded, calls, mod, ref, ret>>

\* Field::operator->.
FieldAccess(m) ==
  /\ Usable(m)
  /\ cache' = [cache EXCEPT ![m] = field[m]] /\ behind' = [behind EXCEPT ![m] = FALSE]
  /\ UNCHANGED <<stk, loaded, calls, mod, ref, field, ret>>
-----------------------------------------------------------------------------
(* The rest of the program: a constructor or the client, scripts, the collector. *)

PushOwn == \E x \in Own : stk' = Append(stk, x)
PopOwn == Len(stk) > Floor /\ Last(stk) \in Own /\ stk' = Front(stk)

\* The caller of a load that threw takes from the stack what it left.
CleanUp == Len(stk) > Floor /\ stk' = SubSeq(stk, 1, Floor)

OwnStack ==
  /\ PushOwn \/ PopOwn \/ CleanUp
  /\ UNCHANGED <<loaded, calls, mod, ref, field, cache, behind, ret>>

ScriptSetsLoaded(n, x) ==
  /\ loaded' = [loaded EXCEPT ![n] = x]
  /\ UNCHANGED <<stk, calls, mod, ref, field, cache, behind, ret>>

\* A script has the members from package.loaded, or kept them from there.
ScriptSetsField(m, v) ==
  /\ mod[m] \in {"ready", "askew", "released", "freed"}
  /\ field' = [field EXCEPT ![m] = v] /\ behind' = [behind EXCEPT ![m] = TRUE]
  /\ UNCHANGED <<stk, loaded, calls, mod, ref, cache, ret>>

\* No value of the stack or the registry leads to the userdata of m.  It has no __gc.
CollectModule(m) ==
  /\ mod[m] \notin {"none", "freed"}
  /\ \A r \in Modules : ref[r] # m
  /\ \A i \in 1..Len(stk) : stk[i] # m
  /\ mod' = [mod EXCEPT ![m] = "freed"]
  /\ UNCHANGED <<stk, loaded, calls, ref, field, cache, behind, ret>>

Init ==
  /\ stk = <<>> /\ calls = <<>> /\ ret = "none"
  /\ loaded = [n \in Names |-> Nil]
  /\ mod = [m \in Modules |-> "none"] /\ ref = [m \in Modules |-> NoRef]
  /\ field = [m \in Modules |-> Nil] /\ cache = [m \in Modules |-> Nil]
  /\ behind = [m \in Modules |-> FALSE]

Next ==
  /\ \/ \E n \in Names, overwrite \in BOOLEAN : BeginLoad(n, overwrite) \/ RefuseLoad(n, overwrite)
     \/ EndLoad
     \/ ConstructorThrows
     \/ \E m \in Modules : unref(m) \/ CollectModule(m)
     \/ \E m \in WithField :
          FieldAccess(m) \/ \E v \in FieldValues : FieldSet(m, v) \/ ScriptSetsField(m, v)
     \/ OwnStack
     \/ \E n \in Names : ScriptSetsLoaded(n, Nil) \/ ScriptSetsLoaded(n, Scripted)
  /\ Len(stk') <= MaxStack
  /\ Cardinality({i \in DOMAIN stk' : stk'[i] \in Own}) <= MaxOwn

Spec == Init /\ [][Next]_vars
-----------------------------------------------------------------------------
(* Properties. *)

TypeOK ==
  /\ stk \in Seq(StackValues)
  /\ calls \in Seq([name : Names, overwrite : BOOLEAN, mod : Modules, below : Seq(StackValues)])
  /\ ret \in {"none", "DUPLICATE_NAME", "thrown", "error"}
  /\ loaded \in [Names -> Modules \cup {Scripted, Nil}]
  /\ mod \in [Modules -> Stages]
  /\ ref \in [Modules -> StackValues \cup {NoRef}]
  /\ field \in [Modules -> FieldValues] /\ cache \in [Modules -> FieldValues]
  /\ behind \in [Modules -> BOOLEAN]
  /\ Len(stk) >= Floor

\* The collector frees no module that is being built, nor one that was, by a
\* constructor that kept the stack even, before its unref: whatever was overwritten,
\* thrown or unwound meanwhile (loadModule's luaL_ref, Module::unref).
InUseIsNotFreed ==
  [][\A m \in Modules : mod[m] \in {"building", "ready"} => mod'[m] # "freed"]_vars

\* The third value from the top is a table the constructor has left there.
TableLeft == Len(stk) >= Floor + 3 /\ stk[Len(stk) - 2] = Table

\* How a call of loadModule ends: what was below its values is on the stack as before.
\* When it throws or fails nothing is bound.  When it answers "none" the stack is as it was
\* and the name is bound to the module, unless the constructor has left a table of its own
\* where lua_setfield looks for package.loaded: then, and only then, nothing is bound.
EndsAllOrNothing ==
  [][Len(calls') < Len(calls) =>
       /\ SubSeq(stk', 1, Len(calls[Len(calls') + 1].below)) = calls[Len(calls') + 1].below
       /\ IF ret' = "none"
          THEN /\ stk' = Current.below
               /\ loaded' = IF TableLeft THEN loaded
                            ELSE [loaded EXCEPT ![Current.name] = Current.mod]
          ELSE loaded' = loaded]_vars

\* A load without overwriteNameConflicts replaces no module but one its own constructor
\* has loaded: the name is looked up before the constructor runs and not again.
EvictsOnlyInner ==
  [][/\ Len(calls') < Len(calls) /\ ret' = "none"
     /\ ~Current.overwrite /\ loaded[Current.name] \in Modules
     => loaded[Current.name] > Current.mod]_vars

\* The cached value of a Field is the value scripts see, unless a script wrote it after
\* the Field's last set or -> (Field::set, Field::operator->).
StaleOnlyByScript == \A m \in Modules : ~behind[m] => cache[m] = field[m]
=============================================================================
