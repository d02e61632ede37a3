----------------------------- MODULE LuaReference -----------------------------
(***************************************************************************)
(* arasy::registry::LuaReference, the base of LuaTable, LuaFunction,       *)
(* LuaCFunction and LuaFullUserData: a C++ object that keeps a Lua object  *)
(* alive by owning a slot of the registry table.  The state is             *)
(*   - the integer part of every registry that luaL_ref manages: slot and  *)
(*     freelist, one per tree of lua_States (a main thread and the         *)
(*     coroutines created from it share one registry);                     *)
(*   - the two members of every reference: at (registry.luaInstance) and   *)
(*     id (id_).                                                           *)
(* The history variable op names the operation called last, with its       *)
(* arguments, for ValueHandles to say what that operation should do; no    *)
(* action reads it.                                                        *)
(* luaL_ref and luaL_unref are external; they are modelled as lauxlib 5.4  *)
(* implements them, with the free slots chained through the table itself.  *)
(* Slot i stands for the i-th integer key after the reserved ones.         *)
(***************************************************************************)
EXTENDS Integers, Sequences, FiniteSets

CONSTANTS
  Trees,    \* Lua instances, each with a registry of its own
  States,   \* lua_States: main threads and coroutines
  NoState,  \* luaInstance of a reference outside its lifetime
  TreeOf,   \* the instance a lua_State belongs to
  Objects,  \* Lua objects a reference can hold
  Home,     \* the instance an object was created in
  Nil,      \* the Lua value nil
  Handles,  \* C++ variables of a LuaReference type
  MaxRef    \* bound: slots a registry may grow to

NOREF  == -2   \* LUA_NOREF
REFNIL == -1   \* LUA_REFNIL

ASSUME ConstantsAssumption ==
  /\ NoState \notin States \cup Objects \cup {Nil} \cup Int
  /\ TreeOf \in [States -> Trees]
  /\ Home \in [Objects -> Trees]
  /\ Nil \notin Objects
  /\ Objects \cap Int = {}
  /\ Nil \notin Int
  /\ MaxRef \in Nat

VARIABLES
  slot,      \* slot[t][i]: an object, or the number of the next free slot
  freelist,  \* freelist[t]: first free slot, 0 when there is none
  at,        \* at[h]: registry.luaInstance, NoState while h does not exist
  id,        \* id[h]: id_
  op         \* history: the operation called last

vars == <<slot, freelist, at, id, op>>

Ids == {NOREF, REFNIL} \cup 1..MaxRef

Live == {h \in Handles : at[h] # NoState}
TreeAt(h) == TreeOf[at[h]]
-----------------------------------------------------------------------------
(* The registry as lauxlib manages it. *)

\* lua_rawgeti on the registry: what retrieveRef pushes for reference r.
RefValue(t, r) == IF r \in 1..Len(slot[t]) THEN slot[t][r] ELSE Nil

\* luaL_ref: pops v and returns r.  nil takes no slot; otherwise the first free
\* slot is unchained, and only an empty free list makes the table grow.
LuaRef(t, v, r) ==
  \/ /\ v = Nil
     /\ r = REFNIL
     /\ UNCHANGED <<slot, freelist>>
  \/ /\ v # Nil
     /\ freelist[t] # 0
     /\ r = freelist[t]
     /\ freelist' = [freelist EXCEPT ![t] = slot[t][r]]
     /\ slot' = [slot EXCEPT ![t][r] = v]
  \/ /\ v # Nil
     /\ freelist[t] = 0
     /\ r = Len(slot[t]) + 1
     /\ r <= MaxRef
     /\ slot' = [slot EXCEPT ![t] = Append(@, v)]
     /\ UNCHANGED freelist

\* luaL_unref: a negative reference is ignored, a slot is put first in the chain.
LuaUnref(t, r) ==
  \/ /\ r < 0
     /\ UNCHANGED <<slot, freelist>>
  \/ /\ r >= 0
     /\ slot' = [slot EXCEPT ![t][r] = freelist[t]]
     /\ freelist' = [freelist EXCEPT ![t] = r]

\* retrieveRef: what pushSelf leaves on the stack.
Value(h) == RefValue(TreeAt(h), id[h])
-----------------------------------------------------------------------------
(* The special members of LuaReference. *)

\* LuaReference(L, idx) for a slot of the stack that holds v: makeId, createRef.
Construct(h, s, v) ==
  /\ at[h] = NoState
  /\ at' = [at EXCEPT ![h] = s]
  /\ \E r \in Ids : LuaRef(TreeOf[s], v, r) /\ id' = [id EXCEPT ![h] = r]

\* LuaReference(L) before doRegister, and createRef of an index that is none.
ConstructNone(h, s) ==
  /\ at[h] = NoState
  /\ at' = [at EXCEPT ![h] = s]
  /\ id' = [id EXCEPT ![h] = NOREF]
  /\ UNCHANGED <<slot, freelist>>

\* Variant: a copy that takes over g's identifier instead of cloning the value.
CloneIntoSharing(h, g) ==
  /\ at' = [at EXCEPT ![h] = at[g]]
  /\ id' = [id EXCEPT ![h] = id[g]]
  /\ UNCHANGED <<slot, freelist>>

\* Variant: an assignment that keeps the registry member of h and clones into it.
CloneIntoKeepingOwner(h, g) ==
  /\ at' = [at EXCEPT ![h] = IF h \in Live THEN @ ELSE at[g]]
  /\ \E r \in Ids : LuaRef(TreeOf[at'[h]], Value(g), r) /\ id' = [id EXCEPT ![h] = r]

\* clone(g), after the registry member of h was made a copy of that of g: the
\* same-tree test compares at[g] with itself, and g's value gets a second slot.
CloneInto(h, g) ==
  /\ at' = [at EXCEPT ![h] = at[g]]
  /\ \E r \in Ids : LuaRef(TreeAt(g), Value(g), r) /\ id' = [id EXCEPT ![h] = r]

\* Variants: the old owner keeps the identifier, or is left with 0.
StealIntoSharing(h, g) ==
  /\ at' = [at EXCEPT ![h] = at[g]]
  /\ id' = [id EXCEPT ![h] = id[g]]
  /\ UNCHANGED <<slot, freelist>>

StealIntoZero(h, g) ==
  /\ at' = [at EXCEPT ![h] = at[g]]
  /\ id' = [id EXCEPT ![h] = id[g], ![g] = 0]
  /\ UNCHANGED <<slot, freelist>>

\* Variant: the source is reset before its identifier is taken.
StealIntoAfterReset(h, g) ==
  /\ at' = [at EXCEPT ![h] = at[g]]
  /\ id' = [id EXCEPT ![h] = REFNIL, ![g] = REFNIL]
  /\ UNCHANGED <<slot, freelist>>

\* The new owner takes the identifier, the old one is left with LUA_REFNIL.
StealInto(h, g) ==
  /\ at' = [at EXCEPT ![h] = at[g]]
  /\ id' = [id EXCEPT ![h] = id[g], ![g] = REFNIL]
  /\ UNCHANGED <<slot, freelist>>

CopyConstruct(h, g) == h \notin Live /\ g \in Live /\ CloneInto(h, g)
MoveConstruct(h, g) == h \notin Live /\ g \in Live /\ StealInto(h, g)

\* The assignments overwrite both members and never release the old id_.
CopyAssign(h, g) == h \in Live /\ g \in Live /\ CloneInto(h, g)
MoveAssign(h, g) == h \in Live /\ g \in Live /\ StealInto(h, g)

\* LuaValue::operator= with a value that is no reference, built over the living
\* variant.  The variable then owns nothing, like a reference with LUA_NOREF, until
\* a reference is assigned to it or it dies.
LuaValueAssignPlain(h) ==
  /\ h \in Live
  /\ id' = [id EXCEPT ![h] = NOREF]
  /\ UNCHANGED <<slot, freelist, at>>

\* The same with a reference.  There is no test for a = a: the new variant starts
\* without a value, over the one it then finds nothing in to copy.
LuaValueAssign(h, g) ==
  /\ h \in Live /\ g \in Live
  /\ \/ g # h /\ CloneInto(h, g)
     \/ g = h /\ LuaValueAssignPlain(h)

\* Variant: a destructor that does not release the slot.
DestroyUnreleased(h) ==
  /\ h \in Live
  /\ at' = [at EXCEPT ![h] = NoState]
  /\ id' = [id EXCEPT ![h] = NOREF]
  /\ UNCHANGED <<slot, freelist>>

Destroy(h) ==
  /\ h \in Live
  /\ LuaUnref(TreeAt(h), id[h])
  /\ at' = [at EXCEPT ![h] = NoState]
  /\ id' = [id EXCEPT ![h] = NOREF]

\* changeOwnershipTo(L) tests nothing: it trusts its comment that the threads
\* share a registry.
ChangeOwnershipTo(h, s) ==
  /\ h \in Live
  /\ at' = [at EXCEPT ![h] = s]
  /\ UNCHANGED <<slot, freelist, id>>

\* LuaRegistry::writeKey refuses LuaIntegers, but not the LuaNumber of an integral
\* value, which lua_settable turns into the integer key i.
WriteNumberKey(t, i, v) ==
  /\ i \in 1..Len(slot[t])
  /\ slot' = [slot EXCEPT ![t][i] = v]
  /\ UNCHANGED <<freelist, at, id>>
-----------------------------------------------------------------------------
Init ==
  /\ slot = [t \in Trees |-> <<>>]
  /\ freelist = [t \in Trees |-> 0]
  /\ at = [h \in Handles |-> NoState]
  /\ id = [h \in Handles |-> NOREF]
  /\ op = <<"none">>

\* A stack slot of s holds nil or an object of the instance s belongs to.
StackValues(s) == {o \in Objects : Home[o] = TreeOf[s]} \cup {Nil}

SpecialMembers ==
  \/ \E h \in Handles, s \in States :
       \/ ConstructNone(h, s) /\ op' = <<"ConstructNone", h>>
       \/ \E v \in StackValues(s) : Construct(h, s, v) /\ op' = <<"Construct", h, v>>
  \/ \E h, g \in Handles :
       \/ CopyConstruct(h, g) /\ op' = <<"CopyConstruct", h, g>>
       \/ MoveConstruct(h, g) /\ op' = <<"MoveConstruct", h, g>>
       \/ CopyAssign(h, g) /\ op' = <<"CopyAssign", h, g>>
       \/ MoveAssign(h, g) /\ op' = <<"MoveAssign", h, g>>
       \/ LuaValueAssign(h, g) /\ op' = <<"LuaValueAssign", h, g>>
  \/ \E h \in Handles :
       \/ LuaValueAssignPlain(h) /\ op' = <<"LuaValueAssignPlain", h>>
       \/ Destroy(h) /\ op' = <<"Destroy", h>>

\* Callers that keep to the comment of changeOwnershipTo.
Next ==
  \/ SpecialMembers
  \/ \E h \in Live, s \in States :
       /\ TreeOf[s] = TreeAt(h) /\ ChangeOwnershipTo(h, s)
       /\ op' = <<"ChangeOwnershipTo", h>>

\* Callers that write to the registry under numbers, too.
NextNumberKeys ==
  \/ SpecialMembers
  \/ \E t \in Trees, i \in 1..MaxRef, v \in Objects :
       /\ Home[v] = t /\ WriteNumberKey(t, i, v)
       /\ op' = <<"WriteNumberKey", i, v>>

Spec == Init /\ [][Next]_vars
SpecNumberKeys == Init /\ [][NextNumberKeys]_vars
-----------------------------------------------------------------------------
(* Properties. *)

TypeOK ==
  /\ slot \in [Trees -> Seq(Objects \cup 0..MaxRef)]
  /\ \A t \in Trees : Len(slot[t]) <= MaxRef
  /\ freelist \in [Trees -> 0..MaxRef]
  /\ at \in [Handles -> States \cup {NoState}]
  /\ id \in [Handles -> Ids]

FreeSlots(t) == {i \in 1..Len(slot[t]) : slot[t][i] \in Int}
UsedSlots(t) == 1..Len(slot[t]) \ FreeSlots(t)
OwnedSlots(t) == {id[h] : h \in {g \in Live : TreeAt(g) = t}} \cap 1..MaxRef
LeakedSlots(t) == UsedSlots(t) \ OwnedSlots(t)

(* No reference outlives its slot: the slot of every living reference is in   *)
(* use, never one luaL_unref has put back (~LuaReference, the assignments).   *)
NoDanglingReference ==
  \A h \in Live : id[h] > 0 => id[h] \in UsedSlots(TreeAt(h))

(* Two living references never own the same slot, so no destructor releases a *)
(* slot another reference still uses (copies clone, moves reset the source).  *)
ExclusiveOwnership ==
  \A h, g \in Live :
    h # g /\ TreeAt(h) = TreeAt(g) /\ id[h] = id[g] => id[h] < 0

\* The k-th free slot luaL_ref would hand out, 0 past the end of the chain.
FreeChain(t) ==
  LET walk[k \in 0..MaxRef] ==
        IF k = 0 THEN freelist[t]
        ELSE IF walk[k-1] = 0 THEN 0 ELSE slot[t][walk[k-1]]
  IN  walk

(* The chain luaL_ref allocates from holds exactly the released slots, each   *)
(* once: a slot released twice would close it to a cycle, a slot overwritten  *)
(* while free would cut it.                                                   *)
FreeChainIntact ==
  \A t \in Trees :
    LET n == Cardinality(FreeSlots(t))
    IN  /\ {FreeChain(t)[k] : k \in 0..n-1} = FreeSlots(t)
        /\ FreeChain(t)[n] = 0

(* Every reference keeps to the instance its object was created in, whatever  *)
(* is assigned to it: pushOnto may trust registry.luaInstance for the value.  *)
ValuesStayHome ==
  \A h \in Live : Value(h) # Nil => Value(h) \in Objects /\ Home[Value(h)] = TreeAt(h)

(* A slot is lost only when its owner survives the step owning something      *)
(* else: the assignments leak, the constructors, the destructor and           *)
(* changeOwnershipTo do not.                                                  *)
LeaksOnlyByAssignment ==
  [][\A t \in Trees : \A i \in LeakedSlots(t)' \ LeakedSlots(t) :
       \E h \in Live \cap Live' : /\ <<TreeAt(h), id[h]>> = <<t, i>>
                                 /\ <<TreeAt(h), id[h]>>' # <<t, i>>]_vars

(* A lost slot is lost for good and pins the object it held: no later         *)
(* operation releases it, reuses it or overwrites it.                         *)
LeakedSlotsStayPinned ==
  [][\A t \in Trees : \A i \in LeakedSlots(t) :
       i \in LeakedSlots(t)' /\ slot'[t][i] = slot[t][i]]_vars

(* types.hpp calls LuaValues safely copiable without additional allocations:  *)
(* no assignment of one leaves a registry slot behind that nothing owns.      *)
SafelyCopiable == \A t \in Trees : LeakedSlots(t) = {}

(* Integer keys are "reserved for luaL_ref" (registry.hpp): a reference that   *)
(* is left alone keeps its value.                                             *)
ReservedForLuaRef ==
  [][\A h \in Live \cap Live' :
       <<TreeAt(h), id[h]>>' = <<TreeAt(h), id[h]>> => Value(h)' = Value(h)]_vars

\* What each reference denotes, seen as a plain value variable.
Contents == [h \in Handles |-> IF at[h] = NoState THEN NoState ELSE Value(h)]

Handle == INSTANCE ValueHandles WITH Dead <- NoState, box <- Contents

(* LuaReference implements ValueHandles: through slots that are shared,       *)
(* recycled and leaked, each special member does to what the references       *)
(* denote what it does to plain values, and so a reference denotes what was   *)
(* last put into it.                                                          *)
ImplementsValueHandles == Handle!Spec
=============================================================================
