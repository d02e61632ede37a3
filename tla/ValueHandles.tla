----------------------------- MODULE ValueHandles -----------------------------
(***************************************************************************)
(* What a LuaReference promises its user: a C++ variable that behaves like *)
(* a value.  A variable is dead, or it holds nil, or it holds one Lua      *)
(* object.  For each operation the user calls, op, there is one effect:    *)
(* copying duplicates the content, moving leaves nil behind, nothing       *)
(* changes a variable the operation does not name.  The one surprise is    *)
(* LuaValue's a = a, which loses the content.                              *)
(* Registry slots, free lists and lua_States are absent on purpose: module *)
(* LuaReference is shown to implement this specification with them.        *)
(***************************************************************************)
CONSTANTS
  Handles,  \* C++ variables of a LuaReference type
  Objects,  \* Lua objects (tables, functions, userdata)
  Nil,      \* the value of a reference without an object
  Dead      \* content of a variable outside its lifetime

VARIABLES
  box,  \* what each variable holds
  op    \* the operation called, with its arguments

vars == <<box, op>>

Content == Objects \cup {Nil}

Init ==
  /\ box = [h \in Handles |-> Dead]
  /\ op = <<"none">>

Construct(h, v) ==
  /\ op' = <<"Construct", h, v>>
  /\ box[h] = Dead /\ v \in Content
  /\ box' = [box EXCEPT ![h] = v]

ConstructNone(h) ==
  /\ op' = <<"ConstructNone", h>>
  /\ box[h] = Dead
  /\ box' = [box EXCEPT ![h] = Nil]

CopyConstruct(h, g) ==
  /\ op' = <<"CopyConstruct", h, g>>
  /\ box[h] = Dead /\ box[g] # Dead
  /\ box' = [box EXCEPT ![h] = box[g]]

MoveConstruct(h, g) ==
  /\ op' = <<"MoveConstruct", h, g>>
  /\ box[h] = Dead /\ box[g] # Dead
  /\ box' = [box EXCEPT ![h] = box[g], ![g] = Nil]

CopyAssign(h, g) ==
  /\ op' = <<"CopyAssign", h, g>>
  /\ box[h] # Dead /\ box[g] # Dead
  /\ box' = [box EXCEPT ![h] = box[g]]

\* A reference moved to itself is left with nil.
MoveAssign(h, g) ==
  /\ op' = <<"MoveAssign", h, g>>
  /\ box[h] # Dead /\ box[g] # Dead
  /\ box' = [box EXCEPT ![h] = box[g], ![g] = Nil]

\* A LuaValue assigned to itself loses what it held.
LuaValueAssign(h, g) ==
  /\ op' = <<"LuaValueAssign", h, g>>
  /\ box[h] # Dead /\ box[g] # Dead
  /\ box' = [box EXCEPT ![h] = IF g = h THEN Nil ELSE box[g]]

LuaValueAssignPlain(h) ==
  /\ op' = <<"LuaValueAssignPlain", h>>
  /\ box[h] # Dead
  /\ box' = [box EXCEPT ![h] = Nil]

Destroy(h) ==
  /\ op' = <<"Destroy", h>>
  /\ box[h] # Dead
  /\ box' = [box EXCEPT ![h] = Dead]

ChangeOwnershipTo(h) ==
  /\ op' = <<"ChangeOwnershipTo", h>>
  /\ box[h] # Dead
  /\ UNCHANGED box

Next ==
  \/ \E h \in Handles, v \in Content : Construct(h, v)
  \/ \E h, g \in Handles :
       \/ CopyConstruct(h, g) \/ MoveConstruct(h, g)
       \/ CopyAssign(h, g) \/ MoveAssign(h, g) \/ LuaValueAssign(h, g)
  \/ \E h \in Handles :
       ConstructNone(h) \/ LuaValueAssignPlain(h) \/ Destroy(h) \/ ChangeOwnershipTo(h)

Spec == Init /\ [][Next]_vars
=============================================================================
