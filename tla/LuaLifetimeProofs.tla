--------------------------- MODULE LuaLifetimeProofs ---------------------------
(***************************************************************************)
(* For any sets of instances, coroutines and variables: no state is used   *)
(* after its end, and every instance is closed by exactly one object.      *)
(***************************************************************************)
EXTENDS LuaLifetime, FiniteSetTheorems, TLAPS

Owner(x) == x.kind = "Lua" /\ x.own

\* An instance is open when the client has an object for closing it.
KeepersOwn ==
  \A i \in Instances :
    /\ i \in open <=> keeper[i] # Nobody
    /\ keeper[i] # Nobody => Owner(obj[keeper[i]]) /\ obj[keeper[i]].on = i

\* No object closes a state behind the client's back.
OwnersKeep ==
  \A o \in Objects : Owner(obj[o]) => obj[o].on \in Instances /\ keeper[obj[o].on] = o

\* A reference of which something is expected is bound to the state its user takes it
\* to depend on, and that state is kept; one that calls its state in the end is such one.
\* What a LuaThread points at is a coroutine.
Sound(x) ==
  /\ x.tie # Nobody => x.kind = "Ref" /\ x.on = x.tie /\ Kept(x.tie)
  /\ x.kind = "Ref" /\ x.own => x.tie # Nobody
  /\ x.kind = "Thread" => x.on \in Threads

ObjectsSound == \A o \in Objects : Sound(obj[o])

HomesOpen == \A c \in Threads : home[c] # Nobody => home[c] \in open

FreshAlive == fresh # Nobody => home[fresh] # Nobody

IInv ==
  /\ TypeOK
  /\ NoFault
  /\ KeepersOwn
  /\ OwnersKeep
  /\ ObjectsSound
  /\ HomesOpen
  /\ FreshAlive
-----------------------------------------------------------------------------
(* Facts about the states a client may count on. *)

\* A state a client counts on is there.
LEMMA KeptExists ==
  ASSUME IInv, NEW s \in LuaStates, Kept(s)
  PROVE  Exists(s)
<1>1. CASE s \in Instances
  BY <1>1 DEF IInv, KeepersOwn, Kept, Exists, Main
<1>2. CASE s \notin Instances
  BY <1>2 DEF IInv, HomesOpen, Kept, Exists, Main, LuaStates
<1> QED BY <1>1, <1>2

\* A call on such a state is no fault.
LEMMA TouchKept ==
  ASSUME IInv, NEW s \in LuaStates, Kept(s), Touch(s)
  PROVE  fault' = fault
BY KeptExists DEF Touch

\* What Kept says of a state is a matter of keeper, home and held alone.
LEMMA KeptSame ==
  ASSUME UNCHANGED <<keeper, home, held>>, NEW s, Kept(s)
  PROVE  Kept(s)'
BY DEF Kept

\* The objects of a kind: None is of no kind.
LEMMA LiveObject ==
  ASSUME TypeOK, NEW o \in Objects, Live(o)
  PROVE  obj[o] \in Object /\ obj[o].on \in LuaStates
BY DEF TypeOK, Live, Object

LEMMA KindIsLive ==
  ASSUME TypeOK, NEW o \in Objects, NEW kind \in {"Lua", "Ref", "Thread"}, Is(o, kind)
  PROVE  Live(o)
BY DEF Is, Live, None

\* A step that changes what variables hold, and nothing else: no object that closes an
\* instance is lost or made, and the new references are bound to what they are tied to.
LEMMA ObjectsChange ==
  ASSUME IInv, UNCHANGED <<open, home, held, fault, keeper, fresh>>,
         obj' \in [Objects -> Object \cup {None}],
         \A q \in Objects :
           \/ obj'[q] = obj[q]
           \/ ~Owner(obj[q]) /\ ~Owner(obj'[q]) /\ Sound(obj'[q])
  PROVE  IInv'
<1> USE DEF IInv
<1>1. TypeOK'
  BY DEF TypeOK
<1>2. NoFault'
  BY DEF NoFault
<1>3. KeepersOwn'
  <2> SUFFICES ASSUME NEW i \in Instances, keeper[i] # Nobody
               PROVE  Owner(obj'[keeper[i]]) /\ obj'[keeper[i]].on = i
    BY DEF KeepersOwn, Owner
  <2>1. keeper[i] \in Objects
    BY DEF TypeOK
  <2> QED BY <2>1 DEF KeepersOwn
<1>4. OwnersKeep'
  BY DEF OwnersKeep, Owner
<1>5. ObjectsSound'
  <2> SUFFICES ASSUME NEW q \in Objects PROVE Sound(obj[q])'
    BY DEF ObjectsSound
  <2>1. Sound(obj'[q])
    BY DEF ObjectsSound
  <2> QED BY <2>1, KeptSame DEF Sound
<1>6. HomesOpen' /\ FreshAlive'
  BY DEF HomesOpen, FreshAlive
<1> QED BY <1>1, <1>2, <1>3, <1>4, <1>5, <1>6-----------------------------------------------------------------------------
(* The actions that only change what variables hold. *)

\* A variable takes what makes and loses no owner.
LEMMA ObjectReplaced ==
  ASSUME IInv, UNCHANGED <<open, home, held, fault, keeper, fresh>>,
         NEW o \in Objects, ~Owner(obj[o]),
         NEW x \in Object \cup {None}, ~Owner(x), Sound(x),
         obj' = [obj EXCEPT ![o] = x]
  PROVE  IInv'
<1>1. obj' \in [Objects -> Object \cup {None}]
  BY DEF IInv, TypeOK
<1>2. \A q \in Objects : obj'[q] = obj[q] \/ (q = o /\ obj'[q] = x)
  BY DEF IInv, TypeOK
<1> QED BY <1>1, <1>2, ObjectsChange

\* None owns nothing and expects nothing.
LEMMA NoneSound == ~Owner(None) /\ Sound(None)
BY DEF Owner, Sound, None

\* The same for a variable that held nothing.
LEMMA ObjectPut ==
  ASSUME IInv, UNCHANGED <<open, home, held, fault, keeper, fresh>>,
         NEW o \in Objects, NEW x \in Object, ~Owner(x), Sound(x), Put(o, x)
  PROVE  IInv'
BY ObjectReplaced, NoneSound DEF Put, Live

LEMMA WrapLuaSound ==
  ASSUME IInv, NEW o \in Objects, NEW s \in LuaStates, WrapLua(o, s)
  PROVE  IInv'
<1>1. LuaOn(s, TRUE) \in Object
  BY DEF LuaOn, Object
<1>2. ~Owner(LuaOn(s, TRUE)) /\ Sound(LuaOn(s, TRUE))
  BY DEF LuaOn, Owner, Sound
<1> QED BY <1>1, <1>2, ObjectPut DEF WrapLua

LEMMA CopyLuaSound ==
  ASSUME IInv, NEW o \in Objects, NEW p \in Objects, CopyLua(o, p)
  PROVE  IInv'
<1>1. obj[p].on \in LuaStates
  BY LiveObject, KindIsLive DEF CopyLua, IInv
<1>2. LuaOn(obj[p].on, TRUE) \in Object
  BY <1>1 DEF LuaOn, Object
<1>3. ~Owner(LuaOn(obj[p].on, TRUE)) /\ Sound(LuaOn(obj[p].on, TRUE))
  BY DEF LuaOn, Owner, Sound
<1> QED BY <1>2, <1>3, ObjectPut DEF CopyLua

\* A Lua that closes no instance owns none, so that its move hands over nothing.
LEMMA MoveLuaSound ==
  ASSUME IInv, NEW o \in Objects, NEW p \in Objects,
         \A i \in Instances : keeper[i] # p, MoveLua(o, p)
  PROVE  IInv'
<1>1. ~obj[p].own
  BY DEF IInv, OwnersKeep, Owner, MoveLua, Is
<1>2. obj[p].on \in LuaStates
  BY LiveObject, KindIsLive DEF MoveLua, IInv
<1> DEFINE x == LuaOn(obj[p].on, ~obj[p].own)
<1>3. x \in Object
  BY <1>1, <1>2 DEF LuaOn, Object
<1>4. ~Owner(x) /\ Sound(x)
  BY <1>1 DEF LuaOn, Owner, Sound
<1>5. keeper' = keeper
  BY DEF MoveLua, IInv, TypeOK
<1> QED BY <1>3, <1>4, <1>5, ObjectPut DEF MoveLua

LEMMA ReadThreadSound ==
  ASSUME IInv, NEW o \in Objects, NEW c \in Threads, NEW i \in Instances, ReadThread(o, c, i)
  PROVE  IInv'
<1>1. ThreadOf(c) \in Object
  BY DEF ThreadOf, Object, LuaStates
<1>2. ~Owner(ThreadOf(c)) /\ Sound(ThreadOf(c))
  BY DEF ThreadOf, Owner, Sound
<1> QED BY <1>1, <1>2, ObjectPut DEF ReadThread

LEMMA CopyThreadSound ==
  ASSUME IInv, NEW o \in Objects, NEW p \in Objects, CopyThread(o, p)
  PROVE  IInv'
<1>1. obj[p] \in Object
  BY LiveObject, KindIsLive DEF CopyThread, IInv
<1>2. ~Owner(obj[p]) /\ Sound(obj[p])
  BY DEF CopyThread, Is, Owner, IInv, ObjectsSound
<1> QED BY <1>1, <1>2, ObjectPut DEF CopyThread

LEMMA DropThreadSound ==
  ASSUME IInv, NEW o \in Objects, DropThread(o)
  PROVE  IInv'
<1>1. ~Owner(obj[o])
  BY DEF DropThread, Is, Owner
<1> QED BY <1>1, NoneSound, ObjectReplaced DEF DropThread

LEMMA MakeRefSound ==
  ASSUME IInv, NEW o \in Objects, NEW s \in LuaStates, Kept(s), MakeRef(o, s)
  PROVE  IInv'
<1>1. fault' = fault
  BY TouchKept DEF MakeRef
<1>2. RefOn(s, TRUE, s) \in Object
  BY DEF RefOn, Object
<1>3. ~Owner(RefOn(s, TRUE, s)) /\ Sound(RefOn(s, TRUE, s))
  BY LifetimeAssumption DEF RefOn, Owner, Sound, LuaStates
<1> QED BY <1>1, <1>2, <1>3, ObjectPut DEF MakeRef

\* A reference of which something is expected is bound to a kept state.
LEMMA GoodIsBound ==
  ASSUME IInv, NEW p \in Objects, Good(p)
  PROVE  /\ obj[p] \in Object /\ obj[p].on = obj[p].tie /\ obj[p].on \in LuaStates
         /\ Kept(obj[p].on)
         /\ ~Owner(obj[p]) /\ Sound(obj[p])
<1>1. obj[p] \in Object /\ obj[p].on \in LuaStates
  BY LiveObject, KindIsLive DEF Good, IInv
<1>2. Sound(obj[p])
  BY DEF IInv, ObjectsSound
<1> QED BY <1>1, <1>2 DEF Sound, Good, Is, Owner

LEMMA CopyRefSound ==
  ASSUME IInv, NEW o \in Objects, NEW p \in Objects, Good(p), CopyRef(o, p)
  PROVE  IInv'
<1>1. fault' = fault
  BY TouchKept, GoodIsBound DEF CopyRef
<1> DEFINE x == RefOn(obj[p].on, obj[p].own, obj[p].tie)
<1>2. x \in Object
  BY GoodIsBound DEF RefOn, Object
<1>3. ~Owner(x) /\ Sound(x)
  BY GoodIsBound DEF RefOn, Owner, Sound, Good
<1> QED BY <1>1, <1>2, <1>3, ObjectPut DEF CopyRef

\* What a move takes leaves a reference of which nothing is expected.
LEMMA MovedFromIsSound ==
  ASSUME IInv, NEW p \in Objects, Good(p)
  PROVE  /\ MovedFrom(obj[p]) \in Object
         /\ ~Owner(MovedFrom(obj[p])) /\ Sound(MovedFrom(obj[p]))
<1>1. obj[p] \in Object
  BY GoodIsBound
<1> QED BY <1>1 DEF MovedFrom, Object, Owner, Sound, Good, Is

LEMMA MoveSound ==
  ASSUME IInv, UNCHANGED <<open, home, held, fault, keeper, fresh>>,
         NEW o \in Objects, NEW p \in Objects, Good(p), o # p, ~Owner(obj[o]),
         obj' = [obj EXCEPT ![o] = obj[p], ![p] = MovedFrom(@)]
  PROVE  IInv'
<1>1. obj' \in [Objects -> Object \cup {None}]
  BY GoodIsBound, MovedFromIsSound DEF IInv, TypeOK
<1>2. \A q \in Objects : \/ obj'[q] = obj[q]
                         \/ q = o /\ obj'[q] = obj[p]
                         \/ q = p /\ obj'[q] = MovedFrom(obj[p])
  BY DEF IInv, TypeOK
<1> QED BY <1>1, <1>2, GoodIsBound, MovedFromIsSound, ObjectsChange

LEMMA MoveRefSound ==
  ASSUME IInv, NEW o \in Objects, NEW p \in Objects, Good(p),
         MoveRef(o, p) \/ MoveAssignRef(o, p)
  PROVE  IInv'
<1>1. CASE MoveRef(o, p)
  <2>1. o # p
    BY <1>1, KindIsLive DEF MoveRef, IInv
  <2> QED BY <1>1, <2>1, MoveSound, NoneSound DEF MoveRef, Live
<1>2. CASE MoveAssignRef(o, p)
  <2>1. ~Owner(obj[o])
    BY <1>2 DEF MoveAssignRef, Is, Owner
  <2> QED BY <1>2, <2>1, MoveSound DEF MoveAssignRef
<1> QED BY <1>1, <1>2

LEMMA AssignRefSound ==
  ASSUME IInv, NEW o \in Objects, NEW p \in Objects, Good(p), AssignRef(o, p)
  PROVE  IInv'
<1>1. fault' = fault
  BY TouchKept, GoodIsBound DEF AssignRef
<1>2. ~Owner(obj[o])
  BY DEF AssignRef, Is, Owner
<1> QED BY <1>1, <1>2, GoodIsBound, ObjectReplaced DEF AssignRef

LEMMA ChangeOwnershipSound ==
  ASSUME IInv, NEW o \in Objects, NEW s \in LuaStates, Kept(s), Good(o), ChangeOwnership(o, s)
  PROVE  IInv'
<1> DEFINE x == [obj[o] EXCEPT !.on = s, !.tie = s]
<1>1. obj' = [obj EXCEPT ![o] = x]
  BY DEF ChangeOwnership, IInv, TypeOK
<1>2. x \in Object
  BY GoodIsBound DEF Object
<1>3. x.kind = "Ref" /\ x.on = s /\ x.tie = s
  BY GoodIsBound DEF Object, Good, Is
<1>4. ~Owner(x) /\ Sound(x)
  BY <1>3, LifetimeAssumption DEF Owner, Sound, LuaStates
<1> HIDE DEF x
<1> QED BY <1>1, <1>2, <1>4, GoodIsBound, ObjectReplaced DEF ChangeOwnership

\* A reference that calls its state in the end is tied to it, and the state is kept.
LEMMA DropRefSound ==
  ASSUME IInv, NEW o \in Objects, DropRef(o)
  PROVE  IInv'
<1>1. fault' = fault
  <2>1. CASE obj[o].own
    <3>1. Good(o)
      BY <2>1 DEF DropRef, IInv, ObjectsSound, Sound, Good, Is
    <3> QED BY <2>1, <3>1, TouchKept, GoodIsBound DEF DropRef
  <2>2. CASE ~obj[o].own
    BY <2>2 DEF DropRef
  <2> QED BY <2>1, <2>2
<1>2. ~Owner(obj[o])
  BY DEF DropRef, Is, Owner
<1> QED BY <1>1, <1>2, NoneSound, ObjectReplaced DEF DropRef-----------------------------------------------------------------------------
(* The actions that open, close, make, hold and free states. *)

\* An instance nothing names is kept from here on by the object that made it.
LEMMA NewLuaSound ==
  ASSUME IInv, NEW o \in Objects, NEW i \in Instances, NewLua(o, i)
  PROVE  IInv'
<1> DEFINE x == LuaOn(i, FALSE)
<1>1. x \in Object /\ Owner(x) /\ x.on = i /\ x.tie = Nobody
  BY DEF LuaOn, Object, Owner, LuaStates
<1>2. obj' = [obj EXCEPT ![o] = x] /\ ~Owner(obj[o])
  BY DEF NewLua, Put, Live, None, Owner
<1>3. o # Nobody /\ keeper[i] = Nobody
  BY LifetimeAssumption DEF NewLua, IInv, KeepersOwn
<1> HIDE DEF x
<1>4. TypeOK'
  BY <1>1, <1>2 DEF NewLua, IInv, TypeOK
<1>5. KeepersOwn'
  <2> SUFFICES ASSUME NEW j \in Instances
               PROVE  /\ j \in open' <=> keeper'[j] # Nobody
                      /\ keeper'[j] # Nobody => Owner(obj'[keeper'[j]]) /\ obj'[keeper'[j]].on = j
    BY DEF KeepersOwn, Owner
  <2>1. CASE j = i
    BY <2>1, <1>1, <1>2, <1>3 DEF NewLua, IInv, TypeOK
  <2>2. CASE j # i
    <3>1. keeper'[j] = keeper[j] /\ (j \in open' <=> j \in open)
      BY <2>2 DEF NewLua, IInv, TypeOK
    <3>2. keeper[j] # Nobody => keeper[j] \in Objects /\ keeper[j] # o
      BY <1>2 DEF IInv, TypeOK, KeepersOwn
    <3> QED BY <3>1, <3>2, <1>2 DEF IInv, KeepersOwn, TypeOK
  <2> QED BY <2>1, <2>2
<1>6. OwnersKeep'
  <2> SUFFICES ASSUME NEW q \in Objects, Owner(obj'[q])
               PROVE  obj'[q].on \in Instances /\ keeper'[obj'[q].on] = q
    BY DEF OwnersKeep, Owner
  <2>1. CASE q = o
    BY <2>1, <1>1, <1>2 DEF NewLua, IInv, TypeOK
  <2>2. CASE q # o
    <3>1. obj'[q] = obj[q] /\ obj[q].on # i
      BY <2>2, <1>2 DEF NewLua, IInv, TypeOK
    <3> QED BY <3>1 DEF NewLua, IInv, OwnersKeep, TypeOK
  <2> QED BY <2>1, <2>2
<1>7. \A s \in LuaStates : Kept(s) => Kept(s)'
  BY <1>3 DEF NewLua, Kept, IInv, TypeOK
<1>8. ObjectsSound'
  <2> SUFFICES ASSUME NEW q \in Objects PROVE Sound(obj[q])'
    BY DEF ObjectsSound
  <2>1. CASE q = o
    BY <2>1, <1>1, <1>2 DEF IInv, TypeOK, Sound, Owner
  <2>2. CASE q # o
    <3>1. obj'[q] = obj[q] /\ Sound(obj[q])
      BY <2>2, <1>2 DEF IInv, TypeOK, ObjectsSound
    <3>2. obj[q].tie \in LuaStates \cup {Nobody}
      BY DEF IInv, TypeOK, Object, None
    <3> QED BY <3>1, <3>2, <1>7 DEF Sound
  <2> QED BY <2>1, <2>2
<1>9. NoFault' /\ HomesOpen' /\ FreshAlive'
  BY DEF NewLua, IInv, NoFault, HomesOpen, FreshAlive
<1> QED BY <1>4, <1>5, <1>6, <1>8, <1>9 DEF IInv

\* Its keeper goes when no reference is tied to the instance or to a coroutine of it.
LEMMA DropKeeperSound ==
  ASSUME IInv, NEW o \in Objects, DropLua(o), obj[o].own, fresh = Nobody,
         \A i \in Instances : keeper[i] = o => Tied(i) = {}
  PROVE  IInv'
<1> DEFINE i == obj[o].on
<1>1. i \in Instances /\ keeper[i] = o /\ i \in open
  BY LifetimeAssumption DEF IInv, OwnersKeep, Owner, DropLua, Is, KeepersOwn
<1>2. CloseInstance(i) /\ obj' = [obj EXCEPT ![o] = None] /\ fresh' = fresh
  BY DEF DropLua
<1>3. \A j \in Instances : keeper'[j] = IF j = i THEN Nobody ELSE keeper[j]
  <2> SUFFICES ASSUME NEW j \in Instances, j # i PROVE keeper[j] # o
    BY <1>1 DEF DropLua
  <2> QED BY LifetimeAssumption DEF IInv, KeepersOwn
<1>4. Tied(i) = {}
  BY <1>1
<1> HIDE DEF i
<1>5. TypeOK'
  BY <1>1, <1>2, <1>3 DEF CloseInstance, DropLua, IInv, TypeOK
<1>6. NoFault'
  BY <1>1, <1>2 DEF CloseInstance, IInv, NoFault
<1>7. KeepersOwn'
  <2> SUFFICES ASSUME NEW j \in Instances
               PROVE  /\ j \in open' <=> keeper'[j] # Nobody
                      /\ keeper'[j] # Nobody => Owner(obj'[keeper'[j]]) /\ obj'[keeper'[j]].on = j
    BY DEF KeepersOwn, Owner
  <2>1. CASE j = i
    BY <2>1, <1>2, <1>3 DEF CloseInstance
  <2>2. CASE j # i
    <3>1. keeper'[j] = keeper[j] /\ (j \in open' <=> j \in open)
      BY <2>2, <1>2, <1>3 DEF CloseInstance
    <3>2. keeper[j] # Nobody => keeper[j] \in Objects /\ obj[keeper[j]].on = j
      BY DEF IInv, TypeOK, KeepersOwn
    <3>3. keeper[j] # Nobody => obj'[keeper[j]] = obj[keeper[j]]
      BY <2>2, <3>2, <1>2 DEF i, IInv, TypeOK
    <3> QED BY <3>1, <3>3 DEF IInv, KeepersOwn
  <2> QED BY <2>1, <2>2
<1>8. OwnersKeep'
  <2> SUFFICES ASSUME NEW q \in Objects, Owner(obj'[q])
               PROVE  obj'[q].on \in Instances /\ keeper'[obj'[q].on] = q
    BY DEF OwnersKeep, Owner
  <2>1. q # o /\ obj'[q] = obj[q]
    BY <1>2, NoneSound DEF IInv, TypeOK
  <2>2. obj[q].on \in Instances /\ keeper[obj[q].on] = q
    BY <2>1 DEF IInv, OwnersKeep
  <2> QED BY <2>1, <2>2, <1>1, <1>3
<1>9. \A s \in LuaStates : Kept(s) /\ s # i /\ Main(s) # i => Kept(s)'
  <2> SUFFICES ASSUME NEW s \in LuaStates, Kept(s), s # i, Main(s) # i PROVE Kept(s)'
    OBVIOUS
  <2>1. CASE s \in Instances
    BY <2>1, <1>3 DEF Kept
  <2>2. CASE s \in Threads /\ s \notin Instances
    <3>1. home[s] # i /\ home[s] # Nobody /\ home[s] \in Instances
      BY <2>2 DEF Kept, Main, IInv, TypeOK
    <3>2. home'[s] = home[s] /\ held'[s] = held[s] \ {i}
      BY <2>2, <3>1, <1>2 DEF CloseInstance
    <3> QED BY <2>2, <3>1, <3>2, <1>3 DEF Kept
  <2> QED BY <2>1, <2>2 DEF LuaStates
<1>10. ObjectsSound'
  <2> SUFFICES ASSUME NEW q \in Objects PROVE Sound(obj[q])'
    BY DEF ObjectsSound
  <2>1. CASE q = o
    BY <2>1, <1>2 DEF IInv, TypeOK, Sound, None
  <2>2. CASE q # o
    <3>1. obj'[q] = obj[q] /\ Sound(obj[q])
      BY <2>2, <1>2 DEF IInv, TypeOK, ObjectsSound
    <3>2. obj[q].tie \in LuaStates \cup {Nobody}
      BY DEF IInv, TypeOK, Object, None
    <3>3. obj[q].tie # Nobody => obj[q].tie # i /\ Main(obj[q].tie) # i
      BY <1>4 DEF Tied
    <3> QED BY <3>1, <3>2, <3>3, <1>9 DEF Sound
  <2> QED BY <2>1, <2>2
<1>11. HomesOpen' /\ FreshAlive'
  BY <1>2 DEF CloseInstance, IInv, HomesOpen, FreshAlive
<1> QED BY <1>5, <1>6, <1>7, <1>8, <1>10, <1>11 DEF IInv
\* A Lua that closes nothing just goes.
LEMMA DropLuaSound ==
  ASSUME IInv, NEW o \in Objects, DropLua(o), fresh = Nobody,
         \A i \in Instances : keeper[i] = o => Tied(i) = {}
  PROVE  IInv'
<1>1. CASE obj[o].own
  BY <1>1, DropKeeperSound
<1>2. CASE ~obj[o].own
  <2>1. ~Owner(obj[o])
    BY <1>2 DEF Owner
  <2>2. keeper' = keeper
    BY <2>1, LifetimeAssumption DEF DropLua, IInv, TypeOK, KeepersOwn
  <2> QED BY <1>2, <2>1, <2>2, NoneSound, ObjectReplaced DEF DropLua
<1> QED BY <1>1, <1>2

\* Whatever the client works with is bound to a state it may count on.
LEMMA UseObjectSound ==
  ASSUME IInv, NEW o \in Objects, Live(o), Kept(obj[o].on), UseObject(o)
  PROVE  IInv'
<1>1. fault' = fault
  BY LiveObject, TouchKept DEF UseObject, IInv
<1>2. obj' = obj
  BY DEF UseObject
<1>3. obj' \in [Objects -> Object \cup {None}]
  BY <1>2 DEF IInv, TypeOK
<1> QED BY <1>1, <1>2, <1>3, ObjectsChange DEF UseObject

\* A step that makes, holds or frees coroutines, and leaves those kept that references
\* are tied to.
LEMMA CoroutinesChange ==
  ASSUME IInv, UNCHANGED <<open, keeper, fault>>, TypeOK', HomesOpen', FreshAlive',
         \A s \in LuaStates : Kept(s) /\ Tied(s) # {} => Kept(s)',
         \A q \in Objects : \/ obj'[q] = obj[q]
                            \/ ~Owner(obj[q]) /\ ~Owner(obj'[q]) /\ obj'[q].kind = "Thread"
                               /\ obj'[q].on \in Threads /\ obj'[q].tie = Nobody
  PROVE  IInv'
<1>1. NoFault' /\ OwnersKeep'
  BY DEF IInv, NoFault, OwnersKeep, Owner
<1>2. KeepersOwn'
  <2> SUFFICES ASSUME NEW i \in Instances, keeper[i] # Nobody
               PROVE  Owner(obj'[keeper[i]]) /\ obj'[keeper[i]].on = i
    BY DEF IInv, KeepersOwn, Owner
  <2> QED BY DEF IInv, KeepersOwn, TypeOK
<1>3. ObjectsSound'
  <2> SUFFICES ASSUME NEW q \in Objects PROVE Sound(obj[q])'
    BY DEF ObjectsSound
  <2>1. CASE obj'[q] = obj[q]
    <3>1. Sound(obj[q]) /\ obj[q].tie \in LuaStates \cup {Nobody}
      BY DEF IInv, ObjectsSound, TypeOK, Object, None
    <3>2. obj[q].tie # Nobody => q \in Tied(obj[q].tie)
      BY DEF Tied
    <3> QED BY <2>1, <3>1, <3>2 DEF Sound
  <2>2. CASE obj'[q].kind = "Thread" /\ obj'[q].on \in Threads /\ obj'[q].tie = Nobody
    BY <2>2 DEF Sound
  <2> QED BY <2>1, <2>2
<1> QED BY <1>1, <1>2, <1>3 DEF IInv

LEMMA NewThreadSound ==
  ASSUME IInv, NEW o \in Objects, NEW p \in Objects, NEW c \in Threads,
         Is(p, "Lua"), Kept(obj[p].on), NewThread(o, p, c)
  PROVE  IInv'
<1>1. obj[p].on \in LuaStates
  BY LiveObject, KindIsLive DEF IInv
<1>2. fault' = fault
  BY <1>1, TouchKept DEF NewThread
<1> DEFINE i == Main(obj[p].on)
<1>3. i \in Instances /\ i \in open
  BY <1>1, KeptExists DEF Exists, IInv, TypeOK
<1> HIDE DEF i
<1>4. home' = [home EXCEPT ![c] = i] /\ held' = held /\ fresh' = c /\ home[c] = Nobody
  BY DEF NewThread, i
<1>5. obj' = [obj EXCEPT ![o] = ThreadOf(c)] /\ ~Owner(obj[o])
  BY DEF NewThread, Put, Live, None, Owner
<1>6. ThreadOf(c) \in Object
  BY DEF ThreadOf, Object, LuaStates
<1>7. TypeOK'
  BY <1>3, <1>4, <1>5, <1>6 DEF NewThread, IInv, TypeOK
<1>8. HomesOpen' /\ FreshAlive'
  BY <1>3, <1>4, LifetimeAssumption DEF NewThread, IInv, HomesOpen, FreshAlive, TypeOK
<1>9. \A s \in LuaStates : Kept(s) => Kept(s)'
  <2> SUFFICES ASSUME NEW s \in LuaStates, Kept(s) PROVE Kept(s)'
    OBVIOUS
  <2>1. s \in Instances \/ s # c
    BY <1>4 DEF Kept
  <2>2. s \notin Instances => home'[s] = home[s]
    BY <1>4, <2>1 DEF IInv, TypeOK, LuaStates
  <2> QED BY <2>2, <1>4 DEF NewThread, Kept
<1>10. \A q \in Objects : obj'[q] = obj[q] \/ (q = o /\ obj'[q] = ThreadOf(c))
  BY <1>5 DEF IInv, TypeOK
<1>11. /\ ThreadOf(c).kind = "Thread" /\ ThreadOf(c).on \in Threads /\ ThreadOf(c).tie = Nobody
       /\ ~Owner(ThreadOf(c))
  BY DEF ThreadOf, Owner
<1> QED BY <1>2, <1>5, <1>7, <1>8, <1>9, <1>10, <1>11, CoroutinesChange DEF NewThread

\* Holding a coroutine keeps it.
LEMMA PushThreadSound ==
  ASSUME IInv, NEW o \in Objects, NEW i \in Instances, Exists(obj[o].on),
         obj[o].on \in Threads, PushThread(o, i)
  PROVE  IInv'
<1> DEFINE c == obj[o].on
<1>1. fault' = fault
  BY DEF PushThread, Touch
<1>2. held' = [held EXCEPT ![c] = @ \cup {i}] /\ obj' = obj /\ home' = home
  BY DEF PushThread
<1>3. fresh' \in {fresh, Nobody}
  BY DEF PushThread
<1>4. TypeOK'
  BY <1>2, <1>3 DEF PushThread, IInv, TypeOK
<1>5. HomesOpen' /\ FreshAlive'
  BY <1>2, <1>3 DEF PushThread, IInv, HomesOpen, FreshAlive
<1>6. \A s \in LuaStates : Kept(s) => Kept(s)'
  BY <1>2 DEF PushThread, Kept, IInv, TypeOK, LuaStates
<1> QED BY <1>1, <1>2, <1>4, <1>5, <1>6, CoroutinesChange DEF PushThread

\* What a reference is tied to is not let go of by its own instance.
LEMMA LetGoSound ==
  ASSUME IInv, NEW c \in Threads, NEW i \in Instances, i = home[c] => Tied(c) = {}, LetGo(c, i)
  PROVE  IInv'
<1>1. held' = [held EXCEPT ![c] = @ \ {i}]
  BY DEF LetGo
<1>2. TypeOK'
  BY <1>1 DEF LetGo, IInv, TypeOK
<1>3. HomesOpen' /\ FreshAlive'
  BY DEF LetGo, IInv, HomesOpen, FreshAlive
<1>4. \A s \in LuaStates : Kept(s) /\ Tied(s) # {} => Kept(s)'
  BY <1>1 DEF LetGo, Kept, IInv, TypeOK, LuaStates
<1> QED BY <1>2, <1>3, <1>4, CoroutinesChange DEF LetGo

\* Nor is it collected, since its own instance holds it.
LEMMA CollectThreadSound ==
  ASSUME IInv, fresh = Nobody, NEW c \in Threads, CollectThread(c)
  PROVE  IInv'
<1>1. home' = [home EXCEPT ![c] = Nobody] /\ home[c] \notin held[c]
  BY DEF CollectThread
<1>2. TypeOK'
  BY <1>1 DEF CollectThread, IInv, TypeOK
<1>3. HomesOpen' /\ FreshAlive'
  BY <1>1 DEF CollectThread, IInv, HomesOpen, FreshAlive, TypeOK
<1>4. \A s \in LuaStates : Kept(s) => Kept(s)'
  BY <1>1 DEF CollectThread, Kept, IInv, TypeOK, LuaStates
<1> QED BY <1>2, <1>3, <1>4, CoroutinesChange DEF CollectThread-----------------------------------------------------------------------------
(* The invariant. *)

LEMMA InitSound == Init => IInv
<1> SUFFICES ASSUME Init PROVE IInv
  OBVIOUS
<1>1. TypeOK /\ NoFault /\ HomesOpen /\ FreshAlive
  BY DEF Init, TypeOK, NoFault, HomesOpen, FreshAlive
<1>2. KeepersOwn
  BY DEF Init, KeepersOwn
<1>3. OwnersKeep /\ ObjectsSound
  BY DEF Init, OwnersKeep, ObjectsSound, Owner, Sound, None
<1> QED BY <1>1, <1>2, <1>3 DEF IInv

LEMMA LuaCallsSound ==
  ASSUME IInv, fresh = Nobody, NEW o \in Objects, LuaCalls(o)
  PROVE  IInv'
<1>1. CASE \E i \in Instances : NewLua(o, i)
  BY <1>1, NewLuaSound
<1>2. CASE \E s \in LuaStates : Kept(s) /\ WrapLua(o, s)
  BY <1>2, WrapLuaSound
<1>3. CASE \E p \in Objects : CopyLua(o, p)
  BY <1>3, CopyLuaSound
<1>4. CASE \E p \in Objects : (\A i \in Instances : keeper[i] # p) /\ MoveLua(o, p)
  BY <1>4, MoveLuaSound
<1>5. CASE (\A i \in Instances : keeper[i] = o => Tied(i) = {}) /\ DropLua(o)
  BY <1>5, DropLuaSound
<1>6. CASE Live(o) /\ Kept(obj[o].on) /\ UseObject(o)
  BY <1>6, UseObjectSound
<1> QED BY <1>1, <1>2, <1>3, <1>4, <1>5, <1>6 DEF LuaCalls

LEMMA ThreadCallsSound ==
  ASSUME IInv, NEW o \in Objects, ThreadCalls(o)
  PROVE  IInv'
<1>1. CASE \E p \in Objects, c \in Threads :
             Is(p, "Lua") /\ Kept(obj[p].on) /\ NewThread(o, p, c)
  BY <1>1, NewThreadSound
<1>2. CASE Is(o, "Thread") /\ Kept(obj[o].on) /\ PushThread(o, home[obj[o].on])
  <2>1. obj[o].on \in Threads /\ obj[o].on \in LuaStates
    BY <1>2 DEF IInv, ObjectsSound, Sound, Is, LuaStates
  <2>2. Exists(obj[o].on)
    BY <1>2, <2>1, KeptExists
  <2>3. home[obj[o].on] \in Instances
    BY <1>2, <2>1, LifetimeAssumption DEF Kept, IInv, TypeOK
  <2> QED BY <1>2, <2>1, <2>2, <2>3, PushThreadSound
<1>3. CASE \E c \in Threads, i \in Instances : ReadThread(o, c, i)
  BY <1>3, ReadThreadSound
<1>4. CASE \E p \in Objects : CopyThread(o, p)
  BY <1>4, CopyThreadSound
<1>5. CASE DropThread(o)
  BY <1>5, DropThreadSound
<1> QED BY <1>1, <1>2, <1>3, <1>4, <1>5 DEF ThreadCalls

LEMMA RefCallsSound ==
  ASSUME IInv, NEW o \in Objects, RefCalls(o)
  PROVE  IInv'
<1>1. CASE \E s \in LuaStates : Kept(s) /\ MakeRef(o, s)
  BY <1>1, MakeRefSound
<1>2. CASE \E s \in LuaStates : Kept(s) /\ Good(o) /\ ChangeOwnership(o, s)
  BY <1>2, ChangeOwnershipSound
<1>3. CASE \E p \in Objects : Good(p) /\ CopyRef(o, p)
  BY <1>3, CopyRefSound
<1>4. CASE \E p \in Objects : Good(p) /\ (MoveRef(o, p) \/ MoveAssignRef(o, p))
  BY <1>4, MoveRefSound
<1>5. CASE \E p \in Objects : Good(p) /\ AssignRef(o, p)
  BY <1>5, AssignRefSound
<1>6. CASE DropRef(o)
  BY <1>6, DropRefSound
<1> QED BY <1>1, <1>2, <1>3, <1>4, <1>5, <1>6 DEF RefCalls

LEMMA KeepThreadSound ==
  ASSUME IInv, fresh # Nobody, KeepThread
  PROVE  IInv'
<1>1. PICK o \in Objects : obj[o].on = fresh /\ PushThread(o, home[fresh])
  BY DEF KeepThread
<1>2. fresh \in Threads /\ home[fresh] \in Instances /\ home[fresh] \in open
  BY DEF IInv, TypeOK, FreshAlive, HomesOpen
<1>3. Exists(obj[o].on)
  BY <1>1, <1>2, LifetimeAssumption DEF Exists, Main
<1> QED BY <1>1, <1>2, <1>3, PushThreadSound

LEMMA NextSound == IInv /\ [Next]_vars => IInv'
<1> SUFFICES ASSUME IInv, [Next]_vars PROVE IInv'
  OBVIOUS
<1>1. CASE fresh = Nobody /\ \E o \in Objects : LuaCalls(o)
  BY <1>1, LuaCallsSound
<1>2. CASE \E o \in Objects : ThreadCalls(o) \/ RefCalls(o)
  BY <1>2, ThreadCallsSound, RefCallsSound
<1>3. CASE fresh = Nobody /\ \E c \in Threads : CollectThread(c)
  BY <1>3, CollectThreadSound
<1>4. CASE \E c \in Threads, i \in Instances : (i = home[c] => Tied(c) = {}) /\ LetGo(c, i)
  BY <1>4, LetGoSound
<1>5. CASE fresh # Nobody /\ KeepThread
  BY <1>5, KeepThreadSound
<1>6. CASE UNCHANGED vars
  <2>1. obj' \in [Objects -> Object \cup {None}] /\ \A q \in Objects : obj'[q] = obj[q]
    BY <1>6 DEF vars, IInv, TypeOK
  <2> QED BY <1>6, <2>1, ObjectsChange DEF vars
<1> QED BY <1>1, <1>2, <1>3, <1>4, <1>5, <1>6 DEF Next, Unhurried

THEOREM Invariance == Spec => []IInv
BY InitSound, NextSound, PTL DEF Spec
-----------------------------------------------------------------------------
(* What follows. *)

\* The variables hold what their names say (TypeOK).
THEOREM TypeCorrect == Spec => []TypeOK
<1>1. IInv => TypeOK
  BY DEF IInv
<1> QED BY <1>1, Invariance, PTL

\* No lua_State is closed twice, or called after its end by any object or destructor
\* (Lua::~Lua, LuaReference::~LuaReference), for a client that keeps its rules.
THEOREM NothingAfterTheEnd == Spec => []NoFault
<1>1. IInv => NoFault
  BY DEF IInv
<1> QED BY <1>1, Invariance, PTL

\* Every open instance has exactly one object that closes it, every other none (the
\* constructors of Lua).
THEOREM OneOwnerEach == Spec => []OneOwner
<1>1. ASSUME IInv PROVE OneOwner
  <2> SUFFICES ASSUME NEW i \in Instances
               PROVE  Cardinality({o \in Objects : Is(o, "Lua") /\ obj[o].own /\ obj[o].on = i})
                        = IF i \in open THEN 1 ELSE 0
    BY DEF OneOwner
  <2> DEFINE owners == {o \in Objects : Is(o, "Lua") /\ obj[o].own /\ obj[o].on = i}
  <2>1. CASE i \in open
    <3>1. keeper[i] \in Objects /\ keeper[i] \in owners
      BY <1>1, <2>1 DEF IInv, TypeOK, KeepersOwn, Owner, Is
    <3>2. \A o \in owners : o = keeper[i]
      BY <1>1 DEF IInv, OwnersKeep, Owner, Is
    <3>3. owners = {keeper[i]}
      BY <3>1, <3>2
    <3> QED BY <2>1, <3>3, FS_Singleton
  <2>2. CASE i \notin open
    <3>1. owners = {}
      BY <1>1, <2>2, LifetimeAssumption DEF IInv, OwnersKeep, KeepersOwn, Owner, Is
    <3> QED BY <2>2, <3>1, FS_EmptySet
  <2> QED BY <2>1, <2>2
<1> QED BY <1>1, Invariance, PTL
=============================================================================
