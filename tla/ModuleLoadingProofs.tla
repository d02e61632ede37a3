------------------------- MODULE ModuleLoadingProofs -------------------------
(***************************************************************************)
(* For any names and any number of modules: loads end all or nothing, what *)
(* is in use is not collected, a load evicts no module but one its own     *)
(* constructor loaded, and a cached field is stale by a script's hand      *)
(* only.                                                                   *)
(***************************************************************************)
EXTENDS ModuleLoading, TLAPS

Call == [name : Names, overwrite : BOOLEAN, mod : Modules, below : Seq(StackValues)]

\* The stack q is what it was when the call c began, with c's own values on top and
\* whatever came later above them.
Holds(q, c) ==
  /\ Len(q) >= Len(c.below) + 4
  /\ \A k \in 1..Len(c.below) : q[k] = c.below[k]
  /\ q[Len(c.below) + 1] = Package /\ q[Len(c.below) + 2] = Loaded
  /\ q[Len(c.below) + 3] = c.mod /\ q[Len(c.below) + 4] = c.mod

\* A table "package" lies on the stack with all that loadModule put above it, of which a
\* pop takes nothing.
Whole(q) == \A k \in DOMAIN q : q[k] = Package => k + 3 <= Len(q) /\ q[k + 3] \notin Own

CallsHold ==
  /\ Whole(stk)
  /\ \A i \in DOMAIN calls : Holds(stk, calls[i]) /\ Whole(calls[i].below)

CallsNest ==
  \A i, j \in DOMAIN calls :
    i < j => Len(calls[i].below) + 4 <= Len(calls[j].below) /\ calls[i].mod < calls[j].mod

\* The modules being built are those of the calls under way.
Builders ==
  /\ \A i \in DOMAIN calls : mod[calls[i].mod] = "building"
  /\ \A m \in Modules : mod[m] = "building" => \E i \in DOMAIN calls : calls[i].mod = m

MadeInOrder == \A m, x \in Modules : mod[m] = "none" /\ mod[x] # "none" => x < m

ReadyReferenced == \A m \in Modules : mod[m] = "ready" => ref[m] = m

\* The name of a load under way that is not to overwrite anything is taken by later
\* modules only.
TakenByLater ==
  \A i \in DOMAIN calls :
    ~calls[i].overwrite /\ loaded[calls[i].name] \in Modules
      => loaded[calls[i].name] > calls[i].mod

IInv ==
  /\ TypeOK
  /\ CallsHold
  /\ CallsNest
  /\ Builders
  /\ MadeInOrder
  /\ ReadyReferenced
  /\ TakenByLater
-----------------------------------------------------------------------------
(* Sequences. *)

LEMMA SeqParts ==
  ASSUME NEW S, NEW q \in Seq(S)
  PROVE  /\ Len(q) \in Nat /\ DOMAIN q = 1..Len(q)
         /\ \A i \in DOMAIN q : q[i] \in S
         /\ q # <<>> => Len(q) \in DOMAIN q /\ Last(q) = q[Len(q)] /\ Last(q) \in S
         /\ Len(q) = 0 => q = <<>>
BY DEF Last

LEMMA LoweredParts ==
  ASSUME NEW S, NEW q \in Seq(S), NEW n \in 0..Len(q)
  PROVE  /\ SubSeq(q, 1, n) \in Seq(S) /\ Len(SubSeq(q, 1, n)) = n
         /\ \A i \in 1..n : SubSeq(q, 1, n)[i] = q[i]
OBVIOUS

LEMMA FrontParts ==
  ASSUME NEW S, NEW q \in Seq(S), q # <<>>
  PROVE  /\ Front(q) \in Seq(S) /\ Len(Front(q)) = Len(q) - 1
         /\ \A i \in 1..Len(q)-1 : Front(q)[i] = q[i]
         /\ Front(q) = SubSeq(q, 1, Len(q) - 1)
<1>1. Len(q) \in Nat /\ Len(q) - 1 \in 0..Len(q)
  BY SeqParts
<1> QED BY <1>1, LoweredParts DEF Front

LEMMA AppendParts ==
  ASSUME NEW S, NEW q \in Seq(S), NEW e \in S
  PROVE  /\ Append(q, e) \in Seq(S) /\ Len(Append(q, e)) = Len(q) + 1
         /\ DOMAIN Append(q, e) = 1..Len(q)+1
         /\ \A i \in 1..Len(q) : Append(q, e)[i] = q[i]
         /\ Append(q, e)[Len(q) + 1] = e /\ Last(Append(q, e)) = e
BY DEF Last

LEMMA ConcatParts ==
  ASSUME NEW S, NEW q \in Seq(S), NEW w \in Seq(S)
  PROVE  /\ q \o w \in Seq(S) /\ Len(q \o w) = Len(q) + Len(w)
         /\ \A i \in 1..Len(q)+Len(w) : (q \o w)[i] = IF i <= Len(q) THEN q[i] ELSE w[i - Len(q)]
OBVIOUS

LEMMA SameSeq ==
  ASSUME NEW S, NEW p \in Seq(S), NEW q \in Seq(S), Len(p) = Len(q),
         \A i \in 1..Len(p) : p[i] = q[i]
  PROVE  p = q
OBVIOUS

\* What loadModule puts on the stack q before it calls the constructor.
LEMMA WorkingParts ==
  ASSUME NEW q \in Seq(StackValues), NEW m \in Modules
  PROVE  LET r == q \o Working(m)
         IN  /\ r \in Seq(StackValues) /\ Len(r) = Len(q) + 4
             /\ \A i \in 1..Len(q) : r[i] = q[i]
             /\ r[Len(q) + 1] = Package /\ r[Len(q) + 2] = Loaded
             /\ r[Len(q) + 3] = m /\ r[Len(q) + 4] = m
<1>1. Working(m) \in Seq(StackValues) /\ Len(Working(m)) = 4
  BY DEF Working, StackValues
<1>2. /\ Working(m)[1] = Package /\ Working(m)[2] = Loaded
      /\ Working(m)[3] = m /\ Working(m)[4] = m
  BY DEF Working
<1>3. Len(q) \in Nat
  BY SeqParts
<1> HIDE DEF Working
<1> DEFINE w == Working(m)
<1>4. w \in Seq(StackValues) /\ Len(w) = 4
  BY <1>1
<1> HIDE DEF w
<1>5. /\ q \o w \in Seq(StackValues) /\ Len(q \o w) = Len(q) + Len(w)
      /\ \A i \in 1..Len(q)+Len(w) : (q \o w)[i] = IF i <= Len(q) THEN q[i] ELSE w[i - Len(q)]
  BY <1>4, ConcatParts
<1>6. /\ w[1] = Package /\ w[2] = Loaded /\ w[3] = m /\ w[4] = m
  BY <1>2 DEF w
<1>7. /\ q \o w \in Seq(StackValues) /\ Len(q \o w) = Len(q) + 4
      /\ \A i \in 1..Len(q) : (q \o w)[i] = q[i]
      /\ (q \o w)[Len(q) + 1] = Package /\ (q \o w)[Len(q) + 2] = Loaded
      /\ (q \o w)[Len(q) + 3] = m /\ (q \o w)[Len(q) + 4] = m
  BY <1>3, <1>4, <1>5, <1>6
<1> QED BY <1>7 DEF w

LEMMA StackKinds ==
  /\ Package \notin Modules /\ Loaded \notin Modules /\ \A m \in Modules : m \notin Own
  /\ Package \notin Own /\ Loaded \notin Own /\ Table \in Own /\ Package # Loaded
  /\ NoRef \notin Modules /\ Nil \notin Modules /\ Scripted \notin Modules
  /\ WithField \subseteq Modules /\ Modules \subseteq Nat
<1>1. Modules \subseteq Nat
  BY ModuleAssumption DEF Modules
<1>2. \A m \in Modules : m \notin {Plain, Table, Package, Loaded, Scripted, NoRef, Nil}
  BY ModuleAssumption
<1>3. \A m \in Modules : m \notin Own
  BY <1>2 DEF Own
<1>4. Package \notin Own /\ Loaded \notin Own /\ Table \in Own
  BY ModuleAssumption DEF Own
<1> QED BY <1>1, <1>2, <1>3, <1>4, ModuleAssumption
-----------------------------------------------------------------------------
(* The calls under way and their values on the stack. *)

LEMMA CallParts ==
  ASSUME TypeOK, NEW i \in DOMAIN calls
  PROVE  /\ calls[i] \in Call /\ calls[i].name \in Names /\ calls[i].mod \in Modules
         /\ calls[i].overwrite \in BOOLEAN
         /\ calls[i].below \in Seq(StackValues) /\ Len(calls[i].below) \in Nat
<1>1. calls \in Seq(Call)
  BY DEF TypeOK, Call
<1>2. calls[i] \in Call
  BY <1>1, SeqParts
<1>3. /\ calls[i].name \in Names /\ calls[i].mod \in Modules /\ calls[i].overwrite \in BOOLEAN
      /\ calls[i].below \in Seq(StackValues)
  BY <1>2 DEF Call
<1> QED BY <1>2, <1>3, SeqParts

LEMMA CurrentParts ==
  ASSUME TypeOK, Running
  PROVE  /\ Len(calls) \in DOMAIN calls /\ Len(calls) \in Nat /\ Len(calls) > 0
         /\ Current = calls[Len(calls)]
         /\ Floor = Len(Current.below) + 4
<1>1. calls \in Seq(Call)
  BY DEF TypeOK, Call
<1>2. Len(calls) \in DOMAIN calls /\ Len(calls) \in Nat /\ Len(calls) > 0
      /\ Last(calls) = calls[Len(calls)]
  BY <1>1, SeqParts DEF Running
<1> QED BY <1>2 DEF Running, Current, Floor

LEMMA FloorParts ==
  ASSUME TypeOK
  PROVE  Floor \in Nat /\ Len(stk) \in Nat /\ Floor <= Len(stk)
<1>1. Len(stk) \in Nat /\ Len(stk) >= Floor
  BY SeqParts DEF TypeOK
<1>2. CASE Running
  BY <1>1, <1>2, CurrentParts, CallParts
<1>3. CASE ~Running
  BY <1>1, <1>3 DEF Floor
<1> QED BY <1>1, <1>2, <1>3

\* Holds looks at no more of the stack than the call has on it.
LEMMA HoldsLower ==
  ASSUME NEW q, NEW r, NEW c \in Call, Holds(q, c), Len(q) \in Nat, Len(r) \in Nat,
         Len(r) >= Len(c.below) + 4, \A k \in 1..Len(c.below)+4 : r[k] = q[k]
  PROVE  Holds(r, c)
<1>1. c.below \in Seq(StackValues) /\ Len(c.below) \in Nat
  BY DEF Call
<1>2. \A k \in 1..Len(c.below) : r[k] = q[k]
  BY <1>1
<1>3. \A d \in 1..4 : r[Len(c.below) + d] = q[Len(c.below) + d]
  BY <1>1
<1>4. \A k \in 1..Len(c.below) : q[k] = c.below[k]
  BY DEF Holds
<1> QED BY <1>2, <1>3, <1>4 DEF Holds

\* Every call under way has its values below the floor of the innermost.
LEMMA BelowFloor ==
  ASSUME TypeOK, CallsNest, NEW i \in DOMAIN calls
  PROVE  Running /\ Len(calls[i].below) + 4 <= Floor
<1>1. calls \in Seq(Call)
  BY DEF TypeOK, Call
<1>2. i \in 1..Len(calls) /\ Len(calls) \in Nat /\ calls # <<>>
  BY <1>1
<1>3. Running /\ Floor = Len(calls[Len(calls)].below) + 4 /\ Len(calls) \in DOMAIN calls
  BY <1>1, <1>2, CurrentParts DEF Running
<1>4. CASE i = Len(calls)
  BY <1>3, <1>4, CallParts
<1>5. CASE i < Len(calls)
  <2>1. Len(calls[i].below) + 4 <= Len(calls[Len(calls)].below)
    BY <1>3, <1>5 DEF CallsNest
  <2> QED BY <2>1, <1>3, CallParts
<1> QED BY <1>2, <1>4, <1>5

\* A stack cut no lower than the floor, with values of the constructor's own put on it,
\* holds what the calls hold.
LEMMA OwnKeeps ==
  ASSUME TypeOK, CallsHold, CallsNest, UNCHANGED calls, stk' \in Seq(StackValues),
         Len(stk') >= Floor, \A k \in 1..Floor : stk'[k] = stk[k], Whole(stk')
  PROVE  CallsHold'
<1>1. ASSUME NEW i \in DOMAIN calls PROVE Holds(stk', calls[i])
  <2>1. Running /\ Len(calls[i].below) + 4 <= Floor /\ calls[i] \in Call
        /\ Len(calls[i].below) \in Nat
    BY BelowFloor, CallParts
  <2>2. Floor \in Nat /\ Len(stk) \in Nat /\ Len(stk') \in Nat
    BY FloorParts, SeqParts
  <2>3. Holds(stk, calls[i])
    BY DEF CallsHold
  <2>4. Len(stk') >= Len(calls[i].below) + 4
        /\ \A k \in 1..Len(calls[i].below)+4 : stk'[k] = stk[k]
    BY <2>1, <2>2
  <2> QED BY <2>1, <2>2, <2>3, <2>4, HoldsLower
<1> QED BY <1>1 DEF CallsHold

\* What lies below a call's values is what was there when it began.
LEMMA BelowCurrent ==
  ASSUME TypeOK, CallsHold, NEW i \in DOMAIN calls
  PROVE  SubSeq(stk, 1, Len(calls[i].below)) = calls[i].below
<1>1. /\ stk \in Seq(StackValues) /\ calls[i].below \in Seq(StackValues)
      /\ Len(calls[i].below) \in Nat /\ Len(stk) \in Nat
  BY CallParts DEF TypeOK
<1>2. Holds(stk, calls[i])
  BY DEF CallsHold
<1>3. Len(calls[i].below) \in 0..Len(stk)
  BY <1>1, <1>2 DEF Holds
<1> DEFINE b == calls[i].below
           low == SubSeq(stk, 1, Len(b))
<1>4. /\ low \in Seq(StackValues) /\ Len(low) = Len(b)
      /\ \A k \in 1..Len(b) : low[k] = stk[k]
  BY <1>1, <1>3, LoweredParts
<1>5. \A k \in 1..Len(b) : stk[k] = b[k]
  BY <1>2 DEF Holds
<1> HIDE DEF low, b
<1>6. b \in Seq(StackValues)
  BY <1>1 DEF b
<1>7. low = b
  BY <1>4, <1>5, <1>6, SameSeq
<1> QED BY <1>7 DEF low, b
-----------------------------------------------------------------------------
(* What each action does to the invariant. *)

LEMMA InitEstablishes == Init => IInv
<1> SUFFICES ASSUME Init PROVE IInv
  OBVIOUS
<1>1. TypeOK
  <2>1. stk \in Seq(StackValues) /\ calls \in Seq(Call) /\ Len(stk) >= Floor
    BY DEF Init, Floor, Running
  <2> QED BY <2>1 DEF Init, TypeOK, Call, Stages, FieldValues
<1>2. DOMAIN stk = {} /\ DOMAIN calls = {}
  BY DEF Init
<1>3. Builders /\ MadeInOrder /\ ReadyReferenced
  BY <1>2 DEF Init, Builders, MadeInOrder, ReadyReferenced
<1> QED BY <1>1, <1>2, <1>3 DEF IInv, CallsHold, CallsNest, TakenByLater, Whole

LEMMA BeginKeeps ==
  ASSUME IInv, NEW n \in Names, NEW o \in BOOLEAN, BeginLoad(n, o)
  PROVE  IInv'
<1> USE DEF IInv
<1>1. PICK m \in Unborn :
        /\ \A x \in Unborn : m <= x
        /\ stk' = stk \o Working(m)
        /\ calls' = Append(calls, [name |-> n, overwrite |-> o, mod |-> m, below |-> stk])
        /\ mod' = [mod EXCEPT ![m] = "building"]
  BY DEF BeginLoad
<1> DEFINE c == [name |-> n, overwrite |-> o, mod |-> m, below |-> stk]
<1>2. m \in Modules /\ mod[m] = "none"
  BY DEF Unborn
<1>3. /\ c \in Call /\ c.name = n /\ c.overwrite = o /\ c.mod = m /\ c.below = stk
      /\ calls \in Seq(Call) /\ stk \in Seq(StackValues) /\ Len(stk) \in Nat /\ Len(calls) \in Nat
  BY <1>2, SeqParts DEF TypeOK, Call
<1> HIDE DEF c
<1>4. /\ calls' \in Seq(Call) /\ Len(calls') = Len(calls) + 1 /\ Last(calls') = c
      /\ DOMAIN calls' = 1..Len(calls)+1 /\ calls'[Len(calls) + 1] = c
      /\ \A i \in 1..Len(calls) : calls'[i] = calls[i]
  BY <1>1, <1>3, AppendParts DEF c
<1>5. /\ stk' \in Seq(StackValues) /\ Len(stk') = Len(stk) + 4
      /\ \A i \in 1..Len(stk) : stk'[i] = stk[i]
      /\ stk'[Len(stk) + 1] = Package /\ stk'[Len(stk) + 2] = Loaded
      /\ stk'[Len(stk) + 3] = m /\ stk'[Len(stk) + 4] = m
  BY <1>1, <1>2, <1>3, WorkingParts
<1>6. DOMAIN calls = 1..Len(calls) /\ DOMAIN stk = 1..Len(stk) /\ DOMAIN stk' = 1..Len(stk)+4
  BY <1>3, <1>5
<1>7. TypeOK'
  <2>1. Floor' = Len(stk) + 4
    BY <1>3, <1>4 DEF Floor, Running, Current
  <2>2. mod' \in [Modules -> Stages]
    BY <1>1 DEF TypeOK, Stages
  <2> QED BY <1>3, <1>4, <1>5, <2>1, <2>2 DEF TypeOK, BeginLoad, Call
<1>8. ASSUME NEW i \in DOMAIN calls
      PROVE  /\ i \in DOMAIN calls' /\ calls'[i] = calls[i]
             /\ Holds(stk, calls[i]) /\ Len(calls[i].below) \in Nat
             /\ calls[i].mod \in Modules /\ mod[calls[i].mod] = "building"
             /\ calls[i].mod # m
  BY <1>2, <1>4, <1>6, CallParts DEF CallsHold, Builders
<1>9. Whole(stk')
  <2> SUFFICES ASSUME NEW k \in DOMAIN stk', stk'[k] = Package
               PROVE  k + 3 <= Len(stk') /\ stk'[k + 3] \notin Own
    BY DEF Whole
  <2>1. CASE k <= Len(stk)
    <3>1. k \in DOMAIN stk /\ stk[k] = Package
      BY <1>3, <1>5, <1>6, <2>1
    <3>2. k + 3 <= Len(stk) /\ stk[k + 3] \notin Own
      BY <3>1 DEF CallsHold, Whole
    <3> QED BY <1>3, <1>5, <1>6, <3>1, <3>2
  <2>2. CASE k = Len(stk) + 1
    BY <1>2, <1>3, <1>5, <2>2, StackKinds
  <2>3. CASE k > Len(stk) + 1
    <3>1. k \in {Len(stk) + 2, Len(stk) + 3, Len(stk) + 4}
      BY <1>3, <1>6, <2>3
    <3> QED BY <3>1, <1>2, <1>5, StackKinds
  <2> QED BY <1>3, <1>6, <2>1, <2>2, <2>3
<1>10. CallsHold'
  <2>1. Holds(stk', c)
    BY <1>3, <1>5 DEF Holds
  <2>2. ASSUME NEW i \in DOMAIN calls PROVE Holds(stk', calls[i])
    <3>1. Holds(stk, calls[i]) /\ calls[i] \in Call /\ Len(calls[i].below) \in Nat
      BY <1>8, CallParts
    <3>2. Len(stk) >= Len(calls[i].below) + 4
      BY <3>1 DEF Holds
    <3> QED BY <1>3, <1>5, <3>1, <3>2, HoldsLower
  <2>3. Whole(c.below)
    BY <1>3 DEF CallsHold
  <2> QED BY <1>4, <1>6, <1>8, <1>9, <2>1, <2>2, <2>3 DEF CallsHold
<1>11. CallsNest'
  <2> SUFFICES ASSUME NEW i \in DOMAIN calls', NEW j \in DOMAIN calls', i < j
               PROVE  /\ Len(calls'[i].below) + 4 <= Len(calls'[j].below)
                      /\ calls'[i].mod < calls'[j].mod
    BY DEF CallsNest
  <2>1. i \in DOMAIN calls
    BY <1>3, <1>4, <1>6
  <2>2. CASE j \in DOMAIN calls
    BY <1>8, <2>1, <2>2 DEF CallsNest
  <2>3. CASE j \notin DOMAIN calls
    <3>1. calls'[j] = c
      BY <1>3, <1>4, <1>6, <2>3
    <3>2. Len(calls[i].below) + 4 <= Len(stk)
      BY <1>8, <2>1 DEF Holds
    <3>3. calls[i].mod < m
      BY <1>2, <1>8, <2>1 DEF MadeInOrder
    <3> QED BY <1>3, <1>8, <2>1, <3>1, <3>2, <3>3
  <2> QED BY <2>2, <2>3
<1>12. Builders'
  <2>1. ASSUME NEW x \in Modules, x # m PROVE mod'[x] = mod[x]
    BY <1>1, <2>1 DEF TypeOK
  <2>2. mod'[m] = "building"
    BY <1>1, <1>2 DEF TypeOK
  <2>3. ASSUME NEW i \in DOMAIN calls' PROVE mod'[calls'[i].mod] = "building"
    BY <1>3, <1>4, <1>6, <1>8, <2>1, <2>2
  <2>4. ASSUME NEW x \in Modules, mod'[x] = "building"
        PROVE  \E i \in DOMAIN calls' : calls'[i].mod = x
    <3>1. CASE x = m
      BY <1>3, <1>4, <3>1
    <3>2. CASE x # m
      BY <1>8, <2>1, <2>4, <3>2 DEF Builders
    <3> QED BY <3>1, <3>2
  <2> QED BY <2>3, <2>4 DEF Builders
<1>13. MadeInOrder'
  <2> SUFFICES ASSUME NEW x \in Modules, NEW y \in Modules, mod'[x] = "none", mod'[y] # "none"
               PROVE  y < x
    BY DEF MadeInOrder
  <2>1. x # m /\ mod[x] = "none"
    BY <1>1, <1>2 DEF TypeOK
  <2>2. CASE y = m
    <3>1. m <= x
      BY <1>1, <2>1 DEF Unborn
    <3> QED BY <1>2, <2>1, <2>2, <3>1, StackKinds
  <2>3. CASE y # m
    BY <1>1, <2>1, <2>3 DEF TypeOK, MadeInOrder
  <2> QED BY <2>2, <2>3
<1>14. ReadyReferenced'
  BY <1>1, <1>2 DEF ReadyReferenced, TypeOK, BeginLoad
<1>15. TakenByLater'
  <2> SUFFICES ASSUME NEW i \in DOMAIN calls', ~calls'[i].overwrite,
                      loaded[calls'[i].name] \in Modules
               PROVE  loaded[calls'[i].name] > calls'[i].mod
    BY DEF TakenByLater, BeginLoad
  <2>1. CASE i \in DOMAIN calls
    BY <1>8, <2>1 DEF TakenByLater
  <2>2. CASE i \notin DOMAIN calls
    <3>1. calls'[i] = c
      BY <1>3, <1>4, <1>6, <2>2
    <3>2. loaded[n] = Nil
      BY <1>3, <3>1 DEF BeginLoad, Free
    <3> QED BY <1>3, <3>1, <3>2, StackKinds
  <2> QED BY <2>1, <2>2
<1> QED BY <1>7, <1>10, <1>11, <1>12, <1>13, <1>14, <1>15

\* The facts about the innermost call that its end rests on.
LEMMA CurrentBuilds ==
  ASSUME IInv, Running
  PROVE  /\ Current \in Call /\ Current.mod \in Modules /\ Current.name \in Names
         /\ Current.below \in Seq(StackValues) /\ Len(Current.below) \in Nat
         /\ mod[Current.mod] = "building"
         /\ Holds(stk, Current) /\ Whole(Current.below)
         /\ stk # <<>> /\ Last(stk) \in StackValues /\ Last(stk) = stk[Len(stk)]
<1> USE DEF IInv
<1>1. Len(calls) \in DOMAIN calls /\ Current = calls[Len(calls)]
  BY CurrentParts
<1>2. stk \in Seq(StackValues) /\ Len(stk) >= Floor /\ Floor = Len(Current.below) + 4
  BY CurrentParts DEF TypeOK
<1>3. Len(Current.below) \in Nat
  BY <1>1, CallParts
<1>4. stk # <<>> /\ Last(stk) \in StackValues /\ Last(stk) = stk[Len(stk)]
  BY <1>2, <1>3, SeqParts
<1> QED BY <1>1, <1>3, <1>4, CallParts DEF CallsHold, Builders

\* The calls that remain when the innermost is gone.
LEMMA FrontCalls ==
  ASSUME IInv, Running
  PROVE  /\ Front(calls) \in Seq(Call) /\ Len(Front(calls)) = Len(calls) - 1
         /\ DOMAIN Front(calls) = DOMAIN calls \ {Len(calls)}
         /\ \A i \in DOMAIN Front(calls) :
              /\ i \in DOMAIN calls /\ i < Len(calls)
              /\ Front(calls)[i] = calls[i]
              /\ Len(calls[i].below) + 4 <= Len(Current.below)
              /\ calls[i].mod < Current.mod
<1> USE DEF IInv
<1>1. calls \in Seq(Call) /\ calls # <<>> /\ Len(calls) \in Nat /\ DOMAIN calls = 1..Len(calls)
  BY SeqParts DEF TypeOK, Call, Running
<1>2. /\ Front(calls) \in Seq(Call) /\ Len(Front(calls)) = Len(calls) - 1
      /\ \A i \in 1..Len(calls)-1 : Front(calls)[i] = calls[i]
  BY <1>1, FrontParts
<1>3. DOMAIN Front(calls) = 1..Len(calls)-1
  BY <1>2, SeqParts
<1>4. Len(calls) \in DOMAIN calls /\ Current = calls[Len(calls)]
  BY CurrentParts
<1>5. ASSUME NEW i \in 1..Len(calls)-1
      PROVE  /\ i \in DOMAIN calls /\ i < Len(calls)
             /\ Len(calls[i].below) + 4 <= Len(Current.below)
             /\ calls[i].mod < Current.mod
  BY <1>1, <1>4 DEF CallsNest
<1> QED BY <1>1, <1>2, <1>3, <1>5

\* When the innermost call is gone and its module no longer building, the others are as
\* they were, whether its values are still on the stack or cut away.
LEMMA InnermostGone ==
  ASSUME IInv, Running, calls' = Front(calls), NEW b \in Stages \ {"none", "building"},
         mod' = [mod EXCEPT ![Current.mod] = b],
         stk' = stk \/ stk' = Current.below
  PROVE  /\ stk' \in Seq(StackValues) /\ Len(stk') >= Floor'
         /\ CallsHold' /\ CallsNest' /\ Builders' /\ MadeInOrder'
         /\ mod' \in [Modules -> Stages]
<1> USE DEF IInv
<1>1. /\ Current.mod \in Modules /\ mod[Current.mod] = "building"
      /\ Current.below \in Seq(StackValues) /\ Len(Current.below) \in Nat
      /\ Holds(stk, Current) /\ Whole(Current.below)
  BY CurrentBuilds
<1>2. stk' \in Seq(StackValues) /\ Len(stk') \in Nat /\ Len(stk) \in Nat /\ Whole(stk')
  BY <1>1, SeqParts DEF TypeOK, CallsHold
<1>3. Len(stk') >= Len(Current.below) /\ \A k \in 1..Len(Current.below) : stk'[k] = stk[k]
  BY <1>1, <1>2 DEF Holds
<1>4. ASSUME NEW i \in DOMAIN calls'
      PROVE  /\ i \in DOMAIN calls /\ calls'[i] = calls[i] /\ calls[i] \in Call
             /\ Len(calls[i].below) \in Nat /\ Len(calls[i].below) + 4 <= Len(Current.below)
             /\ Holds(stk, calls[i]) /\ Whole(calls[i].below)
             /\ calls[i].mod \in Modules /\ calls[i].mod # Current.mod
             /\ mod[calls[i].mod] = "building"
  <2>1. /\ i \in DOMAIN calls /\ calls'[i] = calls[i] /\ calls[i].mod < Current.mod
        /\ Len(calls[i].below) + 4 <= Len(Current.below)
    BY FrontCalls
  <2>2. calls[i] \in Call /\ Len(calls[i].below) \in Nat /\ calls[i].mod \in Modules
    BY <2>1, CallParts
  <2>3. Holds(stk, calls[i]) /\ Whole(calls[i].below) /\ mod[calls[i].mod] = "building"
    BY <2>1 DEF CallsHold, Builders
  <2>4. calls[i].mod # Current.mod
    <3>1. calls[i].mod \in Nat /\ Current.mod \in Nat
      BY <1>1, <2>2, StackKinds
    <3> QED BY <2>1, <3>1
  <2> QED BY <2>1, <2>2, <2>3, <2>4
<1>5. Len(stk') >= Floor'
  <2>1. CASE Running'
    <3>1. calls' \in Seq(Call) /\ calls' # <<>>
      BY <2>1, FrontCalls DEF Running
    <3>2. Len(calls') \in DOMAIN calls' /\ Last(calls') = calls'[Len(calls')]
      BY <3>1, SeqParts
    <3>3. Floor' = Len(calls[Len(calls')].below) + 4
      BY <2>1, <3>2, <1>4 DEF Floor, Current
    <3> QED BY <1>1, <1>2, <1>3, <1>4, <3>2, <3>3
  <2>2. CASE ~Running'
    BY <1>2, <2>2 DEF Floor
  <2> QED BY <2>1, <2>2
<1>6. CallsHold'
  <2>1. ASSUME NEW i \in DOMAIN calls' PROVE Holds(stk', calls[i])
    <3>1. /\ Len(stk') >= Len(calls[i].below) + 4
          /\ \A k \in 1..Len(calls[i].below)+4 : stk'[k] = stk[k]
      BY <1>1, <1>2, <1>3, <1>4
    <3> QED BY <1>2, <1>4, <3>1, HoldsLower
  <2> QED BY <1>2, <1>4, <2>1 DEF CallsHold
<1>7. CallsNest'
  BY <1>4 DEF CallsNest
<1>8. \A x \in Modules : mod'[x] = IF x = Current.mod THEN b ELSE mod[x]
  BY <1>1 DEF TypeOK
<1>9. Builders'
  <2>1. ASSUME NEW x \in Modules, mod'[x] = "building"
        PROVE  \E i \in DOMAIN calls' : calls'[i].mod = x
    <3>1. x # Current.mod /\ mod[x] = "building"
      BY <1>8, <2>1
    <3>2. PICK i \in DOMAIN calls : calls[i].mod = x
      BY <3>1 DEF Builders
    <3>3. i # Len(calls)
      BY <3>1, <3>2, CurrentParts
    <3> QED BY <1>4, <3>2, <3>3, FrontCalls
  <2> QED BY <1>4, <1>8, <2>1 DEF Builders
<1>10. MadeInOrder'
  BY <1>1, <1>8 DEF MadeInOrder
<1>11. mod' \in [Modules -> Stages]
  BY <1>1 DEF TypeOK, Stages
<1> QED BY <1>2, <1>5, <1>6, <1>7, <1>9, <1>10, <1>11

LEMMA ThrowKeeps ==
  ASSUME IInv, ConstructorThrows
  PROVE  IInv'
<1>0. TypeOK /\ ReadyReferenced /\ TakenByLater
  BY DEF IInv
<1>1. Running /\ Current.mod \in Modules /\ mod[Current.mod] = "building"
  BY CurrentBuilds DEF ConstructorThrows
<1>2. /\ stk' \in Seq(StackValues) /\ Len(stk') >= Floor'
      /\ CallsHold' /\ CallsNest' /\ Builders' /\ MadeInOrder' /\ mod' \in [Modules -> Stages]
  <2>1. /\ "failed" \in Stages \ {"none", "building"} /\ calls' = Front(calls) /\ stk' = stk
        /\ mod' = [mod EXCEPT ![Current.mod] = "failed"]
    BY DEF ConstructorThrows, Stages
  <2> QED BY <1>1, <2>1, InnermostGone
<1>3. calls' \in Seq(Call)
  BY <1>1, FrontCalls DEF ConstructorThrows
<1>4. TypeOK'
  BY <1>0, <1>2, <1>3 DEF TypeOK, ConstructorThrows, Call
<1>5. ReadyReferenced'
  BY <1>0, <1>1 DEF ReadyReferenced, ConstructorThrows, TypeOK
<1>6. TakenByLater'
  BY <1>0, <1>1, FrontCalls DEF TakenByLater, ConstructorThrows
<1> QED BY <1>2, <1>4, <1>5, <1>6 DEF IInv

\* Where a table of the constructor's own lies is above what loadModule has put there.
LEMMA TableIsLeft ==
  ASSUME IInv, Running
  PROVE  Target = Table <=> TableLeft
<1>1. /\ Len(Current.below) \in Nat /\ Holds(stk, Current) /\ Len(stk) \in Nat
      /\ Floor = Len(Current.below) + 4 /\ Len(stk) >= Floor /\ Current.mod \in Modules
  BY CurrentBuilds, CurrentParts, SeqParts DEF IInv, TypeOK
<1> DEFINE k == Len(stk) - 2  l == Len(Current.below)
<1>2. k >= Floor + 1 \/ k \in {l + 2, l + 3, l + 4}
  BY <1>1
<1>3. ASSUME k \in {l + 2, l + 3, l + 4} PROVE stk[k] # Table
  BY <1>1, <1>3, StackKinds DEF Holds
<1>4. TableLeft <=> k >= Floor + 1 /\ stk[k] = Table
  BY <1>1 DEF TableLeft
<1>5. Floor + 1 = l + 5
  BY <1>1
<1> QED BY <1>2, <1>3, <1>4 DEF Target

\* A constructor that leaves the stack as it found it has its module on top and
\* package.loaded where lua_setfield looks for it.
LEMMA EvenTarget ==
  ASSUME IInv, Running, Len(stk) = Floor
  PROVE  Target = Loaded /\ Referenced = Current.mod
<1>1. Holds(stk, Current) /\ Len(Current.below) \in Nat /\ Last(stk) = stk[Len(stk)]
  BY CurrentBuilds
<1>2. Len(stk) = Len(Current.below) + 4
  BY CurrentParts DEF IInv
<1> QED BY <1>1, <1>2 DEF Holds, Target, Referenced

\* The table "package" has too much above it to be taken for package.loaded.
LEMMA NeverPackage ==
  ASSUME IInv, Running
  PROVE  Target # Package
<1>1. Len(Current.below) \in Nat /\ Holds(stk, Current) /\ Len(stk) \in Nat
      /\ Whole(stk) /\ DOMAIN stk = 1..Len(stk)
  BY CurrentBuilds, SeqParts DEF IInv, TypeOK, CallsHold
<1>2. Len(stk) - 2 \in DOMAIN stk
  BY <1>1 DEF Holds
<1>3. ~(Len(stk) - 2 + 3 <= Len(stk))
  BY <1>1
<1>4. stk[Len(stk) - 2] # Package
  BY <1>1, <1>2, <1>3 DEF Whole
<1> QED BY <1>4 DEF Target

\* The end of a load that is not left by a Lua error.
LEMMA EndKeeps ==
  ASSUME IInv, EndLoad, Target \in {Package, Loaded, Table}
  PROVE  IInv'
<1>0. TypeOK /\ ReadyReferenced /\ TakenByLater /\ CallsNest
  BY DEF IInv
<1>1. /\ Running /\ Current.mod \in Modules /\ Current.name \in Names
      /\ Last(stk) \in StackValues /\ mod[Current.mod] = "building"
  BY CurrentBuilds DEF EndLoad
<1> DEFINE m == Current.mod  b == Built(stk)
<1>2. /\ ref' = [ref EXCEPT ![m] = Referenced]
      /\ loaded' \in {loaded, [loaded EXCEPT ![Current.name] = m]}
      /\ stk' = SubSeq(stk, 1, Len(Current.below))
      /\ calls' = Front(calls) /\ ret' = "none"
      /\ mod' = [mod EXCEPT ![m] = b]
      /\ UNCHANGED <<field, cache, behind>>
  BY <1>1 DEF EndLoad
<1>3. stk' = Current.below
  BY <1>0, <1>1, <1>2, BelowCurrent, CurrentParts DEF IInv
<1>4. b \in Stages \ {"none", "building"}
  BY DEF Built, Stages
<1>5. /\ stk' \in Seq(StackValues) /\ Len(stk') >= Floor'
      /\ CallsHold' /\ CallsNest' /\ Builders' /\ MadeInOrder' /\ mod' \in [Modules -> Stages]
  <2> HIDE DEF b
  <2> QED BY <1>1, <1>2, <1>3, <1>4, InnermostGone
<1>6. calls' \in Seq(Call)
  BY <1>1, <1>2, FrontCalls
<1>7. TypeOK'
  BY <1>0, <1>1, <1>2, <1>5, <1>6 DEF TypeOK, Call, Referenced
<1>8. ReadyReferenced'
  <2> SUFFICES ASSUME NEW x \in Modules, mod'[x] = "ready" PROVE ref'[x] = x
    BY DEF ReadyReferenced
  <2>1. CASE x = m
    <3>1. b = "ready"
      BY <1>0, <1>1, <1>2, <2>1 DEF TypeOK
    <3>2. Len(stk) = Floor
      BY <3>1 DEF Built
    <3> QED BY <1>0, <1>1, <1>2, <2>1, <3>2, EvenTarget DEF TypeOK
  <2>2. CASE x # m
    BY <1>0, <1>1, <1>2, <2>2 DEF TypeOK, ReadyReferenced
  <2> QED BY <2>1, <2>2
<1>9. TakenByLater'
  <2> SUFFICES ASSUME NEW i \in DOMAIN calls', ~calls'[i].overwrite,
                      loaded'[calls'[i].name] \in Modules
               PROVE  loaded'[calls'[i].name] > calls'[i].mod
    BY DEF TakenByLater
  <2>1. i \in DOMAIN calls /\ calls'[i] = calls[i] /\ calls[i].mod < m
    BY <1>1, <1>2, FrontCalls
  <2>2. calls[i].name \in Names /\ calls[i].mod \in Nat /\ m \in Nat
    BY <1>0, <1>1, <2>1, CallParts, StackKinds
  <2>3. CASE loaded'[calls[i].name] = m
    BY <2>1, <2>2, <2>3
  <2>4. CASE loaded'[calls[i].name] = loaded[calls[i].name]
    BY <1>0, <2>1, <2>4 DEF TakenByLater
  <2>5. loaded'[calls[i].name] \in {loaded[calls[i].name], m}
    BY <1>0, <1>1, <1>2, <2>2 DEF TypeOK
  <2> QED BY <2>3, <2>4, <2>5
<1> QED BY <1>5, <1>7, <1>8, <1>9 DEF IInv

\* A Lua error ends all calls at once.
LEMMA LuaErrorKeeps ==
  ASSUME IInv, EndLoad, Target \notin {Package, Loaded, Table}
  PROVE  IInv'
<1>0. TypeOK /\ ReadyReferenced /\ MadeInOrder
  BY DEF IInv
<1>1. /\ Running /\ Current.mod \in Modules /\ mod[Current.mod] = "building"
      /\ Last(stk) \in StackValues
  BY CurrentBuilds DEF EndLoad
<1>2. /\ ref' = [ref EXCEPT ![Current.mod] = Last(stk)]
      /\ stk' = calls[1].below /\ calls' = <<>> /\ ret' = "error"
      /\ mod' = [m \in Modules |-> IF mod[m] = "building" THEN "failed" ELSE mod[m]]
      /\ UNCHANGED <<loaded, field, cache, behind>>
  BY DEF EndLoad, LuaError, Referenced
<1>3. 1 \in DOMAIN calls
  BY <1>0, <1>1, CurrentParts, SeqParts DEF TypeOK
<1>4. stk' \in Seq(StackValues) /\ Whole(stk')
  BY <1>0, <1>2, <1>3, CallParts DEF IInv, CallsHold
<1>5. Len(stk') >= Floor'
  BY <1>2, <1>4, SeqParts DEF Floor, Running
<1>6. mod' \in [Modules -> Stages] /\ \A m \in Modules : mod'[m] # "building"
  BY <1>0, <1>2 DEF TypeOK, Stages
<1>7. calls' \in Seq(Call) /\ DOMAIN calls' = {}
  BY <1>2
<1>8. TypeOK'
  BY <1>0, <1>1, <1>2, <1>4, <1>5, <1>6, <1>7 DEF TypeOK, Call
<1>9. CallsHold' /\ CallsNest' /\ Builders' /\ TakenByLater'
  BY <1>4, <1>6, <1>7 DEF CallsHold, CallsNest, Builders, TakenByLater
<1>10. MadeInOrder'
  BY <1>0, <1>2 DEF MadeInOrder
<1>11. ReadyReferenced'
  <2> SUFFICES ASSUME NEW x \in Modules, mod'[x] = "ready" PROVE ref'[x] = x
    BY DEF ReadyReferenced
  <2>1. mod[x] = "ready" /\ x # Current.mod
    BY <1>1, <1>2
  <2> QED BY <1>0, <1>2, <2>1 DEF TypeOK, ReadyReferenced
<1> QED BY <1>8, <1>9, <1>10, <1>11 DEF IInv

\* Work on fields, a refused load, and nothing at all leave the rest alone.
LEMMA FieldsKeep ==
  ASSUME IInv, UNCHANGED <<stk, loaded, calls, mod, ref>>,
         field' \in [Modules -> FieldValues], cache' \in [Modules -> FieldValues],
         behind' \in [Modules -> BOOLEAN],
         ret' \in {"none", "DUPLICATE_NAME", "thrown", "error"}
  PROVE  IInv'
<1>1. TypeOK'
  BY DEF IInv, TypeOK, Floor, Running, Current
<1> QED BY <1>1 DEF IInv, CallsHold, CallsNest, Builders, MadeInOrder, ReadyReferenced, TakenByLater

LEMMA FieldTypes ==
  ASSUME TypeOK, NEW m \in Modules, NEW v \in FieldValues
  PROVE  /\ FieldSet(m, v) \/ FieldAccess(m) \/ ScriptSetsField(m, v)
              => /\ UNCHANGED <<stk, loaded, calls, mod, ref, ret>>
                 /\ field' \in [Modules -> FieldValues] /\ cache' \in [Modules -> FieldValues]
                 /\ behind' \in [Modules -> BOOLEAN]
BY DEF TypeOK, FieldSet, FieldAccess, ScriptSetsField

LEMMA UnrefKeeps ==
  ASSUME IInv, NEW m \in Modules, unref(m)
  PROVE  IInv'
<1>0. TypeOK /\ CallsHold /\ CallsNest /\ Builders /\ MadeInOrder /\ ReadyReferenced /\ TakenByLater
  BY DEF IInv
<1>1. /\ UNCHANGED <<stk, loaded, calls, field, cache, behind, ret>>
      /\ mod[m] \in {"building", "ready", "askew", "released"}
      /\ ref' = [ref EXCEPT ![m] = NoRef]
      /\ mod' = [mod EXCEPT ![m] = IF mod[m] = "building" THEN mod[m] ELSE "released"]
  BY DEF unref, Usable
<1>2. /\ mod' \in [Modules -> Stages]
      /\ \A x \in Modules : /\ mod'[x] = "building" <=> mod[x] = "building"
                            /\ mod'[x] = "none" <=> mod[x] = "none"
                            /\ mod'[x] = "ready" => x # m /\ mod[x] = "ready"
  BY <1>0, <1>1 DEF TypeOK, Stages
<1>3. TypeOK'
  BY <1>0, <1>1, <1>2 DEF TypeOK, Floor, Running, Current
<1>4. CallsHold' /\ CallsNest' /\ TakenByLater'
  BY <1>0, <1>1 DEF CallsHold, CallsNest, TakenByLater
<1>5. Builders'
  BY <1>0, <1>1, <1>2, CallParts DEF Builders
<1>6. MadeInOrder'
  BY <1>0, <1>2 DEF MadeInOrder
<1>7. ReadyReferenced'
  BY <1>0, <1>1, <1>2 DEF ReadyReferenced, TypeOK
<1> QED BY <1>3, <1>4, <1>5, <1>6, <1>7 DEF IInv

\* What is in use is on the stack or in its slot, and the collector leaves it.
LEMMA InUseIsReachable ==
  ASSUME IInv, NEW m \in Modules, CollectModule(m)
  PROVE  mod[m] \notin {"building", "ready"}
<1>1. CASE mod[m] = "building"
  <2>1. PICK i \in DOMAIN calls : calls[i].mod = m
    BY <1>1 DEF IInv, Builders
  <2>2. Holds(stk, calls[i]) /\ Len(calls[i].below) \in Nat /\ Len(stk) \in Nat
    BY CallParts, SeqParts DEF IInv, CallsHold, TypeOK
  <2>3. Len(calls[i].below) + 3 \in 1..Len(stk) /\ stk[Len(calls[i].below) + 3] = m
    BY <2>1, <2>2 DEF Holds
  <2> QED BY <2>3 DEF CollectModule
<1>2. CASE mod[m] = "ready"
  BY <1>2 DEF IInv, ReadyReferenced, CollectModule
<1> QED BY <1>1, <1>2

LEMMA CollectKeeps ==
  ASSUME IInv, NEW m \in Modules, CollectModule(m)
  PROVE  IInv'
<1>0. TypeOK /\ CallsHold /\ CallsNest /\ Builders /\ MadeInOrder /\ ReadyReferenced /\ TakenByLater
  BY DEF IInv
<1>1. /\ UNCHANGED <<stk, loaded, calls, ref, field, cache, behind, ret>>
      /\ mod[m] # "none" /\ mod' = [mod EXCEPT ![m] = "freed"]
  BY DEF CollectModule
<1>2. mod[m] \notin {"building", "ready"}
  BY InUseIsReachable
<1>3. /\ mod' \in [Modules -> Stages]
      /\ \A x \in Modules : /\ mod'[x] = "building" <=> mod[x] = "building"
                            /\ mod'[x] = "none" <=> mod[x] = "none"
                            /\ mod'[x] = "ready" <=> mod[x] = "ready"
  BY <1>0, <1>1, <1>2 DEF TypeOK, Stages
<1>4. TypeOK'
  BY <1>0, <1>1, <1>3 DEF TypeOK, Floor, Running, Current
<1>5. CallsHold' /\ CallsNest' /\ TakenByLater'
  BY <1>0, <1>1 DEF CallsHold, CallsNest, TakenByLater
<1>6. Builders'
  BY <1>0, <1>1, <1>3, CallParts DEF Builders
<1>7. MadeInOrder' /\ ReadyReferenced'
  BY <1>0, <1>1, <1>3 DEF MadeInOrder, ReadyReferenced
<1> QED BY <1>4, <1>5, <1>6, <1>7 DEF IInv

\* All the stack below the floor is whole by itself.
LEMMA FloorWhole ==
  ASSUME IInv
  PROVE  Whole(SubSeq(stk, 1, Floor))
<1>0. TypeOK /\ CallsHold /\ stk \in Seq(StackValues)
  BY DEF IInv, TypeOK
<1>1. Floor \in 0..Len(stk)
  BY <1>0, FloorParts
<1> DEFINE q == SubSeq(stk, 1, Floor)
<1>2. q \in Seq(StackValues) /\ Len(q) = Floor /\ \A k \in 1..Floor : q[k] = stk[k]
  BY <1>0, <1>1, LoweredParts
<1>3. DOMAIN q = 1..Floor
  BY <1>2
<1> HIDE DEF q
<1>4. CASE ~Running
  BY <1>3, <1>4 DEF Floor, Whole
<1>5. CASE Running
  <2>1. /\ Len(Current.below) \in Nat /\ Current.below \in Seq(StackValues)
        /\ Holds(stk, Current) /\ Whole(Current.below) /\ Current.mod \in Modules
        /\ Floor = Len(Current.below) + 4
    BY <1>0, <1>5, CurrentBuilds, CurrentParts
  <2> SUFFICES ASSUME NEW k \in DOMAIN q, q[k] = Package PROVE k + 3 <= Len(q) /\ q[k + 3] \notin Own
    BY DEF Whole, q
  <2>2. k \in 1..Floor /\ stk[k] = Package
    BY <1>2, <1>3
  <2>3. CASE k <= Len(Current.below)
    <3>1. k \in DOMAIN Current.below /\ Current.below[k] = Package
      BY <2>1, <2>2, <2>3 DEF Holds
    <3>2. k + 3 <= Len(Current.below) /\ Current.below[k + 3] \notin Own
      BY <2>1, <3>1 DEF Whole
    <3>3. k + 3 \in 1..Len(Current.below) /\ k + 3 \in 1..Floor
      BY <2>1, <2>2, <3>2
    <3>4. q[k + 3] = Current.below[k + 3]
      BY <1>2, <2>1, <3>3 DEF Holds
    <3> QED BY <1>2, <3>2, <3>3, <3>4
  <2>4. CASE k = Len(Current.below) + 1
    <3>1. k + 3 = Len(Current.below) + 4 /\ k + 3 \in 1..Floor
      BY <2>1, <2>4
    <3>2. q[k + 3] = Current.mod
      BY <1>2, <2>1, <3>1 DEF Holds
    <3>3. Current.mod \notin Own
      BY <2>1, StackKinds
    <3> QED BY <1>2, <2>1, <3>1, <3>2, <3>3
  <2>5. CASE k > Len(Current.below) + 1
    <3>1. k \in {Len(Current.below) + 2, Len(Current.below) + 3, Len(Current.below) + 4}
      BY <2>1, <2>2, <2>5
    <3> QED BY <2>1, <2>2, <3>1, StackKinds DEF Holds
  <2> QED BY <2>1, <2>2, <2>3, <2>4, <2>5
<1> QED BY <1>4, <1>5 DEF q

LEMMA OwnStackParts ==
  ASSUME IInv, OwnStack
  PROVE  /\ stk' \in Seq(StackValues) /\ Len(stk') >= Floor
         /\ \A k \in 1..Floor : stk'[k] = stk[k]
         /\ Whole(stk')
<1>0. /\ TypeOK /\ Whole(stk) /\ stk \in Seq(StackValues) /\ Len(stk) \in Nat
      /\ DOMAIN stk = 1..Len(stk) /\ Floor \in 0..Len(stk)
  BY FloorParts, SeqParts DEF IInv, TypeOK, CallsHold
<1>1. CASE PushOwn
  <2>1. PICK x \in Own : stk' = Append(stk, x)
    BY <1>1 DEF PushOwn
  <2>2. /\ x \in StackValues /\ x # Package
        /\ stk' \in Seq(StackValues) /\ Len(stk') = Len(stk) + 1
        /\ DOMAIN stk' = 1..Len(stk)+1 /\ stk'[Len(stk) + 1] = x
        /\ \A k \in 1..Len(stk) : stk'[k] = stk[k]
    BY <1>0, <2>1, AppendParts, StackKinds DEF StackValues
  <2>3. Whole(stk')
    <3> SUFFICES ASSUME NEW k \in DOMAIN stk', stk'[k] = Package
                 PROVE  k + 3 <= Len(stk') /\ stk'[k + 3] \notin Own
      BY DEF Whole
    <3>1. k \in 1..Len(stk) /\ stk[k] = Package
      BY <1>0, <2>2, StackKinds
    <3>2. k + 3 <= Len(stk) /\ stk[k + 3] \notin Own
      BY <1>0, <3>1 DEF Whole
    <3>3. k + 3 \in 1..Len(stk)
      BY <1>0, <3>1, <3>2
    <3> QED BY <1>0, <2>2, <3>2, <3>3
  <2> QED BY <1>0, <2>2, <2>3
<1>2. CASE PopOwn
  <2>1. stk # <<>> /\ stk[Len(stk)] \in Own /\ stk' = Front(stk) /\ Len(stk) > Floor
    BY <1>0, <1>2, SeqParts DEF PopOwn
  <2>2. /\ stk' \in Seq(StackValues) /\ Len(stk') = Len(stk) - 1
        /\ \A k \in 1..Len(stk)-1 : stk'[k] = stk[k]
    BY <1>0, <2>1, FrontParts
  <2>3. DOMAIN stk' = 1..Len(stk)-1
    BY <2>2, SeqParts
  <2>4. Whole(stk')
    <3> SUFFICES ASSUME NEW k \in DOMAIN stk', stk'[k] = Package
                 PROVE  k + 3 <= Len(stk') /\ stk'[k + 3] \notin Own
      BY DEF Whole
    <3>1. k \in 1..Len(stk)-1 /\ stk[k] = Package
      BY <2>2, <2>3
    <3>2. k + 3 <= Len(stk) /\ stk[k + 3] \notin Own
      BY <1>0, <3>1 DEF Whole
    <3>3. k + 3 # Len(stk)
      BY <2>1, <3>2
    <3>4. k + 3 \in 1..Len(stk)-1
      BY <1>0, <3>1, <3>2, <3>3
    <3> QED BY <1>0, <2>2, <3>2, <3>4
  <2> QED BY <1>0, <2>1, <2>2, <2>4
<1>3. CASE CleanUp
  <2>1. stk' = SubSeq(stk, 1, Floor)
    BY <1>3 DEF CleanUp
  <2> QED BY <1>0, <2>1, LoweredParts, FloorWhole
<1> QED BY <1>1, <1>2, <1>3 DEF OwnStack

LEMMA OwnStackKeeps ==
  ASSUME IInv, OwnStack
  PROVE  IInv'
<1>0. TypeOK /\ CallsHold /\ CallsNest
  BY DEF IInv
<1>1. UNCHANGED <<loaded, calls, mod, ref, field, cache, behind, ret>>
  BY DEF OwnStack
<1>2. CallsHold'
  BY <1>0, <1>1, OwnStackParts, OwnKeeps
<1>3. TypeOK'
  BY <1>0, <1>1, OwnStackParts DEF TypeOK, Floor, Running, Current
<1> QED BY <1>1, <1>2, <1>3 DEF IInv, CallsNest, Builders, MadeInOrder, ReadyReferenced, TakenByLater

LEMMA ScriptKeeps ==
  ASSUME IInv, NEW n \in Names, NEW x \in {Nil, Scripted}, ScriptSetsLoaded(n, x)
  PROVE  IInv'
<1>1. TypeOK'
  BY DEF IInv, TypeOK, ScriptSetsLoaded, Floor, Running, Current
<1>2. TakenByLater'
  <2>1. \A k \in Names : loaded'[k] \in Modules => loaded'[k] = loaded[k]
    BY StackKinds DEF IInv, TypeOK, ScriptSetsLoaded
  <2>2. \A i \in DOMAIN calls : calls[i].name \in Names
    BY CallParts DEF IInv
  <2> QED BY <2>1, <2>2 DEF IInv, TakenByLater, ScriptSetsLoaded
<1> QED BY <1>1, <1>2
        DEF IInv, ScriptSetsLoaded, CallsHold, CallsNest, Builders, MadeInOrder, ReadyReferenced
-----------------------------------------------------------------------------
(* The invariant, and the theorems. *)

\* A step that does not stutter is one of the actions.
LEMMA StepCases ==
  ASSUME Next
  PROVE  \/ \E n \in Names, o \in BOOLEAN : BeginLoad(n, o) \/ RefuseLoad(n, o)
         \/ EndLoad \/ ConstructorThrows \/ OwnStack
         \/ \E m \in Modules : unref(m) \/ CollectModule(m)
         \/ \E m \in Modules, v \in FieldValues :
              FieldAccess(m) \/ FieldSet(m, v) \/ ScriptSetsField(m, v)
         \/ \E n \in Names, x \in {Nil, Scripted} : ScriptSetsLoaded(n, x)
<1>1. Nil \in FieldValues
  BY DEF FieldValues
<1> QED BY <1>1, StackKinds DEF Next

LEMMA StepKeeps ==
  ASSUME IInv, [Next]_vars
  PROVE  IInv'
<1>0. TypeOK
  BY DEF IInv
<1>1. ASSUME NEW n \in Names, NEW o \in BOOLEAN, BeginLoad(n, o) PROVE IInv'
  BY <1>1, BeginKeeps
<1>2. ASSUME NEW n \in Names, NEW o \in BOOLEAN, RefuseLoad(n, o) PROVE IInv'
  BY <1>0, <1>2, FieldsKeep DEF RefuseLoad, TypeOK
<1>3. ASSUME EndLoad PROVE IInv'
  BY <1>3, EndKeeps, LuaErrorKeeps
<1>4. ASSUME ConstructorThrows PROVE IInv'
  BY <1>4, ThrowKeeps
<1>5. ASSUME NEW m \in Modules, unref(m) \/ CollectModule(m) PROVE IInv'
  BY <1>5, UnrefKeeps, CollectKeeps
<1>6. ASSUME NEW m \in Modules, NEW v \in FieldValues,
             FieldAccess(m) \/ FieldSet(m, v) \/ ScriptSetsField(m, v)
      PROVE  IInv'
  <2>1. ret \in {"none", "DUPLICATE_NAME", "thrown", "error"}
    BY <1>0 DEF TypeOK
  <2> QED BY <1>0, <1>6, <2>1, FieldTypes, FieldsKeep
<1>7. ASSUME OwnStack PROVE IInv'
  BY <1>7, OwnStackKeeps
<1>8. ASSUME NEW n \in Names, NEW x \in {Nil, Scripted}, ScriptSetsLoaded(n, x) PROVE IInv'
  BY <1>8, ScriptKeeps
<1>9. ASSUME UNCHANGED vars PROVE IInv'
  BY <1>0, <1>9, FieldsKeep DEF vars, TypeOK
<1> QED BY <1>1, <1>2, <1>3, <1>4, <1>5, <1>6, <1>7, <1>8, <1>9, StepCases

\* The inductive invariant holds in every state.
THEOREM Invariance == Spec => []IInv
<1>1. Init => IInv
  BY InitEstablishes
<1>2. IInv /\ [Next]_vars => IInv'
  BY StepKeeps
<1> QED BY <1>1, <1>2, PTL DEF Spec

\* Every variable keeps to its type: in particular the constructor of a load never gets
\* below what loadModule has put on the stack for it.
THEOREM TypeCorrect == Spec => []TypeOK
<1>1. IInv => TypeOK
  BY DEF IInv
<1> QED BY <1>1, Invariance, PTL

\* Nothing is freed under a constructor or its client (Module::unref, loadModule).
THEOREM InUseStays == Spec => InUseIsNotFreed
<1>1. IInv /\ [Next]_vars => [\A m \in Modules : mod[m] \in {"building", "ready"} => mod'[m] # "freed"]_vars
  <2> SUFFICES ASSUME IInv, Next, NEW m \in Modules, mod[m] \in {"building", "ready"},
                      mod'[m] = "freed"
               PROVE  FALSE
    OBVIOUS
  <2>0. TypeOK
    BY DEF IInv
  <2>1. ASSUME NEW n \in Names, NEW o \in BOOLEAN, BeginLoad(n, o) PROVE FALSE
    BY <2>0, <2>1 DEF BeginLoad, TypeOK
  <2>2. ASSUME EndLoad PROVE FALSE
    <3>1. Current.mod \in Modules
      BY <2>2, CurrentBuilds DEF EndLoad
    <3> QED BY <2>0, <2>2, <3>1 DEF EndLoad, LuaError, Built, TypeOK
  <2>3. ASSUME ConstructorThrows PROVE FALSE
    BY <2>0, <2>3 DEF ConstructorThrows, TypeOK
  <2>4. ASSUME NEW x \in Modules, unref(x) PROVE FALSE
    BY <2>0, <2>4 DEF unref, TypeOK
  <2>5. ASSUME NEW x \in Modules, CollectModule(x) PROVE FALSE
    BY <2>0, <2>5, InUseIsReachable DEF CollectModule, TypeOK
  <2>6. ASSUME UNCHANGED mod PROVE FALSE
    BY <2>6
  <2> QED BY <2>1, <2>2, <2>3, <2>4, <2>5, <2>6, StepCases
          DEF RefuseLoad, FieldAccess, FieldSet, ScriptSetsField, OwnStack, ScriptSetsLoaded
<1> QED BY <1>1, Invariance, PTL DEF Spec, InUseIsNotFreed

\* The steps that end a call of loadModule.
LEMMA Endings ==
  ASSUME IInv, Next, Len(calls') < Len(calls)
  PROVE  EndLoad \/ ConstructorThrows
<1>1. \A n \in Names, o \in BOOLEAN : ~BeginLoad(n, o)
  <2> SUFFICES ASSUME NEW n \in Names, NEW o \in BOOLEAN, BeginLoad(n, o) PROVE FALSE
    OBVIOUS
  <2>1. PICK m \in Modules :
          calls' = Append(calls, [name |-> n, overwrite |-> o, mod |-> m, below |-> stk])
    BY DEF BeginLoad, Unborn
  <2>2. calls \in Seq(Call) /\ [name |-> n, overwrite |-> o, mod |-> m, below |-> stk] \in Call
    BY DEF IInv, TypeOK, Call
  <2>3. Len(calls') = Len(calls) + 1 /\ Len(calls) \in Nat
    BY <2>1, <2>2, AppendParts, SeqParts
  <2> QED BY <2>3
<1>2. calls' # calls
  BY SeqParts DEF IInv, TypeOK
<1> QED BY <1>1, <1>2, StepCases
        DEF RefuseLoad, unref, CollectModule, FieldAccess, FieldSet, ScriptSetsField, OwnStack,
            ScriptSetsLoaded

\* loadModule ends as a whole: the stack below it is as it was, and package.loaded has
\* the module if it answers "none" and is untouched if it throws or fails, but for the one
\* answer "none" that binds nothing: over a table of the constructor's own.
THEOREM AllOrNothing == Spec => EndsAllOrNothing
<1> DEFINE below == calls[Len(calls') + 1].below
           Ends == /\ SubSeq(stk', 1, Len(below)) = below
                   /\ IF ret' = "none"
                      THEN /\ stk' = Current.below
                           /\ loaded' = IF TableLeft THEN loaded
                                        ELSE [loaded EXCEPT ![Current.name] = Current.mod]
                      ELSE loaded' = loaded
<1>1. ASSUME IInv, Next, Len(calls') < Len(calls) PROVE Ends
  <2>0. TypeOK /\ CallsHold
    BY <1>1 DEF IInv
  <2>1. Running
    BY <1>1, Endings DEF EndLoad, ConstructorThrows
  <2>2. /\ Len(calls) \in DOMAIN calls /\ Len(calls) \in Nat /\ Len(calls) > 0
        /\ Current = calls[Len(calls)]
    BY <2>0, <2>1, CurrentParts
  <2>3. /\ SubSeq(stk, 1, Len(Current.below)) = Current.below
        /\ Current.below \in Seq(StackValues) /\ Len(Front(calls)) + 1 = Len(calls)
    BY <1>1, <2>0, <2>1, <2>2, BelowCurrent, CurrentBuilds, FrontCalls
  <2>4. SubSeq(Current.below, 1, Len(Current.below)) = Current.below
    BY <2>3
  <2>5. CASE ConstructorThrows
    BY <2>2, <2>3, <2>5 DEF ConstructorThrows
  <2>6. CASE EndLoad /\ Target \in {Package, Loaded, Table}
    <3>1. /\ stk' = Current.below /\ calls' = Front(calls) /\ ret' = "none"
          /\ loaded' = IF Target = Loaded THEN [loaded EXCEPT ![Current.name] = Current.mod]
                       ELSE loaded
      BY <2>3, <2>6 DEF EndLoad
    <3>2. TableLeft <=> Target # Loaded
      BY <1>1, <2>1, <2>6, NeverPackage, TableIsLeft, StackKinds
    <3> QED BY <2>2, <2>3, <2>4, <3>1, <3>2
  <2>7. CASE EndLoad /\ Target \notin {Package, Loaded, Table}
    <3>1. stk' = calls[1].below /\ calls' = <<>> /\ ret' = "error" /\ loaded' = loaded
      BY <2>7 DEF EndLoad, LuaError
    <3>2. calls[1].below \in Seq(StackValues)
      BY <2>0, <2>2, CallParts, SeqParts DEF TypeOK
    <3>3. Len(calls') + 1 = 1 /\ SubSeq(calls[1].below, 1, Len(calls[1].below)) = calls[1].below
      BY <3>1, <3>2
    <3> QED BY <3>1, <3>3
  <2> QED BY <1>1, <2>5, <2>6, <2>7, Endings
<1>2. IInv /\ [Next]_vars =>
        [Len(calls') < Len(calls) =>
           /\ SubSeq(stk', 1, Len(calls[Len(calls') + 1].below)) = calls[Len(calls') + 1].below
           /\ IF ret' = "none"
              THEN /\ stk' = Current.below
                   /\ loaded' = IF TableLeft THEN loaded
                                ELSE [loaded EXCEPT ![Current.name] = Current.mod]
              ELSE loaded' = loaded]_vars
  BY <1>1
<1> QED BY <1>2, Invariance, PTL DEF Spec, EndsAllOrNothing

\* A load that was not told to overwrite replaces no module but one its constructor
\* loaded (loadModule looks the name up once, before the constructor).
THEOREM EvictsInner == Spec => EvictsOnlyInner
<1> DEFINE Evicts == /\ Len(calls') < Len(calls) /\ ret' = "none"
                     /\ ~Current.overwrite /\ loaded[Current.name] \in Modules
<1>1. ASSUME IInv, Next, Evicts PROVE loaded[Current.name] > Current.mod
  <2>1. Running
    BY <1>1, Endings DEF EndLoad, ConstructorThrows
  <2>2. Len(calls) \in DOMAIN calls /\ Current = calls[Len(calls)]
    BY <1>1, <2>1, CurrentParts DEF IInv
  <2> QED BY <1>1, <2>2 DEF IInv, TakenByLater
<1>2. IInv /\ [Next]_vars => [Evicts => loaded[Current.name] > Current.mod]_vars
  BY <1>1
<1> QED BY <1>2, Invariance, PTL DEF Spec, EvictsOnlyInner

\* What a Field keeps is what its module's table has, as long as it was written through
\* the Field alone (Field::set, Field::operator->).
THEOREM StaleByScript == Spec => []StaleOnlyByScript
<1>1. Init => StaleOnlyByScript
  BY DEF Init, StaleOnlyByScript
<1>2. TypeOK /\ StaleOnlyByScript /\ [Next]_vars => StaleOnlyByScript'
  <2> SUFFICES ASSUME TypeOK, StaleOnlyByScript, Next PROVE StaleOnlyByScript'
    BY DEF vars, StaleOnlyByScript
  <2>1. ASSUME UNCHANGED <<field, cache, behind>> PROVE StaleOnlyByScript'
    BY <2>1 DEF StaleOnlyByScript
  <2>2. ASSUME NEW m \in Modules, NEW v \in FieldValues,
               FieldAccess(m) \/ FieldSet(m, v) \/ ScriptSetsField(m, v)
        PROVE  StaleOnlyByScript'
    BY <2>2 DEF FieldAccess, FieldSet, ScriptSetsField, StaleOnlyByScript, TypeOK
  <2> QED BY <2>1, <2>2, StepCases
          DEF BeginLoad, RefuseLoad, EndLoad, ConstructorThrows, unref, CollectModule, OwnStack,
              ScriptSetsLoaded
<1> QED BY <1>1, <1>2, TypeCorrect, PTL DEF Spec
=============================================================================
