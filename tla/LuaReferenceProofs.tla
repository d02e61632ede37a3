-------------------------- MODULE LuaReferenceProofs --------------------------
(***************************************************************************)
(* Proofs about LuaReference, for any number of instances, lua_States,     *)
(* objects, references and slots.                                          *)
(***************************************************************************)
EXTENDS LuaReference, FiniteSetTheorems, WellFoundedInduction, TLAPS

\* The chain as seen from each slot: the head and the links lead to free slots
\* only, and no slot is the target of two of them.
FreeLinks ==
  \A t \in Trees :
    /\ freelist[t] \in FreeSlots(t) \cup {0}
    /\ \A i \in FreeSlots(t) : slot[t][i] \in (FreeSlots(t) \ {freelist[t]}) \cup {0}
    /\ \A i, j \in FreeSlots(t) : i # j /\ slot[t][i] = slot[t][j] => slot[t][i] = 0

RegistryOK ==
  /\ slot \in [Trees -> Seq(Objects \cup 0..MaxRef)]
  /\ \A t \in Trees : Len(slot[t]) <= MaxRef
  /\ freelist \in [Trees -> 0..MaxRef]
  /\ FreeLinks

IInv == TypeOK /\ FreeLinks /\ NoDanglingReference /\ ExclusiveOwnership
-----------------------------------------------------------------------------
(* What one call of luaL_ref or luaL_unref does to the registry. *)

(* The slots in use hold objects; nothing else is counted as used. *)
LEMMA UsedSlotsHoldObjects ==
  ASSUME RegistryOK, NEW t \in Trees
  PROVE  /\ UsedSlots(t) = {i \in 1..Len(slot[t]) : slot[t][i] \in Objects}
         /\ UsedSlots(t) \subseteq 1..MaxRef
         /\ FreeSlots(t) \subseteq 1..MaxRef
<1>1. Len(slot[t]) \in Nat /\ Len(slot[t]) <= MaxRef
  BY DEF RegistryOK
<1>2. \A i \in 1..Len(slot[t]) : slot[t][i] \in Objects \cup 0..MaxRef
  BY DEF RegistryOK
<1>3. MaxRef \in Nat /\ Objects \cap Int = {}
  BY ConstantsAssumption
<1> QED
  BY <1>1, <1>2, <1>3 DEF UsedSlots, FreeSlots

(* luaL_ref of an object hands out a slot that was not in use, puts the object *)
(* there, and leaves every slot in use as it was.                              *)
LEMMA LuaRefObject ==
  ASSUME RegistryOK, NEW t \in Trees, NEW v \in Objects, NEW r \in Ids, LuaRef(t, v, r)
  PROVE  /\ RegistryOK'
         /\ r \in 1..MaxRef /\ r \notin UsedSlots(t)
         /\ UsedSlots(t)' = UsedSlots(t) \cup {r}
         /\ slot'[t][r] = v
         /\ \A i \in UsedSlots(t) : slot'[t][i] = slot[t][i]
         /\ \A u \in Trees \ {t} : slot'[u] = slot[u] /\ UsedSlots(u)' = UsedSlots(u)
<1> USE ConstantsAssumption
<1>0. v # Nil
  OBVIOUS
<1>1. CASE freelist[t] # 0
  <2>1. /\ r = freelist[t]
        /\ freelist' = [freelist EXCEPT ![t] = slot[t][r]]
        /\ slot' = [slot EXCEPT ![t][r] = v]
    BY <1>0, <1>1 DEF LuaRef
  <2>2. r \in FreeSlots(t) /\ r \in 1..Len(slot[t])
    BY <2>1, <1>1 DEF RegistryOK, FreeLinks, FreeSlots
  <2>3. /\ slot' \in [Trees -> Seq(Objects \cup 0..MaxRef)]
        /\ Len(slot'[t]) = Len(slot[t])
        /\ slot'[t][r] = v
        /\ \A i \in 1..Len(slot[t]) : i # r => slot'[t][i] = slot[t][i]
        /\ \A u \in Trees \ {t} : slot'[u] = slot[u]
    BY <2>1, <2>2 DEF RegistryOK
  <2>4. slot[t][r] \in (FreeSlots(t) \ {r}) \cup {0}
    BY <2>1, <2>2 DEF RegistryOK, FreeLinks
  <2>5. freelist' \in [Trees -> 0..MaxRef]
    BY <2>1, <2>2, <2>4, UsedSlotsHoldObjects DEF RegistryOK
  <2>6. FreeSlots(t)' = FreeSlots(t) \ {r}
    BY <2>3 DEF FreeSlots
  <2>7. \A u \in Trees \ {t} : FreeSlots(u)' = FreeSlots(u) /\ freelist'[u] = freelist[u]
    BY <2>3, <2>1 DEF FreeSlots, RegistryOK
  <2>8. freelist'[t] = slot[t][r]
    BY <2>1 DEF RegistryOK
  <2>9. FreeLinks'
    <3> SUFFICES ASSUME NEW u \in Trees
                 PROVE  /\ freelist'[u] \in FreeSlots(u)' \cup {0}
                        /\ \A i \in FreeSlots(u)' :
                             slot'[u][i] \in (FreeSlots(u)' \ {freelist'[u]}) \cup {0}
                        /\ \A i, j \in FreeSlots(u)' :
                             i # j /\ slot'[u][i] = slot'[u][j] => slot'[u][i] = 0
      BY DEF FreeLinks
    <3>1. CASE u = t
      <4>1. \A i \in FreeSlots(t)' : i \in FreeSlots(t) /\ i # r /\ slot'[t][i] = slot[t][i]
        BY <2>6, <2>3 DEF FreeSlots
      <4>2. freelist'[t] \in FreeSlots(t)' \cup {0}
        BY <2>8, <2>4, <2>6
      <4>3. \A i \in FreeSlots(t)' : slot'[t][i] \in (FreeSlots(t)' \ {freelist'[t]}) \cup {0}
        <5> SUFFICES ASSUME NEW i \in FreeSlots(t)'
                     PROVE  slot'[t][i] \in (FreeSlots(t)' \ {freelist'[t]}) \cup {0}
          OBVIOUS
        <5>1. i \in FreeSlots(t) /\ i # r /\ slot'[t][i] = slot[t][i]
          BY <4>1
        <5>2. slot[t][i] \in (FreeSlots(t) \ {r}) \cup {0}
          BY <5>1, <2>1 DEF RegistryOK, FreeLinks
        <5>3. slot[t][i] = slot[t][r] => slot[t][i] = 0
          BY <5>1, <2>2 DEF RegistryOK, FreeLinks
        <5> QED BY <5>1, <5>2, <5>3, <2>6, <2>8
      <4>4. \A i, j \in FreeSlots(t)' : i # j /\ slot'[t][i] = slot'[t][j] => slot'[t][i] = 0
        BY <4>1 DEF RegistryOK, FreeLinks
      <4> QED BY <3>1, <4>2, <4>3, <4>4
    <3>2. CASE u # t
      BY <3>2, <2>7, <2>3 DEF RegistryOK, FreeLinks
    <3> QED BY <3>1, <3>2
  <2>10. RegistryOK'
    BY <2>3, <2>5, <2>9 DEF RegistryOK
  <2>11. r \in 1..MaxRef /\ r \notin UsedSlots(t)
    BY <2>2, UsedSlotsHoldObjects DEF UsedSlots
  <2>12. UsedSlots(t)' = UsedSlots(t) \cup {r}
    BY <2>2, <2>3, <2>6 DEF UsedSlots
  <2>13. \A i \in UsedSlots(t) : slot'[t][i] = slot[t][i]
    BY <2>3, <2>11 DEF UsedSlots
  <2>14. \A u \in Trees \ {t} : UsedSlots(u)' = UsedSlots(u)
    BY <2>3, <2>7 DEF UsedSlots
  <2> QED BY <2>3, <2>10, <2>11, <2>12, <2>13, <2>14
<1>2. CASE freelist[t] = 0
  <2>1. /\ r = Len(slot[t]) + 1 /\ r <= MaxRef
        /\ slot' = [slot EXCEPT ![t] = Append(@, v)]
        /\ freelist' = freelist
    BY <1>0, <1>2 DEF LuaRef
  <2>2. /\ slot[t] \in Seq(Objects \cup 0..MaxRef)
        /\ slot'[t] = Append(slot[t], v)
        /\ \A u \in Trees \ {t} : slot'[u] = slot[u]
    BY <2>1 DEF RegistryOK
  <2>3. /\ slot' \in [Trees -> Seq(Objects \cup 0..MaxRef)]
        /\ Len(slot'[t]) = r
        /\ slot'[t][r] = v
        /\ \A i \in 1..Len(slot[t]) : slot'[t][i] = slot[t][i]
    BY <2>1, <2>2 DEF RegistryOK
  <2>4. FreeSlots(t)' = FreeSlots(t)
    BY <2>1, <2>2, <2>3 DEF FreeSlots
  <2>5. \A u \in Trees \ {t} : FreeSlots(u)' = FreeSlots(u)
    BY <2>2 DEF FreeSlots
  <2>6. \A u \in Trees : \A i \in FreeSlots(u) : slot'[u][i] = slot[u][i]
    BY <2>2, <2>3 DEF FreeSlots
  <2>7. FreeLinks'
    <3> SUFFICES ASSUME NEW u \in Trees
                 PROVE  /\ freelist'[u] \in FreeSlots(u)' \cup {0}
                        /\ \A i \in FreeSlots(u)' :
                             slot'[u][i] \in (FreeSlots(u)' \ {freelist'[u]}) \cup {0}
                        /\ \A i, j \in FreeSlots(u)' :
                             i # j /\ slot'[u][i] = slot'[u][j] => slot'[u][i] = 0
      BY DEF FreeLinks
    <3>1. FreeSlots(u)' = FreeSlots(u) /\ freelist'[u] = freelist[u]
      BY <2>1, <2>4, <2>5
    <3>2. \A i \in FreeSlots(u) : slot'[u][i] = slot[u][i]
      BY <2>6
    <3>3. /\ freelist[u] \in FreeSlots(u) \cup {0}
          /\ \A i \in FreeSlots(u) : slot[u][i] \in (FreeSlots(u) \ {freelist[u]}) \cup {0}
          /\ \A i, j \in FreeSlots(u) : i # j /\ slot[u][i] = slot[u][j] => slot[u][i] = 0
      BY DEF RegistryOK, FreeLinks
    <3>4. freelist'[u] \in FreeSlots(u)' \cup {0}
      BY <3>1, <3>3
    <3>5. \A i \in FreeSlots(u)' : slot'[u][i] \in (FreeSlots(u)' \ {freelist'[u]}) \cup {0}
      BY <3>1, <3>2, <3>3
    <3>6. \A i, j \in FreeSlots(u)' : i # j /\ slot'[u][i] = slot'[u][j] => slot'[u][i] = 0
      BY <3>1, <3>2, <3>3
    <3> QED BY <3>4, <3>5, <3>6
  <2>8. RegistryOK'
    BY <2>1, <2>2, <2>3, <2>7 DEF RegistryOK
  <2>9. r \in 1..MaxRef /\ r \notin UsedSlots(t)
    BY <2>1, <2>2 DEF UsedSlots
  <2>10. UsedSlots(t)' = UsedSlots(t) \cup {r}
    BY <2>1, <2>2, <2>3, <2>4, <2>9 DEF UsedSlots, FreeSlots
  <2>11. \A i \in UsedSlots(t) : slot'[t][i] = slot[t][i]
    BY <2>3 DEF UsedSlots
  <2>12. \A u \in Trees \ {t} : UsedSlots(u)' = UsedSlots(u)
    BY <2>2, <2>5 DEF UsedSlots
  <2> QED BY <2>2, <2>3, <2>8, <2>9, <2>10, <2>11, <2>12
<1> QED BY <1>1, <1>2

(* luaL_ref of any value: nil takes no slot; whatever the value, RefValue finds *)
(* it again and no slot in use has changed.                                     *)
LEMMA LuaRefValue ==
  ASSUME RegistryOK, NEW t \in Trees, NEW v \in Objects \cup {Nil}, NEW r \in Ids,
         LuaRef(t, v, r)
  PROVE  /\ RegistryOK'
         /\ r > 0 => r \notin UsedSlots(t) /\ r \in UsedSlots(t)'
         /\ RefValue(t, r)' = v
         /\ \A u \in Trees : \A i \in UsedSlots(u) :
              i \in UsedSlots(u)' /\ slot'[u][i] = slot[u][i]
<1> USE ConstantsAssumption
<1>1. CASE v = Nil
  <2>1. r = REFNIL /\ slot' = slot /\ freelist' = freelist
    BY <1>1 DEF LuaRef
  <2>2. RegistryOK' /\ \A u \in Trees : UsedSlots(u)' = UsedSlots(u)
    BY <2>1 DEF RegistryOK, FreeLinks, UsedSlots, FreeSlots
  <2>3. RefValue(t, r)' = v
    BY <1>1, <2>1 DEF RefValue, REFNIL
  <2> QED BY <2>1, <2>2, <2>3 DEF REFNIL
<1>2. CASE v # Nil
  <2>1. v \in Objects
    BY <1>2
  <2>2. /\ RegistryOK'
        /\ r \in 1..MaxRef /\ r \notin UsedSlots(t)
        /\ UsedSlots(t)' = UsedSlots(t) \cup {r}
        /\ slot'[t][r] = v
        /\ \A i \in UsedSlots(t) : slot'[t][i] = slot[t][i]
        /\ \A u \in Trees \ {t} : slot'[u] = slot[u] /\ UsedSlots(u)' = UsedSlots(u)
    BY <2>1, LuaRefObject
  <2>3. RefValue(t, r)' = v
    BY <2>2 DEF RefValue, UsedSlots
  <2>4. \A u \in Trees : \A i \in UsedSlots(u) : i \in UsedSlots(u)' /\ slot'[u][i] = slot[u][i]
    BY <2>2
  <2> QED BY <2>2, <2>3, <2>4
<1> QED BY <1>1, <1>2

(* luaL_unref of a slot in use chains that slot and touches no other; of a     *)
(* negative reference, it does nothing.                                        *)
LEMMA LuaUnrefSlot ==
  ASSUME RegistryOK, NEW t \in Trees, NEW r \in Ids,
         r > 0 => r \in UsedSlots(t),
         LuaUnref(t, r)
  PROVE  /\ RegistryOK'
         /\ \A u \in Trees : \A i \in UsedSlots(u) :
              u # t \/ i # r => i \in UsedSlots(u)' /\ slot'[u][i] = slot[u][i]
         /\ r \notin UsedSlots(t)'
         /\ \A u \in Trees : UsedSlots(u)' \subseteq UsedSlots(u)
<1> USE ConstantsAssumption
<1>1. CASE r < 0
  <2>1. slot' = slot /\ freelist' = freelist
    BY <1>1 DEF LuaUnref, Ids, NOREF, REFNIL
  <2>2. r \notin 1..Len(slot'[t])
    BY <1>1
  <2> QED BY <2>2,  <2>1 DEF RegistryOK, FreeLinks, UsedSlots, FreeSlots
<1>2. CASE r >= 0
  <2>1. /\ r \in UsedSlots(t) /\ r \in 1..MaxRef
        /\ slot' = [slot EXCEPT ![t][r] = freelist[t]]
        /\ freelist' = [freelist EXCEPT ![t] = r]
    BY <1>2 DEF LuaUnref, Ids, NOREF, REFNIL
  <2>2. freelist[t] \in 0..MaxRef /\ freelist[t] \in FreeSlots(t) \cup {0}
    BY DEF RegistryOK, FreeLinks
  <2>3. /\ slot' \in [Trees -> Seq(Objects \cup 0..MaxRef)]
        /\ Len(slot'[t]) = Len(slot[t])
        /\ r \in 1..Len(slot[t])
        /\ slot'[t][r] = freelist[t]
        /\ \A i \in 1..Len(slot[t]) : i # r => slot'[t][i] = slot[t][i]
        /\ \A u \in Trees \ {t} : slot'[u] = slot[u]
    BY <2>1, <2>2 DEF RegistryOK, UsedSlots
  <2>4. freelist' \in [Trees -> 0..MaxRef] /\ freelist'[t] = r
    BY <2>1 DEF RegistryOK
  <2>5. \A u \in Trees \ {t} : FreeSlots(u)' = FreeSlots(u) /\ freelist'[u] = freelist[u]
    BY <2>1, <2>3 DEF FreeSlots, RegistryOK
  <2>6. r \notin FreeSlots(t) /\ FreeSlots(t)' = FreeSlots(t) \cup {r}
    BY <2>1, <2>2, <2>3 DEF FreeSlots, UsedSlots
  <2>7. FreeLinks'
    <3> SUFFICES ASSUME NEW u \in Trees
                 PROVE  /\ freelist'[u] \in FreeSlots(u)' \cup {0}
                        /\ \A i \in FreeSlots(u)' :
                             slot'[u][i] \in (FreeSlots(u)' \ {freelist'[u]}) \cup {0}
                        /\ \A i, j \in FreeSlots(u)' :
                             i # j /\ slot'[u][i] = slot'[u][j] => slot'[u][i] = 0
      BY DEF FreeLinks
    <3>1. CASE u = t
      <4>1. \A i \in FreeSlots(t) : i # r /\ i \in 1..Len(slot[t]) /\ slot'[t][i] = slot[t][i]
        BY <2>3, <2>6 DEF FreeSlots
      <4>2. /\ \A i \in FreeSlots(t) : slot[t][i] \in (FreeSlots(t) \ {freelist[t]}) \cup {0}
            /\ \A i, j \in FreeSlots(t) : i # j /\ slot[t][i] = slot[t][j] => slot[t][i] = 0
        BY DEF RegistryOK, FreeLinks
      <4>3. \A i \in FreeSlots(t)' : slot'[t][i] \in (FreeSlots(t)' \ {freelist'[t]}) \cup {0}
        BY <4>1, <4>2, <2>2, <2>3, <2>4, <2>6
      <4>4. ASSUME NEW i \in FreeSlots(t)', NEW j \in FreeSlots(t)',
                   i # j, slot'[t][i] = slot'[t][j]
            PROVE  slot'[t][i] = 0
        <5>1. CASE i = r
          BY <5>1, <4>1, <4>2, <4>4, <2>3, <2>6
        <5>2. CASE j = r
          BY <5>2, <4>1, <4>2, <4>4, <2>3, <2>6
        <5>3. CASE i # r /\ j # r
          BY <5>3, <4>1, <4>2, <4>4, <2>6
        <5> QED BY <5>1, <5>2, <5>3
      <4>5. freelist'[t] \in FreeSlots(t)' \cup {0}
        BY <2>4, <2>6
      <4> QED BY <3>1, <4>3, <4>4, <4>5
    <3>2. CASE u # t
      BY <3>2, <2>5, <2>3 DEF RegistryOK, FreeLinks
    <3> QED BY <3>1, <3>2
  <2>8. RegistryOK'
    BY <2>3, <2>4, <2>7 DEF RegistryOK
  <2>9. UsedSlots(t)' = UsedSlots(t) \ {r}
    BY <2>3, <2>6 DEF UsedSlots
  <2>10. \A u \in Trees \ {t} : UsedSlots(u)' = UsedSlots(u)
    BY <2>3, <2>5 DEF UsedSlots
  <2>11. \A i \in UsedSlots(t) : i # r => slot'[t][i] = slot[t][i]
    BY <2>3 DEF UsedSlots
  <2> QED BY <2>3, <2>8, <2>9, <2>10, <2>11
<1> QED BY <1>1, <1>2 DEF Ids, NOREF, REFNIL
-----------------------------------------------------------------------------
(* What each special member does to the references: IInv is preserved, and    *)
(* only the references it names hold something else afterwards.               *)

(* The registry part of the invariant. *)
LEMMA InvariantParts ==
  IInv <=> /\ RegistryOK
           /\ at \in [Handles -> States \cup {NoState}]
           /\ id \in [Handles -> Ids]
           /\ NoDanglingReference
           /\ ExclusiveOwnership
BY DEF IInv, RegistryOK, TypeOK

(* A living reference holds nil, or the object in the slot it owns. *)
LEMMA LiveValue ==
  ASSUME IInv, NEW g \in Live
  PROVE  /\ g \in Handles /\ at[g] \in States /\ TreeAt(g) \in Trees /\ id[g] \in Ids
         /\ id[g] > 0 => id[g] \in UsedSlots(TreeAt(g)) /\ Value(g) = slot[TreeAt(g)][id[g]]
         /\ id[g] < 0 => Value(g) = Nil
         /\ Value(g) \in Objects \cup {Nil}
         /\ Value(g) # NoState
<1> USE ConstantsAssumption
<1>1. /\ g \in Handles /\ at[g] \in States /\ id[g] \in Ids
      /\ id[g] > 0 => id[g] \in UsedSlots(TreeAt(g))
  BY DEF IInv, TypeOK, Live, NoDanglingReference
<1>2. TreeAt(g) \in Trees
  BY <1>1 DEF TreeAt
<1>3. CASE id[g] > 0
  <2>1. RegistryOK
    BY InvariantParts
  <2>2. id[g] \in 1..Len(slot[TreeAt(g)]) /\ slot[TreeAt(g)][id[g]] \in Objects
    BY <1>1, <1>2, <1>3, <2>1, UsedSlotsHoldObjects
  <2> QED BY <1>1, <1>2, <1>3, <2>2 DEF Value, RefValue
<1>4. CASE id[g] < 0
  BY <1>1, <1>2, <1>4 DEF Value, RefValue, Ids, NOREF, REFNIL
<1> QED BY <1>1, <1>2, <1>3, <1>4 DEF Ids, NOREF, REFNIL

(* Putting a value into h with luaL_ref, whether h was alive before or not. *)
LEMMA Acquire ==
  ASSUME IInv, NEW h \in Handles, NEW s \in States, NEW v \in Objects \cup {Nil},
         NEW r \in Ids, LuaRef(TreeOf[s], v, r),
         at' = [at EXCEPT ![h] = s], id' = [id EXCEPT ![h] = r]
  PROVE  /\ IInv'
         /\ Live' = Live \cup {h}
         /\ Value(h)' = v
         /\ \A g \in Live \ {h} : Value(g)' = Value(g)
<1> USE ConstantsAssumption
<1>1. /\ TreeOf[s] \in Trees /\ s # NoState
      /\ at' \in [Handles -> States \cup {NoState}] /\ id' \in [Handles -> Ids]
      /\ at'[h] = s /\ id'[h] = r
      /\ \A g \in Handles \ {h} : at'[g] = at[g] /\ id'[g] = id[g]
  BY DEF IInv, TypeOK
<1>2. /\ RegistryOK'
      /\ r > 0 => r \notin UsedSlots(TreeOf[s]) /\ r \in UsedSlots(TreeOf[s])'
      /\ RefValue(TreeOf[s], r)' = v
      /\ \A u \in Trees : \A i \in UsedSlots(u) :
           i \in UsedSlots(u)' /\ slot'[u][i] = slot[u][i]
  BY <1>1, InvariantParts, LuaRefValue
<1>3. Live' = Live \cup {h} /\ TreeAt(h)' = TreeOf[s]
  BY <1>1 DEF Live, TreeAt
<1>4. \A g \in Live \ {h} : TreeAt(g)' = TreeAt(g) /\ id'[g] = id[g]
  BY <1>1 DEF Live, TreeAt
<1>5. Value(h)' = v
  BY <1>1, <1>2, <1>3 DEF Value, RefValue
<1>6. NoDanglingReference'
  <2> SUFFICES ASSUME NEW g \in Live', id'[g] > 0
               PROVE  id'[g] \in UsedSlots(TreeAt(g))'
    BY DEF NoDanglingReference
  <2>1. CASE g = h
    BY <2>1, <1>1, <1>2, <1>3 DEF UsedSlots, FreeSlots
  <2>2. CASE g # h
    BY <2>2, <1>2, <1>3, <1>4, LiveValue DEF UsedSlots, FreeSlots
  <2> QED BY <2>1, <2>2
<1>7. ExclusiveOwnership'
  <2> SUFFICES ASSUME NEW g \in Live', NEW k \in Live', g # k,
                      TreeAt(g)' = TreeAt(k)', id'[g] = id'[k], ~(id'[g] < 0)
               PROVE  FALSE
    BY DEF ExclusiveOwnership
  <2>1. id'[g] \in Ids /\ id'[g] > 0
    BY <1>1 DEF Live, Ids, NOREF, REFNIL
  <2>2. CASE g # h /\ k # h
    BY <2>1, <2>2, <1>3, <1>4 DEF IInv, ExclusiveOwnership, Ids
  <2>3. CASE g = h
    BY <2>1, <2>3, <1>1, <1>2, <1>3, <1>4, LiveValue
  <2>4. CASE k = h
    BY <2>1, <2>4, <1>1, <1>2, <1>3, <1>4, LiveValue
  <2> QED BY <2>2, <2>3, <2>4
<1>8. \A g \in Live \ {h} : Value(g)' = Value(g)
  <2> SUFFICES ASSUME NEW g \in Live \ {h} PROVE Value(g)' = Value(g)
    OBVIOUS
  <2>1. CASE id[g] > 0
    <3>1. /\ id[g] \in UsedSlots(TreeAt(g)) /\ Value(g) = slot[TreeAt(g)][id[g]]
          /\ TreeAt(g) \in Trees
      BY <2>1, LiveValue
    <3>2. /\ slot'[TreeAt(g)][id[g]] = slot[TreeAt(g)][id[g]]
          /\ id[g] \in 1..Len(slot'[TreeAt(g)])
      BY <3>1, <1>2 DEF UsedSlots
    <3> QED BY <3>1, <3>2, <1>4 DEF Value, RefValue
  <2>2. CASE id[g] < 0
    BY <2>2, <1>4, LiveValue DEF Value, RefValue, Ids
  <2> QED BY <2>1, <2>2, LiveValue DEF Ids, NOREF, REFNIL
<1>9. IInv'
  BY <1>1, <1>2, <1>6, <1>7, InvariantParts DEF IInv, RegistryOK, TypeOK
<1> QED BY <1>3, <1>5, <1>8, <1>9

(* A reference to nothing, as LuaReference(L) leaves it, owns no slot. *)
LEMMA NoneStep ==
  ASSUME IInv, NEW h \in Handles, NEW s \in States, ConstructNone(h, s)
  PROVE  /\ IInv'
         /\ h \notin Live /\ Live' = Live \cup {h}
         /\ Value(h)' = Nil
         /\ \A g \in Live : Value(g)' = Value(g)
<1> USE ConstantsAssumption
<1>1. /\ at' \in [Handles -> States \cup {NoState}] /\ id' \in [Handles -> Ids]
      /\ at[h] = NoState /\ at'[h] = s /\ s # NoState /\ id'[h] = NOREF
      /\ \A g \in Handles \ {h} : at'[g] = at[g] /\ id'[g] = id[g]
      /\ slot' = slot /\ freelist' = freelist
  BY DEF ConstructNone, IInv, TypeOK, Ids
<1>2. /\ h \notin Live /\ Live' = Live \cup {h}
      /\ \A g \in Live : g # h /\ TreeAt(g)' = TreeAt(g) /\ id'[g] = id[g]
  BY <1>1 DEF Live, TreeAt
<1>3. Value(h)' = Nil /\ \A g \in Live : Value(g)' = Value(g)
  BY <1>1, <1>2 DEF Value, RefValue, NOREF
<1>4. \A g \in Live : UsedSlots(TreeAt(g))' = UsedSlots(TreeAt(g))
  BY <1>1, <1>2 DEF UsedSlots, FreeSlots
<1>5. NoDanglingReference' /\ ExclusiveOwnership'
  BY <1>1, <1>2, <1>4 DEF IInv, NoDanglingReference, ExclusiveOwnership, NOREF
<1>6. TypeOK'
  BY <1>1 DEF IInv, TypeOK
<1>7. FreeLinks'
  <2>1. slot' = slot /\ freelist' = freelist
    BY <1>1
  <2>2. FreeLinks
    BY DEF IInv
  <2> QED BY <2>1, <2>2 DEF FreeLinks, FreeSlots
<1> QED BY <1>2, <1>3, <1>5, <1>6, <1>7 DEF IInv

(* Taking over the identifier of g: its value is now in h, and g holds nil    *)
(* (also when g is h).                                                        *)
LEMMA Steal ==
  ASSUME IInv, NEW h \in Handles, NEW g \in Live, StealInto(h, g)
  PROVE  /\ IInv'
         /\ Live' = Live \cup {h}
         /\ h # g => Value(h)' = Value(g)
         /\ Value(g)' = Nil
         /\ \A k \in Live \ {g, h} : Value(k)' = Value(k)
<1> USE ConstantsAssumption
<1>1. /\ g \in Handles /\ at[g] \in States /\ id[g] \in Ids
      /\ at[g] # NoState /\ TreeAt(g) \in Trees
  BY LiveValue DEF Live
<1>2. /\ at' \in [Handles -> States \cup {NoState}] /\ id' \in [Handles -> Ids]
      /\ at'[h] = at[g] /\ at'[g] = at[g] /\ id'[g] = REFNIL
      /\ h # g => id'[h] = id[g]
      /\ \A k \in Handles \ {g, h} : at'[k] = at[k] /\ id'[k] = id[k]
  BY <1>1 DEF StealInto, IInv, TypeOK, Ids
<1>3. slot' = slot /\ freelist' = freelist
  BY DEF StealInto
<1>4. RegistryOK' /\ \A u \in Trees : UsedSlots(u)' = UsedSlots(u)
  BY <1>3, InvariantParts DEF RegistryOK, FreeLinks, UsedSlots, FreeSlots
<1>5. /\ Live' = Live \cup {h}
      /\ TreeAt(h)' = TreeAt(g) /\ TreeAt(g)' = TreeAt(g)
      /\ \A k \in Live \ {g, h} : TreeAt(k)' = TreeAt(k)
  BY <1>1, <1>2 DEF Live, TreeAt
<1>6. h # g => Value(h)' = Value(g)
  BY <1>2, <1>3, <1>5 DEF Value, RefValue
<1>7. Value(g)' = Nil
  BY <1>2 DEF Value, RefValue, REFNIL
<1>8. \A k \in Live \ {g, h} : Value(k)' = Value(k)
  BY <1>2, <1>3, <1>5 DEF Value, RefValue, Live
<1>9. NoDanglingReference'
  <2> SUFFICES ASSUME NEW k \in Live', id'[k] > 0
               PROVE  id'[k] \in UsedSlots(TreeAt(k))'
    BY DEF NoDanglingReference
  <2>1. k # g
    BY <1>2 DEF REFNIL
  <2>2. CASE k = h
    <3>1. id[g] > 0 /\ id[g] \in UsedSlots(TreeAt(g))
      BY <2>1, <2>2, <1>2, LiveValue
    <3>2. UsedSlots(TreeAt(k))' = UsedSlots(TreeAt(g))
      BY <2>2, <1>1, <1>4, <1>5 DEF UsedSlots, FreeSlots
    <3> QED BY <2>1, <2>2, <3>1, <3>2, <1>2
  <2>3. CASE k # h
    <3>1. k \in Live /\ id'[k] = id[k] /\ TreeAt(k)' = TreeAt(k)
      BY <2>1, <2>3, <1>2, <1>5 DEF Live
    <3>2. id[k] \in UsedSlots(TreeAt(k)) /\ TreeAt(k) \in Trees
      BY <3>1, LiveValue
    <3> QED BY <3>1, <3>2, <1>3 DEF UsedSlots, FreeSlots
  <2> QED BY <2>2, <2>3
<1>10. ExclusiveOwnership'
  <2> SUFFICES ASSUME NEW j \in Live', NEW k \in Live', j # k,
                      TreeAt(j)' = TreeAt(k)', id'[j] = id'[k], ~(id'[j] < 0)
               PROVE  FALSE
    BY DEF ExclusiveOwnership
  <2>1. j # g /\ k # g
    BY <1>2 DEF REFNIL
  <2>2. CASE j # h /\ k # h
    BY <2>1, <2>2, <1>2, <1>5 DEF IInv, ExclusiveOwnership, Live
  <2>3. CASE j = h
    <3>1. k \in Live /\ k # g /\ TreeAt(k) = TreeAt(g) /\ id[k] = id[g]
      BY <2>1, <2>3, <1>2, <1>5 DEF Live
    <3> QED BY <3>1, <2>1, <2>3, <1>2 DEF IInv, ExclusiveOwnership
  <2>4. CASE k = h
    <3>1. j \in Live /\ j # g /\ TreeAt(j) = TreeAt(g) /\ id[j] = id[g]
      BY <2>1, <2>4, <1>2, <1>5 DEF Live
    <3> QED BY <3>1, <2>1, <2>4, <1>2 DEF IInv, ExclusiveOwnership
  <2> QED BY <2>2, <2>3, <2>4
<1>11. IInv'
  BY <1>2, <1>4, <1>9, <1>10 DEF IInv, RegistryOK, TypeOK
<1> QED BY <1>5, <1>6, <1>7, <1>8, <1>11

(* The destructor releases a slot no other reference can own. *)
LEMMA Release ==
  ASSUME IInv, NEW h \in Handles, Destroy(h)
  PROVE  /\ IInv'
         /\ h \in Live /\ Live' = Live \ {h}
         /\ \A g \in Live \ {h} : Value(g)' = Value(g)
<1> USE ConstantsAssumption
<1>1. /\ h \in Live /\ TreeAt(h) \in Trees /\ id[h] \in Ids
      /\ id[h] > 0 => id[h] \in UsedSlots(TreeAt(h))
      /\ LuaUnref(TreeAt(h), id[h])
  BY LiveValue DEF Destroy
<1>2. /\ RegistryOK'
      /\ \A u \in Trees : \A i \in UsedSlots(u) :
           u # TreeAt(h) \/ i # id[h] => i \in UsedSlots(u)' /\ slot'[u][i] = slot[u][i]
  BY <1>1, InvariantParts, LuaUnrefSlot
<1>3. /\ at' \in [Handles -> States \cup {NoState}] /\ id' \in [Handles -> Ids]
      /\ at'[h] = NoState
      /\ \A g \in Handles \ {h} : at'[g] = at[g] /\ id'[g] = id[g]
  BY DEF Destroy, IInv, TypeOK, Ids
<1>4. /\ Live' = Live \ {h}
      /\ \A g \in Live \ {h} : TreeAt(g)' = TreeAt(g) /\ id'[g] = id[g]
  BY <1>3 DEF Live, TreeAt
<1>5. ASSUME NEW g \in Live \ {h}, id[g] > 0
      PROVE  /\ id[g] \in UsedSlots(TreeAt(g))'
             /\ slot'[TreeAt(g)][id[g]] = slot[TreeAt(g)][id[g]]
             /\ id[g] \in 1..Len(slot'[TreeAt(g)])
  <2>1. id[g] \in UsedSlots(TreeAt(g)) /\ TreeAt(g) \in Trees
    BY <1>5, LiveValue
  <2>2. TreeAt(g) # TreeAt(h) \/ id[g] # id[h]
    BY <1>1, <1>5 DEF IInv, ExclusiveOwnership, Ids, NOREF, REFNIL
  <2>3. /\ id[g] \in UsedSlots(TreeAt(g))'
        /\ slot'[TreeAt(g)][id[g]] = slot[TreeAt(g)][id[g]]
    BY <2>1, <2>2, <1>2, <1>4 DEF UsedSlots, FreeSlots
  <2> QED BY <2>3, <1>4 DEF UsedSlots
<1>6. NoDanglingReference'
  BY <1>4, <1>5 DEF NoDanglingReference
<1>7. ExclusiveOwnership'
  BY <1>4 DEF IInv, ExclusiveOwnership
<1>8. \A g \in Live \ {h} : Value(g)' = Value(g)
  <2> SUFFICES ASSUME NEW g \in Live \ {h} PROVE Value(g)' = Value(g)
    OBVIOUS
  <2>1. CASE id[g] > 0
    BY <2>1, <1>4, <1>5, LiveValue DEF Value, RefValue
  <2>2. CASE id[g] < 0
    BY <2>2, <1>4, LiveValue DEF Value, RefValue, Ids, NOREF, REFNIL
  <2> QED BY <2>1, <2>2, LiveValue DEF Ids, NOREF, REFNIL
<1>9. IInv'
  BY <1>2, <1>3, <1>6, <1>7 DEF IInv, RegistryOK, TypeOK
<1> QED BY <1>1, <1>4, <1>8, <1>9

(* Passing a reference to another lua_State of its own instance. *)
LEMMA KeepTree ==
  ASSUME IInv, NEW h \in Live, NEW s \in States, TreeOf[s] = TreeAt(h),
         ChangeOwnershipTo(h, s)
  PROVE  /\ IInv'
         /\ Live' = Live
         /\ \A g \in Live : Value(g)' = Value(g)
<1> USE ConstantsAssumption
<1>1. /\ at' \in [Handles -> States \cup {NoState}]
      /\ at'[h] = s /\ s # NoState
      /\ \A g \in Handles \ {h} : at'[g] = at[g]
      /\ slot' = slot /\ freelist' = freelist /\ id' = id
  BY DEF ChangeOwnershipTo, IInv, TypeOK, Live
<1>2. Live' = Live /\ \A g \in Live : TreeAt(g)' = TreeAt(g)
  BY <1>1 DEF Live, TreeAt
<1>3. \A g \in Live : Value(g)' = Value(g)
  BY <1>1, <1>2 DEF Value, RefValue
<1>4. \A g \in Live : UsedSlots(TreeAt(g))' = UsedSlots(TreeAt(g))
  BY <1>1, <1>2 DEF UsedSlots, FreeSlots
<1>5. NoDanglingReference' /\ ExclusiveOwnership'
  BY <1>1, <1>2, <1>4 DEF IInv, NoDanglingReference, ExclusiveOwnership
<1>6. TypeOK'
  BY <1>1 DEF IInv, TypeOK
<1>7. FreeLinks'
  <2>1. slot' = slot /\ freelist' = freelist
    BY <1>1
  <2>2. FreeLinks
    BY DEF IInv
  <2> QED BY <2>1, <2>2 DEF FreeLinks, FreeSlots
<1> QED BY <1>2, <1>3, <1>5, <1>6, <1>7 DEF IInv
(* Assigning a value that is no reference: h owns nothing any more. *)
LEMMA PlainStep ==
  ASSUME IInv, NEW h \in Handles, LuaValueAssignPlain(h)
  PROVE  /\ IInv'
         /\ h \in Live /\ Live' = Live
         /\ Value(h)' = Nil
         /\ \A g \in Live \ {h} : Value(g)' = Value(g)
<1> USE ConstantsAssumption
<1>1. /\ h \in Live
      /\ id' \in [Handles -> Ids] /\ id'[h] = NOREF
      /\ \A g \in Handles \ {h} : id'[g] = id[g]
      /\ slot' = slot /\ freelist' = freelist /\ at' = at
  BY DEF LuaValueAssignPlain, IInv, TypeOK, Ids
<1>2. Live' = Live /\ \A g \in Live : TreeAt(g)' = TreeAt(g)
  BY <1>1 DEF Live, TreeAt
<1>3. Value(h)' = Nil /\ \A g \in Live \ {h} : Value(g)' = Value(g)
  BY <1>1, <1>2 DEF Value, RefValue, NOREF, Live
<1>4. \A g \in Live : UsedSlots(TreeAt(g))' = UsedSlots(TreeAt(g))
  BY <1>1, <1>2 DEF UsedSlots, FreeSlots
<1>5. NoDanglingReference' /\ ExclusiveOwnership'
  BY <1>1, <1>2, <1>4 DEF IInv, NoDanglingReference, ExclusiveOwnership, NOREF, Live
<1>6. TypeOK'
  BY <1>1 DEF IInv, TypeOK
<1>7. FreeLinks'
  <2>1. slot' = slot /\ freelist' = freelist
    BY <1>1
  <2>2. FreeLinks
    BY DEF IInv
  <2> QED BY <2>1, <2>2 DEF FreeLinks, FreeSlots
<1> QED BY <1>1, <1>2, <1>3, <1>5, <1>6, <1>7 DEF IInv
-----------------------------------------------------------------------------
(* The invariant. *)

(* No registry has a slot and no reference is alive at the start. *)
LEMMA InitInvariant == Init => IInv
<1> USE ConstantsAssumption
<1> SUFFICES ASSUME Init PROVE IInv
  OBVIOUS
<1>1. \A t \in Trees : slot[t] = <<>> /\ freelist[t] = 0
  BY DEF Init
<1>2. Live = {}
  BY DEF Init, Live
<1>3. TypeOK
  BY <1>1 DEF Init, TypeOK, Ids
<1>4. FreeLinks
  <2>1. \A t \in Trees : FreeSlots(t) = {}
    BY <1>1 DEF FreeSlots
  <2> QED BY <1>1, <2>1 DEF FreeLinks
<1> QED BY <1>2, <1>3, <1>4 DEF IInv, NoDanglingReference, ExclusiveOwnership

(* Every special member preserves the invariant, and so does passing a         *)
(* reference on within its instance.                                           *)
LEMMA StepInvariant == IInv /\ [Next]_vars => IInv'
<1> USE ConstantsAssumption
<1> SUFFICES ASSUME IInv, [Next]_vars PROVE IInv'
  OBVIOUS
<1>1. ASSUME NEW h \in Handles, NEW s \in States, ConstructNone(h, s) PROVE IInv'
  BY <1>1, NoneStep
<1>2. ASSUME NEW h \in Handles, NEW s \in States, NEW v \in StackValues(s), Construct(h, s, v)
      PROVE  IInv'
  BY <1>2, Acquire DEF Construct, StackValues
<1>3. ASSUME NEW h \in Handles, NEW g \in Handles, g \in Live, CloneInto(h, g) PROVE IInv'
  BY <1>3, LiveValue, Acquire DEF CloneInto, TreeAt
<1>4. ASSUME NEW h \in Handles, NEW g \in Handles, g \in Live, StealInto(h, g) PROVE IInv'
  BY <1>4, Steal
<1>5. ASSUME NEW h \in Handles, Destroy(h) PROVE IInv'
  BY <1>5, Release
<1>6. ASSUME NEW h \in Live, NEW s \in States, TreeOf[s] = TreeAt(h), ChangeOwnershipTo(h, s)
      PROVE  IInv'
  BY <1>6, KeepTree
<1>7. ASSUME NEW h \in Handles, LuaValueAssignPlain(h) PROVE IInv'
  BY <1>7, PlainStep
<1>8. CASE UNCHANGED vars
  BY <1>8 DEF vars, IInv, TypeOK, FreeLinks, FreeSlots, NoDanglingReference,
              ExclusiveOwnership, UsedSlots, Live, TreeAt
<1> QED
  BY <1>1, <1>2, <1>3, <1>4, <1>5, <1>6, <1>7, <1>8
  DEF Next, SpecialMembers, CopyConstruct, MoveConstruct, CopyAssign, MoveAssign, LuaValueAssign

(* IInv is an inductive invariant of the specification. *)
THEOREM Invariant == Spec => []IInv
BY InitInvariant, StepInvariant, PTL DEF Spec

(* Slots hold objects or links and stay within bounds; references hold a       *)
(* lua_State and an identifier luaL_ref can have returned.                     *)
THEOREM TypeCorrect == Spec => []TypeOK
<1>1. IInv => TypeOK
  BY DEF IInv
<1> QED BY <1>1, Invariant, PTL

(* No living reference ever names a slot that was put back into the free list. *)
THEOREM NoDangling == Spec => []NoDanglingReference
<1>1. IInv => NoDanglingReference
  BY DEF IInv
<1> QED BY <1>1, Invariant, PTL

(* No two living references ever own the same slot, so no destructor can       *)
(* release a slot under another reference.                                     *)
THEOREM Exclusive == Spec => []ExclusiveOwnership
<1>1. IInv => ExclusiveOwnership
  BY DEF IInv
<1> QED BY <1>1, Invariant, PTL

(* Every step leaves every reference with a value of its own instance.         *)
LEMMA StepHome == IInv /\ ValuesStayHome /\ [Next]_vars => ValuesStayHome'
<1> USE ConstantsAssumption
<1> DEFINE AtHome(v, t) == v # Nil => v \in Objects /\ Home[v] = t
<1> SUFFICES ASSUME IInv, \A k \in Live : AtHome(Value(k), TreeAt(k)), [Next]_vars
             PROVE  \A k \in Live' : AtHome(Value(k)', TreeAt(k)')
  BY DEF ValuesStayHome
<1>1. ASSUME NEW h \in Handles, NEW s \in States, ConstructNone(h, s)
      PROVE  \A k \in Live' : AtHome(Value(k)', TreeAt(k)')
  <2>1. /\ h \notin Live /\ Live' = Live \cup {h} /\ Value(h)' = Nil
        /\ \A k \in Live : Value(k)' = Value(k)
    BY <1>1, NoneStep
  <2>2. \A k \in Live : TreeAt(k)' = TreeAt(k)
    BY <1>1, <2>1 DEF ConstructNone, TreeAt, Live, IInv, TypeOK
  <2> QED BY <2>1, <2>2
<1>2. ASSUME NEW h \in Handles, NEW s \in States, NEW v \in StackValues(s), Construct(h, s, v)
      PROVE  \A k \in Live' : AtHome(Value(k)', TreeAt(k)')
  <2>1. /\ v \in Objects \cup {Nil} /\ AtHome(v, TreeOf[s])
        /\ at' = [at EXCEPT ![h] = s]
    BY <1>2 DEF Construct, StackValues
  <2>2. /\ Live' = Live \cup {h} /\ Value(h)' = v
        /\ \A k \in Live \ {h} : Value(k)' = Value(k)
    BY <1>2, <2>1, Acquire DEF Construct
  <2>3. TreeAt(h)' = TreeOf[s] /\ \A k \in Live \ {h} : TreeAt(k)' = TreeAt(k)
    BY <2>1 DEF TreeAt, Live, IInv, TypeOK
  <2> QED BY <2>1, <2>2, <2>3
<1>3. ASSUME NEW h \in Handles, NEW g \in Handles, g \in Live, CloneInto(h, g)
      PROVE  \A k \in Live' : AtHome(Value(k)', TreeAt(k)')
  <2>1. /\ at[g] \in States /\ Value(g) \in Objects \cup {Nil}
        /\ at' = [at EXCEPT ![h] = at[g]]
    BY <1>3, LiveValue DEF CloneInto
  <2>2. PICK r \in Ids : LuaRef(TreeOf[at[g]], Value(g), r) /\ id' = [id EXCEPT ![h] = r]
    BY <1>3 DEF CloneInto, TreeAt
  <2>3. /\ Live' = Live \cup {h} /\ Value(h)' = Value(g)
        /\ \A k \in Live \ {h} : Value(k)' = Value(k)
    BY <2>1, <2>2, Acquire
  <2>4. TreeAt(h)' = TreeAt(g) /\ \A k \in Live \ {h} : TreeAt(k)' = TreeAt(k)
    BY <2>1 DEF TreeAt, Live, IInv, TypeOK
  <2> QED BY <1>3, <2>3, <2>4
<1>4. ASSUME NEW h \in Handles, NEW g \in Handles, g \in Live, StealInto(h, g)
      PROVE  \A k \in Live' : AtHome(Value(k)', TreeAt(k)')
  <2>1. /\ Live' = Live \cup {h} /\ Value(g)' = Nil
        /\ h # g => Value(h)' = Value(g)
        /\ \A k \in Live \ {g, h} : Value(k)' = Value(k)
    BY <1>4, Steal
  <2>2. TreeAt(h)' = TreeAt(g) /\ \A k \in Live \ {h} : TreeAt(k)' = TreeAt(k)
    BY <1>4 DEF StealInto, TreeAt, Live, IInv, TypeOK
  <2> QED BY <1>4, <2>1, <2>2
<1>5. ASSUME NEW h \in Handles, Destroy(h)
      PROVE  \A k \in Live' : AtHome(Value(k)', TreeAt(k)')
  <2>1. /\ h \in Live /\ Live' = Live \ {h}
        /\ \A k \in Live \ {h} : Value(k)' = Value(k)
    BY <1>5, Release
  <2>2. \A k \in Live \ {h} : TreeAt(k)' = TreeAt(k)
    BY <1>5 DEF Destroy, TreeAt, Live, IInv, TypeOK
  <2> QED BY <2>1, <2>2
<1>6. ASSUME NEW h \in Live, NEW s \in States, TreeOf[s] = TreeAt(h), ChangeOwnershipTo(h, s)
      PROVE  \A k \in Live' : AtHome(Value(k)', TreeAt(k)')
  <2>1. Live' = Live /\ \A k \in Live : Value(k)' = Value(k)
    BY <1>6, KeepTree
  <2>2. \A k \in Live : TreeAt(k)' = TreeAt(k)
    BY <1>6 DEF ChangeOwnershipTo, TreeAt, Live, IInv, TypeOK
  <2> QED BY <2>1, <2>2
<1>7. ASSUME NEW h \in Handles, LuaValueAssignPlain(h)
      PROVE  \A k \in Live' : AtHome(Value(k)', TreeAt(k)')
  <2>1. /\ h \in Live /\ Live' = Live /\ Value(h)' = Nil
        /\ \A k \in Live \ {h} : Value(k)' = Value(k)
    BY <1>7, PlainStep
  <2>2. \A k \in Live : TreeAt(k)' = TreeAt(k)
    BY <1>7 DEF LuaValueAssignPlain, TreeAt
  <2> QED BY <2>1, <2>2
<1>8. CASE UNCHANGED vars
  BY <1>8 DEF vars, Value, RefValue, TreeAt, Live
<1> QED
  BY <1>1, <1>2, <1>3, <1>4, <1>5, <1>6, <1>7, <1>8
  DEF Next, SpecialMembers, CopyConstruct, MoveConstruct, CopyAssign, MoveAssign, LuaValueAssign

(* Whatever is assigned to it, a reference only ever denotes objects of the    *)
(* instance its registry belongs to.                                           *)
THEOREM StaysHome == Spec => []ValuesStayHome
<1>1. Init => ValuesStayHome
  BY DEF Init, ValuesStayHome, Live
<1> QED BY <1>1, StepHome, Invariant, PTL DEF Spec
-----------------------------------------------------------------------------
(* References implement plain value variables. *)

(* Before the first reference is built, every variable is dead. *)
LEMMA InitRefines == Init => Handle!Init
BY DEF Init, Handle!Init, Contents

(* Every step does to the value variables what the operation it names should.  *)
LEMMA StepRefines == IInv /\ [Next]_vars => [Handle!Next]_<<Contents, op>>
<1> USE ConstantsAssumption
<1> SUFFICES ASSUME IInv, [Next]_vars PROVE Handle!Next \/ UNCHANGED <<Contents, op>>
  OBVIOUS
<1>0. /\ \A g \in Handles : Contents[g] = IF g \in Live THEN Value(g) ELSE NoState
      /\ \A g \in Handles : Contents'[g] = IF g \in Live' THEN Value(g)' ELSE NoState
      /\ \A g \in Live : Contents[g] = Value(g) /\ Contents[g] # NoState
  BY LiveValue DEF Contents, Live
<1>1. ASSUME NEW h \in Handles, NEW s \in States, ConstructNone(h, s),
             op' = <<"ConstructNone", h>>
      PROVE  Handle!ConstructNone(h)
  <2>1. /\ h \notin Live /\ Live' = Live \cup {h} /\ Value(h)' = Nil
        /\ \A g \in Live : Value(g)' = Value(g)
    BY <1>1, NoneStep
  <2>2. Contents' = [Contents EXCEPT ![h] = Nil]
    BY <1>0, <2>1 DEF Contents, Live
  <2> QED BY <1>0, <1>1, <2>1, <2>2 DEF Handle!ConstructNone
<1>2. ASSUME NEW h \in Handles, NEW s \in States, NEW v \in StackValues(s), Construct(h, s, v),
             op' = <<"Construct", h, v>>
      PROVE  v \in Handle!Content /\ Handle!Construct(h, v)
  <2>1. /\ h \notin Live /\ Live' = Live \cup {h} /\ Value(h)' = v
        /\ \A g \in Live \ {h} : Value(g)' = Value(g)
        /\ v \in Objects \cup {Nil}
    BY <1>2, Acquire DEF Construct, StackValues, Live
  <2>2. Contents' = [Contents EXCEPT ![h] = v]
    BY <1>0, <2>1 DEF Contents, Live
  <2> QED BY <1>0, <1>2, <2>1, <2>2 DEF Handle!Construct, Handle!Content
<1>3. ASSUME NEW h \in Handles, NEW g \in Handles, g \in Live, CloneInto(h, g)
      PROVE  /\ h \in Live => Contents[h] # NoState
             /\ h \notin Live => Contents[h] = NoState
             /\ Contents[g] # NoState
             /\ Contents' = [Contents EXCEPT ![h] = Contents[g]]
  <2>1. /\ Live' = Live \cup {h} /\ Value(h)' = Value(g)
        /\ \A k \in Live \ {h} : Value(k)' = Value(k)
    <3>1. /\ at[g] \in States /\ Value(g) \in Objects \cup {Nil}
          /\ at' = [at EXCEPT ![h] = at[g]]
      BY <1>3, LiveValue DEF CloneInto
    <3>2. PICK r \in Ids : LuaRef(TreeOf[at[g]], Value(g), r) /\ id' = [id EXCEPT ![h] = r]
      BY <1>3 DEF CloneInto, TreeAt
    <3> QED BY <3>1, <3>2, Acquire
  <2>2. Contents' = [Contents EXCEPT ![h] = Contents[g]]
    BY <1>0, <1>3, <2>1 DEF Contents, Live
  <2> QED BY <1>0, <1>3, <2>2
<1>4. ASSUME NEW h \in Handles, NEW g \in Handles, g \in Live, StealInto(h, g), h \notin Live,
             op' = <<"MoveConstruct", h, g>>
      PROVE  Handle!MoveConstruct(h, g)
  <2>1. /\ Live' = Live \cup {h} /\ Value(h)' = Value(g) /\ Value(g)' = Nil
        /\ \A k \in Live \ {g, h} : Value(k)' = Value(k)
    BY <1>4, Steal
  <2>2. Contents' = [Contents EXCEPT ![h] = Contents[g], ![g] = Nil]
    BY <1>0, <1>4, <2>1 DEF Contents, Live
  <2> QED BY <1>0, <1>4, <2>2 DEF Handle!MoveConstruct
<1>5. ASSUME NEW h \in Handles, NEW g \in Handles, h \in Live, g \in Live, StealInto(h, g),
             op' = <<"MoveAssign", h, g>>
      PROVE  Handle!MoveAssign(h, g)
  <2>1. /\ Live' = Live \cup {h} /\ Value(g)' = Nil
        /\ h # g => Value(h)' = Value(g)
        /\ \A k \in Live \ {g, h} : Value(k)' = Value(k)
    BY <1>5, Steal
  <2>2. Contents' = [Contents EXCEPT ![h] = Contents[g], ![g] = Nil]
    <3>1. CASE h = g
      <4>1. Contents' = [Contents EXCEPT ![g] = Nil]
        BY <3>1, <1>0, <1>5, <2>1 DEF Contents, Live
      <4> QED BY <3>1, <4>1 DEF Contents
    <3>2. CASE h # g
      BY <3>2, <1>0, <1>5, <2>1 DEF Contents, Live
    <3> QED BY <3>1, <3>2
  <2> QED BY <1>0, <1>5, <2>1, <2>2 DEF Handle!MoveAssign
<1>6. ASSUME NEW h \in Handles, Destroy(h), op' = <<"Destroy", h>>
      PROVE  Handle!Destroy(h)
  <2>1. /\ h \in Live /\ Live' = Live \ {h}
        /\ \A g \in Live \ {h} : Value(g)' = Value(g)
    BY <1>6, Release
  <2>2. Contents' = [Contents EXCEPT ![h] = NoState]
    BY <1>0, <2>1 DEF Contents, Live
  <2> QED BY <1>0, <1>6, <2>1, <2>2 DEF Handle!Destroy
<1>7. ASSUME NEW h \in Live, NEW s \in States, TreeOf[s] = TreeAt(h), ChangeOwnershipTo(h, s),
             op' = <<"ChangeOwnershipTo", h>>
      PROVE  Handle!ChangeOwnershipTo(h)
  <2>1. Live' = Live /\ \A g \in Live : Value(g)' = Value(g)
    BY <1>7, KeepTree
  <2>2. Contents' = Contents /\ h \in Handles
    BY <1>0, <2>1 DEF Contents, Live
  <2> QED BY <1>0, <1>7, <2>2 DEF Handle!ChangeOwnershipTo
<1>8. ASSUME NEW h \in Handles, LuaValueAssignPlain(h)
      PROVE  Contents[h] # NoState /\ Contents' = [Contents EXCEPT ![h] = Nil]
  <2>1. /\ h \in Live /\ Live' = Live /\ Value(h)' = Nil
        /\ \A g \in Live \ {h} : Value(g)' = Value(g)
    BY <1>8, PlainStep
  <2>2. Contents' = [Contents EXCEPT ![h] = Nil]
    BY <1>0, <2>1 DEF Contents, Live
  <2> QED BY <1>0, <2>1, <2>2
<1>9. ASSUME NEW h \in Handles, NEW g \in Handles, CopyConstruct(h, g),
             op' = <<"CopyConstruct", h, g>>
      PROVE  Handle!CopyConstruct(h, g)
  BY <1>3, <1>9 DEF CopyConstruct, Handle!CopyConstruct
<1>10. ASSUME NEW h \in Handles, NEW g \in Handles, CopyAssign(h, g),
              op' = <<"CopyAssign", h, g>>
       PROVE  Handle!CopyAssign(h, g)
  BY <1>3, <1>10 DEF CopyAssign, Handle!CopyAssign
<1>11. ASSUME NEW h \in Handles, NEW g \in Handles, LuaValueAssign(h, g),
              op' = <<"LuaValueAssign", h, g>>
       PROVE  Handle!LuaValueAssign(h, g)
  <2>1. CASE g # h
    BY <1>3, <1>11, <2>1 DEF LuaValueAssign, Handle!LuaValueAssign
  <2>2. CASE g = h
    BY <1>0, <1>8, <1>11, <2>2 DEF LuaValueAssign, Handle!LuaValueAssign
  <2> QED BY <2>1, <2>2
<1>12. ASSUME NEW h \in Handles, LuaValueAssignPlain(h), op' = <<"LuaValueAssignPlain", h>>
       PROVE  Handle!LuaValueAssignPlain(h)
  BY <1>8, <1>12 DEF Handle!LuaValueAssignPlain
<1>13. CASE UNCHANGED vars
  BY <1>13 DEF vars, Contents, Value, RefValue, TreeAt
<1>14. ASSUME SpecialMembers PROVE Handle!Next
  <2>1. ASSUME NEW h \in Handles, NEW s \in States,
               \/ ConstructNone(h, s) /\ op' = <<"ConstructNone", h>>
               \/ \E v \in StackValues(s) : Construct(h, s, v) /\ op' = <<"Construct", h, v>>
        PROVE  Handle!Next
    BY <1>1, <1>2, <2>1 DEF Handle!Next
  <2>2. ASSUME NEW h \in Handles, NEW g \in Handles,
               \/ CopyConstruct(h, g) /\ op' = <<"CopyConstruct", h, g>>
               \/ MoveConstruct(h, g) /\ op' = <<"MoveConstruct", h, g>>
               \/ CopyAssign(h, g) /\ op' = <<"CopyAssign", h, g>>
               \/ MoveAssign(h, g) /\ op' = <<"MoveAssign", h, g>>
               \/ LuaValueAssign(h, g) /\ op' = <<"LuaValueAssign", h, g>>
        PROVE  Handle!Next
    BY <1>4, <1>5, <1>9, <1>10, <1>11, <2>2 DEF Handle!Next, MoveConstruct, MoveAssign
  <2>3. ASSUME NEW h \in Handles,
               \/ LuaValueAssignPlain(h) /\ op' = <<"LuaValueAssignPlain", h>>
               \/ Destroy(h) /\ op' = <<"Destroy", h>>
        PROVE  Handle!Next
    BY <1>6, <1>12, <2>3 DEF Handle!Next
  <2> QED BY <1>14, <2>1, <2>2, <2>3 DEF SpecialMembers
<1> QED BY <1>7, <1>13, <1>14 DEF Next, Live, Handle!Next

(* However slots are shared out, recycled and lost, each operation has on what *)
(* the references denote the one effect ValueHandles gives it: a reference     *)
(* denotes what was last put into it, and no copy, move or assignment loses or *)
(* changes a value, but for LuaValue's a = a.                                  *)
THEOREM Refinement == Spec => ImplementsValueHandles
<1>1. Handle!Spec <=> Handle!Init /\ [][Handle!Next]_<<Contents, op>>
  BY DEF Handle!Spec, Handle!vars
<1> QED BY <1>1, InitRefines, StepRefines, Invariant, PTL DEF Spec, ImplementsValueHandles
-----------------------------------------------------------------------------
(* Which slots are lost, and how. *)

Owns(h, t, i) == h \in Live /\ TreeAt(h) = t /\ id[h] = i

(* What a step may do to the slots and their owners: a slot in use that nothing *)
(* owns stays as it is; a slot that comes into use gets an owner; a slot gets   *)
(* an owner when it comes into use or from another owner; an owner of a slot    *)
(* that stays in use hands it on or lives on without it.                        *)
OwnersStep ==
  \A t \in Trees, i \in 1..MaxRef :
    /\ i \in UsedSlots(t) /\ (\A h \in Handles : ~Owns(h, t, i)) =>
         i \in UsedSlots(t)' /\ slot'[t][i] = slot[t][i]
    /\ i \in UsedSlots(t)' /\ i \notin UsedSlots(t) => \E h \in Handles : Owns(h, t, i)'
    /\ \A h \in Handles : Owns(h, t, i)' =>
         i \notin UsedSlots(t) \/ \E g \in Handles : Owns(g, t, i)
    /\ \A h \in Handles : Owns(h, t, i) /\ i \in UsedSlots(t)' =>
         (\E g \in Handles : Owns(g, t, i)') \/ (h \in Live' /\ ~Owns(h, t, i)')

(* Putting a value into h with luaL_ref. *)
LEMMA AcquireOwners ==
  ASSUME IInv, NEW h \in Handles, NEW s \in States, NEW v \in Objects \cup {Nil},
         NEW r \in Ids, LuaRef(TreeOf[s], v, r),
         at' = [at EXCEPT ![h] = s], id' = [id EXCEPT ![h] = r]
  PROVE  OwnersStep
<1> USE ConstantsAssumption
<1>1. /\ TreeOf[s] \in Trees /\ at'[h] = s /\ s # NoState /\ id'[h] = r
      /\ \A g \in Handles \ {h} : at'[g] = at[g] /\ id'[g] = id[g]
  BY DEF IInv, TypeOK
<1>2. /\ \A t \in Trees : \A i \in UsedSlots(t) : i \in UsedSlots(t)' /\ slot'[t][i] = slot[t][i]
      /\ \A t \in Trees : \A i \in UsedSlots(t)' :
           i \in UsedSlots(t) \/ (t = TreeOf[s] /\ i = r)
      /\ r > 0 => r \notin UsedSlots(TreeOf[s])
  <2>1. CASE v = Nil
    <3>1. slot' = slot /\ r = REFNIL
      BY <2>1 DEF LuaRef
    <3> QED BY <3>1 DEF UsedSlots, FreeSlots, REFNIL
  <2>2. CASE v # Nil
    <3>1. v \in Objects /\ RegistryOK
      BY <2>2, InvariantParts
    <3> QED BY <1>1, <3>1, LuaRefObject
  <2> QED BY <2>1, <2>2
<1>3. Owns(h, TreeOf[s], r)' /\ h \in Live'
  BY <1>1 DEF Owns, Live, TreeAt
<1>4. \A g \in Handles \ {h} : \A t \in Trees, i \in 1..MaxRef : Owns(g, t, i)' <=> Owns(g, t, i)
  BY <1>1 DEF Owns, Live, TreeAt
<1>5. \A t, i : Owns(h, t, i)' => t = TreeOf[s] /\ i = r
  BY <1>1 DEF Owns, TreeAt
<1> QED BY <1>1, <1>2, <1>3, <1>4, <1>5 DEF OwnersStep

(* Handing the slot of g over to h. *)
LEMMA StealOwners ==
  ASSUME IInv, NEW h \in Handles, NEW g \in Live, StealInto(h, g)
  PROVE  OwnersStep
<1>1. g \in Handles /\ at[g] # NoState /\ TreeAt(g) \in Trees
  BY LiveValue DEF Live
<1>2. /\ at'[h] = at[g] /\ at'[g] = at[g] /\ id'[g] = REFNIL
      /\ h # g => id'[h] = id[g]
      /\ \A k \in Handles \ {g, h} : at'[k] = at[k] /\ id'[k] = id[k]
  BY <1>1 DEF StealInto, IInv, TypeOK
<1>3. slot' = slot /\ \A t \in Trees : UsedSlots(t)' = UsedSlots(t)
  BY DEF StealInto, UsedSlots, FreeSlots
<1>4. h \in Live' /\ g \in Live'
  BY <1>1, <1>2 DEF Live
<1>5. \A t \in Trees, i \in 1..MaxRef : ~Owns(g, t, i)'
  BY <1>2 DEF Owns, REFNIL
<1>6. \A k \in Handles \ {g, h} : \A t \in Trees, i \in 1..MaxRef : Owns(k, t, i)' <=> Owns(k, t, i)
  BY <1>2 DEF Owns, Live, TreeAt
<1>7. h # g => \A t \in Trees, i \in 1..MaxRef : Owns(h, t, i)' <=> Owns(g, t, i)
  BY <1>1, <1>2, <1>4 DEF Owns, TreeAt
<1> QED BY <1>1, <1>3, <1>4, <1>5, <1>6, <1>7 DEF OwnersStep

(* Releasing the slot of h. *)
LEMMA ReleaseOwners ==
  ASSUME IInv, NEW h \in Handles, Destroy(h)
  PROVE  OwnersStep
<1>1. /\ h \in Live /\ TreeAt(h) \in Trees /\ id[h] \in Ids
      /\ id[h] > 0 => id[h] \in UsedSlots(TreeAt(h))
      /\ LuaUnref(TreeAt(h), id[h])
  BY LiveValue DEF Destroy
<1>2. PICK t \in Trees, r \in Ids : t = TreeAt(h) /\ r = id[h]
  BY <1>1
<1>3. /\ \A u \in Trees : \A i \in UsedSlots(u) :
           u # t \/ i # r => i \in UsedSlots(u)' /\ slot'[u][i] = slot[u][i]
      /\ r \notin UsedSlots(t)' /\ \A u \in Trees : UsedSlots(u)' \subseteq UsedSlots(u)
  BY <1>1, <1>2, InvariantParts, LuaUnrefSlot
<1>4. at'[h] = NoState /\ \A g \in Handles \ {h} : at'[g] = at[g] /\ id'[g] = id[g]
  BY DEF Destroy, IInv, TypeOK
<1>5. /\ \A u \in Trees, i \in 1..MaxRef : ~Owns(h, u, i)'
      /\ \A g \in Handles \ {h} : \A u \in Trees, i \in 1..MaxRef : Owns(g, u, i)' <=> Owns(g, u, i)
  BY <1>4 DEF Owns, Live, TreeAt
<1>6. \A u, i : Owns(h, u, i) <=> u = t /\ i = r
  BY <1>1, <1>2 DEF Owns
<1> QED BY <1>3, <1>5, <1>6 DEF OwnersStep

(* Steps that leave the slots alone and give no reference a slot it has not got. *)
LEMMA QuietOwners ==
  ASSUME IInv, slot' = slot, NEW h \in Handles, h \in Live' \/ h \notin Live,
         \A t \in Trees, i \in 1..MaxRef : Owns(h, t, i)' => Owns(h, t, i),
         \A g \in Handles \ {h} : at'[g] = at[g] /\ id'[g] = id[g]
  PROVE  OwnersStep
<1>1. \A t \in Trees : UsedSlots(t)' = UsedSlots(t)
  BY DEF UsedSlots, FreeSlots
<1>2. \A g \in Handles \ {h} : \A t \in Trees, i \in 1..MaxRef : Owns(g, t, i)' <=> Owns(g, t, i)
  BY DEF Owns, Live, TreeAt
<1>3. \A t, i : Owns(h, t, i) => h \in Live
  BY DEF Owns
<1> QED BY <1>1, <1>2, <1>3 DEF OwnersStep

LEMMA StepOwners == IInv /\ [Next]_vars => OwnersStep
<1> USE ConstantsAssumption
<1> SUFFICES ASSUME IInv, [Next]_vars PROVE OwnersStep
  OBVIOUS
<1>1. ASSUME NEW h \in Handles, NEW s \in States, ConstructNone(h, s) PROVE OwnersStep
  <2>1. /\ h \notin Live /\ slot' = slot /\ id'[h] = NOREF
        /\ \A g \in Handles \ {h} : at'[g] = at[g] /\ id'[g] = id[g]
    BY <1>1 DEF ConstructNone, Live, IInv, TypeOK
  <2>2. \A t \in Trees, i \in 1..MaxRef : ~Owns(h, t, i)'
    BY <2>1 DEF Owns, NOREF
  <2> QED BY <2>1, <2>2, QuietOwners
<1>2. ASSUME NEW h \in Handles, NEW s \in States, NEW v \in StackValues(s), Construct(h, s, v)
      PROVE  OwnersStep
  BY <1>2, AcquireOwners DEF Construct, StackValues
<1>3. ASSUME NEW h \in Handles, NEW g \in Handles, g \in Live, CloneInto(h, g)
      PROVE  OwnersStep
  BY <1>3, LiveValue, AcquireOwners DEF CloneInto, TreeAt
<1>4. ASSUME NEW h \in Handles, NEW g \in Handles, g \in Live, StealInto(h, g)
      PROVE  OwnersStep
  BY <1>4, StealOwners
<1>5. ASSUME NEW h \in Handles, Destroy(h) PROVE OwnersStep
  BY <1>5, ReleaseOwners
<1>6. ASSUME NEW h \in Live, NEW s \in States, TreeOf[s] = TreeAt(h), ChangeOwnershipTo(h, s)
      PROVE  OwnersStep
  <2>1. /\ h \in Handles /\ at'[h] = s /\ s # NoState /\ slot' = slot /\ id' = id
        /\ \A g \in Handles \ {h} : at'[g] = at[g]
    BY <1>6 DEF ChangeOwnershipTo, Live, IInv, TypeOK
  <2>2. h \in Live' /\ \A t, i : Owns(h, t, i)' => Owns(h, t, i)
    BY <1>6, <2>1 DEF Owns, Live, TreeAt
  <2> QED BY <2>1, <2>2, QuietOwners
<1>7. ASSUME NEW h \in Handles, LuaValueAssignPlain(h) PROVE OwnersStep
  <2>1. /\ h \in Live' /\ slot' = slot /\ at' = at /\ id'[h] = NOREF
        /\ \A g \in Handles \ {h} : id'[g] = id[g]
    BY <1>7 DEF LuaValueAssignPlain, Live, IInv, TypeOK
  <2>2. \A t \in Trees, i \in 1..MaxRef : ~Owns(h, t, i)'
    BY <2>1 DEF Owns, NOREF
  <2> QED BY <2>1, <2>2, QuietOwners
<1>8. CASE UNCHANGED vars
  BY <1>8 DEF vars, OwnersStep, Owns, UsedSlots, FreeSlots, Live, TreeAt
<1> QED
  BY <1>1, <1>2, <1>3, <1>4, <1>5, <1>6, <1>7, <1>8
  DEF Next, SpecialMembers, CopyConstruct, MoveConstruct, CopyAssign, MoveAssign, LuaValueAssign

(* A lost slot is one in use that nothing owns. *)
LEMMA LostSlots ==
  ASSUME IInv, NEW t \in Trees
  PROVE  /\ UsedSlots(t) \subseteq 1..MaxRef
         /\ \A i : i \in LeakedSlots(t) <=>
              i \in UsedSlots(t) /\ \A h \in Handles : ~Owns(h, t, i)
<1>1. UsedSlots(t) \subseteq 1..MaxRef
  BY InvariantParts, UsedSlotsHoldObjects
<1>2. \A i \in 1..MaxRef : i \in OwnedSlots(t) <=> \E h \in Handles : Owns(h, t, i)
  BY DEF OwnedSlots, Owns, Live
<1> QED BY <1>1, <1>2 DEF LeakedSlots

(* The same after a step. *)
LEMMA LostSlotsNext ==
  ASSUME IInv', NEW t \in Trees
  PROVE  /\ UsedSlots(t)' \subseteq 1..MaxRef
         /\ \A i : i \in LeakedSlots(t)' <=>
              i \in UsedSlots(t)' /\ \A h \in Handles : ~Owns(h, t, i)'
<1>1. UsedSlots(t)' \subseteq 1..MaxRef
  <2>1. slot' \in [Trees -> Seq(Objects \cup 0..MaxRef)] /\ Len(slot'[t]) <= MaxRef
    BY DEF IInv, TypeOK
  <2>2. Len(slot'[t]) \in Nat
    BY <2>1
  <2> QED BY <2>1, <2>2, ConstantsAssumption DEF UsedSlots
<1>2. \A i \in 1..MaxRef : i \in OwnedSlots(t)' <=> \E h \in Handles : Owns(h, t, i)'
  BY DEF OwnedSlots, Owns, Live
<1> QED BY <1>1, <1>2 DEF LeakedSlots

(* A lost slot stays lost and keeps what it held: no later operation releases *)
(* it, hands it out again or overwrites it (luaL_ref, luaL_unref, id_).       *)
THEOREM LostForGood == Spec => LeakedSlotsStayPinned
<1> DEFINE Pinned == \A t \in Trees : \A i \in LeakedSlots(t) :
                       i \in LeakedSlots(t)' /\ slot'[t][i] = slot[t][i]
<1>1. IInv /\ IInv' /\ [Next]_vars => Pinned
  <2> SUFFICES ASSUME IInv, IInv', [Next]_vars, NEW t \in Trees, NEW i \in LeakedSlots(t)
               PROVE  i \in LeakedSlots(t)' /\ slot'[t][i] = slot[t][i]
    OBVIOUS
  <2>1. OwnersStep
    BY StepOwners
  <2>2. i \in 1..MaxRef /\ i \in UsedSlots(t) /\ \A h \in Handles : ~Owns(h, t, i)
    BY LostSlots
  <2>3. i \in UsedSlots(t)' /\ slot'[t][i] = slot[t][i] /\ \A h \in Handles : ~Owns(h, t, i)'
    BY <2>1, <2>2 DEF OwnersStep
  <2> QED BY <2>3, LostSlotsNext
<1> HIDE DEF Pinned
<1>2. IInv /\ IInv' /\ [Next]_vars => [Pinned]_vars
  BY <1>1
<1>3. Spec => [][Pinned]_vars
  BY <1>2, Invariant, PTL DEF Spec
<1> QED BY <1>3 DEF LeakedSlotsStayPinned, Pinned

(* Only a reference that is assigned to loses a slot: constructors, the        *)
(* destructor and changeOwnershipTo do not (reference.cpp, operator=).         *)
THEOREM LostByAssignment == Spec => LeaksOnlyByAssignment
<1> DEFINE Blamed == \A t \in Trees : \A i \in LeakedSlots(t)' \ LeakedSlots(t) :
                       \E h \in Live \cap Live' : /\ <<TreeAt(h), id[h]>> = <<t, i>>
                                                 /\ <<TreeAt(h), id[h]>>' # <<t, i>>
<1>1. IInv /\ IInv' /\ [Next]_vars => Blamed
  <2> SUFFICES ASSUME IInv, IInv', [Next]_vars, NEW t \in Trees,
                      NEW i \in LeakedSlots(t)' \ LeakedSlots(t)
               PROVE  \E h \in Live \cap Live' : /\ <<TreeAt(h), id[h]>> = <<t, i>>
                                                /\ <<TreeAt(h), id[h]>>' # <<t, i>>
    OBVIOUS
  <2>1. OwnersStep
    BY StepOwners
  <2>2. i \in 1..MaxRef /\ i \in UsedSlots(t)' /\ \A h \in Handles : ~Owns(h, t, i)'
    BY LostSlotsNext
  <2>3. i \in UsedSlots(t)
    BY <2>1, <2>2 DEF OwnersStep
  <2>4. PICK h \in Handles : Owns(h, t, i)
    BY <2>3, LostSlots
  <2>5. h \in Live' /\ ~Owns(h, t, i)'
    BY <2>1, <2>2, <2>4 DEF OwnersStep
  <2> QED BY <2>4, <2>5 DEF Owns
<1> HIDE DEF Blamed
<1>2. IInv /\ IInv' /\ [Next]_vars => [Blamed]_vars
  BY <1>1
<1>3. Spec => [][Blamed]_vars
  BY <1>2, Invariant, PTL DEF Spec
<1> QED BY <1>3 DEF LeaksOnlyByAssignment, Blamed
-----------------------------------------------------------------------------
(* The chain of free slots. *)

\* The n slots c[1], c[2], ... are the free ones of q, chained in this order from head.
Threads(q, head, n, c) ==
  /\ n \in Nat /\ c \in [1..n -> 1..MaxRef]
  /\ \A i, j \in 1..n : c[i] = c[j] => i = j
  /\ {c[i] : i \in 1..n} = {i \in 1..Len(q) : q[i] \in Int}
  /\ head = IF n = 0 THEN 0 ELSE c[1]
  /\ \A i \in 1..n : q[c[i]] = IF i = n THEN 0 ELSE c[i + 1]

ChainOK == \A t \in Trees : \E n, c : Threads(slot[t], freelist[t], n, c)

(* luaL_ref takes the first free slot. *)
LEMMA TakeFirst ==
  ASSUME NEW q \in Seq(Objects \cup 0..MaxRef), NEW n, NEW c, NEW head \in 0..MaxRef \ {0},
         Threads(q, head, n, c), NEW v \in Objects
  PROVE  \E m, d : Threads([q EXCEPT ![head] = v], q[head], m, d)
<1> DEFINE m == n - 1  d == [i \in 1..m |-> c[i + 1]]  p == [q EXCEPT ![head] = v]
<1>0. /\ n \in Nat /\ n # 0 /\ m \in Nat /\ head = c[1] /\ 1 \in 1..n
      /\ c \in [1..n -> 1..MaxRef]
  BY DEF Threads
<1>1. head \in 1..Len(q) /\ Len(p) = Len(q) /\ p[head] = v
      /\ \A i \in 1..Len(q) : i # head => p[i] = q[i]
  BY <1>0 DEF Threads
<1>2. v \notin Int
  BY ConstantsAssumption
<1> HIDE DEF p
<1>3. \A i \in 1..m : i + 1 \in 1..n /\ d[i] = c[i + 1] /\ d[i] # head
  BY <1>0 DEF Threads
<1>4. d \in [1..m -> 1..MaxRef]
  BY <1>0, <1>3
<1>5. \A i, j \in 1..m : d[i] = d[j] => i = j
  <2> SUFFICES ASSUME NEW i \in 1..m, NEW j \in 1..m, d[i] = d[j] PROVE i = j
    OBVIOUS
  <2>1. c[i + 1] = c[j + 1] /\ i + 1 \in 1..n /\ j + 1 \in 1..n
    BY <1>3
  <2>2. i + 1 = j + 1
    BY <2>1 DEF Threads
  <2> QED BY <2>2
<1>6. {d[i] : i \in 1..m} = {c[i] : i \in 1..n} \ {head}
  <2>1. ASSUME NEW i \in 1..n, c[i] # head PROVE \E j \in 1..m : d[j] = c[i]
    <3>1. i # 1
      BY <1>0, <2>1
    <3>2. i - 1 \in 1..m /\ (i - 1) + 1 = i
      BY <1>0, <3>1
    <3> QED BY <1>3, <3>2
  <2>2. ASSUME NEW j \in 1..m PROVE d[j] # head /\ \E i \in 1..n : d[j] = c[i]
    BY <1>3
  <2> HIDE DEF d
  <2> QED BY <2>1, <2>2
<1>7. {i \in 1..Len(p) : p[i] \in Int} = {i \in 1..Len(q) : q[i] \in Int} \ {head}
  BY <1>1, <1>2
<1>8. q[head] = IF m = 0 THEN 0 ELSE d[1]
  <2>1. q[c[1]] = IF 1 = n THEN 0 ELSE c[1 + 1]
    BY <1>0 DEF Threads
  <2>2. 1 # n => 1 \in 1..m
    BY <1>0
  <2> QED BY <1>0, <1>3, <2>1, <2>2
<1>9. \A i \in 1..m : p[d[i]] = IF i = m THEN 0 ELSE d[i + 1]
  <2> SUFFICES ASSUME NEW i \in 1..m PROVE p[d[i]] = IF i = m THEN 0 ELSE d[i + 1]
    OBVIOUS
  <2>1. i + 1 \in 1..n /\ d[i] = c[i + 1] /\ d[i] # head
    BY <1>3
  <2>2. c[i + 1] \in 1..Len(q)
    BY <2>1 DEF Threads
  <2>3. p[d[i]] = q[c[i + 1]]
    BY <1>1, <2>1, <2>2
  <2>4. q[c[i + 1]] = IF i + 1 = n THEN 0 ELSE c[(i + 1) + 1]
    BY <2>1 DEF Threads
  <2>5. i # m => i + 1 \in 1..m
    BY <1>0
  <2>6. i + 1 = n <=> i = m
    BY <1>0
  <2> QED BY <1>3, <2>3, <2>4, <2>5, <2>6
<1> HIDE DEF m, d
<1>10. Threads(p, q[head], m, d)
  BY <1>0, <1>4, <1>5, <1>6, <1>7, <1>8, <1>9 DEF Threads
<1> QED BY <1>10 DEF p

(* luaL_ref makes the table grow. *)
LEMMA GrowTable ==
  ASSUME NEW q \in Seq(Objects \cup 0..MaxRef), NEW n, NEW c, NEW head,
         Threads(q, head, n, c), NEW v \in Objects
  PROVE  Threads(Append(q, v), head, n, c)
<1> DEFINE p == Append(q, v)
<1>1. /\ Len(q) \in Nat /\ Len(p) = Len(q) + 1 /\ p[Len(q) + 1] = v
      /\ \A i \in 1..Len(q) : p[i] = q[i]
  OBVIOUS
<1>2. v \notin Int
  BY ConstantsAssumption
<1> HIDE DEF p
<1>3. {i \in 1..Len(p) : p[i] \in Int} = {i \in 1..Len(q) : q[i] \in Int}
  BY <1>1, <1>2
<1>4. \A i \in 1..n : p[c[i]] = q[c[i]]
  <2>1. \A i \in 1..n : c[i] \in 1..Len(q)
    BY DEF Threads
  <2> QED BY <1>1, <2>1
<1>5. Threads(p, head, n, c)
  BY <1>3, <1>4 DEF Threads
<1> QED BY <1>5 DEF p

(* luaL_unref puts a slot in use first. *)
LEMMA PutFirst ==
  ASSUME NEW q \in Seq(Objects \cup 0..MaxRef), NEW n, NEW c, NEW head \in 0..MaxRef,
         Threads(q, head, n, c), Len(q) <= MaxRef,
         NEW r \in 1..Len(q), q[r] \notin Int
  PROVE  \E m, d : Threads([q EXCEPT ![r] = head], r, m, d)
<1> DEFINE m == n + 1  d == [i \in 1..m |-> IF i = 1 THEN r ELSE c[i - 1]]
           p == [q EXCEPT ![r] = head]
<1>0. /\ n \in Nat /\ m \in Nat /\ m # 0 /\ c \in [1..n -> 1..MaxRef] /\ Len(q) \in Nat
      /\ MaxRef \in Nat /\ r \in 1..MaxRef
  BY ConstantsAssumption DEF Threads
<1>1. Len(p) = Len(q) /\ p[r] = head /\ \A i \in 1..Len(q) : i # r => p[i] = q[i]
  OBVIOUS
<1> HIDE DEF p
<1>2. \A i \in 1..n : c[i] \in 1..Len(q) /\ c[i] # r
  BY DEF Threads
<1>3. 1 \in 1..m /\ d[1] = r /\ \A i \in 1..n : i + 1 \in 1..m /\ d[i + 1] = c[i]
  BY <1>0
<1>4. \A i \in 1..m : i = 1 \/ (i - 1 \in 1..n /\ (i - 1) + 1 = i)
  BY <1>0
<1> HIDE DEF d
<1>5. d \in [1..m -> 1..MaxRef]
  BY <1>0 DEF d
<1>6. \A i, j \in 1..m : d[i] = d[j] => i = j
  <2> SUFFICES ASSUME NEW i \in 1..m, NEW j \in 1..m, d[i] = d[j] PROVE i = j
    OBVIOUS
  <2>1. i # 1 => d[i] = c[i - 1] /\ i - 1 \in 1..n
    BY <1>3, <1>4
  <2>2. j # 1 => d[j] = c[j - 1] /\ j - 1 \in 1..n
    BY <1>3, <1>4
  <2>3. CASE i = 1 \/ j = 1
    BY <1>2, <1>3, <2>1, <2>2, <2>3
  <2>4. CASE i # 1 /\ j # 1
    <3>1. i - 1 = j - 1
      BY <2>1, <2>2, <2>4 DEF Threads
    <3> QED BY <3>1
  <2> QED BY <2>3, <2>4
<1>7. {d[i] : i \in 1..m} = {c[i] : i \in 1..n} \cup {r}
  BY <1>3, <1>4
<1>8. {i \in 1..Len(p) : p[i] \in Int} = {i \in 1..Len(q) : q[i] \in Int} \cup {r}
  BY <1>1
<1>9. \A i \in 1..m : p[d[i]] = IF i = m THEN 0 ELSE d[i + 1]
  <2> SUFFICES ASSUME NEW i \in 1..m PROVE p[d[i]] = IF i = m THEN 0 ELSE d[i + 1]
    OBVIOUS
  <2>1. CASE i = 1
    <3>1. p[d[i]] = head
      BY <1>1, <1>3, <2>1
    <3>2. head = IF n = 0 THEN 0 ELSE c[1]
      BY DEF Threads
    <3>3. n # 0 => d[1 + 1] = c[1]
      BY <1>0, <1>3
    <3> QED BY <1>0, <2>1, <3>1, <3>2, <3>3
  <2>2. CASE i # 1
    <3>1. i - 1 \in 1..n /\ d[i] = c[i - 1] /\ (i - 1) + 1 = i
      BY <1>3, <1>4, <2>2
    <3>2. p[d[i]] = q[c[i - 1]]
      BY <1>1, <1>2, <3>1
    <3>3. q[c[i - 1]] = IF i - 1 = n THEN 0 ELSE c[i]
      BY <3>1 DEF Threads
    <3>4. i - 1 = n <=> i = m
      BY <1>0
    <3>5. i # m => i \in 1..n
      BY <1>0
    <3> QED BY <1>3, <3>2, <3>3, <3>4, <3>5
  <2> QED BY <2>1, <2>2
<1> HIDE DEF m
<1>10. Threads(p, r, m, d)
  BY <1>0, <1>3, <1>5, <1>6, <1>7, <1>8, <1>9 DEF Threads
<1> QED BY <1>10 DEF p

LEMMA LuaRefChain ==
  ASSUME RegistryOK, ChainOK, NEW t \in Trees, NEW v \in Objects \cup {Nil}, NEW r \in Ids,
         LuaRef(t, v, r)
  PROVE  ChainOK'
<1> USE ConstantsAssumption
<1> SUFFICES ASSUME NEW u \in Trees PROVE \E n, c : Threads(slot'[u], freelist'[u], n, c)
  BY DEF ChainOK
<1>1. PICK n, c : Threads(slot[u], freelist[u], n, c)
  BY DEF ChainOK
<1>2. /\ slot \in [Trees -> Seq(Objects \cup 0..MaxRef)]
      /\ slot[u] \in Seq(Objects \cup 0..MaxRef)
      /\ freelist \in [Trees -> 0..MaxRef]
  BY DEF RegistryOK
<1>3. CASE v = Nil
  BY <1>1, <1>3 DEF LuaRef
<1>4. CASE v # Nil /\ u # t
  <2>1. slot'[u] = slot[u] /\ freelist'[u] = freelist[u]
    BY <1>2, <1>4 DEF LuaRef
  <2> QED BY <1>1, <2>1
<1>5. CASE v # Nil /\ u = t /\ freelist[t] # 0
  <2>1. /\ freelist'[u] = slot[u][freelist[u]]
        /\ slot'[u] = [slot[u] EXCEPT ![freelist[u]] = v]
    BY <1>2, <1>5 DEF LuaRef
  <2>2. v \in Objects /\ freelist[u] \in 0..MaxRef \ {0}
    BY <1>2, <1>5
  <2>3. \E m, d : Threads([slot[u] EXCEPT ![freelist[u]] = v], slot[u][freelist[u]], m, d)
    BY <1>1, <1>2, <2>2, TakeFirst
  <2> QED BY <2>1, <2>3
<1>6. CASE v # Nil /\ u = t /\ freelist[t] = 0
  <2>1. freelist'[u] = freelist[u] /\ slot'[u] = Append(slot[u], v)
    BY <1>2, <1>6 DEF LuaRef
  <2>2. v \in Objects
    BY <1>6
  <2>3. Threads(Append(slot[u], v), freelist[u], n, c)
    BY <1>1, <1>2, <2>2, GrowTable
  <2> QED BY <2>1, <2>3
<1> QED BY <1>3, <1>4, <1>5, <1>6

LEMMA LuaUnrefChain ==
  ASSUME RegistryOK, ChainOK, NEW t \in Trees, NEW r \in Ids,
         r > 0 => r \in UsedSlots(t), LuaUnref(t, r)
  PROVE  ChainOK'
<1> USE ConstantsAssumption
<1> SUFFICES ASSUME NEW u \in Trees PROVE \E n, c : Threads(slot'[u], freelist'[u], n, c)
  BY DEF ChainOK
<1>1. PICK n, c : Threads(slot[u], freelist[u], n, c)
  BY DEF ChainOK
<1>2. /\ slot \in [Trees -> Seq(Objects \cup 0..MaxRef)]
      /\ slot[u] \in Seq(Objects \cup 0..MaxRef) /\ Len(slot[u]) <= MaxRef
      /\ freelist \in [Trees -> 0..MaxRef]
  BY DEF RegistryOK
<1>a. r \in Int
  BY DEF Ids, NOREF, REFNIL
<1>3. CASE r < 0
  <2>1. UNCHANGED <<slot, freelist>>
    BY <1>a, <1>3 DEF LuaUnref
  <2> QED BY <1>1, <2>1
<1>4. CASE ~(r < 0) /\ u # t
  <2>1. slot'[u] = slot[u] /\ freelist'[u] = freelist[u]
    BY <1>2, <1>4 DEF LuaUnref
  <2> QED BY <1>1, <2>1
<1>5. CASE ~(r < 0) /\ u = t
  <2>1. /\ freelist'[u] = r
        /\ slot'[u] = [slot[u] EXCEPT ![r] = freelist[u]]
    BY <1>2, <1>5 DEF LuaUnref
  <2>2. r > 0
    BY <1>5 DEF Ids, NOREF, REFNIL
  <2>3. r \in 1..Len(slot[u]) /\ slot[u][r] \notin Int
    BY <1>5, <2>2 DEF UsedSlots, FreeSlots
  <2>4. \E m, d : Threads([slot[u] EXCEPT ![r] = freelist[u]], r, m, d)
    BY <1>1, <1>2, <2>3, PutFirst
  <2> QED BY <2>1, <2>4
<1> QED BY <1>3, <1>4, <1>5

(* Every step calls luaL_ref, luaL_unref or neither. *)
LEMMA StepChain == IInv /\ ChainOK /\ [Next]_vars => ChainOK'
<1> USE ConstantsAssumption
<1> SUFFICES ASSUME IInv, ChainOK, [Next]_vars PROVE ChainOK'
  OBVIOUS
<1>0. RegistryOK
  BY InvariantParts
<1>1. ASSUME UNCHANGED <<slot, freelist>> PROVE ChainOK'
  BY <1>1 DEF ChainOK
<1>2. ASSUME NEW h \in Handles, NEW s \in States, NEW v \in StackValues(s), Construct(h, s, v)
      PROVE  ChainOK'
  <2>1. PICK r \in Ids : LuaRef(TreeOf[s], v, r)
    BY <1>2 DEF Construct
  <2>2. TreeOf[s] \in Trees /\ v \in Objects \cup {Nil}
    BY DEF StackValues
  <2> QED BY <1>0, <2>1, <2>2, LuaRefChain
<1>3. ASSUME NEW h, NEW g \in Live, CloneInto(h, g) PROVE ChainOK'
  <2>1. PICK r \in Ids : LuaRef(TreeAt(g), Value(g), r)
    BY <1>3 DEF CloneInto
  <2>2. TreeAt(g) \in Trees /\ Value(g) \in Objects \cup {Nil}
    BY LiveValue
  <2> QED BY <1>0, <2>1, <2>2, LuaRefChain
<1>4. ASSUME NEW h \in Handles, Destroy(h) PROVE ChainOK'
  <2>1. h \in Live /\ LuaUnref(TreeAt(h), id[h])
    BY <1>4 DEF Destroy
  <2>2. /\ TreeAt(h) \in Trees /\ id[h] \in Ids
        /\ id[h] > 0 => id[h] \in UsedSlots(TreeAt(h))
    BY <2>1, LiveValue
  <2> QED BY <1>0, <2>1, <2>2, LuaUnrefChain
<1>5. CASE UNCHANGED vars
  BY <1>1, <1>5 DEF vars
<1>6. CASE SpecialMembers
  <2>1. ASSUME NEW h \in Handles, NEW s \in States, ConstructNone(h, s) PROVE ChainOK'
    BY <1>1, <2>1 DEF ConstructNone
  <2>2. ASSUME NEW h \in Handles, LuaValueAssignPlain(h) PROVE ChainOK'
    BY <1>1, <2>2 DEF LuaValueAssignPlain
  <2>3. ASSUME NEW h \in Handles, NEW g \in Handles, CopyConstruct(h, g) \/ CopyAssign(h, g)
                                                      \/ LuaValueAssign(h, g)
        PROVE  ChainOK'
    BY <1>3, <2>2, <2>3 DEF CopyConstruct, CopyAssign, LuaValueAssign
  <2>4. ASSUME NEW h \in Handles, NEW g \in Handles, MoveConstruct(h, g) \/ MoveAssign(h, g)
        PROVE  ChainOK'
    BY <1>1, <2>4 DEF MoveConstruct, MoveAssign, StealInto
  <2> QED BY <1>2, <1>4, <1>6, <2>1, <2>2, <2>3, <2>4 DEF SpecialMembers
<1>7. ASSUME NEW h \in Live, NEW s \in States, ChangeOwnershipTo(h, s) PROVE ChainOK'
  BY <1>1, <1>7 DEF ChangeOwnershipTo
<1> QED BY <1>5, <1>6, <1>7 DEF Next

LEMMA InitChain == Init => ChainOK
<1> SUFFICES ASSUME Init, NEW t \in Trees PROVE \E n, c : Threads(slot[t], freelist[t], n, c)
  BY DEF ChainOK
<1> DEFINE c == [i \in 1..0 |-> 1]
<1>1. slot[t] = <<>> /\ freelist[t] = 0
  BY DEF Init
<1>2. Threads(<<>>, 0, 0, c)
  BY DEF Threads
<1> QED BY <1>1, <1>2

Less == {p \in Nat \X Nat : p[1] < p[2]}

LEMMA LeastNumber ==
  ASSUME NEW T \in SUBSET Nat, T # {}
  PROVE  \E m \in T : \A k \in T : m <= k
<1>1. OpToRel(<, Nat) = Less
  BY Zenon DEF OpToRel, Less
<1>2. IsWellFoundedOn(Less, Nat)
  BY <1>1, NatLessThanWellFounded, Zenon
<1>3. PICK m \in T : \A k \in T : ~ (<<k, m>> \in Less)
  BY <1>2, WFMin, Zenon
<1>4. ASSUME NEW k \in T PROVE m <= k
  <2>1. m \in Nat /\ k \in Nat /\ ~ (<<k, m>> \in Less)
    BY <1>3
  <2> QED BY <2>1 DEF Less
<1> QED BY <1>4

(* A walk along the chain meets c[1], c[2], ..., c[n] and then 0. *)
Walks(t, n, c) == \A k \in 0..n : FreeChain(t)[k] = IF k = n THEN 0 ELSE c[k + 1]

LEMMA WalkChain ==
  ASSUME NEW t, NEW n, NEW c, Threads(slot[t], freelist[t], n, c), n <= MaxRef
  PROVE  Walks(t, n, c)
<1> USE ConstantsAssumption
<1> DEFINE W(x) == x = [k \in 0..MaxRef |->
                          IF k = 0 THEN freelist[t]
                          ELSE IF x[k-1] = 0 THEN 0 ELSE slot[t][x[k-1]]]
           g == [k \in 0..MaxRef |-> IF k < n THEN c[k + 1] ELSE 0]
           w == FreeChain(t)
<1>0. n \in Nat /\ c \in [1..n -> 1..MaxRef] /\ MaxRef \in Nat
  BY DEF Threads
<1>1. \A k \in 1..n : c[k] \in 1..MaxRef /\ c[k] # 0
  BY <1>0
<1>2. W(g)
  <2>1. ASSUME NEW k \in 0..MaxRef
        PROVE  g[k] = IF k = 0 THEN freelist[t]
                      ELSE IF g[k-1] = 0 THEN 0 ELSE slot[t][g[k-1]]
    <3>1. CASE k = 0
      <4>1. freelist[t] = IF n = 0 THEN 0 ELSE c[1]
        BY DEF Threads
      <4> QED BY <1>0, <3>1, <4>1
    <3>2. CASE k # 0 /\ k <= n
      <4>1. k \in 1..n /\ k - 1 \in 0..MaxRef /\ k - 1 < n /\ (k - 1) + 1 = k
        BY <1>0, <3>2
      <4>2. g[k-1] = c[k] /\ c[k] # 0
        BY <1>1, <4>1
      <4>3. slot[t][c[k]] = IF k = n THEN 0 ELSE c[k + 1]
        BY <4>1 DEF Threads
      <4>4. k < n <=> k # n
        BY <1>0, <4>1
      <4> QED BY <3>2, <4>2, <4>3, <4>4
    <3>3. CASE k # 0 /\ ~(k <= n)
      <4>1. k - 1 \in 0..MaxRef /\ ~(k - 1 < n) /\ ~(k < n)
        BY <1>0, <3>3
      <4> QED BY <3>3, <4>1
    <3> QED BY <3>1, <3>2, <3>3
  <2> QED BY <2>1
<1> HIDE DEF g
<1>3. W(w)
  BY <1>2 DEF FreeChain
<1> HIDE DEF w
<1>4. ASSUME NEW k \in 0..MaxRef, w[k] # g[k] PROVE FALSE
  <2> DEFINE B == {i \in 0..MaxRef : w[i] # g[i]}
  <2>1. B \in SUBSET Nat /\ k \in B
    BY <1>4
  <2> HIDE DEF B
  <2>2. PICK m \in B : \A i \in B : m <= i
    BY <2>1, LeastNumber
  <2>3. m \in 0..MaxRef /\ w[m] # g[m]
    BY DEF B
  <2>4. /\ w[0] = freelist[t] /\ g[0] = freelist[t]
        /\ m # 0 => /\ w[m] = IF w[m-1] = 0 THEN 0 ELSE slot[t][w[m-1]]
                    /\ g[m] = IF g[m-1] = 0 THEN 0 ELSE slot[t][g[m-1]]
    BY <1>0, <1>2, <1>3, <2>3
  <2>5. m # 0 /\ m - 1 \in 0..MaxRef /\ ~(m <= m - 1)
    BY <2>3, <2>4
  <2>6. w[m-1] = g[m-1]
    BY <2>2, <2>5 DEF B
  <2> QED BY <2>3, <2>4, <2>5, <2>6
<1>5. ASSUME NEW k \in 0..n PROVE w[k] = IF k = n THEN 0 ELSE c[k + 1]
  <2>1. k \in 0..MaxRef /\ (k < n <=> k # n)
    BY <1>0
  <2>2. w[k] = g[k]
    BY <1>4, <2>1
  <2> QED BY <2>1, <2>2 DEF g
<1> QED BY <1>5 DEF w, Walks

LEMMA ChainCounts ==
  ASSUME NEW t, NEW n, NEW c, Threads(slot[t], freelist[t], n, c), FreeSlots(t) \subseteq 1..MaxRef
  PROVE  Cardinality(FreeSlots(t)) = n /\ n <= MaxRef
<1> DEFINE F == FreeSlots(t)
<1>1. /\ n \in Nat /\ MaxRef \in Nat /\ c \in [1..n -> 1..MaxRef]
      /\ F = {c[i] : i \in 1..n} /\ \A i, j \in 1..n : c[i] = c[j] => i = j
  BY ConstantsAssumption DEF Threads, FreeSlots
<1>2. F \subseteq 1..MaxRef
  OBVIOUS
<1> HIDE DEF F
<1>3. IsFiniteSet(1..n) /\ Cardinality(1..n) = n
  BY <1>1, FS_Interval
<1>4. IsFiniteSet(1..MaxRef) /\ Cardinality(1..MaxRef) = MaxRef
  BY <1>1, FS_Interval
<1>5. c \in Bijection(1..n, F)
  BY <1>1 DEF Bijection, Injection, Surjection, IsInjective
<1>6. ExistsBijection(1..n, F)
  BY <1>5 DEF ExistsBijection
<1>7. Cardinality(F) = n
  BY <1>3, <1>6, FS_Bijection
<1>8. n <= MaxRef
  BY <1>2, <1>4, <1>7, FS_Subset
<1> QED BY <1>7, <1>8 DEF F

(* The chain luaL_ref takes slots from holds the released slots, each once, in *)
(* every instance and for any number of slots.                                *)
THEOREM ChainIntact == Spec => []FreeChainIntact
<1>1. IInv /\ ChainOK => FreeChainIntact
  <2> SUFFICES ASSUME IInv, ChainOK, NEW t \in Trees
               PROVE  LET n == Cardinality(FreeSlots(t))
                      IN  /\ {FreeChain(t)[k] : k \in 0..n-1} = FreeSlots(t)
                          /\ FreeChain(t)[n] = 0
    BY DEF FreeChainIntact
  <2>1. PICK n, c : Threads(slot[t], freelist[t], n, c)
    BY DEF ChainOK
  <2>2. FreeSlots(t) \subseteq 1..MaxRef
    BY InvariantParts, UsedSlotsHoldObjects
  <2>3. Cardinality(FreeSlots(t)) = n /\ n <= MaxRef
    BY <2>1, <2>2, ChainCounts
  <2>4. n \in Nat /\ FreeSlots(t) = {c[i] : i \in 1..n}
    BY <2>1 DEF Threads, FreeSlots
  <2>5. \A k \in 0..n : FreeChain(t)[k] = IF k = n THEN 0 ELSE c[k + 1]
    <3>1. n <= MaxRef
      BY <2>3
    <3>2. Walks(t, n, c)
      BY <2>1, <3>1, WalkChain
    <3> QED BY <3>2 DEF Walks
  <2>6. FreeChain(t)[n] = 0
    BY <2>4, <2>5
  <2>7. ASSUME NEW k \in 0..n-1 PROVE FreeChain(t)[k] \in FreeSlots(t)
    <3>1. k \in 0..n /\ k # n /\ k + 1 \in 1..n
      BY <2>4
    <3> QED BY <2>4, <2>5, <3>1
  <2>8. ASSUME NEW i \in 1..n PROVE \E k \in 0..n-1 : FreeChain(t)[k] = c[i]
    <3>1. i - 1 \in 0..n-1 /\ i - 1 \in 0..n /\ i - 1 # n /\ (i - 1) + 1 = i
      BY <2>4
    <3>2. FreeChain(t)[i - 1] = c[i]
      BY <2>5, <3>1
    <3> QED BY <3>1, <3>2
  <2>9. {FreeChain(t)[k] : k \in 0..n-1} = FreeSlots(t)
    BY <2>4, <2>7, <2>8
  <2> QED BY <2>3, <2>6, <2>9
<1> QED BY <1>1, InitChain, StepChain, Invariant, PTL DEF Spec
=============================================================================
