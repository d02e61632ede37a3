--------------------------- MODULE StackReaderProofs ---------------------------
(***************************************************************************)
(* For stacks of any height: what checkStackTop has found can be read,     *)
(* every value reads as a LuaValue, and one that is no string comes back   *)
(* as it was.                                                              *)
(***************************************************************************)
EXTENDS StackReader, TLAPS

\* The values a stack may hold: those a script leaves, and what reading a number as a
\* string or as a LuaNumber makes of an integer 0.
Readable == LuaValues \cup [type : {"float", "numeral"}, val : {0}]

LuaTypes == {"integer", "float", "nonfinite", "numeral", "boolean", "nil", "text", "binary", "table",
             "function", "cfunction", "thread", "lightuserdata", "userdata"}

\* A C++ value that can be pushed stands for one of them.
Pushable(g) == g.as \in Classes => g.val \in Readable

CanBeRead(T, v) == readAt(T, v).as = T

\* What a check that succeeded still says of the value it was made of.
Checked(T, v) == CanBeRead(T, v) \/ (T = "LuaNumber" /\ v = NonFiniteText)

Types == stk \in Seq(Readable) /\ checks \subseteq Classes /\ Pushable(got)

IInv == Types /\ CheckedCanBeRead

LEMMA ReadableParts ==
  ASSUME NEW v \in Readable
  PROVE  /\ v = [type |-> v.type, val |-> v.val] /\ v.type \in LuaTypes /\ v.val \in {0, 1, 20}
         /\ v.type = "integer" => v.val \in {0, 20}
         /\ v.type \in {"boolean", "text"} => v.val \in {0, 1}
         /\ v.type \notin {"integer", "float", "numeral", "boolean", "text"} => v.val = 0
BY DEF Readable, LuaValues, LuaTypes

LEMMA ReadableFrom ==
  ASSUME NEW v, NEW t \in {"float", "numeral"}, NEW n \in {0, 1, 20}
  PROVE  [type |-> t, val |-> n] \in Readable
BY DEF Readable, LuaValues

LEMMA Halves == Integral([type |-> "integer", val |-> 0]) /\ 0 % 2 = 0 /\ 20 % 2 = 0 /\ 1 % 2 = 1
BY DEF Integral

\* A value that passes a class's check can be read as that class.
LEMMA CheckReads ==
  ASSUME NEW v \in Readable, NEW T \in Classes, checkAt(T, v)
  PROVE  CanBeRead(T, v)
<1>1. T = "LuaInteger" => isnumber(v) /\ Integral(v)
  BY ReadableParts, Halves DEF checkAt, checkInteger, isnumber, Integral
<1> QED BY <1>1 DEF CanBeRead, checkAt, readAt, readNil, readBoolean, readInteger, readNumber,
                    readString, Got, Classes

\* lua_tostring leaves a readable value, and one that can be read as what could be read
\* before; but inf and nan are no LuaNumbers any more.
LEMMA InPlaceKeeps ==
  ASSUME NEW v \in Readable
  PROVE  /\ InPlace(v) \in Readable
         /\ \A T \in Classes : Checked(T, v) => Checked(T, InPlace(v))
<1>1. CASE v.type \notin {"integer", "float", "nonfinite"}
  BY <1>1 DEF InPlace
<1>2. CASE v.type \in {"integer", "float"}
  <2>1. InPlace(v) = [type |-> "numeral", val |-> v.val]
    BY <1>2, ReadableParts DEF InPlace
  <2>2. InPlace(v) \in Readable
    BY <2>1, ReadableParts, ReadableFrom
  <2>3. ASSUME NEW T \in Classes, CanBeRead(T, v) PROVE CanBeRead(T, InPlace(v))
    <3>1. /\ isnumber(InPlace(v)) /\ isstring(InPlace(v))
          /\ Integral(InPlace(v)) <=> Integral(v)
      BY <1>2, <2>1 DEF isnumber, isstring, Strings, Integral
    <3>2. T \in {"LuaNil", "LuaBoolean", "LuaInteger", "LuaNumber", "LuaString"}
      BY <1>2, <2>3 DEF CanBeRead, readAt, checkAt, checkTable, checkFunction, checkCFunction,
         checkThread, checkLightUserData, checkFullUserData, isuserdata, Classes, nullopt, Got
    <3>3. T = "LuaInteger" => Integral(v)
      BY <2>3 DEF CanBeRead, readAt, readInteger, nullopt, Got
    <3> QED BY <3>1, <3>2, <3>3 DEF CanBeRead, readAt, readNil, readBoolean, readInteger,
                 readNumber, readString, Got
  <2>4. v # NonFiniteText
    BY <1>2 DEF NonFiniteText
  <2> QED BY <2>2, <2>3, <2>4 DEF Checked
<1>3. CASE v.type = "nonfinite"
  <2>1. InPlace(v) = NonFiniteText
    BY <1>3 DEF InPlace
  <2>2. NonFiniteText \in Readable
    BY DEF NonFiniteText, Readable, LuaValues
  <2>3. ASSUME NEW T \in Classes, CanBeRead(T, v), T # "LuaNumber"
        PROVE  CanBeRead(T, NonFiniteText)
    <3>1. isstring(NonFiniteText)
      BY DEF isstring, Strings, NonFiniteText
    <3>2. T \in {"LuaNil", "LuaBoolean", "LuaString"}
      BY <1>3, <2>3 DEF CanBeRead, readAt, readInteger, Integral, checkAt, checkTable,
         checkFunction, checkCFunction, checkThread, checkLightUserData, checkFullUserData,
         isuserdata, Classes, nullopt, Got
    <3> QED BY <3>1, <3>2 DEF CanBeRead, readAt, readNil, readBoolean, readString, Got
  <2>4. v # NonFiniteText
    BY <1>3 DEF NonFiniteText
  <2> QED BY <2>1, <2>2, <2>3, <2>4 DEF Checked
<1> QED BY <1>1, <1>2, <1>3

LEMMA SlotKeeps ==
  ASSUME NEW v \in Readable, NEW T
  PROVE  /\ SlotAfter(T, v) \in Readable
         /\ \A C \in Classes : Checked(C, v) => Checked(C, SlotAfter(T, v))
BY InPlaceKeeps DEF SlotAfter

\* What is read stands for a value a stack may hold.
LEMMA ReadIsPushable ==
  ASSUME NEW v \in Readable, NEW T
  PROVE  Pushable(readAt(T, v))
<1>0. /\ v = [type |-> v.type, val |-> v.val] /\ v.val \in {0, 1, 20}
  BY ReadableParts
<1>1. CASE T = "LuaNil"
  BY <1>1 DEF Pushable, readAt, readNil, Got, Readable, LuaValues
<1>2. CASE T = "LuaBoolean"
  BY <1>2 DEF Pushable, readAt, readBoolean, Got, Readable, LuaValues
<1>3. CASE T = "LuaInteger"
  <2>1. Integral(v) => v.val \in {0, 20}
    BY <1>0, Halves DEF Integral
  <2>2. v.val \in {0, 20} => [type |-> "integer", val |-> v.val] \in Readable
    BY DEF Readable, LuaValues
  <2> QED BY <1>3, <2>1, <2>2 DEF Pushable, readAt, readInteger, nullopt, Got, Classes
<1>4. CASE T = "LuaNumber"
  <2>1. CASE v.type = "nonfinite"
    BY <1>0, <1>4, <2>1 DEF Pushable, readAt, readNumber, nullopt, Got, Classes, Floats
  <2>2. CASE v.type # "nonfinite"
    BY <1>0, <1>4, <2>2, ReadableFrom
    DEF Pushable, readAt, readNumber, nullopt, Got, Classes, Floats
  <2> QED BY <2>1, <2>2
<1>5. CASE T = "LuaString"
  <2> DEFINE w == InPlace(v)
  <2>1. w \in Readable
    BY InPlaceKeeps
  <2> HIDE DEF w
  <2>2. UpToZero(w) \in Readable
    BY <2>1 DEF UpToZero, Readable, LuaValues
  <2>3. UpToZero(w) = [type |-> UpToZero(w).type, val |-> UpToZero(w).val]
    BY <2>2, ReadableParts
  <2> QED BY <1>5, <2>2, <2>3 DEF Pushable, readAt, readString, Thrown, Got, Classes, w
<1>6. CASE T \notin {"LuaNil", "LuaBoolean", "LuaInteger", "LuaNumber", "LuaString"}
  BY <1>0, <1>6 DEF Pushable, readAt, nullopt, Got, Classes
<1> QED BY <1>1, <1>2, <1>3, <1>4, <1>5, <1>6
-----------------------------------------------------------------------------
(* LuaStackReader<LuaValue>::readAt. *)

\* The first class in Order whose check passes is the alternative.
LEMMA FirstInOrder ==
  ASSUME NEW v, NEW k \in 1..11, checkAt(Order[k], v), \A j \in 1..k-1 : ~checkAt(Order[j], v)
  PROVE  Alternative(v) = Order[k]
<1> DEFINE yes == {i \in DOMAIN Order : checkAt(Order[i], v)}
<1>1. DOMAIN Order = 1..11
  BY DEF Order
<1>2. k \in yes /\ \A j \in yes : k <= j /\ j \in Nat
  BY <1>1
<1> HIDE DEF yes
<1>3. (CHOOSE i \in yes : \A j \in yes : i <= j) = k
  <2> DEFINE c == CHOOSE i \in yes : \A j \in yes : i <= j
  <2>1. c \in yes /\ \A j \in yes : c <= j
    BY <1>2
  <2> HIDE DEF c
  <2>2. c <= k /\ k <= c /\ c \in Nat /\ k \in Nat
    BY <1>2, <2>1
  <2>3. c = k
    BY <2>2
  <2> QED BY <2>3 DEF c
<1> QED BY <1>2, <1>3 DEF Alternative, yes

\* The alternative each type of Lua value is read as.
ReadAs ==
  [t \in LuaTypes |->
     CASE t = "nil" -> "LuaNil" [] t = "boolean" -> "LuaBoolean" [] t = "integer" -> "LuaInteger"
       [] t \in {"float", "nonfinite", "numeral"} -> "LuaNumber" [] t \in {"text", "binary"} -> "LuaString"
       [] t = "thread" -> "LuaThread" [] t = "lightuserdata" -> "LuaLightUserData"
       [] t = "userdata" -> "LuaFullUserData" [] t = "table" -> "LuaTable"
       [] t = "cfunction" -> "LuaCFunction" [] t = "function" -> "LuaFunction"]

LEMMA AlternativeOf ==
  ASSUME NEW v \in Readable
  PROVE  Alternative(v) = ReadAs[v.type]
<1>0. v.type \in LuaTypes
  BY ReadableParts
<1>a. /\ checkAt(Order[1], v) <=> v.type = "nil"
      /\ checkAt(Order[2], v) <=> v.type = "boolean"
      /\ checkAt(Order[3], v) <=> v.type = "integer"
      /\ checkAt(Order[4], v) <=> v.type \in {"integer", "float", "nonfinite", "numeral"}
      /\ checkAt(Order[5], v) <=> v.type = "thread"
      /\ checkAt(Order[6], v) <=> v.type = "lightuserdata"
  BY DEF Order, checkAt, checkInteger, isnumber, Floats, checkThread, checkLightUserData
<1>b. /\ checkAt(Order[7], v) <=> v.type = "userdata"
      /\ checkAt(Order[8], v) <=> v.type \in {"numeral", "text", "binary", "integer", "float",
                                                 "nonfinite"}
      /\ checkAt(Order[9], v) <=> v.type = "table"
      /\ checkAt(Order[10], v) <=> v.type = "cfunction"
      /\ checkAt(Order[11], v) <=> v.type \in {"function", "cfunction"}
  BY DEF Order, checkAt, checkFullUserData, checkLightUserData, isuserdata, isstring, Strings, Floats,
         checkTable, checkCFunction, checkFunction
<1>1. CASE v.type = "nil"
  <2>1. checkAt(Order[1], v) /\ \A j \in 1..1-1 : ~checkAt(Order[j], v)
    BY <1>a, <1>b, <1>1
  <2>2. Alternative(v) = Order[1]
    BY <2>1, FirstInOrder
  <2> QED BY <1>0, <1>1, <2>2 DEF ReadAs, Order
<1>2. CASE v.type = "boolean"
  <2>1. checkAt(Order[2], v) /\ \A j \in 1..2-1 : ~checkAt(Order[j], v)
    BY <1>a, <1>b, <1>2
  <2>2. Alternative(v) = Order[2]
    BY <2>1, FirstInOrder
  <2> QED BY <1>0, <1>2, <2>2 DEF ReadAs, Order
<1>3. CASE v.type = "integer"
  <2>1. checkAt(Order[3], v) /\ \A j \in 1..3-1 : ~checkAt(Order[j], v)
    BY <1>a, <1>b, <1>3
  <2>2. Alternative(v) = Order[3]
    BY <2>1, FirstInOrder
  <2> QED BY <1>0, <1>3, <2>2 DEF ReadAs, Order
<1>4. CASE v.type = "float"
  <2>1. checkAt(Order[4], v) /\ \A j \in 1..4-1 : ~checkAt(Order[j], v)
    BY <1>a, <1>b, <1>4
  <2>2. Alternative(v) = Order[4]
    BY <2>1, FirstInOrder
  <2> QED BY <1>0, <1>4, <2>2 DEF ReadAs, Order
<1>5. CASE v.type = "numeral"
  <2>1. checkAt(Order[4], v) /\ \A j \in 1..4-1 : ~checkAt(Order[j], v)
    BY <1>a, <1>b, <1>5
  <2>2. Alternative(v) = Order[4]
    BY <2>1, FirstInOrder
  <2> QED BY <1>0, <1>5, <2>2 DEF ReadAs, Order
<1>6. CASE v.type = "thread"
  <2>1. checkAt(Order[5], v) /\ \A j \in 1..5-1 : ~checkAt(Order[j], v)
    BY <1>a, <1>b, <1>6
  <2>2. Alternative(v) = Order[5]
    BY <2>1, FirstInOrder
  <2> QED BY <1>0, <1>6, <2>2 DEF ReadAs, Order
<1>7. CASE v.type = "lightuserdata"
  <2>1. checkAt(Order[6], v) /\ \A j \in 1..6-1 : ~checkAt(Order[j], v)
    BY <1>a, <1>b, <1>7
  <2>2. Alternative(v) = Order[6]
    BY <2>1, FirstInOrder
  <2> QED BY <1>0, <1>7, <2>2 DEF ReadAs, Order
<1>8. CASE v.type = "userdata"
  <2>1. checkAt(Order[7], v) /\ \A j \in 1..7-1 : ~checkAt(Order[j], v)
    BY <1>a, <1>b, <1>8
  <2>2. Alternative(v) = Order[7]
    BY <2>1, FirstInOrder
  <2> QED BY <1>0, <1>8, <2>2 DEF ReadAs, Order
<1>9. CASE v.type = "text"
  <2>1. checkAt(Order[8], v) /\ \A j \in 1..8-1 : ~checkAt(Order[j], v)
    BY <1>a, <1>b, <1>9
  <2>2. Alternative(v) = Order[8]
    BY <2>1, FirstInOrder
  <2> QED BY <1>0, <1>9, <2>2 DEF ReadAs, Order
<1>10. CASE v.type = "binary"
  <2>1. checkAt(Order[8], v) /\ \A j \in 1..8-1 : ~checkAt(Order[j], v)
    BY <1>a, <1>b, <1>10
  <2>2. Alternative(v) = Order[8]
    BY <2>1, FirstInOrder
  <2> QED BY <1>0, <1>10, <2>2 DEF ReadAs, Order
<1>11. CASE v.type = "table"
  <2>1. checkAt(Order[9], v) /\ \A j \in 1..9-1 : ~checkAt(Order[j], v)
    BY <1>a, <1>b, <1>11
  <2>2. Alternative(v) = Order[9]
    BY <2>1, FirstInOrder
  <2> QED BY <1>0, <1>11, <2>2 DEF ReadAs, Order
<1>12. CASE v.type = "cfunction"
  <2>1. checkAt(Order[10], v) /\ \A j \in 1..10-1 : ~checkAt(Order[j], v)
    BY <1>a, <1>b, <1>12
  <2>2. Alternative(v) = Order[10]
    BY <2>1, FirstInOrder
  <2> QED BY <1>0, <1>12, <2>2 DEF ReadAs, Order
<1>13. CASE v.type = "function"
  <2>1. checkAt(Order[11], v) /\ \A j \in 1..11-1 : ~checkAt(Order[j], v)
    BY <1>a, <1>b, <1>13
  <2>2. Alternative(v) = Order[11]
    BY <2>1, FirstInOrder
  <2> QED BY <1>0, <1>13, <2>2 DEF ReadAs, Order
<1>14. CASE v.type = "nonfinite"
  <2>1. checkAt(Order[4], v) /\ \A j \in 1..4-1 : ~checkAt(Order[j], v)
    BY <1>a, <1>b, <1>14
  <2>2. Alternative(v) = Order[4]
    BY <2>1, FirstInOrder
  <2> QED BY <1>0, <1>14, <2>2 DEF ReadAs, Order
<1> QED BY <1>0, <1>1, <1>2, <1>3, <1>4, <1>5, <1>6, <1>7, <1>8, <1>9, <1>10, <1>11, <1>12,
           <1>13, <1>14 DEF LuaTypes

\* The alternative a value is read as never refuses it, leaves its slot alone, and but for
\* strings gives the value itself.
LEMMA ValueReads ==
  ASSUME NEW v \in Readable
  PROVE  /\ Alternative(v) # "none" /\ readValue(v) # Thrown
         /\ SlotAfterValue(v) = v
         /\ v.type \notin Strings => readValue(v).val = v
<1>0. /\ v = [type |-> v.type, val |-> v.val] /\ v.type \in LuaTypes /\ v.val \in {0, 1, 20}
      /\ v.type = "integer" => v.val \in {0, 20}
      /\ v.type \in {"boolean", "text"} => v.val \in {0, 1}
      /\ v.type \notin {"integer", "float", "numeral", "boolean", "text"} => v.val = 0
  BY ReadableParts
<1>1. Alternative(v) = ReadAs[v.type]
  BY AlternativeOf
<1>2. CASE v.type \in {"text", "binary"}
  <2>1. Alternative(v) = "LuaString"
    BY <1>0, <1>1, <1>2 DEF ReadAs
  <2> QED BY <1>2, <2>1 DEF readValue, readAt, readString, isstring, Strings, Got, Thrown,
               SlotAfterValue, SlotAfter, InPlace
<1>3. CASE v.type \notin {"text", "binary"}
  <2>1. /\ Alternative(v) # "LuaString" /\ Alternative(v) # "none"
        /\ Alternative(v) \in Classes
    BY <1>0, <1>1, <1>3 DEF ReadAs, Classes, LuaTypes
  <2>2. SlotAfterValue(v) = v
    BY <2>1 DEF SlotAfterValue, SlotAfter
  <2>3. readValue(v) = readAt(Alternative(v), v)
    BY <2>1 DEF readValue
  <2>4. readAt(Alternative(v), v).as # "exception"
    BY <2>1 DEF readAt, readNil, readBoolean, readInteger, readNumber, nullopt, Got, Classes
  <2>5. readValue(v) # Thrown
    BY <2>3, <2>4 DEF Thrown, Got
  <2>6. ASSUME v.type \notin Strings PROVE readAt(Alternative(v), v).val = v
    <3>1. CASE v.type = "nil"
      <4>1. Alternative(v) = "LuaNil"
        BY <1>0, <1>1, <3>1 DEF ReadAs
      <4> QED BY <1>0, <3>1, <4>1 DEF readAt, readNil, Got
    <3>2. CASE v.type = "boolean"
      <4>1. Alternative(v) = "LuaBoolean"
        BY <1>0, <1>1, <3>2 DEF ReadAs
      <4>2. v \in Falsy <=> v.val = 0
        BY <1>0, <3>2 DEF Falsy
      <4> QED BY <1>0, <3>2, <4>1, <4>2 DEF readAt, readBoolean, Got
    <3>3. CASE v.type = "integer"
      <4>1. Alternative(v) = "LuaInteger"
        BY <1>0, <1>1, <3>3 DEF ReadAs
      <4>2. isnumber(v) /\ Integral(v)
        BY <1>0, <3>3, Halves DEF isnumber, Integral
      <4> QED BY <1>0, <3>3, <4>1, <4>2 DEF readAt, readInteger, Got
    <3>4. CASE v.type \in Floats
      <4>1. Alternative(v) = "LuaNumber"
        BY <1>0, <1>1, <3>4 DEF ReadAs, Floats
      <4> QED BY <1>0, <3>4, <4>1 DEF readAt, readNumber, isnumber, Got
    <3>5. CASE v.type \in {"table", "function", "cfunction", "thread", "lightuserdata", "userdata"}
      <4>1. /\ Alternative(v) \in {"LuaTable", "LuaFunction", "LuaCFunction", "LuaThread",
                                   "LuaLightUserData", "LuaFullUserData"}
            /\ checkAt(Alternative(v), v)
        BY <1>0, <1>1, <3>5 DEF ReadAs, checkAt, checkTable, checkFunction, checkCFunction,
           checkThread, checkLightUserData, checkFullUserData, isuserdata
      <4> QED BY <1>0, <4>1 DEF readAt, Got
    <3> QED BY <1>0, <2>6, <3>1, <3>2, <3>3, <3>4, <3>5 DEF LuaTypes, Strings, Floats
  <2> QED BY <2>1, <2>2, <2>3, <2>5, <2>6
<1> QED BY <1>2, <1>3

LEMMA ReadValueIsPushable ==
  ASSUME NEW v \in Readable
  PROVE  Pushable(readValue(v))
BY ValueReads, ReadIsPushable DEF readValue
-----------------------------------------------------------------------------
(* The inductive invariant. *)

LEMMA Prefixes ==
  ASSUME NEW S, NEW q \in Seq(S), NEW n \in 0..Len(q)
  PROVE  /\ SubSeq(q, 1, n) \in Seq(S) /\ Len(SubSeq(q, 1, n)) = n
         /\ \A i \in 1..n : SubSeq(q, 1, n)[i] = q[i]
OBVIOUS

LEMMA OnTopParts ==
  ASSUME Types, stk # <<>>
  PROVE  /\ OnTop \in Readable /\ Below \in Seq(Readable) /\ Append(Below, OnTop) = stk
         /\ \A v : Append(Below, v) # <<>> /\ Append(Below, v)[Len(Append(Below, v))] = v
         /\ \A v \in Readable : Append(Below, v) \in Seq(Readable)
<1>1. stk \in Seq(Readable) /\ Len(stk) \in Nat /\ Len(stk) > 0
  BY DEF Types
<1>2. OnTop \in Readable
  BY <1>1 DEF OnTop
<1>3. Below \in Seq(Readable) /\ Len(Below) = Len(stk) - 1
      /\ \A i \in 1..Len(stk)-1 : Below[i] = stk[i]
  <2>1. Len(stk) - 1 \in 0..Len(stk)
    BY <1>1
  <2> QED BY <1>1, <2>1, Prefixes DEF Below
<1> HIDE DEF Below, OnTop
<1>4. Append(Below, OnTop) = stk
  <2>1. Append(Below, OnTop) \in Seq(Readable) /\ Len(Append(Below, OnTop)) = Len(stk)
    BY <1>1, <1>2, <1>3
  <2>2. \A i \in 1..Len(stk) : Append(Below, OnTop)[i] = stk[i]
    BY <1>1, <1>2, <1>3 DEF OnTop
  <2> QED BY <1>1, <2>1, <2>2
<1>5. \A v : Append(Below, v) # <<>> /\ Append(Below, v)[Len(Append(Below, v))] = v
  BY <1>3
<1>6. \A v \in Readable : Append(Below, v) \in Seq(Readable)
  BY <1>3
<1> QED BY <1>2, <1>3, <1>4, <1>5, <1>6

LEMMA InitInv == Init => IInv
BY DEF Init, IInv, Types, Pushable, CheckedCanBeRead, nullopt, Got, Classes

\* A step after which nothing is known of the value on top.
LEMMA NewTop ==
  ASSUME stk' \in Seq(Readable), checks' = {}, Pushable(got')
  PROVE  IInv'
BY DEF IInv, Types, CheckedCanBeRead, Pushable

\* A step that reads the value on top where it lies.
LEMMA Rereads ==
  ASSUME IInv, stk # <<>>, NEW T,
         stk' = Append(Below, SlotAfter(T, OnTop)), checks' = checks, Pushable(got')
  PROVE  IInv'
<1> DEFINE v == SlotAfter(T, OnTop)
<1>1. Types /\ OnTop \in Readable
  BY OnTopParts DEF IInv
<1>2. v \in Readable /\ \A C \in Classes : Checked(C, OnTop) => Checked(C, v)
  BY <1>1, SlotKeeps
<1>3. \A C \in checks : C \in Classes /\ Checked(C, OnTop)
  BY <1>1 DEF IInv, Types, CheckedCanBeRead, CanBeRead, Checked
<1> HIDE DEF v
<1>4. stk' \in Seq(Readable) /\ stk'[Len(stk')] = v
  BY <1>1, <1>2, OnTopParts DEF v
<1>5. CheckedCanBeRead'
  BY <1>2, <1>3, <1>4 DEF CheckedCanBeRead, CanBeRead, Checked, OnTop
<1>6. Types'
  BY <1>1, <1>4 DEF Types, Pushable
<1> QED BY <1>5, <1>6 DEF IInv

LEMMA ScriptLeavesInv == ASSUME IInv, NEW v \in LuaValues, ScriptLeaves(v) PROVE IInv'
<1>1. v \in Readable /\ stk \in Seq(Readable)
  BY DEF Readable, IInv, Types
<1>2. stk' \in Seq(Readable)
  BY <1>1 DEF ScriptLeaves
<1>3. checks' = {} /\ Pushable(got')
  BY DEF ScriptLeaves, IInv, Types, Pushable
<1> QED BY <1>2, <1>3, NewTop

LEMMA CheckInv == ASSUME IInv, NEW T \in Classes, checkStackTop(T) PROVE IInv'
<1>1. OnTop \in Readable /\ checkAt(T, OnTop)
  BY OnTopParts DEF IInv, checkStackTop
<1>2. CanBeRead(T, OnTop)
  BY <1>1, CheckReads
<1> QED BY <1>2 DEF IInv, Types, CheckedCanBeRead, CanBeRead, Pushable, checkStackTop, OnTop

LEMMA ReadInv == ASSUME IInv, NEW T \in Classes, readStackTop(T) PROVE IInv'
<1>1. stk # <<>> /\ OnTop \in Readable
  BY OnTopParts DEF IInv, readStackTop
<1>2. Pushable(got')
  BY <1>1, ReadIsPushable DEF readStackTop
<1> QED BY <1>1, <1>2, Rereads DEF readStackTop

LEMMA ReadValueInv == ASSUME IInv, readStackTopValue PROVE IInv'
<1>1. stk # <<>> /\ OnTop \in Readable
  BY OnTopParts DEF IInv, readStackTopValue
<1>2. Pushable(got')
  BY <1>1, ReadValueIsPushable DEF readStackTopValue
<1> QED BY <1>1, <1>2, Rereads DEF readStackTopValue, SlotAfterValue

\* Popping: either the value is gone or an exception has left everything as it was.
LEMMA PopInv ==
  ASSUME IInv, stk # <<>>, Pushable(got'),
         \/ UNCHANGED <<stk, checks>>
         \/ stk' = Below /\ checks' = {}
  PROVE  IInv'
<1>1. CASE UNCHANGED <<stk, checks>>
  BY <1>1 DEF IInv, Types, CheckedCanBeRead, Pushable, OnTop
<1>2. CASE stk' = Below /\ checks' = {}
  <2>1. stk' \in Seq(Readable)
    BY <1>2, OnTopParts DEF IInv
  <2> QED BY <1>2, <2>1, NewTop
<1> QED BY <1>1, <1>2

LEMMA PopClassInv == ASSUME IInv, NEW T \in Classes, popStack(T) PROVE IInv'
<1>1. stk # <<>> /\ OnTop \in Readable
  BY OnTopParts DEF IInv, popStack
<1>2. Pushable(got')
  BY <1>1, ReadIsPushable DEF popStack
<1> QED BY <1>1, <1>2, PopInv DEF popStack

LEMMA PopValueInv == ASSUME IInv, popStackValue PROVE IInv'
<1>1. stk # <<>> /\ OnTop \in Readable
  BY OnTopParts DEF IInv, popStackValue
<1>2. Pushable(got')
  BY <1>1, ReadValueIsPushable DEF popStackValue
<1> QED BY <1>1, <1>2, PopInv DEF popStackValue

LEMMA PushInv == ASSUME IInv, push PROVE IInv'
<1>1. got.val \in Readable /\ stk \in Seq(Readable)
  BY DEF IInv, Types, Pushable, push
<1>2. stk' \in Seq(Readable)
  BY <1>1 DEF push
<1>3. checks' = {} /\ Pushable(got')
  BY DEF push, IInv, Types, Pushable
<1> QED BY <1>2, <1>3, NewTop

\* The inductive invariant holds in every state.
THEOREM Invariance == Spec => []IInv
<1>1. IInv /\ [Next]_vars => IInv'
  <2> SUFFICES ASSUME IInv, [Next]_vars PROVE IInv'
    OBVIOUS
  <2>1. CASE Next
    BY <2>1, ScriptLeavesInv, CheckInv, ReadInv, PopClassInv, ReadValueInv, PopValueInv, PushInv
       DEF Next
  <2>2. CASE UNCHANGED vars
    BY <2>2 DEF vars, IInv, Types, CheckedCanBeRead, Pushable, OnTop
  <2> QED BY <2>1, <2>2
<1> QED BY <1>1, InitInv, PTL DEF Spec
-----------------------------------------------------------------------------
(* What follows from it. *)

\* checkStackTop, readStackTop: a class that was found on top can be read from there,
\* however often the value has been read as other classes since, unless it was inf or
\* nan as a LuaNumber and has been read as a LuaString.
THEOREM CheckedReads == Spec => []CheckedCanBeRead
<1>1. IInv => CheckedCanBeRead
  BY DEF IInv
<1> QED BY <1>1, Invariance, PTL

\* LuaStackReader<LuaValue>: no value a script, a push or a conversion in place leaves is
\* unknown to it, and reading one as a LuaValue changes nothing on the stack.
THEOREM EveryValueCanBeRead == Spec => EveryValueReads
<1>1. IInv /\ [Next]_vars => [readStackTopValue => got' # Thrown /\ stk' = stk]_vars
  <2> SUFFICES ASSUME IInv, readStackTopValue PROVE got' # Thrown /\ stk' = stk
    OBVIOUS
  <2>1. OnTop \in Readable /\ Append(Below, OnTop) = stk
    BY OnTopParts DEF IInv, readStackTopValue
  <2>2. readValue(OnTop) # Thrown /\ SlotAfterValue(OnTop) = OnTop
    BY <2>1, ValueReads
  <2> QED BY <2>1, <2>2 DEF readStackTopValue
<1> QED BY <1>1, Invariance, PTL DEF Spec, EveryValueReads

\* popStack and push: a value that is no string, popped as a LuaValue, is the value that
\* pushing it again leaves.
THEOREM ComesBack == Spec => RoundTrip
<1>1. IInv /\ [Next]_vars => [popStackValue /\ OnTop.type \notin Strings => got'.val = OnTop]_vars
  <2> SUFFICES ASSUME IInv, popStackValue, OnTop.type \notin Strings PROVE got'.val = OnTop
    OBVIOUS
  <2>1. OnTop \in Readable
    BY OnTopParts DEF IInv, popStackValue
  <2> QED BY <2>1, ValueReads DEF popStackValue
<1> QED BY <1>1, Invariance, PTL DEF Spec, RoundTrip
=============================================================================
