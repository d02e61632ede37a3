------------------------------ MODULE StackReader ------------------------------
(***************************************************************************)
(* Reading values off a Lua stack: LuaStackReader<T>, checkAt and readAt,  *)
(* for every type of arasy and for LuaValue, and what a client does with   *)
(* them, checkStackTop, readStackTop, popStack and push.  The lua_is and   *)
(* lua_to functions are external.                                          *)
(*                                                                         *)
(* A Lua value is [type, val].  Numbers count in halves, so that 0.5 is 1  *)
(* and 10 is 20; "nonfinite" are the floats inf and nan.  Strings come in  *)
(* three types: "numeral", which the number functions convert, "text", and *)
(* "binary", with a zero byte inside; text 1 is the name of a nonfinite    *)
(* float.  A C++ value is [as, val], its class and the Lua value it stands *)
(* for.                                                                    *)
(***************************************************************************)
EXTENDS Integers, Sequences

CONSTANT MaxStack   \* bound: values on the stack

LuaValues ==
  [type : {"integer"}, val : {0, 20}] \cup [type : {"float", "numeral"}, val : {1, 20}]
    \cup [type : {"boolean", "text"}, val : {0, 1}]
    \cup [type : {"nonfinite", "nil", "binary", "table", "function", "cfunction", "thread",
                  "lightuserdata", "userdata"}, val : {0}]

Falsy == [type : {"nil", "boolean"}, val : {0}]
Integral(v) == v.type # "nonfinite" /\ v.val % 2 = 0
Strings == {"numeral", "text", "binary"}

Floats == {"float", "nonfinite"}

isnumber(v) == v.type \in {"integer", "numeral"} \cup Floats
isstring(v) == v.type \in Strings \cup {"integer"} \cup Floats
isuserdata(v) == v.type \in {"userdata", "lightuserdata"}

\* lua_tostring converts a number where it lies.  "inf" and "nan" are no numerals: the
\* number functions do not convert them back.
NonFiniteText == [type |-> "text", val |-> 1]
InPlace(v) ==
  CASE v.type \in {"integer", "float"} -> [v EXCEPT !.type = "numeral"]
    [] v.type = "nonfinite" -> NonFiniteText
    [] OTHER -> v

\* What a char pointer keeps of a string.
UpToZero(v) == IF v.type = "binary" THEN [type |-> "text", val |-> 0] ELSE v
-----------------------------------------------------------------------------
(* LuaStackReader<T>. *)

Classes == {"LuaNil", "LuaBoolean", "LuaInteger", "LuaNumber", "LuaString", "LuaTable",
            "LuaFunction", "LuaCFunction", "LuaThread", "LuaLightUserData", "LuaFullUserData"}

\* Variant: whatever converts to a number passes for an integer.
checkIntegerLoose(v) == isnumber(v)

checkInteger(v) == v.type = "integer"

checkTable(v) == v.type = "table"
checkFunction(v) == v.type \in {"function", "cfunction"}
checkCFunction(v) == v.type = "cfunction"
checkThread(v) == v.type = "thread"
checkLightUserData(v) == v.type = "lightuserdata"
checkFullUserData(v) == isuserdata(v) /\ ~checkLightUserData(v)

checkAt(T, v) ==
  CASE T = "LuaNil" -> v.type = "nil"
    [] T = "LuaBoolean" -> v.type = "boolean"
    [] T = "LuaInteger" -> checkInteger(v)
    [] T = "LuaNumber" -> isnumber(v)
    [] T = "LuaString" -> isstring(v)
    [] T = "LuaTable" -> checkTable(v)
    [] T = "LuaFunction" -> checkFunction(v)
    [] T = "LuaCFunction" -> checkCFunction(v)
    [] T = "LuaThread" -> checkThread(v)
    [] T = "LuaLightUserData" -> checkLightUserData(v)
    [] T = "LuaFullUserData" -> checkFullUserData(v)

\* A C++ value of class T, written as the Lua value it stands for: pushOnto pushes that.
Got(T, type, val) == [as |-> T, val |-> [type |-> type, val |-> val]]
nullopt == Got("nullopt", "nil", 0)
Thrown == Got("exception", "nil", 0)

\* Five readers do not look at checkAt: a LuaNil or LuaBoolean is read from anything,
\* a number from all that converts, and a LuaString is given nullptr when nothing
\* does, which its constructor refuses with an exception.
readNil(v) == Got("LuaNil", "nil", 0)
readBoolean(v) == Got("LuaBoolean", "boolean", IF v \in Falsy THEN 0 ELSE 1)
readInteger(v) ==
  IF isnumber(v) /\ Integral(v) THEN Got("LuaInteger", "integer", v.val) ELSE nullopt
readNumber(v) ==
  IF isnumber(v) THEN Got("LuaNumber", IF v.type \in Floats THEN v.type ELSE "float", v.val)
  ELSE nullopt
readString(v) ==
  LET s == UpToZero(InPlace(v))
  IN  IF isstring(v) THEN Got("LuaString", s.type, s.val) ELSE Thrown

readAt(T, v) ==
  CASE T = "LuaNil" -> readNil(v)
    [] T = "LuaBoolean" -> readBoolean(v)
    [] T = "LuaInteger" -> readInteger(v)
    [] T = "LuaNumber" -> readNumber(v)
    [] T = "LuaString" -> readString(v)
    [] OTHER -> IF checkAt(T, v) THEN Got(T, v.type, v.val) ELSE nullopt

SlotAfter(T, v) == IF T = "LuaString" THEN InPlace(v) ELSE v

\* Variants: strings asked for before numbers; numbers before integers.
OrderStringFirst ==
  <<"LuaNil", "LuaBoolean", "LuaString", "LuaInteger", "LuaNumber", "LuaThread",
    "LuaLightUserData", "LuaFullUserData", "LuaTable", "LuaCFunction", "LuaFunction">>
OrderNumberFirst ==
  <<"LuaNil", "LuaBoolean", "LuaNumber", "LuaInteger", "LuaThread", "LuaLightUserData",
    "LuaFullUserData", "LuaString", "LuaTable", "LuaCFunction", "LuaFunction">>

\* The order in which LuaStackReader<LuaValue>::readAt asks.
Order == <<"LuaNil", "LuaBoolean", "LuaInteger", "LuaNumber", "LuaThread", "LuaLightUserData",
           "LuaFullUserData", "LuaString", "LuaTable", "LuaCFunction", "LuaFunction">>

Alternative(v) ==
  LET yes == {i \in DOMAIN Order : checkAt(Order[i], v)}
  IN  IF yes = {} THEN "none" ELSE Order[CHOOSE i \in yes : \A j \in yes : i <= j]

readValue(v) == IF Alternative(v) = "none" THEN Thrown ELSE readAt(Alternative(v), v)
SlotAfterValue(v) == SlotAfter(Alternative(v), v)
-----------------------------------------------------------------------------
VARIABLES
  stk,     \* the values on the stack
  checks,  \* classes checkStackTop found on top since that value got there
  got      \* the last value read

vars == <<stk, checks, got>>

Init == stk = <<>> /\ checks = {} /\ got = nullopt

Below == SubSeq(stk, 1, Len(stk) - 1)
OnTop == stk[Len(stk)]

\* A script leaves a value on the stack.
ScriptLeaves(v) ==
  /\ Len(stk) < MaxStack
  /\ stk' = Append(stk, v) /\ checks' = {}
  /\ UNCHANGED got

checkStackTop(T) ==
  /\ stk # <<>> /\ checkAt(T, OnTop)
  /\ checks' = checks \cup {T}
  /\ UNCHANGED <<stk, got>>

readStackTop(T) ==
  /\ stk # <<>>
  /\ got' = readAt(T, OnTop)
  /\ stk' = Append(Below, SlotAfter(T, OnTop))
  /\ UNCHANGED checks

readStackTopValue ==
  /\ stk # <<>>
  /\ got' = readValue(OnTop)
  /\ stk' = Append(Below, SlotAfterValue(OnTop))
  /\ UNCHANGED checks

\* popStack pops only once the value has been read: an exception leaves it there.
popStack(T) ==
  /\ stk # <<>>
  /\ got' = readAt(T, OnTop)
  /\ IF got' = Thrown THEN UNCHANGED <<stk, checks>> ELSE stk' = Below /\ checks' = {}

popStackValue ==
  /\ stk # <<>>
  /\ got' = readValue(OnTop)
  /\ IF got' = Thrown THEN UNCHANGED <<stk, checks>> ELSE stk' = Below /\ checks' = {}

push ==
  /\ Len(stk) < MaxStack /\ got.as \in Classes
  /\ stk' = Append(stk, got.val) /\ checks' = {}
  /\ UNCHANGED got

Next ==
  \/ \E v \in LuaValues : ScriptLeaves(v)
  \/ \E T \in Classes : checkStackTop(T) \/ readStackTop(T) \/ popStack(T)
  \/ readStackTopValue \/ popStackValue \/ push

Spec == Init /\ [][Next]_vars
-----------------------------------------------------------------------------
(* Properties. *)

\* What checkStackTop found can be read, as that class and with no exception, also
\* after the slot was read as something else (lua_tostring converts it in place).  The
\* one value that is lost that way is inf or nan: checked as a LuaNumber and then read
\* as a LuaString, it is no LuaNumber any more.
CheckedCanBeRead ==
  stk # <<>> =>
    \A T \in checks :
      readAt(T, OnTop).as = T \/ (T = "LuaNumber" /\ OnTop = NonFiniteText)

\* Every Lua value can be read as a LuaValue ("Unknown lua type!" is never thrown),
\* and reading one changes nothing on the stack.
EveryValueReads == [][readStackTopValue => got' # Thrown /\ stk' = stk]_vars

\* A value other than a string that is popped as a LuaValue and pushed again is the
\* value it was.
RoundTrip ==
  [][popStackValue /\ OnTop.type \notin Strings => got'.val = OnTop]_vars
=============================================================================
