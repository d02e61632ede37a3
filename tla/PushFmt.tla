------------------------------- MODULE PushFmt -------------------------------
(***************************************************************************)
(* Lua::pushFmt: the format and the types of the arguments are checked by  *)
(* checkPushFmt, a tail-recursive template; only when it finds no error is *)
(* lua_pushfstring called.  One step is one instantiation of the template: *)
(* it looks for the first '%' of what is left of the format.  Arguments    *)
(* are known by their C++ type alone.                                      *)
(***************************************************************************)
EXTENDS Naturals, Sequences, FiniteSets

CONSTANTS
  Chars,   \* characters of the formats
  Kinds,   \* C++ types of the arguments
  MaxFmt,  \* bound: length of a format
  MaxArgs  \* bound: number of arguments

ASSUME FmtAssumption == MaxFmt \in Nat /\ MaxArgs \in Nat

VARIABLES
  input,    \* the call: its format and its arguments
  fmt,      \* what is left of the format
  args,     \* the arguments not consumed yet
  verdict,  \* "checking", "none" or a PushFmtErrorCode
  pushed    \* values lua_pushfstring has left on the stack

vars == <<input, fmt, args, verdict, pushed>>

\* Variant: %s takes whatever converts to a LuaValue.
ConvertibleToValue ==
  [c \in {"p", "d", "c", "f", "s"} |->
     CASE c = "p" -> {"nullptr_t", "void*"}
       [] c \in {"d", "c"} -> {"int", "lua_Integer", "lua_Number", "LuaInteger"}
       [] c = "f" -> {"int", "lua_Integer", "lua_Number", "LuaNumber"}
       [] c = "s" -> {"const char*", "nullptr_t", "LuaString", "lua_Number", "LuaNumber"}]

\* std::is_convertible_v<T1, ...> for the type a specifier asks for.
Convertible ==
  [c \in {"p", "d", "c", "f", "s"} |->
     CASE c = "p" -> {"nullptr_t", "void*"}
       [] c \in {"d", "c"} -> {"int", "lua_Integer", "lua_Number", "LuaInteger"}
       [] c = "f" -> {"int", "lua_Integer", "lua_Number", "LuaNumber"}
       [] c = "s" -> {"const char*", "nullptr_t", "LuaString"}]

Specifiers == DOMAIN Convertible

\* How an argument of each type travels through the "..." of lua_pushfstring.  An
\* object of one of arasy's classes is not unwrapped: they are polymorphic and copied
\* by a constructor, so what is passed is the address of a copy.
Objects == {"LuaInteger", "LuaNumber", "LuaString"}
PassedAs(k) ==
  IF k \in Objects THEN "object"
  ELSE IF k \in {"int", "lua_Integer", "lua_Number"} THEN "number" ELSE "address"

\* What lua_pushfstring takes the argument of a specifier for.
ReadAs(c) == IF c \in {"d", "c", "f"} THEN "number" ELSE "address"
-----------------------------------------------------------------------------
\* fmt.find('%') has found position i.
FirstPercent(s, i) == s[i] = "%" /\ \A j \in 1..i-1 : s[j] # "%"

After(s, i) == SubSeq(s, i + 1, Len(s))

Report(code) == verdict' = code /\ UNCHANGED <<input, fmt, args, pushed>>

NoSpecifierLeft ==
  /\ \A i \in 1..Len(fmt) : fmt[i] # "%"
  /\ Report(IF args = <<>> THEN "none" ELSE "TOO_MANY_ARGS")

Incomplete ==
  /\ \E i \in 1..Len(fmt) : FirstPercent(fmt, i) /\ i = Len(fmt)
  /\ Report("INVALID_SPECIFIER")

\* Variants: the second '%' is left to be read again; the rest is checked anew.
PercentHalfSkipped ==
  /\ \E i \in 1..Len(fmt)-1 :
       FirstPercent(fmt, i) /\ fmt[i+1] = "%" /\ fmt' = After(fmt, i)
  /\ UNCHANGED <<input, args, verdict, pushed>>

PercentNotSkipped ==
  /\ \E i \in 1..Len(fmt)-1 : FirstPercent(fmt, i) /\ fmt[i+1] = "%" /\ fmt' = fmt
  /\ UNCHANGED <<input, args, verdict, pushed>>

PercentLiteral ==
  /\ \E i \in 1..Len(fmt)-1 :
       FirstPercent(fmt, i) /\ fmt[i+1] = "%" /\ fmt' = After(fmt, i + 1)
  /\ UNCHANGED <<input, args, verdict, pushed>>

TooFewArgs ==
  /\ args = <<>>
  /\ \E i \in 1..Len(fmt)-1 : FirstPercent(fmt, i) /\ fmt[i+1] # "%"
  /\ Report("TOO_FEW_ARGS")

InvalidSpecifier ==
  /\ args # <<>>
  /\ \E i \in 1..Len(fmt)-1 : FirstPercent(fmt, i) /\ fmt[i+1] \notin Specifiers \cup {"%"}
  /\ Report("INVALID_SPECIFIER")

IncompatibleArg ==
  /\ args # <<>>
  /\ \E i \in 1..Len(fmt)-1 :
       /\ FirstPercent(fmt, i) /\ fmt[i+1] \in Specifiers
       /\ Head(args) \notin Convertible[fmt[i+1]]
  /\ Report("INCOMPATIBLE_ARG")

ConsumeArg ==
  /\ args # <<>>
  /\ \E i \in 1..Len(fmt)-1 :
       /\ FirstPercent(fmt, i) /\ fmt[i+1] \in Specifiers
       /\ Head(args) \in Convertible[fmt[i+1]]
       /\ fmt' = After(fmt, i + 1)
  /\ args' = Tail(args)
  /\ UNCHANGED <<input, verdict, pushed>>

CheckPushFmt ==
  /\ verdict = "checking"
  /\ \/ NoSpecifierLeft \/ Incomplete \/ PercentLiteral \/ TooFewArgs
     \/ InvalidSpecifier \/ IncompatibleArg \/ ConsumeArg

\* lua_pushfstring, reached only when the check has found nothing.
Push ==
  /\ verdict = "none" /\ pushed = 0
  /\ pushed' = 1
  /\ UNCHANGED <<input, fmt, args, verdict>>

SeqsUpTo(S, n) == UNION {[1..k -> S] : k \in 0..n}

Init ==
  /\ input \in [fmt : SeqsUpTo(Chars, MaxFmt), args : SeqsUpTo(Kinds, MaxArgs)]
  /\ fmt = input.fmt /\ args = input.args
  /\ verdict = "checking"
  /\ pushed = 0

Next == CheckPushFmt \/ Push

Spec == Init /\ [][Next]_vars /\ WF_vars(Next)
-----------------------------------------------------------------------------
(* Reference definition: the format is read character by character. *)

\* Position i opens a specifier: a '%' that does not itself follow an opening one.
Open(s) ==
  LET open[i \in 0..Len(s)] == IF i = 0 THEN FALSE ELSE s[i] = "%" /\ ~open[i-1]
  IN  open

Opens(s) == {i \in 1..Len(s) : Open(s)[i]}

\* The openings that ask for an argument, and the argument of each.
Placeholders(s) == {i \in Opens(s) : i = Len(s) \/ s[i+1] # "%"}
Rank(s, i) == Cardinality({j \in Placeholders(s) : j <= i})

Complaint(s, a, i) ==
  IF i = Len(s) THEN "INVALID_SPECIFIER"
  ELSE IF Rank(s, i) > Len(a) THEN "TOO_FEW_ARGS"
  ELSE IF s[i+1] \notin Specifiers THEN "INVALID_SPECIFIER"
  ELSE IF a[Rank(s, i)] \notin Convertible[s[i+1]] THEN "INCOMPATIBLE_ARG"
  ELSE "none"

\* The first complaint from the left; arguments left over count last.
Bad(s, a) == {i \in Placeholders(s) : Complaint(s, a, i) # "none"}
Expected(s, a) ==
  LET bad == Bad(s, a)
  IN  IF bad # {} THEN Complaint(s, a, CHOOSE i \in bad : \A j \in bad : i <= j)
      ELSE IF Cardinality(Placeholders(s)) < Len(a) THEN "TOO_MANY_ARGS" ELSE "none"
-----------------------------------------------------------------------------
(* Properties. *)

(* However often the template has been instantiated, the verdict due for what is *)
(* left of the format and of the arguments is the verdict due for the whole      *)
(* call, and the verdict it reports is that one.                                 *)
ChecksWholeFormat ==
  LET due == Expected(input.fmt, input.args)
  IN  IF verdict = "checking" THEN Expected(fmt, args) = due ELSE verdict = due

(* Every call comes to a verdict, and one without an error to a pushed string.   *)
AlwaysAnswers == <>(verdict # "checking" /\ (verdict = "none" => pushed = 1))

(* What the check lets through to lua_pushfstring is read as a number if it was  *)
(* passed as one and as an address if it was passed as one; the arguments for    *)
(* which that fails are the objects of arasy's own classes, every one of them:   *)
(* the check takes a LuaInteger for %d, which then reads the object's address.   *)
NumbersAreNotAddresses ==
  pushed = 1 =>
    \A i \in Placeholders(input.fmt) :
      LET k == input.args[Rank(input.fmt, i)]
      IN  PassedAs(k) = ReadAs(input.fmt[i+1]) <=> k \notin Objects
=============================================================================
