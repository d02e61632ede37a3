------------------------------ MODULE ScriptProofs ------------------------------
(***************************************************************************)
(* For stacks, argument lists and results of any length: a protected call  *)
(* keeps the values of the client that lie below its function, whatever    *)
(* the code it runs does.                                                  *)
(***************************************************************************)
EXTENDS Script, TLAPS

Vals == Results \cup {"error"}
Answers == {"none", "message", "escaped", "undefined", "RUNTIME_ERROR"} \cup LoadFailures

\* b is still at the bottom of q.
Under(b, q) == Len(b) <= Len(q) /\ \A i \in 1..Len(b) : q[i] = b[i]
-----------------------------------------------------------------------------
(* Sequences. *)

LEMMA SeqParts ==
  ASSUME NEW S, NEW q \in Seq(S)
  PROVE  Len(q) \in Nat /\ (q = <<>> <=> Len(q) = 0)
OBVIOUS

LEMMA PrefixParts ==
  ASSUME NEW S, NEW q \in Seq(S), NEW n \in 0..Len(q)
  PROVE  /\ SubSeq(q, 1, n) \in Seq(S) /\ Len(SubSeq(q, 1, n)) = n
         /\ \A i \in 1..n : SubSeq(q, 1, n)[i] = q[i]
OBVIOUS

LEMMA LoweredParts ==
  ASSUME NEW S, NEW q \in Seq(S), NEW n \in 0..Len(q)
  PROVE  /\ Lowered(q, n) \in Seq(S) /\ Len(Lowered(q, n)) = Len(q) - n
         /\ \A i \in 1..Len(q)-n : Lowered(q, n)[i] = q[i]
<1>1. Len(q) - n \in 0..Len(q)
  BY SeqParts
<1> QED BY <1>1, PrefixParts DEF Lowered

LEMMA FrontParts ==
  ASSUME NEW S, NEW q \in Seq(S), q # <<>>
  PROVE  /\ Front(q) \in Seq(S) /\ Len(Front(q)) = Len(q) - 1
         /\ \A i \in 1..Len(q)-1 : Front(q)[i] = q[i]
<1>1. Len(q) - 1 \in 0..Len(q)
  BY SeqParts
<1> QED BY <1>1, PrefixParts DEF Front

LEMMA AppendParts ==
  ASSUME NEW S, NEW q \in Seq(S), NEW e \in S
  PROVE  /\ Append(q, e) \in Seq(S) /\ Len(Append(q, e)) = Len(q) + 1
         /\ \A i \in 1..Len(q) : Append(q, e)[i] = q[i]
         /\ Append(q, e)[Len(q) + 1] = e
OBVIOUS

LEMMA ConcatParts ==
  ASSUME NEW S, NEW p \in Seq(S), NEW q \in Seq(S)
  PROVE  /\ p \o q \in Seq(S) /\ Len(p \o q) = Len(p) + Len(q)
         /\ \A i \in 1..Len(p) : (p \o q)[i] = p[i]
OBVIOUS

LEMMA SameSeq ==
  ASSUME NEW S, NEW p \in Seq(S), NEW q \in Seq(S), Len(p) = Len(q),
         \A i \in 1..Len(p) : p[i] = q[i]
  PROVE  p = q
OBVIOUS

LEMMA PrefixFrom ==
  ASSUME NEW S, NEW b \in Seq(S), NEW q \in Seq(S), Under(b, q)
  PROVE  IsPrefix(b, q)
<1>1. Len(b) \in 0..Len(b) /\ Len(b) \in 0..Len(q)
  BY SeqParts DEF Under
<1>2. SubSeq(b, 1, Len(b)) = SubSeq(q, 1, Len(b))
  <2> DEFINE x == SubSeq(b, 1, Len(b))  y == SubSeq(q, 1, Len(b))
  <2>1. x \in Seq(S) /\ Len(x) = Len(b) /\ \A i \in 1..Len(b) : x[i] = b[i]
    BY <1>1, PrefixParts
  <2>2. y \in Seq(S) /\ Len(y) = Len(b) /\ \A i \in 1..Len(b) : y[i] = q[i]
    BY <1>1, PrefixParts
  <2> HIDE DEF x, y
  <2>3. x = y
    BY <2>1, <2>2, SameSeq DEF Under
  <2> QED BY <2>3 DEF x, y
<1> QED BY <1>2 DEF IsPrefix, Under

LEMMA UnderAppend ==
  ASSUME NEW S, NEW q \in Seq(S), NEW e \in S
  PROVE  Append(q, e) \in Seq(S) /\ Len(Append(q, e)) = Len(q) + 1 /\ Under(q, Append(q, e))
BY SeqParts, AppendParts DEF Under

LEMMA UnderConcat ==
  ASSUME NEW S, NEW p \in Seq(S), NEW q \in Seq(S)
  PROVE  p \o q \in Seq(S) /\ Len(p \o q) = Len(p) + Len(q) /\ Under(p, p \o q)
BY SeqParts, ConcatParts DEF Under

LEMMA UnderFront ==
  ASSUME NEW S, NEW b \in Seq(S), NEW q \in Seq(S), Under(b, q), Len(q) > Len(b)
  PROVE  Front(q) \in Seq(S) /\ Len(Front(q)) = Len(q) - 1 /\ Under(b, Front(q))
<1>1. Len(b) \in Nat /\ Len(q) \in Nat /\ q # <<>>
  BY SeqParts
<1> QED BY <1>1, FrontParts DEF Under
-----------------------------------------------------------------------------
(* How calls end. *)

LEMMA ResultsAreSeqs ==
  ASSUME NEW nret, NEW rs \in ResultLists(nret), nret = MULTRET \/ nret \in 0..MaxArgs
  PROVE  rs \in Seq(Vals)
<1>1. PICK n \in Nat : rs \in [1..n -> Results]
  BY DEF ResultLists
<1> QED BY <1>1 DEF Vals

\* Whatever a call does, what lies below its function stays; one that fails has put one
\* value there.
LEMMA CallEnds ==
  ASSUME NEW q \in Seq(Vals), NEW n \in Nat, Len(q) > n, NEW nret \in NRets,
         NEW o \in Calls(q, n, nret)
  PROVE  /\ o.stk \in Seq(Vals) /\ Under(Lowered(q, n + 1), o.stk)
         /\ Lowered(q, n + 1) \in Seq(Vals) /\ Len(Lowered(q, n + 1)) = Len(q) - n - 1
         /\ o.status \in {"OK", "ERRRUN", "ERRMEM", "ERRERR"}
         /\ o.status # "OK" => Len(o.stk) = Len(q) - n
<1> DEFINE b == Lowered(q, n + 1)
<1>0. Len(q) \in Nat /\ n \in Nat /\ n + 1 \in 0..Len(q) /\ ~(Len(q) <= n)
  BY SeqParts
<1>1. b \in Seq(Vals) /\ Len(b) = Len(q) - n - 1
  BY <1>0, LoweredParts
<1>2. \/ \E what \in Vals, status \in {"ERRRUN", "ERRMEM", "ERRERR"} :
           o = [stk |-> Append(b, what), status |-> status]
      \/ \E rs \in ResultLists(nret) : o = [stk |-> b \o rs, status |-> "OK"]
  BY <1>0 DEF Calls, Vals, Results
<1> HIDE DEF b
<1>3. ASSUME NEW what \in Vals, NEW status \in {"ERRRUN", "ERRMEM", "ERRERR"},
             o = [stk |-> Append(b, what), status |-> status]
      PROVE  /\ o.stk \in Seq(Vals) /\ Under(b, o.stk)
             /\ o.status \in {"ERRRUN", "ERRMEM", "ERRERR"} /\ Len(o.stk) = Len(q) - n
  BY <1>0, <1>1, <1>3, UnderAppend
<1>4. ASSUME NEW rs \in ResultLists(nret), o = [stk |-> b \o rs, status |-> "OK"]
      PROVE  o.stk \in Seq(Vals) /\ Under(b, o.stk) /\ o.status = "OK"
  <2>1. rs \in Seq(Vals)
    BY ResultsAreSeqs DEF NRets, Counts
  <2> QED BY <1>1, <1>4, <2>1, UnderConcat
<1> QED BY <1>1, <1>2, <1>3, <1>4 DEF b

\* A call that reaches below the frame.
LEMMA CallBelow ==
  ASSUME NEW q, NEW n, NEW nret, Len(q) <= n, NEW o \in Calls(q, n, nret)
  PROVE  o = [stk |-> <<>>, status |-> "undefined"]
BY DEF Calls

LEMMA EmptyIsSeq == <<>> \in Seq(Vals)
OBVIOUS

\* wrapScriptError takes nothing but a message that was put on top of b.
LEMMA WrapEnds ==
  ASSUME NEW q \in Seq(Vals), NEW status, wrapScriptError(q, status)
  PROVE  /\ stk' \in Seq(Vals) /\ ret' \in Answers
         /\ Len(stk') <= Len(q)
         /\ \A b \in Seq(Vals) :
              Under(b, q) /\ (status = "ERRRUN" => Len(q) > Len(b)) => Under(b, stk')
         /\ status = "OK" => ret' = "none"
<1>0. Len(q) \in Nat
  BY SeqParts
<1>1. CASE status = "ERRRUN" /\ q # <<>> /\ stk' = Front(q) /\ ret' = "RUNTIME_ERROR"
  <2>1. Front(q) \in Seq(Vals) /\ Len(Front(q)) = Len(q) - 1
    BY <1>1, FrontParts
  <2>2. \A b \in Seq(Vals) : Under(b, q) /\ Len(q) > Len(b) => Under(b, Front(q))
    BY UnderFront
  <2> QED BY <1>0, <1>1, <2>1, <2>2 DEF Answers
<1>2. CASE stk' = q /\ ret' \in Answers /\ (status = "OK" => ret' = "none")
  BY <1>0, <1>2
<1>3. ASSUME status # "ERRRUN"
      PROVE  stk' = q /\ ret' \in Answers /\ (status = "OK" => ret' = "none")
  BY <1>3 DEF wrapScriptError, Returns, Answers, LoadFailures
<1>4. ASSUME status = "ERRRUN"
      PROVE  \/ q # <<>> /\ stk' = Front(q) /\ ret' = "RUNTIME_ERROR"
             \/ stk' = q /\ ret' = "escaped"
  BY <1>4 DEF wrapScriptError, Returns
<1>5. "escaped" \in Answers
  BY DEF Answers
<1> QED BY <1>1, <1>2, <1>3, <1>4, <1>5

\* The PCALL case of invokeHelper: what lies below the function stays, and after a message
\* nothing else is there.
LEMMA InvokeEnds ==
  ASSUME NEW q \in Seq(Vals), NEW n \in Nat, Len(q) > n, NEW nret \in NRets,
         invokePcall(q, n, nret)
  PROVE  /\ stk' \in Seq(Vals) /\ ret' \in {"none", "message", "escaped"}
         /\ Under(Lowered(q, n + 1), stk')
         /\ ret' = "message" => Len(stk') = Len(q) - n - 1
<1> DEFINE b == Lowered(q, n + 1)
<1>1. PICK o \in Calls(q, n, nret) :
        CASE o.status = "undefined" -> Returns(o.stk, "undefined")
          [] o.status = "OK" -> Returns(o.stk, "none")
          [] OTHER -> IF Last(o.stk) \in Texts THEN Returns(Front(o.stk), "message")
                      ELSE Returns(o.stk, "escaped")
  BY DEF invokePcall
<1>2. /\ o.stk \in Seq(Vals) /\ Under(b, o.stk)
      /\ b \in Seq(Vals) /\ Len(b) = Len(q) - n - 1
      /\ o.status \in {"OK", "ERRRUN", "ERRMEM", "ERRERR"}
      /\ o.status # "OK" => Len(o.stk) = Len(q) - n
  BY CallEnds
<1> HIDE DEF b
<1>3. CASE o.status = "OK"
  BY <1>1, <1>2, <1>3 DEF Returns, b
<1>4. CASE o.status # "OK"
  <2>1. \/ stk' = Front(o.stk) /\ ret' = "message"
        \/ stk' = o.stk /\ ret' = "escaped"
    BY <1>1, <1>2, <1>4 DEF Returns
  <2>2. Len(q) \in Nat /\ n \in Nat /\ Len(o.stk) > Len(b)
    BY <1>2, <1>4, SeqParts
  <2>3. /\ Front(o.stk) \in Seq(Vals) /\ Len(Front(o.stk)) = Len(o.stk) - 1
        /\ Under(b, Front(o.stk))
    BY <1>2, <2>2, UnderFront
  <2> QED BY <1>2, <1>4, <2>1, <2>2, <2>3 DEF b
<1> QED BY <1>3, <1>4
-----------------------------------------------------------------------------
(* Protected calls. *)

\* What a protected call that starts with the values of the client in b promises.
Keeps(b) == stk' \in Seq(Vals) /\ ret' \in Answers /\ IsPrefix(b, stk')

LEMMA LoadFails ==
  ASSUME stk \in Seq(Vals), NEW why \in LoadFailures, loadFails(why)
  PROVE  Keeps(stk) /\ Len(stk') = Len(stk) + 1
<1>1. stk' = Append(stk, "error") /\ ret' \in Answers /\ "error" \in Vals
  BY DEF loadFails, Returns, Answers, Vals
<1> QED BY <1>1, UnderAppend, PrefixFrom DEF Keeps

LEMMA LoadEnds ==
  ASSUME stk \in Seq(Vals), load
  PROVE  Keeps(stk) /\ Len(stk') = Len(stk) + 1
<1>1. CASE Returns(Append(stk, "callable"), "none")
  <2>1. stk' = Append(stk, "callable") /\ ret' \in Answers /\ "callable" \in Vals
    BY <1>1 DEF Returns, Answers, Vals, Results
  <2> QED BY <2>1, UnderAppend, PrefixFrom DEF Keeps
<1> QED BY <1>1, LoadFails DEF load

LEMMA PcallOnEnds ==
  ASSUME NEW q \in Seq(Vals), NEW n \in Nat, Len(q) > n, NEW nret \in NRets,
         pcallOn(q, n, nret)
  PROVE  /\ Keeps(Lowered(q, n + 1))
         /\ ret' # "none" => Len(stk') <= Len(q) - n
<1>1. PICK o \in Calls(q, n, nret) : wrapScriptError(o.stk, o.status)
  BY DEF pcallOn
<1> DEFINE b == Lowered(q, n + 1)
<1>2. /\ o.stk \in Seq(Vals) /\ Under(b, o.stk)
      /\ b \in Seq(Vals) /\ Len(b) = Len(q) - n - 1
      /\ o.status # "OK" => Len(o.stk) = Len(q) - n
  BY CallEnds
<1> HIDE DEF b
<1>3. Len(q) \in Nat /\ n \in Nat
  BY SeqParts
<1>4. o.status = "ERRRUN" => Len(o.stk) > Len(b)
  BY <1>2, <1>3
<1>5. /\ stk' \in Seq(Vals) /\ ret' \in Answers /\ Len(stk') <= Len(o.stk)
      /\ Under(b, stk')
      /\ o.status = "OK" => ret' = "none"
  BY <1>1, <1>2, <1>4, WrapEnds
<1>6. ret' # "none" => Len(stk') <= Len(q) - n
  BY <1>2, <1>5
<1> QED BY <1>2, <1>5, <1>6, PrefixFrom DEF Keeps, b

LEMMA LoweredToStack ==
  ASSUME NEW S, NEW p \in Seq(S), NEW q \in Seq(S)
  PROVE  Lowered(p \o q, Len(q)) = p
<1>1. /\ p \o q \in Seq(S) /\ Len(p \o q) = Len(p) + Len(q)
      /\ \A i \in 1..Len(p) : (p \o q)[i] = p[i]
      /\ Len(p) \in Nat /\ Len(q) \in Nat
  BY ConcatParts, SeqParts
<1> DEFINE r == Lowered(p \o q, Len(q))
<1>2. Len(q) \in 0..Len(p \o q)
  BY <1>1
<1>3. r \in Seq(S) /\ Len(r) = Len(p) /\ \A i \in 1..Len(p) : r[i] = p[i]
  <2>1. Len(p \o q) - Len(q) = Len(p)
    BY <1>1
  <2> QED BY <1>1, <1>2, <2>1, LoweredParts
<1> HIDE DEF r
<1>4. r = p
  BY <1>3, SameSeq
<1> QED BY <1>4 DEF r

LEMMA ExecuteEnds ==
  ASSUME stk \in Seq(Vals), execute
  PROVE  Keeps(stk) /\ (ret' # "none" => Len(stk') <= Len(stk) + 1)
<1> DEFINE q == Append(stk, "callable")
<1>1. CASE \E why \in LoadFailures : loadFails(why)
  <2>1. Len(stk) \in Nat
    BY SeqParts
  <2> QED BY <1>1, <2>1, LoadFails
<1>2. CASE pcallOn(q, 0, MULTRET)
  <2>1. "callable" \in Vals /\ Len(stk) \in Nat
    BY SeqParts DEF Vals, Results
  <2>2. q \in Seq(Vals) /\ Len(q) = Len(stk) + 1
    BY <2>1, UnderAppend
  <2>3. MULTRET \in NRets
    BY DEF NRets
  <2>4. Lowered(q, 0 + 1) = stk
    <3>1. q = stk \o <<"callable">> /\ <<"callable">> \in Seq(Vals) /\ Len(<<"callable">>) = 1
      BY <2>1
    <3> HIDE DEF q
    <3>2. Lowered(stk \o <<"callable">>, Len(<<"callable">>)) = stk
      BY <3>1, LoweredToStack
    <3> QED BY <3>1, <3>2
  <2> HIDE DEF q
  <2>5. Keeps(Lowered(q, 0 + 1)) /\ (ret' # "none" => Len(stk') <= Len(q) - 0)
    BY <1>2, <2>1, <2>2, <2>3, PcallOnEnds
  <2> QED BY <2>1, <2>2, <2>4, <2>5
<1> QED BY <1>1, <1>2 DEF execute

LEMMA ArgumentParts ==
  ASSUME stk \in Seq(Vals), NEW args \in ArgLists
  PROVE  /\ WithCallable(args) \in Seq(Vals) /\ Len(args) \in 0..MaxArgs
         /\ Len(WithCallable(args)) = Len(stk) + 1 + Len(args)
         /\ Lowered(WithCallable(args), Len(args) + 1) = stk
<1>1. PICK n \in 0..MaxArgs : args \in [1..n -> {"text"}]
  BY DEF ArgLists
<1>2. n \in Nat
  OBVIOUS
<1>3. args \in Seq(Vals) /\ Len(args) = n
  BY <1>1, <1>2 DEF Vals, Results
<1> DEFINE f == <<"callable">>
<1>4. f \in Seq(Vals) /\ Len(f) = 1
  BY DEF Vals, Results
<1> HIDE DEF f
<1>5. f \o args \in Seq(Vals) /\ Len(f \o args) = Len(args) + 1
  <2>1. f \o args \in Seq(Vals) /\ Len(f \o args) = Len(f) + Len(args) /\ Len(args) \in Nat
    BY <1>2, <1>3, <1>4, ConcatParts
  <2> QED BY <1>4, <2>1
<1>6. WithCallable(args) = stk \o (f \o args)
  BY <1>3, <1>4 DEF WithCallable, f
<1>7. /\ stk \o (f \o args) \in Seq(Vals)
      /\ Len(stk \o (f \o args)) = Len(stk) + (Len(args) + 1)
  BY <1>5, ConcatParts
<1>8. Lowered(stk \o (f \o args), Len(args) + 1) = stk
  <2>1. Lowered(stk \o (f \o args), Len(f \o args)) = stk
    BY <1>5, LoweredToStack
  <2> QED BY <1>5, <2>1
<1>9. Len(stk) \in Nat /\ Len(stk) + (Len(args) + 1) = Len(stk) + 1 + Len(args)
  BY <1>2, <1>3, SeqParts
<1> QED BY <1>2, <1>3, <1>6, <1>7, <1>8, <1>9

LEMMA CallablePcallEnds ==
  ASSUME stk \in Seq(Vals), NEW args \in ArgLists, NEW nret \in NRets,
         callablePcall(args, nret)
  PROVE  Keeps(stk) /\ (ret' = "message" => stk' = stk)
<1> DEFINE q == WithCallable(args)  n == Len(args)
<1>1. /\ q \in Seq(Vals) /\ n \in 0..MaxArgs /\ Len(q) = Len(stk) + 1 + n
      /\ Lowered(q, n + 1) = stk /\ Len(stk) \in Nat
  BY ArgumentParts, SeqParts
<1>2. invokePcall(q, n, nret)
  BY DEF callablePcall
<1> HIDE DEF q, n
<1>3. n \in Nat /\ Len(q) > n
  BY <1>1
<1>4. /\ stk' \in Seq(Vals) /\ ret' \in {"none", "message", "escaped"}
      /\ Under(stk, stk')
      /\ ret' = "message" => Len(stk') = Len(q) - n - 1
  <2>1. /\ Under(Lowered(q, n + 1), stk')
        /\ stk' \in Seq(Vals) /\ ret' \in {"none", "message", "escaped"}
        /\ ret' = "message" => Len(stk') = Len(q) - n - 1
    BY <1>1, <1>2, <1>3, InvokeEnds
  <2> QED BY <1>1, <2>1
<1>5. ret' \in Answers
  BY <1>4 DEF Answers
<1>6. ASSUME ret' = "message" PROVE stk' = stk
  <2>1. Len(stk') = Len(stk) /\ \A i \in 1..Len(stk) : stk'[i] = stk[i]
    BY <1>1, <1>3, <1>4, <1>6 DEF Under
  <2> QED BY <1>4, <2>1, SameSeq
<1> QED BY <1>4, <1>5, <1>6, PrefixFrom DEF Keeps
-----------------------------------------------------------------------------
(* The other calls, and what the client does between them. *)

\* However it ends, a call leaves a stack of values.
LEMMA AnyCallEnds ==
  ASSUME NEW q \in Seq(Vals), NEW n \in Nat, NEW nret \in NRets,
         NEW o \in Calls(q, n, nret)
  PROVE  o.stk \in Seq(Vals)
<1>1. Len(q) \in Nat /\ n \in Nat
  BY SeqParts
<1>2. CASE Len(q) > n
  BY <1>2, CallEnds
<1>3. CASE Len(q) <= n
  <2>1. o = [stk |-> <<>>, status |-> "undefined"]
    BY <1>3, CallBelow
  <2> QED BY <2>1, EmptyIsSeq
<1> QED BY <1>1, <1>2, <1>3

Typed == stk' \in Seq(Vals) /\ ret' \in Answers

LEMMA CallTyped ==
  ASSUME stk \in Seq(Vals), NEW n \in Counts, NEW r \in NRets, call(n, r)
  PROVE  Typed
<1>1. PICK o \in Calls(stk, n, r) : stk' = o.stk /\ ret' \in Answers
  BY DEF call, Returns, Answers
<1> QED BY <1>1, AnyCallEnds DEF Typed, Counts

LEMMA PcallkTyped ==
  ASSUME stk \in Seq(Vals), NEW n \in Counts, NEW r \in NRets, pcallk(n, r)
  PROVE  Typed
<1>1. PICK o \in Calls(stk, n, r), k \in 0..MaxArgs : \E rs \in [1..k -> Results] :
        IF o.status = "undefined" THEN Returns(o.stk, "undefined")
        ELSE wrapScriptError(o.stk \o rs, StatusOf(k))
  BY DEF pcallk
<1>2. PICK rs \in [1..k -> Results] :
        IF o.status = "undefined" THEN Returns(o.stk, "undefined")
        ELSE wrapScriptError(o.stk \o rs, StatusOf(k))
  BY <1>1
<1>3. k \in Nat
  OBVIOUS
<1>4. o.stk \in Seq(Vals) /\ rs \in Seq(Vals)
  <2>1. rs \in Seq(Vals)
    BY <1>3 DEF Vals
  <2>2. n \in Nat
    BY DEF Counts
  <2> QED BY <2>1, <2>2, AnyCallEnds
<1>5. o.stk \o rs \in Seq(Vals)
  BY <1>4, ConcatParts
<1>6. CASE o.status = "undefined"
  BY <1>2, <1>4, <1>6 DEF Typed, Returns, Answers
<1>7. CASE o.status # "undefined"
  <2>1. wrapScriptError(o.stk \o rs, StatusOf(k))
    BY <1>2, <1>7
  <2> QED BY <1>5, <2>1, WrapEnds DEF Typed
<1> QED BY <1>6, <1>7

\* The PCALL case when it is given more arguments than there are values.
LEMMA InvokeTyped ==
  ASSUME NEW q \in Seq(Vals), NEW n \in Nat, NEW nret \in NRets, invokePcall(q, n, nret)
  PROVE  Typed
<1>1. Len(q) \in Nat /\ n \in Nat
  BY SeqParts
<1>2. CASE Len(q) > n
  BY <1>2, InvokeEnds DEF Typed, Answers
<1>3. CASE Len(q) <= n
  <2>1. PICK o \in Calls(q, n, nret) :
          CASE o.status = "undefined" -> Returns(o.stk, "undefined")
            [] o.status = "OK" -> Returns(o.stk, "none")
            [] OTHER -> IF Last(o.stk) \in Texts THEN Returns(Front(o.stk), "message")
                        ELSE Returns(o.stk, "escaped")
    BY DEF invokePcall
  <2>2. o = [stk |-> <<>>, status |-> "undefined"]
    BY <1>3, CallBelow
  <2> QED BY <2>1, <2>2, EmptyIsSeq DEF Returns, Typed, Answers
<1> QED BY <1>1, <1>2, <1>3

LEMMA CallableCallTyped ==
  ASSUME stk \in Seq(Vals), NEW args \in ArgLists, NEW r \in NRets, callableCall(args, r)
  PROVE  Typed
<1>1. WithCallable(args) \in Seq(Vals) /\ Len(args) \in 0..MaxArgs
  BY ArgumentParts
<1>2. PICK o \in Calls(WithCallable(args), Len(args), r) :
        IF o.status = "OK" THEN invokePcall(o.stk, Len(args), r) ELSE Returns(o.stk, "escaped")
  BY DEF callableCall
<1>3. o.stk \in Seq(Vals)
  BY <1>1, AnyCallEnds
<1>4. CASE o.status = "OK"
  BY <1>1, <1>2, <1>3, <1>4, InvokeTyped
<1>5. CASE o.status # "OK"
  BY <1>2, <1>3, <1>5 DEF Returns, Typed, Answers
<1> QED BY <1>4, <1>5
-----------------------------------------------------------------------------

LEMMA InsertTyped ==
  ASSUME stk \in Seq(Vals), NEW n \in {2, 3}, insert(n)
  PROVE  Typed
<1> DEFINE as == [i \in 1..n |-> "object"]
<1>1. n \in Nat /\ "object" \in Vals
  BY DEF Vals, Results
<1>2. as \in Seq(Vals)
  BY <1>1
<1> HIDE DEF as
<1>3. stk \o as \in Seq(Vals)
  BY <1>2, ConcatParts
<1>4. PICK o \in Calls(stk \o as, n, 0) : stk' = o.stk /\ ret' \in Answers
  BY DEF insert, Returns, Answers, as
<1>5. 0 \in NRets
  BY ScriptAssumption DEF NRets, Counts
<1>6. o.stk \in Seq(Vals)
  BY <1>1, <1>3, <1>5, AnyCallEnds
<1> QED BY <1>4, <1>6 DEF Typed

LEMMA ProtectedTyped ==
  ASSUME stk \in Seq(Vals), Protected
  PROVE  Typed
<1>1. CASE load \/ execute
  BY <1>1, LoadEnds, ExecuteEnds DEF Keeps, Typed
<1>2. ASSUME NEW n \in Counts, NEW r \in NRets, Len(stk) > n, pcall(n, r) PROVE Typed
  <2>1. n \in Nat /\ pcallOn(stk, n, r)
    BY <1>2 DEF Counts, pcall
  <2> QED BY <1>2, <2>1, PcallOnEnds DEF Keeps, Typed
<1>3. ASSUME NEW args \in ArgLists, NEW r \in NRets, callablePcall(args, r) PROVE Typed
  BY <1>3, CallablePcallEnds DEF Keeps, Typed
<1> QED BY <1>1, <1>2, <1>3 DEF Protected

LEMMA OthersTyped ==
  ASSUME stk \in Seq(Vals), Others
  PROVE  Typed
<1>1. ASSUME NEW n \in Counts, NEW r \in NRets, call(n, r) \/ pcallk(n, r) PROVE Typed
  BY <1>1, CallTyped, PcallkTyped
<1>2. ASSUME NEW args \in ArgLists, NEW r \in NRets, callableCall(args, r) PROVE Typed
  BY <1>2, CallableCallTyped
<1>3. ASSUME NEW n \in {2, 3}, insert(n) PROVE Typed
  BY <1>3, InsertTyped
<1> QED BY <1>1, <1>2, <1>3 DEF Others

LEMMA ClientTyped ==
  ASSUME stk \in Seq(Vals), (\E v \in Results : Push(v)) \/ Pop
  PROVE  Typed
<1>1. ASSUME NEW v \in Results, Push(v) PROVE Typed
  BY <1>1 DEF Push, Returns, Typed, Answers, Vals
<1>2. ASSUME Pop PROVE Typed
  BY <1>2, FrontParts DEF Pop, Returns, Typed, Answers
<1> QED BY <1>1, <1>2
-----------------------------------------------------------------------------
(* Theorems. *)

LEMMA TypesAre == TypeOK <=> stk \in Seq(Vals) /\ ret \in Answers
BY DEF TypeOK, Vals, Answers

\* Type correctness: with any number of arguments and results, also through the calls that
\* take other values than they were meant to.
THEOREM TypeCorrect == Spec => []TypeOK
<1>1. Init => TypeOK
  BY DEF Init, TypeOK
<1>2. TypeOK /\ [Next]_vars => TypeOK'
  <2> SUFFICES ASSUME TypeOK, [Next]_vars PROVE TypeOK'
    OBVIOUS
  <2>1. CASE Next
    <3>1. stk \in Seq(Vals)
      BY TypesAre
    <3>2. Typed
      BY <2>1, <3>1, ClientTyped, ProtectedTyped, OthersTyped DEF Next
    <3> QED BY <3>2 DEF Typed, TypeOK, Vals, Answers
  <2>2. CASE UNCHANGED vars
    BY <2>2 DEF vars, TypeOK
  <2> QED BY <2>1, <2>2
<1> QED BY <1>1, <1>2, PTL DEF Spec

\* Lua::executeString, loadString and pcall, LuaCallable::pcall: whatever the code that is
\* run does, the client's values below the function stay, a script that fails leaves no
\* more than its message, a LuaCallable that reports an error nothing.
THEOREM ProtectedCallsKeep == Spec => OwnValuesKept
<1>1. ASSUME TypeOK
      PROVE  /\ load \/ execute =>
                  /\ IsPrefix(stk, stk')
                  /\ ret' # "none" => Len(stk') <= Len(stk) + 1
             /\ \A n \in Counts, r \in NRets :
                  Len(stk) > n /\ pcall(n, r) => IsPrefix(Lowered(stk, n + 1), stk')
             /\ \A args \in ArgLists, r \in NRets :
                  callablePcall(args, r) =>
                    IsPrefix(stk, stk') /\ (ret' = "message" => stk' = stk)
  <2>1. stk \in Seq(Vals) /\ Len(stk) \in Nat
    BY <1>1, TypesAre, SeqParts
  <2>2. ASSUME load \/ execute
        PROVE  IsPrefix(stk, stk') /\ (ret' # "none" => Len(stk') <= Len(stk) + 1)
    BY <2>1, <2>2, LoadEnds, ExecuteEnds DEF Keeps
  <2>3. ASSUME NEW n \in Counts, NEW r \in NRets, Len(stk) > n, pcall(n, r)
        PROVE  IsPrefix(Lowered(stk, n + 1), stk')
    <3>1. n \in Nat /\ pcallOn(stk, n, r)
      BY <2>3 DEF Counts, pcall
    <3> QED BY <2>1, <2>3, <3>1, PcallOnEnds DEF Keeps
  <2>4. ASSUME NEW args \in ArgLists, NEW r \in NRets, callablePcall(args, r)
        PROVE  IsPrefix(stk, stk') /\ (ret' = "message" => stk' = stk)
    BY <2>1, <2>4, CallablePcallEnds DEF Keeps
  <2> QED BY <2>2, <2>3, <2>4
<1> QED BY <1>1, TypeCorrect, PTL DEF OwnValuesKept
=============================================================================
