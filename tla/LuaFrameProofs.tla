---------------------------- MODULE LuaFrameProofs ----------------------------
(***************************************************************************)
(* For any sets of lua_States, tables and other values: no operation goes  *)
(* below the frame of its client or raises a Lua error, and every call has *)
(* the effect ClientView gives a call of its name and arguments.           *)
(***************************************************************************)
EXTENDS LuaFrame, FiniteSetTheorems, TLAPS

\* Every frame begins with the slot of the running function, nil at base level.
Frames ==
  /\ stk \in [States -> Seq(Values)]
  /\ \A s \in States : stk[s] # <<>> /\ stk[s][1] = Nil

Data ==
  /\ tab \in [Tables -> [Keys -> Values]]
  /\ meta \in [Tables -> Tables \cup {Nil}]
  /\ reg \in [Keys -> Values]

IInv == Frames /\ Data /\ st = "ok"

\* The machine in the middle of an operation that works on the stack of L: the frame is q,
\* the data are T, M and R.  Broken: a C++ exception is on its way.
Now(L, q, T, M, R) ==
  [stk |-> [stk EXCEPT ![L] = q], tab |-> T, meta |-> M, reg |-> R, st |-> "ok", ret |-> ret]

Broken(L, q, T, M, R) ==
  [stk |-> [stk EXCEPT ![L] = q], tab |-> T, meta |-> M, reg |-> R, st |-> "thrown", ret |-> ret]

\* It came to its end.
Ended(L, q, T, M, R, rs) ==
  [stk |-> [stk EXCEPT ![L] = q], tab |-> T, meta |-> M, reg |-> R, st |-> "ok", ret |-> rs]

-----------------------------------------------------------------------------
(* Sequences. *)

LEMMA SeqParts ==
  ASSUME NEW S, NEW q \in Seq(S)
  PROVE  /\ Len(q) \in Nat /\ (q = <<>> <=> Len(q) = 0)
         /\ \A i \in 1..Len(q) : q[i] \in S
OBVIOUS

LEMMA PrefixParts ==
  ASSUME NEW S, NEW q \in Seq(S), NEW n \in 0..Len(q)
  PROVE  /\ SubSeq(q, 1, n) \in Seq(S) /\ Len(SubSeq(q, 1, n)) = n
         /\ \A i \in 1..n : SubSeq(q, 1, n)[i] = q[i]
OBVIOUS

LEMMA AppendParts ==
  ASSUME NEW S, NEW q \in Seq(S), NEW e \in S
  PROVE  /\ Append(q, e) \in Seq(S) /\ Len(Append(q, e)) = Len(q) + 1
         /\ \A i \in 1..Len(q) : Append(q, e)[i] = q[i]
         /\ Append(q, e)[Len(q) + 1] = e
OBVIOUS

LEMMA SameSeq ==
  ASSUME NEW S, NEW p \in Seq(S), NEW q \in Seq(S), Len(p) = Len(q),
         \A i \in 1..Len(p) : p[i] = q[i]
  PROVE  p = q
OBVIOUS

LEMMA DropParts ==
  ASSUME NEW S, NEW q \in Seq(S), NEW n \in 0..Len(q)
  PROVE  /\ Dropped(q, n) \in Seq(S) /\ Len(Dropped(q, n)) = Len(q) - n
         /\ \A i \in 1..Len(q)-n : Dropped(q, n)[i] = q[i]
<1>1. Len(q) - n \in 0..Len(q)
  BY SeqParts
<1> QED BY <1>1, PrefixParts DEF Dropped

LEMMA DropNone ==
  ASSUME NEW S, NEW q \in Seq(S)
  PROVE  Dropped(q, 0) = q
<1>1. 0 \in 0..Len(q) /\ Len(q) - 0 = Len(q)
  BY SeqParts
<1> DEFINE d == Dropped(q, 0)
<1>2. d \in Seq(S) /\ Len(d) = Len(q) /\ \A i \in 1..Len(q) : d[i] = q[i]
  BY <1>1, DropParts
<1> HIDE DEF d
<1>3. d = q
  BY <1>2, SameSeq
<1> QED BY <1>3 DEF d

LEMMA Drop1 ==
  ASSUME NEW S, NEW q \in Seq(S), NEW a \in S
  PROVE  Dropped(Append(q, a), 1) = q
<1> DEFINE p == Append(q, a)
           d == Dropped(p, 1)
<1>1. p \in Seq(S) /\ Len(p) = Len(q) + 1 /\ \A i \in 1..Len(q) : p[i] = q[i]
  BY AppendParts
<1> HIDE DEF p
<1>2. 1 \in 0..Len(p) /\ Len(p) - 1 = Len(q)
  BY <1>1, SeqParts
<1>3. d \in Seq(S) /\ Len(d) = Len(q) /\ \A i \in 1..Len(q) : d[i] = p[i]
  BY <1>1, <1>2, DropParts
<1> HIDE DEF d
<1>4. d = q
  BY <1>1, <1>3, SameSeq
<1> QED BY <1>4 DEF d, p

LEMMA Drop2 ==
  ASSUME NEW S, NEW q \in Seq(S), NEW a \in S, NEW b \in S
  PROVE  Dropped(Append(Append(q, a), b), 2) = q
<1> DEFINE p == Append(Append(q, a), b)
           o == Append(q, a)
           d == Dropped(p, 2)
<1>0. o \in Seq(S) /\ Len(o) = Len(q) + 1 /\ \A i \in 1..Len(q) : o[i] = q[i]
  BY AppendParts
<1>1. p \in Seq(S) /\ Len(p) = Len(o) + 1 /\ \A i \in 1..Len(o) : p[i] = o[i]
  BY <1>0, AppendParts
<1> HIDE DEF p, o
<1>2. Len(q) \in Nat
  BY SeqParts
<1>3. 2 \in 0..Len(p) /\ Len(p) - 2 = Len(q) /\ \A i \in 1..Len(q) : p[i] = q[i]
  BY <1>0, <1>1, <1>2
<1>4. d \in Seq(S) /\ Len(d) = Len(q) /\ \A i \in 1..Len(q) : d[i] = p[i]
  BY <1>1, <1>3, DropParts
<1> HIDE DEF d
<1>5. d = q
  BY <1>3, <1>4, SameSeq
<1> QED BY <1>5 DEF d, p

\* What lies where on a frame with three values on it.
LEMMA OnTop ==
  ASSUME NEW S, NEW q \in Seq(S), NEW a \in S, NEW b \in S, NEW c \in S
  PROVE  LET p == Append(Append(Append(q, a), b), c)
         IN  /\ Len(q) \in Nat
             /\ Append(q, a) \in Seq(S) /\ Len(Append(q, a)) = Len(q) + 1
             /\ Append(q, a)[Len(q) + 1] = a
             /\ Append(Append(q, a), b) \in Seq(S) /\ Len(Append(Append(q, a), b)) = Len(q) + 2
             /\ Append(Append(q, a), b)[Len(q) + 1] = a /\ Append(Append(q, a), b)[Len(q) + 2] = b
             /\ p \in Seq(S) /\ Len(p) = Len(q) + 3
             /\ p[Len(q) + 1] = a /\ p[Len(q) + 2] = b /\ p[Len(q) + 3] = c
<1> DEFINE p1 == Append(q, a)
           p2 == Append(p1, b)
           p3 == Append(p2, c)
<1>0. Len(q) \in Nat
  BY SeqParts
<1>1. p1 \in Seq(S) /\ Len(p1) = Len(q) + 1 /\ p1[Len(q) + 1] = a
  BY AppendParts
<1> HIDE DEF p1
<1>2. /\ p2 \in Seq(S) /\ Len(p2) = Len(p1) + 1 /\ p2[Len(p1) + 1] = b
      /\ \A i \in 1..Len(p1) : p2[i] = p1[i]
  BY <1>1, AppendParts
<1> HIDE DEF p2
<1>3. /\ p3 \in Seq(S) /\ Len(p3) = Len(p2) + 1 /\ p3[Len(p2) + 1] = c
      /\ \A i \in 1..Len(p2) : p3[i] = p2[i]
  BY <1>2, AppendParts
<1> HIDE DEF p3
<1>4. Len(p2) = Len(q) + 2 /\ p2[Len(q) + 1] = a /\ p2[Len(q) + 2] = b
  BY <1>0, <1>1, <1>2
<1>5. Len(p3) = Len(q) + 3 /\ p3[Len(q) + 1] = a /\ p3[Len(q) + 2] = b /\ p3[Len(q) + 3] = c
  BY <1>0, <1>3, <1>4
<1> QED BY <1>0, <1>1, <1>2, <1>3, <1>4, <1>5 DEF p1, p2, p3

\* A frame with values of the client's on it ends in one, or in two.
LEMMA LastOne ==
  ASSUME NEW S, NEW q \in Seq(S), Len(q) >= 2
  PROVE  LET p == Dropped(q, 1)
         IN  /\ p \in Seq(S) /\ p # <<>> /\ p[1] = q[1] /\ Len(p) = Len(q) - 1
             /\ q[Len(q)] \in S /\ q = Append(p, q[Len(q)])
<1> DEFINE p == Dropped(q, 1)
           r == Append(p, q[Len(q)])
<1>1. Len(q) \in Nat /\ 1 \in 0..Len(q) /\ q[Len(q)] \in S
  BY SeqParts
<1>2. p \in Seq(S) /\ Len(p) = Len(q) - 1 /\ \A i \in 1..Len(q)-1 : p[i] = q[i]
  BY <1>1, DropParts
<1> HIDE DEF p
<1>3. p # <<>> /\ p[1] = q[1]
  BY <1>1, <1>2, SeqParts
<1>4. /\ r \in Seq(S) /\ Len(r) = Len(q) /\ \A i \in 1..Len(p) : r[i] = p[i]
      /\ r[Len(p) + 1] = q[Len(q)]
  BY <1>1, <1>2, AppendParts
<1> HIDE DEF r
<1>5. \A i \in 1..Len(r) : r[i] = q[i]
  BY <1>1, <1>2, <1>4
<1>6. r = q
  BY <1>4, <1>5, SameSeq
<1> QED BY <1>1, <1>2, <1>3, <1>6 DEF p, r
-----------------------------------------------------------------------------
(* The API on a frame that is deep enough. *)

WithFrame(m, L, q) == [m EXCEPT !.stk[L] = q]

LEMMA FrameParts ==
  ASSUME Frames, NEW L \in States, NEW q, NEW x
  PROVE  /\ [stk EXCEPT ![L] = q][L] = q
         /\ [[stk EXCEPT ![L] = q] EXCEPT ![L] = x] = [stk EXCEPT ![L] = x]
BY DEF Frames

LEMMA RecordParts ==
  ASSUME NEW f, NEW T, NEW M, NEW R, NEW s, NEW r, NEW x, NEW L
  PROVE  LET m == [stk |-> f, tab |-> T, meta |-> M, reg |-> R, st |-> s, ret |-> r]
         IN  /\ m.stk = f /\ m.tab = T /\ m.meta = M /\ m.reg = R /\ m.st = s /\ m.ret = r
             /\ [m EXCEPT !.stk[L] = x] =
                  [stk |-> [f EXCEPT ![L] = x], tab |-> T, meta |-> M, reg |-> R, st |-> s, ret |-> r]
             /\ [m EXCEPT !.tab = x] =
                  [stk |-> f, tab |-> x, meta |-> M, reg |-> R, st |-> s, ret |-> r]
             /\ [m EXCEPT !.meta = x] =
                  [stk |-> f, tab |-> T, meta |-> x, reg |-> R, st |-> s, ret |-> r]
             /\ [m EXCEPT !.reg = x] =
                  [stk |-> f, tab |-> T, meta |-> M, reg |-> x, st |-> s, ret |-> r]
             /\ [m EXCEPT !.st = x] =
                  [stk |-> f, tab |-> T, meta |-> M, reg |-> R, st |-> x, ret |-> r]
OBVIOUS

LEMMA NowParts ==
  ASSUME Frames, NEW L \in States, NEW q, NEW T, NEW M, NEW R
  PROVE  /\ Now(L, q, T, M, R).stk[L] = q
         /\ Now(L, q, T, M, R).tab = T /\ Now(L, q, T, M, R).meta = M /\ Now(L, q, T, M, R).reg = R
         /\ Now(L, q, T, M, R).st = "ok" /\ Now(L, q, T, M, R).ret = ret
BY FrameParts, RecordParts DEF Now

LEMMA NowWith ==
  ASSUME Frames, NEW L \in States, NEW q, NEW T, NEW M, NEW R, NEW x
  PROVE  WithFrame(Now(L, q, T, M, R), L, x) = Now(L, x, T, M, R)
<1> DEFINE f == [stk EXCEPT ![L] = q]
           m == [stk |-> f, tab |-> T, meta |-> M, reg |-> R, st |-> "ok", ret |-> ret]
<1>1. [f EXCEPT ![L] = x] = [stk EXCEPT ![L] = x]
  BY FrameParts
<1>2. Now(L, q, T, M, R) = m
  BY DEF Now
<1> HIDE DEF f
<1>3. [m EXCEPT !.stk[L] = x]
        = [stk |-> [f EXCEPT ![L] = x], tab |-> T, meta |-> M, reg |-> R, st |-> "ok", ret |-> ret]
  OBVIOUS
<1> QED BY <1>1, <1>2, <1>3 DEF Now, WithFrame

LEMMA BrokenParts ==
  ASSUME Frames, NEW L \in States, NEW q, NEW T, NEW M, NEW R
  PROVE  /\ Broken(L, q, T, M, R).stk[L] = q /\ Broken(L, q, T, M, R).st = "thrown"
         /\ Fail(Now(L, q, T, M, R), "thrown") = Broken(L, q, T, M, R)
<1> DEFINE f == [stk EXCEPT ![L] = q]
<1>1. f[L] = q
  BY FrameParts
<1> HIDE DEF f
<1>2. /\ Now(L, q, T, M, R)
           = [stk |-> f, tab |-> T, meta |-> M, reg |-> R, st |-> "ok", ret |-> ret]
      /\ Broken(L, q, T, M, R)
           = [stk |-> f, tab |-> T, meta |-> M, reg |-> R, st |-> "thrown", ret |-> ret]
  BY DEF Now, Broken, f
<1> QED BY <1>1, <1>2 DEF Fail

LEMMA StartsAs ==
  ASSUME IInv, NEW L \in States
  PROVE  Machine = Now(L, stk[L], tab, meta, reg)
<1>1. [stk EXCEPT ![L] = stk[L]] = stk
  BY DEF IInv, Frames
<1> QED BY <1>1 DEF Machine, Now, IInv

LEMMA Pushes ==
  ASSUME Frames, NEW L \in States, NEW q, NEW T, NEW M, NEW R, NEW v
  PROVE  lua_push(Now(L, q, T, M, R), L, v) = Now(L, Append(q, v), T, M, R)
<1> DEFINE m == Now(L, q, T, M, R)
<1>1. m.stk[L] = q /\ m.st = "ok"
  BY NowParts
<1>2. WithFrame(m, L, Append(q, v)) = Now(L, Append(q, v), T, M, R)
  BY NowWith
<1> HIDE DEF m
<1>3. lua_push(m, L, v) = WithFrame(m, L, Append(m.stk[L], v))
  BY <1>1 DEF lua_push, WithFrame
<1> QED BY <1>1, <1>2, <1>3 DEF m

LEMMA TopParts ==
  ASSUME Frames, NEW L \in States, NEW q \in Seq(Values), NEW T, NEW M, NEW R, NEW n \in Nat
  PROVE  /\ Reaches(Now(L, q, T, M, R), L, n) <=> n <= Len(q)
         /\ Top(Now(L, q, T, M, R), L, n) = q[Len(q) + 1 - n]
<1> DEFINE m == Now(L, q, T, M, R)
<1>1. m.stk[L] = q
  BY NowParts
<1> HIDE DEF m
<1>2. Pos(m, L, n) = Len(q) + 1 - n
  BY <1>1 DEF Pos
<1>3. Len(q) + 1 - n >= 1 <=> n <= Len(q)
  BY SeqParts
<1> QED BY <1>1, <1>2, <1>3 DEF Top, Reaches, m

\* A call that reaches no lower than the frame.
LEMMA Calls ==
  ASSUME Frames, NEW L \in States, NEW q \in Seq(Values), NEW T, NEW M, NEW R, NEW n \in 0..Len(q),
         NEW next
  PROVE  Call(Now(L, q, T, M, R), L, n, next) = next
<1> DEFINE m == Now(L, q, T, M, R)
<1>1. m.st = "ok" /\ Reaches(m, L, n)
  BY TopParts, NowParts
<1> HIDE DEF m
<1>2. Call(m, L, n, next) = next
  BY <1>1 DEF Call
<1> QED BY <1>2 DEF m

LEMMA PopsMany ==
  ASSUME Frames, NEW L \in States, NEW q \in Seq(Values), NEW T, NEW M, NEW R, NEW n \in 0..Len(q)
  PROVE  lua_pop(Now(L, q, T, M, R), L, n) = Now(L, Dropped(q, n), T, M, R)
<1> DEFINE m == Now(L, q, T, M, R)
<1>1. m.stk[L] = q
  BY NowParts
<1>2. WithFrame(m, L, Dropped(q, n)) = Now(L, Dropped(q, n), T, M, R)
  BY NowWith
<1>3. Call(m, L, n, WithFrame(m, L, Dropped(q, n))) = WithFrame(m, L, Dropped(q, n))
  BY Calls
<1> HIDE DEF m
<1>4. lua_pop(m, L, n) = Call(m, L, n, WithFrame(m, L, Dropped(q, n)))
  BY <1>1 DEF lua_pop, WithFrame
<1> QED BY <1>2, <1>3, <1>4 DEF m

LEMMA Pops1 ==
  ASSUME Frames, NEW L \in States, NEW q \in Seq(Values), NEW T, NEW M, NEW R, NEW a \in Values
  PROVE  lua_pop(Now(L, Append(q, a), T, M, R), L, 1) = Now(L, q, T, M, R)
<1> DEFINE p == Append(q, a)
<1>1. p \in Seq(Values) /\ 1 \in 0..Len(p) /\ Dropped(p, 1) = q
  BY AppendParts, SeqParts, Drop1
<1> HIDE DEF p
<1>2. lua_pop(Now(L, p, T, M, R), L, 1) = Now(L, q, T, M, R)
  BY <1>1, PopsMany
<1> QED BY <1>2 DEF p

LEMMA Pops2 ==
  ASSUME Frames, NEW L \in States, NEW q \in Seq(Values), NEW T, NEW M, NEW R,
         NEW a \in Values, NEW b \in Values
  PROVE  lua_pop(Now(L, Append(Append(q, a), b), T, M, R), L, 2) = Now(L, q, T, M, R)
<1> DEFINE p == Append(Append(q, a), b)
<1>1. p \in Seq(Values) /\ Len(p) = Len(q) + 2 /\ Len(q) \in Nat /\ Dropped(p, 2) = q
  BY OnTop, Drop2
<1> HIDE DEF p
<1>2. 2 \in 0..Len(p)
  BY <1>1
<1>3. lua_pop(Now(L, p, T, M, R), L, 2) = Now(L, q, T, M, R)
  BY <1>1, <1>2, PopsMany
<1> QED BY <1>3 DEF p

\* A value is stored and the frame becomes q.
Written(m, t, k, v, L, q) == [m EXCEPT !.tab[t][k] = v, !.stk[L] = q]

LEMMA WrittenParts ==
  ASSUME Frames, NEW L \in States, NEW q, NEW T, NEW M, NEW R, NEW t, NEW k, NEW v, NEW x
  PROVE  Written(Now(L, q, T, M, R), t, k, v, L, x)
           = Now(L, x, [T EXCEPT ![t][k] = v], M, R)
<1> DEFINE f == [stk EXCEPT ![L] = q]
           m == [stk |-> f, tab |-> T, meta |-> M, reg |-> R, st |-> "ok", ret |-> ret]
           n == [m EXCEPT !.tab[t][k] = v]
           U == [T EXCEPT ![t][k] = v]
<1>1. [f EXCEPT ![L] = x] = [stk EXCEPT ![L] = x]
  BY FrameParts
<1>2. Now(L, q, T, M, R) = m
  BY DEF Now
<1> HIDE DEF f
<1>3. n = [stk |-> f, tab |-> U, meta |-> M, reg |-> R, st |-> "ok", ret |-> ret]
  OBVIOUS
<1>4. Written(m, t, k, v, L, x) = [n EXCEPT !.stk[L] = x]
  <2> HIDE DEF m
  <2> QED BY DEF Written
<1> HIDE DEF m, n, U
<1>5. [n EXCEPT !.stk[L] = x]
        = [stk |-> [f EXCEPT ![L] = x], tab |-> U, meta |-> M, reg |-> R, st |-> "ok", ret |-> ret]
  BY <1>3
<1>6. Written(m, t, k, v, L, x) = Now(L, x, U, M, R)
  BY <1>1, <1>4, <1>5 DEF Now
<1> QED BY <1>2, <1>6 DEF U

Remeta(m, t, v, L, q) == [m EXCEPT !.meta[t] = v, !.stk[L] = q]

LEMMA RemetaParts ==
  ASSUME Frames, NEW L \in States, NEW q, NEW T, NEW M, NEW R, NEW t, NEW v, NEW x
  PROVE  Remeta(Now(L, q, T, M, R), t, v, L, x)
           = Now(L, x, T, [M EXCEPT ![t] = v], R)
<1> DEFINE f == [stk EXCEPT ![L] = q]
           m == [stk |-> f, tab |-> T, meta |-> M, reg |-> R, st |-> "ok", ret |-> ret]
           n == [m EXCEPT !.meta[t] = v]
           U == [M EXCEPT ![t] = v]
<1>1. [f EXCEPT ![L] = x] = [stk EXCEPT ![L] = x]
  BY FrameParts
<1>2. Now(L, q, T, M, R) = m
  BY DEF Now
<1> HIDE DEF f
<1>3. n = [stk |-> f, tab |-> T, meta |-> U, reg |-> R, st |-> "ok", ret |-> ret]
  OBVIOUS
<1>4. Remeta(m, t, v, L, x) = [n EXCEPT !.stk[L] = x]
  <2> HIDE DEF m
  <2> QED BY DEF Remeta
<1> HIDE DEF m, n, U
<1>5. [n EXCEPT !.stk[L] = x]
        = [stk |-> [f EXCEPT ![L] = x], tab |-> T, meta |-> U, reg |-> R, st |-> "ok", ret |-> ret]
  BY <1>3
<1>6. Remeta(m, t, v, L, x) = Now(L, x, T, U, R)
  BY <1>1, <1>4, <1>5 DEF Now
<1> QED BY <1>2, <1>6 DEF U

Registered(m, k, v, L, q) == [m EXCEPT !.reg[k] = v, !.stk[L] = q]

LEMMA RegisteredParts ==
  ASSUME Frames, NEW L \in States, NEW q, NEW T, NEW M, NEW R, NEW k, NEW v, NEW x
  PROVE  Registered(Now(L, q, T, M, R), k, v, L, x)
           = Now(L, x, T, M, [R EXCEPT ![k] = v])
<1> DEFINE f == [stk EXCEPT ![L] = q]
           m == [stk |-> f, tab |-> T, meta |-> M, reg |-> R, st |-> "ok", ret |-> ret]
           n == [m EXCEPT !.reg[k] = v]
           U == [R EXCEPT ![k] = v]
<1>1. [f EXCEPT ![L] = x] = [stk EXCEPT ![L] = x]
  BY FrameParts
<1>2. Now(L, q, T, M, R) = m
  BY DEF Now
<1> HIDE DEF f
<1>3. n = [stk |-> f, tab |-> T, meta |-> M, reg |-> U, st |-> "ok", ret |-> ret]
  OBVIOUS
<1>4. Registered(m, k, v, L, x) = [n EXCEPT !.stk[L] = x]
  <2> HIDE DEF m
  <2> QED BY DEF Registered
<1> HIDE DEF m, n, U
<1>5. [n EXCEPT !.stk[L] = x]
        = [stk |-> [f EXCEPT ![L] = x], tab |-> T, meta |-> M, reg |-> U, st |-> "ok", ret |-> ret]
  BY <1>3
<1>6. Registered(m, k, v, L, x) = Now(L, x, T, M, U)
  BY <1>1, <1>4, <1>5 DEF Now
<1> QED BY <1>2, <1>6 DEF U

LEMMA TwoMore ==
  ASSUME NEW S, NEW q \in Seq(S), NEW a \in S, NEW b \in S
  PROVE  q \o <<a, b>> = Append(Append(q, a), b)
<1> DEFINE r == q \o <<a, b>>
           p == Append(Append(q, a), b)
<1>0. Len(q) \in Nat
  BY SeqParts
<1>1. /\ p \in Seq(S) /\ Len(p) = Len(q) + 2
      /\ p[Len(q) + 1] = a /\ p[Len(q) + 2] = b
  BY OnTop
<1>2. \A i \in 1..Len(q) : p[i] = q[i]
  <2> DEFINE o == Append(q, a)
  <2>1. o \in Seq(S) /\ Len(o) = Len(q) + 1 /\ \A i \in 1..Len(q) : o[i] = q[i]
    BY AppendParts
  <2> HIDE DEF o
  <2>2. \A i \in 1..Len(o) : Append(o, b)[i] = o[i]
    BY <2>1, AppendParts
  <2>3. \A i \in 1..Len(q) : Append(o, b)[i] = q[i]
    BY <1>0, <2>1, <2>2
  <2> QED BY <2>3 DEF o
<1>3. r \in Seq(S) /\ Len(r) = Len(q) + 2
  BY <1>0
<1>4. \A i \in 1..Len(q) : r[i] = q[i]
  BY <1>0
<1>5. r[Len(q) + 1] = a /\ r[Len(q) + 2] = b
  BY <1>0
<1> HIDE DEF p, r
<1>6. \A i \in 1..Len(r) : r[i] = p[i]
  BY <1>0, <1>1, <1>2, <1>3, <1>4, <1>5
<1>7. r = p
  BY <1>1, <1>3, <1>6, SameSeq
<1> QED BY <1>7 DEF r, p

LEMMA Settable ==
  ASSUME Frames, NEW L \in States, NEW q \in Seq(Values), NEW T, NEW M, NEW R,
         NEW t \in Tables, NEW k \in Keys, NEW v \in Values
  PROVE  lua_settable(Now(L, Append(Append(Append(q, t), k), v), T, M, R), L, 3)
           = Now(L, Append(q, t), [T EXCEPT ![t][k] = v], M, R)
<1>0. t \in Values /\ k \in Values /\ k # Nil
  BY DEF Values, Keys
<1> DEFINE p == Append(Append(Append(q, t), k), v)
           m == Now(L, p, T, M, R)
<1>1. /\ p \in Seq(Values) /\ Len(p) = Len(q) + 3 /\ Len(q) \in Nat
      /\ p[Len(q) + 1] = t
      /\ p[Len(q) + 2] = k
      /\ p[Len(q) + 3] = v
  BY <1>0, OnTop
<1>2. m.stk[L] = p /\ m.tab = T /\ m.meta = M /\ m.reg = R
  <2> HIDE DEF p
  <2> QED BY NowParts
<1>4. Dropped(p, 2) = Append(q, t)
  BY <1>0, AppendParts, Drop2
<1> HIDE DEF p
<1>3. Top(m, L, 3) = t /\ Top(m, L, 2) = k /\ Top(m, L, 1) = v
  <2>1. Top(m, L, 3) = p[Len(p) + 1 - 3] /\ Top(m, L, 2) = p[Len(p) + 1 - 2] /\ Top(m, L, 1) = p[Len(p) + 1 - 1]
    BY <1>1, TopParts
  <2>2. Len(p) + 1 - 3 = Len(q) + 1 /\ Len(p) + 1 - 2 = Len(q) + 2 /\ Len(p) + 1 - 1 = Len(q) + 3
    BY <1>1
  <2> QED BY <1>1, <2>1, <2>2
<1>5. 3 \in 0..Len(p)
  BY <1>1
<1>6. Call(m, L, 3, Written(m, t, k, v, L, Append(q, t))) = Written(m, t, k, v, L, Append(q, t))
  BY <1>1, <1>5, Calls
<1>7. Written(m, t, k, v, L, Append(q, t)) = Now(L, Append(q, t), [T EXCEPT ![t][k] = v], M, R)
  BY WrittenParts
<1> HIDE DEF m
<1>8. lua_settable(m, L, 3) = Call(m, L, 3, Written(m, t, k, v, L, Append(q, t)))
  BY <1>0, <1>2, <1>3, <1>4 DEF lua_settable, Written
<1> QED BY <1>6, <1>7, <1>8 DEF m, p

LEMMA Setfield ==
  ASSUME Frames, NEW L \in States, NEW q \in Seq(Values), NEW T, NEW M, NEW R,
         NEW t \in Tables, NEW k \in Keys, NEW v \in Values
  PROVE  lua_setfield(Now(L, Append(Append(q, t), v), T, M, R), L, 2, k)
           = Now(L, Append(q, t), [T EXCEPT ![t][k] = v], M, R)
<1>0. t \in Values
  BY DEF Values
<1> DEFINE p == Append(Append(q, t), v)
           m == Now(L, p, T, M, R)
<1>1. /\ p \in Seq(Values) /\ Len(p) = Len(q) + 2 /\ Len(q) \in Nat
      /\ p[Len(q) + 1] = t
      /\ p[Len(q) + 2] = v
  BY <1>0, OnTop
<1>2. m.stk[L] = p /\ m.tab = T /\ m.meta = M /\ m.reg = R
  <2> HIDE DEF p
  <2> QED BY NowParts
<1>4. Dropped(p, 1) = Append(q, t)
  BY <1>0, AppendParts, Drop1
<1> HIDE DEF p
<1>3. Top(m, L, 2) = t /\ Top(m, L, 1) = v
  <2>1. Top(m, L, 2) = p[Len(p) + 1 - 2] /\ Top(m, L, 1) = p[Len(p) + 1 - 1]
    BY <1>1, TopParts
  <2>2. Len(p) + 1 - 2 = Len(q) + 1 /\ Len(p) + 1 - 1 = Len(q) + 2
    BY <1>1
  <2> QED BY <1>1, <2>1, <2>2
<1>5. 2 \in 0..Len(p)
  BY <1>1
<1>6. Call(m, L, 2, Written(m, t, k, v, L, Append(q, t))) = Written(m, t, k, v, L, Append(q, t))
  BY <1>1, <1>5, Calls
<1>7. Written(m, t, k, v, L, Append(q, t)) = Now(L, Append(q, t), [T EXCEPT ![t][k] = v], M, R)
  BY WrittenParts
<1> HIDE DEF m
<1>8. lua_setfield(m, L, 2, k) = Call(m, L, 2, Written(m, t, k, v, L, Append(q, t)))
  BY <1>2, <1>3, <1>4 DEF lua_setfield, Written
<1> QED BY <1>6, <1>7, <1>8 DEF m, p

LEMMA Gettable ==
  ASSUME Frames, NEW L \in States, NEW q \in Seq(Values), NEW T, NEW M, NEW R,
         NEW t \in Tables, NEW k \in Values
  PROVE  lua_gettable(Now(L, Append(Append(q, t), k), T, M, R), L, 2)
           = Now(L, Append(Append(q, t), Field(T[t], k)), T, M, R)
<1>0. t \in Values
  BY DEF Values
<1> DEFINE p == Append(Append(q, t), k)
           m == Now(L, p, T, M, R)
<1>1. /\ p \in Seq(Values) /\ Len(p) = Len(q) + 2 /\ Len(q) \in Nat
      /\ p[Len(q) + 1] = t
      /\ p[Len(q) + 2] = k
  BY <1>0, OnTop
<1>2. m.stk[L] = p /\ m.tab = T /\ m.meta = M /\ m.reg = R
  <2> HIDE DEF p
  <2> QED BY NowParts
<1>4. Dropped(p, 1) = Append(q, t)
  BY <1>0, AppendParts, Drop1
<1> HIDE DEF p
<1>3. Top(m, L, 2) = t /\ Top(m, L, 1) = k
  <2>1. Top(m, L, 2) = p[Len(p) + 1 - 2] /\ Top(m, L, 1) = p[Len(p) + 1 - 1]
    BY <1>1, TopParts
  <2>2. Len(p) + 1 - 2 = Len(q) + 1 /\ Len(p) + 1 - 1 = Len(q) + 2
    BY <1>1
  <2> QED BY <1>1, <2>1, <2>2
<1>5. 2 \in 0..Len(p)
  BY <1>1
<1>6. Call(m, L, 2, WithFrame(m, L, Append(Append(q, t), Field(T[t], k)))) = WithFrame(m, L, Append(Append(q, t), Field(T[t], k)))
  BY <1>1, <1>5, Calls
<1>7. WithFrame(m, L, Append(Append(q, t), Field(T[t], k))) = Now(L, Append(Append(q, t), Field(T[t], k)), T, M, R)
  BY NowWith
<1> HIDE DEF m
<1>8. lua_gettable(m, L, 2) = Call(m, L, 2, WithFrame(m, L, Append(Append(q, t), Field(T[t], k))))
  BY <1>0, <1>2, <1>3, <1>4 DEF lua_gettable, WithFrame
<1> QED BY <1>6, <1>7, <1>8 DEF m, p

LEMMA Remove2 ==
  ASSUME Frames, NEW L \in States, NEW q \in Seq(Values), NEW T, NEW M, NEW R,
         NEW a \in Values, NEW b \in Values
  PROVE  lua_remove2(Now(L, Append(Append(q, a), b), T, M, R), L)
           = Now(L, Append(q, b), T, M, R)
<1> DEFINE p == Append(Append(q, a), b)
           m == Now(L, p, T, M, R)
<1>1. /\ p \in Seq(Values) /\ Len(p) = Len(q) + 2 /\ Len(q) \in Nat
      /\ p[Len(q) + 1] = a
      /\ p[Len(q) + 2] = b
  BY OnTop
<1>2. m.stk[L] = p /\ m.tab = T /\ m.meta = M /\ m.reg = R
  <2> HIDE DEF p
  <2> QED BY NowParts
<1>4. Dropped(p, 2) = q
  BY AppendParts, Drop2
<1> HIDE DEF p
<1>3. Top(m, L, 2) = a /\ Top(m, L, 1) = b
  <2>1. Top(m, L, 2) = p[Len(p) + 1 - 2] /\ Top(m, L, 1) = p[Len(p) + 1 - 1]
    BY <1>1, TopParts
  <2>2. Len(p) + 1 - 2 = Len(q) + 1 /\ Len(p) + 1 - 1 = Len(q) + 2
    BY <1>1
  <2> QED BY <1>1, <2>1, <2>2
<1>5. 2 \in 0..Len(p)
  BY <1>1
<1>6. Call(m, L, 2, WithFrame(m, L, Append(q, b))) = WithFrame(m, L, Append(q, b))
  BY <1>1, <1>5, Calls
<1>7. WithFrame(m, L, Append(q, b)) = Now(L, Append(q, b), T, M, R)
  BY NowWith
<1> HIDE DEF m
<1>8. lua_remove2(m, L) = Call(m, L, 2, WithFrame(m, L, Append(q, b)))
  BY <1>2, <1>3, <1>4 DEF lua_remove2, WithFrame
<1> QED BY <1>6, <1>7, <1>8 DEF m, p

LEMMA RegGettable ==
  ASSUME Frames, NEW L \in States, NEW q \in Seq(Values), NEW T, NEW M, NEW R,
         NEW k \in Values
  PROVE  reg_gettable(Now(L, Append(q, k), T, M, R), L)
           = Now(L, Append(q, Field(R, k)), T, M, R)
<1> DEFINE p == Append(q, k)
           m == Now(L, p, T, M, R)
<1>1. /\ p \in Seq(Values) /\ Len(p) = Len(q) + 1 /\ Len(q) \in Nat
      /\ p[Len(q) + 1] = k
  BY OnTop
<1>2. m.stk[L] = p /\ m.tab = T /\ m.meta = M /\ m.reg = R
  <2> HIDE DEF p
  <2> QED BY NowParts
<1>4. Dropped(p, 1) = q
  BY AppendParts, Drop1
<1> HIDE DEF p
<1>3. Top(m, L, 1) = k
  <2>1. Top(m, L, 1) = p[Len(p) + 1 - 1]
    BY <1>1, TopParts
  <2>2. Len(p) + 1 - 1 = Len(q) + 1
    BY <1>1
  <2> QED BY <1>1, <2>1, <2>2
<1>5. 1 \in 0..Len(p)
  BY <1>1
<1>6. Call(m, L, 1, WithFrame(m, L, Append(q, Field(R, k)))) = WithFrame(m, L, Append(q, Field(R, k)))
  BY <1>1, <1>5, Calls
<1>7. WithFrame(m, L, Append(q, Field(R, k))) = Now(L, Append(q, Field(R, k)), T, M, R)
  BY NowWith
<1> HIDE DEF m
<1>8. reg_gettable(m, L) = Call(m, L, 1, WithFrame(m, L, Append(q, Field(R, k))))
  BY <1>2, <1>3, <1>4 DEF reg_gettable, WithFrame
<1> QED BY <1>6, <1>7, <1>8 DEF m, p

LEMMA Swaps ==
  ASSUME Frames, NEW L \in States, NEW q \in Seq(Values), NEW T, NEW M, NEW R,
         NEW a \in Values, NEW b \in Values
  PROVE  lua_swap(Now(L, Append(Append(q, a), b), T, M, R), L) = Now(L, Append(Append(q, b), a), T, M, R)
<1> DEFINE p == Append(Append(q, a), b)
           m == Now(L, p, T, M, R)
<1>1. /\ p \in Seq(Values) /\ Len(p) = Len(q) + 2 /\ Len(q) \in Nat
      /\ p[Len(q) + 1] = a
      /\ p[Len(q) + 2] = b
  BY OnTop
<1>2. m.stk[L] = p /\ m.tab = T /\ m.meta = M /\ m.reg = R
  <2> HIDE DEF p
  <2> QED BY NowParts
<1>4. Dropped(p, 2) \o <<b, a>> = Append(Append(q, b), a)
  <2>1. Dropped(p, 2) = q
    BY Drop2
  <2> QED BY <2>1, TwoMore
<1> HIDE DEF p
<1>3. Top(m, L, 2) = a /\ Top(m, L, 1) = b
  <2>1. Top(m, L, 2) = p[Len(p) + 1 - 2] /\ Top(m, L, 1) = p[Len(p) + 1 - 1]
    BY <1>1, TopParts
  <2>2. Len(p) + 1 - 2 = Len(q) + 1 /\ Len(p) + 1 - 1 = Len(q) + 2
    BY <1>1
  <2> QED BY <1>1, <2>1, <2>2
<1> DEFINE r == Append(Append(q, b), a)
<1>5. 2 \in 0..Len(p)
  BY <1>1
<1>6. Call(m, L, 2, WithFrame(m, L, r)) = WithFrame(m, L, r)
  BY <1>1, <1>5, Calls
<1>7. WithFrame(m, L, r) = Now(L, r, T, M, R)
  BY NowWith
<1> HIDE DEF m
<1>8. lua_swap(m, L) = Call(m, L, 2, WithFrame(m, L, r))
  BY <1>2, <1>3, <1>4 DEF lua_swap, WithFrame
<1> QED BY <1>6, <1>7, <1>8 DEF m, p

LEMMA Getfield ==
  ASSUME Frames, NEW L \in States, NEW q \in Seq(Values), NEW T, NEW M, NEW R,
         NEW t \in Tables, NEW k
  PROVE  lua_getfield(Now(L, Append(q, t), T, M, R), L, 1, k)
           = Now(L, Append(Append(q, t), T[t][k]), T, M, R)
<1>0. t \in Values
  BY DEF Values
<1> DEFINE p == Append(q, t)
           m == Now(L, p, T, M, R)
<1>1. /\ p \in Seq(Values) /\ Len(p) = Len(q) + 1 /\ Len(q) \in Nat
      /\ p[Len(q) + 1] = t
  BY <1>0, OnTop
<1>2. m.stk[L] = p /\ m.tab = T /\ m.meta = M /\ m.reg = R
  <2> HIDE DEF p
  <2> QED BY NowParts
<1> HIDE DEF p
<1>3. Top(m, L, 1) = t
  <2>1. Top(m, L, 1) = p[Len(p) + 1 - 1]
    BY <1>1, TopParts
  <2>2. Len(p) + 1 - 1 = Len(q) + 1
    BY <1>1
  <2> QED BY <1>1, <2>1, <2>2
<1>5. 1 \in 0..Len(p)
  BY <1>1
<1>6. Call(m, L, 1, lua_push(m, L, T[t][k])) = lua_push(m, L, T[t][k])
  BY <1>1, <1>5, Calls
<1>7. lua_push(m, L, T[t][k]) = Now(L, Append(p, T[t][k]), T, M, R)
  BY Pushes
<1> HIDE DEF m
<1>8. lua_getfield(m, L, 1, k) = Call(m, L, 1, lua_push(m, L, T[t][k]))
  BY <1>0, <1>2, <1>3 DEF lua_getfield
<1> QED BY <1>6, <1>7, <1>8 DEF m, p

LEMMA PushesSecond ==
  ASSUME Frames, NEW L \in States, NEW q \in Seq(Values), NEW T, NEW M, NEW R,
         NEW a \in Values, NEW b \in Values
  PROVE  lua_pushvalue(Now(L, Append(Append(q, a), b), T, M, R), L, 2)
           = Now(L, Append(Append(Append(q, a), b), a), T, M, R)
<1> DEFINE p == Append(Append(q, a), b)
           m == Now(L, p, T, M, R)
<1>1. /\ p \in Seq(Values) /\ Len(p) = Len(q) + 2 /\ Len(q) \in Nat
      /\ p[Len(q) + 1] = a
      /\ p[Len(q) + 2] = b
  BY OnTop
<1>2. m.stk[L] = p /\ m.tab = T /\ m.meta = M /\ m.reg = R
  <2> HIDE DEF p
  <2> QED BY NowParts
<1> HIDE DEF p
<1>3. Top(m, L, 2) = a /\ Top(m, L, 1) = b
  <2>1. Top(m, L, 2) = p[Len(p) + 1 - 2] /\ Top(m, L, 1) = p[Len(p) + 1 - 1]
    BY <1>1, TopParts
  <2>2. Len(p) + 1 - 2 = Len(q) + 1 /\ Len(p) + 1 - 1 = Len(q) + 2
    BY <1>1
  <2> QED BY <1>1, <2>1, <2>2
<1>5. 2 \in 0..Len(p)
  BY <1>1
<1>6. Call(m, L, 2, lua_push(m, L, a)) = lua_push(m, L, a)
  BY <1>1, <1>5, Calls
<1>7. lua_push(m, L, a) = Now(L, Append(p, a), T, M, R)
  BY Pushes
<1> HIDE DEF m
<1>8. lua_pushvalue(m, L, 2) = Call(m, L, 2, lua_push(m, L, a))
  BY <1>2, <1>3 DEF lua_pushvalue
<1> QED BY <1>6, <1>7, <1>8 DEF m, p

LEMMA Setmetatable ==
  ASSUME Frames, NEW L \in States, NEW q \in Seq(Values), NEW T, NEW M, NEW R,
         NEW t \in Tables, NEW v \in Tables \cup {Nil}
  PROVE  lua_setmetatable2(Now(L, Append(Append(q, t), v), T, M, R), L)
           = Now(L, Append(q, t), T, [M EXCEPT ![t] = v], R)
<1>0. t \in Values /\ v \in Values
  BY DEF Values
<1> DEFINE p == Append(Append(q, t), v)
           m == Now(L, p, T, M, R)
<1>1. /\ p \in Seq(Values) /\ Len(p) = Len(q) + 2 /\ Len(q) \in Nat
      /\ p[Len(q) + 1] = t
      /\ p[Len(q) + 2] = v
  BY <1>0, OnTop
<1>2. m.stk[L] = p /\ m.tab = T /\ m.meta = M /\ m.reg = R
  <2> HIDE DEF p
  <2> QED BY NowParts
<1>4. Dropped(p, 1) = Append(q, t)
  BY <1>0, AppendParts, Drop1
<1> HIDE DEF p
<1>3. Top(m, L, 2) = t /\ Top(m, L, 1) = v
  <2>1. Top(m, L, 2) = p[Len(p) + 1 - 2] /\ Top(m, L, 1) = p[Len(p) + 1 - 1]
    BY <1>1, TopParts
  <2>2. Len(p) + 1 - 2 = Len(q) + 1 /\ Len(p) + 1 - 1 = Len(q) + 2
    BY <1>1
  <2> QED BY <1>1, <2>1, <2>2
<1>5. 2 \in 0..Len(p)
  BY <1>1
<1>6. Call(m, L, 2, Remeta(m, t, v, L, Append(q, t))) = Remeta(m, t, v, L, Append(q, t))
  BY <1>1, <1>5, Calls
<1>7. Remeta(m, t, v, L, Append(q, t)) = Now(L, Append(q, t), T, [M EXCEPT ![t] = v], R)
  BY RemetaParts
<1> HIDE DEF m
<1>8. lua_setmetatable2(m, L) = Call(m, L, 2, Remeta(m, t, v, L, Append(q, t)))
  BY <1>2, <1>3, <1>4 DEF lua_setmetatable2, Remeta
<1> QED BY <1>6, <1>7, <1>8 DEF m, p

LEMMA RegSetfield ==
  ASSUME Frames, NEW L \in States, NEW q \in Seq(Values), NEW T, NEW M, NEW R,
         NEW k, NEW v \in Values
  PROVE  reg_setfield(Now(L, Append(q, v), T, M, R), L, k) = Now(L, q, T, M, [R EXCEPT ![k] = v])
<1> DEFINE p == Append(q, v)
           m == Now(L, p, T, M, R)
<1>1. /\ p \in Seq(Values) /\ Len(p) = Len(q) + 1 /\ Len(q) \in Nat
      /\ p[Len(q) + 1] = v
  BY OnTop
<1>2. m.stk[L] = p /\ m.tab = T /\ m.meta = M /\ m.reg = R
  <2> HIDE DEF p
  <2> QED BY NowParts
<1>4. Dropped(p, 1) = q
  BY Drop1
<1> HIDE DEF p
<1>3. Top(m, L, 1) = v
  <2>1. Top(m, L, 1) = p[Len(p) + 1 - 1]
    BY <1>1, TopParts
  <2>2. Len(p) + 1 - 1 = Len(q) + 1
    BY <1>1
  <2> QED BY <1>1, <2>1, <2>2
<1>5. 1 \in 0..Len(p)
  BY <1>1
<1>6. Call(m, L, 1, Registered(m, k, v, L, q)) = Registered(m, k, v, L, q)
  BY <1>1, <1>5, Calls
<1>7. Registered(m, k, v, L, q) = Now(L, q, T, M, [R EXCEPT ![k] = v])
  BY RegisteredParts
<1> HIDE DEF m
<1>8. reg_setfield(m, L, k) = Call(m, L, 1, Registered(m, k, v, L, q))
  BY <1>2, <1>3, <1>4 DEF reg_setfield, Registered
<1> QED BY <1>6, <1>7, <1>8 DEF m, p

LEMMA RegSettable ==
  ASSUME Frames, NEW L \in States, NEW q \in Seq(Values), NEW T, NEW M, NEW R,
         NEW k \in Keys, NEW v \in Values
  PROVE  reg_settable(Now(L, Append(Append(q, k), v), T, M, R), L) = Now(L, q, T, M, [R EXCEPT ![k] = v])
<1>0. k \in Values /\ k # Nil
  BY DEF Keys
<1> DEFINE p == Append(Append(q, k), v)
           m == Now(L, p, T, M, R)
<1>1. /\ p \in Seq(Values) /\ Len(p) = Len(q) + 2 /\ Len(q) \in Nat
      /\ p[Len(q) + 1] = k
      /\ p[Len(q) + 2] = v
  BY <1>0, OnTop
<1>2. m.stk[L] = p /\ m.tab = T /\ m.meta = M /\ m.reg = R
  <2> HIDE DEF p
  <2> QED BY NowParts
<1>4. Dropped(p, 2) = q
  BY <1>0, Drop2
<1> HIDE DEF p
<1>3. Top(m, L, 2) = k /\ Top(m, L, 1) = v
  <2>1. Top(m, L, 2) = p[Len(p) + 1 - 2] /\ Top(m, L, 1) = p[Len(p) + 1 - 1]
    BY <1>1, TopParts
  <2>2. Len(p) + 1 - 2 = Len(q) + 1 /\ Len(p) + 1 - 1 = Len(q) + 2
    BY <1>1
  <2> QED BY <1>1, <2>1, <2>2
<1>5. 2 \in 0..Len(p)
  BY <1>1
<1>6. Call(m, L, 2, Registered(m, k, v, L, q)) = Registered(m, k, v, L, q)
  BY <1>1, <1>5, Calls
<1>7. Registered(m, k, v, L, q) = Now(L, q, T, M, [R EXCEPT ![k] = v])
  BY RegisteredParts
<1> HIDE DEF m
<1>8. reg_settable(m, L) = Call(m, L, 2, Registered(m, k, v, L, q))
  BY <1>0, <1>2, <1>3, <1>4 DEF reg_settable, Registered
<1> QED BY <1>6, <1>7, <1>8 DEF m, p

LEMMA RegGetfield ==
  ASSUME Frames, NEW L \in States, NEW q \in Seq(Values), NEW T, NEW M, NEW R, NEW k
  PROVE  reg_getfield(Now(L, q, T, M, R), L, k) = Now(L, Append(q, R[k]), T, M, R)
<1>1. Now(L, q, T, M, R).reg = R
  BY NowParts
<1> QED BY <1>1, Pushes DEF reg_getfield

LEMMA Newtable ==
  ASSUME Frames, NEW L \in States, NEW q \in Seq(Values), NEW T, NEW M, NEW R, NEW t
  PROVE  lua_newtable(Now(L, q, T, M, R), L, t)
           = Now(L, Append(q, t), [T EXCEPT ![t] = Empty], [M EXCEPT ![t] = Nil], R)
<1> DEFINE f == [stk EXCEPT ![L] = q]
           m == [stk |-> f, tab |-> T, meta |-> M, reg |-> R, st |-> "ok", ret |-> ret]
           n == [m EXCEPT !.tab[t] = Empty]
           U == [T EXCEPT ![t] = Empty]
           W == [M EXCEPT ![t] = Nil]
<1>1. n = [stk |-> f, tab |-> U, meta |-> M, reg |-> R, st |-> "ok", ret |-> ret]
  BY DEF n, m
<1>2. [m EXCEPT !.tab[t] = Empty, !.meta[t] = Nil] = [n EXCEPT !.meta[t] = Nil]
  <2> HIDE DEF m
  <2> QED OBVIOUS
<1> HIDE DEF n, U
<1>3. [n EXCEPT !.meta[t] = Nil]
        = [stk |-> f, tab |-> U, meta |-> W, reg |-> R, st |-> "ok", ret |-> ret]
  BY <1>1
<1>4. [m EXCEPT !.tab[t] = Empty, !.meta[t] = Nil] = Now(L, q, U, W, R)
  BY <1>2, <1>3 DEF Now
<1>5. m = Now(L, q, T, M, R)
  BY DEF Now
<1>6. lua_push(Now(L, q, U, W, R), L, t) = Now(L, Append(q, t), U, W, R)
  BY Pushes
<1> HIDE DEF m
<1>7. lua_newtable(m, L, t) = lua_push(Now(L, q, U, W, R), L, t)
  BY <1>4 DEF lua_newtable
<1> HIDE DEF W
<1> QED BY <1>5, <1>6, <1>7 DEF U, W

LEMMA Combines ==
  ASSUME Frames, NEW L \in States, NEW q \in Seq(Values), NEW T, NEW M, NEW R,
         NEW n \in 0..Len(q), NEW v
  PROVE  Combined(Now(L, q, T, M, R), L, n, v) = Now(L, Append(Dropped(q, n), v), T, M, R)
<1>1. lua_pop(Now(L, q, T, M, R), L, n) = Now(L, Dropped(q, n), T, M, R)
  BY PopsMany
<1>2. lua_push(Now(L, Dropped(q, n), T, M, R), L, v) = Now(L, Append(Dropped(q, n), v), T, M, R)
  BY Pushes
<1> QED BY <1>1, <1>2 DEF Combined

LEMMA Pushcclosure ==
  ASSUME Frames, NEW L \in States, NEW q \in Seq(Values), NEW T, NEW M, NEW R,
         NEW n \in 0..Len(q), NEW v
  PROVE  lua_pushcclosure(Now(L, q, T, M, R), L, n, v) = Now(L, Append(Dropped(q, n), v), T, M, R)
<1> DEFINE c == Combined(Now(L, q, T, M, R), L, n, v)
<1>1. Call(Now(L, q, T, M, R), L, n, c) = c
  BY Calls
<1> QED BY <1>1, Combines DEF lua_pushcclosure

LEMMA Ariths ==
  ASSUME Frames, NEW L \in States, NEW q \in Seq(Values), NEW T, NEW M, NEW R,
         NEW n \in 0..Len(q), NEW v, AllTexts(Now(L, q, T, M, R), L, n)
  PROVE  lua_arith(Now(L, q, T, M, R), L, n, v) = Now(L, Append(Dropped(q, n), v), T, M, R)
<1> DEFINE c == Combined(Now(L, q, T, M, R), L, n, v)
<1>1. Call(Now(L, q, T, M, R), L, n, c) = c
  BY Calls
<1>2. c = Now(L, Append(Dropped(q, n), v), T, M, R)
  BY Combines
<1> HIDE DEF c
<1>3. lua_arith(Now(L, q, T, M, R), L, n, v) = Call(Now(L, q, T, M, R), L, n, c)
  BY DEF lua_arith, c
<1> QED BY <1>1, <1>2, <1>3
LEMMA Setglobal ==
  ASSUME Frames, NEW L \in States, NEW q \in Seq(Values), NEW T, NEW M, NEW R,
         NEW k, NEW v \in Values
  PROVE  lua_setglobal(Now(L, Append(q, v), T, M, R), L, k)
           = Now(L, q, [T EXCEPT ![Globals][k] = v], M, R)
<1> DEFINE p == Append(q, v)
           m == Now(L, p, T, M, R)
<1>1. p \in Seq(Values) /\ Len(p) = Len(q) + 1 /\ Len(q) \in Nat /\ p[Len(q) + 1] = v
  BY OnTop
<1>2. m.stk[L] = p
  <2> HIDE DEF p
  <2> QED BY NowParts
<1>4. Dropped(p, 1) = q
  BY Drop1
<1> HIDE DEF p
<1>3. Top(m, L, 1) = v
  <2>1. Top(m, L, 1) = p[Len(p) + 1 - 1]
    BY <1>1, TopParts
  <2>2. Len(p) + 1 - 1 = Len(q) + 1
    BY <1>1
  <2> QED BY <1>1, <2>1, <2>2
<1>5. 1 \in 0..Len(p)
  BY <1>1
<1>6. Call(m, L, 1, Written(m, Globals, k, v, L, q)) = Written(m, Globals, k, v, L, q)
  BY <1>1, <1>5, Calls
<1>7. Written(m, Globals, k, v, L, q) = Now(L, q, [T EXCEPT ![Globals][k] = v], M, R)
  BY WrittenParts
<1> HIDE DEF m
<1>8. lua_setglobal(m, L, k) = Call(m, L, 1, Written(m, Globals, k, v, L, q))
  BY <1>2, <1>3, <1>4 DEF lua_setglobal, Written
<1> QED BY <1>6, <1>7, <1>8 DEF m, p

LEMMA Getglobal ==
  ASSUME Frames, NEW L \in States, NEW q \in Seq(Values), NEW T, NEW M, NEW R, NEW k
  PROVE  lua_getglobal(Now(L, q, T, M, R), L, k) = Now(L, Append(q, T[Globals][k]), T, M, R)
<1>1. Now(L, q, T, M, R).tab = T
  BY NowParts
<1> QED BY <1>1, Pushes DEF lua_getglobal
-----------------------------------------------------------------------------
(* Exceptions, and how an operation ends. *)

\* Nothing happens to a machine on which something has gone wrong.
LEMMA Stops ==
  ASSUME NEW m, m.st # "ok", NEW s, NEW n, NEW v
  PROVE  /\ lua_push(m, s, v) = m /\ lua_pop(m, s, n) = m /\ lua_settable(m, s, n) = m
         /\ lua_setfield(m, s, n, v) = m /\ lua_gettable(m, s, n) = m
         /\ lua_setglobal(m, s, v) = m
         /\ lua_remove2(m, s) = m /\ lua_pushvalue(m, s, n) = m
         /\ lua_pushcclosure(m, s, n, v) = m
         /\ reg_setfield(m, s, v) = m /\ reg_settable(m, s) = m /\ reg_gettable(m, s) = m
         /\ pushOnto(m, v, s) = m
BY DEF lua_push, lua_pop, lua_settable, lua_setfield, lua_setglobal, lua_gettable, lua_remove2, lua_pushvalue,
       lua_pushcclosure, reg_setfield, reg_settable, reg_gettable, Call, pushOnto, pushReference

LEMMA RecordReturns ==
  ASSUME NEW f, NEW T, NEW M, NEW R, NEW s, NEW r, NEW rs
  PROVE  ReturnAll([stk |-> f, tab |-> T, meta |-> M, reg |-> R, st |-> s, ret |-> r], rs)
           = [stk |-> f, tab |-> T, meta |-> M, reg |-> R,
              st |-> IF s = "thrown" THEN "ok" ELSE s, ret |-> IF s = "ok" THEN rs ELSE <<s>>]
<1> DEFINE m == [stk |-> f, tab |-> T, meta |-> M, reg |-> R, st |-> s, ret |-> r]
           x == IF s = "ok" THEN rs ELSE <<s>>
           y == IF s = "thrown" THEN "ok" ELSE s
           n == [m EXCEPT !.ret = x]
<1>1. m.st = s
  OBVIOUS
<1>2. n = [stk |-> f, tab |-> T, meta |-> M, reg |-> R, st |-> s, ret |-> x]
  <2> HIDE DEF x
  <2> QED OBVIOUS
<1>3. ReturnAll(m, rs) = [n EXCEPT !.st = y]
  <2> HIDE DEF m
  <2> QED BY <1>1 DEF ReturnAll
<1> HIDE DEF n, x, y
<1>4. [n EXCEPT !.st = y] = [stk |-> f, tab |-> T, meta |-> M, reg |-> R, st |-> y, ret |-> x]
  BY <1>2
<1> QED BY <1>3, <1>4 DEF x, y

LEMMA ReturnsAll ==
  ASSUME Frames, NEW L \in States, NEW q, NEW T, NEW M, NEW R, NEW rs
  PROVE  ReturnAll(Now(L, q, T, M, R), rs) = Ended(L, q, T, M, R, rs)
BY RecordReturns DEF Now, Ended

LEMMA Returns ==
  ASSUME Frames, NEW L \in States, NEW q, NEW T, NEW M, NEW R, NEW rs
  PROVE  Return(Now(L, q, T, M, R), rs) = Ended(L, q, T, M, R, <<rs>>)
BY ReturnsAll DEF Return

LEMMA Throws ==
  ASSUME Frames, NEW L \in States, NEW q, NEW T, NEW M, NEW R, NEW rs
  PROVE  /\ ReturnAll(Broken(L, q, T, M, R), rs) = Ended(L, q, T, M, R, <<"thrown">>)
         /\ Return(Broken(L, q, T, M, R), rs) = Ended(L, q, T, M, R, <<"thrown">>)
<1>1. \A r : ReturnAll(Broken(L, q, T, M, R), r) = Ended(L, q, T, M, R, <<"thrown">>)
  BY RecordReturns DEF Broken, Ended
<1> QED BY <1>1 DEF Return

LEMMA EndedParts ==
  ASSUME NEW L, NEW q, NEW T, NEW M, NEW R, NEW rs, Becomes(Ended(L, q, T, M, R, rs))
  PROVE  /\ stk' = [stk EXCEPT ![L] = q] /\ tab' = T /\ meta' = M /\ reg' = R
         /\ st' = "ok" /\ ret' = rs
BY DEF Becomes, Ended

\* An argument that is a reference of another instance.
Stranger(x) == x.val \in Tables /\ x.at \in Foreign

LEMMA ArgumentParts ==
  ASSUME NEW L \in States, NEW x \in AtHand(L)
  PROVE  x.val \in Values /\ (x.val \in Tables /\ ~Stranger(x) => x.at = L)
BY DEF AtHand, BoundTo, Arguments, Stranger

LEMMA HandleParts ==
  ASSUME NEW L \in States, NEW h \in BoundTo(TableHandles, L)
  PROVE  h.val \in Tables /\ h.at = L /\ h.val \in Values
BY DEF BoundTo, TableHandles, Values

LEMMA PushesArgument ==
  ASSUME Frames, NEW L \in States, NEW q, NEW T, NEW M, NEW R, NEW x \in AtHand(L), ~Stranger(x)
  PROVE  pushOnto(Now(L, q, T, M, R), x, L) = Now(L, Append(q, x.val), T, M, R)
<1>1. lua_push(Now(L, q, T, M, R), L, x.val) = Now(L, Append(q, x.val), T, M, R)
  BY Pushes
<1>2. CASE x.val \in Tables
  <2>1. x.at = L /\ x.at \notin Foreign
    BY <1>2, ArgumentParts DEF Stranger
  <2> QED BY <1>1, <1>2, <2>1 DEF pushOnto, pushReference
<1>3. CASE x.val \notin Tables
  BY <1>1, <1>3 DEF pushOnto
<1> QED BY <1>2, <1>3

LEMMA PushThrows ==
  ASSUME Frames, NEW L \in States, NEW q, NEW T, NEW M, NEW R, NEW x, Stranger(x)
  PROVE  pushOnto(Now(L, q, T, M, R), x, L) = Broken(L, q, T, M, R)
<1>1. Now(L, q, T, M, R).st = "ok"
  BY NowParts
<1>2. Fail(Now(L, q, T, M, R), "thrown") = Broken(L, q, T, M, R)
  BY BrokenParts
<1> QED BY <1>1, <1>2 DEF pushOnto, pushReference, Stranger

LEMMA PushesSelf ==
  ASSUME Frames, NEW L \in States, NEW q, NEW T, NEW M, NEW R, NEW h \in BoundTo(TableHandles, L)
  PROVE  pushSelf(Now(L, q, T, M, R), h) = Now(L, Append(q, h.val), T, M, R)
<1>1. h.at = L /\ h.at \notin Foreign
  BY HandleParts, ForeignAssumption
<1>2. lua_push(Now(L, q, T, M, R), L, h.val) = Now(L, Append(q, h.val), T, M, R)
  BY Pushes
<1> QED BY <1>1, <1>2 DEF pushSelf, pushReference
-----------------------------------------------------------------------------
(* What the client sees of it. *)

Mine == [s \in States |-> Tail(stk[s])]

Frame(q) == q \in Seq(Values) /\ q # <<>> /\ q[1] = Nil

TypedData(T, M, R) ==
  /\ T \in [Tables -> [Keys -> Values]]
  /\ M \in [Tables -> Tables \cup {Nil}]
  /\ R \in [Keys -> Values]

LEMMA TailParts ==
  ASSUME NEW S, NEW q \in Seq(S), q # <<>>
  PROVE  /\ Tail(q) \in Seq(S) /\ Len(Tail(q)) = Len(q) - 1
         /\ \A i \in 1..Len(q)-1 : Tail(q)[i] = q[i + 1]
OBVIOUS

LEMMA Grows ==
  ASSUME NEW q, Frame(q), NEW v \in Values
  PROVE  Frame(Append(q, v)) /\ Tail(Append(q, v)) = Append(Tail(q), v)
<1> DEFINE p == Append(q, v)
           a == Tail(p)
           t == Tail(q)
           b == Append(t, v)
<1>0. q \in Seq(Values) /\ q # <<>> /\ q[1] = Nil /\ Len(q) \in Nat /\ Len(q) # 0
  BY SeqParts DEF Frame
<1>1. /\ p \in Seq(Values) /\ Len(p) = Len(q) + 1 /\ p[Len(q) + 1] = v
      /\ \A i \in 1..Len(q) : p[i] = q[i]
  BY <1>0, AppendParts
<1>2. t \in Seq(Values) /\ Len(t) = Len(q) - 1 /\ \A i \in 1..Len(q)-1 : t[i] = q[i + 1]
  BY <1>0, TailParts
<1> HIDE DEF p, t
<1>3. p # <<>> /\ p[1] = Nil
  BY <1>0, <1>1, SeqParts
<1>4. a \in Seq(Values) /\ Len(a) = Len(p) - 1 /\ \A i \in 1..Len(p)-1 : a[i] = p[i + 1]
  BY <1>1, <1>3, TailParts
<1>5. /\ b \in Seq(Values) /\ Len(b) = Len(t) + 1 /\ b[Len(t) + 1] = v
      /\ \A i \in 1..Len(t) : b[i] = t[i]
  BY <1>2, AppendParts
<1> HIDE DEF a, b
<1>6. Len(a) = Len(q) /\ Len(b) = Len(q)
  BY <1>0, <1>1, <1>2, <1>4, <1>5
<1>7. ASSUME NEW i \in 1..Len(a) PROVE a[i] = b[i]
  <2>1. a[i] = p[i + 1]
    BY <1>0, <1>1, <1>4, <1>6
  <2>2. CASE i = Len(q)
    BY <1>0, <1>1, <1>2, <1>5, <2>1, <2>2
  <2>3. CASE i # Len(q)
    <3>1. i \in 1..Len(q)-1 /\ i + 1 \in 1..Len(q)
      BY <1>0, <1>6, <2>3
    <3> QED BY <1>1, <1>2, <1>5, <2>1, <3>1
  <2> QED BY <2>2, <2>3
<1>8. a = b
  BY <1>4, <1>5, <1>6, <1>7, SameSeq
<1> QED BY <1>1, <1>3, <1>8 DEF Frame, a, b, p, t

LEMMA FrameOf ==
  ASSUME IInv, NEW L \in States
  PROVE  /\ Frames /\ stk[L] \in Seq(Values) /\ Len(stk[L]) \in Nat /\ Len(stk[L]) >= 1
         /\ Frame(stk[L]) /\ TypedData(tab, meta, reg)
         /\ Machine = Now(L, stk[L], tab, meta, reg)
<1>1. stk[L] \in Seq(Values) /\ stk[L] # <<>> /\ stk[L][1] = Nil
  BY DEF IInv, Frames
<1>2. Len(stk[L]) \in Nat /\ Len(stk[L]) # 0
  BY <1>1, SeqParts
<1>3. Len(stk[L]) >= 1
  BY <1>2
<1>4. TypedData(tab, meta, reg)
  BY DEF IInv, Data, TypedData
<1>5. Frames
  BY DEF IInv
<1> QED BY <1>1, <1>2, <1>3, <1>4, <1>5, StartsAs DEF Frame

LEMMA Leaves ==
  ASSUME IInv, NEW L \in States, NEW q, Frame(q), NEW T, NEW M, NEW R, TypedData(T, M, R),
         NEW rs, Becomes(Ended(L, q, T, M, R, rs))
  PROVE  /\ IInv' /\ Mine' = [Mine EXCEPT ![L] = Tail(q)]
         /\ tab' = T /\ meta' = M /\ reg' = R /\ ret' = rs
<1>1. stk' = [stk EXCEPT ![L] = q] /\ tab' = T /\ meta' = M /\ reg' = R /\ st' = "ok" /\ ret' = rs
  BY EndedParts
<1>2. \A s \in States : stk'[s] = IF s = L THEN q ELSE stk[s]
  BY <1>1 DEF IInv, Frames
<1>3. Frames'
  <2>1. stk' \in [States -> Seq(Values)]
    BY <1>1 DEF IInv, Frames, Frame
  <2> QED BY <1>2, <2>1 DEF IInv, Frames, Frame
<1>4. Data'
  BY <1>1 DEF Data, TypedData
<1>5. Mine' = [Mine EXCEPT ![L] = Tail(q)]
  BY <1>2 DEF Mine
<1> QED BY <1>1, <1>3, <1>4, <1>5 DEF IInv

LEMMA MineParts ==
  ASSUME IInv, NEW s \in States
  PROVE  /\ Mine[s] = Tail(stk[s]) /\ Len(Mine[s]) = Len(stk[s]) - 1
         /\ Mine[s] = <<>> <=> Len(stk[s]) = 1
         /\ Len(stk[s]) \in Nat /\ Len(Mine[s]) \in Nat
         /\ Mine[s] \in Seq(Values)
         /\ \A i \in 1..Len(stk[s])-1 : Mine[s][i] = stk[s][i + 1]
<1>1. stk[s] \in Seq(Values) /\ stk[s] # <<>> /\ Len(stk[s]) \in Nat /\ Len(stk[s]) >= 1
  BY FrameOf DEF Frame
<1>2. Mine[s] = Tail(stk[s])
  BY DEF Mine
<1>3. /\ Mine[s] \in Seq(Values) /\ Len(Mine[s]) = Len(stk[s]) - 1
      /\ \A i \in 1..Len(stk[s])-1 : Mine[s][i] = stk[s][i + 1]
  BY <1>1, <1>2, TailParts
<1>4. Len(Mine[s]) \in Nat /\ (Mine[s] = <<>> <=> Len(Mine[s]) = 0)
  BY <1>3, SeqParts
<1> QED BY <1>1, <1>2, <1>3, <1>4

\* The client's values from the top, and what is left without the upper ones.
LEMMA FromTheTop ==
  ASSUME IInv, NEW s \in States, NEW n \in 1..Len(stk[s])-1
  PROVE  View!FromTop(s, n) = stk[s][Len(stk[s]) + 1 - n]
<1> DEFINE i == Len(Mine[s]) + 1 - n
<1>1. i \in 1..Len(stk[s])-1 /\ i + 1 = Len(stk[s]) + 1 - n
  BY MineParts
<1>2. Mine[s][i] = stk[s][i + 1]
  BY <1>1, MineParts
<1>3. View!FromTop(s, n) = Mine[s][i]
  BY DEF View!FromTop, Mine
<1> HIDE DEF i
<1> QED BY <1>1, <1>2, <1>3

LEMMA WithoutTop ==
  ASSUME IInv, NEW s \in States, NEW n \in 0..Len(stk[s])-1
  PROVE  Frame(Dropped(stk[s], n)) /\ View!Without(s, n) = Tail(Dropped(stk[s], n))
<1> DEFINE q == stk[s]
           d == Dropped(q, n)
           m == Mine[s]
           w == SubSeq(m, 1, Len(m) - n)
           t == Tail(d)
<1>0. q \in Seq(Values) /\ Len(q) \in Nat /\ q[1] = Nil /\ n \in 0..Len(q) /\ n < Len(q) /\ n \in Nat
  BY FrameOf DEF Frame
<1>1. m \in Seq(Values) /\ Len(m) = Len(q) - 1 /\ \A i \in 1..Len(q)-1 : m[i] = q[i + 1]
  BY MineParts
<1>2. View!Without(s, n) = w
  BY DEF View!Without, Mine
<1> HIDE DEF q, m
<1>3. d \in Seq(Values) /\ Len(d) = Len(q) - n /\ \A i \in 1..Len(q)-n : d[i] = q[i]
  BY <1>0, DropParts
<1> HIDE DEF d
<1>4. d # <<>> /\ d[1] = Nil
  <2>1. 1 \in 1..Len(q)-n /\ Len(d) # 0
    BY <1>0, <1>3
  <2> QED BY <1>0, <1>3, <2>1, SeqParts
<1>5. t \in Seq(Values) /\ Len(t) = Len(d) - 1 /\ \A i \in 1..Len(d)-1 : t[i] = d[i + 1]
  BY <1>3, <1>4, TailParts
<1>6. Len(m) - n \in 0..Len(m)
  BY <1>0, <1>1
<1>7. w \in Seq(Values) /\ Len(w) = Len(m) - n /\ \A i \in 1..Len(m)-n : w[i] = m[i]
  BY <1>1, <1>6, PrefixParts
<1> HIDE DEF w, t
<1>8. Len(w) = Len(t) /\ \A i \in 1..Len(w) : w[i] = t[i]
  <2>1. Len(w) = Len(q) - 1 - n /\ Len(t) = Len(q) - n - 1
    BY <1>0, <1>1, <1>3, <1>5, <1>7
  <2>2. ASSUME NEW i \in 1..Len(w) PROVE w[i] = t[i]
    <3>1. i \in 1..Len(m)-n /\ i \in 1..Len(q)-1 /\ i \in 1..Len(d)-1 /\ i + 1 \in 1..Len(q)-n
      BY <1>0, <1>1, <1>3, <1>7, <2>1
    <3> QED BY <1>1, <1>3, <1>5, <1>7, <3>1
  <2> QED BY <1>0, <2>1, <2>2
<1>9. w = t
  BY <1>5, <1>7, <1>8, SameSeq
<1> QED BY <1>2, <1>3, <1>4, <1>9 DEF Frame, d, t, q
-----------------------------------------------------------------------------
-----------------------------------------------------------------------------
(* The effects of ClientView. *)

LEMMA Same ==
  ASSUME IInv, NEW L \in States, NEW T, NEW M, NEW R, TypedData(T, M, R),
         NEW rs, Becomes(Ended(L, stk[L], T, M, R, rs))
  PROVE  IInv' /\ View!LeavesAll /\ tab' = T /\ meta' = M /\ reg' = R /\ ret' = rs
<1>1. /\ IInv' /\ Mine' = [Mine EXCEPT ![L] = Tail(stk[L])]
      /\ tab' = T /\ meta' = M /\ reg' = R /\ ret' = rs
  <2>1. Frame(stk[L])
    BY FrameOf
  <2> QED BY <2>1, Leaves
<1>3. Mine' = Mine
  BY <1>1, MineParts DEF Mine
<1> QED BY <1>1, <1>3 DEF View!LeavesAll, Mine

LEMMA SeesPush ==
  ASSUME IInv, NEW L \in States, NEW v \in Values,
         Becomes(Ended(L, Append(stk[L], v), tab, meta, reg, <<"none">>))
  PROVE  IInv' /\ View!Pushes(L, v)
<1>1. Frame(Append(stk[L], v)) /\ Tail(Append(stk[L], v)) = Append(Mine[L], v)
  BY FrameOf, Grows, MineParts
<1>0. TypedData(tab, meta, reg)
  BY FrameOf
<1>2. /\ IInv' /\ Mine' = [Mine EXCEPT ![L] = Append(Mine[L], v)] /\ ret' = <<"none">>
      /\ tab' = tab /\ meta' = meta /\ reg' = reg
  BY <1>0, <1>1, Leaves
<1> QED BY <1>2 DEF View!Pushes, View!KeepsData, View!KeepsTables, View!Leaves, Mine

LEMMA SeesAnswer ==
  ASSUME IInv, NEW L \in States, NEW rs, Becomes(Ended(L, stk[L], tab, meta, reg, rs))
  PROVE  IInv' /\ View!Answers(rs)
<1>1. IInv' /\ View!LeavesAll /\ ret' = rs /\ tab' = tab /\ meta' = meta /\ reg' = reg
  BY FrameOf, Same
<1> QED BY <1>1 DEF View!Answers, View!KeepsData, View!KeepsTables

LEMMA SeesThrow ==
  ASSUME IInv, NEW L \in States, NEW q, Frame(q), NEW pushed, Tail(q) = Mine[L] \o pushed,
         Becomes(Ended(L, q, tab, meta, reg, <<"thrown">>))
  PROVE  IInv' /\ View!Throws(L, pushed)
<1>1. /\ IInv' /\ Mine' = [Mine EXCEPT ![L] = Mine[L] \o pushed] /\ ret' = <<"thrown">>
      /\ tab' = tab /\ meta' = meta /\ reg' = reg
  BY FrameOf, Leaves
<1> QED BY <1>1 DEF View!Throws, View!KeepsData, View!KeepsTables, View!Leaves, Mine

LEMMA SeesThrow0 ==
  ASSUME IInv, NEW L \in States, Becomes(Ended(L, stk[L], tab, meta, reg, <<"thrown">>))
  PROVE  IInv' /\ View!Throws(L, <<>>)
<1>1. Mine[L] \in Seq(Values) /\ Tail(stk[L]) = Mine[L]
  BY MineParts
<1>2. Tail(stk[L]) = Mine[L] \o <<>>
  BY <1>1
<1> QED BY <1>2, FrameOf, SeesThrow

LEMMA SeesThrow1 ==
  ASSUME IInv, NEW L \in States, NEW k \in Values,
         Becomes(Ended(L, Append(stk[L], k), tab, meta, reg, <<"thrown">>))
  PROVE  IInv' /\ View!Throws(L, <<k>>)
<1>1. Mine[L] \in Seq(Values) /\ Tail(stk[L]) = Mine[L]
  BY MineParts
<1>2. Frame(Append(stk[L], k)) /\ Tail(Append(stk[L], k)) = Append(Mine[L], k)
  BY <1>1, FrameOf, Grows
<1>3. Append(Mine[L], k) = Mine[L] \o <<k>>
  BY <1>1
<1> QED BY <1>2, <1>3, SeesThrow

LEMMA SeesThrow2 ==
  ASSUME IInv, NEW L \in States, NEW t \in Values, NEW k \in Values,
         Becomes(Ended(L, Append(Append(stk[L], t), k), tab, meta, reg, <<"thrown">>))
  PROVE  IInv' /\ View!Throws(L, <<t, k>>)
<1>1. Mine[L] \in Seq(Values) /\ Tail(stk[L]) = Mine[L]
  BY MineParts
<1>2. Frame(Append(stk[L], t)) /\ Tail(Append(stk[L], t)) = Append(Mine[L], t)
  BY <1>1, FrameOf, Grows
<1>3. /\ Frame(Append(Append(stk[L], t), k))
      /\ Tail(Append(Append(stk[L], t), k)) = Append(Append(Mine[L], t), k)
  BY <1>2, Grows
<1>4. Append(Append(Mine[L], t), k) = Mine[L] \o <<t, k>>
  BY <1>1, TwoMore
<1> QED BY <1>3, <1>4, SeesThrow

LEMMA StoreTyped ==
  ASSUME TypedData(tab, meta, reg), NEW v \in Values
  PROVE  /\ \A t \in Tables, k \in Keys : TypedData([tab EXCEPT ![t][k] = v], meta, reg)
         /\ \A k \in Keys : TypedData(tab, meta, [reg EXCEPT ![k] = v])
         /\ \A t \in Tables, m \in Tables \cup {Nil} : TypedData(tab, [meta EXCEPT ![t] = m], reg)
<1>1. ASSUME NEW t \in Tables, NEW k \in Keys
      PROVE  [tab EXCEPT ![t][k] = v] \in [Tables -> [Keys -> Values]]
  <2>1. tab[t] \in [Keys -> Values]
    BY DEF TypedData
  <2>2. [tab[t] EXCEPT ![k] = v] \in [Keys -> Values]
    BY <2>1
  <2> QED BY <2>2 DEF TypedData
<1> QED BY <1>1 DEF TypedData

LEMMA SeesSet ==
  ASSUME IInv, NEW L \in States, NEW t \in Tables, NEW k \in Keys, NEW v \in Values,
         Becomes(Ended(L, stk[L], [tab EXCEPT ![t][k] = v], meta, reg, <<"none">>))
  PROVE  IInv' /\ View!Stores(t, k, v)
<1>1. TypedData([tab EXCEPT ![t][k] = v], meta, reg)
  BY FrameOf, StoreTyped
<1>2. /\ IInv' /\ View!LeavesAll /\ ret' = <<"none">>
      /\ tab' = [tab EXCEPT ![t][k] = v] /\ meta' = meta /\ reg' = reg
  BY <1>1, Same
<1> QED BY <1>2 DEF View!Stores, View!Stored

\* A call ends at the first of its arguments that is refused.
LEMMA InterruptedAt ==
  ASSUME NEW s, NEW xs, NEW i \in DOMAIN xs, Stranger(xs[i]), \A j \in 1..i-1 : ~Stranger(xs[j]),
         NEW w, w = [j \in 1..i-1 |-> xs[j].val], View!Throws(s, w)
  PROVE  View!Interrupted(s, xs)
BY DEF View!Interrupted, View!Refused, Stranger

LEMMA PushedParts ==
  ASSUME NEW xs
  PROVE  /\ <<>> = [j \in 1..1-1 |-> xs[j].val]
         /\ <<xs[1].val>> = [j \in 1..2-1 |-> xs[j].val]
         /\ <<xs[1].val, xs[2].val>> = [j \in 1..3-1 |-> xs[j].val]
<1>1. 1..1-1 = {} /\ 1..2-1 = {1} /\ 1..3-1 = {1, 2}
  OBVIOUS
<1> QED BY <1>1

LEMMA OneArgument ==
  ASSUME NEW s, NEW x
  PROVE  /\ ~Stranger(x) <=> View!Accepted(<<x>>)
         /\ Stranger(x) /\ View!Throws(s, <<>>) => View!Interrupted(s, <<x>>)
<1> DEFINE xs == <<x>>
<1>1. DOMAIN xs = {1} /\ xs[1] = x
  OBVIOUS
<1> HIDE DEF xs
<1>2. ~Stranger(x) <=> View!Accepted(xs)
  BY <1>1 DEF View!Accepted, View!Refused, Stranger
<1>3. ASSUME Stranger(x), View!Throws(s, <<>>) PROVE View!Interrupted(s, xs)
  <2>1. Stranger(xs[1]) /\ 1 \in DOMAIN xs /\ \A j \in 1..1-1 : ~Stranger(xs[j])
    BY <1>1, <1>3
  <2>2. PICK w : w = <<>>
    OBVIOUS
  <2>3. w = [j \in 1..1-1 |-> xs[j].val]
    BY <2>2, PushedParts
  <2>4. View!Throws(s, w)
    BY <1>3, <2>2
  <2> QED BY <2>1, <2>3, <2>4, InterruptedAt
<1> QED BY <1>2, <1>3 DEF xs

LEMMA TwoArguments ==
  ASSUME NEW s, NEW y, NEW x
  PROVE  /\ ~Stranger(y) /\ ~Stranger(x) <=> View!Accepted(<<y, x>>)
         /\ Stranger(y) /\ View!Throws(s, <<>>) => View!Interrupted(s, <<y, x>>)
         /\ ~Stranger(y) /\ Stranger(x) /\ View!Throws(s, <<y.val>>)
              => View!Interrupted(s, <<y, x>>)
<1> DEFINE xs == <<y, x>>
<1>1. DOMAIN xs = {1, 2} /\ xs[1] = y /\ xs[2] = x
  OBVIOUS
<1> HIDE DEF xs
<1>2. ~Stranger(y) /\ ~Stranger(x) <=> View!Accepted(xs)
  BY <1>1 DEF View!Accepted, View!Refused, Stranger
<1>3. ASSUME Stranger(y), View!Throws(s, <<>>) PROVE View!Interrupted(s, xs)
  <2>1. Stranger(xs[1]) /\ 1 \in DOMAIN xs /\ \A j \in 1..1-1 : ~Stranger(xs[j])
    BY <1>1, <1>3
  <2>2. PICK w : w = <<>>
    OBVIOUS
  <2>3. w = [j \in 1..1-1 |-> xs[j].val]
    BY <2>2, PushedParts
  <2>4. View!Throws(s, w)
    BY <1>3, <2>2
  <2> QED BY <2>1, <2>3, <2>4, InterruptedAt
<1>4. ASSUME ~Stranger(y), Stranger(x), View!Throws(s, <<y.val>>) PROVE View!Interrupted(s, xs)
  <2>1. Stranger(xs[2]) /\ 2 \in DOMAIN xs /\ \A j \in 1..2-1 : ~Stranger(xs[j])
    <3>1. 1..2-1 = {1}
      OBVIOUS
    <3> QED BY <1>1, <1>4, <3>1
  <2>2. PICK w : w = <<y.val>>
    OBVIOUS
  <2>3. w = [j \in 1..2-1 |-> xs[j].val]
    BY <1>1, <2>2, PushedParts
  <2>4. View!Throws(s, w)
    BY <1>4, <2>2
  <2> QED BY <2>1, <2>3, <2>4, InterruptedAt
<1> QED BY <1>2, <1>3, <1>4 DEF xs

LEMMA ThreeArguments ==
  ASSUME NEW s, NEW h, NEW y, NEW x, ~Stranger(h)
  PROVE  /\ ~Stranger(y) /\ ~Stranger(x) <=> View!Accepted(<<h, y, x>>)
         /\ Stranger(y) /\ View!Throws(s, <<h.val>>) => View!Interrupted(s, <<h, y, x>>)
         /\ ~Stranger(y) /\ Stranger(x) /\ View!Throws(s, <<h.val, y.val>>)
              => View!Interrupted(s, <<h, y, x>>)
<1> DEFINE xs == <<h, y, x>>
<1>1. DOMAIN xs = {1, 2, 3} /\ xs[1] = h /\ xs[2] = y /\ xs[3] = x
  OBVIOUS
<1> HIDE DEF xs
<1>2. ~Stranger(y) /\ ~Stranger(x) <=> View!Accepted(xs)
  BY <1>1 DEF View!Accepted, View!Refused, Stranger
<1>3. ASSUME Stranger(y), View!Throws(s, <<h.val>>) PROVE View!Interrupted(s, xs)
  <2>1. Stranger(xs[2]) /\ 2 \in DOMAIN xs /\ \A j \in 1..2-1 : ~Stranger(xs[j])
    <3>1. 1..2-1 = {1}
      OBVIOUS
    <3> QED BY <1>1, <1>3, <3>1
  <2>2. PICK w : w = <<h.val>>
    OBVIOUS
  <2>3. w = [j \in 1..2-1 |-> xs[j].val]
    BY <1>1, <2>2, PushedParts
  <2>4. View!Throws(s, w)
    BY <1>3, <2>2
  <2> QED BY <2>1, <2>3, <2>4, InterruptedAt
<1>4. ASSUME ~Stranger(y), Stranger(x), View!Throws(s, <<h.val, y.val>>)
      PROVE  View!Interrupted(s, xs)
  <2>1. Stranger(xs[3]) /\ 3 \in DOMAIN xs /\ \A j \in 1..3-1 : ~Stranger(xs[j])
    <3>1. 1..3-1 = {1, 2}
      OBVIOUS
    <3> QED BY <1>1, <1>4, <3>1
  <2>2. PICK w : w = <<h.val, y.val>>
    OBVIOUS
  <2>3. w = [j \in 1..3-1 |-> xs[j].val]
    BY <1>1, <2>2, PushedParts
  <2>4. View!Throws(s, w)
    BY <1>4, <2>2
  <2> QED BY <2>1, <2>3, <2>4, InterruptedAt
<1> QED BY <1>2, <1>3, <1>4 DEF xs

LEMMA UpperParts ==
  ASSUME NEW S, NEW q \in Seq(S), NEW k \in 0..Len(q)
  PROVE  LET a == SubSeq(q, Len(q) - k + 1, Len(q))
         IN  a \in Seq(S) /\ Len(a) = k /\ \A i \in 1..k : a[i] = q[Len(q) - k + i]
<1>1. Len(q) \in Nat
  BY SeqParts
<1>2. Len(q) - k + 1 \in 1..Len(q)+1
  BY <1>1
<1> QED BY <1>1, <1>2

LEMMA TopValues ==
  ASSUME IInv, NEW s \in States, NEW k \in 0..Len(stk[s])-1
  PROVE  SubSeq(stk[s], Len(stk[s]) - k + 1, Len(stk[s]))
           = SubSeq(Mine[s], Len(Mine[s]) - k + 1, Len(Mine[s]))
<1> DEFINE q == stk[s]
           m == Mine[s]
           a == SubSeq(q, Len(q) - k + 1, Len(q))
           b == SubSeq(m, Len(m) - k + 1, Len(m))
<1>0. q \in Seq(Values) /\ Len(q) \in Nat /\ Len(q) >= 1 /\ k \in Nat
  BY FrameOf
<1>1. m \in Seq(Values) /\ Len(m) = Len(q) - 1 /\ \A i \in 1..Len(q)-1 : m[i] = q[i + 1]
  BY MineParts
<1> HIDE DEF q, m
<1>2. a \in Seq(Values) /\ Len(a) = k /\ \A i \in 1..k : a[i] = q[Len(q) - k + i]
  BY <1>0, UpperParts DEF q
<1>3. b \in Seq(Values) /\ Len(b) = k /\ \A i \in 1..k : b[i] = m[Len(m) - k + i]
  <2>1. k \in 0..Len(m)
    BY <1>0, <1>1 DEF q
  <2> QED BY <1>1, <2>1, UpperParts
<1> HIDE DEF a, b
<1>4. ASSUME NEW i \in 1..k PROVE a[i] = b[i]
  <2>1. Len(m) - k + i \in 1..Len(q)-1 /\ Len(m) - k + i + 1 = Len(q) - k + i
    BY <1>0, <1>1 DEF q
  <2> QED BY <1>1, <1>2, <1>3, <2>1
<1>5. a = b
  BY <1>2, <1>3, <1>4, SameSeq
<1> QED BY <1>5 DEF a, b, q, m
-----------------------------------------------------------------------------
(* core::Lua: push and pop, globals. *)

LEMMA HoldsParts ==
  ASSUME IInv, NEW L \in States
  PROVE  /\ stackSize(Machine, L) = Len(stk[L]) - 1
         /\ \A n \in Nat : Holds(L, n) <=> n \in 0..Len(stk[L])-1
<1>1. Machine.stk = stk
  BY DEF Machine
<1>2. Len(stk[L]) \in Nat
  BY FrameOf
<1> QED BY <1>1, <1>2 DEF Holds, stackSize

LEMMA PoppedParts ==
  ASSUME Frames, NEW L \in States, NEW q \in Seq(Values), NEW T, NEW M, NEW R, q # <<>>
  PROVE  /\ Popped(Now(L, q, T, M, R), L) = [val |-> q[Len(q)], at |-> L]
         /\ q[Len(q)] \in Values
<1>0. Len(q) \in Nat /\ 1 <= Len(q) /\ Len(q) + 1 - 1 = Len(q) /\ q[Len(q)] \in Values
  BY SeqParts
<1>1. Reaches(Now(L, q, T, M, R), L, 1) /\ Top(Now(L, q, T, M, R), L, 1) = q[Len(q)]
  BY <1>0, TopParts
<1> QED BY <1>0, <1>1 DEF Popped

LEMMA PoppedLast ==
  ASSUME Frames, NEW L \in States, NEW q \in Seq(Values), NEW T, NEW M, NEW R, NEW v \in Values
  PROVE  Popped(Now(L, Append(q, v), T, M, R), L) = [val |-> v, at |-> L]
<1> DEFINE p == Append(q, v)
<1>1. p \in Seq(Values) /\ Len(p) = Len(q) + 1 /\ Len(q) \in Nat /\ p[Len(q) + 1] = v
  BY OnTop
<1> HIDE DEF p
<1>2. p # <<>>
  BY <1>1, SeqParts
<1>3. Popped(Now(L, p, T, M, R), L) = [val |-> p[Len(p)], at |-> L]
  BY <1>1, <1>2, PoppedParts
<1> QED BY <1>1, <1>3 DEF p

\* A value on top is read and popped, or its reader throws and it stays.
LEMMA ReadsAndPops ==
  ASSUME Frames, NEW L \in States, NEW q \in Seq(Values), NEW T, NEW M, NEW R, NEW v \in Values,
         NEW C, ~View!Unreadable(C, v)
  PROVE  ReadAndPop(Now(L, Append(q, v), T, M, R), L, C) = Ended(L, q, T, M, R, <<View!As(C, v)>>)
<1> DEFINE m == Now(L, Append(q, v), T, M, R)
<1>1. Popped(m, L).val = v
  BY PoppedLast
<1>2. lua_pop(m, L, 1) = Now(L, q, T, M, R)
  BY Pops1
<1>3. \A r : Return(Now(L, q, T, M, R), r) = Ended(L, q, T, M, R, <<r>>)
  BY Returns
<1>4. ~readThrows(C, v) /\ View!As(C, v) = readAt(C, v)
  BY DEF View!Unreadable, View!As, readThrows, readAt
<1> HIDE DEF m
<1>5. ReadAndPop(m, L, C) = Return(lua_pop(m, L, 1), readAt(C, v))
  BY <1>1, <1>4 DEF ReadAndPop
<1> QED BY <1>2, <1>3, <1>4, <1>5 DEF m

LEMMA ReaderThrows ==
  ASSUME Frames, NEW L \in States, NEW q \in Seq(Values), NEW T, NEW M, NEW R, q # <<>>,
         NEW C, View!Unreadable(C, q[Len(q)])
  PROVE  ReadAndPop(Now(L, q, T, M, R), L, C) = Ended(L, q, T, M, R, <<"thrown">>)
<1> DEFINE m == Now(L, q, T, M, R)
<1>1. Popped(m, L).val = q[Len(q)]
  BY PoppedParts
<1>2. m.st = "ok" /\ Fail(m, "thrown") = Broken(L, q, T, M, R)
  BY NowParts, BrokenParts
<1>3. Return(Broken(L, q, T, M, R), "none") = Ended(L, q, T, M, R, <<"thrown">>)
  BY Throws
<1>4. readThrows(C, q[Len(q)])
  BY DEF View!Unreadable, readThrows
<1> HIDE DEF m
<1>5. ReadAndPop(m, L, C) = Return(Fail(m, "thrown"), "none")
  BY <1>1, <1>2, <1>4 DEF ReadAndPop
<1> QED BY <1>2, <1>3, <1>5 DEF m

LEMMA SeesRead ==
  ASSUME IInv, NEW L \in States, NEW v \in Values, NEW C,
         Becomes(ReadAndPop(Now(L, Append(stk[L], v), tab, meta, reg), L, C))
  PROVE  IInv' /\ View!Reads(L, C, v)
<1>1. Frames /\ stk[L] \in Seq(Values)
  BY FrameOf
<1>2. CASE View!Unreadable(C, v)
  <2> DEFINE p == Append(stk[L], v)
  <2>1. p \in Seq(Values) /\ p # <<>> /\ p[Len(p)] = v
    BY <1>1, AppendParts, SeqParts
  <2>0. Becomes(ReadAndPop(Now(L, p, tab, meta, reg), L, C))
    OBVIOUS
  <2> HIDE DEF p
  <2>2. View!Unreadable(C, p[Len(p)])
    BY <1>2, <2>1
  <2>3. ReadAndPop(Now(L, p, tab, meta, reg), L, C) = Ended(L, p, tab, meta, reg, <<"thrown">>)
    BY <1>1, <2>1, <2>2, ReaderThrows
  <2>4. Becomes(Ended(L, p, tab, meta, reg, <<"thrown">>))
    BY <2>0, <2>3
  <2>5. IInv' /\ View!Throws(L, <<v>>)
    BY <2>4, SeesThrow1 DEF p
  <2> QED BY <1>2, <2>5 DEF View!Reads
<1>3. CASE ~View!Unreadable(C, v)
  <2>1. Becomes(Ended(L, stk[L], tab, meta, reg, <<View!As(C, v)>>))
    BY <1>1, <1>3, ReadsAndPops
  <2>2. IInv' /\ View!Answers(<<View!As(C, v)>>)
    BY <2>1, SeesAnswer
  <2> QED BY <1>3, <2>2 DEF View!Reads
<1> QED BY <1>2, <1>3

\* Lua::push: a reference goes on the stack it is bound to.
LEMMA PushKeeps ==
  ASSUME IInv, NEW L \in States, NEW x \in Arguments, Becomes(push(Machine, L, x))
  PROVE  IInv' /\ View!Push(L, x)
<1> DEFINE to == IF x.val \in Tables THEN x.at ELSE L
<1>0. x.val \in Values /\ x.at \in States \cup Foreign
  BY DEF Arguments
<1>1. ASSUME to \in States, ~Stranger(x), pushOnto(Machine, x, L) = lua_push(Machine, to, x.val)
      PROVE  IInv' /\ View!Push(L, x)
  <2> HIDE DEF to
  <2>1. Frames /\ Machine = Now(to, stk[to], tab, meta, reg)
    BY <1>1, FrameOf
  <2>2. lua_push(Machine, to, x.val) = Now(to, Append(stk[to], x.val), tab, meta, reg)
    BY <1>1, <2>1, Pushes
  <2>3. push(Machine, L, x) = Ended(to, Append(stk[to], x.val), tab, meta, reg, <<"none">>)
    BY <1>1, <2>1, <2>2, Returns DEF push
  <2>4. Becomes(Ended(to, Append(stk[to], x.val), tab, meta, reg, <<"none">>))
    BY <2>3
  <2>5. IInv' /\ View!Pushes(to, x.val)
    BY <1>0, <1>1, <2>4, SeesPush
  <2>6. View!Accepted(<<x>>)
    BY <1>1, OneArgument
  <2> QED BY <2>5, <2>6 DEF View!Push, to
<1>2. CASE Stranger(x)
  <2>1. Frames /\ Machine = Now(L, stk[L], tab, meta, reg)
    BY FrameOf
  <2>2. push(Machine, L, x) = Ended(L, stk[L], tab, meta, reg, <<"thrown">>)
    BY <1>2, <2>1, PushThrows, Throws DEF push
  <2>3. IInv' /\ View!Throws(L, <<>>)
    BY <2>2, SeesThrow0
  <2> QED BY <1>2, <2>3, OneArgument DEF View!Push
<1>3. CASE x.val \notin Tables
  BY <1>1, <1>3 DEF pushOnto, Stranger
<1>4. CASE x.val \in Tables /\ x.at \in States
  <2>1. x.at \notin Foreign
    BY <1>4, ForeignAssumption
  <2>2. pushOnto(Machine, x, L) = lua_push(Machine, x.at, x.val)
    BY <1>4, <2>1 DEF pushOnto, pushReference
  <2> QED BY <1>1, <1>4, <2>1, <2>2 DEF Stranger
<1> QED BY <1>0, <1>2, <1>3, <1>4 DEF Stranger

\* Lua::popStack: what the reader throws at is left.
LEMMA PopStackKeeps ==
  ASSUME IInv, NEW L \in States, NEW C, Holds(L, 1), Becomes(popStack(Machine, L, C))
  PROVE  IInv' /\ View!PopStack(L, C)
<1> DEFINE q == stk[L]
           p == Dropped(q, 1)
           v == q[Len(q)]
<1>1. /\ Frames /\ q \in Seq(Values) /\ TypedData(tab, meta, reg)
      /\ Machine = Now(L, q, tab, meta, reg)
  BY FrameOf
<1>2. 1 \in 0..Len(q)-1 /\ 1 \in 1..Len(q)-1 /\ Len(q) >= 2 /\ Len(q) \in Nat
  BY HoldsParts, FrameOf
<1>3. p \in Seq(Values) /\ v \in Values /\ q = Append(p, v)
  BY <1>1, <1>2, LastOne
<1>4. Frame(p) /\ View!Without(L, 1) = Tail(p) /\ View!FromTop(L, 1) = v
  BY <1>2, WithoutTop, FromTheTop
<1>5. Mine[L] # <<>>
  BY <1>2, MineParts
<1> HIDE DEF p, v
<1>6. CASE View!Unreadable(C, v)
  <2>1. popStack(Machine, L, C) = Ended(L, q, tab, meta, reg, <<"thrown">>)
    <3>1. q # <<>>
      BY <1>1, FrameOf DEF Frame
    <3>2. View!Unreadable(C, q[Len(q)])
      BY <1>6 DEF v
    <3> HIDE DEF q
    <3> QED BY <1>1, <3>1, <3>2, ReaderThrows DEF popStack
  <2>2. IInv' /\ View!Throws(L, <<>>)
    BY <2>1, SeesThrow0
  <2> QED BY <1>4, <1>5, <1>6, <2>2 DEF View!PopStack, Mine
<1>7. CASE ~View!Unreadable(C, v)
  <2>1. popStack(Machine, L, C) = Ended(L, p, tab, meta, reg, <<View!As(C, v)>>)
    <3> HIDE DEF q
    <3> QED BY <1>1, <1>3, <1>7, ReadsAndPops DEF popStack
  <2>2. /\ IInv' /\ Mine' = [Mine EXCEPT ![L] = Tail(p)]
        /\ tab' = tab /\ meta' = meta /\ reg' = reg /\ ret' = <<View!As(C, v)>>
    BY <1>1, <1>4, <2>1, Leaves
  <2> QED BY <1>4, <1>5, <1>7, <2>2
          DEF View!PopStack, View!KeepsData, View!KeepsTables, View!Leaves, Mine
<1> QED BY <1>6, <1>7

\* Lua::multiPop takes no more than there is.
LEMMA MultiPopKeeps ==
  ASSUME IInv, NEW L \in States, NEW n \in 0..MaxStack, Becomes(multiPop(Machine, L, n))
  PROVE  IInv' /\ View!MultiPop(L, n)
<1> DEFINE q == stk[L]
           k == IF n < Len(q) - 1 THEN n ELSE Len(q) - 1
           top == SubSeq(q, Len(q) - k + 1, Len(q))
           p == Dropped(q, k)
<1>1. /\ Frames /\ q \in Seq(Values) /\ TypedData(tab, meta, reg)
      /\ Machine = Now(L, q, tab, meta, reg) /\ Len(q) \in Nat /\ Len(q) >= 1
  BY FrameOf
<1>2. k \in 0..Len(q)-1 /\ k \in 0..Len(q) /\ k \in Nat /\ ~(k < 0)
  BY <1>1, FrameAssumption
<1>3. Frame(p) /\ View!Without(L, k) = Tail(p)
  BY <1>2, WithoutTop
<1>4. multiPop(Machine, L, n) = Ended(L, p, tab, meta, reg, top)
  <2>1. stackSize(Machine, L) = Len(q) - 1 /\ Machine.stk[L] = q
    BY HoldsParts DEF Machine
  <2>2. multiPop(Machine, L, n) = ReturnAll(lua_pop(Machine, L, k), top)
    <3> DEFINE j == IF n < stackSize(Machine, L) THEN n ELSE stackSize(Machine, L)
    <3>1. j = k
      BY <2>1
    <3>2. multiPop(Machine, L, n)
            = IF j < 0 THEN Return(Fail(Machine, "thrown"), "none")
              ELSE ReturnAll(lua_pop(Machine, L, j),
                             SubSeq(Machine.stk[L], Len(Machine.stk[L]) - j + 1, Len(Machine.stk[L])))
      BY DEF multiPop
    <3> HIDE DEF j, k
    <3> QED BY <1>2, <2>1, <3>1, <3>2
  <2>3. lua_pop(Machine, L, k) = Now(L, p, tab, meta, reg)
    <3> HIDE DEF k
    <3> QED BY <1>1, <1>2, PopsMany
  <2>5. Frames
    BY FrameOf
  <2> HIDE DEF k, p, top, q
  <2>4. ReturnAll(Now(L, p, tab, meta, reg), top) = Ended(L, p, tab, meta, reg, top)
    BY <2>5, ReturnsAll
  <2> QED BY <2>2, <2>3, <2>4
<1> HIDE DEF k, p, top
<1>a. Becomes(Ended(L, p, tab, meta, reg, top))
  BY <1>4
<1>5. /\ IInv' /\ Mine' = [Mine EXCEPT ![L] = Tail(p)]
      /\ tab' = tab /\ meta' = meta /\ reg' = reg /\ ret' = top
  BY <1>1, <1>3, <1>a, Leaves
<1>6. top = SubSeq(Mine[L], Len(Mine[L]) - k + 1, Len(Mine[L]))
  BY <1>1, <1>2, TopValues DEF top
<1>7. Len(Mine[L]) = Len(q) - 1
  BY MineParts
<1>8. k = IF n < Len(Mine[L]) THEN n ELSE Len(Mine[L])
  BY <1>7 DEF k
<1> QED BY <1>3, <1>5, <1>6, <1>8
        DEF View!MultiPop, View!KeepsData, View!KeepsTables, View!Leaves, Mine

LEMMA NilHandle ==
  ASSUME NEW L \in States
  PROVE  /\ [val |-> Nil, at |-> L] \in AtHand(L) /\ ~Stranger([val |-> Nil, at |-> L])
         /\ Nil \in Values /\ Nil \notin Tables
<1>1. Nil \in Values /\ Nil \notin Tables
  BY ApiAssumption DEF Values
<1> QED BY <1>1 DEF AtHand, BoundTo, Arguments, Stranger

LEMMA NameParts ==
  ASSUME NEW k \in Names
  PROVE  k \in Keys /\ k \in Values /\ k # Nil
BY FrameAssumption DEF Keys

LEMMA DataParts ==
  ASSUME IInv, NEW k \in Keys
  PROVE  /\ \A t \in Tables : tab[t][k] \in Values
         /\ reg[k] \in Values
         /\ Globals \in Tables /\ Globals \in Values
<1>1. \A t \in Tables : tab[t] \in [Keys -> Values]
  BY DEF IInv, Data
<1>2. \A t \in Tables : tab[t][k] \in Values
  BY <1>1
<1>3. reg[k] \in Values
  BY DEF IInv, Data
<1>4. Globals \in Tables /\ Globals \in Values
  BY ApiAssumption DEF Values
<1> QED BY <1>2, <1>3, <1>4

LEMMA SetGlobalKeeps ==
  ASSUME IInv, NEW L \in States, NEW k \in Names, NEW x \in AtHand(L),
         Becomes(setGlobal(Machine, L, k, x))
  PROVE  IInv' /\ View!SetGlobal(L, k, x)
<1> DEFINE q == stk[L]
<1>0. Frames /\ q \in Seq(Values) /\ Machine = Now(L, q, tab, meta, reg)
  BY FrameOf
<1>1. CASE Stranger(x)
  <2> DEFINE m == Broken(L, q, tab, meta, reg)
  <2>1. pushOnto(Machine, x, L) = m
    BY <1>0, <1>1, PushThrows
  <2>2. m.st # "ok"
    BY <1>0, BrokenParts
  <2>3. Return(m, "none") = Ended(L, q, tab, meta, reg, <<"thrown">>)
    BY <1>0, Throws
  <2> HIDE DEF m
  <2>4. lua_setglobal(m, L, k) = m
    BY <2>2, Stops
  <2>5. Becomes(Ended(L, q, tab, meta, reg, <<"thrown">>))
    BY <2>1, <2>3, <2>4 DEF setGlobal
  <2>6. IInv' /\ View!Throws(L, <<>>)
    BY <2>5, SeesThrow0
  <2> QED BY <1>1, <2>6, OneArgument DEF View!SetGlobal
<1>2. CASE ~Stranger(x)
  <2> DEFINE T == [tab EXCEPT ![Globals][k] = x.val]
  <2>0. x.val \in Values
    BY ArgumentParts
  <2>1. pushOnto(Machine, x, L) = Now(L, Append(q, x.val), tab, meta, reg)
    BY <1>0, <1>2, PushesArgument
  <2>2. lua_setglobal(Now(L, Append(q, x.val), tab, meta, reg), L, k) = Now(L, q, T, meta, reg)
    BY <1>0, <2>0, Setglobal
  <2> HIDE DEF T
  <2>3. Return(Now(L, q, T, meta, reg), "none") = Ended(L, q, T, meta, reg, <<"none">>)
    BY <1>0, Returns
  <2>4. Becomes(Ended(L, q, T, meta, reg, <<"none">>))
    BY <2>1, <2>2, <2>3 DEF setGlobal
  <2>5. Globals \in Tables /\ k \in Keys
    BY ApiAssumption, NameParts
  <2>6. IInv' /\ View!Stores(Globals, k, x.val)
    BY <2>0, <2>4, <2>5, SeesSet DEF T
  <2> QED BY <1>2, <2>6, OneArgument DEF View!SetGlobal
<1> QED BY <1>1, <1>2

LEMMA EraseGlobalKeeps ==
  ASSUME IInv, NEW L \in States, NEW k \in Names, Becomes(eraseGlobal(Machine, L, k))
  PROVE  IInv' /\ View!Stores(Globals, k, Nil)
<1> DEFINE x == [val |-> Nil, at |-> L]
<1>1. x \in AtHand(L) /\ ~Stranger(x) /\ x.val = Nil
  BY NilHandle
<1>2. Becomes(setGlobal(Machine, L, k, x))
  BY DEF eraseGlobal
<1> HIDE DEF x
<1>3. IInv' /\ View!SetGlobal(L, k, x)
  BY <1>1, <1>2, SetGlobalKeeps
<1>4. ~View!Interrupted(L, <<x>>)
  <2> DEFINE xs == <<x>>
  <2>1. \A i \in DOMAIN xs : xs[i] = x
    OBVIOUS
  <2> HIDE DEF xs
  <2>2. ~View!Interrupted(L, xs)
    BY <1>1, <2>1 DEF View!Interrupted, View!Refused, Stranger
  <2> QED BY <2>2 DEF xs
<1> QED BY <1>1, <1>3, <1>4 DEF View!SetGlobal

LEMMA GetGlobalKeeps ==
  ASSUME IInv, NEW L \in States, NEW C, NEW k \in Names, NEW v, v = tab[Globals][k],
         Becomes(getGlobal(Machine, L, C, k))
  PROVE  IInv' /\ View!Reads(L, C, v)
<1> DEFINE q == stk[L]
<1>0. Frames /\ q \in Seq(Values) /\ Machine = Now(L, q, tab, meta, reg)
  BY FrameOf
<1>1. v \in Values
  BY NameParts, DataParts
<1>2. lua_getglobal(Machine, L, k) = Now(L, Append(q, v), tab, meta, reg)
  BY <1>0, Getglobal
<1>3. Becomes(ReadAndPop(Now(L, Append(q, v), tab, meta, reg), L, C))
  BY <1>2 DEF getGlobal
<1> QED BY <1>1, <1>3, SeesRead

LEMMA RetrieveGlobalKeeps ==
  ASSUME IInv, NEW L \in States, NEW k \in Names, NEW v, v = tab[Globals][k],
         Becomes(retrieveGlobal(Machine, L, k))
  PROVE  IInv' /\ View!Pushes(L, v)
<1> DEFINE q == stk[L]
<1>0. Frames /\ q \in Seq(Values) /\ Machine = Now(L, q, tab, meta, reg)
  BY FrameOf
<1>1. v \in Values
  BY NameParts, DataParts
<1>2. lua_getglobal(Machine, L, k) = Now(L, Append(q, v), tab, meta, reg)
  BY <1>0, Getglobal
<1>3. Return(Now(L, Append(q, v), tab, meta, reg), "none")
        = Ended(L, Append(q, v), tab, meta, reg, <<"none">>)
  BY <1>0, Returns
<1>4. Becomes(Ended(L, Append(q, v), tab, meta, reg, <<"none">>))
  BY <1>2, <1>3 DEF retrieveGlobal
<1> QED BY <1>1, <1>4, SeesPush

LEMMA RetrieveGlobalsTableKeeps ==
  ASSUME IInv, NEW L \in States, Becomes(retrieveGlobalsTable(Machine, L))
  PROVE  IInv' /\ View!Pushes(L, Globals)
<1> DEFINE q == stk[L]
<1>0. Frames /\ q \in Seq(Values) /\ Machine = Now(L, q, tab, meta, reg)
  BY FrameOf
<1>1. Globals \in Values
  BY ApiAssumption DEF Values
<1>2. lua_push(Machine, L, Globals) = Now(L, Append(q, Globals), tab, meta, reg)
  BY <1>0, Pushes
<1>3. Return(Now(L, Append(q, Globals), tab, meta, reg), "none")
        = Ended(L, Append(q, Globals), tab, meta, reg, <<"none">>)
  BY <1>0, Returns
<1>4. Becomes(Ended(L, Append(q, Globals), tab, meta, reg, <<"none">>))
  BY <1>2, <1>3 DEF retrieveGlobalsTable
<1> QED BY <1>1, <1>4, SeesPush

LEMMA ReturnsTable ==
  ASSUME Frames, NEW L \in States, NEW q \in Seq(Values), NEW T, NEW M, NEW R, NEW v \in Values
  PROVE  ReturnTable(Now(L, Append(q, v), T, M, R), L) = Ended(L, q, T, M, R, <<"table", v>>)
<1> DEFINE m == Now(L, Append(q, v), T, M, R)
<1>1. Popped(m, L).val = v
  BY PoppedLast
<1>2. lua_pop(m, L, 1) = Now(L, q, T, M, R)
  BY Pops1
<1>3. ReturnAll(Now(L, q, T, M, R), <<"table", v>>) = Ended(L, q, T, M, R, <<"table", v>>)
  BY ReturnsAll
<1> HIDE DEF m
<1>4. ReturnTable(m, L) = ReturnAll(Now(L, q, T, M, R), <<"table", v>>)
  BY <1>1, <1>2 DEF ReturnTable
<1> QED BY <1>3, <1>4 DEF m

LEMMA GetGlobalsTableKeeps ==
  ASSUME IInv, NEW L \in States, Becomes(getGlobalsTable(Machine, L))
  PROVE  IInv' /\ View!Answers(<<"table", Globals>>)
<1> DEFINE q == stk[L]
           rs == <<"table", Globals>>
<1>0. Frames /\ q \in Seq(Values) /\ Machine = Now(L, q, tab, meta, reg)
  BY FrameOf
<1>1. Globals \in Values
  BY ApiAssumption DEF Values
<1>2. lua_push(Machine, L, Globals) = Now(L, Append(q, Globals), tab, meta, reg)
  BY <1>0, Pushes
<1>3. getGlobalsTable(Machine, L) = Ended(L, q, tab, meta, reg, rs)
  BY <1>0, <1>1, <1>2, ReturnsTable DEF getGlobalsTable
<1>4. Becomes(Ended(L, q, tab, meta, reg, rs))
  BY <1>3
<1> HIDE DEF rs
<1>5. IInv' /\ View!Answers(rs)
  BY <1>4, SeesAnswer
<1> QED BY <1>5 DEF rs

\* Whatever index it is given.
LEMMA TypeKeeps ==
  ASSUME IInv, NEW L \in States, NEW idx, Becomes(type(Machine, L, idx))
  PROVE  IInv' /\ View!Type(L)
<1> DEFINE q == stk[L]
           v == q[Len(q)]
           rs == <<"type", v>>
<1>0. Frames /\ q \in Seq(Values) /\ Machine = Now(L, q, tab, meta, reg) /\ q # <<>>
      /\ q[1] = Nil /\ Len(q) \in Nat /\ Len(q) >= 1
  BY FrameOf DEF Frame
<1>1. Popped(Machine, L).val = v
  BY <1>0, PoppedParts
<1>2. v = IF Mine[L] = <<>> THEN Nil ELSE View!FromTop(L, 1)
  <2>1. CASE Len(q) = 1
    BY <1>0, <2>1, MineParts
  <2>2. CASE Len(q) # 1
    <3>0. Len(q) \in Nat /\ Len(q) >= 1
      BY FrameOf
    <3>1. 1 \in 1..Len(q)-1 /\ Len(q) + 1 - 1 = Len(q)
      <4> DEFINE n == Len(q)
      <4>1. n \in Nat /\ n >= 1 /\ n # 1
        BY <2>2, <3>0
      <4> HIDE DEF n
      <4>2. 1 \in 1..n-1 /\ n + 1 - 1 = n
        BY <4>1
      <4> QED BY <4>2 DEF n
    <3>2. View!FromTop(L, 1) = v
      BY <3>1, FromTheTop
    <3>3. Mine[L] # <<>>
      BY <2>2, MineParts
    <3> QED BY <3>2, <3>3
  <2> QED BY <2>1, <2>2
<1> HIDE DEF v
<1>3. type(Machine, L, idx) = ReturnAll(Machine, rs)
  BY <1>1 DEF type
<1>4. ReturnAll(Machine, rs) = Ended(L, q, tab, meta, reg, rs)
  BY <1>0, ReturnsAll
<1>5. Becomes(Ended(L, q, tab, meta, reg, rs))
  BY <1>3, <1>4
<1> HIDE DEF rs
<1>6. IInv' /\ View!Answers(rs)
  BY <1>5, SeesAnswer
<1> QED BY <1>2, <1>6 DEF View!Type, rs, Mine
-----------------------------------------------------------------------------
(* LuaRegistry. *)

LEMMA OneHeld ==
  ASSUME IInv, NEW L \in States, Holds(L, 1)
  PROVE  \E p \in Seq(Values), v \in Values :
           /\ stk[L] = Append(p, v) /\ Frame(p) /\ Tail(p) = View!Without(L, 1)
           /\ v = View!FromTop(L, 1) /\ Len(Mine[L]) >= 1 /\ Mine[L] # <<>>
<1> DEFINE q == stk[L]
           p == Dropped(q, 1)
           v == q[Len(q)]
<1>1. q \in Seq(Values)
  BY FrameOf
<1>2. 1 \in 0..Len(q)-1 /\ 1 \in 1..Len(q)-1 /\ Len(q) >= 2 /\ Len(q) \in Nat
  BY HoldsParts, FrameOf
<1>3. p \in Seq(Values) /\ v \in Values /\ q = Append(p, v)
  BY <1>1, <1>2, LastOne
<1>4. Frame(p) /\ View!Without(L, 1) = Tail(p)
  BY <1>2, WithoutTop
<1>5. View!FromTop(L, 1) = v
  BY <1>2, FromTheTop
<1>6. Len(Mine[L]) >= 1 /\ Mine[L] # <<>>
  BY <1>2, MineParts
<1> QED BY <1>3, <1>4, <1>5, <1>6

LEMMA TwoHeld ==
  ASSUME IInv, NEW L \in States, Holds(L, 2)
  PROVE  \E p \in Seq(Values), a \in Values, v \in Values :
           /\ stk[L] = Append(Append(p, a), v) /\ Frame(p) /\ Tail(p) = View!Without(L, 2)
           /\ v = View!FromTop(L, 1) /\ a = View!FromTop(L, 2) /\ Len(Mine[L]) >= 2
<1> DEFINE q == stk[L]
           o == Dropped(q, 1)
           v == q[Len(q)]
           p == Dropped(o, 1)
           a == o[Len(o)]
           r == Dropped(q, 2)
<1>1. q \in Seq(Values)
  BY FrameOf
<1>2. /\ 2 \in 0..Len(q)-1 /\ 1 \in 1..Len(q)-1 /\ 2 \in 1..Len(q)-1
      /\ Len(q) >= 3 /\ Len(q) \in Nat
  BY HoldsParts, FrameOf
<1>3. o \in Seq(Values) /\ v \in Values /\ q = Append(o, v) /\ Len(o) = Len(q) - 1
  BY <1>1, <1>2, LastOne
<1>4. Frame(r) /\ View!Without(L, 2) = Tail(r)
  BY <1>2, WithoutTop
<1>5. View!FromTop(L, 1) = v /\ View!FromTop(L, 2) = q[Len(q) + 1 - 2]
  BY <1>2, FromTheTop
<1>6. Len(Mine[L]) >= 2
  BY <1>2, MineParts
<1> HIDE DEF q, v, o
<1>7. p \in Seq(Values) /\ a \in Values /\ o = Append(p, a)
  <2>1. Len(o) >= 2
    BY <1>2, <1>3
  <2> QED BY <1>3, <2>1, LastOne
<1>8. a = q[Len(q) + 1 - 2]
  <2>1. Len(o) = Len(q) + 1 - 2 /\ Len(o) \in 1..Len(o)
    BY <1>2, <1>3
  <2>2. \A i \in 1..Len(o) : Append(o, v)[i] = o[i]
    BY <1>3, AppendParts
  <2> QED BY <1>3, <2>1, <2>2
<1> HIDE DEF p, a
<1>9. r = p
  <2>1. Dropped(Append(Append(p, a), v), 2) = p
    BY <1>3, <1>7, Drop2
  <2> QED BY <1>3, <1>7, <2>1
<1> HIDE DEF r
<1>10. stk[L] = Append(Append(p, a), v)
  BY <1>3, <1>7 DEF q
<1> QED BY <1>3, <1>4, <1>5, <1>6, <1>7, <1>8, <1>9, <1>10

LEMMA FieldParts ==
  ASSUME IInv, NEW k \in Values
  PROVE  /\ \A t \in Tables : Field(tab[t], k) \in Values
         /\ Field(reg, k) \in Values
<1>1. CASE k = Nil
  <2>1. Nil \in Values
    BY DEF Values
  <2> QED BY <1>1, <2>1 DEF Field
<1>2. CASE k # Nil
  <2>1. k \in Keys
    BY <1>2 DEF Keys
  <2> QED BY <1>2, <2>1, DataParts DEF Field
<1> QED BY <1>1, <1>2

\* An exception at the first push of an operation, or at the second.
LEMMA ThrownAtFirst ==
  ASSUME IInv, NEW L \in States, NEW x \in AtHand(L), Stranger(x)
  PROVE  LET m == pushOnto(Machine, x, L)
         IN  /\ m.st # "ok"
             /\ \A r : Return(m, r) = Ended(L, stk[L], tab, meta, reg, <<"thrown">>)
<1> DEFINE m == pushOnto(Machine, x, L)
<1>0. Frames /\ Machine = Now(L, stk[L], tab, meta, reg)
  BY FrameOf
<1>1. m = Broken(L, stk[L], tab, meta, reg)
  BY <1>0, PushThrows
<1> QED BY <1>0, <1>1, BrokenParts, Throws

LEMMA WritesReg ==
  ASSUME IInv, NEW L \in States, NEW k \in Keys, NEW v \in Values,
         Becomes(Ended(L, stk[L], tab, meta, [reg EXCEPT ![k] = v], <<"none">>))
  PROVE  IInv' /\ View!Registers(k, v)
<1> DEFINE R == [reg EXCEPT ![k] = v]
<1>1. TypedData(tab, meta, R)
  BY FrameOf, StoreTyped
<1> HIDE DEF R
<1>2. IInv' /\ View!LeavesAll /\ tab' = tab /\ meta' = meta /\ reg' = R /\ ret' = <<"none">>
  BY <1>1, Same DEF R
<1> QED BY <1>2 DEF View!Registers, View!Registered, View!KeepsTables, R

LEMMA RetrieveFieldRegKeeps ==
  ASSUME IInv, NEW L \in States, NEW k \in Names, NEW v, v = reg[k],
         Becomes(registryRetrieveField(Machine, L, k))
  PROVE  IInv' /\ View!Pushes(L, v)
<1> DEFINE q == stk[L]
<1>0. Frames /\ q \in Seq(Values) /\ Machine = Now(L, q, tab, meta, reg)
  BY FrameOf
<1>1. v \in Values
  BY NameParts, DataParts
<1>2. reg_getfield(Machine, L, k) = Now(L, Append(q, v), tab, meta, reg)
  BY <1>0, RegGetfield
<1>3. Return(Now(L, Append(q, v), tab, meta, reg), "none")
        = Ended(L, Append(q, v), tab, meta, reg, <<"none">>)
  BY <1>0, Returns
<1>4. Becomes(Ended(L, Append(q, v), tab, meta, reg, <<"none">>))
  BY <1>2, <1>3 DEF registryRetrieveField
<1> QED BY <1>1, <1>4, SeesPush

LEMMA ReadFieldKeeps ==
  ASSUME IInv, NEW L \in States, NEW C, NEW k \in Names, NEW v, v = reg[k],
         Becomes(readField(Machine, L, C, k))
  PROVE  IInv' /\ View!Reads(L, C, v)
<1> DEFINE q == stk[L]
<1>0. Frames /\ q \in Seq(Values) /\ Machine = Now(L, q, tab, meta, reg)
  BY FrameOf
<1>1. v \in Values
  BY NameParts, DataParts
<1>2. reg_getfield(Machine, L, k) = Now(L, Append(q, v), tab, meta, reg)
  BY <1>0, RegGetfield
<1>3. Becomes(ReadAndPop(Now(L, Append(q, v), tab, meta, reg), L, C))
  BY <1>2 DEF readField
<1> QED BY <1>1, <1>3, SeesRead

LEMMA RetrieveKeyKeeps ==
  ASSUME IInv, NEW L \in States, NEW x \in AtHand(L), Becomes(registryRetrieveKey(Machine, L, x))
  PROVE  IInv' /\ View!RetrieveKey(L, x)
<1> DEFINE q == stk[L]
           v == Field(reg, x.val)
<1>0. Frames /\ q \in Seq(Values) /\ Machine = Now(L, q, tab, meta, reg)
  BY FrameOf
<1>1. CASE Stranger(x)
  <2> DEFINE m == pushOnto(Machine, x, L)
  <2>1. m.st # "ok" /\ Return(m, "none") = Ended(L, q, tab, meta, reg, <<"thrown">>)
    BY <1>1, ThrownAtFirst
  <2> HIDE DEF m
  <2>2. reg_gettable(m, L) = m
    BY <2>1, Stops
  <2>3. Becomes(Ended(L, q, tab, meta, reg, <<"thrown">>))
    BY <2>1, <2>2 DEF registryRetrieveKey, m
  <2>4. IInv' /\ View!Throws(L, <<>>)
    BY <2>3, SeesThrow0
  <2> QED BY <1>1, <2>4, OneArgument DEF View!RetrieveKey
<1>2. CASE ~Stranger(x)
  <2>0. x.val \in Values /\ v \in Values
    BY ArgumentParts, FieldParts
  <2>1. pushOnto(Machine, x, L) = Now(L, Append(q, x.val), tab, meta, reg)
    BY <1>0, <1>2, PushesArgument
  <2>2. reg_gettable(Now(L, Append(q, x.val), tab, meta, reg), L)
          = Now(L, Append(q, v), tab, meta, reg)
    BY <1>0, <2>0, RegGettable
  <2> HIDE DEF v
  <2>3. Return(Now(L, Append(q, v), tab, meta, reg), "none")
          = Ended(L, Append(q, v), tab, meta, reg, <<"none">>)
    BY <1>0, Returns
  <2>4. Becomes(Ended(L, Append(q, v), tab, meta, reg, <<"none">>))
    BY <2>1, <2>2, <2>3 DEF registryRetrieveKey
  <2>5. IInv' /\ View!Pushes(L, v)
    BY <2>0, <2>4, SeesPush
  <2>6. v = View!At(reg, x.val)
    BY DEF v, Field, View!At
  <2> QED BY <1>2, <2>5, <2>6, OneArgument DEF View!RetrieveKey
<1> QED BY <1>1, <1>2

LEMMA ReadKeyKeeps ==
  ASSUME IInv, NEW L \in States, NEW C, NEW x \in AtHand(L), Becomes(readKey(Machine, L, C, x))
  PROVE  IInv' /\ View!ReadKey(L, C, x)
<1> DEFINE q == stk[L]
           v == Field(reg, x.val)
<1>0. Frames /\ q \in Seq(Values) /\ Machine = Now(L, q, tab, meta, reg)
  BY FrameOf
<1>1. CASE Stranger(x)
  <2> DEFINE m == pushOnto(Machine, x, L)
  <2>1. m.st # "ok" /\ \A r : Return(m, r) = Ended(L, q, tab, meta, reg, <<"thrown">>)
    BY <1>1, ThrownAtFirst
  <2> HIDE DEF m
  <2>2. reg_gettable(m, L) = m /\ lua_pop(m, L, 1) = m
    BY <2>1, Stops
  <2>3. Becomes(Ended(L, q, tab, meta, reg, <<"thrown">>))
    BY <2>1, <2>2 DEF readKey, ReadAndPop, m
  <2>4. IInv' /\ View!Throws(L, <<>>)
    BY <2>3, SeesThrow0
  <2> QED BY <1>1, <2>4, OneArgument DEF View!ReadKey
<1>2. CASE ~Stranger(x)
  <2>0. x.val \in Values /\ v \in Values
    BY ArgumentParts, FieldParts
  <2>1. pushOnto(Machine, x, L) = Now(L, Append(q, x.val), tab, meta, reg)
    BY <1>0, <1>2, PushesArgument
  <2>2. reg_gettable(Now(L, Append(q, x.val), tab, meta, reg), L)
          = Now(L, Append(q, v), tab, meta, reg)
    BY <1>0, <2>0, RegGettable
  <2>3. PICK w \in Values : w = v
    BY <2>0
  <2> HIDE DEF v
  <2>4. Becomes(ReadAndPop(Now(L, Append(q, w), tab, meta, reg), L, C))
    BY <2>1, <2>2, <2>3 DEF readKey
  <2>5. IInv' /\ View!Reads(L, C, w)
    BY <2>4, SeesRead
  <2>6. w = View!At(reg, x.val)
    BY <2>3 DEF v, Field, View!At
  <2> QED BY <1>2, <2>5, <2>6, OneArgument
          DEF View!ReadKey, View!Reads, View!Unreadable, View!As, View!Throws, View!Answers,
              View!Leaves, View!LeavesAll, View!KeepsData, View!KeepsTables
<1> QED BY <1>1, <1>2

LEMMA RetrieveStackKeeps ==
  ASSUME IInv, NEW L \in States, Holds(L, 1), Becomes(registryRetrieveStack(Machine, L))
  PROVE  IInv' /\ View!RetrieveStack(L)
<1>0. Frames /\ Machine = Now(L, stk[L], tab, meta, reg) /\ TypedData(tab, meta, reg)
  BY FrameOf
<1>1. PICK p \in Seq(Values), v \in Values :
        /\ stk[L] = Append(p, v) /\ Frame(p) /\ Tail(p) = View!Without(L, 1)
        /\ v = View!FromTop(L, 1) /\ Len(Mine[L]) >= 1 /\ Mine[L] # <<>>
  BY OneHeld
<1> DEFINE w == Field(reg, v)
           q == Append(p, w)
<1>2. w \in Values
  BY FieldParts
<1>3. reg_gettable(Now(L, Append(p, v), tab, meta, reg), L) = Now(L, q, tab, meta, reg)
  BY <1>0, RegGettable
<1>4. Frame(q) /\ Tail(q) = Append(Tail(p), w)
  BY <1>1, <1>2, Grows
<1> HIDE DEF q
<1>5. Return(Now(L, q, tab, meta, reg), "none") = Ended(L, q, tab, meta, reg, <<"none">>)
  BY <1>0, Returns
<1>6. Becomes(Ended(L, q, tab, meta, reg, <<"none">>))
  BY <1>0, <1>1, <1>3, <1>5 DEF registryRetrieveStack
<1>7. /\ IInv' /\ Mine' = [Mine EXCEPT ![L] = Tail(q)]
      /\ tab' = tab /\ meta' = meta /\ reg' = reg /\ ret' = <<"none">>
  BY <1>0, <1>4, <1>6, Leaves
<1>8. w = View!At(reg, View!FromTop(L, 1))
  BY <1>1 DEF View!At, Field
<1> HIDE DEF w
<1> QED BY <1>1, <1>4, <1>7, <1>8
        DEF View!RetrieveStack, View!Leaves, View!KeepsData, View!KeepsTables, Mine

LEMMA WriteFieldKeeps ==
  ASSUME IInv, NEW L \in States, NEW k \in Names, NEW x \in AtHand(L),
         Becomes(writeField(Machine, L, k, x))
  PROVE  IInv' /\ View!WriteField(L, k, x)
<1> DEFINE q == stk[L]
<1>0. Frames /\ q \in Seq(Values) /\ Machine = Now(L, q, tab, meta, reg)
  BY FrameOf
<1>1. CASE Stranger(x)
  <2> DEFINE m == pushOnto(Machine, x, L)
  <2>1. m.st # "ok" /\ Return(m, "none") = Ended(L, q, tab, meta, reg, <<"thrown">>)
    BY <1>1, ThrownAtFirst
  <2> HIDE DEF m
  <2>2. reg_setfield(m, L, k) = m
    BY <2>1, Stops
  <2>3. Becomes(Ended(L, q, tab, meta, reg, <<"thrown">>))
    BY <2>1, <2>2 DEF writeField, m
  <2>4. IInv' /\ View!Throws(L, <<>>)
    BY <2>3, SeesThrow0
  <2> QED BY <1>1, <2>4, OneArgument DEF View!WriteField
<1>2. CASE ~Stranger(x)
  <2> DEFINE R == [reg EXCEPT ![k] = x.val]
  <2>0. x.val \in Values /\ k \in Keys
    BY ArgumentParts, NameParts
  <2>1. pushOnto(Machine, x, L) = Now(L, Append(q, x.val), tab, meta, reg)
    BY <1>0, <1>2, PushesArgument
  <2>2. reg_setfield(Now(L, Append(q, x.val), tab, meta, reg), L, k)
          = Now(L, q, tab, meta, R)
    BY <1>0, <2>0, RegSetfield
  <2> HIDE DEF R
  <2>3. Return(Now(L, q, tab, meta, R), "none") = Ended(L, q, tab, meta, R, <<"none">>)
    BY <1>0, Returns
  <2>4. Becomes(Ended(L, q, tab, meta, R, <<"none">>))
    BY <2>1, <2>2, <2>3 DEF writeField
  <2>5. IInv' /\ View!Registers(k, x.val)
    BY <2>0, <2>4, WritesReg DEF R
  <2> QED BY <1>2, <2>5, OneArgument DEF View!WriteField
<1> QED BY <1>1, <1>2


LEMMA Thrown ==
  ASSUME Frames, NEW L \in States, NEW q, NEW T, NEW M, NEW R, NEW x, Stranger(x)
  PROVE  LET m == pushOnto(Now(L, q, T, M, R), x, L)
         IN  /\ m.st # "ok"
             /\ \A r : Return(m, r) = Ended(L, q, T, M, R, <<"thrown">>)
<1> DEFINE m == pushOnto(Now(L, q, T, M, R), x, L)
<1>1. m = Broken(L, q, T, M, R)
  BY PushThrows
<1> QED BY <1>1, BrokenParts, Throws

\* Nothing on the stack, nothing stored.
LEMMA StoreFieldKeeps ==
  ASSUME IInv, NEW L \in States, NEW k \in Names, Becomes(storeField(Machine, L, k))
  PROVE  IInv' /\ View!StoreField(L, k)
<1>0. Frames /\ Machine = Now(L, stk[L], tab, meta, reg) /\ TypedData(tab, meta, reg)
  BY FrameOf
<1>k. k \in Keys
  BY NameParts
<1>1. CASE Holds(L, 1)
  <2>1. PICK p \in Seq(Values), v \in Values :
          /\ stk[L] = Append(p, v) /\ Frame(p) /\ Tail(p) = View!Without(L, 1)
          /\ v = View!FromTop(L, 1) /\ Len(Mine[L]) >= 1 /\ Mine[L] # <<>>
    BY <1>1, OneHeld
  <2> DEFINE R == [reg EXCEPT ![k] = v]
  <2>2. reg_setfield(Now(L, Append(p, v), tab, meta, reg), L, k) = Now(L, p, tab, meta, R)
    BY <1>0, RegSetfield
  <2>3. TypedData(tab, meta, R)
    BY <1>0, <1>k, StoreTyped
  <2> HIDE DEF R
  <2>4. Return(Now(L, p, tab, meta, R), "none") = Ended(L, p, tab, meta, R, <<"none">>)
    BY <1>0, Returns
  <2>5. ~(stackSize(Machine, L) < 1)
    BY <1>1, HoldsParts, FrameOf
  <2>6. Becomes(Ended(L, p, tab, meta, R, <<"none">>))
    BY <1>0, <2>1, <2>2, <2>4, <2>5 DEF storeField
  <2>7. /\ IInv' /\ Mine' = [Mine EXCEPT ![L] = Tail(p)]
        /\ tab' = tab /\ meta' = meta /\ reg' = R /\ ret' = <<"none">>
    BY <2>1, <2>3, <2>6, Leaves
  <2>8. View!StoreField(L, k)
    BY <2>1, <2>7 DEF View!StoreField, View!Registered, View!Leaves, View!KeepsTables, Mine, R
  <2> QED BY <2>7, <2>8
<1>2. CASE ~Holds(L, 1)
  <2>1. stackSize(Machine, L) < 1
    BY <1>2, HoldsParts, FrameOf
  <2>2. Return(Machine, "none") = Ended(L, stk[L], tab, meta, reg, <<"none">>)
    BY <1>0, Returns
  <2>3. Becomes(Ended(L, stk[L], tab, meta, reg, <<"none">>))
    BY <2>1, <2>2 DEF storeField
  <2>4. IInv' /\ View!Answers(<<"none">>)
    BY <2>3, SeesAnswer
  <2>5. Mine[L] = <<>>
    <3> DEFINE n == Len(stk[L])
    <3>0. n \in Nat /\ n >= 1 /\ n - 1 < 1
      BY <2>1, HoldsParts, FrameOf
    <3> HIDE DEF n
    <3>2. n = 1
      BY <3>0
    <3>1. Len(stk[L]) = 1
      BY <3>2 DEF n
    <3> QED BY <3>1, MineParts
  <2> QED BY <2>4, <2>5 DEF View!StoreField, Mine
<1> QED BY <1>1, <1>2

\* The key stays on the stack when the value is refused.
LEMMA WriteKeyKeeps ==
  ASSUME IInv, NEW L \in States, NEW k \in AtHand(L), NEW x \in AtHand(L), ~isNil(k),
         Becomes(writeKey(Machine, L, k, x))
  PROVE  IInv' /\ View!WriteKey(L, k, x)
<1> DEFINE q == stk[L]
           q1 == Append(q, k.val)
<1>0. Frames /\ q \in Seq(Values) /\ Machine = Now(L, q, tab, meta, reg)
  BY FrameOf
<1>k. k.val \in Values /\ k.val \in Keys /\ x.val \in Values
  BY ArgumentParts DEF isNil, Keys
<1>1. CASE Stranger(k)
  <2> DEFINE m == pushOnto(Machine, k, L)
  <2>1. m.st # "ok" /\ Return(m, "none") = Ended(L, q, tab, meta, reg, <<"thrown">>)
    BY <1>1, ThrownAtFirst
  <2> HIDE DEF m
  <2>2. pushOnto(m, x, L) = m /\ reg_settable(m, L) = m
    BY <2>1, Stops
  <2>3. Becomes(Ended(L, q, tab, meta, reg, <<"thrown">>))
    BY <2>1, <2>2 DEF writeKey, m
  <2>4. IInv' /\ View!Throws(L, <<>>)
    BY <2>3, SeesThrow0
  <2> QED BY <1>1, <2>4, TwoArguments DEF View!WriteKey
<1>2. CASE ~Stranger(k)
  <2>1. pushOnto(Machine, k, L) = Now(L, q1, tab, meta, reg)
    BY <1>0, <1>2, PushesArgument
  <2>2. CASE Stranger(x)
    <3> DEFINE m == pushOnto(Now(L, q1, tab, meta, reg), x, L)
    <3>1. m.st # "ok" /\ Return(m, "none") = Ended(L, q1, tab, meta, reg, <<"thrown">>)
      <4> HIDE DEF q1
      <4> QED BY <1>0, <2>2, Thrown
    <3> HIDE DEF m
    <3>2. reg_settable(m, L) = m
      BY <3>1, Stops
    <3>3. Becomes(Ended(L, q1, tab, meta, reg, <<"thrown">>))
      BY <2>1, <3>1, <3>2 DEF writeKey, m
    <3>4. IInv' /\ View!Throws(L, <<k.val>>)
      BY <1>k, <3>3, SeesThrow1
    <3> QED BY <1>2, <2>2, <3>4, TwoArguments DEF View!WriteKey
  <2>3. CASE ~Stranger(x)
    <3> DEFINE R == [reg EXCEPT ![k.val] = x.val]
    <3>1. pushOnto(Now(L, q1, tab, meta, reg), x, L) = Now(L, Append(q1, x.val), tab, meta, reg)
      <4> HIDE DEF q1
      <4> QED BY <1>0, <2>3, PushesArgument
    <3>2. reg_settable(Now(L, Append(q1, x.val), tab, meta, reg), L) = Now(L, q, tab, meta, R)
      BY <1>0, <1>k, RegSettable
    <3> HIDE DEF R, q1
    <3>3. Return(Now(L, q, tab, meta, R), "none") = Ended(L, q, tab, meta, R, <<"none">>)
      BY <1>0, Returns
    <3>4. Becomes(Ended(L, q, tab, meta, R, <<"none">>))
      BY <2>1, <3>1, <3>2, <3>3 DEF writeKey
    <3>5. IInv' /\ View!Registers(k.val, x.val)
      BY <1>k, <3>4, WritesReg DEF R
    <3> QED BY <1>2, <2>3, <3>5, TwoArguments DEF View!WriteKey
  <2> QED BY <2>2, <2>3
<1> QED BY <1>1, <1>2

\* It takes one value more than it stores.
LEMMA StoreKeyKeeps ==
  ASSUME IInv, NEW L \in States, NEW k \in AtHand(L), ~isNil(k), Holds(L, 2),
         Becomes(storeKey(Machine, L, k))
  PROVE  IInv' /\ View!StoreKey(L, k)
<1>0. Frames /\ Machine = Now(L, stk[L], tab, meta, reg) /\ TypedData(tab, meta, reg)
  BY FrameOf
<1>k. k.val \in Values /\ k.val \in Keys
  BY ArgumentParts DEF isNil, Keys
<1>s. ~(stackSize(Machine, L) < 1)
  BY HoldsParts, FrameOf
<1>1. CASE Stranger(k)
  <2> DEFINE m == pushOnto(Machine, k, L)
  <2>1. m.st # "ok" /\ Return(m, "none") = Ended(L, stk[L], tab, meta, reg, <<"thrown">>)
    BY <1>1, ThrownAtFirst
  <2> HIDE DEF m
  <2>2. lua_pushvalue(m, L, 2) = m /\ reg_settable(m, L) = m /\ lua_pop(m, L, 2) = m
    BY <2>1, Stops
  <2>3. Becomes(Ended(L, stk[L], tab, meta, reg, <<"thrown">>))
    BY <1>s, <2>1, <2>2 DEF storeKey, m
  <2>4. IInv' /\ View!Throws(L, <<>>)
    BY <2>3, SeesThrow0
  <2> QED BY <1>1, <2>4, OneArgument DEF View!StoreKey
<1>2. CASE ~Stranger(k)
  <2>1. PICK p \in Seq(Values), a \in Values, v \in Values :
           /\ stk[L] = Append(Append(p, a), v) /\ Frame(p) /\ Tail(p) = View!Without(L, 2)
           /\ v = View!FromTop(L, 1) /\ a = View!FromTop(L, 2) /\ Len(Mine[L]) >= 2
    BY TwoHeld
  <2> DEFINE o == Append(p, a)
             q == Append(o, v)
             R == [reg EXCEPT ![k.val] = v]
             q1 == Append(q, k.val)
  <2>2. o \in Seq(Values) /\ q \in Seq(Values)
    BY AppendParts
  <2>3. pushOnto(Machine, k, L) = Now(L, q1, tab, meta, reg)
    <3> HIDE DEF o, q
    <3>1. Machine = Now(L, q, tab, meta, reg)
      BY <1>0, <2>1 DEF o, q
    <3> QED BY <1>0, <1>2, <3>1, PushesArgument
  <2>4. lua_pushvalue(Now(L, q1, tab, meta, reg), L, 2) = Now(L, Append(q1, v), tab, meta, reg)
    <3> HIDE DEF o
    <3> QED BY <1>0, <1>k, <2>2, PushesSecond
  <2>5. reg_settable(Now(L, Append(q1, v), tab, meta, reg), L) = Now(L, q, tab, meta, R)
    <3> HIDE DEF q
    <3> QED BY <1>0, <1>k, <2>2, RegSettable
  <2> HIDE DEF q1, R
  <2>6. lua_pop(Now(L, q, tab, meta, R), L, 2) = Now(L, p, tab, meta, R)
    BY <1>0, Pops2
  <2>7. Return(Now(L, p, tab, meta, R), "none") = Ended(L, p, tab, meta, R, <<"none">>)
    BY <1>0, Returns
  <2> HIDE DEF q
  <2>8. Becomes(Ended(L, p, tab, meta, R, <<"none">>))
    BY <1>s, <2>3, <2>4, <2>5, <2>6, <2>7 DEF storeKey
  <2>9. TypedData(tab, meta, R)
    BY <1>0, <1>k, StoreTyped DEF R
  <2>10. /\ IInv' /\ Mine' = [Mine EXCEPT ![L] = Tail(p)]
         /\ tab' = tab /\ meta' = meta /\ reg' = R /\ ret' = <<"none">>
    BY <2>1, <2>8, <2>9, Leaves
  <2>11. View!Accepted(<<k>>)
    BY <1>2, OneArgument
  <2> QED BY <2>1, <2>10, <2>11
          DEF View!StoreKey, View!Registered, View!Leaves, View!KeepsTables, Mine, R
<1> QED BY <1>1, <1>2
-----------------------------------------------------------------------------
(* Tables. *)

\* What is read from the stack of L is bound to L.
LEMMA LocalParts ==
  ASSUME NEW L \in States, NEW v \in Values
  PROVE  [val |-> v, at |-> L] \in AtHand(L) /\ ~Stranger([val |-> v, at |-> L])
<1>1. L \notin Foreign
  BY ForeignAssumption
<1> QED BY <1>1 DEF AtHand, BoundTo, Arguments, Stranger

\* A handle is bound to a lua_State of the instance.
LEMMA HandleAccepted ==
  ASSUME NEW L \in States, NEW h \in BoundTo(TableHandles, L)
  PROVE  ~Stranger(h)
BY HandleParts, ForeignAssumption DEF Stranger

LEMMA SetNil ==
  ASSUME Frames, NEW L \in States, NEW q, NEW T, NEW M, NEW R, NEW h, NEW k, NEW x, isNil(k)
  PROVE  set(Now(L, q, T, M, R), h, k, x) = Ended(L, q, T, M, R, <<"NIL_KEY">>)
BY Returns DEF set

Put(T, t, k, v) == [T EXCEPT ![t][k] = v]

LEMMA SetStores ==
  ASSUME Frames, NEW L \in States, NEW q \in Seq(Values), NEW T, NEW M, NEW R,
         NEW h \in BoundTo(TableHandles, L), NEW k \in AtHand(L), NEW x \in AtHand(L),
         ~isNil(k), ~Stranger(k), ~Stranger(x)
  PROVE  set(Now(L, q, T, M, R), h, k, x)
           = Ended(L, q, Put(T, h.val, k.val, x.val), M, R, <<"none">>)
<1> DEFINE t == h.val
           q1 == Append(q, t)
           q2 == Append(q1, k.val)
           q3 == Append(q2, x.val)
           U == [T EXCEPT ![t][k.val] = x.val]
<1>0. /\ t \in Tables /\ t \in Values /\ h.at = L
      /\ k.val \in Keys /\ k.val \in Values /\ x.val \in Values
  BY HandleParts, ArgumentParts DEF isNil, Keys
<1>1. pushSelf(Now(L, q, T, M, R), h) = Now(L, q1, T, M, R)
  BY PushesSelf
<1>2. pushOnto(Now(L, q1, T, M, R), k, L) = Now(L, q2, T, M, R)
  BY PushesArgument
<1>3. pushOnto(Now(L, q2, T, M, R), x, L) = Now(L, q3, T, M, R)
  BY PushesArgument
<1>4. lua_settable(Now(L, q3, T, M, R), L, 3) = Now(L, q1, U, M, R)
  BY <1>0, Settable
<1> HIDE DEF q2, q3, U
<1>5. lua_pop(Now(L, q1, U, M, R), L, 1) = Now(L, q, U, M, R)
  BY <1>0, Pops1
<1>6. Return(Now(L, q, U, M, R), "none") = Ended(L, q, U, M, R, <<"none">>)
  BY Returns
<1> HIDE DEF q1
<1>7. set(Now(L, q, T, M, R), h, k, x) = Ended(L, q, U, M, R, <<"none">>)
  BY <1>0, <1>1, <1>2, <1>3, <1>4, <1>5, <1>6 DEF set
<1> QED BY <1>7 DEF U, Put

LEMMA SetThrowsFirst ==
  ASSUME Frames, NEW L \in States, NEW q \in Seq(Values), NEW T, NEW M, NEW R,
         NEW h \in BoundTo(TableHandles, L), NEW k \in AtHand(L), NEW x,
         ~isNil(k), Stranger(k)
  PROVE  set(Now(L, q, T, M, R), h, k, x) = Ended(L, Append(q, h.val), T, M, R, <<"thrown">>)
<1> DEFINE q1 == Append(q, h.val)
           m == pushOnto(Now(L, q1, T, M, R), k, L)
<1>0. h.at = L
  BY HandleParts
<1>1. pushSelf(Now(L, q, T, M, R), h) = Now(L, q1, T, M, R)
  BY PushesSelf
<1>2. m.st # "ok" /\ Return(m, "none") = Ended(L, q1, T, M, R, <<"thrown">>)
  <2> HIDE DEF q1
  <2> QED BY Thrown
<1> HIDE DEF m, q1
<1>3. pushOnto(m, x, L) = m /\ lua_settable(m, L, 3) = m /\ lua_pop(m, L, 1) = m
  <2>1. pushOnto(m, x, L) = m
    BY <1>2, Stops
  <2>2. lua_settable(m, L, 3) = m
    BY <1>2, Stops
  <2>3. lua_pop(m, L, 1) = m
    BY <1>2, Stops
  <2> QED BY <2>1, <2>2, <2>3
<1>4. set(Now(L, q, T, M, R), h, k, x) = Return(m, "none")
  BY <1>0, <1>1, <1>3 DEF set, m
<1> QED BY <1>2, <1>4 DEF q1

LEMMA SetThrowsSecond ==
  ASSUME Frames, NEW L \in States, NEW q \in Seq(Values), NEW T, NEW M, NEW R,
         NEW h \in BoundTo(TableHandles, L), NEW k \in AtHand(L), NEW x \in AtHand(L),
         ~isNil(k), ~Stranger(k), Stranger(x)
  PROVE  set(Now(L, q, T, M, R), h, k, x)
           = Ended(L, Append(Append(q, h.val), k.val), T, M, R, <<"thrown">>)
<1> DEFINE q1 == Append(q, h.val)
           q2 == Append(q1, k.val)
           m == pushOnto(Now(L, q2, T, M, R), x, L)
<1>0. h.at = L
  BY HandleParts
<1>1. pushSelf(Now(L, q, T, M, R), h) = Now(L, q1, T, M, R)
  BY PushesSelf
<1>2. pushOnto(Now(L, q1, T, M, R), k, L) = Now(L, q2, T, M, R)
  BY PushesArgument
<1>3. m.st # "ok" /\ Return(m, "none") = Ended(L, q2, T, M, R, <<"thrown">>)
  <2> HIDE DEF q2
  <2> QED BY Thrown
<1> HIDE DEF m, q1, q2
<1>4. lua_settable(m, L, 3) = m /\ lua_pop(m, L, 1) = m
  <2>2. lua_settable(m, L, 3) = m
    BY <1>3, Stops
  <2>3. lua_pop(m, L, 1) = m
    BY <1>3, Stops
  <2> QED BY <2>2, <2>3
<1>5. set(Now(L, q, T, M, R), h, k, x) = Return(m, "none")
  BY <1>0, <1>1, <1>2, <1>4 DEF set, m
<1> QED BY <1>3, <1>5 DEF q1, q2

\* LuaIndexable::set and setRaw.
LEMMA SetKeeps ==
  ASSUME IInv, NEW L \in States, NEW h \in BoundTo(TableHandles, L),
         NEW k \in AtHand(L), NEW x \in AtHand(L), Becomes(set(Machine, h, k, x))
  PROVE  IInv' /\ View!Set(h, k, x)
<1>0. Frames /\ stk[L] \in Seq(Values) /\ Machine = Now(L, stk[L], tab, meta, reg)
  BY FrameOf
<1>h. /\ h.val \in Tables /\ h.val \in Values /\ k.val \in Values /\ x.val \in Values
      /\ h.at = L /\ ~Stranger(h)
  BY HandleParts, HandleAccepted, ArgumentParts
<1>1. CASE isNil(k)
  <2>1. Becomes(Ended(L, stk[L], tab, meta, reg, <<"NIL_KEY">>))
    BY <1>0, <1>1, SetNil
  <2> QED BY <1>1, <2>1, SeesAnswer DEF View!Set, isNil
<1>2. CASE ~isNil(k) /\ Stranger(k)
  <2>1. Becomes(Ended(L, Append(stk[L], h.val), tab, meta, reg, <<"thrown">>))
    BY <1>0, <1>2, SetThrowsFirst
  <2>2. IInv' /\ View!Throws(L, <<h.val>>)
    BY <1>h, <2>1, SeesThrow1
  <2> QED BY <1>h, <1>2, <2>2, ThreeArguments DEF View!Set, isNil
<1>3. CASE ~isNil(k) /\ ~Stranger(k) /\ Stranger(x)
  <2>1. Becomes(Ended(L, Append(Append(stk[L], h.val), k.val), tab, meta, reg, <<"thrown">>))
    BY <1>0, <1>3, SetThrowsSecond
  <2>2. IInv' /\ View!Throws(L, <<h.val, k.val>>)
    BY <1>h, <2>1, SeesThrow2
  <2> QED BY <1>h, <1>3, <2>2, ThreeArguments DEF View!Set, isNil
<1>4. CASE ~isNil(k) /\ ~Stranger(k) /\ ~Stranger(x)
  <2> DEFINE T == Put(tab, h.val, k.val, x.val)
  <2>0. set(Machine, h, k, x) = Ended(L, stk[L], T, meta, reg, <<"none">>)
    BY <1>0, <1>4, SetStores
  <2>1. Becomes(Ended(L, stk[L], T, meta, reg, <<"none">>))
    BY <2>0
  <2>2. k.val \in Keys
    BY <1>h, <1>4 DEF isNil, Keys
  <2>3. IInv' /\ View!Stores(h.val, k.val, x.val)
    BY <1>h, <2>1, <2>2, SeesSet DEF Put
  <2> QED BY <1>h, <1>4, <2>3, ThreeArguments DEF View!Set, isNil
<1> QED BY <1>1, <1>2, <1>3, <1>4

\* t[k]: no call is made for a nil key.
LEMMA NilIndexKeeps ==
  ASSUME IInv, NEW L \in States, NEW h \in BoundTo(TableHandles, L), NEW k, NEW call,
         isNil(k), Becomes(Indexed(Machine, k, call))
  PROVE  IInv' /\ View!NoIndex(h)
<1>0. Frames /\ Machine = Now(L, stk[L], tab, meta, reg)
  BY FrameOf
<1>1. Fail(Machine, "thrown") = Broken(L, stk[L], tab, meta, reg)
  BY <1>0, BrokenParts
<1>2. Becomes(Ended(L, stk[L], tab, meta, reg, <<"thrown">>))
  BY <1>0, <1>1, Throws DEF Indexed
<1>3. IInv' /\ View!Throws(L, <<>>)
  BY <1>2, SeesThrow0
<1> QED BY <1>3, HandleParts DEF View!NoIndex

LEMMA SetStackKVKeeps ==
  ASSUME IInv, NEW L \in States, NEW h \in BoundTo(TableHandles, L), Holds(L, 2),
         Becomes(setStackKV(Machine, h))
  PROVE  IInv' /\ View!SetStackKV(h)
<1>0. Frames /\ Machine = Now(L, stk[L], tab, meta, reg) /\ TypedData(tab, meta, reg)
  BY FrameOf
<1>h. h.val \in Tables /\ h.at = L
  BY HandleParts
<1>1. PICK p \in Seq(Values), a \in Values, v \in Values :
         /\ stk[L] = Append(Append(p, a), v) /\ Frame(p) /\ Tail(p) = View!Without(L, 2)
         /\ v = View!FromTop(L, 1) /\ a = View!FromTop(L, 2) /\ Len(Mine[L]) >= 2
  BY TwoHeld
<1> DEFINE o == Append(p, a)
           k == [val |-> a, at |-> L]
           x == [val |-> v, at |-> L]
<1>2. o \in Seq(Values)
  BY AppendParts
<1>3. Popped(Machine, L) = x /\ lua_pop(Machine, L, 1) = Now(L, o, tab, meta, reg)
  <2> HIDE DEF o
  <2>1. Machine = Now(L, Append(o, v), tab, meta, reg)
    BY <1>0, <1>1 DEF o
  <2> QED BY <1>0, <1>2, <2>1, PoppedLast, Pops1
<1>4. /\ Popped(Now(L, o, tab, meta, reg), L) = k
      /\ lua_pop(Now(L, o, tab, meta, reg), L, 1) = Now(L, p, tab, meta, reg)
  BY <1>0, PoppedLast, Pops1
<1>5. /\ k \in AtHand(L) /\ ~Stranger(k) /\ x \in AtHand(L) /\ ~Stranger(x)
      /\ k.val = a /\ x.val = v
  BY LocalParts
<1> HIDE DEF o, k, x
<1>6. setStackKV(Machine, h) = set(Now(L, p, tab, meta, reg), h, k, x)
  BY <1>h, <1>3, <1>4 DEF setStackKV
<1>7. CASE isNil(k)
  <2>1. Becomes(Ended(L, p, tab, meta, reg, <<"NIL_KEY">>))
    BY <1>0, <1>6, <1>7, SetNil
  <2>2. /\ IInv' /\ Mine' = [Mine EXCEPT ![L] = Tail(p)]
        /\ tab' = tab /\ meta' = meta /\ reg' = reg /\ ret' = <<"NIL_KEY">>
    BY <1>0, <1>1, <2>1, Leaves
  <2>3. View!FromTop(L, 2) = Nil
    BY <1>1, <1>5, <1>7 DEF isNil
  <2> QED BY <1>h, <1>1, <2>2, <2>3
          DEF View!SetStackKV, View!Leaves, View!KeepsData, View!KeepsTables, Mine
<1>8. CASE ~isNil(k)
  <2> DEFINE T == Put(tab, h.val, a, v)
  <2>0. a \in Keys /\ View!FromTop(L, 2) # Nil
    BY <1>1, <1>5, <1>8 DEF isNil, Keys
  <2>1. set(Now(L, p, tab, meta, reg), h, k, x) = Ended(L, p, T, meta, reg, <<"none">>)
    BY <1>0, <1>5, <1>8, SetStores
  <2>2. TypedData(T, meta, reg)
    BY <1>0, <1>h, <2>0, StoreTyped DEF Put
  <2> HIDE DEF T
  <2>3. Becomes(Ended(L, p, T, meta, reg, <<"none">>))
    BY <1>6, <2>1
  <2>4. /\ IInv' /\ Mine' = [Mine EXCEPT ![L] = Tail(p)]
        /\ tab' = T /\ meta' = meta /\ reg' = reg /\ ret' = <<"none">>
    BY <1>1, <2>2, <2>3, Leaves
  <2> QED BY <1>h, <1>1, <2>0, <2>4 DEF View!SetStackKV, View!Stored, View!Leaves, Mine, T, Put
<1> QED BY <1>7, <1>8


LEMMA SetFieldKeeps ==
  ASSUME IInv, NEW L \in States, NEW h \in BoundTo(TableHandles, L),
         NEW k \in Names, NEW x \in AtHand(L), Becomes(setField(Machine, h, k, x))
  PROVE  IInv' /\ View!SetField(h, k, x)
<1> DEFINE q == stk[L]
           t == h.val
           q1 == Append(q, t)
<1>0. Frames /\ q \in Seq(Values) /\ Machine = Now(L, q, tab, meta, reg)
  BY FrameOf
<1>h. /\ t \in Tables /\ t \in Values /\ h.at = L /\ x.val \in Values /\ k \in Keys
      /\ ~Stranger(h)
  BY HandleParts, HandleAccepted, ArgumentParts, NameParts
<1>1. pushSelf(Machine, h) = Now(L, q1, tab, meta, reg)
  BY <1>0, PushesSelf
<1>2. CASE Stranger(x)
  <2> DEFINE m == pushOnto(Now(L, q1, tab, meta, reg), x, L)
  <2>1. m.st # "ok" /\ Return(m, "none") = Ended(L, q1, tab, meta, reg, <<"thrown">>)
    <3> HIDE DEF q1
    <3> QED BY <1>0, <1>2, Thrown
  <2> HIDE DEF m
  <2>2. lua_setfield(m, L, 2, k) = m
    BY <2>1, Stops
  <2>3. lua_pop(m, L, 1) = m
    BY <2>1, Stops
  <2>4. Becomes(Ended(L, q1, tab, meta, reg, <<"thrown">>))
    <3> HIDE DEF q1
    <3> QED BY <1>h, <1>1, <2>1, <2>2, <2>3 DEF setField, m
  <2>5. IInv' /\ View!Throws(L, <<h.val>>)
    BY <1>h, <2>4, SeesThrow1
  <2> QED BY <1>h, <1>2, <2>5, TwoArguments DEF View!SetField
<1>3. CASE ~Stranger(x)
  <2> DEFINE T == Put(tab, t, k, x.val)
  <2>1. pushOnto(Now(L, q1, tab, meta, reg), x, L) = Now(L, Append(q1, x.val), tab, meta, reg)
    <3> HIDE DEF q1
    <3> QED BY <1>0, <1>3, PushesArgument
  <2>2. lua_setfield(Now(L, Append(q1, x.val), tab, meta, reg), L, 2, k)
          = Now(L, q1, T, meta, reg)
    BY <1>0, <1>h, Setfield DEF Put
  <2> HIDE DEF T
  <2>3. lua_pop(Now(L, q1, T, meta, reg), L, 1) = Now(L, q, T, meta, reg)
    BY <1>0, <1>h, Pops1
  <2>4. Return(Now(L, q, T, meta, reg), "none") = Ended(L, q, T, meta, reg, <<"none">>)
    BY <1>0, Returns
  <2> HIDE DEF q1
  <2>5. Becomes(Ended(L, q, T, meta, reg, <<"none">>))
    BY <1>h, <1>1, <2>1, <2>2, <2>3, <2>4 DEF setField
  <2>6. IInv' /\ View!Stores(h.val, k, x.val)
    BY <1>h, <2>5, SeesSet DEF T, Put
  <2> QED BY <1>h, <1>3, <2>6, TwoArguments DEF View!SetField
<1> QED BY <1>2, <1>3

\* retrieved, the way to a table's value that the readers share.
LEMMA Retrieves ==
  ASSUME Frames, NEW L \in States, NEW q \in Seq(Values), NEW T, NEW M, NEW R,
         NEW h \in BoundTo(TableHandles, L), NEW k \in AtHand(L), ~Stranger(k),
         NEW v \in Values, v = Field(T[h.val], k.val)
  PROVE  retrieved(Now(L, q, T, M, R), h, k) = Now(L, Append(q, v), T, M, R)
<1> DEFINE t == h.val
           q1 == Append(q, t)
<1>0. t \in Tables /\ t \in Values /\ h.at = L /\ k.val \in Values
  BY HandleParts, ArgumentParts
<1>1. pushSelf(Now(L, q, T, M, R), h) = Now(L, q1, T, M, R)
  BY PushesSelf
<1>2. pushOnto(Now(L, q1, T, M, R), k, L) = Now(L, Append(q1, k.val), T, M, R)
  BY PushesArgument
<1>3. lua_gettable(Now(L, Append(q1, k.val), T, M, R), L, 2) = Now(L, Append(q1, v), T, M, R)
  BY <1>0, Gettable
<1>4. lua_remove2(Now(L, Append(q1, v), T, M, R), L) = Now(L, Append(q, v), T, M, R)
  BY <1>0, Remove2
<1> HIDE DEF q1
<1>5. retrieved(Now(L, q, T, M, R), h, k) = Now(L, Append(q, v), T, M, R)
  BY <1>0, <1>1, <1>2, <1>3, <1>4 DEF retrieved
<1> QED BY <1>5

LEMMA RetrieveThrows ==
  ASSUME Frames, NEW L \in States, NEW q \in Seq(Values), NEW T, NEW M, NEW R,
         NEW h \in BoundTo(TableHandles, L), NEW k, Stranger(k)
  PROVE  LET m == retrieved(Now(L, q, T, M, R), h, k)
         IN  /\ m.st # "ok"
             /\ \A r : Return(m, r) = Ended(L, Append(q, h.val), T, M, R, <<"thrown">>)
<1> DEFINE q1 == Append(q, h.val)
           m == pushOnto(Now(L, q1, T, M, R), k, L)
<1>0. h.at = L
  BY HandleParts
<1>1. pushSelf(Now(L, q, T, M, R), h) = Now(L, q1, T, M, R)
  BY PushesSelf
<1>2. m.st # "ok" /\ \A r : Return(m, r) = Ended(L, q1, T, M, R, <<"thrown">>)
  <2> HIDE DEF q1
  <2> QED BY Thrown
<1> HIDE DEF m, q1
<1>3. lua_gettable(m, L, 2) = m
  BY <1>2, Stops
<1>4. lua_remove2(m, L) = m
  BY <1>2, Stops
<1>5. retrieved(Now(L, q, T, M, R), h, k) = m
  BY <1>0, <1>1, <1>3, <1>4 DEF retrieved, m
<1> QED BY <1>2, <1>5 DEF q1

LEMMA RetrieveKeeps ==
  ASSUME IInv, NEW L \in States, NEW h \in BoundTo(TableHandles, L), NEW k \in AtHand(L),
         Becomes(retrieve(Machine, h, k))
  PROVE  IInv' /\ View!Retrieve(h, k)
<1> DEFINE q == stk[L]
           v == Field(tab[h.val], k.val)
           m == retrieved(Machine, h, k)
<1>0. Frames /\ q \in Seq(Values) /\ Machine = Now(L, q, tab, meta, reg)
  BY FrameOf
<1>h. /\ h.val \in Tables /\ h.val \in Values /\ k.val \in Values /\ v \in Values
      /\ h.at = L /\ ~Stranger(h)
  BY HandleParts, HandleAccepted, ArgumentParts, FieldParts
<1>1. CASE isNil(k)
  <2>1. Return(Machine, "NIL_KEY") = Ended(L, q, tab, meta, reg, <<"NIL_KEY">>)
    BY <1>0, Returns
  <2>2. Becomes(Ended(L, q, tab, meta, reg, <<"NIL_KEY">>))
    BY <1>1, <2>1 DEF retrieve
  <2> QED BY <1>1, <2>2, SeesAnswer DEF View!Retrieve, isNil
<1>2. CASE ~isNil(k) /\ Stranger(k)
  <2>1. Return(m, "none") = Ended(L, Append(q, h.val), tab, meta, reg, <<"thrown">>)
    BY <1>0, <1>2, RetrieveThrows
  <2> HIDE DEF m
  <2>2. Becomes(Ended(L, Append(q, h.val), tab, meta, reg, <<"thrown">>))
    BY <1>2, <2>1 DEF retrieve, m
  <2>3. IInv' /\ View!Throws(L, <<h.val>>)
    BY <1>h, <2>2, SeesThrow1
  <2> QED BY <1>h, <1>2, <2>3, TwoArguments DEF View!Retrieve, isNil
<1>3. CASE ~isNil(k) /\ ~Stranger(k)
  <2>0. PICK w \in Values : w = v
    BY <1>h
  <2>w. w = Field(tab[h.val], k.val)
    BY <2>0
  <2>x. w = tab[h.val][k.val]
    BY <1>3, <2>0 DEF isNil, Field
  <2> HIDE DEF v
  <2>1. m = Now(L, Append(q, w), tab, meta, reg)
    BY <1>0, <1>3, <2>w, Retrieves
  <2> HIDE DEF m
  <2>2. Return(m, "none") = Ended(L, Append(q, w), tab, meta, reg, <<"none">>)
    BY <1>0, <2>1, Returns
  <2>3. Becomes(Ended(L, Append(q, w), tab, meta, reg, <<"none">>))
    BY <1>3, <2>2 DEF retrieve, m
  <2>4. IInv' /\ View!Pushes(L, w)
    BY <2>3, SeesPush
  <2>5. View!Accepted(<<h, k>>)
    BY <1>h, <1>3, TwoArguments
  <2> QED BY <1>h, <1>3, <2>x, <2>4, <2>5
          DEF View!Retrieve, View!Pushes, View!Leaves, View!KeepsData, View!KeepsTables, isNil
<1> QED BY <1>1, <1>2, <1>3

LEMMA GetKeeps ==
  ASSUME IInv, NEW L \in States, NEW h \in BoundTo(TableHandles, L), NEW C, NEW k \in AtHand(L),
         Becomes(get(Machine, h, C, k))
  PROVE  IInv' /\ View!Get(h, C, k)
<1> DEFINE q == stk[L]
           v == Field(tab[h.val], k.val)
           m == retrieved(Machine, h, k)
<1>0. Frames /\ q \in Seq(Values) /\ Machine = Now(L, q, tab, meta, reg)
  BY FrameOf
<1>h. /\ h.val \in Tables /\ h.val \in Values /\ k.val \in Values /\ v \in Values
      /\ h.at = L /\ ~Stranger(h)
  BY HandleParts, HandleAccepted, ArgumentParts, FieldParts
<1>1. CASE isNil(k)
  <2>1. Return(Machine, "nullopt") = Ended(L, q, tab, meta, reg, <<"nullopt">>)
    BY <1>0, Returns
  <2>2. Becomes(Ended(L, q, tab, meta, reg, <<"nullopt">>))
    BY <1>1, <2>1 DEF get
  <2> QED BY <1>1, <2>2, SeesAnswer DEF View!Get, isNil
<1>2. CASE ~isNil(k) /\ Stranger(k)
  <2>1. m.st # "ok" /\ \A r : Return(m, r) = Ended(L, Append(q, h.val), tab, meta, reg, <<"thrown">>)
    BY <1>0, <1>2, RetrieveThrows
  <2> HIDE DEF m
  <2>2. lua_pop(m, L, 1) = m
    BY <2>1, Stops
  <2>3. Becomes(Ended(L, Append(q, h.val), tab, meta, reg, <<"thrown">>))
    BY <1>h, <1>2, <2>1, <2>2 DEF get, ReadAndPop, m
  <2>4. IInv' /\ View!Throws(L, <<h.val>>)
    BY <1>h, <2>3, SeesThrow1
  <2> QED BY <1>h, <1>2, <2>4, TwoArguments DEF View!Get, isNil
<1>3. CASE ~isNil(k) /\ ~Stranger(k)
  <2>0. PICK w \in Values : w = v
    BY <1>h
  <2>w. w = Field(tab[h.val], k.val)
    BY <2>0
  <2>x. w = tab[h.val][k.val]
    BY <1>3, <2>0 DEF isNil, Field
  <2> HIDE DEF v
  <2>1. m = Now(L, Append(q, w), tab, meta, reg)
    BY <1>0, <1>3, <2>w, Retrieves
  <2> HIDE DEF m
  <2>2. Becomes(ReadAndPop(Now(L, Append(q, w), tab, meta, reg), L, C))
    BY <1>h, <1>3, <2>1 DEF get, m
  <2>3. IInv' /\ View!Reads(L, C, w)
    BY <2>2, SeesRead
  <2>4. View!Accepted(<<h, k>>)
    BY <1>h, <1>3, TwoArguments
  <2> QED BY <1>h, <1>3, <2>x, <2>3, <2>4
          DEF View!Get, View!Reads, View!Unreadable, View!As, View!Throws, View!Answers,
              View!Leaves, View!LeavesAll, View!KeepsData, View!KeepsTables, isNil
<1> QED BY <1>1, <1>2, <1>3

LEMMA RetrieveStackKKeeps ==
  ASSUME IInv, NEW L \in States, NEW h \in BoundTo(TableHandles, L), Holds(L, 1),
         Becomes(retrieveStackK(Machine, h))
  PROVE  IInv' /\ View!RetrieveStackK(h)
<1>0. Frames /\ Machine = Now(L, stk[L], tab, meta, reg) /\ TypedData(tab, meta, reg)
  BY FrameOf
<1>1. PICK p \in Seq(Values), v \in Values :
        /\ stk[L] = Append(p, v) /\ Frame(p) /\ Tail(p) = View!Without(L, 1)
        /\ v = View!FromTop(L, 1) /\ Len(Mine[L]) >= 1 /\ Mine[L] # <<>>
  BY OneHeld
<1> DEFINE k == [val |-> v, at |-> L]
           w == Field(tab[h.val], v)
           q == Append(p, w)
           m == Now(L, p, tab, meta, reg)
<1>h. h.val \in Tables /\ h.at = L /\ w \in Values
  BY HandleParts, FieldParts
<1>2. Popped(Machine, L) = k /\ lua_pop(Machine, L, 1) = m
  BY <1>0, <1>1, PoppedLast, Pops1
<1>3. k \in AtHand(L) /\ ~Stranger(k) /\ k.val = v
  BY LocalParts
<1> HIDE DEF k
<1>4. retrieveStackK(Machine, h) = retrieve(m, h, k)
  BY <1>h, <1>2 DEF retrieveStackK
<1>5. CASE isNil(k)
  <2>1. retrieve(m, h, k) = Ended(L, p, tab, meta, reg, <<"NIL_KEY">>)
    BY <1>0, <1>5, Returns DEF retrieve
  <2>2. Becomes(Ended(L, p, tab, meta, reg, <<"NIL_KEY">>))
    BY <1>4, <2>1
  <2>3. /\ IInv' /\ Mine' = [Mine EXCEPT ![L] = Tail(p)]
        /\ tab' = tab /\ meta' = meta /\ reg' = reg /\ ret' = <<"NIL_KEY">>
    BY <1>0, <1>1, <2>2, Leaves
  <2>4. View!FromTop(L, 1) = Nil
    BY <1>1, <1>3, <1>5 DEF isNil
  <2> QED BY <1>h, <1>1, <2>3, <2>4
          DEF View!RetrieveStackK, View!Leaves, View!KeepsData, View!KeepsTables, Mine
<1>6. CASE ~isNil(k)
  <2>0. View!FromTop(L, 1) # Nil /\ w = tab[h.val][View!FromTop(L, 1)]
    BY <1>1, <1>3, <1>6 DEF isNil, Field
  <2>7. w = Field(tab[h.val], k.val) /\ w \in Values
    BY <1>h, <1>3
  <2>1. retrieved(m, h, k) = Now(L, q, tab, meta, reg)
    <3> HIDE DEF w
    <3>1. Frames /\ k \in AtHand(L) /\ ~Stranger(k) /\ w \in Values
      BY <1>0, <1>3, <2>7
    <3>2. w = Field(tab[h.val], k.val)
      BY <2>7
    <3> QED BY <3>1, <3>2, Retrieves
  <2>2. Frame(q) /\ Tail(q) = Append(Tail(p), w)
    BY <1>h, <1>1, Grows
  <2> HIDE DEF q, m, w
  <2>3. Return(Now(L, q, tab, meta, reg), "none") = Ended(L, q, tab, meta, reg, <<"none">>)
    BY <1>0, Returns
  <2>4. Becomes(Ended(L, q, tab, meta, reg, <<"none">>))
    BY <1>4, <1>6, <2>1, <2>3 DEF retrieve
  <2>5. /\ IInv' /\ Mine' = [Mine EXCEPT ![L] = Tail(q)]
        /\ tab' = tab /\ meta' = meta /\ reg' = reg /\ ret' = <<"none">>
    BY <1>0, <2>2, <2>4, Leaves
  <2> QED BY <1>h, <1>1, <2>0, <2>2, <2>5
          DEF View!RetrieveStackK, View!Leaves, View!KeepsData, View!KeepsTables, Mine
<1> QED BY <1>5, <1>6


\* The table below a field is gone.
LEMMA FieldRetrieves ==
  ASSUME Frames, NEW L \in States, NEW q \in Seq(Values), NEW T, NEW M, NEW R,
         NEW h \in BoundTo(TableHandles, L), NEW k, NEW v \in Values, v = T[h.val][k]
  PROVE  lua_remove2(lua_getfield(pushSelf(Now(L, q, T, M, R), h), L, 1, k), L)
           = Now(L, Append(q, v), T, M, R)
<1> DEFINE t == h.val
           q1 == Append(q, t)
<1>0. t \in Tables /\ t \in Values
  BY HandleParts
<1>1. pushSelf(Now(L, q, T, M, R), h) = Now(L, q1, T, M, R)
  BY PushesSelf
<1>2. lua_getfield(Now(L, q1, T, M, R), L, 1, k) = Now(L, Append(q1, v), T, M, R)
  BY <1>0, Getfield
<1>3. lua_remove2(Now(L, Append(q1, v), T, M, R), L) = Now(L, Append(q, v), T, M, R)
  BY <1>0, Remove2
<1> QED BY <1>1, <1>2, <1>3

LEMMA RetrieveFieldKeeps ==
  ASSUME IInv, NEW L \in States, NEW h \in BoundTo(TableHandles, L), NEW k \in Names,
         NEW v, v = tab[h.val][k],
         Becomes(retrieveField(Machine, h, k))
  PROVE  IInv' /\ View!Pushes(h.at, v)
<1> DEFINE q == stk[L]
           m == Now(L, Append(q, v), tab, meta, reg)
<1>0. Frames /\ q \in Seq(Values) /\ Machine = Now(L, q, tab, meta, reg)
  BY FrameOf
<1>1. h.at = L /\ v \in Values
  BY HandleParts, NameParts, DataParts
<1>2. lua_remove2(lua_getfield(pushSelf(Machine, h), L, 1, k), L) = m
  BY <1>0, <1>1, FieldRetrieves
<1>3. Return(m, "none") = Ended(L, Append(q, v), tab, meta, reg, <<"none">>)
  BY <1>0, Returns
<1> HIDE DEF m
<1>4. Becomes(Ended(L, Append(q, v), tab, meta, reg, <<"none">>))
  BY <1>1, <1>2, <1>3 DEF retrieveField
<1> QED BY <1>1, <1>4, SeesPush

LEMMA GetFieldKeeps ==
  ASSUME IInv, NEW L \in States, NEW h \in BoundTo(TableHandles, L), NEW C, NEW k \in Names,
         NEW v, v = tab[h.val][k], Becomes(getField(Machine, h, C, k))
  PROVE  IInv' /\ View!Reads(h.at, C, v)
<1> DEFINE q == stk[L]
<1>0. Frames /\ q \in Seq(Values) /\ Machine = Now(L, q, tab, meta, reg)
  BY FrameOf
<1>1. h.at = L /\ v \in Values
  BY HandleParts, NameParts, DataParts
<1>2. lua_remove2(lua_getfield(pushSelf(Machine, h), L, 1, k), L)
        = Now(L, Append(q, v), tab, meta, reg)
  BY <1>0, <1>1, FieldRetrieves
<1>3. Becomes(ReadAndPop(Now(L, Append(q, v), tab, meta, reg), L, C))
  BY <1>1, <1>2 DEF getField
<1> QED BY <1>1, <1>3, SeesRead

\* The table stays on the stack.
LEMMA LenKeeps ==
  ASSUME IInv, NEW L \in States, NEW h \in BoundTo(TableHandles, L), Becomes(len(Machine, h))
  PROVE  IInv' /\ View!LenOf(h)
<1> DEFINE q == stk[L]
           q1 == Append(q, h.val)
<1>0. /\ Frames /\ q \in Seq(Values) /\ Machine = Now(L, q, tab, meta, reg)
      /\ TypedData(tab, meta, reg) /\ Frame(q)
  BY FrameOf
<1>h. h.val \in Tables /\ h.val \in Values /\ h.at = L /\ Nil \in Values
  BY HandleParts, NilHandle
<1>1. pushSelf(Machine, h) = Now(L, q1, tab, meta, reg)
  BY <1>0, PushesSelf
<1>2. q1 \in Seq(Values) /\ Frame(q1) /\ Tail(q1) = Append(Mine[L], h.val)
  <2>1. Frame(q1) /\ Tail(q1) = Append(Tail(q), h.val)
    BY <1>0, <1>h, Grows
  <2>2. Tail(q) = Mine[L]
    BY MineParts
  <2>3. q1 \in Seq(Values)
    <3> HIDE DEF q1
    <3> QED BY <2>1 DEF Frame
  <2> QED BY <2>1, <2>2, <2>3
<1> HIDE DEF q1
<1>3. lua_push(Now(L, q1, tab, meta, reg), L, Nil) = Now(L, Append(q1, Nil), tab, meta, reg)
  BY <1>0, Pushes
<1>4. lua_pop(Now(L, Append(q1, Nil), tab, meta, reg), L, 1) = Now(L, q1, tab, meta, reg)
  BY <1>0, <1>h, <1>2, Pops1
<1>5. Return(Now(L, q1, tab, meta, reg), "length") = Ended(L, q1, tab, meta, reg, <<"length">>)
  BY <1>0, Returns
<1>6. Becomes(Ended(L, q1, tab, meta, reg, <<"length">>))
  BY <1>h, <1>1, <1>3, <1>4, <1>5 DEF len
<1>7. /\ IInv' /\ Mine' = [Mine EXCEPT ![L] = Tail(q1)]
      /\ tab' = tab /\ meta' = meta /\ reg' = reg /\ ret' = <<"length">>
  BY <1>0, <1>2, <1>6, Leaves
<1> QED BY <1>h, <1>2, <1>7 DEF View!LenOf, View!Leaves, View!KeepsData, View!KeepsTables, Mine

PutMeta(M, t, v) == [M EXCEPT ![t] = v]

LEMMA MetaTyped ==
  ASSUME TypedData(tab, meta, reg), NEW t \in Tables, NEW v \in Tables \cup {Nil}
  PROVE  TypedData(tab, PutMeta(meta, t, v), reg)
BY DEF TypedData, PutMeta

LEMMA SetMetatableKeeps ==
  ASSUME IInv, NEW L \in States, NEW h \in BoundTo(TableHandles, L),
         NEW mt \in BoundTo(TableHandles, L), Becomes(setMetatable(Machine, h, mt))
  PROVE  IInv' /\ View!SetMetatable(h, mt)
<1> DEFINE q == stk[L]
           q1 == Append(q, h.val)
           M == PutMeta(meta, h.val, mt.val)
<1>0. /\ Frames /\ q \in Seq(Values) /\ Machine = Now(L, q, tab, meta, reg)
      /\ TypedData(tab, meta, reg)
  BY FrameOf
<1>h. h.val \in Tables /\ h.val \in Values /\ h.at = L /\ mt.val \in Tables
  BY HandleParts
<1>1. pushSelf(Machine, h) = Now(L, q1, tab, meta, reg)
  BY <1>0, PushesSelf
<1>2. pushSelf(Now(L, q1, tab, meta, reg), mt) = Now(L, Append(q1, mt.val), tab, meta, reg)
  <2> HIDE DEF q1
  <2> QED BY <1>0, PushesSelf
<1>3. lua_setmetatable2(Now(L, Append(q1, mt.val), tab, meta, reg), L)
        = Now(L, q1, tab, M, reg)
  BY <1>0, <1>h, Setmetatable DEF PutMeta
<1>m. TypedData(tab, M, reg)
  BY <1>0, <1>h, MetaTyped
<1> HIDE DEF M
<1>4. lua_pop(Now(L, q1, tab, M, reg), L, 1) = Now(L, q, tab, M, reg)
  BY <1>0, <1>h, Pops1
<1> HIDE DEF q1
<1>5. Return(Now(L, q, tab, M, reg), "none") = Ended(L, q, tab, M, reg, <<"none">>)
  BY <1>0, Returns
<1>6. Becomes(Ended(L, q, tab, M, reg, <<"none">>))
  BY <1>h, <1>1, <1>2, <1>3, <1>4, <1>5 DEF setMetatable
<1>7. IInv' /\ View!LeavesAll /\ tab' = tab /\ meta' = M /\ reg' = reg /\ ret' = <<"none">>
  BY <1>m, <1>6, Same
<1> QED BY <1>7 DEF View!SetMetatable, M, PutMeta

\* One value more than the metatable is popped.
LEMMA SetMetatableStackKeeps ==
  ASSUME IInv, NEW L \in States, NEW h \in BoundTo(TableHandles, L), Holds(L, 2),
         Top(Machine, L, 1) \in Tables \cup {Nil}, Becomes(setMetatableStack(Machine, h))
  PROVE  IInv' /\ View!SetMetatableStack(h)
<1>0. /\ Frames /\ Machine = Now(L, stk[L], tab, meta, reg)
      /\ TypedData(tab, meta, reg)
  BY FrameOf
<1>1. PICK p \in Seq(Values), a \in Values, v \in Values :
         /\ stk[L] = Append(Append(p, a), v) /\ Frame(p) /\ Tail(p) = View!Without(L, 2)
         /\ v = View!FromTop(L, 1) /\ a = View!FromTop(L, 2) /\ Len(Mine[L]) >= 2
  BY TwoHeld
<1> DEFINE t == h.val
           o == Append(p, a)
           q == Append(o, v)
           M == PutMeta(meta, t, v)
<1>h. t \in Tables /\ t \in Values /\ h.at = L
  BY HandleParts
<1>2. o \in Seq(Values) /\ q \in Seq(Values)
  BY AppendParts
<1>q. Machine = Now(L, q, tab, meta, reg)
  BY <1>0, <1>1
<1>v. v \in Tables \cup {Nil}
  <2>1. Len(q) \in Nat /\ Len(q) + 1 - 1 = Len(q) /\ q[Len(q)] = v
    <3> HIDE DEF o
    <3>1. Len(o) \in Nat /\ Len(q) = Len(o) + 1 /\ q[Len(o) + 1] = v
      BY <1>2, AppendParts, SeqParts
    <3> HIDE DEF q
    <3> QED BY <3>1
  <2> HIDE DEF q
  <2>2. Top(Machine, L, 1) = q[Len(q) + 1 - 1]
    BY <1>0, <1>2, <1>q, TopParts
  <2> QED BY <2>1, <2>2
<1>3. pushSelf(Machine, h) = Now(L, Append(q, t), tab, meta, reg)
  <2> HIDE DEF q
  <2> QED BY <1>0, <1>2, <1>q, PushesSelf
<1>4. lua_swap(Now(L, Append(q, t), tab, meta, reg), L)
        = Now(L, Append(Append(o, t), v), tab, meta, reg)
  <2> HIDE DEF o
  <2> QED BY <1>0, <1>h, <1>2, Swaps
<1>5. lua_setmetatable2(Now(L, Append(Append(o, t), v), tab, meta, reg), L)
        = Now(L, Append(o, t), tab, M, reg)
  <2> HIDE DEF o
  <2> QED BY <1>0, <1>h, <1>v, <1>2, Setmetatable DEF PutMeta
<1>m. TypedData(tab, M, reg)
  BY <1>0, <1>h, <1>v, MetaTyped
<1> HIDE DEF M, q
<1>6. lua_pop(Now(L, Append(o, t), tab, M, reg), L, 2) = Now(L, p, tab, M, reg)
  BY <1>0, <1>h, Pops2
<1> HIDE DEF o
<1>7. Return(Now(L, p, tab, M, reg), "none") = Ended(L, p, tab, M, reg, <<"none">>)
  BY <1>0, Returns
<1>8. Becomes(Ended(L, p, tab, M, reg, <<"none">>))
  BY <1>h, <1>3, <1>4, <1>5, <1>6, <1>7 DEF setMetatableStack
<1>9. /\ IInv' /\ Mine' = [Mine EXCEPT ![L] = Tail(p)]
      /\ tab' = tab /\ meta' = M /\ reg' = reg /\ ret' = <<"none">>
  BY <1>1, <1>m, <1>8, Leaves
<1> QED BY <1>h, <1>1, <1>9 DEF View!SetMetatableStack, View!Leaves, Mine, M, PutMeta

\* Both handles bound to L.
LEMMA EqualsKeeps ==
  ASSUME IInv, NEW L \in States, NEW h \in BoundTo(TableHandles, L),
         NEW o \in BoundTo(TableHandles, L), Becomes(equals(Machine, h, o))
  PROVE  IInv' /\ View!Equals(h, o)
<1> DEFINE q == stk[L]
           q1 == Append(q, h.val)
           q2 == Append(q1, o.val)
           answer == IF Top(Now(L, q1, tab, meta, reg), L, 1) = Top(Now(L, q2, tab, meta, reg), L, 1)
                     THEN "equal" ELSE "different"
<1>0. Frames /\ q \in Seq(Values) /\ Machine = Now(L, q, tab, meta, reg)
  BY FrameOf
<1>h. h.val \in Values /\ h.at = L /\ o.val \in Values /\ o.at = L /\ o.at \notin Foreign
  BY HandleParts, ForeignAssumption
<1>1. pushSelf(Machine, h) = Now(L, q1, tab, meta, reg)
  BY <1>0, PushesSelf
<1>2. pushReference(Now(L, q1, tab, meta, reg), o, L) = Now(L, q2, tab, meta, reg)
  <2> HIDE DEF q1
  <2>1. pushSelf(Now(L, q1, tab, meta, reg), o) = Now(L, q2, tab, meta, reg)
    BY <1>0, PushesSelf
  <2> QED BY <1>h, <2>1 DEF pushSelf
<1>3. lua_pop(Now(L, q2, tab, meta, reg), L, 2) = Now(L, q, tab, meta, reg)
  BY <1>0, <1>h, Pops2
<1>4. answer = IF h.val = o.val THEN "equal" ELSE "different"
  <2>1. /\ Len(q) \in Nat /\ q1 \in Seq(Values) /\ Len(q1) = Len(q) + 1 /\ q1[Len(q) + 1] = h.val
        /\ q2 \in Seq(Values) /\ Len(q2) = Len(q) + 2 /\ q2[Len(q) + 2] = o.val
    BY <1>0, <1>h, OnTop
  <2> HIDE DEF q1, q2
  <2>2. /\ Top(Now(L, q1, tab, meta, reg), L, 1) = q1[Len(q1) + 1 - 1]
        /\ Top(Now(L, q2, tab, meta, reg), L, 1) = q2[Len(q2) + 1 - 1]
    BY <1>0, <2>1, TopParts
  <2>3. Len(q1) + 1 - 1 = Len(q) + 1 /\ Len(q2) + 1 - 1 = Len(q) + 2
    BY <2>1
  <2> QED BY <2>1, <2>2, <2>3
<1>5. equals(Machine, h, o) = Return(Now(L, q, tab, meta, reg), answer)
  <2> HIDE DEF q1, q2
  <2> QED BY <1>h, <1>1, <1>2, <1>3 DEF equals
<1> HIDE DEF answer
<1>6. Return(Now(L, q, tab, meta, reg), answer) = Ended(L, q, tab, meta, reg, <<answer>>)
  BY <1>0, Returns
<1>7. Becomes(Ended(L, q, tab, meta, reg, <<answer>>))
  BY <1>5, <1>6
<1>8. IInv' /\ View!Answers(<<answer>>)
  BY <1>7, SeesAnswer
<1> QED BY <1>4, <1>8
        DEF View!Equals, View!Answers, View!LeavesAll, View!KeepsData, View!KeepsTables
(* New tables, functions and results of operators. *)

LEMMA MaxParts == Max({1}) = 1 /\ Max({2}) = 2 /\ Max({1, 2}) = 2
BY DEF Max

LEMMA PushNone ==
  ASSUME NEW m, NEW L
  PROVE  pushAll(m, <<>>, L) = m
<1> DEFINE W(h) == h = [s \in SUBSET {} |->
                          IF s = {} THEN m ELSE pushOnto(h[s \ {Max(s)}], <<>>[Max(s)], L)]
           f == CHOOSE h : W(h)
<1>1. W([s \in SUBSET {} |-> m])
  OBVIOUS
<1>2. W(f)
  BY <1>1
<1>3. pushAll(m, <<>>, L) = f[{}]
  BY DEF FoldLeft, MapThenFoldSet, pushAll
<1> HIDE DEF f
<1> QED BY <1>2, <1>3

LEMMA PushOne ==
  ASSUME NEW m, NEW L, NEW y
  PROVE  pushAll(m, <<y>>, L) = pushOnto(m, y, L)
<1> DEFINE D == SUBSET {1}
           step(h, s) == IF s = {} THEN m ELSE pushOnto(h[s \ {Max(s)}], <<y>>[Max(s)], L)
           W(h) == h = [s \in D |-> step(h, s)]
           a == pushOnto(m, y, L)
           g == [s \in D |-> IF s = {} THEN m ELSE a]
           f == CHOOSE h : W(h)
<1>1. \A s \in D : s = {} \/ s = {1}
  OBVIOUS
<1>2. /\ Max({1}) = 1 /\ <<y>>[1] = y /\ {1} \ {1} = {} /\ {1} # {}
      /\ {} \in D /\ {1} \in D
  BY MaxParts
<1>3. g[{}] = m /\ g[{1}] = a
  <2> HIDE DEF a, D
  <2> QED BY <1>2
<1>4. W(g)
  <2>1. ASSUME NEW s \in D PROVE g[s] = step(g, s)
    <3> HIDE DEF D, g
    <3>1. CASE s = {}
      BY <1>3, <3>1
    <3>2. CASE s = {1}
      BY <1>2, <1>3, <3>2
    <3> QED BY <1>1, <3>1, <3>2
  <2>2. g = [s \in D |-> g[s]]
    <3> HIDE DEF D
    <3> QED OBVIOUS
  <2> HIDE DEF g, D, step
  <2> QED BY <2>1, <2>2
<1> HIDE DEF g
<1>5. W(f)
  BY <1>4
<1>6. pushAll(m, <<y>>, L) = f[{1}]
  BY DEF FoldLeft, MapThenFoldSet, pushAll
<1> HIDE DEF f, D
<1>7. f[{}] = m
  BY <1>2, <1>5
<1> QED BY <1>2, <1>5, <1>6, <1>7

LEMMA PushTwo ==
  ASSUME NEW m, NEW L, NEW y, NEW z
  PROVE  pushAll(m, <<y, z>>, L) = pushOnto(pushOnto(m, y, L), z, L)
<1> DEFINE D == SUBSET {1, 2}
           step(h, s) == IF s = {} THEN m ELSE pushOnto(h[s \ {Max(s)}], <<y, z>>[Max(s)], L)
           W(h) == h = [s \in D |-> step(h, s)]
           a == pushOnto(m, y, L)
           b == pushOnto(m, z, L)
           c == pushOnto(a, z, L)
           g == [s \in D |-> IF s = {} THEN m ELSE IF s = {1} THEN a ELSE IF s = {2} THEN b ELSE c]
           f == CHOOSE h : W(h)
<1>1. \A s \in D : s = {} \/ s = {1} \/ s = {2} \/ s = {1, 2}
  OBVIOUS
<1>2. /\ Max({1}) = 1 /\ <<y, z>>[1] = y /\ {1} \ {1} = {}
      /\ Max({2}) = 2 /\ <<y, z>>[2] = z /\ {2} \ {2} = {}
      /\ Max({1, 2}) = 2 /\ {1, 2} \ {2} = {1}
      /\ {1} # {} /\ {2} # {} /\ {1, 2} # {} /\ {1} # {2} /\ {1} # {1, 2} /\ {2} # {1, 2}
      /\ {} \in D /\ {1} \in D /\ {2} \in D /\ {1, 2} \in D
  BY MaxParts
<1>3. g[{}] = m /\ g[{1}] = a /\ g[{2}] = b /\ g[{1, 2}] = c
  <2> HIDE DEF a, b, c, D
  <2> QED BY <1>2
<1>4. W(g)
  <2>1. ASSUME NEW s \in D PROVE g[s] = step(g, s)
    <3> HIDE DEF D, g
    <3>1. CASE s = {}
      BY <1>3, <3>1
    <3>2. CASE s = {1}
      BY <1>2, <1>3, <3>2
    <3>3. CASE s = {2}
      BY <1>2, <1>3, <3>3
    <3>4. CASE s = {1, 2}
      BY <1>2, <1>3, <3>4
    <3> QED BY <1>1, <3>1, <3>2, <3>3, <3>4
  <2>2. g = [s \in D |-> g[s]]
    <3> HIDE DEF D
    <3> QED OBVIOUS
  <2> HIDE DEF g, D, step
  <2> QED BY <2>1, <2>2
<1> HIDE DEF g
<1>5. W(f)
  BY <1>4
<1>6. pushAll(m, <<y, z>>, L) = f[{1, 2}]
  BY DEF FoldLeft, MapThenFoldSet, pushAll
<1> HIDE DEF f, D
<1>7. f[{}] = m
  BY <1>2, <1>5
<1>8. f[{1}] = a
  BY <1>2, <1>5, <1>7
<1> QED BY <1>2, <1>5, <1>6, <1>8

LEMMA AddNone ==
  ASSUME NEW m, NEW L
  PROVE  addEntries(m, L, <<>>) = m
<1> DEFINE W(h) == h = [s \in SUBSET {} |->
                          IF s = {} THEN m ELSE addEntry(h[s \ {Max(s)}], L, <<>>[Max(s)])]
           f == CHOOSE h : W(h)
<1>1. W([s \in SUBSET {} |-> m])
  OBVIOUS
<1>2. W(f)
  BY <1>1
<1>3. addEntries(m, L, <<>>) = f[{}]
  BY DEF FoldLeft, MapThenFoldSet, addEntries
<1> HIDE DEF f
<1> QED BY <1>2, <1>3

LEMMA AddOne ==
  ASSUME NEW m, NEW L, NEW y
  PROVE  addEntries(m, L, <<y>>) = addEntry(m, L, y)
<1> DEFINE D == SUBSET {1}
           step(h, s) == IF s = {} THEN m ELSE addEntry(h[s \ {Max(s)}], L, <<y>>[Max(s)])
           W(h) == h = [s \in D |-> step(h, s)]
           a == addEntry(m, L, y)
           g == [s \in D |-> IF s = {} THEN m ELSE a]
           f == CHOOSE h : W(h)
<1>1. \A s \in D : s = {} \/ s = {1}
  OBVIOUS
<1>2. /\ Max({1}) = 1 /\ <<y>>[1] = y /\ {1} \ {1} = {} /\ {1} # {}
      /\ {} \in D /\ {1} \in D
  BY MaxParts
<1>3. g[{}] = m /\ g[{1}] = a
  <2> HIDE DEF a, D
  <2> QED BY <1>2
<1>4. W(g)
  <2>1. ASSUME NEW s \in D PROVE g[s] = step(g, s)
    <3> HIDE DEF D, g
    <3>1. CASE s = {}
      BY <1>3, <3>1
    <3>2. CASE s = {1}
      BY <1>2, <1>3, <3>2
    <3> QED BY <1>1, <3>1, <3>2
  <2>2. g = [s \in D |-> g[s]]
    <3> HIDE DEF D
    <3> QED OBVIOUS
  <2> HIDE DEF g, D, step
  <2> QED BY <2>1, <2>2
<1> HIDE DEF g
<1>5. W(f)
  BY <1>4
<1>6. addEntries(m, L, <<y>>) = f[{1}]
  BY DEF FoldLeft, MapThenFoldSet, addEntries
<1> HIDE DEF f, D
<1>7. f[{}] = m
  BY <1>2, <1>5
<1> QED BY <1>2, <1>5, <1>6, <1>7

\* The first entry without a key in a list of none, one or two.
LEMMA FirstNilParts ==
  ASSUME NEW y, NEW z
  PROVE  /\ firstNil(<<>>) = 0
         /\ firstNil(<<y>>) = IF isNil(y.key) THEN 1 ELSE 0
         /\ isNil(y.key) => firstNil(<<y, z>>) = 1
         /\ ~isNil(y.key) /\ isNil(z.key) => firstNil(<<y, z>>) = 2
<1> DEFINE N(s) == {i \in 1..Len(s) : isNil(s[i].key)}
<1>0. \A s : firstNil(s) = IF N(s) # {} THEN Min(N(s)) ELSE 0
  BY DEF firstNil, SelectInSeq
<1>1. Min({1}) = 1 /\ Min({2}) = 2 /\ Min({1, 2}) = 1
  BY DEF Min
<1>2. N(<<>>) = {}
  OBVIOUS
<1>3. N(<<y>>) = IF isNil(y.key) THEN {1} ELSE {}
  OBVIOUS
<1>4. isNil(y.key) => N(<<y, z>>) = {1} \/ N(<<y, z>>) = {1, 2}
  OBVIOUS
<1>5. ~isNil(y.key) /\ isNil(z.key) => N(<<y, z>>) = {2}
  OBVIOUS
<1> HIDE DEF N
<1> QED BY <1>0, <1>1, <1>2, <1>3, <1>4, <1>5


PutTable(T, t, c) == [T EXCEPT ![t] = c]

LEMMA SeesNew ==
  ASSUME IInv, NEW t \in Tables, Unreferenced(Machine, t), NEW c,
         tab' = PutTable(tab, t, c), meta' = PutMeta(meta, t, Nil), reg' = reg
  PROVE  View!New(t, c)
<1>1. /\ t # Globals
      /\ \A s \in States : \A i \in 1..Len(stk[s]) : stk[s][i] # t
      /\ \A k \in Keys : reg[k] # t
      /\ \A u \in Tables : meta[u] # t /\ \A k \in Keys : tab[u][k] # t
  BY DEF Unreferenced, Machine
<1>2. ASSUME NEW s \in States, NEW i \in 1..Len(Mine[s]) PROVE Mine[s][i] # t
  <2>1. i \in 1..Len(stk[s])-1 /\ i + 1 \in 1..Len(stk[s])
    BY MineParts
  <2> QED BY <1>1, <2>1, MineParts
<1>3. View!Keys = Keys
  BY DEF View!Keys, Keys
<1> QED BY <1>1, <1>2, <1>3 DEF View!New, PutTable, PutMeta, Mine

LEMMA EmptyParts ==
  /\ Empty \in [Keys -> Values] /\ Empty = View!Blank
  /\ \A k \in Keys, v \in Values : [Empty EXCEPT ![k] = v] \in [Keys -> Values]
<1>1. View!Keys = Keys
  BY DEF View!Keys, Keys
<1>2. Nil \in Values
  BY DEF Values
<1> QED BY <1>1, <1>2 DEF Empty, View!Blank

\* What the entries of a list of none or one fill a table with.
LEMMA FillsNone == View!Filled(<<>>) = Empty
<1>1. View!Keys = Keys /\ {i \in DOMAIN <<>> : <<>>[i].key.val = Nil} = {}
  BY DEF View!Keys, Keys
<1>2. \A k : {i \in DOMAIN <<>> : <<>>[i].key.val = k} = {}
  OBVIOUS
<1> QED BY <1>1, <1>2 DEF View!Filled, Empty

LEMMA FillsOne ==
  ASSUME NEW e, NEW k, e.key.val = k, NEW v, e.value.val = v
  PROVE  View!Filled(<<e>>) = [Empty EXCEPT ![k] = v]
<1> DEFINE es == <<e>>
           is(j) == {i \in DOMAIN es : es[i].key.val = j}
<1>1. View!Keys = Keys
  BY DEF View!Keys, Keys
<1>2. DOMAIN es = {1} /\ es[1] = e
  OBVIOUS
<1> HIDE DEF es
<1>3. \A j : is(j) = IF j = k THEN {1} ELSE {}
  BY <1>2
<1>4. es[CHOOSE i \in {1} : \A j \in {1} : j <= i].value.val = v
  <2>1. (CHOOSE i \in {1} : \A j \in {1} : j <= i) = 1
    OBVIOUS
  <2> QED BY <1>2, <2>1
<1>5. View!Filled(es)
        = [i \in Keys |-> IF is(i) = {} THEN Nil
                          ELSE es[CHOOSE j \in is(i) : \A l \in is(i) : l <= j].value.val]
  BY <1>1 DEF View!Filled
<1>6. View!Filled(es) = [i \in Keys |-> IF i = k THEN v ELSE Nil]
  <2> HIDE DEF is
  <2> QED BY <1>3, <1>4, <1>5
<1>7. [Empty EXCEPT ![k] = v] = [i \in Keys |-> IF i = k THEN v ELSE Nil]
  BY DEF Empty
<1> QED BY <1>6, <1>7 DEF es

LEMMA NewTyped ==
  ASSUME TypedData(tab, meta, reg), NEW t \in Tables, NEW c \in [Keys -> Values]
  PROVE  TypedData(PutTable(tab, t, c), PutMeta(meta, t, Nil), reg)
BY DEF TypedData, PutTable, PutMeta

LEMMA FilledParts ==
  ASSUME IInv, NEW t \in Tables, NEW k \in Keys, NEW v \in Values
  PROVE  Put(PutTable(tab, t, Empty), t, k, v) = PutTable(tab, t, [Empty EXCEPT ![k] = v])
<1>1. tab \in [Tables -> [Keys -> Values]]
  BY DEF IInv, Data
<1> DEFINE e == Empty
           c == [e EXCEPT ![k] = v]
           T == [tab EXCEPT ![t] = e]
<1>2. [T EXCEPT ![t][k] = v] = [tab EXCEPT ![t] = c]
  <2> HIDE DEF e
  <2> QED BY <1>1
<1> QED BY <1>2 DEF Put, PutTable

\* What lua_newtable makes of the machine an operation begins with.
LEMMA MakesTable ==
  ASSUME IInv, NEW L \in States, NEW t \in Tables
  PROVE  lua_newtable(Machine, L, t)
           = Now(L, Append(stk[L], t), PutTable(tab, t, Empty), PutMeta(meta, t, Nil), reg)
<1>1. Frames /\ stk[L] \in Seq(Values) /\ Machine = Now(L, stk[L], tab, meta, reg)
  BY FrameOf
<1> QED BY <1>1, Newtable DEF PutTable, PutMeta

LEMMA SeesMake ==
  ASSUME IInv, NEW L \in States, NEW t \in Tables, Unreferenced(Machine, t),
         NEW c \in [Keys -> Values],
         Becomes(Ended(L, stk[L], PutTable(tab, t, c), PutMeta(meta, t, Nil), reg, <<"table", t>>))
  PROVE  IInv' /\ View!Make(t, c)
<1> DEFINE T == PutTable(tab, t, c)
           M == PutMeta(meta, t, Nil)
           rs == <<"table", t>>
<1>1. TypedData(T, M, reg)
  BY FrameOf, NewTyped
<1> HIDE DEF T, M, rs
<1>2. IInv' /\ View!LeavesAll /\ tab' = T /\ meta' = M /\ reg' = reg /\ ret' = rs
  BY <1>1, Same DEF T, M, rs
<1>3. View!New(t, c)
  BY <1>2, SeesNew DEF T, M
<1> QED BY <1>2, <1>3 DEF View!Make, rs

LEMMA PushNewTableKeeps ==
  ASSUME IInv, NEW L \in States, NEW t \in Tables, Unreferenced(Machine, t),
         Becomes(pushNewTable(Machine, L, t))
  PROVE  IInv' /\ View!PushNew(L, t)
<1> DEFINE q == Append(stk[L], t)
           T == PutTable(tab, t, Empty)
           M == PutMeta(meta, t, Nil)
<1>0. Frames /\ t \in Values /\ Tail(stk[L]) = Mine[L]
  BY FrameOf, MineParts DEF Values
<1>1. lua_newtable(Machine, L, t) = Now(L, q, T, M, reg)
  BY MakesTable
<1>2. TypedData(T, M, reg)
  BY FrameOf, NewTyped, EmptyParts
<1>3. Frame(q) /\ Tail(q) = Append(Mine[L], t)
  BY <1>0, FrameOf, Grows
<1> HIDE DEF q, T, M
<1>4. Return(Now(L, q, T, M, reg), "none") = Ended(L, q, T, M, reg, <<"none">>)
  BY <1>0, Returns
<1>5. Becomes(Ended(L, q, T, M, reg, <<"none">>))
  BY <1>1, <1>4 DEF pushNewTable
<1>6. /\ IInv' /\ Mine' = [Mine EXCEPT ![L] = Tail(q)]
      /\ tab' = T /\ meta' = M /\ reg' = reg /\ ret' = <<"none">>
  BY <1>2, <1>3, <1>5, Leaves
<1>7. View!New(t, Empty)
  BY <1>6, SeesNew DEF T, M
<1>8. View!PushNew(L, t)
  BY <1>3, <1>6, <1>7, EmptyParts DEF View!PushNew, View!Leaves, Mine
<1> QED BY <1>6, <1>8

LEMMA CreateNewTableKeeps ==
  ASSUME IInv, NEW L \in States, NEW t \in Tables, Unreferenced(Machine, t),
         Becomes(createNewTable(Machine, L, t))
  PROVE  IInv' /\ View!Make(t, Empty)
<1> DEFINE T == PutTable(tab, t, Empty)
           M == PutMeta(meta, t, Nil)
<1>0. Frames /\ stk[L] \in Seq(Values) /\ t \in Values
  BY FrameOf DEF Values
<1>1. lua_newtable(Machine, L, t) = Now(L, Append(stk[L], t), T, M, reg)
  BY MakesTable
<1> HIDE DEF T, M
<1>2. createNewTable(Machine, L, t) = Ended(L, stk[L], T, M, reg, <<"table", t>>)
  BY <1>0, <1>1, ReturnsTable DEF createNewTable
<1>3. Becomes(Ended(L, stk[L], T, M, reg, <<"table", t>>))
  BY <1>2
<1> QED BY <1>3, SeesMake, EmptyParts DEF T, M

LEMMA ThrowsAll ==
  ASSUME Frames, NEW L \in States, NEW q, NEW T, NEW M, NEW R, NEW rs
  PROVE  ReturnAll(Broken(L, q, T, M, R), rs) = Ended(L, q, T, M, R, <<"thrown">>)
BY RecordReturns DEF Broken, Ended

LEMMA TableThrows ==
  ASSUME Frames, NEW L \in States, NEW q, NEW T, NEW M, NEW R
  PROVE  ReturnTable(Broken(L, q, T, M, R), L) = Ended(L, q, T, M, R, <<"thrown">>)
<1> DEFINE m == Broken(L, q, T, M, R)
<1>1. m.st # "ok" /\ \A rs : ReturnAll(m, rs) = Ended(L, q, T, M, R, <<"thrown">>)
  BY BrokenParts, ThrowsAll
<1> HIDE DEF m
<1>2. lua_pop(m, L, 1) = m
  BY <1>1, Stops
<1>3. ReturnTable(m, L) = Ended(L, q, T, M, R, <<"thrown">>)
  BY <1>1, <1>2 DEF ReturnTable
<1> QED BY <1>3 DEF m

LEMMA AddsEntry ==
  ASSUME Frames, NEW L \in States, NEW q \in Seq(Values), NEW T, NEW M, NEW R, NEW t \in Tables,
         NEW k \in AtHand(L), NEW x \in AtHand(L), ~isNil(k), ~Stranger(k), ~Stranger(x),
         NEW e, e.key = k, e.value = x
  PROVE  addEntry(Now(L, Append(q, t), T, M, R), L, e)
           = Now(L, Append(q, t), Put(T, t, k.val, x.val), M, R)
<1> DEFINE q1 == Append(q, t)
           q2 == Append(q1, k.val)
           q3 == Append(q2, x.val)
<1>0. t \in Values /\ k.val \in Keys /\ k.val \in Values /\ x.val \in Values
  BY ArgumentParts DEF isNil, Keys, Values
<1>1. pushOnto(Now(L, q1, T, M, R), k, L) = Now(L, q2, T, M, R)
  BY PushesArgument
<1>2. pushOnto(Now(L, q2, T, M, R), x, L) = Now(L, q3, T, M, R)
  BY PushesArgument
<1>3. lua_settable(Now(L, q3, T, M, R), L, 3) = Now(L, q1, Put(T, t, k.val, x.val), M, R)
  BY <1>0, Settable DEF Put
<1> HIDE DEF q1, q2, q3
<1>4. addEntry(Now(L, q1, T, M, R), L, e) = Now(L, q1, Put(T, t, k.val, x.val), M, R)
  BY <1>1, <1>2, <1>3 DEF addEntry
<1> QED BY <1>4 DEF q1

LEMMA EntryThrowsFirst ==
  ASSUME Frames, NEW L \in States, NEW q, NEW T, NEW M, NEW R, NEW e, Stranger(e.key)
  PROVE  addEntry(Now(L, q, T, M, R), L, e) = Broken(L, q, T, M, R)
<1> DEFINE m == Broken(L, q, T, M, R)
<1>1. pushOnto(Now(L, q, T, M, R), e.key, L) = m
  BY PushThrows
<1>2. m.st # "ok"
  BY BrokenParts
<1> HIDE DEF m
<1>3. pushOnto(m, e.value, L) = m
  BY <1>2, Stops
<1>4. lua_settable(m, L, 3) = m
  BY <1>2, Stops
<1>5. addEntry(Now(L, q, T, M, R), L, e) = m
  BY <1>1, <1>3, <1>4 DEF addEntry
<1> QED BY <1>5 DEF m

LEMMA EntryThrowsSecond ==
  ASSUME Frames, NEW L \in States, NEW q, NEW T, NEW M, NEW R, NEW e,
         e.key \in AtHand(L), ~Stranger(e.key), Stranger(e.value)
  PROVE  addEntry(Now(L, q, T, M, R), L, e) = Broken(L, Append(q, e.key.val), T, M, R)
<1> DEFINE q1 == Append(q, e.key.val)
           m == Broken(L, q1, T, M, R)
<1>1. pushOnto(Now(L, q, T, M, R), e.key, L) = Now(L, q1, T, M, R)
  BY PushesArgument
<1> HIDE DEF q1
<1>2. pushOnto(Now(L, q1, T, M, R), e.value, L) = m
  BY PushThrows
<1>3. m.st # "ok"
  BY BrokenParts
<1> HIDE DEF m
<1>4. lua_settable(m, L, 3) = m
  BY <1>3, Stops
<1>5. addEntry(Now(L, q, T, M, R), L, e) = m
  BY <1>1, <1>2, <1>4 DEF addEntry
<1> QED BY <1>5 DEF m, q1

LEMMA MakeGivesUp ==
  ASSUME NEW m, NEW L, NEW t, NEW entries, NEW upto, firstNil(entries) # 0,
         upto = SubSeq(entries, 1, firstNil(entries) - 1),
         NEW m1, m1 = addEntries(lua_newtable(m, L, t), L, upto), m1.st = "ok"
  PROVE  makeTable(m, L, t, entries) = Return(GivenUp(lua_pop(m1, L, 1), m), "nullopt")
BY DEF makeTable

LEMMA MakeReturns ==
  ASSUME NEW m, NEW L, NEW t, NEW entries, NEW upto,
         upto = IF firstNil(entries) = 0 THEN entries
                ELSE SubSeq(entries, 1, firstNil(entries) - 1),
         NEW m1, m1 = addEntries(lua_newtable(m, L, t), L, upto),
         firstNil(entries) = 0 \/ m1.st # "ok"
  PROVE  makeTable(m, L, t, entries) = ReturnTable(m1, L)
BY DEF makeTable

\* An entry without a key: the table is given up, and the client sees nothing of it.
LEMMA GivesUp ==
  ASSUME IInv, NEW L \in States, NEW t \in Tables, NEW T, NEW M,
         NEW m1, m1 = Now(L, Append(stk[L], t), T, M, reg),
         Becomes(Return(GivenUp(lua_pop(m1, L, 1), Machine), "nullopt")),
         NEW entries, NEW i \in DOMAIN entries, isNil(entries[i].key),
         \A j \in 1..i-1 : /\ ~isNil(entries[j].key)
                           /\ ~Stranger(entries[j].key) /\ ~Stranger(entries[j].value)
  PROVE  IInv' /\ View!MakeTable(L, t, entries)
<1> DEFINE q == stk[L]
<1>0. Frames /\ q \in Seq(Values) /\ t \in Values
  BY FrameOf DEF Values
<1>1. lua_pop(m1, L, 1) = Now(L, q, T, M, reg)
  BY <1>0, Pops1
<1>2. GivenUp(Now(L, q, T, M, reg), Machine) = Now(L, q, tab, meta, reg)
  <2> DEFINE f == [stk EXCEPT ![L] = q]
             m == [stk |-> f, tab |-> T, meta |-> M, reg |-> reg, st |-> "ok", ret |-> ret]
             n == [m EXCEPT !.tab = tab]
  <2>1. Machine.tab = tab /\ Machine.meta = meta
    BY DEF Machine
  <2> HIDE DEF f
  <2>2. n = [stk |-> f, tab |-> tab, meta |-> M, reg |-> reg, st |-> "ok", ret |-> ret]
    OBVIOUS
  <2>3. GivenUp(m, Machine) = [n EXCEPT !.meta = meta]
    <3> HIDE DEF m
    <3> QED BY <2>1 DEF GivenUp
  <2> HIDE DEF n
  <2>4. [n EXCEPT !.meta = meta]
          = [stk |-> f, tab |-> tab, meta |-> meta, reg |-> reg, st |-> "ok", ret |-> ret]
    BY <2>2
  <2> QED BY <2>3, <2>4 DEF Now, f
<1>3. Return(Now(L, q, tab, meta, reg), "nullopt") = Ended(L, q, tab, meta, reg, <<"nullopt">>)
  BY <1>0, Returns
<1>4. Becomes(Ended(L, q, tab, meta, reg, <<"nullopt">>))
  BY <1>1, <1>2, <1>3
<1>5. IInv' /\ View!Answers(<<"nullopt">>)
  BY <1>4, SeesAnswer
<1>6. View!StopsAt(L, t, entries, i)
  BY <1>5 DEF View!StopsAt, isNil
<1>7. ASSUME NEW j \in 1..i-1 PROVE View!Complete(entries[j])
  <2> DEFINE k == entries[j].key
             x == entries[j].value
  <2>1. ~isNil(k) /\ ~Stranger(k) /\ ~Stranger(x)
    OBVIOUS
  <2> HIDE DEF k, x
  <2>2. View!Accepted(<<k, x>>)
    BY <2>1, TwoArguments
  <2> QED BY <2>1, <2>2 DEF View!Complete, isNil, k, x
<1> QED BY <1>5, <1>6, <1>7 DEF View!MakeTable

\* Every entry of a list of none or one is stored.
LEMMA MakesAll ==
  ASSUME NEW L, NEW t, NEW entries, NEW c, c = View!Filled(entries), View!Make(t, c),
         \A i \in DOMAIN entries : /\ ~isNil(entries[i].key)
                                   /\ ~Stranger(entries[i].key) /\ ~Stranger(entries[i].value)
  PROVE  View!MakeTable(L, t, entries)
<1>1. ASSUME NEW i \in DOMAIN entries PROVE View!Complete(entries[i])
  <2> DEFINE k == entries[i].key
             x == entries[i].value
  <2>1. ~isNil(k) /\ ~Stranger(k) /\ ~Stranger(x)
    OBVIOUS
  <2> HIDE DEF k, x
  <2>2. View!Accepted(<<k, x>>)
    BY <2>1, TwoArguments
  <2> QED BY <2>1, <2>2 DEF View!Complete, isNil, k, x
<1> QED BY <1>1 DEF View!MakeTable

\* With no entry that has a key: an empty table, or none.
LEMMA MakeEmpty ==
  ASSUME IInv, NEW L \in States, NEW t \in Tables, Unreferenced(Machine, t),
         NEW entries,
         \/ entries = <<>>
         \/ /\ firstNil(entries) = 1 /\ SubSeq(entries, 1, 0) = <<>>
            /\ 1 \in DOMAIN entries /\ isNil(entries[1].key),
         Becomes(makeTable(Machine, L, t, entries))
  PROVE  IInv' /\ View!MakeTable(L, t, entries)
<1> DEFINE T == PutTable(tab, t, Empty)
           M == PutMeta(meta, t, Nil)
           m1 == Now(L, Append(stk[L], t), T, M, reg)
           none == <<>>
<1>0. Frames /\ stk[L] \in Seq(Values) /\ t \in Values
  BY FrameOf DEF Values
<1>1. lua_newtable(Machine, L, t) = m1
  BY MakesTable
<1>2. m1.st = "ok"
  BY <1>0, NowParts
<1>3. ReturnTable(m1, L) = Ended(L, stk[L], T, M, reg, <<"table", t>>)
  BY <1>0, ReturnsTable
<1> HIDE DEF m1
<1>4. m1 = addEntries(lua_newtable(Machine, L, t), L, <<>>)
  BY <1>1, AddNone
<1>5. CASE entries = <<>>
  <2>1. firstNil(entries) = 0
    BY <1>5, FirstNilParts
  <2>2. makeTable(Machine, L, t, entries) = ReturnTable(m1, L)
    BY <1>4, <1>5, <2>1, MakeReturns
  <2>3. Becomes(Ended(L, stk[L], T, M, reg, <<"table", t>>))
    BY <1>3, <2>2
  <2>4. IInv' /\ View!Make(t, Empty)
    BY <2>3, SeesMake, EmptyParts
  <2>5. Empty = View!Filled(entries) /\ DOMAIN entries = {}
    BY <1>5, FillsNone
  <2> QED BY <2>4, <2>5, MakesAll
<1>6. CASE /\ firstNil(entries) = 1 /\ SubSeq(entries, 1, 0) = <<>>
           /\ 1 \in DOMAIN entries /\ isNil(entries[1].key)
  <2>1. makeTable(Machine, L, t, entries) = Return(GivenUp(lua_pop(m1, L, 1), Machine), "nullopt")
    <3> HIDE DEF none
    <3>1. none = SubSeq(entries, 1, firstNil(entries) - 1)
      BY <1>6 DEF none
    <3>2. m1 = addEntries(lua_newtable(Machine, L, t), L, none)
      BY <1>4 DEF none
    <3>3. firstNil(entries) # 0
      BY <1>6
    <3> QED BY <1>2, <3>1, <3>2, <3>3, MakeGivesUp
  <2>2. 1..1-1 = {}
    OBVIOUS
  <2>3. Becomes(Return(GivenUp(lua_pop(m1, L, 1), Machine), "nullopt"))
    BY <2>1
  <2> HIDE DEF T, M
  <2>4. m1 = Now(L, Append(stk[L], t), T, M, reg)
    BY DEF m1
  <2> QED BY <1>6, <2>2, <2>3, <2>4, GivesUp
<1> QED BY <1>5, <1>6

\* An exception leaves the unfinished table, and above it the key when its value is refused.
LEMMA MakeThrows ==
  ASSUME IInv, NEW L \in States, NEW t \in Tables, Unreferenced(Machine, t),
         NEW k \in AtHand(L), NEW x \in AtHand(L), ~isNil(k),
         NEW entries, 1 \in DOMAIN entries, entries[1].key = k, entries[1].value = x,
         SubSeq(entries, 1, 0) = <<>>,
         NEW q,
         \/ Stranger(k) /\ q = Append(stk[L], t)
         \/ ~Stranger(k) /\ Stranger(x) /\ q = Append(Append(stk[L], t), k.val),
         Becomes(ReturnTable(Broken(L, q, PutTable(tab, t, Empty), PutMeta(meta, t, Nil), reg), L))
  PROVE  IInv' /\ View!MakeTable(L, t, entries)
<1> DEFINE T == PutTable(tab, t, Empty)
           M == PutMeta(meta, t, Nil)
           p == IF Stranger(k) THEN <<t>> ELSE <<t, k.val>>
<1>0. Frames /\ t \in Values /\ k.val \in Values /\ Tail(stk[L]) = Mine[L] /\ Mine[L] \in Seq(Values)
  BY FrameOf, ArgumentParts, MineParts DEF Values
<1>1. Frame(Append(stk[L], t)) /\ Tail(Append(stk[L], t)) = Append(Mine[L], t)
  BY <1>0, FrameOf, Grows
<1>2. Frame(q) /\ Tail(q) = Mine[L] \o p
  <2>1. CASE Stranger(k) /\ q = Append(stk[L], t)
    <3>1. Append(Mine[L], t) = Mine[L] \o <<t>>
      BY <1>0
    <3> QED BY <1>1, <2>1, <3>1
  <2>2. CASE ~Stranger(k) /\ q = Append(Append(stk[L], t), k.val)
    <3>1. Frame(q) /\ Tail(q) = Append(Append(Mine[L], t), k.val)
      BY <1>0, <1>1, <2>2, Grows
    <3>2. Append(Append(Mine[L], t), k.val) = Mine[L] \o <<t, k.val>>
      BY <1>0, TwoMore
    <3> QED BY <2>2, <3>1, <3>2
  <2> QED BY <2>1, <2>2
<1>3. ReturnTable(Broken(L, q, T, M, reg), L) = Ended(L, q, T, M, reg, <<"thrown">>)
  <2> HIDE DEF T, M
  <2> QED BY <1>0, TableThrows
<1>4. TypedData(T, M, reg)
  BY FrameOf, NewTyped, EmptyParts
<1> HIDE DEF T, M
<1>5. Becomes(Ended(L, q, T, M, reg, <<"thrown">>))
  BY <1>3 DEF T, M
<1>6. /\ IInv' /\ Mine' = [Mine EXCEPT ![L] = Tail(q)]
      /\ tab' = T /\ meta' = M /\ reg' = reg /\ ret' = <<"thrown">>
  BY <1>2, <1>4, <1>5, Leaves
<1>7. View!New(t, Empty)
  BY <1>6, SeesNew DEF T, M
<1>8. p = IF View!Refused(k) THEN <<t>> ELSE <<t, k.val>>
  BY DEF View!Refused, Stranger
<1> HIDE DEF p
<1>9. Mine' = [Mine EXCEPT ![L] = Mine[L] \o p]
  BY <1>2, <1>6
<1>10. ~View!Accepted(<<k, x>>)
  BY TwoArguments
<1>11. View!Filled(SubSeq(entries, 1, 1 - 1)) = Empty
  <2> DEFINE none == SubSeq(entries, 1, 1 - 1)
  <2>1. none = <<>>
    OBVIOUS
  <2> HIDE DEF none
  <2>2. View!Filled(none) = Empty
    BY <2>1, FillsNone
  <2> QED BY <2>2 DEF none
<1>12. View!StopsAt(L, t, entries, 1)
  <2>1. k.val # Nil
    BY DEF isNil
  <2>2. View!New(t, View!Filled(SubSeq(entries, 1, 1 - 1)))
    <3> DEFINE c == View!Filled(SubSeq(entries, 1, 1 - 1))
    <3>1. c = Empty
      BY <1>11
    <3> HIDE DEF c
    <3>2. View!New(t, c)
      BY <1>7, <3>1
    <3> QED BY <3>2 DEF c
  <2> QED BY <1>6, <1>8, <1>9, <1>10, <2>1, <2>2 DEF View!StopsAt, View!Leaves, Mine
<1>13. 1..1-1 = {}
  OBVIOUS
<1> QED BY <1>6, <1>12, <1>13 DEF View!MakeTable

LEMMA MakeOne ==
  ASSUME IInv, NEW L \in States, NEW t \in Tables, Unreferenced(Machine, t),
         NEW k \in AtHand(L), NEW x \in AtHand(L), NEW e, e.key = k, e.value = x,
         NEW entries, entries = <<e>>, Becomes(makeTable(Machine, L, t, entries))
  PROVE  IInv' /\ View!MakeTable(L, t, entries)
<1> DEFINE T == PutTable(tab, t, Empty)
           M == PutMeta(meta, t, Nil)
           q == Append(stk[L], t)
<1>0. Frames /\ stk[L] \in Seq(Values) /\ t \in Values
  BY FrameOf DEF Values
<1>1. lua_newtable(Machine, L, t) = Now(L, q, T, M, reg)
  BY MakesTable
<1>e. DOMAIN entries = {1} /\ entries[1] = e /\ SubSeq(entries, 1, 0) = <<>>
  OBVIOUS
<1>2. CASE isNil(k)
  <2>1. firstNil(entries) = 1
    BY <1>2, FirstNilParts
  <2> QED BY <1>2, <1>e, <2>1, MakeEmpty
<1>3. CASE ~isNil(k)
  <2> DEFINE m1 == addEntry(Now(L, q, T, M, reg), L, e)
  <2>1. m1 = addEntries(lua_newtable(Machine, L, t), L, entries)
    BY <1>1, AddOne
  <2>2. firstNil(entries) = 0
    BY <1>3, FirstNilParts
  <2> HIDE DEF m1
  <2>3. makeTable(Machine, L, t, entries) = ReturnTable(m1, L)
    BY <2>1, <2>2, MakeReturns
  <2>4. Becomes(ReturnTable(m1, L))
    BY <2>3
  <2>5. CASE Stranger(k)
    <3>1. m1 = Broken(L, q, T, M, reg)
      <4> HIDE DEF q, T, M
      <4> QED BY <1>0, <2>5, EntryThrowsFirst DEF m1
    <3> QED BY <1>3, <1>e, <2>4, <2>5, <3>1, MakeThrows
  <2>6. CASE ~Stranger(k) /\ Stranger(x)
    <3>1. m1 = Broken(L, Append(q, k.val), T, M, reg)
      <4> HIDE DEF q, T, M
      <4> QED BY <1>0, <2>6, EntryThrowsSecond DEF m1
    <3> QED BY <1>3, <1>e, <2>4, <2>6, <3>1, MakeThrows
  <2>7. CASE ~Stranger(k) /\ ~Stranger(x)
    <3> DEFINE U == Put(T, t, k.val, x.val)
               c == [Empty EXCEPT ![k.val] = x.val]
    <3>1. m1 = Now(L, q, U, M, reg)
      <4> HIDE DEF T, M
      <4> QED BY <1>0, <1>3, <2>7, AddsEntry DEF m1
    <3>2. k.val \in Keys /\ x.val \in Values
      BY <1>3, ArgumentParts DEF isNil, Keys
    <3>3. U = PutTable(tab, t, c)
      BY <3>2, FilledParts
    <3>4. c \in [Keys -> Values] /\ c = View!Filled(entries)
      BY <3>2, EmptyParts, FillsOne
    <3> HIDE DEF U, c, M
    <3>5. ReturnTable(Now(L, q, U, M, reg), L) = Ended(L, stk[L], U, M, reg, <<"table", t>>)
      BY <1>0, ReturnsTable
    <3>6. Becomes(Ended(L, stk[L], PutTable(tab, t, c), M, reg, <<"table", t>>))
      BY <2>4, <3>1, <3>3, <3>5
    <3>7. IInv' /\ View!Make(t, c)
      BY <3>4, <3>6, SeesMake DEF M
    <3>8. \A i \in DOMAIN entries :
            /\ ~isNil(entries[i].key)
            /\ ~Stranger(entries[i].key) /\ ~Stranger(entries[i].value)
      BY <1>3, <1>e, <2>7
    <3> QED BY <3>4, <3>7, <3>8, MakesAll
  <2> QED BY <2>5, <2>6, <2>7
<1> QED BY <1>2, <1>3

LEMMA MakeTwo ==
  ASSUME IInv, NEW L \in States, NEW t \in Tables, Unreferenced(Machine, t),
         NEW k \in AtHand(L), NEW e, e.key = k, e.value = k, NEW z, isNil(z.key),
         NEW entries, entries = <<e, z>>, Becomes(makeTable(Machine, L, t, entries))
  PROVE  IInv' /\ View!MakeTable(L, t, entries)
<1> DEFINE upto == <<e>>
           T == PutTable(tab, t, Empty)
           M == PutMeta(meta, t, Nil)
           q == Append(stk[L], t)
<1>0. Frames /\ stk[L] \in Seq(Values) /\ t \in Values
  BY FrameOf DEF Values
<1>1. lua_newtable(Machine, L, t) = Now(L, q, T, M, reg)
  BY MakesTable
<1>e. /\ DOMAIN entries = {1, 2} /\ entries[1] = e /\ entries[2] = z
      /\ SubSeq(entries, 1, 0) = <<>> /\ upto = SubSeq(entries, 1, 1)
  OBVIOUS
<1>2. CASE isNil(k)
  <2>1. firstNil(entries) = 1
    BY <1>2, FirstNilParts
  <2> QED BY <1>2, <1>e, <2>1, MakeEmpty
<1>3. CASE ~isNil(k)
  <2> DEFINE m1 == addEntry(Now(L, q, T, M, reg), L, e)
  <2>1. m1 = addEntries(lua_newtable(Machine, L, t), L, upto)
    BY <1>1, AddOne
  <2>2. firstNil(entries) = 2
    BY <1>3, FirstNilParts
  <2> HIDE DEF m1, upto
  <2>4. firstNil(entries) # 0 /\ upto = SubSeq(entries, 1, firstNil(entries) - 1)
    BY <1>e, <2>2
  <2>5. CASE Stranger(k)
    <3>1. m1 = Broken(L, q, T, M, reg)
      <4> HIDE DEF q, T, M
      <4> QED BY <1>0, <2>5, EntryThrowsFirst DEF m1
    <3>2. m1.st # "ok"
      <4> HIDE DEF q, T, M
      <4> QED BY <1>0, <3>1, BrokenParts
    <3>3. makeTable(Machine, L, t, entries) = ReturnTable(m1, L)
      BY <2>1, <2>4, <3>2, MakeReturns
    <3>4. Becomes(ReturnTable(m1, L))
      BY <3>3
    <3> QED BY <1>3, <1>e, <2>5, <3>1, <3>4, MakeThrows
  <2>6. CASE ~Stranger(k)
    <3> DEFINE U == Put(T, t, k.val, k.val)
    <3>1. m1 = Now(L, q, U, M, reg)
      <4> HIDE DEF T, M
      <4> QED BY <1>0, <1>3, <2>6, AddsEntry DEF m1
    <3> HIDE DEF U
    <3>2. m1.st = "ok"
      <4> HIDE DEF q, M
      <4> QED BY <1>0, <3>1, NowParts
    <3>3. makeTable(Machine, L, t, entries)
            = Return(GivenUp(lua_pop(m1, L, 1), Machine), "nullopt")
      BY <2>1, <2>4, <3>2, MakeGivesUp
    <3>4. Becomes(Return(GivenUp(lua_pop(m1, L, 1), Machine), "nullopt"))
      BY <3>3
    <3>5. 2 \in DOMAIN entries /\ isNil(entries[2].key)
      BY <1>e
    <3>6. \A j \in 1..2-1 : /\ ~isNil(entries[j].key)
                            /\ ~Stranger(entries[j].key) /\ ~Stranger(entries[j].value)
      <4>1. 1..2-1 = {1}
        OBVIOUS
      <4> QED BY <1>3, <1>e, <2>6, <4>1
    <3> HIDE DEF M
    <3> QED BY <3>1, <3>4, <3>5, <3>6, GivesUp
  <2> QED BY <2>5, <2>6
<1> QED BY <1>2, <1>3

LEMMA MakeTableKeeps ==
  ASSUME IInv, NEW L \in States, NEW t \in Tables, Unreferenced(Machine, t),
         NEW X, X \subseteq AtHand(L), NEW entries \in EntryLists(X, L),
         Becomes(makeTable(Machine, L, t, entries))
  PROVE  IInv' /\ View!MakeTable(L, t, entries)
<1> DEFINE entry(k, x) == [key |-> k, value |-> x]
           none == [val |-> Nil, at |-> L]
<1>1. \/ entries = <<>>
      \/ \E k, x \in X : entries = <<entry(k, x)>>
      \/ \E k \in X : entries = <<entry(k, k), entry(none, k)>>
  BY DEF EntryLists
<1>2. \A k, x : entry(k, x).key = k /\ entry(k, x).value = x
  OBVIOUS
<1>3. isNil(none)
  BY DEF isNil
<1> HIDE DEF entry, none
<1>4. CASE entries = <<>>
  BY <1>4, MakeEmpty
<1>5. ASSUME NEW k \in X, NEW x \in X, entries = <<entry(k, x)>>
      PROVE  IInv' /\ View!MakeTable(L, t, entries)
  BY <1>2, <1>5, MakeOne
<1>6. ASSUME NEW k \in X, entries = <<entry(k, k), entry(none, k)>>
      PROVE  IInv' /\ View!MakeTable(L, t, entries)
  BY <1>2, <1>3, <1>6, MakeTwo
<1> QED BY <1>1, <1>4, <1>5, <1>6

LEMMA SeesCombine ==
  ASSUME IInv, NEW L \in States, NEW n \in 0..Len(stk[L])-1, NEW v \in Values,
         Becomes(Ended(L, Append(Dropped(stk[L], n), v), tab, meta, reg, <<"none">>))
  PROVE  IInv' /\ View!Combine(L, n, v)
<1> DEFINE p == Dropped(stk[L], n)
           q == Append(p, v)
<1>0. TypedData(tab, meta, reg) /\ Len(Mine[L]) = Len(stk[L]) - 1
  BY FrameOf, MineParts
<1>1. Frame(p) /\ View!Without(L, n) = Tail(p)
  BY WithoutTop
<1> HIDE DEF p
<1>2. Frame(q) /\ Tail(q) = Append(Tail(p), v)
  BY <1>0, <1>1, Grows
<1>3. Becomes(Ended(L, q, tab, meta, reg, <<"none">>))
  BY DEF p
<1> HIDE DEF q
<1>4. /\ IInv' /\ Mine' = [Mine EXCEPT ![L] = Tail(q)]
      /\ tab' = tab /\ meta' = meta /\ reg' = reg /\ ret' = <<"none">>
  BY <1>0, <1>2, <1>3, Leaves
<1>5. n \in 0..Len(Mine[L]) /\ Len(Mine[L]) >= n
  BY <1>0, MineParts
<1>6. View!Combine(L, n, v)
  BY <1>1, <1>2, <1>4, <1>5
     DEF View!Combine, View!Leaves, View!KeepsData, View!KeepsTables, Mine
<1> QED BY <1>4, <1>6

LEMMA SeesTake ==
  ASSUME IInv, NEW L \in States, NEW n \in 0..Len(stk[L])-1,
         Becomes(Ended(L, Dropped(stk[L], n), tab, meta, reg, <<"function">>))
  PROVE  IInv' /\ View!Take(L, n)
<1> DEFINE p == Dropped(stk[L], n)
<1>0. TypedData(tab, meta, reg) /\ Len(Mine[L]) = Len(stk[L]) - 1
  BY FrameOf, MineParts
<1>1. Frame(p) /\ View!Without(L, n) = Tail(p)
  BY WithoutTop
<1>3. Becomes(Ended(L, p, tab, meta, reg, <<"function">>))
  OBVIOUS
<1> HIDE DEF p
<1>4. /\ IInv' /\ Mine' = [Mine EXCEPT ![L] = Tail(p)]
      /\ tab' = tab /\ meta' = meta /\ reg' = reg /\ ret' = <<"function">>
  BY <1>0, <1>1, <1>3, Leaves
<1>5. n \in 0..Len(Mine[L]) /\ Len(Mine[L]) >= n
  BY <1>0, MineParts
<1>6. View!Take(L, n)
  BY <1>1, <1>4, <1>5 DEF View!Take, View!Leaves, View!KeepsData, View!KeepsTables, Mine
<1> QED BY <1>4, <1>6

LEMMA HeldParts ==
  ASSUME IInv, NEW L \in States, NEW n \in Nat, Holds(L, n)
  PROVE  n \in 0..Len(stk[L])-1 /\ n \in 0..Len(stk[L])
<1>1. n \in 0..Len(stk[L])-1 /\ Len(stk[L]) \in Nat
  BY HoldsParts, FrameOf
<1>2. n \in 0..Len(stk[L])
  BY <1>1
<1> QED BY <1>1, <1>2

LEMMA PushCClosureKeeps ==
  ASSUME IInv, NEW L \in States, NEW n \in Nat, Holds(L, n), NEW v \in Plain,
         Becomes(pushCClosure(Machine, L, n, v))
  PROVE  IInv' /\ View!Combine(L, n, v)
<1> DEFINE q == Append(Dropped(stk[L], n), v)
<1>0. Frames /\ stk[L] \in Seq(Values) /\ Machine = Now(L, stk[L], tab, meta, reg)
  BY FrameOf
<1>1. lua_pushcclosure(Machine, L, n, v) = Now(L, q, tab, meta, reg)
  BY <1>0, HeldParts, Pushcclosure
<1> HIDE DEF q
<1>2. Return(Now(L, q, tab, meta, reg), "none") = Ended(L, q, tab, meta, reg, <<"none">>)
  BY <1>0, Returns
<1>3. Becomes(Ended(L, q, tab, meta, reg, <<"none">>))
  BY <1>1, <1>2 DEF pushCClosure
<1>4. v \in Values
  BY DEF Values
<1> QED BY <1>3, <1>4, HeldParts, SeesCombine DEF q

LEMMA CreateCClosureKeeps ==
  ASSUME IInv, NEW L \in States, NEW n \in Nat, Holds(L, n), NEW v \in Plain,
         Becomes(createCClosureStackUpvalues(Machine, L, n, v))
  PROVE  IInv' /\ View!Take(L, n)
<1> DEFINE p == Dropped(stk[L], n)
<1>0. /\ Frames /\ stk[L] \in Seq(Values) /\ Machine = Now(L, stk[L], tab, meta, reg)
      /\ v \in Values
  BY FrameOf DEF Values
<1>1. lua_pushcclosure(Machine, L, n, v) = Now(L, Append(p, v), tab, meta, reg)
  BY <1>0, HeldParts, Pushcclosure
<1>2. p \in Seq(Values)
  BY <1>0, HeldParts, DropParts
<1> HIDE DEF p
<1>3. lua_pop(Now(L, Append(p, v), tab, meta, reg), L, 1) = Now(L, p, tab, meta, reg)
  BY <1>0, <1>2, Pops1
<1>4. Return(Now(L, p, tab, meta, reg), "function") = Ended(L, p, tab, meta, reg, <<"function">>)
  BY <1>0, Returns
<1>5. Becomes(Ended(L, p, tab, meta, reg, <<"function">>))
  BY <1>1, <1>3, <1>4 DEF createCClosureStackUpvalues
<1> QED BY <1>5, HeldParts, SeesTake DEF p

\* The upvalues are taken off the stack again by the function they go to.
LEMMA TakesUpvalues ==
  ASSUME IInv, NEW L \in States, NEW n \in 0..2, NEW v \in Plain,
         NEW p \in Seq(Values), Dropped(p, n) = stk[L], Len(p) = Len(stk[L]) + n,
         NEW m, m = Now(L, p, tab, meta, reg),
         Becomes(Return(lua_pop(lua_pushcclosure(m, L, n, v), L, 1), "function"))
  PROVE  IInv' /\ View!Answers(<<"function">>)
<1> DEFINE q == stk[L]
<1>0. Frames /\ q \in Seq(Values) /\ v \in Values /\ Len(q) \in Nat /\ Len(q) >= 1
  BY FrameOf DEF Values
<1>1. n \in 0..Len(p)
  BY <1>0
<1>2. lua_pushcclosure(m, L, n, v) = Now(L, Append(q, v), tab, meta, reg)
  BY <1>0, <1>1, Pushcclosure
<1>3. lua_pop(Now(L, Append(q, v), tab, meta, reg), L, 1) = Now(L, q, tab, meta, reg)
  BY <1>0, Pops1
<1>4. Return(Now(L, q, tab, meta, reg), "function") = Ended(L, q, tab, meta, reg, <<"function">>)
  BY <1>0, Returns
<1>5. Becomes(Ended(L, q, tab, meta, reg, <<"function">>))
  BY <1>2, <1>3, <1>4
<1> QED BY <1>5, SeesAnswer

LEMMA WithUpvaluesKeeps ==
  ASSUME IInv, NEW L \in States, NEW x \in AtHand(L), NEW v \in Plain,
         NEW args, args = <<>> \/ args = <<x>> \/ args = <<x, x>>,
         Becomes(withUpvalues(Machine, L, args, v))
  PROVE  IInv' /\ View!WithUpvalues(L, args)
<1> DEFINE q == stk[L]
           q1 == Append(q, x.val)
           m1 == pushOnto(Machine, x, L)
           m == pushAll(Machine, args, L)
<1>0. /\ Frames /\ q \in Seq(Values) /\ Machine = Now(L, q, tab, meta, reg)
      /\ x.val \in Values /\ Len(q) \in Nat
  BY FrameOf, ArgumentParts
<1>1. Becomes(Return(lua_pop(lua_pushcclosure(m, L, Len(args), v), L, 1), "function"))
  BY DEF withUpvalues
<1>2. CASE args = <<>>
  <2>1. m = Now(L, q, tab, meta, reg) /\ Len(args) = 0
    BY <1>0, <1>2, PushNone
  <2>2. Dropped(q, 0) = q /\ Len(q) = Len(q) + 0
    BY <1>0, DropNone
  <2> HIDE DEF m
  <2>3. IInv' /\ View!Answers(<<"function">>)
    BY <1>0, <1>1, <2>1, <2>2, TakesUpvalues
  <2>4. View!Accepted(args)
    BY <1>2 DEF View!Accepted
  <2> QED BY <2>3, <2>4 DEF View!WithUpvalues
<1>3. CASE args # <<>> /\ Stranger(x)
  <2>1. m1.st # "ok" /\ Return(m1, "function") = Ended(L, q, tab, meta, reg, <<"thrown">>)
    BY <1>3, ThrownAtFirst
  <2>2. m = m1
    <3>1. CASE args = <<x>>
      BY <3>1, PushOne
    <3>2. CASE args = <<x, x>>
      <4>1. m = pushOnto(m1, x, L)
        BY <3>2, PushTwo
      <4> HIDE DEF m1
      <4>2. pushOnto(m1, x, L) = m1
        BY <2>1, Stops
      <4> QED BY <4>1, <4>2
    <3> QED BY <1>3, <3>1, <3>2
  <2> HIDE DEF m, m1
  <2>3. lua_pushcclosure(m1, L, Len(args), v) = m1
    BY <2>1, Stops
  <2>4. lua_pop(m1, L, 1) = m1
    BY <2>1, Stops
  <2>5. Becomes(Ended(L, q, tab, meta, reg, <<"thrown">>))
    BY <1>1, <2>1, <2>2, <2>3, <2>4
  <2>6. IInv' /\ View!Throws(L, <<>>)
    BY <2>5, SeesThrow0
  <2>7. View!Interrupted(L, args)
    BY <1>3, <2>6, OneArgument, TwoArguments
  <2> QED BY <2>6, <2>7 DEF View!WithUpvalues
<1>4. CASE args = <<x>> /\ ~Stranger(x)
  <2>1. m1 = Now(L, q1, tab, meta, reg)
    BY <1>0, <1>4, PushesArgument
  <2>2. m = Now(L, q1, tab, meta, reg) /\ Len(args) = 1
    BY <1>4, <2>1, PushOne
  <2>3. q1 \in Seq(Values) /\ Len(q1) = Len(q) + 1 /\ Dropped(q1, 1) = q
    BY <1>0, AppendParts, Drop1
  <2> HIDE DEF m, q1
  <2>4. IInv' /\ View!Answers(<<"function">>)
    BY <1>1, <2>2, <2>3, TakesUpvalues
  <2>5. View!Accepted(args)
    BY <1>4, OneArgument
  <2> QED BY <2>4, <2>5 DEF View!WithUpvalues
<1>5. CASE args = <<x, x>> /\ ~Stranger(x)
  <2> DEFINE q2 == Append(q1, x.val)
  <2>1. m1 = Now(L, q1, tab, meta, reg)
    BY <1>0, <1>5, PushesArgument
  <2>2. pushOnto(Now(L, q1, tab, meta, reg), x, L) = Now(L, q2, tab, meta, reg)
    <3> HIDE DEF q1
    <3> QED BY <1>0, <1>5, PushesArgument
  <2>3. m = Now(L, q2, tab, meta, reg) /\ Len(args) = 2
    <3>1. m = pushOnto(m1, x, L)
      BY <1>5, PushTwo
    <3> HIDE DEF m, m1, q1, q2
    <3> QED BY <1>5, <2>1, <2>2, <3>1
  <2>4. q2 \in Seq(Values) /\ Len(q2) = Len(q) + 2 /\ Dropped(q2, 2) = q
    BY <1>0, OnTop, Drop2
  <2> HIDE DEF m, q2
  <2>5. IInv' /\ View!Answers(<<"function">>)
    BY <1>1, <2>3, <2>4, TakesUpvalues
  <2>6. View!Accepted(args)
    BY <1>5, TwoArguments
  <2> QED BY <2>5, <2>6 DEF View!WithUpvalues
<1> QED BY <1>2, <1>3, <1>4, <1>5

LEMMA CombinedKeeps ==
  ASSUME IInv, NEW L \in States, NEW n \in Nat, Holds(L, n), NEW v \in Texts,
         AllTexts(Machine, L, n), Becomes(Return(lua_arith(Machine, L, n, v), "none"))
  PROVE  IInv' /\ View!Combine(L, n, v)
<1> DEFINE q == Append(Dropped(stk[L], n), v)
<1>0. Frames /\ stk[L] \in Seq(Values) /\ Machine = Now(L, stk[L], tab, meta, reg)
  BY FrameOf
<1>1. lua_arith(Machine, L, n, v) = Now(L, q, tab, meta, reg)
  BY <1>0, HeldParts, Ariths
<1> HIDE DEF q
<1>2. Return(Now(L, q, tab, meta, reg), "none") = Ended(L, q, tab, meta, reg, <<"none">>)
  BY <1>0, Returns
<1>3. Becomes(Ended(L, q, tab, meta, reg, <<"none">>))
  BY <1>1, <1>2
<1>4. v \in Values
  BY ApiAssumption DEF Values
<1> QED BY <1>3, <1>4, HeldParts, SeesCombine DEF q

\* One value stays as it is.
LEMMA ConcatKeeps ==
  ASSUME IInv, NEW L \in States, NEW n \in Nat, Holds(L, n), NEW v \in Texts,
         AllTexts(Machine, L, n), Becomes(concat(Machine, L, n, v))
  PROVE  IInv' /\ View!Concat(L, n, v)
<1>1. CASE n # 1
  <2>1. Becomes(Return(lua_arith(Machine, L, n, v), "none"))
    BY <1>1 DEF concat, lua_concat
  <2>2. IInv' /\ View!Combine(L, n, v)
    BY <2>1, CombinedKeeps
  <2> QED BY <1>1, <2>2 DEF View!Concat
<1>2. CASE n = 1
  <2>1. Frames /\ Machine = Now(L, stk[L], tab, meta, reg)
    BY FrameOf
  <2>2. Return(Machine, "none") = Ended(L, stk[L], tab, meta, reg, <<"none">>)
    BY <2>1, Returns
  <2>3. Becomes(Ended(L, stk[L], tab, meta, reg, <<"none">>))
    BY <1>2, <2>2 DEF concat, lua_concat
  <2>4. IInv' /\ View!Answers(<<"none">>)
    BY <2>3, SeesAnswer
  <2> QED BY <1>2, <2>4 DEF View!Concat
<1> QED BY <1>1, <1>2
-----------------------------------------------------------------------------
(* Every call, group by group. *)

LEMMA Called ==
  ASSUME NEW c, NEW on, NEW a, op' = <<c, on, a>>, View!Effect(c, on, a)
  PROVE  View!Next
BY DEF View!Next

LEMMA StackCallsKeep ==
  ASSUME IInv, NEW L \in States, StackCalls(AtHand(L), L)
  PROVE  IInv' /\ View!Next
<1>1. ASSUME NEW x \in Arguments, Does("push", L, <<x>>, push(Machine, L, x))
      PROVE  IInv' /\ View!Next
  <2>1. Becomes(push(Machine, L, x)) /\ op' = <<"push", L, <<x>>>>
    BY <1>1 DEF Does
  <2>2. IInv' /\ View!Push(L, x)
    BY <1>1, <2>1, PushKeeps
  <2>3. View!StackCalls("push", L, <<x>>)
    BY <2>2 DEF View!StackCalls
  <2> QED BY <2>1, <2>2, <2>3, Called DEF View!Effect
<1>2. ASSUME Holds(L, 1), NEW T \in Classes, Does("popStack", L, <<T>>, popStack(Machine, L, T))
      PROVE  IInv' /\ View!Next
  <2>1. Becomes(popStack(Machine, L, T)) /\ op' = <<"popStack", L, <<T>>>>
    BY <1>2 DEF Does
  <2>2. IInv' /\ View!PopStack(L, T)
    BY <1>2, <2>1, PopStackKeeps
  <2>3. View!StackCalls("popStack", L, <<T>>)
    BY <2>2 DEF View!StackCalls
  <2> QED BY <2>1, <2>2, <2>3, Called DEF View!Effect
<1>3. ASSUME NEW n \in 0..MaxStack, Does("multiPop", L, <<n>>, multiPop(Machine, L, n))
      PROVE  IInv' /\ View!Next
  <2>1. Becomes(multiPop(Machine, L, n)) /\ op' = <<"multiPop", L, <<n>>>>
    BY <1>3 DEF Does
  <2>2. IInv' /\ View!MultiPop(L, n)
    BY <1>3, <2>1, MultiPopKeeps
  <2>3. View!StackCalls("multiPop", L, <<n>>)
    BY <2>2 DEF View!StackCalls
  <2> QED BY <2>1, <2>2, <2>3, Called DEF View!Effect
<1>4. ASSUME NEW k \in Names, NEW x \in AtHand(L),
             Does("setGlobal", L, <<k, x>>,
                  setGlobal(Machine, L, k, x))
      PROVE  IInv' /\ View!Next
  <2>1. Becomes(setGlobal(Machine, L, k, x)) /\ op' = <<"setGlobal", L, <<k, x>>>>
    BY <1>4 DEF Does
  <2>2. IInv' /\ View!SetGlobal(L, k, x)
    BY <1>4, <2>1, SetGlobalKeeps
  <2>3. View!StackCalls("setGlobal", L, <<k, x>>)
    BY <2>2 DEF View!StackCalls
  <2> QED BY <2>1, <2>2, <2>3, Called DEF View!Effect
<1>5. ASSUME NEW k \in Names, NEW x \in AtHand(L),
             Does("proxySet", L, <<k, x>>,
                  proxySet(Machine, L, k, x))
      PROVE  IInv' /\ View!Next
  <2>1. Becomes(proxySet(Machine, L, k, x)) /\ op' = <<"proxySet", L, <<k, x>>>>
    BY <1>5 DEF Does
  <2>2. Becomes(setGlobal(Machine, L, k, x))
    BY <2>1 DEF proxySet
  <2>3. IInv' /\ View!SetGlobal(L, k, x)
    BY <1>5, <2>1, <2>2, SetGlobalKeeps
  <2>4. View!StackCalls("proxySet", L, <<k, x>>)
    BY <2>3 DEF View!StackCalls
  <2> QED BY <2>1, <2>3, <2>4, Called DEF View!Effect
<1>6. ASSUME NEW k \in Names, NEW T \in Classes,
             Does("getGlobal", L, <<T, k>>,
                  getGlobal(Machine, L, T, k))
      PROVE  IInv' /\ View!Next
  <2>1. Becomes(getGlobal(Machine, L, T, k)) /\ op' = <<"getGlobal", L, <<T, k>>>>
    BY <1>6 DEF Does
  <2>2. PICK v : v = tab[Globals][k]
    OBVIOUS
  <2>3. IInv' /\ View!Reads(L, T, v)
    BY <1>6, <2>1, <2>2, GetGlobalKeeps
  <2>4. View!StackCalls("getGlobal", L, <<T, k>>)
    BY <2>2, <2>3 DEF View!StackCalls,
            View!Reads, View!Unreadable, View!As, View!Throws, View!Answers, View!Leaves,
            View!LeavesAll, View!KeepsData, View!KeepsTables
  <2> QED BY <2>1, <2>3, <2>4, Called DEF View!Effect
<1>7. ASSUME NEW k \in Names, NEW T \in Classes,
             Does("proxyValue", L, <<T, k>>,
                  proxyValue(Machine, L, T, k))
      PROVE  IInv' /\ View!Next
  <2>1. Becomes(proxyValue(Machine, L, T, k)) /\ op' = <<"proxyValue", L, <<T, k>>>>
    BY <1>7 DEF Does
  <2>2. Becomes(getGlobal(Machine, L, T, k))
    BY <2>1 DEF proxyValue, getGlobal
  <2>3. PICK v : v = tab[Globals][k]
    OBVIOUS
  <2>4. IInv' /\ View!Reads(L, T, v)
    BY <1>7, <2>1, <2>2, <2>3, GetGlobalKeeps
  <2>5. View!StackCalls("proxyValue", L, <<T, k>>)
    BY <2>3, <2>4 DEF View!StackCalls,
            View!Reads, View!Unreadable, View!As, View!Throws, View!Answers, View!Leaves,
            View!LeavesAll, View!KeepsData, View!KeepsTables
  <2> QED BY <2>1, <2>4, <2>5, Called DEF View!Effect
<1> QED BY <1>1, <1>2, <1>3, <1>4, <1>5, <1>6, <1>7, Zenon DEF StackCalls

LEMMA GlobalCallsKeep ==
  ASSUME IInv, NEW L \in States, GlobalCalls(L)
  PROVE  IInv' /\ View!Next
<1>1. ASSUME NEW k \in Names, Does("retrieveGlobal", L, <<k>>, retrieveGlobal(Machine, L, k))
      PROVE  IInv' /\ View!Next
  <2>1. Becomes(retrieveGlobal(Machine, L, k)) /\ op' = <<"retrieveGlobal", L, <<k>>>>
    BY <1>1 DEF Does
  <2>2. PICK v : v = tab[Globals][k]
    OBVIOUS
  <2>3. IInv' /\ View!Pushes(L, v)
    BY <1>1, <2>1, <2>2, RetrieveGlobalKeeps
  <2>4. View!GlobalCalls("retrieveGlobal", L, <<k>>)
    BY <2>2, <2>3 DEF View!GlobalCalls,
            View!Pushes, View!Leaves, View!KeepsData, View!KeepsTables
  <2> QED BY <2>1, <2>3, <2>4, Called DEF View!Effect
<1>2. ASSUME NEW k \in Names, Does("eraseGlobal", L, <<k>>, eraseGlobal(Machine, L, k))
      PROVE  IInv' /\ View!Next
  <2>1. Becomes(eraseGlobal(Machine, L, k)) /\ op' = <<"eraseGlobal", L, <<k>>>>
    BY <1>2 DEF Does
  <2>2. IInv' /\ View!Stores(Globals, k, Nil)
    BY <1>2, <2>1, EraseGlobalKeeps
  <2>3. View!GlobalCalls("eraseGlobal", L, <<k>>)
    BY <2>2 DEF View!GlobalCalls
  <2> QED BY <2>1, <2>2, <2>3, Called DEF View!Effect
<1>3. ASSUME Does("retrieveGlobalsTable", L, <<>>, retrieveGlobalsTable(Machine, L))
      PROVE  IInv' /\ View!Next
  <2>1. Becomes(retrieveGlobalsTable(Machine, L)) /\ op' = <<"retrieveGlobalsTable", L, <<>>>>
    BY <1>3 DEF Does
  <2>2. IInv' /\ View!Pushes(L, Globals)
    BY <1>3, <2>1, RetrieveGlobalsTableKeeps
  <2>3. View!GlobalCalls("retrieveGlobalsTable", L, <<>>)
    BY <2>2 DEF View!GlobalCalls
  <2> QED BY <2>1, <2>2, <2>3, Called DEF View!Effect
<1>4. ASSUME Does("getGlobalsTable", L, <<>>, getGlobalsTable(Machine, L))
      PROVE  IInv' /\ View!Next
  <2>1. Becomes(getGlobalsTable(Machine, L)) /\ op' = <<"getGlobalsTable", L, <<>>>>
    BY <1>4 DEF Does
  <2>2. IInv' /\ View!Answers(<<"table", Globals>>)
    BY <1>4, <2>1, GetGlobalsTableKeeps
  <2>3. View!GlobalCalls("getGlobalsTable", L, <<>>)
    BY <2>2 DEF View!GlobalCalls
  <2> QED BY <2>1, <2>2, <2>3, Called DEF View!Effect
<1>5. ASSUME NEW idx \in {-1, -2}, Does("type", L, <<idx>>, type(Machine, L, idx))
      PROVE  IInv' /\ View!Next
  <2>1. Becomes(type(Machine, L, idx)) /\ op' = <<"type", L, <<idx>>>>
    BY <1>5 DEF Does
  <2>2. IInv' /\ View!Type(L)
    BY <1>5, <2>1, TypeKeeps
  <2>3. View!GlobalCalls("type", L, <<idx>>)
    BY <2>2 DEF View!GlobalCalls
  <2> QED BY <2>1, <2>2, <2>3, Called DEF View!Effect
<1> QED BY <1>1, <1>2, <1>3, <1>4, <1>5, Zenon DEF GlobalCalls

\* The upvalues withUpvalues is called with, one by one.
LEMMA UpvalueLists ==
  ASSUME NEW x, NEW n \in 0..2
  PROVE  LET list == [i \in 1..n |-> x]
         IN  list = <<>> \/ list = <<x>> \/ list = <<x, x>>
<1>1. CASE n = 0
  BY <1>1
<1>2. CASE n = 1
  BY <1>2
<1>3. CASE n = 2
  BY <1>3
<1> QED BY <1>1, <1>2, <1>3

LEMMA TableMakingKeeps ==
  ASSUME IInv, NEW L \in States, TableMaking(AtHand(L), L)
  PROVE  IInv' /\ View!Next
<1>1. ASSUME NEW t \in Tables, Unreferenced(Machine, t),
             Does("pushNewTable", L, <<t>>,
                  pushNewTable(Machine, L, t))
      PROVE  IInv' /\ View!Next
  <2>1. Becomes(pushNewTable(Machine, L, t)) /\ op' = <<"pushNewTable", L, <<t>>>>
    BY <1>1 DEF Does
  <2>2. IInv' /\ View!PushNew(L, t)
    BY <1>1, <2>1, PushNewTableKeeps
  <2>3. View!CreateCalls("pushNewTable", L, <<t>>)
    BY <2>2 DEF View!CreateCalls
  <2> QED BY <2>1, <2>2, <2>3, Called DEF View!Effect
<1>2. ASSUME NEW t \in Tables, Unreferenced(Machine, t),
             Does("createNewTable", L, <<t>>,
                  createNewTable(Machine, L, t))
      PROVE  IInv' /\ View!Next
  <2>1. Becomes(createNewTable(Machine, L, t)) /\ op' = <<"createNewTable", L, <<t>>>>
    BY <1>2 DEF Does
  <2>2. IInv' /\ View!Make(t, View!Blank)
    BY <1>2, <2>1, CreateNewTableKeeps, EmptyParts
  <2>3. View!CreateCalls("createNewTable", L, <<t>>)
    BY <2>2 DEF View!CreateCalls
  <2> QED BY <2>1, <2>2, <2>3, Called DEF View!Effect
<1>3. ASSUME NEW t \in Tables, Unreferenced(Machine, t), NEW X, X \subseteq AtHand(L),
             NEW entries \in EntryLists(X, L),
             Does("makeTable", L, <<t, entries>>,
                  makeTable(Machine, L, t, entries))
      PROVE  IInv' /\ View!Next
  <2>1. Becomes(makeTable(Machine, L, t, entries)) /\ op' = <<"makeTable", L, <<t, entries>>>>
    BY <1>3 DEF Does
  <2>2. IInv' /\ View!MakeTable(L, t, entries)
    BY <1>3, <2>1, MakeTableKeeps
  <2>3. View!CreateCalls("makeTable", L, <<t, entries>>)
    BY <2>2 DEF View!CreateCalls
  <2> QED BY <2>1, <2>2, <2>3, Called DEF View!Effect
<1>4. \A t : {x \in AtHand(L) : x.val # t} \subseteq AtHand(L)
  OBVIOUS
<1> QED BY <1>1, <1>2, <1>3, <1>4, Zenon DEF TableMaking

LEMMA CreateCallsKeep ==
  ASSUME IInv, NEW L \in States, CreateCalls(AtHand(L), L)
  PROVE  IInv' /\ View!Next
<1>1. ASSUME NEW v \in Plain, NEW n \in 0..MaxStack, Holds(L, n),
             Does("pushCClosure", L, <<n, v>>,
                  pushCClosure(Machine, L, n, v))
      PROVE  IInv' /\ View!Next
  <2>1. Becomes(pushCClosure(Machine, L, n, v)) /\ op' = <<"pushCClosure", L, <<n, v>>>>
    BY <1>1 DEF Does
  <2>2. n \in Nat
    BY FrameAssumption
  <2>3. IInv' /\ View!Combine(L, n, v)
    BY <1>1, <2>1, <2>2, PushCClosureKeeps
  <2>4. View!CreateCalls("pushCClosure", L, <<n, v>>)
    BY <2>3 DEF View!CreateCalls
  <2> QED BY <2>1, <2>3, <2>4, Called DEF View!Effect
<1>2. ASSUME NEW v \in Plain, NEW n \in 0..MaxStack, Holds(L, n),
             Does("createCClosureStackUpvalues", L, <<n>>,
                  createCClosureStackUpvalues(Machine, L, n, v))
      PROVE  IInv' /\ View!Next
  <2>1. /\ Becomes(createCClosureStackUpvalues(Machine, L, n, v))
        /\ op' = <<"createCClosureStackUpvalues", L, <<n>>>>
    BY <1>2 DEF Does
  <2>2. n \in Nat
    BY FrameAssumption
  <2>3. IInv' /\ View!Take(L, n)
    BY <1>2, <2>1, <2>2, CreateCClosureKeeps
  <2>4. View!CreateCalls("createCClosureStackUpvalues", L, <<n>>)
    BY <2>3 DEF View!CreateCalls
  <2> QED BY <2>1, <2>3, <2>4, Called DEF View!Effect
<1>3. ASSUME NEW v \in Plain, NEW x \in AtHand(L), NEW n \in 0..2, NEW xs,
             xs = [i \in 1..n |-> x],
             Does("withUpvalues", L, <<xs>>,
                  withUpvalues(Machine, L, xs, v))
      PROVE  IInv' /\ View!Next
  <2>1. Becomes(withUpvalues(Machine, L, xs, v)) /\ op' = <<"withUpvalues", L, <<xs>>>>
    BY <1>3 DEF Does
  <2>2. xs = <<>> \/ xs = <<x>> \/ xs = <<x, x>>
    BY <1>3, UpvalueLists
  <2>3. IInv' /\ View!WithUpvalues(L, xs)
    BY <1>3, <2>1, <2>2, WithUpvaluesKeeps
  <2>4. View!CreateCalls("withUpvalues", L, <<xs>>)
    BY <2>3 DEF View!CreateCalls
  <2> QED BY <2>1, <2>3, <2>4, Called DEF View!Effect
<1>4. ASSUME NEW v \in Texts, NEW n \in 0..2, Holds(L, n), AllTexts(Machine, L, n),
             Does("concat", L, <<n, v>>,
                  concat(Machine, L, n, v))
      PROVE  IInv' /\ View!Next
  <2>1. Becomes(concat(Machine, L, n, v)) /\ op' = <<"concat", L, <<n, v>>>>
    BY <1>4 DEF Does
  <2>2. IInv' /\ View!Concat(L, n, v)
    BY <1>4, <2>1, ConcatKeeps
  <2>3. View!CreateCalls("concat", L, <<n, v>>)
    BY <2>2 DEF View!CreateCalls
  <2> QED BY <2>1, <2>2, <2>3, Called DEF View!Effect
<1>5. ASSUME NEW v \in Texts, NEW n \in 1..2, Holds(L, n), AllTexts(Machine, L, n),
             Does("arith", L, <<n, v>>,
                  arith(Machine, L, n, v))
      PROVE  IInv' /\ View!Next
  <2>1. Becomes(arith(Machine, L, n, v)) /\ op' = <<"arith", L, <<n, v>>>>
    BY <1>5 DEF Does
  <2>2. Becomes(Return(lua_arith(Machine, L, n, v), "none"))
    BY <2>1 DEF arith
  <2>3. IInv' /\ View!Combine(L, n, v)
    BY <1>5, <2>1, <2>2, CombinedKeeps
  <2>4. View!CreateCalls("arith", L, <<n, v>>)
    BY <2>3 DEF View!CreateCalls
  <2> QED BY <2>1, <2>3, <2>4, Called DEF View!Effect
<1> QED BY <1>1, <1>2, <1>3, <1>4, <1>5, TableMakingKeeps, Zenon DEF CreateCalls

LEMMA RegistryCallsKeep ==
  ASSUME IInv, NEW L \in States, RegistryCalls(AtHand(L), L)
  PROVE  IInv' /\ View!Next
<1>1. ASSUME NEW k \in Names,
             Does("registryRetrieveField", L, <<k>>,
                  registryRetrieveField(Machine, L, k))
      PROVE  IInv' /\ View!Next
  <2>1. Becomes(registryRetrieveField(Machine, L, k)) /\ op' = <<"registryRetrieveField", L, <<k>>>>
    BY <1>1 DEF Does
  <2>2. PICK v : v = reg[k]
    OBVIOUS
  <2>3. IInv' /\ View!Pushes(L, v)
    BY <1>1, <2>1, <2>2, RetrieveFieldRegKeeps
  <2>4. View!RegistryCalls("registryRetrieveField", L, <<k>>)
    BY <2>2, <2>3 DEF View!RegistryCalls,
            View!Pushes, View!Leaves, View!KeepsData, View!KeepsTables
  <2> QED BY <2>1, <2>3, <2>4, Called DEF View!Effect
<1>2. ASSUME NEW k \in Names, NEW T \in Classes,
             Does("readField", L, <<T, k>>,
                  readField(Machine, L, T, k))
      PROVE  IInv' /\ View!Next
  <2>1. Becomes(readField(Machine, L, T, k)) /\ op' = <<"readField", L, <<T, k>>>>
    BY <1>2 DEF Does
  <2>2. PICK v : v = reg[k]
    OBVIOUS
  <2>3. IInv' /\ View!Reads(L, T, v)
    BY <1>2, <2>1, <2>2, ReadFieldKeeps
  <2>4. View!RegistryCalls("readField", L, <<T, k>>)
    BY <2>2, <2>3 DEF View!RegistryCalls,
            View!Reads, View!Unreadable, View!As, View!Throws, View!Answers, View!Leaves,
            View!LeavesAll, View!KeepsData, View!KeepsTables
  <2> QED BY <2>1, <2>3, <2>4, Called DEF View!Effect
<1>3. ASSUME NEW k \in Names, NEW x \in AtHand(L),
             Does("writeField", L, <<k, x>>,
                  writeField(Machine, L, k, x))
      PROVE  IInv' /\ View!Next
  <2>1. Becomes(writeField(Machine, L, k, x)) /\ op' = <<"writeField", L, <<k, x>>>>
    BY <1>3 DEF Does
  <2>2. IInv' /\ View!WriteField(L, k, x)
    BY <1>3, <2>1, WriteFieldKeeps
  <2>3. View!RegistryCalls("writeField", L, <<k, x>>)
    BY <2>2 DEF View!RegistryCalls
  <2> QED BY <2>1, <2>2, <2>3, Called DEF View!Effect
<1>4. ASSUME NEW k \in Names, Does("storeField", L, <<k>>, storeField(Machine, L, k))
      PROVE  IInv' /\ View!Next
  <2>1. Becomes(storeField(Machine, L, k)) /\ op' = <<"storeField", L, <<k>>>>
    BY <1>4 DEF Does
  <2>2. IInv' /\ View!StoreField(L, k)
    BY <1>4, <2>1, StoreFieldKeeps
  <2>3. View!RegistryCalls("storeField", L, <<k>>)
    BY <2>2 DEF View!RegistryCalls
  <2> QED BY <2>1, <2>2, <2>3, Called DEF View!Effect
<1>5. ASSUME Holds(L, 1), Does("registryRetrieveStack", L, <<>>, registryRetrieveStack(Machine, L))
      PROVE  IInv' /\ View!Next
  <2>1. Becomes(registryRetrieveStack(Machine, L)) /\ op' = <<"registryRetrieveStack", L, <<>>>>
    BY <1>5 DEF Does
  <2>2. IInv' /\ View!RetrieveStack(L)
    BY <1>5, <2>1, RetrieveStackKeeps
  <2>3. View!RegistryCalls("registryRetrieveStack", L, <<>>)
    BY <2>2 DEF View!RegistryCalls
  <2> QED BY <2>1, <2>2, <2>3, Called DEF View!Effect
<1>6. ASSUME NEW k \in AtHand(L),
             Does("registryRetrieveKey", L, <<k>>,
                  registryRetrieveKey(Machine, L, k))
      PROVE  IInv' /\ View!Next
  <2>1. Becomes(registryRetrieveKey(Machine, L, k)) /\ op' = <<"registryRetrieveKey", L, <<k>>>>
    BY <1>6 DEF Does
  <2>2. IInv' /\ View!RetrieveKey(L, k)
    BY <1>6, <2>1, RetrieveKeyKeeps
  <2>3. View!RegistryCalls("registryRetrieveKey", L, <<k>>)
    BY <2>2 DEF View!RegistryCalls
  <2> QED BY <2>1, <2>2, <2>3, Called DEF View!Effect
<1>7. ASSUME NEW k \in AtHand(L), NEW T \in KeyClasses(k),
             Does("readKey", L, <<T, k>>,
                  readKey(Machine, L, T, k))
      PROVE  IInv' /\ View!Next
  <2>1. Becomes(readKey(Machine, L, T, k)) /\ op' = <<"readKey", L, <<T, k>>>>
    BY <1>7 DEF Does
  <2>2. IInv' /\ View!ReadKey(L, T, k)
    BY <1>7, <2>1, ReadKeyKeeps
  <2>3. View!RegistryCalls("readKey", L, <<T, k>>)
    BY <2>2 DEF View!RegistryCalls
  <2> QED BY <2>1, <2>2, <2>3, Called DEF View!Effect
<1>8. ASSUME NEW k \in AtHand(L), ~isNil(k), NEW x \in AtHand(L),
             Does("writeKey", L, <<k, x>>,
                  writeKey(Machine, L, k, x))
      PROVE  IInv' /\ View!Next
  <2>1. Becomes(writeKey(Machine, L, k, x)) /\ op' = <<"writeKey", L, <<k, x>>>>
    BY <1>8 DEF Does
  <2>2. IInv' /\ View!WriteKey(L, k, x)
    BY <1>8, <2>1, WriteKeyKeeps
  <2>3. View!RegistryCalls("writeKey", L, <<k, x>>)
    BY <2>2 DEF View!RegistryCalls
  <2> QED BY <2>1, <2>2, <2>3, Called DEF View!Effect
<1>9. ASSUME NEW k \in AtHand(L), ~isNil(k), Holds(L, 2),
             Does("storeKey", L, <<k>>,
                  storeKey(Machine, L, k))
      PROVE  IInv' /\ View!Next
  <2>1. Becomes(storeKey(Machine, L, k)) /\ op' = <<"storeKey", L, <<k>>>>
    BY <1>9 DEF Does
  <2>2. IInv' /\ View!StoreKey(L, k)
    BY <1>9, <2>1, StoreKeyKeeps
  <2>3. View!RegistryCalls("storeKey", L, <<k>>)
    BY <2>2 DEF View!RegistryCalls
  <2> QED BY <2>1, <2>2, <2>3, Called DEF View!Effect
<1> QED BY <1>1, <1>2, <1>3, <1>4, <1>5, <1>6, <1>7, <1>8, <1>9, Zenon DEF RegistryCalls

LEMMA TableCallsKeep ==
  ASSUME IInv, NEW L \in States, NEW h \in BoundTo(TableHandles, L), TableCalls(AtHand(L), h)
  PROVE  IInv' /\ View!Next
<1>0. h.at = L
  BY HandleParts
<1>1. ASSUME NEW k \in AtHand(L), NEW x \in AtHand(L),
             Does("set", h, <<k, x>>,
                  set(Machine, h, k, x))
      PROVE  IInv' /\ View!Next
  <2>1. Becomes(set(Machine, h, k, x)) /\ op' = <<"set", h, <<k, x>>>>
    BY <1>1 DEF Does
  <2>2. IInv' /\ View!Set(h, k, x)
    BY <1>1, <2>1, SetKeeps
  <2>3. View!TableCalls("set", h, <<k, x>>)
    BY <2>2 DEF View!TableCalls
  <2> QED BY <2>1, <2>2, <2>3, Called DEF View!Effect
<1>2. ASSUME NEW k \in AtHand(L), NEW x \in AtHand(L),
             Does("setRaw", h, <<k, x>>,
                  setRaw(Machine, h, k, x))
      PROVE  IInv' /\ View!Next
  <2>1. Becomes(setRaw(Machine, h, k, x)) /\ op' = <<"setRaw", h, <<k, x>>>>
    BY <1>2 DEF Does
  <2>2. Becomes(set(Machine, h, k, x))
    BY <2>1 DEF setRaw
  <2>3. IInv' /\ View!Set(h, k, x)
    BY <1>2, <2>1, <2>2, SetKeeps
  <2>4. View!TableCalls("setRaw", h, <<k, x>>)
    BY <2>3 DEF View!TableCalls
  <2> QED BY <2>1, <2>3, <2>4, Called DEF View!Effect
<1>3. ASSUME NEW k \in AtHand(L), NEW x \in AtHand(L),
             Does("indexedSet", h, <<k, x>>, Indexed(Machine, k, set(Machine, h, k, x)))
      PROVE  IInv' /\ View!Next
  <2> DEFINE call == set(Machine, h, k, x)
  <2>1. Becomes(Indexed(Machine, k, call)) /\ op' = <<"indexedSet", h, <<k, x>>>>
    BY <1>3 DEF Does
  <2>2. CASE isNil(k)
    <3> HIDE DEF call
    <3>1. IInv' /\ View!NoIndex(h)
      BY <2>1, <2>2, NilIndexKeeps
    <3>2. View!IndexedCalls("indexedSet", h, <<k, x>>)
      BY <2>2, <3>1 DEF View!IndexedCalls, isNil
    <3> QED BY <2>1, <3>1, <3>2, Called DEF View!Effect
  <2>3. CASE ~isNil(k)
    <3>1. Becomes(call)
      <4> HIDE DEF call
      <4> QED BY <2>1, <2>3 DEF Indexed
    <3>2. IInv' /\ View!Set(h, k, x)
      BY <3>1, SetKeeps
    <3>3. View!IndexedCalls("indexedSet", h, <<k, x>>)
      BY <2>3, <3>2 DEF View!IndexedCalls, isNil
    <3> QED BY <2>1, <3>2, <3>3, Called DEF View!Effect
  <2> QED BY <2>2, <2>3
<1>4. ASSUME Holds(h.at, 2), Does("setStackKV", h, <<>>, setStackKV(Machine, h))
      PROVE  IInv' /\ View!Next
  <2>1. Becomes(setStackKV(Machine, h)) /\ op' = <<"setStackKV", h, <<>>>>
    BY <1>4 DEF Does
  <2>2. Holds(L, 2)
    BY <1>0, <1>4
  <2>3. IInv' /\ View!SetStackKV(h)
    BY <1>4, <2>1, <2>2, SetStackKVKeeps
  <2>4. View!TableCalls("setStackKV", h, <<>>)
    BY <2>3 DEF View!TableCalls
  <2> QED BY <2>1, <2>3, <2>4, Called DEF View!Effect
<1>5. ASSUME Holds(h.at, 2), Does("setRawStackKV", h, <<>>, setRawStackKV(Machine, h))
      PROVE  IInv' /\ View!Next
  <2>1. Becomes(setRawStackKV(Machine, h)) /\ op' = <<"setRawStackKV", h, <<>>>>
    BY <1>5 DEF Does
  <2>2. Becomes(setStackKV(Machine, h))
    BY <2>1 DEF setRawStackKV
  <2>3. Holds(L, 2)
    BY <1>0, <1>5
  <2>4. IInv' /\ View!SetStackKV(h)
    BY <1>5, <2>1, <2>2, <2>3, SetStackKVKeeps
  <2>5. View!TableCalls("setRawStackKV", h, <<>>)
    BY <2>4 DEF View!TableCalls
  <2> QED BY <2>1, <2>4, <2>5, Called DEF View!Effect
<1>6. ASSUME NEW k \in Names, NEW x \in AtHand(L),
             Does("setField", h, <<k, x>>,
                  setField(Machine, h, k, x))
      PROVE  IInv' /\ View!Next
  <2>1. Becomes(setField(Machine, h, k, x)) /\ op' = <<"setField", h, <<k, x>>>>
    BY <1>6 DEF Does
  <2>2. IInv' /\ View!SetField(h, k, x)
    BY <1>6, <2>1, SetFieldKeeps
  <2>3. View!TableCalls("setField", h, <<k, x>>)
    BY <2>2 DEF View!TableCalls
  <2> QED BY <2>1, <2>2, <2>3, Called DEF View!Effect
<1>7. ASSUME NEW k \in Names, NEW x \in AtHand(L),
             Does("setRawi", h, <<k, x>>,
                  setRawi(Machine, h, k, x))
      PROVE  IInv' /\ View!Next
  <2>1. Becomes(setRawi(Machine, h, k, x)) /\ op' = <<"setRawi", h, <<k, x>>>>
    BY <1>7 DEF Does
  <2>2. Becomes(setField(Machine, h, k, x))
    BY <2>1 DEF setRawi
  <2>3. IInv' /\ View!SetField(h, k, x)
    BY <1>7, <2>1, <2>2, SetFieldKeeps
  <2>4. View!TableCalls("setRawi", h, <<k, x>>)
    BY <2>3 DEF View!TableCalls
  <2> QED BY <2>1, <2>3, <2>4, Called DEF View!Effect
<1>8. ASSUME NEW k \in AtHand(L), Does("retrieve", h, <<k>>, retrieve(Machine, h, k))
      PROVE  IInv' /\ View!Next
  <2>1. Becomes(retrieve(Machine, h, k)) /\ op' = <<"retrieve", h, <<k>>>>
    BY <1>8 DEF Does
  <2>2. IInv' /\ View!Retrieve(h, k)
    BY <1>8, <2>1, RetrieveKeeps
  <2>3. View!TableCalls("retrieve", h, <<k>>)
    BY <2>2 DEF View!TableCalls
  <2> QED BY <2>1, <2>2, <2>3, Called DEF View!Effect
<1>9. ASSUME NEW k \in AtHand(L), Does("retrieveRaw", h, <<k>>, retrieveRaw(Machine, h, k))
      PROVE  IInv' /\ View!Next
  <2>1. Becomes(retrieveRaw(Machine, h, k)) /\ op' = <<"retrieveRaw", h, <<k>>>>
    BY <1>9 DEF Does
  <2>2. Becomes(retrieve(Machine, h, k))
    BY <2>1 DEF retrieveRaw
  <2>3. IInv' /\ View!Retrieve(h, k)
    BY <1>9, <2>1, <2>2, RetrieveKeeps
  <2>4. View!TableCalls("retrieveRaw", h, <<k>>)
    BY <2>3 DEF View!TableCalls
  <2> QED BY <2>1, <2>3, <2>4, Called DEF View!Effect
<1>10. ASSUME NEW k \in AtHand(L), NEW T \in Classes,
             Does("get", h, <<T, k>>,
                  get(Machine, h, T, k))
      PROVE  IInv' /\ View!Next
  <2>1. Becomes(get(Machine, h, T, k)) /\ op' = <<"get", h, <<T, k>>>>
    BY <1>10 DEF Does
  <2>2. IInv' /\ View!Get(h, T, k)
    BY <1>10, <2>1, GetKeeps
  <2>3. View!TableCalls("get", h, <<T, k>>)
    BY <2>2 DEF View!TableCalls
  <2> QED BY <2>1, <2>2, <2>3, Called DEF View!Effect
<1>11. ASSUME NEW k \in AtHand(L), NEW T \in Classes,
             Does("indexedGet", h, <<T, k>>, Indexed(Machine, k, get(Machine, h, T, k)))
      PROVE  IInv' /\ View!Next
  <2> DEFINE call == get(Machine, h, T, k)
  <2>1. Becomes(Indexed(Machine, k, call)) /\ op' = <<"indexedGet", h, <<T, k>>>>
    BY <1>11 DEF Does
  <2>2. CASE isNil(k)
    <3> HIDE DEF call
    <3>1. IInv' /\ View!NoIndex(h)
      BY <2>1, <2>2, NilIndexKeeps
    <3>2. View!IndexedCalls("indexedGet", h, <<T, k>>)
      BY <2>2, <3>1 DEF View!IndexedCalls, isNil
    <3> QED BY <2>1, <3>1, <3>2, Called DEF View!Effect
  <2>3. CASE ~isNil(k)
    <3>1. Becomes(call)
      <4> HIDE DEF call
      <4> QED BY <2>1, <2>3 DEF Indexed
    <3>2. IInv' /\ View!Get(h, T, k)
      BY <3>1, GetKeeps
    <3>3. View!IndexedCalls("indexedGet", h, <<T, k>>)
      BY <2>3, <3>2 DEF View!IndexedCalls, isNil
    <3> QED BY <2>1, <3>2, <3>3, Called DEF View!Effect
  <2> QED BY <2>2, <2>3
<1>12. ASSUME Holds(h.at, 1), Does("retrieveStackK", h, <<>>, retrieveStackK(Machine, h))
      PROVE  IInv' /\ View!Next
  <2>1. Becomes(retrieveStackK(Machine, h)) /\ op' = <<"retrieveStackK", h, <<>>>>
    BY <1>12 DEF Does
  <2>2. Holds(L, 1)
    BY <1>0, <1>12
  <2>3. IInv' /\ View!RetrieveStackK(h)
    BY <1>12, <2>1, <2>2, RetrieveStackKKeeps
  <2>4. View!TableCalls("retrieveStackK", h, <<>>)
    BY <2>3 DEF View!TableCalls
  <2> QED BY <2>1, <2>3, <2>4, Called DEF View!Effect
<1>13. ASSUME Holds(h.at, 1), Does("retrieveRawStackK", h, <<>>, retrieveRawStackK(Machine, h))
      PROVE  IInv' /\ View!Next
  <2>1. Becomes(retrieveRawStackK(Machine, h)) /\ op' = <<"retrieveRawStackK", h, <<>>>>
    BY <1>13 DEF Does
  <2>2. Becomes(retrieveStackK(Machine, h))
    BY <2>1 DEF retrieveRawStackK
  <2>3. Holds(L, 1)
    BY <1>0, <1>13
  <2>4. IInv' /\ View!RetrieveStackK(h)
    BY <1>13, <2>1, <2>2, <2>3, RetrieveStackKKeeps
  <2>5. View!TableCalls("retrieveRawStackK", h, <<>>)
    BY <2>4 DEF View!TableCalls
  <2> QED BY <2>1, <2>4, <2>5, Called DEF View!Effect
<1>14. ASSUME NEW k \in Names, Does("retrieveField", h, <<k>>, retrieveField(Machine, h, k))
      PROVE  IInv' /\ View!Next
  <2>1. Becomes(retrieveField(Machine, h, k)) /\ op' = <<"retrieveField", h, <<k>>>>
    BY <1>14 DEF Does
  <2>2. PICK v : v = tab[h.val][k]
    OBVIOUS
  <2>3. IInv' /\ View!Pushes(h.at, v)
    BY <1>14, <2>1, <2>2, RetrieveFieldKeeps
  <2>4. View!TableCalls("retrieveField", h, <<k>>)
    BY <2>2, <2>3 DEF View!TableCalls,
            View!Pushes, View!Leaves, View!KeepsData, View!KeepsTables
  <2> QED BY <2>1, <2>3, <2>4, Called DEF View!Effect
<1>15. ASSUME NEW k \in Names, Does("retrieveI", h, <<k>>, retrieveI(Machine, h, k))
      PROVE  IInv' /\ View!Next
  <2>1. Becomes(retrieveI(Machine, h, k)) /\ op' = <<"retrieveI", h, <<k>>>>
    BY <1>15 DEF Does
  <2>2. Becomes(retrieveField(Machine, h, k))
    BY <2>1 DEF retrieveI
  <2>3. PICK v : v = tab[h.val][k]
    OBVIOUS
  <2>4. IInv' /\ View!Pushes(h.at, v)
    BY <1>15, <2>1, <2>2, <2>3, RetrieveFieldKeeps
  <2>5. View!TableCalls("retrieveI", h, <<k>>)
    BY <2>3, <2>4 DEF View!TableCalls,
            View!Pushes, View!Leaves, View!KeepsData, View!KeepsTables
  <2> QED BY <2>1, <2>4, <2>5, Called DEF View!Effect
<1>16. ASSUME NEW k \in Names, NEW T \in Classes,
             Does("getField", h, <<T, k>>,
                  getField(Machine, h, T, k))
      PROVE  IInv' /\ View!Next
  <2>1. Becomes(getField(Machine, h, T, k)) /\ op' = <<"getField", h, <<T, k>>>>
    BY <1>16 DEF Does
  <2>2. PICK v : v = tab[h.val][k]
    OBVIOUS
  <2>3. IInv' /\ View!Reads(h.at, T, v)
    BY <1>16, <2>1, <2>2, GetFieldKeeps
  <2>4. View!TableCalls("getField", h, <<T, k>>)
    BY <2>2, <2>3 DEF View!TableCalls,
            View!Reads, View!Unreadable, View!As, View!Throws, View!Answers, View!Leaves,
            View!LeavesAll, View!KeepsData, View!KeepsTables
  <2> QED BY <2>1, <2>3, <2>4, Called DEF View!Effect
<1>17. ASSUME NEW k \in Names, NEW T \in Classes, Does("getI", h, <<T, k>>, getI(Machine, h, T, k))
      PROVE  IInv' /\ View!Next
  <2>1. Becomes(getI(Machine, h, T, k)) /\ op' = <<"getI", h, <<T, k>>>>
    BY <1>17 DEF Does
  <2>2. Becomes(getField(Machine, h, T, k))
    BY <2>1 DEF getI
  <2>3. PICK v : v = tab[h.val][k]
    OBVIOUS
  <2>4. IInv' /\ View!Reads(h.at, T, v)
    BY <1>17, <2>1, <2>2, <2>3, GetFieldKeeps
  <2>5. View!TableCalls("getI", h, <<T, k>>)
    BY <2>3, <2>4 DEF View!TableCalls,
            View!Reads, View!Unreadable, View!As, View!Throws, View!Answers, View!Leaves,
            View!LeavesAll, View!KeepsData, View!KeepsTables
  <2> QED BY <2>1, <2>4, <2>5, Called DEF View!Effect
<1>18. ASSUME Does("len", h, <<>>, len(Machine, h))
      PROVE  IInv' /\ View!Next
  <2>1. Becomes(len(Machine, h)) /\ op' = <<"len", h, <<>>>>
    BY <1>18 DEF Does
  <2>2. IInv' /\ View!LenOf(h)
    BY <1>18, <2>1, LenKeeps
  <2>3. View!TableCalls("len", h, <<>>)
    BY <2>2 DEF View!TableCalls
  <2> QED BY <2>1, <2>2, <2>3, Called DEF View!Effect
<1> QED
  BY <1>1, <1>2, <1>3, <1>4, <1>5, <1>6, <1>7, <1>8, <1>9, <1>10, <1>11, <1>12,
     <1>13, <1>14, <1>15, <1>16, <1>17, <1>18, Zenon
     DEF TableCalls

LEMMA MetatableCallsKeep ==
  ASSUME IInv, NEW L \in States, NEW h \in BoundTo(TableHandles, L),
         MetatableCalls(BoundTo(TableHandles, L), h)
  PROVE  IInv' /\ View!Next
<1>0. h.at = L
  BY HandleParts
<1>1. ASSUME NEW mt \in BoundTo(TableHandles, L),
             Does("setMetatable", h, <<mt>>,
                  setMetatable(Machine, h, mt))
      PROVE  IInv' /\ View!Next
  <2>1. Becomes(setMetatable(Machine, h, mt)) /\ op' = <<"setMetatable", h, <<mt>>>>
    BY <1>1 DEF Does
  <2>2. IInv' /\ View!SetMetatable(h, mt)
    BY <1>1, <2>1, SetMetatableKeeps
  <2>3. View!MetatableCalls("setMetatable", h, <<mt>>)
    BY <2>2 DEF View!MetatableCalls
  <2> QED BY <2>1, <2>2, <2>3, Called DEF View!Effect
<1>2. ASSUME Holds(h.at, 2), Top(Machine, h.at, 1) \in Tables \cup {Nil},
             Does("setMetatableStack", h, <<>>,
                  setMetatableStack(Machine, h))
      PROVE  IInv' /\ View!Next
  <2>1. Becomes(setMetatableStack(Machine, h)) /\ op' = <<"setMetatableStack", h, <<>>>>
    BY <1>2 DEF Does
  <2>2. Holds(L, 2) /\ Top(Machine, L, 1) \in Tables \cup {Nil}
    BY <1>0, <1>2
  <2>3. IInv' /\ View!SetMetatableStack(h)
    BY <1>2, <2>1, <2>2, SetMetatableStackKeeps
  <2>4. View!MetatableCalls("setMetatableStack", h, <<>>)
    BY <2>3 DEF View!MetatableCalls
  <2> QED BY <2>1, <2>3, <2>4, Called DEF View!Effect
<1>3. ASSUME NEW o \in BoundTo(TableHandles, L), Does("equals", h, <<o>>, equals(Machine, h, o))
      PROVE  IInv' /\ View!Next
  <2>1. Becomes(equals(Machine, h, o)) /\ op' = <<"equals", h, <<o>>>>
    BY <1>3 DEF Does
  <2>2. IInv' /\ View!Equals(h, o)
    BY <1>3, <2>1, EqualsKeeps
  <2>3. View!MetatableCalls("equals", h, <<o>>)
    BY <2>2 DEF View!MetatableCalls
  <2> QED BY <2>1, <2>2, <2>3, Called DEF View!Effect
<1> QED BY <1>1, <1>2, <1>3, Zenon DEF MetatableCalls

LEMMA NextKeeps ==
  ASSUME IInv, Next
  PROVE  IInv' /\ View!Next
<1>1. PICK L \in States :
        \/ StackCalls(AtHand(L), L)
        \/ GlobalCalls(L)
        \/ CreateCalls(AtHand(L), L)
        \/ RegistryCalls(AtHand(L), L)
        \/ \E h \in BoundTo(TableHandles, L) :
             TableCalls(AtHand(L), h) \/ MetatableCalls(BoundTo(TableHandles, L), h)
  BY DEF Next
<1> QED
  BY <1>1, StackCallsKeep, GlobalCallsKeep, CreateCallsKeep, RegistryCallsKeep, TableCallsKeep,
     MetatableCallsKeep
-----------------------------------------------------------------------------
(* The bound on what the client leaves bounds every frame. *)

ClientSlots(s) == {s} \X (2..Len(stk[s]))

LEMMA SlotsParts ==
  ASSUME IInv, NEW s \in States
  PROVE  IsFiniteSet(ClientSlots(s)) /\ Cardinality(ClientSlots(s)) = Len(stk[s]) - 1
<1> DEFINE n == Len(stk[s])
           one == {s}
           top == 2..n
<1>1. n \in Nat /\ n >= 1
  BY FrameOf
<1> HIDE DEF n
<1>2. 2 \in Int /\ n \in Int
  BY <1>1
<1>3. IsFiniteSet(top) /\ Cardinality(top) = IF 2 > n THEN 0 ELSE n - 2 + 1
  BY <1>2, FS_Interval
<1>4. Cardinality(top) = n - 1
  BY <1>1, <1>3
<1>5. IsFiniteSet(one) /\ Cardinality(one) = 1
  BY FS_Singleton
<1> HIDE DEF top, one
<1>6. IsFiniteSet(one \X top) /\ Cardinality(one \X top) = 1 * (n - 1)
  BY <1>3, <1>4, <1>5, FS_Product
<1>7. Cardinality(one \X top) = n - 1
  BY <1>1, <1>6
<1> QED BY <1>6, <1>7 DEF ClientSlots, n, one, top

LEMMA LeftParts ==
  ASSUME IInv
  PROVE  IsFiniteSet(Left) /\ \A s \in States : Len(stk[s]) - 1 <= Cardinality(Left)
<1> DEFINE f == [s \in States |-> ClientSlots(s)]
           all == {ClientSlots(s) : s \in States}
<1>1. IsFiniteSet(States)
  BY FrameAssumption
<1>2. f \in Surjection(States, all)
  BY DEF Surjection
<1>3. \A T \in all : IsFiniteSet(T)
  BY SlotsParts
<1>4. Left = UNION all /\ \A s \in States : ClientSlots(s) \subseteq Left
  BY DEF Left, ClientSlots
<1> HIDE DEF f, all
<1>5. IsFiniteSet(all)
  BY <1>1, <1>2, FS_Surjection
<1>6. IsFiniteSet(Left)
  BY <1>3, <1>4, <1>5, FS_UNION
<1>7. ASSUME NEW s \in States PROVE Len(stk[s]) - 1 <= Cardinality(Left)
  <2> DEFINE own == ClientSlots(s)
  <2>1. Cardinality(own) = Len(stk[s]) - 1 /\ own \in SUBSET Left
    BY <1>4, SlotsParts
  <2> HIDE DEF own
  <2>2. Cardinality(own) <= Cardinality(Left)
    BY <1>6, <2>1, FS_Subset
  <2> QED BY <2>1, <2>2
<1> QED BY <1>6, <1>7

Bounded == Cardinality(Left) <= MaxStack

LEMMA WellFormed ==
  ASSUME IInv, Bounded
  PROVE  TypeOK
<1>1. IsFiniteSet(Left) /\ \A s \in States : Len(stk[s]) - 1 <= Cardinality(Left)
  BY LeftParts
<1>2. Cardinality(Left) \in Nat
  BY <1>1, FS_CardinalityType
<1>3. MaxStack \in Nat
  BY FrameAssumption
<1>4. ASSUME NEW s \in States
      PROVE  stk[s] \in Seq(Values) /\ Len(stk[s]) \in 1..MaxStack + 1
  <2>1. stk[s] \in Seq(Values) /\ Len(stk[s]) \in Nat /\ Len(stk[s]) >= 1
    BY FrameOf
  <2>2. Len(stk[s]) - 1 <= Cardinality(Left)
    BY <1>1
  <2> HIDE DEF Left
  <2> QED BY <1>2, <1>3, <2>1, <2>2 DEF Bounded
<1> QED BY <1>4 DEF TypeOK, IInv, Data
-----------------------------------------------------------------------------
(* The theorems. *)

LEMMA Starts ==
  ASSUME Init
  PROVE  IInv /\ Bounded /\ View!Init
<1>1. Nil \in Values /\ Globals \in Values
  BY ApiAssumption DEF Values
<1>2. IInv
  BY <1>1 DEF Init, IInv, Frames, Data
<1>3. Left = {}
  BY DEF Init, Left
<1>4. Bounded
  <2>1. Cardinality(Left) = 0
    BY <1>3, FS_EmptySet
  <2> QED BY <2>1, FrameAssumption DEF Bounded
<1>5. ASSUME NEW s \in States PROVE Tail(stk[s]) = <<>>
  <2> DEFINE q == Tail(stk[s])
  <2>0. Len(stk[s]) = 1
    BY DEF Init
  <2>1. q \in Seq(Values) /\ Len(q) = 0
    BY <1>2, <2>0, MineParts
  <2> HIDE DEF q
  <2>2. q = <<>>
    BY <2>1
  <2> QED BY <2>2 DEF q
<1>6. View!Init
  BY <1>5 DEF Init, View!Init, View!Blank, View!Keys, Keys
<1> QED BY <1>2, <1>4, <1>6

LEMMA Continues ==
  ASSUME IInv, Bounded, [Next]_vars
  PROVE  IInv' /\ Bounded' /\ [View!Next]_<<Mine, tab, meta, reg, ret, op>>
<1>1. CASE Next
  BY <1>1, NextKeeps DEF Next, WithinBounds, Bounded
<1>2. CASE UNCHANGED vars
  BY <1>2 DEF vars, IInv, Frames, Data, Bounded, Left, Mine
<1> QED BY <1>1, <1>2

\* Of the code: whatever operations a client calls, in whatever order, on whatever
\* stacks, none reaches below its own frame or raises a Lua error, every stack keeps
\* values of its own, and none outgrows what the client left there: whatever an operation
\* pushes for its own use, it pops again.
THEOREM TypeCorrect == Spec => []TypeOK
<1>1. Init => IInv /\ Bounded
  BY Starts
<1>2. IInv /\ Bounded /\ [Next]_vars => (IInv /\ Bounded)'
  BY Continues
<1>3. IInv /\ Bounded => TypeOK
  BY WellFormed
<1> QED BY <1>1, <1>2, <1>3, PTL DEF Spec

\* Of the code: every call has the effect ClientView gives a call of its name with its
\* arguments: on the client's values on every stack, on the tables and the registry, and
\* in what is returned or thrown.
THEOREM Refinement == Spec => ImplementsClientView
<1>1. Init => IInv /\ Bounded /\ View!Init
  BY Starts
<1>2. IInv /\ Bounded /\ [Next]_vars
        => /\ (IInv /\ Bounded)'
           /\ [View!Next]_<<[s \in States |-> Tail(stk[s])], tab, meta, reg, ret, op>>
  BY Continues DEF Mine
<1> QED BY <1>1, <1>2, PTL DEF Spec, ImplementsClientView, View!Spec
=============================================================================
