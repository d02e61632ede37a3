--------------------------- MODULE LuaThreadProofs ---------------------------
(***************************************************************************)
(* For any sets of coroutines and values: resumes nest, a coroutine runs   *)
(* at most once at a time, code that waits is not disturbed, what a body   *)
(* gives arrives, and coroutines lead the life Coroutine describes.        *)
(***************************************************************************)
EXTENDS LuaThread, TLAPS

\* A suspended coroutine has the body it will go on with.
SuspendedHaveBodies == \A c \in Coroutines : status[c] = "yield" => ~AtBase(c)

\* Inductive: without the bodies of suspended coroutines, one that is resumed could have
\* a resume under way and nothing that runs.
IInv ==
  /\ TypeOK
  /\ OneResumeEach
  /\ SuspendedHaveBodies

Stacks == [States -> Seq(Seq(Values))]
Resumes == [co : Coroutines, move : BOOLEAN]
-----------------------------------------------------------------------------
(* Sequences and frames. *)

LEMMA SeqParts ==
  ASSUME NEW S, NEW q \in Seq(S)
  PROVE  /\ Len(q) \in Nat /\ DOMAIN q = 1..Len(q)
         /\ \A i \in DOMAIN q : q[i] \in S
         /\ q # <<>> => Len(q) \in DOMAIN q /\ Len(q) > 0
         /\ Len(q) = 0 => q = <<>>
OBVIOUS

LEMMA FrontParts ==
  ASSUME NEW S, NEW q \in Seq(S), q # <<>>
  PROVE  /\ Front(q) \in Seq(S) /\ Len(Front(q)) = Len(q) - 1
         /\ DOMAIN Front(q) = DOMAIN q \ {Len(q)}
         /\ \A i \in DOMAIN Front(q) : Front(q)[i] = q[i]
<1>1. Len(q) \in Nat /\ Len(q) > 0 /\ DOMAIN q = 1..Len(q)
  BY SeqParts
<1> QED BY <1>1 DEF Front

LEMMA FrameParts ==
  ASSUME NEW q \in Seq(Values), NEW n \in 0..Len(q)
  PROVE  /\ Lowered(q, n) \in Seq(Values) /\ Len(Lowered(q, n)) = Len(q) - n
         /\ Topmost(q, n) \in Seq(Values) /\ Len(Topmost(q, n)) = n
BY DEF Lowered, Topmost

LEMMA WithFrameOnly ==
  ASSUME NEW f \in Stacks, NEW s \in States, f[s] # <<>>, NEW q \in Seq(Values)
  PROVE  /\ WithFrame(f, s, q) \in Stacks
         /\ WithFrame(f, s, q)[s][Len(f[s])] = q
         /\ Len(WithFrame(f, s, q)[s]) = Len(f[s])
         /\ \A r \in States \ {s} : WithFrame(f, s, q)[r] = f[r]
<1>1. f[s] \in Seq(Seq(Values)) /\ Len(f[s]) \in 1..Len(f[s])
  BY DEF Stacks
<1>2. [f[s] EXCEPT ![Len(f[s])] = q] \in Seq(Seq(Values))
  BY <1>1
<1>3. WithFrame(f, s, q) = [f EXCEPT ![s] = [f[s] EXCEPT ![Len(f[s])] = q]]
  BY DEF WithFrame, Stacks
<1> QED BY <1>1, <1>2, <1>3 DEF Stacks

\* Every thread has a frame to work on.
LEMMA FrameOf ==
  ASSUME TypeOK, NEW s \in States
  PROVE  /\ stk \in Stacks /\ stk[s] # <<>> /\ Len(stk[s]) \in {1, 2}
         /\ Frame(s) \in Seq(Values)
<1>1. stk \in Stacks /\ stk[s] \in Seq(Seq(Values))
  BY DEF TypeOK, Stacks
<1>2. Len(stk[s]) \in {1, 2}
  BY DEF TypeOK, States, AtBase
<1>3. Len(stk[s]) \in 1..Len(stk[s]) /\ stk[s] # <<>>
  BY <1>1, <1>2, SeqParts
<1>4. Frame(s) \in Seq(Values)
  BY <1>1, <1>3 DEF Frame
<1> QED BY <1>1, <1>2, <1>3, <1>4

\* What L gets of the values that are given, and its frame with them.
Moved(move, q) == IF move THEN q ELSE <<>>
Gets(f, c, L, move, n) == f[L][Len(f[L])] \o Moved(move, Topmost(f[c][Len(f[c])], n))

\* Values that are moved leave the frame of c and go on top of that of L, and no
\* other frame changes.
LEMMA AnswerMoves ==
  ASSUME NEW f \in Stacks, \A s \in States : f[s] # <<>>,
         NEW c \in States, NEW L \in States, c # L, NEW move \in BOOLEAN,
         NEW n \in 0..Len(f[c][Len(f[c])]), NEW kind \in {"yield", "done"}, Answer(f, c, L, move, n, kind)
  PROVE  /\ stk' \in Stacks
         /\ \A s \in States : Len(stk'[s]) = Len(f[s])
         /\ \A s \in States \ {c, L} : stk'[s] = f[s]
         /\ stk'[L][Len(f[L])] = Gets(f, c, L, move, n)
         /\ ret' = [kind |-> kind, nret |-> n]
<1> DEFINE q == f[c][Len(f[c])]
           g == WithFrame(f, c, Lowered(q, n))
           p == f[L][Len(f[L])]
<1>1. q \in Seq(Values) /\ p \in Seq(Values)
  <2>1. \A s \in States : f[s] \in Seq(Seq(Values)) /\ Len(f[s]) \in 1..Len(f[s])
    BY DEF Stacks
  <2> QED BY <2>1
<1>2. Lowered(q, n) \in Seq(Values) /\ Topmost(q, n) \in Seq(Values)
  BY <1>1, FrameParts
<1>3. ret' = [kind |-> kind, nret |-> n]
  BY DEF Answer
<1>4. CASE move
  <2>1. /\ g \in Stacks /\ Len(g[c]) = Len(f[c])
        /\ \A r \in States \ {c} : g[r] = f[r]
    BY <1>2, WithFrameOnly
  <2>2. g[L] = f[L] /\ g[L] # <<>>
    BY <2>1
  <2>3. stk' = WithFrame(g, L, p \o Topmost(q, n))
    BY <1>4, <2>2 DEF Answer
  <2>4. p \o Topmost(q, n) \in Seq(Values)
    BY <1>1, <1>2
  <2> HIDE DEF g, p, q
  <2>5. /\ stk' \in Stacks
        /\ stk'[L][Len(g[L])] = p \o Topmost(q, n)
        /\ Len(stk'[L]) = Len(g[L])
        /\ \A r \in States \ {L} : stk'[r] = g[r]
    BY <2>1, <2>2, <2>3, <2>4, WithFrameOnly
  <2> QED BY <1>3, <1>4, <2>1, <2>2, <2>5 DEF p, q, Gets, Moved
<1>5. CASE ~move
  <2>1. stk' = f
    BY <1>5 DEF Answer
  <2>2. p \o <<>> = p
    BY <1>1
  <2> QED BY <1>3, <1>5, <2>1, <2>2 DEF Gets, Moved
<1> QED BY <1>4, <1>5
-----------------------------------------------------------------------------
(* The chain of resumes. *)

LEMMA ChainParts ==
  ASSUME IInv
  PROVE  /\ chain \in Seq(Resumes) /\ Len(chain) \in Nat
         /\ DOMAIN chain = 1..Len(chain)
         /\ chain # <<>> => Len(chain) \in DOMAIN chain
         /\ \A i \in DOMAIN chain : chain[i].co \in Coroutines /\ chain[i].move \in BOOLEAN
<1>1. chain \in Seq(Resumes)
  BY DEF IInv, TypeOK, Resumes
<1>2. \A i \in DOMAIN chain : chain[i] \in Resumes
  BY <1>1, SeqParts
<1>3. \A r \in Resumes : r.co \in Coroutines /\ r.move \in BOOLEAN
  BY DEF Resumes
<1> QED BY <1>1, <1>2, <1>3, SeqParts

LEMMA RunningNow ==
  ASSUME IInv
  PROVE  /\ Running \in States
         /\ chain # <<>> => Running \in Active /\ Running \in Coroutines
         /\ Active \subseteq Coroutines
<1>2. Active \subseteq Coroutines
  BY ChainParts DEF Active
<1>3. CASE chain = <<>>
  BY <1>2, <1>3 DEF Running, RunningAfter, States
<1>4. CASE chain # <<>>
  <2>1. Len(chain) \in DOMAIN chain /\ chain[Len(chain)].co \in Coroutines
    BY <1>4, ChainParts
  <2>2. Running = chain[Len(chain)].co
    BY <1>4 DEF Running, RunningAfter, Last
  <2> QED BY <1>2, <2>1, <2>2 DEF Active, States
<1> QED BY <1>3, <1>4

\* A resume goes on top of the chain.
LEMMA ChainGrows ==
  ASSUME IInv, NEW c \in Coroutines \ Active, NEW move \in BOOLEAN,
         chain' = Append(chain, [co |-> c, move |-> move])
  PROVE  /\ chain' \in Seq(Resumes)
         /\ Active' = Active \cup {c}
         /\ Running' = c
         /\ \A i, j \in DOMAIN chain' : chain'[i].co = chain'[j].co => i = j
<1> DEFINE r == [co |-> c, move |-> move]
<1>1. chain \in Seq(Resumes)
  BY ChainParts
<1>2. r \in Resumes /\ r.co = c
  BY DEF Resumes
<1> HIDE DEF r
<1>3. chain' = Append(chain, r)
  BY DEF r
<1>4. /\ chain' \in Seq(Resumes)
      /\ Len(chain') = Len(chain) + 1 /\ chain'[Len(chain) + 1] = r
      /\ \A i \in DOMAIN chain : chain'[i] = chain[i]
      /\ DOMAIN chain' = DOMAIN chain \cup {Len(chain) + 1}
  BY <1>1, <1>2, <1>3
<1>5. Active' = Active \cup {c}
  BY <1>2, <1>4 DEF Active
<1>6. \A i, j \in DOMAIN chain' : chain'[i].co = chain'[j].co => i = j
  BY <1>2, <1>4 DEF Active, IInv, OneResumeEach
<1>7. Running' = c
  BY <1>1, <1>2, <1>4 DEF Running, RunningAfter, Last
<1> QED BY <1>4, <1>5, <1>6, <1>7

\* The coroutine that runs goes from it.
LEMMA ChainShrinks ==
  ASSUME IInv, chain # <<>>, chain' = Front(chain)
  PROVE  /\ chain' \in Seq(Resumes)
         /\ Active' = Active \ {Running}
         /\ Running' = Resumer /\ Resumer \in States /\ Resumer # Running
         /\ Resumption.move \in BOOLEAN
         /\ \A i, j \in DOMAIN chain' : chain'[i].co = chain'[j].co => i = j
<1> DEFINE n == Len(chain)
<1>1. /\ chain \in Seq(Resumes) /\ n \in Nat /\ n > 0 /\ DOMAIN chain = 1..n
      /\ \A i \in DOMAIN chain : chain[i].co \in Coroutines /\ chain[i].move \in BOOLEAN
  BY ChainParts
<1> HIDE DEF n
<1>2. /\ chain' \in Seq(Resumes) /\ Len(chain') = n - 1
      /\ \A i \in DOMAIN chain' : chain'[i] = chain[i]
      /\ DOMAIN chain' = DOMAIN chain \ {n}
  BY <1>1, FrontParts DEF n
<1>3. Running = chain[n].co /\ Resumption = chain[n] /\ n \in DOMAIN chain
  BY <1>1 DEF Running, RunningAfter, Resumption, Last, n
<1>4. \A i, j \in DOMAIN chain : chain[i].co = chain[j].co => i = j
  BY DEF IInv, OneResumeEach
<1>5. Active' = Active \ {Running}
  BY <1>2, <1>3, <1>4 DEF Active
<1>6. \A i, j \in DOMAIN chain' : chain'[i].co = chain'[j].co => i = j
  BY <1>2, <1>4
<1>7. Running' = Resumer
  BY DEF Running, Resumer
<1>8. Resumer \in States /\ Resumer # Running
  <2>1. CASE n = 1
    <3>1. Front(chain) = <<>>
      BY <1>1, <1>2, <2>1, SeqParts
    <3> QED BY <3>1, <1>1, <1>3, ThreadAssumption DEF Resumer, RunningAfter, States
  <2>2. CASE n # 1
    <3>1. n - 1 \in DOMAIN chain' /\ n - 1 \in DOMAIN chain /\ n - 1 # n
      BY <1>1, <1>2, <2>2
    <3>2. chain' # <<>>
      BY <1>2, <3>1
    <3>3. Resumer = chain'[n - 1].co
      BY <1>2, <3>2 DEF Resumer, RunningAfter, Last
    <3> QED BY <1>1, <1>2, <1>3, <1>4, <3>1, <3>3 DEF States
  <2> QED BY <2>1, <2>2
<1> QED BY <1>1, <1>2, <1>3, <1>5, <1>6, <1>7, <1>8
-----------------------------------------------------------------------------
(* The steps. *)

Statuses == [Coroutines -> {"ok", "yield", "error"}]
Sequels == [Coroutines -> {"end", "continuation", "script"}]
Results == [kind : {"none", "yield", "done", "error", "thrown"}, nret : Nat]

LEMMA TypeParts ==
  TypeOK <=> /\ stk \in Stacks
             /\ \A c \in Coroutines : Len(stk[c]) \in {1, 2}
             /\ Len(stk[Main]) = 1
             /\ status \in Statuses /\ goesOn \in Sequels /\ ret \in Results
             /\ chain \in Seq(Resumes)
BY DEF TypeOK, Stacks, Statuses, Sequels, Results, Resumes, AtBase

LEMMA TypeNext ==
  ASSUME stk' \in Stacks, \A c \in Coroutines : Len(stk'[c]) \in {1, 2}, Len(stk'[Main]) = 1,
         status' \in Statuses, goesOn' \in Sequels, ret' \in Results, chain' \in Seq(Resumes)
  PROVE  TypeOK'
BY DEF TypeOK, Stacks, Statuses, Sequels, Results, Resumes, AtBase

LEMMA ErrorIsResult == Error \in Results /\ Thrown \in Results
BY DEF Error, Thrown, Results

\* A step that changes the state of c at most.
LEMMA CoroutineStep ==
  ASSUME IInv, NEW c \in Coroutines,
         stk' \in Stacks, Len(stk'[c]) \in {1, 2},
         \A s \in States \ {c} : Len(stk'[s]) = Len(stk[s]),
         status' \in Statuses, \A d \in Coroutines \ {c} : status'[d] = status[d],
         goesOn' \in Sequels, ret' \in Results,
         chain' \in Seq(Resumes),
         \A i, j \in DOMAIN chain' : chain'[i].co = chain'[j].co => i = j,
         Active' \subseteq Coroutines, Active' \ {c} = Active \ {c},
         c \in Active' <=> status'[c] = "ok" /\ Len(stk'[c]) # 1,
         status'[c] = "yield" => Len(stk'[c]) # 1
  PROVE  IInv'
<1>1. Main \in States /\ Main # c /\ \A d \in Coroutines : d \in States
  BY ThreadAssumption DEF States
<1>2. TypeOK'
  BY <1>1, TypeParts, TypeNext DEF IInv
<1>3. \A d \in Coroutines : d \in Active' <=> status'[d] = "ok" /\ Len(stk'[d]) # 1
  <2> SUFFICES ASSUME NEW d \in Coroutines, d # c
               PROVE  d \in Active' <=> status'[d] = "ok" /\ Len(stk'[d]) # 1
    OBVIOUS
  <2>1. d \in Active <=> status[d] = "ok" /\ Len(stk[d]) # 1
    BY DEF IInv, OneResumeEach, AtBase
  <2> QED BY <2>1, <1>1
<1>4. OneResumeEach'
  BY <1>3 DEF OneResumeEach, AtBase
<1>5. SuspendedHaveBodies'
  BY <1>1 DEF IInv, SuspendedHaveBodies, AtBase
<1> QED BY <1>2, <1>4, <1>5 DEF IInv

\* A step that lets every coroutine be where it is.
LEMMA QuietStep ==
  ASSUME IInv, UNCHANGED <<status, goesOn, chain>>, ret' \in Results, stk' \in Stacks,
         \A s \in States : Len(stk'[s]) = Len(stk[s])
  PROVE  IInv'
<1>1. Main \in States /\ \A d \in Coroutines : d \in States
  BY DEF States
<1>2. TypeOK'
  <2>1. status' \in Statuses /\ goesOn' \in Sequels /\ chain' \in Seq(Resumes)
    BY TypeParts DEF IInv
  <2>2. Len(stk'[Main]) = 1 /\ \A c \in Coroutines : Len(stk'[c]) \in {1, 2}
    BY <1>1, TypeParts DEF IInv
  <2> QED BY <2>1, <2>2, TypeNext
<1>3. Active' = Active
  BY DEF Active
<1>4. OneResumeEach' /\ SuspendedHaveBodies'
  BY <1>1, <1>3 DEF IInv, OneResumeEach, SuspendedHaveBodies, AtBase
<1> QED BY <1>2, <1>4 DEF IInv

\* Stacks that differ from those before the call in what the frames on top hold.
Landed(f) == f \in Stacks /\ \A s \in States : Len(f[s]) = Len(stk[s])

LEMMA LandedParts ==
  ASSUME IInv, NEW f, Landed(f), NEW s \in States
  PROVE  /\ f \in Stacks /\ f[s] # <<>> /\ Len(f[s]) \in {1, 2} /\ f[s] \in Seq(Seq(Values))
         /\ f[s][Len(f[s])] \in Seq(Values) /\ f[s][1] \in Seq(Values)
<1>1. f \in Stacks /\ f[s] \in Seq(Seq(Values)) /\ Len(f[s]) = Len(stk[s])
  BY DEF Landed, Stacks
<1>2. Len(stk[s]) \in {1, 2}
  BY FrameOf DEF IInv
<1>3. Len(f[s]) \in DOMAIN f[s] /\ 1 \in DOMAIN f[s] /\ f[s] # <<>>
  <2>1. PICK w \in Seq(Seq(Values)) : w = f[s]
    BY <1>1
  <2>2. Len(w) \in {1, 2}
    BY <1>1, <1>2, <2>1
  <2>3. Len(w) \in DOMAIN w /\ 1 \in DOMAIN w /\ w # <<>>
    BY <2>2
  <2> QED BY <2>1, <2>3
<1> QED BY <1>1, <1>2, <1>3

LEMMA RefusedStep ==
  ASSUME IInv, NEW f, Landed(f), NEW c \in Coroutines, NEW n \in 0..Len(f[c][Len(f[c])]),
         Refused(f, c, n)
  PROVE  /\ IInv'
         /\ ret' = Error
         /\ stk'[c][Len(f[c])] = Lowered(f[c][Len(f[c])], n) /\ stk'[c] \in Seq(Seq(Values))
         /\ \A i \in 1..Len(f[c]) : i # Len(f[c]) => stk'[c][i] = f[c][i]
         /\ \A s \in States : Len(stk'[s]) = Len(f[s])
         /\ \A s \in States \ {c} : stk'[s] = f[s]
<1> DEFINE q == f[c][Len(f[c])]
<1>1. c \in States /\ f \in Stacks /\ f[c] # <<>> /\ q \in Seq(Values)
  BY LandedParts DEF States
<1>2. Lowered(q, n) \in Seq(Values)
  BY <1>1, FrameParts
<1>3. stk' = WithFrame(f, c, Lowered(q, n)) /\ ret' = Error /\ UNCHANGED <<status, goesOn, chain>>
  BY DEF Refused
<1> HIDE DEF q
<1>8. PICK low \in Seq(Values) : low = Lowered(q, n)
  BY <1>2
<1>4. /\ stk' \in Stacks /\ \A s \in States : Len(stk'[s]) = Len(f[s])
      /\ \A s \in States \ {c} : stk'[s] = f[s]
      /\ stk'[c][Len(f[c])] = Lowered(q, n)
  <2>1. stk' = WithFrame(f, c, low)
    BY <1>3, <1>8
  <2> QED BY <1>1, <1>8, <2>1, WithFrameOnly
<1>5. \A i \in 1..Len(f[c]) : i # Len(f[c]) => stk'[c][i] = f[c][i]
  BY <1>1, <1>3 DEF WithFrame, Stacks
<1>6. \A s \in States : Len(stk'[s]) = Len(stk[s])
  BY <1>4 DEF Landed
<1>7. IInv'
  BY <1>3, <1>4, <1>6, ErrorIsResult, QuietStep
<1> QED BY <1>1, <1>3, <1>4, <1>5, <1>7 DEF Stacks, q

LEMMA BeginsStep ==
  ASSUME IInv, NEW f, Landed(f), NEW c \in Coroutines, NEW n \in 0..Len(f[c][Len(f[c])]),
         NEW move \in BOOLEAN, Begins(f, c, n, move)
  PROVE  /\ IInv'
         /\ c \notin Active /\ \A s \in States \ {c} : stk'[s] = f[s]
<1> DEFINE q == f[c][Len(f[c])]
<1>1. c \in States /\ f \in Stacks /\ q \in Seq(Values)
  BY LandedParts DEF States
<1>2. c \notin Active
  BY DEF Begins, Startable, IInv, OneResumeEach
<1>3. n + 1 \in 0..Len(q)
  BY <1>1 DEF Begins, Startable
<1>4. Lowered(q, n + 1) \in Seq(Values) /\ Topmost(q, n) \in Seq(Values)
  BY <1>1, <1>3, FrameParts
<1>5. stk' = [f EXCEPT ![c] = <<Lowered(q, n + 1), Topmost(q, n)>>]
  BY DEF Begins
<1> HIDE DEF q
<1>6. /\ stk' \in Stacks /\ Len(stk'[c]) = 2
      /\ \A s \in States \ {c} : stk'[s] = f[s] /\ Len(stk'[s]) = Len(stk[s])
  BY <1>1, <1>4, <1>5 DEF Stacks, Landed
<1>7. /\ chain' \in Seq(Resumes) /\ Active' = Active \cup {c}
      /\ \A i, j \in DOMAIN chain' : chain'[i].co = chain'[j].co => i = j
  BY <1>2, ChainGrows DEF Begins
<1>8. UNCHANGED <<status, goesOn, ret>> /\ status[c] = "ok"
  BY DEF Begins, Startable
<1>9. status' \in Statuses /\ goesOn' \in Sequels /\ ret' \in Results
  BY <1>8, TypeParts DEF IInv
<1>10. /\ Active' \subseteq Coroutines /\ Active' \ {c} = Active \ {c}
       /\ c \in Active' <=> status'[c] = "ok" /\ Len(stk'[c]) # 1
       /\ status'[c] = "yield" => Len(stk'[c]) # 1
       /\ \A d \in Coroutines \ {c} : status'[d] = status[d]
  BY <1>6, <1>7, <1>8, RunningNow
<1>11. IInv'
  BY <1>6, <1>7, <1>9, <1>10, CoroutineStep
<1> QED BY <1>2, <1>6, <1>11

LEMMA CallsNoFunctionStep ==
  ASSUME IInv, NEW f, Landed(f), NEW c \in Coroutines, NEW n, CallsNoFunction(f, c, n)
  PROVE  /\ IInv'
         /\ c \notin Active /\ \A s \in States \ {c} : stk'[s] = f[s]
<1>1. c \in States /\ f \in Stacks /\ Len(f[c]) \in {1, 2}
  BY LandedParts DEF States
<1>2. stk' = f /\ stk' \in Stacks /\ \A s \in States : Len(stk'[s]) = Len(stk[s])
  BY <1>1 DEF CallsNoFunction, Landed
<1>3. c \notin Active
  BY DEF CallsNoFunction, Startable, IInv, OneResumeEach
<1>4. UNCHANGED <<goesOn, chain>> /\ ret' = Error /\ status' = [status EXCEPT ![c] = "error"]
  BY DEF CallsNoFunction
<1>5. /\ status' \in Statuses /\ status'[c] = "error"
      /\ \A d \in Coroutines \ {c} : status'[d] = status[d]
      /\ goesOn' \in Sequels /\ ret' \in Results /\ chain' \in Seq(Resumes)
  BY <1>4, TypeParts, ErrorIsResult DEF IInv, Statuses
<1>6. Active' = Active /\ \A i, j \in DOMAIN chain' : chain'[i].co = chain'[j].co => i = j
  BY <1>4 DEF Active, IInv, OneResumeEach
<1>7. IInv'
  BY <1>1, <1>2, <1>3, <1>5, <1>6, RunningNow, CoroutineStep
<1> QED BY <1>2, <1>3, <1>7

LEMMA ContinuesStep ==
  ASSUME IInv, NEW f, Landed(f), NEW c \in Coroutines, NEW n \in 0..Len(f[c][Len(f[c])]),
         NEW move \in BOOLEAN, Continues(f, c, n, move)
  PROVE  /\ IInv'
         /\ c \notin Active /\ \A s \in States \ {c} : stk'[s] = f[s]
<1> DEFINE q == f[c][Len(f[c])]
           r == IF goesOn[c] = "continuation" THEN q ELSE Topmost(q, n)
<1>1. c \in States /\ f \in Stacks /\ f[c] # <<>> /\ Len(f[c]) \in {1, 2} /\ q \in Seq(Values)
  BY LandedParts DEF States
<1>2. status[c] = "yield" /\ c \notin Active /\ Len(stk[c]) # 1
  BY DEF Continues, IInv, OneResumeEach, SuspendedHaveBodies, AtBase
<1>3. r \in Seq(Values) /\ stk' = WithFrame(f, c, r)
  BY <1>1, FrameParts DEF Continues
<1> HIDE DEF r
<1>4. /\ stk' \in Stacks /\ \A s \in States : Len(stk'[s]) = Len(stk[s])
      /\ \A s \in States \ {c} : stk'[s] = f[s]
  BY <1>1, <1>3, WithFrameOnly DEF Landed
<1>5. /\ chain' \in Seq(Resumes) /\ Active' = Active \cup {c}
      /\ \A i, j \in DOMAIN chain' : chain'[i].co = chain'[j].co => i = j
  BY <1>2, ChainGrows DEF Continues
<1>6. /\ status' \in Statuses /\ status'[c] = "ok"
      /\ \A d \in Coroutines \ {c} : status'[d] = status[d]
      /\ goesOn' \in Sequels /\ ret' \in Results
  BY TypeParts DEF Continues, IInv, Statuses
<1>7. Active' \subseteq Coroutines /\ Active' \ {c} = Active \ {c} /\ c \in Active'
  BY <1>5, RunningNow
<1>8. Len(stk'[c]) \in {1, 2} /\ Len(stk'[c]) # 1
  BY <1>1, <1>2, <1>4 DEF Landed
<1>9. IInv'
  BY <1>2, <1>4, <1>5, <1>6, <1>7, <1>8, CoroutineStep
<1> QED BY <1>2, <1>4, <1>9

\* What a body that ends leaves: one frame, with what lay at base level and its results.
Ended(f, c, base) == [f EXCEPT ![c] = <<base>>]

LEMMA BaseFrame ==
  ASSUME IInv, NEW f, Landed(f), NEW c \in Coroutines, NEW base \in Seq(Values)
  PROVE  /\ Ended(f, c, base) \in Stacks
         /\ Ended(f, c, base)[c] = <<base>>
         /\ \A s \in States : Ended(f, c, base)[s] # <<>>
         /\ \A s \in States \ {c} : Ended(f, c, base)[s] = f[s]
<1>1. c \in States /\ f \in Stacks /\ \A s \in States : f[s] # <<>>
  BY LandedParts DEF States, Landed
<1>2. <<base>> \in Seq(Seq(Values)) /\ <<base>> # <<>>
  OBVIOUS
<1> QED BY <1>1, <1>2 DEF Stacks, Ended

LEMMA StacksLanded == ASSUME IInv PROVE Landed(stk)
BY TypeParts DEF IInv, Landed

LEMMA RunsToEndStep ==
  ASSUME IInv, NEW f, Landed(f), NEW c \in Coroutines, NEW n \in 0..Len(f[c][Len(f[c])]),
         NEW move \in BOOLEAN, RunsToEnd(f, c, n, move)
  PROVE  /\ IInv'
         /\ c \notin Active /\ \A s \in States \ {c, Running} : stk'[s] = f[s]
<1> DEFINE base == f[c][1] \o Topmost(f[c][Len(f[c])], n)
           g == Ended(f, c, base)
<1>1. status[c] = "yield" /\ c \notin Active /\ Running \in States /\ c # Running
  <2>1. status[c] = "yield" /\ c \notin Active
    BY DEF RunsToEnd, IInv, OneResumeEach
  <2>2. Running = Main \/ Running \in Active
    BY RunningNow DEF Running, RunningAfter
  <2> QED BY <2>1, <2>2, RunningNow, ThreadAssumption
<1>2. base \in Seq(Values)
  <2>1. c \in States
    BY DEF States
  <2>2. f[c][1] \in Seq(Values) /\ f[c][Len(f[c])] \in Seq(Values)
    BY <2>1, LandedParts
  <2>3. Topmost(f[c][Len(f[c])], n) \in Seq(Values)
    BY <2>2, FrameParts
  <2> QED BY <2>2, <2>3
<1> HIDE DEF base
<1>3. Answer(g, c, Running, move, Len(base), "done")
  BY DEF RunsToEnd, base, Ended
<1> HIDE DEF g
<1>4. /\ g \in Stacks /\ g[c][Len(g[c])] = base /\ Len(g[c]) = 1
      /\ \A s \in States : g[s] # <<>>
      /\ \A s \in States \ {c} : g[s] = f[s]
  <2>1. /\ g \in Stacks /\ g[c] = <<base>>
        /\ \A s \in States : g[s] # <<>>
        /\ \A s \in States \ {c} : g[s] = f[s]
    BY <1>2, BaseFrame DEF g
  <2> QED BY <2>1
<1>5. c \in States /\ Len(base) \in Nat /\ Len(base) \in 0..Len(g[c][Len(g[c])])
  BY <1>2, <1>4 DEF States
<1>6. /\ stk' \in Stacks /\ \A s \in States : Len(stk'[s]) = Len(g[s])
      /\ \A s \in States \ {c, Running} : stk'[s] = g[s]
      /\ ret' = [kind |-> "done", nret |-> Len(base)]
  BY <1>1, <1>3, <1>4, <1>5, AnswerMoves
<1>7. Len(stk'[c]) = 1 /\ \A s \in States \ {c} : Len(stk'[s]) = Len(stk[s])
  BY <1>4, <1>5, <1>6 DEF Landed
<1>8. ret' \in Results
  BY <1>5, <1>6 DEF Results
<1>9. /\ status' \in Statuses /\ status'[c] = "ok"
      /\ \A d \in Coroutines \ {c} : status'[d] = status[d]
      /\ goesOn' \in Sequels /\ chain' \in Seq(Resumes)
  BY TypeParts DEF RunsToEnd, IInv, Statuses
<1>10. Active' = Active /\ \A i, j \in DOMAIN chain' : chain'[i].co = chain'[j].co => i = j
  BY DEF RunsToEnd, Active, IInv, OneResumeEach
<1>11. IInv'
  BY <1>1, <1>6, <1>7, <1>8, <1>9, <1>10, RunningNow, CoroutineStep
<1> QED BY <1>1, <1>4, <1>6, <1>11

\* The coroutine that runs, when it hands control back.
LEMMA RunningLeaves ==
  ASSUME IInv, chain # <<>>, chain' = Front(chain)
  PROVE  /\ Running \in Coroutines /\ Running \in States /\ Len(stk[Running]) = 2
         /\ status[Running] = "ok"
         /\ Active' \subseteq Coroutines /\ Active' \ {Running} = Active \ {Running}
         /\ Running \notin Active'
<1>1. Running \in Active /\ Running \in Coroutines /\ Active \subseteq Coroutines
  BY RunningNow
<1>2. Len(stk[Running]) = 2 /\ status[Running] = "ok"
  BY <1>1, TypeParts DEF IInv, OneResumeEach, AtBase
<1> QED BY <1>1, <1>2, ChainShrinks DEF States

LEMMA YieldStep ==
  ASSUME IInv, NEW n \in Nat, NEW next \in {"end", "continuation", "script"}, Yield(n, next)
  PROVE  /\ IInv'
         /\ Running' = Resumer
         /\ \A s \in States \ {Running, Resumer} : stk'[s] = stk[s]
<1>1. chain # <<>> /\ chain' = Front(chain)
  BY DEF Yield
<1>2. PICK c \in Coroutines : c = Running
  BY <1>1, RunningLeaves
<1>3. PICK L \in States, move \in BOOLEAN : L = Resumer /\ move = Resumption.move
  BY <1>1, ChainShrinks
<1>4. /\ Len(stk[c]) = 2 /\ c \in States
      /\ Active' \subseteq Coroutines /\ Active' \ {c} = Active \ {c} /\ c \notin Active'
  BY <1>1, <1>2, RunningLeaves
<1>5. /\ chain' \in Seq(Resumes) /\ c # L
      /\ \A i, j \in DOMAIN chain' : chain'[i].co = chain'[j].co => i = j
  BY <1>1, <1>2, <1>3, ChainShrinks
<1>6. PICK f \in Stacks : f = stk
  BY <1>4, FrameOf DEF IInv
<1>7. (\A s \in States : f[s] # <<>>) /\ n \in 0..Len(f[c][Len(f[c])])
  <2>1. (\A s \in States : stk[s] # <<>>) /\ Frame(c) \in Seq(Values)
    BY <1>4, FrameOf DEF IInv
  <2> QED BY <1>2, <1>6, <2>1 DEF Yield, Frame
<1>8. Answer(f, c, L, move, n, "yield")
  BY <1>2, <1>3, <1>6 DEF Yield
<1>9. /\ status' \in Statuses /\ status'[c] = "yield"
      /\ \A d \in Coroutines \ {c} : status'[d] = status[d]
      /\ goesOn' \in Sequels
  BY <1>2, TypeParts DEF Yield, IInv, Statuses, Sequels
<1>10. /\ stk' \in Stacks /\ \A s \in States : Len(stk'[s]) = Len(f[s])
       /\ \A s \in States \ {c, L} : stk'[s] = f[s]
       /\ ret' = [kind |-> "yield", nret |-> n]
  <2>1. c \in States /\ c # L
    BY <1>4, <1>5
  <2> QED BY <2>1, <1>7, <1>8, AnswerMoves
<1>11. ret' \in Results
  BY <1>10 DEF Results
<1>12. IInv'
  <2>1. stk' \in Stacks /\ Len(stk'[c]) \in {1, 2} /\ Len(stk'[c]) # 1
    BY <1>4, <1>6, <1>10
  <2>2. \A s \in States \ {c} : Len(stk'[s]) = Len(stk[s])
    BY <1>6, <1>10
  <2>3. c \in Active' <=> status'[c] = "ok" /\ Len(stk'[c]) # 1
    BY <1>4, <1>9
  <2> QED BY <1>4, <1>5, <1>9, <1>11, <2>1, <2>2, <2>3, CoroutineStep
<1> QED BY <1>1, <1>2, <1>3, <1>6, <1>10, <1>12, ChainShrinks

LEMMA ReturnStep ==
  ASSUME IInv, NEW n \in Nat, Return(n)
  PROVE  /\ IInv'
         /\ Running' = Resumer
         /\ \A s \in States \ {Running, Resumer} : stk'[s] = stk[s]
<1>1. chain # <<>> /\ chain' = Front(chain)
  BY DEF Return
<1>2. PICK c \in Coroutines : c = Running
  BY <1>1, RunningLeaves
<1>3. PICK L \in States, move \in BOOLEAN : L = Resumer /\ move = Resumption.move
  BY <1>1, ChainShrinks
<1> DEFINE base == stk[c][1] \o Topmost(Frame(c), n)
           f == Ended(stk, c, base)
<1>4. /\ Len(stk[c]) = 2 /\ c \in States /\ status[c] = "ok"
      /\ Active' \subseteq Coroutines /\ Active' \ {c} = Active \ {c} /\ c \notin Active'
  BY <1>1, <1>2, RunningLeaves
<1>5. /\ chain' \in Seq(Resumes) /\ c # L
      /\ \A i, j \in DOMAIN chain' : chain'[i].co = chain'[j].co => i = j
  BY <1>1, <1>2, <1>3, ChainShrinks
<1>6. base \in Seq(Values)
  <2>1. stk[c] \in Seq(Seq(Values)) /\ stk[c] # <<>> /\ Frame(c) \in Seq(Values)
    BY <1>4, FrameOf DEF IInv, Stacks
  <2>2. stk[c][1] \in Seq(Values) /\ n \in 0..Len(Frame(c))
    BY <1>2, <2>1 DEF Return
  <2> QED BY <2>1, <2>2, FrameParts
<1>7. Answer(f, c, L, move, Len(base), "done") /\ status' = status /\ goesOn' = goesOn
  BY <1>2, <1>3 DEF Return, Ended
<1> HIDE DEF base, f
<1>8. /\ f \in Stacks /\ f[c][Len(f[c])] = base /\ Len(f[c]) = 1
      /\ \A s \in States : f[s] # <<>>
      /\ \A s \in States \ {c} : f[s] = stk[s]
  <2>1. /\ f \in Stacks /\ f[c] = <<base>>
        /\ \A s \in States : f[s] # <<>>
        /\ \A s \in States \ {c} : f[s] = stk[s]
    BY <1>6, BaseFrame, StacksLanded DEF f
  <2> QED BY <2>1
<1>9. Len(base) \in Nat /\ Len(base) \in 0..Len(f[c][Len(f[c])])
  BY <1>6, <1>8
<1>10. /\ stk' \in Stacks /\ \A s \in States : Len(stk'[s]) = Len(f[s])
       /\ \A s \in States \ {c, L} : stk'[s] = f[s]
       /\ ret' = [kind |-> "done", nret |-> Len(base)]
  <2>1. c \in States /\ c # L
    BY <1>4, <1>5
  <2>2. Answer(f, c, L, move, Len(base), "done")
    BY <1>7
  <2> QED BY <2>1, <2>2, <1>8, <1>9, AnswerMoves
<1>11. Len(stk'[c]) = 1 /\ \A s \in States \ {c} : Len(stk'[s]) = Len(stk[s])
  BY <1>4, <1>8, <1>10
<1>12. ret' \in Results
  BY <1>9, <1>10 DEF Results
<1>13. status' \in Statuses /\ goesOn' \in Sequels
  BY <1>7, TypeParts DEF IInv
<1>14. IInv'
  BY <1>4, <1>5, <1>7, <1>10, <1>11, <1>12, <1>13, CoroutineStep
<1> QED BY <1>1, <1>2, <1>3, <1>8, <1>10, <1>14, ChainShrinks

LEMMA RaiseStep ==
  ASSUME IInv, Raise
  PROVE  /\ IInv'
         /\ chain # <<>> /\ chain' = Front(chain)
         /\ ret' \in {Error, Thrown} /\ status' = [status EXCEPT ![Running] = "error"]
         /\ \A s \in States \ {Running} : stk'[s] = stk[s]
<1>1. PICK left \in Seq(Values), how \in {Error, Thrown} : RaiseWith(left, how)
  <2>1. <<>> \in Seq(Values) /\ \A v \in Values : <<v>> \in Seq(Values)
    OBVIOUS
  <2>2. CASE RaiseWith(<<>>, Error)
    BY <2>1, <2>2
  <2>3. ASSUME NEW v \in Values, NEW how \in {Error, Thrown}, RaiseWith(<<v>>, how)
        PROVE  \E left \in Seq(Values), h \in {Error, Thrown} : RaiseWith(left, h)
    BY <2>1, <2>3
  <2> QED BY <2>2, <2>3 DEF Raise, Values
<1>2. /\ chain # <<>> /\ chain' = Front(chain) /\ goesOn' = goesOn /\ ret' = how
      /\ status' = [status EXCEPT ![Running] = "error"]
      /\ stk' = WithFrame(stk, Running, Frame(Running) \o left)
  BY <1>1 DEF RaiseWith
<1>3. PICK c \in Coroutines : c = Running /\ c \in States
  BY <1>2, RunningLeaves
<1>4. /\ Len(stk[c]) = 2 /\ Active' \subseteq Coroutines
      /\ Active' \ {c} = Active \ {c} /\ c \notin Active'
  BY <1>2, <1>3, RunningLeaves
<1>5. /\ chain' \in Seq(Resumes)
      /\ \A i, j \in DOMAIN chain' : chain'[i].co = chain'[j].co => i = j
  BY <1>2, ChainShrinks
<1>6. /\ stk' \in Stacks /\ \A s \in States : Len(stk'[s]) = Len(stk[s])
      /\ \A s \in States \ {c} : stk'[s] = stk[s]
  <2>1. stk \in Stacks /\ stk[c] # <<>> /\ Frame(c) \in Seq(Values)
    BY <1>3, FrameOf DEF IInv
  <2>2. PICK q \in Seq(Values) : q = Frame(c) \o left
    <3>1. \A p \in Seq(Values) : p \o left \in Seq(Values)
      OBVIOUS
    <3> QED BY <2>1, <3>1
  <2>3. stk' = WithFrame(stk, c, q)
    BY <1>2, <1>3, <2>2
  <2>4. /\ WithFrame(stk, c, q) \in Stacks /\ Len(WithFrame(stk, c, q)[c]) = Len(stk[c])
        /\ \A s \in States \ {c} : WithFrame(stk, c, q)[s] = stk[s]
    BY <1>3, <2>1, WithFrameOnly
  <2> QED BY <2>3, <2>4
<1>7. /\ status' \in Statuses /\ status'[c] = "error"
      /\ \A d \in Coroutines \ {c} : status'[d] = status[d]
      /\ goesOn' \in Sequels /\ ret' \in Results
  BY <1>2, <1>3, TypeParts, ErrorIsResult DEF IInv, Statuses
<1>8. Len(stk'[c]) \in {1, 2}
  BY <1>3, <1>4, <1>6
<1>9. IInv'
  BY <1>4, <1>5, <1>6, <1>7, <1>8, CoroutineStep
<1> QED BY <1>2, <1>3, <1>6, <1>9

LEMMA PushStep ==
  ASSUME IInv, NEW v \in Values, Push(v)
  PROVE  /\ IInv'
         /\ \A r \in States \ {Running} : stk'[r] = stk[r]
<1>1. PICK s \in States : s = Running
  BY RunningNow
<1>2. stk \in Stacks /\ stk[s] # <<>> /\ Frame(s) \in Seq(Values)
  BY FrameOf DEF IInv
<1>3. PICK q \in Seq(Values) : q = Append(Frame(s), v)
  <2>1. \A p \in Seq(Values) : Append(p, v) \in Seq(Values)
    OBVIOUS
  <2> QED BY <1>2, <2>1
<1>4. stk' = WithFrame(stk, s, q) /\ UNCHANGED <<status, goesOn, chain, ret>>
  BY <1>1, <1>3 DEF Push
<1>5. /\ stk' \in Stacks /\ \A r \in States : Len(stk'[r]) = Len(stk[r])
      /\ \A r \in States \ {s} : stk'[r] = stk[r]
  BY <1>2, <1>4, WithFrameOnly
<1>6. ret' \in Results
  BY <1>4, TypeParts DEF IInv
<1>7. IInv'
  BY <1>4, <1>5, <1>6, QuietStep
<1> QED BY <1>1, <1>5, <1>7

LEMMA PopFromStep ==
  ASSUME IInv, NEW s \in States, PopFrom(s)
  PROVE  /\ IInv'
         /\ \A r \in States \ {s} : stk'[r] = stk[r]
<1>1. stk \in Stacks /\ stk[s] # <<>> /\ Frame(s) \in Seq(Values) /\ Frame(s) # <<>>
  BY FrameOf DEF IInv, PopFrom
<1>2. Front(Frame(s)) \in Seq(Values)
  BY <1>1, FrontParts
<1>3. stk' = WithFrame(stk, s, Front(Frame(s))) /\ UNCHANGED <<status, goesOn, chain, ret>>
  BY DEF PopFrom
<1>4. /\ stk' \in Stacks /\ \A r \in States : Len(stk'[r]) = Len(stk[r])
      /\ \A r \in States \ {s} : stk'[r] = stk[r]
  BY <1>1, <1>2, <1>3, WithFrameOnly
<1>5. ret' \in Results
  BY <1>3, TypeParts DEF IInv
<1>6. IInv'
  BY <1>3, <1>4, <1>5, QuietStep
<1> QED BY <1>4, <1>6

LEMMA LuaResumeStep ==
  ASSUME IInv, NEW f, Landed(f), NEW c \in Coroutines, NEW n \in Nat, NEW move \in BOOLEAN,
         LuaResume(f, c, n, move)
  PROVE  /\ IInv'
         /\ \A s \in States : s \in Active \cup {Main} /\ s # Running =>
              IF s = c THEN Refused(f, c, n) /\ n \in 0..Len(f[c][Len(f[c])]) ELSE stk'[s] = f[s]
<1> DEFINE Quiet == \A s \in States : s \in Active \cup {Main} /\ s # Running =>
              IF s = c THEN Refused(f, c, n) /\ n \in 0..Len(f[c][Len(f[c])]) ELSE stk'[s] = f[s]
<1>0. Main # c /\ c \in Coroutines
  BY ThreadAssumption
<1>1. n \in 0..Len(f[c][Len(f[c])])
  <2>1. c \in States
    BY DEF States
  <2>2. f[c][Len(f[c])] \in Seq(Values)
    BY <2>1, LandedParts
  <2>3. Len(f[c][Len(f[c])]) \in Nat
    BY <2>2
  <2> QED BY <2>3 DEF LuaResume
<1>2. ASSUME Refused(f, c, n) PROVE IInv' /\ Quiet
  BY <1>0, <1>1, <1>2, RefusedStep
<1>3. ASSUME Begins(f, c, n, move) PROVE IInv' /\ Quiet
  BY <1>0, <1>1, <1>3, BeginsStep
<1>4. ASSUME CallsNoFunction(f, c, n) PROVE IInv' /\ Quiet
  BY <1>0, <1>4, CallsNoFunctionStep
<1>5. ASSUME Continues(f, c, n, move) PROVE IInv' /\ Quiet
  BY <1>0, <1>1, <1>5, ContinuesStep
<1>6. ASSUME RunsToEnd(f, c, n, move) PROVE IInv' /\ Quiet
  BY <1>0, <1>1, <1>6, RunsToEndStep
<1>7. \/ Refused(f, c, n) \/ Begins(f, c, n, move) \/ CallsNoFunction(f, c, n)
      \/ Continues(f, c, n, move) \/ RunsToEnd(f, c, n, move)
  BY DEF LuaResume
<1> HIDE DEF Quiet
<1>8. IInv' /\ Quiet
  BY <1>2, <1>3, <1>4, <1>5, <1>6, <1>7
<1> QED BY <1>8 DEF Quiet

\* The frame s works on, when q is on top.
Topped(s, q) == [stk[s] EXCEPT ![Len(stk[s])] = q]

FunctionLists == {<<>>} \cup {<<f>> : f \in FunctionsPassed}

LEMMA FunctionListsAreLists ==
  /\ FunctionLists \subseteq ArgLists
  /\ <<>> \in FunctionLists /\ \A f \in FunctionsPassed : <<f>> \in FunctionLists
BY DEF FunctionLists, ArgLists, FunctionsPassed

LEMMA ListParts ==
  ASSUME NEW passed \in ArgLists
  PROVE  /\ passed # <<>> => passed[1] \in Passed
         /\ Len(passed) \in Nat
         /\ \A s \in States : Arriving(s, passed) \in Seq(Values)
         /\ passed # <<>> /\ ~Mixed(passed) => passed[1].at \in States /\ passed[1].val \in Values
<1>1. ASSUME passed = <<>> PROVE Len(passed) = 0 /\ \A s \in States : Arriving(s, passed) = <<>>
  BY <1>1 DEF Arriving
<1>2. ASSUME NEW a \in Passed, passed = <<a>> PROVE passed # <<>> /\ passed[1] = a /\ Len(passed) = 1
  BY <1>2
<1>3. \A a \in Passed : a.val \in Values /\ a.at \in States \cup {Foreign}
  BY DEF Passed
<1>4. <<>> \in Seq(Values) /\ \A v \in Values : <<v>> \in Seq(Values)
  OBVIOUS
<1> QED BY <1>1, <1>2, <1>3, <1>4 DEF ArgLists, Mixed, Arriving

\* What is pushed comes to lie on the stacks it is bound to, each on top, and nowhere else.
LEMMA PushingLands ==
  ASSUME IInv, NEW f, Landed(f), NEW passed \in ArgLists, ~Mixed(passed)
  PROVE  /\ Landed(PushingAll(f, passed))
         /\ \A s \in States : PushingAll(f, passed)[s] =
              [f[s] EXCEPT ![Len(f[s])] = f[s][Len(f[s])] \o Arriving(s, passed)]
<1> DEFINE g == PushingAll(f, passed)
           After(s) == [f[s] EXCEPT ![Len(f[s])] = f[s][Len(f[s])] \o Arriving(s, passed)]
<1>1. \A s \in States : /\ f \in Stacks /\ f[s] # <<>> /\ f[s] \in Seq(Seq(Values))
                        /\ f[s][Len(f[s])] \in Seq(Values)
  BY LandedParts
<1>2. \A s \in States : Arriving(s, passed) = <<>> => After(s) = f[s]
  <2> SUFFICES ASSUME NEW s \in States, Arriving(s, passed) = <<>> PROVE After(s) = f[s]
    OBVIOUS
  <2>1. f[s][Len(f[s])] \o <<>> = f[s][Len(f[s])]
    BY <1>1
  <2> QED BY <1>1, <2>1
<1>3. CASE passed = <<>>
  <2>1. g = f /\ \A s \in States : Arriving(s, passed) = <<>>
    BY <1>3 DEF PushingAll, Arriving
  <2> QED BY <1>2, <2>1
<1>4. CASE passed # <<>>
  <2>1. PICK t \in States, v \in Values : t = passed[1].at /\ v = passed[1].val
    BY <1>4, ListParts
  <2>2. g = WithFrame(f, t, Append(f[t][Len(f[t])], v))
    BY <1>4, <2>1 DEF PushingAll, Pushing
  <2>3. /\ Append(f[t][Len(f[t])], v) \in Seq(Values)
        /\ Append(f[t][Len(f[t])], v) = f[t][Len(f[t])] \o <<v>>
    BY <1>1
  <2>4. /\ Arriving(t, passed) = <<v>>
        /\ \A s \in States \ {t} : Arriving(s, passed) = <<>>
    BY <1>4, <2>1 DEF Arriving
  <2>5. /\ g \in Stacks /\ Len(g[t]) = Len(f[t]) /\ \A s \in States \ {t} : g[s] = f[s]
    <3>1. f \in Stacks /\ f[t] # <<>>
      BY <1>1
    <3>2. PICK w \in Seq(Values) : w = Append(f[t][Len(f[t])], v)
      BY <2>3
    <3>3. g = WithFrame(f, t, w)
      BY <2>2, <3>2
    <3> HIDE DEF g
    <3> QED BY <3>1, <3>2, <3>3, WithFrameOnly
  <2>6. g[t] = After(t)
    BY <1>1, <2>2, <2>3, <2>4 DEF WithFrame, Stacks
  <2>7. Landed(g)
    BY <2>5 DEF Landed
  <2> QED BY <1>2, <2>4, <2>5, <2>6, <2>7
<1> QED BY <1>3, <1>4

\* The same for a function and the arguments after it.
LEMMA BothLand ==
  ASSUME IInv, NEW function \in ArgLists, NEW args \in ArgLists, ~Mixed(function), ~Mixed(args)
  PROVE  LET f == PushingAll(PushingAll(stk, function), args)
         IN  /\ Landed(f)
             /\ \A s \in States :
                  f[s] = Topped(s, Frame(s) \o Arriving(s, function) \o Arriving(s, args))
<1> DEFINE g == PushingAll(stk, function)
           f == PushingAll(g, args)
<1>1. Landed(stk)
  BY StacksLanded
<1>2. /\ Landed(g)
      /\ \A s \in States : g[s] = Topped(s, Frame(s) \o Arriving(s, function))
  BY <1>1, PushingLands DEF Topped, Frame
<1> HIDE DEF g
<1>3. /\ Landed(f)
      /\ \A s \in States : f[s] = [g[s] EXCEPT ![Len(g[s])] = g[s][Len(g[s])] \o Arriving(s, args)]
  BY <1>2, PushingLands
<1> HIDE DEF f
<1>4. ASSUME NEW s \in States
      PROVE  f[s] = Topped(s, Frame(s) \o Arriving(s, function) \o Arriving(s, args))
  <2>1. /\ stk[s] \in Seq(Seq(Values)) /\ Len(stk[s]) \in DOMAIN stk[s]
    BY <1>1, LandedParts
  <2>2. /\ g[s][Len(stk[s])] = Frame(s) \o Arriving(s, function)
        /\ Len(g[s]) = Len(stk[s])
    BY <1>2, <2>1 DEF Topped, Landed
  <2>3. f[s] = [g[s] EXCEPT ![Len(stk[s])] = Frame(s) \o Arriving(s, function) \o Arriving(s, args)]
    BY <1>3, <2>2
  <2>4. g[s] = [stk[s] EXCEPT ![Len(stk[s])] = Frame(s) \o Arriving(s, function)]
    BY <1>2 DEF Topped
  <2> QED BY <2>1, <2>3, <2>4 DEF Topped
<1> QED BY <1>3, <1>4 DEF f, g

\* A resume or a start: what it does to the stack of code that waits.
LEMMA ResumeStep ==
  ASSUME IInv, NEW c \in Coroutines, NEW function \in ArgLists, NEW args \in ArgLists,
         NEW move \in BOOLEAN, ResumeWith(c, function, args, move)
  PROVE  /\ IInv'
         /\ \A s \in States : s \in Active \cup {Main} /\ s # Running =>
              \/ stk'[s] = stk[s]
              \/ LET q == Frame(s) \o Arriving(s, function) \o Arriving(s, args)
                 IN  stk'[s] = Topped(s, IF s = c /\ ret' = Error THEN Lowered(q, Len(args)) ELSE q)
<1> DEFINE Final(s) == Frame(s) \o Arriving(s, function) \o Arriving(s, args)
           f == PushingAll(PushingAll(stk, function), args)
           Waits(s) == s \in Active \cup {Main} /\ s # Running
           Fits(s) == \/ stk'[s] = stk[s]
                      \/ stk'[s] = Topped(s, IF s = c /\ ret' = Error
                                             THEN Lowered(Final(s), Len(args)) ELSE Final(s))
<1>1. CASE Mixed(function) /\ Throws(stk)
  <2>1. IInv'
    BY <1>1, ErrorIsResult, QuietStep, StacksLanded DEF Throws, Landed
  <2> QED BY <1>1, <2>1 DEF Throws
<1>2. CASE ~Mixed(function) /\ Mixed(args) /\ Throws(PushingAll(stk, function))
  <2> DEFINE g == PushingAll(stk, function)
  <2>1. /\ Landed(g)
        /\ \A s \in States : g[s] = Topped(s, Frame(s) \o Arriving(s, function))
    BY <1>2, StacksLanded, PushingLands DEF Topped, Frame
  <2>2. stk' = g /\ ret' = Thrown /\ UNCHANGED <<status, goesOn, chain>>
    BY <1>2 DEF Throws
  <2> HIDE DEF g
  <2>3. IInv'
    BY <2>1, <2>2, ErrorIsResult, QuietStep DEF Landed
  <2>4. ret' # Error
    BY <2>2 DEF Error, Thrown
  <2>5. ASSUME NEW s \in States PROVE Fits(s)
    <3>1. Arriving(s, args) = <<>>
      BY <1>2, ThreadAssumption DEF Mixed, Arriving, States
    <3>2. Frame(s) \o Arriving(s, function) \in Seq(Values)
      <4>1. Frame(s) \in Seq(Values) /\ Arriving(s, function) \in Seq(Values)
        BY FrameOf, ListParts DEF IInv
      <4> QED BY <4>1
    <3>3. Final(s) = Frame(s) \o Arriving(s, function)
      BY <3>1, <3>2
    <3> HIDE DEF Final
    <3> QED BY <2>1, <2>2, <2>4, <3>3
  <2> QED BY <2>3, <2>5
<1>3. CASE ~Mixed(function) /\ ~Mixed(args) /\ LuaResume(f, c, Len(args), move)
  <2>1. Landed(f) /\ \A s \in States : f[s] = Topped(s, Final(s))
    BY <1>3, BothLand
  <2>2. LuaResume(f, c, Len(args), move) /\ Len(args) \in Nat /\ c \in States
    BY <1>3, ListParts DEF States
  <2> HIDE DEF f
  <2>3. /\ IInv'
        /\ \A s \in States : Waits(s) =>
             IF s = c THEN Refused(f, c, Len(args)) /\ Len(args) \in 0..Len(f[c][Len(f[c])])
             ELSE stk'[s] = f[s]
    BY <2>1, <2>2, LuaResumeStep
  <2>4. ASSUME NEW s \in States, Waits(s), s # c PROVE Fits(s)
    BY <2>1, <2>3, <2>4
  <2>5. ASSUME Waits(c) PROVE Fits(c)
    <3> DEFINE n == Len(f[c])  low == Lowered(Final(c), Len(args))
    <3>1. Refused(f, c, Len(args)) /\ Len(args) \in 0..Len(f[c][n])
      BY <2>2, <2>3, <2>5
    <3>2. /\ f[c] = Topped(c, Final(c)) /\ n = Len(stk[c]) /\ n \in DOMAIN stk[c]
          /\ stk[c] \in Seq(Seq(Values))
      BY <2>1, <2>2, StacksLanded, LandedParts DEF Landed
    <3>3. f[c][n] = Final(c)
      BY <3>2 DEF Topped
    <3>4. /\ ret' = Error /\ stk'[c][n] = Lowered(f[c][n], Len(args))
          /\ \A i \in 1..n : i # n => stk'[c][i] = f[c][i]
          /\ stk'[c] \in Seq(Seq(Values)) /\ Len(stk'[c]) = n
      BY <2>1, <2>2, <3>1, RefusedStep
    <3>5. stk'[c][n] = low
      BY <3>3, <3>4
    <3> HIDE DEF low, n, Final
    <3>6. \A i \in 1..n : stk'[c][i] = Topped(c, low)[i]
      BY <3>2, <3>4, <3>5 DEF Topped
    <3>7. stk'[c] = Topped(c, low)
      <4>1. DOMAIN stk'[c] = 1..n /\ DOMAIN Topped(c, low) = 1..n
        BY <3>2, <3>4 DEF Topped
      <4>2. Topped(c, low) = [i \in 1..n |-> Topped(c, low)[i]]
        BY <3>2, <4>1 DEF Topped
      <4>3. stk'[c] = [i \in 1..n |-> stk'[c][i]]
        BY <3>4, <4>1
      <4> QED BY <3>6, <4>2, <4>3
    <3> QED BY <3>4, <3>7 DEF low
  <2> QED BY <2>3, <2>4, <2>5
<1> QED BY <1>1, <1>2, <1>3 DEF ResumeWith

-----------------------------------------------------------------------------
(* The theorems. *)

LEMMA InitSound == Init => IInv
<1> SUFFICES ASSUME Init PROVE IInv
  OBVIOUS
<1>1. << <<>> >> \in Seq(Seq(Values)) /\ Len(<< <<>> >>) = 1
  OBVIOUS
<1>2. /\ stk \in Stacks
      /\ \A s \in States : Len(stk[s]) = 1
  BY <1>1 DEF Init, Stacks
<1>3. Main \in States /\ \A c \in Coroutines : c \in States
  BY DEF States
<1>4. status \in Statuses /\ goesOn \in Sequels /\ ret \in Results
  BY DEF Init, Statuses, Sequels, Results
<1>5. chain = <<>> /\ chain \in Seq(Resumes) /\ DOMAIN chain = {}
  BY DEF Init
<1>6. TypeOK
  BY <1>2, <1>3, <1>4, <1>5, TypeParts
<1>7. OneResumeEach
  BY <1>2, <1>3, <1>5 DEF OneResumeEach, Active, AtBase
<1>8. SuspendedHaveBodies
  BY DEF Init, SuspendedHaveBodies
<1> QED BY <1>6, <1>7, <1>8 DEF IInv

LEMMA NextSound == IInv /\ [Next]_vars => IInv'
<1> SUFFICES ASSUME IInv, [Next]_vars PROVE IInv'
  OBVIOUS
<1>1. CASE UNCHANGED vars
  <2>1. UNCHANGED <<status, goesOn, chain, stk, ret>>
    BY <1>1 DEF vars
  <2>2. ret' \in Results /\ stk' \in Stacks
    BY <2>1, TypeParts DEF IInv
  <2> QED BY <2>1, <2>2, QuietStep
<1>2. ASSUME NEW n \in 0..MaxStack, Return(n) PROVE IInv'
  <2>1. n \in Nat
    BY <1>2, ThreadAssumption
  <2> QED BY <1>2, <2>1, ReturnStep
<1>3. ASSUME NEW n \in 0..MaxStack, NEW next \in {"end", "continuation", "script"}, Yield(n, next)
      PROVE  IInv'
  <2>1. n \in Nat
    BY <1>3, ThreadAssumption
  <2> QED BY <1>3, <2>1, YieldStep
<1>4. CASE Raise
  BY <1>4, RaiseStep
<1>5. ASSUME NEW v \in Values, Push(v) PROVE IInv'
  BY <1>5, PushStep
<1>6. ASSUME NEW s \in States, PopFrom(s) PROVE IInv'
  BY <1>6, PopFromStep
<1>7. ASSUME NEW c \in Coroutines, NEW move \in BOOLEAN, NEW args \in ArgLists,
             Resume(c, args, move)
      PROVE  IInv'
  BY <1>7, FunctionListsAreLists, ResumeStep DEF Resume
<1>8. ASSUME NEW c \in Coroutines, NEW move \in BOOLEAN, NEW args \in ArgLists,
             NEW f \in FunctionsPassed, Start(c, f, args, move)
      PROVE  IInv'
  BY <1>8, FunctionListsAreLists, ResumeStep DEF Start
<1> QED BY <1>1, <1>2, <1>3, <1>4, <1>5, <1>6, <1>7, <1>8 DEF Next, Bodies

\* The invariant holds in every reachable state, whatever the number of coroutines and
\* of values, and however many values the bodies push, give back and leave behind.
THEOREM Invariance == Spec => []IInv
<1>1. Init => IInv
  BY InitSound
<1>2. IInv /\ [Next]_vars => IInv'
  BY NextSound
<1> QED BY <1>1, <1>2, PTL DEF Spec

\* Stacks hold values in one frame or, in a coroutine whose body is under way, two;
\* the main thread never gets a body.
THEOREM TypeCorrect == Spec => []TypeOK
<1>1. IInv => TypeOK
  BY DEF IInv
<1> QED BY <1>1, Invariance, PTL

\* A coroutine is resumed once at a time, however resumes nest, and its body runs exactly
\* while that resume is under way (lua_resume's test of the status and of the base level,
\* LuaThread::resume and start).
THEOREM OneResume == Spec => []OneResumeEach
<1>1. IInv => OneResumeEach
  BY DEF IInv
<1> QED BY <1>1, Invariance, PTL
-----------------------------------------------------------------------------
(* Code that waits. *)

Disturbed(s, c, function, args, move) ==
  /\ ResumeWith(c, function, args, move)
  /\ LET q == Frame(s) \o Arriving(s, function) \o Arriving(s, args)
     IN  stk'[s] = Topped(s, IF s = c /\ ret' = Error THEN Lowered(q, Len(args)) ELSE q)

Undisturbed(s) ==
  \/ stk'[s] = stk[s]
  \/ \E c \in Coroutines, move \in BOOLEAN, args \in ArgLists, function \in FunctionLists :
       Disturbed(s, c, function, args, move)

LEMMA WaitersStep ==
  ASSUME IInv, [Next]_vars, NEW s \in Active \cup {Main}, s # Running, s # Running'
  PROVE  Undisturbed(s)
<1>0. s \in States
  BY RunningNow DEF States
<1>1. CASE UNCHANGED vars
  BY <1>1 DEF vars, Undisturbed
<1>2. ASSUME NEW n \in 0..MaxStack, Return(n) PROVE Undisturbed(s)
  <2>1. n \in Nat
    BY <1>2, ThreadAssumption
  <2> QED BY <1>0, <1>2, <2>1, ReturnStep DEF Undisturbed
<1>3. ASSUME NEW n \in 0..MaxStack, NEW next \in {"end", "continuation", "script"}, Yield(n, next)
      PROVE  Undisturbed(s)
  <2>1. n \in Nat
    BY <1>3, ThreadAssumption
  <2> QED BY <1>0, <1>3, <2>1, YieldStep DEF Undisturbed
<1>4. CASE Raise
  <2>1. \A r \in States \ {Running} : stk'[r] = stk[r]
    BY <1>4, RaiseStep
  <2> QED BY <1>0, <2>1 DEF Undisturbed
<1>5. ASSUME NEW v \in Values, Push(v) PROVE Undisturbed(s)
  BY <1>0, <1>5, PushStep DEF Undisturbed
<1>6. ASSUME NEW r \in States, PopFrom(r) PROVE Undisturbed(s)
  <2>1. s # r
    BY <1>6 DEF PopFrom
  <2> QED BY <1>0, <1>6, <2>1, PopFromStep DEF Undisturbed
<1>7. ASSUME NEW c \in Coroutines, NEW move \in BOOLEAN, NEW args \in ArgLists,
             NEW function \in FunctionLists, ResumeWith(c, function, args, move)
      PROVE  Undisturbed(s)
  <2>1. stk'[s] = stk[s] \/ Disturbed(s, c, function, args, move)
    BY <1>0, <1>7, FunctionListsAreLists, ResumeStep DEF Disturbed
  <2> QED BY <2>1 DEF Undisturbed
<1>8. ASSUME NEW c \in Coroutines, NEW move \in BOOLEAN, NEW args \in ArgLists,
             NEW f \in FunctionsPassed, Resume(c, args, move) \/ Start(c, f, args, move)
      PROVE  Undisturbed(s)
  BY <1>7, <1>8, FunctionListsAreLists DEF Resume, Start
<1>9. ASSUME NEW c \in Coroutines, NEW move \in BOOLEAN, NEW args \in ArgLists,
             Resume(c, args, move)
      PROVE  Undisturbed(s)
  BY <1>7, <1>9, FunctionListsAreLists DEF Resume
<1> QED BY <1>1, <1>2, <1>3, <1>4, <1>5, <1>6, <1>8, <1>9 DEF Next, Bodies

\* Code that waits for a resume to come back finds its stack as it left it, whatever is
\* done by and to other coroutines meanwhile, but for what pushOnto puts on the lua_State a
\* passed reference is bound to, and for calls to start or resume the waiting coroutine.
THEOREM WaitersKeepTheirStacks == Spec => WaitersUndisturbed
<1> DEFINE Quiet == \A s \in Active \cup {Main} : s \notin {Running, Running'} =>
                      \/ stk'[s] = stk[s]
                      \/ \E c \in Coroutines, move \in BOOLEAN, args \in ArgLists,
                            function \in {<<>>} \cup {<<f>> : f \in FunctionsPassed} :
                           /\ ResumeWith(c, function, args, move)
                           /\ LET q == Frame(s) \o Arriving(s, function) \o Arriving(s, args)
                              IN  stk'[s] = [stk[s] EXCEPT ![Len(stk[s])] =
                                    IF s = c /\ ret' = Error THEN Lowered(q, Len(args)) ELSE q]
<1>1. IInv /\ [Next]_vars => Quiet
  BY WaitersStep DEF Undisturbed, Disturbed, Topped, FunctionLists
<1> HIDE DEF Quiet
<1>2. IInv /\ [Next]_vars => [Quiet]_vars
  BY <1>1
<1>3. Spec => [][Quiet]_vars
  BY <1>2, Invariance, PTL DEF Spec
<1> QED BY <1>3 DEF WaitersUndisturbed, Quiet
-----------------------------------------------------------------------------
(* The life of a coroutine. *)

Phases == [c \in Coroutines |-> Phase(c)]
Resumers == [i \in DOMAIN chain |-> chain[i].co]

LEMMA SameSeq ==
  ASSUME NEW S, NEW p \in Seq(S), NEW q \in Seq(S), Len(p) = Len(q),
         \A i \in 1..Len(p) : p[i] = q[i]
  PROVE  p = q
OBVIOUS

LEMMA ResumersParts ==
  ASSUME IInv
  PROVE  /\ Resumers \in Seq(Coroutines) /\ Len(Resumers) = Len(chain)
         /\ \A i \in 1..Len(chain) : Resumers[i] = chain[i].co
<1>1. Len(chain) \in Nat /\ DOMAIN chain = 1..Len(chain)
  BY ChainParts
<1>2. \A i \in 1..Len(chain) : chain[i].co \in Coroutines
  BY ChainParts
<1> QED BY <1>1, <1>2 DEF Resumers

LEMMA ResumersNext ==
  ASSUME IInv'
  PROVE  /\ Resumers' \in Seq(Coroutines) /\ Len(Resumers') = Len(chain')
         /\ \A i \in 1..Len(chain') : Resumers'[i] = chain'[i].co
<1>1. chain' \in Seq(Resumes)
  BY DEF IInv, TypeOK, Resumes
<1>2. \A i \in DOMAIN chain' : chain'[i].co \in Coroutines
  <2>1. \A i \in DOMAIN chain' : chain'[i] \in Resumes
    BY <1>1, SeqParts
  <2> QED BY <2>1 DEF Resumes
<1>3. Len(chain') \in Nat /\ DOMAIN chain' = 1..Len(chain')
  BY <1>1, SeqParts
<1> QED BY <1>2, <1>3 DEF Resumers

LEMMA ResumersGrow ==
  ASSUME IInv, IInv', NEW c \in Coroutines, NEW move \in BOOLEAN,
         chain' = Append(chain, [co |-> c, move |-> move])
  PROVE  Resumers' = Append(Resumers, c)
<1> DEFINE r == [co |-> c, move |-> move]
<1>1. r \in Resumes /\ r.co = c
  BY DEF Resumes
<1> HIDE DEF r
<1>2. chain \in Seq(Resumes) /\ chain' = Append(chain, r)
  BY ChainParts DEF r
<1>3. /\ Len(chain') = Len(chain) + 1 /\ chain'[Len(chain) + 1] = r
      /\ \A i \in 1..Len(chain) : chain'[i] = chain[i]
  BY <1>1, <1>2
<1>4. PICK p \in Seq(Coroutines) : p = Resumers
  BY ResumersParts
<1>5. PICK q \in Seq(Coroutines) : q = Resumers'
  BY ResumersNext
<1>6. Len(p) = Len(chain) /\ \A i \in 1..Len(p) : p[i] = chain[i].co
  BY <1>4, ResumersParts
<1>7. Len(q) = Len(p) + 1 /\ \A i \in 1..Len(q) : q[i] = chain'[i].co
  BY <1>3, <1>5, <1>6, ResumersNext
<1>8. /\ Append(p, c) \in Seq(Coroutines) /\ Len(Append(p, c)) = Len(p) + 1
      /\ Append(p, c)[Len(p) + 1] = c
      /\ \A i \in 1..Len(p) : Append(p, c)[i] = p[i]
  OBVIOUS
<1>9. \A i \in 1..Len(q) : q[i] = Append(p, c)[i]
  <2> TAKE i \in 1..Len(q)
  <2>1. CASE i \in 1..Len(p)
    BY <1>3, <1>6, <1>7, <1>8, <2>1
  <2>2. CASE i = Len(p) + 1
    BY <1>1, <1>3, <1>6, <1>7, <1>8, <2>2
  <2>3. i \in 1..Len(p) \/ i = Len(p) + 1
    BY <1>7
  <2> QED BY <2>1, <2>2, <2>3
<1>10. q = Append(p, c)
  BY <1>7, <1>8, <1>9, SameSeq
<1> QED BY <1>4, <1>5, <1>10

LEMMA ResumersShrink ==
  ASSUME IInv, IInv', chain # <<>>, chain' = Front(chain)
  PROVE  /\ Resumers # <<>> /\ Resumers[Len(Resumers)] = Running
         /\ Resumers' = SubSeq(Resumers, 1, Len(Resumers) - 1)
<1>1. chain \in Seq(Resumes) /\ Len(chain) \in 1..Len(chain)
  BY ChainParts
<1>2. Len(chain') = Len(chain) - 1 /\ \A i \in 1..Len(chain') : chain'[i] = chain[i]
  <2>1. /\ Len(chain') = Len(chain) - 1 /\ chain' \in Seq(Resumes)
        /\ \A i \in DOMAIN chain' : chain'[i] = chain[i]
    BY <1>1, FrontParts
  <2>2. DOMAIN chain' = 1..Len(chain')
    BY <2>1, SeqParts
  <2> QED BY <2>1, <2>2
<1>3. PICK p \in Seq(Coroutines) : p = Resumers
  BY ResumersParts
<1>4. PICK q \in Seq(Coroutines) : q = Resumers'
  BY ResumersNext
<1>5. Len(p) = Len(chain) /\ \A i \in 1..Len(p) : p[i] = chain[i].co
  BY <1>3, ResumersParts
<1>6. Len(q) = Len(p) - 1 /\ \A i \in 1..Len(q) : q[i] = chain'[i].co
  BY <1>2, <1>4, <1>5, ResumersNext
<1>7. p # <<>> /\ Len(p) > 0
  BY <1>1, <1>5
<1>8. /\ SubSeq(p, 1, Len(p) - 1) \in Seq(Coroutines)
      /\ Len(SubSeq(p, 1, Len(p) - 1)) = Len(p) - 1
      /\ \A i \in 1..(Len(p) - 1) : SubSeq(p, 1, Len(p) - 1)[i] = p[i]
  <2>1. SubSeq(p, 1, Len(p) - 1) = Front(p)
    BY DEF Front
  <2>2. /\ Front(p) \in Seq(Coroutines) /\ Len(Front(p)) = Len(p) - 1
        /\ \A i \in DOMAIN Front(p) : Front(p)[i] = p[i]
    BY <1>7, FrontParts
  <2>3. DOMAIN Front(p) = 1..(Len(p) - 1)
    BY <2>2, SeqParts
  <2> QED BY <2>1, <2>2, <2>3
<1>9. \A i \in 1..Len(q) : q[i] = SubSeq(p, 1, Len(p) - 1)[i]
  BY <1>2, <1>5, <1>6, <1>8
<1>10. q = SubSeq(p, 1, Len(p) - 1)
  BY <1>6, <1>8, <1>9, SameSeq
<1>11. p[Len(p)] = Running
  BY <1>1, <1>5, <1>7 DEF Running, RunningAfter, Last
<1> QED BY <1>3, <1>4, <1>7, <1>10, <1>11
LEMMA PhaseParts ==
  ASSUME IInv, NEW c \in Coroutines
  PROVE  /\ Phase(c) = "active" <=> c \in Active
         /\ Phase(c) = "suspended" <=> status[c] = "yield"
         /\ Phase(c) = "failed" <=> status[c] = "error"
         /\ Phase(c) = "idle" <=> status[c] = "ok" /\ c \notin Active
<1>1. c \in Active => status[c] = "ok"
  BY DEF IInv, OneResumeEach
<1>2. status[c] \in {"ok", "yield", "error"}
  BY TypeParts DEF IInv, Statuses
<1>3. CASE c \in Active
  BY <1>1, <1>3 DEF Phase
<1>4. CASE c \notin Active
  BY <1>2, <1>4 DEF Phase
<1> QED BY <1>3, <1>4

LEMMA PhaseNext ==
  ASSUME IInv', NEW c \in Coroutines
  PROVE  /\ c \in Active' => Phase(c)' = "active"
         /\ status'[c] = "yield" => Phase(c)' = "suspended"
         /\ status'[c] = "error" => Phase(c)' = "failed"
         /\ status'[c] = "ok" /\ c \notin Active' => Phase(c)' = "idle"
<1>1. c \in Active' => status'[c] = "ok"
  BY DEF IInv, OneResumeEach
<1>2. CASE c \in Active'
  BY <1>1, <1>2 DEF Phase
<1>3. CASE c \notin Active'
  BY <1>3 DEF Phase
<1> QED BY <1>1, <1>2, <1>3

\* A step that moves c alone from one phase of its life to another.
LEMMA PhaseMoves ==
  ASSUME NEW c \in Coroutines, NEW p, Phase(c)' = p,
         \A d \in Coroutines \ {c} : status'[d] = status[d],
         Active' \ {c} = Active \ {c}
  PROVE  Phases' = [Phases EXCEPT ![c] = p]
<1>1. \A d \in Coroutines \ {c} : Phase(d)' = Phase(d)
  BY DEF Phase
<1> QED BY <1>1 DEF Phases

LEMMA EntersLife ==
  ASSUME IInv, IInv', NEW c \in Coroutines, NEW move \in BOOLEAN,
         chain' = Append(chain, [co |-> c, move |-> move]), c \notin Active,
         \A d \in Coroutines \ {c} : status'[d] = status[d], ret' = ret
  PROVE  Life!Enter(c)
<1>1. Active' = Active \cup {c}
  BY ChainGrows
<1>2. Phase(c)' = "active"
  BY <1>1, PhaseNext
<1>3. Phases' = [Phases EXCEPT ![c] = "active"]
  BY <1>1, <1>2, PhaseMoves
<1>4. Resumers' = Append(Resumers, c)
  BY ResumersGrow
<1> QED BY <1>3, <1>4 DEF Life!Enter, Life!Goes, Phases, Resumers

LEMMA LeavesLife ==
  ASSUME IInv, IInv', chain # <<>>, chain' = Front(chain),
         NEW c \in Coroutines, c = Running, NEW p, Phase(c)' = p, NEW how, ret'.kind = how,
         \A d \in Coroutines \ {c} : status'[d] = status[d]
  PROVE  Life!Leave(p, how)
<1>1. Active' \ {c} = Active \ {c}
  BY RunningLeaves
<1>2. /\ Resumers # <<>> /\ Resumers[Len(Resumers)] = c
      /\ Resumers' = SubSeq(Resumers, 1, Len(Resumers) - 1)
  BY ResumersShrink
<1>3. Phases' = [Phases EXCEPT ![c] = p]
  BY <1>1, PhaseMoves
<1>4. Phases' = [Phases EXCEPT ![Resumers[Len(Resumers)]] = p]
  BY <1>2, <1>3
<1> QED BY <1>2, <1>4 DEF Life!Leave, Life!Goes, Phases, Resumers
\* Each way a resume can go is a step of that life.
LEMMA ResumeRefines ==
  ASSUME IInv, IInv', NEW c \in Coroutines, NEW f, NEW n, NEW move \in BOOLEAN,
         LuaResume(f, c, n, move)
  PROVE  Life!Next
<1>0. /\ status[c] # "ok" => c \notin Active
      /\ AtBase(c) => c \notin Active
      /\ status \in Statuses
  BY TypeParts DEF IInv, OneResumeEach
<1>1. CASE Refused(f, c, n)
  <2>1. Phase(c) # "suspended"
    BY <1>1, PhaseParts DEF Refused, Refusable
  <2>2. Phases' = Phases /\ Resumers' = Resumers /\ ret'.kind = "error"
    BY <1>1 DEF Refused, Phases, Resumers, Phase, Active, Error
  <2>3. Life!Refuse(c)
    BY <2>1, <2>2 DEF Life!Refuse, Phases, Resumers
  <2> QED BY <2>3 DEF Life!Next
<1>2. CASE Begins(f, c, n, move)
  <2>1. /\ status[c] = "ok" /\ c \notin Active /\ status' = status /\ ret' = ret
        /\ chain' = Append(chain, [co |-> c, move |-> move])
    BY <1>0, <1>2 DEF Begins, Startable
  <2>2. Life!Enter(c) /\ Phase(c) = "idle"
    BY <2>1, EntersLife, PhaseParts
  <2>3. Life!Start(c)
    BY <2>2 DEF Life!Start
  <2> QED BY <2>3 DEF Life!Next
<1>3. CASE CallsNoFunction(f, c, n)
  <2>1. /\ status[c] = "ok" /\ c \notin Active /\ chain' = chain /\ ret'.kind = "error"
        /\ status'[c] = "error" /\ \A d \in Coroutines \ {c} : status'[d] = status[d]
    BY <1>0, <1>3 DEF CallsNoFunction, Startable, Error, Statuses
  <2>2. Active' = Active /\ Resumers' = Resumers
    BY <2>1 DEF Active, Resumers
  <2>3. Phase(c) = "idle" /\ Phase(c)' = "failed"
    BY <2>1, PhaseParts, PhaseNext
  <2>4. Phases' = [Phases EXCEPT ![c] = "failed"]
    BY <2>1, <2>2, <2>3, PhaseMoves
  <2>5. Life!StartFails(c)
    BY <2>1, <2>2, <2>3, <2>4 DEF Life!StartFails, Life!Goes, Phases, Resumers
  <2> QED BY <2>5 DEF Life!Next
<1>4. CASE Continues(f, c, n, move)
  <2>1. /\ status[c] = "yield" /\ c \notin Active /\ ret' = ret
        /\ \A d \in Coroutines \ {c} : status'[d] = status[d]
        /\ chain' = Append(chain, [co |-> c, move |-> move])
    BY <1>0, <1>4 DEF Continues, Statuses
  <2>2. Life!Enter(c) /\ Phase(c) = "suspended"
    BY <2>1, EntersLife, PhaseParts
  <2>3. Life!Resume(c)
    BY <2>2 DEF Life!Resume
  <2> QED BY <2>3 DEF Life!Next
<1>5. CASE RunsToEnd(f, c, n, move)
  <2>1. /\ status[c] = "yield" /\ c \notin Active /\ chain' = chain /\ status'[c] = "ok"
        /\ \A d \in Coroutines \ {c} : status'[d] = status[d]
    BY <1>0, <1>5 DEF RunsToEnd, Statuses
  <2>2. ret'.kind = "done"
    BY <1>5 DEF RunsToEnd, Answer
  <2>3. Active' = Active /\ Resumers' = Resumers
    BY <2>1 DEF Active, Resumers
  <2>4. Phase(c) = "suspended" /\ Phase(c)' = "idle"
    BY <2>1, <2>3, PhaseParts, PhaseNext
  <2>5. Phases' = [Phases EXCEPT ![c] = "idle"]
    BY <2>1, <2>3, <2>4, PhaseMoves
  <2>6. Life!ResumeToEnd(c)
    BY <2>2, <2>3, <2>4, <2>5 DEF Life!ResumeToEnd, Life!Goes, Phases, Resumers
  <2> QED BY <2>6 DEF Life!Next
<1> QED BY <1>1, <1>2, <1>3, <1>4, <1>5 DEF LuaResume

LEMMA ThrowRefines ==
  ASSUME NEW f, Throws(f)
  PROVE  Life!Next
<1>1. Phases' = Phases /\ Resumers' = Resumers /\ ret'.kind = "thrown"
  BY DEF Throws, Phases, Resumers, Phase, Active, Thrown
<1>2. Life!Throw
  BY <1>1 DEF Life!Throw, Phases, Resumers
<1> QED BY <1>2 DEF Life!Next

LEMMA CallRefines ==
  ASSUME IInv, IInv', NEW c \in Coroutines, NEW function, NEW args, NEW move \in BOOLEAN,
         ResumeWith(c, function, args, move)
  PROVE  Life!Next
BY ResumeRefines, ThrowRefines DEF ResumeWith

\* So is each way a body hands control back.
LEMMA BodyRefines ==
  ASSUME IInv, IInv', NEW n, NEW next, Return(n) \/ Yield(n, next) \/ Raise
  PROVE  Life!Next
<1>1. chain # <<>> /\ chain' = Front(chain)
  BY RaiseStep DEF Return, Yield
<1>2. PICK c \in Coroutines : c = Running
  BY <1>1, RunningLeaves
<1>3. status[c] = "ok" /\ c \notin Active' /\ status \in Statuses
  BY <1>1, <1>2, RunningLeaves, TypeParts DEF IInv
<1>4. CASE Return(n)
  <2>1. status' = status /\ ret'.kind = "done"
    BY <1>4 DEF Return, Answer
  <2>2. Phase(c)' = "idle"
    BY <1>3, <2>1, PhaseNext
  <2>3. Life!Leave("idle", "done")
    BY <1>1, <1>2, <2>1, <2>2, LeavesLife
  <2> QED BY <2>3 DEF Life!Next
<1>5. CASE Yield(n, next)
  <2>1. /\ status'[c] = "yield" /\ ret'.kind = "yield"
        /\ \A d \in Coroutines \ {c} : status'[d] = status[d]
    BY <1>2, <1>3, <1>5 DEF Yield, Answer, Statuses
  <2>2. Phase(c)' = "suspended"
    BY <2>1, PhaseNext
  <2>3. Life!Leave("suspended", "yield")
    BY <1>1, <1>2, <2>1, <2>2, LeavesLife
  <2> QED BY <2>3 DEF Life!Next
<1>6. CASE Raise
  <2>1. /\ status'[c] = "error" /\ ret'.kind \in {"error", "thrown"}
        /\ \A d \in Coroutines \ {c} : status'[d] = status[d]
    BY <1>2, <1>3, <1>6, RaiseStep DEF Error, Thrown, Statuses
  <2>2. Phase(c)' = "failed"
    BY <2>1, PhaseNext
  <2>3. ASSUME NEW how, ret'.kind = how PROVE Life!Leave("failed", how)
    BY <1>1, <1>2, <2>1, <2>2, <2>3, LeavesLife
  <2>4. CASE ret'.kind = "error"
    BY <2>3, <2>4 DEF Life!Next
  <2>5. CASE ret'.kind = "thrown"
    BY <2>3, <2>5 DEF Life!Next
  <2> QED BY <2>1, <2>4, <2>5
<1> QED BY <1>4, <1>5, <1>6

LEMMA InitRefines == Init => Life!Init
<1> SUFFICES ASSUME Init PROVE Life!Init
  OBVIOUS
<1>1. chain = <<>> /\ Active = {} /\ DOMAIN chain = {}
  BY DEF Init, Active
<1>2. \A c \in Coroutines : Phase(c) = "idle"
  BY <1>1 DEF Init, Phase
<1>3. Phases = [c \in Coroutines |-> "idle"]
  BY <1>2 DEF Phases
<1>4. Resumers = <<>>
  BY <1>1 DEF Resumers
<1> QED BY <1>3, <1>4 DEF Init, Life!Init, Phases, Resumers

LEMMA StepRefines == IInv /\ IInv' /\ [Next]_vars => [Life!Next]_<<Phases, Resumers, ret.kind>>
<1> SUFFICES ASSUME IInv, IInv', [Next]_vars
             PROVE  Life!Next \/ UNCHANGED <<Phases, Resumers, ret.kind>>
  OBVIOUS
<1>1. CASE UNCHANGED <<status, chain, ret>>
  BY <1>1 DEF Phases, Resumers, Phase, Active
<1>2. CASE UNCHANGED vars
  BY <1>1, <1>2 DEF vars
<1>3. ASSUME NEW n \in 0..MaxStack, Return(n) PROVE Life!Next
  BY <1>3, BodyRefines
<1>4. ASSUME NEW n \in 0..MaxStack, NEW next \in {"end", "continuation", "script"}, Yield(n, next)
      PROVE  Life!Next
  BY <1>4, BodyRefines
<1>5. CASE Raise
  BY <1>5, BodyRefines
<1>6. ASSUME NEW v \in Values, Push(v) PROVE UNCHANGED <<status, chain, ret>>
  BY <1>6 DEF Push
<1>7. ASSUME NEW s \in States, PopFrom(s) PROVE UNCHANGED <<status, chain, ret>>
  BY <1>7 DEF PopFrom
<1>8. ASSUME NEW c \in Coroutines, NEW move \in BOOLEAN, NEW args \in ArgLists,
             Resume(c, args, move)
      PROVE  Life!Next
  BY <1>8, CallRefines DEF Resume
<1>9. ASSUME NEW c \in Coroutines, NEW move \in BOOLEAN, NEW args \in ArgLists,
             NEW f \in FunctionsPassed, Start(c, f, args, move)
      PROVE  Life!Next
  BY <1>9, CallRefines DEF Start
<1> QED BY <1>1, <1>2, <1>3, <1>4, <1>5, <1>6, <1>7, <1>8, <1>9 DEF Next, Bodies

\* Whatever is left on the stacks, and however resumes nest, every coroutine leads the
\* life Coroutine describes: it runs only when resumed, hands control back to what resumed
\* it, may start again once its function has returned, and never after an error.
THEOREM Refinement == Spec => ImplementsCoroutine
<1>1. Life!Spec <=> Life!Init /\ [][Life!Next]_<<Phases, Resumers, ret.kind>>
  BY DEF Life!Spec, Life!vars, Phases, Resumers
<1> QED BY <1>1, InitRefines, StepRefines, Invariance, PTL DEF Spec, ImplementsCoroutine
-----------------------------------------------------------------------------
(* What a resume gives back. *)

LEMMA YieldGives ==
  ASSUME IInv, NEW n \in Nat, NEW next \in {"end", "continuation", "script"}, Yield(n, next)
  PROVE  /\ Topmost(Frame(Running), n) \in Seq(Values)
         /\ ret'.nret = Len(Topmost(Frame(Running), n))
         /\ \A L \in {Resumer} : Frame(L)' = Frame(L) \o Moved(Resumption.move, Topmost(Frame(Running), n))
<1>1. chain # <<>> /\ chain' = Front(chain)
  BY DEF Yield
<1>2. PICK c \in States : c = Running
  BY <1>1, RunningLeaves
<1>3. PICK L \in States, move \in BOOLEAN : L = Resumer /\ move = Resumption.move /\ L # Running
  BY <1>1, ChainShrinks
<1>4. PICK f \in Stacks : f = stk
  BY <1>2, FrameOf DEF IInv
<1>5. (\A s \in States : f[s] # <<>>) /\ n \in 0..Len(f[c][Len(f[c])])
  <2>1. (\A s \in States : stk[s] # <<>>) /\ Frame(c) \in Seq(Values)
    BY <1>2, FrameOf DEF IInv
  <2> QED BY <1>2, <1>4, <2>1 DEF Yield, Frame
<1>6. Answer(f, c, L, move, n, "yield")
  BY <1>2, <1>3, <1>4 DEF Yield
<1>7. /\ Len(stk'[L]) = Len(f[L]) /\ ret' = [kind |-> "yield", nret |-> n]
      /\ stk'[L][Len(f[L])] = Gets(f, c, L, move, n)
  <2>1. c \in States /\ c # L
    BY <1>2, <1>3
  <2> QED BY <2>1, <1>5, <1>6, AnswerMoves
<1>8. Frame(c) \in Seq(Values) /\ n \in 0..Len(Frame(c))
  BY <1>2, <1>4, <1>5, FrameOf DEF IInv, Frame
<1>9. Topmost(Frame(c), n) \in Seq(Values) /\ Len(Topmost(Frame(c), n)) = n
  BY <1>8, FrameParts
<1>10. Frame(L)' = stk'[L][Len(stk'[L])]
  BY DEF Frame
<1>11. Frame(L)' = Frame(L) \o Moved(move, Topmost(Frame(c), n))
  BY <1>4, <1>7, <1>10 DEF Frame, Gets
<1> QED BY <1>2, <1>3, <1>7, <1>9, <1>11

LEMMA ReturnGives ==
  ASSUME IInv, NEW n \in Nat, Return(n)
  PROVE  LET given == stk[Running][1] \o Topmost(Frame(Running), n)
         IN  /\ ret'.nret = Len(given)
             /\ \A L \in {Resumer} : Frame(L)' = Frame(L) \o Moved(Resumption.move, given)
<1>1. chain # <<>> /\ chain' = Front(chain)
  BY DEF Return
<1>2. PICK c \in Coroutines : c = Running /\ c \in States
  BY <1>1, RunningLeaves
<1>3. PICK L \in States, move \in BOOLEAN : L = Resumer /\ move = Resumption.move /\ L # Running
  BY <1>1, ChainShrinks
<1>4. PICK base \in Seq(Values) : base = stk[c][1] \o Topmost(Frame(c), n)
  <2>1. stk[c] \in Seq(Seq(Values)) /\ stk[c] # <<>> /\ Frame(c) \in Seq(Values)
    BY <1>2, FrameOf DEF IInv, Stacks
  <2>2. stk[c][1] \in Seq(Values) /\ n \in 0..Len(Frame(c))
    BY <1>2, <2>1 DEF Return
  <2>3. Topmost(Frame(c), n) \in Seq(Values)
    BY <2>1, <2>2, FrameParts
  <2>4. stk[c][1] \o Topmost(Frame(c), n) \in Seq(Values)
    BY <2>2, <2>3
  <2> QED BY <2>4
<1>5. PICK f \in Stacks : f = Ended(stk, c, base)
  BY <1>2, BaseFrame, StacksLanded
<1>6. /\ f[c] = <<base>> /\ f[c][Len(f[c])] = base /\ f[L] = stk[L]
      /\ \A s \in States : f[s] # <<>>
  <2>1. f[c] = <<base>> /\ f[L] = stk[L] /\ \A s \in States : f[s] # <<>>
    BY <1>2, <1>3, <1>5, BaseFrame, StacksLanded
  <2> QED BY <2>1
<1>7. Answer(f, c, L, move, Len(base), "done")
  BY <1>2, <1>3, <1>4, <1>5 DEF Return, Ended
<1>8. Len(base) \in 0..Len(f[c][Len(f[c])])
  BY <1>6
<1>9. /\ Len(stk'[L]) = Len(f[L]) /\ ret' = [kind |-> "done", nret |-> Len(base)]
      /\ stk'[L][Len(f[L])] = Gets(f, c, L, move, Len(base))
  <2>1. c \in States /\ c # L /\ \A s \in States : f[s] # <<>>
    BY <1>2, <1>3, <1>6
  <2> QED BY <2>1, <1>7, <1>8, AnswerMoves
<1>10. Topmost(base, Len(base)) = base
  BY DEF Topmost
<1>11. Frame(L)' = stk'[L][Len(stk'[L])]
  BY DEF Frame
<1>12. Frame(L)' = Frame(L) \o Moved(move, base)
  BY <1>6, <1>9, <1>10, <1>11 DEF Frame, Gets
<1> QED BY <1>2, <1>3, <1>4, <1>9, <1>12

\* A resume that comes back reports as many values as the body gave, those left from
\* before its start included, and puts them in their order on the stack of the caller
\* that asked for them (ResumeResult::nret, doMoveRet).
THEOREM GivenArrives == Spec => GivenIsReceived
<1> DEFINE Given(n) == (IF Return(n) THEN stk[Running][1] ELSE <<>>) \o Topmost(Frame(Running), n)
           Gives(n) == Return(n) \/ \E next \in {"end", "continuation", "script"} : Yield(n, next)
           Arrives == \A n \in 0..MaxStack, L \in {Resumer} :
             Gives(n) => /\ ret'.nret = Len(Given(n))
                         /\ Frame(L)' = Frame(L) \o (IF Resumption.move THEN Given(n) ELSE <<>>)
<1>1. ASSUME IInv, NEW n \in 0..MaxStack, Gives(n)
      PROVE  /\ ret'.nret = Len(Given(n))
             /\ \A L \in {Resumer} : Frame(L)' = Frame(L) \o Moved(Resumption.move, Given(n))
  <2>1. n \in Nat
    BY ThreadAssumption
  <2>2. CASE Return(n)
    <3>1. Given(n) = stk[Running][1] \o Topmost(Frame(Running), n)
      BY <2>2
    <3> HIDE DEF Given
    <3> QED BY <1>1, <2>1, <2>2, <3>1, ReturnGives
  <2>3. CASE ~Return(n)
    <3>1. PICK next \in {"end", "continuation", "script"} : Yield(n, next)
      BY <1>1, <2>3
    <3>2. Topmost(Frame(Running), n) \in Seq(Values)
      BY <1>1, <2>1, <3>1, YieldGives
    <3>3. Given(n) = Topmost(Frame(Running), n)
      BY <2>3, <3>2
    <3> HIDE DEF Given
    <3> QED BY <1>1, <2>1, <3>1, <3>3, YieldGives
  <2> QED BY <2>2, <2>3
<1> HIDE DEF Given, Gives
<1>2. IInv => Arrives
  BY <1>1 DEF Moved
<1> HIDE DEF Arrives
<1>3. IInv => [Arrives]_vars
  BY <1>2
<1>4. Spec => [][Arrives]_vars
  BY <1>3, Invariance, PTL DEF Spec
<1> QED BY <1>4 DEF GivenIsReceived, Arrives, Given, Gives
=============================================================================
