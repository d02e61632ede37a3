---------------------------- MODULE PushFmtProofs ----------------------------
(***************************************************************************)
(* For formats and argument lists of any length: the check of pushFmt      *)
(* comes to the verdict of a reading from left to right, and of the        *)
(* arguments it lets through only objects are misread as an address or a   *)
(* number.                                                                 *)
(*                                                                         *)
(* The reference definition is recursive.  Facts about it are proved by    *)
(* induction on positions, in the form that a set of naturals with 0 and   *)
(* the successors of its members has all of them.                          *)
(***************************************************************************)
EXTENDS PushFmt, FiniteSetTheorems, WellFoundedInduction, TLAPS

Less == {p \in Nat \X Nat : p[1] < p[2]}

LEMMA LessWellFounded == IsWellFoundedOn(Less, Nat)
<1>1. OpToRel(<, Nat) = Less
  BY Zenon DEF OpToRel, Less
<1> QED BY <1>1, NatLessThanWellFounded, Zenon

LEMMA LeastNumber ==
  ASSUME NEW T \in SUBSET Nat, T # {}
  PROVE  \E m \in T : \A k \in T : m <= k
<1>1. PICK m \in T : \A k \in T : ~ (<<k, m>> \in Less)
  BY LessWellFounded, WFMin, Zenon
<1>2. ASSUME NEW k \in T PROVE m <= k
  <2>1. m \in Nat /\ k \in Nat /\ ~ (<<k, m>> \in Less)
    BY <1>1
  <2> QED BY <2>1 DEF Less
<1> QED BY <1>2

LEMMA Induction ==
  ASSUME NEW T \in SUBSET Nat, 0 \in T, \A n \in T : n + 1 \in T
  PROVE  T = Nat
<1> SUFFICES ASSUME T # Nat PROVE FALSE
  OBVIOUS
<1> DEFINE B == Nat \ T
<1>1. B \in SUBSET Nat /\ B # {}
  OBVIOUS
<1> HIDE DEF B
<1>2. PICK m \in B : \A k \in B : m <= k
  BY <1>1, LeastNumber
<1>3. m \in Nat /\ m \notin T /\ m # 0 /\ m - 1 \in Nat
  BY <1>1, <1>2 DEF B
<1>4. m - 1 \in T
  <2>1. m - 1 \notin B
    BY <1>2, <1>3
  <2> QED BY <1>3, <2>1 DEF B
<1> QED BY <1>3, <1>4
-----------------------------------------------------------------------------
(* The reading of a format. *)

\* g reads the first n positions of s.
Reads(g, s, n) ==
  g = [i \in 0..n |-> IF i = 0 THEN FALSE ELSE s[i] = "%" /\ ~g[i-1]]

LEMMA ReadingExists ==
  ASSUME NEW s, NEW n \in Nat
  PROVE  \E g : Reads(g, s, n)
<1> DEFINE T == {k \in Nat : \E g : Reads(g, s, k)}
<1>1. 0 \in T
  <2> DEFINE g == [i \in 0..0 |-> FALSE]
  <2>1. Reads(g, s, 0)
    BY DEF Reads
  <2> QED BY <2>1
<1>2. ASSUME NEW k \in T PROVE k + 1 \in T
  <2>1. PICK g : Reads(g, s, k)
    OBVIOUS
  <2> DEFINE h == [i \in 0..k+1 |-> IF i <= k THEN g[i] ELSE s[i] = "%" /\ ~g[i-1]]
  <2>2. k \in Nat
    OBVIOUS
  <2>3. ASSUME NEW i \in 0..k+1
        PROVE  h[i] = IF i = 0 THEN FALSE ELSE s[i] = "%" /\ ~h[i-1]
    <3>1. CASE i = 0
      BY <2>1, <2>2, <3>1 DEF Reads
    <3>2. CASE i # 0 /\ i <= k
      <4>1. i - 1 \in 0..k /\ h[i-1] = g[i-1] /\ h[i] = g[i] /\ i \in 0..k
        BY <2>2, <3>2
      <4>2. g[i] = (s[i] = "%" /\ ~g[i-1])
        BY <2>1, <3>2, <4>1 DEF Reads
      <4> QED BY <3>2, <4>1, <4>2
    <3>3. CASE i = k + 1
      <4>1. i - 1 \in 0..k /\ h[i-1] = g[i-1] /\ ~(i <= k) /\ i # 0
        BY <2>2, <3>3
      <4> QED BY <4>1
    <3>4. i = 0 \/ (i # 0 /\ i <= k) \/ i = k + 1
      BY <2>2
    <3> QED BY <3>1, <3>2, <3>3, <3>4
  <2>4. Reads(h, s, k + 1)
    BY <2>3 DEF Reads
  <2> QED BY <2>2, <2>4
<1>3. T = Nat
  <2> HIDE DEF T
  <2>1. T \in SUBSET Nat
    BY DEF T
  <2> QED BY <1>1, <1>2, <2>1, Induction
<1> QED BY <1>3

LEMMA OpenSteps ==
  ASSUME NEW S, NEW s \in Seq(S)
  PROVE  /\ ~Open(s)[0]
         /\ \A i \in 1..Len(s) : Open(s)[i] <=> s[i] = "%" /\ ~Open(s)[i-1]
<1>1. Len(s) \in Nat
  OBVIOUS
<1>2. PICK g : Reads(g, s, Len(s))
  BY <1>1, ReadingExists
<1> DEFINE o == Open(s)
<1>3. o = [i \in 0..Len(s) |-> IF i = 0 THEN FALSE ELSE s[i] = "%" /\ ~o[i-1]]
  BY <1>2 DEF Open, Reads
<1> HIDE DEF o
<1>4. ~o[0] /\ \A i \in 1..Len(s) : o[i] <=> s[i] = "%" /\ ~o[i-1]
  BY <1>1, <1>3
<1> QED BY <1>4 DEF o

LEMMA AfterParts ==
  ASSUME NEW S, NEW s \in Seq(S), NEW n \in 0..Len(s)
  PROVE  /\ After(s, n) \in Seq(S) /\ Len(After(s, n)) = Len(s) - n
         /\ \A k \in 1..Len(s)-n : After(s, n)[k] = s[n + k]
BY DEF After

\* The first '%' opens; what follows it does not.
LEMMA FirstOpens ==
  ASSUME NEW S, NEW s \in Seq(S), NEW i \in 1..Len(s), FirstPercent(s, i)
  PROVE  /\ \A j \in 1..i-1 : ~Open(s)[j]
         /\ Open(s)[i]
         /\ i < Len(s) => ~Open(s)[i + 1]
<1>0. ~Open(s)[0] /\ \A k \in 1..Len(s) : Open(s)[k] <=> s[k] = "%" /\ ~Open(s)[k-1]
  BY OpenSteps
<1>1. Len(s) \in Nat /\ s[i] = "%" /\ \A j \in 1..i-1 : s[j] # "%"
  BY DEF FirstPercent
<1>2. \A j \in 1..i-1 : ~Open(s)[j]
  BY <1>0, <1>1
<1>3. ~Open(s)[i - 1]
  <2>1. CASE i = 1
    BY <1>0, <2>1
  <2>2. CASE i # 1
    <3>1. i - 1 \in 1..i-1
      BY <2>2
    <3> QED BY <1>2, <3>1
  <2> QED BY <2>1, <2>2
<1>4. Open(s)[i]
  BY <1>0, <1>1, <1>3
<1>5. ASSUME i < Len(s) PROVE ~Open(s)[i + 1]
  <2>1. i + 1 \in 1..Len(s) /\ i + 1 - 1 = i
    BY <1>1, <1>5
  <2> QED BY <1>0, <1>4, <2>1
<1> QED BY <1>2, <1>4, <1>5

\* Past a position that does not open, the reading goes on as if the format began there.
LEMMA OpenAfter ==
  ASSUME NEW S, NEW s \in Seq(S), NEW d \in 0..Len(s), ~Open(s)[d]
  PROVE  \A k \in 1..Len(s)-d : Open(After(s, d))[k] <=> Open(s)[d + k]
<1> DEFINE t == After(s, d)
           T == {k \in Nat : k <= Len(s) - d => Open(t)[k] <=> Open(s)[d + k]}
<1>0. Len(s) \in Nat /\ d \in Nat
  OBVIOUS
<1>1. t \in Seq(S) /\ Len(t) = Len(s) - d /\ \A k \in 1..Len(s)-d : t[k] = s[d + k]
  BY AfterParts
<1> HIDE DEF t
<1>a. ~Open(s)[0] /\ \A k \in 1..Len(s) : Open(s)[k] <=> s[k] = "%" /\ ~Open(s)[k-1]
  BY OpenSteps
<1>b. ~Open(t)[0] /\ \A k \in 1..Len(t) : Open(t)[k] <=> t[k] = "%" /\ ~Open(t)[k-1]
  BY <1>1, OpenSteps
<1>2. 0 \in T
  BY <1>0, <1>b
<1>3. ASSUME NEW k \in T PROVE k + 1 \in T
  <2>1. k \in Nat /\ k + 1 \in Nat
    OBVIOUS
  <2> SUFFICES ASSUME k + 1 <= Len(s) - d PROVE Open(t)[k + 1] <=> Open(s)[d + (k + 1)]
    BY <2>1
  <2>2. /\ k + 1 \in 1..Len(t) /\ d + (k + 1) \in 1..Len(s)
        /\ k + 1 - 1 = k /\ d + (k + 1) - 1 = d + k
    BY <1>0, <1>1, <2>1
  <2>3. Open(t)[k] <=> Open(s)[d + k]
    BY <1>0, <2>1
  <2>4. Open(t)[k + 1] <=> t[k + 1] = "%" /\ ~Open(t)[k]
    BY <1>b, <2>2
  <2>5. Open(s)[d + (k + 1)] <=> s[d + (k + 1)] = "%" /\ ~Open(s)[d + k]
    BY <1>a, <2>2
  <2>6. t[k + 1] = s[d + (k + 1)]
    BY <1>1, <2>2
  <2> QED BY <2>3, <2>4, <2>5, <2>6
<1>4. T = Nat
  <2> HIDE DEF T
  <2>1. T \in SUBSET Nat
    BY DEF T
  <2> QED BY <1>2, <1>3, <2>1, Induction
<1>5. ASSUME NEW k \in 1..Len(s)-d PROVE Open(t)[k] <=> Open(s)[d + k]
  <2>1. k \in Nat /\ k <= Len(s) - d
    BY <1>0
  <2>2. k \in T
    BY <1>4, <2>1
  <2> QED BY <2>1, <2>2
<1> QED BY <1>5 DEF t
-----------------------------------------------------------------------------
(* Placeholders of a format and of what is left of it. *)

Shift(d, A) == {d + k : k \in A}

LEMMA PlaceholderParts ==
  ASSUME NEW S, NEW s \in Seq(S)
  PROVE  /\ Placeholders(s) \subseteq 1..Len(s) /\ Len(s) \in Nat
         /\ IsFiniteSet(Placeholders(s)) /\ Cardinality(Placeholders(s)) \in Nat
<1>1. Placeholders(s) \subseteq 1..Len(s) /\ Len(s) \in Nat
  BY DEF Placeholders, Opens
<1>2. IsFiniteSet(1..Len(s))
  BY <1>1, FS_Interval
<1>3. IsFiniteSet(Placeholders(s))
  BY <1>1, <1>2, FS_Subset
<1> QED BY <1>1, <1>3, FS_CardinalityType

LEMMA NoPlaceholder ==
  ASSUME NEW S, NEW s \in Seq(S), \A i \in 1..Len(s) : s[i] # "%"
  PROVE  Placeholders(s) = {}
<1>1. \A k \in 1..Len(s) : ~Open(s)[k]
  BY OpenSteps
<1> QED BY <1>1 DEF Placeholders, Opens

LEMMA PlaceholderAtEnd ==
  ASSUME NEW S, NEW s \in Seq(S), NEW i \in 1..Len(s), FirstPercent(s, i), i = Len(s)
  PROVE  Placeholders(s) = {i}
<1>1. /\ \A j \in 1..i-1 : ~Open(s)[j]
      /\ Open(s)[i]
  BY FirstOpens
<1>2. \A j \in 1..Len(s) : j = i \/ j \in 1..i-1
  OBVIOUS
<1> QED BY <1>1, <1>2 DEF Placeholders, Opens

\* The first '%' and the character after it give at most one placeholder, what is left
\* gives the others.
LEMMA PlaceholdersSplit ==
  ASSUME NEW S, NEW s \in Seq(S), NEW i \in 1..Len(s)-1, FirstPercent(s, i)
  PROVE  Placeholders(s) = (IF s[i + 1] = "%" THEN {} ELSE {i})
                             \cup Shift(i + 1, Placeholders(After(s, i + 1)))
<1> DEFINE d == i + 1  t == After(s, i + 1)
<1>0. Len(s) \in Nat /\ i \in 1..Len(s) /\ i < Len(s) /\ d \in 0..Len(s) /\ i \in Nat
  OBVIOUS
<1>1. /\ \A j \in 1..i-1 : ~Open(s)[j]
      /\ Open(s)[i] /\ ~Open(s)[d]
  BY <1>0, FirstOpens
<1>2. t \in Seq(S) /\ Len(t) = Len(s) - d /\ \A k \in 1..Len(s)-d : t[k] = s[d + k]
  BY <1>0, AfterParts
<1>3. \A k \in 1..Len(s)-d : Open(t)[k] <=> Open(s)[d + k]
  BY <1>0, <1>1, OpenAfter
<1> HIDE DEF t
<1>4. ASSUME NEW j \in Placeholders(s), j # i
      PROVE  j - d \in Placeholders(t) /\ j = d + (j - d)
  <2>1. j \in 1..Len(s) /\ Open(s)[j] /\ (j = Len(s) \/ s[j + 1] # "%")
    BY DEF Placeholders, Opens
  <2>2. j > d
    BY <1>0, <1>1, <1>4, <2>1
  <2>3. j - d \in 1..Len(s)-d /\ d + (j - d) = j /\ d + (j - d + 1) = j + 1
    BY <1>0, <2>1, <2>2
  <2>4. Open(t)[j - d]
    BY <1>3, <2>1, <2>3
  <2>5. j - d = Len(t) \/ t[j - d + 1] # "%"
    <3>1. CASE j = Len(s)
      BY <1>2, <3>1
    <3>2. CASE j # Len(s)
      <4>1. j - d + 1 \in 1..Len(s)-d
        BY <1>0, <2>1, <2>2, <3>2
      <4> QED BY <1>2, <2>1, <2>3, <3>2, <4>1
    <3> QED BY <3>1, <3>2
  <2> QED BY <1>2, <2>3, <2>4, <2>5 DEF Placeholders, Opens
<1>5. ASSUME NEW k \in Placeholders(t) PROVE d + k \in Placeholders(s)
  <2>1. k \in 1..Len(s)-d /\ Open(t)[k] /\ (k = Len(t) \/ t[k + 1] # "%")
    BY <1>2 DEF Placeholders, Opens
  <2>2. d + k \in 1..Len(s) /\ Open(s)[d + k]
    BY <1>0, <1>3, <2>1
  <2>3. d + k = Len(s) \/ s[d + k + 1] # "%"
    <3>1. CASE k = Len(t)
      BY <1>0, <1>2, <3>1
    <3>2. CASE k # Len(t)
      <4>0. k \in Nat /\ k >= 1 /\ k <= Len(s) - d /\ k # Len(s) - d
        BY <1>0, <1>2, <2>1, <3>2
      <4>1. k + 1 \in 1..Len(s)-d /\ d + (k + 1) = d + k + 1
        BY <1>0, <4>0
      <4> QED BY <1>2, <2>1, <3>2, <4>1
    <3> QED BY <3>1, <3>2
  <2> QED BY <2>2, <2>3 DEF Placeholders, Opens
<1>6. i \in Placeholders(s) <=> s[d] # "%"
  BY <1>0, <1>1 DEF Placeholders, Opens
<1> QED BY <1>4, <1>5, <1>6 DEF Shift, t
-----------------------------------------------------------------------------
(* Arguments are counted by placeholders. *)

LEMMA ShiftCardinality ==
  ASSUME NEW A \in SUBSET Nat, IsFiniteSet(A), NEW d \in Nat
  PROVE  IsFiniteSet(Shift(d, A)) /\ Cardinality(Shift(d, A)) = Cardinality(A)
<1> DEFINE f == [a \in A |-> d + a]
<1>1. f \in [A -> Shift(d, A)]
  BY DEF Shift
<1>2. \A a, b \in A : f[a] = f[b] => a = b
  OBVIOUS
<1>3. \A y \in Shift(d, A) : \E a \in A : f[a] = y
  BY DEF Shift
<1>4. f \in Bijection(A, Shift(d, A))
  BY <1>1, <1>2, <1>3 DEF Bijection, Injection, Surjection, IsInjective
<1>5. ExistsBijection(A, Shift(d, A))
  BY <1>4 DEF ExistsBijection
<1> QED BY <1>5, FS_Bijection

\* A set counted with one element below the rest of it, which is shifted.
LEMMA CountWithFirst ==
  ASSUME NEW A \in SUBSET Nat, IsFiniteSet(A), NEW i \in Nat, \A a \in A : a > 0
  PROVE  Cardinality({i} \cup Shift(i + 1, A)) = 1 + Cardinality(A)
<1>1. /\ IsFiniteSet(Shift(i + 1, A)) /\ Cardinality(Shift(i + 1, A)) = Cardinality(A)
      /\ Cardinality(A) \in Nat
  BY ShiftCardinality, FS_CardinalityType
<1>2. i \notin Shift(i + 1, A)
  BY DEF Shift
<1>3. {i} \cup Shift(i + 1, A) = Shift(i + 1, A) \cup {i}
  OBVIOUS
<1>4. Cardinality(Shift(i + 1, A) \cup {i}) = Cardinality(Shift(i + 1, A)) + 1
  BY <1>1, <1>2, FS_AddElement
<1> QED BY <1>1, <1>3, <1>4

LEMMA RankParts ==
  ASSUME NEW S, NEW s \in Seq(S), NEW k \in Placeholders(s)
  PROVE  /\ k \in 1..Len(s) /\ Len(s) \in Nat
         /\ IsFiniteSet({j \in Placeholders(s) : j <= k})
         /\ Rank(s, k) \in Nat \ {0} /\ Rank(s, k) <= Cardinality(Placeholders(s))
<1> DEFINE R == {j \in Placeholders(s) : j <= k}
<1>1. /\ Placeholders(s) \subseteq 1..Len(s) /\ Len(s) \in Nat
      /\ IsFiniteSet(Placeholders(s)) /\ Cardinality(Placeholders(s)) \in Nat
  BY PlaceholderParts
<1>2. R \subseteq Placeholders(s) /\ k \in R
  BY <1>1
<1> HIDE DEF R
<1>3. IsFiniteSet(R) /\ Cardinality(R) <= Cardinality(Placeholders(s))
  BY <1>1, <1>2, FS_Subset
<1>4. Cardinality(R) \in Nat /\ Cardinality(R) # 0
  BY <1>2, <1>3, FS_CardinalityType, FS_EmptySet
<1>5. k \in 1..Len(s)
  BY <1>1
<1> QED BY <1>1, <1>3, <1>4, <1>5 DEF R, Rank

\* What the template knows when it has found a '%' that is not the last character: the
\* placeholders left are those of the format, less the one it is looking at if any.
LEMMA CountAfter ==
  ASSUME NEW S, NEW s \in Seq(S), NEW i \in 1..Len(s)-1, FirstPercent(s, i)
  PROVE  LET t == After(s, i + 1)
         IN  /\ t \in Seq(S) /\ Len(t) = Len(s) - (i + 1)
             /\ \A k \in 1..Len(t) : t[k] = s[i + 1 + k]
             /\ Cardinality(Placeholders(s)) =
                  (IF s[i + 1] = "%" THEN 0 ELSE 1) + Cardinality(Placeholders(t))
             /\ \A k \in Placeholders(t) :
                  Rank(s, i + 1 + k) = (IF s[i + 1] = "%" THEN 0 ELSE 1) + Rank(t, k)
             /\ s[i + 1] # "%" => i \in Placeholders(s) /\ Rank(s, i) = 1
<1> DEFINE d == i + 1  t == After(s, i + 1)  P == Placeholders(t)
<1>0. Len(s) \in Nat /\ d \in 0..Len(s) /\ i \in Nat /\ d \in Nat /\ i > 0
  OBVIOUS
<1>1. t \in Seq(S) /\ Len(t) = Len(s) - d /\ \A k \in 1..Len(t) : t[k] = s[d + k]
  BY <1>0, AfterParts
<1>2. Placeholders(s) = (IF s[d] = "%" THEN {} ELSE {i}) \cup Shift(d, P)
  BY PlaceholdersSplit
<1>a. /\ Len(t) \in Nat /\ P \subseteq 1..Len(t) /\ IsFiniteSet(P) /\ Cardinality(P) \in Nat
  BY <1>1, PlaceholderParts
<1>3. P \in SUBSET Nat /\ \A k \in P : k > 0
  BY <1>a
<1> HIDE DEF t, P
<1>4. Cardinality(Placeholders(s)) = (IF s[d] = "%" THEN 0 ELSE 1) + Cardinality(P)
  <2>1. CASE s[d] = "%"
    <3>1. Placeholders(s) = Shift(d, P)
      BY <1>2, <2>1
    <3> QED BY <1>0, <1>a, <1>3, <2>1, <3>1, ShiftCardinality
  <2>2. CASE s[d] # "%"
    <3>1. Placeholders(s) = {i} \cup Shift(d, P)
      BY <1>2, <2>2
    <3> QED BY <1>0, <1>a, <1>3, <2>2, <3>1, CountWithFirst
  <2> QED BY <2>1, <2>2
<1>5. ASSUME NEW k \in P
      PROVE  Rank(s, d + k) = (IF s[d] = "%" THEN 0 ELSE 1) + Rank(t, k)
  <2> DEFINE A == {j \in P : j <= k}  B == {j \in Placeholders(s) : j <= d + k}
  <2>1. /\ IsFiniteSet(A) /\ Rank(t, k) = Cardinality(A) /\ Rank(s, d + k) = Cardinality(B)
        /\ A \in SUBSET Nat /\ \A a \in A : a > 0
    BY <1>1, <1>3, RankParts DEF Rank, P
  <2>2. k \in Nat /\ \A j \in P : j \in Nat
    BY <1>3
  <2>3. B = (IF s[d] = "%" THEN {} ELSE {i}) \cup Shift(d, A)
    BY <1>0, <1>2, <2>2 DEF Shift
  <2>4. Cardinality(A) \in Nat
    BY <2>1, FS_CardinalityType
  <2> HIDE DEF A, B
  <2>5. CASE s[d] = "%"
    <3>1. B = Shift(d, A)
      BY <2>3, <2>5
    <3> QED BY <1>0, <2>1, <2>4, <2>5, <3>1, ShiftCardinality
  <2>6. CASE s[d] # "%"
    <3>1. B = {i} \cup Shift(d, A)
      BY <2>3, <2>6
    <3> QED BY <1>0, <2>1, <2>4, <2>6, <3>1, CountWithFirst
  <2> QED BY <2>5, <2>6
<1>6. ASSUME s[d] # "%" PROVE i \in Placeholders(s) /\ Rank(s, i) = 1
  <2>1. Placeholders(s) = {i} \cup Shift(d, P)
    BY <1>2, <1>6
  <2>2. \A j \in Shift(d, P) : j > i
    BY <1>0, <1>3 DEF Shift
  <2>3. {j \in Placeholders(s) : j <= i} = {i}
    BY <1>0, <1>3, <2>1, <2>2 DEF Shift
  <2> QED BY <2>1, <2>3, FS_Singleton DEF Rank
<1> QED BY <1>1, <1>4, <1>5, <1>6 DEF t, P
-----------------------------------------------------------------------------
(* The verdict due for what is left is the verdict due for the whole. *)

\* The first complaint decides.
LEMMA FirstComplaint ==
  ASSUME NEW S, NEW s \in Seq(S), NEW a, NEW m \in Bad(s, a), \A j \in Bad(s, a) : m <= j
  PROVE  Expected(s, a) = Complaint(s, a, m)
<1>1. Bad(s, a) \subseteq Nat
  BY PlaceholderParts DEF Bad
<1>2. (CHOOSE i \in Bad(s, a) : \A j \in Bad(s, a) : i <= j) = m
  BY <1>1
<1> QED BY <1>2 DEF Expected

LEMMA NoComplaint ==
  ASSUME NEW s, NEW a, Bad(s, a) = {}
  PROVE  Expected(s, a) = IF Cardinality(Placeholders(s)) < Len(a) THEN "TOO_MANY_ARGS" ELSE "none"
BY DEF Expected

LEMMA TailParts ==
  ASSUME NEW K, NEW a \in Seq(K), a # <<>>
  PROVE  /\ Tail(a) \in Seq(K) /\ Len(Tail(a)) = Len(a) - 1 /\ Len(a) \in Nat
         /\ \A r \in 1..Len(a)-1 : Tail(a)[r] = a[r + 1]
         /\ Head(a) = a[1] /\ Head(a) \in K
OBVIOUS

\* The arguments that are left when the template goes on past position i + 1.
ArgsAfter(s, a, i) == IF s[i + 1] = "%" THEN a ELSE Tail(a)

LEMMA ComplaintAfter ==
  ASSUME NEW S, NEW s \in Seq(S), NEW i \in 1..Len(s)-1, FirstPercent(s, i),
         NEW K, NEW a \in Seq(K), s[i + 1] # "%" => a # <<>>,
         NEW k \in Placeholders(After(s, i + 1))
  PROVE  Complaint(s, a, i + 1 + k) = Complaint(After(s, i + 1), ArgsAfter(s, a, i), k)
<1> DEFINE d == i + 1  t == After(s, i + 1)  b == ArgsAfter(s, a, i)
           n == IF s[i + 1] = "%" THEN 0 ELSE 1
<1>1. /\ t \in Seq(S) /\ Len(t) = Len(s) - d /\ \A j \in 1..Len(t) : t[j] = s[d + j]
      /\ Rank(s, d + k) = n + Rank(t, k)
  BY CountAfter
<1>2. k \in 1..Len(t) /\ Len(t) \in Nat /\ Rank(t, k) \in Nat \ {0}
  BY <1>1, RankParts
<1>3. d + k = Len(s) <=> k = Len(t)
  <2>1. Len(s) \in Nat /\ d \in Nat /\ k \in Nat /\ Len(t) = Len(s) - d
    BY <1>1, <1>2
  <2> HIDE DEF d, t
  <2> QED BY <2>1
<1>4. k # Len(t) => s[d + k + 1] = t[k + 1]
  <2>1. k # Len(t) => k + 1 \in 1..Len(t) /\ d + k + 1 = d + (k + 1)
    BY <1>2
  <2> QED BY <1>1, <2>1
<1>5. /\ Len(a) \in Nat /\ Len(b) = Len(a) - n
      /\ \A r \in 1..Len(b) : b[r] = a[n + r]
  <2>1. CASE s[i + 1] = "%"
    BY <2>1 DEF ArgsAfter
  <2>2. CASE s[i + 1] # "%"
    BY <2>2, TailParts DEF ArgsAfter
  <2> QED BY <2>1, <2>2
<1>6. n \in {0, 1}
  OBVIOUS
<1> HIDE DEF t, b, n
<1>7. Rank(s, d + k) > Len(a) <=> Rank(t, k) > Len(b)
  BY <1>1, <1>2, <1>5, <1>6
<1>8. ~(Rank(t, k) > Len(b)) => a[Rank(s, d + k)] = b[Rank(t, k)]
  BY <1>1, <1>2, <1>5, <1>6
<1>9. Complaint(s, a, d + k) = Complaint(t, b, k)
  BY <1>3, <1>4, <1>7, <1>8 DEF Complaint
<1> QED BY <1>9 DEF t, b

\* One step of the template that finds nothing wrong leaves the verdict due what it was.
LEMMA ExpectedAfter ==
  ASSUME NEW S, NEW s \in Seq(S), NEW i \in 1..Len(s)-1, FirstPercent(s, i),
         NEW K, NEW a \in Seq(K),
         s[i + 1] # "%" => a # <<>> /\ Complaint(s, a, i) = "none"
  PROVE  Expected(After(s, i + 1), ArgsAfter(s, a, i)) = Expected(s, a)
<1> DEFINE d == i + 1  t == After(s, i + 1)  b == ArgsAfter(s, a, i)
           n == IF s[i + 1] = "%" THEN 0 ELSE 1
<1>0. i \in Nat /\ d \in Nat
  OBVIOUS
<1>1. t \in Seq(S) /\ Cardinality(Placeholders(s)) = n + Cardinality(Placeholders(t))
  BY CountAfter
<1>2. /\ Placeholders(t) \subseteq 1..Len(t) /\ Len(t) \in Nat
      /\ Cardinality(Placeholders(t)) \in Nat
  BY <1>1, PlaceholderParts
<1>3. \A k \in Placeholders(t) : Complaint(s, a, d + k) = Complaint(t, b, k)
  BY ComplaintAfter
<1>4. Placeholders(s) = (IF s[d] = "%" THEN {} ELSE {i}) \cup Shift(d, Placeholders(t))
  BY PlaceholdersSplit
<1>5. Len(a) \in Nat /\ Len(b) = Len(a) - n /\ n \in {0, 1}
  BY TailParts DEF ArgsAfter
<1>6. s[d] # "%" => Complaint(s, a, i) = "none"
  OBVIOUS
<1> HIDE DEF t, b, n
<1>7. Bad(s, a) = Shift(d, Bad(t, b))
  BY <1>3, <1>4, <1>6 DEF Bad, Shift
<1>8. Bad(t, b) \in SUBSET Nat
  BY <1>2 DEF Bad
<1>9. CASE Bad(t, b) = {}
  <2>1. Bad(s, a) = {}
    BY <1>7, <1>9 DEF Shift
  <2>2. Cardinality(Placeholders(t)) < Len(b) <=> Cardinality(Placeholders(s)) < Len(a)
    BY <1>1, <1>2, <1>5
  <2>3. Expected(t, b) = Expected(s, a)
    BY <1>9, <2>1, <2>2, NoComplaint
  <2> QED BY <2>3 DEF t, b
<1>10. CASE Bad(t, b) # {}
  <2>1. PICK m \in Bad(t, b) : \A j \in Bad(t, b) : m <= j
    BY <1>8, <1>10, LeastNumber
  <2>2. d + m \in Bad(s, a) /\ \A j \in Bad(s, a) : d + m <= j
    BY <1>0, <1>7, <1>8, <2>1 DEF Shift
  <2>3. Expected(s, a) = Complaint(s, a, d + m) /\ Expected(t, b) = Complaint(t, b, m)
    BY <1>1, <2>1, <2>2, FirstComplaint
  <2>4. m \in Placeholders(t)
    BY <2>1 DEF Bad
  <2>5. Expected(t, b) = Expected(s, a)
    BY <1>3, <2>3, <2>4
  <2> QED BY <2>5 DEF t, b
<1> QED BY <1>9, <1>10

\* What the template reports is the verdict due.
LEMMA ExpectedNow ==
  ASSUME NEW S, NEW s \in Seq(S), NEW K, NEW a \in Seq(K)
  PROVE  /\ (\A i \in 1..Len(s) : s[i] # "%")
              => Expected(s, a) = IF a = <<>> THEN "none" ELSE "TOO_MANY_ARGS"
         /\ \A i \in 1..Len(s) : FirstPercent(s, i) /\ i = Len(s)
              => Expected(s, a) = "INVALID_SPECIFIER"
         /\ \A i \in 1..Len(s)-1 : FirstPercent(s, i) /\ s[i + 1] # "%"
              => /\ i \in Placeholders(s) /\ Rank(s, i) = 1
                 /\ Complaint(s, a, i) # "none" => Expected(s, a) = Complaint(s, a, i)
<1>0. Len(s) \in Nat /\ Len(a) \in Nat /\ (Len(a) = 0 <=> a = <<>>)
  OBVIOUS
<1>1. ASSUME \A i \in 1..Len(s) : s[i] # "%"
      PROVE  Expected(s, a) = IF a = <<>> THEN "none" ELSE "TOO_MANY_ARGS"
  <2>1. Placeholders(s) = {}
    BY <1>1, NoPlaceholder
  <2>2. Bad(s, a) = {} /\ Cardinality(Placeholders(s)) = 0
    BY <2>1, FS_EmptySet DEF Bad
  <2>3. 0 < Len(a) <=> a # <<>>
    BY <1>0
  <2> QED BY <2>2, <2>3, NoComplaint
<1>2. ASSUME NEW i \in 1..Len(s), FirstPercent(s, i), i = Len(s)
      PROVE  Expected(s, a) = "INVALID_SPECIFIER"
  <2>1. Placeholders(s) = {i}
    BY <1>2, PlaceholderAtEnd
  <2>2. Complaint(s, a, i) = "INVALID_SPECIFIER"
    BY <1>2 DEF Complaint
  <2>3. Bad(s, a) = {i}
    BY <2>1, <2>2 DEF Bad
  <2>4. i \in Bad(s, a) /\ \A j \in Bad(s, a) : i <= j
    BY <1>2, <2>3
  <2> QED BY <2>2, <2>4, FirstComplaint
<1>3. ASSUME NEW i \in 1..Len(s)-1, FirstPercent(s, i), s[i + 1] # "%"
      PROVE  /\ i \in Placeholders(s) /\ Rank(s, i) = 1
             /\ Complaint(s, a, i) # "none" => Expected(s, a) = Complaint(s, a, i)
  <2>1. i \in Placeholders(s) /\ Rank(s, i) = 1 /\ After(s, i + 1) \in Seq(S)
    BY <1>3, CountAfter
  <2>2. ASSUME Complaint(s, a, i) # "none" PROVE Expected(s, a) = Complaint(s, a, i)
    <3>1. Placeholders(s) = {i} \cup Shift(i + 1, Placeholders(After(s, i + 1)))
      BY <1>3, PlaceholdersSplit
    <3>2. Placeholders(After(s, i + 1)) \subseteq Nat
      BY <2>1, PlaceholderParts
    <3>3. \A j \in Placeholders(s) : i <= j
      BY <3>1, <3>2 DEF Shift
    <3>4. i \in Bad(s, a) /\ \A j \in Bad(s, a) : i <= j
      BY <2>1, <2>2, <3>3 DEF Bad
    <3> QED BY <3>4, FirstComplaint
  <2> QED BY <2>1, <2>2
<1> QED BY <1>1, <1>2, <1>3
-----------------------------------------------------------------------------
(* The inductive invariant. *)

Types ==
  /\ input.fmt \in Seq(Chars) /\ input.args \in Seq(Kinds)
  /\ fmt \in Seq(Chars) /\ args \in Seq(Kinds)
  /\ pushed \in {0, 1}

PushedIsChecked == pushed = 1 => verdict = "none"

IInv == Types /\ PushedIsChecked /\ ChecksWholeFormat

LEMMA Bounded ==
  ASSUME NEW S, NEW n \in Nat
  PROVE  SeqsUpTo(S, n) \subseteq Seq(S)
<1>1. ASSUME NEW k \in 0..n, NEW q \in [1..k -> S] PROVE q \in Seq(S)
  OBVIOUS
<1> QED BY <1>1 DEF SeqsUpTo

LEMMA StartsChecking == Init => IInv
<1> SUFFICES ASSUME Init PROVE IInv
  OBVIOUS
<1>1. input.fmt \in Seq(Chars) /\ input.args \in Seq(Kinds)
  BY FmtAssumption, Bounded DEF Init
<1> QED BY <1>1 DEF Init, IInv, Types, PushedIsChecked, ChecksWholeFormat

\* A step of the template that reports the verdict due for what is left.
LEMMA ReportsDue ==
  ASSUME IInv, verdict = "checking", NEW code, Report(code), code = Expected(fmt, args),
         code # "checking"
  PROVE  IInv'
<1>1. pushed # 1
  BY DEF IInv, PushedIsChecked
<1>2. Types' /\ PushedIsChecked'
  BY <1>1 DEF IInv, Types, PushedIsChecked, Report
<1>3. Expected(fmt, args) = Expected(input.fmt, input.args)
  BY DEF IInv, ChecksWholeFormat
<1>4. verdict' = code /\ UNCHANGED input
  BY DEF Report
<1>5. ChecksWholeFormat'
  BY <1>3, <1>4 DEF ChecksWholeFormat
<1> QED BY <1>2, <1>5 DEF IInv

\* A step that goes on with what is left past position i + 1.
LEMMA GoesOn ==
  ASSUME IInv, verdict = "checking",
         NEW i \in 1..Len(fmt)-1, FirstPercent(fmt, i),
         fmt[i + 1] # "%" => args # <<>> /\ Complaint(fmt, args, i) = "none",
         fmt' = After(fmt, i + 1), args' = ArgsAfter(fmt, args, i),
         UNCHANGED <<input, verdict, pushed>>
  PROVE  IInv'
<1>1. fmt \in Seq(Chars) /\ args \in Seq(Kinds) /\ Len(fmt) \in Nat
  BY DEF IInv, Types
<1>2. fmt' \in Seq(Chars)
  <2>1. i + 1 \in 0..Len(fmt)
    BY <1>1
  <2> QED BY <1>1, <2>1, AfterParts
<1>3. args' \in Seq(Kinds)
  <2>1. CASE fmt[i + 1] = "%"
    BY <1>1, <2>1 DEF ArgsAfter
  <2>2. CASE fmt[i + 1] # "%"
    BY <1>1, <2>2, TailParts DEF ArgsAfter
  <2> QED BY <2>1, <2>2
<1>4. Types' /\ PushedIsChecked'
  BY <1>2, <1>3 DEF IInv, Types, PushedIsChecked
<1>5. Expected(fmt', args') = Expected(fmt, args)
  BY <1>1, ExpectedAfter
<1>6. ChecksWholeFormat'
  BY <1>5 DEF IInv, ChecksWholeFormat
<1> QED BY <1>4, <1>6 DEF IInv
-----------------------------------------------------------------------------
(* One lemma per action. *)

LEMMA FirstIsRanked ==
  ASSUME IInv, NEW i \in 1..Len(fmt)-1, FirstPercent(fmt, i), fmt[i + 1] # "%"
  PROVE  /\ i # Len(fmt)
         /\ Rank(fmt, i) > Len(args) <=> args = <<>>
         /\ args # <<>> => args[Rank(fmt, i)] = Head(args)
         /\ Complaint(fmt, args, i) # "none" => Expected(fmt, args) = Complaint(fmt, args, i)
<1>1. fmt \in Seq(Chars) /\ args \in Seq(Kinds) /\ Len(fmt) \in Nat
  BY DEF IInv, Types
<1>2. /\ Rank(fmt, i) = 1
      /\ Complaint(fmt, args, i) # "none" => Expected(fmt, args) = Complaint(fmt, args, i)
  BY <1>1, ExpectedNow
<1>3. 1 > Len(args) <=> args = <<>>
  BY <1>1
<1>4. args # <<>> => Head(args) = args[1]
  BY <1>1
<1>5. i # Len(fmt)
  BY <1>1
<1> QED BY <1>2, <1>3, <1>4, <1>5

LEMMA NoSpecifierLeftInv == IInv /\ verdict = "checking" /\ NoSpecifierLeft => IInv'
<1> SUFFICES ASSUME IInv, verdict = "checking", NoSpecifierLeft PROVE IInv'
  OBVIOUS
<1> DEFINE code == IF args = <<>> THEN "none" ELSE "TOO_MANY_ARGS"
<1>1. fmt \in Seq(Chars) /\ args \in Seq(Kinds)
  BY DEF IInv, Types
<1>2. Expected(fmt, args) = code
  BY <1>1, ExpectedNow DEF NoSpecifierLeft
<1>3. Report(code) /\ code # "checking"
  BY DEF NoSpecifierLeft
<1> QED BY <1>2, <1>3, ReportsDue

LEMMA IncompleteInv == IInv /\ verdict = "checking" /\ Incomplete => IInv'
<1> SUFFICES ASSUME IInv, verdict = "checking", Incomplete PROVE IInv'
  OBVIOUS
<1>1. fmt \in Seq(Chars) /\ args \in Seq(Kinds)
  BY DEF IInv, Types
<1>2. PICK i \in 1..Len(fmt) : FirstPercent(fmt, i) /\ i = Len(fmt)
  BY DEF Incomplete
<1>3. Expected(fmt, args) = "INVALID_SPECIFIER"
  BY <1>1, <1>2, ExpectedNow
<1>4. Report("INVALID_SPECIFIER")
  BY DEF Incomplete
<1> QED BY <1>3, <1>4, ReportsDue

LEMMA PercentLiteralInv == IInv /\ verdict = "checking" /\ PercentLiteral => IInv'
<1> SUFFICES ASSUME IInv, verdict = "checking", PercentLiteral PROVE IInv'
  OBVIOUS
<1>1. PICK i \in 1..Len(fmt)-1 :
        FirstPercent(fmt, i) /\ fmt[i + 1] = "%" /\ fmt' = After(fmt, i + 1)
  BY DEF PercentLiteral
<1>2. args' = ArgsAfter(fmt, args, i) /\ UNCHANGED <<input, verdict, pushed>>
  BY <1>1 DEF PercentLiteral, ArgsAfter
<1> QED BY <1>1, <1>2, GoesOn

LEMMA TooFewArgsInv == IInv /\ verdict = "checking" /\ TooFewArgs => IInv'
<1> SUFFICES ASSUME IInv, verdict = "checking", TooFewArgs PROVE IInv'
  OBVIOUS
<1>1. PICK i \in 1..Len(fmt)-1 : FirstPercent(fmt, i) /\ fmt[i + 1] # "%"
  BY DEF TooFewArgs
<1>2. args = <<>> /\ Report("TOO_FEW_ARGS")
  BY DEF TooFewArgs
<1>3. Complaint(fmt, args, i) = "TOO_FEW_ARGS"
  BY <1>1, <1>2, FirstIsRanked DEF Complaint
<1>4. Expected(fmt, args) = "TOO_FEW_ARGS"
  BY <1>1, <1>3, FirstIsRanked
<1> QED BY <1>2, <1>4, ReportsDue

LEMMA InvalidSpecifierInv == IInv /\ verdict = "checking" /\ InvalidSpecifier => IInv'
<1> SUFFICES ASSUME IInv, verdict = "checking", InvalidSpecifier PROVE IInv'
  OBVIOUS
<1>1. PICK i \in 1..Len(fmt)-1 : FirstPercent(fmt, i) /\ fmt[i + 1] \notin Specifiers \cup {"%"}
  BY DEF InvalidSpecifier
<1>2. args # <<>> /\ Report("INVALID_SPECIFIER")
  BY DEF InvalidSpecifier
<1>3. Complaint(fmt, args, i) = "INVALID_SPECIFIER"
  BY <1>1, <1>2, FirstIsRanked DEF Complaint
<1>4. Expected(fmt, args) = "INVALID_SPECIFIER"
  BY <1>1, <1>3, FirstIsRanked
<1> QED BY <1>2, <1>4, ReportsDue

LEMMA SpecifierIsNotPercent == "%" \notin Specifiers
BY DEF Specifiers, Convertible

LEMMA IncompatibleArgInv == IInv /\ verdict = "checking" /\ IncompatibleArg => IInv'
<1> SUFFICES ASSUME IInv, verdict = "checking", IncompatibleArg PROVE IInv'
  OBVIOUS
<1>1. PICK i \in 1..Len(fmt)-1 :
        /\ FirstPercent(fmt, i) /\ fmt[i + 1] \in Specifiers
        /\ Head(args) \notin Convertible[fmt[i + 1]]
  BY DEF IncompatibleArg
<1>2. args # <<>> /\ Report("INCOMPATIBLE_ARG")
  BY DEF IncompatibleArg
<1>3. fmt[i + 1] # "%"
  BY <1>1, SpecifierIsNotPercent
<1>4. Complaint(fmt, args, i) = "INCOMPATIBLE_ARG"
  BY <1>1, <1>2, <1>3, FirstIsRanked DEF Complaint
<1>5. Expected(fmt, args) = "INCOMPATIBLE_ARG"
  BY <1>1, <1>3, <1>4, FirstIsRanked
<1> QED BY <1>2, <1>5, ReportsDue

LEMMA ConsumeArgInv == IInv /\ verdict = "checking" /\ ConsumeArg => IInv'
<1> SUFFICES ASSUME IInv, verdict = "checking", ConsumeArg PROVE IInv'
  OBVIOUS
<1>1. PICK i \in 1..Len(fmt)-1 :
        /\ FirstPercent(fmt, i) /\ fmt[i + 1] \in Specifiers
        /\ Head(args) \in Convertible[fmt[i + 1]]
        /\ fmt' = After(fmt, i + 1)
  BY DEF ConsumeArg
<1>2. args # <<>> /\ args' = Tail(args) /\ UNCHANGED <<input, verdict, pushed>>
  BY DEF ConsumeArg
<1>3. fmt[i + 1] # "%"
  BY <1>1, SpecifierIsNotPercent
<1>4. Complaint(fmt, args, i) = "none"
  BY <1>1, <1>2, <1>3, FirstIsRanked DEF Complaint
<1>5. args' = ArgsAfter(fmt, args, i)
  BY <1>2, <1>3 DEF ArgsAfter
<1> QED BY <1>1, <1>2, <1>4, <1>5, GoesOn

LEMMA PushInv == IInv /\ Push => IInv'
BY DEF IInv, Types, PushedIsChecked, ChecksWholeFormat, Push

\* The inductive invariant holds in every state.
THEOREM Invariance == Spec => []IInv
<1>1. Init => IInv
  BY StartsChecking
<1>2. IInv /\ [Next]_vars => IInv'
  <2> SUFFICES ASSUME IInv, [Next]_vars PROVE IInv'
    OBVIOUS
  <2>1. CASE CheckPushFmt
    BY <2>1, NoSpecifierLeftInv, IncompleteInv, PercentLiteralInv, TooFewArgsInv,
       InvalidSpecifierInv, IncompatibleArgInv, ConsumeArgInv DEF CheckPushFmt
  <2>2. CASE Push
    BY <2>2, PushInv
  <2>3. CASE UNCHANGED vars
    BY <2>3 DEF vars, IInv, Types, PushedIsChecked, ChecksWholeFormat
  <2> QED BY <2>1, <2>2, <2>3 DEF Next
<1> QED BY <1>1, <1>2, PTL DEF Spec
-----------------------------------------------------------------------------
(* What follows from it. *)

\* checkPushFmt: for a format and an argument list of any length, the verdict due for what
\* an instantiation is left with is the one due for the whole call, and the verdict
\* reported is the one a reading from left to right comes to.
THEOREM VerdictIsDue == Spec => []ChecksWholeFormat
<1>1. IInv => ChecksWholeFormat
  BY DEF IInv
<1> QED BY <1>1, Invariance, PTL

\* A call in which nothing is complained of has a matching argument for every placeholder.
LEMMA NothingBad ==
  ASSUME NEW S, NEW s \in Seq(S), NEW K, NEW a \in Seq(K), Expected(s, a) = "none"
  PROVE  \A i \in Placeholders(s) :
           s[i + 1] \in Specifiers /\ a[Rank(s, i)] \in Convertible[s[i + 1]]
<1>1. Bad(s, a) = {}
  <2> SUFFICES ASSUME Bad(s, a) # {} PROVE FALSE
    OBVIOUS
  <2>1. Bad(s, a) \in SUBSET Nat
    BY PlaceholderParts DEF Bad
  <2>2. PICK m \in Bad(s, a) : \A j \in Bad(s, a) : m <= j
    BY <2>1, LeastNumber
  <2>3. Expected(s, a) = Complaint(s, a, m)
    BY <2>2, FirstComplaint
  <2>4. Complaint(s, a, m) # "none"
    BY DEF Bad
  <2> QED BY <2>3, <2>4
<1>2. ASSUME NEW i \in Placeholders(s)
      PROVE  s[i + 1] \in Specifiers /\ a[Rank(s, i)] \in Convertible[s[i + 1]]
  <2>1. Complaint(s, a, i) = "none"
    BY <1>1 DEF Bad
  <2> QED BY <2>1 DEF Complaint
<1> QED BY <1>2

\* The table of what converts to what: of the arguments that are no objects, numbers to
\* d, c and f and addresses to p and s.
LEMMA NumberSpecifiers ==
  ASSUME NEW c \in Specifiers, NEW k \in Convertible[c]
  PROVE  PassedAs(k) = ReadAs(c) <=> k \notin Objects
BY DEF Specifiers, Convertible, PassedAs, ReadAs, Objects

\* pushFmt: an argument of a checked call, for any format and arguments, is read as a number
\* if it was passed as one and as an address if it was passed as one, unless it is an object
\* of one of arasy's classes, which is never read as what it is.
THEOREM NoNumberIsAnAddress == Spec => []NumbersAreNotAddresses
<1>1. IInv => NumbersAreNotAddresses
  <2> SUFFICES ASSUME IInv, pushed = 1, NEW i \in Placeholders(input.fmt)
               PROVE  PassedAs(input.args[Rank(input.fmt, i)]) = ReadAs(input.fmt[i + 1])
                        <=> input.args[Rank(input.fmt, i)] \notin Objects
    BY DEF NumbersAreNotAddresses
  <2>1. Expected(input.fmt, input.args) = "none"
    BY DEF IInv, PushedIsChecked, ChecksWholeFormat
  <2>2. input.fmt \in Seq(Chars) /\ input.args \in Seq(Kinds)
    BY DEF IInv, Types
  <2>3. /\ input.fmt[i + 1] \in Specifiers
        /\ input.args[Rank(input.fmt, i)] \in Convertible[input.fmt[i + 1]]
    BY <2>1, <2>2, NothingBad
  <2> QED BY <2>3, NumberSpecifiers
<1> QED BY <1>1, Invariance, PTL
=============================================================================
