--------------------------- MODULE SequenceLemmas ---------------------------
(***************************************************************************)
(* Induction, and what it says of functions defined by recursion along a   *)
(* sequence: that they exist, and what FlattenSeq makes of sequences of    *)
(* sequences.  Induction is stated for sets, not for predicates: the       *)
(* theorem that the natural numbers are well founded gives a least element *)
(* that is not in the set.                                                 *)
(***************************************************************************)
EXTENDS Naturals, Sequences, SequencesExt, WellFoundedInduction, TLAPS

(* A set with 0 and the successor of each of its numbers has every number.  *)
LEMMA Induction ==
  ASSUME NEW S, 0 \in S, \A n \in Nat : n \in S => n + 1 \in S
  PROVE  Nat \subseteq S
<1> DEFINE T == Nat \ S
<1> SUFFICES ASSUME T # {} PROVE FALSE
  OBVIOUS
<1>1. IsWellFoundedOn(OpToRel(<, Nat), Nat)
  BY NatLessThanWellFounded
<1>2. PICK x \in T : \A y \in T : ~ (<<y, x>> \in OpToRel(<, Nat))
  BY <1>1, WFMin, Zenon
<1>3. x \in Nat /\ x # 0
  OBVIOUS
<1>4. x - 1 \in Nat /\ x - 1 < x /\ (x - 1) + 1 = x
  BY <1>3
<1>5. <<x - 1, x>> \in OpToRel(<, Nat)
  BY <1>3, <1>4, Zenon DEF OpToRel
<1>6. x - 1 \in S
  BY <1>2, <1>4, <1>5
<1> QED
  BY <1>3, <1>4, <1>6

(* The same for sequences, which are all made by appending.                 *)
LEMMA SequenceInduction ==
  ASSUME NEW E, NEW S, <<>> \in S,
         \A s \in Seq(E), e \in E : s \in S => Append(s, e) \in S
  PROVE  Seq(E) \subseteq S
<1> DEFINE T == {n \in Nat : \A s \in Seq(E) : Len(s) = n => s \in S}
<1>1. 0 \in T
  OBVIOUS
<1>2. ASSUME NEW n \in Nat, n \in T PROVE n + 1 \in T
  <2> SUFFICES ASSUME NEW s \in Seq(E), Len(s) = n + 1 PROVE s \in S
    OBVIOUS
  <2> DEFINE front == SubSeq(s, 1, n)
  <2>1. front \in Seq(E) /\ Len(front) = n /\ s[n + 1] \in E
    OBVIOUS
  <2>2. s = Append(front, s[n + 1])
    OBVIOUS
  <2> QED
    BY <1>2, <2>1, <2>2
<1>3. Nat \subseteq T
  <2> HIDE DEF T
  <2> QED
    BY <1>1, <1>2, Induction
<1> QED
  BY <1>3

LEMMA AppendToConcat ==
  ASSUME NEW E, NEW s \in Seq(E), NEW t \in Seq(E), NEW e \in E
  PROVE  s \o Append(t, e) = Append(s \o t, e) /\ s \o <<e>> = Append(s, e)
OBVIOUS

LEMMA ConcatElements ==
  ASSUME NEW E, NEW s \in Seq(E), NEW t \in Seq(E)
  PROVE  /\ s \o t \in Seq(E) /\ Len(s \o t) = Len(s) + Len(t)
         /\ \A i \in 1..Len(s) : (s \o t)[i] = s[i]
         /\ \A i \in 1..Len(t) : (s \o t)[Len(s) + i] = t[i]
OBVIOUS

LEMMA ConcatSizes ==
  ASSUME NEW E, NEW s \in Seq(E), NEW t \in Seq(E), NEW m \in Nat, NEW n \in Nat,
         Len(s) = m, Len(t) = n
  PROVE  /\ s \o t \in Seq(E) /\ Len(s \o t) = m + n
         /\ \A i \in 1..m : (s \o t)[i] = s[i]
         /\ \A i \in 1..n : (s \o t)[m + i] = t[i]
OBVIOUS

LEMMA ConcatAssociates ==
  ASSUME NEW E, NEW s \in Seq(E), NEW t \in Seq(E), NEW u \in Seq(E)
  PROVE  s \o (t \o u) = (s \o t) \o u
OBVIOUS

LEMMA Regroup ==
  ASSUME NEW E, NEW s \in Seq(E), NEW t \in Seq(E), NEW u \in Seq(E), NEW v \in Seq(E)
  PROVE  s \o ((t \o u) \o v) = ((s \o t) \o u) \o v
<1> DEFINE x == s \o t
           y == u \o v
<1>1. x \in Seq(E) /\ y \in Seq(E)
  BY ConcatElements
<1>2. (t \o u) \o v = t \o y
  BY ConcatAssociates, SMTT(40)
<1>3. s \o (t \o y) = x \o y
  <2> HIDE DEF y
  <2> QED
    BY <1>1, ConcatAssociates, SMTT(40)
<1>4. x \o y = (x \o u) \o v
  <2> HIDE DEF x
  <2> QED
    BY <1>1, ConcatAssociates, SMTT(40)
<1> HIDE DEF x, y
<1>5. s \o ((t \o u) \o v) = (x \o u) \o v
  BY <1>2, <1>3, <1>4
<1> QED
  BY <1>5 DEF x

LEMMA SameElements ==
  ASSUME NEW E, NEW s \in Seq(E), NEW t \in Seq(E), Len(s) = Len(t),
         \A i \in 1..Len(s) : s[i] = t[i]
  PROVE  s = t
OBVIOUS

LEMMA OneMore ==
  ASSUME NEW E, NEW s \in Seq(E), NEW e \in E, NEW n \in Nat, Len(s) = n
  PROVE  /\ Append(s, e) \in Seq(E) /\ Len(Append(s, e)) = n + 1
         /\ \A i \in 1..n : Append(s, e)[i] = s[i]
         /\ Append(s, e)[n + 1] = e
OBVIOUS

(* Short tuples under names of their own: a fact about them can be cited    *)
(* without the provers opening the tuples.                                  *)
Single(a) == <<a>>
Pair(a, b) == <<a, b>>
Triple(a, b, c) == <<a, b, c>>

LEMMA SingleType ==
  ASSUME NEW E, NEW a \in E
  PROVE  Single(a) \in Seq(E) /\ Len(Single(a)) = 1 /\ Single(a)[1] = a
BY DEF Single

LEMMA PairType ==
  ASSUME NEW E, NEW a \in E, NEW b \in E
  PROVE  /\ Pair(a, b) \in Seq(E) /\ Len(Pair(a, b)) = 2
         /\ Pair(a, b)[1] = a /\ Pair(a, b)[2] = b
BY DEF Pair

LEMMA TripleType ==
  ASSUME NEW E, NEW a \in E, NEW b \in E, NEW c \in E
  PROVE  /\ Triple(a, b, c) \in Seq(E) /\ Len(Triple(a, b, c)) = 3
         /\ Triple(a, b, c)[1] = a /\ Triple(a, b, c)[2] = b /\ Triple(a, b, c)[3] = c
BY DEF Triple

LEMMA SingleThen ==
  ASSUME NEW E, NEW a \in E, NEW t \in Seq(E)
  PROVE  /\ Single(a) \o t \in Seq(E) /\ Len(Single(a) \o t) = 1 + Len(t)
         /\ (Single(a) \o t)[1] = a
         /\ \A i \in 1..Len(t) : (Single(a) \o t)[1 + i] = t[i]
<1> DEFINE s == Single(a)
           u == s \o t
<1>1. s \in Seq(E) /\ Len(s) = 1 /\ s[1] = a
  BY SingleType
<1> HIDE DEF s
<1>2. ASSUME NEW k \in Nat, Len(s) = k
      PROVE  /\ u \in Seq(E) /\ Len(u) = k + Len(t)
             /\ \A i \in 1..k : u[i] = s[i]
             /\ \A i \in 1..Len(t) : u[k + i] = t[i]
  BY <1>1, <1>2, ConcatSizes
<1> HIDE DEF u
<1>3. /\ u \in Seq(E) /\ Len(u) = 1 + Len(t)
      /\ \A i \in 1..1 : u[i] = s[i]
      /\ \A i \in 1..Len(t) : u[1 + i] = t[i]
  BY <1>1, <1>2
<1>4. u[1] = a
  BY <1>1, <1>3
<1> QED
  BY <1>3, <1>4 DEF u, s

LEMMA PairOfSingles ==
  ASSUME NEW E, NEW a \in E, NEW b \in E
  PROVE  Single(a) \o Single(b) = Pair(a, b)
<1> DEFINE u == Append(Single(a), b)
           t == Pair(a, b)
<1>1. Single(a) \o Single(b) = u
  <2>1. Single(a) \o <<b>> = u
    BY SingleType, AppendToConcat
  <2> QED
    BY <2>1 DEF Single
<1>2. u \in Seq(E) /\ Len(u) = 1 + 1 /\ u[1 + 1] = b /\ \A i \in 1..1 : u[i] = Single(a)[i]
  BY SingleType, OneMore
<1>3. t \in Seq(E) /\ Len(t) = 2 /\ t[1] = a /\ t[2] = b
  BY PairType
<1>4. Single(a)[1] = a
  BY SingleType
<1> HIDE DEF u, t
<1>5. \A i \in 1..2 : u[i] = t[i]
  <2>1. \A i \in 1..2 : i = 1 \/ i = 2
    OBVIOUS
  <2> QED
    BY <1>2, <1>3, <1>4, <2>1
<1>6. u = t
  BY <1>2, <1>3, <1>5, SameElements
<1> QED
  BY <1>1, <1>6 DEF t

LEMMA TripleOfSingles ==
  ASSUME NEW E, NEW a \in E, NEW b \in E, NEW c \in E
  PROVE  Single(a) \o Single(b) \o Single(c) = Triple(a, b, c)
<1> DEFINE s == Pair(a, b)
           u == Append(s, c)
           t == Triple(a, b, c)
<1>1. s \in Seq(E) /\ Len(s) = 2 /\ s[1] = a /\ s[2] = b
  BY PairType
<1>2. Single(a) \o Single(b) \o Single(c) = u
  <2>1. Single(a) \o Single(b) = s
    BY PairOfSingles
  <2>2. s \o <<c>> = u
    BY <1>1, AppendToConcat
  <2> QED
    BY <2>1, <2>2 DEF Single
<1> HIDE DEF s
<1>3. u = Append(s, c)
  OBVIOUS
<1>4. t \in Seq(E) /\ Len(t) = 3 /\ t[1] = a /\ t[2] = b /\ t[3] = c
  BY TripleType
<1> HIDE DEF u, t
<1>5. u \in Seq(E) /\ Len(u) = 2 + 1 /\ u[2 + 1] = c /\ \A i \in 1..2 : u[i] = s[i]
  BY <1>1, <1>3, OneMore
<1>6. \A i \in 1..3 : u[i] = t[i]
  <2>1. \A i \in 1..3 : i = 1 \/ i = 2 \/ i = 3
    OBVIOUS
  <2> QED
    BY <1>1, <1>5, <1>4, <2>1
<1>7. u = t
  BY <1>5, <1>4, <1>6, SameElements
<1> QED
  BY <1>2, <1>7 DEF t

LEMMA SplitLast ==
  ASSUME NEW E, NEW s \in Seq(E), s # <<>>
  PROVE  /\ s = Append(Front(s), Last(s))
         /\ Front(s) \in Seq(E) /\ Len(Front(s)) = Len(s) - 1
         /\ Last(s) \in E /\ Last(s) = s[Len(s)]
         /\ \A i \in 1..(Len(s) - 1) : Front(s)[i] = s[i]
<1> DEFINE n == Len(s) - 1
           front == SubSeq(s, 1, n)
<1>1. n \in Nat /\ n + 1 = Len(s) /\ s[n + 1] \in E
  OBVIOUS
<1>2. /\ front \in Seq(E) /\ Len(front) = n /\ \A i \in 1..n : front[i] = s[i]
      /\ s = Append(front, s[n + 1])
  <2> HIDE DEF n
  <2> QED
    BY <1>1
<1>3. Front(s) = front /\ Last(s) = s[n + 1]
  BY <1>1 DEF Front, Last
<1> QED
  BY <1>1, <1>2, <1>3

(* The sizes of a sequence of things: numbers, and those before the last    *)
(* followed by the last.                                                    *)
LEMMA SizesType ==
  ASSUME NEW E, NEW s \in Seq(E), NEW size \in [E -> Nat]
  PROVE  [i \in DOMAIN s |-> size[s[i]]] \in Seq(Nat)
<1> DEFINE sizes == [i \in DOMAIN s |-> size[s[i]]]
<1>1. DOMAIN s = 1..Len(s) /\ Len(s) \in Nat
  OBVIOUS
<1>2. sizes \in [1..Len(s) -> Nat]
  BY <1>1
<1> HIDE DEF sizes
<1>3. sizes \in Seq(Nat)
  BY <1>1, <1>2
<1> QED
  BY <1>3 DEF sizes

LEMMA SizesSplit ==
  ASSUME NEW E, NEW s \in Seq(E), NEW size \in [E -> Nat], s # <<>>
  PROVE  [i \in DOMAIN s |-> size[s[i]]] =
           Append([i \in DOMAIN Front(s) |-> size[Front(s)[i]]], size[Last(s)])
<1> DEFINE N == Len(s)
           front == Front(s)
           all == [i \in DOMAIN s |-> size[s[i]]]
           lengths == [i \in DOMAIN front |-> size[front[i]]]
<1>1. N \in Nat \ {0} /\ DOMAIN s = 1..N
  OBVIOUS
<1>2. /\ front \in Seq(E) /\ Len(front) = N - 1 /\ Last(s) = s[N]
      /\ \A i \in 1..(N - 1) : front[i] = s[i]
  BY SplitLast
<1>3. all \in Seq(Nat) /\ Len(all) = N /\ \A i \in 1..N : all[i] = size[s[i]]
  <2>1. all \in Seq(Nat)
    BY SizesType
  <2>2. DOMAIN all = 1..N /\ \A i \in 1..N : all[i] = size[s[i]]
    BY <1>1
  <2> HIDE DEF all, N
  <2> QED
    BY <1>1, <2>1, <2>2
<1>4. Front(all) = lengths
  <2>1. /\ Front(all) \in Seq(Nat) /\ Len(Front(all)) = N - 1
        /\ \A i \in 1..(N - 1) : Front(all)[i] = all[i]
    <3>1. all # <<>>
      BY <1>1, <1>3
    <3> HIDE DEF all, N
    <3> QED
      BY <1>3, <3>1, SplitLast
  <2>2. DOMAIN front = 1..(N - 1)
    BY <1>1, <1>2
  <2>3. Front(all) = [i \in 1..(N - 1) |-> Front(all)[i]]
    <3>1. Len(Front(all)) \in Nat
      BY <1>1, <2>1
    <3> HIDE DEF all, N
    <3> QED
      BY <2>1, <3>1
  <2>4. \A i \in 1..(N - 1) : Front(all)[i] = size[front[i]]
    <3>1. \A i \in 1..(N - 1) : i \in 1..N
      BY <1>1
    <3> HIDE DEF all, N, front
    <3> QED
      BY <1>2, <1>3, <2>1, <3>1
  <2> HIDE DEF all, N, front
  <2> QED
    BY <2>2, <2>3, <2>4
<1>5. all = Append(Front(all), Last(all)) /\ Last(all) = size[s[N]]
  <2>1. all # <<>>
    BY <1>1, <1>3
  <2>2. all = Append(Front(all), Last(all)) /\ Last(all) = all[Len(all)]
    <3> HIDE DEF all
    <3> QED
      BY <1>3, <2>1, SplitLast
  <2>3. N \in 1..N
    BY <1>1
  <2> HIDE DEF all, N
  <2> QED
    BY <1>3, <2>2, <2>3
<1> QED
  BY <1>2, <1>4, <1>5

-----------------------------------------------------------------------------
(* A step takes a value and the number of the step to the next value; a run *)
(* of n steps follows them from a first value.                              *)
StepsOver(S, n) == [S \X (1..n) -> S]
RunsOver(S, n) == [0..n -> S]

FollowsSteps(f, n, base, step) ==
  f[0] = base /\ \A i \in 1..n : f[i] = step[<<f[i - 1], i>>]

(* Whatever the steps are, they can be followed.                            *)
LEMMA RecursionExists ==
  ASSUME NEW n \in Nat, NEW S, NEW base \in S, NEW step \in StepsOver(S, n)
  PROVE  \E f \in RunsOver(S, n) : FollowsSteps(f, n, base, step)
<1> USE DEF StepsOver, RunsOver, FollowsSteps
<1> DEFINE Good(m, f) == f[0] = base /\ \A i \in 1..m : f[i] = step[<<f[i - 1], i>>]
           T == {m \in Nat : m <= n => \E f \in [0..m -> S] : Good(m, f)}
<1>1. 0 \in T
  <2>1. [i \in 0..0 |-> base] \in [0..0 -> S] /\ Good(0, [i \in 0..0 |-> base])
    OBVIOUS
  <2> QED
    BY <2>1
<1>2. ASSUME NEW m \in Nat, m \in T PROVE m + 1 \in T
  <2> SUFFICES ASSUME m + 1 <= n PROVE \E f \in [0..(m + 1) -> S] : Good(m + 1, f)
    OBVIOUS
  <2>1. PICK f \in [0..m -> S] : Good(m, f)
    BY <1>2
  <2> DEFINE g == [i \in 0..(m + 1) |-> IF i <= m THEN f[i] ELSE step[<<f[m], m + 1>>]]
  <2>2. g \in [0..(m + 1) -> S]
    OBVIOUS
  <2>3. g[0] = base
    BY <2>1
  <2>4. ASSUME NEW i \in 1..(m + 1) PROVE g[i] = step[<<g[i - 1], i>>]
    <3>1. CASE i <= m
      <4>1. i \in 1..m /\ i \in 0..(m + 1) /\ i - 1 \in 0..(m + 1) /\ i - 1 <= m
        BY <3>1
      <4>2. g[i] = f[i] /\ g[i - 1] = f[i - 1]
        BY <4>1, <3>1
      <4> QED
        BY <4>1, <4>2, <2>1
    <3>2. CASE i = m + 1
      <4>1. i \in 0..(m + 1) /\ m \in 0..(m + 1) /\ ~(i <= m) /\ i - 1 = m
        BY <3>2
      <4>2. g[i] = step[<<f[m], m + 1>>] /\ g[m] = f[m]
        BY <4>1
      <4> QED
        BY <4>1, <4>2, <3>2
    <3> QED
      BY <3>1, <3>2
  <2> QED
    BY <2>2, <2>3, <2>4
<1>3. n \in T
  <2> HIDE DEF T
  <2> QED
    BY <1>1, <1>2, Induction
<1> QED
  BY <1>3

(* Two runs that begin alike and never part are the same.                   *)
NeverPart(f, g, n) ==
  f[0] = g[0] /\ \A i \in 1..n : f[i - 1] = g[i - 1] => f[i] = g[i]

LEMMA RunsAgree ==
  \A n \in Nat : \A f, g : NeverPart(f, g, n) => \A i \in 0..n : f[i] = g[i]
<1> SUFFICES ASSUME NEW n \in Nat, NEW f, NEW g, NeverPart(f, g, n)
             PROVE  \A i \in 0..n : f[i] = g[i]
  OBVIOUS
<1> USE DEF NeverPart
<1> DEFINE T == {i \in Nat : i <= n => f[i] = g[i]}
<1>1. 0 \in T
  OBVIOUS
<1>2. ASSUME NEW i \in Nat, i \in T PROVE i + 1 \in T
  <2> SUFFICES ASSUME i + 1 <= n PROVE f[i + 1] = g[i + 1]
    OBVIOUS
  <2>1. i + 1 \in 1..n /\ (i + 1) - 1 = i /\ f[i] = g[i]
    BY <1>2
  <2> QED
    BY <2>1
<1>3. Nat \subseteq T
  <2> HIDE DEF T
  <2> QED
    BY <1>1, <1>2, Induction
<1> QED
  BY <1>3

-----------------------------------------------------------------------------
(* FlattenSeq, and the run behind it.                                       *)

FlattenRun(f, ss) ==
  f[0] = <<>> /\ \A i \in 1..Len(ss) : f[i] = f[i - 1] \o ss[i]

LEMMA FlattenIsRun ==
  ASSUME NEW E, NEW ss \in Seq(Seq(E))
  PROVE  \E f \in [0..Len(ss) -> Seq(E)] :
           FlattenRun(f, ss) /\ FlattenSeq(ss) = f[Len(ss)]
<1> DEFINE N == Len(ss)
           S == Seq(E)
           base == <<>>
           step == [p \in S \X (1..N) |-> p[1] \o ss[p[2]]]
           Equation(h) == h = [i \in 1..N |-> IF i = 1 THEN ss[i] ELSE h[i - 1] \o ss[i]]
<1>1. N \in Nat /\ base \in S /\ step \in StepsOver(S, N)
  BY DEF StepsOver
<1>2. \E f \in RunsOver(S, N) : FollowsSteps(f, N, base, step)
  <2> HIDE DEF step, N, S, base
  <2> QED
    BY <1>1, RecursionExists
<1>3. PICK f \in [0..N -> Seq(E)] :
        f[0] = <<>> /\ \A i \in 1..N : f[i] = step[<<f[i - 1], i>>]
  BY <1>2 DEF RunsOver, FollowsSteps
<1>4. ASSUME NEW i \in 1..N PROVE f[i] = f[i - 1] \o ss[i]
  <2>1. i - 1 \in 0..N
    BY <1>1
  <2> QED
    BY <1>3, <2>1
<1>5. FlattenRun(f, ss)
  BY <1>3, <1>4 DEF FlattenRun
<1>6. CASE N = 0
  BY <1>3, <1>5, <1>6 DEF FlattenSeq
<1>7. CASE N # 0
  <2>0. 1 \in 1..N /\ f[1] = ss[1]
    <3>1. 1 \in 1..N /\ 1 - 1 = 0 /\ ss[1] \in Seq(E)
      BY <1>1, <1>7
    <3>2. f[1] = f[1 - 1] \o ss[1]
      BY <1>4, <3>1
    <3>3. f[1] = <<>> \o ss[1]
      BY <1>3, <3>1, <3>2
    <3> QED
      BY <3>1, <3>3
  <2> DEFINE g == CHOOSE h : Equation(h)
  <2>1. Equation([i \in 1..N |-> f[i]])
    <3> DEFINE h == [i \in 1..N |-> f[i]]
    <3>1. ASSUME NEW i \in 1..N
          PROVE  h[i] = IF i = 1 THEN ss[i] ELSE h[i - 1] \o ss[i]
      <4>1. CASE i = 1
        BY <2>0, <4>1
      <4>2. CASE i # 1
        <5>1. i - 1 \in 1..N
          BY <1>1, <4>2
        <5> QED
          BY <5>1, <4>2, <1>4
      <4> QED
        BY <4>1, <4>2
    <3> QED
      BY <3>1
  <2>2. Equation(g)
    <3> HIDE DEF Equation
    <3> QED
      BY <2>1, Zenon
  <2>3. FlattenSeq(ss) = g[N]
    BY <1>7 DEF FlattenSeq
  <2> HIDE DEF g
  <2> DEFINE T == {n \in Nat : n + 1 <= N => g[n + 1] = f[n + 1]}
  <2>4. 0 \in T
    <3>1. g[1] = ss[1]
      BY <2>0, <2>2
    <3> QED
      BY <2>0, <3>1
  <2>5. ASSUME NEW n \in Nat, n \in T PROVE n + 1 \in T
    <3> SUFFICES ASSUME (n + 1) + 1 <= N PROVE g[(n + 1) + 1] = f[(n + 1) + 1]
      OBVIOUS
    <3> DEFINE m == (n + 1) + 1
    <3>1. m \in 1..N /\ m # 1 /\ m - 1 = n + 1
      BY <1>1
    <3>2. g[m - 1] = f[m - 1]
      BY <2>5, <3>1, <1>1
    <3>3. g[m] = g[m - 1] \o ss[m] /\ f[m] = f[m - 1] \o ss[m]
      <4> HIDE DEF m
      <4> QED
        BY <2>2, <3>1, <1>4
    <3> QED
      BY <3>2, <3>3
  <2>6. Nat \subseteq T
    <3> HIDE DEF T
    <3> QED
      BY <2>4, <2>5, Induction
  <2>7. g[N] = f[N]
    <3>1. N - 1 \in Nat /\ (N - 1) + 1 = N
      BY <1>1, <1>7
    <3>2. N - 1 \in T
      BY <2>6, <3>1
    <3> QED
      BY <3>1, <3>2
  <2> QED
    BY <1>5, <2>3, <2>7
<1> QED
  BY <1>6, <1>7

LEMMA FlattenEmpty == FlattenSeq(<<>>) = <<>>
BY DEF FlattenSeq

LEMMA FlattenType ==
  ASSUME NEW E, NEW ss \in Seq(Seq(E))
  PROVE  FlattenSeq(ss) \in Seq(E)
<1>1. PICK f \in [0..Len(ss) -> Seq(E)] : FlattenSeq(ss) = f[Len(ss)]
  BY FlattenIsRun
<1> QED
  BY <1>1

LEMMA FlattenAppend ==
  ASSUME NEW E, NEW ss \in Seq(Seq(E)), NEW s \in Seq(E)
  PROVE  FlattenSeq(Append(ss, s)) = FlattenSeq(ss) \o s
<1> DEFINE N == Len(ss)
           tt == Append(ss, s)
<1>1. N \in Nat /\ tt \in Seq(Seq(E)) /\ Len(tt) = N + 1 /\ tt[N + 1] = s
  OBVIOUS
<1>2. \A i \in 1..N : tt[i] = ss[i]
  OBVIOUS
<1>3. PICK f \in [0..Len(ss) -> Seq(E)] : FlattenRun(f, ss) /\ FlattenSeq(ss) = f[N]
  BY FlattenIsRun
<1>4. PICK g \in [0..Len(tt) -> Seq(E)] :
        FlattenRun(g, tt) /\ FlattenSeq(tt) = g[Len(tt)]
  <2> HIDE DEF tt
  <2> QED
    BY <1>1, FlattenIsRun
<1>5. \A i \in 0..N : f[i] = g[i]
  <2>1. f[0] = g[0]
    BY <1>3, <1>4 DEF FlattenRun
  <2>2. ASSUME NEW i \in 1..N, f[i - 1] = g[i - 1] PROVE f[i] = g[i]
    <3>1. i \in 1..Len(tt)
      BY <1>1
    <3> HIDE DEF tt
    <3> QED
      BY <1>2, <1>3, <1>4, <2>2, <3>1 DEF FlattenRun
  <2>3. NeverPart(f, g, N)
    BY <2>1, <2>2 DEF NeverPart
  <2>4. N \in Nat
    BY <1>1
  <2> HIDE DEF N, tt
  <2> QED
    BY <2>3, <2>4, RunsAgree, Zenon
<1>6. g[N + 1] = g[N] \o s
  <2>1. N + 1 \in 1..Len(tt) /\ (N + 1) - 1 = N
    BY <1>1
  <2> HIDE DEF tt, N
  <2> QED
    BY <1>1, <1>4, <2>1 DEF FlattenRun
<1>7. f[N] = g[N]
  BY <1>1, <1>5
<1> QED
  BY <1>1, <1>3, <1>4, <1>6, <1>7

LEMMA FlattenOne ==
  ASSUME NEW E, NEW s \in Seq(E)
  PROVE  FlattenSeq(<<s>>) = s
<1>1. <<>> \in Seq(Seq(E)) /\ Append(<<>>, s) = <<s>> /\ <<>> \o s = s
  OBVIOUS
<1> QED
  BY <1>1, FlattenAppend, FlattenEmpty

(* Empty sequences at the end add nothing.                                  *)
LEMMA FlattenPadded ==
  ASSUME NEW E, NEW ss \in Seq(Seq(E)), NEW n \in Nat, n >= Len(ss)
  PROVE  FlattenSeq([i \in 1..n |-> IF i <= Len(ss) THEN ss[i] ELSE <<>>])
           = FlattenSeq(ss)
<1> DEFINE N == Len(ss)
           Padded(m) == [i \in 1..m |-> IF i <= N THEN ss[i] ELSE <<>>]
           T == {d \in Nat : FlattenSeq(Padded(N + d)) = FlattenSeq(ss)}
<1>1. N \in Nat
  OBVIOUS
<1>0. ASSUME NEW m \in Nat PROVE Padded(m) \in Seq(Seq(E)) /\ Len(Padded(m)) = m
  <2>1. ASSUME NEW i \in 1..m PROVE Padded(m)[i] \in Seq(E)
    OBVIOUS
  <2>2. Padded(m) \in [1..m -> Seq(E)]
    BY <2>1
  <2> HIDE DEF Padded
  <2> QED
    BY <2>2
<1>2. 0 \in T
  <2>1. Padded(N) = ss
    OBVIOUS
  <2> QED
    <3>1. N + 0 = N
      BY <1>1
    <3> HIDE DEF Padded
    <3> QED
      BY <2>1, <3>1
<1>3. ASSUME NEW d \in Nat, d \in T PROVE d + 1 \in T
  <2>1. Padded(N + (d + 1)) = Append(Padded(N + d), <<>>)
    OBVIOUS
  <2>2. FlattenSeq(Append(Padded(N + d), <<>>)) = FlattenSeq(Padded(N + d)) \o <<>>
    <3>1. Padded(N + d) \in Seq(Seq(E)) /\ <<>> \in Seq(E)
      BY <1>0, <1>1
    <3> HIDE DEF Padded
    <3> QED
      BY <3>1, FlattenAppend
  <2>3. FlattenSeq(ss) \in Seq(E)
    BY FlattenType
  <2>4. FlattenSeq(ss) \o <<>> = FlattenSeq(ss)
    BY <2>3
  <2>5. d + 1 \in Nat
    OBVIOUS
  <2>6. FlattenSeq(Padded(N + (d + 1))) = FlattenSeq(ss)
    <3> HIDE DEF Padded, N
    <3> QED
      BY <1>3, <2>1, <2>2, <2>4
  <2> HIDE DEF Padded, N
  <2> QED
    BY <2>5, <2>6
<1>4. n - N \in T
  <2>1. n - N \in Nat
    BY <1>1
  <2> HIDE DEF T
  <2> QED
    BY <1>2, <1>3, <2>1, Induction
<1>5. N + (n - N) = n
  BY <1>1
<1> QED
  BY <1>4, <1>5


(* Sequences of one element each.                                           *)
LEMMA FlattenSingles ==
  ASSUME NEW E, NEW s \in Seq(E)
  PROVE  FlattenSeq([i \in 1..Len(s) |-> <<s[i]>>]) = s
<1> DEFINE Singles(t) == [i \in 1..Len(t) |-> <<t[i]>>]
           S == {t \in Seq(E) : FlattenSeq(Singles(t)) = t}
<1>1. ASSUME NEW t \in Seq(E) PROVE Singles(t) \in Seq(Seq(E)) /\ Len(Singles(t)) = Len(t)
  <2>1. Len(t) \in Nat /\ Singles(t) \in [1..Len(t) -> Seq(E)]
    OBVIOUS
  <2> DEFINE u == Singles(t)
  <2> HIDE DEF u
  <2>2. u \in Seq(Seq(E)) /\ Len(u) = Len(t)
    BY <2>1 DEF u
  <2> QED
    BY <2>2 DEF u
<1>2. <<>> \in S
  <2>1. Singles(<<>>) = <<>>
    OBVIOUS
  <2> QED
    BY <2>1, FlattenEmpty
<1>3. ASSUME NEW t \in Seq(E), NEW e \in E, t \in S PROVE Append(t, e) \in S
  <2>1. Singles(Append(t, e)) = Append(Singles(t), <<e>>)
    <3> DEFINE u == Append(t, e)
    <3>1. /\ Len(t) \in Nat /\ Len(u) = Len(t) + 1 /\ u[Len(t) + 1] = e
          /\ \A i \in 1..Len(t) : u[i] = t[i]
      OBVIOUS
    <3> DEFINE v == Singles(t)
               x == <<e>>
    <3>2. v \in Seq(Seq(E)) /\ Len(v) = Len(t) /\ \A i \in 1..Len(t) : v[i] = <<t[i]>>
      BY <1>1
    <3>3. x \in Seq(E)
      OBVIOUS
    <3> HIDE DEF u, v, x
    <3>4. /\ Append(v, x) \in Seq(Seq(E)) /\ Len(Append(v, x)) = Len(t) + 1
          /\ Append(v, x)[Len(t) + 1] = x
          /\ \A i \in 1..Len(t) : Append(v, x)[i] = v[i]
      BY <3>1, <3>2, <3>3
    <3>5. Append(v, x) = [i \in 1..(Len(t) + 1) |-> Append(v, x)[i]]
      <4> DEFINE y == Append(v, x)
      <4> HIDE DEF y
      <4>1. y \in Seq(Seq(E)) /\ Len(y) = Len(t) + 1
        BY <3>4 DEF y
      <4>2. y = [i \in 1..Len(y) |-> y[i]]
        BY <4>1
      <4> QED
        BY <4>1, <4>2 DEF y
    <3>6. \A i \in 1..(Len(t) + 1) : Append(v, x)[i] = <<u[i]>>
      BY <3>1, <3>2, <3>4 DEF x
    <3> QED
      BY <3>1, <3>5, <3>6 DEF u, v, x
  <2>2. FlattenSeq(Append(Singles(t), <<e>>)) = FlattenSeq(Singles(t)) \o <<e>>
    <3>1. <<e>> \in Seq(E) /\ Singles(t) \in Seq(Seq(E))
      BY <1>1
    <3> QED
      BY <3>1, FlattenAppend
  <2>3. t \o <<e>> = Append(t, e) /\ Append(t, e) \in Seq(E) /\ FlattenSeq(Singles(t)) = t
    BY <1>3
  <2> QED
    BY <2>1, <2>2, <2>3
<1> HIDE DEF S
<1>4. s \in S
  BY <1>2, <1>3, SequenceInduction
<1> QED
  BY <1>4 DEF S
=============================================================================
