------------------------- MODULE ClaimIntake_proofs -------------------------
(***************************************************************************)
(* Proofs about ClaimIntake for every value of its constants: what the     *)
(* greedy passes of the chunker and the merge of the answers make of       *)
(* sequences of any length, by induction along the sequence, and from that *)
(* the invariants of the extraction.                                       *)
(***************************************************************************)
EXTENDS ClaimIntake, SequenceLemmas

-----------------------------------------------------------------------------
(* Totals.                                                                  *)

TotalRun(f, sizes) ==
  f[0] = 0 /\ \A n \in 1..Len(sizes) : f[n] = f[n - 1] + sizes[n]

LEMMA TotalIsRun ==
  ASSUME NEW sizes \in Seq(Nat)
  PROVE  \E f \in [0..Len(sizes) -> Nat] :
           TotalRun(f, sizes) /\ TotalOf(sizes) = f[Len(sizes)]
<1> DEFINE N == Len(sizes)
           S == Nat
           base == 0
           step == [p \in S \X (1..N) |-> p[1] + sizes[p[2]]]
           Equation(h) == h = [n \in 0..N |-> IF n = 0 THEN 0 ELSE h[n - 1] + sizes[n]]
           sum == CHOOSE h : Equation(h)
<1>1. N \in Nat /\ base \in S /\ step \in StepsOver(S, N)
  BY DEF StepsOver
<1>2. \E f \in RunsOver(S, N) : FollowsSteps(f, N, base, step)
  <2> HIDE DEF step, N, S, base
  <2> QED
    BY <1>1, RecursionExists
<1>3. PICK f \in [0..N -> Nat] :
        f[0] = 0 /\ \A n \in 1..N : f[n] = step[<<f[n - 1], n>>]
  BY <1>2 DEF RunsOver, FollowsSteps
<1>4. ASSUME NEW n \in 1..N PROVE f[n] = f[n - 1] + sizes[n]
  <2>1. n - 1 \in 0..N
    BY <1>1
  <2> QED
    BY <1>3, <2>1
<1>5. Equation(f)
  BY <1>3, <1>4
<1>6. Equation(sum)
  <2> HIDE DEF Equation
  <2> QED
    BY <1>5, Zenon
<1>7. TotalOf(sizes) = sum[N]
  BY DEF TotalOf
<1>8. NeverPart(f, sum, N)
  <2> HIDE DEF sum
  <2>1. sum[0] = 0
    BY <1>1, <1>6
  <2>2. ASSUME NEW n \in 1..N PROVE sum[n] = sum[n - 1] + sizes[n]
    <3>1. n \in 0..N /\ n # 0
      BY <1>1
    <3> QED
      BY <1>6, <3>1
  <2> QED
    BY <1>3, <1>4, <2>1, <2>2 DEF NeverPart
<1>9. sum[N] = f[N]
  <2>1. N \in Nat /\ N \in 0..N
    BY <1>1
  <2> HIDE DEF sum, N
  <2> QED
    BY <1>8, <2>1, RunsAgree, Zenon
<1> QED
  BY <1>3, <1>4, <1>7, <1>9 DEF TotalRun

LEMMA TotalType ==
  ASSUME NEW sizes \in Seq(Nat)
  PROVE  TotalOf(sizes) \in Nat
<1>1. PICK f \in [0..Len(sizes) -> Nat] : TotalOf(sizes) = f[Len(sizes)]
  BY TotalIsRun
<1> QED
  BY <1>1

LEMMA TotalEmpty == TotalOf(<<>>) = 0
<1>1. <<>> \in Seq(Nat) /\ Len(<<>>) = 0
  OBVIOUS
<1> QED
  BY <1>1, TotalIsRun DEF TotalRun

LEMMA TotalAppend ==
  ASSUME NEW sizes \in Seq(Nat), NEW size \in Nat
  PROVE  TotalOf(Append(sizes, size)) = TotalOf(sizes) + size
<1> DEFINE N == Len(sizes)
           more == Append(sizes, size)
<1>1. N \in Nat /\ more \in Seq(Nat) /\ Len(more) = N + 1 /\ more[N + 1] = size
  OBVIOUS
<1>2. \A n \in 1..N : more[n] = sizes[n]
  OBVIOUS
<1>3. PICK f \in [0..Len(sizes) -> Nat] :
        TotalRun(f, sizes) /\ TotalOf(sizes) = f[N]
  BY TotalIsRun
<1>4. PICK g \in [0..Len(more) -> Nat] :
        TotalRun(g, more) /\ TotalOf(more) = g[Len(more)]
  <2> HIDE DEF more
  <2> QED
    BY <1>1, TotalIsRun
<1>5. NeverPart(f, g, N)
  <2>1. f[0] = g[0]
    BY <1>3, <1>4 DEF TotalRun
  <2>2. ASSUME NEW n \in 1..N, f[n - 1] = g[n - 1] PROVE f[n] = g[n]
    <3>1. n \in 1..Len(more)
      BY <1>1
    <3> HIDE DEF more
    <3> QED
      BY <1>2, <1>3, <1>4, <2>2, <3>1 DEF TotalRun
  <2> QED
    BY <2>1, <2>2 DEF NeverPart
<1>6. f[N] = g[N]
  <2>1. N \in Nat /\ N \in 0..N
    BY <1>1
  <2>2. \A n \in 0..N : f[n] = g[n]
    <3>1. N \in Nat
      BY <1>1
    <3> HIDE DEF N, more
    <3> QED
      BY <1>5, <3>1, RunsAgree, Zenon
  <2> QED
    BY <2>1, <2>2
<1>7. g[N + 1] = g[N] + size
  <2>1. N + 1 \in 1..Len(more) /\ (N + 1) - 1 = N
    BY <1>1
  <2>2. \A n \in 1..Len(more) : g[n] = g[n - 1] + more[n]
    BY <1>4 DEF TotalRun
  <2>3. g[N + 1] = g[(N + 1) - 1] + more[N + 1]
    <3> HIDE DEF more, N
    <3> QED
      BY <2>1, <2>2
  <2> QED
    BY <1>1, <2>1, <2>3
<1> QED
  BY <1>1, <1>3, <1>4, <1>6, <1>7

(* A part of a joined text adds itself, and a separator if it is not the    *)
(* first.                                                                   *)
LEMMA JoinedType ==
  ASSUME NEW sizes \in Seq(Nat)
  PROVE  JoinedLength(sizes) \in Nat
<1>1. TotalOf(sizes) \in Nat
  BY TotalType
<1>2. sizes # <<>> => Len(sizes) - 1 \in Nat
  OBVIOUS
<1> QED
  BY <1>1, <1>2 DEF JoinedLength, Separator

LEMMA JoinedAppend ==
  ASSUME NEW sizes \in Seq(Nat), NEW size \in Nat
  PROVE  JoinedLength(Append(sizes, size)) =
           IF sizes = <<>> THEN size ELSE JoinedLength(sizes) + Separator + size
<1>1. TotalOf(sizes) \in Nat /\ TotalOf(Append(sizes, size)) = TotalOf(sizes) + size
  BY TotalType, TotalAppend
<1>2. Append(sizes, size) # <<>> /\ Len(Append(sizes, size)) = Len(sizes) + 1
  OBVIOUS
<1>3. CASE sizes = <<>>
  <2>1. Len(sizes) = 0 /\ TotalOf(sizes) = 0
    BY <1>3, TotalEmpty
  <2> QED
    BY <1>1, <1>2, <1>3, <2>1 DEF JoinedLength, Separator
<1>4. CASE sizes # <<>>
  <2>1. Len(sizes) \in Nat \ {0}
    BY <1>4
  <2> QED
    BY <1>1, <1>2, <1>4, <2>1 DEF JoinedLength, Separator
<1> QED
  BY <1>3, <1>4

-----------------------------------------------------------------------------
(* A greedy pass.                                                           *)

Accs(E) == [done : Seq(Seq(E)), pending : Seq(E)]

(* A group is not empty, and its last item fitted with those before.        *)
IsFilled(group, kind) ==
  /\ group # <<>>
  /\ Len(group) > 1 => Fits(Front(group), Last(group), kind)

Following(acc, k) == IF k < Len(acc.done) THEN acc.done[k + 1] ELSE acc.pending

(* What holds during the pass: a group is closed only when the first item   *)
(* of the next one did not fit.                                             *)
IsGrouping(acc, kind) ==
  /\ acc.pending = <<>> => acc.done = <<>>
  /\ acc.pending # <<>> => IsFilled(acc.pending, kind)
  /\ \A k \in 1..Len(acc.done) :
       IsFilled(acc.done[k], kind) /\ ~Fits(acc.done[k], Following(acc, k)[1], kind)

ShownBy(acc) == FlattenSeq(acc.done) \o acc.pending

LEMMA PlacedKeepsGrouping ==
  ASSUME NEW E, NEW kind, NEW acc \in Accs(E), NEW item \in E, IsGrouping(acc, kind)
  PROVE  /\ Placed(acc, item, kind) \in Accs(E)
         /\ Placed(acc, item, kind).pending # <<>>
         /\ IsGrouping(Placed(acc, item, kind), kind)
         /\ ShownBy(Placed(acc, item, kind)) = Append(ShownBy(acc), item)
<1> DEFINE done == acc.done
           pending == acc.pending
           next == Placed(acc, item, kind)
<1>1. done \in Seq(Seq(E)) /\ pending \in Seq(E)
  BY DEF Accs
<1>2. FlattenSeq(done) \in Seq(E)
  BY <1>1, FlattenType
<1>3. CASE pending = <<>> \/ Fits(pending, item, kind)
  <2>0. next = [done |-> done, pending |-> Append(pending, item)]
    BY <1>3 DEF Placed, Accs
  <2>1. next.done = done /\ next.pending = Append(pending, item)
    BY <2>0
  <2>2. Append(pending, item) \in Seq(E) /\ Append(pending, item) # <<>>
    BY <1>1
  <2>3. IsFilled(Append(pending, item), kind)
    <3>1. CASE pending = <<>>
      <4>1. Len(Append(pending, item)) = 1
        BY <3>1
      <4> QED
        BY <2>2, <4>1 DEF IsFilled
    <3>2. CASE pending # <<>>
      <4>1. Front(Append(pending, item)) = pending /\ Last(Append(pending, item)) = item
        BY <1>1 DEF Front, Last
      <4> QED
        BY <1>3, <2>2, <3>2, <4>1 DEF IsFilled
    <3> QED
      BY <3>1, <3>2
  <2>4. ASSUME NEW k \in 1..Len(done)
        PROVE  IsFilled(done[k], kind) /\ ~Fits(done[k], Following(next, k)[1], kind)
    <3>1. done # <<>>
      BY <1>1, <2>4
    <3>2. pending # <<>>
      BY <3>1 DEF IsGrouping
    <3>3. Append(pending, item)[1] = pending[1]
      BY <1>1, <3>2
    <3>4. Following(next, k)[1] = Following(acc, k)[1]
      BY <2>1, <3>3 DEF Following
    <3> QED
      BY <3>4 DEF IsGrouping
  <2>5. IsGrouping(next, kind)
    <3> HIDE DEF next
    <3> QED
      BY <2>1, <2>2, <2>3, <2>4 DEF IsGrouping
  <2>6. ShownBy(next) = Append(ShownBy(acc), item)
    <3>1. FlattenSeq(done) \o Append(pending, item)
            = Append(FlattenSeq(done) \o pending, item)
      <4> DEFINE shown == FlattenSeq(done)
      <4> HIDE DEF done, pending, shown
      <4>1. shown \in Seq(E) /\ pending \in Seq(E)
        BY <1>1, <1>2 DEF shown
      <4>2. shown \o Append(pending, item) = Append(shown \o pending, item)
        BY <4>1, AppendToConcat
      <4> QED
        BY <4>2 DEF shown
    <3> HIDE DEF next
    <3> QED
      BY <2>1, <3>1 DEF ShownBy
  <2>7. next \in Accs(E)
    BY <1>1, <2>0, <2>2 DEF Accs
  <2> QED
    BY <2>1, <2>2, <2>5, <2>6, <2>7
<1>4. CASE ~(pending = <<>> \/ Fits(pending, item, kind))
  <2>0. next = [done |-> Append(done, pending), pending |-> <<item>>]
    BY <1>4 DEF Placed
  <2>1. next.done = Append(done, pending) /\ next.pending = <<item>>
    BY <2>0
  <2>2. Append(done, pending) \in Seq(Seq(E)) /\ <<item>> \in Seq(E) /\ <<item>> # <<>>
    BY <1>1
  <2>3. IsFilled(<<item>>, kind)
    BY DEF IsFilled
  <2>4. ASSUME NEW k \in 1..Len(next.done)
        PROVE  /\ IsFilled(next.done[k], kind)
               /\ ~Fits(next.done[k], Following(next, k)[1], kind)
    <3>1. next.done = Append(done, pending) /\ Len(next.done) = Len(done) + 1
      BY <1>1, <2>1
    <3>2. CASE k = Len(done) + 1
      <4>1. next.done[k] = pending /\ Following(next, k) = <<item>>
        BY <1>1, <2>1, <3>1, <3>2 DEF Following
      <4> QED
        BY <1>4, <4>1 DEF IsGrouping
    <3>3. CASE k # Len(done) + 1
      <4>1. k \in 1..Len(done)
        BY <1>1, <3>1, <3>3
      <4>2. next.done[k] = done[k]
        BY <1>1, <3>1, <4>1
      <4>3. Following(next, k) = Following(acc, k)
        <5>1. CASE k < Len(done)
          BY <1>1, <3>1, <4>1, <5>1 DEF Following
        <5>2. CASE ~(k < Len(done))
          BY <1>1, <3>1, <4>1, <5>2 DEF Following
        <5> QED
          BY <5>1, <5>2
      <4> QED
        BY <4>1, <4>2, <4>3 DEF IsGrouping
    <3> QED
      BY <3>2, <3>3
  <2>5. IsGrouping(next, kind)
    <3> HIDE DEF next
    <3> QED
      BY <2>1, <2>2, <2>3, <2>4 DEF IsGrouping
  <2>6. ShownBy(next) = Append(ShownBy(acc), item)
    <3>1. FlattenSeq(Append(done, pending)) = FlattenSeq(done) \o pending
      BY <1>1, FlattenAppend
    <3>2. (FlattenSeq(done) \o pending) \o <<item>>
            = Append(FlattenSeq(done) \o pending, item)
      <4>1. FlattenSeq(done) \o pending \in Seq(E)
        BY <1>1, <1>2
      <4> QED
        BY <4>1, AppendToConcat
    <3> HIDE DEF next
    <3> QED
      BY <2>1, <3>1, <3>2 DEF ShownBy
  <2>7. next \in Accs(E)
    BY <1>1, <2>0, <2>2 DEF Accs
  <2> QED
    BY <2>1, <2>2, <2>5, <2>6, <2>7
<1> QED
  BY <1>3, <1>4

LEMMA PlacedType ==
  ASSUME NEW E, NEW kind, NEW acc \in Accs(E), NEW item \in E
  PROVE  Placed(acc, item, kind) \in Accs(E)
<1> DEFINE done == acc.done
           pending == acc.pending
<1>1. done \in Seq(Seq(E)) /\ pending \in Seq(E)
  BY DEF Accs
<1>2. CASE pending = <<>> \/ Fits(pending, item, kind)
  <2>1. Placed(acc, item, kind) = [done |-> done, pending |-> Append(pending, item)]
    BY <1>2 DEF Placed, Accs
  <2> QED
    BY <1>1, <2>1 DEF Accs
<1>3. CASE ~(pending = <<>> \/ Fits(pending, item, kind))
  <2>1. Placed(acc, item, kind) = [done |-> Append(done, pending), pending |-> <<item>>]
    BY <1>3 DEF Placed
  <2> QED
    BY <1>1, <2>1 DEF Accs
<1> QED
  BY <1>2, <1>3

(* The groups of a pass: together they show the items in their order, none  *)
(* is empty or overfull, and none ended before it had to.                   *)
LEMMA GroupedItems ==
  ASSUME NEW E, NEW kind, NEW items \in Seq(E)
  PROVE  /\ Grouped(items, kind) \in Seq(Seq(E))
         /\ FlattenSeq(Grouped(items, kind)) = items
         /\ items # <<>> => Grouped(items, kind) # <<>>
         /\ \A k \in 1..Len(Grouped(items, kind)) : IsFilled(Grouped(items, kind)[k], kind)
         /\ \A k \in 1..(Len(Grouped(items, kind)) - 1) :
              ~Fits(Grouped(items, kind)[k], Grouped(items, kind)[k + 1][1], kind)
<1> DEFINE N == Len(items)
           S == Accs(E)
           base == [done |-> <<>>, pending |-> <<>>]
           step == [p \in S \X (1..N) |-> Placed(p[1], items[p[2]], kind)]
           Equation(h) ==
             h = [n \in 0..N |-> IF n = 0 THEN [done |-> <<>>, pending |-> <<>>]
                                 ELSE Placed(h[n - 1], items[n], kind)]
           state == CHOOSE h : Equation(h)
           end == state[N]
<1>1. N \in Nat /\ base \in S /\ \A n \in 1..N : items[n] \in E
  BY DEF Accs
<1>2. step \in StepsOver(S, N)
  <2>1. \A p \in S \X (1..N) : Placed(p[1], items[p[2]], kind) \in S
    <3> SUFFICES ASSUME NEW acc \in S, NEW n \in 1..N
                 PROVE  Placed(acc, items[n], kind) \in S
      OBVIOUS
    <3> HIDE DEF N
    <3> QED
      BY <1>1, PlacedType
  <2> QED
    BY <2>1 DEF StepsOver
<1>3. \E f \in RunsOver(S, N) : FollowsSteps(f, N, base, step)
  <2> HIDE DEF step, N, S, base
  <2> QED
    BY <1>1, <1>2, RecursionExists
<1>4. PICK f \in [0..N -> S] :
        f[0] = base /\ \A n \in 1..N : f[n] = step[<<f[n - 1], n>>]
  BY <1>3 DEF RunsOver, FollowsSteps
<1>5. ASSUME NEW n \in 1..N PROVE f[n] = Placed(f[n - 1], items[n], kind)
  <2>1. n - 1 \in 0..N
    BY <1>1
  <2>2. f[n - 1] \in S
    BY <1>4, <2>1
  <2> HIDE DEF S
  <2> QED
    BY <1>4, <2>2
<1>6. Equation(f)
  <2> HIDE DEF S, N
  <2> QED
    BY <1>4, <1>5
<1>7. Equation(state)
  <2> HIDE DEF Equation
  <2> QED
    BY <1>6, Zenon
<1>8. Grouped(items, kind) =
        IF end.pending = <<>> THEN end.done ELSE Append(end.done, end.pending)
  BY DEF Grouped
<1> HIDE DEF state
<1>9. state[0] = base /\ \A n \in 1..N : state[n] = Placed(state[n - 1], items[n], kind)
  <2>1. 0 \in 0..N /\ \A n \in 1..N : n \in 0..N /\ n # 0
    BY <1>1
  <2> HIDE DEF N
  <2> QED
    BY <1>7, <2>1
<1> DEFINE Reached(n) ==
             /\ state[n] \in S
             /\ IsGrouping(state[n], kind)
             /\ ShownBy(state[n]) = SubSeq(items, 1, n)
             /\ n > 0 => state[n].pending # <<>>
           T == {n \in Nat : n <= N => Reached(n)}
<1>10. Reached(0)
  <2>1. FlattenSeq(<<>>) \o <<>> = <<>> /\ SubSeq(items, 1, 0) = <<>>
    BY FlattenEmpty
  <2>2. IsGrouping(base, kind)
    BY DEF IsGrouping
  <2>3. ShownBy(base) = <<>>
    BY <2>1 DEF ShownBy
  <2> HIDE DEF base, S
  <2> QED
    BY <1>1, <1>9, <2>1, <2>2, <2>3
<1>11. ASSUME NEW n \in Nat, n \in T PROVE n + 1 \in T
  <2> SUFFICES ASSUME n + 1 <= N PROVE Reached(n + 1)
    OBVIOUS
  <2>1. n + 1 \in 1..N /\ (n + 1) - 1 = n /\ Reached(n)
    BY <1>1, <1>11
  <2>2. state[n + 1] = Placed(state[n], items[n + 1], kind) /\ items[n + 1] \in E
    <3> HIDE DEF N
    <3> QED
      BY <1>1, <1>9, <2>1
  <2>3. SubSeq(items, 1, n + 1) = Append(SubSeq(items, 1, n), items[n + 1])
    BY <2>1
  <2>4. /\ state[n + 1] \in S
        /\ state[n + 1].pending # <<>>
        /\ IsGrouping(state[n + 1], kind)
        /\ ShownBy(state[n + 1]) = Append(ShownBy(state[n]), items[n + 1])
    <3> DEFINE before == state[n]
               item == items[n + 1]
    <3>1. before \in Accs(E) /\ IsGrouping(before, kind) /\ item \in E
      BY <2>1, <2>2
    <3> HIDE DEF before, item
    <3>2. /\ Placed(before, item, kind) \in Accs(E)
          /\ Placed(before, item, kind).pending # <<>>
          /\ IsGrouping(Placed(before, item, kind), kind)
          /\ ShownBy(Placed(before, item, kind)) = Append(ShownBy(before), item)
      BY <3>1, PlacedKeepsGrouping
    <3> QED
      BY <2>2, <3>2 DEF before, item
  <2> HIDE DEF S
  <2> QED
    BY <2>1, <2>3, <2>4
<1>12. Reached(N)
  <2>1. N \in T
    <3> HIDE DEF T, N
    <3>1. 0 \in T
      BY <1>10 DEF T
    <3> QED
      BY <1>1, <1>11, <3>1, Induction
  <2> QED
    BY <1>1, <2>1
<1> DEFINE done == end.done
           pending == end.pending
           groups == Grouped(items, kind)
<1>13. done \in Seq(Seq(E)) /\ pending \in Seq(E) /\ FlattenSeq(done) \o pending = items
  <2>1. SubSeq(items, 1, N) = items
    OBVIOUS
  <2> QED
    BY <1>12, <2>1 DEF Accs, ShownBy
<1>14. FlattenSeq(done) \in Seq(E)
  BY <1>13, FlattenType
<1>15. CASE pending = <<>>
  <2>1. done = <<>> /\ groups = <<>>
    BY <1>8, <1>12, <1>15 DEF IsGrouping
  <2>2. items = <<>>
    BY <1>13, <1>15, <2>1, FlattenEmpty
  <2>3. groups \in Seq(Seq(E)) /\ Len(groups) = 0 /\ FlattenSeq(groups) = items
    <3> HIDE DEF groups
    <3> QED
      BY <2>1, <2>2, FlattenEmpty
  <2> QED
    BY <2>2, <2>3
<1>16. CASE pending # <<>>
  <2>1. groups = Append(done, pending)
    BY <1>8, <1>16
  <2>2. groups \in Seq(Seq(E)) /\ groups # <<>> /\ Len(groups) = Len(done) + 1
    BY <1>13, <2>1
  <2>3. FlattenSeq(groups) = items
    BY <1>13, <2>1, FlattenAppend
  <2>4. \A k \in 1..Len(done) : groups[k] = done[k]
    BY <1>13, <2>1
  <2>5. groups[Len(done) + 1] = pending
    BY <1>13, <2>1
  <2>6. ASSUME NEW k \in 1..Len(groups) PROVE IsFilled(groups[k], kind)
    <3>1. CASE k \in 1..Len(done)
      BY <1>12, <2>4, <3>1 DEF IsGrouping
    <3>2. CASE k = Len(done) + 1
      BY <1>12, <1>16, <2>5, <3>2 DEF IsGrouping
    <3>3. Len(done) \in Nat
      BY <1>13
    <3> HIDE DEF groups, done
    <3> QED
      BY <2>2, <3>1, <3>2, <3>3
  <2>7. ASSUME NEW k \in 1..(Len(groups) - 1)
        PROVE  ~Fits(groups[k], groups[k + 1][1], kind)
    <3>1. k \in 1..Len(done) /\ k + 1 \in 1..(Len(done) + 1)
      BY <1>13, <2>2
    <3>2. groups[k + 1] = Following(end, k)
      <4>1. CASE k < Len(done)
        <5>1. k + 1 \in 1..Len(done)
          BY <1>13, <3>1, <4>1
        <5> QED
          BY <2>4, <4>1, <5>1 DEF Following
      <4>2. CASE k = Len(done)
        BY <1>13, <2>5, <4>2 DEF Following
      <4> QED
        BY <1>13, <3>1, <4>1, <4>2
    <3> HIDE DEF groups, end
    <3> QED
      BY <1>12, <2>4, <3>1, <3>2 DEF IsGrouping, end
  <2> QED
    BY <2>2, <2>3, <2>6, <2>7
<1> QED
  BY <1>15, <1>16

-----------------------------------------------------------------------------
(* Pages, sections and chunks.                                              *)

PageRecords == [number : Nat, units : Seq(Units)]

(* What chunk_document puts into chunks.                                    *)
PagesShown(t, count) ==
  LET pages == PagesOf(t, count)
  IN IF IsLongFlat(t, count) THEN Sections(pages[1]) ELSE pages

LEMMA TextType ==
  ASSUME NEW t \in Texts
  PROVE  /\ t.pages \in Seq(Seq(Units)) /\ Len(t.pages) \in Nat \ {0}
         /\ t.split = "NONE" => Len(t.pages) = 1
<1>1. t \in [pages : Seq(Seq(Units)) \ {<<>>}, split : Splits,
             garbled : BOOLEAN, preamble : SUBSET Lines, outside : Nat]
  BY TextsAreSplit
<1>2. t.pages \in Seq(Seq(Units)) \ {<<>>}
  BY <1>1
<1> QED
  BY <1>2, TextsAreSplit

LEMMA UnitLengths ==
  ASSUME NEW units \in Seq(Units)
  PROVE  [i \in DOMAIN units |-> units[i].length] \in Seq(Nat)
<1> DEFINE size == [unit \in Units |-> unit.length]
<1>1. size \in [Units -> Nat]
  BY DEF Units
<1>2. [i \in DOMAIN units |-> size[units[i]]] \in Seq(Nat)
  <2> HIDE DEF size
  <2> QED
    BY <1>1, SizesType
<1>3. [i \in DOMAIN units |-> size[units[i]]] = [i \in DOMAIN units |-> units[i].length]
  OBVIOUS
<1> QED
  BY <1>2, <1>3

LEMMA PageLengthType ==
  ASSUME NEW page \in PageRecords
  PROVE  PageLength(page) \in Nat
<1>1. page.units \in Seq(Units)
  BY DEF PageRecords
<1>2. [i \in DOMAIN page.units |-> page.units[i].length] \in Seq(Nat)
  BY <1>1, UnitLengths
<1> QED
  BY <1>2, JoinedType DEF PageLength

(* There is a page, numbered from 1, for every page of the text, and empty  *)
(* ones after them.                                                         *)
LEMMA PagesOfText ==
  ASSUME NEW t \in Texts, NEW count \in Estimates
  PROVE  /\ PagesOf(t, count) \in Seq(PageRecords) /\ PagesOf(t, count) # <<>>
         /\ Len(PagesOf(t, count)) >= Len(t.pages)
         /\ ~HasPageNumbers(t, count) => Len(PagesOf(t, count)) = 1
         /\ \A n \in 1..Len(PagesOf(t, count)) :
              PagesOf(t, count)[n] =
                [number |-> n, units |-> IF n <= Len(t.pages) THEN t.pages[n] ELSE <<>>]
<1> DEFINE P == Len(t.pages)
           M == IF HasPageNumbers(t, count) THEN PageCount(t, count) ELSE P
           page(n) == [number |-> n, units |-> IF n <= P THEN t.pages[n] ELSE <<>>]
           pages == [n \in 1..M |-> page(n)]
<1>1. P \in Nat \ {0} /\ count \in Nat \ {0} /\ t.pages \in Seq(Seq(Units))
  BY TextType, EstimatesArePositive
<1>2. M \in Nat \ {0} /\ M >= P
  BY <1>1 DEF PageCount
<1>3. ~HasPageNumbers(t, count) => M = 1
  BY TextType DEF HasPageNumbers
<1>4. ASSUME NEW n \in 1..M PROVE page(n) \in PageRecords
  <2>1. (IF n <= P THEN t.pages[n] ELSE <<>>) \in Seq(Units)
    <3>1. CASE n <= P
      <4>1. n \in 1..P
        BY <1>1, <1>2, <3>1
      <4> QED
        BY <1>1, <3>1, <4>1
    <3>2. CASE ~(n <= P)
      BY <3>2
    <3> QED
      BY <3>1, <3>2
  <2> QED
    BY <1>2, <2>1 DEF PageRecords
<1>5. pages \in [1..M -> PageRecords]
  BY <1>4
<1>6. PagesOf(t, count) = pages
  BY DEF PagesOf
<1>7. \A n \in 1..M : pages[n] = page(n)
  OBVIOUS
<1>8. pages \in Seq(PageRecords) /\ Len(pages) = M /\ pages # <<>>
  <2> HIDE DEF pages, M
  <2> QED
    BY <1>2, <1>5
<1> HIDE DEF pages, M
<1> QED
  BY <1>2, <1>3, <1>6, <1>7, <1>8

(* The lengths of units, or of pages: those before the last, and the last.  *)
LEMMA UnitLengthsSplit ==
  ASSUME NEW units \in Seq(Units), units # <<>>
  PROVE  [i \in DOMAIN units |-> units[i].length] =
           Append([i \in DOMAIN Front(units) |-> Front(units)[i].length],
                  Last(units).length)
<1> DEFINE size == [unit \in Units |-> unit.length]
           front == Front(units)
           last == Last(units)
<1>1. size \in [Units -> Nat]
  BY DEF Units
<1>2. front \in Seq(Units) /\ last \in Units
  BY SplitLast
<1>3. \A unit \in Units : size[unit] = unit.length
  OBVIOUS
<1> HIDE DEF size, front, last
<1>4. [i \in DOMAIN units |-> size[units[i]]] =
        Append([i \in DOMAIN front |-> size[front[i]]], size[last])
  BY <1>1, SizesSplit DEF front, last
<1>5. /\ [i \in DOMAIN units |-> size[units[i]]] = [i \in DOMAIN units |-> units[i].length]
      /\ [i \in DOMAIN front |-> size[front[i]]] = [i \in DOMAIN front |-> front[i].length]
      /\ size[last] = last.length
  BY <1>2, <1>3
<1> QED
  BY <1>4, <1>5 DEF front, last

LEMMA PageLengthsSplit ==
  ASSUME NEW pages \in Seq(PageRecords), pages # <<>>
  PROVE  /\ [i \in DOMAIN Front(pages) |-> PageLength(Front(pages)[i])] \in Seq(Nat)
         /\ PageLength(Last(pages)) \in Nat
         /\ [i \in DOMAIN pages |-> PageLength(pages[i])] =
              Append([i \in DOMAIN Front(pages) |-> PageLength(Front(pages)[i])],
                     PageLength(Last(pages)))
<1> DEFINE size == [page \in PageRecords |-> PageLength(page)]
           front == Front(pages)
           last == Last(pages)
<1>1. size \in [PageRecords -> Nat]
  BY PageLengthType
<1>2. front \in Seq(PageRecords) /\ last \in PageRecords
  BY SplitLast
<1>3. \A page \in PageRecords : size[page] = PageLength(page)
  OBVIOUS
<1> HIDE DEF size, front, last
<1>4. [i \in DOMAIN pages |-> size[pages[i]]] =
        Append([i \in DOMAIN front |-> size[front[i]]], size[last])
  BY <1>1, SizesSplit DEF front, last
<1>5. /\ [i \in DOMAIN pages |-> size[pages[i]]] = [i \in DOMAIN pages |-> PageLength(pages[i])]
      /\ [i \in DOMAIN front |-> size[front[i]]] = [i \in DOMAIN front |-> PageLength(front[i])]
      /\ size[last] = PageLength(last)
  BY <1>2, <1>3
<1>6. [i \in DOMAIN front |-> size[front[i]]] \in Seq(Nat) /\ PageLength(last) \in Nat
  BY <1>1, <1>2, SizesType, PageLengthType
<1> QED
  BY <1>4, <1>5, <1>6 DEF front, last

(* A group of units that fit in a chunk fits in a chunk.                    *)
LEMMA FilledUnitsFit ==
  ASSUME NEW units \in Seq(Units), IsFilled(units, "UNITS"),
         \A i \in DOMAIN units : units[i].length <= MaxCharacters
  PROVE  JoinedLength([i \in DOMAIN units |-> units[i].length]) <= MaxCharacters
<1> DEFINE front == Front(units)
           lengths == [i \in DOMAIN front |-> front[i].length]
           size == Last(units).length
<1>1. units # <<>> /\ Len(units) \in Nat \ {0}
  BY DEF IsFilled
<1>2. front \in Seq(Units) /\ Len(front) = Len(units) - 1
  BY <1>1, SplitLast
<1>3. lengths \in Seq(Nat) /\ (lengths = <<>> <=> Len(units) = 1)
  <2>1. DOMAIN front = 1..Len(front)
    BY <1>2
  <2> HIDE DEF front
  <2>2. lengths \in Seq(Nat) /\ DOMAIN lengths = DOMAIN front
    BY <1>2, UnitLengths
  <2> HIDE DEF lengths
  <2> QED
    BY <1>1, <1>2, <2>1, <2>2
<1>4. size \in Nat /\ size <= MaxCharacters
  <2>1. Last(units) = units[Len(units)] /\ Len(units) \in DOMAIN units
    BY <1>1 DEF Last
  <2>2. units[Len(units)] \in Units
    BY <1>1
  <2> QED
    BY <2>1, <2>2 DEF Units
<1>5. JoinedLength([i \in DOMAIN units |-> units[i].length]) = JoinedLength(Append(lengths, size))
  BY <1>1, UnitLengthsSplit
<1>6. JoinedLength(Append(lengths, size)) =
        IF lengths = <<>> THEN size ELSE JoinedLength(lengths) + Separator + size
  <2> HIDE DEF lengths, size
  <2> QED
    BY <1>3, <1>4, JoinedAppend
<1>7. CASE Len(units) = 1
  <2> HIDE DEF lengths, size
  <2> QED
    BY <1>3, <1>4, <1>5, <1>6, <1>7
<1>8. CASE Len(units) # 1
  <2>0. Len(units) > 1
    <3> DEFINE n == Len(units)
    <3>1. n \in Nat \ {0} /\ n # 1
      BY <1>1, <1>8
    <3> HIDE DEF n
    <3>2. n > 1
      BY <3>1
    <3> QED
      BY <3>2 DEF n
  <2>1. UnitFits(front, Last(units))
    BY <2>0 DEF IsFilled, Fits
  <2>2. JoinedLength(lengths) + Separator + size <= MaxCharacters
    BY <2>1 DEF UnitFits
  <2> HIDE DEF lengths, size
  <2> QED
    BY <1>3, <1>5, <1>6, <1>8, <2>2
<1> QED
  BY <1>7, <1>8

(* Sections show the units of their page, in order, and fit in a chunk when *)
(* every unit does.                                                         *)
LEMMA SectionsOfPage ==
  ASSUME NEW page \in PageRecords
  PROVE  /\ Sections(page) \in Seq(PageRecords)
         /\ page.units # <<>> => Sections(page) # <<>>
         /\ UnitsOf(Sections(page)) = page.units
<1> DEFINE groups == Grouped(page.units, "UNITS")
           sections == [i \in DOMAIN groups |-> [number |-> page.number, units |-> groups[i]]]
<1>1. page.units \in Seq(Units) /\ page.number \in Nat
  BY DEF PageRecords
<1>2. /\ groups \in Seq(Seq(Units)) /\ FlattenSeq(groups) = page.units
      /\ page.units # <<>> => groups # <<>>
  BY <1>1, GroupedItems
<1>3. Sections(page) = sections
  BY DEF Sections
<1> HIDE DEF groups
<1> DEFINE N == Len(groups)
<1>4. N \in Nat /\ DOMAIN groups = 1..N /\ \A i \in 1..N : groups[i] \in Seq(Units)
  BY <1>2
<1>5. sections \in [1..N -> PageRecords]
  BY <1>1, <1>4 DEF PageRecords
<1>6. DOMAIN sections = 1..N /\ \A i \in 1..N : sections[i].units = groups[i]
  BY <1>4
<1> HIDE DEF sections
<1>7. sections \in Seq(PageRecords) /\ Len(sections) = N
  BY <1>4, <1>5
<1>8. [i \in DOMAIN sections |-> sections[i].units] = groups
  <2>1. groups = [i \in 1..N |-> groups[i]]
    BY <1>2
  <2> HIDE DEF N
  <2> QED
    BY <1>6, <2>1
<1>9. UnitsOf(sections) = page.units
  BY <1>2, <1>8 DEF UnitsOf
<1>10. page.units # <<>> => sections # <<>>
  BY <1>2, <1>7
<1> QED
  BY <1>3, <1>7, <1>9, <1>10

LEMMA SectionsFit ==
  ASSUME NEW page \in PageRecords,
         \A i \in DOMAIN page.units : page.units[i].length <= MaxCharacters,
         NEW i \in DOMAIN Sections(page)
  PROVE  PageLength(Sections(page)[i]) <= MaxCharacters
<1> DEFINE Short == {unit \in Units : unit.length <= MaxCharacters}
           units == page.units
           groups == Grouped(units, "UNITS")
<1>1. units \in Seq(Units)
  BY DEF PageRecords
<1>2. units \in Seq(Short)
  <2>1. \A n \in 1..Len(units) : units[n] \in Short
    BY <1>1
  <2>2. units = [n \in 1..Len(units) |-> units[n]] /\ Len(units) \in Nat
    BY <1>1
  <2> HIDE DEF Short, units
  <2>3. units \in [1..Len(units) -> Short]
    BY <2>1, <2>2
  <2> QED
    BY <2>2, <2>3
<1>3. /\ groups \in Seq(Seq(Short))
      /\ \A k \in 1..Len(groups) : IsFilled(groups[k], "UNITS")
  <2> HIDE DEF Short, units
  <2> QED
    BY <1>2, GroupedItems
<1>4. i \in DOMAIN groups /\ Sections(page)[i].units = groups[i]
  BY DEF Sections
<1> DEFINE group == groups[i]
<1>5. i \in 1..Len(groups)
  <2> HIDE DEF groups, Short
  <2> QED
    BY <1>3, <1>4
<1>6. group \in Seq(Short) /\ IsFilled(group, "UNITS")
  <2> HIDE DEF groups, Short
  <2> QED
    BY <1>3, <1>5
<1>7. group \in Seq(Units) /\ \A n \in DOMAIN group : group[n].length <= MaxCharacters
  <2> HIDE DEF group
  <2>1. group \in Seq(Units)
    BY <1>6
  <2>2. \A n \in DOMAIN group : group[n] \in Short
    <3> HIDE DEF Short
    <3> QED
      BY <1>6
  <2> QED
    BY <2>1, <2>2
<1>8. JoinedLength([n \in DOMAIN group |-> group[n].length]) <= MaxCharacters
  <2> HIDE DEF group
  <2> QED
    BY <1>6, <1>7, FilledUnitsFit
<1> QED
  BY <1>4, <1>8 DEF PageLength

(* What goes into chunks: there is something, and it is the text.           *)
LEMMA ShownPages ==
  ASSUME NEW t \in Texts, NEW count \in Estimates
  PROVE  /\ PagesShown(t, count) \in Seq(PageRecords)
         /\ PagesShown(t, count) # <<>>
         /\ UnitsOf(PagesShown(t, count)) = FlattenSeq(t.pages)
<1> DEFINE pages == PagesOf(t, count)
           P == Len(t.pages)
           M == Len(pages)
<1>1. t.pages \in Seq(Seq(Units)) /\ P \in Nat \ {0} /\ (t.split = "NONE" => P = 1)
  BY TextType
<1>2. /\ pages \in Seq(PageRecords) /\ pages # <<>> /\ M >= P
      /\ ~HasPageNumbers(t, count) => M = 1
      /\ \A n \in 1..M :
           pages[n] = [number |-> n, units |-> IF n <= P THEN t.pages[n] ELSE <<>>]
  BY PagesOfText
<1>3. CASE IsLongFlat(t, count)
  <2>1. ~HasPageNumbers(t, count) /\ PageLength(pages[1]) > MaxCharacters
    BY <1>3 DEF IsLongFlat
  <2>2. M = 1 /\ P = 1
    BY <1>1, <1>2, <2>1 DEF HasPageNumbers
  <2>3. pages[1] \in PageRecords /\ pages[1].units = t.pages[1]
    BY <1>2, <2>2
  <2>4. pages[1].units # <<>>
    <3> SUFFICES ASSUME pages[1].units = <<>> PROVE FALSE
      OBVIOUS
    <3>1. [i \in DOMAIN pages[1].units |-> pages[1].units[i].length] = <<>>
      OBVIOUS
    <3>2. PageLength(pages[1]) = 0
      BY <3>1 DEF PageLength, JoinedLength
    <3> QED
      BY <2>1, <3>2, LimitsArePositive
  <2>5. FlattenSeq(t.pages) = t.pages[1]
    <3>1. t.pages = <<t.pages[1]>> /\ t.pages[1] \in Seq(Units)
      BY <1>1, <2>2
    <3> QED
      BY <3>1, FlattenOne
  <2>6. PagesShown(t, count) = Sections(pages[1])
    BY <1>3 DEF PagesShown
  <2> HIDE DEF pages
  <2> QED
    BY <2>3, <2>4, <2>5, <2>6, SectionsOfPage
<1>4. CASE ~IsLongFlat(t, count)
  <2>1. PagesShown(t, count) = pages
    BY <1>4 DEF PagesShown
  <2>2. [i \in DOMAIN pages |-> pages[i].units]
          = [i \in 1..M |-> IF i <= P THEN t.pages[i] ELSE <<>>]
    <3>1. DOMAIN pages = 1..M
      BY <1>2
    <3> HIDE DEF pages, M
    <3> QED
      BY <1>2, <3>1
  <2>3. FlattenSeq([i \in 1..M |-> IF i <= P THEN t.pages[i] ELSE <<>>])
          = FlattenSeq(t.pages)
    <3>1. M \in Nat
      BY <1>2
    <3> HIDE DEF M
    <3> QED
      BY <1>1, <1>2, <3>1, FlattenPadded
  <2> QED
    BY <1>2, <2>1, <2>2, <2>3 DEF UnitsOf
<1> QED
  BY <1>3, <1>4

(* chunk_document, for every text that passes the gate.                     *)
LEMMA ChunksOfText ==
  ASSUME NEW t \in Texts, NEW count \in Estimates
  PROVE  LET cs == Chunks(t, count)
         IN /\ cs \in Seq(Seq(PageRecords)) /\ cs # <<>>
            /\ FlattenSeq(cs) = PagesShown(t, count)
            /\ \A k \in 1..Len(cs) : IsFilled(cs[k], "PAGES")
            /\ \A k \in 1..(Len(cs) - 1) : ~PageFits(cs[k], cs[k + 1][1])
<1>1. Chunks(t, count) = Grouped(PagesShown(t, count), "PAGES")
  BY DEF Chunks, PagesShown
<1>2. PagesShown(t, count) \in Seq(PageRecords) /\ PagesShown(t, count) # <<>>
  BY ShownPages
<1>3. \A pending, page : Fits(pending, page, "PAGES") <=> PageFits(pending, page)
  BY DEF Fits
<1> QED
  BY <1>1, <1>2, <1>3, GroupedItems

Total(chunk) == TotalOf([i \in DOMAIN chunk |-> PageLength(chunk[i])])

(* A chunk with several pages is within the limits.                         *)
LEMMA FilledChunk ==
  ASSUME NEW chunk \in Seq(PageRecords), IsFilled(chunk, "PAGES")
  PROVE  /\ Len(chunk) \in Nat /\ Len(chunk) <= MaxPages
         /\ Total(chunk) \in Nat
         /\ Total(chunk) > MaxCharacters => Len(chunk) = 1
         /\ Len(chunk) = 1 => Total(chunk) = PageLength(chunk[1])
<1> DEFINE front == Front(chunk)
           lengths == [i \in DOMAIN front |-> PageLength(front[i])]
           size == PageLength(Last(chunk))
           n == Len(chunk)
<1>1. chunk # <<>> /\ n \in Nat \ {0}
  BY DEF IsFilled
<1>2. front \in Seq(PageRecords) /\ Len(front) = n - 1 /\ Last(chunk) = chunk[n]
  BY <1>1, SplitLast
<1>3. /\ lengths \in Seq(Nat) /\ size \in Nat
      /\ Total(chunk) = TotalOf(Append(lengths, size))
  BY <1>1, PageLengthsSplit DEF Total
<1>4. TotalOf(lengths) \in Nat /\ Total(chunk) = TotalOf(lengths) + size
  <2> HIDE DEF lengths, size
  <2> QED
    BY <1>3, TotalType, TotalAppend
<1>5. Total(chunk) \in Nat
  <2> HIDE DEF lengths, size
  <2> QED
    BY <1>3, <1>4
<1>6. CASE n = 1
  <2>1. TotalOf(lengths) = 0
    <3>1. lengths = <<>>
      BY <1>2, <1>6
    <3> QED
      BY <3>1, TotalEmpty
  <2>2. Total(chunk) = PageLength(chunk[1])
    <3>1. size = PageLength(chunk[1])
      BY <1>2, <1>6
    <3> HIDE DEF lengths, size
    <3> QED
      BY <1>3, <1>4, <2>1, <3>1
  <2> QED
    BY <1>5, <1>6, <2>2, LimitsArePositive
<1>7. CASE n # 1
  <2>1. n > 1
    <3> HIDE DEF n
    <3> QED
      BY <1>1, <1>7
  <2>2. PageFits(front, Last(chunk))
    BY <2>1 DEF IsFilled, Fits
  <2>3. Len(front) < MaxPages /\ TotalOf(lengths) + size <= MaxCharacters
    BY <2>2 DEF PageFits
  <2>4. n <= MaxPages
    <3> HIDE DEF n, front
    <3> QED
      BY <1>1, <1>2, <2>3, LimitsArePositive
  <2>5. ~(Total(chunk) > MaxCharacters)
    <3> HIDE DEF lengths, size
    <3> QED
      BY <1>4, <1>5, <2>3, LimitsArePositive
  <2> QED
    BY <1>1, <1>5, <1>7, <2>4, <2>5
<1> QED
  BY <1>6, <1>7

(* Sections that are shown are never too long for a chunk.                  *)
LEMMA ShownSectionsFit ==
  ASSUME NEW t \in Texts, NEW count \in Estimates,
         IsLongFlat(t, count), ~CannotChunk(t, count),
         NEW i \in 1..Len(PagesShown(t, count))
  PROVE  PageLength(PagesShown(t, count)[i]) <= MaxCharacters
<1> DEFINE page == PagesOf(t, count)[1]
           P == Len(t.pages)
<1>1. t.pages \in Seq(Seq(Units)) /\ P \in Nat \ {0}
  BY TextType
<1>2. 1 \in 1..Len(PagesOf(t, count)) /\ page \in PageRecords
        /\ page = [number |-> 1, units |-> IF 1 <= P THEN t.pages[1] ELSE <<>>]
  BY PagesOfText
<1>3. page.units = t.pages[1]
  <2>1. 1 <= P
    BY <1>1
  <2> QED
    BY <1>2, <2>1
<1>4. \A n \in DOMAIN page.units : page.units[n].length <= MaxCharacters
  <2>1. \A n \in DOMAIN t.pages[1] : ~(t.pages[1][n].length > MaxCharacters)
    BY DEF CannotChunk
  <2>2. \A n \in DOMAIN t.pages[1] : t.pages[1][n].length \in Nat
    <3>1. t.pages[1] \in Seq(Units)
      BY <1>1
    <3>2. \A unit \in Units : unit.length \in Nat
      BY DEF Units
    <3> QED
      BY <3>1, <3>2
  <2> QED
    BY <1>3, <2>1, <2>2, LimitsArePositive
<1>5. PagesShown(t, count) = Sections(page)
  BY DEF PagesShown
<1>6. i \in DOMAIN Sections(page)
  <2>1. Sections(page) \in Seq(PageRecords)
    BY <1>2, SectionsOfPage
  <2> HIDE DEF page
  <2> QED
    BY <1>5, <2>1
<1> QED
  BY <1>2, <1>4, <1>5, <1>6, SectionsFit

LEMMA ChunkedSectionsFit ==
  ASSUME NEW t \in Texts, NEW count \in Estimates,
         IsLongFlat(t, count), ~CannotChunk(t, count),
         NEW k \in 1..Len(Chunks(t, count)), Len(Chunks(t, count)[k]) = 1
  PROVE  PageLength(Chunks(t, count)[k][1]) <= MaxCharacters
<1> DEFINE Short == {page \in PageRecords : PageLength(page) <= MaxCharacters}
           shown == PagesShown(t, count)
           cs == Chunks(t, count)
<1>1. cs = Grouped(shown, "PAGES")
  BY DEF Chunks, PagesShown
<1>2. shown \in Seq(PageRecords)
  BY ShownPages
<1>3. \A i \in 1..Len(shown) : PageLength(shown[i]) <= MaxCharacters
  BY ShownSectionsFit
<1> HIDE DEF shown, cs
<1>4. shown \in Seq(Short)
  <2>1. \A i \in 1..Len(shown) : shown[i] \in Short
    BY <1>2, <1>3
  <2>2. shown = [i \in 1..Len(shown) |-> shown[i]] /\ Len(shown) \in Nat
    BY <1>2
  <2> HIDE DEF Short
  <2>3. shown \in [1..Len(shown) -> Short]
    BY <2>1, <2>2
  <2> QED
    BY <2>2, <2>3
<1>5. cs \in Seq(Seq(Short))
  <2> HIDE DEF Short
  <2> QED
    BY <1>1, <1>4, GroupedItems
<1>6. cs[k] \in Seq(Short) /\ Len(cs[k]) = 1
  <2> HIDE DEF Short
  <2>1. k \in 1..Len(cs) /\ Len(cs[k]) = 1
    BY DEF cs
  <2> QED
    BY <1>5, <2>1
<1>7. cs[k][1] \in Short
  <2> HIDE DEF Short
  <2> QED
    BY <1>6
<1> QED
  BY <1>7 DEF cs

-----------------------------------------------------------------------------
(* What ChunksShowTheText and ChunksKeepLimits say of the chunks of a text. *)

LEMMA ChunksShow ==
  ASSUME NEW t \in Texts, NEW count \in Estimates
  PROVE  LET cs == Chunks(t, count)
         IN /\ cs # <<>>
            /\ UnitsOf(FlattenSeq(cs)) = FlattenSeq(t.pages)
            /\ ~IsLongFlat(t, count) => FlattenSeq(cs) = PagesOf(t, count)
            /\ \A k \in DOMAIN cs : cs[k] # <<>>
<1> DEFINE cs == Chunks(t, count)
<1>1. /\ cs \in Seq(Seq(PageRecords)) /\ cs # <<>>
      /\ FlattenSeq(cs) = PagesShown(t, count)
      /\ \A k \in 1..Len(cs) : IsFilled(cs[k], "PAGES")
  BY ChunksOfText
<1>2. UnitsOf(FlattenSeq(cs)) = FlattenSeq(t.pages)
  BY <1>1, ShownPages
<1>3. ~IsLongFlat(t, count) => FlattenSeq(cs) = PagesOf(t, count)
  BY <1>1 DEF PagesShown
<1>4. \A k \in DOMAIN cs : cs[k] # <<>>
  <2> HIDE DEF cs
  <2> QED
    BY <1>1 DEF IsFilled
<1> QED
  BY <1>1, <1>2, <1>3, <1>4

LEMMA ChunksKeep ==
  ASSUME NEW t \in Texts, NEW count \in Estimates, ~CannotChunk(t, count),
         NEW k \in 1..Len(Chunks(t, count))
  PROVE  LET cs == Chunks(t, count)
         IN /\ Len(cs[k]) <= MaxPages
            /\ Total(cs[k]) > MaxCharacters => Len(cs[k]) = 1 /\ ~IsLongFlat(t, count)
            /\ k < Len(cs) =>
                 \/ Len(cs[k]) = MaxPages
                 \/ Total(cs[k]) + PageLength(cs[k + 1][1]) > MaxCharacters
<1> DEFINE cs == Chunks(t, count)
<1>1. /\ cs \in Seq(Seq(PageRecords))
      /\ \A i \in 1..Len(cs) : IsFilled(cs[i], "PAGES")
      /\ \A i \in 1..(Len(cs) - 1) : ~PageFits(cs[i], cs[i + 1][1])
  BY ChunksOfText
<1> HIDE DEF cs
<1>2. k \in 1..Len(cs) /\ Len(cs) \in Nat
  BY <1>1 DEF cs
<1>3. cs[k] \in Seq(PageRecords) /\ IsFilled(cs[k], "PAGES")
  BY <1>1, <1>2
<1>4. /\ Len(cs[k]) \in Nat /\ Len(cs[k]) <= MaxPages
      /\ Total(cs[k]) \in Nat
      /\ Total(cs[k]) > MaxCharacters => Len(cs[k]) = 1
      /\ Len(cs[k]) = 1 => Total(cs[k]) = PageLength(cs[k][1])
  BY <1>3, FilledChunk
<1>5. ASSUME Total(cs[k]) > MaxCharacters PROVE ~IsLongFlat(t, count)
  <2>1. Len(cs[k]) = 1 /\ PageLength(cs[k][1]) > MaxCharacters
    BY <1>4, <1>5
  <2>2. PageLength(cs[k][1]) \in Nat
    BY <1>4, <2>1
  <2>3. IsLongFlat(t, count) => PageLength(cs[k][1]) <= MaxCharacters
    BY <2>1, ChunkedSectionsFit DEF cs
  <2> QED
    BY <2>1, <2>2, <2>3, LimitsArePositive
<1>6. ASSUME k < Len(cs)
      PROVE  \/ Len(cs[k]) = MaxPages
             \/ Total(cs[k]) + PageLength(cs[k + 1][1]) > MaxCharacters
  <2>1. k \in 1..(Len(cs) - 1) /\ k + 1 \in 1..Len(cs)
    BY <1>2, <1>6
  <2>2. ~PageFits(cs[k], cs[k + 1][1])
    BY <1>1, <2>1
  <2>3. PageLength(cs[k + 1][1]) \in Nat
    <3>1. cs[k + 1] \in Seq(PageRecords) /\ cs[k + 1] # <<>>
      BY <1>1, <2>1 DEF IsFilled
    <3>2. cs[k + 1][1] \in PageRecords
      BY <3>1
    <3> QED
      BY <3>2, PageLengthType
  <2>4. \/ ~(Len(cs[k]) < MaxPages)
        \/ ~(Total(cs[k]) + PageLength(cs[k + 1][1]) <= MaxCharacters)
    BY <2>2 DEF PageFits, Total
  <2> QED
    BY <1>4, <2>3, <2>4, LimitsArePositive
<1> QED
  BY <1>4, <1>5, <1>6 DEF cs

(* A chunk of a text with page numbers is made of the pages of the text.    *)
LEMMA ChunkPages ==
  ASSUME NEW t \in Texts, NEW count \in Estimates, ~IsLongFlat(t, count),
         NEW k \in 1..Len(Chunks(t, count)), NEW i \in 1..Len(Chunks(t, count)[k])
  PROVE  \E n \in 1..Len(PagesOf(t, count)) : Chunks(t, count)[k][i] = PagesOf(t, count)[n]
<1> DEFINE pages == PagesOf(t, count)
           E == {pages[n] : n \in 1..Len(pages)}
           cs == Chunks(t, count)
<1>1. pages \in Seq(E)
  <2>1. pages \in Seq(PageRecords)
    BY PagesOfText
  <2> HIDE DEF pages
  <2> QED
    BY <2>1
<1>2. cs = Grouped(pages, "PAGES")
  BY DEF Chunks
<1> HIDE DEF E, cs, pages
<1>3. cs \in Seq(Seq(E))
  BY <1>1, <1>2, GroupedItems
<1>4. cs[k] \in Seq(E)
  BY <1>3 DEF cs
<1>5. cs[k][i] \in E
  BY <1>4 DEF cs
<1> QED
  BY <1>5 DEF E, cs, pages

(* The pages of a chunk that quote a line are pages of the text that do.    *)
LEMMA QuotedPages ==
  ASSUME NEW t \in Texts, NEW count \in Estimates, HasPageNumbers(t, count),
         NEW k \in 1..Len(Chunks(t, count)), NEW i \in 1..Len(Chunks(t, count)[k]),
         NEW source, source \in PageLines(Chunks(t, count)[k][i])
  PROVE  LET n == Chunks(t, count)[k][i].number
         IN n \in DOMAIN t.pages /\ \E u \in DOMAIN t.pages[n] : source \in t.pages[n][u].lines
<1> DEFINE page == Chunks(t, count)[k][i]
           pages == PagesOf(t, count)
<1>1. ~IsLongFlat(t, count)
  BY DEF IsLongFlat
<1>2. PICK n \in 1..Len(pages) : page = pages[n]
  BY <1>1, ChunkPages
<1>3. page = [number |-> n, units |-> IF n <= Len(t.pages) THEN t.pages[n] ELSE <<>>]
  <2>1. pages[n] = [number |-> n, units |-> IF n <= Len(t.pages) THEN t.pages[n] ELSE <<>>]
    BY PagesOfText
  <2> QED
    BY <1>2, <2>1
<1>4. n \in Nat \ {0}
  <2>1. pages \in Seq(PageRecords)
    BY PagesOfText
  <2> HIDE DEF pages
  <2> QED
    BY <2>1
<1> HIDE DEF page
<1>5. PICK u \in DOMAIN page.units : source \in page.units[u].lines
  BY DEF PageLines, page
<1>6. t.pages \in Seq(Seq(Units))
  BY TextType
<1>7. n <= Len(t.pages)
  BY <1>3, <1>5
<1> QED
  BY <1>3, <1>4, <1>5, <1>6, <1>7 DEF page

-----------------------------------------------------------------------------
(* The inductive invariant.                                                 *)

Ids == Seq(Nat \cup Names)

Claims == [id : Ids, fact : Facts, source : Lines, pages : SUBSET Nat, chunk : Nat]

(* Before the text is there, nothing is; after, the chunks are its chunks.  *)
ChunksAreOfText ==
  /\ stage \in {"CONVERT", "OCR"} =>
       chunks = <<>> /\ asked = 0 /\ merged = <<>> /\ reported = {}
  /\ chunks # <<>> =>
       /\ text \in Texts
       /\ chunks = Chunks(text, estimate)
       /\ ~CannotChunk(text, estimate)

(* A claim is quoted on a page of its chunk, and keeps those pages.         *)
ClaimsAreQuoted ==
  \A i \in DOMAIN merged :
    /\ PagesQuoting(merged[i].chunk, merged[i].source) # {}
    /\ merged[i].pages = Provenance(merged[i].chunk, merged[i].source)

ReportedIsMerged ==
  \A f \in reported : f.chunk \in 1..asked /\ \E i \in DOMAIN merged :
    /\ merged[i].fact = f.fact /\ merged[i].source = f.source
    /\ merged[i].pages = Provenance(f.chunk, f.source)

(* An identifier is a name, or a name behind the number of its chunk: a     *)
(* renamed claim can only meet one renamed for the same chunk.              *)
IsPlain(id) == Len(id) = 1
IsRenamed(id, k) == Len(id) = 2 /\ id[1] = k

IdsTellChunks(claims) ==
  /\ \A i, j \in DOMAIN claims : claims[i].id = claims[j].id => i = j
  /\ \A i \in DOMAIN claims :
       IsPlain(claims[i].id) \/ IsRenamed(claims[i].id, claims[i].chunk)

IntakeInv ==
  /\ TypeOK
  /\ merged \in Seq(Claims)
  /\ ChunksAreOfText
  /\ ClaimsAreQuoted
  /\ ReportedIsMerged
  /\ ~prefixed => IdsTellChunks(merged)
  /\ stage = "COMPARED" => GraphAccepts(merged)

-----------------------------------------------------------------------------
(* Merging an answer.                                                       *)

LEMMA AnswersAreSequences ==
  ASSUME NEW answer \in Answers
  PROVE  /\ answer \in Seq(Answered)
         /\ DOMAIN answer = 1..Len(answer) /\ Len(answer) \in Nat
<1>1. answer \in UNION {[1..m -> Answered] : m \in 0..MaxClaims}
  BY DEF Answers, BoundedSeq, SeqOf
<1>2. PICK m \in 0..MaxClaims : answer \in [1..m -> Answered]
  BY <1>1
<1>3. m \in Nat
  BY <1>2, MaxClaimsIsNumber
<1>4. answer \in Seq(Answered)
  <2> HIDE DEF Answered
  <2> QED
    BY <1>2, <1>3
<1> QED
  BY <1>4

LEMMA ProvenanceType ==
  ASSUME chunks \in Seq(Seq(PageRecords)), NEW k \in 1..Len(chunks), NEW source
  PROVE  Provenance(k, source) \in SUBSET Nat
<1>1. chunks[k] \in Seq(PageRecords)
  OBVIOUS
<1>2. \A i \in DOMAIN chunks[k] : chunks[k][i].number \in Nat
  <2>1. \A page \in PageRecords : page.number \in Nat
    BY DEF PageRecords
  <2> QED
    BY <1>1, <2>1
<1> QED
  BY <1>2 DEF Provenance, PagesQuoting

(* The claim WithClaim adds.                                                *)
Added(k, claims, claim) ==
  [id |-> MergedId(k, claim.id, UsedIds(claims)), fact |-> claim.fact,
   source |-> claim.source, pages |-> Provenance(k, claim.source), chunk |-> k]

LEMMA AddedType ==
  ASSUME chunks \in Seq(Seq(PageRecords)), NEW k \in 1..Len(chunks), k \in Nat,
         NEW claims \in Seq(Claims), NEW claim \in Answered
  PROVE  Added(k, claims, claim) \in Claims
<1> DEFINE pages == Provenance(k, claim.source)
           id == MergedId(k, claim.id, UsedIds(claims))
<1>1. pages \in SUBSET Nat
  BY ProvenanceType
<1>2. claim.id \in AnswerIds /\ claim.fact \in Facts /\ claim.source \in Lines
  BY DEF Answered
<1>3. id \in Ids
  <2>1. claim.id \in Ids
    BY <1>2, IdsAreSequences DEF Ids
  <2>2. <<k>> \in Ids
    BY DEF Ids
  <2>3. <<k>> \o claim.id \in Ids
    BY <2>1, <2>2 DEF Ids
  <2> QED
    BY <2>1, <2>3 DEF MergedId
<1> HIDE DEF id, pages
<1>4. [id |-> id, fact |-> claim.fact, source |-> claim.source,
       pages |-> pages, chunk |-> k] \in Claims
  BY <1>1, <1>2, <1>3 DEF Claims
<1> QED
  BY <1>4 DEF Added, id, pages

LEMMA WithClaimAdds ==
  ASSUME NEW k, NEW claims, NEW claim
  PROVE  \/ /\ WithClaim(k, claims, claim) = claims
            /\ \E i \in DOMAIN claims :
                 SameClaim(claims[i], claim, Provenance(k, claim.source))
         \/ WithClaim(k, claims, claim) = Append(claims, Added(k, claims, claim))
BY DEF WithClaim, Added

LEMMA WithClaimType ==
  ASSUME chunks \in Seq(Seq(PageRecords)), NEW k \in 1..Len(chunks), k \in Nat,
         NEW claims \in Seq(Claims), NEW claim \in Answered
  PROVE  WithClaim(k, claims, claim) \in Seq(Claims)
<1>1. Added(k, claims, claim) \in Claims
  BY AddedType
<1>2. Append(claims, Added(k, claims, claim)) \in Seq(Claims)
  BY <1>1
<1> QED
  BY <1>2, WithClaimAdds

(* Merge, as the run over the claims of an answer.                          *)
MergeRun(acc, k, claims, answer) ==
  /\ acc \in [0..Len(answer) -> Seq(Claims)]
  /\ acc[0] = claims
  /\ \A n \in 1..Len(answer) : acc[n] = WithClaim(k, acc[n - 1], answer[n])
  /\ Merge(k, claims, answer) = acc[Len(answer)]

LEMMA MergeIsRun ==
  ASSUME chunks \in Seq(Seq(PageRecords)), NEW k \in 1..Len(chunks), k \in Nat,
         NEW claims \in Seq(Claims), NEW answer \in Seq(Answered)
  PROVE  \E acc : MergeRun(acc, k, claims, answer)
<1> DEFINE N == Len(answer)
           S == Seq(Claims)
           step == [p \in S \X (1..N) |-> WithClaim(k, p[1], answer[p[2]])]
           Equation(h) ==
             h = [n \in 0..N |-> IF n = 0 THEN claims ELSE WithClaim(k, h[n - 1], answer[n])]
           acc == CHOOSE h : Equation(h)
<1>1. N \in Nat /\ claims \in S /\ \A n \in 1..N : answer[n] \in Answered
  <2> HIDE DEF Answered
  <2> QED
    OBVIOUS
<1>0. ASSUME NEW cs \in S, NEW claim \in Answered PROVE WithClaim(k, cs, claim) \in S
  <2> HIDE DEF step, Equation
  <2> QED
    BY WithClaimType
<1>2. step \in StepsOver(S, N)
  <2>1. \A cs \in S, n \in 1..N : WithClaim(k, cs, answer[n]) \in S
    <3> HIDE DEF N, S
    <3> QED
      BY <1>0, <1>1
  <2> HIDE DEF N, S
  <2> QED
    BY <2>1 DEF StepsOver
<1>3. \E f \in RunsOver(S, N) : FollowsSteps(f, N, claims, step)
  <2> HIDE DEF step, N, S
  <2> QED
    BY <1>1, <1>2, RecursionExists
<1>4. PICK f \in [0..N -> S] :
        f[0] = claims /\ \A n \in 1..N : f[n] = step[<<f[n - 1], n>>]
  BY <1>3 DEF RunsOver, FollowsSteps
<1>5. ASSUME NEW n \in 1..N PROVE f[n] = WithClaim(k, f[n - 1], answer[n])
  <2>1. n - 1 \in 0..N
    BY <1>1
  <2>2. f[n - 1] \in S
    BY <1>4, <2>1
  <2> HIDE DEF S
  <2> QED
    BY <1>4, <2>2
<1>6. Equation(f)
  <2> HIDE DEF S, N
  <2> QED
    BY <1>4, <1>5
<1>7. Equation(acc)
  <2> HIDE DEF Equation
  <2> QED
    BY <1>6, Zenon
<1>8. Merge(k, claims, answer) = acc[N]
  BY DEF Merge
<1> HIDE DEF acc
<1>9. acc[0] = claims /\ \A n \in 1..N : acc[n] = WithClaim(k, acc[n - 1], answer[n])
  <2>1. 0 \in 0..N /\ \A n \in 1..N : n \in 0..N /\ n # 0
    BY <1>1
  <2> HIDE DEF N
  <2> QED
    BY <1>7, <2>1
<1>10. NeverPart(f, acc, N)
  <2> HIDE DEF N, S
  <2> QED
    BY <1>4, <1>5, <1>9 DEF NeverPart
<1>11. \A n \in 0..N : f[n] = acc[n]
  <2>1. N \in Nat
    BY <1>1
  <2> HIDE DEF N, S
  <2> QED
    BY <1>10, <2>1, RunsAgree, Zenon
<1>12. acc \in [0..N -> S]
  <2>1. acc = [n \in 0..N |-> acc[n]]
    <3> HIDE DEF N
    <3> QED
      BY <1>7
  <2>2. \A n \in 0..N : acc[n] \in S
    <3> HIDE DEF N, S
    <3> QED
      BY <1>4, <1>11
  <2> HIDE DEF N, S
  <2> QED
    BY <2>1, <2>2
<1> QED
  BY <1>8, <1>9, <1>12 DEF MergeRun

(* What merging the first n claims of an answer has made of the claims:     *)
(* those that were there are where they were, each claim of the answer is   *)
(* there or something that says the same, and what was added comes from it. *)
SaysTheSame(m, k, claim) == SameClaim(m, claim, Provenance(k, claim.source))

IsMerged(now, k, claims, answer, n) ==
  /\ Len(claims) <= Len(now)
  /\ \A i \in 1..Len(claims) : now[i] = claims[i]
  /\ \A j \in 1..n : \E i \in 1..Len(now) : SaysTheSame(now[i], k, answer[j])
  /\ \A i \in (Len(claims) + 1)..Len(now) :
       now[i].chunk = k /\ \E j \in 1..n : SaysTheSame(now[i], k, answer[j])

LEMMA WithClaimKeepsMerged ==
  ASSUME chunks \in Seq(Seq(PageRecords)), NEW k \in 1..Len(chunks), k \in Nat,
         NEW claims \in Seq(Claims), NEW answer \in Seq(Answered),
         NEW n \in Nat, n + 1 <= Len(answer),
         NEW now \in Seq(Claims), IsMerged(now, k, claims, answer, n)
  PROVE  IsMerged(WithClaim(k, now, answer[n + 1]), k, claims, answer, n + 1)
<1> DEFINE claim == answer[n + 1]
           added == Added(k, now, claim)
           next == WithClaim(k, now, claim)
<1>1. claim \in Answered
  <2> HIDE DEF Answered
  <2> QED
    OBVIOUS
<1>2. added \in Claims
  BY <1>1, AddedType
<1>3. SaysTheSame(added, k, claim) /\ added.chunk = k
  BY DEF Added, SaysTheSame, SameClaim
<1>4. \A j \in 1..(n + 1) : j \in 1..n \/ j = n + 1
  OBVIOUS
<1>5. Len(claims) \in Nat /\ Len(now) \in Nat
  OBVIOUS
<1>6. CASE \E i \in DOMAIN now : SameClaim(now[i], claim, Provenance(k, claim.source))
  <2>1. next = now
    BY <1>6 DEF WithClaim
  <2>2. PICK q \in 1..Len(now) : SaysTheSame(now[q], k, claim)
    <3>1. PICK p \in DOMAIN now : SameClaim(now[p], claim, Provenance(k, claim.source))
      BY <1>6, Zenon
    <3>2. SaysTheSame(now[p], k, claim)
      BY <3>1, Zenon DEF SaysTheSame
    <3>3. p \in 1..Len(now)
      OBVIOUS
    <3> QED
      BY <3>2, <3>3, Zenon
  <2>3. ASSUME NEW j \in 1..(n + 1)
        PROVE  \E h \in 1..Len(now) : SaysTheSame(now[h], k, answer[j])
    <3>1. CASE j = n + 1
      BY <3>1, <2>2
    <3>2. CASE j \in 1..n
      BY <3>2 DEF IsMerged
    <3> QED
      BY <3>1, <3>2, <1>4
  <2>4. ASSUME NEW i \in (Len(claims) + 1)..Len(now)
        PROVE  now[i].chunk = k /\ \E j \in 1..(n + 1) : SaysTheSame(now[i], k, answer[j])
    <3>1. now[i].chunk = k /\ \E j \in 1..n : SaysTheSame(now[i], k, answer[j])
      BY DEF IsMerged
    <3> QED
      BY <3>1
  <2>5. Len(claims) <= Len(now) /\ \A i \in 1..Len(claims) : now[i] = claims[i]
    BY DEF IsMerged
  <2>6. IsMerged(now, k, claims, answer, n + 1)
    BY <2>3, <2>4, <2>5 DEF IsMerged
  <2> HIDE DEF next
  <2> QED
    BY <2>1, <2>6 DEF next
<1>7. CASE next = Append(now, added)
  <2> HIDE DEF next, added
  <2>1. /\ Len(next) = Len(now) + 1 /\ next[Len(now) + 1] = added
        /\ \A i \in 1..Len(now) : next[i] = now[i]
    BY <1>2, <1>5, <1>7
  <2>2. \A j \in 1..(n + 1) : \E i \in 1..Len(next) : SaysTheSame(next[i], k, answer[j])
    <3>1. Len(now) + 1 \in 1..Len(next) /\ SaysTheSame(next[Len(now) + 1], k, claim)
      BY <2>1, <1>3, <1>5
    <3>2. ASSUME NEW j \in 1..n
          PROVE  \E i \in 1..Len(next) : SaysTheSame(next[i], k, answer[j])
      <4>1. PICK i \in 1..Len(now) : SaysTheSame(now[i], k, answer[j])
        BY DEF IsMerged
      <4>2. i \in 1..Len(next) /\ next[i] = now[i]
        BY <2>1, <1>5
      <4> QED
        BY <4>1, <4>2
    <3> QED
      BY <3>1, <3>2, <1>4
  <2>3. ASSUME NEW i \in (Len(claims) + 1)..Len(next)
        PROVE  next[i].chunk = k /\ \E j \in 1..(n + 1) : SaysTheSame(next[i], k, answer[j])
    <3>1. CASE i = Len(now) + 1
      <4>1. n + 1 \in 1..(n + 1) /\ next[i] = added
        BY <3>1, <2>1
      <4> QED
        BY <4>1, <1>3
    <3>2. CASE i # Len(now) + 1
      <4>1. i \in (Len(claims) + 1)..Len(now) /\ next[i] = now[i]
        BY <3>2, <2>1, <1>5
      <4>2. next[i].chunk = k /\ \E j \in 1..n : SaysTheSame(next[i], k, answer[j])
        BY <4>1 DEF IsMerged
      <4> QED
        BY <4>2
    <3> QED
      BY <3>1, <3>2
  <2>4. \A i \in 1..Len(claims) : next[i] = claims[i]
    BY <2>1, <1>5 DEF IsMerged
  <2>5. Len(claims) <= Len(next)
    BY <2>1, <1>5 DEF IsMerged
  <2>6. IsMerged(next, k, claims, answer, n + 1)
    BY <2>2, <2>3, <2>4, <2>5 DEF IsMerged
  <2> QED
    BY <2>6 DEF next
<1> QED
  BY <1>6, <1>7 DEF WithClaim, Added

(* Merging an answer loses nothing, makes nothing up, and moves nothing.    *)
LEMMA MergeKeeps ==
  ASSUME chunks \in Seq(Seq(PageRecords)), NEW k \in 1..Len(chunks), k \in Nat,
         NEW claims \in Seq(Claims), NEW answer \in Seq(Answered)
  PROVE  /\ Merge(k, claims, answer) \in Seq(Claims)
         /\ IsMerged(Merge(k, claims, answer), k, claims, answer, Len(answer))
<1>1. PICK acc : MergeRun(acc, k, claims, answer)
  BY MergeIsRun
<1> DEFINE N == Len(answer)
           T == {n \in Nat : n <= N => IsMerged(acc[n], k, claims, answer, n)}
<1>2. N \in Nat /\ \A n \in 0..N : acc[n] \in Seq(Claims)
  <2>1. N \in Nat
    BY SMT
  <2>2. acc \in [0..N -> Seq(Claims)]
    BY <1>1, Zenon DEF MergeRun
  <2> HIDE DEF N, T
  <2> QED
    BY <2>1, <2>2
<1>3. 0 \in T
  BY <1>1 DEF MergeRun, IsMerged
<1>4. ASSUME NEW n \in Nat, n \in T PROVE n + 1 \in T
  <2> SUFFICES ASSUME n + 1 <= N PROVE IsMerged(acc[n + 1], k, claims, answer, n + 1)
    OBVIOUS
  <2>1. IsMerged(acc[n], k, claims, answer, n) /\ acc[n] \in Seq(Claims)
    BY <1>2, <1>4
  <2>2. acc[n + 1] = WithClaim(k, acc[n], answer[n + 1])
    <3>1. n + 1 \in 1..Len(answer) /\ (n + 1) - 1 = n
      BY <1>2
    <3> QED
      BY <1>1, <3>1 DEF MergeRun
  <2> QED
    BY <2>1, <2>2, <1>2, WithClaimKeepsMerged
<1> HIDE DEF T
<1>5. N \in T
  BY <1>2, <1>3, <1>4, Induction
<1> QED
  BY <1>1, <1>2, <1>5 DEF T, MergeRun

(* While the claims of chunk k are merged, and no name the provider chose   *)
(* looks renamed, what was renamed for k stands behind k.                   *)
IdsOfChunk(now, k, answer, n) ==
  /\ IdsTellChunks(now)
  /\ \A i \in 1..Len(now) :
       IsRenamed(now[i].id, k) =>
         \E j \in 1..n : now[i].id = <<k>> \o answer[j].id

(* What an answer may say for the merge to keep identifiers apart.          *)
HasPlainIds(answer) ==
  /\ \A i, j \in DOMAIN answer : answer[i].id = answer[j].id => i = j
  /\ \A i \in DOMAIN answer : IsPlain(answer[i].id)

LEMMA RenamedOnce ==
  ASSUME NEW id, NEW k, NEW l
  PROVE  /\ IsRenamed(id, k) /\ IsRenamed(id, l) => k = l
         /\ ~(IsPlain(id) /\ IsRenamed(id, k))
<1>1. IsPlain(id) /\ IsRenamed(id, k) => 1 = 2
  BY Zenon DEF IsPlain, IsRenamed
<1> QED
  BY <1>1 DEF IsRenamed

LEMMA RenamedIds ==
  ASSUME NEW k \in Nat, NEW a \in Ids, NEW b \in Ids, IsPlain(a), IsPlain(b)
  PROVE  /\ IsRenamed(<<k>> \o a, k)
         /\ <<k>> \o a = <<k>> \o b => a = b
<1> DEFINE E == Nat \cup Names
           r == <<k>>
<1>1. k \in E /\ a \in Seq(E) /\ b \in Seq(E)
  BY DEF Ids
<1>2. r \in Seq(E) /\ Len(r) = 1 /\ r[1] = k
  BY <1>1
<1> HIDE DEF E, r
<1>3. Len(a) = 1 /\ Len(b) = 1
  BY DEF IsPlain
<1>4. ASSUME NEW s \in Seq(E), NEW t \in Seq(E), Len(s) = 1, Len(t) = 1
      PROVE  Len(s \o t) = 2 /\ (s \o t)[1] = s[1] /\ (s \o t)[2] = t[1]
  <2>1. s \o t \in Seq(E) /\ Len(s \o t) = Len(s) + Len(t)
    OBVIOUS
  <2>2. Len(s \o t) = 2
    BY <2>1, <1>4
  <2>3. (s \o t)[1] = s[1]
    <3>1. \A i \in 1..Len(s) : (s \o t)[i] = s[i]
      OBVIOUS
    <3> QED
      BY <1>4, <3>1
  <2>4. (s \o t)[2] = t[1]
    <3>1. \A i \in 1..Len(t) : (s \o t)[Len(s) + i] = t[i]
      OBVIOUS
    <3> QED
      BY <1>4, <3>1
  <2> QED
    BY <2>2, <2>3, <2>4
<1>5. Len(r \o a) = 2 /\ (r \o a)[1] = k /\ (r \o a)[2] = a[1] /\ (r \o b)[2] = b[1]
  BY <1>1, <1>2, <1>3, <1>4
<1>6. a[1] = b[1] => a = b
  BY <1>1, <1>3
<1> QED
  BY <1>5, <1>6 DEF IsRenamed, r

LEMMA WithClaimKeepsIds ==
  ASSUME chunks \in Seq(Seq(PageRecords)), NEW k \in 1..Len(chunks), k \in Nat,
         NEW answer \in Seq(Answered), HasPlainIds(answer),
         NEW n \in Nat, n + 1 <= Len(answer),
         NEW now \in Seq(Claims), IdsOfChunk(now, k, answer, n)
  PROVE  IdsOfChunk(WithClaim(k, now, answer[n + 1]), k, answer, n + 1)
<1> DEFINE claim == answer[n + 1]
           added == Added(k, now, claim)
           next == WithClaim(k, now, claim)
<1>1. /\ n + 1 \in DOMAIN answer /\ \A j \in 1..(n + 1) : j \in DOMAIN answer
      /\ \A j \in 1..n : j \in 1..(n + 1) /\ j # n + 1
      /\ Len(now) \in Nat /\ DOMAIN now = 1..Len(now)
  OBVIOUS
<1>2. \A j \in 1..(n + 1) : answer[j].id \in Ids /\ IsPlain(answer[j].id)
  <2>1. \A c \in Answered : c.id \in Ids
    BY IdsAreSequences DEF Answered, Ids
  <2> HIDE DEF Answered
  <2> QED
    BY <1>1, <2>1 DEF HasPlainIds
<1>3. claim \in Answered
  <2> HIDE DEF Answered
  <2> QED
    BY <1>1
<1>4. added \in Claims
  BY <1>3, AddedType
<1>5. CASE next = now
  <2>1. \A i \in 1..Len(now) : IsRenamed(now[i].id, k) =>
          \E j \in 1..(n + 1) : now[i].id = <<k>> \o answer[j].id
    BY <1>1 DEF IdsOfChunk
  <2>2. IdsOfChunk(now, k, answer, n + 1)
    BY <2>1 DEF IdsOfChunk
  <2> QED
    BY <1>5, <2>2
<1>6. CASE next = Append(now, added)
  <2>1. /\ added.chunk = k
        /\ added.id = MergedId(k, claim.id, UsedIds(now))
    BY DEF Added
  <2>2. \/ claim.id \notin UsedIds(now) /\ added.id = claim.id
        \/ added.id = <<k>> \o claim.id
    BY <2>1 DEF MergedId
  <2>3. n + 1 \in 1..(n + 1)
    OBVIOUS
  <2>4. /\ IsRenamed(<<k>> \o claim.id, k)
        /\ \A j \in 1..n : <<k>> \o claim.id = <<k>> \o answer[j].id => claim.id = answer[j].id
    <3>1. claim.id \in Ids /\ IsPlain(claim.id)
      BY <1>2, <2>3
    <3>2. \A j \in 1..n : answer[j].id \in Ids /\ IsPlain(answer[j].id)
      BY <1>1, <1>2
    <3> HIDE DEF claim
    <3> QED
      BY <3>1, <3>2, RenamedIds
  <2>5. ASSUME NEW i \in 1..Len(now) PROVE now[i].id # added.id
    <3>1. CASE claim.id \notin UsedIds(now) /\ added.id = claim.id
      BY <1>1, <3>1 DEF UsedIds
    <3>2. CASE added.id = <<k>> \o claim.id
      <4> SUFFICES ASSUME now[i].id = <<k>> \o claim.id PROVE FALSE
        BY <3>2
      <4>1. PICK j \in 1..n : now[i].id = <<k>> \o answer[j].id
        BY <2>4 DEF IdsOfChunk
      <4>2. claim.id = answer[j].id
        BY <2>4, <4>1
      <4> QED
        BY <1>1, <4>2 DEF HasPlainIds
    <3> QED
      BY <2>2, <3>1, <3>2
  <2>6. \/ IsPlain(added.id)
        \/ IsRenamed(added.id, added.chunk) /\ added.id = <<k>> \o claim.id
    BY <2>1, <2>2, <2>3, <2>4, <1>2
  <2> HIDE DEF next, added
  <2>7. /\ Len(next) = Len(now) + 1 /\ next[Len(now) + 1] = added
        /\ \A i \in 1..Len(now) : next[i] = now[i]
        /\ DOMAIN next = 1..Len(next)
    BY <1>1, <1>4, <1>6
  <2>8. \A i \in 1..Len(next) : i \in 1..Len(now) \/ i = Len(now) + 1
    BY <1>1, <2>7
  <2>9. ASSUME NEW i \in 1..Len(next), NEW j \in 1..Len(next), next[i].id = next[j].id
        PROVE  i = j
    <3>1. \A g, h \in 1..Len(now) : now[g].id = now[h].id => g = h
      BY <1>1 DEF IdsOfChunk, IdsTellChunks
    <3> QED
      BY <2>5, <2>7, <2>8, <2>9, <3>1
  <2>10. ASSUME NEW i \in 1..Len(next)
         PROVE  IsPlain(next[i].id) \/ IsRenamed(next[i].id, next[i].chunk)
    <3>1. \A g \in 1..Len(now) :
            IsPlain(now[g].id) \/ IsRenamed(now[g].id, now[g].chunk)
      BY <1>1, Zenon DEF IdsOfChunk, IdsTellChunks
    <3>2. CASE i \in 1..Len(now)
      <4>1. next[i] = now[i]
        BY <2>7, <3>2
      <4> QED
        BY <3>1, <3>2, <4>1, Zenon
    <3>3. CASE i = Len(now) + 1
      <4>1. next[i] = added
        BY <2>7, <3>3
      <4> QED
        BY <2>6, <4>1, Zenon
    <3> QED
      BY <2>8, <3>2, <3>3
  <2>11. ASSUME NEW i \in 1..Len(next), IsRenamed(next[i].id, k)
         PROVE  \E j \in 1..(n + 1) : next[i].id = <<k>> \o answer[j].id
    <3>1. CASE i \in 1..Len(now)
      <4>1. PICK j \in 1..n : now[i].id = <<k>> \o answer[j].id
        BY <2>7, <2>11, <3>1 DEF IdsOfChunk
      <4> QED
        BY <1>1, <2>7, <3>1, <4>1
    <3>2. CASE i = Len(now) + 1
      <4>1. next[i] = added
        BY <2>7, <3>2
      <4>2. ~IsPlain(added.id)
        BY <2>11, <4>1, RenamedOnce
      <4> QED
        BY <2>3, <2>6, <4>1, <4>2
    <3> QED
      BY <2>8, <3>1, <3>2
  <2>12. IdsTellChunks(next)
    BY <2>7, <2>9, <2>10 DEF IdsTellChunks
  <2>13. IdsOfChunk(next, k, answer, n + 1)
    BY <2>11, <2>12 DEF IdsOfChunk
  <2> QED
    BY <2>13 DEF next
<1> QED
  BY <1>5, <1>6, WithClaimAdds

LEMMA MergeTellsChunks ==
  ASSUME chunks \in Seq(Seq(PageRecords)), NEW k \in 1..Len(chunks), k \in Nat,
         NEW claims \in Seq(Claims), NEW answer \in Seq(Answered),
         HasPlainIds(answer), IdsTellChunks(claims),
         \A i \in DOMAIN claims : claims[i].chunk # k
  PROVE  IdsTellChunks(Merge(k, claims, answer))
<1>1. PICK acc : MergeRun(acc, k, claims, answer)
  BY MergeIsRun
<1> DEFINE N == Len(answer)
           T == {n \in Nat : n <= N => IdsOfChunk(acc[n], k, answer, n)}
<1>2. N \in Nat /\ \A n \in 0..N : acc[n] \in Seq(Claims)
  <2>1. N \in Nat
    BY SMT
  <2>2. acc \in [0..N -> Seq(Claims)]
    BY <1>1, Zenon DEF MergeRun
  <2> HIDE DEF N, T
  <2> QED
    BY <2>1, <2>2
<1>3. 0 \in T
  <2>1. acc[0] = claims
    BY <1>1 DEF MergeRun
  <2>2. \A i \in 1..Len(claims) : ~IsRenamed(claims[i].id, k)
    <3>1. DOMAIN claims = 1..Len(claims)
      OBVIOUS
    <3>2. \A i \in 1..Len(claims) :
            IsPlain(claims[i].id) \/ IsRenamed(claims[i].id, claims[i].chunk)
      BY <3>1, Zenon DEF IdsTellChunks
    <3>3. \A i \in 1..Len(claims) : claims[i].chunk # k
      BY <3>1
    <3> QED
      BY <3>2, <3>3, RenamedOnce
  <2> QED
    BY <2>1, <2>2 DEF IdsOfChunk
<1>4. ASSUME NEW n \in Nat, n \in T PROVE n + 1 \in T
  <2> SUFFICES ASSUME n + 1 <= N PROVE IdsOfChunk(acc[n + 1], k, answer, n + 1)
    OBVIOUS
  <2>1. IdsOfChunk(acc[n], k, answer, n) /\ acc[n] \in Seq(Claims)
    BY <1>2, <1>4
  <2>2. acc[n + 1] = WithClaim(k, acc[n], answer[n + 1])
    <3>1. n + 1 \in 1..Len(answer) /\ (n + 1) - 1 = n
      BY <1>2
    <3> QED
      BY <1>1, <3>1 DEF MergeRun
  <2> QED
    BY <2>1, <2>2, <1>2, WithClaimKeepsIds
<1> HIDE DEF T
<1>5. N \in T
  BY <1>2, <1>3, <1>4, Induction
<1> QED
  BY <1>1, <1>2, <1>5 DEF T, MergeRun, IdsOfChunk

-----------------------------------------------------------------------------
(* The invariant holds.                                                     *)

LEMMA ChunksTyped ==
  ASSUME IntakeInv, chunks # <<>>
  PROVE  chunks \in Seq(Seq(PageRecords)) /\ text \in Texts /\ estimate \in Estimates
<1>1. text \in Texts /\ estimate \in Estimates /\ chunks = Chunks(text, estimate)
  BY DEF IntakeInv, ChunksAreOfText, TypeOK
<1> QED
  BY <1>1, ChunksOfText

LEMMA QuotingStays ==
  ASSUME UNCHANGED <<estimate, text, chunks>>
  PROVE  \A k, source : /\ PagesQuoting(k, source)' = PagesQuoting(k, source)
                        /\ Provenance(k, source)' = Provenance(k, source)
BY DEF Provenance, PagesQuoting

(* Nothing but the stage changes: the run stops, goes to OCR, or compares.  *)
LEMMA StageOnly ==
  ASSUME IntakeInv, UNCHANGED <<estimate, text, chunks, asked, reported, prefixed, merged>>,
         \/ stage' \in {"STOPPED", "FAILED"}
         \/ stage' = stage
         \/ stage = "CONVERT" /\ stage' = "OCR"
         \/ stage = "COMPARE" /\ stage' = "COMPARED" /\ GraphAccepts(merged)
  PROVE  IntakeInv'
<1>1. TypeOK'
  BY DEF IntakeInv, TypeOK
<1>2. ChunksAreOfText'
  BY DEF IntakeInv, ChunksAreOfText
<1>3. ClaimsAreQuoted'
  BY QuotingStays DEF IntakeInv, ClaimsAreQuoted
<1>4. ReportedIsMerged'
  BY QuotingStays DEF IntakeInv, ReportedIsMerged
<1>5. (~prefixed => IdsTellChunks(merged))' /\ (merged \in Seq(Claims))'
  BY DEF IntakeInv
<1>6. (stage = "COMPARED" => GraphAccepts(merged))'
  BY DEF IntakeInv, GraphAccepts
<1> QED
  BY <1>1, <1>2, <1>3, <1>4, <1>5, <1>6 DEF IntakeInv

LEMMA InitIntake == Init => IntakeInv
<1> SUFFICES ASSUME Init PROVE IntakeInv
  OBVIOUS
<1>1. merged = <<>> /\ chunks = <<>> /\ reported = {} /\ asked = 0 /\ stage = "CONVERT"
  BY DEF Init
<1>2. TypeOK
  <2>1. asked \in 0..Len(chunks) /\ estimate \in Estimates /\ text = None /\ prefixed = FALSE
    BY <1>1 DEF Init
  <2>2. DOMAIN merged = {}
    BY <1>1
  <2> QED
    BY <1>1, <2>1, <2>2 DEF TypeOK
<1>3. merged \in Seq(Claims)
  BY <1>1
<1>4. ChunksAreOfText /\ ClaimsAreQuoted /\ ReportedIsMerged
  BY <1>1 DEF ChunksAreOfText, ClaimsAreQuoted, ReportedIsMerged
<1>5. IdsTellChunks(merged)
  BY <1>1 DEF IdsTellChunks
<1> QED
  BY <1>1, <1>2, <1>3, <1>4, <1>5 DEF IntakeInv

LEMMA TakeTextKeeps ==
  ASSUME IntakeInv, stage \in {"CONVERT", "OCR"}, NEW t \in Texts, TakeText(t)
  PROVE  IntakeInv'
<1>1. /\ chunks = <<>> /\ asked = 0 /\ merged = <<>> /\ reported = {} /\ estimate \in Estimates
      /\ prefixed \in BOOLEAN
  BY DEF IntakeInv, ChunksAreOfText, TypeOK
<1>2. /\ text' = t /\ estimate' = estimate /\ asked' = 0 /\ merged' = <<>> /\ reported' = {}
      /\ prefixed' \in BOOLEAN
  BY <1>1 DEF TakeText
<1>3. \/ stage' = "STOPPED" /\ chunks' = <<>>
      \/ /\ stage' = "ASK" /\ chunks' = Chunks(t, estimate) /\ ~CannotChunk(t, estimate)
         /\ chunks' \in Seq(Seq(PageRecords)) /\ chunks' # <<>>
  BY <1>1, ChunksOfText DEF TakeText
<1>4. Len(chunks') \in Nat /\ (stage' = "ASK" => 0 < Len(chunks'))
  BY <1>3
<1>5. TypeOK'
  BY <1>1, <1>2, <1>3, <1>4 DEF TypeOK
<1>6. ChunksAreOfText'
  BY <1>1, <1>2, <1>3 DEF ChunksAreOfText
<1>7. ClaimsAreQuoted' /\ ReportedIsMerged' /\ IdsTellChunks(merged')
  BY <1>2 DEF ClaimsAreQuoted, ReportedIsMerged, IdsTellChunks
<1>8. merged' \in Seq(Claims) /\ stage' # "COMPARED"
  BY <1>2, <1>3
<1> QED
  BY <1>5, <1>6, <1>7, <1>8 DEF IntakeInv

LEMMA AnswerKeeps ==
  ASSUME IntakeInv, AnswerChunk
  PROVE  IntakeInv'
<1>1. PICK answer \in Answers :
        LET k == asked + 1
            accepted == /\ AnswerIsValid(k, answer)
                        /\ \A i \in DOMAIN answer : PagesQuoting(k, answer[i].source) # {}
            claims == Merge(k, merged, answer)
        IN IF ~accepted
           THEN /\ stage' = "STOPPED"
                /\ UNCHANGED <<asked, reported, prefixed, merged>>
           ELSE /\ asked' = k
                /\ merged' = claims
                /\ reported' = reported \cup
                     {[chunk |-> k, fact |-> answer[i].fact, source |-> answer[i].source] :
                        i \in DOMAIN answer}
                /\ prefixed' = (prefixed \/ \E i \in DOMAIN answer : Len(answer[i].id) > 1)
                /\ stage' = AfterAnswer(k, claims)
  BY DEF AnswerChunk
<1> DEFINE k == asked + 1
           claims == Merge(k, merged, answer)
           said(i) == [chunk |-> k, fact |-> answer[i].fact, source |-> answer[i].source]
           accepted == /\ AnswerIsValid(k, answer)
                       /\ \A i \in DOMAIN answer : PagesQuoting(k, answer[i].source) # {}
<1>2. /\ UNCHANGED <<estimate, text, chunks>> /\ stage = "ASK"
      /\ asked \in Nat /\ k \in 1..Len(chunks) /\ k \in Nat
      /\ chunks # <<>> /\ chunks \in Seq(Seq(PageRecords)) /\ merged \in Seq(Claims)
  <2>1. asked \in 0..Len(chunks) /\ asked < Len(chunks) /\ stage = "ASK"
    BY DEF AnswerChunk, IntakeInv, TypeOK
  <2>2. chunks # <<>>
    <3>1. CASE chunks = <<>>
      BY <2>1, <3>1
    <3> QED
      BY <3>1
  <2>3. chunks \in Seq(Seq(PageRecords)) /\ Len(chunks) \in Nat
    BY <2>2, ChunksTyped
  <2> QED
    BY <2>1, <2>2, <2>3 DEF AnswerChunk, IntakeInv
<1>3. CASE ~accepted
  <2>1. stage' = "STOPPED" /\ UNCHANGED <<asked, reported, prefixed, merged>>
    BY <1>1, <1>3
  <2> QED
    BY <1>2, <2>1, StageOnly
<1>4. CASE accepted
  <2>1. /\ asked' = k /\ merged' = claims
        /\ reported' = reported \cup {said(i) : i \in DOMAIN answer}
        /\ prefixed' = (prefixed \/ \E i \in DOMAIN answer : Len(answer[i].id) > 1)
        /\ stage' = AfterAnswer(k, claims)
    BY <1>1, <1>4
  <2>2. answer \in Seq(Answered) /\ DOMAIN answer = 1..Len(answer) /\ Len(answer) \in Nat
    BY AnswersAreSequences
  <2>3. claims \in Seq(Claims) /\ IsMerged(claims, k, merged, answer, Len(answer))
    <3> HIDE DEF k
    <3> QED
      BY <1>2, <2>2, MergeKeeps
  <2>4. /\ \A i \in DOMAIN answer : PagesQuoting(k, answer[i].source) # {}
        /\ \A i, j \in DOMAIN answer : answer[i].id = answer[j].id => i = j
    BY <1>4 DEF AnswerIsValid
  <2>5. \A i \in 1..Len(answer) : /\ answer[i].fact \in Facts /\ answer[i].source \in Lines
                                /\ answer[i].id \in Seq(Nat \cup Names) \ {<<>>}
    <3>1. \A c \in Answered : /\ c.fact \in Facts /\ c.source \in Lines
                              /\ c.id \in Seq(Nat \cup Names) \ {<<>>}
      BY IdsAreSequences DEF Answered
    <3> HIDE DEF Answered
    <3> QED
      BY <2>2, <3>1
  <2> HIDE DEF claims, accepted, k
  <2>6. TypeOK'
    <3>1. \A i \in 1..Len(claims) : /\ claims[i].fact \in Facts /\ claims[i].source \in Lines
                                  /\ claims[i].chunk \in 1..k
      <4> TAKE i \in 1..Len(claims)
      <4>1. claims[i].fact \in Facts /\ claims[i].source \in Lines
        <5>1. \A c \in Claims : c.fact \in Facts /\ c.source \in Lines
          BY DEF Claims
        <5> QED
          BY <2>3, <5>1
      <4>2. CASE i \in 1..Len(merged)
        <5>1. claims[i] = merged[i] /\ merged[i].chunk \in 1..asked
          BY <1>2, <2>3, <4>2 DEF IsMerged, IntakeInv, TypeOK
        <5> QED
          BY <1>2, <4>1, <5>1 DEF k
      <4>3. CASE i \notin 1..Len(merged)
        <5>1. i \in (Len(merged) + 1)..Len(claims)
          BY <1>2, <2>3, <4>3
        <5>2. claims[i].chunk = k
          BY <2>3, <5>1 DEF IsMerged
        <5> QED
          BY <1>2, <4>1, <5>2
      <4> QED
        BY <4>2, <4>3
    <3>2. /\ stage' \in {"ASK", "COMPARE", "STOPPED"}
          /\ stage' = "ASK" => k < Len(chunks)
          /\ stage' = "COMPARE" => k = Len(chunks) /\ claims # <<>>
      BY <1>2, <2>1 DEF AfterAnswer
    <3>3. DOMAIN claims = 1..Len(claims)
      BY <2>3
    <3>4. k \in 0..Len(chunks)
      BY <1>2
    <3>5. prefixed' \in BOOLEAN
      BY <2>1
    <3>6. estimate \in Estimates /\ text \in Texts \cup {None}
      BY DEF IntakeInv, TypeOK
    <3> QED
      BY <1>2, <2>1, <3>1, <3>2, <3>3, <3>4, <3>5, <3>6 DEF TypeOK
  <2>7. ChunksAreOfText'
    <3>1. stage' \notin {"CONVERT", "OCR"}
      BY <2>1 DEF AfterAnswer
    <3> QED
      BY <1>2, <3>1 DEF IntakeInv, ChunksAreOfText
  <2>8. \A c, source : /\ PagesQuoting(c, source)' = PagesQuoting(c, source)
                       /\ Provenance(c, source)' = Provenance(c, source)
    BY <1>2, QuotingStays
  <2>9. ClaimsAreQuoted'
    <3> SUFFICES ASSUME NEW i \in 1..Len(claims)
                 PROVE  /\ PagesQuoting(claims[i].chunk, claims[i].source) # {}
                        /\ claims[i].pages = Provenance(claims[i].chunk, claims[i].source)
      BY <2>1, <2>3, <2>8 DEF ClaimsAreQuoted
    <3>1. CASE i \in 1..Len(merged)
      BY <2>3, <3>1 DEF IsMerged, IntakeInv, ClaimsAreQuoted
    <3>2. CASE i \notin 1..Len(merged)
      <4>1. i \in (Len(merged) + 1)..Len(claims)
        BY <1>2, <2>3, <3>2
      <4>2. PICK j \in 1..Len(answer) : SaysTheSame(claims[i], k, answer[j])
        BY <2>3, <4>1 DEF IsMerged
      <4>3. claims[i].chunk = k
        BY <2>3, <4>1 DEF IsMerged
      <4>4. PagesQuoting(k, answer[j].source) # {}
        BY <2>2, <2>4
      <4> QED
        BY <4>2, <4>3, <4>4 DEF SaysTheSame, SameClaim
    <3> QED
      BY <3>1, <3>2
  <2>10. ReportedIsMerged'
    <3> SUFFICES ASSUME NEW f \in reported'
                 PROVE  f.chunk \in 1..k /\ \E i \in 1..Len(claims) :
                          /\ claims[i].fact = f.fact /\ claims[i].source = f.source
                          /\ claims[i].pages = Provenance(f.chunk, f.source)
      BY <2>1, <2>3, <2>8 DEF ReportedIsMerged
    <3>1. CASE f \in reported
      <4>1. f.chunk \in 1..asked
        BY <3>1 DEF IntakeInv, ReportedIsMerged
      <4>2. PICK i \in 1..Len(merged) :
              /\ merged[i].fact = f.fact /\ merged[i].source = f.source
              /\ merged[i].pages = Provenance(f.chunk, f.source)
        <5>1. DOMAIN merged = 1..Len(merged)
          BY <1>2
        <5> QED
          BY <3>1, <5>1 DEF IntakeInv, ReportedIsMerged
      <4>3. i \in 1..Len(claims) /\ claims[i] = merged[i]
        BY <1>2, <2>3 DEF IsMerged
      <4>4. f.chunk \in 1..k
        BY <1>2, <4>1 DEF k
      <4> QED
        BY <4>2, <4>3, <4>4
    <3>2. CASE f \notin reported
      <4>1. PICK j \in 1..Len(answer) : f = said(j)
        BY <2>1, <2>2, <3>2
      <4>2. PICK i \in 1..Len(claims) : SaysTheSame(claims[i], k, answer[j])
        BY <2>3 DEF IsMerged
      <4> QED
        BY <1>2, <4>1, <4>2 DEF SaysTheSame, SameClaim
    <3> QED
      BY <3>1, <3>2
  <2>11. ~prefixed' => IdsTellChunks(merged')
    <3> SUFFICES ASSUME ~prefixed' PROVE IdsTellChunks(claims)
      BY <2>1
    <3>1. ~prefixed /\ \A i \in 1..Len(answer) : ~(Len(answer[i].id) > 1)
      BY <2>1, <2>2
    <3>2. IdsTellChunks(merged)
      BY <3>1 DEF IntakeInv
    <3>3. \A i \in 1..Len(answer) : IsPlain(answer[i].id)
      <4> TAKE i \in 1..Len(answer)
      <4> DEFINE id == answer[i].id
      <4>1. id \in Seq(Nat \cup Names) \ {<<>>} /\ ~(Len(id) > 1)
        BY <2>5, <3>1
      <4> HIDE DEF id
      <4>2. Len(id) \in Nat /\ Len(id) # 0
        BY <4>1
      <4>3. \A n \in Nat : n # 0 /\ ~(n > 1) => n = 1
        OBVIOUS
      <4>4. Len(id) = 1
        BY <4>1, <4>2, <4>3
      <4> QED
        BY <4>4 DEF IsPlain, id
    <3>4. HasPlainIds(answer)
      BY <2>2, <2>4, <3>3 DEF HasPlainIds
    <3>5. \A i \in DOMAIN merged : merged[i].chunk # k
      BY <1>2 DEF IntakeInv, TypeOK, k
    <3> QED
      BY <1>2, <2>2, <3>2, <3>4, <3>5, MergeTellsChunks DEF claims
  <2>12. merged' \in Seq(Claims) /\ stage' # "COMPARED"
    BY <2>1, <2>3 DEF AfterAnswer
  <2> QED
    BY <2>6, <2>7, <2>9, <2>10, <2>11, <2>12 DEF IntakeInv
<1> HIDE DEF accepted
<1> QED
  BY <1>3, <1>4

LEMMA NextIntake == IntakeInv /\ [Next]_vars => IntakeInv'
<1> SUFFICES ASSUME IntakeInv, [Next]_vars PROVE IntakeInv'
  OBVIOUS
<1>1. CASE ConvertToText
  <2>1. PICK t \in Texts :
          IF Ink(t) < OcrDensity * estimate
          THEN /\ stage' = "OCR"
               /\ UNCHANGED <<estimate, text, chunks, asked, reported, prefixed, merged>>
          ELSE TakeText(t)
    BY <1>1 DEF ConvertToText
  <2>2. CASE TakeText(t)
    BY <1>1, <2>2, TakeTextKeeps DEF ConvertToText
  <2>3. CASE ~TakeText(t)
    BY <1>1, <2>1, <2>3, StageOnly DEF ConvertToText
  <2> QED
    BY <2>2, <2>3
<1>2. CASE RecognizeText
  BY <1>2, TakeTextKeeps DEF RecognizeText
<1>3. CASE ServiceFails
  BY <1>3, StageOnly DEF ServiceFails
<1>4. CASE AnswerChunk
  BY <1>4, AnswerKeeps
<1>5. CASE ProviderFails
  BY <1>5, StageOnly DEF ProviderFails
<1>6. CASE Compare
  BY <1>6, StageOnly DEF Compare
<1>7. CASE UNCHANGED vars
  BY <1>7, StageOnly DEF vars
<1> QED
  BY <1>1, <1>2, <1>3, <1>4, <1>5, <1>6, <1>7 DEF Next

LEMMA IntakeHolds == Spec => []IntakeInv
BY InitIntake, NextIntake, PTL DEF Spec

-----------------------------------------------------------------------------
(* What the invariant says of the intake.                                   *)

(* Every variable keeps to its shape, claims are asked for while a chunk is *)
(* unanswered and compared when none is: the loop of                        *)
(* extract_claims_page_aware ends with the last chunk, whatever is answered.*)
THEOREM IntakeTypeOK == Spec => []TypeOK
<1>1. IntakeInv => TypeOK
  BY DEF IntakeInv
<1> QED
  BY <1>1, IntakeHolds, PTL

(* chunk_document loses, repeats and reorders nothing, whatever the text    *)
(* and the limits: its chunks show all of the text, in its order.           *)
THEOREM IntakeShowsTheText == Spec => []ChunksShowTheText
<1>1. IntakeInv => ChunksShowTheText
  <2> SUFFICES ASSUME IntakeInv, chunks # <<>> PROVE ChunksShowTheText
    BY DEF ChunksShowTheText
  <2>1. chunks = Chunks(text, estimate) /\ text \in Texts /\ estimate \in Estimates
    BY ChunksTyped DEF IntakeInv, ChunksAreOfText
  <2> QED
    BY <2>1, ChunksShow DEF ChunksShowTheText
<1> QED
  BY <1>1, IntakeHolds, PTL

(* chunk_document keeps its limits on pages and characters, and begins a    *)
(* chunk only when the page did not fit in the one before.                  *)
THEOREM IntakeKeepsLimits == Spec => []ChunksKeepLimits
<1>1. IntakeInv => ChunksKeepLimits
  <2> SUFFICES ASSUME IntakeInv PROVE ChunksKeepLimits
    OBVIOUS
  <2>1. CASE chunks = <<>>
    BY <2>1 DEF ChunksKeepLimits
  <2>2. CASE chunks # <<>>
    <3>1. /\ chunks = Chunks(text, estimate) /\ text \in Texts /\ estimate \in Estimates
          /\ ~CannotChunk(text, estimate) /\ chunks \in Seq(Seq(PageRecords))
      BY <2>2, ChunksTyped DEF IntakeInv, ChunksAreOfText
    <3>2. ASSUME NEW k \in DOMAIN chunks
          PROVE  /\ Len(chunks[k]) <= MaxPages
                 /\ Total(chunks[k]) > MaxCharacters =>
                      Len(chunks[k]) = 1 /\ ~IsLongFlat(text, estimate)
                 /\ k < Len(chunks) =>
                      \/ Len(chunks[k]) = MaxPages
                      \/ Total(chunks[k]) + PageLength(chunks[k + 1][1]) > MaxCharacters
      <4>1. k \in 1..Len(Chunks(text, estimate))
        BY <3>1
      <4> QED
        BY <3>1, <4>1, ChunksKeep
    <3> QED
      BY <3>2 DEF ChunksKeepLimits, Total
  <2> QED
    BY <2>1, <2>2
<1> QED
  BY <1>1, IntakeHolds, PTL

(* extract_claims_page_aware drops a claim only for one that says the same  *)
(* in the same words on the same pages: no other finding of an accepted     *)
(* answer is lost, however many chunks and claims there are.                *)
THEOREM IntakeLosesNoFinding == Spec => []NoFindingIsLost
<1>1. IntakeInv => NoFindingIsLost
  BY DEF IntakeInv, ReportedIsMerged, NoFindingIsLost
<1> QED
  BY <1>1, IntakeHolds, PTL

(* The pages a merged claim names are the pages of the PDF that show its    *)
(* words, for every division into chunks.                                   *)
THEOREM IntakePageNumbersAreTrue == Spec => []PageNumbersAreTrue
<1>1. IntakeInv => PageNumbersAreTrue
  <2> SUFFICES ASSUME IntakeInv, NEW i \in DOMAIN merged
               PROVE  IF HasPageNumbers(text, estimate)
                      THEN /\ merged[i].pages # {}
                           /\ \A n \in merged[i].pages :
                                n \in DOMAIN text.pages
                                  /\ \E u \in DOMAIN text.pages[n] :
                                       merged[i].source \in text.pages[n][u].lines
                      ELSE merged[i].pages = {}
    BY DEF PageNumbersAreTrue
  <2> DEFINE k == merged[i].chunk
             source == merged[i].source
  <2>1. /\ PagesQuoting(k, source) # {} /\ merged[i].pages = Provenance(k, source)
        /\ k \in 1..asked
    BY DEF IntakeInv, ClaimsAreQuoted, TypeOK
  <2>2. asked \in 0..Len(chunks) /\ chunks # <<>>
    <3>1. asked \in 0..Len(chunks)
      BY DEF IntakeInv, TypeOK
    <3>2. chunks = <<>> => asked = 0
      BY <3>1
    <3> QED
      BY <2>1, <3>1, <3>2
  <2>3. /\ chunks = Chunks(text, estimate) /\ text \in Texts /\ estimate \in Estimates
        /\ chunks \in Seq(Seq(PageRecords))
    BY <2>2, ChunksTyped DEF IntakeInv, ChunksAreOfText
  <2>4. k \in 1..Len(chunks)
    <3>1. Len(chunks) \in Nat
      BY <2>3
    <3> QED
      BY <2>1, <2>2, <3>1
  <2>5. CASE ~HasPageNumbers(text, estimate)
    BY <2>1, <2>5 DEF Provenance
  <2>6. CASE HasPageNumbers(text, estimate)
    <3>1. merged[i].pages = PagesQuoting(k, source)
      BY <2>1, <2>6 DEF Provenance
    <3>2. ASSUME NEW n \in merged[i].pages
          PROVE  n \in DOMAIN text.pages /\ \E u \in DOMAIN text.pages[n] :
                   source \in text.pages[n][u].lines
      <4>1. PICK j \in DOMAIN chunks[k] :
              n = chunks[k][j].number /\ source \in PageLines(chunks[k][j])
        BY <3>1 DEF PagesQuoting
      <4>2. chunks[k] \in Seq(PageRecords)
        BY <2>3, <2>4
      <4>3. j \in 1..Len(chunks[k])
        BY <4>2
      <4> HIDE DEF k, source
      <4> QED
        BY <2>3, <2>4, <2>6, <4>1, <4>3, QuotedPages
    <3> QED
      BY <2>1, <2>6, <3>1, <3>2
  <2> QED
    BY <2>5, <2>6
<1> QED
  BY <1>1, IntakeHolds, PTL

(* Claims that reach the policy have identifiers of their own, and unless   *)
(* the provider chose one that looks renamed, so have all that are merged:  *)
(* that the renamed identifier is not looked up again does no harm.         *)
THEOREM IntakeKeepsIdentifiersApart == Spec => []IdentifiersStayApart
<1>1. IntakeInv => IdentifiersStayApart
  BY DEF IntakeInv, IdsTellChunks, GraphAccepts, IdentifiersStayApart
<1> QED
  BY <1>1, IntakeHolds, PTL

=============================================================================
