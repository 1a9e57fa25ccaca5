------------------------ MODULE PipelineGraph_proofs ------------------------
(***************************************************************************)
(* Proofs about a graph that is built from nothing, by adding components   *)
(* and connecting them, of any size and of any types:                      *)
(*                                                                         *)
(*   BuiltTablesAgree   both ends of every connection know of it, the table*)
(*                      of names is that of the components, and the next   *)
(*                      slot is nobody's                                   *)
(*   BuiltOrderIsReal   compile() reports a cycle if and only if there is  *)
(*                      one, and otherwise puts sources before the         *)
(*                      components they feed                               *)
(*                                                                         *)
(* Detaching and removing are left out (~Edits), as is asking for channels *)
(* that a component does not take (~Unknown): with either, the run         *)
(* graph_phantom_cycle and the bounds of graph_build tell what is lost.    *)
(* Induction is by a least counterexample (LeastNumber, Upwards).          *)
(***************************************************************************)
EXTENDS PipelineGraph, FiniteSetTheorems, SequenceTheorems, WellFoundedInduction, TLAPS

-----------------------------------------------------------------------------
(* Numbers.                                                                *)

\* Of numbers there is a least one.
LEMMA LeastNumber ==
    ASSUME NEW S \in SUBSET Nat, S # {}
    PROVE  \E m \in S : \A n \in S : m <= n
<1>1. PICK m \in S : \A n \in S : <<n, m>> \notin OpToRel(<, Nat)
  BY WFMin, NatLessThanWellFounded
<1>2. ASSUME NEW n \in S PROVE m <= n
  <2>1. ~(n < m)
    BY <1>1 DEF OpToRel
  <2> QED
    BY <2>1
<1> QED
  BY <1>2

\* What holds of 0 and of the number after each of which it holds, holds of all up to N:
\* a set of numbers without its successor is empty.
LEMMA Upwards ==
    ASSUME NEW N \in Nat, NEW Good \in SUBSET (0..N), 0 \in Good,
           \A n \in Good : n < N => n + 1 \in Good
    PROVE  \A n \in 0..N : n \in Good
<1> SUFFICES ASSUME (0..N) \ Good # {} PROVE FALSE
  OBVIOUS
<1>1. (0..N) \ Good \in SUBSET Nat
  OBVIOUS
<1>2. PICK m \in (0..N) \ Good : \A n \in (0..N) \ Good : m <= n
  BY <1>1, LeastNumber
<1>3. m \in Nat /\ m # 0 /\ m - 1 \in 0..N /\ m - 1 \in Good
  BY <1>2
<1> QED
  BY <1>2, <1>3

-----------------------------------------------------------------------------
(* The rounds of the sort.                                                 *)

\* The recursion has a solution.
LEMMA AfterRounds ==
    ASSUME NEW g, Len(g.comps) \in Nat
    PROVE  After(g) = [n \in 0..Len(g.comps) |->
                          IF n = 0 THEN <<>> ELSE Round(g, After(g)[n - 1])]
<1> DEFINE N == Len(g.comps)
           Solves(f, k) == f = [n \in 0..k |-> IF n = 0 THEN <<>> ELSE Round(g, f[n - 1])]
           Good == {k \in 0..N : \E f : Solves(f, k)}
<1>1. 0 \in Good
  <2>1. PICK f : f = [n \in 0..0 |-> <<>>]
    OBVIOUS
  <2>2. Solves(f, 0)
    BY <2>1
  <2> QED
    BY <2>2
<1>2. ASSUME NEW k \in Good, k < N PROVE k + 1 \in Good
  <2>1. PICK f : Solves(f, k)
    BY <1>2
  <2>2. PICK h : h = [n \in 0..(k + 1) |-> IF n = k + 1 THEN Round(g, f[k]) ELSE f[n]]
    OBVIOUS
  <2>3. ASSUME NEW n \in 0..(k + 1) PROVE h[n] = IF n = 0 THEN <<>> ELSE Round(g, h[n - 1])
    <3>1. CASE n = k + 1
      <4>1. h[n] = Round(g, f[k]) /\ h[n - 1] = f[k] /\ n # 0
        BY <2>2, <3>1
      <4> QED
        BY <4>1
    <3>2. CASE n # k + 1
      <4>1. n \in 0..k /\ h[n] = f[n] /\ (n # 0 => h[n - 1] = f[n - 1])
        BY <2>2, <3>2
      <4>2. f[n] = IF n = 0 THEN <<>> ELSE Round(g, f[n - 1])
        BY <2>1, <4>1
      <4> QED
        BY <4>1, <4>2
    <3> QED
      BY <3>1, <3>2
  <2>4. Solves(h, k + 1)
    BY <2>2, <2>3
  <2>5. k + 1 \in 0..N
    BY <1>2
  <2> HIDE DEF Solves, N
  <2> QED
    BY <2>4, <2>5
<1>3. \E f : Solves(f, N)
  <2>1. \A k \in 0..N : k \in Good
    <3> HIDE DEF Good
    <3>1. Good \in SUBSET (0..N)
      BY DEF Good
    <3> QED
      BY <1>1, <1>2, <3>1, Upwards
  <2> QED
    BY <2>1
<1>4. After(g) = CHOOSE f : Solves(f, N)
  BY DEF After
<1>5. Solves(After(g), N)
  <2> HIDE DEF Solves
  <2> QED
    BY <1>3, <1>4
<1> QED
  BY <1>5

\* The components of a set, each of which has a place of its own.
LEMMA OrderOfAll ==
    ASSUME NEW S \in SUBSET Nat, IsFiniteSet(S)
    PROVE  /\ Cardinality(S) \in Nat
           /\ InOrder(S) \in Seq(S) /\ Len(InOrder(S)) = Cardinality(S)
           /\ \A i \in S : \E n \in 1..Cardinality(S) : InOrder(S)[n] = i
<1> DEFINE Upto(i) == {j \in S : j <= i}
           rank == [i \in S |-> Cardinality(Upto(i))]
           c == Cardinality(S)
<1>1. c \in Nat
  BY FS_CardinalityType
<1>2. ASSUME NEW i \in S PROVE IsFiniteSet(Upto(i)) /\ rank[i] \in 1..c /\ rank[i] = Cardinality(Upto(i))
  <2>1. Upto(i) \subseteq S /\ i \in Upto(i)
    OBVIOUS
  <2>2. IsFiniteSet(Upto(i)) /\ Cardinality(Upto(i)) <= c
    BY <2>1, FS_Subset
  <2>3. Cardinality(Upto(i)) \in Nat /\ Cardinality(Upto(i)) # 0
    BY <2>1, <2>2, FS_CardinalityType, FS_EmptySet
  <2>4. rank[i] = Cardinality(Upto(i))
    OBVIOUS
  <2> HIDE DEF Upto, c, rank
  <2> QED
    BY <1>1, <2>2, <2>3, <2>4
<1>3. ASSUME NEW i \in S, NEW j \in S, i < j PROVE rank[i] # rank[j]
  <2>0. i \in Nat /\ j \in Nat /\ \A k \in S : k \in Nat
    OBVIOUS
  <2>1. Upto(i) \subseteq Upto(j) /\ j \in Upto(j) /\ j \notin Upto(i)
    <3>1. ASSUME NEW k \in S, k <= i PROVE k <= j
      BY <1>3, <2>0, <3>1
    <3>2. j <= j /\ ~(j <= i)
      BY <1>3, <2>0
    <3> QED
      BY <3>1, <3>2
  <2>2. IsFiniteSet(Upto(j))
    BY <1>2
  <2>3. Cardinality(Upto(i)) # Cardinality(Upto(j))
    <3> HIDE DEF Upto
    <3>1. Upto(i) # Upto(j)
      BY <2>1
    <3> QED
      BY <2>1, <2>2, <3>1, FS_Subset
  <2> QED
    BY <1>2, <2>3
<1>4. \A i, j \in S : rank[i] = rank[j] => i = j
  BY <1>3
<1>5. rank \in Injection(S, 1..c)
  BY <1>2, <1>4 DEF Injection, IsInjective
<1>6. ASSUME NEW n \in 1..c PROVE \E i \in S : rank[i] = n
  <2> DEFINE R == {rank[i] : i \in S}
  <2>1. rank \in Bijection(S, R)
    BY <1>4, <1>5 DEF Bijection, Injection, Surjection, IsInjective
  <2>2. IsFiniteSet(R) /\ Cardinality(R) = c
    <3> HIDE DEF R, rank
    <3> QED
      BY <2>1, FS_Bijection DEF ExistsBijection
  <2>3. IsFiniteSet(1..c) /\ Cardinality(1..c) = c
    <3> HIDE DEF c
    <3> QED
      BY <1>1, FS_Interval
  <2>4. R \subseteq 1..c
    BY <1>2
  <2>5. R = 1..c
    <3> HIDE DEF R, c
    <3> QED
      BY <2>2, <2>3, <2>4, FS_Subset
  <2> QED
    BY <2>5
<1> DEFINE s == InOrder(S)
<1>7. s = [n \in 1..c |-> CHOOSE i \in S : Cardinality(Upto(i)) = n]
  BY DEF InOrder
<1>8. ASSUME NEW n \in 1..c PROVE s[n] \in S /\ rank[s[n]] = n
  <2>1. \E i \in S : Cardinality(Upto(i)) = n
    BY <1>2, <1>6
  <2> HIDE DEF Upto
  <2>2. s[n] \in S /\ Cardinality(Upto(s[n])) = n
    BY <1>7, <2>1
  <2> QED
    BY <1>2, <2>2
<1> HIDE DEF c
<1>9. s \in Seq(S) /\ Len(s) = c
  <2>1. s = [n \in 1..c |-> s[n]]
    BY <1>7
  <2>2. \A n \in 1..c : s[n] \in S
    BY <1>8
  <2> HIDE DEF s
  <2>3. s \in [1..c -> S]
    BY <2>1, <2>2
  <2> QED
    BY <1>1, <2>3
<1>10. ASSUME NEW i \in S PROVE s[rank[i]] = i /\ rank[i] \in 1..c
  BY <1>2, <1>4, <1>8
<1> QED
  BY <1>1, <1>9, <1>10 DEF c

\* What a graph needs to be for the rounds: a vector of components.
IsVector(g) == Len(g.comps) \in Nat /\ DOMAIN g.comps = 1..Len(g.comps)

\* A round puts those that are ready behind those that are done.
LEMMA RoundTakes ==
    ASSUME NEW g, IsVector(g), NEW done \in Seq(Live(g))
    PROVE  LET next == Round(g, done)
               ready == Ready(g, done)
           IN  /\ next \in Seq(Live(g)) /\ Len(next) \in Nat /\ Len(next) >= Len(done)
               /\ \A n \in 1..Len(done) : next[n] = done[n]
               /\ \A n \in 1..Len(next) : n > Len(done) => next[n] \in ready
               /\ ToSet(next) = ToSet(done) \cup ready
               /\ ready \subseteq Live(g) \ ToSet(done)
               /\ ready = {} => next = done
<1> DEFINE ready == Ready(g, done)
           s == InOrder(ready)
           next == Round(g, done)
<1>1. ready \subseteq Live(g) \ ToSet(done) /\ ready \in SUBSET Nat /\ ready \subseteq 1..Len(g.comps)
  BY DEF Ready, Live, IsVector
<1>2. IsFiniteSet(ready)
  <2>1. IsFiniteSet(1..Len(g.comps))
    BY FS_Interval DEF IsVector
  <2> QED
    BY <1>1, <2>1, FS_Subset
<1> HIDE DEF ready
<1>3. s \in Seq(ready) /\ Len(s) \in Nat /\ \A i \in ready : \E n \in 1..Len(s) : s[n] = i
  BY <1>1, <1>2, OrderOfAll
<1>4. next = done \o s
  BY DEF Round, ready
<1> HIDE DEF s, next
<1>5. Len(done) \in Nat /\ s \in Seq(Live(g))
  <2>1. ready \subseteq Live(g)
    BY <1>1
  <2>2. s \in [1..Len(s) -> ready]
    BY <1>3
  <2>3. s \in [1..Len(s) -> Live(g)]
    BY <2>1, <2>2
  <2> QED
    BY <1>3, <2>3
<1>6. /\ next \in Seq(Live(g)) /\ Len(next) = Len(done) + Len(s)
      /\ \A n \in 1..(Len(done) + Len(s)) :
            next[n] = IF n <= Len(done) THEN done[n] ELSE s[n - Len(done)]
  BY <1>4, <1>5, ConcatProperties
<1>7. ASSUME NEW n \in 1..Len(next), n > Len(done) PROVE next[n] \in ready
  <2>1. n - Len(done) \in 1..Len(s) /\ next[n] = s[n - Len(done)]
    BY <1>3, <1>5, <1>6, <1>7
  <2> QED
    BY <1>3, <2>1
<1>8. ToSet(next) = ToSet(done) \cup ready
  <2>1. ASSUME NEW i \in ToSet(next) PROVE i \in ToSet(done) \cup ready
    <3>1. PICK n \in 1..Len(next) : next[n] = i
      BY <1>6 DEF ToSet
    <3> QED
      BY <1>3, <1>5, <1>6, <1>7, <3>1 DEF ToSet
  <2>2. ASSUME NEW i \in ToSet(done) PROVE i \in ToSet(next)
    <3>1. PICK n \in 1..Len(done) : done[n] = i
      BY <1>5 DEF ToSet
    <3>2. n \in 1..Len(next) /\ next[n] = i
      BY <1>3, <1>5, <1>6, <3>1
    <3> QED
      BY <1>6, <3>2 DEF ToSet
  <2>3. ASSUME NEW i \in ready PROVE i \in ToSet(next)
    <3>1. PICK n \in 1..Len(s) : s[n] = i
      BY <1>3
    <3>2. /\ n + Len(done) \in 1..(Len(done) + Len(s)) /\ ~(n + Len(done) <= Len(done))
          /\ (n + Len(done)) - Len(done) = n
      BY <1>3, <1>5, <3>1
    <3>3. n + Len(done) \in 1..Len(next) /\ next[n + Len(done)] = i
      BY <1>6, <3>1, <3>2
    <3> QED
      BY <1>6, <3>3 DEF ToSet
  <2> QED
    BY <2>1, <2>2, <2>3
<1>9. ready = {} => next = done
  <2>1. ASSUME ready = {} PROVE Len(s) = 0
    BY <1>3, <2>1
  <2> QED
    BY <1>4, <1>3, <1>5, <1>6, <2>1
<1> QED
  BY <1>1, <1>3, <1>5, <1>6, <1>7, <1>8, <1>9 DEF ready, next

\* Whoever is in the sequence comes after all that it counts as sources.
SourcesBefore(g, s) ==
    \A p \in 1..Len(s) : \A k \in DOMAIN g.comps[s[p]].count :
        k \in ToSet(s) /\ \A q \in 1..Len(s) : s[q] = k => q < p

LEMMA RoundKeepsOrder ==
    ASSUME NEW g, IsVector(g), NEW done \in Seq(Live(g)), SourcesBefore(g, done)
    PROVE  SourcesBefore(g, Round(g, done))
<1> DEFINE ready == Ready(g, done)
<1>1. PICK next : next = Round(g, done)
  OBVIOUS
<1>2. /\ next \in Seq(Live(g)) /\ Len(next) \in Nat /\ Len(done) \in Nat /\ Len(next) >= Len(done)
      /\ \A n \in 1..Len(done) : next[n] = done[n]
      /\ \A n \in 1..Len(next) : n > Len(done) => next[n] \in ready
      /\ ToSet(next) = ToSet(done) \cup ready
      /\ ready \subseteq Live(g) \ ToSet(done)
  BY <1>1, RoundTakes
<1>3. ASSUME NEW p \in 1..Len(next), NEW k \in DOMAIN g.comps[next[p]].count
      PROVE  k \in ToSet(next) /\ \A q \in 1..Len(next) : next[q] = k => q < p
  <2>1. CASE p <= Len(done)
    <3>1. p \in 1..Len(done) /\ k \in DOMAIN g.comps[done[p]].count
      BY <1>2, <1>3, <2>1
    <3>2. k \in ToSet(done) /\ \A q \in 1..Len(done) : done[q] = k => q < p
      BY <3>1 DEF SourcesBefore
    <3>3. ASSUME NEW q \in 1..Len(next), next[q] = k PROVE q <= Len(done)
      BY <1>2, <3>2, <3>3
    <3>4. ASSUME NEW q \in 1..Len(next), next[q] = k PROVE q < p
      <4>1. q \in 1..Len(done)
        BY <1>2, <3>3, <3>4
      <4> QED
        BY <1>2, <3>2, <3>4, <4>1
    <3> QED
      BY <1>2, <3>2, <3>4
  <2>2. CASE p > Len(done)
    <3>1. next[p] \in ready
      BY <1>2, <2>2
    <3>2. k \in ToSet(done)
      BY <1>3, <3>1 DEF Ready
    <3>3. ASSUME NEW q \in 1..Len(next), next[q] = k PROVE q < p
      <4>1. q <= Len(done)
        BY <1>2, <3>2, <3>3
      <4> QED
        BY <1>2, <2>2, <4>1
    <3> QED
      BY <1>2, <3>2, <3>3
  <2> QED
    BY <1>2, <2>1, <2>2
<1> QED
  BY <1>1, <1>3 DEF SourcesBefore

\* As many are done as there were rounds, unless nothing is ready.
LEMMA RoundGoesOn ==
    ASSUME NEW g, IsVector(g), NEW done \in Seq(Live(g)), NEW n \in Nat,
           Ready(g, done) = {} \/ Cardinality(ToSet(done)) >= n
    PROVE  \/ Ready(g, Round(g, done)) = {}
           \/ Cardinality(ToSet(Round(g, done))) >= n + 1
<1>1. PICK next : next = Round(g, done)
  OBVIOUS
<1>2. PICK ready : ready = Ready(g, done)
  OBVIOUS
<1>3. /\ ToSet(next) = ToSet(done) \cup ready /\ ready \subseteq Live(g) \ ToSet(done)
      /\ ready = {} => next = done
  BY <1>1, <1>2, RoundTakes
<1>4. CASE ready = {}
  BY <1>1, <1>2, <1>3, <1>4
<1>5. CASE ready # {}
  <2>1. PICK i \in ready : i \notin ToSet(done)
    BY <1>3, <1>5
  <2>2. ToSet(done) \subseteq Live(g) /\ IsFiniteSet(Live(g))
    <3>1. IsFiniteSet(1..Len(g.comps))
      BY FS_Interval DEF IsVector
    <3>2. Live(g) \subseteq 1..Len(g.comps)
      BY DEF Live, IsVector
    <3>3. IsFiniteSet(Live(g))
      BY <3>1, <3>2, FS_Subset
    <3> QED
      BY <3>3 DEF ToSet
  <2>3. IsFiniteSet(ToSet(done)) /\ IsFiniteSet(ToSet(next))
    <3>1. ToSet(next) \subseteq Live(g)
      BY <1>3, <2>2
    <3> QED
      BY <2>2, <3>1, FS_Subset
  <2>4. PICK c \in Nat : c = Cardinality(ToSet(done))
    BY <2>3, FS_CardinalityType
  <2>5. Cardinality(ToSet(done) \cup {i}) = c + 1
    BY <2>1, <2>3, <2>4, FS_AddElement
  <2>6. Cardinality(ToSet(done) \cup {i}) <= Cardinality(ToSet(next))
    <3>1. ToSet(done) \cup {i} \subseteq ToSet(next)
      BY <1>3, <2>1
    <3> QED
      BY <2>3, <3>1, FS_Subset
  <2>7. Cardinality(ToSet(next)) \in Nat
    BY <2>3, FS_CardinalityType
  <2>8. c >= n
    BY <1>2, <1>5, <2>4
  <2> QED
    BY <1>1, <2>4, <2>5, <2>6, <2>7, <2>8
<1> QED
  BY <1>4, <1>5

\* The sort: sources first, and nothing ready is left.
LEMMA SortEnds ==
    ASSUME NEW g, IsVector(g)
    PROVE  Rounds(g) \in Seq(Live(g)) /\ SourcesBefore(g, Rounds(g)) /\ Ready(g, Rounds(g)) = {}
<1>1. PICK N \in Nat : N = Len(g.comps)
  BY DEF IsVector
<1>2. PICK a : a = After(g)
  OBVIOUS
<1>3. a[0] = <<>> /\ \A n \in 0..N : n < N => a[n + 1] = Round(g, a[n])
  BY <1>1, <1>2, AfterRounds
<1> DEFINE Fine(n) == /\ a[n] \in Seq(Live(g)) /\ SourcesBefore(g, a[n])
                      /\ Ready(g, a[n]) = {} \/ Cardinality(ToSet(a[n])) >= n
           Good == {n \in 0..N : Fine(n)}
<1>4. Fine(0)
  <2>1. <<>> \in Seq(Live(g)) /\ SourcesBefore(g, <<>>)
    BY DEF SourcesBefore
  <2>2. ToSet(<<>>) = {} /\ Cardinality({}) = 0
    BY FS_EmptySet DEF ToSet
  <2>3. ToSet(a[0]) = {} /\ 0 >= 0
    BY <1>3, <2>2
  <2>4. Cardinality(ToSet(a[0])) >= 0
    BY <2>2, <2>3
  <2> QED
    BY <1>3, <2>1, <2>4
<1>5. ASSUME NEW n \in 0..N, n < N, Fine(n) PROVE Fine(n + 1)
  <2>1. a[n + 1] = Round(g, a[n])
    BY <1>3, <1>5
  <2>2. a[n + 1] \in Seq(Live(g))
    BY <1>5, <2>1, RoundTakes
  <2>3. SourcesBefore(g, a[n + 1])
    BY <1>5, <2>1, RoundKeepsOrder
  <2>4. Ready(g, a[n + 1]) = {} \/ Cardinality(ToSet(a[n + 1])) >= n + 1
    BY <1>5, <2>1, RoundGoesOn
  <2> QED
    BY <2>2, <2>3, <2>4
<1>6. Fine(N)
  <2>1. Good \in SUBSET (0..N) /\ 0 \in Good /\ \A n \in Good : n < N => n + 1 \in Good
    <3> HIDE DEF Fine
    <3> QED
      BY <1>4, <1>5
  <2>2. \A n \in 0..N : n \in Good
    <3> HIDE DEF Good
    <3> QED
      BY <2>1, Upwards
  <2> HIDE DEF Fine
  <2> QED
    BY <2>2
<1>7. Ready(g, a[N]) = {}
  <2> SUFFICES ASSUME Cardinality(ToSet(a[N])) >= N PROVE Ready(g, a[N]) = {}
    BY <1>6
  <2>1. ToSet(a[N]) \subseteq Live(g) /\ Live(g) \subseteq 1..N
    BY <1>1, <1>6 DEF ToSet, Live, IsVector
  <2>2. IsFiniteSet(1..N) /\ Cardinality(1..N) = N
    BY FS_Interval
  <2>3. ToSet(a[N]) \subseteq 1..N
    BY <2>1
  <2>4. Cardinality(ToSet(a[N])) <= N /\ (Cardinality(ToSet(a[N])) = N => ToSet(a[N]) = 1..N)
    BY <2>2, <2>3, FS_Subset
  <2>5. Cardinality(ToSet(a[N])) \in Nat
    BY <2>2, <2>3, FS_Subset, FS_CardinalityType
  <2>6. ToSet(a[N]) = 1..N
    BY <2>4, <2>5
  <2> QED
    BY <2>1, <2>6 DEF Ready
<1>8. Rounds(g) = a[N]
  BY <1>1, <1>2 DEF Rounds
<1> QED
  BY <1>6, <1>7, <1>8

-----------------------------------------------------------------------------
(* Counting in sequences.                                                  *)

\* The places of a sequence where there is one of M.
Hits(q, M) == {n \in DOMAIN q : q[n] \in M}
One(b) == IF b THEN 1 ELSE 0

LEMMA HitsFinite ==
    ASSUME NEW T, NEW q \in Seq(T), NEW M
    PROVE  IsFiniteSet(Hits(q, M)) /\ Cardinality(Hits(q, M)) \in Nat
<1>1. Hits(q, M) \subseteq 1..Len(q) /\ Len(q) \in Nat
  BY DEF Hits
<1>2. IsFiniteSet(1..Len(q))
  BY <1>1, FS_Interval
<1> QED
  BY <1>1, <1>2, FS_Subset, FS_CardinalityType

LEMMA HitsOfNothing ==
    ASSUME NEW M
    PROVE  Cardinality(Hits(<<>>, M)) = 0
BY FS_EmptySet DEF Hits

LEMMA HitsAppend ==
    ASSUME NEW T, NEW q \in Seq(T), NEW x \in T, NEW M
    PROVE  Cardinality(Hits(Append(q, x), M)) = Cardinality(Hits(q, M)) + One(x \in M)
<1>1. PICK n \in Nat : n = Len(q)
  OBVIOUS
<1>2. PICK r : r = Append(q, x)
  OBVIOUS
<1>3. r \in Seq(T) /\ Len(r) = n + 1 /\ r[n + 1] = x /\ \A m \in 1..n : r[m] = q[m]
  BY <1>1, <1>2
<1>4. DOMAIN r = 1..(n + 1) /\ DOMAIN q = 1..n /\ n + 1 \notin 1..n
  BY <1>1, <1>3
<1>5. CASE x \in M
  <2>1. Hits(r, M) = Hits(q, M) \cup {n + 1} /\ n + 1 \notin Hits(q, M)
    BY <1>3, <1>4, <1>5 DEF Hits
  <2> QED
    BY <1>2, <1>5, <2>1, HitsFinite, FS_AddElement DEF One
<1>6. CASE x \notin M
  <2>1. Hits(r, M) = Hits(q, M)
    BY <1>3, <1>4, <1>6 DEF Hits
  <2>2. Cardinality(Hits(q, M)) \in Nat
    BY HitsFinite
  <2> QED
    BY <1>2, <1>6, <2>1, <2>2 DEF One
<1> QED
  BY <1>5, <1>6

LEMMA HitsPut ==
    ASSUME NEW T, NEW q \in Seq(T), NEW x \in T, NEW n \in DOMAIN q, NEW M, q[n] \notin M
    PROVE  Cardinality(Hits([q EXCEPT ![n] = x], M)) = Cardinality(Hits(q, M)) + One(x \in M)
<1>1. PICK r : r = [q EXCEPT ![n] = x]
  OBVIOUS
<1>2. DOMAIN r = DOMAIN q /\ \A m \in DOMAIN q : r[m] = IF m = n THEN x ELSE q[m]
  BY <1>1
<1>3. CASE x \in M
  <2>1. Hits(r, M) = Hits(q, M) \cup {n} /\ n \notin Hits(q, M)
    BY <1>2, <1>3 DEF Hits
  <2> QED
    BY <1>1, <1>3, <2>1, HitsFinite, FS_AddElement DEF One
<1>4. CASE x \notin M
  <2>1. Hits(r, M) = Hits(q, M)
    BY <1>2, <1>4 DEF Hits
  <2>2. Cardinality(Hits(q, M)) \in Nat
    BY HitsFinite
  <2> QED
    BY <1>1, <1>4, <2>1, <2>2 DEF One
<1> QED
  BY <1>3, <1>4

\* What Vec::swap_remove leaves.
LEMMA SwapRemoved ==
    ASSUME NEW T, NEW q \in Seq(T), NEW n \in DOMAIN q, NEW r, r = SwapRemove(q, n)
    PROVE  /\ r \in Seq(T) /\ Len(r) = Len(q) - 1 /\ Len(q) \in Nat \ {0}
           /\ \A m \in 1..(Len(q) - 1) : r[m] = IF m = n THEN q[Len(q)] ELSE q[m]
<1>1. PICK k : k = Len(q)
  OBVIOUS
<1>2. k \in Nat \ {0} /\ DOMAIN q = 1..k /\ n \in 1..k /\ q[k] \in T
  BY <1>1
<1>3. PICK p : p = [q EXCEPT ![n] = q[k]]
  OBVIOUS
<1>4. p \in Seq(T) /\ Len(p) = k /\ \A m \in 1..k : p[m] = IF m = n THEN q[k] ELSE q[m]
  BY <1>1, <1>2, <1>3
<1>5. r = SubSeq(p, 1, k - 1)
  BY <1>1, <1>3 DEF SwapRemove
<1>6. r \in Seq(T) /\ Len(r) = k - 1 /\ \A m \in 1..(k - 1) : r[m] = p[m]
  <2>1. \A m \in 1..(k - 1) : m \in 1..k /\ p[m] \in T
    BY <1>2, <1>4
  <2>2. k - 1 \in Nat /\ k - 1 <= Len(p)
    BY <1>2, <1>4
  <2> QED
    BY <1>4, <1>5, <2>1, <2>2, SubSeqProperties
<1> QED
  BY <1>1, <1>2, <1>4, <1>6

LEMMA HitsSwapRemove ==
    ASSUME NEW T, NEW q \in Seq(T), NEW n \in DOMAIN q, NEW M
    PROVE  Cardinality(Hits(q, M)) = Cardinality(Hits(SwapRemove(q, n), M)) + One(q[n] \in M)
<1>1. PICK r : r = SwapRemove(q, n)
  OBVIOUS
<1>2. PICK k : k = Len(q)
  OBVIOUS
<1>3. /\ r \in Seq(T) /\ Len(r) = k - 1 /\ k \in Nat \ {0}
      /\ \A m \in 1..(k - 1) : r[m] = IF m = n THEN q[k] ELSE q[m]
  <2>1. /\ r \in Seq(T) /\ Len(r) = Len(q) - 1 /\ Len(q) \in Nat \ {0}
        /\ \A m \in 1..(Len(q) - 1) : r[m] = IF m = n THEN q[Len(q)] ELSE q[m]
    BY <1>1, SwapRemoved
  <2> QED
    BY <1>2, <2>1
<1>4. DOMAIN q = 1..k /\ DOMAIN r = 1..(k - 1) /\ n \in 1..k
  BY <1>2, <1>3
<1>5. PICK A : A = Hits(q, M) \ {n}
  OBVIOUS
<1>6. IsFiniteSet(Hits(q, M)) /\ Cardinality(Hits(q, M)) \in Nat
  BY HitsFinite
<1>7. IsFiniteSet(A) /\ Cardinality(Hits(q, M)) = Cardinality(A) + One(q[n] \in M)
  <2>1. CASE q[n] \in M
    <3>1. n \in Hits(q, M)
      BY <2>1 DEF Hits
    <3>2. IsFiniteSet(A) /\ Cardinality(A) = Cardinality(Hits(q, M)) - 1
      BY <1>5, <1>6, <3>1, FS_RemoveElement
    <3> QED
      BY <1>6, <2>1, <3>2 DEF One
  <2>2. CASE q[n] \notin M
    <3>1. A = Hits(q, M)
      BY <1>5, <2>2 DEF Hits
    <3> QED
      BY <1>6, <2>2, <3>1 DEF One
  <2> QED
    BY <2>1, <2>2
<1>8. Cardinality(Hits(r, M)) = Cardinality(A)
  <2>1. PICK f : f = [m \in Hits(r, M) |-> IF m = n THEN k ELSE m]
    OBVIOUS
  <2>2. ASSUME NEW m \in Hits(r, M)
        PROVE  m \in 1..(k - 1) /\ f[m] \in A /\ f[m] = IF m = n THEN k ELSE m
    <3>1. m \in 1..(k - 1) /\ r[m] \in M
      BY <1>4 DEF Hits
    <3>2. f[m] = IF m = n THEN k ELSE m
      BY <2>1
    <3>3. f[m] \in 1..k /\ f[m] # n
      BY <1>3, <1>4, <3>1, <3>2
    <3>4. q[f[m]] = r[m]
      BY <1>3, <3>1, <3>2
    <3> QED
      BY <1>4, <1>5, <3>1, <3>2, <3>3, <3>4 DEF Hits
  <2>3. ASSUME NEW a \in A PROVE \E m \in Hits(r, M) : f[m] = a
    <3>1. a \in 1..k /\ q[a] \in M /\ a # n
      BY <1>4, <1>5 DEF Hits
    <3>2. CASE a = k
      <4>1. n \in 1..(k - 1) /\ r[n] = q[k]
        BY <1>3, <1>4, <3>1, <3>2
      <4>2. n \in Hits(r, M)
        BY <1>4, <3>1, <3>2, <4>1 DEF Hits
      <4> QED
        BY <2>2, <3>2, <4>2
    <3>3. CASE a # k
      <4>1. a \in 1..(k - 1) /\ r[a] = q[a]
        BY <1>3, <3>1, <3>3
      <4>2. a \in Hits(r, M)
        BY <1>4, <3>1, <4>1 DEF Hits
      <4> QED
        BY <2>2, <3>1, <4>2
    <3> QED
      BY <3>2, <3>3
  <2>4. ASSUME NEW m \in Hits(r, M), NEW o \in Hits(r, M), f[m] = f[o] PROVE m = o
    <3>1. /\ m \in 1..(k - 1) /\ f[m] = IF m = n THEN k ELSE m
          /\ o \in 1..(k - 1) /\ f[o] = IF o = n THEN k ELSE o
      BY <2>2
    <3>2. m # k /\ o # k
      BY <1>3, <3>1
    <3>3. CASE m = n
      BY <2>4, <3>1, <3>2, <3>3
    <3>4. CASE m # n
      BY <2>4, <3>1, <3>2, <3>4
    <3> QED
      BY <3>3, <3>4
  <2>5. f \in Bijection(Hits(r, M), A)
    <3>1. f \in [Hits(r, M) -> A]
      BY <2>1, <2>2
    <3> QED
      BY <2>3, <2>4, <3>1 DEF Bijection, Injection, Surjection, IsInjective
  <2>6. IsFiniteSet(Hits(r, M))
    BY <1>3, HitsFinite
  <2> QED
    BY <2>5, <2>6, FS_Bijection DEF ExistsBijection
<1> QED
  BY <1>1, <1>7, <1>8

-----------------------------------------------------------------------------
(* The components.                                                         *)

AllChans == Channels \cup (UNION {ToSet(type.ins) : type \in Types}) \cup {""}
Srcs == [id : Nat, flag : BOOLEAN, chan : AllChans]
Ins == [chan : AllChans, src : Srcs]
Multis == [chan : AllChans, optional : BOOLEAN, srcs : Seq(Srcs)]
Outs == UNION {[D -> Seq(Srcs)] : D \in SUBSET AllChans}
Counts == UNION {[D -> Nat] : D \in SUBSET Nat}
Comps == [type : Types, name : Names, named : BOOLEAN, single : Seq(Ins), multi : Multis,
          outs : Outs, count : Counts]

\* The records of one source, as an input and as one of several sources of an input.
InsOf(s, sc, dc) == {x \in Ins : x.chan = dc /\ x.src.id = s /\ x.src.chan = sc}
SrcsOf(s, sc) == {y \in Srcs : y.id = s /\ y.chan = sc}

\* What inputs say of the sources they have: TimesHeard, and the ids of FedBy.
Times(q, m, s, sc, dc) ==
    Cardinality(Hits(q, InsOf(s, sc, dc)))
    + IF m = NoMulti \/ m.chan # dc THEN 0 ELSE Cardinality(Hits(m.srcs, SrcsOf(s, sc)))
FedFrom(q, m, k) ==
    \/ \E n \in DOMAIN q : q[n].src # NoSrc /\ q[n].src.id = k
    \/ \E n \in DOMAIN m.srcs : m.srcs[n].id = k

LEMMA NoneTypes == NoSrc \in Srcs /\ NoSrc.id = 0 /\ NoMulti \in Multis
<1>1. "" \in AllChans
  BY DEF AllChans
<1>2. NoSrc \in Srcs /\ NoSrc.id = 0
  BY <1>1 DEF NoSrc, Src, Srcs
<1>3. <<>> \in Seq(Srcs)
  OBVIOUS
<1>4. NoMulti \in Multis
  <2>1. NoMulti = [chan |-> "", optional |-> FALSE, srcs |-> <<>>]
    BY DEF NoMulti
  <2> QED
    BY <1>1, <1>3, <2>1 DEF Multis
<1> QED
  BY <1>2, <1>4

LEMMA HeardTimes ==
    ASSUME NEW c \in Comps, NEW s, NEW sc, NEW dc
    PROVE  TimesHeard(c, s, sc, dc) = Times(c.single, c.multi, s, sc, dc)
<1>1. c.single \in Seq(Ins) /\ c.multi.srcs \in Seq(Srcs)
  BY DEF Comps, Multis
<1>2. {n \in DOMAIN c.single : /\ c.single[n].chan = dc
                               /\ c.single[n].src.id = s /\ c.single[n].src.chan = sc}
        = Hits(c.single, InsOf(s, sc, dc))
  <2>1. \A n \in DOMAIN c.single : c.single[n] \in Ins
    BY <1>1
  <2> QED
    BY <2>1 DEF Hits, InsOf
<1>3. {n \in DOMAIN c.multi.srcs : c.multi.srcs[n].id = s /\ c.multi.srcs[n].chan = sc}
        = Hits(c.multi.srcs, SrcsOf(s, sc))
  <2>1. \A n \in DOMAIN c.multi.srcs : c.multi.srcs[n] \in Srcs
    BY <1>1
  <2> QED
    BY <2>1 DEF Hits, SrcsOf
<1> QED
  BY <1>2, <1>3 DEF TimesHeard, Times

LEMMA FedIds ==
    ASSUME NEW c \in Comps
    PROVE  \A k : k \in {s.id : s \in FedBy(c)} <=> FedFrom(c.single, c.multi, k)
<1>1. \A s : s \in FedBy(c) <=> \/ \E n \in DOMAIN c.single : c.single[n].src # NoSrc /\ c.single[n].src = s
                                \/ \E n \in DOMAIN c.multi.srcs : c.multi.srcs[n] = s
  BY DEF FedBy, ToSet
<1> QED
  BY <1>1 DEF FedFrom

\* How the inputs of a component change when it is given the source src for ch.
Gains(c, q, m, src, ch) ==
    /\ q \in Seq(Ins) /\ m \in Multis
    /\ \A k : FedFrom(q, m, k) <=> FedFrom(c.single, c.multi, k) \/ k = src.id
    /\ \A s \in Nat \ {0} : \A sc, dc :
          Times(q, m, s, sc, dc) = Times(c.single, c.multi, s, sc, dc)
                                   + One(s = src.id /\ sc = src.chan /\ dc = ch)

\* One more input.
LEMMA GainsInput ==
    ASSUME NEW c \in Comps, NEW src \in Srcs, src.id # 0, NEW ch \in AllChans, NEW b \in BOOLEAN
    PROVE  Gains(c, Append(c.single, Input(ch, [src EXCEPT !.flag = b])), c.multi, src, ch)
<1>1. PICK x : x = Input(ch, [src EXCEPT !.flag = b])
  OBVIOUS
<1>2. /\ x \in Ins /\ x.chan = ch /\ x.src.id = src.id /\ x.src.chan = src.chan
      /\ x.src # NoSrc
  <2>1. x.chan = ch /\ x.src = [src EXCEPT !.flag = b]
    BY <1>1 DEF Input
  <2>2. x.src \in Srcs /\ x.src.id = src.id /\ x.src.chan = src.chan
    BY <2>1 DEF Srcs
  <2>3. x.src # NoSrc
    BY <2>2, NoneTypes
  <2> QED
    BY <1>1, <2>1, <2>2, <2>3 DEF Input, Ins
<1>3. c.single \in Seq(Ins) /\ c.multi \in Multis
  BY DEF Comps
<1>4. PICK q : q = Append(c.single, x)
  OBVIOUS
<1>5. PICK n \in Nat : n = Len(c.single)
  BY <1>3
<1>6. /\ q \in Seq(Ins) /\ DOMAIN q = 1..(n + 1) /\ DOMAIN c.single = 1..n
      /\ q[n + 1] = x /\ \A k \in 1..n : q[k] = c.single[k]
  BY <1>2, <1>3, <1>4, <1>5
<1>7. \A k : FedFrom(q, c.multi, k) <=> FedFrom(c.single, c.multi, k) \/ k = src.id
  <2>1. \A k \in 1..(n + 1) : k \in 1..n \/ k = n + 1
    BY <1>5
  <2>2. 1..n \subseteq 1..(n + 1) /\ n + 1 \in 1..(n + 1)
    BY <1>5
  <2>3. ASSUME NEW k, FedFrom(q, c.multi, k) PROVE FedFrom(c.single, c.multi, k) \/ k = src.id
    BY <1>2, <1>6, <2>1, <2>3 DEF FedFrom
  <2>4. ASSUME NEW k, FedFrom(c.single, c.multi, k) \/ k = src.id PROVE FedFrom(q, c.multi, k)
    BY <1>2, <1>6, <2>2, <2>4 DEF FedFrom
  <2> QED
    BY <2>3, <2>4
<1>8. ASSUME NEW s \in Nat \ {0}, NEW sc, NEW dc
      PROVE  Times(q, c.multi, s, sc, dc) = Times(c.single, c.multi, s, sc, dc)
                                            + One(s = src.id /\ sc = src.chan /\ dc = ch)
  <2>1. PICK M : M = InsOf(s, sc, dc)
    OBVIOUS
  <2>2. Cardinality(Hits(q, M)) = Cardinality(Hits(c.single, M)) + One(x \in M)
    BY <1>2, <1>3, <1>4, HitsAppend
  <2>3. x \in M <=> s = src.id /\ sc = src.chan /\ dc = ch
    BY <1>2, <2>1 DEF InsOf
  <2>4. One(x \in M) = One(s = src.id /\ sc = src.chan /\ dc = ch)
    <3>1. CASE x \in M
      BY <2>3, <3>1 DEF One
    <3>2. CASE x \notin M
      BY <2>3, <3>2 DEF One
    <3> QED
      BY <3>1, <3>2
  <2>5. Cardinality(Hits(c.single, M)) \in Nat /\ One(x \in M) \in Nat
    BY <1>3, HitsFinite DEF One
  <2>6. PICK r \in Nat : r = IF c.multi = NoMulti \/ c.multi.chan # dc THEN 0
                             ELSE Cardinality(Hits(c.multi.srcs, SrcsOf(s, sc)))
    <3>1. c.multi.srcs \in Seq(Srcs)
      BY <1>3 DEF Multis
    <3> QED
      BY <3>1, HitsFinite
  <2>7. /\ Times(q, c.multi, s, sc, dc) = Cardinality(Hits(q, M)) + r
        /\ Times(c.single, c.multi, s, sc, dc) = Cardinality(Hits(c.single, M)) + r
    BY <2>1, <2>6 DEF Times
  <2> QED
    BY <2>2, <2>4, <2>5, <2>7
<1>9. Gains(c, q, c.multi, src, ch)
  BY <1>3, <1>6, <1>7, <1>8 DEF Gains
<1> QED
  BY <1>1, <1>4, <1>9

\* The second and every later source of an input.
LEMMA GainsSource ==
    ASSUME NEW c \in Comps, NEW src \in Srcs, src.id # 0, NEW ch,
           c.multi # NoMulti, c.multi.chan = ch
    PROVE  Gains(c, c.single, [c.multi EXCEPT !.srcs = Append(@, src)], src, ch)
<1>1. c.single \in Seq(Ins) /\ c.multi \in Multis /\ c.multi.srcs \in Seq(Srcs)
  BY DEF Comps, Multis
<1>2. PICK p : p = Append(c.multi.srcs, src)
  OBVIOUS
<1>3. PICK n \in Nat : n = Len(c.multi.srcs)
  BY <1>1
<1>4. /\ p \in Seq(Srcs) /\ DOMAIN p = 1..(n + 1) /\ DOMAIN c.multi.srcs = 1..n
      /\ p[n + 1] = src /\ \A k \in 1..n : p[k] = c.multi.srcs[k]
  BY <1>1, <1>2, <1>3
<1>5. PICK m : m = [c.multi EXCEPT !.srcs = Append(@, src)]
  OBVIOUS
<1>6. m \in Multis /\ m.chan = c.multi.chan /\ m.srcs = p
  BY <1>1, <1>2, <1>4, <1>5 DEF Multis
<1>7. m # NoMulti
  <2>1. Len(m.srcs) = n + 1 /\ n + 1 # 0
    BY <1>1, <1>2, <1>3, <1>6
  <2>2. NoMulti.srcs = <<>> /\ Len(<<>>) = 0
    BY DEF NoMulti
  <2> QED
    BY <2>1, <2>2
<1>8. \A k : FedFrom(c.single, m, k) <=> FedFrom(c.single, c.multi, k) \/ k = src.id
  <2>1. \A k \in 1..(n + 1) : k \in 1..n \/ k = n + 1
    BY <1>3
  <2>2. 1..n \subseteq 1..(n + 1) /\ n + 1 \in 1..(n + 1)
    BY <1>3
  <2>3. ASSUME NEW k, FedFrom(c.single, m, k)
        PROVE  FedFrom(c.single, c.multi, k) \/ k = src.id
    BY <1>4, <1>6, <2>1, <2>3 DEF FedFrom
  <2>4. ASSUME NEW k, FedFrom(c.single, c.multi, k) \/ k = src.id
        PROVE  FedFrom(c.single, m, k)
    BY <1>4, <1>6, <2>2, <2>4 DEF FedFrom
  <2> QED
    BY <2>3, <2>4
<1>9. ASSUME NEW s \in Nat \ {0}, NEW sc, NEW dc
      PROVE  Times(c.single, m, s, sc, dc) = Times(c.single, c.multi, s, sc, dc)
                                             + One(s = src.id /\ sc = src.chan /\ dc = ch)
  <2>1. PICK h \in Nat : h = Cardinality(Hits(c.single, InsOf(s, sc, dc)))
    BY <1>1, HitsFinite
  <2>2. CASE dc # ch
    <3>1. Times(c.single, m, s, sc, dc) = h + 0 /\ Times(c.single, c.multi, s, sc, dc) = h + 0
      BY <1>6, <2>1, <2>2 DEF Times
    <3> QED
      BY <2>2, <3>1 DEF One
  <2>3. CASE dc = ch
    <3>1. PICK M : M = SrcsOf(s, sc)
      OBVIOUS
    <3>2. Cardinality(Hits(p, M)) = Cardinality(Hits(c.multi.srcs, M)) + One(src \in M)
      BY <1>1, <1>2, HitsAppend
    <3>3. src \in M <=> s = src.id /\ sc = src.chan /\ dc = ch
      BY <2>3, <3>1 DEF SrcsOf
    <3>4. One(src \in M) = One(s = src.id /\ sc = src.chan /\ dc = ch)
      <4>1. CASE src \in M
        BY <3>3, <4>1 DEF One
      <4>2. CASE src \notin M
        BY <3>3, <4>2 DEF One
      <4> QED
        BY <4>1, <4>2
    <3>5. Cardinality(Hits(c.multi.srcs, M)) \in Nat /\ One(src \in M) \in Nat
      BY <1>1, HitsFinite DEF One
    <3>6. /\ Times(c.single, m, s, sc, dc) = h + Cardinality(Hits(p, M))
          /\ Times(c.single, c.multi, s, sc, dc) = h + Cardinality(Hits(c.multi.srcs, M))
      BY <1>6, <1>7, <2>1, <2>3, <3>1 DEF Times
    <3> QED
      BY <3>2, <3>4, <3>5, <3>6
  <2> QED
    BY <2>2, <2>3
<1>10. Gains(c, c.single, m, src, ch)
  BY <1>1, <1>6, <1>8, <1>9 DEF Gains
<1> QED
  BY <1>5, <1>10

\* An input that was open.
LEMMA GainsSlot ==
    ASSUME NEW c \in Comps, NEW src \in Srcs, src.id # 0, NEW ch,
           NEW n \in DOMAIN c.single, c.single[n].chan = ch, c.single[n].src = NoSrc
    PROVE  Gains(c, [c.single EXCEPT ![n].src = src], c.multi, src, ch)
<1>1. c.single \in Seq(Ins) /\ c.multi \in Multis /\ c.single[n] \in Ins
  BY DEF Comps
<1>2. PICK x : x = [c.single[n] EXCEPT !.src = src]
  OBVIOUS
<1>3. x \in Ins /\ x.chan = ch /\ x.src = src
  BY <1>1, <1>2 DEF Ins
<1>4. PICK q : q = [c.single EXCEPT ![n] = x]
  OBVIOUS
<1>5. q = [c.single EXCEPT ![n].src = src]
  BY <1>2, <1>4
<1>6. /\ q \in Seq(Ins) /\ DOMAIN q = DOMAIN c.single /\ q[n] = x
      /\ \A k \in DOMAIN c.single : k # n => q[k] = c.single[k]
  BY <1>1, <1>3, <1>4
<1>7. src # NoSrc
  BY NoneTypes
<1>8. \A k : FedFrom(q, c.multi, k) <=> FedFrom(c.single, c.multi, k) \/ k = src.id
  <2>1. ASSUME NEW k, FedFrom(q, c.multi, k)
        PROVE  FedFrom(c.single, c.multi, k) \/ k = src.id
    BY <1>3, <1>6, <2>1 DEF FedFrom
  <2>2. ASSUME NEW k, FedFrom(c.single, c.multi, k) \/ k = src.id
        PROVE  FedFrom(q, c.multi, k)
    BY <1>3, <1>6, <1>7, <2>2 DEF FedFrom
  <2> QED
    BY <2>1, <2>2
<1>9. ASSUME NEW s \in Nat \ {0}, NEW sc, NEW dc
      PROVE  Times(q, c.multi, s, sc, dc) = Times(c.single, c.multi, s, sc, dc)
                                            + One(s = src.id /\ sc = src.chan /\ dc = ch)
  <2>1. PICK M : M = InsOf(s, sc, dc)
    OBVIOUS
  <2>2. c.single[n] \notin M
    BY <2>1, NoneTypes DEF InsOf
  <2>3. Cardinality(Hits(q, M)) = Cardinality(Hits(c.single, M)) + One(x \in M)
    BY <1>1, <1>3, <1>4, <2>2, HitsPut
  <2>4. x \in M <=> s = src.id /\ sc = src.chan /\ dc = ch
    BY <1>3, <2>1 DEF InsOf
  <2>5. One(x \in M) = One(s = src.id /\ sc = src.chan /\ dc = ch)
    <3>1. CASE x \in M
      BY <2>4, <3>1 DEF One
    <3>2. CASE x \notin M
      BY <2>4, <3>2 DEF One
    <3> QED
      BY <3>1, <3>2
  <2>6. Cardinality(Hits(c.single, M)) \in Nat /\ One(x \in M) \in Nat
    BY <1>1, HitsFinite DEF One
  <2>7. PICK r \in Nat : r = IF c.multi = NoMulti \/ c.multi.chan # dc THEN 0
                             ELSE Cardinality(Hits(c.multi.srcs, SrcsOf(s, sc)))
    <3>1. c.multi.srcs \in Seq(Srcs)
      BY <1>1 DEF Multis
    <3> QED
      BY <3>1, HitsFinite
  <2>8. /\ Times(q, c.multi, s, sc, dc) = Cardinality(Hits(q, M)) + r
        /\ Times(c.single, c.multi, s, sc, dc) = Cardinality(Hits(c.single, M)) + r
    BY <2>1, <2>7 DEF Times
  <2> QED
    BY <2>3, <2>5, <2>6, <2>8
<1>10. Gains(c, q, c.multi, src, ch)
  BY <1>1, <1>6, <1>8, <1>9 DEF Gains
<1> QED
  BY <1>5, <1>10

\* The second source of an input of one source, which becomes an input of several.
LEMMA GainsSecond ==
    ASSUME NEW c \in Comps, NEW src \in Srcs, src.id # 0, NEW ch \in AllChans,
           NEW n \in DOMAIN c.single, c.single[n].chan = ch, c.single[n].src # NoSrc,
           c.multi = NoMulti
    PROVE  Gains(c, SwapRemove(c.single, n),
                 [chan     |-> ch,
                  optional |-> c.single[n].src.flag,
                  srcs     |-> <<[c.single[n].src EXCEPT !.flag = FALSE], src>>],
                 src, ch)
<1>1. c.single \in Seq(Ins) /\ c.single[n] \in Ins /\ c.single[n].src \in Srcs
  <2>1. c.single \in Seq(Ins)
    BY DEF Comps
  <2>2. c.single[n] \in Ins
    BY <2>1
  <2> QED
    BY <2>1, <2>2 DEF Ins
<1>2. PICK old : old = c.single[n].src
  OBVIOUS
<1>3. PICK new : new = [old EXCEPT !.flag = FALSE]
  OBVIOUS
<1>4. /\ old \in Srcs /\ old.flag \in BOOLEAN
      /\ new \in Srcs /\ new.id = old.id /\ new.chan = old.chan
  BY <1>1, <1>2, <1>3 DEF Srcs
<1>5. PICK p : p = <<new, src>>
  OBVIOUS
<1>6. p \in Seq(Srcs) /\ Len(p) = 2 /\ DOMAIN p = 1..2 /\ p[1] = new /\ p[2] = src
  BY <1>4, <1>5
<1>7. PICK m : m = [chan |-> ch, optional |-> old.flag, srcs |-> p]
  OBVIOUS
<1>8. m \in Multis /\ m.chan = ch /\ m.srcs = p
  BY <1>4, <1>6, <1>7 DEF Multis
<1>9. m # NoMulti
  <2>1. Len(NoMulti.srcs) = 0
    BY DEF NoMulti
  <2>2. Len(m.srcs) = 2
    BY <1>6, <1>8
  <2>3. Len(m.srcs) # Len(NoMulti.srcs)
    BY <2>1, <2>2
  <2> QED
    BY <2>3
<1>10. PICK q : q = SwapRemove(c.single, n)
  OBVIOUS
<1>11. PICK l \in Nat \ {0} : l = Len(c.single)
  BY <1>1, <1>10, SwapRemoved
<1>12. /\ q \in Seq(Ins) /\ DOMAIN q = 1..(l - 1) /\ DOMAIN c.single = 1..l
       /\ \A k \in 1..(l - 1) : q[k] = IF k = n THEN c.single[l] ELSE c.single[k]
  <2>0. PICK s \in Seq(Ins) : s = c.single
    BY <1>1
  <2>1. /\ q \in Seq(Ins) /\ Len(q) = Len(s) - 1
        /\ \A k \in 1..(Len(s) - 1) : q[k] = IF k = n THEN s[Len(s)] ELSE s[k]
    <3>1. n \in DOMAIN s /\ q = SwapRemove(s, n)
      BY <1>10, <2>0
    <3> QED
      BY <3>1, SwapRemoved
  <2> QED
    BY <1>1, <1>11, <2>0, <2>1
<1>13. DOMAIN c.multi.srcs = {}
  <2>1. NoMulti.srcs = <<>>
    BY DEF NoMulti
  <2>2. DOMAIN <<>> = {}
    OBVIOUS
  <2> QED
    BY <2>1, <2>2
<1>14. \A k : FedFrom(q, m, k) <=> FedFrom(c.single, c.multi, k) \/ k = src.id
  <2>1. ASSUME NEW k, FedFrom(q, m, k)
        PROVE  FedFrom(c.single, c.multi, k) \/ k = src.id
    <3>1. CASE \E j \in DOMAIN q : q[j].src # NoSrc /\ q[j].src.id = k
      <4>1. PICK j \in 1..(l - 1) : q[j].src # NoSrc /\ q[j].src.id = k
        BY <1>12, <3>1
      <4>2. j \in 1..l /\ l \in 1..l /\ (q[j] = c.single[j] \/ q[j] = c.single[l])
        BY <1>11, <1>12, <4>1
      <4> QED
        BY <1>12, <4>1, <4>2 DEF FedFrom
    <3>2. CASE \E j \in DOMAIN m.srcs : m.srcs[j].id = k
      <4>1. k = old.id \/ k = src.id
        BY <1>4, <1>6, <1>8, <3>2
      <4>2. FedFrom(c.single, c.multi, old.id)
        BY <1>2 DEF FedFrom
      <4> QED
        BY <4>1, <4>2
    <3> QED
      BY <2>1, <3>1, <3>2 DEF FedFrom
  <2>2. ASSUME NEW k, FedFrom(c.single, c.multi, k) PROVE FedFrom(q, m, k)
    <3>1. PICK j \in 1..l : c.single[j].src # NoSrc /\ c.single[j].src.id = k
      BY <1>12, <1>13, <2>2 DEF FedFrom
    <3>2. CASE j = n
      <4>1. 1 \in DOMAIN m.srcs /\ m.srcs[1].id = k
        BY <1>2, <1>4, <1>6, <1>8, <3>1, <3>2
      <4> QED
        BY <4>1 DEF FedFrom
    <3>3. CASE j # n /\ j = l
      <4>1. n \in 1..(l - 1) /\ q[n] = c.single[j]
        BY <1>11, <1>12, <3>3
      <4> QED
        BY <1>12, <3>1, <4>1 DEF FedFrom
    <3>4. CASE j # n /\ j # l
      <4>1. j \in 1..(l - 1) /\ q[j] = c.single[j]
        BY <1>11, <1>12, <3>4
      <4> QED
        BY <1>12, <3>1, <4>1 DEF FedFrom
    <3> QED
      BY <3>2, <3>3, <3>4
  <2>3. FedFrom(q, m, src.id)
    <3>1. 2 \in DOMAIN m.srcs /\ m.srcs[2].id = src.id
      BY <1>6, <1>8
    <3> QED
      BY <3>1 DEF FedFrom
  <2> QED
    BY <2>1, <2>2, <2>3
<1>15. ASSUME NEW s \in Nat \ {0}, NEW sc, NEW dc
       PROVE  Times(q, m, s, sc, dc) = Times(c.single, c.multi, s, sc, dc)
                                       + One(s = src.id /\ sc = src.chan /\ dc = ch)
  <2>1. PICK M : M = InsOf(s, sc, dc)
    OBVIOUS
  <2>2. PICK I : I = SrcsOf(s, sc)
    OBVIOUS
  <2>3. Cardinality(Hits(c.single, M)) = Cardinality(Hits(q, M)) + One(c.single[n] \in M)
    BY <1>1, <1>10, HitsSwapRemove
  <2>4. Cardinality(Hits(p, I)) = One(new \in I) + One(src \in I)
    <3>1. Cardinality(Hits(<<>>, I)) = 0
      BY HitsOfNothing
    <3>2. PICK o : o = Append(<<>>, new)
      OBVIOUS
    <3>3. o \in Seq(Srcs) /\ p = Append(o, src)
      BY <1>4, <1>5, <3>2
    <3>4. <<>> \in Seq(Srcs)
      OBVIOUS
    <3>5. Cardinality(Hits(o, I)) = Cardinality(Hits(<<>>, I)) + One(new \in I)
      BY <1>4, <3>2, <3>4, HitsAppend
    <3>6. Cardinality(Hits(p, I)) = Cardinality(Hits(o, I)) + One(src \in I)
      BY <3>3, HitsAppend
    <3>7. One(new \in I) \in Nat
      BY DEF One
    <3> QED
      BY <3>1, <3>5, <3>6, <3>7
  <2>5. Cardinality(Hits(q, M)) \in Nat /\ Cardinality(Hits(c.single, M)) \in Nat
    BY <1>1, <1>12, HitsFinite
  <2>6. Times(c.single, c.multi, s, sc, dc) = Cardinality(Hits(c.single, M)) + 0
    BY <2>1 DEF Times
  <2>7. CASE dc # ch
    <3>1. c.single[n] \notin M
      BY <2>1, <2>7 DEF InsOf
    <3>2. Times(q, m, s, sc, dc) = Cardinality(Hits(q, M)) + 0
      BY <1>8, <2>1, <2>7 DEF Times
    <3> QED
      BY <2>3, <2>5, <2>6, <2>7, <3>1, <3>2 DEF One
  <2>8. CASE dc = ch
    <3>1. Times(q, m, s, sc, dc) = Cardinality(Hits(q, M)) + Cardinality(Hits(p, I))
      BY <1>8, <1>9, <2>1, <2>2, <2>8 DEF Times
    <3>2. c.single[n] \in M <=> new \in I
      BY <1>1, <1>2, <1>4, <2>1, <2>2, <2>8 DEF InsOf, SrcsOf
    <3>3. One(c.single[n] \in M) = One(new \in I)
      <4>1. CASE new \in I
        BY <3>2, <4>1 DEF One
      <4>2. CASE new \notin I
        BY <3>2, <4>2 DEF One
      <4> QED
        BY <4>1, <4>2
    <3>4. src \in I <=> s = src.id /\ sc = src.chan /\ dc = ch
      BY <2>2, <2>8 DEF SrcsOf
    <3>5. One(src \in I) = One(s = src.id /\ sc = src.chan /\ dc = ch)
      <4>1. CASE src \in I
        BY <3>4, <4>1 DEF One
      <4>2. CASE src \notin I
        BY <3>4, <4>2 DEF One
      <4> QED
        BY <4>1, <4>2
    <3>6. One(new \in I) \in Nat /\ One(src \in I) \in Nat
      BY DEF One
    <3> QED
      BY <2>3, <2>4, <2>5, <2>6, <3>1, <3>3, <3>5, <3>6
  <2> QED
    BY <2>7, <2>8
<1>16. Gains(c, q, m, src, ch)
  BY <1>8, <1>12, <1>14, <1>15 DEF Gains
<1> QED
  BY <1>2, <1>3, <1>5, <1>7, <1>10, <1>16

LEMMA LeastOfSlots ==
    ASSUME NEW c \in Comps, NEW ch, Slots(c, ch) # {}
    PROVE  Least(Slots(c, ch)) \in DOMAIN c.single /\ c.single[Least(Slots(c, ch))].chan = ch
<1>1. Slots(c, ch) \in SUBSET Nat
  <2>1. c.single \in Seq(Ins)
    BY DEF Comps
  <2> QED
    BY <2>1 DEF Slots
<1>2. Least(Slots(c, ch)) \in Slots(c, ch)
  BY <1>1, LeastNumber DEF Least
<1> QED
  BY <1>2 DEF Slots

\* Whether a connection to channel ch of c is refused for the sources c has.
Overloaded(c, ch) ==
    /\ c.type.mode # "primary"
    /\ c.multi # NoMulti
    /\ c.multi.chan # ch
    /\ Slots(c, ch) # {}
    /\ c.single[Least(Slots(c, ch))].src # NoSrc

Accepts(c, ch) ==
    \/ c.type.mode = "primary"
    \/ c.multi # NoMulti /\ c.multi.chan = ch
    \/ Slots(c, ch) # {} \/ ch \in c.type.extra

\* Whatever the input it is, it gains the source, and nothing else changes.
LEMMA InputTaken ==
    ASSUME NEW c \in Comps, NEW src \in Srcs, src.id # 0, src.flag = FALSE, NEW ch \in AllChans,
           c.type.mode = "primary" => ch = "", Accepts(c, ch), ~Overloaded(c, ch)
    PROVE  \E q, m : TakeInput(c, src, ch) = [c EXCEPT !.single = q, !.multi = m]
                     /\ Gains(c, q, m, src, ch)
<1>1. PICK r : r = TakeInput(c, src, ch)
  OBVIOUS
<1>2. PICK n : n = Least(Slots(c, ch))
  OBVIOUS
<1>3. ASSUME NEW q, r = [c EXCEPT !.single = q], Gains(c, q, c.multi, src, ch)
      PROVE  \E qq, m : r = [c EXCEPT !.single = qq, !.multi = m] /\ Gains(c, qq, m, src, ch)
  <2>1. r = [c EXCEPT !.single = q, !.multi = c.multi]
    BY <1>3 DEF Comps
  <2> QED
    BY <1>3, <2>1
<1>4. CASE c.type.mode = "primary"
  <2>1. r = [c EXCEPT !.single = Append(c.single, Input(ch, src))]
    BY <1>1, <1>4 DEF TakeInput
  <2>2. src = [src EXCEPT !.flag = FALSE]
    BY DEF Srcs
  <2>3. Gains(c, Append(c.single, Input(ch, [src EXCEPT !.flag = FALSE])), c.multi, src, ch)
    BY GainsInput
  <2> QED
    BY <1>1, <1>3, <2>1, <2>2, <2>3
<1>5. CASE c.type.mode # "primary" /\ c.multi # NoMulti /\ c.multi.chan = ch
  <2>1. r = [c EXCEPT !.multi.srcs = Append(@, src)]
    BY <1>1, <1>5 DEF TakeInput
  <2>2. r = [c EXCEPT !.single = c.single, !.multi = [c.multi EXCEPT !.srcs = Append(@, src)]]
    BY <2>1 DEF Comps, Multis
  <2>3. Gains(c, c.single, [c.multi EXCEPT !.srcs = Append(@, src)], src, ch)
    BY <1>5, GainsSource
  <2> QED
    BY <1>1, <2>2, <2>3
<1>6. CASE c.type.mode # "primary" /\ ~(c.multi # NoMulti /\ c.multi.chan = ch) /\ Slots(c, ch) # {}
  <2>1. n \in DOMAIN c.single /\ c.single[n].chan = ch
    BY <1>2, <1>6, LeastOfSlots
  <2>2. CASE c.single[n].src = NoSrc
    <3>1. r = [c EXCEPT !.single[n].src = src]
      BY <1>1, <1>2, <1>6, <2>2 DEF TakeInput
    <3>2. r = [c EXCEPT !.single = [c.single EXCEPT ![n].src = src]]
      BY <3>1 DEF Comps
    <3>3. Gains(c, [c.single EXCEPT ![n].src = src], c.multi, src, ch)
      BY <2>1, <2>2, GainsSlot
    <3> QED
      BY <1>1, <1>3, <3>2, <3>3
  <2>3. CASE c.single[n].src # NoSrc
    <3>1. c.multi = NoMulti
      BY <1>2, <1>6, <2>3 DEF Overloaded
    <3>2. r = [c EXCEPT !.single = SwapRemove(c.single, n),
                        !.multi = [chan     |-> ch,
                                   optional |-> c.single[n].src.flag,
                                   srcs     |-> <<[c.single[n].src EXCEPT !.flag = FALSE], src>>]]
      BY <1>1, <1>2, <1>6, <2>3 DEF TakeInput
    <3>3. Gains(c, SwapRemove(c.single, n),
                [chan     |-> ch,
                 optional |-> c.single[n].src.flag,
                 srcs     |-> <<[c.single[n].src EXCEPT !.flag = FALSE], src>>],
                src, ch)
      BY <2>1, <2>3, <3>1, GainsSecond
    <3> QED
      BY <1>1, <3>2, <3>3
  <2> QED
    BY <2>2, <2>3
<1>7. CASE c.type.mode # "primary" /\ ~(c.multi # NoMulti /\ c.multi.chan = ch) /\ Slots(c, ch) = {}
  <2>1. ch \in c.type.extra
    BY <1>7 DEF Accepts
  <2>2. r = [c EXCEPT !.single = Append(c.single, Input(ch, [src EXCEPT !.flag = TRUE]))]
    BY <1>1, <1>7, <2>1 DEF TakeInput
  <2>3. Gains(c, Append(c.single, Input(ch, [src EXCEPT !.flag = TRUE])), c.multi, src, ch)
    BY GainsInput
  <2> QED
    BY <1>1, <1>3, <2>2, <2>3
<1> QED
  BY <1>4, <1>5, <1>6, <1>7

-----------------------------------------------------------------------------
(* Both ends of a connection.                                              *)

\* The edges that a component has recorded for one of its channels.
EdgesOn(c, sc) == At(c.outs, sc, <<>>)

LEMMA EdgesOnType ==
    ASSUME NEW c \in Comps, NEW sc
    PROVE  EdgesOn(c, sc) \in Seq(Srcs)
<1>1. PICK D \in SUBSET AllChans : c.outs \in [D -> Seq(Srcs)]
  BY DEF Comps, Outs
<1>2. <<>> \in Seq(Srcs)
  OBVIOUS
<1> QED
  BY <1>1, <1>2 DEF EdgesOn, At

LEMMA ToldHits ==
    ASSUME NEW c \in Comps, NEW sc, NEW d, NEW dc
    PROVE  TimesTold(c, sc, d, dc) = Cardinality(Hits(EdgesOn(c, sc), SrcsOf(d, dc)))
<1>1. PICK out : out = EdgesOn(c, sc)
  OBVIOUS
<1>2. \A n \in DOMAIN out : out[n] \in Srcs
  BY <1>1, EdgesOnType
<1>3. {n \in DOMAIN out : out[n].id = d /\ out[n].chan = dc} = Hits(out, SrcsOf(d, dc))
  BY <1>2 DEF Hits, SrcsOf
<1> QED
  BY <1>1, <1>3 DEF TimesTold, EdgesOn

\* One more dependent of a channel.
LEMMA ToldOfOneMore ==
    ASSUME NEW c \in Comps, NEW sc \in AllChans, NEW e \in Srcs, NEW a,
           a = [c EXCEPT !.outs = Put(c.outs, sc, Append(EdgesOn(c, sc), e))]
    PROVE  /\ a \in Comps
           /\ EdgesOn(a, sc) = Append(EdgesOn(c, sc), e)
           /\ \A xc : xc # sc => EdgesOn(a, xc) = EdgesOn(c, xc)
           /\ \A xc, y, yc : TimesTold(a, xc, y, yc) = TimesTold(c, xc, y, yc)
                                 + One(xc = sc /\ y = e.id /\ yc = e.chan)
<1>1. PICK q : q = Append(EdgesOn(c, sc), e)
  OBVIOUS
<1>2. EdgesOn(c, sc) \in Seq(Srcs) /\ q \in Seq(Srcs)
  <2>1. EdgesOn(c, sc) \in Seq(Srcs)
    BY EdgesOnType
  <2> QED
    BY <1>1, <2>1
<1>3. PICK outs : outs = Put(c.outs, sc, q)
  OBVIOUS
<1>4. outs \in Outs
  <2>1. PICK D \in SUBSET AllChans : c.outs \in [D -> Seq(Srcs)]
    BY DEF Comps, Outs
  <2>2. outs \in [D \cup {sc} -> Seq(Srcs)]
    BY <1>2, <1>3, <2>1 DEF Put
  <2>3. D \cup {sc} \in SUBSET AllChans
    BY <2>1
  <2> QED
    BY <2>2, <2>3 DEF Outs
<1>5. a = [c EXCEPT !.outs = outs]
  BY <1>1, <1>3
<1>6. a \in Comps /\ a.outs = outs
  BY <1>4, <1>5 DEF Comps
<1>7. EdgesOn(a, sc) = q /\ \A xc : xc # sc => EdgesOn(a, xc) = EdgesOn(c, xc)
  BY <1>3, <1>6 DEF EdgesOn, At, Put
<1>8. ASSUME NEW xc, NEW y, NEW yc
      PROVE  TimesTold(a, xc, y, yc) = TimesTold(c, xc, y, yc) + One(xc = sc /\ y = e.id /\ yc = e.chan)
  <2>1. PICK M : M = SrcsOf(y, yc)
    OBVIOUS
  <2>2. /\ TimesTold(a, xc, y, yc) = Cardinality(Hits(EdgesOn(a, xc), M))
        /\ TimesTold(c, xc, y, yc) = Cardinality(Hits(EdgesOn(c, xc), M))
    BY <1>6, <2>1, ToldHits
  <2>3. EdgesOn(c, xc) \in Seq(Srcs)
    BY EdgesOnType
  <2>4. TimesTold(c, xc, y, yc) \in Nat
    BY <2>2, <2>3, HitsFinite
  <2>5. CASE xc # sc
    BY <1>7, <2>2, <2>4, <2>5 DEF One
  <2>6. CASE xc = sc
    <3>1. Cardinality(Hits(q, M)) = Cardinality(Hits(EdgesOn(c, sc), M)) + One(e \in M)
      BY <1>1, <1>2, HitsAppend
    <3>2. e \in M <=> y = e.id /\ yc = e.chan
      BY <2>1 DEF SrcsOf
    <3>3. One(e \in M) = One(xc = sc /\ y = e.id /\ yc = e.chan)
      <4>1. CASE e \in M
        BY <2>6, <3>2, <4>1 DEF One
      <4>2. CASE e \notin M
        BY <2>6, <3>2, <4>2 DEF One
      <4> QED
        BY <4>1, <4>2
    <3> QED
      BY <1>7, <2>2, <2>6, <3>1, <3>3
  <2> QED
    BY <2>5, <2>6
<1> QED
  BY <1>1, <1>6, <1>7, <1>8

\* A source that is not among a component's sources is not recorded as one.
LEMMA HeardOfNobody ==
    ASSUME NEW c \in Comps, NEW k, k # 0, ~FedFrom(c.single, c.multi, k)
    PROVE  \A sc, dc : TimesHeard(c, k, sc, dc) = 0
<1>1. ASSUME NEW sc, NEW dc PROVE TimesHeard(c, k, sc, dc) = 0
  <2>1. Hits(c.single, InsOf(k, sc, dc)) = {}
    BY NoneTypes DEF Hits, InsOf, FedFrom
  <2>2. Hits(c.multi.srcs, SrcsOf(k, sc)) = {}
    BY DEF Hits, SrcsOf, FedFrom
  <2>3. Cardinality({}) = 0
    BY FS_EmptySet
  <2>4. Times(c.single, c.multi, k, sc, dc) = 0
    BY <2>1, <2>2, <2>3 DEF Times
  <2> QED
    BY <2>4, HeardTimes
<1> QED
  BY <1>1

-----------------------------------------------------------------------------
(* The invariant of construction.                                          *)

\* The ids of a graph of which nothing was removed.
Ids(g) == DOMAIN g.comps

\* The count of the sources of a component names those that it is fed from, and they,
\* and those it feeds, are components.
EndsKnown(g) ==
    \A i \in Ids(g) : LET c == g.comps[i] IN
        /\ \A k : k \in DOMAIN c.count <=> FedFrom(c.single, c.multi, k)
        /\ DOMAIN c.count \subseteq Ids(g)
        /\ \A ch : \A n \in DOMAIN EdgesOn(c, ch) : EdgesOn(c, ch)[n].id \in Ids(g)

Mirrored(g) ==
    \A s, d \in Ids(g), sc, dc \in Channels :
        TimesHeard(g.comps[d], s, sc, dc) = TimesTold(g.comps[s], sc, d, dc)

NamesKept(g) ==
    /\ \A n \in DOMAIN g.lookup : g.lookup[n] \in Ids(g) /\ g.comps[g.lookup[n]].named
                                  /\ g.comps[g.lookup[n]].name = n
    /\ \A i \in Ids(g) : g.comps[i].named =>
          g.comps[i].name \in DOMAIN g.lookup /\ g.lookup[g.comps[i].name] = i

Built(g) ==
    /\ g = [comps |-> g.comps, free |-> g.free, lookup |-> g.lookup]
    /\ g.comps \in Seq(Comps) /\ g.free = Len(g.comps) + 1
    /\ EndsKnown(g) /\ Mirrored(g) /\ NamesKept(g)

IInv == Built(graph) /\ held = Ids(graph)

\* Nothing of such a graph is blank.
LEMMA AllLive ==
    ASSUME NEW g, g.comps \in Seq(Comps)
    PROVE  Live(g) = Ids(g) /\ Ids(g) = 1..Len(g.comps) /\ Len(g.comps) \in Nat /\ IsVector(g)
<1>1. Len(g.comps) \in Nat /\ DOMAIN g.comps = 1..Len(g.comps)
  OBVIOUS
<1>2. ASSUME NEW i \in DOMAIN g.comps PROVE ~IsBlank(g.comps[i])
  <2>1. g.comps[i] \in Comps
    OBVIOUS
  <2>2. g.comps[i].type \in Types
    BY <2>1 DEF Comps
  <2> QED
    BY <2>2, TypesAssumption DEF IsBlank
<1> QED
  BY <1>1, <1>2 DEF Live, Ids, IsVector

LEMMA EmptyIsBuilt == Built(EmptyGraph) /\ Live(EmptyGraph) = Ids(EmptyGraph)
<1>1. PICK g : g = EmptyGraph
  OBVIOUS
<1>2. g = [comps |-> <<>>, free |-> 1, lookup |-> [n \in {} |-> 0]]
  BY <1>1 DEF EmptyGraph
<1>3. /\ g = [comps |-> g.comps, free |-> g.free, lookup |-> g.lookup]
      /\ g.comps = <<>> /\ g.free = 1 /\ DOMAIN g.lookup = {}
  BY <1>2
<1>4. g.comps \in Seq(Comps) /\ Ids(g) = {} /\ Len(g.comps) = 0
  BY <1>3 DEF Ids
<1>5. EndsKnown(g) /\ Mirrored(g) /\ NamesKept(g)
  BY <1>3, <1>4 DEF EndsKnown, Mirrored, NamesKept
<1>6. Built(g)
  BY <1>3, <1>4, <1>5 DEF Built
<1> QED
  BY <1>1, <1>4, <1>6, AllLive

LEMMA OneIsNumber == \A b : One(b) \in Nat
BY DEF One

LEMMA HeardType ==
    ASSUME NEW c \in Comps, NEW s, NEW sc, NEW dc
    PROVE  TimesHeard(c, s, sc, dc) \in Nat
<1>1. c.single \in Seq(Ins) /\ c.multi.srcs \in Seq(Srcs)
  BY DEF Comps, Multis
<1>2. /\ Cardinality(Hits(c.single, InsOf(s, sc, dc))) \in Nat
      /\ Cardinality(Hits(c.multi.srcs, SrcsOf(s, sc))) \in Nat
  BY <1>1, HitsFinite
<1> QED
  BY <1>2, HeardTimes DEF Times

\* A connection that add_dependency accepts, to a channel that the component takes.
LEMMA ConnectKeeps ==
    ASSUME NEW g, Built(g), NEW s \in Ids(g), NEW d \in Ids(g), NEW sc \in Channels,
           NEW dc \in Channels, ConnectError(g, s, sc, d, dc) = "none", Accepts(g.comps[d], dc)
    PROVE  Built(Connect(g, s, sc, d, dc)) /\ Ids(Connect(g, s, sc, d, dc)) = Ids(g)
<1>1. PICK h : h = Connect(g, s, sc, d, dc)
  OBVIOUS
<1>2. PICK c : c = g.comps[s]
  OBVIOUS
<1>3. PICK k : k = g.comps[d]
  OBVIOUS
<1>4. /\ g.comps \in Seq(Comps) /\ Ids(g) = 1..Len(g.comps) /\ Len(g.comps) \in Nat
      /\ \A i \in Ids(g) : g.comps[i] \in Comps
  BY AllLive DEF Built, Ids
<1>5. c \in Comps /\ k \in Comps /\ \A i \in Ids(g) : i \in Nat \ {0}
  BY <1>2, <1>3, <1>4
<1>6. sc \in AllChans /\ dc \in AllChans
  BY DEF AllChans
<1>7. s # d /\ (k.type.mode = "primary" => dc = "") /\ ~Overloaded(k, dc)
  BY <1>3 DEF ConnectError, Overloaded
<1>8. PICK src : src = Src(s, FALSE, sc)
  OBVIOUS
<1>9. /\ src \in Srcs /\ src.id = s /\ src.id # 0 /\ src.flag = FALSE /\ src.chan = sc
  BY <1>5, <1>6, <1>8 DEF Src, Srcs
<1>10. PICK q, m : TakeInput(k, src, dc) = [k EXCEPT !.single = q, !.multi = m]
                   /\ Gains(k, q, m, src, dc)
  BY <1>3, <1>5, <1>6, <1>7, <1>9, InputTaken
<1>11. PICK e : e = Src(d, IsMulti(c, sc), dc)
  OBVIOUS
<1>12. e \in Srcs /\ e.id = d /\ e.chan = dc
  BY <1>5, <1>6, <1>11 DEF Src, Srcs, IsMulti
<1>13. PICK a : a = [c EXCEPT !.outs = Put(c.outs, sc, Append(EdgesOn(c, sc), e))]
  OBVIOUS
<1>14. PICK count : count = Put(k.count, s, At(k.count, s, 0) + 1)
  OBVIOUS
<1>15. count \in Counts /\ DOMAIN count = DOMAIN k.count \cup {s}
  <2>1. PICK D \in SUBSET Nat : k.count \in [D -> Nat]
    BY <1>5 DEF Comps, Counts
  <2>2. At(k.count, s, 0) + 1 \in Nat
    <3>1. At(k.count, s, 0) \in Nat
      <4>1. CASE s \in DOMAIN k.count
        BY <2>1, <4>1 DEF At
      <4>2. CASE s \notin DOMAIN k.count
        BY <4>2 DEF At
      <4> QED
        BY <4>1, <4>2
    <3> QED
      BY <3>1
  <2>3. PICK v \in Nat : v = At(k.count, s, 0) + 1
    BY <2>2
  <2>4. count \in [D \cup {s} -> Nat]
    BY <1>14, <2>1, <2>3 DEF Put
  <2>5. D \cup {s} \in SUBSET Nat
    BY <1>5, <2>1
  <2> QED
    BY <2>1, <2>4, <2>5 DEF Counts
<1>16. PICK b : b = [k EXCEPT !.single = q, !.multi = m, !.count = count]
  OBVIOUS
<1>17. q \in Seq(Ins) /\ m \in Multis
  BY <1>10 DEF Gains
<1>18. /\ b \in Comps /\ b.single = q /\ b.multi = m /\ b.count = count
       /\ b.outs = k.outs /\ b.named = k.named /\ b.name = k.name
  BY <1>5, <1>15, <1>16, <1>17 DEF Comps
<1>19. /\ a \in Comps /\ a.single = c.single /\ a.multi = c.multi /\ a.count = c.count
       /\ a.named = c.named /\ a.name = c.name
       /\ EdgesOn(a, sc) = Append(EdgesOn(c, sc), e)
       /\ \A xc : xc # sc => EdgesOn(a, xc) = EdgesOn(c, xc)
       /\ \A xc, y, yc : TimesTold(a, xc, y, yc) = TimesTold(c, xc, y, yc)
                             + One(xc = sc /\ y = d /\ yc = dc)
  <2>1. /\ a \in Comps
        /\ EdgesOn(a, sc) = Append(EdgesOn(c, sc), e)
        /\ \A xc : xc # sc => EdgesOn(a, xc) = EdgesOn(c, xc)
        /\ \A xc, y, yc : TimesTold(a, xc, y, yc) = TimesTold(c, xc, y, yc)
                              + One(xc = sc /\ y = e.id /\ yc = e.chan)
    BY <1>5, <1>6, <1>12, <1>13, ToldOfOneMore
  <2>2. /\ a.single = c.single /\ a.multi = c.multi /\ a.count = c.count
        /\ a.named = c.named /\ a.name = c.name
    BY <1>5, <1>13 DEF Comps
  <2> QED
    BY <1>12, <2>1, <2>2
<1>20. /\ h = [comps |-> h.comps, free |-> h.free, lookup |-> h.lookup]
       /\ h.comps = [g.comps EXCEPT ![s] = a, ![d] = b]
       /\ h.free = g.free /\ h.lookup = g.lookup
  <2>1. PICK cs : cs = g.comps
    OBVIOUS
  <2>2. g = [comps |-> cs, free |-> g.free, lookup |-> g.lookup]
    BY <2>1 DEF Built
  <2>3. PICK dst : dst = [k EXCEPT !.single = q, !.multi = m]
    OBVIOUS
  <2>4. dst.count = k.count /\ b = [dst EXCEPT !.count = count]
    BY <1>5, <1>16, <2>3 DEF Comps
  <2>5. h = [g EXCEPT !.comps[s].outs = Put(@, sc, Append(At(@, sc, <<>>), e)),
                      !.comps[d] = [dst EXCEPT !.count = Put(@, s, At(@, s, 0) + 1)]]
    BY <1>1, <1>2, <1>3, <1>8, <1>10, <1>11, <2>3 DEF Connect
  <2>6. [dst EXCEPT !.count = Put(@, s, At(@, s, 0) + 1)] = b
    BY <1>14, <2>4
  <2>7. s \in DOMAIN cs /\ d \in DOMAIN cs
    BY <2>1 DEF Ids
  <2>8. h = [g EXCEPT !.comps[s].outs = Put(c.outs, sc, Append(At(c.outs, sc, <<>>), e)),
                      !.comps[d] = b]
    BY <1>2, <2>1, <2>2, <2>5, <2>6
  <2>9. h = [g EXCEPT !.comps = [cs EXCEPT ![s].outs = Put(c.outs, sc, Append(EdgesOn(c, sc), e)),
                                           ![d] = b]]
    BY <2>1, <2>2, <2>8 DEF EdgesOn
  <2>10. [cs EXCEPT ![s].outs = Put(c.outs, sc, Append(EdgesOn(c, sc), e))] = [cs EXCEPT ![s] = a]
    BY <1>2, <1>13, <2>1
  <2>11. h = [g EXCEPT !.comps = [cs EXCEPT ![s] = a, ![d] = b]]
    BY <2>9, <2>10
  <2> QED
    BY <2>1, <2>2, <2>11
<1>21. /\ Ids(h) = Ids(g) /\ h.comps \in Seq(Comps) /\ Len(h.comps) = Len(g.comps)
       /\ h.comps[s] = a /\ h.comps[d] = b
       /\ \A i \in Ids(g) : i # s /\ i # d => h.comps[i] = g.comps[i]
  <2>1. PICK l \in Nat : l = Len(g.comps)
    BY <1>4
  <2>2. g.comps \in [1..l -> Comps] /\ s \in 1..l /\ d \in 1..l
    BY <1>4, <2>1
  <2>3. h.comps \in [1..l -> Comps]
    BY <1>18, <1>19, <1>20, <2>2
  <2>4. h.comps \in Seq(Comps) /\ Len(h.comps) = l
    BY <2>1, <2>3
  <2>5. /\ h.comps[s] = a /\ h.comps[d] = b
        /\ \A i \in Ids(g) : i # s /\ i # d => h.comps[i] = g.comps[i]
    BY <1>4, <1>7, <1>20, <2>1, <2>2
  <2> QED
    BY <1>4, <2>1, <2>3, <2>4, <2>5 DEF Ids
<1>22. ASSUME NEW x \in Ids(g), NEW y \in Ids(g), NEW xc, NEW yc
       PROVE  TimesHeard(h.comps[y], x, xc, yc)
                = TimesHeard(g.comps[y], x, xc, yc) + One(y = d /\ x = s /\ xc = sc /\ yc = dc)
  <2>1. x \in Nat \ {0} /\ g.comps[y] \in Comps
    BY <1>4, <1>5
  <2>2. TimesHeard(g.comps[y], x, xc, yc) \in Nat
    BY <2>1, HeardType
  <2>3. CASE y = d
    <3>1. TimesHeard(b, x, xc, yc) = Times(q, m, x, xc, yc)
      BY <1>18, HeardTimes
    <3>2. TimesHeard(k, x, xc, yc) = Times(k.single, k.multi, x, xc, yc)
      BY <1>5, HeardTimes
    <3>3. Times(q, m, x, xc, yc) = Times(k.single, k.multi, x, xc, yc)
                                   + One(x = s /\ xc = sc /\ yc = dc)
      BY <1>9, <1>10, <2>1 DEF Gains
    <3>4. One(x = s /\ xc = sc /\ yc = dc) = One(y = d /\ x = s /\ xc = sc /\ yc = dc)
      BY <2>3 DEF One
    <3>5. h.comps[y] = b /\ g.comps[y] = k
      BY <1>3, <1>21, <2>3
    <3> QED
      BY <3>1, <3>2, <3>3, <3>4, <3>5
  <2>4. CASE y # d
    <3>1. TimesHeard(h.comps[y], x, xc, yc) = TimesHeard(g.comps[y], x, xc, yc)
      <4>1. CASE y = s
        BY <1>2, <1>19, <1>21, <4>1 DEF TimesHeard
      <4>2. CASE y # s
        BY <1>21, <2>4, <4>2
      <4> QED
        BY <4>1, <4>2
    <3> QED
      BY <2>2, <2>4, <3>1 DEF One
  <2> QED
    BY <2>3, <2>4
<1>23. ASSUME NEW x \in Ids(g), NEW y \in Ids(g), NEW xc, NEW yc
       PROVE  TimesTold(h.comps[x], xc, y, yc)
                = TimesTold(g.comps[x], xc, y, yc) + One(y = d /\ x = s /\ xc = sc /\ yc = dc)
  <2>1. g.comps[x] \in Comps
    BY <1>4
  <2>2. TimesTold(g.comps[x], xc, y, yc) \in Nat
    <3>1. EdgesOn(g.comps[x], xc) \in Seq(Srcs)
      BY <2>1, EdgesOnType
    <3> QED
      BY <2>1, <3>1, HitsFinite, ToldHits
  <2>3. CASE x = s
    <3>1. TimesTold(a, xc, y, yc) = TimesTold(c, xc, y, yc) + One(xc = sc /\ y = d /\ yc = dc)
      BY <1>19
    <3>2. One(xc = sc /\ y = d /\ yc = dc) = One(y = d /\ x = s /\ xc = sc /\ yc = dc)
      BY <2>3 DEF One
    <3>3. h.comps[x] = a /\ g.comps[x] = c
      BY <1>2, <1>21, <2>3
    <3> QED
      BY <3>1, <3>2, <3>3
  <2>4. CASE x # s
    <3>1. TimesTold(h.comps[x], xc, y, yc) = TimesTold(g.comps[x], xc, y, yc)
      <4>1. CASE x = d
        BY <1>3, <1>18, <1>21, <4>1 DEF TimesTold
      <4>2. CASE x # d
        BY <1>21, <2>4, <4>2
      <4> QED
        BY <4>1, <4>2
    <3> QED
      BY <2>2, <2>4, <3>1 DEF One
  <2> QED
    BY <2>3, <2>4
<1>24. Mirrored(h)
  <2>1. ASSUME NEW x \in Ids(g), NEW y \in Ids(g), NEW xc \in Channels, NEW yc \in Channels
        PROVE  TimesHeard(h.comps[y], x, xc, yc) = TimesTold(h.comps[x], xc, y, yc)
    <3>1. TimesHeard(g.comps[y], x, xc, yc) = TimesTold(g.comps[x], xc, y, yc)
      BY DEF Built, Mirrored
    <3> QED
      BY <1>22, <1>23, <3>1
  <2> QED
    BY <1>21, <2>1 DEF Mirrored
<1>25. ASSUME NEW i \in Ids(g)
       PROVE  LET n == h.comps[i] IN
              /\ \A o : o \in DOMAIN n.count <=> FedFrom(n.single, n.multi, o)
              /\ DOMAIN n.count \subseteq Ids(g)
              /\ \A ch : \A p \in DOMAIN EdgesOn(n, ch) : EdgesOn(n, ch)[p].id \in Ids(g)
  <2>1. LET n == g.comps[i] IN
        /\ \A o : o \in DOMAIN n.count <=> FedFrom(n.single, n.multi, o)
        /\ DOMAIN n.count \subseteq Ids(g)
        /\ \A ch : \A p \in DOMAIN EdgesOn(n, ch) : EdgesOn(n, ch)[p].id \in Ids(g)
    BY DEF Built, EndsKnown
  <2>2. CASE i = s
    <3>1. h.comps[i] = a /\ g.comps[i] = c
      BY <1>2, <1>21, <2>2
    <3>2. ASSUME NEW ch, NEW p \in DOMAIN EdgesOn(a, ch)
          PROVE  EdgesOn(a, ch)[p].id \in Ids(g)
      <4>1. CASE ch # sc
        BY <1>19, <2>1, <3>1, <3>2, <4>1
      <4>2. CASE ch = sc
        <5>1. PICK old \in Seq(Srcs) : old = EdgesOn(c, sc)
          BY <1>5, EdgesOnType
        <5>2. PICK l \in Nat : l = Len(old)
          BY <5>1
        <5>3. p \in 1..(l + 1) /\ EdgesOn(a, ch) = Append(old, e) /\ DOMAIN old = 1..l
          BY <1>12, <1>19, <3>2, <4>2, <5>1, <5>2
        <5>4. CASE p = l + 1
          BY <1>12, <5>1, <5>2, <5>3, <5>4
        <5>5. CASE p # l + 1
          <6>1. p \in 1..l /\ EdgesOn(a, ch)[p] = old[p]
            BY <1>12, <5>1, <5>2, <5>3, <5>5
          <6> QED
            BY <2>1, <3>1, <5>1, <5>3, <6>1
        <5> QED
          BY <5>4, <5>5
      <4> QED
        BY <4>1, <4>2
    <3> QED
      BY <1>19, <2>1, <3>1, <3>2
  <2>3. CASE i = d
    <3>1. h.comps[i] = b /\ g.comps[i] = k
      BY <1>3, <1>21, <2>3
    <3>2. \A o : FedFrom(q, m, o) <=> FedFrom(k.single, k.multi, o) \/ o = s
      BY <1>9, <1>10 DEF Gains
    <3>3. \A ch : EdgesOn(b, ch) = EdgesOn(k, ch)
      BY <1>18 DEF EdgesOn
    <3> QED
      BY <1>15, <1>18, <2>1, <3>1, <3>2, <3>3
  <2>4. CASE i # s /\ i # d
    BY <1>21, <2>1, <2>4
  <2> QED
    BY <2>2, <2>3, <2>4
<1>26. EndsKnown(h)
  BY <1>21, <1>25 DEF EndsKnown
<1>27. NamesKept(h)
  <2>1. \A i \in Ids(g) : h.comps[i].named = g.comps[i].named /\ h.comps[i].name = g.comps[i].name
    <3>1. ASSUME NEW i \in Ids(g)
          PROVE  h.comps[i].named = g.comps[i].named /\ h.comps[i].name = g.comps[i].name
      <4>1. CASE i = s
        BY <1>2, <1>19, <1>21, <4>1
      <4>2. CASE i = d
        BY <1>3, <1>18, <1>21, <4>2
      <4>3. CASE i # s /\ i # d
        BY <1>21, <4>3
      <4> QED
        BY <4>1, <4>2, <4>3
    <3> QED
      BY <3>1
  <2>2. NamesKept(g)
    BY DEF Built
  <2>3. ASSUME NEW n \in DOMAIN h.lookup
        PROVE  h.lookup[n] \in Ids(h) /\ h.comps[h.lookup[n]].named /\ h.comps[h.lookup[n]].name = n
    <3>1. /\ g.lookup[n] \in Ids(g) /\ g.comps[g.lookup[n]].named
          /\ g.comps[g.lookup[n]].name = n
      BY <1>20, <2>2, <2>3 DEF NamesKept
    <3> QED
      BY <1>20, <1>21, <2>1, <3>1
  <2>4. ASSUME NEW i \in Ids(h), h.comps[i].named
        PROVE  h.comps[i].name \in DOMAIN h.lookup /\ h.lookup[h.comps[i].name] = i
    <3>1. /\ i \in Ids(g) /\ g.comps[i].named /\ h.comps[i].name = g.comps[i].name
      BY <1>21, <2>1, <2>4
    <3>2. g.comps[i].name \in DOMAIN g.lookup /\ g.lookup[g.comps[i].name] = i
      BY <2>2, <3>1 DEF NamesKept
    <3> QED
      BY <1>20, <3>1, <3>2
  <2> QED
    BY <2>3, <2>4 DEF NamesKept
<1>28. h.free = Len(h.comps) + 1
  BY <1>20, <1>21 DEF Built
<1>29. Built(h)
  BY <1>20, <1>21, <1>24, <1>26, <1>27, <1>28 DEF Built
<1> QED
  BY <1>1, <1>21, <1>29

\* A component that is added has neither sources nor dependents.
LEMMA NewIsBare ==
    ASSUME NEW type \in Types, NEW name \in Names, NEW named \in BOOLEAN
    PROVE  LET c == NewComponent(type, name, named)
           IN  /\ c \in Comps /\ c.named = named /\ c.name = name /\ DOMAIN c.count = {}
               /\ \A k : ~FedFrom(c.single, c.multi, k)
               /\ \A ch : EdgesOn(c, ch) = <<>>
               /\ \A sc, d, dc : TimesTold(c, sc, d, dc) = 0
<1>1. PICK c : c = NewComponent(type, name, named)
  OBVIOUS
<1>2. PICK q : q = OpenInputs(type.ins)
  OBVIOUS
<1>3. PICK l \in Nat : l = Len(type.ins) /\ DOMAIN type.ins = 1..l
  BY TypesAssumption
<1>4. ASSUME NEW n \in 1..l PROVE type.ins[n] \in AllChans
  <2>1. type.ins[n] \in ToSet(type.ins)
    BY <1>3 DEF ToSet
  <2> QED
    BY <2>1 DEF AllChans
<1>5. q = [n \in 1..l |-> Input(type.ins[n], NoSrc)]
  BY <1>2, <1>3 DEF OpenInputs
<1>6. q \in Seq(Ins) /\ \A n \in DOMAIN q : q[n].src = NoSrc
  <2>1. ASSUME NEW n \in 1..l PROVE q[n] \in Ins /\ q[n].src = NoSrc
    <3>1. q[n] = [chan |-> type.ins[n], src |-> NoSrc]
      BY <1>5 DEF Input
    <3> QED
      BY <1>4, <3>1, NoneTypes DEF Ins
  <2>2. q \in [1..l -> Ins]
    BY <1>5, <2>1
  <2>3. q \in Seq(Ins)
    BY <1>3, <2>2
  <2> QED
    BY <1>5, <2>1, <2>3
<1>7. PICK outs : outs = [ch \in {} |-> <<>>]
  OBVIOUS
<1>8. PICK count : count = [i \in {} |-> 0]
  OBVIOUS
<1>9. outs \in Outs /\ DOMAIN outs = {} /\ count \in Counts /\ DOMAIN count = {}
  <2>1. outs \in [{} -> Seq(Srcs)] /\ count \in [{} -> Nat]
    BY <1>7, <1>8
  <2> QED
    BY <2>1 DEF Outs, Counts
<1>10. c = [type |-> type, name |-> name, named |-> named, single |-> q, multi |-> NoMulti,
            outs |-> outs, count |-> count]
  BY <1>1, <1>2, <1>7, <1>8 DEF NewComponent
<1>11. /\ c.type = type /\ c.name = name /\ c.named = named /\ c.single = q
       /\ c.multi = NoMulti /\ c.outs = outs /\ c.count = count
  BY <1>10
<1>12. c \in Comps
  BY <1>6, <1>9, <1>10, NoneTypes DEF Comps
<1>13. \A k : ~FedFrom(c.single, c.multi, k)
  <2>1. DOMAIN NoMulti.srcs = {}
    <3>1. NoMulti.srcs = <<>>
      BY DEF NoMulti
    <3>2. DOMAIN <<>> = {}
      OBVIOUS
    <3> QED
      BY <3>1, <3>2
  <2> QED
    BY <1>6, <1>11, <2>1 DEF FedFrom
<1>14. \A ch : EdgesOn(c, ch) = <<>>
  BY <1>9, <1>11 DEF EdgesOn, At
<1>15. ASSUME NEW sc, NEW d, NEW dc PROVE TimesTold(c, sc, d, dc) = 0
  <2>1. TimesTold(c, sc, d, dc) = Cardinality(Hits(EdgesOn(c, sc), SrcsOf(d, dc)))
    BY <1>12, ToldHits
  <2>2. Cardinality(Hits(<<>>, SrcsOf(d, dc))) = 0
    BY HitsOfNothing
  <2> QED
    BY <1>14, <2>1, <2>2
<1> QED
  BY <1>1, <1>9, <1>11, <1>12, <1>13, <1>14, <1>15

\* A component that is added takes the next place of the vector.
LEMMA AddKeeps ==
    ASSUME NEW g, Built(g), NEW type \in Types, NEW name \in Names, NEW named \in BOOLEAN,
           named => name \notin DOMAIN g.lookup
    PROVE  /\ Built(AddComponent(g, type, name, named))
           /\ Ids(AddComponent(g, type, name, named)) = Ids(g) \cup {g.free}
<1>1. PICK h : h = AddComponent(g, type, name, named)
  OBVIOUS
<1>2. PICK l \in Nat : l = Len(g.comps)
  BY AllLive DEF Built
<1>3. /\ g.comps \in [1..l -> Comps] /\ Ids(g) = 1..l /\ g.free = l + 1
      /\ g.comps \in Seq(Comps)
  BY <1>2 DEF Built, Ids
<1>4. PICK c : c = NewComponent(type, name, named)
  OBVIOUS
<1>5. /\ c \in Comps /\ c.named = named /\ c.name = name /\ DOMAIN c.count = {}
      /\ \A k : ~FedFrom(c.single, c.multi, k)
      /\ \A ch : EdgesOn(c, ch) = <<>>
      /\ \A sc, d, dc : TimesTold(c, sc, d, dc) = 0
  BY <1>4, NewIsBare
<1>6. PICK cs : cs = Append(g.comps, c)
  OBVIOUS
<1>7. /\ cs \in Seq(Comps) /\ Len(cs) = l + 1 /\ DOMAIN cs = 1..(l + 1) /\ cs[l + 1] = c
      /\ \A i \in 1..l : cs[i] = g.comps[i]
  BY <1>2, <1>3, <1>5, <1>6
<1>8. NextFree(cs, l + 1) = l + 2
  <2>1. {i \in ((l + 1) + 1)..Len(cs) : IsBlank(cs[i])} = {}
    BY <1>7
  <2> QED
    BY <1>7, <2>1 DEF NextFree
<1>9. /\ h = [comps |-> h.comps, free |-> h.free, lookup |-> h.lookup]
      /\ h.comps = cs /\ h.free = l + 2
      /\ h.lookup = IF named THEN Put(g.lookup, name, l + 1) ELSE g.lookup
  BY <1>1, <1>2, <1>3, <1>4, <1>6, <1>8 DEF AddComponent
<1>10. Ids(h) = 1..(l + 1) /\ \A i \in 1..(l + 1) : i \in 1..l \/ i = l + 1
  BY <1>7, <1>9 DEF Ids
<1>11. EndsKnown(h)
  <2>1. ASSUME NEW i \in 1..(l + 1)
        PROVE  LET n == cs[i] IN
               /\ \A o : o \in DOMAIN n.count <=> FedFrom(n.single, n.multi, o)
               /\ DOMAIN n.count \subseteq 1..(l + 1)
               /\ \A ch : \A p \in DOMAIN EdgesOn(n, ch) : EdgesOn(n, ch)[p].id \in 1..(l + 1)
    <3>1. CASE i = l + 1
      BY <1>5, <1>7, <3>1
    <3>2. CASE i \in 1..l
      <4>1. LET n == g.comps[i] IN
            /\ \A o : o \in DOMAIN n.count <=> FedFrom(n.single, n.multi, o)
            /\ DOMAIN n.count \subseteq 1..l
            /\ \A ch : \A p \in DOMAIN EdgesOn(n, ch) : EdgesOn(n, ch)[p].id \in 1..l
        BY <1>3, <3>2 DEF Built, EndsKnown
      <4>2. cs[i] = g.comps[i] /\ 1..l \subseteq 1..(l + 1)
        BY <1>7, <3>2
      <4> QED
        BY <4>1, <4>2
    <3> QED
      BY <1>10, <3>1, <3>2
  <2> QED
    BY <1>9, <1>10, <2>1 DEF EndsKnown
<1>12. Mirrored(h)
  <2>1. ASSUME NEW s \in 1..(l + 1), NEW d \in 1..(l + 1), NEW sc \in Channels, NEW dc \in Channels
        PROVE  TimesHeard(cs[d], s, sc, dc) = TimesTold(cs[s], sc, d, dc)
    <3>1. s # 0 /\ cs[s] \in Comps /\ cs[d] \in Comps
      BY <1>7
    <3>2. CASE d = l + 1
      <4>1. TimesHeard(cs[d], s, sc, dc) = 0
        BY <1>5, <1>7, <3>1, <3>2, HeardOfNobody
      <4>2. Hits(EdgesOn(cs[s], sc), SrcsOf(d, dc)) = {}
        <5>1. ASSUME NEW p \in DOMAIN EdgesOn(cs[s], sc) PROVE EdgesOn(cs[s], sc)[p].id # d
          <6>1. CASE s = l + 1
            BY <1>5, <1>7, <5>1, <6>1
          <6>2. CASE s \in 1..l
            <7>1. EdgesOn(cs[s], sc)[p].id \in 1..l
              BY <1>3, <1>7, <5>1, <6>2 DEF Built, EndsKnown
            <7> QED
              BY <3>2, <7>1
          <6> QED
            BY <1>10, <6>1, <6>2
        <5> QED
          BY <5>1 DEF Hits, SrcsOf
      <4>3. TimesTold(cs[s], sc, d, dc) = 0
        BY <3>1, <4>2, ToldHits, FS_EmptySet
      <4> QED
        BY <4>1, <4>3
    <3>3. CASE d \in 1..l /\ s = l + 1
      <4>1. ~FedFrom(cs[d].single, cs[d].multi, s)
        <5>1. s \notin 1..l
          BY <3>3
        <5>2. cs[d] = g.comps[d]
          BY <1>7, <3>3
        <5>3. /\ DOMAIN g.comps[d].count \subseteq 1..l
              /\ s \in DOMAIN g.comps[d].count <=> FedFrom(g.comps[d].single, g.comps[d].multi, s)
          BY <1>3, <3>3 DEF Built, EndsKnown
        <5> QED
          BY <5>1, <5>2, <5>3
      <4>2. TimesHeard(cs[d], s, sc, dc) = 0
        BY <3>1, <4>1, HeardOfNobody
      <4> QED
        BY <1>5, <1>7, <3>3, <4>2
    <3>4. CASE d \in 1..l /\ s \in 1..l
      BY <1>3, <1>7, <3>4 DEF Built, Mirrored
    <3> QED
      BY <1>10, <3>2, <3>3, <3>4
  <2> QED
    BY <1>9, <1>10, <2>1 DEF Mirrored
<1>13. NamesKept(h)
  <2>1. NamesKept(g)
    BY DEF Built
  <2>2. ASSUME NEW n \in DOMAIN h.lookup
        PROVE  h.lookup[n] \in Ids(h) /\ h.comps[h.lookup[n]].named /\ h.comps[h.lookup[n]].name = n
    <3>1. CASE named /\ n = name
      <4>1. h.lookup[n] = l + 1
        BY <1>9, <3>1 DEF Put
      <4>2. l + 1 \in 1..(l + 1)
        OBVIOUS
      <4> QED
        BY <1>5, <1>7, <1>9, <1>10, <3>1, <4>1, <4>2
    <3>2. CASE ~(named /\ n = name)
      <4>1. n \in DOMAIN g.lookup /\ h.lookup[n] = g.lookup[n]
        BY <1>9, <2>2, <3>2 DEF Put
      <4>2. g.lookup[n] \in 1..l /\ g.comps[g.lookup[n]].named /\ g.comps[g.lookup[n]].name = n
        BY <1>3, <2>1, <4>1 DEF NamesKept
      <4>3. 1..l \subseteq 1..(l + 1)
        OBVIOUS
      <4> QED
        BY <1>7, <1>9, <1>10, <4>1, <4>2, <4>3
    <3> QED
      BY <3>1, <3>2
  <2>3. ASSUME NEW i \in Ids(h), h.comps[i].named
        PROVE  h.comps[i].name \in DOMAIN h.lookup /\ h.lookup[h.comps[i].name] = i
    <3>1. CASE i = l + 1
      <4>1. named /\ h.comps[i].name = name
        BY <1>5, <1>7, <1>9, <2>3, <3>1
      <4> QED
        BY <1>9, <3>1, <4>1 DEF Put
    <3>2. CASE i \in 1..l
      <4>1. h.comps[i] = g.comps[i]
        BY <1>7, <1>9, <3>2
      <4>2. g.comps[i].name \in DOMAIN g.lookup /\ g.lookup[g.comps[i].name] = i
        BY <1>3, <2>1, <2>3, <3>2, <4>1 DEF NamesKept
      <4>3. named => g.comps[i].name # name
        BY <4>2
      <4> QED
        BY <1>9, <4>1, <4>2, <4>3 DEF Put
    <3> QED
      BY <1>10, <3>1, <3>2
  <2> QED
    BY <2>2, <2>3 DEF NamesKept
<1>14. Built(h)
  BY <1>7, <1>9, <1>11, <1>12, <1>13 DEF Built
<1>15. Ids(h) = Ids(g) \cup {g.free}
  BY <1>3, <1>10
<1> QED
  BY <1>1, <1>14, <1>15

-----------------------------------------------------------------------------
(* Construction.                                                           *)

LEMMA InitBuilds == Start = EmptyGraph /\ Init => IInv
BY EmptyIsBuilt DEF Init, IInv

LEMMA NextBuilds ==
    ASSUME ~Edits, ~Unknown, IInv, [Next]_vars
    PROVE  IInv'
<1>1. Built(graph) /\ held = Ids(graph)
  BY DEF IInv
<1>2. CASE Clear
  BY <1>2 DEF Clear
<1>3. ASSUME NEW type \in Types, NEW name \in Names, NEW named \in BOOLEAN,
             Add(type, name, named)
      PROVE  IInv'
  <2>1. PICK g : g = AddComponent(graph, type, name, named)
    OBVIOUS
  <2>2. Built(g) /\ Ids(g) = Ids(graph) \cup {graph.free}
    BY <1>1, <1>3, <2>1, AddKeeps DEF Add
  <2>3. graph' = g /\ held' = Ids(g)
    BY <1>1, <1>3, <2>1, <2>2 DEF Add
  <2> QED
    BY <2>2, <2>3 DEF IInv
<1>4. ASSUME NEW s \in held, NEW d \in held, NEW sc \in Channels, NEW dc \in Channels,
             AddDependency(s, sc, d, dc)
      PROVE  IInv'
  <2>1. PICK g : g = Connect(graph, s, sc, d, dc)
    OBVIOUS
  <2>2. Takes(d, dc) /\ ConnectError(graph, s, sc, d, dc) = "none"
    BY <1>4 DEF AddDependency
  <2>3. Accepts(graph.comps[d], dc)
    BY <2>2 DEF Takes, Accepts
  <2>4. Built(g) /\ Ids(g) = Ids(graph)
    BY <1>1, <2>1, <2>2, <2>3, ConnectKeeps
  <2>5. graph' = g /\ held' = Ids(g)
    BY <1>1, <1>4, <2>1, <2>4 DEF AddDependency
  <2> QED
    BY <2>4, <2>5 DEF IInv
<1>5. ASSUME NEW id \in held, DetachComponent(id) \/ DeleteComponent(id) PROVE IInv'
  BY <1>5 DEF DetachComponent, DeleteComponent
<1>6. CASE UNCHANGED vars
  BY <1>1, <1>6 DEF vars, IInv
<1> QED
  BY <1>2, <1>3, <1>4, <1>5, <1>6 DEF Next

-----------------------------------------------------------------------------
(* What follows for the tables.                                            *)

LEMMA TablesOfBuilt == IInv => TablesAgree
<1> SUFFICES ASSUME IInv PROVE TablesAgree
  OBVIOUS
<1>1. /\ Built(graph) /\ held = Ids(graph) /\ Ids(graph) = 1..Len(graph.comps)
      /\ Len(graph.comps) \in Nat /\ Live(graph) = Ids(graph)
  BY AllLive DEF IInv, Built
<1>2. EdgesMirrored
  BY <1>1 DEF EdgesMirrored, AsSource, AsTarget, Built, Mirrored, Ids
<1>3. IdsStayValid
  <2>1. graph.free = Len(graph.comps) + 1
    BY <1>1 DEF Built
  <2>2. graph.free \notin 1..Len(graph.comps)
    BY <1>1, <2>1
  <2> QED
    BY <1>1, <2>2 DEF IdsStayValid
<1>4. LookupExact
  <2>1. PICK Named : Named = {i \in held : graph.comps[i].named}
    OBVIOUS
  <2>2. NamesKept(graph)
    BY <1>1 DEF Built
  <2>3. ASSUME NEW i \in Named PROVE At(graph.lookup, graph.comps[i].name, 0) = i
    BY <1>1, <2>1, <2>2 DEF NamesKept, At
  <2>4. IsFiniteSet(Named)
    <3>1. Named \subseteq 1..Len(graph.comps) /\ IsFiniteSet(1..Len(graph.comps))
      BY <1>1, <2>1, FS_Interval
    <3> QED
      BY <3>1, FS_Subset
  <2>5. PICK f : f = [i \in Named |-> graph.comps[i].name]
    OBVIOUS
  <2>6. f \in Bijection(Named, DOMAIN graph.lookup)
    <3>1. ASSUME NEW i \in Named
          PROVE  f[i] \in DOMAIN graph.lookup /\ graph.lookup[f[i]] = i
      BY <1>1, <2>1, <2>2, <2>5 DEF NamesKept
    <3>2. ASSUME NEW n \in DOMAIN graph.lookup PROVE \E i \in Named : f[i] = n
      <4>1. graph.lookup[n] \in Named /\ graph.comps[graph.lookup[n]].name = n
        BY <1>1, <2>1, <2>2 DEF NamesKept
      <4>2. f[graph.lookup[n]] = n
        BY <2>5, <4>1
      <4> QED
        BY <4>1, <4>2
    <3>3. f \in [Named -> DOMAIN graph.lookup]
      BY <2>5, <3>1
    <3>4. \A i, j \in Named : f[i] = f[j] => i = j
      BY <3>1
    <3> QED
      BY <3>2, <3>3, <3>4 DEF Bijection, Injection, Surjection, IsInjective
  <2>7. Cardinality(DOMAIN graph.lookup) = Cardinality(Named)
    BY <2>4, <2>6, FS_Bijection DEF ExistsBijection
  <2> QED
    BY <2>1, <2>3, <2>7 DEF LookupExact
<1> QED
  BY <1>2, <1>3, <1>4 DEF TablesAgree

-----------------------------------------------------------------------------
(* What follows for the order.                                             *)

\* compile() reports a cycle if and only if the rounds do not reach all components, and
\* otherwise, if it succeeds, its table is in the order of the rounds.
LEMMA CompileErrors ==
    ASSUME NEW g
    PROVE  /\ Compile(g).error = "ContainsCycle" <=> Live(g) # ToSet(Rounds(g))
           /\ Compile(g).error = "none" =>
                 Compile(g).mapping = [i \in DOMAIN g.comps |-> Position(Rounds(g), i)]
<1>1. PICK order : order = Rounds(g)
  OBVIOUS
<1>2. PICK w : w = Wired(g, order, Branches(g, order))
  OBVIOUS
<1>3. \A why : Failed(why).error = why
  BY DEF Failed
<1>4. /\ Assembled(g, order, w).error \in {"MissingInput", "none"}
      /\ Assembled(g, order, w).error = "none" =>
            Assembled(g, order, w).mapping = [i \in DOMAIN g.comps |-> Position(order, i)]
  <2>1. CASE w.missing
    BY <1>3, <2>1 DEF Assembled
  <2>2. CASE ~w.missing
    <3>1. PICK t : t = [n \in DOMAIN order |-> Finished(w.cs[n])]
      OBVIOUS
    <3>2. Assembled(g, order, w) = [error   |-> "none",
                                    mapping |-> [i \in DOMAIN g.comps |-> Position(order, i)],
                                    comps   |-> t]
      BY <2>2, <3>1 DEF Assembled
    <3> QED
      BY <3>2
  <2> QED
    BY <2>1, <2>2
<1>5. PICK st : st = Branches(g, order)
  OBVIOUS
<1>6. PICK r : r = Branched(g, order, st)
  OBVIOUS
<1>7. /\ r.error \in {"panic", "BranchMismatch", "MissingInput", "none"}
      /\ r.error = "none" => r.mapping = [i \in DOMAIN g.comps |-> Position(order, i)]
  <2>1. r = IF st.lost THEN Failed("panic")
            ELSE IF st.mixed THEN Failed("BranchMismatch") ELSE Assembled(g, order, w)
    BY <1>2, <1>5, <1>6 DEF Branched
  <2> QED
    BY <1>3, <1>4, <2>1
<1>8. Compile(g) = IF Live(g) # ToSet(order) THEN Failed("ContainsCycle") ELSE r
  BY <1>1, <1>5, <1>6 DEF Compile, Sorted
<1> QED
  BY <1>1, <1>3, <1>7, <1>8

\* Where a component is found.
LEMMA PositionFound ==
    ASSUME NEW T, NEW s \in Seq(T), NEW i \in ToSet(s)
    PROVE  Position(s, i) \in 1..Len(s) /\ s[Position(s, i)] = i
<1>1. \E n \in DOMAIN s : s[n] = i
  BY DEF ToSet
<1> QED
  BY <1>1 DEF Position

LEMMA OrderOfBuilt == IInv => OrderIsReal
<1> SUFFICES ASSUME IInv PROVE OrderIsReal
  OBVIOUS
<1>1. PICK g : g = graph
  OBVIOUS
<1>2. PICK order : order = Rounds(g)
  OBVIOUS
<1>3. /\ Live(g) = Ids(g) /\ held = Ids(g) /\ IsVector(g) /\ EndsKnown(g)
      /\ \A i \in Ids(g) : i \in Nat /\ g.comps[i] \in Comps
  BY <1>1, AllLive DEF IInv, Built, Ids
<1>4. order \in Seq(Ids(g)) /\ Len(order) \in Nat /\ SourcesBefore(g, order) /\ Ready(g, order) = {}
  BY <1>2, <1>3, SortEnds
<1>5. ASSUME NEW i \in Ids(g)
      PROVE  /\ DOMAIN g.comps[i].count \subseteq Ids(g)
             /\ \A k : k \in DOMAIN g.comps[i].count <=> \E s \in FedBy(g.comps[i]) : s.id = k
  <2>1. /\ DOMAIN g.comps[i].count \subseteq Ids(g)
        /\ \A k : k \in DOMAIN g.comps[i].count <=> FedFrom(g.comps[i].single, g.comps[i].multi, k)
    BY <1>3 DEF EndsKnown
  <2>2. \A k : k \in {s.id : s \in FedBy(g.comps[i])}
                <=> FedFrom(g.comps[i].single, g.comps[i].multi, k)
    BY <1>3, FedIds
  <2> QED
    BY <2>1, <2>2
<1>6. ToSet(order) \subseteq Ids(g)
  BY <1>4 DEF ToSet
<1>7. ASSUME Ids(g) # ToSet(order) PROVE Cyclic
  <2>1. PICK K : K = Ids(g) \ ToSet(order)
    OBVIOUS
  <2>2. K \in (SUBSET held) \ {{}}
    BY <1>3, <1>6, <1>7, <2>1
  <2>3. ASSUME NEW i \in K PROVE \E s \in FedBy(g.comps[i]) : s.id \in K
    <3>1. i \in Ids(g) /\ i \in Live(g) \ ToSet(order)
      BY <1>3, <2>1
    <3>2. PICK k \in DOMAIN g.comps[i].count : k \notin ToSet(order)
      BY <1>4, <3>1 DEF Ready
    <3>3. k \in K /\ \E s \in FedBy(g.comps[i]) : s.id = k
      BY <1>5, <2>1, <3>1, <3>2
    <3> QED
      BY <3>3
  <2> QED
    BY <1>1, <2>2, <2>3 DEF Cyclic
<1>8. ASSUME Ids(g) = ToSet(order) PROVE ~Cyclic
  <2> SUFFICES ASSUME Cyclic PROVE FALSE
    OBVIOUS
  <2>1. PICK K \in (SUBSET held) \ {{}} : \A i \in K : \E s \in FedBy(g.comps[i]) : s.id \in K
    BY <1>1 DEF Cyclic
  <2>2. PICK P : P = {p \in 1..Len(order) : order[p] \in K}
    OBVIOUS
  <2>3. P \in SUBSET Nat /\ P # {}
    <3>1. PICK i \in K : i \in ToSet(order)
      BY <1>3, <1>8, <2>1
    <3>2. PICK p \in 1..Len(order) : order[p] = i
      BY <1>4, <3>1, PositionFound
    <3> QED
      BY <2>2, <3>2
  <2>4. PICK p \in P : \A q \in P : p <= q
    BY <2>3, LeastNumber
  <2>5. p \in 1..Len(order) /\ order[p] \in K
    BY <2>2
  <2>6. PICK s \in FedBy(g.comps[order[p]]) : s.id \in K
    BY <2>1, <2>5
  <2>7. s.id \in DOMAIN g.comps[order[p]].count
    BY <1>3, <1>5, <2>1, <2>5, <2>6
  <2>8. s.id \in ToSet(order)
    BY <1>3, <1>8, <2>1, <2>6
  <2>9. PICK q \in 1..Len(order) : order[q] = s.id
    BY <1>4, <2>8, PositionFound
  <2>10. q < p
    BY <1>4, <2>5, <2>7, <2>9 DEF SourcesBefore
  <2>11. q \in P /\ p \in Nat /\ q \in Nat
    BY <1>4, <2>2, <2>5, <2>6, <2>9
  <2> QED
    BY <2>4, <2>10, <2>11
<1>9. CycleIsReal
  BY <1>1, <1>2, <1>3, <1>7, <1>8, CompileErrors DEF CycleIsReal, Result
<1>10. SourcesFirst
  <2> SUFFICES ASSUME Compile(g).error = "none",
                      NEW i \in Ids(g), NEW s \in FedBy(g.comps[i])
               PROVE  Compile(g).mapping[s.id] < Compile(g).mapping[i]
    BY <1>1, <1>3 DEF SourcesFirst, Result
  <2>1. Compile(g).mapping = [j \in DOMAIN g.comps |-> Position(order, j)]
    BY <1>2, CompileErrors
  <2>2. Ids(g) = ToSet(order)
    <3>1. Compile(g).error # "ContainsCycle"
      OBVIOUS
    <3> QED
      BY <1>2, <1>3, <3>1, CompileErrors
  <2>3. s.id \in DOMAIN g.comps[i].count /\ s.id \in Ids(g)
    BY <1>5
  <2>4. PICK p \in 1..Len(order) : p = Position(order, i) /\ order[p] = i
    BY <1>4, <2>2, PositionFound
  <2>5. PICK q \in 1..Len(order) : q = Position(order, s.id) /\ order[q] = s.id
    BY <1>4, <2>2, <2>3, PositionFound
  <2>6. q < p
    BY <1>4, <2>3, <2>4, <2>5 DEF SourcesBefore
  <2> QED
    BY <2>1, <2>3, <2>4, <2>5, <2>6 DEF Ids
<1> QED
  BY <1>9, <1>10 DEF OrderIsReal

-----------------------------------------------------------------------------
(* The theorems.                                                           *)

LEMMA Constructed == Start = EmptyGraph /\ ~Edits /\ ~Unknown /\ Spec => []IInv
<1> SUFFICES ASSUME Start = EmptyGraph, ~Edits, ~Unknown
             PROVE  Spec => []IInv
  OBVIOUS
<1>1. Init => IInv
  BY InitBuilds
<1>2. IInv /\ [Next]_vars => IInv'
  BY NextBuilds
<1> QED
  BY <1>1, <1>2, PTL DEF Spec

\* Whatever components add_named_component and add_hidden_component have put into a new
\* graph and add_dependency has connected, in any order: each end of a connection records
\* it as often as the other one, lookup names the named components, and the id that the
\* next component gets is not held.
THEOREM BuiltTablesAgree == Start = EmptyGraph /\ ~Edits /\ ~Unknown /\ Spec => []TablesAgree
BY Constructed, TablesOfBuilt, PTL

\* The rounds of compile() end, reach every component unless some wait for each other,
\* and give each component a later place than any that it is fed from.
THEOREM BuiltOrderIsReal == Start = EmptyGraph /\ ~Edits /\ ~Unknown /\ Spec => []OrderIsReal
BY Constructed, OrderOfBuilt, PTL
=============================================================================
