---------------------------- MODULE Wiring_proofs ----------------------------
(***************************************************************************)
(* Proofs about the wiring of compile(), for a graph that is built from    *)
(* nothing, of any size and of any types: BuiltWiredAsConnected, the edges *)
(* of the compiled table are those of the graph.                           *)
(*                                                                         *)
(* Each loop of compile() is a recursive function; what it keeps is proved *)
(* of its rounds (LoopRuns, Upwards).  The loop over the inputs keeps      *)
(* Fits: the edges to a component, counted by where they come from and     *)
(* which slot they go to, are its inputs, and the lookup has a slot of its *)
(* own for each of them.  Fits of a component is about the edges to it     *)
(* only, so the wiring of the others does not disturb it (EdgeElsewhere).  *)
(*                                                                         *)
(* Inputs with several sources are left out (~Shared): the edges of those  *)
(* go to the wrong component, see the run graph_shared.                    *)
(***************************************************************************)
EXTENDS PipelineGraph_proofs

-----------------------------------------------------------------------------
(* Loops.                                                                  *)

\* The rounds of a loop over 1..N.
Runs(f, N, base, step) == f[0] = base /\ \A k \in 1..N : f[k] = step[k][f[k - 1]]

\* A loop whose steps stay in S.
LEMMA LoopRuns ==
    ASSUME NEW S, NEW N \in Nat, NEW base \in S, NEW step \in [1..N -> [S -> S]]
    PROVE  \E f \in [0..N -> S] : Runs(f, N, base, step)
<1> DEFINE Solves(f, m) == f = [k \in 0..m |-> IF k = 0 THEN base ELSE step[k][f[k - 1]]]
           Good == {m \in 0..N : \E f \in [0..m -> S] : Solves(f, m)}
<1>1. 0 \in Good
  <2>1. PICK f : f = [k \in 0..0 |-> base]
    OBVIOUS
  <2>2. f \in [0..0 -> S] /\ Solves(f, 0)
    BY <2>1
  <2> QED
    BY <2>2
<1>2. ASSUME NEW m \in Good, m < N PROVE m + 1 \in Good
  <2>1. PICK f \in [0..m -> S] : Solves(f, m)
    BY <1>2
  <2>2. PICK h : h = [k \in 0..(m + 1) |-> IF k = m + 1 THEN step[m + 1][f[m]] ELSE f[k]]
    OBVIOUS
  <2>3. ASSUME NEW k \in 0..(m + 1)
        PROVE  h[k] \in S /\ h[k] = IF k = 0 THEN base ELSE step[k][h[k - 1]]
    <3>1. CASE k = m + 1
      <4>1. h[k] = step[k][f[m]] /\ h[k - 1] = f[m] /\ k # 0 /\ f[m] \in S /\ k \in 1..N
        BY <1>2, <2>2, <3>1
      <4> QED
        BY <4>1
    <3>2. CASE k # m + 1
      <4>1. k \in 0..m /\ h[k] = f[k] /\ (k # 0 => h[k - 1] = f[k - 1])
        BY <2>2, <3>2
      <4>2. f[k] = IF k = 0 THEN base ELSE step[k][f[k - 1]]
        BY <2>1, <4>1
      <4> QED
        BY <4>1, <4>2
    <3> QED
      BY <3>1, <3>2
  <2>4. h \in [0..(m + 1) -> S] /\ Solves(h, m + 1)
    BY <2>2, <2>3
  <2>5. m + 1 \in 0..N
    BY <1>2
  <2> HIDE DEF Solves
  <2> QED
    BY <2>4, <2>5
<1>3. \A m \in 0..N : m \in Good
  <2>1. Good \in SUBSET (0..N)
    OBVIOUS
  <2> HIDE DEF Good
  <2> QED
    BY <1>1, <1>2, <2>1, Upwards
<1>4. PICK f \in [0..N -> S] : Solves(f, N)
  BY <1>3
<1>5. Runs(f, N, base, step)
  BY <1>4 DEF Runs
<1> QED
  BY <1>5

-----------------------------------------------------------------------------
(* Where the branch points are kept.                                       *)

OutNames == (UNION {{type.outs[n].chan : n \in Nat} : type \in Types}) \cup {"", "$finish"}
Points(N) == (1..N) \X OutNames
BranchStates(N) == [branch : [1..N -> Seq(Points(N))], to : [1..N -> Int],
                    lost : BOOLEAN, mixed : BOOLEAN]

\* The channels of a component are in some order.
LEMMA ChanOrderType ==
    ASSUME NEW c \in Comps
    PROVE  ChanOrder(c) \in Seq(OutNames)
<1>1. PICK outs : outs = c.type.outs
  OBVIOUS
<1>2. c.type \in Types /\ outs \in Seq(ToSet(outs))
  BY <1>1, TypesAssumption DEF Comps
<1>3. PICK n \in Nat : n = Len(outs)
  BY <1>2
<1>4. PICK all : all = [m \in DOMAIN outs |-> outs[m].chan]
  OBVIOUS
<1>5. all \in Seq(OutNames)
  <2>1. ASSUME NEW m \in 1..n PROVE all[m] \in OutNames
    <3>1. m \in Nat /\ all[m] = c.type.outs[m].chan
      BY <1>1, <1>2, <1>3, <1>4
    <3>2. PICK type \in Types : type = c.type
      BY <1>2
    <3>3. all[m] \in {type.outs[k].chan : k \in Nat}
      BY <3>1, <3>2
    <3>4. all[m] \in UNION {{t.outs[k].chan : k \in Nat} : t \in Types}
      BY <3>3
    <3> QED
      BY <3>4 DEF OutNames
  <2>2. all \in [1..n -> OutNames]
    <3>1. DOMAIN outs = 1..n
      BY <1>2, <1>3
    <3> QED
      BY <1>4, <2>1, <3>1
  <2> QED
    BY <2>2
<1>6. PICK blank, finish : blank = "" /\ finish = "$finish"
  BY Zenon
<1>7. <<blank, finish>> \in Seq(OutNames) /\ <<finish>> \in Seq(OutNames)
  <2>1. blank \in OutNames /\ finish \in OutNames
    BY <1>6, Zenon DEF OutNames
  <2> QED
    BY <2>1
<1>8. CASE \E m \in DOMAIN all : all[m] = ""
  <2>1. PICK k : k = CHOOSE m \in DOMAIN all : all[m] = ""
    OBVIOUS
  <2>2. k \in 1..Len(all) /\ Len(all) \in Nat
    <3>1. k \in DOMAIN all
      BY <1>8, <2>1, Zenon
    <3> QED
      BY <1>5, <3>1
  <2>3. SubSeq(all, 1, k - 1) \in Seq(OutNames) /\ SubSeq(all, k + 1, Len(all)) \in Seq(OutNames)
    <3>1. \A i \in 1..(k - 1) : all[i] \in OutNames
      BY <1>5, <2>2
    <3>2. \A i \in (k + 1)..Len(all) : all[i] \in OutNames
      BY <1>5, <2>2
    <3>3. 1 \in Int /\ k - 1 \in Int /\ k + 1 \in Int /\ Len(all) \in Int
      BY <2>2
    <3>4. SubSeq(all, 1, k - 1) \in Seq(OutNames)
      BY <3>1, <3>3, SubSeqProperties
    <3>5. SubSeq(all, k + 1, Len(all)) \in Seq(OutNames)
      BY <3>2, <3>3, SubSeqProperties
    <3> QED
      BY <3>4, <3>5
  <2>4. RemoveAt(all, k) \in Seq(OutNames)
    BY <2>3 DEF RemoveAt
  <2>5. ChanOrder(c) = <<blank, finish>> \o RemoveAt(all, k)
    BY <1>1, <1>4, <1>6, <1>8, <2>1, Zenon DEF ChanOrder
  <2> QED
    BY <1>7, <2>4, <2>5
<1>9. CASE ~\E m \in DOMAIN all : all[m] = ""
  <2>1. ChanOrder(c) = <<finish>> \o all
    BY <1>1, <1>4, <1>6, <1>9, Zenon DEF ChanOrder
  <2> QED
    BY <1>5, <1>7, <2>1
<1> QED
  BY <1>8, <1>9

\* A component that the order has is at one of its places, any other at none.
LEMMA PositionType ==
    ASSUME NEW T, NEW order \in Seq(T), NEW i
    PROVE  Position(order, i) \in 0..Len(order)
<1>1. CASE i \in ToSet(order)
  BY <1>1, PositionFound
<1>2. CASE i \notin ToSet(order)
  BY <1>2 DEF Position
<1> QED
  BY <1>1, <1>2

\* One edge.
LEMMA ReachType ==
    ASSUME NEW N \in Nat, NEW st \in BranchStates(N), NEW d \in 0..N, NEW branch \in Seq(Points(N))
    PROVE  Reach(st, d, branch) \in BranchStates(N)
<1>1. CASE st.lost \/ st.mixed \/ d = 0 \/ Differ(branch, st.branch[d])
  <2>1. Reach(st, d, branch) \in {st, [st EXCEPT !.lost = TRUE], [st EXCEPT !.mixed = TRUE]}
    BY <1>1 DEF Reach
  <2> QED
    BY <2>1 DEF BranchStates
<1>2. CASE ~(st.lost \/ st.mixed \/ d = 0 \/ Differ(branch, st.branch[d]))
  <2>1. d \in 1..N /\ st.branch[d] \in Seq(Points(N)) /\ st.to[d] \in Int
    BY <1>2 DEF BranchStates
  <2>2. PICK b \in Seq(Points(N)) : b = IF Len(branch) >= Len(st.branch[d]) THEN branch ELSE st.branch[d]
    BY <2>1
  <2>3. PICK t \in Int : t = IF st.to[d] = NoBroadcast THEN st.to[d]
                             ELSE Lesser(Len(branch), Len(st.branch[d]))
    BY <2>1 DEF Lesser
  <2>4. Reach(st, d, branch) = [st EXCEPT !.branch[d] = b, !.to[d] = t]
    BY <1>2, <2>2, <2>3 DEF Reach
  <2>5. PICK br : br = [st.branch EXCEPT ![d] = b]
    OBVIOUS
  <2>6. PICK to : to = [st.to EXCEPT ![d] = t]
    OBVIOUS
  <2>7. br \in [1..N -> Seq(Points(N))] /\ to \in [1..N -> Int]
    BY <2>1, <2>5, <2>6 DEF BranchStates
  <2>8. Reach(st, d, branch) = [st EXCEPT !.branch = br, !.to = to]
    BY <2>4, <2>5, <2>6 DEF BranchStates
  <2> QED
    BY <2>7, <2>8 DEF BranchStates
<1> QED
  BY <1>1, <1>2

\* The loop over the edges of a channel.
LEMMA AlongEdgesType ==
    ASSUME NEW T, NEW order \in Seq(T), NEW N \in Nat, N = Len(order),
           NEW st \in BranchStates(N), NEW es \in Seq(Srcs), NEW via \in Seq(Points(N))
    PROVE  AlongEdges(order, st, es, via)[Len(es)] \in BranchStates(N)
<1>1. PICK L \in Nat : L = Len(es)
  OBVIOUS
<1>2. PICK S : S = BranchStates(N)
  OBVIOUS
<1>3. ASSUME NEW k \in 1..L, NEW x \in S PROVE Reach(x, Position(order, es[k].id), via) \in S
  BY <1>2, PositionType, ReachType
<1> DEFINE Solves(a) == a = [k \in 0..L |-> IF k = 0 THEN st
                                            ELSE Reach(a[k - 1], Position(order, es[k].id), via)]
<1>4. \E a : Solves(a)
  <2>1. PICK step : step = [k \in 1..L |-> [x \in S |-> Reach(x, Position(order, es[k].id), via)]]
    OBVIOUS
  <2>2. step \in [1..L -> [S -> S]]
    BY <1>3, <2>1
  <2>3. st \in S
    BY <1>2
  <2>4. PICK a \in [0..L -> S] : Runs(a, L, st, step)
    BY <2>2, <2>3, LoopRuns
  <2>5. ASSUME NEW k \in 0..L
        PROVE  a[k] = IF k = 0 THEN st ELSE Reach(a[k - 1], Position(order, es[k].id), via)
    <3>1. CASE k = 0
      BY <2>4, <3>1 DEF Runs
    <3>2. CASE k # 0
      <4>1. k \in 1..L /\ a[k - 1] \in S /\ a[k] = step[k][a[k - 1]]
        BY <2>4, <3>2 DEF Runs
      <4> QED
        BY <2>1, <3>2, <4>1
    <3> QED
      BY <3>1, <3>2
  <2>6. Solves(a)
    BY <2>4, <2>5
  <2> QED
    BY <2>6
<1>5. PICK a : a = AlongEdges(order, st, es, via)
  OBVIOUS
<1>6. Solves(a)
  <2>1. a = CHOOSE x : Solves(x)
    BY <1>1, <1>5 DEF AlongEdges
  <2> HIDE DEF Solves
  <2> QED
    BY <1>4, <2>1
<1>7. \A k \in 0..L : k \in {m \in 0..L : a[m] \in S}
  <2>1. 0 \in {m \in 0..L : a[m] \in S}
    BY <1>2, <1>6
  <2>2. ASSUME NEW k \in {m \in 0..L : a[m] \in S}, k < L PROVE k + 1 \in {m \in 0..L : a[m] \in S}
    <3>1. a[k + 1] = Reach(a[k], Position(order, es[k + 1].id), via) /\ k + 1 \in 1..L
      BY <1>6, <2>2
    <3> QED
      BY <1>3, <2>2, <3>1
  <2>3. PICK G \in SUBSET (0..L) : G = {m \in 0..L : a[m] \in S}
    OBVIOUS
  <2> QED
    BY <2>1, <2>2, <2>3, Upwards
<1> QED
  BY <1>1, <1>2, <1>5, <1>7

\* A channel of a component.
LEMMA AlongChannelType ==
    ASSUME NEW T, NEW order \in Seq(T), NEW N \in Nat, N = Len(order),
           NEW st \in BranchStates(N), NEW es \in Seq(Srcs), NEW own \in Seq(Points(N)),
           NEW n \in 1..N, NEW ch \in OutNames
    PROVE  AlongChannel(order, st, es, own, n, ch) \in BranchStates(N)
<1>1. PICK via : via = IF es # <<>> /\ es[1].flag THEN Append(own, <<n, ch>>) ELSE own
  OBVIOUS
<1>2. via \in Seq(Points(N))
  <2>1. <<n, ch>> \in Points(N)
    BY DEF Points
  <2>2. Append(own, <<n, ch>>) \in Seq(Points(N))
    BY <2>1
  <2> QED
    BY <1>1, <2>2
<1>3. AlongChannel(order, st, es, own, n, ch) = AlongEdges(order, st, es, via)[Len(es)]
  BY <1>1 DEF AlongChannel
<1> QED
  BY <1>2, <1>3, AlongEdgesType

\* The loop over the channels of a component.
LEMMA AlongChannelsType ==
    ASSUME NEW g, NEW T, NEW order \in Seq(T), NEW N \in Nat, N = Len(order),
           NEW st \in BranchStates(N), NEW own \in Seq(Points(N)), NEW n \in 1..N,
           g.comps[order[n]] \in Comps
    PROVE  AlongChannels(g, order, st, own, n)[Len(ChanOrder(g.comps[order[n]]))] \in BranchStates(N)
<1>1. PICK c \in Comps : c = g.comps[order[n]]
  OBVIOUS
<1>2. PICK chans \in Seq(OutNames) : chans = ChanOrder(c)
  BY ChanOrderType
<1>3. PICK L \in Nat : L = Len(chans)
  OBVIOUS
<1>4. PICK S : S = BranchStates(N)
  OBVIOUS
<1> DEFINE Step(x, k) == AlongChannel(order, x, EdgesOn(c, chans[k]), own, n, chans[k])
<1>5. ASSUME NEW k \in 1..L, NEW x \in S PROVE Step(x, k) \in S
  <2>1. chans[k] \in OutNames /\ EdgesOn(c, chans[k]) \in Seq(Srcs)
    BY <1>3, EdgesOnType
  <2> QED
    BY <1>4, <2>1, AlongChannelType
<1>6. PICK base \in S : base = [st EXCEPT !.branch[n] = own]
  <2>1. PICK br : br = [st.branch EXCEPT ![n] = own]
    OBVIOUS
  <2>2. br \in [1..N -> Seq(Points(N))]
    BY <2>1 DEF BranchStates
  <2>3. [st EXCEPT !.branch[n] = own] = [st EXCEPT !.branch = br]
    BY <2>1 DEF BranchStates
  <2> QED
    BY <1>4, <2>2, <2>3 DEF BranchStates
<1> DEFINE Solves(a) == a = [k \in 0..L |-> IF k = 0 THEN base ELSE Step(a[k - 1], k)]
<1>7. \E a : Solves(a)
  <2> HIDE DEF Step
  <2>1. PICK step : step = [k \in 1..L |-> [x \in S |-> Step(x, k)]]
    OBVIOUS
  <2>2. step \in [1..L -> [S -> S]]
    BY <1>5, <2>1
  <2>3. PICK a \in [0..L -> S] : Runs(a, L, base, step)
    BY <2>2, LoopRuns
  <2>4. ASSUME NEW k \in 0..L PROVE a[k] = IF k = 0 THEN base ELSE Step(a[k - 1], k)
    <3>1. CASE k = 0
      BY <2>3, <3>1 DEF Runs
    <3>2. CASE k # 0
      <4>1. k \in 1..L /\ a[k - 1] \in S /\ a[k] = step[k][a[k - 1]]
        BY <2>3, <3>2 DEF Runs
      <4> QED
        BY <2>1, <3>2, <4>1
    <3> QED
      BY <3>1, <3>2
  <2>5. Solves(a)
    BY <2>3, <2>4
  <2> QED
    BY <2>5
<1>8. PICK a : a = AlongChannels(g, order, st, own, n)
  OBVIOUS
<1>9. Solves(a)
  <2>1. a = CHOOSE x : Solves(x)
    BY <1>1, <1>2, <1>3, <1>6, <1>8 DEF AlongChannels, EdgesOn
  <2> HIDE DEF Solves
  <2> QED
    BY <1>7, <2>1
<1>10. a[L] \in S
  <2> HIDE DEF Step
  <2>1. PICK G : G = {k \in 0..L : a[k] \in S}
    OBVIOUS
  <2>2. 0 \in G
    BY <1>9, <2>1
  <2>3. ASSUME NEW k \in G, k < L PROVE k + 1 \in G
    <3>1. k + 1 \in 1..L /\ a[k] \in S /\ a[k + 1] = Step(a[k], k + 1)
      BY <1>9, <2>1, <2>3
    <3> QED
      BY <1>5, <2>1, <3>1
  <2>4. G \in SUBSET (0..L)
    BY <2>1
  <2>5. \A k \in 0..L : k \in G
    BY <2>2, <2>3, <2>4, Upwards
  <2> QED
    BY <2>1, <2>5
<1> QED
  BY <1>1, <1>2, <1>3, <1>4, <1>8, <1>10

\* All edges of a component.
LEMMA SpreadType ==
    ASSUME NEW g, NEW T, NEW order \in Seq(T), NEW N \in Nat, N = Len(order),
           NEW st \in BranchStates(N), NEW n \in 1..N, g.comps[order[n]] \in Comps
    PROVE  Spread(g, order, st, n) \in BranchStates(N)
<1>1. PICK own : own = IF st.to[n] = NoBroadcast THEN st.branch[n] ELSE Truncate(st.branch[n], st.to[n])
  OBVIOUS
<1>2. own \in Seq(Points(N))
  <2>1. st.branch[n] \in Seq(Points(N)) /\ st.to[n] \in Int
    BY DEF BranchStates
  <2>2. PICK s \in Seq(Points(N)) : s = st.branch[n]
    BY <2>1
  <2>3. PICK k \in Int : k = Lesser(Len(s), st.to[n]) /\ k <= Len(s)
    BY <2>1 DEF Lesser
  <2>4. \A i \in 1..k : s[i] \in Points(N)
    BY <2>3
  <2>5. SubSeq(s, 1, k) \in Seq(Points(N))
    BY <2>4, SubSeqProperties
  <2>6. Truncate(st.branch[n], st.to[n]) = SubSeq(s, 1, k)
    BY <2>2, <2>3 DEF Truncate
  <2> QED
    BY <1>1, <2>1, <2>5, <2>6
<1> QED
  BY <1>1, <1>2, AlongChannelsType DEF Spread

\* The loop over the components.
LEMMA BranchesType ==
    ASSUME NEW g, NEW T, NEW order \in Seq(T), NEW N \in Nat, N = Len(order),
           \A n \in 1..N : g.comps[order[n]] \in Comps
    PROVE  Branches(g, order) \in BranchStates(N)
<1>1. PICK S : S = BranchStates(N)
  OBVIOUS
<1>2. PICK base : base = [branch |-> [m \in DOMAIN order |-> <<>>],
                          to     |-> [m \in DOMAIN order |->
                                        IF InitialMode(g.comps[order[m]]) = "multi"
                                        THEN Broadcast(g.comps[order[m]]) ELSE NoBroadcast],
                          lost   |-> FALSE,
                          mixed  |-> FALSE]
  OBVIOUS
<1>3. base \in S
  <2>1. DOMAIN order = 1..N
    OBVIOUS
  <2>2. PICK br : br = [m \in DOMAIN order |-> <<>>]
    OBVIOUS
  <2>3. br \in [1..N -> Seq(Points(N))]
    BY <2>1, <2>2
  <2>4. PICK to : to = [m \in DOMAIN order |->
                          IF InitialMode(g.comps[order[m]]) = "multi"
                          THEN Broadcast(g.comps[order[m]]) ELSE NoBroadcast]
    OBVIOUS
  <2>5. to \in [1..N -> Int]
    <3>1. \A c : Broadcast(c) \in Int /\ NoBroadcast \in Int
      BY DEF Broadcast, NoBroadcast
    <3> QED
      BY <2>1, <2>4, <3>1
  <2>6. base = [branch |-> br, to |-> to, lost |-> FALSE, mixed |-> FALSE]
    BY <1>2, <2>2, <2>4
  <2> QED
    BY <1>1, <2>3, <2>5, <2>6 DEF BranchStates
<1>4. ASSUME NEW n \in 1..N, NEW x \in S PROVE Spread(g, order, x, n) \in S
  BY <1>1, SpreadType
<1> DEFINE Solves(a) == a = [n \in 0..N |-> IF n = 0 THEN base ELSE Spread(g, order, a[n - 1], n)]
<1>5. \E a : Solves(a)
  <2>1. PICK step : step = [k \in 1..N |-> [x \in S |-> Spread(g, order, x, k)]]
    OBVIOUS
  <2>2. step \in [1..N -> [S -> S]]
    BY <1>4, <2>1
  <2>3. PICK a \in [0..N -> S] : Runs(a, N, base, step)
    BY <1>3, <2>2, LoopRuns
  <2>4. ASSUME NEW k \in 0..N PROVE a[k] = IF k = 0 THEN base ELSE Spread(g, order, a[k - 1], k)
    <3>1. CASE k = 0
      BY <2>3, <3>1 DEF Runs
    <3>2. CASE k # 0
      <4>1. k \in 1..N /\ a[k - 1] \in S /\ a[k] = step[k][a[k - 1]]
        BY <2>3, <3>2 DEF Runs
      <4> QED
        BY <2>1, <3>2, <4>1
    <3> QED
      BY <3>1, <3>2
  <2>5. Solves(a)
    BY <2>3, <2>4
  <2> QED
    BY <2>5
<1>6. PICK a : a = SpreadUpTo(g, order)
  OBVIOUS
<1>7. Solves(a)
  <2>1. a = CHOOSE x : Solves(x)
    BY <1>2, <1>6 DEF SpreadUpTo
  <2> HIDE DEF Solves
  <2> QED
    BY <1>5, <2>1
<1>8. a[N] \in S
  <2>1. PICK G : G = {k \in 0..N : a[k] \in S}
    OBVIOUS
  <2>2. 0 \in G
    BY <1>3, <1>7, <2>1
  <2>3. ASSUME NEW k \in G, k < N PROVE k + 1 \in G
    <3>1. k + 1 \in 1..N /\ a[k] \in S /\ a[k + 1] = Spread(g, order, a[k], k + 1)
      BY <1>7, <2>1, <2>3
    <3> QED
      BY <1>4, <2>1, <3>1
  <2>4. G \in SUBSET (0..N)
    BY <2>1
  <2>5. \A k \in 0..N : k \in G
    BY <2>2, <2>3, <2>4, Upwards
  <2> QED
    BY <2>1, <2>5
<1> QED
  BY <1>1, <1>6, <1>8 DEF Branches

-----------------------------------------------------------------------------
(* The tables of the compiled components.                                  *)

Keys == [depth : Nat, slot : Nat]
Edges == [to : Nat, flag : BOOLEAN, depth : Nat, slot : Nat, ext : Int]
SlotMaps == UNION {[D -> Keys] : D \in SUBSET AllChans}
Deps == UNION {[D -> Seq(Edges)] : D \in SUBSET AllChans}
Tables == [type : Types, mode : {"single", "multi"}, chan : AllChans, wrap : BOOLEAN, bc : Int,
           shape : Seq(Nat), slots : SlotMaps, deps : Deps]

DepsOn(t, ch) == At(t.deps, ch, <<>>)

\* The edges of a channel.
LEMMA DepsOnType ==
    ASSUME NEW t \in Tables, NEW ch
    PROVE  DepsOn(t, ch) \in Seq(Edges)
<1>1. PICK D \in SUBSET AllChans : t.deps \in [D -> Seq(Edges)]
  BY DEF Tables, Deps
<1>2. <<>> \in Seq(Edges)
  OBVIOUS
<1> QED
  BY <1>1, <1>2 DEF DepsOn, At

\* One more input at depth d.
LEMMA WidenCounts ==
    ASSUME NEW shape \in Seq(Nat), NEW d \in Nat
    PROVE  /\ Widen(shape, d) \in Seq(Nat)
           /\ \A k \in Nat : /\ At(shape, k + 1, 0) \in Nat
                             /\ At(Widen(shape, d), k + 1, 0) = At(shape, k + 1, 0) + One(k = d)
<1>1. PICK m \in Nat : m = Len(shape)
  OBVIOUS
<1>2. PICK l \in Nat : l = IF m > d THEN m ELSE d + 1
  OBVIOUS
<1>3. PICK w : w = Widen(shape, d)
  OBVIOUS
<1>4. w = [k \in 1..l |-> (IF k \in DOMAIN shape THEN shape[k] ELSE 0) + (IF k = d + 1 THEN 1 ELSE 0)]
  BY <1>1, <1>2, <1>3 DEF Widen
<1>5. DOMAIN shape = 1..m /\ \A k \in 1..m : shape[k] \in Nat
  BY <1>1
<1>6. ASSUME NEW k \in 1..l PROVE w[k] \in Nat
  BY <1>4, <1>5
<1>7. w \in Seq(Nat) /\ DOMAIN w = 1..l
  <2>1. w \in [1..l -> Nat]
    BY <1>4, <1>6
  <2> QED
    BY <2>1
<1>8. ASSUME NEW k \in Nat
      PROVE  /\ At(shape, k + 1, 0) \in Nat
             /\ At(w, k + 1, 0) = At(shape, k + 1, 0) + One(k = d)
  <2>1. At(shape, k + 1, 0) = IF k + 1 \in 1..m THEN shape[k + 1] ELSE 0
    BY <1>5 DEF At
  <2>2. At(w, k + 1, 0) = IF k + 1 \in 1..l THEN w[k + 1] ELSE 0
    BY <1>7 DEF At
  <2>3. One(k = d) = IF k = d THEN 1 ELSE 0
    BY DEF One
  <2>4. CASE k + 1 \in 1..l
    <3>1. w[k + 1] = (IF k + 1 \in DOMAIN shape THEN shape[k + 1] ELSE 0)
                     + (IF k + 1 = d + 1 THEN 1 ELSE 0)
      BY <1>4, <2>4
    <3> QED
      BY <1>5, <2>1, <2>2, <2>3, <2>4, <3>1
  <2>5. CASE k + 1 \notin 1..l
    <3>1. k + 1 \notin 1..m /\ k # d
      BY <1>2, <2>5
    <3> QED
      BY <2>1, <2>2, <2>3, <2>5, <3>1
  <2> QED
    BY <2>4, <2>5
<1> QED
  BY <1>3, <1>7, <1>8

\* A slot for one more input of a component with several.
LEMMA WireWidens ==
    ASSUME NEW N \in Nat, NEW cs \in [1..N -> Tables], NEW n \in 1..N, NEW d \in Nat,
           NEW chan \in AllChans, cs[n].mode = "multi",
           NEW key, key = [depth |-> d, slot |-> At(cs[n].shape, d + 1, 0)],
           NEW w, w = Wire(cs, n, d, chan)
    PROVE  /\ w \in [1..N -> Tables] /\ key \in Keys
           /\ \A m \in 1..N : m # n => w[m] = cs[m]
           /\ w[n].mode = "multi" /\ w[n].deps = cs[n].deps
           /\ w[n].slots = Put(cs[n].slots, chan, key) /\ w[n].shape = Widen(cs[n].shape, d)
<1>1. PICK c \in Tables : c = cs[n]
  OBVIOUS
<1>2. PICK shape : shape = Widen(c.shape, d)
  OBVIOUS
<1>3. PICK slots : slots = Put(c.slots, chan, key)
  OBVIOUS
<1>4. shape \in Seq(Nat) /\ key \in Keys
  <2>1. c.shape \in Seq(Nat)
    BY DEF Tables
  <2>2. shape \in Seq(Nat) /\ At(c.shape, d + 1, 0) \in Nat
    BY <1>2, <2>1, WidenCounts
  <2> QED
    BY <1>1, <2>2 DEF Keys
<1>5. slots \in SlotMaps
  <2>1. PICK D \in SUBSET AllChans : c.slots \in [D -> Keys]
    BY DEF Tables, SlotMaps
  <2>2. slots \in [D \cup {chan} -> Keys]
    BY <1>3, <1>4, <2>1 DEF Put
  <2>3. D \cup {chan} \in SUBSET AllChans
    BY <2>1
  <2> QED
    BY <2>2, <2>3 DEF SlotMaps
<1>6. PICK t : t = [c EXCEPT !.shape = shape, !.slots = slots]
  OBVIOUS
<1>7. /\ t \in Tables /\ t.shape = shape /\ t.slots = slots /\ t.mode = c.mode
      /\ t.deps = c.deps
  BY <1>4, <1>5, <1>6 DEF Tables
<1>8. w = [cs EXCEPT ![n] = t]
  <2>1. w = [cs EXCEPT ![n].shape = shape, ![n].slots = slots]
    BY <1>1, <1>2, <1>3 DEF Wire
  <2> QED
    BY <1>1, <1>6, <2>1
<1> QED
  BY <1>1, <1>2, <1>3, <1>4, <1>7, <1>8

\* Channel ch of component `from' has one more edge in r, and the other channels have their own.
EdgeAdded(cs, r, N, from, chan, e) ==
    /\ DepsOn(r[from], chan) = Append(DepsOn(cs[from], chan), e)
    /\ \A m \in 1..N : \A ch : m # from \/ ch # chan => DepsOn(r[m], ch) = DepsOn(cs[m], ch)

NewEdge(to, flag, key, ext) ==
    [to |-> to, flag |-> flag, depth |-> key.depth, slot |-> key.slot, ext |-> ext]

\* One more edge, and nothing else.
Attached(cs, r, N, from, chan, e) ==
    /\ r \in [1..N -> Tables] /\ e \in Edges /\ EdgeAdded(cs, r, N, from, chan, e)
    /\ \A m \in 1..N : /\ r[m].mode = cs[m].mode /\ r[m].slots = cs[m].slots
                       /\ r[m].shape = cs[m].shape

LEMMA AttachAppends ==
    ASSUME NEW N \in Nat, NEW cs \in [1..N -> Tables], NEW from \in 1..N, NEW to \in 1..N,
           NEW chan \in AllChans, NEW flag, flag \in BOOLEAN, NEW key \in Keys, NEW ext \in Int
    PROVE  Attached(cs, Attach(cs, from, chan, to, flag, key, ext), N, from, chan,
                    NewEdge(to, flag, key, ext))
<1> SUFFICES ASSUME NEW r, r = Attach(cs, from, chan, to, flag, key, ext),
                    NEW e, e = NewEdge(to, flag, key, ext)
             PROVE  Attached(cs, r, N, from, chan, e)
  OBVIOUS
<1>1. PICK c \in Tables : c = cs[from]
  OBVIOUS
<1>2. e \in Edges
  BY DEF Edges, Keys, NewEdge
<1>3. PICK q \in Seq(Edges) : q = Append(DepsOn(c, chan), e)
  <2>1. PICK old \in Seq(Edges) : old = DepsOn(c, chan)
    BY DepsOnType
  <2>2. Append(old, e) \in Seq(Edges)
    BY <1>2, <2>1
  <2> QED
    BY <2>1, <2>2
<1>4. PICK deps : deps = Put(c.deps, chan, q)
  OBVIOUS
<1>5. deps \in Deps
  <2>1. PICK D \in SUBSET AllChans : c.deps \in [D -> Seq(Edges)]
    BY DEF Tables, Deps
  <2>2. deps \in [D \cup {chan} -> Seq(Edges)]
    BY <1>3, <1>4, <2>1 DEF Put
  <2>3. D \cup {chan} \in SUBSET AllChans
    BY <2>1
  <2> QED
    BY <2>2, <2>3 DEF Deps
<1>6. PICK t : t = [c EXCEPT !.deps = deps]
  OBVIOUS
<1>7. /\ t \in Tables /\ t.deps = deps /\ t.mode = c.mode /\ t.slots = c.slots
      /\ t.shape = c.shape
  BY <1>5, <1>6 DEF Tables
<1>8. r = [cs EXCEPT ![from] = t]
  <2>1. r = [cs EXCEPT ![from].deps = deps]
    BY <1>1, <1>3, <1>4 DEF Attach, DepsOn, NewEdge
  <2> QED
    BY <1>1, <1>6, <2>1
<1>9. DepsOn(t, chan) = q /\ \A ch : ch # chan => DepsOn(t, ch) = DepsOn(c, ch)
  BY <1>4, <1>7 DEF DepsOn, At, Put
<1>10. EdgeAdded(cs, r, N, from, chan, e)
  BY <1>1, <1>3, <1>7, <1>8, <1>9 DEF EdgeAdded
<1> QED
  BY <1>1, <1>2, <1>7, <1>8, <1>10 DEF Attached

\* The edges to component q whose key is one of K, and how many of them t has for ch.
EdgesTo(q, K) == {e \in Edges : e.to = q /\ [depth |-> e.depth, slot |-> e.slot] \in K}
Carried(t, ch, q, K) == Cardinality(Hits(DepsOn(t, ch), EdgesTo(q, K)))

\* The key of an input, and the inputs that channel ch of component p feeds at a key of K.
KeyFor(slots, chan) == At(slots, chan, [depth |-> 0, slot |-> 0])
InsVia(order, slots, p, ch, K) ==
    {x \in Ins : /\ Position(order, x.src.id) = p /\ x.src.chan = ch
                 /\ KeyFor(slots, x.chan) \in K}

\* The lookup of a component, and the edges to it, are those of its inputs `in'.
SlotsFit(t, in) ==
    /\ DOMAIN t.slots = IF t.mode = "multi" THEN {in[m].chan : m \in DOMAIN in} ELSE {}
    /\ \A a, b \in DOMAIN t.slots : t.slots[a] = t.slots[b] => a = b
    /\ \A a \in DOMAIN t.slots : t.slots[a].slot < At(t.shape, t.slots[a].depth + 1, 0)
EdgesFit(order, cs, N, q, in) ==
    \A p \in 1..N : \A ch, K :
        Carried(cs[p], ch, q, K) = Cardinality(Hits(in, InsVia(order, cs[q].slots, p, ch, K)))
Fits(order, cs, N, q, in) == SlotsFit(cs[q], in) /\ EdgesFit(order, cs, N, q, in)

\* Every input has a key, if only the default one.
LEMMA KeyForType ==
    ASSUME NEW t \in Tables, NEW chan
    PROVE  KeyFor(t.slots, chan) \in Keys
<1>1. PICK D \in SUBSET AllChans : t.slots \in [D -> Keys]
  BY DEF Tables, SlotMaps
<1>2. [depth |-> 0, slot |-> 0] \in Keys
  BY DEF Keys
<1> QED
  BY <1>1, <1>2 DEF KeyFor, At

NoneFor(in, chan) == \A m \in DOMAIN in : in[m].chan # chan
SameKeys(in, a, b) == \A m \in DOMAIN in : KeyFor(a, in[m].chan) = KeyFor(b, in[m].chan)

\* Channel chan has a slot of its own, at depth d, in u.
SlotAdded(t, u, chan, d) ==
    /\ t.mode = "multi" /\ u.mode = "multi" /\ u.shape = Widen(t.shape, d)
    /\ u.slots = Put(t.slots, chan, [depth |-> d, slot |-> At(t.shape, d + 1, 0)])

\* The slot of one more input is nobody else's, and the others keep theirs.
LEMMA SlotIsNew ==
    ASSUME NEW t \in Tables, NEW in \in Seq(Ins), SlotsFit(t, in), NEW x \in Ins, NEW d \in Nat,
           NoneFor(in, x.chan), NEW u \in Tables, SlotAdded(t, u, x.chan, d)
    PROVE  SlotsFit(u, Append(in, x)) /\ SameKeys(in, u.slots, t.slots)
<1> USE DEF NoneFor, SlotAdded, SameKeys
<1>1. PICK D \in SUBSET AllChans : t.slots \in [D -> Keys]
  BY DEF Tables, SlotMaps
<1>2. D = {in[m].chan : m \in DOMAIN in} /\ x.chan \notin D
  <2>1. DOMAIN t.slots = {in[m].chan : m \in DOMAIN in}
    BY DEF SlotsFit
  <2>2. DOMAIN t.slots = D
    BY <1>1
  <2> QED
    BY <2>1, <2>2
<1>3. PICK old : old = t.slots
  OBVIOUS
<1>4. PICK key : key = [depth |-> d, slot |-> At(t.shape, d + 1, 0)]
  OBVIOUS
<1>5. /\ DOMAIN old = D /\ DOMAIN u.slots = D \cup {x.chan} /\ u.slots[x.chan] = key
      /\ \A a \in D : u.slots[a] = old[a] /\ old[a] \in Keys
  BY <1>1, <1>2, <1>3, <1>4 DEF Put
<1>6. t.shape \in Seq(Nat)
  BY DEF Tables
<1>7. \A k \in Nat : /\ At(t.shape, k + 1, 0) \in Nat
                     /\ At(u.shape, k + 1, 0) = At(t.shape, k + 1, 0) + One(k = d)
  <2>1. PICK shape \in Seq(Nat) : shape = t.shape
    BY <1>6
  <2>2. \A k \in Nat : /\ At(shape, k + 1, 0) \in Nat
                       /\ At(Widen(shape, d), k + 1, 0) = At(shape, k + 1, 0) + One(k = d)
    BY WidenCounts
  <2> QED
    BY <2>1, <2>2
<1>8. key.depth = d /\ key.slot = At(t.shape, d + 1, 0) /\ key.slot \in Nat
  BY <1>4, <1>7
<1>9. ASSUME NEW a \in D
      PROVE  old[a].slot \in Nat /\ old[a].depth \in Nat
             /\ old[a].slot < At(t.shape, old[a].depth + 1, 0)
  <2>1. old[a] \in Keys
    BY <1>5
  <2>2. a \in DOMAIN t.slots
    BY <1>3, <1>5
  <2>3. t.slots[a].slot < At(t.shape, t.slots[a].depth + 1, 0)
    BY <2>2 DEF SlotsFit
  <2> QED
    BY <1>3, <2>1, <2>3 DEF Keys
<1>10. ASSUME NEW a \in D PROVE old[a] # key
  <2> SUFFICES ASSUME old[a] = key PROVE FALSE
    OBVIOUS
  <2>1. PICK w \in Nat : w = At(t.shape, d + 1, 0)
    BY <1>7
  <2>2. old[a].slot = w /\ old[a].depth = d
    BY <1>8, <2>1
  <2>3. old[a].slot < At(t.shape, old[a].depth + 1, 0)
    BY <1>9
  <2>4. w < w
    BY <2>1, <2>2, <2>3
  <2> QED
    BY <2>1, <2>4
<1>11. DOMAIN u.slots = {Append(in, x)[m].chan : m \in DOMAIN Append(in, x)}
  <2>1. PICK n \in Nat : n = Len(in)
    OBVIOUS
  <2>2. PICK r \in Seq(Ins) : r = Append(in, x)
    <3>1. Append(in, x) \in Seq(Ins)
      OBVIOUS
    <3> QED
      BY <3>1
  <2>3. DOMAIN in = 1..n /\ DOMAIN r = 1..(n + 1) /\ r[n + 1] = x /\ \A m \in 1..n : r[m] = in[m]
    BY <2>1, <2>2
  <2>4. \A a : a \in D \cup {x.chan} <=> \E m \in 1..(n + 1) : r[m].chan = a
    <3>1. ASSUME NEW a \in D PROVE \E m \in 1..(n + 1) : r[m].chan = a
      <4>1. PICK m \in 1..n : in[m].chan = a
        BY <1>2, <2>3
      <4> QED
        BY <2>3, <4>1
    <3>2. n + 1 \in 1..(n + 1) /\ r[n + 1].chan = x.chan
      BY <2>3
    <3>3. ASSUME NEW m \in 1..(n + 1) PROVE r[m].chan \in D \cup {x.chan}
      <4>1. CASE m = n + 1
        BY <2>3, <4>1
      <4>2. CASE m \in 1..n
        BY <1>2, <2>3, <4>2
      <4> QED
        BY <4>1, <4>2
    <3> QED
      BY <3>1, <3>2, <3>3
  <2>5. {r[m].chan : m \in DOMAIN r} = D \cup {x.chan}
    BY <2>3, <2>4
  <2> QED
    BY <1>5, <2>2, <2>5
<1>12. ASSUME NEW a \in DOMAIN u.slots, NEW b \in DOMAIN u.slots, u.slots[a] = u.slots[b]
       PROVE  a = b
  <2>1. \A e, f \in D : old[e] = old[f] => e = f
    BY <1>3, <1>5 DEF SlotsFit
  <2> QED
    BY <1>5, <1>10, <1>12, <2>1
<1>13. ASSUME NEW a \in DOMAIN u.slots
       PROVE  u.slots[a].slot < At(u.shape, u.slots[a].depth + 1, 0)
  <2>1. CASE a \in D
    <3>1. PICK k \in Nat : k = old[a].depth
      BY <1>9, <2>1
    <3>2. At(u.shape, k + 1, 0) = At(t.shape, k + 1, 0) + One(k = d) /\ At(t.shape, k + 1, 0) \in Nat
      BY <1>7
    <3>3. One(k = d) \in Nat
      BY OneIsNumber
    <3>4. old[a].slot < At(t.shape, k + 1, 0) /\ old[a].slot \in Nat /\ u.slots[a] = old[a]
      BY <1>5, <1>9, <2>1, <3>1
    <3> QED
      BY <3>1, <3>2, <3>3, <3>4
  <2>2. CASE a = x.chan
    <3>1. u.slots[a].depth = d /\ u.slots[a].slot = At(t.shape, d + 1, 0)
      BY <1>5, <1>8, <2>2
    <3>2. At(u.shape, d + 1, 0) = At(t.shape, d + 1, 0) + One(d = d) /\ At(t.shape, d + 1, 0) \in Nat
      BY <1>7
    <3>3. One(d = d) = 1
      BY DEF One
    <3> QED
      BY <3>1, <3>2, <3>3
  <2> QED
    BY <1>5, <2>1, <2>2
<1>14. SlotsFit(u, Append(in, x))
  BY <1>11, <1>12, <1>13 DEF SlotsFit
<1>15. ASSUME NEW m \in DOMAIN in PROVE KeyFor(u.slots, in[m].chan) = KeyFor(t.slots, in[m].chan)
  <2>1. in[m].chan \in D
    BY <1>2
  <2> QED
    BY <1>3, <1>5, <2>1 DEF KeyFor, At
<1> QED
  BY <1>14, <1>15

\* One more edge to component n, for input x of it, with the key of that input.
LEMMA EdgeFits ==
    ASSUME NEW N \in Nat, NEW cs \in [1..N -> Tables], NEW n \in 1..N,
           NEW order, NEW x \in Ins, Position(order, x.src.id) \in 1..N,
           NEW in \in Seq(Ins), EdgesFit(order, cs, N, n, in),
           NEW r \in [1..N -> Tables], SameKeys(in, r[n].slots, cs[n].slots),
           NEW e \in Edges, e.to = n,
           [depth |-> e.depth, slot |-> e.slot] = KeyFor(r[n].slots, x.chan),
           EdgeAdded(cs, r, N, Position(order, x.src.id), x.src.chan, e)
    PROVE  EdgesFit(order, r, N, n, Append(in, x))
<1>a. PICK from \in 1..N : from = Position(order, x.src.id)
  OBVIOUS
<1>0. PICK chan, slots :
         from = Position(order, x.src.id) /\ chan = x.src.chan /\ slots = cs[n].slots
  BY <1>a
<1> USE <1>0 DEF SameKeys
<1> SUFFICES ASSUME NEW p \in 1..N, NEW ch, NEW K
             PROVE  Carried(r[p], ch, n, K)
                      = Cardinality(Hits(Append(in, x), InsVia(order, r[n].slots, p, ch, K)))
  BY DEF EdgesFit
<1>1. PICK V : V = InsVia(order, r[n].slots, p, ch, K)
  OBVIOUS
<1>2. Cardinality(Hits(Append(in, x), V)) = Cardinality(Hits(in, V)) + One(x \in V)
  BY HitsAppend
<1>3. Hits(in, V) = Hits(in, InsVia(order, slots, p, ch, K))
  <2>1. \A m \in DOMAIN in : in[m] \in Ins
    OBVIOUS
  <2>2. \A m \in DOMAIN in : in[m] \in V <=> in[m] \in InsVia(order, slots, p, ch, K)
    BY <1>1, <2>1 DEF InsVia
  <2> QED
    BY <2>2 DEF Hits
<1>4. Carried(cs[p], ch, n, K) = Cardinality(Hits(in, V))
  BY <1>3 DEF EdgesFit
<1>5. x \in V <=> p = from /\ ch = x.src.chan /\ KeyFor(r[n].slots, x.chan) \in K
  BY <1>1 DEF InsVia
<1>6. e \in EdgesTo(n, K) <=> KeyFor(r[n].slots, x.chan) \in K
  BY DEF EdgesTo
<1>7. CASE p = from /\ ch = x.src.chan
  <2>1. PICK old \in Seq(Edges) : old = DepsOn(cs[p], ch)
    BY DepsOnType
  <2>2. Cardinality(Hits(Append(old, e), EdgesTo(n, K)))
          = Cardinality(Hits(old, EdgesTo(n, K))) + One(e \in EdgesTo(n, K))
    BY HitsAppend
  <2>3. One(e \in EdgesTo(n, K)) = One(x \in V)
    BY <1>5, <1>6, <1>7 DEF One
  <2>4. Carried(r[p], ch, n, K) = Cardinality(Hits(Append(old, e), EdgesTo(n, K)))
    BY <1>7, <2>1 DEF Carried, EdgeAdded
  <2>5. Carried(cs[p], ch, n, K) = Cardinality(Hits(old, EdgesTo(n, K)))
    BY <2>1 DEF Carried
  <2> QED
    BY <1>1, <1>2, <1>4, <2>2, <2>3, <2>4, <2>5
<1>8. CASE ~(p = from /\ ch = x.src.chan)
  <2>1. DepsOn(r[p], ch) = DepsOn(cs[p], ch)
    BY <1>8 DEF EdgeAdded
  <2>2. One(x \in V) = 0
    BY <1>5, <1>8 DEF One
  <2>3. Cardinality(Hits(in, V)) \in Nat
    BY HitsFinite
  <2> QED
    BY <1>1, <1>2, <1>4, <2>1, <2>2, <2>3 DEF Carried
<1> QED
  BY <1>7, <1>8

\* For the other components it is none of theirs.
LEMMA EdgeElsewhere ==
    ASSUME NEW N \in Nat, NEW cs \in [1..N -> Tables], NEW from \in 1..N,
           NEW order, NEW q \in 1..N, NEW in, EdgesFit(order, cs, N, q, in),
           NEW r \in [1..N -> Tables], r[q].slots = cs[q].slots,
           NEW e \in Edges, e.to # q, NEW chan,
           EdgeAdded(cs, r, N, from, chan, e)
    PROVE  EdgesFit(order, r, N, q, in)
<1>1. ASSUME NEW p \in 1..N, NEW ch, NEW K
      PROVE  Carried(r[p], ch, q, K) = Carried(cs[p], ch, q, K)
  <2>1. CASE p = from /\ ch = chan
    <3>1. PICK old \in Seq(Edges) : old = DepsOn(cs[p], ch)
      BY DepsOnType
    <3>2. Cardinality(Hits(Append(old, e), EdgesTo(q, K)))
            = Cardinality(Hits(old, EdgesTo(q, K))) + One(e \in EdgesTo(q, K))
      BY HitsAppend
    <3>3. One(e \in EdgesTo(q, K)) = 0
      BY DEF One, EdgesTo
    <3>4. Cardinality(Hits(old, EdgesTo(q, K))) \in Nat
      BY HitsFinite
    <3>5. DepsOn(r[p], ch) = Append(old, e)
      BY <2>1, <3>1 DEF EdgeAdded
    <3> QED
      BY <3>1, <3>2, <3>3, <3>4, <3>5 DEF Carried
  <2>2. CASE ~(p = from /\ ch = chan)
    BY <2>2 DEF Carried, EdgeAdded
  <2> QED
    BY <2>1, <2>2
<1> QED
  BY <1>1 DEF EdgesFit

-----------------------------------------------------------------------------
(* The loop over the inputs of a component.                                *)

WireStates(N) == [cs : [1..N -> Tables], missing : BOOLEAN]

\* No two inputs of a component that have a source are of one channel.
Apart(q) ==
    \A m, n \in DOMAIN q :
        /\ q[m].chan = q[n].chan
        /\ q[m].src # NoSrc /\ q[n].src # NoSrc
        => m = n

\* No input has several sources.
NoShares(c) ==
    /\ c.multi = NoMulti
    /\ c.type.mode # "primary" => Apart(c.single)

\* What the wiring starts from.
Linked(g, order, br, N) ==
    /\ N \in Nat /\ order \in Seq(Ids(g)) /\ N = Len(order) /\ ToSet(order) = Ids(g)
    /\ 0 \notin Ids(g) /\ br \in [1..N -> Seq(Points(N))]
    /\ \A i \in Ids(g) :
          /\ g.comps[i] \in Comps /\ NoShares(g.comps[i])
          /\ \A m \in DOMAIN g.comps[i].single :
                g.comps[i].single[m].src # NoSrc => g.comps[i].single[m].src.id \in Ids(g)

\* The source of an input is in the order, and delivers at some depth.
LEMMA SourcePlace ==
    ASSUME NEW N, NEW g, NEW order, NEW br, Linked(g, order, br, N),
           NEW src \in Srcs, src.id \in Ids(g)
    PROVE  /\ Position(order, src.id) \in 1..N /\ Depth(g, order, br, src) \in Nat
           /\ Branching(g, src) \in BOOLEAN
<1>1. PICK p : p = Position(order, src.id)
  OBVIOUS
<1>2. p \in 1..N
  BY <1>1, PositionFound DEF Linked
<1>3. PICK b \in Seq(Points(N)) : b = br[p]
  BY <1>2 DEF Linked
<1>4. Depth(g, order, br, src) = Len(b) + (IF Branching(g, src) THEN 1 ELSE 0)
  BY <1>1, <1>3 DEF Depth
<1>5. Depth(g, order, br, src) \in Nat
  <2>1. Len(b) \in Nat
    OBVIOUS
  <2>2. (IF Branching(g, src) THEN 1 ELSE 0) \in {0, 1}
    OBVIOUS
  <2> QED
    BY <1>4, <2>1, <2>2
<1>6. Branching(g, src) \in BOOLEAN
  <2>1. PICK c \in Comps : c = g.comps[src.id]
    BY DEF Linked
  <2>2. PICK es \in Seq(Srcs) : es = EdgesOn(c, src.chan)
    BY EdgesOnType
  <2>3. Branching(g, src) = (es # <<>> /\ es[1].flag)
    BY <2>1, <2>2 DEF Branching, EdgesOn
  <2> QED
    BY <2>3
<1> QED
  BY <1>1, <1>2, <1>5, <1>6

\* Component n has the slots and the edges of one more input in r.
InputAdded(order, cs, r, N, n, x) ==
    /\ \A m \in 1..N : r[m].mode = cs[m].mode
    /\ \A in \in Seq(Ins) : /\ Fits(order, cs, N, n, in)
                            /\ cs[n].mode = "multi" => NoneFor(in, x.chan)
                            => Fits(order, r, N, n, Append(in, x))
    /\ \A q \in 1..N : \A in :
          q # n /\ Fits(order, cs, N, q, in) => Fits(order, r, N, q, in)

\* One input that has a source.
WithInput(order, cs, n, x, d, flag, ext) ==
    LET w == Wire(cs, n, d, x.chan)
    IN  Attach(w, Position(order, x.src.id), x.src.chan, n, flag, SlotOf(w[n], x.chan), ext)

\* It adds that input to its component, and disturbs no other.
LEMMA InputWired ==
    ASSUME NEW N \in Nat, NEW cs \in [1..N -> Tables], NEW n \in 1..N,
           NEW order, NEW x \in Ins, Position(order, x.src.id) \in 1..N,
           NEW d \in Nat, NEW flag, flag \in BOOLEAN, NEW ext \in Int
    PROVE  /\ WithInput(order, cs, n, x, d, flag, ext) \in [1..N -> Tables]
           /\ InputAdded(order, cs, WithInput(order, cs, n, x, d, flag, ext), N, n, x)
<1> SUFFICES ASSUME NEW r, r = WithInput(order, cs, n, x, d, flag, ext)
             PROVE  r \in [1..N -> Tables] /\ InputAdded(order, cs, r, N, n, x)
  OBVIOUS
<1>a. PICK from \in 1..N : from = Position(order, x.src.id)
  OBVIOUS
<1>0. PICK w : from = Position(order, x.src.id) /\ w = Wire(cs, n, d, x.chan)
  BY <1>a
<1>1. PICK chan \in AllChans, out \in AllChans : chan = x.chan /\ out = x.src.chan
  BY DEF Ins, Srcs
<1>2. PICK key : key = [depth |-> d, slot |-> At(cs[n].shape, d + 1, 0)]
  OBVIOUS
<1>3. cs[n].mode = "single" \/ cs[n].mode = "multi"
  BY DEF Tables
<1>4. ASSUME cs[n].mode = "single" PROVE w = cs
  BY <1>0, <1>4 DEF Wire
<1>5. ASSUME cs[n].mode = "multi"
      PROVE  /\ w \in [1..N -> Tables] /\ \A m \in 1..N : m # n => w[m] = cs[m]
             /\ w[n].deps = cs[n].deps /\ SlotAdded(cs[n], w[n], chan, d)
  <2>1. w = Wire(cs, n, d, chan)
    BY <1>0, <1>1
  <2> QED
    BY <1>2, <1>5, <2>1, WireWidens DEF SlotAdded
<1>6. /\ w \in [1..N -> Tables] /\ \A m \in 1..N : w[m].mode = cs[m].mode /\ w[m].deps = cs[m].deps
      /\ \A m \in 1..N : m # n => w[m] = cs[m]
  BY <1>3, <1>4, <1>5 DEF SlotAdded
<1>7. \A m \in 1..N : \A ch : DepsOn(w[m], ch) = DepsOn(cs[m], ch)
  BY <1>6 DEF DepsOn
<1>8. PICK at : at = SlotOf(w[n], chan)
  OBVIOUS
<1>9. at = KeyFor(w[n].slots, chan) /\ at \in Keys
  <2>1. w[n] \in Tables
    BY <1>6
  <2> QED
    BY <1>8, <2>1, KeyForType DEF SlotOf, KeyFor
<1>10. PICK e : e = NewEdge(n, flag, at, ext)
  OBVIOUS
<1>11. /\ r \in [1..N -> Tables] /\ e \in Edges
       /\ \A m \in 1..N : /\ r[m].mode = w[m].mode /\ r[m].slots = w[m].slots
                          /\ r[m].shape = w[m].shape
       /\ EdgeAdded(w, r, N, from, out, e)
  <2>1. r = Attach(w, from, out, n, flag, at, ext)
    BY <1>0, <1>1, <1>8 DEF WithInput
  <2>2. PICK b : b = Attach(w, from, out, n, flag, at, ext)
    OBVIOUS
  <2>3. Attached(w, b, N, from, out, NewEdge(n, flag, at, ext))
    <3>1. w \in [1..N -> Tables]
      BY <1>6
    <3>2. at \in Keys
      BY <1>9
    <3> QED
      BY <2>2, <3>1, <3>2, AttachAppends
  <2> QED
    BY <1>10, <2>1, <2>2, <2>3 DEF Attached
<1>12. EdgeAdded(cs, r, N, from, out, e)
  <2>1. DepsOn(w[from], out) = DepsOn(cs[from], out)
    BY <1>7
  <2>2. DepsOn(r[from], out) = Append(DepsOn(cs[from], out), e)
    BY <1>11, <2>1 DEF EdgeAdded
  <2>3. ASSUME NEW m \in 1..N, NEW ch, m # from \/ ch # out
        PROVE  DepsOn(r[m], ch) = DepsOn(cs[m], ch)
    <3>1. DepsOn(r[m], ch) = DepsOn(w[m], ch)
      BY <1>11, <2>3 DEF EdgeAdded
    <3>2. DepsOn(w[m], ch) = DepsOn(cs[m], ch)
      BY <1>7
    <3> QED
      BY <3>1, <3>2
  <2> QED
    BY <2>2, <2>3 DEF EdgeAdded
<1>13. e.to = n /\ [depth |-> e.depth, slot |-> e.slot] = KeyFor(r[n].slots, x.chan)
  <2>1. [depth |-> e.depth, slot |-> e.slot] = at
    BY <1>9, <1>10 DEF Keys, NewEdge
  <2> QED
    BY <1>1, <1>9, <1>10, <1>11, <2>1 DEF NewEdge
<1>14. ASSUME NEW in \in Seq(Ins), Fits(order, cs, N, n, in),
              cs[n].mode = "multi" => NoneFor(in, x.chan)
       PROVE  Fits(order, r, N, n, Append(in, x))
  <2>1. SlotsFit(r[n], Append(in, x)) /\ SameKeys(in, r[n].slots, cs[n].slots)
    <3>1. PICK t \in Tables : t = cs[n]
      OBVIOUS
    <3>2. PICK u \in Tables : u = r[n]
      BY <1>11
    <3>3. SlotsFit(t, in)
      BY <1>14, <3>1 DEF Fits
    <3>4. CASE t.mode = "multi"
      <4>1. SlotAdded(t, u, x.chan, d)
        BY <1>1, <1>5, <1>11, <3>1, <3>2, <3>4 DEF SlotAdded
      <4>2. NoneFor(in, x.chan)
        BY <1>14, <3>1, <3>4
      <4> QED
        BY <3>1, <3>2, <3>3, <4>1, <4>2, SlotIsNew
    <3>5. CASE t.mode = "single"
      <4>1. u.mode = "single" /\ u.shape = t.shape /\ u.slots = t.slots
        BY <1>4, <1>11, <3>1, <3>2, <3>5
      <4> QED
        BY <3>1, <3>2, <3>3, <3>5, <4>1 DEF SlotsFit, SameKeys
    <3> QED
      BY <1>3, <3>1, <3>4, <3>5
  <2>2. EdgesFit(order, cs, N, n, in)
    BY <1>14 DEF Fits
  <2>3. EdgeAdded(cs, r, N, Position(order, x.src.id), x.src.chan, e)
    BY <1>0, <1>1, <1>12
  <2>4. EdgesFit(order, r, N, n, Append(in, x))
    BY <1>11, <1>13, <2>1, <2>2, <2>3, EdgeFits
  <2> QED
    BY <2>1, <2>4 DEF Fits
<1>15. ASSUME NEW q \in 1..N, NEW in, q # n, Fits(order, cs, N, q, in)
       PROVE  Fits(order, r, N, q, in)
  <2>1. r[q].slots = cs[q].slots /\ r[q].mode = cs[q].mode /\ r[q].shape = cs[q].shape
    BY <1>6, <1>11, <1>15
  <2>2. SlotsFit(r[q], in)
    BY <1>15, <2>1 DEF Fits, SlotsFit
  <2>3. EdgesFit(order, cs, N, q, in) /\ e.to # q
    BY <1>13, <1>15 DEF Fits
  <2>4. EdgesFit(order, r, N, q, in)
    BY <1>11, <1>12, <2>1, <2>3, EdgeElsewhere
  <2> QED
    BY <2>2, <2>4 DEF Fits
<1> QED
  BY <1>6, <1>11, <1>14, <1>15 DEF InputAdded

\* A round of the loop goes on only if the input has a source.
LEMMA InputStep ==
    ASSUME NEW N, NEW g, NEW order, NEW br, Linked(g, order, br, N), NEW n \in 1..N,
           NEW st \in WireStates(N), NEW c, c = g.comps[order[n]], NEW k \in 1..Len(c.single),
           NEW r, r = WireSingle(g, order, br, st, n, k)
    PROVE  /\ r \in WireStates(N)
           /\ ~r.missing => /\ ~st.missing /\ c.single[k].src # NoSrc
                            /\ InputAdded(order, st.cs, r.cs, N, n, c.single[k])
<1>1. order[n] \in Ids(g) /\ c \in Comps
  BY DEF Linked
<1>2. PICK x \in Ins : x = c.single[k]
  BY <1>1 DEF Comps
<1>3. CASE st.missing
  <2>1. r = st
    BY <1>3 DEF WireSingle
  <2> QED
    BY <1>3, <2>1
<1>4. CASE ~st.missing /\ x.src = NoSrc
  <2>1. r = [st EXCEPT !.missing = TRUE]
    BY <1>2, <1>4 DEF WireSingle
  <2> QED
    BY <2>1 DEF WireStates
<1>5. CASE ~st.missing /\ x.src # NoSrc
  <2>1. x.src \in Srcs /\ x.src.id \in Ids(g) /\ k \in DOMAIN c.single
    <3>1. k \in DOMAIN c.single
      BY <1>1 DEF Comps
    <3> QED
      BY <1>1, <1>2, <1>5, <3>1 DEF Linked, Ins
  <2>a. PICK d \in Nat : d = Depth(g, order, br, x.src)
    BY <2>1, SourcePlace
  <2>2. PICK flag : /\ d = Depth(g, order, br, x.src)
                    /\ flag = Branching(g, x.src) /\ flag \in BOOLEAN
    BY <2>1, <2>a, SourcePlace
  <2>3. PICK ext \in Int : ext = IF c.type.mode = "primary" /\ Len(c.single) > 1 THEN k - 1 ELSE NoExt
    BY DEF NoExt
  <2>4. PICK cs \in [1..N -> Tables] : cs = st.cs
    BY DEF WireStates
  <2>5. PICK t : t = WithInput(order, cs, n, x, d, flag, ext)
    OBVIOUS
  <2>6. r = [st EXCEPT !.cs = t]
    BY <1>2, <1>5, <2>2, <2>3, <2>4, <2>5 DEF WireSingle, WithInput
  <2>7. N \in Nat /\ Position(order, x.src.id) \in 1..N
    BY <2>1, SourcePlace DEF Linked
  <2>8. t \in [1..N -> Tables] /\ InputAdded(order, st.cs, t, N, n, x)
    <3>1. Position(order, x.src.id) \in 1..N /\ flag \in BOOLEAN /\ N \in Nat
      BY <2>2, <2>7
    <3> QED
      BY <2>4, <2>5, <3>1, InputWired
  <2>9. r \in WireStates(N) /\ r.cs = t
    BY <2>6, <2>8 DEF WireStates
  <2> QED
    BY <1>2, <1>5, <2>8, <2>9
<1> QED
  BY <1>2, <1>3, <1>4, <1>5

\* The first k of a sequence.
Upto(s, k) == [m \in 1..k |-> s[m]]

\* They are one more after each round.
LEMMA UptoGrows ==
    ASSUME NEW T, NEW s \in Seq(T)
    PROVE  /\ Upto(s, 0) = <<>> /\ Upto(s, Len(s)) = s
           /\ \A k \in 0..Len(s) : Upto(s, k) \in Seq(T) /\ DOMAIN Upto(s, k) = 1..k
           /\ \A k \in 0..(Len(s) - 1) : Upto(s, k + 1) = Append(Upto(s, k), s[k + 1])
<1>1. PICK l \in Nat : l = Len(s)
  OBVIOUS
<1>2. DOMAIN s = 1..l /\ \A m \in 1..l : s[m] \in T
  BY <1>1
<1>3. ASSUME NEW k \in 0..l PROVE Upto(s, k) \in Seq(T) /\ Len(Upto(s, k)) = k /\ DOMAIN Upto(s, k) = 1..k
  <2>1. PICK u : u = [m \in 1..k |-> s[m]]
    OBVIOUS
  <2>2. u \in [1..k -> T] /\ k \in Nat
    BY <1>2, <2>1
  <2> QED
    BY <2>1, <2>2 DEF Upto
<1>4. ASSUME NEW k \in 0..(l - 1) PROVE Upto(s, k + 1) = Append(Upto(s, k), s[k + 1])
  <2>1. PICK u \in Seq(T), v \in Seq(T) : u = Upto(s, k) /\ v = Upto(s, k + 1)
    BY <1>3
  <2>2. Len(u) = k /\ Len(v) = k + 1 /\ s[k + 1] \in T
    BY <1>2, <1>3, <2>1
  <2>3. (\A m \in 1..k : u[m] = s[m]) /\ \A m \in 1..(k + 1) : v[m] = s[m]
    BY <2>1 DEF Upto
  <2>4. PICK a \in Seq(T) : a = Append(u, s[k + 1])
    <3>1. PICK x \in T : x = s[k + 1]
      BY <2>2
    <3>2. Append(u, x) \in Seq(T)
      OBVIOUS
    <3> QED
      BY <3>1, <3>2
  <2>5. Len(a) = k + 1 /\ a[k + 1] = s[k + 1] /\ \A m \in 1..k : a[m] = u[m]
    BY <2>2, <2>4
  <2>6. \A m \in 1..(k + 1) : a[m] = v[m]
    BY <2>3, <2>5
  <2>7. a = v
    BY <2>2, <2>5, <2>6
  <2> QED
    BY <2>1, <2>4, <2>7
<1>5. Upto(s, 0) = <<>>
  BY DEF Upto
<1>6. Upto(s, l) = s
  <2>1. PICK u \in Seq(T) : u = Upto(s, l)
    BY <1>3
  <2>2. Len(u) = l /\ \A m \in 1..l : u[m] = s[m]
    BY <1>3, <2>1 DEF Upto
  <2> QED
    BY <1>1, <2>1, <2>2
<1> QED
  BY <1>1, <1>3, <1>4, <1>5, <1>6

\* The inputs of a component.
InputsAdded(order, cs, r, N, n, in) ==
    /\ \A m \in 1..N : r[m].mode = cs[m].mode
    /\ Fits(order, cs, N, n, <<>>) => Fits(order, r, N, n, in)
    /\ \A q \in 1..N : \A other :
          q # n /\ Fits(order, cs, N, q, other) => Fits(order, r, N, q, other)

\* After the loop the component has all of its inputs, or compile() has failed.
LEMMA InputsWired ==
    ASSUME NEW N, NEW g, NEW order, NEW br, Linked(g, order, br, N), NEW n \in 1..N,
           NEW st \in WireStates(N), NEW c, c = g.comps[order[n]],
           NEW r, r = WireInputs(g, order, br, st, n)[Len(c.single)]
    PROVE  /\ r \in WireStates(N)
           /\ ~r.missing => ~st.missing
           /\ ~r.missing /\ (c.type.mode = "primary" => st.cs[n].mode = "single") =>
                 InputsAdded(order, st.cs, r.cs, N, n, c.single)
<1>1. c \in Comps /\ NoShares(c)
  BY DEF Linked
<1>2. PICK single \in Seq(Ins) : single = c.single
  BY <1>1 DEF Comps
<1>3. PICK L \in Nat : L = Len(single)
  OBVIOUS
<1>4. PICK S : S = WireStates(N)
  OBVIOUS
<1> DEFINE Step(x, k) == WireSingle(g, order, br, x, n, k)
<1>5. ASSUME NEW k \in 1..L, NEW x \in S PROVE Step(x, k) \in S
  BY <1>2, <1>3, <1>4, InputStep
<1> DEFINE Solves(a) == a = [k \in 0..L |-> IF k = 0 THEN st ELSE Step(a[k - 1], k)]
<1>6. \E a : Solves(a)
  <2> HIDE DEF Step
  <2>1. PICK step : step = [k \in 1..L |-> [x \in S |-> Step(x, k)]]
    OBVIOUS
  <2>2. step \in [1..L -> [S -> S]] /\ st \in S
    BY <1>4, <1>5, <2>1
  <2>3. PICK a \in [0..L -> S] : Runs(a, L, st, step)
    BY <2>2, LoopRuns
  <2>4. ASSUME NEW k \in 0..L PROVE a[k] = IF k = 0 THEN st ELSE Step(a[k - 1], k)
    <3>1. CASE k = 0
      BY <2>3, <3>1 DEF Runs
    <3>2. CASE k # 0
      <4>1. k \in 1..L /\ a[k - 1] \in S /\ a[k] = step[k][a[k - 1]]
        BY <2>3, <3>2 DEF Runs
      <4> QED
        BY <2>1, <3>2, <4>1
    <3> QED
      BY <3>1, <3>2
  <2>5. Solves(a)
    BY <2>3, <2>4
  <2> QED
    BY <2>5
<1>7. PICK a : a = WireInputs(g, order, br, st, n)
  OBVIOUS
<1>8. Solves(a)
  <2>1. a = CHOOSE x : Solves(x)
    BY <1>2, <1>3, <1>7 DEF WireInputs
  <2> HIDE DEF Solves
  <2> QED
    BY <1>6, <2>1
<1> HIDE DEF Step
<1> DEFINE Done(k) ==
      /\ a[k] \in S
      /\ ~a[k].missing => ~st.missing /\ \A m \in 1..k : single[m].src # NoSrc
      /\ ~a[k].missing /\ (c.type.mode = "primary" => st.cs[n].mode = "single") =>
            InputsAdded(order, st.cs, a[k].cs, N, n, Upto(single, k))
<1>9. Done(0)
  <2>1. a[0] = st
    BY <1>8
  <2>2. Upto(single, 0) = <<>>
    BY UptoGrows
  <2> QED
    BY <1>4, <2>1, <2>2 DEF InputsAdded
<1>10. ASSUME NEW k \in 0..L, Done(k), k < L PROVE Done(k + 1)
  <2>1. PICK j \in 1..L : j = k + 1
    BY <1>10
  <2>a. PICK y \in WireStates(N) : y = a[k]
    BY <1>4, <1>10
  <2>2. PICK z : y = a[k] /\ z = a[j]
    BY <2>a
  <2>3. z = WireSingle(g, order, br, y, n, j)
    <3>1. j \in 0..L /\ j # 0 /\ j - 1 = k
      BY <2>1
    <3>2. a[j] = Step(a[j - 1], j)
      BY <1>8, <3>1
    <3> QED
      BY <2>2, <3>1, <3>2 DEF Step
  <2>4. /\ z \in WireStates(N)
        /\ ~z.missing => /\ ~y.missing /\ c.single[j].src # NoSrc
                         /\ InputAdded(order, y.cs, z.cs, N, n, c.single[j])
    BY <1>2, <1>3, <2>3, InputStep
  <2>5. ASSUME ~z.missing
        PROVE  ~st.missing /\ \A m \in 1..j : single[m].src # NoSrc
    <3>1. ~y.missing /\ single[j].src # NoSrc
      BY <1>2, <2>4, <2>5
    <3>2. ~st.missing /\ \A m \in 1..k : single[m].src # NoSrc
      BY <1>10, <2>2, <3>1
    <3> QED
      BY <2>1, <3>1, <3>2
  <2>6. ASSUME ~z.missing, c.type.mode = "primary" => st.cs[n].mode = "single"
        PROVE  InputsAdded(order, st.cs, z.cs, N, n, Upto(single, j))
    <3>1. /\ ~y.missing /\ single[j].src # NoSrc
          /\ InputAdded(order, y.cs, z.cs, N, n, single[j])
      BY <1>2, <2>4, <2>6
    <3>2. /\ ~st.missing /\ \A m \in 1..k : single[m].src # NoSrc
          /\ InputsAdded(order, st.cs, y.cs, N, n, Upto(single, k))
      BY <1>10, <2>2, <2>6, <3>1
    <3>4. PICK in \in Seq(Ins) : /\ in = Upto(single, k) /\ DOMAIN in = 1..k
                                 /\ Upto(single, j) = Append(in, single[j])
      <4>1. Upto(single, k) \in Seq(Ins) /\ DOMAIN Upto(single, k) = 1..k
        BY <1>3, UptoGrows
      <4>2. k \in 0..(Len(single) - 1)
        BY <1>3, <1>10
      <4>3. Upto(single, k + 1) = Append(Upto(single, k), single[k + 1])
        BY <4>2, UptoGrows
      <4> QED
        BY <2>1, <4>1, <4>3
    <3>5. y.cs[n].mode = "multi" => NoneFor(in, single[j].chan)
      <4>1. SUFFICES ASSUME y.cs[n].mode = "multi", NEW m \in 1..k
                     PROVE  in[m].chan # single[j].chan
        BY <3>4 DEF NoneFor
      <4>2. st.cs[n].mode = "multi"
        BY <3>2, <4>1 DEF InputsAdded
      <4>3. c.type.mode # "primary"
        BY <2>6, <4>2
      <4>4. in[m] = single[m] /\ m # j /\ m \in DOMAIN single /\ j \in DOMAIN single
        BY <1>3, <2>1, <3>4 DEF Upto
      <4>5. single[m].src # NoSrc /\ single[j].src # NoSrc
        BY <3>1, <3>2
      <4> QED
        BY <1>1, <1>2, <4>3, <4>4, <4>5 DEF NoShares, Apart
    <3>6. \A m \in 1..N : z.cs[m].mode = st.cs[m].mode
      BY <3>1, <3>2 DEF InputAdded, InputsAdded
    <3>7. ASSUME Fits(order, st.cs, N, n, <<>>) PROVE Fits(order, z.cs, N, n, Upto(single, j))
      <4>1. Fits(order, y.cs, N, n, in)
        BY <3>2, <3>4, <3>7 DEF InputsAdded
      <4>2. Fits(order, z.cs, N, n, Append(in, single[j]))
        BY <3>1, <3>5, <4>1 DEF InputAdded
      <4> QED
        BY <3>4, <4>2
    <3>8. ASSUME NEW q \in 1..N, NEW other, q # n, Fits(order, st.cs, N, q, other)
          PROVE  Fits(order, z.cs, N, q, other)
      <4>1. Fits(order, y.cs, N, q, other)
        BY <3>2, <3>8 DEF InputsAdded
      <4> QED
        BY <3>1, <3>8, <4>1 DEF InputAdded
    <3> QED
      BY <3>6, <3>7, <3>8 DEF InputsAdded
  <2> QED
    BY <1>4, <2>1, <2>2, <2>4, <2>5, <2>6
<1>11. Done(L)
  <2>1. PICK G : G = {k \in 0..L : Done(k)}
    OBVIOUS
  <2> HIDE DEF Done
  <2>2. 0 \in G /\ G \in SUBSET (0..L)
    BY <1>9, <2>1
  <2>3. ASSUME NEW k \in G, k < L PROVE k + 1 \in G
    <3>1. Done(k + 1)
      BY <1>10, <2>1, <2>3
    <3>2. k + 1 \in 0..L
      BY <2>1, <2>3
    <3> QED
      BY <2>1, <3>1, <3>2
  <2>4. \A k \in 0..L : k \in G
    BY <2>2, <2>3, Upwards
  <2> QED
    BY <2>1, <2>4
<1>12. Upto(single, L) = single /\ r = a[L]
  BY <1>2, <1>3, <1>7, UptoGrows
<1> QED
  BY <1>2, <1>4, <1>11, <1>12

-----------------------------------------------------------------------------
(* The loop over the components.                                           *)

\* Inputs without sources are at no end of an edge.
LEMMA UnfedHears ==
    ASSUME NEW N, NEW g, NEW order, NEW br, Linked(g, order, br, N),
           NEW in \in Seq(Ins), \A m \in DOMAIN in : in[m].src = NoSrc
    PROVE  \A p \in 1..N : \A slots, ch, K : Cardinality(Hits(in, InsVia(order, slots, p, ch, K))) = 0
<1> SUFFICES ASSUME NEW p \in 1..N, NEW slots, NEW ch, NEW K
             PROVE  Hits(in, InsVia(order, slots, p, ch, K)) = {}
  BY FS_EmptySet
<1>1. Position(order, 0) = 0
  BY DEF Linked, Position
<1>2. ASSUME NEW m \in DOMAIN in PROVE in[m] \notin InsVia(order, slots, p, ch, K)
  <2>1. in[m].src.id = 0
    BY NoneTypes
  <2>2. Position(order, in[m].src.id) # p
    <3>1. p # 0
      BY DEF Linked
    <3> QED
      BY <1>1, <2>1, <3>1
  <2> QED
    BY <2>2 DEF InsVia
<1> QED
  BY <1>2 DEF Hits

\* A component with several inputs and no source: a slot for each channel.
WithoutSources(t, in) == [t EXCEPT !.shape = <<Len(in)>>, !.slots = InOrderOfInputs(in)]

\* The slots in the order of the inputs fit them.
LEMMA UnfedSlots ==
    ASSUME NEW in \in Seq(Ins), NEW t \in Tables, t.mode = "multi"
    PROVE  LET u == WithoutSources(t, in)
           IN  u \in Tables /\ u.mode = "multi" /\ u.deps = t.deps /\ SlotsFit(u, in)
<1> SUFFICES ASSUME NEW u, u = WithoutSources(t, in)
             PROVE  u \in Tables /\ u.mode = "multi" /\ u.deps = t.deps /\ SlotsFit(u, in)
  OBVIOUS
<1>1. PICK D : D = {in[s].chan : s \in DOMAIN in}
  OBVIOUS
<1>2. PICK l \in Nat : l = Len(in) /\ DOMAIN in = 1..l
  OBVIOUS
<1>3. PICK first : first = [ch \in D |-> CHOOSE s \in DOMAIN in : in[s].chan = ch]
  OBVIOUS
<1>4. ASSUME NEW ch \in D PROVE first[ch] \in 1..l /\ in[first[ch]].chan = ch
  <2>1. PICK x : x = CHOOSE s \in DOMAIN in : in[s].chan = ch
    OBVIOUS
  <2>2. \E s \in DOMAIN in : in[s].chan = ch
    BY <1>1
  <2>3. x \in DOMAIN in /\ in[x].chan = ch
    BY <2>1, <2>2, Zenon
  <2> QED
    BY <1>2, <1>3, <2>1, <2>3
<1>5. PICK slots : slots = [ch \in D |-> [depth |-> 0, slot |-> first[ch] - 1]]
  OBVIOUS
<1>6. ASSUME NEW ch \in D
      PROVE  slots[ch] \in Keys /\ slots[ch].depth = 0 /\ slots[ch].slot = first[ch] - 1
             /\ slots[ch].slot < l
  <2>1. slots[ch] = [depth |-> 0, slot |-> first[ch] - 1] /\ first[ch] - 1 \in Nat /\ first[ch] - 1 < l
    BY <1>4, <1>5
  <2> QED
    BY <2>1 DEF Keys
<1>7. slots \in SlotMaps
  <2>1. slots \in [D -> Keys]
    BY <1>5, <1>6
  <2>2. D \in SUBSET AllChans
    <3>1. \A s \in DOMAIN in : in[s] \in Ins
      OBVIOUS
    <3> QED
      BY <1>1, <3>1 DEF Ins
  <2> QED
    BY <2>1, <2>2 DEF SlotMaps
<1>8. PICK shape \in Seq(Nat) : shape = <<l>>
  <2>1. <<l>> \in Seq(Nat)
    OBVIOUS
  <2> QED
    BY <2>1
<1>9. u = [t EXCEPT !.shape = shape, !.slots = slots]
  <2>1. slots = InOrderOfInputs(in)
    BY <1>1, <1>3, <1>5 DEF InOrderOfInputs
  <2> QED
    BY <1>2, <1>8, <2>1 DEF WithoutSources
<1>10. u \in Tables /\ u.mode = "multi" /\ u.deps = t.deps /\ u.slots = slots /\ u.shape = shape
  BY <1>7, <1>9 DEF Tables
<1>11. At(shape, 0 + 1, 0) = l
  BY <1>8 DEF At
<1>12. ASSUME NEW a \in D, NEW b \in D, slots[a] = slots[b] PROVE a = b
  <2>1. first[a] - 1 = first[b] - 1
    BY <1>6, <1>12
  <2>2. first[a] = first[b]
    BY <1>4, <2>1
  <2> QED
    BY <1>4, <2>2
<1>13. \A a \in D : slots[a].slot < At(shape, slots[a].depth + 1, 0)
  BY <1>6, <1>11
<1>14. DOMAIN slots = D
  BY <1>5
<1>15. SlotsFit(u, in)
  <2>1. DOMAIN u.slots = IF u.mode = "multi" THEN {in[m].chan : m \in DOMAIN in} ELSE {}
    BY <1>1, <1>10, <1>14
  <2> QED
    BY <1>10, <1>12, <1>13, <1>14, <2>1 DEF SlotsFit
<1> QED
  BY <1>10, <1>15

\* One component.
LEMMA ComponentWired ==
    ASSUME NEW N, NEW g, NEW order, NEW br, Linked(g, order, br, N), NEW n \in 1..N,
           NEW st \in WireStates(N), NEW c, c = g.comps[order[n]],
           NEW r, r = WireComponent(g, order, br, st, n)
    PROVE  /\ r \in WireStates(N)
           /\ ~r.missing => ~st.missing
           /\ ~r.missing /\ st.cs[n].mode = InitialMode(c) =>
                 InputsAdded(order, st.cs, r.cs, N, n, c.single)
<1>1. c \in Comps /\ c.multi = NoMulti
  BY DEF Linked, NoShares, Apart
<1>2. PICK single \in Seq(Ins) : single = c.single
  BY <1>1 DEF Comps
<1>3. PICK cs \in [1..N -> Tables] : cs = st.cs
  BY DEF WireStates
<1>4. cs[n].mode = "single" \/ cs[n].mode = "multi"
  BY DEF Tables
<1>5. CASE ~\A s \in DOMAIN single : single[s].src = NoSrc
  <2>1. PICK w : w = WireInputs(g, order, br, st, n)[Len(c.single)]
    OBVIOUS
  <2>2. r = w
    BY <1>1, <1>2, <1>5, <2>1 DEF WireComponent, WireMulti
  <2>3. st.cs[n].mode = InitialMode(c) => (c.type.mode = "primary" => st.cs[n].mode = "single")
    BY DEF InitialMode
  <2> QED
    BY <2>1, <2>2, <2>3, InputsWired
<1>6. CASE (\A s \in DOMAIN single : single[s].src = NoSrc) /\ cs[n].mode = "single"
  <2>1. r = st
    BY <1>2, <1>3, <1>6 DEF WireComponent
  <2>2. ASSUME Fits(order, cs, N, n, <<>>) PROVE Fits(order, cs, N, n, single)
    <3>1. SlotsFit(cs[n], single)
      BY <1>6, <2>2 DEF Fits, SlotsFit
    <3>2. ASSUME NEW p \in 1..N, NEW ch, NEW K
          PROVE  Carried(cs[p], ch, n, K)
                   = Cardinality(Hits(single, InsVia(order, cs[n].slots, p, ch, K)))
      <4>1. Carried(cs[p], ch, n, K) = 0
        BY <2>2, HitsOfNothing DEF Fits, EdgesFit
      <4> QED
        BY <1>6, <4>1, UnfedHears
    <3> QED
      BY <3>1, <3>2 DEF Fits, EdgesFit
  <2> QED
    BY <1>2, <1>3, <2>1, <2>2 DEF InputsAdded
<1>7. CASE (\A s \in DOMAIN single : single[s].src = NoSrc) /\ cs[n].mode = "multi"
  <2>3. PICK t \in Tables : t = cs[n]
    OBVIOUS
  <2>4. PICK u : u = WithoutSources(t, single)
    OBVIOUS
  <2>5. u \in Tables /\ u.mode = "multi" /\ u.deps = t.deps /\ SlotsFit(u, single)
    BY <1>7, <2>3, <2>4, UnfedSlots
  <2>6. PICK z : z = [cs EXCEPT ![n] = u]
    OBVIOUS
  <2>7. z \in [1..N -> Tables] /\ z[n] = u /\ \A m \in 1..N : m # n => z[m] = cs[m]
    BY <2>5, <2>6
  <2>8. r = [st EXCEPT !.cs = z]
    BY <1>2, <1>3, <1>7, <2>3, <2>4, <2>6 DEF WireComponent, WithoutSources
  <2>9. r \in WireStates(N) /\ r.cs = z /\ r.missing = st.missing
    BY <2>7, <2>8 DEF WireStates
  <2>10. \A p \in 1..N : z[p].mode = cs[p].mode /\ \A ch, q, K : Carried(z[p], ch, q, K) = Carried(cs[p], ch, q, K)
    <3>1. \A p \in 1..N : z[p].mode = cs[p].mode /\ z[p].deps = cs[p].deps
      BY <1>7, <2>3, <2>5, <2>7
    <3> QED
      BY <3>1 DEF Carried, DepsOn
  <2>11. ASSUME Fits(order, cs, N, n, <<>>) PROVE Fits(order, z, N, n, single)
    <3>1. ASSUME NEW p \in 1..N, NEW ch, NEW K
          PROVE  Carried(z[p], ch, n, K)
                   = Cardinality(Hits(single, InsVia(order, z[n].slots, p, ch, K)))
      <4>1. Carried(cs[p], ch, n, K) = 0
        BY <2>11, HitsOfNothing DEF Fits, EdgesFit
      <4>2. Cardinality(Hits(single, InsVia(order, z[n].slots, p, ch, K))) = 0
        BY <1>7, UnfedHears
      <4> QED
        BY <2>10, <4>1, <4>2
    <3> QED
      BY <2>5, <2>7, <3>1 DEF Fits, EdgesFit
  <2>12. ASSUME NEW q \in 1..N, NEW other, q # n, Fits(order, cs, N, q, other)
         PROVE  Fits(order, z, N, q, other)
    <3>1. z[q] = cs[q]
      BY <2>7, <2>12
    <3>2. EdgesFit(order, z, N, q, other)
      BY <2>10, <2>12, <3>1 DEF Fits, EdgesFit
    <3> QED
      BY <2>12, <3>1, <3>2 DEF Fits
  <2> QED
    BY <1>2, <1>3, <2>9, <2>10, <2>11, <2>12 DEF InputsAdded
<1> QED
  BY <1>4, <1>5, <1>6, <1>7

\* What the wiring begins with has no slot and no edge.
LEMMA UnwiredType ==
    ASSUME NEW c \in Comps, c.multi = NoMulti, NEW to \in Int, NEW t, t = Unwired(c, to)
    PROVE  /\ t \in Tables /\ t.mode = InitialMode(c) /\ DOMAIN t.slots = {}
           /\ \A ch : DepsOn(t, ch) = <<>>
<1>1. PICK mode \in {"single", "multi"} : mode = InitialMode(c)
  BY DEF InitialMode
<1>2. PICK chan : chan = IF InitialMode(c) = "multi" \/ c.type.mode = "primary" THEN ""
                         ELSE IF c.multi # NoMulti THEN c.multi.chan ELSE c.single[1].chan
  OBVIOUS
<1>3. chan \in AllChans
  <2>1. CASE InitialMode(c) = "multi" \/ c.type.mode = "primary"
    BY <1>2, <2>1 DEF AllChans
  <2>2. CASE ~(InitialMode(c) = "multi" \/ c.type.mode = "primary")
    <3>1. Len(c.single) = 1
      BY <2>2 DEF InitialMode
    <3>2. c.single[1] \in Ins
      BY <3>1 DEF Comps
    <3> QED
      BY <1>2, <2>2, <3>2 DEF Ins
  <2> QED
    BY <2>1, <2>2
<1>4. PICK wrap : wrap = (c.type.mode \in {"mintree", "fulltree"}) /\ wrap \in BOOLEAN
  <2>1. (c.type.mode \in {"mintree", "fulltree"}) \in BOOLEAN
    OBVIOUS
  <2> QED
    BY <2>1, Zenon
<1>5. PICK slots : slots = [ch \in {} |-> 0]
  OBVIOUS
<1>6. PICK deps : deps = [ch \in {} |-> <<>>]
  OBVIOUS
<1>7. slots \in SlotMaps /\ DOMAIN slots = {}
  <2>1. slots \in [{} -> Keys] /\ {} \in SUBSET AllChans
    BY <1>5
  <2> QED
    BY <1>5, <2>1 DEF SlotMaps
<1>8. deps \in Deps /\ DOMAIN deps = {}
  <2>1. deps \in [{} -> Seq(Edges)] /\ {} \in SUBSET AllChans
    BY <1>6
  <2> QED
    BY <1>6, <2>1 DEF Deps
<1>9. PICK type \in Types : type = c.type
  BY DEF Comps
<1>10. PICK shape \in Seq(Nat) : shape = <<>>
  <2>1. <<>> \in Seq(Nat)
    OBVIOUS
  <2> QED
    BY <2>1
<1>11. t = [type |-> type, mode |-> mode, chan |-> chan, wrap |-> wrap, bc |-> to,
            shape |-> shape, slots |-> slots, deps |-> deps]
  BY <1>1, <1>2, <1>4, <1>5, <1>6, <1>9, <1>10 DEF Unwired
<1>12. t \in Tables
  BY <1>1, <1>3, <1>4, <1>7, <1>8, <1>11 DEF Tables
<1> QED
  BY <1>1, <1>7, <1>8, <1>11, <1>12 DEF DepsOn, At

\* All components.
LEMMA AllWired ==
    ASSUME NEW N, NEW g, NEW order, NEW bs \in BranchStates(N), Linked(g, order, bs.branch, N),
           NEW r, r = Wired(g, order, bs)
    PROVE  /\ r \in WireStates(N)
           /\ ~r.missing => \A q \in 1..N : Fits(order, r.cs, N, q, g.comps[order[q]].single)
<1>1. N \in Nat /\ N = Len(order) /\ DOMAIN order = 1..N
  BY DEF Linked
<1>2. \A q \in 1..N : g.comps[order[q]] \in Comps /\ g.comps[order[q]].multi = NoMulti
  BY DEF Linked, NoShares, Apart
<1>3. PICK br : br = bs.branch /\ Linked(g, order, br, N)
  OBVIOUS
<1>4. PICK S : S = WireStates(N)
  OBVIOUS
<1>5. PICK base : base = [cs |-> [m \in DOMAIN order |-> Unwired(g.comps[order[m]], bs.to[m])],
                          missing |-> FALSE]
  OBVIOUS
<1>6. PICK cs : cs = [m \in 1..N |-> Unwired(g.comps[order[m]], bs.to[m])]
  OBVIOUS
<1>7. \A q \in 1..N : /\ cs[q] \in Tables /\ cs[q].mode = InitialMode(g.comps[order[q]])
                      /\ DOMAIN cs[q].slots = {} /\ \A ch : DepsOn(cs[q], ch) = <<>>
  <2>1. ASSUME NEW q \in 1..N
        PROVE  /\ cs[q] \in Tables /\ cs[q].mode = InitialMode(g.comps[order[q]])
               /\ DOMAIN cs[q].slots = {} /\ \A ch : DepsOn(cs[q], ch) = <<>>
    <3>1. PICK c \in Comps : c = g.comps[order[q]] /\ c.multi = NoMulti
      BY <1>2
    <3>2. PICK to \in Int : to = bs.to[q]
      BY DEF BranchStates
    <3>3. cs[q] = Unwired(c, to)
      BY <1>6, <3>1, <3>2
    <3> QED
      BY <3>1, <3>3, UnwiredType
  <2> QED
    BY <2>1
<1>8. base \in S /\ base.cs = cs /\ base.missing = FALSE /\ cs \in [1..N -> Tables]
  BY <1>1, <1>4, <1>5, <1>6, <1>7 DEF WireStates
<1>9. \A q \in 1..N : Fits(order, cs, N, q, <<>>)
  <2>1. ASSUME NEW q \in 1..N PROVE Fits(order, cs, N, q, <<>>)
    <3>1. SlotsFit(cs[q], <<>>)
      <4>1. PICK in : in = <<>> /\ DOMAIN in = {}
        OBVIOUS
      <4>2. {in[m].chan : m \in DOMAIN in} = {}
        BY <4>1
      <4> QED
        BY <1>7, <4>1, <4>2 DEF SlotsFit
    <3>2. ASSUME NEW p \in 1..N, NEW ch, NEW K
          PROVE  Carried(cs[p], ch, q, K)
                   = Cardinality(Hits(<<>>, InsVia(order, cs[q].slots, p, ch, K)))
      BY <1>7, HitsOfNothing DEF Carried
    <3> QED
      BY <3>1, <3>2 DEF Fits, EdgesFit
  <2> QED
    BY <2>1
<1> DEFINE Step(x, n) == WireComponent(g, order, br, x, n)
<1>10. ASSUME NEW n \in 1..N, NEW x \in S PROVE Step(x, n) \in S
  BY <1>3, <1>4, ComponentWired
<1> DEFINE Solves(a) == a = [n \in 0..N |-> IF n = 0 THEN base ELSE Step(a[n - 1], n)]
<1>11. \E a : Solves(a)
  <2> HIDE DEF Step
  <2>1. PICK step : step = [n \in 1..N |-> [x \in S |-> Step(x, n)]]
    OBVIOUS
  <2>2. step \in [1..N -> [S -> S]]
    BY <1>10, <2>1
  <2>3. PICK a \in [0..N -> S] : Runs(a, N, base, step)
    BY <1>1, <1>8, <2>2, LoopRuns
  <2>4. ASSUME NEW n \in 0..N PROVE a[n] = IF n = 0 THEN base ELSE Step(a[n - 1], n)
    <3>1. CASE n = 0
      BY <2>3, <3>1 DEF Runs
    <3>2. CASE n # 0
      <4>1. n \in 1..N /\ a[n - 1] \in S /\ a[n] = step[n][a[n - 1]]
        BY <1>1, <2>3, <3>2 DEF Runs
      <4> QED
        BY <2>1, <3>2, <4>1
    <3> QED
      BY <3>1, <3>2
  <2>5. Solves(a)
    BY <2>3, <2>4
  <2> QED
    BY <2>5
<1>12. PICK a : a = WiredUpTo(g, order, bs)
  OBVIOUS
<1>13. Solves(a)
  <2>1. a = CHOOSE x : Solves(x)
    BY <1>1, <1>3, <1>5, <1>12 DEF WiredUpTo
  <2> HIDE DEF Solves
  <2> QED
    BY <1>11, <2>1
<1> HIDE DEF Step
<1> DEFINE In(q, k) == IF q <= k THEN g.comps[order[q]].single ELSE <<>>
           Done(k) ==
             /\ a[k] \in S
             /\ ~a[k].missing => \A q \in 1..N : /\ a[k].cs[q].mode = InitialMode(g.comps[order[q]])
                                                 /\ Fits(order, a[k].cs, N, q, In(q, k))
<1>14. Done(0)
  <2>1. a[0] = base
    BY <1>1, <1>13
  <2>2. \A q \in 1..N : In(q, 0) = <<>>
    BY <1>1
  <2> QED
    BY <1>7, <1>8, <1>9, <2>1, <2>2
<1>15. ASSUME NEW k \in 0..N, Done(k), k < N PROVE Done(k + 1)
  <2>1. PICK n \in 1..N : n = k + 1
    BY <1>1, <1>15
  <2>a. PICK y \in WireStates(N) : y = a[k]
    BY <1>4, <1>15
  <2>2. PICK z : y = a[k] /\ z = a[n]
    BY <2>a
  <2>3. PICK c : c = g.comps[order[n]]
    OBVIOUS
  <2>4. z = WireComponent(g, order, br, y, n)
    <3>1. n \in 0..N /\ n # 0 /\ n - 1 = k
      BY <1>1, <2>1
    <3>2. a[n] = Step(a[n - 1], n)
      BY <1>13, <3>1
    <3> QED
      BY <2>2, <3>1, <3>2 DEF Step
  <2>5. /\ z \in WireStates(N)
        /\ ~z.missing => ~y.missing
        /\ ~z.missing /\ y.cs[n].mode = InitialMode(c) =>
              InputsAdded(order, y.cs, z.cs, N, n, c.single)
    BY <1>3, <2>3, <2>4, ComponentWired
  <2>6. ASSUME ~z.missing, NEW q \in 1..N
        PROVE  /\ z.cs[q].mode = InitialMode(g.comps[order[q]])
               /\ Fits(order, z.cs, N, q, In(q, n))
    <3>1. ~y.missing
      BY <2>5, <2>6
    <3>2. \A m \in 1..N : /\ y.cs[m].mode = InitialMode(g.comps[order[m]])
                          /\ Fits(order, y.cs, N, m, In(m, k))
      BY <1>15, <2>2, <3>1
    <3>3. InputsAdded(order, y.cs, z.cs, N, n, c.single)
      BY <2>3, <2>5, <2>6, <3>2
    <3>4. z.cs[q].mode = InitialMode(g.comps[order[q]])
      BY <3>2, <3>3 DEF InputsAdded
    <3>5. CASE q = n
      <4>1. In(n, k) = <<>> /\ In(n, n) = c.single
        BY <1>1, <2>1, <2>3
      <4>2. Fits(order, y.cs, N, n, <<>>)
        BY <3>2, <4>1
      <4> QED
        BY <3>3, <3>4, <3>5, <4>1, <4>2 DEF InputsAdded
    <3>6. CASE q # n
      <4>1. In(q, n) = In(q, k)
        BY <1>1, <2>1, <3>6
      <4>2. Fits(order, y.cs, N, q, In(q, k))
        BY <3>2
      <4> QED
        BY <3>3, <3>4, <3>6, <4>1, <4>2 DEF InputsAdded
    <3> QED
      BY <3>5, <3>6
  <2> QED
    BY <1>4, <2>1, <2>2, <2>5, <2>6
<1>16. Done(N)
  <2>1. PICK G : G = {k \in 0..N : Done(k)}
    OBVIOUS
  <2> HIDE DEF Done
  <2>2. 0 \in G /\ G \in SUBSET (0..N)
    BY <1>1, <1>14, <2>1
  <2>3. ASSUME NEW k \in G, k < N PROVE k + 1 \in G
    <3>1. Done(k + 1)
      BY <1>15, <2>1, <2>3
    <3>2. k + 1 \in 0..N
      BY <1>1, <2>1, <2>3
    <3> QED
      BY <2>1, <3>1, <3>2
  <2>4. \A k \in 0..N : k \in G
    BY <1>1, <2>2, <2>3, Upwards
  <2> QED
    BY <1>1, <2>1, <2>4
<1>17. r = a[N]
  BY <1>1, <1>12 DEF Wired
<1> QED
  BY <1>1, <1>4, <1>16, <1>17

-----------------------------------------------------------------------------
(* Inputs with one source, in every graph that is built without sharing.   *)

\* The graph has no such inputs.
NoneShared(g) == \A i \in Ids(g) : NoShares(g.comps[i])

\* An input that has no source yet is given one.
LEMMA TakingKeepsApart ==
    ASSUME NEW c \in Comps, NoShares(c), NEW src \in Srcs, NEW ch,
           c.type.mode = "primary" \/ \A n \in Slots(c, ch) : c.single[n].src = NoSrc,
           NEW r, r = TakeInput(c, src, ch), NEW count
    PROVE  NoShares([r EXCEPT !.count = count])
<1>1. PICK single \in Seq(Ins) : single = c.single
  BY DEF Comps
<1>2. c.multi = NoMulti
  BY DEF NoShares, Apart
<1>3. ASSUME NEW q, r = [c EXCEPT !.single = q], c.type.mode # "primary" => Apart(q)
      PROVE  NoShares([r EXCEPT !.count = count])
  <2>1. PICK k : k = [r EXCEPT !.count = count]
    OBVIOUS
  <2>2. k.multi = c.multi /\ k.type = c.type /\ k.single = q
    BY <1>3, <2>1 DEF Comps
  <2> QED
    BY <1>2, <1>3, <2>1, <2>2 DEF NoShares, Apart
<1>4. CASE c.type.mode = "primary"
  <2>1. r = [c EXCEPT !.single = Append(c.single, Input("", src))]
    BY <1>4 DEF TakeInput
  <2> QED
    BY <1>3, <1>4, <2>1
<1>5. CASE c.type.mode # "primary" /\ Slots(c, ch) # {}
  <2>1. PICK n : n = Least(Slots(c, ch))
    OBVIOUS
  <2>2. n \in DOMAIN single /\ single[n].chan = ch
    BY <1>1, <1>5, <2>1, LeastOfSlots
  <2>3. n \in Slots(c, ch) /\ \A m \in DOMAIN single : single[m].chan = ch => single[m].src = NoSrc
    BY <1>1, <1>5, <2>2 DEF Slots
  <2>4. r = [c EXCEPT !.single[n].src = src]
    BY <1>1, <1>2, <1>5, <2>1, <2>2, <2>3 DEF TakeInput
  <2>5. PICK x : x = [single[n] EXCEPT !.src = src]
    OBVIOUS
  <2>6. PICK q : q = [single EXCEPT ![n] = x]
    OBVIOUS
  <2>7. r = [c EXCEPT !.single = q]
    BY <1>1, <2>4, <2>5, <2>6 DEF Comps
  <2>8. x.chan = ch
    <3>1. single[n] \in Ins
      BY <2>2
    <3> QED
      BY <2>2, <2>5, <3>1 DEF Ins
  <2>9. DOMAIN q = DOMAIN single /\ \A m \in DOMAIN single : q[m] = IF m = n THEN x ELSE single[m]
    BY <2>2, <2>6
  <2>10. ASSUME NEW m \in DOMAIN q, NEW k \in DOMAIN q, q[m].chan = q[k].chan,
                q[m].src # NoSrc, q[k].src # NoSrc
         PROVE  m = k
    <3>1. CASE m = n /\ k # n
      <4>1. q[m].chan = ch /\ q[k] = single[k]
        BY <2>8, <2>9, <3>1
      <4> QED
        BY <2>3, <2>9, <2>10, <4>1
    <3>2. CASE k = n /\ m # n
      <4>1. q[k].chan = ch /\ q[m] = single[m]
        BY <2>8, <2>9, <3>2
      <4> QED
        BY <2>3, <2>9, <2>10, <4>1
    <3>3. CASE m # n /\ k # n
      <4>1. q[k] = single[k] /\ q[m] = single[m]
        BY <2>9, <3>3
      <4> QED
        BY <1>1, <1>5, <2>9, <2>10, <4>1 DEF NoShares, Apart
    <3> QED
      BY <3>1, <3>2, <3>3
  <2>11. Apart(q)
    BY <2>10 DEF Apart
  <2> QED
    BY <1>3, <2>7, <2>11
<1>6. CASE c.type.mode # "primary" /\ Slots(c, ch) = {} /\ ch \in c.type.extra
  <2>1. PICK x : x = Input(ch, [src EXCEPT !.flag = TRUE])
    OBVIOUS
  <2>2. r = [c EXCEPT !.single = Append(c.single, x)]
    BY <1>2, <1>6, <2>1 DEF TakeInput
  <2>3. PICK q : q = Append(single, x)
    OBVIOUS
  <2>4. PICK l \in Nat : l = Len(single) /\ DOMAIN single = 1..l
    OBVIOUS
  <2>5. DOMAIN q = 1..(l + 1) /\ q[l + 1] = x /\ \A m \in 1..l : q[m] = single[m]
    BY <2>3, <2>4
  <2>6. x.chan = ch /\ \A m \in 1..l : single[m].chan # ch
    BY <1>1, <1>6, <2>1, <2>4 DEF Input, Slots
  <2>7. ASSUME NEW m \in 1..(l + 1), NEW k \in 1..(l + 1), q[m].chan = q[k].chan,
               q[m].src # NoSrc, q[k].src # NoSrc
        PROVE  m = k
    <3>1. CASE m = l + 1 /\ k \in 1..l
      BY <2>5, <2>6, <2>7, <3>1
    <3>2. CASE k = l + 1 /\ m \in 1..l
      BY <2>5, <2>6, <2>7, <3>2
    <3>3. CASE m \in 1..l /\ k \in 1..l
      <4>1. q[k] = single[k] /\ q[m] = single[m]
        BY <2>5, <3>3
      <4> QED
        BY <1>1, <1>6, <2>4, <2>7, <3>3, <4>1 DEF NoShares, Apart
    <3> QED
      BY <2>4, <3>1, <3>2, <3>3
  <2>8. Apart(q)
    BY <2>5, <2>7 DEF Apart
  <2> QED
    BY <1>1, <1>3, <2>2, <2>3, <2>8
<1>7. CASE c.type.mode # "primary" /\ Slots(c, ch) = {} /\ ch \notin c.type.extra
  <2>1. r = c
    BY <1>2, <1>7 DEF TakeInput
  <2>2. r = [c EXCEPT !.single = c.single]
    BY <2>1 DEF Comps
  <2> QED
    <3>1. c.type.mode # "primary" => Apart(c.single)
      BY DEF NoShares, Apart
    <3> QED
      BY <1>3, <2>2, <3>1
<1> QED
  BY <1>4, <1>5, <1>6, <1>7

\* A connection to such an input.
LEMMA ConnectKeepsApart ==
    ASSUME Built(graph), NoneShared(graph), NEW s \in Ids(graph), NEW d \in Ids(graph),
           NEW sc \in Channels, NEW dc \in Channels, ~Taken(d, dc), s # d,
           NEW h, h = Connect(graph, s, sc, d, dc)
    PROVE  NoneShared(h)
<1>1. PICK comps : comps = graph.comps
  OBVIOUS
<1>2. /\ comps \in Seq(Comps) /\ DOMAIN comps = Ids(graph) /\ comps[s] \in Comps /\ comps[d] \in Comps
      /\ \A i \in Ids(graph) : i \in Nat
  BY <1>1, AllLive DEF Built, Ids
<1>3. PICK src \in Srcs : src = Src(s, FALSE, sc)
  BY <1>2 DEF Src, Srcs, AllChans
<1>4. PICK c \in Comps : c = comps[s]
  BY <1>2
<1>5. PICK k \in Comps : k = comps[d]
  BY <1>2
<1>6. PICK outs : outs = Put(c.outs, sc, Append(EdgesOn(c, sc), Src(d, IsMulti(c, sc), dc)))
  OBVIOUS
<1>7. PICK count : count = Put(TakeInput(k, src, dc).count, s, At(TakeInput(k, src, dc).count, s, 0) + 1)
  OBVIOUS
<1>8. PICK a : a = [c EXCEPT !.outs = outs]
  OBVIOUS
<1>9. PICK b : b = [TakeInput(k, src, dc) EXCEPT !.count = count]
  OBVIOUS
<1>10. h.comps = [[comps EXCEPT ![s] = a] EXCEPT ![d] = b]
  BY <1>1, <1>2, <1>3, <1>4, <1>5, <1>6, <1>7, <1>8, <1>9 DEF Connect, EdgesOn, Built
<1>11. NoShares(a)
  <2>1. NoShares(c) /\ a.single = c.single /\ a.multi = c.multi /\ a.type = c.type
    BY <1>1, <1>4, <1>8 DEF NoneShared, Comps
  <2> QED
    BY <2>1 DEF NoShares, Apart
<1>12. NoShares(b)
  <2>1. NoShares(k)
    BY <1>1, <1>5 DEF NoneShared
  <2>2. k.type.mode = "primary" \/ \A n \in Slots(k, dc) : k.single[n].src = NoSrc
    BY <1>1, <1>5 DEF Taken
  <2> QED
    BY <1>9, <2>1, <2>2, TakingKeepsApart
<1>13. ASSUME NEW i \in Ids(h) PROVE NoShares(h.comps[i])
  <2>1. i \in DOMAIN comps /\ h.comps[i] = IF i = d THEN b ELSE IF i = s THEN a ELSE comps[i]
    BY <1>2, <1>10 DEF Ids
  <2> QED
    BY <1>1, <1>2, <1>11, <1>12, <2>1 DEF NoneShared
<1> QED
  BY <1>13 DEF NoneShared

\* A new component has no sources.
LEMMA AddKeepsApart ==
    ASSUME NEW g, Built(g), NoneShared(g), NEW type \in Types, NEW name, NEW named,
           NEW h, h = AddComponent(g, type, name, named)
    PROVE  NoneShared(h)
<1>1. PICK new : new = NewComponent(type, name, named)
  OBVIOUS
<1>2. NoShares(new)
  <2>1. new.multi = NoMulti /\ new.single = OpenInputs(type.ins)
    BY <1>1 DEF NewComponent
  <2>2. \A m \in DOMAIN new.single : new.single[m].src = NoSrc
    BY <2>1 DEF OpenInputs, Input
  <2> QED
    BY <2>1, <2>2 DEF NoShares, Apart
<1>3. PICK comps \in Seq(Comps) : comps = g.comps /\ g.free = Len(comps) + 1
  BY DEF Built
<1>4. PICK l \in Nat : l = Len(comps) /\ DOMAIN comps = 1..l
  OBVIOUS
<1>5. h.comps = Append(comps, new)
  BY <1>1, <1>3 DEF AddComponent
<1>6. DOMAIN Append(comps, new) = 1..(l + 1)
      /\ \A i \in 1..(l + 1) : Append(comps, new)[i] = IF i = l + 1 THEN new ELSE comps[i]
  BY <1>4
<1>7. ASSUME NEW i \in 1..(l + 1) PROVE NoShares(h.comps[i])
  BY <1>2, <1>3, <1>4, <1>5, <1>6, <1>7 DEF NoneShared, Ids
<1> QED
  BY <1>5, <1>6, <1>7 DEF NoneShared, Ids

\* The invariant.
WInv == IInv /\ NoneShared(graph)

\* No step gives an input a second source.
LEMMA NextKeepsApart ==
    ASSUME ~Edits, ~Unknown, ~Shared, WInv, [Next]_vars
    PROVE  WInv'
<1>1. IInv /\ Built(graph) /\ held = Ids(graph) /\ NoneShared(graph)
  BY DEF WInv, IInv
<1>2. IInv'
  BY <1>1, NextBuilds
<1>3. CASE Clear
  BY <1>3 DEF Clear
<1>4. ASSUME NEW type \in Types, NEW name \in Names, NEW named \in BOOLEAN,
             Add(type, name, named)
      PROVE  NoneShared(graph')
  <2>1. PICK g, id : g = AddComponent(graph, type, name, named) /\ id = name
    OBVIOUS
  <2>2. NoneShared(g)
    BY <1>1, <2>1, AddKeepsApart
  <2>3. graph' = g
    BY <1>4, <2>1 DEF Add
  <2> QED
    BY <2>2, <2>3
<1>5. ASSUME NEW s \in held, NEW d \in held, NEW sc \in Channels, NEW dc \in Channels,
             AddDependency(s, sc, d, dc)
      PROVE  NoneShared(graph')
  <2>1. PICK g : g = Connect(graph, s, sc, d, dc)
    OBVIOUS
  <2>2. ~Taken(d, dc) /\ ConnectError(graph, s, sc, d, dc) = "none"
    BY <1>5 DEF AddDependency
  <2>3. s # d
    BY <2>2 DEF ConnectError
  <2>4. NoneShared(g)
    BY <1>1, <2>1, <2>2, <2>3, ConnectKeepsApart
  <2>5. graph' = g
    BY <1>5, <2>1 DEF AddDependency
  <2> QED
    BY <2>4, <2>5
<1>6. ASSUME NEW id \in held, DetachComponent(id) \/ DeleteComponent(id) PROVE NoneShared(graph')
  BY <1>6 DEF DetachComponent, DeleteComponent
<1>7. CASE UNCHANGED vars
  <2>1. graph' = graph
    BY <1>7 DEF vars
  <2> QED
    BY <1>1, <1>2, <2>1 DEF WInv
<1>8. NoneShared(graph') => WInv'
  BY <1>2 DEF WInv
<1> QED
  BY <1>3, <1>4, <1>5, <1>6, <1>7, <1>8 DEF Next

-----------------------------------------------------------------------------
(* The compiled table.                                                     *)

\* A table without an error is the wired one, finished.
LEMMA CompiledTable ==
    ASSUME NEW g, Compile(g).error = "none", NEW order, order = Rounds(g),
           NEW w, w = Wired(g, order, Branches(g, order))
    PROVE  /\ Live(g) = ToSet(order) /\ ~w.missing
           /\ Compile(g).mapping = [i \in DOMAIN g.comps |-> Position(order, i)]
           /\ Compile(g).comps = [n \in DOMAIN order |-> Finished(w.cs[n])]
<1>1. \A why : Failed(why).error = why
  BY DEF Failed
<1>2. PICK st : st = Branches(g, order)
  OBVIOUS
<1>3. PICK a : a = Assembled(g, order, w)
  OBVIOUS
<1>4. Compile(g) = IF Live(g) # ToSet(order) THEN Failed("ContainsCycle")
                   ELSE IF st.lost THEN Failed("panic")
                   ELSE IF st.mixed THEN Failed("BranchMismatch") ELSE a
  BY <1>2, <1>3 DEF Compile, Sorted, Branched
<1>5. Live(g) = ToSet(order) /\ Compile(g) = a
  BY <1>1, <1>4
<1>6. ~w.missing
  BY <1>1, <1>3, <1>5 DEF Assembled
<1>7. PICK t : t = [n \in DOMAIN order |-> Finished(w.cs[n])]
  OBVIOUS
<1>8. PICK m : m = [i \in DOMAIN g.comps |-> Position(order, i)]
  OBVIOUS
<1>9. a = [error |-> "none", mapping |-> m, comps |-> t]
  BY <1>3, <1>6, <1>7, <1>8 DEF Assembled
<1>10. a.mapping = m /\ a.comps = t
  BY <1>9
<1> QED
  BY <1>5, <1>6, <1>7, <1>8, <1>10

\* The last stage keeps the slots and the edges, and makes no tree.
LEMMA FinishedKeeps ==
    ASSUME NEW t \in Tables
    PROVE  /\ Finished(t).slots = t.slots /\ Finished(t).deps = t.deps
           /\ Finished(t).mode = "multi" => t.mode = "multi"
<1>1. CASE t.mode = "multi" /\ Cardinality(DOMAIN t.slots) = 1 /\ t.bc = 0
  <2>1. PICK chan : chan = CHOOSE ch \in DOMAIN t.slots : TRUE
    OBVIOUS
  <2>2. Finished(t) = [t EXCEPT !.mode = "single", !.wrap = TRUE, !.chan = chan]
    BY <1>1, <2>1 DEF Finished
  <2> QED
    BY <1>1, <2>2 DEF Tables
<1>2. CASE ~(t.mode = "multi" /\ Cardinality(DOMAIN t.slots) = 1 /\ t.bc = 0)
  <2>1. PICK shape : shape = Cumulative(t.shape)
    OBVIOUS
  <2>2. Finished(t) = [t EXCEPT !.shape = shape]
    BY <1>2, <2>1 DEF Finished
  <2> QED
    BY <2>2 DEF Tables
<1> QED
  BY <1>1, <1>2

\* A graph that is built so, and has no cycle, can be wired.
LEMMA LinkedOfBuilt ==
    ASSUME NEW g, Built(g), NoneShared(g), NEW order, order = Rounds(g), Live(g) = ToSet(order),
           NEW bs, bs = Branches(g, order), NEW N, N = Len(order)
    PROVE  bs \in BranchStates(N) /\ Linked(g, order, bs.branch, N)
<1>1. /\ g.comps \in Seq(Comps) /\ EndsKnown(g) /\ Live(g) = Ids(g) /\ IsVector(g)
      /\ \A i \in Ids(g) : i # 0 /\ g.comps[i] \in Comps
  BY AllLive DEF Built, Ids
<1>2. order \in Seq(Ids(g)) /\ N \in Nat /\ ToSet(order) = Ids(g)
  BY <1>1, SortEnds
<1>3. bs \in BranchStates(N)
  <2>1. \A n \in 1..N : g.comps[order[n]] \in Comps
    BY <1>1, <1>2
  <2> QED
    BY <1>2, <2>1, BranchesType
<1>4. PICK br : br = bs.branch
  OBVIOUS
<1>5. br \in [1..N -> Seq(Points(N))]
  BY <1>3, <1>4 DEF BranchStates
<1>6. ASSUME NEW i \in Ids(g), NEW m \in DOMAIN g.comps[i].single,
             g.comps[i].single[m].src # NoSrc
      PROVE  g.comps[i].single[m].src.id \in Ids(g)
  <2>1. PICK c : c = g.comps[i]
    OBVIOUS
  <2>2. PICK k : k = c.single[m].src.id
    OBVIOUS
  <2>3. FedFrom(c.single, c.multi, k)
    BY <1>6, <2>1, <2>2 DEF FedFrom
  <2>4. k \in DOMAIN c.count /\ DOMAIN c.count \subseteq Ids(g)
    BY <1>1, <2>1, <2>3 DEF EndsKnown
  <2> QED
    BY <2>1, <2>2, <2>4
<1>7. Linked(g, order, br, N)
  BY <1>1, <1>2, <1>5, <1>6 DEF Linked, NoneShared
<1> QED
  BY <1>3, <1>4, <1>7

\* What WiredAsConnected counts: edges, those to one slot if they lead to a tree, and inputs.
EdgesCounted(out, q, tree, key) ==
    Cardinality({n \in DOMAIN out :
        /\ out[n].to = q
        /\ tree => [depth |-> out[n].depth, slot |-> out[n].slot] = key})
InputsFrom(c, s, sc) ==
    Cardinality({n \in DOMAIN c.single : c.single[n].src.id = s /\ c.single[n].src.chan = sc})
SharesFrom(c, s, sc) ==
    Cardinality({n \in DOMAIN c.multi.srcs : c.multi.srcs[n].id = s /\ c.multi.srcs[n].chan = sc})
Agrees(r, s, d, sc, dc) ==
    EdgesCounted(At(r.comps[r.mapping[s]].deps, sc, <<>>), r.mapping[d], IsTree(r.comps[r.mapping[d]]),
                 At(r.comps[r.mapping[d]].slots, dc, [depth |-> -1, slot |-> -1]))
      = IF IsTree(r.comps[r.mapping[d]]) THEN AsSource(s, sc, d, dc)
        ELSE InputsFrom(graph.comps[d], s, sc) + SharesFrom(graph.comps[d], s, sc)

\* The edges from u, the compiled component s, to t, the compiled component c.
EdgesMatch(u, t, q, c, s, sc, dc) ==
    /\ t.mode = "multi" =>
          Carried(u, sc, q, {At(t.slots, dc, [depth |-> -1, slot |-> -1])})
             = TimesHeard(c, s, sc, dc)
    /\ Carried(u, sc, q, Keys) = InputsFrom(c, s, sc)

\* The edges to a component are counted by its inputs: those to one key by the inputs of
\* one channel, and all of them by all inputs.
LEMMA EdgesAreInputs ==
    ASSUME NEW N, NEW g, NEW order, NEW br, Linked(g, order, br, N), NEW cs \in [1..N -> Tables],
           NEW s \in Ids(g), NEW d \in Ids(g), NEW sc, NEW dc, NEW p, NEW q, NEW u, NEW t, NEW c,
           p = Position(order, s), q = Position(order, d), u = cs[p], t = cs[q], c = g.comps[d],
           Fits(order, cs, N, q, c.single)
    PROVE  EdgesMatch(u, t, q, c, s, sc, dc)
<1>1. /\ order \in Seq(Ids(g)) /\ N = Len(order) /\ ToSet(order) = Ids(g) /\ 0 \notin Ids(g)
      /\ c \in Comps /\ c.multi = NoMulti
      /\ \A m \in DOMAIN c.single : c.single[m].src # NoSrc => c.single[m].src.id \in Ids(g)
  BY DEF Linked, NoShares, Apart
<1>2. p \in 1..N /\ q \in 1..N /\ order[p] = s
  BY <1>1, PositionFound
<1>3. PICK single \in Seq(Ins) : single = c.single
  BY <1>1 DEF Comps
<1>4. t \in Tables
  BY <1>2
<1>5. ASSUME NEW x \in Ins, x.src # NoSrc => x.src.id \in Ids(g)
      PROVE  Position(order, x.src.id) = p <=> x.src.id = s
  <2>1. CASE x.src = NoSrc
    <3>1. x.src.id = 0
      BY <2>1, NoneTypes
    <3>2. Position(order, 0) = 0
      BY <1>1 DEF Position
    <3>3. p # 0 /\ s # 0
      BY <1>1, <1>2
    <3> QED
      BY <3>1, <3>2, <3>3
  <2>2. CASE x.src # NoSrc
    BY <1>1, <1>2, <1>5, <2>2, PositionFound
  <2> QED
    BY <2>1, <2>2
<1>6. \A K : Carried(cs[p], sc, q, K) = Cardinality(Hits(single, InsVia(order, t.slots, p, sc, K)))
  BY <1>2, <1>3 DEF Fits, EdgesFit
<1>7. ASSUME t.mode = "multi"
      PROVE  Carried(cs[p], sc, q, {At(t.slots, dc, [depth |-> -1, slot |-> -1])})
                = TimesHeard(c, s, sc, dc)
  <2>1. PICK none : none = [depth |-> -1, slot |-> -1]
    OBVIOUS
  <2>2. PICK key : key = At(t.slots, dc, none)
    OBVIOUS
  <2>3. none \notin Keys
    BY <2>1 DEF Keys
  <2>4. PICK slots : slots = t.slots
    OBVIOUS
  <2>5. /\ DOMAIN slots = {single[m].chan : m \in DOMAIN single}
        /\ \A a, b \in DOMAIN slots : slots[a] = slots[b] => a = b
    BY <1>3, <1>7, <2>4 DEF Fits, SlotsFit
  <2>6. ASSUME NEW m \in DOMAIN single PROVE KeyFor(slots, single[m].chan) = key <=> single[m].chan = dc
    <3>1. single[m].chan \in DOMAIN slots /\ KeyFor(slots, single[m].chan) = slots[single[m].chan]
      BY <2>5 DEF KeyFor, At
    <3>2. CASE dc \in DOMAIN slots
      BY <2>2, <2>4, <2>5, <3>1, <3>2 DEF At
    <3>3. CASE dc \notin DOMAIN slots
      <4>1. key = none
        BY <2>2, <2>4, <3>3 DEF At
      <4>2. KeyFor(slots, single[m].chan) \in Keys
        BY <1>4, <2>4, KeyForType
      <4> QED
        BY <2>3, <3>1, <3>3, <4>1, <4>2
    <3> QED
      BY <3>2, <3>3
  <2>7. Hits(single, InsVia(order, slots, p, sc, {key})) = Hits(single, InsOf(s, sc, dc))
    <3>1. ASSUME NEW m \in DOMAIN single
          PROVE  single[m] \in InsVia(order, slots, p, sc, {key}) <=> single[m] \in InsOf(s, sc, dc)
      <4>1. PICK x \in Ins : x = single[m]
        OBVIOUS
      <4>2. x.src # NoSrc => x.src.id \in Ids(g)
        BY <1>1, <1>3, <4>1
      <4>3. Position(order, x.src.id) = p <=> x.src.id = s
        BY <1>5, <4>2
      <4>4. KeyFor(slots, x.chan) = key <=> x.chan = dc
        BY <2>6, <4>1
      <4> QED
        BY <4>1, <4>3, <4>4 DEF InsVia, InsOf
    <3> QED
      BY <3>1 DEF Hits
  <2>8. TimesHeard(c, s, sc, dc) = Cardinality(Hits(single, InsOf(s, sc, dc))) + 0
    BY <1>1, <1>3, HeardTimes DEF Times
  <2>9. Cardinality(Hits(single, InsOf(s, sc, dc))) \in Nat
    BY <1>3, HitsFinite
  <2> QED
    BY <1>6, <2>1, <2>2, <2>4, <2>7, <2>8, <2>9
<1>8. Hits(single, InsVia(order, t.slots, p, sc, Keys))
        = {n \in DOMAIN single : single[n].src.id = s /\ single[n].src.chan = sc}
  <2>1. ASSUME NEW m \in DOMAIN single
        PROVE  single[m] \in InsVia(order, t.slots, p, sc, Keys)
                 <=> single[m].src.id = s /\ single[m].src.chan = sc
    <3>1. PICK x \in Ins : x = single[m]
      OBVIOUS
    <3>2. x.src # NoSrc => x.src.id \in Ids(g)
      BY <1>1, <1>3, <3>1
    <3>3. Position(order, x.src.id) = p <=> x.src.id = s
      BY <1>5, <3>2
    <3>4. KeyFor(t.slots, x.chan) \in Keys
      BY <1>4, KeyForType
    <3> QED
      BY <3>1, <3>3, <3>4 DEF InsVia
  <2> QED
    BY <2>1 DEF Hits
<1>9. InputsFrom(c, s, sc) = Cardinality(Hits(single, InsVia(order, t.slots, p, sc, Keys)))
  BY <1>3, <1>8 DEF InputsFrom
<1> QED
  BY <1>6, <1>7, <1>9 DEF EdgesMatch

\* The edges of a channel to a component, as the runs count them.
LEMMA CountedEdges ==
    ASSUME NEW t \in Tables, NEW ch, NEW q, NEW K, NEW tree, tree \in BOOLEAN, NEW key,
           K = IF tree THEN {key} ELSE Keys
    PROVE  Carried(t, ch, q, K) = EdgesCounted(DepsOn(t, ch), q, tree, key)
<1>1. PICK out \in Seq(Edges) : out = DepsOn(t, ch)
  BY DepsOnType
<1>2. ASSUME NEW n \in DOMAIN out
      PROVE  out[n] \in EdgesTo(q, K)
               <=> /\ out[n].to = q
                   /\ tree => [depth |-> out[n].depth, slot |-> out[n].slot] = key
  <2>1. PICK e \in Edges : e = out[n]
    OBVIOUS
  <2>2. PICK k \in Keys : k = [depth |-> e.depth, slot |-> e.slot]
    BY DEF Edges, Keys
  <2>3. k \in K <=> (tree => k = key)
    OBVIOUS
  <2> QED
    BY <2>1, <2>2, <2>3 DEF EdgesTo
<1>3. Hits(out, EdgesTo(q, K))
        = {n \in DOMAIN out : /\ out[n].to = q
                              /\ tree => [depth |-> out[n].depth, slot |-> out[n].slot] = key}
  BY <1>2 DEF Hits
<1> QED
  BY <1>1, <1>3 DEF Carried, EdgesCounted

\* The property, of any such graph.
LEMMA WiredOfBuilt == WInv => WiredAsConnected
<1> SUFFICES ASSUME WInv, Result.error = "none"
             PROVE  WiredAsConnected
  BY DEF WiredAsConnected
<1>1. PICK g : g = graph
  OBVIOUS
<1>2. PICK order : order = Rounds(g)
  OBVIOUS
<1>3. PICK bs : bs = Branches(g, order)
  OBVIOUS
<1>4. PICK w : w = Wired(g, order, bs)
  OBVIOUS
<1>5. PICK N : N = Len(order)
  OBVIOUS
<1>6. PICK r : r = Compile(g)
  OBVIOUS
<1>7. /\ Built(g) /\ NoneShared(g) /\ held = Ids(g) /\ DOMAIN g.comps = Ids(g)
      /\ r.error = "none" /\ Result = r
  BY <1>1, <1>6 DEF WInv, IInv, Result, Ids
<1>8. /\ Live(g) = ToSet(order) /\ ~w.missing
      /\ r.mapping = [i \in DOMAIN g.comps |-> Position(order, i)]
      /\ r.comps = [n \in DOMAIN order |-> Finished(w.cs[n])]
  BY <1>2, <1>3, <1>4, <1>6, <1>7, CompiledTable
<1>9. bs \in BranchStates(N) /\ Linked(g, order, bs.branch, N)
  BY <1>2, <1>3, <1>5, <1>7, <1>8, LinkedOfBuilt
<1>10. PICK br : br = bs.branch
  OBVIOUS
<1>11. Linked(g, order, br, N)
  BY <1>9, <1>10
<1>12. w \in WireStates(N) /\ \A q \in 1..N : Fits(order, w.cs, N, q, g.comps[order[q]].single)
  BY <1>4, <1>8, <1>9, AllWired
<1>13. PICK cs \in [1..N -> Tables] : cs = w.cs
  BY <1>12 DEF WireStates
<1>14. order \in Seq(Ids(g)) /\ ToSet(order) = Ids(g) /\ DOMAIN order = 1..N
  BY <1>11 DEF Linked
<1>15. ASSUME NEW i \in Ids(g)
       PROVE  /\ r.mapping[i] = Position(order, i) /\ r.mapping[i] \in 1..N
              /\ r.comps[r.mapping[i]] = Finished(cs[r.mapping[i]])
              /\ Fits(order, cs, N, r.mapping[i], g.comps[i].single)
  <2>1. PICK q : q = r.mapping[i]
    OBVIOUS
  <2>2. q = Position(order, i)
    BY <1>7, <1>8, <2>1
  <2>3. q \in 1..N /\ order[q] = i
    BY <1>5, <1>14, <2>2, PositionFound
  <2>4. r.comps[q] = Finished(cs[q])
    BY <1>8, <1>13, <1>14, <2>3
  <2>5. Fits(order, cs, N, q, g.comps[i].single)
    BY <1>12, <1>13, <2>3
  <2> QED
    BY <2>1, <2>2, <2>3, <2>4, <2>5
<1>16. ASSUME NEW s \in held, NEW d \in held, NEW sc \in Channels, NEW dc \in Channels
       PROVE  Agrees(r, s, d, sc, dc)
  <2>1. s \in Ids(g) /\ d \in Ids(g)
    BY <1>7
  <2>2. PICK p : p = r.mapping[s]
    OBVIOUS
  <2>3. PICK q : q = r.mapping[d]
    OBVIOUS
  <2>4. PICK c : c = g.comps[d]
    OBVIOUS
  <2>5. PICK t \in Tables : t = cs[q]
    BY <1>15, <2>1, <2>3
  <2>6. PICK to : to = r.comps[q]
    OBVIOUS
  <2>7. PICK tree \in BOOLEAN : tree <=> IsTree(to)
    <3>1. IsTree(to) \in BOOLEAN
      BY DEF IsTree
    <3> QED
      BY <3>1
  <2>8. PICK key : key = At(t.slots, dc, [depth |-> -1, slot |-> -1])
    OBVIOUS
  <2>9. PICK K : K = IF tree THEN {key} ELSE Keys
    OBVIOUS
  <2>10. cs[p] \in Tables /\ p = Position(order, s) /\ q = Position(order, d)
         /\ to = Finished(t) /\ r.comps[p] = Finished(cs[p]) /\ Fits(order, cs, N, q, c.single)
    BY <1>15, <2>1, <2>2, <2>3, <2>4, <2>5, <2>6
  <2>11. to.slots = t.slots /\ (tree => t.mode = "multi")
    BY <2>7, <2>10, FinishedKeeps DEF IsTree
  <2>12. PICK out : out = At(r.comps[p].deps, sc, <<>>)
    OBVIOUS
  <2>13. out = DepsOn(cs[p], sc)
    BY <2>10, <2>12, FinishedKeeps DEF DepsOn
  <2>14. Carried(cs[p], sc, q, K) = EdgesCounted(out, q, tree, key)
    BY <2>9, <2>10, <2>13, CountedEdges
  <2>15. /\ t.mode = "multi" => Carried(cs[p], sc, q, {key}) = TimesHeard(c, s, sc, dc)
         /\ Carried(cs[p], sc, q, Keys) = InputsFrom(c, s, sc)
    <3>1. PICK u : u = cs[p]
      OBVIOUS
    <3>2. EdgesMatch(u, t, q, c, s, sc, dc)
      BY <1>11, <2>1, <2>4, <2>5, <2>10, <3>1, EdgesAreInputs
    <3> QED
      BY <2>8, <3>1, <3>2 DEF EdgesMatch
  <2>16. c \in Comps /\ c.multi = NoMulti
    BY <1>11, <2>1, <2>4 DEF Linked, NoShares, Apart
  <2>17. InputsFrom(c, s, sc) + SharesFrom(c, s, sc) = InputsFrom(c, s, sc)
    <3>1. PICK single \in Seq(Ins) : single = c.single
      BY <2>16 DEF Comps
    <3>2. InputsFrom(c, s, sc) = Cardinality(Hits(single, {x \in Ins : x.src.id = s /\ x.src.chan = sc}))
      <4>1. {n \in DOMAIN single : single[n].src.id = s /\ single[n].src.chan = sc}
              = Hits(single, {x \in Ins : x.src.id = s /\ x.src.chan = sc})
        <5>1. \A n \in DOMAIN single : single[n] \in Ins
          OBVIOUS
        <5> QED
          BY <5>1 DEF Hits
      <4> QED
        BY <3>1, <4>1 DEF InputsFrom
    <3>3. InputsFrom(c, s, sc) \in Nat
      BY <3>2, HitsFinite
    <3>4. SharesFrom(c, s, sc) = 0
      <4>1. PICK srcs : srcs = c.multi.srcs
        OBVIOUS
      <4>2. DOMAIN srcs = {}
        <5>1. NoMulti.srcs = <<>>
          BY DEF NoMulti
        <5>2. srcs = <<>>
          BY <2>16, <4>1, <5>1
        <5> QED
          BY <5>2
      <4>3. PICK S : S = {n \in DOMAIN srcs : srcs[n].id = s /\ srcs[n].chan = sc}
        OBVIOUS
      <4>4. S = {}
        BY <4>2, <4>3
      <4> QED
        BY <4>1, <4>3, <4>4, FS_EmptySet DEF SharesFrom
    <3> QED
      BY <3>3, <3>4
  <2>18. Carried(cs[p], sc, q, K) = IF IsTree(to) THEN AsSource(s, sc, d, dc)
                                    ELSE InputsFrom(c, s, sc) + SharesFrom(c, s, sc)
    BY <1>1, <2>4, <2>7, <2>9, <2>11, <2>15, <2>17 DEF AsSource
  <2>19. EdgesCounted(out, q, tree, key) = EdgesCounted(out, q, IsTree(to), key)
    <3>1. IsTree(to) \in BOOLEAN
      BY DEF IsTree
    <3>2. tree = IsTree(to)
      BY <2>7, <3>1
    <3> QED
      BY <3>2
  <2> QED
    BY <1>1, <2>2, <2>3, <2>4, <2>6, <2>8, <2>11, <2>12, <2>14, <2>18, <2>19 DEF Agrees
<1>17. ASSUME NEW i \in held, NEW a \in DOMAIN r.comps[r.mapping[i]].slots,
              NEW b \in DOMAIN r.comps[r.mapping[i]].slots,
              r.comps[r.mapping[i]].slots[a] = r.comps[r.mapping[i]].slots[b]
       PROVE  a = b
  <2>1. PICK q : q = r.mapping[i]
    OBVIOUS
  <2>2. PICK t \in Tables : t = cs[q]
    BY <1>7, <1>15, <2>1
  <2>3. r.comps[q] = Finished(t) /\ Fits(order, cs, N, q, g.comps[i].single)
    BY <1>7, <1>15, <2>1, <2>2
  <2>4. r.comps[q].slots = t.slots
    BY <2>3, FinishedKeeps
  <2> QED
    BY <1>17, <2>1, <2>2, <2>3, <2>4 DEF Fits, SlotsFit
<1>18. \A s, d \in held, sc, dc \in Channels : Agrees(Result, s, d, sc, dc)
  BY <1>7, <1>16
<1>19. \A i \in held : \A a, b \in DOMAIN Result.comps[Result.mapping[i]].slots :
          Result.comps[Result.mapping[i]].slots[a] = Result.comps[Result.mapping[i]].slots[b] => a = b
  BY <1>7, <1>17
<1> QED
  BY <1>18, <1>19, Zenon DEF WiredAsConnected, Agrees, EdgesCounted, InputsFrom, SharesFrom

-----------------------------------------------------------------------------
(* The theorem.                                                            *)

\* Whatever components have been added to a new graph and connected, in any order, as long
\* as no input is given a second source: if compile() accepts the graph, then each source of
\* each input has one edge in the compiled table, to the slot in which its component looks
\* that input up, no edge is left over, and no two inputs of a component share a slot.
THEOREM BuiltWiredAsConnected ==
    Start = EmptyGraph /\ ~Edits /\ ~Unknown /\ ~Shared /\ Spec => []WiredAsConnected
<1> SUFFICES ASSUME Start = EmptyGraph, ~Edits, ~Unknown, ~Shared
             PROVE  Spec => []WiredAsConnected
  OBVIOUS
<1>1. Init => WInv
  <2> SUFFICES ASSUME Init PROVE WInv
    OBVIOUS
  <2>1. IInv
    BY InitBuilds
  <2>2. graph.comps = <<>>
    BY DEF Init, EmptyGraph
  <2>3. Ids(graph) = {}
    BY <2>2 DEF Ids
  <2> QED
    BY <2>1, <2>3 DEF WInv, NoneShared
<1>2. WInv /\ [Next]_vars => WInv'
  BY NextKeepsApart
<1>3. WInv => WiredAsConnected
  BY WiredOfBuilt
<1> QED
  BY <1>1, <1>2, <1>3, PTL DEF Spec
=============================================================================
