-------------------------- MODULE Components_proofs --------------------------
(***************************************************************************)
(* Proofs about single components and what they are made of, for any       *)
(* number of runs, threads and values:                                     *)
(*                                                                         *)
(*   OwnValuesPassed       what a run of a group passes on is what its own *)
(*                         sub-run delivered, although all runs share the  *)
(*                         listeners                                       *)
(*   ArgumentsAlwaysStay   no run of an entry component loses its          *)
(*                         arguments                                       *)
(*   FirstAlwaysOpen       the cached index is the first open slot         *)
(*   StateAlwaysKnown      init(), get_state() and drop() take the slot of *)
(*                         a Configurable for what it holds, get_config()  *)
(*                         never does                                      *)
(*   SlotAlwaysKnown       nobody takes it for what it does not hold, if   *)
(*                         get_config() is not called                      *)
(*   ListsArrive           a component reads the values of a list where    *)
(*                         the list has them                               *)
(*   ArgumentsReachInputs  the same for values by name, if no level of the *)
(*                         component is without inputs                     *)
(*   TreesAreRead          a walk over a tree, first() and last() read     *)
(*                         what the level holds                            *)
(***************************************************************************)
EXTENDS Group, EntrySlots, Configurable, RunArguments, InputTrees,
        FiniteSetTheorems, SequenceTheorems, NaturalsInduction, WellFoundedInduction, TLAPS

-----------------------------------------------------------------------------
(* Group.                                                                  *)

Items == [by : Outer, out : Outs, nth : Nat]

Begun == {p \in Outer : subRun[p] # 0}

\* What the variables range over.
GroupTypeOK ==
    /\ subRun \in [Outer -> BaseIds \cup {0}]
    /\ pending \in [Outer -> SUBSET Items]
    /\ ended \in [Outer -> BOOLEAN]
    /\ listened \in [Outs -> [BaseIds -> Seq(Items)]]
    /\ context \in [Outer -> {"new", "open", "finished", "leaked"}]
    /\ polling \in SUBSET Outer
    /\ passed \in [Outer -> [Outs -> Seq(Items)]]

\* A run that has begun a sub-run has a base id of its own, counted up.
IdsOwn ==
    /\ \A o \in Outer : context[o] = "new" => subRun[o] = 0
    /\ \A o \in Outer : subRun[o] <= Cardinality(Begun)
    /\ \A o, p \in Begun : subRun[o] = subRun[p] => o = p

\* Nothing is under way for a run that has not begun, and a sub-run calls back when
\* it has delivered everything.
EndIsLast ==
    /\ \A o \in Outer \ Begun : o \notin polling /\ pending[o] = {} /\ ~ended[o]
    /\ \A o \in Outer : ended[o] => pending[o] = {}

\* What a listener holds for a run: values of its sub-run that are not pending any
\* more, each once, and as long as the run polls all of them.
Gathered(s, vals, left, polled) ==
    /\ \A n \in 1..Len(s) : s[n] \in vals /\ s[n] \notin left
    /\ \A m, n \in 1..Len(s) : m # n => s[m] # s[n]
    /\ polled => \A v \in vals : v \in left \/ \E n \in 1..Len(s) : s[n] = v

\* What the listener of output c holds for run o.
Collected(o, c, s) == Gathered(s, Deliveries(o, c), pending[o], o \in polling)

\* The listeners hold nothing under a base id that nobody has.
ListenersOwn ==
    /\ \A o \in Begun, c \in Outs : Collected(o, c, listened[c][subRun[o]])
    /\ \A c \in Outs, r \in BaseIds : (\A o \in Begun : subRun[o] # r) => listened[c][r] = <<>>
    /\ \A o \in Outer : pending[o] \subseteq UNION {Deliveries(o, c) : c \in Outs}

\* What is passed on to one channel.
PassedOne(o, c, p) ==
    /\ \A n \in 1..Len(p) : p[n] \in Deliveries(o, c)
    /\ \A m, n \in 1..Len(p) : m # n => p[m] # p[n]
    /\ IF c \in MultiOuts
       THEN p = <<>> \/ \A v \in Deliveries(o, c) : \E n \in 1..Len(p) : p[n] = v
       ELSE Len(p) <= 1

AllOwn == \A o \in Outer, c \in Outs : PassedOne(o, c, passed[o][c])

\* The inductive invariant.  That a run passes on its own values needs the base ids to
\* be distinct and the listeners to hold under each what its sub-run delivered.
GroupInv == GroupTypeOK /\ IdsOwn /\ EndIsLast /\ ListenersOwn /\ AllOwn

-----------------------------------------------------------------------------
\* The deliveries are items of their run and output.
LEMMA DeliveriesAreItems ==
    ASSUME NEW o \in Outer, NEW c \in Outs
    PROVE  Deliveries(o, c) \subseteq Items
BY GroupAssumption DEF Deliveries, Item, Items

\* The property, channel by channel.
LEMMA OwnIsPassed == GroupTypeOK /\ AllOwn => PassesOwnValues
<1> SUFFICES ASSUME GroupTypeOK, AllOwn PROVE PassesOwnValues
  OBVIOUS
<1>1. ASSUME NEW o \in Outer, NEW c \in Outs
      PROVE  DOMAIN passed[o][c] = 1..Len(passed[o][c])
  <2>1. passed[o][c] \in Seq(Items)
    BY DEF GroupTypeOK
  <2> QED
    BY <2>1
<1> QED
  BY <1>1 DEF AllOwn, PassedOne, PassesOwnValues

\* Nothing has begun.
LEMMA InitGroup == GroupInit => GroupInv
<1> SUFFICES ASSUME GroupInit PROVE GroupInv
  OBVIOUS
<1>1. Begun = {} /\ Cardinality(Begun) = 0
  <2>1. Begun = {}
    BY DEF GroupInit, Begun
  <2> QED
    BY <2>1, FS_EmptySet
<1>2. GroupTypeOK
  BY DEF GroupInit, GroupTypeOK
<1>3. IdsOwn /\ EndIsLast /\ ListenersOwn
  BY <1>1 DEF GroupInit, IdsOwn, EndIsLast, ListenersOwn
<1>4. AllOwn
  BY DEF GroupInit, AllOwn, PassedOne
<1> QED
  BY <1>2, <1>3, <1>4 DEF GroupInv

\* The next base id is one of BaseIds, and nobody has it.
LEMMA NextIdFree ==
    ASSUME GroupInv, NEW o \in Outer, context[o] = "new"
    PROVE  /\ Cardinality(Begun) \in Nat /\ 1 + Cardinality(Begun) \in BaseIds
           /\ Cardinality(Begun \cup {o}) = 1 + Cardinality(Begun)
           /\ \A p \in Outer : subRun[p] # 1 + Cardinality(Begun)
<1>1. o \notin Begun /\ Begun \subseteq Outer
  BY DEF GroupInv, IdsOwn, Begun
<1>2. IsFiniteSet(Begun) /\ Cardinality(Begun) \in Nat
  BY <1>1, GroupAssumption, FS_Subset, FS_CardinalityType
<1>3. Cardinality(Begun \cup {o}) = Cardinality(Begun) + 1
  BY <1>1, <1>2, FS_AddElement
<1>4. Cardinality(Begun \cup {o}) <= Cardinality(Outer) /\ Cardinality(Outer) \in Nat
  <2>1. Begun \cup {o} \in SUBSET Outer
    BY <1>1
  <2> QED
    BY <2>1, GroupAssumption, FS_Subset, FS_CardinalityType
<1>5. 1 + Cardinality(Begun) \in BaseIds
  BY <1>2, <1>3, <1>4 DEF BaseIds
<1>6. ASSUME NEW p \in Outer PROVE subRun[p] # 1 + Cardinality(Begun)
  <2>1. subRun[p] <= Cardinality(Begun) /\ subRun[p] \in BaseIds \cup {0}
    BY DEF GroupInv, GroupTypeOK, IdsOwn
  <2>2. subRun[p] \in Int
    BY <1>4, <2>1 DEF BaseIds
  <2> QED
    BY <1>2, <2>1, <2>2
<1> QED
  BY <1>2, <1>3, <1>5, <1>6

\* A run that begins gets an empty place in every listener.
LEMMA BeginKeeps ==
    ASSUME GroupInv, NEW o \in Outer, BeginGroup(o)
    PROVE  GroupInv'
<1> DEFINE r == 1 + Cardinality(Begun)
<1>1. /\ r \in BaseIds /\ Cardinality(Begun) \in Nat
      /\ Cardinality(Begun \cup {o}) = r
      /\ \A p \in Outer : subRun[p] # r
  BY NextIdFree DEF BeginGroup
<1>2. /\ subRun' = [subRun EXCEPT ![o] = r]
      /\ pending' = [pending EXCEPT ![o] = UNION {Deliveries(o, c) : c \in Outs}]
      /\ context[o] = "new" /\ context' = [context EXCEPT ![o] = "open"]
      /\ polling' = polling \cup {o}
      /\ UNCHANGED <<ended, listened, passed>>
  BY DEF BeginGroup, Begun
<1>3. o \notin Begun /\ subRun[o] = 0
  BY <1>2 DEF GroupInv, IdsOwn, Begun
<1> HIDE DEF r
<1>4. Begun' = Begun \cup {o} /\ r # 0
  BY <1>1, <1>2 DEF GroupInv, GroupTypeOK, Begun, BaseIds
<1>5. GroupTypeOK'
  <2>1. UNION {Deliveries(o, c) : c \in Outs} \in SUBSET Items
    BY DeliveriesAreItems
  <2> QED
    BY <1>1, <1>2, <2>1 DEF GroupInv, GroupTypeOK
<1>6. IdsOwn'
  <2>1. \A p \in Outer : context'[p] = "new" => subRun'[p] = 0
    BY <1>2, <1>4 DEF GroupInv, GroupTypeOK, IdsOwn
  <2>2. \A p \in Outer : subRun'[p] <= r
    <3> SUFFICES ASSUME NEW p \in Outer PROVE subRun'[p] <= r
      OBVIOUS
    <3>1. r = Cardinality(Begun) + 1
      BY <1>1 DEF r
    <3>2. subRun[p] <= Cardinality(Begun) /\ subRun[p] \in Int
      <4>1. subRun[p] \in BaseIds \cup {0} /\ Cardinality(Outer) \in Nat
        BY GroupAssumption, FS_CardinalityType DEF GroupInv, GroupTypeOK
      <4> QED
        BY <4>1 DEF GroupInv, IdsOwn, BaseIds
    <3> QED
      BY <1>1, <1>2, <3>1, <3>2 DEF GroupInv, GroupTypeOK
  <2>3. \A p, q \in Begun' : subRun'[p] = subRun'[q] => p = q
    BY <1>1, <1>2, <1>4 DEF GroupInv, GroupTypeOK, IdsOwn, Begun
  <2>4. Cardinality(Begun') = r
    BY <1>1, <1>4
  <2> QED
    BY <2>1, <2>2, <2>3, <2>4 DEF IdsOwn
<1>7. EndIsLast'
  BY <1>2, <1>3, <1>4 DEF GroupInv, GroupTypeOK, EndIsLast
<1>8. ListenersOwn'
  <2>1. ASSUME NEW p \in Begun', NEW c \in Outs
        PROVE  Collected(p, c, listened[c][subRun[p]])'
    <3>1. CASE p = o
      <4>1. listened'[c][subRun'[o]] = <<>>
        BY <1>1, <1>2 DEF GroupInv, GroupTypeOK, ListenersOwn, Begun
      <4>2. \A v \in Deliveries(o, c) : v \in pending'[o]
        BY <1>2 DEF GroupInv, GroupTypeOK
      <4> QED
        BY <3>1, <4>1, <4>2 DEF Collected, Gathered
    <3>2. CASE p # o
      <4>1. /\ p \in Begun /\ subRun'[p] = subRun[p] /\ pending'[p] = pending[p]
            /\ p \in polling' => p \in polling
        BY <1>2, <1>4, <3>2 DEF GroupInv, GroupTypeOK, Begun
      <4>2. Collected(p, c, listened[c][subRun[p]])
        BY <4>1 DEF GroupInv, ListenersOwn
      <4> QED
        BY <1>2, <4>1, <4>2 DEF Collected, Gathered
    <3> QED
      BY <3>1, <3>2
  <2>2. \A c \in Outs, q \in BaseIds : (\A p \in Begun' : subRun'[p] # q) => listened'[c][q] = <<>>
    BY <1>2, <1>3, <1>4 DEF GroupInv, GroupTypeOK, ListenersOwn, Begun
  <2>3. \A p \in Outer : pending'[p] \subseteq UNION {Deliveries(p, c) : c \in Outs}
    BY <1>2 DEF GroupInv, GroupTypeOK, ListenersOwn
  <2> QED
    BY <2>1, <2>2, <2>3 DEF ListenersOwn
<1>9. AllOwn'
  BY <1>2 DEF GroupInv, AllOwn
<1> QED
  BY <1>5, <1>6, <1>7, <1>8, <1>9 DEF GroupInv

\* A value that is delivered moves from what is pending to the end of the listener.
LEMMA ListenKeeps ==
    ASSUME GroupInv, NEW o \in Outer, NEW v \in pending[o], Listen(o, v)
    PROVE  GroupInv'
<1>1. PICK c \in Outs : v \in Deliveries(o, c)
  BY DEF GroupInv, ListenersOwn
<1>2. v \in Items /\ v.out = c
  BY <1>1, DeliveriesAreItems DEF Deliveries, Item
<1>3. o \in Begun /\ subRun[o] \in BaseIds
  BY DEF GroupInv, GroupTypeOK, EndIsLast, Begun
<1>4. PICK r \in BaseIds : r = subRun[o]
  BY <1>3
<1>5. PICK s \in Seq(Items) : s = listened[c][r]
  BY DEF GroupInv, GroupTypeOK
<1>6. PICK t \in Seq(Items) : t = Append(s, v)
  BY <1>2, AppendProperties
<1>7. /\ listened' = [listened EXCEPT ![c][r] = t]
      /\ pending' = [pending EXCEPT ![o] = @ \ {v}]
      /\ UNCHANGED <<subRun, ended, context, polling, passed>>
  BY <1>2, <1>4, <1>5, <1>6 DEF Listen
<1>8. /\ Len(t) = Len(s) + 1 /\ Len(s) \in Nat
      /\ \A n \in 1..Len(s) : t[n] = s[n]
      /\ t[Len(s) + 1] = v
  BY <1>2, <1>6, AppendProperties
<1>9. /\ listened'[c][r] = t
      /\ \A d \in Outs, q \in BaseIds : d # c \/ q # r => listened'[d][q] = listened[d][q]
      /\ pending'[o] = pending[o] \ {v}
      /\ \A p \in Outer \ {o} : pending'[p] = pending[p]
      /\ Begun' = Begun
  BY <1>7 DEF GroupInv, GroupTypeOK, Begun
<1>10. GroupTypeOK'
  BY <1>7 DEF GroupInv, GroupTypeOK
<1>11. Gathered(t, Deliveries(o, c), pending[o] \ {v}, o \in polling)
  <2>1. Gathered(s, Deliveries(o, c), pending[o], o \in polling)
    BY <1>3, <1>4, <1>5 DEF GroupInv, ListenersOwn, Collected
  <2>2. \A k \in 1..Len(t) : k \in 1..Len(s) \/ k = Len(s) + 1
    BY <1>8
  <2>3. \A k \in 1..Len(s) : k \in 1..Len(t) /\ t[k] = s[k] /\ s[k] # v
    BY <1>8, <2>1 DEF Gathered
  <2>4. Len(s) + 1 \in 1..Len(t) /\ t[Len(s) + 1] = v
    BY <1>8
  <2>5. \A n \in 1..Len(t) : t[n] \in Deliveries(o, c) /\ t[n] \notin pending[o] \ {v}
    BY <1>1, <2>1, <2>2, <2>3, <2>4 DEF Gathered
  <2>6. \A m, n \in 1..Len(t) : m # n => t[m] # t[n]
    BY <2>1, <2>2, <2>3, <2>4 DEF Gathered
  <2>7. ASSUME o \in polling, NEW u \in Deliveries(o, c)
        PROVE  u \in pending[o] \ {v} \/ \E n \in 1..Len(t) : t[n] = u
    <3>1. CASE u = v
      BY <2>4, <3>1
    <3>2. CASE u # v /\ u \in pending[o]
      BY <3>2
    <3>3. CASE u \notin pending[o]
      BY <2>1, <2>3, <2>7, <3>3 DEF Gathered
    <3> QED
      BY <3>1, <3>2, <3>3
  <2> QED
    BY <2>5, <2>6, <2>7 DEF Gathered
<1>12. ASSUME NEW p \in Begun, NEW d \in Outs
       PROVE  Gathered(listened'[d][subRun[p]], Deliveries(p, d), pending'[p], p \in polling)
  <2>1. CASE p = o /\ d = c
    BY <1>4, <1>9, <1>11, <2>1
  <2>2. Gathered(listened[d][subRun[p]], Deliveries(p, d), pending[p], p \in polling)
    BY DEF GroupInv, ListenersOwn, Collected
  <2>3. subRun[p] \in BaseIds /\ (p # o => subRun[p] # r)
    BY <1>3, <1>4 DEF GroupInv, GroupTypeOK, IdsOwn, Begun
  <2>4. CASE p # o
    <3>1. pending'[p] = pending[p] /\ listened'[d][subRun[p]] = listened[d][subRun[p]]
      BY <1>9, <2>3, <2>4 DEF Begun
    <3> QED
      BY <2>2, <3>1
  <2>5. CASE p = o /\ d # c
    <3>1. v \notin Deliveries(o, d)
      BY <1>2, <2>5 DEF Deliveries, Item
    <3>2. listened'[d][subRun[p]] = listened[d][subRun[p]]
      BY <1>9, <2>3, <2>5
    <3> QED
      BY <1>9, <2>2, <2>5, <3>1, <3>2 DEF Gathered
  <2> QED
    BY <2>1, <2>4, <2>5
<1>13. ListenersOwn'
  <2>1. \A d \in Outs, q \in BaseIds : (\A p \in Begun' : subRun'[p] # q) => listened'[d][q] = <<>>
    BY <1>3, <1>4, <1>7, <1>9 DEF GroupInv, ListenersOwn
  <2>2. \A p \in Outer : pending'[p] \subseteq UNION {Deliveries(p, d) : d \in Outs}
    <3>1. \A p \in Outer : pending'[p] \subseteq pending[p]
      BY <1>9
    <3> QED
      BY <3>1 DEF GroupInv, ListenersOwn
  <2>3. \A p \in Begun', d \in Outs :
            Gathered(listened'[d][subRun'[p]], Deliveries(p, d), pending'[p], p \in polling')
    BY <1>7, <1>9, <1>12
  <2> QED
    BY <2>1, <2>2, <2>3 DEF ListenersOwn, Collected
<1>14. IdsOwn' /\ AllOwn'
  BY <1>7, <1>9 DEF GroupInv, IdsOwn, AllOwn
<1>15. EndIsLast'
  BY <1>7, <1>9 DEF GroupInv, EndIsLast
<1> QED
  BY <1>10, <1>13, <1>14, <1>15 DEF GroupInv

\* Steps that leave the ids, the listeners and what was passed on alone.
LEMMA ListenersStay ==
    ASSUME GroupInv, UNCHANGED <<subRun, pending, listened, polling, passed>>
    PROVE  ListenersOwn' /\ AllOwn' /\ Begun' = Begun
<1>1. Begun' = Begun
  BY DEF Begun
<1>2. \A o \in Begun, c \in Outs : Collected(o, c, listened[c][subRun[o]])'
  BY DEF GroupInv, ListenersOwn, Collected
<1> QED
  BY <1>1, <1>2 DEF GroupInv, ListenersOwn, AllOwn

\* A run that begins no sub-run.
LEMMA FailKeeps ==
    ASSUME GroupInv, NEW o \in Outer, FailToBegin(o)
    PROVE  GroupInv'
<1> USE DEF FailToBegin
<1>1. ListenersOwn' /\ AllOwn' /\ Begun' = Begun
  BY ListenersStay
<1>2. GroupTypeOK' /\ IdsOwn'
  BY <1>1 DEF GroupInv, GroupTypeOK, IdsOwn
<1>3. EndIsLast'
  BY <1>1 DEF GroupInv, EndIsLast
<1> QED
  BY <1>1, <1>2, <1>3 DEF GroupInv

\* The callback of the sub-run.
LEMMA SubRunEndsKeeps ==
    ASSUME GroupInv, NEW o \in Outer, SubRunEnds(o)
    PROVE  GroupInv'
<1> USE DEF SubRunEnds
<1>1. ListenersOwn' /\ AllOwn' /\ Begun' = Begun
  BY ListenersStay
<1>2. GroupTypeOK' /\ IdsOwn'
  BY <1>1 DEF GroupInv, GroupTypeOK, IdsOwn
<1>3. EndIsLast'
  BY <1>1 DEF GroupInv, GroupTypeOK, EndIsLast, Begun
<1> QED
  BY <1>1, <1>2, <1>3 DEF GroupInv

\* A poll that comes before the callback.
LEMMA PollEarlyKeeps ==
    ASSUME GroupInv, NEW o \in Outer, PollEarly(o)
    PROVE  GroupInv'
<1> USE DEF PollEarly
<1>1. ListenersOwn' /\ AllOwn' /\ Begun' = Begun
  BY ListenersStay
<1>2. GroupTypeOK' /\ EndIsLast' /\ o \in Begun
  BY <1>1 DEF GroupInv, GroupTypeOK, EndIsLast
<1>3. IdsOwn'
  BY <1>1, <1>2 DEF GroupInv, GroupTypeOK, IdsOwn, Begun
<1> QED
  BY <1>1, <1>2, <1>3 DEF GroupInv

\* What the end of the sub-run leaves in a listener is all its values.
LEMMA PassedIsOwn ==
    ASSUME GroupInv, NEW o \in polling, ended[o], NEW c \in Outs
    PROVE  PassedOne(o, c, Passed(o, c)) /\ Passed(o, c) \in Seq(Items)
<1> DEFINE s == listened[c][subRun[o]]
<1>1. o \in Begun /\ o \in Outer /\ pending[o] = {}
  BY DEF GroupInv, GroupTypeOK, EndIsLast
<1>2. s \in Seq(Items) /\ Collected(o, c, s)
  BY <1>1 DEF GroupInv, GroupTypeOK, ListenersOwn, Begun
<1> HIDE DEF s
<1>3. PassedOne(o, c, <<>>) /\ <<>> \in Seq(Items)
  BY DEF PassedOne
<1>4. CASE context[o] = "finished" \/ (c \notin MultiOuts /\ s = <<>>)
  <2>1. Passed(o, c) = <<>>
    <3>1. s = <<>> => SubSeq(s, 1, 0) = <<>>
      BY SubSeqEmpty
    <3> QED
      BY <1>4, <3>1 DEF Passed, s
  <2> QED
    BY <1>3, <2>1
<1>5. CASE context[o] # "finished" /\ c \in MultiOuts
  <2>1. Passed(o, c) = s
    BY <1>5 DEF Passed, s
  <2> QED
    BY <1>1, <1>2, <1>5, <2>1 DEF PassedOne, Collected, Gathered
<1>6. CASE context[o] # "finished" /\ c \notin MultiOuts /\ s # <<>>
  <2>1. Len(s) \in Nat /\ Len(s) >= 1
    BY <1>2, <1>6, EmptySeq
  <2>2. /\ SubSeq(s, 1, 1) \in Seq(Items) /\ Len(SubSeq(s, 1, 1)) = 1
        /\ SubSeq(s, 1, 1)[1] = s[1]
    BY <1>2, <2>1, SubSeqProperties
  <2>3. Passed(o, c) = SubSeq(s, 1, 1)
    BY <1>6 DEF Passed, s
  <2>4. s[1] \in Deliveries(o, c)
    BY <1>2, <2>1 DEF Collected, Gathered
  <2> QED
    BY <1>6, <2>2, <2>3, <2>4 DEF PassedOne
<1> QED
  BY <1>4, <1>5, <1>6

\* A poll that comes after it empties the place of its run and of no other.
LEMMA PollLateKeeps ==
    ASSUME GroupInv, NEW o \in Outer, PollLate(o)
    PROVE  GroupInv'
<1>1. o \in polling /\ o \in Begun /\ subRun[o] \in BaseIds /\ ended[o] /\ pending[o] = {}
  BY DEF PollLate, GroupInv, GroupTypeOK, EndIsLast, Begun
<1>2. /\ listened' = [c \in Outs |-> [listened[c] EXCEPT ![subRun[o]] = <<>>]]
      /\ passed' = [passed EXCEPT ![o] = AllPassed(o)]
      /\ context' = [context EXCEPT ![o] = IF @ = "open" THEN "leaked" ELSE @]
      /\ polling' = polling \ {o}
      /\ UNCHANGED <<subRun, pending, ended>>
  BY DEF PollLate
<1>3. Begun' = Begun
  BY <1>2 DEF Begun
<1>4. AllPassed(o) \in [Outs -> Seq(Items)] /\ \A c \in Outs : AllPassed(o)[c] = Passed(o, c)
  BY <1>1, PassedIsOwn DEF AllPassed
<1>5. GroupTypeOK'
  <2>1. listened' \in [Outs -> [BaseIds -> Seq(Items)]]
    <3>1. <<>> \in Seq(Items) /\ \A c \in Outs : listened[c] \in [BaseIds -> Seq(Items)]
      BY DEF GroupInv, GroupTypeOK
    <3> QED
      BY <1>2, <3>1
  <2>2. passed' \in [Outer -> [Outs -> Seq(Items)]]
    BY <1>2, <1>4 DEF GroupInv, GroupTypeOK
  <2>3. context' \in [Outer -> {"new", "open", "finished", "leaked"}]
    BY <1>2 DEF GroupInv, GroupTypeOK
  <2> QED
    BY <1>2, <2>1, <2>2, <2>3 DEF GroupInv, GroupTypeOK
<1>6. IdsOwn'
  <2>1. \A p \in Outer : context'[p] = "new" <=> context[p] = "new"
    BY <1>2 DEF GroupInv, GroupTypeOK
  <2> QED
    BY <1>2, <1>3, <2>1 DEF GroupInv, IdsOwn
<1>7. EndIsLast'
  BY <1>2, <1>3 DEF GroupInv, EndIsLast
<1>8. ListenersOwn'
  <2>1. \A c \in Outs, q \in BaseIds :
            listened'[c][q] = IF q = subRun[o] THEN <<>> ELSE listened[c][q]
    BY <1>1, <1>2 DEF GroupInv, GroupTypeOK
  <2>2. ASSUME NEW p \in Begun, NEW c \in Outs
        PROVE  Collected(p, c, listened[c][subRun[p]])'
    <3>1. subRun[p] \in BaseIds
      BY DEF GroupInv, GroupTypeOK, Begun
    <3>2. CASE p = o
      <4>1. listened'[c][subRun'[p]] = <<>> /\ p \notin polling'
        BY <1>2, <2>1, <3>1, <3>2
      <4> QED
        BY <4>1 DEF Collected, Gathered
    <3>3. CASE p # o
      <4>1. subRun[p] # subRun[o] /\ p \in Outer
        BY <1>1, <3>3 DEF GroupInv, IdsOwn, Begun
      <4>2. listened'[c][subRun'[p]] = listened[c][subRun[p]]
        BY <1>2, <2>1, <3>1, <4>1
      <4>3. Collected(p, c, listened[c][subRun[p]])
        BY DEF GroupInv, ListenersOwn
      <4> QED
        BY <1>2, <4>2, <4>3 DEF Collected, Gathered
    <3> QED
      BY <3>2, <3>3
  <2>3. \A c \in Outs, q \in BaseIds : (\A p \in Begun' : subRun'[p] # q) => listened'[c][q] = <<>>
    BY <1>2, <1>3, <2>1 DEF GroupInv, ListenersOwn
  <2> QED
    BY <1>2, <1>3, <2>2, <2>3 DEF GroupInv, ListenersOwn
<1>9. AllOwn'
  <2>1. ASSUME NEW p \in Outer, NEW c \in Outs PROVE PassedOne(p, c, passed'[p][c])
    <3>1. CASE p = o
      BY <1>1, <1>2, <1>4, <3>1, PassedIsOwn DEF GroupInv, GroupTypeOK
    <3>2. CASE p # o
      BY <1>2, <3>2 DEF GroupInv, GroupTypeOK, AllOwn
    <3> QED
      BY <3>1, <3>2
  <2> QED
    BY <2>1 DEF AllOwn
<1> QED
  BY <1>5, <1>6, <1>7, <1>8, <1>9 DEF GroupInv

\* Every step keeps the invariant.
LEMMA NextGroup ==
    ASSUME GroupInv, [GroupNext]_groupVars
    PROVE  GroupInv'
<1>1. ASSUME NEW o \in Outer, GroupRun(o) \/ SubRun(o) \/ Poll(o)
      PROVE  GroupInv'
  <2>1. CASE BeginGroup(o)
    BY <2>1, BeginKeeps
  <2>2. CASE SubRunEnds(o)
    BY <2>2, SubRunEndsKeeps
  <2>3. CASE \E v \in pending[o] : Listen(o, v)
    BY <2>3, ListenKeeps
  <2>4. CASE PollEarly(o)
    BY <2>4, PollEarlyKeeps
  <2>5. CASE PollLate(o)
    BY <2>5, PollLateKeeps
  <2>6. CASE FailToBegin(o)
    BY <2>6, FailKeeps
  <2> QED
    BY <1>1, <2>1, <2>2, <2>3, <2>4, <2>5, <2>6 DEF GroupRun, SubRun, Poll
<1>2. CASE UNCHANGED groupVars
  <2> USE <1>2 DEF groupVars
  <2>1. ListenersOwn' /\ AllOwn' /\ Begun' = Begun
    BY ListenersStay
  <2>2. GroupTypeOK' /\ IdsOwn' /\ EndIsLast'
    BY <2>1 DEF GroupInv, GroupTypeOK, IdsOwn, EndIsLast
  <2> QED
    BY <2>1, <2>2 DEF GroupInv
<1> QED
  BY <1>1, <1>2 DEF GroupNext

\* The group component (group.rs): any number of its runs share the listeners, and
\* what each passes on is of its own sub-run, once, and complete where a channel
\* takes more than one value.
THEOREM OwnValuesPassed == GroupSpec => []PassesOwnValues
<1>1. GroupInv => PassesOwnValues
  BY OwnIsPassed DEF GroupInv
<1> QED
  BY <1>1, InitGroup, NextGroup, PTL DEF GroupSpec

-----------------------------------------------------------------------------
(* EntrySlots.                                                             *)

\* What the variables range over.
SlotsTypeOK ==
    /\ len \in Nat
    /\ first \in 0..len
    /\ inputs \in [Slots -> Calls \cup {Open}]
    /\ path \in [Calls -> Int]
    /\ active \in SUBSET Calls

\* The inductive invariant.  That the arguments stay needs the cached index to be
\* an open slot whenever it is not the end, and the reverse needs the arguments to
\* stay: a slot that is given back is the one that its run was given.
SlotsInv == SlotsTypeOK /\ ArgumentsStay /\ FirstIsOpen

\* run() overwrites the slot at the cached index: it holds nobody's tree, and the
\* index moves to the next open slot.
LEMMA StartKeeps ==
    ASSUME SlotsInv, NEW r \in Calls, Start(r)
    PROVE  SlotsInv'
<1> USE DEF Slots
<1>1. SlotsTypeOK'
  BY DEF SlotsInv, SlotsTypeOK, Start
<1>2. ASSUME NEW q \in active'
      PROVE  path'[q] \in Slots' /\ inputs'[path'[q]] = q
  <2>1. CASE q = r
    BY <2>1 DEF SlotsInv, SlotsTypeOK, Start
  <2>2. CASE q # r
    <3>1. q \in active /\ path'[q] = path[q]
      BY <1>2, <2>2 DEF SlotsInv, SlotsTypeOK, Start
    <3>2. path[q] \in Slots /\ inputs[path[q]] = q
      BY <3>1 DEF SlotsInv, ArgumentsStay
    <3>3. path[q] \in 0..(len - 1) /\ q \in Calls /\ q # Open
      BY <3>1, <3>2, OpenAssumption DEF SlotsInv, SlotsTypeOK
    <3>4. path[q] # first
      <4>1. CASE first = len
        BY <3>3, <4>1 DEF SlotsInv, SlotsTypeOK
      <4>2. CASE first < len
        BY <3>2, <3>3, <4>2 DEF SlotsInv, FirstIsOpen
      <4> QED
        BY <4>1, <4>2 DEF SlotsInv, SlotsTypeOK
    <3>5. len' >= len /\ len' \in Nat
      BY DEF SlotsInv, SlotsTypeOK, Start
    <3>6. inputs'[path[q]] = q
      BY <3>2, <3>3, <3>4 DEF SlotsInv, SlotsTypeOK, Start
    <3> QED
      BY <3>1, <3>3, <3>5, <3>6 DEF SlotsInv, SlotsTypeOK
  <2> QED
    BY <2>1, <2>2
<1>3. FirstIsOpen'
  <2>1. CASE first = len
    BY <2>1, OpenAssumption DEF SlotsInv, SlotsTypeOK, FirstIsOpen, Start
  <2>2. CASE first # len
    <3>1. PICK k \in 0..len : NextOpen(first, k) /\ first' = k
      BY <2>2 DEF Start
    <3>2. len' = len /\ inputs' = [i \in Slots |-> IF i = first THEN r ELSE inputs[i]]
      BY <2>2 DEF Start, SlotsInv, SlotsTypeOK
    <3> QED
      BY <3>1, <3>2, OpenAssumption DEF SlotsInv, SlotsTypeOK, FirstIsOpen, NextOpen
  <2> QED
    BY <2>1, <2>2
<1> QED
  BY <1>1, <1>2, <1>3 DEF SlotsInv, ArgumentsStay

\* finish() opens the slot of its own run only, and what is cut off is open.
LEMMA FinishKeeps ==
    ASSUME SlotsInv, NEW r \in Calls, Finish(r)
    PROVE  SlotsInv'
<1> USE DEF Slots
<1>1. PICK k \in 0..len :
          /\ Kept(Cleared(path[r]), k)
          /\ inputs' = [i \in 0..(k - 1) |-> Cleared(path[r])[i]]
          /\ len' = k
  BY DEF Finish
<1>2. path[r] \in 0..(len - 1) /\ inputs[path[r]] = r
  BY DEF Finish, SlotsInv, ArgumentsStay
<1>3. /\ \A i \in 0..(len - 1) : Cleared(path[r])[i] = IF i = path[r] THEN Open ELSE inputs[i]
      /\ \A i \in k..(len - 1) : i = path[r] \/ inputs[i] = Open
      /\ k > 0 => k - 1 # path[r] /\ inputs[k - 1] # Open
  <2>1. PICK cleared : cleared = Cleared(path[r])
    OBVIOUS
  <2>2. len \in Nat /\ k \in 0..len /\ inputs \in [0..(len - 1) -> Calls \cup {Open}]
    BY <1>1 DEF SlotsInv, SlotsTypeOK
  <2>3. \A i \in 0..(len - 1) : cleared[i] = IF i = path[r] THEN Open ELSE inputs[i]
    BY <1>2, <2>1, <2>2 DEF Cleared
  <2>4. /\ \A i \in k..(len - 1) : cleared[i] = Open
        /\ k > 0 => cleared[k - 1] # Open
    BY <1>1, <2>1 DEF Kept
  <2>5. k > 0 => k - 1 \in 0..(len - 1)
    BY <2>2
  <2>6. k > 0 => k - 1 # path[r] /\ inputs[k - 1] # Open
    BY <2>3, <2>4, <2>5
  <2>7. \A i \in k..(len - 1) : i \in 0..(len - 1)
    BY <2>2
  <2>8. \A i \in k..(len - 1) : i = path[r] \/ inputs[i] = Open
    BY <2>3, <2>4, <2>7
  <2> QED
    BY <2>1, <2>3, <2>6, <2>8
<1>4. \A i \in 0..(k - 1) : inputs'[i] = IF i = path[r] THEN Open ELSE inputs[i]
  <2>1. PICK cleared : cleared = Cleared(path[r])
    OBVIOUS
  <2>2. \A i \in 0..(k - 1) : i \in 0..(len - 1)
    BY <1>1 DEF SlotsInv, SlotsTypeOK
  <2>3. \A i \in 0..(k - 1) : inputs'[i] = cleared[i]
    BY <1>1, <2>1
  <2> QED
    BY <1>3, <2>1, <2>2, <2>3
<1>5. /\ first' = IF path[r] < first THEN path[r] ELSE first
      /\ path' = path
      /\ active' = active \ {r}
  BY DEF Finish
<1>6. first' \in 0..k
  \* Every slot before the first open one holds a tree, so that none of them but
  \* the one given back is cut off.
  <2>1. first \in 0..len /\ len \in Nat /\ k \in 0..len /\ path[r] \in 0..(len - 1)
    BY <1>1, <1>2 DEF SlotsInv, SlotsTypeOK
  <2>2. CASE first <= k
    BY <1>5, <2>1, <2>2
  <2>3. CASE k < first
    <3>1. \A i \in k..(first - 1) : i = path[r]
      BY <1>3, <2>1, <2>3 DEF SlotsInv, FirstIsOpen
    <3>2. path[r] = k
      BY <2>1, <2>3, <3>1
    <3> QED
      BY <1>5, <2>1, <2>3, <3>2
  <2> QED
    BY <2>1, <2>2, <2>3
<1>7. SlotsTypeOK'
  BY <1>1, <1>4, <1>5, <1>6 DEF SlotsInv, SlotsTypeOK
<1>8. ASSUME NEW q \in active'
      PROVE  path'[q] \in Slots' /\ inputs'[path'[q]] = q
  <2>1. q \in active /\ q # r /\ path[q] \in 0..(len - 1) /\ inputs[path[q]] = q
    BY <1>5, <1>8 DEF SlotsInv, ArgumentsStay
  <2>2. path[q] # path[r] /\ inputs[path[q]] # Open
    BY <1>2, <2>1, OpenAssumption DEF SlotsInv, SlotsTypeOK
  <2>3. path[q] \in 0..(k - 1)
    BY <1>1, <1>3, <2>1, <2>2 DEF SlotsInv, SlotsTypeOK
  <2> QED
    BY <1>1, <1>4, <1>5, <2>1, <2>2, <2>3
<1>9. FirstIsOpen'
  <2>1. /\ len \in Nat /\ k \in 0..len /\ first \in 0..len /\ path[r] \in 0..(len - 1)
        /\ len' = k /\ first' \in 0..k
        /\ \A i \in 0..(first - 1) : inputs[i] # Open
        /\ first < len => inputs[first] = Open
    BY <1>1, <1>2, <1>6 DEF SlotsInv, SlotsTypeOK, FirstIsOpen
  <2>2. \A i \in 0..(first' - 1) : inputs'[i] # Open
    BY <1>4, <1>5, <2>1
  <2>3. first' < k => inputs'[first'] = Open
    BY <1>4, <1>5, <2>1
  <2> QED
    BY <2>1, <2>2, <2>3 DEF FirstIsOpen
<1> QED
  BY <1>7, <1>8, <1>9 DEF SlotsInv, ArgumentsStay

\* The invariant holds in every state, for any set of calls.
THEOREM SlotsInvariant == SlotsSpec => []SlotsInv
<1>1. SlotsInit => SlotsInv
  BY DEF SlotsInit, SlotsInv, SlotsTypeOK, ArgumentsStay, FirstIsOpen, Slots
<1>2. SlotsInv /\ [SlotsNext]_slotVars => SlotsInv'
  <2> SUFFICES ASSUME SlotsInv, [SlotsNext]_slotVars PROVE SlotsInv'
    OBVIOUS
  <2>1. ASSUME NEW r \in Calls, Start(r) PROVE SlotsInv'
    BY <2>1, StartKeeps
  <2>2. ASSUME NEW r \in Calls, Finish(r) PROVE SlotsInv'
    BY <2>2, FinishKeeps
  <2>3. CASE UNCHANGED slotVars
    BY <2>3 DEF slotVars, SlotsInv, SlotsTypeOK, ArgumentsStay, FirstIsOpen, Slots
  <2> QED
    BY <2>1, <2>2, <2>3 DEF SlotsNext
<1> QED
  BY <1>1, <1>2, PTL DEF SlotsSpec

\* ArgumentsStay, for any number of concurrent runs: no two runs share a slot and
\* none is overwritten or given back by another.
THEOREM ArgumentsAlwaysStay == SlotsSpec => []ArgumentsStay
<1>1. SlotsInv => ArgumentsStay
  BY DEF SlotsInv
<1> QED
  BY <1>1, SlotsInvariant, PTL

\* FirstIsOpen, for any number of concurrent runs.
THEOREM FirstAlwaysOpen == SlotsSpec => []FirstIsOpen
<1>1. SlotsInv => FirstIsOpen
  BY DEF SlotsInv
<1> QED
  BY <1>1, SlotsInvariant, PTL

-----------------------------------------------------------------------------
(* Configurable.                                                           *)

\* What carries the proof is that the Once and the slot agree whenever nobody is inside the
\* closure, and that a thread is inside only while the Once is running.

Results == {"no", "inside", "TRUE", "FALSE", "panic"}

ConfigTypeOK ==
    /\ once \in {"new", "running", "done", "poisoned"}
    /\ slot \in {"config", "moved", "state", "dropped"}
    /\ called \in [Callers -> Results]

\* The thread that configures, or has configured, the slot.
Winner(t) == called[t] \in {"inside", "TRUE"}

\* What the Once says is what the slot holds.
Agree ==
    slot # "dropped" =>
        /\ once = "new" => slot = "config"
        /\ once = "done" => slot = "state"

OneWinner ==
    /\ \A t, u \in Threads : Winner(t) /\ Winner(u) => t = u
    /\ once = "new" => \A t \in Threads : ~Winner(t)
    /\ \A t \in Callers : called[t] = "inside" => t \in Threads /\ once = "running"

ReadRight == \A a \in read : a.as = a.was <=> a.by # "get_config"

ConfigInv == ConfigTypeOK /\ Agree /\ OneWinner /\ ReadRight

-----------------------------------------------------------------------------

\* call_once with the closure that moves the configuration out: it is entered only
\* while the Once is new, which it is for nobody afterwards.
LEMMA EnterKeeps ==
    ASSUME ConfigInv, slot # "dropped", NEW t \in Threads, EnterInit(t)
    PROVE  ConfigInv'
<1> USE DEF ConfigInv, EnterInit
<1>1. ConfigTypeOK'
  BY DEF ConfigTypeOK, Results
<1>2. Agree'
  BY DEF Agree
<1>3. \A u \in Threads : Winner(u)' <=> u = t
  BY DEF OneWinner, Winner, ConfigTypeOK, Callers
<1>4. OneWinner'
  BY <1>3 DEF OneWinner, Winner, ConfigTypeOK, Callers
<1>5. ReadRight'
  BY DEF ReadRight, Access, Agree
<1> QED
  BY <1>1, <1>2, <1>4, <1>5

\* configure() returns or panics: the thread that was inside is the only winner.
LEMMA LeaveKeeps ==
    ASSUME ConfigInv, slot # "dropped", NEW t \in Threads, LeaveInit(t) \/ Unwind(t)
    PROVE  ConfigInv'
<1> USE DEF ConfigInv, LeaveInit, Unwind
<1>1. ConfigTypeOK'
  BY DEF ConfigTypeOK, Results
<1>2. Agree'
  BY DEF Agree
<1>3. \A u \in Threads : Winner(u) => u = t
  BY DEF OneWinner, Winner, Callers
<1>4. \A u \in Callers \ {t} : called'[u] = called[u] /\ called[u] # "inside"
  BY <1>3 DEF ConfigTypeOK, OneWinner, Winner, Callers
<1>5. called'[t] \in {"TRUE", "panic"}
  BY DEF ConfigTypeOK, Callers
<1>6. OneWinner'
  BY <1>3, <1>4, <1>5 DEF OneWinner, Winner, Callers
<1>7. ReadRight'
  BY DEF ReadRight
<1> QED
  BY <1>1, <1>2, <1>6, <1>7

\* A later init() answers from the Once.
LEMMA AgainKeeps ==
    ASSUME ConfigInv, slot # "dropped", NEW t \in Threads, InitAgain(t)
    PROVE  ConfigInv'
<1> USE DEF ConfigInv, InitAgain
<1>1. ConfigTypeOK'
  BY DEF ConfigTypeOK, Results
<1>2. Agree'
  BY DEF Agree
<1>3. /\ once' = once
      /\ \A u \in Callers \ {t} : called'[u] = called[u]
      /\ called'[t] # "inside" /\ (t \in Threads => called'[t] # "TRUE")
  BY CallsAssumption DEF ConfigTypeOK, Callers
<1>4. OneWinner'
  BY <1>3 DEF OneWinner, Winner, Callers
<1>5. ReadRight'
  BY DEF ReadRight, Access, Agree
<1> QED
  BY <1>1, <1>2, <1>4, <1>5

\* get_state() takes the contents for a state only when the Once is done.
LEMMA GetStateKeeps ==
    ASSUME ConfigInv, slot # "dropped", NEW t \in Askers, GetState(t)
    PROVE  ConfigInv'
<1> USE DEF ConfigInv, GetState
<1>1. ConfigTypeOK'
  BY DEF ConfigTypeOK, Results
<1>2. Agree'
  BY DEF Agree
<1>3. /\ once' = once
      /\ \A u \in Callers \ {t} : called'[u] = called[u]
      /\ called'[t] # "inside" /\ (t \in Threads => called'[t] # "TRUE")
  BY CallsAssumption DEF ConfigTypeOK, Callers
<1>4. OneWinner'
  BY <1>3 DEF OneWinner, Winner, Callers
<1>5. ReadRight'
  BY DEF ReadRight, Access, Agree
<1> QED
  BY <1>1, <1>2, <1>4, <1>5

\* get_config() takes the contents for a configuration only when the Once is done, and
\* then they are the state.
LEMMA GetConfigKeeps ==
    ASSUME ConfigInv, slot # "dropped", NEW t \in Viewers, GetConfig(t)
    PROVE  ConfigInv'
<1> USE DEF ConfigInv, GetConfig
<1>1. ConfigTypeOK'
  BY DEF ConfigTypeOK, Results
<1>2. Agree'
  BY DEF Agree
<1>3. /\ once' = once
      /\ \A u \in Callers \ {t} : called'[u] = called[u]
      /\ called'[t] # "inside" /\ t \notin Threads
  BY CallsAssumption DEF ConfigTypeOK, Callers
<1>4. OneWinner'
  BY <1>3 DEF OneWinner, Winner, Callers
<1>5. ReadRight'
  BY DEF ReadRight, Access, Agree
<1> QED
  BY <1>1, <1>2, <1>4, <1>5

\* drop() takes the contents for what the Once says.
LEMMA DropKeeps ==
    ASSUME ConfigInv, DropSlot
    PROVE  ConfigInv'
<1> USE DEF ConfigInv, DropSlot
<1>1. ConfigTypeOK' /\ Agree'
  BY DEF ConfigTypeOK, Agree
<1>2. OneWinner'
  BY DEF OneWinner, Winner, Callers
<1>3. ReadRight'
  <2>1. CASE once = "new"
    BY <2>1 DEF ReadRight, Access, Agree
  <2>2. CASE once = "done"
    BY <2>2 DEF ReadRight, Access, Agree
  <2>3. CASE once \notin {"new", "done"}
    BY <2>3 DEF ReadRight
  <2> QED
    BY <2>1, <2>2, <2>3
<1> QED
  BY <1>1, <1>2, <1>3

\* At most one thread is told that it configured the slot.
LEMMA WinnersCounted == ConfigInv => StateKnown
<1> SUFFICES ASSUME ConfigInv PROVE StateKnown
    OBVIOUS
<1> DEFINE W == {t \in Threads : called[t] \in {"inside", "TRUE"}}
<1>1. CASE W = {}
  BY <1>1, FS_EmptySet DEF StateKnown, ConfigInv, ReadRight
<1>2. ASSUME NEW t \in W PROVE StateKnown
  <2>1. W = {t}
    BY DEF ConfigInv, OneWinner, Winner
  <2>2. Cardinality(W) = 1
    BY <2>1, FS_Singleton
  <2> QED
    BY <2>2 DEF StateKnown, ConfigInv, ReadRight
<1> QED
  BY <1>1, <1>2

LEMMA ConfigInvariant == ConfigurableSpec => []ConfigInv
<1>1. ConfigurableInit => ConfigInv
  BY DEF ConfigurableInit, ConfigInv, ConfigTypeOK, Results, Agree, OneWinner, Winner, ReadRight,
         Callers
<1>2. ConfigInv /\ [ConfigurableNext]_configVars => ConfigInv'
  <2> SUFFICES ASSUME ConfigInv, [ConfigurableNext]_configVars PROVE ConfigInv'
    OBVIOUS
  <2>1. ASSUME slot # "dropped", NEW t \in Threads, InitCall(t) PROVE ConfigInv'
    <3>1. CASE EnterInit(t)
      BY <2>1, <3>1, EnterKeeps
    <3>2. CASE LeaveInit(t) \/ Unwind(t)
      BY <2>1, <3>2, LeaveKeeps
    <3>3. CASE InitAgain(t)
      BY <2>1, <3>3, AgainKeeps
    <3> QED
      BY <2>1, <3>1, <3>2, <3>3 DEF InitCall
  <2>2. ASSUME slot # "dropped", NEW t \in Askers, GetState(t) PROVE ConfigInv'
    BY <2>2, GetStateKeeps
  <2>3. ASSUME slot # "dropped", NEW t \in Viewers, GetConfig(t) PROVE ConfigInv'
    BY <2>3, GetConfigKeeps
  <2>4. CASE DropSlot
    BY <2>4, DropKeeps
  <2>5. CASE UNCHANGED configVars
    BY <2>5 DEF configVars, ConfigInv, ConfigTypeOK, Agree, OneWinner, Winner, ReadRight
  <2> QED
    BY <2>1, <2>2, <2>3, <2>4, <2>5 DEF ConfigurableNext
<1> QED
  BY <1>1, <1>2, PTL DEF ConfigurableSpec

\* StateKnown, for any number of threads that initialise, ask and view, whether or not
\* configure() panics, and whenever the slot is dropped.
THEOREM StateAlwaysKnown == ConfigurableSpec => []StateKnown
  BY ConfigInvariant, WinnersCounted, PTL

\* Without a viewer no access is get_config()'s.
LEMMA NobodyViews ==
    ASSUME Viewers = {}, \A a \in read : a.by # "get_config", [ConfigurableNext]_configVars
    PROVE  \A a \in read' : a.by # "get_config"
  BY DEF ConfigurableNext, InitCall, EnterInit, LeaveInit, Unwind, InitAgain, GetState, DropSlot,
         Access, configVars

\* SlotKnown, for any number of threads, as long as none calls get_config(), which breaks it.
THEOREM SlotAlwaysKnown == Viewers = {} /\ ConfigurableSpec => []SlotKnown
<1> SUFFICES ASSUME Viewers = {} PROVE ConfigurableSpec => []SlotKnown
    OBVIOUS
<1> DEFINE NoView == \A a \in read : a.by # "get_config"
<1>1. ConfigurableInit => NoView
  BY DEF ConfigurableInit
<1>2. NoView /\ [ConfigurableNext]_configVars => NoView'
  BY NobodyViews
<1>3. ConfigInv /\ NoView => SlotKnown
  BY DEF SlotKnown, ConfigInv, ReadRight
<1> QED
  BY <1>1, <1>2, <1>3, ConfigInvariant, PTL DEF ConfigurableSpec

-----------------------------------------------------------------------------
(* RunArguments.                                                           *)

\* A set of numbers has a least one.
LEMMA LeastNumber ==
    ASSUME NEW S \in SUBSET Nat, S # {}
    PROVE  \E m \in S : \A n \in S : m <= n
<1>1. PICK m \in S : \A n \in S : <<n, m>> \notin OpToRel(<, Nat)
  BY WFMin, NatLessThanWellFounded
<1>2. ASSUME NEW n \in S PROVE m <= n
  <2>1. ~(n < m)
    BY <1>1 DEF OpToRel
  <2> QED
    BY <2>1
<1> QED
  BY <1>2

\* The inputs on level l and below, none below the last.
Below(c, l) == IF l < Len(c.shape) THEN c.shape[l + 1] ELSE 0

\* Where an input is in the order of build_tree, counted from 1.
Place(c, n) == Taken(c)[c.lookup[n][1]] + c.lookup[n][2] + 1

\* Every level but the first has inputs.
Dense(c) == \A l \in Levels(c) : l > 0 => Size(c, l) > 0
NoLevelSkipped == \A c \in Components : Multi(c) => Dense(c)

\* What a level holds, and how many inputs there are from it on.
LEMMA SizeIsDifference ==
    ASSUME NEW c, c.shape \in Seq(Nat), NEW l \in Levels(c)
    PROVE  /\ Below(c, l) \in Nat /\ Below(c, l + 1) \in Nat
           /\ Size(c, l) = Below(c, l) - Below(c, l + 1)
<1>1. PICK L \in Nat : L = Len(c.shape) /\ DOMAIN c.shape = 1..L
  BY LenProperties
<1>2. l \in Nat /\ l < L /\ (l + 2 \in DOMAIN c.shape <=> l + 1 < L) /\ l + 1 \in 1..L
  BY <1>1 DEF Levels
<1>3. c.shape[l + 1] \in Nat /\ (l + 1 < L => c.shape[l + 2] \in Nat)
  <2>1. \A k \in 1..L : c.shape[k] \in Nat
    BY <1>1, ElementOfSeq
  <2> QED
    BY <1>2, <2>1
<1>4. (l + 1) + 1 = l + 2
  BY <1>2
<1> QED
  BY <1>1, <1>2, <1>3, <1>4 DEF Below, Size

\* The levels before one take all that is not on it and below.
LEMMA TakenIsRest ==
    ASSUME NEW c, c.shape \in Seq(Nat), c.shape # <<>>
    PROVE  \A l \in 0..Len(c.shape) : Taken(c)[l] = c.shape[1] - Below(c, l)
<1>1. PICK L \in Nat : L = Len(c.shape) /\ L # 0
  BY LenProperties, EmptySeq
<1> DEFINE Solves(f) == f = [l \in 0..L |-> IF l = 0 THEN 0 ELSE f[l - 1] + Size(c, l - 1)]
<1>2. PICK h : h = [l \in 0..L |-> c.shape[1] - Below(c, l)]
  OBVIOUS
<1>3. c.shape[1] = Below(c, 0) /\ \A l \in 0..L : Below(c, l) \in Nat
  <2>1. c.shape[1] = Below(c, 0)
    BY <1>1 DEF Below
  <2>2. ASSUME NEW l \in 0..L PROVE Below(c, l) \in Nat
    <3>1. CASE l \in Levels(c)
      BY <3>1, SizeIsDifference
    <3>2. CASE l \notin Levels(c)
      BY <1>1, <3>2 DEF Levels, Below
    <3> QED
      BY <3>1, <3>2
  <2> QED
    BY <2>1, <2>2
<1>4. Solves(h)
  <2>1. ASSUME NEW l \in 0..L
        PROVE  h[l] = IF l = 0 THEN 0 ELSE h[l - 1] + Size(c, l - 1)
    <3>1. CASE l = 0
      BY <1>2, <1>3, <3>1
    <3>2. CASE l # 0
      <4>1. l - 1 \in Levels(c) /\ l - 1 \in 0..L /\ (l - 1) + 1 = l
        BY <1>1, <3>2 DEF Levels
      <4>2. Size(c, l - 1) = Below(c, l - 1) - Below(c, l)
        BY <4>1, SizeIsDifference
      <4> QED
        BY <1>2, <1>3, <3>2, <4>1, <4>2
    <3> QED
      BY <3>1, <3>2
  <2> QED
    BY <1>2, <2>1
<1>5. PICK t : t = Taken(c)
  OBVIOUS
<1>6. Solves(t)
  <2>1. t = CHOOSE f : Solves(f)
    BY <1>1, <1>5 DEF Taken
  <2> HIDE DEF Solves
  <2> QED
    BY <1>4, <2>1
<1>7. SUFFICES ASSUME {l \in 0..L : t[l] # h[l]} # {} PROVE FALSE
  BY <1>1, <1>2, <1>5
<1>8. PICK m \in {l \in 0..L : t[l] # h[l]} : \A l \in {k \in 0..L : t[k] # h[k]} : m <= l
  <2>1. {l \in 0..L : t[l] # h[l]} \in SUBSET Nat
    OBVIOUS
  <2> QED
    BY <1>7, <2>1, LeastNumber
<1>9. m # 0 /\ m - 1 \in 0..L /\ m - 1 < m
  <2>1. t[0] = 0 /\ h[0] = 0
    BY <1>4, <1>6
  <2> QED
    BY <1>8, <2>1
<1>10. t[m - 1] = h[m - 1]
  BY <1>8, <1>9
<1>11. t[m] = t[m - 1] + Size(c, m - 1) /\ h[m] = h[m - 1] + Size(c, m - 1)
  BY <1>4, <1>6, <1>8, <1>9
<1> QED
  BY <1>8, <1>10, <1>11

\* Later levels begin later.
LEMMA TakenGrows ==
    ASSUME NEW c, Multi(c), AsCompiled(c), NEW j \in Levels(c), NEW l \in 0..Len(c.shape), j < l
    PROVE  Taken(c)[j] + Size(c, j) <= Taken(c)[l]
<1>1. c.shape \in Seq(Nat) /\ c.shape # <<>> /\ \A k \in Levels(c) : Size(c, k) \in Nat
  BY DEF AsCompiled
<1>2. PICK L \in Nat : L = Len(c.shape) /\ Levels(c) = 0..(L - 1)
  BY <1>1, LenProperties DEF Levels
<1>3. PICK T \in Nat : T = c.shape[1]
  <2>1. 1 \in 1..Len(c.shape)
    BY <1>1, EmptySeq, LenProperties
  <2> QED
    BY <1>1, <2>1, ElementOfSeq
<1>4. \A k \in Levels(c) : /\ Below(c, k) \in Nat /\ Below(c, k + 1) \in Nat
                           /\ Below(c, k + 1) <= Below(c, k)
                           /\ Size(c, k) = Below(c, k) - Below(c, k + 1)
  <2>1. ASSUME NEW k \in Levels(c)
        PROVE  /\ Below(c, k) \in Nat /\ Below(c, k + 1) \in Nat
               /\ Below(c, k + 1) <= Below(c, k)
               /\ Size(c, k) = Below(c, k) - Below(c, k + 1)
    <3>1. /\ Below(c, k) \in Nat /\ Below(c, k + 1) \in Nat
          /\ Size(c, k) = Below(c, k) - Below(c, k + 1)
      BY <1>1, SizeIsDifference
    <3>2. Size(c, k) \in Nat
      BY <1>1
    <3> QED
      BY <3>1, <3>2
  <2> QED
    BY <2>1
<1>5. Below(c, l) <= Below(c, j + 1)
  <2> DEFINE Bad == {k \in (j + 1)..L : ~(Below(c, k) <= Below(c, j + 1))}
  <2>1. SUFFICES ASSUME Bad # {} PROVE FALSE
    <3>1. l \in (j + 1)..L
      BY <1>2
    <3> QED
      BY <2>1, <3>1
  <2>2. Bad \in SUBSET Nat
    BY <1>2
  <2>3. PICK m \in Bad : \A k \in Bad : m <= k
    <3> HIDE DEF Bad
    <3> QED
      BY <2>1, <2>2, LeastNumber
  <2>4. Below(c, j + 1) \in Nat
    BY <1>4
  <2>5. m \in (j + 1)..L /\ m # j + 1
    BY <2>3, <2>4
  <2>6. m - 1 \in (j + 1)..L /\ m - 1 \in Levels(c) /\ (m - 1) + 1 = m /\ m - 1 < m
    BY <1>2, <2>5
  <2>7. Below(c, m - 1) <= Below(c, j + 1)
    BY <2>3, <2>6
  <2>8. Below(c, m) <= Below(c, m - 1) /\ Below(c, m) \in Nat /\ Below(c, m - 1) \in Nat
    BY <1>4, <2>6
  <2> QED
    BY <2>3, <2>4, <2>7, <2>8
<1>6. Below(c, l) \in Nat
  <2>1. l - 1 \in Levels(c) /\ (l - 1) + 1 = l
    BY <1>2
  <2> QED
    BY <1>4, <2>1
<1>7. Taken(c)[j] = T - Below(c, j) /\ Taken(c)[l] = T - Below(c, l)
  <2>1. j \in 0..Len(c.shape)
    BY <1>2
  <2> QED
    BY <1>1, <1>3, <2>1, TakenIsRest
<1>8. Below(c, j) \in Nat /\ Below(c, j + 1) \in Nat /\ Size(c, j) = Below(c, j) - Below(c, j + 1)
  BY <1>4
<1> QED
  BY <1>3, <1>5, <1>6, <1>7, <1>8

\* The places of the inputs are within the first number of the shape, and so are the
\* arguments of their levels.
LEMMA PlacesFit ==
    ASSUME NEW c, Multi(c), AsCompiled(c), NEW n \in DOMAIN c.lookup
    PROVE  /\ c.shape[1] \in Nat
           /\ c.lookup[n][1] \in Levels(c)
           /\ c.lookup[n][2] \in 0..(Size(c, c.lookup[n][1]) - 1)
           /\ Size(c, c.lookup[n][1]) \in Nat
           /\ Taken(c)[c.lookup[n][1]] \in Nat
           /\ Taken(c)[c.lookup[n][1]] + Size(c, c.lookup[n][1]) <= c.shape[1]
           /\ Place(c, n) \in 1..c.shape[1]
<1>1. c.shape \in Seq(Nat) /\ c.shape # <<>>
  BY DEF AsCompiled
<1>2. PICK l \in Levels(c) : \E k \in Columns(c, l) : c.lookup[n] = <<l, k>>
  BY DEF AsCompiled
<1>3. PICK k \in Columns(c, l) : c.lookup[n] = <<l, k>>
  BY <1>2
<1>4. c.lookup[n][1] = l /\ c.lookup[n][2] = k
  BY <1>3
<1>5. PICK L \in Nat : L = Len(c.shape) /\ Levels(c) = 0..(L - 1)
  BY <1>1, LenProperties DEF Levels
<1>6. PICK T \in Nat : T = c.shape[1]
  <2>1. 1 \in 1..Len(c.shape)
    BY <1>1, EmptySeq, LenProperties
  <2> QED
    BY <1>1, <2>1, ElementOfSeq
<1>7. Size(c, l) \in Nat
  BY DEF AsCompiled
<1>8. Taken(c)[0] = 0 /\ Taken(c)[L] = T
  <2>1. 0 \in Levels(c)
    BY <1>2, <1>5
  <2>2. Below(c, 0) = T /\ Below(c, L) = 0
    BY <1>2, <1>5, <1>6 DEF Below
  <2>3. Taken(c)[0] = c.shape[1] - Below(c, 0) /\ Taken(c)[L] = c.shape[1] - Below(c, L)
    <3>1. 0 \in 0..Len(c.shape) /\ L \in 0..Len(c.shape)
      BY <1>5
    <3>2. \A i \in 0..Len(c.shape) : Taken(c)[i] = c.shape[1] - Below(c, i)
      BY <1>1, TakenIsRest
    <3> QED
      BY <3>1, <3>2
  <2> QED
    BY <1>6, <2>2, <2>3
<1>9. Taken(c)[l] + Size(c, l) <= Taken(c)[L]
  BY <1>5, TakenGrows
<1>10. Taken(c)[l] \in Nat
  <2>1. CASE l = 0
    BY <1>8, <2>1
  <2>2. CASE l # 0
    <3>1. 0 \in Levels(c) /\ l \in 0..Len(c.shape) /\ 0 < l
      BY <1>5, <2>2
    <3>2. Taken(c)[0] + Size(c, 0) <= Taken(c)[l] /\ Size(c, 0) \in Nat
      BY <3>1, TakenGrows DEF AsCompiled
    <3>3. Taken(c)[l] = T - Below(c, l) /\ Below(c, l) \in Nat
      BY <1>1, <1>6, <3>1, TakenIsRest, SizeIsDifference
    <3> QED
      BY <1>8, <3>2, <3>3
  <2> QED
    BY <2>1, <2>2
<1>11. k \in 0..(Size(c, l) - 1)
  BY <1>3 DEF Columns
<1> QED
  BY <1>4, <1>6, <1>7, <1>8, <1>9, <1>10, <1>11 DEF Place

\* The places are in the order of the levels, and on a level of the columns.
LEMMA PlacesInOrder ==
    ASSUME NEW c, Multi(c), AsCompiled(c), NEW m \in DOMAIN c.lookup, NEW n \in DOMAIN c.lookup
    PROVE  /\ Place(c, m) < Place(c, n) <=>
                  \/ c.lookup[m][1] < c.lookup[n][1]
                  \/ c.lookup[m][1] = c.lookup[n][1] /\ c.lookup[m][2] < c.lookup[n][2]
           /\ Place(c, m) = Place(c, n) => m = n
<1>1. PICK i \in Levels(c), j \in Nat : c.lookup[m][1] = i /\ c.lookup[m][2] = j
  BY PlacesFit
<1>2. PICK k \in Levels(c), l \in Nat : c.lookup[n][1] = k /\ c.lookup[n][2] = l
  BY PlacesFit
<1>3. i \in Nat /\ k \in Nat
  BY <1>1, <1>2 DEF Levels
<1>4. Place(c, m) = Taken(c)[i] + j + 1 /\ Place(c, n) = Taken(c)[k] + l + 1
  BY <1>1, <1>2 DEF Place
<1>5. Taken(c)[i] \in Nat /\ Taken(c)[k] \in Nat /\ Size(c, i) \in Nat /\ Size(c, k) \in Nat
  BY <1>1, <1>2, PlacesFit
<1>6. j < Size(c, i) /\ l < Size(c, k)
  BY <1>1, <1>2, <1>5, PlacesFit
<1>7. Levels(c) \subseteq 0..Len(c.shape)
  <2>1. Len(c.shape) \in Nat
    BY LenProperties DEF AsCompiled
  <2> QED
    BY <2>1 DEF Levels
<1>8. CASE i < k
  <2>1. Taken(c)[i] + Size(c, i) <= Taken(c)[k]
    BY <1>7, <1>8, TakenGrows
  <2> QED
    BY <1>1, <1>2, <1>3, <1>4, <1>5, <1>6, <1>8, <2>1
<1>9. CASE k < i
  <2>1. Taken(c)[k] + Size(c, k) <= Taken(c)[i]
    BY <1>7, <1>9, TakenGrows
  <2> QED
    BY <1>1, <1>2, <1>3, <1>4, <1>5, <1>6, <1>9, <2>1
<1>10. CASE i = k
  <2>1. j = l => c.lookup[m] = c.lookup[n]
    <3>1. /\ c.lookup[m] = <<c.lookup[m][1], c.lookup[m][2]>>
          /\ c.lookup[n] = <<c.lookup[n][1], c.lookup[n][2]>>
      <4>1. \A x \in DOMAIN c.lookup : \E a, b : c.lookup[x] = <<a, b>>
        BY DEF AsCompiled
      <4> QED
        BY <4>1
    <3> QED
      BY <1>1, <1>2, <1>10, <3>1
  <2>2. j = l => m = n
    BY <2>1 DEF AsCompiled
  <2> QED
    BY <1>1, <1>2, <1>3, <1>4, <1>5, <1>10, <2>2
<1> QED
  BY <1>3, <1>8, <1>9, <1>10

\* Every place is that of an input.
LEMMA PlacesFilled ==
    ASSUME NEW c, Multi(c), AsCompiled(c), NEW p \in 1..c.shape[1]
    PROVE  \E n \in DOMAIN c.lookup : Place(c, n) = p
<1>1. c.shape \in Seq(Nat) /\ c.shape # <<>>
  BY DEF AsCompiled
<1>2. PICK L \in Nat : L = Len(c.shape) /\ L # 0 /\ Levels(c) = 0..(L - 1)
  BY <1>1, LenProperties, EmptySeq DEF Levels
<1>3. PICK T \in Nat : T = c.shape[1]
  <2>1. 1 \in 1..Len(c.shape)
    BY <1>1, <1>2
  <2> QED
    BY <1>1, <2>1, ElementOfSeq
<1>4. Taken(c)[0] = 0 /\ Taken(c)[L] = T
  <2>1. Below(c, 0) = T /\ Below(c, L) = 0
    BY <1>2, <1>3 DEF Below
  <2>2. Taken(c)[0] = c.shape[1] - Below(c, 0) /\ Taken(c)[L] = c.shape[1] - Below(c, L)
    <3>1. 0 \in 0..Len(c.shape) /\ L \in 0..Len(c.shape)
      BY <1>2
    <3>2. \A i \in 0..Len(c.shape) : Taken(c)[i] = c.shape[1] - Below(c, i)
      BY <1>1, TakenIsRest
    <3> QED
      BY <3>1, <3>2
  <2> QED
    BY <1>3, <2>1, <2>2
<1>5. \A l \in Levels(c) : /\ Taken(c)[l + 1] = Taken(c)[l] + Size(c, l) /\ Taken(c)[l] \in Int
                           /\ Size(c, l) \in Nat
  <2>1. ASSUME NEW l \in Levels(c)
        PROVE  /\ Taken(c)[l + 1] = Taken(c)[l] + Size(c, l) /\ Taken(c)[l] \in Int
               /\ Size(c, l) \in Nat
    <3>1. /\ Below(c, l) \in Nat /\ Below(c, l + 1) \in Nat
          /\ Size(c, l) = Below(c, l) - Below(c, l + 1)
      BY <1>1, SizeIsDifference
    <3>2. Taken(c)[l] = T - Below(c, l) /\ Taken(c)[l + 1] = T - Below(c, l + 1)
      <4>1. l \in 0..Len(c.shape) /\ l + 1 \in 0..Len(c.shape)
        BY <1>2
      <4> QED
        BY <1>1, <1>3, <4>1, TakenIsRest
    <3>3. Size(c, l) \in Nat
      BY DEF AsCompiled
    <3> QED
      BY <3>1, <3>2, <3>3
  <2> QED
    BY <2>1
<1> DEFINE Reached == {l \in 0..L : p <= Taken(c)[l]}
<1>6. L \in Reached /\ Reached \in SUBSET Nat
  BY <1>2, <1>3, <1>4
<1>7. PICK l \in Reached : \A k \in Reached : l <= k
  <2> HIDE DEF Reached
  <2> QED
    BY <1>6, LeastNumber
<1>8. l # 0 /\ l - 1 \in Levels(c) /\ (l - 1) + 1 = l
  BY <1>2, <1>3, <1>4, <1>7
<1>9. PICK j \in Levels(c) : j = l - 1
  BY <1>8
<1>10. Taken(c)[j] \in Int /\ ~(p <= Taken(c)[j]) /\ p <= Taken(c)[j] + Size(c, j) /\ Size(c, j) \in Nat
  <2>1. j \in 0..L /\ j < l
    BY <1>2, <1>7, <1>9
  <2>2. j \notin Reached
    BY <1>7, <2>1
  <2>3. ~(p <= Taken(c)[j])
    BY <2>1, <2>2
  <2>4. p <= Taken(c)[j + 1]
    BY <1>7, <1>8, <1>9
  <2> QED
    BY <1>5, <2>3, <2>4
<1>11. p - Taken(c)[j] - 1 \in Columns(c, j)
  BY <1>3, <1>10 DEF Columns
<1>12. PICK n \in DOMAIN c.lookup : c.lookup[n] = <<j, p - Taken(c)[j] - 1>>
  BY <1>11 DEF AsCompiled
<1>13. Place(c, n) = p
  BY <1>3, <1>10, <1>12 DEF Place
<1> QED
  BY <1>13

\* The first number of the shape is that of the inputs.
LEMMA CountOfInputs ==
    ASSUME NEW c, Multi(c), AsCompiled(c)
    PROVE  c.shape[1] \in Nat /\ Cardinality(DOMAIN c.lookup) = c.shape[1]
<1>1. c.shape[1] \in Nat
  <2>1. c.shape \in Seq(Nat) /\ 1 \in 1..Len(c.shape)
    BY EmptySeq, LenProperties DEF AsCompiled
  <2> QED
    BY <2>1, ElementOfSeq
<1> DEFINE f == [p \in 1..c.shape[1] |-> CHOOSE n \in DOMAIN c.lookup : Place(c, n) = p]
<1>2. \A p \in 1..c.shape[1] : f[p] \in DOMAIN c.lookup /\ Place(c, f[p]) = p
  BY PlacesFilled
<1>3. \A n \in DOMAIN c.lookup : Place(c, n) \in 1..c.shape[1] /\ f[Place(c, n)] = n
  <2>1. ASSUME NEW n \in DOMAIN c.lookup
        PROVE  Place(c, n) \in 1..c.shape[1] /\ f[Place(c, n)] = n
    <3>1. Place(c, n) \in 1..c.shape[1]
      BY PlacesFit
    <3>2. f[Place(c, n)] \in DOMAIN c.lookup /\ Place(c, f[Place(c, n)]) = Place(c, n)
      BY <1>2, <3>1
    <3> QED
      BY <3>1, <3>2, PlacesInOrder
  <2> QED
    BY <2>1
<1>4. f \in [1..c.shape[1] -> DOMAIN c.lookup]
  BY <1>2
<1> HIDE DEF f
<1>5. f \in Bijection(1..c.shape[1], DOMAIN c.lookup)
  <2>1. f \in Injection(1..c.shape[1], DOMAIN c.lookup)
    BY <1>2, <1>4 DEF Injection, IsInjective
  <2>2. f \in Surjection(1..c.shape[1], DOMAIN c.lookup)
    BY <1>3, <1>4 DEF Surjection
  <2> QED
    BY <2>1, <2>2 DEF Bijection
<1>6. ExistsBijection(1..c.shape[1], DOMAIN c.lookup)
  BY <1>5 DEF ExistsBijection
<1>7. IsFiniteSet(1..c.shape[1]) /\ Cardinality(1..c.shape[1]) = c.shape[1]
  <2>1. PICK T \in Nat : T = c.shape[1]
    BY <1>1
  <2>2. IsFiniteSet(1..T) /\ Cardinality(1..T) = IF 1 > T THEN 0 ELSE T - 1 + 1
    BY FS_Interval
  <2> QED
    BY <2>1, <2>2
<1> QED
  BY <1>1, <1>6, <1>7, FS_Bijection

-----------------------------------------------------------------------------
\* A list that has each number up to T, in order, has each at its place.
Rising(q, N) == \A i, j \in 1..N : i < j => q[i] < q[j]
Onto(q, N, T) == \A p \in 1..T : \E i \in 1..N : q[i] = p
Same(q, N) == \A i \in 1..N : q[i] = i
LEMMA OrderIsIdentity ==
    ASSUME NEW N \in Nat, NEW T \in Nat, NEW q \in [1..N -> 1..T], Rising(q, N), Onto(q, N, T)
    PROVE  Same(q, N)
<1> DEFINE Bad == {i \in 1..N : q[i] # i}
<1> SUFFICES ASSUME Bad # {} PROVE FALSE
  BY DEF Same
<1>1. Bad \in SUBSET Nat
  OBVIOUS
<1>2. PICK i \in Bad : \A j \in Bad : i <= j
  <2> HIDE DEF Bad
  <2> QED
    BY <1>1, LeastNumber
<1>3. i \in 1..N /\ q[i] # i /\ q[i] \in 1..T /\ \A j \in 1..N : j < i => q[j] = j
  <2>1. ASSUME NEW j \in 1..N, j < i PROVE q[j] = j
    BY <1>2, <2>1
  <2> QED
    BY <1>2, <2>1
<1>4. CASE i < q[i]
  <2>1. i \in 1..T
    BY <1>3, <1>4
  <2>2. PICK j \in 1..N : q[j] = i
    BY <2>1 DEF Onto
  <2>3. ~(j < i) /\ j # i
    BY <1>3, <2>2
  <2>4. q[i] < q[j]
    BY <1>3, <2>3 DEF Rising
  <2> QED
    BY <1>3, <1>4, <2>2, <2>4
<1>5. CASE q[i] < i
  <2>1. q[i] \in 1..N /\ q[q[i]] = q[i]
    BY <1>3, <1>5
  <2>2. q[q[i]] < q[i]
    BY <1>3, <1>5, <2>1 DEF Rising
  <2> QED
    BY <1>3, <2>1, <2>2
<1> QED
  BY <1>3, <1>4, <1>5

\* What an argument can be.
Things == {ValueOf(n) : n \in Names} \cup {Placeholder}

\* Arguments that were packed by name, and a list of them in the order of the inputs.
PackedByName(c, g, a) ==
    /\ c.mode # "primary" /\ NamesOf(c) \subseteq DOMAIN g
    /\ Multi(c) =>
        /\ \A n \in NamesOf(c) : Position(c, n) <= Cardinality(NamesOf(c))
        /\ a = [i \in 1..Cardinality(NamesOf(c)) |->
                  IF \E n \in NamesOf(c) : Position(c, n) = i
                  THEN g[CHOOSE n \in NamesOf(c) : Position(c, n) = i]
                  ELSE Placeholder]
    /\ ~Multi(c) => a = <<g[CHOOSE n \in c.name : TRUE]>>

PackedInOrder(c, g, a) ==
    \E s \in [1..Cardinality(DOMAIN g) -> DOMAIN g] :
        /\ {s[i] : i \in DOMAIN s} = DOMAIN g
        /\ ListOrder(c, s)
        /\ a = [i \in DOMAIN s |-> g[s[i]]]

\* A list that has the values of all inputs and no others has the value of each at
\* its place.
LEMMA ListHasPlaces ==
    ASSUME NEW c, Multi(c), AsCompiled(c), NEW g, DOMAIN g \in SUBSET Names, NEW a,
           PackedInOrder(c, g, a), NamesOf(c) \subseteq DOMAIN g, Len(a) = Expected(c)
    PROVE  \A n \in NamesOf(c) : a[Place(c, n)] = g[n]
<1>1. IsFiniteSet(DOMAIN g) /\ Cardinality(DOMAIN g) \in Nat
  BY ComponentsAssumption, FS_Subset, FS_CardinalityType
<1>2. PICK N \in Nat : N = Cardinality(DOMAIN g)
  BY <1>1
<1>3. PICK s \in [1..N -> DOMAIN g] : /\ {s[i] : i \in DOMAIN s} = DOMAIN g
                                      /\ ListOrder(c, s)
                                      /\ a = [i \in DOMAIN s |-> g[s[i]]]
  BY <1>2 DEF PackedInOrder
<1>4. NamesOf(c) = DOMAIN c.lookup /\ Expected(c) = Cardinality(DOMAIN c.lookup)
  BY DEF NamesOf, Expected
<1>5. PICK T \in Nat : T = c.shape[1] /\ T = Expected(c)
  BY <1>4, CountOfInputs
<1>6. N = T
  <2>1. a = [i \in 1..N |-> g[s[i]]]
    BY <1>3
  <2>2. Len(a) = N
    BY <2>1
  <2> QED
    BY <1>5, <2>2
<1>7. DOMAIN g = NamesOf(c)
  BY <1>1, <1>2, <1>4, <1>5, <1>6, FS_Subset
<1> DEFINE q == [i \in 1..N |-> Place(c, s[i])]
<1>8. q \in [1..N -> 1..T]
  <2>1. ASSUME NEW i \in 1..N PROVE Place(c, s[i]) \in 1..T
    <3>1. s[i] \in DOMAIN c.lookup
      BY <1>3, <1>4, <1>7
    <3> QED
      BY <1>5, <3>1, PlacesFit
  <2> QED
    BY <2>1
<1>9. ASSUME NEW i \in 1..N, NEW j \in 1..N, i < j PROVE q[i] < q[j]
  <2>1. s[i] \in DOMAIN c.lookup /\ s[j] \in DOMAIN c.lookup /\ DOMAIN s = 1..N
    BY <1>3, <1>4, <1>7
  <2>2. {s[i], s[j]} \subseteq NamesOf(c)
    BY <1>4, <2>1
  <2>3. \/ c.lookup[s[i]][1] < c.lookup[s[j]][1]
        \/ c.lookup[s[i]][1] = c.lookup[s[j]][1] /\ c.lookup[s[i]][2] < c.lookup[s[j]][2]
    BY <1>3, <1>9, <2>1, <2>2 DEF ListOrder
  <2> QED
    BY <2>1, <2>3, PlacesInOrder
<1>10. ASSUME NEW p \in 1..T PROVE \E i \in 1..N : q[i] = p
  <2>1. PICK n \in DOMAIN c.lookup : Place(c, n) = p
    BY <1>5, PlacesFilled
  <2>2. PICK i \in 1..N : s[i] = n
    BY <1>3, <1>4, <1>7, <2>1
  <2> QED
    BY <2>1, <2>2
<1>11. \A i \in 1..N : q[i] = i
  <2> HIDE DEF q
  <2>1. Rising(q, N)
    BY <1>9 DEF Rising
  <2>2. Onto(q, N, T)
    BY <1>10 DEF Onto
  <2>3. Same(q, N)
    BY <1>8, <2>1, <2>2, OrderIsIdentity
  <2> QED
    BY <2>3 DEF Same
<1> SUFFICES ASSUME NEW n \in NamesOf(c) PROVE a[Place(c, n)] = g[n]
  OBVIOUS
<1>12. PICK i \in 1..N : s[i] = n
  BY <1>3, <1>7
<1>13. Place(c, n) = i
  BY <1>11, <1>12
<1> QED
  BY <1>3, <1>12, <1>13

\* Arguments that are packed by name are at their places too, if no level is skipped: an
\* input beyond the first level is packed behind all others, where there is no room.
LEMMA PackHasPlaces ==
    ASSUME NEW c, Multi(c), AsCompiled(c), NEW g, NEW a, PackedByName(c, g, a),
           Dense(c)
    PROVE  \A n \in NamesOf(c) : a[Place(c, n)] = g[n]
<1>1. NamesOf(c) = DOMAIN c.lookup
  BY DEF NamesOf
<1>2. PICK T \in Nat : T = c.shape[1] /\ T = Cardinality(NamesOf(c))
  BY <1>1, CountOfInputs
<1>3. c.shape \in Seq(Nat) /\ c.shape # <<>>
  BY DEF AsCompiled
<1>4. PICK L \in Nat : L = Len(c.shape) /\ L # 0 /\ Levels(c) = 0..(L - 1)
  BY <1>3, LenProperties, EmptySeq DEF Levels
<1>5. L = 1
  <2> SUFFICES ASSUME L # 1 PROVE FALSE
    OBVIOUS
  <2>1. 1 \in Levels(c)
    <3>1. L \in Nat /\ L # 0 /\ L # 1
      BY <1>4
    <3>2. 1 \in 0..(L - 1)
      BY <3>1
    <3> QED
      BY <1>4, <3>2
  <2>2. Size(c, 1) \in Nat /\ Size(c, 1) > 0
    BY <2>1 DEF AsCompiled, Dense
  <2>3. 0 \in Columns(c, 1)
    BY <2>2 DEF Columns
  <2>4. PICK n \in DOMAIN c.lookup : c.lookup[n] = <<1, 0>>
    BY <2>1, <2>3 DEF AsCompiled
  <2>5. Position(c, n) = 1 + T
    <3>1. c.lookup[n][1] = 1 /\ c.lookup[n][2] = 0
      BY <2>4
    <3>2. Position(c, n) = 1 + c.shape[1] + 0
      BY <3>1 DEF Position
    <3>3. T \in Nat /\ c.shape[1] = T
      BY <1>2
    <3>4. Position(c, n) = 1 + T + 0
      BY <3>2, <3>3
    <3> QED
      BY <3>3, <3>4
  <2>6. Position(c, n) <= T
    BY <1>1, <1>2, <2>4 DEF PackedByName
  <2> QED
    BY <2>5, <2>6
<1>6. ASSUME NEW n \in DOMAIN c.lookup PROVE Position(c, n) = Place(c, n)
  <2>1. c.lookup[n][1] = 0 /\ c.lookup[n][2] \in Nat
    BY <1>4, <1>5, PlacesFit
  <2>2. Taken(c)[0] = 0
    <3>1. Below(c, 0) = T
      <4>1. Len(c.shape) = 1 /\ 0 < 1 /\ 0 + 1 = 1
        BY <1>4, <1>5
      <4>2. Below(c, 0) = c.shape[1]
        BY <4>1 DEF Below
      <4> QED
        BY <1>2, <4>2
    <3>2. 0 \in 0..Len(c.shape)
      BY <1>4
    <3>3. Taken(c)[0] = c.shape[1] - Below(c, 0)
      BY <1>3, <3>2, TakenIsRest
    <3>4. T \in Nat /\ c.shape[1] = T
      BY <1>2
    <3>5. Taken(c)[0] = T - T
      BY <3>1, <3>3, <3>4
    <3> QED
      BY <3>4, <3>5
  <2> QED
    BY <2>1, <2>2 DEF Position, Place
<1> SUFFICES ASSUME NEW n \in NamesOf(c) PROVE a[Place(c, n)] = g[n]
  OBVIOUS
<1>7. Place(c, n) \in 1..T /\ Position(c, n) = Place(c, n)
  BY <1>1, <1>2, <1>6, PlacesFit
<1>8. a[Place(c, n)] = g[CHOOSE m \in NamesOf(c) : Position(c, m) = Place(c, n)]
  BY <1>2, <1>7 DEF PackedByName
<1>9. \A m \in NamesOf(c) : Position(c, m) = Place(c, n) => m = n
  BY <1>1, <1>6, PlacesInOrder
<1>10. PICK m : m = CHOOSE x \in NamesOf(c) : Position(c, x) = Place(c, n)
  OBVIOUS
<1>11. m = n
  BY <1>7, <1>9, <1>10
<1> QED
  BY <1>8, <1>10, <1>11

-----------------------------------------------------------------------------
\* What the variables range over.
ArgsTypeOK ==
    /\ comp \in Components
    /\ DOMAIN given \in SUBSET Names
    /\ \A n \in DOMAIN given : given[n] = ValueOf(n)
    /\ form \in {"map", "list"}
    /\ args \in Seq(Things)
    /\ outcome \in {"given", "packed", "running", "refused", "panic"}

\* Where the arguments come from.
PackedRight ==
    outcome \in {"packed", "running"} =>
        /\ form = "map" => PackedByName(comp, given, args)
        /\ form = "list" => PackedInOrder(comp, given, args)

\* Why a run does not start.
RightlyRefused ==
    /\ outcome = "running" => Len(args) = Expected(comp)
    /\ outcome = "refused" /\ form = "map" =>
          comp.mode = "primary" \/ ~(NamesOf(comp) \subseteq DOMAIN given)
    /\ outcome = "panic" =>
          Multi(comp) /\ \E n \in NamesOf(comp) : Position(comp, n) > Cardinality(NamesOf(comp))

\* The inductive invariant.
ArgsInv == ArgsTypeOK /\ PackedRight /\ RightlyRefused

\* How many arguments packing by name makes.
LEMMA PackedAll ==
    ASSUME NEW c \in Components, NEW g, \A n \in DOMAIN g : g[n] \in Things,
           NEW a, PackedByName(c, g, a)
    PROVE  a \in Seq(Things) /\ Len(a) = Expected(c)
<1>1. AsCompiled(c)
  BY ComponentsAssumption
<1>2. CASE Multi(c)
  <2>1. NamesOf(c) = DOMAIN c.lookup /\ Expected(c) = Cardinality(NamesOf(c))
    BY <1>2 DEF NamesOf, Expected
  <2>2. PICK T \in Nat : T = Cardinality(NamesOf(c))
    BY <1>1, <1>2, <2>1, CountOfInputs
  <2>3. a = [i \in 1..T |-> IF \E n \in NamesOf(c) : Position(c, n) = i
                            THEN g[CHOOSE n \in NamesOf(c) : Position(c, n) = i]
                            ELSE Placeholder]
    BY <1>2, <2>2 DEF PackedByName
  <2>4. ASSUME NEW i \in 1..T PROVE a[i] \in Things
    <3>1. CASE \E n \in NamesOf(c) : Position(c, n) = i
      <4>1. PICK m : m = CHOOSE n \in NamesOf(c) : Position(c, n) = i
        OBVIOUS
      <4>2. m \in NamesOf(c)
        BY <3>1, <4>1
      <4>3. m \in DOMAIN g /\ a[i] = g[m]
        BY <2>3, <3>1, <4>1, <4>2 DEF PackedByName
      <4> QED
        BY <4>3
    <3>2. CASE ~\E n \in NamesOf(c) : Position(c, n) = i
      <4>1. a[i] = Placeholder
        BY <2>3, <3>2
      <4> QED
        BY <4>1 DEF Things
    <3> QED
      BY <3>1, <3>2
  <2>5. DOMAIN a = 1..T
    BY <2>3
  <2>6. a = [i \in 1..T |-> a[i]]
    BY <2>3
  <2>7. a \in Seq(Things) /\ Len(a) = T
    BY <2>2, <2>4, <2>5, <2>6
  <2> QED
    BY <2>1, <2>2, <2>7
<1>3. CASE ~Multi(c)
  <2>1. PICK n : c.name = {n}
    BY <1>1, <1>3 DEF AsCompiled, PackedByName, Multi
  <2>2. NamesOf(c) = {n} /\ n \in DOMAIN g /\ Expected(c) = 1
    BY <1>3, <2>1 DEF NamesOf, PackedByName, Expected
  <2>3. a = <<g[n]>> /\ g[n] \in Things
    <3>1. (CHOOSE m \in c.name : TRUE) = n
      BY <2>1
    <3> QED
      BY <1>3, <2>2, <3>1 DEF PackedByName
  <2> QED
    BY <2>2, <2>3
<1> QED
  BY <1>2, <1>3

\* The values that were given are things.
LEMMA GivenAreThings == ArgsTypeOK => \A n \in DOMAIN given : given[n] \in Things
BY DEF ArgsTypeOK, Things

\* Every step keeps the invariant.
LEMMA NextArgs == ArgsInv /\ [ArgsNext]_argVars => ArgsInv'
<1> SUFFICES ASSUME ArgsInv, [ArgsNext]_argVars PROVE ArgsInv'
  OBVIOUS
<1>t. ArgsTypeOK /\ PackedRight /\ RightlyRefused /\ \A n \in DOMAIN given : given[n] \in Things
  BY GivenAreThings DEF ArgsInv
<1>1. CASE PackMissing
  BY <1>t, <1>1 DEF PackMissing, Ends, ArgsInv, ArgsTypeOK, PackedRight, RightlyRefused
<1>2. CASE PackPanics
  BY <1>t, <1>2 DEF PackPanics, Packable, Ends, ArgsInv, ArgsTypeOK, PackedRight, RightlyRefused
<1>3. CASE PackMulti
  <2>1. PackedByName(comp, given, args')
    BY <1>3, Zenon DEF PackMulti, Packable, PackedByName
  <2>2. args' \in Seq(Things)
    BY <1>t, <2>1, PackedAll DEF ArgsTypeOK
  <2>3. form = "map" /\ outcome' = "packed" /\ comp' = comp /\ given' = given /\ form' = form
    BY <1>3 DEF PackMulti, Packable
  <2> QED
    BY <1>t, <2>1, <2>2, <2>3 DEF ArgsInv, ArgsTypeOK, PackedRight, RightlyRefused
<1>4. CASE PackSingle
  <2>1. PackedByName(comp, given, args')
    BY <1>4, Zenon DEF PackSingle, Packable, PackedByName
  <2>2. args' \in Seq(Things)
    BY <1>t, <2>1, PackedAll DEF ArgsTypeOK
  <2>3. form = "map" /\ outcome' = "packed" /\ comp' = comp /\ given' = given /\ form' = form
    BY <1>4 DEF PackSingle, Packable
  <2> QED
    BY <1>t, <2>1, <2>2, <2>3 DEF ArgsInv, ArgsTypeOK, PackedRight, RightlyRefused
<1>5. CASE GiveList
  <2>1. PackedInOrder(comp, given, args')
    BY <1>5, Zenon DEF GiveList, PackedInOrder
  <2>2. args' \in Seq(Things)
    <3>1. PICK N \in Nat : N = Cardinality(DOMAIN given)
      BY <1>t, ComponentsAssumption, FS_Subset, FS_CardinalityType DEF ArgsTypeOK
    <3>2. PICK s \in [1..N -> DOMAIN given] : args' = [i \in DOMAIN s |-> given[s[i]]]
      BY <2>1, <3>1 DEF PackedInOrder
    <3>3. args' = [i \in 1..N |-> given[s[i]]] /\ \A i \in 1..N : given[s[i]] \in Things
      BY <1>t, <3>2
    <3> QED
      BY <3>3
  <2>3. form = "list" /\ outcome' = "packed" /\ comp' = comp /\ given' = given /\ form' = form
    BY <1>5 DEF GiveList
  <2> QED
    BY <1>t, <2>1, <2>2, <2>3 DEF ArgsInv, ArgsTypeOK, PackedRight, RightlyRefused
<1>6. CASE Check
  <2>1. form = "map" => Len(args) = Expected(comp)
    BY <1>t, <1>6, PackedAll DEF Check, ArgsTypeOK, PackedRight
  <2>2. /\ outcome = "packed"
        /\ outcome' = IF Len(args) = Expected(comp) THEN "running" ELSE "refused"
        /\ comp' = comp /\ given' = given /\ form' = form /\ args' = args
    BY <1>6 DEF Check, Ends
  <2>3. CASE Len(args) = Expected(comp)
    BY <1>t, <2>2, <2>3 DEF ArgsInv, ArgsTypeOK, PackedRight, RightlyRefused
  <2>4. CASE Len(args) # Expected(comp)
    BY <1>t, <2>1, <2>2, <2>4 DEF ArgsInv, ArgsTypeOK, PackedRight, RightlyRefused
  <2> QED
    BY <2>3, <2>4
<1>7. CASE UNCHANGED argVars
  BY <1>t, <1>7 DEF argVars, ArgsInv, ArgsTypeOK, PackedRight, RightlyRefused
<1> QED
  BY <1>1, <1>2, <1>3, <1>4, <1>5, <1>6, <1>7 DEF ArgsNext

\* What get() returns when each value is at its place.
LEMMA GetsItsPlace ==
    ASSUME ArgsTypeOK, Multi(comp), Len(args) = Expected(comp), NEW n \in NamesOf(comp)
    PROVE  Get(n) = args[Place(comp, n)]
<1>1. AsCompiled(comp) /\ NamesOf(comp) = DOMAIN comp.lookup
  BY ComponentsAssumption DEF ArgsTypeOK, NamesOf
<1>2. PICK T \in Nat : T = comp.shape[1] /\ T = Len(args)
  BY <1>1, CountOfInputs DEF Expected
<1>3. PICK l \in Levels(comp), k \in Nat : comp.lookup[n][1] = l /\ comp.lookup[n][2] = k
  BY <1>1, PlacesFit
<1>4. PICK b \in Nat : b = Taken(comp)[l]
  BY <1>1, <1>3, PlacesFit
<1>5. PICK z \in Nat : z = Size(comp, l)
  BY <1>1, <1>3, PlacesFit
<1>6. k \in 0..(z - 1) /\ b + z <= T
  BY <1>1, <1>2, <1>3, <1>4, <1>5, PlacesFit
<1>7. Get(n) = SubSeq(args, b + 1, b + z)[k + 1]
  <2>1. Get(n) = BuildTree[l][k + 1]
    <3>1. comp.mode # "single"
      BY DEF Multi
    <3> QED
      BY <1>3, <3>1 DEF Get
  <2>2. BuildTree[l] = SubSeq(args, b + 1, b + z)
    BY <1>3, <1>4, <1>5 DEF BuildTree
  <2> QED
    BY <2>1, <2>2
<1>8. SubSeq(args, b + 1, b + z)[k + 1] = args[b + k + 1]
  <2>1. args \in Seq(Things)
    BY DEF ArgsTypeOK
  <2>2. \A i \in (b + 1)..(b + z) : args[i] \in Things
    BY <1>2, <1>6, <2>1
  <2>3. \A i \in 1..((b + z) - (b + 1) + 1) : SubSeq(args, b + 1, b + z)[i] = args[(b + 1) + i - 1]
    BY <2>2, SubSeqProperties
  <2>4. k + 1 \in 1..((b + z) - (b + 1) + 1) /\ (b + 1) + (k + 1) - 1 = b + k + 1
    BY <1>6
  <2> QED
    BY <2>3, <2>4
<1> QED
  BY <1>3, <1>4, <1>7, <1>8 DEF Place

\* One input reads the one argument.
LEMMA GetsTheOne ==
    ASSUME ArgsTypeOK, PackedRight, outcome = "running", ~Multi(comp), comp.mode # "primary",
           Len(args) = Expected(comp), NamesOf(comp) \subseteq DOMAIN given,
           NEW n \in NamesOf(comp)
    PROVE  Get(n) = given[n]
<1>1. comp.mode = "single" /\ NamesOf(comp) = {n} /\ n \in DOMAIN given
  BY ComponentsAssumption DEF ArgsTypeOK, AsCompiled, Multi, NamesOf
<1>2. Get(n) = args[1] /\ Expected(comp) = 1
  BY <1>1 DEF Get, Multi, Expected
<1>3. CASE form = "map"
  <2>1. PackedByName(comp, given, args)
    BY <1>3 DEF PackedRight
  <2>2. args = <<given[n]>>
    <3>1. (CHOOSE m \in comp.name : TRUE) = n
      BY <1>1 DEF NamesOf
    <3> QED
      BY <2>1, <3>1 DEF PackedByName
  <2> QED
    BY <1>2, <2>2
<1>4. CASE form = "list"
  <2>1. PICK N \in Nat : N = Cardinality(DOMAIN given)
    BY ComponentsAssumption, FS_Subset, FS_CardinalityType DEF ArgsTypeOK
  <2>2. PICK s \in [1..N -> DOMAIN given] : /\ {s[i] : i \in DOMAIN s} = DOMAIN given
                                            /\ args = [i \in DOMAIN s |-> given[s[i]]]
    BY <1>4, <2>1 DEF PackedRight, PackedInOrder
  <2>3. N = 1
    <3>1. args = [i \in 1..N |-> given[s[i]]]
      BY <2>2
    <3>2. Len(args) = N
      BY <3>1
    <3> QED
      BY <1>2, <3>2
  <2>4. s[1] = n
    <3>1. PICK i \in 1..N : s[i] = n
      BY <1>1, <2>2
    <3> QED
      BY <2>3, <3>1
  <2> QED
    BY <1>2, <2>2, <2>3, <2>4
<1> QED
  BY <1>3, <1>4 DEF ArgsTypeOK

\* What is read, of a list and of values by name.
LEMMA ReadsWhatWasGiven ==
    ArgsInv /\ (form = "list" \/ (Multi(comp) => Dense(comp))) => InputsAsGiven
<1> SUFFICES ASSUME ArgsInv, form = "list" \/ (Multi(comp) => Dense(comp)), outcome = "running",
                    NamesOf(comp) \subseteq DOMAIN given,
                    NEW n \in NamesOf(comp), comp.mode # "primary"
             PROVE  Get(n) = given[n]
  BY DEF InputsAsGiven
<1>1. ArgsTypeOK /\ PackedRight /\ Len(args) = Expected(comp) /\ AsCompiled(comp)
  BY ComponentsAssumption DEF ArgsInv, ArgsTypeOK, RightlyRefused
<1>2. CASE ~Multi(comp)
  BY <1>1, <1>2, GetsTheOne
<1>3. CASE Multi(comp) /\ form = "list"
  <2>1. PackedInOrder(comp, given, args) /\ DOMAIN given \in SUBSET Names
    BY <1>1, <1>3 DEF PackedRight, ArgsTypeOK
  <2>2. args[Place(comp, n)] = given[n]
    BY <1>1, <1>3, <2>1, ListHasPlaces
  <2> QED
    BY <1>1, <1>3, <2>2, GetsItsPlace
<1>4. CASE Multi(comp) /\ form = "map"
  <2>1. PackedByName(comp, given, args) /\ Dense(comp)
    BY <1>1, <1>4 DEF PackedRight
  <2>2. args[Place(comp, n)] = given[n]
    BY <1>1, <1>4, <2>1, PackHasPlaces
  <2> QED
    BY <1>1, <1>4, <2>2, GetsItsPlace
<1> QED
  BY <1>1, <1>2, <1>3, <1>4 DEF ArgsTypeOK

\* On one level there is room for every input.
LEMMA NamedStarts == ArgsInv => NamedRunStarts
<1> SUFFICES ASSUME ArgsInv, form = "map", comp.mode # "primary",
                    NamesOf(comp) \subseteq DOMAIN given, Multi(comp) => Len(comp.shape) <= 1,
                    outcome \in {"refused", "panic"}
             PROVE  FALSE
  BY DEF NamedRunStarts
<1>1. outcome = "panic" /\ AsCompiled(comp)
  BY ComponentsAssumption DEF ArgsInv, ArgsTypeOK, RightlyRefused
<1>2. Multi(comp)
  BY <1>1 DEF ArgsInv, RightlyRefused
<1>3. PICK n \in NamesOf(comp) : Position(comp, n) > Cardinality(NamesOf(comp))
  BY <1>1 DEF ArgsInv, RightlyRefused
<1>4. NamesOf(comp) = DOMAIN comp.lookup
  BY <1>2 DEF NamesOf
<1>5. Dense(comp)
  <2>1. Len(comp.shape) \in Nat /\ Len(comp.shape) <= 1
    BY <1>1, <1>2, LenProperties DEF AsCompiled
  <2> QED
    BY <2>1 DEF Dense, Levels
<1>6. comp.lookup[n][1] = 0 /\ comp.lookup[n][2] \in Nat
  <2>1. Len(comp.shape) \in Nat /\ Len(comp.shape) <= 1
    BY <1>1, <1>2, LenProperties DEF AsCompiled
  <2>2. comp.lookup[n][1] \in 0..(Len(comp.shape) - 1) /\ comp.lookup[n][2] \in Nat
    BY <1>1, <1>2, <1>4, PlacesFit DEF Levels
  <2> QED
    BY <2>1, <2>2
<1>7. PICK T \in Nat : T = comp.shape[1] /\ T = Cardinality(NamesOf(comp))
  BY <1>1, <1>2, <1>4, CountOfInputs
<1>8. comp.lookup[n][2] < T
  <2>1. comp.lookup[n][2] + 1 <= Size(comp, 0) /\ Size(comp, 0) \in Nat
    BY <1>1, <1>2, <1>4, <1>6, PlacesFit
  <2>2. Taken(comp)[0] \in Nat /\ Taken(comp)[0] + Size(comp, 0) <= T
    BY <1>1, <1>2, <1>4, <1>6, <1>7, PlacesFit
  <2> QED
    BY <1>6, <1>7, <2>1, <2>2
<1>9. Position(comp, n) = 1 + comp.lookup[n][2]
  BY <1>6 DEF Position
<1> QED
  BY <1>3, <1>6, <1>7, <1>8, <1>9

\* Nothing is packed yet.
LEMMA InitArgs == ArgsInit => ArgsInv
<1> SUFFICES ASSUME ArgsInit PROVE ArgsInv
  OBVIOUS
<1>1. DOMAIN given \in SUBSET Names
  <2>1. PICK S \in SUBSET Names : given \in [S -> {ValueOf(n) : n \in Names}]
    BY DEF ArgsInit
  <2> QED
    BY <2>1
<1>2. args \in Seq(Things)
  BY DEF ArgsInit
<1> QED
  BY <1>1, <1>2 DEF ArgsInit, ArgsInv, ArgsTypeOK, PackedRight, RightlyRefused

\* The invariant holds.
THEOREM ArgsInvariant == ArgsSpec => []ArgsInv
<1>1. ArgsInit => ArgsInv
  BY InitArgs
<1>2. ArgsInv /\ [ArgsNext]_argVars => ArgsInv'
  BY NextArgs
<1> QED
  BY <1>1, <1>2, PTL DEF ArgsSpec

\* A component that is started with a list of its inputs' values, level by level, reads
\* for each input the value that was listed for it, whatever the levels.
THEOREM ListsArrive == ArgsSpec => [](form = "list" => InputsAsGiven)
<1>1. ArgsInv => (form = "list" => InputsAsGiven)
  BY ReadsWhatWasGiven
<1> QED
  BY <1>1, ArgsInvariant, PTL

\* Arguments by name arrive as well, and a run with all of them starts, if no component
\* has a level without inputs between two others (then pack_args counts wrong).
THEOREM ArgumentsReachInputs == NoLevelSkipped /\ ArgsSpec => []ArgumentsArrive
<1> SUFFICES ASSUME NoLevelSkipped PROVE ArgsSpec => []ArgumentsArrive
  OBVIOUS
<1>1. ArgsInv => ArgumentsArrive
  <2>1. ArgsInv => (Multi(comp) => Dense(comp))
    BY DEF NoLevelSkipped, ArgsInv, ArgsTypeOK
  <2> QED
    BY <2>1, ReadsWhatWasGiven, NamedStarts DEF ArgumentsArrive
<1> QED
  BY <1>1, ArgsInvariant, PTL

-----------------------------------------------------------------------------
(* InputTrees.                                                             *)

\* What holds of 0 and of the number after each of which it holds, holds of all up to N:
\* a set of numbers without its successor is empty.
LEMMA Upwards ==
    ASSUME NEW N \in Nat, NEW Good \in SUBSET (0..N), 0 \in Good,
           \A n \in Good : n < N => n + 1 \in Good
    PROVE  \A n \in 0..N : n \in Good
<1> SUFFICES ASSUME (0..N) \ Good # {} PROVE FALSE
  OBVIOUS
<1>1. (0..N) \ Good \in SUBSET Nat
  OBVIOUS
<1>2. PICK m \in (0..N) \ Good : \A n \in (0..N) \ Good : m <= n
  BY <1>1, LeastNumber
<1>3. m \in Nat /\ m # 0 /\ m - 1 \in 0..N /\ m - 1 \in Good
  BY <1>2
<1> QED
  BY <1>2, <1>3

\* The rounds of a loop over 1..N.
Runs(f, N, base, step) == f[0] = base /\ \A k \in 1..N : f[k] = step[k][f[k - 1]]

\* A loop whose steps stay in S.
LEMMA LoopRuns ==
    ASSUME NEW S, NEW N \in Nat, NEW base \in S, NEW step \in [1..N -> [S -> S]]
    PROVE  \E f \in [0..N -> S] : Runs(f, N, base, step)
<1> DEFINE Solves(f, m) == f = [k \in 0..m |-> IF k = 0 THEN base ELSE step[k][f[k - 1]]]
           Good == {m \in 0..N : \E f \in [0..m -> S] : Solves(f, m)}
<1>1. 0 \in Good
  <2>1. PICK f : f = [k \in 0..0 |-> base]
    OBVIOUS
  <2>2. f \in [0..0 -> S] /\ Solves(f, 0)
    BY <2>1
  <2> QED
    BY <2>2
<1>2. ASSUME NEW m \in Good, m < N PROVE m + 1 \in Good
  <2>1. PICK f \in [0..m -> S] : Solves(f, m)
    BY <1>2
  <2>2. PICK h : h = [k \in 0..(m + 1) |-> IF k = m + 1 THEN step[m + 1][f[m]] ELSE f[k]]
    OBVIOUS
  <2>3. ASSUME NEW k \in 0..(m + 1)
        PROVE  h[k] \in S /\ h[k] = IF k = 0 THEN base ELSE step[k][h[k - 1]]
    <3>1. CASE k = m + 1
      <4>1. h[k] = step[k][f[m]] /\ h[k - 1] = f[m] /\ k # 0 /\ f[m] \in S /\ k \in 1..N
        BY <1>2, <2>2, <3>1
      <4> QED
        BY <4>1
    <3>2. CASE k # m + 1
      <4>1. k \in 0..m /\ h[k] = f[k] /\ (k # 0 => h[k - 1] = f[k - 1])
        BY <2>2, <3>2
      <4>2. f[k] = IF k = 0 THEN base ELSE step[k][f[k - 1]]
        BY <2>1, <4>1
      <4> QED
        BY <4>1, <4>2
    <3> QED
      BY <3>1, <3>2
  <2>4. h \in [0..(m + 1) -> S] /\ Solves(h, m + 1)
    BY <2>2, <2>3
  <2>5. m + 1 \in 0..N
    BY <1>2
  <2> HIDE DEF Solves
  <2> QED
    BY <2>4, <2>5
<1>3. \A m \in 0..N : m \in Good
  <2>1. Good \in SUBSET (0..N)
    OBVIOUS
  <2> HIDE DEF Good
  <2> QED
    BY <1>1, <1>2, <2>1, Upwards
<1>4. PICK f \in [0..N -> S] : Solves(f, N)
  BY <1>3
<1>5. Runs(f, N, base, step)
  BY <1>4 DEF Runs
<1> QED
  BY <1>5

\* The first i ids of a path.
Pre(p, i) == SubSeq(p, 1, i)

\* A path and what it begins with.
LEMMA PathPrefix ==
    ASSUME NEW S, NEW p \in Seq(S), NEW i \in 0..Len(p)
    PROVE  /\ Pre(p, i) \in Seq(S) /\ Len(Pre(p, i)) = i
           /\ \A k \in 1..i : Pre(p, i)[k] = p[k]
<1>1. PICK n \in Nat : n = Len(p) /\ \A k \in 1..n : p[k] \in S
  BY LenProperties, ElementOfSeq
<1>2. i \in Int /\ i <= n /\ 0 <= i
  BY <1>1
<1>3. \A k \in 1..i : p[k] \in S
  BY <1>1, <1>2
<1>4. /\ SubSeq(p, 1, i) \in Seq(S)
      /\ Len(SubSeq(p, 1, i)) = IF 1 <= i THEN i - 1 + 1 ELSE 0
      /\ \A k \in 1..(i - 1 + 1) : SubSeq(p, 1, i)[k] = p[1 + k - 1]
  BY <1>2, <1>3, SubSeqProperties
<1>5. ASSUME NEW k \in 1..i PROVE SubSeq(p, 1, i)[k] = p[k]
  <2>1. k \in 1..(i - 1 + 1) /\ 1 + k - 1 = k
    BY <1>2
  <2> QED
    BY <1>4, <2>1
<1> QED
  BY <1>2, <1>4, <1>5 DEF Pre

\* Paths that agree are the same.
LEMMA SamePath ==
    ASSUME NEW S, NEW p \in Seq(S), NEW q \in Seq(S), Len(p) = Len(q),
           \A k \in 1..Len(p) : p[k] = q[k]
    PROVE  p = q
BY SeqEqual

\* The whole path, a prefix of a prefix, and the next id.
LEMMA PrefixOfPrefix ==
    ASSUME NEW S, NEW p \in Seq(S), NEW i \in 0..Len(p)
    PROVE  /\ Pre(p, Len(p)) = p
           /\ \A j \in 0..i : Pre(Pre(p, i), j) = Pre(p, j)
           /\ i < Len(p) => Pre(p, i + 1) = Append(Pre(p, i), p[i + 1])
<1>1. PICK n \in Nat : n = Len(p) /\ \A k \in 1..n : p[k] \in S
  BY LenProperties, ElementOfSeq
<1>2. \A j \in 0..n : /\ Pre(p, j) \in Seq(S) /\ Len(Pre(p, j)) = j
                      /\ \A k \in 1..j : Pre(p, j)[k] = p[k]
  BY <1>1, PathPrefix
<1>3. Pre(p, n) = p
  <2>1. n \in 0..n
    OBVIOUS
  <2> QED
    BY <1>1, <1>2, <2>1, SamePath
<1>4. ASSUME NEW j \in 0..i PROVE Pre(Pre(p, i), j) = Pre(p, j)
  <2>1. i \in 0..n /\ j \in 0..n /\ j <= i
    BY <1>1
  <2>2. PICK q \in Seq(S) : q = Pre(p, i) /\ Len(q) = i /\ \A k \in 1..i : q[k] = p[k]
    BY <1>2, <2>1
  <2>3. Pre(q, j) \in Seq(S) /\ Len(Pre(q, j)) = j /\ \A k \in 1..j : Pre(q, j)[k] = q[k]
    BY <2>1, <2>2, PathPrefix
  <2>4. ASSUME NEW k \in 1..j PROVE Pre(q, j)[k] = Pre(p, j)[k]
    <3>1. k \in 1..i
      BY <2>1
    <3> QED
      BY <1>2, <2>1, <2>2, <2>3, <3>1
  <2> QED
    BY <1>2, <2>1, <2>2, <2>3, <2>4, SamePath
<1>5. ASSUME i < n PROVE Pre(p, i + 1) = Append(Pre(p, i), p[i + 1])
  <2>1. i \in 0..n /\ i + 1 \in 0..n /\ i + 1 \in 1..n
    BY <1>1, <1>5
  <2>2. PICK q \in Seq(S) : q = Pre(p, i) /\ Len(q) = i /\ \A k \in 1..i : q[k] = p[k]
    BY <1>2, <2>1
  <2>3. /\ Append(q, p[i + 1]) \in Seq(S) /\ Len(Append(q, p[i + 1])) = i + 1
        /\ \A k \in 1..(i + 1) : Append(q, p[i + 1])[k] = p[k]
    BY <1>1, <2>1, <2>2, AppendProperties
  <2>4. PICK u \in Seq(S) : u = Append(q, p[i + 1]) /\ Len(u) = i + 1 /\ \A k \in 1..(i + 1) : u[k] = p[k]
    BY <2>3
  <2>5. PICK w \in Seq(S) : w = Pre(p, i + 1) /\ Len(w) = i + 1 /\ \A k \in 1..(i + 1) : w[k] = p[k]
    BY <1>2, <2>1
  <2>6. w = u
    BY <2>4, <2>5, SamePath
  <2> QED
    BY <2>2, <2>4, <2>5, <2>6
<1> QED
  BY <1>1, <1>3, <1>4, <1>5

\* A path with one more id begins with the path.
LEMMA PrefixOfLonger ==
    ASSUME NEW S, NEW p \in Seq(S), NEW b \in S
    PROVE  /\ Append(p, b) \in Seq(S) /\ Len(Append(p, b)) = Len(p) + 1
           /\ Append(p, b)[Len(p) + 1] = b
           /\ \A i \in 0..Len(p) : Pre(Append(p, b), i) = Pre(p, i)
<1>1. PICK n \in Nat : n = Len(p)
  BY LenProperties
<1>2. PICK q \in Seq(S) : q = Append(p, b) /\ Len(q) = n + 1 /\ q[n + 1] = b
                          /\ \A k \in 1..n : q[k] = p[k]
  <2>1. /\ Append(p, b) \in Seq(S) /\ Len(Append(p, b)) = Len(p) + 1
        /\ Append(p, b)[Len(p) + 1] = b /\ \A k \in 1..Len(p) : Append(p, b)[k] = p[k]
    BY AppendProperties
  <2> QED
    BY <1>1, <2>1
<1>3. ASSUME NEW i \in 0..n PROVE Pre(q, i) = Pre(p, i)
  <2>1. i \in 0..Len(q) /\ i \in 0..Len(p) /\ \A k \in 1..i : k \in 1..n
    BY <1>1, <1>2
  <2>2. Pre(q, i) \in Seq(S) /\ Len(Pre(q, i)) = i /\ \A k \in 1..i : Pre(q, i)[k] = q[k]
    BY <2>1, PathPrefix
  <2>3. Pre(p, i) \in Seq(S) /\ Len(Pre(p, i)) = i /\ \A k \in 1..i : Pre(p, i)[k] = p[k]
    BY <2>1, PathPrefix
  <2> QED
    BY <1>2, <2>1, <2>2, <2>3, SamePath
<1> QED
  BY <1>1, <1>2, <1>3

-----------------------------------------------------------------------------
\* What the variables range over.
Spot == [node : Seq(BranchIds), slot : Nat \ {0}]
FoundItems == [value : Seq(Int), id : Seq(BranchIds)]
TreesTypeOK ==
    /\ kids \in [Nodes -> SlotLists]
    /\ target \in 0..Depth
    /\ has \in SUBSET Level(target)
    /\ stack \in Seq(Spot)
    /\ index \in Seq(BranchIds)
    /\ found \in Seq(FoundItems)

\* The stack s leads to node t: it holds the nodes on the way, each with the slot that was
\* taken.
LeadsTo(s, t) ==
    /\ t \in Seq(BranchIds) /\ Len(s) = Len(t) + 1
    /\ \A i \in 1..Len(s) : s[i].node = Pre(t, i - 1)
    /\ \A i \in 1..Len(t) : /\ s[i].slot \in DOMAIN kids[Pre(t, i - 1)]
                            /\ kids[Pre(t, i - 1)][s[i].slot] = t[i]

\* A walk that has not ended is at some node that is not below the target's level.
Walk(s) == s # <<>> => Len(s) <= target + 1 /\ \E t : LeadsTo(s, t)

\* The walk has passed value p: on some level it is in a later slot than the one that
\* leads to p.
PassedAt(s, p, i) ==
    /\ s[i].node = Pre(p, i - 1)
    /\ \E k \in DOMAIN kids[Pre(p, i - 1)] : k < s[i].slot /\ kids[Pre(p, i - 1)][k] = p[i]
HasPassed(s, p) == s = <<>> \/ \E i \in 1..Len(s) : i <= Len(p) /\ PassedAt(s, p, i)

\* p is t or below it.
Under(p, t) == Len(t) <= Len(p) /\ Pre(p, Len(t)) = t

\* What has been found: of the values of the level those that were passed, each once.
PassedValues == {p \in has : HasPassed(stack, p)}
FoundPassed ==
    /\ \A n \in 1..Len(found) : found[n].value \in PassedValues \cup {Nothing}
    /\ \A p \in PassedValues : \E n \in 1..Len(found) : found[n].value = p
    /\ \A m, n \in 1..Len(found) : m # n /\ found[m].value = found[n].value => found[m].value = Nothing

\* What is known of a value's path.
OnLevel(p) ==
    /\ p \in Seq(BranchIds) /\ Len(p) = target
    /\ \A i \in 1..target : \E k \in DOMAIN kids[Pre(p, i - 1)] : kids[Pre(p, i - 1)][k] = p[i]

\* A slot of a node holds what no other slot holds, or nothing.
LEMMA SlotsDiffer ==
    ASSUME TreesTypeOK, NEW p \in Seq(BranchIds), Len(p) < Depth
    PROVE  /\ kids[p] \in Seq(BranchIds \cup {Hole}) /\ DOMAIN kids[p] = 1..Len(kids[p])
           /\ \A i, j \in DOMAIN kids[p] : kids[p][i] = kids[p][j] /\ kids[p][i] # Hole => i = j
<1>1. p \in Nodes
  <2>1. PICK n \in Nat : n = Len(p) /\ p \in [1..n -> BranchIds] /\ n < Depth
    BY LenProperties, ElementOfSeq
  <2>2. n \in 0..(Depth - 1) /\ p \in Paths(n)
    BY <2>1, TreesAssumption DEF Paths
  <2> QED
    BY <2>2 DEF Nodes
<1>2. kids[p] \in SlotLists
  BY <1>1 DEF TreesTypeOK
<1>3. PICK n \in 0..MaxKids : kids[p] \in [1..n -> BranchIds \cup {Hole}]
  BY <1>2 DEF SlotLists
<1>4. kids[p] \in Seq(BranchIds \cup {Hole}) /\ DOMAIN kids[p] = 1..Len(kids[p])
  <2>1. n \in Nat
    BY <1>3, TreesAssumption
  <2> QED
    BY <1>3, <2>1
<1>5. \A i, j \in DOMAIN kids[p] : kids[p][i] = kids[p][j] /\ kids[p][i] # Hole => i = j
  BY <1>2 DEF SlotLists
<1> QED
  BY <1>4, <1>5

\* The values are on their level.
LEMMA ValuesOnLevel ==
    ASSUME TreesTypeOK, NEW p \in has
    PROVE  OnLevel(p) /\ p # Nothing
<1>1. PICK T \in Nat : T = target
  BY TreesAssumption DEF TreesTypeOK
<1>2. p \in [1..T -> BranchIds] /\ There(kids, p)
  BY <1>1 DEF TreesTypeOK, Level, Paths
<1>3. p \in Seq(BranchIds) /\ Len(p) = T /\ DOMAIN p = 1..T
  BY <1>2
<1>4. ASSUME p = Nothing PROVE FALSE
  <2>1. T = 1 /\ p[1] = -2
    BY <1>3, <1>4 DEF Nothing
  <2>2. p[1] \in BranchIds
    BY <1>2, <2>1
  <2>3. p[1] \in Nat
    BY <2>2, TreesAssumption
  <2> QED
    BY <2>1, <2>3
<1> QED
  BY <1>1, <1>2, <1>3, <1>4 DEF OnLevel, There, Pre

\* The slot of the walk on the way to p, if it is not before that, is the one that leads
\* to p, when it is on a node above p and holds p's id.
LEMMA PassedMeans ==
    ASSUME TreesTypeOK, NEW p, OnLevel(p), NEW i \in 1..target, NEW j \in Nat,
           j \in DOMAIN kids[Pre(p, i - 1)], kids[Pre(p, i - 1)][j] = p[i], NEW n \in Nat
    PROVE  (\E k \in DOMAIN kids[Pre(p, i - 1)] : k < n /\ kids[Pre(p, i - 1)][k] = p[i]) <=> j < n
<1>1. PICK T \in Nat : T = target /\ T <= Depth
  BY TreesAssumption DEF TreesTypeOK
<1>2. p \in Seq(BranchIds) /\ Len(p) = T
  BY <1>1 DEF OnLevel
<1>3. i - 1 \in 0..Len(p) /\ i - 1 < Depth /\ i \in 1..Len(p)
  BY <1>1, <1>2, TreesAssumption
<1>4. PICK q \in Seq(BranchIds) : q = Pre(p, i - 1) /\ Len(q) < Depth
  BY <1>2, <1>3, PathPrefix
<1>5. p[i] \in BranchIds /\ p[i] # Hole
  <2>1. p[i] \in BranchIds
    BY <1>2, <1>3, ElementOfSeq
  <2>2. p[i] \in Nat
    BY <2>1, TreesAssumption
  <2> QED
    BY <2>1, <2>2 DEF Hole
<1>6. \A k \in DOMAIN kids[q] : kids[q][k] = p[i] => k = j
  BY <1>4, <1>5, SlotsDiffer
<1> QED
  BY <1>4, <1>6

\* The slot on top moves on.
LEMMA AdvancedIs ==
    ASSUME NEW s \in Seq(Spot)
    PROVE  /\ Advanced(s) \in Seq(Spot) /\ Len(Advanced(s)) = Len(s)
           /\ \A i \in 1..Len(s) :
                 /\ Advanced(s)[i].node = s[i].node
                 /\ Advanced(s)[i].slot = IF i = Len(s) THEN s[i].slot + 1 ELSE s[i].slot
<1>1. PICK n \in Nat : n = Len(s) /\ DOMAIN s = 1..n
  BY LenProperties
<1>2. CASE s = <<>>
  BY <1>2 DEF Advanced
<1>3. CASE s # <<>>
  <2>1. n \in 1..n /\ s[n] \in Spot /\ \A i \in 1..n : s[i] \in Spot
    <3>1. n # 0
      BY <1>1, <1>3, EmptySeq
    <3> QED
      BY <1>1, <3>1, ElementOfSeq
  <2>2. PICK x \in Spot : x = [s[n] EXCEPT !.slot = @ + 1] /\ x.node = s[n].node /\ x.slot = s[n].slot + 1
    <3>1. PICK b \in Seq(BranchIds), m \in Nat \ {0} : s[n] = [node |-> b, slot |-> m]
      BY <2>1 DEF Spot
    <3>2. [s[n] EXCEPT !.slot = @ + 1] = [node |-> b, slot |-> m + 1]
      BY <3>1
    <3>3. [node |-> b, slot |-> m + 1] \in Spot
      BY DEF Spot
    <3> QED
      BY <3>1, <3>2, <3>3
  <2>3. Advanced(s) = [i \in 1..n |-> IF i = n THEN x ELSE s[i]]
    BY <1>1, <1>3, <2>1, <2>2 DEF Advanced
  <2>4. PICK u : u = Advanced(s)
    OBVIOUS
  <2>5. u \in [1..n -> Spot]
    BY <2>1, <2>2, <2>3, <2>4
  <2>6. u \in Seq(Spot) /\ Len(u) = n
    BY <2>5
  <2>7. \A i \in 1..n : u[i] = IF i = n THEN x ELSE s[i]
    BY <2>3, <2>4
  <2> QED
    BY <1>1, <2>2, <2>4, <2>6, <2>7
<1> QED
  BY <1>2, <1>3

\* pop(): one node less, and the slot above moves on.
LEMMA PoppedIs ==
    ASSUME NEW s \in Seq(Spot), s # <<>>
    PROVE  /\ Popped(s) \in Seq(Spot) /\ Len(Popped(s)) = Len(s) - 1
           /\ \A i \in 1..(Len(s) - 1) :
                 /\ Popped(s)[i].node = s[i].node
                 /\ Popped(s)[i].slot = IF i = Len(s) - 1 THEN s[i].slot + 1 ELSE s[i].slot
<1>1. PICK n \in Nat : n = Len(s) /\ n # 0
  BY LenProperties, EmptySeq
<1>2. n - 1 \in 0..Len(s)
  BY <1>1
<1>3. PICK f \in Seq(Spot) : f = Front(s) /\ Len(f) = n - 1 /\ \A i \in 1..(n - 1) : f[i] = s[i]
  <2>1. Front(s) = Pre(s, n - 1)
    BY <1>1 DEF Front, Pre
  <2>2. /\ Pre(s, n - 1) \in Seq(Spot) /\ Len(Pre(s, n - 1)) = n - 1
        /\ \A i \in 1..(n - 1) : Pre(s, n - 1)[i] = s[i]
    BY <1>2, PathPrefix
  <2> QED
    BY <2>1, <2>2
<1>4. Popped(s) = Advanced(f)
  BY <1>3 DEF Popped
<1>5. /\ Advanced(f) \in Seq(Spot) /\ Len(Advanced(f)) = n - 1
      /\ \A i \in 1..(n - 1) :
            /\ Advanced(f)[i].node = f[i].node
            /\ Advanced(f)[i].slot = IF i = n - 1 THEN f[i].slot + 1 ELSE f[i].slot
  BY <1>3, AdvancedIs
<1> QED
  BY <1>1, <1>3, <1>4, <1>5

\* The node on top.
LEMMA TopIs ==
    ASSUME NEW s \in Seq(Spot), s # <<>>, NEW t, LeadsTo(s, t)
    PROVE  /\ Last(s) = s[Len(s)] /\ Len(s) \in Nat \ {0} /\ s[Len(s)] \in Spot
           /\ s[Len(s)].node = t /\ s[Len(s)].slot \in Nat \ {0}
           /\ t \in Seq(BranchIds) /\ Len(t) = Len(s) - 1
<1>1. PICK n \in Nat : n = Len(s) /\ n # 0 /\ n \in 1..n
  BY LenProperties, EmptySeq
<1>2. s[n] \in Spot
  BY <1>1, ElementOfSeq
<1>3. t \in Seq(BranchIds) /\ Len(t) = n - 1 /\ s[n].node = Pre(t, n - 1)
  <2>1. t \in Seq(BranchIds) /\ Len(s) = Len(t) + 1 /\ Len(t) \in Nat
    BY LenProperties DEF LeadsTo
  <2> QED
    BY <1>1, <2>1 DEF LeadsTo
<1>4. Pre(t, n - 1) = t
  <2>1. 0 \in 0..Len(t)
    BY <1>1, <1>3
  <2> QED
    BY <1>3, <2>1, PrefixOfPrefix
<1> QED
  BY <1>1, <1>2, <1>3, <1>4 DEF Last, Spot

\* Popping node t passes what is under t, and nothing else.
LEMMA PopPasses ==
    ASSUME TreesTypeOK, NEW s \in Seq(Spot), s # <<>>, Len(s) <= target + 1, NEW t, LeadsTo(s, t),
           NEW p, OnLevel(p)
    PROVE  HasPassed(Popped(s), p) <=> HasPassed(s, p) \/ Under(p, t)
<1>1. PICK n \in Nat : /\ n = Len(s) /\ n # 0 /\ t \in Seq(BranchIds) /\ Len(t) = n - 1
                       /\ s[n].node = t
  BY TopIs
<1>2. PICK T \in Nat : T = target /\ n - 1 <= T /\ p \in Seq(BranchIds) /\ Len(p) = T
  BY <1>1, TreesAssumption DEF TreesTypeOK, OnLevel
<1>3. PICK u \in Seq(Spot) :
        /\ u = Popped(s) /\ Len(u) = n - 1
        /\ \A i \in 1..(n - 1) : /\ u[i].node = s[i].node
                                 /\ u[i].slot = IF i = n - 1 THEN s[i].slot + 1 ELSE s[i].slot
  BY <1>1, PoppedIs
<1>4. \A i \in 1..n : s[i].node = Pre(t, i - 1) /\ s[i].slot \in Nat
  <2>1. \A i \in 1..n : s[i] \in Spot
    BY <1>1, ElementOfSeq
  <2> QED
    BY <1>1, <2>1 DEF LeadsTo, Spot
<1>5. CASE n = 1
  <2>1. u = <<>>
    BY <1>3, <1>5, EmptySeq
  <2>2. t = <<>>
    BY <1>1, <1>5, EmptySeq
  <2>3. Under(p, t)
    <3>1. 0 \in 0..Len(p)
      BY <1>2
    <3>2. Pre(p, 0) \in Seq(BranchIds) /\ Len(Pre(p, 0)) = 0
      BY <1>2, <3>1, PathPrefix
    <3>3. Pre(p, 0) = <<>> /\ Len(t) = 0 /\ 0 <= Len(p)
      BY <1>1, <1>2, <1>5, <3>2, EmptySeq
    <3> QED
      BY <2>2, <3>3 DEF Under
  <2> QED
    BY <1>3, <2>1, <2>3 DEF HasPassed
<1>6. CASE n # 1
  <2>1. u # <<>> /\ s # <<>> /\ n - 1 \in 1..n /\ n - 1 \in 1..(n - 1) /\ n - 1 \in 1..T
    BY <1>1, <1>2, <1>3, <1>6, EmptySeq
  <2>2. PICK j \in Nat : j = s[n - 1].slot /\ j \in DOMAIN kids[Pre(t, n - 2)] /\ kids[Pre(t, n - 2)][j] = t[n - 1]
    <3>1. n - 1 \in 1..Len(t) /\ (n - 1) - 1 = n - 2
      BY <1>1, <2>1
    <3> QED
      BY <1>4, <2>1, <3>1 DEF LeadsTo
  <2>3. ASSUME NEW i \in 1..(n - 1), i <= T, i # n - 1
        PROVE  PassedAt(u, p, i) <=> PassedAt(s, p, i)
    BY <1>3, <2>3 DEF PassedAt
  \* On the way to t, the slot that was taken is passed now.
  <2>4. Under(p, t) => PassedAt(u, p, n - 1)
    <3> SUFFICES ASSUME Under(p, t) PROVE PassedAt(u, p, n - 1)
      OBVIOUS
    <3>1. Pre(p, n - 1) = t /\ n - 1 \in 0..Len(p)
      BY <1>1, <1>2, <2>1 DEF Under
    <3>2. Pre(t, n - 2) = Pre(p, n - 2)
      <4>1. n - 2 \in 0..(n - 1)
        BY <2>1
      <4> QED
        BY <1>2, <3>1, <4>1, PrefixOfPrefix
    <3>3. t[n - 1] = p[n - 1]
      <4>1. n - 1 \in 1..(n - 1)
        BY <2>1
      <4> QED
        BY <1>2, <3>1, <4>1, PathPrefix
    <3>4. u[n - 1].node = Pre(p, n - 2) /\ u[n - 1].slot = j + 1 /\ j < j + 1
      <4>1. (n - 1) - 1 = n - 2
        BY <2>1
      <4> QED
        BY <1>3, <1>4, <2>1, <2>2, <3>2, <4>1
    <3>5. j \in DOMAIN kids[Pre(p, n - 2)] /\ kids[Pre(p, n - 2)][j] = p[n - 1]
      BY <2>2, <3>2, <3>3
    <3>6. (n - 1) - 1 = n - 2
      BY <2>1
    <3> QED
      BY <3>4, <3>5, <3>6 DEF PassedAt
  <2>5. PassedAt(u, p, n - 1) => PassedAt(s, p, n - 1) \/ Under(p, t)
    <3> SUFFICES ASSUME PassedAt(u, p, n - 1) PROVE PassedAt(s, p, n - 1) \/ Under(p, t)
      OBVIOUS
    <3>1. (n - 1) - 1 = n - 2 /\ n - 2 \in Nat /\ n - 2 \in 0..Len(p) /\ n - 2 \in 0..Len(t) /\ n - 2 < Len(t)
      BY <1>1, <1>2, <2>1
    <3>2. u[n - 1].node = Pre(p, n - 2) /\ u[n - 1].node = Pre(t, n - 2) /\ u[n - 1].slot = j + 1
      BY <1>3, <1>4, <2>1, <2>2, <3>1 DEF PassedAt
    <3>3. PICK k \in DOMAIN kids[Pre(p, n - 2)] : k < j + 1 /\ kids[Pre(p, n - 2)][k] = p[n - 1]
      BY <3>1, <3>2 DEF PassedAt
    <3>4. k \in Nat
      <4>1. n - 2 < Depth
        BY <1>2, <2>1, TreesAssumption DEF TreesTypeOK
      <4>2. PICK q \in Seq(BranchIds) : q = Pre(p, n - 2) /\ Len(q) = n - 2
        BY <1>2, <3>1, PathPrefix
      <4>3. DOMAIN kids[q] = 1..Len(kids[q]) /\ kids[q] \in Seq(BranchIds \cup {Hole})
        BY <4>1, <4>2, SlotsDiffer
      <4> QED
        BY <3>3, <4>2, <4>3, LenProperties
    <3>5. CASE k < j
      <4>1. s[n - 1].node = Pre(p, n - 2) /\ s[n - 1].slot = j
        BY <1>3, <2>1, <2>2, <3>2
      <4> QED
        BY <3>1, <3>3, <3>5, <4>1 DEF PassedAt
    <3>6. CASE k = j
      <4>1. p[n - 1] = t[n - 1]
        BY <2>2, <3>2, <3>3, <3>6
      <4>2. (n - 2) + 1 = n - 1 /\ n - 2 < Len(p)
        BY <1>2, <2>1
      <4>3. Pre(p, n - 1) = Append(Pre(p, n - 2), p[n - 1])
        BY <1>2, <3>1, <4>2, PrefixOfPrefix
      <4>4. Pre(t, n - 1) = Append(Pre(t, n - 2), t[n - 1]) /\ Pre(t, n - 1) = t
        BY <1>1, <3>1, <4>2, PrefixOfPrefix
      <4>5. Pre(p, n - 1) = t
        BY <3>2, <4>1, <4>3, <4>4
      <4> QED
        BY <1>1, <1>2, <4>5 DEF Under
    <3> QED
      BY <2>2, <3>3, <3>4, <3>5, <3>6
  <2>6. PassedAt(s, p, n - 1) => PassedAt(u, p, n - 1)
    <3> SUFFICES ASSUME PassedAt(s, p, n - 1) PROVE PassedAt(u, p, n - 1)
      OBVIOUS
    <3>1. PICK k \in DOMAIN kids[Pre(p, (n - 1) - 1)] : k < j /\ kids[Pre(p, (n - 1) - 1)][k] = p[n - 1]
      BY <2>2 DEF PassedAt
    <3>2. k < j + 1
      <4>1. n - 2 < Depth /\ n - 2 \in 0..Len(p) /\ (n - 1) - 1 = n - 2
        BY <1>2, <2>1, TreesAssumption DEF TreesTypeOK
      <4>2. PICK q \in Seq(BranchIds) : q = Pre(p, n - 2) /\ Len(q) = n - 2
        BY <1>2, <4>1, PathPrefix
      <4>3. DOMAIN kids[q] = 1..Len(kids[q]) /\ kids[q] \in Seq(BranchIds \cup {Hole})
        BY <4>1, <4>2, SlotsDiffer
      <4>4. k \in Nat
        BY <3>1, <4>1, <4>2, <4>3, LenProperties
      <4> QED
        BY <2>2, <3>1, <4>4
    <3> QED
      BY <1>3, <2>1, <2>2, <3>1, <3>2 DEF PassedAt
  <2>7. n <= T /\ PassedAt(s, p, n) => Under(p, t)
    BY <1>1, <1>2 DEF PassedAt, Under
  <2>8. HasPassed(u, p) <=> \E i \in 1..(n - 1) : PassedAt(u, p, i)
    BY <1>2, <1>3, <2>1 DEF HasPassed
  <2>9. HasPassed(s, p) <=> \E i \in 1..n : i <= T /\ PassedAt(s, p, i)
    BY <1>1, <1>2, <2>1 DEF HasPassed
  <2>10. ASSUME NEW i \in 1..(n - 1), PassedAt(u, p, i) PROVE HasPassed(s, p) \/ Under(p, t)
    <3>1. i <= T /\ i \in 1..n
      BY <1>2
    <3>2. CASE i = n - 1
      BY <2>5, <2>9, <2>10, <3>1, <3>2
    <3>3. CASE i # n - 1
      BY <2>3, <2>9, <2>10, <3>1, <3>3
    <3> QED
      BY <3>2, <3>3
  <2>11. ASSUME NEW i \in 1..n, i <= T, PassedAt(s, p, i) PROVE HasPassed(u, p)
    <3>1. CASE i = n
      BY <2>1, <2>4, <2>7, <2>8, <2>11, <3>1
    <3>2. CASE i = n - 1
      BY <2>1, <2>6, <2>8, <2>11, <3>2
    <3>3. CASE i # n /\ i # n - 1
      <4>1. i \in 1..(n - 1)
        BY <3>3
      <4> QED
        BY <2>3, <2>8, <2>11, <3>3, <4>1
    <3> QED
      BY <3>1, <3>2, <3>3
  <2>12. Under(p, t) => HasPassed(u, p)
    BY <2>1, <2>4, <2>8
  <2> QED
    BY <1>3, <2>8, <2>9, <2>10, <2>11, <2>12
<1> QED
  BY <1>5, <1>6

\* Going over a hole passes nothing.
LEMMA HolePasses ==
    ASSUME TreesTypeOK, NEW s \in Seq(Spot), s # <<>>, Len(s) <= target, NEW t, LeadsTo(s, t),
           s[Len(s)].slot \in DOMAIN kids[t], kids[t][s[Len(s)].slot] = Hole, NEW p, OnLevel(p)
    PROVE  HasPassed(Advanced(s), p) <=> HasPassed(s, p)
<1>1. PICK n \in Nat : /\ n = Len(s) /\ n # 0 /\ t \in Seq(BranchIds) /\ Len(t) = n - 1
                       /\ s[n].node = t /\ s[n].slot \in Nat
  BY TopIs
<1>2. PICK T \in Nat : T = target /\ n <= T /\ p \in Seq(BranchIds) /\ Len(p) = T /\ T <= Depth
  BY <1>1, TreesAssumption DEF TreesTypeOK, OnLevel
<1>3. PICK u \in Seq(Spot) :
        /\ u = Advanced(s) /\ Len(u) = n
        /\ \A i \in 1..n : /\ u[i].node = s[i].node
                           /\ u[i].slot = IF i = n THEN s[i].slot + 1 ELSE s[i].slot
  BY <1>1, AdvancedIs
<1>4. \A i \in 1..n : i # n => (PassedAt(u, p, i) <=> PassedAt(s, p, i))
  BY <1>3 DEF PassedAt
<1>5. PassedAt(u, p, n) <=> PassedAt(s, p, n)
  <2>1. n \in 1..n /\ n \in 1..Len(p) /\ n - 1 \in 0..Len(p) /\ n - 1 < Depth
    BY <1>1, <1>2, TreesAssumption
  <2>2. u[n].node = s[n].node /\ u[n].slot = s[n].slot + 1
    BY <1>3, <2>1
  <2>3. \A k \in DOMAIN kids[t] : k \in Nat
    <3>1. DOMAIN kids[t] = 1..Len(kids[t]) /\ kids[t] \in Seq(BranchIds \cup {Hole})
      BY <1>1, <2>1, SlotsDiffer
    <3> QED
      BY <3>1, LenProperties
  <2>4. p[n] # Hole
    <3>1. p[n] \in BranchIds
      BY <1>2, <2>1, ElementOfSeq
    <3>2. p[n] \in Nat
      BY <3>1, TreesAssumption
    <3> QED
      BY <3>2 DEF Hole
  <2>5. \A k \in DOMAIN kids[t] : kids[t][k] = p[n] => (k < s[n].slot <=> k < s[n].slot + 1)
    <3> SUFFICES ASSUME NEW k \in DOMAIN kids[t], kids[t][k] = p[n]
                 PROVE  k < s[n].slot <=> k < s[n].slot + 1
      OBVIOUS
    <3>1. k # s[n].slot
      BY <1>1, <2>4
    <3> QED
      BY <1>1, <2>3, <3>1
  <2>6. CASE Pre(p, n - 1) = t
    BY <1>1, <2>2, <2>5, <2>6 DEF PassedAt
  <2>7. CASE Pre(p, n - 1) # t
    BY <1>1, <2>2, <2>7 DEF PassedAt
  <2> QED
    BY <2>6, <2>7
<1>6. \A i \in 1..n : PassedAt(u, p, i) <=> PassedAt(s, p, i)
  BY <1>4, <1>5
<1>7. u # <<>> /\ s # <<>>
  BY <1>1, <1>3, EmptySeq
<1> QED
  BY <1>1, <1>3, <1>6, <1>7 DEF HasPassed

\* Neither does going down a branch.
LEMMA BranchPasses ==
    ASSUME TreesTypeOK, NEW s \in Seq(Spot), s # <<>>, Len(s) <= target, NEW p, OnLevel(p),
           NEW b \in Seq(BranchIds)
    PROVE  HasPassed(Append(s, [node |-> b, slot |-> 1]), p) <=> HasPassed(s, p)
<1>1. PICK n \in Nat : n = Len(s) /\ n # 0
  BY LenProperties, EmptySeq
<1>2. PICK T \in Nat : T = target /\ n <= T /\ p \in Seq(BranchIds) /\ Len(p) = T /\ T <= Depth
  BY <1>1, TreesAssumption DEF TreesTypeOK, OnLevel
<1>3. PICK x : x = [node |-> b, slot |-> 1] /\ x \in Spot /\ x.slot = 1
  <2>1. [node |-> b, slot |-> 1] \in Spot
    BY DEF Spot
  <2> QED
    BY <2>1
<1>4. PICK u \in Seq(Spot) : u = Append(s, x) /\ Len(u) = n + 1 /\ u[n + 1] = x
                             /\ \A i \in 1..n : u[i] = s[i]
  <2>1. /\ Append(s, x) \in Seq(Spot) /\ Len(Append(s, x)) = Len(s) + 1
        /\ Append(s, x)[Len(s) + 1] = x /\ \A k \in 1..Len(s) : Append(s, x)[k] = s[k]
    BY <1>3, AppendProperties
  <2> QED
    BY <1>1, <2>1
<1>5. \A i \in 1..n : PassedAt(u, p, i) <=> PassedAt(s, p, i)
  BY <1>4 DEF PassedAt
<1>6. ASSUME n + 1 <= T, PassedAt(u, p, n + 1) PROVE FALSE
  <2>1. (n + 1) - 1 = n /\ n \in 0..Len(p) /\ n < Depth
    BY <1>2, <1>6, TreesAssumption
  <2>2. PICK q \in Seq(BranchIds) : q = Pre(p, n) /\ Len(q) = n
    BY <1>2, <2>1, PathPrefix
  <2>3. PICK k \in DOMAIN kids[q] : k < 1
    BY <1>3, <1>4, <1>6, <2>1, <2>2 DEF PassedAt
  <2>4. DOMAIN kids[q] = 1..Len(kids[q]) /\ kids[q] \in Seq(BranchIds \cup {Hole})
    BY <2>1, <2>2, SlotsDiffer
  <2> QED
    BY <2>3, <2>4, LenProperties
<1>7. u # <<>> /\ s # <<>>
  BY <1>1, <1>4, EmptySeq
<1>8. HasPassed(u, p) <=> \E i \in 1..(n + 1) : i <= T /\ PassedAt(u, p, i)
  BY <1>2, <1>4, <1>7 DEF HasPassed
<1>9. HasPassed(s, p) <=> \E i \in 1..n : i <= T /\ PassedAt(s, p, i)
  BY <1>1, <1>2, <1>7 DEF HasPassed
<1>10. \A i \in 1..(n + 1) : i \in 1..n \/ i = n + 1
  OBVIOUS
<1>11. \A i \in 1..n : i \in 1..(n + 1)
  OBVIOUS
<1> QED
  BY <1>3, <1>4, <1>5, <1>6, <1>8, <1>9, <1>10, <1>11

\* A node without a slot left has passed all that is under it.
LEMMA NodePassed ==
    ASSUME TreesTypeOK, NEW s \in Seq(Spot), s # <<>>, Len(s) <= target, NEW t, LeadsTo(s, t),
           s[Len(s)].slot > Len(kids[t]), NEW p, OnLevel(p), Under(p, t)
    PROVE  HasPassed(s, p)
<1>1. PICK n \in Nat : /\ n = Len(s) /\ n # 0 /\ t \in Seq(BranchIds) /\ Len(t) = n - 1
                       /\ s[n].node = t /\ s[n].slot \in Nat
  BY TopIs
<1>2. PICK T \in Nat : T = target /\ n <= T /\ p \in Seq(BranchIds) /\ Len(p) = T /\ T <= Depth
  BY <1>1, TreesAssumption DEF TreesTypeOK, OnLevel
<1>3. n \in 1..T /\ n \in 1..n /\ n - 1 < Depth
  BY <1>1, <1>2, TreesAssumption
<1>4. Pre(p, n - 1) = t
  BY <1>1 DEF Under
<1>5. PICK k \in DOMAIN kids[t] : kids[t][k] = p[n]
  BY <1>2, <1>3, <1>4 DEF OnLevel
<1>6. k < s[n].slot
  <2>1. PICK m \in Nat : m = Len(kids[t]) /\ DOMAIN kids[t] = 1..m
    <3>1. DOMAIN kids[t] = 1..Len(kids[t]) /\ kids[t] \in Seq(BranchIds \cup {Hole})
      BY <1>1, <1>3, SlotsDiffer
    <3> QED
      BY <3>1, LenProperties
  <2> QED
    BY <1>1, <1>5, <2>1
<1>7. PassedAt(s, p, n)
  BY <1>1, <1>4, <1>5, <1>6 DEF PassedAt
<1> QED
  BY <1>1, <1>2, <1>3, <1>7 DEF HasPassed

\* A value that the walk stands on is not passed yet.
LEMMA NotPassedYet ==
    ASSUME TreesTypeOK, NEW s \in Seq(Spot), s # <<>>, Len(s) = target + 1, NEW t, LeadsTo(s, t),
           t \in has
    PROVE  ~HasPassed(s, t)
<1>1. PICK n \in Nat : n = Len(s) /\ n # 0
  BY LenProperties, EmptySeq
<1>2. OnLevel(t)
  BY ValuesOnLevel
<1>3. PICK T \in Nat : T = target /\ n = T + 1 /\ t \in Seq(BranchIds) /\ Len(t) = T
  BY <1>1, <1>2, TreesAssumption DEF TreesTypeOK, OnLevel
<1>4. ASSUME NEW i \in 1..n, i <= T, PassedAt(s, t, i) PROVE FALSE
  <2>1. i \in 1..target /\ i \in 1..Len(t)
    BY <1>3, <1>4
  <2>2. PICK j \in Nat : j = s[i].slot /\ j \in DOMAIN kids[Pre(t, i - 1)] /\ kids[Pre(t, i - 1)][j] = t[i]
    <3>1. s[i] \in Spot
      BY <1>1, ElementOfSeq
    <3> QED
      BY <2>1, <3>1 DEF LeadsTo, Spot
  <2>3. \E k \in DOMAIN kids[Pre(t, i - 1)] : k < j /\ kids[Pre(t, i - 1)][k] = t[i]
    BY <1>4, <2>2 DEF PassedAt
  <2>4. j < j
    BY <1>2, <2>1, <2>2, <2>3, PassedMeans
  <2> QED
    BY <2>4
<1> QED
  BY <1>1, <1>3, <1>4 DEF HasPassed

-----------------------------------------------------------------------------
\* How the walk goes on.
LEMMA HoleWalk ==
    ASSUME NEW s \in Seq(Spot), s # <<>>, NEW t, LeadsTo(s, t)
    PROVE  LeadsTo(Advanced(s), t)
<1>1. PICK n \in Nat : n = Len(s) /\ t \in Seq(BranchIds) /\ Len(t) = n - 1
  BY TopIs
<1>2. /\ Len(Advanced(s)) = n
      /\ \A i \in 1..n : /\ Advanced(s)[i].node = s[i].node
                         /\ i # n => Advanced(s)[i].slot = s[i].slot
  BY <1>1, AdvancedIs
<1>3. \A i \in 1..(n - 1) : i \in 1..n /\ i # n
  BY <1>1
<1> QED
  BY <1>1, <1>2, <1>3 DEF LeadsTo

LEMMA PopWalk ==
    ASSUME TreesTypeOK, NEW s \in Seq(Spot), Walk(s), s # <<>>
    PROVE  Walk(Popped(s))
<1>1. PICK t : LeadsTo(s, t)
  BY DEF Walk
<1>2. PICK n \in Nat : n = Len(s) /\ n # 0 /\ t \in Seq(BranchIds) /\ Len(t) = n - 1
  BY <1>1, TopIs
<1>3. PICK u \in Seq(Spot) :
        /\ u = Popped(s) /\ Len(u) = n - 1
        /\ \A i \in 1..(n - 1) : /\ u[i].node = s[i].node
                                 /\ i # n - 1 => u[i].slot = s[i].slot
  BY <1>2, PoppedIs
<1>4. CASE n = 1
  BY <1>3, <1>4, EmptySeq DEF Walk
<1>5. CASE n # 1
  <2>1. n - 2 \in 0..Len(t) /\ \A i \in 1..(n - 1) : i \in 1..n /\ i - 1 \in 0..(n - 2)
    BY <1>2, <1>5
  <2>2. PICK q \in Seq(BranchIds) : q = Pre(t, n - 2) /\ Len(q) = n - 2 /\ \A k \in 1..(n - 2) : q[k] = t[k]
    <3>1. /\ Pre(t, n - 2) \in Seq(BranchIds) /\ Len(Pre(t, n - 2)) = n - 2
          /\ \A k \in 1..(n - 2) : Pre(t, n - 2)[k] = t[k]
      BY <1>2, <2>1, PathPrefix
    <3> QED
      BY <3>1
  <2>3. \A i \in 1..(n - 1) : Pre(q, i - 1) = Pre(t, i - 1)
    BY <1>2, <2>1, <2>2, PrefixOfPrefix
  <2>4. \A i \in 1..(n - 1) : u[i].node = Pre(q, i - 1)
    BY <1>1, <1>2, <1>3, <2>1, <2>3 DEF LeadsTo
  <2>5. ASSUME NEW i \in 1..(n - 2)
        PROVE  /\ u[i].slot \in DOMAIN kids[Pre(q, i - 1)]
               /\ kids[Pre(q, i - 1)][u[i].slot] = q[i]
    <3>1. i \in 1..(n - 1) /\ i \in 1..Len(t) /\ i # n - 1
      BY <1>2
    <3> QED
      BY <1>1, <1>3, <2>2, <2>3, <3>1 DEF LeadsTo
  <2>6. LeadsTo(u, q)
    BY <1>2, <1>3, <2>2, <2>4, <2>5 DEF LeadsTo
  <2>7. Len(u) <= target + 1
    <3>1. target \in Nat
      BY TreesAssumption DEF TreesTypeOK
    <3> QED
      BY <1>2, <1>3, <3>1 DEF Walk
  <2> QED
    BY <1>3, <2>6, <2>7 DEF Walk
<1> QED
  BY <1>4, <1>5

LEMMA BranchWalk ==
    ASSUME NEW s \in Seq(Spot), s # <<>>, NEW t, LeadsTo(s, t), NEW b \in BranchIds,
           s[Len(s)].slot \in DOMAIN kids[t], kids[t][s[Len(s)].slot] = b
    PROVE  LeadsTo(Append(s, [node |-> Append(t, b), slot |-> 1]), Append(t, b))
<1>1. PICK n \in Nat : /\ n = Len(s) /\ n # 0 /\ t \in Seq(BranchIds) /\ Len(t) = n - 1
                       /\ s[n].node = t
  BY TopIs
<1>2. PICK q \in Seq(BranchIds) : /\ q = Append(t, b) /\ Len(q) = n /\ q[n] = b
                                  /\ \A i \in 0..(n - 1) : Pre(q, i) = Pre(t, i)
                                  /\ \A i \in 1..(n - 1) : q[i] = t[i]
  <2>1. /\ Append(t, b) \in Seq(BranchIds) /\ Len(Append(t, b)) = Len(t) + 1
        /\ Append(t, b)[Len(t) + 1] = b
        /\ \A i \in 0..Len(t) : Pre(Append(t, b), i) = Pre(t, i)
    BY <1>1, PrefixOfLonger
  <2>2. \A i \in 1..Len(t) : Append(t, b)[i] = t[i]
    BY <1>1, AppendProperties
  <2>3. Len(t) + 1 = n
    BY <1>1
  <2> QED
    BY <1>1, <2>1, <2>2, <2>3
<1>3. PICK x \in Spot : x = [node |-> q, slot |-> 1] /\ x.node = q
  <2>1. [node |-> q, slot |-> 1] \in Spot
    BY DEF Spot
  <2> QED
    BY <2>1
<1>4. PICK u : u = Append(s, x) /\ Len(u) = n + 1 /\ u[n + 1] = x /\ \A i \in 1..n : u[i] = s[i]
  <2>1. /\ Append(s, x) \in Seq(Spot) /\ Len(Append(s, x)) = Len(s) + 1
        /\ Append(s, x)[Len(s) + 1] = x /\ \A k \in 1..Len(s) : Append(s, x)[k] = s[k]
    BY AppendProperties
  <2> QED
    BY <1>1, <2>1
<1>5. Pre(q, n) = q
  <2>1. 0 \in 0..Len(q)
    BY <1>1, <1>2
  <2> QED
    BY <1>2, <2>1, PrefixOfPrefix
<1>6. Pre(q, n - 1) = t
  <2>1. 0 \in 0..Len(t) /\ n - 1 \in 0..(n - 1)
    BY <1>1
  <2>2. Pre(t, n - 1) = t
    BY <1>1, <2>1, PrefixOfPrefix
  <2> QED
    BY <1>2, <2>1, <2>2
<1>7. ASSUME NEW i \in 1..(n + 1) PROVE u[i].node = Pre(q, i - 1)
  <2>1. CASE i = n + 1
    <3>1. i - 1 = n
      BY <2>1
    <3> QED
      BY <1>3, <1>4, <1>5, <2>1, <3>1
  <2>2. CASE i # n + 1
    <3>1. i \in 1..n /\ i - 1 \in 0..(n - 1)
      BY <1>1, <2>2
    <3> QED
      BY <1>1, <1>2, <1>4, <3>1 DEF LeadsTo
  <2> QED
    BY <2>1, <2>2
<1>8. ASSUME NEW i \in 1..n
      PROVE  /\ u[i].slot \in DOMAIN kids[Pre(q, i - 1)]
             /\ kids[Pre(q, i - 1)][u[i].slot] = q[i]
  <2>1. CASE i = n
    BY <1>1, <1>2, <1>4, <1>6, <2>1
  <2>2. CASE i # n
    <3>1. i \in 1..(n - 1) /\ i \in 1..Len(t) /\ i - 1 \in 0..(n - 1)
      BY <1>1, <2>2
    <3> QED
      BY <1>2, <1>4, <3>1 DEF LeadsTo
  <2> QED
    BY <2>1, <2>2
<1>9. LeadsTo(u, q)
  BY <1>2, <1>4, <1>7, <1>8 DEF LeadsTo
<1> QED
  BY <1>2, <1>3, <1>4, <1>9

-----------------------------------------------------------------------------
\* The walk: what it has found, and where it is.
WalkInv == TreesTypeOK /\ Walk(stack) /\ FoundPassed

LEMMA SameTree ==
    ASSUME kids' = kids, target' = target, has' = has
    PROVE  /\ PassedValues' = {p \in has : HasPassed(stack', p)}
           /\ Walk(stack)' <=> Walk(stack')
<1>1. PassedValues' = {p \in has : HasPassed(stack', p)}
  BY DEF PassedValues, HasPassed, PassedAt
<1>2. Walk(stack)' <=> Walk(stack')
  BY DEF Walk, LeadsTo
<1> QED
  BY <1>1, <1>2

\* A step that passes no value and finds none.
LEMMA FoundStays ==
    ASSUME FoundPassed, kids' = kids, target' = target, has' = has, found' = found,
           \A p \in has : HasPassed(stack', p) <=> HasPassed(stack, p)
    PROVE  FoundPassed'
<1>1. PassedValues' = PassedValues
  BY SameTree DEF PassedValues
<1> QED
  BY <1>1 DEF FoundPassed

LEMMA TypeStays ==
    ASSUME TreesTypeOK, kids' = kids, target' = target, has' = has,
           stack' \in Seq(Spot), index' \in Seq(BranchIds), found' \in Seq(FoundItems)
    PROVE  TreesTypeOK'
<1>1. Level(target)' = Level(target)
  BY DEF Level
<1>2. has' \in SUBSET Level(target)'
  BY <1>1 DEF TreesTypeOK
<1> QED
  BY <1>2 DEF TreesTypeOK

LEMMA DropLastIs ==
    ASSUME NEW s \in Seq(BranchIds)
    PROVE  DropLast(s) \in Seq(BranchIds)
<1>1. CASE s = <<>>
  BY <1>1 DEF DropLast
<1>2. CASE s # <<>>
  <2>1. PICK n \in Nat : n = Len(s) /\ n # 0
    BY <1>2, LenProperties, EmptySeq
  <2>2. n - 1 \in 0..Len(s)
    BY <2>1
  <2>3. DropLast(s) = Pre(s, n - 1)
    BY <1>2, <2>1 DEF DropLast, Front, Pre
  <2> QED
    BY <2>2, <2>3, PathPrefix
<1> QED
  BY <1>1, <1>2

LEMMA YieldStep ==
    ASSUME WalkInv, Yield
    PROVE  WalkInv'
<1>1. PICK s \in Seq(Spot) : s = stack /\ s # <<>> /\ Len(s) = target + 1 /\ Walk(s)
  BY DEF WalkInv, TreesTypeOK, Yield, AtTarget
<1>2. PICK t : LeadsTo(s, t)
  BY <1>1 DEF Walk
<1>3. PICK T \in Nat : T = target
  BY TreesAssumption DEF WalkInv, TreesTypeOK
<1>4. Top.node = t /\ t \in Seq(BranchIds) /\ Len(t) = T
  <2>1. Last(s) = s[Len(s)] /\ s[Len(s)].node = t /\ t \in Seq(BranchIds) /\ Len(t) = Len(s) - 1
    BY <1>1, <1>2, TopIs
  <2> QED
    BY <1>1, <1>3, <2>1 DEF Top
<1>5. \A p \in has : OnLevel(p) /\ p # Nothing
  BY ValuesOnLevel DEF WalkInv
<1>6. ASSUME NEW p \in has PROVE HasPassed(stack', p) <=> HasPassed(stack, p) \/ p = t
  <2>1. OnLevel(p) /\ Len(s) <= target + 1
    BY <1>1, <1>3, <1>5
  <2>2. HasPassed(Popped(s), p) <=> HasPassed(s, p) \/ Under(p, t)
    BY <1>1, <1>2, <2>1, PopPasses DEF WalkInv
  <2>3. Under(p, t) <=> p = t
    <3>1. p \in Seq(BranchIds) /\ Len(p) = T
      BY <1>3, <2>1 DEF OnLevel
    <3>2. 0 \in 0..Len(p)
      BY <3>1
    <3>3. Pre(p, Len(p)) = p
      BY <3>1, <3>2, PrefixOfPrefix
    <3> QED
      BY <1>4, <3>1, <3>3 DEF Under
  <2> QED
    BY <1>1, <2>2, <2>3 DEF Yield
<1>7. t \in has => ~HasPassed(stack, t)
  BY <1>1, <1>2, NotPassedYet DEF WalkInv
<1>8. PICK v : v = IF t \in has THEN t ELSE Nothing
  OBVIOUS
<1>9. PICK x \in FoundItems : found' = Append(found, x) /\ x.value = v
  <2>1. v \in Seq(Int)
    <3>1. Nothing \in Seq(Int)
      BY DEF Nothing
    <3>2. BranchIds \subseteq Int
      BY TreesAssumption
    <3>3. t \in Seq(Int)
      <4>1. t \in [1..T -> BranchIds]
        BY <1>4
      <4>2. t \in [1..T -> Int]
        BY <3>2, <4>1
      <4> QED
        BY <4>2
    <3> QED
      BY <1>8, <3>1, <3>3
  <2>2. index' \in Seq(BranchIds)
    BY DropLastIs DEF WalkInv, TreesTypeOK, Yield
  <2>3. found' = Append(found, [value |-> v, id |-> index'])
    BY <1>4, <1>8 DEF Yield
  <2>4. [value |-> v, id |-> index'] \in FoundItems
    BY <2>1, <2>2 DEF FoundItems
  <2> QED
    BY <2>3, <2>4
<1>10. PICK n \in Nat : n = Len(found)
  BY LenProperties DEF WalkInv, TreesTypeOK
<1>11. /\ found' \in Seq(FoundItems) /\ Len(found') = n + 1 /\ found'[n + 1] = x
       /\ \A k \in 1..n : found'[k] = found[k]
  BY <1>9, <1>10, AppendProperties DEF WalkInv, TreesTypeOK
<1>12. TreesTypeOK'
  <2>1. stack' \in Seq(Spot)
    BY <1>1, PoppedIs DEF Yield
  <2>2. index' \in Seq(BranchIds)
    BY DropLastIs DEF WalkInv, TreesTypeOK, Yield
  <2> QED
    BY <1>11, <2>1, <2>2, TypeStays DEF WalkInv, Yield
<1>13. Walk(stack)'
  <2>1. Walk(stack')
    BY <1>1, PopWalk DEF WalkInv, Yield
  <2> QED
    BY <2>1, SameTree DEF Yield
<1>14. FoundPassed'
  <2>1. /\ \A p \in PassedValues' : p \in PassedValues \/ (p = t /\ t \in has)
        /\ PassedValues \subseteq PassedValues' /\ (t \in has => t \in PassedValues')
    <3>1. PassedValues' = {p \in has : HasPassed(stack', p)}
      BY SameTree DEF Yield
    <3> QED
      BY <1>6, <3>1 DEF PassedValues
  <2>2. \A k \in 1..(n + 1) : k \in 1..n \/ k = n + 1
    OBVIOUS
  <2>3. n + 1 \in 1..(n + 1) /\ \A k \in 1..n : k \in 1..(n + 1)
    OBVIOUS
  <2>4. ASSUME NEW k \in 1..(n + 1)
        PROVE  found'[k].value \in PassedValues' \cup {Nothing}
    <3>1. CASE k \in 1..n
      BY <1>10, <1>11, <2>1, <3>1 DEF WalkInv, FoundPassed
    <3>2. CASE k = n + 1
      BY <1>8, <1>9, <1>11, <2>1, <3>2
    <3> QED
      BY <2>2, <3>1, <3>2
  <2>5. ASSUME NEW p \in PassedValues' PROVE \E k \in 1..(n + 1) : found'[k].value = p
    <3>1. CASE p = t
      <4>1. t \in has
        BY <2>1, <3>1 DEF PassedValues
      <4> QED
        BY <1>8, <1>9, <1>11, <2>3, <3>1, <4>1
    <3>2. CASE p # t
      <4>1. PICK k \in 1..n : found[k].value = p
        BY <1>10, <2>1, <2>5, <3>2 DEF WalkInv, FoundPassed
      <4> QED
        BY <1>11, <2>3, <4>1
    <3> QED
      BY <3>1, <3>2
  \* What was found before had been passed, and t had not been.
  <2>6. ASSUME NEW k \in 1..n PROVE found[k].value = v => v = Nothing
    <3>1. found[k].value \in PassedValues \cup {Nothing}
      BY <1>10 DEF WalkInv, FoundPassed
    <3> QED
      BY <1>7, <1>8, <3>1 DEF PassedValues
  <2>7. ASSUME NEW j \in 1..(n + 1), NEW k \in 1..(n + 1), j # k, found'[j].value = found'[k].value
        PROVE  found'[j].value = Nothing
    <3>1. CASE j \in 1..n /\ k \in 1..n
      BY <1>10, <1>11, <2>7, <3>1 DEF WalkInv, FoundPassed
    <3>2. CASE j \in 1..n /\ k = n + 1
      BY <1>9, <1>11, <2>6, <2>7, <3>2
    <3>3. CASE j = n + 1 /\ k \in 1..n
      BY <1>9, <1>11, <2>6, <2>7, <3>3
    <3> QED
      BY <2>2, <2>7, <3>1, <3>2, <3>3
  <2> QED
    BY <1>11, <2>1, <2>4, <2>5, <2>7 DEF FoundPassed
<1> QED
  BY <1>12, <1>13, <1>14 DEF WalkInv

LEMMA AscendStep ==
    ASSUME WalkInv, Ascend
    PROVE  WalkInv'
<1>1. PICK s \in Seq(Spot) : s = stack /\ s # <<>> /\ Walk(s)
  BY DEF WalkInv, TreesTypeOK, Ascend
<1>2. PICK t : LeadsTo(s, t) /\ Len(s) <= target + 1
  BY <1>1 DEF Walk
<1>3. PICK n \in Nat : n = Len(s) /\ Last(s) = s[n] /\ s[n].node = t
  BY <1>1, <1>2, TopIs
<1>4. Len(s) <= target /\ s[n].slot > Len(kids[t])
  <2>1. target \in Nat
    BY TreesAssumption DEF WalkInv, TreesTypeOK
  <2>2. Len(s) # target + 1
    BY <1>1 DEF Ascend, AtTarget
  <2> QED
    BY <1>1, <1>2, <1>3, <2>1, <2>2 DEF Ascend, Top
<1>5. ASSUME NEW p \in has PROVE HasPassed(stack', p) <=> HasPassed(stack, p)
  <2>1. OnLevel(p)
    BY ValuesOnLevel DEF WalkInv
  <2>2. HasPassed(Popped(s), p) <=> HasPassed(s, p) \/ Under(p, t)
    BY <1>1, <1>2, <2>1, PopPasses DEF WalkInv
  <2>3. Under(p, t) => HasPassed(s, p)
    BY <1>1, <1>2, <1>3, <1>4, <2>1, NodePassed DEF WalkInv
  <2> QED
    BY <1>1, <2>2, <2>3 DEF Ascend
<1>6. TreesTypeOK'
  <2>1. stack' \in Seq(Spot)
    BY <1>1, PoppedIs DEF Ascend
  <2>2. index' \in Seq(BranchIds)
    BY DropLastIs DEF WalkInv, TreesTypeOK, Ascend
  <2> QED
    BY <2>1, <2>2, TypeStays DEF WalkInv, TreesTypeOK, Ascend
<1>7. Walk(stack)'
  <2>1. Walk(stack')
    BY <1>1, PopWalk DEF WalkInv, Ascend
  <2> QED
    BY <2>1, SameTree DEF Ascend
<1>8. FoundPassed'
  BY <1>5, FoundStays DEF WalkInv, Ascend
<1> QED
  BY <1>6, <1>7, <1>8 DEF WalkInv

\* A slot of the node on top.
LEMMA SlotOnTop ==
    ASSUME WalkInv, stack # <<>>, ~AtTarget, Top.slot <= Len(kids[Top.node])
    PROVE  \E t : /\ LeadsTo(stack, t) /\ t = Top.node /\ t \in Seq(BranchIds) /\ Len(stack) <= target
                  /\ stack[Len(stack)] = Top /\ Top.slot \in DOMAIN kids[t]
<1>1. PICK s \in Seq(Spot) : s = stack /\ s # <<>> /\ Walk(s)
  BY DEF WalkInv, TreesTypeOK
<1>2. PICK t : LeadsTo(s, t) /\ Len(s) <= target + 1
  BY <1>1 DEF Walk
<1>3. PICK n \in Nat : /\ n = Len(s) /\ Last(s) = s[n] /\ s[n].node = t /\ s[n].slot \in Nat \ {0}
                       /\ t \in Seq(BranchIds) /\ Len(t) = n - 1
  BY <1>1, <1>2, TopIs
<1>4. PICK T \in Nat : T = target /\ T <= Depth
  BY TreesAssumption DEF WalkInv, TreesTypeOK
<1>5. n <= T
  <2>1. n # T + 1
    BY <1>1, <1>3, <1>4 DEF AtTarget
  <2> QED
    BY <1>2, <1>3, <1>4, <2>1
<1>6. Top = s[n]
  BY <1>1, <1>3 DEF Top
<1>7. Top.slot \in DOMAIN kids[t]
  <2>1. Len(t) < Depth
    BY <1>3, <1>4, <1>5, TreesAssumption
  <2>2. DOMAIN kids[t] = 1..Len(kids[t]) /\ kids[t] \in Seq(BranchIds \cup {Hole})
    BY <1>3, <2>1, SlotsDiffer DEF WalkInv
  <2>3. Len(kids[t]) \in Nat
    BY <2>2, LenProperties
  <2> QED
    BY <1>3, <1>6, <2>2, <2>3
<1> QED
  BY <1>1, <1>2, <1>3, <1>4, <1>5, <1>6, <1>7

LEMMA SkipHoleStep ==
    ASSUME WalkInv, SkipHole
    PROVE  WalkInv'
<1>1. PICK t : /\ LeadsTo(stack, t) /\ t = Top.node /\ t \in Seq(BranchIds) /\ Len(stack) <= target
               /\ stack[Len(stack)] = Top /\ Top.slot \in DOMAIN kids[t]
  BY SlotOnTop DEF SkipHole
<1>2. PICK s \in Seq(Spot) : s = stack /\ s # <<>>
  BY DEF WalkInv, TreesTypeOK, SkipHole
<1>3. s[Len(s)].slot \in DOMAIN kids[t] /\ kids[t][s[Len(s)].slot] = Hole
  BY <1>1, <1>2 DEF SkipHole
<1>4. ASSUME NEW p \in has PROVE HasPassed(stack', p) <=> HasPassed(stack, p)
  <2>1. OnLevel(p)
    BY ValuesOnLevel DEF WalkInv
  <2>2. HasPassed(Advanced(s), p) <=> HasPassed(s, p)
    BY <1>1, <1>2, <1>3, <2>1, HolePasses DEF WalkInv
  <2> QED
    BY <1>2, <2>2 DEF SkipHole
<1>5. stack' \in Seq(Spot) /\ Len(stack') = Len(stack)
  BY <1>2, AdvancedIs DEF SkipHole
<1>6. TreesTypeOK'
  BY <1>5, TypeStays DEF WalkInv, TreesTypeOK, SkipHole
<1>7. Walk(stack)'
  <2>1. LeadsTo(stack', t)
    BY <1>1, <1>2, HoleWalk DEF SkipHole
  <2>2. target \in Nat /\ Len(s) \in Nat
    BY <1>2, LenProperties, TreesAssumption DEF WalkInv, TreesTypeOK
  <2>3. Len(stack') <= target + 1
    BY <1>1, <1>2, <1>5, <2>2
  <2>4. Walk(stack')
    BY <2>1, <2>3 DEF Walk
  <2> QED
    BY <2>4, SameTree DEF SkipHole
<1>8. FoundPassed'
  BY <1>4, FoundStays DEF WalkInv, SkipHole
<1> QED
  BY <1>6, <1>7, <1>8 DEF WalkInv

LEMMA DescendStep ==
    ASSUME WalkInv, Descend
    PROVE  WalkInv'
<1>1. PICK t : /\ LeadsTo(stack, t) /\ t = Top.node /\ t \in Seq(BranchIds) /\ Len(stack) <= target
               /\ stack[Len(stack)] = Top /\ Top.slot \in DOMAIN kids[t]
  BY SlotOnTop DEF Descend
<1>2. PICK s \in Seq(Spot) : s = stack /\ s # <<>>
  BY DEF WalkInv, TreesTypeOK, Descend
<1>3. PICK b : b = kids[t][Top.slot]
  OBVIOUS
<1>4. b \in BranchIds
  <2>1. PICK n \in Nat : n = Len(s) /\ Len(t) = n - 1
    BY <1>1, <1>2, TopIs
  <2>2. Len(t) < Depth
    BY <1>1, <1>2, <2>1, TreesAssumption DEF WalkInv, TreesTypeOK
  <2>3. kids[t] \in Seq(BranchIds \cup {Hole})
    BY <1>1, <2>2, SlotsDiffer DEF WalkInv
  <2>4. b # Hole
    BY <1>1, <1>3 DEF Descend
  <2>5. DOMAIN kids[t] = 1..Len(kids[t])
    BY <1>1, <2>2, SlotsDiffer DEF WalkInv
  <2> QED
    BY <1>1, <1>3, <2>3, <2>4, <2>5, ElementOfSeq
<1>5. s[Len(s)].slot \in DOMAIN kids[t] /\ kids[t][s[Len(s)].slot] = b
  BY <1>1, <1>2, <1>3
<1>6. PICK q \in Seq(BranchIds) : q = Append(t, b)
  BY <1>1, <1>4, PrefixOfLonger
<1>7. stack' = Append(s, [node |-> q, slot |-> 1]) /\ index' = Append(index, b)
  BY <1>1, <1>2, <1>3, <1>6 DEF Descend
<1>8. ASSUME NEW p \in has PROVE HasPassed(stack', p) <=> HasPassed(stack, p)
  <2>1. OnLevel(p)
    BY ValuesOnLevel DEF WalkInv
  <2>2. HasPassed(Append(s, [node |-> q, slot |-> 1]), p) <=> HasPassed(s, p)
    BY <1>1, <1>2, <2>1, BranchPasses DEF WalkInv
  <2> QED
    BY <1>2, <1>7, <2>2
<1>9. stack' \in Seq(Spot) /\ Len(stack') = Len(s) + 1
  <2>1. [node |-> q, slot |-> 1] \in Spot
    BY DEF Spot
  <2> QED
    BY <1>7, <2>1, AppendProperties
<1>10. TreesTypeOK'
  <2>1. index' \in Seq(BranchIds)
    BY <1>4, <1>7, AppendProperties DEF WalkInv, TreesTypeOK
  <2> QED
    BY <1>9, <2>1, TypeStays DEF WalkInv, TreesTypeOK, Descend
<1>11. Walk(stack)'
  <2>1. LeadsTo(stack', q)
    BY <1>1, <1>2, <1>4, <1>5, <1>6, <1>7, BranchWalk
  <2>2. target \in Nat /\ Len(s) \in Nat
    BY <1>2, LenProperties, TreesAssumption DEF WalkInv, TreesTypeOK
  <2>3. Len(stack') <= target + 1
    BY <1>1, <1>2, <1>9, <2>2
  <2>4. Walk(stack')
    BY <2>1, <2>3 DEF Walk
  <2> QED
    BY <2>4, SameTree DEF Descend
<1>12. FoundPassed'
  BY <1>8, FoundStays DEF WalkInv, Descend
<1> QED
  BY <1>10, <1>11, <1>12 DEF WalkInv

LEMMA WalkInit ==
    ASSUME TreesInit
    PROVE  WalkInv
<1>1. TreesTypeOK
  <2>1. stack \in Seq(Spot)
    <3>1. <<>> \in Seq(BranchIds)
      OBVIOUS
    <3>2. [node |-> <<>>, slot |-> 1] \in Spot
      BY <3>1 DEF Spot
    <3> QED
      BY <3>2 DEF TreesInit, Root
  <2>2. index \in Seq(BranchIds) /\ found \in Seq(FoundItems)
    BY DEF TreesInit
  <2>3. kids \in [Nodes -> SlotLists] /\ target \in 0..Depth /\ has \in SUBSET Level(target)
    BY DEF TreesInit
  <2> QED
    BY <2>1, <2>2, <2>3 DEF TreesTypeOK
<1>2. Len(stack) = 1 /\ stack[1].node = <<>> /\ stack[1].slot = 1 /\ stack # <<>>
  BY DEF TreesInit, Root
<1>3. \A p \in Seq(BranchIds) : Pre(p, 0) = <<>>
  <2>1. ASSUME NEW p \in Seq(BranchIds) PROVE Pre(p, 0) = <<>>
    <3>1. 0 \in 0..Len(p)
      BY LenProperties
    <3>2. Pre(p, 0) \in Seq(BranchIds) /\ Len(Pre(p, 0)) = 0
      BY <3>1, PathPrefix
    <3> QED
      BY <3>2, EmptySeq
  <2> QED
    BY <2>1
<1>4. Walk(stack)
  <2>1. <<>> \in Seq(BranchIds) /\ Len(<<>>) = 0
    OBVIOUS
  <2>2. \A i \in 1..1 : stack[i].node = Pre(<<>>, i - 1)
    <3>1. \A i \in 1..1 : i = 1 /\ i - 1 = 0
      OBVIOUS
    <3>2. Pre(<<>>, 0) = <<>>
      BY <1>3, <2>1
    <3> QED
      BY <1>2, <3>1, <3>2
  <2>3. LeadsTo(stack, <<>>)
    BY <1>2, <2>1, <2>2 DEF LeadsTo
  <2>4. 1 <= target + 1
    BY TreesAssumption DEF TreesInit
  <2> QED
    BY <1>2, <2>3, <2>4 DEF Walk
<1>5. PassedValues = {}
  <2> SUFFICES ASSUME NEW p \in has, HasPassed(stack, p) PROVE FALSE
    BY DEF PassedValues
  <2>1. p \in Seq(BranchIds) /\ Len(p) = target
    BY <1>1, ValuesOnLevel DEF OnLevel
  <2>2. 1 <= Len(p) /\ PassedAt(stack, p, 1)
    <3>1. PICK i \in 1..1 : i <= Len(p) /\ PassedAt(stack, p, i)
      BY <1>2 DEF HasPassed
    <3>2. i = 1
      BY <3>1
    <3> QED
      BY <3>1, <3>2
  <2>3. PICK k \in DOMAIN kids[<<>>] : k < 1
    <3>1. Pre(p, 1 - 1) = <<>>
      BY <1>3, <2>1
    <3> QED
      BY <1>2, <2>2, <3>1 DEF PassedAt
  <2>4. <<>> \in Seq(BranchIds) /\ Len(<<>>) < Depth
    BY <2>1, <2>2, TreesAssumption DEF TreesInit
  <2>5. DOMAIN kids[<<>>] = 1..Len(kids[<<>>]) /\ kids[<<>>] \in Seq(BranchIds \cup {Hole})
    BY <1>1, <2>4, SlotsDiffer
  <2> QED
    BY <2>3, <2>5, LenProperties
<1>6. FoundPassed
  <2>1. Len(found) = 0
    BY DEF TreesInit
  <2> QED
    BY <1>5, <2>1 DEF FoundPassed
<1> QED
  BY <1>1, <1>4, <1>6 DEF WalkInv

-----------------------------------------------------------------------------
\* collect-vec.

\* s holds what was found up to k and is not a placeholder.
Keeps(s, k) ==
    /\ s \in Seq(FoundItems)
    /\ \A i \in 1..Len(s) : \E j \in 1..k : found[j].value # Nothing /\ s[i] = found[j]
    /\ \A j \in 1..k : found[j].value # Nothing => \E i \in 1..Len(s) : s[i] = found[j]
    /\ \A i, j \in 1..Len(s) : i # j => s[i].value # s[j].value

LEMMA KeepsNext ==
    ASSUME WalkInv, NEW k \in Nat, k < Len(found), NEW s, Keeps(s, k)
    PROVE  Keeps(IF found[k + 1].value = Nothing THEN s ELSE Append(s, found[k + 1]), k + 1)
<1>1. PICK N \in Nat : N = Len(found)
  BY LenProperties DEF WalkInv, TreesTypeOK
<1>2. k + 1 \in 1..N /\ k + 1 \in 1..(k + 1) /\ \A j \in 1..k : j \in 1..N /\ j # k + 1 /\ j \in 1..(k + 1)
  BY <1>1
<1>3. \A j \in 1..(k + 1) : j \in 1..k \/ j = k + 1
  OBVIOUS
<1>4. PICK x \in FoundItems : x = found[k + 1]
  BY <1>1, <1>2, ElementOfSeq DEF WalkInv, TreesTypeOK
<1>5. CASE x.value = Nothing
  <2>1. \A i \in 1..Len(s) : \E j \in 1..(k + 1) : found[j].value # Nothing /\ s[i] = found[j]
    BY <1>2 DEF Keeps
  <2>2. \A j \in 1..(k + 1) : found[j].value # Nothing => \E i \in 1..Len(s) : s[i] = found[j]
    BY <1>3, <1>4, <1>5 DEF Keeps
  <2>3. Keeps(s, k + 1)
    BY <2>1, <2>2 DEF Keeps
  <2> QED
    BY <1>4, <1>5, <2>3
<1>6. CASE x.value # Nothing
  <2>1. PICK m \in Nat : m = Len(s)
    BY LenProperties DEF Keeps
  <2>2. PICK u \in Seq(FoundItems) : u = Append(s, x) /\ Len(u) = m + 1 /\ u[m + 1] = x
                                    /\ \A i \in 1..m : u[i] = s[i]
    <3>1. /\ Append(s, x) \in Seq(FoundItems) /\ Len(Append(s, x)) = Len(s) + 1
          /\ Append(s, x)[Len(s) + 1] = x /\ \A i \in 1..Len(s) : Append(s, x)[i] = s[i]
      BY AppendProperties DEF Keeps
    <3> QED
      BY <2>1, <3>1
  <2>3. m + 1 \in 1..(m + 1) /\ (\A i \in 1..m : i \in 1..(m + 1)) /\ \A i \in 1..(m + 1) : i \in 1..m \/ i = m + 1
    BY <2>1
  <2>4. ASSUME NEW i \in 1..(m + 1)
        PROVE  \E j \in 1..(k + 1) : found[j].value # Nothing /\ u[i] = found[j]
    <3>1. CASE i \in 1..m
      BY <1>2, <2>1, <2>2, <3>1 DEF Keeps
    <3>2. CASE i = m + 1
      BY <1>2, <1>4, <1>6, <2>2, <3>2
    <3> QED
      BY <2>3, <3>1, <3>2
  <2>5. ASSUME NEW j \in 1..(k + 1), found[j].value # Nothing
        PROVE  \E i \in 1..(m + 1) : u[i] = found[j]
    <3>1. CASE j \in 1..k
      <4>1. PICK i \in 1..m : s[i] = found[j]
        BY <2>1, <2>5, <3>1 DEF Keeps
      <4> QED
        BY <2>2, <2>3, <4>1
    <3>2. CASE j = k + 1
      BY <1>4, <2>2, <2>3, <3>2
    <3> QED
      BY <1>3, <3>1, <3>2
  <2>6. ASSUME NEW i \in 1..m PROVE s[i].value # x.value
    <3>1. PICK j \in 1..k : found[j].value # Nothing /\ s[i] = found[j]
      BY <2>1 DEF Keeps
    <3>2. found[j].value # found[k + 1].value
      BY <1>1, <1>2, <3>1 DEF WalkInv, FoundPassed
    <3> QED
      BY <1>4, <3>1, <3>2
  <2>7. ASSUME NEW i \in 1..(m + 1), NEW j \in 1..(m + 1), i # j PROVE u[i].value # u[j].value
    <3>1. CASE i \in 1..m /\ j \in 1..m
      BY <2>1, <2>2, <2>7, <3>1 DEF Keeps
    <3>2. CASE i \in 1..m /\ j = m + 1
      BY <2>2, <2>6, <3>2
    <3>3. CASE i = m + 1 /\ j \in 1..m
      BY <2>2, <2>6, <3>3
    <3> QED
      BY <2>3, <2>7, <3>1, <3>2, <3>3
  <2>8. /\ \A i \in 1..Len(u) : \E j \in 1..(k + 1) : found[j].value # Nothing /\ u[i] = found[j]
        /\ \A j \in 1..(k + 1) : found[j].value # Nothing => \E i \in 1..Len(u) : u[i] = found[j]
    BY <2>2, <2>4, <2>5
  <2>9. \A i, j \in 1..Len(u) : i # j => u[i].value # u[j].value
    BY <2>2, <2>7
  <2>10. Keeps(u, k + 1)
    BY <2>2, <2>8, <2>9 DEF Keeps
  <2> QED
    BY <1>4, <1>6, <2>2, <2>10
<1> QED
  BY <1>5, <1>6

\* What is collected from what was found.
LEMMA DowncastKeeps ==
    ASSUME WalkInv
    PROVE  Keeps(Downcast, Len(found))
<1>1. PICK N \in Nat : N = Len(found)
  BY LenProperties DEF WalkInv, TreesTypeOK
<1> DEFINE Solves(a) == a = [n \in 0..N |-> IF n = 0 THEN <<>>
                                            ELSE IF found[n].value = Nothing THEN a[n - 1]
                                            ELSE Append(a[n - 1], found[n])]
<1>2. \E a : Solves(a)
  <2>1. PICK S : S = Seq(FoundItems)
    OBVIOUS
  <2>2. PICK step : step = [n \in 1..N |-> [x \in S |-> IF found[n].value = Nothing THEN x
                                                       ELSE Append(x, found[n])]]
    OBVIOUS
  <2>3. ASSUME NEW n \in 1..N, NEW x \in S
        PROVE  (IF found[n].value = Nothing THEN x ELSE Append(x, found[n])) \in S
    <3>1. found[n] \in FoundItems
      BY <1>1, ElementOfSeq DEF WalkInv, TreesTypeOK
    <3>2. Append(x, found[n]) \in S
      BY <2>1, <3>1, AppendProperties
    <3> QED
      BY <3>2
  <2>4. step \in [1..N -> [S -> S]]
    BY <2>2, <2>3
  <2>5. <<>> \in S
    BY <2>1
  <2>6. PICK a \in [0..N -> S] : Runs(a, N, <<>>, step)
    BY <2>4, <2>5, LoopRuns
  <2>7. ASSUME NEW n \in 0..N
        PROVE  a[n] = IF n = 0 THEN <<>> ELSE IF found[n].value = Nothing THEN a[n - 1]
                      ELSE Append(a[n - 1], found[n])
    <3>1. CASE n = 0
      BY <2>6, <3>1 DEF Runs
    <3>2. CASE n # 0
      <4>1. n \in 1..N /\ a[n - 1] \in S /\ a[n] = step[n][a[n - 1]]
        BY <2>6, <3>2 DEF Runs
      <4> QED
        BY <2>2, <3>2, <4>1
    <3> QED
      BY <3>1, <3>2
  <2>8. Solves(a)
    BY <2>6, <2>7
  <2> QED
    BY <2>8
<1>3. PICK a : a = CHOOSE x : Solves(x)
  OBVIOUS
<1>4. Solves(a)
  <2> HIDE DEF Solves
  <2> QED
    BY <1>2, <1>3
<1>5. Downcast = a[N]
  BY <1>1, <1>3 DEF Downcast
<1>6. PICK G \in SUBSET (0..N) : G = {k \in 0..N : Keeps(a[k], k)}
  OBVIOUS
<1>7. 0 \in G
  <2>1. a[0] = <<>> /\ 0 \in 0..N
    BY <1>4
  <2>2. Keeps(<<>>, 0)
    BY DEF Keeps
  <2> QED
    BY <1>6, <2>1, <2>2
<1>8. ASSUME NEW k \in G, k < N PROVE k + 1 \in G
  <2>1. k \in Nat /\ k + 1 \in 0..N /\ Keeps(a[k], k)
    BY <1>6, <1>8
  <2>2. a[k + 1] = IF found[k + 1].value = Nothing THEN a[k] ELSE Append(a[k], found[k + 1])
    <3>1. PICK n \in 0..N : n = k + 1 /\ n # 0 /\ n - 1 = k
      BY <2>1
    <3>2. a[n] = IF n = 0 THEN <<>> ELSE IF found[n].value = Nothing THEN a[n - 1]
                 ELSE Append(a[n - 1], found[n])
      BY <1>4
    <3> QED
      BY <3>1, <3>2
  <2>3. Keeps(a[k + 1], k + 1)
    BY <1>1, <1>8, <2>1, <2>2, KeepsNext
  <2> QED
    BY <1>6, <2>1, <2>3
<1>9. \A k \in 0..N : k \in G
  BY <1>7, <1>8, Upwards
<1>10. Keeps(a[N], N)
  <2>1. N \in 0..N
    OBVIOUS
  <2> QED
    BY <1>6, <1>9, <2>1
<1> QED
  BY <1>1, <1>5, <1>10

LEMMA CollectStep ==
    ASSUME WalkInv, Collect
    PROVE  WalkInv' /\ LevelCollected'
<1>1. PICK s : s = Downcast /\ Keeps(s, Len(found))
  BY DowncastKeeps
<1>2. PICK m \in Nat : m = Len(s) /\ DOMAIN s = 1..m
  BY <1>1, LenProperties DEF Keeps
<1>3. PassedValues = has
  BY DEF Collect, PassedValues, HasPassed
<1>4. PICK c : c = collected' /\ c = [i \in 1..m |-> s[i].value]
  BY <1>1, <1>2 DEF Collect, Values
<1>5. \A p : p \in has <=> \E i \in 1..m : s[i].value = p
  <2>1. ASSUME NEW p \in has PROVE \E i \in 1..m : s[i].value = p
    <3>1. PICK j \in 1..Len(found) : found[j].value = p
      BY <1>3 DEF WalkInv, FoundPassed
    <3>2. p # Nothing
      BY ValuesOnLevel DEF WalkInv
    <3> QED
      BY <1>1, <1>2, <3>1, <3>2 DEF Keeps
  <2>2. ASSUME NEW i \in 1..m PROVE s[i].value \in has
    <3>1. PICK j \in 1..Len(found) : found[j].value # Nothing /\ s[i] = found[j]
      BY <1>1, <1>2 DEF Keeps
    <3> QED
      BY <1>3, <3>1 DEF WalkInv, FoundPassed
  <2> QED
    BY <2>1, <2>2
<1>6. c \in Bijection(1..m, has)
  <2>1. c \in [1..m -> has] /\ \A i \in 1..m : c[i] = s[i].value
    BY <1>4, <1>5
  <2>2. \A i, j \in 1..m : c[i] = c[j] => i = j
    <3>1. ASSUME NEW i \in 1..m, NEW j \in 1..m, c[i] = c[j] PROVE i = j
      <4>1. i # j => s[i].value # s[j].value
        BY <1>1, <1>2 DEF Keeps
      <4> QED
        BY <2>1, <3>1, <4>1
    <3> QED
      BY <3>1
  <2>3. \A p \in has : \E i \in 1..m : c[i] = p
    BY <1>5, <2>1
  <2>4. c \in Injection(1..m, has)
    BY <2>1, <2>2 DEF Injection, IsInjective
  <2>5. c \in Surjection(1..m, has)
    BY <2>1, <2>3 DEF Surjection
  <2> QED
    BY <2>4, <2>5 DEF Bijection
<1>7. Cardinality(has) = m
  <2>1. IsFiniteSet(1..m) /\ Cardinality(1..m) = IF 1 > m THEN 0 ELSE m - 1 + 1
    BY FS_Interval
  <2>2. ExistsBijection(1..m, has)
    BY <1>6 DEF ExistsBijection
  <2> QED
    BY <2>1, <2>2, FS_Bijection
<1>8. Range(c) = has
  <2>1. DOMAIN c = 1..m /\ \A i \in 1..m : c[i] = s[i].value
    BY <1>4
  <2> QED
    BY <1>5, <2>1 DEF Range
<1>9. Len(c) = m
  BY <1>4
<1>10. LevelCollected'
  BY <1>4, <1>7, <1>8, <1>9 DEF LevelCollected, Collect
<1>11. WalkInv'
  <2>1. PassedValues' = PassedValues
    BY SameTree DEF Collect, PassedValues
  <2>2. FoundPassed'
    BY <2>1 DEF WalkInv, FoundPassed, Collect
  <2>3. Walk(stack)'
    BY DEF Walk, Collect
  <2>4. TreesTypeOK'
    BY TypeStays DEF WalkInv, TreesTypeOK, Collect
  <2> QED
    BY <2>2, <2>3, <2>4 DEF WalkInv
<1> QED
  BY <1>10, <1>11

-----------------------------------------------------------------------------
\* first() and last().

\* A finite set of numbers has a greatest one.
LEMMA GreatestNumber ==
    ASSUME NEW B \in SUBSET Nat, IsFiniteSet(B), NEW A \in SUBSET B, A # {}
    PROVE  \E m \in A : \A n \in A : n <= m
<1>1. PICK N \in Nat : N = Cardinality(A) /\ IsFiniteSet(A)
  BY FS_Subset, FS_CardinalityType
<1>2. PICK G \in SUBSET (0..N) :
        G = {k \in 0..N : \A S \in SUBSET A : S # {} /\ Cardinality(S) = k
                              => \E m \in S : \A n \in S : n <= m}
  OBVIOUS
<1>3. \A S \in SUBSET A : IsFiniteSet(S)
  BY <1>1, FS_Subset
<1>4. 0 \in G
  <2>1. \A S \in SUBSET A : Cardinality(S) = 0 => S = {}
    BY <1>3, FS_EmptySet
  <2>2. 0 \in 0..N
    OBVIOUS
  <2>3. \A S \in SUBSET A : ~(S # {} /\ Cardinality(S) = 0)
    BY <2>1
  <2> QED
    BY <1>2, <2>2, <2>3
<1>5. ASSUME NEW k \in G, k < N PROVE k + 1 \in G
  <2>1. k \in Nat /\ k + 1 \in 0..N
    BY <1>5
  <2>2. ASSUME NEW S \in SUBSET A, S # {}, Cardinality(S) = k + 1
        PROVE  \E m \in S : \A n \in S : n <= m
    <3>1. PICK x \in S : x \in Nat
      BY <2>2
    <3>2. PICK R \in SUBSET A : R = S \ {x}
      OBVIOUS
    <3>3. Cardinality(R) = k
      <4>1. Cardinality(R) = Cardinality(S) - 1
        BY <1>3, <3>2, FS_RemoveElement
      <4> QED
        BY <2>1, <2>2, <4>1
    <3>4. CASE R = {}
      <4>1. S = {x}
        BY <3>2, <3>4
      <4> QED
        BY <3>1, <4>1
    <3>5. CASE R # {}
      <4>1. PICK m \in R : \A n \in R : n <= m
        BY <1>2, <3>3, <3>5
      <4>2. m \in Nat /\ \A n \in R : n \in Nat
        OBVIOUS
      <4>3. CASE x <= m
        <5>1. m \in S /\ \A n \in S : n <= m
          BY <3>2, <4>1, <4>3
        <5> QED
          BY <5>1
      <4>4. CASE m < x
        <5>1. \A n \in S : n <= x
          <6>1. ASSUME NEW n \in S PROVE n <= x
            <7>1. CASE n = x
              BY <3>1, <7>1
            <7>2. CASE n # x
              <8>1. n \in R
                BY <3>2, <7>2
              <8>2. n <= m /\ n \in Nat
                BY <4>1, <4>2, <8>1
              <8> QED
                BY <3>1, <4>2, <4>4, <8>2
            <7> QED
              BY <7>1, <7>2
          <6> QED
            BY <6>1
        <5> QED
          BY <3>1, <5>1
      <4> QED
        BY <3>1, <4>2, <4>3, <4>4
    <3> QED
      BY <3>4, <3>5
  <2> QED
    BY <1>2, <2>1, <2>2
<1>6. \A k \in 0..N : k \in G
  BY <1>4, <1>5, Upwards
<1>7. N \in G
  <2>1. N \in 0..N
    OBVIOUS
  <2> QED
    BY <1>6, <2>1
<1> QED
  BY <1>1, <1>2, <1>7

\* The branch that is tried first.
LEMMA ForemostIs ==
    ASSUME NEW ids \in SUBSET BranchIds, ids # {}, NEW sign \in {1, -1}
    PROVE  Foremost(ids, sign) \in ids /\ \A o \in ids : sign * Foremost(ids, sign) <= sign * o
<1>1. ids \in SUBSET Nat
  BY TreesAssumption
<1>2. \E m \in ids : \A o \in ids : sign * m <= sign * o
  <2>1. CASE sign = 1
    <3>1. PICK m \in ids : \A o \in ids : m <= o
      BY <1>1, LeastNumber
    <3>2. \A o \in ids : 1 * m <= 1 * o
      <4>1. \A o \in ids : o \in Nat /\ m \in Nat
        BY <1>1
      <4> QED
        BY <3>1, <4>1
    <3> QED
      BY <2>1, <3>2
  <2>2. CASE sign = -1
    <3>1. PICK m \in ids : \A o \in ids : o <= m
      BY TreesAssumption, GreatestNumber
    <3>2. \A o \in ids : (-1) * m <= (-1) * o
      <4>1. \A o \in ids : o \in Nat /\ m \in Nat
        BY <1>1
      <4> QED
        BY <3>1, <4>1
    <3> QED
      BY <2>2, <3>2
  <2> QED
    BY <2>1, <2>2
<1> QED
  BY <1>2 DEF Foremost

\* The value of a node on the target's level, and the best of those below the branches.
At(p) == IF p \in has THEN p ELSE Nothing
With(below, p) == {id \in Kids(p) : below[Append(p, id)] # Nothing}
Best(below, p, sign) == IF With(below, p) = {} THEN Nothing
                        ELSE below[Append(p, Foremost(With(below, p), sign))]

\* The recursion has a solution.
LEMMA EndsRounds ==
    ASSUME TreesTypeOK, NEW sign
    PROVE  EndsOf(sign) = [l \in 0..target |-> [p \in Level(target - l) |->
                              IF l = 0 THEN At(p) ELSE Best(EndsOf(sign)[l - 1], p, sign)]]
<1>1. PICK T \in Nat : T = target
  BY TreesAssumption DEF TreesTypeOK
<1> DEFINE Step(l, x) == [p \in Level(T - l) |-> IF l = 0 THEN At(p) ELSE Best(x, p, sign)]
           Solves(f, k) == f = [l \in 0..k |-> Step(l, f[l - 1])]
           Good == {k \in 0..T : \E f : Solves(f, k)}
<1> HIDE DEF Step
<1>2. \A x, y : Step(0, x) = Step(0, y)
  BY DEF Step
<1>3. 0 \in Good
  <2>1. PICK f : f = [l \in 0..0 |-> Step(0, 0)]
    OBVIOUS
  <2>2. \A l \in 0..0 : l = 0
    OBVIOUS
  <2>3. Solves(f, 0)
    BY <1>2, <2>1, <2>2
  <2> QED
    BY <2>3
<1>4. ASSUME NEW k \in Good, k < T PROVE k + 1 \in Good
  <2>1. PICK f : Solves(f, k)
    BY <1>4
  <2>2. PICK h : h = [l \in 0..(k + 1) |-> IF l = k + 1 THEN Step(k + 1, f[k]) ELSE f[l]]
    OBVIOUS
  <2>3. ASSUME NEW l \in 0..(k + 1) PROVE h[l] = Step(l, h[l - 1])
    <3>1. CASE l = k + 1
      <4>1. h[l] = Step(k + 1, f[k]) /\ h[l - 1] = f[k]
        BY <2>2, <3>1
      <4> QED
        BY <3>1, <4>1
    <3>2. CASE l # k + 1
      <4>1. l \in 0..k /\ h[l] = f[l] /\ (l # 0 => h[l - 1] = f[l - 1])
        BY <2>2, <3>2
      <4>2. f[l] = Step(l, f[l - 1])
        BY <2>1, <4>1
      <4> QED
        BY <1>2, <4>1, <4>2
    <3> QED
      BY <3>1, <3>2
  <2>4. Solves(h, k + 1)
    BY <2>2, <2>3
  <2>5. k + 1 \in 0..T
    BY <1>4
  <2> HIDE DEF Solves
  <2> QED
    BY <2>4, <2>5
<1>5. \E f : Solves(f, T)
  <2>1. \A k \in 0..T : k \in Good
    <3> HIDE DEF Good
    <3>1. Good \in SUBSET (0..T)
      BY DEF Good
    <3> QED
      BY <1>3, <1>4, <3>1, Upwards
  <2>2. T \in 0..T
    OBVIOUS
  <2> QED
    BY <2>1, <2>2
<1>6. EndsOf(sign) = CHOOSE f : Solves(f, T)
  BY <1>1 DEF EndsOf, Step, At, Best, With
<1>7. Solves(EndsOf(sign), T)
  <2> HIDE DEF Solves
  <2> QED
    BY <1>5, <1>6
<1> QED
  BY <1>1, <1>7 DEF Step

\* The nodes of a level, those above a value and those below a node.
LEMMA LevelIs ==
    ASSUME NEW l \in Nat, NEW p \in Level(l)
    PROVE  p \in Seq(BranchIds) /\ Len(p) = l
<1>1. p \in [1..l -> BranchIds]
  BY DEF Level, Paths
<1> QED
  BY <1>1

LEMMA InLevel ==
    ASSUME NEW l \in Nat, NEW p \in Seq(BranchIds), Len(p) = l
    PROVE  p \in Level(l) <=> \A i \in 1..l : \E k \in DOMAIN kids[Pre(p, i - 1)] :
                                  kids[Pre(p, i - 1)][k] = p[i]
<1>1. p \in [1..l -> BranchIds] /\ DOMAIN p = 1..l
  OBVIOUS
<1> QED
  BY <1>1 DEF Level, Paths, There, Pre

LEMMA LevelAbove ==
    ASSUME TreesTypeOK, NEW v \in has, NEW l \in 0..target
    PROVE  /\ Pre(v, l) \in Level(l)
           /\ l < target => v[l + 1] \in Kids(Pre(v, l))
<1>1. PICK T \in Nat : T = target /\ T <= Depth
  BY TreesAssumption DEF TreesTypeOK
<1>2. v \in Seq(BranchIds) /\ Len(v) = T
  BY <1>1, ValuesOnLevel DEF OnLevel
<1>3. \A i \in 1..T : \E k \in DOMAIN kids[Pre(v, i - 1)] : kids[Pre(v, i - 1)][k] = v[i]
  BY <1>1, ValuesOnLevel DEF OnLevel
<1>4. PICK q \in Seq(BranchIds) : q = Pre(v, l) /\ Len(q) = l /\ \A k \in 1..l : q[k] = v[k]
  <2>1. l \in 0..Len(v)
    BY <1>1, <1>2
  <2> QED
    BY <1>2, <2>1, PathPrefix
<1>5. ASSUME NEW i \in 1..l
      PROVE  \E k \in DOMAIN kids[Pre(q, i - 1)] : kids[Pre(q, i - 1)][k] = q[i]
  <2>1. i \in 1..T /\ i - 1 \in 0..l /\ l \in 0..Len(v)
    BY <1>1, <1>2
  <2>2. Pre(q, i - 1) = Pre(v, i - 1)
    BY <1>2, <1>4, <2>1, PrefixOfPrefix
  <2> QED
    BY <1>3, <1>4, <2>1, <2>2
<1>6. q \in Level(l)
  <2>1. l \in Nat
    BY <1>1
  <2> QED
    BY <1>4, <1>5, <2>1, InLevel
<1>7. ASSUME l < T PROVE v[l + 1] \in Kids(q)
  <2>1. l + 1 \in 1..T /\ (l + 1) - 1 = l /\ l + 1 \in 1..Len(v)
    BY <1>1, <1>2, <1>7
  <2>2. v[l + 1] \in BranchIds
    BY <1>2, <2>1, ElementOfSeq
  <2>3. \E k \in DOMAIN kids[q] : kids[q][k] = v[l + 1]
    BY <1>3, <1>4, <2>1
  <2> QED
    BY <2>2, <2>3 DEF Kids
<1> QED
  BY <1>1, <1>4, <1>6, <1>7

LEMMA LevelBelow ==
    ASSUME NEW l \in Nat, NEW p \in Level(l), NEW id \in Kids(p)
    PROVE  Append(p, id) \in Level(l + 1)
<1>1. p \in Seq(BranchIds) /\ Len(p) = l
  BY LevelIs
<1>2. id \in BranchIds /\ \E k \in DOMAIN kids[p] : kids[p][k] = id
  BY DEF Kids
<1>3. PICK q \in Seq(BranchIds) : /\ q = Append(p, id) /\ Len(q) = l + 1 /\ q[l + 1] = id
                                  /\ \A i \in 0..l : Pre(q, i) = Pre(p, i)
                                  /\ \A i \in 1..l : q[i] = p[i]
  <2>1. /\ Append(p, id) \in Seq(BranchIds) /\ Len(Append(p, id)) = Len(p) + 1
        /\ Append(p, id)[Len(p) + 1] = id
        /\ \A i \in 0..Len(p) : Pre(Append(p, id), i) = Pre(p, i)
    BY <1>1, <1>2, PrefixOfLonger
  <2>2. \A i \in 1..Len(p) : Append(p, id)[i] = p[i]
    BY <1>1, <1>2, AppendProperties
  <2> QED
    BY <1>1, <2>1, <2>2
<1>4. \A i \in 1..l : \E k \in DOMAIN kids[Pre(p, i - 1)] : kids[Pre(p, i - 1)][k] = p[i]
  BY <1>1, InLevel
<1>5. Pre(q, l) = p
  <2>1. 0 \in 0..Len(p) /\ l \in 0..l
    BY <1>1
  <2>2. Pre(p, Len(p)) = p
    BY <1>1, <2>1, PrefixOfPrefix
  <2> QED
    BY <1>1, <1>3, <2>1, <2>2
<1>6. ASSUME NEW i \in 1..(l + 1)
      PROVE  \E k \in DOMAIN kids[Pre(q, i - 1)] : kids[Pre(q, i - 1)][k] = q[i]
  <2>1. CASE i = l + 1
    <3>1. i - 1 = l
      BY <2>1
    <3> QED
      BY <1>2, <1>3, <1>5, <2>1, <3>1
  <2>2. CASE i # l + 1
    <3>1. i \in 1..l /\ i - 1 \in 0..l
      BY <2>2
    <3> QED
      BY <1>3, <1>4, <3>1
  <2> QED
    BY <2>1, <2>2
<1>7. PICK m \in Nat : m = l + 1 /\ Len(q) = m
  BY <1>3
<1>8. \A i \in 1..m : \E k \in DOMAIN kids[Pre(q, i - 1)] : kids[Pre(q, i - 1)][k] = q[i]
  BY <1>6, <1>7
<1>9. q \in Level(m)
  BY <1>7, <1>8, InLevel
<1> QED
  BY <1>3, <1>7, <1>9

\* e is v, or ahead of it where they first differ.
Ahead(e, v, sign) ==
    \/ e = v
    \/ \E i \in 1..target : sign * e[i] < sign * v[i] /\ \A k \in 1..(i - 1) : e[k] = v[k]

\* e is the first of the values under p.
EndAt(e, p, sign) ==
    /\ e = Nothing => \A v \in has : ~Under(v, p)
    /\ e # Nothing => e \in has /\ Under(e, p) /\ \A v \in has : Under(v, p) => Ahead(e, v, sign)

LEMMA EndAtLeaf ==
    ASSUME TreesTypeOK, NEW p \in Level(target), NEW sign
    PROVE  EndAt(At(p), p, sign)
<1>1. PICK T \in Nat : T = target
  BY TreesAssumption DEF TreesTypeOK
<1>2. p \in Seq(BranchIds) /\ Len(p) = T
  BY <1>1, LevelIs
<1>3. ASSUME NEW v \in has PROVE Under(v, p) <=> v = p
  <2>1. v \in Seq(BranchIds) /\ Len(v) = T
    BY <1>1, ValuesOnLevel DEF OnLevel
  <2>2. Pre(v, T) = v
    <3>1. 0 \in 0..Len(v)
      BY <2>1
    <3> QED
      BY <2>1, <3>1, PrefixOfPrefix
  <2> QED
    BY <1>2, <2>1, <2>2 DEF Under
<1>4. \A v \in has : v # Nothing
  BY ValuesOnLevel
<1>5. CASE p \in has
  <2>1. At(p) = p /\ p # Nothing /\ Under(p, p) /\ \A v \in has : Under(v, p) => Ahead(p, v, sign)
    BY <1>3, <1>4, <1>5 DEF At, Ahead
  <2> QED
    BY <1>5, <2>1 DEF EndAt
<1>6. CASE p \notin has
  <2>1. At(p) = Nothing /\ \A v \in has : ~Under(v, p)
    BY <1>3, <1>6 DEF At
  <2> QED
    BY <2>1 DEF EndAt
<1> QED
  BY <1>5, <1>6

LEMMA EndAtNode ==
    ASSUME TreesTypeOK, NEW l \in Nat, l < target, NEW p \in Level(l), NEW below, NEW sign \in {1, -1},
           \A q \in Level(l + 1) : EndAt(below[q], q, sign)
    PROVE  EndAt(Best(below, p, sign), p, sign)
<1>1. PICK T \in Nat : T = target /\ l + 1 <= T /\ l \in 0..T /\ l + 1 \in 0..T /\ l + 1 \in 1..T
  BY TreesAssumption DEF TreesTypeOK
<1>2. p \in Seq(BranchIds) /\ Len(p) = l
  BY LevelIs
<1>3. \A v \in has : v \in Seq(BranchIds) /\ Len(v) = T /\ l \in 0..Len(v) /\ l + 1 \in 0..Len(v)
  BY <1>1, ValuesOnLevel DEF OnLevel
\* A value under p is under the branch of p on its path.
<1>4. ASSUME NEW v \in has, Under(v, p)
      PROVE  /\ v[l + 1] \in Kids(p) /\ Append(p, v[l + 1]) \in Level(l + 1)
             /\ Under(v, Append(p, v[l + 1])) /\ \A k \in 1..l : v[k] = p[k]
  <2>1. Pre(v, l) = p /\ l < Len(v)
    BY <1>1, <1>2, <1>3, <1>4 DEF Under
  <2>2. v[l + 1] \in Kids(p)
    BY <1>1, <2>1, LevelAbove
  <2>3. Append(p, v[l + 1]) \in Level(l + 1)
    BY <2>2, LevelBelow
  <2>4. Pre(v, l + 1) = Append(p, v[l + 1])
    BY <1>3, <2>1, PrefixOfPrefix
  <2>5. Len(Append(p, v[l + 1])) = l + 1
    BY <2>3, LevelIs
  <2>6. Under(v, Append(p, v[l + 1]))
    BY <1>1, <1>3, <2>4, <2>5 DEF Under
  <2>7. \A k \in 1..l : Pre(v, l)[k] = v[k]
    BY <1>3, PathPrefix
  <2> QED
    BY <2>1, <2>2, <2>3, <2>6, <2>7
\* A value under a branch of p is under p.
<1>5. ASSUME NEW id \in Kids(p), NEW v \in has, Under(v, Append(p, id))
      PROVE  Under(v, p) /\ v[l + 1] = id
  <2>1. PICK q \in Seq(BranchIds) : q = Append(p, id) /\ Len(q) = l + 1 /\ q[l + 1] = id /\ Pre(q, l) = p
    <3>1. id \in BranchIds
      BY DEF Kids
    <3>2. /\ Append(p, id) \in Seq(BranchIds) /\ Len(Append(p, id)) = Len(p) + 1
          /\ Append(p, id)[Len(p) + 1] = id
          /\ \A i \in 0..Len(p) : Pre(Append(p, id), i) = Pre(p, i)
      BY <1>2, <3>1, PrefixOfLonger
    <3>3. l \in 0..Len(p) /\ 0 \in 0..Len(p)
      BY <1>2
    <3>4. Pre(p, l) = p
      BY <1>2, <3>3, PrefixOfPrefix
    <3> QED
      BY <1>2, <3>2, <3>3, <3>4
  <2>2. Pre(v, l + 1) = q
    BY <1>5, <2>1 DEF Under
  <2>3. l \in 0..(l + 1) /\ l + 1 \in 1..(l + 1)
    OBVIOUS
  <2>4. Pre(v, l) = p
    <3>1. \A j \in 0..(l + 1) : Pre(Pre(v, l + 1), j) = Pre(v, j)
      BY <1>3, PrefixOfPrefix
    <3> QED
      BY <2>1, <2>2, <2>3, <3>1
  <2>5. v[l + 1] = id
    <3>1. \A k \in 1..(l + 1) : Pre(v, l + 1)[k] = v[k]
      BY <1>3, PathPrefix
    <3> QED
      BY <2>1, <2>2, <2>3, <3>1
  <2>6. Len(p) <= Len(v)
    BY <1>1, <1>2, <1>3
  <2> QED
    BY <1>2, <2>4, <2>5, <2>6 DEF Under
<1>6. PICK W \in SUBSET BranchIds : W = With(below, p)
  BY DEF With, Kids
<1>7. \A v \in has : Under(v, p) => v[l + 1] \in W
  <2> SUFFICES ASSUME NEW v \in has, Under(v, p) PROVE v[l + 1] \in W
    OBVIOUS
  <2>1. PICK q \in Level(l + 1) : q = Append(p, v[l + 1]) /\ Under(v, q) /\ v[l + 1] \in Kids(p)
    BY <1>4
  <2>2. below[q] # Nothing
    BY <2>1 DEF EndAt
  <2> QED
    BY <1>6, <2>1, <2>2 DEF With
<1>8. CASE W = {}
  BY <1>6, <1>7, <1>8 DEF EndAt, Best
<1>9. CASE W # {}
  <2>1. PICK id \in W : id = Foremost(W, sign) /\ \A o \in W : sign * id <= sign * o
    BY <1>6, <1>9, ForemostIs
  <2>2. id \in Kids(p) /\ below[Append(p, id)] # Nothing
    BY <1>6, <2>1 DEF With
  <2>3. PICK q \in Level(l + 1) : q = Append(p, id)
    BY <2>2, LevelBelow
  <2>4. PICK e : e = below[q]
    OBVIOUS
  <2>5. e # Nothing /\ e \in has /\ Under(e, q) /\ \A v \in has : Under(v, q) => Ahead(e, v, sign)
    BY <2>2, <2>3, <2>4 DEF EndAt
  <2>6. Best(below, p, sign) = e
    BY <1>6, <1>9, <2>1, <2>3, <2>4 DEF Best
  <2>7. Under(e, p) /\ e[l + 1] = id
    BY <1>5, <2>2, <2>3, <2>5
  <2>8. ASSUME NEW v \in has, Under(v, p) PROVE Ahead(e, v, sign)
    <3>1. PICK o \in W : o = v[l + 1] /\ Under(v, Append(p, o)) /\ \A k \in 1..l : v[k] = p[k]
      BY <1>4, <1>7, <2>8
    <3>2. CASE o = id
      BY <2>3, <2>5, <2>8, <3>1, <3>2
    <3>3. CASE o # id
      <4>1. sign * id < sign * o
        <5>1. sign * id <= sign * o /\ id \in Nat /\ o \in Nat
          BY <2>1, TreesAssumption
        <5>2. CASE sign = 1
          BY <3>3, <5>1, <5>2
        <5>3. CASE sign = -1
          <6>1. (-1) * id <= (-1) * o
            BY <5>1, <5>3
          <6>2. (-1) * id < (-1) * o
            BY <3>3, <5>1, <6>1
          <6> QED
            BY <5>3, <6>2
        <5> QED
          BY <5>2, <5>3
      <4>2. \A k \in 1..l : e[k] = v[k]
        BY <1>4, <2>5, <2>7, <3>1
      <4>3. l + 1 \in 1..target /\ \A k \in 1..((l + 1) - 1) : k \in 1..l
        BY <1>1
      <4>4. sign * e[l + 1] < sign * v[l + 1] /\ \A k \in 1..((l + 1) - 1) : e[k] = v[k]
        BY <2>7, <3>1, <4>1, <4>2, <4>3
      <4> QED
        BY <4>3, <4>4 DEF Ahead
    <3> QED
      BY <3>2, <3>3
  <2> QED
    BY <2>5, <2>6, <2>7, <2>8 DEF EndAt
<1> QED
  BY <1>8, <1>9

LEMMA EndIs ==
    ASSUME TreesTypeOK, NEW sign \in {1, -1}
    PROVE  EndAt(End(sign), Root, sign)
<1>1. PICK T \in Nat : T = target
  BY TreesAssumption DEF TreesTypeOK
<1>2. PICK a : /\ a = EndsOf(sign)
               /\ a = [l \in 0..T |-> [p \in Level(T - l) |-> IF l = 0 THEN At(p)
                                                              ELSE Best(a[l - 1], p, sign)]]
  BY <1>1, EndsRounds
<1>3. PICK G \in SUBSET (0..T) : G = {l \in 0..T : \A p \in Level(T - l) : EndAt(a[l][p], p, sign)}
  OBVIOUS
<1>4. 0 \in G
  <2>1. 0 \in 0..T /\ T - 0 = T
    OBVIOUS
  <2>2. \A p \in Level(T) : a[0][p] = At(p)
    BY <1>2, <2>1
  <2>3. \A p \in Level(T) : EndAt(At(p), p, sign)
    BY <1>1, EndAtLeaf
  <2> QED
    BY <1>3, <2>1, <2>2, <2>3
<1>5. ASSUME NEW l \in G, l < T PROVE l + 1 \in G
  <2>1. PICK m \in Nat : m = T - (l + 1) /\ m + 1 = T - l /\ m < T /\ l + 1 \in 0..T
    BY <1>5
  <2>2. \A q \in Level(m + 1) : EndAt(a[l][q], q, sign)
    BY <1>3, <2>1
  <2>3. ASSUME NEW p \in Level(m) PROVE EndAt(a[l + 1][p], p, sign)
    <3>1. a[l + 1][p] = Best(a[l], p, sign)
      <4>1. PICK n \in 0..T : n = l + 1 /\ n # 0 /\ n - 1 = l /\ T - n = m
        BY <2>1
      <4>2. a[n] = [r \in Level(T - n) |-> IF n = 0 THEN At(r) ELSE Best(a[n - 1], r, sign)]
        BY <1>2
      <4> QED
        BY <4>1, <4>2
    <3>2. EndAt(Best(a[l], p, sign), p, sign)
      BY <1>1, <2>1, <2>2, EndAtNode
    <3> QED
      BY <3>1, <3>2
  <2> QED
    BY <1>3, <2>1, <2>3
<1>6. \A l \in 0..T : l \in G
  BY <1>4, <1>5, Upwards
<1>7. T \in 0..T /\ T - T = 0
  OBVIOUS
<1>8. \A p \in Level(0) : EndAt(a[T][p], p, sign)
  BY <1>3, <1>6, <1>7
<1>9. Root \in Level(0)
  <2>1. <<>> \in Seq(BranchIds) /\ Len(<<>>) = 0
    OBVIOUS
  <2>2. \A i \in 1..0 : \E k \in DOMAIN kids[Pre(<<>>, i - 1)] : kids[Pre(<<>>, i - 1)][k] = <<>>[i]
    OBVIOUS
  <2> QED
    BY <2>1, <2>2, InLevel DEF Root
<1> QED
  BY <1>1, <1>2, <1>8, <1>9 DEF End

\* A value that is ahead of another is before it in the order of run ids, or after it.
LEMMA AheadIs ==
    ASSUME TreesTypeOK, NEW p \in has, NEW q \in has
    PROVE  /\ Ahead(p, q, 1) => ~Before(q, p)
           /\ Ahead(p, q, -1) => ~Before(p, q)
<1>1. PICK T \in Nat : T = target
  BY TreesAssumption DEF TreesTypeOK
<1>2. /\ p \in Seq(BranchIds) /\ Len(p) = T /\ DOMAIN p = 1..T
      /\ q \in Seq(BranchIds) /\ Len(q) = T /\ DOMAIN q = 1..T
  BY <1>1, ValuesOnLevel DEF OnLevel
<1>3. \A i \in 1..T : p[i] \in Nat /\ q[i] \in Nat
  BY <1>2, ElementOfSeq, TreesAssumption
<1>4. ASSUME NEW i \in 1..T, p[i] < q[i], \A k \in 1..(i - 1) : p[k] = q[k],
             NEW j \in 1..T, q[j] < p[j], \A k \in 1..(j - 1) : p[k] = q[k]
      PROVE  FALSE
  <2>1. CASE i < j
    <3>1. i \in 1..(j - 1)
      BY <2>1
    <3>2. p[i] = q[i]
      BY <1>4, <3>1
    <3> QED
      BY <1>3, <1>4, <3>2
  <2>2. CASE j < i
    <3>1. j \in 1..(i - 1)
      BY <2>2
    <3>2. p[j] = q[j]
      BY <1>4, <3>1
    <3> QED
      BY <1>3, <1>4, <3>2
  <2>3. CASE i = j
    BY <1>3, <1>4, <2>3
  <2> QED
    BY <2>1, <2>2, <2>3
<1>5. Before(p, q) => \E i \in 1..T : p[i] < q[i] /\ \A k \in 1..(i - 1) : p[k] = q[k]
  BY <1>2 DEF Before
<1>6. Before(q, p) => \E i \in 1..T : q[i] < p[i] /\ \A k \in 1..(i - 1) : p[k] = q[k]
  BY <1>2 DEF Before
<1>7. ~Before(p, p)
  <2>1. \A i \in 1..T : ~(p[i] < p[i])
    BY <1>3
  <2> QED
    BY <1>2, <2>1 DEF Before
<1>8. ASSUME Ahead(p, q, 1) PROVE ~Before(q, p)
  <2>1. CASE p = q
    BY <1>7, <2>1
  <2>2. CASE p # q
    <3>1. PICK i \in 1..T : 1 * p[i] < 1 * q[i] /\ \A k \in 1..(i - 1) : p[k] = q[k]
      BY <1>1, <1>8, <2>2 DEF Ahead
    <3>2. p[i] < q[i]
      BY <1>3, <3>1
    <3> QED
      BY <1>4, <1>6, <3>1, <3>2
  <2> QED
    BY <2>1, <2>2
<1>9. ASSUME Ahead(p, q, -1) PROVE ~Before(p, q)
  <2>1. CASE p = q
    BY <1>7, <2>1
  <2>2. CASE p # q
    <3>1. PICK i \in 1..T : (-1) * p[i] < (-1) * q[i] /\ \A k \in 1..(i - 1) : p[k] = q[k]
      BY <1>1, <1>9, <2>2 DEF Ahead
    <3>2. q[i] < p[i]
      BY <1>3, <3>1
    <3> QED
      BY <1>4, <1>5, <3>1, <3>2
  <2> QED
    BY <2>1, <2>2
<1> QED
  BY <1>8, <1>9

LEMMA SelectStep ==
    ASSUME WalkInv, Select
    PROVE  WalkInv' /\ EndsAreEnds'
<1>1. TreesTypeOK
  BY DEF WalkInv
<1>2. EndAt(End(1), Root, 1) /\ EndAt(End(-1), Root, -1)
  BY <1>1, EndIs
<1>3. PICK f, l : f = End(1) /\ l = End(-1) /\ ends' = <<f, l>>
  BY DEF Select
<1>4. \A v \in has : Under(v, Root)
  <2>1. ASSUME NEW v \in has PROVE Under(v, Root)
    <3>1. v \in Seq(BranchIds) /\ Len(v) \in Nat
      BY <1>1, ValuesOnLevel, LenProperties DEF OnLevel
    <3>2. 0 \in 0..Len(v)
      BY <3>1
    <3>3. Pre(v, 0) \in Seq(BranchIds) /\ Len(Pre(v, 0)) = 0
      BY <3>1, <3>2, PathPrefix
    <3>4. Pre(v, 0) = <<>> /\ Len(<<>>) = 0 /\ 0 <= Len(v)
      BY <3>1, <3>3, EmptySeq
    <3> QED
      BY <3>4 DEF Under, Root
  <2> QED
    BY <2>1
<1>5. EndsAreEnds'
  <2>1. CASE has = {}
    <3>1. f = Nothing /\ l = Nothing
      BY <1>2, <1>3, <2>1 DEF EndAt
    <3> QED
      BY <1>3, <2>1, <3>1 DEF EndsAreEnds, Select
  <2>2. CASE has # {}
    <3>1. f \in has /\ l \in has
      BY <1>2, <1>3, <1>4, <2>2 DEF EndAt
    <3>2. f # Nothing /\ l # Nothing
      BY <1>1, <3>1, ValuesOnLevel
    <3>3. \A v \in has : Ahead(f, v, 1) /\ Ahead(l, v, -1)
      BY <1>2, <1>3, <1>4, <3>2 DEF EndAt
    <3>4. \A v \in has : ~Before(v, f) /\ ~Before(l, v)
      BY <1>1, <3>1, <3>3, AheadIs
    <3> QED
      BY <1>3, <2>2, <3>1, <3>4 DEF EndsAreEnds, Select
  <2> QED
    BY <2>1, <2>2
<1>6. WalkInv'
  <2>1. PassedValues' = PassedValues
    BY SameTree DEF Select, PassedValues
  <2>2. FoundPassed'
    BY <2>1 DEF WalkInv, FoundPassed, Select
  <2>3. Walk(stack)'
    BY SameTree DEF WalkInv, Select
  <2>4. TreesTypeOK'
    BY TypeStays DEF WalkInv, TreesTypeOK, Select
  <2> QED
    BY <2>2, <2>3, <2>4 DEF WalkInv
<1> QED
  BY <1>5, <1>6

\* What a walk over a tree reads, and what first() and last() find, is what the level
\* holds: the walk has found exactly the values it has passed, and at the end has passed all.
THEOREM TreesAreRead == TreesSpec => []TreesRead
<1> DEFINE Inv == WalkInv /\ TreesRead
<1>1. TreesInit => Inv
  BY WalkInit DEF TreesInit, TreesRead, LevelCollected, EndsAreEnds
<1>2. Inv /\ [TreesNext]_treeVars => Inv'
  <2> SUFFICES ASSUME WalkInv, TreesRead, [TreesNext]_treeVars PROVE Inv'
    OBVIOUS
  <2>1. CASE Yield
    <3>1. TreesRead'
      BY <2>1 DEF TreesRead, LevelCollected, EndsAreEnds, Yield
    <3> QED
      BY <2>1, <3>1, YieldStep
  <2>2. CASE Ascend
    <3>1. TreesRead'
      BY <2>2 DEF TreesRead, LevelCollected, EndsAreEnds, Ascend
    <3> QED
      BY <2>2, <3>1, AscendStep
  <2>3. CASE SkipHole
    <3>1. TreesRead'
      BY <2>3 DEF TreesRead, LevelCollected, EndsAreEnds, SkipHole
    <3> QED
      BY <2>3, <3>1, SkipHoleStep
  <2>4. CASE Descend
    <3>1. TreesRead'
      BY <2>4 DEF TreesRead, LevelCollected, EndsAreEnds, Descend
    <3> QED
      BY <2>4, <3>1, DescendStep
  <2>5. CASE Collect
    <3>1. EndsAreEnds'
      BY <2>5 DEF TreesRead, EndsAreEnds, Collect
    <3> QED
      BY <2>5, <3>1, CollectStep DEF TreesRead
  <2>6. CASE Select
    <3>1. LevelCollected'
      BY <2>6 DEF TreesRead, LevelCollected, Select
    <3> QED
      BY <2>6, <3>1, SelectStep DEF TreesRead
  <2>7. CASE UNCHANGED treeVars
    <3>1. TreesRead'
      BY <2>7 DEF treeVars, TreesRead, LevelCollected, EndsAreEnds
    <3>2. kids' = kids /\ target' = target /\ has' = has /\ stack' = stack /\ index' = index /\ found' = found
      BY <2>7 DEF treeVars
    <3>3. PassedValues' = PassedValues /\ Walk(stack)'
      BY <3>2, SameTree DEF PassedValues, WalkInv
    <3>4. FoundPassed'
      BY <3>2, <3>3 DEF WalkInv, FoundPassed
    <3>5. TreesTypeOK'
      BY <3>2, TypeStays DEF WalkInv, TreesTypeOK
    <3> QED
      BY <3>1, <3>3, <3>4, <3>5 DEF WalkInv
  <2> QED
    BY <2>1, <2>2, <2>3, <2>4, <2>5, <2>6, <2>7 DEF TreesNext
<1>3. Inv => TreesRead
  OBVIOUS
<1> QED
  BY <1>1, <1>2, <1>3, PTL DEF TreesSpec
=============================================================================
