--------------------------- MODULE Playground_proofs ---------------------------
(***************************************************************************)
(* The playground, for any number of windows, sizes and colours.  First    *)
(* the daemons on their own, for any number of threads that use their      *)
(* handles: no wakeup is lost.  Then the windows: what is chosen for a     *)
(* camera is remembered, a restart keeps it, and a window that is closing  *)
(* stays closing.                                                          *)
(***************************************************************************)
EXTENDS Playground, FiniteSetTheorems, TLAPS

-----------------------------------------------------------------------------
(* The daemons.  The invariant is inductive together with the types: a     *)
(* thread gets to its park only by reading PAUSED, the state leaves PAUSED *)
(* only by a swap whose caller goes on to unpark it, and the token is      *)
(* consumed only on the way out of the park.                               *)

IInv == TypeOK /\ NoLostWakeup

\* The initial state: every worker is about to load its state.
LEMMA InitIInv == Init => IInv
BY DaemonAssumption DEF Init, IInv, TypeOK, NoLostWakeup, States, Places

\* Every step keeps the types.
LEMMA NextTypeOK == TypeOK /\ [Next]_daemonVars => TypeOK'
<1> SUFFICES ASSUME TypeOK, [Next]_daemonVars PROVE TypeOK'
    OBVIOUS
<1> USE DEF TypeOK, States, Places
<1>1. ASSUME NEW w \in Workers, Load(w) PROVE TypeOK'
  <2>1. Dispatch(runState[w]) \in Places
    BY DEF Dispatch
  <2> QED BY <1>1, <2>1 DEF Load
<1>2. ASSUME NEW w \in Workers, Unparked(w) PROVE TypeOK'
    BY <1>2 DEF Unparked
<1>3. ASSUME NEW w \in Workers, Work(w) \/ Panic(w) \/ Cleanup(w) \/ SpuriousWakeup(w)
      PROVE  TypeOK'
    BY <1>3 DEF Work, Panic, Cleanup, SpuriousWakeup
<1>4. ASSUME NEW c \in Callers, NEW w \in Workers, Start(c, w) \/ Pause(c, w) \/ Shutdown(c, w)
      PROVE  TypeOK'
    BY <1>4 DEF Start, Pause, Shutdown
<1>5. ASSUME NEW c \in Callers, Unpark(c) PROVE TypeOK'
    BY <1>5 DEF Unpark
<1>6. CASE UNCHANGED daemonVars
    BY <1>6 DEF daemonVars
<1> QED
    BY <1>1, <1>2, <1>3, <1>4, <1>5, <1>6 DEF Next, ThreadStep, HandleStep

\* Every step keeps the invariant.
LEMMA NextNoLostWakeup == IInv /\ [Next]_daemonVars => NoLostWakeup'
<1> SUFFICES ASSUME IInv, [Next]_daemonVars, NEW v \in Workers,
                    at'[v] = "park", runState'[v] # "PAUSED"
             PROVE  token'[v] \/ \E c \in Callers : unparking'[c] = v
    BY DEF NoLostWakeup
<1> USE DEF IInv, TypeOK, NoLostWakeup
<1>1. ASSUME NEW w \in Workers, Load(w)
      PROVE  token'[v] \/ \E c \in Callers : unparking'[c] = v
    BY <1>1 DEF Load, Dispatch, States
<1>2. ASSUME NEW w \in Workers, Unparked(w)
      PROVE  token'[v] \/ \E c \in Callers : unparking'[c] = v
    BY <1>2 DEF Unparked
<1>3. ASSUME NEW w \in Workers, Work(w) \/ Panic(w) \/ Cleanup(w) \/ SpuriousWakeup(w)
      PROVE  token'[v] \/ \E c \in Callers : unparking'[c] = v
    BY <1>3 DEF Work, Panic, Cleanup, SpuriousWakeup
<1>4. ASSUME NEW c \in Callers, NEW w \in Workers, Start(c, w)
      PROVE  token'[v] \/ \E d \in Callers : unparking'[d] = v
  <2>1. CASE v = w /\ runState[w] = "PAUSED"
      BY <1>4, <2>1 DEF Start
  <2>2. CASE ~(v = w /\ runState[w] = "PAUSED")
    <3>1. token[v] \/ \E d \in Callers : unparking[d] = v
        BY <1>4, <2>2 DEF Start
    <3>2. \A d \in Callers : unparking[d] = v => unparking'[d] = v
        BY <1>4, DaemonAssumption DEF Start
    <3> QED BY <1>4, <3>1, <3>2 DEF Start
  <2> QED BY <2>1, <2>2
<1>5. ASSUME NEW c \in Callers, NEW w \in Workers, Pause(c, w)
      PROVE  token'[v] \/ \E d \in Callers : unparking'[d] = v
    BY <1>5 DEF Pause
<1>6. ASSUME NEW c \in Callers, NEW w \in Workers, Shutdown(c, w)
      PROVE  token'[v] \/ \E d \in Callers : unparking'[d] = v
  <2>1. CASE v = w
      BY <1>6, <2>1 DEF Shutdown
  <2>2. CASE v # w
    <3>1. token[v] \/ \E d \in Callers : unparking[d] = v
        BY <1>6, <2>2 DEF Shutdown
    <3>2. \A d \in Callers : unparking[d] = v => unparking'[d] = v
        BY <1>6, DaemonAssumption DEF Shutdown
    <3> QED BY <1>6, <3>1, <3>2 DEF Shutdown
  <2> QED BY <2>1, <2>2
<1>7. ASSUME NEW c \in Callers, Unpark(c)
      PROVE  token'[v] \/ \E d \in Callers : unparking'[d] = v
    BY <1>7 DEF Unpark
<1>8. CASE UNCHANGED daemonVars
    BY <1>8 DEF daemonVars
<1> QED
    BY <1>1, <1>2, <1>3, <1>4, <1>5, <1>6, <1>7, <1>8 DEF Next, ThreadStep, HandleStep

\* A daemon that is not to be paused never waits for a wakeup that nobody
\* gives: start() and shutdown() (daemon.rs:76, 98) against the load and the
\* park of the worker's loop (daemon.rs:54), in any interleaving.
THEOREM DaemonWakes == Spec => []NoLostWakeup
<1>1. IInv /\ [Next]_daemonVars => IInv'
    BY NextTypeOK, NextNoLostWakeup DEF IInv
<1>2. IInv => NoLostWakeup
    BY DEF IInv
<1> QED
    BY InitIInv, <1>1, <1>2, PTL DEF Spec
-----------------------------------------------------------------------------
(* The free numbers.                                                       *)

\* A set of numbers that is not empty has a least one.
LEMMA LeastNumber ==
    ASSUME NEW S \in SUBSET Nat, S # {}
    PROVE  Min(S) \in S /\ \A k \in S : Min(S) <= k
<1> DEFINE R == OpToRel(<, Nat)
<1>1. PICK x \in S : \A y \in S : ~(<<y, x>> \in R)
  <2>1. IsWellFoundedOn(R, Nat)
    BY NatLessThanWellFounded
  <2> HIDE DEF R
  <2> QED
    BY <2>1, WFMin
<1>2. ASSUME NEW y \in S PROVE x <= y
  <2>1. ~(y < x)
    BY <1>1 DEF OpToRel
  <2> QED
    BY <2>1
<1> QED
  BY <1>2 DEF Min

\* There is a number to give away among the n + 1 that follow when n are taken, and
\* the one that is given is not taken.
LEMMA FreeNumber ==
    ASSUME NEW n \in Nat, NEW entries, IsFiniteSet(entries), \A m \in entries : m.id \in Nat
    PROVE  /\ FreeFrom(n, entries) \in Nat /\ FreeFrom(n, entries) >= n
           /\ \A m \in entries : m.id # FreeFrom(n, entries)
<1> DEFINE c == Cardinality(entries)
           I == n..(n + c)
           D == {m.id : m \in entries}
           F == {k \in I : \A m \in entries : m.id # k}
<1>1. c \in Nat
  BY FS_CardinalityType
<1>2. IsFiniteSet(D) /\ Cardinality(D) <= c
  <2> DEFINE f == [m \in entries |-> m.id]
  <2>1. f \in Surjection(entries, D)
    BY DEF Surjection
  <2> QED
    BY <2>1, FS_Surjection
<1>3. IsFiniteSet(I) /\ Cardinality(I) = c + 1
  <2>1. n \in Int /\ n + c \in Int /\ ~(n > n + c) /\ (n + c) - n + 1 = c + 1
    BY <1>1
  <2> HIDE DEF c
  <2> QED
    BY <2>1, FS_Interval
<1>4. ~(I \subseteq D)
  <2>1. I \subseteq D => Cardinality(I) <= Cardinality(D)
    BY <1>2, FS_Subset
  <2>2. Cardinality(D) \in Nat
    BY <1>2, FS_CardinalityType
  <2> HIDE DEF c, I, D
  <2> QED
    BY <1>1, <1>2, <1>3, <2>1, <2>2
<1>5. F # {} /\ F \in SUBSET Nat
  BY <1>1, <1>4
<1>6. Min(F) \in F
  <2> HIDE DEF F
  <2> QED
    BY <1>5, LeastNumber
<1>7. FreeFrom(n, entries) = Min(F)
  BY DEF FreeFrom
<1> QED
  BY <1>1, <1>6, <1>7

-----------------------------------------------------------------------------
(* The windows.                                                            *)

\* What the variables that the list of monochrome cameras depends on range over.
MonoTypeOK ==
    /\ windows \in SUBSET Workers
    /\ ident \in [Workers -> Nat \cup {Image}]
    /\ buf \in [Workers -> Looks]
    /\ opts \in [Workers -> Options \cup {NoLook}]
    /\ IsFiniteSet(monochrome) /\ monochrome \in SUBSET [id : Nat, look : Looks]
    /\ monoCount \in Nat

\* The number the next camera gets is nobody's.
CountIsFree == \A m \in monochrome : m.id # monoCount

\* A slot without a window is as it was in the beginning.
SlotsClean ==
    \A w \in Workers \ windows : opts[w] = NoLook /\ buf[w] = DefaultLook

\* What is not pending in the options of a camera is what the camera has.
OptionsSettled ==
    \A w \in Workers : opts[w] # NoLook /\ ~opts[w].reshape =>
        /\ opts[w].look.size = buf[w].size
        /\ ~opts[w].recolor => opts[w].look = buf[w]

\* The inductive invariant.  An entry is made with the number that was looked for
\* when the camera before it was made, so the number must stay free until then; and
\* that the two copies of the options agree when the worker takes them over needs
\* that what is not pending was taken over before.
MonoInv == MonoTypeOK /\ CountIsFree /\ SlotsClean /\ OptionsSettled /\ MonosRemembered

LEMMA DefaultIsLook == DefaultLook \in Looks
<1>1. PICK s \in Sizes, c \in Colors : TRUE
  BY LookAssumption
<1>2. [size |-> s, color |-> c] \in Looks
  BY DEF Looks
<1> QED
  BY <1>2 DEF DefaultLook

LEMMA OptionsShape ==
    ASSUME NEW o \in Options
    PROVE  /\ o # NoLook /\ o.look \in Looks /\ o.reshape \in BOOLEAN /\ o.recolor \in BOOLEAN
           /\ o = [look |-> o.look, reshape |-> o.reshape, recolor |-> o.recolor]
BY LookAssumption DEF Options

\* No window, no entry.
LEMMA InitMono == PlaygroundInit => MonoInv
<1> SUFFICES ASSUME PlaygroundInit PROVE MonoInv
  OBVIOUS
<1>1. MonoTypeOK
  BY DefaultIsLook, FS_EmptySet DEF PlaygroundInit, MonoTypeOK
<1>2. CountIsFree /\ SlotsClean /\ OptionsSettled /\ MonosRemembered
  BY DEF PlaygroundInit, CountIsFree, SlotsClean, OptionsSettled, MonosRemembered
<1> QED
  BY <1>1, <1>2 DEF MonoInv

\* Steps that leave the list, the looks and the numbers alone.
LEMMA MonoStays ==
    ASSUME MonoInv, UNCHANGED <<windows, ident, buf, opts, monochrome, monoCount>>
    PROVE  MonoInv'
BY DEF MonoInv, MonoTypeOK, CountIsFree, SlotsClean, OptionsSettled, MonosRemembered, Shown

LEMMA AddMonoKeeps ==
    ASSUME MonoInv, AddMono
    PROVE  MonoInv'
<1> USE DEF MonoInv
<1> DEFINE n == FreeFrom(monoCount + 1, monochrome)
<1>1. n \in Nat /\ n >= monoCount + 1 /\ (\A m \in monochrome : m.id # n)
  <2>1. monoCount + 1 \in Nat /\ \A m \in monochrome : m.id \in Nat
    BY DEF MonoTypeOK
  <2> QED
    BY <2>1, FreeNumber DEF MonoTypeOK
<1>2. monoCount' = n /\ monoCount \in Nat
  BY DEF AddMono, MonoTypeOK
<1> HIDE DEF n
<1>3. CASE UNCHANGED <<windows, ident, buf, opts, monochrome>>
  <2>1. MonoTypeOK' /\ CountIsFree'
    BY <1>1, <1>2, <1>3 DEF MonoTypeOK, CountIsFree
  <2>2. SlotsClean' /\ OptionsSettled' /\ MonosRemembered'
    BY <1>3 DEF SlotsClean, OptionsSettled, MonosRemembered, Shown
  <2> QED
    BY <2>1, <2>2
<1>4. ASSUME NEW w \in Workers \ windows, OpenWindow(w, monoCount),
             monochrome' = monochrome \cup {Entry(monoCount, DefaultLook)}
      PROVE  MonoInv'
  <2>1. /\ windows' = windows \cup {w} /\ UNCHANGED <<buf, opts>>
        /\ ident' = [ident EXCEPT ![w] = monoCount]
    BY <1>4 DEF OpenWindow
  <2>2. /\ Entry(monoCount, DefaultLook).id = monoCount
        /\ Entry(monoCount, DefaultLook) \in [id : Nat, look : Looks]
    BY <1>2, DefaultIsLook DEF Entry
  <2>3. MonoTypeOK'
    <3>1. IsFiniteSet(monochrome')
      BY <1>4, FS_AddElement DEF MonoTypeOK
    <3> QED
      BY <1>1, <1>2, <1>4, <2>1, <2>2, <3>1 DEF MonoTypeOK
  <2>4. CountIsFree'
    BY <1>1, <1>2, <1>4, <2>2 DEF CountIsFree
  <2>5. SlotsClean' /\ OptionsSettled'
    BY <2>1 DEF SlotsClean, OptionsSettled
  <2>6. MonosRemembered'
    <3> SUFFICES ASSUME NEW v \in windows', ident'[v] # Image
                 PROVE  /\ \A u \in windows' : ident'[u] = ident'[v] => u = v
                        /\ {m \in monochrome' : m.id = ident'[v]}
                               = {Entry(ident'[v], Shown(opts'[v], buf'[v]))}
      BY DEF MonosRemembered
    <3>1. ASSUME NEW u \in windows, ident[u] # Image
          PROVE  u # w /\ ident'[u] = ident[u] /\ ident[u] # monoCount
      <4>1. {m \in monochrome : m.id = ident[u]} = {Entry(ident[u], Shown(opts[u], buf[u]))}
        BY <3>1 DEF MonosRemembered
      <4>2. PICK m \in monochrome : m.id = ident[u]
        BY <4>1
      <4> QED
        BY <2>1, <3>1, <4>2, <1>4 DEF CountIsFree, MonoTypeOK
    <3>2. ident'[w] = monoCount
      BY <2>1 DEF MonoTypeOK
    <3>3. ASSUME NEW u \in windows, ident[u] = Image
          PROVE  u # w /\ ident'[u] = Image
      BY <1>4, <2>1, <3>3 DEF MonoTypeOK
    <3>4. monoCount # Image
      BY <1>2, PlaygroundAssumption
    <3>5. CASE v = w
      <4>1. \A u \in windows' : ident'[u] = monoCount => u = w
        BY <2>1, <3>1, <3>3, <3>4
      <4>2. {m \in monochrome' : m.id = monoCount} = {Entry(monoCount, DefaultLook)}
        BY <1>4, <2>2 DEF CountIsFree
      <4>3. Shown(opts'[w], buf'[w]) = DefaultLook
        BY <2>1, <1>4 DEF SlotsClean, Shown
      <4> QED
        BY <3>2, <3>5, <4>1, <4>2, <4>3
    <3>6. CASE v # w
      <4>1. v \in windows /\ ident[v] # Image /\ ident'[v] = ident[v] /\ ident[v] # monoCount
        BY <2>1, <3>1, <3>3, <3>6
      <4>2. \A u \in windows' : ident'[u] = ident'[v] => u = v
        <5> SUFFICES ASSUME NEW u \in windows', ident'[u] = ident'[v] PROVE u = v
          OBVIOUS
        <5>1. u # w /\ u \in windows
          BY <2>1, <3>2, <4>1
        <5>2. ident[u] = ident[v]
          BY <3>1, <3>3, <4>1, <5>1
        <5> QED
          BY <4>1, <5>1, <5>2 DEF MonosRemembered
      <4>3. {m \in monochrome' : m.id = ident[v]} = {m \in monochrome : m.id = ident[v]}
        BY <1>4, <2>2, <4>1
      <4>4. {m \in monochrome : m.id = ident[v]} = {Entry(ident[v], Shown(opts[v], buf[v]))}
        BY <4>1 DEF MonosRemembered
      <4> QED
        BY <2>1, <4>1, <4>2, <4>3, <4>4
    <3> QED
      BY <3>5, <3>6
  <2> QED
    BY <2>3, <2>4, <2>5, <2>6
<1> QED
  BY <1>3, <1>4 DEF AddMono

LEMMA AddImageKeeps ==
    ASSUME MonoInv, AddImage
    PROVE  MonoInv'
<1> USE DEF MonoInv
<1>1. PICK w \in Workers \ windows : OpenWindow(w, Image)
  BY DEF AddImage
<1>2. /\ windows' = windows \cup {w} /\ UNCHANGED <<buf, opts, monochrome, monoCount>>
      /\ ident' = [ident EXCEPT ![w] = Image]
  BY <1>1 DEF OpenWindow, AddImage
<1>3. MonoTypeOK' /\ CountIsFree' /\ SlotsClean' /\ OptionsSettled'
  BY <1>2 DEF MonoTypeOK, CountIsFree, SlotsClean, OptionsSettled
<1>4. MonosRemembered'
  <2> SUFFICES ASSUME NEW v \in windows', ident'[v] # Image
               PROVE  /\ \A u \in windows' : ident'[u] = ident'[v] => u = v
                      /\ {m \in monochrome' : m.id = ident'[v]}
                             = {Entry(ident'[v], Shown(opts'[v], buf'[v]))}
    BY DEF MonosRemembered
  <2>1. v \in windows /\ ident'[v] = ident[v]
    BY <1>2 DEF MonoTypeOK
  <2>2. \A u \in windows' : ident'[u] = ident'[v] => u \in windows /\ ident[u] = ident[v]
    BY <1>2, <2>1 DEF MonoTypeOK
  <2> QED
    BY <1>2, <2>1, <2>2 DEF MonosRemembered
<1> QED
  BY <1>3, <1>4

\* The options that are edited say what the camera does not have yet, and the entry
\* of the camera, and no other, follows them.
LEMMA EditMonoKeeps ==
    ASSUME MonoInv, NEW w \in Workers, EditMono(w)
    PROVE  MonoInv'
<1> USE DEF MonoInv
<1>1. PICK look \in Looks :
          /\ look # opts[w].look
          /\ opts' = [opts EXCEPT ![w] =
                         [look    |-> look,
                          reshape |-> opts[w].reshape \/ look.size # opts[w].look.size,
                          recolor |-> opts[w].recolor \/ look.color # opts[w].look.color]]
          /\ monochrome' = {IF m.id = ident[w] THEN Entry(m.id, look) ELSE m : m \in monochrome}
  BY DEF EditMono
<1> DEFINE o == opts[w]
           e == [look    |-> look,
                 reshape |-> o.reshape \/ look.size # o.look.size,
                 recolor |-> o.recolor \/ look.color # o.look.color]
<1>2. o \in Options /\ o # NoLook /\ w \in windows
  BY DEF EditMono, MonoTypeOK
<1>3. /\ e \in Options /\ e # NoLook /\ e.look = look
      /\ ~e.reshape => ~o.reshape /\ look.size = o.look.size
      /\ ~e.recolor => ~o.recolor /\ look.color = o.look.color
  <2>1. e \in Options
    BY DEF Options
  <2> QED
    BY <1>2, <2>1, OptionsShape
<1>4. /\ opts' = [opts EXCEPT ![w] = e] /\ opts'[w] = e
      /\ \A v \in Workers \ {w} : opts'[v] = opts[v]
      /\ UNCHANGED <<windows, ident, buf, monoCount>>
  BY <1>1 DEF EditMono, MonoTypeOK
<1> DEFINE Edit(m) == IF m.id = ident[w] THEN Entry(m.id, look) ELSE m
<1>5. ASSUME NEW m \in monochrome
      PROVE  Edit(m) \in [id : Nat, look : Looks] /\ Edit(m).id = m.id
  BY DEF Entry, MonoTypeOK
<1>6. monochrome' = {Edit(m) : m \in monochrome}
  BY <1>1
<1> HIDE DEF e
<1>7. MonoTypeOK'
  <2>1. IsFiniteSet(monochrome')
    <3> DEFINE f == [m \in monochrome |-> Edit(m)]
    <3>1. f \in Surjection(monochrome, monochrome')
      BY <1>6 DEF Surjection
    <3> QED
      BY <3>1, FS_Surjection DEF MonoTypeOK
  <2>2. monochrome' \in SUBSET [id : Nat, look : Looks]
    BY <1>5, <1>6
  <2> QED
    BY <1>3, <1>4, <2>1, <2>2 DEF MonoTypeOK
<1>8. CountIsFree'
  BY <1>4, <1>5, <1>6 DEF CountIsFree
<1>9. SlotsClean'
  BY <1>2, <1>4 DEF SlotsClean
<1>10. OptionsSettled'
  <2>1. ~e.reshape => /\ e.look.size = buf[w].size
                      /\ ~e.recolor => e.look = buf[w]
    <3>1. ASSUME ~e.reshape PROVE e.look.size = buf[w].size
      BY <1>2, <1>3, <3>1 DEF OptionsSettled
    <3>2. ASSUME ~e.reshape, ~e.recolor PROVE FALSE
      <4>1. look.size = o.look.size /\ look.color = o.look.color
        BY <1>3, <3>2
      <4>2. look = o.look
        BY <1>2, <4>1 DEF Looks, Options
      <4> QED
        BY <1>1, <4>2
    <3> QED
      BY <3>1, <3>2
  <2> QED
    BY <1>4, <2>1 DEF OptionsSettled
<1>11. MonosRemembered'
  <2> SUFFICES ASSUME NEW v \in windows, ident[v] # Image
               PROVE  /\ \A u \in windows : ident[u] = ident[v] => u = v
                      /\ {m \in monochrome' : m.id = ident[v]}
                             = {Entry(ident[v], Shown(opts'[v], buf[v]))}
    BY <1>4 DEF MonosRemembered, MonoTypeOK
  <2>1. \A u \in windows : ident[u] = ident[v] => u = v
    BY DEF MonosRemembered
  <2>2. {m \in monochrome : m.id = ident[v]} = {Entry(ident[v], Shown(opts[v], buf[v]))}
    BY DEF MonosRemembered
  <2>3. {m \in monochrome' : m.id = ident[v]}
            = {Edit(m) : m \in {x \in monochrome : x.id = ident[v]}}
    BY <1>5, <1>6
  <2>4. CASE v = w
    <3>1. {m \in monochrome' : m.id = ident[v]} = {Entry(ident[w], look)}
      <4>1. \A m \in {x \in monochrome : x.id = ident[v]} : Edit(m) = Entry(ident[w], look)
        BY <2>4
      <4>2. {x \in monochrome : x.id = ident[v]} # {}
        BY <2>2
      <4> HIDE DEF Edit
      <4> QED
        BY <2>3, <4>1, <4>2
    <3>2. Shown(opts'[w], buf[w]) = look
      <4>1. e.reshape \/ e.recolor
        <5>1. ASSUME ~e.reshape, ~e.recolor PROVE FALSE
          <6>1. look.size = o.look.size /\ look.color = o.look.color
            BY <1>3, <5>1
          <6>2. look = o.look
            BY <1>2, <6>1 DEF Looks, Options
          <6> QED
            BY <1>1, <6>2
        <5> QED
          BY <5>1
      <4> QED
        BY <1>3, <1>4, <4>1 DEF Shown
    <3> QED
      BY <2>1, <2>4, <3>1, <3>2
  <2>5. CASE v # w
    <3>1. \A m \in {x \in monochrome : x.id = ident[v]} : Edit(m) = m
      BY <1>2, <2>1, <2>5
    <3>2. {Edit(m) : m \in {x \in monochrome : x.id = ident[v]}}
              = {x \in monochrome : x.id = ident[v]}
      <4> HIDE DEF Edit
      <4> QED
        BY <3>1
    <3>3. opts'[v] = opts[v]
      BY <1>4, <2>5 DEF MonoTypeOK
    <3> QED
      BY <2>1, <2>2, <2>3, <3>2, <3>3
  <2> QED
    BY <2>4, <2>5
<1> QED
  BY <1>7, <1>8, <1>9, <1>10, <1>11

LEMMA ReapKeeps ==
    ASSUME MonoInv, NEW w \in Workers, Reap(w)
    PROVE  MonoInv'
<1> USE DEF MonoInv
<1>1. /\ w \in windows /\ windows' = windows \ {w} /\ monoCount' = monoCount
      /\ monochrome' = {m \in monochrome : m.id # ident[w]}
      /\ ident' = [ident EXCEPT ![w] = Image]
      /\ buf' = [buf EXCEPT ![w] = DefaultLook]
      /\ opts' = [opts EXCEPT ![w] = NoLook]
  BY DEF Reap, Freed
<1>2. MonoTypeOK'
  <2>1. IsFiniteSet(monochrome')
    BY <1>1, FS_Subset DEF MonoTypeOK
  <2> QED
    BY <1>1, <2>1, DefaultIsLook DEF MonoTypeOK
<1>3. CountIsFree' /\ SlotsClean' /\ OptionsSettled'
  BY <1>1 DEF CountIsFree, SlotsClean, OptionsSettled, MonoTypeOK
<1>4. MonosRemembered'
  <2> SUFFICES ASSUME NEW v \in windows', ident'[v] # Image
               PROVE  /\ \A u \in windows' : ident'[u] = ident'[v] => u = v
                      /\ {m \in monochrome' : m.id = ident'[v]}
                             = {Entry(ident'[v], Shown(opts'[v], buf'[v]))}
    BY DEF MonosRemembered
  <2>1. /\ v \in windows /\ v # w /\ ident'[v] = ident[v]
        /\ opts'[v] = opts[v] /\ buf'[v] = buf[v]
    BY <1>1 DEF MonoTypeOK
  <2>2. \A u \in windows' : u \in windows /\ ident'[u] = ident[u]
    BY <1>1 DEF MonoTypeOK
  <2>3. ident[w] # ident[v]
    BY <1>1, <2>1 DEF MonosRemembered
  <2>4. {m \in monochrome' : m.id = ident[v]} = {m \in monochrome : m.id = ident[v]}
    BY <1>1, <2>3
  <2> QED
    BY <2>1, <2>2, <2>4 DEF MonosRemembered
<1> QED
  BY <1>2, <1>3, <1>4

\* What the camera has after the worker's step is what the window showed before it:
\* whatever was pending when the worker looked, the entry was right already.
LEMMA WorkTakesOver ==
    ASSUME NEW o \in Options, NEW b \in Looks,
           ~o.reshape => o.look.size = b.size /\ (~o.recolor => o.look = b)
    PROVE  /\ Exchange(o, b) = o.look /\ Shown(o, b) = o.look
           /\ Settled(o.look) \in Options /\ Shown(Settled(o.look), o.look) = o.look
<1>1. o # NoLook /\ o.look \in Looks /\ o.reshape \in BOOLEAN /\ o.recolor \in BOOLEAN
  BY OptionsShape
<1>2. o.look = [size |-> o.look.size, color |-> o.look.color]
  BY <1>1 DEF Looks
<1>3. ~o.reshape /\ ~o.recolor => o.look.color = b.color
  OBVIOUS
<1>4. Exchange(o, b) = o.look
  BY <1>2, <1>3 DEF Exchange
<1>5. Shown(o, b) = o.look
  BY <1>1 DEF Shown
<1>6. Settled(o.look) \in Options
  BY <1>1 DEF Settled, Options
<1>7. Shown(Settled(o.look), o.look) = o.look
  BY DEF Settled, Shown
<1> QED
  BY <1>4, <1>5, <1>6, <1>7

LEMMA CameraWorkKeeps ==
    ASSUME MonoInv, NEW w \in windows, CameraWork(w)
    PROVE  MonoInv'
<1> USE DEF MonoInv
<1>1. UNCHANGED <<windows, ident, monochrome, monoCount>> /\ w \in Workers
  BY DEF CameraWork, MonoTypeOK
<1>2. CASE ident[w] = Image
  BY <1>1, <1>2, MonoStays DEF CameraWork
<1>3. CASE ident[w] # Image
  <2>1. PICK look \in Looks :
            /\ look = Shown(opts[w], buf[w])
            /\ buf' = [buf EXCEPT ![w] = look]
            /\ opts' = [opts EXCEPT ![w] = Settled(look)]
            /\ Settled(look) \in Options /\ Shown(Settled(look), look) = look
    <3> DEFINE l == IF opts[w] = NoLook THEN buf[w] ELSE Exchange(opts[w], buf[w])
    <3>1. buf' = [buf EXCEPT ![w] = l] /\ opts' = [opts EXCEPT ![w] = Settled(l)]
      BY <1>3 DEF CameraWork
    <3>2. buf[w] \in Looks
      BY <1>1 DEF MonoTypeOK
    <3>3. /\ l \in Looks /\ l = Shown(opts[w], buf[w])
          /\ Settled(l) \in Options /\ Shown(Settled(l), l) = l
      <4>1. CASE opts[w] = NoLook
        <5>1. Settled(buf[w]) \in Options /\ Shown(Settled(buf[w]), buf[w]) = buf[w]
          BY <3>2 DEF Settled, Options, Shown
        <5> QED
          BY <3>2, <4>1, <5>1 DEF Shown
      <4>2. CASE opts[w] # NoLook
        <5>1. opts[w] \in Options
          BY <1>1, <4>2 DEF MonoTypeOK
        <5>2. ~opts[w].reshape =>
                  opts[w].look.size = buf[w].size /\ (~opts[w].recolor => opts[w].look = buf[w])
          BY <1>1, <4>2 DEF OptionsSettled
        <5> QED
          BY <3>2, <4>2, <5>1, <5>2, WorkTakesOver, OptionsShape
      <4> QED
        BY <4>1, <4>2
    <3> HIDE DEF l
    <3> QED
      BY <3>1, <3>3
  <2>2. /\ buf'[w] = look /\ opts'[w] = Settled(look) /\ opts'[w] \in Options
        /\ \A v \in Workers \ {w} : buf'[v] = buf[v] /\ opts'[v] = opts[v]
    BY <1>1, <2>1 DEF MonoTypeOK
  <2>3. MonoTypeOK' /\ CountIsFree'
    BY <1>1, <2>1 DEF MonoTypeOK, CountIsFree
  <2>4. SlotsClean'
    BY <1>1, <2>2 DEF SlotsClean
  <2>5. OptionsSettled'
    <3>1. /\ Settled(look).look = look /\ ~Settled(look).reshape
      BY DEF Settled
    <3> QED
      BY <1>1, <2>2, <3>1 DEF OptionsSettled
  <2>6. \A v \in windows : Shown(opts'[v], buf'[v]) = Shown(opts[v], buf[v])
    <3>1. Shown(opts'[w], buf'[w]) = Shown(opts[w], buf[w])
      BY <2>1, <2>2
    <3> QED
      BY <2>2, <3>1 DEF MonoTypeOK
  <2>7. MonosRemembered'
    BY <1>1, <2>6 DEF MonosRemembered
  <2> QED
    BY <2>3, <2>4, <2>5, <2>7
<1> QED
  BY <1>2, <1>3

\* A camera that comes back has the look of its entry, which is the one it showed.
LEMMA RestartFinds ==
    ASSUME MonoInv, Restart, NEW w \in windows, ident[w] # Image
    PROVE  /\ LookOf(ident[w], monochrome) = Shown(opts[w], buf[w])
           /\ \E m \in monochrome : m.id = ident[w]
<1> DEFINE e == Entry(ident[w], Shown(opts[w], buf[w]))
<1>1. {m \in monochrome : m.id = ident[w]} = {e}
  BY DEF MonoInv, MonosRemembered
<1>2. e.look = Shown(opts[w], buf[w])
  BY DEF Entry
<1> HIDE DEF e
<1>3. e \in monochrome /\ e.id = ident[w] /\ \A m \in monochrome : m.id = ident[w] => m = e
  BY <1>1
<1> QED
  BY <1>2, <1>3 DEF LookOf

LEMMA RestartLoses ==
    ASSUME MonoInv, Restart
    PROVE  /\ windows' = windows
           /\ \A w \in windows : ident'[w] = ident[w]
           /\ \A w \in windows : ident[w] # Image => buf'[w] = Shown(opts[w], buf[w])
<1>1. windows \subseteq Workers
  BY DEF MonoInv, MonoTypeOK
<1>2. windows' = windows
  BY RestartFinds DEF Restart
<1>3. \A w \in windows : ident'[w] = ident[w]
  BY <1>1, <1>2 DEF Restart
<1>4. ASSUME NEW w \in windows, ident[w] # Image
      PROVE  buf'[w] = Shown(opts[w], buf[w])
  <2>1. buf'[w] = LookOf(ident[w], monochrome)
    BY <1>1, <1>3 DEF Restart
  <2> QED
    BY <1>4, <2>1, RestartFinds
<1> QED
  BY <1>2, <1>3, <1>4

LEMMA RestartKeepsInv ==
    ASSUME MonoInv, Restart
    PROVE  MonoInv'
<1> USE DEF MonoInv
<1>1. UNCHANGED <<windows, monochrome>> /\ windows \in SUBSET Workers
  BY RestartLoses DEF Restart, MonoTypeOK
<1>2. ident' = [w \in Workers |-> IF w \in windows THEN ident[w] ELSE Image]
  BY <1>1 DEF Restart
<1>3. /\ opts' = [w \in Workers |-> NoLook]
      /\ buf' = [w \in Workers |-> LookOf(ident'[w], monochrome)]
  BY DEF Restart
<1>4. \A i : LookOf(i, monochrome) \in Looks
  <2> SUFFICES ASSUME NEW i PROVE LookOf(i, monochrome) \in Looks
    OBVIOUS
  <2>1. CASE \E m \in monochrome : m.id = i
    <3>1. PICK m \in monochrome : m.id = i
      BY <2>1
    <3>2. (CHOOSE x \in monochrome : x.id = i) \in monochrome
      BY <3>1
    <3> QED
      BY <2>1, <3>2 DEF LookOf, MonoTypeOK
  <2>2. CASE ~ \E m \in monochrome : m.id = i
    BY <2>2, DefaultIsLook DEF LookOf
  <2> QED
    BY <2>1, <2>2
<1>5. LookOf(Image, monochrome) = DefaultLook
  BY PlaygroundAssumption DEF LookOf, MonoTypeOK
<1>6. monoCount' \in Nat /\ CountIsFree'
  <2>1. \A m \in monochrome : m.id \in Nat
    BY DEF MonoTypeOK
  <2>2. monoCount' = FreeFrom(0, monochrome)
    BY DEF Restart
  <2> QED
    BY <1>1, <2>1, <2>2, FreeNumber DEF MonoTypeOK, CountIsFree
<1>7. MonoTypeOK'
  BY <1>1, <1>2, <1>3, <1>4, <1>6 DEF MonoTypeOK
<1>8. SlotsClean' /\ OptionsSettled'
  BY <1>1, <1>2, <1>3, <1>5 DEF SlotsClean, OptionsSettled
<1>9. MonosRemembered'
  <2> SUFFICES ASSUME NEW v \in windows, ident'[v] # Image
               PROVE  /\ \A u \in windows : ident'[u] = ident'[v] => u = v
                      /\ {m \in monochrome : m.id = ident'[v]}
                             = {Entry(ident'[v], Shown(opts'[v], buf'[v]))}
    BY <1>1 DEF MonosRemembered
  <2>1. \A u \in windows : ident'[u] = ident[u]
    BY <1>1, <1>2
  <2>2. Shown(opts'[v], buf'[v]) = buf'[v]
    BY <1>1, <1>3 DEF Shown
  <2>3. buf'[v] = Shown(opts[v], buf[v])
    BY <2>1, RestartLoses
  <2> QED
    BY <2>1, <2>2, <2>3 DEF MonosRemembered
<1> QED
  BY <1>6, <1>7, <1>8, <1>9

LEMMA NextMono ==
    ASSUME MonoInv, [PlaygroundNext]_vars
    PROVE  MonoInv'
<1>1. CASE AddMono
  BY <1>1, AddMonoKeeps
<1>2. CASE AddImage
  BY <1>2, AddImageKeeps
<1>3. ASSUME NEW w \in Workers,
             Click(w) \/ EditMono(w) \/ AddDerived(w) \/ Render(w) \/ DeleteDerived(w) \/ Reap(w)
      PROVE  MonoInv'
  <2>1. CASE Click(w) \/ AddDerived(w) \/ Render(w) \/ DeleteDerived(w)
    BY <2>1, MonoStays DEF Click, AddDerived, Render, DeleteDerived, pgVars
  <2>2. CASE EditMono(w)
    BY <2>2, EditMonoKeeps
  <2>3. CASE Reap(w)
    BY <2>3, ReapKeeps
  <2> QED
    BY <1>3, <2>1, <2>2, <2>3
<1>4. CASE UNCHANGED pgVars
  BY <1>4, MonoStays DEF pgVars
<1>5. CASE Restart
  BY <1>5, RestartKeepsInv
<1>6. ASSUME NEW w \in Workers, CameraThread(w)
      PROVE  MonoInv'
  <2>1. CASE CameraWork(w)
    BY <1>6, <2>1, CameraWorkKeeps DEF CameraThread
  <2>2. CASE UNCHANGED pgVars
    BY <2>2, MonoStays DEF pgVars
  <2> QED
    BY <1>6, <2>1, <2>2 DEF CameraThread
<1> QED
  BY <1>1, <1>2, <1>3, <1>4, <1>5, <1>6 DEF PlaygroundNext, Interface, vars

\* What is saved of a camera is what was chosen for it last, in every state: the list
\* of the window and the options under the worker's lock agree (pg's main.rs and
\* camera.rs), for any number of cameras, sizes and colours.
THEOREM ChoicesRemembered == PlaygroundSpec => []MonosRemembered
<1>1. MonoInv => MonosRemembered
  BY DEF MonoInv
<1> QED
  BY <1>1, InitMono, NextMono, PTL DEF PlaygroundSpec

\* A restart, at whatever moment, closes no window and brings every camera back with
\* the look that was chosen for it.
THEOREM RestartBringsBack == PlaygroundSpec => RestartKeeps
<1>1. MonoInv /\ Restart => /\ windows' = windows
                            /\ \A w \in windows : ident[w] # Image =>
                                   buf'[w] = Shown(opts[w], buf[w])
  BY RestartLoses
<1>2. PlaygroundSpec => []MonoInv
  BY InitMono, NextMono, PTL DEF PlaygroundSpec
<1> QED
  BY <1>1, <1>2, PTL DEF PlaygroundSpec, RestartKeeps

-----------------------------------------------------------------------------
(* The threads behind the windows.                                         *)

LEMMA UIisCaller == UI \in Callers
BY LookAssumption DEF UI

\* A thread's step and a handle's, as the daemon takes them.
LEMMA DaemonSteps ==
    /\ \A w \in Workers : Click(w) => [Next]_daemonVars
    /\ \A w \in Workers : CameraThread(w) => [Next]_daemonVars
    /\ Unpark(UI) => [Next]_daemonVars
<1>1. \A w \in Workers : Click(w) => HandleStep(UI)
  BY DEF Click, HandleStep
<1>2. \A w \in Workers : CameraThread(w) => ThreadStep(w)
  BY DEF CameraThread, CameraWork, ThreadStep
<1> QED
  BY <1>1, <1>2, UIisCaller DEF Next, HandleStep

\* A slot that is taken, given back or started anew has its token or is not parked.
LEMMA SlotWakes ==
    ASSUME IInv, \/ \E w \in Workers : Spawned(w)
                 \/ \E w \in Workers : Freed(w) /\ UNCHANGED unparking
                 \/ Restart
    PROVE  IInv'
<1> USE DEF IInv, TypeOK, NoLostWakeup, States, Places
<1>1. ASSUME NEW w \in Workers, Spawned(w) PROVE IInv'
  BY <1>1 DEF Spawned
<1>2. ASSUME NEW w \in Workers, Freed(w), UNCHANGED unparking PROVE IInv'
  BY <1>2 DEF Freed
<1>3. ASSUME Restart PROVE IInv'
  BY <1>3 DEF Restart
<1> QED
  BY <1>1, <1>2, <1>3

LEMMA NextWakes ==
    ASSUME IInv, [PlaygroundNext]_vars
    PROVE  IInv'
<1>1. [Next]_daemonVars => IInv'
  BY NextTypeOK, NextNoLostWakeup DEF IInv
<1>2. CASE AddMono \/ AddImage
  <2>1. UNCHANGED daemonVars \/ \E w \in Workers : Spawned(w)
    BY <1>2 DEF AddMono, AddImage, OpenWindow
  <2> QED
    BY <1>1, <2>1, SlotWakes
<1>3. ASSUME NEW w \in Workers,
             Click(w) \/ EditMono(w) \/ AddDerived(w) \/ Render(w) \/ DeleteDerived(w) \/ Reap(w)
      PROVE  IInv'
  <2>1. CASE Click(w)
    BY <1>1, <2>1, DaemonSteps
  <2>2. CASE EditMono(w) \/ AddDerived(w) \/ Render(w) \/ DeleteDerived(w)
    BY <1>1, <2>2 DEF EditMono, AddDerived, Render, DeleteDerived
  <2>3. CASE Reap(w)
    BY <2>3, SlotWakes DEF Reap
  <2> QED
    BY <1>3, <2>1, <2>2, <2>3
<1>4. CASE Unpark(UI) \/ UNCHANGED vars
  BY <1>1, <1>4, DaemonSteps DEF vars
<1>5. CASE Restart
  BY <1>5, SlotWakes
<1>6. ASSUME NEW w \in Workers, CameraThread(w) PROVE IInv'
  BY <1>1, <1>6, DaemonSteps
<1> QED
  BY <1>2, <1>3, <1>4, <1>5, <1>6 DEF PlaygroundNext, Interface

LEMMA InitWakes == PlaygroundInit => IInv
BY InitIInv DEF PlaygroundInit

\* No thread of a window waits for a wakeup that nobody gives, although windows are
\* opened, closed and opened again, and the program is started again in between.
THEOREM WindowsWake == PlaygroundSpec => []NoLostWakeup
<1>1. IInv => NoLostWakeup
  BY DEF IInv
<1> QED
  BY <1>1, InitWakes, NextWakes, PTL DEF PlaygroundSpec

\* The buttons of a window that is closing call its thread back in no state.
THEOREM ClosingStaysClosed == PlaygroundSpec => StaysClosed
<1> DEFINE Kept == \A w \in windows :
                       runState[w] = "SHUTDOWN" /\ w \in windows' /\ ~Restart
                           => runState'[w] = "SHUTDOWN"
           Inv == IInv /\ MonoInv
<1>1. ASSUME Inv, [PlaygroundNext]_vars PROVE Kept
  <2> SUFFICES ASSUME NEW w \in windows, runState[w] = "SHUTDOWN", w \in windows', ~Restart
               PROVE  runState'[w] = "SHUTDOWN"
    OBVIOUS
  <2> USE <1>1 DEF Inv, IInv, TypeOK, MonoInv, MonoTypeOK
  <2>1. CASE AddMono \/ AddImage
    BY <2>1 DEF AddMono, AddImage, OpenWindow, Spawned, daemonVars
  <2>2. ASSUME NEW v \in Workers,
               Click(v) \/ EditMono(v) \/ AddDerived(v) \/ Render(v) \/ DeleteDerived(v) \/ Reap(v)
        PROVE  runState'[w] = "SHUTDOWN"
    <3>1. CASE Click(v)
      BY <3>1 DEF Click, Start, Pause, Shutdown
    <3>2. CASE EditMono(v) \/ AddDerived(v) \/ Render(v) \/ DeleteDerived(v)
      BY <3>2 DEF EditMono, AddDerived, Render, DeleteDerived, daemonVars
    <3>3. CASE Reap(v)
      BY <3>3 DEF Reap, Freed
    <3> QED
      BY <2>2, <3>1, <3>2, <3>3
  <2>3. CASE Unpark(UI) \/ UNCHANGED vars
    BY <2>3 DEF Unpark, vars, daemonVars
  <2>4. ASSUME NEW v \in Workers, CameraThread(v)
        PROVE  runState'[w] = "SHUTDOWN"
    BY <2>4 DEF CameraThread, CameraWork, Load, Unparked, Cleanup, Work
  <2> QED
    BY <2>1, <2>2, <2>3, <2>4 DEF PlaygroundNext, Interface
<1>2. PlaygroundSpec => []Inv
  BY InitMono, NextMono, InitWakes, NextWakes, PTL DEF PlaygroundSpec
<1> QED
  BY <1>1, <1>2, PTL DEF PlaygroundSpec, StaysClosed

================================================================================
