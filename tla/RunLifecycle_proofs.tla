------------------------ MODULE RunLifecycle_proofs ------------------------
(***************************************************************************)
(* Proofs about RunLifecycle, for every set of calls and of contexts, every *)
(* assignment of limits, and whatever the components do.                   *)
(*                                                                         *)
(* The invariants of the model are not inductive by themselves.  Three     *)
(* layers make them so: Shape ties the state of a run to the states of its *)
(* contexts; Counting says that `running' is the number of calls that have *)
(* not given their increment back; and Quota bounds, for every m, the      *)
(* calls that passed the check with a limit of at most m, from the moment  *)
(* of their fetch_add on.  Two properties need one layer more: Alive for   *)
(* RunningExact, and Ids for the run ids.                                  *)
(***************************************************************************)
EXTENDS RunLifecycle, FiniteSetTheorems, TLAPS

\* TypeOK without the sign of `running', which only Counting can give, and without `taken'.
Typing ==
    /\ running \in Int
    /\ nextId \in 0..(RunIdMod - 1)
    /\ seen \in [Calls -> Nat]
    /\ base \in [Calls -> 0..(RunIdMod - 1)]
    /\ run \in [Calls -> RunStates]
    /\ task \in [Calls -> [Tasks -> TaskStates]]
    /\ called \in [Calls -> Nat]

Shape ==
    \A x \in Calls :
        /\ run[x] \notin {"active", "over"} =>
              called[x] = 0 /\ \A k \in Tasks : task[x][k] = "none"
        /\ \A k \in Tasks : task[x][k] \in Holding =>
              run[x] = "active" /\ called[x] = 0
        /\ \A k \in Tasks : task[x][k] \in Last =>
              /\ run[x] = "active"
              /\ called[x] = 1
              /\ \A j \in Tasks : task[x][j] \in Last => j = k
        /\ called[x] \in {0, 1}
        /\ run[x] \in {"admitted", "failed", "panicked", "active", "over"} => Passes(x)

Local == Typing /\ Shape

\* The calls whose fetch_add has not been undone.
Counted == {x \in Calls :
              run[x] \in {"fetched", "failed", "admitted", "panicked", "active"}}

Counting == IsFiniteSet(Counted) /\ running = Cardinality(Counted)

\* The counted calls that pass, or passed, a limit of at most m.
Passed(m) == {x \in Counted : /\ Limit[x] # NoLimit
                              /\ Limit[x] <= m
                              /\ seen[x] < Limit[x]}

Quota == \A m \in Nat : Cardinality(Passed(m)) <= m

IInv == Local /\ Counting /\ Quota

USE RootAssumption, LimitAssumption, RunIdModAssumption

-----------------------------------------------------------------------------
(* The types and the shape of a run.                                       *)

LEMMA InitLocal == Init => Local
BY DEF Init, Local, Typing, Shape, RunStates, TaskStates, Holding, Last, Spent

LEMMA CallStepLocal ==
    ASSUME Local, Counting, NEW x \in Calls, CallStep(x)
    PROVE  Local'
<1>0. running \in Nat
  BY FS_CardinalityType DEF Counting
<1> USE DEF Local, Typing, Shape, RunStates, TaskStates, Holding, Last, Spent, Passes
<1>1. CASE FetchAdd(x)
  <2>1. Typing'
    BY <1>0, <1>1 DEF FetchAdd
  <2>2. Shape'
    BY <1>0, <1>1 DEF FetchAdd
  <2> QED
    BY <2>1, <2>2
<1>2. CASE Refuse(x)
  BY <1>2 DEF Refuse
<1>3. CASE Reject(x)
  BY <1>3 DEF Reject
<1>4. CASE Admit(x)
  BY <1>4 DEF Admit
<1>5. CASE PanicOnLock(x)
  BY <1>5 DEF PanicOnLock
<1>6. CASE Launch(x)
  BY <1>6 DEF Launch
<1> QED
  BY <1>1, <1>2, <1>3, <1>4, <1>5, <1>6 DEF CallStep

LEMMA TaskStepLocal ==
    ASSUME Local, NEW x \in Calls, NEW k \in Tasks, TaskStep(x, k)
    PROVE  Local'
<1> USE DEF Local, Typing, Shape, RunStates, TaskStates, Holding, Last, Spent, Passes, Move
<1>1. CASE StartBody(x, k)
  <2>1. CASE Move(x, k, "queued", "body")
    BY <1>1, <2>1 DEF StartBody
  <2>2. CASE Move(x, k, "hollow", "finished")
    BY <1>1, <2>2 DEF StartBody
  <2> QED
    BY <1>1, <2>1, <2>2 DEF StartBody
<1>2. CASE BeginFinish(x, k)
  BY <1>2 DEF BeginFinish
<1>3. CASE Release(x, k)
  BY <1>3 DEF Release, Holders
<1>4. CASE CallbackReturns(x, k)
  BY <1>4 DEF CallbackReturns
<1>5. CASE FetchSub(x, k)
  BY <1>5 DEF FetchSub
<1>6. CASE DropContext(x, k)
  BY <1>6 DEF DropContext
<1>7. CASE Defer(x, k)
  BY <1>7 DEF Defer
<1>8. CASE CallbackPanics(x, k)
  BY <1>8 DEF CallbackPanics
<1>9. CASE DropUnfinished(x, k)
  BY <1>9 DEF DropUnfinished
<1>10. ASSUME NEW j \in Tasks, Submit(x, k, j)
       PROVE  Local'
  BY <1>10 DEF Submit
<1>11. ASSUME NEW j \in Tasks, SubmitFinished(x, k, j)
       PROVE  Local'
  BY <1>11 DEF SubmitFinished
<1> QED
  BY <1>1, <1>2, <1>3, <1>4, <1>5, <1>6, <1>7, <1>8, <1>9, <1>10, <1>11
  DEF TaskStep, Progress

-----------------------------------------------------------------------------
(* The meaning of `running'.                                               *)

\* One call enters run_impl.
LEMMA CountOneMore ==
    ASSUME Counting, NEW x, x \notin Counted,
           Counted' = Counted \cup {x}, running' = running + 1
    PROVE  Counting'
BY FS_AddElement DEF Counting

\* One call gives its increment back.
LEMMA CountOneLess ==
    ASSUME Counting, NEW x, x \in Counted,
           Counted' = Counted \ {x}, running' = running - 1
    PROVE  Counting'
BY FS_RemoveElement DEF Counting

\* The steps of run_impl that decide something keep the call counted.
LEMMA CallStepCounting ==
    ASSUME Local, Counting, NEW x \in Calls, CallStep(x)
    PROVE  Counting'
<1>1. CASE FetchAdd(x)
  <2>1. x \notin Counted /\ Counted' = Counted \cup {x}
    BY <1>1 DEF FetchAdd, Counted, Local, Typing
  <2>2. running' = running + 1
    BY <1>1 DEF FetchAdd
  <2> QED
    BY <2>1, <2>2, CountOneMore
<1>2. CASE Refuse(x)
  <2>1. x \in Counted /\ Counted' = Counted \ {x}
    BY <1>2 DEF Refuse, Counted, Local, Typing
  <2>2. running' = running - 1
    BY <1>2 DEF Refuse
  <2> QED
    BY <2>1, <2>2, CountOneLess
<1>3. CASE Reject(x) \/ Admit(x) \/ PanicOnLock(x) \/ Launch(x)
  <2>1. Counted' = Counted /\ running' = running
    BY <1>3 DEF Reject, Admit, PanicOnLock, Launch, Counted, Local, Typing
  <2> QED
    BY <2>1 DEF Counting
<1> QED
  BY <1>1, <1>2, <1>3 DEF CallStep

\* Of the steps of a context, only the last one's fetch_sub is counted.
LEMMA TaskStepKeepsRun ==
    ASSUME NEW x \in Calls, NEW k \in Tasks, TaskStep(x, k), ~FetchSub(x, k)
    PROVE  UNCHANGED <<running, seen, run>>
BY DEF TaskStep, Progress, StartBody, BeginFinish, Release, CallbackReturns,
       DropContext, Defer, CallbackPanics, DropUnfinished, Submit, SubmitFinished

LEMMA FetchSubEndsRun ==
    ASSUME Local, NEW x \in Calls, NEW k \in Tasks, FetchSub(x, k)
    PROVE  x \in Counted /\ Counted' = Counted \ {x}
<1>1. run[x] = "active"
  BY DEF FetchSub, Move, Local, Shape, Last
<1> QED
  BY <1>1 DEF FetchSub, Counted, Local, Typing

LEMMA TaskStepCounting ==
    ASSUME Local, Counting, NEW x \in Calls, NEW k \in Tasks, TaskStep(x, k)
    PROVE  Counting'
<1>1. CASE FetchSub(x, k)
  <2>1. running' = running - 1
    BY <1>1 DEF FetchSub
  <2> QED
    BY <1>1, <2>1, FetchSubEndsRun, CountOneLess
<1>2. CASE ~FetchSub(x, k)
  <2>1. Counted' = Counted /\ running' = running
    BY <1>2, TaskStepKeepsRun DEF Counted
  <2> QED
    BY <2>1 DEF Counting
<1> QED
  BY <1>1, <1>2

-----------------------------------------------------------------------------
(* The limits.                                                             *)

\* A set of passed calls that loses members stays within its quota.
LEMMA QuotaShrinks ==
    ASSUME Counting, Quota, \A m \in Nat : Passed(m)' \subseteq Passed(m)
    PROVE  Quota'
<1> SUFFICES ASSUME NEW m \in Nat
             PROVE  Cardinality(Passed(m)') <= m
  BY DEF Quota
<1>1. IsFiniteSet(Passed(m)) /\ Cardinality(Passed(m)) <= m
  BY FS_Subset DEF Counting, Quota, Passed
<1>2. Cardinality(Passed(m)') <= Cardinality(Passed(m)) /\ IsFiniteSet(Passed(m)')
  BY <1>1, FS_Subset
<1> QED
  BY <1>1, <1>2, FS_CardinalityType

\* A call that read a value below its limit is at most the limit-th counted one.
LEMMA FetchAddQuota ==
    ASSUME Local, Counting, Quota, NEW x \in Calls, FetchAdd(x)
    PROVE  Quota'
<1> SUFFICES ASSUME NEW m \in Nat
             PROVE  Cardinality(Passed(m)') <= m
  BY DEF Quota
<1>1. x \notin Counted /\ Counted' = Counted \cup {x}
  BY DEF FetchAdd, Counted, Local, Typing
<1>2. seen'[x] = running /\ \A y \in Calls \ {x} : seen'[y] = seen[y]
  BY DEF FetchAdd, Local, Typing
<1>3. /\ IsFiniteSet(Passed(m))
      /\ Cardinality(Passed(m)) <= running
      /\ Cardinality(Passed(m)) <= m
      /\ Cardinality(Passed(m)) \in Nat
  BY FS_Subset, FS_CardinalityType DEF Counting, Quota, Passed
<1>4. CASE Limit[x] # NoLimit /\ Limit[x] <= m /\ running < Limit[x]
  <2>1. Passed(m)' = Passed(m) \cup {x}
    BY <1>1, <1>2, <1>4 DEF Passed, Counted
  <2>2. PICK p : p = Passed(m)
    OBVIOUS
  <2>3. PICK k \in Nat : k = Cardinality(p)
    BY <1>3, <2>2
  <2>4. IsFiniteSet(p) /\ k <= running /\ Passed(m)' = p \cup {x}
    BY <1>3, <2>1, <2>2, <2>3
  <2>5. Cardinality(p \cup {x}) = k \/ Cardinality(p \cup {x}) = k + 1
    BY <2>3, <2>4, FS_AddElement
  <2>6. Limit[x] \in Nat /\ running \in Int
    BY <1>4 DEF Local, Typing
  <2>7. k + 1 <= m
    BY <1>4, <2>3, <2>4, <2>6
  <2> QED
    BY <2>3, <2>4, <2>5, <2>7
<1>5. CASE ~(Limit[x] # NoLimit /\ Limit[x] <= m /\ running < Limit[x])
  <2>1. Passed(m)' = Passed(m)
    BY <1>1, <1>2, <1>5 DEF Passed, Counted
  <2> QED
    BY <1>3, <2>1
<1> QED
  BY <1>4, <1>5

LEMMA CallStepQuota ==
    ASSUME Local, Counting, Quota, NEW x \in Calls, CallStep(x)
    PROVE  Quota'
<1>1. CASE FetchAdd(x)
  BY <1>1, FetchAddQuota
<1>2. CASE Refuse(x) \/ Reject(x) \/ Admit(x) \/ PanicOnLock(x) \/ Launch(x)
  <2>1. Counted' \subseteq Counted /\ seen' = seen
    BY <1>2 DEF Refuse, Reject, Admit, PanicOnLock, Launch, Counted, Local, Typing
  <2>2. \A m \in Nat : Passed(m)' \subseteq Passed(m)
    BY <2>1 DEF Passed
  <2> QED
    BY <2>2, QuotaShrinks
<1> QED
  BY <1>1, <1>2 DEF CallStep

LEMMA TaskStepQuota ==
    ASSUME Local, Counting, Quota, NEW x \in Calls, NEW k \in Tasks, TaskStep(x, k)
    PROVE  Quota'
<1>1. Counted' \subseteq Counted
  <2>1. CASE FetchSub(x, k)
    BY <2>1, FetchSubEndsRun
  <2>2. CASE ~FetchSub(x, k)
    BY <2>2, TaskStepKeepsRun DEF Counted
  <2> QED
    BY <2>1, <2>2
<1>2. seen' = seen
  BY TaskStepKeepsRun DEF FetchSub
<1>3. \A m \in Nat : Passed(m)' \subseteq Passed(m)
  BY <1>1, <1>2 DEF Passed
<1> QED
  BY <1>3, QuotaShrinks

-----------------------------------------------------------------------------
(* The inductive invariant and what follows from it.                       *)

LEMMA InitIInv == Init => IInv
<1> SUFFICES ASSUME Init
             PROVE  IInv
  OBVIOUS
<1>1. Counted = {}
  BY DEF Init, Counted
<1>2. Counting
  BY <1>1, FS_EmptySet DEF Counting, Init
<1>3. \A m \in Nat : Passed(m) = {}
  BY <1>1 DEF Passed
<1>4. Quota
  BY <1>3, FS_EmptySet DEF Quota
<1> QED
  BY <1>2, <1>4, InitLocal DEF IInv

LEMMA NextIInv == IInv /\ [Next]_vars => IInv'
<1> SUFFICES ASSUME IInv, [Next]_vars
             PROVE  IInv'
  OBVIOUS
<1> USE DEF IInv
<1>1. ASSUME NEW x \in Calls, CallStep(x)
      PROVE  IInv'
  BY <1>1, CallStepLocal, CallStepCounting, CallStepQuota
<1>2. ASSUME NEW x \in Calls, NEW k \in Tasks, TaskStep(x, k)
      PROVE  IInv'
  BY <1>2, TaskStepLocal, TaskStepCounting, TaskStepQuota
<1>3. CASE UNCHANGED vars
  <2>1. Local'
    BY <1>3 DEF vars, Local, Typing, Shape, Passes
  <2>2. Counted' = Counted /\ \A m \in Nat : Passed(m)' = Passed(m)
    BY <1>3 DEF vars, Counted, Passed
  <2>3. Counting' /\ Quota'
    BY <1>3, <2>2 DEF vars, Counting, Quota
  <2> QED
    BY <2>1, <2>3
<1> QED
  BY <1>1, <1>2, <1>3 DEF Next

\* The strengthening of the invariants below is inductive.
THEOREM InductiveInvariant == Spec => []IInv
BY InitIInv, NextIInv, PTL DEF Spec

LEMMA InFlightIsCounted ==
    ASSUME Local, NEW x \in Calls, InFlight(x)
    PROVE  x \in Counted
BY DEF InFlight, Counted, Local, Shape

LEMMA TakenTyped == Spec => [](taken \in Seq(Calls))
<1>1. Init => taken \in Seq(Calls)
  BY DEF Init
<1>2. taken \in Seq(Calls) /\ [Next]_vars => (taken \in Seq(Calls))'
  <2> SUFFICES ASSUME taken \in Seq(Calls), [Next]_vars PROVE taken' \in Seq(Calls)
    OBVIOUS
  <2>1. ASSUME NEW x \in Calls, CallStep(x) PROVE taken' \in Seq(Calls)
    BY <2>1 DEF CallStep, FetchAdd, Refuse, Reject, Admit, PanicOnLock, Launch
  <2>2. ASSUME NEW x \in Calls, NEW k \in Tasks, TaskStep(x, k) PROVE taken' = taken
    BY <2>2 DEF TaskStep, Progress, StartBody, BeginFinish, Release, CallbackReturns, FetchSub,
                DropContext, Defer, CallbackPanics, DropUnfinished, Submit, SubmitFinished
  <2> QED
    BY <2>1, <2>2 DEF Next, vars
<1> QED
  BY <1>1, <1>2, PTL DEF Spec

\* TypeOK: in particular `running' never goes below zero, so that fetch_sub on
\* the AtomicUsize never wraps.
THEOREM TypeCorrect == Spec => []TypeOK
<1>1. IInv /\ taken \in Seq(Calls) => TypeOK
  BY FS_CardinalityType DEF IInv, Local, Typing, Counting, TypeOK
<1> QED
  BY <1>1, InductiveInvariant, TakenTyped, PTL

\* CallbackIsLast: the callback of a run is called at most once, and no context
\* of the run carries it when, or after, it was called.
THEOREM CallbackOnceAndLast == Spec => []CallbackIsLast
<1>1. IInv => CallbackIsLast
  BY DEF IInv, Local, Typing, Shape, CallbackIsLast, Holders
<1> QED
  BY <1>1, InductiveInvariant, PTL

\* RunningCoversLive: `running' is never below the number of runs under way
\* plus the undecided calls.
THEOREM RunningNeverBelowLive == Spec => []RunningCoversLive
<1>1. ASSUME IInv
      PROVE  RunningCoversLive
  <2> DEFINE Seen == {x \in Calls : run[x] = "fetched" \/ InFlight(x)}
  <2>1. Seen \subseteq Counted
    BY <1>1, InFlightIsCounted DEF IInv, Counted
  <2>2. IsFiniteSet(Counted) /\ running = Cardinality(Counted)
    BY <1>1 DEF IInv, Counting
  <2>3. IsFiniteSet(Seen) /\ Cardinality(Seen) <= Cardinality(Counted)
    BY <2>1, <2>2, FS_Subset
  <2>4. Cardinality(Seen) \in Nat /\ Cardinality(Counted) \in Nat
    BY <2>2, <2>3, FS_CardinalityType
  <2> QED
    BY <2>2, <2>3, <2>4 DEF RunningCoversLive
<1> QED
  BY <1>1, InductiveInvariant, PTL

\* LimitRespected: of the runs under way, at most m were admitted with a
\* max_running of at most m, for every number of callers and every mix of limits.
THEOREM LimitsHold == Spec => []LimitRespected
<1>1. ASSUME IInv
      PROVE  LimitRespected
  <2> SUFFICES ASSUME NEW x \in Calls, Limit[x] # NoLimit
               PROVE  Cardinality({y \in Calls : /\ InFlight(y)
                                                 /\ Limit[y] # NoLimit
                                                 /\ Limit[y] <= Limit[x]}) <= Limit[x]
    BY DEF LimitRespected
  <2> DEFINE Under == {y \in Calls : /\ InFlight(y)
                                     /\ Limit[y] # NoLimit
                                     /\ Limit[y] <= Limit[x]}
  <2>1. Limit[x] \in Nat
    OBVIOUS
  <2>2. Under \subseteq Passed(Limit[x])
    <3> SUFFICES ASSUME NEW y \in Under
                 PROVE  y \in Passed(Limit[x])
      OBVIOUS
    <3>1. y \in Counted
      BY <1>1, InFlightIsCounted DEF IInv
    <3>2. Passes(y)
      BY <1>1 DEF IInv, Local, Shape, InFlight
    <3> QED
      BY <3>1, <3>2 DEF Passes, Passed
  <2>3. /\ IsFiniteSet(Passed(Limit[x]))
        /\ Cardinality(Passed(Limit[x])) <= Limit[x]
    BY <1>1, <2>1, FS_Subset DEF IInv, Counting, Quota, Passed
  <2>4. IsFiniteSet(Under) /\ Cardinality(Under) <= Cardinality(Passed(Limit[x]))
    BY <2>2, <2>3, FS_Subset
  <2>5. Cardinality(Under) \in Nat /\ Cardinality(Passed(Limit[x])) \in Nat
    BY <2>3, <2>4, FS_CardinalityType
  <2> QED
    BY <2>1, <2>3, <2>4, <2>5
<1> QED
  BY <1>1, InductiveInvariant, PTL

-----------------------------------------------------------------------------
(* When nothing goes wrong, `running' is exact.                            *)

WellBehaved == Invalid = {} /\ Poisoned = {} /\ Misuse = {}

\* A run that is not over has a context that will end it.
Alive ==
    \A x \in Calls :
        /\ run[x] \notin {"failed", "panicked"}
        /\ run[x] = "active" => \E k \in Tasks : task[x][k] \in Holding \cup Last

LEMMA CallStepAlive ==
    ASSUME WellBehaved, Local, Alive, NEW x \in Calls, CallStep(x)
    PROVE  Alive'
<1> USE DEF WellBehaved, Local, Typing, Shape, Alive
<1>1. CASE FetchAdd(x) \/ Refuse(x) \/ Admit(x)
  BY <1>1 DEF FetchAdd, Refuse, Admit
<1>2. CASE Launch(x)
  BY <1>2 DEF Launch, Holding
<1>3. ~Reject(x) /\ ~PanicOnLock(x)
  BY DEF Reject, PanicOnLock
<1> QED
  BY <1>1, <1>2, <1>3 DEF CallStep

LEMMA TaskStepAlive ==
    ASSUME WellBehaved, Local, Alive, NEW x \in Calls, NEW k \in Tasks, TaskStep(x, k)
    PROVE  Alive'
<1> USE DEF WellBehaved, Local, Typing, Shape, Alive, Holding, Last, TaskStates, Move
<1>1. CASE StartBody(x, k)
  <2>1. CASE Move(x, k, "queued", "body")
    BY <1>1, <2>1 DEF StartBody
  <2>2. CASE Move(x, k, "hollow", "finished")
    <3>1. \A y \in Calls, j \in Tasks :
             task[y][j] \in Holding \cup Last => task'[y][j] = task[y][j]
      BY <1>1, <2>2 DEF StartBody
    <3>2. run' = run
      BY <1>1 DEF StartBody
    <3> QED
      BY <3>1, <3>2
  <2> QED
    BY <1>1, <2>1, <2>2 DEF StartBody
<1>2. CASE BeginFinish(x, k)
  BY <1>2 DEF BeginFinish
<1>3. CASE Release(x, k)
  <2>1. CASE Holders(x) = {k}
    BY <1>3, <2>1 DEF Release
  <2>2. CASE Holders(x) # {k}
    <3>1. PICK j \in Tasks : j # k /\ task[x][j] \in Holding
      BY <1>3, <2>2 DEF Release, Holders
    <3> QED
      BY <1>3, <2>2, <3>1 DEF Release
  <2> QED
    BY <2>1, <2>2
<1>4. CASE CallbackReturns(x, k)
  BY <1>4 DEF CallbackReturns
<1>5. CASE FetchSub(x, k)
  BY <1>5 DEF FetchSub
<1>6. CASE DropContext(x, k)
  BY <1>6 DEF DropContext
<1>7. CASE Defer(x, k)
  BY <1>7 DEF Defer
<1>8. ASSUME NEW j \in Tasks, Submit(x, k, j)
      PROVE  Alive'
  BY <1>8 DEF Submit
<1>9. /\ ~CallbackPanics(x, k)
      /\ ~DropUnfinished(x, k)
      /\ \A j \in Tasks : ~SubmitFinished(x, k, j)
  BY DEF CallbackPanics, DropUnfinished, SubmitFinished
<1> QED
  BY <1>1, <1>2, <1>3, <1>4, <1>5, <1>6, <1>7, <1>8, <1>9 DEF TaskStep, Progress

\* RunningExact: with valid calls, unpoisoned locks and components that finish,
\* running() is the number of runs under way plus the undecided calls, always.
THEOREM RunningIsExact ==
    ASSUME WellBehaved
    PROVE  Spec => []RunningExact
<1>1. Init => Alive
  BY DEF Init, Alive
<1>2. IInv /\ Alive /\ [Next]_vars => Alive'
  <2> SUFFICES ASSUME IInv, Alive, [Next]_vars
               PROVE  Alive'
    OBVIOUS
  <2>1. ASSUME NEW x \in Calls, CallStep(x)
        PROVE  Alive'
    BY <2>1, CallStepAlive DEF IInv
  <2>2. ASSUME NEW x \in Calls, NEW k \in Tasks, TaskStep(x, k)
        PROVE  Alive'
    BY <2>2, TaskStepAlive DEF IInv
  <2>3. CASE UNCHANGED vars
    BY <2>3 DEF vars, Alive
  <2> QED
    BY <2>1, <2>2, <2>3 DEF Next
<1>3. IInv /\ Alive => RunningExact
  <2> SUFFICES ASSUME IInv, Alive
               PROVE  RunningExact
    OBVIOUS
  <2>1. Counted = {x \in Calls : run[x] = "fetched" \/ InFlight(x)}
    BY DEF IInv, Local, Shape, Alive, Counted, InFlight
  <2> QED
    BY <2>1 DEF IInv, Counting, RunningExact
<1> QED
  BY <1>1, <1>2, <1>3, InductiveInvariant, PTL DEF Spec

-----------------------------------------------------------------------------
(* The abstract admission is implemented.                                  *)

Live == {x \in Calls : run[x] \in {"admitted", "panicked", "active"}}
Over == {x \in Calls : run[x] = "over"}

\* The instance has its own copy of the library's Cardinality.
LEMMA SameCardinality ==
    ASSUME NEW S
    PROVE  Abstract!Cardinality(S) = Cardinality(S)
BY Zenon DEF Abstract!Cardinality, Cardinality

LEMMA InitAbstract == Init => Abstract!Init
BY DEF Init, Abstract!Init

\* The step in which run_impl takes a run id is where the run begins: the
\* quota still has room for it, because it counts the call already.
LEMMA AdmitBegins ==
    ASSUME IInv, NEW x \in Calls, Admit(x)
    PROVE  Abstract!Begin(x)
<1>1. x \notin Live \cup Over /\ Live' = Live \cup {x} /\ Over' = Over
  BY DEF Admit, Live, Over, IInv, Local, Typing
<1>2. ASSUME Limit[x] # NoLimit
      PROVE  Cardinality(Abstract!Bound(x)) < Limit[x]
  <2>1. Limit[x] \in Nat
    BY <1>2
  <2>2. x \in Passed(Limit[x])
    BY <1>2, <2>1 DEF Admit, Passes, Passed, Counted
  <2>3. Abstract!Bound(x) \subseteq Passed(Limit[x]) \ {x}
    <3> SUFFICES ASSUME NEW y \in Abstract!Bound(x)
                 PROVE  y \in Passed(Limit[x]) /\ y # x
      OBVIOUS
    <3>1. y \in Live /\ Limit[y] # NoLimit /\ Limit[y] <= Limit[x]
      BY DEF Abstract!Bound, Live
    <3>2. Passes(y)
      BY <3>1 DEF Live, IInv, Local, Shape
    <3> QED
      BY <1>1, <3>1, <3>2 DEF Live, Passes, Passed, Counted
  <2>4. IsFiniteSet(Passed(Limit[x])) /\ Cardinality(Passed(Limit[x])) <= Limit[x]
    BY <2>1, FS_Subset DEF IInv, Counting, Quota, Passed
  <2>5. /\ IsFiniteSet(Passed(Limit[x]) \ {x})
        /\ Cardinality(Passed(Limit[x]) \ {x}) = Cardinality(Passed(Limit[x])) - 1
    BY <2>2, <2>4, FS_RemoveElement
  <2>6. /\ IsFiniteSet(Abstract!Bound(x))
        /\ Cardinality(Abstract!Bound(x)) <= Cardinality(Passed(Limit[x]) \ {x})
    BY <2>3, <2>5, FS_Subset
  <2>7. /\ Cardinality(Abstract!Bound(x)) \in Nat
        /\ Cardinality(Passed(Limit[x])) \in Nat
    BY <2>4, <2>6, FS_CardinalityType
  <2> QED
    BY <2>1, <2>4, <2>5, <2>6, <2>7
<1>3. Limit[x] # NoLimit => Abstract!Cardinality(Abstract!Bound(x)) < Limit[x]
  BY <1>2, SameCardinality
<1> QED
  BY <1>1, <1>3, Zenon DEF Abstract!Begin, Live, Over

LEMMA FetchSubEnds ==
    ASSUME IInv, NEW x \in Calls, NEW k \in Tasks, FetchSub(x, k)
    PROVE  Abstract!End(x)
<1>1. run[x] = "active"
  BY DEF FetchSub, Move, IInv, Local, Shape, Last
<1>2. x \in Live /\ Live' = Live \ {x} /\ Over' = Over \cup {x}
  BY <1>1 DEF FetchSub, Live, Over, IInv, Local, Typing
<1> QED
  BY <1>2 DEF Abstract!End, Live, Over

\* AdmissionIsAtomic: RunLifecycle implements RunAdmission.
THEOREM ImplementsRunAdmission == Spec => AdmissionIsAtomic
<1>1. ASSUME IInv, [Next]_vars
      PROVE  [Abstract!Next]_<<Live, Over>>
  <2>1. ASSUME NEW x \in Calls, CallStep(x)
        PROVE  [Abstract!Next]_<<Live, Over>>
    <3>1. CASE Admit(x)
      BY <1>1, <3>1, AdmitBegins DEF Abstract!Next
    <3>2. CASE ~Admit(x)
      BY <1>1, <2>1, <3>2 DEF CallStep, FetchAdd, Refuse, Reject, PanicOnLock,
                              Launch, Live, Over, IInv, Local, Typing
    <3> QED
      BY <3>1, <3>2
  <2>2. ASSUME NEW x \in Calls, NEW k \in Tasks, TaskStep(x, k)
        PROVE  [Abstract!Next]_<<Live, Over>>
    <3>1. CASE FetchSub(x, k)
      BY <1>1, <3>1, FetchSubEnds DEF Abstract!Next
    <3>2. CASE ~FetchSub(x, k)
      BY <2>2, <3>2, TaskStepKeepsRun DEF Live, Over
    <3> QED
      BY <3>1, <3>2
  <2>3. CASE UNCHANGED vars
    BY <2>3 DEF vars, Live, Over
  <2> QED
    BY <1>1, <2>1, <2>2, <2>3 DEF Next
<1>2. IInv /\ [Next]_vars => [Abstract!Next]_<<Live, Over>>
  BY <1>1
<1> QED
  BY <1>2, InitAbstract, InductiveInvariant, PTL
  DEF Spec, AdmissionIsAtomic, Abstract!Spec, Live, Over

-----------------------------------------------------------------------------
(* The run ids.                                                            *)

\* From one run that took an id to a later one, the counter went up by their distance or,
\* where it came round to 0 in between, by that less RunIdMod.  The counter itself is
\* where the next run will be.
UpBy(from, to, d) == to = from + d \/ to = from + d - RunIdMod

Ids ==
    /\ taken \in Seq(Calls)
    /\ \A m \in 1..Len(taken) :
          Len(taken) + 1 - m < RunIdMod => UpBy(base[taken[m]], nextId, Len(taken) + 1 - m)
    /\ \A m, n \in 1..Len(taken) :
          m < n /\ n - m < RunIdMod => UpBy(base[taken[m]], base[taken[n]], n - m)
    /\ \A m \in 1..Len(taken) : run[taken[m]] \in {"admitted", "panicked", "active", "over"}

\* The counter goes up by one, or comes round.
LEMMA NextIdUp ==
    ASSUME NEW i \in 0..(RunIdMod - 1)
    PROVE  (i + 1) % RunIdMod = IF i + 1 = RunIdMod THEN 0 ELSE i + 1
OBVIOUS

LEMMA UpByOneMore ==
    ASSUME NEW i \in 0..(RunIdMod - 1), NEW j \in 0..(RunIdMod - 1), NEW d \in Nat,
           UpBy(i, j, d), d + 1 < RunIdMod
    PROVE  UpBy(i, IF j + 1 = RunIdMod THEN 0 ELSE j + 1, d + 1)
BY DEF UpBy

\* Admit takes the id that the counter stands at.
LEMMA AdmitIds ==
    ASSUME Local, Ids, NEW x \in Calls, Admit(x)
    PROVE  Ids'
<1> DEFINE len == Len(taken)
<1>1. /\ taken' = Append(taken, x) /\ taken' \in Seq(Calls) /\ len \in Nat
      /\ Len(taken') = len + 1
      /\ \A m \in 1..len : taken'[m] = taken[m] /\ taken[m] \in Calls
      /\ taken'[len + 1] = x
  BY DEF Admit, Ids
<1>2. /\ nextId \in 0..(RunIdMod - 1)
      /\ nextId' = IF nextId + 1 = RunIdMod THEN 0 ELSE nextId + 1
  BY NextIdUp DEF Admit, Local, Typing
<1>3. /\ \A m \in 1..len : taken[m] # x /\ base'[taken[m]] = base[taken[m]]
      /\ \A m \in 1..len : base[taken[m]] \in 0..(RunIdMod - 1)
      /\ base'[x] = nextId
  BY <1>1 DEF Admit, Ids, Local, Typing
<1>4. ASSUME NEW m \in 1..(len + 1), len + 2 - m < RunIdMod
      PROVE  UpBy(base'[taken'[m]], nextId', len + 2 - m)
  <2>1. CASE m = len + 1
    BY <1>1, <1>2, <1>3, <2>1 DEF UpBy
  <2>2. CASE m # len + 1
    <3>1. m \in 1..len /\ UpBy(base[taken[m]], nextId, len + 1 - m)
      BY <1>1, <1>4, <2>2 DEF Ids
    <3>2. base'[taken'[m]] = base[taken[m]] /\ base[taken[m]] \in 0..(RunIdMod - 1)
      BY <1>1, <1>3, <3>1
    <3>3. len + 1 - m \in Nat /\ (len + 1 - m) + 1 = len + 2 - m
      BY <1>1, <3>1
    <3> QED
      BY <1>2, <1>4, <3>1, <3>2, <3>3, UpByOneMore
  <2> QED
    BY <2>1, <2>2
<1>5. ASSUME NEW m \in 1..(len + 1), NEW n \in 1..(len + 1), m < n, n - m < RunIdMod
      PROVE  UpBy(base'[taken'[m]], base'[taken'[n]], n - m)
  <2>1. m \in 1..len
    BY <1>1, <1>5
  <2>2. CASE n = len + 1
    <3>1. UpBy(base[taken[m]], nextId, n - m)
      BY <1>5, <2>1, <2>2 DEF Ids
    <3>2. base'[taken'[m]] = base[taken[m]] /\ base'[taken'[n]] = nextId
      BY <1>1, <1>3, <2>1, <2>2
    <3> QED
      BY <3>1, <3>2
  <2>3. CASE n # len + 1
    <3>1. n \in 1..len
      BY <1>1, <2>3
    <3>2. UpBy(base[taken[m]], base[taken[n]], n - m)
      BY <1>5, <2>1, <3>1 DEF Ids
    <3>3. base'[taken'[m]] = base[taken[m]] /\ base'[taken'[n]] = base[taken[n]]
      BY <1>1, <1>3, <2>1, <3>1
    <3> QED
      BY <3>2, <3>3
  <2> QED
    BY <2>2, <2>3
<1>6. \A m \in 1..(len + 1) : run'[taken'[m]] \in {"admitted", "panicked", "active", "over"}
  BY <1>1 DEF Admit, Ids, Local, Typing
<1>7. Len(taken') + 1 = len + 2
  BY <1>1
<1> QED
  BY <1>1, <1>4, <1>5, <1>6, <1>7 DEF Ids

\* A run that has its id keeps it.
LEMMA OtherStepsKeepIds ==
    ASSUME Local, Ids, UNCHANGED <<nextId, base, taken>>,
           \A x \in Calls : run[x] \in {"admitted", "panicked", "active", "over"} =>
                                run'[x] \in {"admitted", "panicked", "active", "over"}
    PROVE  Ids'
<1>1. \A m \in 1..Len(taken) : taken[m] \in Calls
  BY DEF Ids
<1> QED
  BY <1>1 DEF Ids, UpBy

LEMMA NextIds ==
    ASSUME Local, Ids, [Next]_vars
    PROVE  Ids'
<1>1. ASSUME NEW x \in Calls, CallStep(x) PROVE Ids'
  <2>1. CASE Admit(x)
    BY <2>1, AdmitIds
  <2>2. CASE FetchAdd(x) \/ Refuse(x) \/ Reject(x) \/ PanicOnLock(x) \/ Launch(x)
    <3>1. \A y \in Calls : run[y] \in {"admitted", "panicked", "active", "over"} =>
                               run'[y] \in {"admitted", "panicked", "active", "over"}
      BY <2>2 DEF FetchAdd, Refuse, Reject, PanicOnLock, Launch, Local, Typing
    <3>2. UNCHANGED <<nextId, base, taken>>
      BY <2>2 DEF FetchAdd, Refuse, Reject, PanicOnLock, Launch
    <3> QED
      BY <3>1, <3>2, OtherStepsKeepIds
  <2> QED
    BY <1>1, <2>1, <2>2 DEF CallStep
<1>2. ASSUME NEW x \in Calls, NEW k \in Tasks, TaskStep(x, k) PROVE Ids'
  <2>1. \A y \in Calls : run[y] \in {"admitted", "panicked", "active", "over"} =>
                             run'[y] \in {"admitted", "panicked", "active", "over"}
    <3>1. CASE FetchSub(x, k)
      BY <3>1 DEF FetchSub, Local, Typing
    <3>2. CASE ~FetchSub(x, k)
      BY <1>2, <3>2, TaskStepKeepsRun
    <3> QED
      BY <3>1, <3>2
  <2>2. UNCHANGED <<nextId, base, taken>>
    BY <1>2 DEF TaskStep, Progress, StartBody, BeginFinish, Release, CallbackReturns, FetchSub,
                DropContext, Defer, CallbackPanics, DropUnfinished, Submit, SubmitFinished
  <2> QED
    BY <2>1, <2>2, OtherStepsKeepIds
<1>3. CASE UNCHANGED vars
  BY <1>3, OtherStepsKeepIds DEF vars
<1> QED
  BY <1>1, <1>2, <1>3 DEF Next

\* RunIdsDistinct, for any number of runs and of ids: two runs closer than RunIdMod differ
\* by less than RunIdMod, and not by 0.
THEOREM IdsDistinctAcrossTheWrap == Spec => []RunIdsDistinct
<1>1. Init => Ids
  BY DEF Init, Ids
<1>2. ASSUME Local, Ids PROVE RunIdsDistinct
  <2> SUFFICES ASSUME NEW m \in 1..Len(taken), NEW n \in 1..Len(taken), m < n, n - m < RunIdMod
               PROVE  base[taken[m]] # base[taken[n]]
    BY <1>2 DEF RunIdsDistinct, Ids
  <2>1. base[taken[m]] \in Int /\ base[taken[n]] \in Int
    BY <1>2 DEF Ids, Local, Typing
  <2> QED
    BY <1>2, <2>1 DEF Ids, UpBy
<1>3. IInv /\ Ids /\ [Next]_vars => Ids'
  BY NextIds DEF IInv
<1>4. IInv => Local
  BY DEF IInv
<1> QED
  BY <1>1, <1>2, <1>3, <1>4, InductiveInvariant, PTL DEF Spec
=============================================================================
