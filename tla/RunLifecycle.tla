---------------------------- MODULE RunLifecycle ----------------------------
(***************************************************************************)
(* The life of a pipeline run: admission by PipelineRunner::run_impl, the  *)
(* component contexts that carry the run's callback, and the completion    *)
(* that ComponentContextInner::finish detects from the callback's          *)
(* reference count.                                                        *)
(*                                                                         *)
(* A call of PipelineRunner::run is an element of Calls, and the run it    *)
(* admits, if it admits one, keeps its name.  Every access to the atomics  *)
(* `running' and `run_id' is a step of its own, so calls made from several *)
(* camera threads interleave with each other and with the tasks of the     *)
(* rayon pool.  Inputs, outputs and the tree of partial inputs of a        *)
(* component are not here: see PipelineRunner.tla.                         *)
(***************************************************************************)
EXTENDS Integers, Sequences, FiniteSets

CONSTANTS
    Calls,      \* the calls of PipelineRunner::run
    Tasks,      \* names for the component contexts of one run
    Root,       \* the context that run_impl itself spawns
    NoLimit,    \* max_running: None
    Limit,      \* RunParams::max_running of each call
    Invalid,    \* calls with an unknown component or a wrong argument count
    Poisoned,   \* calls that build a tree for a component with a poisoned lock
    Misuse,     \* what the components of the pipeline are allowed to do
    RunIdMod    \* 2^32 in the code: run_id is an AtomicU32

Misuses == {"submit_after_finish", "drop_unfinished", "callback_panic"}

ASSUME RootAssumption     == Root \in Tasks
ASSUME LimitAssumption    == /\ NoLimit \notin Nat
                             /\ Limit \in [Calls -> Nat \cup {NoLimit}]
ASSUME InputAssumption    == Invalid \subseteq Calls /\ Poisoned \subseteq Calls
ASSUME MisuseAssumption   == Misuse \subseteq Misuses
ASSUME RunIdModAssumption == RunIdMod \in Nat \ {0}

VARIABLES
    running,    \* PipelineRunner::running
    nextId,     \* PipelineRunner::run_id
    seen,       \* what each call's running.fetch_add returned
    base,       \* the base run id of each run
    taken,      \* the runs in the order in which they took their ids (not in the code)
    run,        \* how far each call, then its run, has come
    task,       \* task[x][k]: how far context k of run x has come
    called      \* how often the callback of each run was called

vars == <<running, nextId, seen, base, taken, run, task, called>>

-----------------------------------------------------------------------------
RunStates == {"idle",      \* run() not called yet
              "fetched",   \* running.fetch_add(1) done, nothing decided
              "refused",   \* TooManyRunning was returned
              "failed",    \* another error was returned
              "admitted",  \* run id taken, root context not spawned yet
              "panicked",  \* run() panicked before it spawned the root context
              "active",    \* root context spawned
              "over"}      \* running.fetch_sub(1) done by the last context

\* The states of a context whose `callback' is Some: it holds one reference.
Holding == {"queued",      \* moved into a closure given to scope.spawn
            "body",        \* Component::run, or a deferred closure, executes
            "finishing"}   \* inside finish(), before callback.take()

\* The states of the context that got the callback out of its Arc.
Last == {"calling",        \* the callback executes
         "returning"}      \* call_if_unique returned true

\* The states of a context whose `callback' is None.
Spent == {"hollow",        \* spawned by a finished context, not started
          "finished",      \* finished() is true and the context is alive
          "gone"}          \* dropped

TaskStates == {"none"} \cup Holding \cup Last \cup Spent

Holders(x) == {k \in Tasks : task[x][k] \in Holding}

\* Mutated form: the limit is off by one.
PassesAtLimit(x) == Limit[x] # NoLimit => seen[x] <= Limit[x]

Passes(x) == Limit[x] # NoLimit => seen[x] < Limit[x]

\* A run that is under way: admitted, and not yet finished by its last context.
InFlight(x) ==
    \/ run[x] = "admitted"
    \/ run[x] = "active" /\ \E k \in Tasks : task[x][k] \in Holding \cup Last

Init ==
    /\ running = 0
    /\ nextId = 0
    /\ seen = [x \in Calls |-> 0]
    /\ base = [x \in Calls |-> 0]
    /\ taken = <<>>
    /\ run = [x \in Calls |-> "idle"]
    /\ task = [x \in Calls |-> [k \in Tasks |-> "none"]]
    /\ called = [x \in Calls |-> 0]

-----------------------------------------------------------------------------
(* PipelineRunner::run_impl                                                *)

FetchAdd(x) ==
    /\ run[x] = "idle"
    /\ run' = [run EXCEPT ![x] = "fetched"]
    /\ seen' = [seen EXCEPT ![x] = running]
    /\ running' = running + 1
    /\ UNCHANGED <<nextId, base, taken, task, called>>

\* Mutated form: the error path forgets its fetch_sub.
RefuseKeeping(x) ==
    /\ run[x] = "fetched"
    /\ ~Passes(x)
    /\ run' = [run EXCEPT ![x] = "refused"]
    /\ UNCHANGED <<running, nextId, seen, base, taken, task, called>>

Refuse(x) ==
    /\ run[x] = "fetched"
    /\ ~Passes(x)
    /\ run' = [run EXCEPT ![x] = "refused"]
    /\ running' = running - 1
    /\ UNCHANGED <<nextId, seen, base, taken, task, called>>

\* NoComponent and ArgsMismatch return without giving `running' back.
Reject(x) ==
    /\ run[x] = "fetched"
    /\ Passes(x)
    /\ x \in Invalid
    /\ run' = [run EXCEPT ![x] = "failed"]
    /\ UNCHANGED <<running, nextId, seen, base, taken, task, called>>

\* Mutated form: the counter stays at its last id instead of coming round.
AdmitSaturating(x) ==
    /\ run[x] = "fetched"
    /\ Passes(x)
    /\ x \notin Invalid
    /\ run' = [run EXCEPT ![x] = "admitted"]
    /\ base' = [base EXCEPT ![x] = nextId]
    /\ taken' = Append(taken, x)
    /\ nextId' = IF nextId = RunIdMod - 1 THEN nextId ELSE nextId + 1
    /\ UNCHANGED <<running, seen, task, called>>

Admit(x) ==
    /\ run[x] = "fetched"
    /\ Passes(x)
    /\ x \notin Invalid
    /\ run' = [run EXCEPT ![x] = "admitted"]
    /\ base' = [base EXCEPT ![x] = nextId]
    /\ taken' = Append(taken, x)
    /\ nextId' = (nextId + 1) % RunIdMod
    /\ UNCHANGED <<running, seen, task, called>>

\* mutable.lock().unwrap() panics on a lock that another thread poisoned.
PanicOnLock(x) ==
    /\ run[x] = "admitted"
    /\ x \in Poisoned
    /\ run' = [run EXCEPT ![x] = "panicked"]
    /\ UNCHANGED <<running, nextId, seen, base, taken, task, called>>

Launch(x) ==
    /\ run[x] = "admitted"
    /\ x \notin Poisoned
    /\ run' = [run EXCEPT ![x] = "active"]
    /\ task' = [task EXCEPT ![x][Root] = "queued"]
    /\ UNCHANGED <<running, nextId, seen, base, taken, called>>

-----------------------------------------------------------------------------
(* ComponentContextInner and ComponentContext                              *)

Move(x, k, from, to) ==
    /\ task[x][k] = from
    /\ task' = [task EXCEPT ![x][k] = to]

StartBody(x, k) ==
    /\ \/ Move(x, k, "queued", "body")
       \/ Move(x, k, "hollow", "finished")
    /\ UNCHANGED <<running, nextId, seen, base, taken, run, called>>

\* ComponentContext::defer moves the context into another spawned closure.
Defer(x, k) ==
    /\ Move(x, k, "body", "queued")
    /\ UNCHANGED <<running, nextId, seen, base, taken, run, called>>

\* submit_impl -> spawn_next: the new context gets a clone of `callback'.
\* submit_impl also runs inside finish(), for "$finish", and post_propagate
\* spawns broadcast components there.
Submit(x, k, j) ==
    /\ task[x][k] \in {"body", "finishing"}
    /\ task[x][j] = "none"
    /\ task' = [task EXCEPT ![x][j] = "queued"]
    /\ UNCHANGED <<running, nextId, seen, base, taken, run, called>>

\* submit_impl does not ask whether the context has finished: it clones None.
SubmitFinished(x, k, j) ==
    /\ "submit_after_finish" \in Misuse
    /\ task[x][k] = "finished"
    /\ task[x][j] = "none"
    /\ task' = [task EXCEPT ![x][j] = "hollow"]
    /\ UNCHANGED <<running, nextId, seen, base, taken, run, called>>

\* finish(), called by the component or by Drop of ComponentContext (at the
\* end of the body, or while a panic in the body unwinds).
BeginFinish(x, k) ==
    /\ Move(x, k, "body", "finishing")
    /\ UNCHANGED <<running, nextId, seen, base, taken, run, called>>

\* Mutated form: every context that finishes takes itself for the last one.
ReleaseAlways(x, k) ==
    /\ Move(x, k, "finishing", "calling")
    /\ called' = [called EXCEPT ![x] = @ + 1]
    /\ UNCHANGED <<running, nextId, seen, base, taken, run>>

\* Mutated form: the count is compared with 2, the finishing context and one
\* more, as a check of Arc::strong_count before the drop would.
ReleaseEarly(x, k) ==
    /\ task[x][k] = "finishing"
    /\ task' = [task EXCEPT ![x][k] =
                    IF Cardinality(Holders(x)) <= 2 THEN "calling" ELSE "finished"]
    /\ called' = [called EXCEPT ![x] =
                    IF Cardinality(Holders(x)) <= 2 THEN @ + 1 ELSE @]
    /\ UNCHANGED <<running, nextId, seen, base, taken, run>>

\* Mutated form: the reference is dropped instead of handed to into_inner.
ReleaseDropped(x, k) ==
    /\ Move(x, k, "finishing", "finished")
    /\ UNCHANGED <<running, nextId, seen, base, taken, run, called>>

\* callback.take() and Arc::into_inner, which gives the callback to exactly
\* the context that drops the last reference.
Release(x, k) ==
    /\ task[x][k] = "finishing"
    /\ task' = [task EXCEPT ![x][k] =
                    IF Holders(x) = {k} THEN "calling" ELSE "finished"]
    /\ called' = [called EXCEPT ![x] =
                    IF Holders(x) = {k} THEN @ + 1 ELSE @]
    /\ UNCHANGED <<running, nextId, seen, base, taken, run>>

CallbackReturns(x, k) ==
    /\ Move(x, k, "calling", "returning")
    /\ UNCHANGED <<running, nextId, seen, base, taken, run, called>>

\* The panic leaves finish() before `running' is decremented.
CallbackPanics(x, k) ==
    /\ "callback_panic" \in Misuse
    /\ Move(x, k, "calling", "gone")
    /\ UNCHANGED <<running, nextId, seen, base, taken, run, called>>

\* Mutated form: the callback is not taken, so finish() can be entered again.
FetchSubAgain(x, k) ==
    /\ Move(x, k, "returning", "body")
    /\ run' = [run EXCEPT ![x] = "over"]
    /\ running' = running - 1
    /\ UNCHANGED <<nextId, seen, base, taken, called>>

FetchSub(x, k) ==
    /\ Move(x, k, "returning", "finished")
    /\ run' = [run EXCEPT ![x] = "over"]
    /\ running' = running - 1
    /\ UNCHANGED <<nextId, seen, base, taken, called>>

DropContext(x, k) ==
    /\ Move(x, k, "finished", "gone")
    /\ UNCHANGED <<running, nextId, seen, base, taken, run, called>>

\* A context taken apart by explode() and dropped: Drop of
\* ComponentContextInner only warns, and the reference goes without a call.
DropUnfinished(x, k) ==
    /\ "drop_unfinished" \in Misuse
    /\ Move(x, k, "body", "gone")
    /\ UNCHANGED <<running, nextId, seen, base, taken, run, called>>

-----------------------------------------------------------------------------
CallStep(x) == FetchAdd(x) \/ Refuse(x) \/ Reject(x) \/ Admit(x)
                 \/ PanicOnLock(x) \/ Launch(x)

\* The steps a context takes towards its end.
Progress(x, k) == StartBody(x, k) \/ BeginFinish(x, k) \/ Release(x, k)
                    \/ CallbackReturns(x, k) \/ FetchSub(x, k)
                    \/ DropContext(x, k)

TaskStep(x, k) == Progress(x, k) \/ Defer(x, k) \/ CallbackPanics(x, k)
                    \/ DropUnfinished(x, k)
                    \/ \E j \in Tasks : Submit(x, k, j) \/ SubmitFinished(x, k, j)

Next == \E x \in Calls : CallStep(x) \/ \E k \in Tasks : TaskStep(x, k)

Spec == Init /\ [][Next]_vars

(***************************************************************************)
(* A caller that entered run() goes on, and rayon runs every spawned       *)
(* closure before rayon::scope returns.  A body ends: it is code that does *)
(* not block on other contexts (strong fairness of BeginFinish, because    *)
(* the body may defer itself, though not for ever).                        *)
(***************************************************************************)
Fairness ==
    /\ \A x \in Calls : WF_vars(CallStep(x))
    /\ \A x \in Calls, k \in Tasks :
          /\ WF_vars(Progress(x, k))
          /\ SF_vars(BeginFinish(x, k))

FairSpec == Spec /\ Fairness

-----------------------------------------------------------------------------
TypeOK ==
    /\ running \in Nat
    /\ nextId \in 0..(RunIdMod - 1)
    /\ seen \in [Calls -> Nat]
    /\ base \in [Calls -> 0..(RunIdMod - 1)]
    /\ taken \in Seq(Calls)
    /\ run \in [Calls -> RunStates]
    /\ task \in [Calls -> [Tasks -> TaskStates]]
    /\ called \in [Calls -> Nat]

\* `running' never falls below the number of runs under way plus the calls
\* that have not decided yet, whatever the interleaving of the fetch_add and
\* fetch_sub of run_impl and finish, and although runs that end badly leave it
\* too high: a run is given back at most once, and only after its callback.
RunningCoversLive ==
    running >= Cardinality({x \in Calls : run[x] = "fetched" \/ InFlight(x)})

\* max_running of run_impl: of the runs under way, those admitted with a limit
\* of at most m are never more than m, although the check is not atomic with
\* the increment, calls that will be refused are counted for a while, and
\* calls with other limits or none run at the same time.
LimitRespected ==
    \A x \in Calls : Limit[x] # NoLimit =>
        Cardinality({y \in Calls : /\ InFlight(y)
                                   /\ Limit[y] # NoLimit
                                   /\ Limit[y] <= Limit[x]}) <= Limit[x]

\* call_if_unique: the callback of a run is called at most once, only after
\* every context that carries it has released it, and no context of the run
\* ever gets hold of a callback again.
CallbackIsLast ==
    \A x \in Calls : /\ called[x] <= 1
                     /\ called[x] = 1 => Holders(x) = {}

\* The base run ids tell the partial inputs of the runs under way apart: two of these
\* share an id only if all RunIdMod ids were taken from the one run to the other, wherever
\* AtomicU32 comes round to 0 between them.  A run that lasts that long does meet its id.
RunIdsDistinct ==
    \A m, n \in DOMAIN taken :
        m < n /\ n - m < RunIdMod /\ InFlight(taken[m]) /\ InFlight(taken[n])
            => base[taken[m]] # base[taken[n]]

\* When every call is valid and the components behave, `running' is exactly
\* the number of runs under way plus the undecided calls: nothing is lost in
\* the error paths, the hand-over to the contexts and the last release.
RunningExact ==
    running = Cardinality({x \in Calls : run[x] = "fetched" \/ InFlight(x)})

\* Every call settles: it is refused, or its run ends with its callback called
\* and `running' given back, whatever contexts it spawned or deferred.
EveryCallSettles ==
    \A x \in Calls : run[x] = "fetched" ~>
        (run[x] = "refused" \/ (run[x] = "over" /\ called[x] = 1))

\* RunLifecycle implements RunAdmission: a run that got past the checks of
\* run_impl is under way until its last context gives `running' back; a run
\* whose last context is lost, or that panicked on a lock, stays under way for
\* ever, as its share of `running' does.
Abstract == INSTANCE RunAdmission WITH
    live <- {x \in Calls : run[x] \in {"admitted", "panicked", "active"}},
    over <- {x \in Calls : run[x] = "over"}

AdmissionIsAtomic == Abstract!Spec

-----------------------------------------------------------------------------
(* What the documentation says and the code does not do.                   *)

\* "Get the number of currently running pipelines" (runner/mod.rs): once no
\* call is undecided, running() is the number of runs under way.
RunningIsRuns ==
    (\A x \in Calls : run[x] # "fetched") =>
        running = Cardinality({x \in Calls : InFlight(x)})

\* "Too many pipelines are currently running" (RunErrorCause::TooManyRunning):
\* a call that is going to be refused met at least Limit runs under way.
RefusedOnlyWhenFull ==
    [][\A x \in Calls :
         (run[x] = "idle" /\ run'[x] = "fetched" /\ ~Passes(x)') =>
            Cardinality({y \in Calls : InFlight(y)}) >= Limit[x]]_vars

\* "After calling this method, [...] submitting a value will be a no-op"
\* (ComponentContextInner::finish): no context of a run is spawned after its
\* callback was called.
NothingAfterFinish ==
    [][\A x \in Calls, j \in Tasks :
         (task[x][j] = "none" /\ task'[x][j] # "none") => called[x] = 0]_vars
=============================================================================
