------------------------------- MODULE Daemon -------------------------------
(***************************************************************************)
(* The worker threads of the playground (src/bins/vv-pg/src/daemon.rs).    *)
(* A worker loops: it reads its run state, ends when that is SHUTDOWN,     *)
(* parks when it is PAUSED and does a step of work otherwise.  A handle    *)
(* changes the state and unparks the thread; both are steps of their own,  *)
(* and a handle may be used from several threads.                          *)
(***************************************************************************)
EXTENDS Naturals

CONSTANTS
    Workers,    \* the daemons
    Callers,    \* the threads that hold their handles
    NoWorker,   \* a caller that is not about to unpark anybody
    Panicking   \* the workers whose work() may panic

ASSUME DaemonAssumption == NoWorker \notin Workers /\ Panicking \subseteq Workers

VARIABLES
    runState,   \* SharedContext.run_state
    token,      \* is the token of thread::park available?
    at,         \* where the worker's thread is
    unparking   \* the worker that a caller has yet to unpark

daemonVars == <<runState, token, at, unparking>>

States == {"PAUSED", "RUNNING", "SHUTDOWN"}
Places == {"load", "park", "work", "cleanup", "done"}

TypeOK ==
    /\ runState \in [Workers -> States]
    /\ token \in [Workers -> BOOLEAN]
    /\ at \in [Workers -> Places]
    /\ unparking \in [Callers -> Workers \cup {NoWorker}]

Init ==
    /\ runState = [w \in Workers |-> "PAUSED"]
    /\ token = [w \in Workers |-> FALSE]
    /\ at = [w \in Workers |-> "load"]
    /\ unparking = [c \in Callers |-> NoWorker]

---------------------------------------------------------------------------
(* The worker's thread. *)

\* The value that is loaded decides the next step, whatever it becomes later.
Dispatch(state) ==
    CASE state = "SHUTDOWN" -> "cleanup"
      [] state = "PAUSED"   -> "park"
      [] state = "RUNNING"  -> "work"

Load(w) ==
    /\ at[w] = "load"
    /\ at' = [at EXCEPT ![w] = Dispatch(runState[w])]
    /\ UNCHANGED <<runState, token, unparking>>

\* Parking takes the token if there is one, and waits for it otherwise.
Unparked(w) ==
    /\ at[w] = "park"
    /\ token[w]
    /\ token' = [token EXCEPT ![w] = FALSE]
    /\ at' = [at EXCEPT ![w] = "load"]
    /\ UNCHANGED <<runState, unparking>>

\* park() may return without a reason.
SpuriousWakeup(w) ==
    /\ at[w] = "park"
    /\ ~token[w]
    /\ at' = [at EXCEPT ![w] = "load"]
    /\ UNCHANGED <<runState, token, unparking>>

Work(w) ==
    /\ at[w] = "work"
    /\ at' = [at EXCEPT ![w] = "load"]
    /\ UNCHANGED <<runState, token, unparking>>

\* A panic ends the thread without cleanup().
Panic(w) ==
    /\ w \in Panicking
    /\ at[w] = "work"
    /\ at' = [at EXCEPT ![w] = "done"]
    /\ UNCHANGED <<runState, token, unparking>>

Cleanup(w) ==
    /\ at[w] = "cleanup"
    /\ at' = [at EXCEPT ![w] = "done"]
    /\ UNCHANGED <<runState, token, unparking>>

---------------------------------------------------------------------------
(* The handle. *)

\* start(): whoever swaps PAUSED away has to unpark the thread.
Start(c, w) ==
    /\ unparking[c] = NoWorker
    /\ runState' = [runState EXCEPT ![w] = "RUNNING"]
    /\ unparking' = [unparking EXCEPT ![c] =
                        IF runState[w] = "PAUSED" THEN w ELSE NoWorker]
    /\ UNCHANGED <<token, at>>

Pause(c, w) ==
    /\ unparking[c] = NoWorker
    /\ runState' = [runState EXCEPT ![w] = "PAUSED"]
    /\ UNCHANGED <<token, at, unparking>>

\* Mutated form: the thread is not unparked.
ShutdownParked(c, w) ==
    /\ unparking[c] = NoWorker
    /\ runState' = [runState EXCEPT ![w] = "SHUTDOWN"]
    /\ UNCHANGED <<token, at, unparking>>

Shutdown(c, w) ==
    /\ unparking[c] = NoWorker
    /\ runState' = [runState EXCEPT ![w] = "SHUTDOWN"]
    /\ unparking' = [unparking EXCEPT ![c] = w]
    /\ UNCHANGED <<token, at>>

Unpark(c) ==
    /\ unparking[c] # NoWorker
    /\ token' = [token EXCEPT ![unparking[c]] = TRUE]
    /\ unparking' = [unparking EXCEPT ![c] = NoWorker]
    /\ UNCHANGED <<runState, at>>

IsFinished(w) == at[w] = "done"

---------------------------------------------------------------------------
ThreadStep(w) == Load(w) \/ Unparked(w) \/ Work(w) \/ Panic(w) \/ Cleanup(w)
HandleStep(c) == Unpark(c) \/ \E w \in Workers : Start(c, w) \/ Pause(c, w) \/ Shutdown(c, w)

Next ==
    \/ \E w \in Workers : ThreadStep(w) \/ SpuriousWakeup(w)
    \/ \E c \in Callers : HandleStep(c)

Spec == Init /\ [][Next]_daemonVars

---------------------------------------------------------------------------
(* Properties. *)

\* A worker that is about to park or parked although it is not (any more) to
\* be paused has a token, or somebody is about to give it one: no start() and no
\* shutdown() is missed, whenever it comes and whatever comes after it.
NoLostWakeup ==
    \A w \in Workers :
        at[w] = "park" /\ runState[w] # "PAUSED" =>
            token[w] \/ \E c \in Callers : unparking[c] = w

\* "The thread is shutting down or has done so already" (daemon.rs:24): a
\* daemon that was told to shut down is not called back.  start() and pause()
\* do call it back, with a warning.
ShutdownIsFinal ==
    [][\A w \in Workers : runState[w] = "SHUTDOWN" => runState'[w] = "SHUTDOWN"]_daemonVars
=============================================================================
