---------------------------- MODULE Configurable ----------------------------
(***************************************************************************)
(* Configurable: one slot that holds a configuration until init() turns it *)
(* into a state, once.  Configuration and state share the memory, so that  *)
(* what is there is known only from the Once beside it.  Components are    *)
(* configured from the thread that builds a graph, and read by the threads *)
(* of the pool; a component can be put into two graphs.  get_config() is a *)
(* part of the interface, though nothing here calls it.                    *)
(***************************************************************************)
EXTENDS Naturals, FiniteSets

CONSTANTS
    Threads,    \* threads that call init()
    Askers,     \* threads that call get_state()
    Viewers     \* threads that call get_config()

ASSUME CallsAssumption == Threads \cap (Askers \cup Viewers) = {}

Callers == Threads \cup Askers \cup Viewers

VARIABLES
    once,       \* the Once: "new", "running", "done" or "poisoned"
    slot,       \* what the union holds: "config", "moved" (out of it) or "state"
    called,     \* called[t]: the call of thread t: "no", "inside", "TRUE", "FALSE" or "panic"
    read        \* who has taken the contents for what, and what it was

configVars == <<once, slot, called, read>>

\* An access by `who' that takes the contents for `what'.
Access(who, what) == [by |-> who, as |-> what, was |-> slot]

ConfigurableInit ==
    /\ once = "new"
    /\ slot = "config"
    /\ called = [t \in Callers |-> "no"]
    /\ read = {}

\* Mutated form: the state is announced before it is there.
EnterInitDone(t) ==
    /\ called[t] = "no" /\ once = "new"
    /\ once' = "done"
    /\ slot' = "moved"
    /\ read' = read \cup {Access("init", "config")}
    /\ called' = [called EXCEPT ![t] = "inside"]

\* call_once: the closure moves the configuration out first.
EnterInit(t) ==
    /\ called[t] = "no" /\ once = "new"
    /\ once' = "running"
    /\ slot' = "moved"
    /\ read' = read \cup {Access("init", "config")}
    /\ called' = [called EXCEPT ![t] = "inside"]

\* configure() returns the state.
LeaveInit(t) ==
    /\ called[t] = "inside"
    /\ once' = "done"
    /\ slot' = "state"
    /\ called' = [called EXCEPT ![t] = "TRUE"]
    /\ UNCHANGED read

\* configure() panics.
Unwind(t) ==
    /\ called[t] = "inside"
    /\ once' = "poisoned"
    /\ called' = [called EXCEPT ![t] = "panic"]
    /\ UNCHANGED <<slot, read>>

\* Another call waits for the first one; a poisoned Once panics.
InitAgain(t) ==
    /\ called[t] = "no" /\ once \in {"done", "poisoned"}
    /\ called' = [called EXCEPT ![t] = IF once = "done" THEN "FALSE" ELSE "panic"]
    /\ UNCHANGED <<once, slot, read>>

\* get_state(): None before the state is there.
GetState(t) ==
    /\ called[t] = "no"
    /\ read' = IF once = "done" THEN read \cup {Access("get_state", "state")} ELSE read
    /\ called' = [called EXCEPT ![t] = IF once = "done" THEN "TRUE" ELSE "FALSE"]
    /\ UNCHANGED <<once, slot>>

\* get_config(): None as long as the configuration is there; once the Once is done,
\* whatever is there, as the configuration.
GetConfig(t) ==
    /\ called[t] = "no"
    /\ read' = IF once = "done" THEN read \cup {Access("get_config", "config")} ELSE read
    /\ called' = [called EXCEPT ![t] = IF once = "done" THEN "TRUE" ELSE "FALSE"]
    /\ UNCHANGED <<once, slot>>

\* drop(): needs the slot for itself, so that no call is under way.
DropSlot ==
    /\ \A t \in Callers : called[t] # "inside"
    /\ slot # "dropped"
    /\ read' = CASE once = "new" -> read \cup {Access("drop", "config")}
                 [] once = "done" -> read \cup {Access("drop", "state")}
                 [] OTHER -> read
    /\ slot' = "dropped"
    /\ UNCHANGED <<once, called>>

InitCall(t) == EnterInit(t) \/ LeaveInit(t) \/ Unwind(t) \/ InitAgain(t)

ConfigurableNext ==
    \/ slot # "dropped" /\ \E t \in Threads : InitCall(t)
    \/ slot # "dropped" /\ \E t \in Askers : GetState(t)
    \/ slot # "dropped" /\ \E t \in Viewers : GetConfig(t)
    \/ DropSlot

ConfigurableSpec == ConfigurableInit /\ [][ConfigurableNext]_configVars

-----------------------------------------------------------------------------
\* The slot is never taken for what it does not hold, whoever asks.  get_config() breaks
\* this: it hands out the configuration from the moment that the slot no longer holds it.
SlotKnown == \A a \in read : a.as = a.was

\* Whichever threads race for init() and whether or not configure() panics, init(),
\* get_state() and drop() take the slot for what it holds, and at most one thread is told
\* that it configured the slot.  Every call of get_config() that answers is wrong.
StateKnown ==
    /\ \A a \in read : a.as = a.was <=> a.by # "get_config"
    /\ Cardinality({t \in Threads : called[t] \in {"inside", "TRUE"}}) <= 1
=============================================================================
