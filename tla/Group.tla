-------------------------------- MODULE Group --------------------------------
(***************************************************************************)
(* GroupComponent: a component whose run starts a run of another part of   *)
(* the same graph (the sub-run), waits for its end by asking a flag that   *)
(* the callback of the sub-run sets, and passes on what hidden listener    *)
(* components collected, under the base id of the sub-run, meanwhile.      *)
(*                                                                         *)
(* Several runs of the group are under way at once and share its           *)
(* listeners.  What happens inside a sub-run is RunLifecycle's and         *)
(* PipelineRunner's; here it delivers its values to the listeners in any   *)
(* order and ends.  Its input goes through packed_args as one value.       *)
(***************************************************************************)
EXTENDS Integers, Sequences, FiniteSets

CONSTANTS
    Outer,      \* runs of the group
    Outs,       \* output channels of the group, each with a listener
    MultiOuts,  \* those that are OutputKind::Multiple
    Emits       \* Emits[c]: how many values a sub-run delivers to output c

ASSUME GroupAssumption == /\ MultiOuts \subseteq Outs /\ Emits \in [Outs -> Nat]
                          /\ IsFiniteSet(Outer)

VARIABLES
    subRun,     \* subRun[o]: base id of the sub-run of o, 0 before it starts
    pending,    \* pending[o]: values the sub-run has still to deliver
    ended,      \* ended[o]: the flag is set: the sub-run has called back
    listened,   \* listened[c][r]: Listener::data of output c under base id r
    context,    \* context[o]: "new", "open", "finished" or "leaked"
    polling,    \* outer runs with a polling task
    passed      \* passed[o][c]: what o has submitted to its channel c

groupVars == <<subRun, pending, ended, listened, context, polling, passed>>

BaseIds == 1..Cardinality(Outer)
Item(o, c, k) == [by |-> o, out |-> c, nth |-> k]
\* What the sub-run of o delivers to output c.
Deliveries(o, c) == {Item(o, c, k) : k \in 1..Emits[c]}

GroupInit ==
    /\ subRun = [o \in Outer |-> 0]
    /\ pending = [o \in Outer |-> {}]
    /\ ended = [o \in Outer |-> FALSE]
    /\ listened = [c \in Outs |-> [r \in BaseIds |-> <<>>]]
    /\ context = [o \in Outer |-> "new"]
    /\ polling = {}
    /\ passed = [o \in Outer |-> [c \in Outs |-> <<>>]]

\* run(): the context is taken apart by explode(), so that nothing finishes it by itself; the
\* sub-run gets the next base id, and a polling task is spawned.
BeginGroup(o) ==
    /\ context[o] = "new"
    /\ subRun' = [subRun EXCEPT ![o] = 1 + Cardinality({p \in Outer : subRun[p] # 0})]
    /\ pending' = [pending EXCEPT ![o] = UNION {Deliveries(o, c) : c \in Outs}]
    /\ context' = [context EXCEPT ![o] = "open"]
    /\ polling' = polling \cup {o}
    /\ UNCHANGED <<ended, listened, passed>>

\* run() of a group that found its components neither in initialize() nor in remap(), or
\* whose sub-run is refused: the context, taken apart, is dropped without a finish().  Which
\* of these a group meets is settled by its graph; here any run may.
FailToBegin(o) ==
    /\ context[o] = "new"
    /\ context' = [context EXCEPT ![o] = "leaked"]
    /\ UNCHANGED <<subRun, pending, ended, listened, polling, passed>>

\* Mutated form: the values of all runs are collected in one place.
ListenTogether(o, v) ==
    /\ v \in pending[o]
    /\ listened' = [listened EXCEPT ![v.out][1] = Append(@, v)]
    /\ pending' = [pending EXCEPT ![o] = @ \ {v}]
    /\ UNCHANGED <<subRun, ended, context, polling, passed>>

\* Listener::run.
Listen(o, v) ==
    /\ v \in pending[o]
    /\ listened' = [listened EXCEPT ![v.out][subRun[o]] = Append(@, v)]
    /\ pending' = [pending EXCEPT ![o] = @ \ {v}]
    /\ UNCHANGED <<subRun, ended, context, polling, passed>>

\* The last context of the sub-run finishes: its callback stores the base id.
SubRunEnds(o) ==
    /\ subRun[o] # 0 /\ pending[o] = {} /\ ~ended[o]
    /\ ended' = [ended EXCEPT ![o] = TRUE]
    /\ UNCHANGED <<subRun, pending, listened, context, polling, passed>>

\* The flag is not set: finish(), which does nothing the second time, and poll
\* again.
PollEarly(o) ==
    /\ o \in polling /\ ~ended[o]
    /\ context' = [context EXCEPT ![o] = "finished"]
    /\ UNCHANGED <<subRun, pending, ended, listened, polling, passed>>

\* What is submitted of the values taken from the listener of output c: all of
\* them, or the first; nothing if listening() finds the context finished.
Passed(o, c) ==
    LET vals == listened[c][subRun[o]]
    IN  IF context[o] = "finished" THEN <<>>
        ELSE IF c \in MultiOuts THEN vals
        ELSE SubSeq(vals, 1, IF vals = <<>> THEN 0 ELSE 1)

AllPassed(o) == [c \in Outs |-> Passed(o, c)]

\* Mutated form: values for which nobody listens any more are left where they are.
PollLateKeeping(o) ==
    /\ o \in polling /\ ended[o]
    /\ listened' = IF context[o] = "finished" THEN listened
                   ELSE [c \in Outs |-> [listened[c] EXCEPT ![subRun[o]] = <<>>]]
    /\ passed' = [passed EXCEPT ![o] = AllPassed(o)]
    /\ context' = [context EXCEPT ![o] = IF @ = "open" THEN "leaked" ELSE @]
    /\ polling' = polling \ {o}
    /\ UNCHANGED <<subRun, pending, ended>>

\* The flag is set: take what the listeners have and submit it.  The context is
\* dropped with the polling task; if it was never finished, nothing does so now.
PollLate(o) ==
    /\ o \in polling /\ ended[o]
    /\ listened' = [c \in Outs |-> [listened[c] EXCEPT ![subRun[o]] = <<>>]]
    /\ passed' = [passed EXCEPT ![o] = AllPassed(o)]
    /\ context' = [context EXCEPT ![o] = IF @ = "open" THEN "leaked" ELSE @]
    /\ polling' = polling \ {o}
    /\ UNCHANGED <<subRun, pending, ended>>

GroupRun(o) == BeginGroup(o) \/ FailToBegin(o)
SubRun(o) == SubRunEnds(o) \/ \E v \in pending[o] : Listen(o, v)
Poll(o) == PollEarly(o) \/ PollLate(o)

GroupNext == \E o \in Outer : GroupRun(o) \/ SubRun(o) \/ Poll(o)

\* The pool runs every task that was spawned.
GroupFairness == \A o \in Outer :
    WF_groupVars(GroupRun(o)) /\ WF_groupVars(SubRun(o)) /\ WF_groupVars(Poll(o))

GroupSpec == GroupInit /\ [][GroupNext]_groupVars /\ GroupFairness

-----------------------------------------------------------------------------
\* What a run of the group passes on comes from its own sub-run, each value once and
\* to its own channel: one at most to a single channel, and to another one all that
\* the sub-run delivered, or nothing when the context is finished.
PassesOwnValues ==
    \A o \in Outer, c \in Outs :
        LET p == passed[o][c]
        IN  /\ \A n \in DOMAIN p : p[n] \in Deliveries(o, c)
            /\ \A m, n \in DOMAIN p : m # n => p[m] # p[n]
            /\ IF c \in MultiOuts
               THEN p = <<>> \/ \A v \in Deliveries(o, c) : \E n \in DOMAIN p : p[n] = v
               ELSE Len(p) <= 1

\* Every polling task ends, and leaves nothing of its sub-run in the listeners:
\* they do not grow over the runs, although a value may come at any time.
ListenersEmptied ==
    <>[](/\ polling = {}
         /\ \A c \in Outs, r \in BaseIds : listened[c][r] = <<>>)

\* "Whenever this component is run, it runs another pipeline and completes when
\* it's finished" (GroupComponent).
CompletesWithSubRun == \A o \in Outer : context[o] = "finished" => ended[o]
==============================================================================
