---------------------------- MODULE RunAdmission ----------------------------
(***************************************************************************)
(* What PipelineRunner promises its callers about concurrent runs: a run   *)
(* begins in one step, only while fewer runs than its max_running allow    *)
(* are under way, and ends in one step, once.  RunLifecycle, whose check   *)
(* and increment are separate from the start and the end of the run,       *)
(* implements it.                                                          *)
(***************************************************************************)
EXTENDS Integers, FiniteSets

CONSTANTS Calls, NoLimit, Limit

VARIABLES live,     \* runs under way
          over      \* runs that have ended

Bound(x) == {y \in live : Limit[y] # NoLimit /\ Limit[y] <= Limit[x]}

Init == live = {} /\ over = {}

Begin(x) ==
    /\ x \notin live \cup over
    /\ Limit[x] # NoLimit => Cardinality(Bound(x)) < Limit[x]
    /\ live' = live \cup {x}
    /\ UNCHANGED over

End(x) ==
    /\ x \in live
    /\ live' = live \ {x}
    /\ over' = over \cup {x}

Next == \E x \in Calls : Begin(x) \/ End(x)

Spec == Init /\ [][Next]_<<live, over>>
=============================================================================
