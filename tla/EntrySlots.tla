----------------------------- MODULE EntrySlots -----------------------------
(***************************************************************************)
(* The inputs of a component that runs are started with and that takes     *)
(* several arguments: each run puts the tree of its arguments into the     *)
(* first open slot of the component, found from a cached index, and its    *)
(* context takes it out again when it finishes.  All runs share the slots; *)
(* each action is one critical section of the component's mutex.           *)
(*                                                                         *)
(* The tree of a run has one level (an entry has no source to branch), so  *)
(* that it is complete when it is put there and stands for its run here.   *)
(***************************************************************************)
EXTENDS Integers, FiniteSets

CONSTANTS
    Calls,  \* calls of run() that start the component
    Open    \* an open slot

ASSUME OpenAssumption == Open \notin Calls

VARIABLES
    inputs,     \* MutableData::inputs, slots counted from 0
    len,        \* how many there are
    first,      \* MutableData::first, "First open index"
    path,       \* path[r]: the slot that the context of run r was given
    active      \* runs whose context has not finished

slotVars == <<inputs, len, first, path, active>>

Slots == 0..(len - 1)

SlotsInit ==
    /\ inputs = [i \in {} |-> Open]
    /\ len = 0
    /\ first = 0
    /\ path = [r \in Calls |-> -1]
    /\ active = {}

-----------------------------------------------------------------------------
\* Mutated form: the search for the next open slot begins at the one just taken.
NextOpenStale(n, k) ==
    /\ k >= n
    /\ k < len => inputs[k] = Open
    /\ \A i \in n..(k - 1) : inputs[i] # Open

\* The slot after n that is open, or the end, is k.
NextOpen(n, k) ==
    /\ k > n
    /\ k < len => inputs[k] = Open
    /\ \A i \in (n + 1)..(k - 1) : inputs[i] # Open

\* run_impl: at the end the slots grow, elsewhere the slot is overwritten.
Start(r) ==
    /\ r \notin active /\ path[r] = -1
    /\ inputs' = [i \in Slots \cup {first} |-> IF i = first THEN r ELSE inputs[i]]
    /\ IF first = len
       THEN len' = len + 1 /\ first' = first + 1
       ELSE len' = len /\ \E k \in 0..len : NextOpen(first, k) /\ first' = k
    /\ path' = [path EXCEPT ![r] = first]
    /\ active' = active \cup {r}

\* The tree is gone, and so are the open slots at the end:
\* while inputs.pop_if(|x| x.is_none()).is_some() {}
Cleared(n) == [inputs EXCEPT ![n] = Open]
Kept(f, k) ==
    /\ k > 0 => f[k - 1] # Open
    /\ \A i \in k..(len - 1) : f[i] = Open

\* finish(): cleanup, and the slot is the first open one if it is before it.
Finish(r) ==
    /\ r \in active
    /\ \E k \in 0..len :
          /\ Kept(Cleared(path[r]), k)
          /\ inputs' = [i \in 0..(k - 1) |-> Cleared(path[r])[i]]
          /\ len' = k
    /\ first' = IF path[r] < first THEN path[r] ELSE first
    /\ active' = active \ {r}
    /\ UNCHANGED path

SlotsNext == \E r \in Calls : Start(r) \/ Finish(r)

SlotsSpec == SlotsInit /\ [][SlotsNext]_slotVars

-----------------------------------------------------------------------------
(* A component that is also fed by others: insert_arg takes the last open  *)
(* slot or the end and leaves the cached index alone.                      *)

Feed(v) ==
    LET open == {i \in Slots : inputs[i] = Open}
        n == IF open = {} THEN len ELSE CHOOSE i \in open : \A j \in open : j <= i
    IN  /\ v \notin active /\ path[v] = -1
        /\ inputs' = [i \in Slots \cup {n} |-> IF i = n THEN v ELSE inputs[i]]
        /\ len' = IF n = len THEN len + 1 ELSE len
        /\ path' = [path EXCEPT ![v] = n]
        /\ active' = active \cup {v}
        /\ UNCHANGED first

FedSpec == SlotsInit /\ [][SlotsNext \/ \E v \in Calls : Feed(v)]_slotVars

-----------------------------------------------------------------------------
\* No run loses its arguments to another one: the slot a context was given holds
\* its tree for as long as it has not finished.
ArgumentsStay == \A r \in active : path[r] \in Slots /\ inputs[path[r]] = r

\* The cached index is the first open slot ("First open index"), although slots
\* are given back in any order and cut off at the end.
FirstIsOpen ==
    /\ first \in 0..len
    /\ \A i \in 0..(first - 1) : inputs[i] # Open
    /\ first < len => inputs[first] = Open
=============================================================================
