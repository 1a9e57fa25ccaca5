--------------------------- MODULE PipelineRunner ---------------------------
(***************************************************************************)
(* What flows through a PipelineRunner: component contexts submit values,  *)
(* values wait in the input trees of components with several inputs, and   *)
(* the runner decides from the trees when a component runs.                *)
(*                                                                         *)
(* A thread of the pool executes a context as a list of operations, `ops',  *)
(* each of them one critical section of the mutex of one component (or the *)
(* spawn of a task), so that contexts of one run and of other runs         *)
(* interleave wherever the code lets them.  What precedes the first run    *)
(* and ends the last one is RunLifecycle.tla.  A call of run() passes one  *)
(* argument here, so the component it starts with has no tree.             *)
(*                                                                         *)
(* Depths, slots of inputs and branch ids count from 0, as in the code;    *)
(* positions in vectors count from 1.                                      *)
(***************************************************************************)
EXTENDS Dataflow

VARIABLES
    starts,     \* the runs that were started, with their components
    trees,      \* trees[n]: MutableData::inputs of component n
    tasks,      \* contexts that have been spawned and have not finished
    locked,     \* components whose mutex a thread keeps over several operations
    ran,        \* ran[<<n, rid>>]: what each run of component n under rid read
    failure     \* the first panic, after which no step is modelled, or "none"

vars == <<starts, trees, tasks, locked, ran, failure>>

-----------------------------------------------------------------------------
(* Input trees.                                                            *)

\* InputTree.  ri and rf are remaining_inputs and remaining_finish; rf may be
\* u32::MAX, which no decrement brings down to 0.
Node(id, vals, ri, rf) == [id |-> id, vals |-> vals, next |-> <<>>, ri |-> ri, rf |-> rf]
None == [id |-> -1, vals |-> <<>>, next |-> <<>>, ri |-> 0, rf |-> 0]
MaxU32 == 1000

Filled(f) == {n \in DOMAIN f : f[n] # None}
Holes(f) == DOMAIN f \ Filled(f)
Most(S) == CHOOSE i \in S : \A j \in S : i >= j

\* while inputs.pop_if(|x| x.is_none()).is_some() {}
Popped(f) == IF Filled(f) = {} THEN <<>> ELSE SubSeq(f, 1, Most(Filled(f)))

RECURSIVE TreeComplete(_)
TreeComplete(t) == t.rf = 0 /\ \A n \in Filled(t.next) : TreeComplete(t.next[n])

\* The inputs that level k (from 1) of a tree of this shape holds itself.
LevelSize(shape, k) == shape[k] - At(shape, k + 1, 0)

Blank(size) == [i \in 1..size |-> NoVal]
Holding(size, slot, val) == [i \in 1..size |-> IF i = slot + 1 THEN val ELSE NoVal]

-----------------------------------------------------------------------------
(* insert_arg: a value arrives at a component with a tree.                 *)

\* Result of an insertion: the forest, the path at which the component can be
\* run (<<>> if it cannot), and whether the code panicked.
Inserted(f, path, bad) == [f |-> f, path |-> path, bad |-> bad]

\* maybe_run at a node of a level that just became complete, with `levels'
\* below it.  The node is always new and has no children yet, so the component
\* runs if the node is a leaf.
MaybeRun(levels, path) == IF levels = 0 THEN path ELSE <<>>

\* f with tree t in slot n, which may be the one after the last.
With(f, n, t) == [i \in DOMAIN f \cup {n} |-> IF i = n THEN t ELSE f[i]]

\* Mutated form: finish does not leave the inputs of a broadcasting component
\* alone until the component itself has let go of them.
NewNodeUnpinned(a, k) ==
    LET size == LevelSize(a.shape, k)
    IN  IF k = Len(a.rid)
        THEN Node(a.rid[k], Holding(size, a.slot, a.val), size - 1, a.shape[k])
        ELSE Node(a.rid[k], Blank(size), size, a.shape[k])

\* The node that value `a' needs at level k.
NewNode(a, k) ==
    LET size == LevelSize(a.shape, k)
        rf == IF a.named /\ k = Len(a.shape) THEN MaxU32 ELSE a.shape[k]
    IN  IF k = Len(a.rid)
        THEN Node(a.rid[k], Holding(size, a.slot, a.val), size - 1, rf)
        ELSE Node(a.rid[k], Blank(size), size, rf)

\* a is the value with its run id, slot and the shape of the tree; a.named is
\* broadcast.is_none(); done says that every level above k is complete.
RECURSIVE InsertArg(_, _, _, _, _)
InsertArg(f, a, k, done, path) ==
    LET hits == {n \in Filled(f) : f[n].id = a.rid[k]}
        n == IF hits # {} THEN Least(hits)
             ELSE IF Holes(f) # {} THEN Most(Holes(f)) ELSE Len(f) + 1
        t == IF hits # {} THEN f[n] ELSE NewNode(a, k)
        complete == done /\ t.ri = 0
        here == Append(path, n)
        deeper == InsertArg(t.next, a, k + 1, complete, here)
    IN  IF k > Len(a.rid) \/ k > Len(a.shape)
        THEN Inserted(f, <<>>, FALSE)
        ELSE IF k < Len(a.rid)
        THEN Inserted(With(f, n, [t EXCEPT !.next = deeper.f]), deeper.path, deeper.bad)
        ELSE IF a.slot >= Len(t.vals) \/ (hits # {} /\ t.ri = 0)
        THEN Inserted(f, <<>>, TRUE)
        ELSE IF hits = {}
        THEN Inserted(With(f, n, t),
                      IF complete THEN MaybeRun(Len(a.shape) - k, here) ELSE <<>>, FALSE)
        ELSE Inserted([f EXCEPT ![n].vals[a.slot + 1] = a.val, ![n].ri = @ - 1],
                      <<>>, FALSE)

-----------------------------------------------------------------------------
(* pre_propagate: a context that is about to be spawned announces itself   *)
(* to the trees it may reach.                                              *)

\* `empty' of the loop: the last slot that holds another branch.
Foreign(f, id) == {n \in Filled(f) : f[n].id # id}

\* f is the children of a node whose remaining_finish is rf.  The size of a
\* level is taken from tree_shape[1], whatever the level.
RECURSIVE InsertPre(_, _, _, _, _)
InsertPre(f, rf, k, rid, shape) ==
    LET size == shape[k] - At(shape, 2, 0)
        hits == {n \in Filled(f) : f[n].id = rid[k]}
        n == IF hits # {} THEN Least(hits)
             ELSE IF Foreign(f, rid[k]) # {} THEN Most(Foreign(f, rid[k])) ELSE Len(f) + 1
        t == IF hits # {} THEN f[n] ELSE Node(rid[k], Blank(size), size, shape[k])
        r == InsertPre(t.next, t.rf, k + 1, rid, shape)
    IN  IF k > Len(shape) \/ size < 0
        THEN [f |-> f, rf |-> rf, bad |-> TRUE]
        ELSE IF k = Len(rid)
        THEN [f |-> f, rf |-> rf + 1, bad |-> FALSE]
        ELSE [f |-> With(f, n, [t EXCEPT !.next = r.f, !.rf = r.rf]),
              rf |-> rf, bad |-> r.bad]

-----------------------------------------------------------------------------
(* finish: a context lets go of its own inputs.                            *)

\* rf is the remaining_finish of the node above; unwind goes up as long as
\* nothing is left below.
RECURSIVE OwnCleanup(_, _, _)
OwnCleanup(f, rf, path) ==
    IF path = <<>> THEN [f |-> f, rf |-> 0, unwind |-> TRUE]
    ELSE IF path[1] \notin Filled(f) THEN [f |-> f, rf |-> rf, unwind |-> FALSE]
    ELSE LET t == f[path[1]]
             r == OwnCleanup(t.next, t.rf, Tail(path))
             done == r.unwind /\ r.rf = 0 /\ Filled(r.f) = {}
             left == IF done THEN None ELSE [t EXCEPT !.next = r.f, !.rf = r.rf]
         IN  [f |-> IF done THEN Popped([f EXCEPT ![path[1]] = left])
                    ELSE [f EXCEPT ![path[1]] = left],
              rf |-> rf, unwind |-> done]

-----------------------------------------------------------------------------
(* post_propagate: the trees downstream learn that a context finished.     *)

\* Mutated form: the new context is given a copy of the tree.
SettleCopied(st, n, t, d, bc) ==
    IF bc # NoBroadcast /\ d > bc
    THEN [st EXCEPT !.f[n] = t]
    ELSE IF bc # NoBroadcast /\ ~TreeComplete(t)
    THEN [st EXCEPT !.f[n] = t, !.all = FALSE]
    ELSE IF d = bc
    THEN [st EXCEPT !.f[n] = t, !.out = Append(@, t)]
    ELSE [st EXCEPT !.f[n] = None]

\* What happens to a tree at depth d whose count has come down: a component
\* that takes trees is run with it at depth bc.
Settle(st, n, t, d, bc) ==
    IF bc # NoBroadcast /\ d > bc
    THEN [st EXCEPT !.f[n] = t]
    ELSE IF bc # NoBroadcast /\ ~TreeComplete(t)
    THEN [st EXCEPT !.f[n] = t, !.all = FALSE]
    ELSE IF d = bc
    THEN [st EXCEPT !.f[n] = None, !.out = Append(@, t)]
    ELSE [st EXCEPT !.f[n] = None]

\* One pass over the children f of a node whose remaining_finish is rf, at
\* depth d (from 0); c has the run id of the finished context, the depth
\* `target' and the `extra' levels above it where it is counted, and bc.
RECURSIVE PostCleanup(_, _, _, _)
PostCleanup(f, rf, d, c) ==
    LET Visit(st, n) ==
            IF st.bad \/ f[n] = None \/ (d < Len(c.rid) /\ f[n].id # c.rid[d + 1])
            THEN st
            ELSE LET counts == d >= c.target \/ d + c.extra >= c.target
                     up == d + c.extra = c.target
                     own == [f[n] EXCEPT !.rf = IF counts THEN @ - 1 ELSE @]
                     r == PostCleanup(own.next, own.rf, d + 1, c)
                     t == IF d < c.target THEN [own EXCEPT !.next = r.f, !.rf = r.rf] ELSE own
                     s == [st EXCEPT !.rf = IF up THEN @ - 1 ELSE @,
                                     !.out = IF d < c.target THEN @ \o r.out ELSE @]
                     open == \/ d < c.target /\ ~r.all
                             \/ t.rf > 0
                             \/ c.bc = NoBroadcast /\ Filled(t.next) # {}
                             \/ d >= c.target /\
                                \E m \in Filled(t.next) : ~TreeComplete(t.next[m])
                 IN  IF (counts /\ f[n].rf = 0) \/ (up /\ st.rf = 0)
                            \/ (d < c.target /\ r.bad)
                     THEN [st EXCEPT !.bad = TRUE]
                     ELSE IF open THEN [s EXCEPT !.f[n] = t, !.all = FALSE]
                     ELSE Settle(s, n, t, d, c.bc)
        st == FoldLeft(Visit, [f |-> f, rf |-> rf, all |-> TRUE, out |-> <<>>, bad |-> FALSE],
                       [n \in DOMAIN f |-> n])
    IN  [st EXCEPT !.f = Popped(@)]

-----------------------------------------------------------------------------
(* The operations of a context, and the lists of them that its calls are.  *)

\* InputKind: one value, a tree of values, or a path to where they wait.
Single(v) == <<"single", v>>
Tree(t) == <<"tree", t>>
Multiple(path) == <<"multiple", path>>

Op(kind, n, rid, arg) == [op |-> kind, n |-> n, rid |-> rid, arg |-> arg]
Bare == <<"bare">>

\* What a loop over some edges does.
Along(es, Ops(_)) == FlattenSeq([k \in DOMAIN es |-> Ops(es[k])])

\* The dependents of a component, in one of the orders the HashMap may have.
EdgesOf(deps) == Along(SetToSeq(DOMAIN deps), LAMBDA ch : deps[ch])
Edges == [n \in DOMAIN Comps |-> EdgesOf(Comps[n].deps)]

IsTree(n) == Comps[n].mode = "multi"

\* pre_propagate(n, rid).  Under a base run id nothing is inserted anywhere, but
\* the components are locked all the same.
RECURSIVE PreOps(_, _)
PreOps(n, rid) ==
    LET Ops(e) ==
            (IF IsTree(e.to) THEN <<Op("pre", e.to, rid, Bare)>> ELSE <<>>)
            \o (IF IsTree(e.to) /\ Comps[e.to].bc # NoBroadcast THEN <<>>
                ELSE PreOps(e.to, rid))
    IN  Along(Edges[n], Ops)

\* Mutated form: a context is spawned without being announced.
LaunchUnannounced(n, rid, input) == <<Op("spawn", n, rid, input)>>

\* ComponentContextInner::spawn.
Launch(n, rid, input) == PreOps(n, rid) \o <<Op("spawn", n, rid, input)>>

\* submit_impl, with the run id that the value goes out under.  The id of a context that
\* it leads to has the extension of the edge; a tree takes the value without it.
Submit(n, ch, rid) ==
    LET Deliver(e) ==
            LET next == IF e.ext = NoExt THEN rid ELSE Append(rid, e.ext) IN
            IF IsTree(e.to)
            THEN <<Op("arg", e.to, rid, <<"arg", e.slot, Val(n, ch, rid), next>>)>>
            ELSE Launch(e.to, next, Single(Val(n, ch, rid)))
    IN  Along(At(Comps[n].deps, ch, <<>>), Deliver)

\* Mutated form: what a context could have led to through other components is
\* not told that it has finished.
PostOpsNearest(n, rid, canExtra) ==
    LET Ops(e) == <<Op("post", e.to, rid,
                       <<"post", [rid |-> rid, target |-> Lesser(Len(rid) - 1, e.depth),
                                  bc |-> Comps[e.to].bc, extra |-> 0]>>)>>
        Wanted(e) == IsTree(e.to)
    IN  Along(SelectSeq(Edges[n], Wanted), Ops)

\* post_propagate(n, rid).
RECURSIVE PostOps(_, _, _)
PostOps(n, rid, canExtra) ==
    LET Ops(e) ==
            LET extra == IF ~canExtra THEN 0
                         ELSE (IF e.flag THEN 1 ELSE 0) + (IF e.ext = NoExt THEN 0 ELSE 1)
                target == Lesser(Len(rid) + extra - 1, e.depth)
                c == [rid |-> rid, target |-> target, bc |-> Comps[e.to].bc,
                      extra |-> IF target > Len(rid) - 1 THEN target - (Len(rid) - 1) ELSE 0]
            IN  (IF IsTree(e.to) THEN <<Op("post", e.to, rid, <<"post", c>>)>> ELSE <<>>)
                \o (IF ~e.flag \/ (IsTree(e.to) /\ Comps[e.to].bc # NoBroadcast) THEN <<>>
                    ELSE PostOps(e.to, rid, FALSE))
    IN  Along(Edges[n], Ops)

\* finish().
Finish(n, rid) ==
    Submit(n, "$finish", rid)
    \o (IF IsTree(n) /\ Comps[n].bc = NoBroadcast THEN <<Op("own", n, rid, Bare)>> ELSE <<>>)
    \o PostOps(n, rid, TRUE)

\* Component::run, which reads its inputs, submits, and is dropped.
Body(n, rid) ==
    LET i == Origin[n]
    IN  <<Op("read", n, rid, Bare)>>
        \o FlattenSeq([k \in DOMAIN Script[i] |->
                          Submit(n, Script[i][k], SentUnder(i, k, rid))])
        \o Finish(n, rid)

Task(n, rid, input) == [comp |-> n, rid |-> rid, input |-> input, ops |-> Body(n, rid)]

-----------------------------------------------------------------------------
(* What a context reads.                                                   *)

\* The nodes at depth d below the root of a tree, and the values in one slot
\* of the component they are given to.
RECURSIVE NodesAt(_, _)
NodesAt(t, d) ==
    IF d = 0 THEN {t} ELSE UNION {NodesAt(t.next[n], d - 1) : n \in Filled(t.next)}

ValuesAt(t, c, ch) ==
    LET s == c.slots[ch]
    IN  {u.vals[s.slot + 1] :
            u \in {v \in NodesAt(t, s.depth - c.bc) : s.slot < Len(v.vals)}} \ {NoVal}

\* The node at depth d on a path, None if some node of it is not there.
RECURSIVE OnPath(_, _, _)
OnPath(f, path, d) ==
    IF path = <<>> \/ path[1] \notin Filled(f) THEN None
    ELSE IF d = 0 THEN f[path[1]]
    ELSE OnPath(f[path[1]].next, Tail(path), d - 1)

\* get() panics where the path ends too early, input_indices() where a depth
\* less the depth of the tree's root is below 0.
ReadFails(t) ==
    LET c == Comps[t.comp] IN
    /\ IsTree(t.comp)
    /\ \E ch \in DOMAIN c.slots :
          IF c.bc = NoBroadcast
          THEN OnPath(trees[t.comp], t.input[2], c.slots[ch].depth) = None
          ELSE c.slots[ch].depth < c.bc

\* get() of every channel, or the values of the tree that get(None) returns.
Inputs(t) ==
    LET c == Comps[t.comp] IN
    IF ~IsTree(t.comp) THEN {In(c.chan, t.input[2])}
    ELSE IF c.bc # NoBroadcast
    THEN UNION {{In(ch, v) : v \in ValuesAt(t.input[2], c, ch)} : ch \in DOMAIN c.slots}
    ELSE {In(ch, OnPath(trees[t.comp], t.input[2], c.slots[ch].depth).vals[c.slots[ch].slot + 1]) :
             ch \in DOMAIN c.slots}

-----------------------------------------------------------------------------
\* The threads that call run(), each about to spawn the component of its run.
Entries(s) ==
    LET Comp(r) == Mapping[s[r]]
    IN  {[comp |-> Comp(r), rid |-> <<r>>, input |-> Bare,
          ops |-> Launch(Comp(r), <<r>>, Single(Argument(r)))] : r \in DOMAIN s}

Init ==
    /\ starts \in Starts
    /\ trees = [n \in {m \in DOMAIN Comps : IsTree(m)} |-> <<>>]
    /\ tasks = Entries(starts)
    /\ locked = {}
    /\ ran = [k \in {} |-> <<>>]
    /\ failure = "none"

\* Context t is done with the operation at the head of its list, and has the
\* operations `more' to do before the others.  It is gone when none is left.
Advance(t, more, spawned) ==
    LET left == more \o Tail(t.ops)
    IN  tasks' = (tasks \ {t}) \cup spawned
                    \cup (IF left = <<>> THEN {} ELSE {[t EXCEPT !.ops = left]})

AtOp(t, kind) == t.ops[1].op = kind

Panic(why) ==
    /\ failure' = why
    /\ UNCHANGED <<trees, tasks, locked, ran>>

\* get() unwraps the inputs it finds: a context whose inputs are gone panics.
Read(t) ==
    /\ AtOp(t, "read")
    /\ IF ReadFails(t)
       THEN Panic("missing input in tree")
       ELSE /\ LET k == <<t.comp, t.rid>>
               IN  ran' = Put(ran, k, Append(At(ran, k, <<>>), Inputs(t)))
            /\ Advance(t, <<>>, {})
            /\ UNCHANGED <<trees, locked, failure>>

Spawn(t) ==
    /\ AtOp(t, "spawn")
    /\ LET o == t.ops[1] IN Advance(t, <<>>, {Task(o.n, o.rid, o.arg)})
    /\ UNCHANGED <<trees, locked, ran, failure>>

\* submit_impl locks the component, inserts, and spawns it after the unlock.
Arrive(t) ==
    LET o == t.ops[1]
        named == Comps[o.n].bc = NoBroadcast
        r == InsertArg(trees[o.n],
                       [rid |-> o.rid, shape |-> Comps[o.n].shape, slot |-> o.arg[2],
                        val |-> o.arg[3], named |-> named],
                       1, named, <<>>)
    IN  /\ AtOp(t, "arg")
        /\ o.n \notin locked
        /\ IF r.bad
           THEN Panic("insert_arg")
           ELSE /\ trees' = [trees EXCEPT ![o.n] = r.f]
                /\ Advance(t, IF r.path = <<>> THEN <<>>
                              ELSE Launch(o.n, o.arg[4], Multiple(r.path)), {})
                /\ UNCHANGED <<locked, ran, failure>>

Announce(t) ==
    LET o == t.ops[1]
        r == InsertPre(trees[o.n], 0, 1, o.rid, Comps[o.n].shape)
    IN  /\ AtOp(t, "pre")
        /\ o.n \notin locked
        /\ IF r.bad
           THEN Panic("pre_propagate")
           ELSE /\ trees' = [trees EXCEPT ![o.n] = r.f]
                /\ Advance(t, <<>>, {})
                /\ UNCHANGED <<locked, ran, failure>>

ReleaseInputs(t) ==
    LET o == t.ops[1]
    IN  /\ AtOp(t, "own")
        /\ o.n \notin locked
        /\ trees' = [trees EXCEPT ![o.n] = OwnCleanup(@, MaxU32, t.input[2]).f]
        /\ Advance(t, <<>>, {})
        /\ UNCHANGED <<locked, ran, failure>>

\* A tree that is complete is handed to a new context before the unlock.
SignalFinish(t) ==
    LET o == t.ops[1]
        c == o.arg[2]
        r == PostCleanup(trees[o.n], MaxU32, 0, c)
        Start(k) == Launch(o.n, SubSeq(o.rid, 1, c.bc + 1), Tree(r.out[k]))
    IN  /\ AtOp(t, "post")
        /\ o.n \notin locked
        /\ IF r.bad \/ (r.out # <<>> /\ Len(o.rid) <= c.bc)
           THEN Panic("post_propagate")
           ELSE /\ trees' = [trees EXCEPT ![o.n] = r.f]
                /\ locked' = IF r.out = <<>> THEN locked ELSE locked \cup {o.n}
                /\ Advance(t, FlattenSeq([k \in DOMAIN r.out |-> Start(k)])
                               \o (IF r.out = <<>> THEN <<>>
                                   ELSE <<Op("unlock", o.n, o.rid, Bare)>>), {})
                /\ UNCHANGED <<ran, failure>>

Unlock(t) ==
    /\ AtOp(t, "unlock")
    /\ locked' = locked \ {t.ops[1].n}
    /\ Advance(t, <<>>, {})
    /\ UNCHANGED <<trees, ran, failure>>

Step(t) == Read(t) \/ Spawn(t) \/ Arrive(t) \/ Announce(t) \/ ReleaseInputs(t)
             \/ SignalFinish(t) \/ Unlock(t)

Next == failure = "none" /\ UNCHANGED starts /\ \E t \in tasks : Step(t)

Spec == Init /\ [][Next]_vars

-----------------------------------------------------------------------------
Idle == tasks = {} /\ failure = "none"

CallsMade(n) == {Call(k[2], ran[k][1]) : k \in {x \in DOMAIN ran : x[1] = n}}

\* A component runs only with a set of values that belong together, complete
\* and under their common run id, and at most once with each ("Each component
\* will be called with a particular RunId at most once", RunId in run.rs).
CallsAreExpected ==
    /\ \A k \in DOMAIN ran : Len(ran[k]) = 1
    /\ \A n \in DOMAIN Comps : CallsMade(n) \subseteq Expected[starts][n]

\* When nothing is left to do, every set of values that belong together has
\* been given to the component that waits for it: none is lost in a tree.
EveryCallMade ==
    Idle => \A n \in DOMAIN Comps : CallsMade(n) = Expected[starts][n]

\* assert_clean: "This should return Ok(()) when no pipelines are currently
\* running": every partial input has been taken out of the trees again.
CleanWhenIdle ==
    Idle => \A n \in DOMAIN trees : Filled(trees[n]) = {}

\* It is so for the components that take whole trees; of those with named inputs,
\* some keep a part of one after a run.
TreesCleared ==
    Idle => \A n \in DOMAIN trees :
                Comps[n].bc # NoBroadcast => Filled(trees[n]) = {}

\* finish() and post_propagate take no input away from a context that has not
\* finished: the path it holds leads to the nodes of its own run id.
InputsStay ==
    \A t \in tasks :
        /\ IsTree(t.comp) /\ Comps[t.comp].bc = NoBroadcast
        /\ \E k \in DOMAIN t.ops : t.ops[k].op = "own"
        => \A d \in DOMAIN t.input[2] :
              OnPath(trees[t.comp], t.input[2], d - 1).id = t.rid[d]

\* No count falls below zero and no index is out of range, whatever the order
\* in which values arrive and contexts finish.
NoPanic == failure = "none"

\* Nobody waits for a mutex for ever: while a context is left, some context is
\* not held up by a lock, so that a run of finite scripts comes to its end.
SomeoneCanStep ==
    tasks # {} =>
        \E t \in tasks : AtOp(t, "read") \/ AtOp(t, "spawn") \/ AtOp(t, "unlock")
                            \/ t.ops[1].n \notin locked

\* However contexts interleave, the runs go on to their end without a panic or a
\* deadlock, and then every call has been made.
RunsComplete == NoPanic /\ SomeoneCanStep /\ EveryCallMade
=============================================================================
