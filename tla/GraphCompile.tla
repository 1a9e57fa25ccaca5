---------------------------- MODULE GraphCompile ----------------------------
(***************************************************************************)
(* PipelineGraph::compile as an operator: from the graph a user built to   *)
(* the component table of a PipelineRunner, or to the error it returns.    *)
(*                                                                         *)
(* A compiled component is a record                                        *)
(*   type   the component type                                             *)
(*   mode   "single" or "multi" (InputMode)                                *)
(*   chan   for "single": the name of its input                            *)
(*   wrap   for "single": the value arrives wrapped in an InputTree        *)
(*   bc     for "multi": broadcast, the depth of its trees, or NoBroadcast *)
(*   shape  for "multi": tree_shape, the inputs at each depth and below    *)
(*   slots  for "multi": lookup, the depth and the slot of each channel    *)
(*   deps   dependents: the edges [to, flag, depth, slot, ext] by channel  *)
(* Depths and slots count from 0, as in the code.                          *)
(***************************************************************************)
EXTENDS GraphData

NoBroadcast == -1
NoExt == -1

Failed(why) == [error |-> why]

-----------------------------------------------------------------------------
(* The order of the components: rounds of a topological sort.              *)

\* Mutated form: one source that is done is enough.
ReadyEarly(g, done) ==
    {i \in Live(g) \ ToSet(done) :
        DOMAIN g.comps[i].count = {} \/ DOMAIN g.comps[i].count \cap ToSet(done) # {}}

Ready(g, done) ==
    {i \in Live(g) \ ToSet(done) : DOMAIN g.comps[i].count \subseteq ToSet(done)}

\* The components of a set in the order in which the loop comes to them.
InOrder(S) == [n \in 1..Cardinality(S) |-> CHOOSE i \in S : Cardinality({j \in S : j <= i}) = n]

\* A round takes the components whose sources have all been taken in earlier ones.
Round(g, done) == done \o InOrder(Ready(g, done))

\* The order after some rounds.  The loop ends with a round that takes nothing, after
\* one for each component at most.
After(g) ==
    LET after[n \in 0..Len(g.comps)] == IF n = 0 THEN <<>> ELSE Round(g, after[n - 1])
    IN  after

Rounds(g) == After(g)[Len(g.comps)]

Position(order, i) ==
    IF i \in ToSet(order) THEN CHOOSE n \in DOMAIN order : order[n] = i ELSE 0

-----------------------------------------------------------------------------
(* InputMode, from the inputs the component declares.                      *)

InitialMode(c) ==
    LET lone == c.type.mode # "fulltree" /\
                IF c.multi # NoMulti THEN c.single = <<>> ELSE Len(c.single) = 1
    IN  IF c.type.mode = "primary" \/ lone THEN "single" ELSE "multi"

Broadcast(c) == IF c.type.mode = "named" THEN NoBroadcast ELSE 0

-----------------------------------------------------------------------------
(* The branch points that lead to each component, and from them the depth  *)
(* of the trees (`to').  The first edge that is `lost' (it leads to no     *)
(* component, which is a panic) or `mixed' (BranchMismatch) ends it.       *)

\* Mutated form: of the branch points only the channels are compared.
DifferByChannel(a, b) ==
    \E n \in DOMAIN a \cap DOMAIN b : a[n][2] # b[n][2]

Differ(a, b) ==
    \E n \in DOMAIN a \cap DOMAIN b : a[n] # b[n]

Lesser(a, b) == IF a <= b THEN a ELSE b

\* Mutated form: what follows a tree component keeps its branch points.
TruncateNothing(s, n) == s

Truncate(s, n) == SubSeq(s, 1, Lesser(Len(s), n))

\* One edge into component d, reached with the branch points `branch'.
Reach(st, d, branch) ==
    IF st.lost \/ st.mixed THEN st
    ELSE IF d = 0 THEN [st EXCEPT !.lost = TRUE]
    ELSE IF Differ(branch, st.branch[d]) THEN [st EXCEPT !.mixed = TRUE]
    ELSE [st EXCEPT !.branch[d] = IF Len(branch) >= Len(@) THEN branch ELSE @,
                    !.to[d] = IF @ = NoBroadcast THEN @
                              ELSE Lesser(Len(branch), Len(st.branch[d]))]

\* What the edges of a channel, reached with the branch points `via', make of st, up to
\* each of them.
AlongEdges(order, st, es, via) ==
    LET after[k \in 0..Len(es)] ==
            IF k = 0 THEN st ELSE Reach(after[k - 1], Position(order, es[k].id), via)
    IN  after

\* A channel of the n-th component, whose own branch points are `own'.
AlongChannel(order, st, es, own, n, ch) ==
    AlongEdges(order, st, es,
               IF es # <<>> /\ es[1].flag THEN Append(own, <<n, ch>>) ELSE own)[Len(es)]

\* The channels of the n-th component, up to each of them.
AlongChannels(g, order, st, own, n) ==
    LET c == g.comps[order[n]]
        after[k \in 0..Len(ChanOrder(c))] ==
            IF k = 0 THEN [st EXCEPT !.branch[n] = own]
            ELSE AlongChannel(order, after[k - 1], At(c.outs, ChanOrder(c)[k], <<>>),
                              own, n, ChanOrder(c)[k])
    IN  after

\* All edges out of the n-th component, whose own branch points are final.
Spread(g, order, st, n) ==
    AlongChannels(g, order, st,
                  IF st.to[n] = NoBroadcast THEN st.branch[n]
                  ELSE Truncate(st.branch[n], st.to[n]),
                  n)[Len(ChanOrder(g.comps[order[n]]))]

\* The components, up to each of them.
SpreadUpTo(g, order) ==
    LET after[n \in 0..Len(order)] ==
            IF n = 0
            THEN [branch |-> [m \in DOMAIN order |-> <<>>],
                  to     |-> [m \in DOMAIN order |->
                                IF InitialMode(g.comps[order[m]]) = "multi"
                                THEN Broadcast(g.comps[order[m]]) ELSE NoBroadcast],
                  lost   |-> FALSE,
                  mixed  |-> FALSE]
            ELSE Spread(g, order, after[n - 1], n)
    IN  after

Branches(g, order) == SpreadUpTo(g, order)[Len(order)]

-----------------------------------------------------------------------------
(* The wiring: slots for the inputs, edges for the outputs.                *)

Branching(g, src) ==
    LET es == At(g.comps[src.id].outs, src.chan, <<>>) IN es # <<>> /\ es[1].flag

\* The depth at which a source delivers: its own branch points, and one more
\* if the channel branches.
Depth(g, order, br, src) ==
    Len(br[Position(order, src.id)]) + (IF Branching(g, src) THEN 1 ELSE 0)

\* tree_shape[depth] += 1, resized if need be; the new slot is the old count.
Widen(shape, d) ==
    [k \in 1..(IF Len(shape) > d THEN Len(shape) ELSE d + 1) |->
        (IF k \in DOMAIN shape THEN shape[k] ELSE 0) + (IF k = d + 1 THEN 1 ELSE 0)]

\* A slot at depth d for a channel of the n-th component.
Wire(cs, n, d, chan) ==
    IF cs[n].mode = "single" THEN cs
    ELSE [cs EXCEPT ![n].shape = Widen(@, d),
                    ![n].slots = Put(@, chan,
                        [depth |-> d, slot |-> At(cs[n].shape, d + 1, 0)])]

\* Mutated form: every edge goes to the first slot of its depth.
SlotOfFirst(c, chan) == [At(c.slots, chan, [depth |-> 0, slot |-> 0]) EXCEPT !.slot = 0]

SlotOf(c, chan) == At(c.slots, chan, [depth |-> 0, slot |-> 0])

\* An edge goes to the end of the dependents of its source.
Attach(cs, from, chan, to, flag, slot, ext) ==
    [cs EXCEPT ![from].deps =
        Put(@, chan, Append(At(@, chan, <<>>),
                            [to |-> to, flag |-> flag, depth |-> slot.depth,
                             slot |-> slot.slot, ext |-> ext]))]

WireSingle(g, order, br, st, n, s) ==
    LET c == g.comps[order[n]]
        in == c.single[s]
        from == Position(order, in.src.id)
        cs == Wire(st.cs, n, Depth(g, order, br, in.src), in.chan)
        ext == IF c.type.mode = "primary" /\ Len(c.single) > 1 THEN s - 1 ELSE NoExt
    IN  IF st.missing THEN st
        ELSE IF in.src = NoSrc THEN [st EXCEPT !.missing = TRUE]
        ELSE [st EXCEPT !.cs = Attach(cs, from, in.src.chan, n, Branching(g, in.src),
                                      SlotOf(cs[n], in.chan), ext)]

\* The destination of the k-th source of the n-th component's shared channel:
\* the counter of the loop over the sources hides the outer n.
MultiTarget(n, k) == k

WireMulti(g, order, br, st, n) ==
    LET m == g.comps[order[n]].multi
        cs == Wire(st.cs, n, Max({Depth(g, order, br, m.srcs[k]) : k \in DOMAIN m.srcs}), m.chan)
        Edge(r, k) == Attach(r, Position(order, m.srcs[k].id), m.srcs[k].chan,
                             MultiTarget(n, k), FALSE, SlotOf(cs[n], m.chan), k - 1)
    IN  IF m = NoMulti \/ st.missing THEN st
        ELSE [st EXCEPT !.cs = FoldLeft(Edge, cs, [k \in DOMAIN m.srcs |-> k])]

\* The inputs of the n-th component, up to each of them.
WireInputs(g, order, br, st, n) ==
    LET after[s \in 0..Len(g.comps[order[n]].single)] ==
            IF s = 0 THEN st ELSE WireSingle(g, order, br, after[s - 1], n, s)
    IN  after

\* Without sources the channels have the slots of their order.
InOrderOfInputs(single) ==
    [ch \in {single[s].chan : s \in DOMAIN single} |->
        [depth |-> 0, slot |-> (CHOOSE s \in DOMAIN single : single[s].chan = ch) - 1]]

WireComponent(g, order, br, st, n) ==
    LET single == g.comps[order[n]].single
        unfed == \A s \in DOMAIN single : single[s].src = NoSrc
    IN  IF unfed /\ st.cs[n].mode = "single" THEN st
        ELSE IF unfed
        THEN [st EXCEPT !.cs[n] = [@ EXCEPT !.shape = <<Len(single)>>,
                                            !.slots = InOrderOfInputs(single)]]
        ELSE WireMulti(g, order, br, WireInputs(g, order, br, st, n)[Len(single)], n)

\* tree_shape becomes cumulative from the leaves up, and a FullTree of one
\* input is turned into a single input.
Cumulative(shape) ==
    [k \in DOMAIN shape |-> FoldLeft(+, 0, SubSeq(shape, k, Len(shape)))]

Finished(c) ==
    IF c.mode = "multi" /\ Cardinality(DOMAIN c.slots) = 1 /\ c.bc = 0
    THEN [c EXCEPT !.mode = "single", !.wrap = TRUE, !.chan = CHOOSE ch \in DOMAIN c.slots : TRUE]
    ELSE [c EXCEPT !.shape = Cumulative(@)]

-----------------------------------------------------------------------------
(* compile(), stage by stage.                                              *)

\* The component table before the wiring, with the depths of the trees.
Unwired(c, depth) ==
    [type  |-> c.type,
     mode  |-> InitialMode(c),
     chan  |-> IF InitialMode(c) = "multi" \/ c.type.mode = "primary" THEN ""
               ELSE IF c.multi # NoMulti THEN c.multi.chan ELSE c.single[1].chan,
     wrap  |-> c.type.mode \in {"mintree", "fulltree"},
     bc    |-> depth,
     shape |-> <<>>,
     slots |-> [ch \in {} |-> 0],
     deps  |-> [ch \in {} |-> <<>>]]

\* The components, up to each of them.
WiredUpTo(g, order, st) ==
    LET after[n \in 0..Len(order)] ==
            IF n = 0
            THEN [cs |-> [m \in DOMAIN order |-> Unwired(g.comps[order[m]], st.to[m])],
                  missing |-> FALSE]
            ELSE WireComponent(g, order, st.branch, after[n - 1], n)
    IN  after

Wired(g, order, st) == WiredUpTo(g, order, st)[Len(order)]

Assembled(g, order, wired) ==
    IF wired.missing THEN Failed("MissingInput")
    ELSE [error   |-> "none",
          mapping |-> [i \in DOMAIN g.comps |-> Position(order, i)],
          comps   |-> [n \in DOMAIN order |-> Finished(wired.cs[n])]]

Branched(g, order, st) ==
    IF st.lost THEN Failed("panic")
    ELSE IF st.mixed THEN Failed("BranchMismatch")
    ELSE Assembled(g, order, Wired(g, order, st))

Sorted(g, order) ==
    IF Live(g) # ToSet(order) THEN Failed("ContainsCycle")
    ELSE Branched(g, order, Branches(g, order))

Compile(g) == Sorted(g, Rounds(g))
=============================================================================
