---------------------------- MODULE PipelineGraph ----------------------------
(***************************************************************************)
(* A PipelineGraph under construction, as a program that builds pipelines  *)
(* (or a configuration that is being loaded) drives it: components are     *)
(* added, connected, detached and removed, in any order, by their ids.     *)
(* At every point the graph may be compiled; Result is what compile()      *)
(* would make of it.                                                       *)
(***************************************************************************)
EXTENDS GraphCompile

CONSTANTS
    Start,          \* the graph that construction starts from
    Types,          \* the component types that may be added
    Names,          \* the names they may be given
    Channels,       \* the channels that connections are asked for
    MaxComponents,  \* bound on the length of the component vector
    MaxEdges,       \* bound on the connections made
    MaxHoles,       \* bound on the removed components whose slots are open
    Shared,         \* may an input be given a second source?
    Unknown,        \* may a channel be asked for that the component does not take?
    Edits           \* may components be detached and removed?

ASSUME BoundsAssumption ==
    /\ {MaxComponents, MaxEdges, MaxHoles} \subseteq Nat
    /\ {Shared, Unknown, Edits} \subseteq BOOLEAN

ASSUME TypesAssumption ==
    \A type \in Types : /\ type # NoType
                         /\ type.ins \in Seq(ToSet(type.ins)) /\ type.outs \in Seq(ToSet(type.outs))

VARIABLES
    graph,      \* the PipelineGraph
    held,       \* ids the caller got and has not removed the component of
    edges       \* connections that add_dependency has accepted so far

vars == <<graph, held, edges>>

Init == graph = Start /\ held = Live(Start) /\ edges = 0

-----------------------------------------------------------------------------
Holes == {i \in DOMAIN graph.comps : IsBlank(graph.comps[i])}

\* add_named_component fails for a name that is taken.
Add(type, name, named) ==
    /\ named => name \notin DOMAIN graph.lookup
    /\ Len(graph.comps) < MaxComponents \/ Holes # {}
    /\ graph' = AddComponent(graph, type, name, named)
    /\ held' = held \cup {graph.free}
    /\ UNCHANGED edges

\* The input already has a source.
Taken(d, dc) ==
    LET c == graph.comps[d]
    IN  IF c.type.mode = "primary" THEN c.single # <<>>
        ELSE \/ c.multi # NoMulti /\ c.multi.chan = dc
             \/ \E n \in Slots(c, dc) : c.single[n].src # NoSrc

\* The component has such an input, or can be given one.
Takes(d, dc) ==
    LET c == graph.comps[d]
    IN  \/ c.type.mode = "primary"
        \/ c.multi # NoMulti /\ c.multi.chan = dc
        \/ Slots(c, dc) # {} \/ dc \in c.type.extra

AddDependency(s, sc, d, dc) ==
    /\ edges < MaxEdges
    /\ Shared \/ ~Taken(d, dc)
    /\ Unknown \/ Takes(d, dc)
    /\ ConnectError(graph, s, sc, d, dc) = "none"
    /\ graph' = Connect(graph, s, sc, d, dc)
    /\ edges' = edges + 1
    /\ UNCHANGED held

DetachComponent(id) ==
    /\ Edits
    /\ graph' = Detach(graph, id)
    /\ UNCHANGED <<held, edges>>

DeleteComponent(id) ==
    /\ Edits
    /\ Cardinality(Holes) < MaxHoles
    /\ graph' = RemoveComponent(graph, id)
    /\ held' = held \ {id}
    /\ UNCHANGED edges

\* clear(): every id the caller has is void.
Clear ==
    /\ Edits
    /\ graph' = EmptyGraph
    /\ held' = {}
    /\ UNCHANGED edges

Next ==
    \/ Clear
    \/ \E type \in Types, name \in Names, named \in BOOLEAN : Add(type, name, named)
    \/ \E s, d \in held, sc, dc \in Channels : AddDependency(s, sc, d, dc)
    \/ \E id \in held : DetachComponent(id) \/ DeleteComponent(id)

Spec == Init /\ [][Next]_vars

-----------------------------------------------------------------------------
(* Properties of the graph.                                                *)

\* How often a component records (s, sc) as a source of its channel dc.
TimesHeard(c, s, sc, dc) ==
    Cardinality({n \in DOMAIN c.single : /\ c.single[n].chan = dc
                                         /\ c.single[n].src.id = s /\ c.single[n].src.chan = sc})
    + IF c.multi = NoMulti \/ c.multi.chan # dc THEN 0
      ELSE Cardinality({n \in DOMAIN c.multi.srcs :
                           c.multi.srcs[n].id = s /\ c.multi.srcs[n].chan = sc})

\* How often a component records (d, dc) as a dependent of its channel sc.
TimesTold(c, sc, d, dc) ==
    LET out == At(c.outs, sc, <<>>)
    IN  Cardinality({n \in DOMAIN out : out[n].id = d /\ out[n].chan = dc})

AsSource(s, sc, d, dc) == TimesHeard(graph.comps[d], s, sc, dc)
AsTarget(s, sc, d, dc) == TimesTold(graph.comps[s], sc, d, dc)

\* Both ends of a connection know of it, or neither does, whatever was added,
\* detached and removed in between.  compile() reads the branch points from one
\* end and the wiring from the other.
EdgesMirrored ==
    \A s, d \in DOMAIN graph.comps, sc, dc \in Channels :
        AsSource(s, sc, d, dc) = AsTarget(s, sc, d, dc)

\* The slot for the next component is not one whose id is still held:
\* "This component's ID may be reused, but all other IDs will remain valid"
\* (remove_component).
IdsStayValid ==
    /\ graph.free \notin held
    /\ held = Live(graph)

\* The lookup table names exactly the components that were added by name.
LookupExact ==
    LET Named == {i \in held : graph.comps[i].named}
    IN  /\ \A i \in Named : At(graph.lookup, graph.comps[i].name, 0) = i
        /\ Cardinality(DOMAIN graph.lookup) = Cardinality(Named)

\* The records of a graph that is only added to agree: the inputs of the components
\* with their outputs, the table of names with the components, and the next free
\* slot with the ids that are held.
TablesAgree == EdgesMirrored /\ LookupExact /\ IdsStayValid

\* What is left of TablesAgree once components are detached: an edge from a channel
\* of OutputKind::Multiple outlives the detaching of its target (ForgetEdge), so that
\* there may be more edges than sources; from other channels there are as many.
TablesKept ==
    /\ LookupExact /\ IdsStayValid
    /\ \A d \in DOMAIN graph.comps : \A src \in FedBy(graph.comps[d]) :
          src.chan \in DOMAIN graph.comps[src.id].outs
    /\ \A s, d \in DOMAIN graph.comps, dc \in Channels : \A sc \in DOMAIN graph.comps[s].outs :
          /\ AsSource(s, sc, d, dc) <= AsTarget(s, sc, d, dc)
          /\ ~IsMulti(graph.comps[s], sc) => AsSource(s, sc, d, dc) = AsTarget(s, sc, d, dc)

\* No named input has several sources, and no optional one is in use: detaching one
\* of their sources leaves some of them behind (ForgetSource).
PlainInputs ==
    \A i \in held : LET c == graph.comps[i] IN
        c.multi = NoMulti /\ \A n \in DOMAIN c.single : ~c.single[n].src.flag

\* A component is added while several slots are open: the next one is misjudged
\* (NextFree).
FillsOneOfMany == held \subseteq held' /\ held # held' /\ Cardinality(Holes) > 1

\* One edit, of whatever kind, of a graph whose records agree leaves records that
\* agree: no connection is forgotten at one end only, no name outlives its component,
\* and no slot that is in use is the next to be filled.
EditKept == TablesKept /\ PlainInputs => TablesKept' \/ FillsOneOfMany

-----------------------------------------------------------------------------
(* Properties of what compile() makes of the graph.                        *)

Result == Compile(graph)

\* A set of components each of which waits for another one of the set.
Cyclic ==
    \E K \in (SUBSET held) \ {{}} :
        \A i \in K : \E s \in FedBy(graph.comps[i]) : s.id \in K

\* compile() reports a cycle exactly when there is one: "The graph must be
\* acyclic" is all it asks of the order, so that detaching and removing leaves
\* no phantom edge behind.
CycleIsReal == (Result.error = "ContainsCycle") <=> Cyclic

\* The branch points on the way to each component, in a reference that follows
\* the inputs upstream: a tree component is moved up to its earliest input
\* ("rooted at the earliest branching input") or to the run itself.
Chains ==
    LET Shortest(S) == CHOOSE x \in S : \A y \in S : Len(x) <= Len(y)
        Longest(S) == CHOOSE x \in S : \A y \in S : Len(x) >= Len(y)
        Through(ch, s) ==
            IF IsMulti(graph.comps[s.id], s.chan) THEN Append(ch[s.id], <<s.id, s.chan>>)
            ELSE ch[s.id]
        Inputs(ch, i) == {Through(ch, s) : s \in FedBy(graph.comps[i])}
        Own(ch, i) ==
            CASE Inputs(ch, i) = {} \/ graph.comps[i].type.mode = "fulltree" -> <<>>
              [] graph.comps[i].type.mode = "mintree" -> Shortest(Inputs(ch, i))
              [] OTHER -> Longest(Inputs(ch, i))
        own == FoldLeft(LAMBDA ch, i : Put(ch, i, Own(ch, i)),
                        [i \in {} |-> <<>>], Rounds(graph))
    IN  [own |-> own, inputs |-> [i \in DOMAIN own |-> Inputs(own, i)]]

\* A component has some of its inputs and lacks others.
HalfFed ==
    \E i \in held : LET single == graph.comps[i].single IN
        \E m, n \in DOMAIN single : single[m].src = NoSrc /\ single[n].src # NoSrc

\* compile() rejects a graph for its branch points exactly when some component
\* has inputs that come through different branches ("Any component must have a
\* single chain of branch points").
BroadcastUnambiguous ==
    ~Cyclic /\ ~HalfFed =>
        LET chains == Chains
            Ambiguous == \E i \in held : \E a, b \in chains.inputs[i] :
                            ~IsPrefix(a, b) /\ ~IsPrefix(b, a)
        IN  (Result.error = "BranchMismatch") <=> Ambiguous

\* Every component comes after its sources, so that the propagation through the
\* compiled table ends.
SourcesFirst ==
    LET r == Result
    IN  r.error = "none" =>
            \A i \in held : \A s \in FedBy(graph.comps[i]) :
                r.mapping[s.id] < r.mapping[i]

\* compile() orders the components whenever that can be done, and then so that a
\* propagation goes forward only.
OrderIsReal == CycleIsReal /\ SourcesFirst

IsTree(c) == c.mode = "multi"

\* The compiled edges are those of the graph: each source of each input has one
\* edge to the slot that its component looks the input up in, and no two inputs
\* of a component share a slot.
WiredAsConnected ==
    LET r == Result
        Wires(s, sc, d, dc) ==
            LET out == At(r.comps[r.mapping[s]].deps, sc, <<>>)
                to == r.comps[r.mapping[d]]
            IN  Cardinality({n \in DOMAIN out :
                    /\ out[n].to = r.mapping[d]
                    /\ IsTree(to) => [depth |-> out[n].depth, slot |-> out[n].slot]
                                        = At(to.slots, dc, [depth |-> -1, slot |-> -1])})
        Between(s, sc, d) ==
            LET c == graph.comps[d] IN
            Cardinality({n \in DOMAIN c.single : c.single[n].src.id = s /\ c.single[n].src.chan = sc})
            + Cardinality({n \in DOMAIN c.multi.srcs :
                              c.multi.srcs[n].id = s /\ c.multi.srcs[n].chan = sc})
    IN  r.error = "none" =>
            /\ \A s, d \in held, sc, dc \in Channels :
                  Wires(s, sc, d, dc) =
                     IF IsTree(r.comps[r.mapping[d]]) THEN AsSource(s, sc, d, dc)
                     ELSE Between(s, sc, d)
            /\ \A i \in held : LET slots == r.comps[r.mapping[i]].slots IN
                  \A a, b \in DOMAIN slots : slots[a] = slots[b] => a = b

\* The depth at which a value is put into a tree is the number of branch points
\* it has passed, and a tree is handed out at the depth of its earliest input
\* ("rooted at the earliest branching input", Inputs::MinTree), or of the run ("once
\* per pipeline run", Inputs::FullTree).
RootedAtEarliest ==
    LET r == Result
        chains == Chains
        Through(i, ch) ==
            Len(chains.own[i]) + IF IsMulti(graph.comps[i], ch) THEN 1 ELSE 0
    IN  r.error = "none" =>
            \A i \in held : LET c == r.comps[r.mapping[i]] IN
                /\ \A ch \in DOMAIN c.deps : \A n \in DOMAIN c.deps[ch] :
                      LET e == c.deps[ch][n] IN
                      IsTree(r.comps[e.to]) => e.depth = Through(i, ch)
                /\ c.bc # NoBroadcast => c.bc = Len(chains.own[i])

\* No component runs once per pipeline run, and none collects from more than two
\* sources.  compile() counts anew at every edge (Reach): a third edge, and in a
\* component of the run the second one, undo what the first ones have found.
TwoSources ==
    \A i \in held : LET c == graph.comps[i] IN
        /\ c.type.mode # "fulltree"
        /\ c.type.mode = "mintree" => Len(Sources(c)) <= 2

\* Up to there the depths are those of RootedAtEarliest, behind collectors too, and
\* in whichever order the edges are come to.
RootedAtEarlier == TwoSources => RootedAtEarliest
=============================================================================
