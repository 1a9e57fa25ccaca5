--------------------------- MODULE MCPipelineGraph ---------------------------
(* Small sets of components for PipelineGraph and small configuration files   *)
(* for StartUp, a part at a time: the graph that is built from a file is not  *)
(* the one that is built by hand, nor the one that is edited afterwards.      *)
EXTENDS PipelineGraph, StartUp

CONSTANT Parts  \* the parts to check: "graph", "edit", "start"

VARIABLES
    scope,
    edited, ids, joined   \* graph, held and edges of the graph that is edited

editVars == <<edited, ids, joined>>

---------------------------------------------------------------------------
(* Graphs that are built. *)

One(ch) == [chan |-> ch, multi |-> FALSE]
Many(ch) == [chan |-> ch, multi |-> TRUE]
Type(mode, ins, extra, outs) == [mode |-> mode, ins |-> ins, extra |-> extra, outs |-> outs]

\* Types of the repository's components: clone, unpack (and apriltag, blobs),
\* draw, collect-vec, ntable.
Echo     == Type("primary", <<>>, {}, <<One("")>>)
Splitter == Type("primary", <<>>, {}, <<One(""), Many("elem")>>)
Pair     == Type("named", <<"ref", "elem">>, {}, <<One("")>>)
Collect  == Type("mintree", <<"ref", "elem">>, {}, <<One("")>>)
Table    == Type("fulltree", <<>>, {"ref", "elem"}, <<>>)

Of(types) ==
    FoldLeft(LAMBDA g, n : AddComponent(g, types[n], n, TRUE),
             EmptyGraph, [n \in DOMAIN types |-> n])

NoTypes == {}
OnlyEcho == {Echo}
BuildStart == Of(<<Splitter, Splitter, Pair, Collect>>)
TableStart == Of(<<Splitter, Table>>)
SplitStart == Of(<<Splitter, Echo>>)
EchoStart == Of(<<Echo, Echo>>)
PairsStart == Of(<<Echo, Echo, Pair>>)

---------------------------------------------------------------------------
(* A graph of three components that is edited: they are connected, detached   *)
(* and removed, two at a time may be gone, and clones take their places.      *)

E == INSTANCE PipelineGraph WITH
        Start <- Of(<<Splitter, Echo, Pair>>), Types <- {Echo}, Names <- {1},
        Channels <- {"", "ref", "elem"}, MaxComponents <- 3, MaxEdges <- 3, MaxHoles <- 2,
        Shared <- TRUE, Unknown <- FALSE, Edits <- TRUE,
        graph <- edited, held <- ids, edges <- joined

\* Every edit of a graph whose records agree leaves them in agreement, whichever
\* edits came before: the inputs of each component and the outputs they come from,
\* the table of names, and the slot that the next component goes to (detach_impl,
\* remove_component, add_named_component).
EditsKeepTables == [][E!EditKept]_editVars

---------------------------------------------------------------------------
(* Configuration files. *)

Listed(type) == [is |-> "plain", type |-> type]

From(n, ch) == [part |-> n, chan |-> ch]
Out(n) == [part |-> n, chan |-> NoChan]
File(parts, inputs) ==
    [parts |-> parts, inputs |-> inputs,
     outputs |-> [cam |-> <<Out("a"), Out("b"), Out("none"), [part |-> "a", chan |-> "elem"]>>,
                  aux |-> <<[part |-> "c", chan |-> "ref"]>>]]

\* The ways to wire three components, the wrong ones too.
Origins == {From("a", ""), From("b", ""), From("a", "elem"), From("lost", "")}
Wirings ==
    {[b |-> [x \in {""} |-> <<s>>], c |-> ("ref" :> r @@ "elem" :> e)] :
        s \in {From("a", ""), From("a", "elem"), From("b", ""), From("c", "")},
        r \in {<<x>> : x \in Origins} \cup {<<From("a", ""), From("b", "")>>},
        e \in {<<x>> : x \in Origins} \cup {<<From("a", "elem"), From("b", "")>>}}
    \cup {[b |-> (ch :> <<From("a", "")>>)] : ch \in {"", "ref"}}
    \cup {[a |-> [x \in {} |-> <<>>]]}

PlainFiles == {File([a |-> Listed(Splitter), b |-> Listed(Echo), c |-> Listed(last)], w) :
                    last \in {Pair, Collect, Table}, w \in Wirings}

\* A clone of b between a and c, and a group around b.
MadeFiles ==
    {File([a |-> Listed(Splitter), b |-> Listed(Echo), c |-> Listed(Pair), d |-> made],
          [d |-> [x \in {""} |-> <<From("a", "elem")>>],
           c |-> ("ref" :> <<From("a", "")>> @@ "elem" :> <<From("d", "")>>)]) :
        made \in {[is |-> "clone", of |-> "b"], [is |-> "clone", of |-> "gone"],
                  [is |-> "group", in |-> "b", outs |-> [x \in {""} |-> From("b", "")]]}}

SmallFiles == PlainFiles \cup MadeFiles

NoFiles == {}

---------------------------------------------------------------------------
(* The parts at rest. *)

GraphRests == graph = EmptyGraph /\ held = {} /\ edges = 0

EditRests == edited = EmptyGraph /\ ids = {} /\ joined = 0

StartRests ==
    /\ config = [parts |-> <<>>, inputs |-> <<>>, outputs |-> <<>>]
    /\ phase = "reading" /\ built = EmptyGraph /\ answers = <<>> /\ names = <<>>
    /\ connected = 0 /\ remaining = Nothing /\ runner = Failed("not compiled") /\ targets = Nothing

PartInit ==
    /\ scope \in Parts
    /\ IF scope = "graph" THEN Init ELSE GraphRests
    /\ IF scope = "edit" THEN E!Init ELSE EditRests
    /\ IF scope = "start" THEN StartInit ELSE StartRests

\* A graph whose records have come to disagree is not edited further.
PartNext ==
    /\ UNCHANGED scope
    /\ \/ scope = "graph" /\ Next /\ UNCHANGED <<startVars, editVars>>
       \/ scope = "edit" /\ E!TablesKept /\ E!Next /\ UNCHANGED <<vars, startVars>>
       \/ scope = "start" /\ StartNext /\ UNCHANGED <<vars, editVars>>

PartSpec == PartInit /\ [][PartNext]_<<vars, editVars, startVars, scope>>
=============================================================================
