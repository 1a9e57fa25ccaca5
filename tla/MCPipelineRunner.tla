-------------------------- MODULE MCPipelineRunner --------------------------
(* Small graphs for PipelineRunner. *)
EXTENDS PipelineRunner

One(ch) == [chan |-> ch, multi |-> FALSE]
Many(ch) == [chan |-> ch, multi |-> TRUE]
Type(mode, ins, outs) == [mode |-> mode, ins |-> ins, extra |-> {}, outs |-> outs]

\* The component types of the runner's tests and of components/collect.rs.
BroadcastVec == Type("primary", <<>>, <<One(""), Many("elem")>>)
CollectVec   == Type("mintree", <<"ref", "elem">>, <<One("")>>)
Echo         == Type("primary", <<>>, <<One("")>>)
Pair         == Type("named", <<"canvas", "elem">>, <<One("")>>)

\* Graphs are written as a list of types and a list of edges.
Edge(s, sc, d, dc) == <<s, sc, d, dc>>
Build(types, edges) ==
    FoldLeft(LAMBDA g, e : Connect(g, e[1], e[2], e[3], e[4]),
             FoldLeft(LAMBDA g, n : AddComponent(g, types[n], n, TRUE),
                      EmptyGraph, [n \in DOMAIN types |-> n]),
             edges)

\* Elements that are collected (1 to 4), or paired with the whole: two (5 to 8) or
\* one of them (9 to 12).
RunGraph == Build(<<BroadcastVec, Echo, CollectVec, Echo, BroadcastVec, Echo, Pair, Echo,
                    BroadcastVec, Echo, Pair, Echo>>,
                  <<Edge(1, "", 3, "ref"), Edge(1, "elem", 2, ""),
                    Edge(2, "", 3, "elem"), Edge(3, "", 4, ""),
                    Edge(5, "", 7, "canvas"), Edge(5, "elem", 6, ""),
                    Edge(6, "", 7, "elem"), Edge(7, "", 8, ""),
                    Edge(9, "", 11, "canvas"), Edge(9, "elem", 10, ""),
                    Edge(10, "", 11, "elem"), Edge(11, "", 12, "")>>)
RunTable == Compile(RunGraph)
RunScript == <<<<"", "elem", "elem">>, <<"">>, <<"">>, <<>>,
               <<"", "elem", "elem">>, <<"">>, <<"">>, <<>>,
               <<"", "elem">>, <<"">>, <<"">>, <<>>>>
RunStarts == {[r \in {0, 1} |-> 1], [r \in {0} |-> 5], [r \in {0, 1} |-> 9]}
PairStarts == {[r \in {0} |-> 9]}
OneRun == {[r \in {0} |-> 1]}
TwoRuns == {[r \in {0, 1} |-> 1]}

\* The whole reaches the collector through a component of its own.
RelayGraph == Build(<<BroadcastVec, Echo, CollectVec, Echo>>,
                    <<Edge(1, "", 4, ""), Edge(1, "elem", 2, ""),
                      Edge(2, "", 3, "elem"), Edge(4, "", 3, "ref")>>)
RelayTable == Compile(RelayGraph)
RelayScript == <<<<"", "elem", "elem">>, <<"">>, <<"">>, <<"">>>>

\* Both inputs of Pair come from components that do not branch.
SameDepthGraph == Build(<<Echo, Echo, Echo, Pair>>,
                        <<Edge(1, "", 2, ""), Edge(1, "", 3, ""),
                          Edge(2, "", 4, "canvas"), Edge(3, "", 4, "elem")>>)
SameDepthTable == Compile(SameDepthGraph)
SameDepthScript == <<<<"">>, <<"">>, <<"">>, <<>>>>

\* Vectors of vectors, collected at the inner level and then at the outer.
NestGraph == Build(<<BroadcastVec, BroadcastVec, CollectVec, CollectVec>>,
                   <<Edge(1, "", 4, "ref"), Edge(1, "elem", 2, ""),
                     Edge(2, "", 3, "ref"), Edge(2, "elem", 3, "elem"),
                     Edge(3, "", 4, "elem")>>)
NestTable == Compile(NestGraph)
NestScript == <<<<"", "elem", "elem">>, <<"", "elem", "elem">>, <<"">>, <<>>>>
=============================================================================
