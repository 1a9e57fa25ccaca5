------------------------------ MODULE Dataflow ------------------------------
(***************************************************************************)
(* Which component runs a pipeline should lead to, and with which inputs,  *)
(* as a function of the graph and of what its components submit.  Nothing  *)
(* here knows of trees, counters, threads or the order of arrival: it is   *)
(* the reference that PipelineRunner is compared with.                     *)
(*                                                                         *)
(* Values that descend from the same elements of the same branching        *)
(* outputs belong together: their run ids extend one another.              *)
(***************************************************************************)
EXTENDS GraphCompile

CONSTANTS
    Graph,      \* the PipelineGraph that was compiled
    Compiled,   \* what compile() made of it: the table of the PipelineRunner
    Script,     \* Script[i]: the channels component i submits to, in order
    Starts      \* the runs that may be under way together: functions from base run ids
                \* to the component of the graph that the run starts with

ASSUME CompiledAssumption ==
    /\ Compiled = Compile(Graph) /\ Compiled.error = "none"
    /\ \A s \in Starts : Range(s) \subseteq DOMAIN Graph.comps

\* The components of the graph, those of the table, and which is which.
Added == Graph.comps
Comps == Compiled.comps
Mapping == Compiled.mapping
Origin == AntiFunction(Mapping)

\* A value is known by who sent it; NoVal is PLACEHOLDER_DATA.
Val(n, ch, rid) == [from |-> n, chan |-> ch, rid |-> rid]
NoVal == Val(0, "", <<>>)
Argument(r) == Val(0, "", <<r>>)

Call(rid, ins) == [rid |-> rid, ins |-> ins]
In(ch, v) == [chan |-> ch, val |-> v]

-----------------------------------------------------------------------------
\* How often the first k-1 submissions of component i went to channel ch.
Earlier(i, k, ch) == Cardinality({j \in 1..(k - 1) : Script[i][j] = ch})

\* The run id of the k-th submission of component i under rid: a branching
\* channel numbers its values.
SentUnder(i, k, rid) ==
    LET ch == Script[i][k]
    IN  IF IsMulti(Added[i], ch) THEN Append(rid, Earlier(i, k, ch)) ELSE rid

\* What component i sends on channel ch over all its calls.
Sent(i, ch, calls) ==
    LET n == Mapping[i]
    IN  {Val(n, ch, SentUnder(i, k, c.rid)) :
            <<k, c>> \in {j \in DOMAIN Script[i] : Script[i][j] = ch} \X calls}
        \cup {Val(n, ch, c.rid) : c \in {x \in calls : ch = "$finish"}}

\* The sources of channel ch of component i, in the order they were added.
Feeds(i, ch) ==
    LET c == Added[i]
        own == SelectSeq(c.single, LAMBDA in : in.chan = ch /\ in.src # NoSrc)
    IN  [n \in DOMAIN own |-> own[n].src] \o (IF c.multi.chan = ch THEN c.multi.srcs ELSE <<>>)

InChans(i) ==
    LET c == Added[i]
    IN  {c.single[n].chan : n \in DOMAIN c.single}
            \cup (IF c.multi = NoMulti THEN {} ELSE {c.multi.chan})

Related(a, b) == IsPrefix(a, b) \/ IsPrefix(b, a)

\* The calls of component i, given what arrives on each of its channels.
CallsOf(i, arrived) ==
    LET c == Added[i]
        all == UNION {{In(ch, v) : v \in arrived[ch]} : ch \in InChans(i)}
        Longest(f) == CHOOSE r \in {f[ch].rid : ch \in DOMAIN f} :
                          \A ch \in DOMAIN f : Len(f[ch].rid) <= Len(r)
        lens == {Len(x.val.rid) : x \in all}
        level == IF c.type.mode = "fulltree" THEN 1
                 ELSE CHOOSE x \in lens : \A y \in lens : x <= y
        sources == Feeds(i, "")
        From(v) == CHOOSE k \in DOMAIN sources :
                       /\ Mapping[sources[k].id] = v.from
                       /\ sources[k].chan = v.chan
    IN  CASE c.type.mode = "primary" ->
                {Call(IF Len(sources) = 1 THEN x.val.rid ELSE Append(x.val.rid, From(x.val) - 1),
                      {x}) : x \in all}
          [] c.type.mode = "named" ->
                {Call(Longest(f), {In(ch, f[ch]) : ch \in InChans(i)}) :
                    f \in {g \in [InChans(i) -> {x.val : x \in all}] :
                              /\ \A ch \in InChans(i) : g[ch] \in arrived[ch]
                              /\ \A a, b \in InChans(i) : Related(g[a].rid, g[b].rid)}}
          [] OTHER ->
                {Call(p, {x \in all : IsPrefix(p, x.val.rid)}) :
                    p \in {SubSeq(x.val.rid, 1, level) : x \in all}}

\* The calls of every component that runs s lead to, in compiled order, so that
\* sources come first.
ExpectedOf(s) ==
    LET Calls(exp, n) ==
            LET i == Origin[n]
                Arrived(ch) == UNION {Sent(f.id, f.chan, exp[Mapping[f.id]]) :
                                         f \in ToSet(Feeds(i, ch))}
            IN  {Call(<<r>>, {In(Comps[n].chan, Argument(r))}) : r \in {q \in DOMAIN s : s[q] = i}}
                \cup (IF \A ch \in InChans(i) : Feeds(i, ch) = <<>> THEN {}
                      ELSE CallsOf(i, [ch \in InChans(i) |-> Arrived(ch)]))
    IN  FoldLeft(LAMBDA exp, n : Append(exp, Calls(exp, n)), <<>>, [n \in DOMAIN Comps |-> n])

Expected == [s \in Starts |-> ExpectedOf(s)]
=============================================================================
