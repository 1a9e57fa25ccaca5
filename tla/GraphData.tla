----------------------------- MODULE GraphData -----------------------------
(***************************************************************************)
(* The data of a PipelineGraph and the operations that change it.          *)
(*                                                                         *)
(* Component ids count from 1 here and from 0 in the code.  A component    *)
(* type (what a Component answers about its channels) is a record          *)
(*   mode   "primary", "named", "mintree" or "fulltree"                    *)
(*   ins    the channels of Inputs, in order                               *)
(*   extra  the channels for which can_take answers true                   *)
(*   outs   <<[chan, multi]>>: the output channels, as the BTreeMap sorts  *)
(*          them, multi telling OutputKind::Multiple from Single           *)
(***************************************************************************)
EXTENDS Integers, Sequences, FiniteSets, SequencesExt

\* A ComponentChannel: an id with its flag bit, and a channel of it.
Src(i, f, c) == [id |-> i, flag |-> f, chan |-> c]
NoSrc == Src(0, FALSE, "")          \* ComponentChannel::PLACEHOLDER

\* The `multi' of an input: the one channel that has several sources.
NoMulti == [chan |-> "", optional |-> FALSE, srcs |-> <<>>]

Input(c, s) == [chan |-> c, src |-> s]

NoType == [mode |-> "blank", ins |-> <<>>, extra |-> {}, outs |-> <<>>]

IsBlank(c) == c.type = NoType

\* component_output: every component has the channel "$finish".
OutChans(c) == {c.type.outs[n].chan : n \in DOMAIN c.type.outs} \cup {"$finish"}
\* The channels in the order of the BTreeMap: "" sorts before "$finish".
ChanOrder(c) ==
    LET all == [n \in DOMAIN c.type.outs |-> c.type.outs[n].chan]
    IN  IF \E n \in DOMAIN all : all[n] = ""
        THEN <<"", "$finish">> \o RemoveAt(all, CHOOSE n \in DOMAIN all : all[n] = "")
        ELSE <<"$finish">> \o all
IsMulti(c, ch) == \E n \in DOMAIN c.type.outs : c.type.outs[n] = [chan |-> ch, multi |-> TRUE]

\* One open input for each channel.
OpenInputs(chans) == [n \in DOMAIN chans |-> Input(chans[n], NoSrc)]

NewComponent(type, name, named) ==
    [type   |-> type,
     name   |-> name,
     named  |-> named,
     single |-> OpenInputs(type.ins),
     multi  |-> NoMulti,
     outs   |-> [ch \in {} |-> <<>>],
     count  |-> [i \in {} |-> 0]]

EmptyGraph == [comps |-> <<>>, free |-> 1, lookup |-> [n \in {} |-> 0]]

Live(g) == {i \in DOMAIN g.comps : ~IsBlank(g.comps[i])}

\* The channels that a component listens to.
FedBy(c) == ({c.single[n].src : n \in DOMAIN c.single} \ {NoSrc}) \cup ToSet(c.multi.srcs)

\* f with k mapped to v, and f without the keys of S.
Put(f, k, v) == [x \in DOMAIN f \cup {k} |-> IF x = k THEN v ELSE f[x]]
Without(f, S) == [x \in DOMAIN f \ S |-> f[x]]
At(f, k, default) == IF k \in DOMAIN f THEN f[k] ELSE default

\* Vec::swap_remove.
SwapRemove(s, n) ==
    SubSeq([s EXCEPT ![n] = s[Len(s)]], 1, Len(s) - 1)

-----------------------------------------------------------------------------
(* add_named_component, add_hidden_component                               *)

Least(S) == CHOOSE i \in S : \A j \in S : i <= j

\* The search for the next free slot starts after the slot just filled, and
\* its result is counted from there less one: see IdsStayValid in PipelineGraph.
NextFree(comps, at) ==
    LET later == {i \in (at + 1)..Len(comps) : IsBlank(comps[i])}
    IN  IF later = {} THEN Len(comps) + 1 ELSE Least(later) - 1

AddComponent(g, type, name, named) ==
    LET new   == NewComponent(type, name, named)
        comps == IF g.free = Len(g.comps) + 1
                 THEN Append(g.comps, new)
                 ELSE [g.comps EXCEPT ![g.free] = new]
    IN  [comps  |-> comps,
         free   |-> NextFree(comps, g.free),
         lookup |-> IF named THEN Put(g.lookup, name, g.free) ELSE g.lookup]

-----------------------------------------------------------------------------
(* add_dependency                                                          *)

Slots(c, ch) == {n \in DOMAIN c.single : c.single[n].chan = ch}

ConnectError(g, s, sc, d, dc) ==
    LET dst == g.comps[d] IN
    IF s = d THEN "SelfLoop"
    ELSE IF sc \notin OutChans(g.comps[s]) THEN "NoOutputChannel"
    ELSE IF dst.type.mode = "primary" /\ dc # "" THEN "DoesntTakeInput"
    ELSE IF /\ dst.type.mode # "primary"
            /\ dst.multi # NoMulti
            /\ dst.multi.chan # dc
            /\ Slots(dst, dc) # {}
            /\ dst.single[Least(Slots(dst, dc))].src # NoSrc THEN "OverloadedInputs"
    ELSE "none"

\* The inputs of a component after it is given one more source.  A channel it
\* does not know, and does not take either, is passed over in silence.
TakeInput(c, src, ch) ==
    LET n == Least(Slots(c, ch)) IN
    IF c.type.mode = "primary"
    THEN [c EXCEPT !.single = Append(@, Input("", src))]
    ELSE IF c.multi # NoMulti /\ c.multi.chan = ch
    THEN [c EXCEPT !.multi.srcs = Append(@, src)]
    ELSE IF Slots(c, ch) # {} /\ c.single[n].src = NoSrc
    THEN [c EXCEPT !.single[n].src = src]
    ELSE IF Slots(c, ch) # {}
    THEN LET old == c.single[n].src IN
         [c EXCEPT !.single = SwapRemove(@, n),
                   !.multi  = [chan     |-> ch,
                               optional |-> old.flag,
                               srcs     |-> <<[old EXCEPT !.flag = FALSE], src>>]]
    ELSE IF ch \in c.type.extra
    THEN [c EXCEPT !.single = Append(@, Input(ch, [src EXCEPT !.flag = TRUE]))]
    ELSE c

\* Both ends of an edge that add_dependency accepts.
Connect(g, s, sc, d, dc) ==
    LET src == g.comps[s]
        edge == Src(d, IsMulti(src, sc), dc)
        dst == TakeInput(g.comps[d], Src(s, FALSE, sc), dc)
    IN  [g EXCEPT !.comps[s].outs = Put(@, sc, Append(At(@, sc, <<>>), edge)),
                  !.comps[d] = [dst EXCEPT !.count = Put(@, s, At(@, s, 0) + 1)]]

-----------------------------------------------------------------------------
(* detach_component, remove_component, clear                               *)

\* What a component listened to, and the component without it.
Sources(c) ==
    SelectSeq([n \in DOMAIN c.single |-> c.single[n].src], LAMBDA s : s # NoSrc)
        \o c.multi.srcs

DropInputs(c) ==
    LET kept == SelectSeq(c.single, LAMBDA i : ~i.src.flag)
        open == OpenInputs([n \in DOMAIN kept |-> kept[n].chan])
    IN  IF c.type.mode = "primary"
        THEN [c EXCEPT !.single = <<>>]
        ELSE [c EXCEPT !.single = IF c.multi = NoMulti \/ c.multi.optional THEN open
                                  ELSE Append(open, Input(c.multi.chan, NoSrc)),
                       !.multi = NoMulti]

\* Mutated form: the whole channel is forgotten.
ForgetChannel(c, src, id) == [c EXCEPT !.outs = Without(@, {src.chan})]

\* retain(|c| c.0 != id) compares ids with their flags, so an edge from a
\* channel of OutputKind::Multiple, whose id is flagged, stays.
ForgetEdge(c, src, id) ==
    IF src.chan \notin DOMAIN c.outs THEN c
    ELSE LET left == SelectSeq(c.outs[src.chan], LAMBDA e : e.flag \/ e.id # id)
         IN  [c EXCEPT !.outs = IF left = <<>> THEN Without(@, {src.chan})
                                ELSE Put(@, src.chan, left)]

\* The source `id' of the edge e is taken from the inputs of c; `n' sources go.
ForgetSource(c, e, id) ==
    LET Keep(s) == s.flag \/ s.id # id
        gone == {n \in DOMAIN c.single : ~Keep(c.single[n].src)}
        left == SelectSeq(c.multi.srcs, Keep)
    IN  IF c.type.mode = "primary"
        THEN [n |-> Cardinality(gone),
              c |-> [c EXCEPT !.single = SelectSeq(@, LAMBDA i : Keep(i.src))]]
        ELSE IF c.multi = NoMulti
        THEN [n |-> IF gone = {} THEN 0 ELSE 1,
              c |-> IF gone = {} THEN c
                    ELSE [c EXCEPT !.single[Least(gone)].src = NoSrc]]
        ELSE IF c.multi.chan # e.chan
        THEN [n |-> 0, c |-> c]
        ELSE [n |-> Len(c.multi.srcs) - Len(left),
              c |-> IF Len(left) > 1 THEN [c EXCEPT !.multi.srcs = left]
                    ELSE [c EXCEPT
                            !.multi  = NoMulti,
                            !.single =
                                IF left # <<>>
                                THEN Append(@, Input(c.multi.chan,
                                         [left[1] EXCEPT !.flag = c.multi.optional]))
                                ELSE IF c.multi.optional THEN @
                                ELSE Append(@, Input(c.multi.chan, NoSrc))]]

ForgetTarget(c, e, id) ==
    LET r == ForgetSource(c, e, id)
        old == At(c.count, id, 0)
    IN  [r.c EXCEPT !.count = IF old = 0 THEN @
                              ELSE IF old = r.n THEN Without(@, {id})
                              ELSE Put(@, id, old - r.n)]

\* detach_impl.  The component's own input_count is left as it is.
Detach(g, id) ==
    LET c == g.comps[id]
        edges == FlattenSeq([n \in DOMAIN ChanOrder(c) |->
                                At(c.outs, ChanOrder(c)[n], <<>>)])
        bare == [g.comps EXCEPT ![id] = [DropInputs(c) EXCEPT !.outs = [ch \in {} |-> <<>>]]]
        upstream == FoldLeft(LAMBDA cs, s : [cs EXCEPT ![s.id] = ForgetEdge(@, s, id)],
                             bare, Sources(c))
    IN  [g EXCEPT !.comps =
            FoldLeft(LAMBDA cs, e : [cs EXCEPT ![e.id] = ForgetTarget(@, e, id)],
                     upstream, edges)]

RemoveComponent(g, id) ==
    LET h == Detach(g, id) IN
    [comps  |-> [h.comps EXCEPT ![id].type = NoType, ![id].name = ""],
     free   |-> IF id < h.free THEN id ELSE h.free,
     lookup |-> IF h.comps[id].named THEN Without(h.lookup, {h.comps[id].name})
                ELSE h.lookup]
=============================================================================
