------------------------------- MODULE StartUp -------------------------------
(***************************************************************************)
(* The start of the command line program, from the configuration file to   *)
(* the camera threads: the components of the file are put into a graph,    *)
(* wired, compiled, and the outputs of each camera are resolved.           *)
(*                                                                         *)
(* The tables of the file are HashMaps: add_to_graph() walks them in any    *)
(* order, and the same one both times.  A configuration is a record        *)
(*   parts    name -> [is |-> "plain", type |-> type of GraphData]         *)
(*                 or [is |-> "clone", of |-> name]                        *)
(*                 or [is |-> "group", in |-> name,                        *)
(*                     outs |-> channel -> [part, chan]]                   *)
(*   inputs   name -> (channel -> << [part, chan] >>), the InputConfig     *)
(*   outputs  camera -> << [part, chan] >>; its `chan' is NoChan for none  *)
(***************************************************************************)
EXTENDS GraphCompile

CONSTANTS
    Configs,    \* the configurations that the file may hold; no part is made of itself
    NoChan      \* the channel of an output that names none

ASSUME ConfigAssumption ==
    \A c \in Configs : DOMAIN c.inputs \subseteq DOMAIN c.parts

VARIABLES
    config,     \* the file that was read
    phase,      \* "reading", "adding", "wiring", "compiling", "loading", "running" or "exited"
    built,      \* the PipelineGraph
    answers,    \* id -> what inputs() and output_kind() of that component say now
    names,      \* the names, in the order in which the table yielded them
    connected,      \* the components of `names' whose inputs are all connected
    remaining,       \* channel -> the inputs of the next one that are still to connect
    runner,     \* the compiled pipeline
    targets     \* camera -> the components that its frames go to; no entry: not loaded yet

startVars == <<config, phase, built, answers, names, connected, remaining, runner, targets>>

Nothing == [x \in {} |-> 0]

\* Inputs::none() and OutputKind::None: a component that does not know yet what it stands for.
Unresolved == [mode |-> "named", ins |-> <<>>, extra |-> {}, outs |-> <<>>]

StartInit ==
    /\ config \in Configs
    /\ phase = "reading"
    /\ built = EmptyGraph
    /\ answers = <<>>
    /\ names = <<>>
    /\ connected = 0
    /\ remaining = Nothing
    /\ runner = Failed("not compiled")
    /\ targets = Nothing

\* exit(): the codes are left out.
Exit == phase' = "exited" /\ UNCHANGED <<config, names, connected, remaining, runner, targets>>

\* main(), before the graph: the file may be missing or may not parse, and a
\* filter, when there is one, keeps the cameras whose names it matches (none if
\* it is no regular expression).
ReadFile ==
    /\ phase = "reading"
    /\ \/ Exit /\ UNCHANGED <<built, answers>>
       \/ \E kept \in SUBSET DOMAIN config.outputs :
            /\ config' = [config EXCEPT !.outputs = [cam \in kept |-> @[cam]]]
            /\ phase' = "adding"
            /\ UNCHANGED <<built, answers, names, connected, remaining, runner, targets>>

-----------------------------------------------------------------------------
(* Components that are made of others.                                     *)

\* branches_between(): is there a second way to a component, or a channel of
\* several values on the last step to it?  `seen' maps ids to the flag they were
\* first seen with.
RECURSIVE Search(_, _, _, _)
Search(g, to, stack, seen) ==
    IF stack = <<>> THEN FALSE
    ELSE LET top   == Last(stack)
             known == top.id \in DOMAIN seen
             flag  == top.flag \/ known
             outs  == g.comps[top.id].outs
             edges == FlattenSeq([n \in DOMAIN ChanOrder(g.comps[top.id]) |->
                                    At(outs, ChanOrder(g.comps[top.id])[n], <<>>)])
         IN  IF known /\ seen[top.id] THEN Search(g, to, Front(stack), seen)
             ELSE \/ flag /\ top.id = to
                  \/ Search(g, to, Front(stack) \o edges, Put(seen, top.id, flag))

BranchesBetween(g, from, to) == Search(g, to, <<Src(from, FALSE, "")>>, [i \in {} |-> FALSE])

\* The hidden component behind an output of a group.
Listener == [mode |-> "primary", ins |-> <<>>, extra |-> {}, outs |-> <<>>]

\* One output of a group: st.ok turns FALSE when it cannot be resolved.
AddListener(st, name, out, input) ==
    IF ~st.ok \/ out.part \notin DOMAIN st.g.lookup THEN [st EXCEPT !.ok = FALSE]
    ELSE LET at    == st.g.lookup[out.part]
             kinds == {n \in DOMAIN st.ans[at].outs : st.ans[at].outs[n].chan = name}
             multi == BranchesBetween(st.g, input, at) \/ \E n \in kinds : st.ans[at].outs[n].multi
             id    == st.g.free
             g     == AddComponent(st.g, Listener, "", FALSE)
         IN  IF ConnectError(g, at, out.chan, id, "") # "none"
             THEN [st EXCEPT !.ok = FALSE, !.g = g, !.ans = Append(@, Listener)]
             ELSE [ok   |-> TRUE,
                   g    |-> Connect(g, at, out.chan, id, ""),
                   ans  |-> Append(st.ans, Listener),
                   outs |-> IF multi \/ kinds # {} \/ name = "$finish"
                            THEN Append(st.outs, [chan |-> name, multi |-> multi])
                            ELSE st.outs]

\* The inputs are recorded before initialize() is called.
AddPart(g, part, name) ==
    AddComponent(g, IF part.is = "plain" THEN part.type ELSE Unresolved, name, TRUE)

\* initialize() of a clone: what the component of that name, if it is there
\* already, answers; can_take() is not passed on.
Cloned(g, ans, part) ==
    IF part.of \in DOMAIN g.lookup /\ g.lookup[part.of] \in DOMAIN ans
    THEN [ans[g.lookup[part.of]] EXCEPT !.extra = {}]
    ELSE Unresolved

\* initialize() of a group: it answers with the inputs of one component and the
\* outputs that its listeners, put into the graph now, are attached to.
Grouped(g, ans, part) ==
    LET input == g.lookup[part.in]
        made  == FoldLeft(LAMBDA st, ch : AddListener(st, ch, part.outs[ch], input),
                          [ok |-> TRUE, g |-> g, outs |-> <<>>, ans |-> Append(ans, Unresolved)],
                          SetToSeq(DOMAIN part.outs))
        self  == IF made.ok THEN [ans[input] EXCEPT !.extra = {}, !.outs = made.outs]
                 ELSE Unresolved
    IN  [g |-> made.g, ans |-> [made.ans EXCEPT ![Len(ans) + 1] = self]]

\* initialize(): what the component answers from now on, and the graph with the
\* listeners of a group.
Resolve(g, ans, part) ==
    IF part.is = "group" /\ part.in \in DOMAIN g.lookup /\ g.lookup[part.in] \in DOMAIN ans
    THEN Grouped(g, ans, part)
    ELSE [g   |-> g,
          ans |-> Append(ans, CASE part.is = "plain" -> part.type
                                [] part.is = "clone" -> Cloned(g, ans, part)
                                [] OTHER -> Unresolved)]

-----------------------------------------------------------------------------
(* SerializedGraph::add_to_graph                                           *)

\* add_named_component() with the next entry of the table.
AddNext ==
    /\ phase = "adding"
    /\ \E name \in DOMAIN config.parts \ ToSet(names) :
         LET id == built.free
             r  == Resolve(AddPart(built, config.parts[name], name), answers, config.parts[name])
         IN  /\ answers' = r.ans
             \* output_kind() is asked anew for every dependency.
             /\ built' = [r.g EXCEPT !.comps[id].type.outs = r.ans[id].outs]
             /\ names' = Append(names, name)
    /\ UNCHANGED <<config, phase, connected, remaining, runner, targets>>

InputsOf(name) == IF name \in DOMAIN config.inputs THEN config.inputs[name] ELSE Nothing

\* Mutated form: the wiring does not wait for the last component.
StartWiringEarly ==
    /\ phase = "adding" /\ names # <<>>
    /\ phase' = "wiring"
    /\ remaining' = InputsOf(names[1])
    /\ UNCHANGED <<config, built, answers, names, connected, runner, targets>>

\* The components are all there; the same order is walked again.
StartWiring ==
    /\ phase = "adding"
    /\ DOMAIN config.parts = ToSet(names)
    /\ phase' = "wiring"
    /\ remaining' = IF names = <<>> THEN Nothing ELSE InputsOf(names[1])
    /\ UNCHANGED <<config, built, answers, names, connected, runner, targets>>

\* A channel begun is finished before the next one: its sources are a list.
Begun == {ch \in DOMAIN remaining : remaining[ch] # InputsOf(names[connected + 1])[ch]}

\* add_dependency(): an error ends the program.
WireNext ==
    /\ phase = "wiring"
    /\ \E ch \in IF Begun = {} THEN DOMAIN remaining ELSE Begun :
         LET dest == built.lookup[names[connected + 1]]
             src  == Head(remaining[ch])
             from == built.lookup[src.part]
         IN  IF \/ src.part \notin DOMAIN built.lookup
                \/ ConnectError(built, from, src.chan, dest, ch) # "none"
             THEN Exit /\ UNCHANGED <<built, answers>>
             ELSE /\ built' = Connect(built, from, src.chan, dest, ch)
                  /\ remaining' = IF Len(remaining[ch]) = 1 THEN Without(remaining, {ch})
                             ELSE [remaining EXCEPT ![ch] = Tail(@)]
                  /\ UNCHANGED <<config, phase, answers, names, connected, runner, targets>>

\* The next component of the table.
WiredOne ==
    /\ phase = "wiring" /\ remaining = Nothing /\ connected < Len(names)
    /\ connected' = connected + 1
    /\ remaining' = IF connected' = Len(names) THEN Nothing ELSE InputsOf(names[connected' + 1])
    /\ phase' = IF connected' = Len(names) THEN "compiling" ELSE phase
    /\ UNCHANGED <<config, built, answers, names, runner, targets>>

-----------------------------------------------------------------------------
(* main(): compile(), then the cameras.                                    *)

CompileGraph ==
    /\ phase = "compiling"
    /\ IF Compile(built).error # "none" THEN Exit /\ UNCHANGED <<built, answers>>
       ELSE /\ phase' = "loading"
            /\ runner' = Compile(built)
            /\ UNCHANGED <<config, built, answers, names, connected, remaining, targets>>

\* Inputs::can_take and Inputs::expecting, asked of the component.
CanTake(ans, chan) ==
    IF ans.mode = "primary" THEN chan = NoChan
    ELSE chan # NoChan /\ chan \in ToSet(ans.ins) \cup ans.extra
Expecting(ans) == IF ans.mode = "primary" THEN 1 ELSE Len(ans.ins)

\* An output whose component cannot take it is reported and left out.
IsTarget(out) ==
    /\ out.part \in DOMAIN built.lookup
    /\ Expecting(answers[built.lookup[out.part]]) <= 1
    /\ CanTake(answers[built.lookup[out.part]], out.chan)

\* build_camera() may fail; the camera is then left out.
LoadCamera(cam) ==
    /\ phase = "loading" /\ cam \notin DOMAIN targets
    /\ \E loads \in BOOLEAN :
         LET kept == IF loads THEN SelectSeq(config.outputs[cam], IsTarget) ELSE <<>>
         IN  targets' = Put(targets, cam,
                            [n \in DOMAIN kept |-> runner.mapping[built.lookup[kept[n].part]]])
    /\ UNCHANGED <<config, phase, built, answers, names, connected, remaining, runner>>

Run ==
    /\ phase = "loading" /\ DOMAIN targets = DOMAIN config.outputs
    /\ phase' = "running"
    /\ UNCHANGED <<config, built, answers, names, connected, remaining, runner, targets>>

StartNext ==
    \/ ReadFile \/ AddNext \/ StartWiring \/ WireNext \/ WiredOne
    \/ CompileGraph \/ Run
    \/ \E cam \in DOMAIN config.outputs : LoadCamera(cam)

StartSpec == StartInit /\ [][StartNext]_startVars

-----------------------------------------------------------------------------
(* What the file means, whatever the order of its tables.                  *)

\* Every input that is written down.
Written == UNION {{[to |-> n, chan |-> ch, from |-> config.inputs[n][ch][k]] :
                        k \in DOMAIN config.inputs[n][ch]} :
                    <<n, ch>> \in {p \in (DOMAIN config.inputs) \X {"", "ref", "elem"} :
                                        p[2] \in DOMAIN config.inputs[p[1]]}}

Plain == \A n \in DOMAIN config.parts : config.parts[n].is = "plain"
TypeOf(n) == config.parts[n].type

\* What add_dependency() refuses, said of the whole file.
Refused ==
    \/ \E w \in Written :
         \/ w.from.part \notin DOMAIN config.parts
         \/ w.from.part = w.to
         \/ w.from.chan \notin {TypeOf(w.from.part).outs[k].chan :
                                    k \in DOMAIN TypeOf(w.from.part).outs} \cup {"$finish"}
         \/ TypeOf(w.to).mode = "primary" /\ w.chan # ""
    \/ \E n \in DOMAIN config.inputs :
         /\ TypeOf(n).mode # "primary"
         /\ Cardinality({ch \in DOMAIN config.inputs[n] :
                            /\ Len(config.inputs[n][ch]) > 1
                            /\ ch \in ToSet(TypeOf(n).ins) \cup TypeOf(n).extra}) > 1

\* What a component of the graph listens to, by name.
Heard(n) ==
    LET c == built.comps[built.lookup[n]]
        By(ch, s) == [to |-> n, chan |-> ch, from |-> [part |-> built.comps[s.id].name, chan |-> s.chan]]
    IN  {By(c.single[k].chan, c.single[k].src) :
            k \in {j \in DOMAIN c.single : c.single[j].src # NoSrc}}
        \cup {By(c.multi.chan, c.multi.srcs[k]) : k \in DOMAIN c.multi.srcs}

\* The graph that is compiled is the one in the file: the order in which the
\* table yields the components decides neither whether the file is refused nor
\* who listens to what, and a component may be named before it is added.
BuiltAsWritten ==
    Plain => /\ phase \in {"compiling", "loading", "running"} =>
                    /\ ~Refused
                    /\ \A n \in DOMAIN config.parts :
                         Heard(n) = {w \in Written : w.to = n /\
                            (TypeOf(n).mode = "primary" \/
                             w.chan \in ToSet(TypeOf(n).ins) \cup TypeOf(n).extra)}
             /\ phase = "exited" /\ names # <<>> /\ connected < Len(names) => Refused

\* A clone listens to what it is given as the component it clones would:
\* docs/src/components/clone.md, "Same as the cloned component".
ClonesListen ==
    phase \in {"compiling", "loading", "running"} =>
        \A n \in DOMAIN config.parts : config.parts[n].is = "clone" =>
            Heard(n) = {w \in Written : w.to = n}

\* A run of this component can be started with one value.
TakesOne(id) ==
    LET c == runner.comps[id] IN c.mode = "single" \/ Cardinality(DOMAIN c.slots) = 1

\* What a camera thread sends its frames to can be started with one frame, or
\* the thread would end at the first: the start-up asks the component what it
\* expects, the run goes by how the compiler has wired it.  Components with
\* optional inputs are left to TargetsTakeAFrame.
FramesFit ==
    phase = "running" =>
        \A cam \in DOMAIN targets : \A k \in DOMAIN targets[cam] :
            runner.comps[targets[cam][k]].type.extra = {} => TakesOne(targets[cam][k])

\* What starts is what is written down.
StartedAsWritten == BuiltAsWritten /\ FramesFit

\* FramesFit for every component.
TargetsTakeAFrame ==
    phase = "running" =>
        \A cam \in DOMAIN targets : \A k \in DOMAIN targets[cam] : TakesOne(targets[cam][k])
=============================================================================
