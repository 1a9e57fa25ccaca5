------------------------------ MODULE NtPublish ------------------------------
(***************************************************************************)
(* One run of NtPrimitiveComponent: the values of its inputs, which reach  *)
(* it as a tree, are sent to a topic each; an input that has one value per *)
(* run of the component's root is sent as it is, one that has more (below  *)
(* level 0 of the tree) as an array that is filled while the tree is       *)
(* walked.                                                                 *)
(***************************************************************************)
EXTENDS Integers, Sequences, FiniteSets, SequencesExt

CONSTANTS
    Layouts,    \* where inputs can be: functions from their names to <<level, column>>
    Kinds,      \* kinds of values: those that can be sent, and others
    Sendable,   \* the former
    Remap,      \* the table from names to topics
    MaxNodes    \* at most this many nodes below the root (a bound)

\* No two inputs are at the same place.
ASSUME PublishAssumption ==
    /\ \A places \in Layouts : \A ch \in DOMAIN places :
          /\ places[ch] \in Nat \X Nat
          /\ \A other \in DOMAIN places \ {ch} : places[other] # places[ch]
    /\ Sendable \subseteq Kinds /\ "unset" \notin Kinds
    /\ MaxNodes \in Nat

VARIABLES
    layout,     \* input_indices()
    top,        \* the values of the root
    nodes,      \* the nodes below it, in the order in which they are walked
    visited,    \* how many of them have been
    todo,       \* inputs not yet looked at (in the order of a hash map)
    rows,       \* in_progress: for each level a row of topics and arrays
    sent,       \* values given to the client, with their topics
    outcome     \* "running", "done" or "panic"

publishVars == <<layout, top, nodes, visited, todo, rows, sent, outcome>>

Topic(ch) == IF ch \in DOMAIN Remap THEN Remap[ch] ELSE ch
Unset == [topic |-> "", kind |-> "unset", vals |-> <<>>]
Width(l) == Cardinality({ch \in DOMAIN layout : layout[ch][1] = l})
Levels == {layout[ch][1] : ch \in DOMAIN layout}

\* The root is level 0; children come after their parent.
PublishInit ==
    /\ layout \in Layouts
    /\ top \in [1..Width(0) -> Kinds]
    /\ \E n \in 0..MaxNodes : \E lv \in [1..n -> UNION {1..k : k \in Levels}] :
          /\ \A i \in 1..n : lv[i] <= (IF i = 1 THEN 0 ELSE lv[i - 1]) + 1
          /\ nodes \in [1..n -> [level : Range(lv), kinds : UNION {[1..Width(l) -> Kinds] : l \in Range(lv)}]]
          /\ \A i \in 1..n : nodes[i].level = lv[i] /\ Len(nodes[i].kinds) = Width(lv[i])
    /\ visited = 0
    /\ todo = DOMAIN layout
    /\ rows = <<>>
    /\ sent = {}
    /\ outcome = "running"

Given(i, c) == <<i, c>>

SendTop(ch) ==
    LET c == layout[ch][2]
    IN  /\ outcome = "running" /\ ch \in todo /\ layout[ch][1] = 0
        /\ sent' = IF top[c + 1] \in Sendable
                   THEN sent \cup {[topic |-> Topic(ch), vals |-> <<Given(0, c)>>]}
                   ELSE sent
        /\ todo' = todo \ {ch}
        /\ UNCHANGED <<layout, top, nodes, visited, rows, outcome>>

\* Vec::resize_with: cut off, or filled up.
Resized(s, n, v) == [i \in 1..n |-> IF i <= Len(s) THEN s[i] ELSE v]

\* The rows are made as many as the level; the row is the one with the number of
\* the column.
Prepare(ch) ==
    LET l == layout[ch][1]
        c == layout[ch][2]
    IN  /\ outcome = "running" /\ ch \in todo /\ l > 0 /\ c < l
        /\ rows' = [Resized(rows, l, <<>>) EXCEPT
                      ![c + 1] = [Resized(@, c + 1, Unset) EXCEPT ![c + 1].topic = Topic(ch)]]
        /\ todo' = todo \ {ch}
        /\ UNCHANGED <<layout, top, nodes, visited, sent, outcome>>

Panic == outcome' = "panic" /\ UNCHANGED <<layout, top, nodes, visited, todo, rows, sent>>

PreparePanics(ch) ==
    /\ outcome = "running" /\ ch \in todo /\ layout[ch][2] >= layout[ch][1] /\ layout[ch][1] > 0
    /\ Panic

\* Mutated form: a value of another kind begins the array anew.
PushedAnew(slot, kind, v) ==
    IF kind \notin Sendable THEN slot
    ELSE IF slot.kind # kind THEN [slot EXCEPT !.kind = kind, !.vals = <<v>>]
    ELSE [slot EXCEPT !.vals = Append(@, v)]

\* push_to: the first value decides what an array is of, others are left out.
Pushed(slot, kind, v) ==
    IF kind \notin Sendable \/ slot.kind \notin {"unset", kind} THEN slot
    ELSE [slot EXCEPT !.kind = kind, !.vals = Append(@, v)]

Walking == outcome = "running" /\ todo = {} /\ visited < Len(nodes)

\* walk_tree: the values of a node go to the slots of its level's row, as far as
\* there are slots.
Walk ==
    LET i == visited + 1
        l == nodes[i].level
    IN  /\ Walking /\ l <= Len(rows)
        /\ rows' = [rows EXCEPT ![l] =
                      [c \in DOMAIN @ |-> IF c \in DOMAIN nodes[i].kinds
                                          THEN Pushed(@[c], nodes[i].kinds[c], Given(i, c - 1))
                                          ELSE @[c]]]
        /\ visited' = i
        /\ UNCHANGED <<layout, top, nodes, todo, sent, outcome>>

\* No row is left for the level: split_off_first_mut().unwrap().
WalkPanics == Walking /\ nodes[visited + 1].level > Len(rows) /\ Panic

Send ==
    /\ outcome = "running" /\ todo = {} /\ visited = Len(nodes)
    /\ sent' = sent \cup {[topic |-> s.topic, vals |-> s.vals] :
                             s \in {t \in UNION {Range(rows[l]) : l \in DOMAIN rows} : t.kind # "unset"}}
    /\ outcome' = "done"
    /\ UNCHANGED <<layout, top, nodes, visited, todo, rows>>

PublishNext ==
    \/ \E ch \in DOMAIN layout : SendTop(ch) \/ Prepare(ch) \/ PreparePanics(ch)
    \/ Walk \/ WalkPanics \/ Send

PublishSpec == PublishInit /\ [][PublishNext]_publishVars

-----------------------------------------------------------------------------
\* The kind of an input's value at a node, of which the root is number 0.
KindAt(ch, i) == IF i = 0 THEN top[layout[ch][2] + 1] ELSE nodes[i].kinds[layout[ch][2] + 1]

\* The nodes with a value of an input that can be sent, and of them those whose value
\* is of the kind of the first.
Nodes(ch) ==
    LET level == layout[ch][1]
        at == IF level = 0 THEN {0} ELSE {i \in DOMAIN nodes : nodes[i].level = level}
    IN  {i \in at : KindAt(ch, i) \in Sendable}

OwnNodes(ch) ==
    {i \in Nodes(ch) : \E first \in Nodes(ch) : /\ \A k \in Nodes(ch) : first <= k
                                                /\ KindAt(ch, i) = KindAt(ch, first)}

\* The values of column c at these nodes, in the order of the walk.
InOrder(vals, at, c) ==
    /\ Range(vals) = {Given(i, c) : i \in at}
    /\ \A m, n \in DOMAIN vals : m < n => vals[m][1] < vals[n][1]

Whole(s, ch) == s.topic = Topic(ch) /\ InOrder(s.vals, OwnNodes(ch), layout[ch][2])

\* "Any named input: data to send over NetworkTables" (ntable.md): the values of every
\* input, and nothing else, go to its own topic, whole and in order, in whatever order
\* the inputs are looked at.
EveryInputSent ==
    /\ outcome # "panic"
    /\ outcome = "done" =>
          /\ \A ch \in DOMAIN layout : OwnNodes(ch) # {} => \E s \in sent : Whole(s, ch)
          /\ \A s \in sent : \E ch \in DOMAIN layout : OwnNodes(ch) # {} /\ Whole(s, ch)

OneList == \A ch \in DOMAIN layout : layout[ch][1] = 0 \/ layout[ch] = <<1, 0>>

\* So it is with one list beside the values of the root: its array takes the values
\* of its own input, of one kind, and of no other.
OneListSent == OneList => EveryInputSent
=============================================================================
