---------------------------- MODULE RunArguments ----------------------------
(***************************************************************************)
(* From the arguments a caller has to the inputs a component reads: the    *)
(* forms run() accepts (IntoRunParams), pack_args, the checks of run_impl, *)
(* the tree build_tree makes, and get() in the component.                  *)
(*                                                                         *)
(* A component is a record: its mode, for several inputs the level and     *)
(* column of each name (lookup, with a set of levels from 0), and shape,   *)
(* tree_shape: for every level the number of inputs on it and below.       *)
(***************************************************************************)
EXTENDS Integers, Sequences, FiniteSets

CONSTANTS
    Components, \* what a run may be started with
    Names       \* names the caller may give

VARIABLES
    comp,       \* the component
    given,      \* given[n]: the caller's value for n, for the names it has
    form,       \* "map" (InputSpecifier) or "list" (ComponentArgs)
    args,       \* RunParams::args
    outcome     \* "given", "packed", "running", "refused" or "panic"

argVars == <<comp, given, form, args, outcome>>

Placeholder == <<"placeholder", "">>
ValueOf(n) == <<"value", n>>
Multi(c) == c.mode = "multi"
NamesOf(c) == IF Multi(c) THEN DOMAIN c.lookup ELSE c.name

\* How many inputs are on level l, counted from 0.
Size(c, l) == c.shape[l + 1] - (IF l + 2 \in DOMAIN c.shape THEN c.shape[l + 2] ELSE 0)

\* What compile() makes of a component: on every level the inputs are numbered from 0,
\* and one input alone is not taken for several.
Levels(c) == 0..(Len(c.shape) - 1)
Columns(c, l) == 0..(Size(c, l) - 1)
AsCompiled(c) ==
    /\ c.mode \in {"primary", "single", "multi"}
    /\ c.mode = "single" => \E n \in c.name : c.name = {n}
    /\ Multi(c) =>
        /\ c.shape \in Seq(Nat) /\ c.shape # <<>>
        /\ \A l \in Levels(c) : Size(c, l) \in Nat
        /\ \A n \in DOMAIN c.lookup :
               \E l \in Levels(c) : \E k \in Columns(c, l) : c.lookup[n] = <<l, k>>
        /\ \A l \in Levels(c) : \A k \in Columns(c, l) :
               \E n \in DOMAIN c.lookup : c.lookup[n] = <<l, k>>
        /\ \A m, n \in DOMAIN c.lookup : c.lookup[m] = c.lookup[n] => m = n
        /\ Cardinality(DOMAIN c.lookup) # 1

ASSUME ComponentsAssumption ==
    /\ \A c \in Components : AsCompiled(c)
    /\ IsFiniteSet(Names)

ArgsInit ==
    /\ comp \in Components
    /\ given \in UNION {[S -> {ValueOf(n) : n \in Names}] : S \in SUBSET Names}
    /\ \A n \in DOMAIN given : given[n] = ValueOf(n)
    /\ form \in {"map", "list"}
    /\ args = <<>>
    /\ outcome = "given"

\* Mutated form: the columns of a level are left out.
PositionByLevel(c, n) ==
    LET at == c.lookup[n] IN 1 + (IF at[1] = 0 THEN 0 ELSE c.shape[at[1]])

\* The place of an input in the packed arguments, counted from 1: after
\* tree_shape[level - 1] others.
Position(c, n) ==
    LET at == c.lookup[n] IN 1 + (IF at[1] = 0 THEN 0 ELSE c.shape[at[1]]) + at[2]

Ends(o) == outcome' = o /\ UNCHANGED <<comp, given, form, args>>

\* pack_args for a map; an input that is missing is named, and so is the primary one.
PackMissing ==
    /\ outcome = "given" /\ form = "map"
    /\ comp.mode = "primary" \/ ~(NamesOf(comp) \subseteq DOMAIN given)
    /\ Ends("refused")

Packable ==
    /\ outcome = "given" /\ form = "map"
    /\ comp.mode # "primary" /\ NamesOf(comp) \subseteq DOMAIN given

\* A place behind the last argument.
PackPanics ==
    /\ Packable /\ Multi(comp)
    /\ \E n \in NamesOf(comp) : Position(comp, n) > Cardinality(NamesOf(comp))
    /\ Ends("panic")

PackMulti ==
    /\ Packable /\ Multi(comp)
    /\ \A n \in NamesOf(comp) : Position(comp, n) <= Cardinality(NamesOf(comp))
    /\ args' = [i \in 1..Cardinality(NamesOf(comp)) |->
                  IF \E n \in NamesOf(comp) : Position(comp, n) = i
                  THEN given[CHOOSE n \in NamesOf(comp) : Position(comp, n) = i]
                  ELSE Placeholder]
    /\ outcome' = "packed"
    /\ UNCHANGED <<comp, given, form>>

PackSingle ==
    /\ Packable /\ ~Multi(comp)
    /\ args' = <<given[CHOOSE n \in comp.name : TRUE]>>
    /\ outcome' = "packed"
    /\ UNCHANGED <<comp, given, form>>

\* The caller lists its values level by level, which is how build_tree takes them.
ListOrder(c, s) ==
    \A i, j \in DOMAIN s : i < j /\ {s[i], s[j]} \subseteq NamesOf(c) /\ Multi(c) =>
        LET a == c.lookup[s[i]]
            b == c.lookup[s[j]]
        IN  a[1] < b[1] \/ (a[1] = b[1] /\ a[2] < b[2])

GiveList ==
    /\ outcome = "given" /\ form = "list"
    /\ \E s \in [1..Cardinality(DOMAIN given) -> DOMAIN given] :
          /\ {s[i] : i \in DOMAIN s} = DOMAIN given
          /\ ListOrder(comp, s)
          /\ args' = [i \in DOMAIN s |-> given[s[i]]]
    /\ outcome' = "packed"
    /\ UNCHANGED <<comp, given, form>>

\* run_impl: one argument for a single input, one for each of several.
Expected(c) == IF Multi(c) THEN Cardinality(DOMAIN c.lookup) ELSE 1
Check ==
    /\ outcome = "packed"
    /\ Ends(IF Len(args) = Expected(comp) THEN "running" ELSE "refused")

\* build_tree: level l takes as many of the arguments as it has inputs, of those that
\* the levels before it have left.
Taken(c) ==
    LET upTo[l \in 0..Len(c.shape)] == IF l = 0 THEN 0 ELSE upTo[l - 1] + Size(c, l - 1)
    IN  upTo

BuildTree ==
    [l \in Levels(comp) |-> SubSeq(args, Taken(comp)[l] + 1, Taken(comp)[l] + Size(comp, l))]

\* What get(n) returns in a component that runs with these arguments.  One
\* argument is passed without a tree (and several inputs never get along with it).
Get(n) ==
    CASE Multi(comp) -> BuildTree[comp.lookup[n][1]][comp.lookup[n][2] + 1]
      [] comp.mode = "single" -> args[1]

\* packed_args(), for a component that passes its inputs on: level for level the
\* difference of the shape's sums, counted up from the top, and then the node
\* below, which the last level has not.
PackedArgsPanics ==
    Multi(comp) =>
        \E l \in Levels(comp) :
            \/ comp.shape[l + 1] < (IF l = 0 THEN 0 ELSE comp.shape[l])
            \/ l + 1 \notin DOMAIN BuildTree

ArgsNext ==
    \/ PackMissing \/ PackPanics \/ PackMulti \/ PackSingle
    \/ GiveList \/ Check

ArgsSpec == ArgsInit /\ [][ArgsNext]_argVars

-----------------------------------------------------------------------------
\* A component that is started with names for its inputs reads for each the value
\* that the caller gave for it, however the inputs are numbered, and so does one
\* that is started with a list in the order of its inputs.
InputsAsGiven ==
    outcome = "running" /\ NamesOf(comp) \subseteq DOMAIN given =>
        \A n \in NamesOf(comp) : comp.mode # "primary" => Get(n) = given[n]

\* A run of a component that nothing feeds, whose inputs are on one level, with every
\* input by name is accepted ("Pack the given input arguments according to the order").
NamedRunStarts ==
    form = "map" /\ comp.mode # "primary" /\ NamesOf(comp) \subseteq DOMAIN given
        /\ (Multi(comp) => Len(comp.shape) <= 1) =>
        outcome \notin {"refused", "panic"}

\* Arguments that are given in full start a run, and it reads what was given.
ArgumentsArrive == NamedRunStarts /\ InputsAsGiven

\* "Get the packed ComponentArgs. ... useful for forwarding to another component
\* with the same specified inputs."
CanForward == outcome = "running" /\ Multi(comp) => ~PackedArgsPanics
=============================================================================
