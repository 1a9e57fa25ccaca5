---------------------------- MODULE MCComponents ----------------------------
(* What components keep and compute, a part at a time: the parts share no    *)
(* state, so each moves while the others keep a state of theirs.             *)
EXTENDS Group, Configurable, EntrySlots, InputTrees, RunArguments, Blobs, Images, TLC

CONSTANT Parts  \* the parts to check

VARIABLE scope

vars == <<groupVars, configVars, slotVars, treeVars, argVars, blobVars, imageVars, scope>>

---------------------------------------------------------------------------
(* The values of the constants. *)

SomeValues == [c \in Outs |-> 2]

\* Components of every input mode; several inputs on one level and on two.
SomeNames == {"a", "b", "c"}
SomeComponents ==
    {[mode |-> "primary", name |-> {}],
     [mode |-> "single", name |-> {"a"}],
     [mode |-> "multi", lookup |-> <<>>, shape |-> <<0>>],
     [mode |-> "multi", lookup |-> ("a" :> <<0, 1>> @@ "b" :> <<0, 0>>), shape |-> <<2>>],
     [mode |-> "multi", lookup |-> ("a" :> <<0, 1>> @@ "b" :> <<0, 2>> @@ "c" :> <<0, 0>>),
      shape |-> <<3>>],
     [mode |-> "multi", lookup |-> ("a" :> <<0, 0>> @@ "b" :> <<1, 0>>), shape |-> <<2, 1>>],
     [mode |-> "multi", lookup |-> ("a" :> <<0, 1>> @@ "b" :> <<0, 0>> @@ "c" :> <<1, 0>>),
      shape |-> <<3, 1>>]}

\* A component without inputs on the level between two others.
SomeSparse == {[mode |-> "multi", lookup |-> ("a" :> <<0, 0>> @@ "b" :> <<0, 1>> @@ "c" :> <<2, 0>>),
                shape |-> <<3, 1, 1>>]}

\* Rows that images begin with: arches, combs, staircases and rings, to which any row
\* may come.
All == 0..6
Comb == {0, 2, 4, 6}
Tops == {<<Comb, Comb, Comb>>, <<Comb, {0, 1, 2, 4, 6}, Comb>>, <<Comb, {1, 4}, {0, 2, 4, 6}>>,
         <<All, Comb, Comb>>, <<All, {0, 6}, {0, 3, 6}>>, <<All, {0, 3, 6}, {0, 1, 3, 5, 6}>>,
         <<{3}, {2, 4}, {1, 5}>>, <<{0, 3, 6}, {1, 3, 5}, {0, 2, 3, 5}>>,
         <<{0, 1, 2, 4, 5, 6}, {0, 2, 4, 6}, {0, 1, 2, 6}>>,
         <<{1, 3, 5}, {0, 2, 4, 6}, {1, 3, 5}>>, <<Comb, Comb, {0, 1, 2, 4, 6}>>}
Ring == {<<0..4, {0, 4}, {0, 2, 4}>>}

Luma(w, h, data) == Buffer(w, h, "LUMA", data)
Rgb(w, h, data) == Buffer(w, h, "RGB", data)

\* Dots, edges and slopes; of different sizes, so that rows and columns differ, with even
\* and odd numbers of pixels.
Greys == {Luma(3, 2, <<0, 255, 0, 40, 0, 90>>), Luma(4, 3, <<0, 0, 0, 0, 0, 200, 255, 0, 7, 0, 0, 0>>),
          Luma(2, 4, <<255, 255, 255, 0, 255, 255, 80, 255>>), Luma(4, 1, <<9, 250, 251, 1>>),
          Luma(4, 2, <<100, 100, 100, 100, 100, 100, 100, 100>>),
          Luma(3, 1, <<0, 120, 255>>), Luma(3, 3, <<9, 0, 70, 255, 30, 0, 0, 180, 66>>)}
Grid == {0, 58, 127}
Grids == {Rgb(1, 1, <<r, g, b>>) : r \in Grid, g \in Grid, b \in Grid}
Colored == {Rgb(2, 2, <<200, 0, 0, 10, 20, 30, 0, 255, 128, 255, 255, 255>>),
            Buffer(2, 2, "RGBA", <<1, 2, 3, 255, 90, 80, 70, 255, 0, 0, 0, 255, 5, 250, 5, 255>>)}
SomePhotos == Greys \cup Grids \cup Colored
SomeFormats == {"LUMA", "RGB", "HSV", "YCC", "RGBA", "YUYV", "?2"}
SomeFilters == {[space |-> "LUMA", min |-> <<50>>, max |-> <<210>>],
              [space |-> "HSV", min |-> <<0, 40, 40>>, max |-> <<60, 255, 255>>],
              [space |-> "YCC", min |-> <<0, 0, 100>>, max |-> <<255, 130, 255>>]}
SomeWindows == {<<1, 3>>, <<3, 3>>, <<5, 1>>}
SomeKernels == {<<26145, 15857>>, <<13072, 11536, 7928>>, <<5, 1, 0>>}
SomeSizes == {<<2, 3>>, <<5, 2>>, <<1, 1>>}
SomeExtracts == {<<2, 0>>, <<1>>, <<0, 0, 3>>}
Line(x0, y0, x1, y1, color) == [x0 |-> x0, y0 |-> y0, x1 |-> x1, y1 |-> y1,
                                space |-> "RGB", color |-> color]
SomeLines == {Line(0, 0, 5, 3, <<1, 2, 3>>), Line(4, 1, 0, 2, <<255, 0, 0>>),
            Line(1, 5, 1, 0, <<0, 9, 0>>), Line(3, 3, 3, 3, <<7, 7, 7>>), Line(3, 0, 0, 7, <<4, 4, 4>>)}

\* One pixel of a color that a camera sees.
Bright == {Rgb(1, 1, <<200, 40, 30>>), Rgb(1, 1, <<60, 50, 55>>)}
Spaces == {"RGB", "HSV"}
\* A YUYV frame and its filter.
Frame == {Buffer(2, 2, "YUYV", <<90, 128, 20, 128, 240, 100, 250, 90>>)}
YuyvFilter == {[space |-> "YUYV", min |-> <<50, 0, 0>>, max |-> <<255, 255, 255>>]}

---------------------------------------------------------------------------
(* The parts at rest. *)

TreesRest ==
    /\ kids = [p \in {Root} |-> <<>>] /\ has = {} /\ target = 0
    /\ stack = <<>> /\ index = <<>> /\ found = <<>>
    /\ collected = NotYet /\ sorted = NotYet /\ ends = NotYet

ArgsRest ==
    /\ comp = [mode |-> "primary", name |-> {}] /\ given = <<>> /\ form = "list"
    /\ args = <<>> /\ outcome = "given"

ImageRests == image = Buffer(1, 1, "LUMA", <<0>>) /\ past = <<>>

Init ==
    /\ scope \in Parts
    /\ GroupInit /\ ConfigurableInit /\ SlotsInit /\ BlobInit
    /\ IF scope = "trees" THEN TreesInit ELSE TreesRest
    /\ IF scope = "arguments" THEN ArgsInit ELSE ArgsRest
    /\ IF scope = "images" THEN ImageInit ELSE ImageRests

Next ==
    /\ UNCHANGED scope
    /\ \/ /\ scope = "group" /\ GroupNext
          /\ UNCHANGED <<configVars, slotVars, treeVars, argVars, blobVars, imageVars>>
       \/ /\ scope = "configuration" /\ ConfigurableNext
          /\ UNCHANGED <<groupVars, slotVars, treeVars, argVars, blobVars, imageVars>>
       \/ /\ scope = "slots" /\ SlotsNext
          /\ UNCHANGED <<groupVars, configVars, treeVars, argVars, blobVars, imageVars>>
       \/ /\ scope = "trees" /\ TreesNext
          /\ UNCHANGED <<groupVars, configVars, slotVars, argVars, blobVars, imageVars>>
       \/ /\ scope = "arguments" /\ ArgsNext
          /\ UNCHANGED <<groupVars, configVars, slotVars, treeVars, blobVars, imageVars>>
       \/ /\ scope = "blobs" /\ BlobNext
          /\ UNCHANGED <<groupVars, configVars, slotVars, treeVars, argVars, imageVars>>
       \/ /\ scope = "images" /\ ImageNext
          /\ UNCHANGED <<groupVars, configVars, slotVars, treeVars, argVars, blobVars>>

\* The fairness of the group: GroupFairness.
Spec ==
    /\ Init /\ [][Next]_vars
    /\ \A o \in Outer : /\ WF_groupVars(scope = "group" /\ GroupRun(o))
                        /\ WF_groupVars(scope = "group" /\ SubRun(o))
                        /\ WF_groupVars(scope = "group" /\ Poll(o))
=============================================================================
