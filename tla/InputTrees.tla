----------------------------- MODULE InputTrees -----------------------------
(***************************************************************************)
(* How the components that aggregate their inputs read the tree they run   *)
(* on: the iterators and the first and last of InputTree, and the          *)
(* components built on them (collect-vec, select-last).                    *)
(*                                                                         *)
(* A node of the tree is named by its path, the branch ids from the root.  *)
(* A level has one column here; a value is named by its node.              *)
(***************************************************************************)
EXTENDS Integers, Sequences, FiniteSets, SequencesExt

CONSTANTS
    BranchIds,  \* branch ids (a set of naturals)
    MaxKids,    \* at most this many slots in InputTree::next (a bound)
    Depth       \* levels below the root (a bound)

ASSUME TreesAssumption ==
    BranchIds \subseteq Nat /\ IsFiniteSet(BranchIds) /\ MaxKids \in Nat /\ Depth \in Nat

VARIABLES
    kids,       \* kids[p]: InputTree::next of node p, slots with a branch id or Hole
    has,        \* the nodes whose value at the target level is there
    target,     \* InputIndex::0
    stack,      \* the iterator's stack: nodes, each with the next slot to visit
    index,      \* IndexedInputIterator::index
    found,      \* what the iterator has returned: value and index
    collected,  \* what collect-vec submits on "", NotYet before it is known
    sorted,     \* ... on "sorted"
    ends        \* what first() and last() return

treeVars == <<kids, has, target, stack, index, found, collected, sorted, ends>>

Hole == -1
Nothing == <<-2>>
NotYet == <<Nothing>>
Root == <<>>

Paths(l) == [1..l -> BranchIds]
Nodes == UNION {Paths(l) : l \in 0..(Depth - 1)}

\* insert_arg gives siblings distinct ids and fills holes; cleanup makes holes and
\* cuts them off at the end.
SlotLists ==
    {s \in UNION {[1..n -> BranchIds \cup {Hole}] : n \in 0..MaxKids} :
        /\ s # <<>> => Last(s) # Hole
        /\ \A i, j \in DOMAIN s : i # j /\ s[i] = s[j] => s[i] = Hole}

\* Path p is in the tree: every id on it is in a slot of the node above.
There(tree, p) == \A i \in DOMAIN p : \E k \in DOMAIN tree[SubSeq(p, 1, i - 1)] :
                      tree[SubSeq(p, 1, i - 1)][k] = p[i]

Level(l) == {p \in Paths(l) : There(kids, p)}

TreesInit ==
    /\ kids \in {f \in [Nodes -> SlotLists] : \A p \in Nodes : ~There(f, p) => f[p] = <<>>}
    /\ target \in 0..Depth
    /\ has \in SUBSET Level(target)
    /\ stack = <<[node |-> Root, slot |-> 1]>>
    /\ index = <<>>
    /\ found = <<>>
    /\ collected = NotYet /\ sorted = NotYet /\ ends = NotYet

-----------------------------------------------------------------------------
Top == Last(stack)
AtTarget == stack # <<>> /\ Len(stack) = target + 1

\* The slot above moves on by one.
Advanced(s) == IF s = <<>> THEN s ELSE [s EXCEPT ![Len(s)].slot = @ + 1]

\* pop()
Popped(s) == Advanced(Front(s))

DropLast(s) == IF s = <<>> THEN s ELSE Front(s)

\* next(): at the target's level, the node is popped and its value returned.  The
\* index has lost the node's own id by then.
Yield ==
    /\ AtTarget
    /\ stack' = Popped(stack)
    /\ index' = DropLast(index)
    /\ found' = Append(found, [value |-> IF Top.node \in has THEN Top.node ELSE Nothing,
                               id |-> index'])
    /\ UNCHANGED <<kids, has, target, collected, sorted, ends>>

\* No slot is left.
Ascend ==
    /\ stack # <<>> /\ ~AtTarget /\ Top.slot > Len(kids[Top.node])
    /\ stack' = Popped(stack)
    /\ index' = DropLast(index)
    /\ UNCHANGED <<kids, has, target, found, collected, sorted, ends>>

\* Mutated form: the slots of a node end at the first hole.
SkipRest ==
    /\ stack # <<>> /\ ~AtTarget /\ Top.slot <= Len(kids[Top.node])
    /\ kids[Top.node][Top.slot] = Hole
    /\ stack' = Popped(stack)
    /\ index' = DropLast(index)
    /\ UNCHANGED <<kids, has, target, found, collected, sorted, ends>>

SkipHole ==
    /\ stack # <<>> /\ ~AtTarget /\ Top.slot <= Len(kids[Top.node])
    /\ kids[Top.node][Top.slot] = Hole
    /\ stack' = Advanced(stack)
    /\ UNCHANGED <<kids, has, target, index, found, collected, sorted, ends>>

Descend ==
    /\ stack # <<>> /\ ~AtTarget /\ Top.slot <= Len(kids[Top.node])
    /\ LET id == kids[Top.node][Top.slot]
       IN  /\ id # Hole
           /\ stack' = Append(stack, [node |-> Append(Top.node, id), slot |-> 1])
           /\ index' = Append(index, id)
    /\ UNCHANGED <<kids, has, target, found, collected, sorted, ends>>

\* The order of run ids: by the first id that differs, or shorter first.
Before(p, q) ==
    \/ \E i \in DOMAIN p \cap DOMAIN q : p[i] < q[i] /\ \A k \in 1..(i - 1) : p[k] = q[k]
    \/ Len(p) < Len(q) /\ \A k \in DOMAIN p : p[k] = q[k]

\* Values that are placeholders do not downcast to the type that is collected.
Downcast ==
    LET upTo[n \in 0..Len(found)] ==
            IF n = 0 THEN <<>>
            ELSE IF found[n].value = Nothing THEN upTo[n - 1]
            ELSE Append(upTo[n - 1], found[n])
    IN  upTo[Len(found)]
Values(s) == [i \in DOMAIN s |-> s[i].value]

\* collect-vec: sort_unstable_by leaves values with equal ids in any order.
Collect ==
    /\ stack = <<>> /\ collected = NotYet
    /\ collected' = Values(Downcast)
    /\ \E s \in SetToSeqs(Range(Downcast)) :
          /\ \A i, j \in DOMAIN s : i < j => ~Before(s[j].id, s[i].id)
          /\ sorted' = Values(s)
    /\ UNCHANGED <<kids, has, target, stack, index, found, ends>>

\* The ids of the branches of a node, of which `sign' says which is tried first.
Kids(p) == {id \in BranchIds : \E k \in DOMAIN kids[p] : kids[p][k] = id}
Foremost(ids, sign) == CHOOSE id \in ids : \A o \in ids : sign * id <= sign * o

\* InputTree::first (sign 1) and last (sign -1), for every node that is l levels above
\* the target: the branches are tried in the order of their ids until one has a value.
EndsOf(sign) ==
    LET from[l \in 0..target] ==
            [p \in Level(target - l) |->
                IF l = 0 THEN (IF p \in has THEN p ELSE Nothing)
                ELSE LET with == {id \in Kids(p) : from[l - 1][Append(p, id)] # Nothing}
                     IN  IF with = {} THEN Nothing
                         ELSE from[l - 1][Append(p, Foremost(with, sign))]]
    IN  from
End(sign) == EndsOf(sign)[target][Root]

\* select-last, and its counterpart.
Select ==
    /\ stack = <<>> /\ ends = NotYet
    /\ ends' = <<End(1), End(-1)>>
    /\ UNCHANGED <<kids, has, target, stack, index, found, collected, sorted>>

TreesNext == Yield \/ Ascend \/ SkipHole \/ Descend \/ Collect \/ Select

TreesSpec == TreesInit /\ [][TreesNext]_treeVars

-----------------------------------------------------------------------------
\* collect-vec submits every value of its level, and each once: "the values
\* submitted to `elem`, in an unspecified order".
LevelCollected ==
    collected # NotYet => Range(collected) = has /\ Len(collected) = Cardinality(has)

\* "Comparisons are done by the run ID": what first() and last() find is the first
\* and the last of all values of the level, whatever branches have none.
EndsAreEnds ==
    ends # NotYet =>
        /\ has = {} => ends = <<Nothing, Nothing>>
        /\ has # {} => /\ {ends[1], ends[2]} \subseteq has
                       /\ \A p \in has : ~Before(p, ends[1]) /\ ~Before(ends[2], p)

\* "in the order that they would've come in if we used single-threaded, depth-first
\* execution" (collect-vec.md): the order of the run ids.
SortedByRun ==
    sorted # NotYet => \A i, j \in DOMAIN sorted : i < j => ~Before(sorted[j], sorted[i])

\* What the components that walk a tree read is what the level holds.
TreesRead == LevelCollected /\ EndsAreEnds
=============================================================================
