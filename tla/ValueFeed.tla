----------------------------- MODULE ValueFeed -----------------------------
(***************************************************************************)
(* What a publisher may expect of NetworkTables: of the values it has set, *)
(* numbered from 1, later ones come to be seen, in the order they were set *)
(* and none twice.  Some of them may never be seen.                        *)
(***************************************************************************)
EXTENDS Naturals

CONSTANT Publishers

VARIABLES given, seen   \* the values that were set, the last one that was seen

Init == given = [p \in Publishers |-> 0] /\ seen = [p \in Publishers |-> 0]

Give(p) ==
    /\ given' = [given EXCEPT ![p] = @ + 1]
    /\ UNCHANGED seen

See(p) ==
    /\ \E n \in (seen[p] + 1)..given[p] : seen' = [seen EXCEPT ![p] = n]
    /\ UNCHANGED given

Next == \E p \in Publishers : Give(p) \/ See(p)

Spec == Init /\ [][Next]_<<given, seen>>
=============================================================================
