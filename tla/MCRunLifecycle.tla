--------------------------- MODULE MCRunLifecycle ---------------------------
(* Instances of RunLifecycle for TLC. *)
EXTENDS RunLifecycle, TLC

CONSTANTS c1, c2, c3, c4, t1, t2, t3

\* Every caller uses the same limit, as the camera threads of vv-cli do.
LimitOne == [x \in Calls |-> 1]
LimitTwo == [x \in Calls |-> 2]
\* Callers with different limits: either may refuse, and both may run.
LimitStep == c1 :> 1 @@ c2 :> 2
\* Callers with different limits, and one without.
LimitMixed == c1 :> 1 @@ c2 :> 1 @@ c3 :> NoLimit @@ c4 :> 2
=============================================================================
