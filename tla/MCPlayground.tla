---------------------------- MODULE MCPlayground ----------------------------
(* Playground for TLC: the slots of the windows are interchangeable.       *)
EXTENDS Playground, TLC

WorkerSymmetry == Permutations(Workers)
=============================================================================
