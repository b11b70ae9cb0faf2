---------------------------- MODULE MCCollection ----------------------------
(* Instances of Collection for TLC; the configurations give the constants. *)
EXTENDS Collection, TLC

CONSTANTS o1, k1

OneKind == [o \in Objects |-> k1]
WorkerSymmetry == Permutations(Workers)
=============================================================================
