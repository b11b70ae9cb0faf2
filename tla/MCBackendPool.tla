--------------------------- MODULE MCBackendPool ---------------------------
(* Instances of BackendPool for TLC; the configurations give the constants. *)
EXTENDS BackendPool, TLC

AcquirerSymmetry == Permutations(Acquirers)
=============================================================================
