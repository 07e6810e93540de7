-------------------------- MODULE MCParallelExecute --------------------------
(* Instances of ParallelExecute for TLC.                                   *)
EXTENDS ParallelExecute, TLC

CoresSymmetry == Permutations(Cores)
==============================================================================
