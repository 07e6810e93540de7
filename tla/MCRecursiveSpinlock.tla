------------------------- MODULE MCRecursiveSpinlock -------------------------
(* The instance of RecursiveSpinlock that TLC checks. *)
EXTENDS RecursiveSpinlock
==============================================================================
