---------------------------- MODULE MCIrqSpinlock ----------------------------
(* The instance of IrqSpinlock that TLC checks. *)
EXTENDS IrqSpinlock
==============================================================================
