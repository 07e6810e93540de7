---------------------------- MODULE ReentrantLock ----------------------------
(***************************************************************************)
(* What a recursive lock promises to the kernel: a core may take it any    *)
(* number of times, but only while no other core has it.  The class        *)
(* utils::recursive_spinlock is shown to implement it in RecursiveSpinlock.*)
(***************************************************************************)
EXTENDS Naturals

CONSTANT Cores        \* the processor cores

VARIABLE depth        \* depth[c]: acquisitions core c has not released

vars == depth

Init == depth = [c \in Cores |-> 0]

Acquire(c) == /\ \A d \in Cores \ {c} : depth[d] = 0
              /\ depth' = [depth EXCEPT ![c] = @ + 1]

Release(c) == /\ depth[c] > 0
              /\ depth' = [depth EXCEPT ![c] = @ - 1]

Next == \E c \in Cores : Acquire(c) \/ Release(c)

Spec == Init /\ [][Next]_vars
==============================================================================
