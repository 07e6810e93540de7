-------------------------- MODULE MCLocalScheduler --------------------------
(* Instances of LocalScheduler for TLC.                                    *)
EXTENDS LocalScheduler

CONSTANTS t1, t2, t3, t4

\* Three threads of one class, at different priorities, and one of a better class.
MCPolicy == [t \in Tasks |-> IF t = t4 THEN "top" ELSE "normal"]
MCPriority == [t \in Tasks |-> CASE t = t1 -> 128 [] t = t2 -> 192 [] OTHER -> 64]
MCSpawners == KernelThreads

\* Four threads of one class, one of which schedules too.
MCOnePolicy == [t \in Tasks |-> "normal"]
MCOnePriority == [t \in Tasks |-> CASE t = t1 -> 1 [] t = t2 -> 1 [] t = t3 -> 2 [] OTHER -> 4]
MCOneSpawners == KernelThreads \cup {t1}
=============================================================================
