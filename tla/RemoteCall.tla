----------------------------- MODULE RemoteCall ------------------------------
(***************************************************************************)
(* What a waiting processor::smp::parallel_execute promises its caller:    *)
(* every core the policy names executes the function exactly once, between *)
(* the call and its return, and no other core executes it.                 *)
(***************************************************************************)
EXTENDS Naturals

CONSTANTS Cores,   \* the processor cores
          Calls    \* the calls that are ever made

VARIABLES status,   \* status[x]: "unused", "active" or "returned"
          asked,    \* asked[x]: the cores that call x is to be executed by
          ran       \* ran[x][d]: how often core d has executed call x

vars == <<status, asked, ran>>

Init == /\ status = [x \in Calls |-> "unused"]
        /\ asked = [x \in Calls |-> {}]
        /\ ran = [x \in Calls |-> [d \in Cores |-> 0]]

Begin(x, targets) == /\ status[x] = "unused"
                     /\ status' = [status EXCEPT ![x] = "active"]
                     /\ asked' = [asked EXCEPT ![x] = targets]
                     /\ UNCHANGED ran

Run(x, d) == /\ status[x] = "active"
             /\ d \in asked[x] /\ ran[x][d] = 0
             /\ ran' = [ran EXCEPT ![x][d] = 1]
             /\ UNCHANGED <<status, asked>>

Return(x) == /\ status[x] = "active"
             /\ \A d \in asked[x] : ran[x][d] = 1
             /\ status' = [status EXCEPT ![x] = "returned"]
             /\ UNCHANGED <<asked, ran>>

Next == \E x \in Calls : \/ \E targets \in SUBSET Cores : Begin(x, targets)
                         \/ \E d \in Cores : Run(x, d)
                         \/ Return(x)

Spec == Init /\ [][Next]_vars
==============================================================================
