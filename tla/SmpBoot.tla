------------------------------- MODULE SmpBoot -------------------------------
(***************************************************************************)
(* Starting the application processors: processor::smp::boot of the boot   *)
(* core (src/kernel/processor/smp.cpp) and, on each other core, the code   *)
(* of trampoline.asm.  The boot core prepares slots of low memory, each a  *)
(* copy of the trampoline with two flags and the address of a stack, sends *)
(* start-up interrupts and looks at the first flag after two waits; a core *)
(* that has not raised it is taken out of the array of cores.              *)
(*                                                                         *)
(* dead are the cores that never start.  The others start some time after  *)
(* the first SIPI, at the latest in the wait after the second.             *)
(***************************************************************************)
EXTENDS Integers, Sequences

LOCAL SeqX == INSTANCE SequencesExt

CONSTANTS AtOnce,    \* boot_at_once: the slots (63)
          Word       \* the range of the counters (2^64)

ASSUME SmpAssumption == AtOnce \in Nat \ {0} /\ Word \in Nat /\ AtOnce < Word

VARIABLES
  pc,         \* where the boot core is in smp::boot
  order,      \* the array cores: order[i] = [core, started]; started is a slot, or none
  n, booted, i,
  slot,       \* slot[s]: flag (byte 11), second flag (byte 8191), stack
  stacks,     \* how many stacks have been allocated
  ap,         \* ap[c]: what core c does
  dead

smpVars == <<pc, order, n, booted, i, slot, stacks, ap, dead>>

Slots == 0..(AtOnce - 1)
Copied == [flag |-> 0, done |-> FALSE, stack |-> 0]
Aps == DOMAIN ap
Entry(k) == order[k + 1]          \* cores[k]
Plus(a, b) == (a + b) % Word
Minus(a, b) == (a - b) % Word

SmpInit == /\ pc = "idle" /\ order = <<>> /\ n = 0 /\ booted = 0 /\ i = 0
           /\ slot = [s \in Slots |-> Copied] /\ stacks = 0 /\ ap = <<>> /\ dead = {}

\* processor::initialize calls smp::boot(_cores + 1, _num_cores - 1); every core gets the
\* INIT interrupt and waits for a SIPI; 10 ms pass.
Boot(list, gone) ==
  /\ pc = "idle"
  /\ order' = [k \in 1..Len(list) |-> [core |-> list[k], started |-> -1]]
  /\ ap' = [c \in {list[k] : k \in 1..Len(list)} |-> [do |-> "wait", slot |-> -1, stack |-> 0]]
  /\ n' = Len(list) /\ dead' = gone
  /\ pc' = "batch"
  /\ UNCHANGED <<booted, i, slot, stacks>>

\* i < booted + boot_at_once && i < num_cores.
InBatch == i < Plus(booted, AtOnce) /\ i < n

\* for (booted = 0; booted < num_cores; booted += boot_at_once)
Batch == /\ pc = "batch"
         /\ IF booted < n THEN pc' = "prepare" /\ i' = booted
            ELSE pc' = "ready" /\ UNCHANGED i
         /\ UNCHANGED <<order, n, booted, slot, stacks, ap, dead>>

\* A fresh copy of the trampoline, with a stack of its own.
Prepare == /\ pc = "prepare" /\ InBatch
           /\ slot' = [slot EXCEPT ![Minus(i, booted)] = [Copied EXCEPT !.stack = stacks + 1]]
           /\ order' = [order EXCEPT ![i + 1].started = Minus(i, booted)]
           /\ stacks' = stacks + 1 /\ i' = i + 1
           /\ UNCHANGED <<pc, n, booted, ap, dead>>

\* The end of an inner loop.
Leave(from, to) == /\ pc = from /\ ~InBatch
                   /\ pc' = to /\ i' = booted
                   /\ UNCHANGED <<order, n, booted, slot, stacks, ap, dead>>

\* A SIPI is taken by a core that waits for one; the first may be missed.
Signalled(c, s) == IF ap[c].do = "wait" THEN [ap EXCEPT ![c].do = "signalled", ![c].slot = s]
                   ELSE ap
Sipi == /\ pc = "sipi" /\ InBatch
        /\ ap' \in {ap, Signalled(Entry(i).core, Minus(i, booted))} /\ i' = i + 1
        /\ UNCHANGED <<pc, order, n, booted, slot, stacks, dead>>

\* The second is for those that have not raised the flag.
NotStarted(s) == slot[s].flag = 0
Sipi2 == /\ pc = "sipi2" /\ InBatch
         /\ ap' = IF NotStarted(Entry(i).started)
                  THEN Signalled(Entry(i).core, Minus(i, booted)) ELSE ap
         /\ i' = i + 1
         /\ UNCHANGED <<pc, order, n, booted, slot, stacks, dead>>

\* 500 us pass, twice; by the end of the second every core that can start has started.
Wait1 == /\ pc = "wait1" /\ pc' = "sipi2"
         /\ UNCHANGED <<order, n, booted, i, slot, stacks, ap, dead>>
Wait2 == /\ pc = "wait2" /\ pc' = "check"
         /\ \A c \in Aps \ dead : ap[c].do # "signalled"
         /\ UNCHANGED <<order, n, booted, i, slot, stacks, ap, dead>>

\* A core that has started is waited for until it has left the trampoline.  Fault: it is not.
NotAwaited(s) == TRUE
Awaited(s) == slot[s].done
CheckStarted == /\ pc = "check" /\ InBatch
                /\ slot[Entry(i).started].flag # 0 /\ Awaited(Entry(i).started)
                /\ i' = i + 1
                /\ UNCHANGED <<pc, order, n, booted, slot, stacks, ap, dead>>

\* A core that has not is taken out: the entries behind it move up, by core::operator=,
\* which leaves _started where it is.
MovedUp == [k \in 1..Len(order) |-> IF k \in (i + 1)..(n - 1)
                                    THEN [order[k] EXCEPT !.core = order[k + 1].core]
                                    ELSE order[k]]
CheckFailed == /\ pc = "check" /\ InBatch
               /\ slot[Entry(i).started].flag = 0
               /\ order' = MovedUp
               /\ n' = n - 1 /\ booted' = Minus(booted, 1)
               /\ UNCHANGED <<pc, i, slot, stacks, ap, dead>>

NextBatch == /\ pc = "check" /\ ~InBatch
             /\ booted' = Plus(booted, AtOnce) /\ pc' = "batch"
             /\ UNCHANGED <<order, n, i, slot, stacks, ap, dead>>

BootStep == \/ Batch \/ Prepare \/ Leave("prepare", "sipi") \/ Sipi \/ Leave("sipi", "wait1")
            \/ Wait1 \/ Sipi2 \/ Leave("sipi2", "wait2") \/ Wait2
            \/ CheckStarted \/ CheckFailed \/ NextBatch

------------------------------------------------------------------------------
(* The trampoline                                                          *)

\* inc byte [cs:11]; the stack of real mode and of protected mode is in the slot.
Start(c) == /\ ap[c].do = "signalled" /\ c \notin dead
            /\ slot' = [slot EXCEPT ![ap[c].slot].flag = @ + 1]
            /\ ap' = [ap EXCEPT ![c].do = "trampoline"]
            /\ UNCHANGED <<pc, order, n, booted, i, stacks, dead>>

\* lmode: the stack is read, then byte 8191 is set, then ap_initialize runs.
\* Fault: the byte is not the one the boot core looks at.
LoadStack(c) == /\ ap[c].do = "trampoline"
                /\ ap' = [ap EXCEPT ![c].do = "stack", ![c].stack = slot[ap[c].slot].stack]
                /\ UNCHANGED <<pc, order, n, booted, i, slot, stacks, dead>>
ArriveUnseen(c) == /\ ap[c].do = "stack"
                   /\ ap' = [ap EXCEPT ![c].do = "ap_initialize"]
                   /\ UNCHANGED <<pc, order, n, booted, i, slot, stacks, dead>>
Arrive(c) == /\ ap[c].do = "stack"
             /\ slot' = [slot EXCEPT ![ap[c].slot].done = TRUE]
             /\ ap' = [ap EXCEPT ![c].do = "ap_initialize"]
             /\ UNCHANGED <<pc, order, n, booted, i, stacks, dead>>

ApStep(c) == Start(c) \/ LoadStack(c) \/ Arrive(c)

SmpNext == BootStep \/ \E c \in Aps : ApStep(c)
SmpFairness == WF_smpVars(BootStep) /\ WF_smpVars(\E c \in Aps : ApStep(c))

------------------------------------------------------------------------------
(* Properties                                                              *)

Running == {c \in Aps : ap[c].do \in {"stack", "ap_initialize"}}
Kept == {order[k].core : k \in 1..n}
\* No two cores ever run on one stack, though slots and their flags are used again by the
\* next batch and a SIPI is sent twice.  When boot is over, the cores that were kept have left
\* the trampoline, so its memory can be unmapped; none is taken out that starts, unless it
\* is behind a dead one.  With a dead core this holds as long as all fit into one batch: a
\* core taken out behind it may still be in the trampoline when its slot is used again.
KeptRun == dead = {} \/ Len(order) <= AtOnce =>
           /\ \A c, d \in Running : ap[c].stack = ap[d].stack => c = d
           /\ pc = "ready" => /\ \A c \in Kept : ap[c].do = "ap_initialize"
                              /\ dead = {} => Kept = Aps
==============================================================================
