--------------------------- MODULE ParallelExecute ---------------------------
(***************************************************************************)
(* processor::smp::parallel_execute (src/kernel/processor/ipi.cpp): a core *)
(* has a function executed by other cores through inter-processor          *)
(* interrupts.  The call takes the next of a ring of slots, publishes the  *)
(* function and its argument in it, sets the number of cores that have not *)
(* finished, sends the slot's vector, and -- unless the policy says        *)
(* no_wait -- spins until the number is zero.  The handler of the vector   *)
(* executes what the slot holds and decrements the number.                 *)
(*                                                                         *)
(* A local APIC keeps one pending bit per vector: a vector that is sent    *)
(* again before it is taken is taken once.  Handlers run with interrupts   *)
(* off, threads may call with interrupts on or off.                        *)
(***************************************************************************)
EXTENDS Integers, FiniteSets

CONSTANTS Cores,         \* the cores the firmware reports: core_count() of them
          Online,        \* those of them that have booted
          NSlots,        \* the number of slots (8 in the code)
          MaxCalls,      \* bound: calls made by one core
          Policies,      \* the policies that are used
          CallerFlags,   \* the values of RFLAGS.IF a caller may have
          Punctual,      \* whether the ring comes round to a slot only when every
                         \* interrupt sent for its last call has been served: an
                         \* assumption on timing that the code does not enforce
          NoCall         \* the content of an unused slot: nullptr, 0

Slots == 0..(NSlots - 1)
Calls == Cores \X (1..MaxCalls)   \* the n-th call made by a core
Call(c, n) == <<c, n>>
Caller(x) == x[1]
Number(x) == x[2]
WaitingPolicies == {"all", "others", "specific"}
AllPolicies == WaitingPolicies \cup {"all_no_wait", "others_no_wait", "specific_no_wait"}

ASSUME ConfigAssumption == /\ IsFiniteSet(Cores)
                           /\ Online \subseteq Cores
                           /\ NSlots \in Nat \ {0}
                           /\ MaxCalls \in Nat
                           /\ Policies \subseteq AllPolicies
                           /\ CallerFlags \subseteq BOOLEAN
                           /\ Punctual \in BOOLEAN
                           /\ NoCall \notin Calls

VARIABLES
  next,         \* _next_slot % NSlots
  lock,         \* lock[s]: slot.lock
  fptr,         \* fptr[s]: the call whose function slot s holds
  data,         \* data[s]: the call whose argument slot s holds
  unfinished,   \* unfinished[s]: slot.unfinished_cores; -1 stands for its wrapped value
  pc,           \* pc[c]: the statement of parallel_execute core c is about to execute
  slot,         \* slot[c]: the slot of core c's call
  policy,       \* policy[c], target[c]: the arguments of core c's call
  target,
  made,         \* made[c]: calls made by core c; the current one is the last
  interrupts,   \* interrupts[c]: RFLAGS.IF of core c's thread
  pending,      \* pending[c]: the slots whose vector core c's APIC has accepted
  hpc,          \* hpc[c]: the statement of the handler on core c, or "none"
  hslot,        \* hslot[c]: the slot the handler serves
  hfptr,        \* hfptr[c]: the function it has loaded
  asked,        \* asked[x]: history, the cores that call x names
  ran           \* ran[x][c]: history, how often core c has executed call x

slots == <<next, lock, fptr, data, unfinished>>
callers == <<pc, slot, policy, target, made, interrupts, asked>>
handlers == <<hpc, hslot, hfptr>>
vars == <<slots, callers, pending, handlers, ran>>

Init == /\ next = 0
        /\ lock = [s \in Slots |-> FALSE]
        /\ fptr = [s \in Slots |-> NoCall]
        /\ data = [s \in Slots |-> NoCall]
        /\ unfinished = [s \in Slots |-> 0]
        /\ pc = [c \in Cores |-> "idle"]
        /\ slot = [c \in Cores |-> 0]
        /\ policy = [c \in Cores |-> "all"]
        /\ target = [c \in Cores |-> c]
        /\ made = [c \in Cores |-> 0]
        /\ interrupts = [c \in Cores |-> TRUE]
        /\ pending = [c \in Cores |-> {}]
        /\ hpc = [c \in Cores |-> "none"]
        /\ hslot = [c \in Cores |-> 0]
        /\ hfptr = [c \in Cores |-> NoCall]
        /\ asked = [x \in Calls |-> {}]
        /\ ran = [x \in Calls |-> [c \in Cores |-> 0]]

Current(c) == Call(c, made[c])

\* The cores that policy p of core c with target t has executing the function.
Named(p, c, t) == CASE p \in {"all", "all_no_wait"} -> Cores
                    [] p \in {"others", "others_no_wait"} -> Cores \ {c}
                    [] OTHER -> {t}

------------------------------------------------------------------------------
(* The calling thread; it does not run while its core is in a handler.     *)

Goto(c, from, to) == hpc[c] = "none" /\ pc[c] = from /\ pc' = [pc EXCEPT ![c] = to]

BeginCall(c, p, t) ==
  /\ made[c] < MaxCalls
  /\ t = c \/ p \in {"specific", "specific_no_wait"}
  /\ Goto(c, "idle", "fetch")
  /\ made' = [made EXCEPT ![c] = @ + 1]
  /\ policy' = [policy EXCEPT ![c] = p]
  /\ target' = [target EXCEPT ![c] = t]
  /\ asked' = [asked EXCEPT ![Call(c, made[c] + 1)] = Named(p, c, t)]
  /\ \E f \in CallerFlags : interrupts' = [interrupts EXCEPT ![c] = f]
  /\ UNCHANGED <<slots, slot, pending, handlers, ran>>

FetchSlot(c) == /\ Goto(c, "fetch", "lock")
                /\ slot' = [slot EXCEPT ![c] = next]
                /\ next' = (next + 1) % NSlots
                /\ UNCHANGED <<lock, fptr, data, unfinished, policy, target, made,
                               interrupts, asked, pending, handlers, ran>>

\* No interrupt for slot s is under way.
Quiet(s) == \A d \in Cores : s \notin pending[d] /\ ~(hpc[d] # "none" /\ hslot[d] = s)

LockSlot(c) == /\ ~lock[slot[c]]
               /\ Punctual => Quiet(slot[c])
               /\ Goto(c, "lock", "fptr")
               /\ lock' = [lock EXCEPT ![slot[c]] = TRUE]
               /\ UNCHANGED <<next, fptr, data, unfinished, slot, policy, target, made,
                              interrupts, asked, pending, handlers, ran>>

SetFptr(c) == /\ Goto(c, "fptr", "data")
              /\ fptr' = [fptr EXCEPT ![slot[c]] = Current(c)]
              /\ UNCHANGED <<next, lock, data, unfinished, slot, policy, target, made,
                             interrupts, asked, pending, handlers, ran>>

SetData(c) == /\ Goto(c, "data", "count")
              /\ data' = [data EXCEPT ![slot[c]] = Current(c)]
              /\ UNCHANGED <<next, lock, fptr, unfinished, slot, policy, target, made,
                             interrupts, asked, pending, handlers, ran>>

\* Fault: the caller of others is counted among them.
SetUnfinishedWithSelf(c) ==
  /\ Goto(c, "count", "send")
  /\ unfinished' = [unfinished EXCEPT ![slot[c]] =
                      CASE policy[c] \in {"all", "others"} -> Cardinality(Cores)
                        [] policy[c] = "specific" -> 1
                        [] OTHER -> 0]
  /\ UNCHANGED <<next, lock, fptr, data, slot, policy, target, made,
                 interrupts, asked, pending, handlers, ran>>

SetUnfinished(c) ==
  /\ Goto(c, "count", "send")
  /\ unfinished' = [unfinished EXCEPT ![slot[c]] =
                      CASE policy[c] = "all" -> Cardinality(Cores)
                        [] policy[c] = "others" -> Cardinality(Cores) - 1
                        [] policy[c] = "specific" -> 1
                        [] OTHER -> 0]
  /\ UNCHANGED <<next, lock, fptr, data, slot, policy, target, made,
                 interrupts, asked, pending, handlers, ran>>

\* Faults: a broadcast reaches the caller too; a no_wait call clears the slot it leaves;
\* the switch has no case for others_no_wait.
SendToSelfToo(c) ==
  LET addressees == IF policy[c] \in {"specific", "specific_no_wait"}
                    THEN {target[c]} ELSE Cores
  IN /\ Goto(c, "send", CASE policy[c] \in {"all", "all_no_wait"} -> "self"
                          [] policy[c] \in {"others", "specific"} -> "wait"
                          [] OTHER -> "unlock")
     /\ pending' = [d \in Cores |-> IF d \in addressees \cap Online
                                    THEN pending[d] \cup {slot[c]} ELSE pending[d]]
     /\ UNCHANGED <<slots, slot, policy, target, made, interrupts, asked, handlers, ran>>

SendIncompletely(c) ==
  LET addressees == CASE policy[c] \in {"specific", "specific_no_wait"} -> {target[c]}
                      [] policy[c] = "others_no_wait" -> {}
                      [] OTHER -> Cores \ {c}
  IN /\ Goto(c, "send", CASE policy[c] \in {"all", "all_no_wait"} -> "self"
                          [] policy[c] \in {"others", "specific"} -> "wait"
                          [] OTHER -> "unlock")
     /\ pending' = [d \in Cores |-> IF d \in addressees \cap Online
                                    THEN pending[d] \cup {slot[c]} ELSE pending[d]]
     /\ UNCHANGED <<slots, slot, policy, target, made, interrupts, asked, handlers, ran>>

\* broadcast(others) or ipi(target): the APIC of every online addressee accepts the vector.
Send(c) ==
  LET addressees == IF policy[c] \in {"specific", "specific_no_wait"}
                    THEN {target[c]} ELSE Cores \ {c}
  IN /\ Goto(c, "send", CASE policy[c] \in {"all", "all_no_wait"} -> "self"
                          [] policy[c] \in {"others", "specific"} -> "wait"
                          [] OTHER -> "unlock")
     /\ pending' = [d \in Cores |-> IF d \in addressees \cap Online
                                    THEN pending[d] \cup {slot[c]} ELSE pending[d]]
     /\ UNCHANGED <<slots, slot, policy, target, made, interrupts, asked, handlers, ran>>

\* all, all_no_wait: fptr(data) on the calling core
RunSelf(c) == /\ Goto(c, "self", IF policy[c] = "all" THEN "selfDone" ELSE "unlock")
              /\ ran' = [ran EXCEPT ![Current(c)][c] = @ + 1]
              /\ UNCHANGED <<slots, slot, policy, target, made, interrupts, asked,
                             pending, handlers>>

SelfDone(c) == /\ Goto(c, "selfDone", "wait")
               /\ unfinished' = [unfinished EXCEPT ![slot[c]] = @ - 1]
               /\ UNCHANGED <<next, lock, fptr, data, slot, policy, target, made,
                              interrupts, asked, pending, handlers, ran>>

\* Fault: the wait ends one core early.
WaitDoneEarly(c) == /\ unfinished[slot[c]] \in {0, 1}
                    /\ Goto(c, "wait", "clearFptr")
                    /\ UNCHANGED <<slots, slot, policy, target, made, interrupts, asked,
                                   pending, handlers, ran>>

WaitDone(c) == /\ unfinished[slot[c]] = 0
               /\ Goto(c, "wait", "clearFptr")
               /\ UNCHANGED <<slots, slot, policy, target, made, interrupts, asked,
                              pending, handlers, ran>>

ClearFptr(c) == /\ Goto(c, "clearFptr", "clearData")
                /\ fptr' = [fptr EXCEPT ![slot[c]] = NoCall]
                /\ UNCHANGED <<next, lock, data, unfinished, slot, policy, target, made,
                               interrupts, asked, pending, handlers, ran>>

ClearData(c) == /\ Goto(c, "clearData", "unlock")
                /\ data' = [data EXCEPT ![slot[c]] = NoCall]
                /\ UNCHANGED <<next, lock, fptr, unfinished, slot, policy, target, made,
                               interrupts, asked, pending, handlers, ran>>

\* The guard is destroyed and the caller's own interrupt section, if any, ends.
UnlockSlot(c) == /\ Goto(c, "unlock", "idle")
                 /\ lock' = [lock EXCEPT ![slot[c]] = FALSE]
                 /\ interrupts' = [interrupts EXCEPT ![c] = TRUE]
                 /\ UNCHANGED <<next, fptr, data, unfinished, slot, policy, target, made,
                                asked, pending, handlers, ran>>

CallStep(c) == \/ FetchSlot(c) \/ LockSlot(c) \/ SetFptr(c) \/ SetData(c)
               \/ SetUnfinished(c) \/ Send(c) \/ RunSelf(c) \/ SelfDone(c) \/ WaitDone(c)
               \/ ClearFptr(c) \/ ClearData(c) \/ UnlockSlot(c)

------------------------------------------------------------------------------
(* The handler, _interrupt_handler, on top of the thread of its core.      *)

HGoto(d, from, to) == hpc[d] = from /\ hpc' = [hpc EXCEPT ![d] = to]

\* Which of several pending vectors is taken first is left open.
Interrupt(d, s) == /\ interrupts[d] /\ s \in pending[d]
                   /\ HGoto(d, "none", "load")
                   /\ pending' = [pending EXCEPT ![d] = @ \ {s}]
                   /\ hslot' = [hslot EXCEPT ![d] = s]
                   /\ UNCHANGED <<slots, callers, hfptr, ran>>

LoadFptr(d) == /\ HGoto(d, "load", "run")
               /\ hfptr' = [hfptr EXCEPT ![d] = fptr[hslot[d]]]
               /\ UNCHANGED <<slots, callers, pending, hslot, ran>>

\* The function loaded before is called with the argument the slot holds now.  A null
\* function, or one that is given the argument of another call, is a fault.
RunCall(d) == LET f == hfptr[d] IN
                IF f # NoCall /\ data[hslot[d]] = f
                THEN /\ HGoto(d, "run", "finish")
                     /\ ran' = [ran EXCEPT ![f][d] = @ + 1]
                     /\ UNCHANGED <<slots, callers, pending, hslot, hfptr>>
                ELSE /\ HGoto(d, "run", "fault")
                     /\ UNCHANGED <<slots, callers, pending, hslot, hfptr, ran>>

\* --unfinished_cores, end of interrupt, iretq
Finish(d) == /\ HGoto(d, "finish", "none")
             /\ unfinished' = [unfinished EXCEPT ![hslot[d]] = @ - 1]
             /\ hfptr' = [hfptr EXCEPT ![d] = NoCall]
             /\ hslot' = [hslot EXCEPT ![d] = 0]
             /\ UNCHANGED <<next, lock, fptr, data, callers, pending, ran>>

HandlerStep(d) == LoadFptr(d) \/ RunCall(d) \/ Finish(d)

------------------------------------------------------------------------------
Next == \/ \E c \in Online : \/ \E p \in Policies, t \in Online : BeginCall(c, p, t)
                             \/ CallStep(c)
        \/ \E d \in Online : (\E s \in Slots : Interrupt(d, s)) \/ HandlerStep(d)

Spec == Init /\ [][Next]_vars

\* Fairness: every core keeps executing, and takes an interrupt that stays deliverable.
Fairness == \A c \in Online : /\ WF_vars(CallStep(c)) /\ WF_vars(HandlerStep(c))
                              /\ WF_vars(\E s \in Slots : Interrupt(c, s))

FairSpec == Spec /\ Fairness
------------------------------------------------------------------------------
(* Properties                                                              *)

CallPCs == {"fetch", "lock", "fptr", "data", "count", "send", "self", "selfDone", "wait"}
ReturnPCs == {"idle", "clearFptr", "clearData", "unlock"}
SentPCs == {"self", "selfDone", "wait"}
LockedPCs == (CallPCs \ {"fetch", "lock"}) \cup {"clearFptr", "clearData", "unlock"}

TypeOK == /\ next \in Slots
          /\ lock \in [Slots -> BOOLEAN]
          /\ fptr \in [Slots -> Calls \cup {NoCall}]
          /\ data \in [Slots -> Calls \cup {NoCall}]
          /\ unfinished \in [Slots -> Int]
          /\ pc \in [Cores -> CallPCs \cup ReturnPCs]
          /\ slot \in [Cores -> Slots]
          /\ policy \in [Cores -> AllPolicies]
          /\ target \in [Cores -> Cores]
          /\ made \in [Cores -> 0..MaxCalls]
          /\ interrupts \in [Cores -> BOOLEAN]
          /\ pending \in [Cores -> SUBSET Slots]
          /\ hpc \in [Cores -> {"none", "load", "run", "finish", "fault"}]
          /\ hslot \in [Cores -> Slots]
          /\ hfptr \in [Cores -> Calls \cup {NoCall}]
          /\ asked \in [Calls -> SUBSET Cores]
          /\ ran \in [Calls -> [Cores -> Nat]]

Status(x) == CASE Number(x) > made[Caller(x)] -> "unused"
               [] Number(x) = made[Caller(x)] /\ pc[Caller(x)] \in CallPCs -> "active"
               [] OTHER -> "returned"

\* A waiting parallel_execute implements RemoteCall: when it returns, every core it
\* names has executed the function, once, and none executes it later.
RC == INSTANCE RemoteCall WITH status <- [x \in Calls |-> Status(x)]
Implements == RC!Spec

\* No handler calls a null function or gives a function the argument of another call.
NoFault == \A d \in Cores : hpc[d] # "fault"

\* No call is executed twice by a core, nor by a core it does not name.
AtMostOnce == \A x \in Calls, d \in Cores : ran[x][d] <= IF d \in asked[x] THEN 1 ELSE 0

\* A parallel_execute that waits has synchronized the cores when its wait is over.
Synchronized == \A c \in Cores : pc[c] \in {"clearFptr", "clearData"} =>
                   \A d \in asked[Current(c)] : ran[Current(c)][d] > 0

\* Every call is returned from.
EveryCallReturns == \A x \in Calls : (Status(x) = "active") ~> (Status(x) = "returned")

\* Every call, waited for or not, is eventually executed by every core it names.
EveryCallRuns ==
  \A x \in Calls : (asked[x] # {}) ~> (asked[x] # {} /\ \A d \in asked[x] : ran[x][d] > 0)

------------------------------------------------------------------------------
(* The inductive invariant, for waiting policies                           *)

\* Core d has not yet executed, or not yet accounted for, what slot s holds.
ToRun(d, s) == s \in pending[d] \/ (hpc[d] \in {"load", "run"} /\ hslot[d] = s)
ToFinish(d, s) == s \in pending[d] \/ (hpc[d] # "none" /\ hslot[d] = s)

\* Core d has not executed, not accounted for, the call that core c is in.
HasToRun(c, d) == /\ d \in asked[Current(c)]
                  /\ \/ pc[c] \notin SentPCs
                     \/ d \notin Online
                     \/ d = c /\ pc[c] = "self"
                     \/ ToRun(d, slot[c])
HasToFinish(c, d) == /\ d \in asked[Current(c)]
                     /\ \/ pc[c] = "send"
                        \/ d \notin Online
                        \/ d = c /\ pc[c] \in {"self", "selfDone"}
                        \/ ToFinish(d, slot[c])

Owing(c) == {d \in Cores : HasToFinish(c, d)}

\* A slot belongs to the core inside its lock.
Owns(c, s) == pc[c] \in LockedPCs /\ slot[c] = s
SlotIsOwned == \A s \in Slots : /\ lock[s] <=> \E c \in Cores : Owns(c, s)
                                /\ \A c, d \in Cores : Owns(c, s) /\ Owns(d, s) => c = d

\* unfinished_cores is the number of cores that have still to decrement it.
CountIsOwed ==
  \A c \in Cores : pc[c] \in {"send"} \cup SentPCs =>
     unfinished[slot[c]] = Cardinality(Owing(c))

\* A slot holds its owner's call from its publication to the end of the wait.
SlotContent ==
  \A c \in Cores : /\ pc[c] \in {"data", "count", "send"} \cup SentPCs => fptr[slot[c]] = Current(c)
                   /\ pc[c] \in {"count", "send"} \cup SentPCs => data[slot[c]] = Current(c)

\* A vector is pending or served only on behalf of a call that waits for that core,
\* never both at once, and the function a handler has loaded is the one it serves.
Awaits(c, d) == /\ pc[c] \in SentPCs
                /\ d \in Online /\ d \in asked[Current(c)]
                /\ d # c \/ policy[c] = "specific"
InFlight == \A d \in Cores, s \in Slots :
              ToFinish(d, s) => \E c \in Cores : slot[c] = s /\ Awaits(c, d)
OneVector == \A d \in Cores : hpc[d] # "none" => hslot[d] \notin pending[d]
Loaded == \A d \in Cores : hpc[d] \in {"run", "finish"} => hfptr[d] = fptr[hslot[d]]

\* The arguments of the calls in progress.
Arguments ==
  \A c \in Cores : /\ c \notin Online => pc[c] = "idle"
                   /\ pc[c] # "idle" => /\ made[c] > 0
                                        /\ policy[c] \in WaitingPolicies
                                        /\ target[c] \in Online
                                        /\ asked[Current(c)] = Named(policy[c], c, target[c])
                   /\ pc[c] \in {"self", "selfDone"} => policy[c] = "all"

\* What has been executed.
RanExactly ==
  \A x \in Calls : \A d \in Cores :
    ran[x][d] = IF \/ Status(x) = "unused" \/ d \notin asked[x]
                   \/ Status(x) = "active" /\ HasToRun(Caller(x), d)
                THEN 0 ELSE 1

IInv == /\ TypeOK /\ NoFault /\ SlotIsOwned /\ CountIsOwed /\ SlotContent
        /\ InFlight /\ OneVector /\ Loaded /\ Arguments /\ RanExactly
==============================================================================
