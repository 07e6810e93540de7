-------------------------- MODULE RecursiveSpinlock --------------------------
(***************************************************************************)
(* utils::recursive_spinlock (src/kernel/utils/spinlock.h).  A counter and *)
(* an owner, each an atomic of its own, are read and written by lock() and *)
(* unlock() while they hold an inner test-and-set spinlock.  The console,  *)
(* the timers and every chunk of a frame stack are guarded by one.         *)
(*                                                                         *)
(* Every access to an atomic is a step of its own.  The clients are RAII   *)
(* guards (utils::unique_lock): a core unlocks only what it has locked,    *)
(* and may nest guards.                                                    *)
(***************************************************************************)
EXTENDS Naturals

CONSTANTS Cores,      \* the processor cores; processor::id() names one
          BootCore,   \* the core whose id is 0, the initial value of _owner
          MaxDepth    \* bound: guards nested by one core

ASSUME CoresAssumption == /\ BootCore \in Cores
                          /\ MaxDepth \in Nat \ {0}

VARIABLES inner,   \* _inner_lock._lock
          count,   \* _count
          owner,   \* _owner
          pc,      \* pc[c]: the statement core c is about to execute
          held     \* held[c]: the guards live on the stack of core c

vars == <<inner, count, owner, pc, held>>

Init == /\ inner = FALSE
        /\ count = 0
        /\ owner = BootCore
        /\ pc = [c \in Cores |-> "client"]
        /\ held = [c \in Cores |-> 0]

Goto(c, from, to) == pc[c] = from /\ pc' = [pc EXCEPT ![c] = to]

------------------------------------------------------------------------------
(* The inner spinlock.  A failed exchange writes back the value it read,   *)
(* so that only the successful one is a step.                              *)

\* Fault: the inner lock is tested and set without waiting for it.
ExchangeInnerWithoutWaiting(c, from, to) ==
  /\ inner' = TRUE
  /\ Goto(c, from, to)
  /\ UNCHANGED <<count, owner, held>>

ExchangeInner(c, from, to) ==
  /\ ~inner
  /\ inner' = TRUE
  /\ Goto(c, from, to)
  /\ UNCHANGED <<count, owner, held>>

ReleaseInner(c, from, to) ==
  /\ Goto(c, from, IF inner THEN to ELSE "panic")   \* unlocking it unlocked
  /\ inner' = FALSE
  /\ UNCHANGED <<count, owner>>

------------------------------------------------------------------------------
(* lock()                                                                  *)

BeginLock(c) == /\ held[c] < MaxDepth
                /\ Goto(c, "client", "lock")
                /\ UNCHANGED <<inner, count, owner, held>>

LockInner(c) == ExchangeInner(c, "lock", "testCount")

TestCount(c) == /\ Goto(c, "testCount", IF count = 0 THEN "claim" ELSE "testOwner")
                /\ UNCHANGED <<inner, count, owner, held>>

\* Fault: the new owner is not recorded.
ClaimWithoutOwner(c) == /\ Goto(c, "claim", "addCount")
                        /\ UNCHANGED <<inner, count, owner, held>>

Claim(c) == /\ Goto(c, "claim", "addCount")
            /\ owner' = c
            /\ UNCHANGED <<inner, count, held>>

\* Fault: a taken lock is entered without asking who owns it.
TestOwnerIgnored(c) == /\ Goto(c, "testOwner", "addCount")
                       /\ UNCHANGED <<inner, count, owner, held>>

TestOwner(c) == /\ Goto(c, "testOwner", IF owner = c THEN "addCount" ELSE "giveUp")
                /\ UNCHANGED <<inner, count, owner, held>>

\* Fault: a nested acquisition sets the count instead of incrementing it.
AddCountBySetting(c) == /\ Goto(c, "addCount", "locked")
                        /\ count' = 1
                        /\ UNCHANGED <<inner, owner, held>>

AddCount(c) == /\ Goto(c, "addCount", "locked")
               /\ count' = count + 1
               /\ UNCHANGED <<inner, owner, held>>

Locked(c) == /\ ReleaseInner(c, "locked", "client")
             /\ held' = [held EXCEPT ![c] = @ + 1]

\* Fault: the inner lock is kept across the pause of a retry.
GiveUpKeepingInner(c) == /\ Goto(c, "giveUp", "testCount")
                         /\ UNCHANGED <<inner, count, owner, held>>

GiveUp(c) == /\ ReleaseInner(c, "giveUp", "lock")
             /\ UNCHANGED held

------------------------------------------------------------------------------
(* unlock().  A decrement of a zero count, or one by a core that is not    *)
(* the owner, is the PANIC "invalid unlock on recursive spinlock!".        *)

BeginUnlock(c) == /\ held[c] > 0
                  /\ Goto(c, "client", "unlock")
                  /\ held' = [held EXCEPT ![c] = @ - 1]
                  /\ UNCHANGED <<inner, count, owner>>

UnlockInner(c) == ExchangeInner(c, "unlock", "subCount")

SubCount(c) == /\ Goto(c, "subCount", IF count = 0 THEN "panic" ELSE "testUnlocker")
               /\ count' = IF count = 0 THEN 0 ELSE count - 1
               /\ UNCHANGED <<inner, owner, held>>

TestUnlocker(c) == /\ Goto(c, "testUnlocker", IF owner = c THEN "unlocked" ELSE "panic")
                   /\ UNCHANGED <<inner, count, owner, held>>

Unlocked(c) == /\ ReleaseInner(c, "unlocked", "client")
               /\ UNCHANGED held

------------------------------------------------------------------------------
LockStep(c) == \/ LockInner(c) \/ TestCount(c) \/ Claim(c) \/ TestOwner(c)
               \/ AddCount(c) \/ Locked(c) \/ GiveUp(c)

UnlockStep(c) == UnlockInner(c) \/ SubCount(c) \/ TestUnlocker(c) \/ Unlocked(c)

Next == \E c \in Cores :
          BeginLock(c) \/ BeginUnlock(c) \/ LockStep(c) \/ UnlockStep(c)

Spec == Init /\ [][Next]_vars
------------------------------------------------------------------------------
(* Fairness.  A core keeps executing (no interrupt handler or failure is   *)
(* modelled here); the cache coherence protocol does not refuse the        *)
(* exchange of one core for ever while the inner lock keeps becoming free; *)
(* and no core nests guards for ever: its outermost guard is destroyed.    *)

Fairness == \A c \in Cores : /\ WF_vars(LockStep(c)) /\ WF_vars(UnlockStep(c))
                             /\ SF_vars(LockInner(c)) /\ SF_vars(UnlockInner(c))
                             /\ WF_vars(BeginUnlock(c)) /\ SF_vars(BeginUnlock(c) /\ held[c] = 1)

FairSpec == Spec /\ Fairness

------------------------------------------------------------------------------
(* Properties                                                              *)

LockPCs == {"lock", "testCount", "claim", "testOwner", "addCount", "locked", "giveUp"}
UnlockPCs == {"unlock", "subCount", "testUnlocker", "unlocked"}

\* The types of the lock's three words and of the clients' state.
TypeOK == /\ inner \in BOOLEAN
          /\ count \in Nat
          /\ owner \in Cores
          /\ pc \in [Cores -> {"client", "panic"} \cup LockPCs \cup UnlockPCs]
          /\ held \in [Cores -> Nat]

\* The acquisitions of core c that count stands for: the guards that exist, one
\* that lock() has counted, and one whose unlock() has not been counted yet.
Guards(c) == IF pc[c] \in {"locked", "unlock", "subCount"} THEN held[c] + 1 ELSE held[c]

\* Two cores are never both inside the scope of a LOCK() of one recursive_spinlock,
\* although _count and _owner are separate atomics and _owner is stale when free.
MutualExclusion == \A c, d \in Cores : held[c] > 0 /\ held[d] > 0 => c = d

\* No client that only uses guards reaches a PANIC of recursive_spinlock::unlock
\* or of the inner spinlock::unlock, however the cores interleave.
NoPanic == \A c \in Cores : pc[c] # "panic"

\* _count is the number of acquisitions of the core _owner names, and no other core
\* has any: a nested unlock can neither free the lock early nor leave it taken.
CountIsGuards == \A c \in Cores : Guards(c) = IF c = owner THEN count ELSE 0

\* The inner lock is taken exactly while one core is inside lock() or unlock().
InnerPCs == (LockPCs \ {"lock"}) \cup (UnlockPCs \ {"unlock"})
InnerIsExclusive == /\ inner <=> \E c \in Cores : pc[c] \in InnerPCs
                    /\ \A c, d \in Cores : pc[c] \in InnerPCs /\ pc[d] \in InnerPCs => c = d

\* What a core has read under the inner lock is still true when it acts on it.
ReadsAreFresh == \A c \in Cores : /\ pc[c] = "claim" => count = 0
                                  /\ pc[c] \in {"addCount", "testUnlocker"} => owner = c

\* The inductive invariant: the guards are counted right because the inner lock is
\* exclusive and nothing read under it goes stale.
IInv == TypeOK /\ NoPanic /\ CountIsGuards /\ InnerIsExclusive /\ ReadsAreFresh

\* recursive_spinlock implements the reentrant lock: an acquisition takes effect at
\* ++_count, a release at _count--, and every other step is invisible.
RL == INSTANCE ReentrantLock WITH depth <- [c \in Cores |-> Guards(c)]
Implements == RL!Spec

\* Cores that retry do not keep the lock from being handed over: while a core waits
\* for a lock it does not hold, some core completes an outermost acquisition.
HandedOver == \A c \in Cores : (pc[c] = "lock" /\ held[c] = 0)
                 ~> (\E d \in Cores : pc[d] = "locked" /\ held[d] = 0)
==============================================================================
