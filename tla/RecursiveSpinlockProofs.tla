----------------------- MODULE RecursiveSpinlockProofs -----------------------
(***************************************************************************)
(* Proofs about RecursiveSpinlock for every set of cores and every nesting *)
(* depth.  IInv is inductive; mutual exclusion, the absence of a PANIC and *)
(* the refinement of ReentrantLock follow from it.                         *)
(***************************************************************************)
EXTENDS RecursiveSpinlock, TLAPS

\* IInv holds initially: no core is in the lock and the count is zero.
LEMMA InitIInv == Init => IInv
<1> SUFFICES ASSUME Init PROVE IInv
  OBVIOUS
<1> USE CoresAssumption DEF Init
<1>1. TypeOK
  BY DEF TypeOK
<1>2. \A c \in Cores : pc[c] = "client"
  OBVIOUS
<1>3. NoPanic /\ ReadsAreFresh
  BY <1>2 DEF NoPanic, ReadsAreFresh
<1>4. CountIsGuards
  BY DEF CountIsGuards, Guards
<1>5. InnerIsExclusive
  BY DEF InnerIsExclusive, InnerPCs, LockPCs, UnlockPCs
<1> QED
  BY <1>1, <1>3, <1>4, <1>5 DEF IInv

\* Every statement of lock() and unlock() preserves IInv, whichever core executes it.
LEMMA NextIInv == IInv /\ [Next]_vars => IInv'
<1> SUFFICES ASSUME IInv, [Next]_vars PROVE IInv'
  OBVIOUS
<1> USE CoresAssumption
    DEF IInv, TypeOK, NoPanic, CountIsGuards, Guards, InnerIsExclusive, InnerPCs,
        LockPCs, UnlockPCs, ReadsAreFresh, Goto
<1>1. ASSUME NEW c \in Cores, BeginLock(c) PROVE IInv'
  BY <1>1 DEF BeginLock
<1>2. ASSUME NEW c \in Cores, BeginUnlock(c) PROVE IInv'
  BY <1>2 DEF BeginUnlock
<1>3. ASSUME NEW c \in Cores, LockInner(c) PROVE IInv'
  BY <1>3 DEF LockInner, ExchangeInner
<1>4. ASSUME NEW c \in Cores, TestCount(c) PROVE IInv'
  BY <1>4 DEF TestCount
<1>5. ASSUME NEW c \in Cores, Claim(c) PROVE IInv'
  <2>1. \A d \in Cores : Guards(d) = 0
    BY <1>5 DEF Claim
  <2>2. CountIsGuards'
    BY <1>5, <2>1 DEF Claim
  <2>3. InnerIsExclusive' /\ ReadsAreFresh'
    BY <1>5 DEF Claim
  <2> QED
    BY <1>5, <2>2, <2>3 DEF Claim
<1>6. ASSUME NEW c \in Cores, TestOwner(c) PROVE IInv'
  BY <1>6 DEF TestOwner
<1>7. ASSUME NEW c \in Cores, AddCount(c) PROVE IInv'
  BY <1>7 DEF AddCount
<1>8. ASSUME NEW c \in Cores, Locked(c) PROVE IInv'
  <2>1. /\ inner /\ pc[c] = "locked" /\ pc' = [pc EXCEPT ![c] = "client"]
        /\ held' = [held EXCEPT ![c] = @ + 1]
        /\ count' = count /\ owner' = owner
    BY <1>8 DEF Locked, ReleaseInner
  <2>2. TypeOK' /\ NoPanic'
    <3>1. inner' = FALSE
      BY <1>8 DEF Locked, ReleaseInner
    <3>2. pc' \in [Cores -> {"client", "panic"} \cup LockPCs \cup UnlockPCs]
      BY <2>1
    <3>3. held' \in [Cores -> Nat]
      BY <2>1
    <3>4. NoPanic'
      BY <2>1
    <3> QED
      BY <2>1, <3>1, <3>2, <3>3, <3>4
  <2>3. \A d \in Cores : Guards(d)' = Guards(d)
    <3>1. held'[c] = held[c] + 1 /\ pc'[c] = "client"
      BY <2>1
    <3>2. Guards(c)' = Guards(c)
      BY <2>1, <3>1
    <3>3. \A d \in Cores \ {c} : Guards(d)' = Guards(d)
      BY <2>1
    <3> QED
      BY <3>2, <3>3
  <2>4. CountIsGuards'
    <3> HIDE DEF Guards
    <3> QED
      BY <2>1, <2>3
  <2>5. InnerIsExclusive' /\ ReadsAreFresh'
    BY <1>8, <2>1 DEF Locked, ReleaseInner
  <2> QED
    BY <2>2, <2>4, <2>5
<1>9. ASSUME NEW c \in Cores, GiveUp(c) PROVE IInv'
  <2>1. /\ inner /\ inner' = FALSE /\ pc[c] = "giveUp" /\ pc' = [pc EXCEPT ![c] = "lock"]
        /\ owner' = owner /\ count' = count /\ held' = held
    BY <1>9 DEF GiveUp, ReleaseInner
  <2>2. pc'[c] = "lock" /\ \A d \in Cores \ {c} : pc'[d] = pc[d]
    BY <2>1
  <2>3. TypeOK' /\ NoPanic'
    BY <2>1
  <2>4. CountIsGuards'
    <3>1. \A d \in Cores : Guards(d)' = Guards(d)
      BY <2>1, <2>2
    <3> HIDE DEF Guards
    <3> QED
      BY <2>1, <3>1
  <2>5. InnerIsExclusive'
    BY <2>1, <2>2
  <2>6. ReadsAreFresh'
    BY <2>1, <2>2
  <2> QED
    BY <2>3, <2>4, <2>5, <2>6
<1>10. ASSUME NEW c \in Cores, UnlockInner(c) PROVE IInv'
  BY <1>10 DEF UnlockInner, ExchangeInner
<1>11. ASSUME NEW c \in Cores, SubCount(c) PROVE IInv'
  BY <1>11 DEF SubCount
<1>12. ASSUME NEW c \in Cores, TestUnlocker(c) PROVE IInv'
  BY <1>12 DEF TestUnlocker
<1>13. ASSUME NEW c \in Cores, Unlocked(c) PROVE IInv'
  BY <1>13 DEF Unlocked, ReleaseInner
<1>14. CASE UNCHANGED vars
  BY <1>14 DEF vars
<1> QED
  BY <1>1, <1>2, <1>3, <1>4, <1>5, <1>6, <1>7, <1>8, <1>9, <1>10, <1>11, <1>12,
     <1>13, <1>14 DEF Next, LockStep, UnlockStep

\* The inductive invariant of recursive_spinlock, and with it its types.
THEOREM Invariance == Spec => []IInv
BY InitIInv, NextIInv, PTL DEF Spec

\* Types of the lock's words and of its clients, in every reachable state.
THEOREM TypeCorrectness == Spec => []TypeOK
<1>1. IInv => TypeOK
  BY DEF IInv
<1> QED
  BY <1>1, Invariance, PTL

\* No two cores are inside the scope of a guard of one recursive_spinlock: each would
\* be the owner.
THEOREM MutualExclusionHolds == Spec => []MutualExclusion
<1>1. IInv => MutualExclusion
  BY DEF IInv, TypeOK, CountIsGuards, Guards, MutualExclusion
<1> QED
  BY <1>1, Invariance, PTL

\* Guards alone never reach a PANIC of unlock().
THEOREM NoPanicHolds == Spec => []NoPanic
<1>1. IInv => NoPanic
  BY DEF IInv
<1> QED
  BY <1>1, Invariance, PTL

\* A statement of lock() or unlock() is an acquisition, a release or invisible.
LEMMA StepRefines == IInv /\ [Next]_vars => [RL!Next]_RL!vars
<1> DEFINE G == [d \in Cores |-> Guards(d)]
<1> SUFFICES ASSUME IInv, [Next]_vars PROVE RL!Next \/ G' = G
  BY DEF RL!vars
<1> USE CoresAssumption DEF IInv, TypeOK, Guards, Goto
<1>1. ASSUME NEW c \in Cores,
             BeginLock(c) \/ LockInner(c) \/ TestCount(c) \/ Claim(c) \/ TestOwner(c) \/ GiveUp(c)
      PROVE G' = G
  BY <1>1 DEF BeginLock, LockInner, ExchangeInner, TestCount, Claim, TestOwner, GiveUp,
              ReleaseInner, InnerIsExclusive, InnerPCs, LockPCs, UnlockPCs
<1>2. ASSUME NEW c \in Cores, AddCount(c) PROVE RL!Acquire(c)
  <2>1. \A d \in Cores \ {c} : Guards(d) = 0
    BY <1>2 DEF AddCount, CountIsGuards, ReadsAreFresh
  <2>2. G' = [G EXCEPT ![c] = @ + 1]
    <3>1. \A d \in Cores : Guards(d)' = IF d = c THEN Guards(d) + 1 ELSE Guards(d)
      BY <1>2 DEF AddCount
    <3> QED
      BY <3>1
  <2> QED
    BY <2>1, <2>2 DEF RL!Acquire
<1>3. ASSUME NEW c \in Cores, Locked(c) \/ BeginUnlock(c) \/ UnlockInner(c)
      PROVE G' = G
  BY <1>3 DEF Locked, BeginUnlock, UnlockInner, ExchangeInner, ReleaseInner,
              InnerIsExclusive, InnerPCs, LockPCs, UnlockPCs
<1>4. ASSUME NEW c \in Cores, SubCount(c) PROVE RL!Release(c)
  <2>1. Guards(c) > 0
    BY <1>4 DEF SubCount
  <2>2. count # 0
    BY <2>1 DEF CountIsGuards
  <2>3. G' = [G EXCEPT ![c] = @ - 1]
    <3>1. \A d \in Cores : Guards(d)' = IF d = c THEN Guards(d) - 1 ELSE Guards(d)
      BY <1>4, <2>2 DEF SubCount
    <3> QED
      BY <3>1
  <2> QED
    BY <2>1, <2>3 DEF RL!Release
<1>5. ASSUME NEW c \in Cores, TestUnlocker(c) \/ Unlocked(c) PROVE G' = G
  BY <1>5 DEF TestUnlocker, Unlocked, ReleaseInner, InnerIsExclusive, InnerPCs,
              LockPCs, UnlockPCs
<1>6. CASE UNCHANGED vars
  BY <1>6 DEF vars
<1> QED
  BY <1>1, <1>2, <1>3, <1>4, <1>5, <1>6 DEF Next, LockStep, UnlockStep, RL!Next

\* recursive_spinlock implements the reentrant lock.
THEOREM Refinement == Spec => Implements
<1>1. Init => RL!Init
  BY DEF Init, RL!Init, Guards
<1> QED
  BY <1>1, StepRefines, Invariance, PTL DEF Spec, Implements, RL!Spec
==============================================================================
