-------------------------- MODULE IrqSpinlockProofs --------------------------
(***************************************************************************)
(* Proofs about IrqSpinlock for every set of cores and every ranked set of *)
(* locks: the invariant IInv is inductive; mutual exclusion between all    *)
(* threads and handlers, the absence of self-deadlocks and the restoring   *)
(* of the interrupt flag follow.                                           *)
(***************************************************************************)
EXTENDS IrqSpinlock, TLAPS

LEMMA AnyLockIsALock == AnyLock \in Locks
BY LocksAssumption DEF AnyLock

\* What the proofs use of frames: one per core and context.
LEMMA FramesArePairs ==
  /\ \A k \in Frames : Core(k) \in Cores /\ Context(k) \in {"thread", "handler"}
  /\ \A j, k \in Frames : Core(j) = Core(k) /\ Context(j) = Context(k) => j = k
BY DEF Frames, Contexts, Core, Context

\* IInv holds at boot: no section, no handler, all flags clear.
LEMMA InitIInv == Init => IInv
<1> SUFFICES ASSUME Init PROVE IInv
  OBVIOUS
<1> USE FramesArePairs DEF Init
<1>1. TypeOK /\ NoPanic
  BY AnyLockIsALock DEF TypeOK, NoPanic
<1>2. MutualExclusion /\ TakenIsHeld
  BY DEF MutualExclusion, TakenIsHeld
<1>3. Nested /\ Suspended /\ OutermostEnables
  BY DEF Nested, Suspended, OutermostEnables, Running
<1>4. FlagIsClear
  BY DEF FlagIsClear, Base
<1> QED
  BY <1>1, <1>2, <1>3, <1>4 DEF IInv

\* Every step of a frame or of a core preserves IInv.
LEMMA NextIInv == IInv /\ [Next]_vars => IInv'
<1> SUFFICES ASSUME IInv, [Next]_vars PROVE IInv'
  OBVIOUS
<1> USE LocksAssumption, AnyLockIsALock, FramesArePairs
    DEF IInv, TypeOK, NoPanic, MutualExclusion, TakenIsHeld, Nested, Suspended,
        FlagIsClear, OutermostEnables, Base, Above, Goto, Running
<1>1. ASSUME NEW k \in Frames, NEW l \in Locks, Enter(k, l) PROVE IInv'
  BY <1>1 DEF Enter
<1>2. ASSUME NEW k \in Frames, SaveFlags(k) PROVE IInv'
  BY <1>2 DEF SaveFlags
<1>3. ASSUME NEW k \in Frames, Cli(k) PROVE IInv'
  BY <1>3 DEF Cli
<1>4. ASSUME NEW k \in Frames, NEW l \in Locks, EnterBare(k, l) PROVE IInv'
  BY <1>4 DEF EnterBare
<1>5. ASSUME NEW k \in Frames, Lock(k) PROVE IInv'
  <2>1. TypeOK' /\ NoPanic'
    BY <1>5 DEF Lock
  <2>2. MutualExclusion'
    <3> HIDE DEF Nested, Suspended, FlagIsClear, OutermostEnables
    <3>1. \A j \in Frames : at[k] \notin held[j]
      BY <1>5 DEF Lock
    <3>2. \A j \in Frames \ {k} : held'[j] = held[j]
      BY <1>5 DEF Lock
    <3>3. held'[k] = held[k] \cup {at[k]}
      BY <1>5 DEF Lock
    <3> SUFFICES ASSUME NEW i \in Frames, NEW j \in Frames, NEW l \in held'[i], l \in held'[j]
                 PROVE i = j
      OBVIOUS
    <3>4. CASE l = at[k]
      BY <3>1, <3>2, <3>4
    <3>5. CASE l # at[k]
      <4>1. l \in held[i] /\ l \in held[j]
        BY <3>2, <3>3, <3>5
      <4> QED
        BY <4>1
    <3> QED
      BY <3>4, <3>5
  <2>3. TakenIsHeld'
    BY <1>5 DEF Lock
  <2>4. Nested'
    BY <1>5 DEF Lock
  <2>5. Suspended'
    BY <1>5 DEF Lock
  <2>6. FlagIsClear'
    <3>1. held'[k] # {}
      BY <1>5 DEF Lock
    <3>2. \A j \in Frames \ {k} : held'[j] = held[j] /\ pc'[j] = pc[j]
      BY <1>5 DEF Lock
    <3>3. ~interrupts[Core(k)]
      BY <1>5 DEF Lock
    <3> HIDE DEF Nested, Suspended, OutermostEnables, TakenIsHeld, MutualExclusion
    <3> QED
      BY <1>5, <3>1, <3>2, <3>3 DEF Lock
  <2>7. OutermostEnables'
    <3>1. \A m \in held[k] : m \in Nat /\ at[k] \in Nat /\ m < at[k]
      BY <1>5 DEF Lock
    <3>2. \A l \in held'[k] : enable'[k][l] <=> (Base(k) /\ \A m \in held'[k] : l <= m)
      <4>1. held'[k] = held[k] \cup {at[k]} /\ enable'[k] = enable[k] /\ at[k] \in Nat
        <5> HIDE DEF Nested, Suspended, FlagIsClear, OutermostEnables, TakenIsHeld,
                     MutualExclusion
        <5> QED
          BY <1>5 DEF Lock
      <4>2. enable[k][at[k]] <=> (Base(k) /\ held[k] = {})
        BY <1>5 DEF Lock
      <4>3. held[k] = {} <=> \A m \in held'[k] : at[k] <= m
        <5>1. ASSUME held[k] = {} PROVE \A m \in held'[k] : at[k] <= m
          BY <4>1, <5>1
        <5>2. ASSUME NEW m \in held[k] PROVE ~(at[k] <= m) /\ m \in held'[k]
          BY <3>1, <4>1
        <5> QED
          BY <5>1, <5>2
      <4>4. ASSUME NEW l \in held[k]
            PROVE (\A m \in held[k] : l <= m) <=> (\A m \in held'[k] : l <= m)
        <5>1. l <= at[k]
          BY <3>1
        <5> QED
          BY <4>1, <5>1
      <4>5. \A l \in held[k] : enable[k][l] <=> (Base(k) /\ \A m \in held[k] : l <= m)
        OBVIOUS
      <4> HIDE DEF Base
      <4>6. CASE held[k] = {}
        BY <4>1, <4>2, <4>3, <4>6
      <4>7. CASE held[k] # {}
        <5>1. ~enable'[k][at[k]] /\ ~(\A m \in held'[k] : at[k] <= m)
          BY <4>1, <4>2, <4>3, <4>7
        <5>2. \A l \in held[k] : enable'[k][l] <=> (Base(k) /\ \A m \in held'[k] : l <= m)
          BY <4>1, <4>4, <4>5
        <5>3. \A l \in held'[k] : l \in held[k] \/ l = at[k]
          BY <4>1
        <5> SUFFICES ASSUME NEW l \in held'[k]
                     PROVE  enable'[k][l] <=> (Base(k) /\ \A m \in held'[k] : l <= m)
          OBVIOUS
        <5>4. CASE l = at[k]
          BY <5>1, <5>4
        <5>5. CASE l \in held[k]
          BY <5>2, <5>5
        <5> QED
          BY <5>3, <5>4, <5>5
      <4> QED
        BY <4>6, <4>7
    <3>3. \A j \in Frames \ {k} : /\ held'[j] = held[j] /\ pc'[j] = pc[j]
                                 /\ at'[j] = at[j] /\ enable'[j] = enable[j]
      BY <1>5 DEF Lock
    <3> QED
      BY <1>5, <3>2, <3>3 DEF Lock
  <2> QED
    BY <2>1, <2>2, <2>3, <2>4, <2>5, <2>6, <2>7
<1>6. ASSUME NEW k \in Frames, NEW l \in Locks, Unlock(k, l) PROVE IInv'
  <2>1. TypeOK' /\ NoPanic'
    BY <1>6 DEF Unlock
  <2>2. MutualExclusion'
    BY <1>6 DEF Unlock
  <2>3. TakenIsHeld'
    BY <1>6 DEF Unlock
  <2>4. Nested'
    BY <1>6 DEF Unlock
  <2>5. Suspended'
    BY <1>6 DEF Unlock
  <2>6. FlagIsClear'
    BY <1>6 DEF Unlock
  <2>7. OutermostEnables'
    <3>1. \A m \in held'[k] : m \in held[k] /\ m \in Nat /\ l \in Nat /\ m < l
      BY <1>6 DEF Unlock
    <3>2. \A i \in held'[k] : enable'[k][i] <=> (Base(k) /\ \A m \in held'[k] : i <= m)
      BY <1>6, <3>1 DEF Unlock
    <3>3. enable[k][l] <=> (Base(k) /\ held'[k] = {})
      <4>1. held'[k] = held[k] \ {l} /\ l \in held[k] /\ l \in Nat
        BY <1>6 DEF Unlock
      <4>2. held'[k] = {} <=> \A m \in held[k] : l <= m
        BY <3>1, <4>1
      <4>3. enable[k][l] <=> (Base(k) /\ \A m \in held[k] : l <= m)
        BY <4>1
      <4> HIDE DEF Base
      <4> QED
        BY <4>2, <4>3
    <3>4. \A j \in Frames \ {k} : /\ held'[j] = held[j] /\ pc'[j] = pc[j]
                                 /\ at'[j] = at[j] /\ enable'[j] = enable[j]
      BY <1>6 DEF Unlock
    <3> QED
      BY <1>6, <3>2, <3>3, <3>4 DEF Unlock
  <2> QED
    BY <2>1, <2>2, <2>3, <2>4, <2>5, <2>6, <2>7
<1>7. ASSUME NEW k \in Frames, Sti(k) PROVE IInv'
  BY <1>7 DEF Sti
<1>8. ASSUME NEW k \in Frames, BootSti(k) PROVE IInv'
  BY <1>8 DEF BootSti
<1>9. ASSUME NEW k \in Frames, Interrupt(k) PROVE IInv'
  BY <1>9 DEF Interrupt
<1>10. ASSUME NEW k \in Frames, Return(k) PROVE IInv'
  BY <1>10 DEF Return
<1>11. CASE UNCHANGED vars
  BY <1>11 DEF vars
<1> QED
  <2> HIDE DEF IInv
  <2> QED
    BY <1>1, <1>2, <1>3, <1>4, <1>5, <1>6, <1>7, <1>8, <1>9, <1>10, <1>11
       DEF Next, Section

\* The inductive invariant of the INTL(); LOCK() discipline.
THEOREM Invariance == Spec => []IInv
BY InitIInv, NextIInv, PTL DEF Spec

\* Types, in every reachable state.
THEOREM TypeCorrectness == Spec => []TypeOK
<1>1. IInv => TypeOK
  BY DEF IInv
<1> QED
  BY <1>1, Invariance, PTL

\* No two frames of the machine are inside sections of one lock.
THEOREM MutualExclusionHolds == Spec => []MutualExclusion
<1>1. IInv => MutualExclusion
  BY DEF IInv
<1> QED
  BY <1>1, Invariance, PTL

\* No handler runs on top of a section of its own core, so none waits for it.
THEOREM NoSelfDeadlockHolds == Spec => []NoSelfDeadlock
<1>1. IInv => NoSelfDeadlock
  BY DEF IInv, Suspended, NoSelfDeadlock
<1> QED
  BY <1>1, Invariance, PTL

\* Sections and handlers give the interrupt flag back.
THEOREM FlagRestoredHolds == Spec => []FlagRestored
<1>1. IInv => FlagRestored
  BY DEF IInv, FlagIsClear, FlagRestored, Base
<1> QED
  BY <1>1, Invariance, PTL
==============================================================================
