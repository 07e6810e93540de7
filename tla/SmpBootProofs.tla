---------------------------- MODULE SmpBootProofs ----------------------------
(* Proofs about SmpBoot, for any number of cores and of slots.             *)
EXTENDS SmpBoot, SequenceTheorems, TLAPS

CONSTANT Ids      \* the ids that cores may have

\* processor::initialize passes the cores of the MADT, each once; with 64-bit counters their
\* number is far from the range.  Any of them may be dead.
BootAny == \E list \in Seq(Ids), gone \in SUBSET Ids :
             /\ \A j, k \in 1..Len(list) : list[j] = list[k] => j = k
             /\ Len(list) + AtOnce < Word
             /\ Boot(list, gone)

SmpSpec == SmpInit /\ [][BootAny \/ SmpNext]_smpVars

------------------------------------------------------------------------------
(* The invariant                                                           *)

\* What the array of cores holds.
Elements == [core : Ids, started : Int]

\* The array and the counters, whatever becomes of the cores.
BaseInv ==
  /\ order \in Seq(Elements)
  /\ n \in 0..Len(order) /\ booted \in Nat /\ i \in Nat
  /\ pc = "idle" => SmpInit

TypeInv ==
  /\ pc \in {"idle", "batch", "prepare", "sipi", "wait1", "sipi2", "wait2", "check", "ready"}
  /\ stacks \in Nat
  /\ slot \in [Slots -> [flag : Nat, done : BOOLEAN, stack : Nat]]
  /\ ap \in [Aps -> [do : {"wait", "signalled", "trampoline", "stack", "ap_initialize"},
                     slot : Int, stack : Nat]]
  /\ Len(order) + AtOnce < Word

\* The positions of the array, from 0, and where the current batch ends.
Positions == 0..(Len(order) - 1)
End == IF booted + AtOnce < n THEN booted + AtOnce ELSE n
At(k) == ap[Entry(k).core]
\* The batch that the boot core works on.
Current == IF pc \in {"batch", "ready", "idle"} THEN {}
           ELSE booted..((IF pc = "prepare" THEN i ELSE End) - 1)

\* How far a core is, and what its slot then says.
Stage(k) ==
  LET s == slot[k - booted]
      a == At(k)
  IN /\ Entry(k).started = k - booted /\ s.stack = k + 1
     /\ a.do # "wait" => a.slot = k - booted
     /\ a.do \in {"wait", "signalled"} => s.flag = 0 /\ ~s.done
     /\ a.do \in {"trampoline", "stack"} => s.flag = 1 /\ ~s.done
     /\ a.do = "ap_initialize" => s.flag = 1 /\ s.done
     /\ a.do \in {"stack", "ap_initialize"} => a.stack = k + 1

\* What the boot core has done for the core at position k of the batch.
Reached(k) ==
  /\ pc = "prepare" => At(k).do = "wait"
  /\ pc = "sipi2" /\ k < i => At(k).do # "wait"
  /\ pc = "wait2" => At(k).do # "wait"
  /\ pc = "check" => /\ At(k).do # "wait"
                     /\ At(k).do = "signalled" => Entry(k).core \in dead
                     /\ k < i => At(k).do = "ap_initialize"

\* As long as no core has been taken out: the array is the list, in batches.
Whole ==
  /\ \A j, k \in Positions : Entry(j).core = Entry(k).core => j = k
  /\ Aps = {Entry(k).core : k \in Positions}
  /\ Len(order) <= AtOnce => booted \in {0, AtOnce}
  /\ pc \notin {"idle", "batch", "ready"} => booted < n
  /\ pc \in {"prepare", "sipi", "sipi2", "check"} => i \in booted..End
  /\ pc \in {"wait1", "wait2"} => i = booted
  /\ pc = "ready" => n <= booted
  /\ pc = "batch" /\ booted < n => stacks = booted
  /\ pc = "prepare" => stacks = i
  /\ pc \in {"sipi", "wait1", "sipi2", "wait2", "check"} => stacks = End
  /\ \A k \in Positions : k < booted => At(k).do = "ap_initialize" /\ At(k).stack = k + 1
  /\ \A k \in Current : Stage(k) /\ Reached(k)
  /\ \A k \in Positions : k >= booted /\ k \notin Current => At(k).do = "wait"

\* After one has, with a single batch: all cores but the kept ones are out.
Failed ==
  /\ dead # {} /\ Len(order) <= AtOnce /\ pc \in {"check", "batch", "ready"}
  /\ i <= n /\ (pc # "check" => i = n /\ booted >= n)
  /\ pc = "check" => booted = n - Len(order) + Word
  /\ \A k \in 0..(i - 1) : Entry(k).core \in Aps /\ At(k).do = "ap_initialize"
  /\ Entry(i).started = i /\ slot[i].flag = 0
  /\ \A c \in Aps : /\ ap[c].slot \in Slots /\ ap[c].do # "wait"
                    /\ slot[ap[c].slot].stack = ap[c].slot + 1
                    /\ ap[c].slot = i => c \in dead /\ ap[c].do = "signalled"
                    /\ c \in Running => ap[c].stack = ap[c].slot + 1
  /\ \A c, d \in Aps : ap[c].slot = ap[d].slot => c = d

\* No core is dead, or there is one batch only.
Orderly == dead = {} \/ Len(order) <= AtOnce

Inner == TypeInv /\ IF n = Len(order) THEN Whole ELSE Failed

IInv == BaseInv /\ (Orderly => Inner)

------------------------------------------------------------------------------
(* Arithmetic                                                              *)

\* The counters of the code, which wrap.
LEMMA Wrapped ==
  ASSUME NEW a \in Int
  PROVE  /\ 0 <= a /\ a < Word => a % Word = a
         /\ Word <= a /\ a < 2 * Word => a % Word = a - Word
         /\ 0 - Word <= a /\ a < 0 => a % Word = a + Word
         /\ a % Word \in Nat
  BY SmpAssumption

\* Inside the loops over a batch nothing wraps; the slots of a batch suffice.
LEMMA Batches ==
  ASSUME BaseInv, TypeInv, n = Len(order), Whole, booted < n
  PROVE  /\ Plus(booted, AtOnce) = booted + AtOnce
         /\ InBatch <=> i < End
         /\ End \in Nat /\ booted < End /\ End <= n /\ End - booted <= AtOnce
         /\ \A k \in booted..(End - 1) : k - booted \in Slots /\ k \in Positions
         /\ \A k \in Positions : Minus(k, booted) = IF k < booted THEN k - booted + Word
                                                    ELSE k - booted
<1>1. Plus(booted, AtOnce) = booted + AtOnce
  <2>1. booted + AtOnce \in Int /\ 0 <= booted + AtOnce
    BY SmpAssumption DEF BaseInv
  <2>2. booted + AtOnce < Word
    BY SmpAssumption DEF BaseInv, TypeInv
  <2>3. (booted + AtOnce) % Word = booted + AtOnce
    BY <2>1, <2>2, Wrapped
  <2> QED
    BY <2>3 DEF Plus
<1>2. InBatch <=> i < End
  BY <1>1, SmpAssumption DEF InBatch, End, BaseInv
<1>3. End \in Nat /\ booted < End /\ End <= n /\ End - booted <= AtOnce
  BY SmpAssumption DEF End, BaseInv
<1>4. \A k \in booted..(End - 1) : k - booted \in Slots /\ k \in Positions
  BY <1>3, SmpAssumption DEF Slots, Positions, BaseInv
<1>5. \A k \in Positions : Minus(k, booted) = IF k < booted THEN k - booted + Word ELSE k - booted
  <2> SUFFICES ASSUME NEW k \in Positions
               PROVE  Minus(k, booted) = IF k < booted THEN k - booted + Word ELSE k - booted
    OBVIOUS
  <2>1. k \in Nat /\ k < Len(order) /\ Len(order) < Word
    BY SmpAssumption DEF Positions, BaseInv, TypeInv
  <2>2. booted < Word /\ booted \in Nat
    BY <2>1, SmpAssumption DEF BaseInv, TypeInv
  <2>3. k - booted \in Int
    BY <2>1, <2>2
  <2>4. CASE k < booted
    <3>1. 0 - Word <= k - booted /\ k - booted < 0
      BY <2>1, <2>2, <2>4, SmpAssumption
    <3>2. (k - booted) % Word = k - booted + Word
      BY <2>3, <3>1, Wrapped
    <3> QED
      BY <2>4, <3>2 DEF Minus
  <2>5. CASE ~(k < booted)
    <3>1. 0 <= k - booted /\ k - booted < Word
      BY <2>1, <2>2, <2>5, SmpAssumption
    <3>2. (k - booted) % Word = k - booted
      BY <2>3, <3>1, Wrapped
    <3> QED
      BY <2>5, <3>2 DEF Minus
  <2> QED
    BY <2>4, <2>5
<1> QED
  BY <1>1, <1>2, <1>3, <1>4, <1>5

\* The positions of a batch.
LEMMA CurrentIs ==
  ASSUME BaseInv, TypeInv, n = Len(order), Whole
  PROVE  \A k \in Current : /\ k \in Positions /\ k - booted \in Slots /\ booted <= k /\ k < End
                            /\ booted < n
<1> SUFFICES ASSUME NEW k \in Current
             PROVE  /\ k \in Positions /\ k - booted \in Slots /\ booted <= k /\ k < End
                    /\ booted < n
  OBVIOUS
<1>1. pc \notin {"batch", "ready", "idle"} /\ booted < n
  BY DEF Current, Whole
<1>2. k \in booted..(End - 1)
  <2>1. CASE pc = "prepare"
    BY <2>1, <1>1, Batches DEF Current, Whole, BaseInv
  <2>2. CASE pc # "prepare"
    BY <2>2, <1>1 DEF Current
  <2> QED
    BY <2>1, <2>2
<1> QED
  BY <1>1, <1>2, Batches DEF BaseInv

\* A core between its SIPI and ap_initialize is one of the batch, and uses its slot.
LEMMA Worker ==
  ASSUME BaseInv, TypeInv, n = Len(order), Whole, NEW c \in Aps,
         ap[c].do \in {"signalled", "trampoline", "stack"}
  PROVE  \E k \in Current : c = Entry(k).core /\ ap[c].slot = k - booted
<1>1. PICK k \in Positions : c = Entry(k).core
  BY DEF Whole
<1>2. At(k).do \in {"signalled", "trampoline", "stack"} /\ At(k) = ap[c]
  BY <1>1 DEF At
<1>3. k \in Nat
  BY DEF Positions
<1>4. k \in Current
  BY <1>2, <1>3 DEF Whole, BaseInv
<1> QED
  BY <1>1, <1>2, <1>4 DEF Whole, Stage


------------------------------------------------------------------------------
(* The array and the counters                                              *)

\* Every step keeps the array a list of cores, whatever becomes of the cores.
LEMMA BaseKept ==
  ASSUME BaseInv, [BootAny \/ SmpNext]_smpVars
  PROVE  BaseInv'
<1>1. CASE BootAny
  <2>1. PICK list \in Seq(Ids), gone \in SUBSET Ids : Boot(list, gone)
    BY <1>1 DEF BootAny
  <2>2. order' \in Seq(Elements) /\ Len(order') = Len(list)
    BY <2>1 DEF Boot, Elements
  <2>3. Len(list) \in Nat
    BY <2>1
  <2> QED
    BY <2>1, <2>2, <2>3 DEF Boot, BaseInv
<1>2. CASE Prepare
  <2>1. i + 1 \in 1..Len(order)
    BY <1>2 DEF Prepare, InBatch, BaseInv
  <2>2. Minus(i, booted) \in Int
    BY Wrapped DEF Minus, BaseInv
  <2>3. [order[i + 1] EXCEPT !.started = Minus(i, booted)] \in Elements
    <3>1. order[i + 1] \in Elements
      BY <2>1 DEF BaseInv
    <3> QED
      BY <2>2, <3>1 DEF Elements
  <2>4. order' = [order EXCEPT ![i + 1] = [order[i + 1] EXCEPT !.started = Minus(i, booted)]]
    BY <1>2 DEF Prepare
  <2>5. order' \in Seq(Elements) /\ Len(order') = Len(order)
    BY <2>1, <2>3, <2>4, ExceptSeq DEF BaseInv
  <2> QED
    BY <1>2, <2>5 DEF Prepare, BaseInv
<1>3. CASE CheckFailed
  <2>1. Minus(booted, 1) \in Nat
    BY Wrapped DEF Minus, BaseInv
  <2>2. n - 1 \in 0..Len(order)
    BY <1>3 DEF CheckFailed, InBatch, BaseInv
  <2>3. \A k \in 1..Len(order) : MovedUp[k] \in Elements
    <3> SUFFICES ASSUME NEW k \in 1..Len(order)
                 PROVE  MovedUp[k] \in Elements
      OBVIOUS
    <3>1. order[k] \in Elements
      BY DEF BaseInv
    <3>2. CASE k \in (i + 1)..(n - 1)
      <4>1. k + 1 \in 1..Len(order)
        BY <3>2 DEF BaseInv
      <4>2. order[k + 1] \in Elements
        BY <4>1 DEF BaseInv
      <4> QED
        BY <3>1, <3>2, <4>2 DEF MovedUp, Elements
    <3>3. CASE k \notin (i + 1)..(n - 1)
      BY <3>1, <3>3 DEF MovedUp
    <3> QED
      BY <3>2, <3>3
  <2>4. MovedUp \in Seq(Elements) /\ Len(MovedUp) = Len(order)
    <3>1. Len(order) \in Nat /\ DOMAIN MovedUp = 1..Len(order)
      BY DEF BaseInv, MovedUp
    <3>2. MovedUp \in [1..Len(order) -> Elements]
      BY <2>3 DEF MovedUp
    <3>3. Len(MovedUp) = Len(order)
      BY <3>1
    <3> QED
      BY <3>1, <3>2, <3>3, SeqDef
  <2> QED
    BY <1>3, <2>1, <2>2, <2>4 DEF CheckFailed, BaseInv
<1>4. CASE NextBatch
  BY <1>4, Wrapped, SmpAssumption DEF NextBatch, Plus, BaseInv
<1>5. CASE \/ Batch \/ Sipi \/ Sipi2 \/ Wait1 \/ Wait2 \/ CheckStarted
           \/ Leave("prepare", "sipi") \/ Leave("sipi", "wait1") \/ Leave("sipi2", "wait2")
  BY <1>5 DEF Batch, Sipi, Sipi2, Wait1, Wait2, CheckStarted, Leave, BaseInv
<1>6. CASE \E c \in Aps : ApStep(c)
  <2>1. pc # "idle"
    BY <1>6 DEF Aps, BaseInv, SmpInit
  <2> QED
    BY <1>6, <2>1 DEF ApStep, Start, LoadStack, Arrive, BaseInv
<1>7. CASE UNCHANGED smpVars
  BY <1>7 DEF smpVars, BaseInv, SmpInit
<1> QED
  BY <1>1, <1>2, <1>3, <1>4, <1>5, <1>6, <1>7 DEF SmpNext, BootStep

------------------------------------------------------------------------------
(* The boot core, as long as it has taken out no core                      *)

\* The next batch begins, or boot is over.
LEMMA BatchKeeps ==
  ASSUME BaseInv, TypeInv, n = Len(order), Whole, Batch
  PROVE  TypeInv' /\ n' = Len(order') /\ Whole'
<1>1. TypeInv' /\ n' = Len(order')
  BY DEF Batch, TypeInv, Aps, Slots
<1>2. Positions' = Positions /\ End' = End /\ Current' = {} /\ Current = {}
  BY DEF Batch, Positions, End, Current, BaseInv
<1>3. \A k \in Positions : Entry(k)' = Entry(k) /\ At(k)' = At(k)
  BY DEF Batch, Entry, At
<1>4. Aps' = Aps
  BY DEF Batch, Aps
<1>5. booted < n => booted <= End /\ End \in Nat
  BY SmpAssumption DEF End, BaseInv
<1> QED
  BY <1>1, <1>2, <1>3, <1>4, <1>5 DEF Batch, Whole, BaseInv

\* A slot and a stack for one more core of the batch.
LEMMA PrepareKeeps ==
  ASSUME BaseInv, TypeInv, n = Len(order), Whole, Prepare
  PROVE  TypeInv' /\ n' = Len(order') /\ Whole'
<1>1. booted < n /\ pc = "prepare" /\ pc' = "prepare" /\ i \in booted..End /\ i < End
  BY Batches DEF Prepare, Whole
<1>2. i \in Positions /\ i - booted \in Slots /\ Minus(i, booted) = i - booted
  BY <1>1, Batches DEF BaseInv
<1>3. i \in Nat /\ booted \in Nat /\ i + 1 \in 1..Len(order)
  BY <1>2 DEF BaseInv, Positions
<1>4. /\ slot' = [slot EXCEPT ![i - booted] = [Copied EXCEPT !.stack = stacks + 1]]
      /\ order' = [order EXCEPT ![i + 1].started = i - booted]
      /\ UNCHANGED <<n, booted, ap, dead>> /\ stacks' = stacks + 1 /\ i' = i + 1
  BY <1>2 DEF Prepare
<1>5. Len(order') = Len(order) /\ Aps' = Aps
  BY <1>4 DEF BaseInv, Aps
<1>6. TypeInv'
  <2>1. slot' \in [Slots -> [flag : Nat, done : BOOLEAN, stack : Nat]]
    <3>1. [Copied EXCEPT !.stack = stacks + 1] \in [flag : Nat, done : BOOLEAN, stack : Nat]
      <4>1. Copied \in [flag : Nat, done : BOOLEAN, stack : Nat]
        BY DEF Copied
      <4>2. stacks + 1 \in Nat
        BY DEF TypeInv
      <4> QED
        BY <4>1, <4>2
    <3> QED
      BY <1>2, <1>4, <3>1 DEF TypeInv
  <2> QED
    BY <1>1, <1>4, <1>5, <2>1 DEF TypeInv, Slots, Aps
<1>7. Positions' = Positions /\ End' = End
  BY <1>4, <1>5 DEF Positions, End
<1>8. \A k \in Positions : Entry(k).core' = Entry(k).core /\ At(k)' = At(k)
  <2> SUFFICES ASSUME NEW k \in Positions
               PROVE  Entry(k).core' = Entry(k).core /\ At(k)' = At(k)
    OBVIOUS
  <2>1. k + 1 \in 1..Len(order) /\ order[k + 1] \in Elements
    BY <1>3, ElementOfSeq DEF Positions, BaseInv
  <2>2. order'[k + 1].core = order[k + 1].core
    BY <1>3, <1>4, <2>1 DEF BaseInv, Elements
  <2> QED
    BY <1>4, <2>2 DEF Entry, At
<1>9. Current = booted..(i - 1) /\ Current' = booted..i
  BY <1>1, <1>3, <1>4 DEF Current
<1>10. \A k \in Current' : Stage(k)' /\ Reached(k)'
  <2> SUFFICES ASSUME NEW k \in Current'
               PROVE  Stage(k)' /\ Reached(k)'
    OBVIOUS
  <2>0. k \in Int /\ booted <= k /\ k <= i
    BY <1>3, <1>9
  <2>1. k \in Positions /\ k - booted \in Slots
    BY <2>0, <1>1, Batches DEF BaseInv
  <2>2. At(k).do = "wait"
    <3>1. CASE k < i
      BY <2>0, <3>1, <1>1, <1>9, <1>3 DEF Whole, Reached
    <3>2. CASE k = i
      <4>1. k \notin Current
        BY <1>9, <3>2, <1>3
      <4> QED
        BY <2>1, <2>0, <4>1 DEF Whole
    <3> QED
      BY <3>1, <3>2, <2>0, <1>3
  <2>3. Reached(k)'
    BY <1>1, <1>8, <2>1, <2>2 DEF Reached
  <2>4. CASE k < i
    <3>1. k \in Current /\ Stage(k)
      BY <2>0, <2>4, <1>9, <1>3 DEF Whole
    <3>2. slot'[k - booted] = slot[k - booted] /\ booted' = booted
      BY <2>0, <2>1, <2>4, <1>2, <1>3, <1>4 DEF TypeInv
    <3>3. Entry(k).started' = Entry(k).started
      <4>1. k + 1 \in 1..Len(order) /\ k + 1 # i + 1
        BY <2>0, <2>1, <2>4, <1>3 DEF Positions
      <4> QED
        BY <4>1, <1>4, <1>3 DEF Entry, BaseInv
    <3> QED
      BY <3>1, <3>2, <3>3, <2>3, <2>1, <1>8 DEF Stage
  <2>5. CASE k = i
    <3>1. slot'[k - booted] = [Copied EXCEPT !.stack = stacks + 1] /\ booted' = booted
      BY <2>5, <1>2, <1>4 DEF TypeInv
    <3>2. stacks = k
      BY <2>5, <1>1 DEF Whole
    <3>3. Entry(k).started' = k - booted
      BY <2>5, <1>3, <1>4 DEF Entry, BaseInv
    <3>4. At(k).do' = "wait"
      BY <2>1, <2>2, <1>8
    <3> QED
      BY <3>1, <3>2, <3>3, <3>4, <2>3 DEF Stage, Copied
  <2> QED
    BY <2>4, <2>5, <2>0, <1>3
<1>11. \A k \in Positions : k >= booted /\ k \notin Current' => At(k).do' = "wait"
  BY <1>8, <1>9, <1>3 DEF Whole, Positions
<1>12. i' \in booted'..End' /\ stacks' = i'
  <2>1. End \in Nat
    BY <1>1, Batches
  <2> QED
    BY <1>1, <1>3, <1>4, <1>7, <2>1 DEF Whole
<1>13. Aps = {Entry(k).core' : k \in Positions}
  BY <1>8 DEF Whole
<1>14. \A j, k \in Positions : Entry(j).core' = Entry(k).core' => j = k
  BY <1>8 DEF Whole
<1>15. \A k \in Positions : k < booted => At(k).do' = "ap_initialize" /\ At(k).stack' = k + 1
  BY <1>8 DEF Whole
<1> QED
  BY <1>1, <1>4, <1>5, <1>6, <1>7, <1>10, <1>11, <1>12, <1>13, <1>14, <1>15 DEF Whole


\* The boot core goes from one loop over the batch to the next.
LEMMA LeaveKeeps ==
  ASSUME BaseInv, TypeInv, n = Len(order), Whole,
         \/ Leave("prepare", "sipi") \/ Leave("sipi", "wait1") \/ Leave("sipi2", "wait2")
  PROVE  TypeInv' /\ n' = Len(order') /\ Whole'
<1>1. UNCHANGED <<order, n, booted, slot, stacks, ap, dead>>
  BY DEF Leave
<1>2. booted < n /\ i \in booted..End /\ pc \in {"prepare", "sipi", "sipi2"} /\ i' = booted
  BY DEF Leave, Whole
<1>3. booted \in Nat /\ i = End /\ End \in Nat /\ booted < End
  BY <1>2, Batches DEF Leave, BaseInv
<1>4. TypeInv' /\ n' = Len(order')
  BY <1>1 DEF Leave, TypeInv, Aps, Slots
<1>5. Positions' = Positions /\ End' = End /\ Current' = booted..(End - 1) /\ Aps' = Aps
  BY <1>1 DEF Leave, Positions, End, Current, Aps
<1>6. Current = booted..(End - 1)
  BY <1>2, <1>3 DEF Current
<1>7. \A k \in Positions : Entry(k)' = Entry(k) /\ At(k)' = At(k)
  BY <1>1 DEF Entry, At
<1>8. \A k \in Current : Stage(k)' /\ Reached(k)'
  <2> SUFFICES ASSUME NEW k \in Current
               PROVE  Stage(k)' /\ Reached(k)'
    OBVIOUS
  <2>1. Stage(k) /\ Reached(k) /\ booted <= k /\ k < i /\ k \in Int
    BY <1>3, <1>6 DEF Whole
  <2>2. Stage(k)'
    BY <1>1, <2>1 DEF Stage, Entry, At
  <2>3. Reached(k)'
    BY <1>1, <1>2, <1>3, <2>1 DEF Leave, Reached, At, Entry
  <2> QED
    BY <2>2, <2>3
<1>9. i' \in booted..End
  BY <1>2, <1>3
<1> QED
  BY <1>1, <1>2, <1>3, <1>4, <1>5, <1>6, <1>7, <1>8, <1>9 DEF Whole, Leave

\* The two waits.
LEMMA WaitKeeps ==
  ASSUME BaseInv, TypeInv, n = Len(order), Whole, Wait1 \/ Wait2
  PROVE  TypeInv' /\ n' = Len(order') /\ Whole'
<1>1. UNCHANGED <<order, n, booted, i, slot, stacks, ap, dead>>
  BY DEF Wait1, Wait2
<1>2. pc \in {"wait1", "wait2"} /\ pc' \in {"sipi2", "check"}
  BY DEF Wait1, Wait2
<1>3. booted < n /\ i = booted /\ booted \in Nat
  BY <1>2 DEF Whole, BaseInv
<1>4. End \in Nat /\ booted < End
  BY <1>3, Batches
<1>5. TypeInv' /\ n' = Len(order')
  BY <1>1, <1>2 DEF TypeInv, Aps, Slots
<1>6. /\ Positions' = Positions /\ End' = End /\ Aps' = Aps
      /\ Current = booted..(End - 1) /\ Current' = Current
  BY <1>1, <1>2 DEF Positions, End, Current, Aps
<1>7. \A k \in Positions : Entry(k)' = Entry(k) /\ At(k)' = At(k)
  BY <1>1 DEF Entry, At
<1>8. \A k \in Current : Stage(k)' /\ Reached(k)'
  <2> SUFFICES ASSUME NEW k \in Current
               PROVE  Stage(k)' /\ Reached(k)'
    OBVIOUS
  <2>1. Stage(k) /\ Reached(k) /\ booted <= k /\ k \in Int /\ k \in Positions
    BY <1>3, <1>4, <1>6, CurrentIs DEF Whole
  <2>2. Stage(k)'
    BY <1>1, <2>1 DEF Stage, Entry, At
  <2>3. CASE Wait1
    <3>1. pc' = "sipi2" /\ i' = booted
      BY <1>1, <1>3, <2>3 DEF Wait1
    <3> QED
      BY <1>3, <2>1, <2>2, <3>1 DEF Reached
  <2>4. CASE Wait2
    <3>1. Entry(k).core \in Aps
      BY <2>1 DEF Whole
    <3>2. At(k).do = "signalled" => Entry(k).core \in dead
      BY <2>4, <3>1 DEF Wait2, At
    <3> QED
      <4>1. pc = "wait2" /\ pc' = "check" /\ i' = booted /\ dead' = dead
        BY <1>1, <1>3, <2>4 DEF Wait2
      <4>2. At(k).do # "wait"
        BY <2>1, <4>1 DEF Reached
      <4> QED
        BY <1>3, <1>7, <2>1, <2>2, <3>2, <4>1, <4>2 DEF Reached
  <2> QED
    BY <2>2, <2>3, <2>4
<1>9. i' \in booted..End
  BY <1>1, <1>3, <1>4
<1> QED
  BY <1>1, <1>2, <1>3, <1>4, <1>5, <1>6, <1>7, <1>8, <1>9 DEF Whole

\* The core at the boot core's position has raised both flags.
LEMMA CheckStartedKeeps ==
  ASSUME BaseInv, TypeInv, n = Len(order), Whole, CheckStarted
  PROVE  TypeInv' /\ n' = Len(order') /\ Whole'
<1>1. UNCHANGED <<pc, order, n, booted, slot, stacks, ap, dead>> /\ i' = i + 1 /\ pc = "check"
  BY DEF CheckStarted
<1>2. booted < n /\ i \in booted..End /\ i < End /\ booted \in Nat /\ End \in Nat
  BY <1>1, Batches DEF CheckStarted, Whole, BaseInv
<1>3. TypeInv' /\ n' = Len(order')
  BY <1>1 DEF TypeInv, Aps, Slots
<1>4. /\ Positions' = Positions /\ End' = End /\ Aps' = Aps
      /\ Current = booted..(End - 1) /\ Current' = Current
  BY <1>1 DEF Positions, End, Current, Aps
<1>5. \A k \in Positions : Entry(k)' = Entry(k) /\ At(k)' = At(k)
  BY <1>1 DEF Entry, At
<1>6. At(i).do = "ap_initialize"
  <2>1. i \in Current
    BY <1>2, <1>4
  <2>2. Stage(i) /\ i \in Positions
    BY <2>1, CurrentIs DEF Whole
  <2>3. slot[i - booted].flag # 0 /\ slot[i - booted].done
    BY <2>2 DEF Stage, CheckStarted, Awaited
  <2>4. At(i).do \in {"wait", "signalled", "trampoline", "stack", "ap_initialize"}
    <3>1. Entry(i).core \in Aps
      BY <2>2 DEF Whole
    <3> QED
      BY <3>1 DEF TypeInv, At
  <2> QED
    BY <2>2, <2>3, <2>4 DEF Stage
<1>7. \A k \in Current : Stage(k)' /\ Reached(k)'
  <2> SUFFICES ASSUME NEW k \in Current
               PROVE  Stage(k)' /\ Reached(k)'
    OBVIOUS
  <2>1. Stage(k) /\ Reached(k) /\ k \in Int
    BY <1>2, <1>4 DEF Whole
  <2>2. Stage(k)'
    BY <1>1, <2>1 DEF Stage, Entry, At
  <2>3. k < i' => k < i \/ k = i
    BY <1>1, <1>2, <2>1
  <2> QED
    BY <1>1, <1>6, <2>1, <2>2, <2>3 DEF Reached, At, Entry
<1>8. i' \in booted..End
  BY <1>1, <1>2
<1> QED
  BY <1>1, <1>2, <1>3, <1>4, <1>5, <1>7, <1>8 DEF Whole

\* The batch is over: all its cores are at ap_initialize.
LEMMA NextBatchKeeps ==
  ASSUME BaseInv, TypeInv, n = Len(order), Whole, NextBatch
  PROVE  TypeInv' /\ n' = Len(order') /\ Whole'
<1>1. UNCHANGED <<order, n, i, slot, stacks, ap, dead>> /\ pc = "check" /\ pc' = "batch"
  BY DEF NextBatch
<1>2. booted < n /\ i \in booted..End /\ booted \in Nat /\ n \in Nat /\ AtOnce \in Nat
  BY <1>1, SmpAssumption DEF Whole, BaseInv
<1>3. i = End /\ booted' = booted + AtOnce /\ End \in Nat /\ booted < End
  BY <1>2, Batches DEF NextBatch, BaseInv
<1>4. TypeInv' /\ n' = Len(order')
  BY <1>1 DEF TypeInv, Aps, Slots
<1>5. /\ Positions' = Positions /\ Aps' = Aps
      /\ Current = booted..(End - 1) /\ Current' = {}
  BY <1>1 DEF Positions, Current, Aps
<1>6. \A k \in Positions : Entry(k)' = Entry(k) /\ At(k)' = At(k)
  BY <1>1 DEF Entry, At
<1>7. booted' < n => booted' = End
  BY <1>2, <1>3 DEF End
<1>8. \A k \in Positions : k < booted' =>
        At(k).do' = "ap_initialize" /\ At(k).stack' = k + 1
  <2> SUFFICES ASSUME NEW k \in Positions, k < booted'
               PROVE  At(k).do = "ap_initialize" /\ At(k).stack = k + 1
    BY <1>6
  <2>1. CASE k < booted
    BY <2>1 DEF Whole
  <2>2. CASE ~(k < booted)
    <3>1. k \in Current
      <4>1. k \in Nat /\ k < n
        BY DEF Positions, BaseInv
      <4>2. k < End
        BY <4>1, <1>2, <1>3 DEF End
      <4> QED
        BY <4>1, <4>2, <2>2, <1>5, <1>2, <1>3
    <3>2. Stage(k) /\ Reached(k) /\ k < i
      BY <3>1, <1>3, <1>5, <1>2 DEF Whole
    <3> QED
      BY <3>2, <1>1 DEF Stage, Reached
  <2> QED
    BY <2>1, <2>2
<1>9. \A k \in Positions : k >= booted' => At(k).do' = "wait"
  <2> SUFFICES ASSUME NEW k \in Positions, k >= booted'
               PROVE  At(k).do = "wait"
    BY <1>6
  <2>1. k \in Nat /\ k < n
    BY DEF Positions, BaseInv
  <2>2. k >= booted /\ k \notin Current
    BY <2>1, <1>2, <1>3, <1>5 DEF End
  <2> QED
    BY <2>2 DEF Whole
<1>10. Len(order) <= AtOnce => booted' \in {0, AtOnce}
  <2>1. Len(order) <= AtOnce => booted = 0
    BY <1>2 DEF Whole, BaseInv
  <2> QED
    BY <2>1, <1>3, <1>2
<1>11. pc = "check" => stacks = End
  BY DEF Whole
<1> QED
  BY <1>1, <1>2, <1>3, <1>4, <1>5, <1>6, <1>7, <1>8, <1>9, <1>10, <1>11 DEF Whole


\* a is what the other cores do after a SIPI of slot s to core c, if it is not lost.
Sent(a, c, s) ==
  /\ DOMAIN a = Aps
  /\ a \in [Aps -> [do : {"wait", "signalled", "trampoline", "stack", "ap_initialize"},
                    slot : Int, stack : Nat]]
  /\ \A d \in Aps : d # c => a[d] = ap[d]
  /\ ap[c].do # "wait" => a[c] = ap[c]
  /\ ap[c].do = "wait" => a[c].do = "signalled" /\ a[c].slot = s

\* A core that waits takes the SIPI of its slot; nothing else of it changes.
LEMMA SignalledIs ==
  ASSUME BaseInv, TypeInv, NEW c \in Aps, NEW s, s \in Int
  PROVE  Sent(Signalled(c, s), c, s)
<1> USE DEF Sent
<1>1. ap[c] \in [do : {"wait", "signalled", "trampoline", "stack", "ap_initialize"},
                 slot : Int, stack : Nat]
  BY DEF TypeInv
<1>2. CASE ap[c].do = "wait"
  <2>1. Signalled(c, s) = [ap EXCEPT ![c].do = "signalled", ![c].slot = s]
    BY <1>2 DEF Signalled
  <2>2. PICK r : r = [ap EXCEPT ![c].do = "signalled"]
    OBVIOUS
  <2>3. /\ DOMAIN r = Aps
        /\ r \in [Aps -> [do : {"wait", "signalled", "trampoline", "stack", "ap_initialize"},
                         slot : Int, stack : Nat]]
        /\ \A d \in Aps : d # c => r[d] = ap[d]
        /\ r[c].do = "signalled"
    BY <1>1, <2>2 DEF TypeInv
  <2>4. Signalled(c, s) = [r EXCEPT ![c].slot = s]
    BY <2>1, <2>2
  <2> QED
    BY <1>2, <2>3, <2>4
<1>3. CASE ap[c].do # "wait"
  <2>1. Signalled(c, s) = ap
    BY <1>3 DEF Signalled
  <2> QED
    BY <1>3, <2>1 DEF TypeInv, Aps
<1> QED
  BY <1>2, <1>3

\* A SIPI, taken or missed, to the core at the boot core's position.
LEMMA SipiSent ==
  ASSUME BaseInv, TypeInv, n = Len(order), Whole, pc \in {"sipi", "sipi2"}, i < End,
         UNCHANGED <<pc, order, n, booted, slot, stacks, dead>>, i' = i + 1,
         ap' \in {ap, Signalled(Entry(i).core, Minus(i, booted))},
         pc = "sipi2" => ap'[Entry(i).core].do # "wait"
  PROVE  TypeInv' /\ n' = Len(order') /\ Whole'
<1>0. PICK p \in Nat : p = i
  BY DEF BaseInv
<1>1. booted < n /\ i \in booted..End /\ booted \in Nat /\ End \in Nat /\ i \in Nat
  BY <1>0, Batches DEF Whole, BaseInv
<1>2. p \in Positions /\ p \in Current /\ Minus(p, booted) = p - booted /\ p - booted \in Slots
  <2>1. p \in booted..(End - 1) /\ ~(p < booted)
    BY <1>0, <1>1
  <2>2. p \in Current
    BY <2>1 DEF Current
  <2> HIDE DEF End, Minus, Positions, Slots
  <2>3. p \in Positions /\ p - booted \in Slots
    BY <1>1, <2>1, Batches
  <2>4. Minus(p, booted) = p - booted
    BY <1>1, <2>1, <2>3, Batches
  <2> QED
    BY <2>2, <2>3, <2>4
<1>3. Entry(p).core \in Aps /\ p - booted \in Int
  BY <1>0, <1>1, <1>2 DEF Whole
<1>4. /\ DOMAIN ap' = Aps
      /\ ap' \in [Aps -> [do : {"wait", "signalled", "trampoline", "stack", "ap_initialize"},
                          slot : Int, stack : Nat]]
      /\ \A d \in Aps : d # Entry(p).core => ap'[d] = ap[d]
      /\ ap[Entry(p).core].do # "wait" => ap'[Entry(p).core] = ap[Entry(p).core]
      /\ ap[Entry(p).core].do = "wait" =>
           \/ ap'[Entry(p).core] = ap[Entry(p).core]
           \/ /\ ap'[Entry(p).core].do = "signalled"
              /\ ap'[Entry(p).core].slot = p - booted
  <2>1. CASE ap' = ap
    BY <2>1 DEF TypeInv, Aps
  <2>2. CASE ap' = Signalled(Entry(p).core, p - booted)
    <3>1. PICK c, q : c \in Aps /\ q \in Int /\ c = Entry(p).core /\ q = p - booted
      BY <1>3
    <3>2. ap' = Signalled(c, q)
      BY <2>2, <3>1
    <3>3. /\ DOMAIN ap' = Aps
          /\ ap' \in [Aps -> [do : {"wait", "signalled", "trampoline", "stack", "ap_initialize"},
                              slot : Int, stack : Nat]]
          /\ \A d \in Aps : d # c => ap'[d] = ap[d]
          /\ ap[c].do # "wait" => ap'[c] = ap[c]
          /\ ap[c].do = "wait" => ap'[c].do = "signalled" /\ ap'[c].slot = q
      <4>1. Sent(Signalled(c, q), c, q)
        BY <3>1, SignalledIs
      <4> QED
        BY <3>2, <4>1 DEF Sent
    <3> QED
      BY <3>1, <3>3
  <2> QED
    BY <2>1, <2>2, <1>0, <1>2
<1>5. Aps' = Aps /\ TypeInv' /\ n' = Len(order')
  BY <1>4 DEF TypeInv, Aps, Slots
<1>6. /\ Positions' = Positions /\ End' = End
      /\ Current = booted..(End - 1) /\ Current' = Current
  BY <1>0, <1>1 DEF Positions, End, Current
<1>7. \A k \in Positions : /\ Entry(k)' = Entry(k)
                           /\ k # p => At(k)' = At(k)
  <2> SUFFICES ASSUME NEW k \in Positions
               PROVE  Entry(k)' = Entry(k) /\ (k # p => At(k)' = At(k))
    OBVIOUS
  <2>1. Entry(k)' = Entry(k)
    BY DEF Entry
  <2>2. k # p => Entry(k).core # Entry(p).core /\ Entry(k).core \in Aps
    BY <1>2 DEF Whole
  <2> QED
    BY <2>1, <2>2, <1>4 DEF At
<1>8. /\ At(p)' = ap'[Entry(p).core] /\ At(p) = ap[Entry(p).core]
      /\ slot[p - booted]' = slot[p - booted]
  BY <1>2, <1>7 DEF At
<1>9. \A k \in Current : Stage(k)' /\ Reached(k)'
  <2> SUFFICES ASSUME NEW k \in Current
               PROVE  Stage(k)' /\ Reached(k)'
    OBVIOUS
  <2>1. Stage(k) /\ Reached(k) /\ k \in Int /\ k \in Positions
    BY <1>0, <1>1, <1>6, CurrentIs DEF Whole
  <2>2. CASE k # p
    <3>1. At(k)' = At(k) /\ Entry(k)' = Entry(k)
      BY <1>7, <2>1, <2>2
    <3>2. k < i' => k < i
      BY <1>0, <1>1, <2>1, <2>2
    <3>3. Stage(k)'
      BY <2>1, <3>1 DEF Stage
    <3>4. Reached(k)'
      BY <2>1, <3>1, <3>2 DEF Reached
    <3> QED
      BY <3>3, <3>4
  <2>3. CASE k = p
    <3>1. /\ Entry(p).started' = p - booted /\ slot[p - booted]'.stack = p + 1
          /\ At(p).do # "wait" => At(p).slot = p - booted
          /\ At(p).do = "wait" => slot[p - booted].flag = 0 /\ ~slot[p - booted].done
      BY <2>1, <2>3, <1>8, <1>7 DEF Stage
    <3>2. CASE ap'[Entry(p).core] = ap[Entry(p).core]
      <4>1. At(p)' = At(p)
        BY <3>2, <1>8
      <4>2. Stage(p)'
        BY <2>1, <2>3, <4>1, <1>7 DEF Stage
      <4>3. Reached(p)'
        <5>1. pc = "sipi2" => At(p)'.do # "wait"
          BY <1>0, <1>8
        <5> QED
          BY <5>1 DEF Reached
      <4> QED
        BY <2>3, <4>2, <4>3
    <3>3. CASE /\ ap[Entry(p).core].do = "wait" /\ ap'[Entry(p).core].do = "signalled"
               /\ ap'[Entry(p).core].slot = p - booted
      <4>1. At(p)'.do = "signalled" /\ At(p)'.slot = p - booted /\ At(p).do = "wait"
        BY <3>3, <1>8
      <4>2. Stage(p)'
        BY <3>1, <4>1 DEF Stage
      <4>3. Reached(p)'
        BY <4>1 DEF Reached
      <4> QED
        BY <2>3, <4>2, <4>3
    <3> QED
      BY <3>2, <3>3, <1>4
  <2> QED
    BY <2>2, <2>3
<1>10. \A k \in Positions : /\ k < booted => k # p
                            /\ k >= booted /\ k \notin Current => k # p
  BY <1>0, <1>1, <1>2 DEF Positions
<1>11. i' \in booted..End
  BY <1>0, <1>1
<1>12. Aps = {Entry(k).core' : k \in Positions}
  BY <1>7 DEF Whole
<1>13. \A j, k \in Positions : Entry(j).core' = Entry(k).core' => j = k
  BY <1>7 DEF Whole
<1> QED
  BY <1>0, <1>1, <1>5, <1>6, <1>7, <1>9, <1>10, <1>11, <1>12, <1>13 DEF Whole

\* The two loops that send SIPIs.
LEMMA SipiKeeps ==
  ASSUME BaseInv, TypeInv, n = Len(order), Whole, Sipi \/ Sipi2
  PROVE  TypeInv' /\ n' = Len(order') /\ Whole'
<1>1. pc \in {"sipi", "sipi2"} /\ InBatch
  BY DEF Sipi, Sipi2
<1>2. i < End /\ booted < n /\ i \in Current /\ i \in Positions
  <2>1. i < End /\ booted < n
    BY <1>1, Batches DEF Whole
  <2>2. i \in Current
    BY <1>1, <2>1, Batches DEF Whole, Current, BaseInv
  <2> QED
    BY <2>1, <2>2, CurrentIs
<1>3. CASE Sipi
  BY <1>2, <1>3, SipiSent DEF Sipi
<1>4. CASE Sipi2
  <2>1. Stage(i) /\ Entry(i).core \in Aps /\ At(i) = ap[Entry(i).core]
    BY <1>2 DEF Whole, At
  <2>2. Minus(i, booted) \in Int
    BY Wrapped DEF Minus, BaseInv
  <2>3. CASE NotStarted(Entry(i).started)
    <3>1. ap' = Signalled(Entry(i).core, Minus(i, booted))
      BY <1>4, <2>3 DEF Sipi2
    <3>2. ap'[Entry(i).core].do # "wait"
      <4>1. PICK c, q : c \in Aps /\ q \in Int /\ c = Entry(i).core /\ q = Minus(i, booted)
        BY <2>1, <2>2
      <4>2. ap' = Signalled(c, q)
        BY <3>1, <4>1
      <4>3. ap'[c].do # "wait"
        <5>1. Sent(Signalled(c, q), c, q)
          BY <4>1, SignalledIs
        <5> QED
          BY <4>2, <5>1 DEF Sent
      <4> QED
        BY <4>1, <4>3
    <3> QED
      BY <1>2, <1>4, <3>1, <3>2, SipiSent DEF Sipi2
  <2>4. CASE ~NotStarted(Entry(i).started)
    <3>1. ap' = ap
      BY <1>4, <2>4 DEF Sipi2
    <3>2. ap'[Entry(i).core].do # "wait"
      BY <2>1, <2>4, <3>1 DEF NotStarted, Stage
    <3> QED
      BY <1>2, <1>4, <3>1, <3>2, SipiSent DEF Sipi2
  <2> QED
    BY <2>3, <2>4
<1> QED
  BY <1>3, <1>4


------------------------------------------------------------------------------
(* The trampoline, as long as no core has been taken out                   *)

\* What a core of the batch does to itself and its slot leaves the others alone.
LEMMA ApMoves ==
  ASSUME BaseInv, TypeInv, n = Len(order), Whole, NEW p \in Current,
         UNCHANGED <<pc, order, n, booted, i, stacks, dead>>,
         ap' \in [Aps -> [do : {"wait", "signalled", "trampoline", "stack", "ap_initialize"},
                          slot : Int, stack : Nat]],
         slot' \in [Slots -> [flag : Nat, done : BOOLEAN, stack : Nat]],
         \A d \in Aps : d # Entry(p).core => ap'[d] = ap[d],
         \A s \in Slots : s # p - booted => slot'[s] = slot[s],
         Stage(p)', Reached(p)'
  PROVE  TypeInv' /\ n' = Len(order') /\ Whole'
<1>1. /\ Aps' = Aps /\ Positions' = Positions /\ End' = End /\ Current' = Current
  BY DEF Aps, Positions, End, Current
<1>2. TypeInv' /\ n' = Len(order')
  BY <1>1 DEF TypeInv, Slots
<1>3. p \in Positions /\ p - booted \in Slots /\ booted <= p /\ p \in Int /\ booted \in Nat
  BY CurrentIs DEF BaseInv, Positions
<1>4. \A k \in Positions : Entry(k)' = Entry(k) /\ (k # p => At(k)' = At(k))
  <2> SUFFICES ASSUME NEW k \in Positions
               PROVE  Entry(k)' = Entry(k) /\ (k # p => At(k)' = At(k))
    OBVIOUS
  <2>1. Entry(k)' = Entry(k)
    BY DEF Entry
  <2>2. k # p => Entry(k).core # Entry(p).core /\ Entry(k).core \in Aps
    BY <1>3 DEF Whole
  <2> QED
    BY <2>1, <2>2 DEF At
<1>5. \A k \in Current : Stage(k)' /\ Reached(k)'
  <2> SUFFICES ASSUME NEW k \in Current, k # p
               PROVE  Stage(k)' /\ Reached(k)'
    OBVIOUS
  <2>1. Stage(k) /\ Reached(k) /\ k \in Positions /\ k - booted \in Slots /\ k \in Int
    BY CurrentIs DEF Whole, Positions, BaseInv
  <2>2. At(k)' = At(k) /\ Entry(k)' = Entry(k)
    BY <1>4, <2>1
  <2>3. slot'[k - booted] = slot[k - booted]
    BY <1>3, <2>1
  <2> QED
    BY <2>1, <2>2, <2>3 DEF Stage, Reached
<1>6. Aps = {Entry(k).core' : k \in Positions}
  BY <1>4 DEF Whole
<1>7. \A j, k \in Positions : Entry(j).core' = Entry(k).core' => j = k
  BY <1>4 DEF Whole
<1>8. \A k \in Positions : /\ k < booted => At(k)' = At(k)
                           /\ k >= booted /\ k \notin Current => At(k)' = At(k)
  BY <1>3, <1>4 DEF Positions
<1>9. UNCHANGED <<pc, order, n, booted, i, stacks, dead>>
  OBVIOUS
<1> QED
  BY <1>1, <1>2, <1>5, <1>6, <1>7, <1>8, <1>9 DEF Whole

\* A core that is not dead starts, reads its stack and leaves the trampoline.
LEMMA ApKeeps ==
  ASSUME BaseInv, TypeInv, n = Len(order), Whole, NEW c \in Aps, ApStep(c)
  PROVE  TypeInv' /\ n' = Len(order') /\ Whole'
<1>1. ap[c].do \in {"signalled", "trampoline", "stack"}
  BY DEF ApStep, Start, LoadStack, Arrive
<1>2. PICK p \in Current : c = Entry(p).core /\ ap[c].slot = p - booted
  BY <1>1, Worker
<1>3. Stage(p) /\ Reached(p) /\ p \in Positions /\ p - booted \in Slots /\ At(p) = ap[c]
  BY <1>2, CurrentIs DEF Whole, At
<1>4. UNCHANGED <<pc, order, n, booted, i, stacks, dead>>
  BY DEF ApStep, Start, LoadStack, Arrive
<1>5. Entry(p)' = Entry(p) /\ At(p)' = ap'[c]
  BY <1>2, <1>4 DEF Entry, At
<1>6. ap[c] \in [do : {"wait", "signalled", "trampoline", "stack", "ap_initialize"},
                 slot : Int, stack : Nat]
  BY DEF TypeInv
<1>7. slot[p - booted] \in [flag : Nat, done : BOOLEAN, stack : Nat]
  BY <1>3 DEF TypeInv
<1>8. CASE Start(c)
  <2>1. /\ slot' = [slot EXCEPT ![p - booted].flag = @ + 1]
        /\ ap' = [ap EXCEPT ![c].do = "trampoline"] /\ ap[c].do = "signalled" /\ c \notin dead
    BY <1>2, <1>8 DEF Start
  <2>2. /\ ap' \in [Aps -> [do : {"wait", "signalled", "trampoline", "stack", "ap_initialize"},
                            slot : Int, stack : Nat]]
        /\ \A d \in Aps : d # c => ap'[d] = ap[d]
        /\ ap'[c].do = "trampoline" /\ ap'[c].slot = ap[c].slot
    BY <1>6, <2>1 DEF TypeInv
  <2>3. /\ slot' \in [Slots -> [flag : Nat, done : BOOLEAN, stack : Nat]]
        /\ \A s \in Slots : s # p - booted => slot'[s] = slot[s]
        /\ slot'[p - booted].flag = slot[p - booted].flag + 1
        /\ slot'[p - booted].done = slot[p - booted].done
        /\ slot'[p - booted].stack = slot[p - booted].stack
    <3>1. PICK old \in [flag : Nat, done : BOOLEAN, stack : Nat] : old = slot[p - booted]
      BY <1>7
    <3>2. PICK new : new = [old EXCEPT !.flag = old.flag + 1]
      OBVIOUS
    <3>3. slot' = [slot EXCEPT ![p - booted] = new]
      BY <2>1, <3>1, <3>2
    <3>4. /\ new \in [flag : Nat, done : BOOLEAN, stack : Nat]
          /\ new.flag = old.flag + 1 /\ new.done = old.done /\ new.stack = old.stack
      BY <3>2
    <3>5. slot'[p - booted] = new
      BY <1>3, <3>3 DEF TypeInv
    <3>6. slot' \in [Slots -> [flag : Nat, done : BOOLEAN, stack : Nat]]
      BY <1>3, <3>3, <3>4 DEF TypeInv
    <3>7. \A s \in Slots : s # p - booted => slot'[s] = slot[s]
      BY <3>3 DEF TypeInv
    <3> QED
      BY <3>1, <3>4, <3>5, <3>6, <3>7
  <2>4. Stage(p)'
    BY <1>2, <1>3, <1>4, <1>5, <2>1, <2>2, <2>3 DEF Stage
  <2>5. Reached(p)'
    BY <1>2, <1>3, <1>4, <1>5, <2>1, <2>2 DEF Reached
  <2> QED
    BY <1>2, <1>4, <2>2, <2>3, <2>4, <2>5, ApMoves
<1>9. CASE LoadStack(c)
  <2>1. /\ ap' = [ap EXCEPT ![c].do = "stack", ![c].stack = slot[p - booted].stack]
        /\ ap[c].do = "trampoline" /\ slot' = slot
    BY <1>2, <1>9 DEF LoadStack
  <2>2. PICK r : r = [ap EXCEPT ![c].do = "stack"]
    OBVIOUS
  <2>3. /\ r \in [Aps -> [do : {"wait", "signalled", "trampoline", "stack", "ap_initialize"},
                          slot : Int, stack : Nat]]
        /\ \A d \in Aps : d # c => r[d] = ap[d]
        /\ r[c].do = "stack" /\ r[c].slot = ap[c].slot
    BY <1>6, <2>2 DEF TypeInv
  <2>4. ap' = [r EXCEPT ![c].stack = slot[p - booted].stack]
    BY <2>1, <2>2
  <2>5. /\ ap' \in [Aps -> [do : {"wait", "signalled", "trampoline", "stack", "ap_initialize"},
                            slot : Int, stack : Nat]]
        /\ \A d \in Aps : d # c => ap'[d] = ap[d]
        /\ ap'[c].do = "stack" /\ ap'[c].slot = ap[c].slot
        /\ ap'[c].stack = slot[p - booted].stack
    BY <1>7, <2>3, <2>4
  <2>6. Stage(p)'
    BY <1>3, <1>4, <1>5, <2>1, <2>5 DEF Stage
  <2>7. Reached(p)'
    BY <1>3, <1>4, <1>5, <2>1, <2>5 DEF Reached
  <2>8. slot' \in [Slots -> [flag : Nat, done : BOOLEAN, stack : Nat]]
    BY <2>1 DEF TypeInv
  <2> QED
    BY <1>2, <1>4, <2>1, <2>5, <2>6, <2>7, <2>8, ApMoves
<1>10. CASE Arrive(c)
  <2>1. /\ slot' = [slot EXCEPT ![p - booted].done = TRUE]
        /\ ap' = [ap EXCEPT ![c].do = "ap_initialize"] /\ ap[c].do = "stack"
    BY <1>2, <1>10 DEF Arrive
  <2>2. /\ ap' \in [Aps -> [do : {"wait", "signalled", "trampoline", "stack", "ap_initialize"},
                            slot : Int, stack : Nat]]
        /\ \A d \in Aps : d # c => ap'[d] = ap[d]
        /\ ap'[c].do = "ap_initialize" /\ ap'[c].slot = ap[c].slot
        /\ ap'[c].stack = ap[c].stack
    BY <1>6, <2>1 DEF TypeInv
  <2>3. /\ slot' \in [Slots -> [flag : Nat, done : BOOLEAN, stack : Nat]]
        /\ \A s \in Slots : s # p - booted => slot'[s] = slot[s]
        /\ slot'[p - booted].flag = slot[p - booted].flag
        /\ slot'[p - booted].done
        /\ slot'[p - booted].stack = slot[p - booted].stack
    BY <1>3, <1>7, <2>1 DEF TypeInv
  <2>4. Stage(p)'
    BY <1>3, <1>4, <1>5, <2>1, <2>2, <2>3 DEF Stage
  <2>5. Reached(p)'
    BY <1>3, <1>4, <1>5, <2>1, <2>2 DEF Reached
  <2> QED
    BY <1>2, <1>4, <2>2, <2>3, <2>4, <2>5, ApMoves
<1> QED
  BY <1>8, <1>9, <1>10 DEF ApStep


------------------------------------------------------------------------------
(* A single batch, after a core has been taken out                         *)

\* The first core that has not raised its flag is dead, and is taken out.
LEMMA FirstFails ==
  ASSUME BaseInv, TypeInv, n = Len(order), Whole, Orderly, CheckFailed
  PROVE  TypeInv' /\ n' # Len(order') /\ Failed'
<1>0. PICK p \in Nat : p = i
  BY DEF BaseInv
<1>1. /\ pc = "check" /\ n' = n - 1 /\ booted' = Minus(booted, 1) /\ order' = MovedUp
      /\ UNCHANGED <<pc, i, slot, stacks, ap, dead>>
  BY DEF CheckFailed
<1>2. booted < n /\ p < End /\ p \in booted..End /\ booted \in Nat /\ End \in Nat /\ n \in Nat
  BY <1>0, <1>1, Batches DEF CheckFailed, Whole, BaseInv
<1>3. p \in Current /\ p \in Positions /\ Stage(p) /\ Reached(p) /\ p - booted \in Slots
  <2>1. p \in Current
    BY <1>1, <1>2 DEF Current
  <2> QED
    BY <2>1, CurrentIs DEF Whole
<1>4. At(p).do = "signalled" /\ Entry(p).core \in dead /\ slot[p - booted].flag = 0
  <2>1. slot[p - booted].flag = 0
    BY <1>0, <1>3 DEF CheckFailed, Stage
  <2>2. Entry(p).core \in Aps
    BY <1>3 DEF Whole
  <2>3. At(p).do \in {"wait", "signalled", "trampoline", "stack", "ap_initialize"}
    BY <2>2 DEF At, TypeInv
  <2> QED
    BY <1>1, <1>3, <2>1, <2>3 DEF Stage, Reached
<1>5. Len(order) <= AtOnce /\ booted = 0 /\ End = n /\ dead # {}
  BY <1>2, <1>4, SmpAssumption DEF Orderly, Whole, End
<1>6. Current = Positions
  BY <1>1, <1>2, <1>5 DEF Current, Positions
<1>7. booted' = Word - 1
  <2>1. (0 - 1) % Word = 0 - 1 + Word
    <3>1. PICK a \in Int : a = 0 - 1
      OBVIOUS
    <3>2. 0 - Word <= a /\ a < 0
      BY <3>1, SmpAssumption
    <3>3. a % Word = a + Word
      BY <3>2, Wrapped, Zenon
    <3> QED
      BY <3>1, <3>3
  <2>2. booted' = (0 - 1) % Word
    BY <1>1, <1>5 DEF Minus
  <2> QED
    BY <2>1, <2>2, SmpAssumption
<1>8. Len(order') = Len(order) /\ Aps' = Aps /\ Len(order) \in Nat
  <2>1. Len(order) \in Nat /\ order' = [k \in 1..Len(order) |-> order'[k]]
    BY <1>1 DEF MovedUp, BaseInv
  <2>2. Len(order') = Len(order)
    BY <1>1, <2>1 DEF MovedUp
  <2> QED
    BY <1>1, <2>1, <2>2 DEF Aps
<1>9. TypeInv'
  BY <1>1, <1>8 DEF TypeInv, Slots
<1>10. \A k \in 0..(p - 1) : Entry(k)' = Entry(k)
  <2> SUFFICES ASSUME NEW k \in 0..(p - 1)
               PROVE  order'[k + 1] = order[k + 1]
    BY DEF Entry
  <2>1. k + 1 \in 1..Len(order) /\ k + 1 \notin (p + 1)..(n - 1)
    BY <1>2, <1>5
  <2> QED
    BY <1>0, <1>1, <2>1 DEF MovedUp
<1>11. \A k \in 0..(p - 1) : Entry(k).core \in Aps /\ At(k).do = "ap_initialize"
  <2> SUFFICES ASSUME NEW k \in 0..(p - 1)
               PROVE  Entry(k).core \in Aps /\ At(k).do = "ap_initialize"
    OBVIOUS
  <2>1. k \in Positions /\ k \in Current /\ k < p
    BY <1>2, <1>5, <1>6 DEF Positions
  <2> QED
    BY <1>0, <1>1, <2>1 DEF Whole, Reached
<1>12. \A k \in 0..(p - 1) : Entry(k).core' \in Aps /\ At(k)'.do = "ap_initialize"
  BY <1>1, <1>10, <1>11 DEF At
<1>13. Entry(p).started' = p
  <2>1. p + 1 \in 1..Len(order) /\ order[p + 1] \in Elements
    BY <1>0, <1>3, ElementOfSeq DEF Positions, BaseInv
  <2>2. order'[p + 1].started = order[p + 1].started
    <3>1. CASE p + 1 \in (i + 1)..(n - 1)
      <4>1. order'[p + 1] = [order[p + 1] EXCEPT !.core = order[p + 1 + 1].core]
        BY <1>1, <2>1, <3>1 DEF MovedUp
      <4> QED
        BY <2>1, <4>1 DEF Elements
    <3>2. CASE p + 1 \notin (i + 1)..(n - 1)
      BY <1>1, <2>1, <3>2 DEF MovedUp
    <3> QED
      BY <3>1, <3>2
  <2>3. Entry(p).started = p
    BY <1>3, <1>5 DEF Stage
  <2> QED
    BY <2>2, <2>3 DEF Entry
<1>14. \A c \in Aps : \E k \in Positions : /\ c = Entry(k).core /\ ap[c].slot = k /\ k \in Slots
                                           /\ slot[k].stack = k + 1 /\ ap[c].do # "wait"
                                           /\ c \in Running => ap[c].stack = k + 1
  <2> SUFFICES ASSUME NEW c \in Aps
               PROVE  \E k \in Positions : /\ c = Entry(k).core /\ ap[c].slot = k /\ k \in Slots
                                           /\ slot[k].stack = k + 1 /\ ap[c].do # "wait"
                                           /\ c \in Running => ap[c].stack = k + 1
    OBVIOUS
  <2>1. PICK k \in Positions : c = Entry(k).core
    BY DEF Whole
  <2>2. Stage(k) /\ Reached(k) /\ k - booted = k /\ k \in Slots /\ At(k) = ap[c]
    BY <2>1, <1>5, <1>6, CurrentIs DEF Whole, At, Positions
  <2>3. ap[c].do # "wait"
    BY <1>1, <2>2 DEF Reached
  <2>4. ap[c].slot = k /\ slot[k].stack = k + 1
    BY <2>2, <2>3 DEF Stage
  <2>5. c \in Running => ap[c].stack = k + 1
    BY <2>2 DEF Stage, Running
  <2> QED
    BY <2>1, <2>2, <2>3, <2>4, <2>5
<1>15. \A c \in Aps : /\ ap[c].slot \in Slots /\ ap[c].do # "wait"
                      /\ slot[ap[c].slot].stack = ap[c].slot + 1
                      /\ ap[c].slot = p => c \in dead /\ ap[c].do = "signalled"
                      /\ c \in Running => ap[c].stack = ap[c].slot + 1
  BY <1>3, <1>4, <1>14 DEF At
<1>16. \A c, d \in Aps : ap[c].slot = ap[d].slot => c = d
  BY <1>14
<1>17. Running' = Running
  BY <1>1, <1>8 DEF Running
<1>18. n' = Len(order') - 1 /\ p <= n' /\ slot'[p].flag = 0
  BY <1>1, <1>2, <1>4, <1>5, <1>8
<1>19. i' = p /\ pc' = "check" /\ dead' = dead /\ slot' = slot /\ ap' = ap
  BY <1>0, <1>1
<1>20. booted' = n' - Len(order') + Word
  BY <1>7, <1>8, <1>18, SmpAssumption
<1>21. n' # Len(order')
  BY <1>8, <1>18
<1>22. /\ Entry(i)'.started = i' /\ slot'[i'].flag = 0
       /\ \A k \in 0..(i' - 1) : Entry(k)'.core \in Aps' /\ At(k)'.do = "ap_initialize"
  BY <1>8, <1>12, <1>13, <1>18, <1>19 DEF Entry
<1>23. \A c \in Aps' : /\ ap'[c].slot \in Slots /\ ap'[c].do # "wait"
                       /\ slot'[ap'[c].slot].stack = ap'[c].slot + 1
                       /\ ap'[c].slot = i' => c \in dead' /\ ap'[c].do = "signalled"
                       /\ c \in Running' => ap'[c].stack = ap'[c].slot + 1
  BY <1>8, <1>15, <1>17, <1>19
<1>24. \A c, d \in Aps' : ap'[c].slot = ap'[d].slot => c = d
  BY <1>8, <1>16, <1>19
<1>25. Slots' = Slots /\ Len(order') <= AtOnce /\ dead' # {}
  BY <1>5, <1>8, <1>19 DEF Slots
<1>26. Failed'
  BY <1>18, <1>19, <1>20, <1>22, <1>23, <1>24, <1>25 DEF Failed
<1> QED
  BY <1>9, <1>21, <1>26


\* The boot core takes out the others that have not started, whose entries have moved to the
\* same place, and is then through with the batch.
LEMMA FailedKeeps ==
  ASSUME BaseInv, TypeInv, n # Len(order), Failed, BootStep
  PROVE  TypeInv' /\ n' # Len(order') /\ Failed'
<1>0. PICK p \in Nat : p = i
  BY DEF BaseInv
<1>1. /\ n \in Nat /\ Len(order) \in Nat /\ n < Len(order) /\ p <= n /\ n <= AtOnce
      /\ booted \in Nat /\ Entry(p).started = p /\ slot[p].flag = 0
  BY <1>0, SmpAssumption DEF BaseInv, Failed
<1>2. CASE pc = "check"
  <2>1. booted = n - Len(order) + Word
    BY <1>2 DEF Failed
  <2>2. CASE CheckFailed
    <3>1. /\ n' = n - 1 /\ booted' = Minus(booted, 1) /\ order' = MovedUp
          /\ UNCHANGED <<pc, i, slot, stacks, ap, dead>> /\ p < n
      BY <1>0, <2>2 DEF CheckFailed, InBatch
    <3>2. booted' = booted - 1
      <4>1. booted - 1 \in Int /\ 0 <= booted - 1 /\ booted - 1 < Word
        BY <1>1, <2>1, SmpAssumption DEF Failed, TypeInv
      <4>2. (booted - 1) % Word = booted - 1
        BY <4>1, Wrapped
      <4> QED
        BY <3>1, <4>2 DEF Minus
    <3>3. Len(order') = Len(order) /\ Aps' = Aps
      <4>1. DOMAIN order' = 1..Len(order)
        BY <3>1 DEF MovedUp
      <4>2. order' = [k \in 1..Len(order) |-> order'[k]]
        BY <3>1 DEF MovedUp
      <4> QED
        BY <3>1, <4>1, <4>2, <1>1 DEF Aps
    <3>4. \A k \in 0..(p - 1) : Entry(k)' = Entry(k)
      <4> SUFFICES ASSUME NEW k \in 0..(p - 1)
                   PROVE  order'[k + 1] = order[k + 1]
        BY DEF Entry
      <4>1. k + 1 \in 1..Len(order) /\ k + 1 \notin (p + 1)..(n - 1)
        BY <1>1
      <4> QED
        BY <1>0, <3>1, <4>1 DEF MovedUp
    <3>5. Entry(p)'.started = p
      <4>1. p + 1 \in 1..Len(order) /\ order[p + 1] \in Elements
        BY <1>1, ElementOfSeq DEF BaseInv
      <4>2. order'[p + 1].started = order[p + 1].started
        <5>1. CASE p + 1 \in (i + 1)..(n - 1)
          <6>1. order'[p + 1] = [order[p + 1] EXCEPT !.core = order[p + 1 + 1].core]
            BY <3>1, <4>1, <5>1 DEF MovedUp
          <6> QED
            BY <4>1, <6>1 DEF Elements
        <5>2. CASE p + 1 \notin (i + 1)..(n - 1)
          BY <3>1, <4>1, <5>2 DEF MovedUp
        <5> QED
          BY <5>1, <5>2
      <4> QED
        BY <1>1, <4>2 DEF Entry
    <3>6. TypeInv'
      BY <3>1, <3>3 DEF TypeInv, Slots
    <3>7. p <= n' /\ n' # Len(order')
      BY <1>1, <3>1, <3>3
    <3>8. booted' = n' - Len(order') + Word
      BY <1>1, <2>1, <3>1, <3>2, <3>3, SmpAssumption
    <3>9. i' = p /\ pc' = "check" /\ Running' = Running /\ Slots' = Slots
      BY <1>0, <1>2, <3>1, <3>3 DEF Running, Slots
    <3>10. /\ Entry(i)'.started = i' /\ slot'[i'].flag = 0
           /\ \A k \in 0..(i' - 1) : Entry(k)'.core \in Aps' /\ At(k)'.do = "ap_initialize"
      <4>1. \A k \in 0..(p - 1) : Entry(k).core \in Aps /\ At(k).do = "ap_initialize"
        BY <1>0 DEF Failed
      <4> QED
        BY <1>1, <3>1, <3>3, <3>4, <3>5, <3>9, <4>1 DEF Entry, At
    <3>11. Failed'
      BY <3>1, <3>3, <3>7, <3>8, <3>9, <3>10 DEF Failed
    <3> QED
      BY <3>6, <3>7, <3>11
  <2>3. CASE NextBatch
    <3>1. UNCHANGED <<order, n, i, slot, stacks, ap, dead>> /\ pc' = "batch" /\ ~InBatch
      BY <2>3 DEF NextBatch
    <3>2. Plus(booted, AtOnce) = n - Len(order) + AtOnce
      <4>1. PICK a \in Int : a = booted + AtOnce
        BY <1>1, SmpAssumption
      <4>2. Word <= a /\ a < 2 * Word /\ a - Word = n - Len(order) + AtOnce
        BY <1>1, <2>1, <4>1, SmpAssumption DEF Failed
      <4>3. a % Word = a - Word
        BY <4>2, Wrapped
      <4> QED
        BY <4>1, <4>2, <4>3 DEF Plus
    <3>3. n <= n - Len(order) + AtOnce
      BY <1>1, SmpAssumption DEF Failed
    <3>4. i = n /\ booted' >= n
      BY <1>0, <1>1, <2>3, <3>1, <3>2, <3>3, SmpAssumption DEF NextBatch, InBatch
    <3>5. TypeInv'
      BY <3>1 DEF TypeInv, Aps, Slots
    <3>6. Failed'
      BY <1>1, <3>1, <3>4 DEF Failed, Entry, At, Aps, Running, Slots
    <3> QED
      BY <3>1, <3>5, <3>6
  <2>4. ~CheckStarted
    BY <1>0, <1>1 DEF CheckStarted
  <2> QED
    BY <1>2, <2>2, <2>3, <2>4 DEF BootStep, Batch, Prepare, Leave, Sipi, Sipi2, Wait1, Wait2
<1>3. CASE pc # "check"
  <2>1. pc \in {"batch", "ready"} /\ i = n /\ booted >= n
    BY <1>3 DEF Failed
  <2>2. Batch
    BY <2>1 DEF BootStep, Batch, Prepare, Leave, Sipi, Sipi2, Wait1, Wait2, CheckStarted,
                CheckFailed, NextBatch
  <2>3. UNCHANGED <<order, n, booted, i, slot, stacks, ap, dead>> /\ pc' = "ready"
    BY <1>1, <2>1, <2>2 DEF Batch
  <2>4. TypeInv'
    BY <2>3 DEF TypeInv, Aps, Slots
  <2>5. Failed'
    BY <2>1, <2>3 DEF Failed, Entry, At, Aps, Running, Slots
  <2> QED
    BY <2>3, <2>4, <2>5
<1> QED
  BY <1>2, <1>3

\* A core that was taken out although it starts goes on in a slot of its own.
LEMMA FailedAp ==
  ASSUME BaseInv, TypeInv, n # Len(order), Failed, NEW c \in Aps, ApStep(c)
  PROVE  TypeInv' /\ n' # Len(order') /\ Failed'
<1>1. UNCHANGED <<pc, order, n, booted, i, stacks, dead>>
  BY DEF ApStep, Start, LoadStack, Arrive
<1>2. /\ ap[c].slot \in Slots /\ slot[ap[c].slot].stack = ap[c].slot + 1
      /\ c \in Running => ap[c].stack = ap[c].slot + 1
  BY DEF Failed
<1>3. ap[c].slot # i /\ ap[c].do \in {"signalled", "trampoline", "stack"}
  BY DEF ApStep, Start, LoadStack, Arrive, Failed
<1>4. ap[c] \in [do : {"wait", "signalled", "trampoline", "stack", "ap_initialize"},
                 slot : Int, stack : Nat]
  BY DEF TypeInv
<1>5. PICK q \in Slots, old \in [flag : Nat, done : BOOLEAN, stack : Nat] :
        q = ap[c].slot /\ old = slot[q]
  BY <1>2 DEF TypeInv
<1>6. /\ ap' \in [Aps -> [do : {"wait", "signalled", "trampoline", "stack", "ap_initialize"},
                          slot : Int, stack : Nat]]
      /\ slot' \in [Slots -> [flag : Nat, done : BOOLEAN, stack : Nat]]
      /\ \A d \in Aps : d # c => ap'[d] = ap[d]
      /\ \A s \in Slots : s # q => slot'[s] = slot[s]
      /\ ap'[c].slot = q /\ ap'[c].do # "wait" /\ slot'[q].stack = q + 1
      /\ ap'[c].do \in {"stack", "ap_initialize"} => ap'[c].stack = q + 1
  <2>1. CASE Start(c)
    <3>1. /\ slot' = [slot EXCEPT ![q] = [old EXCEPT !.flag = old.flag + 1]]
          /\ ap' = [ap EXCEPT ![c].do = "trampoline"]
      BY <1>5, <2>1 DEF Start
    <3>2. PICK new : new = [old EXCEPT !.flag = old.flag + 1]
      OBVIOUS
    <3>3. new \in [flag : Nat, done : BOOLEAN, stack : Nat] /\ new.stack = old.stack
      BY <3>2
    <3>4. slot' = [slot EXCEPT ![q] = new]
      BY <3>1, <3>2
    <3>5. /\ slot' \in [Slots -> [flag : Nat, done : BOOLEAN, stack : Nat]]
          /\ \A s \in Slots : s # q => slot'[s] = slot[s]
          /\ slot'[q].stack = q + 1
      BY <1>2, <1>5, <3>3, <3>4 DEF TypeInv
    <3> QED
      BY <1>4, <1>5, <3>1, <3>5 DEF TypeInv
  <2>2. CASE LoadStack(c)
    <3>1. ap' = [ap EXCEPT ![c].do = "stack", ![c].stack = slot[q].stack] /\ slot' = slot
      BY <1>5, <2>2 DEF LoadStack
    <3>2. PICK r : r = [ap EXCEPT ![c].do = "stack"]
      OBVIOUS
    <3>3. /\ r \in [Aps -> [do : {"wait", "signalled", "trampoline", "stack", "ap_initialize"},
                            slot : Int, stack : Nat]]
          /\ \A d \in Aps : d # c => r[d] = ap[d]
          /\ r[c].do = "stack" /\ r[c].slot = ap[c].slot
      BY <1>4, <3>2 DEF TypeInv
    <3>4. ap' = [r EXCEPT ![c].stack = slot[q].stack] /\ slot[q].stack = q + 1 /\ q + 1 \in Nat
      BY <1>2, <1>5, <3>1, <3>2 DEF Slots
    <3>5. /\ ap' \in [Aps -> [do : {"wait", "signalled", "trampoline", "stack", "ap_initialize"},
                              slot : Int, stack : Nat]]
          /\ \A d \in Aps : d # c => ap'[d] = ap[d]
          /\ ap'[c].do = "stack" /\ ap'[c].slot = q /\ ap'[c].stack = q + 1
      BY <1>5, <3>3, <3>4
    <3> QED
      BY <3>1, <3>4, <3>5 DEF TypeInv
  <2>3. CASE Arrive(c)
    <3>1. /\ slot' = [slot EXCEPT ![q] = [old EXCEPT !.done = TRUE]]
          /\ ap' = [ap EXCEPT ![c].do = "ap_initialize"] /\ ap[c].do = "stack"
      BY <1>5, <2>3 DEF Arrive
    <3>2. PICK new : new = [old EXCEPT !.done = TRUE]
      OBVIOUS
    <3>3. new \in [flag : Nat, done : BOOLEAN, stack : Nat] /\ new.stack = old.stack
      BY <3>2
    <3>4. slot' = [slot EXCEPT ![q] = new]
      BY <3>1, <3>2
    <3>5. /\ slot' \in [Slots -> [flag : Nat, done : BOOLEAN, stack : Nat]]
          /\ \A s \in Slots : s # q => slot'[s] = slot[s]
          /\ slot'[q].stack = q + 1
      BY <1>2, <1>5, <3>3, <3>4 DEF TypeInv
    <3>6. ap[c].stack = q + 1
      BY <1>2, <1>5, <3>1 DEF Running
    <3> QED
      BY <1>4, <1>5, <3>1, <3>5, <3>6 DEF TypeInv
  <2> QED
    BY <2>1, <2>2, <2>3 DEF ApStep
<1>7. Aps' = Aps
  BY <1>6 DEF Aps
<1>8. TypeInv'
  BY <1>1, <1>6, <1>7 DEF TypeInv, Slots
<1>9. slot'[i] = slot[i]
  <2>1. i \in Slots
    BY SmpAssumption DEF Failed, Slots, BaseInv
  <2> QED
    BY <1>3, <1>5, <1>6, <2>1
<1>10. \A k \in 0..(i - 1) : Entry(k).core # c
  BY <1>3 DEF Failed, At
<1>11. \A k \in 0..(i - 1) : Entry(k)' = Entry(k) /\ At(k)' = At(k) /\ Entry(k).core \in Aps
  BY <1>1, <1>6, <1>10 DEF Failed, Entry, At
<1>12. \A d \in Aps : /\ ap'[d].slot = ap[d].slot /\ ap'[d].do # "wait"
                      /\ slot'[ap[d].slot].stack = ap[d].slot + 1
                      /\ ap[d].slot = i => d \in dead /\ ap'[d].do = "signalled"
                      /\ d \in Running' => ap'[d].stack = ap[d].slot + 1
  <2> SUFFICES ASSUME NEW d \in Aps
               PROVE  /\ ap'[d].slot = ap[d].slot /\ ap'[d].do # "wait"
                      /\ slot'[ap[d].slot].stack = ap[d].slot + 1
                      /\ ap[d].slot = i => d \in dead /\ ap'[d].do = "signalled"
                      /\ d \in Running' => ap'[d].stack = ap[d].slot + 1
    OBVIOUS
  <2>1. CASE d = c
    BY <1>3, <1>5, <1>6, <2>1 DEF Running
  <2>2. CASE d # c
    <3>1. ap'[d] = ap[d] /\ ap[d].slot # q
      BY <1>5, <1>6, <2>2 DEF Failed
    <3>2. slot'[ap[d].slot] = slot[ap[d].slot]
      BY <1>6, <3>1 DEF Failed
    <3> QED
      BY <1>7, <3>1, <3>2 DEF Failed, Running
  <2> QED
    BY <2>1, <2>2
<1>13. Failed'
  <2>1. Entry(i)' = Entry(i)
    BY <1>1 DEF Entry
  <2>2. /\ \A d \in Aps' : /\ ap'[d].slot \in Slots' /\ ap'[d].do # "wait"
                           /\ slot'[ap'[d].slot].stack = ap'[d].slot + 1
                           /\ ap'[d].slot = i' => d \in dead' /\ ap'[d].do = "signalled"
                           /\ d \in Running' => ap'[d].stack = ap'[d].slot + 1
        /\ \A d, e \in Aps' : ap'[d].slot = ap'[e].slot => d = e
    BY <1>1, <1>7, <1>12 DEF Failed, Slots
  <2>3. \A k \in 0..(i' - 1) : Entry(k)'.core \in Aps' /\ At(k)'.do = "ap_initialize"
    BY <1>1, <1>7, <1>11 DEF Failed
  <2> QED
    BY <1>1, <1>9, <2>1, <2>2, <2>3 DEF Failed
<1> QED
  BY <1>1, <1>8, <1>13


------------------------------------------------------------------------------
(* The theorems                                                            *)

\* Before boot nothing has happened.
LEMMA InitHolds ==
  ASSUME SmpInit
  PROVE  IInv
<1>1. order = <<>> /\ Len(order) = 0 /\ order \in Seq(Elements)
  BY DEF SmpInit
<1>2. BaseInv
  BY <1>1 DEF SmpInit, BaseInv
<1>3. Aps = {} /\ Positions = {}
  BY <1>1 DEF SmpInit, Aps, Positions
<1>4. Copied \in [flag : Nat, done : BOOLEAN, stack : Nat]
  BY DEF Copied
<1>5. TypeInv
  BY <1>1, <1>3, <1>4, SmpAssumption DEF SmpInit, TypeInv, Aps
<1>6. Whole
  <2>1. Current = {}
    BY DEF Current, SmpInit
  <2> QED
    BY <1>1, <1>3, <2>1 DEF SmpInit, Whole
<1> QED
  BY <1>1, <1>2, <1>5, <1>6 DEF SmpInit, IInv, Inner

\* The call of smp::boot.
LEMMA BootHolds ==
  ASSUME BaseInv, BootAny
  PROVE  Inner'
<1>1. PICK list \in Seq(Ids), gone \in SUBSET Ids :
        /\ \A j, k \in 1..Len(list) : list[j] = list[k] => j = k
        /\ Len(list) + AtOnce < Word
        /\ Boot(list, gone)
  BY DEF BootAny
<1>2. /\ order' = [k \in 1..Len(list) |-> [core |-> list[k], started |-> -1]]
      /\ ap' = [c \in {list[k] : k \in 1..Len(list)} |-> [do |-> "wait", slot |-> -1, stack |-> 0]]
      /\ n' = Len(list) /\ pc' = "batch" /\ UNCHANGED <<booted, i, slot, stacks>>
      /\ booted = 0 /\ i = 0 /\ stacks = 0 /\ slot = [s \in Slots |-> Copied]
  BY <1>1 DEF Boot, BaseInv, SmpInit
<1>3. Len(order') = Len(list) /\ Len(list) \in Nat
  BY <1>2
<1>4. Aps' = {list[k] : k \in 1..Len(list)}
  BY <1>2 DEF Aps
<1>5. Copied \in [flag : Nat, done : BOOLEAN, stack : Nat]
  BY DEF Copied
<1>6. ap' \in [Aps' -> [do : {"wait", "signalled", "trampoline", "stack", "ap_initialize"},
                        slot : Int, stack : Nat]]
  BY <1>2, <1>4
<1>7. TypeInv'
  BY <1>1, <1>2, <1>3, <1>5, <1>6 DEF TypeInv, Slots
<1>8. Positions' = 0..(Len(list) - 1) /\ Current' = {}
  BY <1>2, <1>3 DEF Positions, Current
<1>9. \A k \in 0..(Len(list) - 1) : /\ k + 1 \in 1..Len(list)
                                    /\ Entry(k)'.core = list[k + 1]
  BY <1>2, <1>3 DEF Entry
<1>10. \A k \in 0..(Len(list) - 1) : At(k)'.do = "wait"
  BY <1>2, <1>9 DEF At
<1>11. \A j, k \in 0..(Len(list) - 1) : Entry(j)'.core = Entry(k)'.core => j = k
  BY <1>1, <1>3, <1>9
<1>12. Aps' = {Entry(k)'.core : k \in 0..(Len(list) - 1)}
  <2>1. \A c \in Aps' : \E k \in 0..(Len(list) - 1) : c = Entry(k)'.core
    <3> SUFFICES ASSUME NEW k \in 1..Len(list)
                 PROVE  \E j \in 0..(Len(list) - 1) : list[k] = Entry(j)'.core
      BY <1>4
    <3>1. k - 1 \in 0..(Len(list) - 1) /\ k - 1 + 1 = k
      BY <1>3
    <3> QED
      BY <1>9, <3>1
  <2>2. \A k \in 0..(Len(list) - 1) : Entry(k)'.core \in Aps'
    BY <1>4, <1>9
  <2> QED
    BY <2>1, <2>2
<1>13. Whole'
  BY <1>2, <1>3, <1>8, <1>9, <1>10, <1>11, <1>12, SmpAssumption DEF Whole
<1> QED
  BY <1>2, <1>3, <1>7, <1>13 DEF Inner

\* No step of boot or of the trampoline changes how many cores there are or which are dead.
LEMMA OrderlyKept ==
  ASSUME BaseInv, SmpNext, Orderly'
  PROVE  Orderly
<1>1. dead' = dead
  BY DEF SmpNext, BootStep, ApStep, Batch, Prepare, Leave, Sipi, Sipi2, Wait1, Wait2,
         CheckStarted, CheckFailed, NextBatch, Start, LoadStack, Arrive
<1>2. Len(order') = Len(order)
  <2>1. CASE Prepare
    BY <2>1 DEF Prepare, BaseInv
  <2>2. CASE CheckFailed
    <3>1. order' = MovedUp /\ DOMAIN order' = 1..Len(order) /\ Len(order) \in Nat
      BY <2>2 DEF CheckFailed, MovedUp, BaseInv
    <3>2. order' = [k \in 1..Len(order) |-> order'[k]]
      BY <3>1 DEF MovedUp
    <3> QED
      BY <3>1, <3>2
  <2>3. CASE ~Prepare /\ ~CheckFailed
    BY <2>3 DEF SmpNext, BootStep, ApStep, Batch, Leave, Sipi, Sipi2, Wait1, Wait2,
                CheckStarted, NextBatch, Start, LoadStack, Arrive
  <2> QED
    BY <2>1, <2>2, <2>3
<1> QED
  BY <1>1, <1>2 DEF Orderly

\* Every step keeps the invariant.
LEMMA StepHolds ==
  ASSUME IInv, [BootAny \/ SmpNext]_smpVars
  PROVE  IInv'
<1>1. BaseInv /\ BaseInv'
  BY BaseKept DEF IInv
<1>2. CASE BootAny
  BY <1>1, <1>2, BootHolds DEF IInv
<1>3. CASE SmpNext
  <2> SUFFICES ASSUME Orderly'
               PROVE  Inner'
    BY <1>1 DEF IInv
  <2>1. Orderly /\ Inner /\ TypeInv
    BY <1>1, <1>3, OrderlyKept DEF IInv, Inner
  <2>2. CASE n = Len(order)
    <3>1. Whole
      BY <2>1, <2>2 DEF Inner
    <3>2. CASE CheckFailed
      BY <1>1, <2>1, <2>2, <3>1, <3>2, FirstFails DEF Inner
    <3>3. CASE BootStep /\ ~CheckFailed
      <4>1. TypeInv' /\ n' = Len(order') /\ Whole'
        BY <1>1, <2>1, <2>2, <3>1, <3>3, BatchKeeps, PrepareKeeps, LeaveKeeps, WaitKeeps,
           CheckStartedKeeps, NextBatchKeeps, SipiKeeps DEF BootStep
      <4> QED
        BY <4>1 DEF Inner
    <3>4. CASE \E c \in Aps : ApStep(c)
      <4>1. TypeInv' /\ n' = Len(order') /\ Whole'
        BY <1>1, <2>1, <2>2, <3>1, <3>4, ApKeeps
      <4> QED
        BY <4>1 DEF Inner
    <3> QED
      BY <1>3, <3>2, <3>3, <3>4 DEF SmpNext
  <2>3. CASE n # Len(order)
    <3>1. Failed
      BY <2>1, <2>3 DEF Inner
    <3>2. TypeInv' /\ n' # Len(order') /\ Failed'
      BY <1>1, <1>3, <2>1, <2>3, <3>1, FailedKeeps, FailedAp DEF SmpNext
    <3> QED
      BY <3>2 DEF Inner
  <2> QED
    BY <2>2, <2>3
<1>4. CASE UNCHANGED smpVars
  <2>1. /\ pc' = pc /\ order' = order /\ n' = n /\ booted' = booted /\ i' = i /\ slot' = slot
        /\ stacks' = stacks /\ ap' = ap /\ dead' = dead
    BY <1>4 DEF smpVars
  <2>2. TypeInv' <=> TypeInv
    BY <2>1 DEF TypeInv, Aps, Slots
  <2>3. Failed' <=> Failed
    BY <2>1 DEF Failed, Aps, Entry, At, Running, Slots
  <2>4. Whole' <=> Whole
    <3>1. Positions' = Positions /\ End' = End /\ Current' = Current
      BY <2>1 DEF Positions, End, Current
    <3>2. \A k : Entry(k)' = Entry(k) /\ At(k)' = At(k)
      BY <2>1 DEF Entry, At
    <3>3. \A k : (Stage(k)' <=> Stage(k)) /\ (Reached(k)' <=> Reached(k))
      BY <2>1, <3>2 DEF Stage, Reached
    <3>4. (\A k \in Current : Stage(k) /\ Reached(k))'
            <=> \A k \in Current : Stage(k) /\ Reached(k)
      BY <3>1, <3>3, Zenon
    <3>5. /\ (\A j, k \in Positions : Entry(j).core = Entry(k).core => j = k)'
               <=> \A j, k \in Positions : Entry(j).core = Entry(k).core => j = k
          /\ (Aps = {Entry(k).core : k \in Positions})'
               <=> Aps = {Entry(k).core : k \in Positions}
      BY <2>1, <3>1, <3>2 DEF Aps
    <3>6. /\ (\A k \in Positions : k < booted => At(k).do = "ap_initialize"
                                              /\ At(k).stack = k + 1)'
               <=> \A k \in Positions : k < booted => At(k).do = "ap_initialize"
                                                    /\ At(k).stack = k + 1
          /\ (\A k \in Positions : k >= booted /\ k \notin Current => At(k).do = "wait")'
               <=> \A k \in Positions : k >= booted /\ k \notin Current => At(k).do = "wait"
      BY <2>1, <3>1, <3>2
    <3> HIDE DEF Positions, Current, Entry, At, Stage, Reached, Aps, End
    <3> QED
      BY <2>1, <3>1, <3>4, <3>5, <3>6 DEF Whole
  <2> QED
    BY <1>1, <2>1, <2>2, <2>3, <2>4 DEF IInv, Inner, Orderly
<1> QED
  BY <1>2, <1>3, <1>4

\* What the invariant says of the stacks and of the cores that were kept.
LEMMA KeptRunFollows ==
  ASSUME IInv
  PROVE  KeptRun
<1> SUFFICES ASSUME Orderly
             PROVE  /\ \A c, d \in Running : ap[c].stack = ap[d].stack => c = d
                    /\ pc = "ready" => /\ \A c \in Kept : ap[c].do = "ap_initialize"
                                       /\ dead = {} => Kept = Aps
  BY DEF KeptRun, Orderly
<1>1. BaseInv /\ Inner /\ TypeInv
  BY DEF IInv, Inner
<1>2. CASE n = Len(order)
  <2>1. Whole
    BY <1>1, <1>2 DEF Inner
  <2>2. \A c \in Running : \E k \in Positions : c = Entry(k).core /\ ap[c].stack = k + 1
    <3> SUFFICES ASSUME NEW c \in Running
                 PROVE  \E k \in Positions : c = Entry(k).core /\ ap[c].stack = k + 1
      OBVIOUS
    <3>1. PICK k \in Positions : c = Entry(k).core
      BY <2>1 DEF Whole, Running
    <3>2. At(k) = ap[c] /\ At(k).do \in {"stack", "ap_initialize"} /\ k \in Nat
      BY <3>1 DEF At, Running, Positions
    <3>3. CASE k < booted
      BY <2>1, <3>1, <3>2, <3>3 DEF Whole
    <3>4. CASE ~(k < booted)
      <4>1. k \in Current
        BY <1>1, <2>1, <3>2, <3>4 DEF Whole, BaseInv
      <4> QED
        BY <2>1, <3>1, <3>2, <4>1 DEF Whole, Stage
    <3> QED
      BY <3>3, <3>4
  <2>3. \A k \in Positions : k \in Int
    BY DEF Positions
  <2>4. \A c, d \in Running : ap[c].stack = ap[d].stack => c = d
    <3> SUFFICES ASSUME NEW c \in Running, NEW d \in Running, ap[c].stack = ap[d].stack
                 PROVE  c = d
      OBVIOUS
    <3>1. PICK j \in Positions : c = Entry(j).core /\ ap[c].stack = j + 1
      BY <2>2
    <3>2. PICK k \in Positions : d = Entry(k).core /\ ap[d].stack = k + 1
      BY <2>2
    <3>3. j = k
      BY <2>3, <3>1, <3>2
    <3> QED
      BY <3>1, <3>2, <3>3
  <2>5. ASSUME pc = "ready"
        PROVE  (\A c \in Kept : ap[c].do = "ap_initialize") /\ Kept = Aps
    <3>1. \A k \in Positions : At(k).do = "ap_initialize"
      <4> SUFFICES ASSUME NEW k \in Positions
                   PROVE  k < booted
        BY <2>1 DEF Whole
      <4> QED
        BY <1>1, <1>2, <2>1, <2>5 DEF Whole, Positions, BaseInv
    <3>2. Kept = {Entry(k).core : k \in Positions}
      <4>1. \A k \in 1..n : k - 1 \in Positions /\ order[k].core = Entry(k - 1).core
        BY <1>1, <1>2 DEF Positions, Entry, BaseInv
      <4>2. \A k \in Positions : k + 1 \in 1..n /\ order[k + 1].core = Entry(k).core
        BY <1>1, <1>2 DEF Positions, Entry, BaseInv
      <4> QED
        BY <4>1, <4>2 DEF Kept
    <3> QED
      BY <2>1, <3>1, <3>2 DEF Whole, At
  <2> QED
    BY <2>4, <2>5
<1>3. CASE n # Len(order)
  <2>1. Failed
    BY <1>1, <1>3 DEF Inner
  <2>2. \A c, d \in Running : ap[c].stack = ap[d].stack => c = d
    <3> SUFFICES ASSUME NEW c \in Running, NEW d \in Running, ap[c].stack = ap[d].stack
                 PROVE  c = d
      OBVIOUS
    <3>1. /\ c \in Aps /\ d \in Aps /\ ap[c].slot \in Int /\ ap[d].slot \in Int
          /\ ap[c].stack = ap[c].slot + 1 /\ ap[d].stack = ap[d].slot + 1
      BY <2>1 DEF Failed, Running, Slots
    <3>2. \A a, b \in Int : a + 1 = b + 1 => a = b
      OBVIOUS
    <3>3. ap[c].slot = ap[d].slot
      BY <3>1, <3>2
    <3> QED
      BY <2>1, <3>1, <3>3 DEF Failed
  <2>3. pc = "ready" => \A c \in Kept : ap[c].do = "ap_initialize"
    <3> SUFFICES ASSUME pc = "ready", NEW k \in 1..n
                 PROVE  ap[order[k].core].do = "ap_initialize"
      BY DEF Kept
    <3>1. k - 1 \in 0..(i - 1) /\ k - 1 + 1 = k
      BY <1>1, <2>1 DEF Failed, BaseInv
    <3>2. At(k - 1).do = "ap_initialize" /\ Entry(k - 1) = order[k]
      BY <2>1, <3>1 DEF Failed, Entry
    <3> QED
      BY <3>2 DEF At
  <2> QED
    BY <2>1, <2>2, <2>3 DEF Failed
<1> QED
  BY <1>2, <1>3

\* The array of cores, the slots and the cores agree, for any number of cores and of slots:
\* with every core alive, or with dead ones and a single batch.
THEOREM Invariance == SmpSpec => []IInv
<1>1. SmpInit => IInv
  BY InitHolds
<1>2. IInv /\ [BootAny \/ SmpNext]_smpVars => IInv'
  BY StepHolds
<1> QED
  BY <1>1, <1>2, PTL DEF SmpSpec

\* smp::boot leaves no core in memory that is about to be unmapped, and no two on one stack.
THEOREM KeptRunHolds == SmpSpec => []KeptRun
<1>1. IInv => KeptRun
  BY KeptRunFollows
<1> QED
  BY <1>1, Invariance, PTL
==============================================================================
