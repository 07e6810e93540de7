------------------------ MODULE ParallelExecuteProofs ------------------------
(***************************************************************************)
(* Proofs about ParallelExecute, for every finite set of cores, every      *)
(* number of slots and of calls, when only the waiting policies are used:  *)
(* parallel_execute implements RemoteCall.                                 *)
(***************************************************************************)
EXTENDS ParallelExecute, FiniteSetTheorems, TLAPS

\* A call is a pair of its caller and its number.
LEMMA CallFacts ==
  /\ \A x \in Calls : /\ Caller(x) \in Cores /\ Number(x) \in 1..MaxCalls
                      /\ x = Call(Caller(x), Number(x))
  /\ \A c \in Cores, n \in 1..MaxCalls :
        Call(c, n) \in Calls /\ Caller(Call(c, n)) = c /\ Number(Call(c, n)) = n
BY DEF Calls, Call, Caller, Number

\* The ring index stays in range.
LEMMA NextSlot == \A n \in Slots : (n + 1) % NSlots \in Slots
BY ConfigAssumption DEF Slots

\* The number of cores, and of a set of cores, is a natural number.
LEMMA CoreSets == \A S \in SUBSET Cores : IsFiniteSet(S) /\ Cardinality(S) \in Nat
BY ConfigAssumption, FS_Subset, FS_CardinalityType

\* The core inside a call has made it.
LEMMA CurrentIsACall ==
  ASSUME IInv, NEW c \in Cores, pc[c] # "idle"
  PROVE  Current(c) \in Calls /\ Caller(Current(c)) = c /\ Number(Current(c)) = made[c]
BY CallFacts, ConfigAssumption DEF IInv, TypeOK, Arguments, Current

\* What a call's status says, now and in the next state.
LEMMA StatusIs ==
  ASSUME NEW x \in Calls, TypeOK
  PROVE  Status(x) = IF Number(x) > made[Caller(x)] THEN "unused"
                     ELSE IF Number(x) = made[Caller(x)] /\ pc[Caller(x)] \in CallPCs
                          THEN "active" ELSE "returned"
<1>1. ~(Number(x) > made[Caller(x)] /\ Number(x) = made[Caller(x)])
  BY CallFacts, ConfigAssumption DEF TypeOK
<1> QED
  BY <1>1, Zenon DEF Status

\* The same of the next state.
LEMMA StatusIsNext ==
  ASSUME NEW x \in Calls, TypeOK'
  PROVE  Status(x)' = IF Number(x) > made'[Caller(x)] THEN "unused"
                      ELSE IF Number(x) = made'[Caller(x)] /\ pc'[Caller(x)] \in CallPCs
                           THEN "active" ELSE "returned"
<1>1. ~(Number(x) > made'[Caller(x)] /\ Number(x) = made'[Caller(x)])
  BY CallFacts, ConfigAssumption DEF TypeOK
<1> QED
  BY <1>1, Zenon DEF Status

\* It changes only when a call is begun or its wait ends.
LEMMA StatusUnchanged ==
  ASSUME TypeOK, TypeOK', made' = made,
         \A e \in Cores : pc'[e] \in CallPCs <=> pc[e] \in CallPCs
  PROVE  \A x \in Calls : Status(x)' = Status(x)
BY CallFacts, StatusIs, StatusIsNext

\* The cores that a policy names.
LEMMA NamedIs ==
  ASSUME NEW p \in WaitingPolicies, NEW c \in Cores, NEW t \in Cores
  PROVE  Named(p, c, t) = IF p = "all" THEN Cores
                          ELSE IF p = "others" THEN Cores \ {c} ELSE {t}
<1>1. CASE p = "all"
  BY <1>1 DEF Named
<1>2. CASE p = "others"
  BY <1>2 DEF Named
<1>3. CASE p = "specific"
  BY <1>3 DEF Named
<1> QED
  BY <1>1, <1>2, <1>3 DEF WaitingPolicies

\* The only active call of a core is its current one.
LEMMA ActiveIsCurrent ==
  ASSUME IInv, NEW x \in Calls
  PROVE  Status(x) = "active" <=> /\ x = Current(Caller(x)) /\ pc[Caller(x)] \in CallPCs
<1>1. /\ Caller(x) \in Cores /\ Number(x) \in Nat /\ made[Caller(x)] \in Nat /\ TypeOK
      /\ x = Call(Caller(x), Number(x))
  BY CallFacts, ConfigAssumption DEF IInv, TypeOK
<1>2. x = Current(Caller(x)) <=> Number(x) = made[Caller(x)]
  <2>1. ASSUME x = Current(Caller(x)) PROVE Number(x) = made[Caller(x)]
    BY <2>1 DEF Current, Call, Number
  <2>2. ASSUME Number(x) = made[Caller(x)] PROVE x = Current(Caller(x))
    BY <1>1, <2>2 DEF Current
  <2> QED
    BY <2>1, <2>2
<1> QED
  BY <1>1, <1>2, StatusIs

\* One core at a time is inside the lock of a slot.
LEMMA OneOwner ==
  ASSUME IInv, NEW c \in Cores, NEW d \in Cores, pc[c] \in LockedPCs, pc[d] \in LockedPCs,
         slot[c] = slot[d]
  PROVE  c = d
BY DEF IInv, TypeOK, SlotIsOwned, Owns

------------------------------------------------------------------------------
(* Steps of a caller that concern only its slot and its own statement      *)

CallerOnly(c) == /\ UNCHANGED <<policy, target, made, asked>>
                 /\ UNCHANGED <<pending, hpc, hslot, hfptr>>
                 /\ \A e \in Cores \ {c} : pc'[e] = pc[e] /\ slot'[e] = slot[e]
                 /\ pc'[c] \in CallPCs \cup ReturnPCs /\ slot'[c] \in Slots

\* What other callers wait for does not change.
LEMMA OthersUnchanged ==
  ASSUME NEW c \in Cores, CallerOnly(c), NEW e \in Cores \ {c}
  PROVE  /\ Owing(e)' = Owing(e)
         /\ Current(e)' = Current(e)
         /\ \A d \in Cores : Awaits(e, d)' <=> Awaits(e, d)
         /\ \A d \in Cores : HasToRun(e, d)' <=> HasToRun(e, d)
BY DEF CallerOnly, Owing, HasToFinish, ToFinish, Awaits, HasToRun, ToRun, Current

\* Vectors in flight stay accounted for when the caller is not waiting or keeps waiting.
LEMMA InFlightUnchanged ==
  ASSUME IInv, NEW c \in Cores, CallerOnly(c),
         pc[c] \in SentPCs => pc'[c] \in SentPCs /\ slot'[c] = slot[c]
  PROVE  InFlight' /\ OneVector'
<1>1. \A e, d \in Cores : Awaits(e, d) => Awaits(e, d)' /\ slot'[e] = slot[e]
  BY DEF CallerOnly, Awaits, Current
<1>2. \A d \in Cores, s \in Slots : ToFinish(d, s)' <=> ToFinish(d, s)
  BY DEF CallerOnly, ToFinish
<1>3. InFlight'
  BY <1>1, <1>2 DEF IInv, InFlight
<1>4. OneVector'
  BY DEF IInv, OneVector, CallerOnly
<1> QED
  BY <1>3, <1>4

\* A slot in flight belongs to a core that waits.
LEMMA ServedIsAwaited ==
  ASSUME IInv, NEW c \in Cores, pc[c] \in LockedPCs \ SentPCs, NEW d \in Cores
  PROVE  ~ToFinish(d, slot[c])
<1> SUFFICES ASSUME ToFinish(d, slot[c]) PROVE FALSE
  OBVIOUS
<1>1. PICK e \in Cores : slot[e] = slot[c] /\ Awaits(e, d)
  BY DEF IInv, TypeOK, InFlight
<1>2. pc[e] \in SentPCs /\ pc[e] \in LockedPCs
  BY <1>1 DEF Awaits, SentPCs, LockedPCs, CallPCs
<1> QED
  BY <1>1, <1>2, OneOwner

\* A call to all cores names its caller.
LEMMA SelfIsNamed ==
  ASSUME IInv, NEW c \in Cores, pc[c] # "idle", policy[c] = "all"
  PROVE  c \in asked[Current(c)]
<1>1. asked[Current(c)] = Named("all", c, target[c]) /\ target[c] \in Cores
  BY DEF IInv, TypeOK, Arguments
<1> QED
  BY <1>1, NamedIs DEF WaitingPolicies

\* The core that executes its own function is not served through its slot.
LEMMA SelfIsNotServed ==
  ASSUME IInv, NEW c \in Cores, pc[c] \in SentPCs, policy[c] = "all"
  PROVE  ~ToFinish(c, slot[c])
<1> SUFFICES ASSUME ToFinish(c, slot[c]) PROVE FALSE
  OBVIOUS
<1>1. PICK e \in Cores : slot[e] = slot[c] /\ Awaits(e, c)
  BY DEF IInv, TypeOK, InFlight
<1>2. e = c
  BY <1>1, OneOwner DEF Awaits, SentPCs, LockedPCs, CallPCs
<1> QED
  BY <1>1, <1>2 DEF Awaits

\* The count stays right when it is not written and the caller stays on its side of it.
LEMMA CountUnchanged ==
  ASSUME IInv, NEW c \in Cores, CallerOnly(c), unfinished' = unfinished,
         pc'[c] \notin {"send"} \cup SentPCs
  PROVE  CountIsOwed'
<1>1. \A e \in Cores \ {c} : Owing(e)' = Owing(e)
  BY OthersUnchanged
<1> QED
  BY <1>1 DEF IInv, CountIsOwed, CallerOnly

\* Arguments do not change while a call is in progress.
LEMMA ArgumentsUnchanged ==
  ASSUME IInv, NEW c \in Online, CallerOnly(c), pc[c] # "idle",
         pc'[c] \in {"self", "selfDone"} => pc[c] \in {"self", "selfDone"}
  PROVE  Arguments'
BY ConfigAssumption DEF IInv, Arguments, CallerOnly, Current

\* Executions are accounted for as before when the caller's statement is not a border.
LEMMA RanUnchanged ==
  ASSUME IInv, NEW c \in Online, CallerOnly(c), TypeOK', ran' = ran, pc[c] # "idle",
         pc[c] \in CallPCs <=> pc'[c] \in CallPCs,
         pc[c] \in SentPCs <=> pc'[c] \in SentPCs,
         pc[c] \in SentPCs => slot'[c] = slot[c],
         pc[c] = "self" <=> pc'[c] = "self"
  PROVE  RanExactly'
<1>1. c \in Cores
  BY ConfigAssumption
<1>2. \A x \in Calls : Status(x)' = Status(x)
  BY <1>1, StatusUnchanged DEF CallerOnly, IInv
<1>3. \A e, d \in Cores : HasToRun(e, d)' <=> HasToRun(e, d)
  BY <1>1, OthersUnchanged DEF HasToRun, ToRun, CallerOnly, Current
<1> QED
  BY <1>2, <1>3, CallFacts DEF IInv, RanExactly, CallerOnly

\* A slot keeps its owner when the lock is not written and the caller stays in or out of it.
LEMMA OwnersUnchanged ==
  ASSUME IInv, NEW c \in Cores, CallerOnly(c), lock' = lock,
         pc[c] \in LockedPCs <=> pc'[c] \in LockedPCs,
         pc[c] \in LockedPCs => slot'[c] = slot[c]
  PROVE  SlotIsOwned'
<1>1. \A e \in Cores, s \in Slots : Owns(e, s)' <=> Owns(e, s)
  BY DEF Owns, CallerOnly
<1> QED
  BY <1>1 DEF IInv, SlotIsOwned

\* What the other callers have published stays when only the caller's slot is written.
LEMMA ContentUnchanged ==
  ASSUME IInv, NEW c \in Cores, CallerOnly(c),
         \A s \in Slots : (pc[c] \in LockedPCs /\ s = slot[c])
                          \/ (fptr'[s] = fptr[s] /\ data'[s] = data[s]),
         pc'[c] \in {"data", "count", "send"} \cup SentPCs => fptr'[slot'[c]] = Current(c),
         pc'[c] \in {"count", "send"} \cup SentPCs => data'[slot'[c]] = Current(c)
  PROVE  SlotContent'
<1>1. ASSUME NEW e \in Cores \ {c}, pc[e] \in LockedPCs
      PROVE  fptr'[slot[e]] = fptr[slot[e]] /\ data'[slot[e]] = data[slot[e]]
  BY <1>1, OneOwner DEF IInv, TypeOK
<1>2. \A e \in Cores : Current(e)' = Current(e)
  BY DEF Current, CallerOnly
<1>3. {"data", "count", "send"} \cup SentPCs \subseteq LockedPCs
  BY DEF SentPCs, LockedPCs, CallPCs
<1> QED
  BY <1>1, <1>2, <1>3 DEF IInv, SlotContent, CallerOnly

\* The function a handler has loaded stays that of its slot when no served slot is written.
LEMMA LoadedUnchanged ==
  ASSUME IInv, NEW c \in Cores, CallerOnly(c),
         \A s \in Slots : (pc[c] \in LockedPCs \ SentPCs /\ s = slot[c]) \/ fptr'[s] = fptr[s]
  PROVE  Loaded'
<1>1. ASSUME NEW d \in Cores, hpc[d] # "none" PROVE fptr'[hslot[d]] = fptr[hslot[d]]
  BY <1>1, ServedIsAwaited DEF IInv, TypeOK, ToFinish
<1> QED
  BY <1>1 DEF IInv, Loaded, CallerOnly

\* Counts stay right when the caller's is written elsewhere and it goes on owing as before.
LEMMA OwingUnchanged ==
  ASSUME IInv, NEW c \in Cores, CallerOnly(c), unfinished' = unfinished,
         slot'[c] = slot[c], pc[c] \in SentPCs, pc'[c] \in SentPCs, Owing(c)' = Owing(c)
  PROVE  CountIsOwed'
<1>1. \A e \in Cores \ {c} : Owing(e)' = Owing(e)
  BY OthersUnchanged
<1> QED
  BY <1>1 DEF IInv, CountIsOwed, CallerOnly

------------------------------------------------------------------------------
(* One lemma per statement of the caller                                   *)

\* Taking a slot number: nothing but next and slot[c] changes.
LEMMA FetchSlotInv == ASSUME IInv, NEW c \in Online, FetchSlot(c) PROVE IInv'
<1> USE DEF FetchSlot, Goto, handlers
<1>0. c \in Cores /\ pc[c] = "fetch"
  BY ConfigAssumption
<1>1. TypeOK'
  BY <1>0, NextSlot DEF IInv, TypeOK, CallPCs
<1>2. CallerOnly(c) /\ pc'[c] = "lock"
  BY <1>0, <1>1 DEF CallerOnly, IInv, TypeOK
<1>3. SlotIsOwned'
  BY <1>0, <1>2, OwnersUnchanged DEF LockedPCs, CallPCs
<1>4. CountIsOwed'
  BY <1>0, <1>2, CountUnchanged DEF SentPCs
<1>5. SlotContent' /\ Loaded'
  BY <1>0, <1>2, ContentUnchanged, LoadedUnchanged DEF SentPCs
<1>6. InFlight' /\ OneVector'
  BY <1>0, <1>2, InFlightUnchanged DEF SentPCs
<1>7. Arguments' /\ RanExactly'
  BY <1>0, <1>1, <1>2, ArgumentsUnchanged, RanUnchanged DEF SentPCs, CallPCs
<1> QED
  BY <1>1, <1>3, <1>4, <1>5, <1>6, <1>7 DEF IInv, NoFault

\* Taking the lock: the slot had no owner.
LEMMA LockSlotInv == ASSUME IInv, NEW c \in Online, LockSlot(c) PROVE IInv'
<1> USE DEF LockSlot, Goto, handlers
<1>0. c \in Cores /\ pc[c] = "lock"
  BY ConfigAssumption
<1>1. TypeOK'
  BY <1>0 DEF IInv, TypeOK, CallPCs
<1>2. CallerOnly(c) /\ pc'[c] = "fptr"
  BY <1>0, <1>1 DEF CallerOnly, IInv, TypeOK
<1>3. SlotIsOwned'
  <2>1. \A d \in Cores : ~Owns(d, slot[c])
    BY <1>0 DEF IInv, TypeOK, SlotIsOwned
  <2>2. \A d \in Cores, s \in Slots :
           Owns(d, s)' <=> Owns(d, s) \/ (d = c /\ s = slot[c])
    BY <1>0, <1>2 DEF Owns, LockedPCs, CallPCs, CallerOnly
  <2>3. \A s \in Slots : lock'[s] <=> lock[s] \/ s = slot[c]
    BY DEF IInv, TypeOK
  <2> QED
    BY <1>0, <2>1, <2>2, <2>3 DEF IInv, TypeOK, SlotIsOwned
<1>4. CountIsOwed'
  BY <1>0, <1>2, CountUnchanged DEF SentPCs
<1>5. SlotContent' /\ Loaded'
  BY <1>0, <1>2, ContentUnchanged, LoadedUnchanged DEF SentPCs
<1>6. InFlight' /\ OneVector'
  BY <1>0, <1>2, InFlightUnchanged DEF SentPCs
<1>7. Arguments' /\ RanExactly'
  BY <1>0, <1>1, <1>2, ArgumentsUnchanged, RanUnchanged DEF SentPCs, CallPCs
<1> QED
  BY <1>1, <1>3, <1>4, <1>5, <1>6, <1>7 DEF IInv, NoFault

\* Publishing the function: no handler serves the slot yet.
LEMMA SetFptrInv == ASSUME IInv, NEW c \in Online, SetFptr(c) PROVE IInv'
<1> USE DEF SetFptr, Goto, handlers
<1>0. c \in Cores /\ pc[c] = "fptr"
  BY ConfigAssumption
<1>1. TypeOK'
  BY <1>0, CurrentIsACall DEF IInv, TypeOK, CallPCs, ReturnPCs
<1>2. CallerOnly(c) /\ pc'[c] = "data"
  BY <1>0, <1>1 DEF CallerOnly, IInv, TypeOK
<1>3. SlotIsOwned'
  BY <1>0, <1>2, OwnersUnchanged DEF LockedPCs, CallPCs
<1>4. CountIsOwed'
  BY <1>0, <1>2, CountUnchanged DEF SentPCs
<1>5. SlotContent' /\ Loaded'
  BY <1>0, <1>2, CurrentIsACall, ContentUnchanged, LoadedUnchanged
     DEF IInv, TypeOK, SlotContent, SentPCs, LockedPCs, CallPCs
<1>6. InFlight' /\ OneVector'
  BY <1>0, <1>2, InFlightUnchanged DEF SentPCs
<1>7. Arguments' /\ RanExactly'
  BY <1>0, <1>1, <1>2, ArgumentsUnchanged, RanUnchanged DEF SentPCs, CallPCs
<1> QED
  BY <1>1, <1>3, <1>4, <1>5, <1>6, <1>7 DEF IInv, NoFault


\* Publishing the argument.
LEMMA SetDataInv == ASSUME IInv, NEW c \in Online, SetData(c) PROVE IInv'
<1> USE DEF SetData, Goto, handlers
<1>0. c \in Cores /\ pc[c] = "data"
  BY ConfigAssumption
<1>1. TypeOK'
  BY <1>0, CurrentIsACall DEF IInv, TypeOK, CallPCs, ReturnPCs
<1>2. CallerOnly(c) /\ pc'[c] = "count"
  BY <1>0, <1>1 DEF CallerOnly, IInv, TypeOK
<1>3. SlotIsOwned'
  BY <1>0, <1>2, OwnersUnchanged DEF LockedPCs, CallPCs
<1>4. CountIsOwed'
  BY <1>0, <1>2, CountUnchanged DEF SentPCs
<1>5. SlotContent' /\ Loaded'
  BY <1>0, <1>2, CurrentIsACall, ContentUnchanged, LoadedUnchanged
     DEF IInv, TypeOK, SlotContent, SentPCs, LockedPCs, CallPCs
<1>6. InFlight' /\ OneVector'
  BY <1>0, <1>2, InFlightUnchanged DEF SentPCs
<1>7. Arguments' /\ RanExactly'
  BY <1>0, <1>1, <1>2, ArgumentsUnchanged, RanUnchanged DEF SentPCs, CallPCs
<1> QED
  BY <1>1, <1>3, <1>4, <1>5, <1>6, <1>7 DEF IInv, NoFault


\* The count that a policy has SetUnfinished store.
Count(c) == IF policy[c] = "all" THEN Cardinality(Cores)
            ELSE IF policy[c] = "others" THEN Cardinality(Cores) - 1 ELSE 1

\* For the waiting policies it is the number of cores named.
LEMMA SetUnfinishedIs ==
  ASSUME IInv, NEW c \in Online, SetUnfinished(c)
  PROVE  /\ Goto(c, "count", "send")
         /\ unfinished' = [unfinished EXCEPT ![slot[c]] = Count(c)]
         /\ UNCHANGED <<next, lock, fptr, data, slot, policy, target, made,
                        interrupts, asked, pending, handlers, ran>>
         /\ Count(c) = Cardinality(asked[Current(c)]) /\ Count(c) \in Int
<1> DEFINE n == CASE policy[c] = "all" -> Cardinality(Cores)
                  [] policy[c] = "others" -> Cardinality(Cores) - 1
                  [] policy[c] = "specific" -> 1
                  [] OTHER -> 0
<1>1. /\ Goto(c, "count", "send")
      /\ unfinished' = [unfinished EXCEPT ![slot[c]] = n]
      /\ UNCHANGED <<next, lock, fptr, data, slot, policy, target, made,
                     interrupts, asked, pending, handlers, ran>>
  BY Zenon DEF SetUnfinished
<1>2. policy[c] = "all" => n = Cardinality(Cores)
  OBVIOUS
<1>3. policy[c] = "others" => n = Cardinality(Cores) - 1
  OBVIOUS
<1>4. policy[c] = "specific" => n = 1
  OBVIOUS
<1> HIDE DEF n
<1>5. /\ c \in Cores /\ target[c] \in Cores /\ policy[c] \in WaitingPolicies
      /\ asked[Current(c)] = Named(policy[c], c, target[c])
  BY <1>1, ConfigAssumption DEF Goto, IInv, TypeOK, Arguments
<1>6. /\ Cardinality(Cores \ {c}) = Cardinality(Cores) - 1
      /\ Cardinality({target[c]}) = 1
  BY <1>5, ConfigAssumption, FS_RemoveElement, FS_Singleton
<1>7. n = Count(c)
  BY <1>2, <1>3, <1>4, <1>5 DEF Count, WaitingPolicies
<1>8. asked[Current(c)] = IF policy[c] = "all" THEN Cores
                          ELSE IF policy[c] = "others" THEN Cores \ {c} ELSE {target[c]}
  BY <1>5, NamedIs
<1>9. Cardinality(Cores) \in Nat
  BY ConfigAssumption, FS_CardinalityType
<1>10. Count(c) = Cardinality(asked[Current(c)]) /\ Count(c) \in Int
  BY <1>6, <1>8, <1>9 DEF Count
<1> QED
  BY <1>1, <1>7, <1>10

\* Setting the count to the number of cores the policy names.
LEMMA SetUnfinishedInv == ASSUME IInv, NEW c \in Online, SetUnfinished(c) PROVE IInv'
<1> USE DEF Goto, handlers
<1>0. /\ c \in Cores /\ pc[c] = "count" /\ pc' = [pc EXCEPT ![c] = "send"]
      /\ unfinished' = [unfinished EXCEPT ![slot[c]] = Count(c)]
      /\ UNCHANGED <<next, lock, fptr, data, slot, policy, target, made,
                     interrupts, asked, pending, handlers, ran>>
      /\ Count(c) = Cardinality(asked[Current(c)]) /\ Count(c) \in Int
  BY ConfigAssumption, SetUnfinishedIs
<1>1. TypeOK'
  BY <1>0 DEF IInv, TypeOK, CallPCs, ReturnPCs
<1>2. CallerOnly(c) /\ pc'[c] = "send"
  BY <1>0, <1>1 DEF CallerOnly, IInv, TypeOK
<1>3. SlotIsOwned'
  BY <1>0, <1>2, OwnersUnchanged DEF LockedPCs, CallPCs
<1>4. CountIsOwed'
  <2>1. Owing(c)' = asked[Current(c)]
    BY <1>0, <1>2, CurrentIsACall DEF Owing, HasToFinish, Current, CallerOnly, IInv, TypeOK
  <2>2. ASSUME NEW e \in Cores \ {c}, pc[e] \in {"send"} \cup SentPCs
        PROVE  unfinished'[slot[e]] = unfinished[slot[e]]
    BY <1>0, <2>2, OneOwner DEF IInv, TypeOK, LockedPCs, CallPCs, SentPCs
  <2>3. \A e \in Cores \ {c} : Owing(e)' = Owing(e)
    BY <1>0, <1>2, OthersUnchanged
  <2> QED
    BY <1>0, <1>2, <2>1, <2>2, <2>3 DEF IInv, TypeOK, CountIsOwed, CallerOnly
<1>5. SlotContent' /\ Loaded'
  BY <1>0, <1>2, CurrentIsACall, ContentUnchanged, LoadedUnchanged
     DEF IInv, TypeOK, SlotContent, SentPCs, LockedPCs, CallPCs
<1>6. InFlight' /\ OneVector'
  BY <1>0, <1>2, InFlightUnchanged DEF SentPCs
<1>7. Arguments' /\ RanExactly'
  BY <1>0, <1>1, <1>2, ArgumentsUnchanged, RanUnchanged DEF SentPCs, CallPCs
<1> QED
  BY <1>0, <1>1, <1>3, <1>4, <1>5, <1>6, <1>7 DEF IInv, NoFault


\* Forgetting the function: every handler is done with the slot.
LEMMA ClearFptrInv == ASSUME IInv, NEW c \in Online, ClearFptr(c) PROVE IInv'
<1> USE DEF ClearFptr, Goto, handlers
<1>0. c \in Cores /\ pc[c] = "clearFptr"
  BY ConfigAssumption
<1>1. TypeOK'
  BY <1>0 DEF IInv, TypeOK, CallPCs, ReturnPCs
<1>2. CallerOnly(c) /\ pc'[c] = "clearData"
  BY <1>0, <1>1 DEF CallerOnly, IInv, TypeOK
<1>3. SlotIsOwned'
  BY <1>0, <1>2, OwnersUnchanged DEF LockedPCs, CallPCs
<1>4. CountIsOwed'
  BY <1>0, <1>2, CountUnchanged DEF SentPCs
<1>5. SlotContent' /\ Loaded'
  BY <1>0, <1>2, CurrentIsACall, ContentUnchanged, LoadedUnchanged
     DEF IInv, TypeOK, SlotContent, SentPCs, LockedPCs, CallPCs
<1>6. InFlight' /\ OneVector'
  BY <1>0, <1>2, InFlightUnchanged DEF SentPCs
<1>7. Arguments' /\ RanExactly'
  BY <1>0, <1>1, <1>2, ArgumentsUnchanged, RanUnchanged DEF SentPCs, CallPCs
<1> QED
  BY <1>1, <1>3, <1>4, <1>5, <1>6, <1>7 DEF IInv, NoFault


\* Forgetting the argument.
LEMMA ClearDataInv == ASSUME IInv, NEW c \in Online, ClearData(c) PROVE IInv'
<1> USE DEF ClearData, Goto, handlers
<1>0. c \in Cores /\ pc[c] = "clearData"
  BY ConfigAssumption
<1>1. TypeOK'
  BY <1>0 DEF IInv, TypeOK, CallPCs, ReturnPCs
<1>2. CallerOnly(c) /\ pc'[c] = "unlock"
  BY <1>0, <1>1 DEF CallerOnly, IInv, TypeOK
<1>3. SlotIsOwned'
  BY <1>0, <1>2, OwnersUnchanged DEF LockedPCs, CallPCs
<1>4. CountIsOwed'
  BY <1>0, <1>2, CountUnchanged DEF SentPCs
<1>5. SlotContent' /\ Loaded'
  BY <1>0, <1>2, CurrentIsACall, ContentUnchanged, LoadedUnchanged
     DEF IInv, TypeOK, SlotContent, SentPCs, LockedPCs, CallPCs
<1>6. InFlight' /\ OneVector'
  BY <1>0, <1>2, InFlightUnchanged DEF SentPCs
<1>7. Arguments' /\ RanExactly'
  BY <1>0, <1>1, <1>2, ArgumentsUnchanged, RanUnchanged DEF SentPCs, CallPCs
<1> QED
  BY <1>1, <1>3, <1>4, <1>5, <1>6, <1>7 DEF IInv, NoFault


\* Giving the slot back.
LEMMA UnlockSlotInv == ASSUME IInv, NEW c \in Online, UnlockSlot(c) PROVE IInv'
<1> USE DEF UnlockSlot, Goto, handlers
<1>0. c \in Cores /\ pc[c] = "unlock"
  BY ConfigAssumption
<1>1. TypeOK'
  BY <1>0 DEF IInv, TypeOK, CallPCs, ReturnPCs
<1>2. CallerOnly(c) /\ pc'[c] = "idle"
  BY <1>0, <1>1 DEF CallerOnly, IInv, TypeOK
<1>3. SlotIsOwned'
  <2>1. \A d \in Cores, s \in Slots :
           Owns(d, s)' <=> Owns(d, s) /\ ~(d = c /\ s = slot[c])
    BY <1>0, <1>2 DEF Owns, LockedPCs, CallPCs, CallerOnly, IInv, TypeOK
  <2>2. Owns(c, slot[c])
    BY <1>0 DEF Owns, LockedPCs
  <2>3. \A s \in Slots : lock'[s] <=> lock[s] /\ s # slot[c]
    BY DEF IInv, TypeOK
  <2> QED
    BY <1>0, <2>1, <2>2, <2>3 DEF IInv, TypeOK, SlotIsOwned
<1>4. CountIsOwed'
  BY <1>0, <1>2, CountUnchanged DEF SentPCs
<1>5. SlotContent' /\ Loaded'
  BY <1>0, <1>2, ContentUnchanged, LoadedUnchanged DEF SentPCs
<1>6. InFlight' /\ OneVector'
  BY <1>0, <1>2, InFlightUnchanged DEF SentPCs
<1>7. Arguments' /\ RanExactly'
  BY <1>0, <1>1, <1>2, ArgumentsUnchanged, RanUnchanged DEF SentPCs, CallPCs
<1> QED
  BY <1>1, <1>3, <1>4, <1>5, <1>6, <1>7 DEF IInv, NoFault

\* For the waiting policies, Send posts slot[c] to the cores that then have to finish it.
Addressees(c) == {d \in Online : d \in asked[Current(c)] /\ ~(d = c /\ policy[c] = "all")}

\* Send writes the vector to the addressees, whichever policy it follows.
LEMMA SendIs ==
  ASSUME IInv, NEW c \in Online, Send(c)
  PROVE  /\ Goto(c, "send", IF policy[c] = "all" THEN "self" ELSE "wait")
         /\ pending' = [d \in Cores |-> IF d \in Addressees(c)
                                        THEN pending[d] \cup {slot[c]} ELSE pending[d]]
         /\ UNCHANGED <<slots, slot, policy, target, made, interrupts, asked, handlers, ran>>
<1> DEFINE to == CASE policy[c] \in {"all", "all_no_wait"} -> "self"
                   [] policy[c] \in {"others", "specific"} -> "wait"
                   [] OTHER -> "unlock"
           addressees == IF policy[c] \in {"specific", "specific_no_wait"}
                         THEN {target[c]} ELSE Cores \ {c}
<1>1. /\ Goto(c, "send", to)
      /\ pending' = [d \in Cores |-> IF d \in addressees \cap Online
                                     THEN pending[d] \cup {slot[c]} ELSE pending[d]]
      /\ UNCHANGED <<slots, slot, policy, target, made, interrupts, asked, handlers, ran>>
  BY Zenon DEF Send
<1>2. policy[c] = "all" => to = "self"
  OBVIOUS
<1>3. policy[c] \in {"others", "specific"} => to = "wait"
  OBVIOUS
<1> HIDE DEF to
<1>4. /\ c \in Cores /\ target[c] \in Cores /\ policy[c] \in WaitingPolicies
      /\ asked[Current(c)] = Named(policy[c], c, target[c])
  BY <1>1, ConfigAssumption DEF Goto, IInv, TypeOK, Arguments
<1>5. to = IF policy[c] = "all" THEN "self" ELSE "wait"
  BY <1>2, <1>3, <1>4 DEF WaitingPolicies
<1>6. addressees \cap Online = Addressees(c)
  BY <1>4, NamedIs, ConfigAssumption DEF Addressees, WaitingPolicies
<1> QED
  BY <1>1, <1>5, <1>6

\* Sending the vector: it is posted to every core that is counted and online, once.
LEMMA SendInv == ASSUME IInv, NEW c \in Online, Send(c) PROVE IInv'
<1>0. /\ c \in Cores /\ pc[c] = "send"
      /\ pc' = [pc EXCEPT ![c] = IF policy[c] = "all" THEN "self" ELSE "wait"]
      /\ pending' = [d \in Cores |-> IF d \in Addressees(c)
                                     THEN pending[d] \cup {slot[c]} ELSE pending[d]]
      /\ UNCHANGED <<next, lock, fptr, data, unfinished, slot, policy, target, made>>
      /\ UNCHANGED <<interrupts, asked, hpc, hslot, hfptr, ran>>
  BY ConfigAssumption, SendIs DEF Goto, slots, handlers
<1>1. TypeOK'
  BY <1>0 DEF IInv, TypeOK, CallPCs, ReturnPCs
<1>2. /\ pc'[c] \in {"self", "wait"}
      /\ \A e \in Cores \ {c} : pc'[e] = pc[e]
      /\ \A e \in Cores : Current(e)' = Current(e)
  BY <1>0 DEF IInv, TypeOK, Current
<1>3. \A d \in Cores : ~ToFinish(d, slot[c])
  BY <1>0, ServedIsAwaited DEF LockedPCs, CallPCs, SentPCs
<1>4. ASSUME NEW e \in Cores \ {c}, pc[e] \in LockedPCs PROVE slot[e] # slot[c]
  BY <1>0, <1>4, OneOwner DEF LockedPCs, CallPCs
<1>5. \A d \in Cores, s \in Slots :
         /\ ToFinish(d, s)' <=> ToFinish(d, s) \/ (s = slot[c] /\ d \in Addressees(c))
         /\ ToRun(d, s)' <=> ToRun(d, s) \/ (s = slot[c] /\ d \in Addressees(c))
  BY <1>0 DEF ToFinish, ToRun
<1>6. \A e \in Cores \ {c}, d \in Cores :
         /\ pc[e] \in {"send"} \cup SentPCs => (HasToFinish(e, d)' <=> HasToFinish(e, d))
         /\ HasToRun(e, d)' <=> HasToRun(e, d)
  <2> SUFFICES ASSUME NEW e \in Cores \ {c}, NEW d \in Cores
               PROVE  /\ pc[e] \in {"send"} \cup SentPCs => (HasToFinish(e, d)' <=> HasToFinish(e, d))
                      /\ HasToRun(e, d)' <=> HasToRun(e, d)
    OBVIOUS
  <2>1. slot[e] \in Slots /\ slot'[e] = slot[e] /\ pc'[e] = pc[e] /\ asked' = asked
    BY <1>0, <1>2 DEF IInv, TypeOK
  <2>2. pc[e] \in {"send"} \cup SentPCs => slot[e] # slot[c]
    BY <1>4 DEF LockedPCs, CallPCs, SentPCs
  <2> QED
    BY <1>2, <1>5, <2>1, <2>2 DEF HasToFinish, HasToRun
<1>7. \A d \in Cores : /\ HasToFinish(c, d)' <=> HasToFinish(c, d)
                       /\ HasToRun(c, d)' <=> HasToRun(c, d)
  <2> SUFFICES ASSUME NEW d \in Cores
               PROVE  /\ HasToFinish(c, d)' <=> d \in asked[Current(c)]
                      /\ HasToRun(c, d)' <=> d \in asked[Current(c)]
    BY <1>0 DEF HasToFinish, HasToRun, SentPCs
  <2>1. c \in Cores /\ slot[c] \in Slots /\ slot'[c] = slot[c] /\ asked' = asked
    BY <1>0 DEF IInv, TypeOK
  <2>2. /\ ToFinish(d, slot[c])' <=> d \in Addressees(c)
        /\ ToRun(d, slot[c])' <=> d \in Addressees(c)
    BY <1>0, <1>3, <1>5, <2>1 DEF ToFinish, ToRun
  <2>3. policy[c] = "all" <=> pc'[c] = "self"
    BY <1>0 DEF IInv, TypeOK
  <2>4. /\ HasToFinish(c, d)' <=> /\ d \in asked[Current(c)]
                                  /\ \/ d \notin Online
                                     \/ d = c /\ pc'[c] = "self"
                                     \/ d \in Addressees(c)
        /\ HasToRun(c, d)' <=> /\ d \in asked[Current(c)]
                               /\ \/ d \notin Online
                                  \/ d = c /\ pc'[c] = "self"
                                  \/ d \in Addressees(c)
    BY <1>2, <2>1, <2>2 DEF HasToFinish, HasToRun, SentPCs
  <2> QED
    BY <2>3, <2>4 DEF Addressees
<1>8. SlotIsOwned'
  <2>1. \A e \in Cores, s \in Slots : Owns(e, s)' <=> Owns(e, s)
    BY <1>0, <1>2 DEF Owns, LockedPCs, CallPCs
  <2> QED
    BY <1>0, <2>1 DEF IInv, SlotIsOwned
<1>9. CountIsOwed'
  <2>1. \A e \in Cores : pc[e] \in {"send"} \cup SentPCs => Owing(e)' = Owing(e)
    BY <1>0, <1>6, <1>7 DEF Owing
  <2> QED
    BY <1>0, <1>2, <2>1 DEF IInv, CountIsOwed, SentPCs
<1>10. SlotContent' /\ Loaded'
  BY <1>0, <1>2 DEF IInv, TypeOK, SlotContent, Loaded, SentPCs
<1>11. InFlight'
  <2>1. \A d \in Addressees(c) : Awaits(c, d)'
    <3>1. /\ policy[c] \in WaitingPolicies /\ target[c] \in Cores
          /\ asked[Current(c)] = Named(policy[c], c, target[c])
      BY <1>0 DEF IInv, TypeOK, Arguments
    <3>2. policy[c] = "others" => c \notin asked[Current(c)]
      BY <1>0, <3>1, NamedIs
    <3> QED
      BY <1>0, <1>2, <3>1, <3>2 DEF Addressees, Awaits, SentPCs, WaitingPolicies
  <2>2. \A e, d \in Cores : Awaits(e, d) => Awaits(e, d)'
    BY <1>0, <1>2 DEF Awaits, SentPCs
  <2> QED
    BY <1>0, <1>5, <2>1, <2>2 DEF IInv, InFlight
<1>12. OneVector'
  BY <1>0, <1>3 DEF IInv, TypeOK, OneVector, ToFinish
<1>13. Arguments'
  BY <1>0, <1>2 DEF IInv, TypeOK, Arguments
<1>14. RanExactly'
  <2>1. \A x \in Calls : Status(x)' = Status(x)
    BY <1>0, <1>1, StatusUnchanged DEF IInv, TypeOK, CallPCs
  <2> QED
    BY <1>0, <1>6, <1>7, <2>1, CallFacts DEF IInv, RanExactly
<1> QED
  BY <1>0, <1>1, <1>8, <1>9, <1>10, <1>11, <1>12, <1>13, <1>14 DEF IInv, NoFault

\* Executing the function on the calling core: it had not been executed there.
LEMMA RunSelfInv == ASSUME IInv, NEW c \in Online, RunSelf(c) PROVE IInv'
<1>0. /\ c \in Cores /\ pc[c] = "self" /\ policy[c] = "all"
      /\ pc' = [pc EXCEPT ![c] = "selfDone"]
      /\ ran' = [ran EXCEPT ![Current(c)][c] = @ + 1]
      /\ UNCHANGED <<slots, slot, policy, target, made, interrupts, asked, pending, handlers>>
  BY ConfigAssumption DEF RunSelf, Goto, IInv, Arguments
<1> USE DEF slots, handlers
<1>1. TypeOK'
  BY <1>0, CurrentIsACall DEF IInv, TypeOK, CallPCs, ReturnPCs
<1>2. CallerOnly(c) /\ pc'[c] = "selfDone" /\ slot' = slot
  BY <1>0, <1>1 DEF CallerOnly, IInv, TypeOK
<1>3. SlotIsOwned'
  BY <1>0, <1>2, OwnersUnchanged DEF LockedPCs, CallPCs
<1>4. CountIsOwed'
  <2>1. Owing(c)' = Owing(c)
    BY <1>0, <1>2 DEF Owing, HasToFinish, ToFinish, Current
  <2> QED
    BY <1>0, <1>2, <2>1, OwingUnchanged DEF SentPCs
<1>5. SlotContent' /\ Loaded'
  BY <1>0, <1>2, ContentUnchanged, LoadedUnchanged DEF IInv, SlotContent, SentPCs
<1>6. InFlight' /\ OneVector'
  BY <1>0, <1>2, InFlightUnchanged DEF SentPCs
<1>7. Arguments'
  BY <1>0, <1>2, ArgumentsUnchanged
<1>8. RanExactly'
  <2>1. /\ Current(c) \in Calls /\ Caller(Current(c)) = c /\ Number(Current(c)) = made[c]
        /\ made[c] \in Nat
    BY <1>0, CurrentIsACall, ConfigAssumption DEF IInv, TypeOK
  <2>2. \A x \in Calls : Status(x)' = Status(x)
    BY <1>0, <1>1, StatusUnchanged DEF IInv, TypeOK, CallPCs
  <2>3. Status(Current(c)) = "active"
    BY <1>0, <2>1, ActiveIsCurrent DEF CallPCs
  <2>4. \A e, d \in Cores : HasToRun(e, d)' <=> HasToRun(e, d) /\ ~(e = c /\ d = c)
    <3>1. c \in asked[Current(c)]
      BY <1>0, SelfIsNamed
    <3>2. ~ToRun(c, slot[c])
      BY <1>0, SelfIsNotServed DEF SentPCs, ToRun, ToFinish
    <3>3. \A e \in Cores \ {c}, d \in Cores : HasToRun(e, d)' <=> HasToRun(e, d)
      BY <1>0, <1>2, OthersUnchanged
    <3>4. \A d \in Cores : HasToRun(c, d)' <=> HasToRun(c, d) /\ d # c
      BY <1>0, <1>2, <3>2 DEF HasToRun, ToRun, Current, SentPCs
    <3> QED
      BY <3>3, <3>4
  <2>5. c \in asked[Current(c)] /\ HasToRun(c, c)
    <3>1. c \in asked[Current(c)]
      BY <1>0, SelfIsNamed
    <3> QED
      BY <1>0, <3>1 DEF HasToRun
  <2>6. \A x \in Calls, d \in Cores :
           ran'[x][d] = IF x = Current(c) /\ d = c THEN ran[x][d] + 1 ELSE ran[x][d]
    BY <1>0, <2>1 DEF IInv, TypeOK
  <2> QED
    BY <1>0, <2>1, <2>2, <2>3, <2>4, <2>5, <2>6, CallFacts, ActiveIsCurrent DEF IInv, RanExactly
<1> QED
  BY <1>0, <1>1, <1>3, <1>4, <1>5, <1>6, <1>7, <1>8 DEF IInv, NoFault

\* The calling core accounts for itself.
LEMMA SelfDoneInv == ASSUME IInv, NEW c \in Online, SelfDone(c) PROVE IInv'
<1> USE DEF SelfDone, Goto, handlers
<1>0. /\ c \in Cores /\ pc[c] = "selfDone" /\ policy[c] = "all"
  BY ConfigAssumption DEF IInv, Arguments
<1>1. TypeOK'
  BY <1>0 DEF IInv, TypeOK, CallPCs, ReturnPCs
<1>2. CallerOnly(c) /\ pc'[c] = "wait"
  BY <1>0, <1>1 DEF CallerOnly, IInv, TypeOK
<1>3. SlotIsOwned'
  BY <1>0, <1>2, OwnersUnchanged DEF LockedPCs, CallPCs
<1>4. CountIsOwed'
  <2>1. Owing(c)' = Owing(c) \ {c} /\ c \in Owing(c)
    <3>1. ~ToFinish(c, slot[c])
      BY <1>0, SelfIsNotServed DEF SentPCs
    <3>2. c \in asked[Current(c)]
      BY <1>0, SelfIsNamed
    <3>3. \A d \in Cores : HasToFinish(c, d)' <=> HasToFinish(c, d) /\ d # c
      BY <1>0, <1>2, <3>1 DEF HasToFinish, ToFinish, Current, CallerOnly
    <3> QED
      BY <1>0, <3>2, <3>3 DEF Owing, HasToFinish
  <2>2. Cardinality(Owing(c)') = Cardinality(Owing(c)) - 1
    BY <2>1, CoreSets, FS_RemoveElement DEF Owing
  <2>3. unfinished'[slot[c]] = Cardinality(Owing(c)')
    BY <1>0, <2>2 DEF IInv, TypeOK, CountIsOwed, SentPCs
  <2>4. ASSUME NEW e \in Cores \ {c}, pc[e] \in {"send"} \cup SentPCs
        PROVE  unfinished'[slot[e]] = unfinished[slot[e]]
    BY <1>0, <2>4, OneOwner DEF IInv, TypeOK, LockedPCs, CallPCs, SentPCs
  <2>5. \A e \in Cores \ {c} : Owing(e)' = Owing(e)
    BY <1>0, <1>2, OthersUnchanged
  <2> QED
    BY <1>0, <1>2, <2>3, <2>4, <2>5 DEF IInv, TypeOK, CountIsOwed, CallerOnly
<1>5. SlotContent' /\ Loaded'
  BY <1>0, <1>2, ContentUnchanged, LoadedUnchanged DEF IInv, SlotContent, SentPCs
<1>6. InFlight' /\ OneVector'
  BY <1>0, <1>2, InFlightUnchanged DEF SentPCs
<1>7. Arguments' /\ RanExactly'
  BY <1>0, <1>1, <1>2, ArgumentsUnchanged, RanUnchanged DEF SentPCs, CallPCs
<1> QED
  BY <1>1, <1>3, <1>4, <1>5, <1>6, <1>7 DEF IInv, NoFault

\* When the count is zero every named core has executed the call and none is serving it.
LEMMA NothingOwed ==
  ASSUME IInv, NEW c \in Cores, pc[c] = "wait", unfinished[slot[c]] = 0, NEW d \in Cores
  PROVE  ~ToFinish(d, slot[c]) /\ ~HasToRun(c, d)
<1>1. Owing(c) = {}
  <2>1. IsFiniteSet(Owing(c)) /\ Cardinality(Owing(c)) = 0
    BY CoreSets DEF Owing, IInv, CountIsOwed, SentPCs
  <2> QED
    BY <2>1, FS_EmptySet
<1>2. ~HasToFinish(c, d)
  BY <1>1 DEF Owing
<1>3. ~ToFinish(d, slot[c])
  <2> SUFFICES ASSUME ToFinish(d, slot[c]) PROVE FALSE
    OBVIOUS
  <2>1. PICK e \in Cores : slot[e] = slot[c] /\ Awaits(e, d)
    BY DEF IInv, TypeOK, InFlight
  <2>2. e = c
    BY <2>1, OneOwner DEF Awaits, SentPCs, LockedPCs, CallPCs
  <2> QED
    BY <1>2, <2>1, <2>2 DEF Awaits, HasToFinish
<1> QED
  BY <1>2, <1>3 DEF HasToRun, HasToFinish, ToRun, ToFinish, SentPCs

\* The end of the wait: the call returns.
LEMMA WaitDoneInv == ASSUME IInv, NEW c \in Online, WaitDone(c) PROVE IInv'
<1> USE DEF WaitDone, Goto, handlers, slots
<1>0. c \in Cores /\ pc[c] = "wait" /\ unfinished[slot[c]] = 0
  BY ConfigAssumption
<1>1. TypeOK'
  BY <1>0 DEF IInv, TypeOK, CallPCs, ReturnPCs
<1>2. CallerOnly(c) /\ pc'[c] = "clearFptr"
  BY <1>0, <1>1 DEF CallerOnly, IInv, TypeOK
<1>3. SlotIsOwned'
  BY <1>0, <1>2, OwnersUnchanged DEF LockedPCs, CallPCs
<1>4. CountIsOwed'
  BY <1>0, <1>2, CountUnchanged DEF SentPCs
<1>5. SlotContent' /\ Loaded'
  BY <1>0, <1>2, ContentUnchanged, LoadedUnchanged DEF SentPCs
<1>6. InFlight' /\ OneVector'
  <2>1. \A e, d \in Cores : e # c /\ Awaits(e, d) => Awaits(e, d)' /\ slot'[e] = slot[e]
    BY <1>0, <1>2, OthersUnchanged DEF CallerOnly
  <2>2. \A d \in Cores, s \in Slots : ToFinish(d, s)' <=> ToFinish(d, s)
    BY <1>2 DEF CallerOnly, ToFinish
  <2>3. InFlight'
    BY <1>0, <2>1, <2>2, NothingOwed DEF IInv, InFlight
  <2> QED
    BY <1>2, <2>3 DEF IInv, OneVector, CallerOnly
<1>7. Arguments'
  BY <1>0, <1>2, ArgumentsUnchanged
<1>8. RanExactly'
  <2>1. \A e \in Cores \ {c}, d \in Cores : HasToRun(e, d)' <=> HasToRun(e, d)
    BY <1>0, <1>2, OthersUnchanged
  <2>2. /\ Current(c) \in Calls /\ Caller(Current(c)) = c /\ Number(Current(c)) = made[c]
        /\ made[c] \in Nat
    BY <1>0, CurrentIsACall, ConfigAssumption DEF IInv, TypeOK
  <2>3. \A x \in Calls : x = Current(c) => Status(x) = "active" /\ Status(x)' = "returned"
    BY <1>0, <1>1, <1>2, <2>2, ActiveIsCurrent, StatusIsNext DEF CallPCs, CallerOnly
  <2>4. ASSUME NEW x \in Calls, x # Current(c) PROVE Status(x)' = Status(x)
    <3>1. Caller(x) \in Cores /\ Number(x) \in Nat /\ (Caller(x) = c => Number(x) # made[c])
      BY <2>4, CallFacts DEF Current
    <3>2. made' = made /\ (Caller(x) # c => pc'[Caller(x)] = pc[Caller(x)])
      BY <1>2, <3>1 DEF CallerOnly
    <3> QED
      BY <1>1, <3>1, <3>2, StatusIs, StatusIsNext DEF IInv
  <2>5. ASSUME NEW x \in Calls, NEW d \in Cores
        PROVE  ran'[x][d] = IF \/ Status(x)' = "unused" \/ d \notin asked'[x]
                               \/ Status(x)' = "active" /\ HasToRun(Caller(x), d)'
                            THEN 0 ELSE 1
    <3>1. CASE x = Current(c)
      BY <1>0, <1>2, <2>2, <2>3, <3>1, NothingOwed DEF IInv, RanExactly, CallerOnly
    <3>2. CASE x # Current(c)
      <4>1. Status(x) = "active" => Caller(x) \in Cores \ {c}
        BY <3>2, CallFacts, ActiveIsCurrent
      <4> QED
        BY <1>2, <2>1, <2>4, <3>2, <4>1 DEF IInv, RanExactly, CallerOnly
    <3> QED
      BY <3>1, <3>2
  <2> QED
    BY <2>5 DEF RanExactly
<1> QED
  BY <1>1, <1>3, <1>4, <1>5, <1>6, <1>7, <1>8 DEF IInv, NoFault

\* Beginning a call: it is a new one, which nobody has executed.
LEMMA BeginCallInv ==
  ASSUME IInv, NEW c \in Online, NEW p \in Policies, NEW t \in Online, BeginCall(c, p, t),
         Policies \subseteq WaitingPolicies
  PROVE  IInv'
<1> DEFINE new == Call(c, made[c] + 1)
<1>0. /\ c \in Cores /\ t \in Cores /\ p \in WaitingPolicies /\ p \in AllPolicies
      /\ pc[c] = "idle" /\ pc' = [pc EXCEPT ![c] = "fetch"]
      /\ made' = [made EXCEPT ![c] = @ + 1] /\ made[c] < MaxCalls /\ made[c] \in Nat
      /\ policy' = [policy EXCEPT ![c] = p]
      /\ target' = [target EXCEPT ![c] = t]
      /\ asked' = [asked EXCEPT ![new] = Named(p, c, t)]
      /\ UNCHANGED <<slots, slot, pending, handlers, ran>>
  BY ConfigAssumption DEF BeginCall, Goto, IInv, TypeOK
<1> USE DEF slots, handlers
<1>1. /\ new \in Calls /\ Caller(new) = c /\ Number(new) = made[c] + 1
      /\ Current(c)' = new /\ made'[c] = made[c] + 1
      /\ \A e \in Cores \ {c} : Current(e) # new /\ Current(e)' = Current(e) /\ made'[e] = made[e]
  <2>1. new \in Calls /\ Caller(new) = c /\ Number(new) = made[c] + 1
    BY <1>0, CallFacts, ConfigAssumption
  <2>2. made'[c] = made[c] + 1 /\ \A e \in Cores \ {c} : made'[e] = made[e]
    BY <1>0 DEF IInv, TypeOK
  <2> QED
    BY <2>1, <2>2 DEF Current, Call
<1>2. TypeOK'
  <2>1. Named(p, c, t) \in SUBSET Cores
    BY <1>0, NamedIs
  <2>2. interrupts' \in [Cores -> BOOLEAN]
    BY ConfigAssumption DEF BeginCall, IInv, TypeOK
  <2>3. made' \in [Cores -> 0..MaxCalls]
    BY <1>0, ConfigAssumption DEF IInv, TypeOK
  <2> QED
    BY <1>0, <1>1, <2>1, <2>2, <2>3 DEF IInv, TypeOK, CallPCs, ReturnPCs
<1>3. /\ pc'[c] = "fetch" /\ policy'[c] = p /\ target'[c] = t /\ asked'[new] = Named(p, c, t)
      /\ \A e \in Cores \ {c} : /\ pc'[e] = pc[e] /\ policy'[e] = policy[e]
                                /\ target'[e] = target[e]
      /\ \A x \in Calls \ {new} : asked'[x] = asked[x]
  BY <1>0, <1>1 DEF IInv, TypeOK
<1>4. ASSUME NEW e \in Cores \ {c}, pc[e] # "idle" PROVE asked'[Current(e)] = asked[Current(e)]
  BY <1>1, <1>3, <1>4, CurrentIsACall
<1>5. \A e \in Cores \ {c}, d \in Cores :
        pc[e] # "idle" => /\ HasToFinish(e, d)' <=> HasToFinish(e, d)
                          /\ HasToRun(e, d)' <=> HasToRun(e, d)
                          /\ Awaits(e, d)' <=> Awaits(e, d)
  BY <1>0, <1>1, <1>3, <1>4 DEF HasToFinish, HasToRun, ToFinish, ToRun, Awaits
<1>6. SlotIsOwned'
  <2>1. \A e \in Cores, s \in Slots : Owns(e, s)' <=> Owns(e, s)
    BY <1>0, <1>3 DEF Owns, LockedPCs, CallPCs
  <2> QED
    BY <1>0, <2>1 DEF IInv, SlotIsOwned
<1>7. CountIsOwed'
  <2>1. \A e \in Cores \ {c} : pc[e] # "idle" => Owing(e)' = Owing(e)
    BY <1>5 DEF Owing
  <2> QED
    BY <1>0, <1>3, <2>1 DEF IInv, CountIsOwed, SentPCs
<1>8. SlotContent' /\ Loaded'
  BY <1>0, <1>1, <1>3 DEF IInv, SlotContent, Loaded, SentPCs
<1>9. InFlight' /\ OneVector'
  <2>1. \A e, d \in Cores : Awaits(e, d) => Awaits(e, d)'
    BY <1>0, <1>5 DEF Awaits, SentPCs
  <2>2. \A d \in Cores, s \in Slots : ToFinish(d, s)' <=> ToFinish(d, s)
    BY <1>0 DEF ToFinish
  <2>3. InFlight'
    BY <1>0, <2>1, <2>2 DEF IInv, InFlight
  <2> QED
    BY <1>0, <2>3 DEF IInv, OneVector
<1>10. Arguments'
  <2> SUFFICES ASSUME NEW e \in Cores
               PROVE  /\ e \notin Online => pc'[e] = "idle"
                      /\ pc'[e] # "idle" =>
                           /\ made'[e] > 0 /\ policy'[e] \in WaitingPolicies
                           /\ target'[e] \in Online
                           /\ asked'[Current(e)'] = Named(policy'[e], e, target'[e])
                      /\ pc'[e] \in {"self", "selfDone"} => policy'[e] = "all"
    BY DEF Arguments
  <2>1. CASE e = c
    BY <1>0, <1>1, <1>3, <2>1
  <2>2. CASE e # c
    BY <1>1, <1>3, <1>4, <2>2 DEF IInv, Arguments
  <2> QED
    BY <2>1, <2>2
<1>11. RanExactly'
  <2>1. \A x \in Calls : x = new => Status(x) = "unused" /\ Status(x)' = "active"
    BY <1>0, <1>1, <1>2, <1>3, StatusIs, StatusIsNext DEF IInv, CallPCs
  <2>2. ASSUME NEW x \in Calls, x # new PROVE Status(x)' = Status(x)
    <3>1. /\ Caller(x) \in Cores /\ Number(x) \in Nat
          /\ Caller(x) = c => Number(x) # made[c] + 1
      BY <2>2, CallFacts
    <3>2. CASE Caller(x) = c
      BY <1>0, <1>1, <1>2, <1>3, <3>1, <3>2, StatusIs, StatusIsNext DEF IInv, CallPCs
    <3>3. CASE Caller(x) # c
      BY <1>1, <1>2, <1>3, <3>1, <3>3, StatusIs, StatusIsNext DEF IInv
    <3> QED
      BY <3>2, <3>3
  <2>3. \A d \in Cores : HasToRun(c, d)' <=> d \in asked'[new]
    BY <1>1, <1>3 DEF HasToRun, SentPCs
  <2>4. ASSUME NEW x \in Calls, NEW d \in Cores
        PROVE  ran'[x][d] = IF \/ Status(x)' = "unused" \/ d \notin asked'[x]
                               \/ Status(x)' = "active" /\ HasToRun(Caller(x), d)'
                            THEN 0 ELSE 1
    <3>1. CASE x = new
      BY <1>0, <1>1, <2>1, <2>3, <3>1 DEF IInv, RanExactly
    <3>2. CASE x # new
      <4>1. Status(x) = "active" => Caller(x) \in Cores \ {c} /\ pc[Caller(x)] # "idle"
        BY <1>0, CallFacts, ActiveIsCurrent DEF CallPCs
      <4> QED
        BY <1>0, <1>3, <1>5, <2>2, <3>2, <4>1 DEF IInv, RanExactly
    <3> QED
      BY <3>1, <3>2
  <2> QED
    BY <2>4 DEF RanExactly
<1> QED
  BY <1>0, <1>2, <1>6, <1>7, <1>8, <1>9, <1>10, <1>11 DEF IInv, NoFault

------------------------------------------------------------------------------
(* One lemma per statement of the handler                                  *)

\* A step of a handler that publishes nothing and accounts for nothing: the slots and
\* the callers stay, and what is in flight stays in flight.
HandlerOnly == UNCHANGED <<slots, callers>> /\ TypeOK'

\* A step that leaves alone which executions each handler owes keeps what is said of
\* the slots, of the counts and of the vectors in flight.
LEMMA FlightUnchanged ==
  ASSUME IInv, HandlerOnly, \A d \in Cores, s \in Slots : ToFinish(d, s)' <=> ToFinish(d, s)
  PROVE  SlotIsOwned' /\ CountIsOwed' /\ SlotContent' /\ InFlight' /\ Arguments'
<1> USE DEF HandlerOnly, slots, callers
<1>1. SlotIsOwned'
  BY DEF IInv, SlotIsOwned, Owns
<1>2. CountIsOwed'
  <2>1. \A c, d \in Cores : HasToFinish(c, d)' <=> HasToFinish(c, d)
    BY DEF HasToFinish, Current, IInv, TypeOK
  <2>2. \A c \in Cores : Owing(c)' = Owing(c)
    BY <2>1 DEF Owing
  <2> QED
    BY <2>2 DEF IInv, CountIsOwed
<1>3. SlotContent' /\ Arguments'
  BY DEF IInv, SlotContent, Arguments, Current
<1>4. InFlight'
  BY DEF IInv, InFlight, Awaits, Current
<1> QED
  BY <1>1, <1>2, <1>3, <1>4

\* Executions are accounted for as before when no core has a run less to do.
LEMMA RunsUnchanged ==
  ASSUME IInv, HandlerOnly, ran' = ran,
         \A d \in Cores, s \in Slots : ToRun(d, s)' <=> ToRun(d, s)
  PROVE  RanExactly'
<1>1. \A x \in Calls : Status(x)' = Status(x)
  BY StatusUnchanged DEF HandlerOnly, callers, IInv
<1>2. \A c, d \in Cores : HasToRun(c, d)' <=> HasToRun(c, d)
  BY DEF HasToRun, Current, HandlerOnly, callers, IInv, TypeOK
<1> QED
  BY <1>1, <1>2, CallFacts DEF IInv, RanExactly, HandlerOnly, callers

\* The caller on whose behalf a handler runs: the slot holds its call.
LEMMA Served ==
  ASSUME IInv, NEW d \in Cores, hpc[d] # "none"
  PROVE  \E c \in Cores : /\ slot[c] = hslot[d] /\ Awaits(c, d)
                          /\ fptr[hslot[d]] = Current(c) /\ data[hslot[d]] = Current(c)
                          /\ Current(c) \in Calls /\ Caller(Current(c)) = c
<1>1. PICK c \in Cores : slot[c] = hslot[d] /\ Awaits(c, d)
  BY DEF IInv, TypeOK, InFlight, ToFinish
<1>2. pc[c] \in SentPCs /\ pc[c] # "idle"
  BY <1>1 DEF Awaits, SentPCs
<1>3. fptr[hslot[d]] = Current(c) /\ data[hslot[d]] = Current(c)
  BY <1>1, <1>2 DEF IInv, SlotContent
<1> QED
  BY <1>1, <1>2, <1>3, CurrentIsACall

\* Taking the interrupt: the vector is no longer pending but served.
LEMMA InterruptInv ==
  ASSUME IInv, NEW d \in Online, NEW s \in Slots, Interrupt(d, s) PROVE IInv'
<1>0. /\ d \in Cores /\ s \in pending[d] /\ hpc[d] = "none"
      /\ hpc' = [hpc EXCEPT ![d] = "load"] /\ hslot' = [hslot EXCEPT ![d] = s]
      /\ pending' = [pending EXCEPT ![d] = @ \ {s}]
      /\ UNCHANGED <<slots, callers, hfptr, ran>>
  BY ConfigAssumption DEF Interrupt, HGoto
<1>1. TypeOK'
  BY <1>0 DEF IInv, TypeOK, slots, callers
<1>2. HandlerOnly
  BY <1>0, <1>1 DEF HandlerOnly
<1>3. \A e \in Cores, r \in Slots : /\ ToFinish(e, r)' <=> ToFinish(e, r)
                                    /\ ToRun(e, r)' <=> ToRun(e, r)
  BY <1>0 DEF ToFinish, ToRun, IInv, TypeOK
<1>4. NoFault' /\ OneVector' /\ Loaded'
  BY <1>0 DEF IInv, TypeOK, NoFault, OneVector, Loaded, slots
<1> QED
  BY <1>0, <1>1, <1>2, <1>3, <1>4, FlightUnchanged, RunsUnchanged DEF IInv

\* Loading the function of the slot.
LEMMA LoadFptrInv == ASSUME IInv, NEW d \in Online, LoadFptr(d) PROVE IInv'
<1>0. /\ d \in Cores /\ hpc[d] = "load" /\ hpc' = [hpc EXCEPT ![d] = "run"]
      /\ hfptr' = [hfptr EXCEPT ![d] = fptr[hslot[d]]]
      /\ UNCHANGED <<slots, callers, pending, hslot, ran>>
  BY ConfigAssumption DEF LoadFptr, HGoto
<1>1. TypeOK'
  BY <1>0 DEF IInv, TypeOK, slots, callers
<1>2. HandlerOnly
  BY <1>0, <1>1 DEF HandlerOnly
<1>3. \A e \in Cores, r \in Slots : /\ ToFinish(e, r)' <=> ToFinish(e, r)
                                    /\ ToRun(e, r)' <=> ToRun(e, r)
  BY <1>0 DEF ToFinish, ToRun, IInv, TypeOK
<1>4. NoFault' /\ OneVector' /\ Loaded'
  BY <1>0 DEF IInv, TypeOK, NoFault, OneVector, Loaded, slots
<1> QED
  BY <1>0, <1>1, <1>2, <1>3, <1>4, FlightUnchanged, RunsUnchanged DEF IInv

\* Executing it: it is the call the slot holds, which this core had not executed.
LEMMA RunCallInv ==
  ASSUME IInv, NEW d \in Online, RunCall(d)
  PROVE  /\ IInv'
         /\ UNCHANGED <<pc, made, asked>>
         /\ \E c \in Cores : /\ Current(c) \in Calls /\ Caller(Current(c)) = c
                             /\ Awaits(c, d) /\ ran[Current(c)][d] = 0
                             /\ ran' = [ran EXCEPT ![Current(c)][d] = 1]
<1>0. d \in Cores /\ hpc[d] = "run"
  BY ConfigAssumption DEF RunCall, HGoto
<1>1. PICK c \in Cores : /\ slot[c] = hslot[d] /\ Awaits(c, d)
                         /\ fptr[hslot[d]] = Current(c) /\ data[hslot[d]] = Current(c)
                         /\ Current(c) \in Calls /\ Caller(Current(c)) = c
  BY <1>0, Served
<1>2. hfptr[d] = Current(c) /\ hfptr[d] # NoCall
  BY <1>0, <1>1, ConfigAssumption DEF IInv, Loaded
<1>3. /\ hpc' = [hpc EXCEPT ![d] = "finish"]
      /\ ran' = [ran EXCEPT ![Current(c)][d] = @ + 1]
      /\ UNCHANGED <<slots, callers, pending, hslot, hfptr>>
  BY <1>1, <1>2 DEF RunCall, HGoto
<1>4. TypeOK'
  BY <1>0, <1>1, <1>3 DEF IInv, TypeOK, slots, callers
<1>5. HandlerOnly
  BY <1>3, <1>4 DEF HandlerOnly
<1>6. \A e \in Cores, r \in Slots : ToFinish(e, r)' <=> ToFinish(e, r)
  BY <1>0, <1>3 DEF ToFinish, IInv, TypeOK
<1>7. NoFault' /\ OneVector' /\ Loaded'
  BY <1>0, <1>3 DEF IInv, TypeOK, NoFault, OneVector, Loaded, slots
<1>8. \A e \in Cores, r \in Slots :
        ToRun(e, r)' <=> ToRun(e, r) /\ ~(e = d /\ r = slot[c])
  BY <1>0, <1>1, <1>3 DEF ToRun, IInv, TypeOK, OneVector
<1>9. pc[c] \in SentPCs /\ d \in asked[Current(c)]
  BY <1>1 DEF Awaits
<1>10. HasToRun(c, d)
  BY <1>0, <1>1, <1>9 DEF HasToRun, ToRun
<1>11. ~(d = c /\ pc[c] = "self")
  BY <1>1 DEF Awaits, IInv, Arguments
<1>12. ASSUME NEW e \in Cores, NEW f \in Cores
       PROVE  HasToRun(e, f)' <=> HasToRun(e, f) /\ ~(e = c /\ f = d)
  <2>1. UNCHANGED <<pc, slot, asked, made>> /\ Current(e)' = Current(e)
        /\ slot[e] \in Slots
    BY <1>3 DEF callers, Current, IInv, TypeOK
  <2>2. pc[e] \in SentPCs /\ slot[e] = slot[c] => e = c
    BY <1>9, OneOwner DEF SentPCs, LockedPCs, CallPCs
  <2>3. ToRun(f, slot[e])' <=> ToRun(f, slot[e]) /\ ~(f = d /\ slot[e] = slot[c])
    BY <1>8, <2>1 DEF ToRun
  <2> QED
    BY <1>9, <1>11, <2>1, <2>2, <2>3, ConfigAssumption DEF HasToRun
<1>13. Status(Current(c)) = "active"
  BY <1>1, <1>9, ActiveIsCurrent DEF SentPCs, CallPCs
<1>14. \A x \in Calls : Status(x)' = Status(x)
  BY <1>4, <1>3, StatusUnchanged DEF callers, IInv
<1>15. ran[Current(c)][d] = 0
  BY <1>0, <1>1, <1>10, <1>13 DEF IInv, RanExactly
<1>16. \A x \in Calls, f \in Cores :
          ran'[x][f] = IF x = Current(c) /\ f = d THEN 1 ELSE ran[x][f]
  BY <1>0, <1>1, <1>3, <1>15 DEF IInv, TypeOK
<1>17. RanExactly'
  BY <1>1, <1>3, <1>9, <1>12, <1>13, <1>14, <1>16, CallFacts, ActiveIsCurrent
     DEF IInv, RanExactly, callers
<1>18. ran' = [ran EXCEPT ![Current(c)][d] = 1]
  BY <1>3, <1>15
<1> QED
  BY <1>1, <1>3, <1>4, <1>5, <1>6, <1>7, <1>15, <1>17, <1>18, FlightUnchanged
     DEF IInv, callers

\* The end of the handler: the core is accounted for.
LEMMA FinishInv == ASSUME IInv, NEW d \in Online, Finish(d) PROVE IInv'
<1>0. /\ d \in Cores /\ hpc[d] = "finish" /\ hpc' = [hpc EXCEPT ![d] = "none"]
      /\ unfinished' = [unfinished EXCEPT ![hslot[d]] = @ - 1]
      /\ hfptr' = [hfptr EXCEPT ![d] = NoCall]
      /\ hslot' = [hslot EXCEPT ![d] = 0]
      /\ UNCHANGED <<next, lock, fptr, data, callers, pending, ran>>
  BY ConfigAssumption DEF Finish, HGoto
<1> USE DEF callers
<1>1. TypeOK'
  BY <1>0, ConfigAssumption DEF IInv, TypeOK, Slots
<1>2. PICK c \in Cores : slot[c] = hslot[d] /\ Awaits(c, d)
  BY <1>0, Served
<1>3. \A e \in Cores, s \in Slots :
        /\ ToFinish(e, s)' <=> ToFinish(e, s) /\ ~(e = d /\ s = slot[c])
        /\ ToRun(e, s)' <=> ToRun(e, s)
  BY <1>0, <1>2 DEF ToFinish, ToRun, IInv, TypeOK, OneVector
<1>4. ToFinish(d, slot[c])
  BY <1>0, <1>2 DEF ToFinish
<1>5. pc[c] \in SentPCs
  BY <1>2 DEF Awaits
<1>6. \A e \in Cores : pc[e] \in LockedPCs /\ slot[e] = slot[c] => e = c
  BY <1>5, OneOwner DEF SentPCs, LockedPCs, CallPCs
<1>7. CountIsOwed'
  <2>1. Owing(c)' = Owing(c) \ {d} /\ d \in Owing(c)
    <3>1. ~(d = c /\ pc[c] \in {"self", "selfDone"}) /\ d \in asked[Current(c)]
      BY <1>2 DEF Awaits, IInv, Arguments
    <3>2. slot[c] \in Slots /\ UNCHANGED <<pc, slot, asked, made>> /\ Current(c)' = Current(c)
      BY <1>0 DEF IInv, TypeOK, Current
    <3>3. \A f \in Cores : ToFinish(f, slot[c])' <=> ToFinish(f, slot[c]) /\ f # d
      BY <1>3, <3>2 DEF ToFinish
    <3>4. \A f \in Cores : HasToFinish(c, f)' <=> HasToFinish(c, f) /\ f # d
      BY <1>5, <3>1, <3>2, <3>3 DEF HasToFinish, SentPCs
    <3>5. HasToFinish(c, d)
      BY <1>4, <3>1 DEF HasToFinish
    <3> QED
      BY <1>0, <3>4, <3>5 DEF Owing
  <2>2. Cardinality(Owing(c)') = Cardinality(Owing(c)) - 1
    BY <2>1, CoreSets, FS_RemoveElement DEF Owing
  <2>3. unfinished'[slot[c]] = Cardinality(Owing(c)')
    BY <1>0, <1>2, <1>5, <2>2 DEF IInv, TypeOK, CountIsOwed
  <2>4. ASSUME NEW e \in Cores \ {c}, pc[e] \in {"send"} \cup SentPCs
        PROVE  unfinished'[slot[e]] = unfinished[slot[e]] /\ Owing(e)' = Owing(e)
    <3>1. slot[e] # slot[c] /\ slot[e] \in Slots
      BY <1>6, <2>4 DEF SentPCs, LockedPCs, CallPCs, IInv, TypeOK
    <3>2. \A f \in Cores : HasToFinish(e, f)' <=> HasToFinish(e, f)
      <4>1. UNCHANGED <<pc, slot, asked, made>> /\ Current(e)' = Current(e)
        BY <1>0 DEF Current
      <4>2. \A f \in Cores : ToFinish(f, slot[e])' <=> ToFinish(f, slot[e])
        BY <1>3, <3>1, <4>1 DEF ToFinish
      <4> QED
        BY <4>1, <4>2 DEF HasToFinish
    <3> QED
      BY <1>0, <1>2, <3>1, <3>2 DEF Owing, IInv, TypeOK
  <2> QED
    BY <1>0, <2>3, <2>4 DEF IInv, CountIsOwed
<1>8. SlotIsOwned' /\ SlotContent' /\ Arguments'
  BY <1>0 DEF IInv, SlotIsOwned, Owns, SlotContent, Arguments, Current
<1>9. InFlight'
  BY <1>0, <1>3 DEF IInv, InFlight, Awaits, Current
<1>10. NoFault' /\ OneVector' /\ Loaded'
  BY <1>0 DEF IInv, TypeOK, NoFault, OneVector, Loaded
<1>11. RanExactly'
  <2>1. \A x \in Calls : Status(x)' = Status(x)
    BY <1>0, <1>1, StatusUnchanged DEF IInv
  <2>2. \A e, f \in Cores : HasToRun(e, f)' <=> HasToRun(e, f)
    BY <1>0, <1>3 DEF HasToRun, Current, IInv, TypeOK
  <2> QED
    BY <1>0, <2>1, <2>2, CallFacts DEF IInv, RanExactly
<1> QED
  BY <1>1, <1>7, <1>8, <1>9, <1>10, <1>11 DEF IInv

------------------------------------------------------------------------------
(* The invariant and what follows from it                                  *)

\* No call is in progress at first.
LEMMA InitIInv == Init => IInv
<1> SUFFICES ASSUME Init PROVE IInv
  OBVIOUS
<1> USE ConfigAssumption DEF Init
<1>1. TypeOK
  BY DEF TypeOK, Slots, CallPCs, ReturnPCs, AllPolicies, WaitingPolicies
<1>2. NoFault /\ OneVector /\ Loaded
  BY DEF NoFault, OneVector, Loaded
<1>3. SlotIsOwned /\ CountIsOwed /\ SlotContent /\ Arguments
  BY DEF SlotIsOwned, Owns, LockedPCs, CallPCs, CountIsOwed, SentPCs, SlotContent, Arguments
<1>4. InFlight
  BY DEF InFlight, ToFinish
<1>5. RanExactly
  <2>1. \A x \in Calls : Status(x) = "unused"
    BY <1>1, CallFacts, StatusIs
  <2> QED
    BY <2>1 DEF RanExactly
<1> QED
  BY <1>1, <1>2, <1>3, <1>4, <1>5 DEF IInv

\* Every statement of a caller and of a handler preserves the invariant.
LEMMA NextIInv ==
  ASSUME Policies \subseteq WaitingPolicies, IInv, [Next]_vars
  PROVE  IInv'
<1>1. ASSUME NEW c \in Online, NEW p \in Policies, NEW t \in Online, BeginCall(c, p, t)
      PROVE  IInv'
  BY <1>1, BeginCallInv
<1>2. ASSUME NEW c \in Online, CallStep(c) PROVE IInv'
  BY <1>2, FetchSlotInv, LockSlotInv, SetFptrInv, SetDataInv, SetUnfinishedInv, SendInv,
     RunSelfInv, SelfDoneInv, WaitDoneInv, ClearFptrInv, ClearDataInv, UnlockSlotInv
     DEF CallStep
<1>3. ASSUME NEW d \in Online, NEW s \in Slots, Interrupt(d, s) PROVE IInv'
  BY <1>3, InterruptInv
<1>4. ASSUME NEW d \in Online, HandlerStep(d) PROVE IInv'
  BY <1>4, LoadFptrInv, RunCallInv, FinishInv DEF HandlerStep
<1>5. CASE UNCHANGED vars
  <2> USE <1>5 DEF vars, slots, callers, handlers
  <2>1. TypeOK'
    BY DEF IInv, TypeOK
  <2>2. HandlerOnly
    BY <2>1 DEF HandlerOnly
  <2>3. \A d \in Cores, s \in Slots : /\ ToFinish(d, s)' <=> ToFinish(d, s)
                                      /\ ToRun(d, s)' <=> ToRun(d, s)
    BY DEF ToFinish, ToRun
  <2>4. NoFault' /\ OneVector' /\ Loaded'
    BY DEF IInv, NoFault, OneVector, Loaded
  <2> QED
    BY <2>1, <2>2, <2>3, <2>4, FlightUnchanged, RunsUnchanged DEF IInv
<1> QED
  BY <1>1, <1>2, <1>3, <1>4, <1>5 DEF Next

\* The invariant of the waiting calls, in every reachable state.
THEOREM Invariance ==
  ASSUME Policies \subseteq WaitingPolicies
  PROVE  Spec => []IInv
<1>1. IInv /\ [Next]_vars => IInv'
  BY NextIInv
<1> QED
  BY <1>1, InitIInv, PTL DEF Spec

\* No core executes a call twice, nor one that does not name it.
THEOREM AtMostOnceHolds ==
  ASSUME Policies \subseteq WaitingPolicies
  PROVE  Spec => []AtMostOnce
<1>1. IInv => AtMostOnce
  BY DEF IInv, RanExactly, AtMostOnce
<1> QED
  BY <1>1, Invariance, PTL

\* No handler finds its slot without a function, or with the argument of another call.
THEOREM NoFaultHolds ==
  ASSUME Policies \subseteq WaitingPolicies
  PROVE  Spec => []NoFault
<1>1. IInv => NoFault
  BY DEF IInv
<1> QED
  BY <1>1, Invariance, PTL

\* When parallel_execute stops waiting, every core it names has executed the function.
THEOREM SynchronizedHolds ==
  ASSUME Policies \subseteq WaitingPolicies
  PROVE  Spec => []Synchronized
<1>1. IInv => Synchronized
  <2> SUFFICES ASSUME IInv, NEW c \in Cores, pc[c] \in {"clearFptr", "clearData"},
                      NEW d \in asked[Current(c)]
               PROVE  ran[Current(c)][d] > 0
    BY DEF Synchronized
  <2>1. /\ Current(c) \in Calls /\ Caller(Current(c)) = c /\ Number(Current(c)) = made[c]
        /\ made[c] \in Nat /\ d \in Cores
    BY CurrentIsACall, ConfigAssumption DEF IInv, TypeOK
  <2>2. Status(Current(c)) = "returned"
    BY <2>1, StatusIs DEF IInv, CallPCs
  <2> QED
    BY <2>1, <2>2 DEF IInv, RanExactly
<1> QED
  BY <1>1, Invariance, PTL

------------------------------------------------------------------------------
(* Refinement of RemoteCall                                                *)

\* No call exists at first.
LEMMA InitRefines == Init => RC!Init
<1> SUFFICES ASSUME Init PROVE RC!Init
  OBVIOUS
<1>1. \A x \in Calls : Status(x) = "unused"
  BY InitIInv, CallFacts, StatusIs DEF IInv, Init
<1> QED
  BY <1>1 DEF RC!Init, Init

\* Beginning a call begins it; the cores it names are those of its policy.
LEMMA BeginRefines ==
  ASSUME IInv, IInv', NEW c \in Online, NEW p \in Policies, NEW t \in Online,
         BeginCall(c, p, t), Policies \subseteq WaitingPolicies
  PROVE  RC!Next
<1> DEFINE new == Call(c, made[c] + 1)
<1>0. /\ c \in Cores /\ t \in Cores /\ p \in WaitingPolicies
      /\ pc[c] = "idle" /\ pc' = [pc EXCEPT ![c] = "fetch"]
      /\ made' = [made EXCEPT ![c] = @ + 1] /\ made[c] < MaxCalls /\ made[c] \in Nat
      /\ asked' = [asked EXCEPT ![new] = Named(p, c, t)] /\ ran' = ran
  BY ConfigAssumption DEF BeginCall, Goto, IInv, TypeOK
<1>1. new \in Calls /\ Caller(new) = c /\ Number(new) = made[c] + 1
  BY <1>0, CallFacts, ConfigAssumption
<1>2. /\ pc'[c] = "fetch" /\ made'[c] = made[c] + 1
      /\ \A e \in Cores \ {c} : pc'[e] = pc[e] /\ made'[e] = made[e]
  BY <1>0 DEF IInv, TypeOK
<1>3. \A x \in Calls : Status(x)' = IF x = new THEN "active" ELSE Status(x)
  <2> SUFFICES ASSUME NEW x \in Calls
               PROVE  Status(x)' = IF x = new THEN "active" ELSE Status(x)
    OBVIOUS
  <2>1. /\ Caller(x) \in Cores /\ Number(x) \in Nat
        /\ x # new /\ Caller(x) = c => Number(x) # made[c] + 1
    BY CallFacts
  <2>2. CASE x = new
    BY <1>0, <1>1, <1>2, <2>2, StatusIsNext DEF IInv, CallPCs
  <2>3. CASE x # new /\ Caller(x) = c
    BY <1>0, <1>2, <2>1, <2>3, StatusIs, StatusIsNext DEF IInv, CallPCs
  <2>4. CASE x # new /\ Caller(x) # c
    BY <1>2, <2>1, <2>4, StatusIs, StatusIsNext DEF IInv
  <2> QED
    BY <2>2, <2>3, <2>4
<1>4. Status(new) = "unused"
  BY <1>0, <1>1, StatusIs DEF IInv
<1>5. Named(p, c, t) \in SUBSET Cores
  BY <1>0, NamedIs
<1>6. RC!Begin(new, Named(p, c, t))
  BY <1>0, <1>1, <1>3, <1>4 DEF RC!Begin
<1> QED
  BY <1>1, <1>5, <1>6 DEF RC!Next

\* An execution on the calling core is an execution of an active call.
LEMMA RunSelfRefines == ASSUME IInv, IInv', NEW c \in Online, RunSelf(c) PROVE RC!Next
<1>0. /\ c \in Cores /\ pc[c] = "self" /\ policy[c] = "all"
      /\ pc' = [pc EXCEPT ![c] = "selfDone"]
      /\ ran' = [ran EXCEPT ![Current(c)][c] = @ + 1]
      /\ UNCHANGED <<asked, made>>
  BY ConfigAssumption DEF RunSelf, Goto, IInv, Arguments
<1>1. Current(c) \in Calls /\ Caller(Current(c)) = c
  BY <1>0, CurrentIsACall
<1>2. Status(Current(c)) = "active"
  BY <1>0, <1>1, ActiveIsCurrent DEF CallPCs
<1>3. c \in asked[Current(c)]
  BY <1>0, SelfIsNamed
<1>4. ran[Current(c)][c] = 0
  BY <1>0, <1>1, <1>2, <1>3 DEF IInv, RanExactly, HasToRun
<1>5. \A x \in Calls : Status(x)' = Status(x)
  BY <1>0, StatusUnchanged DEF IInv, TypeOK, CallPCs
<1>6. RC!Run(Current(c), c)
  BY <1>0, <1>1, <1>2, <1>3, <1>4, <1>5 DEF RC!Run
<1> QED
  BY <1>0, <1>1, <1>6 DEF RC!Next

\* So is an execution by a handler.
LEMMA RunCallRefines == ASSUME IInv, IInv', NEW d \in Online, RunCall(d) PROVE RC!Next
<1>1. PICK c \in Cores : /\ Current(c) \in Calls /\ Caller(Current(c)) = c
                         /\ Awaits(c, d) /\ ran[Current(c)][d] = 0
                         /\ ran' = [ran EXCEPT ![Current(c)][d] = 1]
  BY RunCallInv
<1>2. UNCHANGED <<pc, made, asked>>
  BY RunCallInv
<1>3. Status(Current(c)) = "active"
  BY <1>1, ActiveIsCurrent DEF Awaits, SentPCs, CallPCs
<1>4. \A x \in Calls : Status(x)' = Status(x)
  BY <1>2, StatusUnchanged DEF IInv
<1>5. RC!Run(Current(c), d)
  BY <1>1, <1>2, <1>3, <1>4 DEF RC!Run, Awaits
<1> QED
  BY <1>1, <1>5, ConfigAssumption DEF RC!Next

\* The end of the wait is the return: every named core has executed the call.
LEMMA WaitDoneRefines == ASSUME IInv, IInv', NEW c \in Online, WaitDone(c) PROVE RC!Next
<1>0. /\ c \in Cores /\ pc[c] = "wait" /\ unfinished[slot[c]] = 0
      /\ pc' = [pc EXCEPT ![c] = "clearFptr"] /\ UNCHANGED <<made, asked, ran>>
  BY ConfigAssumption DEF WaitDone, Goto
<1>1. /\ Current(c) \in Calls /\ Caller(Current(c)) = c /\ Number(Current(c)) = made[c]
      /\ made[c] \in Nat
  BY <1>0, CurrentIsACall, ConfigAssumption DEF IInv, TypeOK
<1>2. Status(Current(c)) = "active"
  BY <1>0, <1>1, ActiveIsCurrent DEF CallPCs
<1>3. \A x \in Calls : Status(x)' = IF x = Current(c) THEN "returned" ELSE Status(x)
  <2> SUFFICES ASSUME NEW x \in Calls
               PROVE  Status(x)' = IF x = Current(c) THEN "returned" ELSE Status(x)
    OBVIOUS
  <2>1. Caller(x) \in Cores /\ Number(x) \in Nat /\ x = Call(Caller(x), Number(x))
    BY CallFacts
  <2>2. pc'[c] = "clearFptr" /\ \A e \in Cores \ {c} : pc'[e] = pc[e]
    BY <1>0 DEF IInv, TypeOK
  <2>3. CASE x = Current(c)
    BY <1>0, <1>1, <2>2, <2>3, StatusIsNext DEF IInv, CallPCs
  <2>4. CASE x # Current(c)
    <3>1. Caller(x) = c => Number(x) # made[c]
      BY <2>1, <2>4 DEF Current
    <3> QED
      BY <1>0, <2>1, <2>2, <2>4, <3>1, StatusIs, StatusIsNext DEF IInv
  <2> QED
    BY <2>3, <2>4
<1>4. \A d \in asked[Current(c)] : ran[Current(c)][d] = 1
  <2>1. asked[Current(c)] \subseteq Cores
    BY <1>1 DEF IInv, TypeOK
  <2> QED
    BY <1>0, <1>1, <1>2, <2>1, NothingOwed DEF IInv, RanExactly
<1>5. RC!Return(Current(c))
  BY <1>0, <1>1, <1>2, <1>3, <1>4 DEF RC!Return
<1> QED
  BY <1>1, <1>5 DEF RC!Next

\* Every other statement is invisible.
LEMMA StepRefines ==
  ASSUME Policies \subseteq WaitingPolicies, IInv, IInv', [Next]_vars
  PROVE  [RC!Next]_RC!vars
<1> SUFFICES ASSUME ~RC!Next PROVE UNCHANGED RC!vars
  OBVIOUS
<1>1. ASSUME UNCHANGED <<made, asked, ran>>,
             \A e \in Cores : pc'[e] \in CallPCs <=> pc[e] \in CallPCs
      PROVE  UNCHANGED RC!vars
  BY <1>1, StatusUnchanged DEF IInv, RC!vars
<1>2. ASSUME NEW c \in Online, CallStep(c), ~RunSelf(c), ~WaitDone(c)
      PROVE  UNCHANGED RC!vars
  <2> USE DEF IInv, TypeOK, Goto, CallPCs
  <2>1. CASE FetchSlot(c) \/ LockSlot(c) \/ SetFptr(c) \/ SetData(c)
    BY <1>1, <2>1 DEF FetchSlot, LockSlot, SetFptr, SetData
  <2>2. CASE SetUnfinished(c)
    BY <1>1, <2>2, SetUnfinishedIs
  <2>3. CASE Send(c)
    BY <1>1, <2>3, SendIs
  <2>4. CASE SelfDone(c) \/ ClearFptr(c) \/ ClearData(c) \/ UnlockSlot(c)
    BY <1>1, <2>4 DEF SelfDone, ClearFptr, ClearData, UnlockSlot
  <2> QED
    BY <1>2, <2>1, <2>2, <2>3, <2>4 DEF CallStep
<1>3. ASSUME NEW d \in Online, NEW s \in Slots, Interrupt(d, s) PROVE UNCHANGED RC!vars
  BY <1>1, <1>3 DEF Interrupt, callers
<1>4. ASSUME NEW d \in Online, LoadFptr(d) \/ Finish(d) PROVE UNCHANGED RC!vars
  BY <1>1, <1>4 DEF LoadFptr, Finish, callers
<1>5. CASE UNCHANGED vars
  BY <1>1, <1>5 DEF vars, callers
<1> QED
  BY <1>2, <1>3, <1>4, <1>5, BeginRefines, RunSelfRefines, RunCallRefines, WaitDoneRefines
     DEF Next, CallStep, HandlerStep

\* A parallel_execute that waits is a remote call: every core named executes the function
\* exactly once, between the call and its return.
THEOREM Refinement ==
  ASSUME Policies \subseteq WaitingPolicies
  PROVE  Spec => Implements
<1>1. IInv /\ IInv' /\ [Next]_vars => [RC!Next]_RC!vars
  BY StepRefines
<1> QED
  BY <1>1, InitRefines, Invariance, PTL DEF Spec, Implements, RC!Spec

==============================================================================
