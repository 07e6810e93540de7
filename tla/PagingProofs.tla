----------------------------- MODULE PagingProofs -----------------------------
(***************************************************************************)
(* Proofs about Paging, for any memory, any number of cores, levels and    *)
(* requests, and any tables of the booter that are a tree.                 *)
(*                                                                         *)
(* First the slot for a PML4 under construction (entry 257, the foreign    *)
(* space): it belongs to one core from set_foreign to release_foreign,     *)
(* although the spinlock of clone_kernel is given back before that. That   *)
(* needs only that the free frames are memory.                             *)
(*                                                                         *)
(* Then the paging structures. In the code nothing says what a table is:   *)
(* the bookkeeping g gives every frame the level of its table, its number  *)
(* among those of the level and the space it is of. PagingInv(g) says that *)
(* the entries, the walks with their locks, the frames that walks carry,   *)
(* the new PML4 and the pages mapped agree with g; every step is shown to  *)
(* lead to a g for which it holds again. From it: a frame has one use, the *)
(* free frames are memory, and what map has mapped is found until unmap,   *)
(* in the lower half by the user too. With what the walks are asked for    *)
(* (AskedInv), no walk finds a page that it did not expect.                *)
(***************************************************************************)
EXTENDS Paging, FiniteSetTheorems, WellFoundedInduction, TLAPS

------------------------------------------------------------------------------
(* The invariant                                                           *)

Walks == {"map", "unmap", "query"}

\* Core c makes a process: it is at one of the steps, or in a walk that leads to one.
Making(c, steps) == \/ call[c].do = "process" /\ call[c].step \in steps
                    \/ call[c].do \in Walks /\ call[c].then \in steps

\* A call is a record that says what is done, at which step, and what comes then; a walk
\* leads to a step of create_process that follows one.
CallType(k) ==
  /\ k = [x \in DOMAIN k |-> k[x]] /\ "do" \in DOMAIN k
  /\ k.do \in {"idle", "process"} \cup Walks
  /\ k.do \in Walks => /\ {"step", "then"} \subseteq DOMAIN k
                       /\ k.then \in {"return", "zero", "set_foreign", "leave"}

\* The steps after clone_kernel has taken a frame, those in its spinlock, and those between
\* set_foreign and release_foreign.
Later == {"zero", "set_foreign", "copy", "release_foreign", "enter", "leave"}
Inside == {"zero", "set_foreign", "copy"}
Held == {"copy", "release_foreign"}
Holds(c) == call[c].do = "process" /\ call[c].step \in Held

Types == /\ call = [c \in Cores |-> call[c]] /\ \A c \in Cores : CallType(call[c])
         /\ cr3 \in [Cores -> Frames] /\ spaces \subseteq Frames
         /\ foreign \in [Frames -> Frames \cup {Null}]
         /\ making = [c \in Cores |-> making[c]]
         /\ \A c \in Cores : Making(c, Later) =>
              making[c] = <<making[c][1], making[c][2]>> /\ making[c][1] \in Frames
                                                         /\ making[c][2] \in Frames

\* The spinlock of clone_kernel excludes.
MutexHeld == \A c \in Cores : Making(c, Inside) => mutex = c
\* The slot is what its core has put there,
SlotIsMine == \A c \in Cores : Holds(c) => foreign[cr3[c]] = making[c][1]
\* no two cores have the slot of one space,
SlotIsOneCores == \A c, d \in Cores : Holds(c) /\ Holds(d) /\ cr3[c] = cr3[d] => c = d
\* and a slot in use has a core that will release it.
SlotIsReleased == \A s \in Frames : foreign[s] # Null => \E c \in Cores : Holds(c) /\ cr3[c] = s

IInv == Types /\ MutexHeld /\ SlotIsMine /\ SlotIsOneCores /\ SlotIsReleased

\* What memory::pmm holds is memory: no request has unmapped a page of a device with
\* the order to push its frame.
FreeIsMemory == free \subseteq Frames

------------------------------------------------------------------------------
(* Calls                                                                   *)

\* The records unmap, get_physical_address and create_process start with.
LEMMA NewUnmapping ==
  ASSUME NEW at, NEW end, NEW push, NEW then,
         then \in {"return", "zero", "set_foreign", "leave"}
  PROVE  /\ CallType(Unmapping(at, end, push, then))
         /\ Unmapping(at, end, push, then).do = "unmap"
         /\ Unmapping(at, end, push, then).then = then
BY DEF CallType, Unmapping, Walks

\* The record of a query.
LEMMA NewQuery ==
  ASSUME NEW at
  PROVE  CallType(Querying(at)) /\ Querying(at).do = "query" /\ Querying(at).then = "return"
BY DEF CallType, Querying, Walks

\* The steps of create_process, and no call.
LEMMA NewProcess ==
  ASSUME NEW step
  PROVE  /\ CallType([do |-> "process", step |-> step])
         /\ CallType(Idle) /\ Idle.do = "idle"
BY DEF CallType, Idle, Walks

\* A core that goes on is at a step it may be at.
LEMMA CallsStay ==
  ASSUME IInv, NEW c \in Cores, NEW k, CallType(k), Goes(c, k)
  PROVE  call' = [d \in Cores |-> call'[d]] /\ \A d \in Cores : CallType(call[d])'
<1>1. call' = [call EXCEPT ![c] = k] /\ call = [d \in Cores |-> call[d]]
  BY DEF Goes, IInv, Types
<1>2. call' = [d \in Cores |-> call'[d]] /\ \A d \in Cores : call'[d] \in {k, call[d]}
  BY <1>1
<1>3. \A d \in Cores : CallType(call'[d])
  BY <1>2 DEF IInv, Types
<1> QED  BY <1>2, <1>3

\* Whatever the walk changes of its record, it stays the same walk.
LEMMA SameWalk ==
  ASSUME NEW k, CallType(k), k.do \in Walks, NEW a, NEW b, NEW d, NEW e
  PROVE /\ CallType([k EXCEPT !.step = a]) /\ [k EXCEPT !.step = a].do = k.do
        /\ [k EXCEPT !.step = a].then = k.then
        /\ CallType([k EXCEPT !.level = b]) /\ [k EXCEPT !.level = b].do = k.do
        /\ [k EXCEPT !.level = b].then = k.then
        /\ CallType([k EXCEPT !.step = a, !.level = b])
        /\ [k EXCEPT !.step = a, !.level = b].do = k.do
        /\ [k EXCEPT !.step = a, !.level = b].then = k.then
        /\ CallType([k EXCEPT !.at = d, !.phys = e, !.step = a, !.level = b])
        /\ [k EXCEPT !.at = d, !.phys = e, !.step = a, !.level = b].do = k.do
        /\ [k EXCEPT !.at = d, !.phys = e, !.step = a, !.level = b].then = k.then
        /\ CallType([k EXCEPT !.phys = e, !.at = d, !.step = a])
        /\ [k EXCEPT !.phys = e, !.at = d, !.step = a].do = k.do
        /\ [k EXCEPT !.phys = e, !.at = d, !.step = a].then = k.then
  BY DEF CallType, Walks

\* A step in which a core goes on with what it is at, in its space, keeps the invariant.
LEMMA GoesOn ==
  ASSUME IInv, NEW c \in Cores, NEW k, CallType(k), Goes(c, k),
         UNCHANGED <<cr3, foreign, mutex, making, spaces>>,
         k.do \in Walks => k.then = "return" \/ Making(c, {k.then}) \/ At(c, "zero"),
         k.do = "process" => k.step = "clone" \/ (Making(c, {k.step}) /\ k.step \notin Held),
         ~Holds(c)
  PROVE IInv'
<1>1. call' = [call EXCEPT ![c] = k] /\ call'[c] = k /\ \A d \in Cores \ {c} : call'[d] = call[d]
  BY DEF Goes, IInv, Types
<1>2. /\ Making(c, Later)' => Making(c, Later)
      /\ Making(c, Inside)' => Making(c, Inside)
      /\ \A d \in Cores \ {c} : /\ Making(d, Later)' <=> Making(d, Later)
                                /\ Making(d, Inside)' <=> Making(d, Inside)
  BY <1>1 DEF Making, At, Later, Inside, Held, Walks
<1>3. \A d \in Cores : Holds(d)' <=> Holds(d)
  BY <1>1 DEF Holds, Held
<1>4. Types'
  <2>1. call' = [d \in Cores |-> call'[d]] /\ \A d \in Cores : CallType(call[d])'
    BY CallsStay
  <2> QED  BY <1>2, <2>1 DEF IInv, Types
<1>5. MutexHeld' /\ SlotIsMine' /\ SlotIsOneCores' /\ SlotIsReleased'
  BY <1>2, <1>3 DEF IInv, MutexHeld, SlotIsMine, SlotIsOneCores, SlotIsReleased
<1> QED  BY <1>4, <1>5 DEF IInv

\* A step that leaves calls and spaces alone keeps it.
LEMMA Stays == IInv /\ UNCHANGED <<cr3, foreign, call, mutex, making, spaces>> => IInv'
  BY DEF IInv, Types, MutexHeld, SlotIsMine, SlotIsOneCores, SlotIsReleased, CallType, Making, Holds

\* Popped is a frame.
LEMMA PoppedIsFree ==
  ASSUME FreeIsMemory, free # {}
  PROVE Popped \in Frames /\ Popped \in free
<1>1. free \subseteq Nat
  BY DEF FreeIsMemory, Frames
<1>2. PICK f \in free : \A g \in free : ~(<<g, f>> \in OpToRel(<, Nat))
  BY <1>1, WFMin, NatLessThanWellFounded
<1>3. \A n, g \in free : <<g, n>> \in OpToRel(<, Nat) <=> g < n
  BY <1>1 DEF OpToRel
<1>4. \A n, g \in free : ~(g < n) => n <= g
  BY <1>1
<1> QED  BY <1>2, <1>3, <1>4 DEF Popped, FreeIsMemory

\* At the steps after a core has taken a frame, what it makes is a space.
LEMMA Made ==
  ASSUME IInv, NEW c \in Cores, Making(c, Later)
  PROVE making[c][1] \in Frames /\ making[c][2] \in Frames /\ making[c][1] # Null
  BY DEF IInv, Types, Frames, Null

------------------------------------------------------------------------------
(* The steps                                                               *)

\* map, unmap and get_physical_address, and their return.
LEMMA Walking ==
  ASSUME IInv, NEW c \in Cores,
         \/ Link(c) \/ Clear(c) \/ MapDescend(c) \/ UnmapDescend(c) \/ MapPage(c)
         \/ UnmapPage(c) \/ QueryLock(c) \/ Query(c)
  PROVE IInv'
<1>1. CallType(call[c]) /\ call[c].do \in Walks /\ ~Holds(c)
  BY DEF IInv, Types, Link, Clear, MapDescend, UnmapDescend, MapPage, UnmapPage, QueryLock,
         Query, AtLevel, Walks, Holds
<1>2. CASE Panic  BY <1>2, Stays DEF Panic, spaceVars
<1>3. ASSUME NEW k, CallType(k), k.do = call[c].do, k.then = call[c].then, Goes(c, k),
             UNCHANGED spaceVars
      PROVE IInv'
  <2>1. Making(c, {k.then})  BY <1>1, <1>3 DEF Making
  <2>2. k.do # "process"  BY <1>1, <1>3 DEF Walks
  <2> QED  BY <1>1, <1>3, <2>1, <2>2, GoesOn DEF spaceVars
<1> DEFINE to(a, l) == [call[c] EXCEPT !.step = a, !.level = l]
<1>4. CASE Link(c)
  <2>1. SUFFICES ASSUME Goes(c, [call[c] EXCEPT !.step = "clear"]), UNCHANGED spaceVars
                 PROVE IInv'
    BY <1>2, <1>4 DEF Link
  <2> QED  BY <2>1, <1>1, <1>3, SameWalk
<1>5. CASE Clear(c) \/ MapDescend(c) \/ UnmapDescend(c)
  <2>1. SUFFICES ASSUME Goes(c, to("lock", call[c].level - 1)), UNCHANGED spaceVars
                 PROVE IInv'
    BY <1>2, <1>5 DEF Clear, MapDescend, UnmapDescend, Down
  <2>2. PICK l : l = call[c].level - 1
    OBVIOUS
  <2>3. CallType(to("lock", l)) /\ to("lock", l).do = call[c].do
                                /\ to("lock", l).then = call[c].then
    BY <1>1 DEF CallType, Walks
  <2> QED  BY <2>1, <2>2, <2>3, <1>3
<1>6. CASE MapPage(c) \/ UnmapPage(c)
  <2>1. SUFFICES ASSUME NEW e, Advance(c, e), UNCHANGED spaceVars
                 PROVE IInv'
    BY <1>2, <1>6 DEF MapPage, UnmapPage
  <2>2. PICK a, l, d, p : Goes(c, [call[c] EXCEPT !.at = d, !.phys = p, !.step = a, !.level = l])
    BY <2>1 DEF Advance
  <2> DEFINE k == [call[c] EXCEPT !.at = d, !.phys = p, !.step = a, !.level = l]
  <2>3. CallType(k) /\ k.do = call[c].do /\ k.then = call[c].then
    BY <1>1 DEF CallType, Walks
  <2>4. Goes(c, k)  BY <2>2
  <2> HIDE DEF k
  <2> QED  BY <2>1, <2>3, <2>4, <1>3
<1>7. CASE QueryLock(c)
  BY <1>7, <1>1, <1>3, SameWalk DEF QueryLock
<1>8. CASE Query(c)
  <2>1. CASE Goes(c, [call[c] EXCEPT !.level = call[c].level - 1]) /\ UNCHANGED spaceVars
    BY <2>1, <1>1, <1>3, SameWalk
  <2>2. ASSUME NEW p, NEW d, Goes(c, [call[c] EXCEPT !.phys = p, !.at = d, !.step = "done"]),
               UNCHANGED spaceVars
        PROVE IInv'
    <3> DEFINE k == [call[c] EXCEPT !.phys = p, !.at = d, !.step = "done"]
    <3>1. CallType(k) /\ k.do = call[c].do /\ k.then = call[c].then
      BY <1>1 DEF CallType, Walks
    <3>2. Goes(c, k)  BY <2>2
    <3> HIDE DEF k
    <3> QED  BY <2>2, <3>1, <3>2, <1>3
  <2> QED  BY <1>8, <1>2, <2>1, <2>2 DEF Query
<1> QED  BY <1>4, <1>5, <1>6, <1>7, <1>8

LEMMA Returning ==
  ASSUME IInv, NEW c \in Cores, Return(c)
  PROVE IInv'
<1>1. CallType(call[c]) /\ call[c].do \in Walks /\ ~Holds(c) /\ Making(c, {call[c].then})
      /\ call[c].then \in {"return", "zero", "set_foreign", "leave"}
  BY DEF IInv, Types, Return, Walks, Holds, CallType, Making
<1>2. CASE PopAndMap(c, call[c].at, call[c].upto, call[c].user, call[c].then)
  <2>1. CASE Panic  BY <2>1, Stays DEF Panic, spaceVars
  <2> DEFINE k == Mapping(call[c].at, call[c].at + 1, Popped, call[c].user, call[c].upto,
                          call[c].then)
  <2>2. CASE Goes(c, k) /\ UNCHANGED spaceVars
    <3> HIDE DEF k
    <3>1. CallType(k) /\ k.do = "map" /\ k.then = call[c].then
      BY <1>1 DEF k, CallType, Mapping, Walks
    <3> QED  BY <2>2, <3>1, <1>1, GoesOn DEF spaceVars
  <2> QED  BY <1>2, <2>1, <2>2 DEF PopAndMap
<1>3. CASE call[c].then = "return" /\ Goes(c, Idle) /\ UNCHANGED spaceVars
  <2>1. CallType(Idle) /\ Idle.do = "idle"  BY NewProcess
  <2> QED  BY <2>1, <1>1, <1>3, GoesOn DEF spaceVars, Walks
<1>4. CASE /\ call[c].then # "return" /\ UNCHANGED spaceVars
           /\ Goes(c, [do |-> "process", step |-> call[c].then])
  <2>1. CallType([do |-> "process", step |-> call[c].then])  BY NewProcess
  <2> QED  BY <2>1, <1>1, <1>4, GoesOn DEF spaceVars, Walks, Held
<1> QED  BY <1>2, <1>3, <1>4 DEF Return

LEMMA Starting ==
  ASSUME IInv, NEW c \in Cores, NEW r, Start(c, r)
  PROVE IInv'
<1>1. ~Holds(c) /\ UNCHANGED spaceVars
  BY DEF Start, Holds
<1>2. ASSUME NEW k, Goes(c, k), CallType(k), k.do \in Walks => k.then = "return",
             k.do = "process" => k.step = "clone"
      PROVE  IInv'
  <2>1. /\ k.do \in Walks => k.then = "return" \/ Making(c, {k.then}) \/ At(c, "zero")
        /\ k.do = "process" => k.step = "clone" \/ (Making(c, {k.step}) /\ k.step \notin Held)
    BY <1>2
  <2> QED  BY <1>1, <1>2, <2>1, GoesOn DEF spaceVars
<1> DEFINE map == Mapping(r.at, r.at + 1, Popped, r.lower, r.end, "return")
           device == Mapping(r.at, r.end, NFrames + 1, r.lower, r.end, "return")
           unmap == Unmapping(r.at, r.end, r.push, "return")
           process == [do |-> "process", step |-> "clone"]
<1>3. \/ Goes(c, map) \/ Goes(c, device) \/ Goes(c, unmap)
      \/ Goes(c, Querying(r.at)) \/ Goes(c, process)
  BY Zenon DEF Start
<1>4. CASE Goes(c, map)
  <2>1. CallType(map) /\ map.do = "map" /\ map.then = "return"
    BY DEF CallType, Mapping, Walks
  <2> HIDE DEF map
  <2> QED  BY <1>2, <1>4, <2>1
<1>5. CASE Goes(c, device)
  <2>1. CallType(device) /\ device.do = "map" /\ device.then = "return"
    BY DEF CallType, Mapping, Walks
  <2> HIDE DEF device
  <2> QED  BY <1>2, <1>5, <2>1
<1>6. CASE Goes(c, unmap)
  <2>1. CallType(unmap) /\ unmap.do = "unmap" /\ unmap.then = "return"
    BY DEF CallType, Unmapping, Walks
  <2> HIDE DEF unmap
  <2> QED  BY <1>2, <1>6, <2>1
<1>7. CASE Goes(c, Querying(r.at))
  <2>1. CallType(Querying(r.at)) /\ Querying(r.at).do = "query"
        /\ Querying(r.at).then = "return"
    BY NewQuery
  <2> QED  BY <1>2, <1>7, <2>1
<1>8. CASE Goes(c, process)
  <2>1. CallType(process) /\ process.do = "process" /\ process.step = "clone"
    BY NewProcess
  <2> HIDE DEF process
  <2> QED  BY <1>2, <1>8, <2>1 DEF Walks
<1> QED  BY <1>3, <1>4, <1>5, <1>6, <1>7, <1>8

\* clone_kernel takes its spinlock and a frame.
LEMMA CloneKeeps ==
  ASSUME IInv, FreeIsMemory, NEW c \in Cores, Clone(c)
  PROVE IInv'
<1>1. CASE Panic  BY <1>1, Stays DEF Panic, spaceVars
<1>2. CASE ~Panic
  <2> DEFINE k == Mapping(Scratch, Scratch + 1, Popped, FALSE, Scratch + 1, "zero")
  <2>1. /\ mutex = Null /\ mutex' = c /\ Goes(c, k) /\ ~Holds(c)
        /\ making' = [making EXCEPT ![c] = <<Popped, cr3[c]>>]
        /\ UNCHANGED <<cr3, foreign, spaces>>
    BY <1>2 DEF Clone, At, Holds, Held
  <2>2. CallType(k) /\ k.do = "map" /\ k.then = "zero"
    BY DEF CallType, Mapping, Walks
  <2>3. Popped \in Frames
    BY <1>2, PoppedIsFree DEF Clone
  <2> HIDE DEF k
  <2>4. /\ call' = [call EXCEPT ![c] = k] /\ call'[c] = k
        /\ \A d \in Cores \ {c} : call'[d] = call[d]
    BY <2>1 DEF Goes, IInv, Types
  <2>5. making'[c] = <<Popped, cr3[c]>> /\ \A d \in Cores \ {c} : making'[d] = making[d]
    BY <2>1 DEF IInv, Types
  <2>6. \A d \in Cores : Holds(d)' <=> Holds(d)
    BY <2>1, <2>2, <2>4 DEF Holds, Held
  <2>7. \A d \in Cores \ {c} : /\ Making(d, Later)' <=> Making(d, Later)
                               /\ Making(d, Inside)' <=> Making(d, Inside)
    BY <2>4 DEF Making
  <2>8. Types'
    <3>1. call' = [d \in Cores |-> call'[d]] /\ \A d \in Cores : CallType(call[d])'
      BY <2>1, <2>2, CallsStay
    <3>2. making' = [d \in Cores |-> making'[d]]
      BY <2>1 DEF IInv, Types
    <3>3. \A d \in Cores : Making(d, Later)' =>
            making'[d] = <<making'[d][1], making'[d][2]>> /\ making'[d][1] \in Frames
                                                          /\ making'[d][2] \in Frames
      BY <2>3, <2>5, <2>7 DEF IInv, Types
    <3> QED  BY <2>1, <3>1, <3>2, <3>3 DEF IInv, Types
  <2>9. MutexHeld'
    BY <2>1, <2>7, PagingAssumption DEF IInv, MutexHeld
  <2>10. SlotIsMine' /\ SlotIsOneCores' /\ SlotIsReleased'
    BY <2>1, <2>5, <2>6 DEF IInv, SlotIsMine, SlotIsOneCores, SlotIsReleased
  <2> QED  BY <2>8, <2>9, <2>10 DEF IInv
<1> QED  BY <1>1, <1>2

\* The new PML4 is cleared, and unmapped.
LEMMA ZeroKeeps ==
  ASSUME IInv, NEW c \in Cores, Zero(c)
  PROVE IInv'
<1> DEFINE k == Unmapping(Scratch, Scratch + 1, FALSE, "set_foreign")
<1>1. CallType(k) /\ k.do = "unmap" /\ k.then = "set_foreign"
  BY NewUnmapping
<1>2. Goes(c, k) /\ UNCHANGED spaceVars /\ At(c, "zero") /\ ~Holds(c)
  BY DEF Zero, At, Holds, Held
<1> HIDE DEF k
<1> QED  BY <1>1, <1>2, GoesOn DEF spaceVars

\* set_foreign waits until the slot is free, so no core has it.
LEMMA SetForeignKeeps ==
  ASSUME IInv, NEW c \in Cores, SetForeign(c)
  PROVE IInv'
<1> DEFINE k == [do |-> "process", step |-> "copy"]
<1>1. /\ Goes(c, k) /\ UNCHANGED <<cr3, mutex, making, spaces>> /\ At(c, "set_foreign")
      /\ foreign[cr3[c]] = Null /\ foreign' = [foreign EXCEPT ![cr3[c]] = making[c][1]]
  BY DEF SetForeign, Then, ForeignFree
<1>2. CallType(k) /\ k.do = "process" /\ k.step = "copy"
  BY NewProcess
<1> HIDE DEF k
<1>3. /\ call' = [call EXCEPT ![c] = k] /\ call'[c] = k
      /\ \A d \in Cores \ {c} : call'[d] = call[d]
  BY <1>1 DEF Goes, IInv, Types
<1>4. Making(c, Later) /\ Making(c, Inside) /\ ~Holds(c)
  BY <1>1 DEF At, Making, Later, Inside, Holds, Held
<1>5. Holds(c)' /\ \A d \in Cores \ {c} : Holds(d)' <=> Holds(d)
  BY <1>2, <1>3 DEF Holds, Held
<1>6. \A d \in Cores \ {c} : /\ Making(d, Later)' <=> Making(d, Later)
                             /\ Making(d, Inside)' <=> Making(d, Inside)
  BY <1>3 DEF Making
<1>7. \A d \in Cores : Holds(d) => Making(d, Later)
  BY DEF Holds, Held, Making, Later
<1>8. \A d \in Cores : Holds(d) => cr3[d] # cr3[c]
  BY <1>1, <1>7, Made DEF IInv, SlotIsMine
<1>9. /\ cr3[c] \in Frames /\ foreign'[cr3[c]] = making[c][1]
      /\ \A s \in Frames \ {cr3[c]} : foreign'[s] = foreign[s]
  BY <1>1 DEF IInv, Types
<1>10. Types'
  <2>1. call' = [d \in Cores |-> call'[d]] /\ \A d \in Cores : CallType(call[d])'
    BY <1>1, <1>2, CallsStay
  <2>2. foreign' \in [Frames -> Frames \cup {Null}]
    BY <1>1, <1>4, Made DEF IInv, Types
  <2> QED  BY <1>1, <1>4, <1>6, <2>1, <2>2 DEF IInv, Types
<1>11. MutexHeld'
  BY <1>1, <1>4, <1>6 DEF IInv, MutexHeld
<1>12. SlotIsMine'
  BY <1>1, <1>5, <1>8, <1>9 DEF IInv, Types, SlotIsMine
<1>13. SlotIsOneCores'
  BY <1>1, <1>5, <1>8 DEF IInv, SlotIsOneCores
<1>14. SlotIsReleased'
  BY <1>1, <1>5, <1>9 DEF IInv, SlotIsReleased
<1> QED  BY <1>10, <1>11, <1>12, <1>13, <1>14 DEF IInv

\* The upper half is copied, and clone_kernel's spinlock released; the slot is kept.
LEMMA ClonedKeeps ==
  ASSUME IInv, NEW c \in Cores, Cloned(c)
  PROVE IInv'
<1> DEFINE k == [do |-> "process", step |-> "release_foreign"]
<1>1. /\ Goes(c, k) /\ UNCHANGED <<cr3, foreign, making>> /\ At(c, "copy") /\ mutex' = Null
      /\ spaces' = spaces \cup {making[c][1]}
  BY DEF Cloned, Then
<1>2. CallType(k) /\ k.do = "process" /\ k.step = "release_foreign"
  BY NewProcess
<1> HIDE DEF k
<1>3. /\ call' = [call EXCEPT ![c] = k] /\ call'[c] = k
      /\ \A d \in Cores \ {c} : call'[d] = call[d]
  BY <1>1 DEF Goes, IInv, Types
<1>4. Making(c, Later) /\ Making(c, Inside) /\ Holds(c) /\ ~Making(c, Inside)'
  BY <1>1, <1>2, <1>3 DEF At, Making, Later, Inside, Holds, Held, Walks
<1>5. Holds(c)' /\ \A d \in Cores \ {c} : Holds(d)' <=> Holds(d)
  BY <1>2, <1>3 DEF Holds, Held
<1>6. \A d \in Cores \ {c} : /\ Making(d, Later)' <=> Making(d, Later)
                             /\ Making(d, Inside)' <=> Making(d, Inside)
  BY <1>3 DEF Making
<1>7. Types'
  <2>1. call' = [d \in Cores |-> call'[d]] /\ \A d \in Cores : CallType(call[d])'
    BY <1>1, <1>2, CallsStay
  <2>2. spaces' \subseteq Frames
    BY <1>1, <1>4, Made DEF IInv, Types
  <2> QED  BY <1>1, <1>4, <1>6, <2>1, <2>2 DEF IInv, Types
<1>8. MutexHeld'
  BY <1>1, <1>4, <1>6 DEF IInv, MutexHeld
<1>9. SlotIsMine' /\ SlotIsOneCores' /\ SlotIsReleased'
  BY <1>1, <1>4, <1>5 DEF IInv, SlotIsMine, SlotIsOneCores, SlotIsReleased
<1> QED  BY <1>7, <1>8, <1>9 DEF IInv

\* create_process lets go of the slot.
LEMMA ReleaseForeignKeeps ==
  ASSUME IInv, NEW c \in Cores, ReleaseForeign(c)
  PROVE IInv'
<1> DEFINE k == [do |-> "process", step |-> "enter"]
<1>1. /\ Goes(c, k) /\ UNCHANGED <<cr3, mutex, making, spaces>> /\ At(c, "release_foreign")
      /\ foreign' = [foreign EXCEPT ![cr3[c]] = Null]
  BY DEF ReleaseForeign, Then
<1>2. CallType(k) /\ k.do = "process" /\ k.step = "enter"
  BY NewProcess
<1> HIDE DEF k
<1>3. /\ call' = [call EXCEPT ![c] = k] /\ call'[c] = k
      /\ \A d \in Cores \ {c} : call'[d] = call[d]
  BY <1>1 DEF Goes, IInv, Types
<1>4. Making(c, Later) /\ Holds(c) /\ ~Making(c, Inside)' /\ ~Holds(c)'
  BY <1>1, <1>2, <1>3 DEF At, Making, Later, Inside, Holds, Held, Walks
<1>5. \A d \in Cores \ {c} : Holds(d)' <=> Holds(d)
  BY <1>3 DEF Holds
<1>6. \A d \in Cores \ {c} : /\ Making(d, Later)' <=> Making(d, Later)
                             /\ Making(d, Inside)' <=> Making(d, Inside)
  BY <1>3 DEF Making
<1>7. /\ cr3[c] \in Frames /\ foreign'[cr3[c]] = Null
      /\ \A s \in Frames \ {cr3[c]} : foreign'[s] = foreign[s]
  BY <1>1 DEF IInv, Types
<1>8. \A d \in Cores \ {c} : Holds(d) => cr3[d] # cr3[c]
  BY <1>4 DEF IInv, SlotIsOneCores
<1>9. Types'
  <2>1. call' = [d \in Cores |-> call'[d]] /\ \A d \in Cores : CallType(call[d])'
    BY <1>1, <1>2, CallsStay
  <2>2. foreign' \in [Frames -> Frames \cup {Null}]
    BY <1>1 DEF IInv, Types
  <2> QED  BY <1>1, <1>4, <1>6, <2>1, <2>2 DEF IInv, Types
<1>10. MutexHeld'
  BY <1>1, <1>4, <1>6 DEF IInv, MutexHeld
<1>11. SlotIsMine'
  BY <1>1, <1>4, <1>5, <1>7, <1>8 DEF IInv, Types, SlotIsMine
<1>12. SlotIsOneCores' /\ SlotIsReleased'
  BY <1>1, <1>4, <1>5, <1>7 DEF IInv, SlotIsOneCores, SlotIsReleased
<1> QED  BY <1>9, <1>10, <1>11, <1>12 DEF IInv

\* A core without the slot changes its space.
LEMMA Moves ==
  ASSUME IInv, NEW c \in Cores, ~Holds(c), NEW s \in Frames, NEW k, CallType(k),
         cr3' = [cr3 EXCEPT ![c] = s], UNCHANGED <<foreign, mutex, spaces>>, Goes(c, k),
         \/ making' = making
         \/ k.do = "idle" /\ \E m : making' = [making EXCEPT ![c] = m],
         k.do \in Walks => k.then = "leave" /\ Making(c, Later), k.do # "process"
  PROVE IInv'
<1>1. /\ call' = [call EXCEPT ![c] = k] /\ call'[c] = k
      /\ \A d \in Cores \ {c} : call'[d] = call[d]
  BY DEF Goes, IInv, Types
<1>2. /\ Making(c, Later)' => Making(c, Later) /\ making' = making
      /\ ~Making(c, Inside)' /\ ~Holds(c)'
  BY <1>1 DEF Making, Later, Inside, Holds, Walks
<1>6. making' = [d \in Cores |-> making'[d]] /\ \A d \in Cores \ {c} : making'[d] = making[d]
  BY DEF IInv, Types
<1>3. \A d \in Cores \ {c} : /\ Making(d, Later)' <=> Making(d, Later)
                             /\ Making(d, Inside)' <=> Making(d, Inside)
                             /\ Holds(d)' <=> Holds(d)
                             /\ cr3'[d] = cr3[d] /\ making'[d] = making[d]
  BY <1>1, <1>6 DEF Making, Holds, IInv, Types
<1>4. Types'
  <2>1. call' = [d \in Cores |-> call'[d]] /\ \A d \in Cores : CallType(call[d])'
    BY CallsStay
  <2>2. cr3' \in [Cores -> Frames]
    BY DEF IInv, Types
  <2> QED  BY <1>2, <1>3, <1>6, <2>1, <2>2 DEF IInv, Types
<1>5. MutexHeld' /\ SlotIsMine' /\ SlotIsOneCores' /\ SlotIsReleased'
  BY <1>2, <1>3 DEF IInv, MutexHeld, SlotIsMine, SlotIsOneCores, SlotIsReleased
<1> QED  BY <1>4, <1>5 DEF IInv

\* create_process enters the new space, and leaves it.
LEMMA EnterLeave ==
  ASSUME IInv, NEW c \in Cores, Enter(c) \/ Leave(c)
  PROVE IInv'
<1>1. CASE Panic  BY <1>1, Stays DEF Panic, spaceVars
<1>2. CASE Enter(c) /\ ~Panic
  <2> DEFINE k == Mapping(Image[1], Image[1] + 1, Popped, TRUE, Image[2], "leave")
  <2>1. /\ Goes(c, k) /\ cr3' = [cr3 EXCEPT ![c] = making[c][1]] /\ At(c, "enter")
        /\ UNCHANGED <<foreign, mutex, making, spaces>>
    BY <1>2 DEF Enter
  <2>2. CallType(k) /\ k.do = "map" /\ k.then = "leave"
    BY DEF CallType, Mapping, Walks
  <2> HIDE DEF k
  <2>3. Making(c, Later) /\ ~Holds(c)
    BY <2>1 DEF At, Making, Later, Holds, Held
  <2> QED  BY <2>1, <2>2, <2>3, Made, Moves
<1>3. CASE Leave(c)
  <2>1. /\ Goes(c, Idle) /\ cr3' = [cr3 EXCEPT ![c] = making[c][2]] /\ At(c, "leave")
        /\ making' = [making EXCEPT ![c] = <<Null, Null>>] /\ UNCHANGED <<foreign, mutex, spaces>>
    BY <1>3 DEF Leave
  <2>2. CallType(Idle) /\ Idle.do = "idle"
    BY NewProcess
  <2>3. Making(c, Later) /\ ~Holds(c)
    BY <2>1 DEF At, Making, Later, Holds, Held
  <2> QED  BY <2>1, <2>2, <2>3, Made, Moves DEF Walks
<1> QED  BY <1>1, <1>2, <1>3

\* The scheduler runs a thread of another space, on a core in no call.
LEMMA SetAsidKeeps ==
  ASSUME IInv, NEW c \in Cores, NEW s \in spaces, SetAsid(c, s)
  PROVE IInv'
<1>1. call[c].do = "idle" /\ CallType(call[c]) /\ s \in Frames /\ ~Holds(c)
  BY DEF SetAsid, IInv, Types, Holds
<1>2. Goes(c, call[c])
  BY DEF SetAsid, Goes, IInv, Types
<1>3. cr3' = [cr3 EXCEPT ![c] = s] /\ UNCHANGED <<foreign, mutex, making, spaces>>
  BY DEF SetAsid
<1> QED
  <2>1. PICK k : k = call[c]  OBVIOUS
  <2> QED  BY <1>1, <1>2, <1>3, <2>1, Moves DEF Walks

------------------------------------------------------------------------------
(* The theorems                                                            *)

\* Before anything runs, no core makes a process and every slot is free.
LEMMA InitInv == Init => IInv
<1> SUFFICES ASSUME Init PROVE IInv
  OBVIOUS
<1>1. \A c \in Cores : call[c] = Idle /\ CallType(call[c]) /\ call[c].do = "idle"
  BY NewProcess DEF Init
<1>2. \A c \in Cores : ~Holds(c) /\ ~Making(c, Later) /\ ~Making(c, Inside)
  BY <1>1 DEF Holds, Making, Walks
<1>3. Types
  BY <1>1, <1>2, PagingAssumption DEF Init, Types
<1>4. MutexHeld /\ SlotIsMine /\ SlotIsOneCores /\ SlotIsReleased
  BY <1>2 DEF Init, MutexHeld, SlotIsMine, SlotIsOneCores, SlotIsReleased
<1> QED  BY <1>3, <1>4 DEF IInv

\* Every step keeps the invariant.
LEMMA NextInv == IInv /\ FreeIsMemory /\ [Next]_vars => IInv'
<1> SUFFICES ASSUME IInv, FreeIsMemory, [Next]_vars PROVE IInv'
  OBVIOUS
<1>1. CASE UNCHANGED vars  BY <1>1, Stays DEF vars
<1>2. CASE DropBootloaderMapping  BY <1>2, Stays DEF DropBootloaderMapping
<1>3. ASSUME NEW c \in Cores, Step(c) PROVE IInv'
  <2>1. CASE Link(c) \/ Clear(c) \/ MapDescend(c) \/ UnmapDescend(c) \/ MapPage(c)
             \/ UnmapPage(c) \/ QueryLock(c) \/ Query(c)
    BY <2>1, Walking
  <2>2. CASE Return(c)  BY <2>2, Returning
  <2>3. CASE Clone(c)  BY <2>3, CloneKeeps
  <2>4. CASE Zero(c)  BY <2>4, ZeroKeeps
  <2>5. CASE SetForeign(c)  BY <2>5, SetForeignKeeps
  <2>6. CASE Copy(c)  BY <2>6, Stays DEF Copy, spaceVars
  <2>7. CASE Cloned(c)  BY <2>7, ClonedKeeps
  <2>8. CASE ReleaseForeign(c)  BY <2>8, ReleaseForeignKeeps
  <2>9. CASE Enter(c) \/ Leave(c)  BY <2>9, EnterLeave
  <2> QED
    BY <1>3, <2>1, <2>2, <2>3, <2>4, <2>5, <2>6, <2>7, <2>8, <2>9 DEF Step
<1>4. ASSUME NEW c \in Cores, NEW r \in Requests, Start(c, r) PROVE IInv'
  BY <1>4, Starting
<1>5. ASSUME NEW c \in Cores, NEW s \in spaces, SetAsid(c, s) PROVE IInv'
  BY <1>5, SetAsidKeeps
<1> QED  BY <1>1, <1>2, <1>3, <1>4, <1>5 DEF Next

------------------------------------------------------------------------------
(* Pages and their entries                                                 *)

Entries == 0..(Width - 1)

\* Naturals are well-ordered.
LEMMA Smallest ==
  ASSUME NEW T, T \subseteq Nat, T # {}
  PROVE  \E n \in T : \A k \in T : n <= k
<1>1. \E n \in T : \A k \in T : ~ (<<k, n>> \in OpToRel(<, Nat))
  BY WFMin, NatLessThanWellFounded
<1>2. \A n, k \in T : <<k, n>> \in OpToRel(<, Nat) <=> k < n
  BY DEF OpToRel
<1>3. \A n, k \in T : ~(k < n) => n <= k
  OBVIOUS
<1> QED
  BY <1>1, <1>2, <1>3

\* What holds at the top and of each level below one where it holds, holds at all from some.
LEMMA Downward ==
  ASSUME NEW n \in Nat, NEW m \in 1..n, NEW S \in SUBSET (m..n),
         n \in S, \A k \in m..(n - 1) : k + 1 \in S => k \in S
  PROVE  S = m..n
<1> SUFFICES ASSUME NEW j \in m..n, j \notin S PROVE FALSE
  OBVIOUS
<1> DEFINE T == {d \in 0..n : n - d \in m..n /\ n - d \notin S}
<1>1. n - j \in T
  OBVIOUS
<1>2. PICK d \in T : \A e \in T : d <= e
  <2>1. T # {}
    BY <1>1
  <2>2. T \subseteq Nat
    OBVIOUS
  <2> HIDE DEF T
  <2> QED  BY <2>1, <2>2, Smallest
<1>3. d # 0
  BY <1>2
<1>4. d - 1 \in 0..n /\ n - (d - 1) \in m..n /\ d - 1 \notin T
  BY <1>2, <1>3
<1>5. n - (d - 1) \in S
  BY <1>4
<1>6. n - d \in m..(n - 1) /\ n - (d - 1) = (n - d) + 1
  BY <1>3, <1>2
<1> QED  BY <1>2, <1>5, <1>6

\* Division with remainder.
LEMMA Division ==
  ASSUME NEW n \in Nat, NEW a \in Nat, a > 0
  PROVE  n \div a \in Nat /\ n % a \in 0..(a - 1) /\ n = (n \div a) * a + (n % a)
<1>1. n \div a \in Nat
  OBVIOUS
<1>2. n % a \in 0..(a - 1)
  OBVIOUS
<1>3. n % a = n - a * (n \div a)
  OBVIOUS
<1>4. PICK q \in Nat : q = n \div a
  BY <1>1
<1>5. PICK r \in 0..(a - 1) : r = n % a
  BY <1>2
<1>6. r = n - a * q
  BY <1>3, <1>4, <1>5
<1>7. n = q * a + r
  BY <1>6
<1>8. n = (n \div a) * a + (n % a)
  BY <1>4, <1>5, <1>7, Zenon
<1> QED  BY <1>1, <1>2, <1>8

\* A multiple has no remainder.
LEMMA Multiple ==
  ASSUME NEW m \in Nat, NEW a \in Nat, a > 0
  PROVE  (m * a) % a = 0
OBVIOUS

\* A division in two steps.
LEMMA DivideTwice ==
  ASSUME NEW n \in Nat, NEW a \in Nat, a > 0, NEW b \in Nat, b > 0
  PROVE  (n \div a) \div b = n \div (a * b)
OBVIOUS

\* The number before one that is no multiple has the same quotient.
LEMMA SameQuotient ==
  ASSUME NEW n \in Nat, NEW a \in Nat, a > 0, n > 0, n % a # 0
  PROVE  (n - 1) \div a = n \div a
OBVIOUS

\* The constants.
LEMMA Sizes ==
  /\ Levels \in Nat /\ Levels >= 2 /\ Levels \in 1..Levels /\ 1 \in 1..Levels
  /\ Width \in Nat /\ Width >= 1 /\ NFrames \in Nat
  /\ KernelIndexes \subseteq Entries /\ Entries \subseteq Nat /\ 0 \in Entries
  /\ BootRoot \in Frames /\ Frames \subseteq Nat /\ Null \notin Frames /\ Null \in Nat
  /\ Null \notin Cores
BY PagingAssumption DEF Frames, Null, Entries

\* The number of pages below an entry.
LEMMA Powers ==
  /\ Width^0 = 1
  /\ \A l \in 1..Levels : Width^l \in Nat /\ Width^l > 0 /\ Width^l = Width^(l - 1) * Width
  /\ \A l \in 0..Levels : Width^l \in Nat /\ Width^l > 0
<1> DEFINE T == {l \in 0..Levels : ~(Width^l \in Nat /\ Width^l > 0)}
<1>1. T = {}
  <2> SUFFICES ASSUME T # {} PROVE FALSE
    OBVIOUS
  <2>1. T \subseteq Nat
    BY Sizes
  <2>2. PICK l \in T : \A k \in T : l <= k
    BY <2>1, Smallest
  <2>3. l # 0
    BY <2>2, PagingAssumption
  <2>4. l \in 1..Levels /\ l - 1 \in 0..Levels /\ l - 1 < l
    BY <2>3, Sizes
  <2>5. l - 1 \notin T
    BY <2>2, <2>4
  <2>6. Width^(l - 1) \in Nat /\ Width^(l - 1) > 0
    BY <2>4, <2>5
  <2>7. Width^l = Width^(l - 1) * Width
    BY <2>4, PagingAssumption
  <2>8. PICK w \in Nat : w = Width^(l - 1) /\ w > 0
    BY <2>6
  <2>9. w * Width \in Nat /\ w * Width > 0
    BY <2>8, Sizes
  <2> QED  BY <2>2, <2>7, <2>8, <2>9
<1>2. \A l \in 0..Levels : Width^l \in Nat /\ Width^l > 0
  BY <1>1
<1>3. 1..Levels \subseteq 0..Levels
  BY Sizes
<1> QED  BY <1>2, <1>3, PagingAssumption

\* The index of a page at a level is a digit of its number.
LEMMA Digits ==
  ASSUME NEW p \in Nat
  PROVE  /\ \A l \in 0..Levels : p \div Width^l \in Nat
         /\ \A l \in 1..Levels : /\ Index(l, p) \in Entries
                                 /\ p \div Width^(l - 1) = (p \div Width^l) * Width + Index(l, p)
         /\ p \div Width^0 = p
<1>1. \A l \in 0..Levels : p \div Width^l \in Nat
  <2> TAKE l \in 0..Levels
  <2>1. PICK w \in Nat : w = Width^l /\ w > 0
    BY Powers
  <2> QED  BY <2>1, Division
<1>2. ASSUME NEW l \in 1..Levels
      PROVE  /\ Index(l, p) \in Entries
             /\ p \div Width^(l - 1) = (p \div Width^l) * Width + Index(l, p)
  <2>1. l - 1 \in 0..Levels
    BY Sizes
  <2>2. PICK w \in Nat : w = Width^(l - 1) /\ w > 0
    BY <2>1, Powers
  <2>3. PICK q \in Nat : q = p \div w
    BY <1>1, <2>1, <2>2
  <2>4. q = (q \div Width) * Width + (q % Width) /\ q % Width \in Entries
    <3>1. Width \in Nat /\ Width > 0 /\ q \in Nat
      BY Sizes
    <3> QED  BY <3>1, Division DEF Entries
  <2>5. q \div Width = p \div (w * Width)
    BY <2>2, <2>3, DivideTwice, Sizes
  <2>6. w * Width = Width^l
    BY <2>2, Powers
  <2>7. Index(l, p) = q % Width
    BY <2>2, <2>3 DEF Index
  <2>8. q \div Width = p \div Width^l
    BY <2>5, <2>6, Zenon
  <2> QED  BY <2>2, <2>3, <2>4, <2>7, <2>8, Zenon
<1>3. p \div Width^0 = p
  BY Powers
<1> QED  BY <1>1, <1>2, <1>3

\* All pages are below one PML4.
LEMMA TopDigit ==
  ASSUME NEW p \in Pages
  PROVE  p \in Nat /\ p \div Width^Levels = 0
<1>1. PICK w \in Nat : w = Width^Levels /\ w > 0
  BY Powers, Sizes
<1>2. p \in Nat /\ p < w
  BY <1>1 DEF Pages
<1> QED  BY <1>1, <1>2

\* What holds at a level and, wherever it holds, one above it, holds from there up.
LEMMA Upward ==
  ASSUME NEW n \in Nat, NEW m \in 0..n, NEW S \in SUBSET (m..n),
         m \in S, \A k \in m..(n - 1) : k \in S => k + 1 \in S
  PROVE  S = m..n
<1> SUFFICES ASSUME NEW j \in m..n, j \notin S PROVE FALSE
  OBVIOUS
<1> DEFINE T == (m..n) \ S
<1>1. T # {} /\ T \subseteq Nat
  OBVIOUS
<1>2. PICK d \in T : \A e \in T : d <= e
  <2> HIDE DEF T
  <2> QED  BY <1>1, Smallest
<1>3. d \in m..n /\ d # m
  BY <1>2
<1>4. d - 1 \in m..(n - 1) /\ d - 1 \notin T
  BY <1>2, <1>3
<1>5. (d - 1) + 1 \in S
  BY <1>4
<1>6. d \in S
  BY <1>3, <1>5
<1> QED  BY <1>2, <1>6

\* A page that has no part in the entries below some level shares those above with its
\* predecessor.
LEMMA Carry ==
  ASSUME NEW q \in Pages, q # 0, NEW l \in 1..Levels, l = Levels \/ Index(l, q) # 0
  PROVE  /\ \A k \in l..Levels : (q - 1) \div Width^k = q \div Width^k
         /\ \A k \in (l + 1)..Levels : Index(k, q - 1) = Index(k, q)
<1>1. q \in Nat /\ q - 1 \in Pages /\ q - 1 \in Nat
  <2>1. PICK w \in Nat : w = Width^Levels
    BY Powers, Sizes
  <2> QED  BY <2>1 DEF Pages
<1> DEFINE S == {k \in l..Levels : (q - 1) \div Width^k = q \div Width^k}
<1>2. l \in S
  <2>1. CASE l = Levels
    BY <2>1, <1>1, TopDigit
  <2>2. CASE l # Levels
    <3>1. PICK w \in Nat : w = Width^l /\ w > 0
      BY Powers
    <3>2. q % w # 0
      <4> SUFFICES ASSUME q % w = 0 PROVE FALSE
        OBVIOUS
      <4>1. PICK m \in Nat : m = q \div w
        BY <1>1, <3>1, Division
      <4>2. q = m * w
        BY <1>1, <3>1, <4>1, Division
      <4>3. PICK v \in Nat : v = Width^(l - 1) /\ v > 0
        BY Powers, Sizes
      <4>4. w = v * Width /\ Width \in Nat /\ Width > 0
        BY <3>1, <4>3, Powers, Sizes
      <4>5. q = (m * Width) * v
        BY <4>2, <4>4, <4>3, <4>1
      <4>6. m * Width \in Nat
        BY <4>1, <4>4
      <4>7. q \div v = m * Width
        BY <4>3, <4>5, <4>6
      <4>8. (m * Width) % Width = 0
        BY <4>1, <4>4, Multiple
      <4> QED  BY <2>2, <4>3, <4>7, <4>8 DEF Index
    <3>3. (q - 1) \div w = q \div w
      BY <1>1, <3>1, <3>2, SameQuotient
    <3> QED  BY <3>1, <3>3
  <2> QED  BY <2>1, <2>2
<1>3. ASSUME NEW k \in l..(Levels - 1), k \in S
      PROVE  k + 1 \in S
  <2>1. k + 1 \in 1..Levels /\ k + 1 \in l..Levels /\ (k + 1) - 1 = k /\ k \in 0..Levels
    BY Sizes
  <2>2. PICK w \in Nat : w = Width^k /\ w > 0
    BY <2>1, Powers
  <2>3. Width^(k + 1) = w * Width /\ Width \in Nat /\ Width > 0
    BY <2>1, <2>2, Powers, Sizes
  <2>4. /\ (q - 1) \div Width^(k + 1) = ((q - 1) \div w) \div Width
        /\ q \div Width^(k + 1) = (q \div w) \div Width
    BY <1>1, <2>2, <2>3, DivideTwice
  <2> QED  BY <1>3, <2>1, <2>2, <2>4
<1>4. S = l..Levels
  <2>1. l \in 0..Levels /\ Levels \in Nat /\ S \in SUBSET (l..Levels)
    BY Sizes
  <2> HIDE DEF S
  <2> QED  BY <2>1, <1>2, <1>3, Upward
<1>5. ASSUME NEW k \in (l + 1)..Levels PROVE Index(k, q - 1) = Index(k, q)
  <2>1. k - 1 \in l..Levels
    BY Sizes
  <2>2. (q - 1) \div Width^(k - 1) = q \div Width^(k - 1)
    BY <1>4, <2>1
  <2> QED  BY <2>2 DEF Index
<1> QED  BY <1>4, <1>5

\* Where a walk goes on.
LEMMA NextLevels ==
  ASSUME NEW q \in Pages, q # 0, NEW end, q # end
  PROVE  /\ NextLevel(q, end) \in 1..Levels
         /\ \A k \in NextLevel(q, end)..Levels : (q - 1) \div Width^k = q \div Width^k
         /\ \A k \in (NextLevel(q, end) + 1)..Levels : Index(k, q - 1) = Index(k, q)
<1> DEFINE T == {l \in 1..Levels : l = Levels \/ Index(l, q) # 0}
           Is(l) == (Index(l, q) # 0 \/ l = Levels) /\ \A k \in 1..(l - 1) : Index(k, q) = 0
<1>1. T # {} /\ T \subseteq Nat
  BY Sizes
<1>2. PICK l \in T : \A k \in T : l <= k
  <2> HIDE DEF T
  <2> QED  BY <1>1, Smallest
<1>3. l \in 1..Levels /\ Is(l)
  <2>1. \A k \in 1..(l - 1) : k \in 1..Levels /\ ~(l <= k) /\ k # Levels
    BY <1>2, Sizes
  <2> QED  BY <1>2, <2>1
<1>4. NextLevel(q, end) = CHOOSE k \in 1..Levels : Is(k)
  BY DEF NextLevel
<1>5. NextLevel(q, end) \in 1..Levels /\ Is(NextLevel(q, end))
  <2> HIDE DEF Is
  <2> QED  BY <1>3, <1>4
<1>6. PICK n \in 1..Levels : n = NextLevel(q, end)
  BY <1>5
<1>7. n = Levels \/ Index(n, q) # 0
  BY <1>5, <1>6
<1> QED  BY <1>6, <1>7, Carry

------------------------------------------------------------------------------
(* The tables on the way to a page                                         *)

\* Table, for any contents of memory.
TableIn(E, root, page, l) ==
  LET at[k \in 1..Levels] == IF k = Levels THEN root
                             ELSE E[at[k + 1]][Index(k + 1, page)].frame
  IN at[l]

\* The way down exists, and leads through the entries.
LEMMA TableFunction ==
  ASSUME NEW E, NEW s, NEW p
  PROVE  \E R : /\ \A l : TableIn(E, s, p, l) = R[l]
                /\ R[Levels] = s
                /\ \A k \in 1..(Levels - 1) : R[k] = E[R[k + 1]][Index(k + 1, p)].frame
<1> DEFINE Under(x, k) == E[x][Index(k, p)].frame
           Is(r, m) == r = [k \in m..Levels |-> IF k = Levels THEN s ELSE Under(r[k + 1], k + 1)]
           S == {m \in 1..Levels : \E r : Is(r, m)}
<1>1. Levels \in S
  <2>1. Is([k \in Levels..Levels |-> s], Levels)
    BY Sizes
  <2> QED  BY <2>1, Sizes
<1>2. ASSUME NEW m \in 1..(Levels - 1), m + 1 \in S
      PROVE  m \in S
  <2>1. PICK q : Is(q, m + 1)
    BY <1>2
  <2> DEFINE r == [k \in m..Levels |-> IF k = m THEN Under(q[m + 1], m + 1) ELSE q[k]]
  <2>2. \A k \in m..Levels : r[k] = IF k = Levels THEN s ELSE Under(r[k + 1], k + 1)
    <3> TAKE k \in m..Levels
    <3>1. CASE k = m
      <4>1. m # Levels /\ m + 1 # m /\ m \in m..Levels /\ m + 1 \in m..Levels
        BY Sizes
      <4>2. r[m] = Under(q[m + 1], m + 1) /\ r[m + 1] = q[m + 1]
        BY <4>1
      <4> HIDE DEF r, Under
      <4> QED  BY <3>1, <4>1, <4>2
    <3>2. CASE k # m
      <4>1. k \in (m + 1)..Levels /\ (k # Levels => k + 1 \in m..Levels /\ k + 1 # m)
        BY <3>2, Sizes
      <4>2. q[k] = IF k = Levels THEN s ELSE Under(q[k + 1], k + 1)
        BY <2>1, <4>1
      <4>3. r[k] = q[k] /\ (k # Levels => r[k + 1] = q[k + 1])
        BY <3>2, <4>1
      <4> QED  BY <4>2, <4>3
    <3> QED  BY <3>1, <3>2
  <2>3. Is(r, m)
    BY <2>2
  <2> HIDE DEF r, Under
  <2>4. m \in 1..Levels
    BY Sizes
  <2> QED  BY <2>3, <2>4
<1>3. S = 1..Levels
  <2>1. Levels \in Nat /\ 1 \in 1..Levels /\ S \in SUBSET (1..Levels)
    BY Sizes
  <2> HIDE DEF S
  <2> QED  BY <2>1, <1>1, <1>2, Downward
<1> DEFINE R == CHOOSE r : Is(r, 1)
<1>4. Is(R, 1)
  <2>1. \E r : Is(r, 1)
    BY <1>3, Sizes
  <2> HIDE DEF Is
  <2> QED  BY <2>1
<1>5. \A l : TableIn(E, s, p, l) = R[l]
  BY DEF TableIn
<1> HIDE DEF R
<1>6. R[Levels] = s /\ \A k \in 1..(Levels - 1) : R[k] = Under(R[k + 1], k + 1)
  <2>1. \A k \in 1..Levels : R[k] = IF k = Levels THEN s ELSE Under(R[k + 1], k + 1)
    BY <1>4
  <2>2. Levels \in 1..Levels /\ \A k \in 1..(Levels - 1) : k \in 1..Levels /\ k # Levels
    BY Sizes
  <2> HIDE DEF Under
  <2> QED  BY <2>1, <2>2
<1> QED  BY <1>5, <1>6

\* It begins at the space;
LEMMA TableTop ==
  ASSUME NEW E, NEW s, NEW p
  PROVE  TableIn(E, s, p, Levels) = s
BY TableFunction

\* a level leads to the one below,
LEMMA TableBelow ==
  ASSUME NEW E, NEW s, NEW p, NEW k \in 1..(Levels - 1)
  PROVE  TableIn(E, s, p, k) = E[TableIn(E, s, p, k + 1)][Index(k + 1, p)].frame
<1>1. PICK R : /\ \A l : TableIn(E, s, p, l) = R[l]
               /\ R[k] = E[R[k + 1]][Index(k + 1, p)].frame
  BY TableFunction
<1> QED  BY <1>1

\* and is led to from the one above.
LEMMA TableAbove ==
  ASSUME NEW E, NEW s, NEW p, NEW l \in 2..Levels
  PROVE  TableIn(E, s, p, l - 1) = E[TableIn(E, s, p, l)][Index(l, p)].frame
<1>1. PICK k \in 1..(Levels - 1) : k = l - 1 /\ k + 1 = l
  BY Sizes
<1>2. TableIn(E, s, p, k) = E[TableIn(E, s, p, k + 1)][Index(k + 1, p)].frame
  BY TableBelow
<1> QED  BY <1>1, <1>2, Zenon

------------------------------------------------------------------------------
(* The invariant of the tables                                             *)

EntryType == [present : BOOLEAN, user : BOOLEAN, write : BOOLEAN, frame : Nat, locked : BOOLEAN]

\* The records of calls.
MapCall == [do : {"map"}, step : {"lock", "clear", "done"}, level : 1..Levels, at : Nat,
            end : Nat, phys : Nat, user : BOOLEAN, upto : Nat, then : {"return", "zero", "leave"}]
UnmapCall == [do : {"unmap"}, step : {"lock", "done"}, level : 1..Levels, at : Nat,
              end : Nat, phys : Nat, push : BOOLEAN, upto : Nat, then : {"return", "set_foreign"}]
QueryFields == {"do", "step", "level", "at", "end", "phys", "upto", "then"}
QueryCall(k) ==
  /\ k = [x \in QueryFields |-> k[x]]
  /\ k.do = "query" /\ k.step \in {"lock", "read", "done"} /\ k.level \in 1..Levels
  /\ k.at \in Nat /\ k.end \in Nat /\ k.upto \in Nat /\ k.then = "return"
ProcessCall == [do : {"process"}, step : {"clone"} \cup Later]
AnyCall(k) == k \in MapCall \cup UnmapCall \cup ProcessCall \cup {Idle} \/ QueryCall(k)

\* The range of a walk; what map maps, and what unmap may give back.
RangeOK(k) ==
  /\ k.end - 1 \in Pages /\ k.upto - 1 \in Pages /\ k.end <= k.upto
  /\ IF k.step = "done" THEN k.at = k.end ELSE k.at < k.end
  /\ k.do # "map" => k.end = k.upto
  /\ k.then \in {"zero", "set_foreign"} =>
       k.end = Scratch + 1 /\ k.upto = k.end /\ (k.step # "done" => k.at = Scratch)
MapOK(k) ==
  /\ k.step = "clear" => k.level >= 2
  /\ k.step # "done" => IF k.phys \in Frames THEN k.end = k.at + 1
                        ELSE k.phys > NFrames /\ k.at..(k.end - 1) \subseteq Devices
UnmapOK(k) ==
  /\ k.push => k.at..(k.end - 1) \cap (Devices \cup {Scratch}) = {}
  /\ k.then = "set_foreign" => ~k.push
CallOK(k) == /\ k.do \in Walks => RangeOK(k)
             /\ k.do = "map" => MapOK(k)
             /\ k.do = "unmap" => UnmapOK(k)
             /\ k.do = "query" => /\ k.step = "lock" => k.level = Levels
                                  /\ k.step # "done" => k.end = k.at + 1

Typed == /\ entry \in [Frames -> [Entries -> EntryType]]
         /\ free \subseteq Frames /\ cr3 \in [Cores -> spaces] /\ spaces \subseteq Frames \ free
         /\ call = [c \in Cores |-> call[c]]
         /\ \A c \in Cores : AnyCall(call[c]) /\ CallOK(call[c])
         /\ mutex \in Cores \cup {Null} /\ booting \in BOOLEAN /\ calls \in Nat
         /\ fault \in {"none", "panic"}

\* Of every frame: the level of its entries, 0 if it is no table; which of the tables of its
\* level it is; and the space it is part of, Null for tables of the upper half.
Ghosts == [lv : [Frames -> 0..Levels], base : [Frames -> Nat], own : [Frames -> Frames \cup {Null}]]

\* The entry a core is at.
TableOf(c, l) == TableIn(entry, cr3[c], call[c].at, l)
IndexOf(c, l) == Index(l, call[c].at)
Here(c) == TableOf(c, call[c].level)
Slot(c) == IndexOf(c, call[c].level)
Walker(c) == call[c].do \in {"map", "unmap"} /\ call[c].step \in {"lock", "clear"}
Clearing(c) == call[c].do = "map" /\ call[c].step = "clear"
Target(c) == entry[Here(c)][Slot(c)].frame

Cleared(g) == {f \in Frames : g.lv[f] > 0 /\ f \notin Uncleared}
LeadsOn(g, f, i) == f \in Cleared(g) /\ g.lv[f] >= 2 /\ entry[f][i].present
Leaf(g, f, i) == f \in Cleared(g) /\ g.lv[f] = 1 /\ entry[f][i].present

\* Table x is where entry i of table f leads to.
IsChild(S, g, f, i, x) ==
  /\ x \in Frames /\ g.lv[x] = g.lv[f] - 1 /\ g.base[x] = g.base[f] * Width + i
  /\ g.own[x] = IF f \notin S THEN g.own[f] ELSE IF i \in KernelIndexes THEN Null ELSE f

\* The tables are a tree but for the copies of the upper half.
SpacesAreTop(g) == /\ BootRoot \in spaces /\ \A f \in Frames : g.lv[f] = Levels <=> f \in spaces
                   /\ \A s \in spaces : g.base[s] = 0 /\ s \notin Uncleared
FreeIsNoTable(g) == \A f \in free : g.lv[f] = 0
Children(g) == \A f \in Frames, i \in Entries :
                 LeadsOn(g, f, i) => IsChild(spaces, g, f, i, entry[f][i].frame)
OneParent(g) ==
  \A f, h \in Frames, i, j \in Entries :
    LeadsOn(g, f, i) /\ LeadsOn(g, h, j) /\ entry[f][i].frame = entry[h][j].frame =>
      i = j /\ (f = h \/ (f \in spaces /\ h \in spaces /\ i \in KernelIndexes))
UpperIsShared ==
  \A s \in spaces, i \in KernelIndexes :
    entry[s][i].present /\ entry[s][i].frame = entry[BootRoot][i].frame
TreeInv(g) == SpacesAreTop(g) /\ FreeIsNoTable(g) /\ Children(g) /\ OneParent(g) /\ UpperIsShared

\* Frames of memory are mapped once, and are neither free nor tables; those of devices where they
\* were asked for.
LeafInv(g) ==
  \A f \in Frames, i \in Entries : Leaf(g, f, i) =>
    LET x == entry[f][i].frame IN
    IF x \in Frames
    THEN /\ g.lv[x] = 0 /\ x \notin free
         /\ \A h \in Frames, j \in Entries : Leaf(g, h, j) /\ entry[h][j].frame = x => h = f
              /\ j = i
    ELSE g.base[f] * Width + i \in Devices
Mapped(g, x) == \E f \in Frames, i \in Entries : Leaf(g, f, i) /\ entry[f][i].frame = x

\* The entries down to level l are those of page p in space s.
Owner(s, p) == IF Half(p) = "upper" THEN Null ELSE s
PathIn(E, C, g, s, p, l) ==
  \A k \in l..Levels :
    LET t == TableIn(E, s, p, k) IN
    /\ t \in C /\ g.lv[t] = k /\ g.base[t] = p \div Width^k
    /\ k < Levels => g.own[t] = Owner(s, p)
    /\ k > l => E[t][Index(k, p)].present
Path(g, s, p, l) == PathIn(entry, Cleared(g), g, s, p, l)

\* A frame that a core is about to map is nothing else.
Carries(c, x) == call[c].do = "map" /\ call[c].step # "done" /\ call[c].phys = x
Makes(c, x) == Making(c, Inside) /\ making[c][1] = x
CarriedOK(g, c) ==
  \A x \in Frames : Carries(c, x) =>
    /\ x \notin free /\ g.lv[x] = 0 /\ ~Mapped(g, x)
    /\ \A d \in Cores \ {c} : ~Carries(d, x) /\ ~Makes(d, x)
    /\ Making(c, Inside) => Makes(c, x)

\* A PML4 under construction is mapped at Scratch at most, and holds copies at most.
IsCopy(x) == \A i \in Entries : entry[x][i].present =>
               i \in KernelIndexes /\ entry[x][i].frame = entry[BootRoot][i].frame
Unmapped(c) == \/ call[c].do = "process" /\ call[c].step # "zero"
               \/ call[c].do = "unmap" /\ call[c].step = "done"
MadeOK(g, c) ==
  /\ Making(c, Later) => /\ making[c][2] \in spaces
                         /\ ~Making(c, Inside) => making[c][1] \in spaces
  /\ \A x \in Frames : Makes(c, x) =>
       /\ x \notin free /\ g.lv[x] = 0
       /\ \A f \in Frames, i \in Entries : Leaf(g, f, i) /\ entry[f][i].frame = x =>
            /\ f = TableIn(entry, cr3[c], Scratch, 1) /\ i = Index(1, Scratch)
            /\ Path(g, cr3[c], Scratch, 1)
       /\ Unmapped(c) => ~Mapped(g, x)
       /\ Unmapped(c) \/ call[c].do = "unmap" => IsCopy(x)

\* A core in a walk has come down to its entry, and a table it is about to clear is a new one.
WalkOK(g, c) ==
  /\ Walker(c) => Path(g, cr3[c], call[c].at, call[c].level)
  /\ Clearing(c) =>
       /\ entry[Here(c)][Slot(c)].present /\ (call[c].level = Levels => Half(call[c].at) = "lower")
       /\ IsChild(spaces, g, Here(c), Slot(c), Target(c))

\* The levels at which a core has locked the entry of its page: these are locked, by it alone.
Locks(c) == {l \in 1..Levels : \/ Walker(c) /\ l > call[c].level
                               \/ Clearing(c) /\ l = call[c].level
                               \/ call[c].do = "query" /\ call[c].step = "read" /\ l = Levels}
LocksOK(c) == \A l \in Locks(c) : entry[TableOf(c, l)][IndexOf(c, l)].locked
LocksApart(c, d) == \A l \in Locks(c) \cap Locks(d) :
                      TableOf(c, l) = TableOf(d, l) /\ IndexOf(c, l) = IndexOf(d, l) => c = d

\* What is mapped is found in every space that has it.
PageInv(g) ==
  \A s, p, x : <<s, p, x>> \in pages =>
    /\ s \in spaces /\ p \in Pages /\ Path(g, s, p, 1)
    /\ LET e == entry[TableIn(entry, s, p, 1)][Index(1, p)] IN e.present /\ e.frame = x
PagesAre == \A m \in pages : m = <<m[1], m[2], m[3]>>

BootInv == booting => /\ pages = {} /\ spaces = {BootRoot}
                      /\ \A c \in Cores : call[c] = Idle

CoreInv(g) == /\ \A c \in Cores : CarriedOK(g, c) /\ MadeOK(g, c) /\ WalkOK(g, c) /\ LocksOK(c)
              /\ \A c, d \in Cores : LocksApart(c, d)
PagingInv(g) == /\ g \in Ghosts /\ IInv /\ Typed /\ TreeInv(g) /\ LeafInv(g) /\ CoreInv(g)
                /\ PageInv(g) /\ PagesAre /\ BootInv

------------------------------------------------------------------------------
(* Ways to a page                                                          *)

\* Table, now and after a step.
LEMMA TableIs ==
  ASSUME NEW s, NEW p, NEW l
  PROVE  Table(s, p, l) = TableIn(entry, s, p, l)
BY DEF Table, TableIn

\* The same of what a step leaves.
LEMMA TableWillBe ==
  ASSUME NEW s, NEW p, NEW l
  PROVE  Table(s, p, l)' = TableIn(entry', s, p, l)
BY DEF Table, TableIn

\* A space is the top of the way to each of its pages.
LEMMA PathTop ==
  ASSUME NEW E, NEW C, NEW g, NEW s \in C, NEW p \in Pages, g.lv[s] = Levels, g.base[s] = 0
  PROVE  PathIn(E, C, g, s, p, Levels)
<1>1. TableIn(E, s, p, Levels) = s
  BY TableTop
<1>2. p \div Width^Levels = 0
  BY TopDigit
<1>3. Levels..Levels = {Levels}
  BY Sizes
<1> QED  BY <1>1, <1>2, <1>3 DEF PathIn

\* One level down.
LEMMA PathDown ==
  ASSUME NEW E, NEW C, NEW S, NEW g, NEW s, NEW p \in Pages, NEW l \in 2..Levels,
         PathIn(E, C, g, s, p, l),
         NEW t, t = TableIn(E, s, p, l), NEW x, x = E[t][Index(l, p)].frame,
         E[t][Index(l, p)].present, x \in C, IsChild(S, g, t, Index(l, p), x),
         t \in S <=> l = Levels
  PROVE  PathIn(E, C, g, s, p, l - 1) /\ TableIn(E, s, p, l - 1) = x
<1>1. l - 1 \in 1..(Levels - 1) /\ (l - 1) + 1 = l /\ l \in 1..Levels /\ p \in Nat
  BY Sizes, TopDigit
<1>2. TableIn(E, s, p, l - 1) = x
  BY TableAbove
<1>3. g.lv[t] = l /\ g.base[t] = p \div Width^l /\ (l < Levels => g.own[t] = Owner(s, p))
  BY <1>1, Sizes DEF PathIn
<1>4. g.lv[x] = l - 1 /\ g.base[x] = p \div Width^(l - 1)
  BY <1>1, <1>3, Digits DEF IsChild
<1>5. g.own[x] = Owner(s, p)
  <2>1. CASE l = Levels
    <3>1. t = s
      BY <2>1, TableTop
    <3>2. Half(p) = "upper" <=> Index(l, p) \in KernelIndexes
      BY <2>1 DEF Half
    <3> QED  BY <2>1, <3>1, <3>2 DEF IsChild, Owner
  <2>2. CASE l # Levels
    BY <2>2, <1>3, Sizes DEF IsChild
  <2> QED  BY <2>1, <2>2
<1>6. ASSUME NEW k \in (l - 1)..Levels
      PROVE  LET u == TableIn(E, s, p, k) IN
             /\ u \in C /\ g.lv[u] = k /\ g.base[u] = p \div Width^k
             /\ k < Levels => g.own[u] = Owner(s, p)
             /\ k > l - 1 => E[u][Index(k, p)].present
  <2>1. CASE k = l - 1
    BY <2>1, <1>1, <1>2, <1>4, <1>5
  <2>2. CASE k = l
    BY <2>2, <1>1, <1>3 DEF PathIn
  <2>3. CASE k # l - 1 /\ k # l
    <3>1. k \in l..Levels /\ k > l
      BY <2>3, <1>1
    <3> QED  BY <3>1 DEF PathIn
  <2> QED  BY <2>1, <2>2, <2>3
<1> QED  BY <1>2, <1>6 DEF PathIn

\* The parts of a way.
LEMMA PathPart ==
  ASSUME NEW E, NEW C, NEW g, NEW s, NEW p, NEW l \in 1..Levels, PathIn(E, C, g, s, p, l),
         NEW k \in l..Levels
  PROVE  PathIn(E, C, g, s, p, k)
<1>1. \A j \in k..Levels : j \in l..Levels /\ (j > k => j > l)
  BY Sizes
<1> QED  BY <1>1 DEF PathIn

\* A way stays when nothing that led on leads elsewhere.
LEMMA TablesStay ==
  ASSUME NEW E, NEW F, NEW C, NEW g, NEW s, NEW p \in Nat, NEW l \in 1..Levels,
         PathIn(E, C, g, s, p, l),
         \A f \in C, i \in Entries : g.lv[f] >= 2 /\ E[f][i].present =>
           F[f][i].present /\ F[f][i].frame = E[f][i].frame
  PROVE  \A k \in l..Levels : TableIn(F, s, p, k) = TableIn(E, s, p, k)
<1> DEFINE S == {k \in l..Levels : TableIn(F, s, p, k) = TableIn(E, s, p, k)}
<1>1. Levels \in S
  BY TableTop, Sizes
<1>2. ASSUME NEW k \in l..(Levels - 1), k + 1 \in S PROVE k \in S
  <2>1. k + 1 \in l..Levels /\ k + 1 > l /\ k + 1 >= 2 /\ k \in 1..(Levels - 1) /\ k \in l..Levels
        /\ k + 1 \in 1..Levels
    BY Sizes
  <2>2. PICK t : t = TableIn(E, s, p, k + 1)
    OBVIOUS
  <2>3. t \in C /\ g.lv[t] >= 2 /\ E[t][Index(k + 1, p)].present
    BY <2>1, <2>2 DEF PathIn
  <2>4. Index(k + 1, p) \in Entries
    BY <2>1, Digits
  <2>5. F[t][Index(k + 1, p)].frame = E[t][Index(k + 1, p)].frame
    BY <2>3, <2>4
  <2>6. TableIn(F, s, p, k + 1) = t
    BY <1>2, <2>2
  <2>7. TableIn(E, s, p, k) = E[t][Index(k + 1, p)].frame
    BY <2>1, <2>2, TableBelow
  <2>8. TableIn(F, s, p, k) = F[t][Index(k + 1, p)].frame
    BY <2>1, <2>6, TableBelow
  <2> QED  BY <2>1, <2>5, <2>7, <2>8
<1>3. S = l..Levels
  <2>1. Levels \in Nat /\ S \in SUBSET (l..Levels)
    BY Sizes
  <2> HIDE DEF S
  <2> QED  BY <2>1, <1>1, <1>2, Downward
<1> QED  BY <1>3

\* A way stays when the tables above, those in C, stay and lead where they did.
LEMMA PathStays ==
  ASSUME NEW E, NEW F, NEW C, NEW D, NEW g, NEW h, NEW s, NEW p \in Nat, NEW l \in 1..Levels,
         PathIn(E, C, g, s, p, l),
         \A f \in C, i \in Entries : g.lv[f] >= 2 /\ E[f][i].present =>
           F[f][i].present /\ F[f][i].frame = E[f][i].frame,
         \A f \in C : f \in D /\ h.lv[f] = g.lv[f] /\ h.base[f] = g.base[f] /\ h.own[f] = g.own[f]
  PROVE  PathIn(F, D, h, s, p, l)
<1>1. \A k \in l..Levels : TableIn(F, s, p, k) = TableIn(E, s, p, k)
  BY TablesStay
<1>2. ASSUME NEW k \in l..Levels
      PROVE  LET u == TableIn(F, s, p, k) IN
             /\ u \in D /\ h.lv[u] = k /\ h.base[u] = p \div Width^k
             /\ k < Levels => h.own[u] = Owner(s, p)
             /\ k > l => F[u][Index(k, p)].present
  <2>1. PICK t : t = TableIn(E, s, p, k)
    OBVIOUS
  <2>2. /\ t \in C /\ g.lv[t] = k /\ g.base[t] = p \div Width^k
        /\ k < Levels => g.own[t] = Owner(s, p)
        /\ k > l => E[t][Index(k, p)].present
    BY <2>1 DEF PathIn
  <2>3. k \in 1..Levels /\ (k > l => k >= 2)
    BY Sizes
  <2>4. Index(k, p) \in Entries
    BY <2>3, Digits
  <2>5. k > l => F[t][Index(k, p)].present
    BY <2>2, <2>3, <2>4
  <2> QED  BY <1>1, <2>1, <2>2, <2>5
<1> QED  BY <1>2 DEF PathIn

\* Where two ways end at one entry of a page table, they are to the same page.
LEMMA SamePage ==
  ASSUME NEW E, NEW C, NEW g, NEW s, NEW p \in Nat, NEW u, NEW q \in Nat,
         PathIn(E, C, g, s, p, 1), PathIn(E, C, g, u, q, 1),
         TableIn(E, s, p, 1) = TableIn(E, u, q, 1), Index(1, p) = Index(1, q)
  PROVE  p = q /\ Owner(s, p) = Owner(u, q)
<1>1. 1 \in 1..Levels /\ 1 \in Nat /\ 1 < Levels /\ 1 - 1 = 0
  BY Sizes
<1>2. p \div Width^1 = q \div Width^1 /\ Owner(s, p) = Owner(u, q)
  BY <1>1 DEF PathIn
<1>3. /\ p \div Width^0 = (p \div Width^1) * Width + Index(1, p)
      /\ q \div Width^0 = (q \div Width^1) * Width + Index(1, q)
  BY <1>1, Digits
<1>4. p \div Width^0 = p /\ q \div Width^0 = q
  BY Digits
<1> QED  BY <1>2, <1>3, <1>4

\* The page of the end of a way.
LEMMA PageAt ==
  ASSUME NEW E, NEW C, NEW g, NEW s, NEW p \in Nat, PathIn(E, C, g, s, p, 1)
  PROVE  g.base[TableIn(E, s, p, 1)] * Width + Index(1, p) = p
<1>1. 1 \in 1..Levels /\ 1 - 1 = 0
  BY Sizes
<1>2. g.base[TableIn(E, s, p, 1)] = p \div Width^1
  BY <1>1 DEF PathIn
<1>3. p \div Width^0 = (p \div Width^1) * Width + Index(1, p)
  BY <1>1, Digits
<1> QED  BY <1>2, <1>3, Digits

\* Spaces share the ways to the pages of the upper half.
LEMMA PathShared ==
  ASSUME NEW E, NEW C, NEW g, NEW s, NEW u, NEW p \in Pages, NEW l \in 1..Levels,
         PathIn(E, C, g, s, p, l), Half(p) = "upper",
         u \in C, g.lv[u] = Levels, g.base[u] = 0,
         LET i == Index(Levels, p) IN E[u][i].present /\ E[u][i].frame = E[s][i].frame
  PROVE  /\ PathIn(E, C, g, u, p, l)
         /\ \A k \in l..(Levels - 1) : TableIn(E, u, p, k) = TableIn(E, s, p, k)
<1> DEFINE S == {k \in l..(Levels - 1) : TableIn(E, u, p, k) = TableIn(E, s, p, k)}
<1>1. l # Levels => Levels - 1 \in S
  <2>1. TableIn(E, u, p, Levels) = u /\ TableIn(E, s, p, Levels) = s
    BY TableTop
  <2>2. Levels - 1 \in 1..(Levels - 1) /\ (Levels - 1) + 1 = Levels
    BY Sizes
  <2>3. Levels \in 2..Levels
    BY Sizes
  <2>4. /\ TableIn(E, u, p, Levels - 1) = E[TableIn(E, u, p, Levels)][Index(Levels, p)].frame
        /\ TableIn(E, s, p, Levels - 1) = E[TableIn(E, s, p, Levels)][Index(Levels, p)].frame
    BY <2>3, TableAbove
  <2>5. TableIn(E, u, p, Levels - 1) = TableIn(E, s, p, Levels - 1)
    BY <2>1, <2>4
  <2>6. l # Levels => Levels - 1 \in l..(Levels - 1)
    BY Sizes
  <2> QED  BY <2>5, <2>6
<1>2. ASSUME NEW k \in l..(Levels - 2), k + 1 \in S PROVE k \in S
  <2>1. k \in 1..(Levels - 1) /\ k \in l..(Levels - 1)
    BY Sizes
  <2>2. /\ TableIn(E, u, p, k) = E[TableIn(E, u, p, k + 1)][Index(k + 1, p)].frame
        /\ TableIn(E, s, p, k) = E[TableIn(E, s, p, k + 1)][Index(k + 1, p)].frame
    BY <2>1, TableBelow
  <2> QED  BY <2>1, <1>2, <2>2, Zenon
<1>3. S = l..(Levels - 1)
  <2>1. CASE l = Levels
    BY <2>1, Sizes
  <2>2. CASE l # Levels
    <3>1. Levels - 1 \in Nat /\ l \in 1..(Levels - 1) /\ S \in SUBSET (l..(Levels - 1))
          /\ (Levels - 1) - 1 = Levels - 2
      BY <2>2, Sizes
    <3> HIDE DEF S
    <3> QED  BY <2>2, <3>1, <1>1, <1>2, Downward
  <2> QED  BY <2>1, <2>2
<1>4. PathIn(E, C, g, u, p, Levels)
  BY PathTop
<1>5. ASSUME NEW k \in l..Levels
      PROVE  LET t == TableIn(E, u, p, k) IN
             /\ t \in C /\ g.lv[t] = k /\ g.base[t] = p \div Width^k
             /\ k < Levels => g.own[t] = Owner(u, p)
             /\ k > l => E[t][Index(k, p)].present
  <2>1. CASE k = Levels
    <3>1. TableIn(E, u, p, Levels) = u /\ p \div Width^Levels = 0 /\ ~(Levels < Levels)
      BY TableTop, TopDigit, Sizes
    <3> QED  BY <2>1, <3>1
  <2>2. CASE k # Levels
    <3>1. k \in l..(Levels - 1)
      BY <2>2, Sizes
    <3>2. TableIn(E, u, p, k) = TableIn(E, s, p, k)
      BY <3>1, <1>3
    <3>3. Owner(u, p) = Owner(s, p)
      BY DEF Owner
    <3> QED  BY <3>2, <3>3 DEF PathIn
  <2> QED  BY <2>1, <2>2
<1> QED  BY <1>3, <1>5 DEF PathIn

------------------------------------------------------------------------------
(* What the invariant says of a core                                       *)

\* The record of a core's call.
LEMMA CallIs ==
  ASSUME NEW g, PagingInv(g), NEW c \in Cores
  PROVE  /\ call[c].do = "map" => call[c] \in MapCall
         /\ call[c].do = "unmap" => call[c] \in UnmapCall
         /\ call[c].do = "query" => QueryCall(call[c])
         /\ call[c].do = "process" => call[c] \in ProcessCall
         /\ AnyCall(call[c]) /\ CallOK(call[c]) /\ cr3[c] \in spaces
<1>1. AnyCall(call[c]) /\ CallOK(call[c]) /\ cr3[c] \in spaces
  BY DEF PagingInv, Typed
<1>2. /\ \A k \in MapCall : k.do = "map"
      /\ \A k \in UnmapCall : k.do = "unmap"
      /\ \A k : QueryCall(k) => k.do = "query"
      /\ \A k \in ProcessCall : k.do = "process"
      /\ Idle.do = "idle"
  BY DEF MapCall, UnmapCall, QueryCall, ProcessCall, Idle
<1> QED  BY <1>1, <1>2 DEF AnyCall

\* A walker is at a page and a level.
LEMMA WalkerIs ==
  ASSUME NEW g, PagingInv(g), NEW c \in Cores, Walker(c)
  PROVE  /\ call[c].at \in Pages /\ call[c].at \in Nat /\ call[c].level \in 1..Levels
         /\ call[c].at < call[c].end /\ call[c].end \in Nat
<1>1. call[c].at \in Nat /\ call[c].level \in 1..Levels /\ call[c].end \in Nat
  <2>1. call[c] \in MapCall \cup UnmapCall
    BY CallIs DEF Walker
  <2> QED  BY <2>1 DEF MapCall, UnmapCall
<1>2. RangeOK(call[c]) /\ call[c].step # "done"
  BY CallIs DEF CallOK, Walker, Walks
<1>3. call[c].at < call[c].end /\ call[c].end - 1 \in Pages
  BY <1>2 DEF RangeOK
<1>4. call[c].at \in Pages
  <2>1. PICK w \in Nat : w = Width^Levels
    BY Powers, Sizes
  <2> QED  BY <2>1, <1>1, <1>3 DEF Pages
<1> QED  BY <1>1, <1>3, <1>4

\* The spaces are tables.
LEMMA SpaceIs ==
  ASSUME NEW g, PagingInv(g), NEW s \in spaces
  PROVE  s \in Frames /\ s \in Cleared(g) /\ g.lv[s] = Levels /\ g.base[s] = 0 /\ s \notin free
<1>1. s \in Frames /\ s \notin free
  BY DEF PagingInv, Typed
<1>2. g.lv[s] = Levels /\ g.base[s] = 0 /\ s \notin Uncleared
  BY <1>1 DEF PagingInv, TreeInv, SpacesAreTop
<1> QED  BY <1>1, <1>2, Sizes DEF Cleared

\* The entry a core is at.
LEMMA EntryOfIs ==
  ASSUME NEW c
  PROVE  /\ EntryOf(c) = entry[Here(c)][Slot(c)]
         /\ \A e : SetEntry(c, e) <=> entry' = [entry EXCEPT ![Here(c)][Slot(c)] = e]
<1>1. Table(cr3[c], call[c].at, call[c].level) = Here(c)
  BY TableIs DEF Here, TableOf
<1> QED  BY <1>1 DEF EntryOf, SetEntry, Slot, IndexOf

\* The tables that are about to be cleared.
LEMMA UnclearedIs == \A x : x \in Uncleared <=> \E c \in Cores : Clearing(c) /\ x = Target(c)
BY EntryOfIs DEF Uncleared, Clearing, Target

\* The same, after a step.
LEMMA UnclearedWillBe ==
  \A x : x \in Uncleared' <=> \E c \in Cores : Clearing(c)' /\ x = Target(c)'
<1>1. \A c : EntryOf(c)' = (entry[Here(c)][Slot(c)])'
  BY DEF EntryOf, Here, TableOf, Slot, IndexOf, Table, TableIn
<1> QED  BY <1>1 DEF Uncleared, Clearing, Target

\* A table on the way of a walker.
LEMMA WayIs ==
  ASSUME NEW g, PagingInv(g), NEW c \in Cores, Walker(c), NEW l \in (call[c].level)..Levels
  PROVE  /\ l \in 1..Levels /\ TableOf(c, l) \in Cleared(g) /\ TableOf(c, l) \in Frames
         /\ g.lv[TableOf(c, l)] = l /\ IndexOf(c, l) \in Entries
         /\ g.base[TableOf(c, l)] = call[c].at \div Width^l
         /\ l < Levels => g.own[TableOf(c, l)] = Owner(cr3[c], call[c].at)
         /\ l > call[c].level => entry[TableOf(c, l)][IndexOf(c, l)].present
         /\ TableOf(c, Levels) = cr3[c]
<1>1. Path(g, cr3[c], call[c].at, call[c].level)
  BY DEF PagingInv, CoreInv, WalkOK
<1>2. l \in 1..Levels /\ call[c].at \in Nat
  BY WalkerIs, Sizes
<1>3. IndexOf(c, l) \in Entries
  BY <1>2, Digits DEF IndexOf
<1>4. TableOf(c, Levels) = cr3[c]
  BY TableTop DEF TableOf
<1>5. \A x \in Cleared(g) : x \in Frames
  BY DEF Cleared
<1> QED  BY <1>1, <1>2, <1>3, <1>4, <1>5 DEF Path, PathIn, TableOf, IndexOf

\* The entry a walker is at is one of a table.
LEMMA HereIs ==
  ASSUME NEW g, PagingInv(g), NEW c \in Cores, Walker(c)
  PROVE  /\ Here(c) \in Cleared(g) /\ Here(c) \in Frames /\ g.lv[Here(c)] = call[c].level
         /\ Slot(c) \in Entries /\ call[c].level \in 1..Levels
         /\ entry[Here(c)][Slot(c)] \in EntryType
<1>1. call[c].level \in 1..Levels /\ call[c].level \in (call[c].level)..Levels
  BY WalkerIs, Sizes
<1>2. /\ Here(c) \in Cleared(g) /\ Here(c) \in Frames /\ g.lv[Here(c)] = call[c].level
      /\ Slot(c) \in Entries
  BY <1>1, WayIs DEF Here, Slot
<1> QED  BY <1>1, <1>2 DEF PagingInv, Typed

\* Locked entries are entries of tables.
LEMMA LockIs ==
  ASSUME NEW g, PagingInv(g), NEW c \in Cores, NEW l \in Locks(c)
  PROVE  /\ l \in 1..Levels /\ TableOf(c, l) \in Cleared(g) /\ TableOf(c, l) \in Frames
         /\ g.lv[TableOf(c, l)] = l /\ IndexOf(c, l) \in Entries
<1>1. CASE Walker(c)
  <2>1. l \in (call[c].level)..Levels
    BY <1>1, WalkerIs, Sizes DEF Locks, Walker, Clearing
  <2> QED  BY <1>1, <2>1, WayIs
<1>2. CASE ~Walker(c)
  <2>1. l = Levels /\ call[c].do = "query"
    BY <1>2 DEF Locks, Walker, Clearing
  <2>2. TableOf(c, l) = cr3[c] /\ cr3[c] \in spaces
    BY <2>1, TableTop, CallIs DEF TableOf
  <2>3. call[c].at \in Nat
    BY <2>1, CallIs DEF QueryCall
  <2>4. Levels \in 1..Levels
    BY Sizes
  <2>5. IndexOf(c, l) \in Entries
    BY <2>1, <2>3, <2>4, Digits DEF IndexOf
  <2> QED  BY <2>1, <2>2, <2>4, <2>5, SpaceIs
<1> QED  BY <1>1, <1>2

\* No two cores lock one entry, at whatever levels they do.
LEMMA LocksDiffer ==
  ASSUME NEW g, PagingInv(g), NEW c \in Cores, NEW d \in Cores, NEW l \in Locks(c),
         NEW k \in Locks(d), TableOf(c, l) = TableOf(d, k), IndexOf(c, l) = IndexOf(d, k)
  PROVE  c = d
<1>1. l = k
  BY LockIs
<1>2. LocksApart(c, d)
  BY DEF PagingInv, CoreInv
<1> QED  BY <1>1, <1>2 DEF LocksApart

------------------------------------------------------------------------------
(* Steps that take no table away                                           *)

\* What was known of the tables is still so; entries that lead on lead where they did; the step
\* is core c's, and unlocks what c has locked.
Keeps(g, h) == \A f \in Frames : g.lv[f] > 0 =>
                 h.lv[f] = g.lv[f] /\ h.base[f] = g.base[f] /\ h.own[f] = g.own[f]
Grows(g) == \A f \in Cleared(g), i \in Entries : g.lv[f] >= 2 /\ entry[f][i].present =>
              entry'[f][i].present /\ entry'[f][i].frame = entry[f][i].frame
Alone(c) == \A d \in Cores \ {c} : call'[d] = call[d] /\ cr3'[d] = cr3[d] /\ making'[d] = making[d]
Unlocks(g, c) == \A f \in Cleared(g), i \in Entries : entry[f][i].locked =>
                   \/ entry'[f][i].locked
                   \/ \E l \in Locks(c) : f = TableOf(c, l) /\ i = IndexOf(c, l)

\* The ways stay what they were.
LEMMA WaysStay ==
  ASSUME NEW g, Grows(g), NEW s, NEW p \in Nat, NEW l \in 1..Levels, Path(g, s, p, l)
  PROVE  \A k \in l..Levels : TableIn(entry', s, p, k) = TableIn(entry, s, p, k)
<1>1. PathIn(entry, Cleared(g), g, s, p, l)
  BY DEF Path
<1>2. \A f \in Cleared(g), i \in Entries : g.lv[f] >= 2 /\ entry[f][i].present =>
        entry'[f][i].present /\ entry'[f][i].frame = entry[f][i].frame
  BY DEF Grows
<1> QED  BY <1>1, <1>2, TablesStay

\* They are ways through tables that are cleared.
LEMMA PathsStay ==
  ASSUME NEW g, NEW h, Grows(g), Keeps(g, h), \A f \in Cleared(g) : f \in Cleared(h)',
         NEW s, NEW p \in Nat, NEW l \in 1..Levels, Path(g, s, p, l)
  PROVE  PathIn(entry', Cleared(h)', h, s, p, l)
<1>1. PathIn(entry, Cleared(g), g, s, p, l)
  BY DEF Path
<1>2. \A f \in Cleared(g), i \in Entries : g.lv[f] >= 2 /\ entry[f][i].present =>
        entry'[f][i].present /\ entry'[f][i].frame = entry[f][i].frame
  BY DEF Grows
<1>3. \A f \in Cleared(g) : /\ f \in Cleared(h)' /\ h.lv[f] = g.lv[f]
                            /\ h.base[f] = g.base[f] /\ h.own[f] = g.own[f]
  BY DEF Keeps, Cleared
<1> QED  BY <1>1, <1>2, <1>3, PathStays

\* The other cores are where they were,
LEMMA OtherTables ==
  ASSUME NEW g, PagingInv(g), NEW c \in Cores, Alone(c), Grows(g), NEW d \in Cores \ {c}
  PROVE  /\ Walker(d)' <=> Walker(d)
         /\ Clearing(d)' <=> Clearing(d)
         /\ Locks(d)' = Locks(d)
         /\ Walker(d) => \A l \in (call[d].level)..Levels :
              TableOf(d, l)' = TableOf(d, l) /\ IndexOf(d, l)' = IndexOf(d, l)
<1>1. call'[d] = call[d] /\ cr3'[d] = cr3[d]
  BY DEF Alone
<1>2. Walker(d)' <=> Walker(d)
  BY <1>1 DEF Walker
<1>3. Clearing(d)' <=> Clearing(d)
  BY <1>1 DEF Clearing
<1>4. Locks(d)' = Locks(d)
  BY <1>1, <1>2, <1>3 DEF Locks
<1>5. ASSUME Walker(d), NEW l \in (call[d].level)..Levels
      PROVE  TableOf(d, l)' = TableOf(d, l) /\ IndexOf(d, l)' = IndexOf(d, l)
  <2>1. call[d].at \in Nat /\ call[d].level \in 1..Levels
    BY <1>5, WalkerIs
  <2>2. Path(g, cr3[d], call[d].at, call[d].level)
    BY <1>5 DEF PagingInv, CoreInv, WalkOK
  <2>3. TableIn(entry', cr3[d], call[d].at, l) = TableIn(entry, cr3[d], call[d].at, l)
    BY <2>1, <2>2, <1>5, WaysStay
  <2> QED  BY <1>1, <2>3 DEF TableOf, IndexOf
<1> QED  BY <1>2, <1>3, <1>4, <1>5

\* with the same entries locked,
LEMMA OtherPlaces ==
  ASSUME NEW g, PagingInv(g), NEW c \in Cores, Alone(c), Grows(g), NEW d \in Cores \ {c},
         NEW l \in Locks(d)
  PROVE  TableOf(d, l)' = TableOf(d, l) /\ IndexOf(d, l)' = IndexOf(d, l)
<1>1. CASE Walker(d)
  <2>1. l \in (call[d].level)..Levels
    BY <1>1, WalkerIs, Sizes DEF Locks, Walker, Clearing
  <2> QED  BY <1>1, <2>1, OtherTables
<1>2. CASE ~Walker(d)
  <2>1. l = Levels
    BY <1>2 DEF Locks, Walker, Clearing
  <2>2. call'[d] = call[d] /\ cr3'[d] = cr3[d]
    BY DEF Alone
  <2>3. /\ TableIn(entry', cr3[d], call[d].at, Levels) = cr3[d]
        /\ TableIn(entry, cr3[d], call[d].at, Levels) = cr3[d]
    BY TableTop
  <2> QED  BY <2>1, <2>2, <2>3 DEF TableOf, IndexOf
<1> QED  BY <1>1, <1>2

\* A table that is about to be cleared is not at the bottom.
LEMMA ClearingIs ==
  ASSUME NEW g, PagingInv(g), NEW c \in Cores, Clearing(c)
  PROVE  /\ Walker(c) /\ call[c].level \in 2..Levels /\ call[c].level \in Locks(c)
         /\ Here(c) \in Cleared(g) /\ Here(c) \in Frames /\ g.lv[Here(c)] = call[c].level
         /\ Slot(c) \in Entries /\ entry[Here(c)][Slot(c)].present
         /\ LeadsOn(g, Here(c), Slot(c))
         /\ IsChild(spaces, g, Here(c), Slot(c), Target(c)) /\ Target(c) \in Frames
         /\ g.lv[Target(c)] = call[c].level - 1
         /\ Here(c) \in spaces => Slot(c) \notin KernelIndexes
<1>1. Walker(c)
  BY DEF Walker, Clearing
<1>2. call[c].level \in 2..Levels /\ call[c].level \in Locks(c)
  <2>1. call[c].level >= 2
    BY CallIs DEF CallOK, MapOK, Clearing
  <2>2. call[c].level \in 1..Levels
    BY <1>1, WalkerIs
  <2> QED  BY <2>1, <2>2, Sizes DEF Locks
<1>3. WalkOK(g, c)
  BY DEF PagingInv, CoreInv
<1>4. /\ Here(c) \in Cleared(g) /\ Here(c) \in Frames /\ g.lv[Here(c)] = call[c].level
      /\ Slot(c) \in Entries
  BY <1>1, HereIs
<1>5. Here(c) \in spaces => Slot(c) \notin KernelIndexes
  <2>1. Here(c) \in spaces => Half(call[c].at) = "lower" /\ call[c].level = Levels
    BY <1>3, <1>4, SpaceIs DEF WalkOK
  <2> QED  BY <2>1 DEF Half, Slot, IndexOf
<1>6. LeadsOn(g, Here(c), Slot(c))
  BY <1>2, <1>3, <1>4 DEF LeadsOn, WalkOK
<1> QED  BY <1>1, <1>2, <1>3, <1>4, <1>5, <1>6 DEF WalkOK, IsChild

\* and the same tables to clear.
LEMMA OtherTargets ==
  ASSUME NEW g, PagingInv(g), NEW c \in Cores, Alone(c), Grows(g), NEW d \in Cores \ {c},
         Clearing(d)
  PROVE  /\ Here(d)' = Here(d) /\ Slot(d)' = Slot(d) /\ Target(d)' = Target(d)
         /\ entry'[Here(d)][Slot(d)].present
<1>1. /\ Walker(d) /\ call[d].level \in 2..Levels /\ Here(d) \in Cleared(g)
      /\ g.lv[Here(d)] = call[d].level /\ Slot(d) \in Entries /\ entry[Here(d)][Slot(d)].present
  BY ClearingIs
<1>2. call'[d] = call[d] /\ call[d].level \in (call[d].level)..Levels
  BY <1>1, Sizes DEF Alone
<1>3. /\ TableOf(d, call[d].level)' = TableOf(d, call[d].level)
      /\ IndexOf(d, call[d].level)' = IndexOf(d, call[d].level)
  BY <1>1, <1>2, OtherTables
<1>4. Here(d)' = Here(d) /\ Slot(d)' = Slot(d)
  BY <1>2, <1>3 DEF Here, Slot, TableOf, IndexOf
<1>5. /\ entry'[Here(d)][Slot(d)].present
      /\ entry'[Here(d)][Slot(d)].frame = entry[Here(d)][Slot(d)].frame
  BY <1>1 DEF Grows
<1> QED  BY <1>4, <1>5 DEF Target

\* A step that takes nothing away: no table that is in use is to be cleared after it, and what
\* core c has locked then it had locked, or it was not locked.
NewLocks(c) == \A l \in Locks(c)' :
  LET t == TableOf(c, l)'
      i == IndexOf(c, l)'
  IN /\ entry'[t][i].locked
     /\ ~entry[t][i].locked \/ (l \in Locks(c) /\ t = TableOf(c, l) /\ i = IndexOf(c, l))
Mild(g, h, c) == /\ Alone(c) /\ Keeps(g, h) /\ Grows(g) /\ Unlocks(g, c) /\ NewLocks(c)
                 /\ Clearing(c)' => Target(c)' \notin Cleared(g)
                 /\ spaces \subseteq spaces'
                 /\ \A s \in spaces' \cap Frames : s \in spaces \/ g.lv[s] = 0

\* Tables in use stay in use.
LEMMA ClearedStays ==
  ASSUME NEW g, PagingInv(g), NEW h, NEW c \in Cores, Mild(g, h, c)
  PROVE  \A f \in Cleared(g) : f \in Cleared(h)'
<1> SUFFICES ASSUME NEW f \in Cleared(g) PROVE f \in Cleared(h)'
  OBVIOUS
<1>1. f \in Frames /\ h.lv[f] > 0 /\ f \notin Uncleared
  BY DEF Mild, Keeps, Cleared
<1>2. ASSUME NEW d \in Cores, Clearing(d)' PROVE f # Target(d)'
  <2>1. CASE d = c
    BY <1>2, <2>1 DEF Mild
  <2>2. CASE d # c
    <3>1. d \in Cores \ {c} /\ Alone(c) /\ Grows(g)
      BY <2>2 DEF Mild
    <3>2. Clearing(d)
      BY <1>2, <3>1, OtherTables
    <3>3. Target(d)' = Target(d)
      BY <3>1, <3>2, OtherTargets
    <3>4. Target(d) \in Uncleared
      BY <3>2, UnclearedIs
    <3> QED  BY <1>1, <3>3, <3>4
  <2> QED  BY <2>1, <2>2
<1>3. f \notin Uncleared'
  BY <1>2, UnclearedWillBe
<1> QED  BY <1>1, <1>3 DEF Cleared

\* The other cores stay where they were, with their locks.
LEMMA OthersStay ==
  ASSUME NEW g, PagingInv(g), NEW h, NEW c \in Cores, Mild(g, h, c), NEW d \in Cores \ {c}
  PROVE  WalkOK(h, d)' /\ LocksOK(d)'
<1>1. Alone(c) /\ Grows(g) /\ Keeps(g, h) /\ \A f \in Cleared(g) : f \in Cleared(h)'
  BY ClearedStays DEF Mild
<1>2. call'[d] = call[d] /\ cr3'[d] = cr3[d] /\ d \in Cores
  BY <1>1 DEF Alone
<1>3. Walker(d)' => Path(h, cr3[d], call[d].at, call[d].level)'
  <2> SUFFICES ASSUME Walker(d)' PROVE Path(h, cr3[d], call[d].at, call[d].level)'
    OBVIOUS
  <2>1. Walker(d)
    BY <1>1, OtherTables
  <2>2. call[d].at \in Nat /\ call[d].level \in 1..Levels
    BY <2>1, <1>2, WalkerIs
  <2>3. Path(g, cr3[d], call[d].at, call[d].level)
    BY <2>1, <1>2 DEF PagingInv, CoreInv, WalkOK
  <2>4. PathIn(entry', Cleared(h)', h, cr3[d], call[d].at, call[d].level)
    BY <1>1, <2>2, <2>3, PathsStay
  <2> QED  BY <1>2, <2>4 DEF Path
<1>4. ASSUME Clearing(d)'
      PROVE  /\ entry'[Here(d)'][Slot(d)'].present
             /\ call'[d].level = Levels => Half(call'[d].at) = "lower"
             /\ IsChild(spaces', h, Here(d)', Slot(d)', Target(d)')
  <2>1. Clearing(d)
    BY <1>1, <1>4, OtherTables
  <2>2. /\ Here(d)' = Here(d) /\ Slot(d)' = Slot(d) /\ Target(d)' = Target(d)
        /\ entry'[Here(d)][Slot(d)].present
    BY <1>1, <2>1, OtherTargets
  <2>3. call[d].level = Levels => Half(call[d].at) = "lower"
    BY <1>2, <2>1 DEF PagingInv, CoreInv, WalkOK
  <2>4. /\ Here(d) \in Frames /\ g.lv[Here(d)] > 0 /\ Target(d) \in Frames /\ g.lv[Target(d)] > 0
        /\ IsChild(spaces, g, Here(d), Slot(d), Target(d))
    <3>1. /\ Here(d) \in Frames /\ g.lv[Here(d)] = call[d].level /\ Target(d) \in Frames
          /\ g.lv[Target(d)] = call[d].level - 1 /\ call[d].level \in 2..Levels
          /\ IsChild(spaces, g, Here(d), Slot(d), Target(d))
      BY <1>2, <2>1, ClearingIs
    <3> QED  BY <3>1, Sizes
  <2>5. Here(d) \in spaces' <=> Here(d) \in spaces
    BY <2>4 DEF Mild
  <2>6. IsChild(spaces', h, Here(d), Slot(d), Target(d))
    BY <1>1, <2>4, <2>5 DEF IsChild, Keeps
  <2> QED  BY <1>2, <2>2, <2>3, <2>6
<1>5. WalkOK(h, d)'
  BY <1>3, <1>4 DEF WalkOK, IsChild
<1>6. LocksOK(d)'
  <2> SUFFICES ASSUME NEW l \in Locks(d) PROVE entry'[TableOf(d, l)'][IndexOf(d, l)'].locked
    BY <1>1, OtherTables DEF LocksOK
  <2>1. TableOf(d, l)' = TableOf(d, l) /\ IndexOf(d, l)' = IndexOf(d, l)
    BY <1>1, OtherPlaces
  <2>2. TableOf(d, l) \in Cleared(g) /\ IndexOf(d, l) \in Entries
    BY <1>2, LockIs
  <2>3. entry[TableOf(d, l)][IndexOf(d, l)].locked
    BY <1>2 DEF PagingInv, CoreInv, LocksOK
  <2>4. ASSUME NEW k \in Locks(c), TableOf(d, l) = TableOf(c, k), IndexOf(d, l) = IndexOf(c, k)
        PROVE  FALSE
    BY <1>2, <2>4, LocksDiffer
  <2> QED  BY <2>1, <2>2, <2>3, <2>4 DEF Mild, Unlocks
<1> QED  BY <1>5, <1>6

\* So nothing is wrong after the step if it is right for core c.
LEMMA WalksStay ==
  ASSUME NEW g, PagingInv(g), NEW h, NEW c \in Cores, Mild(g, h, c), WalkOK(h, c)'
  PROVE  /\ \A d \in Cores : WalkOK(h, d)' /\ LocksOK(d)'
         /\ \A d, e \in Cores : LocksApart(d, e)'
<1>1. LocksOK(c)'
  BY DEF Mild, NewLocks, LocksOK
<1>2. \A d \in Cores : WalkOK(h, d)' /\ LocksOK(d)'
  BY <1>1, OthersStay
<1>3. ASSUME NEW d \in Cores, NEW e \in Cores, d # e, NEW l \in Locks(d)', l \in Locks(e)', e # c,
             TableOf(d, l)' = TableOf(e, l)', IndexOf(d, l)' = IndexOf(e, l)'
      PROVE  FALSE
  <2>1. Alone(c) /\ Grows(g) /\ e \in Cores \ {c}
    BY <1>3 DEF Mild
  <2>2. l \in Locks(e) /\ TableOf(e, l)' = TableOf(e, l) /\ IndexOf(e, l)' = IndexOf(e, l)
    BY <1>3, <2>1, OtherTables, OtherPlaces
  <2>3. entry[TableOf(e, l)][IndexOf(e, l)].locked
    BY <2>2 DEF PagingInv, CoreInv, LocksOK
  <2>4. l \in Locks(d) /\ TableOf(d, l)' = TableOf(d, l) /\ IndexOf(d, l)' = IndexOf(d, l)
    <3>1. CASE d = c
      BY <1>3, <2>2, <2>3, <3>1 DEF Mild, NewLocks
    <3>2. CASE d # c
      BY <1>3, <2>1, <3>2, OtherTables, OtherPlaces
    <3> QED  BY <3>1, <3>2
  <2> QED  BY <1>3, <2>2, <2>4, LocksDiffer
<1>4. \A d, e \in Cores : LocksApart(d, e)'
  <2> SUFFICES ASSUME NEW d \in Cores, NEW e \in Cores, NEW l \in Locks(d)', l \in Locks(e)',
                      TableOf(d, l)' = TableOf(e, l)', IndexOf(d, l)' = IndexOf(e, l)', d # e
               PROVE  FALSE
    BY DEF LocksApart
  <2>1. CASE e # c
    BY <2>1, <1>3
  <2>2. CASE e = c
    BY <2>2, <1>3
  <2> QED  BY <2>1, <2>2
<1> QED  BY <1>2, <1>4

------------------------------------------------------------------------------
(* Frames on the way to be mapped or to become a PML4                      *)

\* Frame x is still nothing else.
Untouched(g, h, x) ==
  /\ x \notin free' /\ h.lv[x] = 0
  /\ \A f \in Frames, i \in Entries : Leaf(h, f, i)' /\ entry'[f][i].frame = x =>
       Leaf(g, f, i) /\ entry[f][i].frame = x
Taken(c, x) == Carries(c, x) \/ Makes(c, x)
Quiet(g, h, c) == \A d \in Cores \ {c}, x \in Frames :
                    Taken(d, x) => Untouched(g, h, x) /\ entry'[x] = entry[x]
Fresh(c) == \A x \in Frames : Taken(c, x)' => Taken(c, x) \/ x \in free

\* A frame that is carried on.
LEMMA CarriedOn ==
  ASSUME NEW g, PagingInv(g), NEW h, NEW d \in Cores,
         \A x \in Frames : Carries(d, x)' => Carries(d, x) /\ Untouched(g, h, x),
         Making(d, Inside)' => Making(d, Inside), making'[d] = making[d],
         \A e \in Cores \ {d}, x \in Frames : Taken(e, x)' => Taken(e, x) \/ x \in free
  PROVE  CarriedOK(h, d)'
<1> SUFFICES ASSUME NEW x \in Frames, Carries(d, x)'
             PROVE  /\ x \notin free' /\ h.lv[x] = 0 /\ ~Mapped(h, x)'
                    /\ \A e \in Cores \ {d} : ~Carries(e, x)' /\ ~Makes(e, x)'
                    /\ Making(d, Inside)' => Makes(d, x)'
  BY DEF CarriedOK
<1>1. /\ Carries(d, x) /\ x \notin free /\ g.lv[x] = 0 /\ ~Mapped(g, x)
      /\ \A e \in Cores \ {d} : ~Carries(e, x) /\ ~Makes(e, x)
      /\ Making(d, Inside) => Makes(d, x)
  BY DEF PagingInv, CoreInv, CarriedOK
<1>2. x \notin free' /\ h.lv[x] = 0 /\ ~Mapped(h, x)'
  BY <1>1 DEF Untouched, Mapped
<1>3. \A e \in Cores \ {d} : ~Carries(e, x)' /\ ~Makes(e, x)'
  BY <1>1 DEF Taken
<1>4. Making(d, Inside)' => Makes(d, x)'
  BY <1>1 DEF Makes
<1> QED  BY <1>2, <1>3, <1>4

\* The upper half of the booter's space is there for good.
LEMMA UpperStays ==
  ASSUME NEW g, PagingInv(g), Grows(g), NEW i \in KernelIndexes
  PROVE  /\ entry[BootRoot][i].present /\ entry'[BootRoot][i].present
         /\ entry'[BootRoot][i].frame = entry[BootRoot][i].frame
<1>1. BootRoot \in spaces /\ entry[BootRoot][i].present
  BY DEF PagingInv, TreeInv, SpacesAreTop, UpperIsShared
<1>2. BootRoot \in Cleared(g) /\ g.lv[BootRoot] >= 2 /\ i \in Entries
  BY <1>1, SpaceIs, Sizes
<1> QED  BY <1>1, <1>2 DEF Grows

\* A PML4 that stays under construction, with copies in it at most.
LEMMA MadeWith ==
  ASSUME NEW g, PagingInv(g), NEW h, NEW c \in Cores, Mild(g, h, c), NEW d \in Cores,
         making'[d] = making[d], Making(d, Inside) => cr3'[d] = cr3[d],
         Making(d, Later)' => Making(d, Later), Making(d, Inside)' <=> Making(d, Inside),
         Unmapped(d)' => Unmapped(d),
         \A x \in Frames : Makes(d, x) =>
           Untouched(g, h, x) /\ (Unmapped(d)' \/ call'[d].do = "unmap" => IsCopy(x)')
  PROVE  MadeOK(h, d)'
<1>1. Grows(g) /\ Keeps(g, h) /\ spaces \subseteq spaces' /\ \A f \in Cleared(g) : f \in Cleared(h)'
  BY ClearedStays DEF Mild
<1>2. MadeOK(g, d)
  BY DEF PagingInv, CoreInv
<1>3. Making(d, Later)' => /\ making'[d][2] \in spaces'
                           /\ ~Making(d, Inside)' => making'[d][1] \in spaces'
  BY <1>1, <1>2 DEF MadeOK
<1>4. ASSUME NEW x \in Frames, Makes(d, x)'
      PROVE  /\ x \notin free' /\ h.lv[x] = 0
             /\ \A f \in Frames, i \in Entries : Leaf(h, f, i)' /\ entry'[f][i].frame = x =>
                  /\ f = TableIn(entry', cr3'[d], Scratch, 1) /\ i = Index(1, Scratch)
                  /\ Path(h, cr3[d], Scratch, 1)'
             /\ Unmapped(d)' => ~Mapped(h, x)'
             /\ Unmapped(d)' \/ call'[d].do = "unmap" => IsCopy(x)'
  <2>1. /\ Makes(d, x) /\ Untouched(g, h, x) /\ cr3'[d] = cr3[d]
        /\ Unmapped(d)' \/ call'[d].do = "unmap" => IsCopy(x)'
    <3>1. Makes(d, x) /\ cr3'[d] = cr3[d]
      BY <1>4 DEF Makes
    <3> QED  BY <3>1
  <2>2. ASSUME NEW f \in Frames, NEW i \in Entries, Leaf(h, f, i)', entry'[f][i].frame = x
        PROVE  /\ f = TableIn(entry', cr3'[d], Scratch, 1) /\ i = Index(1, Scratch)
               /\ Path(h, cr3[d], Scratch, 1)'
    <3>1. Leaf(g, f, i) /\ entry[f][i].frame = x
      BY <2>1, <2>2 DEF Untouched
    <3>2. /\ f = TableIn(entry, cr3[d], Scratch, 1) /\ i = Index(1, Scratch)
          /\ Path(g, cr3[d], Scratch, 1)
      BY <1>2, <2>1, <3>1 DEF MadeOK
    <3>3. Scratch \in Nat /\ 1 \in 1..Levels
      BY PagingAssumption, TopDigit, Sizes
    <3>4. /\ 1 \in 1..Levels
          /\ TableIn(entry', cr3[d], Scratch, 1) = TableIn(entry, cr3[d], Scratch, 1)
      BY <1>1, <3>2, <3>3, WaysStay
    <3>5. PathIn(entry', Cleared(h)', h, cr3[d], Scratch, 1)
      BY <1>1, <3>2, <3>3, PathsStay
    <3> QED  BY <2>1, <3>2, <3>4, <3>5 DEF Path
  <2>3. Unmapped(d)' => ~Mapped(h, x)'
    BY <1>2, <2>1 DEF MadeOK, Untouched, Mapped
  <2> QED  BY <2>1, <2>2, <2>3 DEF Untouched
<1> QED  BY <1>3, <1>4 DEF MadeOK

\* One that is not written to.
LEMMA MadeOn ==
  ASSUME NEW g, PagingInv(g), NEW h, NEW c \in Cores, Mild(g, h, c), NEW d \in Cores,
         making'[d] = making[d], Making(d, Inside) => cr3'[d] = cr3[d],
         Making(d, Later)' => Making(d, Later), Making(d, Inside)' <=> Making(d, Inside),
         Unmapped(d)' => Unmapped(d),
         call'[d].do = "unmap" => Unmapped(d) \/ call[d].do = "unmap",
         \A x \in Frames : Makes(d, x) => Untouched(g, h, x) /\ entry'[x] = entry[x]
  PROVE  MadeOK(h, d)'
<1>1. ASSUME NEW x \in Frames, Makes(d, x), Unmapped(d)' \/ call'[d].do = "unmap"
      PROVE  IsCopy(x)'
  <2>1. IsCopy(x)
    BY <1>1 DEF PagingInv, CoreInv, MadeOK
  <2>2. \A i \in KernelIndexes : entry'[BootRoot][i].frame = entry[BootRoot][i].frame
    BY UpperStays DEF Mild
  <2> QED  BY <1>1, <2>1, <2>2 DEF IsCopy
<1>2. \A x \in Frames : Makes(d, x) =>
        Untouched(g, h, x) /\ (Unmapped(d)' \/ call'[d].do = "unmap" => IsCopy(x)')
  BY <1>1
<1> QED  BY <1>2, MadeWith

\* The other cores' frames.
LEMMA OthersFrames ==
  ASSUME NEW g, PagingInv(g), NEW h, NEW c \in Cores, Mild(g, h, c), Quiet(g, h, c), Fresh(c),
         NEW d \in Cores \ {c}
  PROVE  CarriedOK(h, d)' /\ MadeOK(h, d)'
<1>1. \A e \in Cores \ {c} : call'[e] = call[e] /\ cr3'[e] = cr3[e] /\ making'[e] = making[e]
  BY DEF Mild, Alone
<1>2. \A e \in Cores \ {c} : /\ Making(e, Inside)' <=> Making(e, Inside)
                             /\ Making(e, Later)' <=> Making(e, Later)
                             /\ Unmapped(e)' <=> Unmapped(e)
                             /\ \A x : /\ Carries(e, x)' <=> Carries(e, x)
                                       /\ Makes(e, x)' <=> Makes(e, x)
  BY <1>1 DEF Making, Unmapped, Carries, Makes
<1>3. \A e \in Cores, x \in Frames : Taken(e, x)' => Taken(e, x) \/ x \in free
  BY <1>2 DEF Fresh, Taken
<1>4. \A x \in Frames : Carries(d, x)' => Carries(d, x) /\ Untouched(g, h, x)
  BY <1>2 DEF Quiet, Taken
<1>5. CarriedOK(h, d)'
  BY <1>1, <1>2, <1>3, <1>4, CarriedOn
<1>6. \A x \in Frames : Makes(d, x) => Untouched(g, h, x) /\ entry'[x] = entry[x]
  BY DEF Quiet, Taken
<1>7. MadeOK(h, d)'
  <2>1. /\ d \in Cores /\ making'[d] = making[d] /\ cr3'[d] = cr3[d]
        /\ Making(d, Later)' => Making(d, Later)
        /\ Making(d, Inside)' <=> Making(d, Inside)
        /\ Unmapped(d)' => Unmapped(d)
        /\ call'[d].do = "unmap" => Unmapped(d) \/ call[d].do = "unmap"
    BY <1>1, <1>2
  <2> QED  BY <2>1, <1>6, MadeOn
<1> QED  BY <1>5, <1>7

------------------------------------------------------------------------------
(* Steps that leave the tables as they are                                 *)

\* No table is changed in what is present and where it leads.
SameTree(g) == \A f \in Frames, i \in Entries : g.lv[f] > 0 =>
                 entry'[f][i].present = entry[f][i].present
                   /\ entry'[f][i].frame = entry[f][i].frame

\* The invariant of the tables does not see such a step.
LEMMA SameTables ==
  ASSUME NEW g, PagingInv(g), NEW c \in Cores, Alone(c), SameTree(g), ~Clearing(c), ~Clearing(c)'
  PROVE  /\ Grows(g) /\ Keeps(g, g) /\ Cleared(g)' = Cleared(g) /\ Uncleared' = Uncleared
         /\ \A f \in Frames, i \in Entries : /\ LeadsOn(g, f, i)' <=> LeadsOn(g, f, i)
                                             /\ Leaf(g, f, i)' <=> Leaf(g, f, i)
                                             /\ f \in Cleared(g)
                                                  => entry'[f][i].frame = entry[f][i].frame
         /\ \A x : Mapped(g, x)' <=> Mapped(g, x)
<1>1. Grows(g) /\ Keeps(g, g)
  BY DEF SameTree, Grows, Keeps, Cleared
<1>2. Uncleared' = Uncleared
  <2>1. \A d \in Cores : /\ Clearing(d)' <=> Clearing(d)
                         /\ Clearing(d) => Target(d)' = Target(d)
    <3> TAKE d \in Cores
    <3>1. CASE d = c
      BY <3>1
    <3>2. CASE d # c
      BY <1>1, <3>2, OtherTables, OtherTargets
    <3> QED  BY <3>1, <3>2
  <2> QED  BY <2>1, UnclearedIs, UnclearedWillBe
<1>3. Cleared(g)' = Cleared(g)
  BY <1>2 DEF Cleared
<1>4. ASSUME NEW f \in Frames, NEW i \in Entries
      PROVE  /\ LeadsOn(g, f, i)' <=> LeadsOn(g, f, i)
             /\ Leaf(g, f, i)' <=> Leaf(g, f, i)
             /\ f \in Cleared(g) => entry'[f][i].frame = entry[f][i].frame
  <2>1. f \in Cleared(g) => entry'[f][i].present = entry[f][i].present
                            /\ entry'[f][i].frame = entry[f][i].frame
    BY DEF Cleared, SameTree
  <2> QED  BY <1>3, <2>1 DEF LeadsOn, Leaf
<1>5. \A x : Mapped(g, x)' <=> Mapped(g, x)
  BY <1>4 DEF Mapped, Leaf
<1> QED  BY <1>1, <1>2, <1>3, <1>4, <1>5

\* The tree is the same tree.
LEMMA SameTreeInv ==
  ASSUME NEW g, PagingInv(g), NEW c \in Cores, Alone(c), SameTree(g), ~Clearing(c), ~Clearing(c)',
         spaces' = spaces, free' \subseteq free
  PROVE  TreeInv(g)' /\ LeafInv(g)'
<1>1. /\ Grows(g) /\ Uncleared' = Uncleared
      /\ \A f \in Frames, i \in Entries : /\ LeadsOn(g, f, i)' <=> LeadsOn(g, f, i)
                                          /\ Leaf(g, f, i)' <=> Leaf(g, f, i)
                                          /\ f \in Cleared(g)
                                               => entry'[f][i].frame = entry[f][i].frame
  BY SameTables
<1>2. \A f \in Frames, i \in Entries : LeadsOn(g, f, i) \/ Leaf(g, f, i) => f \in Cleared(g)
  BY DEF LeadsOn, Leaf
<1>3. SpacesAreTop(g)'
  BY <1>1 DEF PagingInv, TreeInv, SpacesAreTop
<1>4. FreeIsNoTable(g)'
  BY DEF PagingInv, TreeInv, FreeIsNoTable
<1>5. Children(g)'
  BY <1>1, <1>2 DEF PagingInv, TreeInv, Children, IsChild
<1>6. OneParent(g)'
  <2>1. OneParent(g)
    BY DEF PagingInv, TreeInv
  <2> SUFFICES ASSUME NEW f \in Frames, NEW k \in Frames, NEW i \in Entries, NEW j \in Entries,
                      LeadsOn(g, f, i)', LeadsOn(g, k, j)', entry'[f][i].frame = entry'[k][j].frame
               PROVE  i = j /\ (f = k \/ (f \in spaces /\ k \in spaces /\ i \in KernelIndexes))
    BY DEF OneParent
  <2>2. LeadsOn(g, f, i) /\ LeadsOn(g, k, j) /\ entry[f][i].frame = entry[k][j].frame
    BY <1>1, <1>2
  <2> QED  BY <2>1, <2>2 DEF OneParent
<1>7. UpperIsShared'
  <2> SUFFICES ASSUME NEW s \in spaces, NEW i \in KernelIndexes
               PROVE  entry'[s][i].present /\ entry'[s][i].frame = entry'[BootRoot][i].frame
    BY DEF UpperIsShared
  <2>1. s \in Frames /\ g.lv[s] > 0 /\ i \in Entries
    BY SpaceIs, Sizes
  <2>2. entry'[s][i].present = entry[s][i].present /\ entry'[s][i].frame = entry[s][i].frame
    BY <2>1 DEF SameTree
  <2>3. entry'[BootRoot][i].frame = entry[BootRoot][i].frame
    BY <1>1, UpperStays
  <2> QED  BY <2>2, <2>3 DEF PagingInv, TreeInv, UpperIsShared
<1>8. LeafInv(g)'
  <2>1. LeafInv(g)
    BY DEF PagingInv
  <2> SUFFICES ASSUME NEW f \in Frames, NEW i \in Entries, Leaf(g, f, i)', NEW x,
                      x = entry'[f][i].frame
               PROVE  IF x \in Frames
                      THEN /\ g.lv[x] = 0 /\ x \notin free'
                           /\ \A k \in Frames, j \in Entries :
                                Leaf(g, k, j)' /\ entry'[k][j].frame = x => k = f /\ j = i
                      ELSE g.base[f] * Width + i \in Devices
    BY DEF LeafInv
  <2>2. Leaf(g, f, i) /\ entry[f][i].frame = x
    BY <1>1, <1>2
  <2>3. \A k \in Frames, j \in Entries :
          Leaf(g, k, j)' /\ entry'[k][j].frame = x => Leaf(g, k, j) /\ entry[k][j].frame = x
    BY <1>1, <1>2
  <2>4. IF x \in Frames
        THEN /\ g.lv[x] = 0 /\ x \notin free
             /\ \A k \in Frames, j \in Entries :
                  Leaf(g, k, j) /\ entry[k][j].frame = x => k = f /\ j = i
        ELSE g.base[f] * Width + i \in Devices
    BY <2>1, <2>2 DEF LeafInv
  <2> QED  BY <2>3, <2>4
<1> QED  BY <1>3, <1>4, <1>5, <1>6, <1>7, <1>8 DEF TreeInv

\* What is mapped stays mapped when nothing is unmapped.
LEMMA MappedStay ==
  ASSUME NEW g, PagingInv(g), NEW h, NEW c \in Cores, Mild(g, h, c), NEW s, NEW p, NEW x,
         <<s, p, x>> \in pages,
         LET t == TableIn(entry, s, p, 1)
             i == Index(1, p)
         IN entry'[t][i].present = entry[t][i].present /\ entry'[t][i].frame = entry[t][i].frame
  PROVE  /\ s \in spaces' /\ p \in Pages /\ Path(h, s, p, 1)'
         /\ LET e == entry'[TableIn(entry', s, p, 1)][Index(1, p)] IN e.present /\ e.frame = x
<1>1. /\ s \in spaces /\ p \in Pages /\ Path(g, s, p, 1)
      /\ LET e == entry[TableIn(entry, s, p, 1)][Index(1, p)] IN e.present /\ e.frame = x
  BY DEF PagingInv, PageInv
<1>2. Grows(g) /\ Keeps(g, h) /\ spaces \subseteq spaces' /\ \A f \in Cleared(g) : f \in Cleared(h)'
  BY ClearedStays DEF Mild
<1>3. p \in Nat /\ 1 \in 1..Levels
  BY <1>1, TopDigit, Sizes
<1>4. TableIn(entry', s, p, 1) = TableIn(entry, s, p, 1)
  BY <1>1, <1>2, <1>3, WaysStay
<1>5. PathIn(entry', Cleared(h)', h, s, p, 1)
  BY <1>1, <1>2, <1>3, PathsStay
<1> QED  BY <1>1, <1>2, <1>4, <1>5 DEF Path

\* The last table of a way.
LEMMA WayEnd ==
  ASSUME NEW g, NEW s, NEW p \in Pages, Path(g, s, p, 1)
  PROVE  LET t == TableIn(entry, s, p, 1) IN
         /\ t \in Cleared(g) /\ t \in Frames /\ g.lv[t] = 1 /\ Index(1, p) \in Entries
         /\ g.own[t] = Owner(s, p) /\ g.base[t] * Width + Index(1, p) = p
<1>1. 1 \in 1..Levels /\ 1 < Levels /\ p \in Nat
  BY Sizes, TopDigit
<1>2. PathIn(entry, Cleared(g), g, s, p, 1)
  BY DEF Path
<1>3. g.base[TableIn(entry, s, p, 1)] * Width + Index(1, p) = p
  BY <1>1, <1>2, PageAt
<1>4. Index(1, p) \in Entries
  BY <1>1, Digits
<1> QED  BY <1>1, <1>2, <1>3, <1>4 DEF PathIn, Cleared

\* Such a step keeps the invariant when it is right for its core.
Same(g, c) == /\ Mild(g, g, c)
              /\ \A x \in Frames : /\ x \notin free /\ g.lv[x] = 0 => Untouched(g, g, x)
                                   /\ Mapped(g, x)' <=> Mapped(g, x)

\* A step that keeps the tables keeps the invariant when it is right for its core.
LEMMA SameStep ==
  ASSUME NEW g, PagingInv(g), NEW c \in Cores, Alone(c), SameTree(g), ~Clearing(c), ~Clearing(c)',
         Unlocks(g, c), NewLocks(c), Fresh(c),
         spaces' = spaces, free' \subseteq free, pages' = pages,
         \A d \in Cores \ {c}, x \in Frames : Taken(d, x) => entry'[x] = entry[x],
         WalkOK(g, c)',
         Same(g, c) => CarriedOK(g, c)' /\ MadeOK(g, c)',
         IInv', Typed', BootInv'
  PROVE  PagingInv(g)'
<1>1. /\ Grows(g) /\ Keeps(g, g)
      /\ \A f \in Frames, i \in Entries : /\ Leaf(g, f, i)' <=> Leaf(g, f, i)
                                          /\ f \in Cleared(g)
                                               => entry'[f][i].frame = entry[f][i].frame
      /\ \A x : Mapped(g, x)' <=> Mapped(g, x)
  BY SameTables
<1>2. Mild(g, g, c)
  BY <1>1 DEF Mild
<1>3. TreeInv(g)' /\ LeafInv(g)'
  BY SameTreeInv
<1>4. ASSUME NEW x \in Frames, x \notin free, g.lv[x] = 0 PROVE Untouched(g, g, x)
  BY <1>1, <1>4 DEF Untouched, Leaf
<1>5. CarriedOK(g, c)' /\ MadeOK(g, c)'
  BY <1>1, <1>2, <1>4 DEF Same
<1>6. ASSUME NEW d \in Cores, NEW x \in Frames, Taken(d, x) PROVE x \notin free /\ g.lv[x] = 0
  BY <1>6 DEF PagingInv, CoreInv, Taken, CarriedOK, MadeOK
<1>7. Quiet(g, g, c)
  BY <1>4, <1>6 DEF Quiet
<1>8. \A d \in Cores : CarriedOK(g, d)' /\ MadeOK(g, d)'
  <2> TAKE d \in Cores
  <2>1. CASE d = c
    BY <2>1, <1>5
  <2>2. CASE d # c
    BY <1>2, <1>7, <2>2, OthersFrames
  <2> QED  BY <2>1, <2>2
<1>9. (\A d \in Cores : WalkOK(g, d)' /\ LocksOK(d)') /\ \A d, e \in Cores : LocksApart(d, e)'
  BY <1>2, WalksStay
<1>10. PageInv(g)'
  <2> SUFFICES ASSUME NEW s, NEW p, NEW x, <<s, p, x>> \in pages
               PROVE  /\ s \in spaces' /\ p \in Pages /\ Path(g, s, p, 1)'
                      /\ LET e == entry'[TableIn(entry', s, p, 1)][Index(1, p)] IN
                         e.present /\ e.frame = x
    BY DEF PageInv
  <2>1. p \in Pages /\ Path(g, s, p, 1)
    BY DEF PagingInv, PageInv
  <2>2. LET t == TableIn(entry, s, p, 1) IN
        t \in Frames /\ g.lv[t] = 1 /\ Index(1, p) \in Entries
    BY <2>1, WayEnd
  <2>3. LET t == TableIn(entry, s, p, 1)
            i == Index(1, p)
        IN entry'[t][i].present = entry[t][i].present /\ entry'[t][i].frame = entry[t][i].frame
    BY <2>2 DEF SameTree
  <2> QED  BY <1>2, <2>3, MappedStay
<1>11. PagesAre'
  BY DEF PagingInv, PagesAre
<1>12. g \in Ghosts
  BY DEF PagingInv
<1> QED
  BY <1>3, <1>8, <1>9, <1>10, <1>11, <1>12 DEF PagingInv, CoreInv

------------------------------------------------------------------------------
(* Steps of a walk that write no table                                     *)

\* What a core goes on to is a call.
LEMMA TypedOn ==
  ASSUME NEW g, PagingInv(g), NEW c \in Cores, NEW k, AnyCall(k), CallOK(k), Goes(c, k),
         entry' \in [Frames -> [Entries -> EntryType]], free' \subseteq Frames,
         spaces' \subseteq Frames \ free', cr3' \in [Cores -> spaces'],
         mutex' \in Cores \cup {Null},
         booting' = booting, calls' \in Nat, fault' = fault
  PROVE  Typed' /\ call'[c] = k /\ \A d \in Cores \ {c} : call'[d] = call[d]
<1>1. call = [d \in Cores |-> call[d]] /\ \A d \in Cores : AnyCall(call[d]) /\ CallOK(call[d])
  BY DEF PagingInv, Typed
<1>2. call' = [call EXCEPT ![c] = k]
  BY DEF Goes
<1>3. /\ call' = [d \in Cores |-> call'[d]] /\ call'[c] = k
      /\ \A d \in Cores \ {c} : call'[d] = call[d]
  BY <1>1, <1>2
<1>4. \A d \in Cores : AnyCall(call'[d]) /\ CallOK(call'[d])
  BY <1>1, <1>3
<1>5. booting' \in BOOLEAN /\ fault' \in {"none", "panic"}
  BY DEF PagingInv, Typed
<1> QED  BY <1>3, <1>4, <1>5 DEF Typed, AnyCall, QueryCall, CallOK, RangeOK, MapOK, UnmapOK

\* One entry is written.
Writes(t, i, e) == entry' = [entry EXCEPT ![t][i] = e]

\* What the write of one entry leaves.
LEMMA OneEntry ==
  ASSUME NEW g, PagingInv(g), NEW t \in Frames, NEW i \in Entries, NEW e \in EntryType,
         Writes(t, i, e)
  PROVE  /\ entry' \in [Frames -> [Entries -> EntryType]] /\ entry'[t][i] = e
         /\ \A f \in Frames, j \in Entries : f # t \/ j # i => entry'[f][j] = entry[f][j]
         /\ \A f \in Frames : f # t => entry'[f] = entry[f]
<1>1. entry \in [Frames -> [Entries -> EntryType]]
  BY DEF PagingInv, Typed
<1> QED  BY <1>1 DEF Writes

\* It leads where it led.
LEMMA SameEntry ==
  ASSUME NEW g, PagingInv(g), NEW t \in Frames, NEW i \in Entries, NEW e \in EntryType,
         Writes(t, i, e),
         e.present = entry[t][i].present, e.frame = entry[t][i].frame
  PROVE  SameTree(g)
BY OneEntry DEF SameTree

\* An entry that is not locked does not lead to a table that is to be cleared.
LEMMA Unclaimed ==
  ASSUME NEW g, PagingInv(g), NEW f \in Frames, NEW i \in Entries, LeadsOn(g, f, i),
         ~entry[f][i].locked
  PROVE  entry[f][i].frame \in Cleared(g) /\ IsChild(spaces, g, f, i, entry[f][i].frame)
<1>1. IsChild(spaces, g, f, i, entry[f][i].frame)
  BY DEF PagingInv, TreeInv, Children
<1>2. entry[f][i].frame \in Frames /\ g.lv[entry[f][i].frame] > 0
  <2>1. g.lv[f] \in 0..Levels /\ g.lv[f] >= 2
    BY DEF PagingInv, Ghosts, LeadsOn
  <2> QED  BY <1>1, <2>1, Sizes DEF IsChild
<1>3. ASSUME NEW d \in Cores, Clearing(d), entry[f][i].frame = Target(d) PROVE FALSE
  <2>1. /\ LeadsOn(g, Here(d), Slot(d)) /\ Here(d) \in Frames /\ Slot(d) \in Entries
        /\ (Here(d) \in spaces => Slot(d) \notin KernelIndexes) /\ call[d].level \in Locks(d)
    BY <1>3, ClearingIs
  <2>2. i = Slot(d) /\ f = Here(d)
    BY <1>3, <2>1 DEF Target, PagingInv, TreeInv, OneParent
  <2>3. entry[Here(d)][Slot(d)].locked
    BY <2>1 DEF PagingInv, CoreInv, LocksOK, Here, Slot
  <2> QED  BY <2>2, <2>3
<1>4. entry[f][i].frame \notin Uncleared
  BY <1>3, UnclearedIs
<1> QED  BY <1>1, <1>2, <1>4 DEF Cleared

\* The frame of a walk that goes on.
LEMMA GoingOn ==
  ASSUME NEW g, PagingInv(g), NEW h, NEW c \in Cores, Mild(g, h, c),
         making'[c] = making[c], cr3'[c] = cr3[c],
         call[c].do \in Walks, call'[c].do = call[c].do, call'[c].then = call[c].then,
         call[c].do = "map" /\ call'[c].step # "done" =>
           call[c].step # "done" /\ (call'[c].phys \in Frames => call'[c].phys = call[c].phys),
         call[c].do = "unmap" => call'[c].step # "done",
         \A x \in Frames : Taken(c, x) => Untouched(g, h, x) /\ entry'[x] = entry[x]
  PROVE  CarriedOK(h, c)' /\ MadeOK(h, c)'
<1>1. /\ Making(c, Inside)' <=> Making(c, Inside)
      /\ Making(c, Later)' => Making(c, Later)
      /\ ~Unmapped(c)'
      /\ \A x \in Frames : Carries(c, x)' => Carries(c, x)
  BY DEF Making, Unmapped, Carries, Walks
<1>2. \A e \in Cores \ {c}, x \in Frames : Taken(e, x)' => Taken(e, x) \/ x \in free
  BY DEF Mild, Alone, Taken, Carries, Makes, Making
<1>3. \A x \in Frames : Carries(c, x)' => Carries(c, x) /\ Untouched(g, h, x)
  BY <1>1 DEF Taken
<1>4. \A x \in Frames : Makes(c, x) => Untouched(g, h, x) /\ entry'[x] = entry[x]
  BY DEF Taken
<1>5. CarriedOK(h, c)'
  BY <1>1, <1>2, <1>3, CarriedOn
<1>6. MadeOK(h, c)'
  <2>1. Unmapped(c)' => Unmapped(c)
    BY <1>1
  <2>2. call'[c].do = "unmap" => Unmapped(c) \/ call[c].do = "unmap"
    OBVIOUS
  <2> QED  BY <1>1, <1>4, <2>1, <2>2, MadeOn
<1> QED  BY <1>5, <1>6

\* It is not a new one.
LEMMA NotFresh ==
  ASSUME NEW c, making'[c] = making[c],
         call[c].do \in Walks, call'[c].do = call[c].do, call'[c].then = call[c].then,
         call[c].do = "map" /\ call'[c].step # "done" =>
           call[c].step # "done" /\ (call'[c].phys \in Frames => call'[c].phys = call[c].phys)
  PROVE  Fresh(c)
<1>1. Making(c, Inside)' <=> Making(c, Inside)
  BY DEF Making, Walks
<1>2. \A x \in Frames : Carries(c, x)' => Carries(c, x)
  BY DEF Carries
<1> QED  BY <1>1, <1>2 DEF Fresh, Taken, Makes

\* Down one level, at an entry that is there.
LEMMA Descend ==
  ASSUME NEW g, PagingInv(g), NEW c \in Cores, Walker(c), call[c].step = "lock",
         NEW t, t = Here(c), NEW i, i = Slot(c), NEW s, s = cr3[c], NEW p, p = call[c].at,
         NEW l \in 2..Levels, l = call[c].level,
         entry[t][i].present, ~entry[t][i].locked,
         NEW e \in EntryType, e.present, e.frame = entry[t][i].frame, e.locked,
         Writes(t, i, e), Goes(c, Down(c)),
         UNCHANGED <<spaceVars, free, pages, fault, calls>>, IInv'
  PROVE  PagingInv(g)'
<1>1. /\ t \in Cleared(g) /\ t \in Frames /\ g.lv[t] = l /\ i \in Entries
      /\ entry[t][i] \in EntryType
  BY HereIs
<1>2. /\ entry' \in [Frames -> [Entries -> EntryType]] /\ entry'[t][i] = e
      /\ \A f \in Frames, j \in Entries : f # t \/ j # i => entry'[f][j] = entry[f][j]
      /\ \A f \in Frames : f # t => entry'[f] = entry[f]
  BY <1>1, OneEntry
<1>3. SameTree(g)
  BY <1>1, SameEntry DEF EntryType
<1>4. AnyCall(Down(c)) /\ CallOK(Down(c)) /\ Down(c).do = call[c].do
      /\ Down(c).then = call[c].then /\ Down(c).step = "lock" /\ Down(c).level = l - 1
      /\ Down(c).at = p /\ (call[c].do = "map" => Down(c).phys = call[c].phys)
  <2>1. call[c].do \in {"map", "unmap"} /\ CallOK(call[c]) /\ l - 1 \in 1..Levels
    BY CallIs, Sizes DEF Walker
  <2>2. CASE call[c].do = "map"
    <3>1. call[c] \in MapCall
      BY <2>2, CallIs
    <3>2. Down(c) \in MapCall /\ Down(c).do = "map" /\ Down(c).step = "lock"
          /\ Down(c).level = l - 1 /\ Down(c).then = call[c].then /\ Down(c).at = call[c].at
          /\ Down(c).end = call[c].end /\ Down(c).upto = call[c].upto
          /\ Down(c).phys = call[c].phys
      BY <2>1, <3>1 DEF MapCall, Down
    <3>3. CallOK(Down(c))
      BY <2>1, <2>2, <3>2 DEF CallOK, RangeOK, MapOK, Walks
    <3> QED  BY <2>2, <3>2, <3>3 DEF AnyCall
  <2>3. CASE call[c].do = "unmap"
    <3>1. call[c] \in UnmapCall
      BY <2>3, CallIs
    <3>2. Down(c) \in UnmapCall /\ Down(c).do = "unmap" /\ Down(c).step = "lock"
          /\ Down(c).level = l - 1 /\ Down(c).then = call[c].then /\ Down(c).at = call[c].at
          /\ Down(c).end = call[c].end /\ Down(c).upto = call[c].upto
          /\ Down(c).push = call[c].push
      BY <2>1, <3>1 DEF UnmapCall, Down
    <3>3. CallOK(Down(c))
      BY <2>1, <2>3, <3>2 DEF CallOK, RangeOK, UnmapOK, Walks
    <3> QED  BY <2>3, <3>2, <3>3 DEF AnyCall
  <2> QED  BY <2>1, <2>2, <2>3
<1>5. Typed' /\ call'[c] = Down(c) /\ \A d \in Cores \ {c} : call'[d] = call[d]
  <2>1. /\ free' \subseteq Frames /\ spaces' \subseteq Frames \ free' /\ cr3' \in [Cores -> spaces']
        /\ mutex' \in Cores \cup {Null} /\ booting' = booting /\ calls' \in Nat /\ fault' = fault
    BY DEF PagingInv, Typed, spaceVars
  <2> QED  BY <1>2, <1>4, <2>1, TypedOn
<1>6. /\ Alone(c) /\ ~Clearing(c) /\ ~Clearing(c)' /\ Walker(c)' /\ cr3'[c] = s
      /\ making'[c] = making[c]
  BY <1>4, <1>5 DEF Alone, Clearing, Walker, spaceVars
<1>7. p \in Pages /\ p \in Nat /\ l \in 1..Levels /\ l - 1 \in 1..Levels
  BY WalkerIs, Sizes
<1>8. Grows(g) /\ Keeps(g, g) /\ Cleared(g)' = Cleared(g)
  BY <1>3, <1>6, SameTables
<1>9. Path(g, s, p, l)
  BY DEF PagingInv, CoreInv, WalkOK
<1>10. \A k \in l..Levels : TableOf(c, k)' = TableOf(c, k) /\ IndexOf(c, k)' = IndexOf(c, k)
  <2>1. \A k \in l..Levels : TableIn(entry', s, p, k) = TableIn(entry, s, p, k)
    <3>1. Grows(g) /\ p \in Nat /\ l \in 1..Levels /\ Path(g, s, p, l)
      BY <1>7, <1>8, <1>9
    <3> QED  BY <3>1, WaysStay
  <2> QED  BY <1>4, <1>5, <1>6, <2>1 DEF TableOf, IndexOf
<1>11. Locks(c)' = l..Levels /\ Locks(c) = (l + 1)..Levels
  BY <1>4, <1>5, <1>6, <1>7, Sizes DEF Locks, Clearing, Walker
<1>12. Unlocks(g, c)
  BY <1>2 DEF Unlocks, Cleared
<1>13. NewLocks(c)
  <2> SUFFICES ASSUME NEW k \in l..Levels
               PROVE  /\ entry'[TableOf(c, k)][IndexOf(c, k)].locked
                      /\ ~entry[TableOf(c, k)][IndexOf(c, k)].locked \/ k \in Locks(c)
    BY <1>10, <1>11 DEF NewLocks
  <2>1. CASE k = l
    BY <2>1, <1>2 DEF Here, Slot
  <2>2. CASE k # l
    <3>1. k \in Locks(c)
      BY <2>2, <1>11, <1>7
    <3>2. entry[TableOf(c, k)][IndexOf(c, k)].locked /\ TableOf(c, k) \in Frames
          /\ IndexOf(c, k) \in Entries
      BY <3>1, LockIs DEF PagingInv, CoreInv, LocksOK
    <3> QED  BY <1>2, <3>1, <3>2
  <2> QED  BY <2>1, <2>2
<1>14. WalkOK(g, c)'
  <2>1. PathIn(entry', Cleared(g)', g, s, p, l)
    BY <1>7, <1>8, <1>9, PathsStay
  <2>2. LeadsOn(g, t, i)
    BY <1>1 DEF LeadsOn
  <2>3. entry[t][i].frame \in Cleared(g) /\ IsChild(spaces, g, t, i, entry[t][i].frame)
    BY <1>1, <2>2, Unclaimed
  <2>4. TableIn(entry', s, p, l) = t /\ Index(l, p) = i
    <3>1. l \in l..Levels
      BY <1>7, Sizes
    <3>2. TableIn(entry', s, p, l) = TableIn(entry, s, p, l)
      BY <1>7, <1>8, <1>9, <3>1, WaysStay
    <3> QED  BY <3>2 DEF Here, TableOf, Slot, IndexOf
  <2>5. t \in spaces <=> l = Levels
    BY <1>1 DEF PagingInv, TreeInv, SpacesAreTop
  <2>6. PathIn(entry', Cleared(g)', g, s, p, l - 1)
    <3>1. /\ entry'[t][i].present /\ entry'[t][i].frame \in Cleared(g)'
          /\ IsChild(spaces, g, t, i, entry'[t][i].frame)
      BY <1>2, <1>8, <2>3
    <3>2. PICK x : x = entry'[t][i].frame
      OBVIOUS
    <3>3. /\ p \in Pages /\ l \in 2..Levels /\ PathIn(entry', Cleared(g)', g, s, p, l)
          /\ t = TableIn(entry', s, p, l) /\ x = entry'[t][Index(l, p)].frame
          /\ entry'[t][Index(l, p)].present /\ x \in Cleared(g)'
          /\ IsChild(spaces, g, t, Index(l, p), x) /\ (t \in spaces <=> l = Levels)
      BY <1>7, <2>1, <2>4, <2>5, <3>1, <3>2
    <3>4. PathIn(entry', Cleared(g)', g, s, p, l - 1)
      BY ONLY <3>3, PathDown
    <3> QED  BY <3>4
  <2> QED  BY <1>4, <1>5, <1>6, <2>6 DEF WalkOK, Path
<1>15. /\ call[c].do \in Walks /\ call'[c].do = call[c].do /\ call'[c].then = call[c].then
       /\ call[c].do = "map" /\ call'[c].step # "done" =>
            call[c].step # "done" /\ (call'[c].phys \in Frames => call'[c].phys = call[c].phys)
       /\ call[c].do = "unmap" => call'[c].step # "done"
  BY <1>4, <1>5 DEF Walker, Walks
<1>16. \A d \in Cores, x \in Frames : Taken(d, x) => x \notin free /\ g.lv[x] = 0
         /\ entry'[x] = entry[x]
  <2>1. \A d \in Cores, x \in Frames : Taken(d, x) => x \notin free /\ g.lv[x] = 0
    BY DEF PagingInv, CoreInv, Taken, CarriedOK, MadeOK
  <2> QED  BY <1>1, <1>2, <1>7, <2>1
<1>17. ASSUME Same(g, c) PROVE CarriedOK(g, c)' /\ MadeOK(g, c)'
  <2>1. Mild(g, g, c) /\ \A x \in Frames : x \notin free /\ g.lv[x] = 0 => Untouched(g, g, x)
    BY <1>17 DEF Same
  <2> QED  BY <1>6, <1>15, <1>16, <2>1, GoingOn
<1>18. Fresh(c)
  BY <1>6, <1>15, NotFresh
<1>19. BootInv'
  <2>1. ~booting
    BY <1>15 DEF PagingInv, BootInv, Idle, Walks
  <2> QED  BY <2>1 DEF BootInv, spaceVars
<1>20. spaces' = spaces /\ free' = free /\ pages' = pages
  BY DEF spaceVars
<1> QED
  BY <1>3, <1>5, <1>6, <1>12, <1>13, <1>14, <1>16, <1>17, <1>18, <1>19, <1>20, SameStep

\* map at an entry that has its table.
LEMMA MapDescendKeeps ==
  ASSUME NEW g, PagingInv(g), NEW c \in Cores, MapDescend(c), IInv'
  PROVE  PagingInv(g)'
<1>1. /\ Walker(c) /\ call[c].step = "lock" /\ call[c].level \in 2..Levels /\ call[c].do = "map"
      /\ entry[Here(c)][Slot(c)].present /\ ~entry[Here(c)][Slot(c)].locked
      /\ entry' = [entry EXCEPT ![Here(c)][Slot(c)] = Attributed(c, entry[Here(c)][Slot(c)])]
      /\ Goes(c, Down(c)) /\ UNCHANGED <<spaceVars, free, pages, fault, calls>>
  BY EntryOfIs DEF MapDescend, AtLevel, Inner, Unlocked, Walker
<1>2. PICK x \in EntryType : x = entry[Here(c)][Slot(c)]
  BY <1>1, HereIs
<1>3. call[c].user \in BOOLEAN
  BY <1>1, CallIs DEF MapCall
<1>4. PICK e : e = Attributed(c, x)
  OBVIOUS
<1>5. e \in EntryType /\ e.present = x.present /\ e.frame = x.frame /\ e.locked
  BY <1>2, <1>3, <1>4 DEF Attributed, EntryType
<1>6. Writes(Here(c), Slot(c), e)
  BY <1>1, <1>2, <1>4 DEF Writes
<1> QED  BY <1>1, <1>2, <1>5, <1>6, Descend

\* unmap at one.
LEMMA UnmapDescendKeeps ==
  ASSUME NEW g, PagingInv(g), NEW c \in Cores, UnmapDescend(c), ~Panic, IInv'
  PROVE  PagingInv(g)'
<1>1. /\ Walker(c) /\ call[c].step = "lock" /\ call[c].level \in 2..Levels
      /\ entry[Here(c)][Slot(c)].present /\ ~entry[Here(c)][Slot(c)].locked
      /\ entry' = [entry EXCEPT ![Here(c)][Slot(c)] =
                                  [entry[Here(c)][Slot(c)] EXCEPT !.locked = TRUE]]
      /\ Goes(c, Down(c)) /\ UNCHANGED <<spaceVars, free, pages, fault, calls>>
  BY EntryOfIs DEF UnmapDescend, AtLevel, Inner, Unlocked, Walker
<1>2. PICK x \in EntryType : x = entry[Here(c)][Slot(c)]
  BY <1>1, HereIs
<1>3. PICK e : e = [x EXCEPT !.locked = TRUE]
  OBVIOUS
<1>4. e \in EntryType /\ e.present = x.present /\ e.frame = x.frame /\ e.locked
  BY <1>2, <1>3 DEF EntryType
<1>5. Writes(Here(c), Slot(c), e)
  BY <1>1, <1>2, <1>3 DEF Writes
<1> QED  BY <1>1, <1>2, <1>4, <1>5, Descend

------------------------------------------------------------------------------
(* Calls                                                                   *)

\* A step that writes nothing: a core goes on at the top of a walk, or in none.
LEMMA CallStep ==
  ASSUME NEW g, PagingInv(g), NEW c \in Cores, NEW k, AnyCall(k), CallOK(k), Goes(c, k),
         entry' = entry, free' \subseteq free, spaces' = spaces, pages' = pages, fault' = fault,
         booting' = booting, ~booting \/ k = Idle, mutex' \in Cores \cup {Null}, calls' \in Nat,
         cr3' \in [Cores -> spaces],
         \A d \in Cores \ {c} : cr3'[d] = cr3[d] /\ making'[d] = making[d],
         ~Clearing(c), k.do = "map" => k.step # "clear",
         k.do \in {"map", "unmap"} /\ k.step = "lock" => k.level = Levels,
         k.do = "query" /\ k.step = "read" =>
           call[c].do = "query" /\ call[c].step = "read" /\ k.at = call[c].at /\ cr3'[c] = cr3[c],
         call'[c] = k /\ Same(g, c) => CarriedOK(g, c)' /\ MadeOK(g, c)',
         call'[c] = k => Fresh(c), IInv'
  PROVE  PagingInv(g)'
<1>1. Typed' /\ call'[c] = k /\ \A d \in Cores \ {c} : call'[d] = call[d]
  <2>1. /\ entry' \in [Frames -> [Entries -> EntryType]] /\ free' \subseteq Frames
        /\ spaces' \subseteq Frames \ free' /\ cr3' \in [Cores -> spaces']
    BY DEF PagingInv, Typed
  <2> QED  BY <2>1, TypedOn
<1>2. Alone(c) /\ SameTree(g) /\ ~Clearing(c)'
  BY <1>1 DEF Alone, SameTree, Clearing
<1>3. Unlocks(g, c)
  BY DEF Unlocks
<1>4. NewLocks(c)
  <2> SUFFICES ASSUME NEW l \in Locks(c)'
               PROVE  /\ l \in Locks(c) /\ TableOf(c, l)' = TableOf(c, l)
                      /\ IndexOf(c, l)' = IndexOf(c, l)
                      /\ entry'[TableOf(c, l)][IndexOf(c, l)].locked
    BY DEF NewLocks
  <2>1. l \in 1..Levels /\ k.do = "query" /\ k.step = "read" /\ l = Levels
    <3>1. /\ l \in 1..Levels
          /\ (Walker(c)' /\ l > k.level) \/ (k.do = "query" /\ k.step = "read" /\ l = Levels)
      BY <1>1, <1>2 DEF Locks
    <3>2. Walker(c)' => k.level = Levels
      <4>1. k.do = "unmap" => k \in UnmapCall
        BY DEF AnyCall, MapCall, QueryCall, ProcessCall, Idle
      <4> QED  BY <1>1, <4>1 DEF Walker, UnmapCall
    <3> QED  BY <3>1, <3>2, Sizes
  <2>2. l \in Locks(c)
    BY <2>1 DEF Locks
  <2>3. call'[c].at = call[c].at /\ cr3'[c] = cr3[c]
    BY <1>1, <2>1
  <2>4. TableOf(c, l)' = TableOf(c, l) /\ IndexOf(c, l)' = IndexOf(c, l)
    BY <2>3 DEF TableOf, IndexOf
  <2> QED  BY <2>2, <2>4 DEF PagingInv, CoreInv, LocksOK
<1>5. WalkOK(g, c)'
  <2> SUFFICES ASSUME Walker(c)' PROVE Path(g, cr3[c], call[c].at, call[c].level)'
    BY <1>2 DEF WalkOK
  <2>1. k.do \in {"map", "unmap"} /\ k.step = "lock" /\ k.level = Levels
    <3>1. Walker(c)' <=> k.do \in {"map", "unmap"} /\ k.step \in {"lock", "clear"}
      BY <1>1 DEF Walker
    <3>2. k.do = "unmap" => k.step # "clear"
      <4>1. k.do = "unmap" => k \in UnmapCall
        BY DEF AnyCall, MapCall, QueryCall, ProcessCall, Idle
      <4> QED  BY <4>1 DEF UnmapCall
    <3> QED  BY <3>1, <3>2
  <2>2. k.at \in Pages
    <3>1. RangeOK(k) /\ k.at \in Nat /\ k.end \in Nat
      BY <2>1 DEF CallOK, Walks, AnyCall, MapCall, UnmapCall, QueryCall, ProcessCall, Idle
    <3>2. PICK w \in Nat : w = Width^Levels
      BY Powers, Sizes
    <3> QED  BY <2>1, <3>1, <3>2 DEF RangeOK, Pages
  <2>3. Cleared(g)' = Cleared(g)
    BY <1>2, SameTables
  <2>4. cr3'[c] \in Cleared(g) /\ g.lv[cr3'[c]] = Levels /\ g.base[cr3'[c]] = 0
    BY SpaceIs
  <2>5. PathIn(entry', Cleared(g)', g, cr3'[c], k.at, Levels)
    <3>1. PICK s : s = cr3'[c]
      OBVIOUS
    <3> QED  BY <2>2, <2>3, <2>4, <3>1, PathTop
  <2> QED  BY <1>1, <2>1, <2>5 DEF Path
<1>6. BootInv'
  <2>1. ASSUME booting PROVE BootInv'
    <3>1. \A d \in Cores : call[d] = Idle
      BY <2>1 DEF PagingInv, BootInv
    <3>2. \A d \in Cores : call'[d] = Idle
      BY <1>1, <2>1, <3>1
    <3> QED  BY <2>1, <3>2 DEF PagingInv, BootInv
  <2> QED  BY <2>1 DEF BootInv
<1>7. \A d \in Cores \ {c}, x \in Frames : Taken(d, x) => entry'[x] = entry[x]
  OBVIOUS
<1>8. Fresh(c) /\ (Same(g, c) => CarriedOK(g, c)' /\ MadeOK(g, c)')
  BY <1>1
<1> QED  BY <1>1, <1>2, <1>3, <1>4, <1>5, <1>6, <1>7, <1>8, SameStep

------------------------------------------------------------------------------
(* A step that takes a frame, and the end of a walk                        *)

\* The frame that is popped next is nothing else.
LEMMA PoppedIs ==
  ASSUME NEW g, PagingInv(g), free # {}
  PROVE  /\ Popped \in free /\ Popped \in Frames /\ g.lv[Popped] = 0 /\ ~Mapped(g, Popped)
         /\ \A d \in Cores : ~Taken(d, Popped)
<1>1. Popped \in free /\ Popped \in Frames
  <2>1. FreeIsMemory
    BY DEF PagingInv, Typed, FreeIsMemory
  <2> QED  BY <2>1, PoppedIsFree
<1>2. g.lv[Popped] = 0
  BY <1>1 DEF PagingInv, TreeInv, FreeIsNoTable
<1>3. ~Mapped(g, Popped)
  BY <1>1 DEF PagingInv, LeafInv, Mapped
<1>4. \A d \in Cores : ~Taken(d, Popped)
  BY <1>1 DEF PagingInv, CoreInv, CarriedOK, MadeOK, Taken
<1> QED  BY <1>1, <1>2, <1>3, <1>4

\* A frame that is in use is not free.
LEMMA TakenIs ==
  ASSUME NEW g, PagingInv(g), NEW d \in Cores, NEW x \in Frames, Taken(d, x)
  PROVE  x \notin free /\ g.lv[x] = 0
BY DEF PagingInv, CoreInv, Taken, CarriedOK, MadeOK

\* A frame is popped to be mapped.
LEMMA PopStep ==
  ASSUME NEW g, PagingInv(g), NEW c \in Cores, free # {}, NEW x, x = Popped, free' = free \ {x},
         NEW k \in MapCall, CallOK(k), Goes(c, k), k.step = "lock", k.level = Levels, k.phys = x,
         entry' = entry, spaces' = spaces, pages' = pages, fault' = fault,
         booting' = booting, ~booting, mutex' \in Cores \cup {Null}, calls' \in Nat,
         cr3' \in [Cores -> spaces],
         \A d \in Cores \ {c} : cr3'[d] = cr3[d] /\ making'[d] = making[d],
         ~Clearing(c),
         call'[c] = k => /\ Making(c, Inside)' => Makes(c, x)'
                         /\ Same(g, c) => MadeOK(g, c)',
         IInv'
  PROVE  PagingInv(g)'
<1>1. AnyCall(k) /\ k.do = "map"
  BY DEF AnyCall, MapCall
<1>2. /\ x \in Frames /\ x \in free /\ g.lv[x] = 0 /\ ~Mapped(g, x)
      /\ \A d \in Cores : ~Taken(d, x)
  BY PoppedIs
<1>3. ASSUME call'[c] = k, Same(g, c) PROVE CarriedOK(g, c)' /\ MadeOK(g, c)'
  <2>1. \A y : Carries(c, y)' => y = x
    BY <1>2, <1>3 DEF Carries
  <2>2. x \notin free' /\ ~Mapped(g, x)'
    BY <1>2, <1>3 DEF Same
  <2>3. \A d \in Cores \ {c} : ~Carries(d, x)' /\ ~Makes(d, x)'
    BY <1>2, <1>3 DEF Same, Mild, Alone, Taken, Carries, Makes, Making
  <2>4. Making(c, Inside)' => Makes(c, x)'
    BY <1>2, <1>3
  <2> QED  BY <1>2, <1>3, <2>1, <2>2, <2>3, <2>4 DEF CarriedOK
<1>4. ASSUME call'[c] = k PROVE Fresh(c)
  <2>1. \A y : Carries(c, y)' => y = x
    BY <1>2, <1>4 DEF Carries
  <2>2. \A y : Makes(c, y)' => y = x
    BY <1>2, <1>4 DEF Makes
  <2> QED  BY <1>2, <2>1, <2>2 DEF Fresh, Taken
<1>5. free' \subseteq free
  OBVIOUS
<1> QED  BY <1>1, <1>3, <1>4, <1>5, CallStep

\* No frame is taken by a core that maps nothing.
LEMMA NoFrame ==
  ASSUME NEW g, PagingInv(g), NEW c \in Cores, Same(g, c), making'[c] = making[c],
         call'[c].do = "map" => call'[c].step = "done",
         Making(c, Inside) => cr3'[c] = cr3[c],
         Making(c, Later)' => Making(c, Later), Making(c, Inside)' <=> Making(c, Inside),
         Unmapped(c)' => Unmapped(c),
         call'[c].do = "unmap" => Unmapped(c) \/ call[c].do = "unmap", entry' = entry
  PROVE  CarriedOK(g, c)' /\ MadeOK(g, c)'
<1>1. CarriedOK(g, c)'
  BY DEF CarriedOK, Carries
<1>2. \A x \in Frames : Makes(c, x) => Untouched(g, g, x) /\ entry'[x] = entry[x]
  BY TakenIs DEF Same, Taken
<1>3. Mild(g, g, c)
  BY DEF Same
<1> QED  BY <1>1, <1>2, <1>3, MadeOn

\* A core that makes no process has no frame of one.
LEMMA MakesNothing ==
  ASSUME NEW g, NEW c, \A x \in Frames : ~Carries(c, x)', ~Making(c, Later)'
  PROVE  CarriedOK(g, c)' /\ MadeOK(g, c)' /\ Fresh(c)
<1>1. ~Making(c, Inside)'
  BY DEF Making, Later, Inside
<1> QED  BY <1>1 DEF CarriedOK, MadeOK, Fresh, Taken, Makes

\* A walk ends: what it was for goes on.
LEMMA ReturnKeeps ==
  ASSUME NEW g, PagingInv(g), NEW c \in Cores, Return(c), ~Panic, IInv'
  PROVE  PagingInv(g)'
<1>1. /\ call[c].do \in Walks /\ call[c].step = "done" /\ RangeOK(call[c]) /\ ~Clearing(c)
      /\ UNCHANGED spaceVars /\ fault' = fault /\ calls' = calls /\ entry' = entry /\ pages' = pages
      /\ call[c].at = call[c].end /\ call[c].at \in Nat /\ call[c].upto \in Nat
      /\ call[c].end \in Nat
  <2>1. call[c].do \in {"map", "unmap", "query"} /\ call[c].step = "done"
    BY DEF Return
  <2>2. call[c].at \in Nat /\ call[c].upto \in Nat /\ call[c].end \in Nat
    BY <2>1, CallIs DEF MapCall, UnmapCall, QueryCall
  <2>3. RangeOK(call[c])
    BY <2>1, CallIs DEF CallOK, Walks
  <2>4. /\ UNCHANGED spaceVars /\ fault' = fault /\ calls' = calls /\ entry' = entry
        /\ pages' = pages
    BY DEF Return, PopAndMap
  <2> QED  BY <2>1, <2>2, <2>3, <2>4 DEF RangeOK, Walks, Clearing
<1>2. /\ ~booting /\ booting' = booting /\ spaces' = spaces /\ mutex' \in Cores \cup {Null}
      /\ calls' \in Nat /\ cr3' = cr3 /\ cr3' \in [Cores -> spaces] /\ making' = making
  <2>1. ~booting
    BY <1>1 DEF PagingInv, BootInv, Idle, Walks
  <2> QED  BY <1>1, <2>1 DEF PagingInv, Typed, spaceVars
<1>3. CASE call[c].at < call[c].upto
  <2>1. /\ free # {} /\ free' = free \ {Popped}
        /\ Goes(c, Mapping(call[c].at, call[c].at + 1, Popped, call[c].user, call[c].upto,
                           call[c].then))
    BY <1>1, <1>3 DEF Return, PopAndMap
  <2>2. call[c].do = "map" /\ call[c].then \in {"return", "leave"}
    <3>1. call[c].do = "map"
      BY <1>1, <1>3 DEF RangeOK
    <3>2. call[c] \in MapCall
      BY <3>1, CallIs
    <3> QED  BY <1>1, <1>3, <3>1, <3>2 DEF RangeOK, MapCall
  <2>3. PICK x, k : x = Popped /\ k = Mapping(call[c].at, call[c].at + 1, x, call[c].user,
                                            call[c].upto, call[c].then)
    OBVIOUS
  <2>4. x \in Frames /\ x \in Nat
    BY <2>1, <2>3, PoppedIs, Sizes
  <2>5. k \in MapCall /\ k.step = "lock" /\ k.level = Levels /\ k.phys = x /\ k.do = "map"
        /\ k.at = call[c].at /\ k.end = call[c].at + 1 /\ k.upto = call[c].upto
        /\ k.then = call[c].then
    <3>1. call[c].user \in BOOLEAN
      BY <2>2, CallIs DEF MapCall
    <3> QED  BY <1>1, <2>2, <2>3, <2>4, <3>1, Sizes DEF Mapping, MapCall
  <2>6. CallOK(k)
    <3>1. PICK w \in Nat : w = Width^Levels
      BY Powers, Sizes
    <3>2. call[c].upto - 1 \in Pages
      BY <1>1 DEF RangeOK
    <3>3. RangeOK(k)
      BY <1>1, <1>3, <2>2, <2>5, <3>1, <3>2 DEF RangeOK, Pages
    <3>4. MapOK(k)
      BY <2>4, <2>5 DEF MapOK
    <3> QED  BY <2>5, <3>3, <3>4 DEF CallOK
  <2>7. ASSUME call'[c] = k
        PROVE  /\ Making(c, Inside)' => Makes(c, x)'
               /\ Same(g, c) => MadeOK(g, c)'
    <3>1. ~Making(c, Inside)' /\ ~Making(c, Inside) /\ (Making(c, Later)' <=> Making(c, Later))
      BY <1>1, <2>2, <2>5, <2>7 DEF Making, Inside, Walks
    <3>2. MadeOK(g, c)'
      BY <1>2, <3>1 DEF MadeOK, Makes, PagingInv, CoreInv
    <3> QED  BY <3>1, <3>2
  <2> QED  BY <1>1, <1>2, <2>1, <2>3, <2>5, <2>6, <2>7, PopStep
<1>4. CASE call[c].at = call[c].upto
  <2>1. /\ free' = free
        /\ Goes(c, IF call[c].then = "return" THEN Idle
             ELSE [do |-> "process", step |-> call[c].then])
    BY <1>1, <1>4 DEF Return, PopAndMap
  <2>2. call[c].then \in {"return", "zero", "set_foreign", "leave"}
    BY <1>1, CallIs DEF Walks, MapCall, UnmapCall, QueryCall
  <2>3. PICK k : k = IF call[c].then = "return" THEN Idle
                     ELSE [do |-> "process", step |-> call[c].then]
    OBVIOUS
  <2>4. CASE call[c].then = "return"
    <3>1. k = Idle /\ AnyCall(k) /\ CallOK(k) /\ k.do = "idle"
      BY <2>3, <2>4 DEF Idle, AnyCall, CallOK, Walks
    <3>2. ASSUME call'[c] = k PROVE CarriedOK(g, c)' /\ MadeOK(g, c)' /\ Fresh(c)
      <4>1. ~Making(c, Later)'
        BY <3>1, <3>2 DEF Making, Walks
      <4>2. \A x \in Frames : ~Carries(c, x)'
        BY <3>1, <3>2 DEF Carries
      <4> QED  BY <4>1, <4>2, MakesNothing
    <3> QED  BY <1>1, <1>2, <2>1, <2>3, <3>1, <3>2, CallStep
  <2>5. CASE call[c].then # "return"
    <3>1. AnyCall(k) /\ CallOK(k) /\ k.do = "process" /\ k.step = call[c].then
      <4>1. k = [do |-> "process", step |-> call[c].then]
        BY <2>3, <2>5
      <4> QED  BY <2>2, <2>5, <4>1 DEF AnyCall, ProcessCall, Later, CallOK, Walks
    <3>2. ASSUME call'[c] = k
          PROVE  /\ Making(c, Later)' <=> Making(c, Later)
                 /\ Making(c, Inside)' <=> Making(c, Inside)
                 /\ ~Making(c, Inside) \/ (Unmapped(c)' => Unmapped(c))
      <4>1. call[c].then = "set_foreign" => call[c].do = "unmap"
        BY <1>1, CallIs DEF Walks, MapCall, QueryCall
      <4> QED  BY <1>1, <2>2, <2>5, <3>1, <3>2, <4>1 DEF Making, Unmapped, Walks, Later, Inside
    <3>3. ASSUME call'[c] = k, Same(g, c) PROVE CarriedOK(g, c)' /\ MadeOK(g, c)'
      <4>1. CASE Making(c, Inside)
        BY <1>1, <1>2, <3>1, <3>2, <3>3, <4>1, NoFrame
      <4>2. CASE ~Making(c, Inside)
        <5>1. CarriedOK(g, c)'
          BY <3>1, <3>3 DEF CarriedOK, Carries
        <5>2. MadeOK(g, c)'
          BY <1>2, <3>2, <3>3, <4>2 DEF MadeOK, Makes, PagingInv, CoreInv
        <5> QED  BY <5>1, <5>2
      <4> QED  BY <4>1, <4>2
    <3>4. ASSUME call'[c] = k PROVE Fresh(c)
      BY <1>2, <3>1, <3>2, <3>4 DEF Fresh, Taken, Carries, Makes
    <3> QED  BY <1>1, <1>2, <2>1, <2>3, <3>1, <3>3, <3>4, CallStep
  <2> QED  BY <2>4, <2>5
<1> QED  BY <1>1, <1>3, <1>4 DEF Return

\* A core in no walk and in no process is in no call.
LEMMA IdleIs ==
  ASSUME NEW g, PagingInv(g), NEW c \in Cores
  PROVE  /\ call[c].do = "idle" => call[c] = Idle
         /\ call[c].do # "idle" => ~booting
         /\ call[c].do \in {"idle", "query", "process"} => ~Clearing(c)
         /\ Idle.do = "idle"
<1>1. AnyCall(call[c])
  BY CallIs
<1>2. call[c].do = "idle" => call[c] = Idle
  BY <1>1 DEF AnyCall, MapCall, UnmapCall, QueryCall, ProcessCall
<1>3. call[c].do # "idle" => ~booting
  BY DEF PagingInv, BootInv, Idle
<1>4. call[c].do \in {"idle", "query", "process"} => ~Clearing(c)
  BY DEF Clearing
<1> QED  BY <1>2, <1>3, <1>4 DEF Idle

\* A core that runs create_process.
LEMMA AtIs ==
  ASSUME NEW g, PagingInv(g), NEW c \in Cores, NEW a, At(c, a)
  PROVE  /\ ~booting /\ ~Clearing(c) /\ call[c].do = "process" /\ call[c].step = a
         /\ a \in Later => /\ Making(c, Later) /\ making[c][2] \in spaces
                           /\ a \notin Inside => making[c][1] \in spaces
         /\ Making(c, Inside) <=> a \in Inside
<1>1. call[c].do = "process" /\ call[c].step = a
  BY DEF At
<1>2. /\ Making(c, Later) <=> a \in Later
      /\ Making(c, Inside) <=> a \in Inside
  BY <1>1 DEF Making, Walks
<1>3. MadeOK(g, c)
  BY DEF PagingInv, CoreInv
<1> QED  BY <1>1, <1>2, <1>3, IdleIs DEF MadeOK

\* A core begins with what memory is not popped for.
LEMMA BeginStep ==
  ASSUME NEW g, PagingInv(g), NEW c \in Cores, NEW k, AnyCall(k), CallOK(k), Goes(c, k),
         call[c].do = "idle", ~booting, UNCHANGED <<spaceVars, entry, free, pages, fault>>,
         calls' \in Nat, k.do \in Walks => k.then = "return" /\ k.step = "lock" /\ k.level = Levels,
         k.do = "process" => k.step = "clone", k.do = "map" => k.phys \notin Frames, IInv'
  PROVE  PagingInv(g)'
<1>1. ASSUME call'[c] = k PROVE CarriedOK(g, c)' /\ MadeOK(g, c)' /\ Fresh(c)
  <2>1. \A x \in Frames : ~Carries(c, x)'
    BY <1>1 DEF Carries
  <2>2. ~Making(c, Later)'
    BY <1>1 DEF Making, Later
  <2> QED  BY <2>1, <2>2, MakesNothing
<1>2. ~Clearing(c) /\ cr3 \in [Cores -> spaces] /\ mutex \in Cores \cup {Null}
  BY IdleIs DEF PagingInv, Typed
<1>3. /\ k.do = "map" => k.step # "clear"
      /\ k.do \in {"map", "unmap"} /\ k.step = "lock" => k.level = Levels
      /\ ~(k.do = "query" /\ k.step = "read")
  BY DEF Walks
<1> QED  BY <1>1, <1>2, <1>3, CallStep DEF spaceVars

\* The requests.
LEMMA StartKeeps ==
  ASSUME NEW g, PagingInv(g), NEW c \in Cores, NEW r \in Requests, Start(c, r), IInv'
  PROVE  PagingInv(g)'
<1>1. /\ call[c].do = "idle" /\ ~booting /\ calls' = calls + Cost[r.do]
      /\ UNCHANGED <<spaceVars, entry, pages, fault>>
  BY DEF Start
<1>2. calls' \in Nat /\ ~Clearing(c)
  BY <1>1, PagingAssumption, IdleIs DEF PagingInv, Typed
<1>3. r.do # "process" =>
        /\ r.at \in Pages /\ r.at \in Nat /\ r.end \in Nat /\ r.end - 1 \in Pages /\ r.at < r.end
        /\ r.lower \in BOOLEAN
  BY PagingAssumption DEF Pages
<1>4. CASE r.do = "map"
  <2>1. PICK x, k : x = Popped /\ k = Mapping(r.at, r.at + 1, x, r.lower, r.end, "return")
    OBVIOUS
  <2>2. free # {} /\ free' = free \ {x} /\ Goes(c, k)
    BY <1>4, <2>1 DEF Start
  <2>3. x \in Frames /\ x \in Nat
    BY <2>1, <2>2, PoppedIs, Sizes
  <2>4. /\ k \in MapCall /\ k.do = "map" /\ k.step = "lock" /\ k.level = Levels /\ k.phys = x
        /\ k.at = r.at /\ k.end = r.at + 1 /\ k.upto = r.end /\ k.then = "return"
    BY <1>3, <1>4, <2>1, <2>3, Sizes DEF Mapping, MapCall
  <2>5. CallOK(k)
    BY <1>3, <1>4, <2>3, <2>4 DEF CallOK, RangeOK, MapOK
  <2>6. ASSUME call'[c] = k
        PROVE  (Making(c, Inside)' => Makes(c, x)') /\ MadeOK(g, c)'
    <3>1. ~Making(c, Inside)' /\ ~Making(c, Later)'
      BY <2>4, <2>6 DEF Making, Inside, Later
    <3> QED  BY <3>1 DEF MadeOK, Makes
  <2>7. /\ entry' = entry /\ spaces' = spaces /\ pages' = pages /\ fault' = fault
        /\ booting' = booting
        /\ mutex' \in Cores \cup {Null} /\ cr3' \in [Cores -> spaces]
        /\ \A d \in Cores \ {c} : cr3'[d] = cr3[d] /\ making'[d] = making[d]
    BY <1>1 DEF spaceVars, PagingInv, Typed
  <2> QED  BY <1>1, <1>2, <2>1, <2>2, <2>4, <2>5, <2>6, <2>7, PopStep
<1>5. CASE r.do = "device"
  <2>1. PICK k : k = Mapping(r.at, r.end, NFrames + 1, r.lower, r.end, "return")
    OBVIOUS
  <2>2. free' = free /\ Goes(c, k)
    BY <1>5, <2>1 DEF Start
  <2>3. NFrames + 1 \in Nat /\ NFrames + 1 \notin Frames /\ NFrames + 1 > NFrames
    BY Sizes DEF Frames
  <2>4. /\ k \in MapCall /\ k.do = "map" /\ k.step = "lock" /\ k.level = Levels
        /\ k.phys = NFrames + 1
        /\ k.at = r.at /\ k.end = r.end /\ k.upto = r.end /\ k.then = "return"
    BY <1>3, <1>5, <2>1, <2>3, Sizes DEF Mapping, MapCall
  <2>5. r.at..(r.end - 1) \subseteq Devices
    BY <1>5 DEF Devices
  <2>6. CallOK(k) /\ AnyCall(k)
    BY <1>3, <1>5, <2>3, <2>4, <2>5 DEF CallOK, RangeOK, MapOK, AnyCall
  <2> QED  BY <1>1, <1>2, <2>2, <2>3, <2>4, <2>6, BeginStep
<1>6. CASE r.do = "unmap"
  <2>1. PICK k : k = Unmapping(r.at, r.end, r.push, "return")
    OBVIOUS
  <2>2. free' = free /\ Goes(c, k)
    BY <1>6, <2>1 DEF Start
  <2>3. r.push \in BOOLEAN /\ (r.push => r.at..(r.end - 1) \cap (Devices \cup {Scratch}) = {})
    BY <1>6, PagingAssumption
  <2>4. /\ k \in UnmapCall /\ k.do = "unmap" /\ k.step = "lock" /\ k.level = Levels
        /\ k.push = r.push
        /\ k.at = r.at /\ k.end = r.end /\ k.upto = r.end /\ k.then = "return"
    BY <1>3, <1>6, <2>1, <2>3, Sizes DEF Unmapping, UnmapCall
  <2>5. CallOK(k) /\ AnyCall(k)
    BY <1>3, <1>6, <2>3, <2>4 DEF CallOK, RangeOK, UnmapOK, AnyCall
  <2> QED  BY <1>1, <1>2, <2>2, <2>4, <2>5, BeginStep
<1>7. CASE r.do = "query"
  <2>1. PICK k : k = Querying(r.at)
    OBVIOUS
  <2>2. free' = free /\ Goes(c, k)
    BY <1>7, <2>1 DEF Start
  <2>3. /\ QueryCall(k) /\ k.do = "query" /\ k.step = "lock" /\ k.level = Levels
        /\ k.at = r.at /\ k.end = r.at + 1 /\ k.upto = r.at + 1 /\ k.then = "return"
    BY <1>3, <1>7, <2>1, Sizes DEF Querying, QueryCall, QueryFields
  <2>4. CallOK(k) /\ AnyCall(k)
    BY <1>3, <1>7, <2>3 DEF CallOK, RangeOK, AnyCall
  <2> QED  BY <1>1, <1>2, <2>2, <2>3, <2>4, BeginStep
<1>8. CASE r.do = "process"
  <2>1. PICK k : k = [do |-> "process", step |-> "clone"]
    OBVIOUS
  <2>2. free' = free /\ Goes(c, k)
    BY <1>8, <2>1 DEF Start
  <2>3. AnyCall(k) /\ CallOK(k) /\ k.do = "process" /\ k.step = "clone"
    BY <2>1 DEF AnyCall, ProcessCall, CallOK, Walks
  <2> QED  BY <1>1, <1>2, <2>2, <2>3, BeginStep DEF Walks
<1> QED  BY <1>4, <1>5, <1>6, <1>7, <1>8, PagingAssumption

\* get_physical_address goes down.
LEMMA ReadKeeps ==
  ASSUME NEW g, PagingInv(g), NEW c \in Cores, call[c].do = "query", call[c].step = "read",
         call[c].level > 1, Goes(c, [call[c] EXCEPT !.level = call[c].level - 1]),
         UNCHANGED <<spaceVars, entry, free, pages, fault, calls>>, IInv'
  PROVE  PagingInv(g)'
<1>1. QueryCall(call[c]) /\ CallOK(call[c]) /\ ~booting /\ ~Clearing(c)
  BY CallIs, IdleIs
<1>2. PICK k : k = [call[c] EXCEPT !.level = call[c].level - 1]
  OBVIOUS
<1>3. /\ QueryCall(k) /\ k.do = "query" /\ k.step = "read" /\ k.at = call[c].at
      /\ k.end = call[c].end /\ k.upto = call[c].upto /\ k.then = call[c].then /\ k.then = "return"
  <2>1. call[c].level - 1 \in 1..Levels
    BY <1>1, Sizes DEF QueryCall
  <2> QED  BY <1>1, <1>2, <2>1 DEF QueryCall
<1>4. CallOK(k) /\ AnyCall(k)
  BY <1>1, <1>3 DEF CallOK, RangeOK, Walks, AnyCall
<1>5. ASSUME call'[c] = k PROVE CarriedOK(g, c)' /\ MadeOK(g, c)' /\ Fresh(c)
  <2>1. \A x \in Frames : ~Carries(c, x)'
    BY <1>3, <1>5 DEF Carries
  <2>2. ~Making(c, Later)'
    BY <1>3, <1>5 DEF Making, Later
  <2> QED  BY <2>1, <2>2, MakesNothing
<1>6. cr3 \in [Cores -> spaces] /\ mutex \in Cores \cup {Null} /\ calls \in Nat
  BY DEF PagingInv, Typed
<1> QED  BY <1>1, <1>2, <1>3, <1>4, <1>5, <1>6, CallStep DEF spaceVars

\* The scheduler runs a thread of another space.
LEMMA AsidKeeps ==
  ASSUME NEW g, PagingInv(g), NEW c \in Cores, NEW s \in spaces, SetAsid(c, s), IInv'
  PROVE  PagingInv(g)'
<1>1. /\ call[c].do = "idle" /\ cr3' = [cr3 EXCEPT ![c] = s]
      /\ UNCHANGED <<entry, free, call, mutex, making, spaces, pages, booting, fault, calls>>
  BY DEF SetAsid
<1>2. PICK k : k = Idle
  OBVIOUS
<1>3. AnyCall(k) /\ CallOK(k) /\ call[c] = k /\ k.do = "idle" /\ ~Clearing(c)
  BY <1>1, <1>2, IdleIs DEF AnyCall, CallOK, Walks
<1>4. Goes(c, k)
  BY <1>1, <1>3 DEF Goes, PagingInv, Typed
<1>5. /\ cr3' \in [Cores -> spaces] /\ mutex \in Cores \cup {Null} /\ calls \in Nat
      /\ \A d \in Cores \ {c} : cr3'[d] = cr3[d]
  BY <1>1 DEF PagingInv, Typed
<1>6. CarriedOK(g, c)' /\ MadeOK(g, c)' /\ Fresh(c)
  <2>1. \A x \in Frames : ~Carries(c, x)'
    BY <1>1, <1>3 DEF Carries
  <2>2. ~Making(c, Later)'
    BY <1>1, <1>3 DEF Making, Later, Walks
  <2> QED  BY <2>1, <2>2, MakesNothing
<1> QED  BY <1>1, <1>2, <1>3, <1>4, <1>5, <1>6, CallStep

------------------------------------------------------------------------------
(* create_process                                                          *)

\* clone_kernel pops a frame for the new PML4.
LEMMA CloneStarts ==
  ASSUME NEW g, PagingInv(g), NEW c \in Cores, Clone(c), ~Panic, IInv'
  PROVE  PagingInv(g)'
<1>1. PICK x, k : x = Popped /\ k = Mapping(Scratch, Scratch + 1, x, FALSE, Scratch + 1, "zero")
  OBVIOUS
<1>2. /\ free # {} /\ free' = free \ {x} /\ Goes(c, k) /\ mutex' = c /\ At(c, "clone")
      /\ making' = [making EXCEPT ![c] = <<x, cr3[c]>>]
      /\ UNCHANGED <<entry, cr3, foreign, spaces, pages, booting, fault, calls>>
  BY <1>1 DEF Clone
<1>3. ~booting /\ ~Clearing(c)
  BY <1>2, AtIs
<1>4. x \in Frames /\ x \in Nat /\ x \in free /\ g.lv[x] = 0 /\ ~Mapped(g, x)
  BY <1>1, <1>2, PoppedIs, Sizes
<1>5. Scratch \in Pages /\ Scratch \in Nat
  BY PagingAssumption DEF Pages
<1>6. /\ k \in MapCall /\ k.do = "map" /\ k.step = "lock" /\ k.level = Levels /\ k.phys = x
      /\ k.at = Scratch /\ k.end = Scratch + 1 /\ k.upto = Scratch + 1 /\ k.then = "zero"
  BY <1>1, <1>4, <1>5, Sizes DEF Mapping, MapCall
<1>7. CallOK(k)
  BY <1>4, <1>5, <1>6 DEF CallOK, RangeOK, MapOK
<1>8. making'[c] = <<x, cr3[c]>> /\ \A d \in Cores \ {c} : making'[d] = making[d]
  BY <1>2 DEF PagingInv, IInv, Types
<1>9. /\ cr3' \in [Cores -> spaces] /\ mutex' \in Cores \cup {Null} /\ calls' \in Nat
      /\ cr3[c] \in spaces
  BY <1>2 DEF PagingInv, Typed
<1>10. ASSUME call'[c] = k
       PROVE  /\ Making(c, Inside)' => Makes(c, x)'
              /\ Same(g, c) => MadeOK(g, c)'
  <2>1. Making(c, Inside)' /\ ~Unmapped(c)' /\ call'[c].do # "unmap"
    BY <1>6, <1>10 DEF Making, Inside, Unmapped, Walks
  <2>2. \A y : Makes(c, y)' <=> y = x
    BY <1>8, <2>1 DEF Makes
  <2>3. ASSUME Same(g, c) PROVE MadeOK(g, c)'
    <3>1. x \notin free' /\ g.lv[x] = 0 /\ ~Mapped(g, x)'
      BY <1>2, <1>4, <2>3 DEF Same
    <3>2. making'[c][2] \in spaces'
      BY <1>2, <1>8, <1>9
    <3> QED  BY <2>1, <2>2, <3>1, <3>2 DEF MadeOK, Mapped
  <2> QED  BY <2>2, <2>3
<1>11. \A d \in Cores \ {c} : cr3'[d] = cr3[d] /\ making'[d] = making[d]
  BY <1>2, <1>8
<1> QED  BY <1>1, <1>2, <1>3, <1>6, <1>7, <1>9, <1>10, <1>11, PopStep

\* It goes from one step to the next.
LEMMA ThenStep ==
  ASSUME NEW g, PagingInv(g), NEW c \in Cores, NEW a \in {"set_foreign", "release_foreign"},
         At(c, a),
         NEW b \in {"copy", "enter"}, b = "copy" <=> a = "set_foreign", Then(c, b),
         UNCHANGED <<entry, free, cr3, mutex, making, spaces, pages, booting, fault, calls>>, IInv'
  PROVE  PagingInv(g)'
<1>1. PICK k : k = [do |-> "process", step |-> b]
  OBVIOUS
<1>2. Goes(c, k) /\ AnyCall(k) /\ CallOK(k) /\ k.do = "process" /\ k.step = b
  BY <1>1 DEF Then, AnyCall, ProcessCall, Later, CallOK, Walks
<1>3. ~booting /\ ~Clearing(c) /\ call[c].do = "process" /\ call[c].step = a
  BY AtIs
<1>4. cr3' \in [Cores -> spaces] /\ mutex' \in Cores \cup {Null} /\ calls' \in Nat
  BY DEF PagingInv, Typed
<1>5. ASSUME call'[c] = k
      PROVE  /\ Making(c, Later)' /\ Making(c, Later)
             /\ Making(c, Inside)' <=> Making(c, Inside)
             /\ Unmapped(c)
  BY <1>2, <1>3, <1>5 DEF Making, Unmapped, Walks, Later, Inside
<1>6. ASSUME call'[c] = k, Same(g, c) PROVE CarriedOK(g, c)' /\ MadeOK(g, c)'
  BY <1>2, <1>5, <1>6, NoFrame
<1>7. ASSUME call'[c] = k PROVE Fresh(c)
  BY <1>2, <1>5, <1>7 DEF Fresh, Taken, Carries, Makes
<1> QED  BY <1>2, <1>3, <1>4, <1>6, <1>7, CallStep

\* The image is mapped in the new space,
LEMMA EnterStarts ==
  ASSUME NEW g, PagingInv(g), NEW c \in Cores, Enter(c), ~Panic, IInv'
  PROVE  PagingInv(g)'
<1>1. PICK x, k : x = Popped /\ k = Mapping(Image[1], Image[1] + 1, x, TRUE, Image[2], "leave")
  OBVIOUS
<1>2. /\ free # {} /\ free' = free \ {x} /\ Goes(c, k) /\ At(c, "enter")
      /\ cr3' = [cr3 EXCEPT ![c] = making[c][1]]
      /\ UNCHANGED <<entry, foreign, mutex, making, spaces, pages, booting, fault, calls>>
  BY <1>1 DEF Enter
<1>3. ~booting /\ ~Clearing(c) /\ making[c][1] \in spaces /\ making[c][2] \in spaces
  BY <1>2, AtIs DEF Later, Inside
<1>4. x \in Frames /\ x \in Nat
  BY <1>1, <1>2, PoppedIs, Sizes
<1>5. /\ Image[1] \in Pages /\ Image[1] \in Nat /\ Image[2] \in Nat /\ Image[2] - 1 \in Pages
      /\ Image[1] < Image[2]
  BY PagingAssumption DEF Pages
<1>6. /\ k \in MapCall /\ k.do = "map" /\ k.step = "lock" /\ k.level = Levels /\ k.phys = x
      /\ k.at = Image[1] /\ k.end = Image[1] + 1 /\ k.upto = Image[2] /\ k.then = "leave"
  BY <1>1, <1>4, <1>5, Sizes DEF Mapping, MapCall
<1>7. CallOK(k)
  BY <1>4, <1>5, <1>6 DEF CallOK, RangeOK, MapOK
<1>8. /\ cr3' \in [Cores -> spaces] /\ mutex' \in Cores \cup {Null} /\ calls' \in Nat
      /\ \A d \in Cores \ {c} : cr3'[d] = cr3[d] /\ making'[d] = making[d]
  BY <1>2, <1>3 DEF PagingInv, Typed
<1>9. ASSUME call'[c] = k
      PROVE  (Making(c, Inside)' => Makes(c, x)') /\ MadeOK(g, c)'
  <2>1. ~Making(c, Inside)'
    BY <1>6, <1>9 DEF Making, Inside
  <2> QED  BY <1>2, <1>3, <2>1 DEF MadeOK, Makes
<1> QED  BY <1>1, <1>2, <1>3, <1>6, <1>7, <1>8, <1>9, PopStep

\* and left.
LEMMA LeaveKeeps ==
  ASSUME NEW g, PagingInv(g), NEW c \in Cores, Leave(c), IInv'
  PROVE  PagingInv(g)'
<1>1. /\ At(c, "leave") /\ cr3' = [cr3 EXCEPT ![c] = making[c][2]] /\ Goes(c, Idle)
      /\ making' = [making EXCEPT ![c] = <<Null, Null>>]
      /\ UNCHANGED <<entry, free, foreign, mutex, spaces, pages, booting, fault, calls>>
  BY DEF Leave
<1>2. PICK k : k = Idle
  OBVIOUS
<1>3. AnyCall(k) /\ CallOK(k) /\ k.do = "idle"
  BY <1>2, IdleIs DEF AnyCall, CallOK, Walks
<1>4. ~booting /\ ~Clearing(c) /\ making[c][2] \in spaces
  BY <1>1, AtIs DEF Later
<1>5. /\ cr3' \in [Cores -> spaces] /\ mutex \in Cores \cup {Null} /\ calls \in Nat
      /\ \A d \in Cores \ {c} : cr3'[d] = cr3[d] /\ making'[d] = making[d]
  BY <1>1, <1>4 DEF PagingInv, Typed, IInv, Types
<1>6. ASSUME call'[c] = k PROVE CarriedOK(g, c)' /\ MadeOK(g, c)' /\ Fresh(c)
  <2>1. \A x \in Frames : ~Carries(c, x)'
    BY <1>3, <1>6 DEF Carries
  <2>2. ~Making(c, Later)'
    BY <1>3, <1>6 DEF Making, Later, Walks
  <2> QED  BY <2>1, <2>2, MakesNothing
<1> QED  BY <1>1, <1>2, <1>3, <1>4, <1>5, <1>6, CallStep

------------------------------------------------------------------------------
(* Steps that write entries and leave the tree as it is                    *)

\* A core begins or ends a walk, or is in none.
LEMMA WriteStep ==
  ASSUME NEW g, PagingInv(g), NEW c \in Cores, NEW k, AnyCall(k), CallOK(k), Goes(c, k),
         entry' \in [Frames -> [Entries -> EntryType]], SameTree(g), Unlocks(g, c),
         UNCHANGED <<spaceVars, free, pages, fault, calls>>, ~booting, ~Clearing(c),
         k.do = "map" => k.step = "done",
         k.do = "unmap" => k.step = "done" \/ (k.step = "lock" /\ k.level = Levels),
         call'[c] = k => NewLocks(c) /\ Fresh(c),
         call'[c] = k /\ Same(g, c) => CarriedOK(g, c)' /\ MadeOK(g, c)',
         \A d \in Cores \ {c}, x \in Frames : Taken(d, x) => entry'[x] = entry[x], IInv'
  PROVE  PagingInv(g)'
<1>1. Typed' /\ call'[c] = k /\ \A d \in Cores \ {c} : call'[d] = call[d]
  <2>1. /\ free' \subseteq Frames /\ spaces' \subseteq Frames \ free' /\ cr3' \in [Cores -> spaces']
        /\ mutex' \in Cores \cup {Null} /\ booting' = booting /\ calls' \in Nat /\ fault' = fault
    BY DEF PagingInv, Typed, spaceVars
  <2> QED  BY <2>1, TypedOn
<1>2. Alone(c) /\ ~Clearing(c)'
  BY <1>1 DEF Alone, Clearing, spaceVars
<1>3. WalkOK(g, c)'
  <2> SUFFICES ASSUME Walker(c)' PROVE Path(g, cr3[c], call[c].at, call[c].level)'
    BY <1>2 DEF WalkOK
  <2>1. k.do = "unmap" /\ k.step = "lock" /\ k.level = Levels
    BY <1>1 DEF Walker
  <2>2. k.at \in Pages
    <3>1. RangeOK(k) /\ k.at \in Nat /\ k.end \in Nat
      BY <2>1 DEF CallOK, Walks, AnyCall, MapCall, UnmapCall, QueryCall, ProcessCall, Idle
    <3>2. PICK w \in Nat : w = Width^Levels
      BY Powers, Sizes
    <3> QED  BY <2>1, <3>1, <3>2 DEF RangeOK, Pages
  <2>3. Cleared(g)' = Cleared(g)
    BY <1>2, SameTables
  <2>4. cr3[c] \in Cleared(g) /\ g.lv[cr3[c]] = Levels /\ g.base[cr3[c]] = 0 /\ cr3'[c] = cr3[c]
    BY CallIs, SpaceIs DEF spaceVars
  <2>5. PathIn(entry', Cleared(g)', g, cr3[c], k.at, Levels)
    BY <2>2, <2>3, <2>4, PathTop
  <2> QED  BY <1>1, <2>1, <2>4, <2>5 DEF Path
<1>4. BootInv'
  BY DEF BootInv, spaceVars
<1>5. NewLocks(c) /\ Fresh(c) /\ (Same(g, c) => CarriedOK(g, c)' /\ MadeOK(g, c)')
  BY <1>1
<1>6. spaces' = spaces /\ free' = free /\ pages' = pages
  BY DEF spaceVars
<1> QED  BY <1>1, <1>2, <1>3, <1>4, <1>5, <1>6, SameStep

\* The entry get_physical_address locks.
LEMMA QueryIs ==
  ASSUME NEW g, PagingInv(g), NEW c \in Cores, call[c].do = "query"
  PROVE  /\ QueryCall(call[c]) /\ CallOK(call[c]) /\ ~booting /\ ~Clearing(c) /\ ~Walker(c)
         /\ cr3[c] \in Cleared(g) /\ cr3[c] \in Frames /\ IndexOf(c, Levels) \in Entries
         /\ g.lv[cr3[c]] = Levels /\ TableOf(c, Levels) = cr3[c]
         /\ Levels \in 1..Levels /\ entry[cr3[c]][IndexOf(c, Levels)] \in EntryType
<1>1. QueryCall(call[c]) /\ CallOK(call[c]) /\ ~booting /\ ~Clearing(c) /\ cr3[c] \in spaces
  BY CallIs, IdleIs
<1>2. cr3[c] \in Cleared(g) /\ cr3[c] \in Frames /\ g.lv[cr3[c]] = Levels
  BY <1>1, SpaceIs
<1>3. IndexOf(c, Levels) \in Entries /\ Levels \in 1..Levels
  BY <1>1, Digits, Sizes DEF IndexOf, QueryCall
<1>4. TableOf(c, Levels) = cr3[c]
  BY TableTop DEF TableOf
<1> QED  BY <1>1, <1>2, <1>3, <1>4 DEF PagingInv, Typed, Walker

\* It locks it,
LEMMA QueryLockKeeps ==
  ASSUME NEW g, PagingInv(g), NEW c \in Cores, QueryLock(c), IInv'
  PROVE  PagingInv(g)'
<1>1. PICK t, i, e, k : /\ t = cr3[c] /\ i = IndexOf(c, Levels)
                           /\ k = [call[c] EXCEPT !.step = "read"]
                        /\ e = [entry[t][i] EXCEPT !.locked = TRUE]
  OBVIOUS
<1>2. call[c].do = "query" /\ call[c].step = "lock" /\ call[c].level = Levels
  BY DEF QueryLock, AtLevel
<1>3. /\ QueryCall(call[c]) /\ CallOK(call[c]) /\ ~booting /\ ~Clearing(c) /\ ~Walker(c)
      /\ t \in Cleared(g) /\ t \in Frames /\ i \in Entries /\ g.lv[t] = Levels
      /\ TableOf(c, Levels) = t /\ Levels \in 1..Levels /\ entry[t][i] \in EntryType
  BY <1>1, <1>2, QueryIs
<1>4. Here(c) = t /\ Slot(c) = i
  BY <1>1, <1>2, <1>3 DEF Here, Slot
<1>5. /\ ~entry[t][i].locked /\ Writes(t, i, e) /\ Goes(c, k)
      /\ UNCHANGED <<spaceVars, free, pages, fault, calls>>
  <2>1. EntryOf(c) = entry[t][i] /\ \A y : SetEntry(c, y) => Writes(t, i, y)
    BY <1>4, EntryOfIs DEF Writes
  <2>2. ~EntryOf(c).locked /\ SetEntry(c, [EntryOf(c) EXCEPT !.locked = TRUE])
    BY DEF QueryLock, AtLevel, Unlocked
  <2>3. Goes(c, k) /\ UNCHANGED <<spaceVars, free, pages, fault, calls>>
    BY <1>1 DEF QueryLock
  <2> QED  BY <1>1, <2>1, <2>2, <2>3
<1>6. e \in EntryType /\ e.present = entry[t][i].present /\ e.frame = entry[t][i].frame /\ e.locked
  BY <1>1, <1>3 DEF EntryType
<1>7. /\ entry' \in [Frames -> [Entries -> EntryType]] /\ entry'[t][i] = e
      /\ \A f \in Frames, j \in Entries : f # t \/ j # i => entry'[f][j] = entry[f][j]
      /\ \A f \in Frames : f # t => entry'[f] = entry[f]
  BY <1>3, <1>5, <1>6, OneEntry
<1>8. SameTree(g)
  BY <1>3, <1>5, <1>6, SameEntry
<1>9. /\ QueryCall(k) /\ k.do = "query" /\ k.step = "read" /\ k.at = call[c].at
      /\ k.end = call[c].end /\ k.upto = call[c].upto /\ k.then = "return"
      /\ call[c].then = "return"
  BY <1>1, <1>3 DEF QueryCall, QueryFields
<1>10. AnyCall(k) /\ CallOK(k)
  BY <1>2, <1>3, <1>9 DEF AnyCall, CallOK, RangeOK, Walks
<1>11. Unlocks(g, c)
  BY <1>6, <1>7 DEF Unlocks, Cleared
<1>12. ASSUME call'[c] = k PROVE NewLocks(c) /\ CarriedOK(g, c)' /\ MadeOK(g, c)' /\ Fresh(c)
  <2>1. Locks(c)' = {Levels}
    BY <1>3, <1>9, <1>12 DEF Locks, Walker, Clearing
  <2>2. TableOf(c, Levels)' = t /\ IndexOf(c, Levels)' = i
    <3>1. cr3'[c] = t /\ call'[c].at = call[c].at
      BY <1>1, <1>5, <1>9, <1>12 DEF spaceVars
    <3>2. TableIn(entry', cr3'[c], call'[c].at, Levels) = cr3'[c]
      BY TableTop
    <3> QED  BY <1>1, <3>1, <3>2 DEF TableOf, IndexOf
  <2>3. NewLocks(c)
    BY <1>5, <1>6, <1>7, <2>1, <2>2 DEF NewLocks
  <2>4. (\A x \in Frames : ~Carries(c, x)') /\ ~Making(c, Later)'
    BY <1>9, <1>12 DEF Carries, Making, Later
  <2> QED  BY <2>3, <2>4, MakesNothing
<1>13. \A d \in Cores, x \in Frames : Taken(d, x) => entry'[x] = entry[x]
  BY <1>3, <1>7, TakenIs, Sizes
<1> QED  BY <1>3, <1>5, <1>7, <1>8, <1>9, <1>10, <1>11, <1>12, <1>13, WriteStep

\* and unlocks it when it has found the frame.
LEMMA FoundKeeps ==
  ASSUME NEW g, PagingInv(g), NEW c \in Cores, call[c].do = "query", call[c].step = "read",
         entry' = [entry EXCEPT ![cr3[c]][Index(Levels, call[c].at)].locked = FALSE], NEW x,
         Goes(c, [call[c] EXCEPT !.phys = x, !.at = call[c].at + 1, !.step = "done"]),
         UNCHANGED <<spaceVars, free, pages, fault, calls>>, IInv'
  PROVE  PagingInv(g)'
<1>1. PICK t, i, e, k : /\ t = cr3[c] /\ i = IndexOf(c, Levels)
                        /\ k = [call[c] EXCEPT !.phys = x, !.at = call[c].at + 1, !.step = "done"]
                        /\ e = [entry[t][i] EXCEPT !.locked = FALSE]
  OBVIOUS
<1>3. /\ QueryCall(call[c]) /\ CallOK(call[c]) /\ ~booting /\ ~Clearing(c) /\ ~Walker(c)
      /\ t \in Cleared(g) /\ t \in Frames /\ i \in Entries /\ g.lv[t] = Levels
      /\ TableOf(c, Levels) = t /\ Levels \in 1..Levels /\ entry[t][i] \in EntryType
  BY <1>1, QueryIs
<1>5. Writes(t, i, e) /\ Goes(c, k)
  BY <1>1, <1>3 DEF Writes, IndexOf, PagingInv, Typed
<1>6. e \in EntryType /\ e.present = entry[t][i].present /\ e.frame = entry[t][i].frame
  BY <1>1, <1>3 DEF EntryType
<1>7. /\ entry' \in [Frames -> [Entries -> EntryType]] /\ entry'[t][i] = e
      /\ \A f \in Frames, j \in Entries : f # t \/ j # i => entry'[f][j] = entry[f][j]
      /\ \A f \in Frames : f # t => entry'[f] = entry[f]
  BY <1>3, <1>5, <1>6, OneEntry
<1>8. SameTree(g)
  BY <1>3, <1>5, <1>6, SameEntry
<1>9. /\ QueryCall(k) /\ k.do = "query" /\ k.step = "done" /\ k.at = call[c].at + 1
      /\ k.end = call[c].end /\ k.upto = call[c].upto /\ k.then = "return"
      /\ call[c].then = "return"
  <2>1. /\ k.do = call[c].do /\ k.step = "done" /\ k.at = call[c].at + 1 /\ k.then = call[c].then
        /\ k.end = call[c].end /\ k.upto = call[c].upto /\ k.level = call[c].level
    BY <1>1, <1>3 DEF QueryCall, QueryFields
  <2>2. k = [y \in QueryFields |-> k[y]]
    BY <1>1, <1>3 DEF QueryCall
  <2>3. /\ call[c].do = "query" /\ call[c].level \in 1..Levels /\ call[c].at + 1 \in Nat
        /\ call[c].end \in Nat /\ call[c].upto \in Nat /\ call[c].then = "return"
    <3>1. QueryCall(call[c])
      BY <1>3
    <3> QED  BY ONLY <3>1 DEF QueryCall
  <2>4. QueryCall(k)
    BY <2>1, <2>2, <2>3 DEF QueryCall
  <2> QED  BY <2>1, <2>3, <2>4
<1>10. AnyCall(k) /\ CallOK(k)
  <2>1. k.at = k.end
    BY <1>3, <1>9 DEF CallOK
  <2>2. RangeOK(k)
    BY <1>3, <1>9, <2>1 DEF CallOK, RangeOK, Walks
  <2> QED  BY <1>9, <2>2 DEF AnyCall, CallOK
<1>11. Unlocks(g, c)
  <2>1. Levels \in Locks(c) /\ t = TableOf(c, Levels) /\ i = IndexOf(c, Levels)
    BY <1>1, <1>3 DEF Locks
  <2>2. \A f \in Cleared(g) : f \in Frames
    BY DEF Cleared
  <2> QED  BY <1>7, <2>1, <2>2 DEF Unlocks
<1>12. ASSUME call'[c] = k PROVE NewLocks(c) /\ CarriedOK(g, c)' /\ MadeOK(g, c)' /\ Fresh(c)
  <2>1. Locks(c)' = {}
    BY <1>9, <1>12 DEF Locks, Walker, Clearing
  <2>2. NewLocks(c)
    BY <2>1 DEF NewLocks
  <2>4. (\A y \in Frames : ~Carries(c, y)') /\ ~Making(c, Later)'
    BY <1>9, <1>12 DEF Carries, Making, Later
  <2> QED  BY <2>2, <2>4, MakesNothing
<1>13. \A d \in Cores, y \in Frames : Taken(d, y) => entry'[y] = entry[y]
  <2>1. \A d \in Cores, y \in Frames : Taken(d, y) => y # t
    BY <1>3, TakenIs, Sizes
  <2>2. \A d \in Cores, y \in Frames : Taken(d, y) => y # t /\ y \in Frames
    BY <2>1
  <2>3. \A f \in Frames : f # t => entry'[f] = entry[f]
    BY <1>7
  <2> QED  BY ONLY <2>2, <2>3
<1> QED  BY <1>3, <1>5, <1>7, <1>8, <1>9, <1>10, <1>11, <1>12, <1>13, WriteStep

\* A PML4 under construction is one core's, and no table yet.
LEMMA MakesIs ==
  ASSUME NEW g, PagingInv(g), NEW c \in Cores, Making(c, Inside)
  PROVE  LET x == making[c][1] IN
         /\ x \in Frames /\ g.lv[x] = 0 /\ Makes(c, x) /\ x \notin free
         /\ \A d \in Cores \ {c} : ~Taken(d, x)
<1>1. Making(c, Later)
  BY DEF Making, Later, Inside
<1>2. making[c][1] \in Frames
  BY <1>1 DEF PagingInv, IInv, Types
<1>3. Makes(c, making[c][1])
  BY DEF Makes
<1>4. g.lv[making[c][1]] = 0 /\ making[c][1] \notin free
  BY <1>2, <1>3, TakenIs DEF Taken
<1>5. ASSUME NEW d \in Cores \ {c}, Taken(d, making[c][1]) PROVE FALSE
  <2>1. CASE Carries(d, making[c][1])
    BY <1>2, <1>3, <2>1 DEF PagingInv, CoreInv, CarriedOK
  <2>2. CASE Makes(d, making[c][1])
    BY <2>2 DEF Makes, PagingInv, IInv, MutexHeld
  <2> QED  BY <1>5, <2>1, <2>2 DEF Taken
<1> QED  BY <1>2, <1>3, <1>4, <1>5

\* It is cleared through Scratch.
LEMMA ZeroClears ==
  ASSUME NEW g, PagingInv(g), NEW c \in Cores, Zero(c), IInv'
  PROVE  PagingInv(g)'
<1>1. PICK x, k : x = making[c][1] /\ k = Unmapping(Scratch, Scratch + 1, FALSE, "set_foreign")
  OBVIOUS
<1>2. /\ At(c, "zero") /\ entry' = [entry EXCEPT ![x] = EmptyTable] /\ Goes(c, k)
      /\ UNCHANGED <<spaceVars, free, pages, fault, calls>>
  BY <1>1 DEF Zero
<1>3. /\ ~booting /\ ~Clearing(c) /\ call[c].do = "process" /\ call[c].step = "zero"
      /\ Making(c, Later) /\ Making(c, Inside)
  BY <1>2, AtIs DEF Later, Inside
<1>4. /\ x \in Frames /\ g.lv[x] = 0 /\ Makes(c, x) /\ x \notin free
      /\ \A d \in Cores \ {c} : ~Taken(d, x)
  BY <1>1, <1>3, MakesIs
<1>5. EmptyTable \in [Entries -> EntryType] /\ \A i \in Entries : ~EmptyTable[i].present
  BY Sizes DEF EmptyTable, Entry, EntryType, Entries
<1>6. /\ entry' \in [Frames -> [Entries -> EntryType]] /\ entry'[x] = EmptyTable
      /\ \A f \in Frames : f # x => entry'[f] = entry[f]
  BY <1>2, <1>4, <1>5 DEF PagingInv, Typed
<1>7. SameTree(g)
  BY <1>4, <1>6 DEF SameTree
<1>8. /\ k \in UnmapCall /\ k.do = "unmap" /\ k.step = "lock" /\ k.level = Levels /\ k.push = FALSE
      /\ k.at = Scratch /\ k.end = Scratch + 1 /\ k.upto = Scratch + 1 /\ k.then = "set_foreign"
      /\ Scratch \in Pages /\ Scratch \in Nat
  <2>1. Scratch \in Pages /\ Scratch \in Nat
    BY PagingAssumption DEF Pages
  <2> QED  BY <1>1, <2>1, Sizes DEF Unmapping, UnmapCall
<1>9. AnyCall(k) /\ CallOK(k)
  BY <1>8 DEF AnyCall, CallOK, RangeOK, UnmapOK
<1>10. Unlocks(g, c)
  <2>1. \A f \in Cleared(g) : f \in Frames /\ f # x
    BY <1>4 DEF Cleared
  <2> QED  BY <1>6, <2>1 DEF Unlocks
<1>11. ASSUME call'[c] = k
       PROVE  /\ NewLocks(c) /\ Fresh(c)
              /\ Same(g, c) => CarriedOK(g, c)' /\ MadeOK(g, c)'
  <2>1. Locks(c)' = {}
    BY <1>8, <1>11, Sizes DEF Locks, Walker, Clearing
  <2>2. /\ Making(c, Later)' /\ Making(c, Inside)' /\ ~Unmapped(c)'
        /\ \A y : ~Carries(c, y)'
    BY <1>8, <1>11 DEF Making, Later, Inside, Walks, Unmapped, Carries
  <2>3. making'[c] = making[c] /\ cr3'[c] = cr3[c]
    BY <1>2 DEF spaceVars
  <2>4. Fresh(c)
    BY <1>3, <2>2, <2>3 DEF Fresh, Taken, Makes
  <2>5. CarriedOK(g, c)'
    BY <2>2 DEF CarriedOK
  <2>6. IsCopy(x)'
    BY <1>5, <1>6 DEF IsCopy
  <2>7. ASSUME Same(g, c) PROVE MadeOK(g, c)'
    <3>1. \A y \in Frames : Makes(c, y) => Untouched(g, g, y) /\ IsCopy(y)'
      BY <1>1, <1>4, <2>6, <2>7 DEF Same, Makes
    <3>2. Mild(g, g, c)
      BY <2>7 DEF Same
    <3> QED  BY <1>3, <2>2, <2>3, <3>1, <3>2, MadeWith
  <2>8. NewLocks(c)
    BY <2>1 DEF NewLocks
  <2> QED  BY <2>4, <2>5, <2>7, <2>8
<1>12. \A d \in Cores \ {c}, y \in Frames : Taken(d, y) => entry'[y] = entry[y]
  BY <1>4, <1>6
<1>13. /\ k.do = "map" => k.step = "done"
       /\ k.do = "unmap" => k.step = "done" \/ (k.step = "lock" /\ k.level = Levels)
  BY <1>8
<1> QED  BY <1>2, <1>3, <1>6, <1>7, <1>9, <1>10, <1>11, <1>12, <1>13, WriteStep

\* The upper half is copied through the slot, entry by entry.
LEMMA CopyKeeps ==
  ASSUME NEW g, PagingInv(g), NEW c \in Cores, Copy(c), IInv'
  PROVE  PagingInv(g)'
<1>1. PICK x, s, k : x = foreign[cr3[c]] /\ s = cr3[c] /\ k = call[c]
  OBVIOUS
<1>2. PICK i \in KernelIndexes :
        /\ entry[s][i].present /\ Writes(x, i, entry[s][i]) /\ At(c, "copy")
        /\ UNCHANGED <<spaceVars, free, call, pages, fault, calls>>
  BY <1>1 DEF Copy, Writes
<1>3. /\ ~booting /\ ~Clearing(c) /\ call[c].do = "process" /\ call[c].step = "copy"
      /\ Making(c, Later) /\ Making(c, Inside) /\ s \in spaces /\ AnyCall(k) /\ CallOK(k)
  BY <1>1, <1>2, AtIs, CallIs DEF Later, Inside
<1>4. x = making[c][1]
  BY <1>1, <1>3 DEF PagingInv, IInv, SlotIsMine, Holds, Held
<1>5. /\ x \in Frames /\ g.lv[x] = 0 /\ Makes(c, x) /\ x \notin free
      /\ \A d \in Cores \ {c} : ~Taken(d, x)
  BY <1>3, <1>4, MakesIs
<1>6. /\ s \in Frames /\ i \in Entries /\ entry[s][i] \in EntryType /\ BootRoot # x
      /\ entry[s][i].frame = entry[BootRoot][i].frame
  <2>1. BootRoot \in spaces
    BY DEF PagingInv, TreeInv, SpacesAreTop
  <2>2. BootRoot # x
    BY <1>5, <2>1, SpaceIs, Sizes
  <2> QED  BY <1>3, <2>2, SpaceIs, Sizes DEF PagingInv, Typed, TreeInv, UpperIsShared
<1>7. /\ entry' \in [Frames -> [Entries -> EntryType]] /\ entry'[x][i] = entry[s][i]
      /\ \A f \in Frames, j \in Entries : f # x \/ j # i => entry'[f][j] = entry[f][j]
      /\ \A f \in Frames : f # x => entry'[f] = entry[f]
  <2>1. PICK e \in EntryType : e = entry[s][i]
    BY <1>6
  <2>2. Writes(x, i, e)
    BY <1>2, <2>1
  <2> QED  BY <1>5, <1>6, <2>1, <2>2, OneEntry
<1>8. SameTree(g)
  BY <1>5, <1>7 DEF SameTree
<1>9. Goes(c, k) /\ call'[c] = k /\ k.do = "process"
  BY <1>1, <1>2, <1>3 DEF Goes, PagingInv, Typed
<1>10. Unlocks(g, c)
  <2>1. \A f \in Cleared(g) : f \in Frames /\ f # x
    BY <1>5 DEF Cleared
  <2> QED  BY <1>7, <2>1 DEF Unlocks
<1>11. NewLocks(c) /\ Fresh(c) /\ (Same(g, c) => CarriedOK(g, c)' /\ MadeOK(g, c)')
  <2>1. Locks(c)' = {}
    BY <1>9 DEF Locks, Walker, Clearing
  <2>2. call' = call /\ making' = making /\ cr3' = cr3
    BY <1>2 DEF spaceVars
  <2>3. Unmapped(c) /\ (Unmapped(c)' <=> Unmapped(c)) /\ \A y : ~Carries(c, y)'
    BY <1>3, <2>2 DEF Unmapped, Carries
  <2>4. Fresh(c)
    BY <2>2 DEF Fresh, Taken, Carries, Makes, Making
  <2>5. CarriedOK(g, c)'
    BY <2>3 DEF CarriedOK
  <2>6. IsCopy(x)'
    <3>1. IsCopy(x)
      BY <1>5, <2>3 DEF PagingInv, CoreInv, MadeOK
    <3>2. entry'[BootRoot] = entry[BootRoot]
      BY <1>6, <1>7, Sizes
    <3> QED  BY <1>2, <1>5, <1>6, <1>7, <3>1, <3>2 DEF IsCopy
  <2>7. ASSUME Same(g, c) PROVE MadeOK(g, c)'
    <3>1. \A y \in Frames : Makes(c, y) => Untouched(g, g, y) /\ IsCopy(y)'
      BY <1>4, <1>5, <2>6, <2>7 DEF Same, Makes
    <3>2. Mild(g, g, c)
      BY <2>7 DEF Same
    <3>3. /\ Making(c, Later)' => Making(c, Later)
          /\ Making(c, Inside)' <=> Making(c, Inside)
      BY <2>2 DEF Making
    <3> QED  BY <2>2, <2>3, <3>1, <3>2, <3>3, MadeWith
  <2>8. NewLocks(c)
    BY <2>1 DEF NewLocks
  <2> QED  BY <2>4, <2>5, <2>7, <2>8
<1>12. \A d \in Cores \ {c}, y \in Frames : Taken(d, y) => entry'[y] = entry[y]
  BY <1>5, <1>7
<1>13. UNCHANGED <<spaceVars, free, pages, fault, calls>>
  BY <1>2
<1> QED  BY <1>3, <1>7, <1>8, <1>9, <1>10, <1>11, <1>12, <1>13, WriteStep

------------------------------------------------------------------------------
(* Steps that change the tree                                              *)

\* A step of core c that takes no table away keeps the invariant when it is right for c.
LEMMA MildStep ==
  ASSUME NEW g, PagingInv(g), NEW h \in Ghosts, NEW c \in Cores, Mild(g, h, c), Quiet(g, h, c),
         Fresh(c), CarriedOK(h, c)', MadeOK(h, c)', WalkOK(h, c)',
         TreeInv(h)', LeafInv(h)', PageInv(h)', PagesAre', IInv', Typed', BootInv'
  PROVE  PagingInv(h)'
<1>1. \A d \in Cores : CarriedOK(h, d)' /\ MadeOK(h, d)'
  <2> TAKE d \in Cores
  <2>1. CASE d = c
    BY <2>1
  <2>2. CASE d # c
    BY <2>2, OthersFrames
  <2> QED  BY <2>1, <2>2
<1>2. (\A d \in Cores : WalkOK(h, d)' /\ LocksOK(d)') /\ \A d, e \in Cores : LocksApart(d, e)'
  BY WalksStay
<1> QED  BY <1>1, <1>2 DEF PagingInv, CoreInv

\* What is mapped is found after a step that maps and unmaps nothing.
LEMMA PagesStay ==
  ASSUME NEW g, PagingInv(g), NEW h, NEW c \in Cores, Mild(g, h, c), pages' = pages,
         \A f \in Cleared(g), i \in Entries : g.lv[f] = 1 =>
           entry'[f][i].present = entry[f][i].present /\ entry'[f][i].frame = entry[f][i].frame
  PROVE  PageInv(h)' /\ PagesAre'
<1>1. PagesAre'
  BY DEF PagingInv, PagesAre
<1>2. PageInv(h)'
  <2> SUFFICES ASSUME NEW s, NEW p, NEW x, <<s, p, x>> \in pages
               PROVE  /\ s \in spaces' /\ p \in Pages /\ Path(h, s, p, 1)'
                      /\ LET e == entry'[TableIn(entry', s, p, 1)][Index(1, p)] IN
                         e.present /\ e.frame = x
    BY DEF PageInv
  <2>1. p \in Pages /\ Path(g, s, p, 1)
    BY DEF PagingInv, PageInv
  <2>2. LET t == TableIn(entry, s, p, 1) IN
        t \in Cleared(g) /\ g.lv[t] = 1 /\ Index(1, p) \in Entries
    BY <2>1, WayEnd
  <2>3. LET t == TableIn(entry, s, p, 1)
            i == Index(1, p)
        IN entry'[t][i].present = entry[t][i].present /\ entry'[t][i].frame = entry[t][i].frame
    BY <2>2
  <2> QED  BY <2>3, MappedStay
<1> QED  BY <1>1, <1>2

\* A walker's own way stays.
LEMMA MyWay ==
  ASSUME NEW g, PagingInv(g), NEW c \in Cores, Walker(c), Grows(g),
         call'[c].at = call[c].at, cr3'[c] = cr3[c]
  PROVE  \A k \in (call[c].level)..Levels :
           TableOf(c, k)' = TableOf(c, k) /\ IndexOf(c, k)' = IndexOf(c, k)
<1>1. call[c].at \in Nat /\ call[c].level \in 1..Levels
  BY WalkerIs
<1>2. Path(g, cr3[c], call[c].at, call[c].level)
  BY DEF PagingInv, CoreInv, WalkOK
<1>3. \A k \in (call[c].level)..Levels :
        TableIn(entry', cr3[c], call[c].at, k) = TableIn(entry, cr3[c], call[c].at, k)
  BY <1>1, <1>2, WaysStay
<1> QED  BY <1>3 DEF TableOf, IndexOf

\* The entry it is at is locked, and those above it are.
LEMMA MyLocks ==
  ASSUME NEW g, PagingInv(g), NEW c \in Cores, Walker(c), Grows(g),
         call'[c].at = call[c].at, cr3'[c] = cr3[c], NEW l, l = call[c].level,
         Locks(c)' = l..Levels, NEW t, t = Here(c), NEW i, i = Slot(c), entry'[t][i].locked,
         ~entry[t][i].locked \/ l \in Locks(c),
         \A k \in Locks(c) : k # l => entry'[TableOf(c, k)][IndexOf(c, k)].locked
  PROVE  NewLocks(c)
<1>1. l \in 1..Levels /\ l \in l..Levels
  BY WalkerIs, Sizes
<1>2. \A k \in l..Levels : TableOf(c, k)' = TableOf(c, k) /\ IndexOf(c, k)' = IndexOf(c, k)
  BY MyWay
<1> SUFFICES ASSUME NEW k \in l..Levels
             PROVE  /\ entry'[TableOf(c, k)][IndexOf(c, k)].locked
                    /\ ~entry[TableOf(c, k)][IndexOf(c, k)].locked \/ k \in Locks(c)
  BY <1>2 DEF NewLocks
<1>3. CASE k = l
  BY <1>3 DEF Here, Slot
<1>4. CASE k # l
  <2>1. k \in Locks(c)
    BY <1>1, <1>4, Sizes DEF Locks
  <2> QED  BY <1>4, <2>1
<1> QED  BY <1>3, <1>4

\* A frame that was free is entered as a table.
LEMMA LinkTree ==
  ASSUME NEW g, PagingInv(g), NEW h, NEW t \in Cleared(g), NEW i \in Entries, g.lv[t] >= 2,
         t \in spaces => i \notin KernelIndexes,
         ~entry[t][i].present, NEW x \in free, g.lv[x] = 0, ~Mapped(g, x), free' = free \ {x},
         entry'[t][i].present, entry'[t][i].frame = x,
         \A f \in Frames, j \in Entries : f # t \/ j # i => entry'[f][j] = entry[f][j],
         spaces' = spaces, IsChild(spaces, h, t, i, x),
         \A f \in Frames : f # x => h.lv[f] = g.lv[f] /\ h.base[f] = g.base[f]
           /\ h.own[f] = g.own[f],
         Cleared(h)' = Cleared(g), \A f \in Uncleared' : f \notin Cleared(g)
  PROVE  /\ TreeInv(h)' /\ LeafInv(h)'
         /\ \A f \in Frames, j \in Entries :
              Leaf(h, f, j)' <=> Leaf(g, f, j) /\ entry'[f][j].frame = entry[f][j].frame
<1>1. /\ t \in Frames /\ x \in Frames /\ x \notin Cleared(g) /\ t # x
      /\ \A f \in Cleared(g) : f \in Frames /\ f # x
  BY DEF PagingInv, Typed, Cleared
<1>2. \A f \in Frames, j \in Entries :
        LeadsOn(h, f, j)' <=> LeadsOn(g, f, j) \/ (f = t /\ j = i)
  BY <1>1 DEF LeadsOn
<1>3. \A f \in Frames, j \in Entries : LeadsOn(g, f, j) =>
        /\ entry'[f][j].frame = entry[f][j].frame /\ entry[f][j].frame # x
        /\ IsChild(spaces, h, f, j, entry[f][j].frame) /\ ~(f = t /\ j = i)
  <2> SUFFICES ASSUME NEW f \in Frames, NEW j \in Entries, LeadsOn(g, f, j)
               PROVE  /\ entry'[f][j].frame = entry[f][j].frame /\ entry[f][j].frame # x
                      /\ IsChild(spaces, h, f, j, entry[f][j].frame) /\ ~(f = t /\ j = i)
    OBVIOUS
  <2>1. ~(f = t /\ j = i) /\ f # x
    BY <1>1 DEF LeadsOn
  <2>2. IsChild(spaces, g, f, j, entry[f][j].frame)
    BY DEF PagingInv, TreeInv, Children
  <2>3. g.lv[entry[f][j].frame] # 0
    <3>1. g.lv[f] \in Nat /\ g.lv[f] >= 2
      BY Sizes DEF LeadsOn, PagingInv, Ghosts
    <3> QED  BY <2>2, <3>1 DEF IsChild
  <2>4. entry[f][j].frame # x
    BY <2>3
  <2> QED  BY <2>1, <2>2, <2>4 DEF IsChild
<1>4. \A f \in Frames, j \in Entries :
        Leaf(h, f, j)' <=> Leaf(g, f, j) /\ entry'[f][j].frame = entry[f][j].frame
  BY <1>1 DEF Leaf
<1>5. \A f \in Frames, j \in Entries :
        Leaf(h, f, j)' => Leaf(g, f, j) /\ entry'[f][j].frame = entry[f][j].frame /\ f # x
                          /\ entry[f][j].frame # x
  BY <1>1, <1>4 DEF Leaf, Mapped
<1>6. SpacesAreTop(h)'
  <2>1. SpacesAreTop(g)
    BY DEF PagingInv, TreeInv
  <2>2. x \notin spaces /\ \A s \in spaces : s \in Frames /\ s \in Cleared(g)
    BY SpaceIs, Sizes
  <2>3. h.lv[x] # Levels
    <3>1. g.lv[t] \in 0..Levels /\ h.lv[x] = h.lv[t] - 1 /\ h.lv[t] = g.lv[t]
      BY <1>1 DEF PagingInv, Ghosts, IsChild
    <3> QED  BY <3>1, Sizes
  <2>4. \A f \in Frames : h.lv[f] = Levels <=> f \in spaces
    BY <2>1, <2>2, <2>3 DEF SpacesAreTop
  <2>5. \A s \in spaces : h.base[s] = 0 /\ s \notin Uncleared'
    BY <2>1, <2>2 DEF SpacesAreTop
  <2> QED  BY <2>1, <2>4, <2>5 DEF SpacesAreTop
<1>7. FreeIsNoTable(h)'
  BY DEF PagingInv, TreeInv, FreeIsNoTable, Typed
<1>8. Children(h)'
  <2>1. \A f \in Frames, j \in Entries : LeadsOn(h, f, j)'
          => IsChild(spaces, h, f, j, entry'[f][j].frame)
    BY <1>2, <1>3
  <2> QED  BY <2>1 DEF Children, IsChild
<1>9. OneParent(h)'
  <2>1. OneParent(g)
    BY DEF PagingInv, TreeInv
  <2> SUFFICES ASSUME NEW f \in Frames, NEW k \in Frames, NEW j \in Entries, NEW m \in Entries,
                      LeadsOn(h, f, j)', LeadsOn(h, k, m)', entry'[f][j].frame = entry'[k][m].frame
               PROVE  j = m /\ (f = k \/ (f \in spaces /\ k \in spaces /\ j \in KernelIndexes))
    BY DEF OneParent
  <2>2. CASE LeadsOn(g, f, j) /\ LeadsOn(g, k, m)
    <3>1. entry[f][j].frame = entry[k][m].frame
      BY <1>3, <2>2
    <3> QED  BY <2>1, <2>2, <3>1 DEF OneParent
  <2>3. CASE ~LeadsOn(g, f, j) \/ ~LeadsOn(g, k, m)
    BY <1>2, <1>3, <2>3
  <2> QED  BY <2>2, <2>3
<1>10. UpperIsShared'
  <2> SUFFICES ASSUME NEW s \in spaces, NEW j \in KernelIndexes
               PROVE  entry'[s][j].present /\ entry'[s][j].frame = entry'[BootRoot][j].frame
    BY DEF UpperIsShared
  <2>1. s \in Frames /\ BootRoot \in spaces /\ BootRoot \in Frames /\ j \in Entries
    BY SpaceIs, Sizes DEF PagingInv, TreeInv, SpacesAreTop
  <2>2. entry'[s][j] = entry[s][j] /\ entry'[BootRoot][j] = entry[BootRoot][j]
    BY <2>1
  <2> QED  BY <2>2 DEF PagingInv, TreeInv, UpperIsShared
<1>11. LeafInv(h)'
  <2>1. LeafInv(g)
    BY DEF PagingInv
  <2> SUFFICES ASSUME NEW f \in Frames, NEW j \in Entries, Leaf(h, f, j)', NEW y,
                      y = entry'[f][j].frame
               PROVE  IF y \in Frames
                      THEN /\ h.lv[y] = 0 /\ y \notin free'
                           /\ \A k \in Frames, m \in Entries :
                                Leaf(h, k, m)' /\ entry'[k][m].frame = y => k = f /\ m = j
                      ELSE h.base[f] * Width + j \in Devices
    BY DEF LeafInv
  <2>2. Leaf(g, f, j) /\ entry[f][j].frame = y /\ f # x /\ y # x
    BY <1>5
  <2>3. \A k \in Frames, m \in Entries :
          Leaf(h, k, m)' /\ entry'[k][m].frame = y => Leaf(g, k, m) /\ entry[k][m].frame = y
    BY <1>5
  <2>4. IF y \in Frames
        THEN /\ g.lv[y] = 0 /\ y \notin free
             /\ \A k \in Frames, m \in Entries :
                  Leaf(g, k, m) /\ entry[k][m].frame = y => k = f /\ m = j
        ELSE g.base[f] * Width + j \in Devices
    BY <2>1, <2>2 DEF LeafInv
  <2> QED  BY <2>2, <2>3, <2>4
<1> QED  BY <1>4, <1>6, <1>7, <1>8, <1>9, <1>10, <1>11 DEF TreeInv

\* Nothing but frame x is any different.
Beside(g, h, x) == \A f \in Frames : f # x => h.lv[f] = g.lv[f] /\ h.base[f] = g.base[f]
                     /\ h.own[f] = g.own[f]

\* What is known of the tables after frame x has become one.
IsNow(h, g, x, a, b, o) ==
  h \in Ghosts /\ Beside(g, h, x) /\ h.lv[x] = a /\ h.base[x] = b /\ h.own[x] = o

\* There is such a table.
LEMMA NewTable ==
  ASSUME NEW g \in Ghosts, NEW x \in Frames, NEW a \in 0..Levels, NEW b \in Nat,
         NEW o \in Frames \cup {Null}
  PROVE  \E h : IsNow(h, g, x, a, b, o)
<1>1. PICK lv, base, own :
        /\ lv = [g.lv EXCEPT ![x] = a] /\ base = [g.base EXCEPT ![x] = b]
        /\ own = [g.own EXCEPT ![x] = o]
  OBVIOUS
<1>2. PICK h : h = [lv |-> lv, base |-> base, own |-> own]
  OBVIOUS
<1>3. /\ lv \in [Frames -> 0..Levels] /\ lv[x] = a /\ \A f \in Frames : f # x => lv[f] = g.lv[f]
      /\ base \in [Frames -> Nat] /\ base[x] = b /\ \A f \in Frames : f # x => base[f] = g.base[f]
      /\ own \in [Frames -> Frames \cup {Null}] /\ own[x] = o
      /\ \A f \in Frames : f # x => own[f] = g.own[f]
  BY <1>1 DEF Ghosts
<1>4. h \in Ghosts /\ h.lv = lv /\ h.base = base /\ h.own = own
  BY <1>2, <1>3 DEF Ghosts
<1> QED  BY <1>3, <1>4 DEF Beside, IsNow

\* map enters a frame for a missing table.
LEMMA LinkKeeps ==
  ASSUME NEW g, PagingInv(g), NEW c \in Cores, Link(c), ~Panic, IInv'
  PROVE  \E h : PagingInv(h)' /\ Beside(g, h, Popped) /\ Cleared(h)' = Cleared(g)
<1>1. PICK t, i, l, x, k, e :
        /\ t = Here(c) /\ i = Slot(c) /\ l = call[c].level /\ x = Popped
        /\ k = [call[c] EXCEPT !.step = "clear"]
        /\ e = [entry[t][i] EXCEPT !.locked = TRUE, !.present = TRUE, !.frame = x]
  OBVIOUS
<1>2. /\ call[c].do = "map" /\ call[c].step = "lock" /\ l \in 2..Levels /\ Walker(c) /\ ~Clearing(c)
      /\ ~entry[t][i].present /\ ~entry[t][i].locked /\ free # {} /\ free' = free \ {x}
      /\ Goes(c, k) /\ UNCHANGED <<spaceVars, pages, fault, calls>>
  <2>1. EntryOf(c) = entry[t][i]
    BY <1>1, EntryOfIs
  <2> QED  BY <1>1, <2>1 DEF Link, AtLevel, Inner, Unlocked, Walker, Clearing
<1>3. Writes(t, i, e)
  <2>1. EntryOf(c) = entry[t][i] /\ \A y : SetEntry(c, y) => Writes(t, i, y)
    BY <1>1, EntryOfIs DEF Writes
  <2>2. SetEntry(c, [EntryOf(c) EXCEPT !.locked = TRUE, !.present = TRUE, !.frame = x])
    BY <1>1 DEF Link
  <2> QED  BY <1>1, <2>1, <2>2
<1>4. /\ t \in Cleared(g) /\ t \in Frames /\ g.lv[t] = l /\ i \in Entries
      /\ entry[t][i] \in EntryType
      /\ ~booting
  BY <1>1, <1>2, HereIs, IdleIs
<1>5. /\ x \in free /\ x \in Frames /\ x \in Nat /\ g.lv[x] = 0 /\ ~Mapped(g, x) /\ t # x
      /\ \A d \in Cores : ~Taken(d, x)
  <2>1. g.lv[t] # 0
    BY <1>2, <1>4, Sizes
  <2> QED  BY <1>1, <1>2, <2>1, PoppedIs, Sizes
<1>6. e \in EntryType /\ e.present /\ e.frame = x /\ e.locked
  BY <1>1, <1>4, <1>5 DEF EntryType
<1>7. /\ entry' \in [Frames -> [Entries -> EntryType]] /\ entry'[t][i] = e
      /\ \A f \in Frames, j \in Entries : f # t \/ j # i => entry'[f][j] = entry[f][j]
      /\ \A f \in Frames : f # t => entry'[f] = entry[f]
  BY <1>3, <1>4, <1>6, OneEntry
<1>8. /\ k \in MapCall /\ k.do = "map" /\ k.step = "clear" /\ k.level = l /\ k.at = call[c].at
      /\ k.end = call[c].end /\ k.upto = call[c].upto /\ k.then = call[c].then
      /\ k.phys = call[c].phys
  <2>1. call[c] \in MapCall
    BY <1>2, CallIs
  <2> QED  BY <1>1, <2>1 DEF MapCall
<1>9. AnyCall(k) /\ CallOK(k)
  <2>1. CallOK(call[c]) /\ l >= 2
    BY <1>2, CallIs
  <2> QED  BY <1>2, <1>8, <2>1 DEF AnyCall, CallOK, RangeOK, MapOK, Walks
<1>10. Typed' /\ call'[c] = k /\ \A d \in Cores \ {c} : call'[d] = call[d]
  <2>1. /\ free' \subseteq Frames /\ spaces' \subseteq Frames \ free' /\ cr3' \in [Cores -> spaces']
        /\ mutex' \in Cores \cup {Null} /\ booting' = booting /\ calls' \in Nat /\ fault' = fault
    BY <1>2 DEF PagingInv, Typed, spaceVars
  <2> QED  BY <1>2, <1>7, <1>9, <2>1, TypedOn
<1>11. /\ Alone(c) /\ Clearing(c)' /\ Walker(c)' /\ cr3'[c] = cr3[c] /\ making'[c] = making[c]
       /\ spaces' = spaces /\ call'[c].at = call[c].at
  BY <1>2, <1>8, <1>10 DEF Alone, Clearing, Walker, spaceVars
<1>12. Grows(g)
  <2>1. \A f \in Cleared(g) : f \in Frames
    BY DEF Cleared
  <2> QED  BY <1>2, <1>7, <2>1 DEF Grows
<1>13. \A m \in l..Levels : TableOf(c, m)' = TableOf(c, m) /\ IndexOf(c, m)' = IndexOf(c, m)
  BY <1>1, <1>2, <1>11, <1>12, MyWay
<1>14. Here(c)' = t /\ Slot(c)' = i /\ Target(c)' = x
  <2>1. l \in l..Levels
    BY <1>2, Sizes
  <2>2. Here(c)' = t /\ Slot(c)' = i
    BY <1>1, <1>8, <1>10, <1>13, <2>1 DEF Here, Slot, TableOf, IndexOf
  <2> QED  BY <1>6, <1>7, <2>2 DEF Target
<1>15. t \in spaces => i \notin KernelIndexes
  BY <1>2 DEF PagingInv, TreeInv, UpperIsShared
<1>16. PICK h \in Ghosts : Beside(g, h, x) /\ IsChild(spaces, h, t, i, x)
  <2>1. PICK o : o = IF t \notin spaces THEN g.own[t] ELSE IF i \in KernelIndexes THEN Null ELSE t
    OBVIOUS
  <2>2. /\ o \in Frames \cup {Null} /\ l - 1 \in 0..Levels /\ g \in Ghosts
        /\ g.base[t] * Width + i \in Nat
    <3>1. g \in Ghosts /\ g.base[t] \in Nat /\ g.own[t] \in Frames \cup {Null} /\ i \in Nat
      BY <1>4, Sizes DEF PagingInv, Ghosts
    <3>2. PICK b \in Nat : b = g.base[t]
      BY <3>1
    <3>3. b * Width \in Nat
      BY Sizes
    <3> QED  BY <1>2, <1>4, <2>1, <3>1, <3>2, <3>3, Sizes
  <2>3. PICK a \in 0..Levels, b \in Nat : a = l - 1 /\ b = g.base[t] * Width + i
    BY <2>2
  <2>4. PICK h : IsNow(h, g, x, a, b, o)
    <3>1. g \in Ghosts /\ x \in Frames /\ o \in Frames \cup {Null}
      BY <1>5, <2>2
    <3> QED  BY ONLY <2>3, <3>1, NewTable
  <2> QED  BY <1>4, <1>5, <2>1, <2>3, <2>4 DEF IsChild, Beside, IsNow
<1>17. Keeps(g, h)
  BY <1>5, <1>16, Sizes DEF Keeps, Beside
<1>18. /\ Cleared(h)' = Cleared(g) /\ \A f \in Uncleared' : f \notin Cleared(g)
  <2>1. x \in Uncleared' /\ x \notin Cleared(g)
    <3>1. x \in Uncleared'
      BY <1>11, <1>14, UnclearedWillBe
    <3> QED  BY <1>5, <3>1, Sizes DEF Cleared
  <2>2. ASSUME NEW f \in Frames, f # x PROVE f \in Uncleared' <=> f \in Uncleared
    <3>1. \A d \in Cores \ {c} : Clearing(d)' <=> Clearing(d)
      BY <1>11, <1>12, OtherTables
    <3>2. \A d \in Cores \ {c} : Clearing(d) => Target(d)' = Target(d)
      BY <1>11, <1>12, OtherTargets
    <3> QED  BY <1>2, <1>14, <2>2, <3>1, <3>2, UnclearedIs, UnclearedWillBe
  <2>3. \A f \in Frames : f \in Cleared(h)' <=> f \in Cleared(g)
    BY <1>16, <2>1, <2>2 DEF Cleared, Beside
  <2>4. \A f : f \in Cleared(g) \/ f \in Cleared(h)' => f \in Frames
    BY DEF Cleared
  <2> QED  BY <2>1, <2>2, <2>3, <2>4 DEF Cleared
<1>19. Unlocks(g, c)
  <2>1. \A f \in Cleared(g) : f \in Frames
    BY DEF Cleared
  <2> QED  BY <1>6, <1>7, <2>1 DEF Unlocks
<1>20. NewLocks(c)
  <2>1. Locks(c)' = l..Levels
    BY <1>2, <1>8, <1>10, <1>11, Sizes DEF Locks
  <2>2. \A m \in Locks(c) : m # l => entry'[TableOf(c, m)][IndexOf(c, m)].locked
    <3> SUFFICES ASSUME NEW m \in Locks(c), m # l PROVE entry'[TableOf(c, m)][IndexOf(c, m)].locked
      OBVIOUS
    <3>1. entry[TableOf(c, m)][IndexOf(c, m)].locked /\ TableOf(c, m) \in Frames
          /\ IndexOf(c, m) \in Entries
      BY LockIs DEF PagingInv, CoreInv, LocksOK
    <3> QED  BY <1>6, <1>7, <3>1
  <2>3. /\ PagingInv(g) /\ c \in Cores /\ Walker(c) /\ Grows(g) /\ call'[c].at = call[c].at
        /\ cr3'[c] = cr3[c] /\ l = call[c].level /\ t = Here(c) /\ i = Slot(c)
        /\ entry'[t][i].locked
        /\ ~entry[t][i].locked
    BY <1>1, <1>2, <1>6, <1>7, <1>11, <1>12
  <2> QED  BY ONLY <2>1, <2>2, <2>3, MyLocks
<1>21. Mild(g, h, c)
  <2>1. Target(c)' \notin Cleared(g)
    BY <1>5, <1>14, Sizes DEF Cleared
  <2> QED  BY <1>11, <1>12, <1>17, <1>19, <1>20, <2>1 DEF Mild
<1>22. /\ TreeInv(h)' /\ LeafInv(h)'
       /\ \A f \in Frames, j \in Entries :
            Leaf(h, f, j)' <=> Leaf(g, f, j) /\ entry'[f][j].frame = entry[f][j].frame
  <2>1. /\ g.lv[t] >= 2 /\ entry'[t][i].present /\ entry'[t][i].frame = x
        /\ \A f \in Frames : f # x => h.lv[f] = g.lv[f] /\ h.base[f] = g.base[f]
             /\ h.own[f] = g.own[f]
    BY <1>2, <1>4, <1>6, <1>7, <1>16 DEF Beside
  <2>2. /\ PagingInv(g) /\ t \in Cleared(g) /\ i \in Entries
        /\ (t \in spaces => i \notin KernelIndexes)
        /\ ~entry[t][i].present /\ x \in free /\ g.lv[x] = 0 /\ ~Mapped(g, x) /\ free' = free \ {x}
        /\ \A f \in Frames, j \in Entries : f # t \/ j # i => entry'[f][j] = entry[f][j]
        /\ spaces' = spaces /\ IsChild(spaces, h, t, i, x)
    BY <1>2, <1>4, <1>5, <1>7, <1>11, <1>15, <1>16
  <2>3. Cleared(h)' = Cleared(g) /\ \A f \in Uncleared' : f \notin Cleared(g)
    BY <1>18
  <2> QED  BY ONLY <2>1, <2>2, <2>3, LinkTree
<1>23. ASSUME NEW y \in Frames, NEW d \in Cores, Taken(d, y)
       PROVE  Untouched(g, h, y) /\ entry'[y] = entry[y]
  <2>1. y \notin free /\ g.lv[y] = 0 /\ y # x
    BY <1>5, <1>23, TakenIs
  <2>2. entry'[y] = entry[y]
    BY <1>2, <1>4, <1>7, <2>1, Sizes
  <2>3. y \notin free' /\ h.lv[y] = 0
    BY <1>2, <1>16, <2>1 DEF Beside
  <2> QED  BY <1>22, <2>2, <2>3 DEF Untouched
<1>24. Quiet(g, h, c)
  BY <1>23 DEF Quiet
<1>25. /\ call[c].do \in Walks /\ call'[c].do = call[c].do /\ call'[c].then = call[c].then
       /\ call[c].do = "map" /\ call'[c].step # "done" =>
            call[c].step # "done" /\ (call'[c].phys \in Frames => call'[c].phys = call[c].phys)
       /\ call[c].do = "unmap" => call'[c].step # "done"
  BY <1>2, <1>8, <1>10 DEF Walks
<1>26. CarriedOK(h, c)' /\ MadeOK(h, c)'
  BY <1>11, <1>21, <1>23, <1>25, GoingOn
<1>27. Fresh(c)
  BY <1>11, <1>25, NotFresh
<1>28. WalkOK(h, c)'
  <2>1. /\ Path(g, cr3[c], call[c].at, call[c].level) /\ call[c].at \in Nat
        /\ call[c].level \in 1..Levels
    BY <1>2, WalkerIs DEF PagingInv, CoreInv, WalkOK
  <2>2. \A f \in Cleared(g) : f \in Cleared(h)'
    BY <1>18
  <2>3. PathIn(entry', Cleared(h)', h, cr3[c], call[c].at, call[c].level)
    BY <1>12, <1>17, <2>1, <2>2, PathsStay
  <2>4. Path(h, cr3[c], call[c].at, call[c].level)'
    BY <1>1, <1>8, <1>10, <1>11, <2>3 DEF Path
  <2>5. l = Levels => Half(call[c].at) = "lower"
    <3>1. l = Levels => t \in spaces /\ i = Index(Levels, call[c].at)
      BY <1>1, <1>4, SpaceIs DEF PagingInv, TreeInv, SpacesAreTop, Slot, IndexOf
    <3> QED  BY <1>15, <3>1 DEF Half
  <2>6. entry'[Here(c)'][Slot(c)'].present
    BY <1>6, <1>7, <1>14
  <2>7. IsChild(spaces', h, Here(c)', Slot(c)', Target(c)')
    BY <1>11, <1>14, <1>16
  <2> QED  BY <1>8, <1>10, <2>4, <2>5, <2>6, <2>7 DEF WalkOK, IsChild
<1>29. PageInv(h)' /\ PagesAre'
  <2>1. \A f \in Cleared(g) : f \in Frames
    BY DEF Cleared
  <2>2. \A f \in Cleared(g), j \in Entries : g.lv[f] = 1 => entry'[f][j] = entry[f][j]
    BY <1>2, <1>4, <1>7, <2>1
  <2> QED  BY <1>2, <1>21, <2>2, PagesStay
<1>30. BootInv'
  BY <1>2, <1>4 DEF BootInv, spaceVars
<1>31. PagingInv(h)'
  BY <1>10, <1>16, <1>21, <1>22, <1>24, <1>26, <1>27, <1>28, <1>29, <1>30, MildStep
<1> QED  BY <1>1, <1>16, <1>18, <1>31

\* The way of a walker that goes down to a table that is cleared.
LEMMA OneDown ==
  ASSUME NEW g, PagingInv(g), NEW c \in Cores, Walker(c), Grows(g), NEW l \in 2..Levels,
         l = call[c].level, NEW t, t = Here(c), NEW i, i = Slot(c), NEW s, s = cr3[c],
         NEW p, p = call[c].at, \A f \in Cleared(g) : f \in Cleared(g)',
         NEW x, entry'[t][i].present, entry'[t][i].frame = x, x \in Cleared(g)',
         IsChild(spaces, g, t, i, x)
  PROVE  PathIn(entry', Cleared(g)', g, s, p, l - 1)
<1>1. p \in Pages /\ p \in Nat /\ l \in 1..Levels /\ l \in l..Levels
  BY WalkerIs, Sizes
<1>2. Path(g, s, p, l)
  BY DEF PagingInv, CoreInv, WalkOK
<1>3. PathIn(entry', Cleared(g)', g, s, p, l)
  <2>1. Keeps(g, g)
    BY DEF Keeps
  <2> QED  BY <1>1, <1>2, <2>1, PathsStay
<1>4. t = TableIn(entry', s, p, l) /\ i = Index(l, p)
  <2>1. TableIn(entry', s, p, l) = TableIn(entry, s, p, l)
    BY <1>1, <1>2, WaysStay
  <2> QED  BY <2>1 DEF Here, TableOf, Slot, IndexOf
<1>5. t \in spaces <=> l = Levels
  BY HereIs DEF PagingInv, TreeInv, SpacesAreTop
<1>6. /\ l \in 2..Levels /\ p \in Pages /\ PathIn(entry', Cleared(g)', g, s, p, l)
      /\ t = TableIn(entry', s, p, l) /\ x = entry'[t][Index(l, p)].frame
      /\ entry'[t][Index(l, p)].present /\ x \in Cleared(g)'
      /\ IsChild(spaces, g, t, Index(l, p), x) /\ (t \in spaces <=> l = Levels)
  BY <1>1, <1>3, <1>4, <1>5
<1> QED  BY ONLY <1>6, PathDown

\* A table is one core's to clear.
LEMMA TargetsDiffer ==
  ASSUME NEW g, PagingInv(g), NEW c \in Cores, NEW d \in Cores, Clearing(c), Clearing(d),
         Target(c) = Target(d)
  PROVE  c = d
<1>1. /\ LeadsOn(g, Here(c), Slot(c)) /\ Here(c) \in Frames /\ Slot(c) \in Entries
      /\ (Here(c) \in spaces => Slot(c) \notin KernelIndexes) /\ call[c].level \in Locks(c)
  BY ClearingIs
<1>2. /\ LeadsOn(g, Here(d), Slot(d)) /\ Here(d) \in Frames /\ Slot(d) \in Entries
      /\ call[d].level \in Locks(d)
  BY ClearingIs
<1>3. OneParent(g)
  BY DEF PagingInv, TreeInv
<1>4. Here(c) = Here(d) /\ Slot(c) = Slot(d)
  BY <1>1, <1>2, <1>3 DEF OneParent, Target
<1>5. /\ TableOf(c, call[c].level) = TableOf(d, call[d].level)
      /\ IndexOf(c, call[c].level) = IndexOf(d, call[d].level)
  BY <1>4 DEF Here, Slot
<1> QED  BY <1>1, <1>2, <1>5, LocksDiffer

\* A table that is cleared leads nowhere.
LEMMA ClearTree ==
  ASSUME NEW g, PagingInv(g), NEW x \in Frames, x \in Uncleared, g.lv[x] > 0, NEW t \in Cleared(g),
         NEW i \in Entries, Uncleared' = Uncleared \ {x}, spaces' = spaces, free' = free,
         \A j \in Entries : ~entry'[x][j].present,
         entry'[t][i].present = entry[t][i].present, entry'[t][i].frame = entry[t][i].frame,
         \A f \in Frames, j \in Entries : f # x /\ (f # t \/ j # i) => entry'[f][j] = entry[f][j]
  PROVE  /\ TreeInv(g)' /\ LeafInv(g)' /\ Grows(g) /\ x \in Cleared(g)'
         /\ \A f \in Cleared(g) : f \in Cleared(g)'
         /\ \A f \in Frames, j \in Entries :
              /\ Leaf(g, f, j)' <=> Leaf(g, f, j)
              /\ f \in Cleared(g) => /\ entry'[f][j].frame = entry[f][j].frame
                                     /\ entry'[f][j].present = entry[f][j].present
<1>1. x \notin Cleared(g) /\ \A f \in Cleared(g) : f \in Frames /\ f # x
  BY DEF Cleared
<1>2. \A f \in Cleared(g), j \in Entries : /\ entry'[f][j].frame = entry[f][j].frame
                                           /\ entry'[f][j].present = entry[f][j].present
  BY <1>1
<1>3. Grows(g)
  BY <1>2 DEF Grows
<1>4. \A f \in Frames : f \in Cleared(g)' <=> f \in Cleared(g) \/ f = x
  BY DEF Cleared
<1>5. \A f \in Frames, j \in Entries : /\ LeadsOn(g, f, j)' <=> LeadsOn(g, f, j)
                                       /\ Leaf(g, f, j)' <=> Leaf(g, f, j)
  BY <1>1, <1>2, <1>4 DEF LeadsOn, Leaf
<1>6. \A f \in Frames, j \in Entries : LeadsOn(g, f, j) \/ Leaf(g, f, j) =>
        entry'[f][j].frame = entry[f][j].frame
  BY <1>2 DEF LeadsOn, Leaf
<1>7. SpacesAreTop(g)'
  BY DEF PagingInv, TreeInv, SpacesAreTop
<1>8. FreeIsNoTable(g)'
  BY DEF PagingInv, TreeInv, FreeIsNoTable
<1>9. Children(g)'
  BY <1>5, <1>6 DEF PagingInv, TreeInv, Children, IsChild
<1>10. OneParent(g)'
  BY <1>5, <1>6 DEF PagingInv, TreeInv, OneParent
<1>11. UpperIsShared'
  <2> SUFFICES ASSUME NEW s \in spaces, NEW j \in KernelIndexes
               PROVE  entry'[s][j].present /\ entry'[s][j].frame = entry'[BootRoot][j].frame
    BY DEF UpperIsShared
  <2>1. s \in Cleared(g) /\ BootRoot \in Cleared(g) /\ j \in Entries
    BY SpaceIs, Sizes DEF PagingInv, TreeInv, SpacesAreTop
  <2> QED  BY <1>2, <2>1 DEF PagingInv, TreeInv, UpperIsShared
<1>12. LeafInv(g)'
  <2>1. LeafInv(g)
    BY DEF PagingInv
  <2> SUFFICES ASSUME NEW f \in Frames, NEW j \in Entries, Leaf(g, f, j)', NEW y,
                      y = entry'[f][j].frame
               PROVE  IF y \in Frames
                      THEN /\ g.lv[y] = 0 /\ y \notin free'
                           /\ \A k \in Frames, m \in Entries :
                                Leaf(g, k, m)' /\ entry'[k][m].frame = y => k = f /\ m = j
                      ELSE g.base[f] * Width + j \in Devices
    BY DEF LeafInv
  <2>2. Leaf(g, f, j) /\ entry[f][j].frame = y
    BY <1>5, <1>6
  <2>3. \A k \in Frames, m \in Entries :
          Leaf(g, k, m)' /\ entry'[k][m].frame = y => Leaf(g, k, m) /\ entry[k][m].frame = y
    BY <1>5, <1>6
  <2>4. IF y \in Frames
        THEN /\ g.lv[y] = 0 /\ y \notin free
             /\ \A k \in Frames, m \in Entries :
                  Leaf(g, k, m) /\ entry[k][m].frame = y => k = f /\ m = j
        ELSE g.base[f] * Width + j \in Devices
    BY <2>1, <2>2 DEF LeafInv
  <2> QED  BY <2>3, <2>4
<1>13. x \in Cleared(g)' /\ \A f \in Cleared(g) : f \in Cleared(g)'
  BY <1>1, <1>4
<1> QED  BY <1>2, <1>3, <1>5, <1>7, <1>8, <1>9, <1>10, <1>11, <1>12, <1>13 DEF TreeInv

\* The tables after table x, which entry i of table t leads to, has been cleared.
ClearsAs(c, t, i, x, e) ==
  /\ t \in Frames /\ x \in Frames /\ x # t /\ i \in Entries
  /\ EmptyTable \in [Entries -> EntryType] /\ \A j \in Entries : ~EmptyTable[j].present
  /\ e \in EntryType /\ e.present = entry[t][i].present /\ e.frame = entry[t][i].frame
  /\ e.locked /\ (call[c].user = TRUE => e.user /\ e.write)
  /\ entry' \in [Frames -> [Entries -> EntryType]] /\ entry'[t][i] = e /\ entry'[x] = EmptyTable
  /\ \A f \in Frames, j \in Entries : f # x /\ (f # t \/ j # i) => entry'[f][j] = entry[f][j]
  /\ \A f \in Frames : f # x /\ f # t => entry'[f] = entry[f]

\* This is what is done.
LEMMA ClearIs ==
  ASSUME NEW g, PagingInv(g), NEW c \in Cores, Clear(c)
  PROVE  ClearsAs(c, Here(c), Slot(c), Target(c), Attributed(c, entry[Here(c)][Slot(c)]))
<1> DEFINE t == Here(c)
           i == Slot(c)
           x == Target(c)
           e == Attributed(c, entry[t][i])
<1>1. call[c].do = "map" /\ Clearing(c)
  BY DEF Clear, Clearing
<1>2. t \in Frames /\ x \in Frames /\ x # t /\ i \in Entries /\ entry[t][i] \in EntryType
  <2>1. /\ t \in Cleared(g) /\ t \in Frames /\ i \in Entries /\ x \in Frames
    BY <1>1, ClearingIs
  <2>2. x \in Uncleared
    BY <1>1, UnclearedIs
  <2> QED  BY <2>1, <2>2 DEF Cleared, PagingInv, Typed
<1>3. entry' = [entry EXCEPT ![x] = EmptyTable, ![t][i] = Attributed(c, @)]
  <2>1. Table(cr3[c], call[c].at, call[c].level) = t /\ Index(call[c].level, call[c].at) = i
    BY TableIs DEF Here, TableOf, Slot, IndexOf
  <2>2. entry[t][i].frame = x
    BY DEF Target
  <2> QED  BY <2>1, <2>2 DEF Clear
<1>4. EmptyTable \in [Entries -> EntryType] /\ \A j \in Entries : ~EmptyTable[j].present
  BY Sizes DEF EmptyTable, Entry, EntryType, Entries
<1>5. /\ e \in EntryType /\ e.present = entry[t][i].present /\ e.frame = entry[t][i].frame
      /\ e.locked /\ (call[c].user = TRUE => e.user /\ e.write)
  <2>1. call[c].user \in BOOLEAN
    BY <1>1, CallIs DEF MapCall
  <2> QED  BY <1>2, <2>1 DEF Attributed, EntryType
<1>6. PICK E : E = [entry EXCEPT ![x] = EmptyTable]
  OBVIOUS
<1>7. /\ E \in [Frames -> [Entries -> EntryType]] /\ E[x] = EmptyTable
      /\ \A f \in Frames : f # x => E[f] = entry[f]
  BY <1>2, <1>4, <1>6 DEF PagingInv, Typed
<1>8. entry' = [E EXCEPT ![t][i] = e]
  BY <1>2, <1>3, <1>6, <1>7
<1> HIDE DEF t, i, x, e
<1>9. ClearsAs(c, t, i, x, e)
  BY <1>2, <1>4, <1>5, <1>7, <1>8 DEF ClearsAs
<1> QED  BY <1>9 DEF t, i, x, e

\* map clears the table it has entered.
LEMMA ClearKeeps ==
  ASSUME NEW g, PagingInv(g), NEW c \in Cores, Clear(c), IInv'
  PROVE  PagingInv(g)'
<1>1. PICK t, i, l, x, k, e :
        /\ t = Here(c) /\ i = Slot(c) /\ l = call[c].level /\ x = Target(c)
        /\ k = Down(c) /\ e = Attributed(c, entry[t][i])
  OBVIOUS
<1>2. /\ call[c].do = "map" /\ call[c].step = "clear" /\ Clearing(c)
      /\ Goes(c, k) /\ UNCHANGED <<spaceVars, free, pages, fault, calls>>
  BY <1>1 DEF Clear, Clearing
<1>3. /\ Walker(c) /\ l \in 2..Levels /\ l \in Locks(c) /\ t \in Cleared(g) /\ t \in Frames
      /\ g.lv[t] = l /\ i \in Entries /\ entry[t][i].present /\ LeadsOn(g, t, i)
      /\ IsChild(spaces, g, t, i, x) /\ x \in Frames /\ g.lv[x] = l - 1 /\ ~booting
      /\ entry[t][i] \in EntryType
  BY <1>1, <1>2, ClearingIs, IdleIs DEF PagingInv, Typed
<1>4. x \in Uncleared /\ x # t /\ g.lv[x] > 0
  <2>1. x \in Uncleared
    BY <1>1, <1>2, UnclearedIs
  <2> QED  BY <1>3, <2>1, Sizes DEF Cleared
<1>5. ClearsAs(c, t, i, x, e)
  BY <1>1, ClearIs
<1>6. /\ EmptyTable \in [Entries -> EntryType] /\ (\A j \in Entries : ~EmptyTable[j].present)
      /\ e \in EntryType /\ e.present = entry[t][i].present /\ e.frame = entry[t][i].frame
      /\ e.locked
  BY <1>5 DEF ClearsAs
<1>7. /\ entry' \in [Frames -> [Entries -> EntryType]] /\ entry'[t][i] = e /\ entry'[x] = EmptyTable
      /\ \A f \in Frames, j \in Entries : f # x /\ (f # t \/ j # i) => entry'[f][j] = entry[f][j]
      /\ \A f \in Frames : f # x /\ f # t => entry'[f] = entry[f]
  BY <1>5 DEF ClearsAs
<1>8. /\ k \in MapCall /\ k.do = "map" /\ k.step = "lock" /\ k.level = l - 1 /\ k.at = call[c].at
      /\ k.end = call[c].end /\ k.upto = call[c].upto /\ k.then = call[c].then
      /\ k.phys = call[c].phys
  <2>1. call[c] \in MapCall /\ l - 1 \in 1..Levels
    BY <1>2, <1>3, CallIs, Sizes
  <2> QED  BY <1>1, <2>1 DEF MapCall, Down
<1>9. AnyCall(k) /\ CallOK(k)
  <2>1. CallOK(call[c])
    BY CallIs
  <2> QED  BY <1>2, <1>8, <2>1 DEF AnyCall, CallOK, RangeOK, MapOK, Walks
<1>10. Typed' /\ call'[c] = k /\ \A d \in Cores \ {c} : call'[d] = call[d]
  <2>1. /\ free' \subseteq Frames /\ spaces' \subseteq Frames \ free' /\ cr3' \in [Cores -> spaces']
        /\ mutex' \in Cores \cup {Null} /\ booting' = booting /\ calls' \in Nat /\ fault' = fault
    BY <1>2 DEF PagingInv, Typed, spaceVars
  <2> QED  BY <1>2, <1>7, <1>9, <2>1, TypedOn
<1>11. /\ Alone(c) /\ ~Clearing(c)' /\ Walker(c)' /\ cr3'[c] = cr3[c] /\ making'[c] = making[c]
       /\ spaces' = spaces /\ free' = free /\ call'[c].at = call[c].at
  BY <1>2, <1>8, <1>10 DEF Alone, Clearing, Walker, spaceVars
<1>12. Grows(g)
  <2>1. \A f \in Cleared(g) : f \in Frames /\ f # x
    BY <1>4 DEF Cleared
  <2> QED  BY <1>6, <1>7, <2>1 DEF Grows
<1>13. Uncleared' = Uncleared \ {x}
  <2>1. \A d \in Cores \ {c} : (Clearing(d)' <=> Clearing(d))
          /\ (Clearing(d) => Target(d)' = Target(d))
    BY <1>11, <1>12, OtherTables, OtherTargets
  <2>2. \A d \in Cores \ {c} : Clearing(d) => Target(d) # x
    BY <1>1, <1>2, TargetsDiffer
  <2> QED  BY <1>1, <1>2, <1>11, <2>1, <2>2, UnclearedIs, UnclearedWillBe
<1>14. /\ TreeInv(g)' /\ LeafInv(g)' /\ x \in Cleared(g)'
       /\ \A f \in Cleared(g) : f \in Cleared(g)'
       /\ \A f \in Frames, j \in Entries :
            /\ Leaf(g, f, j)' <=> Leaf(g, f, j)
            /\ f \in Cleared(g) => /\ entry'[f][j].frame = entry[f][j].frame
                                   /\ entry'[f][j].present = entry[f][j].present
  <2>1. /\ \A j \in Entries : ~entry'[x][j].present
        /\ entry'[t][i].present = entry[t][i].present /\ entry'[t][i].frame = entry[t][i].frame
        /\ \A f \in Frames, j \in Entries : f # x /\ (f # t \/ j # i) => entry'[f][j] = entry[f][j]
    BY <1>6, <1>7
  <2>2. /\ PagingInv(g) /\ x \in Frames /\ x \in Uncleared /\ g.lv[x] > 0 /\ t \in Cleared(g)
        /\ i \in Entries /\ Uncleared' = Uncleared \ {x} /\ spaces' = spaces /\ free' = free
    BY <1>3, <1>4, <1>11, <1>13
  <2> QED  BY ONLY <2>1, <2>2, ClearTree
<1>15. Unlocks(g, c)
  <2>1. \A f \in Cleared(g) : f \in Frames /\ f # x
    BY <1>4 DEF Cleared
  <2> QED  BY <1>6, <1>7, <2>1 DEF Unlocks
<1>16. NewLocks(c)
  <2>1. Locks(c)' = l..Levels
    BY <1>3, <1>8, <1>10, <1>11, Sizes DEF Locks
  <2>2. \A m \in Locks(c) : m # l => entry'[TableOf(c, m)][IndexOf(c, m)].locked
    <3> SUFFICES ASSUME NEW m \in Locks(c), m # l PROVE entry'[TableOf(c, m)][IndexOf(c, m)].locked
      OBVIOUS
    <3>1. entry[TableOf(c, m)][IndexOf(c, m)].locked /\ TableOf(c, m) \in Frames
          /\ IndexOf(c, m) \in Entries /\ TableOf(c, m) # x
      BY <1>4, LockIs DEF PagingInv, CoreInv, LocksOK, Cleared
    <3> QED  BY <1>6, <1>7, <3>1
  <2>3. /\ PagingInv(g) /\ c \in Cores /\ Walker(c) /\ Grows(g) /\ call'[c].at = call[c].at
        /\ cr3'[c] = cr3[c] /\ l = call[c].level /\ t = Here(c) /\ i = Slot(c)
        /\ entry'[t][i].locked
        /\ l \in Locks(c)
    BY <1>1, <1>3, <1>6, <1>7, <1>11, <1>12
  <2> QED  BY ONLY <2>1, <2>2, <2>3, MyLocks
<1>17. Mild(g, g, c)
  <2>1. Keeps(g, g)
    BY DEF Keeps
  <2> QED  BY <1>11, <1>12, <1>15, <1>16, <2>1 DEF Mild
<1>18. ASSUME NEW y \in Frames, NEW d \in Cores, Taken(d, y)
       PROVE  Untouched(g, g, y) /\ entry'[y] = entry[y]
  <2>1. y \notin free /\ g.lv[y] = 0
    BY <1>18, TakenIs
  <2>2. y # x /\ y # t
    BY <1>3, <1>4, <2>1, Sizes
  <2>3. \A f \in Frames, j \in Entries : Leaf(g, f, j)' /\ entry'[f][j].frame = y =>
          Leaf(g, f, j) /\ entry[f][j].frame = y
    BY <1>14 DEF Leaf
  <2> QED  BY <1>7, <1>11, <2>1, <2>2, <2>3 DEF Untouched
<1>19. Quiet(g, g, c)
  BY <1>18 DEF Quiet
<1>20. /\ call[c].do \in Walks /\ call'[c].do = call[c].do /\ call'[c].then = call[c].then
       /\ call[c].do = "map" /\ call'[c].step # "done" =>
            call[c].step # "done" /\ (call'[c].phys \in Frames => call'[c].phys = call[c].phys)
       /\ call[c].do = "unmap" => call'[c].step # "done"
  BY <1>2, <1>8, <1>10 DEF Walks
<1>21. CarriedOK(g, c)' /\ MadeOK(g, c)'
  BY <1>11, <1>17, <1>18, <1>20, GoingOn
<1>22. Fresh(c)
  BY <1>11, <1>20, NotFresh
<1>23. WalkOK(g, c)'
  <2>1. entry'[t][i].present /\ entry'[t][i].frame = x
    BY <1>1, <1>3, <1>6, <1>7 DEF Target
  <2>2. PICK s, p : s = cr3[c] /\ p = call[c].at
    OBVIOUS
  <2>3. PathIn(entry', Cleared(g)', g, s, p, l - 1)
    <3>1. /\ PagingInv(g) /\ c \in Cores /\ Walker(c) /\ Grows(g) /\ l \in 2..Levels
          /\ l = call[c].level /\ t = Here(c) /\ i = Slot(c)
          /\ \A f \in Cleared(g) : f \in Cleared(g)'
      BY <1>1, <1>3, <1>12, <1>14
    <3>2. x \in Cleared(g)' /\ IsChild(spaces, g, t, i, x)
      BY <1>3, <1>14
    <3> QED  BY ONLY <2>1, <2>2, <3>1, <3>2, OneDown
  <2> QED  BY <1>8, <1>10, <1>11, <2>2, <2>3 DEF WalkOK, Path
<1>24. PageInv(g)' /\ PagesAre'
  <2>1. \A f \in Cleared(g), j \in Entries : /\ entry'[f][j].present = entry[f][j].present
                                             /\ entry'[f][j].frame = entry[f][j].frame
    BY <1>14 DEF Cleared
  <2> QED  BY <1>2, <1>17, <2>1, PagesStay
<1>25. BootInv'
  BY <1>2, <1>3 DEF BootInv, spaceVars
<1>26. g \in Ghosts
  BY DEF PagingInv
<1> QED
  BY <1>10, <1>14, <1>17, <1>19, <1>21, <1>22, <1>23, <1>24, <1>25, <1>26, MildStep

------------------------------------------------------------------------------
(* The next page                                                           *)

\* The way to the next page is shared down to where the walk goes on.
LEMMA PathNext ==
  ASSUME NEW E, NEW C, NEW g, NEW s, NEW q \in Pages, NEW p \in Nat, NEW l \in 1..Levels,
         \A k \in l..Levels : p \div Width^k = q \div Width^k,
         \A k \in (l + 1)..Levels : Index(k, p) = Index(k, q),
         PathIn(E, C, g, s, p, 1)
  PROVE  /\ PathIn(E, C, g, s, q, l)
         /\ \A k \in l..Levels : TableIn(E, s, q, k) = TableIn(E, s, p, k)
<1> DEFINE S == {k \in l..Levels : TableIn(E, s, q, k) = TableIn(E, s, p, k)}
<1>1. Levels \in S
  BY TableTop, Sizes
<1>2. ASSUME NEW k \in l..(Levels - 1), k + 1 \in S PROVE k \in S
  <2>1. k \in 1..(Levels - 1) /\ k \in l..Levels /\ k + 1 \in (l + 1)..Levels
    BY Sizes
  <2>2. /\ TableIn(E, s, q, k) = E[TableIn(E, s, q, k + 1)][Index(k + 1, q)].frame
        /\ TableIn(E, s, p, k) = E[TableIn(E, s, p, k + 1)][Index(k + 1, p)].frame
    BY <2>1, TableBelow
  <2>3. Index(k + 1, p) = Index(k + 1, q) /\ TableIn(E, s, q, k + 1) = TableIn(E, s, p, k + 1)
    BY <1>2, <2>1
  <2>4. TableIn(E, s, q, k) = TableIn(E, s, p, k)
    BY <2>2, <2>3, Zenon
  <2> QED  BY <2>1, <2>4
<1>3. S = l..Levels
  <2>1. Levels \in Nat /\ S \in SUBSET (l..Levels)
    BY Sizes
  <2> HIDE DEF S
  <2> QED  BY <2>1, <1>1, <1>2, Downward
<1>4. l < Levels => Owner(s, p) = Owner(s, q)
  <2>1. l < Levels => Levels \in (l + 1)..Levels
    BY Sizes
  <2>2. l < Levels => Half(p) = Half(q)
    BY <2>1 DEF Half
  <2> QED  BY <2>2 DEF Owner
<1>5. ASSUME NEW k \in l..Levels
      PROVE  LET t == TableIn(E, s, q, k) IN
             /\ t \in C /\ g.lv[t] = k /\ g.base[t] = q \div Width^k
             /\ k < Levels => g.own[t] = Owner(s, q)
             /\ k > l => E[t][Index(k, q)].present
  <2>1. k \in 1..Levels /\ (k > l => k \in (l + 1)..Levels /\ k > 1) /\ (k < Levels => l < Levels)
    BY Sizes
  <2>2. PICK t : t = TableIn(E, s, p, k) /\ t = TableIn(E, s, q, k)
    BY <1>3
  <2>3. /\ t \in C /\ g.lv[t] = k /\ g.base[t] = p \div Width^k
        /\ k < Levels => g.own[t] = Owner(s, p)
        /\ k > 1 => E[t][Index(k, p)].present
    BY <2>1, <2>2 DEF PathIn
  <2>4. g.base[t] = q \div Width^k
    BY <2>3
  <2>5. k > l => E[t][Index(k, q)].present
    BY <2>1, <2>3
  <2> QED  BY <1>4, <2>1, <2>2, <2>3, <2>4, <2>5
<1> QED  BY <1>3, <1>5 DEF PathIn

\* Entry i of table t becomes e, and the entries core c has locked up to a level are unlocked.
Released(c, t, i, e, l) ==
  /\ entry' \in [Frames -> [Entries -> EntryType]]
  /\ entry'[t][i].present = e.present /\ entry'[t][i].frame = e.frame /\ ~entry'[t][i].locked
  /\ entry'[t][i].user = e.user /\ entry'[t][i].write = e.write
  /\ \A f \in Frames, j \in Entries : f # t \/ j # i =>
       /\ entry'[f][j].present = entry[f][j].present /\ entry'[f][j].frame = entry[f][j].frame
       /\ entry'[f][j].user = entry[f][j].user /\ entry'[f][j].write = entry[f][j].write
       /\ \/ entry'[f][j] = entry[f][j]
          \/ \E k \in Locks(c) : k <= l /\ f = TableOf(c, k) /\ j = IndexOf(c, k)

\* The call goes on.
NextCall(c, l) == [call[c] EXCEPT !.at = call[c].at + 1, !.phys = @ + 1,
                                  !.step = IF l > Levels THEN "done" ELSE "lock",
                                  !.level = IF l > Levels THEN Levels ELSE l]

\* After a page the locks are released up to the level where the next one starts.
LEMMA AdvanceIs ==
  ASSUME NEW g, PagingInv(g), NEW c \in Cores, Walker(c), call[c].step = "lock", call[c].level = 1,
         NEW e \in EntryType, Advance(c, e), NEW t, t = Here(c), NEW i, i = Slot(c),
         NEW l, l = NextLevel(call[c].at + 1, call[c].end)
  PROVE  /\ Released(c, t, i, e, l)
         /\ Goes(c, NextCall(c, l))
<1>1. PICK m : m = IF l > Levels THEN Levels ELSE l
  OBVIOUS
<1>2. PICK released : released = {<<TableOf(c, k), IndexOf(c, k)>> : k \in 1..m}
  OBVIOUS
<1>3. PICK place : place = <<t, i>>
  OBVIOUS
<1>4. place = <<Table(cr3[c], call[c].at, 1), Index(1, call[c].at)>>
  BY <1>3, TableIs DEF Here, TableOf, Slot, IndexOf
<1>5. released = {<<Table(cr3[c], call[c].at, k), Index(k, call[c].at)>> : k \in 1..m}
  BY <1>2, TableIs DEF TableOf, IndexOf
<1>6. /\ entry' = [f \in Frames |-> [j \in Entries |->
                    LET x == IF <<f, j>> = place THEN e ELSE entry[f][j] IN
                    IF <<f, j>> \in released THEN [x EXCEPT !.locked = FALSE] ELSE x]]
      /\ Goes(c, NextCall(c, l))
  BY <1>1, <1>4, <1>5, Zenon DEF Advance, Entries, NextCall
<1>7. entry \in [Frames -> [Entries -> EntryType]]
  BY DEF PagingInv, Typed
<1>8. \A y \in EntryType : /\ [y EXCEPT !.locked = FALSE] \in EntryType
                           /\ [y EXCEPT !.locked = FALSE].present = y.present
                           /\ [y EXCEPT !.locked = FALSE].frame = y.frame
                           /\ [y EXCEPT !.locked = FALSE].user = y.user
                           /\ [y EXCEPT !.locked = FALSE].write = y.write
                           /\ ~[y EXCEPT !.locked = FALSE].locked
  BY DEF EntryType
<1>9. t \in Frames /\ i \in Entries
  BY HereIs
<1>10. m \in 1..Levels /\ m <= l /\ l \in Nat
  <2>1. PICK q : q = call[c].at + 1
    OBVIOUS
  <2>2. q = call[c].end => l = Levels + 1
    BY <2>1 DEF NextLevel
  <2>3. q # call[c].end => l \in 1..Levels
    <3>1. q # call[c].end => q \in Pages /\ q # 0
      <4>1. call[c].at \in Nat /\ call[c].at < call[c].end /\ call[c].end \in Nat
        BY WalkerIs
      <4>2. call[c].end - 1 \in Pages
        BY CallIs DEF CallOK, RangeOK, Walks, Walker
      <4>3. PICK w \in Nat : w = Width^Levels
        BY Powers, Sizes
      <4> QED  BY <2>1, <4>1, <4>2, <4>3 DEF Pages
    <3> QED  BY <2>1, <3>1, NextLevels
  <2> QED  BY <1>1, <2>2, <2>3, Sizes
<1>11. <<t, i>> \in released
  <2>1. 1 \in 1..m
    BY <1>10, Sizes
  <2> QED  BY <1>2, <2>1 DEF Here, Slot
<1>12. entry' \in [Frames -> [Entries -> EntryType]]
  BY <1>6, <1>7, <1>8
<1>13. /\ entry'[t][i].present = e.present /\ entry'[t][i].frame = e.frame /\ ~entry'[t][i].locked
       /\ entry'[t][i].user = e.user /\ entry'[t][i].write = e.write
  BY <1>3, <1>6, <1>8, <1>9, <1>11
<1>14. ASSUME NEW f \in Frames, NEW j \in Entries, f # t \/ j # i
       PROVE  /\ entry'[f][j].present = entry[f][j].present
              /\ entry'[f][j].frame = entry[f][j].frame
              /\ entry'[f][j].user = entry[f][j].user /\ entry'[f][j].write = entry[f][j].write
              /\ \/ entry'[f][j] = entry[f][j]
                 \/ \E k \in Locks(c) : k <= l /\ f = TableOf(c, k) /\ j = IndexOf(c, k)
  <2>1. <<f, j>> # place
    BY <1>3, <1>14
  <2>2. CASE <<f, j>> \notin released
    BY <1>6, <2>1, <2>2
  <2>3. CASE <<f, j>> \in released
    <3>1. entry'[f][j] = [entry[f][j] EXCEPT !.locked = FALSE]
      BY <1>6, <2>1, <2>3
    <3>2. PICK k \in 1..m : f = TableOf(c, k) /\ j = IndexOf(c, k)
      BY <1>2, <2>3
    <3>3. k # 1
      BY <1>14, <3>2 DEF Here, Slot
    <3>4. k \in Locks(c) /\ k <= l
      <4>1. k \in 1..Levels /\ k > 1 /\ k <= l
        BY <1>10, <3>3, Sizes
      <4> QED  BY <4>1 DEF Locks
    <3>5. entry[f][j] \in EntryType
      BY <1>7
    <3>6. /\ entry'[f][j].present = entry[f][j].present /\ entry'[f][j].frame = entry[f][j].frame
          /\ entry'[f][j].user = entry[f][j].user /\ entry'[f][j].write = entry[f][j].write
      BY <1>8, <3>1, <3>5
    <3> QED  BY <3>2, <3>4, <3>6
  <2> QED  BY <2>2, <2>3
<1> QED  BY <1>6, <1>12, <1>13, <1>14 DEF Released

\* What a walk that goes on is.
GoesOnTo(c, k, l) ==
  /\ k.step \in {"lock", "done"} /\ k.do = call[c].do /\ k.at = call[c].at + 1
  /\ k.step = "lock" =>
       /\ l \in 1..Levels /\ k.level = l /\ k.at \in Pages
       /\ \A j \in l..Levels : call[c].at \div Width^j = k.at \div Width^j
       /\ \A j \in (l + 1)..Levels : Index(j, call[c].at) = Index(j, k.at)

\* The call goes on with the next page, or ends.
LEMMA AdvanceCall ==
  ASSUME NEW g, PagingInv(g), NEW c \in Cores, Walker(c), call[c].step = "lock", call[c].level = 1,
         NEW l, l = NextLevel(call[c].at + 1, call[c].end),
         NEW k, k = NextCall(c, l)
  PROVE  /\ AnyCall(k) /\ CallOK(k) /\ k.then = call[c].then /\ GoesOnTo(c, k, l)
         /\ k.do = "map" /\ k.step # "done" => k.phys \notin Frames
<1>1. PICK p, q, end : p = call[c].at /\ q = p + 1 /\ end = call[c].end
  OBVIOUS
<1>2. /\ p \in Nat /\ q \in Nat /\ end \in Nat /\ p < end /\ p \in Pages /\ q # 0 /\ p = q - 1
      /\ end - 1 \in Pages /\ call[c].do \in {"map", "unmap"}
  <2>1. /\ call[c].at \in Nat /\ call[c].at \in Pages /\ call[c].at < call[c].end
        /\ call[c].end \in Nat
    BY WalkerIs
  <2>2. call[c].end - 1 \in Pages
    BY CallIs DEF CallOK, RangeOK, Walks, Walker
  <2> QED  BY <1>1, <2>1, <2>2 DEF Walker
<1>3. q = end => l = Levels + 1
  BY <1>1 DEF NextLevel
<1>4. q # end => /\ q \in Pages /\ q < end /\ l \in 1..Levels
                 /\ \A j \in l..Levels : p \div Width^j = q \div Width^j
                 /\ \A j \in (l + 1)..Levels : Index(j, p) = Index(j, q)
  <2> SUFFICES ASSUME q # end
               PROVE  /\ q \in Pages /\ q < end /\ l \in 1..Levels
                      /\ \A j \in l..Levels : p \div Width^j = q \div Width^j
                      /\ \A j \in (l + 1)..Levels : Index(j, p) = Index(j, q)
    OBVIOUS
  <2>1. q \in Pages /\ q < end
    <3>1. PICK w \in Nat : w = Width^Levels
      BY Powers, Sizes
    <3> QED  BY <1>1, <1>2, <3>1 DEF Pages
  <2>2. l = NextLevel(q, end)
    BY <1>1
  <2> QED  BY <1>2, <2>1, <2>2, NextLevels
<1>5. PICK step, level : /\ step = (IF l > Levels THEN "done" ELSE "lock")
                         /\ level = (IF l > Levels THEN Levels ELSE l)
  OBVIOUS
<1>6. /\ step \in {"lock", "done"} /\ level \in 1..Levels /\ (step = "done" <=> q = end)
      /\ step = "lock" => level = l
      /\ step = "done" => l > Levels /\ l \in Nat
  <2>1. CASE q = end
    BY <1>3, <1>5, <2>1, Sizes
  <2>2. CASE q # end
    <3>1. l \in 1..Levels /\ ~(l > Levels)
      BY <1>4, <2>2, Sizes
    <3> QED  BY <1>5, <2>2, <3>1
  <2> QED  BY <2>1, <2>2
<1>7. k = [call[c] EXCEPT !.at = q, !.phys = @ + 1, !.step = step, !.level = level]
  BY <1>1, <1>5 DEF NextCall
<1>8. CASE call[c].do = "map"
  <2>1. call[c] \in MapCall /\ CallOK(call[c])
    BY <1>8, CallIs
  <2>2. /\ k \in MapCall /\ k.do = "map" /\ k.at = q /\ k.step = step /\ k.level = level
        /\ k.end = end /\ k.upto = call[c].upto /\ k.then = call[c].then
        /\ k.phys = call[c].phys + 1 /\ call[c].phys \in Nat
    <3>1. PICK y \in MapCall : y = call[c]
      BY <2>1
    <3>2. k = [y EXCEPT !.at = q, !.phys = @ + 1, !.step = step, !.level = level]
      BY <1>7, <3>1
    <3>3. q \in Nat /\ step \in {"lock", "done"} /\ level \in 1..Levels /\ y.phys + 1 \in Nat
      BY <1>2, <1>6 DEF MapCall
    <3>4. end = y.end
      BY <1>1, <3>1
    <3>5. /\ k \in MapCall /\ k.do = y.do /\ k.at = q /\ k.step = step /\ k.level = level
          /\ k.end = y.end /\ k.upto = y.upto /\ k.then = y.then /\ k.phys = y.phys + 1
          /\ y.phys \in Nat
      BY ONLY <3>2, <3>3 DEF MapCall
    <3> QED  BY <1>8, <3>1, <3>4, <3>5
  <2>3. RangeOK(call[c]) /\ MapOK(call[c]) /\ call[c].step # "done"
    BY <1>8, <2>1 DEF CallOK, Walks
  <2>4. step # "done" => k.phys > NFrames /\ k.phys \notin Frames /\ q..(end - 1) \subseteq Devices
    <3> SUFFICES ASSUME step # "done"
                 PROVE  k.phys > NFrames /\ k.phys \notin Frames /\ q..(end - 1) \subseteq Devices
      OBVIOUS
    <3>1. call[c].phys \notin Frames
      BY <1>1, <1>2, <1>6, <2>3 DEF MapOK
    <3>2. call[c].phys > NFrames /\ p..(end - 1) \subseteq Devices
      BY <1>1, <2>3, <3>1 DEF MapOK
    <3>3. k.phys > NFrames /\ k.phys \notin Frames
      BY <2>2, <3>2, Sizes DEF Frames
    <3>4. q..(end - 1) \subseteq p..(end - 1)
      BY <1>2
    <3> QED  BY <3>2, <3>3, <3>4
  <2>5. MapOK(k)
    BY <1>6, <2>2, <2>4 DEF MapOK
  <2>6. RangeOK(k)
    <3>1. /\ end - 1 \in Pages /\ call[c].upto - 1 \in Pages /\ end <= call[c].upto
          /\ call[c].do # "map" => end = call[c].upto
          /\ call[c].then \in {"zero", "set_foreign"} =>
               end = Scratch + 1 /\ call[c].upto = end /\ p = Scratch
      BY <1>1, <2>3 DEF RangeOK
    <3>2. IF step = "done" THEN q = end ELSE q < end
      BY <1>4, <1>6
    <3>3. call[c].then \in {"zero", "set_foreign"} => step = "done"
      BY <1>1, <1>6, <3>1
    <3> QED  BY <2>2, <3>1, <3>2, <3>3 DEF RangeOK
  <2>7. CallOK(k) /\ AnyCall(k)
    BY <2>2, <2>5, <2>6 DEF CallOK, AnyCall
  <2> QED  BY <1>1, <1>4, <1>6, <1>8, <2>2, <2>4, <2>7 DEF GoesOnTo
<1>9. CASE call[c].do = "unmap"
  <2>1. call[c] \in UnmapCall /\ CallOK(call[c])
    BY <1>9, CallIs
  <2>2. /\ k \in UnmapCall /\ k.do = "unmap" /\ k.at = q /\ k.step = step /\ k.level = level
        /\ k.end = end /\ k.upto = call[c].upto /\ k.then = call[c].then
        /\ k.push = call[c].push
    <3>1. PICK y \in UnmapCall : y = call[c]
      BY <2>1
    <3>2. k = [y EXCEPT !.at = q, !.phys = @ + 1, !.step = step, !.level = level]
      BY <1>7, <3>1
    <3>3. q \in Nat /\ step \in {"lock", "done"} /\ level \in 1..Levels /\ y.phys + 1 \in Nat
      BY <1>2, <1>6 DEF UnmapCall
    <3>4. end = y.end
      BY <1>1, <3>1
    <3>5. /\ k \in UnmapCall /\ k.do = y.do /\ k.at = q /\ k.step = step /\ k.level = level
          /\ k.end = y.end /\ k.upto = y.upto /\ k.then = y.then /\ k.phys = y.phys + 1
          /\ y.phys \in Nat /\ k.push = y.push
      BY ONLY <3>2, <3>3 DEF UnmapCall
    <3> QED  BY <1>9, <3>1, <3>4, <3>5
  <2>3. RangeOK(call[c]) /\ UnmapOK(call[c]) /\ call[c].step # "done"
    BY <1>9, <2>1 DEF CallOK, Walks
  <2>4. UnmapOK(k)
    <3>1. q..(end - 1) \subseteq p..(end - 1)
      BY <1>2
    <3> QED  BY <1>1, <2>2, <2>3, <3>1 DEF UnmapOK
  <2>6. RangeOK(k)
    <3>1. /\ end - 1 \in Pages /\ call[c].upto - 1 \in Pages /\ end <= call[c].upto
          /\ call[c].do # "map" => end = call[c].upto
          /\ call[c].then \in {"zero", "set_foreign"} =>
               end = Scratch + 1 /\ call[c].upto = end /\ p = Scratch
      BY <1>1, <2>3 DEF RangeOK
    <3>2. IF step = "done" THEN q = end ELSE q < end
      BY <1>4, <1>6
    <3>3. call[c].then \in {"zero", "set_foreign"} => step = "done"
      BY <1>1, <1>6, <3>1
    <3> QED  BY <1>9, <2>2, <3>1, <3>2, <3>3 DEF RangeOK
  <2>7. CallOK(k) /\ AnyCall(k)
    BY <2>2, <2>4, <2>6 DEF CallOK, AnyCall
  <2> QED  BY <1>1, <1>4, <1>6, <1>9, <2>2, <2>7 DEF GoesOnTo
<1> QED  BY <1>2, <1>8, <1>9

\* The core keeps the locks above where it goes on.
LEMMA AdvanceMild ==
  ASSUME NEW g, PagingInv(g), NEW c \in Cores, Walker(c), call[c].step = "lock", call[c].level = 1,
         NEW t, t = Here(c), NEW i, i = Slot(c), ~entry[t][i].locked,
         NEW e, NEW l, Released(c, t, i, e, l), NEW k, GoesOnTo(c, k, l), call'[c] = k,
         Alone(c), cr3' = cr3, spaces' = spaces
  PROVE  /\ Mild(g, g, c) /\ WalkOK(g, c)'
         /\ Uncleared' = Uncleared /\ Cleared(g)' = Cleared(g)
         /\ t \in Cleared(g) /\ t \in Frames /\ g.lv[t] = 1 /\ i \in Entries
         /\ \A x \in Frames : g.lv[x] = 0 => entry'[x] = entry[x]
<1>1. PICK s, p, q : s = cr3[c] /\ p = call[c].at /\ q = k.at
  OBVIOUS
<1>2. /\ p \in Nat /\ p \in Pages /\ Path(g, s, p, 1) /\ 1 \in 1..Levels
  BY <1>1, WalkerIs, Sizes DEF PagingInv, CoreInv, WalkOK
<1>3. /\ t \in Cleared(g) /\ t \in Frames /\ g.lv[t] = 1 /\ i \in Entries
  BY HereIs
<1>4. \A f \in Frames, j \in Entries : f # t \/ j # i =>
        /\ entry'[f][j].present = entry[f][j].present /\ entry'[f][j].frame = entry[f][j].frame
        /\ \/ entry'[f][j] = entry[f][j]
           \/ \E m \in Locks(c) : m <= l /\ f = TableOf(c, m) /\ j = IndexOf(c, m)
  BY DEF Released
<1>5. Locks(c) = 2..Levels /\ ~Clearing(c) /\ ~Clearing(c)'
  <2>1. ~Clearing(c) /\ ~Clearing(c)' /\ call[c].do # "query"
    BY DEF Clearing, Walker, GoesOnTo
  <2>2. Locks(c) = {m \in 1..Levels : m > 1}
    BY <2>1 DEF Locks
  <2> QED  BY <2>1, <2>2, Sizes
<1>6. \A f \in Cleared(g) : f \in Frames
  BY DEF Cleared
<1>7. Grows(g)
  <2> SUFFICES ASSUME NEW f \in Cleared(g), NEW j \in Entries, g.lv[f] >= 2, entry[f][j].present
               PROVE  entry'[f][j].present /\ entry'[f][j].frame = entry[f][j].frame
    BY DEF Grows
  <2>1. f # t
    BY <1>3
  <2> QED  BY <1>4, <1>6, <2>1
<1>8. Unlocks(g, c)
  BY <1>4, <1>6 DEF Unlocks
<1>9. Uncleared' = Uncleared
  <2>1. \A d \in Cores : /\ Clearing(d)' <=> Clearing(d)
                         /\ Clearing(d) => Target(d)' = Target(d)
    <3> TAKE d \in Cores
    <3>1. CASE d = c
      BY <3>1, <1>5
    <3>2. CASE d # c
      BY <1>7, <3>2, OtherTables, OtherTargets
    <3> QED  BY <3>1, <3>2
  <2> QED  BY <2>1, UnclearedIs, UnclearedWillBe
<1>10. Cleared(g)' = Cleared(g)
  BY <1>9 DEF Cleared
<1>11. ASSUME NEW x \in Frames, g.lv[x] = 0 PROVE entry'[x] = entry[x]
  <2>1. x # t /\ \A m \in Locks(c) : x # TableOf(c, m)
    <3>1. \A m \in Locks(c) : g.lv[TableOf(c, m)] = m /\ m # 0
      BY LockIs, Sizes
    <3> QED  BY <1>3, <1>11, <3>1
  <2>2. \A j \in Entries : entry'[x][j] = entry[x][j]
    BY <1>4, <2>1
  <2>3. entry'[x] \in [Entries -> EntryType] /\ entry[x] \in [Entries -> EntryType]
    BY DEF Released, PagingInv, Typed
  <2> QED  BY <2>2, <2>3
<1>12. Walker(c)' <=> k.step = "lock"
  BY DEF Walker, GoesOnTo
<1>13. ASSUME k.step = "lock"
       PROVE  /\ l \in 1..Levels /\ k.level = l /\ q \in Pages /\ Path(g, s, q, l)
              /\ \A m \in l..Levels : TableIn(entry, s, q, m) = TableIn(entry, s, p, m)
              /\ \A m \in (l + 1)..Levels : Index(m, p) = Index(m, q)
  <2>1. /\ l \in 1..Levels /\ k.level = l /\ q \in Pages /\ p \in Nat
        /\ \A m \in l..Levels : p \div Width^m = q \div Width^m
        /\ \A m \in (l + 1)..Levels : Index(m, p) = Index(m, q)
    BY <1>1, <1>2, <1>13 DEF GoesOnTo
  <2>2. PathIn(entry, Cleared(g), g, s, p, 1)
    BY <1>2 DEF Path
  <2>3. /\ PathIn(entry, Cleared(g), g, s, q, l)
        /\ \A m \in l..Levels : TableIn(entry, s, q, m) = TableIn(entry, s, p, m)
    BY ONLY <2>1, <2>2, PathNext
  <2> QED  BY <2>1, <2>3 DEF Path
<1>14. ASSUME k.step = "lock"
       PROVE  /\ q \in Nat /\ PathIn(entry', Cleared(g)', g, s, q, l)
              /\ \A m \in l..Levels : TableIn(entry', s, q, m) = TableIn(entry, s, p, m)
  <2>1. l \in 1..Levels /\ q \in Nat /\ Path(g, s, q, l)
        /\ \A m \in l..Levels : TableIn(entry, s, q, m) = TableIn(entry, s, p, m)
    BY <1>13, <1>14, TopDigit
  <2>2. Keeps(g, g) /\ \A f \in Cleared(g) : f \in Cleared(g)'
    BY <1>10 DEF Keeps
  <2>3. PathIn(entry', Cleared(g)', g, s, q, l)
    BY <1>7, <2>1, <2>2, PathsStay
  <2>4. \A m \in l..Levels : TableIn(entry', s, q, m) = TableIn(entry, s, q, m)
    BY <1>7, <2>1, WaysStay
  <2> QED  BY <2>1, <2>3, <2>4
<1>15. WalkOK(g, c)'
  <2>1. k.step = "lock" => Path(g, cr3[c], call[c].at, call[c].level)'
    BY <1>1, <1>13, <1>14 DEF Path
  <2> QED  BY <1>5, <1>12, <2>1 DEF WalkOK
<1>16. NewLocks(c)
  <2>1. CASE k.step # "lock"
    <3>1. Locks(c)' = {}
      BY <1>5, <1>12, <2>1 DEF Locks, GoesOnTo, Walker
    <3> QED  BY <3>1 DEF NewLocks
  <2>2. CASE k.step = "lock"
    <3>1. Locks(c)' = {m \in 1..Levels : m > l}
      BY <1>5, <1>12, <1>13, <2>2 DEF Locks, GoesOnTo, Walker
    <3> SUFFICES ASSUME NEW m \in Locks(c)'
                 PROVE  /\ m \in Locks(c) /\ TableOf(c, m)' = TableOf(c, m)
                        /\ IndexOf(c, m)' = IndexOf(c, m)
                        /\ entry'[TableOf(c, m)][IndexOf(c, m)].locked
      BY DEF NewLocks
    <3>2. m \in Locks(c) /\ m > l /\ m \in l..Levels /\ m \in (l + 1)..Levels /\ l \in Nat
      BY <1>5, <1>13, <2>2, <3>1, Sizes
    <3>3. TableOf(c, m)' = TableOf(c, m)
      BY <1>1, <1>14, <2>2, <3>2 DEF TableOf
    <3>4. IndexOf(c, m)' = IndexOf(c, m)
      BY <1>1, <1>13, <2>2, <3>2 DEF IndexOf
    <3>5. entry[TableOf(c, m)][IndexOf(c, m)].locked
      BY <3>2 DEF PagingInv, CoreInv, LocksOK
    <3>6. /\ TableOf(c, m) \in Frames /\ g.lv[TableOf(c, m)] = m /\ IndexOf(c, m) \in Entries
          /\ m \in 2..Levels
      BY <1>5, <3>2, LockIs
    <3>7. \A n \in Locks(c) : n <= l => TableOf(c, n) # TableOf(c, m)
      <4>1. \A n \in Locks(c) : g.lv[TableOf(c, n)] = n
        BY LockIs
      <4> QED  BY <1>5, <3>2, <3>6, <4>1
    <3>8. TableOf(c, m) # t
      BY <1>3, <3>6
    <3>9. entry'[TableOf(c, m)][IndexOf(c, m)] = entry[TableOf(c, m)][IndexOf(c, m)]
      BY <1>4, <3>6, <3>7, <3>8
    <3> QED  BY <3>2, <3>3, <3>4, <3>5, <3>9
  <2> QED  BY <2>1, <2>2
<1>17. Mild(g, g, c)
  <2>1. Keeps(g, g)
    BY DEF Keeps
  <2> QED  BY <1>5, <1>7, <1>8, <1>16, <2>1 DEF Mild
<1> QED  BY <1>3, <1>9, <1>10, <1>11, <1>15, <1>17

\* A step that changes only what the last tables lead to leaves the tree as it is.
LEMMA LowTree ==
  ASSUME NEW g, PagingInv(g), Uncleared' = Uncleared, spaces' = spaces,
         \A f \in free' : g.lv[f] = 0,
         \A f \in Frames, j \in Entries : g.lv[f] >= 2 =>
           entry'[f][j].present = entry[f][j].present /\ entry'[f][j].frame = entry[f][j].frame
  PROVE  TreeInv(g)'
<1>1. \A f \in Frames, j \in Entries :
        /\ LeadsOn(g, f, j)' <=> LeadsOn(g, f, j)
        /\ LeadsOn(g, f, j) => entry'[f][j].frame = entry[f][j].frame
  BY DEF LeadsOn, Cleared
<1>2. SpacesAreTop(g)'
  BY DEF PagingInv, TreeInv, SpacesAreTop
<1>3. FreeIsNoTable(g)'
  BY DEF FreeIsNoTable
<1>4. Children(g)'
  BY <1>1 DEF PagingInv, TreeInv, Children, IsChild
<1>5. OneParent(g)'
  BY <1>1 DEF PagingInv, TreeInv, OneParent
<1>6. UpperIsShared'
  <2> SUFFICES ASSUME NEW s \in spaces, NEW j \in KernelIndexes
               PROVE  entry'[s][j].present /\ entry'[s][j].frame = entry'[BootRoot][j].frame
    BY DEF UpperIsShared
  <2>1. /\ s \in Frames /\ g.lv[s] >= 2 /\ BootRoot \in Frames /\ g.lv[BootRoot] >= 2
        /\ j \in Entries
    BY SpaceIs, Sizes DEF PagingInv, TreeInv, SpacesAreTop
  <2> QED  BY <2>1 DEF PagingInv, TreeInv, UpperIsShared
<1> QED  BY <1>2, <1>3, <1>4, <1>5, <1>6 DEF TreeInv

------------------------------------------------------------------------------
(* Steps at the page table                                                 *)

\* Where a walk is at a page.
LEMMA PageIs ==
  ASSUME NEW g, PagingInv(g), NEW c \in Cores, Walker(c), call[c].level = 1
  PROVE  /\ call[c].at \in Pages /\ call[c].at \in Nat /\ cr3[c] \in spaces /\ ~booting
         /\ Path(g, cr3[c], call[c].at, 1) /\ Here(c) = TableIn(entry, cr3[c], call[c].at, 1)
         /\ Slot(c) = Index(1, call[c].at) /\ g.own[Here(c)] = Owner(cr3[c], call[c].at)
         /\ g.base[Here(c)] * Width + Slot(c) = call[c].at
         /\ Here(c) \in Cleared(g) /\ Here(c) \in Frames /\ g.lv[Here(c)] = 1 /\ Slot(c) \in Entries
         /\ entry[Here(c)][Slot(c)] \in EntryType
<1>1. /\ call[c].at \in Pages /\ call[c].at \in Nat /\ Path(g, cr3[c], call[c].at, 1)
      /\ cr3[c] \in spaces /\ ~booting
  BY WalkerIs, CallIs, IdleIs DEF PagingInv, CoreInv, WalkOK, Walker
<1>2. Here(c) = TableIn(entry, cr3[c], call[c].at, 1) /\ Slot(c) = Index(1, call[c].at)
  BY DEF Here, Slot, TableOf, IndexOf
<1> QED  BY <1>1, <1>2, HereIs, WayEnd

\* What a step at a page leaves as it is, entry i of table t apart.
AtPage(g, c, t, i) ==
  /\ Alone(c) /\ Mild(g, g, c) /\ WalkOK(g, c)' /\ Fresh(c) /\ Typed' /\ BootInv'
  /\ call'[c].do = call[c].do /\ call'[c].then = call[c].then /\ call'[c].step \in {"lock", "done"}
  /\ \A x \in Frames : ~Carries(c, x)'
  /\ Uncleared' = Uncleared /\ Cleared(g)' = Cleared(g)
  /\ cr3' = cr3 /\ making' = making /\ spaces' = spaces
  /\ \A f \in Frames, j \in Entries : f # t \/ j # i =>
       entry'[f][j].present = entry[f][j].present /\ entry'[f][j].frame = entry[f][j].frame
  /\ \A x \in Frames : g.lv[x] = 0 => entry'[x] = entry[x]

\* What a step at the page table that goes on to the next page leaves.
LEMMA PageStep ==
  ASSUME NEW g, PagingInv(g), NEW c \in Cores, Walker(c), call[c].step = "lock", call[c].level = 1,
         NEW t, t = Here(c), NEW i, i = Slot(c), ~entry[t][i].locked, NEW e \in EntryType,
         Advance(c, e), UNCHANGED <<spaceVars, fault, calls>>, free' \subseteq Frames \ spaces
  PROVE  /\ AtPage(g, c, t, i)
         /\ entry'[t][i].present = e.present /\ entry'[t][i].frame = e.frame
<1>1. PICK l : l = NextLevel(call[c].at + 1, call[c].end)
  OBVIOUS
<1>2. PICK k : k = NextCall(c, l)
  OBVIOUS
<1>3. Released(c, t, i, e, l) /\ Goes(c, k)
  BY <1>1, <1>2, AdvanceIs
<1>4. /\ AnyCall(k) /\ CallOK(k) /\ k.do = call[c].do /\ k.then = call[c].then
      /\ k.step \in {"lock", "done"} /\ (k.do = "map" /\ k.step # "done" => k.phys \notin Frames)
      /\ GoesOnTo(c, k, l)
  <2>1. /\ AnyCall(k) /\ CallOK(k) /\ k.then = call[c].then /\ GoesOnTo(c, k, l)
        /\ k.do = "map" /\ k.step # "done" => k.phys \notin Frames
    BY <1>1, <1>2, AdvanceCall
  <2> QED  BY <2>1 DEF GoesOnTo
<1>5. Typed' /\ call'[c] = k /\ \A d \in Cores \ {c} : call'[d] = call[d]
  <2>1. /\ free' \subseteq Frames /\ spaces' \subseteq Frames \ free' /\ cr3' \in [Cores -> spaces']
        /\ mutex' \in Cores \cup {Null} /\ booting' = booting /\ calls' \in Nat /\ fault' = fault
    BY DEF PagingInv, Typed, spaceVars
  <2>2. entry' \in [Frames -> [Entries -> EntryType]]
    BY <1>3 DEF Released
  <2> QED  BY <1>3, <1>4, <2>1, <2>2, TypedOn
<1>6. Alone(c) /\ cr3' = cr3 /\ making' = making /\ spaces' = spaces
  BY <1>5 DEF Alone, spaceVars
<1>7. /\ Mild(g, g, c) /\ WalkOK(g, c)' /\ Uncleared' = Uncleared /\ Cleared(g)' = Cleared(g)
      /\ \A x \in Frames : g.lv[x] = 0 => entry'[x] = entry[x]
  BY <1>3, <1>4, <1>5, <1>6, AdvanceMild
<1>8. BootInv'
  BY PageIs DEF BootInv, spaceVars
<1>9. Fresh(c)
  BY <1>4, <1>5, <1>6, NotFresh DEF Walker, Walks
<1>10. \A x \in Frames : ~Carries(c, x)'
  BY <1>4, <1>5 DEF Carries
<1> QED
  BY <1>3, <1>4, <1>5, <1>6, <1>7, <1>8, <1>9, <1>10 DEF AtPage, Released

\* The page a walk is at is the only one whose entry changes.
LEMMA OtherPages ==
  ASSUME NEW g, PagingInv(g), NEW c \in Cores, Walker(c), call[c].level = 1,
         NEW t, t = Here(c), NEW i, i = Slot(c), AtPage(g, c, t, i),
         NEW s, NEW p, NEW x, <<s, p, x>> \in pages
  PROVE  \/ /\ s \in spaces' /\ p \in Pages /\ Path(g, s, p, 1)'
            /\ LET e == entry'[TableIn(entry', s, p, 1)][Index(1, p)] IN e.present /\ e.frame = x
            /\ TableIn(entry, s, p, 1) # t \/ Index(1, p) # i
         \/ /\ TableIn(entry, s, p, 1) = t /\ Index(1, p) = i /\ p = call[c].at
            /\ s \in Sharing(c, p) /\ entry[t][i].present /\ entry[t][i].frame = x
<1>1. /\ s \in spaces /\ p \in Pages /\ Path(g, s, p, 1) /\ p \in Nat
      /\ LET e == entry[TableIn(entry, s, p, 1)][Index(1, p)] IN e.present /\ e.frame = x
  BY TopDigit DEF PagingInv, PageInv
<1>2. /\ TableIn(entry, s, p, 1) \in Frames /\ Index(1, p) \in Entries
  BY <1>1, WayEnd
<1>3. CASE TableIn(entry, s, p, 1) # t \/ Index(1, p) # i
  <2>1. LET u == TableIn(entry, s, p, 1)
            j == Index(1, p)
        IN entry'[u][j].present = entry[u][j].present /\ entry'[u][j].frame = entry[u][j].frame
    BY <1>2, <1>3 DEF AtPage
  <2>2. Mild(g, g, c)
    BY DEF AtPage
  <2> QED  BY <1>3, <2>1, <2>2, MappedStay
<1>4. CASE TableIn(entry, s, p, 1) = t /\ Index(1, p) = i
  <2>1. /\ call[c].at \in Nat /\ Path(g, cr3[c], call[c].at, 1)
        /\ t = TableIn(entry, cr3[c], call[c].at, 1) /\ i = Index(1, call[c].at)
    BY PageIs
  <2>2. PICK u, q : u = cr3[c] /\ q = call[c].at
    OBVIOUS
  <2>3. /\ PathIn(entry, Cleared(g), g, s, p, 1) /\ PathIn(entry, Cleared(g), g, u, q, 1)
        /\ TableIn(entry, s, p, 1) = TableIn(entry, u, q, 1) /\ Index(1, p) = Index(1, q)
        /\ p \in Nat /\ q \in Nat
    BY <1>1, <1>4, <2>1, <2>2 DEF Path
  <2>4. p = q /\ Owner(s, p) = Owner(u, q)
    BY ONLY <2>3, SamePage
  <2>5. s \in Sharing(c, p)
    BY <1>1, <2>2, <2>4 DEF Sharing, Owner
  <2> QED  BY <1>1, <1>4, <2>2, <2>4, <2>5
<1> QED  BY <1>3, <1>4

\* map at the page table.
LEMMA MapPageKeeps ==
  ASSUME NEW g, PagingInv(g), NEW c \in Cores, MapPage(c), ~Panic, IInv'
  PROVE  PagingInv(g)'
<1>1. PICK t, i, x, s, p : t = Here(c) /\ i = Slot(c) /\ x = call[c].phys /\ s = cr3[c]
             /\ p = call[c].at
  OBVIOUS
<1>2. /\ call[c].do = "map" /\ call[c].step = "lock" /\ call[c].level = 1 /\ Walker(c)
      /\ ~Clearing(c)
      /\ ~entry[t][i].locked /\ (entry[t][i].present => entry[t][i].frame = x)
      /\ pages' = pages \cup {<<u, p, x>> : u \in Sharing(c, p)}
      /\ UNCHANGED <<spaceVars, free, fault, calls>>
  BY <1>1, EntryOfIs DEF MapPage, AtLevel, Unlocked, Walker, Clearing
<1>3. /\ p \in Pages /\ p \in Nat /\ s \in spaces /\ ~booting
      /\ Path(g, s, p, 1) /\ t = TableIn(entry, s, p, 1) /\ i = Index(1, p)
      /\ g.own[t] = Owner(s, p) /\ g.base[t] * Width + i = p
      /\ t \in Cleared(g) /\ t \in Frames /\ g.lv[t] = 1 /\ i \in Entries
      /\ entry[t][i] \in EntryType
  BY <1>1, <1>2, PageIs
<1>4. x \in Nat /\ call[c].user \in BOOLEAN /\ MapOK(call[c]) /\ RangeOK(call[c])
      /\ call[c].end \in Nat /\ p < call[c].end /\ call[c].then \in {"return", "zero", "leave"}
  BY <1>1, <1>2, CallIs, WalkerIs DEF CallOK, Walks, MapCall
<1>5. PICK e : e = [entry[t][i] EXCEPT !.present = TRUE, !.frame = x, !.user = call[c].user,
             !.write = TRUE]
  OBVIOUS
<1>6. e \in EntryType /\ e.present /\ e.frame = x /\ Advance(c, e)
  <2>1. e \in EntryType /\ e.present /\ e.frame = x
    BY <1>3, <1>4, <1>5 DEF EntryType
  <2>2. Advance(c, e)
    <3>1. Advance(c, [EntryOf(c) EXCEPT !.present = TRUE, !.frame = call[c].phys,
                                        !.user = call[c].user, !.write = TRUE])
      BY DEF MapPage
    <3>2. EntryOf(c) = entry[t][i]
      BY <1>1, EntryOfIs
    <3> QED  BY <1>1, <1>5, <3>1, <3>2
  <2> QED  BY <2>1, <2>2
<1>7. AtPage(g, c, t, i) /\ entry'[t][i].present /\ entry'[t][i].frame = x
  <2>1. free' \subseteq Frames \ spaces
    BY <1>2 DEF PagingInv, Typed
  <2> QED  BY <1>1, <1>2, <1>6, <2>1, PageStep
<1>8. x \in Frames => Carries(c, x) /\ x \notin free /\ g.lv[x] = 0 /\ ~Mapped(g, x)
                      /\ \A d \in Cores \ {c} : ~Carries(d, x) /\ ~Makes(d, x)
  <2>1. Carries(c, x)
    BY <1>1, <1>2 DEF Carries
  <2> QED  BY <2>1 DEF PagingInv, CoreInv, CarriedOK
<1>9. x \notin Frames => p \in Devices
  <2> SUFFICES ASSUME x \notin Frames PROVE p \in Devices
    OBVIOUS
  <2>1. p..(call[c].end - 1) \subseteq Devices
    BY <1>1, <1>2, <1>4 DEF MapOK
  <2> QED  BY <1>3, <1>4, <2>1
<1>10. \A f \in Frames, j \in Entries : f # t \/ j # i =>
         /\ entry'[f][j].present = entry[f][j].present /\ entry'[f][j].frame = entry[f][j].frame
         /\ Leaf(g, f, j)' <=> Leaf(g, f, j)
  BY <1>7 DEF AtPage, Leaf
<1>11. TreeInv(g)'
  <2>1. \A f \in Frames, j \in Entries : g.lv[f] >= 2 =>
          entry'[f][j].present = entry[f][j].present /\ entry'[f][j].frame = entry[f][j].frame
    BY <1>3, <1>10
  <2>2. \A f \in free' : g.lv[f] = 0
    BY <1>2 DEF PagingInv, TreeInv, FreeIsNoTable
  <2>3. Uncleared' = Uncleared /\ spaces' = spaces
    BY <1>7 DEF AtPage
  <2> QED  BY ONLY PagingInv(g), <2>1, <2>2, <2>3, LowTree
<1>12. LeafInv(g)'
  <2>1. LeafInv(g)
    BY DEF PagingInv
  <2> SUFFICES ASSUME NEW f \in Frames, NEW j \in Entries, Leaf(g, f, j)', NEW y,
                      y = entry'[f][j].frame
               PROVE  IF y \in Frames
                      THEN /\ g.lv[y] = 0 /\ y \notin free'
                           /\ \A k \in Frames, m \in Entries :
                                Leaf(g, k, m)' /\ entry'[k][m].frame = y => k = f /\ m = j
                      ELSE g.base[f] * Width + j \in Devices
    BY DEF LeafInv
  <2>2. CASE f = t /\ j = i
    <3>1. y = x
      BY <1>7, <2>2
    <3>2. ASSUME x \in Frames, NEW k \in Frames, NEW m \in Entries, Leaf(g, k, m)',
                 entry'[k][m].frame = x, k # t \/ m # i PROVE FALSE
      BY <1>8, <1>10, <3>2 DEF Mapped
    <3> QED  BY <1>2, <1>3, <1>8, <1>9, <2>2, <3>1, <3>2
  <2>3. CASE f # t \/ j # i
    <3>1. Leaf(g, f, j) /\ entry[f][j].frame = y
      BY <1>10, <2>3
    <3>2. IF y \in Frames
          THEN /\ g.lv[y] = 0 /\ y \notin free
               /\ \A k \in Frames, m \in Entries :
                    Leaf(g, k, m) /\ entry[k][m].frame = y => k = f /\ m = j
          ELSE g.base[f] * Width + j \in Devices
      BY <2>1, <3>1 DEF LeafInv
    <3>3. y \in Frames => y # x
      BY <1>8, <3>1 DEF Mapped
    <3>4. ASSUME y \in Frames, NEW k \in Frames, NEW m \in Entries, Leaf(g, k, m)',
                 entry'[k][m].frame = y PROVE k = f /\ m = j
      <4>1. k # t \/ m # i
        BY <1>7, <3>3, <3>4
      <4> QED  BY <1>10, <3>2, <3>4, <4>1
    <3> QED  BY <1>2, <3>2, <3>4
  <2> QED  BY <2>2, <2>3
<1>13. PageInv(g)'
  <2> SUFFICES ASSUME NEW u, NEW q, NEW y, <<u, q, y>> \in pages'
               PROVE  /\ u \in spaces' /\ q \in Pages /\ Path(g, u, q, 1)'
                      /\ LET z == entry'[TableIn(entry', u, q, 1)][Index(1, q)] IN
                         z.present /\ z.frame = y
    BY DEF PageInv
  <2>1. Mild(g, g, c) /\ spaces' = spaces /\ Cleared(g)' = Cleared(g)
    BY <1>7 DEF AtPage
  <2>2. ASSUME u \in Sharing(c, q), q = p, y = x
        PROVE  /\ u \in spaces' /\ q \in Pages /\ Path(g, u, q, 1)'
               /\ LET z == entry'[TableIn(entry', u, q, 1)][Index(1, q)] IN
                  z.present /\ z.frame = y
    <3>1. u \in spaces /\ Path(g, u, p, 1) /\ TableIn(entry, u, p, 1) = t
      <4>1. CASE Half(p) = "upper"
        <5>1. u \in spaces
          BY <2>2, <4>1 DEF Sharing
        <5>2. u \in Cleared(g) /\ g.lv[u] = Levels /\ g.base[u] = 0
          BY <5>1, SpaceIs
        <5>3. LET j == Index(Levels, p) IN
              entry[u][j].present /\ entry[u][j].frame = entry[s][j].frame
          <6>1. Index(Levels, p) \in KernelIndexes
            BY <4>1 DEF Half
          <6> QED  BY <1>3, <5>1, <6>1 DEF PagingInv, TreeInv, UpperIsShared
        <5>4. PathIn(entry, Cleared(g), g, s, p, 1) /\ 1 \in 1..Levels /\ 1 \in 1..(Levels - 1)
          BY <1>3, Sizes DEF Path
        <5>5. /\ PathIn(entry, Cleared(g), g, u, p, 1)
              /\ \A k \in 1..(Levels - 1) : TableIn(entry, u, p, k) = TableIn(entry, s, p, k)
          <6>1. /\ p \in Pages /\ 1 \in 1..Levels /\ PathIn(entry, Cleared(g), g, s, p, 1)
                /\ Half(p) = "upper" /\ u \in Cleared(g) /\ g.lv[u] = Levels /\ g.base[u] = 0
                /\ LET j == Index(Levels, p) IN
                   entry[u][j].present /\ entry[u][j].frame = entry[s][j].frame
            BY <1>3, <4>1, <5>2, <5>3, <5>4
          <6> QED  BY ONLY <6>1, PathShared
        <5> QED  BY <1>3, <5>1, <5>4, <5>5 DEF Path
      <4>2. CASE Half(p) # "upper"
        BY <1>1, <1>3, <2>2, <4>2 DEF Sharing
      <4> QED  BY <4>1, <4>2
    <3>2. Grows(g) /\ Keeps(g, g) /\ (\A f \in Cleared(g) : f \in Cleared(g)') /\ 1 \in 1..Levels
      BY <2>1, Sizes DEF Mild
    <3>3. TableIn(entry', u, p, 1) = t
      <4>1. 1 \in 1..Levels
        BY <3>2
      <4> QED  BY <1>3, <3>1, <3>2, <4>1, WaysStay
    <3>4. PathIn(entry', Cleared(g)', g, u, p, 1)
      BY <1>3, <3>1, <3>2, PathsStay
    <3> QED  BY <1>3, <1>7, <2>1, <2>2, <3>1, <3>3, <3>4 DEF Path
  <2>3. CASE <<u, q, y>> \in pages
    <3>1. \/ /\ u \in spaces' /\ q \in Pages /\ Path(g, u, q, 1)'
             /\ LET z == entry'[TableIn(entry', u, q, 1)][Index(1, q)] IN z.present /\ z.frame = y
          \/ q = call[c].at /\ u \in Sharing(c, q) /\ entry[t][i].present /\ entry[t][i].frame = y
      BY <1>1, <1>2, <1>7, <2>3, OtherPages
    <3> QED  BY <1>1, <1>2, <2>2, <3>1
  <2>4. CASE <<u, q, y>> \notin pages
    <3>1. u \in Sharing(c, p) /\ q = p /\ y = x
      BY <1>2, <2>4
    <3> QED  BY <2>2, <3>1
  <2> QED  BY <2>3, <2>4
<1>14. PagesAre'
  BY <1>2 DEF PagingInv, PagesAre
<1>15. Quiet(g, g, c)
  <2> SUFFICES ASSUME NEW d \in Cores \ {c}, NEW y \in Frames, Taken(d, y)
               PROVE  Untouched(g, g, y) /\ entry'[y] = entry[y]
    BY DEF Quiet
  <2>1. y \notin free /\ g.lv[y] = 0 /\ y # x
    BY <1>8, TakenIs DEF Taken
  <2>2. entry'[y] = entry[y]
    BY <1>7, <2>1 DEF AtPage
  <2>3. \A f \in Frames, j \in Entries : Leaf(g, f, j)' /\ entry'[f][j].frame = y =>
          Leaf(g, f, j) /\ entry[f][j].frame = y
    BY <1>7, <1>10, <2>1
  <2> QED  BY <1>2, <2>1, <2>2, <2>3 DEF Untouched
<1>16. CarriedOK(g, c)'
  BY <1>7 DEF CarriedOK, AtPage
<1>17. MadeOK(g, c)'
  <2>1. /\ call'[c].do = "map" /\ call'[c].then = call[c].then /\ making' = making /\ cr3' = cr3
        /\ spaces' = spaces /\ Cleared(g)' = Cleared(g) /\ Mild(g, g, c)
    BY <1>2, <1>7 DEF AtPage
  <2>2. /\ Making(c, Later)' <=> Making(c, Later)
        /\ Making(c, Inside)' <=> Making(c, Inside)
        /\ ~Unmapped(c)'
    BY <1>2, <2>1 DEF Making, Unmapped, Walks
  <2>3. MadeOK(g, c)
    BY DEF PagingInv, CoreInv
  <2>4. ASSUME NEW y \in Frames, Makes(c, y)
        PROVE  /\ y \notin free' /\ g.lv[y] = 0
               /\ \A f \in Frames, j \in Entries : Leaf(g, f, j)' /\ entry'[f][j].frame = y =>
                    /\ f = TableIn(entry', s, Scratch, 1) /\ j = Index(1, Scratch)
                    /\ Path(g, s, Scratch, 1)'
    <3>1. y \notin free' /\ g.lv[y] = 0
      BY <1>2, <2>4, TakenIs DEF Taken
    <3>2. ASSUME NEW f, NEW j, f = TableIn(entry, s, Scratch, 1), j = Index(1, Scratch),
                 Path(g, s, Scratch, 1)
          PROVE  /\ f = TableIn(entry', s, Scratch, 1) /\ j = Index(1, Scratch)
                 /\ Path(g, cr3[c], Scratch, 1)'
      <4>1. /\ Grows(g) /\ Keeps(g, g) /\ (\A h \in Cleared(g) : h \in Cleared(g)')
            /\ Scratch \in Nat /\ 1 \in 1..Levels
        BY <2>1, PagingAssumption, TopDigit, Sizes DEF Mild
      <4>2. 1 \in 1..Levels /\ TableIn(entry', s, Scratch, 1) = TableIn(entry, s, Scratch, 1)
        BY <3>2, <4>1, WaysStay
      <4>3. PathIn(entry', Cleared(g)', g, s, Scratch, 1)
        BY <3>2, <4>1, PathsStay
      <4> QED  BY <1>1, <2>1, <3>2, <4>2, <4>3 DEF Path
    <3>3. p = Scratch
      BY <1>1, <1>2, <1>4, <2>4 DEF Makes, Making, Inside, RangeOK
    <3>4. ASSUME NEW f \in Frames, NEW j \in Entries, Leaf(g, f, j)', entry'[f][j].frame = y
          PROVE  /\ f = TableIn(entry, s, Scratch, 1) /\ j = Index(1, Scratch)
                 /\ Path(g, s, Scratch, 1)
      <4>1. CASE f = t /\ j = i
        BY <1>3, <3>3, <4>1
      <4>2. CASE f # t \/ j # i
        BY <1>1, <1>10, <2>3, <2>4, <3>4, <4>2 DEF MadeOK
      <4> QED  BY <4>1, <4>2
    <3> QED  BY <1>1, <2>1, <3>1, <3>2, <3>4
  <2> QED  BY <1>1, <2>1, <2>2, <2>3, <2>4 DEF MadeOK, Makes
<1>18. g \in Ghosts
  BY DEF PagingInv
<1> QED
  BY <1>7, <1>11, <1>12, <1>13, <1>14, <1>15, <1>16, <1>17, <1>18, MildStep DEF AtPage

\* A frame that unmap gives back is memory that nothing else has.
LEMMA PushedIs ==
  ASSUME NEW g, PagingInv(g), NEW c \in Cores, Walker(c), call[c].do = "unmap", call[c].level = 1,
         call[c].push, NEW t, t = Here(c), NEW i, i = Slot(c), entry[t][i].present,
         NEW x, x = entry[t][i].frame
  PROVE  /\ x \in Frames /\ g.lv[x] = 0 /\ x \notin free /\ x \notin spaces
         /\ \A f \in Frames, j \in Entries : Leaf(g, f, j) /\ entry[f][j].frame = x => f = t
              /\ j = i
         /\ \A d \in Cores : ~Taken(d, x)
<1>1. PICK p, s : p = call[c].at /\ s = cr3[c]
  OBVIOUS
<1>2. /\ p \in Pages /\ p \in Nat /\ Path(g, s, p, 1) /\ t = TableIn(entry, s, p, 1)
      /\ i = Index(1, p) /\ g.base[t] * Width + i = p /\ t \in Cleared(g) /\ t \in Frames
      /\ g.lv[t] = 1 /\ i \in Entries
  BY <1>1, PageIs
<1>3. Leaf(g, t, i)
  BY <1>2 DEF Leaf
<1>4. p \notin Devices /\ p # Scratch
  <2>1. UnmapOK(call[c]) /\ p < call[c].end /\ call[c].end \in Nat
    BY <1>1, CallIs, WalkerIs DEF CallOK
  <2>2. p \in p..(call[c].end - 1)
    BY <1>2, <2>1
  <2> QED  BY <1>1, <2>1, <2>2 DEF UnmapOK
<1>5. /\ x \in Frames /\ g.lv[x] = 0 /\ x \notin free
      /\ \A f \in Frames, j \in Entries : Leaf(g, f, j) /\ entry[f][j].frame = x => f = t /\ j = i
  <2>1. LeafInv(g)
    BY DEF PagingInv
  <2>2. IF x \in Frames
        THEN /\ g.lv[x] = 0 /\ x \notin free
             /\ \A f \in Frames, j \in Entries : Leaf(g, f, j) /\ entry[f][j].frame = x => f = t
                  /\ j = i
        ELSE g.base[t] * Width + i \in Devices
    BY <1>2, <1>3, <2>1 DEF LeafInv
  <2> QED  BY <1>2, <1>4, <2>2
<1>6. x \notin spaces
  BY <1>5, SpaceIs, Sizes
<1>7. ASSUME NEW d \in Cores, Carries(d, x) PROVE FALSE
  <2>1. ~Mapped(g, x)
    BY <1>5, <1>7 DEF PagingInv, CoreInv, CarriedOK
  <2> QED  BY <1>2, <1>3, <2>1 DEF Mapped
<1>8. ASSUME NEW d \in Cores, Makes(d, x) PROVE FALSE
  <2>1. PICK u : u = cr3[d]
    OBVIOUS
  <2>2. t = TableIn(entry, u, Scratch, 1) /\ i = Index(1, Scratch) /\ Path(g, u, Scratch, 1)
    BY <1>2, <1>3, <1>5, <1>8, <2>1 DEF PagingInv, CoreInv, MadeOK
  <2>3. /\ PathIn(entry, Cleared(g), g, s, p, 1) /\ PathIn(entry, Cleared(g), g, u, Scratch, 1)
        /\ TableIn(entry, s, p, 1) = TableIn(entry, u, Scratch, 1)
        /\ Index(1, p) = Index(1, Scratch)
        /\ p \in Nat /\ Scratch \in Nat
    BY <1>2, <2>2, PagingAssumption, TopDigit DEF Path
  <2>4. p = Scratch
    BY ONLY <2>3, SamePage
  <2> QED  BY <1>4, <2>4
<1> QED  BY <1>5, <1>6, <1>7, <1>8 DEF Taken

\* unmap at the page table.
LEMMA UnmapPageKeeps ==
  ASSUME NEW g, PagingInv(g), NEW c \in Cores, UnmapPage(c), ~Panic, IInv'
  PROVE  PagingInv(g)'
<1>1. PICK t, i, x, s, p : /\ t = Here(c) /\ i = Slot(c) /\ x = entry[t][i].frame
                           /\ s = cr3[c] /\ p = call[c].at
  OBVIOUS
<1>2. /\ call[c].do = "unmap" /\ call[c].step = "lock" /\ call[c].level = 1 /\ Walker(c)
      /\ ~Clearing(c) /\ ~entry[t][i].locked /\ entry[t][i].present
      /\ free' = IF call[c].push THEN free \cup {x} ELSE free
      /\ pages' = pages \ {<<u, p, x>> : u \in Sharing(c, p)}
      /\ UNCHANGED <<spaceVars, fault, calls>>
  BY <1>1, EntryOfIs DEF UnmapPage, AtLevel, Unlocked, Walker, Clearing
<1>3. /\ p \in Pages /\ p \in Nat /\ s \in spaces /\ ~booting
      /\ Path(g, s, p, 1) /\ t = TableIn(entry, s, p, 1) /\ i = Index(1, p)
      /\ t \in Cleared(g) /\ t \in Frames /\ g.lv[t] = 1 /\ i \in Entries
      /\ entry[t][i] \in EntryType
  BY <1>1, <1>2, PageIs
<1>4. call[c].push => /\ x \in Frames /\ g.lv[x] = 0 /\ x \notin free /\ x \notin spaces
                      /\ \A f \in Frames, j \in Entries :
                           Leaf(g, f, j) /\ entry[f][j].frame = x => f = t /\ j = i
                      /\ \A d \in Cores : ~Taken(d, x)
  BY <1>1, <1>2, PushedIs
<1>5. PICK e : e = Absent(entry[t][i])
  OBVIOUS
<1>6. e \in EntryType /\ ~e.present /\ e.frame = x /\ Advance(c, e)
  <2>1. e \in EntryType /\ ~e.present /\ e.frame = x
    BY <1>1, <1>3, <1>5 DEF EntryType, Absent
  <2>2. Advance(c, e)
    BY <1>1, <1>5, EntryOfIs DEF UnmapPage
  <2> QED  BY <2>1, <2>2
<1>7. AtPage(g, c, t, i) /\ ~entry'[t][i].present
  <2>1. free' \subseteq Frames \ spaces
    BY <1>2, <1>4 DEF PagingInv, Typed
  <2> QED  BY <1>1, <1>2, <1>6, <2>1, PageStep
<1>8. \A f \in Frames, j \in Entries : Leaf(g, f, j)' =>
        Leaf(g, f, j) /\ entry'[f][j].frame = entry[f][j].frame /\ (f # t \/ j # i)
  BY <1>7 DEF AtPage, Leaf
<1>9. \A f \in free' : g.lv[f] = 0
  BY <1>2, <1>4 DEF PagingInv, TreeInv, FreeIsNoTable
<1>10. TreeInv(g)'
  <2>1. \A f \in Frames, j \in Entries : g.lv[f] >= 2 =>
          entry'[f][j].present = entry[f][j].present /\ entry'[f][j].frame = entry[f][j].frame
    BY <1>3, <1>7 DEF AtPage
  <2>2. Uncleared' = Uncleared /\ spaces' = spaces
    BY <1>7 DEF AtPage
  <2> QED  BY ONLY PagingInv(g), <1>9, <2>1, <2>2, LowTree
<1>11. LeafInv(g)'
  <2>1. LeafInv(g)
    BY DEF PagingInv
  <2> SUFFICES ASSUME NEW f \in Frames, NEW j \in Entries, Leaf(g, f, j)', NEW y,
                      y = entry'[f][j].frame
               PROVE  IF y \in Frames
                      THEN /\ g.lv[y] = 0 /\ y \notin free'
                           /\ \A k \in Frames, m \in Entries :
                                Leaf(g, k, m)' /\ entry'[k][m].frame = y => k = f /\ m = j
                      ELSE g.base[f] * Width + j \in Devices
    BY DEF LeafInv
  <2>2. Leaf(g, f, j) /\ entry[f][j].frame = y /\ (f # t \/ j # i)
    BY <1>8
  <2>3. IF y \in Frames
        THEN /\ g.lv[y] = 0 /\ y \notin free
             /\ \A k \in Frames, m \in Entries :
                  Leaf(g, k, m) /\ entry[k][m].frame = y => k = f /\ m = j
        ELSE g.base[f] * Width + j \in Devices
    BY <2>1, <2>2 DEF LeafInv
  <2>4. y \notin free => y \notin free'
    BY <1>2, <1>4, <2>2
  <2> QED  BY <1>8, <2>3, <2>4
<1>12. PageInv(g)'
  <2> SUFFICES ASSUME NEW u, NEW q, NEW y, <<u, q, y>> \in pages'
               PROVE  /\ u \in spaces' /\ q \in Pages /\ Path(g, u, q, 1)'
                      /\ LET z == entry'[TableIn(entry', u, q, 1)][Index(1, q)] IN
                         z.present /\ z.frame = y
    BY DEF PageInv
  <2>1. <<u, q, y>> \in pages /\ ~(u \in Sharing(c, p) /\ q = p /\ y = x)
    BY <1>2
  <2>2. \/ /\ u \in spaces' /\ q \in Pages /\ Path(g, u, q, 1)'
           /\ LET z == entry'[TableIn(entry', u, q, 1)][Index(1, q)] IN z.present /\ z.frame = y
        \/ q = call[c].at /\ u \in Sharing(c, q) /\ entry[t][i].frame = y
    BY <1>1, <1>2, <1>7, <2>1, OtherPages
  <2> QED  BY <1>1, <2>1, <2>2
<1>13. PagesAre'
  BY <1>2 DEF PagingInv, PagesAre
<1>14. ASSUME NEW d \in Cores, NEW y \in Frames, Taken(d, y)
       PROVE  y \notin free' /\ g.lv[y] = 0 /\ entry'[y] = entry[y]
  <2>1. y \notin free /\ g.lv[y] = 0
    BY <1>14, TakenIs
  <2> QED  BY <1>2, <1>4, <1>7, <1>14, <2>1 DEF AtPage
<1>15. Quiet(g, g, c)
  BY <1>8, <1>14 DEF Quiet, Untouched
<1>16. CarriedOK(g, c)'
  BY <1>7 DEF CarriedOK, AtPage
<1>17. MadeOK(g, c)'
  <2>1. /\ call'[c].do = "unmap" /\ call'[c].then = call[c].then /\ making' = making /\ cr3' = cr3
        /\ spaces' = spaces /\ Grows(g)
    BY <1>2, <1>7 DEF AtPage, Mild
  <2>2. /\ Making(c, Later)' <=> Making(c, Later)
        /\ Making(c, Inside)' <=> Making(c, Inside)
    BY <1>2, <2>1 DEF Making, Walks
  <2>3. MadeOK(g, c)
    BY DEF PagingInv, CoreInv
  <2>4. ASSUME NEW y \in Frames, Makes(c, y)
        PROVE  y \notin free' /\ g.lv[y] = 0 /\ ~Mapped(g, y)' /\ IsCopy(y)'
    <3>1. y \notin free' /\ g.lv[y] = 0 /\ entry'[y] = entry[y]
      BY <1>14, <2>4 DEF Taken
    <3>2. p = Scratch
      <4>1. RangeOK(call[c]) /\ call[c].then = "set_foreign"
        BY <1>2, <2>4, CallIs DEF CallOK, Walks, Makes, Making, Inside, UnmapCall
      <4> QED  BY <1>1, <1>2, <4>1 DEF RangeOK
    <3>3. ~Mapped(g, y)'
      <4> SUFFICES ASSUME NEW f \in Frames, NEW j \in Entries, Leaf(g, f, j)',
                          entry'[f][j].frame = y
                   PROVE  FALSE
        BY DEF Mapped
      <4>1. Leaf(g, f, j) /\ entry[f][j].frame = y /\ (f # t \/ j # i)
        BY <1>8
      <4>2. f = TableIn(entry, s, Scratch, 1) /\ j = Index(1, Scratch)
        BY <1>1, <2>3, <2>4, <4>1 DEF MadeOK
      <4> QED  BY <1>3, <3>2, <4>1, <4>2
    <3>4. IsCopy(y)
      BY <1>2, <2>3, <2>4 DEF MadeOK
    <3>5. IsCopy(y)'
      BY <2>1, <3>1, <3>4, UpperStays DEF IsCopy
    <3> QED  BY <3>1, <3>3, <3>5
  <2>5. Making(c, Later)' => making'[c][2] \in spaces'
        /\ (~Making(c, Inside)' => making'[c][1] \in spaces')
    BY <2>1, <2>2, <2>3 DEF MadeOK
  <2>6. \A y \in Frames : Makes(c, y)' => Makes(c, y)
    BY <2>1, <2>2 DEF Makes
  <2> QED  BY <2>4, <2>5, <2>6 DEF MadeOK, Mapped
<1>18. g \in Ghosts
  BY DEF PagingInv
<1> QED
  BY <1>7, <1>10, <1>11, <1>12, <1>13, <1>15, <1>16, <1>17, <1>18, MildStep DEF AtPage

------------------------------------------------------------------------------
(* A new space                                                             *)

\* The tree after the PML4 in frame x, which has a copy of the upper half, has become a space.
LEMMA SpaceTree ==
  ASSUME NEW g, PagingInv(g), NEW x \in Frames, g.lv[x] = 0, x \notin free, ~Mapped(g, x),
         IsCopy(x),
         \A i \in KernelIndexes : entry[x][i].present, NEW h, IsNow(h, g, x, Levels, 0, Null),
         entry' = entry, free' = free, spaces' = spaces \cup {x}, Uncleared' = Uncleared
  PROVE  /\ TreeInv(h)' /\ LeafInv(h)' /\ x \in Cleared(h)'
         /\ \A f \in Cleared(g) : f \in Cleared(h)'
         /\ \A f \in Frames, i \in Entries : Leaf(h, f, i)' <=> Leaf(g, f, i)
<1>1. /\ \A f \in Frames : f # x => h.lv[f] = g.lv[f] /\ h.base[f] = g.base[f]
           /\ h.own[f] = g.own[f]
      /\ h.lv[x] = Levels /\ h.base[x] = 0
  BY DEF IsNow, Beside
<1>2. x \notin Uncleared /\ x \notin spaces
  <2>1. \A c \in Cores : Clearing(c) => Target(c) # x
    <3> SUFFICES ASSUME NEW c \in Cores, Clearing(c) PROVE Target(c) # x
      OBVIOUS
    <3>1. g.lv[Target(c)] = call[c].level - 1 /\ call[c].level \in 2..Levels
      BY ClearingIs
    <3> QED  BY <3>1
  <2> QED  BY <2>1, UnclearedIs, SpaceIs, Sizes
<1>3. \A f \in Frames : f \in Cleared(h)' <=> f = x \/ f \in Cleared(g)
  BY <1>1, <1>2, Sizes DEF Cleared
<1>4. \A f \in Frames, i \in Entries : Leaf(h, f, i)' <=> Leaf(g, f, i)
  BY <1>1, <1>3, Sizes DEF Leaf
<1>5. /\ BootRoot \in spaces /\ BootRoot \in Cleared(g) /\ BootRoot \in Frames
      /\ g.lv[BootRoot] = Levels
      /\ g.base[BootRoot] = 0
  BY SpaceIs DEF PagingInv, TreeInv, SpacesAreTop
<1>6. \A i \in KernelIndexes : /\ i \in Entries /\ entry[BootRoot][i].present
                               /\ entry[x][i].frame = entry[BootRoot][i].frame
                               /\ LeadsOn(g, BootRoot, i)
  BY <1>5, Sizes DEF IsCopy, PagingInv, TreeInv, UpperIsShared, LeadsOn
\* An entry that leads on did so before, or is a copy.
<1>7. \A f \in Frames, i \in Entries : LeadsOn(h, f, i)' =>
        \/ f # x /\ LeadsOn(g, f, i)
        \/ f = x /\ i \in KernelIndexes
  BY <1>1, <1>3 DEF LeadsOn, IsCopy
<1>8. SpacesAreTop(h)'
  <2>1. \A f \in Frames : h.lv[f] = Levels <=> f \in spaces \cup {x}
    BY <1>1, <1>2 DEF PagingInv, TreeInv, SpacesAreTop
  <2>2. \A s \in spaces \cup {x} : h.base[s] = 0 /\ s \notin Uncleared
    BY <1>1, <1>2, SpaceIs DEF PagingInv, TreeInv, SpacesAreTop
  <2> QED  BY <1>5, <2>1, <2>2 DEF SpacesAreTop
<1>9. FreeIsNoTable(h)'
  BY <1>1, <1>2 DEF PagingInv, Typed, TreeInv, FreeIsNoTable
<1>10. Children(h)'
  <2> SUFFICES ASSUME NEW f \in Frames, NEW i \in Entries, LeadsOn(h, f, i)'
               PROVE  IsChild(spaces \cup {x}, h, f, i, entry[f][i].frame)
    BY DEF Children
  <2>1. \A k \in Frames, j \in Entries : LeadsOn(g, k, j) =>
          IsChild(spaces, g, k, j, entry[k][j].frame) /\ g.lv[entry[k][j].frame] >= 1
    BY DEF PagingInv, TreeInv, Children, IsChild, LeadsOn, Ghosts
  <2>2. CASE f # x /\ LeadsOn(g, f, i)
    <3>1. entry[f][i].frame # x
      BY <2>1, <2>2
    <3> QED  BY <1>1, <2>1, <2>2, <3>1 DEF IsChild
  <2>3. CASE f = x /\ i \in KernelIndexes
    <3>1. IsChild(spaces, g, BootRoot, i, entry[x][i].frame) /\ entry[x][i].frame # x
      BY <1>5, <1>6, <2>1, <2>3
    <3> QED  BY <1>1, <1>5, <2>3, <3>1 DEF IsChild
  <2> QED  BY <1>7, <2>2, <2>3
<1>11. OneParent(h)'
  <2> SUFFICES ASSUME NEW f \in Frames, NEW k \in Frames, NEW i \in Entries, NEW j \in Entries,
                      LeadsOn(h, f, i)', LeadsOn(h, k, j)', entry[f][i].frame = entry[k][j].frame
               PROVE  i = j /\ (f = k \/ (/\ f \in spaces \cup {x} /\ k \in spaces \cup {x}
                                          /\ i \in KernelIndexes))
    BY DEF OneParent
  <2>1. PICK a \in Frames : /\ LeadsOn(g, a, i) /\ entry[a][i].frame = entry[f][i].frame
                            /\ a = IF f = x THEN BootRoot ELSE f
    BY <1>5, <1>6, <1>7
  <2>2. PICK b \in Frames : /\ LeadsOn(g, b, j) /\ entry[b][j].frame = entry[k][j].frame
                            /\ b = IF k = x THEN BootRoot ELSE k
    BY <1>5, <1>6, <1>7
  <2>3. i = j /\ (a = b \/ (a \in spaces /\ b \in spaces /\ i \in KernelIndexes))
    BY <2>1, <2>2 DEF PagingInv, TreeInv, OneParent
  <2>4. (f = x => i \in KernelIndexes) /\ (k = x => j \in KernelIndexes)
    BY <1>7
  <2> QED  BY <1>5, <2>1, <2>2, <2>3, <2>4
<1>12. UpperIsShared'
  BY <1>5, <1>6 DEF PagingInv, TreeInv, UpperIsShared
<1>13. LeafInv(h)'
  <2> SUFFICES ASSUME NEW f \in Frames, NEW i \in Entries, Leaf(g, f, i), NEW y,
                      y = entry[f][i].frame
               PROVE  IF y \in Frames
                      THEN /\ h.lv[y] = 0 /\ y \notin free
                           /\ \A k \in Frames, j \in Entries :
                                Leaf(g, k, j) /\ entry[k][j].frame = y => k = f /\ j = i
                      ELSE h.base[f] * Width + i \in Devices
    BY <1>4 DEF LeafInv
  <2>1. y # x
    BY DEF Mapped
  <2>2. f # x
    BY DEF Leaf
  <2> QED  BY <1>1, <2>1, <2>2 DEF PagingInv, LeafInv
<1>14. TreeInv(h)'
  BY <1>8, <1>9, <1>10, <1>11, <1>12 DEF TreeInv
<1>15. \A f \in Cleared(g) : f \in Frames
  BY DEF Cleared
<1> QED  BY <1>3, <1>4, <1>13, <1>14, <1>15

\* The new address space is there.
LEMMA SpaceKeeps ==
  ASSUME NEW g, PagingInv(g), NEW c \in Cores, Cloned(c), IInv'
  PROVE  \E h : PagingInv(h)' /\ Beside(g, h, making[c][1])
<1>1. /\ At(c, "copy") /\ ~booting /\ ~Clearing(c) /\ call[c].do = "process"
      /\ call[c].step = "copy"
      /\ Making(c, Later) /\ Making(c, Inside) /\ making[c][2] \in spaces
  BY AtIs DEF Cloned, Later, Inside
<1>2. PICK x : x = making[c][1]
  OBVIOUS
<1>3. /\ x \in Frames /\ g.lv[x] = 0 /\ Makes(c, x) /\ x \notin free
      /\ \A d \in Cores \ {c} : ~Taken(d, x)
  BY <1>1, <1>2, MakesIs
<1>4. ~Mapped(g, x) /\ IsCopy(x)
  BY <1>1, <1>3 DEF PagingInv, CoreInv, MadeOK, Unmapped
<1>5. /\ spaces' = spaces \cup {x} /\ mutex' = Null
      /\ pages' = pages \cup {<<x, q[2], q[3]>> : q \in {m \in pages : m[1] = cr3[c]
           /\ Half(m[2]) = "upper"}}
      /\ UNCHANGED <<entry, free, cr3, foreign, making, booting, fault, calls>>
      /\ Then(c, "release_foreign")
  BY <1>2 DEF Cloned
<1>6. \A i \in KernelIndexes : entry[x][i].present
  <2>1. foreign[cr3[c]] = x
    BY <1>1, <1>2 DEF PagingInv, IInv, SlotIsMine, Holds, Held
  <2>2. \A i \in KernelIndexes : entry[cr3[c]][i].present => entry[x][i].present
    BY <2>1 DEF Cloned
  <2>3. cr3[c] \in spaces
    BY DEF PagingInv, Typed
  <2> QED  BY <2>2, <2>3 DEF PagingInv, TreeInv, UpperIsShared
<1>7. PICK k : k = [do |-> "process", step |-> "release_foreign"]
  OBVIOUS
<1>8. Typed' /\ call'[c] = k /\ \A d \in Cores \ {c} : call'[d] = call[d]
  <2>1. AnyCall(k) /\ CallOK(k) /\ Goes(c, k)
    BY <1>5, <1>7 DEF AnyCall, ProcessCall, Later, CallOK, Walks, Then
  <2>2. /\ entry' \in [Frames -> [Entries -> EntryType]] /\ free' \subseteq Frames
        /\ spaces' \subseteq Frames \ free' /\ cr3' \in [Cores -> spaces'] /\ calls' \in Nat
    BY <1>3, <1>5 DEF PagingInv, Typed
  <2> QED  BY <1>5, <2>1, <2>2, TypedOn
<1>9. /\ call'[c].do = "process" /\ call'[c].step = "release_foreign"
      /\ Alone(c) /\ ~Clearing(c)' /\ ~Walker(c)'
  BY <1>5, <1>7, <1>8 DEF Alone, Clearing, Walker
<1>10. PICK h : IsNow(h, g, x, Levels, 0, Null)
  <2>1. /\ g \in Ghosts /\ x \in Frames /\ Levels \in 0..Levels /\ 0 \in Nat
        /\ Null \in Frames \cup {Null}
    BY <1>3, Sizes DEF PagingInv
  <2> QED  BY ONLY <2>1, NewTable
<1>11. Grows(g) /\ Uncleared' = Uncleared
  <2>1. SameTree(g)
    BY <1>5 DEF SameTree
  <2> QED  BY <1>1, <1>9, <2>1, SameTables
<1>12. /\ TreeInv(h)' /\ LeafInv(h)' /\ x \in Cleared(h)'
       /\ \A f \in Cleared(g) : f \in Cleared(h)'
       /\ \A f \in Frames, i \in Entries : Leaf(h, f, i)' <=> Leaf(g, f, i)
  BY <1>3, <1>4, <1>5, <1>6, <1>10, <1>11, SpaceTree
<1>13. Mild(g, h, c)
  <2>1. Keeps(g, h)
    BY <1>3, <1>10 DEF Keeps, IsNow, Beside
  <2>2. Unlocks(g, c)
    BY <1>5 DEF Unlocks
  <2>3. NewLocks(c)
    BY <1>9 DEF NewLocks, Locks
  <2> QED  BY <1>3, <1>5, <1>9, <1>11, <2>1, <2>2, <2>3 DEF Mild
<1>14. Fresh(c) /\ CarriedOK(h, c)' /\ \A y \in Frames : ~Makes(c, y)'
  BY <1>9 DEF Fresh, CarriedOK, Taken, Carries, Makes, Making, Inside, Walks
<1>15. Quiet(g, h, c)
  <2> SUFFICES ASSUME NEW d \in Cores \ {c}, NEW y \in Frames, Taken(d, y)
               PROVE  Untouched(g, h, y) /\ entry'[y] = entry[y]
    BY DEF Quiet
  <2>1. y # x /\ y \notin free /\ g.lv[y] = 0
    BY <1>3, TakenIs
  <2>2. h.lv[y] = 0
    BY <1>10, <2>1 DEF IsNow, Beside
  <2> QED  BY <1>5, <1>12, <2>1, <2>2 DEF Untouched
<1>16. MadeOK(h, c)'
  BY <1>1, <1>2, <1>5, <1>14 DEF MadeOK
<1>17. WalkOK(h, c)'
  BY <1>9 DEF WalkOK
<1>18. PageInv(h)'
  <2> SUFFICES ASSUME NEW u, NEW q, NEW y, <<u, q, y>> \in pages'
               PROVE  /\ u \in spaces' /\ q \in Pages /\ Path(h, u, q, 1)'
                      /\ LET z == entry'[TableIn(entry', u, q, 1)][Index(1, q)] IN
                         z.present /\ z.frame = y
    BY DEF PageInv
  <2>1. ASSUME NEW v, <<v, q, y>> \in pages
        PROVE  /\ v \in spaces' /\ q \in Pages /\ Path(h, v, q, 1)'
               /\ LET z == entry'[TableIn(entry', v, q, 1)][Index(1, q)] IN z.present /\ z.frame = y
    BY <1>5, <1>13, <2>1, MappedStay
  <2>2. CASE <<u, q, y>> \notin pages
    <3>1. PICK s : s = cr3[c]
      OBVIOUS
    <3>2. u = x /\ <<s, q, y>> \in pages /\ Half(q) = "upper"
      <4>1. PICK m \in pages : m[1] = s /\ Half(m[2]) = "upper" /\ <<u, q, y>> = <<x, m[2], m[3]>>
        BY <1>5, <2>2, <3>1
      <4>2. m = <<m[1], m[2], m[3]>>
        BY DEF PagingInv, PagesAre
      <4> QED  BY <4>1, <4>2
    <3>3. /\ q \in Pages /\ PathIn(entry', Cleared(h)', h, s, q, 1)
          /\ LET z == entry'[TableIn(entry', s, q, 1)][Index(1, q)] IN z.present /\ z.frame = y
      BY <2>1, <3>2 DEF Path
    <3>4. /\ 1 \in 1..Levels /\ 1 \in 1..(Levels - 1) /\ x \in Cleared(h)' /\ h.lv[x] = Levels
          /\ h.base[x] = 0
      BY <1>10, <1>12, Sizes DEF IsNow
    <3>5. LET i == Index(Levels, q)
          IN  entry'[x][i].present /\ entry'[x][i].frame = entry'[s][i].frame
      <4>1. Index(Levels, q) \in KernelIndexes
        BY <3>2 DEF Half
      <4>2. s \in spaces' /\ x \in spaces'
        BY <1>5, <3>1 DEF PagingInv, Typed
      <4> QED  BY <1>12, <4>1, <4>2 DEF TreeInv, UpperIsShared
    <3>6. /\ PathIn(entry', Cleared(h)', h, x, q, 1)
          /\ \A m \in 1..(Levels - 1) : TableIn(entry', x, q, m) = TableIn(entry', s, q, m)
      BY ONLY <3>2, <3>3, <3>4, <3>5, PathShared
    <3> QED  BY <1>5, <3>2, <3>3, <3>4, <3>6 DEF Path
  <2> QED  BY <2>1, <2>2
<1>19. PagesAre'
  BY <1>5 DEF PagingInv, PagesAre
<1>20. BootInv'
  BY <1>1, <1>5 DEF BootInv
<1>21. h \in Ghosts
  BY <1>10 DEF IsNow
<1>22. PagingInv(h)'
  BY <1>8, <1>12, <1>13, <1>14, <1>15, <1>16, <1>17, <1>18, <1>19, <1>20, <1>21, MildStep
<1> QED  BY <1>2, <1>10, <1>22 DEF IsNow

------------------------------------------------------------------------------
(* The booter's tables                                                     *)

\* The tables below the lower half of the boot space, and below the tables T.
LowTop == {entry[BootRoot][i].frame : i \in {j \in 0..(Width - 1) \ KernelIndexes :
            entry[BootRoot][j].present}}
LowBelow(T) == UNION {{entry[f][i].frame : i \in {j \in 0..(Width - 1) : entry[f][j].present}} :
                 f \in T}

\* The tables of the lower half exist, and each level leads to the one below.
LEMMA LowTablesAre ==
  \A l \in 1..(Levels - 1) :
    LowTables[l] = IF l = Levels - 1 THEN LowTop ELSE LowBelow(LowTables[l + 1])
<1> DEFINE Is(r, m) == r = [l \in m..(Levels - 1) |-> IF l = Levels - 1 THEN LowTop
      ELSE LowBelow(r[l + 1])]
           S == {m \in 1..(Levels - 1) : \E r : Is(r, m)}
<1>1. PICK n \in Nat : n = Levels - 1 /\ n >= 1
  BY Sizes
<1>2. n \in S
  <2>1. Is([l \in n..n |-> LowTop], n)
    BY <1>1
  <2>2. n \in 1..(Levels - 1)
    BY <1>1
  <2> HIDE DEF Is
  <2> QED  BY <2>1, <2>2
<1>3. ASSUME NEW m \in 1..(n - 1), m + 1 \in S
      PROVE  m \in S
  <2>1. PICK q : Is(q, m + 1)
    BY <1>3
  <2> DEFINE r == [l \in m..n |-> IF l = m THEN LowBelow(q[m + 1]) ELSE q[l]]
  <2>2. \A l \in m..n : r[l] = IF l = n THEN LowTop ELSE LowBelow(r[l + 1])
    <3> TAKE l \in m..n
    <3>1. CASE l = m
      BY <1>1, <3>1
    <3>2. CASE l # m
      <4>1. l \in (m + 1)..n /\ (l # n => l + 1 \in m..n /\ l + 1 # m)
        BY <1>1, <3>2
      <4>2. q[l] = IF l = n THEN LowTop ELSE LowBelow(q[l + 1])
        BY <1>1, <2>1, <4>1
      <4>3. r[l] = q[l] /\ (l # n => r[l + 1] = q[l + 1])
        BY <3>2, <4>1
      <4> QED  BY <4>2, <4>3
    <3> QED  BY <3>1, <3>2
  <2>3. Is(r, m)
    BY <1>1, <2>2
  <2> HIDE DEF r
  <2>4. m \in 1..(Levels - 1)
    BY <1>1
  <2> QED  BY <2>3, <2>4
<1>4. S = 1..n
  <2>1. n \in Nat /\ 1 \in 1..n /\ S \in SUBSET (1..n)
    BY <1>1
  <2> HIDE DEF S
  <2> QED  BY <2>1, <1>2, <1>3, Downward
<1> DEFINE R == CHOOSE r : Is(r, 1)
<1>5. Is(R, 1)
  <2>1. \E r : Is(r, 1)
    BY <1>1, <1>4
  <2> HIDE DEF Is
  <2> QED  BY <2>1
<1>6. LowTables = R
  BY DEF LowTables, LowTop, LowBelow
<1> HIDE DEF R
<1> QED  BY <1>5, <1>6

\* What LowBelow holds.
LEMMA LowBelowIs ==
  ASSUME NEW T, NEW x, x \in LowBelow(T)
  PROVE  \E f \in T, i \in Entries : entry[f][i].present /\ entry[f][i].frame = x
BY DEF LowBelow, Entries

\* What the booter's lower half has of tables: tables of the boot space, under others of them.
LEMMA LowTablesHave ==
  ASSUME NEW g, PagingInv(g), booting
  PROVE  \A l \in 1..(Levels - 1) : \A x \in LowTables[l] :
           /\ x \in Frames /\ g.lv[x] = l
           /\ \E f \in Frames, i \in Entries :
                /\ LeadsOn(g, f, i) /\ entry[f][i].frame = x
                /\ IF f = BootRoot THEN i \notin KernelIndexes
                   ELSE \E k \in 1..(Levels - 1) : f \in LowTables[k]
<1> DEFINE Good(l) == \A x \in LowTables[l] :
             /\ x \in Frames /\ g.lv[x] = l
             /\ \E f \in Frames, i \in Entries :
                  /\ LeadsOn(g, f, i) /\ entry[f][i].frame = x
                  /\ IF f = BootRoot THEN i \notin KernelIndexes
                     ELSE \E k \in 1..(Levels - 1) : f \in LowTables[k]
           S == {l \in 1..(Levels - 1) : Good(l)}
<1>1. Uncleared = {}
  BY UnclearedIs DEF PagingInv, BootInv, Idle, Clearing
<1>2. /\ BootRoot \in Frames /\ BootRoot \in Cleared(g) /\ g.lv[BootRoot] = Levels
  BY SpaceIs DEF PagingInv, TreeInv, SpacesAreTop
<1>3. \A f \in Frames, i \in Entries : LeadsOn(g, f, i) =>
        entry[f][i].frame \in Frames /\ g.lv[entry[f][i].frame] = g.lv[f] - 1
  BY DEF PagingInv, TreeInv, Children, IsChild
<1>4. PICK n \in Nat : n = Levels - 1 /\ n >= 1
  BY Sizes
<1>5. n \in S
  <2>1. Good(n)
    <3> SUFFICES ASSUME NEW x \in LowTables[n]
                 PROVE  /\ x \in Frames /\ g.lv[x] = n
                        /\ \E i \in Entries : /\ LeadsOn(g, BootRoot, i)
                                                 /\ entry[BootRoot][i].frame = x
                                              /\ i \notin KernelIndexes
      BY <1>2
    <3>1. x \in LowTop
      BY <1>4, LowTablesAre
    <3>2. PICK i \in Entries : i \notin KernelIndexes /\ entry[BootRoot][i].present
                 /\ entry[BootRoot][i].frame = x
      BY <3>1 DEF LowTop, Entries
    <3>3. LeadsOn(g, BootRoot, i)
      BY <1>2, <3>2, Sizes DEF LeadsOn
    <3> QED  BY <1>2, <1>3, <1>4, <3>2, <3>3
  <2> HIDE DEF Good
  <2> QED  BY <1>4, <2>1
<1>6. ASSUME NEW m \in 1..(n - 1), m + 1 \in S
      PROVE  m \in S
  <2>1. Good(m + 1) /\ m + 1 \in 1..(Levels - 1) /\ m # Levels - 1 /\ m \in 1..(Levels - 1)
    BY <1>4, <1>6
  <2>2. Good(m)
    <3> SUFFICES ASSUME NEW x \in LowTables[m]
                 PROVE  /\ x \in Frames /\ g.lv[x] = m
                        /\ \E f \in Frames, i \in Entries :
                             /\ LeadsOn(g, f, i) /\ entry[f][i].frame = x
                             /\ IF f = BootRoot THEN i \notin KernelIndexes
                                ELSE \E k \in 1..(Levels - 1) : f \in LowTables[k]
      OBVIOUS
    <3>1. x \in LowBelow(LowTables[m + 1])
      BY <2>1, LowTablesAre
    <3>2. PICK f \in LowTables[m + 1], i \in Entries : entry[f][i].present /\ entry[f][i].frame = x
      BY <3>1, LowBelowIs
    <3>3. f \in Frames /\ g.lv[f] = m + 1
      BY <2>1
    <3>4. LeadsOn(g, f, i) /\ f # BootRoot
      BY <1>1, <1>2, <1>4, <2>1, <3>2, <3>3 DEF LeadsOn, Cleared
    <3>5. x \in Frames /\ g.lv[x] = m
      BY <1>3, <3>2, <3>3, <3>4
    <3> QED  BY <2>1, <3>2, <3>3, <3>4, <3>5
  <2> HIDE DEF Good
  <2> QED  BY <2>1, <2>2
<1>7. S = 1..n
  <2>1. n \in Nat /\ 1 \in 1..n /\ S \in SUBSET (1..n)
    BY <1>4
  <2> HIDE DEF S
  <2> QED  BY <2>1, <1>5, <1>6, Downward
<1> QED  BY <1>4, <1>7

------------------------------------------------------------------------------
(* The booter's mapping is dropped                                         *)

\* What is known of the tables after those in the frames L are none any more.
NotNow(h, g, L) ==
  /\ h \in Ghosts /\ h.base = g.base /\ h.own = g.own
  /\ \A f \in Frames : h.lv[f] = IF f \in L THEN 0 ELSE g.lv[f]

\* There are tables like that.
LEMMA NoTables ==
  ASSUME NEW g \in Ghosts, NEW L
  PROVE  \E h : NotNow(h, g, L)
<1>1. PICK lv : lv = [f \in Frames |-> IF f \in L THEN 0 ELSE g.lv[f]]
  OBVIOUS
<1>2. PICK h : h = [lv |-> lv, base |-> g.base, own |-> g.own]
  OBVIOUS
<1>3. lv \in [Frames -> 0..Levels]
  BY <1>1, Sizes DEF Ghosts
<1>4. h \in Ghosts /\ h.lv = lv /\ h.base = g.base /\ h.own = g.own
  BY <1>2, <1>3 DEF Ghosts
<1> QED  BY <1>1, <1>4 DEF NotNow

\* The tree after the booter's lower half has been taken away.
LEMMA DropTree ==
  ASSUME NEW g, PagingInv(g), Uncleared = {}, Uncleared' = {}, spaces = {BootRoot},
         spaces' = spaces,
         NEW L \in SUBSET Frames, BootRoot \notin L, \A x \in L : g.lv[x] \in 1..(Levels - 1),
         \A x \in L : \E f \in Frames, i \in Entries :
           /\ LeadsOn(g, f, i) /\ entry[f][i].frame = x
           /\ IF f = BootRoot THEN i \notin KernelIndexes ELSE f \in L,
         NEW h, NotNow(h, g, L), free' = free \cup L,
         \A f \in Frames, i \in Entries : f \notin L /\ (f # BootRoot \/ i \in KernelIndexes) =>
           entry'[f][i] = entry[f][i],
         \A i \in Entries : entry'[BootRoot][i].present => i \in KernelIndexes
  PROVE  TreeInv(h)' /\ LeafInv(h)'
<1>1. /\ h.base = g.base /\ h.own = g.own
      /\ \A f \in Frames : h.lv[f] = IF f \in L THEN 0 ELSE g.lv[f]
  BY DEF NotNow
<1>2. BootRoot \in Frames /\ g.lv[BootRoot] = Levels /\ BootRoot \in spaces
  BY DEF PagingInv, TreeInv, SpacesAreTop, Typed
<1>3. \A f \in Frames : g.lv[f] \in 0..Levels
  BY DEF PagingInv, Ghosts
<1>4. \A f \in Frames, i \in Entries : LeadsOn(h, f, i)' =>
        /\ LeadsOn(g, f, i) /\ entry'[f][i] = entry[f][i] /\ f \notin L
        /\ f = BootRoot => i \in KernelIndexes
  <2> SUFFICES ASSUME NEW f \in Frames, NEW i \in Entries, LeadsOn(h, f, i)'
               PROVE  /\ LeadsOn(g, f, i) /\ entry'[f][i] = entry[f][i] /\ f \notin L
                      /\ f = BootRoot => i \in KernelIndexes
    OBVIOUS
  <2>1. h.lv[f] >= 2 /\ entry'[f][i].present
    BY DEF LeadsOn
  <2>2. f \notin L /\ g.lv[f] >= 2
    BY <1>1, <2>1
  <2>3. f = BootRoot => i \in KernelIndexes
    BY <2>1
  <2>4. entry'[f][i] = entry[f][i]
    BY <2>2, <2>3
  <2> QED  BY <1>3, <2>1, <2>2, <2>3, <2>4 DEF LeadsOn, Cleared
<1>5. \A f \in Frames, i \in Entries : LeadsOn(h, f, i)' => entry[f][i].frame \notin L
  <2> SUFFICES ASSUME NEW f \in Frames, NEW i \in Entries, LeadsOn(h, f, i)',
                      entry[f][i].frame \in L
               PROVE  FALSE
    OBVIOUS
  <2>1. PICK k \in Frames, j \in Entries :
          /\ LeadsOn(g, k, j) /\ entry[k][j].frame = entry[f][i].frame
          /\ IF k = BootRoot THEN j \notin KernelIndexes ELSE k \in L
    OBVIOUS
  <2>2. i = j /\ f = k
    BY <1>4, <2>1 DEF PagingInv, TreeInv, OneParent
  <2> QED  BY <1>4, <2>1, <2>2
<1>6. SpacesAreTop(h)'
  <2>1. \A f \in Frames : h.lv[f] = Levels <=> f = BootRoot
    BY <1>1, <1>2, Sizes DEF PagingInv, TreeInv, SpacesAreTop
  <2> QED  BY <1>1, <1>2, <2>1 DEF PagingInv, TreeInv, SpacesAreTop
<1>7. FreeIsNoTable(h)'
  BY <1>1 DEF PagingInv, Typed, TreeInv, FreeIsNoTable
<1>8. Children(h)'
  <2> SUFFICES ASSUME NEW f \in Frames, NEW i \in Entries, LeadsOn(h, f, i)', NEW x,
                      x = entry'[f][i].frame
               PROVE  IsChild(spaces, h, f, i, x)
    BY DEF Children
  <2>1. LeadsOn(g, f, i) /\ x = entry[f][i].frame /\ f \notin L /\ x \notin L
    BY <1>4, <1>5
  <2>2. IsChild(spaces, g, f, i, x)
    BY <2>1 DEF PagingInv, TreeInv, Children
  <2> QED  BY <1>1, <2>1, <2>2 DEF IsChild
<1>9. OneParent(h)'
  <2> SUFFICES ASSUME NEW f \in Frames, NEW k \in Frames, NEW i \in Entries, NEW j \in Entries,
                      LeadsOn(h, f, i)', LeadsOn(h, k, j)', entry'[f][i].frame = entry'[k][j].frame
               PROVE  i = j /\ (f = k \/ (f \in spaces /\ k \in spaces /\ i \in KernelIndexes))
    BY DEF OneParent
  <2> QED  BY <1>4 DEF PagingInv, TreeInv, OneParent
<1>10. UpperIsShared'
  <2> SUFFICES ASSUME NEW j \in KernelIndexes
               PROVE  entry'[BootRoot][j].present
    BY DEF UpperIsShared
  <2>1. j \in Entries /\ entry[BootRoot][j].present
    BY <1>2, Sizes DEF PagingInv, TreeInv, UpperIsShared
  <2> QED  BY <1>2, <2>1
<1>11. \A f \in Frames, i \in Entries : Leaf(h, f, i)' => Leaf(g, f, i)
         /\ entry'[f][i] = entry[f][i]
  <2> SUFFICES ASSUME NEW f \in Frames, NEW i \in Entries, Leaf(h, f, i)'
               PROVE  Leaf(g, f, i) /\ entry'[f][i] = entry[f][i]
    OBVIOUS
  <2>1. h.lv[f] = 1 /\ entry'[f][i].present
    BY DEF Leaf
  <2>2. f \notin L /\ g.lv[f] = 1 /\ f # BootRoot
    BY <1>1, <1>2, <2>1, Sizes
  <2>3. entry'[f][i] = entry[f][i]
    BY <2>2
  <2> QED  BY <2>1, <2>2, <2>3 DEF Leaf, Cleared
<1>12. LeafInv(h)'
  <2> SUFFICES ASSUME NEW f \in Frames, NEW i \in Entries, Leaf(h, f, i)', NEW y,
                      y = entry'[f][i].frame
               PROVE  IF y \in Frames
                      THEN /\ h.lv[y] = 0 /\ y \notin free'
                           /\ \A k \in Frames, j \in Entries :
                                Leaf(h, k, j)' /\ entry'[k][j].frame = y => k = f /\ j = i
                      ELSE h.base[f] * Width + i \in Devices
    BY DEF LeafInv
  <2>1. Leaf(g, f, i) /\ entry[f][i].frame = y
    BY <1>11
  <2>2. IF y \in Frames
        THEN /\ g.lv[y] = 0 /\ y \notin free
             /\ \A k \in Frames, j \in Entries :
                  Leaf(g, k, j) /\ entry[k][j].frame = y => k = f /\ j = i
        ELSE g.base[f] * Width + i \in Devices
    BY <2>1 DEF PagingInv, LeafInv
  <2> QED  BY <1>1, <1>11, <2>2
<1> QED  BY <1>6, <1>7, <1>8, <1>9, <1>10, <1>12 DEF TreeInv

\* The boot core drops the booter's mapping.
LEMMA DropKeeps ==
  ASSUME NEW g, PagingInv(g), DropBootloaderMapping, IInv'
  PROVE  \E h : PagingInv(h)' /\ h.own = g.own /\ \A f \in Frames : h.lv[f] \in {0, g.lv[f]}
<1>1. /\ booting /\ ~booting' /\ booting' \in BOOLEAN
      /\ UNCHANGED <<cr3, foreign, call, mutex, making, spaces, pages, fault, calls>>
  BY DEF DropBootloaderMapping
<1>2. /\ pages = {} /\ spaces = {BootRoot} /\ \A c \in Cores : call[c] = Idle
  BY <1>1 DEF PagingInv, BootInv
<1>3. PICK L : L = UNION {LowTables[l] : l \in 1..(Levels - 1)}
  OBVIOUS
<1>4. \A x : x \in L <=> \E l \in 1..(Levels - 1) : x \in LowTables[l]
  BY <1>3
<1>5. /\ L \in SUBSET Frames /\ BootRoot \notin L /\ \A x \in L : g.lv[x] \in 1..(Levels - 1)
      /\ \A x \in L : \E f \in Frames, i \in Entries :
           /\ LeadsOn(g, f, i) /\ entry[f][i].frame = x
           /\ IF f = BootRoot THEN i \notin KernelIndexes ELSE f \in L
  <2>1. g.lv[BootRoot] = Levels
    BY SpaceIs DEF PagingInv, TreeInv, SpacesAreTop
  <2>2. \A x \in L : x \in Frames /\ g.lv[x] \in 1..(Levels - 1)
    BY <1>1, <1>4, LowTablesHave
  <2>3. BootRoot \notin L
    BY <2>1, <2>2, Sizes
  <2>4. ASSUME NEW x \in L
        PROVE  \E f \in Frames, i \in Entries :
                 /\ LeadsOn(g, f, i) /\ entry[f][i].frame = x
                 /\ IF f = BootRoot THEN i \notin KernelIndexes ELSE f \in L
    <3>1. PICK l \in 1..(Levels - 1) : x \in LowTables[l]
      BY <1>4
    <3>2. PICK f \in Frames, i \in Entries :
            /\ LeadsOn(g, f, i) /\ entry[f][i].frame = x
            /\ IF f = BootRoot THEN i \notin KernelIndexes
               ELSE \E k \in 1..(Levels - 1) : f \in LowTables[k]
      BY <1>1, <3>1, LowTablesHave
    <3> QED  BY <1>4, <3>2
  <2> QED  BY <2>2, <2>3, <2>4
<1>6. free' = free \cup L
  BY <1>3 DEF DropBootloaderMapping
<1>7. /\ entry' \in [Frames -> [Entries -> EntryType]]
      /\ \A f \in Frames, i \in Entries : f \notin L /\ (f # BootRoot \/ i \in KernelIndexes) =>
           entry'[f][i] = entry[f][i]
      /\ \A i \in Entries : entry'[BootRoot][i].present => i \in KernelIndexes
  <2> DEFINE P(f, i) == \/ f = BootRoot /\ i \notin KernelIndexes
                        \/ \E l \in 2..(Levels - 1) : f \in LowTables[l]
  <2>1. entry' = [f \in Frames |-> [i \in Entries |-> IF P(f, i) THEN Absent(entry[f][i])
          ELSE entry[f][i]]]
    BY DEF DropBootloaderMapping, Entries
  <2>2. \A f \in Frames, i \in Entries :
          /\ entry[f][i] \in EntryType /\ Absent(entry[f][i]) \in EntryType
          /\ ~Absent(entry[f][i]).present
    <3>1. \A e \in EntryType : Absent(e) \in EntryType /\ ~Absent(e).present
      BY DEF EntryType, Absent
    <3>2. \A f \in Frames, i \in Entries : entry[f][i] \in EntryType
      BY DEF PagingInv, Typed
    <3> QED  BY <3>1, <3>2
  <2>3. BootRoot \in Frames /\ \A i \in Entries : i \notin KernelIndexes => P(BootRoot, i)
    BY PagingAssumption
  <2>4. \A f \in Frames, i \in Entries : f \notin L /\ (f # BootRoot \/ i \in KernelIndexes)
          => ~P(f, i)
    <3>1. \A l \in 2..(Levels - 1) : l \in 1..(Levels - 1)
      BY Sizes
    <3> QED  BY <1>4, <3>1
  <2> HIDE DEF P
  <2> QED  BY <2>1, <2>2, <2>3, <2>4
<1>8. PICK h : NotNow(h, g, L)
  BY NoTables DEF PagingInv
<1>9. Uncleared = {} /\ Uncleared' = {}
  BY <1>1, <1>2, UnclearedIs, UnclearedWillBe DEF Clearing, Idle
<1>10. TreeInv(h)' /\ LeafInv(h)'
  BY <1>1, <1>2, <1>5, <1>6, <1>7, <1>8, <1>9, DropTree
<1>11. Typed'
  <2>1. spaces' \subseteq Frames \ free' /\ free' \subseteq Frames /\ cr3' \in [Cores -> spaces']
    BY <1>1, <1>2, <1>5, <1>6 DEF PagingInv, Typed
  <2> QED  BY <1>1, <1>7, <2>1 DEF PagingInv, Typed
<1>12. CoreInv(h)'
  <2>1. \A c \in Cores : call'[c].do = "idle"
    BY <1>1, <1>2 DEF Idle
  <2> QED  BY <2>1 DEF CoreInv, CarriedOK, Carries, MadeOK, Making, Walks, Makes, WalkOK, Walker,
        Clearing,
                       LocksOK, LocksApart, Locks
<1>13. PageInv(h)' /\ PagesAre' /\ BootInv' /\ h \in Ghosts
  BY <1>1, <1>2, <1>8 DEF PageInv, PagesAre, BootInv, NotNow
<1>14. PagingInv(h)'
  BY <1>10, <1>11, <1>12, <1>13 DEF PagingInv
<1> QED  BY <1>8, <1>14 DEF NotNow

------------------------------------------------------------------------------
(* The steps together                                                      *)

\* A step that changes nothing but the fault.
LEMMA Unchanged ==
  ASSUME NEW g, PagingInv(g), UNCHANGED <<entry, free, cr3, call, mutex, making, spaces, pages,
         booting, calls>>,
         fault' \in {"none", "panic"}, IInv'
  PROVE  PagingInv(g)'
<1>1. Cleared(g)' = Cleared(g)
  <2>1. Uncleared' = Uncleared
    BY DEF Uncleared, EntryOf, Table
  <2> QED  BY <2>1 DEF Cleared
<1>2. Uncleared' = Uncleared
  BY DEF Uncleared, EntryOf, Table
<1>3. Typed'
  BY DEF PagingInv, Typed, AnyCall, CallOK
<1>4. TreeInv(g)'
  BY <1>1, <1>2 DEF PagingInv, TreeInv, SpacesAreTop, FreeIsNoTable, Children, OneParent,
           UpperIsShared, LeadsOn
<1>5. (\A f, i : Leaf(g, f, i)' <=> Leaf(g, f, i)) /\ \A x : Mapped(g, x)' <=> Mapped(g, x)
  BY <1>1 DEF Leaf, Mapped
<1>6. LeafInv(g)'
  BY <1>5 DEF PagingInv, LeafInv
<1>7. \A s, p, l : Path(g, s, p, l)' <=> Path(g, s, p, l)
  BY <1>1 DEF Path
<1>8. PageInv(g)' /\ PagesAre' /\ BootInv'
  BY <1>7 DEF PagingInv, PageInv, PagesAre, BootInv
<1>9. \A c \in Cores : CarriedOK(g, c)' /\ MadeOK(g, c)' /\ WalkOK(g, c)' /\ LocksOK(c)'
  <2> SUFFICES ASSUME NEW c \in Cores
               PROVE  CarriedOK(g, c)' /\ MadeOK(g, c)' /\ WalkOK(g, c)' /\ LocksOK(c)'
    OBVIOUS
  <2>1. CarriedOK(g, c) /\ MadeOK(g, c) /\ WalkOK(g, c) /\ LocksOK(c)
    BY DEF PagingInv, CoreInv
  <2>2. CarriedOK(g, c)'
    BY <1>5, <2>1 DEF CarriedOK, Carries, Makes, Making
  <2>3. MadeOK(g, c)'
    BY <1>5, <1>7, <2>1 DEF MadeOK, Makes, Making, Unmapped, IsCopy
  <2>4. WalkOK(g, c)'
    BY <1>7, <2>1 DEF WalkOK, Walker, Clearing, Here, Slot, TableOf, IndexOf, Target
  <2>5. LocksOK(c)'
    BY <2>1 DEF LocksOK, Locks, Walker, Clearing, TableOf, IndexOf
  <2> QED  BY <2>2, <2>3, <2>4, <2>5
<1>10. \A c, d \in Cores : LocksApart(c, d)'
  BY DEF PagingInv, CoreInv, LocksApart, Locks, Walker, Clearing, TableOf, IndexOf
<1> QED  BY <1>3, <1>4, <1>6, <1>8, <1>9, <1>10 DEF PagingInv, CoreInv

\* panic stops the cores and changes nothing of the tables.
LEMMA PanicKeeps ==
  ASSUME NEW g, PagingInv(g), Panic, IInv'
  PROVE  PagingInv(g)'
BY Unchanged DEF Panic, spaceVars

\* The operations that make no table keep the invariant.
LEMMA StepSame ==
  ASSUME NEW g, PagingInv(g), NEW c \in Cores, Step(c), Panic \/ ~(Link(c) \/ Cloned(c)), IInv'
  PROVE  PagingInv(g)'
<1>1. CASE Panic  BY <1>1, PanicKeeps
<1>2. CASE ~Panic
  <2>1. CASE Clear(c)  BY <2>1, ClearKeeps
  <2>2. CASE MapDescend(c)  BY <2>2, MapDescendKeeps
  <2>3. CASE UnmapDescend(c)  BY <1>2, <2>3, UnmapDescendKeeps
  <2>4. CASE MapPage(c)  BY <1>2, <2>4, MapPageKeeps
  <2>5. CASE UnmapPage(c)  BY <1>2, <2>5, UnmapPageKeeps
  <2>6. CASE QueryLock(c)  BY <2>6, QueryLockKeeps
  <2>7. CASE Query(c)
    <3>1. call[c].do = "query" /\ call[c].step = "read"
      BY <2>7 DEF Query
    <3>2. \/ /\ call[c].level > 1
             /\ Goes(c, [call[c] EXCEPT !.level = call[c].level - 1])
             /\ UNCHANGED <<spaceVars, entry, free, pages, fault, calls>>
          \/ \E x : /\ entry' = [entry EXCEPT ![cr3[c]][Index(Levels, call[c].at)].locked = FALSE]
                    /\ Goes(c, [call[c] EXCEPT !.phys = x, !.at = call[c].at + 1, !.step = "done"])
                    /\ UNCHANGED <<spaceVars, free, pages, fault, calls>>
      BY <1>2, <2>7 DEF Query
    <3>3. CASE /\ call[c].level > 1
               /\ Goes(c, [call[c] EXCEPT !.level = call[c].level - 1])
               /\ UNCHANGED <<spaceVars, entry, free, pages, fault, calls>>
      BY <3>1, <3>3, ReadKeeps
    <3>4. CASE \E x : /\ entry' = [entry EXCEPT ![cr3[c]][Index(Levels, call[c].at)].locked = FALSE]
                      /\ Goes(c, [call[c] EXCEPT !.phys = x, !.at = call[c].at + 1,
                           !.step = "done"])
                      /\ UNCHANGED <<spaceVars, free, pages, fault, calls>>
      BY <3>1, <3>4, FoundKeeps
    <3> QED  BY <3>2, <3>3, <3>4
  <2>8. CASE Return(c)  BY <1>2, <2>8, ReturnKeeps
  <2>9. CASE Clone(c)  BY <1>2, <2>9, CloneStarts
  <2>10. CASE Zero(c)  BY <2>10, ZeroClears
  <2>11. CASE SetForeign(c)
    BY <2>11, ThenStep DEF SetForeign
  <2>12. CASE Copy(c)  BY <2>12, CopyKeeps
  <2>13. CASE ReleaseForeign(c)
    BY <2>13, ThenStep DEF ReleaseForeign
  <2>14. CASE Enter(c)  BY <1>2, <2>14, EnterStarts
  <2>15. CASE Leave(c)  BY <2>15, LeaveKeeps
  <2> QED
    BY <1>2, <2>1, <2>2, <2>3, <2>4, <2>5, <2>6, <2>7, <2>8, <2>9, <2>10, <2>11, <2>12,
       <2>13, <2>14, <2>15 DEF Step
<1> QED  BY <1>1, <1>2

\* Every operation of a core keeps the invariant.
LEMMA StepKeeps ==
  ASSUME NEW g, PagingInv(g), NEW c \in Cores, Step(c), IInv'
  PROVE  \E h : PagingInv(h)'
<1>1. CASE Panic \/ ~(Link(c) \/ Cloned(c))  BY <1>1, StepSame
<1>2. CASE ~Panic /\ Link(c)  BY <1>2, LinkKeeps
<1>3. CASE Cloned(c)  BY <1>3, SpaceKeeps
<1> QED  BY <1>1, <1>2, <1>3

\* Every step keeps the invariant.
LEMMA NextKeeps ==
  ASSUME NEW g, PagingInv(g), [Next]_vars
  PROVE  \E h : PagingInv(h)'
<1>1. IInv'
  <2>1. IInv /\ FreeIsMemory
    BY DEF PagingInv, Typed, FreeIsMemory
  <2> QED  BY <2>1, NextInv
<1>2. CASE UNCHANGED vars
  <2>1. fault' \in {"none", "panic"}
    BY <1>2 DEF vars, PagingInv, Typed
  <2> QED  BY <1>1, <1>2, <2>1, Unchanged DEF vars
<1>3. CASE DropBootloaderMapping  BY <1>1, <1>3, DropKeeps
<1>4. ASSUME NEW c \in Cores, Step(c) PROVE \E h : PagingInv(h)'
  BY <1>1, <1>4, StepKeeps
<1>5. ASSUME NEW c \in Cores, NEW r \in Requests, Start(c, r) PROVE \E h : PagingInv(h)'
  BY <1>1, <1>5, StartKeeps
<1>6. ASSUME NEW c \in Cores, NEW s \in spaces, SetAsid(c, s) PROVE \E h : PagingInv(h)'
  BY <1>1, <1>6, AsidKeeps
<1> QED  BY <1>2, <1>3, <1>4, <1>5, <1>6 DEF Next

\* The booter leaves the paging structures in order.
LEMMA InitTree ==
  ASSUME NEW level, NEW base, NEW owner, BootTree(level, base, owner), Init
  PROVE  \E g : PagingInv(g) /\ g.own = owner /\ \A f \in Frames, i \in Entries : ~Leaf(g, f, i)
<1>1. PICK g : g = [lv |-> level, base |-> base, own |-> owner]
  OBVIOUS
<1>2. g \in Ghosts /\ g.lv = level /\ g.base = base /\ g.own = owner
  <2>1. {Null, BootRoot} \subseteq Frames \cup {Null}
    BY PagingAssumption
  <2> QED  BY <1>1, <2>1 DEF BootTree, Ghosts
<1>3. /\ BootRoot \in Frames /\ g.base[BootRoot] = 0
      /\ \A f \in Frames : g.lv[f] = Levels <=> f = BootRoot
      /\ \A f \in Frames : g.lv[f] > 0 <=> f = BootRoot \/ \E t \in BootTables : t[3] = f
  BY <1>2, PagingAssumption DEF BootTree
<1>4. \A t \in BootTables :
        /\ t[1] \in Frames /\ t[2] \in Entries /\ t[3] \in Frames
        /\ g.lv[t[1]] >= 2 /\ g.lv[t[3]] = g.lv[t[1]] - 1
        /\ g.base[t[3]] = g.base[t[1]] * Width + t[2]
        /\ g.own[t[3]] = IF t[1] # BootRoot THEN g.own[t[1]]
                         ELSE IF t[2] \in KernelIndexes THEN Null ELSE BootRoot
  BY <1>2 DEF BootTree, Entries
<1>5. /\ \A t, u \in BootTables : t[3] = u[3] \/ (t[1] = u[1] /\ t[2] = u[2]) => t = u
      /\ \A i \in KernelIndexes : \E t \in BootTables : t[1] = BootRoot /\ t[2] = i
  BY DEF BootTree
<1>6. /\ \A c \in Cores : call[c] = Idle
      /\ cr3 = [c \in Cores |-> BootRoot] /\ spaces = {BootRoot} /\ pages = {} /\ booting = TRUE
      /\ fault = "none" /\ calls = 0 /\ mutex = Null /\ call = [c \in Cores |-> call[c]]
      /\ free = Frames \ ({BootRoot} \cup {t[3] : t \in BootTables})
  BY DEF Init
<1>7. \A f \in Frames, i \in Entries :
        /\ entry[f][i] \in EntryType
        /\ (f = BootRoot \/ \E t \in BootTables : t[3] = f) /\ entry[f][i].present =>
             \E t \in BootTables : t[1] = f /\ t[2] = i
        /\ \A t \in BootTables : t[1] = f /\ t[2] = i => entry[f][i].present
             /\ entry[f][i].frame = t[3]
  <2> SUFFICES ASSUME NEW f \in Frames, NEW i \in Entries
               PROVE  /\ entry[f][i] \in EntryType
                      /\ (f = BootRoot \/ \E t \in BootTables : t[3] = f) /\ entry[f][i].present =>
                           \E t \in BootTables : t[1] = f /\ t[2] = i
                      /\ \A t \in BootTables : t[1] = f /\ t[2] = i =>
                           entry[f][i].present /\ entry[f][i].frame = t[3]
    OBVIOUS
  <2>1. PICK x : x = CHOOSE t \in BootTables : t[1] = f /\ t[2] = i
    OBVIOUS
  <2>2. PICK e : e = [Entry EXCEPT !.present = TRUE, !.write = TRUE, !.frame = x[3]]
    OBVIOUS
  <2>3. /\ Entry \in EntryType /\ Garbage \in EntryType /\ ~Entry.present
        /\ e.present /\ e.frame = x[3] /\ (x[3] \in Nat => e \in EntryType)
    <3>1. Entry \in EntryType /\ ~Entry.present
      BY DEF Entry, EntryType, Null
    <3>2. PICK y : y = Entry
      OBVIOUS
    <3>3. y \in EntryType /\ 2 * NFrames \in Nat
      BY <3>1, <3>2, PagingAssumption
    <3>4. [y EXCEPT !.present = TRUE, !.frame = 2 * NFrames] \in EntryType
      BY ONLY <3>3 DEF EntryType
    <3>5. e = [y EXCEPT !.present = TRUE, !.write = TRUE, !.frame = x[3]]
      BY <2>2, <3>2
    <3>6. e.present /\ e.frame = x[3] /\ (x[3] \in Nat => e \in EntryType)
      BY ONLY <3>3, <3>5 DEF EntryType
    <3> QED  BY <3>1, <3>2, <3>4, <3>6 DEF Garbage
  <2>4. entry[f][i] = IF \E t \in BootTables : t[1] = f /\ t[2] = i THEN e
                      ELSE IF f = BootRoot \/ \E t \in BootTables : t[3] = f THEN Entry ELSE Garbage
    BY <2>1, <2>2 DEF Init, Entries
  <2>5. (\E t \in BootTables : t[1] = f /\ t[2] = i) => x \in BootTables /\ x[1] = f /\ x[2] = i
    BY <2>1
  <2>6. \A n \in Frames : n \in Nat
    BY DEF Frames
  <2> QED  BY <1>4, <1>5, <2>3, <2>4, <2>5, <2>6
<1>8. \A f \in Frames, i \in Entries : g.lv[f] > 0 /\ entry[f][i].present =>
        \E t \in BootTables : t[1] = f /\ t[2] = i /\ t[3] = entry[f][i].frame
  BY <1>3, <1>7
<1>9. Uncleared = {}
  BY <1>6, UnclearedIs DEF Clearing, Idle
<1>10. \A f \in Frames, i \in Entries : LeadsOn(g, f, i) =>
         \E t \in BootTables : t[1] = f /\ t[2] = i /\ t[3] = entry[f][i].frame
  BY <1>8 DEF LeadsOn, Cleared
<1>11. \A f \in Frames, i \in Entries : ~Leaf(g, f, i)
  <2> SUFFICES ASSUME NEW f \in Frames, NEW i \in Entries, Leaf(g, f, i) PROVE FALSE
    OBVIOUS
  <2>1. g.lv[f] = 1 /\ entry[f][i].present
    BY DEF Leaf
  <2>2. PICK t \in BootTables : t[1] = f
    BY <1>8, <2>1
  <2> QED  BY <1>4, <2>1, <2>2
<1>12. TreeInv(g)
  <2>1. SpacesAreTop(g)
    BY <1>3, <1>6, <1>9 DEF SpacesAreTop
  <2>2. FreeIsNoTable(g)
    <3>1. \A f \in free : f \in Frames /\ ~(g.lv[f] > 0)
      BY <1>3, <1>6
    <3> QED  BY <1>2, <3>1 DEF FreeIsNoTable, Ghosts
  <2>3. Children(g)
    <3> SUFFICES ASSUME NEW f \in Frames, NEW i \in Entries, LeadsOn(g, f, i)
                 PROVE  IsChild(spaces, g, f, i, entry[f][i].frame)
      BY DEF Children
    <3>1. PICK t \in BootTables : t[1] = f /\ t[2] = i /\ t[3] = entry[f][i].frame
      BY <1>10
    <3> QED  BY <1>4, <1>6, <3>1 DEF IsChild
  <2>4. OneParent(g)
    <3> SUFFICES ASSUME NEW f \in Frames, NEW k \in Frames, NEW i \in Entries, NEW j \in Entries,
                        LeadsOn(g, f, i), LeadsOn(g, k, j), entry[f][i].frame = entry[k][j].frame
                 PROVE  i = j /\ f = k
      BY DEF OneParent
    <3>1. PICK t \in BootTables : t[1] = f /\ t[2] = i /\ t[3] = entry[f][i].frame
      BY <1>10
    <3>2. PICK u \in BootTables : u[1] = k /\ u[2] = j /\ u[3] = entry[k][j].frame
      BY <1>10
    <3> QED  BY <1>5, <3>1, <3>2
  <2>5. UpperIsShared
    <3>1. \A i \in KernelIndexes : i \in Entries
      BY Sizes
    <3> QED  BY <1>3, <1>5, <1>6, <1>7, <3>1 DEF UpperIsShared
  <2> QED  BY <2>1, <2>2, <2>3, <2>4, <2>5 DEF TreeInv
<1>13. LeafInv(g)
  BY <1>11 DEF LeafInv
<1>14. Typed
  <2>1. entry = [f \in Frames |-> [i \in Entries |-> entry[f][i]]]
    BY DEF Init, Entries
  <2>2. entry \in [Frames -> [Entries -> EntryType]]
    BY <1>7, <2>1
  <2>3. \A c \in Cores : AnyCall(call[c]) /\ CallOK(call[c])
    BY <1>6 DEF AnyCall, CallOK, Idle, Walks
  <2>4. free \subseteq Frames /\ spaces \subseteq Frames \ free /\ cr3 \in [Cores -> spaces]
    BY <1>3, <1>6
  <2> QED  BY <1>6, <2>2, <2>3, <2>4 DEF Typed
<1>15. CoreInv(g)
  <2>1. \A c \in Cores : call[c].do = "idle"
    BY <1>6 DEF Idle
  <2> QED  BY <2>1 DEF CoreInv, CarriedOK, Carries, MadeOK, Making, Walks, Makes, WalkOK, Walker,
        Clearing,
                       LocksOK, LocksApart, Locks
<1>16. PageInv(g) /\ PagesAre /\ BootInv
  BY <1>6 DEF PageInv, PagesAre, BootInv
<1>17. PagingInv(g)
  BY <1>2, <1>12, <1>13, <1>14, <1>15, <1>16, InitInv DEF PagingInv
<1> QED  BY <1>2, <1>11, <1>17

\* The paging structures are in order for good.
THEOREM InOrder ==
  ASSUME NEW CONSTANT level, NEW CONSTANT base, NEW CONSTANT owner, BootTree(level, base, owner)
  PROVE  Spec => [](\E g : PagingInv(g))
<1>1. Init => \E g : PagingInv(g)
  BY InitTree
<1>2. (\E g : PagingInv(g)) /\ [Next]_vars => (\E g : PagingInv(g))'
  <2>1. ASSUME NEW g, PagingInv(g), [Next]_vars PROVE \E h : PagingInv(h)'
    BY <2>1, NextKeeps
  <2> QED  BY <2>1
<1> QED  BY <1>1, <1>2, PTL DEF Spec

------------------------------------------------------------------------------
(* What is in use                                                          *)

\* The tables of a space exist, and each level leads to the one below.
LEMMA TablesAre ==
  ASSUME NEW s
  PROVE  \A l \in 1..Levels : Tables(s)[l] = IF l = Levels THEN {s} ELSE Below(Tables(s)[l + 1])
<1> DEFINE Is(r, m) == r = [l \in m..Levels |-> IF l = Levels THEN {s} ELSE Below(r[l + 1])]
           S == {m \in 1..Levels : \E r : Is(r, m)}
<1>1. Levels \in S
  <2>1. Is([l \in Levels..Levels |-> {s}], Levels)
    BY Sizes
  <2>2. Levels \in 1..Levels
    BY Sizes
  <2> HIDE DEF Is
  <2> QED  BY <2>1, <2>2
<1>2. ASSUME NEW m \in 1..(Levels - 1), m + 1 \in S
      PROVE  m \in S
  <2>1. PICK q : Is(q, m + 1)
    BY <1>2
  <2> DEFINE r == [l \in m..Levels |-> IF l = m THEN Below(q[m + 1]) ELSE q[l]]
  <2>2. \A l \in m..Levels : r[l] = IF l = Levels THEN {s} ELSE Below(r[l + 1])
    <3> TAKE l \in m..Levels
    <3>1. CASE l = m
      BY <3>1, Sizes
    <3>2. CASE l # m
      <4>1. l \in (m + 1)..Levels /\ (l # Levels => l + 1 \in m..Levels /\ l + 1 # m)
        BY <3>2, Sizes
      <4>2. q[l] = IF l = Levels THEN {s} ELSE Below(q[l + 1])
        BY <2>1, <4>1
      <4>3. r[l] = q[l] /\ (l # Levels => r[l + 1] = q[l + 1])
        BY <3>2, <4>1
      <4> QED  BY <4>2, <4>3
    <3> QED  BY <3>1, <3>2
  <2>3. Is(r, m)
    BY <2>2
  <2> HIDE DEF r
  <2>4. m \in 1..Levels
    BY Sizes
  <2> QED  BY <2>3, <2>4
<1>3. S = 1..Levels
  <2>1. Levels \in Nat /\ 1 \in 1..Levels /\ S \in SUBSET (1..Levels)
    BY Sizes
  <2> HIDE DEF S
  <2> QED  BY <2>1, <1>1, <1>2, Downward
<1> DEFINE R == CHOOSE r : Is(r, 1)
<1>4. Is(R, 1)
  <2>1. \E r : Is(r, 1)
    BY <1>3, Sizes
  <2> HIDE DEF Is
  <2> QED  BY <2>1
<1>5. Tables(s) = R
  BY DEF Tables
<1> HIDE DEF R
<1> QED  BY <1>4, <1>5

\* The top table of a space is its PML4.
LEMMA TableIsTop ==
  ASSUME NEW s
  PROVE  Tables(s)[Levels] = {s}
<1>1. Levels \in 1..Levels
  BY Sizes
<1> QED  BY <1>1, TablesAre

\* What Below holds.
LEMMA BelowIs ==
  ASSUME NEW T, NEW x
  PROVE  x \in Below(T) <=> \E f \in T, i \in Entries : /\ f \notin Uncleared /\ entry[f][i].present
                                                        /\ entry[f][i].frame = x
BY DEF Below, Entries

\* They are what they are said to be, and but for the space each has one above it.
LEMMA TablesHave ==
  ASSUME NEW g, PagingInv(g), NEW s \in spaces
  PROVE  /\ \A l \in 1..Levels : \A x \in Tables(s)[l] : x \in Frames /\ g.lv[x] = l
         /\ \A l \in 1..(Levels - 1) : \A x \in Tables(s)[l] :
              \E f \in Tables(s)[l + 1], i \in Entries : LeadsOn(g, f, i) /\ entry[f][i].frame = x
<1> DEFINE Good(l) == \A x \in Tables(s)[l] : x \in Frames /\ g.lv[x] = l
           S == {l \in 1..Levels : Good(l)}
<1>1. \A f \in Frames, i \in Entries : LeadsOn(g, f, i) =>
        entry[f][i].frame \in Frames /\ g.lv[entry[f][i].frame] = g.lv[f] - 1
  BY DEF PagingInv, TreeInv, Children, IsChild
<1>2. Levels \in S
  <2>1. Good(Levels)
    BY TableIsTop, SpaceIs
  <2> HIDE DEF Good
  <2> QED  BY <2>1, Sizes
<1>3. ASSUME NEW l \in 1..(Levels - 1), Good(l + 1), NEW x \in Tables(s)[l]
      PROVE  \E f \in Tables(s)[l + 1], i \in Entries :
               f \in Frames /\ g.lv[f] = l + 1 /\ LeadsOn(g, f, i) /\ entry[f][i].frame = x
  <2>1. l \in 1..Levels /\ l # Levels /\ l + 1 >= 2
    BY Sizes
  <2>2. x \in Below(Tables(s)[l + 1])
    BY <2>1, TablesAre
  <2>3. PICK f \in Tables(s)[l + 1], i \in Entries :
          f \notin Uncleared /\ entry[f][i].present /\ entry[f][i].frame = x
    BY <2>2, BelowIs
  <2>4. f \in Frames /\ g.lv[f] = l + 1
    BY <1>3
  <2>5. LeadsOn(g, f, i)
    BY <2>1, <2>3, <2>4 DEF LeadsOn, Cleared
  <2> QED  BY <2>3, <2>4, <2>5
<1>4. ASSUME NEW l \in 1..(Levels - 1), l + 1 \in S
      PROVE  l \in S
  <2>1. Good(l + 1) /\ l \in 1..Levels
    BY <1>4, Sizes
  <2>2. Good(l)
    <3> SUFFICES ASSUME NEW x \in Tables(s)[l] PROVE x \in Frames /\ g.lv[x] = l
      OBVIOUS
    <3>1. PICK f \in Tables(s)[l + 1], i \in Entries :
            f \in Frames /\ g.lv[f] = l + 1 /\ LeadsOn(g, f, i) /\ entry[f][i].frame = x
      BY <1>3, <2>1
    <3> QED  BY <1>1, <2>1, <3>1
  <2> HIDE DEF Good
  <2> QED  BY <2>1, <2>2
<1>5. S = 1..Levels
  <2>1. Levels \in Nat /\ 1 \in 1..Levels /\ S \in SUBSET (1..Levels)
    BY Sizes
  <2> HIDE DEF S
  <2> QED  BY <2>1, <1>2, <1>4, Downward
<1>6. \A l \in 1..Levels : Good(l)
  BY <1>5
<1>7. ASSUME NEW l \in 1..(Levels - 1), NEW x \in Tables(s)[l]
      PROVE  \E f \in Tables(s)[l + 1], i \in Entries : LeadsOn(g, f, i) /\ entry[f][i].frame = x
  <2>1. Good(l + 1)
    BY <1>6, Sizes
  <2> HIDE DEF Good
  <2> QED  BY <1>3, <1>7, <2>1
<1> QED  BY <1>6, <1>7

\* Types, from the invariant.
LEMMA TypesHold ==
  ASSUME NEW g, PagingInv(g)
  PROVE  TypeOK
<1>1. entry \in [Frames -> [Entries -> EntryType]] /\ cr3 \in [Cores -> Frames]
  BY DEF PagingInv, Typed
<1>2. \A f \in Frames, i \in 0..(Width - 1) : entry[f][i] \in EntryType
  BY <1>1 DEF Entries
<1> QED  BY <1>1, <1>2 DEF TypeOK, EntryType, PagingInv, Typed, IInv, Types

\* What TablesAt holds.
LEMMA UsedTables ==
  ASSUME NEW L, NEW x
  PROVE  x \in TablesAt(L) <=> \E s \in spaces, l \in L : x \in Tables(s)[l]
BY DEF TablesAt

\* What Places holds.
LEMMA PlaceIs ==
  ASSUME NEW f, NEW p
  PROVE  p \in Places(f) <=>
           /\ p = <<p[1], p[2]>> /\ p[1] \in TablesAt(2..Levels) /\ p[1] \notin Uncleared
           /\ p[2] \in Entries
           /\ entry[p[1]][p[2]].present /\ entry[p[1]][p[2]].frame = f /\ ~Copied(p[1], p[2])
BY DEF Places, Entries

\* The invariant says that every frame has one use.
LEMMA UsedOnce ==
  ASSUME NEW g, PagingInv(g)
  PROVE  OneUse
<1>1. \A l \in 1..Levels, s \in spaces : \A x \in Tables(s)[l] : x \in Frames /\ g.lv[x] = l
  BY TablesHave
<1>2. \A x \in TablesAt(1..Levels) : x \in Frames /\ g.lv[x] > 0
  <2> SUFFICES ASSUME NEW x \in TablesAt(1..Levels) PROVE x \in Frames /\ g.lv[x] > 0
    OBVIOUS
  <2>1. PICK s \in spaces, l \in 1..Levels : x \in Tables(s)[l]
    BY UsedTables
  <2> QED  BY <1>1, <2>1
<1>3. \A x \in Leaves : x \notin free /\ (x \in Frames => g.lv[x] = 0)
  <2> SUFFICES ASSUME NEW m \in pages, NEW x, x = m[3]
               PROVE  x \notin free /\ (x \in Frames => g.lv[x] = 0)
    BY DEF Leaves
  <2>1. PICK s, p : s = m[1] /\ p = m[2]
    OBVIOUS
  <2>2. <<s, p, x>> \in pages
    BY <2>1 DEF PagingInv, PagesAre
  <2>3. PICK t, i : t = TableIn(entry, s, p, 1) /\ i = Index(1, p)
    OBVIOUS
  <2>4. p \in Pages /\ Path(g, s, p, 1) /\ entry[t][i].present /\ entry[t][i].frame = x
    BY <2>2, <2>3 DEF PagingInv, PageInv
  <2>5. t \in Frames /\ i \in Entries /\ t \in Cleared(g) /\ g.lv[t] = 1
    BY <2>3, <2>4, WayEnd
  <2>6. Leaf(g, t, i)
    BY <2>4, <2>5 DEF Leaf
  <2>7. x \in Frames => g.lv[x] = 0 /\ x \notin free
    BY <2>4, <2>5, <2>6 DEF PagingInv, LeafInv
  <2> QED  BY <2>7 DEF PagingInv, Typed
<1>4. \A x \in free : x \in Frames /\ g.lv[x] = 0
  BY DEF PagingInv, TreeInv, FreeIsNoTable, Typed
<1>5. free \cap (TablesAt(1..Levels) \cup Leaves) = {} /\ TablesAt(1..Levels) \cap Leaves = {}
  BY <1>2, <1>3, <1>4
<1>6. ASSUME NEW f \in TablesAt(1..Levels) \ spaces
      PROVE  Cardinality(Places(f)) = 1
  <2>1. /\ BootRoot \in spaces /\ BootRoot \in Frames /\ BootRoot \notin Uncleared
        /\ g.lv[BootRoot] = Levels
    BY SpaceIs DEF PagingInv, TreeInv, SpacesAreTop
  <2>2. BootRoot \in TablesAt(2..Levels)
    <3>1. Levels \in 2..Levels /\ Levels \in 1..Levels
      BY Sizes
    <3>2. BootRoot \in Tables(BootRoot)[Levels]
      BY TableIsTop
    <3> QED  BY <2>1, <3>1, <3>2, UsedTables
  <2>3. PICK t \in TablesAt(2..Levels), i \in Entries : LeadsOn(g, t, i) /\ entry[t][i].frame = f
    <3>1. PICK s \in spaces, l \in 1..Levels : f \in Tables(s)[l]
      BY <1>6, UsedTables
    <3>2. l # Levels
      BY <1>6, <3>1, TableIsTop
    <3>3. l \in 1..(Levels - 1) /\ l + 1 \in 2..Levels
      BY <3>2, Sizes
    <3>4. PICK t \in Tables(s)[l + 1], i \in Entries : LeadsOn(g, t, i) /\ entry[t][i].frame = f
      BY <3>1, <3>3, TablesHave
    <3>5. t \in TablesAt(2..Levels)
      BY <3>3, <3>4, UsedTables
    <3> QED  BY <3>4, <3>5
  <2>4. t \notin Uncleared /\ entry[t][i].present
    BY <2>3 DEF LeadsOn, Cleared
  <2>5. \E p : p \in Places(f)
    <3>1. CASE Copied(t, i)
      <4>1. entry[BootRoot][i].present /\ entry[BootRoot][i].frame = f
        BY <2>1, <2>3, <3>1 DEF Copied, PagingInv, TreeInv, UpperIsShared
      <4>2. <<BootRoot, i>> \in Places(f)
        BY <2>1, <2>2, <3>1, <4>1, PlaceIs DEF Copied
      <4> QED  BY <4>2
    <3>2. CASE ~Copied(t, i)
      <4>1. <<t, i>> \in Places(f)
        BY <2>3, <2>4, <3>2, PlaceIs
      <4> QED  BY <4>1
    <3> QED  BY <3>1, <3>2
  <2>6. ASSUME NEW p \in Places(f), NEW q \in Places(f) PROVE p = q
    <3>1. /\ p = <<p[1], p[2]>> /\ p[1] \in TablesAt(2..Levels) /\ p[1] \notin Uncleared
          /\ p[2] \in Entries
          /\ entry[p[1]][p[2]].present /\ entry[p[1]][p[2]].frame = f /\ ~Copied(p[1], p[2])
          /\ q = <<q[1], q[2]>> /\ q[1] \in TablesAt(2..Levels) /\ q[1] \notin Uncleared
          /\ q[2] \in Entries
          /\ entry[q[1]][q[2]].present /\ entry[q[1]][q[2]].frame = f /\ ~Copied(q[1], q[2])
      BY <2>6, PlaceIs
    <3>2. \A x \in TablesAt(2..Levels) : x \in Frames /\ g.lv[x] >= 2 /\ g.lv[x] > 0
      <4> SUFFICES ASSUME NEW x \in TablesAt(2..Levels) PROVE x \in Frames /\ g.lv[x] >= 2
                          /\ g.lv[x] > 0
        OBVIOUS
      <4>1. PICK s \in spaces, l \in 2..Levels : x \in Tables(s)[l]
        BY UsedTables
      <4>2. l \in 1..Levels /\ l >= 2 /\ l > 0
        BY Sizes
      <4> QED  BY <1>1, <4>1, <4>2
    <3>3. LeadsOn(g, p[1], p[2]) /\ LeadsOn(g, q[1], q[2]) /\ p[1] \in Frames /\ q[1] \in Frames
      BY <3>1, <3>2 DEF LeadsOn, Cleared
    <3>4. /\ p[2] = q[2]
          /\ p[1] = q[1] \/ (p[1] \in spaces /\ q[1] \in spaces /\ p[2] \in KernelIndexes)
      BY <3>1, <3>3 DEF PagingInv, TreeInv, OneParent
    <3>5. p[1] = q[1]
      BY <3>1, <3>4 DEF Copied
    <3> QED  BY <3>1, <3>4, <3>5
  <2>7. PICK p : Places(f) = {p}
    BY <2>5, <2>6
  <2> QED  BY <2>7, FS_Singleton
<1>7. TypeOK
  BY TypesHold
<1>8. \A f \in TablesAt(1..Levels) \ spaces : Cardinality(Places(f)) = 1
  BY <1>6
<1> QED  BY <1>5, <1>7, <1>8 DEF OneUse

\* A frame has one use.
THEOREM FramesUsedOnce ==
  ASSUME NEW CONSTANT level, NEW CONSTANT base, NEW CONSTANT owner, BootTree(level, base, owner)
  PROVE  Spec => []OneUse
<1>1. (\E g : PagingInv(g)) => OneUse
  BY UsedOnce
<1> QED  BY <1>1, InOrder, PTL

------------------------------------------------------------------------------
(* What the user may do                                                    *)

\* Pages of the lower half are mapped for the user, and in a space that is not the booter's.
MapsOK == \A c \in Cores : call[c].do = "map" =>
            \A p \in call[c].at..(call[c].upto - 1) :
              Half(p) = "lower" => call[c].user /\ cr3[c] # BootRoot
NewOK == \A c \in Cores : making[c][1] # BootRoot
LowPages == \A m \in pages : Half(m[2]) = "lower" => m[1] # BootRoot
UserOK == MapsOK /\ NewOK /\ LowPages

\* The entries of the tables of the lower half of a process: those that lead to a table
\* that has been cleared, or are of a page table, are the user's.
Low(g, f, i) == IF f \in spaces THEN f # BootRoot /\ i \notin KernelIndexes
                ELSE g.own[f] \notin {Null, BootRoot}
LowOK(g) ==
  \A f \in Cleared(g), i \in Entries :
    entry[f][i].present /\ Low(g, f, i) /\ (g.lv[f] = 1 \/ entry[f][i].frame \in Cleared(g)) =>
      entry[f][i].user /\ entry[f][i].write

\* One core goes on with a map, or begins one that is right.
LEMMA MapsOn ==
  ASSUME UserOK, NEW c \in Cores, \A d \in Cores \ {c} : call'[d] = call[d] /\ cr3'[d] = cr3[d],
         call'[c].do = "map" =>
           \/ /\ call[c].do = "map" /\ call'[c].at \in {call[c].at, call[c].at + 1}
              /\ call[c].at \in Nat /\ call[c].upto \in Nat
              /\ call'[c].upto = call[c].upto /\ call'[c].user = call[c].user /\ cr3'[c] = cr3[c]
           \/ \A p \in call'[c].at..(call'[c].upto - 1) :
                Half(p) = "lower" => call'[c].user /\ cr3'[c] # BootRoot
  PROVE  MapsOK'
<1> SUFFICES ASSUME NEW d \in Cores, call'[d].do = "map",
                    NEW p \in call'[d].at..(call'[d].upto - 1), Half(p) = "lower"
             PROVE  call'[d].user /\ cr3'[d] # BootRoot
  BY DEF MapsOK, Half
<1>1. CASE d # c
  BY <1>1 DEF UserOK, MapsOK
<1>2. CASE d = c
  <2>1. CASE /\ call[c].do = "map" /\ call'[c].at \in {call[c].at, call[c].at + 1}
             /\ call[c].at \in Nat /\ call[c].upto \in Nat
             /\ call'[c].upto = call[c].upto /\ call'[c].user = call[c].user /\ cr3'[c] = cr3[c]
    <3>1. p \in call[c].at..(call[c].upto - 1)
      BY <1>2, <2>1
    <3> QED  BY <1>2, <2>1, <3>1 DEF UserOK, MapsOK
  <2> QED  BY <1>2, <2>1
<1> QED  BY <1>1, <1>2

\* A step of a walk of map.
LEMMA MapsWalk ==
  ASSUME NEW g, PagingInv(g), UserOK, NEW c \in Cores, call[c].do = "map", cr3' = cr3,
         NEW k, Goes(c, k), k.at \in {call[c].at, call[c].at + 1},
         k.upto = call[c].upto, k.user = call[c].user
  PROVE  MapsOK'
<1>1. call'[c] = k /\ \A d \in Cores \ {c} : call'[d] = call[d] /\ cr3'[d] = cr3[d]
  BY DEF Goes, PagingInv, Typed
<1>2. call[c] \in MapCall
  BY CallIs
<1>3. call[c].at \in Nat /\ call[c].upto \in Nat
  BY <1>2 DEF MapCall
<1> QED  BY <1>1, <1>3, MapsOn

\* A step after which the core maps nothing.
LEMMA MapsNot ==
  ASSUME NEW g, PagingInv(g), UserOK, NEW c \in Cores, NEW k, Goes(c, k), k.do # "map",
         \A d \in Cores \ {c} : cr3'[d] = cr3[d]
  PROVE  MapsOK'
<1>1. call'[c] = k /\ \A d \in Cores \ {c} : call'[d] = call[d] /\ cr3'[d] = cr3[d]
  BY DEF Goes, PagingInv, Typed
<1> QED  BY <1>1, MapsOn

\* What the other cores see of a step.
LEMMA MapsNone ==
  ASSUME UserOK, UNCHANGED <<call, cr3>>
  PROVE  MapsOK'
BY DEF UserOK, MapsOK

\* What a mapping that begins is.
LEMMA MapsBegin ==
  ASSUME NEW g, PagingInv(g), UserOK, NEW c \in Cores, NEW at, NEW upto, NEW end, NEW phys,
         NEW user, NEW then, Goes(c, Mapping(at, end, phys, user, upto, then)),
         \A d \in Cores \ {c} : cr3'[d] = cr3[d],
         \A p \in at..(upto - 1) : Half(p) = "lower" => user /\ cr3'[c] # BootRoot
  PROVE  MapsOK'
<1>1. PICK k : k = Mapping(at, end, phys, user, upto, then)
  OBVIOUS
<1>2. k.at = at /\ k.upto = upto /\ k.user = user
  BY <1>1 DEF Mapping
<1>3. call'[c] = k /\ \A d \in Cores \ {c} : call'[d] = call[d] /\ cr3'[d] = cr3[d]
  BY <1>1 DEF Goes, PagingInv, Typed
<1>4. \A p \in call'[c].at..(call'[c].upto - 1) :
        Half(p) = "lower" => call'[c].user /\ cr3'[c] # BootRoot
  BY <1>2, <1>3
<1> QED  BY <1>3, <1>4, MapsOn

\* The walk that has returned goes on with its next page.
LEMMA MapsReturn ==
  ASSUME NEW g, PagingInv(g), UserOK, NEW c \in Cores, Return(c), ~Panic
  PROVE  MapsOK'
<1>1. CASE call[c].at < call[c].upto
  <2>1. call[c].do = "map"
    <3>1. /\ CallOK(call[c]) /\ call[c].do \in {"map", "unmap", "query"} /\ call[c].step = "done"
          /\ call[c].do = "unmap" => call[c].at \in Nat /\ call[c].upto \in Nat
          /\ call[c].do = "query" => call[c].at \in Nat /\ call[c].upto \in Nat
      BY CallIs DEF Return, UnmapCall, QueryCall
    <3> QED  BY <1>1, <3>1 DEF CallOK, RangeOK, Walks
  <2>2. call[c] \in MapCall
    BY <2>1, CallIs
  <2>3. PICK k : k = Mapping(call[c].at, call[c].at + 1, Popped, call[c].user, call[c].upto,
                             call[c].then)
    OBVIOUS
  <2>4. Goes(c, k) /\ cr3' = cr3
    BY <1>1, <2>2, <2>3 DEF Return, PopAndMap, spaceVars, MapCall
  <2>5. k.at = call[c].at /\ k.upto = call[c].upto /\ k.user = call[c].user
    BY <2>3 DEF Mapping
  <2> QED  BY <2>1, <2>4, <2>5, MapsWalk
<1>2. CASE ~(call[c].at < call[c].upto)
  <2>1. PICK k : k = IF call[c].then = "return" THEN Idle
                     ELSE [do |-> "process", step |-> call[c].then]
    OBVIOUS
  <2>2. Goes(c, k) /\ cr3' = cr3 /\ k.do # "map"
    BY <1>2, <2>1 DEF Return, spaceVars, Idle
  <2> QED  BY <2>2, MapsNot
<1> QED  BY <1>1, <1>2

\* Steps of map.
LEMMA MapsStep ==
  ASSUME NEW g, PagingInv(g), UserOK, NEW c \in Cores,
         Link(c) \/ Clear(c) \/ MapDescend(c) \/ MapPage(c), ~Panic
  PROVE  MapsOK'
<1>1. call[c].do = "map" /\ cr3' = cr3
  BY DEF Link, Clear, MapDescend, MapPage, AtLevel, spaceVars
<1>2. call[c] \in MapCall
  BY <1>1, CallIs
<1>3. \E k : /\ Goes(c, k) /\ k.at \in {call[c].at, call[c].at + 1}
             /\ k.upto = call[c].upto /\ k.user = call[c].user
  <2>1. CASE Link(c)
    <3>1. Goes(c, [call[c] EXCEPT !.step = "clear"])
      BY <2>1 DEF Link
    <3>2. PICK k : k = [call[c] EXCEPT !.step = "clear"]
      OBVIOUS
    <3>3. k.at = call[c].at /\ k.upto = call[c].upto /\ k.user = call[c].user
      BY <1>2, <3>2 DEF MapCall
    <3> QED  BY <3>1, <3>2, <3>3
  <2>2. CASE Clear(c) \/ MapDescend(c)
    <3>1. Goes(c, Down(c))
      BY <2>2 DEF Clear, MapDescend
    <3>2. PICK k : k = Down(c)
      OBVIOUS
    <3>3. k.at = call[c].at /\ k.upto = call[c].upto /\ k.user = call[c].user
      BY <1>2, <3>2 DEF MapCall, Down
    <3> QED  BY <3>1, <3>2, <3>3
  <2>3. CASE MapPage(c)
    <3>1. \E e : Advance(c, e)
      BY <2>3 DEF MapPage
    <3>2. PICK l : Goes(c, NextCall(c, l))
      BY <3>1 DEF Advance, NextCall
    <3>3. PICK k : k = NextCall(c, l)
      OBVIOUS
    <3>4. k.at = call[c].at + 1 /\ k.upto = call[c].upto /\ k.user = call[c].user
      BY <1>2, <3>3 DEF MapCall, NextCall
    <3> QED  BY <3>2, <3>3, <3>4
  <2> QED  BY <2>1, <2>2, <2>3
<1> QED  BY <1>1, <1>3, MapsWalk

\* Steps of unmap and of get_physical_address.
LEMMA MapsOther ==
  ASSUME NEW g, PagingInv(g), UserOK, NEW c \in Cores,
         UnmapDescend(c) \/ UnmapPage(c) \/ QueryLock(c) \/ Query(c), ~Panic
  PROVE  MapsOK'
<1>1. call[c].do \in {"unmap", "query"} /\ cr3' = cr3
  BY DEF UnmapDescend, UnmapPage, QueryLock, Query, AtLevel, spaceVars
<1>2. call[c] \in UnmapCall \/ QueryCall(call[c])
  BY <1>1, CallIs
<1>3. call[c] = [x \in DOMAIN call[c] |-> call[c][x]]
  BY <1>2 DEF UnmapCall, QueryCall, QueryFields
<1>4. \E k : Goes(c, k) /\ k.do # "map"
  <2>1. CASE UnmapDescend(c)
    <3>1. Goes(c, Down(c))
      BY <2>1 DEF UnmapDescend
    <3>2. Down(c).do # "map"
      BY <1>1, <1>3 DEF Down
    <3> QED  BY <3>1, <3>2
  <2>2. CASE UnmapPage(c)
    <3>1. \E e : Advance(c, e)
      BY <2>2 DEF UnmapPage
    <3>2. PICK l : Goes(c, NextCall(c, l))
      BY <3>1 DEF Advance, NextCall
    <3>3. NextCall(c, l).do # "map"
      BY <1>1, <1>3 DEF NextCall
    <3> QED  BY <3>2, <3>3
  <2>3. CASE QueryLock(c)
    <3>1. Goes(c, [call[c] EXCEPT !.step = "read"])
      BY <2>3 DEF QueryLock
    <3>2. [call[c] EXCEPT !.step = "read"].do # "map"
      BY <1>1, <1>3
    <3> QED  BY <3>1, <3>2
  <2>4. CASE Query(c)
    <3>1. \/ Goes(c, [call[c] EXCEPT !.level = @ - 1])
          \/ Goes(c, [call[c] EXCEPT !.phys = EntryOf(c).frame, !.at = call[c].at + 1,
                                     !.step = "done"])
      BY <2>4 DEF Query
    <3>2. /\ [call[c] EXCEPT !.level = @ - 1].do # "map"
          /\ [call[c] EXCEPT !.phys = EntryOf(c).frame, !.at = call[c].at + 1,
                             !.step = "done"].do # "map"
      BY <1>1, <1>3
    <3> QED  BY <3>1, <3>2
  <2> QED  BY <2>1, <2>2, <2>3, <2>4
<1> QED  BY <1>1, <1>4, MapsNot

\* Steps of create_process.
LEMMA MapsProcess ==
  ASSUME NEW g, PagingInv(g), UserOK, NEW c \in Cores,
         \/ Clone(c) \/ Zero(c) \/ SetForeign(c) \/ Copy(c) \/ Cloned(c)
         \/ ReleaseForeign(c) \/ Enter(c) \/ Leave(c),
         ~Panic
  PROVE  MapsOK'
<1>1. CASE Clone(c)
  <2>1. /\ Goes(c, Mapping(Scratch, Scratch + 1, Popped, FALSE, Scratch + 1, "zero"))
        /\ cr3' = cr3
    BY <1>1 DEF Clone
  <2>2. PICK user, end : user = FALSE /\ end = Scratch + 1
    OBVIOUS
  <2>3. Scratch \in Nat /\ Half(Scratch) # "lower"
    BY PagingAssumption, TopDigit
  <2>4. Goes(c, Mapping(Scratch, end, Popped, user, end, "zero"))
    BY <2>1, <2>2
  <2>5. \A p \in Scratch..(end - 1) : p = Scratch
    BY <2>2, <2>3
  <2>6. /\ \A p \in Scratch..(end - 1) : Half(p) = "lower" => user /\ cr3'[c] # BootRoot
        /\ \A d \in Cores \ {c} : cr3'[d] = cr3[d]
    BY <2>1, <2>3, <2>5
  <2> QED  BY <2>4, <2>6, MapsBegin
<1>2. CASE Zero(c)
  <2>1. PICK k : k = Unmapping(Scratch, Scratch + 1, FALSE, "set_foreign")
    OBVIOUS
  <2>2. Goes(c, k) /\ cr3' = cr3 /\ k.do # "map"
    BY <1>2, <2>1 DEF Zero, spaceVars, Unmapping
  <2> QED  BY <2>2, MapsNot
<1>3. CASE SetForeign(c) \/ Cloned(c) \/ ReleaseForeign(c)
  <2>1. PICK step : Then(c, step)
    BY <1>3 DEF SetForeign, Cloned, ReleaseForeign
  <2>2. PICK k : k = [do |-> "process", step |-> step]
    OBVIOUS
  <2>3. Goes(c, k) /\ cr3' = cr3 /\ k.do # "map"
    BY <1>3, <2>1, <2>2 DEF SetForeign, Cloned, ReleaseForeign, Then
  <2> QED  BY <2>3, MapsNot
<1>4. CASE Copy(c)
  BY <1>4, MapsNone DEF Copy, spaceVars
<1>5. CASE Enter(c)
  <2>1. /\ Goes(c, Mapping(Image[1], Image[1] + 1, Popped, TRUE, Image[2], "leave"))
        /\ cr3' = [cr3 EXCEPT ![c] = making[c][1]]
    BY <1>5 DEF Enter
  <2>2. cr3'[c] # BootRoot /\ \A d \in Cores \ {c} : cr3'[d] = cr3[d]
    BY <2>1 DEF PagingInv, Typed, UserOK, NewOK
  <2>3. PICK user : user = TRUE
    OBVIOUS
  <2>4. Goes(c, Mapping(Image[1], Image[1] + 1, Popped, user, Image[2], "leave"))
    BY <2>1, <2>3
  <2>5. \A p \in Image[1]..(Image[2] - 1) : Half(p) = "lower" => user /\ cr3'[c] # BootRoot
    BY <2>2, <2>3
  <2> QED  BY <2>2, <2>4, <2>5, MapsBegin
<1>6. CASE Leave(c)
  <2>1. /\ Goes(c, Idle) /\ Idle.do # "map" /\ \A d \in Cores \ {c} : cr3'[d] = cr3[d]
    BY <1>6 DEF Leave, PagingInv, Typed, Idle
  <2> QED  BY <2>1, MapsNot
<1> QED  BY <1>1, <1>2, <1>3, <1>4, <1>5, <1>6

\* A request.
LEMMA MapsStart ==
  ASSUME NEW g, PagingInv(g), UserOK, NEW c \in Cores, NEW r \in Requests, Start(c, r)
  PROVE  MapsOK'
<1>1. cr3' = cr3 /\ Fits(c, r)
  BY DEF Start, spaceVars
<1>2. CASE r.do \in {"map", "device"}
  <2>1. \E end, phys : Goes(c, Mapping(r.at, end, phys, r.lower, r.end, "return"))
    BY <1>2 DEF Start
  <2>2. \A p \in r.at..(r.end - 1) : Half(p) = "lower" => r.lower /\ cr3'[c] # BootRoot
    BY <1>1, <1>2, PagingAssumption DEF Fits
  <2> QED  BY <1>1, <2>1, <2>2, MapsBegin
<1>3. CASE r.do \notin {"map", "device"}
  <2>1. \E k : Goes(c, k) /\ k.do # "map"
    BY <1>3 DEF Start, Unmapping, Querying
  <2> QED  BY <1>1, <2>1, MapsNot
<1> QED  BY <1>2, <1>3

\* The mappings that are under way are right.
LEMMA MapsKeep ==
  ASSUME NEW g, PagingInv(g), UserOK, [Next]_vars
  PROVE  MapsOK'
<1>1. CASE UNCHANGED <<call, cr3>>
  BY <1>1, MapsNone
<1>2. CASE ~UNCHANGED <<call, cr3>>
  <2>1. Next /\ ~Panic /\ ~DropBootloaderMapping
    BY <1>2 DEF vars, Panic, spaceVars, DropBootloaderMapping
  <2>2. ASSUME NEW c \in Cores, Step(c) PROVE MapsOK'
    BY <2>1, <2>2, MapsStep, MapsOther, MapsReturn, MapsProcess DEF Step
  <2>3. ASSUME NEW c \in Cores, NEW r \in Requests, Start(c, r) PROVE MapsOK'
    BY <2>3, MapsStart
  <2>4. ASSUME NEW c \in Cores, NEW s \in spaces, SetAsid(c, s) PROVE MapsOK'
    <3>1. /\ call' = call /\ call[c].do = "idle" /\ \A d \in Cores \ {c} : cr3'[d] = cr3[d]
      BY <2>4 DEF SetAsid, PagingInv, Typed
    <3> QED  BY <3>1, MapsOn
  <2> QED  BY <2>1, <2>2, <2>3, <2>4 DEF Next
<1> QED  BY <1>1, <1>2

\* Only clone_kernel begins a PML4, and create_process ends with it.
LEMMA OnlyClone ==
  ASSUME NEW c \in Cores, Step(c), making' # making
  PROVE  Clone(c) \/ Leave(c)
<1>1. ~Panic /\ ~UNCHANGED spaceVars
  BY DEF Panic, spaceVars
<1>2. ~Link(c) /\ ~Clear(c) /\ ~MapDescend(c) /\ ~UnmapDescend(c)
  BY <1>1 DEF Link, Clear, MapDescend, UnmapDescend
<1>3. ~MapPage(c) /\ ~UnmapPage(c) /\ ~QueryLock(c) /\ ~Query(c)
  BY <1>1 DEF MapPage, UnmapPage, QueryLock, Query
<1>4. ~Return(c) /\ ~Zero(c) /\ ~Copy(c) /\ ~Enter(c)
  BY <1>1 DEF Return, PopAndMap, Zero, Copy, Enter
<1>5. ~SetForeign(c) /\ ~Cloned(c) /\ ~ReleaseForeign(c)
  BY DEF SetForeign, Cloned, ReleaseForeign
<1> QED  BY <1>2, <1>3, <1>4, <1>5 DEF Step

\* Only map and clone_kernel make pages.
LEMMA PagesGrow ==
  ASSUME NEW c \in Cores, Step(c), ~(pages' \subseteq pages), ~Panic
  PROVE  MapPage(c) \/ Cloned(c)
<1>1. ~Link(c) /\ ~Clear(c) /\ ~MapDescend(c) /\ ~UnmapDescend(c)
  BY DEF Link, Clear, MapDescend, UnmapDescend
<1>2. ~UnmapPage(c) /\ ~QueryLock(c) /\ ~Query(c)
  BY DEF UnmapPage, QueryLock, Query
<1>3. ~Return(c) /\ ~Clone(c) /\ ~Zero(c) /\ ~Copy(c) /\ ~Enter(c) /\ ~Leave(c)
  BY DEF Return, PopAndMap, Clone, Zero, Copy, Enter, Leave
<1>4. ~SetForeign(c) /\ ~ReleaseForeign(c)
  BY DEF SetForeign, ReleaseForeign
<1> QED  BY <1>1, <1>2, <1>3, <1>4 DEF Step

\* A PML4 is made of a free frame.
LEMMA NewKeep ==
  ASSUME NEW g, PagingInv(g), UserOK, [Next]_vars
  PROVE  NewOK'
<1>1. CASE making' = making
  BY <1>1 DEF UserOK, NewOK
<1>2. CASE making' # making
  <2>1. PICK c \in Cores : Clone(c) \/ Leave(c)
    <3>1. ~DropBootloaderMapping /\ Next
      BY <1>2 DEF DropBootloaderMapping, vars
    <3>2. ASSUME NEW c \in Cores, Step(c) PROVE Clone(c) \/ Leave(c)
      BY <1>2, <3>2, OnlyClone
    <3>3. \A c, r : ~Start(c, r) /\ ~SetAsid(c, r)
      BY <1>2 DEF Start, SetAsid, spaceVars
    <3> QED  BY <3>1, <3>2, <3>3 DEF Next
  <2>2. PICK m : making' = [making EXCEPT ![c] = m] /\ m[1] # BootRoot
    <3>1. BootRoot \notin free /\ BootRoot # Null
      BY SpaceIs, PagingAssumption DEF PagingInv, TreeInv, SpacesAreTop, Frames, Null
    <3>2. CASE Clone(c)
      <4>1. free # {} /\ making' = [making EXCEPT ![c] = <<Popped, cr3[c]>>]
        BY <1>2, <3>2 DEF Clone, Panic, spaceVars
      <4>2. PICK m : m = <<Popped, cr3[c]>>
        OBVIOUS
      <4>3. Popped \in free
        BY <4>1, PoppedIs
      <4>4. making' = [making EXCEPT ![c] = m]
        BY ONLY <4>1, <4>2
      <4>5. m[1] # BootRoot
        BY <3>1, <4>2, <4>3
      <4> QED  BY ONLY <4>4, <4>5
    <3>3. CASE Leave(c)
      <4>1. PICK m : m = <<Null, Null>>
        OBVIOUS
      <4>2. making' = [making EXCEPT ![c] = m]
        BY <3>3, <4>1 DEF Leave
      <4>3. m[1] # BootRoot
        BY <3>1, <4>1
      <4> QED  BY ONLY <4>2, <4>3
    <3> QED  BY <2>1, <3>2, <3>3
  <2>3. making = [d \in Cores |-> making[d]]
    BY DEF PagingInv, IInv, Types
  <2>4. \A d \in Cores : making'[d] = m \/ making'[d] = making[d]
    BY <2>2, <2>3
  <2> QED  BY <2>2, <2>4 DEF UserOK, NewOK
<1> QED  BY <1>1, <1>2

\* Pages of the lower half are those of a process.
LEMMA LowPagesKeep ==
  ASSUME NEW g, PagingInv(g), UserOK, [Next]_vars
  PROVE  LowPages'
<1>1. CASE pages' \subseteq pages
  BY <1>1 DEF UserOK, LowPages, Half
<1>2. CASE ~(pages' \subseteq pages)
  <2>1. PICK c \in Cores : ~Panic /\ (MapPage(c) \/ Cloned(c))
    <3>1. ~DropBootloaderMapping /\ ~Panic /\ Next
      BY <1>2 DEF DropBootloaderMapping, Panic, vars
    <3>2. ASSUME NEW c \in Cores, Step(c) PROVE MapPage(c) \/ Cloned(c)
      BY <1>2, <3>1, <3>2, PagesGrow
    <3>3. \A c, r : ~Start(c, r) /\ ~SetAsid(c, r)
      BY <1>2 DEF Start, SetAsid
    <3> QED  BY <3>1, <3>2, <3>3 DEF Next
  <2>2. CASE MapPage(c)
    <3>1. PICK p, f : /\ p = call[c].at /\ f = call[c].phys
      OBVIOUS
    <3>3. /\ call[c].do = "map" /\ call[c].step = "lock"
          /\ pages' = pages \cup {<<s, p, f>> : s \in Sharing(c, p)}
      BY <2>1, <2>2, <3>1 DEF MapPage, AtLevel
    <3>2. Half(p) = "lower" => cr3[c] # BootRoot
      <4>1. /\ call[c] \in MapCall /\ RangeOK(call[c])
        BY <3>3, CallIs DEF CallOK, Walks
      <4>2. p \in p..(call[c].upto - 1)
        BY <3>1, <3>3, <4>1 DEF MapCall, RangeOK
      <4> QED  BY <3>1, <3>3, <4>2 DEF UserOK, MapsOK
    <3> QED  BY <3>2, <3>3 DEF UserOK, LowPages, Sharing, Half
  <2>3. CASE Cloned(c)
    <3>1. pages' = pages \cup {<<making[c][1], p[2], p[3]>> :
                               p \in {q \in pages : q[1] = cr3[c] /\ Half(q[2]) = "upper"}}
      BY <2>3 DEF Cloned
    <3> QED  BY <3>1 DEF UserOK, LowPages, Half
  <2> QED  BY <2>1, <2>2, <2>3
<1> QED  BY <1>1, <1>2

\* What the user may do is kept to.
LEMMA UserKeeps ==
  ASSUME NEW g, PagingInv(g), UserOK, [Next]_vars
  PROVE  UserOK'
BY MapsKeep, NewKeep, LowPagesKeep DEF UserOK

\* A step of a core leaves the calls, the spaces and the PML4s of the others alone.
LEMMA OthersAlone ==
  ASSUME NEW g, PagingInv(g), NEW c \in Cores, \E k : Goes(c, k) \/ call' = call,
         (\E s : cr3' = [cr3 EXCEPT ![c] = s]) \/ cr3' = cr3,
         (\E m : making' = [making EXCEPT ![c] = m]) \/ making' = making
  PROVE  Alone(c)
<1>1. \A d \in Cores \ {c} : call'[d] = call[d]
  BY DEF Goes, PagingInv, Typed
<1>2. \A d \in Cores \ {c} : cr3'[d] = cr3[d]
  BY DEF PagingInv, Typed
<1>3. making = [d \in Cores |-> making[d]]
  BY DEF PagingInv, IInv, Types
<1>4. \A d \in Cores \ {c} : making'[d] = making[d]
  BY <1>3
<1> QED  BY <1>1, <1>2, <1>4 DEF Alone

\* Every step of a core is one.
LEMMA StepAlone ==
  ASSUME NEW g, PagingInv(g), NEW c \in Cores, Step(c), ~Panic
  PROVE  Alone(c)
<1>1. CASE Link(c) \/ Clear(c) \/ MapDescend(c) \/ UnmapDescend(c)
  BY <1>1, OthersAlone DEF Link, Clear, MapDescend, UnmapDescend, spaceVars
<1>2. CASE MapPage(c) \/ UnmapPage(c)
  <2>1. \E e : Advance(c, e)
    BY <1>2 DEF MapPage, UnmapPage
  <2>2. \E k : Goes(c, k)
    BY <2>1 DEF Advance
  <2> QED  BY <1>2, <2>2, OthersAlone DEF MapPage, UnmapPage, spaceVars
<1>3. CASE QueryLock(c) \/ Query(c)
  BY <1>3, OthersAlone DEF QueryLock, Query, spaceVars
<1>4. CASE Return(c) \/ Zero(c)
  BY <1>4, OthersAlone DEF Return, PopAndMap, Zero, spaceVars
<1>5. CASE Clone(c)
  BY <1>5, OthersAlone DEF Clone
<1>6. CASE SetForeign(c) \/ Cloned(c) \/ ReleaseForeign(c)
  BY <1>6, OthersAlone DEF SetForeign, Cloned, ReleaseForeign, Then
<1>7. CASE Copy(c)
  BY <1>7, OthersAlone DEF Copy, spaceVars
<1>8. CASE Enter(c) \/ Leave(c)
  BY <1>8, OthersAlone DEF Enter, Leave
<1> QED  BY <1>1, <1>2, <1>3, <1>4, <1>5, <1>6, <1>7, <1>8 DEF Step

\* What has not been cleared stays so, but for the core that clears.
LEMMA UnclearedStays ==
  ASSUME NEW g, PagingInv(g), NEW c \in Cores, Alone(c), Grows(g), ~Clearing(c)
  PROVE  \A x \in Uncleared : x \in Uncleared'
<1> SUFFICES ASSUME NEW x \in Uncleared PROVE x \in Uncleared'
  OBVIOUS
<1>1. PICK d \in Cores : Clearing(d) /\ x = Target(d)
  BY UnclearedIs
<1>2. d \in Cores \ {c}
  BY <1>1
<1>3. Clearing(d)' /\ Target(d)' = Target(d)
  BY <1>1, <1>2, OtherTables, OtherTargets
<1> QED  BY <1>1, <1>3, UnclearedWillBe

\* Entry i of table f, as a user may need it, is what it was, or is the user's.
UserStays(f, i) == \/ entry'[f][i].user /\ entry'[f][i].write
                   \/ /\ entry[f][i].present /\ entry'[f][i].frame = entry[f][i].frame
                      /\ entry'[f][i].user = entry[f][i].user
                      /\ entry'[f][i].write = entry[f][i].write

\* The tables stand, and no page is present that was not, but one that core c maps.
Grown(g, h, c) ==
  /\ Grows(g)
  /\ \A f \in Cleared(h)', i \in Entries : h.lv[f] = 1 /\ entry'[f][i].present =>
       Leaf(g, f, i) \/ (MapPage(c) /\ f = Here(c) /\ i = Slot(c))

\* A step that clears no table.
LEMMA LowStays ==
  ASSUME NEW g, NEW h, LowOK(g), spaces' = spaces,
         \A f \in Cleared(h)' : f \in Cleared(g) /\ h.lv[f] = g.lv[f] /\ h.own[f] = g.own[f],
         \A f \in Cleared(g), i \in Entries :
           entry'[f][i].present /\ Low(g, f, i) => UserStays(f, i)
  PROVE  LowOK(h)'
<1> SUFFICES ASSUME NEW f \in Cleared(h)', NEW i \in Entries, entry'[f][i].present, Low(h, f, i)',
                    h.lv[f] = 1 \/ entry'[f][i].frame \in Cleared(h)'
             PROVE  entry'[f][i].user /\ entry'[f][i].write
  BY DEF LowOK
<1>1. f \in Cleared(g) /\ Low(g, f, i) /\ h.lv[f] = g.lv[f]
  BY DEF Low
<1>2. UserStays(f, i)
  BY <1>1
<1>3. entry'[f][i].frame \in Cleared(h)' => entry'[f][i].frame \in Cleared(g)
  OBVIOUS
<1> QED  BY <1>1, <1>2, <1>3 DEF UserStays, LowOK

\* A step of a core that clears no table and leaves the tree where it was.
LEMMA LowOn ==
  ASSUME NEW g, PagingInv(g), LowOK(g), NEW c \in Cores, Alone(c), Grows(g), ~Clearing(c),
         spaces' = spaces,
         \A f \in Cleared(g), i \in Entries :
           entry'[f][i].present /\ Low(g, f, i) => UserStays(f, i)
  PROVE  LowOK(g)'
<1>1. \A f \in Cleared(g)' : f \in Cleared(g)
  BY UnclearedStays DEF Cleared
<1> QED  BY <1>1, LowStays

\* A step of a core that clears no table and maps no page.
LEMMA GrownOn ==
  ASSUME NEW g, PagingInv(g), NEW c \in Cores, Alone(c), Grows(g), ~Clearing(c),
         \A f \in Cleared(g), i \in Entries : entry'[f][i].present => entry[f][i].present
  PROVE  Grown(g, g, c)
<1>1. \A f \in Cleared(g)' : f \in Cleared(g)
  BY UnclearedStays DEF Cleared
<1> QED  BY <1>1 DEF Grown, Leaf

\* Nothing is written.
LEMMA LowNone ==
  ASSUME NEW g, PagingInv(g), LowOK(g), NEW c \in Cores, Alone(c), ~Clearing(c),
         spaces' = spaces, entry' = entry
  PROVE  LowOK(g)' /\ Grown(g, g, c)
<1>1. Grows(g)
  BY DEF Grows
<1>2. \A f, i : entry'[f][i].present => UserStays(f, i)
  BY DEF UserStays
<1> QED  BY <1>1, <1>2, LowOn, GrownOn

\* Nothing happens.
LEMMA LowSame ==
  ASSUME NEW g, LowOK(g), UNCHANGED <<entry, spaces, call, cr3>>
  PROVE  LowOK(g)' /\ \A f \in Frames, i \in Entries : Leaf(g, f, i)' => Leaf(g, f, i)
<1>1. Uncleared' = Uncleared
  BY DEF Uncleared, EntryOf, Table
<1> QED  BY <1>1 DEF LowOK, Low, Cleared, Leaf

\* One entry of a table is written.
LEMMA LowWrite ==
  ASSUME NEW g, PagingInv(g), LowOK(g), NEW c \in Cores, Alone(c), ~Clearing(c), spaces' = spaces,
         NEW t \in Frames, NEW i \in Entries, NEW e \in EntryType, Writes(t, i, e),
         e.present = entry[t][i].present, e.frame = entry[t][i].frame,
         \/ e.user = entry[t][i].user /\ e.write = entry[t][i].write
         \/ Low(g, t, i) => e.user /\ e.write
  PROVE  LowOK(g)' /\ Grown(g, g, c)
<1>1. /\ entry'[t][i] = e
      /\ \A f \in Frames, j \in Entries : f # t \/ j # i => entry'[f][j] = entry[f][j]
  BY OneEntry
<1>2. \A f \in Cleared(g) : f \in Frames
  BY DEF Cleared
<1>3. Grows(g)
  BY <1>1, <1>2 DEF Grows
<1>4. ASSUME NEW f \in Cleared(g), NEW j \in Entries, entry'[f][j].present, Low(g, f, j)
      PROVE  UserStays(f, j)
  BY <1>1, <1>2, <1>4 DEF UserStays
<1>5. \A f \in Cleared(g), j \in Entries : entry'[f][j].present => entry[f][j].present
  BY <1>1, <1>2
<1> QED  BY <1>3, <1>4, <1>5, LowOn, GrownOn

\* Only frames that are no tables are written.
LEMMA LowBeside ==
  ASSUME NEW g, PagingInv(g), LowOK(g), NEW c \in Cores, Alone(c), ~Clearing(c), spaces' = spaces,
         \A f \in Frames : g.lv[f] > 0 => entry'[f] = entry[f]
  PROVE  LowOK(g)' /\ Grown(g, g, c)
<1>1. \A f \in Cleared(g) : entry'[f] = entry[f]
  BY DEF Cleared
<1>2. Grows(g)
  BY <1>1 DEF Grows
<1>3. \A f \in Cleared(g), i \in Entries : entry'[f][i].present => UserStays(f, i)
  BY <1>1 DEF UserStays
<1> QED  BY <1>1, <1>2, <1>3, LowOn, GrownOn

\* Where map writes an entry of the lower half, it does so for the user.
LEMMA LowIsUsers ==
  ASSUME NEW g, PagingInv(g), UserOK, NEW c \in Cores, Walker(c), call[c].do = "map",
         Low(g, Here(c), Slot(c))
  PROVE  call[c].user = TRUE
<1>1. PICK t, i, l, p : t = Here(c) /\ i = Slot(c) /\ l = call[c].level /\ p = call[c].at
  OBVIOUS
<1>2. /\ p \in Nat /\ p < call[c].end /\ call[c].end \in Nat /\ call[c] \in MapCall
      /\ RangeOK(call[c])
  BY <1>1, WalkerIs, CallIs DEF CallOK, Walks
<1>3. /\ t \in Frames /\ l \in 1..Levels /\ g.lv[t] = l /\ i = Index(l, p)
      /\ l < Levels => g.own[t] = Owner(cr3[c], p)
  <2>1. call[c].level \in (call[c].level)..Levels
    BY WalkerIs, Sizes
  <2> QED  BY <1>1, <2>1, WayIs, HereIs DEF Here, Slot, IndexOf
<1>4. Half(p) = "lower"
  <2>1. CASE l = Levels
    <3>1. t \in spaces
      BY <1>3, <2>1 DEF PagingInv, TreeInv, SpacesAreTop
    <3> QED  BY <1>1, <1>3, <2>1, <3>1 DEF Low, Half
  <2>2. CASE l # Levels
    <3>1. t \notin spaces
      BY <1>3, <2>2 DEF PagingInv, TreeInv, SpacesAreTop
    <3>2. l < Levels
      BY <1>3, <2>2, Sizes
    <3> QED  BY <1>1, <1>3, <3>1, <3>2 DEF Low, Owner, Half
  <2> QED  BY <2>1, <2>2
<1>5. p \in p..(call[c].upto - 1)
  BY <1>2 DEF MapCall, RangeOK
<1> QED  BY <1>1, <1>2, <1>4, <1>5 DEF UserOK, MapsOK, MapCall

\* map at an entry that has its table.
LEMMA LowDescend ==
  ASSUME NEW g, PagingInv(g), UserOK, LowOK(g), NEW c \in Cores, MapDescend(c), ~Panic
  PROVE  LowOK(g)' /\ Grown(g, g, c)
<1>1. /\ Walker(c) /\ call[c].do = "map" /\ ~Clearing(c) /\ spaces' = spaces
      /\ entry' = [entry EXCEPT ![Here(c)][Slot(c)] = Attributed(c, entry[Here(c)][Slot(c)])]
  BY EntryOfIs DEF MapDescend, AtLevel, Walker, Clearing, spaceVars
<1>2. PICK t, i : t = Here(c) /\ i = Slot(c)
  OBVIOUS
<1>3. t \in Frames /\ i \in Entries /\ entry[t][i] \in EntryType /\ call[c].user \in BOOLEAN
  BY <1>1, <1>2, HereIs, CallIs DEF MapCall
<1>4. PICK e : e = Attributed(c, entry[t][i])
  OBVIOUS
<1>5. /\ e \in EntryType /\ e.present = entry[t][i].present /\ e.frame = entry[t][i].frame
      /\ call[c].user = TRUE => e.user /\ e.write
  BY <1>3, <1>4 DEF Attributed, EntryType
<1>6. Writes(t, i, e)
  BY <1>1, <1>2, <1>4 DEF Writes
<1>7. Low(g, t, i) => e.user /\ e.write
  BY <1>1, <1>2, <1>5, LowIsUsers
<1>8. Alone(c)
  BY <1>1, StepAlone DEF Step
<1> QED  BY <1>1, <1>3, <1>5, <1>6, <1>7, <1>8, LowWrite

\* unmap at one.
LEMMA LowUnmapDescend ==
  ASSUME NEW g, PagingInv(g), LowOK(g), NEW c \in Cores, UnmapDescend(c), ~Panic
  PROVE  LowOK(g)' /\ Grown(g, g, c)
<1>1. /\ Walker(c) /\ ~Clearing(c) /\ spaces' = spaces
      /\ entry' = [entry EXCEPT ![Here(c)][Slot(c)] =
                                  [entry[Here(c)][Slot(c)] EXCEPT !.locked = TRUE]]
  BY EntryOfIs DEF UnmapDescend, AtLevel, Walker, Clearing, spaceVars
<1>2. PICK t, i : t = Here(c) /\ i = Slot(c)
  OBVIOUS
<1>3. t \in Frames /\ i \in Entries /\ entry[t][i] \in EntryType
  BY <1>1, <1>2, HereIs
<1>4. PICK e : e = [entry[t][i] EXCEPT !.locked = TRUE]
  OBVIOUS
<1>5. /\ e \in EntryType /\ e.present = entry[t][i].present /\ e.frame = entry[t][i].frame
      /\ e.user = entry[t][i].user /\ e.write = entry[t][i].write
  BY <1>3, <1>4 DEF EntryType
<1>6. Writes(t, i, e)
  BY <1>1, <1>2, <1>4 DEF Writes
<1>7. Alone(c)
  BY StepAlone DEF Step
<1> QED  BY <1>1, <1>3, <1>5, <1>6, <1>7, LowWrite

\* get_physical_address locks and unlocks the first entry.
LEMMA LowQuery ==
  ASSUME NEW g, PagingInv(g), LowOK(g), NEW c \in Cores, QueryLock(c) \/ Query(c), ~Panic
  PROVE  LowOK(g)' /\ Grown(g, g, c)
<1>1. call[c].do = "query" /\ spaces' = spaces
  BY DEF QueryLock, Query, AtLevel, spaceVars
<1>2. PICK t, i : t = cr3[c] /\ i = IndexOf(c, Levels)
  OBVIOUS
<1>3. /\ ~Clearing(c) /\ t \in Frames /\ i \in Entries /\ entry[t][i] \in EntryType
      /\ TableOf(c, Levels) = t
  BY <1>1, <1>2, QueryIs
<1>4. Alone(c)
  BY StepAlone DEF Step
<1>5. CASE entry' = entry
  BY <1>1, <1>3, <1>4, <1>5, LowNone
<1>6. CASE entry' # entry
  <2>1. \E b \in BOOLEAN : Writes(t, i, [entry[t][i] EXCEPT !.locked = b])
    <3>1. CASE QueryLock(c)
      <4>1. Here(c) = t /\ Slot(c) = i
        BY <1>2, <1>3, <3>1 DEF QueryLock, AtLevel, Here, Slot
      <4>2. EntryOf(c) = entry[t][i] /\ \A y : SetEntry(c, y) => Writes(t, i, y)
        BY <4>1, EntryOfIs DEF Writes
      <4>3. SetEntry(c, [EntryOf(c) EXCEPT !.locked = TRUE])
        BY <3>1 DEF QueryLock
      <4> QED  BY <4>2, <4>3
    <3>2. CASE Query(c)
      <4>1. entry' = [entry EXCEPT ![t][i].locked = FALSE]
        BY <1>2, <1>6, <3>2 DEF Query, IndexOf
      <4> QED  BY <4>1 DEF Writes
    <3> QED  BY <3>1, <3>2
  <2>2. PICK b, e : b \in BOOLEAN /\ e = [entry[t][i] EXCEPT !.locked = b] /\ Writes(t, i, e)
    BY <2>1
  <2>3. /\ e \in EntryType /\ e.present = entry[t][i].present /\ e.frame = entry[t][i].frame
        /\ e.user = entry[t][i].user /\ e.write = entry[t][i].write
    BY <1>3, <2>2 DEF EntryType
  <2> QED  BY <1>1, <1>3, <1>4, <2>2, <2>3, LowWrite
<1> QED  BY <1>5, <1>6

\* The PML4 under construction is no table of a space yet.
LEMMA LowMaking ==
  ASSUME NEW g, PagingInv(g), LowOK(g), NEW c \in Cores, Zero(c) \/ Copy(c), ~Panic
  PROVE  LowOK(g)' /\ Grown(g, g, c)
<1>1. /\ \E a \in {"zero", "copy"} : At(c, a)
      /\ spaces' = spaces
  BY DEF Zero, Copy, spaceVars
<1>2. ~Clearing(c) /\ Making(c, Inside)
  BY <1>1, AtIs DEF Inside
<1>3. PICK x : x = making[c][1]
  OBVIOUS
<1>4. x \in Frames /\ g.lv[x] = 0
  BY <1>2, <1>3, MakesIs
<1>5. \A f \in Frames : f # x => entry'[f] = entry[f]
  <2>1. CASE Zero(c)
    BY <1>3, <2>1 DEF Zero, PagingInv, Typed
  <2>2. CASE Copy(c)
    <3>1. foreign[cr3[c]] = x
      BY <1>3, <2>2 DEF PagingInv, IInv, SlotIsMine, Holds, Held, Copy, At
    <3>2. \E i, e : Writes(x, i, e)
      BY <2>2, <3>1 DEF Copy, Writes
    <3> QED  BY <3>2 DEF Writes, PagingInv, Typed
  <2> QED  BY <2>1, <2>2
<1>6. Alone(c)
  BY <1>2, StepAlone DEF Step
<1> QED  BY <1>1, <1>2, <1>4, <1>5, <1>6, LowBeside

\* A page is mapped, or unmapped.
LEMMA LowPage ==
  ASSUME NEW g, PagingInv(g), UserOK, LowOK(g), NEW c \in Cores, MapPage(c) \/ UnmapPage(c), ~Panic
  PROVE  /\ LowOK(g)' /\ Grown(g, g, c)
         /\ UnmapPage(c) => ~entry'[Here(c)][Slot(c)].present
<1>1. PICK t, i, x : t = Here(c) /\ i = Slot(c) /\ x = call[c].phys
  OBVIOUS
<1>2. /\ call[c].do \in {"map", "unmap"} /\ call[c].step = "lock" /\ call[c].level = 1 /\ Walker(c)
      /\ ~Clearing(c) /\ spaces' = spaces
      /\ MapPage(c) => call[c].do = "map"
  BY DEF MapPage, UnmapPage, AtLevel, Walker, Clearing, spaceVars
<1>3. /\ t \in Cleared(g) /\ t \in Frames /\ i \in Entries /\ g.lv[t] = 1
      /\ entry[t][i] \in EntryType
  BY <1>1, <1>2, PageIs
<1>4. EntryOf(c) = entry[t][i]
  BY <1>1, EntryOfIs
<1>5. PICK e \in EntryType :
        Advance(c, e) /\ (e.present => MapPage(c) /\ e.user = call[c].user /\ e.write)
  <2>1. CASE MapPage(c)
    <3>1. PICK e : e = [entry[t][i] EXCEPT !.present = TRUE, !.frame = x, !.user = call[c].user,
                                          !.write = TRUE]
      OBVIOUS
    <3>2. Advance(c, e)
      BY <1>1, <1>4, <2>1, <3>1 DEF MapPage
    <3>3. x \in Nat /\ call[c].user \in BOOLEAN
      BY <1>1, <1>2, <2>1, CallIs DEF MapCall
    <3>4. e \in EntryType /\ e.user = call[c].user /\ e.write
      BY <1>3, <3>1, <3>3 DEF EntryType
    <3> QED  BY <2>1, <3>2, <3>4
  <2>2. CASE UnmapPage(c)
    <3>1. PICK e : e = Absent(entry[t][i])
      OBVIOUS
    <3>2. Advance(c, e)
      BY <1>4, <2>2, <3>1 DEF UnmapPage
    <3>3. e \in EntryType /\ ~e.present
      BY <1>3, <3>1 DEF EntryType, Absent
    <3> QED  BY <3>2, <3>3
  <2> QED  BY <2>1, <2>2
<1>6. PICK l : l = NextLevel(call[c].at + 1, call[c].end)
  OBVIOUS
<1>7. Released(c, t, i, e, l)
  BY <1>1, <1>2, <1>5, <1>6, AdvanceIs
<1>8. \A f \in Cleared(g) : f \in Frames
  BY DEF Cleared
<1>9. Grows(g)
  BY <1>3, <1>7, <1>8 DEF Grows, Released
<1>10. Low(g, t, i) /\ MapPage(c) => call[c].user = TRUE
  BY <1>1, <1>2, LowIsUsers
<1>11. ASSUME NEW f \in Cleared(g), NEW j \in Entries, entry'[f][j].present, Low(g, f, j)
       PROVE  UserStays(f, j)
  <2>1. CASE f = t /\ j = i
    BY <1>5, <1>7, <1>10, <1>11, <2>1 DEF Released, UserStays
  <2>2. CASE f # t \/ j # i
    BY <1>7, <1>8, <1>11, <2>2 DEF Released, UserStays
  <2> QED  BY <2>1, <2>2
<1>12. Alone(c)
  BY StepAlone DEF Step
<1>13. Grown(g, g, c)
  <2>1. \A f \in Cleared(g)' : f \in Cleared(g)
    BY <1>2, <1>9, <1>12, UnclearedStays DEF Cleared
  <2>2. ASSUME NEW f \in Cleared(g)', NEW j \in Entries, g.lv[f] = 1, entry'[f][j].present,
               f # t \/ j # i
        PROVE  Leaf(g, f, j)
    BY <1>7, <1>8, <2>1, <2>2 DEF Leaf, Released
  <2>3. entry'[t][i].present => MapPage(c)
    BY <1>5, <1>7 DEF Released
  <2> QED  BY <1>1, <1>9, <2>2, <2>3 DEF Grown
<1>14. UnmapPage(c) => ~entry'[t][i].present
  <2>1. UnmapPage(c) => ~MapPage(c)
    BY <1>2 DEF UnmapPage, AtLevel
  <2> QED  BY <1>5, <1>7, <2>1 DEF Released
<1> QED  BY <1>1, <1>2, <1>9, <1>11, <1>12, <1>13, <1>14, LowOn

\* A table is entered, but not cleared yet.
LEMMA LowLink ==
  ASSUME NEW g, PagingInv(g), LowOK(g), NEW c \in Cores, Link(c), ~Panic,
         NEW h, Beside(g, h, Popped), Cleared(h)' = Cleared(g)
  PROVE  LowOK(h)' /\ Grown(g, h, c)
<1>1. PICK t, i : t = Here(c) /\ i = Slot(c)
  OBVIOUS
<1>2. /\ Walker(c) /\ call[c].level \in 2..Levels /\ free # {} /\ spaces' = spaces
  BY DEF Link, AtLevel, Inner, Walker, spaceVars
<1>3. /\ t \in Cleared(g) /\ t \in Frames /\ i \in Entries /\ g.lv[t] >= 2
      /\ entry[t][i] \in EntryType
  BY <1>1, <1>2, HereIs
<1>4. Popped \in Frames /\ Popped \in Nat /\ g.lv[Popped] = 0 /\ Popped \notin Cleared(g)
  <2>1. Popped \in Frames /\ g.lv[Popped] = 0
    BY <1>2, PoppedIs
  <2> QED  BY <2>1, Sizes DEF Cleared
<1>5. PICK e : e = [entry[t][i] EXCEPT !.locked = TRUE, !.present = TRUE, !.frame = Popped]
  OBVIOUS
<1>6. e \in EntryType /\ e.frame = Popped
  BY <1>3, <1>4, <1>5 DEF EntryType
<1>7. Writes(t, i, e)
  <2>1. EntryOf(c) = entry[t][i] /\ \A y : SetEntry(c, y) => Writes(t, i, y)
    BY <1>1, EntryOfIs DEF Writes
  <2>2. SetEntry(c, [EntryOf(c) EXCEPT !.locked = TRUE, !.present = TRUE, !.frame = Popped])
    BY DEF Link
  <2> QED  BY <1>5, <2>1, <2>2
<1>8. /\ entry'[t][i] = e
      /\ \A f \in Frames, j \in Entries : f # t \/ j # i => entry'[f][j] = entry[f][j]
  BY <1>3, <1>6, <1>7, OneEntry
<1>13. Grown(g, h, c)
  <2>1. ~entry[t][i].present
    BY <1>1, EntryOfIs DEF Link
  <2>2. \A f \in Cleared(g) : f \in Frames /\ h.lv[f] = g.lv[f]
    BY <1>4 DEF Beside, Cleared
  <2>3. Grows(g)
    BY <1>8, <2>1, <2>2 DEF Grows
  <2>4. ASSUME NEW f \in Cleared(g), NEW j \in Entries, h.lv[f] = 1, entry'[f][j].present
        PROVE  Leaf(g, f, j)
    <3>1. g.lv[f] = 1 /\ f # t
      BY <1>3, <2>2, <2>4
    <3> QED  BY <1>8, <2>2, <2>4, <3>1 DEF Leaf
  <2> QED  BY <2>3, <2>4 DEF Grown
<1> SUFFICES ASSUME NEW f \in Cleared(g), NEW j \in Entries, entry'[f][j].present, Low(h, f, j)',
                    h.lv[f] = 1 \/ entry'[f][j].frame \in Cleared(g)
             PROVE  entry'[f][j].user /\ entry'[f][j].write
  BY <1>13 DEF LowOK
<1>9. f \in Frames /\ h.lv[f] = g.lv[f] /\ h.own[f] = g.own[f]
  BY <1>4 DEF Beside, Cleared
<1>10. Low(g, f, j)
  BY <1>2, <1>9 DEF Low
<1>11. f # t \/ j # i
  BY <1>3, <1>4, <1>6, <1>8, <1>9
<1>12. entry'[f][j] = entry[f][j]
  BY <1>8, <1>9, <1>11
<1> QED  BY <1>9, <1>10, <1>12 DEF LowOK

\* The table is cleared, and counts from now on.
LEMMA LowClear ==
  ASSUME NEW g, PagingInv(g), UserOK, LowOK(g), NEW c \in Cores, Clear(c), ~Panic
  PROVE  LowOK(g)' /\ Grown(g, g, c)
<1>1. PICK t, i, x, e : /\ t = Here(c) /\ i = Slot(c) /\ x = Target(c)
                        /\ e = Attributed(c, entry[t][i])
  OBVIOUS
<1>2. call[c].do = "map" /\ Clearing(c) /\ Walker(c) /\ spaces' = spaces
  BY DEF Clear, Clearing, Walker, spaceVars
<1>3. /\ LeadsOn(g, t, i) /\ (t \in spaces => i \notin KernelIndexes)
      /\ entry[t][i].frame = x
  BY <1>1, <1>2, ClearingIs DEF Target
<1>4. /\ t \in Frames /\ x \in Frames /\ x # t /\ i \in Entries
      /\ \A j \in Entries : ~EmptyTable[j].present
      /\ call[c].user = TRUE => e.user /\ e.write
      /\ entry'[t][i] = e /\ entry'[x] = EmptyTable
      /\ \A f \in Frames, j \in Entries : f # x /\ (f # t \/ j # i) => entry'[f][j] = entry[f][j]
      /\ e.present = entry[t][i].present /\ e.frame = entry[t][i].frame
  <2>1. ClearsAs(c, t, i, x, e)
    BY <1>1, ClearIs
  <2> QED  BY <2>1 DEF ClearsAs
<1>5. x \in Uncleared
  BY <1>1, <1>2, UnclearedIs
<1>6. Alone(c)
  BY StepAlone DEF Step
<1>7. Grows(g)
  <2>1. \A f \in Cleared(g) : f \in Frames /\ f # x
    BY <1>5 DEF Cleared
  <2> QED  BY <1>4, <2>1 DEF Grows
<1>8. \A f \in Cleared(g)' : f \in Frames /\ (f = x \/ f \in Cleared(g))
  <2> SUFFICES ASSUME NEW f \in Cleared(g)', f # x, f \in Uncleared PROVE FALSE
    BY DEF Cleared
  <2>1. PICK d \in Cores : Clearing(d) /\ f = Target(d)
    BY UnclearedIs
  <2>2. d \in Cores \ {c}
    BY <1>1, <2>1
  <2>3. Clearing(d)' /\ Target(d)' = Target(d)
    BY <1>6, <1>7, <2>1, <2>2, OtherTables, OtherTargets
  <2>4. f \in Uncleared'
    BY <2>1, <2>3, UnclearedWillBe
  <2> QED  BY <2>4 DEF Cleared
<1>13. Grown(g, g, c)
  <2> SUFFICES ASSUME NEW f \in Cleared(g)', NEW j \in Entries, g.lv[f] = 1, entry'[f][j].present
               PROVE  Leaf(g, f, j)
    BY <1>7 DEF Grown
  <2>1. f # x /\ f \in Cleared(g) /\ f # t
    BY <1>3, <1>4, <1>8 DEF LeadsOn
  <2> QED  BY <1>4, <1>8, <2>1 DEF Leaf
<1> SUFFICES ASSUME NEW f \in Cleared(g)', NEW j \in Entries, entry'[f][j].present, Low(g, f, j)',
                    g.lv[f] = 1 \/ entry'[f][j].frame \in Cleared(g)'
             PROVE  entry'[f][j].user /\ entry'[f][j].write
  BY <1>13 DEF LowOK
<1>9. f \in Frames /\ f # x /\ f \in Cleared(g) /\ Low(g, f, j)
  BY <1>2, <1>4, <1>8 DEF Low
<1>10. CASE f = t /\ j = i
  <2>1. call[c].user = TRUE
    BY <1>1, <1>2, <1>9, <1>10, LowIsUsers
  <2> QED  BY <1>4, <1>10, <2>1
<1>11. CASE f # t \/ j # i
  <2>1. entry'[f][j] = entry[f][j]
    BY <1>4, <1>9, <1>11
  <2>2. CASE g.lv[f] = 1 \/ entry[f][j].frame \in Cleared(g)
    BY <1>9, <2>1, <2>2 DEF LowOK
  <2>3. CASE g.lv[f] # 1 /\ entry[f][j].frame \notin Cleared(g)
    <3>1. entry[f][j].frame = x
      BY <1>8, <2>1, <2>3
    <3>2. LeadsOn(g, f, j)
      <4>1. g.lv[f] > 0 /\ g.lv[f] \in 0..Levels
        BY <1>9 DEF Cleared, PagingInv, Ghosts
      <4> QED  BY <1>9, <2>1, <2>3, <4>1, Sizes DEF LeadsOn
    <3>3. i = j /\ (f = t \/ (f \in spaces /\ t \in spaces /\ j \in KernelIndexes))
      BY <1>3, <1>4, <1>9, <3>1, <3>2 DEF PagingInv, TreeInv, OneParent
    <3> QED  BY <1>3, <1>11, <3>3
  <2> QED  BY <2>2, <2>3
<1> QED  BY <1>10, <1>11

\* The new space has copies of the upper half only.
LEMMA LowSpace ==
  ASSUME NEW g, PagingInv(g), LowOK(g), NEW c \in Cores, Cloned(c),
         NEW h, PagingInv(h)', Beside(g, h, making[c][1])
  PROVE  LowOK(h)' /\ Grown(g, h, c)
<1>1. PICK x : x = making[c][1]
  OBVIOUS
<1>2. /\ At(c, "copy") /\ spaces' = spaces \cup {x} /\ entry' = entry /\ cr3' = cr3
      /\ making' = making /\ \E k : Goes(c, k)
  BY <1>1 DEF Cloned, Then
<1>3. Making(c, Inside) /\ ~Clearing(c) /\ Unmapped(c)
  BY <1>2, AtIs DEF Inside, Unmapped
<1>4. x \in Frames /\ g.lv[x] = 0 /\ IsCopy(x)
  BY <1>1, <1>3, MakesIs DEF PagingInv, CoreInv, MadeOK
<1>5. Alone(c)
  BY <1>2, OthersAlone
<1>6. \A f \in Cleared(h)' : f \in Frames /\ (f = x \/ f \in Cleared(g))
  <2>1. Grows(g)
    BY <1>2 DEF Grows
  <2>2. \A f \in Uncleared : f \in Uncleared'
    BY <1>3, <1>5, <2>1, UnclearedStays
  <2> QED  BY <1>1, <2>2 DEF Cleared, Beside
<1>10. Grown(g, h, c)
  <2>1. h.lv[x] # 1
    BY <1>2, <1>4, Sizes DEF PagingInv, TreeInv, SpacesAreTop
  <2>2. \A f \in Cleared(h)' : h.lv[f] = 1 => f \in Cleared(g) /\ g.lv[f] = 1
    BY <1>1, <1>6, <2>1 DEF Beside
  <2> QED  BY <1>2, <2>2 DEF Grown, Grows, Leaf
<1> SUFFICES ASSUME NEW f \in Cleared(h)', NEW j \in Entries, entry[f][j].present, Low(h, f, j)',
                    h.lv[f] = 1 \/ entry[f][j].frame \in Cleared(h)'
             PROVE  entry[f][j].user /\ entry[f][j].write
  BY <1>2, <1>10 DEF LowOK
<1>7. f # x
  BY <1>2, <1>4 DEF Low, IsCopy
<1>8. f \in Cleared(g) /\ f \in Frames /\ h.lv[f] = g.lv[f] /\ Low(g, f, j)
  BY <1>1, <1>2, <1>6, <1>7 DEF Beside, Low
<1>9. g.lv[f] = 1 \/ entry[f][j].frame \in Cleared(g)
  <2>1. CASE g.lv[f] >= 2
    <3>1. g.lv[entry[f][j].frame] = g.lv[f] - 1
      BY <1>8, <2>1 DEF LeadsOn, PagingInv, TreeInv, Children, IsChild
    <3>2. entry[f][j].frame # x
      <4>1. g.lv[f] \in Nat
        BY <1>8 DEF PagingInv, Ghosts
      <4> QED  BY <1>4, <2>1, <3>1, <4>1
    <3> QED  BY <1>6, <1>8, <2>1, <3>2
  <2>2. CASE ~(g.lv[f] >= 2)
    BY <1>8, <2>2 DEF Cleared, PagingInv, Ghosts
  <2> QED  BY <2>1, <2>2
<1> QED  BY <1>8, <1>9 DEF LowOK

\* The booter's tables go.
LEMMA LowDrop ==
  ASSUME NEW g, PagingInv(g), LowOK(g), DropBootloaderMapping,
         NEW h, h.own = g.own, \A f \in Frames : h.lv[f] \in {0, g.lv[f]}
  PROVE  LowOK(h)' /\ \A f \in Frames, i \in Entries : Leaf(h, f, i)' => Leaf(g, f, i)
<1>1. booting /\ spaces' = spaces /\ call' = call
  BY DEF DropBootloaderMapping
<1>2. Uncleared = {} /\ Uncleared' = {}
  <2>1. \A c \in Cores : ~Clearing(c) /\ ~Clearing(c)'
    BY <1>1 DEF PagingInv, BootInv, Idle, Clearing
  <2> QED  BY <2>1, UnclearedIs, UnclearedWillBe
<1>3. \A f \in Cleared(h)' : f \in Cleared(g) /\ h.lv[f] = g.lv[f] /\ h.own[f] = g.own[f]
  BY <1>2 DEF Cleared
<1>4. \A f \in Frames, i \in Entries : entry'[f][i] = entry[f][i] \/ ~entry'[f][i].present
  <2>1. \A f \in Frames, i \in Entries : ~Absent(entry[f][i]).present
    BY DEF Absent, EntryType, PagingInv, Typed
  <2> QED  BY <2>1 DEF DropBootloaderMapping, Entries
<1>5. \A f \in Cleared(g), i \in Entries : entry'[f][i].present /\ Low(g, f, i) => UserStays(f, i)
  <2>1. \A f \in Cleared(g) : f \in Frames
    BY DEF Cleared
  <2> QED  BY <1>4, <2>1 DEF UserStays
<1>6. \A f \in Frames, i \in Entries : Leaf(h, f, i)' => Leaf(g, f, i)
  BY <1>3, <1>4 DEF Leaf
<1> QED  BY <1>1, <1>3, <1>5, <1>6, LowStays

\* What the tables allow the user is kept to.
UserInv(g) == PagingInv(g) /\ UserOK /\ LowOK(g)

\* Every operation of a core keeps it.
LEMMA UserStep ==
  ASSUME NEW g, UserInv(g), NEW c \in Cores, Step(c), IInv', UserOK'
  PROVE  \E h : UserInv(h)' /\ IF Panic THEN h = g ELSE Grown(g, h, c)
<1>1. PagingInv(g) /\ UserOK /\ LowOK(g)
  BY DEF UserInv
<1>2. CASE Panic
  <2>1. PagingInv(g)'
    BY <1>1, <1>2, StepSame
  <2>2. LowOK(g)'
    <3>1. UNCHANGED <<entry, spaces, call, cr3>>
      BY <1>2 DEF Panic, spaceVars
    <3> QED  BY <1>1, <3>1, LowSame
  <2> QED  BY <1>2, <2>1, <2>2 DEF UserInv
<1>3. CASE ~Panic /\ Link(c)
  <2>1. PICK h : PagingInv(h)' /\ Beside(g, h, Popped) /\ Cleared(h)' = Cleared(g)
    BY <1>1, <1>3, LinkKeeps
  <2>2. LowOK(h)' /\ Grown(g, h, c)
    BY <1>1, <1>3, <2>1, LowLink
  <2> QED  BY <1>1, <1>3, <2>1, <2>2 DEF UserInv
<1>4. CASE ~Panic /\ Cloned(c)
  <2>1. PICK h : PagingInv(h)' /\ Beside(g, h, making[c][1])
    BY <1>1, <1>4, SpaceKeeps
  <2>2. LowOK(h)' /\ Grown(g, h, c)
    BY <1>1, <1>4, <2>1, LowSpace
  <2> QED  BY <1>1, <1>4, <2>1, <2>2 DEF UserInv
<1>5. CASE ~Panic /\ ~Link(c) /\ ~Cloned(c)
  <2>1. PagingInv(g)'
    BY <1>1, <1>5, StepSame
  <2>2. LowOK(g)' /\ Grown(g, g, c)
    <3>1. CASE Clear(c)  BY <1>1, <1>5, <3>1, LowClear
    <3>2. CASE MapDescend(c)  BY <1>1, <1>5, <3>2, LowDescend
    <3>3. CASE UnmapDescend(c)  BY <1>1, <1>5, <3>3, LowUnmapDescend
    <3>4. CASE MapPage(c) \/ UnmapPage(c)  BY <1>1, <1>5, <3>4, LowPage
    <3>5. CASE QueryLock(c) \/ Query(c)  BY <1>1, <1>5, <3>5, LowQuery
    <3>6. CASE Zero(c) \/ Copy(c)  BY <1>1, <1>5, <3>6, LowMaking
    <3>7. CASE Return(c) \/ Clone(c) \/ SetForeign(c) \/ ReleaseForeign(c) \/ Enter(c) \/ Leave(c)
      <4>1. entry' = entry /\ spaces' = spaces
        BY <1>5, <3>7 DEF Return, PopAndMap, Clone, SetForeign, ReleaseForeign, Enter, Leave,
             spaceVars
      <4>2. ~Clearing(c)
        BY <3>7 DEF Clearing, Return, Clone, SetForeign, ReleaseForeign, Enter, Leave, At
      <4> QED  BY <1>1, <1>5, <4>1, <4>2, StepAlone, LowNone
    <3> QED  BY <1>5, <3>1, <3>2, <3>3, <3>4, <3>5, <3>6, <3>7 DEF Step
  <2> QED  BY <1>1, <1>5, <2>1, <2>2 DEF UserInv
<1> QED  BY <1>2, <1>3, <1>4, <1>5

------------------------------------------------------------------------------
(* What is asked for                                                       *)

\* The pages a walk has still to do, and whether a space has a page.
Asked(c) == IF call[c].do \in Walks THEN call[c].at..(call[c].upto - 1) ELSE {}
Has(s, p) == \E m \in pages : m[1] = s /\ m[2] = p

\* Nobody else runs in a PML4 that is being made, or has made it, or came from it,
Strangers ==
  \A c \in Cores : Making(c, Later) => \A d \in Cores \ {c} :
    /\ cr3[d] # making[c][1]
    /\ Making(d, Later) => making[d][1] # making[c][1] /\ making[d][2] # making[c][1]
\* not its maker either before it is entered, so that there is nothing in its lower half.
NewPages ==
  \A c \in Cores : Making(c, Later) =>
    IF Making(c, {"leave"}) THEN cr3[c] = making[c][1]
    ELSE /\ cr3[c] # making[c][1]
         /\ \A m \in pages : m[1] = making[c][1] => Half(m[2]) = "upper"

\* What map has still to do is not mapped, what the others have still to do is;
RightPages ==
  \A c \in Cores : \A p \in Asked(c) : call[c].do = "map" <=> ~Has(cr3[c], p)
\* cores that are asked for the same page are so in different spaces;
RangesApart ==
  \A c, d \in Cores : \A p \in Asked(c) \cap Asked(d) :
    c = d \/ (Half(p) = "lower" /\ cr3[c] # cr3[d])
\* and clone_kernel has its page for itself.
RangesAre ==
  \A c \in Cores : \A p \in Asked(c) :
    (call[c].then = "return" => p # Scratch) /\ (call[c].then = "leave" => Half(p) = "lower")
Requested == RightPages /\ RangesApart /\ RangesAre

\* The page of clone_kernel is mapped while a core is between its map and its unmap.
Scratches(c) == \/ At(c, "zero")
                \/ call[c].do = "map" /\ call[c].then = "zero" /\ call[c].at = call[c].upto
Drops(c) == call[c].do = "unmap" /\ call[c].then = "set_foreign" /\ call[c].at < call[c].upto
ScratchIs == /\ \A m \in pages : m[2] = Scratch => \E c \in Cores : Scratches(c) \/ Drops(c)
             /\ \A c \in Cores : Scratches(c) => Has(cr3[c], Scratch)

\* A page of the upper half is mapped in every space.
UpperPages == \A m \in pages : Half(m[2]) = "upper" => \A s \in spaces : Has(s, m[2])

AskedInv == Strangers /\ NewPages /\ Requested /\ ScratchIs /\ UpperPages

\* A core goes on with its walk: it does the page it is at, or none; or the walk returns.
WalksOn(c) == /\ call'[c].do = call[c].do /\ call'[c].then = call[c].then
              /\ call'[c].upto = call[c].upto
Walked(c) ==
  /\ Alone(c) /\ UNCHANGED <<cr3, making, mutex, spaces>>
  /\ \/ WalksOn(c) /\ call'[c].at = call[c].at /\ pages' = pages
     \/ /\ WalksOn(c) /\ call'[c].at = call[c].at + 1
        /\ \/ call[c].do = "query" /\ pages' = pages
           \/ MapPage(c) \/ UnmapPage(c)
     \/ /\ call[c].at = call[c].upto /\ pages' = pages
        /\ call'[c].do \notin Walks
        /\ IF call[c].then = "return" THEN call'[c].do = "idle"
           ELSE call'[c].do = "process" /\ call'[c].step = call[c].then

\* How a walk goes on.
LEMMA WalkGoes ==
  ASSUME NEW g, PagingInv(g), NEW c \in Cores, NEW k, Goes(c, k), call[c].do \in Walks,
         Step(c), ~Panic, UNCHANGED <<cr3, making, mutex, spaces>>,
         k.do = call[c].do, k.then = call[c].then, k.upto = call[c].upto,
         \/ k.at = call[c].at /\ pages' = pages
         \/ k.at = call[c].at + 1 /\ ((call[c].do = "query" /\ pages' = pages)
                                      \/ MapPage(c) \/ UnmapPage(c))
  PROVE  Walked(c)
<1>1. call'[c] = k
  BY DEF Goes, PagingInv, Typed
<1>2. Alone(c)
  BY StepAlone
<1> QED  BY <1>1, <1>2 DEF Walked, WalksOn

\* The record of a walk, changed, which is then at page d.
Changed(c, k, d) ==
  \/ /\ d = call[c].at
     /\ \E a, b : k \in {[call[c] EXCEPT !.step = a], [call[c] EXCEPT !.level = b],
                        [call[c] EXCEPT !.step = a, !.level = b]}
  \/ \E a, b, e : k \in {[call[c] EXCEPT !.at = d, !.phys = e, !.step = a, !.level = b],
                         [call[c] EXCEPT !.phys = e, !.at = d, !.step = a]}
LEMMA WalkFields ==
  ASSUME NEW g, PagingInv(g), NEW c \in Cores, call[c].do \in Walks, NEW k, NEW d,
         Changed(c, k, d)
  PROVE  /\ k.do = call[c].do /\ k.then = call[c].then /\ k.upto = call[c].upto /\ k.at = d
<1>1. call[c] \in MapCall \/ call[c] \in UnmapCall \/ QueryCall(call[c])
  BY CallIs DEF Walks
<1>2. CASE call[c] \in MapCall
  BY <1>2 DEF MapCall, Changed
<1>3. CASE call[c] \in UnmapCall
  BY <1>3 DEF UnmapCall, Changed
<1>4. CASE QueryCall(call[c])
  BY <1>4 DEF QueryCall, QueryFields, Changed
<1> QED  BY <1>1, <1>2, <1>3, <1>4

\* Every step of a walk is one of them.
LEMMA WalkIs ==
  ASSUME NEW g, PagingInv(g), NEW c \in Cores, Step(c), ~Panic, call[c].do \in Walks
  PROVE  Walked(c)
<1>1. call[c].do # "process"
  BY DEF Walks
<1>2. ~Clone(c) /\ ~Zero(c) /\ ~SetForeign(c) /\ ~Copy(c) /\ ~Cloned(c) /\ ~ReleaseForeign(c)
      /\ ~Enter(c) /\ ~Leave(c)
  BY <1>1 DEF Clone, Zero, SetForeign, Copy, Cloned, ReleaseForeign, Enter, Leave, At
<1>3. CASE Link(c) \/ Clear(c) \/ MapDescend(c) \/ UnmapDescend(c) \/ QueryLock(c)
  <2>1. UNCHANGED <<cr3, making, mutex, spaces, pages>>
    BY <1>3 DEF Link, Clear, MapDescend, UnmapDescend, QueryLock, spaceVars
  <2>2. PICK k : Goes(c, k) /\ Changed(c, k, call[c].at)
    BY <1>3 DEF Link, Clear, MapDescend, UnmapDescend, QueryLock, Down, Changed
  <2>3. /\ k.do = call[c].do /\ k.then = call[c].then /\ k.upto = call[c].upto
        /\ k.at = call[c].at
    BY <2>2, WalkFields
  <2> QED  BY <2>1, <2>2, <2>3, WalkGoes
<1>4. CASE MapPage(c) \/ UnmapPage(c)
  <2>1. UNCHANGED <<cr3, making, mutex, spaces>> /\ \E e : Advance(c, e)
    BY <1>4 DEF MapPage, UnmapPage, spaceVars
  <2>2. PICK d, k : d = call[c].at + 1 /\ Goes(c, k) /\ Changed(c, k, d)
    <3>1. PICK l : Goes(c, NextCall(c, l))
      BY <2>1 DEF Advance, NextCall
    <3>2. PICK d, e, a, b : /\ d = call[c].at + 1 /\ e = call[c].phys + 1
                            /\ a = IF l > Levels THEN "done" ELSE "lock"
                            /\ b = IF l > Levels THEN Levels ELSE l
      OBVIOUS
    <3>3. NextCall(c, l) = [call[c] EXCEPT !.at = d, !.phys = e, !.step = a, !.level = b]
      BY <3>2 DEF NextCall
    <3>4. Changed(c, NextCall(c, l), d)
      BY ONLY <3>3 DEF Changed
    <3> QED  BY <3>1, <3>2, <3>4
  <2>3. k.do = call[c].do /\ k.then = call[c].then /\ k.upto = call[c].upto /\ k.at = d
    BY <2>2, WalkFields
  <2> QED  BY <1>4, <2>1, <2>2, <2>3, WalkGoes
<1>5. CASE Query(c)
  <2>1. UNCHANGED <<cr3, making, mutex, spaces, pages>> /\ call[c].do = "query"
    BY <1>5 DEF Query, spaceVars
  <2>2. PICK d, k : d \in {call[c].at, call[c].at + 1} /\ Goes(c, k) /\ Changed(c, k, d)
    <3>1. PICK d, e, a, b : /\ d = call[c].at + 1 /\ e = EntryOf(c).frame /\ a = "done"
                            /\ b = call[c].level - 1
      OBVIOUS
    <3>2. \/ Goes(c, [call[c] EXCEPT !.level = b])
          \/ Goes(c, [call[c] EXCEPT !.phys = e, !.at = d, !.step = a])
      BY <1>5, <3>1 DEF Query
    <3>3. /\ Changed(c, [call[c] EXCEPT !.level = b], call[c].at)
          /\ Changed(c, [call[c] EXCEPT !.phys = e, !.at = d, !.step = a], d)
      BY DEF Changed
    <3> QED  BY <3>1, <3>2, <3>3
  <2>3. k.do = call[c].do /\ k.then = call[c].then /\ k.upto = call[c].upto /\ k.at = d
    BY <2>2, WalkFields
  <2> QED  BY <2>1, <2>2, <2>3, WalkGoes
<1>6. CASE Return(c)
  <2>1. UNCHANGED <<cr3, making, mutex, spaces, pages>>
    BY <1>6 DEF Return, PopAndMap, spaceVars
  <2>2. CASE call[c].at = call[c].upto
    <3>1. call[c].at \in Nat
      BY CallIs DEF MapCall, UnmapCall, QueryCall, Walks
    <3>2. Goes(c, IF call[c].then = "return" THEN Idle
                  ELSE [do |-> "process", step |-> call[c].then])
      BY <1>6, <2>2, <3>1 DEF Return
    <3>3. call'[c] = IF call[c].then = "return" THEN Idle
                     ELSE [do |-> "process", step |-> call[c].then]
      BY <3>2 DEF Goes, PagingInv, Typed
    <3> QED  BY <1>6, <2>1, <2>2, <3>3, StepAlone DEF Walked, Idle, Walks
  <2>3. CASE call[c].at # call[c].upto
    <3>1. call[c].do = "map" /\ call[c] \in MapCall
      <4>1. CallOK(call[c]) /\ call[c].step = "done" /\ call[c].at < call[c].upto
        BY <1>6, <2>3, CallIs DEF Return
      <4>2. /\ call[c].do = "unmap" => call[c].at \in Nat /\ call[c].upto \in Nat
            /\ call[c].do = "query" => call[c].at \in Nat /\ call[c].upto \in Nat
        BY CallIs DEF UnmapCall, QueryCall
      <4>3. call[c].do = "map"
        BY <4>1, <4>2 DEF CallOK, RangeOK, Walks
      <4> QED  BY <4>3, CallIs
    <3>2. PICK k : k = Mapping(call[c].at, call[c].at + 1, Popped, call[c].user, call[c].upto,
                               call[c].then)
      OBVIOUS
    <3>3. Goes(c, k)
      BY <1>6, <2>3, <3>2 DEF Return, PopAndMap
    <3>4. /\ k.do = call[c].do /\ k.then = call[c].then /\ k.upto = call[c].upto
          /\ k.at = call[c].at
      BY <3>1, <3>2 DEF Mapping
    <3> QED  BY <2>1, <3>3, <3>4, WalkGoes
  <2> QED  BY <2>2, <2>3
<1> QED  BY <1>2, <1>3, <1>4, <1>5, <1>6 DEF Step

\* A walk that goes on or returns leads where it led.
LEMMA WalkMakes ==
  ASSUME NEW g, PagingInv(g), NEW c \in Cores, call[c].do \in Walks, Walked(c),
         NEW S, "return" \notin S, NEW d \in Cores
  PROVE  Making(d, S)' <=> Making(d, S)
<1>1. CASE d # c
  BY <1>1 DEF Walked, Alone, Making
<1>2. CASE d = c /\ WalksOn(c)
  BY <1>2 DEF WalksOn, Making, Walks
<1>3. CASE d = c /\ ~WalksOn(c)
  BY <1>3 DEF Walked, Making, Walks
<1> QED  BY <1>1, <1>2, <1>3

\* What walks have still to do gets less.
LEMMA AskedLess ==
  ASSUME NEW g, PagingInv(g), NEW c \in Cores, call[c].do \in Walks, Walked(c), NEW d \in Cores
  PROVE  \/ Asked(d)' = {}
         \/ /\ Asked(d)' \subseteq Asked(d) /\ call'[d].do = call[d].do
            /\ call'[d].then = call[d].then /\ cr3'[d] = cr3[d]
<1>1. CASE d # c
  BY <1>1 DEF Walked, Alone, Asked
<1>2. CASE d = c /\ WalksOn(c)
  <2>1. call[c].at \in Nat /\ call[c].upto \in Nat
    BY CallIs DEF MapCall, UnmapCall, QueryCall, Walks
  <2>2. call'[c].at \in {call[c].at, call[c].at + 1}
    BY <1>2 DEF Walked, WalksOn, Walks
  <2>3. cr3'[c] = cr3[c]
    BY DEF Walked
  <2> QED  BY <1>2, <2>1, <2>2, <2>3 DEF WalksOn, Asked
<1>3. CASE d = c /\ ~WalksOn(c)
  BY <1>3 DEF Walked, Asked
<1> QED  BY <1>1, <1>2, <1>3

\* Where no range grows, and no page in one comes or goes.
LEMMA RequestedOn ==
  ASSUME Requested,
         \A d \in Cores :
           \/ Asked(d)' = {}
           \/ /\ Asked(d)' \subseteq Asked(d) /\ call'[d].do = call[d].do
              /\ call'[d].then = call[d].then /\ cr3'[d] = cr3[d]
              /\ \A p \in Asked(d)' : Has(cr3[d], p)' <=> Has(cr3[d], p)
  PROVE  Requested'
<1>1. RightPages'
  BY DEF Requested, RightPages
<1>2. RangesApart'
  BY DEF Requested, RangesApart, Half
<1>3. RangesAre'
  BY DEF Requested, RangesAre, Half
<1> QED  BY <1>1, <1>2, <1>3 DEF Requested

\* A walk begins.
LEMMA RequestedNew ==
  ASSUME Requested, pages' = pages, NEW c \in Cores,
         \A d \in Cores \ {c} : call'[d] = call[d] /\ cr3'[d] = cr3[d],
         \A p \in Asked(c)' :
           /\ call'[c].do = "map" <=> ~Has(cr3'[c], p)
           /\ call'[c].then = "return" => p # Scratch
           /\ call'[c].then = "leave" => Half(p) = "lower"
           /\ \A d \in Cores \ {c} : p \in Asked(d) => Half(p) = "lower" /\ cr3[d] # cr3'[c]
  PROVE  Requested'
<1>1. \A d \in Cores \ {c} : Asked(d)' = Asked(d)
  BY DEF Asked
<1>2. \A s, p : Has(s, p)' <=> Has(s, p)
  BY DEF Has
<1>3. RightPages'
  BY <1>1, <1>2 DEF Requested, RightPages
<1>4. RangesApart'
  BY <1>1 DEF Requested, RangesApart, Half
<1>5. RangesAre'
  BY <1>1 DEF Requested, RangesAre, Half
<1> QED  BY <1>3, <1>4, <1>5 DEF Requested

\* The page a core is at when it maps or unmaps.
LEMMA AtIsAsked ==
  ASSUME NEW g, PagingInv(g), NEW c \in Cores, call[c].do \in Walks, call[c].step # "done"
  PROVE  /\ call[c].at \in Asked(c) /\ call[c].at \in Nat /\ call[c].at \in Pages
         /\ call[c].upto \in Nat /\ call[c].at < call[c].upto /\ cr3[c] \in spaces
         /\ call[c].then \in {"zero", "set_foreign"} =>
              call[c].at = Scratch /\ call[c].upto = Scratch + 1
<1>1. RangeOK(call[c]) /\ cr3[c] \in spaces
  BY CallIs DEF CallOK
<1>2. call[c].at \in Nat /\ call[c].upto \in Nat /\ call[c].end \in Nat
  BY CallIs DEF MapCall, UnmapCall, QueryCall, Walks
<1>3. call[c].at < call[c].end /\ call[c].end <= call[c].upto /\ call[c].end - 1 \in Pages
  BY <1>1 DEF RangeOK
<1>4. call[c].at \in Pages
  <2>1. PICK w \in Nat : w = Width^Levels
    BY Powers, Sizes
  <2> QED  BY <2>1, <1>2, <1>3 DEF Pages
<1> QED  BY <1>1, <1>2, <1>3, <1>4 DEF Asked, RangeOK

\* What map and unmap do to what is mapped: the page they are at.
LEMMA PagesMapped ==
  ASSUME NEW g, PagingInv(g), NEW c \in Cores, MapPage(c), ~Panic, NEW p, p = call[c].at
  PROVE  /\ call[c].do = "map" /\ call[c].step = "lock" /\ pages \subseteq pages'
         /\ \A m \in pages' : m \in pages \/ (m[1] \in Sharing(c, p) /\ m[2] = p)
         /\ \A s \in Sharing(c, p) : Has(s, p)'
         /\ spaces' = spaces
<1>1. PICK f : f = call[c].phys
  OBVIOUS
<1>2. /\ call[c].do = "map" /\ call[c].step = "lock" /\ spaces' = spaces
      /\ pages' = pages \cup {<<s, p, f>> : s \in Sharing(c, p)}
  BY <1>1 DEF MapPage, AtLevel, spaceVars
<1>3. \A s \in Sharing(c, p) : <<s, p, f>>[1] = s /\ <<s, p, f>>[2] = p /\ <<s, p, f>> \in pages'
  BY <1>2
<1>4. \A m \in pages' : m \in pages \/ (m[1] \in Sharing(c, p) /\ m[2] = p)
  BY <1>2
<1>5. \A s \in Sharing(c, p) : Has(s, p)'
  BY <1>3 DEF Has
<1>6. pages \subseteq pages'
  BY <1>2
<1> QED  BY <1>1, <1>2, <1>4, <1>5, <1>6

\* The same of unmap: the page is mapped nowhere, or no longer in the core's space.
LEMMA PagesUnmapped ==
  ASSUME NEW g, PagingInv(g), NEW c \in Cores, UnmapPage(c), ~Panic, NEW p, p = call[c].at
  PROVE  /\ call[c].do = "unmap" /\ call[c].step = "lock" /\ pages' \subseteq pages
         /\ \A m \in pages : m \in pages' \/ (m[1] \in Sharing(c, p) /\ m[2] = p)
         /\ \A m \in pages' : m[2] = p => m[1] \notin Sharing(c, p)
         /\ \A m \in pages : m \notin pages' =>
              TableIn(entry, m[1], m[2], 1) = Here(c) /\ Index(1, m[2]) = Slot(c)
         /\ spaces' = spaces
<1>1. PICK t, i, f : t = Here(c) /\ i = Slot(c) /\ f = entry[t][i].frame
  OBVIOUS
<1>2. /\ call[c].do = "unmap" /\ call[c].step = "lock" /\ call[c].level = 1 /\ Walker(c)
      /\ spaces' = spaces /\ pages' = pages \ {<<s, p, f>> : s \in Sharing(c, p)}
  BY <1>1, EntryOfIs DEF UnmapPage, AtLevel, Walker, spaceVars
<1>3. /\ p \in Pages /\ p \in Nat /\ cr3[c] \in spaces /\ Path(g, cr3[c], p, 1)
      /\ t = TableIn(entry, cr3[c], p, 1) /\ i = Index(1, p)
  BY <1>1, <1>2, PageIs
<1>4. \A m \in pages : m \in pages' \/ (m[1] \in Sharing(c, p) /\ m[2] = p)
  BY <1>2
<1>5. ASSUME NEW s \in Sharing(c, p), s \in spaces PROVE TableIn(entry, s, p, 1) = t
  <2>1. CASE Half(p) = "lower"
    BY <1>3, <1>5, <2>1 DEF Sharing
  <2>2. CASE Half(p) # "lower"
    <3>1. PICK u : u = cr3[c]
      OBVIOUS
    <3>2. Half(p) = "upper" /\ Index(Levels, p) \in KernelIndexes
      BY <2>2 DEF Half
    <3>3. LET j == Index(Levels, p)
          IN  entry[s][j].present /\ entry[s][j].frame = entry[u][j].frame
      BY <1>3, <1>5, <3>1, <3>2 DEF PagingInv, TreeInv, UpperIsShared
    <3>4. /\ 1 \in 1..Levels /\ 1 \in 1..(Levels - 1) /\ p \in Pages /\ Half(p) = "upper"
          /\ s \in Cleared(g) /\ g.lv[s] = Levels /\ g.base[s] = 0
          /\ PathIn(entry, Cleared(g), g, u, p, 1)
      BY <1>3, <1>5, <3>1, <3>2, SpaceIs, Sizes DEF Path
    <3>5. /\ PathIn(entry, Cleared(g), g, s, p, 1)
          /\ \A k \in 1..(Levels - 1) : TableIn(entry, s, p, k) = TableIn(entry, u, p, k)
      BY ONLY <3>3, <3>4, PathShared
    <3> QED  BY <1>3, <3>1, <3>4, <3>5
  <2> QED  BY <2>1, <2>2
<1>6. ASSUME NEW m \in pages, m[2] = p, m[1] \in Sharing(c, p)
      PROVE  m = <<m[1], p, f>> /\ TableIn(entry, m[1], p, 1) = t
  <2>1. m = <<m[1], m[2], m[3]>>
    BY DEF PagingInv, PagesAre
  <2>2. PICK s, x : s = m[1] /\ x = m[3]
    OBVIOUS
  <2>3. <<s, p, x>> \in pages
    BY <1>6, <2>1, <2>2
  <2>4. s \in spaces /\ entry[TableIn(entry, s, p, 1)][Index(1, p)].frame = x
    BY <2>3 DEF PagingInv, PageInv
  <2>5. TableIn(entry, s, p, 1) = t
    BY <1>5, <1>6, <2>2, <2>4
  <2> QED  BY <1>1, <1>3, <1>6, <2>1, <2>2, <2>4, <2>5
<1>7. \A m \in pages' : m[2] = p => m[1] \notin Sharing(c, p)
  BY <1>2, <1>6
<1>8. \A m \in pages : m \notin pages' =>
        TableIn(entry, m[1], m[2], 1) = t /\ Index(1, m[2]) = i
  BY <1>3, <1>4, <1>6
<1> QED  BY <1>1, <1>2, <1>4, <1>7, <1>8

\* Other pages, and the page in other spaces, stay what they are.
LEMMA HasSame ==
  ASSUME NEW g, PagingInv(g), NEW c \in Cores, MapPage(c) \/ UnmapPage(c), ~Panic,
         NEW p, p = call[c].at, NEW s, NEW q, q # p \/ s \notin Sharing(c, p)
  PROVE  Has(s, q)' <=> Has(s, q)
<1>1. CASE MapPage(c)
  <2>1. /\ pages \subseteq pages'
        /\ \A m \in pages' : m \in pages \/ (m[1] \in Sharing(c, p) /\ m[2] = p)
    BY <1>1, PagesMapped
  <2> QED  BY <2>1 DEF Has
<1>2. CASE UnmapPage(c)
  <2>1. /\ pages' \subseteq pages
        /\ \A m \in pages : m \in pages' \/ (m[1] \in Sharing(c, p) /\ m[2] = p)
    BY <1>2, PagesUnmapped
  <2> QED  BY <2>1 DEF Has
<1> QED  BY <1>1, <1>2

\* A walk keeps to what was asked for.
LEMMA WalkRequested ==
  ASSUME NEW g, PagingInv(g), Requested, NEW c \in Cores, call[c].do \in Walks, Walked(c), ~Panic
  PROVE  Requested'
<1> SUFFICES ASSUME NEW d \in Cores, Asked(d)' # {}, NEW p \in Asked(d)'
             PROVE  Has(cr3[d], p)' <=> Has(cr3[d], p)
  BY AskedLess, RequestedOn
<1>1. /\ Asked(d)' \subseteq Asked(d) /\ call'[d].do = call[d].do
      /\ call'[d].then = call[d].then /\ cr3'[d] = cr3[d]
  BY AskedLess
<1>2. Has(cr3[d], p)' <=> \E m \in pages' : m[1] = cr3[d] /\ m[2] = p
  BY <1>1 DEF Has
<1>3. CASE pages' = pages
  BY <1>2, <1>3 DEF Has
<1>4. CASE WalksOn(c) /\ call'[c].at = call[c].at + 1 /\ (MapPage(c) \/ UnmapPage(c))
  <2>1. PICK q, s : q = call[c].at /\ s = cr3[d]
    OBVIOUS
  <2>2. q \in Nat /\ q \in Asked(c) /\ call[c].upto \in Nat
    <3>1. call[c].do \in Walks /\ call[c].step # "done"
      BY <1>4 DEF MapPage, UnmapPage, AtLevel
    <3> QED  BY <2>1, <3>1, AtIsAsked
  <2>3. p # q \/ s \notin Sharing(c, q)
    <3>1. CASE d = c
      BY <1>4, <2>1, <2>2, <3>1 DEF Asked, WalksOn
    <3>2. CASE d # c /\ p = q
      <4>1. Half(q) = "lower" /\ cr3[c] # cr3[d]
        BY <1>1, <2>2, <3>2 DEF Requested, RangesApart
      <4> QED  BY <2>1, <4>1 DEF Sharing
    <3> QED  BY <3>1, <3>2
  <2>4. Has(s, p)' <=> Has(s, p)
    BY <1>4, <2>1, <2>3, HasSame
  <2> QED  BY <1>2, <2>1, <2>4 DEF Has
<1> QED  BY <1>3, <1>4 DEF Walked

\* No space changes, and no other PML4 is made.
LEMMA StrangersOn ==
  ASSUME Strangers, cr3' = cr3, making' = making,
         \A d \in Cores : Making(d, Later)' => Making(d, Later)
  PROVE  Strangers'
BY DEF Strangers

\* No page of the lower half of a new PML4 comes.
LEMMA NewPagesOn ==
  ASSUME NewPages, cr3' = cr3, making' = making,
         \A d \in Cores : Making(d, Later)' =>
           Making(d, Later) /\ (Making(d, {"leave"})' <=> Making(d, {"leave"})),
         \A d \in Cores : Making(d, Later) /\ ~Making(d, {"leave"}) =>
           \A m \in pages' : m \in pages \/ m[1] # making[d][1] \/ Half(m[2]) = "upper"
  PROVE  NewPages'
BY DEF NewPages, Half

\* A walk maps nothing in the lower half of a PML4 that is not entered.
LEMMA WalkNew ==
  ASSUME NEW g, PagingInv(g), Strangers, NewPages, NEW c \in Cores, call[c].do \in Walks,
         Walked(c), ~Panic
  PROVE  Strangers' /\ NewPages'
<1>1. cr3' = cr3 /\ making' = making
  BY DEF Walked
<1>2. \A d \in Cores : /\ Making(d, Later)' <=> Making(d, Later)
                       /\ Making(d, {"leave"})' <=> Making(d, {"leave"})
  <2>1. "return" \notin Later /\ "return" \notin {"leave"}
    BY DEF Later
  <2> QED  BY <2>1, WalkMakes
<1>3. ASSUME NEW d \in Cores, Making(d, Later), ~Making(d, {"leave"}), NEW m \in pages',
             m \notin pages, m[1] = making[d][1]
      PROVE  Half(m[2]) = "upper"
  <2>1. MapPage(c)
    BY <1>3, PagesUnmapped DEF Walked
  <2>2. PICK p : p = call[c].at
    OBVIOUS
  <2>3. m[1] \in Sharing(c, p) /\ m[2] = p
    BY <1>3, <2>1, <2>2, PagesMapped
  <2>4. cr3[c] # making[d][1]
    BY <1>3 DEF Strangers, NewPages
  <2> QED  BY <1>3, <2>3, <2>4 DEF Sharing
<1> QED  BY <1>1, <1>2, <1>3, StrangersOn, NewPagesOn

\* What is mapped is mapped in a space.
LEMMA PageIsIn ==
  ASSUME NEW g, PagingInv(g), NEW m \in pages
  PROVE  /\ m[1] \in spaces /\ m[2] \in Pages /\ Path(g, m[1], m[2], 1)
         /\ entry[TableIn(entry, m[1], m[2], 1)][Index(1, m[2])].present
<1>1. m = <<m[1], m[2], m[3]>>
  BY DEF PagingInv, PagesAre
<1>2. PICK s, p, x : s = m[1] /\ p = m[2] /\ x = m[3]
  OBVIOUS
<1>3. <<s, p, x>> \in pages
  BY <1>1, <1>2
<1> QED  BY <1>2, <1>3 DEF PagingInv, PageInv

\* A page of the upper half comes and goes in all spaces.
LEMMA WalkUpper ==
  ASSUME NEW g, PagingInv(g), UpperPages, NEW c \in Cores, call[c].do \in Walks, Walked(c), ~Panic
  PROVE  UpperPages'
<1>1. spaces' = spaces
  BY DEF Walked
<1> SUFFICES ASSUME NEW m \in pages', Half(m[2]) = "upper", NEW s \in spaces
             PROVE  \E n \in pages' : n[1] = s /\ n[2] = m[2]
  BY <1>1 DEF UpperPages, Has, Half
<1>2. CASE pages' = pages
  BY <1>2 DEF UpperPages, Has
<1>3. CASE MapPage(c)
  <2>1. PICK p : p = call[c].at
    OBVIOUS
  <2>2. /\ pages \subseteq pages'
        /\ \A x \in pages' : x \in pages \/ (x[1] \in Sharing(c, p) /\ x[2] = p)
        /\ \A u \in Sharing(c, p) : Has(u, p)'
    BY <1>3, <2>1, PagesMapped
  <2>3. CASE m \in pages
    BY <2>2, <2>3 DEF UpperPages, Has
  <2>4. CASE m \notin pages
    <3>1. m[2] = p /\ s \in Sharing(c, p)
      BY <2>2, <2>4 DEF Sharing
    <3> QED  BY <2>2, <3>1 DEF Has
  <2> QED  BY <2>3, <2>4
<1>4. CASE UnmapPage(c)
  <2>1. PICK p : p = call[c].at
    OBVIOUS
  <2>2. /\ pages' \subseteq pages
        /\ \A x \in pages : x \in pages' \/ (x[1] \in Sharing(c, p) /\ x[2] = p)
        /\ \A x \in pages' : x[2] = p => x[1] \notin Sharing(c, p)
    BY <1>4, <2>1, PagesUnmapped
  <2>3. m[1] \in spaces
    BY <2>2, PageIsIn
  <2>4. m[2] # p
    BY <2>2, <2>3 DEF Sharing
  <2>5. PICK n \in pages : n[1] = s /\ n[2] = m[2]
    BY <2>2 DEF UpperPages, Has
  <2> QED  BY <2>2, <2>4, <2>5
<1> QED  BY <1>2, <1>3, <1>4 DEF Walked

\* The page of clone_kernel comes and goes by the core in the spinlock.
LEMMA WalkScratch ==
  ASSUME NEW g, PagingInv(g), Requested, ScratchIs, NEW c \in Cores, call[c].do \in Walks,
         Walked(c), ~Panic
  PROVE  ScratchIs'
<1>1. /\ cr3' = cr3
      /\ \A d \in Cores \ {c} : /\ Scratches(d)' <=> Scratches(d)
                                /\ Drops(d)' <=> Drops(d)
  BY DEF Walked, Alone, Scratches, Drops, At
<1>2. CASE WalksOn(c) /\ call'[c].at = call[c].at /\ pages' = pages
  <2>1. (Scratches(c)' <=> Scratches(c)) /\ (Drops(c)' <=> Drops(c))
    BY <1>2 DEF WalksOn, Scratches, Drops, At, Walks
  <2> QED  BY <1>1, <1>2, <2>1 DEF ScratchIs, Has
<1>3. CASE WalksOn(c) /\ call[c].do = "query" /\ pages' = pages
  <2>1. ~Scratches(c)' /\ ~Scratches(c) /\ ~Drops(c)' /\ ~Drops(c)
    BY <1>3 DEF WalksOn, Scratches, Drops, At
  <2> QED  BY <1>1, <1>3, <2>1 DEF ScratchIs, Has
<1>4. CASE ~WalksOn(c)
  <2>1. /\ call[c].at = call[c].upto /\ call'[c].do \notin Walks /\ pages' = pages
        /\ IF call[c].then = "return" THEN call'[c].do = "idle"
           ELSE call'[c].do = "process" /\ call'[c].step = call[c].then
    BY <1>4 DEF Walked
  <2>2. call[c].at \in Nat
    BY CallIs DEF MapCall, UnmapCall, QueryCall, Walks
  <2>3. call[c].do # "map" => call[c].then # "zero"
    BY CallIs DEF UnmapCall, QueryCall, Walks
  <2>4. (Scratches(c)' <=> Scratches(c)) /\ ~Drops(c)' /\ ~Drops(c)
    BY <2>1, <2>2, <2>3 DEF Scratches, Drops, At, Walks
  <2> QED  BY <1>1, <2>1, <2>4 DEF ScratchIs, Has
<1>5. CASE WalksOn(c) /\ MapPage(c) /\ call'[c].at = call[c].at + 1
  <2>1. PICK p : p = call[c].at
    OBVIOUS
  <2>2. /\ pages \subseteq pages' /\ call[c].do = "map" /\ call[c].step = "lock"
        /\ \A x \in pages' : x \in pages \/ (x[1] \in Sharing(c, p) /\ x[2] = p)
        /\ \A u \in Sharing(c, p) : Has(u, p)'
    BY <1>5, <2>1, PagesMapped
  <2>3. /\ p \in Asked(c) /\ p \in Nat /\ call[c].upto \in Nat /\ p < call[c].upto
        /\ call[c].then \in {"zero", "set_foreign"} => p = Scratch /\ call[c].upto = Scratch + 1
    BY <2>1, <2>2, AtIsAsked DEF Walks
  <2>4. ~Scratches(c) /\ ~Drops(c) /\ ~Drops(c)' /\ (Scratches(c)' => call[c].then = "zero")
    BY <1>5, <2>1, <2>2, <2>3 DEF WalksOn, Scratches, Drops, At
  <2>5. \A s, q : Has(s, q) => Has(s, q)'
    BY <2>2 DEF Has
  <2>6. Scratches(c)' => Has(cr3[c], Scratch)'
    <3>1. call[c].then = "zero" => cr3[c] \in Sharing(c, p)
      BY <2>2, CallIs DEF Sharing
    <3> QED  BY <1>1, <2>2, <2>3, <2>4, <3>1 DEF Has
  <2>7. \A d \in Cores : Scratches(d)' => Has(cr3[d], Scratch)'
    BY <1>1, <2>5, <2>6 DEF ScratchIs, Has
  <2>8. CASE call[c].then = "zero"
    <3>1. Scratches(c)'
      BY <1>5, <2>1, <2>2, <2>3, <2>8 DEF WalksOn, Scratches
    <3> QED  BY <2>7, <3>1 DEF ScratchIs
  <2>9. CASE call[c].then # "zero"
    <3>1. p # Scratch
      <4>1. call[c].then \in {"return", "leave"}
        BY <2>2, <2>9, CallIs DEF MapCall
      <4> QED  BY <2>3, <4>1, PagingAssumption DEF Requested, RangesAre
    <3>2. \A m \in pages' : m[2] = Scratch => m \in pages
      BY <2>2, <3>1
    <3> QED  BY <1>1, <2>4, <2>7, <3>2 DEF ScratchIs
  <2> QED  BY <2>8, <2>9
<1>6. CASE WalksOn(c) /\ UnmapPage(c) /\ call'[c].at = call[c].at + 1
  <2>1. PICK p : p = call[c].at
    OBVIOUS
  <2>2. /\ pages' \subseteq pages /\ call[c].do = "unmap" /\ call[c].step = "lock"
        /\ \A x \in pages : x \in pages' \/ (x[1] \in Sharing(c, p) /\ x[2] = p)
        /\ \A x \in pages' : x[2] = p => x[1] \notin Sharing(c, p)
    BY <1>6, <2>1, PagesUnmapped
  <2>3. /\ p \in Asked(c) /\ p \in Nat /\ call[c].upto \in Nat /\ p < call[c].upto
        /\ call[c].then \in {"zero", "set_foreign"} => p = Scratch /\ call[c].upto = Scratch + 1
    BY <2>1, <2>2, AtIsAsked DEF Walks
  <2>4. ~Scratches(c) /\ ~Scratches(c)'
    BY <1>6, <2>2 DEF WalksOn, Scratches, At
  <2>5. CASE call[c].then = "set_foreign"
    <3>1. \A m \in pages' : m[2] # Scratch
      <4>1. \A m \in pages' : m[1] \in spaces
        BY <2>2, PageIsIn
      <4> QED  BY <2>2, <2>3, <2>5, <4>1, PagingAssumption DEF Sharing
    <3>2. ASSUME NEW d \in Cores, Scratches(d) PROVE FALSE
      <4>1. Making(c, Inside) /\ Making(d, Inside)
        BY <2>2, <2>5, <3>2 DEF Making, Inside, Scratches, At, Walks
      <4>2. d = c
        BY <4>1 DEF PagingInv, IInv, MutexHeld
      <4> QED  BY <2>4, <3>2, <4>2
    <3> QED  BY <1>1, <2>4, <3>1, <3>2 DEF ScratchIs
  <2>6. CASE call[c].then # "set_foreign"
    <3>1. p # Scratch
      <4>1. call[c].then = "return"
        BY <2>2, <2>6, CallIs DEF UnmapCall
      <4> QED  BY <2>3, <4>1 DEF Requested, RangesAre
    <3>2. \A s : Has(s, Scratch)' <=> Has(s, Scratch)
      BY <1>6, <2>1, <3>1, HasSame
    <3>3. ~Drops(c) /\ ~Drops(c)'
      BY <1>6, <2>6 DEF WalksOn, Drops
    <3> QED  BY <1>1, <2>2, <2>4, <3>2, <3>3 DEF ScratchIs, Has
  <2> QED  BY <2>5, <2>6
<1>7. call'[c].do \notin Walks => ~WalksOn(c)
  BY DEF WalksOn
<1>8. WalksOn(c) \/ call'[c].do \notin Walks
  BY DEF Walked
<1> QED  BY <1>2, <1>3, <1>4, <1>5, <1>6, <1>7, <1>8 DEF Walked

\* What the step of a core leaves to the others.
LEMMA Others ==
  ASSUME NEW c \in Cores, Alone(c), NEW d \in Cores \ {c}
  PROVE  /\ call'[d] = call[d] /\ cr3'[d] = cr3[d] /\ making'[d] = making[d]
         /\ Asked(d)' = Asked(d) /\ (Scratches(d)' <=> Scratches(d)) /\ (Drops(d)' <=> Drops(d))
         /\ (Making(d, Later)' <=> Making(d, Later))
         /\ (Making(d, {"leave"})' <=> Making(d, {"leave"}))
BY DEF Alone, Asked, Scratches, Drops, Making, At

\* What a step does to the PML4s that are being made.
LEMMA MakersOn ==
  ASSUME Strangers, NewPages, NEW c \in Cores, Alone(c),
         \A d \in Cores \ {c} : Making(c, Later)' =>
           /\ cr3[d] # making'[c][1]
           /\ Making(d, Later) => making[d][1] # making'[c][1] /\ making[d][2] # making'[c][1],
         \A d \in Cores \ {c} : Making(d, Later) =>
           /\ cr3'[c] # making[d][1]
           /\ Making(c, Later)' => making'[c][1] # making[d][1] /\ making'[c][2] # making[d][1],
         \A d \in Cores \ {c}, m \in pages' : Making(d, Later) /\ m[1] = making[d][1] =>
           m \in pages \/ Half(m[2]) = "upper",
         Making(c, Later)' =>
           IF Making(c, {"leave"})' THEN cr3'[c] = making'[c][1]
           ELSE /\ cr3'[c] # making'[c][1]
                /\ \A m \in pages' : m[1] = making'[c][1] => Half(m[2]) = "upper"
  PROVE  Strangers' /\ NewPages'
<1>1. \A d \in Cores \ {c} : /\ cr3'[d] = cr3[d] /\ making'[d] = making[d]
                             /\ (Making(d, Later)' <=> Making(d, Later))
                             /\ (Making(d, {"leave"})' <=> Making(d, {"leave"}))
  BY Others
<1>2. Strangers'
  <2> SUFFICES ASSUME NEW d \in Cores, Making(d, Later)', NEW e \in Cores \ {d}
               PROVE  /\ cr3'[e] # making'[d][1]
                      /\ Making(e, Later)' => /\ making'[e][1] # making'[d][1]
                                              /\ making'[e][2] # making'[d][1]
    BY DEF Strangers
  <2>1. CASE d = c
    BY <1>1, <2>1
  <2>2. CASE d # c /\ e = c
    BY <1>1, <2>2
  <2>3. CASE d # c /\ e # c
    BY <1>1, <2>3 DEF Strangers
  <2> QED  BY <2>1, <2>2, <2>3
<1>3. NewPages'
  <2> SUFFICES ASSUME NEW d \in Cores, Making(d, Later)'
               PROVE  IF Making(d, {"leave"})' THEN cr3'[d] = making'[d][1]
                      ELSE /\ cr3'[d] # making'[d][1]
                           /\ \A m \in pages' : m[1] = making'[d][1] => Half(m[2]) = "upper"
    BY DEF NewPages, Half
  <2>1. CASE d # c
    BY <1>1, <2>1 DEF NewPages
  <2> QED  BY <2>1
<1> QED  BY <1>2, <1>3

\* What a step that asks for nothing does to what others ask for.
LEMMA NothingAsked ==
  ASSUME Requested, NEW c \in Cores, Alone(c), Asked(c)' = {},
         \A d \in Cores \ {c} : \A p : Has(cr3[d], p)' <=> Has(cr3[d], p)
  PROVE  Requested'
<1>1. \A d \in Cores \ {c} : Asked(d)' = Asked(d) /\ call'[d] = call[d] /\ cr3'[d] = cr3[d]
  BY Others
<1> QED  BY <1>1, RequestedOn

\* What a step that maps nothing does to the page of clone_kernel.
LEMMA ScratchOn ==
  ASSUME ScratchIs, NEW c \in Cores, Alone(c), pages' = pages,
         Scratches(c)' => Scratches(c) /\ cr3'[c] = cr3[c],
         Scratches(c) \/ Drops(c) => Scratches(c)' \/ Drops(c)'
  PROVE  ScratchIs'
<1>1. \A d \in Cores \ {c} : /\ (Scratches(d)' <=> Scratches(d)) /\ (Drops(d)' <=> Drops(d))
                             /\ cr3'[d] = cr3[d]
  BY Others
<1> QED  BY <1>1 DEF ScratchIs, Has

\* Only the core in the spinlock of clone_kernel asks for its page.
LEMMA OneScratches ==
  ASSUME NEW g, PagingInv(g), Requested, ScratchIs, NEW d \in Cores,
         Scratches(d) \/ Drops(d) \/ Scratch \in Asked(d)
  PROVE  mutex = d
<1>1. CASE Scratches(d) \/ Drops(d)
  BY <1>1 DEF PagingInv, IInv, MutexHeld, Making, Inside, Scratches, Drops, At, Walks
<1>2. CASE Scratch \in Asked(d)
  <2>1. call[d].do \in Walks
    BY <1>2 DEF Asked
  <2>2. call[d].then \in {"return", "zero", "set_foreign", "leave"}
    BY <2>1 DEF PagingInv, IInv, Types, CallType
  <2>3. call[d].then \in {"zero", "set_foreign"}
    BY <1>2, <2>2, PagingAssumption DEF Requested, RangesAre
  <2> QED  BY <2>1, <2>3 DEF PagingInv, IInv, MutexHeld, Making, Inside
<1> QED  BY <1>1, <1>2

\* A core that makes a process: what it makes is no one's.
LEMMA MadeIs ==
  ASSUME NEW g, PagingInv(g), NEW d \in Cores, Making(d, Later)
  PROVE  /\ making[d][1] \in Frames \ free /\ making[d][2] \in spaces
         /\ making[d][1] \in spaces \/ Makes(d, making[d][1])
<1>1. making[d][1] \in Frames /\ MadeOK(g, d) /\ spaces \cap free = {}
  BY DEF PagingInv, IInv, Types, CoreInv, Typed
<1>2. making[d][1] \in spaces \/ Makes(d, making[d][1])
  BY <1>1 DEF MadeOK, Makes
<1>3. making[d][1] \notin free
  BY <1>1, <1>2 DEF MadeOK
<1> QED  BY <1>1, <1>2, <1>3 DEF MadeOK

\* Where a core goes to.
LEMMA GoneTo ==
  ASSUME NEW g, PagingInv(g), NEW c \in Cores, NEW k, Goes(c, k)
  PROVE  call'[c] = k
BY DEF Goes, PagingInv, Typed

\* The steps of create_process that only write, or only go on.
LEMMA ProcessGoes ==
  ASSUME NEW g, PagingInv(g), AskedInv, NEW c \in Cores, Alone(c),
         SetForeign(c) \/ Copy(c) \/ ReleaseForeign(c)
  PROVE  AskedInv'
<1>1. /\ cr3' = cr3 /\ making' = making /\ spaces' = spaces /\ pages' = pages
      /\ call[c].do = "process" /\ call[c].step \in {"set_foreign", "copy", "release_foreign"}
  BY DEF SetForeign, Copy, ReleaseForeign, At, spaceVars
<1>2. call'[c].do = "process" /\ call'[c].step \in {"copy", "enter"}
  <2>1. CASE Copy(c)
    BY <2>1 DEF Copy, At
  <2>2. CASE SetForeign(c) \/ ReleaseForeign(c)
    BY <2>2, GoneTo DEF SetForeign, ReleaseForeign, Then
  <2> QED  BY <2>1, <2>2
<1>3. /\ Making(c, Later) /\ Making(c, Later)'
      /\ ~Making(c, {"leave"}) /\ ~Making(c, {"leave"})'
      /\ ~Scratches(c) /\ ~Drops(c) /\ ~Scratches(c)' /\ ~Drops(c)' /\ Asked(c)' = {}
  BY <1>1, <1>2 DEF Making, Later, Scratches, Drops, At, Asked, Walks
<1>4. Strangers' /\ NewPages'
  BY <1>1, <1>3, MakersOn DEF AskedInv, Strangers, NewPages
<1>5. Requested'
  <2>1. \A d \in Cores \ {c} : \A p : Has(cr3[d], p)' <=> Has(cr3[d], p)
    BY <1>1 DEF Has
  <2> QED  BY <1>3, <2>1, NothingAsked DEF AskedInv
<1>6. ScratchIs'
  BY <1>1, <1>3, ScratchOn DEF AskedInv
<1>7. UpperPages'
  BY <1>1 DEF AskedInv, UpperPages, Has, Half
<1> QED  BY <1>4, <1>5, <1>6, <1>7 DEF AskedInv

\* A new PML4 has the pages of the upper half, when all of it is copied.
LEMMA SpaceAsked ==
  ASSUME NEW g, PagingInv(g), AskedInv, NEW c \in Cores, Alone(c), Cloned(c)
  PROVE  AskedInv'
<1>1. PICK x, s : x = making[c][1] /\ s = cr3[c]
  OBVIOUS
<1>2. /\ cr3' = cr3 /\ making' = making /\ spaces' = spaces \cup {x}
      /\ pages' = pages \cup {<<x, p[2], p[3]>> :
                              p \in {q \in pages : q[1] = s /\ Half(q[2]) = "upper"}}
      /\ call[c].do = "process" /\ call[c].step = "copy"
  BY <1>1 DEF Cloned, At
<1>3. call'[c].do = "process" /\ call'[c].step = "release_foreign"
  BY GoneTo DEF Cloned, Then
<1>4. /\ Making(c, Later) /\ Making(c, Later)'
      /\ ~Making(c, {"leave"}) /\ ~Making(c, {"leave"})'
      /\ ~Scratches(c) /\ ~Drops(c) /\ ~Scratches(c)' /\ ~Drops(c)' /\ Asked(c)' = {}
  BY <1>2, <1>3 DEF Making, Later, Scratches, Drops, At, Asked, Walks
<1>5. /\ pages \subseteq pages'
      /\ \A m \in pages' : \/ m \in pages
                          \/ /\ m[1] = x /\ Half(m[2]) = "upper"
                             /\ \E q \in pages : q[2] = m[2]
      /\ \A q \in pages : q[1] = s /\ Half(q[2]) = "upper" => <<x, q[2], q[3]>> \in pages'
  BY <1>2
<1>6. Strangers' /\ NewPages'
  <2>1. \A m \in pages' : m \in pages \/ Half(m[2]) = "upper"
    BY <1>5
  <2>2. \A m \in pages' : m[1] = making[c][1] => Half(m[2]) = "upper"
    BY <1>4, <2>1 DEF AskedInv, NewPages
  <2> QED  BY <1>2, <1>4, <2>1, <2>2, MakersOn DEF AskedInv, Strangers, NewPages
<1>7. Requested'
  <2>1. \A d \in Cores \ {c} : cr3[d] # x /\ cr3'[d] = cr3[d]
    BY <1>1, <1>2, <1>4 DEF AskedInv, Strangers
  <2>2. \A d \in Cores \ {c} : \A p : Has(cr3[d], p)' <=> Has(cr3[d], p)
    BY <1>5, <2>1 DEF Has
  <2> QED  BY <1>4, <2>2, NothingAsked DEF AskedInv
<1>8. ScratchIs'
  <2>1. \A d \in Cores : (Scratches(d)' <=> Scratches(d)) /\ (Drops(d)' <=> Drops(d))
    BY <1>4, Others
  <2>2. \A m \in pages' : \E q \in pages : q[2] = m[2]
    BY <1>5
  <2> QED  BY <1>2, <1>5, <2>1, <2>2 DEF AskedInv, ScratchIs, Has
<1>9. UpperPages'
  <2> SUFFICES ASSUME NEW m \in pages', Half(m[2]) = "upper", NEW u \in spaces'
               PROVE  \E n \in pages' : n[1] = u /\ n[2] = m[2]
    BY DEF UpperPages, Has, Half
  <2>1. PICK q \in pages : q[2] = m[2]
    BY <1>5
  <2>2. \A v \in spaces : \E n \in pages : n[1] = v /\ n[2] = m[2]
    BY <2>1 DEF AskedInv, UpperPages, Has
  <2>3. CASE u \in spaces
    BY <1>5, <2>2, <2>3
  <2>4. CASE u = x
    <3>1. s \in spaces
      BY <1>1 DEF PagingInv, Typed
    <3>2. PICK n \in pages : n[1] = s /\ n[2] = m[2]
      BY <2>2, <3>1
    <3>3. <<x, n[2], n[3]>> \in pages'
      BY <1>5, <3>2
    <3> QED  BY <2>4, <3>2, <3>3
  <2> QED  BY <1>2, <2>3, <2>4
<1> QED  BY <1>6, <1>7, <1>8, <1>9 DEF AskedInv

\* clone_kernel takes a frame: the page it is mapped at is not in use.
LEMMA CloneAsked ==
  ASSUME NEW g, PagingInv(g), AskedInv, NEW c \in Cores, Alone(c), Clone(c), ~Panic
  PROVE  AskedInv'
<1>1. PICK x, s : x = Popped /\ s = cr3[c]
  OBVIOUS
<1>2. /\ cr3' = cr3 /\ spaces' = spaces /\ pages' = pages /\ mutex = Null /\ free # {}
      /\ call[c].do = "process" /\ call[c].step = "clone" /\ making'[c] = <<x, s>>
      /\ call'[c] = Mapping(Scratch, Scratch + 1, x, FALSE, Scratch + 1, "zero")
  BY <1>1, GoneTo DEF Clone, At, PagingInv, IInv, Types
<1>3. /\ call'[c].do = "map" /\ call'[c].then = "zero" /\ call'[c].at = Scratch
      /\ call'[c].upto = Scratch + 1 /\ Scratch \in Nat
  BY <1>2, PagingAssumption DEF Mapping, Pages
<1>4. /\ Making(c, Later)' /\ ~Making(c, {"leave"})' /\ ~Scratches(c)' /\ ~Scratches(c) /\ ~Drops(c)
      /\ Asked(c)' = {Scratch}
  <2>1. Asked(c)' = Scratch..(Scratch + 1 - 1)
    BY <1>3 DEF Asked, Walks
  <2>2. Scratch..(Scratch + 1 - 1) = {Scratch}
    BY <1>3
  <2>3. Scratch # Scratch + 1
    BY <1>3
  <2>4. ~Scratches(c)' /\ ~Scratches(c) /\ ~Drops(c)
    BY <1>2, <1>3, <2>3 DEF Scratches, Drops, At
  <2>5. Making(c, Later)' /\ ~Making(c, {"leave"})'
    BY <1>3 DEF Making, Later, Walks
  <2> QED  BY <2>1, <2>2, <2>4, <2>5
<1>5. /\ x \in free /\ \A u \in spaces : u # x
      /\ \A d \in Cores : cr3[d] \in spaces
  BY <1>1, <1>2, PoppedIs DEF PagingInv, Typed
<1>6. \A d \in Cores : ~Scratches(d) /\ ~Drops(d) /\ Scratch \notin Asked(d)
  BY <1>2, OneScratches, PagingAssumption DEF AskedInv
<1>7. Strangers' /\ NewPages'
  <2>1. \A d \in Cores \ {c} : Making(d, Later) => /\ making[d][1] # x /\ making[d][2] # x
                                                   /\ s # making[d][1]
    BY <1>1, <1>5, MadeIs DEF AskedInv, Strangers
  <2>2. \A m \in pages : m[1] # x
    BY <1>5, PageIsIn
  <2>3. s # x /\ \A d \in Cores : cr3[d] # x
    BY <1>1, <1>5
  <2> QED  BY <1>1, <1>2, <1>4, <2>1, <2>2, <2>3, MakersOn DEF AskedInv
<1>8. Requested'
  <2>1. ~Has(s, Scratch)
    BY <1>6 DEF AskedInv, ScratchIs, Has
  <2>2. \A p \in Asked(c)' : ~Has(cr3'[c], p)
    BY <1>1, <1>2, <1>4, <2>1
  <2>3. \A d \in Cores \ {c} : call'[d] = call[d] /\ cr3'[d] = cr3[d]
    BY Others
  <2>4. \A p \in Asked(c)' : \A d \in Cores : p \notin Asked(d)
    BY <1>4, <1>6
  <2>5. Requested /\ pages' = pages /\ call'[c].do = "map" /\ call'[c].then = "zero"
    BY <1>2, <1>3 DEF AskedInv
  <2> QED  BY ONLY c \in Cores, <2>2, <2>3, <2>4, <2>5, RequestedNew
<1>9. ScratchIs'
  BY <1>2, <1>4, ScratchOn DEF AskedInv
<1>10. UpperPages'
  BY <1>2 DEF AskedInv, UpperPages, Has, Half
<1> QED  BY <1>7, <1>8, <1>9, <1>10 DEF AskedInv

\* It unmaps it when it is cleared.
LEMMA ZeroAsked ==
  ASSUME NEW g, PagingInv(g), AskedInv, NEW c \in Cores, Alone(c), Zero(c)
  PROVE  AskedInv'
<1>1. /\ cr3' = cr3 /\ spaces' = spaces /\ pages' = pages /\ making' = making
      /\ call[c].do = "process" /\ call[c].step = "zero"
      /\ call'[c] = Unmapping(Scratch, Scratch + 1, FALSE, "set_foreign")
  BY GoneTo DEF Zero, At, spaceVars
<1>2. /\ call'[c].do = "unmap" /\ call'[c].then = "set_foreign" /\ call'[c].at = Scratch
      /\ call'[c].upto = Scratch + 1 /\ Scratch \in Nat
  BY <1>1, PagingAssumption DEF Unmapping, Pages
<1>3. /\ Making(c, Later) /\ Making(c, Later)' /\ ~Making(c, {"leave"}) /\ ~Making(c, {"leave"})'
      /\ Scratches(c) /\ ~Scratches(c)' /\ Drops(c)' /\ Asked(c)' = {Scratch} /\ Making(c, Inside)
  <2>1. Asked(c)' = Scratch..(Scratch + 1 - 1)
    BY <1>2 DEF Asked, Walks
  <2>2. Scratch..(Scratch + 1 - 1) = {Scratch}
    BY <1>2
  <2>3. Scratch < Scratch + 1
    BY <1>2
  <2>4. ~Scratches(c)' /\ Scratches(c) /\ Drops(c)'
    BY <1>1, <1>2, <2>3 DEF Scratches, Drops, At
  <2>5. /\ Making(c, Later) /\ ~Making(c, {"leave"}) /\ Making(c, Inside)
        /\ Making(c, Later)' /\ ~Making(c, {"leave"})'
    BY <1>1, <1>2 DEF Making, Later, Inside, Walks
  <2> QED  BY <2>1, <2>2, <2>4, <2>5
<1>4. Strangers' /\ NewPages'
  BY <1>1, <1>3, MakersOn DEF AskedInv, Strangers, NewPages
<1>5. Requested'
  <2>1. \A p \in Asked(c)' : Has(cr3'[c], p)
    BY <1>1, <1>3 DEF AskedInv, ScratchIs
  <2>2. \A d \in Cores \ {c} : Scratch \notin Asked(d)
    <3>1. mutex = c
      BY <1>3, OneScratches DEF AskedInv
    <3> QED  BY <3>1, OneScratches DEF AskedInv
  <2>3. \A d \in Cores \ {c} : call'[d] = call[d] /\ cr3'[d] = cr3[d]
    BY Others
  <2> QED  BY <1>1, <1>2, <1>3, <2>1, <2>2, <2>3, RequestedNew DEF AskedInv
<1>6. ScratchIs'
  BY <1>1, <1>3, ScratchOn DEF AskedInv
<1>7. UpperPages'
  BY <1>1 DEF AskedInv, UpperPages, Has, Half
<1> QED  BY <1>4, <1>5, <1>6, <1>7 DEF AskedInv

\* create_process enters the PML4 it has made, whose lower half is empty.
LEMMA EnterAsked ==
  ASSUME NEW g, PagingInv(g), AskedInv, NEW c \in Cores, Alone(c), Enter(c), ~Panic
  PROVE  AskedInv'
<1>1. PICK x, e : x = making[c][1] /\ e = Popped
  OBVIOUS
<1>2. /\ cr3'[c] = x /\ spaces' = spaces /\ pages' = pages /\ making' = making
      /\ call[c].do = "process" /\ call[c].step = "enter"
      /\ call'[c] = Mapping(Image[1], Image[1] + 1, e, TRUE, Image[2], "leave")
  BY <1>1, GoneTo DEF Enter, At, PagingInv, IInv, Types
<1>3. /\ call'[c].do = "map" /\ call'[c].then = "leave" /\ call'[c].at = Image[1]
      /\ call'[c].upto = Image[2]
  BY <1>2 DEF Mapping
<1>4. /\ Making(c, Later) /\ Making(c, Later)' /\ ~Making(c, {"leave"}) /\ Making(c, {"leave"})'
      /\ ~Scratches(c)' /\ ~Scratches(c) /\ ~Drops(c) /\ Asked(c)' = Image[1]..(Image[2] - 1)
  BY <1>2, <1>3 DEF Making, Later, Scratches, Drops, At, Asked, Walks
<1>5. Strangers' /\ NewPages'
  <2>1. \A d \in Cores \ {c} : /\ cr3[d] # x
                               /\ Making(d, Later) => making[d][1] # x /\ making[d][2] # x
    BY <1>1, <1>4 DEF AskedInv, Strangers
  <2>2. \A d \in Cores \ {c} : Making(d, Later) => making[c][2] # making[d][1]
    BY <1>4 DEF AskedInv, Strangers
  <2> QED  BY <1>1, <1>2, <1>4, <2>1, <2>2, MakersOn DEF AskedInv
<1>6. Requested'
  <2>1. \A p \in Asked(c)' : Half(p) = "lower"
    BY <1>4, PagingAssumption
  <2>2. \A p \in Asked(c)' : ~Has(x, p)
    BY <1>1, <1>4, <2>1 DEF AskedInv, NewPages, Has
  <2>3. \A d \in Cores \ {c} : call'[d] = call[d] /\ cr3'[d] = cr3[d] /\ cr3[d] # x
    BY <1>1, <1>4, Others DEF AskedInv, Strangers
  <2> QED  BY <1>2, <1>3, <2>1, <2>2, <2>3, RequestedNew DEF AskedInv
<1>7. ScratchIs'
  BY <1>2, <1>4, ScratchOn DEF AskedInv
<1>8. UpperPages'
  BY <1>2 DEF AskedInv, UpperPages, Has, Half
<1> QED  BY <1>5, <1>6, <1>7, <1>8 DEF AskedInv

\* It goes back to where it came from, or a core that is in no call to another space.
LEMMA AsidAsked ==
  ASSUME NEW g, PagingInv(g), AskedInv, NEW c \in Cores, Alone(c),
         Leave(c) \/ \E s \in spaces : SetAsid(c, s)
  PROVE  AskedInv'
<1>1. /\ spaces' = spaces /\ pages' = pages /\ ~Scratches(c) /\ ~Drops(c)
  BY DEF Leave, SetAsid, Scratches, Drops, At
<1>2. call'[c].do = "idle"
  BY GoneTo DEF Leave, SetAsid, Idle
<1>3. /\ ~Making(c, Later)' /\ ~Making(c, {"leave"})' /\ ~Scratches(c)' /\ ~Drops(c)'
      /\ Asked(c)' = {}
  BY <1>2 DEF Making, Scratches, Drops, At, Asked, Walks
<1>4. \A d \in Cores \ {c} : Making(d, Later) => cr3'[c] # making[d][1]
  <2>1. CASE Leave(c)
    <3>1. Making(c, Later) /\ cr3'[c] = making[c][2]
      BY <2>1 DEF Leave, At, Making, Later, PagingInv, IInv, Types
    <3> QED  BY <3>1 DEF AskedInv, Strangers
  <2>2. ASSUME NEW s \in spaces, SetAsid(c, s)
        PROVE  \A d \in Cores \ {c} : cr3'[c] # making[d][1]
    BY <2>2 DEF SetAsid, PagingInv, IInv, Types
  <2> QED  BY <2>1, <2>2
<1>5. Strangers' /\ NewPages'
  BY <1>1, <1>3, <1>4, MakersOn DEF AskedInv
<1>6. Requested'
  <2>1. \A d \in Cores \ {c} : \A p : Has(cr3[d], p)' <=> Has(cr3[d], p)
    BY <1>1, Others DEF Has
  <2> QED  BY <1>3, <2>1, NothingAsked DEF AskedInv
<1>7. ScratchIs'
  BY <1>1, <1>3, ScratchOn DEF AskedInv
<1>8. UpperPages'
  BY <1>1 DEF AskedInv, UpperPages, Has, Half
<1> QED  BY <1>5, <1>6, <1>7, <1>8 DEF AskedInv

\* A core that walks has a range.
LEMMA AskedTouched ==
  ASSUME NEW g, PagingInv(g), NEW d \in Cores
  PROVE  Asked(d) \subseteq Touched
<1> SUFFICES ASSUME call[d].do \in Walks PROVE Asked(d) \subseteq Touched
  BY DEF Asked
<1>1. "upto" \in DOMAIN call[d]
  <2>1. call[d] \in MapCall \/ call[d] \in UnmapCall \/ QueryCall(call[d])
    BY CallIs DEF Walks
  <2> QED  BY <2>1 DEF MapCall, UnmapCall, QueryCall, QueryFields
<1> QED  BY <1>1 DEF Asked, Touched

\* What a request asks for.
LEMMA StartIs ==
  ASSUME NEW g, PagingInv(g), NEW c \in Cores, NEW r \in Requests, Start(c, r)
  PROVE  /\ call[c].do = "idle"
         /\ IF r.do = "process" THEN call'[c].do = "process" /\ call'[c].step = "clone"
            ELSE /\ call'[c].then = "return" /\ Asked(c)' \subseteq r.at..(r.end - 1)
                 /\ call'[c].do \in Walks
                 /\ call'[c].do = "map" <=> r.do \in {"map", "device"}
<1>1. call[c].do = "idle"
  BY DEF Start
<1>2. CASE r.do \in {"map", "device"}
  <2>1. PICK end, x : Goes(c, Mapping(r.at, end, x, r.lower, r.end, "return"))
    BY <1>2 DEF Start
  <2>2. call'[c] = Mapping(r.at, end, x, r.lower, r.end, "return")
    BY <2>1, GoneTo
  <2> QED  BY <1>1, <1>2, <2>2 DEF Mapping, Asked, Walks
<1>3. CASE r.do = "unmap"
  <2>1. call'[c] = Unmapping(r.at, r.end, r.push, "return")
    BY <1>3, GoneTo DEF Start
  <2> QED  BY <1>1, <1>3, <2>1 DEF Unmapping, Asked, Walks
<1>4. CASE r.do = "query"
  <2>1. call'[c] = Querying(r.at)
    BY <1>4, GoneTo DEF Start
  <2>2. r.at \in Nat /\ r.end \in Nat /\ r.at < r.end
    BY <1>4, PagingAssumption DEF Pages
  <2>3. r.at..(r.at + 1 - 1) \subseteq r.at..(r.end - 1)
    BY <2>2
  <2>4. /\ call'[c].do = "query" /\ call'[c].then = "return" /\ call'[c].at = r.at
        /\ call'[c].upto = r.at + 1
    BY <2>1 DEF Querying
  <2>5. Asked(c)' = r.at..(r.at + 1 - 1)
    <3>1. Asked(c)' = call'[c].at..(call'[c].upto - 1)
      BY <2>4 DEF Asked, Walks
    <3>2. call'[c].upto - 1 = r.at + 1 - 1
      BY <2>2, <2>4
    <3> QED  BY <2>4, <3>1, <3>2
  <2> QED  BY <1>1, <1>4, <2>3, <2>4, <2>5 DEF Walks
<1>5. CASE r.do = "process"
  BY <1>1, <1>5, GoneTo DEF Start
<1> QED  BY <1>2, <1>3, <1>4, <1>5, PagingAssumption

\* A request respects what others have asked for.
LEMMA StartAsked ==
  ASSUME NEW g, PagingInv(g), AskedInv, NEW c \in Cores, NEW r \in Requests, Start(c, r), Alone(c)
  PROVE  AskedInv'
<1>1. /\ cr3' = cr3 /\ making' = making /\ spaces' = spaces /\ pages' = pages /\ Fits(c, r)
  BY DEF Start, spaceVars
<1>2. /\ call[c].do = "idle" /\ call'[c].do \in Walks \cup {"process"}
      /\ call'[c].do = "process" => call'[c].step = "clone"
      /\ call'[c].do \in Walks => call'[c].then = "return"
      /\ r.do = "process" => Asked(c)' = {}
  BY StartIs DEF Asked, Walks
<1>3. /\ ~Making(c, Later)' /\ ~Making(c, {"leave"})'
      /\ ~Scratches(c) /\ ~Drops(c) /\ ~Scratches(c)' /\ ~Drops(c)'
  BY <1>2 DEF Making, Later, Scratches, Drops, At, Asked, Walks
<1>4. Strangers' /\ NewPages'
  BY <1>1, <1>3, MakersOn DEF AskedInv, Strangers
<1>5. Requested'
  <2>1. ASSUME NEW p \in Asked(c)'
        PROVE  /\ call'[c].do = "map" <=> ~Has(cr3'[c], p)
               /\ p # Scratch /\ call'[c].then = "return"
               /\ \A d \in Cores : p \notin Asked(d)
    <3>1. /\ call'[c].then = "return" /\ p \in r.at..(r.end - 1) /\ r.do # "process"
          /\ call'[c].do = "map" <=> r.do \in {"map", "device"}
      BY <1>2, <2>1, StartIs
    <3>2. p # Scratch
      BY <3>1, PagingAssumption
    <3>3. p \notin Touched /\ (r.do \in {"map", "device"} <=> ~Has(cr3[c], p))
      BY <1>1, <3>1 DEF Fits, MappedHere, Has
    <3> QED  BY <1>1, <3>1, <3>2, <3>3, AskedTouched
  <2>2. \A d \in Cores \ {c} : call'[d] = call[d] /\ cr3'[d] = cr3[d]
    BY Others
  <2> QED  BY <1>1, <2>1, <2>2, RequestedNew DEF AskedInv
<1>6. ScratchIs'
  BY <1>1, <1>3, ScratchOn DEF AskedInv
<1>7. UpperPages'
  BY <1>1 DEF AskedInv, UpperPages, Has, Half
<1> QED  BY <1>4, <1>5, <1>6, <1>7 DEF AskedInv

\* Nothing that counts here changes.
LEMMA AskedSame ==
  ASSUME AskedInv, UNCHANGED <<call, cr3, making, spaces, pages>>
  PROVE  AskedInv'
<1>1. Strangers' /\ NewPages' /\ UpperPages'
  BY DEF AskedInv, Strangers, NewPages, UpperPages, Has, Making, Half
<1>2. Requested'
  BY DEF AskedInv, Requested, RightPages, RangesApart, RangesAre, Asked, Has, Half
<1>3. ScratchIs'
  BY DEF AskedInv, ScratchIs, Scratches, Drops, At, Has
<1> QED  BY <1>1, <1>2, <1>3 DEF AskedInv

\* Every step keeps to what was asked for.
LEMMA AskedNext ==
  ASSUME NEW g, PagingInv(g), AskedInv, [Next]_vars
  PROVE  AskedInv'
<1>1. ASSUME NEW c \in Cores, Step(c) PROVE AskedInv'
  <2>1. CASE Panic
    BY <2>1, AskedSame DEF Panic, spaceVars
  <2>2. CASE ~Panic /\ call[c].do \in Walks
    <3>1. Walked(c)
      BY <1>1, <2>2, WalkIs
    <3>2. Strangers /\ NewPages /\ Requested /\ ScratchIs /\ UpperPages
      BY DEF AskedInv
    <3> QED  BY <2>2, <3>1, <3>2, WalkNew, WalkRequested, WalkScratch, WalkUpper DEF AskedInv
  <2>3. CASE ~Panic /\ call[c].do \notin Walks
    <3>1. Alone(c)
      BY <1>1, <2>3, StepAlone
    <3>2. ~(Link(c) \/ Clear(c) \/ MapDescend(c) \/ UnmapDescend(c) \/ MapPage(c) \/ UnmapPage(c))
      BY <2>3 DEF Link, Clear, MapDescend, UnmapDescend, MapPage, UnmapPage, AtLevel, Walks
    <3>3. ~(QueryLock(c) \/ Query(c) \/ Return(c))
      BY <2>3 DEF QueryLock, Query, Return, AtLevel, Walks
    <3> QED  BY <1>1, <2>3, <3>1, <3>2, <3>3, CloneAsked, ZeroAsked, ProcessGoes, SpaceAsked,
                EnterAsked, AsidAsked DEF Step
  <2> QED  BY <2>1, <2>2, <2>3
<1>2. ASSUME NEW c \in Cores, NEW r \in Requests, Start(c, r) PROVE AskedInv'
  <2>1. \E k : Goes(c, k)
    BY <1>2 DEF Start
  <2>2. Alone(c)
    BY <1>2, <2>1, OthersAlone DEF Start, spaceVars
  <2> QED  BY <1>2, <2>2, StartAsked
<1>3. ASSUME NEW c \in Cores, NEW s \in spaces, SetAsid(c, s) PROVE AskedInv'
  <2>1. Alone(c)
    BY <1>3, OthersAlone DEF SetAsid
  <2> QED  BY <1>3, <2>1, AsidAsked
<1>4. CASE DropBootloaderMapping
  BY <1>4, AskedSame DEF DropBootloaderMapping
<1>5. CASE UNCHANGED vars
  BY <1>5, AskedSame DEF vars
<1> QED  BY <1>1, <1>2, <1>3, <1>4, <1>5 DEF Next

\* Nothing has been asked for at first.
LEMMA InitAsked ==
  ASSUME Init
  PROVE  AskedInv
<1>1. pages = {} /\ \A c \in Cores : call[c].do = "idle"
  BY DEF Init, Idle
<1>2. \A c \in Cores : /\ ~Making(c, Later) /\ Asked(c) = {} /\ ~Scratches(c)
  BY <1>1 DEF Making, Asked, Scratches, At, Walks
<1> QED  BY <1>1, <1>2 DEF AskedInv, Strangers, NewPages, Requested, RightPages, RangesApart,
            RangesAre, ScratchIs, UpperPages

------------------------------------------------------------------------------
(* Calls find what they ask for                                            *)

\* Every page that is present is one that map has mapped.
MappedOnly(g) ==
  \A f \in Frames, i \in Entries : Leaf(g, f, i) =>
    \E m \in pages : TableIn(entry, m[1], m[2], 1) = f /\ Index(1, m[2]) = i

\* Only unmap takes a page from what is mapped.
LEMMA PagesOnly ==
  ASSUME NEW c \in Cores, Step(c), ~Panic, ~UnmapPage(c)
  PROVE  pages \subseteq pages'
<1>1. CASE Link(c) \/ Clear(c) \/ MapDescend(c) \/ UnmapDescend(c) \/ QueryLock(c) \/ Query(c)
  BY <1>1 DEF Link, Clear, MapDescend, UnmapDescend, QueryLock, Query
<1>2. CASE Return(c) \/ Zero(c) \/ SetForeign(c) \/ Copy(c) \/ ReleaseForeign(c) \/ Leave(c)
  BY <1>2 DEF Return, PopAndMap, Zero, SetForeign, Copy, ReleaseForeign, Leave
<1>3. CASE Clone(c) \/ Enter(c) \/ MapPage(c) \/ Cloned(c)
  BY <1>3 DEF Clone, Enter, MapPage, Cloned
<1> QED  BY <1>1, <1>2, <1>3 DEF Step

\* A step that maps says so, and one that unmaps does what it says.
LEMMA StepMapsOnly ==
  ASSUME NEW g, PagingInv(g), MappedOnly(g), NEW c \in Cores, Step(c), ~Panic,
         UnmapPage(c) => ~entry'[Here(c)][Slot(c)].present, NEW h, Grown(g, h, c)
  PROVE  MappedOnly(h)'
<1> SUFFICES ASSUME NEW f \in Frames, NEW i \in Entries, Leaf(h, f, i)'
             PROVE  \E m \in pages' : TableIn(entry', m[1], m[2], 1) = f /\ Index(1, m[2]) = i
  BY DEF MappedOnly, Index
<1>1. /\ entry'[f][i].present /\ Grows(g)
      /\ Leaf(g, f, i) \/ (MapPage(c) /\ f = Here(c) /\ i = Slot(c))
  BY DEF Leaf, Grown
<1>2. \A s : \A p \in Pages : Path(g, s, p, 1) => TableIn(entry', s, p, 1) = TableIn(entry, s, p, 1)
  BY <1>1, WaysStay, Sizes, TopDigit
<1>3. CASE Leaf(g, f, i)
  <2>1. PICK m \in pages : TableIn(entry, m[1], m[2], 1) = f /\ Index(1, m[2]) = i
    BY <1>3 DEF MappedOnly
  <2>2. m \in pages'
    <3>1. CASE UnmapPage(c)
      <4>1. PICK p : p = call[c].at
        OBVIOUS
      <4>2. m \notin pages' => f = Here(c) /\ i = Slot(c)
        BY <2>1, <3>1, <4>1, PagesUnmapped
      <4> QED  BY <1>1, <3>1, <4>2
    <3> QED  BY <3>1, PagesOnly
  <2>3. TableIn(entry', m[1], m[2], 1) = f
    BY <1>2, <2>1, PageIsIn
  <2> QED  BY <2>1, <2>2, <2>3
<1>4. CASE MapPage(c) /\ f = Here(c) /\ i = Slot(c)
  <2>1. PICK s, p : s = cr3[c] /\ p = call[c].at
    OBVIOUS
  <2>2. Walker(c) /\ call[c].level = 1
    BY <1>4 DEF MapPage, AtLevel, Walker
  <2>3. p \in Pages /\ s \in spaces /\ Path(g, s, p, 1) /\ f = TableIn(entry, s, p, 1)
        /\ i = Index(1, p)
    BY <1>4, <2>1, <2>2, PageIs
  <2>4. s \in Sharing(c, p)
    BY <2>1, <2>3 DEF Sharing
  <2>5. \E m \in pages' : m[1] = s /\ m[2] = p
    BY <1>4, <2>1, <2>4, PagesMapped DEF Has
  <2> QED  BY <1>2, <2>3, <2>5
<1> QED  BY <1>1, <1>3, <1>4

\* unmap and get_physical_address find the entries of what they are asked for.
LEMMA AskedIsThere ==
  ASSUME NEW g, PagingInv(g), Requested, NEW c \in Cores, call[c].do \in {"unmap", "query"},
         call[c].step # "done"
  PROVE  EntryOf(c).present
<1>1. PICK s, p, l : s = cr3[c] /\ p = call[c].at /\ l = call[c].level
  OBVIOUS
<1>2. call[c].do \in Walks /\ call[c].do # "map" /\ l \in 1..Levels
  BY <1>1, CallIs DEF UnmapCall, QueryCall, Walks
<1>3. p \in Asked(c)
  BY <1>1, <1>2, AtIsAsked
<1>4. PICK m \in pages : m[1] = s /\ m[2] = p
  BY <1>1, <1>2, <1>3 DEF Requested, RightPages, Has
<1>5. Path(g, s, p, 1) /\ entry[TableIn(entry, s, p, 1)][Index(1, p)].present
  BY <1>4, PageIsIn
<1>6. entry[TableIn(entry, s, p, l)][Index(l, p)].present
  <2>1. CASE l = 1
    BY <1>5, <2>1
  <2>2. CASE l > 1
    BY <1>2, <1>5, <2>2 DEF Path, PathIn
  <2> QED  BY <1>2, <2>1, <2>2
<1> QED  BY <1>1, <1>6, EntryOfIs DEF Here, Slot, TableOf, IndexOf

\* map finds no page where it maps one.
LEMMA AskedIsFree ==
  ASSUME NEW g, PagingInv(g), Requested, UpperPages, MappedOnly(g), NEW c \in Cores,
         call[c].do = "map", call[c].step = "lock", call[c].level = 1
  PROVE  ~EntryOf(c).present
<1> SUFFICES ASSUME EntryOf(c).present PROVE FALSE
  OBVIOUS
<1>1. PICK s, p, t, i : s = cr3[c] /\ p = call[c].at /\ t = Here(c) /\ i = Slot(c)
  OBVIOUS
<1>2. /\ p \in Pages /\ p \in Nat /\ s \in spaces /\ Path(g, s, p, 1)
      /\ t = TableIn(entry, s, p, 1) /\ i = Index(1, p)
      /\ t \in Cleared(g) /\ t \in Frames /\ g.lv[t] = 1 /\ i \in Entries
  BY <1>1, PageIs DEF Walker
<1>3. Leaf(g, t, i)
  BY <1>1, <1>2, EntryOfIs DEF Leaf
<1>4. PICK m \in pages : TableIn(entry, m[1], m[2], 1) = t /\ Index(1, m[2]) = i
  BY <1>2, <1>3 DEF MappedOnly
<1>5. PICK u, q : u = m[1] /\ q = m[2]
  OBVIOUS
<1>6. /\ PathIn(entry, Cleared(g), g, u, q, 1) /\ PathIn(entry, Cleared(g), g, s, p, 1)
      /\ TableIn(entry, u, q, 1) = TableIn(entry, s, p, 1) /\ Index(1, q) = Index(1, p)
      /\ q \in Nat /\ p \in Nat /\ u \in spaces
  BY <1>2, <1>4, <1>5, PageIsIn, TopDigit DEF Path
<1>7. q = p /\ Owner(u, q) = Owner(s, p)
  BY ONLY <1>6, SamePage
<1>8. Has(s, p)
  <2>1. CASE Half(p) = "upper"
    BY <1>2, <1>5, <1>7, <2>1 DEF UpperPages
  <2>2. CASE Half(p) # "upper"
    BY <1>5, <1>7, <2>2 DEF Owner, Has
  <2> QED  BY <2>1, <2>2
<1>9. p \in Asked(c)
  BY <1>1, AtIsAsked DEF Walks
<1> QED  BY <1>1, <1>8, <1>9 DEF Requested, RightPages

\* So what is left to panic about is that no frame is free.
LEMMA PanicsFull ==
  ASSUME NEW g, PagingInv(g), AskedInv, MappedOnly(g), NEW c \in Cores, Step(c), fault' # fault
  PROVE  free' = {}
<1>1. CASE Link(c) \/ Return(c) \/ Clone(c) \/ Enter(c)
  BY <1>1 DEF Link, Return, PopAndMap, Clone, Enter, Panic
<1>2. ~(Clear(c) \/ MapDescend(c) \/ QueryLock(c) \/ Zero(c) \/ SetForeign(c) \/ Copy(c))
  BY DEF Clear, MapDescend, QueryLock, Zero, SetForeign, Copy
<1>3. ~(Cloned(c) \/ ReleaseForeign(c) \/ Leave(c))
  BY DEF Cloned, ReleaseForeign, Leave
<1>4. Requested /\ UpperPages
  BY DEF AskedInv
<1>5. ~MapPage(c)
  <2> SUFFICES ASSUME MapPage(c) PROVE FALSE
    OBVIOUS
  <2>1. call[c].do = "map" /\ call[c].step = "lock" /\ call[c].level = 1 /\ EntryOf(c).present
    BY DEF MapPage, AtLevel
  <2> QED  BY <1>4, <2>1, AskedIsFree
<1>6. ~(UnmapDescend(c) \/ UnmapPage(c) \/ Query(c))
  <2> SUFFICES ASSUME UnmapDescend(c) \/ UnmapPage(c) \/ Query(c) PROVE FALSE
    OBVIOUS
  <2>1. /\ call[c].do \in {"unmap", "query"} /\ call[c].step # "done" /\ ~EntryOf(c).present
    BY DEF UnmapDescend, UnmapPage, Query, AtLevel
  <2> QED  BY <1>4, <2>1, AskedIsThere
<1> QED  BY <1>1, <1>2, <1>3, <1>5, <1>6 DEF Step

------------------------------------------------------------------------------
(* All of it                                                               *)

FullInv(g) == UserInv(g) /\ AskedInv /\ MappedOnly(g) /\ OnlyFullPanics

\* Every operation of a core keeps it.
LEMMA FullStep ==
  ASSUME NEW g, FullInv(g), NEW c \in Cores, Step(c), fault = "none", IInv', UserOK', AskedInv'
  PROVE  \E h : FullInv(h)'
<1>1. PagingInv(g) /\ UserOK /\ LowOK(g) /\ UserInv(g) /\ AskedInv /\ MappedOnly(g)
  BY DEF FullInv, UserInv
<1>2. PICK h : UserInv(h)' /\ IF Panic THEN h = g ELSE Grown(g, h, c)
  BY <1>1, UserStep
<1>3. MappedOnly(h)'
  <2>1. CASE Panic
    <3>1. UNCHANGED <<entry, spaces, call, cr3>> /\ pages' = pages /\ h = g
      BY <1>2, <2>1 DEF Panic, spaceVars
    <3> QED  BY <1>1, <3>1, LowSame DEF MappedOnly
  <2>2. CASE ~Panic
    <3>1. UnmapPage(c) => ~entry'[Here(c)][Slot(c)].present
      BY <1>1, <2>2, LowPage
    <3> QED  BY <1>1, <1>2, <2>2, <3>1, StepMapsOnly
  <2> QED  BY <2>1, <2>2
<1>4. OnlyFullPanics'
  BY <1>1, PanicsFull DEF OnlyFullPanics
<1> QED  BY <1>2, <1>3, <1>4 DEF FullInv

\* Every step does.
LEMMA FullNext ==
  ASSUME NEW g, FullInv(g), [Next]_vars
  PROVE  \E h : FullInv(h)'
<1>1. PagingInv(g) /\ UserOK /\ LowOK(g) /\ AskedInv /\ MappedOnly(g) /\ OnlyFullPanics
  BY DEF FullInv, UserInv
<1>2. UserOK' /\ AskedInv'
  BY <1>1, UserKeeps, AskedNext
<1>3. IInv'
  <2>1. IInv /\ FreeIsMemory
    BY <1>1 DEF PagingInv, Typed, FreeIsMemory
  <2> QED  BY <2>1, NextInv
<1>4. CASE UNCHANGED vars
  <2>1. PagingInv(g)'
    <3>1. fault' \in {"none", "panic"}
      BY <1>1, <1>4 DEF vars, PagingInv, Typed
    <3> QED  BY <1>1, <1>3, <1>4, <3>1, Unchanged DEF vars
  <2>2. UNCHANGED <<entry, spaces, call, cr3>> /\ pages' = pages
    BY <1>4 DEF vars
  <2>3. LowOK(g)' /\ MappedOnly(g)'
    BY <1>1, <2>2, LowSame DEF MappedOnly
  <2>4. OnlyFullPanics'
    BY <1>1, <1>4 DEF OnlyFullPanics, vars
  <2> QED  BY <1>2, <2>1, <2>3, <2>4 DEF FullInv, UserInv
<1>5. CASE DropBootloaderMapping /\ fault = "none"
  <2>1. PICK h : /\ PagingInv(h)' /\ h.own = g.own
                 /\ \A f \in Frames : h.lv[f] \in {0, g.lv[f]}
    BY <1>1, <1>3, <1>5, DropKeeps
  <2>2. LowOK(h)' /\ \A f \in Frames, i \in Entries : Leaf(h, f, i)' => Leaf(g, f, i)
    BY <1>1, <1>5, <2>1, LowDrop
  <2>3. pages = {} /\ fault' = "none"
    BY <1>1, <1>5 DEF DropBootloaderMapping, PagingInv, BootInv
  <2>4. MappedOnly(h)'
    BY <1>1, <2>2, <2>3 DEF MappedOnly
  <2> QED  BY <1>2, <2>1, <2>2, <2>3, <2>4 DEF FullInv, UserInv, OnlyFullPanics
<1>6. ASSUME NEW c \in Cores, Step(c), fault = "none" PROVE \E h : FullInv(h)'
  BY <1>2, <1>3, <1>6, FullStep
<1>7. ASSUME NEW c \in Cores, fault = "none", \/ \E r \in Requests : Start(c, r)
                                              \/ \E s \in spaces : SetAsid(c, s)
      PROVE  FullInv(g)'
  <2>1. PagingInv(g)'
    BY <1>1, <1>3, <1>7, StartKeeps, AsidKeeps
  <2>2. /\ entry' = entry /\ spaces' = spaces /\ ~Clearing(c) /\ pages' = pages
        /\ (\E k : Goes(c, k)) \/ call' = call
        /\ (\E s : cr3' = [cr3 EXCEPT ![c] = s]) \/ cr3' = cr3
        /\ making' = making /\ fault' = "none" /\ call[c].do = "idle"
    BY <1>7 DEF Start, SetAsid, spaceVars, Clearing
  <2>3. Alone(c)
    BY <1>1, <2>2, OthersAlone
  <2>4. LowOK(g)' /\ Grown(g, g, c)
    BY <1>1, <2>2, <2>3, LowNone
  <2>5. \A f \in Frames, i \in Entries : Leaf(g, f, i)' => Leaf(g, f, i)
    BY <2>2, <2>4 DEF Leaf, Grown, MapPage, AtLevel
  <2>6. MappedOnly(g)'
    BY <1>1, <2>2, <2>5 DEF MappedOnly
  <2> QED  BY <1>2, <2>1, <2>2, <2>4, <2>6 DEF FullInv, UserInv, OnlyFullPanics
<1> QED  BY <1>4, <1>5, <1>6, <1>7 DEF Next

\* The booter's tables are the kernel's.
LEMMA InitFull ==
  ASSUME NEW level, NEW base, NEW owner, BootTree(level, base, owner), Init
  PROVE  \E g : FullInv(g)
<1>1. PICK g : PagingInv(g) /\ g.own = owner /\ \A f \in Frames, i \in Entries : ~Leaf(g, f, i)
  BY InitTree
<1>2. UserOK
  <2>1. \A c \in Cores : call[c].do = "idle" /\ making[c][1] = Null
    BY DEF Init, Idle
  <2>2. pages = {} /\ Null # BootRoot
    <3>1. BootRoot \in Frames
      BY PagingAssumption
    <3>2. 0 \notin 1..NFrames
      OBVIOUS
    <3> QED  BY <3>1, <3>2 DEF Init, Null, Frames
  <2> QED  BY <2>1, <2>2 DEF UserOK, MapsOK, NewOK, LowPages
<1>3. \A f \in Frames, i \in Entries : ~Low(g, f, i)
  BY <1>1 DEF Low, Init, BootTree
<1>4. LowOK(g)
  BY <1>3 DEF LowOK, Cleared
<1>5. AskedInv /\ MappedOnly(g) /\ OnlyFullPanics
  BY <1>1, InitAsked DEF MappedOnly, OnlyFullPanics, Init
<1> QED  BY <1>1, <1>2, <1>4, <1>5 DEF FullInv, UserInv

\* What is mapped is found at every level, and the user's where it must be.
LEMMA Stand ==
  ASSUME NEW g, UserInv(g)
  PROVE  MappingsStand
<1>1. PagingInv(g) /\ UserOK /\ LowOK(g)
  BY DEF UserInv
<1> SUFFICES ASSUME NEW m \in pages, NEW l \in 1..Levels,
                    NEW s, s = m[1], NEW p, p = m[2], NEW x, x = m[3]
             PROVE  LET e == entry[TableIn(entry, s, p, l)][Index(l, p)] IN
                    /\ e.present /\ (l = 1 => e.frame = x)
                    /\ Half(p) = "lower" => e.user /\ e.write
  BY TableIs DEF MappingsStand
<1>2. /\ s \in spaces /\ p \in Pages /\ p \in Nat /\ Path(g, s, p, 1)
      /\ entry[TableIn(entry, s, p, 1)][Index(1, p)].present
      /\ entry[TableIn(entry, s, p, 1)][Index(1, p)].frame = x
  <2>1. m = <<s, p, x>>
    BY <1>1 DEF PagingInv, PagesAre
  <2>2. <<s, p, x>> \in pages
    BY <2>1
  <2>3. p \in Pages
    BY <1>1, <2>2 DEF PagingInv, PageInv
  <2> QED  BY <1>1, <2>2, <2>3, TopDigit DEF PagingInv, PageInv
<1>3. PICK t, i : t = TableIn(entry, s, p, l) /\ i = Index(l, p)
  OBVIOUS
<1>4. /\ t \in Cleared(g) /\ t \in Frames /\ i \in Entries /\ g.lv[t] = l
      /\ l < Levels => g.own[t] = Owner(s, p)
      /\ l > 1 => entry[t][i].present
  <2>1. i \in Entries
    BY <1>2, <1>3, Digits
  <2> QED  BY <1>2, <1>3, <2>1 DEF Path, PathIn, Cleared
<1>5. entry[t][i].present /\ (l = 1 => entry[t][i].frame = x)
  BY <1>2, <1>3, <1>4
<1>6. ASSUME Half(p) = "lower" PROVE entry[t][i].user /\ entry[t][i].write
  <2>1. s # BootRoot /\ s \in Frames /\ s # Null
    <3>1. s # BootRoot
      BY <1>1, <1>6 DEF UserOK, LowPages
    <3> QED  BY <1>1, <1>2, <3>1, SpaceIs DEF Null, Frames
  <2>2. Low(g, t, i)
    <3>1. CASE l = Levels
      <4>1. t = s
        BY <1>3, <3>1, TableTop
      <4> QED  BY <1>2, <1>3, <1>6, <2>1, <3>1, <4>1 DEF Low, Half
    <3>2. CASE l # Levels
      <4>1. l < Levels /\ t \notin spaces
        BY <1>1, <1>4, <3>2, Sizes DEF PagingInv, TreeInv, SpacesAreTop
      <4> QED  BY <1>4, <1>6, <2>1, <4>1 DEF Low, Owner
    <3> QED  BY <3>1, <3>2
  <2>3. l = 1 \/ entry[t][i].frame \in Cleared(g)
    <3> SUFFICES ASSUME l # 1 PROVE entry[t][i].frame \in Cleared(g)
      OBVIOUS
    <3>1. l - 1 \in 1..(Levels - 1) /\ (l - 1) + 1 = l /\ l - 1 \in 1..Levels
      BY Sizes
    <3>2. TableIn(entry, s, p, l - 1) = entry[t][i].frame
      BY <1>3, <3>1, TableBelow
    <3> QED  BY <1>2, <3>1, <3>2 DEF Path, PathIn
  <2> QED  BY <1>1, <1>4, <1>5, <2>2, <2>3 DEF LowOK
<1> QED  BY <1>3, <1>5, <1>6

\* The page tables, the walks and what was asked for fit together for good.
LEMMA Full ==
  ASSUME NEW CONSTANT level, NEW CONSTANT base, NEW CONSTANT owner, BootTree(level, base, owner)
  PROVE  Spec => [](\E g : FullInv(g))
<1>1. Init => \E g : FullInv(g)
  BY InitFull
<1>2. (\E g : FullInv(g)) /\ [Next]_vars => (\E g : FullInv(g))'
  <2>1. ASSUME NEW g, FullInv(g), [Next]_vars PROVE \E h : FullInv(h)'
    BY <2>1, FullNext
  <2> QED  BY <2>1
<1> QED  BY <1>1, <1>2, PTL DEF Spec

\* x64::map and x64::unmap (x64paging.cpp): what map has mapped is found, in every space that
\* shares the page, until unmap, and a page of the lower half is the user's at every level.
THEOREM MappingsKept ==
  ASSUME NEW CONSTANT level, NEW CONSTANT base, NEW CONSTANT owner, BootTree(level, base, owner)
  PROVE  Spec => []MappingsStand
<1>1. (\E g : FullInv(g)) => MappingsStand
  BY Stand DEF FullInv
<1> QED  BY <1>1, Full, PTL

\* And nobody who keeps to pages that nobody else is asked for meets one in the wrong state: map
\* never finds a page that is there, unmap and get_physical_address never miss one, the page of
\* clone_kernel and the tables that cores build at the same time included. The PANIC macros of
\* the walks are never reached; what is left is that memory::pmm has no frame.
THEOREM TranslatedHolds ==
  ASSUME NEW CONSTANT level, NEW CONSTANT base, NEW CONSTANT owner, BootTree(level, base, owner)
  PROVE  Spec => []Translated
<1>1. (\E g : FullInv(g)) => Translated
  BY Stand DEF FullInv, Translated
<1> QED  BY <1>1, Full, PTL

------------------------------------------------------------------------------
(* What follows                                                            *)

\* physical memory (pmm.cpp): what is given back is memory: never the null address.
THEOREM OnlyMemoryIsFree ==
  ASSUME NEW CONSTANT level, NEW CONSTANT base, NEW CONSTANT owner, BootTree(level, base, owner)
  PROVE  Spec => []FreeIsMemory
<1>1. (\E g : PagingInv(g)) => FreeIsMemory
  BY DEF PagingInv, Typed, FreeIsMemory
<1> QED  BY <1>1, InOrder, PTL

\* The slot of every space has the core that put its PML4 there, and no other.
THEOREM Invariance ==
  ASSUME NEW CONSTANT level, NEW CONSTANT base, NEW CONSTANT owner, BootTree(level, base, owner)
  PROVE  Spec => []IInv
  BY InitInv, NextInv, OnlyMemoryIsFree, PTL DEF Spec

\* set_foreign and clone_kernel (x64paging.cpp): between set_foreign and release_foreign the
\* slot of a core's space holds the PML4 that core makes, although the spinlock of
\* clone_kernel is released in between and other cores run in the same space.
THEOREM ForeignHolds ==
  ASSUME NEW CONSTANT level, NEW CONSTANT base, NEW CONSTANT owner, BootTree(level, base, owner)
  PROVE  Spec => []ForeignIsMine
<1>1. IInv => ForeignIsMine
  BY DEF IInv, SlotIsMine, ForeignIsMine, Holds, Held, At
<1> QED  BY <1>1, Invariance, PTL

\* clone_kernel's spinlock: no two cores clear, enter or copy a new PML4 at the same time.
THEOREM ClonesExclude ==
  ASSUME NEW CONSTANT level, NEW CONSTANT base, NEW CONSTANT owner, BootTree(level, base, owner)
  PROVE  Spec => [](\A c, d \in Cores : Making(c, Inside) /\ Making(d, Inside) => c = d)
<1>1. IInv => \A c, d \in Cores : Making(c, Inside) /\ Making(d, Inside) => c = d
  BY DEF IInv, MutexHeld
<1> QED  BY <1>1, Invariance, PTL
==============================================================================
