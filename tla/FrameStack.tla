------------------------------ MODULE FrameStack ------------------------------
(***************************************************************************)
(* The physical memory manager (src/kernel/memory/stack.cpp, pmm.cpp):     *)
(* free frames are kept in stacks, lists of one-page chunks.  The global   *)
(* stack is filled from the memory map at boot; then every core takes a    *)
(* share of its chunks into a stack of its own, allocates and frees there, *)
(* gives chunks back when it holds more than its balance and fetches       *)
(* chunks when it holds nothing.                                           *)
(*                                                                         *)
(* An operation is atomic here: each stack is used by its own core, and    *)
(* what cores do to the global stack at the same time is not in this       *)
(* module.  An operation that leaves the behaviour C++ defines (a null     *)
(* chunk, an index out of a chunk's array), never ends or panics is the    *)
(* last one; "fault" says how it failed.                                   *)
(***************************************************************************)
EXTENDS Integers, Sequences, FiniteSets

SeqX == INSTANCE SequencesExt

CONSTANTS NFrames,         \* frames a memory map may list: 1..NFrames, in map order
          MapSizes,        \* how many of them it may list
          NBoot,           \* frames of the kernel image for early page tables (8)
          Cores, BootCore,
          Max,             \* frame_stack_chunk::max (506)
          Spare,           \* room left in a chunk when the next is chained (100)
          Trim,            \* room left in a chunk when the next is looked at (50)
          BorrowSurplus,   \* chunks' worth a core must hold to be asked (128)
          BorrowBatch,     \* chunks it gives (16)
          RefillBatch,     \* chunks fetched from the global stack (8)
          Word,            \* the range of the size counters (2^64)
          Global,          \* the name of the global stack
          MaxOps           \* bound: allocations and frees

Frames == 1..NFrames
AllFrames == 1..(NFrames + NBoot)    \* the last NBoot are the boot frames
Null == 0
Stacks == Cores \cup {Global}
Running == "running"                 \* no fault
Faults == {"null", "underflow", "overflow", "self-deadlock", "assertion",
           "panic: out of memory", "panic: chunk of an empty stack"}

ASSUME StackAssumption == /\ NFrames \in Nat /\ MapSizes \subseteq 0..NFrames
                          /\ NBoot \in Nat /\ MaxOps \in Nat
                          /\ BootCore \in Cores /\ IsFiniteSet(Cores) /\ Global \notin Cores
                          /\ Max \in Nat /\ Spare \in 1..Max /\ Trim \in 1..Spare
                          /\ BorrowSurplus \in Nat /\ BorrowBatch \in Nat /\ RefillBatch \in Nat
                          /\ Word \in Nat /\ Word > Max * (NFrames + NBoot)

VARIABLES
  chunk,    \* chunk[f]: prev, next and stack[0..size-1] of the chunk stored in frame f
  list,     \* list[s]: _first, _last, _size and _balance of stack s
  storage,  \* the frames that store chunks
  boot,     \* _boot_frames_available
  out,      \* the frames handed out and not given back
  fault,
  phase,    \* "construct": the global stack; "boot"; "ready": processor::smp::ready()
  fed,      \* how many frames of the memory map the constructor has pushed
  amount,   \* _amount
  joined,   \* the cores that have run pmm::ap_initialize
  ops

heap == [chunk |-> chunk, list |-> list, storage |-> storage, boot |-> boot,
         out |-> out, fault |-> fault]
vars == <<chunk, list, storage, boot, out, fault, phase, fed, amount, joined, ops>>

\* The operations are functions from heap to heap.
Becomes(h) == /\ chunk' = h.chunk /\ list' = h.list /\ storage' = h.storage
              /\ boot' = h.boot /\ out' = h.out /\ fault' = h.fault

NewChunk(prev) == [prev |-> prev, next |-> Null, stack |-> <<>>]

Init == /\ chunk = [f \in AllFrames |-> NewChunk(Null)]
        /\ list = [s \in Stacks |-> [first |-> Null, last |-> Null, size |-> 0, balance |-> 0]]
        /\ storage = {} /\ boot = NBoot /\ out = {} /\ fault = Running
        /\ phase = "construct" /\ fed = 0 /\ amount = 0 /\ joined = {} /\ ops = 0

Failed(h, f) == [h EXCEPT !.fault = f]
First(h, s) == h.list[s].first
Last(h, s) == h.list[s].last
SizeOf(h, s) == h.list[s].size
CountOf(h, c) == Len(h.chunk[c].stack)

------------------------------------------------------------------------------
(* Chunks between stacks                                                   *)

PopChunk(h, s) ==
  LET c == First(h, s)
      n == h.chunk[c].next
      unlinked == IF n = Null THEN h ELSE [h EXCEPT !.chunk[n].prev = Null]
  IN IF c = Last(h, s) THEN Failed(h, "panic: chunk of an empty stack")
     ELSE IF c = Null THEN Failed(h, "null")
     ELSE [unlinked EXCEPT !.list[s].first = n, !.list[s].size = (@ - CountOf(h, c)) % Word]

PushChunk(h, s, c) ==
  LET f == First(h, s)
      l == Last(h, s)
      linked == IF CountOf(h, c) = Max
                THEN [h EXCEPT !.chunk[c].prev = Null, !.chunk[c].next = f,
                               !.chunk[f].prev = c, !.list[s].first = c]
                ELSE [h EXCEPT !.chunk[c].prev = l, !.chunk[c].next = h.chunk[l].next,
                               !.chunk[l].next = c, !.list[s].last = c]
  IN IF f = Null
     THEN [h EXCEPT !.list[s].first = c, !.list[s].last = c, !.list[s].size = CountOf(h, c)]
     ELSE [linked EXCEPT !.list[s].size = (@ + CountOf(h, c)) % Word]

MoveChunk(h, from, to) ==
  LET popped == PopChunk(h, from) IN
  IF popped.fault = Running THEN PushChunk(popped, to, First(h, from)) ELSE popped

\* for (i = 0; i < n && from.size() > floor; ++i) to.push_chunk(from.pop_chunk())
MoveNext(h, from, to, floor) ==
  IF h.fault = Running /\ SizeOf(h, from) > floor THEN MoveChunk(h, from, to) ELSE h

MoveChunks(h0, from, to, n, floor) ==
  LET h[k \in 0..n] == IF k = 0 THEN h0 ELSE MoveNext(h[k - 1], from, to, floor)
  IN h[n]

------------------------------------------------------------------------------
(* Frames                                                                  *)

\* parallel_execute(others): each of them gives chunks while it holds a surplus.  They
\* run side by side; the model takes them in some order.
Borrow(h0, s) ==
  LET others == SeqX!SetToSeq(Cores \ {s})
      h[k \in 0..Len(others)] ==
        IF k = 0 THEN h0
        ELSE MoveChunks(h[k - 1], others[k], Global, BorrowBatch, Max * BorrowSurplus)
  IN IF SizeOf(h0, Global) <= Max THEN h[Len(others)] ELSE h0

\* Chunks are fetched from the global stack.  A caller that is inside the stack's _lock
\* waits for itself in push_chunk.
Refill(h, s, locked) ==
  IF locked /\ h.fault = Running /\ RefillBatch > 0 /\ SizeOf(h, Global) > Max
  THEN Failed(h, "self-deadlock")
  ELSE MoveChunks(h, Global, s, RefillBatch, Max)

\* stack[--size] of the last chunk is handed out.
PopTop(h, s) ==
  LET l == Last(h, s)
      n == CountOf(h, l) - 1
  IN IF l = Null THEN Failed(h, "null")
     ELSE IF n < 0 THEN Failed(h, "underflow")
     ELSE IF n = Max - Trim /\ l # First(h, s) /\ h.chunk[l].next = Null THEN Failed(h, "null")
     ELSE [h EXCEPT !.chunk[l].stack = SubSeq(@, 1, n), !.list[s].size = (@ - 1) % Word,
                    !.out = @ \cup {h.chunk[l].stack[n + 1]}]

Pop(h, s, locked) ==
  LET filled == IF SizeOf(h, s) # 0 THEN h
                ELSE IF s = Global THEN Failed(h, "panic: out of memory")
                ELSE Refill(Borrow(h, s), s, locked)
  IN IF filled.fault = Running THEN PopTop(filled, s) ELSE filled

\* memory::pmm::pop: the boot frames first, then the stack in use.
PmmPop(h, s, locked) ==
  IF h.boot > 0
  THEN [h EXCEPT !.boot = @ - 1, !.out = @ \cup {NFrames + 1 + NBoot - h.boot}]
  ELSE Pop(h, s, locked)

\* allocate_chained: the frame is mapped as a chunk, which may take a frame for a page
\* table.  While the constructor of the global stack runs, utils::lazy refuses to pop.
Chain(h, s, frame, prev, table) ==
  LET mapped == IF ~table THEN h
                ELSE IF phase = "construct" /\ h.boot = 0 THEN Failed(h, "assertion")
                ELSE PmmPop(h, s, TRUE)
  IN [mapped EXCEPT !.chunk[frame] = NewChunk(prev), !.storage = @ \cup {frame}]

\* Faults: a frame that becomes a chunk is pushed as well; a chunk is chained again when
\* the last one has been popped back to the mark.
PushBoth(h, s, frame, table) ==
  LET l == Last(h, s)
      h1 == IF First(h, s) = Null
            THEN [Chain(h, s, frame, Null, table) EXCEPT !.list[s].first = frame,
                                                         !.list[s].last = frame]
            ELSE IF CountOf(h, l) = Max - Spare /\ h.chunk[l].next = Null
            THEN [Chain(h, s, frame, l, table) EXCEPT !.chunk[l].next = frame] ELSE h
      t == IF CountOf(h1, Last(h1, s)) = Max THEN h1.chunk[Last(h1, s)].next ELSE Last(h1, s)
  IN IF t = Null \/ CountOf(h1, t) = Max THEN Failed(h1, "overflow")
     ELSE [h1 EXCEPT !.chunk[t].stack = Append(@, frame),
                     !.list[s].last = t, !.list[s].size = @ + 1]

PushRechained(h, s, frame, table) ==
  LET l == Last(h, s)
      t == IF CountOf(h, l) = Max THEN h.chunk[l].next ELSE l
  IN CASE First(h, s) = Null -> [Chain(h, s, frame, Null, table) EXCEPT
                                   !.list[s].first = frame, !.list[s].last = frame]
       [] First(h, s) # Null /\ CountOf(h, l) = Max - Spare ->
            [Chain(h, s, frame, l, table) EXCEPT !.chunk[l].next = frame]
       [] OTHER -> IF t = Null \/ CountOf(h, t) = Max THEN Failed(h, "overflow")
                   ELSE [h EXCEPT !.chunk[t].stack = Append(@, frame),
                                  !.list[s].last = t, !.list[s].size = @ + 1]

\* frame_stack::push: the frame becomes the first or the next chunk, or is stored.
Push(h, s, frame, table) ==
  LET l == Last(h, s)
      t == IF CountOf(h, l) = Max THEN h.chunk[l].next ELSE l
      stored == [h EXCEPT !.chunk[t].stack = Append(@, frame),
                          !.list[s].last = t, !.list[s].size = (@ + 1) % Word]
  IN IF First(h, s) = Null
     THEN [Chain(h, s, frame, Null, table) EXCEPT !.list[s].first = frame,
                                                  !.list[s].last = frame]
     ELSE IF CountOf(h, l) = Max - Spare /\ h.chunk[l].next = Null
     THEN [Chain(h, s, frame, l, table) EXCEPT !.chunk[l].next = frame]
     ELSE IF t = Null THEN Failed(h, "null")
     ELSE IF CountOf(h, t) = Max THEN Failed(h, "overflow")
     ELSE IF s # Global /\ SizeOf(stored, s) > stored.list[s].balance
     THEN MoveChunk(stored, s, Global)
     ELSE stored

------------------------------------------------------------------------------
(* Boot                                                                    *)

\* One round of the constructor's loop.
Construct == /\ phase = "construct" /\ fed < NFrames
             /\ fed' = fed + 1
             /\ \E table \in BOOLEAN : Becomes(Push(heap, Global, fed + 1, table))
             /\ UNCHANGED <<phase, amount, joined, ops>>

Constructed == /\ phase = "construct" /\ fed \in MapSizes
               /\ phase' = "boot"
               /\ UNCHANGED <<chunk, list, storage, boot, out, fault, fed, amount, joined, ops>>

\* smp::boot ends, the boot core joins at once.
Ready == /\ phase = "boot"
         /\ phase' = "ready"
         /\ UNCHANGED <<chunk, list, storage, boot, out, fault, fed, amount, joined, ops>>

\* memory::pmm::ap_initialize: a core takes its share of the chunks.
ApInitialize(c) ==
  LET share == IF amount = 0 THEN SizeOf(heap, Global) \div (2 * Cardinality(Cores) * Max)
               ELSE amount
      balanced == [heap EXCEPT !.list[c].balance = ((share * 3) \div 2) * Max]
  IN /\ phase = "ready" /\ c \notin joined
     /\ c = BootCore \/ BootCore \in joined
     /\ amount' = share
     /\ joined' = joined \cup {c}
     /\ Becomes(MoveChunks(balanced, Global, c, share, -1))
     /\ UNCHANGED <<phase, fed, ops>>

------------------------------------------------------------------------------
(* The interface: memory::pmm::pop and push                                *)

InUse(s) == \/ phase = "boot" /\ s = Global
            \/ phase = "ready" /\ s \in joined

Allocate(s) == /\ InUse(s) /\ ops < MaxOps
               /\ Becomes(PmmPop(heap, s, FALSE))
               /\ ops' = ops + 1
               /\ UNCHANGED <<phase, fed, amount, joined>>

Free(s, f) == /\ InUse(s) /\ ops < MaxOps
              /\ f \in out
              /\ \E table \in BOOLEAN :
                   Becomes(Push([heap EXCEPT !.out = @ \ {f}], s, f, table))
              /\ ops' = ops + 1
              /\ UNCHANGED <<phase, fed, amount, joined>>

Next == /\ fault = Running
        /\ \/ Construct \/ Constructed \/ Ready
           \/ \E c \in Cores : ApInitialize(c)
           \/ \E s \in Stacks : Allocate(s) \/ \E f \in AllFrames : Free(s, f)

Spec == Init /\ [][Next]_vars

------------------------------------------------------------------------------
(* Properties                                                              *)

Counters == 0..(Word - 1)
\* Type invariant: links name frames, counters stay in range, no chunk is overfull.
TypeOK == /\ chunk \in [AllFrames -> [prev : {Null} \cup AllFrames, next : {Null} \cup AllFrames,
                                      stack : Seq(AllFrames)]]
          /\ \A f \in AllFrames : CountOf(heap, f) <= Max
          /\ list \in [Stacks -> [first : {Null} \cup AllFrames, last : {Null} \cup AllFrames,
                                  size : Counters, balance : Nat]]
          /\ storage \subseteq AllFrames /\ out \subseteq AllFrames /\ boot \in 0..NBoot
          /\ fault \in {Running} \cup Faults
          /\ phase \in {"construct", "boot", "ready"}
          /\ fed \in 0..NFrames /\ amount \in Nat /\ joined \subseteq Cores /\ ops \in 0..MaxOps

\* The places of a frame in the chunks.
Places(f) == {x \in storage \X (1..Max) : /\ x[2] <= CountOf(heap, x[1])
                                          /\ chunk[x[1]].stack[x[2]] = f}
IsFree(f) == Places(f) # {}

\* Every frame is in one place: not seen yet, handed out, storing a chunk, or free in
\* one entry of one chunk.  No frame is handed out twice, none is lost.
Unseen == (fed + 1)..NFrames \cup (NFrames + NBoot - boot + 1)..(NFrames + NBoot)
FreeFrames == {f \in AllFrames : IsFree(f)}
Conserved ==
  fault = Running =>
    LET places == <<Unseen, out, storage, FreeFrames>> IN
    /\ UNION {places[i] : i \in 1..4} = AllFrames
    /\ \A i, j \in 1..4 : i # j => places[i] \cap places[j] = {}
    /\ \A f \in FreeFrames : Cardinality(Places(f)) = 1

\* The k-th chunk of a stack, counted from 0 along next.
At(s) == LET at[k \in Nat] == IF k = 0 THEN list[s].first
                              ELSE IF at[k - 1] = Null THEN Null ELSE chunk[at[k - 1]].next
         IN at

\* Until the cores share it, the global stack is one list of all chunks: full ones, the
\* last in use, at most one empty; its size counts the frames in them.
GlobalAccounted ==
  /\ TypeOK
  /\ fault = Running /\ joined = {} /\ storage # {} =>
    LET n == Cardinality(storage)
        at == [k \in 0..n |-> At(Global)[k]]
    IN /\ {at[k] : k \in 0..(n - 1)} = storage /\ at[n] = Null
       /\ \A k \in 1..(n - 1) : chunk[at[k]].prev = at[k - 1]
       /\ \E l \in {n - 1, n - 2} \cap (0..n) :
            /\ list[Global].last = at[l]
            /\ \A k \in 0..(l - 1) : CountOf(heap, at[k]) = Max
            /\ \A k \in (l + 1)..(n - 1) : CountOf(heap, at[k]) = 0
            /\ list[Global].size = l * Max + CountOf(heap, at[l])

\* doc/pmm.md:8-10: as long as a domain has free memory of its own, it allocates it.
\* A pop that runs off a chunk would be the sign of an empty stack.
OwnMemoryServes ==
  fault = "underflow" =>
    \A s \in Stacks : Last(heap, s) # Null /\ CountOf(heap, Last(heap, s)) = 0 => SizeOf(heap, s) = 0

\* stack.h:44: a chunk fits its page, whatever is pushed.
ChunksFit == fault # "overflow"
==============================================================================
