--------------------------- MODULE FrameStackProofs ---------------------------
(***************************************************************************)
(* Proofs about FrameStack, for any number of frames, cores and chunks and *)
(* any memory map: no operation loses a frame or has it in two places.     *)
(***************************************************************************)
EXTENDS FrameStack, FiniteSetTheorems, WellFoundedInduction, SequenceTheorems, TLAPS

------------------------------------------------------------------------------
(* The invariant                                                           *)

Links == {Null} \cup AllFrames
ChunkType == [prev : Links, next : Links, stack : Seq(AllFrames)]
ListType == [first : Links, last : Links, size : Counters, balance : Nat]
HeapType == [chunk : [AllFrames -> ChunkType], list : [Stacks -> ListType],
             storage : SUBSET AllFrames, boot : 0..NBoot, out : SUBSET AllFrames,
             fault : {Running} \cup Faults]

\* What the links reach is storage; a stack with a first chunk has a last one.
Linked(h) ==
  /\ \A s \in Stacks : /\ First(h, s) \in {Null} \cup h.storage
                       /\ Last(h, s) \in {Null} \cup h.storage
                       /\ First(h, s) # Null => Last(h, s) # Null
  /\ \A c \in h.storage : h.chunk[c].next \in {Null} \cup h.storage

\* The frames in the chunks.
Stored(h) == {f \in AllFrames :
                \E c \in h.storage : \E i \in 1..CountOf(h, c) : h.chunk[c].stack[i] = f}
\* The boot frames that are left.
Early(h) == (NFrames + NBoot - h.boot + 1)..(NFrames + NBoot)

\* No chunk is overfull, and no two entries of the chunks are the same frame.
Contents(h) ==
  /\ \A c \in AllFrames : CountOf(h, c) <= Max
  /\ \A c, d \in h.storage : \A i \in 1..CountOf(h, c), j \in 1..CountOf(h, d) :
       h.chunk[c].stack[i] = h.chunk[d].stack[j] => c = d /\ i = j

\* A frame is in one of five places; Aside are those that no operation has seen yet, and
\* the one that is being pushed.
Split(Aside, E, O, S, F) ==
  /\ AllFrames = Aside \cup E \cup O \cup S \cup F
  /\ Aside \cap E = {} /\ Aside \cap O = {} /\ Aside \cap S = {} /\ Aside \cap F = {}
  /\ E \cap O = {} /\ E \cap S = {} /\ E \cap F = {}
  /\ O \cap S = {} /\ O \cap F = {} /\ S \cap F = {}

Good(h, Aside) == /\ h \in HeapType /\ Linked(h) /\ Contents(h)
                  /\ Split(Aside, Early(h), h.out, h.storage, Stored(h))

\* A heap that has its type, which one has that an operation has failed on, too.
Typed(h) == h \in HeapType /\ \A c \in AllFrames : CountOf(h, c) <= Max

\* What an operation leaves: unless it has failed, a good heap.
Kept(h, Aside, S) == Typed(h) /\ (h.fault = Running => Good(h, Aside) /\ h.storage = S)

Ahead == (fed + 1)..NFrames

\* What holds after every operation, as long as none has failed.
IInv == /\ phase \in {"construct", "boot", "ready"} /\ fed \in 0..NFrames
        /\ amount \in Nat /\ joined \subseteq Cores
        /\ Typed(heap) /\ (fault = Running => Good(heap, Ahead))

------------------------------------------------------------------------------
(* Arithmetic and loops                                                    *)

\* Naturals are well-ordered.
LEMMA Smallest ==
  ASSUME NEW T, T \subseteq Nat, T # {}
  PROVE  \E n \in T : \A k \in T : n <= k
<1>1. \E n \in T : \A k \in T : ~ (<<k, n>> \in OpToRel(<, Nat))
  BY WFMin, NatLessThanWellFounded
<1>2. \A n, k \in T : <<k, n>> \in OpToRel(<, Nat) <=> k < n
  BY DEF OpToRel
<1>3. \A n, k \in T : ~(k < n) => n <= k
  OBVIOUS
<1> QED
  BY <1>1, <1>2, <1>3

\* What the assumption on the constants gives.
LEMMA Constants ==
  /\ Max \in Nat /\ Max >= 1 /\ Word \in Nat /\ Word > 0 /\ NFrames \in Nat /\ NBoot \in Nat
  /\ Global \in Stacks /\ Cores \subseteq Stacks /\ Global \notin Cores
  /\ BorrowBatch \in Nat /\ RefillBatch \in Nat /\ MapSizes \subseteq 0..NFrames
  /\ Null \notin AllFrames /\ IsFiniteSet(Cores) /\ BootCore \in Cores
  /\ 0 \in 0..NFrames /\ Frames \subseteq AllFrames
BY StackAssumption DEF Stacks, Null, AllFrames, Frames

\* The size counters stay in range.
LEMMA Sizes ==
  ASSUME NEW a \in Int
  PROVE  a % Word \in Counters
BY Constants DEF Counters

\* A size counter can count the frames of a chunk.
LEMMA Countable ==
  ASSUME NEW c \in AllFrames, NEW n \in Nat, n <= Max
  PROVE  n \in Counters
<1>1. PICK d \in Nat : d = NFrames + NBoot
  BY Constants
<1>2. d >= 1
  BY <1>1, Constants DEF AllFrames
<1>3. Word > Max * d
  BY <1>1, StackAssumption
<1>4. Max * d >= Max
  BY <1>1, <1>2, Constants
<1> QED  BY <1>1, <1>3, <1>4, Constants DEF Counters

\* The iteration of a batch of moves exists, and its rounds are MoveNext.
LEMMA Rounds ==
  ASSUME NEW h0, NEW from, NEW to, NEW n \in Nat, NEW floor
  PROVE  \E r : /\ MoveChunks(h0, from, to, n, floor) = r[n]
                /\ r[0] = h0
                /\ \A k \in 1..n : r[k] = MoveNext(r[k - 1], from, to, floor)
<1> DEFINE Is(r, m) ==
      r = [k \in 0..m |-> IF k = 0 THEN h0 ELSE MoveNext(r[k - 1], from, to, floor)]
<1> DEFINE T == {m \in Nat : ~ \E r : Is(r, m)}
<1>1. T = {}
  <2> SUFFICES ASSUME T # {} PROVE FALSE
    OBVIOUS
  <2>1. PICK m \in T : \A k \in T : m <= k
    BY Smallest
  <2>2. m # 0
    <3>1. Is([k \in 0..0 |-> h0], 0)
      OBVIOUS
    <3> QED
      BY <3>1
  <2>3. m \in Nat /\ m - 1 \in Nat /\ m - 1 \notin T
    <3>1. m \in Nat /\ m - 1 \in Nat /\ ~(m <= m - 1)
      BY <2>2
    <3> QED
      BY <2>1, <3>1, Zenon
  <2>4. PICK q : Is(q, m - 1)
    BY <2>3
  <2> DEFINE r == [k \in 0..m |-> IF k < m THEN q[k] ELSE MoveNext(q[m - 1], from, to, floor)]
  <2>5. \A k \in 0..m : k < m => r[k] = q[k]
    BY <2>3
  <2>6. \A k \in 0..m : r[k] = IF k = 0 THEN h0 ELSE MoveNext(r[k - 1], from, to, floor)
    <3> TAKE k \in 0..m
    <3>1. CASE k < m
      <4>1. k \in 0..(m - 1)
        BY <3>1, <2>3
      <4>2. q[k] = IF k = 0 THEN h0 ELSE MoveNext(q[k - 1], from, to, floor)
        BY <4>1, <2>4
      <4>3. r[k] = q[k] /\ (k # 0 => r[k - 1] = q[k - 1])
        BY <3>1, <2>3
      <4> QED
        BY <4>2, <4>3
    <3>2. CASE k = m
      <4>1. r[k] = MoveNext(q[m - 1], from, to, floor) /\ r[k - 1] = q[m - 1]
        BY <3>2, <2>3, <2>2
      <4> QED
        BY <4>1, <3>2, <2>2
    <3> QED
      BY <3>1, <3>2, <2>3
  <2>7. Is(r, m)
    BY <2>6
  <2> QED
    BY <2>7, <2>1
<1> DEFINE R == CHOOSE r : Is(r, n)
<1>2. Is(R, n)
  BY <1>1
<1>3. MoveChunks(h0, from, to, n, floor) = R[n]
  BY DEF MoveChunks
<1> HIDE DEF R
<1>4. R[0] = h0 /\ \A k \in 1..n : R[k] = MoveNext(R[k - 1], from, to, floor)
  BY <1>2
<1> QED
  BY <1>3, <1>4

------------------------------------------------------------------------------
(* Chunks between stacks                                                   *)

\* The parts of a heap.
LEMMA Parts ==
  ASSUME NEW h \in HeapType
  PROVE  /\ h.chunk \in [AllFrames -> ChunkType] /\ h.list \in [Stacks -> ListType]
         /\ h.storage \subseteq AllFrames /\ h.boot \in 0..NBoot /\ h.out \subseteq AllFrames
         /\ h.fault \in {Running} \cup Faults
         /\ \A c \in AllFrames : /\ h.chunk[c].prev \in Links /\ h.chunk[c].next \in Links
                                 /\ h.chunk[c].stack \in Seq(AllFrames) /\ CountOf(h, c) \in Nat
         /\ \A s \in Stacks : /\ First(h, s) \in Links /\ Last(h, s) \in Links
                              /\ SizeOf(h, s) \in Counters /\ SizeOf(h, s) \in Nat
                              /\ h.list[s].balance \in Nat
BY Constants DEF HeapType, ChunkType, ListType, First, Last, SizeOf, CountOf, Counters

\* No operation goes on after a failure.
LEMMA FailedIs ==
  ASSUME NEW h \in HeapType, NEW f \in Faults
  PROVE  Failed(h, f).fault # Running
BY DEF Failed, HeapType, Faults, Running

\* What a failed operation leaves has the type of a heap.
LEMMA FailedKept ==
  ASSUME NEW h, Typed(h), NEW f \in Faults, NEW Aside, NEW S
  PROVE  Kept(Failed(h, f), Aside, S)
<1>1. Failed(h, f) \in HeapType /\ Failed(h, f).chunk = h.chunk
  BY DEF Typed, Failed, HeapType
<1> QED  BY <1>1, FailedIs DEF Typed, Kept, CountOf

\* A good heap is one that an operation may leave.
LEMMA GoodIsKept ==
  ASSUME NEW h, NEW Aside, Good(h, Aside)
  PROVE  Typed(h) /\ Kept(h, Aside, h.storage)
BY DEF Good, Contents, Typed, Kept

\* Changing links that stay within storage moves no frame.
LEMMA Relinked ==
  ASSUME NEW h, NEW Aside, Good(h, Aside), NEW g \in HeapType,
         g.storage = h.storage, g.out = h.out, g.boot = h.boot,
         \A c \in AllFrames : g.chunk[c].stack = h.chunk[c].stack, Linked(g)
  PROVE  Good(g, Aside)
<1>1. \A c \in AllFrames : CountOf(g, c) = CountOf(h, c)
  BY DEF CountOf
<1>2. h.storage \subseteq AllFrames
  BY Parts DEF Good
<1>3. Stored(g) = Stored(h)
  BY <1>1, <1>2 DEF Stored
<1>4. Contents(g)
  BY <1>1, <1>2 DEF Good, Contents
<1>5. Early(g) = Early(h)
  BY DEF Early
<1> QED
  BY <1>3, <1>4, <1>5 DEF Good

\* One field of a chunk or of a stack is assigned.
WithPrev(h, c, v) == [h EXCEPT !.chunk[c].prev = v]
WithNext(h, c, v) == [h EXCEPT !.chunk[c].next = v]
WithFirst(h, s, v) == [h EXCEPT !.list[s].first = v]
WithLast(h, s, v) == [h EXCEPT !.list[s].last = v]
WithSize(h, s, v) == [h EXCEPT !.list[s].size = v]

\* Heaps that have the same frames in the same places.
SamePlaces(g, h) == /\ g.storage = h.storage /\ g.out = h.out /\ g.boot = h.boot
                    /\ g.fault = h.fault
                    /\ \A d \in AllFrames : g.chunk[d].stack = h.chunk[d].stack

\* What the assignments of links do.
LEMMA WithPrevIs ==
  ASSUME NEW h \in HeapType, NEW c \in AllFrames, NEW v \in Links
  PROVE  LET g == WithPrev(h, c, v)
         IN /\ g \in HeapType /\ SamePlaces(g, h) /\ g.list = h.list
            /\ \A d \in AllFrames : g.chunk[d].next = h.chunk[d].next
BY DEF WithPrev, SamePlaces, HeapType, ChunkType

\* The link to the next chunk.
LEMMA WithNextIs ==
  ASSUME NEW h \in HeapType, NEW c \in AllFrames, NEW v \in Links
  PROVE  LET g == WithNext(h, c, v)
         IN /\ g \in HeapType /\ SamePlaces(g, h) /\ g.list = h.list
            /\ \A d \in AllFrames : /\ g.chunk[d].next = IF d = c THEN v ELSE h.chunk[d].next
                                    /\ g.chunk[d].prev = h.chunk[d].prev
BY DEF WithNext, SamePlaces, HeapType, ChunkType

\* The first chunk of a stack.
LEMMA WithFirstIs ==
  ASSUME NEW h \in HeapType, NEW s \in Stacks, NEW v \in Links
  PROVE  LET g == WithFirst(h, s, v)
         IN /\ g \in HeapType /\ SamePlaces(g, h) /\ g.chunk = h.chunk
            /\ \A t \in Stacks : /\ First(g, t) = IF t = s THEN v ELSE First(h, t)
                                 /\ Last(g, t) = Last(h, t) /\ SizeOf(g, t) = SizeOf(h, t)
BY DEF WithFirst, SamePlaces, HeapType, ListType, First, Last, SizeOf

\* The last chunk of a stack.
LEMMA WithLastIs ==
  ASSUME NEW h \in HeapType, NEW s \in Stacks, NEW v \in Links
  PROVE  LET g == WithLast(h, s, v)
         IN /\ g \in HeapType /\ SamePlaces(g, h) /\ g.chunk = h.chunk
            /\ \A t \in Stacks : /\ Last(g, t) = IF t = s THEN v ELSE Last(h, t)
                                 /\ First(g, t) = First(h, t) /\ SizeOf(g, t) = SizeOf(h, t)
BY DEF WithLast, SamePlaces, HeapType, ListType, First, Last, SizeOf

\* The size of a stack.
LEMMA WithSizeIs ==
  ASSUME NEW h \in HeapType, NEW s \in Stacks, NEW v \in Counters
  PROVE  LET g == WithSize(h, s, v)
         IN /\ g \in HeapType /\ SamePlaces(g, h) /\ g.chunk = h.chunk
            /\ \A t \in Stacks : First(g, t) = First(h, t) /\ Last(g, t) = Last(h, t)
            /\ SizeOf(g, s) = v
BY DEF WithSize, SamePlaces, HeapType, ListType, First, Last, SizeOf

\* pop_chunk unlinks the first chunk of a stack.
LEMMA PopChunkIs ==
  ASSUME NEW h \in HeapType, NEW s \in Stacks, First(h, s) # Last(h, s), First(h, s) # Null
  PROVE  LET g == PopChunk(h, s)
             c == First(h, s)
         IN /\ c \in AllFrames /\ g \in HeapType /\ SamePlaces(g, h)
            /\ \A d \in AllFrames : g.chunk[d].next = h.chunk[d].next
            /\ \A t \in Stacks : /\ Last(g, t) = Last(h, t)
                                 /\ First(g, t) = IF t = s THEN h.chunk[c].next ELSE First(h, t)
<1> DEFINE c == First(h, s)
           n == h.chunk[c].next
           u == IF n = Null THEN h ELSE WithPrev(h, n, Null)
           v == WithFirst(u, s, n)
           z == (v.list[s].size - CountOf(h, c)) % Word
<1>1. c # Last(h, s) /\ c # Null
  OBVIOUS
<1>2. PopChunk(h, s) = WithSize(v, s, z)
  <2> DEFINE g == PopChunk(h, s)
  <2>1. g = [u EXCEPT !.list[s].first = n,
                      !.list[s].size = (@ - CountOf(h, c)) % Word]
    BY <1>1 DEF PopChunk, WithPrev
  <2> HIDE DEF c, n, u, g
  <2>2. g = WithSize(v, s, z)
    BY <2>1, Zenon DEF WithFirst, WithSize
  <2> QED
    BY <2>2 DEF g
<1>3. c \in AllFrames /\ n \in Links /\ Null \in Links
  BY <1>1, Parts DEF Links
<1>4. /\ u \in HeapType /\ SamePlaces(u, h) /\ u.list = h.list
      /\ \A d \in AllFrames : u.chunk[d].next = h.chunk[d].next
  <2>1. CASE n = Null
    BY <2>1 DEF SamePlaces
  <2>2. CASE n # Null
    BY <1>3, <2>2, WithPrevIs DEF Links
  <2> QED
    BY <2>1, <2>2
<1> HIDE DEF u
<1>5. /\ v \in HeapType /\ SamePlaces(v, u) /\ v.chunk = u.chunk
      /\ \A t \in Stacks : /\ First(v, t) = IF t = s THEN n ELSE First(u, t)
                           /\ Last(v, t) = Last(u, t)
  BY <1>3, <1>4, WithFirstIs
<1> HIDE DEF v
<1>6. z \in Counters
  <2>1. v.list[s].size \in Nat /\ CountOf(h, c) \in Nat
    BY <1>3, <1>5, Parts DEF SizeOf
  <2>2. v.list[s].size - CountOf(h, c) \in Int
    BY <2>1
  <2> QED
    BY <2>2, Sizes
<1> HIDE DEF z
<1>7. LET g == WithSize(v, s, z)
      IN /\ g \in HeapType /\ SamePlaces(g, v) /\ g.chunk = v.chunk
         /\ \A t \in Stacks : First(g, t) = First(v, t) /\ Last(g, t) = Last(v, t)
  BY <1>5, <1>6, WithSizeIs
<1> QED
  BY <1>2, <1>3, <1>4, <1>5, <1>7 DEF SamePlaces, First, Last

\* Popping a chunk moves no frame, and the chunk it returns is one of storage.
LEMMA PopChunkGood ==
  ASSUME NEW h, NEW Aside, Good(h, Aside), NEW s \in Stacks, h.fault = Running,
         PopChunk(h, s).fault = Running
  PROVE  /\ Good(PopChunk(h, s), Aside) /\ PopChunk(h, s).storage = h.storage
         /\ First(h, s) \in h.storage
<1> DEFINE g == PopChunk(h, s)
           c == First(h, s)
<1>0. h \in HeapType /\ Linked(h)
  BY DEF Good
<1>1. /\ c \in AllFrames /\ g \in HeapType /\ SamePlaces(g, h)
      /\ \A d \in AllFrames : g.chunk[d].next = h.chunk[d].next
      /\ \A t \in Stacks : /\ Last(g, t) = Last(h, t)
                           /\ First(g, t) = IF t = s THEN h.chunk[c].next ELSE First(h, t)
  <2>1. First(h, s) # Last(h, s) /\ First(h, s) # Null
    BY <1>0, FailedIs DEF PopChunk, Faults
  <2> QED  BY <1>0, <2>1, PopChunkIs
<1> HIDE DEF g
<1>2. c \in h.storage /\ c # Null
  BY <1>0, <1>1, Constants DEF Linked
<1>3. Linked(g)
  <2>1. h.storage \subseteq AllFrames
    BY <1>0, Parts
  <2> QED
    BY <1>0, <1>1, <1>2, <2>1 DEF Linked, SamePlaces
<1>4. Good(g, Aside)
  BY <1>1, <1>3, Relinked DEF SamePlaces
<1> QED
  BY <1>1, <1>2, <1>4 DEF g, SamePlaces

\* push_chunk links a chunk in front of the first or behind the last chunk.
LEMMA PushChunkIs ==
  ASSUME NEW h \in HeapType, NEW s \in Stacks, NEW c \in AllFrames,
         First(h, s) # Null => Last(h, s) # Null, CountOf(h, c) <= Max
  PROVE  LET g == PushChunk(h, s, c)
             f == First(h, s)
             n == IF f = Null THEN Null ELSE h.chunk[Last(h, s)].next
         IN /\ g \in HeapType /\ SamePlaces(g, h)
            /\ \A d \in AllFrames : g.chunk[d].next \in {h.chunk[d].next, c, f, n}
            /\ \A t \in Stacks : /\ First(g, t) \in {First(h, t), c}
                                 /\ Last(g, t) \in {Last(h, t), c}
                                 /\ First(g, t) = First(h, t) \/ Last(g, t) = c
                                      \/ (First(h, t) # Null /\ Last(g, t) = Last(h, t))
<1> DEFINE g == PushChunk(h, s, c)
           f == First(h, s)
           l == Last(h, s)
           m == IF f = Null THEN Null ELSE h.chunk[l].next
<1> SUFFICES /\ g \in HeapType /\ SamePlaces(g, h)
             /\ \A d \in AllFrames : g.chunk[d].next \in {h.chunk[d].next, c, f, m}
             /\ \A t \in Stacks : /\ First(g, t) \in {First(h, t), c}
                                  /\ Last(g, t) \in {Last(h, t), c}
                                  /\ First(g, t) = First(h, t) \/ Last(g, t) = c
                                       \/ (First(h, t) # Null /\ Last(g, t) = Last(h, t))
  OBVIOUS
<1>1. /\ c \in Links /\ Null \in Links /\ f \in Links /\ l \in Links /\ CountOf(h, c) \in Nat
      /\ CountOf(h, c) \in Counters
  BY Parts, Countable DEF Links
<1>2. \A k \in HeapType : (k.list[s].size + CountOf(h, c)) % Word \in Counters
  <2> TAKE k \in HeapType
  <2>1. k.list[s].size \in Nat
    BY Parts DEF SizeOf
  <2>2. k.list[s].size + CountOf(h, c) \in Int
    BY <1>1, <2>1
  <2> QED
    BY <2>2, Sizes
<1>3. CASE f = Null
  <2> DEFINE k1 == WithFirst(h, s, c)
             k2 == WithLast(k1, s, c)
  <2>1. g = WithSize(k2, s, CountOf(h, c))
    BY <1>3 DEF PushChunk, WithFirst, WithLast, WithSize
  <2>2. /\ k1 \in HeapType /\ SamePlaces(k1, h) /\ k1.chunk = h.chunk
        /\ \A t \in Stacks : /\ First(k1, t) = IF t = s THEN c ELSE First(h, t)
                             /\ Last(k1, t) = Last(h, t)
    BY <1>1, WithFirstIs
  <2> HIDE DEF k1
  <2>3. /\ k2 \in HeapType /\ SamePlaces(k2, k1) /\ k2.chunk = k1.chunk
        /\ \A t \in Stacks : /\ First(k2, t) = First(k1, t)
                             /\ Last(k2, t) = IF t = s THEN c ELSE Last(k1, t)
    BY <1>1, <2>2, WithLastIs
  <2> HIDE DEF k2, g
  <2>4. /\ g \in HeapType /\ SamePlaces(g, k2) /\ g.chunk = k2.chunk
        /\ \A t \in Stacks : First(g, t) = First(k2, t) /\ Last(g, t) = Last(k2, t)
    BY <1>1, <2>1, <2>3, WithSizeIs
  <2> QED
    <3>1. SamePlaces(g, h) /\ g.chunk = h.chunk
      BY <2>2, <2>3, <2>4 DEF SamePlaces
    <3>2. \A t \in Stacks : t # s => First(g, t) = First(h, t) /\ Last(g, t) = Last(h, t)
      BY <2>2, <2>3, <2>4
    <3>3. First(g, s) = c /\ Last(g, s) = c
      BY <2>2, <2>3, <2>4
    <3>4. \A t \in Stacks : /\ First(g, t) \in {First(h, t), c} /\ Last(g, t) \in {Last(h, t), c}
                            /\ First(g, t) = First(h, t) \/ Last(g, t) = c
      BY <3>2, <3>3
    <3>5. \A d \in AllFrames : g.chunk[d].next \in {h.chunk[d].next, c, f, m}
      BY <3>1
    <3> QED
      BY <2>4, <3>1, <3>4, <3>5, Zenon
<1>4. CASE f # Null /\ CountOf(h, c) = Max
  <2> DEFINE k0 == WithPrev(h, c, Null)
             k1 == WithNext(k0, c, f)
             k2 == WithPrev(k1, f, c)
             k3 == WithFirst(k2, s, c)
  <2>1. g = WithSize(k3, s, (k3.list[s].size + CountOf(h, c)) % Word)
    BY <1>4 DEF PushChunk, WithPrev, WithNext, WithFirst, WithSize
  <2>0. /\ k0 \in HeapType /\ SamePlaces(k0, h) /\ k0.list = h.list
        /\ \A d \in AllFrames : k0.chunk[d].next = h.chunk[d].next
    BY <1>1, WithPrevIs
  <2> HIDE DEF k0
  <2>2. /\ k1 \in HeapType /\ SamePlaces(k1, k0) /\ k1.list = k0.list
        /\ \A d \in AllFrames : k1.chunk[d].next = IF d = c THEN f ELSE k0.chunk[d].next
    BY <1>1, <2>0, WithNextIs
  <2> HIDE DEF k1
  <2>3. /\ k2 \in HeapType /\ SamePlaces(k2, k1) /\ k2.list = k1.list
        /\ \A d \in AllFrames : k2.chunk[d].next = k1.chunk[d].next
    BY <1>1, <1>4, <2>2, WithPrevIs DEF Links
  <2> HIDE DEF k2
  <2>4. /\ k3 \in HeapType /\ SamePlaces(k3, k2) /\ k3.chunk = k2.chunk
        /\ \A t \in Stacks : /\ First(k3, t) = IF t = s THEN c ELSE First(k2, t)
                             /\ Last(k3, t) = Last(k2, t)
    BY <1>1, <2>3, WithFirstIs
  <2> HIDE DEF k3, g
  <2>5. /\ g \in HeapType /\ SamePlaces(g, k3) /\ g.chunk = k3.chunk
        /\ \A t \in Stacks : First(g, t) = First(k3, t) /\ Last(g, t) = Last(k3, t)
    BY <1>2, <2>1, <2>4, WithSizeIs
  <2>6. \A t \in Stacks : First(k2, t) = First(h, t) /\ Last(k2, t) = Last(h, t)
    BY <2>0, <2>2, <2>3 DEF First, Last
  <2>7. SamePlaces(g, h)
    BY <2>0, <2>2, <2>3, <2>4, <2>5 DEF SamePlaces
  <2>8. \A d \in AllFrames : g.chunk[d].next \in {h.chunk[d].next, f}
    BY <2>0, <2>2, <2>3, <2>4, <2>5
  <2> QED
    BY <1>4, <2>4, <2>5, <2>6, <2>7, <2>8
<1>5. CASE f # Null /\ CountOf(h, c) # Max
  <2> DEFINE n == h.chunk[l].next
             k0 == WithPrev(h, c, l)
             k1 == WithNext(k0, c, n)
             k2 == WithNext(k1, l, c)
             k3 == WithLast(k2, s, c)
  <2>1. g = WithSize(k3, s, (k3.list[s].size + CountOf(h, c)) % Word)
    BY <1>5 DEF PushChunk, WithPrev, WithNext, WithLast, WithSize
  <2>0. l \in AllFrames /\ n \in Links
    BY <1>1, <1>5, Parts DEF Links
  <2> HIDE DEF n
  <2>9. /\ k0 \in HeapType /\ SamePlaces(k0, h) /\ k0.list = h.list
        /\ \A d \in AllFrames : k0.chunk[d].next = h.chunk[d].next
    BY <1>1, WithPrevIs
  <2> HIDE DEF k0
  <2>2. /\ k1 \in HeapType /\ SamePlaces(k1, k0) /\ k1.list = k0.list
        /\ \A d \in AllFrames : k1.chunk[d].next = IF d = c THEN n ELSE k0.chunk[d].next
    BY <1>1, <2>0, <2>9, WithNextIs
  <2> HIDE DEF k1
  <2>3. /\ k2 \in HeapType /\ SamePlaces(k2, k1) /\ k2.list = k1.list
        /\ \A d \in AllFrames : k2.chunk[d].next = IF d = l THEN c ELSE k1.chunk[d].next
    BY <1>1, <2>0, <2>2, WithNextIs
  <2> HIDE DEF k2
  <2>4. /\ k3 \in HeapType /\ SamePlaces(k3, k2) /\ k3.chunk = k2.chunk
        /\ \A t \in Stacks : /\ First(k3, t) = First(k2, t)
                             /\ Last(k3, t) = IF t = s THEN c ELSE Last(k2, t)
    BY <1>1, <2>3, WithLastIs
  <2> HIDE DEF k3, g
  <2>5. /\ g \in HeapType /\ SamePlaces(g, k3) /\ g.chunk = k3.chunk
        /\ \A t \in Stacks : First(g, t) = First(k3, t) /\ Last(g, t) = Last(k3, t)
    BY <1>2, <2>1, <2>4, WithSizeIs
  <2>6. \A t \in Stacks : First(k2, t) = First(h, t) /\ Last(k2, t) = Last(h, t)
    BY <2>9, <2>2, <2>3 DEF First, Last
  <2>7. SamePlaces(g, h)
    BY <2>9, <2>2, <2>3, <2>4, <2>5 DEF SamePlaces
  <2>8. \A d \in AllFrames : g.chunk[d].next \in {h.chunk[d].next, c, n}
    BY <2>9, <2>2, <2>3, <2>4, <2>5
  <2> QED
    <3>1. m = n
      BY <1>5 DEF n
    <3>2. \A t \in Stacks : First(g, t) = First(h, t) /\ Last(g, t) \in {Last(h, t), c}
      BY <2>4, <2>5, <2>6
    <3>3. \A t \in Stacks : /\ First(g, t) \in {First(h, t), c} /\ Last(g, t) \in {Last(h, t), c}
                            /\ First(g, t) = First(h, t)
      BY <3>2
    <3>4. \A d \in AllFrames : g.chunk[d].next \in {h.chunk[d].next, c, f, m}
      BY <2>8, <3>1
    <3> QED
      BY <2>5, <2>7, <3>3, <3>4, Zenon
<1> QED
  BY <1>3, <1>4, <1>5

\* Pushing a chunk of storage moves no frame.
LEMMA PushChunkGood ==
  ASSUME NEW h, NEW Aside, Good(h, Aside), NEW s \in Stacks, NEW c \in h.storage
  PROVE  Good(PushChunk(h, s, c), Aside) /\ PushChunk(h, s, c).storage = h.storage
<1> DEFINE g == PushChunk(h, s, c)
           f == First(h, s)
           n == IF f = Null THEN Null ELSE h.chunk[Last(h, s)].next
<1>1. h \in HeapType /\ Linked(h) /\ h.storage \subseteq AllFrames /\ c \in AllFrames /\ c # Null
  BY Parts, Constants DEF Good
<1>2. /\ g \in HeapType /\ SamePlaces(g, h)
      /\ \A d \in AllFrames : g.chunk[d].next \in {h.chunk[d].next, c, f, n}
      /\ \A t \in Stacks : /\ First(g, t) \in {First(h, t), c}
                           /\ Last(g, t) \in {Last(h, t), c}
                           /\ First(g, t) = First(h, t) \/ Last(g, t) = c
                                \/ (First(h, t) # Null /\ Last(g, t) = Last(h, t))
  <2>1. CountOf(h, c) <= Max
    BY <1>1, GoodIsKept DEF Typed
  <2> QED  BY <1>1, <2>1, PushChunkIs DEF Linked
<1>3. f \in {Null} \cup h.storage /\ n \in {Null} \cup h.storage
  BY <1>1 DEF Linked
<1> HIDE DEF g, f, n
<1>4. Linked(g)
  <2>1. \A t \in Stacks : /\ First(g, t) \in {Null} \cup g.storage
                          /\ Last(g, t) \in {Null} \cup g.storage
                          /\ First(g, t) # Null => Last(g, t) # Null
    BY <1>1, <1>2 DEF Linked, SamePlaces
  <2>2. \A d \in g.storage : g.chunk[d].next \in {Null} \cup g.storage
    BY <1>1, <1>2, <1>3 DEF Linked, SamePlaces
  <2> QED
    BY <2>1, <2>2 DEF Linked
<1> QED
  BY <1>2, <1>4, Relinked DEF SamePlaces, g

\* So does moving one from one stack to another.
LEMMA MoveChunkKept ==
  ASSUME NEW h, NEW Aside, NEW S, Kept(h, Aside, S), h.fault = Running,
         NEW from \in Stacks, NEW to \in Stacks
  PROVE  Kept(MoveChunk(h, from, to), Aside, S)
<1> DEFINE popped == PopChunk(h, from)
<1>1. Good(h, Aside) /\ h.storage = S /\ Typed(h)
  BY DEF Kept
<1>2. CASE popped.fault # Running
  <2>1. First(h, from) = Last(h, from) \/ First(h, from) = Null
    BY <1>1, <1>2, PopChunkIs DEF Typed, SamePlaces
  <2>2. popped \in {Failed(h, "panic: chunk of an empty stack"), Failed(h, "null")}
    BY <2>1 DEF PopChunk
  <2>3. Kept(popped, Aside, S)
    BY <1>1, <2>2, FailedKept DEF Faults
  <2> QED  BY <1>2, <2>3 DEF MoveChunk
<1>3. CASE popped.fault = Running
  <2>1. Good(popped, Aside) /\ popped.storage = S /\ First(h, from) \in S
    BY <1>1, <1>3, PopChunkGood
  <2>2. /\ Good(PushChunk(popped, to, First(h, from)), Aside)
        /\ PushChunk(popped, to, First(h, from)).storage = S
    BY <2>1, PushChunkGood
  <2>3. Kept(PushChunk(popped, to, First(h, from)), Aside, S)
    BY <2>2, GoodIsKept
  <2> QED
    BY <1>3, <2>3 DEF MoveChunk
<1> QED
  BY <1>2, <1>3

\* A batch of moves, as far as it gets.
LEMMA MoveChunksKept ==
  ASSUME NEW h0, NEW Aside, NEW S, Kept(h0, Aside, S),
         NEW from \in Stacks, NEW to \in Stacks, NEW n \in Nat, NEW floor
  PROVE  Kept(MoveChunks(h0, from, to, n, floor), Aside, S)
<1>1. PICK r : /\ MoveChunks(h0, from, to, n, floor) = r[n]
               /\ r[0] = h0
               /\ \A k \in 1..n : r[k] = MoveNext(r[k - 1], from, to, floor)
  BY Rounds
<1> DEFINE T == {k \in 0..n : ~Kept(r[k], Aside, S)}
<1>2. T = {}
  <2> SUFFICES ASSUME T # {} PROVE FALSE
    OBVIOUS
  <2>0. T \subseteq Nat
    OBVIOUS
  <2>1. PICK k \in T : \A j \in T : k <= j
    BY <2>0, Smallest
  <2>2. k \in 1..n /\ k - 1 \in 0..n /\ ~(k <= k - 1)
    BY <1>1
  <2>3. Kept(r[k - 1], Aside, S)
    BY <2>1, <2>2
  <2>4. Kept(MoveNext(r[k - 1], from, to, floor), Aside, S)
    BY <2>3, MoveChunkKept DEF MoveNext
  <2> QED
    BY <1>1, <2>2, <2>4
<1>3. n \in 0..n
  OBVIOUS
<1> QED
  BY <1>1, <1>2, <1>3

------------------------------------------------------------------------------
(* Frames                                                                  *)

\* The other cores, in some order.
LEMMA OthersAre ==
  ASSUME NEW s
  PROVE  LET q == SeqX!SetToSeq(Cores \ {s})
         IN Len(q) \in Nat /\ \A k \in 1..Len(q) : q[k] \in Cores
<1> DEFINE R == Cores \ {s}
           n == Cardinality(R)
           q == SeqX!SetToSeq(R)
<1>1. IsFiniteSet(R)
  BY Constants, FS_Subset
<1>2. n \in Nat /\ ExistsBijection(1..n, R)
  BY <1>1, FS_CardinalityType
<1>3. \E f \in [1..n -> R] : SeqX!IsInjective(f)
  BY <1>2 DEF ExistsBijection, Bijection, Injection, IsInjective, SeqX!IsInjective
<1>4. q \in [1..n -> R]
  <2>1. SeqX!Cardinality(R) = n
    BY DEF Cardinality, SeqX!Cardinality
  <2>2. q = CHOOSE f \in [1..SeqX!Cardinality(R) -> R] : SeqX!IsInjective(f)
    BY DEF SeqX!SetToSeq
  <2> HIDE DEF q, n
  <2> QED
    BY <1>3, <2>1, <2>2
<1> HIDE DEF q, n
<1>5. q \in Seq(R) /\ Len(q) = n
  BY <1>2, <1>4, SeqDef, LenProperties
<1> QED
  <2>1. Len(q) \in Nat /\ \A k \in 1..Len(q) : q[k] \in Cores
    BY <1>2, <1>4, <1>5
  <2> QED
    BY <2>1 DEF q

\* What the others give back of their surplus.
LEMMA BorrowKept ==
  ASSUME NEW h0, NEW Aside, NEW S, Kept(h0, Aside, S), NEW s
  PROVE  Kept(Borrow(h0, s), Aside, S)
<1> DEFINE others == SeqX!SetToSeq(Cores \ {s})
           n == Len(others)
           Round(h, k) == MoveChunks(h, others[k], Global, BorrowBatch, Max * BorrowSurplus)
           Is(r, m) == r = [k \in 0..m |-> IF k = 0 THEN h0 ELSE Round(r[k - 1], k)]
           T == {m \in Nat : ~ \E r : Is(r, m)}
<1>1. n \in Nat /\ \A k \in 1..n : others[k] \in Cores
  BY OthersAre
<1>2. \A h, k : k \in 1..n /\ Kept(h, Aside, S) => Kept(Round(h, k), Aside, S)
  BY <1>1, Constants, MoveChunksKept
<1> HIDE DEF others, Round
<1>3. T = {}
  <2> SUFFICES ASSUME T # {} PROVE FALSE
    OBVIOUS
  <2>1. PICK m \in T : \A k \in T : m <= k
    BY Smallest
  <2>2. m # 0
    <3>1. Is([k \in 0..0 |-> h0], 0)
      OBVIOUS
    <3> QED
      BY <3>1
  <2>3. m \in Nat /\ m - 1 \in Nat /\ m - 1 \notin T
    <3>1. m \in Nat /\ m - 1 \in Nat /\ ~(m <= m - 1)
      BY <2>2
    <3> QED
      BY <2>1, <3>1, Zenon
  <2>4. PICK q : Is(q, m - 1)
    BY <2>3
  <2> DEFINE r == [k \in 0..m |-> IF k < m THEN q[k] ELSE Round(q[m - 1], m)]
  <2>5. \A k \in 0..m : r[k] = IF k = 0 THEN h0 ELSE Round(r[k - 1], k)
    <3> TAKE k \in 0..m
    <3>1. CASE k < m
      <4>1. k \in 0..(m - 1)
        BY <3>1, <2>3
      <4>2. q[k] = IF k = 0 THEN h0 ELSE Round(q[k - 1], k)
        BY <4>1, <2>4
      <4>3. r[k] = q[k] /\ (k # 0 => r[k - 1] = q[k - 1])
        BY <3>1, <2>3
      <4> QED
        BY <4>2, <4>3
    <3>2. CASE k = m
      <4>1. r[k] = Round(q[m - 1], m) /\ r[k - 1] = q[m - 1]
        BY <3>2, <2>3, <2>2
      <4> QED
        BY <4>1, <3>2, <2>2
    <3> QED
      BY <3>1, <3>2, <2>3
  <2>6. Is(r, m)
    BY <2>5
  <2> QED
    BY <2>6, <2>1
<1> DEFINE R == CHOOSE r : Is(r, n)
<1>4. Is(R, n)
  BY <1>1, <1>3
<1>5. Borrow(h0, s) \in {h0, R[n]}
  BY DEF Borrow, Round, others
<1> HIDE DEF R
<1>6. R[0] = h0 /\ \A k \in 1..n : R[k] = Round(R[k - 1], k)
  BY <1>1, <1>4
<1> DEFINE U == {k \in 0..n : ~Kept(R[k], Aside, S)}
<1>7. U = {}
  <2> SUFFICES ASSUME U # {} PROVE FALSE
    OBVIOUS
  <2>0. U \subseteq Nat
    OBVIOUS
  <2>1. PICK k \in U : \A j \in U : k <= j
    BY <2>0, Smallest
  <2>2. k \in 1..n /\ k - 1 \in 0..n /\ ~(k <= k - 1)
    BY <1>1, <1>6
  <2>3. Kept(R[k - 1], Aside, S)
    BY <2>1, <2>2
  <2>4. Kept(Round(R[k - 1], k), Aside, S)
    BY <2>2, <2>3, <1>2
  <2> QED
    BY <1>6, <2>2, <2>4
<1> QED
  BY <1>1, <1>5, <1>7

\* Fetching chunks from the global stack.
LEMMA RefillKept ==
  ASSUME NEW h, NEW Aside, NEW S, Kept(h, Aside, S), NEW s \in Stacks, NEW locked \in BOOLEAN
  PROVE  Kept(Refill(h, s, locked), Aside, S)
<1>1. CASE locked /\ h.fault = Running /\ RefillBatch > 0 /\ SizeOf(h, Global) > Max
  BY <1>1, FailedKept DEF Refill, Faults, Kept
<1>2. CASE ~(locked /\ h.fault = Running /\ RefillBatch > 0 /\ SizeOf(h, Global) > Max)
  BY <1>2, Constants, MoveChunksKept DEF Refill
<1> QED
  BY <1>1, <1>2

\* A frame goes from one of the five places to another.
LEMMA SplitMoves ==
  ASSUME NEW A, NEW E, NEW O, NEW S, NEW F, Split(A, E, O, S, F)
  PROVE  /\ \A x \in A : Split(A \ {x}, E, O, S \cup {x}, F) /\ Split(A \ {x}, E, O, S, F \cup {x})
         /\ \A x \in E : Split(A, E \ {x}, O \cup {x}, S, F)
         /\ \A x \in F : Split(A, E, O \cup {x}, S, F \ {x})
         /\ \A x \in O : Split(A \cup {x}, E, O \ {x}, S, F)
BY Zenon DEF Split

\* The frames of a chunk and the set of frames handed out are assigned.
WithStack(h, c, w) == [h EXCEPT !.chunk[c].stack = w]
WithOut(h, o) == [h EXCEPT !.out = o]

\* What the assignment of frames does.
LEMMA WithStackIs ==
  ASSUME NEW h \in HeapType, NEW c \in AllFrames, NEW w \in Seq(AllFrames)
  PROVE  LET g == WithStack(h, c, w)
         IN /\ g \in HeapType /\ g.list = h.list /\ g.storage = h.storage /\ g.out = h.out
            /\ g.boot = h.boot /\ g.fault = h.fault
            /\ \A d \in AllFrames : /\ g.chunk[d].next = h.chunk[d].next
                                    /\ g.chunk[d].prev = h.chunk[d].prev
                                    /\ g.chunk[d].stack = IF d = c THEN w ELSE h.chunk[d].stack
BY DEF WithStack, HeapType, ChunkType

\* The frames handed out.
LEMMA WithOutIs ==
  ASSUME NEW h \in HeapType, NEW o \in SUBSET AllFrames
  PROVE  LET g == WithOut(h, o)
         IN /\ g \in HeapType /\ g.list = h.list /\ g.chunk = h.chunk /\ g.storage = h.storage
            /\ g.out = o /\ g.boot = h.boot /\ g.fault = h.fault
BY DEF WithOut, HeapType

\* pop runs off the chunks.
PopFails(h, s) ==
  LET l == Last(h, s)
      n == CountOf(h, l) - 1
  IN l = Null \/ n < 0 \/ (n = Max - Trim /\ l # First(h, s) /\ h.chunk[l].next = Null)

\* What a pop does that does not.
LEMMA PopTopIs ==
  ASSUME NEW h, NEW Aside, Good(h, Aside), NEW s \in Stacks, ~PopFails(h, s)
  PROVE  LET g == PopTop(h, s)
             l == Last(h, s)
             n == CountOf(h, l) - 1
             w == h.chunk[l].stack
             x == w[n + 1]
             v == SubSeq(w, 1, n)
         IN /\ l \in h.storage /\ h.storage \subseteq AllFrames /\ l \in AllFrames
            /\ w \in Seq(AllFrames) /\ Len(w) = n + 1 /\ n \in Nat
            /\ x \in AllFrames /\ v \in Seq(AllFrames) /\ Len(v) = n
            /\ \A i \in 1..n : v[i] = w[i]
            /\ g \in HeapType /\ g.storage = h.storage /\ g.out = h.out \cup {x}
            /\ g.boot = h.boot /\ g.fault = h.fault
            /\ \A d \in AllFrames : /\ g.chunk[d].next = h.chunk[d].next
                                    /\ g.chunk[d].prev = h.chunk[d].prev
                                    /\ g.chunk[d].stack = IF d = l THEN v ELSE h.chunk[d].stack
            /\ \A t \in Stacks : First(g, t) = First(h, t) /\ Last(g, t) = Last(h, t)
            /\ SizeOf(g, s) = (SizeOf(h, s) - 1) % Word
<1> DEFINE g == PopTop(h, s)
           l == Last(h, s)
           n == CountOf(h, l) - 1
           w == h.chunk[l].stack
           x == w[n + 1]
           v == SubSeq(w, 1, n)
           k1 == WithStack(h, l, v)
           z == (k1.list[s].size - 1) % Word
           k2 == WithSize(k1, s, z)
<1>1. /\ h \in HeapType /\ Linked(h) /\ Contents(h)
      /\ Split(Aside, Early(h), h.out, h.storage, Stored(h))
  BY DEF Good
<1>2. l # Null /\ ~(n < 0)
  BY DEF PopFails
<1>3. g = WithOut(k2, k2.out \cup {x})
  BY DEF PopTop, PopFails, WithStack, WithSize, WithOut
<1>4. l \in h.storage /\ h.storage \subseteq AllFrames /\ l \in AllFrames
  BY <1>1, <1>2, Parts DEF Linked
<1>5. /\ w \in Seq(AllFrames) /\ Len(w) = n + 1 /\ n \in Nat
  BY <1>1, <1>2, <1>4, Parts DEF CountOf
<1>6. /\ x \in AllFrames /\ v \in Seq(AllFrames) /\ Len(v) = n
      /\ \A i \in 1..n : v[i] = w[i]
  BY <1>5
<1> HIDE DEF v
<1>7. /\ k1 \in HeapType /\ k1.list = h.list /\ k1.storage = h.storage /\ k1.out = h.out
      /\ k1.boot = h.boot /\ k1.fault = h.fault
      /\ \A d \in AllFrames : /\ k1.chunk[d].next = h.chunk[d].next
                              /\ k1.chunk[d].prev = h.chunk[d].prev
                              /\ k1.chunk[d].stack = IF d = l THEN v ELSE h.chunk[d].stack
  BY <1>1, <1>4, <1>6, WithStackIs
<1>20. z = (SizeOf(h, s) - 1) % Word
  BY <1>7 DEF SizeOf
<1>8. z \in Counters
  <2>1. k1.list[s].size - 1 \in Int
    BY <1>7, Parts DEF SizeOf
  <2> QED
    BY <2>1, Sizes
<1> HIDE DEF k1, z
<1>9. /\ k2 \in HeapType /\ SamePlaces(k2, k1) /\ k2.chunk = k1.chunk
      /\ \A t \in Stacks : First(k2, t) = First(k1, t) /\ Last(k2, t) = Last(k1, t)
      /\ SizeOf(k2, s) = z
  BY <1>7, <1>8, WithSizeIs
<1> HIDE DEF k2
<1>10. /\ g \in HeapType /\ g.list = k2.list /\ g.chunk = k2.chunk /\ g.storage = k2.storage
       /\ g.out = k2.out \cup {x} /\ g.boot = k2.boot /\ g.fault = k2.fault
  <2>1. k2.out \cup {x} \in SUBSET AllFrames
    BY <1>6, <1>9, Parts
  <2> QED
    BY <1>3, <1>9, <2>1, WithOutIs
<1> HIDE DEF g
<1>11. /\ g.storage = h.storage /\ g.out = h.out \cup {x} /\ g.boot = h.boot
       /\ g.fault = h.fault
       /\ \A d \in AllFrames : /\ g.chunk[d].next = h.chunk[d].next
                               /\ g.chunk[d].prev = h.chunk[d].prev
                               /\ g.chunk[d].stack = IF d = l THEN v ELSE h.chunk[d].stack
       /\ \A t \in Stacks : First(g, t) = First(h, t) /\ Last(g, t) = Last(h, t)
       /\ SizeOf(g, s) = (SizeOf(h, s) - 1) % Word
  <2>1. \A t \in Stacks : First(g, t) = First(h, t) /\ Last(g, t) = Last(h, t)
    <3>1. g.list = k2.list /\ k1.list = h.list
      BY <1>7, <1>10
    <3>2. \A t : /\ First(g, t) = First(k2, t) /\ Last(g, t) = Last(k2, t)
                 /\ First(k1, t) = First(h, t) /\ Last(k1, t) = Last(h, t)
      BY <3>1 DEF First, Last
    <3>3. \A t \in Stacks : First(k2, t) = First(k1, t) /\ Last(k2, t) = Last(k1, t)
      BY <1>9
    <3> QED
      BY <3>2, <3>3
  <2>2. SizeOf(g, s) = (SizeOf(h, s) - 1) % Word
    BY <1>20, <1>9, <1>10 DEF SizeOf
  <2> QED
    BY <1>7, <1>9, <1>10, <2>1, <2>2 DEF SamePlaces
<1> QED
  BY <1>2, <1>4, <1>5, <1>6, <1>10, <1>11 DEF v, g

\* The top frame of the last chunk is handed out.
LEMMA PopTopKept ==
  ASSUME NEW h, NEW Aside, Good(h, Aside), h.fault = Running, NEW s \in Stacks
  PROVE  Kept(PopTop(h, s), Aside, h.storage)
<1> DEFINE g == PopTop(h, s)
           l == Last(h, s)
           n == CountOf(h, l) - 1
           w == h.chunk[l].stack
           x == w[n + 1]
           v == SubSeq(w, 1, n)
<1>0. CASE PopFails(h, s)
  <2>1. g \in {Failed(h, "null"), Failed(h, "underflow")}
    BY <1>0 DEF PopTop, PopFails
  <2> QED  BY <2>1, GoodIsKept, FailedKept DEF Faults
<1> SUFFICES ASSUME ~PopFails(h, s)
             PROVE  Kept(g, Aside, h.storage)
  BY <1>0
<1>1. /\ h \in HeapType /\ Linked(h) /\ Contents(h)
      /\ Split(Aside, Early(h), h.out, h.storage, Stored(h))
  BY DEF Good
<1>4. l \in h.storage /\ h.storage \subseteq AllFrames /\ l \in AllFrames
  BY PopTopIs
<1>5. /\ w \in Seq(AllFrames) /\ Len(w) = n + 1 /\ n \in Nat
  BY PopTopIs
<1>6. /\ x \in AllFrames /\ v \in Seq(AllFrames) /\ Len(v) = n
      /\ \A i \in 1..n : v[i] = w[i]
  BY PopTopIs
<1>11. /\ g \in HeapType /\ g.storage = h.storage /\ g.out = h.out \cup {x} /\ g.boot = h.boot
       /\ \A d \in AllFrames : /\ g.chunk[d].next = h.chunk[d].next
                               /\ g.chunk[d].stack = IF d = l THEN v ELSE h.chunk[d].stack
       /\ \A t \in Stacks : First(g, t) = First(h, t) /\ Last(g, t) = Last(h, t)
  BY PopTopIs
<1> HIDE DEF g, v
<1>12. Linked(g)
  BY <1>1, <1>4, <1>11 DEF Linked
<1>13. \A d \in AllFrames : /\ CountOf(g, d) = IF d = l THEN n ELSE CountOf(h, d)
                            /\ CountOf(h, d) \in Nat
  BY <1>1, <1>6, <1>11, Parts DEF CountOf
<1>14. \A d \in AllFrames, i \in Nat : i \in 1..CountOf(g, d) =>
         i \in 1..CountOf(h, d) /\ g.chunk[d].stack[i] = h.chunk[d].stack[i]
  <2> SUFFICES ASSUME NEW d \in AllFrames, NEW i \in Nat, i \in 1..CountOf(g, d)
               PROVE  i \in 1..CountOf(h, d) /\ g.chunk[d].stack[i] = h.chunk[d].stack[i]
    OBVIOUS
  <2>1. CASE d = l
    <3>1. i \in 1..n /\ g.chunk[d].stack[i] = w[i]
      BY <2>1, <1>6, <1>11, <1>13
    <3>2. CountOf(h, d) = n + 1
      BY <2>1, <1>5 DEF CountOf
    <3> QED  BY <3>1, <3>2, <2>1, <1>5
  <2>2. CASE d # l
    BY <2>2, <1>11, <1>13
  <2> QED  BY <2>1, <2>2
<1>15. Contents(g)
  <2>1. \A d \in AllFrames : CountOf(g, d) <= Max
    <3>1. \A d \in AllFrames : CountOf(h, d) <= Max
      BY <1>1 DEF Contents
    <3>2. CountOf(h, l) = n + 1
      BY <1>5 DEF CountOf
    <3> QED
      BY <1>4, <1>5, <1>13, <3>1, <3>2, Constants
  <2>2. \A c, d \in g.storage : \A i \in 1..CountOf(g, c), j \in 1..CountOf(g, d) :
          g.chunk[c].stack[i] = g.chunk[d].stack[j] => c = d /\ i = j
    BY <1>1, <1>4, <1>11, <1>14 DEF Contents
  <2> QED
    BY <2>1, <2>2 DEF Contents
<1>16. Stored(g) = Stored(h) \ {x}
  <2>1. \A f \in Stored(g) : f \in Stored(h) /\ f # x
    <3> SUFFICES ASSUME NEW d \in g.storage, NEW i \in 1..CountOf(g, d),
                        g.chunk[d].stack[i] \in AllFrames
                 PROVE  g.chunk[d].stack[i] \in Stored(h) /\ g.chunk[d].stack[i] # x
      BY DEF Stored
    <3>1. /\ d \in h.storage /\ d \in AllFrames /\ i \in 1..CountOf(h, d)
          /\ g.chunk[d].stack[i] = h.chunk[d].stack[i]
      BY <1>4, <1>11, <1>14
    <3>2. d = l => i \in 1..n
      BY <1>13, <3>1
    <3>3. n + 1 \in 1..CountOf(h, l) /\ (d = l => i # n + 1)
      BY <1>5, <3>2 DEF CountOf
    <3>4. h.chunk[d].stack[i] \in Stored(h)
      BY <3>1 DEF Stored
    <3>5. h.chunk[d].stack[i] # h.chunk[l].stack[n + 1]
      BY <1>1, <1>4, <3>1, <3>3 DEF Contents
    <3> QED
      BY <3>1, <3>4, <3>5
  <2>2. \A f \in Stored(h) : f # x => f \in Stored(g)
    <3>0. \A f \in Stored(h) : \E d \in h.storage : \E i \in 1..CountOf(h, d) :
            h.chunk[d].stack[i] = f /\ f \in AllFrames
      BY DEF Stored
    <3> SUFFICES ASSUME NEW d \in h.storage, NEW i \in 1..CountOf(h, d),
                        h.chunk[d].stack[i] \in AllFrames, h.chunk[d].stack[i] # x
                 PROVE  h.chunk[d].stack[i] \in Stored(g)
      <4> HIDE DEF x, l, w
      <4> QED
        BY <3>0, Zenon
    <3>1. d \in AllFrames
      BY <1>4
    <3>2. i \in 1..CountOf(g, d) /\ g.chunk[d].stack[i] = h.chunk[d].stack[i]
      <4>1. CASE d = l
        <5>1. CountOf(h, d) = n + 1 /\ CountOf(g, d) = n /\ g.chunk[d].stack = v
          BY <1>5, <1>11, <1>13, <3>1, <4>1 DEF CountOf
        <5>2. i # n + 1
          BY <4>1
        <5>3. i \in 1..n
          BY <1>5, <5>1, <5>2
        <5> QED
          BY <1>6, <4>1, <5>1, <5>3
      <4>2. CASE d # l
        BY <1>11, <1>13, <3>1, <4>2
      <4> QED
        BY <4>1, <4>2
    <3> QED
      BY <1>11, <3>2 DEF Stored
  <2> QED
    BY <2>1, <2>2
<1>17. x \in Stored(h)
  <2>1. n + 1 \in 1..CountOf(h, l)
    BY <1>5 DEF CountOf
  <2> QED
    BY <1>4, <1>6, <2>1 DEF Stored
<1>18. Split(Aside, Early(g), g.out, g.storage, Stored(g))
  BY <1>1, <1>11, <1>16, <1>17, SplitMoves DEF Early
<1>19. Good(g, Aside)
  BY <1>11, <1>12, <1>15, <1>18 DEF Good
<1> QED
  BY <1>11, <1>19, GoodIsKept

\* frame_stack::pop, with all it fetches.
LEMMA PopKept ==
  ASSUME NEW h, NEW Aside, Good(h, Aside), h.fault = Running,
         NEW s \in Stacks, NEW locked \in BOOLEAN
  PROVE  Kept(Pop(h, s, locked), Aside, h.storage)
<1> DEFINE filled == IF SizeOf(h, s) # 0 THEN h
                     ELSE IF s = Global THEN Failed(h, "panic: out of memory")
                     ELSE Refill(Borrow(h, s), s, locked)
<1>1. Kept(h, Aside, h.storage) /\ Typed(h)
  BY GoodIsKept
<1>2. Kept(filled, Aside, h.storage)
  <2>1. Kept(Failed(h, "panic: out of memory"), Aside, h.storage)
    BY <1>1, FailedKept DEF Faults
  <2>2. Kept(Refill(Borrow(h, s), s, locked), Aside, h.storage)
    BY <1>1, BorrowKept, RefillKept
  <2> QED
    BY <1>1, <2>1, <2>2
<1> HIDE DEF filled
<1>3. Pop(h, s, locked) = IF filled.fault = Running THEN PopTop(filled, s) ELSE filled
  BY DEF Pop, filled
<1>4. CASE filled.fault = Running
  BY <1>2, <1>3, <1>4, PopTopKept DEF Kept
<1>5. CASE filled.fault # Running
  BY <1>2, <1>3, <1>5
<1> QED
  BY <1>4, <1>5

\* memory::pmm::pop: a boot frame or one of a stack.
LEMMA PmmPopKept ==
  ASSUME NEW h, NEW Aside, Good(h, Aside), h.fault = Running,
         NEW s \in Stacks, NEW locked \in BOOLEAN
  PROVE  Kept(PmmPop(h, s, locked), Aside, h.storage)
<1>1. CASE ~(h.boot > 0)
  BY <1>1, PopKept DEF PmmPop
<1>2. CASE h.boot > 0
  <2> DEFINE x == NFrames + 1 + NBoot - h.boot
             g == [h EXCEPT !.boot = @ - 1, !.out = @ \cup {x}]
  <2>1. g = PmmPop(h, s, locked)
    BY <1>2 DEF PmmPop
  <2>2. /\ h \in HeapType /\ Linked(h) /\ Contents(h)
        /\ Split(Aside, Early(h), h.out, h.storage, Stored(h)) /\ h.boot \in 1..NBoot
    BY <1>2, Parts, Constants DEF Good
  <2>3. x \in Early(h) /\ x \in AllFrames
    BY <2>2, Constants DEF Early, AllFrames
  <2>8. PICK b \in 0..NBoot : b = h.boot - 1
    BY <2>2, Constants
  <2>9. PICK o \in SUBSET AllFrames : o = h.out \cup {x}
    BY <2>2, <2>3, Parts
  <2>10. g = [h EXCEPT !.boot = b, !.out = o]
    BY <2>8, <2>9
  <2> HIDE DEF g, x
  <2>11. /\ g.storage = h.storage /\ g.out = o /\ g.boot = b
         /\ g.chunk = h.chunk /\ g.list = h.list /\ g \in HeapType
    BY <2>2, <2>10 DEF HeapType
  <2>4. /\ g.storage = h.storage /\ g.out = h.out \cup {x} /\ g.boot = h.boot - 1
        /\ g.chunk = h.chunk /\ g.list = h.list /\ g \in HeapType
    BY <2>8, <2>9, <2>11
  <2>5. Early(g) = Early(h) \ {x}
    <3>1. \A p, q \in Int : q >= 1 =>
            (p - (q - 1) + 1)..p = ((p - q + 1)..p) \ {p - q + 1}
      OBVIOUS
    <3>2. PICK t, k : t \in Int /\ k \in Int /\ k >= 1 /\ t = NFrames + NBoot /\ k = h.boot
      BY <2>2, Constants
    <3>3. Early(g) = (t - (k - 1) + 1)..t /\ Early(h) = (t - k + 1)..t
      <4> DEFINE Run(n) == (NFrames + NBoot - n + 1)..(NFrames + NBoot)
      <4>1. Early(g) = Run(g.boot) /\ Early(h) = Run(h.boot)
        BY DEF Early
      <4>2. \A m, n, i \in Int : /\ m + n - (i - 1) + 1 = (m + n) - (i - 1) + 1
                                 /\ m + n - i + 1 = (m + n) - i + 1
        OBVIOUS
      <4>3. NFrames \in Int /\ NBoot \in Int
        BY Constants
      <4>4. /\ NFrames + NBoot - (k - 1) + 1 = (NFrames + NBoot) - (k - 1) + 1
            /\ NFrames + NBoot - k + 1 = (NFrames + NBoot) - k + 1
        BY <3>2, <4>2, <4>3
      <4>5. NFrames + NBoot = t
        BY <3>2
      <4>6. /\ Run(k - 1) = (t - (k - 1) + 1)..t
            /\ Run(k) = (t - k + 1)..t
        BY <4>4, <4>5, Zenon
      <4> HIDE DEF Run
      <4>7. g.boot = k - 1 /\ h.boot = k
        BY <2>4, <3>2
      <4> QED
        BY <4>1, <4>6, <4>7, Zenon
    <3>4. x = t - k + 1
      BY <2>2, <3>2, Constants DEF x
    <3> QED
      BY <3>1, <3>2, <3>3, <3>4, Zenon
  <2>6. Linked(g) /\ Contents(g) /\ Stored(g) = Stored(h)
    <3>1. Linked(g)
      BY <2>2, <2>4 DEF Linked, First, Last
    <3>2. \A d : CountOf(g, d) = CountOf(h, d)
      BY <2>4 DEF CountOf
    <3>3. Contents(g) /\ Stored(g) = Stored(h)
      BY <2>2, <2>4, <3>2 DEF Contents, Stored
    <3> QED
      BY <3>1, <3>3
  <2>7. Split(Aside, Early(g), g.out, g.storage, Stored(g))
    BY <2>2, <2>3, <2>4, <2>5, <2>6, SplitMoves
  <2> QED
    <3>1. Good(g, Aside)
      BY <2>4, <2>6, <2>7 DEF Good
    <3>2. Kept(g, Aside, h.storage)
      BY <2>4, <3>1, GoodIsKept
    <3> QED  BY <2>1, <3>2 DEF g
<1> QED
  BY <1>1, <1>2

\* allocate_chained: a frame becomes an empty chunk.
LEMMA ChainKept ==
  ASSUME NEW h, NEW Aside, Good(h, Aside), h.fault = Running, NEW s \in Stacks,
         NEW frame \in Aside, NEW prev \in Links, NEW table \in BOOLEAN
  PROVE  Kept(Chain(h, s, frame, prev, table), Aside \ {frame}, h.storage \cup {frame})
<1> DEFINE mapped == IF ~table THEN h
                     ELSE IF phase = "construct" /\ h.boot = 0 THEN Failed(h, "assertion")
                     ELSE PmmPop(h, s, TRUE)
           new == NewChunk(prev)
           g == [mapped EXCEPT !.chunk[frame] = new, !.storage = @ \cup {frame}]
<1>1. Kept(mapped, Aside, h.storage)
  <2>1. Kept(h, Aside, h.storage) /\ Kept(Failed(h, "assertion"), Aside, h.storage)
    BY GoodIsKept, FailedKept DEF Faults
  <2>2. Kept(PmmPop(h, s, TRUE), Aside, h.storage)
    BY PmmPopKept
  <2> QED
    BY <2>1, <2>2
<1>2. g = Chain(h, s, frame, prev, table)
  BY DEF Chain
<1> HIDE DEF mapped
<1>3. CASE mapped.fault # Running
  <2>1. Typed(mapped) /\ frame \in AllFrames
    BY <1>1 DEF Kept, Good, Split
  <2>2. new \in ChunkType /\ new.stack = <<>>
    BY DEF NewChunk, ChunkType, Links
  <2> HIDE DEF new
  <2>3. /\ g \in HeapType /\ g.fault = mapped.fault /\ g.chunk[frame] = new
        /\ \A d \in AllFrames : d # frame => g.chunk[d] = mapped.chunk[d]
    BY <2>1, <2>2 DEF HeapType, Typed
  <2>4. \A d \in AllFrames : CountOf(g, d) <= Max
    BY <2>1, <2>2, <2>3, Constants DEF Typed, CountOf
  <2> QED
    BY <1>2, <1>3, <2>3, <2>4 DEF Kept, Typed
<1>4. CASE mapped.fault = Running
  <2>1. /\ mapped \in HeapType /\ Linked(mapped) /\ Contents(mapped)
        /\ Split(Aside, Early(mapped), mapped.out, mapped.storage, Stored(mapped))
        /\ mapped.storage = h.storage /\ mapped.storage \subseteq AllFrames
    BY <1>1, <1>4, Parts DEF Kept, Good
  <2>2. frame \in AllFrames /\ frame \notin mapped.storage
    BY <2>1 DEF Split
  <2>3. new \in ChunkType /\ new.next = Null /\ new.stack = <<>>
    BY DEF NewChunk, ChunkType, Links
  <2> HIDE DEF new
  <2>4. /\ g \in HeapType /\ g.list = mapped.list /\ g.out = mapped.out /\ g.boot = mapped.boot
        /\ g.storage = mapped.storage \cup {frame} /\ g.chunk[frame] = new
        /\ \A d \in AllFrames : d # frame => g.chunk[d] = mapped.chunk[d]
    BY <2>1, <2>2, <2>3 DEF HeapType
  <2> HIDE DEF g
  <2>5. Linked(g)
    BY <2>1, <2>2, <2>3, <2>4 DEF Linked, First, Last
  <2>6. /\ CountOf(g, frame) = 0
        /\ \A d \in AllFrames : d # frame => CountOf(g, d) = CountOf(mapped, d)
    BY <2>2, <2>3, <2>4 DEF CountOf
  <2>7. Contents(g)
    <3>1. \A d \in AllFrames : CountOf(g, d) <= Max
      BY <2>1, <2>6, Constants DEF Contents
    <3>2. \A c, d \in g.storage : \A i \in 1..CountOf(g, c), j \in 1..CountOf(g, d) :
            g.chunk[c].stack[i] = g.chunk[d].stack[j] => c = d /\ i = j
      BY <2>1, <2>4, <2>6 DEF Contents
    <3> QED
      BY <3>1, <3>2 DEF Contents
  <2>8. Stored(g) = Stored(mapped)
    <3>1. \A f \in Stored(g) : f \in Stored(mapped)
      <4> SUFFICES ASSUME NEW d \in g.storage, NEW i \in 1..CountOf(g, d),
                          g.chunk[d].stack[i] \in AllFrames
                   PROVE  g.chunk[d].stack[i] \in Stored(mapped)
        BY DEF Stored
      <4>1. d # frame /\ d \in mapped.storage /\ d \in AllFrames
        BY <2>1, <2>4, <2>6
      <4> QED
        BY <2>4, <2>6, <4>1 DEF Stored
    <3>2. \A f \in Stored(mapped) : f \in Stored(g)
      <4> SUFFICES ASSUME NEW d \in mapped.storage, NEW i \in 1..CountOf(mapped, d),
                          mapped.chunk[d].stack[i] \in AllFrames
                   PROVE  mapped.chunk[d].stack[i] \in Stored(g)
        BY DEF Stored
      <4>1. d # frame /\ d \in g.storage /\ d \in AllFrames
        BY <2>1, <2>2, <2>4
      <4> QED
        BY <2>4, <2>6, <4>1 DEF Stored
    <3> QED
      BY <3>1, <3>2
  <2>9. Split(Aside \ {frame}, Early(g), g.out, g.storage, Stored(g))
    <3>1. Early(g) = Early(mapped)
      BY <2>4 DEF Early
    <3>2. Split(Aside \ {frame}, Early(mapped), mapped.out, mapped.storage \cup {frame},
                Stored(mapped))
      BY <2>1, SplitMoves
    <3> QED
      BY <2>4, <2>8, <3>1, <3>2
  <2> QED
    <3>1. Good(g, Aside \ {frame}) /\ g.storage = h.storage \cup {frame}
      BY <2>1, <2>4, <2>5, <2>7, <2>9 DEF Good
    <3> QED  BY <1>2, <3>1, GoodIsKept
<1> QED
  BY <1>3, <1>4

\* Assigning links within storage keeps the invariant.
LEMMA EndsKept ==
  ASSUME NEW h, NEW Aside, NEW S, Kept(h, Aside, S), NEW s \in Stacks,
         NEW c \in S, c \in AllFrames
  PROVE  Kept([h EXCEPT !.list[s].first = c, !.list[s].last = c], Aside, S)
<1> DEFINE k == WithFirst(h, s, c)
           g == WithLast(k, s, c)
<1>1. [h EXCEPT !.list[s].first = c, !.list[s].last = c] = g
  BY DEF WithFirst, WithLast
<1>2. CASE h.fault # Running
  <2>1. h \in HeapType /\ c \in Links
    BY DEF Kept, Typed, Links
  <2>2. k \in HeapType /\ SamePlaces(k, h)
    BY <2>1, WithFirstIs
  <2> HIDE DEF k
  <2>3. g \in HeapType /\ SamePlaces(g, k)
    BY <2>1, <2>2, WithLastIs
  <2> HIDE DEF g
  <2> QED
    BY <1>1, <1>2, <2>2, <2>3 DEF Kept, Typed, SamePlaces, CountOf
<1>3. CASE h.fault = Running
  <2>1. /\ Good(h, Aside) /\ h.storage = S /\ h \in HeapType /\ Linked(h)
        /\ S \subseteq AllFrames /\ c \in Links /\ c # Null
    BY <1>3, Parts, Constants DEF Kept, Good, Links
  <2>2. /\ k \in HeapType /\ SamePlaces(k, h) /\ k.chunk = h.chunk
        /\ \A t \in Stacks : /\ First(k, t) = IF t = s THEN c ELSE First(h, t)
                             /\ Last(k, t) = Last(h, t)
    BY <2>1, WithFirstIs
  <2> HIDE DEF k
  <2>3. /\ g \in HeapType /\ SamePlaces(g, k) /\ g.chunk = k.chunk
        /\ \A t \in Stacks : /\ Last(g, t) = IF t = s THEN c ELSE Last(k, t)
                             /\ First(g, t) = First(k, t)
    BY <2>1, <2>2, WithLastIs
  <2> HIDE DEF g
  <2>4. Linked(g) /\ SamePlaces(g, h)
    BY <2>1, <2>2, <2>3 DEF Linked, SamePlaces
  <2>5. Good(g, Aside)
    BY <2>1, <2>3, <2>4, Relinked DEF SamePlaces
  <2> QED
    BY <1>1, <2>1, <2>4, <2>5, GoodIsKept DEF SamePlaces
<1> QED
  BY <1>2, <1>3

\* So does the link of a chunk.
LEMMA NextKept ==
  ASSUME NEW h, NEW Aside, NEW S, Kept(h, Aside, S), NEW l \in S, NEW c \in S,
         l \in AllFrames, c \in AllFrames
  PROVE  Kept([h EXCEPT !.chunk[l].next = c], Aside, S)
<1> DEFINE g == WithNext(h, l, c)
<1>1. [h EXCEPT !.chunk[l].next = c] = g
  BY DEF WithNext
<1>2. CASE h.fault # Running
  <2>1. h \in HeapType /\ c \in Links
    BY DEF Kept, Typed, Links
  <2>2. g \in HeapType /\ SamePlaces(g, h)
    BY <2>1, WithNextIs
  <2> HIDE DEF g
  <2> QED
    BY <1>1, <1>2, <2>2 DEF Kept, Typed, SamePlaces, CountOf
<1>3. CASE h.fault = Running
  <2>1. /\ Good(h, Aside) /\ h.storage = S /\ h \in HeapType /\ Linked(h)
        /\ S \subseteq AllFrames /\ c \in Links
    BY <1>3, Parts DEF Kept, Good, Links
  <2>2. /\ g \in HeapType /\ SamePlaces(g, h) /\ g.list = h.list
        /\ \A d \in AllFrames : g.chunk[d].next = IF d = l THEN c ELSE h.chunk[d].next
    BY <2>1, WithNextIs
  <2> HIDE DEF g
  <2>3. Linked(g)
    BY <2>1, <2>2 DEF Linked, SamePlaces, First, Last
  <2>4. Good(g, Aside)
    BY <2>1, <2>2, <2>3, Relinked DEF SamePlaces
  <2> QED
    BY <1>1, <2>1, <2>2, <2>4, GoodIsKept DEF SamePlaces
<1> QED
  BY <1>2, <1>3

\* Frame is stored in chunk t, which becomes the last of stack s.
StoredIn(h, s, t, frame) == [h EXCEPT !.chunk[t].stack = Append(@, frame),
                                      !.list[s].last = t, !.list[s].size = (@ + 1) % Word]

\* What storing a frame does, in a chunk that has room.
LEMMA StoreIs ==
  ASSUME NEW h, NEW Aside, Good(h, Aside), NEW s \in Stacks,
         NEW frame \in Aside, NEW t \in h.storage, CountOf(h, t) # Max
  PROVE  LET w == h.chunk[t].stack
             v == Append(w, frame)
             m == CountOf(h, t)
             g == StoredIn(h, s, t, frame)
         IN /\ h.storage \subseteq AllFrames /\ t \in AllFrames /\ t # Null
            /\ frame \in AllFrames /\ frame \notin Stored(h)
            /\ w \in Seq(AllFrames) /\ Len(w) = m /\ m \in Nat
            /\ v \in Seq(AllFrames) /\ Len(v) = m + 1 /\ v[m + 1] = frame
            /\ \A i \in 1..m : v[i] = w[i]
            /\ g \in HeapType
            /\ g.storage = h.storage /\ g.out = h.out /\ g.boot = h.boot /\ g.fault = h.fault
            /\ \A d \in AllFrames : /\ g.chunk[d].next = h.chunk[d].next
                                    /\ g.chunk[d].prev = h.chunk[d].prev
                                    /\ g.chunk[d].stack = IF d = t THEN v ELSE h.chunk[d].stack
            /\ \A u \in Stacks : /\ First(g, u) = First(h, u)
                                 /\ Last(g, u) = IF u = s THEN t ELSE Last(h, u)
            /\ SizeOf(g, s) = (SizeOf(h, s) + 1) % Word
<1> DEFINE w == h.chunk[t].stack
           v == Append(w, frame)
           k1 == WithStack(h, t, v)
           k2 == WithLast(k1, s, t)
           z == (k2.list[s].size + 1) % Word
           g == WithSize(k2, s, z)
           m == CountOf(h, t)
<1>1. g = StoredIn(h, s, t, frame)
  BY DEF StoredIn, WithStack, WithLast, WithSize
<1>2. /\ h \in HeapType /\ Linked(h) /\ Contents(h)
      /\ Split(Aside, Early(h), h.out, h.storage, Stored(h))
  BY DEF Good
<1>3. /\ h.storage \subseteq AllFrames /\ t \in AllFrames /\ t \in Links /\ t # Null
      /\ frame \in AllFrames /\ frame \notin Stored(h)
  BY <1>2, Parts, Constants DEF Split, Links
<1>4. /\ w \in Seq(AllFrames) /\ Len(w) = m /\ m \in Nat
  BY <1>2, <1>3, Parts DEF CountOf
<1>5. /\ v \in Seq(AllFrames) /\ Len(v) = m + 1 /\ v[m + 1] = frame
      /\ \A i \in 1..m : v[i] = w[i]
  BY <1>3, <1>4
<1> HIDE DEF v
<1>6. /\ k1 \in HeapType /\ k1.list = h.list /\ k1.storage = h.storage /\ k1.out = h.out
      /\ k1.boot = h.boot /\ k1.fault = h.fault
      /\ \A d \in AllFrames : /\ k1.chunk[d].next = h.chunk[d].next
                              /\ k1.chunk[d].prev = h.chunk[d].prev
                              /\ k1.chunk[d].stack = IF d = t THEN v ELSE h.chunk[d].stack
  BY <1>2, <1>3, <1>5, WithStackIs
<1> HIDE DEF k1
<1>7. /\ k2 \in HeapType /\ SamePlaces(k2, k1) /\ k2.chunk = k1.chunk
      /\ \A u \in Stacks : /\ Last(k2, u) = IF u = s THEN t ELSE Last(k1, u)
                           /\ First(k2, u) = First(k1, u) /\ SizeOf(k2, u) = SizeOf(k1, u)
  BY <1>3, <1>6, WithLastIs
<1>20. z = (SizeOf(h, s) + 1) % Word
  BY <1>6, <1>7 DEF SizeOf
<1>8. z \in Counters
  <2>1. k2.list[s].size + 1 \in Int
    BY <1>7, Parts DEF SizeOf
  <2> QED
    BY <2>1, Sizes
<1> HIDE DEF k2, z
<1>9. /\ g \in HeapType /\ SamePlaces(g, k2) /\ g.chunk = k2.chunk
      /\ \A u \in Stacks : First(g, u) = First(k2, u) /\ Last(g, u) = Last(k2, u)
      /\ SizeOf(g, s) = z
  BY <1>7, <1>8, WithSizeIs
<1> HIDE DEF g
<1>10. /\ g.storage = h.storage /\ g.out = h.out /\ g.boot = h.boot /\ g.fault = h.fault
       /\ \A d \in AllFrames : /\ g.chunk[d].next = h.chunk[d].next
                               /\ g.chunk[d].prev = h.chunk[d].prev
                               /\ g.chunk[d].stack = IF d = t THEN v ELSE h.chunk[d].stack
       /\ \A u \in Stacks : /\ First(g, u) = First(h, u)
                            /\ Last(g, u) = IF u = s THEN t ELSE Last(h, u)
       /\ SizeOf(g, s) = (SizeOf(h, s) + 1) % Word
  BY <1>6, <1>7, <1>9, <1>20 DEF SamePlaces, First, Last, SizeOf
<1> QED
  BY <1>1, <1>3, <1>4, <1>5, <1>9, <1>10 DEF v

\* A frame is stored in a chunk that has room.
LEMMA StoreKept ==
  ASSUME NEW h, NEW Aside, Good(h, Aside), h.fault = Running, NEW s \in Stacks,
         NEW frame \in Aside, NEW t \in h.storage, CountOf(h, t) # Max
  PROVE  /\ Kept(StoredIn(h, s, t, frame), Aside \ {frame}, h.storage)
         /\ StoredIn(h, s, t, frame).fault = Running
<1> DEFINE w == h.chunk[t].stack
           v == Append(w, frame)
           g == StoredIn(h, s, t, frame)
           m == CountOf(h, t)
<1>2. /\ h \in HeapType /\ Linked(h) /\ Contents(h)
      /\ Split(Aside, Early(h), h.out, h.storage, Stored(h))
  BY DEF Good
<1>3. /\ h.storage \subseteq AllFrames /\ t \in AllFrames /\ t # Null
      /\ frame \in AllFrames /\ frame \notin Stored(h)
  BY StoreIs
<1>4. /\ w \in Seq(AllFrames) /\ Len(w) = m /\ m \in Nat
  BY StoreIs
<1>5. /\ v \in Seq(AllFrames) /\ Len(v) = m + 1 /\ v[m + 1] = frame
      /\ \A i \in 1..m : v[i] = w[i]
  BY StoreIs
<1>10. /\ g.storage = h.storage /\ g.out = h.out /\ g.boot = h.boot /\ g.fault = h.fault
       /\ g \in HeapType
       /\ \A d \in AllFrames : /\ g.chunk[d].next = h.chunk[d].next
                               /\ g.chunk[d].stack = IF d = t THEN v ELSE h.chunk[d].stack
       /\ \A u \in Stacks : First(g, u) = First(h, u) /\ Last(g, u) \in {Last(h, u), t}
  BY StoreIs
<1> HIDE DEF g, v
<1>11. Linked(g)
  BY <1>2, <1>3, <1>10 DEF Linked
<1>12. \A d \in AllFrames : /\ CountOf(g, d) = IF d = t THEN m + 1 ELSE CountOf(h, d)
                            /\ CountOf(h, d) \in Nat
  BY <1>2, <1>5, <1>10, Parts DEF CountOf
<1>13. \A d \in AllFrames, i \in Nat : i \in 1..CountOf(g, d) =>
         IF d = t /\ i = m + 1 THEN g.chunk[d].stack[i] = frame
         ELSE i \in 1..CountOf(h, d) /\ g.chunk[d].stack[i] = h.chunk[d].stack[i]
  <2> SUFFICES ASSUME NEW d \in AllFrames, NEW i \in Nat, i \in 1..CountOf(g, d)
               PROVE  IF d = t /\ i = m + 1 THEN g.chunk[d].stack[i] = frame
                      ELSE i \in 1..CountOf(h, d)
                           /\ g.chunk[d].stack[i] = h.chunk[d].stack[i]
    OBVIOUS
  <2>1. CASE d = t
    <3>1. g.chunk[d].stack = v /\ i \in 1..(m + 1) /\ CountOf(h, d) = m
      BY <1>10, <1>12, <2>1
    <3>2. i = m + 1 \/ (i # m + 1 /\ i \in 1..m)
      BY <1>4, <3>1
    <3> QED
      BY <1>5, <2>1, <3>1, <3>2
  <2>2. CASE d # t
    <3>1. g.chunk[d].stack = h.chunk[d].stack /\ CountOf(g, d) = CountOf(h, d)
      BY <1>10, <1>12, <2>2
    <3> QED
      BY <2>2, <3>1
  <2> QED
    BY <2>1, <2>2
<1>14. \A d \in h.storage : \A i \in 1..CountOf(h, d) : h.chunk[d].stack[i] # frame
  BY <1>3 DEF Stored
<1>15. Contents(g)
  <2>1. \A d \in AllFrames : CountOf(g, d) <= Max
    BY <1>2, <1>3, <1>4, <1>12, Constants DEF Contents
  <2>2. \A c, d \in g.storage : \A i \in 1..CountOf(g, c), j \in 1..CountOf(g, d) :
          g.chunk[c].stack[i] = g.chunk[d].stack[j] => c = d /\ i = j
    BY <1>2, <1>3, <1>10, <1>13, <1>14 DEF Contents
  <2> QED
    BY <2>1, <2>2 DEF Contents
<1>16. Stored(g) = Stored(h) \cup {frame}
  <2>1. \A f \in Stored(g) : f \in Stored(h) \cup {frame}
    <3> SUFFICES ASSUME NEW d \in g.storage, NEW i \in 1..CountOf(g, d),
                        g.chunk[d].stack[i] \in AllFrames
                 PROVE  g.chunk[d].stack[i] \in Stored(h) \cup {frame}
      BY DEF Stored
    <3>1. d \in h.storage /\ d \in AllFrames /\ i \in Nat
      BY <1>3, <1>10
    <3> QED
      BY <1>13, <3>1 DEF Stored
  <2>2. \A f \in Stored(h) : f \in Stored(g)
    <3> SUFFICES ASSUME NEW d \in h.storage, NEW i \in 1..CountOf(h, d),
                        h.chunk[d].stack[i] \in AllFrames
                 PROVE  h.chunk[d].stack[i] \in Stored(g)
      BY DEF Stored
    <3>1. d \in AllFrames
      BY <1>3
    <3>2. i \in 1..CountOf(g, d) /\ g.chunk[d].stack[i] = h.chunk[d].stack[i]
      <4>1. CASE d = t
        <5>1. CountOf(h, d) = m /\ CountOf(g, d) = m + 1 /\ g.chunk[d].stack = v
          BY <1>10, <1>12, <3>1, <4>1
        <5> QED
          BY <1>4, <1>5, <4>1, <5>1
      <4>2. CASE d # t
        BY <1>10, <1>12, <3>1, <4>2
      <4> QED
        BY <4>1, <4>2
    <3> QED
      BY <1>10, <3>2 DEF Stored
  <2>3. frame \in Stored(g)
    <3>1. m + 1 \in 1..CountOf(g, t) /\ g.chunk[t].stack[m + 1] = frame
      BY <1>3, <1>4, <1>5, <1>10, <1>12
    <3> QED
      BY <1>3, <1>10, <3>1 DEF Stored
  <2> QED
    BY <2>1, <2>2, <2>3
<1>17. Split(Aside \ {frame}, Early(g), g.out, g.storage, Stored(g))
  <2>1. Early(g) = Early(h)
    BY <1>10 DEF Early
  <2>2. Split(Aside \ {frame}, Early(h), h.out, h.storage, Stored(h) \cup {frame})
    BY <1>2, SplitMoves
  <2> QED
    BY <1>10, <1>16, <2>1, <2>2
<1>18. Good(g, Aside \ {frame})
  BY <1>10, <1>11, <1>15, <1>17 DEF Good
<1> QED
  BY <1>10, <1>18, GoodIsKept DEF g

\* frame_stack::push: the frame has one of the places afterwards.
LEMMA PushGood ==
  ASSUME NEW h, NEW Aside, Good(h, Aside), h.fault = Running, NEW s \in Stacks,
         NEW frame \in Aside, NEW table \in BOOLEAN
  PROVE  /\ Typed(Push(h, s, frame, table))
         /\ Push(h, s, frame, table).fault = Running =>
              Good(Push(h, s, frame, table), Aside \ {frame})
<1> DEFINE l == Last(h, s)
           t == IF CountOf(h, l) = Max THEN h.chunk[l].next ELSE l
           stored == StoredIn(h, s, t, frame)
           g == Push(h, s, frame, table)
           S == h.storage \cup {frame}
<1>1. h \in HeapType /\ Linked(h) /\ h.storage \subseteq AllFrames /\ frame \in AllFrames
  BY Parts DEF Good, Split
<1>2. CASE First(h, s) = Null
  <2> DEFINE k == Chain(h, s, frame, Null, table)
  <2>1. Kept(k, Aside \ {frame}, S)
    BY ChainKept DEF Links
  <2> HIDE DEF k
  <2>2. Kept([k EXCEPT !.list[s].first = frame, !.list[s].last = frame], Aside \ {frame}, S)
    BY <1>1, <2>1, EndsKept
  <2>3. g = [k EXCEPT !.list[s].first = frame, !.list[s].last = frame]
    BY <1>2 DEF Push, k
  <2> QED
    BY <2>2, <2>3 DEF Kept
<1>3. CASE First(h, s) # Null /\ CountOf(h, l) = Max - Spare /\ h.chunk[l].next = Null
  <2> DEFINE k == Chain(h, s, frame, l, table)
  <2>1. l \in h.storage /\ l \in Links
    BY <1>1, <1>3, Parts DEF Linked
  <2>2. Kept(k, Aside \ {frame}, S)
    BY <2>1, ChainKept
  <2> HIDE DEF k
  <2>3. Kept([k EXCEPT !.chunk[l].next = frame], Aside \ {frame}, S)
    BY <1>1, <2>1, <2>2, NextKept
  <2>4. g = [k EXCEPT !.chunk[l].next = frame]
    BY <1>3 DEF Push, k
  <2> QED
    BY <2>3, <2>4 DEF Kept
<1>4. CASE First(h, s) # Null /\ ~(CountOf(h, l) = Max - Spare /\ h.chunk[l].next = Null)
  <2>0. CASE t = Null \/ CountOf(h, t) = Max
    <3>1. g \in {Failed(h, "null"), Failed(h, "overflow")}
      BY <1>4, <2>0 DEF Push
    <3>2. Kept(g, Aside \ {frame}, h.storage)
      BY <3>1, GoodIsKept, FailedKept DEF Faults
    <3> QED  BY <3>2 DEF Kept
  <2> SUFFICES ASSUME t # Null, CountOf(h, t) # Max
               PROVE  Typed(g) /\ (g.fault = Running => Good(g, Aside \ {frame}))
    BY <2>0
  <2>1. t # Null /\ CountOf(h, t) # Max
    OBVIOUS
  <2>2. l \in h.storage
    BY <1>1, <1>4 DEF Linked
  <2>3. t \in h.storage
    BY <1>1, <2>1, <2>2 DEF Linked
  <2>4. Kept(stored, Aside \ {frame}, h.storage) /\ stored.fault = Running
    <3> HIDE DEF t
    <3> QED
      BY <2>1, <2>3, StoreKept
  <2>5. Kept(MoveChunk(stored, s, Global), Aside \ {frame}, h.storage)
    BY <2>4, MoveChunkKept, Constants
  <2>6. g \in {stored, MoveChunk(stored, s, Global)}
    BY <1>4, <2>1 DEF Push, StoredIn
  <2> HIDE DEF stored, g
  <2> QED
    BY <2>4, <2>5, <2>6 DEF Kept, g
<1> QED
  BY <1>2, <1>3, <1>4

------------------------------------------------------------------------------
(* The global stack, while it is the only one                              *)

\* The chunks ch[0..n-1] are linked both ways, and all there are.
Chunks(h, n, ch) ==
  /\ n \in Nat /\ ch \in [0..(n - 1) -> AllFrames]
  /\ h.storage = {ch[k] : k \in 0..(n - 1)}
  /\ \A j, k \in 0..(n - 1) : ch[j] = ch[k] => j = k
  /\ \A k \in 1..(n - 1) : h.chunk[ch[k - 1]].next = ch[k] /\ h.chunk[ch[k]].prev = ch[k - 1]
  /\ n > 0 => h.chunk[ch[n - 1]].next = Null

\* They are full up to the e-th, the last of the global stack, behind which one may wait
\* that is empty.
Filled(h, n, ch, e) ==
  /\ n = 0 => First(h, Global) = Null /\ Last(h, Global) = Null /\ SizeOf(h, Global) = 0
  /\ n > 0 => /\ e \in 0..(n - 1) /\ e \in {n - 1, n - 2}
              /\ First(h, Global) = ch[0] /\ Last(h, Global) = ch[e]
              /\ \A k \in 0..(e - 1) : CountOf(h, ch[k]) = Max
              /\ \A k \in (e + 1)..(n - 1) : CountOf(h, ch[k]) = 0
              /\ SizeOf(h, Global) = e * Max + CountOf(h, ch[e])

GlobalList(h) == \E n, ch, e : Chunks(h, n, ch) /\ Filled(h, n, ch, e)

\* Numbers below Word are not wrapped.
LEMMA Small ==
  ASSUME NEW a \in Nat, a < Word
  PROVE  a % Word = a
BY Constants

\* What moves no chunk and no frame of one leaves the list alone.
LEMMA ListStays ==
  ASSUME NEW h, NEW g, NEW n, NEW ch, Chunks(h, n, ch), g.storage = h.storage,
         \A d \in AllFrames : /\ g.chunk[d].next = h.chunk[d].next
                              /\ g.chunk[d].prev = h.chunk[d].prev
  PROVE  Chunks(g, n, ch)
<1>1. /\ n \in Nat /\ ch \in [0..(n - 1) -> AllFrames]
      /\ g.storage = {ch[k] : k \in 0..(n - 1)}
      /\ \A j, k \in 0..(n - 1) : ch[j] = ch[k] => j = k
  BY DEF Chunks
<1>2. ASSUME NEW k \in 1..(n - 1)
      PROVE  g.chunk[ch[k - 1]].next = ch[k] /\ g.chunk[ch[k]].prev = ch[k - 1]
  <2>1. ch[k - 1] \in AllFrames /\ ch[k] \in AllFrames
    BY <1>1
  <2>2. h.chunk[ch[k - 1]].next = ch[k] /\ h.chunk[ch[k]].prev = ch[k - 1]
    BY DEF Chunks
  <2> QED  BY <2>1, <2>2
<1>3. ASSUME n > 0
      PROVE  g.chunk[ch[n - 1]].next = Null
  <2>1. ch[n - 1] \in AllFrames
    BY <1>1, <1>3
  <2>2. h.chunk[ch[n - 1]].next = Null
    BY <1>3 DEF Chunks
  <2> QED  BY <2>1, <2>2
<1> QED  BY <1>1, <1>2, <1>3 DEF Chunks

\* A product grows with its factors.
LEMMA Product ==
  ASSUME NEW a \in Nat, NEW b \in Nat, NEW m \in Nat, a <= b
  PROVE  a * m \in Nat /\ b * m \in Nat /\ a * m <= b * m
<1>1. PICK x \in Nat : b = a + x
  <2>1. b - a \in Nat /\ b = a + (b - a)
    OBVIOUS
  <2> QED
    BY <2>1
<1>2. (a + x) * m = a * m + x * m
  OBVIOUS
<1>3. a * m \in Nat /\ x * m \in Nat
  OBVIOUS
<1> QED
  BY <1>1, <1>2, <1>3

\* There are not more chunks than frames, and the counter of the size can count what is
\* in them.
LEMMA FewChunks ==
  ASSUME NEW h, NEW n, NEW ch, Chunks(h, n, ch)
  PROVE  /\ IsFiniteSet(h.storage) /\ Cardinality(h.storage) = n
         /\ n <= NFrames + NBoot /\ n * Max < Word
<1>1. n \in Nat /\ ch \in [0..(n - 1) -> h.storage]
  BY DEF Chunks
<1> DEFINE f == [k \in 1..n |-> ch[k - 1]]
<1>2. f \in Bijection(1..n, h.storage)
  <2>1. f \in [1..n -> h.storage] /\ \A k \in 1..n : k - 1 \in 0..(n - 1) /\ f[k] = ch[k - 1]
    BY <1>1
  <2>2. \A j, k \in 1..n : f[j] = f[k] => j = k
    <3> TAKE j, k \in 1..n
    <3>1. ch[j - 1] = ch[k - 1] => j - 1 = k - 1
      BY <2>1 DEF Chunks
    <3> QED  BY <2>1, <3>1
  <2>3. \A c \in h.storage : \E k \in 1..n : f[k] = c
    <3> TAKE c \in h.storage
    <3>1. PICK k \in 0..(n - 1) : c = ch[k]
      BY DEF Chunks
    <3>2. k + 1 \in 1..n /\ f[k + 1] = ch[k]
      BY <1>1, <3>1
    <3> QED  BY <3>1, <3>2
  <2> HIDE DEF f
  <2> QED  BY <2>1, <2>2, <2>3, Zenon DEF Bijection, Injection, Surjection, IsInjective
<1>3. ExistsBijection(1..n, h.storage)
  BY <1>2 DEF ExistsBijection
<1>4. IsFiniteSet(1..n) /\ Cardinality(1..n) = n
  BY <1>1, FS_Interval
<1>5. IsFiniteSet(h.storage) /\ Cardinality(h.storage) = n
  BY <1>1, <1>3, FS_CountingElements, FS_NatBijection
<1>6. IsFiniteSet(AllFrames) /\ Cardinality(AllFrames) = NFrames + NBoot
  BY FS_Interval, Constants DEF AllFrames
<1>7. n <= NFrames + NBoot
  BY <1>1, <1>5, <1>6, FS_Subset DEF Chunks
<1>8. n * Max < Word
  <2>1. PICK d \in Nat : d = NFrames + NBoot
    BY Constants
  <2>2. n \in Nat /\ n <= d /\ Max \in Nat /\ Word \in Nat /\ Word > Max * d
    BY <1>1, <1>7, <2>1, StackAssumption
  <2>3. n * Max \in Nat /\ d * Max \in Nat /\ n * Max <= d * Max
    BY <2>1, <2>2, Product
  <2>4. Max * d = d * Max
    BY <2>1, <2>2
  <2> QED  BY <2>2, <2>3, <2>4
<1> QED  BY <1>5, <1>7, <1>8

\* A boot frame or one of the last chunk is handed out.
LEMMA PopList ==
  ASSUME NEW h, NEW Aside, Good(h, Aside), h.fault = Running, NEW locked,
         NEW n, NEW ch, NEW e, Chunks(h, n, ch), Filled(h, n, ch, e),
         PmmPop(h, Global, locked).fault = Running
  PROVE  LET g == PmmPop(h, Global, locked) IN Chunks(g, n, ch) /\ Filled(g, n, ch, e)
<1> DEFINE g == PmmPop(h, Global, locked)
<1>1. h \in HeapType /\ Global \in Stacks
  BY Constants DEF Good
<1>2. CASE h.boot > 0
  <2>1. g.chunk = h.chunk /\ g.list = h.list /\ g.storage = h.storage
    BY <1>1, <1>2 DEF PmmPop, HeapType
  <2> HIDE DEF g
  <2>2. Chunks(g, n, ch) /\ Filled(g, n, ch, e)
    BY <2>1 DEF Chunks, Filled, First, Last, SizeOf, CountOf
  <2> QED  BY <2>2 DEF g
<1>3. CASE ~(h.boot > 0)
  <2>1. g = PopTop(h, Global)
    BY <1>1, <1>3, FailedIs DEF PmmPop, Pop, Faults
  <2>2. ~PopFails(h, Global)
    BY <1>1, <2>1, FailedIs DEF PopTop, PopFails, Faults
  <2> DEFINE l == Last(h, Global)
             m == CountOf(h, l) - 1
             v == SubSeq(h.chunk[l].stack, 1, m)
  <2>3. /\ l \in AllFrames /\ m \in Nat /\ Len(v) = m /\ l # Null
        /\ g.storage = h.storage
        /\ \A d \in AllFrames : /\ g.chunk[d].next = h.chunk[d].next
                                /\ g.chunk[d].prev = h.chunk[d].prev
                                /\ g.chunk[d].stack = IF d = l THEN v ELSE h.chunk[d].stack
        /\ First(g, Global) = First(h, Global) /\ Last(g, Global) = Last(h, Global)
        /\ SizeOf(g, Global) = (SizeOf(h, Global) - 1) % Word
    BY <1>1, <2>1, <2>2, PopTopIs, Constants
  <2> HIDE DEF g, v
  <2>4. Chunks(g, n, ch)
    BY <2>3, ListStays
  <2>5. /\ n > 0 /\ n \in Nat /\ e \in 0..(n - 1) /\ l = ch[e]
        /\ \A k \in 0..(n - 1) : ch[k] \in AllFrames
    BY <2>3 DEF Chunks, Filled
  <2>6. \A d \in AllFrames : CountOf(g, d) = IF d = l THEN m ELSE CountOf(h, d)
    BY <2>3 DEF CountOf
  <2>7. \A k \in 0..(n - 1) : k # e => ch[k] # l
    BY <2>5 DEF Chunks
  <2>12. CountOf(h, l) = m + 1
    BY <1>1, <2>3, Parts
  <2> HIDE DEF m
  <2>13. PICK q \in Nat : q = e * Max
    BY <2>5, Constants
  <2>14. PICK z \in Counters : z = SizeOf(h, Global)
    BY <1>1, Parts
  <2>15. z = q + (m + 1)
    BY <2>5, <2>12, <2>13, <2>14 DEF Filled
  <2>8. z - 1 \in Nat /\ z - 1 < Word /\ z - 1 = q + m
    <3>1. PICK a \in Nat : a = m
      BY <2>3
    <3>2. z = q + (a + 1) /\ z \in Int /\ z < Word
      BY <2>14, <2>15, <3>1, Constants DEF Counters
    <3> QED  BY <2>13, <3>1, <3>2, Constants
  <2>9. SizeOf(g, Global) = e * Max + CountOf(g, ch[e])
    <3>1. SizeOf(g, Global) = z - 1
      BY <2>3, <2>8, <2>14, Small
    <3> QED  BY <2>3, <2>5, <2>6, <2>8, <2>13, <3>1
  <2>10. /\ \A k \in 0..(e - 1) : CountOf(g, ch[k]) = Max
         /\ \A k \in (e + 1)..(n - 1) : CountOf(g, ch[k]) = 0
    <3>1. \A k \in 0..(n - 1) : k # e => CountOf(g, ch[k]) = CountOf(h, ch[k])
      BY <2>5, <2>6, <2>7
    <3> QED  BY <2>5, <3>1 DEF Filled
  <2>11. Filled(g, n, ch, e)
    BY <2>3, <2>5, <2>9, <2>10 DEF Filled
  <2> QED  BY <2>4, <2>11 DEF g
<1> QED  BY <1>2, <1>3

\* The new chunk is empty, and behind the one named; else h is as it was, but for a frame
\* popped for a page table.
Chained(g, h, s, Aside, frame, prev) ==
  \E m : /\ m = h \/ m = PmmPop(h, s, TRUE)
         /\ Good(m, Aside) /\ m.fault = Running /\ m.storage = h.storage
         /\ frame \in AllFrames /\ frame \notin h.storage
         /\ g \in HeapType /\ g.list = m.list /\ g.storage = m.storage \cup {frame}
         /\ g.chunk[frame].next = Null /\ g.chunk[frame].prev = prev
         /\ CountOf(g, frame) = 0
         /\ \A d \in AllFrames : d # frame => g.chunk[d] = m.chunk[d]

\* What allocate_chained does, unless it fails.
LEMMA ChainIs ==
  ASSUME NEW h, NEW Aside, Good(h, Aside), h.fault = Running, NEW s \in Stacks,
         NEW frame \in Aside, NEW prev \in Links, NEW table \in BOOLEAN,
         Chain(h, s, frame, prev, table).fault = Running
  PROVE  Chained(Chain(h, s, frame, prev, table), h, s, Aside, frame, prev)
<1> DEFINE m == IF ~table THEN h
                ELSE IF phase = "construct" /\ h.boot = 0 THEN Failed(h, "assertion")
                ELSE PmmPop(h, s, TRUE)
           new == NewChunk(prev)
           g == [m EXCEPT !.chunk[frame] = new, !.storage = @ \cup {frame}]
<1>1. g = Chain(h, s, frame, prev, table)
  BY DEF Chain
<1>2. Kept(PmmPop(h, s, TRUE), Aside, h.storage) /\ Kept(h, Aside, h.storage)
  BY PmmPopKept, GoodIsKept
<1>3. Kept(Failed(h, "assertion"), Aside, h.storage) /\ Failed(h, "assertion").fault # Running
  BY GoodIsKept, FailedKept, FailedIs DEF Faults, Good
<1>4. /\ Kept(m, Aside, h.storage)
      /\ m.fault = Running => m = h \/ m = PmmPop(h, s, TRUE)
  BY <1>2, <1>3
<1> HIDE DEF m
<1>5. m \in HeapType
  BY <1>4 DEF Kept, Typed
<1>6. frame \in AllFrames /\ frame \notin h.storage
  BY DEF Good, Split
<1>7. new \in ChunkType /\ new.next = Null /\ new.prev = prev /\ new.stack = <<>>
  BY DEF NewChunk, ChunkType, Links
<1> HIDE DEF new
<1>8. /\ g \in HeapType /\ g.fault = m.fault /\ g.list = m.list /\ g.chunk[frame] = new
      /\ g.storage = m.storage \cup {frame}
      /\ \A d \in AllFrames : d # frame => g.chunk[d] = m.chunk[d]
  BY <1>5, <1>6, <1>7 DEF HeapType
<1> HIDE DEF g
<1>9. m.fault = Running
  BY <1>1, <1>8
<1>10. Good(m, Aside) /\ m.storage = h.storage
  BY <1>4, <1>9 DEF Kept
<1>11. CountOf(g, frame) = 0
  BY <1>7, <1>8 DEF CountOf
<1> DEFINE Is(k) == /\ k = h \/ k = PmmPop(h, s, TRUE)
                    /\ Good(k, Aside) /\ k.fault = Running /\ k.storage = h.storage
                    /\ g.list = k.list /\ g.storage = k.storage \cup {frame}
                    /\ \A d \in AllFrames : d # frame => g.chunk[d] = k.chunk[d]
<1>12. Is(m)
  BY <1>4, <1>8, <1>9, <1>10
<1>13. PICK k : Is(k)
  BY <1>12
<1>14. /\ frame \in AllFrames /\ frame \notin h.storage
       /\ g \in HeapType /\ g.chunk[frame].next = Null /\ g.chunk[frame].prev = prev
       /\ CountOf(g, frame) = 0
  BY <1>6, <1>7, <1>8, <1>11
<1> QED  BY <1>1, <1>13, <1>14 DEF Chained

\* A chunk chained is behind the others, and empty.
LEMMA ChainList ==
  ASSUME NEW h, NEW Aside, Good(h, Aside), h.fault = Running,
         NEW frame \in Aside, NEW prev \in Links, NEW table \in BOOLEAN,
         NEW n, NEW ch, NEW e, Chunks(h, n, ch), Filled(h, n, ch, e),
         Chain(h, Global, frame, prev, table).fault = Running
  PROVE  LET g == Chain(h, Global, frame, prev, table) IN
         /\ frame \in AllFrames /\ frame \notin h.storage
         /\ g \in HeapType /\ g.storage = h.storage \cup {frame}
         /\ g.chunk[frame].next = Null /\ g.chunk[frame].prev = prev /\ CountOf(g, frame) = 0
         /\ \A k \in 1..(n - 1) : g.chunk[ch[k - 1]].next = ch[k] /\ g.chunk[ch[k]].prev = ch[k - 1]
         /\ n > 0 => g.chunk[ch[n - 1]].next = Null
         /\ Filled(g, n, ch, e)
<1> DEFINE g == Chain(h, Global, frame, prev, table)
<1>0. Chained(g, h, Global, Aside, frame, prev)
  BY ChainIs, Constants
<1> HIDE DEF g
<1>1. PICK m : /\ m = h \/ m = PmmPop(h, Global, TRUE)
               /\ Good(m, Aside) /\ m.fault = Running /\ m.storage = h.storage
               /\ frame \in AllFrames /\ frame \notin h.storage
               /\ g \in HeapType /\ g.list = m.list /\ g.storage = m.storage \cup {frame}
               /\ g.chunk[frame].next = Null /\ g.chunk[frame].prev = prev
               /\ CountOf(g, frame) = 0
               /\ \A d \in AllFrames : d # frame => g.chunk[d] = m.chunk[d]
  BY <1>0 DEF Chained
<1>2. Chunks(m, n, ch) /\ Filled(m, n, ch, e)
  <2>1. CASE m = h  BY <2>1
  <2>2. CASE m = PmmPop(h, Global, TRUE)  BY <1>1, <2>2, PopList
  <2> QED  BY <1>1, <2>1, <2>2
<1>3. n \in Nat /\ \A k \in 0..(n - 1) : ch[k] \in AllFrames /\ ch[k] # frame
  BY <1>1, <1>2 DEF Chunks
<1>4. \A k \in 0..(n - 1) : g.chunk[ch[k]] = m.chunk[ch[k]] /\ CountOf(g, ch[k]) = CountOf(m, ch[k])
  BY <1>1, <1>3 DEF CountOf
<1>5. First(g, Global) = First(m, Global) /\ Last(g, Global) = Last(m, Global)
      /\ SizeOf(g, Global) = SizeOf(m, Global)
  BY <1>1 DEF First, Last, SizeOf
<1>6. \A k \in 1..(n - 1) : g.chunk[ch[k - 1]].next = ch[k] /\ g.chunk[ch[k]].prev = ch[k - 1]
  <2> TAKE k \in 1..(n - 1)
  <2>1. k \in 0..(n - 1) /\ k - 1 \in 0..(n - 1)
    BY <1>3
  <2>2. m.chunk[ch[k - 1]].next = ch[k] /\ m.chunk[ch[k]].prev = ch[k - 1]
    BY <1>2 DEF Chunks
  <2> QED  BY <1>4, <2>1, <2>2
<1>7. n > 0 => g.chunk[ch[n - 1]].next = Null
  <2> SUFFICES ASSUME n > 0 PROVE g.chunk[ch[n - 1]].next = Null
    OBVIOUS
  <2>1. n - 1 \in 0..(n - 1) /\ m.chunk[ch[n - 1]].next = Null
    BY <1>2, <1>3 DEF Chunks
  <2> QED  BY <1>4, <2>1
<1>8. Filled(g, n, ch, e)
  <2>1. CASE n = 0
    BY <1>2, <1>5, <2>1 DEF Filled
  <2>2. CASE n > 0
    <3>1. /\ e \in 0..(n - 1)
          /\ \A k \in 0..(e - 1) : k \in 0..(n - 1)
          /\ \A k \in (e + 1)..(n - 1) : k \in 0..(n - 1)
      BY <1>2, <1>3, <2>2 DEF Filled
    <3> QED  BY <1>2, <1>3, <1>4, <1>5, <2>2, <3>1 DEF Filled
  <2> QED  BY <1>3, <2>1, <2>2
<1> QED  BY <1>1, <1>6, <1>7, <1>8 DEF g

\* The first chunk of the global stack.
LEMMA FirstList ==
  ASSUME NEW h, NEW Aside, Good(h, Aside), h.fault = Running, GlobalList(h),
         NEW frame \in Aside, NEW table \in BOOLEAN, First(h, Global) = Null,
         Push(h, Global, frame, table).fault = Running
  PROVE  GlobalList(Push(h, Global, frame, table))
<1> DEFINE g == Push(h, Global, frame, table)
           k == Chain(h, Global, frame, Null, table)
           k1 == WithFirst(k, Global, frame)
<1>1. PICK n, ch, e : Chunks(h, n, ch) /\ Filled(h, n, ch, e)
  BY DEF GlobalList
<1>2. n = 0 /\ h.storage = {}
  <2>1. n > 0 => ch[0] \in AllFrames
    BY <1>1 DEF Chunks
  <2>2. n = 0
    BY <1>1, <2>1, Constants DEF Chunks, Filled
  <2> QED  BY <1>1, <2>2 DEF Chunks
<1>3. g = WithLast(k1, Global, frame)
  BY DEF Push, WithFirst, WithLast
<1>4. Typed(k) /\ Null \in Links
  BY ChainKept, Constants DEF Kept, Links
<1>0. frame \in AllFrames /\ frame \in Links
  BY DEF Good, Split, Links
<1>5. /\ k1 \in HeapType /\ SamePlaces(k1, k) /\ k1.chunk = k.chunk
      /\ First(k1, Global) = frame /\ SizeOf(k1, Global) = SizeOf(k, Global)
  BY <1>0, <1>4, Constants, WithFirstIs DEF Typed
<1> HIDE DEF k1
<1>6. /\ g \in HeapType /\ SamePlaces(g, k1) /\ g.chunk = k1.chunk
      /\ First(g, Global) = frame /\ Last(g, Global) = frame
      /\ SizeOf(g, Global) = SizeOf(k1, Global)
  BY <1>0, <1>3, <1>5, Constants, WithLastIs
<1> HIDE DEF g
<1>7. k.fault = Running
  BY <1>5, <1>6 DEF SamePlaces, g
<1>8. /\ k.storage = {frame} /\ k.chunk[frame].next = Null
      /\ CountOf(k, frame) = 0 /\ Filled(k, n, ch, e)
  BY <1>1, <1>2, <1>4, <1>7, ChainList
<1> HIDE DEF k
<1>9. /\ g.storage = {frame} /\ g.chunk[frame].next = Null /\ CountOf(g, frame) = 0
      /\ SizeOf(g, Global) = 0
  BY <1>2, <1>5, <1>6, <1>8 DEF SamePlaces, Filled, CountOf
<1> DEFINE one == [i \in 0..0 |-> frame]
<1>10. one \in [0..0 -> AllFrames] /\ one[0] = frame /\ 0..0 = {0} /\ 0..(1 - 1) = 0..0
  BY <1>0
<1>11. Chunks(g, 1, one)
  BY <1>9, <1>10 DEF Chunks
<1>12. Filled(g, 1, one, 0)
  <2>1. 0 * Max + CountOf(g, frame) = 0
    BY <1>9, Constants
  <2> HIDE DEF one
  <2> QED  BY <1>6, <1>9, <1>10, <2>1 DEF Filled
<1> QED  BY <1>11, <1>12 DEF GlobalList, g

\* One more chunk.
LEMMA NextList ==
  ASSUME NEW h, NEW Aside, Good(h, Aside), h.fault = Running, GlobalList(h),
         NEW frame \in Aside, NEW table \in BOOLEAN, First(h, Global) # Null,
         CountOf(h, Last(h, Global)) = Max - Spare, h.chunk[Last(h, Global)].next = Null,
         Push(h, Global, frame, table).fault = Running
  PROVE  GlobalList(Push(h, Global, frame, table))
<1> DEFINE g == Push(h, Global, frame, table)
           l == Last(h, Global)
           k == Chain(h, Global, frame, l, table)
<1>1. PICK n, ch, e : Chunks(h, n, ch) /\ Filled(h, n, ch, e)
  BY DEF GlobalList
<1>2. /\ n \in Nat /\ n > 0 /\ e = n - 1 /\ l = ch[n - 1]
      /\ \A i \in 0..(n - 1) : ch[i] \in AllFrames
  <2>1. n \in Nat /\ n > 0 /\ \A i \in 0..(n - 1) : ch[i] \in AllFrames
    BY <1>1 DEF Chunks, Filled
  <2>2. e \in {n - 1, n - 2} /\ e \in 0..(n - 1) /\ l = ch[e]
    BY <1>1, <2>1 DEF Filled
  <2>3. CASE e = n - 2
    <3>1. n - 1 \in 1..(n - 1) /\ (n - 1) - 1 = e /\ n - 1 \in 0..(n - 1)
      BY <2>1, <2>2, <2>3
    <3>2. h.chunk[ch[e]].next = ch[n - 1]
      BY <1>1, <3>1 DEF Chunks
    <3> QED  BY <2>1, <2>2, <3>1, <3>2, Constants
  <2> QED  BY <2>1, <2>2, <2>3
<1>3. g = WithNext(k, l, frame)
  BY DEF Push, WithNext
<1>4. l \in AllFrames /\ l \in Links /\ frame \in AllFrames /\ frame \in Links
  BY <1>2 DEF Links, Good, Split
<1>5. k \in HeapType
  BY <1>4, ChainKept, Constants DEF Kept, Typed
<1> HIDE DEF g, k, l
<1>6. /\ g \in HeapType /\ SamePlaces(g, k) /\ g.list = k.list
      /\ \A d \in AllFrames : /\ g.chunk[d].next = IF d = l THEN frame ELSE k.chunk[d].next
                              /\ g.chunk[d].prev = k.chunk[d].prev
  BY <1>3, <1>4, <1>5 DEF WithNext, SamePlaces, HeapType, ChunkType
<1>7. k.fault = Running
  BY <1>6 DEF SamePlaces, g
<1> USE DEF k, l
<1>8. /\ frame \notin h.storage /\ k.storage = h.storage \cup {frame}
      /\ k.chunk[frame].next = Null /\ k.chunk[frame].prev = l /\ CountOf(k, frame) = 0
      /\ \A i \in 1..(n - 1) : k.chunk[ch[i - 1]].next = ch[i] /\ k.chunk[ch[i]].prev = ch[i - 1]
      /\ Filled(k, n, ch, e)
  BY <1>1, <1>4, <1>7, ChainList
<1> HIDE DEF k
<1> DEFINE more == [i \in 0..((n + 1) - 1) |-> IF i = n THEN frame ELSE ch[i]]
<1>9. /\ more[n] = frame /\ \A i \in 0..(n - 1) : more[i] = ch[i]
      /\ more \in [0..((n + 1) - 1) -> AllFrames]
      /\ \A i \in 0..((n + 1) - 1) : i = n \/ i \in 0..(n - 1)
      /\ n \in 0..((n + 1) - 1) /\ \A i \in 0..(n - 1) : i \in 0..((n + 1) - 1) /\ i # n
  BY <1>2, <1>4
<1> HIDE DEF more
<1>10. \A i \in 0..(n - 1) : ch[i] \in h.storage /\ ch[i] # frame
  BY <1>1, <1>8 DEF Chunks
<1>11. \A i \in 0..(n - 1) : i # n - 1 => ch[i] # l
  BY <1>1, <1>2 DEF Chunks
<1>12. Chunks(g, n + 1, more)
  <2>1. g.storage = {more[i] : i \in 0..((n + 1) - 1)}
    <3>1. g.storage = h.storage \cup {frame} /\ h.storage = {ch[i] : i \in 0..(n - 1)}
      BY <1>1, <1>6, <1>8 DEF Chunks, SamePlaces
    <3>2. \A c \in g.storage : \E i \in 0..((n + 1) - 1) : c = more[i]
      BY <1>9, <3>1
    <3>3. \A i \in 0..((n + 1) - 1) : more[i] \in g.storage
      BY <1>9, <3>1
    <3> QED  BY <3>2, <3>3
  <2>2. \A i, j \in 0..((n + 1) - 1) : more[i] = more[j] => i = j
    <3> TAKE i, j \in 0..((n + 1) - 1)
    <3>1. CASE i = n \/ j = n
      BY <1>9, <1>10, <3>1
    <3>2. CASE i # n /\ j # n
      <4>1. i \in 0..(n - 1) /\ j \in 0..(n - 1)
        BY <1>9, <3>2
      <4>2. ch[i] = ch[j] => i = j
        BY <1>1, <4>1 DEF Chunks
      <4> QED  BY <1>9, <4>1, <4>2
    <3> QED  BY <3>1, <3>2
  <2>3. \A i \in 1..((n + 1) - 1) : g.chunk[more[i - 1]].next = more[i]
                                    /\ g.chunk[more[i]].prev = more[i - 1]
    <3> TAKE i \in 1..((n + 1) - 1)
    <3>1. CASE i = n
      <4>1. n - 1 \in 0..(n - 1) /\ more[i - 1] = l /\ more[i] = frame /\ l # frame
        BY <1>2, <1>9, <1>10, <3>1
      <4> QED  BY <1>4, <1>6, <1>8, <4>1
    <3>2. CASE i # n
      <4>1. i \in 1..(n - 1) /\ i - 1 \in 0..(n - 1) /\ i \in 0..(n - 1) /\ i - 1 # n - 1
        BY <1>2, <3>2
      <4>2. more[i - 1] = ch[i - 1] /\ more[i] = ch[i] /\ ch[i - 1] # l
            /\ ch[i - 1] \in AllFrames /\ ch[i] \in AllFrames
        BY <1>2, <1>9, <1>11, <4>1
      <4> QED  BY <1>6, <1>8, <4>1, <4>2
    <3> QED  BY <3>1, <3>2
  <2>4. g.chunk[more[(n + 1) - 1]].next = Null
    <3>1. (n + 1) - 1 = n /\ n - 1 \in 0..(n - 1)
      BY <1>2
    <3>2. l # frame
      BY <1>2, <1>10, <3>1
    <3> QED  BY <1>4, <1>6, <1>8, <1>9, <3>1, <3>2
  <2> QED  BY <1>2, <1>9, <2>1, <2>2, <2>3, <2>4 DEF Chunks
<1>13. Filled(g, n + 1, more, e)
  <2>1. \A d \in AllFrames : CountOf(g, d) = CountOf(k, d)
    BY <1>6 DEF SamePlaces, CountOf
  <2>2. /\ First(g, Global) = ch[0] /\ Last(g, Global) = ch[e]
        /\ SizeOf(g, Global) = e * Max + CountOf(k, ch[e])
        /\ \A i \in 0..(e - 1) : CountOf(k, ch[i]) = Max
    BY <1>2, <1>6, <1>8 DEF Filled, First, Last, SizeOf
  <2>3. e \in 0..(n - 1) /\ 0 \in 0..(n - 1) /\ more[e] = ch[e] /\ more[0] = ch[0]
        /\ ch[e] \in AllFrames
    BY <1>2, <1>9
  <2>4. \A i \in 0..(e - 1) : CountOf(g, more[i]) = Max
    <3> TAKE i \in 0..(e - 1)
    <3>1. i \in 0..(n - 1)
      BY <1>2
    <3> QED  BY <1>2, <1>9, <2>1, <2>2, <3>1
  <2>5. \A i \in (e + 1)..((n + 1) - 1) : CountOf(g, more[i]) = 0
    <3> TAKE i \in (e + 1)..((n + 1) - 1)
    <3>1. i = n
      BY <1>2
    <3> QED  BY <1>4, <1>8, <1>9, <2>1, <3>1
  <2>6. SizeOf(g, Global) = e * Max + CountOf(g, more[e])
    BY <2>1, <2>2, <2>3
  <2>7. n + 1 > 0 /\ n + 1 # 0 /\ e \in 0..((n + 1) - 1) /\ e = (n + 1) - 2
    BY <1>2
  <2> QED  BY <2>2, <2>3, <2>4, <2>5, <2>6, <2>7 DEF Filled
<1> QED  BY <1>12, <1>13 DEF GlobalList, g

\* One more frame in the last chunk, or in the empty one behind it.
LEMMA StoreList ==
  ASSUME NEW h, NEW Aside, Good(h, Aside), h.fault = Running, GlobalList(h),
         NEW frame \in Aside, NEW table \in BOOLEAN, First(h, Global) # Null,
         ~(CountOf(h, Last(h, Global)) = Max - Spare /\ h.chunk[Last(h, Global)].next = Null),
         Push(h, Global, frame, table).fault = Running
  PROVE  GlobalList(Push(h, Global, frame, table))
<1> DEFINE l == Last(h, Global)
           t == IF CountOf(h, l) = Max THEN h.chunk[l].next ELSE l
           g == Push(h, Global, frame, table)
<1>1. PICK n, ch, e : Chunks(h, n, ch) /\ Filled(h, n, ch, e)
  BY DEF GlobalList
<1>2. /\ h \in HeapType /\ Linked(h)
      /\ \A d \in AllFrames : CountOf(h, d) <= Max /\ CountOf(h, d) \in Nat
  BY GoodIsKept, Parts DEF Good, Typed
<1>3. t # Null /\ CountOf(h, t) # Max /\ g = StoredIn(h, Global, t, frame)
  BY <1>2, FailedIs DEF Push, Faults, StoredIn
<1>4. /\ n \in Nat /\ n > 0 /\ e \in 0..(n - 1) /\ e \in {n - 1, n - 2} /\ l = ch[e]
      /\ \A i \in 0..(n - 1) : ch[i] \in AllFrames /\ ch[i] \in h.storage
  BY <1>1 DEF Chunks, Filled
\* The index of t.
<1>5. PICK f \in 0..(n - 1) : /\ t = ch[f] /\ f \in {n - 1, n - 2} /\ f \in {e, e + 1}
                              /\ f = e + 1 => CountOf(h, ch[e]) = Max
  <2>1. CASE CountOf(h, l) # Max
    BY <1>4, <2>1
  <2>2. CASE CountOf(h, l) = Max
    <3>1. t = h.chunk[ch[e]].next
      BY <1>4, <2>2
    <3>2. e # n - 1
      BY <1>1, <1>3, <1>4, <3>1 DEF Chunks
    <3>3. e = n - 2 /\ n - 1 \in 1..(n - 1) /\ (n - 1) - 1 = e /\ n - 1 \in 0..(n - 1)
          /\ n - 1 = e + 1
      BY <1>4, <3>2
    <3>4. t = ch[n - 1]
      BY <1>1, <3>1, <3>3 DEF Chunks
    <3> QED  BY <1>4, <2>2, <3>3, <3>4
  <2> QED  BY <2>1, <2>2
<1> HIDE DEF t
<1> DEFINE w == h.chunk[t].stack
           v == Append(w, frame)
<1>15. t \in h.storage /\ Global \in Stacks /\ frame \in AllFrames /\ frame \notin Stored(h)
  BY <1>4, <1>5, Constants DEF Good, Split
<1>6. /\ t \in AllFrames /\ Len(v) = CountOf(h, t) + 1 /\ g.storage = h.storage
      /\ \A d \in AllFrames : /\ g.chunk[d].next = h.chunk[d].next
                              /\ g.chunk[d].prev = h.chunk[d].prev
                              /\ g.chunk[d].stack = IF d = t THEN v ELSE h.chunk[d].stack
      /\ First(g, Global) = First(h, Global) /\ Last(g, Global) = t
      /\ SizeOf(g, Global) = (SizeOf(h, Global) + 1) % Word
  BY <1>3, <1>15, StoreIs
<1> HIDE DEF g, v
<1>7. Chunks(g, n, ch)
  BY <1>1, <1>6, ListStays
<1>8. \A d \in AllFrames : CountOf(g, d) = IF d = t THEN CountOf(h, t) + 1 ELSE CountOf(h, d)
  BY <1>6 DEF CountOf
<1>9. \A i \in 0..(n - 1) : /\ CountOf(g, ch[i]) = IF i = f THEN CountOf(h, t) + 1
                                                   ELSE CountOf(h, ch[i])
  <2> TAKE i \in 0..(n - 1)
  <2>1. i # f => ch[i] # t
    BY <1>1, <1>5 DEF Chunks
  <2> QED  BY <1>4, <1>5, <1>8, <2>1
<1>10. /\ \A i \in 0..(e - 1) : CountOf(h, ch[i]) = Max
       /\ \A i \in (e + 1)..(n - 1) : CountOf(h, ch[i]) = 0
       /\ SizeOf(h, Global) = e * Max + CountOf(h, ch[e])
  BY <1>1, <1>4 DEF Filled
<1>11. SizeOf(h, Global) = f * Max + CountOf(h, t)
  <2>1. CASE f = e
    BY <1>5, <1>10, <2>1
  <2>2. CASE f = e + 1
    <3>1. CountOf(h, t) = 0 /\ CountOf(h, ch[e]) = Max
      BY <1>4, <1>5, <1>10, <2>2
    <3>2. (e + 1) * Max = e * Max + Max
      BY <1>4, Constants
    <3> QED  BY <1>10, <2>2, <3>1, <3>2, <1>4, Constants
  <2> QED  BY <1>5, <2>1, <2>2
<1>12. SizeOf(g, Global) = f * Max + (CountOf(h, t) + 1)
  <2>1. PICK a \in Nat : a = CountOf(h, t)
    BY <1>2, <1>6
  <2>2. a + 1 <= Max
    BY <1>2, <1>3, <1>6, <2>1, Constants
  <2>3. PICK q \in Nat : q = f * Max
    BY <1>4, <1>5, Constants
  <2>4. q + Max <= n * Max
    <3>1. (f + 1) * Max <= n * Max
      BY <1>4, <1>5, Constants
    <3>2. (f + 1) * Max = f * Max + Max
      BY <1>4, <1>5, Constants
    <3> QED  BY <2>3, <3>1, <3>2
  <2>5. n * Max < Word /\ n * Max \in Nat
    BY <1>1, <1>4, FewChunks, Constants
  <2>6. q + a + 1 \in Nat /\ q + a + 1 < Word
    BY <2>2, <2>4, <2>5, Constants
  <2>7. SizeOf(h, Global) + 1 = q + a + 1
    BY <1>11, <2>1, <2>3
  <2>8. (q + a + 1) % Word = q + a + 1
    BY <2>6, Small
  <2> QED  BY <1>6, <2>1, <2>3, <2>7, <2>8
<1>13. Filled(g, n, ch, f)
  <2>1. \A i \in 0..(f - 1) : CountOf(g, ch[i]) = Max
    <3> TAKE i \in 0..(f - 1)
    <3>1. i \in 0..(n - 1) /\ i # f /\ (i \in 0..(e - 1) \/ (i = e /\ f = e + 1))
      BY <1>4, <1>5
    <3> QED  BY <1>5, <1>9, <1>10, <3>1
  <2>2. \A i \in (f + 1)..(n - 1) : CountOf(g, ch[i]) = 0
    <3> TAKE i \in (f + 1)..(n - 1)
    <3>1. i \in 0..(n - 1) /\ i # f /\ i \in (e + 1)..(n - 1)
      BY <1>4, <1>5
    <3> QED  BY <1>9, <1>10, <3>1
  <2>3. CountOf(g, ch[f]) = CountOf(h, t) + 1
    BY <1>5, <1>9
  <2>4. First(g, Global) = ch[0] /\ Last(g, Global) = ch[f]
    BY <1>1, <1>4, <1>5, <1>6 DEF Filled
  <2> QED  BY <1>4, <1>5, <1>12, <2>1, <2>2, <2>3, <2>4 DEF Filled
<1> QED  BY <1>7, <1>13 DEF GlobalList, g

\* A push on the global stack keeps it a list.
LEMMA PushList ==
  ASSUME NEW h, NEW Aside, Good(h, Aside), h.fault = Running, GlobalList(h),
         NEW frame \in Aside, NEW table \in BOOLEAN,
         Push(h, Global, frame, table).fault = Running
  PROVE  GlobalList(Push(h, Global, frame, table))
BY FirstList, NextList, StoreList

------------------------------------------------------------------------------
(* Steps                                                                   *)

\* What an operation leaves is the next heap.
LEMMA BecomesIs ==
  ASSUME NEW h, Becomes(h)
  PROVE  fault' = h.fault /\ (h \in HeapType => heap' = h)
BY DEF Becomes, heap, HeapType

\* The invariant of the heap, for what an operation leaves.
LEMMA HeapKept ==
  ASSUME NEW h, NEW Aside, Becomes(h), Typed(h), h.fault = Running => Good(h, Aside)
  PROVE  Typed(heap') /\ (fault' = Running => Good(heap', Aside))
<1>1. heap' = h /\ fault' = h.fault
  BY BecomesIs DEF Typed
<1> QED
  BY <1>1

\* A frame of the memory map is pushed.
LEMMA ConstructKeeps ==
  ASSUME IInv, fault = Running, Construct
  PROVE  IInv'
<1>1. PICK table \in BOOLEAN : Becomes(Push(heap, Global, fed + 1, table))
  BY DEF Construct
<1> DEFINE h == Push(heap, Global, fed + 1, table)
<1>2. Good(heap, Ahead) /\ heap.fault = Running /\ fed \in 0..NFrames /\ fed < NFrames
  BY DEF IInv, Construct, heap
<1>3. fed + 1 \in Ahead /\ Ahead' = Ahead \ {fed + 1} /\ fed' \in 0..NFrames
  BY <1>2, Constants DEF Ahead, Construct
<1>4. Typed(h) /\ (h.fault = Running => Good(h, Ahead \ {fed + 1}))
  BY <1>2, <1>3, Constants, PushGood
<1> HIDE DEF h
<1>5. Typed(heap') /\ (fault' = Running => Good(heap', Ahead \ {fed + 1}))
  BY <1>1, <1>4, HeapKept DEF h
<1> QED
  BY <1>3, <1>5 DEF IInv, Construct

\* Boot goes on, no frame moves.
LEMMA PhaseKeeps ==
  ASSUME IInv, fault = Running, Constructed \/ Ready
  PROVE  IInv'
BY DEF IInv, Constructed, Ready, heap, Ahead, Typed, CountOf

\* A core takes its share.
LEMMA ApInitializeKeeps ==
  ASSUME IInv, fault = Running, NEW c \in Cores, ApInitialize(c)
  PROVE  IInv'
<1> DEFINE share == IF amount = 0 THEN SizeOf(heap, Global) \div (2 * Cardinality(Cores) * Max)
                    ELSE amount
           b == ((share * 3) \div 2) * Max
           h == [heap EXCEPT !.list[c].balance = b]
           g == MoveChunks(h, Global, c, share, -1)
<1>1. Good(heap, Ahead) /\ heap.fault = Running /\ heap \in HeapType /\ c \in Stacks
  BY Constants DEF IInv, heap, Good
<1>2. share \in Nat
  <2>1. Cardinality(Cores) \in Nat /\ Cardinality(Cores) # 0
    BY Constants, FS_CardinalityType, FS_EmptySet
  <2>2. PICK d \in Int : d = 2 * Cardinality(Cores) * Max
    BY <2>1, Constants
  <2>3. d > 0
    BY <2>1, <2>2, Constants
  <2>4. SizeOf(heap, Global) \in Nat
    BY <1>1, Constants, Parts
  <2>5. SizeOf(heap, Global) \div d \in Nat
    BY <2>2, <2>3, <2>4
  <2> QED
    BY <2>2, <2>5 DEF IInv
<1>3. /\ amount' = share /\ joined' = joined \cup {c} /\ Becomes(g)
      /\ UNCHANGED <<phase, fed>>
  BY DEF ApInitialize
<1> HIDE DEF share
<1>4. b \in Nat
  <2>1. (share * 3) \div 2 \in Nat
    BY <1>2
  <2> QED
    BY <2>1, Constants
<1> HIDE DEF b
<1>5. h \in HeapType /\ SamePlaces(h, heap) /\ h.chunk = heap.chunk /\ h.fault = Running
  BY <1>1, <1>4 DEF HeapType, ListType, SamePlaces
<1>6. \A s \in Stacks : First(h, s) = First(heap, s) /\ Last(h, s) = Last(heap, s)
  BY <1>1, <1>4 DEF HeapType, ListType, First, Last
<1> HIDE DEF h
<1>7. Linked(h)
  BY <1>1, <1>5, <1>6 DEF Good, Linked, SamePlaces
<1>8. Good(h, Ahead)
  BY <1>1, <1>5, <1>7, Relinked DEF SamePlaces
<1>9. Kept(g, Ahead, h.storage)
  <2>1. Kept(h, Ahead, h.storage)
    BY <1>8, GoodIsKept
  <2> QED
    BY <1>1, <1>2, <2>1, Constants, MoveChunksKept
<1> HIDE DEF g
<1>10. Typed(heap') /\ (fault' = Running => Good(heap', Ahead))
  BY <1>3, <1>9, HeapKept DEF Kept
<1>11. Ahead' = Ahead
  BY <1>3 DEF Ahead
<1> QED
  BY <1>2, <1>3, <1>10, <1>11 DEF IInv

\* memory::pmm::pop by the owner of a stack.
LEMMA AllocateKeeps ==
  ASSUME IInv, fault = Running, NEW s \in Stacks, Allocate(s)
  PROVE  IInv'
<1> DEFINE g == PmmPop(heap, s, FALSE)
<1>1. Good(heap, Ahead) /\ heap.fault = Running
  BY DEF IInv, heap
<1>2. Becomes(g) /\ UNCHANGED <<phase, fed, amount, joined>>
  BY DEF Allocate
<1>3. Typed(g) /\ (g.fault = Running => Good(g, Ahead))
  BY <1>1, PmmPopKept DEF Kept
<1> HIDE DEF g
<1>4. Typed(heap') /\ (fault' = Running => Good(heap', Ahead))
  BY <1>2, <1>3, HeapKept
<1> QED
  BY <1>2, <1>4 DEF IInv, Ahead

\* A frame given back is out no longer, and nowhere yet.
LEMMA FreedGood ==
  ASSUME IInv, fault = Running, NEW f \in out
  PROVE  LET h == WithOut(heap, heap.out \ {f})
         IN /\ Good(h, Ahead \cup {f}) /\ h.fault = Running
            /\ h.chunk = heap.chunk /\ h.list = heap.list /\ h.storage = heap.storage
<1> DEFINE h == WithOut(heap, heap.out \ {f})
<1>1. /\ Good(heap, Ahead) /\ heap.fault = Running /\ heap \in HeapType /\ f \in heap.out
      /\ Linked(heap) /\ Contents(heap)
      /\ Split(Ahead, Early(heap), heap.out, heap.storage, Stored(heap))
  BY DEF IInv, heap, Good
<1>2. /\ h \in HeapType /\ h.list = heap.list /\ h.chunk = heap.chunk
      /\ h.storage = heap.storage /\ h.out = heap.out \ {f} /\ h.boot = heap.boot
      /\ h.fault = Running
  <2>1. heap.out \ {f} \in SUBSET AllFrames
    BY <1>1, Parts
  <2> QED
    BY <1>1, <2>1, WithOutIs
<1> HIDE DEF h
<1>3. Linked(h) /\ Contents(h) /\ Stored(h) = Stored(heap) /\ Early(h) = Early(heap)
  BY <1>1, <1>2 DEF Linked, Contents, Stored, Early, First, Last, CountOf
<1>4. Good(h, Ahead \cup {f})
  BY <1>1, <1>2, <1>3, SplitMoves DEF Good
<1> QED
  BY <1>2, <1>4 DEF h

\* memory::pmm::push of a frame that has been handed out.
LEMMA FreeKeeps ==
  ASSUME IInv, fault = Running, NEW s \in Stacks, NEW f, Free(s, f)
  PROVE  IInv'
<1> DEFINE h == WithOut(heap, heap.out \ {f})
<1>1. PICK table \in BOOLEAN : Becomes(Push([heap EXCEPT !.out = @ \ {f}], s, f, table))
  BY DEF Free
<1> DEFINE g == Push(h, s, f, table)
<1>2. Becomes(g) /\ f \in out /\ UNCHANGED <<phase, fed, amount, joined>>
  BY <1>1 DEF Free, WithOut
<1>3. Good(h, Ahead \cup {f}) /\ h.fault = Running
  BY <1>2, FreedGood
<1> HIDE DEF h
<1>4. Typed(g) /\ (g.fault = Running => Good(g, (Ahead \cup {f}) \ {f}))
  BY <1>3, PushGood
<1>5. (Ahead \cup {f}) \ {f} = Ahead
  BY <1>2 DEF Split, IInv, Good, heap
<1> HIDE DEF g
<1>6. Typed(heap') /\ (fault' = Running => Good(heap', Ahead))
  BY <1>2, <1>4, <1>5, HeapKept
<1> QED
  BY <1>2, <1>6 DEF IInv, Ahead

\* At first all frames are unseen or boot frames.
LEMMA InitHolds ==
  ASSUME Init
  PROVE  IInv
<1>1. /\ heap.storage = {} /\ heap.out = {} /\ heap.boot = NBoot /\ fed = 0 /\ fault = Running
      /\ heap.chunk = [c \in AllFrames |-> NewChunk(Null)]
      /\ heap.list = [s \in Stacks |-> [first |-> Null, last |-> Null, size |-> 0, balance |-> 0]]
  BY DEF Init, heap
<1>2. NewChunk(Null) \in ChunkType /\ NewChunk(Null).stack = <<>>
  BY DEF NewChunk, ChunkType, Links
<1>3. [first |-> Null, last |-> Null, size |-> 0, balance |-> 0] \in ListType
  BY Constants DEF ListType, Links, Counters
<1>4. heap \in HeapType
  BY <1>1, <1>2, <1>3, Constants DEF HeapType, heap
<1>5. Linked(heap)
  BY <1>1 DEF Linked, First, Last
<1>6. Contents(heap)
  BY <1>1, <1>2, Constants DEF Contents, CountOf
<1>7. Split(Ahead, Early(heap), heap.out, heap.storage, Stored(heap))
  <2>1. Stored(heap) = {}
    BY <1>1 DEF Stored
  <2>2. Ahead = 1..NFrames /\ Early(heap) = (NFrames + 1)..(NFrames + NBoot)
    BY <1>1, Constants DEF Ahead, Early
  <2>3. AllFrames = Ahead \cup Early(heap) /\ Ahead \cap Early(heap) = {}
    BY <2>2, Constants DEF AllFrames
  <2> QED
    BY <1>1, <2>1, <2>3 DEF Split
<1> QED
  BY <1>1, <1>4, <1>5, <1>6, <1>7, GoodIsKept, Constants DEF IInv, Good, Init

\* Every step keeps the invariant.
LEMMA StepHolds ==
  ASSUME IInv, [Next]_vars
  PROVE  IInv'
<1>1. CASE Next
  BY <1>1, ConstructKeeps, PhaseKeeps, ApInitializeKeeps, AllocateKeeps, FreeKeeps DEF Next
<1>2. CASE UNCHANGED vars
  BY <1>2 DEF vars, IInv, heap, Ahead, Typed, CountOf
<1> QED
  BY <1>1, <1>2

\* The invariant says where every frame is.
LEMMA ConservedFollows ==
  ASSUME IInv
  PROVE  Conserved
<1> SUFFICES ASSUME fault = Running PROVE Conserved
  BY DEF Conserved
<1>1. /\ heap \in HeapType /\ Contents(heap) /\ storage \subseteq AllFrames
      /\ Split(Ahead, Early(heap), out, storage, Stored(heap))
      /\ heap.chunk = chunk /\ heap.storage = storage
  <2>1. Good(heap, Ahead) /\ heap.out = out /\ heap.storage = storage /\ heap.chunk = chunk
    BY DEF IInv, heap
  <2> QED
    BY <2>1, Parts DEF Good
<1>2. \A c \in storage : CountOf(heap, c) \in Nat /\ CountOf(heap, c) <= Max
  BY <1>1, Parts DEF Contents
<1>3. \A f : Places(f) = {x \in storage \X Nat : /\ x[2] \in 1..CountOf(heap, x[1])
                                               /\ chunk[x[1]].stack[x[2]] = f}
  BY <1>2, Constants DEF Places
<1>4. FreeFrames = Stored(heap)
  <2>1. \A f \in AllFrames :
          IsFree(f) <=> \E c \in storage : \E i \in 1..CountOf(heap, c) : chunk[c].stack[i] = f
    <3> TAKE f \in AllFrames
    <3>1. ASSUME NEW c \in storage, NEW i \in 1..CountOf(heap, c), chunk[c].stack[i] = f
          PROVE  IsFree(f)
      <4>1. <<c, i>> \in Places(f)
        BY <1>2, <1>3, <3>1
      <4> QED
        BY <4>1 DEF IsFree
    <3>2. ASSUME IsFree(f)
          PROVE  \E c \in storage : \E i \in 1..CountOf(heap, c) : chunk[c].stack[i] = f
      <4>1. PICK x : x \in Places(f)
        BY <3>2 DEF IsFree
      <4> QED
        BY <1>3, <4>1
    <3> QED
      BY <3>1, <3>2
  <2> QED
    BY <1>1, <2>1 DEF FreeFrames, Stored
<1>5. Unseen = Ahead \cup Early(heap)
  BY DEF Unseen, Ahead, Early, heap
<1>6. \A f \in FreeFrames : Cardinality(Places(f)) = 1
  <2> TAKE f \in FreeFrames
  <2>1. PICK x : x \in Places(f)
    BY DEF FreeFrames, IsFree
  <2>2. \A y \in Places(f) : y = x
    <3> TAKE y \in Places(f)
    <3>1. /\ x \in storage \X Nat /\ x[2] \in 1..CountOf(heap, x[1]) /\ chunk[x[1]].stack[x[2]] = f
          /\ y \in storage \X Nat /\ y[2] \in 1..CountOf(heap, y[1]) /\ chunk[y[1]].stack[y[2]] = f
      BY <1>3, <2>1
    <3>2. x[1] = y[1] /\ x[2] = y[2]
      BY <1>1, <3>1 DEF Contents
    <3> QED
      BY <3>1, <3>2
  <2>3. Places(f) = {x}
    BY <2>1, <2>2
  <2> QED
    BY <2>3, FS_Singleton
<1> DEFINE places == <<Unseen, out, storage, FreeFrames>>
<1>7. /\ AllFrames = Unseen \cup out \cup storage \cup FreeFrames
      /\ Unseen \cap out = {} /\ Unseen \cap storage = {} /\ Unseen \cap FreeFrames = {}
      /\ out \cap storage = {} /\ out \cap FreeFrames = {} /\ storage \cap FreeFrames = {}
  BY <1>1, <1>4, <1>5, Zenon DEF Split
<1>8. UNION {places[i] : i \in 1..4} = Unseen \cup out \cup storage \cup FreeFrames
  <2>1. 1..4 = {1, 2, 3, 4}
    OBVIOUS
  <2>2. places[1] = Unseen /\ places[2] = out /\ places[3] = storage /\ places[4] = FreeFrames
    OBVIOUS
  <2> HIDE DEF places
  <2> QED
    BY <2>1, <2>2
<1>9. \A i, j \in 1..4 : i # j => places[i] \cap places[j] = {}
  <2>1. 1..4 = {1, 2, 3, 4}
    OBVIOUS
  <2>2. places[1] = Unseen /\ places[2] = out /\ places[3] = storage /\ places[4] = FreeFrames
    OBVIOUS
  <2> HIDE DEF places
  <2> QED
    BY <1>7, <2>1, <2>2
<1> QED
  BY <1>6, <1>7, <1>8, <1>9 DEF Conserved

------------------------------------------------------------------------------
(* The global stack until the cores share it                               *)

ListInv == /\ ops \in 0..MaxOps
           /\ (fault = Running /\ joined = {}) => GlobalList(heap)

\* At first it is empty.
LEMMA ListInit ==
  ASSUME Init
  PROVE  ListInv
<1>1. heap.storage = {}
  BY DEF Init, heap
<1>2. Filled(heap, 0, <<>>, 0)
  BY Constants DEF Init, Filled, First, Last, SizeOf, heap
<1>3. \A k \in 0..(0 - 1) : FALSE
  OBVIOUS
<1>4. <<>> \in [0..(0 - 1) -> AllFrames]
  BY <1>3
<1>5. Chunks(heap, 0, <<>>)
  BY <1>1, <1>3, <1>4 DEF Chunks
<1>6. ops \in 0..MaxOps
  BY StackAssumption DEF Init
<1> QED
  BY <1>2, <1>5, <1>6 DEF ListInv, GlobalList

\* What an operation on it leaves is the next heap.
LEMMA ListBecomes ==
  ASSUME NEW h, Becomes(h), Typed(h), h.fault = Running => GlobalList(h)
  PROVE  fault' = Running => GlobalList(heap')
<1>1. heap' = h /\ fault' = h.fault
  BY BecomesIs DEF Typed
<1> QED
  BY <1>1

\* The steps until the first core joins.
LEMMA ListStep ==
  ASSUME IInv, ListInv, [Next]_vars
  PROVE  ListInv'
<1>1. Good(heap, Ahead) \/ fault # Running
  BY DEF IInv
<1>2. heap.fault = fault
  BY DEF heap
<1>3. CASE Next /\ Construct
  <2>1. PICK table \in BOOLEAN : Becomes(Push(heap, Global, fed + 1, table))
    BY <1>3 DEF Construct
  <2> DEFINE h == Push(heap, Global, fed + 1, table)
  <2>2. Good(heap, Ahead) /\ heap.fault = Running /\ fed + 1 \in Ahead
    BY <1>1, <1>2, <1>3, Constants DEF Next, Construct, IInv, Ahead
  <2>3. Typed(h)
    BY <2>2, Constants, PushGood
  <2>4. GlobalList(heap) => (h.fault = Running => GlobalList(h))
    BY <2>2, PushList
  <2> HIDE DEF h
  <2>5. GlobalList(heap) => (fault' = Running => GlobalList(heap'))
    BY <2>1, <2>3, <2>4, ListBecomes DEF h
  <2> QED  BY <1>3, <2>5 DEF Next, Construct, ListInv
<1>4. CASE Constructed \/ Ready
  BY <1>4 DEF ListInv, Constructed, Ready, heap
<1>5. CASE \E c \in Cores : ApInitialize(c)
  BY <1>5 DEF ApInitialize, ListInv
<1>6. ASSUME Next, NEW s \in Stacks, Allocate(s)
      PROVE  ListInv'
  <2>0. ops \in 0..MaxOps /\ ops < MaxOps /\ ops' = ops + 1 /\ MaxOps \in Nat
    BY <1>6, StackAssumption DEF Allocate, ListInv
  <2>1. Becomes(PmmPop(heap, s, FALSE)) /\ joined' = joined
    BY <1>6 DEF Allocate
  <2>7. ops' \in 0..MaxOps
    BY <2>0
  <2>2. SUFFICES ASSUME joined = {}, ListInv PROVE fault' = Running => GlobalList(heap')
    BY <2>1, <2>7 DEF ListInv
  <2>3. s = Global
    BY <1>6, <2>2 DEF Allocate, InUse
  <2>4. Good(heap, Ahead) /\ heap.fault = Running /\ GlobalList(heap)
    BY <1>1, <1>2, <1>6, <2>2 DEF Next, ListInv
  <2> DEFINE g == PmmPop(heap, Global, FALSE)
  <2>5. Typed(g)
    BY <2>4, Constants, PmmPopKept DEF Kept
  <2>6. g.fault = Running => GlobalList(g)
    <3>1. PICK n, ch, e : Chunks(heap, n, ch) /\ Filled(heap, n, ch, e)
      BY <2>4 DEF GlobalList
    <3>2. g.fault = Running => Chunks(g, n, ch) /\ Filled(g, n, ch, e)
      BY <2>4, <3>1, PopList
    <3> HIDE DEF g
    <3> QED  BY <3>2 DEF GlobalList
  <2> HIDE DEF g
  <2> QED  BY <2>1, <2>3, <2>5, <2>6, ListBecomes DEF g
<1>7. ASSUME Next, NEW s \in Stacks, NEW f \in AllFrames, Free(s, f)
      PROVE  ListInv'
  <2> DEFINE h == WithOut(heap, heap.out \ {f})
  <2>1. PICK table \in BOOLEAN : Becomes(Push([heap EXCEPT !.out = @ \ {f}], s, f, table))
    BY <1>7 DEF Free
  <2>2. Becomes(Push(h, s, f, table)) /\ f \in out /\ joined' = joined /\ ops' \in 0..MaxOps
    BY <1>7, <2>1, StackAssumption DEF Free, ListInv, WithOut
  <2>3. SUFFICES ASSUME joined = {}, ListInv PROVE fault' = Running => GlobalList(heap')
    BY <2>2 DEF ListInv
  <2>4. s = Global
    BY <1>7, <2>3 DEF Free, InUse
  <2>5. fault = Running /\ GlobalList(heap)
    BY <1>7, <2>3 DEF Next, ListInv
  <2>6. /\ Good(h, Ahead \cup {f}) /\ h.fault = Running
        /\ h.chunk = heap.chunk /\ h.list = heap.list /\ h.storage = heap.storage
    BY <2>2, <2>5, FreedGood
  <2> HIDE DEF h
  <2>7. GlobalList(h)
    <3>1. PICK n, ch, e : Chunks(heap, n, ch) /\ Filled(heap, n, ch, e)
      BY <2>5 DEF GlobalList
    <3>2. Chunks(h, n, ch) /\ Filled(h, n, ch, e)
      BY <2>6, <3>1 DEF Chunks, Filled, First, Last, SizeOf, CountOf
    <3> QED  BY <3>2 DEF GlobalList
  <2> DEFINE g == Push(h, Global, f, table)
  <2>8. Typed(g)
    BY <2>6, Constants, PushGood
  <2>9. g.fault = Running => GlobalList(g)
    BY <2>6, <2>7, PushList
  <2> HIDE DEF g
  <2> QED  BY <2>2, <2>4, <2>8, <2>9, ListBecomes DEF g
<1>8. CASE UNCHANGED vars
  BY <1>8 DEF vars, ListInv, heap
<1> QED
  BY <1>3, <1>4, <1>5, <1>6, <1>7, <1>8 DEF Next

\* The chunks of the list are those that At counts.
LEMMA AtIs ==
  ASSUME NEW n, NEW ch, NEW e, Chunks(heap, n, ch), Filled(heap, n, ch, e)
  PROVE  \A k \in 0..n : At(Global)[k] = IF k < n THEN ch[k] ELSE Null
<1> DEFINE Is(r) == r = [k \in Nat |-> IF k = 0 THEN list[Global].first
                                       ELSE IF r[k - 1] = Null THEN Null
                                       ELSE chunk[r[k - 1]].next]
           w == [k \in Nat |-> IF k < n THEN ch[k] ELSE Null]
           A == CHOOSE r : Is(r)
<1>1. n \in Nat /\ \A k \in 0..(n - 1) : ch[k] \in AllFrames /\ ch[k] # Null
  BY Constants DEF Chunks
<1>2. Is(w)
  <2>1. w[0] = list[Global].first
    BY <1>1 DEF Filled, First, heap
  <2>2. \A k \in Nat : k # 0 => w[k] = IF w[k - 1] = Null THEN Null ELSE chunk[w[k - 1]].next
    <3> SUFFICES ASSUME NEW k \in Nat, k # 0
                 PROVE  w[k] = IF w[k - 1] = Null THEN Null ELSE chunk[w[k - 1]].next
      OBVIOUS
    <3>1. CASE k < n
      <4>1. k \in 1..(n - 1) /\ k - 1 \in 0..(n - 1)
        BY <1>1, <3>1
      <4>2. chunk[ch[k - 1]].next = ch[k]
        BY <4>1 DEF Chunks, heap
      <4>3. w[k] = ch[k] /\ w[k - 1] = ch[k - 1]
        BY <1>1, <3>1, <4>1
      <4> QED  BY <1>1, <4>1, <4>2, <4>3
    <3>2. CASE k = n
      <4>1. w[k] = Null /\ w[k - 1] = ch[n - 1] /\ n > 0
        BY <1>1, <3>2
      <4>2. chunk[ch[n - 1]].next = Null
        BY <4>1 DEF Chunks, heap
      <4> QED  BY <4>1, <4>2
    <3>3. CASE k > n
      BY <1>1, <3>3
    <3> QED  BY <1>1, <3>1, <3>2, <3>3
  <2>3. w = [k \in Nat |-> w[k]]
    OBVIOUS
  <2> HIDE DEF w
  <2> QED  BY <2>1, <2>2, <2>3
<1>3. Is(A)
  BY <1>2
<1>4. At(Global) = A
  BY DEF At
<1> HIDE DEF A
<1>5. /\ A[0] = list[Global].first
      /\ \A k \in Nat : k # 0 => A[k] = IF A[k - 1] = Null THEN Null ELSE chunk[A[k - 1]].next
  BY <1>3
<1>6. /\ w[0] = list[Global].first
      /\ \A k \in Nat : k # 0 => w[k] = IF w[k - 1] = Null THEN Null ELSE chunk[w[k - 1]].next
  <2> HIDE DEF w
  <2> QED  BY <1>2
<1>7. \A k \in 0..n : w[k] = IF k < n THEN ch[k] ELSE Null
  BY <1>1
<1> HIDE DEF w
<1> DEFINE T == {k \in Nat : A[k] # w[k]}
<1>8. T = {}
  <2> SUFFICES ASSUME T # {} PROVE FALSE
    OBVIOUS
  <2>1. PICK m \in T : \A k \in T : m <= k
    BY Smallest
  <2>2. m \in Nat /\ m # 0
    BY <1>5, <1>6
  <2>3. m - 1 \in Nat /\ ~(m <= m - 1)
    BY <2>2
  <2>4. A[m - 1] = w[m - 1]
    BY <2>1, <2>3
  <2> QED  BY <1>5, <1>6, <2>1, <2>2, <2>4
<1> QED
  BY <1>1, <1>4, <1>7, <1>8

\* The invariants say what the global stack is.
LEMMA GlobalFollows ==
  ASSUME IInv, ListInv
  PROVE  GlobalAccounted
<1>1. TypeOK
  <2>1. heap \in HeapType /\ \A f \in AllFrames : CountOf(heap, f) <= Max
    BY DEF IInv, Typed
  <2>2. /\ heap.chunk = chunk /\ heap.list = list /\ heap.storage = storage
        /\ heap.boot = boot /\ heap.out = out /\ heap.fault = fault
    BY DEF heap
  <2>3. /\ chunk \in [AllFrames -> ChunkType] /\ list \in [Stacks -> ListType]
        /\ storage \subseteq AllFrames /\ boot \in 0..NBoot /\ out \subseteq AllFrames
        /\ fault \in {Running} \cup Faults
    BY <2>1, <2>2, Parts
  <2> QED
    BY <2>1, <2>3 DEF TypeOK, IInv, ListInv, ChunkType, ListType, Links
<1> DEFINE Accounts(n) ==
      LET at == [k \in 0..n |-> At(Global)[k]]
      IN /\ {at[k] : k \in 0..(n - 1)} = storage /\ at[n] = Null
         /\ \A k \in 1..(n - 1) : chunk[at[k]].prev = at[k - 1]
         /\ \E l \in {n - 1, n - 2} \cap (0..n) :
              /\ list[Global].last = at[l]
              /\ \A k \in 0..(l - 1) : CountOf(heap, at[k]) = Max
              /\ \A k \in (l + 1)..(n - 1) : CountOf(heap, at[k]) = 0
              /\ list[Global].size = l * Max + CountOf(heap, at[l])
<1> SUFFICES ASSUME fault = Running, joined = {}, storage # {}
             PROVE  Accounts(Cardinality(storage))
  BY <1>1 DEF GlobalAccounted
<1>2. PICK n, ch, e : Chunks(heap, n, ch) /\ Filled(heap, n, ch, e)
  BY DEF ListInv, GlobalList
<1> DEFINE at == [k \in 0..n |-> At(Global)[k]]
<1>3. Cardinality(storage) = n
  BY <1>2, FewChunks DEF heap
<1>4. n \in Nat /\ n > 0
  BY <1>2 DEF Chunks, heap
<1>5. at[n] = Null /\ \A k \in 0..(n - 1) : at[k] = ch[k]
  <2>1. \A k \in 0..n : at[k] = IF k < n THEN ch[k] ELSE Null
    BY <1>2, AtIs
  <2> HIDE DEF at
  <2> QED  BY <1>4, <2>1
<1> HIDE DEF at
<1>6. {at[k] : k \in 0..(n - 1)} = storage
  <2>1. storage = {ch[k] : k \in 0..(n - 1)}
    BY <1>2 DEF Chunks, heap
  <2> QED  BY <1>5, <2>1
<1>7. \A k \in 1..(n - 1) : chunk[at[k]].prev = at[k - 1]
  <2> TAKE k \in 1..(n - 1)
  <2>1. k \in 0..(n - 1) /\ k - 1 \in 0..(n - 1)
    BY <1>4
  <2>2. chunk[ch[k]].prev = ch[k - 1]
    BY <1>2 DEF Chunks, heap
  <2> QED  BY <1>5, <2>1, <2>2
<1>8. /\ e \in {n - 1, n - 2} \cap (0..n)
      /\ list[Global].last = at[e]
      /\ \A k \in 0..(e - 1) : CountOf(heap, at[k]) = Max
      /\ \A k \in (e + 1)..(n - 1) : CountOf(heap, at[k]) = 0
      /\ list[Global].size = e * Max + CountOf(heap, at[e])
  <2>1. e \in 0..(n - 1) /\ e \in {n - 1, n - 2}
    BY <1>2, <1>4 DEF Filled
  <2>2. /\ list[Global].last = ch[e]
        /\ \A k \in 0..(e - 1) : CountOf(heap, ch[k]) = Max
        /\ \A k \in (e + 1)..(n - 1) : CountOf(heap, ch[k]) = 0
        /\ list[Global].size = e * Max + CountOf(heap, ch[e])
    BY <1>2, <1>4 DEF Filled, Last, SizeOf, heap
  <2>3. /\ \A k \in 0..(e - 1) : k \in 0..(n - 1)
        /\ \A k \in (e + 1)..(n - 1) : k \in 0..(n - 1)
    BY <1>4, <2>1
  <2> QED  BY <1>4, <1>5, <2>1, <2>2, <2>3
<1>9. Accounts(n)
  BY <1>5, <1>6, <1>7, <1>8, Zenon DEF at
<1> HIDE DEF Accounts
<1> QED
  BY <1>3, <1>9

------------------------------------------------------------------------------

\* The lists, the chunks and the frames handed out agree after every operation, however many
\* frames, cores and chunks there are.
THEOREM Invariance == Spec => []IInv
<1>1. Init => IInv
  BY InitHolds
<1>2. IInv /\ [Next]_vars => IInv'
  BY StepHolds
<1> QED
  BY <1>1, <1>2, PTL DEF Spec

\* No frame is lost, handed out twice or stored while it is used: pop, push, the chunks that
\* go between the stacks, and the frames that become chunks.
THEOREM ConservedHolds == Spec => []Conserved
<1>1. IInv => Conserved
  BY ConservedFollows
<1> QED
  BY <1>1, Invariance, PTL

\* Until the cores share it the global stack is one list of all chunks, full up to the last in
\* use and with at most one that is empty behind it, and its size counts the frames in them,
\* whatever the boot core pops and pushes.
THEOREM GlobalHolds == Spec => []GlobalAccounted
<1>1. Init => ListInv
  BY ListInit
<1>2. IInv /\ ListInv /\ [Next]_vars => ListInv'
  BY ListStep
<1>3. IInv /\ ListInv => GlobalAccounted
  BY GlobalFollows
<1> QED
  BY <1>1, <1>2, <1>3, Invariance, PTL DEF Spec
==============================================================================
