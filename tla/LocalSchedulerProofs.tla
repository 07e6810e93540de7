------------------------ MODULE LocalSchedulerProofs ------------------------
(* Proofs about LocalScheduler, for any number of cores, threads and       *)
(* levels.                                                                 *)
EXTENDS LocalScheduler, FiniteSetTheorems, TLAPS

------------------------------------------------------------------------------
(* The queue: what insert, push and pop do to the threads of a list        *)

Elements == [thread : Tasks, priority : Nat, key : Int]
Queues == [list : Seq(Elements), load : Nat]

\* No thread is in a queue twice.
Distinct(q) == \A i, j \in 1..Len(q.list) : q.list[i].thread = q.list[j].thread => i = j

\* List with x between what was before p and the rest.
Inserted(list, x, p) ==
  [i \in 1..(Len(list) + 1) |-> IF i < p THEN list[i] ELSE IF i = p THEN x ELSE list[i - 1]]

\* That place is the first, the last or, for an element of the middle, the second.
PlacedAt(list, x, p) ==
  LET n == Len(list) IN
  \/ p = 1 /\ n > 0 /\ x.key < list[1].key
  \/ p = 2 /\ n > 1 /\ list[1].key <= x.key /\ x.key < list[n].key
  \/ p = n + 1 /\ (n > 0 => list[1].key <= x.key /\ list[n].key <= x.key)

\* insert puts an element at one place and moves the others by at most one.
LEMMA PlaceIs ==
  ASSUME NEW list \in Seq(Elements), NEW x \in Elements
  PROVE  \E p \in 1..(Len(list) + 1) :
           Place(list, x) = Inserted(list, x, p) /\ PlacedAt(list, x, p)
<1> DEFINE r == Place(list, x)
<1>0. Len(list) \in Nat /\ x.key \in Int /\ \A i \in 1..Len(list) : list[i].key \in Int
  <2>1. \A i \in 1..Len(list) : list[i] \in Elements
    OBVIOUS
  <2> QED
    BY <2>1 DEF Elements
<1>1. CASE list = <<>>
  <2>1. r = <<x>>
    BY <1>1, Zenon DEF Place
  <2>2. r = Inserted(list, x, 1)
    BY <1>1, <2>1 DEF Inserted
  <2>3. PlacedAt(list, x, 1)
    BY <1>1 DEF PlacedAt
  <2> QED
    BY <1>0, <2>2, <2>3
<1>2. CASE list # <<>> /\ x.key < list[1].key
  <2>1. ~(x.key >= list[1].key)
    BY <1>0, <1>2
  <2>2. r = <<x>> \o list
    BY <1>2, <2>1, Zenon DEF Place
  <2>3. r = Inserted(list, x, 1)
    BY <2>2 DEF Inserted
  <2>4. PlacedAt(list, x, 1)
    BY <1>0, <1>2 DEF PlacedAt
  <2> QED
    BY <1>0, <2>3, <2>4
<1>3. CASE list # <<>> /\ ~(x.key < list[1].key) /\ x.key >= Last(list).key
  <2>1. x.key >= list[1].key
    BY <1>0, <1>3
  <2>2. r = Append(list, x)
    BY <1>3, <2>1, Zenon DEF Place
  <2>3. r = Inserted(list, x, Len(list) + 1)
    <3>1. Len(r) = Len(list) + 1 /\ r \in Seq(Elements)
      BY <2>2
    <3>2. \A i \in 1..(Len(list) + 1) : r[i] = Inserted(list, x, Len(list) + 1)[i]
      BY <2>2, <1>0 DEF Inserted
    <3>3. Inserted(list, x, Len(list) + 1) \in Seq(Elements)
          /\ Len(Inserted(list, x, Len(list) + 1)) = Len(list) + 1
      BY <1>0 DEF Inserted
    <3> QED
      BY <3>1, <3>2, <3>3
  <2>4. PlacedAt(list, x, Len(list) + 1)
    BY <1>0, <1>3, <2>1 DEF PlacedAt, Last
  <2> QED
    BY <1>0, <2>3, <2>4
<1>4. CASE list # <<>> /\ ~(x.key < list[1].key) /\ ~(x.key >= Last(list).key)
  <2>1. r = <<list[1], x>> \o Tail(list)
    BY <1>4, Zenon DEF Place
  <2>2. Len(list) > 0
    BY <1>4
  <2>3. r = Inserted(list, x, 2)
    BY <2>1, <2>2 DEF Inserted
  <2>4. PlacedAt(list, x, 2)
    <3>1. list[1].key \in Int /\ list[Len(list)].key \in Int
      BY <1>0, <2>2
    <3>2. list[1].key <= x.key /\ x.key < list[Len(list)].key
      BY <1>0, <1>4, <3>1 DEF Last
    <3>3. Len(list) # 1
      BY <1>0, <3>1, <3>2
    <3> QED
      BY <1>0, <2>2, <3>2, <3>3 DEF PlacedAt
  <2> QED
    BY <1>0, <2>2, <2>3, <2>4
<1> QED
  BY <1>1, <1>2, <1>3, <1>4

\* In whatever order the elements are.
LEMMA PlaceInserts ==
  ASSUME NEW list \in Seq(Elements), NEW x \in Elements
  PROVE  \E p \in 1..(Len(list) + 1) : Place(list, x) = Inserted(list, x, p)
BY PlaceIs

\* Making the virtual times relative to the first one leaves all else.
LEMMA RelativeKeeps ==
  ASSUME NEW list \in Seq(Elements)
  PROVE  /\ Relative(list) \in Seq(Elements) /\ Len(Relative(list)) = Len(list)
         /\ \A i \in 1..Len(list) : Relative(list)[i].thread = list[i].thread
<1>1. \A i \in 1..Len(list) :
        [list[i] EXCEPT !.key = @ - list[1].key] \in Elements
  <2> SUFFICES ASSUME NEW i \in 1..Len(list)
               PROVE  [list[i] EXCEPT !.key = @ - list[1].key] \in Elements
    OBVIOUS
  <2>1. list[i] \in Elements /\ list[1] \in Elements
    OBVIOUS
  <2> QED
    BY <2>1 DEF Elements
<1> QED
  BY <1>1 DEF Relative, Elements

\* push adds the thread, and pop takes out none.
LEMMA EnqueueKeeps ==
  ASSUME NEW q \in Queues, NEW t \in Tasks, NEW n \in Nat,
         Distinct(q), t \notin Threads(q)
  PROVE  LET r == Enqueue(q, t, n)
         IN /\ r \in Queues /\ Distinct(r) /\ Threads(r) = Threads(q) \cup {t}
            /\ Len(r.list) = Len(q.list) + 1 /\ r.load = q.load + n
<1> DEFINE x == [thread |-> t, priority |-> n, key |-> 0]
           l == Place(q.list, x)
           r == Enqueue(q, t, n)
<1>0. q.list \in Seq(Elements) /\ x \in Elements /\ Len(q.list) \in Nat
  BY DEF Queues, Elements
<1>1. PICK p \in 1..(Len(q.list) + 1) : l = Inserted(q.list, x, p)
  BY <1>0, PlaceInserts
<1> HIDE DEF l
<1>2. /\ l \in Seq(Elements) /\ Len(l) = Len(q.list) + 1
      /\ \A i \in 1..Len(l) : l[i] = IF i < p THEN q.list[i]
                                     ELSE IF i = p THEN x ELSE q.list[i - 1]
  BY <1>0, <1>1 DEF Inserted
<1>3. r = [list |-> Relative(l), load |-> q.load + n]
  BY DEF Enqueue, l
<1> HIDE DEF r
<1>4. /\ r \in Queues /\ Len(r.list) = Len(q.list) + 1 /\ r.load = q.load + n
      /\ \A i \in 1..Len(r.list) : r.list[i].thread = l[i].thread
  BY <1>2, <1>3, RelativeKeeps DEF Queues
<1> DEFINE before(i) == IF i < p THEN i ELSE i - 1
<1>5. /\ r.list[p].thread = t /\ p \in 1..Len(r.list)
      /\ \A i \in 1..Len(r.list) : i # p =>
            before(i) \in 1..Len(q.list) /\ r.list[i].thread = q.list[before(i)].thread
  BY <1>0, <1>2, <1>4
<1>6. \A i \in 1..Len(q.list) : q.list[i].thread # t
  BY DEF Threads
<1>7. Distinct(r)
  <2> SUFFICES ASSUME NEW i \in 1..Len(r.list), NEW j \in 1..Len(r.list),
                      r.list[i].thread = r.list[j].thread
               PROVE  i = j
    BY DEF Distinct
  <2>0. \A m \in 1..Len(r.list) : m # p => r.list[m].thread # t
    <3> TAKE m \in 1..Len(r.list)
    <3> HAVE m # p
    <3>1. before(m) \in 1..Len(q.list) /\ r.list[m].thread = q.list[before(m)].thread
      BY <1>5
    <3> QED
      BY <3>1, <1>6
  <2>1. CASE i = p \/ j = p
    BY <2>0, <2>1, <1>5
  <2>2. CASE i # p /\ j # p
    <3>1. before(i) = before(j)
      BY <2>2, <1>5 DEF Distinct
    <3> QED
      BY <2>2, <3>1
  <2> QED
    BY <2>1, <2>2
<1>8. Threads(r) = Threads(q) \cup {t}
  <2>1. \A i \in 1..Len(r.list) : r.list[i].thread \in Threads(q) \cup {t}
    BY <1>5 DEF Threads
  <2>2. t \in Threads(r)
    BY <1>5 DEF Threads
  <2>3. \A i \in 1..Len(q.list) : q.list[i].thread \in Threads(r)
    <3> SUFFICES ASSUME NEW i \in 1..Len(q.list) PROVE q.list[i].thread \in Threads(r)
      OBVIOUS
    <3>1. CASE i < p
      <4>1. i \in 1..Len(r.list) /\ r.list[i].thread = q.list[i].thread
        BY <3>1, <1>0, <1>4, <1>5
      <4> QED
        BY <4>1 DEF Threads
    <3>2. CASE ~(i < p)
      <4>1. i + 1 \in 1..Len(r.list) /\ r.list[i + 1].thread = q.list[i].thread
        BY <3>2, <1>0, <1>4, <1>5
      <4> QED
        BY <4>1 DEF Threads
    <3> QED
      BY <3>1, <3>2
  <2> QED
    BY <2>1, <2>2, <2>3 DEF Threads
<1> QED
  BY <1>4, <1>7, <1>8 DEF r

\* pop takes the first thread, which goes back to some place of the same queue.
LEMMA RequeueKeeps ==
  ASSUME NEW q \in Queues, Distinct(q), Len(q.list) > 0
  PROVE  LET r == Requeue(q, Levels)
         IN /\ r \in Queues /\ Distinct(r) /\ Threads(r) = Threads(q)
            /\ Len(r.list) = Len(q.list) /\ r.load = q.load
<1> DEFINE h == Head(q.list)
           x == [h EXCEPT !.key = @ + Levels - h.priority]
           tl == Tail(q.list)
           l == Place(tl, x)
           r == Requeue(q, Levels)
<1>0. /\ q.list \in Seq(Elements) /\ Len(q.list) \in Nat
      /\ tl \in Seq(Elements) /\ Len(tl) = Len(q.list) - 1
      /\ h \in Elements /\ h = q.list[1]
      /\ \A i \in 1..Len(tl) : tl[i] = q.list[i + 1]
  BY DEF Queues
<1>1. x \in Elements /\ x.thread = h.thread
  <2>1. Levels \in Nat /\ h.priority \in Nat /\ h.key \in Int
    BY <1>0, SchedulerAssumption DEF Elements
  <2>2. h.key + Levels - h.priority \in Int
    BY <2>1
  <2> QED
    BY <1>0, <2>2 DEF Elements
<1>2. r = [list |-> Relative(l), load |-> q.load]
  BY DEF Requeue, Queues
<1> HIDE DEF r, x, h, tl
<1>3. PICK p \in 1..(Len(tl) + 1) : l = Inserted(tl, x, p)
  BY <1>0, <1>1, PlaceInserts
<1> HIDE DEF l
<1>4. /\ l \in Seq(Elements) /\ Len(l) = Len(q.list)
      /\ \A i \in 1..Len(l) : l[i] = IF i < p THEN tl[i]
                                     ELSE IF i = p THEN x ELSE tl[i - 1]
  BY <1>0, <1>1, <1>3 DEF Inserted
<1>5. /\ r \in Queues /\ Len(r.list) = Len(q.list) /\ r.load = q.load
      /\ \A i \in 1..Len(r.list) : r.list[i].thread = l[i].thread
  BY <1>2, <1>4, RelativeKeeps DEF Queues
<1> DEFINE from(i) == IF i < p THEN i + 1 ELSE IF i = p THEN 1 ELSE i
<1>6. \A i \in 1..Len(r.list) :
        from(i) \in 1..Len(q.list) /\ r.list[i].thread = q.list[from(i)].thread
  <2> SUFFICES ASSUME NEW i \in 1..Len(r.list)
               PROVE  from(i) \in 1..Len(q.list) /\ r.list[i].thread = q.list[from(i)].thread
    OBVIOUS
  <2>1. CASE i < p
    <3>1. i \in 1..Len(tl) /\ i + 1 \in 1..Len(q.list) /\ i \in 1..Len(l)
      BY <2>1, <1>0, <1>3, <1>4, <1>5
    <3>2. l[i] = tl[i] /\ tl[i] = q.list[i + 1]
      BY <2>1, <3>1, <1>0, <1>4
    <3> QED
      BY <2>1, <3>1, <3>2, <1>5
  <2>2. CASE i = p
    BY <2>2, <1>0, <1>1, <1>4, <1>5
  <2>3. CASE i > p
    BY <2>3, <1>0, <1>3, <1>4, <1>5
  <2> QED
    BY <2>1, <2>2, <2>3, <1>0, <1>5
<1>7. Distinct(r)
  <2> SUFFICES ASSUME NEW i \in 1..Len(r.list), NEW j \in 1..Len(r.list),
                      r.list[i].thread = r.list[j].thread
               PROVE  i = j
    BY DEF Distinct
  <2> HIDE DEF from
  <2>1. /\ from(i) \in 1..Len(q.list) /\ from(j) \in 1..Len(q.list)
        /\ q.list[from(i)].thread = q.list[from(j)].thread
    BY <1>6
  <2>2. from(i) = from(j)
    BY <2>1, Zenon DEF Distinct
  <2> QED
    BY <2>2, <1>0, <1>3, <1>5 DEF from
<1>8. Threads(r) = Threads(q)
  <2>1. \A i \in 1..Len(r.list) : r.list[i].thread \in Threads(q)
    BY <1>6 DEF Threads
  <2>2. \A i \in 1..Len(q.list) : q.list[i].thread \in Threads(r)
    <3> SUFFICES ASSUME NEW i \in 1..Len(q.list) PROVE q.list[i].thread \in Threads(r)
      OBVIOUS
    <3> DEFINE j == IF i = 1 THEN p ELSE IF i - 1 < p THEN i - 1 ELSE i
    <3>1. j \in 1..Len(r.list) /\ from(j) = i
      BY <1>0, <1>3, <1>5
    <3>2. r.list[j].thread = q.list[i].thread
      BY <1>6, <3>1
    <3> QED
      BY <3>1, <3>2 DEF Threads
  <2> QED
    BY <2>1, <2>2 DEF Threads
<1> QED
  BY <1>5, <1>7, <1>8 DEF r

------------------------------------------------------------------------------
(* The order of a queue                                                    *)

\* Turns(n) is how far n turns go at most.
Turns(n) == n * Levels
Ahead(n) == IF n <= 3 THEN 0 ELSE n - 3

\* Virtual times t[1], ..., t[n] as insert keeps them: the last is the latest; of the others,
\* one further in front may be further behind it, by a turn for each place; and the first is
\* before the second, or not far behind it.
Spaced(t, n) ==
  /\ \A i \in 1..n : t[i] <= t[n]
  /\ \A i \in 2..n : t[n] <= t[i] + Turns(n - i)
  /\ n > 0 => t[n] <= t[1] + Turns(Ahead(n) + 1)
  /\ n > 1 => t[1] <= t[2] + Turns(Ahead(n))

Times(list) == [i \in 1..Len(list) |-> list[i].key]
Gaps(list) == /\ \A i \in 1..Len(list) : list[i].priority <= Levels
              /\ Spaced(Times(list), Len(list))

\* Turns go further the more they are.
LEMMA TurnsGrow ==
  /\ \A n \in Nat : Turns(n) \in Nat /\ Turns(n + 1) = Turns(n) + Levels
  /\ \A m, n \in Nat : m <= n => Turns(m) <= Turns(n)
<1>1. Levels \in Nat
  BY SchedulerAssumption
<1>2. \A n \in Nat : Turns(n) \in Nat /\ Turns(n + 1) = Turns(n) + Levels
  BY <1>1 DEF Turns
<1>3. \A m, n \in Nat : m <= n => Turns(m) <= Turns(n)
  <2> SUFFICES ASSUME NEW m \in Nat, NEW n \in Nat, m <= n PROVE Turns(m) <= Turns(n)
    OBVIOUS
  <2>1. PICK d \in Nat : n = m + d
    <3>1. n - m \in Nat /\ n = m + (n - m)
      OBVIOUS
    <3> QED
      BY <3>1
  <2>2. d * Levels \in Nat /\ (m + d) * Levels = m * Levels + d * Levels
    BY <1>1
  <2>3. m * Levels \in Nat
    BY <1>1
  <2> QED
    BY <2>1, <2>2, <2>3 DEF Turns
<1> QED
  BY <1>2, <1>3

\* How far the first can be from the others, for n threads.
LEMMA AheadIs ==
  ASSUME NEW n \in Nat
  PROVE  /\ Ahead(n) \in Nat /\ Turns(Ahead(n)) \in Nat
         /\ Turns(Ahead(n) + 1) = Turns(Ahead(n)) + Levels /\ Turns(Ahead(n) + 1) \in Nat
<1>1. PICK m \in Nat : m = Ahead(n)
  BY DEF Ahead
<1>2. m + 1 \in Nat
  OBVIOUS
<1>3. Turns(m) \in Nat /\ Turns(m + 1) = Turns(m) + Levels /\ Turns(m + 1) \in Nat
  BY <1>2, TurnsGrow
<1> QED
  BY <1>1, <1>3, Zenon

\* Only differences count.
LEMMA SpacedShifted ==
  ASSUME NEW n \in Nat, NEW t \in [1..n -> Int], Spaced(t, n), NEW f \in Int,
         NEW u \in [1..n -> Int], \A i \in 1..n : u[i] = t[i] - f
  PROVE  Spaced(u, n)
<1>1. \A i \in 1..n : u[i] <= u[n]
  <2> TAKE i \in 1..n
  <2>1. n \in 1..n /\ t[i] <= t[n]
    BY DEF Spaced
  <2> QED
    BY <2>1
<1>2. \A i \in 2..n : u[n] <= u[i] + Turns(n - i)
  <2> TAKE i \in 2..n
  <2>1. n \in 1..n /\ i \in 1..n /\ t[n] <= t[i] + Turns(n - i)
    BY DEF Spaced
  <2>2. PICK d \in Nat : d = Turns(n - i)
    BY TurnsGrow
  <2>3. t[n] <= t[i] + d
    BY <2>1, <2>2
  <2>4. u[n] <= u[i] + d
    BY <2>1, <2>3
  <2> QED
    BY <2>2, <2>4
<1>3. PICK a, b \in Nat : a = Turns(Ahead(n) + 1) /\ b = Turns(Ahead(n))
  BY AheadIs
<1>4. /\ n > 0 => t[n] <= t[1] + a
      /\ n > 1 => t[1] <= t[2] + b
  BY <1>3 DEF Spaced
<1>5. /\ n > 0 => u[n] <= u[1] + a
      /\ n > 1 => u[1] <= u[2] + b
  BY <1>4
<1> QED
  BY <1>1, <1>2, <1>3, <1>5 DEF Spaced

\* The first becomes the last, a turn later.
LEMMA SpacedLast ==
  ASSUME NEW n \in Nat, NEW t \in [1..n -> Int], Spaced(t, n), n > 0,
         NEW v \in Int, t[1] <= v, v <= t[1] + Levels, n > 1 => t[n] <= v,
         NEW u \in [1..n -> Int], u[n] = v, \A i \in 1..(n - 1) : u[i] = t[i + 1]
  PROVE  Spaced(u, n)
<1>1. n \in 1..n /\ Levels \in Nat /\ t[1] <= t[n]
  BY SchedulerAssumption DEF Spaced
<1>2. \A i \in 1..n : u[i] <= u[n]
  <2> TAKE i \in 1..n
  <2>1. CASE i = n
    BY <2>1
  <2>2. CASE i # n
    <3>1. i \in 1..(n - 1) /\ i + 1 \in 1..n /\ n > 1
      BY <2>2
    <3>2. u[i] = t[i + 1] /\ t[i + 1] <= t[n]
      BY <3>1 DEF Spaced
    <3> QED
      BY <1>1, <3>1, <3>2
  <2> QED
    BY <2>1, <2>2
<1>3. \A i \in 2..n : u[n] <= u[i] + Turns(n - i)
  <2> TAKE i \in 2..n
  <2>1. PICK m \in Nat : m = n - i
    OBVIOUS
  <2>2. CASE i = n
    BY <1>1, <2>1, <2>2, TurnsGrow
  <2>3. CASE i # n
    <3>1. i \in 1..(n - 1) /\ i + 1 \in 2..n /\ i + 1 \in 1..n
      BY <2>3
    <3>2. PICK l \in Nat : m = l + 1 /\ l = n - (i + 1)
      BY <2>1, <2>3
    <3>3. t[n] <= t[i + 1] + Turns(l)
      BY <3>1, <3>2 DEF Spaced
    <3>4. PICK d \in Nat : d = Turns(l) /\ Turns(m) = d + Levels
      BY <3>2, TurnsGrow
    <3>5. t[n] <= t[i + 1] + d
      BY <3>3, <3>4
    <3>6. u[i] = t[i + 1] /\ u[n] <= t[n] + Levels
      BY <1>1, <3>1
    <3>7. u[n] <= u[i] + (d + Levels)
      <4>1. \A w, x, y, z \in Int : w <= x + Levels /\ x <= y + z => w <= y + (z + Levels)
        BY <1>1
      <4>2. u[n] \in Int /\ t[n] \in Int /\ t[i + 1] \in Int /\ d \in Int
        BY <1>1, <3>1
      <4> QED
        BY <3>5, <3>6, <4>1, <4>2
    <3> QED
      BY <2>1, <3>4, <3>7
  <2> QED
    BY <2>2, <2>3
<1>4. /\ Ahead(n) \in Nat /\ Turns(Ahead(n)) \in Nat
      /\ Turns(Ahead(n) + 1) = Turns(Ahead(n)) + Levels
  BY AheadIs
<1>5. u[n] <= u[1] + Turns(Ahead(n) + 1)
  <2>1. CASE n = 1
    BY <1>1, <1>4, <2>1
  <2>2. CASE n > 1
    <3>1. u[1] = t[2] /\ t[1] <= t[2] + Turns(Ahead(n)) /\ 2 \in 1..n
      BY <2>2 DEF Spaced
    <3> QED
      BY <1>1, <1>4, <3>1
  <2> QED
    BY <2>1, <2>2
<1>6. n > 1 => u[1] <= u[2] + Turns(Ahead(n))
  <2>1. CASE n = 2
    BY <1>1, <1>4, <2>1
  <2>2. CASE n > 2
    <3>1. u[1] = t[2] /\ u[2] = t[3] /\ 2 \in 1..n /\ 3 \in 1..n /\ 3 \in 2..n
      BY <2>2
    <3>2. Ahead(n) = n - 3
      BY <2>2 DEF Ahead
    <3>3. t[2] <= t[n] /\ t[n] <= t[3] + Turns(Ahead(n))
      BY <3>1, <3>2 DEF Spaced
    <3> QED
      BY <1>1, <1>4, <3>1, <3>3
  <2> QED
    BY <2>1, <2>2
<1> QED
  BY <1>2, <1>3, <1>5, <1>6 DEF Spaced

\* It stays the first.
LEMMA SpacedFirst ==
  ASSUME NEW n \in Nat, NEW t \in [1..n -> Int], Spaced(t, n), n > 1,
         NEW v \in Int, t[1] <= v, v < t[2],
         NEW u \in [1..n -> Int], u[1] = v, \A i \in 2..n : u[i] = t[i]
  PROVE  Spaced(u, n)
<1>1. n \in 2..n /\ n \in 1..n /\ 1 \in 1..n /\ 2 \in 1..n /\ 2 \in 2..n /\ t[2] <= t[n]
  BY DEF Spaced
<1>2. \A i \in 1..n : u[i] <= u[n]
  <2> TAKE i \in 1..n
  <2>1. t[i] <= t[n]
    BY DEF Spaced
  <2>2. i = 1 \/ i \in 2..n
    OBVIOUS
  <2> QED
    BY <1>1, <2>1, <2>2
<1>3. \A i \in 2..n : u[n] <= u[i] + Turns(n - i)
  BY <1>1 DEF Spaced
<1>4. PICK a, b \in Nat : a = Turns(Ahead(n) + 1) /\ b = Turns(Ahead(n))
  BY AheadIs
<1>5. t[n] <= t[1] + a
  BY <1>4 DEF Spaced
<1>6. u[n] <= u[1] + a /\ u[1] <= u[2] + b
  BY <1>1, <1>5
<1> QED
  BY <1>2, <1>3, <1>4, <1>6 DEF Spaced

\* It becomes the second.
LEMMA SpacedSecond ==
  ASSUME NEW n \in Nat, NEW t \in [1..n -> Int], Spaced(t, n), n > 2,
         NEW v \in Int, t[2] <= v, v < t[n],
         NEW u \in [1..n -> Int], u[1] = t[2], u[2] = v, \A i \in 3..n : u[i] = t[i]
  PROVE  Spaced(u, n)
<1>1. n \in 3..n /\ n \in 1..n /\ 1 \in 1..n /\ 2 \in 1..n /\ 2 \in 2..n /\ t[2] <= t[n]
  BY DEF Spaced
<1>2. \A i \in 1..n : u[i] <= u[n]
  <2> TAKE i \in 1..n
  <2>1. t[i] <= t[n]
    BY DEF Spaced
  <2>2. i = 1 \/ i = 2 \/ i \in 3..n
    OBVIOUS
  <2> QED
    BY <1>1, <2>1, <2>2
<1>3. PICK a, b \in Nat : a = Turns(Ahead(n) + 1) /\ b = Turns(Ahead(n))
  BY AheadIs
<1>4. a = Turns(n - 2)
  <2>1. Ahead(n) + 1 = n - 2
    BY DEF Ahead
  <2> QED
    BY <1>3, <2>1
<1>5. t[n] <= t[2] + a
  BY <1>1, <1>4 DEF Spaced
<1>6. \A i \in 2..n : u[n] <= u[i] + Turns(n - i)
  <2> TAKE i \in 2..n
  <2>1. CASE i = 2
    BY <1>1, <1>4, <1>5, <2>1
  <2>2. CASE i # 2
    <3>1. i \in 3..n /\ t[n] <= t[i] + Turns(n - i)
      BY <2>2 DEF Spaced
    <3> QED
      BY <1>1, <3>1
  <2> QED
    BY <2>1, <2>2
<1>7. u[n] <= u[1] + a /\ u[1] <= u[2] + b
  BY <1>1, <1>5
<1> QED
  BY <1>2, <1>3, <1>6, <1>7 DEF Spaced

\* With one more, each may be as far from the others as before.
LEMMA MoreTurns ==
  ASSUME NEW n \in Nat
  PROVE  /\ Ahead(n) \in Nat /\ Ahead(n + 1) \in Nat
         /\ Turns(Ahead(n)) \in Nat /\ Turns(Ahead(n + 1)) \in Nat
         /\ Turns(Ahead(n) + 1) \in Nat /\ Turns(Ahead(n + 1) + 1) \in Nat
         /\ Turns(Ahead(n)) <= Turns(Ahead(n + 1))
         /\ Turns(Ahead(n) + 1) <= Turns(Ahead(n + 1) + 1)
         /\ n > 1 => Turns(n - 1) \in Nat /\ Turns(Ahead(n) + 1) <= Turns(n - 1)
<1>1. PICK k, l \in Nat : k = Ahead(n) /\ l = Ahead(n + 1) /\ k <= l
  BY DEF Ahead
<1>2. /\ k + 1 \in Nat /\ l + 1 \in Nat /\ k + 1 <= l + 1
      /\ n > 1 => n - 1 \in Nat /\ k + 1 <= n - 1
  BY <1>1 DEF Ahead
<1>3. /\ Turns(k) \in Nat /\ Turns(l) \in Nat /\ Turns(k) <= Turns(l)
      /\ Turns(k + 1) \in Nat /\ Turns(l + 1) \in Nat /\ Turns(k + 1) <= Turns(l + 1)
  BY <1>1, <1>2, TurnsGrow
<1>4. n > 1 => Turns(n - 1) \in Nat /\ Turns(k + 1) <= Turns(n - 1)
  BY <1>2, TurnsGrow
<1> QED
  BY <1>1, <1>3, <1>4, Zenon

\* A new one at the time of the first comes last, when all are at that time,
LEMMA SpacedNewLast ==
  ASSUME NEW n \in Nat, NEW t \in [1..n -> Int], Spaced(t, n),
         n > 0 => t[1] = 0 /\ t[n] <= 0,
         NEW u \in [1..(n + 1) -> Int], u[n + 1] = 0, \A i \in 1..n : u[i] = t[i]
  PROVE  Spaced(u, n + 1)
<1>1. n > 0 => n \in 1..n /\ 1 \in 1..n /\ t[n] = 0
  <2>1. n > 0 => n \in 1..n /\ 1 \in 1..n
    OBVIOUS
  <2>2. n > 0 => t[1] <= t[n]
    BY <2>1 DEF Spaced
  <2> QED
    BY <2>1, <2>2
<1>2. \A i \in 1..(n + 1) : u[i] <= u[n + 1]
  <2> TAKE i \in 1..(n + 1)
  <2>1. i \in 1..n => t[i] <= t[n]
    BY DEF Spaced
  <2>2. i = n + 1 \/ (i \in 1..n /\ n > 0)
    OBVIOUS
  <2> QED
    BY <1>1, <2>1, <2>2
<1>3. \A i \in 2..(n + 1) : u[n + 1] <= u[i] + Turns(n + 1 - i)
  <2> TAKE i \in 2..(n + 1)
  <2>1. PICK m \in Nat : m = n + 1 - i
    OBVIOUS
  <2>2. CASE i = n + 1
    BY <2>1, <2>2, TurnsGrow
  <2>3. CASE i # n + 1
    <3>1. i \in 2..n /\ i \in 1..n /\ n > 0
      BY <2>3
    <3>2. PICK l \in Nat : l = n - i /\ l <= m
      BY <2>1, <3>1
    <3>3. t[n] <= t[i] + Turns(l)
      BY <3>1, <3>2 DEF Spaced
    <3>4. Turns(l) \in Nat /\ Turns(m) \in Nat /\ Turns(l) <= Turns(m)
      BY <3>2, TurnsGrow
    <3>5. u[n + 1] <= u[i] + Turns(m)
      BY <1>1, <3>1, <3>3, <3>4
    <3> QED
      BY <2>1, <3>5
  <2> QED
    BY <2>2, <2>3
<1>4. u[n + 1] <= u[1] + Turns(Ahead(n + 1) + 1)
  <2>1. u[1] = 0
    <3>1. CASE n = 0
      BY <3>1
    <3>2. CASE n > 0
      BY <1>1, <3>2
    <3> QED
      BY <3>1, <3>2
  <2> QED
    BY <2>1, MoreTurns
<1>5. n + 1 > 1 => u[1] <= u[2] + Turns(Ahead(n + 1))
  <2>1. CASE n = 1
    BY <1>1, <2>1, MoreTurns
  <2>2. CASE n > 1
    <3>1. PICK a, b \in Nat : a = Turns(Ahead(n)) /\ b = Turns(Ahead(n + 1)) /\ a <= b
      BY MoreTurns
    <3>2. t[1] <= t[2] + a
      BY <2>2, <3>1 DEF Spaced
    <3>3. u[1] = t[1] /\ u[2] = t[2] /\ 1 \in 1..n /\ 2 \in 1..n
      BY <2>2
    <3>4. u[1] <= u[2] + b
      BY <3>1, <3>2, <3>3
    <3> QED
      BY <3>1, <3>4
  <2> QED
    BY <2>1, <2>2
<1> QED
  BY <1>2, <1>3, <1>4, <1>5 DEF Spaced

\* and else behind the first.
LEMMA SpacedNewSecond ==
  ASSUME NEW n \in Nat, NEW t \in [1..n -> Int], Spaced(t, n), n > 1,
         t[1] = 0, 0 < t[n],
         NEW u \in [1..(n + 1) -> Int], u[1] = 0, u[2] = 0,
         \A i \in 3..(n + 1) : u[i] = t[i - 1]
  PROVE  Spaced(u, n + 1)
<1>1. n + 1 \in 3..(n + 1) /\ n + 1 - 1 = n /\ n \in 1..n /\ u[n + 1] = t[n]
  <2>1. n + 1 \in 3..(n + 1) /\ n + 1 - 1 = n /\ n \in 1..n
    OBVIOUS
  <2> QED
    BY <2>1
<1>2. t[n] <= Turns(Ahead(n) + 1)
  BY MoreTurns DEF Spaced
<1>3. \A i \in 1..(n + 1) : u[i] <= u[n + 1]
  <2> TAKE i \in 1..(n + 1)
  <2>1. CASE i \in {1, 2}
    BY <1>1, <2>1
  <2>2. CASE i \notin {1, 2}
    <3>1. i \in 3..(n + 1) /\ i - 1 \in 1..n
      BY <2>2
    <3>2. t[i - 1] <= t[n]
      BY <3>1 DEF Spaced
    <3> QED
      BY <1>1, <3>1, <3>2
  <2> QED
    BY <2>1, <2>2
<1>4. \A i \in 2..(n + 1) : u[n + 1] <= u[i] + Turns(n + 1 - i)
  <2> TAKE i \in 2..(n + 1)
  <2>1. CASE i = 2
    <3>1. n + 1 - i = n - 1
      BY <2>1
    <3>2. u[n + 1] <= u[i] + Turns(n - 1)
      <4>1. PICK a, b \in Nat : a = Turns(Ahead(n) + 1) /\ b = Turns(n - 1) /\ a <= b
        BY MoreTurns
      <4>2. t[n] <= a /\ u[i] = 0
        BY <1>2, <2>1, <4>1
      <4>3. u[n + 1] <= u[i] + b
        BY <1>1, <4>1, <4>2
      <4> QED
        BY <4>1, <4>3
    <3> QED
      BY <3>1, <3>2
  <2>2. CASE i # 2
    <3>1. PICK j \in 2..n : j = i - 1 /\ n - j = n + 1 - i
      BY <2>2
    <3>2. i \in 3..(n + 1) /\ u[i] = t[j]
      BY <2>2, <3>1
    <3>3. t[n] <= t[j] + Turns(n - j)
      BY <3>1 DEF Spaced
    <3> QED
      BY <1>1, <3>1, <3>2, <3>3
  <2> QED
    BY <2>1, <2>2
<1>5. u[n + 1] <= u[1] + Turns(Ahead(n + 1) + 1) /\ u[1] <= u[2] + Turns(Ahead(n + 1))
  <2>1. PICK a, b, d \in Nat : /\ a = Turns(Ahead(n) + 1) /\ b = Turns(Ahead(n + 1) + 1)
                               /\ d = Turns(Ahead(n + 1)) /\ a <= b
    BY MoreTurns
  <2>2. t[n] <= a
    BY <1>2, <2>1
  <2>3. u[n + 1] <= u[1] + b /\ u[1] <= u[2] + d
    BY <1>1, <2>1, <2>2
  <2> QED
    BY <2>1, <2>3
<1> QED
  BY <1>3, <1>4, <1>5 DEF Spaced

\* The virtual times of a list are numbers.
LEMMA TimesAre ==
  ASSUME NEW a \in Seq(Elements)
  PROVE  /\ Len(a) \in Nat /\ Times(a) \in [1..Len(a) -> Int]
         /\ \A i \in 1..Len(a) : /\ Times(a)[i] = a[i].key /\ a[i] \in Elements
                                 /\ a[i].key \in Int /\ a[i].priority \in Nat
<1>1. Len(a) \in Nat /\ \A i \in 1..Len(a) : a[i] \in Elements
  OBVIOUS
<1>2. \A i \in 1..Len(a) : a[i].key \in Int /\ a[i].priority \in Nat
  BY <1>1 DEF Elements
<1> QED
  BY <1>1, <1>2 DEF Times

\* Making the virtual times relative changes none of it.
LEMMA RelativeGaps ==
  ASSUME NEW a \in Seq(Elements), Gaps(a)
  PROVE  Gaps(Relative(a)) /\ (Len(a) > 0 => Relative(a)[1].key = 0)
<1> DEFINE r == Relative(a)
           n == Len(a)
<1>1. /\ n \in Nat /\ Len(r) = n /\ r \in Seq(Elements)
      /\ \A i \in 1..n : a[i].key \in Int /\ a[i] \in Elements
  BY TimesAre, RelativeKeeps
<1>2. \A i \in 1..n : r[i].key = a[i].key - a[1].key /\ r[i].priority = a[i].priority
  <2> TAKE i \in 1..n
  <2>1. r[i] = [a[i] EXCEPT !.key = @ - a[1].key]
    BY DEF Relative
  <2> QED
    BY <1>1, <2>1 DEF Elements
<1> HIDE DEF r
<1>3. PICK f \in Int : n > 0 => f = a[1].key
  BY <1>1
<1>4. \A i \in 1..n : Times(r)[i] = Times(a)[i] - f
  <2> TAKE i \in 1..n
  <2>1. Times(r)[i] = r[i].key /\ Times(a)[i] = a[i].key
    BY <1>1, TimesAre
  <2>2. n > 0
    BY <1>1
  <2> QED
    BY <1>2, <1>3, <2>1, <2>2
<1>5. Times(r) \in [1..n -> Int] /\ Times(a) \in [1..n -> Int]
  BY <1>1, TimesAre
<1>6. Spaced(Times(r), n)
  BY <1>1, <1>4, <1>5, SpacedShifted DEF Gaps
<1>7. n > 0 => r[1].key = 0
  BY <1>1, <1>2
<1> QED
  BY <1>1, <1>2, <1>6, <1>7 DEF Gaps, r

\* pop, and the insertion of what was first a turn later.
LEMMA RequeueGaps ==
  ASSUME NEW a \in Seq(Elements), Len(a) > 0, Gaps(a), NEW x \in Elements,
         x.priority = a[1].priority, x.key = a[1].key + Levels - x.priority
  PROVE  Gaps(Place(Tail(a), x))
<1> DEFINE n == Len(a)
           tl == Tail(a)
           b == Place(tl, x)
           t == Times(a)
           u == Times(b)
           v == x.key
<1>1. /\ n \in Nat /\ n > 0 /\ tl \in Seq(Elements) /\ Len(tl) = n - 1
      /\ \A i \in 1..(n - 1) : tl[i] = a[i + 1]
  OBVIOUS
<1>2. PICK p \in 1..n : b = Inserted(tl, x, p) /\ PlacedAt(tl, x, p)
  <2>1. (n - 1) + 1 = n
    BY <1>1
  <2>2. \E p \in 1..(Len(tl) + 1) : b = Inserted(tl, x, p) /\ PlacedAt(tl, x, p)
    BY <1>1, PlaceIs
  <2> QED
    BY <1>1, <2>1, <2>2
<1> HIDE DEF b
<1>3. /\ Len(b) = n /\ b \in Seq(Elements)
      /\ \A i \in 1..n : b[i] = IF i < p THEN tl[i] ELSE IF i = p THEN x ELSE tl[i - 1]
  BY <1>1, <1>2 DEF Inserted
<1>4. /\ t \in [1..n -> Int] /\ u \in [1..n -> Int]
      /\ \A i \in 1..n : t[i] = a[i].key /\ u[i] = b[i].key
  BY <1>1, <1>3, TimesAre
<1>5. /\ \A i \in 1..n : i < p => u[i] = t[i + 1]
      /\ u[p] = v
      /\ \A i \in 1..n : i > p => u[i] = t[i]
  <2>1. ASSUME NEW i \in 1..n, i < p PROVE u[i] = t[i + 1]
    <3>1. i \in 1..(n - 1) /\ i + 1 \in 1..n
      BY <1>1, <2>1
    <3>2. b[i] = a[i + 1]
      BY <1>1, <1>3, <2>1, <3>1
    <3> QED
      BY <1>4, <3>1, <3>2
  <2>2. ASSUME NEW i \in 1..n, i > p PROVE u[i] = t[i]
    <3>1. i - 1 \in 1..(n - 1) /\ (i - 1) + 1 = i /\ ~(i < p) /\ i # p
      BY <1>1, <2>2
    <3>2. b[i] = a[i]
      BY <1>1, <1>3, <3>1
    <3> QED
      BY <1>4, <3>2
  <2>3. u[p] = v
    BY <1>3, <1>4
  <2> QED
    BY <2>1, <2>2, <2>3
<1>6. /\ v \in Int /\ t[1] <= v /\ v <= t[1] + Levels /\ x.priority <= Levels
  <2>1. 1 \in 1..n /\ a[1].priority \in Nat /\ a[1].key \in Int /\ Levels \in Nat
    <3>1. 1 \in 1..n
      BY <1>1
    <3>2. \A i \in 1..n : a[i].key \in Int /\ a[i].priority \in Nat
      BY TimesAre
    <3> QED
      BY <3>1, <3>2, SchedulerAssumption
  <2>2. x.priority <= Levels
    BY <2>1 DEF Gaps
  <2> QED
    BY <1>4, <2>1, <2>2
<1>7. Spaced(t, n)
  BY DEF Gaps
<1> HIDE DEF t, u, v
<1>8. Spaced(u, n)
  <2>1. \/ p = n /\ (n > 1 => t[n] <= v)
        \/ p = 1 /\ n > 1 /\ v < t[2]
        \/ p = 2 /\ n > 2 /\ t[2] <= v /\ v < t[n]
    <3>1. n > 1 => tl[1] = a[2] /\ tl[n - 1] = a[n] /\ 2 \in 1..n /\ n \in 1..n
      <4>1. n > 1 => 1 \in 1..(n - 1) /\ n - 1 \in 1..(n - 1) /\ 1 + 1 = 2 /\ (n - 1) + 1 = n
        BY <1>1
      <4>2. n > 1 => 2 \in 1..n /\ n \in 1..n
        BY <1>1
      <4> QED
        BY <1>1, <4>1, <4>2
    <3>2. n > 1 => tl[1].key = t[2] /\ tl[n - 1].key = t[n]
      BY <1>4, <3>1
    <3>3. \/ p = 1 /\ n - 1 > 0 /\ v < tl[1].key
          \/ p = 2 /\ n - 1 > 1 /\ tl[1].key <= v /\ v < tl[n - 1].key
          \/ p = (n - 1) + 1 /\ (n - 1 > 0 => tl[1].key <= v /\ tl[n - 1].key <= v)
      BY <1>1, <1>2 DEF PlacedAt, v
    <3>4. CASE n = 1
      <4>1. p = n
        BY <1>1, <3>4
      <4> QED
        BY <3>4, <4>1
    <3>5. CASE n > 1
      <4>1. PICK f, l : f = t[2] /\ l = t[n] /\ tl[1].key = f /\ tl[n - 1].key = l
        BY <3>2, <3>5
      <4>2. n - 1 > 0 /\ (n - 1 > 1 => n > 2) /\ (n - 1) + 1 = n
        BY <1>1, <3>5
      <4>3. \/ p = n /\ l <= v
            \/ p = 1 /\ v < f
            \/ p = 2 /\ n > 2 /\ f <= v /\ v < l
        BY <3>3, <4>1, <4>2, Zenon
      <4> QED
        BY <3>5, <4>1, <4>3, Zenon
    <3>6. n = 1 \/ n > 1
      BY <1>1
    <3> QED
      BY <3>4, <3>5, <3>6, Zenon
  <2>2. CASE p = n /\ (n > 1 => t[n] <= v)
    <3>1. \A i \in 1..(n - 1) : u[i] = t[i + 1]
      BY <1>1, <1>5, <2>2
    <3> QED
      BY <1>1, <1>4, <1>5, <1>6, <1>7, <2>2, <3>1, SpacedLast
  <2>3. CASE p = 1 /\ n > 1 /\ v < t[2]
    <3>1. \A i \in 2..n : u[i] = t[i]
      BY <1>1, <1>5, <2>3
    <3> QED
      BY <1>1, <1>4, <1>5, <1>6, <1>7, <2>3, <3>1, SpacedFirst
  <2>4. CASE p = 2 /\ n > 2 /\ t[2] <= v /\ v < t[n]
    <3>1. u[1] = t[2] /\ \A i \in 3..n : u[i] = t[i]
      <4>1. 1 \in 1..n /\ 1 < p /\ 1 + 1 = 2
        BY <1>1, <2>4
      <4>2. \A i \in 3..n : i \in 1..n /\ i > p
        BY <2>4
      <4> QED
        BY <1>5, <4>1, <4>2
    <3> QED
      BY <1>1, <1>4, <1>5, <1>6, <1>7, <2>4, <3>1, SpacedSecond
  <2> QED
    BY <2>1, <2>2, <2>3, <2>4
<1>9. \A i \in 1..n : b[i].priority <= Levels
  <2> TAKE i \in 1..n
  <2>1. b[i] = x \/ \E j \in 1..(n - 1) : b[i] = tl[j]
    <3>1. CASE i < p
      <4>1. i \in 1..(n - 1) /\ b[i] = tl[i]
        BY <1>1, <1>3, <3>1
      <4> QED
        BY <4>1
    <3>2. CASE i = p
      BY <1>3, <3>2
    <3>3. CASE i > p
      <4>1. i - 1 \in 1..(n - 1) /\ ~(i < p) /\ i # p
        BY <1>1, <3>3
      <4>2. b[i] = tl[i - 1]
        BY <1>3, <4>1
      <4> QED
        BY <4>1, <4>2
    <3> QED
      BY <1>1, <3>1, <3>2, <3>3
  <2>2. \A j \in 1..(n - 1) : tl[j].priority <= Levels
    <3> TAKE j \in 1..(n - 1)
    <3>1. tl[j] = a[j + 1] /\ j + 1 \in 1..n
      BY <1>1
    <3> QED
      BY <3>1 DEF Gaps
  <2> QED
    BY <1>6, <2>1, <2>2
<1> QED
  BY <1>3, <1>8, <1>9 DEF Gaps, b, u

\* push of a new thread, at the virtual time of the first.
LEMMA EnqueueGaps ==
  ASSUME NEW a \in Seq(Elements), Gaps(a), Len(a) > 0 => a[1].key = 0,
         NEW x \in Elements, x.priority <= Levels, x.key = 0
  PROVE  Gaps(Place(a, x))
<1> DEFINE n == Len(a)
           b == Place(a, x)
           t == Times(a)
           u == Times(b)
<1>1. n \in Nat
  OBVIOUS
<1>2. PICK p \in 1..(n + 1) : b = Inserted(a, x, p) /\ PlacedAt(a, x, p)
  BY PlaceIs
<1> HIDE DEF b
<1>3. /\ Len(b) = n + 1 /\ b \in Seq(Elements)
      /\ \A i \in 1..(n + 1) : b[i] = IF i < p THEN a[i] ELSE IF i = p THEN x ELSE a[i - 1]
  BY <1>1, <1>2 DEF Inserted
<1>4. /\ t \in [1..n -> Int] /\ u \in [1..(n + 1) -> Int]
      /\ \A i \in 1..n : t[i] = a[i].key
      /\ \A i \in 1..(n + 1) : u[i] = b[i].key
  BY <1>1, <1>3, TimesAre
<1>5. /\ \A i \in 1..(n + 1) : i < p => u[i] = t[i]
      /\ u[p] = 0
      /\ \A i \in 1..(n + 1) : i > p => u[i] = t[i - 1]
  <2>1. ASSUME NEW i \in 1..(n + 1), i < p PROVE u[i] = t[i]
    <3>1. i \in 1..n
      BY <1>1, <2>1
    <3>2. b[i] = a[i]
      BY <1>3, <2>1
    <3> QED
      BY <1>4, <3>1, <3>2
  <2>2. ASSUME NEW i \in 1..(n + 1), i > p PROVE u[i] = t[i - 1]
    <3>1. i - 1 \in 1..n /\ ~(i < p) /\ i # p
      BY <1>1, <2>2
    <3>2. b[i] = a[i - 1]
      BY <1>3, <3>1
    <3> QED
      BY <1>4, <3>1, <3>2
  <2>3. u[p] = 0
    BY <1>3, <1>4
  <2> QED
    BY <2>1, <2>2, <2>3
<1>6. Spaced(t, n)
  BY DEF Gaps
<1>7. n > 0 => 1 \in 1..n /\ n \in 1..n /\ t[1] = 0 /\ t[n] = a[n].key /\ t[1] = a[1].key
  BY <1>1, <1>4
<1>8. \/ p = n + 1 /\ (n > 0 => t[n] <= 0)
      \/ p = 2 /\ n > 1 /\ 0 < t[n]
  BY <1>1, <1>2, <1>7 DEF PlacedAt
<1> HIDE DEF t, u
<1>9. Spaced(u, n + 1)
  <2>1. CASE p = n + 1 /\ (n > 0 => t[n] <= 0)
    <3>1. \A i \in 1..n : u[i] = t[i]
      BY <1>1, <1>5, <2>1
    <3> QED
      BY <1>1, <1>4, <1>5, <1>6, <1>7, <2>1, <3>1, SpacedNewLast
  <2>2. CASE p = 2 /\ n > 1 /\ 0 < t[n]
    <3>1. u[1] = 0 /\ \A i \in 3..(n + 1) : u[i] = t[i - 1]
      <4>1. 1 \in 1..(n + 1) /\ 1 < p /\ n > 0
        BY <1>1, <2>2
      <4>2. \A i \in 3..(n + 1) : i \in 1..(n + 1) /\ i > p
        BY <2>2
      <4> QED
        BY <1>5, <1>7, <4>1, <4>2
    <3>2. t[1] = 0
      BY <1>7, <2>2
    <3> QED
      BY <1>1, <1>4, <1>5, <1>6, <2>2, <3>1, <3>2, SpacedNewSecond
  <2> QED
    BY <1>8, <2>1, <2>2
<1>10. \A i \in 1..(n + 1) : b[i].priority <= Levels
  <2> TAKE i \in 1..(n + 1)
  <2>1. b[i] = x \/ \E j \in 1..n : b[i] = a[j]
    BY <1>1, <1>2, <1>3
  <2>2. \A j \in 1..n : a[j].priority <= Levels
    BY DEF Gaps
  <2> QED
    BY <2>1, <2>2
<1> QED
  BY <1>3, <1>9, <1>10 DEF Gaps, b, u

------------------------------------------------------------------------------
(* The invariant: queues                                                   *)

TypeInv ==
  /\ ready \in BOOLEAN
  /\ queue \in [Cores -> [Classes -> Queues]]
  /\ lock \in [Cores -> AllThreads \cup {NoThread}]
  /\ timer \in [Cores -> BOOLEAN] /\ event \in [Cores -> BOOLEAN]
  /\ current \in [Cores -> AllThreads \cup {NoThread}]
  /\ currentCore \in [AllThreads -> Cores \cup {NoCore}]
  /\ lastCore \in [AllThreads -> Cores \cup {NoCore}]
  /\ context \in [AllThreads -> {"none", "saved", "live"}]
  /\ calls \in [Cores -> Nat]
  /\ inInterrupt \in [Cores -> BOOLEAN]
  /\ hpc \in [Cores -> {"none", "lock", "switch", "return"}]
  /\ interrupted \in [Cores -> AllThreads \cup {NoThread}]
  /\ unborn \subseteq Tasks
  /\ pc \in [Spawners -> {"idle", "scan", "push", "insert", "unlock"}]
  /\ task \in [Spawners -> Tasks \cup {NoThread}]
  /\ scan \in [Spawners -> Nat]
  /\ best \in [Spawners -> Cores]

\* Thread t is in a queue of core c.
Has(c, t) == \E k \in Classes : t \in Threads(queue[c][k])

\* Nothing is scheduled or interrupted before all cores have their kernel threads.
Started ==
  /\ ready => \A c \in Cores : current[c] # NoThread
  /\ \A c \in Cores : hpc[c] # "none" => ready
  /\ \A c \in Cores, t \in Tasks : Has(c, t) => ready

\* A thread is in one queue, that of its policy, and there once.
OneQueue ==
  /\ \A c \in Cores, k \in Classes : Distinct(queue[c][k])
  /\ \A c \in Cores, k \in Classes : \A t \in Threads(queue[c][k]) : Policy[t] = k
  /\ \A c, d \in Cores, t \in Tasks : Has(c, t) /\ Has(d, t) => c = d

\* Spawner s is about to push task[s].
Carries(s) == pc[s] \in {"scan", "push", "insert"}

\* A task is unborn, carried by one spawner, or queued.
Accounted ==
  /\ \A s \in Spawners : Carries(s) => task[s] \in Tasks \ unborn
  /\ \A r, s \in Spawners : Carries(r) /\ Carries(s) /\ task[r] = task[s] => r = s
  /\ \A t \in Tasks : (\E c \in Cores : Has(c, t))
                        <=> t \notin unborn /\ \A s \in Spawners : Carries(s) => task[s] # t

\* A core runs its kernel thread or one of its queues, and they know it.
OwnThreads ==
  \A c \in Cores :
    /\ current[c] \in {NoThread, Kernel(c)} \/ Has(c, current[c])
    /\ interrupted[c] \in {NoThread, Kernel(c)} \/ Has(c, interrupted[c])
    /\ current[c] # NoThread => currentCore[current[c]] = c

QInv == TypeInv /\ Started /\ OneQueue /\ Accounted /\ OwnThreads

------------------------------------------------------------------------------
(* The invariant: switches                                                 *)

\* The thread whose registers core c has.
OnCpu(c) == IF hpc[c] = "none" THEN current[c] ELSE interrupted[c]

\* A context is live exactly while its thread is in the registers of a core; a thread
\* that has been created has one.
Contexts ==
  /\ \A t \in AllThreads : context[t] = "live" <=> \E c \in Cores : t = OnCpu(c)
  /\ \A t \in Tasks \ unborn : context[t] # "none"

\* What a handler has interrupted, and what it will return to.
Handlers ==
  \A c \in Cores :
    /\ inInterrupt[c] <=> hpc[c] # "none"
    /\ hpc[c] # "none" => interrupted[c] # NoThread
    /\ hpc[c] \in {"lock", "switch"} => interrupted[c] = current[c]
    /\ hpc[c] = "return" => Has(c, current[c])

Busy(c) == \E k \in Classes : Size(c, k) > 0

\* A switch is asked for only where there is a thread to switch to, _timer names an event
\* just while there is one, and a queue with threads has a load.
Switchable ==
  \A c \in Cores :
    /\ calls[c] > 0 \/ event[c] \/ hpc[c] \in {"lock", "switch"} => Busy(c)
    /\ timer[c] = event[c]
    /\ \A k \in Classes : Size(c, k) > 0 => queue[c][k].load > 0

\* BestRuns, also while a push that has the lock has not inserted yet.
Chosen ==
  \A c \in Cores : calls[c] = 0 /\ hpc[c] \notin {"lock", "switch"} /\ Busy(c) =>
    /\ current[c] \in Threads(queue[c][BestClass(c)])
    /\ Size(c, BestClass(c)) > 1 => event[c]

SInv == fault = "none" /\ Contexts /\ Handlers /\ Switchable /\ Chosen

IInv == QInv /\ SInv
------------------------------------------------------------------------------
(* Names, classes and queues                                               *)

\* Kernel threads, tasks and the null thread are told apart.
LEMMA Names ==
  /\ \A c \in Cores : Kernel(c) \in AllThreads /\ Kernel(c) \notin Tasks /\ Kernel(c) # NoThread
  /\ \A c, d \in Cores : Kernel(c) = Kernel(d) => c = d
  /\ NoThread \notin AllThreads /\ NoCore \notin Cores /\ 0 \in Cores
  /\ Tasks \subseteq AllThreads /\ Spawners \subseteq AllThreads
<1>1. \A c \in Cores : Kernel(c) # NoThread
  BY DEF Kernel, NoThread
<1>2. \A c, d \in Cores : Kernel(c) = Kernel(d) => c = d
  BY DEF Kernel
<1>3. \A c \in Cores : Kernel(c) \in KernelThreads
  BY DEF KernelThreads
<1>4. NCores \in Nat \ {0} /\ NoCore \notin Cores /\ 0 \in Cores
  BY SchedulerAssumption DEF NoCore, Cores
<1>5. NoThread \notin KernelThreads
  BY <1>1 DEF KernelThreads
<1> QED
  BY <1>1, <1>2, <1>3, <1>4, <1>5, SchedulerAssumption DEF AllThreads

\* Only tasks are queued.
LEMMA QueuedAreTasks ==
  ASSUME TypeInv
  PROVE  \A c \in Cores : \A t : Has(c, t) => t \in Tasks
<1> SUFFICES ASSUME NEW c \in Cores, NEW k \in Classes, NEW i \in 1..Len(queue[c][k].list)
             PROVE  queue[c][k].list[i].thread \in Tasks
  BY DEF Has, Threads
<1>1. queue[c][k].list \in Seq(Elements)
  BY DEF TypeInv, Queues
<1>2. queue[c][k].list[i] \in Elements
  BY <1>1
<1> QED
  BY <1>2 DEF Elements

\* A core is busy when it has a thread, and the class of a switch then has one.
LEMMA BestClassIs ==
  ASSUME TypeInv, NEW c \in Cores
  PROVE  /\ BestClass(c) = IF Size(c, "top") > 0 THEN "top"
                           ELSE IF Size(c, "normal") > 0 THEN "normal" ELSE "background"
         /\ BestClass(c) \in Classes
         /\ Busy(c) => Size(c, BestClass(c)) > 0
         /\ \A k \in Classes : Size(c, k) \in Nat
<1>1. \A k \in Classes : Size(c, k) \in Nat
  BY DEF TypeInv, Queues, Size
<1>2. Size(c, "top") > 0 <=> ~(Size(c, "top") = 0)
  BY <1>1 DEF Classes
<1>3. BestClass(c) = IF Size(c, "top") > 0 THEN "top"
                     ELSE IF Size(c, "normal") > 0 THEN "normal" ELSE "background"
  BY <1>2, Zenon DEF BestClass
<1> QED
  BY <1>1, <1>3 DEF Busy, Classes

\* The same of the next state.
LEMMA BestClassIsNext ==
  ASSUME TypeInv', NEW c \in Cores
  PROVE  BestClass(c)' = IF Size(c, "top")' > 0 THEN "top"
                         ELSE IF Size(c, "normal")' > 0 THEN "normal" ELSE "background"
<1>1. \A k \in Classes : Size(c, k)' \in Nat
  BY DEF TypeInv, Queues, Size
<1>2. Size(c, "top")' > 0 <=> ~(Size(c, "top")' = 0)
  BY <1>1 DEF Classes
<1> QED
  BY <1>2, Zenon DEF BestClass

\* What a switch needs in order not to fail.
LEMMA SwitchFailureIs ==
  ASSUME TypeInv, NEW c \in Cores
  PROVE  SwitchFailure(c) = "none" <=> /\ ~(timer[c] /\ ~event[c])
                                       /\ Size(c, BestClass(c)) > 0
                                       /\ queue[c][BestClass(c)].load # 0
<1> DEFINE k == BestClass(c)
           failed == timer[c] /\ ~event[c]
           n == Size(c, k)
<1>1. n \in Nat
  BY BestClassIs
<1>2. SwitchFailure(c) = CASE failed -> "panic: not active"
                           [] ~failed /\ n = 0 -> "null"
                           [] ~failed /\ n > 0 /\ ~CanPop(queue[c][k]) -> "panic: empty queue"
                           [] OTHER -> "none"
  BY DEF SwitchFailure
<1> HIDE DEF failed, n, k
<1>3. CASE failed
  <2>1. SwitchFailure(c) = "panic: not active"
    BY <1>1, <1>2, <1>3, Zenon
  <2> QED
    BY <2>1, <1>3 DEF failed
<1>4. CASE ~failed /\ n = 0
  <2>1. ~(n > 0)
    BY <1>4
  <2>2. SwitchFailure(c) = "null"
    BY <1>2, <1>4, <2>1, Zenon
  <2> QED
    BY <2>1, <2>2, <1>4 DEF n, k
<1>5. CASE ~failed /\ n > 0 /\ ~CanPop(queue[c][k])
  <2>1. n # 0
    BY <1>5, <1>1
  <2>2. SwitchFailure(c) = "panic: empty queue"
    BY <1>2, <1>5, <2>1, Zenon
  <2> QED
    BY <2>2, <1>5 DEF CanPop, k
<1>6. CASE ~failed /\ n > 0 /\ CanPop(queue[c][k])
  <2>1. n # 0
    BY <1>6, <1>1
  <2>2. SwitchFailure(c) = "none"
    BY <1>2, <1>6, <2>1, Zenon
  <2> QED
    BY <2>2, <1>6 DEF CanPop, k, n, failed
<1> QED
  BY <1>1, <1>3, <1>4, <1>5, <1>6

\* Two cores never have the same thread.
LEMMA Apart ==
  ASSUME QInv, NEW c \in Cores, NEW d \in Cores, NEW x \in {current[c], interrupted[c]},
         x # NoThread, x \in {current[d], interrupted[d]}
  PROVE  c = d
<1>1. x = Kernel(c) \/ (x \in Tasks /\ Has(c, x))
  BY QueuedAreTasks DEF QInv, OwnThreads
<1>2. x = Kernel(d) \/ (x \in Tasks /\ Has(d, x))
  BY QueuedAreTasks DEF QInv, OwnThreads
<1> QED
  BY <1>1, <1>2, Names DEF QInv, OneQueue

\* A step that leaves the queues leaves what is in them.
LEMMA QueuesUnchanged ==
  ASSUME queue' = queue
  PROVE  /\ \A c, t : Has(c, t)' = Has(c, t)
         /\ \A c, k : Size(c, k)' = Size(c, k)
         /\ \A c : (BestClass(c)' = BestClass(c)) /\ (Busy(c)' = Busy(c))
         /\ OneQueue => OneQueue'
<1>1. \A c, t : Has(c, t)' = Has(c, t)
  BY DEF Has
<1>2. \A c, k : Size(c, k)' = Size(c, k)
  BY DEF Size
<1>3. \A c : BestClass(c)' = BestClass(c)
  BY <1>2, Zenon DEF BestClass
<1>4. \A c : Busy(c)' = Busy(c)
  BY <1>2 DEF Busy
<1>5. OneQueue => OneQueue'
  BY <1>1 DEF OneQueue
<1> QED
  BY <1>1, <1>2, <1>3, <1>4, <1>5
------------------------------------------------------------------------------
(* QInv is inductive                                                       *)

\* At first there are no threads.
LEMMA InitQInv == Init => QInv
<1> SUFFICES ASSUME Init PROVE QInv
  OBVIOUS
<1> USE DEF Init
<1>1. \A c \in Cores, k \in Classes : queue[c][k] = EmptyQueue
  OBVIOUS
<1>2. EmptyQueue \in Queues /\ Len(EmptyQueue.list) = 0
  BY DEF EmptyQueue, Queues
<1>3. \A c \in Cores : \A t : ~Has(c, t)
  BY <1>1, <1>2 DEF Has, Threads
<1>4. TypeInv
  BY <1>2, Names DEF TypeInv
<1>5. Started /\ Accounted
  BY <1>3 DEF Started, Accounted, Carries
<1>6. OneQueue
  BY <1>1, <1>2, <1>3 DEF OneQueue, Distinct, Has
<1>7. OwnThreads
  BY DEF OwnThreads
<1> QED
  BY <1>4, <1>5, <1>6, <1>7 DEF QInv

\* A core gets its kernel thread.
LEMMA ApInitializeQ == ASSUME QInv, NEW c \in Cores, ApInitialize(c) PROVE QInv'
<1> USE DEF ApInitialize, QInv
<1>0. queue' = queue /\ \A d, t : Has(d, t)' = Has(d, t)
  BY QueuesUnchanged
<1>1. TypeInv'
  BY Names DEF TypeInv, timers, handlers, spawners
<1>2. Started' /\ OneQueue'
  BY <1>0, QueuesUnchanged, Names DEF Started, TypeInv, handlers
<1>3. Accounted'
  BY <1>0 DEF Accounted, Carries, spawners
<1>4. OwnThreads'
  <2> SUFFICES ASSUME NEW d \in Cores
               PROVE  /\ current'[d] \in {NoThread, Kernel(d)} \/ Has(d, current'[d])
                      /\ interrupted[d] \in {NoThread, Kernel(d)} \/ Has(d, interrupted[d])
                      /\ current'[d] # NoThread => currentCore'[current'[d]] = d
    BY <1>0 DEF OwnThreads, handlers
  <2>1. CASE d = c
    BY <2>1, Names DEF OwnThreads, TypeInv
  <2>2. CASE d # c
    <3>1. current[d] # Kernel(c)
      BY <2>2, QueuedAreTasks, Names DEF OwnThreads
    <3> QED
      BY <2>2, <3>1 DEF OwnThreads, TypeInv
  <2> QED
    BY <2>1, <2>2
<1> QED
  BY <1>1, <1>2, <1>3, <1>4

\* The scheduler becomes ready.
LEMMA BecomeReadyQ == ASSUME QInv, BecomeReady PROVE QInv'
<1> USE DEF BecomeReady, QInv
<1>0. queue' = queue /\ \A d, t : Has(d, t)' = Has(d, t)
  BY QueuesUnchanged
<1>1. TypeInv'
  BY DEF TypeInv, timers, place, handlers, spawners
<1>2. Started' /\ OneQueue'
  BY <1>0, QueuesUnchanged DEF Started, TypeInv, handlers, place
<1>3. Accounted'
  BY <1>0 DEF Accounted, Carries, spawners
<1>4. OwnThreads'
  BY <1>0 DEF OwnThreads, place, handlers
<1> QED
  BY <1>1, <1>2, <1>3, <1>4

\* Between the insertions and the switches nothing moves.
LEMMA SameThreads ==
  ASSUME QInv, TypeInv', queue' = queue, current' = current, currentCore' = currentCore,
         ready' = ready, \A c \in Cores : hpc'[c] # "none" => hpc[c] # "none" \/ ready,
         \A c \in Cores : interrupted'[c] \in {interrupted[c], current[c], NoThread}
  PROVE  Started' /\ OneQueue' /\ OwnThreads'
<1> USE DEF QInv
<1>0. \A c, t : Has(c, t)' = Has(c, t)
  BY QueuesUnchanged
<1>1. Started' /\ OneQueue'
  BY <1>0, QueuesUnchanged DEF Started
<1>2. OwnThreads'
  BY <1>0 DEF OwnThreads
<1> QED
  BY <1>1, <1>2

\* A task is created and carried.
LEMMA BeginScheduleQ ==
  ASSUME QInv, NEW s \in Spawners, NEW t \in Tasks, BeginSchedule(s, t) PROVE QInv'
<1> USE DEF BeginSchedule, Step, QInv
<1>1. TypeInv'
  <2>1. /\ context' \in [AllThreads -> {"none", "saved", "live"}]
        /\ pc' \in [Spawners -> {"idle", "scan", "push", "insert", "unlock"}]
        /\ task' \in [Spawners -> Tasks \cup {NoThread}] /\ scan' \in [Spawners -> Nat]
        /\ best' \in [Spawners -> Cores] /\ unborn' \subseteq Tasks
    BY Names DEF TypeInv
  <2> QED
    BY <2>1 DEF TypeInv, timers, handlers
<1>2. Started' /\ OneQueue' /\ OwnThreads'
  BY <1>1, SameThreads DEF handlers
<1>3. Accounted'
  <2>0. \A d, u : Has(d, u)' = Has(d, u)
    BY QueuesUnchanged
  <2>1. /\ pc'[s] = "scan" /\ task'[s] = t /\ pc[s] = "idle"
        /\ \A r \in Spawners : r # s => pc'[r] = pc[r] /\ task'[r] = task[r]
    BY DEF TypeInv
  <2>2. \A r \in Spawners : Carries(r)' <=> r = s \/ Carries(r)
    BY <2>1 DEF Carries
  <2>3. \A r \in Spawners : Carries(r) => r # s /\ task[r] # t /\ task[r] \in Tasks \ unborn'
    BY <2>1 DEF Carries, Accounted
  <2>4. \A u \in Tasks : (\E c \in Cores : Has(c, u))
           <=> u \notin unborn' /\ \A r \in Spawners : Carries(r)' => task'[r] # u
    <3> SUFFICES ASSUME NEW u \in Tasks
                 PROVE  (\E c \in Cores : Has(c, u))
                          <=> u \notin unborn' /\ \A r \in Spawners : Carries(r)' => task'[r] # u
      OBVIOUS
    <3>1. CASE u = t
      BY <3>1, <2>1, <2>2 DEF Accounted
    <3>2. CASE u # t
      BY <3>2, <2>1, <2>2, <2>3 DEF Accounted
    <3> QED
      BY <3>1, <3>2
  <2>5. \A r \in Spawners : Carries(r)' => task'[r] \in Tasks \ unborn'
    BY <2>1, <2>2, <2>3
  <2>6. \A r, q \in Spawners : Carries(r)' /\ Carries(q)' /\ task'[r] = task'[q] => r = q
    BY <2>1, <2>2, <2>3 DEF Accounted
  <2> QED
    BY <2>0, <2>4, <2>5, <2>6 DEF Accounted
<1> QED
  BY <1>1, <1>2, <1>3

\* The scan, and taking the lock, carry on.
LEMMA CarryQ ==
  ASSUME QInv, TypeInv', NEW s \in Spawners,
         Carries(s), Carries(s)', UNCHANGED <<ready, queue, place, handlers, unborn, task>>,
         \A r \in Spawners : r # s => pc'[r] = pc[r]
  PROVE  QInv'
<1> USE DEF QInv
<1>1. Started' /\ OneQueue' /\ OwnThreads'
  BY SameThreads DEF handlers, place
<1>2. \A d, u : Has(d, u)' = Has(d, u)
  BY QueuesUnchanged
<1>3. \A r \in Spawners : Carries(r)' <=> Carries(r)
  BY DEF Carries
<1>4. Accounted'
  BY <1>2, <1>3 DEF Accounted
<1> QED
  BY <1>1, <1>4

\* The scan looks at one core after the other.
LEMMA ScanCoreQ == ASSUME QInv, NEW s \in Spawners, ScanCore(s) PROVE QInv'
<1> USE DEF ScanCore, Step
<1>1. pc[s] = "scan" /\ pc'[s] = "scan" /\ \A r \in Spawners : r # s => pc'[r] = pc[r]
  BY DEF QInv, TypeInv
<1>2. scan[s] \in Cores
  BY SchedulerAssumption DEF QInv, TypeInv, Cores
<1>3. best' \in [Spawners -> Cores]
  BY <1>2 DEF QInv, TypeInv
<1>4. scan' \in [Spawners -> Nat]
  BY DEF QInv, TypeInv
<1>5. pc' \in [Spawners -> {"idle", "scan", "push", "insert", "unlock"}]
  BY DEF QInv, TypeInv
<1>6. TypeInv'
  BY <1>3, <1>4, <1>5 DEF QInv, TypeInv, timers, place, handlers
<1> QED
  BY <1>1, <1>6, CarryQ DEF Carries

\* All cores have been looked at.
LEMMA EndScanQ == ASSUME QInv, NEW s \in Spawners, EndScan(s) PROVE QInv'
<1> USE DEF EndScan, Step
<1>1. /\ pc[s] = "scan" /\ pc'[s] = "push"
      /\ \A r \in Spawners : r # s => pc'[r] = pc[r]
  BY DEF QInv, TypeInv
<1>2. pc' \in [Spawners -> {"idle", "scan", "push", "insert", "unlock"}]
  BY DEF QInv, TypeInv
<1>3. TypeInv'
  BY <1>2 DEF QInv, TypeInv, timers, place, handlers
<1> QED
  BY <1>1, <1>3, CarryQ DEF Carries

\* The lock of the best core is taken.
LEMMA PushLockQ == ASSUME QInv, NEW s \in Spawners, PushLock(s) PROVE QInv'
<1> USE DEF PushLock, Step
<1>1. /\ pc[s] = "push" /\ pc'[s] = "insert"
      /\ \A r \in Spawners : r # s => pc'[r] = pc[r]
  BY DEF QInv, TypeInv
<1>2. /\ pc' \in [Spawners -> {"idle", "scan", "push", "insert", "unlock"}]
      /\ lock' \in [Cores -> AllThreads \cup {NoThread}]
  BY Names DEF QInv, TypeInv
<1>3. TypeInv'
  BY <1>2 DEF QInv, TypeInv, timers, place, handlers
<1> QED
  BY <1>1, <1>3, CarryQ DEF Carries
\* What an insertion does to the queues: the task goes into one of the core of the lowest
\* score, and everything else stays.
LEMMA InsertIs ==
  ASSUME QInv, NEW s \in Spawners, Insert(s)
  PROVE  LET c == best[s]
             k == Policy[task[s]]
         IN /\ c \in Cores /\ k \in Classes /\ task[s] \in Tasks
            /\ queue' \in [Cores -> [Classes -> Queues]]
            /\ \A d \in Cores, l \in Classes :
                 /\ d = c /\ l = k =>
                      /\ Distinct(queue'[d][l])
                      /\ Threads(queue'[d][l]) = Threads(queue[d][l]) \cup {task[s]}
                      /\ Len(queue'[d][l].list) = Len(queue[d][l].list) + 1
                      /\ queue'[d][l].load = queue[d][l].load + Priority[task[s]]
                 /\ ~(d = c /\ l = k) => queue'[d][l] = queue[d][l]
            /\ \A d \in Cores : \A t : Has(d, t)' <=> Has(d, t) \/ (d = c /\ t = task[s])
            /\ \A d \in Cores : ~Has(d, task[s])
<1> DEFINE c == best[s]
           k == Policy[task[s]]
           q == queue[c][k]
           r == Enqueue(q, task[s], Priority[task[s]])
<1>1. /\ c \in Cores /\ task[s] \in Tasks /\ k \in Classes /\ Priority[task[s]] \in Nat
      /\ Carries(s)
  BY SchedulerAssumption DEF Insert, Step, QInv, TypeInv, Accounted, Carries
<1>2. \A d \in Cores : ~Has(d, task[s])
  BY <1>1 DEF QInv, Accounted
<1>3. q \in Queues /\ Distinct(q) /\ task[s] \notin Threads(q)
  BY <1>1, <1>2 DEF QInv, TypeInv, OneQueue, Has
<1>4. /\ r \in Queues /\ Distinct(r) /\ Threads(r) = Threads(q) \cup {task[s]}
      /\ Len(r.list) = Len(q.list) + 1 /\ r.load = q.load + Priority[task[s]]
  BY <1>1, <1>3, EnqueueKeeps
<1>5. queue' = [queue EXCEPT ![c][k] = r]
  BY DEF Insert
<1> HIDE DEF r, c, k
<1>6. /\ queue' \in [Cores -> [Classes -> Queues]]
      /\ queue'[c][k] = r
      /\ \A d \in Cores, l \in Classes : ~(d = c /\ l = k) => queue'[d][l] = queue[d][l]
  BY <1>1, <1>4, <1>5 DEF QInv, TypeInv
<1>7. \A d \in Cores : \A t : Has(d, t)' <=> Has(d, t) \/ (d = c /\ t = task[s])
  BY <1>1, <1>4, <1>6 DEF Has
<1> QED
  BY <1>1, <1>2, <1>4, <1>6, <1>7 DEF c, k

\* The carried task is queued now.
LEMMA InsertQ == ASSUME QInv, NEW s \in Spawners, Insert(s) PROVE QInv'
<1> DEFINE c == best[s]
           k == Policy[task[s]]
<1>0. /\ c \in Cores /\ k \in Classes /\ task[s] \in Tasks
      /\ queue' \in [Cores -> [Classes -> Queues]]
      /\ \A d \in Cores, l \in Classes :
           /\ d = c /\ l = k =>
                /\ Distinct(queue'[d][l])
                /\ Threads(queue'[d][l]) = Threads(queue[d][l]) \cup {task[s]}
           /\ ~(d = c /\ l = k) => queue'[d][l] = queue[d][l]
      /\ \A d \in Cores : \A t : Has(d, t)' <=> Has(d, t) \/ (d = c /\ t = task[s])
      /\ \A d \in Cores : ~Has(d, task[s])
  BY InsertIs
<1> HIDE DEF c
<1> USE DEF Step, QInv
<1>1. /\ pc[s] = "insert" /\ pc'[s] = "unlock" /\ ready /\ ready' = ready
      /\ \A r \in Spawners : r # s => pc'[r] = pc[r]
      /\ UNCHANGED <<timers, place, handlers, unborn, task, best, scan, lock>>
  BY DEF Insert, TypeInv
<1>2. TypeInv'
  <2>1. pc' \in [Spawners -> {"idle", "scan", "push", "insert", "unlock"}]
    BY DEF Insert, TypeInv
  <2>2. calls' \in [Cores -> Nat]
    <3>1. \A n \in Nat : n + (IF Concerns(c, k) THEN 1 ELSE 0) \in Nat
      OBVIOUS
    <3> QED
      BY <1>0, <3>1 DEF Insert, TypeInv, c
  <2> QED
    BY <1>0, <1>1, <2>1, <2>2 DEF TypeInv, timers, place, handlers
<1>3. Started'
  BY <1>1 DEF Started, place, handlers
<1>4. OneQueue'
  <2>1. \A d \in Cores, l \in Classes : Distinct(queue'[d][l])
    BY <1>0 DEF OneQueue
  <2>2. \A d \in Cores, l \in Classes : \A t \in Threads(queue'[d][l]) : Policy[t] = l
    <3> SUFFICES ASSUME NEW d \in Cores, NEW l \in Classes, NEW t \in Threads(queue'[d][l])
                 PROVE  Policy[t] = l
      OBVIOUS
    <3>1. CASE d = c /\ l = k
      <4>0. Threads(queue'[c][k]) = Threads(queue[c][k]) \cup {task[s]}
        BY <1>0
      <4>1. t \in Threads(queue[c][k]) \/ t = task[s]
        BY <3>1, <4>0
      <4>2. \A u \in Threads(queue[c][k]) : Policy[u] = k
        BY <1>0 DEF OneQueue
      <4> QED
        BY <3>1, <4>1, <4>2
    <3>2. CASE ~(d = c /\ l = k)
      BY <3>2, <1>0 DEF OneQueue
    <3> QED
      BY <3>1, <3>2
  <2>3. \A d, e \in Cores, t \in Tasks : Has(d, t)' /\ Has(e, t)' => d = e
    BY <1>0 DEF OneQueue
  <2> QED
    BY <2>1, <2>2, <2>3 DEF OneQueue
<1>5. Accounted'
  <2>1. \A r \in Spawners : Carries(r)' <=> Carries(r) /\ r # s
    BY <1>1 DEF Carries
  <2>2. Carries(s)
    BY <1>1 DEF Carries
  <2>3. \A t \in Tasks : (\E d \in Cores : Has(d, t)')
                           <=> t \notin unborn /\ \A r \in Spawners : Carries(r)' => task[r] # t
    <3> SUFFICES ASSUME NEW t \in Tasks
                 PROVE  (\E d \in Cores : Has(d, t)')
                          <=> t \notin unborn /\ \A r \in Spawners : Carries(r)' => task[r] # t
      OBVIOUS
    <3>1. CASE t = task[s]
      BY <3>1, <1>0, <2>1, <2>2 DEF Accounted
    <3>2. CASE t # task[s]
      BY <3>2, <1>0, <2>1, <2>2 DEF Accounted
    <3> QED
      BY <3>1, <3>2
  <2> QED
    BY <1>1, <2>1, <2>3 DEF Accounted
<1>6. OwnThreads'
  BY <1>0, <1>1 DEF OwnThreads, place, handlers
<1> QED
  BY <1>2, <1>3, <1>4, <1>5, <1>6

\* After the push the spawner carries nothing.
LEMMA PushUnlockQ == ASSUME QInv, NEW s \in Spawners, PushUnlock(s) PROVE QInv'
<1> USE DEF PushUnlock, Step, QInv
<1>1. /\ pc[s] = "unlock" /\ pc'[s] = "idle"
      /\ \A r \in Spawners : r # s => pc'[r] = pc[r] /\ task'[r] = task[r]
  BY DEF TypeInv
<1>2. TypeInv'
  <2>1. /\ pc' \in [Spawners -> {"idle", "scan", "push", "insert", "unlock"}]
        /\ task' \in [Spawners -> Tasks \cup {NoThread}] /\ scan' \in [Spawners -> Nat]
        /\ best' \in [Spawners -> Cores]
        /\ lock' \in [Cores -> AllThreads \cup {NoThread}]
    BY Names DEF TypeInv
  <2> QED
    BY <2>1 DEF TypeInv, timers, place, handlers
<1>3. Started' /\ OneQueue' /\ OwnThreads'
  BY <1>2, SameThreads DEF place, handlers
<1>4. \A d, u : Has(d, u)' = Has(d, u)
  BY QueuesUnchanged
<1>5. \A r \in Spawners : /\ Carries(r)' <=> Carries(r)
                          /\ Carries(r) => r # s
  BY <1>1 DEF Carries
<1>6. Accounted'
  BY <1>1, <1>4, <1>5 DEF Accounted
<1> QED
  BY <1>2, <1>3, <1>6

\* What a handler changes outside of the queues matters to no spawner.
LEMMA HandlerOnlyQ ==
  ASSUME QInv, TypeInv', ready' = ready, queue' = queue, UNCHANGED spawners,
         current' = current, currentCore' = currentCore,
         \A c \in Cores : hpc'[c] # "none" => hpc[c] # "none" \/ ready,
         \A c \in Cores : interrupted'[c] \in {interrupted[c], current[c], NoThread}
  PROVE  QInv'
<1>1. Started' /\ OneQueue' /\ OwnThreads'
  BY SameThreads
<1>2. \A d, u : Has(d, u)' = Has(d, u)
  BY QueuesUnchanged
<1>3. Accounted'
  BY <1>2 DEF Accounted, Carries, spawners, QInv
<1> QED
  BY <1>1, <1>3 DEF QInv

\* Entering the handler: the flag is that of the core that is interrupted.
LEMMA BeginInterruptIs ==
  ASSUME QInv, NEW c \in Cores, BeginInterrupt(c)
  PROVE  /\ inInterrupt' = [inInterrupt EXCEPT ![c] = TRUE]
         /\ interrupted' = [interrupted EXCEPT ![c] = current[c]]
         /\ hpc' = [hpc EXCEPT ![c] = "lock"]
         /\ hpc[c] = "none" /\ ready /\ current[c] # NoThread
         /\ inInterrupt' \in [Cores -> BOOLEAN]
         /\ interrupted' \in [Cores -> AllThreads \cup {NoThread}]
         /\ hpc' \in [Cores -> {"none", "lock", "switch", "return"}]
         /\ \A d \in Cores : interrupted'[d] \in {interrupted[d], current[d]}
<1>1. ready /\ current[c] # NoThread
  BY DEF BeginInterrupt, Interruptible, QInv, Started
<1>2. currentCore[current[c]] = c
  BY <1>1 DEF QInv, OwnThreads
<1>3. inInterrupt' = [inInterrupt EXCEPT ![c] = TRUE] /\ hpc[c] = "none"
  BY <1>2 DEF BeginInterrupt, Interruptible
<1>4. interrupted' = [interrupted EXCEPT ![c] = current[c]]
  BY DEF BeginInterrupt
<1>5. hpc' = [hpc EXCEPT ![c] = "lock"]
  BY DEF BeginInterrupt
<1>6. interrupted' \in [Cores -> AllThreads \cup {NoThread}]
  BY <1>4 DEF QInv, TypeInv
<1>7. \A d \in Cores : interrupted'[d] \in {interrupted[d], current[d]}
  BY <1>4 DEF QInv, TypeInv
<1> QED
  BY <1>1, <1>3, <1>4, <1>5, <1>6, <1>7 DEF QInv, TypeInv

\* A handler begins for a call,
LEMMA CallArrivesQ == ASSUME QInv, NEW c \in Cores, CallArrives(c) PROVE QInv'
<1>1. BeginInterrupt(c)
  BY DEF CallArrives
<1>2. /\ inInterrupt' \in [Cores -> BOOLEAN]
      /\ interrupted' \in [Cores -> AllThreads \cup {NoThread}]
      /\ hpc' \in [Cores -> {"none", "lock", "switch", "return"}]
      /\ \A d \in Cores : interrupted'[d] \in {interrupted[d], current[d]}
      /\ ready
  BY <1>1, BeginInterruptIs DEF QInv, TypeInv
<1>3. calls' \in [Cores -> Nat]
  BY DEF CallArrives, QInv, TypeInv
<1>4. TypeInv'
  BY <1>2, <1>3 DEF CallArrives, QInv, TypeInv, timers, place, spawners
<1> QED
  BY <1>2, <1>4, HandlerOnlyQ DEF CallArrives, place

\* or for the preemption timer;
LEMMA TimerFiresQ == ASSUME QInv, NEW c \in Cores, TimerFires(c) PROVE QInv'
<1>1. BeginInterrupt(c)
  BY DEF TimerFires
<1>2. /\ inInterrupt' \in [Cores -> BOOLEAN]
      /\ interrupted' \in [Cores -> AllThreads \cup {NoThread}]
      /\ hpc' \in [Cores -> {"none", "lock", "switch", "return"}]
      /\ \A d \in Cores : interrupted'[d] \in {interrupted[d], current[d]}
      /\ ready
  BY <1>1, BeginInterruptIs DEF QInv, TypeInv
<1>3. event' \in [Cores -> BOOLEAN] /\ timer' \in [Cores -> BOOLEAN]
  BY DEF TimerFires, QInv, TypeInv
<1>4. TypeInv'
  BY <1>2, <1>3 DEF TimerFires, QInv, TypeInv, place, spawners
<1> QED
  BY <1>2, <1>4, HandlerOnlyQ DEF TimerFires, place

\* it takes the lock,
LEMMA SwitchLockQ == ASSUME QInv, NEW c \in Cores, SwitchLock(c) PROVE QInv'
<1> USE DEF SwitchLock, Handling
<1>1. /\ lock' \in [Cores -> AllThreads \cup {NoThread}]
      /\ hpc' \in [Cores -> {"none", "lock", "switch", "return"}]
      /\ \A d \in Cores : hpc'[d] # "none" => hpc[d] # "none"
  BY DEF QInv, TypeInv
<1>2. TypeInv'
  BY <1>1 DEF QInv, TypeInv, timers, place, spawners
<1> QED
  BY <1>1, <1>2, HandlerOnlyQ DEF place

\* and in the end returns.
LEMMA ReturnQ == ASSUME QInv, NEW c \in Cores, Return(c) PROVE QInv'
<1> USE DEF Return, Handling
<1>1. /\ inInterrupt' \in [Cores -> BOOLEAN]
      /\ interrupted' \in [Cores -> AllThreads \cup {NoThread}]
      /\ hpc' \in [Cores -> {"none", "lock", "switch", "return"}]
      /\ \A d \in Cores : hpc'[d] # "none" => hpc[d] # "none"
      /\ \A d \in Cores : interrupted'[d] \in {interrupted[d], NoThread}
  BY DEF QInv, TypeInv
<1>2. context' \in [AllThreads -> {"none", "saved", "live"}]
  BY DEF QInv, TypeInv
<1>3. TypeInv'
  BY <1>1, <1>2 DEF QInv, TypeInv, timers, spawners
<1> QED
  BY <1>1, <1>3, HandlerOnlyQ
\* What a switch that succeeds does: the first thread of the best class becomes current and
\* goes back into its queue, in which all threads stay.
LEMMA SwitchIs ==
  ASSUME QInv, NEW c \in Cores, Switch(c), SwitchFailure(c) = "none"
  PROVE  LET k == BestClass(c)
             t == Popped(queue[c][k])
             previous == current[c]
         IN /\ fault' = "none" /\ k \in Classes /\ Size(c, k) > 0
            /\ t \in Threads(queue[c][k]) /\ t \in Tasks /\ previous # NoThread
            /\ previous \in AllThreads
            /\ queue' \in [Cores -> [Classes -> Queues]]
            /\ \A d \in Cores, l \in Classes :
                 /\ Distinct(queue'[d][l]) /\ Threads(queue'[d][l]) = Threads(queue[d][l])
                 /\ Size(d, l)' = Size(d, l) /\ queue'[d][l].load = queue[d][l].load
            /\ \A d \in Cores : \A u : Has(d, u)' <=> Has(d, u)
            /\ current' = [current EXCEPT ![c] = t]
            /\ currentCore' = [[currentCore EXCEPT ![previous] = NoCore] EXCEPT ![t] = c]
            /\ lastCore' = [lastCore EXCEPT ![previous] = c]
            /\ timer' = [timer EXCEPT ![c] = (Size(c, k) > 1)]
            /\ event' = [event EXCEPT ![c] = (Size(c, k) > 1)]
            /\ lock' = [lock EXCEPT ![c] = NoThread]
            /\ hpc[c] = "switch" /\ hpc' = [hpc EXCEPT ![c] = "return"]
            /\ UNCHANGED <<ready, context, calls, inInterrupt, interrupted, spawners>>
<1> DEFINE k == BestClass(c)
           q == queue[c][k]
           t == Popped(q)
           r == Requeue(q, Levels)
<1>1. k \in Classes /\ Size(c, k) > 0
  BY BestClassIs, SwitchFailureIs DEF QInv
<1>2. q \in Queues /\ Distinct(q) /\ Len(q.list) > 0
  BY <1>1 DEF QInv, TypeInv, OneQueue, Size
<1>3. /\ r \in Queues /\ Distinct(r) /\ Threads(r) = Threads(q)
      /\ Len(r.list) = Len(q.list) /\ r.load = q.load
  BY <1>2, RequeueKeeps
<1>4. t \in Threads(q) /\ t \in Tasks
  <2>1. t = q.list[1].thread /\ q.list[1] \in Elements
    BY <1>2 DEF Popped, Queues
  <2>2. 1 \in 1..Len(q.list)
    BY <1>2 DEF Queues
  <2>3. t \in Threads(q)
    BY <2>1, <2>2 DEF Threads
  <2> QED
    BY <2>1, <2>3 DEF Elements
<1>5. ready /\ current[c] # NoThread /\ currentCore[current[c]] = c
  BY DEF Switch, Handling, QInv, Started, OwnThreads
<1>6. /\ SetTimer(c, Size(c, k) > 1) /\ BecomeCurrent(c, t)
      /\ queue' = [queue EXCEPT ![c][k] = r] /\ lock' = [lock EXCEPT ![c] = NoThread]
      /\ fault' = "none" /\ Handling(c, "switch", "return")
      /\ UNCHANGED <<ready, context, calls, inInterrupt, interrupted, spawners>>
  BY DEF Switch
<1> HIDE DEF k, q, r, t
<1>7. /\ queue' \in [Cores -> [Classes -> Queues]]
      /\ queue'[c][k] = r
      /\ \A d \in Cores, l \in Classes : ~(d = c /\ l = k) => queue'[d][l] = queue[d][l]
  BY <1>1, <1>3, <1>6 DEF QInv, TypeInv
<1>8. \A d \in Cores, l \in Classes :
        /\ Distinct(queue'[d][l]) /\ Threads(queue'[d][l]) = Threads(queue[d][l])
        /\ Size(d, l)' = Size(d, l) /\ queue'[d][l].load = queue[d][l].load
  <2> SUFFICES ASSUME NEW d \in Cores, NEW l \in Classes
               PROVE  /\ Distinct(queue'[d][l]) /\ Threads(queue'[d][l]) = Threads(queue[d][l])
                      /\ Len(queue'[d][l].list) = Len(queue[d][l].list)
                      /\ queue'[d][l].load = queue[d][l].load
    BY DEF Size
  <2>1. CASE d = c /\ l = k
    BY <2>1, <1>3, <1>7 DEF q
  <2>2. CASE ~(d = c /\ l = k)
    BY <2>2, <1>7 DEF QInv, OneQueue
  <2> QED
    BY <2>1, <2>2
<1>9. \A d \in Cores : \A u : Has(d, u)' <=> Has(d, u)
  BY <1>8 DEF Has
<1>10. /\ current' = [current EXCEPT ![c] = t]
       /\ currentCore' = [[currentCore EXCEPT ![current[c]] = NoCore] EXCEPT ![t] = c]
       /\ lastCore' = [lastCore EXCEPT ![current[c]] = c]
  BY <1>5, <1>6 DEF BecomeCurrent
<1>11. current[c] \in AllThreads
  BY <1>5 DEF QInv, TypeInv
<1> QED
  BY <1>1, <1>4, <1>5, <1>6, <1>7, <1>8, <1>9, <1>10, <1>11 DEF k, q, t, SetTimer, Handling

\* The switch gives the core another of its own threads, or fails and leaves everything.
LEMMA SwitchQ == ASSUME QInv, NEW c \in Cores, Switch(c) PROVE QInv'
<1>1. CASE SwitchFailure(c) # "none"
  <2>1. /\ UNCHANGED <<ready, queue, timers, current, currentCore, lastCore, lock, context,
                       calls, inInterrupt, interrupted, spawners>>
        /\ Handling(c, "switch", "return")
    BY <1>1 DEF Switch
  <2>2. /\ hpc' \in [Cores -> {"none", "lock", "switch", "return"}]
        /\ \A d \in Cores : hpc'[d] # "none" => hpc[d] # "none"
    BY <2>1 DEF Handling, QInv, TypeInv
  <2>3. TypeInv'
    BY <2>1, <2>2 DEF QInv, TypeInv, timers, spawners
  <2> QED
    BY <2>1, <2>2, <2>3, HandlerOnlyQ
<1>2. CASE SwitchFailure(c) = "none"
  <2> DEFINE k == BestClass(c)
             t == Popped(queue[c][k])
             previous == current[c]
  <2>0. /\ t \in Threads(queue[c][k]) /\ t \in Tasks /\ previous # NoThread /\ k \in Classes
        /\ previous \in AllThreads
        /\ queue' \in [Cores -> [Classes -> Queues]]
        /\ \A d \in Cores : \A u : Has(d, u)' <=> Has(d, u)
        /\ current' = [current EXCEPT ![c] = t]
        /\ currentCore' = [[currentCore EXCEPT ![previous] = NoCore] EXCEPT ![t] = c]
        /\ lastCore' = [lastCore EXCEPT ![previous] = c]
        /\ timer' = [timer EXCEPT ![c] = (Size(c, k) > 1)]
        /\ event' = [event EXCEPT ![c] = (Size(c, k) > 1)]
        /\ lock' = [lock EXCEPT ![c] = NoThread]
        /\ hpc[c] = "switch" /\ hpc' = [hpc EXCEPT ![c] = "return"]
        /\ UNCHANGED <<ready, context, calls, inInterrupt, interrupted, spawners>>
    BY <1>2, SwitchIs, Zenon
  <2>00. \A d \in Cores, l \in Classes :
           Distinct(queue'[d][l]) /\ Threads(queue'[d][l]) = Threads(queue[d][l])
    BY <1>2, SwitchIs
  <2>01. Has(c, t)
    BY <2>0 DEF Has
  <2> HIDE DEF k, t, previous
  <2>1. TypeInv'
    <3>1. /\ current' \in [Cores -> AllThreads \cup {NoThread}]
          /\ currentCore' \in [AllThreads -> Cores \cup {NoCore}]
          /\ lastCore' \in [AllThreads -> Cores \cup {NoCore}]
      BY <2>0, Names DEF QInv, TypeInv
    <3>2. /\ timer' \in [Cores -> BOOLEAN] /\ event' \in [Cores -> BOOLEAN]
          /\ lock' \in [Cores -> AllThreads \cup {NoThread}]
          /\ hpc' \in [Cores -> {"none", "lock", "switch", "return"}]
      BY <2>0 DEF QInv, TypeInv
    <3> QED
      BY <2>0, <3>1, <3>2 DEF QInv, TypeInv, spawners
  <2>2. Started'
    <3>1. \A d \in Cores : current'[d] # NoThread \/ current'[d] = current[d]
      BY <2>0, Names DEF QInv, TypeInv
    <3>2. \A d \in Cores : hpc'[d] # "none" => hpc[d] # "none"
      BY <2>0 DEF QInv, TypeInv
    <3> QED
      BY <2>0, <3>1, <3>2 DEF QInv, Started
  <2>3. OneQueue'
    BY <2>0, <2>00 DEF QInv, OneQueue
  <2>4. Accounted'
    BY <2>0 DEF QInv, Accounted, Carries, spawners
  <2>5. OwnThreads'
    <3> SUFFICES ASSUME NEW d \in Cores
                 PROVE  /\ current'[d] \in {NoThread, Kernel(d)} \/ Has(d, current'[d])
                        /\ current'[d] # NoThread => currentCore'[current'[d]] = d
      BY <2>0 DEF QInv, OwnThreads
    <3>1. CASE d = c
      <4>1. current'[d] = t /\ currentCore'[t] = c
        BY <3>1, <2>0, Names DEF QInv, TypeInv
      <4> QED
        BY <3>1, <4>1, <2>01
    <3>2. CASE d # c
      <4>1. current'[d] = current[d]
        BY <3>2, <2>0 DEF QInv, TypeInv
      <4>2. current[d] # NoThread => current[d] # previous
        BY <3>2, Apart DEF previous
      <4>3. current[d] # t
        <5>1. current[d] = t => Has(d, t)
          BY <2>0, Names DEF QInv, OwnThreads
        <5> QED
          BY <3>2, <5>1, <2>0, <2>01 DEF QInv, OneQueue
      <4>4. current[d] # NoThread => currentCore'[current[d]] = currentCore[current[d]]
        BY <4>2, <4>3, <2>0 DEF QInv, TypeInv
      <4> QED
        BY <4>1, <4>4 DEF QInv, OwnThreads
    <3> QED
      BY <3>1, <3>2
  <2> QED
    BY <2>1, <2>2, <2>3, <2>4, <2>5 DEF QInv
<1> QED
  BY <1>1, <1>2

\* Every step keeps the queues and the threads of the cores in order.
LEMMA NextQInv == QInv /\ [Next]_vars => QInv'
<1> SUFFICES ASSUME QInv, [Next]_vars PROVE QInv'
  OBVIOUS
<1>1. CASE BecomeReady
  BY <1>1, BecomeReadyQ
<1>2. ASSUME NEW s \in Spawners, SpawnerStep(s) PROVE QInv'
  BY <1>2, BeginScheduleQ, ScanCoreQ, EndScanQ, PushLockQ, InsertQ, PushUnlockQ
     DEF SpawnerStep
<1>3. ASSUME NEW c \in Cores, ApInitialize(c) \/ CallArrives(c) \/ TimerFires(c) \/ HandlerStep(c)
      PROVE  QInv'
  BY <1>3, ApInitializeQ, CallArrivesQ, TimerFiresQ, SwitchLockQ, SwitchQ, ReturnQ
     DEF HandlerStep
<1>4. CASE UNCHANGED vars
  <2> USE <1>4 DEF vars, timers, place, handlers, spawners
  <2>1. TypeInv'
    BY DEF QInv, TypeInv
  <2> QED
    BY <2>1, HandlerOnlyQ
<1> QED
  BY <1>1, <1>2, <1>3, <1>4 DEF Next
------------------------------------------------------------------------------
(* SInv is inductive, given QInv                                           *)

\* The code's priorities are positive: 128, or what process_manager sets.
Positive == \A t \in Tasks : Priority[t] > 0

\* A core with a thread in a queue of some length, and the other way round.
LEMMA BusyHas ==
  ASSUME QInv, NEW c \in Cores
  PROVE  Busy(c) => \E t \in Tasks : Has(c, t)
<1> SUFFICES ASSUME NEW k \in Classes, Size(c, k) > 0
             PROVE  \E t \in Tasks : Has(c, t)
  BY DEF Busy
<1>1. 1 \in 1..Len(queue[c][k].list)
  BY DEF QInv, TypeInv, Queues, Size
<1>2. Has(c, queue[c][k].list[1].thread)
  BY <1>1 DEF Has, Threads
<1> QED
  BY <1>2, QueuedAreTasks DEF QInv

\* A task that is not created yet is in no core.
LEMMA UnbornIsNowhere ==
  ASSUME QInv, NEW t \in unborn
  PROVE  t \in Tasks /\ \A c \in Cores : ~Has(c, t) /\ OnCpu(c) # t
<1>1. t \in Tasks /\ \A c \in Cores : ~Has(c, t)
  BY DEF QInv, TypeInv, Accounted
<1>2. \A c \in Cores : current[c] # t /\ interrupted[c] # t
  BY <1>1, Names DEF QInv, OwnThreads
<1> QED
  BY <1>1, <1>2 DEF OnCpu

\* At first no core has a thread or a handler.
LEMMA InitSInv == Init => SInv
<1> SUFFICES ASSUME Init PROVE SInv
  OBVIOUS
<1> USE DEF Init
<1>1. \A c \in Cores, k \in Classes : Size(c, k) = 0 /\ queue[c][k] = EmptyQueue
  BY DEF Size, EmptyQueue
<1>2. \A c \in Cores : ~Busy(c)
  BY <1>1 DEF Busy
<1>3. Contexts
  BY Names DEF Contexts, OnCpu
<1>4. Handlers
  BY DEF Handlers
<1>5. Switchable /\ Chosen
  BY <1>1, <1>2 DEF Switchable, Chosen
<1> QED
  BY <1>3, <1>4, <1>5 DEF SInv

\* The kernel thread of a core gets its registers.
LEMMA ApInitializeS == ASSUME QInv, SInv, NEW c \in Cores, ApInitialize(c) PROVE SInv'
<1> USE DEF ApInitialize
<1>0. queue' = queue
  OBVIOUS
<1>1. ~ready /\ \A d \in Cores : hpc[d] = "none" /\ ~Busy(d)
  BY BusyHas DEF QInv, Started, TypeInv
<1>2. /\ \A d \in Cores : OnCpu(d) = current[d] /\ OnCpu(d)' = current'[d]
      /\ current'[c] = Kernel(c) /\ current[c] = NoThread
      /\ \A d \in Cores : d # c => current'[d] = current[d]
      /\ context'[Kernel(c)] = "live"
      /\ \A t \in AllThreads : t # Kernel(c) => context'[t] = context[t]
  BY <1>1, Names DEF OnCpu, handlers, QInv, TypeInv
<1>3. Contexts'
  <2>1. ASSUME NEW t \in AllThreads
        PROVE  context'[t] = "live" <=> \E d \in Cores : t = OnCpu(d)'
    <3>1. CASE t = Kernel(c)
      BY <3>1, <1>2
    <3>2. CASE t # Kernel(c)
      BY <3>2, <1>2, Names DEF SInv, Contexts
    <3> QED
      BY <3>1, <3>2
  <2>2. \A t \in Tasks : context'[t] = context[t]
    BY <1>2, Names
  <2> QED
    BY <2>1, <2>2 DEF Contexts, SInv, spawners
<1>4. Handlers'
  BY <1>1 DEF Handlers, SInv, handlers
<1>5. Switchable'
  BY <1>0, QueuesUnchanged DEF Switchable, SInv, timers, handlers
<1>6. Chosen'
  BY <1>0, <1>1, QueuesUnchanged DEF Chosen
<1> QED
  BY <1>3, <1>4, <1>5, <1>6 DEF SInv

\* Steps that leave threads, queues, calls and events alone.
LEMMA OutsideS ==
  ASSUME SInv, UNCHANGED <<queue, timers, place, calls, handlers, unborn, fault>>
  PROVE  SInv'
<1> USE DEF SInv, timers, place, handlers
<1>1. \A c \in Cores : OnCpu(c)' = OnCpu(c)
  BY DEF OnCpu
<1>2. Contexts'
  BY <1>1 DEF Contexts
<1>3. Handlers'
  BY QueuesUnchanged DEF Handlers
<1>4. Switchable' /\ Chosen'
  BY QueuesUnchanged DEF Switchable, Chosen
<1> QED
  BY <1>2, <1>3, <1>4

\* The new task has a context and is in no core.
LEMMA BeginScheduleS ==
  ASSUME QInv, SInv, NEW s \in Spawners, NEW t \in Tasks, BeginSchedule(s, t) PROVE SInv'
<1> USE DEF BeginSchedule, SInv, handlers
<1>1. /\ context'[t] = "saved" /\ \A u \in AllThreads : u # t => context'[u] = context[u]
      /\ t \in unborn
  BY Names DEF QInv, TypeInv
<1>2. \A c \in Cores : OnCpu(c)' = OnCpu(c) /\ OnCpu(c) # t
  BY <1>1, UnbornIsNowhere DEF OnCpu
<1>3. Contexts'
  <2>1. \A u \in AllThreads : context'[u] = "live" <=> \E d \in Cores : u = OnCpu(d)'
    BY <1>1, <1>2 DEF Contexts
  <2>2. \A u \in Tasks \ unborn' : context'[u] # "none"
    BY <1>1, Names DEF Contexts
  <2> QED
    BY <2>1, <2>2 DEF Contexts
<1>4. Handlers'
  BY QueuesUnchanged DEF Handlers
<1>5. Switchable' /\ Chosen'
  BY QueuesUnchanged DEF Switchable, Chosen, timers
<1> QED
  BY <1>3, <1>4, <1>5

\* A push that does not concern the best class leaves a better one that has threads.
LEMMA ConcernsIs ==
  ASSUME TypeInv, NEW c \in Cores, NEW k \in Classes
  PROVE  Concerns(c, k) = IF k = "top" THEN TRUE
                          ELSE IF k = "normal" THEN Size(c, "top") = 0
                          ELSE Size(c, "top") = 0 /\ Size(c, "normal") = 0
<1>1. CASE k = "top"
  BY <1>1, Zenon DEF Concerns
<1>2. CASE k = "normal"
  <2>1. k # "top"
    BY <1>2
  <2> QED
    BY <1>2, <2>1, Zenon DEF Concerns
<1>3. CASE k # "top" /\ k # "normal"
  BY <1>3, Zenon DEF Concerns
<1> QED
  BY <1>1, <1>2, <1>3

\* The queue that grows has a load; where its class is the best, a switch is asked for.
LEMMA InsertS ==
  ASSUME Positive, QInv, SInv, QInv', NEW s \in Spawners, Insert(s) PROVE SInv'
<1>0. PICK c \in Cores, k \in Classes : c = best[s] /\ k = Policy[task[s]]
  BY InsertIs
<1>1. /\ task[s] \in Tasks
      /\ Len(queue'[c][k].list) = Len(queue[c][k].list) + 1
      /\ queue'[c][k].load = queue[c][k].load + Priority[task[s]]
      /\ \A d \in Cores, l \in Classes : ~(d = c /\ l = k) => queue'[d][l] = queue[d][l]
      /\ \A d \in Cores : \A t : Has(d, t)' <=> Has(d, t) \/ (d = c /\ t = task[s])
  <2>1. /\ task[s] \in Tasks
        /\ \A d \in Cores, l \in Classes :
             /\ d = best[s] /\ l = Policy[task[s]] =>
                  /\ Len(queue'[d][l].list) = Len(queue[d][l].list) + 1
                  /\ queue'[d][l].load = queue[d][l].load + Priority[task[s]]
             /\ ~(d = best[s] /\ l = Policy[task[s]]) => queue'[d][l] = queue[d][l]
        /\ \A d \in Cores : \A t : Has(d, t)' <=> Has(d, t) \/ (d = best[s] /\ t = task[s])
    BY InsertIs
  <2> QED
    BY <1>0, <2>1
<1>2. /\ UNCHANGED <<timers, place, handlers, unborn, fault>>
      /\ calls' = [calls EXCEPT ![c] = @ + (IF Concerns(c, k) THEN 1 ELSE 0)]
  BY <1>0 DEF Insert
<1> USE DEF SInv, timers, place, handlers
<1>3. /\ Size(c, k)' = Size(c, k) + 1
      /\ queue'[c][k].load = queue[c][k].load + Priority[task[s]]
      /\ \A d \in Cores, l \in Classes : ~(d = c /\ l = k) =>
           Size(d, l)' = Size(d, l) /\ queue'[d][l] = queue[d][l]
  BY <1>1 DEF Size
<1>4. \A d \in Cores, l \in Classes : Size(d, l) \in Nat /\ queue[d][l].load \in Nat
  <2>1. \A d \in Cores, l \in Classes : queue[d][l] \in Queues
    BY DEF QInv, TypeInv
  <2> QED
    BY <2>1 DEF Size, Queues
<1>5. Priority[task[s]] > 0 /\ Priority[task[s]] \in Nat
  BY <1>1, SchedulerAssumption DEF Positive
<1>6. \A d \in Cores : Busy(d) => Busy(d)'
  BY <1>1, <1>3, <1>4 DEF Busy
<1>7. Busy(c)'
  BY <1>1, <1>3, <1>4 DEF Busy
<1>8. Contexts'
  BY <1>2 DEF Contexts, OnCpu
<1>9. Handlers'
  BY <1>1, <1>2 DEF Handlers
<1>10. Switchable'
  <2>1. \A d \in Cores : d # c => calls'[d] = calls[d]
    BY <1>2 DEF QInv, TypeInv
  <2>2. \A d \in Cores : calls'[d] > 0 \/ event[d] \/ hpc[d] \in {"lock", "switch"} => Busy(d)'
    BY <1>6, <1>7, <2>1 DEF Switchable
  <2>3. queue'[c][k].load > 0
    BY <1>1, <1>3, <1>4, <1>5
  <2>4. \A d \in Cores, l \in Classes : Size(d, l)' > 0 => queue'[d][l].load > 0
    BY <1>3, <2>3 DEF Switchable
  <2> QED
    BY <1>2, <2>2, <2>4 DEF Switchable
<1>11. Chosen'
  <2> SUFFICES ASSUME NEW d \in Cores, calls'[d] = 0, hpc[d] \notin {"lock", "switch"}, Busy(d)'
               PROVE  \E l \in Classes : /\ l = BestClass(d)'
                                         /\ current[d] \in Threads(queue'[d][l])
                                         /\ Size(d, l)' > 1 => event[d]
    BY <1>2 DEF Chosen, Size
  <2>1. CASE d # c
    <3>1. \A l \in Classes : Size(d, l)' = Size(d, l) /\ queue'[d][l] = queue[d][l]
      BY <2>1, <1>3
    <3>2. BestClass(d)' = BestClass(d) /\ BestClass(d) \in Classes
      BY <3>1, BestClassIs, BestClassIsNext DEF QInv, Classes
    <3>3. Busy(d) /\ calls[d] = 0
      BY <2>1, <3>1, <1>2 DEF Busy, QInv, TypeInv
    <3> QED
      BY <3>1, <3>2, <3>3 DEF Chosen
  <2>2. CASE d = c
    <3>1. calls[c] = 0 /\ ~Concerns(c, k)
      BY <2>2, <1>2 DEF QInv, TypeInv
    <3>2. \/ k = "normal" /\ Size(c, "top") > 0
          \/ k = "background" /\ (Size(c, "top") > 0 \/ Size(c, "normal") > 0)
      <4>1. k # "top" /\ (k = "normal" => Size(c, "top") # 0)
            /\ (k = "background" => Size(c, "top") # 0 \/ Size(c, "normal") # 0)
        BY <3>1, ConcernsIs DEF QInv
      <4>2. Size(c, "top") \in Nat /\ Size(c, "normal") \in Nat
        BY <1>4 DEF Classes
      <4>3. k = "normal" \/ k = "background"
        BY <4>1 DEF Classes
      <4> QED
        BY <4>1, <4>2, <4>3
    <3>3. \A l \in Classes : l # k => Size(c, l)' = Size(c, l) /\ queue'[c][l] = queue[c][l]
      BY <1>3
    <3>4. BestClass(c)' = BestClass(c) /\ BestClass(c) # k /\ BestClass(c) \in Classes
      BY <3>2, <3>3, <1>3, <1>4, BestClassIs, BestClassIsNext DEF QInv, Classes
    <3>5. Busy(c)
      BY <3>2 DEF Busy, Classes
    <3> QED
      BY <2>2, <3>1, <3>3, <3>4, <3>5 DEF Chosen
  <2> QED
    BY <2>1, <2>2
<1> QED
  BY <1>2, <1>8, <1>9, <1>10, <1>11
\* A handler begins only where there is a thread to switch to, and has interrupted the
\* thread whose registers the core has.
LEMMA BeginInterruptS ==
  ASSUME QInv, SInv, NEW c \in Cores, BeginInterrupt(c), Busy(c),
         \A d \in Cores : calls'[d] = calls[d] \/ d = c,
         \A d \in Cores : event'[d] = event[d] \/ (d = c /\ ~event'[d]),
         \A d \in Cores : timer'[d] = event'[d],
         UNCHANGED <<queue, place, unborn, fault>>
  PROVE  SInv'
<1> USE DEF SInv, place
<1>1. /\ \A d \in Cores : d # c => /\ inInterrupt'[d] = inInterrupt[d] /\ hpc'[d] = hpc[d]
                                   /\ interrupted'[d] = interrupted[d]
      /\ inInterrupt'[c] /\ hpc'[c] = "lock" /\ interrupted'[c] = current[c]
      /\ hpc[c] = "none" /\ current[c] # NoThread
  BY BeginInterruptIs DEF QInv, TypeInv
<1>2. \A d \in Cores : OnCpu(d)' = OnCpu(d)
  BY <1>1 DEF OnCpu
<1>3. Contexts'
  BY <1>2 DEF Contexts
<1>4. Handlers'
  BY <1>1, QueuesUnchanged DEF Handlers
<1>5. Switchable'
  <2>1. \A d \in Cores : Busy(d)' = Busy(d)
    BY QueuesUnchanged
  <2>2. \A d \in Cores : calls'[d] > 0 \/ event'[d] \/ hpc'[d] \in {"lock", "switch"} => Busy(d)
    BY <1>1 DEF Switchable
  <2> QED
    BY <2>1, <2>2, QueuesUnchanged DEF Switchable
<1>6. Chosen'
  <2> SUFFICES ASSUME NEW d \in Cores, calls'[d] = 0, hpc'[d] \notin {"lock", "switch"}, Busy(d)
               PROVE  /\ current[d] \in Threads(queue[d][BestClass(d)])
                      /\ Size(d, BestClass(d)) > 1 => event'[d]
    BY QueuesUnchanged DEF Chosen, Size
  <2>1. d # c
    BY <1>1
  <2> QED
    BY <2>1, <1>1 DEF Chosen
<1> QED
  BY <1>3, <1>4, <1>5, <1>6

\* A call has been made only to a core with threads,
LEMMA CallArrivesS == ASSUME QInv, SInv, NEW c \in Cores, CallArrives(c) PROVE SInv'
<1>1. BeginInterrupt(c) /\ Busy(c)
  BY DEF CallArrives, SInv, Switchable
<1>2. \A d \in Cores : calls'[d] = calls[d] \/ d = c
  BY DEF CallArrives, QInv, TypeInv
<1>3. \A d \in Cores : event'[d] = event[d] /\ timer'[d] = event'[d]
  BY DEF CallArrives, timers, SInv, Switchable
<1> QED
  BY <1>1, <1>2, <1>3, BeginInterruptS DEF CallArrives, spawners

\* and so has the timer been set.
LEMMA TimerFiresS == ASSUME QInv, SInv, NEW c \in Cores, TimerFires(c) PROVE SInv'
<1>1. BeginInterrupt(c) /\ Busy(c)
  BY DEF TimerFires, SInv, Switchable
<1>2. \A d \in Cores : /\ event'[d] = event[d] \/ (d = c /\ ~event'[d])
                       /\ timer'[d] = event'[d]
  BY DEF TimerFires, QInv, TypeInv, SInv, Switchable
<1> QED
  BY <1>1, <1>2, BeginInterruptS DEF TimerFires, spawners

\* Taking the lock does not change what is under the handler.
LEMMA SwitchLockS == ASSUME QInv, SInv, NEW c \in Cores, SwitchLock(c) PROVE SInv'
<1> USE DEF SwitchLock, Handling, SInv, place, timers
<1>1. /\ hpc[c] = "lock" /\ hpc'[c] = "switch"
      /\ \A d \in Cores : d # c => hpc'[d] = hpc[d]
      /\ inInterrupt' = inInterrupt /\ interrupted' = interrupted /\ unborn' = unborn
  BY DEF QInv, TypeInv, spawners
<1>2. \A d \in Cores : OnCpu(d)' = OnCpu(d)
  BY <1>1 DEF OnCpu
<1>3. Contexts'
  BY <1>1, <1>2 DEF Contexts
<1>4. Handlers'
  BY <1>1, QueuesUnchanged DEF Handlers
<1>5. Switchable'
  BY <1>1, QueuesUnchanged DEF Switchable
<1>6. Chosen'
  BY <1>1, QueuesUnchanged DEF Chosen
<1> QED
  BY <1>3, <1>4, <1>5, <1>6

\* The switch finds a thread, and leaves the core with one of its best class.
LEMMA SwitchS == ASSUME QInv, SInv, QInv', NEW c \in Cores, Switch(c) PROVE SInv'
<1>0. PICK k \in Classes : k = BestClass(c)
  BY BestClassIs DEF QInv
<1>1. SwitchFailure(c) = "none"
  <2>1. Busy(c) /\ timer[c] = event[c]
    BY DEF Switch, Handling, SInv, Switchable
  <2>2. Size(c, k) > 0
    BY <1>0, <2>1, BestClassIs DEF QInv
  <2>3. queue[c][k].load > 0
    BY <2>2 DEF SInv, Switchable
  <2> QED
    BY <1>0, <2>1, <2>2, <2>3, SwitchFailureIs DEF QInv
<1>2. PICK t \in Tasks : t = Popped(queue[c][k])
  BY <1>0, <1>1, SwitchIs
<1>3. /\ fault' = "none" /\ Size(c, k) > 0 /\ t \in Threads(queue[c][k])
      /\ current' = [current EXCEPT ![c] = t]
      /\ timer' = [timer EXCEPT ![c] = (Size(c, k) > 1)]
      /\ event' = [event EXCEPT ![c] = (Size(c, k) > 1)]
      /\ hpc[c] = "switch" /\ hpc' = [hpc EXCEPT ![c] = "return"]
      /\ UNCHANGED <<context, calls, inInterrupt, interrupted, spawners>>
  BY <1>0, <1>1, <1>2, SwitchIs, Zenon
<1>4. \A d \in Cores, l \in Classes :
        /\ Threads(queue'[d][l]) = Threads(queue[d][l])
        /\ Size(d, l)' = Size(d, l) /\ queue'[d][l].load = queue[d][l].load
  BY <1>1, SwitchIs
<1>5. /\ current'[c] = t /\ hpc'[c] = "return"
      /\ \A d \in Cores : d # c => /\ current'[d] = current[d] /\ hpc'[d] = hpc[d]
                                   /\ timer'[d] = timer[d] /\ event'[d] = event[d]
      /\ timer'[c] = (Size(c, k) > 1) /\ event'[c] = (Size(c, k) > 1)
  BY <1>3 DEF QInv, TypeInv
<1>6. /\ \A d \in Cores : \A u : Has(d, u)' <=> Has(d, u)
      /\ \A d \in Cores : Busy(d)' <=> Busy(d)
      /\ \A d \in Cores : BestClass(d)' = BestClass(d) /\ BestClass(d) \in Classes
  <2>1. \A d \in Cores : BestClass(d) \in Classes /\ BestClass(d)' = BestClass(d)
    BY <1>4, BestClassIs, BestClassIsNext DEF QInv, Classes
  <2> QED
    BY <1>4, <2>1 DEF Has, Busy
<1> USE DEF SInv
<1>7. Contexts'
  <2>1. \A d \in Cores : OnCpu(d)' = OnCpu(d)
    BY <1>3, <1>5 DEF OnCpu
  <2> QED
    BY <1>3, <2>1 DEF Contexts, spawners
<1>8. Handlers'
  <2>1. Has(c, t)
    BY <1>3 DEF Has
  <2> QED
    BY <1>3, <1>5, <1>6, <2>1 DEF Handlers
<1>9. Switchable'
  <2>1. Busy(c)
    BY <1>3 DEF Busy
  <2> QED
    BY <1>3, <1>4, <1>5, <1>6, <2>1 DEF Switchable
<1>10. Chosen'
  <2> SUFFICES ASSUME NEW d \in Cores, calls'[d] = 0, hpc'[d] \notin {"lock", "switch"}, Busy(d)'
               PROVE  \E l \in Classes : /\ l = BestClass(d)'
                                         /\ current'[d] \in Threads(queue'[d][l])
                                         /\ Size(d, l)' > 1 => event'[d]
    BY DEF Chosen, Size
  <2>1. CASE d = c
    <3>1. k = BestClass(c)' /\ current'[c] = t /\ Size(c, k)' = Size(c, k)
      BY <1>0, <1>4, <1>5, <1>6
    <3>2. t \in Threads(queue'[c][k]) /\ event'[c] = (Size(c, k) > 1)
      BY <1>3, <1>4, <1>5
    <3> QED
      BY <2>1, <3>1, <3>2
  <2>2. CASE d # c
    BY <2>2, <1>3, <1>4, <1>5, <1>6 DEF Chosen
  <2> QED
    BY <2>1, <2>2
<1> QED
  BY <1>3, <1>7, <1>8, <1>9, <1>10

\* The handler returns: the thread that goes on has a context that no core has loaded, and
\* the one it takes the registers from had them.
LEMMA ReturnS == ASSUME QInv, SInv, NEW c \in Cores, Return(c) PROVE SInv'
<1> DEFINE t == current[c]
           previous == interrupted[c]
<1> USE DEF SInv
<1>1. hpc[c] = "return" /\ Has(c, t) /\ t \in Tasks /\ previous # NoThread
  BY QueuedAreTasks DEF Return, Handling, Handlers, QInv
<1>2. currentCore[t] = c /\ previous \in AllThreads /\ t \in AllThreads
  BY <1>1, Names DEF QInv, TypeInv, OwnThreads
<1>3. /\ hpc'[c] = "none" /\ ~inInterrupt'[c] /\ interrupted'[c] = NoThread
      /\ \A d \in Cores : d # c => /\ hpc'[d] = hpc[d] /\ inInterrupt'[d] = inInterrupt[d]
                                   /\ interrupted'[d] = interrupted[d]
      /\ UNCHANGED <<queue, timers, current, calls, spawners>>
  BY <1>2 DEF Return, Handling, QInv, TypeInv
<1>4. /\ OnCpu(c) = previous /\ OnCpu(c)' = t
      /\ \A d \in Cores : d # c => OnCpu(d)' = OnCpu(d) /\ OnCpu(d) # t /\ OnCpu(d) # previous
  <2>1. \A d \in Cores : OnCpu(d) \in {current[d], interrupted[d]}
    BY DEF OnCpu
  <2>2. \A d \in Cores : d # c => OnCpu(d) # t /\ OnCpu(d) # previous
    BY <1>1, <2>1, Names, Apart
  <2> QED
    BY <1>1, <1>3, <2>2 DEF OnCpu
<1>5. context[previous] = "live" /\ (t # previous => context[t] = "saved")
  <2>1. t \notin unborn
    BY <1>1 DEF QInv, Accounted
  <2>2. context[t] # "none"
    BY <1>1, <2>1 DEF Contexts
  <2>3. t # previous => context[t] # "live"
    BY <1>2, <1>4 DEF Contexts
  <2> QED
    BY <1>2, <1>4, <2>2, <2>3 DEF Contexts, QInv, TypeInv
<1> HIDE DEF t, previous
<1>6. /\ fault' = "none" /\ context'[t] = "live" /\ (t # previous => context'[previous] = "saved")
      /\ \A u \in AllThreads : u # t /\ u # previous => context'[u] = context[u]
  <2>1. CASE t = previous
    BY <2>1, <1>5 DEF Return, t, previous
  <2>2. CASE t # previous
    <3>1. context' = [[context EXCEPT ![previous] = "saved"] EXCEPT ![t] = "live"]
      BY <2>2 DEF Return, t, previous
    <3>2. fault' = "none"
      BY <2>2, <1>5 DEF Return, t, previous
    <3> QED
      BY <2>2, <3>1, <3>2, <1>2 DEF QInv, TypeInv
  <2> QED
    BY <2>1, <2>2
<1>7. Contexts'
  <2>1. ASSUME NEW u \in AllThreads
        PROVE  context'[u] = "live" <=> \E d \in Cores : u = OnCpu(d)'
    <3>1. CASE u = t
      BY <3>1, <1>4, <1>6
    <3>2. CASE u # t /\ u = previous
      BY <3>2, <1>4, <1>6
    <3>3. CASE u # t /\ u # previous
      BY <3>3, <1>4, <1>6 DEF Contexts
    <3> QED
      BY <3>1, <3>2, <3>3
  <2>2. \A u \in Tasks \ unborn : context'[u] # "none"
    BY <1>6, Names DEF Contexts
  <2> QED
    BY <2>1, <2>2, <1>3 DEF Contexts, spawners
<1>8. Handlers'
  BY <1>3, QueuesUnchanged DEF Handlers
<1>9. Switchable'
  BY <1>3, QueuesUnchanged DEF Switchable, timers
<1>10. Chosen'
  BY <1>1, <1>3, QueuesUnchanged DEF Chosen, timers
<1> QED
  BY <1>6, <1>7, <1>8, <1>9, <1>10

\* Every step keeps the switches in order.
LEMMA NextSInv ==
  ASSUME Positive, QInv, SInv, QInv', [Next]_vars
  PROVE  SInv'
<1>1. CASE BecomeReady
  BY <1>1, OutsideS DEF BecomeReady, spawners
<1>2. ASSUME NEW s \in Spawners, SpawnerStep(s) PROVE SInv'
  <2>1. ASSUME NEW t \in Tasks, BeginSchedule(s, t) PROVE SInv'
    BY <2>1, BeginScheduleS
  <2>2. CASE ScanCore(s)
    BY <2>2, OutsideS DEF ScanCore
  <2>3. CASE EndScan(s)
    BY <2>3, OutsideS DEF EndScan
  <2>4. CASE PushLock(s)
    BY <2>4, OutsideS DEF PushLock
  <2>5. CASE Insert(s)
    BY <2>5, InsertS
  <2>6. CASE PushUnlock(s)
    BY <2>6, OutsideS DEF PushUnlock
  <2> QED
    BY <1>2, <2>1, <2>2, <2>3, <2>4, <2>5, <2>6 DEF SpawnerStep
<1>3. ASSUME NEW c \in Cores, ApInitialize(c) \/ CallArrives(c) \/ TimerFires(c) \/ HandlerStep(c)
      PROVE  SInv'
  BY <1>3, ApInitializeS, CallArrivesS, TimerFiresS, SwitchLockS, SwitchS, ReturnS
     DEF HandlerStep
<1>4. CASE UNCHANGED vars
  BY <1>4, OutsideS DEF vars, spawners
<1> QED
  BY <1>1, <1>2, <1>3, <1>4 DEF Next

------------------------------------------------------------------------------
(* The lock of a scheduler                                                 *)

\* Spawner s has the lock of core c's scheduler and works on its queues.
Pushing(s, c) == pc[s] \in {"insert", "unlock"} /\ best[s] = c

\* A push and a switch have the lock; the thread under a handler is in no push, since
\* these run with interrupts off.
LockOwned ==
  /\ \A s \in Spawners, c \in Cores : Pushing(s, c) => lock[c] = s
  /\ \A c \in Cores : hpc[c] = "switch" => lock[c] = interrupted[c]
  /\ \A c \in Cores : hpc[c] # "none" =>
        /\ interrupted[c] # NoThread
        /\ interrupted[c] \in Spawners => pc[interrupted[c]] \in {"idle", "scan"}

\* The queues of a core are worked on by one push or by one switch at a time.
OneAtATime ==
  \A c \in Cores : /\ \A r, s \in Spawners : Pushing(r, c) /\ Pushing(s, c) => r = s
                   /\ \A s \in Spawners : Pushing(s, c) => hpc[c] # "switch"

\* A spawner that takes a step is under no handler.
LEMMA StepsAlone ==
  ASSUME QInv, LockOwned, NEW s \in Spawners, NEW from, NEW to, Step(s, from, to)
  PROVE  \A c \in Cores : hpc[c] # "none" => interrupted[c] # s
<1> SUFFICES ASSUME NEW c \in Cores, hpc[c] # "none", interrupted[c] = s PROVE FALSE
  OBVIOUS
<1>1. PICK d \in Cores : current[d] = s /\ hpc[d] = "none"
  BY DEF Step
<1>2. c # d /\ s # NoThread
  BY <1>1, Names
<1> QED
  BY <1>1, <1>2, Apart

\* One lock cannot name two spawners, nor one and the thread under a handler.
LEMMA LockOwnedExcludes == LockOwned => OneAtATime
<1> SUFFICES ASSUME LockOwned, NEW c \in Cores
             PROVE  /\ \A r, s \in Spawners : Pushing(r, c) /\ Pushing(s, c) => r = s
                    /\ \A s \in Spawners : Pushing(s, c) => hpc[c] # "switch"
  BY DEF OneAtATime
<1>1. ASSUME NEW s \in Spawners, Pushing(s, c), hpc[c] = "switch" PROVE FALSE
  <2>1. interrupted[c] = s
    BY <1>1 DEF LockOwned
  <2> QED
    BY <1>1, <2>1 DEF LockOwned, Pushing
<1> QED
  BY <1>1 DEF LockOwned

\* Every step keeps the locks where they belong.
LEMMA NextLockOwned ==
  ASSUME QInv, LockOwned, [Next]_vars
  PROVE  LockOwned'
<1>1. ASSUME UNCHANGED <<pc, best, lock, hpc, interrupted>> PROVE LockOwned'
  BY <1>1 DEF LockOwned, Pushing
<1>2. CASE BecomeReady \/ \E c \in Cores : ApInitialize(c)
  BY <1>1, <1>2 DEF BecomeReady, ApInitialize, handlers, spawners
<1>3. ASSUME NEW s \in Spawners, SpawnerStep(s) PROVE LockOwned'
  <2>1. ASSUME NEW from, NEW to, Step(s, from, to), UNCHANGED <<lock, handlers>>,
               \A r \in Spawners : r # s => best'[r] = best[r],
               to \in {"insert", "unlock"} => from \in {"insert", "unlock"} /\ best'[s] = best[s]
        PROVE  LockOwned'
    <3>1. /\ pc[s] = from /\ pc'[s] = to
          /\ \A r \in Spawners : r # s => pc'[r] = pc[r] /\ best'[r] = best[r]
      BY <2>1 DEF Step, QInv, TypeInv
    <3>2. \A r \in Spawners, c \in Cores : Pushing(r, c)' => Pushing(r, c)
      BY <2>1, <3>1 DEF Pushing
    <3>3. \A c \in Cores : hpc[c] # "none" => interrupted[c] # s
      BY <2>1, StepsAlone
    <3> QED
      BY <2>1, <3>1, <3>2, <3>3 DEF LockOwned, handlers
  <2>2. ASSUME NEW t \in Tasks, BeginSchedule(s, t) PROVE LockOwned'
    BY <2>2, <2>1 DEF BeginSchedule, QInv, TypeInv
  <2>3. CASE ScanCore(s)
    <3>1. \A r \in Spawners : r # s => best'[r] = best[r]
      BY <2>3 DEF ScanCore, QInv, TypeInv
    <3> QED
      BY <2>1, <2>3, <3>1 DEF ScanCore
  <2>4. CASE EndScan(s)
    BY <2>1, <2>4 DEF EndScan
  <2>5. CASE Insert(s)
    BY <2>1, <2>5 DEF Insert
  <2>6. CASE PushLock(s)
    <3>1. /\ pc'[s] = "insert" /\ best' = best /\ hpc' = hpc /\ interrupted' = interrupted
          /\ \A r \in Spawners : r # s => pc'[r] = pc[r]
          /\ lock[best[s]] = NoThread /\ lock'[best[s]] = s
          /\ \A c \in Cores : c # best[s] => lock'[c] = lock[c]
      BY <2>6 DEF PushLock, Step, QInv, TypeInv, handlers
    <3>2. \A c \in Cores : hpc[c] # "none" => interrupted[c] # s
      BY <2>6, StepsAlone DEF PushLock
    <3>3. hpc[best[s]] # "switch"
      BY <3>1 DEF LockOwned, QInv, TypeInv
    <3>4. \A r \in Spawners : r # s => ~Pushing(r, best[s])
      BY <3>1, Names DEF LockOwned, QInv, TypeInv
    <3> QED
      BY <3>1, <3>2, <3>3, <3>4 DEF LockOwned, Pushing
  <2>7. CASE PushUnlock(s)
    <3>1. /\ pc[s] = "unlock" /\ pc'[s] = "idle" /\ hpc' = hpc /\ interrupted' = interrupted
          /\ \A r \in Spawners : r # s => pc'[r] = pc[r] /\ best'[r] = best[r]
          /\ \A c \in Cores : c # best[s] => lock'[c] = lock[c]
          /\ best[s] \in Cores
      BY <2>7 DEF PushUnlock, Step, QInv, TypeInv, handlers
    <3>2. Pushing(s, best[s])
      BY <3>1 DEF Pushing
    <3>3. hpc[best[s]] # "switch" /\ \A r \in Spawners : r # s => ~Pushing(r, best[s])
      BY <3>1, <3>2, LockOwnedExcludes DEF OneAtATime
    <3> QED
      BY <3>1, <3>3 DEF LockOwned, Pushing
  <2> QED
    BY <1>3, <2>2, <2>3, <2>4, <2>5, <2>6, <2>7 DEF SpawnerStep
<1>4. ASSUME NEW c \in Cores, BeginInterrupt(c), UNCHANGED <<pc, best, lock>> PROVE LockOwned'
  <2>1. /\ hpc'[c] = "lock" /\ interrupted'[c] = current[c] /\ current[c] # NoThread
        /\ \A d \in Cores : d # c => hpc'[d] = hpc[d] /\ interrupted'[d] = interrupted[d]
    BY <1>4, BeginInterruptIs DEF QInv, TypeInv
  <2>2. current[c] \in Spawners => pc[current[c]] \in {"idle", "scan"}
    BY <1>4 DEF BeginInterrupt, Interruptible
  <2> QED
    BY <1>4, <2>1, <2>2 DEF LockOwned, Pushing
<1>5. ASSUME NEW c \in Cores, CallArrives(c) \/ TimerFires(c) PROVE LockOwned'
  BY <1>4, <1>5 DEF CallArrives, TimerFires, spawners
<1>6. ASSUME NEW c \in Cores, SwitchLock(c) PROVE LockOwned'
  <2>1. /\ hpc[c] = "lock" /\ hpc'[c] = "switch" /\ lock[c] = NoThread
        /\ lock'[c] = interrupted[c] /\ UNCHANGED <<interrupted, pc, best>>
        /\ \A d \in Cores : d # c => hpc'[d] = hpc[d] /\ lock'[d] = lock[d]
    BY <1>6 DEF SwitchLock, Handling, QInv, TypeInv, spawners
  <2>2. \A s \in Spawners : ~Pushing(s, c)
    BY <2>1, Names DEF LockOwned
  <2> QED
    BY <2>1, <2>2 DEF LockOwned, Pushing
<1>7. ASSUME NEW c \in Cores, Switch(c) PROVE LockOwned'
  <2>1. /\ hpc[c] = "switch" /\ hpc'[c] = "return" /\ UNCHANGED <<interrupted, pc, best>>
        /\ \A d \in Cores : d # c => hpc'[d] = hpc[d]
        /\ lock' = lock \/ lock' = [lock EXCEPT ![c] = NoThread]
    BY <1>7 DEF Switch, Handling, QInv, TypeInv, spawners
  <2>2. \A s \in Spawners : ~Pushing(s, c)
    BY <2>1, LockOwnedExcludes DEF OneAtATime
  <2>3. \A d \in Cores : d # c => lock'[d] = lock[d]
    BY <2>1 DEF QInv, TypeInv
  <2> QED
    BY <2>1, <2>2, <2>3 DEF LockOwned, Pushing
<1>8. ASSUME NEW c \in Cores, Return(c) PROVE LockOwned'
  <2>1. /\ hpc'[c] = "none" /\ UNCHANGED <<lock, pc, best>>
        /\ \A d \in Cores : d # c => hpc'[d] = hpc[d] /\ interrupted'[d] = interrupted[d]
    BY <1>8 DEF Return, Handling, QInv, TypeInv, spawners
  <2> QED
    BY <2>1 DEF LockOwned, Pushing
<1>9. CASE UNCHANGED vars
  BY <1>1, <1>9 DEF vars, handlers, spawners
<1> QED
  BY <1>2, <1>3, <1>5, <1>6, <1>7, <1>8, <1>9 DEF Next, HandlerStep

------------------------------------------------------------------------------
(* Every queue keeps its order                                             *)

\* Every list is spaced, its first element at time 0.
InOrder == \A c \in Cores, k \in Classes :
             /\ Gaps(queue[c][k].list)
             /\ Size(c, k) > 0 => queue[c][k].list[1].key = 0

\* Only insert and pop change a list.
LEMMA NextInOrder ==
  ASSUME QInv, InOrder, [Next]_vars
  PROVE  InOrder'
<1>1. ASSUME UNCHANGED queue PROVE InOrder'
  BY <1>1 DEF InOrder, Size
<1>2. ASSUME NEW c \in Cores, NEW k \in Classes, NEW r,
             queue' = [queue EXCEPT ![c][k] = r],
             Gaps(r.list), Len(r.list) > 0 => r.list[1].key = 0
      PROVE  InOrder'
  <2> SUFFICES ASSUME NEW d \in Cores, NEW l \in Classes
               PROVE  /\ Gaps(queue'[d][l].list)
                      /\ Len(queue'[d][l].list) > 0 => queue'[d][l].list[1].key = 0
    BY DEF InOrder, Size
  <2>1. queue'[d][l] = IF d = c /\ l = k THEN r ELSE queue[d][l]
    BY <1>2 DEF QInv, TypeInv
  <2>2. CASE d = c /\ l = k
    BY <1>2, <2>1, <2>2
  <2>3. CASE ~(d = c /\ l = k)
    BY <2>1, <2>3 DEF InOrder, Size
  <2> QED
    BY <2>2, <2>3
<1>3. ASSUME NEW s \in Spawners, Insert(s) PROVE InOrder'
  <2> DEFINE c == best[s]
             k == Policy[task[s]]
             a == queue[c][k].list
             x == [thread |-> task[s], priority |-> Priority[task[s]], key |-> 0]
             r == Enqueue(queue[c][k], task[s], Priority[task[s]])
  <2>1. c \in Cores /\ k \in Classes /\ task[s] \in Tasks
    BY <1>3, InsertIs
  <2>2. a \in Seq(Elements) /\ Gaps(a) /\ (Len(a) > 0 => a[1].key = 0)
    BY <2>1 DEF QInv, TypeInv, Queues, InOrder, Size
  <2>3. x \in Elements /\ x.priority <= Levels /\ x.key = 0
    <3>1. Priority[task[s]] \in 0..(Levels - 1) /\ Levels \in Nat
      BY <2>1, SchedulerAssumption
    <3> QED
      BY <2>1, <3>1 DEF Elements
  <2>4. queue' = [queue EXCEPT ![c][k] = r] /\ r.list = Relative(Place(a, x))
    BY <1>3 DEF Insert, Enqueue
  <2> HIDE DEF a, x, r, c, k
  <2>5. PICK b : b = Place(a, x) /\ b \in Seq(Elements) /\ Gaps(b)
    <3>1. PICK p \in 1..(Len(a) + 1) : Place(a, x) = Inserted(a, x, p)
      BY <2>2, <2>3, PlaceInserts
    <3>2. Inserted(a, x, p) \in Seq(Elements)
      BY <2>2, <2>3 DEF Inserted
    <3> QED
      BY <2>2, <2>3, <3>1, <3>2, EnqueueGaps
  <2>6. Gaps(r.list) /\ (Len(r.list) > 0 => r.list[1].key = 0)
    BY <2>4, <2>5, RelativeGaps, RelativeKeeps
  <2> QED
    BY <1>2, <2>1, <2>4, <2>6
<1>4. ASSUME NEW c \in Cores, Switch(c), SwitchFailure(c) = "none" PROVE InOrder'
  <2> DEFINE k == BestClass(c)
             a == queue[c][k].list
             h == Head(a)
             x == [h EXCEPT !.key = @ + Levels - h.priority]
             r == Requeue(queue[c][k], Levels)
  <2>1. k \in Classes /\ Size(c, k) > 0
    BY <1>4, SwitchIs
  <2>2. queue[c][k] \in Queues /\ a \in Seq(Elements) /\ Len(a) > 0 /\ Gaps(a)
    BY <2>1 DEF QInv, TypeInv, Queues, InOrder, Size
  <2>3. h = a[1] /\ h \in Elements
    BY <2>2
  <2>4. /\ x \in Elements /\ x.priority = a[1].priority
        /\ x.key = a[1].key + Levels - x.priority
    <3>1. Levels \in Nat /\ h.priority \in Nat /\ h.key \in Int
      BY <2>3, SchedulerAssumption DEF Elements
    <3>2. h.key + Levels - h.priority \in Int
      BY <3>1
    <3> QED
      BY <2>3, <3>2 DEF Elements
  <2>5. queue' = [queue EXCEPT ![c][k] = r]
    BY <1>4, Zenon DEF Switch
  <2>6. r.list = Relative(Place(Tail(a), x))
    BY <2>2 DEF Requeue, Queues
  <2> HIDE DEF a, h, x, r, k
  <2>7. PICK b : b = Place(Tail(a), x) /\ b \in Seq(Elements) /\ Gaps(b)
    <3>1. Tail(a) \in Seq(Elements)
      BY <2>2
    <3>2. PICK p \in 1..(Len(Tail(a)) + 1) : Place(Tail(a), x) = Inserted(Tail(a), x, p)
      BY <2>4, <3>1, PlaceInserts
    <3>3. Inserted(Tail(a), x, p) \in Seq(Elements)
      BY <2>4, <3>1 DEF Inserted
    <3> QED
      BY <2>2, <2>4, <3>2, <3>3, RequeueGaps
  <2>8. Gaps(r.list) /\ (Len(r.list) > 0 => r.list[1].key = 0)
    BY <2>6, <2>7, RelativeGaps, RelativeKeeps
  <2> QED
    BY <1>2, <2>1, <2>5, <2>8
<1>5. ASSUME NEW c \in Cores, Switch(c), SwitchFailure(c) # "none" PROVE InOrder'
  BY <1>1, <1>5 DEF Switch
<1>6. ASSUME NEW s \in Spawners, SpawnerStep(s) PROVE InOrder'
  BY <1>1, <1>3, <1>6 DEF SpawnerStep, BeginSchedule, ScanCore, EndScan, PushLock, PushUnlock
<1>7. ASSUME NEW c \in Cores,
             ApInitialize(c) \/ CallArrives(c) \/ TimerFires(c) \/ HandlerStep(c)
      PROVE  InOrder'
  BY <1>1, <1>4, <1>5, <1>7
  DEF ApInitialize, CallArrives, TimerFires, HandlerStep, SwitchLock, Return
<1>8. CASE BecomeReady
  BY <1>1, <1>8 DEF BecomeReady
<1>9. CASE UNCHANGED vars
  BY <1>1, <1>9 DEF vars
<1> QED
  BY <1>6, <1>7, <1>8, <1>9 DEF Next

\* No virtual time is further from another than the last is from the first.
LEMMA InOrderIsProportional == QInv /\ InOrder => Proportional
<1> SUFFICES ASSUME QInv, InOrder, NEW c \in Cores, NEW k \in Classes
             PROVE  Within(IF Size(c, k) <= 3 THEN 1 ELSE Size(c, k) - 2, queue[c][k].list)
  BY DEF Proportional
<1> DEFINE a == queue[c][k].list
           n == Len(a)
           t == Times(a)
           m == IF n <= 3 THEN 1 ELSE n - 2
<1>1. a \in Seq(Elements) /\ Gaps(a)
  BY DEF QInv, TypeInv, Queues, InOrder
<1> HIDE DEF a
<1>2. /\ n \in Nat /\ t \in [1..n -> Int]
      /\ \A i \in 1..n : t[i] = a[i].key /\ a[i].key \in Int
  BY <1>1, TimesAre
<1>3. m = Ahead(n) + 1 /\ m \in Nat
  BY <1>2 DEF Ahead
<1>4. PICK e \in Nat : e = Turns(m)
  BY <1>3, TurnsGrow
<1>5. /\ \A i \in 1..n : t[i] <= t[n]
      /\ \A i \in 2..n : t[n] <= t[i] + Turns(n - i)
      /\ n > 0 => t[n] <= t[1] + e
  BY <1>1, <1>3, <1>4 DEF Gaps, Spaced
<1>6. \A j \in 1..n : t[n] <= t[j] + e
  <2> TAKE j \in 1..n
  <2>1. CASE j = 1
    BY <1>2, <1>5, <2>1
  <2>2. CASE j > 1
    <3>1. PICK l \in Nat : l = n - j /\ l <= m /\ j \in 2..n
      BY <1>2, <2>2
    <3>2. PICK f \in Nat : f = Turns(l) /\ f <= e
      BY <1>3, <1>4, <3>1, TurnsGrow
    <3>3. t[n] <= t[j] + f
      BY <1>5, <3>1, <3>2
    <3>4. t[n] \in Int /\ t[j] \in Int
      BY <1>2
    <3> QED
      BY <3>2, <3>3, <3>4
  <2> QED
    BY <1>2, <2>1, <2>2
<1>7. \A i, j \in 1..n : a[i].key - a[j].key <= e
  <2> TAKE i, j \in 1..n
  <2>1. t[i] <= t[n] /\ t[n] <= t[j] + e /\ n \in 1..n
    BY <1>2, <1>5, <1>6
  <2>2. t[i] \in Int /\ t[j] \in Int /\ t[n] \in Int
    BY <1>2, <2>1
  <2>3. t[i] - t[j] <= e
    BY <2>1, <2>2
  <2> QED
    BY <1>2, <2>3
<1>8. e = m * Levels
  BY <1>4 DEF Turns
<1> HIDE DEF m
<1>9. Within(m, a)
  BY <1>7, <1>8 DEF Within
<1> QED
  BY <1>9 DEF m, a, Size

------------------------------------------------------------------------------
(* Theorems                                                                *)

\* The queues, what every spawner carries and what every core runs agree in every
\* reachable state.
THEOREM QueueInvariance == Spec => []QInv
<1> QED
  BY InitQInv, NextQInv, PTL DEF Spec

\* The lock keeps pushes and switches of one core apart.
THEOREM OneAtATimeHolds == Spec => []OneAtATime
<1>1. Init => LockOwned
  BY DEF Init, LockOwned, Pushing
<1>2. QInv /\ LockOwned /\ [Next]_vars => LockOwned'
  BY NextLockOwned
<1>3. LockOwned => OneAtATime
  BY LockOwnedExcludes
<1> QED
  BY <1>1, <1>2, <1>3, QueueInvariance, PTL DEF Spec

\* No thread of a queue gets ahead of another by more than a turn for each of the others
\* but one, or by one turn when they are three or fewer.
THEOREM ProportionalHolds == Spec => []Proportional
<1>1. Init => InOrder
  <2> SUFFICES ASSUME Init, NEW c \in Cores, NEW k \in Classes
               PROVE  Gaps(queue[c][k].list) /\ (Size(c, k) > 0 => queue[c][k].list[1].key = 0)
    BY DEF InOrder
  <2>1. queue[c][k].list = <<>>
    BY DEF Init, EmptyQueue
  <2> QED
    BY <2>1 DEF Gaps, Spaced, Size
<1>2. QInv /\ InOrder /\ [Next]_vars => InOrder'
  BY NextInOrder
<1>3. QInv /\ InOrder => Proportional
  BY InOrderIsProportional
<1> QED
  BY <1>1, <1>2, <1>3, QueueInvariance, PTL DEF Spec

\* With the switches, too, when all priorities are positive.
THEOREM Invariance ==
  ASSUME Positive
  PROVE  Spec => []IInv
<1>1. Init => IInv
  BY InitQInv, InitSInv DEF IInv
<1>2. IInv /\ [Next]_vars => IInv'
  BY NextQInv, NextSInv DEF IInv
<1> QED
  BY <1>1, <1>2, PTL DEF Spec

\* Every scheduled thread is in exactly one queue of one core, that of its policy, once,
\* and a core runs its own threads.
THEOREM QueuedOnceHolds == Spec => []QueuedOnce
<1>1. QInv => QueuedOnce
  <2> SUFFICES ASSUME QInv PROVE QueuedOnce
    OBVIOUS
  <2> USE DEF QInv
  <2>1. TypeOK
    <3>1. ASSUME NEW c \in Cores, NEW k \in Classes
          PROVE  /\ Threads(queue[c][k]) \subseteq Tasks /\ queue[c][k].load \in Nat
                 /\ \A i \in 1..Size(c, k) : queue[c][k].list[i].key \in Int
      <4>1. queue[c][k] \in Queues
        BY DEF TypeInv
      <4>2. \A i \in 1..Len(queue[c][k].list) : queue[c][k].list[i] \in Elements
        BY <4>1 DEF Queues
      <4>3. Threads(queue[c][k]) \subseteq Tasks
        BY QueuedAreTasks DEF Has
      <4> QED
        BY <4>1, <4>2, <4>3 DEF Queues, Elements, Size
    <3> QED
      BY <3>1 DEF TypeOK, TypeInv
  <2>2. ASSUME NEW t \in Scheduled
        PROVE  Cardinality({x \in Cores \X Classes \X (1..Cardinality(Tasks)) :
                   x[3] <= Size(x[1], x[2]) /\ queue[x[1]][x[2]].list[x[3]].thread = t}) = 1
    <3> DEFINE at(x) == x[3] <= Size(x[1], x[2]) /\ queue[x[1]][x[2]].list[x[3]].thread = t
               S == {x \in Cores \X Classes \X (1..Cardinality(Tasks)) : at(x)}
    <3>1. t \in Tasks /\ t \notin unborn /\ \A s \in Spawners : Carries(s) => task[s] # t
      BY DEF Scheduled, Carries
    <3>2. PICK c \in Cores : Has(c, t)
      BY <3>1 DEF Accounted
    <3>3. PICK k \in Classes : t \in Threads(queue[c][k])
      BY <3>2 DEF Has
    <3>4. PICK i \in 1..Size(c, k) : queue[c][k].list[i].thread = t
      BY <3>3 DEF Threads, Size
    <3>5. Size(c, k) \in Nat /\ Size(c, k) <= Cardinality(Tasks) /\ Cardinality(Tasks) \in Nat
      <4> DEFINE n == Size(c, k)
                 f == [j \in 1..n |-> queue[c][k].list[j].thread]
      <4>1. n \in Nat
        BY BestClassIs
      <4>2. \A j \in 1..n : queue[c][k].list[j].thread \in Tasks
        BY QueuedAreTasks DEF Has, Threads, Size
      <4>3. f \in [1..n -> Tasks] /\ \A a, b \in 1..n : f[a] = f[b] => a = b
        BY <4>2 DEF OneQueue, Distinct, Size
      <4>4. f \in Injection(1..n, Tasks)
        BY <4>3 DEF Injection, IsInjective
      <4>5. IsFiniteSet(1..n) /\ Cardinality(1..n) = n
        BY <4>1, FS_Interval
      <4> HIDE DEF f
      <4> QED
        BY <4>1, <4>4, <4>5, FS_Injection, FS_CardinalityType, SchedulerAssumption
    <3>6. <<c, k, i>> \in S
      BY <3>4, <3>5
    <3>7. \A x \in S : x = <<c, k, i>>
      <4> SUFFICES ASSUME NEW d \in Cores, NEW l \in Classes, NEW j \in 1..Cardinality(Tasks),
                          j <= Size(d, l), queue[d][l].list[j].thread = t
                   PROVE  d = c /\ l = k /\ j = i
        OBVIOUS
      <4>1. j \in 1..Size(d, l)
        BY <3>5, BestClassIs
      <4>2. t \in Threads(queue[d][l]) /\ Has(d, t)
        BY <4>1 DEF Threads, Size, Has
      <4>3. d = c /\ l = k
        BY <3>1, <3>2, <3>3, <4>2 DEF OneQueue
      <4> QED
        BY <3>4, <4>1, <4>3 DEF OneQueue, Distinct, Size
    <3>8. S = {<<c, k, i>>}
      BY <3>6, <3>7
    <3> QED
      BY <3>8, FS_Singleton
  <2>3. \A c \in Cores, k \in Classes : \A t \in Threads(queue[c][k]) : Policy[t] = k
    BY DEF OneQueue
  <2>4. \A c \in Cores :
          current[c] \in {NoThread, Kernel(c)} \cup UNION {Threads(queue[c][k]) : k \in Classes}
    BY DEF OwnThreads, Has
  <2> QED
    BY <2>1, <2>2, <2>3, <2>4 DEF QueuedOnce
<1> QED
  BY <1>1, QueueInvariance, PTL

\* Contexts, current threads and cores agree whenever no handler is about to change them;
\* no switch panics or enters a null thread.
THEOREM ContextsKeptHolds ==
  ASSUME Positive
  PROVE  Spec => []ContextsKept
<1>1. IInv => ContextsKept
  <2> SUFFICES ASSUME IInv PROVE ContextsKept
    OBVIOUS
  <2> USE DEF IInv, QInv, SInv
  <2>1. \A t \in AllThreads : context[t] = "live" =>
          \E c \in Cores : IF hpc[c] = "none" THEN current[c] = t ELSE interrupted[c] = t
    BY DEF Contexts, OnCpu
  <2>2. \A c \in Cores : /\ current[c] # NoThread => currentCore[current[c]] = c
                         /\ hpc[c] = "none" /\ current[c] # NoThread => context[current[c]] = "live"
                         /\ inInterrupt[c] <=> hpc[c] # "none"
    BY DEF Contexts, OnCpu, Handlers, OwnThreads, TypeInv
  <2> QED
    BY <2>1, <2>2 DEF ContextsKept
<1> QED
  BY <1>1, Invariance, PTL

\* A core that has threads runs one of its best class, unless a switch is on its way, and
\* has the preemption timer set while there are several.
THEOREM BestRunsHolds ==
  ASSUME Positive
  PROVE  Spec => []BestRuns
<1>1. IInv => BestRuns
  <2> SUFFICES ASSUME IInv, NEW c \in Cores, ~SwitchComes(c),
                      UNION {Threads(queue[c][k]) : k \in Classes} # {}
               PROVE  /\ current[c] \in Threads(queue[c][BestClass(c)])
                      /\ Size(c, BestClass(c)) > 1 => event[c]
    BY DEF BestRuns
  <2>1. Busy(c)
    <3>1. PICK k \in Classes : Threads(queue[c][k]) # {}
      OBVIOUS
    <3>2. Size(c, k) > 0
      BY <3>1, BestClassIs DEF Threads, Size, IInv, QInv
    <3> QED
      BY <3>2 DEF Busy
  <2>2. calls[c] = 0 /\ hpc[c] \notin {"lock", "switch"}
    BY DEF SwitchComes, IInv, QInv, TypeInv
  <2> QED
    BY <2>1, <2>2 DEF IInv, SInv, Chosen
<1> QED
  BY <1>1, Invariance, PTL
=============================================================================
