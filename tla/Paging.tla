-------------------------------- MODULE Paging --------------------------------
(***************************************************************************)
(* The paging structures (src/kernel/memory/x64paging.cpp, vm.h): a radix  *)
(* tree of tables kept in frames, written by cores that run in different   *)
(* address spaces.  The spaces have a lower half of their own and share    *)
(* the tables of the upper half.  An entry is locked by a bit of its own;  *)
(* the lock of an entry is held while the tables below it are worked on.   *)
(*                                                                         *)
(* The four nested loops of map and of unmap do the same at each level, so *)
(* a level is a number here: Levels is the PML4, 1 is the page table.  An  *)
(* address is the number of its page.  Translation caches are left out.    *)
(***************************************************************************)
EXTENDS Integers, FiniteSets

CONSTANTS Cores,
          NFrames,        \* frames of memory: 1..NFrames; devices have higher numbers
          Levels,         \* 4
          Width,          \* entries of a table (512)
          KernelIndexes,  \* entries of the PML4 a clone copies (258..511)
          BootTables,     \* <<frame, index, frame>>: the tables the booter has built
          BootRoot,       \* its PML4
          Scratch,        \* the page clone_kernel maps a new PML4 at
          Image,          \* <<first page, end>> of a new process, in the lower half
          Requests,       \* what the rest of the kernel asks for, see Start
          Cost,           \* bound: what a request counts for
          MaxCalls        \* bound: what they may count for together

Frames == 1..NFrames
Null == 0
Index(l, page) == (page \div Width^(l - 1)) % Width
Half(page) == IF Index(Levels, page) \in KernelIndexes THEN "upper" ELSE "lower"

Pages == 0..(Width^Levels - 1)
\* The pages that are asked for with the frames of a device.
Devices == UNION {r.at..(r.end - 1) : r \in {q \in Requests : q.do = "device"}}

\* Requests name pages of one half, and not the page of clone_kernel; the kernel has the
\* frames of its own pages only pushed.
\* (What ^ means is said for the provers.)
ASSUME PagingAssumption ==
  /\ Null \notin Cores /\ NFrames \in Nat /\ BootRoot \in Frames
  /\ Levels \in Nat /\ Levels >= 2 /\ Width \in Nat /\ Width >= 1
  /\ Width^0 = 1 /\ \A l \in 1..Levels : Width^l = Width^(l - 1) * Width
  /\ KernelIndexes \subseteq 0..(Width - 1)
  /\ Scratch \in Pages /\ Half(Scratch) = "upper"
  /\ Image[1] \in Pages /\ Image[2] \in Nat /\ Image[2] - 1 \in Pages /\ Image[1] < Image[2]
  /\ \A p \in Image[1]..(Image[2] - 1) : Half(p) = "lower"
  /\ \A r \in Requests :
       /\ r.do \in {"map", "device", "unmap", "query", "process"} /\ Cost[r.do] \in Nat
       /\ r.do # "process" =>
            /\ r.at \in Pages /\ r.end \in Nat /\ r.end - 1 \in Pages /\ r.at < r.end
            /\ r.lower \in BOOLEAN
            /\ \A p \in r.at..(r.end - 1) : p # Scratch /\ (r.lower <=> Half(p) = "lower")
       /\ r.do = "unmap" =>
            r.push \in BOOLEAN /\ (r.push => r.at..(r.end - 1) \cap Devices = {})

\* The booter's tables are a tree in which all of the upper half that is ever shared is there:
\* level[f] is the level of the entries of table f, 0 if f is none; base[f] numbers it among
\* those of its level, and owner[f] is the space a table of the lower half is of.
BootTree(level, base, owner) ==
  /\ level \in [Frames -> 0..Levels] /\ base \in [Frames -> Nat]
  /\ owner \in [Frames -> {Null, BootRoot}]
  /\ base[BootRoot] = 0 /\ \A f \in Frames : level[f] = Levels <=> f = BootRoot
  /\ \A f \in Frames : level[f] > 0 <=> f = BootRoot \/ \E t \in BootTables : t[3] = f
  /\ \A t \in BootTables :
       /\ t \in Frames \X (0..(Width - 1)) \X Frames
       /\ level[t[1]] >= 2 /\ level[t[3]] = level[t[1]] - 1
       /\ base[t[3]] = base[t[1]] * Width + t[2]
       /\ owner[t[3]] = IF t[1] # BootRoot THEN owner[t[1]]
                        ELSE IF t[2] \in KernelIndexes THEN Null ELSE BootRoot
  /\ \A t, u \in BootTables : t[3] = u[3] \/ (t[1] = u[1] /\ t[2] = u[2]) => t = u
  /\ \A i \in KernelIndexes : \E t \in BootTables : t[1] = BootRoot /\ t[2] = i

VARIABLES
  entry,    \* entry[f][i]: entry i of the table in frame f
  free,     \* the frames memory::pmm holds
  cr3,      \* cr3[c]: the PML4 core c runs with
  foreign,  \* foreign[f]: entry 257 of PML4 f, the PML4 under construction
  call,     \* call[c]: what core c is at
  mutex,    \* the core in clone_kernel's spinlock, or Null
  making,   \* making[c]: <<PML4 of the process core c makes, PML4 it came from>>
  spaces,   \* the PML4s
  pages,    \* history: <<space, page, frame>> that map has done and unmap has not undone
  booting,  \* the boot core has not dropped the booter's mapping yet
  fault, calls

vars == <<entry, free, cr3, foreign, call, mutex, making, spaces, pages, booting, fault, calls>>
spaceVars == <<cr3, foreign, mutex, making, spaces, booting>>

Entry == [present |-> FALSE, user |-> FALSE, write |-> FALSE, frame |-> Null, locked |-> FALSE]
\* What is in a frame that nobody has cleared.
Garbage == [Entry EXCEPT !.present = TRUE, !.frame = 2 * NFrames]

\* The constructors of the four tables.
EmptyTable == [i \in 0..(Width - 1) |-> Entry]
Idle == [do |-> "idle"]

Init == /\ entry = [f \in Frames |-> [i \in 0..(Width - 1) |->
                      IF \E t \in BootTables : t[1] = f /\ t[2] = i
                      THEN [Entry EXCEPT !.present = TRUE, !.write = TRUE,
                              !.frame = (CHOOSE t \in BootTables : t[1] = f /\ t[2] = i)[3]]
                      ELSE IF f = BootRoot \/ \E t \in BootTables : t[3] = f
                      THEN Entry ELSE Garbage]]
        /\ free = Frames \ ({BootRoot} \cup {t[3] : t \in BootTables})
        /\ cr3 = [c \in Cores |-> BootRoot]
        /\ foreign = [f \in Frames |-> Null]
        /\ call = [c \in Cores |-> Idle] /\ mutex = Null
        /\ making = [c \in Cores |-> <<Null, Null>>]
        /\ spaces = {BootRoot} /\ pages = {} /\ booting = TRUE /\ fault = "none" /\ calls = 0

\* The table that holds the entry of a page at level l, as the recursive entry of the
\* PML4 finds it; also while an entry on the way is not present.
Table(root, page, l) ==
  LET at[k \in 1..Levels] == IF k = Levels THEN root
                             ELSE entry[at[k + 1]][Index(k + 1, page)].frame
  IN at[l]

EntryOf(c) == entry[Table(cr3[c], call[c].at, call[c].level)][Index(call[c].level, call[c].at)]
SetEntry(c, e) ==
  entry' = [entry EXCEPT ![Table(cr3[c], call[c].at, call[c].level)]
                          [Index(call[c].level, call[c].at)] = e]
Goes(c, k) == call' = [call EXCEPT ![c] = k]

Popped == CHOOSE f \in free : \A g \in free : f <= g

Panic == /\ fault' = "panic"
         /\ UNCHANGED <<spaceVars, entry, free, call, pages, calls>>

------------------------------------------------------------------------------
(* Walking down                                                            *)

\* bit_lock: fetch_or until the bit was clear.  Fault: the bit is not looked at.
IgnoreLock(e) == TRUE
Unlocked(e) == ~e.locked

AtLevel(c, what, levels) ==
  /\ call[c].do = what /\ call[c].step = "lock" /\ call[c].level \in levels
  /\ Unlocked(EntryOf(c))
Inner == 2..Levels
Down(c) == [call[c] EXCEPT !.step = "lock", !.level = @ - 1]

\* The entry takes the attributes of the mapping; a page directory is writable when the
\* mapping is for the user.
Attributed(c, e) == [e EXCEPT !.locked = TRUE, !.user = call[c].user,
                              !.write = IF call[c].level = 2 THEN call[c].user ELSE TRUE]

\* map at an entry that has its table.
MapDescend(c) == /\ AtLevel(c, "map", Inner) /\ EntryOf(c).present
                 /\ SetEntry(c, Attributed(c, EntryOf(c)))
                 /\ Goes(c, Down(c))
                 /\ UNCHANGED <<spaceVars, free, pages, fault, calls>>

\* A missing table: a frame is entered, with whatever it holds,
Link(c) == /\ AtLevel(c, "map", Inner) /\ ~EntryOf(c).present
           /\ \/ free = {} /\ Panic
              \/ /\ free # {} /\ free' = free \ {Popped}
                 /\ SetEntry(c, [EntryOf(c) EXCEPT !.locked = TRUE, !.present = TRUE,
                                                   !.frame = Popped])
                 /\ Goes(c, [call[c] EXCEPT !.step = "clear"])
                 /\ UNCHANGED <<spaceVars, pages, fault, calls>>

\* then it is cleared.
Clear(c) == /\ call[c].do = "map" /\ call[c].step = "clear"
            /\ LET t == Table(cr3[c], call[c].at, call[c].level)
                   i == Index(call[c].level, call[c].at)
               IN entry' = [entry EXCEPT ![entry[t][i].frame] = EmptyTable,
                                         ![t][i] = Attributed(c, @)]
            /\ Goes(c, Down(c))
            /\ UNCHANGED <<spaceVars, free, pages, fault, calls>>

UnmapDescend(c) ==
  /\ AtLevel(c, "unmap", Inner)
  /\ \/ ~EntryOf(c).present /\ Panic
     \/ /\ EntryOf(c).present
        /\ SetEntry(c, [EntryOf(c) EXCEPT !.locked = TRUE])
        /\ Goes(c, Down(c))
        /\ UNCHANGED <<spaceVars, free, pages, fault, calls>>

\* Spaces a page of the upper half is in: all; of the lower half: the caller's.
Sharing(c, page) == IF Half(page) = "upper" THEN spaces ELSE {cr3[c]}

\* Where the walk goes on after a page: the highest entry that is another one.
NextLevel(next, end) ==
  IF next = end THEN Levels + 1
  ELSE CHOOSE l \in 1..Levels : /\ Index(l, next) # 0 \/ l = Levels
                                /\ \A k \in 1..(l - 1) : Index(k, next) = 0

\* After a page: the locks up to the level where the next one starts are released.
Advance(c, e) ==
  LET page == call[c].at
      l == NextLevel(page + 1, call[c].end)
      place(k) == <<Table(cr3[c], page, k), Index(k, page)>>
      released == {place(k) : k \in 1..(IF l > Levels THEN Levels ELSE l)}
  IN /\ entry' = [f \in Frames |-> [i \in 0..(Width - 1) |->
                    LET x == IF <<f, i>> = place(1) THEN e ELSE entry[f][i] IN
                    IF <<f, i>> \in released THEN [x EXCEPT !.locked = FALSE] ELSE x]]
     /\ Goes(c, [call[c] EXCEPT !.at = page + 1, !.phys = @ + 1,
                                !.step = IF l > Levels THEN "done" ELSE "lock",
                                !.level = IF l > Levels THEN Levels ELSE l])

\* map at the page table: the page must be absent or the same.
MapPage(c) ==
  LET e == EntryOf(c)
      f == call[c].phys
      page == call[c].at
  IN /\ AtLevel(c, "map", {1})
     /\ \/ e.present /\ e.frame # f /\ Panic
        \/ /\ ~(e.present /\ e.frame # f)
           /\ Advance(c, [e EXCEPT !.present = TRUE, !.frame = f,
                                   !.user = call[c].user, !.write = TRUE])
           /\ pages' = pages \cup {<<s, page, f>> : s \in Sharing(c, page)}
           /\ UNCHANGED <<spaceVars, free, fault, calls>>

\* unmap at the page table: the frame is given back if asked.  Fault: the page stays
\* present.
Present(e) == e
Absent(e) == [e EXCEPT !.present = FALSE]
UnmapPage(c) ==
  LET e == EntryOf(c)
      page == call[c].at
  IN /\ AtLevel(c, "unmap", {1})
     /\ \/ ~e.present /\ Panic
        \/ /\ e.present
           /\ Advance(c, Absent(e))
           /\ free' = IF call[c].push THEN free \cup {e.frame} ELSE free
           /\ pages' = pages \ {<<s, page, e.frame>> : s \in Sharing(c, page)}
           /\ UNCHANGED <<spaceVars, fault, calls>>

\* get_physical_address: under the lock of the first entry the levels are read one by one.
QueryLock(c) == /\ AtLevel(c, "query", {Levels})
                /\ SetEntry(c, [EntryOf(c) EXCEPT !.locked = TRUE])
                /\ Goes(c, [call[c] EXCEPT !.step = "read"])
                /\ UNCHANGED <<spaceVars, free, pages, fault, calls>>
Query(c) ==
  LET page == call[c].at
      e == EntryOf(c)
  IN /\ call[c].do = "query" /\ call[c].step = "read"
     /\ \/ ~e.present /\ Panic
        \/ /\ e.present /\ call[c].level > 1
           /\ Goes(c, [call[c] EXCEPT !.level = @ - 1])
           /\ UNCHANGED <<spaceVars, entry, free, pages, fault, calls>>
        \/ /\ e.present /\ call[c].level = 1
           /\ entry' = [entry EXCEPT ![cr3[c]][Index(Levels, page)].locked = FALSE]
           /\ Goes(c, [call[c] EXCEPT !.phys = e.frame, !.at = page + 1, !.step = "done"])
           /\ UNCHANGED <<spaceVars, free, pages, fault, calls>>

------------------------------------------------------------------------------
(* The interface                                                           *)

\* x64::map and x64::unmap begin; an empty range returns at once, the pages of the paging
\* structures are refused.
Mapping(at, end, phys, user, upto, then) ==
  [do |-> "map", step |-> "lock", level |-> Levels, at |-> at, end |-> end, phys |-> phys,
   user |-> user, upto |-> upto, then |-> then]
Unmapping(at, end, push, then) ==
  [do |-> "unmap", step |-> "lock", level |-> Levels, at |-> at, end |-> end, phys |-> Null,
   push |-> push, upto |-> end, then |-> then]
Querying(at) ==
  [do |-> "query", step |-> "lock", level |-> Levels, at |-> at, end |-> at + 1,
   phys |-> Null, upto |-> at + 1, then |-> "return"]

\* vm::map of pages without frames: a frame is popped for each.
PopAndMap(c, at, upto, user, then) ==
  \/ /\ free = {} /\ Panic
  \/ /\ free # {}
     /\ free' = free \ {Popped}
     /\ Goes(c, Mapping(at, at + 1, Popped, user, upto, then))
     /\ UNCHANGED <<spaceVars, entry, pages, fault, calls>>

\* The walk has returned: the next page of vm::map, or the caller goes on.
Return(c) == /\ call[c].do \in {"map", "unmap", "query"} /\ call[c].step = "done"
             /\ \/ /\ call[c].at < call[c].upto
                   /\ PopAndMap(c, call[c].at, call[c].upto, call[c].user, call[c].then)
                \/ /\ call[c].at = call[c].upto
                   /\ Goes(c, IF call[c].then = "return" THEN Idle
                              ELSE [do |-> "process", step |-> call[c].then])
                   /\ UNCHANGED <<spaceVars, entry, free, pages, fault, calls>>

\* A page of the upper half is asked for by one core at a time: its address range is its own.
Touched == UNION {IF "upto" \in DOMAIN call[c] THEN call[c].at..(call[c].upto - 1) ELSE {}
                  : c \in Cores}
MappedHere(c, page) == \E m \in pages : m[1] = cr3[c] /\ m[2] = page
Fits(c, r) == /\ r.lower => cr3[c] # BootRoot
              /\ \A p \in r.at..(r.end - 1) : p \notin Touched
              /\ \A p \in r.at..(r.end - 1) :
                   (r.do = "map" \/ r.do = "device") <=> ~MappedHere(c, p)

Start(c, r) ==
  /\ calls + Cost[r.do] <= MaxCalls /\ call[c].do = "idle" /\ ~booting /\ Fits(c, r)
  /\ calls' = calls + Cost[r.do]
  /\ \/ /\ r.do = "map" /\ free # {} /\ free' = free \ {Popped}
        /\ Goes(c, Mapping(r.at, r.at + 1, Popped, r.lower, r.end, "return"))
     \/ /\ r.do = "device" /\ UNCHANGED free
        /\ Goes(c, Mapping(r.at, r.end, NFrames + 1, r.lower, r.end, "return"))
     \/ /\ r.do = "unmap" /\ UNCHANGED free
        /\ Goes(c, Unmapping(r.at, r.end, r.push, "return"))
     \/ r.do = "query" /\ UNCHANGED free /\ Goes(c, Querying(r.at))
     \/ r.do = "process" /\ UNCHANGED free /\ Goes(c, [do |-> "process", step |-> "clone"])
  /\ UNCHANGED <<spaceVars, entry, pages, fault>>

\* The boot core frees the tables of the lower half and forgets them; the others wait.
LowTables ==
  LET low[l \in 1..(Levels - 1)] ==
        IF l = Levels - 1
        THEN {entry[BootRoot][i].frame : i \in {j \in 0..(Width - 1) \ KernelIndexes :
                                                 entry[BootRoot][j].present}}
        ELSE UNION {{entry[f][i].frame : i \in {j \in 0..(Width - 1) : entry[f][j].present}}
                    : f \in low[l + 1]}
  IN low

DropBootloaderMapping ==
  /\ booting /\ booting' = FALSE
  /\ free' = free \cup UNION {LowTables[l] : l \in 1..(Levels - 1)}
  /\ entry' = [f \in Frames |-> [i \in 0..(Width - 1) |->
       IF \/ f = BootRoot /\ i \notin KernelIndexes
          \/ \E l \in 2..(Levels - 1) : f \in LowTables[l]
       THEN Absent(entry[f][i]) ELSE entry[f][i]]]
  /\ UNCHANGED <<cr3, foreign, call, mutex, making, spaces, pages, fault, calls>>

------------------------------------------------------------------------------
(* create_process: a new address space                                     *)

At(c, step) == call[c].do = "process" /\ call[c].step = step
Then(c, step) == Goes(c, [do |-> "process", step |-> step])

\* clone_kernel, with its spinlock: the frame of the new PML4 is mapped at Scratch,
Clone(c) == /\ At(c, "clone") /\ mutex = Null
            /\ \/ free = {} /\ Panic
               \/ /\ free # {} /\ free' = free \ {Popped}
                  /\ mutex' = c
                  /\ making' = [making EXCEPT ![c] = <<Popped, cr3[c]>>]
                  /\ Goes(c, Mapping(Scratch, Scratch + 1, Popped, FALSE, Scratch + 1, "zero"))
                  /\ UNCHANGED <<entry, cr3, foreign, spaces, pages, booting, fault, calls>>

\* cleared and unmapped;
Zero(c) == /\ At(c, "zero")
           /\ entry' = [entry EXCEPT ![making[c][1]] = EmptyTable]
           /\ Goes(c, Unmapping(Scratch, Scratch + 1, FALSE, "set_foreign"))
           /\ UNCHANGED <<spaceVars, free, pages, fault, calls>>

\* it becomes entry 257 of the current PML4 when that is free (set_foreign);
\* Fault: nobody waits.
NoWait(p) == TRUE
ForeignFree(p) == foreign[p] = Null
SetForeign(c) == /\ At(c, "set_foreign") /\ ForeignFree(cr3[c])
                 /\ foreign' = [foreign EXCEPT ![cr3[c]] = making[c][1]]
                 /\ Then(c, "copy")
                 /\ UNCHANGED <<entry, free, cr3, mutex, making, spaces, pages,
                                booting, fault, calls>>

\* and the upper half is copied through it.
Copy(c) ==
  LET new == foreign[cr3[c]]
      todo == {i \in KernelIndexes : entry[cr3[c]][i].present /\ ~entry[new][i].present}
  IN /\ At(c, "copy") /\ todo # {}
     /\ \E i \in todo : entry' = [entry EXCEPT ![new][i] = entry[cr3[c]][i]]
     /\ UNCHANGED <<spaceVars, free, call, pages, fault, calls>>
Cloned(c) ==
  LET new == foreign[cr3[c]] IN
  /\ At(c, "copy")
  /\ \A i \in KernelIndexes : entry[cr3[c]][i].present => entry[new][i].present
  /\ mutex' = Null /\ Then(c, "release_foreign")
  /\ spaces' = spaces \cup {making[c][1]}
  /\ pages' = pages \cup {<<making[c][1], p[2], p[3]>> :
                           p \in {q \in pages : q[1] = cr3[c] /\ Half(q[2]) = "upper"}}
  /\ UNCHANGED <<entry, free, cr3, foreign, making, booting, fault, calls>>

\* create_process lets go of it, runs in it while the image is mapped,
ReleaseForeign(c) == /\ At(c, "release_foreign")
                     /\ foreign' = [foreign EXCEPT ![cr3[c]] = Null]
                     /\ Then(c, "enter")
                     /\ UNCHANGED <<entry, free, cr3, mutex, making, spaces, pages,
                                    booting, fault, calls>>
Enter(c) == /\ At(c, "enter")
            /\ \/ free = {} /\ Panic
               \/ /\ free # {} /\ free' = free \ {Popped}
                  /\ cr3' = [cr3 EXCEPT ![c] = making[c][1]]
                  /\ Goes(c, Mapping(Image[1], Image[1] + 1, Popped, TRUE, Image[2], "leave"))
                  /\ UNCHANGED <<entry, foreign, mutex, making, spaces, pages, booting,
                                 fault, calls>>

\* and goes back.
Leave(c) == /\ At(c, "leave")
            /\ cr3' = [cr3 EXCEPT ![c] = making[c][2]]
            /\ making' = [making EXCEPT ![c] = <<Null, Null>>]
            /\ Goes(c, Idle)
            /\ UNCHANGED <<entry, free, foreign, mutex, spaces, pages, booting, fault, calls>>

\* A core in no call runs a thread of some address space (processor::current_thread); a
\* process has its first thread when it is made.
SetAsid(c, s) == /\ call[c].do = "idle" /\ s # cr3[c] /\ \A d \in Cores : making[d][1] # s
                 /\ cr3' = [cr3 EXCEPT ![c] = s]
                 /\ UNCHANGED <<entry, free, foreign, call, mutex, making, spaces, pages,
                                booting, fault, calls>>

Step(c) == \/ Link(c) \/ Clear(c) \/ MapDescend(c) \/ UnmapDescend(c)
           \/ MapPage(c) \/ UnmapPage(c) \/ QueryLock(c) \/ Query(c) \/ Return(c)
           \/ Clone(c) \/ Zero(c) \/ SetForeign(c) \/ Copy(c) \/ Cloned(c)
           \/ ReleaseForeign(c) \/ Enter(c) \/ Leave(c)

Next == /\ fault = "none"
        /\ \/ DropBootloaderMapping
           \/ \E c \in Cores : \/ Step(c)
                              \/ \E r \in Requests : Start(c, r)
                              \/ \E s \in spaces : SetAsid(c, s)

Spec == Init /\ [][Next]_vars

------------------------------------------------------------------------------
(* Properties                                                              *)

TypeOK == /\ \A f \in Frames, i \in 0..(Width - 1) :
               entry[f][i] \in [present : BOOLEAN, user : BOOLEAN, write : BOOLEAN, frame : Nat,
                                locked : BOOLEAN]
          /\ free \subseteq Frames /\ spaces \subseteq Frames \ free
          /\ cr3 \in [Cores -> Frames]
          /\ foreign \in [Frames -> Frames \cup {Null}] /\ mutex \in Cores \cup {Null}
          /\ booting \in BOOLEAN /\ fault \in {"none", "panic"} /\ calls \in Nat

\* Tables of a space, by the level of their entries; a table that a core is about to
\* clear counts, its entries do not.
Uncleared == {EntryOf(c).frame : c \in {d \in Cores : call[d].do = "map" /\ call[d].step = "clear"}}
Below(T) == UNION {{entry[f][i].frame : i \in {j \in 0..(Width - 1) : entry[f][j].present}}
                   : f \in T \ Uncleared}
Tables(root) == LET at[l \in 1..Levels] == IF l = Levels THEN {root} ELSE Below(at[l + 1]) IN at

\* What map has done stays done until unmap, in every space that shares the page, also
\* when cores build the tables on the way at the same time; and a page of the lower half
\* can be reached and written by the user at every level.
MappingsStand ==
  \A p \in pages : \A l \in 1..Levels :
    LET e == entry[Table(p[1], p[2], l)][Index(l, p[2])] IN
    e.present /\ (l = 1 => e.frame = p[3]) /\ (Half(p[2]) = "lower" => e.user /\ e.write)

\* Calls that respect each other's pages never meet one in the wrong state: the only panic
\* left is that no frame is free.
OnlyFullPanics == fault = "panic" => free = {}
Translated == MappingsStand /\ OnlyFullPanics

\* Tables of any space at these levels; the places that lead to frame f, a copy of an entry
\* of the upper half not counted; and what map has mapped.
TablesAt(levels) == UNION {Tables(s)[l] : s \in spaces, l \in levels}
Copied(t, i) == t \in spaces /\ t # BootRoot /\ i \in KernelIndexes
Places(f) == {p \in (TablesAt(2..Levels) \ Uncleared) \X (0..(Width - 1)) :
                LET e == entry[p[1]][p[2]] IN e.present /\ e.frame = f /\ ~Copied(p[1], p[2])}
Leaves == {p[3] : p \in pages}

\* A frame has one use: free, one table at one place, or pages; nothing that a walk
\* reaches is free, so no frame is handed out while it is still mapped.
OneUse ==
  /\ TypeOK
  /\ free \cap (TablesAt(1..Levels) \cup Leaves) = {} /\ TablesAt(1..Levels) \cap Leaves = {}
  /\ \A f \in TablesAt(1..Levels) \ spaces : Cardinality(Places(f)) = 1

\* Between set_foreign and release_foreign the slot is the caller's own.
ForeignIsMine ==
  \A c \in Cores : At(c, "copy") \/ At(c, "release_foreign") => foreign[cr3[c]] = making[c][1]

\* x64paging.h:215, the lock bit is a lock: a locked entry has a core below it, so a core
\* that waits for it does not wait for ever.
LocksHeld ==
  \A s \in spaces, i \in 0..(Width - 1) :
    entry[s][i].locked => \E c \in Cores : call[c].do \notin {"idle", "process"} /\ cr3[c] = s
==============================================================================
