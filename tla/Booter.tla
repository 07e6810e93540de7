-------------------------------- MODULE Booter --------------------------------
(***************************************************************************)
(* The booter's memory (src/loader/booter): the memory map it takes from   *)
(* the firmware and hands to the kernel, the placement allocator that      *)
(* grows entries of that map, the page tables it builds, and the order in  *)
(* which booter_main uses them.  Addresses and lengths count sectors of    *)
(* 512 bytes: the sizes booter_main is given do, and at that grain the     *)
(* rounding of allocate to 16 bytes changes nothing.  The limit of 512     *)
(* entries is left out: a firmware's map has some tens.                    *)
(***************************************************************************)
EXTENDS Integers, Sequences

LOCAL INSTANCE TLC
LOCAL SeqX == INSTANCE SequencesExt
LOCAL FinX == INSTANCE FiniteSetsExt

CONSTANTS Page,        \* sectors in a page (8)
          Fan,         \* entries of a table (512)
          Window,      \* what is mapped to itself at first (64 MiB)
          Low,         \* where the kernel's file is loaded (1 MiB)
          Top,         \* the end of what 32 bits address
          KernelBase,  \* 0xFFFFFFFF80000000
          Machines     \* what booter_main may be called with, see MachineType

\* Types of an entry (print in memmap.cpp); those of the firmware above 1 are moved up by 4.
Free == 1
Kernel == 2
Initrd == 3
Backbuffer == 4
BooterMemory == 5
EntryType == [base : Nat, length : Nat, type : Nat]
\* screen: [start, length, bytes of the back buffer] of the video mode.
MachineType == [map : Seq(EntryType), kernel : Nat, initrd : Nat,
                video : Nat, screen : Nat]

VARIABLES machine,
          line,    \* where booter_main is: <<call, position>>
          mem      \* see MemInit
booterVars == <<machine, line, mem>>

\* tables: level and place of each table of vas -> its frame; pages: virtual page -> frame.
\* used: what was ever written, and where: [what, base, length].
MemInit == [entries |-> <<>>, placement |-> 0, current |-> 0, leeched |-> 0, top |-> Window,
            extending |-> FALSE, vas |-> FALSE, tables |-> <<>>, pages |-> <<>>,
            ret |-> 0, used |-> {}, panic |-> "no"]
BooterInit == machine \in Machines /\ line = <<"initialize", 1>> /\ mem = MemInit

Panicked(s, why) == [s EXCEPT !.panic = IF @ = "no" THEN why ELSE @]
RoundUp(x) == ((x + Page - 1) \div Page) * Page
End(e) == e.base + e.length

------------------------------------------------------------------------------
(* memory::map                                                             *)

\* The first usable entry that begins above addr, or 0.
NextUsable(es, addr) ==
  LET above == {i \in 1..Len(es) : es[i].base > addr /\ es[i].type = Free}
  IN IF above = {} THEN 0 ELSE FinX!Min(above)

Expand(es, i, e) == SeqX!InsertAt(es, i, e)
Shrink(es, i) == SeqX!RemoveAt(es, i)

\* Before the first entry that begins later; an equal base sends it to the end.
Insert(es, e) ==
  LET before == {i \in 1..Len(es) : e.base < es[i].base /\ (i = 1 \/ es[i - 1].base < e.base)}
  IN IF before = {} THEN Append(es, e) ELSE Expand(es, FinX!Min(before), e)

\* How the new entry e lies to an entry f, as the drawings in add_entry show it.
Inside(e, f) == e.base >= f.base /\ End(e) <= End(f)
Around(e, f) == e.base < f.base /\ End(e) > End(f)
OverEnd(e, f) == f.base < e.base /\ End(f) > e.base /\ End(f) < End(e)
OverStart(e, f) == e.base < f.base /\ End(e) > f.base /\ End(e) < End(f)
TouchesEnd(e, f) == e.type = f.type /\ End(f) >= e.base /\ End(f) <= End(e)
TouchesStart(e, f) == e.type = f.type /\ End(e) >= f.base /\ End(e) <= End(f)
Touches(e, f) == Inside(e, f) \/ Around(e, f) \/ OverEnd(e, f) \/ OverStart(e, f)
                 \/ TouchesEnd(e, f) \/ TouchesStart(e, f)

\* The parts of f on both sides of e are added again, then e.
Parts(e, f) == << [f EXCEPT !.base = End(e), !.length = End(f) - End(e)],
                  [f EXCEPT !.length = e.base - f.base], e >>

\* The first entry e lies at in one of those ways decides what happens to e.
RECURSIVE AddEntry(_, _)
AddEntry(es, e) ==
  LET near == {i \in 1..Len(es) : Touches(e, es[i])}
      i == FinX!Min(near)
      f == es[i]
  IN CASE e.length = 0 -> es
       [] e.length # 0 /\ near = {} -> Insert(es, e)
       [] OTHER ->
          CASE Inside(e, f) /\ f.type >= e.type -> es
            [] Inside(e, f) /\ f.type < e.type ->
                 SeqX!FoldLeft(AddEntry, Shrink(es, i), Parts(e, f))
            [] ~Inside(e, f) /\ TouchesEnd(e, f) ->
                 [es EXCEPT ![i].length = @ + f.base - e.base]
            [] ~Inside(e, f) /\ ~TouchesEnd(e, f) /\ TouchesStart(e, f) ->
                 [es EXCEPT ![i].base = e.base, ![i].length = End(f) - e.base]
            [] e.type # f.type /\ (Around(e, f) \/ OverEnd(e, f)) -> es
            [] e.type > f.type /\ OverStart(e, f) ->
                 AddEntry([es EXCEPT ![i].base = End(e), ![i].length = @ + End(e) - f.base], e)
            [] e.type < f.type /\ OverStart(e, f) ->
                 AddEntry(es, [e EXCEPT !.length = f.base - e.base])

\* The last usable entry with room for size, whose end is given away; 0 when there is none.
WholePages(size) == size + Page - (size % Page)
LastUsable(es, size) ==
  LET fit == {i \in 1..Len(es) : /\ es[i].base <= Top - WholePages(size) /\ es[i].type = Free
                                 /\ es[i].length >= WholePages(size)}
  IN IF fit = {} THEN 0 ELSE FinX!Max(fit)
\* An entry of just that size is left as it is: add_entry will find it.
Shortened(es, i, size) == IF es[i].length = WholePages(size) THEN es
                          ELSE [es EXCEPT ![i].length = @ - WholePages(size)]
FindLastUsable(s, size) ==
  LET i == LastUsable(s.entries, size)
  IN IF i = 0 THEN Panicked(s, "call to find_last_usable failed")
     ELSE [s EXCEPT !.entries = Shortened(@, i, size),
                    !.ret = End(s.entries[i]) - WholePages(size)]

\* An empty entry in front of entry i, which moves to i + 1.
AllocateEmptyEntry(es, i, type) == Expand(es, i, [base |-> es[i].base, length |-> 0, type |-> type])

------------------------------------------------------------------------------
(* memory::manager::placement_allocator                                    *)

\* The entry leeched keeps what was loaded at Low; allocate catches up, page by page.
PlacementAllocator(s, placement) ==
  LET i == NextUsable(s.entries, Low - 1)
      es == AllocateEmptyEntry(s.entries, i, BooterMemory)
  IN [s EXCEPT !.placement = placement, !.current = i, !.leeched = i + 1,
               !.entries = [es EXCEPT ![i].length = IF placement < Low THEN 0
                                                    ELSE placement - Low]]

AlignPage(s) == [s EXCEPT !.placement = RoundUp(@)]

\* The entry in use ends at the next page; the next one is of the next type.
Save(s) ==
  LET a == AlignPage(s)
      entry == a.entries[a.current]
      es == [a.entries EXCEPT ![a.current].length = a.placement - entry.base]
      next == IF entry.type = BooterMemory THEN Kernel ELSE Initrd
  IN IF entry.type = Initrd THEN [a EXCEPT !.entries = es]
     ELSE [a EXCEPT !.entries = AllocateEmptyEntry(es, a.leeched, next),
                    !.current = a.leeched, !.leeched = a.leeched + 1]

\* While size does not fit what is left of leeched, the next usable entry is taken.
RECURSIVE Roomy(_, _)
Roomy(s, size) ==
  LET i == NextUsable(s.entries, s.placement)
      es == AllocateEmptyEntry(s.entries, i, Free)
  IN CASE s.placement + size < End(s.entries[s.leeched]) -> s
       [] s.placement + size >= End(s.entries[s.leeched]) /\ i = 0 ->
            Panicked(s, "Not enough memory installed on the system")
       [] OTHER -> Roomy([s EXCEPT !.leeched = i + 1, !.current = i,
                                   !.placement = s.entries[i].base,
                                   !.entries = [es EXCEPT ![i].type = es[s.current].type]], size)

\* Pages move from leeched to current until current ends above placement.
Moved(s) == IF s.placement < End(s.entries[s.current]) THEN 0
            ELSE ((s.placement - End(s.entries[s.current])) \div Page + 1) * Page
\* Fault: leeched keeps the pages.
LeechUncounted(s) == [s EXCEPT !.entries = [@ EXCEPT ![s.current].length = @ + Moved(s)]]
Leech(s) == LET n == Moved(s)
            IN [s EXCEPT !.entries = [@ EXCEPT ![s.current].length = @ + n,
                                               ![s.leeched].base = @ + n,
                                               ![s.leeched].length = @ - n]]

Take(s, size, what) ==
  IF s.panic # "no" THEN s
  ELSE Leech([s EXCEPT !.ret = s.placement, !.placement = @ + size,
                       !.used = @ \cup {[what |-> what, base |-> s.placement, length |-> size]}])

------------------------------------------------------------------------------
(* memory::x64::pml4, over identity mapped memory                          *)

TableOf(level, v) == <<level, v \div (Fan ^ level)>>
NearTop(s) == ~s.extending /\ s.placement < s.top /\ s.top - s.placement <= 3 * Page

RECURSIVE Allocate(_, _, _), MapPages(_, _, _, _)
\* allocate: close to the end of what is mapped, 64 MiB more are mapped first.
Allocate(s, size, what) ==
  LET near == [s EXCEPT !.extending = TRUE]
      more == MapPages(near, s.top \div Page, (s.top + Window) \div Page, s.top)
  IN CASE s.panic # "no" \/ size = 0 -> s
       [] s.panic = "no" /\ size # 0 /\ NearTop(s) /\ ~s.vas -> Panicked(s, "vas is not there")
       [] s.panic = "no" /\ size # 0 /\ NearTop(s) /\ s.vas ->
            Take(Roomy([more EXCEPT !.top = @ + Window, !.extending = FALSE], size), size, what)
       [] OTHER -> Take(Roomy(s, size), size, what)

\* new pdpt, new page_directory, new page_table: a frame of its own, cleared.
NewTable(s, level, v) ==
  IF TableOf(level, v) \in DOMAIN s.tables THEN s
  ELSE LET t == Allocate(AlignPage(s), Page, "table")
       IN [t EXCEPT !.tables = (TableOf(level, v) :> t.ret) @@ @]
WithTables(s, v) == SeqX!FoldLeft(LAMBDA t, level : NewTable(t, level, v), s, <<3, 2, 1>>)

\* Pages from v up to, not including, last, to memory from p on.
MapPages(s, v, last, p) ==
  IF v >= last \/ s.panic # "no" THEN s
  ELSE LET t == WithTables(s, v)
       IN IF v \in DOMAIN t.pages /\ t.pages[v] * Page # p
          THEN Panicked(t, "tried to map something at already mapped page")
          ELSE MapPages([t EXCEPT !.pages = (v :> (p \div Page)) @@ @], v + 1, last, p + Page)
\* Fault: the end of a range is not rounded up.
LastWholePage(end) == end \div Page
LastPage(end) == RoundUp(end) \div Page
Map(s, start, end, p) == MapPages(s, start \div Page, LastPage(end), p)

------------------------------------------------------------------------------
(* memory.cpp and main.cpp                                                 *)

\* Fault: only the kernel's file is counted.
LoadedWithoutInitrd == machine.kernel
Loaded == machine.kernel + machine.initrd
\* The kernel's and the initrd's files are in memory at Low when the booter starts.
Files == {[what |-> "kernel file", base |-> Low, length |-> machine.kernel],
          [what |-> "initrd file", base |-> Low + machine.kernel, length |-> machine.initrd]}
FromFirmware(e) == [e EXCEPT !.type = IF @ > 1 THEN @ + 4 ELSE @]

At(call) == line[1] = call /\ mem.panic = "no"
Then(call, s) == mem' = s /\ line' = <<call, 1>> /\ UNCHANGED machine

InitializeEntry ==
  /\ At("initialize") /\ line[2] <= Len(machine.map)
  /\ mem' = [mem EXCEPT !.entries = AddEntry(@, FromFirmware(machine.map[line[2]]))]
  /\ line' = <<"initialize", line[2] + 1>> /\ UNCHANGED machine
InitializePlacement ==
  /\ At("initialize") /\ line[2] > Len(machine.map)
  /\ Then("backbuffer", PlacementAllocator([mem EXCEPT !.used = Files], Low + Loaded))

\* init_backbuffer, save_backbuffer_info
InitBackbuffer ==
  LET s == FindLastUsable(mem, machine.screen)
      e == [base |-> s.ret, length |-> WholePages(machine.screen), type |-> Backbuffer]
  IN /\ At("backbuffer")
     /\ Then("prepare", IF s.panic # "no" THEN s
                        ELSE [s EXCEPT !.entries = AddEntry(@, e),
                                       !.used = @ \cup {[what |-> "back buffer", base |-> s.ret,
                                                         length |-> machine.screen]}])

\* The pml4, a pdpt, a page directory and the page tables of Window, which is mapped to itself.
PrepareLongMode ==
  LET root == Allocate(AlignPage(mem), Page, "table")
      upper == NewTable(NewTable([root EXCEPT !.vas = TRUE], 3, 0), 2, 0)
  IN /\ At("prepare")
     /\ Then("map screen", MapPages(upper, 0, Window \div Page, 0))

\* booter_main maps the video memory and the back buffer to themselves.
MapScreen ==
  LET b == CHOOSE u \in mem.used : u.what = "back buffer"
      s == Map(mem, machine.video, machine.video + machine.screen, machine.video)
  IN /\ At("map screen")
     /\ Then("save for kernel", Map(s, b.base, b.base + machine.screen, b.base))

SaveBooter == At("save for kernel") /\ Then("install_kernel", Save(mem))
InstallKernel ==
  LET s == Allocate(AlignPage(mem), machine.kernel, "kernel")
  IN /\ At("install_kernel")
     /\ Then("install_kernel_stack", Map(s, KernelBase, KernelBase + machine.kernel, s.ret))
KernelEnd == KernelBase + RoundUp(machine.kernel)
\* A page is left unmapped below the stack.
InstallKernelStack ==
  LET s == Allocate(AlignPage(mem), Page, "stack")
  IN /\ At("install_kernel_stack")
     /\ Then("save for initrd", Map(s, KernelEnd + Page, KernelEnd + 2 * Page, s.ret))
SaveKernel == At("save for initrd") /\ Then("install_initrd", Save(mem))
InstallInitrd ==
  LET s == Allocate(AlignPage(mem), machine.initrd, "initrd")
      start == KernelEnd + 2 * Page
  IN At("install_initrd") /\ Then("save", Map(s, start, start + machine.initrd, s.ret))
SaveInitrd == At("save") /\ Then("call_kernel", Save(mem))

BooterNext == \/ InitializeEntry \/ InitializePlacement \/ InitBackbuffer \/ PrepareLongMode
              \/ MapScreen \/ SaveBooter \/ InstallKernel \/ InstallKernelStack
              \/ SaveKernel \/ InstallInitrd \/ SaveInitrd

------------------------------------------------------------------------------
(* Properties                                                              *)

Sectors(e) == e.base .. (End(e) - 1)
\* The frames the kernel takes from an entry (frame_stack's constructor).
Given(e) == {f \in 0..(Top \div Page) : /\ e.type = Free /\ End(e) > Low
                                        /\ f * Page >= Low /\ f * Page >= e.base
                                        /\ f * Page < End(e)}
\* Usable memory of the firmware: of no entry of it that says anything else.
Usable == UNION {Sectors(machine.map[i]) : i \in {j \in DOMAIN machine.map : machine.map[j].type = 1}}
          \ UNION {Sectors(machine.map[i]) : i \in {j \in DOMAIN machine.map : machine.map[j].type # 1}}

\* The frames the kernel's frame stack is filled with are usable memory, no frame comes twice,
\* and none holds anything the booter made: the kernel, its stack, the initrd, page tables and
\* the back buffer are still what they are when the kernel reuses the rest.
FreeIsUnused ==
  line[1] = "call_kernel" =>
    /\ \A i \in DOMAIN mem.entries : \A f \in Given(mem.entries[i]) :
         /\ Sectors([base |-> f * Page, length |-> Page]) \subseteq Usable
         /\ \A u \in mem.used : Sectors(u) \cap Sectors([base |-> f * Page, length |-> Page]) = {}
    /\ \A i, j \in DOMAIN mem.entries :
         i # j => Given(mem.entries[i]) \cap Given(mem.entries[j]) = {}

\* Nothing the booter writes is written over anything it or its loader wrote before, and all of
\* it is usable memory that is mapped to itself once there are page tables.
UsedOnce ==
  mem.panic = "no" =>
    /\ \A u, w \in mem.used : u # w => Sectors(u) \cap Sectors(w) = {}
    /\ \A u \in mem.used :
         /\ Sectors(u) \subseteq Usable
         /\ line[1] = "call_kernel" =>
              \A x \in Sectors(u) : x \div Page \in DOMAIN mem.pages
                                    /\ mem.pages[x \div Page] = x \div Page

\* The kernel finds itself at KernelBase, its stack above a page that is not mapped, and the
\* initrd above the stack: every page of them leads to the frame that was filled for it.
HandedOver ==
  LET Holds(virtual, what, length) ==
        \E u \in mem.used : /\ u.what = what
                            /\ \A x \in 0..(length - 1) :
                                 LET v == (virtual + x) \div Page
                                 IN v \in DOMAIN mem.pages /\ mem.pages[v] = (u.base + x) \div Page
  IN line[1] = "call_kernel" /\ mem.panic = "no" =>
       /\ Holds(KernelBase, "kernel", machine.kernel)
       /\ Holds(KernelEnd + Page, "stack", Page)
       /\ KernelEnd \div Page \notin DOMAIN mem.pages
       /\ Holds(KernelEnd + 2 * Page, "initrd", machine.initrd)
==============================================================================
