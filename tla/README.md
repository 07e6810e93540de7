# A TLA+ model of the ReaverOS kernel

ReaverOS ("Cotyledon", 0.0.4 dev) is a 64-bit SMP operating system: a boot loader, the
kernel *Rose*, a small user library and stub services. This directory holds TLA+ modules
that model the kernel's concurrent and stateful parts, TLC configurations that check them on
small instances, and TLAPS proofs of the results that do not depend on the instance.

Run in this directory:

    tlc -workers 2 -config MCRecursiveSpinlock.cfg MCRecursiveSpinlock   # any MC*.cfg with its module
    tlapm RecursiveSpinlockProofs.tla                                     # any *Proofs.tla

`PROJECT.json` lists the runs, the properties and the mutated definitions that each property
is known to reject, the source lines every definition stands for, the hazards of the code and
the disagreements found between the code and its documentation.

## 1. The system

| component | state | operations | talks to |
|---|---|---|---|
| `utils/spinlock.h` | `_lock`; `_inner_lock`, `_count`, `_owner` | `lock`, `unlock` | everything, through `LOCK(x)` |
| `utils/locks.h` | saved interrupt flag; a bit of a page-table entry | guards | everything, through `INTL()` |
| `processor/handlers.cpp`, `idt.cpp`, `processor.asm` | handler table, owners, vectors | dispatch, allocate, register | devices, APICs, scheduler (switches context on return) |
| `processor/ipi.cpp` | ring of 8 call slots | `parallel_execute`, its handler | APICs, handlers; used by scheduler, memory manager, C++ runtime |
| `memory/stack.cpp`, `pmm.cpp` | global and per-core stacks of free frames | `pop`, `push`, chunk moves, `ap_initialize` | paging (a chunk is mapped), `parallel_execute` (borrowing) |
| `memory/vm.cpp`, `x64paging.cpp` | page tables with lock bits, lowest free address | map, unmap, clone, foreign spaces | memory manager, TLB |
| `utils/priority_list.h`, `time/timer.cpp` | ordered list of events, device mode, clock | one_shot, periodic, cancel, handle | devices (HPET, PIT, LAPIC), scheduler |
| `time/*.cpp` devices, `real.cpp` | counters, calendar | programming, calendar conversion | handlers, timers |
| `scheduler/*`, `utils/vfq.h` | queues of threads per core, current thread | push, remove, switch | timers, `parallel_execute`, contexts |
| `processor/smp.cpp`, `processor.cpp` | list of cores, readiness flags | boot of application processors | APICs, memory manager, `parallel_execute` |
| `utils/allocator.h`, `hash_map.h` | free nodes, buckets | allocate, free, insert, remove | memory manager |
| `processor/*apic.cpp`, `time/lapic.cpp` | registers of the local controllers and their timer | enable, `ipi`, `broadcast`, `eoi`, one_shot | `parallel_execute`, `smp::boot`, handlers, timers |
| `screen/*`, `cxx.cpp` | cursor, colour, back buffer; `panicing` | print, clear, panic | recursive lock, `parallel_execute` (a panic stops the others) |
| `acpi/*` | the array of cores, I/O APICs, mapped windows | find table, parse | paging, SMP boot, APICs |
| `utils/raf.cpp`, system calls | archive; contexts | - | - |
| `loader/booter` | memory map, placement allocator, early page tables | add entry, allocate, save, map, install | kernel (passes the map) |

What makes it hard: several cores run kernel threads and interrupt handlers on top of them;
locks differ in whether they keep handlers out; a call to other cores is a message that is
merged, delayed and overlaps with the next; free memory moves between cores; boot brings cores
up one by one while the first broadcasts are sent.

What makes each part correct, in one line each:

- locks: exclusion, nesting, no panic from guards, no handler waits for its own core's thread;
- inter-processor calls: every named core executes the function once, between call and return;
- memory manager: no frame handed out twice or lost, every free frame reachable, panics only when memory is out;
- paging: concurrent mappings agree on tables, no update of an entry is lost;
- timers: an active event fires once, in order, not before its time, and can be cancelled until then;
- scheduler: a runnable thread is in one queue, runs on one core, and eventually runs;
- SMP boot: every core that starts is kept, has a stack of its own and gets its controller enabled;
- interrupt controllers: a requested vector is served, a timer lasts what was asked;
- ACPI: what is known of cores and NMIs does not depend on the order of the entries;
- booter: memory handed to the kernel as free is unused, the kernel's image, stack and initrd are where it expects them;
- console: the screen shows what was printed, prints are not mixed, a panic gets through.

The full list of hazards, at the line where each bites, with the property that covers it or the
reason why none does, is in `PROJECT.json`.

## 2. Modules

### RecursiveSpinlock, ReentrantLock

`RecursiveSpinlock` models `utils::recursive_spinlock` with the inner `utils::spinlock`. Every
read and write of an atomic is an action; `pc` names the statement a core is about to execute.
`held[c]` counts the live `unique_lock` guards of core `c`: the clients are guards, so a core
unlocks only what it has locked. A `PANIC` is the statement `"panic"`, from which a core does
not move. A failed exchange of the inner lock writes back what it read and is no step.

`ReentrantLock` is the promise: an acquisition needs every other core's depth to be zero.
`Implements` maps a core's depth to `Guards(c)`: the acquisition takes effect at `++_count`, the
release at `_count--`.

### IrqSpinlock

`INTL(); LOCK(x);` on plain spinlocks, the discipline of lists, queues, maps, allocators, handler
table, clock and terminal. A *frame* is the stack of one context (thread or handler) of one
core. A section is `pushfq`, `cli`, exchange, body, unlock, `sti` if the flag was set; each is an
action, and `Interrupt` can come between any two of them while the flag is set. Interrupt
descriptors are interrupt gates, so a handler runs with the flag clear and is never itself
interrupted; `iretq` restores it. A core starts with the flag clear until the `STI` of its boot
(`real.cpp:118` for the boot core, `processor.cpp:151`). `EnterBare` is `real.cpp`'s `_update`, a
handler that takes its lock without `INTL`. Sections nest towards locks of higher rank, as the
code's do (queue, then list, then allocator): the rank order is an assumption read off the call
graph, not something the code enforces.

### ParallelExecute, RemoteCall

`parallel_execute` and its handler, statement by statement. A call is the pair of its caller and
its number, hidden behind `Call`, `Caller` and `Number`; the function pointer and its argument
are the identity of the call they belong to, so that a handler that runs the function of one
call with the argument of another, or a null function, is visible (`"fault"`). The local APIC
keeps one pending bit per vector: `pending[c]` is a set. `CallerFlags` says whether callers may
have interrupts off, `Online` which of the cores that `core_count()` counts have booted,
`Policies` which policies are used. `asked` and `ran` are history variables for the refinement.

`RemoteCall` is the promise of the waiting policies: begin, run once per named core, return when
all have run. `Implements` maps the status of a call from its caller's program counter.

### FrameStack

The physical memory manager. `chunk[f]` is the chunk stored in frame `f` (links and the stack of
frames), `list[s]` the stack `s` (`_first`, `_last`, `_size`, `_balance`), with `s` a core or the
global stack. The operations are functions from heap to heap, composed as the code composes them
(a push may chain a chunk, whose mapping may pop a page table; a pop may borrow from other cores,
then fetch from the global stack, then pop), and every action applies one whole operation. What
leaves defined behaviour, panics or never ends sets `fault` and is the last step. The constructor
pushes the frames of the memory map one by one (`Construct`); at any of the sizes `MapSizes` the
map may end; allocations before `smp::ready()` use the global stack; each core takes its share
(`ApInitialize`), the boot core first.

Operations are atomic here. `Borrow` takes the other cores one after another, in an arbitrary
order, where the code runs them side by side; the interleaving of chunk moves on the global stack
is not modelled (section 6).

### PriorityList, RealTimer

`PriorityList` is `utils::priority_list` as functions of a record: the links of every node, the
elements, `_size`, and the free nodes of the list's own allocator in their order (the timer
compares addresses of nodes, so which node is reused matters). The defects of the links are kept:
an insertion before the first element, the search that stops at the first element, the size that
a failed removal has decremented.

`RealTimer` is `time::real_timer` on the HPET comparator (`hpet.cpp`): `RequestOneShot`,
`RequestPeriodic` and `CancelEvent` are the three calls, `Match` is the comparator reaching the
main counter `clock`, `Interrupt` is `_hpet_handler` with everything `_handle` does, the handlers
of the events included (a handler does nothing or requests another `one_shot`). Each runs inside
`_lock` and is one action. `now` is the timer's idea of the time, which `_handle` advances by the
tick it believes has passed. The timer reckons in nanoseconds, the comparator (`device`) and the
main counter (`clock`) in ticks of `TickLength` femtoseconds: `Ticks` and `Time` are the conversions
of `hpet.cpp:247,254,259`, a product that wraps at `Word` and a division that cuts. The history of
the requests is in femtoseconds, so the properties compare with the time that was really asked for.
A client (`Clients`) says which calls are made, how many events wait at most, how long an interrupt
may stay pending, and whether its comparator misses a value that the main counter already has when
it is set (hardware may; emulators fire at once). `Punctual` excludes calls between a match and its
interrupt. `MinTick` and `MaxTick` are parameters: the code takes the ACPI table's minimal tick,
which is in ticks of the counter, for nanoseconds, and what it computes for the longest tick
(`hpet.cpp:93-105`) overflows itself.

### FrequencyQueue, LocalScheduler

`FrequencyQueue` is `vfq.h`: elements with a virtual time, the first to run next, put back at
`+ Levels - priority`. The list is the sequence of its elements along `next`, with the insertion
of `priority_list` (an element of the middle goes directly behind the first). Nothing calls
`remove`, so the links back, which only removals follow, are left out. Virtual times are relative
to the first element, which keeps the model finite and changes no comparison.

`LocalScheduler` puts three such queues on every core. A *spawner* is a thread that calls
`schedule()`: it scans the cores for the best score, one action per core, without any lock, then
takes the scheduler's lock of the best one, inserts, asks for a switch (`calls`) when the push
concerns the best class, and unlocks. Its interrupts are off from `PushLock` on. A handler
(`CallArrives`, `TimerFires`) runs on top of the current thread: `SwitchLock`, `Switch` (cancel,
arm again, pop, `processor::current_thread`), `Return` (exchange of contexts, end of the handler).
`current`, `currentCore`, `context` and `inInterrupt` are kept apart as in the code, so that they
can disagree. A panic, or entering the null `_idle`, sets `fault`.

The module relies on two others: a call that does not wait is executed once, later
(`ParallelExecute`, under `Punctual`), and a timer with one event fires it once or has it
cancelled (`RealTimer`, the first of the kernel's clients).

### Paging

The tables live in frames: `entry[f][i]` is entry `i` of the table in frame `f`, with its lock bit.
The four nested loops of `map` and of `unmap` (`x64paging.cpp`) do the same at every level, so a
level is a number and a walk is one record per core, `call[c]`: `MapDescend`, `Link` and `Clear`
(the new table is entered before it is cleared), `MapPage`; `UnmapDescend`, `UnmapPage`;
`QueryLock`, `Query`. `Advance` is the end of the inner loop, with the release of the locks up to
the level at which the next page goes on. `Clone`, `Zero`, `SetForeign`, the copy and
`ReleaseForeign` make the space of a new process, whose image is mapped after a change of address
space. `DropBootloaderMapping` frees the booter's tables before anything else runs. A frame that
has not been cleared holds present entries (`Garbage`).

Requests respect each other: an address range is asked for by one core at a time, as
`allocate_address_range` gives it; none has frames pushed that are a device's (no caller in the
kernel pushes at all); none names the page at which `clone_kernel` maps a new PML4, which it has
from that function too. Nobody runs in a PML4 that is being made but its maker:
`create_process` makes the first thread of the process when it has gone back. Not in the module: translation caches and their shootdown,
writing to the foreign space (`map` and `unmap` with `foreign` set), `locked()`, and a preemption
between the two `set_asid` of a process creation.

### Booter, Acpi, SmpBoot, LocalApic, Bringup

Boot is one sequence through four components, and `Bringup` composes their modules: every action
of `BringupNext` is an action of one of them with the other variables unchanged, or a call from
one into the next.

`Booter` has the memory map (`AddEntry` with its case for every drawing in `memmap.cpp`,
`FindLastUsable`, `AllocateEmptyEntry`), the placement allocator (`PlacementAllocator`, `Save`,
`Allocate` with `Roomy` and `Leech`), the page tables (`MapPages`, whose `new` is an `Allocate`
again, and an `Allocate` near the end of what is mapped is a `MapPages`) and one action per call of
`booter_main`. Sectors are the unit; `used` is the history of everything written.

`Acpi` steps through the candidates for the root pointer, the tables of the root and the entries of
the MADT in three passes. What it looks at is mapped through two windows; a window in use when the
next table is mapped is the panic of `map`. Parsing of bytes is left out: an entry is a record.
The override entry that falls through into the NMI source (`acpi.cpp`, no `break`) is kept.

`SmpBoot` is `smp::boot` loop by loop with its unsigned counters (`Word`), and the trampoline of
the other cores. The cores in `dead` never start; another misses the first start-up interrupt or
not, and has raised its flag at the latest in the second wait. Moving up over a dead core is
`core::operator=`, which leaves `_started` behind.

`LocalApic` has both controllers: commands in one register or in two halves, requests and
interrupts in service by priority class, the end of an interrupt, the allocation of vectors, and
the timer with its divide configuration. Hardware is modelled as far as the code relies on it
(`Send`, `Accept`, `Spurious`, `TimerCounts`, `HwDivisor`).

### Console

`screen::print` of several arguments under the console's recursive lock with interrupts on:
`PrintArgs` lays out the nested locks of the templates, `LockInner`, `Lock` and `Unlock` are the
lock's critical sections, `PutChar`, `SetColor` and `Clear` the terminal's, which run with
interrupts off. A core prints from one thread. In the code a thread that prints can be preempted,
since `print` is called with interrupts on (also in `syscalls.cpp:149-152`); the lock knows cores only
(`spinlock.h:69,84`), so another thread of the core gets in and mixes its text with the first.
`PrintsWhole` is about the other cores.

`Panic` is `_panic`, called by a thread or by a handler on top of whatever its core was doing. Its
`parallel_execute` is there in the steps a panic can meet: `Claim` (the next slot), `Enter` (the
slot's lock, up to the broadcast), `Leave`, and `Serve`, the handler that executes what the slot
holds when it runs, be it the function that stops the core, another call's, or none, which is one
more panic. Threads make waiting calls (`Call`), which hold their slot until all others have
executed them. `LapicInitialize`, `InitializeParallel` and `ApInitialize` are what boot adds:
before the first, the broadcast is a call through a null pointer (`ipi.h:36`) and does not return;
before the second it reaches nobody.

## 3. Runs

| configuration | instance | checks | result |
|---|---|---|---|
| `MCRecursiveSpinlock.cfg` | 3 cores, 2 nested guards | inductive invariant, exclusion, no panic, refinement of `ReentrantLock`; `HandedOver`: a wait is always followed by a hand-over | holds |
| `MCIrqSpinlock.cfg` | 2 cores, 2 locks | inductive invariant, exclusion, no self-deadlock, flag restored; `LockIsFreed` | holds |
| `MCParallelExecute.cfg` | 3 cores, 2 slots, 1 call each, interrupts on or off | inductive invariant, refinement of `RemoteCall` | holds |
| `MCParallelExecuteLive.cfg` | 2 cores, 1 slot, 2 calls each, all policies, interrupts on, `Punctual` | at most once, every call returns, every call runs | holds |
| `MCFrameStack.cfg` | 3 cores, chunks of 3, maps of 2, 12 and 26 frames, 6 operations | `Conserved`, `GlobalAccounted` | holds |
| `MCFrameStackOverflow.cfg` | 2 cores, map of 26 | a chunk fits its page | **violated** |
| `MCRealTimer.cfg` | 3 clients, 4 events, all waiting at once for one client, 10 ticks of the counter, both kinds of comparator | `ListHoldsWaiting`, `NotEarly`, `NotLate` | holds |
| `MCRealTimerCancel.cfg` | up to 3 events waiting, cancelled at will | an active event is found | **violated** |
| `MCLocalScheduler.cfg` | 2 cores, 3 normal threads of priorities 64, 128, 192 and a top one, scheduled by both kernel threads | `QueuedOnce`, `ContextsKept`, `BestRuns`, `Proportional`; `EveryThreadRuns` | holds |
| `MCPaging.cfg` | 2 cores, 3 levels of 2 entries, 11 frames, calls for 5 units | `Translated`, `OneUse`, `ForeignIsMine` | holds |
| `MCBringup.cfg` | 260 machines for the booter, 9 firmwares, up to 3 other cores in batches of 2, both controllers, 2 interrupt events | `FreeIsUnused`, `UsedOnce`, `HandedOver`; `PanicsJustified`, `ParsedAsWritten`; `KeptRun`; `TimerKeepsTime`, `Served`; `EveryCoreOnline` | holds |
| `MCConsole.cfg` | 2 cores, 3 prints, calls and panics from boot on, 1 slot, a screen of 2 by 2 | `ScreenShows`, `PrintsWhole`; `PanicIsRead` | holds |

The type invariants are the first conjuncts of `IInv` (locks, calls), `GlobalAccounted`,
`ListHoldsWaiting`, `QueuedOnce` and `OneUse`; `Console` has none.

Other configurations, or one with the constants named changed, ask for what the code does not do,
and TLC answers each with a counterexample; they are not in the list of runs:

| configuration | property that fails | why |
|---|---|---|
| `MCParallelExecuteMasked.cfg` | `EveryCallReturns` | two cores that borrow memory from each other with interrupts off wait for each other for ever |
| `MCParallelExecuteReuse.cfg` | `Synchronized` | a slot is reused while the interrupt of its last, not waited for call is pending |
| `MCFrameStackUnderflow.cfg` | `OwnMemoryServes` | `pop` goes below an empty last chunk although earlier ones are full |
| `MCRealTimerFour.cfg` | `InOrder` | the fourth event inserted stands before one that is due earlier |
| `MCRealTimer.cfg`, `Clients <- MissingClients` | `NotLate` | the comparator is set to a value the counter already has, misses it, and no interrupt comes |
| `MCRealTimer.cfg`, `Clients <- RenewingClients` | `NotEarly` | a handler's `one_shot` leaves the device programmed for an event that has run; its interrupt is taken for the next one's |
| `MCRealTimer.cfg`, `Clients <- WaitingClients`, `MinTick = 3` | `NotLate` | an overdue event is overtaken by a request, the unsigned difference wraps and becomes the longest tick |
| `MCRealTimer.cfg`, `Punctual = FALSE` | `NotEarly`, `NotLate` | an interrupt for an earlier event is taken after a later `one_shot` |
| `MCRealTimer.cfg`, `Word = 16` | `NotEarly`, `NotLate` | a product of `Ticks` or `Time` wraps, the timer falls back to an earlier time |
| `MCConsolePanic.cfg` | `PanicIsAlwaysRead` | a panic is not read in the cases that `PanicIsRead` excepts |
| `MCLocalSchedulerOneTurn.cfg` | `OneTurn` | with four threads in a queue one gets ahead of another by a turn and a half |
| `MCPagingLocks.cfg` | `LocksHeld` | `clone_kernel` copies an entry with its lock bit set |
| `MCBringupDead.cfg` | `CoreIsKnown` | a core behind a dead one is taken out although it runs |
| `MCBringupSixteen.cfg` | `TimerKeepsTime` | a divisor of 16 is encoded as 32 |
| `MCBringupXapic.cfg` | `CoreIsKnown` | `xapic::id()` does not shift the id register |
| `MCBringupSparse.cfg` | `FreeIsUnused` | page tables stay in an entry that is marked free |

One more configuration holds and is kept out of the list: `MCLocalSchedulerQueue.cfg` checks
`Proportional`, which `ProportionalHolds` proves for every instance, for four threads of one class
with priorities 1, 1, 2, 4 on one core with 8 levels.

Bounds, and why they suffice:

- *RecursiveSpinlock*: two nested guards distinguish the first, a nested and the last release;
  three cores give a waiter besides the owner and the next owner. The proofs remove both bounds.
- *IrqSpinlock*: two locks give a section inside a section, two cores a spinning frame on another
  core with a handler on either. The proofs remove both bounds.
- *ParallelExecute*: two slots and three callers make callers share a slot and wait for its
  lock; with one slot every call reuses it, which is what the liveness run is about. That run
  assumes `Punctual`: the ring comes round to a slot only after the interrupts of its last call
  have been served. The code does not enforce this, and without it the reuse run fails; with it
  everything that is promised holds, so the reuse is the only way the calls go wrong there.
- *FrameStack*: chunks of 3 with marks at 1 and 2 keep the code's order 0 < 406 < 456 < 506; 26
  frames are the fewest for which three cores get a share of one chunk, 12 the fewest with which
  a refilled core holds enough to be borrowed from, 2 leave a single chunk. Six allocations and
  frees suffice for a refill, a borrow and a give-back in one run. `Word`, the range of a size
  counter, has to exceed what full chunks in all frames would hold; the code's is 2^64 for at
  most 2^40 frames and chunks of 506. Boot frames are 2 instead of 8.

- *RealTimer*: the clients are the kernel's: the preemption timer (one event, cancelled and
  requested again; the code uses it on the local controller, here it is on a HPET comparator), the
  waits of boot and calibration (one_shots, no cancels), the clock where a comparator runs it (one
  periodic event). In the kernel at most one event waits on a comparator; the waits have up to four
  here, because four reach every branch of the insertion, and from four on the list is out of order
  (`MCRealTimerFour.cfg`). `ListHoldsWaiting` therefore claims no order, and `NotLate` lets an event
  wait for one that stands before it. A tick of the counter is 3 and a nanosecond 2, so both
  conversions cut, at different places, and ten ticks let the periodic event drift past one of them.
  The shortest tick, 2 ns, is just more than a tick of the counter, and `Word` is out of reach;
  the tables above and section 4 have what happens otherwise. The client with four events has a
  comparator that does not miss values, requests nothing from handlers, and takes its interrupts at
  once: each of the three is needed, as the configurations that fail show.

- *LocalScheduler*: the loads make all three normal threads meet on the core without the top one,
  also in the order that reaches every branch of the insertion. An insertion puts two threads out of
  order only in a queue of four, which `MCLocalSchedulerQueue` has, with priorities for which
  `OneTurn` fails. In the kernel as it is only the boot core's thread schedules and every process
  has the default policy and priority: the other spawner, policies and priorities are what the interface offers. Priority 0
  is left out: with it `pop` takes a queue that is not empty for empty and panics.

- *Paging*: with three levels there is a level above, between and below; with two entries a range
  of two pages crosses a table. Five units are five maps or unmaps, or two processes and one other;
  with two cores that is a link of one table by both, in one space and in two, and two processes
  made at once. Frames run out in some of the behaviours.
- *Bringup*: a page is 2 sectors, a table has 8 entries, so kernel, stack and initrd need tables of
  their own at every level, and the largest files reach past the window that is mapped first. The
  maps have overlapping, adjacent, unordered and separate entries. One of memory map and firmware
  varies at a time (`BringupInit`): what the booter leaves does not depend on the firmware. Batches
  of 2 for 3 cores give a full, a partial and, with dead cores, a shifted batch; `Word` is 16, so
  that `booted` below 0 wraps. Interrupts are followed on machines of up to 3 cores.
- *Console*: two columns reach the margin by a character and by a tab, two lines scroll at the
  second. Of prints, calls and panics there are three in all (`MaxWork`): two prints and a panic, two
  panics against a print or a call, three panics; besides, a late vector may find no function and
  cause one more. There is one slot instead of eight, so whoever comes second meets a slot in use at
  once; in the code the ring has to come round first. No interrupts are kept apart from slots here
  (no `Punctual`), so a stop may be lost to the next call of its slot.

Deadlock is checked in the lock runs. In the others the number of calls or operations is bounded
(or a fault has ended the system), so the model stops and the check is off.

### Fairness

- `RecursiveSpinlock`: cores keep executing (weak fairness of every statement), a core's outermost
  guard is eventually destroyed, and the exchange on the inner lock does not fail for ever for a
  core that keeps trying while the lock keeps becoming free (strong fairness). The last is a
  property of the hardware's cache protocol, not of the code: a test-and-set lock has no queue.
  Without it a core that wants to release can lose every race against cores that retry.
- `IrqSpinlock`: a section that has begun ends. Nothing is assumed about who wins a lock; handlers
  may keep coming.
- `ParallelExecute`: cores execute their statements, and an interrupt that stays deliverable is
  delivered. A caller with interrupts off gives no such guarantee, and that is what the masked
  run shows.
- `LocalScheduler`: current threads and handlers execute their statements, interrupts that stay
  deliverable are delivered (the timer's among them), and the scheduler's lock is obtained by a
  core that keeps trying (strong fairness of `PushLock`): its owner's switches are 5 ms apart.

- `Bringup`: the boot core goes on, and each core that it has started does; a controller carries
  out a command, and a core takes an interrupt that stays requested.
- `Console`: a core goes on, takes the interrupts of the slots, and does not lose the exchange of
  the inner lock for ever (as in `RecursiveSpinlock`).

## 4. What disagrees with the documentation

- *Borrowing with interrupts off deadlocks* (`MCParallelExecuteMasked.cfg`): two cores that run out
  of memory at once wait for each other's handlers, where `doc/pmm.md:10-11` promises memory.
- *A reused slot* (`MCParallelExecuteReuse.cfg`): a `no_wait` call frees its slot before it has been
  executed; a later waiting call in that slot returns too early.
- *Failures of the frame stacks*: memory in earlier chunks is never reached
  (`MCFrameStackUnderflow`), and stale links between chunks lead a push past the end of another
  stack's chunk (`MCFrameStackOverflow`). The same runs off the last chunk happen when no memory
  is left at all: a core's own `pop` does not panic then, as `doc/pmm.md` says, but goes on with
  a null or an empty chunk.
- *An active event that cannot be cancelled* (`MCRealTimerCancel`): the list drops events, and
  `cancel` panics with a message that says the opposite.

What the timer does outside the way the kernel uses it, or on other hardware, found with
`RealTimer` by widening `Clients` and the constants, without a sentence of the documentation to
hold against it:

- An interrupt taken after a later `one_shot` runs the new event up to a whole tick early
  (`Punctual = FALSE`). So does one that was left over when a handler requested a `one_shot`: the
  device keeps the time of an event that has run along with it (`RenewingClients`).
- Events within `MinTick` make the device be set to a time that is cut to the tick the counter is at.
  A comparator that misses it is silent until the counter has gone round (`MissingClients`).
- An event that is put off by the shortest tick and then overtaken by a request is late by the
  longest tick (`MinTick = 3`); the shortest tick of most HPETs is longer than one of the
  counter, as it is there.
- The product of femtoseconds in `_update_now` exceeds 64 bits after 2^64 fs, which is 5.1 hours at
  any frequency, and the one in `_one_shot` with it: the time starts again from 0
  (`Word = 16`).
- A periodic event in the periodic mode drifts against the timer's time by less than a tick of the
  counter each period, because the device's period is cut; `NotEarly` allows for just that.
- A periodic event beside others is served up to a period late, because the device turns periodic
  from the present, not from the event's time; after the cancellation of the only periodic event the
  next one fires once.

The two that are runs are quoted with their line under "findings" in `PROJECT.json`.

What boot does on machines that the passing run leaves out or excuses:

- With a dead core and several batches, a core behind it that is taken out although it runs can
  still be in the trampoline when the next batch uses its slot again. It then raises the second
  flag of a copy that is not its own, and a core that is kept need not have left the trampoline
  when boot is over. `KeptRun` therefore says nothing of dead cores in several batches; the proof
  found this, with `AtOnce` 2, four cores and the first of them dead.
- A core behind one that does not start is judged by that one's flag, because `core::operator=`
  leaves `_started` where it is, and taken out although it runs; it then panics in `get_core`
  (`processor.cpp:192`). `EveryCoreOnline` excuses boots with dead cores that end so.
- `xapic::id()` (`xapic.cpp:234`) does not shift the register: every core but the first panics.
- `xapic::divisor()` (`xapic.cpp:148`) returns 0 or 1, the test is the wrong way round: a `one_shot`
  while an event waits divides by 0 (`time/lapic.cpp:136`).
- Both controllers encode a divisor of 16 as 32 (`x2apic.cpp:154-157`): a time that needs 16 takes
  twice as long. The passing run's `Times` need 1, 4 and 128.
- A first usable region that ends before the kernel is installed leaves page tables in an entry of
  type 1 (`manager.cpp:27-34`), which the kernel takes for free memory.
- `add_entry`: an entry that adjoins one of its own type shortens it (`memmap.cpp:187`), so memory
  is lost; one of higher type over the start of another is added with a wrong length
  (`memmap.cpp:262`); a free one around a reserved one is dropped. Memory is lost, never given twice.
- An allocation that crosses the 64 MiB boundary without coming within 3 pages of it first writes
  memory that is not mapped (`manager.cpp:73`).
- The entries of the kernel's half are copied with their lock bits (`x64paging.cpp:388`), although
  `x64paging.h:215-219` describes a lock that its holder releases.
- `insert` puts an element of the middle directly behind the first (`priority_list.h:76-83`: the search
  stops at once), so a queue of four threads is not in order: two of them take turns until one passes
  the last, while the third waits (`OneTurn` fails). `Proportional` says what remains of the order.
- A panic is not read (`MCConsolePanic`, `PanicIsAlwaysRead` fails) if a core is stopped while it
  holds the console; `drop_locking()` (`console.cpp:237`) exists but is not called. Nor is one before
  `lapic::initialize`, which includes every panic of the ACPI parsers: `_panic` calls the broadcast
  through a null controller first (`cxx.cpp:52`, `ipi.h:36`). Nor is one that gets a slot of
  `parallel_execute` that is never left: of a call that its own handler interrupted, or of a call
  that waits for a core that is halted, whose handler is panicking, or whose controller was not yet
  on. `PanicIsRead` has these cases as exceptions, each of which TLC shows to be needed.
- A tab in the last columns of a line of 100 (800 pixels) jumps past the margin
  (`bootterm.cpp:93,111`), which is compared for equality only.

What is left out on purpose, because nothing depends on it in the instance:

- `SmpBoot.Arrive` raises the second flag and leaves the trampoline in one step; in
  `trampoline.asm:166-169` the jump is two instructions later.
- `Bringup.SmpBoot1` starts no core if the firmware lists none; `processor.cpp:125` passes
  `_num_cores - 1`, which then wraps. No firmware of the run is like that.
- `LocalScheduler.Score` has no bonus for a core in the same address space (`scheduler.cpp:54-57`).
  The proofs never expand `Score`, so what they show holds for any choice of a core.
- `Booter.MapPages` threads the tables through nested extensions flatly; a table that a nested
  extension has made and the outer one overwrites (`x64paging.cpp:62-76`) would be lost in the code.
  The instance reaches no extension at such a place.

## 5. Proofs

`RecursiveSpinlockProofs`, from `CoresAssumption` (the boot core is a core, the depth is positive):
`IInv` is inductive, and with it types, exclusion, absence of panics and the refinement of
`ReentrantLock` hold for every set of cores and every depth. Exclusion alone is not inductive: it
needs that `_count` is the number of acquisitions of the core `_owner` names (`CountIsGuards`),
that the inner lock is held by exactly one core inside `lock()` or `unlock()`
(`InnerIsExclusive`), and that what a core has read under it is still true when it acts
(`ReadsAreFresh`). The refinement maps the two writes of `_count` to the abstract actions and
every other step to a stutter.

`IrqSpinlockProofs`, from `LocksAssumption` (locks are named by natural ranks): `IInv` is inductive
for every set of cores and locks, and yields types, exclusion, absence of self-deadlock and the
restored flag. The strengthening says who may set the flag again: only the outermost
`interrupt_lock` of a thread whose core has booted has saved a set flag (`OutermostEnables`),
because the flag is clear inside every section (`FlagIsClear`), because a suspended thread is
outside every section (`Suspended`).

`ParallelExecuteProofs`, for any cores, slots and calls, when `Policies` holds only the two that
wait (with `no_wait` the properties are false, as `MCParallelExecuteReuse` shows): `IInv` of the
module is inductive. A caller owns the slots it has taken and not released (`SlotIsOwned`), the
count of a slot is the number of cores that still have to decrement it (`CountIsOwed`), the vector
of a slot is in flight only while its call is not over and on a core that has not run it
(`InFlight`), and what a handler has loaded is of the call in the slot (`Loaded`). From it follow
`AtMostOnce`, that no handler finds a null function or the argument of another call, that all
named cores have run when the wait ends, and the refinement of `RemoteCall`.

`LocalSchedulerProofs`, for any cores, tasks, policies and priorities. The queues come first
(`QInv`): the lock of a scheduler keeps two pushes, or a push and a switch, apart (`OneAtATime`,
which no run states), a task is unborn, carried by one spawner, or in one queue of one core, once.
`QueuedOnce` needs no more. `ContextsKept` and `BestRuns` need in addition that the context of a
thread is live just while some core has its registers, what a handler in progress has interrupted
and will return to, that a switch is asked for only where a thread is queued, and that a queue with
threads has a load. The last is false of a queue whose only thread has priority 0, from which
`pop` would panic. Hence `Positive`: every priority is above 0. The code gives 128
(`thread.h:107`, `process.h:60`), what the creator sets, or what is inherited.
`Proportional` is proved for any priorities, from the order that the insertion keeps although it does
not sort (`Spaced`): the last thread is the latest, the others are behind it by at most one turn for
each place they are in front of it, and the first is not far behind the second. Each insertion goes
to one of three places (`PlacedAt`), and one lemma for each shows that the order is kept.

`SmpBootProofs`, for any number of cores, of slots and any dead cores, from counters wide enough
for the cores (`SmpAssumption` and `BootAny`: 64 bits): until a core is taken out, the array is
the list in batches and a position, its slot and its core agree in every stage of the loops
(`Whole`, `Stage`, `Reached`); afterwards `Failed` says what is left of a single batch. `KeptRun`
follows, in the two cases it covers.

`AcpiProofs`, for whatever the firmware has left: the two windows are in use exactly where the
search and the parsers need them, so that the panic of `map` is never reached and every other one
has its cause in the tables (`PanicsJustified`). Assumed is that no table has the signature `FFFF`
(`NoSuchTable`): `acpi::initialize` looks for one and would leave it mapped. `ParsedAsWritten` rests
on what the passes of `parse_madt` have done before the entry they are at (`MadtInv`): the first has
counted the processors so far, the second has appended a core for each enabled one (`CoreAppended`;
never more than were counted, so the array suffices), the third has left in each core the pin of
the last NMI entry for it so far (`NmisSet`). The entries are counted, not filtered, so an entry more
is an element more of a finite set, and no induction over the table is needed. Assumed is that enabled
processors have ids of their own, none of them the one for all (`ProperTables`): of two with one id
the code gives an NMI entry to the first only. The module of the bring-up runs states both as
assumptions, which TLC finds true of its firmwares.

`FrameStackProofs`, from `StackAssumption` alone, so for any memory map, cores and size of a chunk:
unless an operation has failed, its heap is `Good`. `Conserved` is not inductive: were a link to
lead outside the chunks, the next chunk operation would write into a frame that is free or handed
out. So the links reach storage only (`Linked`), no chunk is overfull and no frame is entered twice
(`Contents`), and every frame is in just one of five places (`Split`): not seen yet or being
pushed, a boot frame that is left, handed out, storage, in a chunk. `Kept` is the same for an
operation in the middle of another; the loops over chunks are done by induction on their rounds.
What a failed operation leaves has at least its type (`Typed`): links name frames, counters are in
range, no chunk is overfull. `GlobalAccounted` needs the order of the chunks as well. Until the first
core joins, the global stack is a list (`ListInv`) of all chunks, linked both ways (`Chunks`), full
up to the last in use, behind which one may wait that is empty, and with a size that counts them
(`Filled`). A push starts the list, chains one more chunk or stores a frame, a pop takes one, and no
size wraps, since there are not more chunks than frames (`FewChunks`). `AtIs` shows that the walk
along `next` visits that list, by the least place where it would not. Once cores share the stack it
need not be such a list, as `MCFrameStackOverflow` and `MCFrameStackUnderflow` show.

`PagingProofs`, from `PagingAssumption` (sizes; a request stays in one half and off the page of
`clone_kernel`; frames of devices are not pushed; the image of a process is in the lower half) for any memory, levels, width, cores and requests, and from
`BootTree`: the booter's tables are a tree that has the whole upper half, which describes the code
if what the model calls the upper half is entry 511 of a PML4, where the kernel is (a witness for the run's
instance is an assumption of `MCPaging`, which TLC evaluates). The code keeps nothing that says what a
frame is used for, so the invariant `PagingInv(g)` carries that as `g`: the level of the table in a
frame, its number among those of the level, and the space it belongs to. It says that the tables are
a tree but for the copies of the upper half (`TreeInv`); that a page of memory is mapped at one place
and is neither free nor a table (`LeafInv`); what a core has in hand: the frame it is about to map,
the PML4 it makes, how far its walk has come and which entries it has locked (`CoreInv`); and that
what is mapped is found (`PageInv`). The locks are what makes it inductive: two walks at the same
place would both hold the entry above it, which one core alone has locked (`LocksApart`), so no other
core stands at an entry below while a table is entered or cleared, or a page unmapped. `StepKeeps`
has one lemma per operation; those that leave the tree alone share `SameStep`, those that change it
`MildStep`. The tables of a space are a recursive function in the model, so the proofs reason by the
least level where a claim fails (`Smallest`, `Downward`) instead of by induction. It follows that a
frame has one use (`OneUse`) and that what is free is memory. `Translated` has two parts.
`MappingsStand` follows from two more facts (`UserInv`), since `map` sets the user bit of the tables
on its way only where an entry is new: what a walk is about to map in the lower half is the user's,
in a space that is not the booter's (`UserOK`), and so is every entry in the tables of the lower half
that is of a page or leads to a cleared table (`LowOK`).

`OnlyFullPanics`, that the panics of `map`, `unmap` and `get_physical_address` are never reached,
takes what the walks are asked for (`AskedInv`). What a walk has still to do is absent or present as
the caller has seen it when it asked (`RightPages`), and nobody else does those pages in that space
(`RangesApart`). Two kinds of pages are not a request's. The page of `clone_kernel` is mapped between
its `map` and its `unmap` only (`ScratchIs`), which the spinlock keeps to one core. The image of a
process is mapped in a PML4 that nobody else runs in (`Strangers`) and whose lower half is empty until
its maker enters it (`NewPages`). A page of the upper half is in every space (`UpperPages`), a new one
included, so a walk sees it whichever space it runs in. All of that is about `pages`, the history of
what has been mapped; the other way round, every entry that is present in a page table is one that
`map` has mapped (`MappedOnly`), because tables are cleared before they are walked. `FullInv(g)` is all
of it together, and `PanicsFull` the step that panics: a `map` that finds its page present would have
found it in `pages`, an `unmap` or a query that misses one would have a page in `pages` without its
entries.

The slot for the PML4 under construction has an invariant of its own (`IInv`), from which
`ForeignIsMine` follows. The spinlock of `clone_kernel` is released before the slot is, so it does
not help; what does is that `set_foreign` waits for 0, that what a core enters is never 0 (`Types`),
and so that no two cores have the slot of one space (`SlotIsOneCores`). A slot in use also has a core
that will release it (`SlotIsReleased`), without which `set_foreign` would wait in vain. It needs
that only memory is free, which the tree gives.

Only model-checked, and why:

- the liveness properties, because the prover has no liveness under fairness;
- `Booter`, `LocalApic` and what `Bringup` composes from them: `add_entry`, `allocate` and `map`
  call themselves, and their `RECURSIVE` operators disable the prover;
- `PrintsWhole`, `ScreenShows` and the properties of `RealTimer`: they compare
  with a filter or a fold over a sequence, or with the walk along a list, whose values for every
  input need induction over data.

## 6. Plan

Modules that would add most, in this order:

1. the steps of `pop_chunk` and `push_chunk` on the global stack, taken by several cores;
2. the address range allocator and the foreign space of a process, with the shootdown of
   translation caches;
3. the growth of `utils::allocator`, the hash map, the calendar of `real.cpp`, the archive reader.

## 7. Not modelled

The PIT, the RTC and the calibration of timers; descriptor tables; system calls and the copying of
contexts; the hash map; the archive reader; the formatting of numbers; the booter's screen and its
checks of the processor; the first boot stages and the UEFI stub; the user library and the
services. They are straight-line code, wrappers or stubs, and none of the modelled parts depends on
more of them than the effect stated above. Non-maskable interrupts and CPU exceptions (which are
delivered whatever the interrupt flag) are not modelled either; the kernel treats them as fatal or
as page faults that take none of the modelled locks.
