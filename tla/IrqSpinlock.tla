----------------------------- MODULE IrqSpinlock -----------------------------
(***************************************************************************)
(* The kernel's discipline for data shared by threads and interrupt        *)
(* handlers: INTL(); LOCK(x); -- an interrupt_lock that saves and clears   *)
(* the interrupt flag, then a guard of a utils::spinlock x                 *)
(* (src/kernel/utils/locks.h, spinlock.h).  The lists, queues, maps, the   *)
(* allocators, the handler table, the clock and the terminal use it, and   *)
(* one section may be entered inside another (a list that allocates a node *)
(* takes the allocator's lock), always towards a lock of a higher rank.    *)
(*                                                                         *)
(* Every core runs a thread and, on top of it, at most one handler: the    *)
(* interrupt descriptors are interrupt gates (idt.cpp), which clear the    *)
(* flag; iretq restores it.                                                *)
(***************************************************************************)
EXTENDS Naturals

CONSTANTS Cores,     \* the processor cores
          Locks      \* the spinlocks, named by their ranks

ASSUME LocksAssumption == Locks \subseteq Nat /\ Locks # {}

Contexts == {"thread", "handler"}
Frames == Cores \X Contexts    \* a frame: the stack of one context of one core
Core(k) == k[1]
Context(k) == k[2]

VARIABLES interrupts,   \* interrupts[c]: RFLAGS.IF of core c
          booted,       \* booted[c]: core c has executed the STI that ends its boot
          servicing,    \* servicing[c]: core c runs a handler
          taken,        \* taken[l]: spinlock::_lock
          pc,           \* pc[k]: what frame k is about to do
          at,           \* at[k]: the lock frame k is entering or leaving a section of,
                        \* AnyLock when it does neither
          held,         \* held[k]: the locks of the unique_locks alive in frame k
          enable        \* enable[k][l]: _enable of the interrupt_lock made before l's guard

vars == <<interrupts, booted, servicing, taken, pc, at, held, enable>>

AnyLock == CHOOSE l \in Locks : TRUE

\* Until time::real::initialize (boot core) and ap_initialize execute STI, a core
\* runs with interrupts off.
Init == /\ interrupts = [c \in Cores |-> FALSE]
        /\ booted = [c \in Cores |-> FALSE]
        /\ servicing = [c \in Cores |-> FALSE]
        /\ taken = [l \in Locks |-> FALSE]
        /\ pc = [k \in Frames |-> "run"]
        /\ at = [k \in Frames |-> AnyLock]
        /\ held = [k \in Frames |-> {}]
        /\ enable = [k \in Frames |-> [l \in Locks |-> FALSE]]

\* The frame a core is executing: the handler's while there is one.
Running(k) == Context(k) = IF servicing[Core(k)] THEN "handler" ELSE "thread"

Goto(k, from, to) == Running(k) /\ pc[k] = from /\ pc' = [pc EXCEPT ![k] = to]

\* Sections nest towards higher ranks.
Above(l, ls) == \A m \in ls : m < l

------------------------------------------------------------------------------
(* INTL(): pushfq, test of IF, cli                                         *)

Enter(k, l) == /\ Above(l, held[k])
               /\ Goto(k, "run", "pushf")
               /\ at' = [at EXCEPT ![k] = l]
               /\ UNCHANGED <<interrupts, booted, servicing, taken, held, enable>>

\* Faults: _enable is always set; the flag is saved after it is cleared.
SaveFlagsAsSet(k) == /\ Goto(k, "pushf", "cli")
                     /\ enable' = [enable EXCEPT ![k][at[k]] = TRUE]
                     /\ UNCHANGED <<interrupts, booted, servicing, taken, at, held>>

SaveFlagsLate(k) == /\ Goto(k, "pushf", "cli")
                    /\ interrupts' = [interrupts EXCEPT ![Core(k)] = FALSE]
                    /\ enable' = [enable EXCEPT ![k][at[k]] = FALSE]
                    /\ UNCHANGED <<booted, servicing, taken, at, held>>

SaveFlags(k) == /\ Goto(k, "pushf", "cli")
                /\ enable' = [enable EXCEPT ![k][at[k]] = interrupts[Core(k)]]
                /\ UNCHANGED <<interrupts, booted, servicing, taken, at, held>>

\* Fault: a section that does not clear the flag.
CliOmitted(k) == /\ Goto(k, "cli", "lock")
                 /\ UNCHANGED <<interrupts, booted, servicing, taken, at, held, enable>>

Cli(k) == /\ Goto(k, "cli", "lock")
          /\ interrupts' = [interrupts EXCEPT ![Core(k)] = FALSE]
          /\ UNCHANGED <<booted, servicing, taken, at, held, enable>>

\* time::real::_update: a handler that takes its lock without INTL(), which is the guard
\* of an interrupt_lock that does not enable interrupts.
EnterBare(k, l) == /\ Context(k) = "handler"
                   /\ Above(l, held[k])
                   /\ Goto(k, "run", "lock")
                   /\ at' = [at EXCEPT ![k] = l]
                   /\ enable' = [enable EXCEPT ![k][l] = FALSE]
                   /\ UNCHANGED <<interrupts, booted, servicing, taken, held>>

------------------------------------------------------------------------------
(* LOCK(x).  The exchange that finds the lock taken changes nothing.       *)

\* Fault: the result of the exchange is not looked at.
LockWithoutWaiting(k) == /\ Goto(k, "lock", "run")
                         /\ taken' = [taken EXCEPT ![at[k]] = TRUE]
                         /\ held' = [held EXCEPT ![k] = @ \cup {at[k]}]
                         /\ at' = [at EXCEPT ![k] = AnyLock]
                         /\ UNCHANGED <<interrupts, booted, servicing, enable>>

Lock(k) == /\ ~taken[at[k]]
           /\ Goto(k, "lock", "run")
           /\ taken' = [taken EXCEPT ![at[k]] = TRUE]
           /\ held' = [held EXCEPT ![k] = @ \cup {at[k]}]
           /\ at' = [at EXCEPT ![k] = AnyLock]
           /\ UNCHANGED <<interrupts, booted, servicing, enable>>

\* Fault: the flag is given back, the lock is not.
UnlockOmitted(k, l) == /\ l \in held[k] /\ Above(l, held[k] \ {l})
                       /\ Goto(k, "run", "sti")
                       /\ held' = [held EXCEPT ![k] = @ \ {l}]
                       /\ at' = [at EXCEPT ![k] = l]
                       /\ UNCHANGED <<interrupts, booted, servicing, taken, enable>>

\* The innermost guard is destroyed: the lock, then the flag.  Unlocking an unlocked
\* spinlock is a PANIC.
Unlock(k, l) == /\ l \in held[k] /\ Above(l, held[k] \ {l})
                /\ Goto(k, "run", IF taken[l] THEN "sti" ELSE "panic")
                /\ taken' = [taken EXCEPT ![l] = FALSE]
                /\ held' = [held EXCEPT ![k] = @ \ {l}]
                /\ at' = [at EXCEPT ![k] = l]
                /\ UNCHANGED <<interrupts, booted, servicing, enable>>

Sti(k) == /\ Goto(k, "sti", "run")
          /\ interrupts' = [interrupts EXCEPT ![Core(k)] = @ \/ enable[k][at[k]]]
          /\ enable' = [enable EXCEPT ![k][at[k]] = FALSE]   \* it no longer exists
          /\ at' = [at EXCEPT ![k] = AnyLock]
          /\ UNCHANGED <<booted, servicing, taken, held>>

------------------------------------------------------------------------------
(* The core                                                                *)

\* The end of a core's initialization, outside every section.
BootSti(k) == /\ Context(k) = "thread" /\ Running(k) /\ ~booted[Core(k)]
              /\ pc[k] = "run" /\ held[k] = {}
              /\ booted' = [booted EXCEPT ![Core(k)] = TRUE]
              /\ interrupts' = [interrupts EXCEPT ![Core(k)] = TRUE]
              /\ UNCHANGED <<servicing, taken, pc, at, held, enable>>

\* Frame k is interrupted: the gate clears the flag, processor::handle runs on top.
Interrupt(k) == /\ Context(k) = "thread" /\ Running(k) /\ interrupts[Core(k)]
                /\ servicing' = [servicing EXCEPT ![Core(k)] = TRUE]
                /\ interrupts' = [interrupts EXCEPT ![Core(k)] = FALSE]
                /\ UNCHANGED <<booted, taken, pc, at, held, enable>>

\* Handler k returns; iretq restores the flag that was set when it was entered.
Return(k) == /\ Context(k) = "handler" /\ Running(k)
             /\ pc[k] = "run" /\ held[k] = {}
             /\ servicing' = [servicing EXCEPT ![Core(k)] = FALSE]
             /\ interrupts' = [interrupts EXCEPT ![Core(k)] = TRUE]
             /\ UNCHANGED <<booted, taken, pc, at, held, enable>>

\* A statement of a section that has begun.
Section(k) == SaveFlags(k) \/ Cli(k) \/ Lock(k) \/ (\E l \in Locks : Unlock(k, l)) \/ Sti(k)

Next == \E k \in Frames : \/ \E l \in Locks : Enter(k, l) \/ EnterBare(k, l)
                          \/ Section(k)
                          \/ BootSti(k) \/ Interrupt(k) \/ Return(k)

Spec == Init /\ [][Next]_vars

\* Fairness: a core executes its running frame; a section ends, however often others are
\* nested in it.  Nothing is assumed of who wins a spinlock that several frames want.
Fairness == \A k \in Frames : /\ WF_vars(Section(k))
                              /\ \A l \in Locks : SF_vars(Unlock(k, l))

FairSpec == Spec /\ Fairness

------------------------------------------------------------------------------
(* Properties                                                              *)

TypeOK == /\ interrupts \in [Cores -> BOOLEAN]
          /\ booted \in [Cores -> BOOLEAN]
          /\ servicing \in [Cores -> BOOLEAN]
          /\ taken \in [Locks -> BOOLEAN]
          /\ pc \in [Frames -> {"run", "pushf", "cli", "lock", "sti", "panic"}]
          /\ at \in [Frames -> Locks]
          /\ held \in [Frames -> SUBSET Locks]
          /\ enable \in [Frames -> [Locks -> BOOLEAN]]

\* At most one frame of the machine is inside a section of a lock -- not even a handler
\* and the thread it interrupted.
MutualExclusion == \A j, k \in Frames : \A l \in held[j] : l \in held[k] => j = k

\* A handler never runs on top of a thread that is inside a section, so it cannot spin
\* for ever on a lock that its own core holds.
NoSelfDeadlock == \A k \in Frames : held[k] # {} => Running(k)

\* Sections give the flag back: a handler never runs with interrupts on, and a thread
\* outside every section has them on from the end of its core's boot.
FlagRestored == \A k \in Frames : Running(k) /\ pc[k] = "run" /\ held[k] = {} =>
                  (interrupts[Core(k)] <=> Context(k) = "thread" /\ booted[Core(k)])

\* Neither nested sections nor handlers deadlock the machine: a lock that a frame spins
\* on is always unlocked again.
LockIsFreed == \A k \in Frames : \A l \in Locks :
                 (Running(k) /\ pc[k] = "lock" /\ at[k] = l) ~> ~taken[l]

------------------------------------------------------------------------------
(* The inductive invariant                                                 *)

\* The flag a frame runs with outside every section.
Base(k) == Context(k) = "thread" /\ booted[Core(k)]

\* A lock is taken exactly while a guard of it is alive.
TakenIsHeld == \A l \in Locks : taken[l] <=> \E k \in Frames : l \in held[k]

\* A section is entered above, and left from above, the sections around it.
Nested == \A k \in Frames : pc[k] \in {"pushf", "cli", "lock", "sti"} => Above(at[k], held[k])

\* A thread is interrupted only before its outermost cli; a handler leaves nothing behind.
Suspended == \A k \in Frames : ~Running(k) =>
               /\ held[k] = {}
               /\ IF Context(k) = "thread" THEN Base(k) /\ pc[k] \in {"run", "pushf", "cli"}
                                           ELSE pc[k] = "run"

\* Inside sections the flag is clear, and only the outermost interrupt_lock sets it again.
FlagIsClear == \A k \in Frames : Running(k) =>
                 (interrupts[Core(k)] <=>
                    Base(k) /\ held[k] = {} /\ pc[k] \in {"run", "pushf", "cli"})
OutermostEnables ==
  \A k \in Frames :
    /\ pc[k] \in {"cli", "lock", "sti"} => (enable[k][at[k]] <=> Base(k) /\ held[k] = {})
    /\ \A l \in held[k] : enable[k][l] <=> (Base(k) /\ \A m \in held[k] : l <= m)

NoPanic == \A k \in Frames : pc[k] # "panic"

IInv == /\ TypeOK /\ NoPanic /\ MutualExclusion /\ TakenIsHeld
        /\ Nested /\ Suspended /\ FlagIsClear /\ OutermostEnables
==============================================================================
