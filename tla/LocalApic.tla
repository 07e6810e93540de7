------------------------------- MODULE LocalApic -------------------------------
(***************************************************************************)
(* The local interrupt controllers (src/kernel/processor/lapic.cpp,        *)
(* xapic.cpp, x2apic.cpp), the vectors they are given and the end of an    *)
(* interrupt (handlers.cpp), and their timer (src/kernel/time/lapic.cpp).  *)
(* A core runs one program at a time: its thread, or the handler of the    *)
(* interrupt it has taken, with interrupts off.                            *)
(***************************************************************************)
EXTENDS Integers, Sequences

LOCAL FinX == INSTANCE FiniteSetsExt

CONSTANTS Cpus,       \* the APIC ids; 0 is the boot core's
          Kinds,      \* what x2apic_capable() may say: {"xapic", "x2apic"}
          SlotCount,  \* slots of parallel_execute (8)
          Count,      \* what a count register holds at most, ~0u
          Tick,       \* _period of the boot core's timer
          Times,      \* what one_shot is asked for, in units of a tick
          IdShift,    \* where an xAPIC's id register holds the id, 2^24
          MaxEvents   \* bound: commands made, timers set and spurious interrupts

VARIABLES
  kind,        \* _lapic: "none", "xapic" or "x2apic"
  allocated,   \* _vector_allocated
  irq,         \* _timer_irq, _spurious and the vectors of the slots
  stage,       \* of the boot core: "boot", "smp" (smp::boot) and "ready"
  apic,        \* the controller of each core
  cpu,         \* what each core does, the interrupted thread included
  events,      \* how many commands were made, timers set and spurious interrupts taken
  halted
lapicVars == <<kind, allocated, irq, stage, apic, cpu, events, halted>>

Vectors == 0..255
\* high: the destination half of the command register; divide: the divide configuration;
\* left, passed: what the timer still has to count, and the ticks since it was set for "time".
Apic == [enabled : BOOLEAN, high : Cpus, irr : SUBSET Vectors, isr : SUBSET Vectors,
         divide : 0..11, left : Nat, passed : Nat, time : Nat]
Off == [enabled |-> FALSE, high |-> 0, irr |-> {}, isr |-> {},
        divide |-> 0, left |-> 0, passed |-> 0, time |-> 0]
\* at: the next step of the program; of the command that it makes, "to" and "what".
Idle == [vector |-> 0, at |-> "free", to |-> {}, what |-> 0]

LapicInit == /\ kind = "none" /\ allocated = {} /\ stage = "boot"
             /\ irq = [timer |-> 0, spurious |-> 0, slots |-> <<>>]
             /\ apic = [c \in Cpus |-> Off] /\ cpu = [c \in Cpus |-> <<Idle>>]
             /\ events = 0 /\ halted = "no"

Bsp == 0
Top1(c) == cpu[c][1]
Interruptible(c) == Len(cpu[c]) = 1
Works(c) == halted = "no" /\ apic[c].enabled
SetTop(c, f) == cpu' = [cpu EXCEPT ![c][1] = f]
Halt(why) == halted' = why /\ UNCHANGED <<kind, allocated, irq, stage, apic, cpu, events>>

------------------------------------------------------------------------------
(* Initialization                                                          *)

\* allocate_isr for one vector: from the priority down to 0, then up; numbered from 32.
AllocateIsr(taken, priority) ==
  LET below == (0..(priority * 16)) \ taken
  IN IF below # {} THEN FinX!Max(below)
     ELSE FinX!Min(((priority * 16)..223) \ taken)
RECURSIVE AllocateSlots(_, _)
AllocateSlots(taken, n) ==
  IF n = 0 THEN <<>>
  ELSE LET v == AllocateIsr(taken, 1) IN <<v + 32>> \o AllocateSlots(taken \cup {v}, n - 1)

\* The constructor and ap_initialize: all local vectors masked, the controller enabled.
Enabled1(a) == [a EXCEPT !.enabled = TRUE]
Initialize1 ==
  /\ stage = "boot" /\ halted = "no"
  /\ kind' \in Kinds
  /\ LET t == AllocateIsr({}, 0)
         s == AllocateIsr({t}, 13)
     IN /\ allocated' = {t, s}
        /\ irq' = [timer |-> t + 32, spurious |-> s + 32, slots |-> <<>>]
  /\ apic' = [apic EXCEPT ![Bsp] = Enabled1(@)]
  /\ stage' = "smp"
  /\ UNCHANGED <<cpu, events, halted>>

InitializeParallel ==
  /\ stage = "smp" /\ Top1(Bsp).at = "free" /\ Interruptible(Bsp) /\ halted = "no"
  /\ LET slots == AllocateSlots(allocated, SlotCount)
     IN /\ irq' = [irq EXCEPT !.slots = slots]
        /\ allocated' = allocated \cup {slots[i] - 32 : i \in DOMAIN slots}
  /\ stage' = "ready"
  /\ UNCHANGED <<kind, apic, cpu, events, halted>>

\* What id() returns on a core: the xAPIC's register is not shifted.
Id(c) == IF kind = "xapic" THEN c * IdShift ELSE c
\* ap_initialize looks for its core with get_core(id()); known are the ids of _cores.
ApInitialize1(c, known) ==
  /\ stage = "ready" /\ ~apic[c].enabled /\ c # Bsp /\ halted = "no"
  /\ IF Id(c) \in known
     THEN /\ apic' = [apic EXCEPT ![c] = Enabled1(@)]
          /\ UNCHANGED <<kind, allocated, irq, stage, cpu, events, halted>>
     ELSE Halt("requested core with unknown APIC ID!")

------------------------------------------------------------------------------
(* Interrupt commands                                                      *)

Request(c, to, what, at) ==
  /\ Works(c) /\ events < MaxEvents /\ events' = events + 1
  /\ SetTop(c, [Top1(c) EXCEPT !.at = at, !.to = to, !.what = what])
  /\ UNCHANGED <<kind, allocated, irq, stage, apic, halted>>

\* The vectors of parallel_execute; INIT and start-up interrupts are in SmpBoot.
Ipi(c) == /\ Top1(c).at = "free" /\ stage = "ready"
          /\ \E to \in Cpus \ {c}, k \in DOMAIN irq.slots : Request(c, {to}, irq.slots[k], "ipi")
Broadcast(c) == /\ Top1(c).at = "free" /\ stage = "ready"
                /\ \E i \in DOMAIN irq.slots : Request(c, Cpus \ {c}, irq.slots[i], "broadcast")

\* Carried out: a controller that is not enabled takes no vector.
Send(c, to) ==
  LET f == Top1(c)
  IN /\ apic' = [t \in Cpus |-> IF t \in to /\ apic[t].enabled /\ f.what \in Vectors
                               THEN [apic[t] EXCEPT !.irr = @ \cup {f.what}] ELSE apic[t]]
     /\ SetTop(c, [f EXCEPT !.at = IF f.vector = 0 THEN "free" ELSE "eoi"])
     /\ UNCHANGED <<kind, allocated, irq, stage, events, halted>>

\* The x2APIC's command is one register; an xAPIC's has a half for the destination.
WriteHigh(c) ==
  /\ Works(c) /\ kind = "xapic" /\ Top1(c).at = "ipi"
  /\ apic' = [apic EXCEPT ![c].high = CHOOSE t \in Top1(c).to : TRUE]
  /\ SetTop(c, [Top1(c) EXCEPT !.at = "low half"])
  /\ UNCHANGED <<kind, allocated, irq, stage, events, halted>>
WriteLow(c) == Works(c) /\ Top1(c).at = "low half" /\ Send(c, {apic[c].high})
WriteCommand(c) == Works(c) /\ kind = "x2apic" /\ Top1(c).at = "ipi" /\ Send(c, Top1(c).to)
WriteBroadcast(c) == Works(c) /\ Top1(c).at = "broadcast" /\ Send(c, Top1(c).to)

------------------------------------------------------------------------------
(* Interrupts                                                              *)

Class(v) == v \div 16
Highest(s) == IF s = {} THEN 0 ELSE Class(FinX!Max(s))
Enter1(c, v) == cpu' = [cpu EXCEPT ![c] = <<[Idle EXCEPT !.vector = v, !.at = "handler"]>> \o @]

\* The core takes the highest request whose class is above what is in service.
Accept(c) ==
  /\ Works(c) /\ Interruptible(c) /\ apic[c].irr # {}
  /\ Highest(apic[c].irr) > Highest(apic[c].isr)
  /\ LET v == FinX!Max(apic[c].irr)
     IN /\ apic' = [apic EXCEPT ![c].irr = @ \ {v}, ![c].isr = @ \cup {v}]
        /\ Enter1(c, v)
  /\ UNCHANGED <<kind, allocated, irq, stage, events, halted>>
\* A request that was withdrawn is delivered as the spurious vector, which is not in service.
Spurious(c) ==
  /\ Works(c) /\ Interruptible(c) /\ events < MaxEvents
  /\ events' = events + 1 /\ Enter1(c, irq.spurious)
  /\ UNCHANGED <<kind, allocated, irq, stage, apic, halted>>

\* The handler of the timer may ask another core to switch, once the scheduler runs there.
Handler(c) ==
  /\ Works(c) /\ Top1(c).at = "handler"
  /\ \/ /\ SetTop(c, [Top1(c) EXCEPT !.at = "eoi"])
        /\ UNCHANGED <<kind, allocated, irq, stage, apic, events, halted>>
     \/ /\ Top1(c).vector = irq.timer /\ stage = "ready"
        /\ \E to \in Cpus \ {c} : apic[to].enabled /\ Request(c, {to}, irq.slots[1], "ipi")

\* eoi(v) ends what is highest in service, except for the spurious vector.
\* Fault: the test is the wrong way round.
EndedIfSpurious(isr, v) == IF v # irq.spurious \/ isr = {} THEN isr ELSE isr \ {FinX!Max(isr)}
Ended(isr, v) == IF v = irq.spurious \/ isr = {} THEN isr ELSE isr \ {FinX!Max(isr)}
Eoi(c) ==
  /\ Works(c) /\ Top1(c).at = "eoi"
  /\ apic' = [apic EXCEPT ![c].isr = Ended(@, Top1(c).vector)]
  /\ cpu' = [cpu EXCEPT ![c] = Tail(@)]
  /\ UNCHANGED <<kind, allocated, irq, stage, events, halted>>

------------------------------------------------------------------------------
(* The timer                                                               *)

\* The divide configuration: bits 0, 1 and 3 of the register are one number, 7 is 1.
Bits(divide) == (divide % 4) + 4 * (divide \div 8)
HwDivisor(divide) == IF Bits(divide) = 7 THEN 1 ELSE 2 ^ (Bits(divide) + 1)
\* divisor(div), which sets 32 for 16.
\* Fault: the shift forgets that the third bit is apart.
DivideInThreeBits(div) == IF div = 1 THEN 11 ELSE div \div 4
Divide(div) == CASE div = 1 -> 11
                 [] div \in {16, 32} -> 8
                 [] OTHER -> div \div (2 ^ (2 + div \div 64)) + div \div 64
\* divisor(): of 256 the x2APIC makes 1 and the xAPIC 0, in the 8 bits that are returned.
Divisor == [divide \in {0, 1, 2, 3, 8, 9, 10, 11} |->
  LET r == 2 ^ (Bits(divide) + 1)
  IN IF kind = "x2apic" THEN IF r = 256 THEN 1 ELSE r ELSE IF r = 256 THEN 0 ELSE 1]

Powers == {1, 2, 4, 8, 16, 32, 64, 128}
Least(a, b) == IF a < b THEN a ELSE b
\* _one_shot doubles the divisor until the time fits, or is cut to what a register holds.
Fitting(time) == FinX!Min({d \in Powers : time \div (d * Tick) <= Count \/ d = 128})
Programmed(a, time) == [a EXCEPT !.divide = Divide(Fitting(time)), !.time = time, !.passed = 0,
                                 !.left = Least(time \div (Fitting(time) * Tick), Count)]
\* What _update_now adds to _now.
Updated(a) ==
  LET d == Divisor[a.divide]
  IN (Least(a.time \div (d * Tick), Count) - a.left) * d * Tick

\* real_timer::one_shot: _update_now if an event is in the list, then _one_shot, in one lock.
OneShot(c) ==
  /\ Works(c) /\ stage \in {"smp", "ready"} /\ Interruptible(c) /\ Top1(c).at = "free"
  /\ IF apic[c].left # 0 /\ Divisor[apic[c].divide] = 0
     THEN Halt("Unhandled CPU exception.")
     ELSE /\ events < MaxEvents /\ events' = events + 1
          /\ \E time \in Times : apic' = [apic EXCEPT ![c] = Programmed(@, time)]
          /\ UNCHANGED <<kind, allocated, irq, stage, cpu, halted>>
TimerCounts(c) ==
  /\ Works(c) /\ apic[c].left > 0
  /\ apic' = [apic EXCEPT ![c].left = @ - 1, ![c].passed = @ + HwDivisor(apic[c].divide) * Tick,
                          ![c].irr = IF apic[c].left = 1 THEN @ \cup {irq.timer} ELSE @]
  /\ UNCHANGED <<kind, allocated, irq, stage, cpu, events, halted>>

Command(c) == WriteHigh(c) \/ WriteLow(c) \/ WriteCommand(c) \/ WriteBroadcast(c)
Interrupt(c) == Accept(c) \/ Handler(c) \/ Eoi(c)
\* Fired by the composition: Initialize1, InitializeParallel, ApInitialize1.
CoreStep == \E c \in Cpus : \/ Ipi(c) \/ Broadcast(c) \/ Command(c) \/ Spurious(c)
                           \/ Interrupt(c) \/ OneShot(c) \/ TimerCounts(c)
\* A core goes on with what it has begun, and takes an interrupt that stays requested.
LapicFairness == \A c \in Cpus : WF_lapicVars(Command(c)) /\ WF_lapicVars(Interrupt(c))

------------------------------------------------------------------------------
(* Properties                                                              *)

\* The timer lasts what was asked, up to one count, unless that is more than it can count; and
\* what _update_now takes for the time gone by is the time that has.
TimerKeepsTime ==
  \A c \in Cpus : apic[c].time # 0 =>
    LET unit == HwDivisor(apic[c].divide) * Tick
        lasts == apic[c].passed + apic[c].left * unit
    IN /\ lasts <= apic[c].time
       /\ apic[c].time < lasts + unit \/ lasts = 128 * Tick * Count
       /\ kind = "x2apic" => Updated(apic[c]) = apic[c].passed

\* A vector that was requested is served: no handler leaves its vector in service, where it
\* would keep out those of its class and below for ever.
Assigned == {32} \cup {AllocateSlots({0, 208}, SlotCount)[i] : i \in 1..SlotCount}
Served == \A c \in Cpus, v \in Assigned : v \in apic[c].irr ~> v \in apic[c].isr \/ halted # "no"
==============================================================================
