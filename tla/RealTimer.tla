------------------------------ MODULE RealTimer ------------------------------
(***************************************************************************)
(* time::real_timer (src/kernel/time/timer.cpp) on a HPET comparator       *)
(* (src/kernel/time/hpet.cpp): events wait in a priority list, the         *)
(* comparator is programmed for the first, its interrupt runs the handlers *)
(* of the events that are due.                                             *)
(*                                                                         *)
(* one_shot, periodic, cancel and the interrupt handler each run inside    *)
(* the timer's recursive lock with interrupts off, so each is one action;  *)
(* a handler may call one_shot in turn.  The timer reckons in nanoseconds, *)
(* the comparator in ticks of the main counter; the properties compare in  *)
(* femtoseconds.  Clients are ways of using a timer: what they request and *)
(* how many events they have at a time.                                    *)
(***************************************************************************)
EXTENDS PriorityList, FiniteSets

CONSTANTS Clients,       \* [requests, delays, active, cancels, renews, latency, misses] of the
                         \* possible clients: what they request, with which delays or periods,
                         \* how many events wait at most, whether they cancel, whether a
                         \* handler may request a one_shot, how many ticks an interrupt stays
                         \* pending at most, whether their comparator misses a value that the
                         \* main counter already has when it is set
          Capabilities,  \* the capabilities of the possible comparators
          TickLength,    \* _parent->_period: how long a tick of the main counter lasts, in femtoseconds
          Nanosecond,    \* 1000000, the femtoseconds of a nanosecond
          MinTick,       \* _minimal_tick, in nanoseconds like every time of the timer
          MaxTick,       \* _maximal_tick
          Punctual,      \* whether an interrupt is always taken before the timer is used again
          MaxEvents,     \* bound: events that are requested
          MaxClock,      \* bound: the main counter
          Word           \* the range of a time, and of a product of times (2^64)

Ids == 1..MaxEvents

ASSUME TimerAssumption ==
  /\ MinTick \in Nat /\ MaxTick \in Nat /\ MinTick <= MaxTick
  /\ Punctual \in BOOLEAN /\ MaxEvents \in Nat /\ MaxClock \in Nat
  /\ {TickLength, Nanosecond, Word} \subseteq Nat \ {0}
  /\ Capabilities \subseteq {"dynamic", "one_shot_capable", "periodic_capable", "fixed_frequency"}
  /\ \A k \in Clients : /\ k.requests \subseteq {"one_shot", "periodic"}
                        /\ k.delays \subseteq Nat \ {0} /\ k.active \in Nat
                        /\ k.latency \in Nat /\ {k.cancels, k.renews, k.misses} \subseteq BOOLEAN

VARIABLES
  cap, client,    \* what the timer and its client are; they do not change
  list,           \* _list
  now,            \* _now
  usage,          \* _usage
  isPeriodic,     \* _is_periodic
  device,         \* the comparator: [mode, at, period], in ticks of the main counter
  irq,            \* when the interrupt that is pending was raised, or -1
  clock,          \* the main counter
  asked,          \* history: the requests, [due, period, cancelled], due in femtoseconds; the
                  \* n-th has id n
  ran,            \* history: ran[e], the main counter when the handler of event e ran
  fault           \* how the last operation failed, or "none"

timer == [list |-> list, now |-> now, usage |-> usage, isPeriodic |-> isPeriodic,
          device |-> device, asked |-> asked, ran |-> ran, fault |-> fault]
vars == <<cap, client, list, now, usage, isPeriodic, device, irq, clock, asked, ran, fault>>

\* The operations are functions from timer to timer.
Becomes(t) == /\ list' = t.list /\ now' = t.now /\ usage' = t.usage
              /\ isPeriodic' = t.isPeriodic /\ device' = t.device
              /\ asked' = t.asked /\ ran' = t.ran
              /\ fault' = IF t.list.null THEN "null" ELSE t.fault

NoEvent == [id |-> 0, key |-> 0, period |-> 0, again |-> 0]
Idle == -1

Init == /\ cap \in Capabilities /\ client \in Clients
        /\ list = EmptyList(MaxEvents + 1, NoEvent)
        /\ now = 0 /\ usage = 0 /\ isPeriodic = FALSE
        /\ device = [mode |-> "off", at |-> 0, period |-> 0]
        /\ irq = Idle /\ clock = 0 /\ asked = <<>> /\ ran = [e \in Ids |-> <<>>] /\ fault = "none"

\* Differences of times are unsigned.
Until(time, t) == (time - t.now) % Word
AtLeast(time, n) == IF time > n THEN time ELSE n
AtMost(time, n) == IF time < n THEN time ELSE n
Clamped(time) == AtMost(AtLeast(time, MinTick), MaxTick)

------------------------------------------------------------------------------
(* The comparator.  A time becomes ticks, and ticks a time, by a product   *)
(* that wraps and a division that cuts.                                    *)

Ticks(time) == ((time * Nanosecond) % Word) \div TickLength
Time(ticks) == ((ticks * TickLength) % Word) \div Nanosecond

\* A comparator that is set to a value the main counter already has may miss it.
Armed(mode, at, period) ==
  [mode |-> IF client.misses /\ at <= clock THEN "missed" ELSE mode, at |-> at, period |-> period]
ProgramOneShot(t, time) == [t EXCEPT !.device = Armed("one_shot", Ticks(t.now + time), 0)]
ProgramPeriodic(t, p) == [t EXCEPT !.device = Armed("periodic", Ticks(t.now + p), Ticks(p))]
UpdateNow(t) == [t EXCEPT !.now = Time(clock)]
Stop(t) == [t EXCEPT !.device.mode = "off"]

------------------------------------------------------------------------------
(* Requests.  The element of an event has its time point as key, its       *)
(* period or 0, and the delay with which its handler requests another      *)
(* one_shot, or 0.                                                         *)

Requested(t, delay, period, again) ==
  [t EXCEPT !.list = Insert(@, [id |-> Len(t.asked) + 1, key |-> t.now + delay,
                                period |-> period, again |-> again]),
            !.asked = Append(@, [due |-> clock * TickLength + delay * Nanosecond,
                                 period |-> period, cancelled |-> FALSE])]

\* Faults: the device keeps the time of the event it was programmed for; the present time
\* is not looked up.
OneShotUnprogrammed(t0, delay, again) ==
  LET t == [Requested(UpdateNow(t0), delay, 0, again) EXCEPT !.usage = @ + 1, !.isPeriodic = FALSE]
  IN IF t.list.size > 1 THEN t
     ELSE ProgramOneShot(t, Clamped(Until(TopItem(t.list).key, t)))

OneShotUnupdated(t0, delay, again) ==
  LET t == [Requested(t0, delay, 0, again) EXCEPT !.usage = @ + 1, !.isPeriodic = FALSE]
  IN ProgramOneShot(t, Clamped(Until(TopItem(t.list).key, t)))

OneShot(t0, delay, again) ==
  LET t == [Requested(UpdateNow(t0), delay, 0, again) EXCEPT !.usage = @ + 1, !.isPeriodic = FALSE]
      time == Clamped(Until(TopItem(t.list).key, t))
  IN CASE cap \in {"dynamic", "one_shot_capable"} -> ProgramOneShot(t, time)
       [] cap = "periodic_capable" -> ProgramPeriodic(t, time)
       [] OTHER -> t

Periodic(t0, period) ==
  LET t == [Requested(UpdateNow(t0), period, period, 0) EXCEPT !.usage = @ + 100]
      time == Clamped(Until(TopItem(t.list).key, t))
      first == t.list.size = 1 /\ cap \in {"dynamic", "periodic_capable"}
  IN ProgramOneShot([t EXCEPT !.isPeriodic = @ /\ first], time)

Cancel(t0, e) ==
  LET removed == Remove(t0.list, {e})
      gone == removed.item
      t1 == [t0 EXCEPT !.list = removed.list, !.asked[e].cancelled = TRUE,
                       !.usage = @ - (IF gone.period # 0 THEN 100 ELSE 1)]
      t2 == UpdateNow(t1)
      top == TopItem(t2.list)
      time == AtLeast(Until(top.key, t2), MinTick)
      alone == cap \in {"dynamic", "periodic_capable"} /\ t2.list.size = 1 /\ top.period # 0
      t3 == IF alone THEN ProgramPeriodic([t2 EXCEPT !.isPeriodic = TRUE], time) ELSE t2
  IN CASE ~removed.success -> [t0 EXCEPT !.fault = "panic: not active"]
       [] removed.success /\ t1.list.size = 0 -> Stop(t1)
       [] removed.success /\ t1.list.size # 0 /\ t1.list.first = Null -> [t1 EXCEPT !.fault = "null"]
       [] OTHER -> IF ~t3.isPeriodic /\ cap \in {"dynamic", "one_shot_capable"} /\ top.key > gone.key
                   THEN ProgramOneShot(t3, time) ELSE t3

------------------------------------------------------------------------------
(* The interrupt handler                                                   *)

\* while (Test) Step;  in more rounds than any loop of this module has, which is a fault.
Rounds == MaxEvents + MaxClock
While(Test(_), Step(_), t0) ==
  LET run[i \in 0..Rounds] ==
        IF i = 0 THEN t0 ELSE LET t == run[i - 1] IN IF Test(t) THEN Step(t) ELSE t
      last == run[Rounds]
  IN IF Test(last) THEN [last EXCEPT !.fault = "rounds"] ELSE last

\* _schedule_next programs the device for the event it returns: the first that is not
\* due, or the last.
NextToSchedule(t) ==
  LET walk[a \in DOMAIN t.list.item] ==
        IF t.list.item[a].key <= t.now /\ t.list.next[a] # Null THEN walk[t.list.next[a]] ELSE a
  IN IF t.list.size = 0 THEN Null ELSE walk[t.list.first]

ScheduleNext(t) ==
  LET a == NextToSchedule(t)
      next == t.list.item[a]
      turns == /\ ~t.isPeriodic /\ t.list.next[a] = Null /\ next.period # 0
               /\ cap \in {"dynamic", "periodic_capable"}
      u == IF turns THEN ProgramPeriodic([t EXCEPT !.isPeriodic = TRUE], next.period) ELSE t
      time == Clamped(Until(next.key, t))
  IN CASE a = Null -> t
       [] a # Null /\ cap = "periodic_capable" -> ProgramPeriodic(u, time)
       [] a # Null /\ cap = "dynamic" /\ u.isPeriodic ->
            ProgramPeriodic(u, AtLeast(next.period, MinTick))
       [] a # Null /\ (cap = "one_shot_capable" \/ (cap = "dynamic" /\ ~u.isPeriodic)) ->
            ProgramOneShot(u, time)
       [] OTHER -> u

RunHandler(t, x) ==
  LET u == [t EXCEPT !.ran[x.id] = Append(@, clock)] IN
  IF x.again # 0 /\ Len(u.asked) < MaxEvents THEN OneShot(u, x.again, x.again) ELSE u

SomeDue(t) == ~t.list.null /\ t.list.size > 0 /\ TopItem(t.list).key <= t.now
Later(x) == [x EXCEPT !.key = @ + x.period]

\* One event, in the mode where the device is periodic and where it is not.
RepeatFirst(t) ==
  LET u == RunHandler(t, TopItem(t.list))
      removed == Remove(u.list, Ids)
  IN [u EXCEPT !.list = Insert(removed.list, Later(removed.item))]

\* Faults: a periodic event is not put back; an event that is over is still counted.
ServeFirstOnce(t) ==
  LET popped == Pop(t.list)
      u == RunHandler([t EXCEPT !.list = popped.list], popped.item)
  IN [u EXCEPT !.usage = @ - 1]

ServeFirst(t) ==
  LET popped == Pop(t.list)
      x == popped.item
      u == RunHandler([t EXCEPT !.list = popped.list], x)
  IN IF x.period # 0 THEN [u EXCEPT !.list = Insert(@, Later(x))] ELSE [u EXCEPT !.usage = @ - 1]

\* The handler takes the time of the first event, within the limits of a tick, for the
\* present time.
Handle(t0) ==
  LET tick == Until(TopItem(t0.list).key, t0)
      t1 == [t0 EXCEPT !.now = @ + (IF cap = "fixed_frequency" THEN MinTick
                                    ELSE IF tick > MaxTick THEN MaxTick
                                    ELSE AtLeast(tick, MinTick))]
      scheduled == NextToSchedule(t1)
      t2 == While(SomeDue, ServeFirst, ScheduleNext(t1))
  IN CASE t0.list.size = 0 -> t0
       [] t0.list.size # 0 /\ t0.list.first = Null -> [t0 EXCEPT !.fault = "null"]
       [] t0.list.size # 0 /\ t0.list.first # Null /\ t0.isPeriodic -> While(SomeDue, RepeatFirst, t1)
       [] OTHER -> IF t2.list.size > 0 /\ scheduled # t2.list.first THEN ScheduleNext(t2) ELSE t2

------------------------------------------------------------------------------
(* Actions                                                                 *)

\* An event waits until its handler has run, for ever if it is periodic, or it is cancelled.
Waiting == {e \in 1..Len(asked) : ~asked[e].cancelled /\ (asked[e].period # 0 \/ ran[e] = <<>>)}

\* The timer is in use, but not while an interrupt of it is imminent or pending, if that
\* is excluded.
Reached == device.mode \in {"one_shot", "periodic"} /\ device.at <= clock
Usable == fault = "none" /\ (Punctual => irq = Idle /\ ~Reached)

CanRequest(kind) == /\ Usable /\ kind \in client.requests
                    /\ Len(asked) < MaxEvents /\ Cardinality(Waiting) < client.active

RequestOneShot == /\ CanRequest("one_shot")
                  /\ \E d \in client.delays : \E again \in IF client.renews THEN {0, d} ELSE {0} : Becomes(OneShot(timer, d, again))
                  /\ UNCHANGED <<cap, client, irq, clock>>

RequestPeriodic == /\ CanRequest("periodic")
                   /\ \E p \in client.delays : Becomes(Periodic(timer, p))
                   /\ UNCHANGED <<cap, client, irq, clock>>

CancelEvent == /\ Usable /\ client.cancels
               /\ \E e \in Waiting : Becomes(Cancel(timer, e))
               /\ UNCHANGED <<cap, client, irq, clock>>

\* The comparator matches: one pending interrupt.
Match == /\ Reached
         /\ irq' = IF irq = Idle THEN clock ELSE irq
         /\ device' = IF device.mode = "periodic" THEN [device EXCEPT !.at = @ + device.period]
                      ELSE [device EXCEPT !.mode = "off"]
         /\ UNCHANGED <<cap, client, list, now, usage, isPeriodic, clock, asked, ran, fault>>

\* _hpet_handler; every 256th interrupt brings _now up to date.
Interrupt == /\ fault = "none" /\ irq # Idle
             /\ irq' = Idle
             /\ \/ Becomes(Handle(timer))
                \/ Becomes(UpdateNow(Handle(timer)))
             /\ UNCHANGED <<cap, client, clock>>

\* Time passes, but not past a match, and not while an interrupt has been pending too long.
Tick == /\ clock < MaxClock /\ ~Reached
        /\ irq # Idle => clock - irq < client.latency
        /\ clock' = clock + 1
        /\ UNCHANGED <<cap, client, list, now, usage, isPeriodic, device, irq, asked, ran, fault>>

Next == RequestOneShot \/ RequestPeriodic \/ CancelEvent \/ Match \/ Interrupt \/ Tick

Spec == Init /\ [][Next]_vars
------------------------------------------------------------------------------
(* Properties                                                              *)

\* When event e is due next, in femtoseconds.
NextDue(e) == asked[e].due + Len(ran[e]) * asked[e].period * Nanosecond

TypeOK == /\ cap \in Capabilities /\ client \in Clients
          /\ now \in Nat /\ usage \in Nat /\ isPeriodic \in BOOLEAN
          /\ device.mode \in {"off", "one_shot", "periodic", "missed"} /\ device.at \in Nat
          /\ irq \in {Idle} \cup 0..clock /\ clock \in 0..MaxClock
          /\ \A e \in Ids : \A i \in 1..Len(ran[e]) : ran[e][i] \in 0..clock
          /\ fault \in {"none", "null", "rounds", "panic: not active"}

\* The list holds exactly the events that wait, each of them once and for the time it is due,
\* cut to a nanosecond; on the way there no operation on it has panicked or followed a null
\* pointer.  In which order they stand is not said.
ListHoldsWaiting ==
  LET q == Elements(list) IN
  /\ TypeOK /\ fault = "none"
  /\ {q[i].id : i \in 1..Len(q)} = Waiting
  /\ Len(q) = Cardinality(Waiting) /\ list.size = Len(q)
  /\ \A i \in 1..Len(q) : NextDue(q[i].id) - q[i].key * Nanosecond \in 0..(Nanosecond - 1)

\* Times are cut on their way to the device and back, so a handler may run early, but by less
\* than a tick of the main counter and a nanosecond.  In the periodic mode the device's period
\* is cut too, and that adds up: the i-th run is early by less than i ticks.  No handler runs
\* of an event that has been cancelled.
Cut(e, i) == IF cap = "dynamic" /\ asked[e].period # 0 THEN i ELSE 1
NotEarly == \A e \in 1..Len(asked) : \A i \in 1..Len(ran[e]) :
              (ran[e][i] + Cut(e, i)) * TickLength + Nanosecond
                > asked[e].due + (i - 1) * asked[e].period * Nanosecond

\* No event waits longer than an interrupt may, and the shortest tick of the device lasts, past
\* the time it is due or the time of an event that stands before it in the list: the device is
\* always programmed for what is there.
NotLate ==
  LET q == Elements(list) IN
  \A i \in 1..Len(q) : \E h \in 1..i :
    clock * TickLength <= NextDue(q[h].id) + client.latency * TickLength + MinTick * Nanosecond

\* The list is in the order in which the events are due.  (Of four events it is not.)
InOrder == LET q == Elements(list) IN \A i \in 1..(Len(q) - 1) : q[i].key <= q[i + 1].key

\* timer.cpp:152: "Tried to cancel a not active timer." is never said of a timer that is.
CancelFinds == fault # "panic: not active"
==============================================================================
