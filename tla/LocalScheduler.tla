--------------------------- MODULE LocalScheduler ---------------------------
(***************************************************************************)
(* The scheduler (src/kernel/scheduler/scheduler.cpp, local.cpp), with the *)
(* change of the current thread (processor/thread.cpp) and the part of the *)
(* interrupt handler that exchanges contexts (handlers.cpp).               *)
(*                                                                         *)
(* Every core has three queues of threads.  schedule() pushes a new thread *)
(* to the core with the best score; a push that concerns the best class of *)
(* the core asks the core, by a parallel_execute that does not wait, for a *)
(* switch.  The switch runs in the handler on that core, as does the one   *)
(* that the preemption timer asks for 5 ms later while there are several   *)
(* threads to choose from; the handler returns into the new thread.        *)
(*                                                                         *)
(* An inter-processor call is taken as what ParallelExecute shows of one   *)
(* that does not wait: executed once, later.  The preemption timer has one *)
(* event, which fires once or is cancelled (RealTimer).                    *)
(***************************************************************************)
EXTENDS FrequencyQueue, FiniteSets

CONSTANTS NCores,     \* core_count(); core 0 is the one that boots the kernel
          Tasks,      \* the threads that are created and scheduled
          Policy,     \* Policy[t], Priority[t]: their policies and priorities
          Priority,
          Spawners,   \* the threads that schedule others
          Levels      \* the levels of a queue (256)

Cores == 0..(NCores - 1)
NoCore == NCores                   \* nullptr
Kernel(c) == <<c>>                 \* the thread that core c boots in
KernelThreads == {Kernel(c) : c \in Cores}
NoThread == <<>>                   \* nullptr
AllThreads == Tasks \cup KernelThreads
Classes == {"top", "normal", "background"}

ASSUME SchedulerAssumption == /\ NCores \in Nat \ {0} /\ IsFiniteSet(Tasks)
                              /\ Tasks \cap (KernelThreads \cup {NoThread}) = {}
                              /\ Policy \in [Tasks -> Classes] /\ Levels \in Nat
                              /\ Priority \in [Tasks -> 0..(Levels - 1)]
                              /\ Spawners \subseteq AllThreads

VARIABLES
  ready,        \* _ready
  queue,        \* queue[c][k]: _top, _normal and _background of core c
  lock,         \* lock[c]: who holds _lock of core c's scheduler, or NoThread
  timer,        \* timer[c]: whether _timer names an event
  event,        \* event[c]: whether the preemption timer of core c has that event
  current,      \* current[c]: gs:0 on core c
  currentCore,  \* currentCore[t], lastCore[t]: current_core and last_core of thread t
  lastCore,
  context,      \* context[t]: "none", "saved", or "live" in the registers of a core
  calls,        \* calls[c]: do_switch calls under way to core c
  inInterrupt,  \* inInterrupt[c]: _is_in_interrupt
  hpc,          \* hpc[c]: where the interrupt handler on core c is, or "none"
  interrupted,  \* interrupted[c]: interrupted_thread of that handler
  unborn,       \* tasks that have not been created
  pc,           \* pc[s]: where spawner s is in schedule()
  task,         \* task[s], scan[s], best[s], score[s]: t, i, best_core and best_score
  scan, best, score,
  fault         \* how an operation failed, or "none"

place == <<current, currentCore, lastCore, context>>
timers == <<timer, event>>
handlers == <<inInterrupt, hpc, interrupted>>
spawners == <<unborn, pc, task, scan, best, score>>
vars == <<ready, queue, lock, timers, place, calls, handlers, spawners, fault>>

Init == /\ ready = FALSE
        /\ queue = [c \in Cores |-> [k \in Classes |-> EmptyQueue]]
        /\ lock = [c \in Cores |-> NoThread]
        /\ timer = [c \in Cores |-> FALSE] /\ event = [c \in Cores |-> FALSE]
        /\ current = [c \in Cores |-> NoThread]
        /\ currentCore = [t \in AllThreads |-> NoCore]
        /\ lastCore = [t \in AllThreads |-> NoCore]
        /\ context = [t \in AllThreads |-> "none"]
        /\ calls = [c \in Cores |-> 0]
        /\ inInterrupt = [c \in Cores |-> FALSE]
        /\ hpc = [c \in Cores |-> "none"]
        /\ interrupted = [c \in Cores |-> NoThread]
        /\ unborn = Tasks
        /\ pc = [s \in Spawners |-> "idle"]
        /\ task = [s \in Spawners |-> NoThread]
        /\ scan = [s \in Spawners |-> 0]
        /\ best = [s \in Spawners |-> 0]
        /\ score = [s \in Spawners |-> 0]
        /\ fault = "none"

------------------------------------------------------------------------------
(* Initialization                                                          *)

\* ap_initialize, in the call that scheduler::initialize makes to all cores; the
\* push of the kernel thread, whose policy is idle, does nothing.
ApInitialize(c) == /\ current[c] = NoThread
                   /\ current' = [current EXCEPT ![c] = Kernel(c)]
                   /\ currentCore' = [currentCore EXCEPT ![Kernel(c)] = c]
                   /\ lastCore' = [lastCore EXCEPT ![Kernel(c)] = c]
                   /\ context' = [context EXCEPT ![Kernel(c)] = "live"]
                   /\ UNCHANGED <<ready, queue, lock, timers, calls, handlers, spawners, fault>>

\* The end of scheduler::initialize: the call has been executed by all cores.
BecomeReady == /\ ~ready /\ \A c \in Cores : current[c] # NoThread
               /\ ready' = TRUE
               /\ UNCHANGED <<queue, lock, timers, place, calls, handlers, spawners, fault>>

------------------------------------------------------------------------------
(* schedule() and push(), in a thread that runs                            *)

Size(c, k) == Len(queue[c][k].list)
Load(c) == 4 * queue[c]["top"].load + 2 * queue[c]["normal"].load + queue[c]["background"].load

\* _score; every process has an address space of its own, so the bonus for a core that
\* runs in t's never applies.
Score(s, t, c) == 1024 + (IF lastCore[t] = c THEN 1024 ELSE 0) - Load(c)
                       - (IF c = currentCore[s] THEN 128 ELSE 0)

\* Spawner s executes a statement: it is the current thread of a core that is not in a handler.
Step(s, from, to) == /\ fault = "none" /\ ready
                     /\ \E c \in Cores : current[c] = s /\ hpc[c] = "none"
                     /\ pc[s] = from /\ pc' = [pc EXCEPT ![s] = to]

BeginSchedule(s, t) == /\ t \in unborn
                       /\ Step(s, "idle", "scan")
                       /\ unborn' = unborn \ {t}
                       /\ context' = [context EXCEPT ![t] = "saved"]
                       /\ task' = [task EXCEPT ![s] = t]
                       /\ best' = [best EXCEPT ![s] = 0]
                       /\ score' = [score EXCEPT ![s] = Score(s, t, 0)]
                       /\ scan' = [scan EXCEPT ![s] = 1]
                       /\ UNCHANGED <<ready, queue, lock, timers, current, currentCore, lastCore,
                                      calls, handlers, fault>>

ScanCore(s) == /\ scan[s] < NCores
               /\ Step(s, "scan", "scan")
               /\ LET found == Score(s, task[s], scan[s]) IN
                  IF found > score[s]
                  THEN best' = [best EXCEPT ![s] = scan[s]] /\ score' = [score EXCEPT ![s] = found]
                  ELSE UNCHANGED <<best, score>>
               /\ scan' = [scan EXCEPT ![s] = @ + 1]
               /\ UNCHANGED <<ready, queue, lock, timers, place, calls, handlers, unborn, task, fault>>

EndScan(s) == /\ scan[s] = NCores
              /\ Step(s, "scan", "push")
              /\ UNCHANGED <<ready, queue, lock, timers, place, calls, handlers,
                             unborn, task, scan, best, score, fault>>

PushLock(s) == /\ lock[best[s]] = NoThread
               /\ Step(s, "push", "insert")
               /\ lock' = [lock EXCEPT ![best[s]] = s]
               /\ UNCHANGED <<ready, queue, timers, place, calls, handlers,
                              unborn, task, scan, best, score, fault>>

\* Whether a push of class k concerns the best class of core c.
Concerns(c, k) == CASE k = "top" -> TRUE
                    [] k = "normal" -> Size(c, "top") = 0
                    [] OTHER -> Size(c, "top") = 0 /\ Size(c, "normal") = 0

\* Fault: only the first thread of a class asks for a switch.
InsertQuietly(s) ==
  LET c == best[s]
      k == Policy[task[s]]
  IN /\ Step(s, "insert", "unlock")
     /\ queue' = [queue EXCEPT ![c][k] = Enqueue(@, task[s], Priority[task[s]])]
     /\ calls' = [calls EXCEPT ![c] = @ + (IF Concerns(c, k) /\ Size(c, k) = 0 THEN 1 ELSE 0)]
     /\ UNCHANGED <<ready, lock, timers, place, handlers, unborn, task, scan, best, score, fault>>

\* A thread is never in a handler, so that _do_switch goes through parallel_execute.
Insert(s) ==
  LET c == best[s]
      k == Policy[task[s]]
  IN /\ Step(s, "insert", "unlock")
     /\ queue' = [queue EXCEPT ![c][k] = Enqueue(@, task[s], Priority[task[s]])]
     /\ calls' = [calls EXCEPT ![c] = @ + (IF Concerns(c, k) THEN 1 ELSE 0)]
     /\ UNCHANGED <<ready, lock, timers, place, handlers, unborn, task, scan, best, score, fault>>

PushUnlock(s) == /\ Step(s, "unlock", "idle")
                 /\ lock' = [lock EXCEPT ![best[s]] = NoThread]
                 /\ task' = [task EXCEPT ![s] = NoThread]
                 /\ scan' = [scan EXCEPT ![s] = 0]
                 /\ best' = [best EXCEPT ![s] = 0]
                 /\ score' = [score EXCEPT ![s] = 0]
                 /\ UNCHANGED <<ready, queue, timers, place, calls, handlers, unborn, fault>>

------------------------------------------------------------------------------
(* The interrupt handler and the switch                                    *)

\* push runs with interrupts off, as does every handler.
Interruptible(c) == /\ fault = "none" /\ ready /\ hpc[c] = "none"
                    /\ current[c] \in Spawners => pc[current[c]] \in {"idle", "scan"}

BeginInterrupt(c) == /\ Interruptible(c)
                     /\ inInterrupt' = [inInterrupt EXCEPT ![currentCore[current[c]]] = TRUE]
                     /\ interrupted' = [interrupted EXCEPT ![c] = current[c]]
                     /\ hpc' = [hpc EXCEPT ![c] = "lock"]

CallArrives(c) == /\ calls[c] > 0
                  /\ BeginInterrupt(c)
                  /\ calls' = [calls EXCEPT ![c] = @ - 1]
                  /\ UNCHANGED <<ready, queue, lock, timers, place, spawners, fault>>

\* The event leaves the timer, its handler forgets it and calls do_switch.
TimerFires(c) == /\ event[c]
                 /\ BeginInterrupt(c)
                 /\ event' = [event EXCEPT ![c] = FALSE]
                 /\ timer' = [timer EXCEPT ![c] = FALSE]
                 /\ UNCHANGED <<ready, queue, lock, place, calls, spawners, fault>>

Handling(c, from, to) == /\ fault = "none"
                         /\ hpc[c] = from /\ hpc' = [hpc EXCEPT ![c] = to]

SwitchLock(c) == /\ lock[c] = NoThread
                 /\ Handling(c, "lock", "switch")
                 /\ lock' = [lock EXCEPT ![c] = interrupted[c]]
                 /\ UNCHANGED <<ready, queue, timers, place, calls, inInterrupt, interrupted,
                                spawners, fault>>

\* The class that _pop chooses from.
BestClass(c) == CASE Size(c, "top") > 0 -> "top"
                  [] Size(c, "top") = 0 /\ Size(c, "normal") > 0 -> "normal"
                  [] OTHER -> "background"

\* processor::current_thread(t) on core c
BecomeCurrent(c, t) ==
  LET previous == current[c]
      core == currentCore[previous]
  IN /\ lastCore' = [lastCore EXCEPT ![previous] = core]
     /\ currentCore' = [[currentCore EXCEPT ![previous] = NoCore] EXCEPT ![t] = core]
     /\ current' = [current EXCEPT ![core] = t]

\* How _do_switch fails: _timer.cancel() panics without the event, pop without a load;
\* without any thread _pop returns _idle, which is null.
SwitchFailure(c) ==
  LET k == BestClass(c) IN
  CASE timer[c] /\ ~event[c] -> "panic: not active"
    [] ~(timer[c] /\ ~event[c]) /\ Size(c, k) = 0 -> "null"
    [] ~(timer[c] /\ ~event[c]) /\ Size(c, k) > 0 /\ ~CanPop(queue[c][k]) -> "panic: empty queue"
    [] OTHER -> "none"

SetTimer(c, on) == event' = [event EXCEPT ![c] = on] /\ timer' = [timer EXCEPT ![c] = on]

\* Fault: once it has fired, the timer is set again for two threads only.
SwitchWithoutRearming(c) ==
  LET k == BestClass(c) IN
  /\ Handling(c, "switch", "return")
  /\ fault' = SwitchFailure(c)
  /\ IF fault' # "none" THEN UNCHANGED <<queue, timers, current, currentCore, lastCore, lock>>
     ELSE /\ SetTimer(c, Size(c, k) > 1 /\ (timer[c] \/ Size(c, k) = 2))
          /\ BecomeCurrent(c, Popped(queue[c][k]))
          /\ queue' = [queue EXCEPT ![c][k] = Requeue(@, Levels)]
          /\ lock' = [lock EXCEPT ![c] = NoThread]
  /\ UNCHANGED <<ready, context, calls, inInterrupt, interrupted, spawners>>

\* _do_switch in the handler: cancel, set the timer again, take the next thread, unlock.
Switch(c) ==
  LET k == BestClass(c) IN
  /\ Handling(c, "switch", "return")
  /\ fault' = SwitchFailure(c)
  /\ IF fault' # "none" THEN UNCHANGED <<queue, timers, current, currentCore, lastCore, lock>>
     ELSE /\ SetTimer(c, Size(c, k) > 1)
          /\ BecomeCurrent(c, Popped(queue[c][k]))
          /\ queue' = [queue EXCEPT ![c][k] = Requeue(@, Levels)]
          /\ lock' = [lock EXCEPT ![c] = NoThread]
  /\ UNCHANGED <<ready, context, calls, inInterrupt, interrupted, spawners>>

\* Fault: the context of the interrupted thread is not saved if it is a kernel thread.
ReturnWithoutSaving(c) ==
  LET t == current[c]
      previous == interrupted[c]
  IN /\ Handling(c, "return", "none")
     /\ inInterrupt' = [inInterrupt EXCEPT ![currentCore[t]] = FALSE]
     /\ interrupted' = [interrupted EXCEPT ![c] = NoThread]
     /\ IF t = previous THEN UNCHANGED <<context, fault>>
        ELSE /\ context' = [[context EXCEPT ![previous] = IF previous \in KernelThreads THEN @ ELSE "saved"]
                              EXCEPT ![t] = "live"]
             /\ fault' = IF context[t] = "saved" THEN fault ELSE "panic: no context"
     /\ UNCHANGED <<ready, queue, lock, timers, current, currentCore, lastCore, calls, spawners>>

\* The end of handle: exchange of contexts if the current thread is another, iretq.
Return(c) ==
  LET t == current[c]
      previous == interrupted[c]
  IN /\ Handling(c, "return", "none")
     /\ inInterrupt' = [inInterrupt EXCEPT ![currentCore[t]] = FALSE]
     /\ interrupted' = [interrupted EXCEPT ![c] = NoThread]
     /\ IF t = previous THEN UNCHANGED <<context, fault>>
        ELSE /\ context' = [[context EXCEPT ![previous] = "saved"] EXCEPT ![t] = "live"]
             /\ fault' = IF context[t] = "saved" THEN fault ELSE "panic: no context"
     /\ UNCHANGED <<ready, queue, lock, timers, current, currentCore, lastCore, calls, spawners>>

------------------------------------------------------------------------------
SpawnerStep(s) == (\E t \in Tasks : BeginSchedule(s, t)) \/ ScanCore(s) \/ EndScan(s)
                    \/ PushLock(s) \/ Insert(s) \/ PushUnlock(s)
HandlerStep(c) == SwitchLock(c) \/ Switch(c) \/ Return(c)

Next == \/ BecomeReady
        \/ \E s \in Spawners : SpawnerStep(s)
        \/ \E c \in Cores : ApInitialize(c) \/ CallArrives(c) \/ TimerFires(c) \/ HandlerStep(c)

Spec == Init /\ [][Next]_vars

\* Fairness: threads that are current and handlers keep executing, an interrupt that stays
\* deliverable is delivered, and a lock that becomes free again and again is obtained (its
\* core's switches are 5 ms apart).
Fairness == /\ WF_vars(BecomeReady)
            /\ \A s \in Spawners : WF_vars(SpawnerStep(s)) /\ SF_vars(PushLock(s))
            /\ \A c \in Cores : /\ WF_vars(ApInitialize(c)) /\ WF_vars(HandlerStep(c))
                                /\ WF_vars(CallArrives(c)) /\ WF_vars(TimerFires(c))

FairSpec == Spec /\ Fairness
------------------------------------------------------------------------------
(* Properties                                                              *)

TypeOK == /\ ready \in BOOLEAN
          /\ \A c \in Cores, k \in Classes :
                /\ Threads(queue[c][k]) \subseteq Tasks /\ queue[c][k].load \in Nat
                /\ \A i \in 1..Size(c, k) : queue[c][k].list[i].key \in Int
          /\ lock \in [Cores -> AllThreads \cup {NoThread}]
          /\ timer \in [Cores -> BOOLEAN] /\ event \in [Cores -> BOOLEAN]
          /\ current \in [Cores -> AllThreads \cup {NoThread}]
          /\ currentCore \in [AllThreads -> Cores \cup {NoCore}]
          /\ lastCore \in [AllThreads -> Cores \cup {NoCore}]
          /\ context \in [AllThreads -> {"none", "saved", "live"}]
          /\ calls \in [Cores -> Nat]
          /\ inInterrupt \in [Cores -> BOOLEAN]
          /\ hpc \in [Cores -> {"none", "lock", "switch", "return"}]
          /\ interrupted \in [Cores -> AllThreads \cup {NoThread}]
          /\ pc \in [Spawners -> {"idle", "scan", "push", "insert", "unlock"}]

\* The tasks that have been pushed.
Scheduled == Tasks \ (unborn \cup {task[s] : s \in {r \in Spawners : pc[r] \in {"scan", "push", "insert"}}})

\* Every scheduled thread is in one queue, that of its policy, of one core, once; and a
\* core runs its own threads.
QueuedOnce ==
  /\ TypeOK
  /\ \A t \in Scheduled :
        Cardinality({x \in Cores \X Classes \X (1..Cardinality(Tasks)) :
                       x[3] <= Size(x[1], x[2]) /\ queue[x[1]][x[2]].list[x[3]].thread = t}) = 1
  /\ \A c \in Cores, k \in Classes : \A t \in Threads(queue[c][k]) : Policy[t] = k
  /\ \A c \in Cores : current[c] \in {NoThread, Kernel(c)} \cup UNION {Threads(queue[c][k]) : k \in Classes}

\* Outside the handlers exactly the current threads are in the registers of a core, and
\* current_core and the flag of the interrupt handler say the same; no switch panics, and
\* none enters a null thread.
ContextsKept ==
  /\ fault = "none"
  /\ \A t \in AllThreads : context[t] = "live" =>
        \E c \in Cores : IF hpc[c] = "none" THEN current[c] = t ELSE interrupted[c] = t
  /\ \A c \in Cores : /\ current[c] # NoThread => currentCore[current[c]] = c
                      /\ hpc[c] = "none" /\ current[c] # NoThread => context[current[c]] = "live"
                      /\ inInterrupt[c] <=> hpc[c] # "none"

\* A switch of core c is on its way.
SwitchComes(c) == \/ calls[c] > 0 \/ hpc[c] \in {"lock", "switch"}
                  \/ \E s \in Spawners : pc[s] = "insert" /\ best[s] = c

\* A core that has threads runs one of its best class, unless a switch is on its way; and
\* it will choose again while there are several.
BestRuns ==
  \A c \in Cores : ~SwitchComes(c) /\ UNION {Threads(queue[c][k]) : k \in Classes} # {} =>
     /\ current[c] \in Threads(queue[c][BestClass(c)])
     /\ Size(c, BestClass(c)) > 1 => event[c]

\* The virtual times of a queue differ by at most n turns' worth.
Within(n, list) == \A i, j \in 1..Len(list) : list[i].key - list[j].key <= n * Levels

\* insert puts an element of the middle directly behind the first, so that in a longer
\* queue two threads take turns until one of them gets behind the last.  Still none gets
\* ahead of another by more than one turn for each thread beyond the first two of their
\* queue, so that each runs as often as its priority says.
Proportional == \A c \in Cores, k \in Classes :
                  Within(IF Size(c, k) <= 3 THEN 1 ELSE Size(c, k) - 2, queue[c][k].list)

\* In an ordered list it would be one turn in every queue.
OneTurn == \A c \in Cores, k \in Classes : Within(1, queue[c][k].list)

\* Every thread of the best class of a core runs again and again.
EveryThreadRuns ==
  \A c \in Cores, t \in Tasks :
    []<>(current[c] = t \/ t \notin Threads(queue[c][BestClass(c)]))
==============================================================================
