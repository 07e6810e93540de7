-------------------------------- MODULE Console --------------------------------
(***************************************************************************)
(* The kernel's console (src/kernel/screen): screen::print of several      *)
(* arguments under the console's recursive spinlock, the boot terminal     *)
(* that puts characters on the screen, and the panic (cxx.cpp) that has    *)
(* the other cores stopped by parallel_execute and then prints, too.       *)
(*                                                                         *)
(* put_char, set_color and clear of the terminal are one step each: they   *)
(* run with interrupts off.  An unlock() that does not match is left out:  *)
(* RecursiveSpinlock shows that there is none.  A core prints from one     *)
(* thread: another one that preempts it shares the lock, which knows cores *)
(* only.  The copy of each character that goes to a printer port, and      *)
(* colours written inside a text, which no text of the kernel has, are     *)
(* left out.  parallel_execute is taken in the steps that a panic can meet *)
(* (ParallelExecute has them all).                                         *)
(***************************************************************************)
EXTENDS Integers, Sequences, FiniteSets

LOCAL INSTANCE TLC
LOCAL SeqX == INSTANCE SequencesExt

CONSTANTS Cores, None,
          Bsp,          \* the core that boots
          NSlots,       \* the slots of parallel_execute (8 in the code)
          MaxX, MaxY,   \* _maxx, _maxy
          Tab,          \* 8
          Messages,     \* what the cores print: sequences of arguments, each a sequence of
                        \* "newline", "tab", colours and other characters
          Colours,
          MaxWork       \* bound: prints, calls and panics, of all cores

Slots == 0..(NSlots - 1)

ASSUME ConsoleAssumption == Bsp \in Cores /\ NSlots \in Nat \ {0}

VARIABLES
  inner,         \* the frame <<core, level>> that holds _inner_lock, or None
  count, owner,  \* of the recursive_spinlock
  frames,        \* frames[c]: the programs of core c, the running one last
  back, video,   \* the back buffer and the screen, by row and column
  x, y, colour,  \* of the terminal
  online,        \* the cores whose local APIC is initialized
  vectors,       \* whether the slots have their vectors
  next,          \* _next_slot % NSlots
  held,          \* held[s]: the frame that holds slot.lock, or None
  fptr,          \* fptr[s]: slot.fptr, which stops a core, does some work, or is null
  unfinished,    \* unfinished[s]: slot.unfinished_cores
  pending,       \* pending[c]: the slots whose vector core c has not yet taken
  stopped,       \* the cores that are halted in the handler
  given,         \* history: what the terminal was given, and by which print
  work, panics
lockVars == <<inner, count, owner>>
termVars == <<back, video, x, y, colour, given>>
bootVars == <<online, vectors>>
slotVars == <<next, held, fptr, unfinished, pending>>
others == <<bootVars, slotVars, stopped, work, panics>>
vars == <<lockVars, frames, termVars, others>>

Rows == 0..(MaxY - 1)
Columns == 0..(MaxX - 1)
Blank == <<" ", "none">>
Empty == [r \in Rows |-> [k \in Columns |-> Blank]]

\* ops: what is left to do; print: its number; masked: with interrupts off; slot: of its call.
Thread == [ops |-> <<>>, print |-> 0, panic |-> FALSE, masked |-> FALSE, slot |-> 0]

Init == /\ inner = None /\ count = 0 /\ owner = Bsp
        /\ frames = [c \in Cores |-> <<Thread>>]
        /\ back = Empty /\ video = Empty /\ x = 0 /\ y = 0 /\ colour = "gray"
        /\ online = {} /\ vectors = FALSE
        /\ next = 0 /\ held = [s \in Slots |-> None] /\ fptr = [s \in Slots |-> "null"]
        /\ unfinished = [s \in Slots |-> 0] /\ pending = [c \in Cores |-> {}]
        /\ stopped = {} /\ given = <<>> /\ work = 0 /\ panics = 0

Level(c) == Len(frames[c])
Frame(c) == frames[c][Level(c)]
Runs(c) == c \notin stopped
Op(c) == Head(Frame(c).ops)
Me(c) == <<c, Level(c)>>
Busy(c) == Runs(c) /\ Frame(c).ops # <<>>
Goes(c) == frames' = [frames EXCEPT ![c][Level(c)].ops = Tail(@)]

\* A core with nothing to do; all but the first are there once they have an APIC.
Free(c) == Runs(c) /\ Level(c) = 1 /\ Frame(c).ops = <<>> /\ ~Frame(c).panic
Works(c) == Free(c) /\ c \in online \cup {Bsp} /\ work < MaxWork /\ work' = work + 1

------------------------------------------------------------------------------
(* Boot, as far as panics depend on it                                     *)

LapicInitialize == /\ Free(Bsp) /\ online = {} /\ online' = {Bsp}
                   /\ UNCHANGED <<lockVars, frames, termVars, vectors, slotVars, stopped, work, panics>>
InitializeParallel == /\ Free(Bsp) /\ Bsp \in online /\ ~vectors /\ vectors' = TRUE
                      /\ UNCHANGED <<lockVars, frames, termVars, online, slotVars, stopped, work, panics>>
ApInitialize(c) == /\ vectors /\ c \notin online /\ online' = online \cup {c}
                   /\ UNCHANGED <<lockVars, frames, termVars, vectors, slotVars, stopped, work, panics>>

------------------------------------------------------------------------------
(* screen::print                                                           *)

\* print(first, rest...) locks, prints the first argument under a lock of its own, then the rest.
Guarded(ops) == <<"lock">> \o ops \o <<"unlock">>
Locked(args) == SeqX!FoldRight(LAMBDA arg, rest : IF rest = <<>> THEN Guarded(arg)
                                                  ELSE Guarded(Guarded(arg) \o rest), args, <<>>)

PrintArgs(c) ==
  /\ Works(c)
  /\ \E m \in Messages :
       frames' = [frames EXCEPT ![c][1] = [@ EXCEPT !.ops = Locked(m), !.print = work + 1]]
  /\ UNCHANGED <<lockVars, termVars, bootVars, slotVars, stopped, panics>>

------------------------------------------------------------------------------
(* recursive_spinlock, with interrupts on                                  *)

LockInner(c) == /\ Busy(c) /\ Op(c) \in {"lock", "unlock"} /\ inner = None
                /\ inner' = Me(c)
                /\ UNCHANGED <<count, owner, frames, termVars, others>>

\* Fault: whoever holds the inner lock takes the outer one.
IsMineAlways(c) == TRUE
IsMine(c) == count = 0 \/ owner = c
Lock(c) == /\ Busy(c) /\ Op(c) = "lock" /\ inner = Me(c)
           /\ inner' = None
           /\ IF IsMine(c) THEN owner' = c /\ count' = count + 1 /\ Goes(c)
              ELSE UNCHANGED <<owner, count, frames>>
           /\ UNCHANGED <<termVars, others>>

\* Fault: the last of several nested locks is not counted down.
UnlockNested(c) == IF count = 1 THEN 1 ELSE count - 1
CountDown(c) == count - 1
Unlock(c) == /\ Busy(c) /\ Op(c) = "unlock" /\ inner = Me(c)
             /\ inner' = None /\ count' = CountDown(c) /\ Goes(c)
             /\ UNCHANGED <<owner, termVars, others>>

------------------------------------------------------------------------------
(* boot_terminal                                                           *)

\* Where the cursor goes; no line is wrapped at a tab that jumps over the last column.
After(op) == CASE op = "newline" -> <<0, y + 1>>
               [] op = "tab" -> <<x + Tab - (x % Tab), y>>
               [] OTHER -> <<x + 1, y>>
Wrapped(p) == IF p[1] = MaxX THEN <<0, p[2] + 1>> ELSE p

\* _put_16, _put_32: a character into the back buffer and onto the screen.
Put(screen, op) == IF op \in {"newline", "tab"} THEN screen
                   ELSE [screen EXCEPT ![y][x] = <<op, colour>>]

\* _scroll moves the rows of the back buffer up, clears the last and copies all to the screen.
\* Fault: the last row stays.
ScrolledCopy(screen) == [r \in Rows |-> IF r = MaxY - 1 THEN screen[r] ELSE screen[r + 1]]
Scrolled(screen) == [r \in Rows |-> IF r = MaxY - 1 THEN Empty[r] ELSE screen[r + 1]]

Given(c) == given' = Append(given, [by |-> <<c, Frame(c).print>>, op |-> Op(c)])
PutChar(c) ==
  /\ Busy(c) /\ Op(c) \notin {"lock", "unlock", "clear", "claim", "enter", "leave"} \cup Colours
  /\ LET p == Wrapped(After(Op(c)))
     IN /\ x' = p[1] /\ y' = IF p[2] >= MaxY THEN MaxY - 1 ELSE p[2]
        /\ back' = IF p[2] >= MaxY THEN Scrolled(Put(back, Op(c))) ELSE Put(back, Op(c))
        /\ video' = IF p[2] >= MaxY THEN back' ELSE Put(video, Op(c))
  /\ Given(c) /\ Goes(c)
  /\ UNCHANGED <<lockVars, colour, others>>
SetColor(c) == /\ Busy(c) /\ Op(c) \in Colours
               /\ colour' = Op(c) /\ Given(c) /\ Goes(c)
               /\ UNCHANGED <<lockVars, back, video, x, y, others>>
Clear(c) == /\ Busy(c) /\ Op(c) = "clear"
            /\ back' = Empty /\ video' = Empty /\ x' = 0 /\ y' = 0 /\ Given(c) /\ Goes(c)
            /\ UNCHANGED <<lockVars, colour, others>>

------------------------------------------------------------------------------
(* parallel_execute                                                        *)

\* A thread has the others execute something and waits for them.
Call(c) == /\ Works(c) /\ c \in online /\ vectors
           /\ frames' = [frames EXCEPT ![c][1].ops = <<"claim", "enter", "leave">>]
           /\ UNCHANGED <<lockVars, termVars, bootVars, slotVars, stopped, panics>>

Claim(c) == /\ Busy(c) /\ Op(c) = "claim"
            /\ next' = (next + 1) % NSlots
            /\ frames' = [frames EXCEPT ![c][Level(c)] = [@ EXCEPT !.ops = Tail(@), !.slot = next]]
            /\ UNCHANGED <<lockVars, termVars, bootVars, held, fptr, unfinished, pending, stopped,
                           work, panics>>

\* The slot's lock, its function and the broadcast, which reaches whoever is there and has
\* the vector.
Enter(c) == LET s == Frame(c).slot IN
  /\ Busy(c) /\ Op(c) = "enter" /\ held[s] = None
  /\ held' = [held EXCEPT ![s] = Me(c)]
  /\ fptr' = [fptr EXCEPT ![s] = IF Frame(c).panic THEN "stop" ELSE "work"]
  /\ unfinished' = [unfinished EXCEPT ![s] = IF Frame(c).panic THEN 0 ELSE Cardinality(Cores) - 1]
  /\ pending' = [d \in Cores |-> IF vectors /\ d \in online \ {c} THEN pending[d] \cup {s}
                                 ELSE pending[d]]
  /\ Goes(c)
  /\ UNCHANGED <<lockVars, termVars, bootVars, next, stopped, work, panics>>

\* Before lapic::initialize the broadcast is called through a null pointer and does not come
\* back.  A panic does not wait.
Leave(c) == LET s == Frame(c).slot IN
  /\ Busy(c) /\ Op(c) = "leave" /\ online # {} /\ (~Frame(c).panic => unfinished[s] = 0)
  /\ held' = [held EXCEPT ![s] = None]
  /\ fptr' = IF Frame(c).panic THEN fptr ELSE [fptr EXCEPT ![s] = "null"]
  /\ Goes(c)
  /\ UNCHANGED <<lockVars, termVars, bootVars, next, unfinished, pending, stopped, work, panics>>

------------------------------------------------------------------------------
(* _panic                                                                  *)

\* What is printed in a build without ROSEDEBUG, up to the first word.
PanicOps == Locked(<<<<"clear">>>>) \o Locked(<<<<"red">>, <<"!">>>>)
PanicFrame(masked) == [ops |-> <<"claim", "enter", "leave">> \o PanicOps, print |-> 100 + panics,
                       panic |-> TRUE, masked |-> masked, slot |-> 0]

\* A thread that is doing nothing else calls PANIC, or a handler does, whatever it has interrupted.
Panic(c) ==
  /\ Runs(c) /\ c \in online \cup {Bsp} /\ ~Frame(c).panic
  /\ panics' = panics + 1
  /\ work < MaxWork /\ work' = work + 1
  /\ \/ /\ Frame(c).ops = <<>>
        /\ frames' = [frames EXCEPT ![c] = <<PanicFrame(FALSE)>>]
     \/ frames' = [frames EXCEPT ![c] = Append(@, PanicFrame(TRUE))]
  /\ UNCHANGED <<lockVars, termVars, bootVars, slotVars, stopped>>

\* The handler of a slot's vector executes what the slot then holds.  Who is stopped stays in
\* it, halted with interrupts off, like who has panicked; a null function is an exception, so
\* a panic.
Serve(c) ==
  /\ Runs(c) /\ ~Frame(c).masked /\ ~(Frame(c).panic /\ Frame(c).ops = <<>>)
  /\ \E s \in pending[c] :
       /\ pending' = [pending EXCEPT ![c] = @ \ {s}]
       /\ stopped' = IF fptr[s] = "stop" THEN stopped \cup {c} ELSE stopped
       /\ unfinished' = IF fptr[s] = "work" THEN [unfinished EXCEPT ![s] = @ - 1] ELSE unfinished
       /\ IF fptr[s] = "null"
          THEN panics' = panics + 1 /\ frames' = [frames EXCEPT ![c] = Append(@, PanicFrame(TRUE))]
          ELSE UNCHANGED <<panics, frames>>
  /\ UNCHANGED <<lockVars, termVars, bootVars, next, held, fptr, work>>

Step(c) == Lock(c) \/ Unlock(c) \/ PutChar(c) \/ SetColor(c) \/ Clear(c) \/ Claim(c) \/ Enter(c) \/ Leave(c)
Next == \/ LapicInitialize \/ InitializeParallel
        \/ \E c \in Cores : \/ ApInitialize(c) \/ PrintArgs(c) \/ Call(c) \/ Panic(c) \/ Serve(c)
                            \/ LockInner(c) \/ Step(c)
\* A core goes on, takes an interrupt that is pending, and does not lose the exchange of the
\* inner lock for ever.
Fairness == \A c \in Cores : WF_vars(Step(c)) /\ WF_vars(Serve(c)) /\ SF_vars(LockInner(c))
Spec == Init /\ [][Next]_vars /\ Fairness

------------------------------------------------------------------------------
(* Properties                                                              *)

\* The page that the terminal was given since it was last cleared, on lines without end.
Page == [line |-> 0, col |-> 0, colour |-> "gray", cells |-> <<>>]
Typed(p, g) ==
  LET newline == [p EXCEPT !.line = @ + 1, !.col = 0]
      put == [p EXCEPT !.cells = (<<p.line, p.col>> :> <<g.op, p.colour>>) @@ @, !.col = @ + 1]
      tab == [p EXCEPT !.col = (@ \div Tab + 1) * Tab]
  IN CASE g.op = "clear" -> [Page EXCEPT !.colour = p.colour]
       [] g.op \in Colours -> [p EXCEPT !.colour = g.op]
       [] g.op = "newline" \/ (g.op = "tab" /\ tab.col >= MaxX) -> newline
       [] g.op = "tab" /\ tab.col < MaxX -> tab
       [] OTHER -> IF put.col = MaxX THEN [put EXCEPT !.line = @ + 1, !.col = 0] ELSE put

\* The screen shows the last lines of what was printed, in the colours it was printed in, and
\* the back buffer holds the same: nothing is left of the lines that were scrolled away, and
\* the cursor stays on the screen.
ScreenShows ==
  LET page == SeqX!FoldLeft(Typed, Page, given)
      top == IF page.line < MaxY THEN 0 ELSE page.line - MaxY + 1
  IN /\ x \in Columns /\ y \in Rows /\ y = page.line - top /\ x = page.col
     /\ back = video
     /\ \A r \in Rows, k \in Columns :
          video[r][k] = IF <<top + r, k>> \in DOMAIN page.cells THEN page.cells[<<top + r, k>>]
                        ELSE Blank

\* The text and the colours of one print stand together, although its arguments are printed
\* under locks of their own: of what other cores print nothing gets between them.  The same
\* core may: a panic does, and in the code another of its threads.
PrintsWhole ==
  \A a \in 1..Len(given) : \A d \in (a + 1)..Len(given) :
    given[a].by = given[d].by /\ given[a].op # "clear" => \A b \in a..d : given[b].by[1] = given[a].by[1]

\* A panic is read: its message is printed, unless the lock of the console is held by a core
\* that was stopped within a print, or the inner lock by such a core or by what the panicking
\* handler interrupted; or each core that has panicked is stopped by another, or waits for a
\* slot that is never left, or was before lapic::initialize.
Shown == \E c \in Cores : Frame(c).panic /\ Frame(c).ops = <<>>
Buried(f) == f[1] \in stopped \/ f[2] < Level(f[1])
\* A call that waits for cores that will not execute it.
Unanswered(s) == /\ unfinished[s] # 0
                 /\ \A d \in Cores : s \in pending[d] => d \in stopped \/ Frame(d).masked
NeverLeft(s) == held[s] # None /\ (Buried(held[s]) \/ Unanswered(s))
PanicIsRead ==
  panics > 0 ~> \/ Shown
                \/ count > 0 /\ owner \in stopped /\ Frame(owner).ops # <<>>
                \/ inner # None /\ Buried(inner)
                \/ \A c \in Cores : Frame(c).panic =>
                     \/ c \in stopped \/ online = {}
                     \/ Busy(c) /\ Op(c) = "enter" /\ NeverLeft(Frame(c).slot)

\* spinlock.h:48, a lock gives way to a panic: a panic is read whatever the others were doing.
PanicIsAlwaysRead == panics > 0 ~> Shown
==============================================================================
