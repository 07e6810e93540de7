--------------------------- MODULE FrequencyQueue ---------------------------
(***************************************************************************)
(* utils::variable_frequency_queue (src/kernel/utils/vfq.h): the queue of  *)
(* the threads of one policy on one core.  It is a priority_list ordered   *)
(* by a virtual time: the first element is the next to run, and each time  *)
(* it does its virtual time advances by Levels - priority.                 *)
(*                                                                         *)
(* The list is the sequence of its elements along the next pointers; the   *)
(* pointers back matter to removals only (PriorityList), and the kernel    *)
(* removes nothing from these queues.  Virtual times are kept relative to  *)
(* that of the first element: only differences are ever looked at.         *)
(***************************************************************************)
EXTENDS Integers, SequencesExt

EmptyQueue == [list |-> <<>>, load |-> 0]

Threads(q) == {q.list[i].thread : i \in 1..Len(q.list)}

\* Fault: a new first element replaces the old one.
PlaceOverFirst(list, x) ==
  CASE list = <<>> -> <<x>>
    [] list # <<>> /\ x.key < list[1].key -> <<x>> \o Tail(list)
    [] list # <<>> /\ x.key >= list[1].key /\ x.key >= Last(list).key -> Append(list, x)
    [] OTHER -> <<list[1], x>> \o Tail(list)

\* priority_list::insert; an element of the middle goes directly behind the first.
Place(list, x) ==
  CASE list = <<>> -> <<x>>
    [] list # <<>> /\ x.key < list[1].key -> <<x>> \o list
    [] list # <<>> /\ x.key >= list[1].key /\ x.key >= Last(list).key -> Append(list, x)
    [] OTHER -> <<list[1], x>> \o Tail(list)

Relative(list) == [i \in 1..Len(list) |-> [list[i] EXCEPT !.key = @ - list[1].key]]

\* push: a new thread starts at the virtual time of the first.
Enqueue(q, thread, priority) ==
  [list |-> Relative(Place(q.list, [thread |-> thread, priority |-> priority, key |-> 0])),
   load |-> q.load + priority]

\* pop asks for the load, not for the size.
CanPop(q) == q.load # 0

Popped(q) == Head(q.list).thread

\* Fault: the priority slows the thread down.
RequeueSlower(q, levels) ==
  LET x == Head(q.list) IN
  [q EXCEPT !.list = Relative(Place(Tail(q.list), [x EXCEPT !.key = @ + levels + x.priority]))]

\* pop: the first element goes back at its next virtual time.
Requeue(q, levels) ==
  LET x == Head(q.list) IN
  [q EXCEPT !.list = Relative(Place(Tail(q.list), [x EXCEPT !.key = @ + levels - x.priority]))]
=============================================================================
