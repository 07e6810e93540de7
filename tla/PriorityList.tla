---------------------------- MODULE PriorityList ----------------------------
(***************************************************************************)
(* utils::priority_list (src/kernel/utils/priority_list.h): a doubly       *)
(* linked list kept in the order of its elements' keys, with nodes from    *)
(* an allocator of its own.  Every operation runs inside INTL and the      *)
(* list's lock, so it is a function of the list.                           *)
(*                                                                         *)
(* A list is a record: _first, _last and _size; for every node the links   *)
(* and the element; the free nodes in the allocator's order; and whether   *)
(* an operation has followed a null pointer.  An element is a record with  *)
(* the fields id and key.                                                  *)
(***************************************************************************)
EXTENDS Integers, Sequences

Null == 0      \* nullptr

EmptyList(n, blank) ==
  [first |-> Null, last |-> Null, size |-> 0,
   next |-> [a \in 0..n |-> Null], prev |-> [a \in 0..n |-> Null],
   item |-> [a \in 0..n |-> blank], free |-> [i \in 1..n |-> i], null |-> FALSE]

TopItem(l) == l.item[l.first]

\* utils::allocator: allocate takes the first free node, free puts the node behind it.
AllocateNode(l, x) == LET n == Head(l.free) IN
  [l EXCEPT !.free = Tail(@), !.item[n] = x, !.next[n] = Null, !.prev[n] = Null]
FreeNode(l, n) == [l EXCEPT !.free = <<Head(@), n>> \o Tail(@),
                            !.item[n] = l.item[Null], !.next[n] = Null, !.prev[n] = Null]

\* insert: a new first element does not become the old one's prev; an element of the
\* middle goes behind the first, where the search for its place stops at once (n is not
\* before it).
Insert(l, x) ==
  LET n == Head(l.free)
      a == [AllocateNode(l, x) EXCEPT !.size = @ + 1]
      second == l.next[l.first]
  IN CASE l.first = Null -> [a EXCEPT !.first = n, !.last = n]
       [] l.first # Null /\ x.key < TopItem(l).key ->
            [a EXCEPT !.next[n] = l.first, !.first = n]
       [] l.first # Null /\ x.key >= TopItem(l).key /\ x.key >= l.item[l.last].key ->
            [a EXCEPT !.next[l.last] = n, !.prev[n] = l.last, !.last = n, !.null = @ \/ l.last = Null]
       [] OTHER -> [a EXCEPT !.prev[n] = l.first, !.next[n] = second, !.prev[second] = n,
                             !.next[l.first] = n, !.null = @ \/ l.last = Null \/ second = Null]

\* while (current && !c(*current)) current = current->next;  from the first node.
\* The elements c accepts are given by their ids.
Search(l, ids) ==
  LET walk[a \in DOMAIN l.item] == IF a = Null \/ l.item[a].id \in ids THEN a ELSE walk[l.next[a]]
  IN walk[l.first]

\* remove: the list without the first element among ids, that element, and whether
\* there is one.  A search that fails has decremented the size.
Remove(l, ids) ==
  LET a == Search(l, ids)
      p == l.prev[a]
      n == l.next[a]
      forth == IF p # Null THEN [l EXCEPT !.next[p] = n] ELSE [l EXCEPT !.first = n]
      back == IF n # Null THEN [forth EXCEPT !.prev[n] = p] ELSE [forth EXCEPT !.last = p]
  IN CASE l.size = 0 -> [list |-> l, item |-> l.item[Null], success |-> FALSE]
       [] l.size > 0 /\ a = Null ->
            [list |-> [l EXCEPT !.size = @ - 1], item |-> l.item[Null], success |-> FALSE]
       [] OTHER -> [list |-> FreeNode([back EXCEPT !.size = @ - 1], a),
                    item |-> l.item[a], success |-> TRUE]

\* pop: the list without its first element, of a list with _size # 0
Pop(l) ==
  LET a == l.first
      n == l.next[a]
      shorter == [l EXCEPT !.size = @ - 1, !.first = n, !.prev[n] = Null,
                           !.last = IF l.size = 1 THEN Null ELSE @,
                           !.null = @ \/ a = Null \/ (l.size > 1 /\ n = Null)]
  IN [list |-> FreeNode(shorter, a), item |-> l.item[a]]

\* The elements, from the first along the next pointers.
Elements(l) ==
  LET walk[a \in DOMAIN l.item] == IF a = Null THEN <<>> ELSE <<l.item[a]>> \o walk[l.next[a]]
  IN walk[l.first]
=============================================================================
