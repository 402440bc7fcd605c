------------------------------- MODULE ListHeap -------------------------------
(***************************************************************************)
(* The intrusive doubly linked lists of zeos/list.c, pointer by pointer.   *)
(* A heap h is a record of two functions, h.next and h.prev, over Node; a  *)
(* node may be the head of a list or the link of an element.  An EXCEPT    *)
(* assigns from left to right, as the C statements do: when nodes          *)
(* coincide, the last assignment stays.                                    *)
(***************************************************************************)
EXTENDS Integers, Sequences, FiniteSets, FiniteSetsExt, Functions

CONSTANTS Node, NULL

ASSUME ListHeapAssumption == NULL \notin Node

\* INIT_LIST_HEAD
InitListHead(h, list) ==
  [next |-> [h.next EXCEPT ![list] = list], prev |-> [h.prev EXCEPT ![list] = list]]

\* A mutant: the backward pointer of the next node is left.
ListDelOneWay(h, entry) ==
  [next |-> [h.next EXCEPT ![h.prev[entry]] = h.next[entry], ![entry] = NULL],
   prev |-> [h.prev EXCEPT ![entry] = NULL]]

\* list_add_tail: __list_add(new, head->prev, head)
ListAddTail(h, new, head) ==
  LET last == h.prev[head]
  IN  [next |-> [h.next EXCEPT ![new] = head, ![last] = new],
       prev |-> [h.prev EXCEPT ![head] = new, ![new] = last]]

\* list_del, which ZeOS lets forget the neighbours.
ListDel(h, entry) ==
  LET p == h.prev[entry]
      n == h.next[entry]
  IN  [next |-> [h.next EXCEPT ![p] = n, ![entry] = NULL],
       prev |-> [h.prev EXCEPT ![n] = p, ![entry] = NULL]]

\* pos->next, for ever NULL after a null pointer.
Follow(h, pos) == IF pos = NULL THEN NULL ELSE h.next[pos]

\* The nodes a list_for_each over head is at, step by step; if it is to meet
\* head it does so within these steps.
Walk(h, head) ==
  LET N == Cardinality(Node) + 1
      path[k \in 1..N] ==
        IF k = 1 THEN <<h.next[head]>>
        ELSE LET before == path[k - 1] IN Append(before, Follow(h, before[k - 1]))
  IN  path[N]

\* Where a list_for_each over head that stops at the nodes of wanted ends: at
\* one of them, at head when there is none, and NULL when it never ends (it
\* goes round without head, or through a null pointer, which traps).
FirstOf(h, head, wanted) ==
  LET pos == Walk(h, head)
      Stops == {k \in DOMAIN pos : pos[k] \in wanted \cup {head}}
  IN  IF Stops = {} THEN NULL ELSE pos[Min(Stops)]

\* The elements a list_for_each over head visits.
Elements(h, head) == Range(Walk(h, head)) \ {head}

\* A list in good order: forward to the head, and backward the same way.
WellFormed(h, head) ==
  /\ FirstOf(h, head, {}) = head
  /\ \A n \in Elements(h, head) \cup {head} : h.prev[h.next[n]] = n
===============================================================================
