---------------------------- MODULE TaskListProofs ----------------------------
(***************************************************************************)
(* alloc_pcb and free_pcb never follow a null pointer, for any number of   *)
(* frames and any order of forks and exits.                                *)
(*                                                                         *)
(* NoNullLink is inductive once the shape of the heap is known: a deletion *)
(* writes null in the node it deletes only, which is no PCB any more, and  *)
(* everything else it writes are the neighbours of a PCB in use.           *)
(***************************************************************************)
EXTENDS TaskList, TLAPS

Heap == [next : [Node -> Node \cup {NULL}], prev : [Node -> Node \cup {NULL}]]

\* The nodes of S have two neighbours each.
Linked(h, S) == \A n \in S : h.next[n] \in Node /\ h.prev[n] \in Node

\* INIT_LIST_HEAD and list_add_tail unlink nobody, and link what they are given.
LEMMA EnlistLinks ==
  ASSUME NEW h \in Heap, NEW S \in SUBSET Node, NEW pcb \in Node,
         ListTasks \in S, Linked(h, S)
  PROVE  Enlist(h, pcb) \in Heap /\ Linked(Enlist(h, pcb), S \cup {pcb})
<1> DEFINE g == InitListHead(h, pcb)
<1>1. g \in Heap /\ Linked(g, S \cup {pcb})
  BY DEF InitListHead, Heap, Linked
<1>2. ListTasks \in Node
  BY TaskListAssumption
<1>3. g.prev[ListTasks] \in Node
  BY <1>1 DEF Linked
<1>4. Enlist(h, pcb) = ListAddTail(g, pcb, ListTasks)
  BY DEF Enlist
<1> HIDE DEF g
<1> QED BY <1>1, <1>2, <1>3, <1>4 DEF ListAddTail, Heap, Linked

\* The child gets two neighbours from its parent.
LEMMA CopyLinksLinks ==
  ASSUME NEW h \in Heap, NEW S \in SUBSET Node, NEW parent \in S, NEW child \in Node,
         Linked(h, S)
  PROVE  CopyLinks(h, parent, child) \in Heap /\ Linked(CopyLinks(h, parent, child), S)
BY DEF CopyLinks, Heap, Linked

\* list_del of a linked node unlinks nobody else.
LEMMA ListDelLinks ==
  ASSUME NEW h \in Heap, NEW S \in SUBSET Node, NEW entry \in S, Linked(h, S)
  PROVE  ListDel(h, entry) \in Heap /\ Linked(ListDel(h, entry), S \ {entry})
<1>1. h.next[entry] \in Node /\ h.prev[entry] \in Node
  BY DEF Linked
<1> QED BY <1>1 DEF ListDel, Heap, Linked

-----------------------------------------------------------------------------
LEMMA TaskListSafeInit == TaskListInit => TaskListTypeOK /\ NoNullLink
<1> SUFFICES ASSUME TaskListInit PROVE TaskListTypeOK /\ NoNullLink
  OBVIOUS
<1> DEFINE nothing == [next |-> [n \in Node |-> NULL], prev |-> [n \in Node |-> NULL]]
           h0 == InitListHead(nothing, ListTasks)
           h1 == Enlist(h0, IdleFrame)
<1>1. h0 \in Heap /\ Linked(h0, {ListTasks})
  BY TaskListAssumption DEF InitListHead, Heap, Linked
<1>2. h1 \in Heap /\ Linked(h1, {ListTasks, IdleFrame})
  <2>1. {ListTasks} \cup {IdleFrame} = {ListTasks, IdleFrame}
    OBVIOUS
  <2> QED BY <1>1, <2>1, EnlistLinks, TaskListAssumption
<1>3. Enlist(h1, InitFrame) \in Heap /\ Linked(Enlist(h1, InitFrame), {ListTasks, IdleFrame, InitFrame})
  <2>1. {ListTasks, IdleFrame} \cup {InitFrame} = {ListTasks, IdleFrame, InitFrame}
    OBVIOUS
  <2> HIDE DEF h1
  <2> QED BY <1>2, <2>1, EnlistLinks, TaskListAssumption
<1>4. list_tasks = Enlist(h1, InitFrame) /\ pcbs = {IdleFrame, InitFrame} /\ pages = {}
  BY DEF TaskListInit
<1> HIDE DEF h1
<1> QED BY <1>3, <1>4, TaskListAssumption
        DEF TaskListTypeOK, NoNullLink, Heap, Linked, Frame

LEMMA TaskListSafeStep ==
  TaskListTypeOK /\ NoNullLink /\ [TaskListNext]_taskVars => (TaskListTypeOK /\ NoNullLink)'
<1> SUFFICES ASSUME TaskListTypeOK, NoNullLink, [TaskListNext]_taskVars
             PROVE  (TaskListTypeOK /\ NoNullLink)'
  OBVIOUS
<1> DEFINE S == pcbs \cup {ListTasks}
<1>1. list_tasks \in Heap /\ S \subseteq Node /\ Linked(list_tasks, S)
  BY TaskListAssumption DEF TaskListTypeOK, NoNullLink, Heap, Linked, Frame
<1>2. SUFFICES /\ list_tasks' \in Heap /\ Linked(list_tasks', pcbs' \cup {ListTasks})
               /\ pcbs' \subseteq Frame /\ pages' \subseteq Frame
  BY DEF TaskListTypeOK, NoNullLink, Heap, Linked
<1>3. ASSUME NEW p \in pcbs \ {IdleFrame}, NEW f \in Free
      PROVE  LET h == CopyLinks(Enlist(list_tasks, f), p, f)
             IN  h \in Heap /\ Linked(h, S \cup {f}) /\ f \in Frame /\ f \notin pcbs
  <2>1. f \in Frame /\ f \in Node /\ f \notin pcbs
    BY DEF Free, Frame
  <2>2. Enlist(list_tasks, f) \in Heap /\ Linked(Enlist(list_tasks, f), S \cup {f})
    BY <1>1, <2>1, EnlistLinks
  <2>3. S \cup {f} \in SUBSET Node /\ p \in S \cup {f}
    BY <1>1, <2>1
  <2> HIDE DEF S
  <2> QED BY <2>1, <2>2, <2>3, CopyLinksLinks
<1>4. CASE \E p \in pcbs \ {IdleFrame}, f \in Free : Fork(p, f)
  <2>1. PICK p \in pcbs \ {IdleFrame}, f \in Free : Fork(p, f)
    BY <1>4
  <2>2. pcbs' \cup {ListTasks} = S \cup {f}
    BY <2>1 DEF Fork
  <2> QED BY <1>3, <2>1, <2>2 DEF Fork, TaskListTypeOK
<1>5. CASE \E p \in pcbs \ {IdleFrame}, f \in Free : ForkFails(p, f)
  <2>1. PICK p \in pcbs \ {IdleFrame}, f \in Free : ForkFails(p, f)
    BY <1>5
  <2> DEFINE h == CopyLinks(Enlist(list_tasks, f), p, f)
  <2>2. h \in Heap /\ Linked(h, S \cup {f}) /\ f \in Frame /\ f \notin pcbs
    BY <1>3
  <2>3. S \cup {f} \in SUBSET Node /\ (S \cup {f}) \ {f} = S
    BY <1>1, <2>2 DEF Frame
  <2>4. list_tasks' = ListDel(h, f) /\ pcbs' = pcbs /\ pages' = pages
    BY <2>1 DEF ForkFails
  <2> HIDE DEF h
  <2>5. ListDel(h, f) \in Heap /\ Linked(ListDel(h, f), S)
    BY <2>2, <2>3, ListDelLinks
  <2> QED BY <2>4, <2>5 DEF TaskListTypeOK
<1>6. CASE \E p \in pcbs \ {IdleFrame} : Exit(p)
  <2>1. PICK p \in pcbs \ {IdleFrame} : Exit(p)
    BY <1>6
  <2>2. p # ListTasks
    BY DEF TaskListTypeOK, Frame
  <2>3. pcbs' \cup {ListTasks} = S \ {p}
    BY <2>1, <2>2 DEF Exit
  <2>4. ListDel(list_tasks, p) \in Heap /\ Linked(ListDel(list_tasks, p), S \ {p})
    BY <1>1, ListDelLinks
  <2> QED BY <2>1, <2>3, <2>4 DEF Exit, TaskListTypeOK
<1>7. CASE \E f \in Free : TakePage(f)
  BY <1>1, <1>7 DEF TakePage, TaskListTypeOK, Free
<1>8. CASE \E f \in pages : GivePage(f)
  BY <1>1, <1>8 DEF GivePage, TaskListTypeOK
<1>9. CASE UNCHANGED taskVars
  BY <1>1, <1>9 DEF taskVars, TaskListTypeOK
<1> QED BY <1>4, <1>5, <1>6, <1>7, <1>8, <1>9 DEF TaskListNext

\* The links, the PCBs and the pages keep their types.
THEOREM TaskListTypeCorrect == TaskListSpec => []TaskListTypeOK
<1> QED BY TaskListSafeInit, TaskListSafeStep, PTL DEF TaskListSpec

\* alloc_pcb and free_pcb never follow a null pointer.
THEOREM TaskListNoNullLink == TaskListSpec => []NoNullLink
<1> QED BY TaskListSafeInit, TaskListSafeStep, PTL DEF TaskListSpec
===============================================================================
