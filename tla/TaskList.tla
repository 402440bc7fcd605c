------------------------------- MODULE TaskList -------------------------------
(***************************************************************************)
(* list_tasks, the list of all processes, as the pointers it is made of.   *)
(* alloc_pcb adds a PCB to it; the next thing fork does is to copy the     *)
(* parent's task_union over the child's, the links of the parent included, *)
(* so the list is never in order after the first fork and free_pcb removes *)
(* a PCB with the links of another.                                        *)
(*                                                                         *)
(* A node is the frame of a PCB, or list_tasks itself.  The frames here    *)
(* are those that serve as PCBs, now or at some other time: a frame that   *)
(* is given back may be taken for a page, and the other way round.         *)
(***************************************************************************)
EXTENDS ListHeap

CONSTANTS
  ListTasks,   \* &list_tasks
  IdleFrame, InitFrame

ASSUME TaskListAssumption ==
  /\ ListTasks \in Node
  /\ IdleFrame \in Node \ {ListTasks}
  /\ InitFrame \in Node \ {ListTasks, IdleFrame}

Frame == Node \ {ListTasks}

VARIABLES
  list_tasks,  \* the task_list links, as a heap
  pcbs,        \* frames in use as PCBs
  pages        \* frames in use for anything else: data, tables, shared pages

taskVars == <<list_tasks, pcbs, pages>>

Free == Frame \ (pcbs \cup pages)

\* alloc_pcb, once it has the frame.
Enlist(h, pcb) == ListAddTail(InitListHead(h, pcb), pcb, ListTasks)

\* copy_data(current(), child, sizeof(union task_union))
CopyLinks(h, parent, child) ==
  [next |-> [h.next EXCEPT ![child] = h.next[parent]],
   prev |-> [h.prev EXCEPT ![child] = h.prev[parent]]]

\* init_sched, then init_idle and init_task1.
TaskListInit ==
  LET nothing == [next |-> [n \in Node |-> NULL], prev |-> [n \in Node |-> NULL]]
  IN  /\ list_tasks = Enlist(Enlist(InitListHead(nothing, ListTasks), IdleFrame), InitFrame)
      /\ pcbs = {IdleFrame, InitFrame}
      /\ pages = {}

\* sys_fork; which frame alloc_frame finds depends on all the others.
Fork(p, child) ==
  /\ list_tasks' = CopyLinks(Enlist(list_tasks, child), p, child)
  /\ pcbs' = pcbs \cup {child}
  /\ UNCHANGED pages

\* A mutant: free_pcb(current()).
ForkFailsFreesParent(p, child) ==
  /\ list_tasks' = ListDel(CopyLinks(Enlist(list_tasks, child), p, child), p)
  /\ UNCHANGED <<pcbs, pages>>

\* sys_fork that has a PCB and no frames for the rest: free_pcb(child).
ForkFails(p, child) ==
  /\ list_tasks' = ListDel(CopyLinks(Enlist(list_tasks, child), p, child), child)
  /\ UNCHANGED <<pcbs, pages>>

\* sys_exit: free_pcb(current()).
Exit(p) ==
  /\ list_tasks' = ListDel(list_tasks, p)
  /\ pcbs' = pcbs \ {p}
  /\ UNCHANGED pages

\* A frame is taken for something else, or given back.  (What is written in it
\* meanwhile does not matter: no link of it is read before alloc_pcb has set it.)
TakePage(f) ==
  /\ pages' = pages \cup {f}
  /\ UNCHANGED <<list_tasks, pcbs>>
GivePage(f) ==
  /\ pages' = pages \ {f}
  /\ UNCHANGED <<list_tasks, pcbs>>

TaskListNext ==
  \/ \E p \in pcbs \ {IdleFrame}, f \in Free : Fork(p, f) \/ ForkFails(p, f)
  \/ \E p \in pcbs \ {IdleFrame} : Exit(p)
  \/ \E f \in Free : TakePage(f)
  \/ \E f \in pages : GivePage(f)

TaskListSpec == TaskListInit /\ [][TaskListNext]_taskVars

-----------------------------------------------------------------------------
(* Properties.                                                             *)

TaskListTypeOK ==
  /\ list_tasks \in [next : [Node -> Node \cup {NULL}], prev : [Node -> Node \cup {NULL}]]
  /\ pcbs \subseteq Frame
  /\ pages \subseteq Frame

\* Neither alloc_pcb nor free_pcb ever follows a null pointer: a PCB in use and
\* the head always have two neighbours, dead or alive, whatever was forked and
\* has exited in whatever order.  (A write through a null pointer is a page
\* fault, and pagefault_routine never returns.)
NoNullLink ==
  \A n \in pcbs \cup {ListTasks} : list_tasks.next[n] \in Node /\ list_tasks.prev[n] \in Node

\* What list.h and alloc_frame take for granted: the kernel links and unlinks
\* PCBs, and writes in no frame that is a page of somebody.
PagesUntouched ==
  [][\A f \in pages \cap pages' :
       /\ list_tasks'.next[f] = list_tasks.next[f]
       /\ list_tasks'.prev[f] = list_tasks.prev[f]]_taskVars
===============================================================================
