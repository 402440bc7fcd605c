------------------------------- MODULE ProcTree -------------------------------
(***************************************************************************)
(* Parents and children: fork, exit, block and unblock of sys.c on top of  *)
(* the scheduler, with the children lists as the pointers they are.        *)
(*                                                                         *)
(* Frames are handed out lowest first, whatever for: a process takes one   *)
(* for its PCB and the same number of others, shmat takes one for a page.  *)
(* exit frees them and clears nothing, so the frame of a dead PCB, whose   *)
(* links are still in its parent's list, may become anything again.        *)
(***************************************************************************)
EXTENDS RoundRobin, ListHeap, SequencesExt

CONSTANTS
  Others,            \* frames of a process besides its PCB: 2 + NUM_PAG_DATA
  NUM_SHARED_PAGES,  \* 10
  MaxPid,            \* bound: pidGlobal only grows
  MaxPending         \* bound on pending_unblocks

ASSUME ProcTreeAssumption ==
  /\ Task \subseteq Nat /\ IsFiniteSet(Task) /\ NULL \notin Task
  /\ Others \in Nat \ {0} /\ NUM_SHARED_PAGES \in Nat
  /\ MaxPid \in Nat \ {0} /\ MaxPending \in Nat

\* Any frame may become a PCB.  (The idle task's is never given back.)
Frame == Task \ {Idle}

\* The three list_heads of a task_struct that children lists are made of.
ChildrenBlocked(p)   == <<"children_blocked", p>>
ChildrenUnblocked(p) == <<"children_unblocked", p>>
Sibiling(p)          == <<"sibiling", p>>

ASSUME NodeAssumption ==
  Node = {"children_blocked", "children_unblocked", "sibiling"} \X Frame

VARIABLES
  live,              \* PCBs in use
  rest,              \* the other frames of each process: directory, table, data
  shared,            \* frames that are shared pages
  lost,              \* directories of forks that failed
  pidGlobal,
  PID, parent, pending_unblocks,  \* fields of the PCBs
  lists,             \* the children lists, as a heap
  blocked,           \* queue of the processes blocked by sys_block
  kernel_stuck,      \* a loop in the kernel never ends, with interrupts off
  once,              \* history: the frames that have been PCBs of processes
  reused             \* history: one of them has been handed out a second time

frameVars == <<rest, shared, lost, once, reused>>
procVars == <<live, pidGlobal, PID, parent, pending_unblocks, lists, blocked, kernel_stuck>>
treeVars == <<rrVars, frameVars, procVars>>

Lowest(S, n) == {f \in S : Cardinality({g \in S : g < f}) < n}

NoLists == [next |-> [n \in Node |-> NULL], prev |-> [n \in Node |-> NULL]]

WithHeads(h, p) == InitListHead(InitListHead(h, ChildrenBlocked(p)), ChildrenUnblocked(p))

TreeInit ==
  /\ RRInit
  /\ live = {InitTask}
  /\ rest = [p \in Frame |-> IF p = InitTask THEN Lowest(Frame \ {InitTask}, Others) ELSE {}]
  /\ shared = {} /\ lost = {}
  /\ pidGlobal = 1
  /\ PID = [p \in Frame |-> IF p = InitTask THEN 1 ELSE 0]
  /\ parent = [p \in Frame |-> NULL]
  /\ pending_unblocks = [p \in Frame |-> 0]
  /\ lists = WithHeads(InitListHead(NoLists, Sibiling(InitTask)), InitTask)
  /\ blocked = << >>
  /\ kernel_stuck = FALSE
  /\ once = {InitTask} /\ reused = FALSE

\* A process runs.  Once the ready queue holds a PCB that was freed, no more
\* system calls are modelled: a stack that is no process's would run them.
InUserMode ==
  /\ cur # Idle
  /\ ~ kernel_stuck
  /\ Queued \cup {cur} \subseteq live \cup {Idle}

-----------------------------------------------------------------------------
(* Frames.                                                                 *)

Free == Frame \ (live \cup shared \cup lost \cup UNION Range(rest))

\* alloc_frame, as alloc_pcb calls it.
AllocPcb == Min(Free)

HandOut(F) == reused' = (reused \/ F \cap once # {})

\* What was in the frames of F is overwritten by something else.  NULL stands
\* for a link that is none any more: a walk that meets it never ends well.
Overwritten(field, F, with) == [p \in Frame |-> IF p \in F THEN with ELSE field[p]]
LinksOverwritten(h, F) ==
  [next |-> [n \in Node |-> IF n[2] \in F THEN NULL ELSE h.next[n]],
   prev |-> [n \in Node |-> IF n[2] \in F THEN NULL ELSE h.prev[n]]]
Overwrite(F) ==
  /\ lists' = LinksOverwritten(lists, F)
  /\ PID' = Overwritten(PID, F, 0)
  /\ parent' = Overwritten(parent, F, NULL)
  /\ pending_unblocks' = Overwritten(pending_unblocks, F, 0)

\* copy_data of a PCB into the frame f: its links too, as they are.
LinksCopied(h, p, f) ==
  [next |-> [n \in Node |-> h.next[IF n[2] = f THEN <<n[1], p>> ELSE n]],
   prev |-> [n \in Node |-> h.prev[IF n[2] = f THEN <<n[1], p>> ELSE n]]]

\* sys_shmat of a page that has no frame yet.
ShmatTakes ==
  /\ InUserMode
  /\ Free # {} /\ Cardinality(shared) < NUM_SHARED_PAGES
  /\ shared' = shared \cup {AllocPcb}
  /\ HandOut({AllocPcb})
  /\ UNCHANGED <<rrVars, rest, lost, once, procVars>>

\* A program stores in a page of shmat's whatever it likes, sooner or later.
PageStored(f) ==
  /\ InUserMode
  /\ f \in shared
  /\ Overwrite({f})
  /\ UNCHANGED <<rrVars, frameVars, live, pidGlobal, blocked, kernel_stuck>>

\* cleanup_shared_page, in sys_shmrm, sys_shmdt or just before an exit: it zeroes
\* the page and frees it.
PageFreed(f) ==
  /\ InUserMode
  /\ f \in shared
  /\ shared' = shared \ {f}
  /\ Overwrite({f})
  /\ UNCHANGED <<rrVars, rest, lost, once, reused, live, pidGlobal, blocked, kernel_stuck>>

-----------------------------------------------------------------------------
(* System calls.                                                           *)

\* clock_routine
ClockInterrupt ==
  /\ ~ kernel_stuck
  /\ Tick
  /\ UNCHANGED <<frameVars, procVars>>

\* A mutant: the child inherits the unblocks its parent has pending.
ForkInheritsPending ==
  LET child == AllocPcb
      more == Lowest(Free \ {child}, Others)
  IN  /\ InUserMode
      /\ Cardinality(Free) > Others /\ pidGlobal < MaxPid
      /\ HandOut({child} \cup more)
      /\ live' = live \cup {child}
      /\ rest' = [rest EXCEPT ![child] = more]
      /\ once' = once \cup {child}
      /\ pidGlobal' = pidGlobal + 1
      /\ PID' = [Overwritten(PID, more, 0) EXCEPT ![child] = pidGlobal + 1]
      /\ parent' = [Overwritten(parent, more, NULL) EXCEPT ![child] = cur]
      /\ pending_unblocks' =
           [Overwritten(pending_unblocks, more, 0) EXCEPT ![child] = pending_unblocks[cur]]
      /\ lists' = ListAddTail(WithHeads(LinksOverwritten(lists, more), child),
                              Sibiling(child), ChildrenUnblocked(cur))
      /\ MakeReady(child)
      /\ UNCHANGED <<shared, lost, blocked, kernel_stuck>>

\* sys_fork.  The links that copy_data copies into the child are overwritten by
\* INIT_LIST_HEAD and list_add_tail before they are read.
Fork ==
  LET child == AllocPcb
      more == Lowest(Free \ {child}, Others)
  IN  /\ InUserMode
      /\ Cardinality(Free) > Others /\ pidGlobal < MaxPid
      /\ HandOut({child} \cup more)
      /\ live' = live \cup {child}
      /\ rest' = [rest EXCEPT ![child] = more]
      /\ once' = once \cup {child}
      /\ pidGlobal' = pidGlobal + 1
      /\ PID' = [Overwritten(PID, more, 0) EXCEPT ![child] = pidGlobal + 1]
      /\ parent' = [Overwritten(parent, more, NULL) EXCEPT ![child] = cur]
      /\ pending_unblocks' = [Overwritten(pending_unblocks, more, 0) EXCEPT ![child] = 0]
      /\ lists' = ListAddTail(WithHeads(LinksOverwritten(lists, more), child),
                              Sibiling(child), ChildrenUnblocked(cur))
      /\ MakeReady(child)
      /\ UNCHANGED <<shared, lost, blocked, kernel_stuck>>

\* sys_fork when frames run out.  It takes all there are: one now holds a copy of
\* the caller's PCB, the directory and the table (if any) are cleared, the rest
\* is as it was.  All but the directory are free again.
ForkFails ==
  LET child == AllocPcb
      cleared == Lowest(Free \ {child}, 2)
  IN  /\ InUserMode
      /\ Free # {} /\ Cardinality(Free) <= Others
      /\ HandOut(Free)
      /\ lost' = lost \cup Lowest(Free \ {child}, 1)
      /\ PID' = [Overwritten(PID, cleared, 0) EXCEPT ![child] = PID[cur]]
      /\ parent' = [Overwritten(parent, cleared, NULL) EXCEPT ![child] = parent[cur]]
      /\ pending_unblocks' =
           [Overwritten(pending_unblocks, cleared, 0) EXCEPT ![child] = pending_unblocks[cur]]
      /\ lists' = LinksCopied(LinksOverwritten(lists, cleared), cur, child)
      /\ UNCHANGED <<rrVars, live, rest, shared, once, pidGlobal, blocked, kernel_stuck>>

\* sys_exit leaves the children lists and the parent pointers alone.
Exit ==
  /\ InUserMode
  /\ live' = live \ {cur}
  /\ rest' = [rest EXCEPT ![cur] = {}]
  /\ SchedNext(readyqueue)
  /\ UNCHANGED <<shared, lost, once, reused>>
  /\ UNCHANGED <<pidGlobal, PID, parent, pending_unblocks, lists, blocked, kernel_stuck>>

\* A mutant: whether an unblock is pending is not looked at.
BlockNotAlways ==
  /\ InUserMode
  /\ pending_unblocks' = [pending_unblocks EXCEPT ![cur] = @ - 1]
  /\ UNCHANGED <<rrVars, frameVars, live, pidGlobal, PID, parent, lists, blocked, kernel_stuck>>

\* sys_block with an unblock pending.
BlockNot ==
  /\ InUserMode
  /\ pending_unblocks[cur] > 0
  /\ pending_unblocks' = [pending_unblocks EXCEPT ![cur] = @ - 1]
  /\ UNCHANGED <<rrVars, frameVars, live, pidGlobal, PID, parent, lists, blocked, kernel_stuck>>

MoveTo(h, entry, head) == ListAddTail(ListDel(h, entry), entry, head)

\* A mutant: the process stays in the ready queue.
BlockStaysReady ==
  /\ InUserMode
  /\ pending_unblocks[cur] = 0
  /\ lists' = IF parent[cur] = NULL THEN lists
              ELSE MoveTo(lists, Sibiling(cur), ChildrenBlocked(parent[cur]))
  /\ blocked' = Append(blocked, cur)
  /\ SchedNext(Append(readyqueue, cur))
  /\ UNCHANGED <<frameVars, live, pidGlobal, PID, parent, pending_unblocks, kernel_stuck>>

\* sys_block without.  The init task has no parent: nobody will unblock it.
Block ==
  /\ InUserMode
  /\ pending_unblocks[cur] = 0
  /\ lists' = IF parent[cur] = NULL THEN lists
              ELSE MoveTo(lists, Sibiling(cur), ChildrenBlocked(parent[cur]))
  /\ blocked' = Append(blocked, cur)
  /\ SchedNext(readyqueue)
  /\ UNCHANGED <<frameVars, live, pidGlobal, PID, parent, pending_unblocks, kernel_stuck>>

\* The two loops of sys_unblock: where the search for pid ends.
Named(pid) == {Sibiling(c) : c \in {c \in Frame : PID[c] = pid}}
SearchBlocked(pid)   == FirstOf(lists, ChildrenBlocked(cur), Named(pid))
SearchUnblocked(pid) == FirstOf(lists, ChildrenUnblocked(cur), Named(pid))
NotBlocked(pid) == SearchBlocked(pid) = ChildrenBlocked(cur)

\* update_process_state_rr(t, &readyqueue): out of the queue t is in, if any.
MoveToReady(t) ==
  /\ readyqueue' = Append(RemoveFirst(readyqueue, t), t)
  /\ blocked' = RemoveFirst(blocked, t)
  /\ UNCHANGED <<cur, remaining_quantum>>

\* sys_unblock of a child found among the blocked ones.
UnblockWakes(pid) ==
  /\ InUserMode
  /\ SearchBlocked(pid) \in Named(pid)
  /\ lists' = MoveTo(lists, SearchBlocked(pid), ChildrenUnblocked(cur))
  /\ MoveToReady(SearchBlocked(pid)[2])
  /\ UNCHANGED <<frameVars, live, pidGlobal, PID, parent, pending_unblocks, kernel_stuck>>

\* sys_unblock of a child found among the others.
UnblockCounts(pid) ==
  /\ InUserMode
  /\ NotBlocked(pid)
  /\ SearchUnblocked(pid) \in Named(pid)
  /\ pending_unblocks[SearchUnblocked(pid)[2]] < MaxPending
  /\ pending_unblocks' = [pending_unblocks EXCEPT ![SearchUnblocked(pid)[2]] = @ + 1]
  /\ UNCHANGED <<rrVars, frameVars, live, pidGlobal, PID, parent, lists, blocked, kernel_stuck>>

\* sys_unblock whose search never ends.  (One that ends at both heads returns
\* -1 and changes nothing.)
UnblockLoops(pid) ==
  /\ InUserMode
  /\ SearchBlocked(pid) = NULL \/ (NotBlocked(pid) /\ SearchUnblocked(pid) = NULL)
  /\ kernel_stuck' = TRUE
  /\ UNCHANGED <<rrVars, frameVars, live, pidGlobal, PID, parent, pending_unblocks, lists, blocked>>

TreeNext ==
  \/ ClockInterrupt
  \/ Fork
  \/ ForkFails
  \/ ShmatTakes
  \/ \E f \in shared : PageStored(f) \/ PageFreed(f)
  \/ Exit
  \/ BlockNot
  \/ Block
  \/ \E pid \in 1..MaxPid : UnblockWakes(pid) \/ UnblockCounts(pid) \/ UnblockLoops(pid)

TreeSpec == TreeInit /\ [][TreeNext]_treeVars

-----------------------------------------------------------------------------
(* Properties.                                                             *)

TreeTypeOK ==
  /\ RRTypeOK
  /\ live \subseteq Frame
  /\ rest \in [Frame -> SUBSET Frame]
  /\ shared \subseteq Frame /\ lost \subseteq Frame
  /\ pidGlobal \in 1..MaxPid
  /\ PID \in [Frame -> 0..MaxPid]
  /\ parent \in [Frame -> Frame \cup {NULL}]
  /\ pending_unblocks \in [Frame -> 0..MaxPending]
  /\ lists \in [next : [Node -> Node \cup {NULL}], prev : [Node -> Node \cup {NULL}]]
  /\ blocked \in Seq(Frame)
  /\ kernel_stuck \in BOOLEAN
  /\ once \subseteq Frame /\ reused \in BOOLEAN

\* sys_exit leaves the PCB in its parent's list, and its children's parent
\* pointers at it.  The properties below show that this does no harm as long as
\* no frame that has been a PCB is handed out again, be it as a PCB, as another
\* frame of a process or as a page.

\* Every process is in exactly one of: the CPU, the ready queue, blocked.
ProcessesPlaced ==
  \/ reused
  \/ /\ OnePlace
     /\ IsInjective(blocked)
     /\ Range(blocked) \cap (Queued \cup {cur}) = {}
     /\ live \cup {Idle} = Queued \cup {cur, Idle} \cup Range(blocked)

Children(p) == {c \in once : parent[c] = p}

\* The pointers tell the truth: both lists of every process, dead ones included,
\* are closed rings, and hold exactly its children that are in blocked, and its
\* other ones.
ChildrenListsAgree ==
  \/ reused
  \/ \A p \in once :
       /\ WellFormed(lists, ChildrenBlocked(p))
       /\ WellFormed(lists, ChildrenUnblocked(p))
       /\ Elements(lists, ChildrenBlocked(p))
            = {Sibiling(c) : c \in Children(p) \cap Range(blocked)}
       /\ Elements(lists, ChildrenUnblocked(p))
            = {Sibiling(c) : c \in Children(p) \ Range(blocked)}

\* A field, of the frames that have been PCBs.
Field(field, none) == [p \in Frame |-> IF p \in once THEN field[p] ELSE none]

Semaphores == INSTANCE BlockUnblock
  WITH Proc <- Frame, Root <- InitTask, NoParent <- NULL, alive <- live,
       parent <- Field(parent, NULL), credit <- Field(pending_unblocks, 0),
       waiting <- Range(blocked)

\* block and unblock are the operations of a semaphore: no unblock is lost,
\* whether it comes before the block or after, none wakes anybody else, and the
\* search for the child ends.
ImplementsBlockUnblock ==
  /\ Semaphores!BUInit
  /\ [][reused' \/ (Semaphores!BUNext /\ ~ kernel_stuck')]_<<Semaphores!buVars, kernel_stuck>>

\* For the scheduler all this is its most general client.
ClientOfScheduler == RRInit /\ [][reused' \/ RRNext]_rrVars

\* What the specification of unblock says: it returns, with 0 or with -1.
UnblockReturns == ~ kernel_stuck
===============================================================================
