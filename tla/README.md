# A TLA+ model of ZeOS

ZeOS (`src/zeos/`) is a small teaching kernel for a single x86 CPU: processes
created with `fork`, a round-robin scheduler driven by the timer, blocking
keyboard input, `block`/`unblock` between parent and child, and pages of shared
memory. This directory holds the models of its core, the TLC configurations that
check them and the theorems TLAPS proves about them.

## The system

| component | code | state | operations |
|---|---|---|---|
| Scheduler | `sched.c`, `interrupt.c` | `readyqueue`, `remaining_quantum`, the current stack (`current()`) | `clock_routine` -> `schedule`, `sched_next_rr`, `update_process_state_rr` |
| Keyboard buffer | `devices.c` | `kbd_buf`, `kbd_head`, `kbd_tail`, `kbd_count` | `kbd_buf_write` (keyboard interrupt), `kbd_buf_read`, `kbd_buf_flush` |
| Blocking read | `sys.c`, `devices.c` | `kbd_blocked`, `kbd_chars_needed` | `sys_read`, the second half of `kbd_buf_write` |
| Frames | `mm.c` | `phys_mem` | `alloc_frame`, `free_frame`, as `sys_fork`, `sys_exit` and shared memory use them |
| Shared pages | `sys.c`, `mm.c` | `shared_frames`, `shared_refs`, `shared_marked_rm`, the user page tables | `sys_shmat`, `sys_shmdt`, `sys_shmrm`, inheritance by `sys_fork`, release by `sys_exit` |
| Process tree | `sys.c` | `parent`, `sibiling`, `children_blocked`, `children_unblocked`, `pending_unblocks`, `blocked`, `pidGlobal` | `sys_fork`, `sys_exit`, `sys_block`, `sys_unblock` |
| List of all processes | `sched.c`, `sys.c` | `list_tasks` and the `task_list` links | `alloc_pcb`, `copy_data` in `sys_fork`, `free_pcb` |
| Linked lists | `list.c`, `include/list.h` | the links inside the PCBs | `INIT_LIST_HEAD`, `list_add_tail`, `list_del`, `list_for_each` |
| Kernel stacks | `entry.S`, `extras.S`, `sched.c` | a stack per process, `kernel_esp` | handlers, `task_switch`, `cambio_pila`, the forged stacks of the idle task and of a child |
| Address spaces | `mm.c`, `sched.c`, `sys.c` | directories, page tables, CR3, TLB | `allocate_DIR`, `set_ss_pag`, `del_ss_pag`, `set_cr3`, the copy of the data pages |
| System call entry | `Wrappers.S`, `entry.S`, `sys_call_table.S` | user stack, `errno` | one wrapper per call, the dispatch |
| Console | `io.c`, `devices.c`, `sys.c` | cursor, colour, video memory, `buffer_sys` | `printc`, `printc_xy`, `sys_gotoxy`, `sys_set_color`, `sys_write`, `sys_write_console` |
| User pointers | `utils.c` | none | `access_ok`, `copy_from_user`, `copy_to_user` |
| Boot, hardware access, `zeos_show_clock`, user programs | `bootsect.S`, `system.c`, `build.c`, `hardware.S`, `libzeos.a`, `user.c` | none of interest | run once, or one instruction each, or outside the kernel |

How they interact. The kernel is not preemptive: every gate in the IDT is an
interrupt gate (`interrupt.c:75-77`) and `sysenter` clears the interrupt flag, so
a handler runs from entry to exit without another one in between. There are two
exceptions to "a handler is one step", and they are where the interleavings come
from: `task_switch` in the middle of `sys_read`, `sys_block` or `schedule`
suspends the handler until its process is scheduled again, and `cpu_idle` waits
inside the kernel with interrupts on. Interrupts (clock, keyboard) come between
any two instructions of user mode. Every component moves processes with the one
`list` node of the PCB, so all of them meet in the ready queue.

What is hard, and what makes each part right:

* *Scheduler*: four handlers insert in one queue. Right if nobody is queued
  twice, overtaken, or starved, and turns are neither cut nor stretched.
* *Keyboard buffer*: two positions and a counter, updated separately. Right if it
  is a bounded FIFO.
* *Blocking read*: the interrupt that wakes a reader looks at one reader, once per
  key, and not at all when the buffer is full; the reader acts on what the
  interrupt saw long before. Right if no wake-up is lost, readers are served in
  order and a woken reader returns.
* *Frames and shared pages*: references are counted in four system calls, pages
  marked for removal live on, forks fail half way. Right if the counts are exact,
  no frame has two owners, none is lost.
* *Kernel stacks and system call entry*: a handler is suspended in the middle of
  its C frames and gone on with after any number of other handlers; the stacks
  of a child and of the idle task are forged to look suspended. Right if nobody
  can tell: each process goes on where it was, with its registers, and gets the
  results of its own calls.
* *Process tree*: a child is moved between two lists by itself and by its parent;
  the frame of a dead PCB, still linked, may become anything at once. Right if the lists tell the truth, and `unblock` and
  `block` are the operations of a semaphore.
* *Address spaces*: six handlers fill tables that the CPU reads through a TLB it
  need not look behind; a page of the kernel is borrowed to write in a frame that
  is not mapped; one kernel table serves every directory. Right if programs see
  memory of their own, copied by fork, shared where they asked for it and nowhere
  else, and the kernel finds its structures whoever runs.
* *Console and user pointers*: a text of any length through a buffer of 256, a
  cursor that the clock borrows, unsigned sums that wrap. Right if the screen
  shows the text once and in order, nothing is written beside the video memory,
  and no address that a program makes up leads the kernel into its own pages.
* *List of all processes*: links copied by accident. Right if the list holds the
  processes and no operation writes elsewhere.

`PROJECT.json` lists each hazard at its line with the properties that cover it.

## The modules

| module | models | notes |
|---|---|---|
| `RoundRobin` | the scheduler | the operators of `sched.c` (`SchedNext`, `Schedule`, `MakeReady`), and the most general client: the running task may leave at any time, any task that is nowhere may arrive |
| `Keyboard` | the circular buffer | `KbdFifo` is its abstract specification |
| `KbdRead` | `RoundRobin` + `Keyboard` + `sys_read`, fork, exit | `ReadBlock` is `sys_read` up to the context switch, `ReadFinish` the rest |
| `Memory` | frames and shared pages | a process is the frame of its PCB, a page table the frames it maps |
| `ListHeap` | `list.c`, pointer by pointer | a library of operators |
| `ProcTree` | `RoundRobin` + children lists + `sys_block`, `sys_unblock` | `BlockUnblock` is its abstract specification |
| `KernelStack` | `RoundRobin` + wrappers, handlers, context switch | what one assignment to `cur` in the other modules is made of |
| `TaskList` | `list_tasks` | `alloc_pcb`, the copy of the task_union, `free_pcb` |
| `AddressSpace` | `Memory` + directories, page tables, CR3, TLB, contents of pages | `PrivateMemory` is its abstract specification |
| `UserPointers` | `access_ok` and the checks around it | operators only; `Console` uses them |
| `Console` | `UserPointers` + cursor, `sys_write`, the copy of `sys_read` | `Terminal` is its abstract specification |
| `RoundRobinProofs`, `KbdReadProofs`, `TaskListProofs`, `ProcTreeProofs`, `ConsoleProofs`, `MemoryProofs`, `AddressSpaceProofs`, `KernelStackProofs` | the theorems | |
| `MC*` | model-checking instances | `RoundRobin` is checked inside `KernelStack`, `Keyboard` inside `KbdRead`, `Memory` inside `AddressSpace` and by itself in `MCMemory` |

Correspondence. `cur` is `current()`, the task whose kernel stack is in use.
`readyqueue`, `kbd_blocked` and `blocked` are sequences: `list_add_tail` is
`Append`, `list_first` with `list_del` is `Head` and `Tail`. That this is sound
(no node in two of them) is itself checked: `OnePlace`, `PlacedOnce`,
`ProcessesPlaced`. Where the code's pointers are *not* in order (the children
lists after a reuse, `list_tasks` always) the lists are modelled pointer by
pointer with `ListHeap`. A handler is one action; its name is that of the system
call or interrupt. Calls with invalid arguments that return an error before they
change anything are not actions.

The copy of a key to the user's buffer is `buffer_sys`, the kernel's own buffer:
the copy to user space that follows is inside the same action. `sys_fork` copies
the PCB, so `kbd_chars_needed` is inherited. `remaining_quantum` is 0 when the
init process starts, because nothing sets it before the first tick.

In `ProcTree` frames are numbers and `alloc_frame` takes the lowest free one,
whoever asks: `sys_fork` for a PCB and for `Others` more (directory, table, data),
`sys_shmat` for a page. Nothing is cleared when a process exits, so the PCB that is
still in its parent's list may become another PCB, a table or data of another
process, or a page in which a program stores (`PageStored`). What is written over
a PCB is modelled by null links: a walk that meets one never ends well. Frames are
overwritten where the code does it: the page tables that fork clears, data pages it
copies, pages that are stored in or zeroed, and the copy of the PCB that a failing
fork leaves in a frame that is free again. Which pages exist is kept, not who
has attached them (`Memory` does that); what `list_tasks` writes in them is left to
`TaskList`. `once` and `reused` are history: the frames that have been PCBs, and
whether one of them has been handed out again, for any use. Two things can then
happen that the kernel does not survive, and the model stops there: a loop that
never ends (`kernel_stuck`, interrupts are off), and a freed PCB in the ready
queue (from then on no system call is modelled; see `InUserMode`).

In `Memory` a data page needs no contents; the kernel's page table is reduced to
the one entry that the temporary mapping shares with a frame (`temp_present`).
In `KernelStack` a stack is the sequence of the words pushed on it, and every
`ret`, `iret` and `sysexit` goes where the word on top says (`Target`), whatever
the model's author expects. `cur` is there the task that the scheduler has chosen
and `page`, the page the stack pointer is in, is `current()`; that they agree
whenever somebody executes (`ChosenTaskExecutes`) is what allows the other
modules to treat a switch as one assignment. A C function's frame is ebp and the
registers gcc saves; the C functions between a handler and `task_switch` share
one. `caller` and `interrupted` are history variables: the properties compare
with them. Calls that neither switch nor wake anybody are one (`SysOther`), and so
are `sys_block` and `sys_read`, whose data are in the other modules; errors keep
their sign only.

In `AddressSpace` frames have three faces: `Memory`'s accounts, `table` (a frame
read as a directory or page table) and `contents` (a frame read as a page). A page
is one value. `tlb` is the set of translations that the TLB *may* hold: it grows by
whatever a walk could find at any time and shrinks to that when CR3 is written; an
access uses any member, so a missing flush shows as a write in the wrong frame.
The copy of the data pages in fork is one step per page (`CopyPage`); interrupts
are off, so nothing comes between. What a freed frame held is `Garbage` to its
next owner, the zeros of `cleanup_shared_page` included; the zeroing itself writes
wherever the temporary mapping leads (`Zeroed`). The page of the temporary mapping
is a frame's own page too, as page 512 is in the code: the kernel's table has one
entry for both, and `CopyPage` and `UnmapTemp` remove it. A call that needs a
structure which is not mapped then (`FindsTables`, `FindsChild`) is a page fault of
the kernel, whose handler never returns: `halted`. A program stores where the
entries let it, in code pages too: the init process has them read-only, a forked
child does not. The process list is left to
`TaskList`: what its stray links write in pages is a finding there, and is not
repeated in `contents`.

`Console` cuts `sys_write` at every part and every character, although nothing can
come in between, because the refinement of `Terminal` is about each character.
The variable names are the code's. `zeos_show_clock` writes a cell with
`printc_xy`; the library is binary, so which cell and how many is an assumption
(one, at the right of the first row, any character but a newline). The block of a
call is kept (`block`) for the step between its check and its copy, so that
properties can speak of it. `BlocksAvoidKernel` is what `access_ok` does keep: no
byte of the kernel's own memory is read or written for a program. It does not keep
`read` out of the code, as `utils.c:76` would have it: the `<=` of `utils.c:78` lets a
block end in the first code page, and without a `break` a block that is not in the
data is looked at again as if to be read, and accepted anywhere in the code. Nor does
it keep the kernel from page faults: `<=` again takes in the page behind the code,
and no page table is looked at. The model accepts what the code accepts.

In `TaskList` frames that are not PCBs are only "taken" and "given back", in any
order: more than the code can do, which is sound for what is proved, and the
counterexample to `PagesUntouched` takes the lowest free frame.

## The runs

Passing runs (all bounds are in the `.cfg`):

| run | instance | shows |
|---|---|---|
| `read` | idle and 3 processes, 3 slots, reads of 1..4, quantum 1 | one place, no lost wake-up, readers in order, client of the scheduler, woken readers return; the buffer is a bounded FIFO that delivers only keys, with counters that agree. 3 processes allow two blocked readers and one that reads in between, or three readers; as in the code the buffer is as large as the largest read, so a reader may wait for a full buffer. 3 slots wrap around at every offset, full and empty. One character cannot tell an order, but the order is proved (`KbdReadBuffer`) |
| `children` | 11 frames, 3 per process, 1 shared page, 3 PIDs, 1 pending unblock, quantum 1 | processes in one queue, lists that tell the truth, block/unblock a semaphore, the client of the scheduler, all until a frame that has been a PCB is handed out again. 11 frames are three processes with a shared page and one frame to spare, or a fork that fails with some; 3 PIDs are a parent with two children, or a child with one of its own, and forks after exits take dead PCBs again |
| `kernel_stack` | idle, 2 processes, 5 calls, quantum 2 | returns go to code and stacks stay bounded; the chosen task executes in its own address space; interrupts cannot be noticed; calls return to their callers; ready tasks execute; and of the queue: one place, no overtaking, bounded waiting, whole turns. Quantum 2 is the least with a tick inside a turn; two processes and the idle task fill the queue while a third task runs. The calls are one of each kind: exit, fork, write (the wrapper that saves ebx), block, unblock. 2 processes fork each other again and again in freed PCBs |
| `task_list` | idle, init and 3 more frames | no null pointer is followed |
| `address_space` | 13 frames, 2 data pages and 1 code page per process, 1 shared page, 2 places for it, 3 forks | of the accounts (`Memory`, whose actions those of `AddressSpace` are made of): counts exact, one owner per frame, no dangling mapping, no marked page without users; that no frame is lost is false (`memory_lost`), and this run shows that nothing but a failed fork loses one, and one only. Of the tables: they agree with the accounts, no stale translation, user mode reaches its own pages only, the kernel reaches its structures, a private memory for each program. 13 frames are two processes and up to three frames, so that fork fails after 0, 1, 2 and 3 of them (no PCB, no directory, no table, no data), twice even, and attaching fails too; 2 data pages are copied through one temporary page; 2 places allow a page twice in one process. With one shared page ids cannot be confused in the run; the theorems are for any number. 3 forks (`MaxForks`) reuse the frames of processes that have exited. Frame 9 has the page of the temporary mapping: in the run it becomes a data page, which does no harm, or a page table, and then the kernel halts, in the fork itself when there are shared pages to inherit, and in a later call otherwise. (A PCB there is what `memory_temp_page` is about; the theorems cover every use of the frame) |
| `write` | a screen of 3 by 2, parts of 2, 16 addresses in pages of 2, program of 2 pages in the middle | cursor on the screen, no block in the kernel's pages, parts that fit, the terminal. Texts of 0 to 5 characters are empty, less than a part, whole parts and one more, and wrap at rows and at the end of the screen; all addresses with all sizes, negative too, wrap the sum |

`children` and `address_space` do not check for deadlock: a kernel that
loops has stopped, and every process may exit. (In the other runs the idle task
keeps the timer going, or the program may always call again, and deadlock is
checked.)

Runs that find the code at odds with what the repository says (the findings in
`PROJECT.json` quote the lines):

| run | property | what happens |
|---|---|---|
| `read_complete` | `BlockedReadIsComplete` | the keys a reader was woken for are taken by a process that reads in between; the read returns fewer, even 0 |
| `memory_temp_page` | `KernelFramesMapped` | the temporary mapping at page 512 removes the mapping of frame 512: a fork that has its child's PCB there unmaps it in its own copy loop |
| `memory_lost` | `NoFrameLost` | a fork that runs out of frames frees all it took but the directory |
| `children_stuck` | `UnblockReturns` | fork, exit, fork again in the same PCB, unblock of an unknown PID: an endless loop |
| `task_list_pages` | `PagesUntouched` | a failed fork leaves its PCB linked; its frame becomes a page, and the next fork writes a link in it |
| `address_space_text` | `CodeNeverWritten` | a forked child stores to its code pages, which are everybody's |

Every property of a passing run has a mutant in `PROJECT.json`: an operator in
the module, marked as such, with a plausible bug, for which the run fails.

### Fairness

`KbdRead` assumes weak fairness of `ClockInterrupt`: the timer keeps interrupting,
because interrupts are on in user mode and in `cpu_idle` and every handler ends
in one of the two; and weak fairness of `ReadFinish`: a process that
has the CPU inside the kernel, with interrupts off, goes on. Nothing is assumed
of the user: no process has to call anything, no key has to be pressed. So a
blocked reader may wait for ever; a woken one may not. `KernelStack` assumes weak
fairness of the kernel's steps (the CPU executes) and strong fairness of the clock
interrupt: a program that calls the system all the time takes the CPU out of user
mode again and again, but an interrupt that is pending is taken as soon as
interrupts are on.

## The theorems

All are proved for every value of the constants that the named assumptions of the
modules allow, and from nothing else.

* `RoundRobinProofs`: `RRTypeCorrect`, `RROnePlace`, `RRNoOvertaking`,
  `RRBoundedWaiting`, `RRTurnHonoured`. The inductive invariant (`RRSafe`) is the
  type together with `OnePlace`: taking the head of an injective queue leaves an
  injective queue without it, and whoever is appended was not in it. The action
  properties follow because every step is one of three things to the queue: its
  head goes, something is appended, or both. `NoOvertaking` is about processes: the
  idle task may be passed, which the assignment asks for (`enunciado.txt:2999-3003`) and
  the code does not do: `sched.c:312` queues it like any other. They are stated of `RRSafety`, the
  specification without fairness.
* `KbdReadProofs`, the buffer by itself: `KeyboardCounts`, `KeyboardOnlyKeys` and
  `KeyboardImplementsFifo`, the refinement of `KbdFifo` by the circular buffer
  for every size: the waiting keys are a function of the positions, and remainder
  arithmetic shows that a write appends to it and a read takes a prefix. The
  inductive invariant adds the types and that the slots between the positions
  hold characters.
* `KbdReadProofs`, the composition: `KbdReadPlacedOnce`, `KbdReadClient`, `KbdReadFair`,
  `KbdReadBuffer`, `KbdReadTypeCorrect`. The invariant `Placement` says that every live process is in exactly one place;
  with it every action is a step of the scheduler's most general client, so that
  the scheduler's theorems carry over without being proved again. `Readers` adds
  that a reader inside `sys_read` has noted a number from 1 to `BUFF_SIZE`; with it
  every action is a step of the buffer's client too, and the buffer's theorems
  carry over in the same way.
  `KbdReadNoLostWakeup`: what waits in the buffer is less than the first blocked
  reader and the woken ones need together. A key adds one character; if that is
  enough for the first reader alone, it becomes one of the woken ones, and the next
  blocked reader needs at least one more. A reader that returns takes what it needs
  from both sides. The sum over the woken readers is a fold that takes the elements
  in the order in which CHOOSE picks them; that the order does not matter, so that
  a reader more or less changes the sum by what it needs, is proved by a
  smallest-set argument (`SumTakeOut`), in place of an induction.
  `KbdReadersInOrder`: the CPU, the ready queue and `kbd_blocked` are one line
  (`InLine`). Waking moves the head of `kbd_blocked` to the tail of the ready queue,
  which is its place in the line already; a switch takes the head of the ready queue
  to the CPU. Whoever else goes to the end of a queue was not inside `sys_read`
  before: a process preempted in user mode, a reader that blocks, a forked child.
* `TaskListProofs`: `TaskListTypeCorrect`, `TaskListNoNullLink`. A deletion
  writes null only in the node it deletes; all other values it writes are the
  neighbours of a PCB in use, which are not null by induction.
* `ProcTreeProofs`: `TreeTypeCorrect`, `TreeProcessesPlaced`, `TreeListsAgree`,
  `TreeImplementsBlockUnblock`, `TreeClientOfScheduler`, from `RRAssumption`,
  `ListHeapAssumption`, `NodeAssumption` and `ProcTreeAssumption` (the frames are finitely many numbers,
  none of them the null pointer). All but the types hold until a frame that has
  been a PCB is handed out again, as a PCB, as another frame of a process or by
  `sys_shmat` (`reused`): after that they are false, see `children_stuck`. (That a process which
  exits stays in its parent's list, against `enunciado.txt:3077`, is part of what they
  say: the dead are listed.) The inductive invariant (`TreeInv`) is the types, and `reused \/ Intact`. `Intact`
  says where each process is (`Placed`), that the parents of frames that have been
  PCBs have been PCBs and none of those is a shared page (`Family`), and of each
  children list (`ListsHold`) that there is an
  injective sequence of nodes, linked both ways from the head and back to it, whose
  elements are the right children. What is handed out while `reused` stays false was
  never a PCB, so that a fork, failing or not, and a page that is taken, stored in or
  zeroed write in frames that no list goes through (`OnceKept`, `FramesKeep`,
  `FrameStep`). Rings are moved as a whole:
  `list_add_tail` appends to the sequence, `list_del` removes from it, and
  each writes only in the ring it is given (`RingAdd`, `RingDel`, `RingKept`). `Walk`, the loop
  of `list_for_each`, is a recursive function; that its recursion has a solution is
  proved by a least-number argument on the longest chain, and that a walk over a ring
  visits the ring and ends (`PathGrows`, `WalkSteps`, `RingWalk`) gives the search of
  `sys_unblock` its result.

* `ConsoleProofs`: `AcceptedBlock`, `ConsoleSafe`, `ConsoleTypeCorrect`,
  `ConsolePartsFit`, `ConsoleImplementsTerminal`, from `PointerAssumption` (there are pages before and after the program's) and
  `ConsoleAssumption`. `AcceptedBlock` is arithmetic: the wrapped end is not below
  the start, so either nothing wrapped, or the sum went nearly all the way round, which a
  size below half the addresses cannot do; so no byte of the block is below the
  program's pages or beyond the last address. `ConsoleSafe` is that for every block of
  a `read` or `write`. That blocks stay out of the code, or in mapped pages, is not true. The inductive invariant adds what ties
  the parts to the text at each point of `sys_write`; with it each step prints the
  head of what is left, or leaves what is left as it is.

* `MemoryProofs`: `MemTypeCorrect`, `MemRefsCount`, `MemNoDangling`,
  `MemOwnedOnce`, `MemMarkedUsed`, `MemOnlyForksLose`, from `MemoryAssumption`.
  The inductive invariant (`MemSafe`) is the five invariants together, because each
  needs the others: that a count is right tells when a page may go, that owners are
  apart tells that a frame which goes is nobody else's, and that nothing dangles
  tells that a frame which is handed out is mapped nowhere. `alloc_frame` is "the
  lowest free frame, then the next"; that the k-th lowest exists (`KthLowest`)
  follows from the least number whose predecessors are enough, so that no induction
  is needed. Counts are cardinalities of sets of mappings, and each call changes
  that set by the slots of one process.
* `AddressSpaceProofs`: `ASImplementsMemory`, `ASNoStaleTranslation`,
  `ASTablesAgree`, `ASUserReachesItsOwn`, `ASKernelReachesStructures`,
  `ASTypeCorrect`, `ASImplementsPrivateMemory`, from `MemoryAssumption` and
  `AddressSpaceAssumption` (the frame whose page is that of the temporary mapping is
  free after boot; it is handed out later like any other).
  Every step is a step of `Memory` or none, so `MemSafe` comes from there. The
  inductive invariant (`ASSafe`) adds what is in the tables: each process has a
  directory with the kernel's two tables closed to user mode and a user table that
  says what its accounts say; the kernel's table maps a frame to itself or not at
  all, and every structure but a directory or table in frame 512 is mapped. For PCBs
  there is no exception (`TempPageRight`): a fork whose child's PCB is in frame 512 has
  unmapped it with the first page it copies, and halts instead of ending. What the
  kernel does between such an unmapping and the halt is to nobody's pages, so the
  theorems hold of frame 512 too. That owners are apart is what keeps a table right while another process
  forks, exits or attaches. A fork that fails maps frames in the kernel's table and
  writes no CR3; what the TLB held is still right, because the identity mapping of
  a frame is the same translation whatever its user bit, as long as the directory's
  is clear. A `sys_shmrm` that only marks writes no CR3 either, and changes no entry.
  `ASImplementsPrivateMemory` follows from the same invariant, for what programs see
  is a function of it (`Views`): a data page shows the contents of its frame, a slot
  the id whose frame it maps. That the data pages of a process have different frames is a
  matter of counting, for it owns `3 + NUM_PAG_DATA` frames (`DataApart`); so a store
  changes one page of one process, one shared page for all who have it, or the text of
  all (`StoreSeen`). What `sys_exit`, `sys_shmdt` and `sys_shmrm` free or zero is in
  nobody's view afterwards (`ForgottenUnseen`), and ids stay those of their
  frames as pages are made and go (`SameId`). Only for `sys_fork` the invariant grows
  (`CopyRight`): the pages copied so far hold what the parent's hold, since the
  temporary mapping reaches the child's frame and no other (`TempReaches`).
* `KernelStackProofs`: `KSTypeCorrect`, `KSChosenTaskExecutes`,
  `KSInterruptsInvisible`, `KSCallsReturnToCaller`, `KSClientOfScheduler`, `KSFair`,
  from `RRAssumption` and `KernelStackAssumption`. What is proved is that the words
  on a suspended stack lead back to the program it belongs to. The inductive
  invariant (`KSInv`) has five parts. `Scheduled`: tasks are in one place. `OnCpu`: the
  page, CR3, the TSS and SYSENTER_ESP belong to the chosen task, except at the places
  inside a switch where the code has changed some and not yet the others. `Shape`:
  stacks are sequences of bounded length.
  `Executing`: for each value of the program counter, which words the current stack
  holds and what is in the registers that lead on. And each other task in use is
  suspended in one of three ways: switched away inside `task_switch` (`Switched`),
  forked and never run (`Forked`), or the idle task before its first turn (`Fresh`),
  each with the words its stack then has. Words come in the frames in which
  the code pushes them: the handler's (`Base`), that of the C function which calls
  `task_switch` (`Outer`), those of `task_switch` (`Middle`) and of
  `inner_task_switch` (`Inner`). An action touches one stack, so that of the others
  only the part about being in use needs an argument; what it does to its own is pushing
  or popping one frame. What `interrupted` and `caller` remember is equal to what is
  on the stack below, so that the action properties are read off when the last
  frame is popped. The theorems are stated of `KSSpec`; its fairness is not used.

Only model-checked: liveness (`WokenReaderReturns`, `ReadyTasksExecute`), which is
out of the prover's reach.

## Not modelled

Boot (`system.c`, `bootsect.S`, `build.c`): runs once; its results are the
initial states. Port and register access in `hardware.S`. `zeos_show_clock`, a
binary library. `user.c`, which calls the system in fixed orders. Counters that
overflow after 2^31 events (`zeos_ticks`, `pidGlobal`, `pending_unblocks`). The
error path of the system call dispatch, whose test lets the number `MAX_SYSCALL`
through (`entry.S:103`): no wrapper passes such a number. `errno` and `perror`. A clock interrupt that comes before the first return to user
mode (`system.c:74`).

## Plan

Done: scheduler, keyboard, read, memory, process tree, list of all processes,
kernel stacks with wrappers and handlers, address spaces, console, user pointers.
Every safety and action property that a passing run checks, and every refinement, is proved; liveness
stays with the model checker. What is left is what the note of a hazard in
PROJECT.json says no property covers.
