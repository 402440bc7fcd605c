----------------------------- MODULE AddressSpace -----------------------------
(***************************************************************************)
(* Address spaces on top of Memory: directories and page tables as the     *)
(* code fills them, CR3, the TLB, and what the pages hold.                 *)
(*                                                                         *)
(* The TLB may keep any translation that a walk through the tables could   *)
(* have found since CR3 was last written, and drop any: `tlb' is the set   *)
(* of those it may hold, and an access uses any of them.  A CPU that       *)
(* caches less behaves like one of the choices.                            *)
(*                                                                         *)
(* sys_fork is cut into steps, one per page it copies; nothing comes in    *)
(* between, for interrupts are off.  What is left in a frame that is freed *)
(* is Garbage to the next owner.                                           *)
(*                                                                         *)
(* The page of the temporary mapping, 512, is also where the kernel maps   *)
(* frame 512 to itself.  A system call that needs a structure in that      *)
(* frame when it is not mapped is a page fault of the kernel, whose        *)
(* handler loops for ever: the machine has halted.                         *)
(***************************************************************************)
EXTENDS Memory

CONSTANTS
  NUM_PAG_CODE,  \* code pages, one text for all processes: 8
  Word,          \* what programs write in a page
  Garbage,       \* what a frame holds that nobody has written yet
  MaxForks       \* a bound: the forks of a run

\* Frame 512 is free after boot: the kernel and the init process are below the
\* table of segments, at frame 0x90.
ASSUME AddressSpaceAssumption ==
  /\ NUM_PAG_CODE \in Nat \ {0}
  /\ TempPage \notin 1..3 + NUM_PAG_DATA
  /\ Garbage \notin Word
  /\ MaxForks \in Nat

VARIABLES
  cur,       \* current(), a PCB frame or Idle
  cr3,       \* the frame of the directory in use
  table,     \* the frames seen as tables of entries
  kernel_pt, \* the kernel's table: frames mapped to themselves, and TempPage
  contents,  \* the frames seen as pages
  tlb,       \* translations that the TLB may hold
  forking,   \* the child whose pages are being copied, and the next page
  forks,     \* how many there were (pidGlobal, from 100)
  halted     \* the kernel has faulted: pagefault_routine never returns

asVars == <<cur, cr3, table, kernel_pt, contents, tlb, forking, forks, halted>>

\* The idle task, and frames that are taken once, at boot.
Idle == 0
so == -2
so2 == -3
IdleDir == -4
CodeFrame(i) == -10 - i
NoFork == [child |-> NoFrame, page |-> 0]

\* Pages of the user part: data, code, shared.
PT_ENTRIES == NUM_PAG_DATA + NUM_PAG_CODE + ShmSlots
Index == 0..PT_ENTRIES - 1
DataPage == 0..NUM_PAG_DATA - 1
CodePage == NUM_PAG_DATA..NUM_PAG_DATA + NUM_PAG_CODE - 1
ShmPage(s) == NUM_PAG_DATA + NUM_PAG_CODE + s - 1
CodeFrames == {CodeFrame(i) : i \in CodePage}

-----------------------------------------------------------------------------
(* Tables.                                                                 *)

Entry(f, user, rw) == [frame |-> f, user |-> user, rw |-> rw]
Absent == Entry(NoFrame, FALSE, FALSE)
GarbageTable == [i \in Index |-> Entry(NoFrame, TRUE, TRUE)]

\* A mutant: the table keeps what was in the frame.
ClearNothing(t) == t

clear_page_table(t) == [i \in Index |-> Absent]

set_ss_pag(t, i, f, user) == [t EXCEPT ![i] = Entry(f, user, TRUE)]

\* A mutant: the entry stays.
DelNothing(t, i) == t

del_ss_pag(t, i) == [t EXCEPT ![i] = Absent]

get_DIR(p) == IF p = Idle THEN IdleDir ELSE proc[p].dir

\* The user table of p, through entry 2 of its directory.
UT(p) == table[get_DIR(p)][2].frame

\* What a walk finds with directory d and the kernel table k.  Access from user
\* mode, and writing, must be allowed by both levels.
Walk(k, d) ==
  LET dir == table[d]
      found(space, up, i, e) ==
        [space |-> space, page |-> i, frame |-> e.frame,
         user |-> up.user /\ e.user, rw |-> up.rw /\ e.rw]
  IN  {found("kernel", dir[0], f, k[f]) : f \in {g \in DOMAIN k : k[g] # Absent}}
      \cup IF dir[2] = Absent THEN {}
           ELSE LET ut == table[dir[2].frame]
                IN  {found("user", dir[2], i, ut[i]) : i \in {j \in Index : ut[j] # Absent}}

\* set_cr3(get_DIR(current())) and the switch: the TLB is empty, and may fill.
Flushed == Walk(kernel_pt, cr3)
Flush == tlb' = Flushed'

\* No write to CR3: old translations may stay.
Keep == tlb' = tlb \cup Flushed'

\* The frames that an access to a page may reach.
Reached(t, space, i) == {x.frame : x \in {y \in t : y.space = space /\ y.page = i}}

-----------------------------------------------------------------------------
(* Boot.                                                                   *)

\* set_user_pages: the code pages are read-only to the init process.
set_user_pages(t, data) ==
  [i \in Index |-> CASE i \in DataPage -> Entry(data[i], TRUE, TRUE)
                     [] i \in CodePage -> Entry(CodeFrame(i), TRUE, FALSE)
                     [] OTHER          -> t[i]]

\* A mutant: the directory lets user mode into the kernel's table.
KernelEntriesOpen(dir) == set_ss_pag(set_ss_pag(dir, 0, so, TRUE), 1, so2, TRUE)

\* Entries 0 and 1 of the directory of the init process.
KernelEntries(dir) == set_ss_pag(set_ss_pag(dir, 0, so, FALSE), 1, so2, FALSE)

\* init_task1, with frames 1 to 3 for PCB, directory and table; the pages of the
\* program hold what its image says, or nothing yet.  The kernel's table maps the
\* user's with access from user mode.  (Left out: the entry of the directory that
\* shows the directory itself, far above the program, to the kernel only.)
ASInit ==
  LET none == clear_page_table(GarbageTable)
      dir  == KernelEntries(none)
  IN  /\ MemInit
      /\ cur = 1 /\ cr3 = 2
      /\ table = [f \in Frame \cup {IdleDir} |->
                    CASE f = 2 -> set_ss_pag(dir, 2, 3, TRUE)
                      [] f = 3 -> set_user_pages(none, [i \in DataPage |-> 4 + i])
                      [] f = IdleDir -> dir
                      [] OTHER -> GarbageTable]
      /\ kernel_pt = [f \in Frame \cup {TempPage} |->
                        CASE f \in 1..2 -> Entry(f, FALSE, TRUE)
                          [] f = 3 -> Entry(f, TRUE, TRUE)
                          [] OTHER -> Absent]
      /\ \E image \in [proc[1].data \cup CodeFrames -> Word \cup {Garbage}] :
           contents = [f \in Frame \cup CodeFrames |->
                         IF f \in DOMAIN image THEN image[f] ELSE Garbage]
      /\ tlb = Flushed
      /\ forking = NoFork
      /\ forks = 0
      /\ halted = FALSE

-----------------------------------------------------------------------------
(* Programs and the switch.                                                *)

\* A process runs.
Running == forking = NoFork /\ cur # Idle /\ ~ halted

\* With the translations t, the kernel finds the structures in these frames.
Finds(t, frames) == \A f \in frames : f \in Reached(t, "kernel", f)

\* The directory and the user table of the process that calls, which most calls
\* read: get_DIR(current()) and its entry 2.
FindsDIR == Finds(tlb, {proc[cur].dir})
FindsTables == Finds(tlb, {proc[cur].dir, proc[cur].ut})

\* A program writes w in a page of its table that it may write.
Store(i, w) ==
  /\ Running
  /\ \E x \in tlb : /\ x.space = "user" /\ x.page = i /\ x.user /\ x.rw
                    /\ contents' = [contents EXCEPT ![x.frame] = w]
  /\ UNCHANGED <<memVars, cur, cr3, table, kernel_pt, tlb, forking, forks, halted>>

SwitchTo(t) ==
  /\ cur' = t
  /\ cr3' = get_DIR(t)
  /\ Flush

\* inner_task_switch, for whatever reason.
Switch(t) ==
  /\ forking = NoFork /\ t # cur /\ ~ halted
  /\ UNCHANGED <<memVars, table, kernel_pt, contents, forking, forks, halted>>
  /\ SwitchTo(t)

\* fork, exit, shmat or shmdt of a process whose directory or table is not mapped.
CallFaults ==
  /\ Running
  /\ ~ FindsTables
  /\ halted' = TRUE
  /\ UNCHANGED <<memVars, cur, cr3, table, kernel_pt, contents, tlb, forking, forks>>

-----------------------------------------------------------------------------
(* fork.                                                                   *)

\* A mutant: the page table is not mapped.
MapStructuresNotUT(fs) ==
  kernel_pt' = [f \in DOMAIN kernel_pt |-> IF f \in fs \ {Alloc(3)} THEN Entry(f, FALSE, TRUE)
                                                                   ELSE kernel_pt[f]]

\* alloc_pcb, allocate_DIR and sys_fork map the PCB, the directory and the page
\* table where the kernel finds them.
MapStructures(fs) ==
  kernel_pt' = [f \in DOMAIN kernel_pt |-> IF f \in fs THEN Entry(f, FALSE, TRUE)
                                                       ELSE kernel_pt[f]]

\* allocate_DIR, and entry 2 that sys_fork adds.
ChildDirectory(p) ==
  LET dir == clear_page_table(table[Alloc(2)])
  IN  set_ss_pag([dir EXCEPT ![0] = table[get_DIR(p)][0], ![1] = table[get_DIR(p)][1]],
                 2, Alloc(3), TRUE)

\* The child's table: the parent's code and shared pages, data pages of its own.
\* (set_ss_pag makes the code writable to the child.)
ChildTable(p) ==
  LET t == clear_page_table(table[Alloc(3)])
      parent == table[UT(p)]
  IN  [i \in Index |->
         IF i \in DataPage THEN Entry(Alloc(4 + i), TRUE, TRUE)
         ELSE IF i \in CodePage \/ parent[i].frame \in Range(shared_frames) \ {NoFrame}
              THEN Entry(parent[i].frame, TRUE, TRUE)
              ELSE t[i]]

\* sys_fork but for the copy of the data pages.  (The code inherits the shared
\* pages after the copy, which does not touch them.)
ForkBegin ==
  /\ Running /\ FindsTables
  /\ forks < MaxForks
  /\ Fork(cur)
  /\ forks' = forks + 1
  /\ table' = [table EXCEPT ![Alloc(2)] = ChildDirectory(cur), ![Alloc(3)] = ChildTable(cur)]
  /\ MapStructures({Alloc(1), Alloc(2), Alloc(3)})
  /\ forking' = [child |-> Alloc(1), page |-> 0]
  /\ UNCHANGED <<cur, cr3, contents, halted>>
  /\ Keep

\* A mutant: the temporary mapping is used without a flush.
TempUnflushed(f) == tlb \cup Walk(set_ss_pag(kernel_pt, TempPage, f, FALSE), cr3)

\* The temporary mapping of f, and the flush: what the TLB may hold then.
TempMapped(f) == Walk(set_ss_pag(kernel_pt, TempPage, f, FALSE), cr3)

\* One page of the loop: map, flush, copy from the parent's page to the temporary
\* one, unmap.
CopyPage ==
  LET i == forking.page
      mapped == TempMapped(table[UT(forking.child)][i].frame)
  IN  /\ forking # NoFork /\ i \in DataPage
      /\ \E from \in Reached(mapped, "user", i), to \in Reached(mapped, "kernel", TempPage) :
           contents' = [contents EXCEPT ![to] = contents[from]]
      /\ kernel_pt' = del_ss_pag(kernel_pt, TempPage)
      /\ tlb' = mapped
      /\ forking' = [forking EXCEPT !.page = @ + 1]
      /\ UNCHANGED <<memVars, cur, cr3, table, forks, halted>>

\* After the last flush sys_fork writes in the child's PCB, and in its table if
\* there are shared pages to inherit.
FindsChild ==
  LET c == forking.child
  IN  Finds(Flushed, {c} \cup IF \E s \in Slot : proc[c].shm[s] # NoFrame THEN {proc[c].ut}
                                                                      ELSE {})

Copied == forking # NoFork /\ forking.page \notin DataPage /\ ~ halted

\* The end of sys_fork, with the last flush.
ForkEnd ==
  /\ Copied
  /\ FindsChild
  /\ forking' = NoFork
  /\ UNCHANGED <<memVars, cur, cr3, table, kernel_pt, contents, forks, halted>>
  /\ Flush

\* The temporary mapping has unmapped the child that is being made.
ForkFaults ==
  /\ Copied
  /\ ~ FindsChild
  /\ halted' = TRUE
  /\ UNCHANGED <<memVars, cur, cr3, table, kernel_pt, contents, forking, forks>>
  /\ Flush

\* sys_fork without frames: the structures it got are mapped, and stay so.  (With
\* less than two it fails before it reads the parent's tables.)
ForkFailsMapped ==
  /\ Running
  /\ Cardinality(Free) < 2 \/ FindsTables
  /\ ForkFails(cur)
  /\ MapStructures({Alloc(k) : k \in 1..Min({3, Cardinality(Free)})})
  /\ UNCHANGED <<cur, cr3, table, contents, forking, forks, halted>>
  /\ Keep

-----------------------------------------------------------------------------
(* exit and shared pages.                                                  *)

\* The frames that a call frees.
Freed == phys_mem \ phys_mem'

\* The shared pages that cleanup_shared_page destroys in a call.
Removed == {id \in ShmId : shared_frames[id] # NoFrame /\ shared_frames'[id] = NoFrame}

\* It zeroes what the temporary mapping of a page reaches (the frame is free
\* then, so the zeros count as Garbage) and unmaps it.
Zeroed == UNION {Reached(TempMapped(shared_frames[id]), "kernel", TempPage) : id \in Removed}

UnmapTemp ==
  kernel_pt' = IF Removed = {} THEN kernel_pt ELSE del_ss_pag(kernel_pt, TempPage)

ForgetFreed(t) ==
  /\ UnmapTemp
  /\ contents' = [f \in DOMAIN contents |->
                    IF f \in Freed \cup Zeroed THEN Garbage ELSE contents[f]]
  /\ table' = [f \in DOMAIN t |-> IF f \in Freed THEN GarbageTable ELSE t[f]]

\* sys_exit, and the switch to whoever is next.
ExitSwitches ==
  /\ Running /\ FindsTables
  /\ Exit(cur)
  /\ ForgetFreed(table)
  /\ UNCHANGED <<forking, forks, halted>>
  /\ \E t \in (DOMAIN proc \ {cur}) \cup {Idle} : SwitchTo(t)

ShmatEntry(id, s) ==
  /\ Running /\ FindsTables
  /\ ShmatMaps(cur, id, s)
  /\ table' = [table EXCEPT ![UT(cur)] = set_ss_pag(@, ShmPage(s), FrameFor(id), TRUE)]
  /\ UNCHANGED <<cur, cr3, kernel_pt, contents, forking, forks, halted>>
  /\ Flush

\* (An address that is no page's is found out before the table is read.)
ShmatNoEntry(id) ==
  /\ Running /\ FindsDIR
  /\ ShmatMapsNothing(cur, id)
  /\ UNCHANGED asVars

\* A mutant: no flush.
ShmdtKeeps(s) ==
  /\ Running /\ FindsTables
  /\ Shmdt(cur, s)
  /\ ForgetFreed([table EXCEPT ![UT(cur)] = del_ss_pag(@, ShmPage(s))])
  /\ UNCHANGED <<cur, cr3, forking, forks, halted>>
  /\ Keep

ShmdtEntry(s) ==
  /\ Running /\ FindsTables
  /\ Shmdt(cur, s)
  /\ ForgetFreed([table EXCEPT ![UT(cur)] = del_ss_pag(@, ShmPage(s))])
  /\ UNCHANGED <<cur, cr3, forking, forks, halted>>
  /\ Flush

\* sys_shmrm: only cleanup_shared_page writes CR3.
ShmrmFlushes(id) ==
  /\ Running
  /\ shared_refs[id] # 0 \/ FindsDIR
  /\ Shmrm(id)
  /\ ForgetFreed(table)
  /\ UNCHANGED <<cur, cr3, forking, forks, halted>>
  /\ IF shared_refs[id] = 0 THEN Flush ELSE Keep

ASNext ==
  \/ \E i \in Index, w \in Word : Store(i, w)
  \/ \E t \in DOMAIN proc \cup {Idle} : Switch(t)
  \/ CallFaults
  \/ ForkBegin \/ CopyPage \/ ForkEnd \/ ForkFaults \/ ForkFailsMapped
  \/ ExitSwitches
  \/ \E id \in ShmId : \/ \E s \in Slot : ShmatEntry(id, s)
                       \/ ShmatNoEntry(id)
                       \/ ShmrmFlushes(id)
  \/ \E s \in Slot : ShmdtEntry(s)

ASSpec == ASInit /\ [][ASNext]_<<memVars, asVars>>

-----------------------------------------------------------------------------
(* Properties.                                                             *)

\* The processes that fork has finished.
Live == DOMAIN proc \ {forking.child}

\* A live process has a table of entries that somebody has written.
ASTypeOK ==
  /\ cur \in Live \cup {Idle}
  /\ cr3 = get_DIR(cur)
  /\ \A p \in Live : \A i \in Index : table[UT(p)][i] # GarbageTable[i]
  /\ contents \in [Frame \cup CodeFrames -> Word \cup {Garbage}]

\* The page tables say what the accounts of frames and shared pages say: data
\* pages are the process's own, a page is mapped where it was attached and
\* nowhere else, and every process has the same code.
TablesAgree ==
  \A p \in DOMAIN proc :
    /\ UT(p) = proc[p].ut
    /\ {table[UT(p)][i].frame : i \in DataPage} = proc[p].data
    /\ \A i \in CodePage : table[UT(p)][i].frame = CodeFrame(i)
    /\ \A s \in Slot : table[UT(p)][ShmPage(s)].frame = proc[p].shm[s]

\* Outside fork, the TLB holds nothing that the tables of the running process
\* do not say: no page that was detached, no other process's, no temporary one.
NoStaleTranslation == forking = NoFork => tlb = Flushed

\* From user mode nobody reaches a frame but its own data, the code, and the
\* shared pages it has attached, though the kernel's table, with one entry open
\* to user mode, is in every directory.
UserReachesItsOwn ==
  forking = NoFork /\ cur # Idle =>
    \A x \in tlb : x.user =>
      \/ x.frame \in proc[cur].data \cup Range(proc[cur].shm)
      \/ \E i \in CodePage : x.frame = CodeFrame(i)

\* Whoever runs, the kernel finds every PCB, directory and page table at its
\* own address, but for a directory or table in the frame whose page is that of
\* the temporary mapping: a call of that process halts the machine.  No process
\* lives whose PCB is there, for the fork that makes it does not end.
KernelReachesStructures ==
  /\ Finds(Flushed, (UNION {{p, proc[p].dir, proc[p].ut} : p \in DOMAIN proc}) \ {TempPage})
  /\ Finds(Flushed, Live)

\* What the program of p sees in a page of its table.
Seen(p, i) ==
  LET f == table[UT(p)][i].frame IN IF f \in Frame THEN contents[f] ELSE Garbage

Pages == [p \in Live |-> [i \in DataPage |-> Seen(p, i)]]

\* The shared page that is in a frame.
IdOf(f) == IF f = NoFrame THEN NoFrame ELSE CHOOSE id \in ShmId : shared_frames[id] = f

Attached == [p \in Live |-> [s \in Slot |-> IdOf(table[UT(p)][ShmPage(s)].frame)]]

SharedContents ==
  [id \in ShmId |-> IF shared_frames[id] = NoFrame THEN NoFrame ELSE contents[shared_frames[id]]]

Text == [i \in CodePage |-> contents[CodeFrame(i)]]

Programs == INSTANCE PrivateMemory
  WITH NoId <- NoFrame, NoPage <- NoFrame, Word <- Word \cup {Garbage},
       own <- Pages, attached <- Attached, page <- SharedContents, text <- Text

\* Tables, temporary mappings and TLB give every process data pages of its own, a
\* copy of its parent's to begin with, and shared pages and a text that all see
\* alike; nothing but a store to a page changes it under a program.
ImplementsPrivateMemory == Programs!PMSpec

\* What sys_fork says of the code pages it shares (``solo lectura'', read-only):
\* no program changes them.
CodeNeverWritten ==
  [][\A i \in CodePage : contents'[CodeFrame(i)] = contents[CodeFrame(i)]]_contents
===============================================================================
