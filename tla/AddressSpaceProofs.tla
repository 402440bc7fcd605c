-------------------------- MODULE AddressSpaceProofs --------------------------
(***************************************************************************)
(* What the CPU translates is what the accounts of Memory say, for any     *)
(* number of frames, pages, processes and forks.                           *)
(*                                                                         *)
(* The inductive invariant joins MemSafe of MemoryProofs (no frame of a    *)
(* process is handed out again, so no call overwrites another's tables)    *)
(* with the entries of the tables and of the kernel's table.               *)
(* Then, what programs see is private memory and shared pages: with the    *)
(* tables right, a step is judged by the frames whose contents it changes. *)
(***************************************************************************)
EXTENDS AddressSpace, MemoryProofs

EntryRecord == [frame : Int, user : BOOLEAN, rw : BOOLEAN]

\* A page table with the shared pages of shm, the data pages of data, the code.
IsUserTable(t, data, shm) ==
  /\ t \in [Index -> EntryRecord]
  /\ {t[i].frame : i \in DataPage} = data
  /\ \A i \in CodePage : t[i].frame = CodeFrame(i)
  /\ \A s \in Slot : t[ShmPage(s)].frame = shm[s]
  /\ \A i \in Index : t[i] # GarbageTable[i]

\* The directory of a process: the kernel's tables, closed to user mode, and ut.
IsDirectory(d, ut) ==
  /\ d \in [Index -> EntryRecord]
  /\ d[0] = Entry(so, FALSE, TRUE) /\ d[1] = Entry(so2, FALSE, TRUE)
  /\ d[2] = Entry(ut, TRUE, TRUE)

TablesRight ==
  /\ table \in [Frame \cup {IdleDir} -> [Index -> EntryRecord]]
  /\ \A p \in DOMAIN proc :
       /\ IsDirectory(table[proc[p].dir], proc[p].ut)
       /\ IsUserTable(table[proc[p].ut], proc[p].data, proc[p].shm)
  /\ table[IdleDir][0] = Entry(so, FALSE, TRUE) /\ table[IdleDir][2] = Absent

\* The kernel's table maps a frame to itself or not at all.
SelfMapped(k, f) == k[f] = Absent \/ (k[f].frame = f /\ k[f].rw)

\* The structures of a process, but for one in the frame of the temporary page.
Structures(p) == {p, proc[p].dir, proc[p].ut} \ {TempPage}

KernelTableRight ==
  /\ DOMAIN kernel_pt = Frame \cup {TempPage}
  /\ kernel_pt \in [Frame \cup {TempPage} -> EntryRecord]
  /\ \A f \in Frame \cup {TempPage} : SelfMapped(kernel_pt, f)
  /\ \A p \in DOMAIN proc : \A f \in Structures(p) : kernel_pt[f] # Absent

\* A fork that has copied a page has unmapped the temporary page, and with it the
\* PCB it is making if that is there: such a fork does not end.
TempPageRight ==
  /\ \A p \in Live : p # TempPage
  /\ forking # NoFork /\ forking.page > 0 => kernel_pt[TempPage] = Absent

CurRight ==
  /\ cur \in DOMAIN proc \cup {Idle}
  /\ cr3 = get_DIR(cur)
  /\ forking \in [child : DOMAIN proc \cup {NoFrame}, page : Nat]
  /\ forking # NoFork => cur \in DOMAIN proc /\ cur # forking.child /\ forking.child \in DOMAIN proc
  /\ contents \in [Frame \cup CodeFrames -> Word \cup {Garbage}]

ASSafe ==
  /\ MemSafe
  /\ TablesRight
  /\ KernelTableRight
  /\ TempPageRight
  /\ CurRight
  /\ NoStaleTranslation

-----------------------------------------------------------------------------
LEMMA Layout ==
  /\ NUM_PAG_DATA \in Nat \ {0} /\ NUM_PAG_CODE \in Nat \ {0} /\ ShmSlots \in Nat \ {0}
  /\ 0 \in Index /\ 1 \in Index /\ 2 \in Index
  /\ DataPage \subseteq Index /\ CodePage \subseteq Index /\ DataPage \cap CodePage = {}
  /\ \A s \in Slot : ShmPage(s) \in Index \ (DataPage \cup CodePage)
  /\ \A s, t \in Slot : ShmPage(s) = ShmPage(t) => s = t
  /\ \A i \in Index \ (DataPage \cup CodePage) : \E s \in Slot : i = ShmPage(s)
  /\ NoFrame \notin Frame /\ Idle \notin Frame /\ IdleDir \notin Frame
  /\ \A i \in CodePage : CodeFrame(i) \in Int \ Frame /\ CodeFrame(i) # NoFrame
<1>1. NUM_PAG_DATA \in Nat \ {0} /\ NUM_PAG_CODE \in Nat \ {0} /\ ShmSlots \in Nat \ {0}
  BY MemoryAssumption, AddressSpaceAssumption
<1>2. /\ 0 \in Index /\ 1 \in Index /\ 2 \in Index
      /\ DataPage \subseteq Index /\ CodePage \subseteq Index /\ DataPage \cap CodePage = {}
  BY <1>1 DEF Index, PT_ENTRIES, DataPage, CodePage
<1>3. /\ \A s \in Slot : ShmPage(s) \in Index \ (DataPage \cup CodePage)
      /\ \A s, t \in Slot : ShmPage(s) = ShmPage(t) => s = t
  BY <1>1 DEF Index, PT_ENTRIES, DataPage, CodePage, Slot, ShmPage
<1>4. ASSUME NEW i \in Index \ (DataPage \cup CodePage) PROVE \E s \in Slot : i = ShmPage(s)
  <2>1. i - NUM_PAG_DATA - NUM_PAG_CODE + 1 \in Slot
    BY <1>1 DEF Index, PT_ENTRIES, DataPage, CodePage, Slot
  <2>2. i = ShmPage(i - NUM_PAG_DATA - NUM_PAG_CODE + 1)
    BY <1>1 DEF Index, PT_ENTRIES, ShmPage
  <2> QED BY <2>1, <2>2
<1>5. NoFrame \notin Frame /\ Idle \notin Frame /\ IdleDir \notin Frame
  BY MemoryAssumption DEF NoFrame, Frame, Idle, IdleDir
<1>6. \A i \in CodePage : CodeFrame(i) \in Int \ Frame /\ CodeFrame(i) # NoFrame
  BY <1>1 DEF CodePage, CodeFrame, NoFrame, Frame
<1> QED BY <1>1, <1>2, <1>3, <1>4, <1>5, <1>6

LEMMA EntryFields ==
  ASSUME NEW f, NEW u, NEW w
  PROVE  Entry(f, u, w).frame = f /\ Entry(f, u, w).user = u /\ Entry(f, u, w).rw = w
BY DEF Entry

LEMMA EntryTyped ==
  ASSUME NEW f \in Int, NEW u \in BOOLEAN, NEW w \in BOOLEAN
  PROVE  Entry(f, u, w) \in EntryRecord /\ Absent \in EntryRecord
BY DEF Entry, EntryRecord, Absent, NoFrame

LEMMA FramesAreInts == Frame \subseteq Int
BY DEF Frame

\* What the processes have of the frames, in the terms of the tables.
LEMMA ProcFacts ==
  ASSUME MemSafe, NEW p \in DOMAIN proc
  PROVE  /\ p \in Frame /\ p # Idle /\ proc[p].dir \in Frame /\ proc[p].ut \in Frame
         /\ get_DIR(p) = proc[p].dir
         /\ proc[p].data \subseteq Frame /\ proc[p].shm \in [Slot -> Frame \cup {NoFrame}]
         /\ Own(p) \subseteq phys_mem
         /\ p \in Own(p) /\ proc[p].dir \in Own(p) /\ proc[p].ut \in Own(p) /\ proc[p].data \subseteq Own(p)
<1>1. p \in Frame /\ proc[p] \in ProcRecord
  BY DEF MemSafe, MemTyped, ProcTyped
<1>2. p # Idle
  BY <1>1, Layout
<1> QED BY <1>1, <1>2 DEF ProcRecord, get_DIR, MemSafe, OwnersApart, Own

\* What a walk finds, with the tables right: an entry of the kernel's table, that
\* user mode may not use, or one of the user table.
FromKernel(x, k, d) ==
  \E f \in DOMAIN k :
    /\ k[f] # Absent
    /\ x = [space |-> "kernel", page |-> f, frame |-> k[f].frame,
            user |-> d[0].user /\ k[f].user, rw |-> d[0].rw /\ k[f].rw]

FromUser(x, t, d) ==
  \E i \in Index :
    /\ t[i] # Absent
    /\ x = [space |-> "user", page |-> i, frame |-> t[i].frame,
            user |-> d[2].user /\ t[i].user, rw |-> d[2].rw /\ t[i].rw]

LEMMA WalkOfProcess ==
  ASSUME MemSafe, TablesRight, NEW p \in DOMAIN proc, NEW k, NEW x
  PROVE  x \in Walk(k, proc[p].dir) <=>
           \/ FromKernel(x, k, table[proc[p].dir])
           \/ FromUser(x, table[proc[p].ut], table[proc[p].dir])
<1>1. proc[p].ut \in Frame /\ NoFrame \notin Frame
  BY ProcFacts, Layout
<1>2. table[proc[p].dir][2] = Entry(proc[p].ut, TRUE, TRUE)
  BY DEF TablesRight, IsDirectory
<1>3. Entry(proc[p].ut, TRUE, TRUE) # Absent
  BY <1>1 DEF Absent, Entry
<1>4. table[proc[p].dir][2].frame = proc[p].ut /\ table[proc[p].dir][2] # Absent
  BY <1>2, <1>3 DEF Entry
<1> QED BY <1>4 DEF Walk, FromKernel, FromUser

\* What the TLB may hold after a flush, in the terms of the tables.
LEMMA FlushedAre ==
  ASSUME MemSafe, TablesRight, NEW p \in DOMAIN proc, cr3 = proc[p].dir
  PROVE  \A x : x \in Flushed <=> \/ FromKernel(x, kernel_pt, table[proc[p].dir])
                                  \/ FromUser(x, table[proc[p].ut], table[proc[p].dir])
BY WalkOfProcess DEF Flushed

LEMMA WalkOfIdle ==
  ASSUME TablesRight, NEW k, NEW x
  PROVE  x \in Walk(k, IdleDir) <=> FromKernel(x, k, table[IdleDir])
BY DEF Walk, FromKernel, TablesRight

LEMMA UserWalk ==
  ASSUME NEW t, NEW k, NEW d, NEW x, FromKernel(x, k, d) \/ FromUser(x, t, d), x.space = "user"
  PROVE  FromUser(x, t, d) /\ x.page \in Index /\ x.frame = t[x.page].frame
<1>1. ~ FromKernel(x, k, d)
  BY DEF FromKernel
<1> QED BY <1>1 DEF FromUser

\* A step that leaves the tables, CR3 and the kernel's table leaves what a walk
\* finds.
LEMMA SameWalk ==
  ASSUME table' = table, kernel_pt' = kernel_pt, cr3' = cr3
  PROVE  Flushed' = Flushed
BY DEF Flushed, Walk

-----------------------------------------------------------------------------
(* Every step is a step of Memory.                                         *)

LEMMA StepOfMemory ==
  ASSUME ASSafe, [ASNext]_<<memVars, asVars>>
  PROVE  [MemNext]_memVars
<1> USE DEF ASNext
<1>0. Running => cur \in DOMAIN proc
  BY DEF ASSafe, CurRight, Running
<1>1. ASSUME NEW i \in Index, NEW w \in Word, Store(i, w) PROVE UNCHANGED memVars
  BY <1>1 DEF Store
<1>12. CASE CallFaults \/ ForkFaults
  BY <1>12 DEF CallFaults, ForkFaults
<1>2. ASSUME NEW t \in DOMAIN proc \cup {Idle}, Switch(t) PROVE UNCHANGED memVars
  BY <1>2 DEF Switch
<1>3. CASE ForkBegin
  BY <1>0, <1>3 DEF ForkBegin, MemNext
<1>4. CASE CopyPage \/ ForkEnd
  BY <1>4 DEF CopyPage, ForkEnd
<1>5. CASE ForkFailsMapped
  BY <1>0, <1>5 DEF ForkFailsMapped, MemNext
<1>6. CASE ExitSwitches
  BY <1>0, <1>6 DEF ExitSwitches, MemNext
<1>7. ASSUME NEW id \in ShmId, NEW s \in Slot, ShmatEntry(id, s) PROVE MemNext
  BY <1>0, <1>7 DEF ShmatEntry, MemNext
<1>8. ASSUME NEW id \in ShmId, ShmatNoEntry(id) PROVE MemNext
  BY <1>0, <1>8 DEF ShmatNoEntry, MemNext
<1>9. ASSUME NEW id \in ShmId, ShmrmFlushes(id) PROVE MemNext
  BY <1>0, <1>9 DEF ShmrmFlushes, MemNext
<1>10. ASSUME NEW s \in Slot, ShmdtEntry(s) PROVE MemNext
  BY <1>0, <1>10 DEF ShmdtEntry, MemNext
<1>11. CASE UNCHANGED <<memVars, asVars>>
  BY <1>11
<1> QED BY <1>1, <1>2, <1>3, <1>4, <1>5, <1>6, <1>7, <1>8, <1>9, <1>10, <1>11, <1>12

-----------------------------------------------------------------------------
(* Steps that only read the tables.                                        *)

\* No frame changes hands, and no table changes.
LEMMA TablesKept ==
  ASSUME TablesRight, table' = table, proc' = proc
  PROVE  TablesRight'
BY DEF TablesRight

\* The end of a temporary mapping unmaps no structure but one in its frame.
LEMMA KernelTableKept ==
  ASSUME MemSafe, KernelTableRight, DOMAIN proc' \subseteq DOMAIN proc,
         kernel_pt' = kernel_pt \/ kernel_pt' = del_ss_pag(kernel_pt, TempPage),
         \A p \in DOMAIN proc' : proc'[p].dir = proc[p].dir /\ proc'[p].ut = proc[p].ut
  PROVE  KernelTableRight'
<1>1. Absent \in EntryRecord
  BY DEF Absent, Entry, EntryRecord, NoFrame
<1>2. /\ DOMAIN kernel_pt' = Frame \cup {TempPage}
      /\ kernel_pt' \in [Frame \cup {TempPage} -> EntryRecord]
      /\ \A f \in Frame \cup {TempPage} : kernel_pt'[f] = kernel_pt[f] \/ kernel_pt'[f] = Absent
      /\ \A f \in (Frame \cup {TempPage}) \ {TempPage} : kernel_pt'[f] = kernel_pt[f]
  BY <1>1 DEF KernelTableRight, del_ss_pag
<1>3. \A f \in Frame \cup {TempPage} : SelfMapped(kernel_pt', f)
  BY <1>2 DEF KernelTableRight, SelfMapped
<1>4. ASSUME NEW p \in DOMAIN proc', NEW f \in Structures(p)' PROVE kernel_pt'[f] # Absent
  <2>1. f \in Structures(p) /\ p \in DOMAIN proc /\ f # TempPage
    BY DEF Structures
  <2>2. f \in Frame
    BY <2>1, ProcFacts DEF Structures
  <2>3. kernel_pt'[f] = kernel_pt[f]
    BY <2>1, <2>2, <1>2
  <2> QED BY <2>1, <2>3 DEF KernelTableRight
<1> QED BY <1>2, <1>3, <1>4 DEF KernelTableRight

LEMMA TempPageKept ==
  ASSUME TempPageRight, forking = NoFork, forking' = NoFork, DOMAIN proc' \subseteq DOMAIN proc
  PROVE  TempPageRight'
BY DEF TempPageRight, Live

\* A call that faults, or is not a step at all.
LEMMA FaultSafe ==
  ASSUME ASSafe, MemSafe', CallFaults \/ ForkFaults
  PROVE  ASSafe'
<1>1. /\ proc' = proc /\ table' = table /\ kernel_pt' = kernel_pt /\ contents' = contents
      /\ forking' = forking /\ cur' = cur /\ cr3' = cr3
      /\ tlb' = tlb \/ tlb' = Flushed'
  BY DEF CallFaults, ForkFaults, Flush, memVars
<1>2. TablesRight' /\ KernelTableRight' /\ TempPageRight'
  BY <1>1, TablesKept, KernelTableKept DEF ASSafe, TempPageRight, Live
<1>3. CurRight' /\ NoStaleTranslation'
  BY <1>1, SameWalk DEF ASSafe, CurRight, NoStaleTranslation, get_DIR
<1> QED BY <1>2, <1>3 DEF ASSafe

LEMMA StoreSafe ==
  ASSUME ASSafe, MemSafe', NEW i \in Index, NEW w \in Word, Store(i, w)
  PROVE  ASSafe'
<1>1. /\ proc' = proc /\ cur' = cur /\ cr3' = cr3 /\ table' = table /\ kernel_pt' = kernel_pt
      /\ tlb' = tlb /\ forking' = forking /\ forking = NoFork
      /\ \E f : contents' = [contents EXCEPT ![f] = w]
  BY DEF Store, Running, memVars
<1>2. TablesRight' /\ KernelTableRight' /\ TempPageRight'
  BY <1>1, TablesKept, KernelTableKept, TempPageKept DEF ASSafe
<1>3. CurRight'
  <2>1. contents' \in [Frame \cup CodeFrames -> Word \cup {Garbage}]
    BY <1>1 DEF ASSafe, CurRight
  <2> QED BY <1>1, <2>1 DEF ASSafe, CurRight, get_DIR
<1>4. NoStaleTranslation'
  BY <1>1, SameWalk DEF ASSafe, NoStaleTranslation
<1> QED BY <1>2, <1>3, <1>4 DEF ASSafe

LEMMA SwitchSafe ==
  ASSUME ASSafe, MemSafe', NEW t \in DOMAIN proc \cup {Idle}, Switch(t)
  PROVE  ASSafe'
<1>1. /\ proc' = proc /\ table' = table /\ kernel_pt' = kernel_pt
      /\ contents' = contents /\ forking' = forking /\ forking = NoFork
      /\ cur' = t /\ cr3' = get_DIR(t) /\ tlb' = Flushed'
  BY DEF Switch, SwitchTo, Flush, memVars
<1>2. TablesRight' /\ KernelTableRight' /\ TempPageRight'
  BY <1>1, TablesKept, KernelTableKept, TempPageKept DEF ASSafe
<1>3. CurRight'
  BY <1>1 DEF ASSafe, CurRight, get_DIR
<1> QED BY <1>1, <1>2, <1>3 DEF ASSafe, NoStaleTranslation

\* The child of a fork that ends is not in the frame of the temporary page.
LEMMA ForkEndSafe ==
  ASSUME ASSafe, MemSafe', ForkEnd
  PROVE  ASSafe'
<1>1. /\ proc' = proc /\ table' = table /\ kernel_pt' = kernel_pt
      /\ contents' = contents /\ forking' = NoFork
      /\ cur' = cur /\ cr3' = cr3 /\ tlb' = Flushed'
  BY DEF ForkEnd, Flush, memVars
<1>2. TablesRight' /\ KernelTableRight'
  BY <1>1, TablesKept, KernelTableKept DEF ASSafe
<1>3. CurRight'
  BY <1>1 DEF ASSafe, CurRight, get_DIR, NoFork
<1>4. cur \in DOMAIN proc /\ cr3 = proc[cur].dir
  BY ProcFacts DEF ASSafe, CurRight, ForkEnd, Copied
<1>5. kernel_pt[TempPage] = Absent
  <2>1. forking # NoFork /\ forking.page > 0
    BY Layout DEF ForkEnd, Copied, DataPage, ASSafe, CurRight
  <2> QED BY <2>1 DEF ASSafe, TempPageRight
<1>6. forking.child # TempPage
  <2>1. forking.child \in Reached(Flushed, "kernel", forking.child)
    BY DEF ForkEnd, FindsChild, Finds
  <2>2. PICK x \in Flushed : x.space = "kernel" /\ x.page = forking.child
    BY <2>1 DEF Reached
  <2>3. \/ FromKernel(x, kernel_pt, table[proc[cur].dir])
        \/ FromUser(x, table[proc[cur].ut], table[proc[cur].dir])
    BY <1>4, FlushedAre DEF ASSafe
  <2>4. kernel_pt[forking.child] # Absent
    BY <2>2, <2>3 DEF FromKernel, FromUser
  <2> QED BY <2>4, <1>5
<1>7. TempPageRight'
  BY <1>1, <1>6 DEF ASSafe, TempPageRight, Live
<1> QED BY <1>1, <1>2, <1>3, <1>7 DEF ASSafe, NoStaleTranslation

\* The page that the copy reads is the running process's own.
LEMMA CopyPageSafe ==
  ASSUME ASSafe, MemSafe', CopyPage
  PROVE  ASSafe'
<1> DEFINE i == forking.page
           f == table[UT(forking.child)][i].frame
           mapped == TempMapped(f)
<1>1. PICK from \in Reached(mapped, "user", i), to \in Reached(mapped, "kernel", TempPage) :
        contents' = [contents EXCEPT ![to] = contents[from]]
  BY DEF CopyPage
<1>2. /\ proc' = proc /\ table' = table /\ kernel_pt' = del_ss_pag(kernel_pt, TempPage)
      /\ forking' = [forking EXCEPT !.page = @ + 1] /\ forking # NoFork /\ i \in DataPage
      /\ cur' = cur /\ cr3' = cr3
  BY DEF CopyPage, memVars
<1>3. cur \in DOMAIN proc /\ cr3 = proc[cur].dir /\ contents \in [Frame \cup CodeFrames -> Word \cup {Garbage}]
  BY <1>2, ProcFacts DEF ASSafe, CurRight
<1>4. from \in Frame
  <2>1. PICK x \in mapped : x.space = "user" /\ x.page = i /\ x.frame = from
    BY <1>1 DEF Reached
  <2>2. x \in Walk(set_ss_pag(kernel_pt, TempPage, f, FALSE), proc[cur].dir)
    BY <1>3, <2>1 DEF TempMapped
  <2>3. from = table[proc[cur].ut][i].frame
    <3>1. \/ FromKernel(x, set_ss_pag(kernel_pt, TempPage, f, FALSE), table[proc[cur].dir])
          \/ FromUser(x, table[proc[cur].ut], table[proc[cur].dir])
      BY <1>3, <2>2, WalkOfProcess DEF ASSafe
    <3>2. x.frame = table[proc[cur].ut][x.page].frame
      BY <2>1, <3>1, UserWalk, Zenon
    <3> QED BY <2>1, <3>2
  <2>4. table[proc[cur].ut][i].frame \in proc[cur].data
    BY <1>2, <1>3 DEF ASSafe, TablesRight, IsUserTable
  <2> QED BY <2>3, <2>4, <1>3, ProcFacts DEF ASSafe
<1>5. contents' \in [Frame \cup CodeFrames -> Word \cup {Garbage}]
  BY <1>1, <1>3, <1>4
<1>6. TablesRight'
  BY <1>2, TablesKept DEF ASSafe
<1>7. kernel_pt'[TempPage] = Absent
  BY <1>2 DEF del_ss_pag, ASSafe, KernelTableRight
<1>8. KernelTableRight'
  BY <1>2, KernelTableKept DEF ASSafe
<1>9. forking \in [child : DOMAIN proc, page : Nat] /\ cur # forking.child
  BY <1>2 DEF ASSafe, CurRight
<1>10. forking' \in [child : DOMAIN proc, page : Nat] /\ forking'.child = forking.child
  BY <1>2, <1>9
<1>11. forking' # NoFork
  <2>1. forking'.child # NoFrame
    BY <1>10, ProcFacts, Layout DEF ASSafe
  <2> QED BY <2>1 DEF NoFork
<1>12. CurRight'
  BY <1>2, <1>5, <1>9, <1>10, <1>11 DEF ASSafe, CurRight, get_DIR
<1>13. TempPageRight'
  BY <1>2, <1>7, <1>10 DEF ASSafe, TempPageRight, Live
<1> QED BY <1>6, <1>8, <1>11, <1>12, <1>13 DEF ASSafe, NoStaleTranslation

-----------------------------------------------------------------------------
(* Steps that free frames.                                                 *)

LEMMA GarbageTyped == GarbageTable \in [Index -> EntryRecord]
BY DEF GarbageTable, Entry, EntryRecord, NoFrame

\* Whatever is freed, tables are tables and pages are pages.
LEMMA ForgetTyped ==
  ASSUME MemSafe, NEW t \in [Frame \cup {IdleDir} -> [Index -> EntryRecord]], ForgetFreed(t)
  PROVE  /\ table' \in [Frame \cup {IdleDir} -> [Index -> EntryRecord]]
         /\ contents \in [Frame \cup CodeFrames -> Word \cup {Garbage}] => contents' \in [Frame \cup CodeFrames -> Word \cup {Garbage}]
         /\ table'[IdleDir] = t[IdleDir]
<1>1. table' = [f \in DOMAIN t |-> IF f \in Freed THEN GarbageTable ELSE t[f]]
  BY DEF ForgetFreed
<1>2. IdleDir \notin Freed
  BY Layout DEF Freed, MemSafe, MemTyped
<1>3. contents \in [Frame \cup CodeFrames -> Word \cup {Garbage}] => contents' \in [Frame \cup CodeFrames -> Word \cup {Garbage}]
  BY DEF ForgetFreed
<1> QED BY <1>1, <1>2, <1>3, GarbageTyped

\* A process that stays owns nothing that is freed, so its tables are what they
\* were in t.
LEMMA ForgetKeeps ==
  ASSUME MemSafe, MemSafe',
         NEW t \in [Frame \cup {IdleDir} -> [Index -> EntryRecord]], ForgetFreed(t),
         NEW q \in DOMAIN proc', Own(q)' = Own(q)
  PROVE  \A f \in Own(q) : table'[f] = t[f]
<1>1. table' = [f \in DOMAIN t |-> IF f \in Freed THEN GarbageTable ELSE t[f]]
  BY DEF ForgetFreed
<1>2. Own(q)' \subseteq phys_mem' /\ phys_mem' \subseteq Frame
  BY DEF MemSafe, MemTyped, OwnersApart
<1>3. \A f \in Own(q) : f \notin Freed /\ f \in Frame
  BY <1>2 DEF Freed
<1> QED BY <1>1, <1>3

LEMMA ExitSwitchesSafe ==
  ASSUME ASSafe, MemSafe', ExitSwitches
  PROVE  ASSafe'
<1>1. PICK t \in (DOMAIN proc \ {cur}) \cup {Idle} : SwitchTo(t)
  BY DEF ExitSwitches
<1>2. /\ Exit(cur) /\ ForgetFreed(table) /\ UnmapTemp /\ forking' = forking
      /\ forking = NoFork /\ cur' = t /\ cr3' = get_DIR(t) /\ tlb' = Flushed'
  BY <1>1 DEF ExitSwitches, Running, SwitchTo, Flush, ForgetFreed
<1>3. DOMAIN proc' = DOMAIN proc \ {cur} /\ \A q \in DOMAIN proc' : proc'[q] = proc[q]
  BY <1>2 DEF Exit
<1>4. table \in [Frame \cup {IdleDir} -> [Index -> EntryRecord]]
  BY DEF ASSafe, TablesRight
<1>5. TablesRight'
  <2>1. /\ table' \in [Frame \cup {IdleDir} -> [Index -> EntryRecord]]
        /\ table'[IdleDir] = table[IdleDir]
    BY <1>2, <1>4, ForgetTyped DEF ASSafe
  <2>2. ASSUME NEW q \in DOMAIN proc'
        PROVE  table'[proc'[q].dir] = table[proc[q].dir] /\ table'[proc'[q].ut] = table[proc[q].ut]
    <3>1. q \in DOMAIN proc /\ proc'[q] = proc[q] /\ Own(q)' = Own(q)
      BY <1>3 DEF Own
    <3>2. proc[q].dir \in Own(q) /\ proc[q].ut \in Own(q)
      BY DEF Own
    <3>3. \A f \in Own(q) : table'[f] = table[f]
      BY <3>1, <1>2, <1>4, ForgetKeeps DEF ASSafe
    <3> QED BY <3>1, <3>2, <3>3
  <2> QED BY <2>1, <2>2, <1>3 DEF ASSafe, TablesRight
<1>6. KernelTableRight' /\ TempPageRight'
  BY <1>2, <1>3, KernelTableKept, TempPageKept DEF ASSafe, UnmapTemp
<1>7. CurRight'
  <2>1. contents' \in [Frame \cup CodeFrames -> Word \cup {Garbage}]
    BY <1>2, <1>4, ForgetTyped DEF ASSafe, CurRight
  <2>2. cr3' = get_DIR(cur)'
    BY <1>2, <1>3 DEF get_DIR
  <2>3. cur' \in DOMAIN proc' \cup {Idle}
    BY <1>2, <1>3
  <2> QED BY <1>2, <2>1, <2>2, <2>3 DEF CurRight, NoFork
<1> QED BY <1>2, <1>5, <1>6, <1>7 DEF ASSafe, NoStaleTranslation

\* sys_shmrm destroys a page that is in no table; when it only marks one, nothing
\* is freed and the old translations are those of now.
LEMMA ShmrmFlushesSafe ==
  ASSUME ASSafe, MemSafe', NEW id \in ShmId, ShmrmFlushes(id)
  PROVE  ASSafe'
<1>1. /\ Shmrm(id) /\ ForgetFreed(table) /\ UnmapTemp /\ forking' = forking
      /\ forking = NoFork /\ cur' = cur /\ cr3' = cr3 /\ proc' = proc
      /\ IF shared_refs[id] = 0 THEN Flush ELSE Keep
  BY DEF ShmrmFlushes, Running, Shmrm, ForgetFreed
<1>2. table \in [Frame \cup {IdleDir} -> [Index -> EntryRecord]]
  BY DEF ASSafe, TablesRight
<1>3. TablesRight'
  <2>1. /\ table' \in [Frame \cup {IdleDir} -> [Index -> EntryRecord]]
        /\ table'[IdleDir] = table[IdleDir]
    BY <1>1, <1>2, ForgetTyped DEF ASSafe
  <2>2. ASSUME NEW q \in DOMAIN proc'
        PROVE  table'[proc'[q].dir] = table[proc[q].dir] /\ table'[proc'[q].ut] = table[proc[q].ut]
    <3>1. Own(q)' = Own(q) /\ proc[q].dir \in Own(q) /\ proc[q].ut \in Own(q)
      BY <1>1 DEF Own
    <3>2. \A f \in Own(q) : table'[f] = table[f]
      BY <3>1, <1>1, <1>2, ForgetKeeps DEF ASSafe
    <3> QED BY <3>1, <3>2, <1>1
  <2> QED BY <2>1, <2>2, <1>1 DEF ASSafe, TablesRight
<1>4. KernelTableRight' /\ TempPageRight'
  BY <1>1, KernelTableKept, TempPageKept DEF ASSafe, UnmapTemp
<1>5. CurRight'
  <2>1. contents' \in [Frame \cup CodeFrames -> Word \cup {Garbage}]
    BY <1>1, <1>2, ForgetTyped DEF ASSafe, CurRight
  <2> QED BY <1>1, <2>1 DEF ASSafe, CurRight, get_DIR
<1>6. tlb' = Flushed'
  <2>1. CASE shared_refs[id] = 0
    BY <1>1, <2>1 DEF Flush
  <2>2. CASE shared_refs[id] # 0
    <3>1. Freed = {}
      BY <1>1, <2>2 DEF Shmrm, Freed
    <3>2. table' = table /\ kernel_pt' = kernel_pt
      <4>1. Removed = {}
        BY <1>1, <2>2 DEF Shmrm, Removed
      <4> QED BY <3>1, <4>1, <1>1, <1>2 DEF ForgetFreed, UnmapTemp
    <3>3. tlb' = tlb \cup Flushed' /\ tlb = Flushed
      BY <1>1, <2>2 DEF Keep, ASSafe, NoStaleTranslation
    <3> QED BY <1>1, <3>2, <3>3, SameWalk
  <2> QED BY <2>1, <2>2
<1> QED BY <1>3, <1>4, <1>5, <1>6 DEF ASSafe, NoStaleTranslation

-----------------------------------------------------------------------------
(* Shared pages.                                                           *)

\* An entry of the user table for a shared page is the place it is attached at.
LEMMA SetShmEntry ==
  ASSUME NEW t, NEW data, NEW shm \in [Slot -> Frame \cup {NoFrame}], IsUserTable(t, data, shm),
         NEW s \in Slot, NEW e \in EntryRecord, e.frame \in Frame \cup {NoFrame},
         e # Entry(NoFrame, TRUE, TRUE)
  PROVE  IsUserTable([t EXCEPT ![ShmPage(s)] = e], data, [shm EXCEPT ![s] = e.frame])
<1> DEFINE u == [t EXCEPT ![ShmPage(s)] = e]
<1>1. t \in [Index -> EntryRecord] /\ ShmPage(s) \in Index \ (DataPage \cup CodePage)
  BY Layout DEF IsUserTable
<1>2. u \in [Index -> EntryRecord]
  BY <1>1
<1>3. \A i \in Index : u[i] = IF i = ShmPage(s) THEN e ELSE t[i]
  BY <1>1
<1> HIDE DEF u
<1>4. \A i \in DataPage \cup CodePage : u[i] = t[i]
  BY <1>1, <1>3, Layout
<1>5. {u[i].frame : i \in DataPage} = data
  BY <1>4 DEF IsUserTable
<1>6. \A i \in CodePage : u[i].frame = CodeFrame(i)
  BY <1>4 DEF IsUserTable
<1>7. \A r \in Slot : u[ShmPage(r)].frame = [shm EXCEPT ![s] = e.frame][r]
  BY <1>3, Layout DEF IsUserTable
<1>8. \A i \in Index : u[i] # GarbageTable[i]
  BY <1>3 DEF IsUserTable, GarbageTable
<1> QED BY <1>2, <1>5, <1>6, <1>7, <1>8 DEF IsUserTable, u

LEMMA ShmatNoEntrySafe ==
  ASSUME ASSafe, MemSafe', NEW id \in ShmId, ShmatNoEntry(id)
  PROVE  ASSafe'
<1>1. /\ proc' = proc /\ table' = table /\ kernel_pt' = kernel_pt /\ contents' = contents
      /\ forking' = forking /\ cur' = cur /\ cr3' = cr3 /\ tlb' = tlb /\ forking = NoFork
  BY DEF ShmatNoEntry, ShmatMapsNothing, asVars, Running
<1>2. TablesRight' /\ KernelTableRight' /\ TempPageRight'
  BY <1>1, TablesKept, KernelTableKept, TempPageKept DEF ASSafe
<1>3. CurRight' /\ NoStaleTranslation'
  BY <1>1, SameWalk DEF ASSafe, CurRight, NoStaleTranslation, get_DIR
<1> QED BY <1>2, <1>3 DEF ASSafe

\* What sys_shmat and sys_shmdt have in common: they change one entry of the
\* caller's table, and slot s of its accounts in the same way.
LEMMA ShmEntryTables ==
  ASSUME ASSafe, MemSafe', NEW s \in Slot, cur \in DOMAIN proc,
         NEW e \in EntryRecord, e.frame \in Frame \cup {NoFrame}, e # Entry(NoFrame, TRUE, TRUE),
         proc' = [proc EXCEPT ![cur].shm[s] = e.frame],
         table' \in [Frame \cup {IdleDir} -> [Index -> EntryRecord]],
         table'[IdleDir] = table[IdleDir],
         \A q \in DOMAIN proc : \A f \in {proc[q].dir, proc[q].ut} :
           table'[f] = [table EXCEPT ![UT(cur)] = [@ EXCEPT ![ShmPage(s)] = e]][f],
         kernel_pt' = kernel_pt \/ kernel_pt' = del_ss_pag(kernel_pt, TempPage)
  PROVE  TablesRight' /\ KernelTableRight'
<1>1. /\ proc \in [DOMAIN proc -> ProcRecord] /\ DOMAIN proc \subseteq Frame
      /\ table \in [Frame \cup {IdleDir} -> [Index -> EntryRecord]]
  BY DEF ASSafe, MemSafe, MemTyped, ProcTyped, TablesRight
<1>2. UT(cur) = proc[cur].ut
  <2>1. table[proc[cur].dir][2] = Entry(proc[cur].ut, TRUE, TRUE) /\ get_DIR(cur) = proc[cur].dir
    BY ProcFacts DEF ASSafe, TablesRight, IsDirectory
  <2> QED BY <2>1 DEF UT, Entry
<1>3. /\ DOMAIN proc' = DOMAIN proc
      /\ \A q \in DOMAIN proc \ {cur} : proc'[q] = proc[q]
      /\ proc'[cur] = [proc[cur] EXCEPT !.shm = [proc[cur].shm EXCEPT ![s] = e.frame]]
  BY <1>1
<1>4. /\ proc'[cur].dir = proc[cur].dir /\ proc'[cur].ut = proc[cur].ut
      /\ proc'[cur].data = proc[cur].data
      /\ proc'[cur].shm = [proc[cur].shm EXCEPT ![s] = e.frame]
  BY <1>1, <1>3 DEF ProcRecord
<1>5. KernelTableRight'
  BY <1>3, <1>4, KernelTableKept DEF ASSafe
<1>6. \A q \in DOMAIN proc : proc[q].dir \in Own(q) /\ proc[q].ut \in Own(q) /\ proc[q].dir # proc[cur].ut
  <2>1. \A q \in DOMAIN proc : proc[q].dir \in Own(q) /\ proc[q].ut \in Own(q)
    BY DEF Own
  <2>2. proc[cur].dir # proc[cur].ut
    <3>1. table[proc[cur].dir][0] = Entry(so, FALSE, TRUE)
      BY DEF ASSafe, TablesRight, IsDirectory
    <3>2. 0 \in DataPage
      BY Layout DEF DataPage
    <3>3. table[proc[cur].ut][0].frame \in Frame
      <4>1. {table[proc[cur].ut][i].frame : i \in DataPage} = proc[cur].data
        BY DEF ASSafe, TablesRight, IsUserTable
      <4>2. proc[cur].data \subseteq Frame
        BY ProcFacts DEF ASSafe
      <4> QED BY <3>2, <4>1, <4>2
    <3> QED BY <3>1, <3>3 DEF Entry, so, Frame
  <2> QED BY <2>1, <2>2 DEF ASSafe, MemSafe, OwnersApart
<1>7. ASSUME NEW q \in DOMAIN proc
      PROVE  /\ table'[proc[q].dir] = table[proc[q].dir]
             /\ q # cur => table'[proc[q].ut] = table[proc[q].ut]
  <2>1. q # cur => proc[q].ut # proc[cur].ut
    BY <1>6 DEF ASSafe, MemSafe, OwnersApart
  <2> QED BY <2>1, <1>1, <1>2, <1>6, ProcFacts DEF ASSafe
<1>8. table'[proc[cur].ut] = [table[proc[cur].ut] EXCEPT ![ShmPage(s)] = e]
  BY <1>1, <1>2, ProcFacts DEF ASSafe
<1>9. \A q \in DOMAIN proc' : IsDirectory(table'[proc'[q].dir], proc'[q].ut)
  BY <1>3, <1>4, <1>7 DEF ASSafe, TablesRight
<1>10. \A q \in DOMAIN proc' : IsUserTable(table'[proc'[q].ut], proc'[q].data, proc'[q].shm)
  <2>1. \A q \in DOMAIN proc : IsUserTable(table[proc[q].ut], proc[q].data, proc[q].shm)
    BY DEF ASSafe, TablesRight
  <2>2. IsUserTable(table'[proc[cur].ut], proc[cur].data, [proc[cur].shm EXCEPT ![s] = e.frame])
    <3>1. proc[cur].shm \in [Slot -> Frame \cup {NoFrame}]
      BY ProcFacts DEF ASSafe
    <3>2. IsUserTable([table[proc[cur].ut] EXCEPT ![ShmPage(s)] = e], proc[cur].data,
                      [proc[cur].shm EXCEPT ![s] = e.frame])
      BY <2>1, <3>1, SetShmEntry
    <3> QED BY <1>8, <3>2
  <2> QED BY <2>1, <2>2, <1>3, <1>4, <1>7
<1>11. table'[IdleDir][0] = Entry(so, FALSE, TRUE) /\ table'[IdleDir][2] = Absent
  BY DEF ASSafe, TablesRight
<1> QED BY <1>5, <1>9, <1>10, <1>11 DEF TablesRight

LEMMA ShmatEntrySafe ==
  ASSUME ASSafe, MemSafe', NEW id \in ShmId, NEW s \in Slot, ShmatEntry(id, s)
  PROVE  ASSafe'
<1> DEFINE e == Entry(FrameFor(id), TRUE, TRUE)
<1>1. /\ ShmatMaps(cur, id, s) /\ cur \in DOMAIN proc
      /\ table' = [table EXCEPT ![UT(cur)] = [@ EXCEPT ![ShmPage(s)] = e]]
      /\ kernel_pt' = kernel_pt /\ contents' = contents /\ forking' = forking /\ forking = NoFork
      /\ cur' = cur /\ cr3' = cr3 /\ tlb' = Flushed'
  BY DEF ShmatEntry, Running, Flush, set_ss_pag, ASSafe, CurRight
<1>2. FrameFor(id) \in Frame
  BY <1>1, GiveFrameSafe DEF ShmatMaps, ASSafe
<1>3. e \in EntryRecord /\ e.frame = FrameFor(id) /\ e # Entry(NoFrame, TRUE, TRUE)
  BY <1>2, Layout, FramesAreInts DEF Entry, EntryRecord
<1>4. proc' = [proc EXCEPT ![cur].shm[s] = e.frame]
  BY <1>1, <1>3 DEF ShmatMaps
<1>5. UT(cur) \in Frame /\ table \in [Frame \cup {IdleDir} -> [Index -> EntryRecord]]
  <2>1. table[proc[cur].dir][2] = Entry(proc[cur].ut, TRUE, TRUE) /\ get_DIR(cur) = proc[cur].dir
    BY <1>1, ProcFacts DEF ASSafe, TablesRight, IsDirectory
  <2> QED BY <2>1, <1>1, ProcFacts DEF UT, Entry, ASSafe, TablesRight
<1> HIDE DEF e
<1>6. /\ table' \in [Frame \cup {IdleDir} -> [Index -> EntryRecord]]
      /\ table'[IdleDir] = table[IdleDir]
  BY <1>1, <1>3, <1>5, Layout
<1>7. TablesRight' /\ KernelTableRight'
  BY <1>1, <1>2, <1>3, <1>4, <1>6, ShmEntryTables
<1>8. CurRight'
  <2>1. DOMAIN proc' = DOMAIN proc /\ proc'[cur].dir = proc[cur].dir
    <3>1. proc \in [DOMAIN proc -> ProcRecord]
      BY DEF ASSafe, MemSafe, MemTyped, ProcTyped
    <3> QED BY <3>1, <1>1, <1>4 DEF ProcRecord
  <2> QED BY <2>1, <1>1 DEF ASSafe, CurRight, get_DIR, NoFork
<1>9. TempPageRight'
  BY <1>1, TempPageKept DEF ASSafe, ShmatMaps
<1> QED BY <1>1, <1>7, <1>8, <1>9 DEF ASSafe, NoStaleTranslation

LEMMA ShmdtEntrySafe ==
  ASSUME ASSafe, MemSafe', NEW s \in Slot, ShmdtEntry(s)
  PROVE  ASSafe'
<1> DEFINE t == [table EXCEPT ![UT(cur)] = [@ EXCEPT ![ShmPage(s)] = Absent]]
<1>1. /\ Shmdt(cur, s) /\ cur \in DOMAIN proc
      /\ ForgetFreed(t) /\ UnmapTemp
      /\ forking' = forking /\ forking = NoFork
      /\ cur' = cur /\ cr3' = cr3 /\ tlb' = Flushed'
  BY DEF ShmdtEntry, Running, Flush, del_ss_pag, ASSafe, CurRight, ForgetFreed
<1>2. Absent \in EntryRecord /\ Absent.frame = NoFrame /\ Absent # Entry(NoFrame, TRUE, TRUE)
  BY DEF Absent, Entry, EntryRecord, NoFrame
<1>3. proc' = [proc EXCEPT ![cur].shm[s] = Absent.frame]
  BY <1>1, <1>2 DEF Shmdt
<1>4. UT(cur) \in Frame /\ table \in [Frame \cup {IdleDir} -> [Index -> EntryRecord]]
  <2>1. table[proc[cur].dir][2] = Entry(proc[cur].ut, TRUE, TRUE) /\ get_DIR(cur) = proc[cur].dir
    BY <1>1, ProcFacts DEF ASSafe, TablesRight, IsDirectory
  <2> QED BY <2>1, <1>1, ProcFacts DEF UT, Entry, ASSafe, TablesRight
<1>5. t \in [Frame \cup {IdleDir} -> [Index -> EntryRecord]] /\ t[IdleDir] = table[IdleDir]
  BY <1>2, <1>4, Layout
<1>6. proc \in [DOMAIN proc -> ProcRecord]
  BY DEF ASSafe, MemSafe, MemTyped, ProcTyped
<1>7. /\ DOMAIN proc' = DOMAIN proc
      /\ \A q \in DOMAIN proc : /\ proc'[q].dir = proc[q].dir /\ proc'[q].ut = proc[q].ut
                                /\ proc'[q].data = proc[q].data
  BY <1>3, <1>6 DEF ProcRecord
<1> HIDE DEF t
<1>8. \A q \in DOMAIN proc : \A f \in {proc[q].dir, proc[q].ut} : table'[f] = t[f]
  <2> SUFFICES ASSUME NEW q \in DOMAIN proc PROVE \A f \in {proc[q].dir, proc[q].ut} : table'[f] = t[f]
    OBVIOUS
  <2>1. Own(q)' = Own(q) /\ {proc[q].dir, proc[q].ut} \subseteq Own(q) /\ q \in DOMAIN proc'
    BY <1>7 DEF Own
  <2>2. \A f \in Own(q) : table'[f] = t[f]
    BY <2>1, <1>1, <1>5, ForgetKeeps DEF ASSafe
  <2> QED BY <2>1, <2>2
<1>9. /\ table' \in [Frame \cup {IdleDir} -> [Index -> EntryRecord]]
      /\ table'[IdleDir] = table[IdleDir]
      /\ contents' \in [Frame \cup CodeFrames -> Word \cup {Garbage}]
  BY <1>1, <1>5, ForgetTyped DEF ASSafe, CurRight
<1>10. TablesRight' /\ KernelTableRight'
  <2>1. \A q \in DOMAIN proc : \A f \in {proc[q].dir, proc[q].ut} :
          table'[f] = [table EXCEPT ![UT(cur)] = [@ EXCEPT ![ShmPage(s)] = Absent]][f]
    BY <1>8 DEF t
  <2>2. kernel_pt' = kernel_pt \/ kernel_pt' = del_ss_pag(kernel_pt, TempPage)
    BY <1>1 DEF UnmapTemp
  <2> QED BY <2>1, <2>2, <1>1, <1>2, <1>3, <1>9, ShmEntryTables
<1>11. CurRight'
  BY <1>1, <1>7, <1>9 DEF ASSafe, CurRight, get_DIR, NoFork
<1>12. TempPageRight'
  BY <1>1, <1>7, TempPageKept DEF ASSafe
<1> QED BY <1>1, <1>10, <1>11, <1>12 DEF ASSafe, NoStaleTranslation

-----------------------------------------------------------------------------
(* fork.                                                                   *)

LEMMA FlushedNextAre ==
  ASSUME NEW ut \in Frame, cr3' = cr3, table'[cr3][2] = Entry(ut, TRUE, TRUE)
  PROVE  \A x : x \in Flushed' <=> \/ FromKernel(x, kernel_pt', table'[cr3])
                                   \/ FromUser(x, table'[ut], table'[cr3])
<1>1. Entry(ut, TRUE, TRUE) # Absent /\ Entry(ut, TRUE, TRUE).frame = ut
  BY Layout DEF Absent, Entry
<1> QED BY <1>1 DEF Flushed, Walk, FromKernel, FromUser

\* Mapping a frame to itself makes no old translation of the running process
\* stale, though the entry changes: user mode may not use the kernel's table.
LEMMA MapStructuresKeeps ==
  ASSUME ASSafe, cur \in DOMAIN proc, forking = NoFork,
         NEW fs \in SUBSET Frame, MapStructures(fs), cr3' = cr3, Keep,
         table'[proc[cur].dir] = table[proc[cur].dir], table'[proc[cur].ut] = table[proc[cur].ut]
  PROVE  tlb' = Flushed'
<1> DEFINE d == table[proc[cur].dir]
           t == table[proc[cur].ut]
<1>1. cr3 = proc[cur].dir /\ proc[cur].ut \in Frame /\ tlb = Flushed
  BY ProcFacts DEF ASSafe, CurRight, NoStaleTranslation
<1>2. d[0] = Entry(so, FALSE, TRUE) /\ d[2] = Entry(proc[cur].ut, TRUE, TRUE)
  BY DEF ASSafe, TablesRight, IsDirectory
<1>3. \A x : x \in tlb <=> FromKernel(x, kernel_pt, d) \/ FromUser(x, t, d)
  BY <1>1, FlushedAre DEF ASSafe
<1>4. \A x : x \in Flushed' <=> FromKernel(x, kernel_pt', d) \/ FromUser(x, t, d)
  BY <1>1, <1>2, FlushedNextAre
<1>5. ASSUME NEW x, FromKernel(x, kernel_pt, d) PROVE FromKernel(x, kernel_pt', d)
  <2>1. PICK f \in DOMAIN kernel_pt :
          /\ kernel_pt[f] # Absent
          /\ x = [space |-> "kernel", page |-> f, frame |-> kernel_pt[f].frame,
                  user |-> d[0].user /\ kernel_pt[f].user, rw |-> d[0].rw /\ kernel_pt[f].rw]
    BY <1>5 DEF FromKernel
  <2>2. f \in Frame \cup {TempPage} /\ kernel_pt[f].frame = f /\ kernel_pt[f].rw
    BY <2>1 DEF ASSafe, KernelTableRight, SelfMapped
  <2>3. d[0].user = FALSE /\ d[0].rw = TRUE
    BY <1>2 DEF Entry
  <2>4. x = [space |-> "kernel", page |-> f, frame |-> f, user |-> FALSE, rw |-> TRUE]
    BY <2>1, <2>2, <2>3
  <2>5. f \in DOMAIN kernel_pt' /\ kernel_pt'[f] = IF f \in fs THEN Entry(f, FALSE, TRUE) ELSE kernel_pt[f]
    BY <2>1 DEF MapStructures
  <2>6. kernel_pt'[f] # Absent /\ kernel_pt'[f].frame = f /\ kernel_pt'[f].rw = TRUE
    <3>1. CASE f \in fs
      <4>1. Entry(f, FALSE, TRUE) # Absent
        BY DEF Entry, Absent
      <4>2. Entry(f, FALSE, TRUE).frame = f /\ Entry(f, FALSE, TRUE).rw = TRUE
        BY DEF Entry
      <4> QED BY <3>1, <4>1, <4>2, <2>5
    <3>2. CASE f \notin fs
      <4>1. kernel_pt[f].rw \in BOOLEAN
        BY <2>2 DEF ASSafe, KernelTableRight, EntryRecord
      <4> QED BY <3>2, <4>1, <2>1, <2>2, <2>5
    <3> QED BY <3>1, <3>2
  <2>7. x = [space |-> "kernel", page |-> f, frame |-> kernel_pt'[f].frame,
             user |-> d[0].user /\ kernel_pt'[f].user, rw |-> d[0].rw /\ kernel_pt'[f].rw]
    BY <2>3, <2>4, <2>6
  <2> QED BY <2>5, <2>6, <2>7 DEF FromKernel
<1>6. tlb \subseteq Flushed'
  BY <1>3, <1>4, <1>5
<1> QED BY <1>6 DEF Keep

\* The kernel's table after the mapping of some frames.
LEMMA MapStructuresRight ==
  ASSUME ASSafe, NEW fs \in SUBSET Frame, MapStructures(fs),
         \A p \in DOMAIN proc' : \A f \in Structures(p)' :
           f \in Frame /\ (f \in fs \/ kernel_pt[f] # Absent)
  PROVE  KernelTableRight'
<1>1. /\ DOMAIN kernel_pt = Frame \cup {TempPage}
      /\ kernel_pt \in [Frame \cup {TempPage} -> EntryRecord]
      /\ \A f \in Frame \cup {TempPage} : SelfMapped(kernel_pt, f)
  BY DEF ASSafe, KernelTableRight
<1>2. kernel_pt' = [f \in Frame \cup {TempPage} |-> IF f \in fs THEN Entry(f, FALSE, TRUE) ELSE kernel_pt[f]]
  BY <1>1 DEF MapStructures
<1>3. \A f \in fs : /\ Entry(f, FALSE, TRUE) \in EntryRecord /\ Entry(f, FALSE, TRUE) # Absent
                    /\ Entry(f, FALSE, TRUE).frame = f /\ Entry(f, FALSE, TRUE).rw
  BY FramesAreInts DEF Entry, EntryRecord, Absent
<1>4. DOMAIN kernel_pt' = Frame \cup {TempPage} /\ kernel_pt' \in [Frame \cup {TempPage} -> EntryRecord]
  BY <1>1, <1>2, <1>3
<1>5. \A f \in Frame \cup {TempPage} : SelfMapped(kernel_pt', f)
  BY <1>1, <1>2, <1>3 DEF SelfMapped
<1>6. \A p \in DOMAIN proc' : \A f \in Structures(p)' : kernel_pt'[f] # Absent
  BY <1>2, <1>3
<1> QED BY <1>4, <1>5, <1>6 DEF KernelTableRight

LEMMA ForkFailsMappedSafe ==
  ASSUME ASSafe, MemSafe', ForkFailsMapped
  PROVE  ASSafe'
<1> DEFINE fs == {Alloc(k) : k \in 1..Min({3, Cardinality(Free)})}
<1>1. /\ proc' = proc /\ table' = table /\ contents' = contents /\ forking' = forking
      /\ forking = NoFork /\ cur' = cur /\ cr3' = cr3 /\ MapStructures(fs) /\ Keep
      /\ cur \in DOMAIN proc
  BY DEF ForkFailsMapped, ForkFails, Running, ASSafe, CurRight
<1>2. fs \in SUBSET Frame
  <2>1. Cardinality(Free) \in Nat /\ Free \subseteq Frame
    BY FreeFinite DEF Free
  <2>2. Min({3, Cardinality(Free)}) \in Nat /\ Min({3, Cardinality(Free)}) <= Cardinality(Free)
    BY <2>1 DEF Min
  <2>3. \A k \in 1..Min({3, Cardinality(Free)}) : k \in 1..Cardinality(Free)
    BY <2>1, <2>2
  <2> QED BY <2>1, <2>3, AllocFree
<1> HIDE DEF fs
<1>3. TablesRight'
  BY <1>1, TablesKept DEF ASSafe
<1>4. KernelTableRight'
  <2>1. \A p \in DOMAIN proc' : \A f \in Structures(p)' : f \in Frame /\ kernel_pt[f] # Absent
    BY <1>1, ProcFacts DEF ASSafe, KernelTableRight, Structures
  <2> QED BY <2>1, <1>1, <1>2, MapStructuresRight
<1>5. CurRight'
  BY <1>1 DEF ASSafe, CurRight, get_DIR
<1>6. tlb' = Flushed'
  BY <1>1, <1>2, MapStructuresKeeps
<1>7. TempPageRight'
  BY <1>1, TempPageKept DEF ASSafe
<1> QED BY <1>3, <1>4, <1>5, <1>6, <1>7 DEF ASSafe, NoStaleTranslation

\* The frames that fork takes are nobody's.
LEMMA ForkFrames ==
  ASSUME MemSafe, NEW p \in DOMAIN proc, Fork(p)
  PROVE  LET child == Alloc(1)
             dir == Alloc(2)
             ut == Alloc(3)
             data == {Alloc(k) : k \in 4..3 + NUM_PAG_DATA}
         IN  /\ child \in Frame /\ dir \in Frame /\ ut \in Frame /\ data \subseteq Frame /\ dir # ut
             /\ child \notin DOMAIN proc
             /\ \A q \in DOMAIN proc : /\ proc[q].dir \notin {dir, ut} /\ proc[q].ut \notin {dir, ut}
             /\ \A k \in 4..3 + NUM_PAG_DATA : Alloc(k) \in Frame
             /\ DOMAIN proc' = DOMAIN proc \cup {child}
             /\ \A q \in DOMAIN proc : proc'[q] = proc[q]
             /\ proc'[child].dir = dir /\ proc'[child].ut = ut
             /\ proc'[child].data = data /\ proc'[child].shm = proc[p].shm
<1> DEFINE child == Alloc(1)
           dir == Alloc(2)
           ut == Alloc(3)
           data == {Alloc(k) : k \in 4..3 + NUM_PAG_DATA}
<1>1. /\ Cardinality(Free) >= 3 + NUM_PAG_DATA
      /\ proc' = [q \in DOMAIN proc \cup {child} |->
                    IF q = child THEN [dir |-> dir, ut |-> ut, data |-> data, shm |-> proc[p].shm]
                                 ELSE proc[q]]
  BY DEF Fork
<1>2. NUM_PAG_DATA \in Nat \ {0} /\ Cardinality(Free) \in Nat
  BY MemoryAssumption, FreeFinite
<1>3. \A k \in 1..3 + NUM_PAG_DATA : k \in 1..Cardinality(Free) /\ Alloc(k) \in Free
  BY <1>1, <1>2, AllocFree
<1>4. child \in Free /\ dir \in Free /\ ut \in Free /\ dir # ut
  <2>1. 1 \in 1..3 + NUM_PAG_DATA /\ 2 \in 1..3 + NUM_PAG_DATA /\ 3 \in 1..3 + NUM_PAG_DATA
    BY <1>2
  <2>2. dir # ut
    BY <2>1, <1>3, AllocDistinct
  <2> QED BY <2>1, <2>2, <1>3
<1>5. \A k \in 4..3 + NUM_PAG_DATA : Alloc(k) \in Free
  BY <1>2, <1>3
<1>6. Free \subseteq Frame /\ Free \cap phys_mem = {}
  BY DEF Free
<1>7. \A q \in DOMAIN proc : q \in phys_mem /\ proc[q].dir \in phys_mem /\ proc[q].ut \in phys_mem
  BY DEF MemSafe, OwnersApart, Own
<1>8. child \notin DOMAIN proc
  BY <1>4, <1>6, <1>7
<1>9. DOMAIN proc' = DOMAIN proc \cup {child} /\ \A q \in DOMAIN proc : proc'[q] = proc[q]
  BY <1>1, <1>8
<1>10. proc'[child] = [dir |-> dir, ut |-> ut, data |-> data, shm |-> proc[p].shm]
  BY <1>1
<1>11. data \subseteq Frame
  BY <1>5, <1>6
<1> QED BY <1>4, <1>5, <1>6, <1>7, <1>8, <1>9, <1>10, <1>11

LEMMA ChildDirectoryRight ==
  ASSUME ASSafe, cur \in DOMAIN proc, Alloc(3) \in Frame
  PROVE  IsDirectory(ChildDirectory(cur), Alloc(3))
<1> DEFINE d == table[proc[cur].dir]
<1>1. ChildDirectory(cur) =
        [[[[i \in Index |-> Absent] EXCEPT ![0] = d[0]] EXCEPT ![1] = d[1]]
           EXCEPT ![2] = Entry(Alloc(3), TRUE, TRUE)]
  <2>1. get_DIR(cur) = proc[cur].dir
    BY ProcFacts DEF ASSafe
  <2> QED BY <2>1 DEF ChildDirectory, clear_page_table, set_ss_pag
<1>2. d \in [Index -> EntryRecord] /\ d[0] = Entry(so, FALSE, TRUE) /\ d[1] = Entry(so2, FALSE, TRUE)
  BY DEF ASSafe, TablesRight, IsDirectory
<1>3. Absent \in EntryRecord
  BY DEF Absent, Entry, EntryRecord, NoFrame
<1>4. PICK e : e = Entry(Alloc(3), TRUE, TRUE)
  OBVIOUS
<1>5. e \in EntryRecord
  <2>1. Alloc(3) \in Int
    BY FramesAreInts
  <2> QED BY <2>1, <1>4 DEF Entry, EntryRecord
<1>6. 0 \in Index /\ 1 \in Index /\ 2 \in Index
  BY Layout
<1>7. PICK c : c = ChildDirectory(cur)
  OBVIOUS
<1>8. c = [[[[i \in Index |-> Absent] EXCEPT ![0] = d[0]] EXCEPT ![1] = d[1]] EXCEPT ![2] = e]
  BY <1>1, <1>4, <1>7
<1>9. d[0] \in EntryRecord /\ d[1] \in EntryRecord
  BY <1>2, <1>6
<1> HIDE DEF d
<1>10. c \in [Index -> EntryRecord] /\ c[0] = d[0] /\ c[1] = d[1] /\ c[2] = e
  BY <1>3, <1>5, <1>6, <1>8, <1>9
<1> QED BY <1>2, <1>4, <1>7, <1>10 DEF IsDirectory

LEMMA ChildTableRight ==
  ASSUME ASSafe, cur \in DOMAIN proc, \A k \in 4..3 + NUM_PAG_DATA : Alloc(k) \in Frame
  PROVE  IsUserTable(ChildTable(cur), {Alloc(k) : k \in 4..3 + NUM_PAG_DATA}, proc[cur].shm)
<1> DEFINE parent == table[proc[cur].ut]
           shm == proc[cur].shm
           t == ChildTable(cur)
<1>1. UT(cur) = proc[cur].ut
  <2>1. table[proc[cur].dir][2] = Entry(proc[cur].ut, TRUE, TRUE) /\ get_DIR(cur) = proc[cur].dir
    BY ProcFacts DEF ASSafe, TablesRight, IsDirectory
  <2> QED BY <2>1 DEF UT, Entry
<1>2. t = [i \in Index |->
             IF i \in DataPage THEN Entry(Alloc(4 + i), TRUE, TRUE)
             ELSE IF i \in CodePage \/ parent[i].frame \in Range(shared_frames) \ {NoFrame}
                  THEN Entry(parent[i].frame, TRUE, TRUE)
                  ELSE Absent]
  BY <1>1 DEF ChildTable, clear_page_table
<1>3. /\ parent \in [Index -> EntryRecord]
      /\ \A i \in CodePage : parent[i].frame = CodeFrame(i)
      /\ \A s \in Slot : parent[ShmPage(s)].frame = shm[s]
  BY DEF ASSafe, TablesRight, IsUserTable
<1> HIDE DEF t, parent
<1>4. ASSUME NEW i \in DataPage
      PROVE  t[i] = Entry(Alloc(4 + i), TRUE, TRUE) /\ Alloc(4 + i) \in Frame
  <2>1. i \in Index
    BY Layout
  <2>2. 4 + i \in 4..3 + NUM_PAG_DATA
    BY Layout DEF DataPage
  <2> QED BY <2>1, <2>2, <1>2
<1>5. ASSUME NEW i \in CodePage
      PROVE  t[i] = Entry(CodeFrame(i), TRUE, TRUE) /\ CodeFrame(i) \in Int \ {NoFrame}
  <2>1. i \in Index \ DataPage
    BY Layout
  <2> QED BY <2>1, <1>2, <1>3, Layout
<1>6. ASSUME NEW s \in Slot
      PROVE  /\ shm[s] = NoFrame => t[ShmPage(s)] = Absent
             /\ shm[s] # NoFrame => t[ShmPage(s)] = Entry(shm[s], TRUE, TRUE)
  <2>1. ShmPage(s) \in Index \ (DataPage \cup CodePage) /\ parent[ShmPage(s)].frame = shm[s]
    BY <1>3, Layout
  <2>2. shm[s] # NoFrame => shm[s] \in Range(shared_frames) \ {NoFrame}
    <3>1. shm[s] # NoFrame => \E id \in ShmId : s \in SlotsOf(cur, id)
      BY DEF ASSafe, MemSafe, NoDanglingMapping
    <3>2. \A id \in ShmId : s \in SlotsOf(cur, id) => shm[s] = shared_frames[id]
      BY DEF SlotsOf
    <3>3. DOMAIN shared_frames = ShmId
      BY DEF ASSafe, MemSafe, MemTyped, SharedTyped
    <3> QED BY <3>1, <3>2, <3>3 DEF Range
  <2> QED BY <2>1, <2>2, <1>2
<1>7. \A s \in Slot : shm[s] \in Frame \cup {NoFrame}
  BY ProcFacts DEF ASSafe
<1>8. ASSUME NEW i \in Index
      PROVE  t[i] \in EntryRecord /\ t[i] # Entry(NoFrame, TRUE, TRUE)
  <2>1. ASSUME NEW f \in Int \ {NoFrame}, t[i] = Entry(f, TRUE, TRUE)
        PROVE  t[i] \in EntryRecord /\ t[i] # Entry(NoFrame, TRUE, TRUE)
    BY <2>1 DEF Entry, EntryRecord
  <2>2. CASE i \in DataPage
    <3>1. Alloc(4 + i) \in Int \ {NoFrame}
      BY <2>2, <1>4, FramesAreInts, Layout
    <3> QED BY <2>1, <2>2, <3>1, <1>4
  <2>3. CASE i \in CodePage
    BY <2>1, <2>3, <1>5
  <2>4. CASE i \notin DataPage \cup CodePage
    <3>1. PICK s \in Slot : i = ShmPage(s)
      BY <2>4, Layout
    <3>2. CASE shm[s] = NoFrame
      <4>1. Absent \in EntryRecord /\ Absent # Entry(NoFrame, TRUE, TRUE)
        BY DEF Absent, Entry, EntryRecord, NoFrame
      <4> QED BY <3>1, <3>2, <4>1, <1>6
    <3>3. CASE shm[s] # NoFrame
      BY <2>1, <3>1, <3>3, <1>6, <1>7, FramesAreInts
    <3> QED BY <3>2, <3>3
  <2> QED BY <2>2, <2>3, <2>4
<1>9. t \in [Index -> EntryRecord]
  BY <1>2, <1>8
<1>10. {t[i].frame : i \in DataPage} = {Alloc(k) : k \in 4..3 + NUM_PAG_DATA}
  <2>1. \A i \in DataPage : t[i].frame = Alloc(4 + i) /\ 4 + i \in 4..3 + NUM_PAG_DATA
    <3>1. \A i \in DataPage : 4 + i \in 4..3 + NUM_PAG_DATA
      BY Layout DEF DataPage
    <3>2. ASSUME NEW i \in DataPage PROVE t[i].frame = Alloc(4 + i)
      <4>1. t[i] = Entry(Alloc(4 + i), TRUE, TRUE)
        BY <1>4
      <4> QED BY <4>1 DEF Entry
    <3> QED BY <3>1, <3>2
  <2>2. \A k \in 4..3 + NUM_PAG_DATA : k - 4 \in DataPage /\ 4 + (k - 4) = k
    BY Layout DEF DataPage
  <2>3. \A k \in 4..3 + NUM_PAG_DATA : t[k - 4].frame = Alloc(k)
    BY <2>1, <2>2
  <2> QED BY <2>1, <2>2, <2>3
<1>11. ASSUME NEW i \in CodePage PROVE t[i].frame = CodeFrame(i)
  <2>1. t[i] = Entry(CodeFrame(i), TRUE, TRUE)
    BY <1>5
  <2> QED BY <2>1 DEF Entry
<1>12. ASSUME NEW s \in Slot PROVE t[ShmPage(s)].frame = shm[s]
  <2>1. shm[s] = NoFrame => t[ShmPage(s)].frame = NoFrame
    <3>1. shm[s] = NoFrame => t[ShmPage(s)] = Absent
      BY <1>6
    <3> QED BY <3>1 DEF Absent, Entry
  <2>2. shm[s] # NoFrame => t[ShmPage(s)].frame = shm[s]
    <3>1. shm[s] # NoFrame => t[ShmPage(s)] = Entry(shm[s], TRUE, TRUE)
      BY <1>6
    <3> QED BY <3>1 DEF Entry
  <2> QED BY <2>1, <2>2
<1>13. \A i \in Index : t[i] # GarbageTable[i]
  BY <1>8 DEF GarbageTable
<1> QED BY <1>9, <1>10, <1>11, <1>12, <1>13 DEF IsUserTable, t

LEMMA ForkBeginSafe ==
  ASSUME ASSafe, MemSafe', ForkBegin
  PROVE  ASSafe'
<1>1. PICK child : child = Alloc(1)
  OBVIOUS
<1>2. PICK dir : dir = Alloc(2)
  OBVIOUS
<1>3. PICK ut : ut = Alloc(3)
  OBVIOUS
<1>4. PICK data : data = {Alloc(k) : k \in 4..3 + NUM_PAG_DATA}
  OBVIOUS
<1>5. PICK cd : cd = ChildDirectory(cur)
  OBVIOUS
<1>6. PICK ct : ct = ChildTable(cur)
  OBVIOUS
<1>7. /\ Fork(cur) /\ forking = NoFork /\ cur \in DOMAIN proc
      /\ table' = [table EXCEPT ![dir] = cd, ![ut] = ct]
      /\ MapStructures({child, dir, ut})
      /\ forking' = [child |-> child, page |-> 0]
      /\ cur' = cur /\ cr3' = cr3 /\ contents' = contents /\ Keep
  BY <1>1, <1>2, <1>3, <1>5, <1>6 DEF ForkBegin, Running, ASSafe, CurRight
<1>8. /\ child \in Frame /\ dir \in Frame /\ ut \in Frame /\ data \subseteq Frame /\ dir # ut
      /\ child \notin DOMAIN proc
      /\ \A q \in DOMAIN proc : /\ proc[q].dir \notin {dir, ut} /\ proc[q].ut \notin {dir, ut}
      /\ \A k \in 4..3 + NUM_PAG_DATA : Alloc(k) \in Frame
      /\ DOMAIN proc' = DOMAIN proc \cup {child}
      /\ \A q \in DOMAIN proc : proc'[q] = proc[q]
      /\ proc'[child].dir = dir /\ proc'[child].ut = ut
      /\ proc'[child].data = data /\ proc'[child].shm = proc[cur].shm
  <2>1. MemSafe
    BY DEF ASSafe
  <2> QED BY <2>1, <1>1, <1>2, <1>3, <1>4, <1>7, ForkFrames
<1>9. IsDirectory(cd, ut)
  BY <1>3, <1>5, <1>7, <1>8, ChildDirectoryRight
<1>10. IsUserTable(ct, data, proc[cur].shm)
  BY <1>4, <1>6, <1>7, <1>8, ChildTableRight
<1>11. table \in [Frame \cup {IdleDir} -> [Index -> EntryRecord]]
  BY DEF ASSafe, TablesRight
<1>12. /\ table' \in [Frame \cup {IdleDir} -> [Index -> EntryRecord]]
       /\ table'[dir] = cd /\ table'[ut] = ct
       /\ \A f \in (Frame \cup {IdleDir}) \ {dir, ut} : table'[f] = table[f]
  BY <1>7, <1>8, <1>9, <1>10, <1>11 DEF IsDirectory, IsUserTable
<1>13. \A q \in DOMAIN proc : table'[proc[q].dir] = table[proc[q].dir] /\ table'[proc[q].ut] = table[proc[q].ut]
  BY <1>8, <1>12, ProcFacts DEF ASSafe
<1>14. TablesRight'
  <2>1. table'[IdleDir] = table[IdleDir]
    BY <1>8, <1>12, Layout
  <2>2. ASSUME NEW q \in DOMAIN proc'
        PROVE  /\ IsDirectory(table'[proc'[q].dir], proc'[q].ut)
               /\ IsUserTable(table'[proc'[q].ut], proc'[q].data, proc'[q].shm)
    <3>1. CASE q = child
      BY <3>1, <1>8, <1>9, <1>10, <1>12
    <3>2. CASE q \in DOMAIN proc
      BY <3>2, <1>8, <1>13 DEF ASSafe, TablesRight
    <3> QED BY <3>1, <3>2, <1>8
  <2> QED BY <2>1, <2>2, <1>12 DEF ASSafe, TablesRight
<1>15. KernelTableRight'
  <2>1. ASSUME NEW q \in DOMAIN proc', NEW f \in Structures(q)'
        PROVE  f \in Frame /\ (f \in {child, dir, ut} \/ kernel_pt[f] # Absent)
    <3>1. CASE q = child
      BY <3>1, <1>8 DEF Structures
    <3>2. CASE q \in DOMAIN proc
      BY <3>2, <1>8, ProcFacts DEF ASSafe, KernelTableRight, Structures
    <3> QED BY <3>1, <3>2, <1>8
  <2> QED BY <2>1, <1>7, <1>8, MapStructuresRight
<1>16. CurRight'
  <2>1. cr3' = get_DIR(cur)'
    BY <1>7, <1>8 DEF ASSafe, CurRight, get_DIR
  <2>2. cur # child
    BY <1>7, <1>8
  <2> QED BY <2>1, <2>2, <1>7, <1>8 DEF ASSafe, CurRight
<1>17. NoStaleTranslation'
  <2>1. forking' # NoFork
    BY <1>7, <1>8, Layout DEF NoFork
  <2> QED BY <2>1 DEF NoStaleTranslation
<1>18. TempPageRight'
  <2>1. forking'.child = child /\ forking'.page = 0
    BY <1>7
  <2>2. Live' = DOMAIN proc
    BY <2>1, <1>8 DEF Live
  <2>3. Live = DOMAIN proc
    BY <1>7, <1>8, ProcFacts, Layout DEF Live, NoFork, ASSafe
  <2> QED BY <2>1, <2>2, <2>3 DEF ASSafe, TempPageRight
<1> QED BY <1>14, <1>15, <1>16, <1>17, <1>18 DEF ASSafe

-----------------------------------------------------------------------------
(* The invariant.                                                          *)

LEMMA ASSafeInit == ASInit => ASSafe
<1> SUFFICES ASSUME ASInit PROVE ASSafe
  OBVIOUS
<1> DEFINE none == [i \in Index |-> Absent]
<1>1. PICK dir : dir = KernelEntries(clear_page_table(GarbageTable))
  OBVIOUS
<1>2. PICK pdir : pdir = set_ss_pag(dir, 2, 3, TRUE)
  OBVIOUS
<1>3. PICK upages : upages = set_user_pages(clear_page_table(GarbageTable), [i \in DataPage |-> 4 + i])
  OBVIOUS
<1>4. MemInit /\ MemSafe
  BY MemSafeInit DEF ASInit
<1>5. /\ cur = 1 /\ cr3 = 2 /\ forking = NoFork /\ tlb = Flushed
      /\ table = [f \in Frame \cup {IdleDir} |-> CASE f = 2 -> pdir [] f = 3 -> upages
                                                   [] f = IdleDir -> dir [] OTHER -> GarbageTable]
      /\ kernel_pt = [f \in Frame \cup {TempPage} |->
                        CASE f \in 1..2 -> Entry(f, FALSE, TRUE) [] f = 3 -> Entry(f, TRUE, TRUE)
                          [] OTHER -> Absent]
  BY <1>1, <1>2, <1>3 DEF ASInit
<1>16. contents \in [Frame \cup CodeFrames -> Word \cup {Garbage}]
  BY DEF ASInit
<1>6. /\ DOMAIN proc = {1} /\ proc[1].dir = 2 /\ proc[1].ut = 3
      /\ proc[1].data = 4..3 + NUM_PAG_DATA /\ proc[1].shm = [s \in Slot |-> NoFrame]
  BY <1>4 DEF MemInit
<1>7. 1 \in Frame /\ 2 \in Frame /\ 3 \in Frame /\ 0 \in Index /\ 1 \in Index /\ 2 \in Index
  BY MemoryAssumption, Layout DEF Frame
<1>8. /\ Absent \in EntryRecord /\ Entry(so, FALSE, TRUE) \in EntryRecord
      /\ Entry(so2, FALSE, TRUE) \in EntryRecord /\ Entry(3, TRUE, TRUE) \in EntryRecord
  BY DEF Absent, Entry, EntryRecord, NoFrame, so, so2
<1>9. /\ dir \in [Index -> EntryRecord]
      /\ dir[0] = Entry(so, FALSE, TRUE) /\ dir[1] = Entry(so2, FALSE, TRUE) /\ dir[2] = Absent
  <2>1. PICK a : a = Entry(so, FALSE, TRUE)
    OBVIOUS
  <2>2. PICK b : b = Entry(so2, FALSE, TRUE)
    OBVIOUS
  <2>3. dir = [[none EXCEPT ![0] = a] EXCEPT ![1] = b]
    BY <1>1, <2>1, <2>2 DEF KernelEntries, set_ss_pag, clear_page_table
  <2>4. a \in EntryRecord /\ b \in EntryRecord
    BY <1>8, <2>1, <2>2
  <2>5. Absent \in EntryRecord
    BY <1>8
  <2>6. dir \in [Index -> EntryRecord] /\ dir[0] = a /\ dir[1] = b /\ dir[2] = Absent
    BY <1>7, <2>3, <2>4, <2>5
  <2> QED BY <2>1, <2>2, <2>6
<1>10. IsDirectory(pdir, 3)
  <2>1. PICK e : e = Entry(3, TRUE, TRUE)
    OBVIOUS
  <2>2. pdir = [dir EXCEPT ![2] = e]
    BY <1>2, <2>1 DEF set_ss_pag
  <2>3. e \in EntryRecord
    BY <1>8, <2>1
  <2>4. dir \in [Index -> EntryRecord]
    BY <1>9
  <2>5. pdir \in [Index -> EntryRecord] /\ pdir[0] = dir[0] /\ pdir[1] = dir[1] /\ pdir[2] = e
    BY <1>7, <2>2, <2>3, <2>4
  <2> QED BY <1>9, <2>1, <2>5 DEF IsDirectory
<1>11. IsUserTable(upages, 4..3 + NUM_PAG_DATA, [s \in Slot |-> NoFrame])
  <2>1. upages = [i \in Index |-> CASE i \in DataPage -> Entry(4 + i, TRUE, TRUE)
                                    [] i \in CodePage -> Entry(CodeFrame(i), TRUE, FALSE)
                                    [] OTHER -> Absent]
    BY <1>3 DEF set_user_pages, clear_page_table
  <2>2. ASSUME NEW i \in DataPage PROVE upages[i] = Entry(4 + i, TRUE, TRUE)
    BY <2>1, Layout
  <2>3. ASSUME NEW i \in CodePage PROVE upages[i] = Entry(CodeFrame(i), TRUE, FALSE)
    BY <2>1, Layout
  <2>4. ASSUME NEW i \in Index \ (DataPage \cup CodePage) PROVE upages[i] = Absent
    BY <2>1
  <2>5. ASSUME NEW i \in DataPage
        PROVE  upages[i].frame = 4 + i /\ upages[i] \in EntryRecord /\ upages[i] # Entry(NoFrame, TRUE, TRUE)
    <3>1. PICK f : f = 4 + i
      OBVIOUS
    <3>2. f \in Int /\ f # NoFrame
      BY <3>1 DEF DataPage, NoFrame
    <3>3. upages[i] = Entry(f, TRUE, TRUE)
      BY <2>2, <3>1
    <3>4. upages[i].frame = f /\ upages[i] \in EntryRecord /\ upages[i] # Entry(NoFrame, TRUE, TRUE)
      BY <3>2, <3>3 DEF Entry, EntryRecord
    <3> QED BY <3>1, <3>4
  <2>6. ASSUME NEW i \in CodePage
        PROVE  /\ upages[i].frame = CodeFrame(i) /\ upages[i] \in EntryRecord
               /\ upages[i] # Entry(NoFrame, TRUE, TRUE)
    <3>1. PICK f : f = CodeFrame(i)
      OBVIOUS
    <3>2. f \in Int
      BY <3>1, Layout
    <3>3. upages[i] = Entry(f, TRUE, FALSE)
      BY <2>3, <3>1
    <3>4. upages[i].frame = f /\ upages[i] \in EntryRecord /\ upages[i] # Entry(NoFrame, TRUE, TRUE)
      BY <3>2, <3>3 DEF Entry, EntryRecord
    <3> QED BY <3>1, <3>4
  <2>7. ASSUME NEW i \in Index \ (DataPage \cup CodePage)
        PROVE  /\ upages[i].frame = NoFrame /\ upages[i] \in EntryRecord
               /\ upages[i] # Entry(NoFrame, TRUE, TRUE)
    <3>1. Absent.frame = NoFrame /\ Absent # Entry(NoFrame, TRUE, TRUE)
      BY DEF Absent, Entry
    <3>2. upages[i] = Absent
      BY <2>4
    <3> QED BY <1>8, <3>1, <3>2
  <2>8. upages \in [Index -> EntryRecord] /\ \A i \in Index : upages[i] # GarbageTable[i]
    BY <2>1, <2>5, <2>6, <2>7 DEF GarbageTable
  <2>9. {upages[i].frame : i \in DataPage} = 4..3 + NUM_PAG_DATA
    <3>1. \A i \in DataPage : upages[i].frame = 4 + i /\ 4 + i \in 4..3 + NUM_PAG_DATA
      <4>1. \A i \in DataPage : 4 + i \in 4..3 + NUM_PAG_DATA
        BY Layout DEF DataPage
      <4> QED BY <4>1, <2>5
    <3>2. \A k \in 4..3 + NUM_PAG_DATA : k - 4 \in DataPage /\ 4 + (k - 4) = k
      BY Layout DEF DataPage
    <3> QED BY <3>1, <3>2
  <2>10. \A s \in Slot : upages[ShmPage(s)].frame = [r \in Slot |-> NoFrame][s]
    BY <2>7, Layout
  <2> QED BY <2>6, <2>8, <2>9, <2>10 DEF IsUserTable
<1>12. TablesRight
  <2>1. table[2] = pdir /\ table[3] = upages /\ table[IdleDir] = dir
    BY <1>5, <1>7, Layout
  <2>2. table \in [Frame \cup {IdleDir} -> [Index -> EntryRecord]]
    BY <1>5, <1>9, <1>10, <1>11, GarbageTyped DEF IsDirectory, IsUserTable
  <2> QED BY <2>1, <2>2, <1>6, <1>9, <1>10, <1>11 DEF TablesRight
<1>13. KernelTableRight
  <2>2. ASSUME NEW f \in Frame \cup {TempPage}
        PROVE  /\ f \in 1..2 => kernel_pt[f] = Entry(f, FALSE, TRUE)
               /\ f = 3 => kernel_pt[f] = Entry(f, TRUE, TRUE)
               /\ f \notin 1..3 => kernel_pt[f] = Absent
    <3>1. f \in 1..3 <=> f \in 1..2 \/ f = 3
      OBVIOUS
    <3>2. 3 \notin 1..2
      OBVIOUS
    <3> QED BY <1>5, <3>1, <3>2, Zenon
  <2>3. ASSUME NEW f \in Frame \cup {TempPage}
        PROVE  \/ /\ f \in 1..3 /\ kernel_pt[f] \in EntryRecord /\ kernel_pt[f] # Absent
                  /\ kernel_pt[f].frame = f /\ kernel_pt[f].rw
               \/ f \notin 1..3 /\ kernel_pt[f] = Absent
    <3>1. CASE f \in 1..2
      <4>1. f \in 1..3
        BY <3>1
      <4>2. kernel_pt[f] = Entry(f, FALSE, TRUE)
        BY <2>2, <3>1, Zenon
      <4>3. kernel_pt[f] \in EntryRecord /\ kernel_pt[f] # Absent /\ kernel_pt[f].frame = f /\ kernel_pt[f].rw
        BY <4>1, <4>2 DEF Entry, EntryRecord, Absent
      <4> QED BY <4>1, <4>3
    <3>2. CASE f = 3
      <4>1. f \in 1..3
        BY <3>2
      <4>2. kernel_pt[f] = Entry(f, TRUE, TRUE)
        BY <2>2, <3>2, Zenon
      <4>3. kernel_pt[f] \in EntryRecord /\ kernel_pt[f] # Absent /\ kernel_pt[f].frame = f /\ kernel_pt[f].rw
        BY <4>1, <4>2 DEF Entry, EntryRecord, Absent
      <4> QED BY <4>1, <4>3
    <3>3. CASE f \notin 1..3
      BY <2>2, <3>3
    <3>4. f \in 1..3 => f \in 1..2 \/ f = 3
      OBVIOUS
    <3> QED BY <3>1, <3>2, <3>3, <3>4
  <2>5. DOMAIN kernel_pt = Frame \cup {TempPage} /\ kernel_pt \in [Frame \cup {TempPage} -> EntryRecord]
    BY <1>5, <1>8, <2>3
  <2>6. \A f \in Frame \cup {TempPage} : SelfMapped(kernel_pt, f)
    BY <2>3 DEF SelfMapped
  <2>7. \A p \in DOMAIN proc : \A f \in Structures(p) : kernel_pt[f] # Absent
    BY <1>6, <1>7, <2>3 DEF Structures
  <2> QED BY <2>5, <2>6, <2>7 DEF KernelTableRight
<1>14. CurRight
  BY <1>5, <1>6, <1>16 DEF CurRight, get_DIR, Idle, NoFork
<1>15. TempPageRight
  <2>1. TempPage # 1
    BY AddressSpaceAssumption, MemoryAssumption
  <2> QED BY <2>1, <1>5, <1>6 DEF TempPageRight, Live
<1> QED BY <1>4, <1>5, <1>12, <1>13, <1>14, <1>15 DEF ASSafe, NoStaleTranslation

LEMMA ASSafeNext == ASSafe /\ [ASNext]_<<memVars, asVars>> => ASSafe'
<1> SUFFICES ASSUME ASSafe, [ASNext]_<<memVars, asVars>> PROVE ASSafe'
  OBVIOUS
<1>0. MemSafe'
  BY StepOfMemory, MemSafeNext DEF ASSafe
<1>1. ASSUME NEW i \in Index, NEW w \in Word, Store(i, w) PROVE ASSafe'
  BY <1>0, <1>1, StoreSafe
<1>2. ASSUME NEW t \in DOMAIN proc \cup {Idle}, Switch(t) PROVE ASSafe'
  BY <1>0, <1>2, SwitchSafe
<1>3. CASE ForkBegin
  BY <1>0, <1>3, ForkBeginSafe
<1>4. CASE CopyPage
  BY <1>0, <1>4, CopyPageSafe
<1>5. CASE ForkEnd
  BY <1>0, <1>5, ForkEndSafe
<1>6. CASE ForkFailsMapped
  BY <1>0, <1>6, ForkFailsMappedSafe
<1>7. CASE ExitSwitches
  BY <1>0, <1>7, ExitSwitchesSafe
<1>13. CASE CallFaults \/ ForkFaults
  BY <1>0, <1>13, FaultSafe
<1>8. ASSUME NEW id \in ShmId, NEW s \in Slot, ShmatEntry(id, s) PROVE ASSafe'
  BY <1>0, <1>8, ShmatEntrySafe
<1>9. ASSUME NEW id \in ShmId, ShmatNoEntry(id) PROVE ASSafe'
  BY <1>0, <1>9, ShmatNoEntrySafe
<1>10. ASSUME NEW id \in ShmId, ShmrmFlushes(id) PROVE ASSafe'
  BY <1>0, <1>10, ShmrmFlushesSafe
<1>11. ASSUME NEW s \in Slot, ShmdtEntry(s) PROVE ASSafe'
  BY <1>0, <1>11, ShmdtEntrySafe
<1>12. CASE UNCHANGED <<memVars, asVars>>
  <2>1. /\ proc' = proc /\ table' = table /\ kernel_pt' = kernel_pt /\ contents' = contents
        /\ forking' = forking /\ cur' = cur /\ cr3' = cr3 /\ tlb' = tlb
    BY <1>12 DEF memVars, asVars
  <2>2. TablesRight' /\ KernelTableRight' /\ TempPageRight'
    BY <2>1, TablesKept, KernelTableKept DEF ASSafe, TempPageRight, Live
  <2>3. CurRight' /\ NoStaleTranslation'
    BY <2>1, SameWalk DEF ASSafe, CurRight, NoStaleTranslation, get_DIR
  <2> QED BY <1>0, <2>2, <2>3 DEF ASSafe
<1> QED
  BY <1>1, <1>2, <1>3, <1>4, <1>5, <1>6, <1>7, <1>8, <1>9, <1>10, <1>11, <1>12, <1>13 DEF ASNext

\* Every step keeps the tables, the kernel's table and the TLB in line with the
\* accounts of frames and shared pages.
THEOREM ASAlwaysSafe == ASSpec => []ASSafe
BY ASSafeInit, ASSafeNext, PTL DEF ASSpec

\* The kernel with page tables implements the accounts of Memory: all that is
\* proved of fork, exit, shmat, shmdt and shmrm there holds of it.
THEOREM ASImplementsMemory == ASSpec => MemSpec
<1>1. ASInit => MemInit
  BY DEF ASInit
<1>2. ASSafe /\ [ASNext]_<<memVars, asVars>> => [MemNext]_memVars
  BY StepOfMemory
<1> QED BY <1>1, <1>2, ASAlwaysSafe, PTL DEF ASSpec, MemSpec

\* Outside fork no translation outlives what the tables say: every call that
\* changes an entry in use writes CR3, and sys_fork's own mappings are harmless.
THEOREM ASNoStaleTranslation == ASSpec => []NoStaleTranslation
<1>1. ASSafe => NoStaleTranslation
  BY DEF ASSafe
<1> QED BY <1>1, ASAlwaysSafe, PTL

\* The page tables map what the accounts say, and nothing else.
THEOREM ASTablesAgree == ASSpec => []TablesAgree
<1>1. ASSafe => TablesAgree
  <2> SUFFICES ASSUME ASSafe, NEW p \in DOMAIN proc
               PROVE  /\ UT(p) = proc[p].ut
                      /\ {table[UT(p)][i].frame : i \in DataPage} = proc[p].data
                      /\ \A i \in CodePage : table[UT(p)][i].frame = CodeFrame(i)
                      /\ \A s \in Slot : table[UT(p)][ShmPage(s)].frame = proc[p].shm[s]
    BY DEF TablesAgree
  <2>1. IsDirectory(table[proc[p].dir], proc[p].ut) /\ IsUserTable(table[proc[p].ut], proc[p].data, proc[p].shm)
    BY DEF ASSafe, TablesRight
  <2>2. UT(p) = proc[p].ut
    <3>1. table[proc[p].dir][2] = Entry(proc[p].ut, TRUE, TRUE) /\ get_DIR(p) = proc[p].dir
      BY <2>1, ProcFacts DEF ASSafe, IsDirectory
    <3> QED BY <3>1 DEF UT, Entry
  <2> QED BY <2>1, <2>2 DEF IsUserTable
<1> QED BY <1>1, ASAlwaysSafe, PTL

\* From user mode a process reaches its own data, the code and the pages it has
\* attached, and nothing of the kernel's table.
THEOREM ASUserReachesItsOwn == ASSpec => []UserReachesItsOwn
<1>1. ASSafe => UserReachesItsOwn
  <2> SUFFICES ASSUME ASSafe, forking = NoFork, cur # Idle, NEW x \in tlb, x.user
               PROVE  \/ x.frame \in proc[cur].data \cup Range(proc[cur].shm)
                      \/ \E i \in CodePage : x.frame = CodeFrame(i)
    BY DEF UserReachesItsOwn
  <2>1. cur \in DOMAIN proc /\ cr3 = proc[cur].dir /\ x \in Flushed
    BY DEF ASSafe, CurRight, get_DIR, NoStaleTranslation
  <2>2. \/ FromKernel(x, kernel_pt, table[proc[cur].dir])
        \/ FromUser(x, table[proc[cur].ut], table[proc[cur].dir])
    BY <2>1, FlushedAre DEF ASSafe
  <2>3. ~ FromKernel(x, kernel_pt, table[proc[cur].dir])
    <3>1. table[proc[cur].dir][0] = Entry(so, FALSE, TRUE)
      BY <2>1 DEF ASSafe, TablesRight, IsDirectory
    <3>2. table[proc[cur].dir][0].user = FALSE
      BY <3>1 DEF Entry
    <3>3. ASSUME NEW f, x = [space |-> "kernel", page |-> f, frame |-> kernel_pt[f].frame,
                             user |-> table[proc[cur].dir][0].user /\ kernel_pt[f].user,
                             rw |-> table[proc[cur].dir][0].rw /\ kernel_pt[f].rw]
          PROVE  FALSE
      <4>1. x.user = (table[proc[cur].dir][0].user /\ kernel_pt[f].user)
        BY <3>3
      <4> QED BY <3>2, <4>1
    <3> QED BY <3>3 DEF FromKernel
  <2>4. PICK i \in Index : table[proc[cur].ut][i] # Absent /\ x.frame = table[proc[cur].ut][i].frame
    BY <2>2, <2>3 DEF FromUser
  <2>5. IsUserTable(table[proc[cur].ut], proc[cur].data, proc[cur].shm)
    BY <2>1 DEF ASSafe, TablesRight
  <2>6. CASE i \in DataPage
    BY <2>4, <2>5, <2>6 DEF IsUserTable
  <2>7. CASE i \in CodePage
    BY <2>4, <2>5, <2>7 DEF IsUserTable
  <2>8. CASE i \notin DataPage \cup CodePage
    <3>1. PICK s \in Slot : i = ShmPage(s)
      BY <2>8, Layout
    <3>2. x.frame = proc[cur].shm[s] /\ DOMAIN proc[cur].shm = Slot
      BY <2>1, <2>4, <2>5, <3>1, ProcFacts DEF IsUserTable, ASSafe
    <3> QED BY <3>2 DEF Range
  <2> QED BY <2>6, <2>7, <2>8
<1> QED BY <1>1, ASAlwaysSafe, PTL

\* Whoever runs, the kernel finds every PCB of a finished process, and every
\* directory and page table but one in the frame of the temporary page.
THEOREM ASKernelReachesStructures == ASSpec => []KernelReachesStructures
<1>1. ASSafe => KernelReachesStructures
  <2> SUFFICES ASSUME ASSafe PROVE KernelReachesStructures
    OBVIOUS
  <2>1. ASSUME NEW f \in Frame, kernel_pt[f] # Absent
        PROVE  f \in Reached(Flushed, "kernel", f)
    <3>1. kernel_pt[f].frame = f /\ f \in DOMAIN kernel_pt
      BY <2>1 DEF ASSafe, KernelTableRight, SelfMapped
    <3>2. PICK x : x = [space |-> "kernel", page |-> f, frame |-> kernel_pt[f].frame,
                        user |-> table[cr3][0].user /\ kernel_pt[f].user,
                        rw |-> table[cr3][0].rw /\ kernel_pt[f].rw]
      OBVIOUS
    <3>3. FromKernel(x, kernel_pt, table[cr3])
      BY <2>1, <3>1, <3>2 DEF FromKernel
    <3>4. x \in Flushed
      <4>1. CASE cur \in DOMAIN proc
        <5>1. cr3 = proc[cur].dir
          BY <4>1, ProcFacts DEF ASSafe, CurRight
        <5> QED BY <3>3, <4>1, <5>1, FlushedAre DEF ASSafe
      <4>2. CASE cur = Idle
        <5>1. cr3 = IdleDir
          BY <4>2 DEF ASSafe, CurRight, get_DIR
        <5> QED BY <3>3, <5>1, WalkOfIdle DEF ASSafe, Flushed
      <4> QED BY <4>1, <4>2 DEF ASSafe, CurRight
    <3> QED BY <3>1, <3>2, <3>4 DEF Reached
  <2>2. ASSUME NEW p \in DOMAIN proc, NEW f \in {p, proc[p].dir, proc[p].ut}, f # TempPage
        PROVE  f \in Frame /\ kernel_pt[f] # Absent
    BY <2>2, ProcFacts DEF ASSafe, KernelTableRight, Structures
  <2>3. \A f \in (UNION {{p, proc[p].dir, proc[p].ut} : p \in DOMAIN proc}) \ {TempPage} :
          f \in Reached(Flushed, "kernel", f)
    BY <2>1, <2>2
  <2>4. \A p \in Live : p \in Reached(Flushed, "kernel", p)
    <3>1. \A p \in Live : p \in DOMAIN proc /\ p # TempPage
      BY DEF ASSafe, TempPageRight, Live
    <3> QED BY <2>1, <2>2, <3>1
  <2> QED BY <2>3, <2>4 DEF KernelReachesStructures, Finds
<1> QED BY <1>1, ASAlwaysSafe, PTL

\* The current process is a finished one, CR3 is its directory, and its table
\* holds no entry that nobody wrote.
THEOREM ASTypeCorrect == ASSpec => []ASTypeOK
<1>1. ASSafe => ASTypeOK
  <2> SUFFICES ASSUME ASSafe PROVE ASTypeOK
    OBVIOUS
  <2>1. cur \in Live \cup {Idle} /\ cr3 = get_DIR(cur) /\ contents \in [Frame \cup CodeFrames -> Word \cup {Garbage}]
    <3>1. CASE forking = NoFork
      <4>1. cur # Idle => cur \in DOMAIN proc /\ cur # NoFrame
        BY ProcFacts, Layout DEF ASSafe, CurRight
      <4> QED BY <3>1, <4>1 DEF ASSafe, CurRight, Live, NoFork
    <3>2. CASE forking # NoFork
      BY <3>2 DEF ASSafe, CurRight, Live
    <3> QED BY <3>1, <3>2
  <2>2. ASSUME NEW p \in Live, NEW i \in Index
        PROVE  table[UT(p)][i] # GarbageTable[i]
    <3>1. table[proc[p].dir][2] = Entry(proc[p].ut, TRUE, TRUE) /\ get_DIR(p) = proc[p].dir
      BY ProcFacts DEF ASSafe, TablesRight, IsDirectory, Live
    <3>2. UT(p) = proc[p].ut
      BY <3>1 DEF UT, Entry
    <3> QED BY <3>2 DEF ASSafe, TablesRight, IsUserTable, Live
  <2> QED BY <2>1, <2>2 DEF ASTypeOK
<1> QED BY <1>1, ASAlwaysSafe, PTL
-----------------------------------------------------------------------------
(* What programs see.                                                      *)

\* The frame of a data page.
DataFrame(p, i) == table[proc[p].ut][i].frame

\* The data pages of all processes and the shared pages are in different frames.
PagesApart ==
  /\ \A p \in DOMAIN proc, i \in DataPage : DataFrame(p, i) \in proc[p].data
  /\ \A p \in DOMAIN proc : \A i, j \in DataPage : DataFrame(p, i) = DataFrame(p, j) => i = j
  /\ \A p, q \in DOMAIN proc : p # q =>
       \A i, j \in DataPage : DataFrame(p, i) # DataFrame(q, j)
  /\ \A id \in ShmId : shared_frames[id] # NoFrame =>
       /\ shared_frames[id] \in Frame
       /\ \A p \in DOMAIN proc, i \in DataPage : shared_frames[id] # DataFrame(p, i)

\* A shared page has one id.
IdsRight ==
  /\ \A p \in DOMAIN proc, s \in Slot : proc[p].shm[s] # NoFrame =>
       /\ IdOf(proc[p].shm[s]) \in ShmId
       /\ shared_frames[IdOf(proc[p].shm[s])] = proc[p].shm[s]
  /\ \A id \in ShmId : shared_frames[id] # NoFrame => IdOf(shared_frames[id]) = id

\* What programs see, in the terms of the accounts.
Views ==
  /\ Pages = [p \in Live |-> [i \in DataPage |-> contents[DataFrame(p, i)]]]
  /\ Attached = [p \in Live |-> [s \in Slot |-> IdOf(proc[p].shm[s])]]
  /\ PagesApart
  /\ IdsRight

LEMMA TableOfProcess ==
  ASSUME ASSafe, NEW p \in DOMAIN proc
  PROVE  UT(p) = proc[p].ut
<1>1. table[proc[p].dir][2] = Entry(proc[p].ut, TRUE, TRUE) /\ get_DIR(p) = proc[p].dir
  BY ProcFacts DEF ASSafe, TablesRight, IsDirectory
<1> QED BY <1>1 DEF UT, Entry

\* A process has as many data frames as data pages, so each page has its own.
LEMMA DataApart ==
  ASSUME ASSafe, NEW p \in DOMAIN proc, NEW i \in DataPage, NEW j \in DataPage,
         DataFrame(p, i) = DataFrame(p, j)
  PROVE  i = j
<1> DEFINE f == [k \in DataPage |-> DataFrame(p, k)]
<1>1. proc[p].data = {DataFrame(p, k) : k \in DataPage}
  BY DEF ASSafe, TablesRight, IsUserTable, DataFrame
<1>2. f \in Surjection(DataPage, proc[p].data)
  BY <1>1 DEF Surjection
<1>3. IsFiniteSet(DataPage) /\ Cardinality(DataPage) = NUM_PAG_DATA
  <2>1. NUM_PAG_DATA \in Nat \ {0}
    BY Layout
  <2>2. /\ IsFiniteSet(0..NUM_PAG_DATA - 1)
        /\ Cardinality(0..NUM_PAG_DATA - 1) =
             IF 0 > NUM_PAG_DATA - 1 THEN 0 ELSE (NUM_PAG_DATA - 1) - 0 + 1
    BY <2>1, FS_Interval
  <2> QED BY <2>1, <2>2 DEF DataPage
<1>4. /\ IsFiniteSet(proc[p].data)
      /\ Cardinality(proc[p].data) <= Cardinality(DataPage)
      /\ Cardinality(proc[p].data) = Cardinality(DataPage) => f \in Injection(DataPage, proc[p].data)
  <2> HIDE DEF f
  <2> QED BY <1>2, <1>3, FS_Surjection
<1>5. Cardinality(proc[p].data) >= NUM_PAG_DATA
  <2> DEFINE heads == {p, proc[p].dir, proc[p].ut}
  <2>1. IsFiniteSet(heads) /\ Cardinality(heads) <= 3
    <3>1. IsFiniteSet({p}) /\ Cardinality({p}) = 1
      BY FS_Singleton
    <3>2. PICK two : two = {p} \cup {proc[p].dir}
      OBVIOUS
    <3>3. IsFiniteSet(two) /\ Cardinality(two) \in Nat /\ Cardinality(two) <= 2
      <4>1. IsFiniteSet(two) /\ (Cardinality(two) = Cardinality({p}) \/ Cardinality(two) = Cardinality({p}) + 1)
        BY <3>1, <3>2, FS_AddElement
      <4> QED BY <3>1, <4>1
    <3>4. heads = two \cup {proc[p].ut}
      BY <3>2
    <3>5. IsFiniteSet(heads) /\ (Cardinality(heads) = Cardinality(two) \/ Cardinality(heads) = Cardinality(two) + 1)
      BY <3>3, <3>4, FS_AddElement
    <3> QED BY <3>3, <3>5
  <2>2. Own(p) = heads \cup proc[p].data /\ Cardinality(Own(p)) = 3 + NUM_PAG_DATA
    BY DEF Own, ASSafe, MemSafe, OwnersApart
  <2> HIDE DEF heads
  <2>3. Cardinality(heads \cup proc[p].data) =
          Cardinality(heads) + Cardinality(proc[p].data) - Cardinality(heads \cap proc[p].data)
    BY <2>1, <1>4, FS_Union
  <2>4. Cardinality(heads) \in Nat /\ Cardinality(proc[p].data) \in Nat
    BY <2>1, <1>4, FS_CardinalityType
  <2>5. Cardinality(heads \cap proc[p].data) \in Nat
    <3>1. IsFiniteSet(heads \cap proc[p].data)
      BY <2>1, FS_Intersection
    <3> QED BY <3>1, FS_CardinalityType
  <2> QED BY <2>1, <2>2, <2>3, <2>4, <2>5, Layout
<1>6. f \in Injection(DataPage, proc[p].data)
  <2>1. Cardinality(proc[p].data) \in Nat
    BY <1>4, FS_CardinalityType
  <2> QED BY <1>3, <1>4, <1>5, <2>1, Layout
<1>7. f[i] = f[j]
  OBVIOUS
<1> QED BY <1>6, <1>7 DEF Injection, IsInjective

LEMMA FramesApart == ASSafe => PagesApart
<1> SUFFICES ASSUME ASSafe PROVE PagesApart
  OBVIOUS
<1>1. ASSUME NEW p \in DOMAIN proc, NEW i \in DataPage
      PROVE  DataFrame(p, i) \in proc[p].data /\ DataFrame(p, i) \in Own(p)
  BY DEF ASSafe, TablesRight, IsUserTable, DataFrame, Own
<1>2. ASSUME NEW p \in DOMAIN proc, NEW q \in DOMAIN proc, p # q, NEW i \in DataPage, NEW j \in DataPage
      PROVE  DataFrame(p, i) # DataFrame(q, j)
  <2>1. Own(p) \cap Own(q) = {}
    BY <1>2 DEF ASSafe, MemSafe, OwnersApart
  <2> QED BY <2>1, <1>1
<1>3. ASSUME NEW id \in ShmId, shared_frames[id] # NoFrame
      PROVE  /\ shared_frames[id] \in Frame
             /\ \A p \in DOMAIN proc : shared_frames[id] \notin Own(p)
  BY <1>3 DEF ASSafe, MemSafe, SharedApart, MemTyped, SharedTyped
<1> QED BY <1>1, <1>2, <1>3, DataApart DEF PagesApart

LEMMA ViewsHold == ASSafe => Views
<1> SUFFICES ASSUME ASSafe PROVE Views
  OBVIOUS
<1>1. PagesApart
  BY FramesApart
<1>2. IdsRight
  <2>1. ASSUME NEW id \in ShmId, shared_frames[id] # NoFrame
        PROVE  IdOf(shared_frames[id]) = id
    <3>1. \A j \in ShmId : shared_frames[j] = shared_frames[id] => j = id
      BY <2>1 DEF ASSafe, MemSafe, SharedApart
    <3> QED BY <2>1, <3>1 DEF IdOf
  <2>2. ASSUME NEW p \in DOMAIN proc, NEW s \in Slot, proc[p].shm[s] # NoFrame
        PROVE  \E id \in ShmId : shared_frames[id] = proc[p].shm[s]
    BY <2>2 DEF ASSafe, MemSafe, NoDanglingMapping, SlotsOf
  <2>3. ASSUME NEW p \in DOMAIN proc, NEW s \in Slot, proc[p].shm[s] # NoFrame
        PROVE  /\ IdOf(proc[p].shm[s]) \in ShmId
               /\ shared_frames[IdOf(proc[p].shm[s])] = proc[p].shm[s]
    <3>1. PICK id \in ShmId : shared_frames[id] = proc[p].shm[s]
      BY <2>2, <2>3
    <3> QED BY <2>1, <2>3, <3>1
  <2> QED BY <2>1, <2>3 DEF IdsRight
<1>3. \A p \in Live : p \in DOMAIN proc /\ UT(p) = proc[p].ut
  BY TableOfProcess DEF Live
<1>4. Pages = [p \in Live |-> [i \in DataPage |-> contents[DataFrame(p, i)]]]
  <2>1. \A p \in Live, i \in DataPage : DataFrame(p, i) \in Frame
    BY <1>1, <1>3, ProcFacts DEF PagesApart, ASSafe
  <2>2. \A p \in Live, i \in DataPage : Seen(p, i) = contents[DataFrame(p, i)]
    BY <1>3, <2>1 DEF Seen, DataFrame
  <2> QED BY <2>2 DEF Pages
<1>5. Attached = [p \in Live |-> [s \in Slot |-> IdOf(proc[p].shm[s])]]
  <2>1. \A p \in Live, s \in Slot : table[UT(p)][ShmPage(s)].frame = proc[p].shm[s]
    BY <1>3 DEF ASSafe, TablesRight, IsUserTable
  <2> QED BY <2>1 DEF Attached
<1> QED BY <1>1, <1>2, <1>4, <1>5 DEF Views

LEMMA ViewsNext == ASSafe' => Views'
BY ViewsHold, PTL

-----------------------------------------------------------------------------
(* Each step, as programs see it.                                          *)

\* As far as fork has copied the pages, the child has what its parent has.
CopyRight ==
  forking # NoFork =>
    /\ forking.page \in 0..NUM_PAG_DATA
    /\ proc[forking.child].shm = proc[cur].shm
    /\ \A i \in DataPage : i < forking.page =>
         contents[DataFrame(forking.child, i)] = contents[DataFrame(cur, i)]

LEMMA LiveOutsideFork == ASSafe /\ forking = NoFork => Live = DOMAIN proc
<1> SUFFICES ASSUME ASSafe, forking = NoFork PROVE Live = DOMAIN proc
  OBVIOUS
<1>1. \A p \in DOMAIN proc : p # NoFrame
  BY ProcFacts, Layout DEF ASSafe
<1> QED BY <1>1 DEF Live, NoFork

LEMMA LiveNext == ASSafe' /\ forking' = NoFork => Live' = DOMAIN proc'
<1> SUFFICES ASSUME ASSafe', forking' = NoFork PROVE Live' = DOMAIN proc'
  OBVIOUS
<1>1. DOMAIN proc' \subseteq Frame
  BY DEF ASSafe, MemSafe, MemTyped, ProcTyped
<1>2. forking'.child = NoFrame
  BY DEF NoFork
<1> QED BY <1>1, <1>2, Layout DEF Live

\* A page of a process that holds the same, in the same frame or another.
LEMMA SamePages ==
  ASSUME Views, Views', Live' = Live,
         \A p \in Live, i \in DataPage : contents'[DataFrame(p, i)'] = contents[DataFrame(p, i)]
  PROVE  Pages' = Pages
BY DEF Views

\* Ids stay those of their frames when pages are made, and when pages go.
LEMMA SameId ==
  ASSUME Views, Views', NEW p \in DOMAIN proc, p \in DOMAIN proc', NEW s \in Slot,
         proc'[p].shm[s] = proc[p].shm[s],
         \/ \A id \in ShmId : shared_frames[id] # NoFrame => shared_frames'[id] = shared_frames[id]
         \/ \A id \in ShmId : shared_frames'[id] # NoFrame => shared_frames'[id] = shared_frames[id]
  PROVE  IdOf(proc[p].shm[s])' = IdOf(proc[p].shm[s])
<1>1. PICK f : f = proc[p].shm[s]
  OBVIOUS
<1>2. CASE f = NoFrame
  BY <1>1, <1>2 DEF IdOf
<1>3. CASE f # NoFrame
  <2>1. PICK id : id = IdOf(f)
    OBVIOUS
  <2>2. PICK next : next = IdOf(f)'
    OBVIOUS
  <2>3. id \in ShmId /\ shared_frames[id] = f
    BY <1>1, <1>3, <2>1 DEF Views, IdsRight
  <2>4. next \in ShmId /\ shared_frames'[next] = f
    BY <1>1, <1>3, <2>2 DEF Views, IdsRight
  <2>5. CASE \A j \in ShmId : shared_frames[j] # NoFrame => shared_frames'[j] = shared_frames[j]
    <3>1. shared_frames'[id] = f
      BY <1>3, <2>3, <2>5
    <3>2. IdOf(f)' = id
      BY <1>3, <2>3, <3>1 DEF Views, IdsRight
    <3> QED BY <1>1, <2>1, <3>2
  <2>6. CASE \A j \in ShmId : shared_frames'[j] # NoFrame => shared_frames'[j] = shared_frames[j]
    <3>1. shared_frames[next] = f
      BY <1>3, <2>4, <2>6
    <3>2. IdOf(f) = next
      BY <1>3, <2>4, <3>1 DEF Views, IdsRight
    <3> QED BY <1>1, <2>2, <3>2
  <2> QED BY <2>5, <2>6
<1> QED BY <1>2, <1>3

\* The text is in frames of its own.
LEMMA SameText ==
  ASSUME \A f \in CodeFrames : contents'[f] = contents[f]
  PROVE  Text' = Text
BY DEF Text, CodeFrames

LEMMA CodeFramesApart ==
  /\ CodeFrames \cap Frame = {}
  /\ \A i, j \in CodePage : CodeFrame(i) = CodeFrame(j) => i = j
<1>1. CodePage \subseteq Int
  BY Layout DEF CodePage
<1> QED BY <1>1, Layout DEF CodeFrames, CodeFrame

\* Nothing that programs see changes.
LEMMA NothingSeen ==
  ASSUME Views, Views', Live' = Live, contents' = contents, shared_frames' = shared_frames,
         \A p \in Live : table'[proc'[p].ut] = table[proc[p].ut] /\ proc'[p].shm = proc[p].shm
  PROVE  UNCHANGED <<Pages, Attached, SharedContents, Text>>
<1>1. Pages' = Pages
  <2>1. \A p \in Live, i \in DataPage : contents'[DataFrame(p, i)'] = contents[DataFrame(p, i)]
    BY DEF DataFrame
  <2> QED BY <2>1, SamePages
<1>2. Attached' = Attached
  <2>1. \A f : IdOf(f)' = IdOf(f)
    BY DEF IdOf
  <2> QED BY <2>1 DEF Views
<1>3. SharedContents' = SharedContents
  BY DEF SharedContents
<1> QED BY <1>1, <1>2, <1>3, SameText

\* The temporary mapping reaches the frame it was made for, and the user part of
\* the running process is what it was.
LEMMA TempReaches ==
  ASSUME ASSafe, cur \in DOMAIN proc, NEW f
  PROVE  /\ \A to \in Reached(TempMapped(f), "kernel", TempPage) : to = f
         /\ \A i \in DataPage : \A from \in Reached(TempMapped(f), "user", i) : from = DataFrame(cur, i)
<1>1. PICK k : k = set_ss_pag(kernel_pt, TempPage, f, FALSE)
  OBVIOUS
<1>2. k[TempPage].frame = f
  <2>1. TempPage \in DOMAIN kernel_pt
    BY DEF ASSafe, KernelTableRight
  <2>2. k[TempPage] = Entry(f, FALSE, TRUE)
    BY <1>1, <2>1 DEF set_ss_pag
  <2> QED BY <2>2 DEF Entry
<1>3. ASSUME NEW x \in TempMapped(f)
      PROVE  \/ FromKernel(x, k, table[proc[cur].dir])
             \/ FromUser(x, table[proc[cur].ut], table[proc[cur].dir])
  <2>1. x \in Walk(k, proc[cur].dir)
    BY <1>1, ProcFacts DEF TempMapped, ASSafe, CurRight
  <2> QED BY <2>1, WalkOfProcess DEF ASSafe
<1>4. ASSUME NEW to \in Reached(TempMapped(f), "kernel", TempPage)
      PROVE  to = f
  <2>1. PICK x \in TempMapped(f) : x.space = "kernel" /\ x.page = TempPage /\ x.frame = to
    BY DEF Reached
  <2>2. ~ FromUser(x, table[proc[cur].ut], table[proc[cur].dir])
    BY <2>1 DEF FromUser
  <2>3. PICK g \in DOMAIN k :
          x = [space |-> "kernel", page |-> g, frame |-> k[g].frame,
               user |-> table[proc[cur].dir][0].user /\ k[g].user,
               rw |-> table[proc[cur].dir][0].rw /\ k[g].rw]
    BY <2>2, <1>3 DEF FromKernel
  <2> QED BY <2>1, <2>3, <1>2
<1>5. ASSUME NEW i \in DataPage, NEW from \in Reached(TempMapped(f), "user", i)
      PROVE  from = DataFrame(cur, i)
  <2>1. PICK x \in TempMapped(f) : x.space = "user" /\ x.page = i /\ x.frame = from
    BY DEF Reached
  <2>2. x.frame = table[proc[cur].ut][x.page].frame
    BY <2>1, <1>3, UserWalk, Zenon
  <2> QED BY <2>1, <2>2 DEF DataFrame
<1> QED BY <1>4, <1>5

\* A store changes one page, for the one process, for all who have it, or for all
\* if it is one of the text.
LEMMA StoreSeen ==
  ASSUME ASSafe, ASSafe', NEW i \in Index, NEW w \in Word, Store(i, w)
  PROVE  /\ cur \in DOMAIN Pages
         /\ \/ i \in DataPage /\ Programs!Write(cur, i, w)
            \/ i \in CodePage /\ Programs!WriteText(i, w)
            \/ \E s \in Slot : Programs!WriteShared(cur, s, w)
<1>v. Views /\ Views'
  BY ViewsHold, ViewsNext
<1>1. /\ cur \in DOMAIN proc /\ cr3 = proc[cur].dir /\ tlb = Flushed
      /\ forking = NoFork
      /\ proc' = proc /\ table' = table /\ forking' = forking /\ shared_frames' = shared_frames
  BY ProcFacts DEF Store, Running, ASSafe, CurRight, NoStaleTranslation, memVars, shmVars
<1>2. Live = DOMAIN proc /\ Live' = Live /\ DOMAIN Pages = Live
  BY <1>v, <1>1, LiveOutsideFork DEF Live, Views
<1>3. PICK x \in tlb : /\ x.space = "user" /\ x.page = i /\ x.user /\ x.rw
                       /\ contents' = [contents EXCEPT ![x.frame] = w]
  BY DEF Store
<1>4. PICK e : e = table[proc[cur].ut][i]
  OBVIOUS
<1>5. x.frame = e.frame /\ e.frame # NoFrame
  <2>1. \/ FromKernel(x, kernel_pt, table[proc[cur].dir])
        \/ FromUser(x, table[proc[cur].ut], table[proc[cur].dir])
    BY <1>1, <1>3, FlushedAre DEF ASSafe
  <2>2. FromUser(x, table[proc[cur].ut], table[proc[cur].dir])
    BY <2>1, <1>3, UserWalk, Zenon
  <2>3. PICK j \in Index : /\ table[proc[cur].ut][j] # Absent
                           /\ x = [space |-> "user", page |-> j, frame |-> table[proc[cur].ut][j].frame,
                                   user |-> table[proc[cur].dir][2].user /\ table[proc[cur].ut][j].user,
                                   rw |-> table[proc[cur].dir][2].rw /\ table[proc[cur].ut][j].rw]
    BY <2>2 DEF FromUser
  <2>4. j = i /\ x.frame = e.frame /\ e.user /\ e.rw
    BY <2>3, <1>3, <1>4
  <2>5. e \in EntryRecord /\ e # Entry(NoFrame, TRUE, TRUE)
    <3>1. /\ table[proc[cur].ut] \in [Index -> EntryRecord]
          /\ \A k \in Index : table[proc[cur].ut][k] # GarbageTable[k]
      BY <1>1 DEF ASSafe, TablesRight, IsUserTable
    <3>2. GarbageTable[i] = Entry(NoFrame, TRUE, TRUE)
      BY DEF GarbageTable
    <3> QED BY <3>1, <3>2, <1>4
  <2>6. e.frame # NoFrame
    BY <2>4, <2>5 DEF EntryRecord, Entry
  <2> QED BY <2>4, <2>6
<1>6. PICK f : f = e.frame
  OBVIOUS
<1>7. contents' = [contents EXCEPT ![f] = w] /\ contents \in [Frame \cup CodeFrames -> Word \cup {Garbage}]
  BY <1>3, <1>5, <1>6 DEF ASSafe, CurRight
<1>8. \A p \in Live, j \in DataPage : DataFrame(p, j)' = DataFrame(p, j) /\ DataFrame(p, j) \in Frame
  BY <1>v, <1>1, <1>2, ProcFacts DEF DataFrame, Views, PagesApart, ASSafe
<1>9. Attached' = Attached
  <2>1. \A g : IdOf(g)' = IdOf(g)
    BY <1>1 DEF IdOf
  <2> QED BY <1>v, <1>1, <1>2, <2>1 DEF Views
<1>10. CASE i \in DataPage
  <2>1. f = DataFrame(cur, i)
    BY <1>4, <1>6 DEF DataFrame
  <2>5. Text' = Text
    <3>1. f \in Frame
      BY <1>1, <1>2, <1>8, <1>10, <2>1
    <3> QED BY <3>1, <1>7, CodeFramesApart, SameText
  <2>2. ASSUME NEW p \in Live, NEW j \in DataPage
        PROVE  contents'[DataFrame(p, j)'] = IF p = cur /\ j = i THEN w ELSE contents[DataFrame(p, j)]
    <3>1. DataFrame(p, j) = f <=> p = cur /\ j = i
      BY <1>v, <1>1, <1>2, <1>10, <2>1 DEF Views, PagesApart
    <3> QED BY <3>1, <1>7, <1>8
  <2>3. Pages' = [Pages EXCEPT ![cur][i] = w]
    <3>1. Pages' = [p \in Live |-> [j \in DataPage |-> contents'[DataFrame(p, j)']]]
      BY <1>v, <1>2 DEF Views
    <3>2. Pages' = [p \in Live |-> [j \in DataPage |->
                       IF p = cur /\ j = i THEN w ELSE contents[DataFrame(p, j)]]]
      BY <3>1, <2>2
    <3>3. Pages = [p \in Live |-> [j \in DataPage |-> contents[DataFrame(p, j)]]]
      BY <1>v DEF Views
    <3>4. [Pages EXCEPT ![cur][i] = w] =
            [p \in Live |-> [j \in DataPage |-> IF p = cur /\ j = i THEN w ELSE contents[DataFrame(p, j)]]]
      BY <3>3, <1>1, <1>2, <1>10
    <3> QED BY <3>2, <3>4
  <2>4. SharedContents' = SharedContents
    <3>1. \A id \in ShmId : shared_frames[id] # NoFrame => shared_frames[id] # f /\ shared_frames[id] \in Frame
      BY <1>v, <1>1, <1>10, <2>1 DEF Views, PagesApart
    <3>2. \A id \in ShmId : shared_frames[id] # NoFrame => contents'[shared_frames[id]] = contents[shared_frames[id]]
      BY <3>1, <1>7
    <3> QED BY <3>2, <1>1 DEF SharedContents
  <2> QED BY <1>1, <1>2, <1>9, <1>10, <2>3, <2>4, <2>5 DEF Programs!Write
<1>12. CASE i \in CodePage
  <2>1. f = CodeFrame(i)
    BY <1>1, <1>4, <1>6, <1>12 DEF ASSafe, TablesRight, IsUserTable
  <2>2. f \in CodeFrames /\ f \notin Frame
    BY <2>1, <1>12, CodeFramesApart DEF CodeFrames
  <2>3. Text' = [Text EXCEPT ![i] = w]
    <3>1. \A j \in CodePage : contents'[CodeFrame(j)] = IF j = i THEN w ELSE contents[CodeFrame(j)]
      <4>1. \A j \in CodePage : CodeFrame(j) \in DOMAIN contents /\ (CodeFrame(j) = f <=> j = i)
        BY <2>1, <1>7, <1>12, CodeFramesApart DEF CodeFrames
      <4> QED BY <4>1, <1>7
    <3> QED BY <3>1, <1>12 DEF Text
  <2>4. Pages' = Pages
    <3>1. \A p \in Live, j \in DataPage : contents'[DataFrame(p, j)'] = contents[DataFrame(p, j)]
      BY <2>2, <1>7, <1>8
    <3> QED BY <3>1, <1>v, <1>2, SamePages
  <2>5. SharedContents' = SharedContents
    <3>1. \A id \in ShmId : shared_frames[id] # NoFrame => contents'[shared_frames[id]] = contents[shared_frames[id]]
      BY <1>v, <1>7, <2>2 DEF Views, PagesApart
    <3> QED BY <3>1, <1>1 DEF SharedContents
  <2> QED BY <1>1, <1>2, <1>9, <1>12, <2>3, <2>4, <2>5 DEF Programs!WriteText
<1>11. CASE i \notin DataPage \cup CodePage
  <2>1. PICK s \in Slot : i = ShmPage(s)
    BY <1>1, <1>11, Layout
  <2>2. f = proc[cur].shm[s]
    BY <1>1, <1>4, <1>6, <2>1 DEF ASSafe, TablesRight, IsUserTable
  <2>3. PICK id : id = Attached[cur][s]
    OBVIOUS
  <2>4. id = IdOf(proc[cur].shm[s])
    BY <1>v, <1>1, <1>2, <2>3 DEF Views
  <2>5. id \in ShmId /\ shared_frames[id] = f /\ id # NoFrame /\ f \in Frame
    <3>1. id \in ShmId /\ shared_frames[id] = f
      BY <1>v, <1>1, <1>5, <1>6, <2>2, <2>4 DEF Views, IdsRight
    <3>2. f \in Frame
      BY <3>1, <1>v, <1>5, <1>6 DEF Views, PagesApart
    <3> QED BY <3>1, <3>2, MemoryAssumption DEF ShmId, NoFrame
  <2>6. \A j \in ShmId : shared_frames[j] # NoFrame =>
          contents'[shared_frames[j]] = IF j = id THEN w ELSE contents[shared_frames[j]]
    <3>1. \A j \in ShmId : shared_frames[j] = f => j = id
      BY <1>v, <1>5, <1>6, <2>5 DEF Views, IdsRight
    <3>2. \A j \in ShmId : shared_frames[j] # NoFrame => shared_frames[j] \in Frame
      BY <1>v DEF Views, PagesApart
    <3> QED BY <3>1, <3>2, <1>7, <2>5
  <2>7. SharedContents' = [SharedContents EXCEPT ![id] = w]
    BY <1>1, <1>5, <1>6, <2>5, <2>6 DEF SharedContents
  <2>8. Pages' = Pages
    <3>1. \A p \in Live, j \in DataPage : DataFrame(p, j) # f
      BY <1>v, <1>2, <1>5, <1>6, <2>5 DEF Views, PagesApart
    <3>2. \A p \in Live, j \in DataPage : contents'[DataFrame(p, j)'] = contents[DataFrame(p, j)]
      BY <3>1, <1>7, <1>8
    <3> QED BY <3>2, <1>v, <1>2, SamePages
  <2>9. Text' = Text
    BY <1>7, <2>5, CodeFramesApart, SameText
  <2>10. Programs!WriteShared(cur, s, w)
    BY <1>9, <2>3, <2>5, <2>7, <2>8, <2>9 DEF Programs!WriteShared
  <2> QED BY <1>1, <1>2, <2>10
<1> QED BY <1>10, <1>11, <1>12

\* A call that faults is not seen.
LEMMA FaultSeen ==
  ASSUME ASSafe, ASSafe', CallFaults \/ ForkFaults
  PROVE  UNCHANGED <<Pages, Attached, SharedContents, Text>>
<1>1. /\ proc' = proc /\ table' = table /\ contents' = contents /\ forking' = forking
      /\ shared_frames' = shared_frames
  BY DEF CallFaults, ForkFaults, memVars, shmVars
<1>2. Live' = Live
  BY <1>1 DEF Live
<1> QED BY <1>1, <1>2, ViewsHold, ViewsNext, NothingSeen

\* Which task runs is not seen.
LEMMA SwitchSeen ==
  ASSUME ASSafe, ASSafe', NEW t \in DOMAIN proc \cup {Idle}, Switch(t)
  PROVE  UNCHANGED <<Pages, Attached, SharedContents, Text>>
<1>1. /\ proc' = proc /\ table' = table /\ contents' = contents /\ forking' = forking
      /\ shared_frames' = shared_frames
  BY DEF Switch, memVars, shmVars
<1>2. Live' = Live
  BY <1>1 DEF Live
<1> QED BY <1>1, <1>2, ViewsHold, ViewsNext, NothingSeen

LEMMA ForkFailsMappedSeen ==
  ASSUME ASSafe, ASSafe', ForkFailsMapped
  PROVE  UNCHANGED <<Pages, Attached, SharedContents, Text>>
<1>1. /\ proc' = proc /\ table' = table /\ contents' = contents /\ forking' = forking
      /\ shared_frames' = shared_frames
  BY DEF ForkFailsMapped, ForkFails, shmVars
<1>2. Live' = Live
  BY <1>1 DEF Live
<1> QED BY <1>1, <1>2, ViewsHold, ViewsNext, NothingSeen

\* The child is not seen before its pages are copied.
LEMMA ForkBeginSeen ==
  ASSUME ASSafe, ASSafe', ForkBegin
  PROVE  UNCHANGED <<Pages, Attached, SharedContents, Text>> /\ CopyRight'
<1>1. PICK child : child = Alloc(1)
  OBVIOUS
<1>2. /\ Fork(cur) /\ forking = NoFork /\ cur \in DOMAIN proc /\ cur' = cur
      /\ table' = [table EXCEPT ![Alloc(2)] = ChildDirectory(cur), ![Alloc(3)] = ChildTable(cur)]
      /\ forking' = [child |-> child, page |-> 0]
      /\ contents' = contents /\ shared_frames' = shared_frames
  BY <1>1 DEF ForkBegin, Running, ASSafe, CurRight, Fork
<1>3. /\ child \notin DOMAIN proc
      /\ \A q \in DOMAIN proc : proc[q].ut \notin {Alloc(2), Alloc(3)}
      /\ DOMAIN proc' = DOMAIN proc \cup {child}
      /\ \A q \in DOMAIN proc : proc'[q] = proc[q]
      /\ proc'[child].shm = proc[cur].shm
  <2>1. MemSafe
    BY DEF ASSafe
  <2> QED BY <2>1, <1>1, <1>2, ForkFrames
<1>4. Live = DOMAIN proc /\ Live' = Live
  <2>1. Live = DOMAIN proc
    BY <1>2, LiveOutsideFork
  <2> QED BY <2>1, <1>2, <1>3 DEF Live
<1>5. \A q \in Live : table'[proc'[q].ut] = table[proc[q].ut] /\ proc'[q].shm = proc[q].shm
  <2>1. \A q \in Live : proc[q].ut \in DOMAIN table
    BY <1>4, ProcFacts DEF ASSafe, TablesRight
  <2> QED BY <2>1, <1>2, <1>3, <1>4
<1>6. UNCHANGED <<Pages, Attached, SharedContents, Text>>
  BY <1>2, <1>4, <1>5, ViewsHold, ViewsNext, NothingSeen
<1>7. CopyRight'
  <2>1. forking'.child = child /\ forking'.page = 0
    BY <1>2
  <2>2. 0 \in 0..NUM_PAG_DATA /\ \A i \in DataPage : ~ (i < 0)
    BY Layout DEF DataPage
  <2>3. proc'[forking'.child].shm = proc'[cur'].shm
    BY <1>2, <1>3, <2>1
  <2> QED BY <2>1, <2>2, <2>3 DEF CopyRight
<1> QED BY <1>6, <1>7

\* Nor while they are.
LEMMA CopyPageSeen ==
  ASSUME ASSafe, ASSafe', CopyRight, CopyPage
  PROVE  UNCHANGED <<Pages, Attached, SharedContents, Text>> /\ CopyRight'
<1>v. Views /\ Views'
  BY ViewsHold, ViewsNext
<1>1. PICK k : k = forking.page
  OBVIOUS
<1>2. PICK child : child = forking.child
  OBVIOUS
<1>3. /\ proc' = proc /\ table' = table /\ cur' = cur /\ shared_frames' = shared_frames
      /\ forking' = [forking EXCEPT !.page = @ + 1] /\ forking # NoFork /\ k \in DataPage
  BY <1>1 DEF CopyPage, memVars, shmVars
<1>4. /\ cur \in DOMAIN proc /\ child \in DOMAIN proc /\ cur # child
      /\ forking \in [child : DOMAIN proc \cup {NoFrame}, page : Nat]
      /\ contents \in [Frame \cup CodeFrames -> Word \cup {Garbage}]
  BY <1>2, <1>3 DEF ASSafe, CurRight
<1>5. forking'.child = child /\ forking'.page = k + 1
  BY <1>1, <1>2, <1>3, <1>4
<1>6. \A p \in DOMAIN proc, i \in DataPage : DataFrame(p, i)' = DataFrame(p, i) /\ DataFrame(p, i) \in Frame
  BY <1>v, <1>3, ProcFacts DEF DataFrame, Views, PagesApart, ASSafe
<1>7. contents' = [contents EXCEPT ![DataFrame(child, k)] = contents[DataFrame(cur, k)]]
  <2>1. PICK f : f = table[UT(child)][k].frame
    OBVIOUS
  <2>2. f = DataFrame(child, k)
    BY <1>4, <2>1, TableOfProcess DEF DataFrame
  <2>3. PICK from \in Reached(TempMapped(f), "user", k), to \in Reached(TempMapped(f), "kernel", TempPage) :
          contents' = [contents EXCEPT ![to] = contents[from]]
    BY <1>1, <1>2, <2>1 DEF CopyPage
  <2>4. to = f /\ from = DataFrame(cur, k)
    BY <1>3, <1>4, TempReaches
  <2> QED BY <2>2, <2>3, <2>4
<1>8. Live' = Live /\ Live \subseteq DOMAIN proc \ {child}
  BY <1>2, <1>3, <1>5 DEF Live
<1>9. Pages' = Pages
  <2>1. ASSUME NEW p \in Live, NEW i \in DataPage
        PROVE  contents'[DataFrame(p, i)'] = contents[DataFrame(p, i)]
    <3>1. DataFrame(p, i) # DataFrame(child, k)
      BY <1>v, <1>3, <1>4, <1>8 DEF Views, PagesApart
    <3> QED BY <3>1, <1>6, <1>7, <1>8
  <2> QED BY <2>1, <1>v, <1>8, SamePages
<1>10. Attached' = Attached
  <2>1. \A f : IdOf(f)' = IdOf(f)
    BY <1>3 DEF IdOf
  <2> QED BY <2>1, <1>v, <1>3, <1>8 DEF Views
<1>11. SharedContents' = SharedContents
  <2>1. \A id \in ShmId : shared_frames[id] # NoFrame =>
          shared_frames[id] \in Frame /\ shared_frames[id] # DataFrame(child, k)
    BY <1>v, <1>3, <1>4 DEF Views, PagesApart
  <2>2. \A id \in ShmId : shared_frames[id] # NoFrame => contents'[shared_frames[id]] = contents[shared_frames[id]]
    BY <2>1, <1>4, <1>7
  <2> QED BY <2>2, <1>3 DEF SharedContents
<1>12. CopyRight'
  <2>1. k + 1 \in 0..NUM_PAG_DATA /\ \A i \in DataPage : i < k + 1 <=> i < k \/ i = k
    BY <1>3, Layout DEF DataPage
  <2>2. proc[child].shm = proc[cur].shm
    BY <1>2, <1>3 DEF CopyRight
  <2>3. ASSUME NEW i \in DataPage, i < k + 1
        PROVE  contents'[DataFrame(child, i)] = contents'[DataFrame(cur, i)]
    <3>1. DataFrame(cur, i) # DataFrame(child, k) /\ (DataFrame(child, i) = DataFrame(child, k) => i = k)
      BY <1>v, <1>3, <1>4 DEF Views, PagesApart
    <3>2. contents'[DataFrame(cur, i)] = contents[DataFrame(cur, i)]
      BY <3>1, <1>4, <1>6, <1>7
    <3>3. CASE i = k
      BY <3>2, <3>3, <1>4, <1>6, <1>7
    <3>4. CASE i # k
      <4>1. i < k
        BY <2>1, <2>3, <3>4
      <4>2. contents[DataFrame(child, i)] = contents[DataFrame(cur, i)]
        BY <4>1, <1>1, <1>2, <1>3 DEF CopyRight
      <4>3. contents'[DataFrame(child, i)] = contents[DataFrame(child, i)]
        BY <3>1, <3>4, <1>4, <1>6, <1>7
      <4> QED BY <3>2, <4>2, <4>3
    <3> QED BY <3>3, <3>4
  <2>4. \A i \in DataPage : i < forking'.page =>
          contents'[table'[proc'[child].ut][i].frame] = contents'[table'[proc'[cur].ut][i].frame]
    BY <2>3, <1>3, <1>5 DEF DataFrame
  <2> QED BY <2>1, <2>2, <2>4, <1>3, <1>5 DEF CopyRight, DataFrame
<1>13. Text' = Text
  <2>1. DataFrame(child, k) \in Frame
    BY <1>3, <1>4, <1>6
  <2> QED BY <2>1, <1>4, <1>7, CodeFramesApart, SameText
<1> QED BY <1>9, <1>10, <1>11, <1>12, <1>13

\* Then it is there, with its parent's pages and attachments.
LEMMA ForkEndSeen ==
  ASSUME ASSafe, ASSafe', CopyRight, ForkEnd
  PROVE  cur \in DOMAIN Pages /\ \E c \in DOMAIN Pages' : Programs!Fork(cur, c)
<1>v. Views /\ Views'
  BY ViewsHold, ViewsNext
<1>1. PICK c : c = forking.child
  OBVIOUS
<1>2. /\ proc' = proc /\ table' = table /\ contents' = contents /\ shared_frames' = shared_frames
      /\ forking # NoFork /\ forking' = NoFork /\ forking.page \notin DataPage
  BY DEF ForkEnd, Copied, memVars, shmVars
<1>3. cur \in DOMAIN proc /\ c \in DOMAIN proc /\ cur # c
  BY <1>1, <1>2 DEF ASSafe, CurRight
<1>4. Live = DOMAIN proc \ {c} /\ Live' = DOMAIN proc
  <2>1. \A p \in DOMAIN proc : p # NoFrame
    BY ProcFacts, Layout DEF ASSafe
  <2> QED BY <2>1, <1>1, <1>2 DEF Live, NoFork
<1>5. DOMAIN Pages = Live /\ DOMAIN Attached = Live /\ DOMAIN Pages' = Live'
  BY <1>v DEF Views
<1>6. /\ Pages = [p \in Live |-> [i \in DataPage |-> contents[DataFrame(p, i)]]]
      /\ Pages' = [p \in Live' |-> [i \in DataPage |-> contents[DataFrame(p, i)]]]
  BY <1>v, <1>2 DEF Views, DataFrame
<1>7. \A i \in DataPage : contents[DataFrame(c, i)] = contents[DataFrame(cur, i)]
  <2>1. \A i \in DataPage : i < forking.page
    BY <1>2, Layout DEF CopyRight, DataPage
  <2> QED BY <2>1, <1>1, <1>2 DEF CopyRight
<1>8. Pages' = Programs!With(Pages, c, Pages[cur])
  <2>1. \A p \in Live' : Pages'[p] = IF p = c THEN Pages[cur] ELSE Pages[p]
    BY <1>3, <1>4, <1>6, <1>7
  <2>2. Pages' = [p \in Live' |-> Pages'[p]] /\ Live' = DOMAIN Pages \cup {c}
    BY <1>3, <1>4, <1>5, <1>6
  <2> QED BY <2>1, <2>2 DEF Programs!With
<1>9. Attached' = Programs!With(Attached, c, Attached[cur])
  <2>1. \A f : IdOf(f)' = IdOf(f)
    BY <1>2 DEF IdOf
  <2>2. /\ Attached = [p \in Live |-> [s \in Slot |-> IdOf(proc[p].shm[s])]]
        /\ Attached' = [p \in Live' |-> [s \in Slot |-> IdOf(proc[p].shm[s])]]
    BY <2>1, <1>v, <1>2 DEF Views
  <2>3. proc[c].shm = proc[cur].shm
    BY <1>1, <1>2 DEF CopyRight
  <2>4. \A p \in Live' : Attached'[p] = IF p = c THEN Attached[cur] ELSE Attached[p]
    BY <1>3, <1>4, <2>2, <2>3
  <2>5. Attached' = [p \in Live' |-> Attached'[p]] /\ Live' = DOMAIN Attached \cup {c}
    BY <1>3, <1>4, <1>5, <2>2
  <2> QED BY <2>4, <2>5 DEF Programs!With
<1>10. SharedContents' = SharedContents
  BY <1>2 DEF SharedContents
<1>11. c \notin DOMAIN Pages /\ c \in DOMAIN Pages' /\ cur \in DOMAIN Pages
  BY <1>3, <1>4, <1>5
<1>12. Text' = Text
  BY <1>2, SameText
<1> QED BY <1>8, <1>9, <1>10, <1>11, <1>12 DEF Programs!Fork

\* A call that frees frames destroys only what no process sees any more: the
\* frames it frees or zeroes hold no page of those that stay, and no shared page
\* that stays.
LEMMA ForgottenUnseen ==
  ASSUME ASSafe, ASSafe', cur \in DOMAIN proc, forking = NoFork, forking' = NoFork,
         NEW t, ForgetFreed(t),
         \A id \in ShmId : shared_frames'[id] # NoFrame => shared_frames'[id] = shared_frames[id],
         DOMAIN proc' \subseteq DOMAIN proc,
         \A p \in DOMAIN proc', i \in DataPage : DataFrame(p, i)' = DataFrame(p, i)
  PROVE  /\ \A p \in DOMAIN proc', i \in DataPage : Pages'[p][i] = Pages[p][i]
         /\ Programs!Shrink
         /\ Text' = Text
<1>v. Views /\ Views'
  BY ViewsHold, ViewsNext
<1>1. Live = DOMAIN proc /\ Live' = DOMAIN proc'
  <2>1. Live = DOMAIN proc
    BY LiveOutsideFork
  <2> QED BY <2>1, LiveNext
<1>2. contents' = [f \in Frame \cup CodeFrames |-> IF f \in Freed \cup Zeroed THEN Garbage ELSE contents[f]]
  BY DEF ForgetFreed, ASSafe, CurRight
<1>3. \A f \in phys_mem' : f \in Frame /\ f \notin Freed
  BY DEF Freed, ASSafe, MemSafe, MemTyped
<1>4. ASSUME NEW f \in Zeroed
      PROVE  \E id \in ShmId : f = shared_frames[id] /\ f # NoFrame /\ shared_frames'[id] = NoFrame
  <2>1. PICK id \in ShmId : /\ shared_frames[id] # NoFrame /\ shared_frames'[id] = NoFrame
                            /\ f \in Reached(TempMapped(shared_frames[id]), "kernel", TempPage)
    BY DEF Zeroed, Removed
  <2>2. f = shared_frames[id]
    BY <2>1, TempReaches
  <2> QED BY <2>1, <2>2
<1>5. ASSUME NEW p \in DOMAIN proc', NEW i \in DataPage
      PROVE  Pages'[p][i] = Pages[p][i]
  <2>1. DataFrame(p, i)' \in phys_mem'
    <3>1. DataFrame(p, i)' \in proc'[p].data
      BY <1>v DEF Views, PagesApart
    <3>2. proc'[p].data \subseteq phys_mem'
      BY DEF ASSafe, MemSafe, OwnersApart, Own
    <3> QED BY <3>1, <3>2
  <2>2. DataFrame(p, i) \in Frame /\ DataFrame(p, i) \notin Freed
    BY <2>1, <1>3
  <2>3. DataFrame(p, i) \notin Zeroed
    BY <1>v, <1>4 DEF Views, PagesApart
  <2>4. contents'[DataFrame(p, i)'] = contents[DataFrame(p, i)]
    BY <2>2, <2>3, <1>2
  <2>5. Pages[p][i] = contents[DataFrame(p, i)] /\ Pages'[p][i] = contents'[DataFrame(p, i)']
    BY <1>v, <1>1 DEF Views
  <2> QED BY <2>4, <2>5
<1>6. ASSUME NEW id \in ShmId
      PROVE  \/ SharedContents'[id] = SharedContents[id]
             \/ /\ SharedContents'[id] = NoFrame
                /\ \A p \in DOMAIN Attached', s \in Slot : Attached'[p][s] # id
  <2>1. CASE shared_frames'[id] = NoFrame
    <3>1. SharedContents'[id] = NoFrame
      BY <2>1 DEF SharedContents
    <3>2. ASSUME NEW p \in DOMAIN Attached', NEW s \in Slot
          PROVE  Attached'[p][s] # id
      <4>1. p \in DOMAIN proc' /\ Attached'[p][s] = IdOf(proc[p].shm[s])'
        BY <1>v, <1>1 DEF Views
      <4>2. CASE proc'[p].shm[s] = NoFrame
        <5>1. IdOf(proc[p].shm[s])' = NoFrame
          BY <4>2 DEF IdOf
        <5> QED BY <4>1, <5>1, MemoryAssumption DEF ShmId, NoFrame
      <4>3. CASE proc'[p].shm[s] # NoFrame
        BY <1>v, <2>1, <4>1, <4>3 DEF Views, IdsRight
      <4> QED BY <4>2, <4>3
    <3> QED BY <3>1, <3>2
  <2>2. CASE shared_frames'[id] # NoFrame
    <3>1. PICK f : f = shared_frames[id]
      OBVIOUS
    <3>2. shared_frames'[id] = f /\ f # NoFrame
      BY <2>2, <3>1
    <3>3. f \in phys_mem'
      BY <3>2 DEF ASSafe, MemSafe, SharedApart
    <3>4. f \notin Zeroed
      <4>1. ASSUME f \in Zeroed PROVE FALSE
        <5>1. PICK j \in ShmId : f = shared_frames[j] /\ shared_frames'[j] = NoFrame
          BY <1>4, <4>1
        <5>2. j = id
          BY <3>1, <3>2, <5>1 DEF ASSafe, MemSafe, SharedApart
        <5> QED BY <3>2, <5>1, <5>2
      <4> QED BY <4>1
    <3>5. contents'[f] = contents[f]
      BY <3>3, <3>4, <1>2, <1>3
    <3> QED BY <3>1, <3>2, <3>5 DEF SharedContents
  <2> QED BY <2>1, <2>2
<1>7. Text' = Text
  <2>1. ASSUME NEW f \in CodeFrames PROVE f \notin Freed \cup Zeroed
    <3>1. Freed \subseteq Frame
      BY DEF Freed, ASSafe, MemSafe, MemTyped
    <3>2. Zeroed \subseteq Frame
      BY <1>v, <1>4 DEF Views, PagesApart
    <3> QED BY <3>1, <3>2, CodeFramesApart
  <2>2. \A f \in CodeFrames : contents'[f] = contents[f]
    BY <2>1, <1>2
  <2> QED BY <2>2, SameText
<1> QED BY <1>5, <1>6, <1>7 DEF Programs!Shrink

\* A process that exits takes its own pages with it, and no others.
LEMMA ExitSwitchesSeen ==
  ASSUME ASSafe, ASSafe', ExitSwitches
  PROVE  cur \in DOMAIN Pages /\ Programs!Exit(cur)
<1>v. Views /\ Views'
  BY ViewsHold, ViewsNext
<1>1. /\ Exit(cur) /\ ForgetFreed(table) /\ forking = NoFork /\ forking' = NoFork /\ cur \in DOMAIN proc
  BY DEF ExitSwitches, Running, ASSafe, CurRight
<1>2. DOMAIN proc' = DOMAIN proc \ {cur} /\ \A q \in DOMAIN proc' : proc'[q] = proc[q]
  BY <1>1 DEF Exit
<1>3. \A id \in ShmId : shared_frames'[id] # NoFrame => shared_frames'[id] = shared_frames[id]
  BY <1>1 DEF Exit, Release
<1>4. \A q \in DOMAIN proc', i \in DataPage : DataFrame(q, i)' = DataFrame(q, i)
  <2>1. table \in [Frame \cup {IdleDir} -> [Index -> EntryRecord]]
    BY DEF ASSafe, TablesRight
  <2>2. ASSUME NEW q \in DOMAIN proc' PROVE table'[proc'[q].ut] = table[proc[q].ut]
    <3>1. proc'[q] = proc[q] /\ Own(q)' = Own(q) /\ proc[q].ut \in Own(q)
      BY <1>2 DEF Own
    <3>2. \A f \in Own(q) : table'[f] = table[f]
      BY <3>1, <1>1, <2>1, ForgetKeeps DEF ASSafe
    <3> QED BY <3>1, <3>2
  <2> QED BY <2>2 DEF DataFrame
<1>5. /\ \A p \in DOMAIN proc', i \in DataPage : Pages'[p][i] = Pages[p][i]
      /\ Programs!Shrink /\ Text' = Text
  BY <1>1, <1>2, <1>3, <1>4, ForgottenUnseen
<1>6. Live = DOMAIN proc /\ Live' = DOMAIN proc \ {cur}
  BY <1>1, <1>2, LiveOutsideFork, LiveNext
<1>7. Pages' = Programs!Without(Pages, cur)
  <2>1. /\ DOMAIN Pages = Live /\ DOMAIN Pages' = Live' /\ Pages' = [p \in Live' |-> Pages'[p]]
        /\ \A p \in Live : Pages[p] = [i \in DataPage |-> Pages[p][i]]
        /\ \A p \in Live' : Pages'[p] = [i \in DataPage |-> Pages'[p][i]]
    BY <1>v DEF Views
  <2>2. \A p \in Live' : Pages'[p] = Pages[p]
    BY <1>2, <1>5, <1>6, <2>1
  <2> QED BY <1>6, <2>1, <2>2 DEF Programs!Without
<1>8. Attached' = Programs!Without(Attached, cur)
  <2>1. /\ Attached = [p \in Live |-> [s \in Slot |-> IdOf(proc[p].shm[s])]]
        /\ Attached' = [p \in Live' |-> [s \in Slot |-> IdOf(proc[p].shm[s])']]
    BY <1>v DEF Views
  <2>2. \A p \in Live', s \in Slot : IdOf(proc[p].shm[s])' = IdOf(proc[p].shm[s])
    BY <1>v, <1>2, <1>3, <1>6, SameId
  <2>3. \A p \in Live' : p \in Live /\ Attached'[p] = Attached[p]
    BY <1>6, <2>1, <2>2
  <2> QED BY <1>6, <2>1, <2>3 DEF Programs!Without
<1>9. cur \in DOMAIN Pages
  BY <1>v, <1>1, <1>6 DEF Views
<1> QED BY <1>5, <1>7, <1>8, <1>9 DEF Programs!Exit

\* The entry of a shared page is not that of a data page.
LEMMA ShmEntryData ==
  ASSUME ASSafe, NEW s \in Slot, NEW q \in DOMAIN proc, NEW i \in DataPage
  PROVE  /\ proc[q].ut \in DOMAIN table /\ DOMAIN table[proc[q].ut] = Index
         /\ i \in Index /\ i # ShmPage(s)
BY Layout, ProcFacts DEF ASSafe, TablesRight, IsUserTable

\* IdOf for any frames of the shared pages.
IdIn(frames, f) == IF f = NoFrame THEN NoFrame ELSE CHOOSE id \in ShmId : frames[id] = f

\* A process has a page at one more slot, or one fewer.
LEMMA SlotSeen ==
  ASSUME Views, Views', ASSafe, NEW s \in Slot, NEW f, cur \in DOMAIN proc,
         Live = DOMAIN proc, Live' = Live, proc' = [proc EXCEPT ![cur].shm[s] = f],
         \/ \A id \in ShmId : shared_frames[id] # NoFrame => shared_frames'[id] = shared_frames[id]
         \/ \A id \in ShmId : shared_frames'[id] # NoFrame => shared_frames'[id] = shared_frames[id]
  PROVE  Attached' = [Attached EXCEPT ![cur][s] = IdOf(f)']
<1>1. proc \in [DOMAIN proc -> ProcRecord]
  BY DEF ASSafe, MemSafe, MemTyped, ProcTyped
<1>2. /\ DOMAIN proc' = DOMAIN proc
      /\ \A p \in DOMAIN proc, r \in Slot :
           proc'[p].shm[r] = IF p = cur /\ r = s THEN f ELSE proc[p].shm[r]
  BY <1>1 DEF ProcRecord
<1>3. /\ Attached = [p \in Live |-> [r \in Slot |-> IdOf(proc[p].shm[r])]]
      /\ Attached' = [p \in Live |-> [r \in Slot |-> IdOf(proc[p].shm[r])']]
  BY DEF Views
<1>4. ASSUME NEW p \in Live, NEW r \in Slot
      PROVE  IdOf(proc[p].shm[r])' = IF p = cur /\ r = s THEN IdOf(f)' ELSE IdOf(proc[p].shm[r])
  <2>1. CASE p = cur /\ r = s
    <3>1. proc'[p].shm[r] = f
      BY <2>1, <1>2
    <3>2. IdOf(proc[p].shm[r])' = IdIn(shared_frames', proc'[p].shm[r]) /\ IdOf(f)' = IdIn(shared_frames', f)
      BY DEF IdOf, IdIn
    <3> QED BY <2>1, <3>1, <3>2
  <2>2. CASE ~ (p = cur /\ r = s)
    <3>1. proc'[p].shm[r] = proc[p].shm[r] /\ p \in DOMAIN proc'
      BY <2>2, <1>2
    <3> QED BY <2>2, <3>1, SameId
  <2> QED BY <2>1, <2>2
<1>5. PICK id : id = IdOf(f)'
  OBVIOUS
<1>6. Attached' = [p \in Live |-> [r \in Slot |-> IF p = cur /\ r = s THEN id ELSE IdOf(proc[p].shm[r])]]
  BY <1>3, <1>4, <1>5
<1>7. [Attached EXCEPT ![cur][s] = id] =
        [p \in Live |-> [r \in Slot |-> IF p = cur /\ r = s THEN id ELSE IdOf(proc[p].shm[r])]]
  BY <1>3
<1> QED BY <1>5, <1>6, <1>7

LEMMA PagesSame ==
  ASSUME Views, Views', Live' = Live, \A p \in Live, i \in DataPage : Pages'[p][i] = Pages[p][i]
  PROVE  Pages' = Pages
<1>1. /\ Pages = [p \in Live |-> Pages[p]] /\ Pages' = [p \in Live |-> Pages'[p]]
      /\ \A p \in Live : Pages[p] = [i \in DataPage |-> Pages[p][i]]
      /\ \A p \in Live : Pages'[p] = [i \in DataPage |-> Pages'[p][i]]
  BY DEF Views
<1>2. \A p \in Live : Pages'[p] = Pages[p]
  BY <1>1
<1> QED BY <1>1, <1>2

\* A page that gets a frame may hold anything; the others are what they were.
LEMMA MakeSeen ==
  ASSUME ASSafe, NEW id \in ShmId, contents' = contents, shared_frames'[id] \in Frame,
         \A j \in ShmId : shared_frames[j] # NoFrame => shared_frames'[j] = shared_frames[j],
         \A j \in ShmId \ {id} : shared_frames'[j] = shared_frames[j]
  PROVE  Programs!Make(id)
<1>1. contents \in [Frame \cup CodeFrames -> Word \cup {Garbage}] /\ NoFrame \notin Frame
  BY Layout DEF ASSafe, CurRight
<1>2. SharedContents'[id] \in Word \cup {Garbage}
  BY <1>1 DEF SharedContents
<1>3. \A j \in ShmId \ {id} : SharedContents'[j] = SharedContents[j]
  BY DEF SharedContents
<1>4. SharedContents[id] # NoFrame => SharedContents'[id] = SharedContents[id]
  BY DEF SharedContents
<1>5. /\ DOMAIN SharedContents = ShmId /\ DOMAIN SharedContents' = ShmId
      /\ SharedContents' = [j \in ShmId |-> SharedContents'[j]]
  BY DEF SharedContents
<1>6. SharedContents' = [SharedContents EXCEPT ![id] = IF @ = NoFrame THEN SharedContents'[id] ELSE @]
  BY <1>3, <1>4, <1>5
<1> QED BY <1>2, <1>6 DEF Programs!Make

\* sys_shmat fills one slot, with a page that may be new.
LEMMA ShmatEntrySeen ==
  ASSUME ASSafe, ASSafe', NEW id \in ShmId, NEW s \in Slot, ShmatEntry(id, s)
  PROVE  cur \in DOMAIN Pages /\ Programs!Attach(cur, s, id)
<1>v. Views /\ Views'
  BY ViewsHold, ViewsNext
<1>1. PICK f : f = FrameFor(id)
  OBVIOUS
<1>2. PICK e : e = Entry(f, TRUE, TRUE)
  OBVIOUS
<1>3. /\ Attachable(id) /\ GiveFrame(id) /\ proc[cur].shm[s] = NoFrame
      /\ proc' = [proc EXCEPT ![cur].shm[s] = f]
      /\ cur \in DOMAIN proc /\ forking = NoFork /\ forking' = forking /\ contents' = contents
      /\ table' = [table EXCEPT ![UT(cur)] = [@ EXCEPT ![ShmPage(s)] = e]]
  BY <1>1, <1>2 DEF ShmatEntry, ShmatMaps, Running, set_ss_pag, ASSafe, CurRight
<1>4. /\ f \in Frame
      /\ shared_frames'[id] = f
      /\ \A j \in ShmId : shared_frames[j] # NoFrame => shared_frames'[j] = shared_frames[j]
      /\ \A j \in ShmId \ {id} : shared_frames'[j] = shared_frames[j]
  BY <1>1, <1>3, GiveFrameSafe DEF ASSafe
<1>5. DOMAIN proc' = DOMAIN proc /\ \A q \in DOMAIN proc : proc'[q].ut = proc[q].ut
  <2>1. proc \in [DOMAIN proc -> ProcRecord]
    BY DEF ASSafe, MemSafe, MemTyped, ProcTyped
  <2> QED BY <2>1, <1>3 DEF ProcRecord
<1>6. Live = DOMAIN proc /\ Live' = Live /\ DOMAIN Pages = Live
  BY <1>v, <1>3, <1>5, LiveOutsideFork, LiveNext DEF Views
<1>7. Pages' = Pages
  <2>1. \A q \in Live, i \in DataPage : table'[proc[q].ut][i] = table[proc[q].ut][i]
    BY <1>3, <1>6, ShmEntryData
  <2>2. \A q \in Live, i \in DataPage : contents'[DataFrame(q, i)'] = contents[DataFrame(q, i)]
    BY <2>1, <1>3, <1>5, <1>6 DEF DataFrame
  <2> QED BY <2>2, <1>v, <1>6, SamePages
<1>8. Attached' = [Attached EXCEPT ![cur][s] = id]
  <2>1. Attached' = [Attached EXCEPT ![cur][s] = IdOf(f)']
    BY <1>v, <1>3, <1>4, <1>6, SlotSeen
  <2>2. IdOf(shared_frames[id])' = id
    BY <1>v, <1>4, Layout DEF Views, IdsRight
  <2>3. IdOf(f)' = id
    BY <2>2, <1>4 DEF IdOf
  <2> QED BY <2>1, <2>3
<1>9. Attached[cur][s] = NoFrame
  <2>1. IdOf(proc[cur].shm[s]) = NoFrame
    BY <1>3 DEF IdOf
  <2> QED BY <2>1, <1>v, <1>3, <1>6 DEF Views
<1>10. Programs!Make(id) /\ Text' = Text
  BY <1>3, <1>4, MakeSeen, SameText
<1> QED BY <1>3, <1>6, <1>7, <1>8, <1>9, <1>10 DEF Programs!Attach

LEMMA ShmatNoEntrySeen ==
  ASSUME ASSafe, ASSafe', NEW id \in ShmId, ShmatNoEntry(id)
  PROVE  Programs!Make(id) /\ UNCHANGED <<Pages, Attached, Text>>
<1>v. Views /\ Views'
  BY ViewsHold, ViewsNext
<1>1. /\ Attachable(id) /\ GiveFrame(id)
      /\ proc' = proc /\ table' = table /\ forking' = forking /\ contents' = contents
  BY DEF ShmatNoEntry, ShmatMapsNothing, asVars
<1>2. /\ FrameFor(id) \in Frame
      /\ shared_frames'[id] = FrameFor(id)
      /\ \A j \in ShmId : shared_frames[j] # NoFrame => shared_frames'[j] = shared_frames[j]
      /\ \A j \in ShmId \ {id} : shared_frames'[j] = shared_frames[j]
  BY <1>1, GiveFrameSafe DEF ASSafe
<1>3. Live' = Live /\ Live \subseteq DOMAIN proc
  BY <1>1 DEF Live
<1>4. Pages' = Pages
  <2>1. \A q \in Live, i \in DataPage : contents'[DataFrame(q, i)'] = contents[DataFrame(q, i)]
    BY <1>1 DEF DataFrame
  <2> QED BY <2>1, <1>v, <1>3, SamePages
<1>5. Attached' = Attached
  <2>1. \A p \in Live, s \in Slot : IdOf(proc[p].shm[s])' = IdOf(proc[p].shm[s])
    BY <1>v, <1>1, <1>2, <1>3, SameId
  <2>2. /\ Attached = [p \in Live |-> [s \in Slot |-> IdOf(proc[p].shm[s])]]
        /\ Attached' = [p \in Live |-> [s \in Slot |-> IdOf(proc[p].shm[s])']]
    BY <1>v, <1>3 DEF Views
  <2> QED BY <2>1, <2>2
<1>6. Programs!Make(id) /\ Text' = Text
  BY <1>1, <1>2, MakeSeen, SameText
<1> QED BY <1>4, <1>5, <1>6

\* sys_shmdt empties one slot; the page goes if it was marked and nobody else has it.
LEMMA ShmdtEntrySeen ==
  ASSUME ASSafe, ASSafe', NEW s \in Slot, ShmdtEntry(s)
  PROVE  cur \in DOMAIN Pages /\ Programs!Detach(cur, s)
<1>v. Views /\ Views'
  BY ViewsHold, ViewsNext
<1>1. PICK t : t = [table EXCEPT ![UT(cur)] = [@ EXCEPT ![ShmPage(s)] = Absent]]
  OBVIOUS
<1>2. /\ Shmdt(cur, s) /\ cur \in DOMAIN proc /\ forking = NoFork /\ forking' = forking
      /\ ForgetFreed(t)
      /\ proc' = [proc EXCEPT ![cur].shm[s] = NoFrame]
  BY <1>1 DEF ShmdtEntry, Shmdt, Running, del_ss_pag, ASSafe, CurRight
<1>3. \A id \in ShmId : shared_frames'[id] # NoFrame => shared_frames'[id] = shared_frames[id]
  BY <1>2 DEF Shmdt, Release
<1>4. /\ DOMAIN proc' = DOMAIN proc
      /\ \A q \in DOMAIN proc : /\ proc'[q].dir = proc[q].dir /\ proc'[q].ut = proc[q].ut
                                /\ proc'[q].data = proc[q].data
  <2>1. proc \in [DOMAIN proc -> ProcRecord]
    BY DEF ASSafe, MemSafe, MemTyped, ProcTyped
  <2> QED BY <2>1, <1>2 DEF ProcRecord
<1>5. Live = DOMAIN proc /\ Live' = Live /\ DOMAIN Pages = Live
  BY <1>v, <1>2, <1>4, LiveOutsideFork, LiveNext DEF Views
<1>6. \A q \in DOMAIN proc', i \in DataPage : DataFrame(q, i)' = DataFrame(q, i)
  <2>1. t \in [Frame \cup {IdleDir} -> [Index -> EntryRecord]]
    <3>1. table \in [Frame \cup {IdleDir} -> [Index -> EntryRecord]] /\ UT(cur) \in Frame
      BY <1>2, TableOfProcess, ProcFacts DEF ASSafe, TablesRight
    <3>2. Absent \in EntryRecord
      BY DEF Absent, Entry, EntryRecord, NoFrame
    <3>3. ShmPage(s) \in Index
      BY Layout
    <3> QED BY <3>1, <3>2, <3>3, <1>1
  <2>2. ASSUME NEW q \in DOMAIN proc PROVE table'[proc'[q].ut] = t[proc[q].ut]
    <3>1. Own(q)' = Own(q) /\ proc[q].ut \in Own(q) /\ q \in DOMAIN proc' /\ proc'[q].ut = proc[q].ut
      BY <1>4 DEF Own
    <3>2. \A f \in Own(q) : table'[f] = t[f]
      BY <3>1, <2>1, <1>2, ForgetKeeps DEF ASSafe
    <3> QED BY <3>1, <3>2
  <2>3. \A q \in DOMAIN proc, i \in DataPage : t[proc[q].ut][i] = table[proc[q].ut][i]
    BY <1>1, ShmEntryData
  <2> QED BY <2>2, <2>3, <1>4 DEF DataFrame
<1>7. /\ \A p \in DOMAIN proc', i \in DataPage : Pages'[p][i] = Pages[p][i]
      /\ Programs!Shrink /\ Text' = Text
  BY <1>2, <1>3, <1>4, <1>6, ForgottenUnseen
<1>8. Pages' = Pages
  BY <1>v, <1>4, <1>5, <1>7, PagesSame
<1>9. Attached' = [Attached EXCEPT ![cur][s] = NoFrame]
  <2>1. Attached' = [Attached EXCEPT ![cur][s] = IdOf(NoFrame)']
    BY <1>v, <1>2, <1>3, <1>5, SlotSeen
  <2>2. IdOf(NoFrame)' = NoFrame
    BY DEF IdOf
  <2> QED BY <2>1, <2>2
<1>10. Attached[cur][s] # NoFrame
  <2>1. proc[cur].shm[s] # NoFrame
    BY <1>2 DEF Shmdt, SlotsOf
  <2>2. IdOf(proc[cur].shm[s]) \in ShmId
    BY <2>1, <1>v, <1>2 DEF Views, IdsRight
  <2>3. Attached[cur][s] = IdOf(proc[cur].shm[s])
    BY <1>v, <1>2, <1>5 DEF Views
  <2> QED BY <2>2, <2>3, MemoryAssumption DEF ShmId, NoFrame
<1> QED BY <1>2, <1>5, <1>7, <1>8, <1>9, <1>10 DEF Programs!Detach

\* sys_shmrm destroys a page that nobody has, or none.
LEMMA ShmrmFlushesSeen ==
  ASSUME ASSafe, ASSafe', NEW id \in ShmId, ShmrmFlushes(id)
  PROVE  Programs!Remove
<1>v. Views /\ Views'
  BY ViewsHold, ViewsNext
<1>1. /\ Shmrm(id) /\ ForgetFreed(table) /\ forking = NoFork /\ forking' = forking
      /\ cur \in DOMAIN proc /\ proc' = proc
  BY DEF ShmrmFlushes, Running, Shmrm, ASSafe, CurRight
<1>2. \A j \in ShmId : shared_frames'[j] # NoFrame => shared_frames'[j] = shared_frames[j]
  BY <1>1 DEF Shmrm, shmVars, ASSafe, MemSafe, MemTyped, SharedTyped
<1>3. Live = DOMAIN proc /\ Live' = Live
  BY <1>1, LiveOutsideFork, LiveNext
<1>4. \A q \in DOMAIN proc', i \in DataPage : DataFrame(q, i)' = DataFrame(q, i)
  <2>1. table \in [Frame \cup {IdleDir} -> [Index -> EntryRecord]]
    BY DEF ASSafe, TablesRight
  <2>2. ASSUME NEW q \in DOMAIN proc PROVE table'[proc[q].ut] = table[proc[q].ut]
    <3>1. Own(q)' = Own(q) /\ proc[q].ut \in Own(q) /\ q \in DOMAIN proc'
      BY <1>1 DEF Own
    <3>2. \A f \in Own(q) : table'[f] = table[f]
      BY <3>1, <1>1, <2>1, ForgetKeeps DEF ASSafe
    <3> QED BY <3>1, <3>2
  <2> QED BY <2>2, <1>1 DEF DataFrame
<1>5. /\ \A p \in DOMAIN proc', i \in DataPage : Pages'[p][i] = Pages[p][i]
      /\ Programs!Shrink /\ Text' = Text
  BY <1>1, <1>2, <1>4, ForgottenUnseen
<1>6. Pages' = Pages
  BY <1>v, <1>1, <1>3, <1>5, PagesSame
<1>7. Attached' = Attached
  <2>1. \A p \in Live, s \in Slot : IdOf(proc[p].shm[s])' = IdOf(proc[p].shm[s])
    BY <1>v, <1>1, <1>2, <1>3, SameId
  <2>2. /\ Attached = [p \in Live |-> [s \in Slot |-> IdOf(proc[p].shm[s])]]
        /\ Attached' = [p \in Live |-> [s \in Slot |-> IdOf(proc[p].shm[s])']]
    BY <1>v, <1>3 DEF Views
  <2> QED BY <2>1, <2>2
<1> QED BY <1>5, <1>6, <1>7 DEF Programs!Remove

LEMMA ProgramsInit == ASInit => Programs!PMInit /\ CopyRight
<1> SUFFICES ASSUME ASInit PROVE Programs!PMInit /\ CopyRight
  OBVIOUS
<1>1. ASSafe /\ Views
  BY ASSafeInit, ViewsHold
<1>2. forking = NoFork /\ MemInit
  BY DEF ASInit
<1>3. /\ DOMAIN proc = {1} /\ proc[1].shm = [s \in Slot |-> NoFrame]
      /\ shared_frames = [id \in ShmId |-> NoFrame]
  BY <1>2 DEF MemInit
<1>4. Live = {1}
  BY <1>1, <1>2, <1>3, LiveOutsideFork
<1>5. DOMAIN Pages = {1} /\ Pages[1] \in [DataPage -> Word \cup {Garbage}]
  <2>1. \A i \in DataPage : contents[DataFrame(1, i)] \in Word \cup {Garbage}
    <3>1. 1 \in DOMAIN proc
      BY <1>3
    <3>2. \A i \in DataPage : DataFrame(1, i) \in Frame
      BY <3>1, <1>1, ProcFacts DEF Views, PagesApart, ASSafe
    <3> QED BY <3>2, <1>1 DEF ASSafe, CurRight
  <2> QED BY <1>1, <1>4, <2>1 DEF Views
<1>6. Attached = [p \in DOMAIN Pages |-> [s \in Slot |-> NoFrame]]
  <2>1. \A s \in Slot : IdOf(proc[1].shm[s]) = NoFrame
    BY <1>3 DEF IdOf
  <2> QED BY <2>1, <1>1, <1>4, <1>5 DEF Views
<1>7. SharedContents = [id \in ShmId |-> NoFrame]
  BY <1>3 DEF SharedContents
<1>8. CopyRight
  BY <1>2 DEF CopyRight
<1>9. Text \in [CodePage -> Word \cup {Garbage}]
  BY <1>1 DEF Text, ASSafe, CurRight, CodeFrames
<1> QED BY <1>5, <1>6, <1>7, <1>8, <1>9 DEF Programs!PMInit

LEMMA ProgramsStep ==
  ASSUME ASSafe, ASSafe', CopyRight, [ASNext]_<<memVars, asVars>>
  PROVE  [Programs!PMNext]_(Programs!pmVars) /\ CopyRight'
<1> DEFINE Unseen == UNCHANGED <<Pages, Attached, SharedContents, Text>>
<1>1. ASSUME NEW i \in Index, NEW w \in Word, Store(i, w)
      PROVE  Programs!PMNext /\ CopyRight'
  <2>1. CopyRight'
    BY <1>1 DEF Store, Running, CopyRight
  <2>2. CASE cur \in DOMAIN Pages /\ i \in DataPage /\ Programs!Write(cur, i, w)
    BY <2>1, <2>2 DEF Programs!PMNext
  <2>3. CASE cur \in DOMAIN Pages /\ \E s \in Slot : Programs!WriteShared(cur, s, w)
    BY <2>1, <2>3 DEF Programs!PMNext
  <2>4. CASE i \in CodePage /\ Programs!WriteText(i, w)
    BY <2>1, <2>4 DEF Programs!PMNext
  <2> QED BY <1>1, <2>2, <2>3, <2>4, StoreSeen
<1>2. ASSUME NEW t \in DOMAIN proc \cup {Idle}, Switch(t)
      PROVE  Unseen /\ CopyRight'
  <2>1. CopyRight'
    BY <1>2 DEF Switch, CopyRight
  <2> QED BY <2>1, <1>2, SwitchSeen
<1>3. ASSUME ForkBegin
      PROVE  Unseen /\ CopyRight'
  BY <1>3, ForkBeginSeen
<1>4. ASSUME CopyPage
      PROVE  Unseen /\ CopyRight'
  BY <1>4, CopyPageSeen
<1>5. ASSUME ForkEnd
      PROVE  Programs!PMNext /\ CopyRight'
  <2>1. CopyRight'
    BY <1>5 DEF ForkEnd, CopyRight
  <2> QED BY <2>1, <1>5, ForkEndSeen DEF Programs!PMNext
<1>6. ASSUME ForkFailsMapped
      PROVE  Unseen /\ CopyRight'
  <2>1. CopyRight'
    BY <1>6 DEF ForkFailsMapped, Running, CopyRight
  <2> QED BY <2>1, <1>6, ForkFailsMappedSeen
<1>7. ASSUME ExitSwitches
      PROVE  Programs!PMNext /\ CopyRight'
  <2>1. CopyRight'
    BY <1>7 DEF ExitSwitches, Running, CopyRight
  <2> QED BY <2>1, <1>7, ExitSwitchesSeen DEF Programs!PMNext
<1>8. ASSUME NEW id \in ShmId, NEW s \in Slot, ShmatEntry(id, s)
      PROVE  Programs!PMNext /\ CopyRight'
  <2>1. CopyRight'
    BY <1>8 DEF ShmatEntry, Running, CopyRight
  <2> QED BY <2>1, <1>8, ShmatEntrySeen DEF Programs!PMNext
<1>9. ASSUME NEW id \in ShmId, ShmatNoEntry(id)
      PROVE  Programs!PMNext /\ CopyRight'
  <2>1. CopyRight'
    BY <1>9 DEF ShmatNoEntry, asVars, Running, CopyRight
  <2> QED BY <2>1, <1>9, ShmatNoEntrySeen DEF Programs!PMNext
<1>10. ASSUME NEW id \in ShmId, ShmrmFlushes(id)
       PROVE  Programs!PMNext /\ CopyRight'
  <2>1. CopyRight'
    BY <1>10 DEF ShmrmFlushes, Running, CopyRight
  <2> QED BY <2>1, <1>10, ShmrmFlushesSeen DEF Programs!PMNext
<1>11. ASSUME NEW s \in Slot, ShmdtEntry(s)
       PROVE  Programs!PMNext /\ CopyRight'
  <2>1. CopyRight'
    BY <1>11 DEF ShmdtEntry, Running, CopyRight
  <2> QED BY <2>1, <1>11, ShmdtEntrySeen DEF Programs!PMNext
<1>12. ASSUME UNCHANGED <<memVars, asVars>>
       PROVE  Unseen /\ CopyRight'
  <2>1. /\ proc' = proc /\ table' = table /\ contents' = contents /\ forking' = forking /\ cur' = cur
        /\ shared_frames' = shared_frames
    BY <1>12 DEF memVars, shmVars, asVars
  <2>2. CopyRight'
    BY <2>1 DEF CopyRight, DataFrame
  <2>3. Live' = Live
    BY <2>1 DEF Live
  <2> QED BY <2>1, <2>2, <2>3, ViewsHold, ViewsNext, NothingSeen
<1>14. ASSUME CallFaults \/ ForkFaults
       PROVE  Unseen /\ CopyRight'
  <2>1. CopyRight'
    BY <1>14 DEF CallFaults, ForkFaults, CopyRight, DataFrame, memVars
  <2> QED BY <2>1, <1>14, FaultSeen
<1>13. \/ Programs!PMNext /\ CopyRight'
       \/ Unseen /\ CopyRight'
  <2> HIDE DEF Unseen
  <2> QED BY <1>1, <1>2, <1>3, <1>4, <1>5, <1>6, <1>7, <1>8, <1>9, <1>10, <1>11, <1>12, <1>14 DEF ASNext
<1> QED BY <1>13 DEF Programs!pmVars

\* Tables, temporary mappings and TLB give programs private memory: a step of a
\* program or a system call is seen as what it promises, and as nothing else.
THEOREM ASImplementsPrivateMemory == ASSpec => ImplementsPrivateMemory
<1>1. ASInit => ASSafe /\ CopyRight /\ Programs!PMInit
  BY ASSafeInit, ProgramsInit
<1>2. ASSafe /\ ASSafe' /\ CopyRight /\ [ASNext]_<<memVars, asVars>> =>
        [Programs!PMNext]_(Programs!pmVars) /\ CopyRight'
  BY ProgramsStep
<1> QED BY <1>1, <1>2, ASAlwaysSafe, PTL DEF ASSpec, ImplementsPrivateMemory, Programs!PMSpec

===============================================================================
