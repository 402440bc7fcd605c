------------------------------- MODULE Memory ---------------------------------
(***************************************************************************)
(* Physical frames and shared pages: the byte map of mm.c, what fork       *)
(* allocates and exit frees, and shmat, shmdt, shmrm of sys.c.             *)
(*                                                                         *)
(* A process is known by the frame of its PCB, which is what current()     *)
(* is in the code; a page table is reduced to the frames it maps.  Every   *)
(* system call runs with interrupts off, so each is one step, of any live  *)
(* process.  Code pages are never freed and are left out.                  *)
(***************************************************************************)
EXTENDS Integers, FiniteSetsExt, Functions

CONSTANTS
  TOTAL_PAGES,       \* frames 1..TOTAL_PAGES remain for processes after boot
  NUM_PAG_DATA,      \* data pages of a process: 20
  NUM_SHARED_PAGES,  \* shared pages, with ids from 0: 10
  ShmSlots,          \* entries left for them in the user page table: 996
  TempPage           \* the kernel page for temporary mappings: 512

ASSUME MemoryAssumption ==
  /\ NUM_PAG_DATA \in Nat \ {0}
  /\ TOTAL_PAGES \in Nat /\ TOTAL_PAGES >= 3 + NUM_PAG_DATA
  /\ NUM_SHARED_PAGES \in Nat \ {0}
  /\ ShmSlots \in Nat \ {0}
  /\ TempPage \in Int

Frame == 1..TOTAL_PAGES
ShmId == 0..NUM_SHARED_PAGES - 1
Slot == 1..ShmSlots
NoFrame == -1

VARIABLES
  phys_mem,          \* the frames marked USED_FRAME
  proc,              \* for every live PCB frame: dir, ut, data and shm frames
  shared_frames,     \* frame of each shared page, or NoFrame
  shared_refs,
  shared_marked_rm,
  temp_present       \* the kernel table maps frame TempPage to itself

shmVars == <<shared_frames, shared_refs, shared_marked_rm>>
memVars == <<phys_mem, proc, shmVars, temp_present>>

\* The frames that exit gives back.
Own(p) == {p, proc[p].dir, proc[p].ut} \cup proc[p].data

\* The init task has the first frames.
MemInit ==
  /\ phys_mem = 1..3 + NUM_PAG_DATA
  /\ proc = [p \in {1} |-> [dir |-> 2, ut |-> 3, data |-> 4..3 + NUM_PAG_DATA,
                            shm |-> [s \in Slot |-> NoFrame]]]
  /\ shared_frames = [id \in ShmId |-> NoFrame]
  /\ shared_refs = [id \in ShmId |-> 0]
  /\ shared_marked_rm = [id \in ShmId |-> FALSE]
  /\ temp_present = (TempPage \in 1..3)

Free == Frame \ phys_mem

\* What the k-th of several calls of alloc_frame returns: lowest frame first.
Alloc(k) == CHOOSE f \in Free : Cardinality({g \in Free : g <= f}) = k

\* The slots of p that map shared page id.
SlotsOf(p, id) ==
  {s \in Slot : proc[p].shm[s] # NoFrame /\ proc[p].shm[s] = shared_frames[id]}

-----------------------------------------------------------------------------
(* fork and exit.                                                          *)

\* A mutant: the shared pages are inherited uncounted.
InheritedUncounted(p, id) == 0

\* The last loop of sys_fork: references to id that the child of p inherits.
Inherited(p, id) == Cardinality(SlotsOf(p, id))

\* sys_fork with frames for everything: PCB, directory, page table, data pages,
\* in this order.  Each data page is copied through the temporary mapping.
Fork(p) ==
  LET child == Alloc(1)
      data == {Alloc(k) : k \in 4..3 + NUM_PAG_DATA}
  IN  /\ Cardinality(Free) >= 3 + NUM_PAG_DATA
      /\ proc' = [q \in DOMAIN proc \cup {child} |->
                    IF q = child THEN [dir |-> Alloc(2), ut |-> Alloc(3), data |-> data,
                                       shm |-> proc[p].shm]
                                 ELSE proc[q]]
      /\ phys_mem' = phys_mem \cup {child, Alloc(2), Alloc(3)} \cup data
      /\ shared_refs' = [id \in ShmId |-> shared_refs[id] + Inherited(p, id)]
      /\ temp_present' = FALSE
      /\ UNCHANGED <<shared_frames, shared_marked_rm>>

\* sys_fork without: whatever fails, the PCB, the page table and the data pages
\* that were allocated are freed; the directory is not.  (When allocate_DIR
\* itself fails, which nobody looks at, the next alloc_frame fails too.)
ForkFails(p) ==
  LET left == Cardinality(Free)
  IN  /\ left < 3 + NUM_PAG_DATA
      /\ phys_mem' = phys_mem \cup (IF left > 1 THEN {Alloc(2)} ELSE {})
      /\ temp_present' = (temp_present \/ TempPage \in {Alloc(k) : k \in 1..Min({3, left})})
      /\ UNCHANGED <<proc, shmVars>>

\* Mutants: a page is destroyed though some process has it; one is not, though
\* its last user goes.
ReleaseMarked(ids, refs, own) ==
  LET gone == {id \in ids : shared_marked_rm[id]}
  IN  /\ shared_refs' = refs
      /\ shared_frames' = [id \in ShmId |-> IF id \in gone THEN NoFrame ELSE shared_frames[id]]
      /\ shared_marked_rm' = [id \in ShmId |-> shared_marked_rm[id] /\ id \notin gone]
      /\ phys_mem' = phys_mem \ (own \cup {shared_frames[id] : id \in gone})
      /\ temp_present' = (temp_present /\ gone = {})
ReleaseNothing(ids, refs, own) ==
  /\ shared_refs' = refs
  /\ phys_mem' = phys_mem \ own
  /\ UNCHANGED <<shared_frames, shared_marked_rm, temp_present>>

\* What sys_exit and sys_shmdt do once the references to ids are counted down
\* to refs: cleanup_shared_page destroys the pages nobody uses that are marked;
\* it zeroes them through the temporary mapping.  own is freed besides.
Release(ids, refs, own) ==
  LET gone == {id \in ids : refs[id] = 0 /\ shared_marked_rm[id]}
  IN  /\ shared_refs' = refs
      /\ shared_frames' = [id \in ShmId |-> IF id \in gone THEN NoFrame ELSE shared_frames[id]]
      /\ shared_marked_rm' = [id \in ShmId |-> shared_marked_rm[id] /\ id \notin gone]
      /\ phys_mem' = phys_mem \ (own \cup {shared_frames[id] : id \in gone})
      /\ temp_present' = (temp_present /\ gone = {})

\* sys_exit: every shared mapping is dropped, then everything p owns is freed.
Exit(p) ==
  LET ids == {id \in ShmId : SlotsOf(p, id) # {}}
  IN  /\ Release(ids, [id \in ShmId |-> shared_refs[id] - Cardinality(SlotsOf(p, id))], Own(p))
      /\ proc' = [q \in DOMAIN proc \ {p} |-> proc[q]]

-----------------------------------------------------------------------------
(* Shared pages.                                                           *)

\* The frame of id after the first lines of sys_shmat, which allocate it before
\* the address is looked at.
FrameFor(id) == IF shared_frames[id] = NoFrame THEN Alloc(1) ELSE shared_frames[id]

Attachable(id) ==
  /\ ~ shared_marked_rm[id]
  /\ shared_frames[id] = NoFrame => Free # {}

GiveFrame(id) ==
  /\ shared_frames' = [shared_frames EXCEPT ![id] = FrameFor(id)]
  /\ phys_mem' = phys_mem \cup {FrameFor(id)}

\* A mutant: attaching a page again where it is counts as one more use.
ShmatAgainCounts(p, id, s) ==
  /\ Attachable(id)
  /\ proc[p].shm[s] \in {NoFrame, FrameFor(id)}
  /\ GiveFrame(id)
  /\ proc' = [proc EXCEPT ![p].shm[s] = FrameFor(id)]
  /\ shared_refs' = [shared_refs EXCEPT ![id] = @ + 1]
  /\ UNCHANGED <<shared_marked_rm, temp_present>>

\* sys_shmat(id, addr) that succeeds at the free page s (with addr = 0, s is the
\* lowest one).
ShmatMaps(p, id, s) ==
  /\ Attachable(id)
  /\ proc[p].shm[s] = NoFrame
  /\ GiveFrame(id)
  /\ proc' = [proc EXCEPT ![p].shm[s] = FrameFor(id)]
  /\ shared_refs' = [shared_refs EXCEPT ![id] = @ + 1]
  /\ UNCHANGED <<shared_marked_rm, temp_present>>

\* sys_shmat(id, addr) that maps nothing: addr is no page for shared memory,
\* page s holds something already (this page, which is no error, or another),
\* or no page is free.  The frame stays with id all the same.
ShmatMapsNothing(p, id) ==
  /\ Attachable(id)
  /\ GiveFrame(id)
  /\ UNCHANGED <<proc, shared_refs, shared_marked_rm, temp_present>>

\* sys_shmdt: the first id with the frame at page s.
Shmdt(p, s) ==
  LET id == Min({i \in ShmId : s \in SlotsOf(p, i)})
  IN  /\ \E i \in ShmId : s \in SlotsOf(p, i)
      /\ proc' = [proc EXCEPT ![p].shm[s] = NoFrame]
      /\ Release({id}, [shared_refs EXCEPT ![id] = @ - 1], {})

\* Mutants: the id is free again and its frame is not; the frame is freed, and
\* the id goes on naming it.
ShmrmKeepsFrame(id) ==
  /\ shared_frames[id] # NoFrame
  /\ shared_refs[id] = 0
  /\ shared_frames' = [shared_frames EXCEPT ![id] = NoFrame]
  /\ temp_present' = FALSE
  /\ UNCHANGED <<phys_mem, proc, shared_refs, shared_marked_rm>>
ShmrmForgetsId(id) ==
  /\ shared_frames[id] # NoFrame
  /\ \/ /\ shared_refs[id] = 0
        /\ phys_mem' = phys_mem \ {shared_frames[id]}
        /\ temp_present' = FALSE
        /\ UNCHANGED <<proc, shmVars>>
     \/ /\ shared_refs[id] # 0
        /\ shared_marked_rm' = [shared_marked_rm EXCEPT ![id] = TRUE]
        /\ UNCHANGED <<phys_mem, proc, shared_frames, shared_refs, temp_present>>

\* sys_shmrm: destroyed at once when nobody uses it, marked otherwise.
Shmrm(id) ==
  /\ shared_frames[id] # NoFrame
  /\ \/ /\ shared_refs[id] = 0
        /\ phys_mem' = phys_mem \ {shared_frames[id]}
        /\ shared_frames' = [shared_frames EXCEPT ![id] = NoFrame]
        /\ temp_present' = FALSE
        /\ UNCHANGED <<proc, shared_refs, shared_marked_rm>>
     \/ /\ shared_refs[id] # 0
        /\ shared_marked_rm' = [shared_marked_rm EXCEPT ![id] = TRUE]
        /\ UNCHANGED <<phys_mem, proc, shared_frames, shared_refs, temp_present>>

MemNext ==
  \E p \in DOMAIN proc :
    \/ Fork(p)
    \/ ForkFails(p)
    \/ Exit(p)
    \/ \E id \in ShmId : \/ \E s \in Slot : ShmatMaps(p, id, s)
                         \/ ShmatMapsNothing(p, id)
                         \/ Shmrm(id)
    \/ \E s \in Slot : Shmdt(p, s)

MemSpec == MemInit /\ [][MemNext]_memVars

-----------------------------------------------------------------------------
(* Properties.                                                             *)

MemTypeOK ==
  /\ phys_mem \subseteq Frame
  /\ \A p \in DOMAIN proc :
       /\ {p, proc[p].dir, proc[p].ut} \cup proc[p].data \subseteq Frame
       /\ proc[p].shm \in [Slot -> Frame \cup {NoFrame}]
  /\ shared_frames \in [ShmId -> Frame \cup {NoFrame}]
  /\ shared_refs \in [ShmId -> Nat]
  /\ shared_marked_rm \in [ShmId -> BOOLEAN]
  /\ temp_present \in BOOLEAN

\* Mappings of shared page id, over all processes.
Mappings(id) == {x \in (DOMAIN proc) \X Slot : x[2] \in SlotsOf(x[1], id)}

\* shared_refs counts the mappings, through inheritance by fork, attaching the
\* same page at several addresses or twice at one, detaching and exit.
RefsCountMappings == \A id \in ShmId : shared_refs[id] = Cardinality(Mappings(id))

\* A shared page is not destroyed under a process that has it: every mapping
\* is of a frame that is still a shared page's.
NoDanglingMapping ==
  \A p \in DOMAIN proc, s \in Slot :
    proc[p].shm[s] # NoFrame => \E id \in ShmId : s \in SlotsOf(p, id)

\* Every frame in use has one owner, and is marked used: alloc_frame can never
\* hand out a PCB, a page table or somebody's data again.
FramesOwnedOnce ==
  /\ \A p \in DOMAIN proc :
       /\ Own(p) \subseteq phys_mem
       /\ Cardinality(Own(p)) = 3 + NUM_PAG_DATA
  /\ \A p, q \in DOMAIN proc : p # q => Own(p) \cap Own(q) = {}
  /\ \A id \in ShmId : shared_frames[id] # NoFrame =>
       /\ shared_frames[id] \in phys_mem
       /\ \A p \in DOMAIN proc : shared_frames[id] \notin Own(p)
       /\ \A j \in ShmId : shared_frames[j] = shared_frames[id] => j = id

\* A page marked for removal goes with its last user: no page stays marked that
\* nobody has, for it could never be attached again.
MarkedPagesAreUsed ==
  \A id \in ShmId : shared_marked_rm[id] => shared_frames[id] # NoFrame /\ shared_refs[id] > 0

\* The frames that are marked used and nobody's.
Lost == phys_mem \ ((UNION {Own(p) : p \in DOMAIN proc}) \cup Range(shared_frames))

\* What sys_fork says where it gives up (``Error: liberar lo reservado'', free
\* what was taken): a frame that is marked used is somebody's.
NoFrameLost == Lost = {}

\* Nor does anything else lose one: exit with pages attached, a page removed by
\* its last user or at once, a call that fails halfway all give back what they
\* had, so no more is lost than the one frame of each failed fork that breaks
\* NoFrameLost, the directory's.
OnlyFailedForksLose ==
  [][Lost' # Lost => /\ \E p \in DOMAIN proc : ForkFails(p)
                     /\ Lost \subseteq Lost' /\ Cardinality(Lost' \ Lost) = 1]_memVars

\* What sys_fork says of page 512 (``a free page of the kernel''): every frame
\* the kernel reaches through its identity mapping is still mapped.
KernelFramesMapped ==
  temp_present \/ \A p \in DOMAIN proc : TempPage \notin {p, proc[p].dir, proc[p].ut}
===============================================================================
