----------------------------- MODULE MemoryProofs -----------------------------
(***************************************************************************)
(* The accounts of physical memory are right for any number of frames,     *)
(* data pages, shared pages and slots, and any order of calls.             *)
(*                                                                         *)
(* The inductive invariant is the five invariants together: counts tell    *)
(* when a page may go, owners tell that a frame which goes is nobody       *)
(* else's, and that nothing dangles tells that a new frame is not mapped.  *)
(***************************************************************************)
EXTENDS Memory, FiniteSetTheorems, TLAPS

-----------------------------------------------------------------------------
(* alloc_frame: the k-th lowest free frame exists, for each k that there   *)
(* are frames for.                                                         *)

\* A set of numbers that is not empty has a least one.
LEMMA LeastNat ==
  ASSUME NEW S \in SUBSET Nat, S # {}
  PROVE  \E n \in S : \A m \in S : n <= m
<1>1. PICK n \in S : \A m \in S : <<m, n>> \notin OpToRel(<, Nat)
  BY NatLessThanWellFounded, WFMin
<1>2. \A m \in Nat : m < n => <<m, n>> \in OpToRel(<, Nat)
  BY DEF OpToRel
<1>3. ASSUME NEW m \in S PROVE n <= m
  <2>1. ~ (m < n)
    BY <1>1, <1>2
  <2>2. m \in Nat /\ n \in Nat
    OBVIOUS
  <2> QED BY <2>1, <2>2
<1> QED BY <1>3

\* How many elements of F are at most n.
UpTo(F, n) == Cardinality({g \in F : g <= n})

\* Every finite set of positive numbers has a k-th lowest element.
LEMMA KthLowest ==
  ASSUME NEW F \in SUBSET (Nat \ {0}), IsFiniteSet(F),
         NEW N \in Nat, \A g \in F : g <= N, NEW k \in 1..Cardinality(F)
  PROVE  \E f \in F : UpTo(F, f) = k
<1> DEFINE Below(n) == {g \in F : g <= n}
           Enough == {n \in Nat : UpTo(F, n) >= k}
<1>1. \A n : IsFiniteSet(Below(n)) /\ UpTo(F, n) \in Nat
  BY FS_Subset, FS_CardinalityType DEF UpTo
<1>2. Cardinality(F) \in Nat
  BY FS_CardinalityType
<1>3. N \in Enough
  <2>1. Below(N) = F
    OBVIOUS
  <2>2. UpTo(F, N) = Cardinality(F)
    BY <2>1, Zenon DEF UpTo
  <2> QED BY <2>2, <1>2
<1>4. PICK n \in Enough : \A m \in Enough : n <= m
  BY <1>3, LeastNat
<1>5. n \in Nat \ {0}
  <2>1. \A g \in F : ~ (g <= 0)
    OBVIOUS
  <2>2. Below(0) = {}
    BY <2>1
  <2>3. UpTo(F, 0) = 0
    BY <2>2, FS_EmptySet, Zenon DEF UpTo
  <2> QED BY <2>3, <1>4
<1>6. UpTo(F, n - 1) < k
  <2>1. n - 1 \notin Enough
    BY <1>4, <1>5
  <2>2. n - 1 \in Nat
    BY <1>5
  <2>3. UpTo(F, n - 1) \in Nat
    BY <1>1, Zenon
  <2> QED BY <2>1, <2>2, <2>3, <1>2
<1>7. Below(n) = IF n \in F THEN Below(n - 1) \cup {n} ELSE Below(n - 1)
  <2>1. \A g \in F : g <= n <=> g <= n - 1 \/ g = n
    BY <1>5
  <2> QED BY <2>1
<1>8. n \notin Below(n - 1)
  BY <1>5
<1>9. UpTo(F, n) = IF n \in F THEN UpTo(F, n - 1) + 1 ELSE UpTo(F, n - 1)
  <2>1. IsFiniteSet(Below(n - 1))
    BY <1>1
  <2>2. UpTo(F, n) = Cardinality(Below(n)) /\ UpTo(F, n - 1) = Cardinality(Below(n - 1))
    BY DEF UpTo
  <2> HIDE DEF Below
  <2>3. Cardinality(Below(n - 1) \cup {n}) = Cardinality(Below(n - 1)) + 1
    BY <2>1, <1>8, FS_AddElement
  <2> QED BY <2>2, <2>3, <1>7
<1>10. UpTo(F, n) >= k /\ UpTo(F, n) \in Nat /\ UpTo(F, n - 1) \in Nat
  BY <1>4, <1>1
<1> QED BY <1>6, <1>9, <1>10

LEMMA FreeFinite == IsFiniteSet(Free) /\ Cardinality(Free) \in Nat
<1>1. IsFiniteSet(Frame)
  BY FS_Interval, MemoryAssumption DEF Frame
<1>2. IsFiniteSet(Free)
  BY <1>1, FS_Difference DEF Free
<1> QED BY <1>2, FS_CardinalityType

\* What alloc_frame returns is free, and each time another frame.
LEMMA AllocFree ==
  ASSUME NEW k \in 1..Cardinality(Free)
  PROVE  Alloc(k) \in Free /\ UpTo(Free, Alloc(k)) = k
<1>1. Free \in SUBSET (Nat \ {0}) /\ TOTAL_PAGES \in Nat /\ \A g \in Free : g <= TOTAL_PAGES
  BY MemoryAssumption DEF Free, Frame
<1>2. IsFiniteSet(Free)
  BY FreeFinite
<1>3. \E f \in Free : UpTo(Free, f) = k
  BY <1>1, <1>2, KthLowest
<1> QED BY <1>3 DEF Alloc, UpTo

LEMMA AllocDistinct ==
  ASSUME NEW j \in 1..Cardinality(Free), NEW k \in 1..Cardinality(Free), j # k
  PROVE  Alloc(j) # Alloc(k)
BY AllocFree

\* Fork's data pages are as many as it asks for.
LEMMA AllocMany ==
  ASSUME NEW a \in Nat \ {0}, NEW b \in Nat, a <= b, b <= Cardinality(Free)
  PROVE  LET data == {Alloc(k) : k \in a..b}
         IN  /\ data \subseteq Free
             /\ IsFiniteSet(data) /\ Cardinality(data) = b - a + 1
             /\ \A j \in 1..a - 1 : Alloc(j) \notin data
<1> DEFINE data == {Alloc(k) : k \in a..b}
           f == [k \in a..b |-> Alloc(k)]
<1>0. Cardinality(Free) \in Nat
  BY FreeFinite
<1>1. \A k \in a..b : k \in 1..Cardinality(Free)
  BY <1>0
<1>2. f \in Bijection(a..b, data)
  <2>1. \A j, k \in a..b : j # k => Alloc(j) # Alloc(k)
    BY <1>1, AllocDistinct
  <2>2. f \in Surjection(a..b, data)
    BY DEF Surjection
  <2> QED BY <2>1, <2>2 DEF Bijection, Injection, IsInjective, Surjection
<1>3. IsFiniteSet(a..b) /\ Cardinality(a..b) = b - a + 1
  BY FS_Interval
<1>4. IsFiniteSet(data) /\ Cardinality(data) = b - a + 1
  BY <1>2, <1>3, FS_Bijection DEF ExistsBijection
<1>5. data \subseteq Free
  BY <1>1, AllocFree
<1>6. \A j \in 1..a - 1 : Alloc(j) \notin data
  <2>1. \A j \in 1..a - 1 : \A k \in a..b : j # k /\ j \in 1..Cardinality(Free)
    BY <1>0
  <2> QED BY <2>1, <1>1, AllocDistinct
<1> QED BY <1>4, <1>5, <1>6
-----------------------------------------------------------------------------
(* The inductive invariant.                                                *)

ProcRecord == [dir : Frame, ut : Frame, data : SUBSET Frame, shm : [Slot -> Frame \cup {NoFrame}]]
ProcTyped == DOMAIN proc \subseteq Frame /\ proc \in [DOMAIN proc -> ProcRecord]

SharedTyped ==
  /\ shared_frames \in [ShmId -> Frame \cup {NoFrame}]
  /\ shared_refs \in [ShmId -> Nat]
  /\ shared_marked_rm \in [ShmId -> BOOLEAN]

MemTyped == phys_mem \subseteq Frame /\ ProcTyped /\ SharedTyped /\ temp_present \in BOOLEAN

\* The frames a process owns, as FramesOwnedOnce has them.
OwnersApart ==
  /\ \A p \in DOMAIN proc :
       /\ Own(p) \subseteq phys_mem
       /\ Cardinality(Own(p)) = 3 + NUM_PAG_DATA
  /\ \A p, q \in DOMAIN proc : p # q => Own(p) \cap Own(q) = {}

\* And the shared pages.
SharedApart ==
  \A id \in ShmId : shared_frames[id] # NoFrame =>
    /\ shared_frames[id] \in phys_mem
    /\ \A p \in DOMAIN proc : shared_frames[id] \notin Own(p)
    /\ \A j \in ShmId : shared_frames[j] = shared_frames[id] => j = id

MemSafe ==
  /\ MemTyped
  /\ RefsCountMappings
  /\ NoDanglingMapping
  /\ OwnersApart
  /\ SharedApart
  /\ MarkedPagesAreUsed

LEMMA MemSafeImplies ==
  MemSafe => /\ MemTypeOK /\ RefsCountMappings /\ NoDanglingMapping
             /\ FramesOwnedOnce /\ MarkedPagesAreUsed
<1> SUFFICES ASSUME MemSafe PROVE MemTypeOK /\ FramesOwnedOnce
  BY DEF MemSafe
<1>1. FramesOwnedOnce
  BY DEF MemSafe, FramesOwnedOnce, OwnersApart, SharedApart
<1>2. ASSUME NEW p \in DOMAIN proc
      PROVE  /\ {p, proc[p].dir, proc[p].ut} \cup proc[p].data \subseteq Frame
             /\ proc[p].shm \in [Slot -> Frame \cup {NoFrame}]
  <2>1. p \in Frame /\ proc[p] \in ProcRecord
    BY DEF MemSafe, MemTyped, ProcTyped
  <2> QED BY <2>1 DEF ProcRecord
<1> QED BY <1>1, <1>2 DEF MemSafe, MemTypeOK, MemTyped, SharedTyped

\* The processes and slots that map the frame of id, for any processes and any
\* frames of the shared pages.
Maps(pr, frames, id) ==
  {x \in (DOMAIN pr) \X Slot : pr[x[1]].shm[x[2]] # NoFrame /\ pr[x[1]].shm[x[2]] = frames[id]}

LEMMA MappingsAre ==
  ASSUME NEW id
  PROVE  Mappings(id) = Maps(proc, shared_frames, id) /\ Mappings(id)' = Maps(proc', shared_frames', id)
BY DEF Mappings, SlotsOf, Maps

LEMMA SlotFinite == IsFiniteSet(Slot)
BY FS_Interval, MemoryAssumption DEF Slot

LEMMA FrameFinite == IsFiniteSet(Frame)
BY FS_Interval, MemoryAssumption DEF Frame

LEMMA MapsFinite ==
  ASSUME NEW pr, DOMAIN pr \subseteq Frame, NEW frames, NEW id
  PROVE  IsFiniteSet(Maps(pr, frames, id)) /\ Cardinality(Maps(pr, frames, id)) \in Nat
<1>1. IsFiniteSet(DOMAIN pr)
  BY FrameFinite, FS_Subset
<1>2. IsFiniteSet((DOMAIN pr) \X Slot)
  BY <1>1, SlotFinite, FS_Product
<1>3. Maps(pr, frames, id) \in SUBSET ((DOMAIN pr) \X Slot)
  BY DEF Maps
<1> HIDE DEF Maps
<1>4. IsFiniteSet(Maps(pr, frames, id))
  BY <1>2, <1>3, FS_Subset
<1> QED BY <1>4, FS_CardinalityType

\* The mappings of one process are as many as its slots.
LEMMA RowCounts ==
  ASSUME NEW p, NEW S \in SUBSET Slot
  PROVE  /\ IsFiniteSet({p} \X S)
         /\ Cardinality({p} \X S) = Cardinality(S) /\ Cardinality(S) \in Nat
<1>1. IsFiniteSet(S) /\ Cardinality(S) \in Nat
  BY SlotFinite, FS_Subset, FS_CardinalityType
<1>2. IsFiniteSet({p}) /\ Cardinality({p}) = 1
  BY FS_Singleton
<1>3. IsFiniteSet({p} \X S) /\ Cardinality({p} \X S) = Cardinality({p}) * Cardinality(S)
  BY <1>1, <1>2, FS_Product
<1> QED BY <1>1, <1>2, <1>3
-----------------------------------------------------------------------------
LEMMA MemSafeInit == MemInit => MemSafe
<1> SUFFICES ASSUME MemInit PROVE MemSafe
  OBVIOUS
<1> DEFINE init == [dir |-> 2, ut |-> 3, data |-> 4..3 + NUM_PAG_DATA,
                    shm |-> [s \in Slot |-> NoFrame]]
<1>1. /\ NUM_PAG_DATA \in Nat \ {0} /\ 3 + NUM_PAG_DATA <= TOTAL_PAGES /\ TOTAL_PAGES \in Nat
      /\ NoFrame \notin Frame
  BY MemoryAssumption DEF NoFrame, Frame
<1>2. init \in ProcRecord
  BY <1>1 DEF ProcRecord, Frame
<1>3. proc = [p \in {1} |-> init]
  BY DEF MemInit
<1> HIDE DEF init
<1>4. ProcTyped
  BY <1>1, <1>2, <1>3 DEF ProcTyped, Frame
<1>5. MemTyped
  BY <1>1, <1>4 DEF MemTyped, SharedTyped, MemInit, Frame
<1>6. \A id \in ShmId : shared_frames[id] = NoFrame /\ shared_refs[id] = 0 /\ ~ shared_marked_rm[id]
  BY DEF MemInit
<1>7. DOMAIN proc = {1} /\ \A s \in Slot : proc[1].shm[s] = NoFrame
  BY <1>3 DEF init
<1>8. RefsCountMappings
  <2>1. \A id \in ShmId : Mappings(id) = {}
    BY <1>7, MappingsAre DEF Maps
  <2> QED BY <2>1, <1>6, FS_EmptySet DEF RefsCountMappings
<1>9. NoDanglingMapping
  BY <1>7 DEF NoDanglingMapping
<1>10. OwnersApart
  <2>1. Own(1) = 1..3 + NUM_PAG_DATA
    BY <1>1, <1>3 DEF Own, init
  <2>2. Cardinality(1..3 + NUM_PAG_DATA) = 3 + NUM_PAG_DATA
    BY <1>1, FS_Interval
  <2> QED BY <1>7, <2>1, <2>2 DEF OwnersApart, MemInit
<1> QED BY <1>5, <1>6, <1>8, <1>9, <1>10 DEF MemSafe, SharedApart, MarkedPagesAreUsed

-----------------------------------------------------------------------------
(* sys_exit and sys_shmdt.                                                 *)

\* Counting down and destroying: right whenever refs counts what is mapped
\* afterwards, and own is nobody's any more.
LEMMA ReleaseSafe ==
  ASSUME MemSafe,
         NEW ids \in SUBSET ShmId, NEW refs \in [ShmId -> Nat], NEW own \in SUBSET phys_mem,
         Release(ids, refs, own), ProcTyped',
         \A q \in DOMAIN proc' : q \in DOMAIN proc /\ Own(q)' = Own(q) /\ Own(q) \cap own = {},
         \A id \in ShmId : shared_frames[id] \notin own,
         \A q \in DOMAIN proc' : \A s \in Slot : proc'[q].shm[s] \in {proc[q].shm[s], NoFrame},
         \A id \in ShmId : refs[id] = Cardinality(Maps(proc', shared_frames, id)),
         \A id \in ShmId \ ids : refs[id] = shared_refs[id]
  PROVE  MemSafe'
<1> DEFINE gone == {id \in ids : refs[id] = 0 /\ shared_marked_rm[id]}
<1>0. /\ shared_refs' = refs
      /\ shared_frames' = [id \in ShmId |-> IF id \in gone THEN NoFrame ELSE shared_frames[id]]
      /\ shared_marked_rm' = [id \in ShmId |-> shared_marked_rm[id] /\ id \notin gone]
      /\ phys_mem' = phys_mem \ (own \cup {shared_frames[id] : id \in gone})
      /\ temp_present' = (temp_present /\ gone = {})
  BY DEF Release
<1>1. MemTyped'
  BY <1>0 DEF MemTyped, SharedTyped, MemSafe
<1>2. \A id \in gone : Maps(proc', shared_frames, id) = {}
  <2> SUFFICES ASSUME NEW id \in gone PROVE Maps(proc', shared_frames, id) = {}
    OBVIOUS
  <2>1. IsFiniteSet(Maps(proc', shared_frames, id)) /\ Cardinality(Maps(proc', shared_frames, id)) = 0
    BY MapsFinite DEF ProcTyped
  <2> QED BY <2>1, FS_EmptySet
<1> HIDE DEF gone
<1>3. gone \subseteq ids /\ gone \subseteq ShmId
  BY DEF gone
<1>4. \A id \in ShmId : Maps(proc', shared_frames', id) = Maps(proc', shared_frames, id)
  <2> SUFFICES ASSUME NEW id \in ShmId
               PROVE  Maps(proc', shared_frames', id) = Maps(proc', shared_frames, id)
    OBVIOUS
  <2>1. CASE id \in gone
    <3>1. Maps(proc', shared_frames', id) = {}
      BY <2>1, <1>0 DEF Maps
    <3> QED BY <3>1, <2>1, <1>2
  <2>2. CASE id \notin gone
    BY <2>2, <1>0 DEF Maps
  <2> QED BY <2>1, <2>2
<1>5. RefsCountMappings'
  BY <1>0, <1>4, MappingsAre DEF RefsCountMappings
<1>6. NoDanglingMapping'
  <2> SUFFICES ASSUME NEW q \in DOMAIN proc', NEW s \in Slot, proc'[q].shm[s] # NoFrame
               PROVE  \E id \in ShmId : proc'[q].shm[s] = shared_frames'[id]
    BY DEF NoDanglingMapping, SlotsOf
  <2>1. q \in DOMAIN proc /\ proc'[q].shm[s] = proc[q].shm[s]
    OBVIOUS
  <2>2. PICK id \in ShmId : proc[q].shm[s] = shared_frames[id]
    BY <2>1 DEF MemSafe, NoDanglingMapping, SlotsOf
  <2>3. <<q, s>> \in Maps(proc', shared_frames, id)
    BY <2>1, <2>2 DEF Maps
  <2>4. id \notin gone
    BY <2>3, <1>2
  <2> QED BY <2>1, <2>2, <2>4, <1>0
<1>7. OwnersApart'
  <2>1. \A q \in DOMAIN proc : \A id \in gone : shared_frames[id] \notin Own(q)
    <3> SUFFICES ASSUME NEW q \in DOMAIN proc, NEW id \in gone PROVE shared_frames[id] \notin Own(q)
      OBVIOUS
    <3>1. shared_frames[id] # NoFrame
      BY <1>3 DEF gone, MemSafe, MarkedPagesAreUsed
    <3> QED BY <3>1, <1>3 DEF MemSafe, SharedApart
  <2>2. \A q \in DOMAIN proc' : Own(q)' \subseteq phys_mem' /\ Cardinality(Own(q)') = 3 + NUM_PAG_DATA
    BY <2>1, <1>0 DEF MemSafe, OwnersApart
  <2>3. \A p, q \in DOMAIN proc' : p # q => Own(p)' \cap Own(q)' = {}
    BY DEF MemSafe, OwnersApart
  <2> QED BY <2>2, <2>3 DEF OwnersApart
<1>8. SharedApart'
  <2> SUFFICES ASSUME NEW id \in ShmId, shared_frames'[id] # NoFrame
               PROVE  /\ shared_frames'[id] \in phys_mem'
                      /\ \A p \in DOMAIN proc' : shared_frames'[id] \notin Own(p)'
                      /\ \A j \in ShmId : shared_frames'[j] = shared_frames'[id] => j = id
    BY DEF SharedApart
  <2>1. id \notin gone /\ shared_frames'[id] = shared_frames[id]
    BY <1>0
  <2>2. /\ shared_frames[id] \in phys_mem
        /\ \A p \in DOMAIN proc : shared_frames[id] \notin Own(p)
        /\ \A j \in ShmId : shared_frames[j] = shared_frames[id] => j = id
    BY <2>1 DEF MemSafe, SharedApart
  <2>3. shared_frames[id] \notin {shared_frames[g] : g \in gone}
    BY <2>1, <2>2, <1>3
  <2>4. \A j \in ShmId : shared_frames'[j] = shared_frames'[id] => j = id
    BY <2>1, <2>2, <1>0
  <2> QED BY <2>1, <2>2, <2>3, <2>4, <1>0
<1>9. MarkedPagesAreUsed'
  <2> SUFFICES ASSUME NEW id \in ShmId, shared_marked_rm'[id]
               PROVE  shared_frames'[id] # NoFrame /\ shared_refs'[id] > 0
    BY DEF MarkedPagesAreUsed
  <2>1. shared_marked_rm[id] /\ id \notin gone
    BY <1>0
  <2>2. shared_frames[id] # NoFrame /\ shared_refs[id] > 0
    BY <2>1 DEF MemSafe, MarkedPagesAreUsed
  <2>3. refs[id] > 0
    <3>1. CASE id \in ids
      <4>1. refs[id] # 0 /\ refs[id] \in Nat
        BY <2>1, <3>1 DEF gone
      <4> QED BY <4>1
    <3>2. CASE id \notin ids
      BY <2>2, <3>2
    <3> QED BY <3>1, <3>2
  <2> QED BY <2>1, <2>2, <2>3, <1>0
<1> QED BY <1>1, <1>5, <1>6, <1>7, <1>8, <1>9 DEF MemSafe

\* sys_exit: what p maps is counted down, what p owns is nobody else's.
LEMMA ExitSafe ==
  ASSUME MemSafe, NEW p \in DOMAIN proc, Exit(p)
  PROVE  MemSafe'
<1> DEFINE ids == {id \in ShmId : SlotsOf(p, id) # {}}
           refs == [id \in ShmId |-> shared_refs[id] - Cardinality(SlotsOf(p, id))]
<1>1. Release(ids, refs, Own(p)) /\ proc' = [q \in DOMAIN proc \ {p} |-> proc[q]]
  BY DEF Exit
<1>2. ProcTyped'
  BY <1>1 DEF MemSafe, MemTyped, ProcTyped
<1>3. \A q \in DOMAIN proc' : q \in DOMAIN proc /\ proc'[q] = proc[q] /\ q # p
  BY <1>1
<1>4. \A q \in DOMAIN proc' : Own(q)' = Own(q) /\ Own(q) \cap Own(p) = {}
  BY <1>3 DEF Own, MemSafe, OwnersApart
<1>5. \A id \in ShmId : shared_frames[id] \notin Own(p)
  <2>1. NoFrame \notin Own(p)
    BY MemoryAssumption DEF NoFrame, Frame, MemSafe, MemTyped, OwnersApart
  <2> QED BY <2>1 DEF MemSafe, SharedApart
<1>6. ASSUME NEW id \in ShmId
      PROVE  /\ Cardinality(SlotsOf(p, id)) \in Nat
             /\ shared_refs[id] - Cardinality(SlotsOf(p, id)) = Cardinality(Maps(proc', shared_frames, id))
  <2> DEFINE before == Maps(proc, shared_frames, id)
             after == Maps(proc', shared_frames, id)
             row == {p} \X SlotsOf(p, id)
  <2>1. SlotsOf(p, id) \in SUBSET Slot
    BY DEF SlotsOf
  <2>2. before = after \cup row /\ after \cap row = {}
    BY <1>1 DEF Maps, SlotsOf
  <2>3. IsFiniteSet(after) /\ Cardinality(after) \in Nat
    BY <1>2, MapsFinite DEF ProcTyped
  <2> HIDE DEF before, after, row
  <2>4. IsFiniteSet(row) /\ Cardinality(row) = Cardinality(SlotsOf(p, id))
        /\ Cardinality(SlotsOf(p, id)) \in Nat
    BY <2>1, RowCounts DEF row
  <2>5. Cardinality(before) = Cardinality(after) + Cardinality(row)
    BY <2>2, <2>3, <2>4, FS_Union, FS_EmptySet
  <2>6. shared_refs[id] = Cardinality(before)
    BY MappingsAre DEF before, MemSafe, RefsCountMappings
  <2> QED BY <2>3, <2>4, <2>5, <2>6 DEF after
<1>7. refs \in [ShmId -> Nat] /\ \A id \in ShmId : refs[id] = Cardinality(Maps(proc', shared_frames, id))
  <2>1. \A id \in ShmId : Cardinality(Maps(proc', shared_frames, id)) \in Nat
    BY <1>2, MapsFinite DEF ProcTyped
  <2> QED BY <2>1, <1>6
<1>8. \A id \in ShmId \ ids : refs[id] = shared_refs[id]
  BY FS_EmptySet DEF MemSafe, MemTyped, SharedTyped
<1>9. ids \in SUBSET ShmId /\ Own(p) \in SUBSET phys_mem
  BY DEF MemSafe, OwnersApart
<1> HIDE DEF ids, refs
<1>10. \A q \in DOMAIN proc' : \A s \in Slot : proc'[q].shm[s] \in {proc[q].shm[s], NoFrame}
  BY <1>3
<1>11. \A q \in DOMAIN proc' : q \in DOMAIN proc
  BY <1>3
<1> QED BY <1>1, <1>2, <1>4, <1>5, <1>7, <1>8, <1>9, <1>10, <1>11, ReleaseSafe

\* Two shared pages have two frames, so the first id with the frame is the one.
LEMMA OneIdPerSlot ==
  ASSUME MemSafe, NEW p \in DOMAIN proc, NEW s \in Slot, NEW id \in ShmId, s \in SlotsOf(p, id)
  PROVE  Min({i \in ShmId : s \in SlotsOf(p, i)}) = id
<1>1. {i \in ShmId : s \in SlotsOf(p, i)} = {id}
  BY DEF SlotsOf, MemSafe, SharedApart
<1>2. id <= id
  BY MemoryAssumption DEF ShmId
<1> QED BY <1>1, <1>2 DEF Min

\* sys_shmdt.
LEMMA ShmdtSafe ==
  ASSUME MemSafe, NEW p \in DOMAIN proc, NEW s \in Slot, Shmdt(p, s)
  PROVE  MemSafe'
<1>1. PICK id \in ShmId : s \in SlotsOf(p, id)
  BY DEF Shmdt
<1> DEFINE refs == [shared_refs EXCEPT ![id] = @ - 1]
<1>2. proc' = [proc EXCEPT ![p].shm[s] = NoFrame] /\ Release({id}, refs, {})
  <2>1. Min({i \in ShmId : s \in SlotsOf(p, i)}) = id
    BY <1>1, OneIdPerSlot
  <2> QED BY <2>1 DEF Shmdt
<1>3. proc[p] \in ProcRecord /\ proc \in [DOMAIN proc -> ProcRecord]
  BY DEF MemSafe, MemTyped, ProcTyped
<1>4. /\ DOMAIN proc' = DOMAIN proc
      /\ \A q \in DOMAIN proc \ {p} : proc'[q] = proc[q]
      /\ proc'[p] = [proc[p] EXCEPT !.shm = [proc[p].shm EXCEPT ![s] = NoFrame]]
  BY <1>2, <1>3
<1>5. /\ proc'[p] \in ProcRecord
      /\ \A t \in Slot : proc'[p].shm[t] = IF t = s THEN NoFrame ELSE proc[p].shm[t]
      /\ proc'[p].dir = proc[p].dir /\ proc'[p].ut = proc[p].ut /\ proc'[p].data = proc[p].data
  BY <1>3, <1>4 DEF ProcRecord
<1>6. ProcTyped'
  BY <1>2, <1>3, <1>4, <1>5 DEF MemSafe, MemTyped, ProcTyped
<1>7. \A q \in DOMAIN proc' : q \in DOMAIN proc /\ Own(q)' = Own(q)
  BY <1>4, <1>5 DEF Own
<1>8. \A q \in DOMAIN proc' : \A t \in Slot : proc'[q].shm[t] \in {proc[q].shm[t], NoFrame}
  BY <1>4, <1>5
<1>9. \A j \in ShmId : Maps(proc', shared_frames, j) =
        IF j = id THEN Maps(proc, shared_frames, j) \ {<<p, s>>} ELSE Maps(proc, shared_frames, j)
  <2> SUFFICES ASSUME NEW j \in ShmId
               PROVE  Maps(proc', shared_frames, j) =
                        IF j = id THEN Maps(proc, shared_frames, j) \ {<<p, s>>}
                                  ELSE Maps(proc, shared_frames, j)
    OBVIOUS
  <2>1. <<p, s>> \in Maps(proc, shared_frames, j) <=> j = id
    BY <1>1 DEF Maps, SlotsOf, MemSafe, SharedApart
  <2>2. Maps(proc', shared_frames, j) = Maps(proc, shared_frames, j) \ {<<p, s>>}
    <3>1. ASSUME NEW q \in DOMAIN proc, NEW t \in Slot
          PROVE  <<q, t>> \in Maps(proc', shared_frames, j)
                   <=> <<q, t>> \in Maps(proc, shared_frames, j) /\ <<q, t>> # <<p, s>>
      BY <1>4, <1>5 DEF Maps
    <3> QED BY <3>1, <1>4 DEF Maps
  <2> QED BY <2>1, <2>2
<1>10. <<p, s>> \in Maps(proc, shared_frames, id)
  BY <1>1 DEF Maps, SlotsOf
<1>11. \A j \in ShmId : /\ IsFiniteSet(Maps(proc, shared_frames, j))
                        /\ Cardinality(Maps(proc, shared_frames, j)) \in Nat
                        /\ shared_refs[j] = Cardinality(Maps(proc, shared_frames, j))
  BY MapsFinite, MappingsAre DEF MemSafe, MemTyped, ProcTyped, RefsCountMappings
<1>12. \A j \in ShmId : refs[j] = Cardinality(Maps(proc', shared_frames, j))
  <2>1. Cardinality(Maps(proc, shared_frames, id) \ {<<p, s>>})
          = Cardinality(Maps(proc, shared_frames, id)) - 1
    BY <1>10, <1>11, FS_RemoveElement
  <2>2. \A j \in ShmId : refs[j] = IF j = id THEN shared_refs[j] - 1 ELSE shared_refs[j]
    BY DEF MemSafe, MemTyped, SharedTyped
  <2> QED BY <2>1, <2>2, <1>9, <1>11
<1>13. refs \in [ShmId -> Nat]
  <2>1. refs \in [ShmId -> Int]
    BY DEF MemSafe, MemTyped, SharedTyped
  <2>2. \A j \in ShmId : Cardinality(Maps(proc', shared_frames, j)) \in Nat
    BY <1>6, MapsFinite DEF ProcTyped
  <2> QED BY <2>1, <2>2, <1>12
<1>14. \A j \in ShmId \ {id} : refs[j] = shared_refs[j]
  BY DEF MemSafe, MemTyped, SharedTyped
<1> HIDE DEF refs
<1>15. {} \in SUBSET phys_mem /\ {id} \in SUBSET ShmId
  OBVIOUS
<1>16. /\ \A q \in DOMAIN proc' : q \in DOMAIN proc /\ Own(q)' = Own(q) /\ Own(q) \cap {} = {}
       /\ \A j \in ShmId : shared_frames[j] \notin {}
  BY <1>7
<1> QED BY <1>2, <1>6, <1>8, <1>12, <1>13, <1>14, <1>15, <1>16, ReleaseSafe, Zenon

-----------------------------------------------------------------------------
(* sys_shmat and sys_shmrm.                                                *)

\* The frame that id gets in sys_shmat, if it has none, is nobody's.
LEMMA GiveFrameSafe ==
  ASSUME MemSafe, NEW id \in ShmId, Attachable(id), GiveFrame(id)
  PROVE  /\ FrameFor(id) \in Frame
         /\ phys_mem \subseteq phys_mem' /\ phys_mem' \subseteq Frame
         /\ shared_frames' \in [ShmId -> Frame \cup {NoFrame}]
         /\ shared_frames'[id] = FrameFor(id)
         /\ \A j \in ShmId : shared_frames[j] # NoFrame => shared_frames'[j] = shared_frames[j]
         /\ \A j \in ShmId \ {id} : shared_frames'[j] = shared_frames[j]
         /\ \A j \in ShmId : shared_frames'[j] # NoFrame =>
              /\ shared_frames'[j] \in phys_mem'
              /\ \A p \in DOMAIN proc : shared_frames'[j] \notin Own(p)
              /\ \A k \in ShmId : shared_frames'[k] = shared_frames'[j] => k = j
         /\ \A j \in ShmId : Maps(proc, shared_frames', j) = Maps(proc, shared_frames, j)
<1> DEFINE f == FrameFor(id)
<1>1. NoFrame \notin Frame
  BY MemoryAssumption DEF NoFrame, Frame
<1>2. /\ shared_frames \in [ShmId -> Frame \cup {NoFrame}]
      /\ phys_mem \subseteq Frame /\ DOMAIN proc \subseteq Frame
  BY DEF MemSafe, MemTyped, SharedTyped, ProcTyped
<1>3. f \in Frame /\ (shared_frames[id] = NoFrame => f \notin phys_mem)
      /\ (shared_frames[id] # NoFrame => f = shared_frames[id] /\ f \in phys_mem)
  <2>1. CASE shared_frames[id] = NoFrame
    <3>1. Free # {} /\ f = Alloc(1)
      BY <2>1 DEF Attachable, FrameFor
    <3>2. 1 \in 1..Cardinality(Free)
      BY <3>1, FreeFinite, FS_EmptySet
    <3>3. f \in Free
      BY <3>1, <3>2, AllocFree
    <3> QED BY <3>3, <2>1 DEF Free
  <2>2. CASE shared_frames[id] # NoFrame
    BY <2>2, <1>2 DEF FrameFor, MemSafe, SharedApart
  <2> QED BY <2>1, <2>2
<1>4. shared_frames' = [shared_frames EXCEPT ![id] = f] /\ phys_mem' = phys_mem \cup {f}
  BY DEF GiveFrame
<1> HIDE DEF f
<1>5. \A j \in ShmId : shared_frames'[j] = IF j = id THEN f ELSE shared_frames[j]
  BY <1>4, <1>2
<1>6. \A j \in ShmId \ {id} : shared_frames[j] # f
  BY <1>1, <1>2, <1>3 DEF MemSafe, SharedApart
<1>7. \A p \in DOMAIN proc : f \notin Own(p)
  BY <1>3 DEF MemSafe, OwnersApart, SharedApart
<1>8. \A j \in ShmId : shared_frames'[j] # NoFrame =>
        /\ shared_frames'[j] \in phys_mem'
        /\ \A p \in DOMAIN proc : shared_frames'[j] \notin Own(p)
        /\ \A k \in ShmId : shared_frames'[k] = shared_frames'[j] => k = j
  <2>1. ASSUME NEW j \in ShmId \ {id}, shared_frames[j] # NoFrame
        PROVE  /\ shared_frames[j] \in phys_mem
               /\ \A p \in DOMAIN proc : shared_frames[j] \notin Own(p)
               /\ \A k \in ShmId : shared_frames[k] = shared_frames[j] => k = j
    BY <2>1 DEF MemSafe, SharedApart
  <2> QED BY <2>1, <1>4, <1>5, <1>6, <1>7
<1>9. ASSUME NEW j \in ShmId
      PROVE  Maps(proc, shared_frames', j) = Maps(proc, shared_frames, j)
  <2>1. CASE shared_frames'[j] = shared_frames[j]
    BY <2>1 DEF Maps
  <2>2. CASE shared_frames'[j] # shared_frames[j]
    <3>1. j = id /\ shared_frames[j] = NoFrame /\ shared_frames'[j] = f /\ f \notin phys_mem
      BY <2>2, <1>3, <1>5
    <3>2. \A p \in DOMAIN proc, s \in Slot : proc[p].shm[s] # NoFrame => proc[p].shm[s] \in phys_mem
      BY DEF MemSafe, NoDanglingMapping, SlotsOf, SharedApart
    <3> QED BY <3>1, <3>2 DEF Maps
  <2> QED BY <2>1, <2>2
<1> QED BY <1>2, <1>3, <1>4, <1>5, <1>8, <1>9 DEF f

\* sys_shmat that maps nothing.
LEMMA ShmatMapsNothingSafe ==
  ASSUME MemSafe, NEW p \in DOMAIN proc, NEW id \in ShmId, ShmatMapsNothing(p, id)
  PROVE  MemSafe'
<1>1. /\ Attachable(id) /\ GiveFrame(id)
      /\ proc' = proc /\ shared_refs' = shared_refs
      /\ shared_marked_rm' = shared_marked_rm /\ temp_present' = temp_present
  BY DEF ShmatMapsNothing
<1>2. /\ phys_mem \subseteq phys_mem' /\ phys_mem' \subseteq Frame
      /\ shared_frames' \in [ShmId -> Frame \cup {NoFrame}]
      /\ \A j \in ShmId : shared_frames[j] # NoFrame => shared_frames'[j] = shared_frames[j]
      /\ \A j \in ShmId : shared_frames'[j] # NoFrame =>
           /\ shared_frames'[j] \in phys_mem'
           /\ \A q \in DOMAIN proc : shared_frames'[j] \notin Own(q)
           /\ \A k \in ShmId : shared_frames'[k] = shared_frames'[j] => k = j
      /\ \A j \in ShmId : Maps(proc, shared_frames', j) = Maps(proc, shared_frames, j)
  BY <1>1, GiveFrameSafe
<1>3. MemTyped'
  BY <1>1, <1>2 DEF MemSafe, MemTyped, ProcTyped, SharedTyped
<1>4. RefsCountMappings'
  BY <1>1, <1>2, MappingsAre DEF MemSafe, RefsCountMappings
<1>5. NoDanglingMapping'
  BY <1>1, <1>2 DEF MemSafe, NoDanglingMapping, SlotsOf
<1>6. OwnersApart'
  BY <1>1, <1>2 DEF MemSafe, OwnersApart, Own
<1>7. SharedApart'
  BY <1>1, <1>2 DEF SharedApart, Own
<1>8. MarkedPagesAreUsed'
  BY <1>1, <1>2 DEF MemSafe, MarkedPagesAreUsed
<1> QED BY <1>3, <1>4, <1>5, <1>6, <1>7, <1>8 DEF MemSafe

\* sys_shmat that maps: one mapping more, and one reference.
LEMMA ShmatMapsSafe ==
  ASSUME MemSafe, NEW p \in DOMAIN proc, NEW id \in ShmId, NEW s \in Slot, ShmatMaps(p, id, s)
  PROVE  MemSafe'
<1> DEFINE f == FrameFor(id)
<1>1. /\ Attachable(id) /\ GiveFrame(id)
      /\ proc[p].shm[s] = NoFrame
      /\ proc' = [proc EXCEPT ![p].shm[s] = f]
      /\ shared_refs' = [shared_refs EXCEPT ![id] = @ + 1]
      /\ shared_marked_rm' = shared_marked_rm /\ temp_present' = temp_present
  BY DEF ShmatMaps
<1>2. /\ f \in Frame
      /\ phys_mem \subseteq phys_mem' /\ phys_mem' \subseteq Frame
      /\ shared_frames' \in [ShmId -> Frame \cup {NoFrame}]
      /\ shared_frames'[id] = f
      /\ \A j \in ShmId : shared_frames[j] # NoFrame => shared_frames'[j] = shared_frames[j]
      /\ \A j \in ShmId : shared_frames'[j] # NoFrame =>
           /\ shared_frames'[j] \in phys_mem'
           /\ \A q \in DOMAIN proc : shared_frames'[j] \notin Own(q)
           /\ \A k \in ShmId : shared_frames'[k] = shared_frames'[j] => k = j
      /\ \A j \in ShmId : Maps(proc, shared_frames', j) = Maps(proc, shared_frames, j)
  BY <1>1, GiveFrameSafe
<1>3. proc[p] \in ProcRecord /\ proc \in [DOMAIN proc -> ProcRecord] /\ NoFrame \notin Frame
  BY MemoryAssumption DEF MemSafe, MemTyped, ProcTyped, NoFrame, Frame
<1> HIDE DEF f
<1>4. /\ DOMAIN proc' = DOMAIN proc
      /\ \A q \in DOMAIN proc \ {p} : proc'[q] = proc[q]
      /\ proc'[p] = [proc[p] EXCEPT !.shm = [proc[p].shm EXCEPT ![s] = f]]
  BY <1>1, <1>3
<1>5. /\ proc'[p] \in ProcRecord
      /\ \A t \in Slot : proc'[p].shm[t] = IF t = s THEN f ELSE proc[p].shm[t]
      /\ proc'[p].dir = proc[p].dir /\ proc'[p].ut = proc[p].ut /\ proc'[p].data = proc[p].data
  BY <1>2, <1>3, <1>4 DEF ProcRecord
<1>6. ProcTyped'
  BY <1>1, <1>3, <1>4, <1>5 DEF MemSafe, MemTyped, ProcTyped
<1>7. MemTyped'
  <2>1. shared_refs' \in [ShmId -> Nat]
    BY <1>1 DEF MemSafe, MemTyped, SharedTyped
  <2>2. shared_marked_rm' \in [ShmId -> BOOLEAN] /\ temp_present' \in BOOLEAN
    BY <1>1 DEF MemSafe, MemTyped, SharedTyped
  <2> QED BY <2>1, <2>2, <1>2, <1>6 DEF MemTyped, SharedTyped
<1>8. \A q \in DOMAIN proc' : q \in DOMAIN proc /\ Own(q)' = Own(q)
  BY <1>4, <1>5 DEF Own
<1>9. \A j \in ShmId : Maps(proc', shared_frames', j) =
        IF j = id THEN Maps(proc, shared_frames, j) \cup {<<p, s>>} ELSE Maps(proc, shared_frames, j)
  <2> SUFFICES ASSUME NEW j \in ShmId
               PROVE  Maps(proc', shared_frames', j) =
                        IF j = id THEN Maps(proc, shared_frames', j) \cup {<<p, s>>}
                                  ELSE Maps(proc, shared_frames', j)
    BY <1>2
  <2>1. ASSUME NEW q \in DOMAIN proc, NEW t \in Slot
        PROVE  <<q, t>> \in Maps(proc', shared_frames', j)
                 <=> \/ <<q, t>> \in Maps(proc, shared_frames', j)
                     \/ <<q, t>> = <<p, s>> /\ j = id
    <3>1. CASE <<q, t>> = <<p, s>>
      <4>1. proc'[q].shm[t] = f /\ f # NoFrame
        BY <1>2, <1>3, <1>5, <3>1
      <4>2. f = shared_frames'[j] <=> j = id
        BY <1>2, <1>3
      <4>3. <<q, t>> \notin Maps(proc, shared_frames', j)
        BY <1>1, <3>1 DEF Maps
      <4> QED BY <4>1, <4>2, <4>3, <1>4, <3>1 DEF Maps
    <3>2. CASE <<q, t>> # <<p, s>>
      BY <1>4, <1>5, <3>2 DEF Maps
    <3> QED BY <3>1, <3>2
  <2> QED BY <2>1, <1>4 DEF Maps
<1>10. <<p, s>> \notin Maps(proc, shared_frames, id)
  BY <1>1 DEF Maps
<1>11. RefsCountMappings'
  <2>1. \A j \in ShmId : /\ IsFiniteSet(Maps(proc, shared_frames, j))
                         /\ shared_refs[j] = Cardinality(Maps(proc, shared_frames, j))
    BY MapsFinite, MappingsAre DEF MemSafe, MemTyped, ProcTyped, RefsCountMappings
  <2>2. Cardinality(Maps(proc, shared_frames, id) \cup {<<p, s>>})
          = Cardinality(Maps(proc, shared_frames, id)) + 1
    BY <1>10, <2>1, FS_AddElement
  <2>3. \A j \in ShmId : shared_refs'[j] = IF j = id THEN shared_refs[j] + 1 ELSE shared_refs[j]
    BY <1>1 DEF MemSafe, MemTyped, SharedTyped
  <2>4. \A j \in ShmId : shared_refs'[j] = Cardinality(Maps(proc', shared_frames', j))
    BY <1>9, <2>1, <2>2, <2>3
  <2> QED BY <2>4, MappingsAre DEF RefsCountMappings
<1>12. NoDanglingMapping'
  <2> SUFFICES ASSUME NEW q \in DOMAIN proc', NEW t \in Slot, proc'[q].shm[t] # NoFrame
               PROVE  \E j \in ShmId : proc'[q].shm[t] = shared_frames'[j]
    BY DEF NoDanglingMapping, SlotsOf
  <2>1. CASE <<q, t>> = <<p, s>>
    BY <2>1, <1>2, <1>5
  <2>2. CASE <<q, t>> # <<p, s>>
    <3>1. proc'[q].shm[t] = proc[q].shm[t] /\ q \in DOMAIN proc
      BY <2>2, <1>4, <1>5
    <3> QED BY <3>1, <1>2 DEF MemSafe, NoDanglingMapping, SlotsOf
  <2> QED BY <2>1, <2>2
<1>13. OwnersApart'
  <2>1. \A q \in DOMAIN proc' : Own(q)' \subseteq phys_mem' /\ Cardinality(Own(q)') = 3 + NUM_PAG_DATA
    BY <1>2, <1>8 DEF MemSafe, OwnersApart
  <2>2. \A q, r \in DOMAIN proc' : q # r => Own(q)' \cap Own(r)' = {}
    BY <1>8 DEF MemSafe, OwnersApart
  <2> QED BY <2>1, <2>2 DEF OwnersApart
<1>14. SharedApart'
  BY <1>2, <1>8 DEF SharedApart
<1>15. MarkedPagesAreUsed'
  <2>1. \A j \in ShmId : shared_marked_rm[j] => j # id
    BY <1>1 DEF Attachable
  <2> QED BY <2>1, <1>1, <1>2 DEF MemSafe, MemTyped, SharedTyped, MarkedPagesAreUsed
<1> QED BY <1>7, <1>11, <1>12, <1>13, <1>14, <1>15 DEF MemSafe

\* sys_shmrm: what is destroyed at once is mapped by nobody.
LEMMA ShmrmSafe ==
  ASSUME MemSafe, NEW id \in ShmId, Shmrm(id)
  PROVE  MemSafe'
<1>1. CASE /\ shared_frames[id] # NoFrame
           /\ shared_refs[id] = 0
           /\ phys_mem' = phys_mem \ {shared_frames[id]}
           /\ shared_frames' = [shared_frames EXCEPT ![id] = NoFrame]
           /\ temp_present' = FALSE
           /\ UNCHANGED <<proc, shared_refs, shared_marked_rm>>
  <2>1. \A j \in ShmId : shared_frames'[j] = IF j = id THEN NoFrame ELSE shared_frames[j]
    BY <1>1 DEF MemSafe, MemTyped, SharedTyped
  <2>2. Maps(proc, shared_frames, id) = {}
    <3>1. IsFiniteSet(Maps(proc, shared_frames, id)) /\ Cardinality(Maps(proc, shared_frames, id)) = 0
      BY <1>1, MapsFinite, MappingsAre DEF MemSafe, MemTyped, ProcTyped, RefsCountMappings
    <3> QED BY <3>1, FS_EmptySet
  <2>3. \A j \in ShmId : Maps(proc, shared_frames', j) = Maps(proc, shared_frames, j)
    <3>1. Maps(proc, shared_frames', id) = {}
      BY <2>1 DEF Maps
    <3>2. \A j \in ShmId \ {id} : Maps(proc, shared_frames', j) = Maps(proc, shared_frames, j)
      BY <2>1 DEF Maps
    <3> QED BY <2>2, <3>1, <3>2
  <2>4. MemTyped'
    BY <1>1 DEF MemSafe, MemTyped, ProcTyped, SharedTyped
  <2>5. RefsCountMappings'
    BY <1>1, <2>3, MappingsAre DEF MemSafe, RefsCountMappings
  <2>6. NoDanglingMapping'
    <3>1. ASSUME NEW q \in DOMAIN proc, NEW t \in Slot, proc[q].shm[t] # NoFrame
          PROVE  proc[q].shm[t] # shared_frames[id]
      <4>1. <<q, t>> \notin Maps(proc, shared_frames, id)
        BY <2>2
      <4> QED BY <3>1, <4>1 DEF Maps
    <3> QED BY <1>1, <2>1, <3>1 DEF MemSafe, NoDanglingMapping, SlotsOf
  <2>7. OwnersApart'
    <3>1. \A q \in DOMAIN proc : shared_frames[id] \notin Own(q)
      BY <1>1 DEF MemSafe, SharedApart
    <3> QED BY <1>1, <3>1 DEF MemSafe, OwnersApart, Own
  <2>8. SharedApart'
    BY <1>1, <2>1 DEF MemSafe, SharedApart, Own
  <2>9. MarkedPagesAreUsed'
    BY <1>1, <2>1 DEF MemSafe, MarkedPagesAreUsed
  <2> QED BY <2>4, <2>5, <2>6, <2>7, <2>8, <2>9 DEF MemSafe
<1>2. CASE /\ shared_frames[id] # NoFrame
           /\ shared_refs[id] # 0
           /\ shared_marked_rm' = [shared_marked_rm EXCEPT ![id] = TRUE]
           /\ UNCHANGED <<phys_mem, proc, shared_frames, shared_refs, temp_present>>
  <2>1. MemTyped'
    BY <1>2 DEF MemSafe, MemTyped, ProcTyped, SharedTyped
  <2>2. RefsCountMappings'
    BY <1>2, MappingsAre DEF MemSafe, RefsCountMappings
  <2>5. NoDanglingMapping'
    BY <1>2 DEF MemSafe, NoDanglingMapping, SlotsOf
  <2>3. OwnersApart' /\ SharedApart'
    BY <1>2 DEF MemSafe, OwnersApart, SharedApart, Own
  <2>4. MarkedPagesAreUsed'
    <3>1. shared_refs[id] > 0
      BY <1>2 DEF MemSafe, MemTyped, SharedTyped
    <3> QED BY <1>2, <3>1 DEF MemSafe, MemTyped, SharedTyped, MarkedPagesAreUsed
  <2> QED BY <2>1, <2>2, <2>3, <2>4, <2>5 DEF MemSafe
<1> QED BY <1>1, <1>2 DEF Shmrm

-----------------------------------------------------------------------------
(* sys_fork.                                                               *)

\* What is lost was free.
LEMMA ForkFailsSafe ==
  ASSUME MemSafe, NEW p \in DOMAIN proc, ForkFails(p)
  PROVE  MemSafe'
<1>1. /\ phys_mem' = phys_mem \cup (IF Cardinality(Free) > 1 THEN {Alloc(2)} ELSE {})
      /\ UNCHANGED <<proc, shared_frames, shared_refs, shared_marked_rm>>
      /\ temp_present' \in BOOLEAN
  BY DEF ForkFails, shmVars, MemSafe, MemTyped
<1>2. phys_mem \subseteq phys_mem' /\ phys_mem' \subseteq Frame
  <2>1. CASE Cardinality(Free) > 1
    <3>1. 2 \in 1..Cardinality(Free)
      BY <2>1, FreeFinite
    <3> QED BY <3>1, <2>1, <1>1, AllocFree DEF Free, MemSafe, MemTyped
  <2>2. CASE ~ (Cardinality(Free) > 1)
    BY <2>2, <1>1 DEF MemSafe, MemTyped
  <2> QED BY <2>1, <2>2
<1>3. MemTyped'
  BY <1>1, <1>2 DEF MemSafe, MemTyped, ProcTyped, SharedTyped
<1>4. RefsCountMappings'
  BY <1>1, MappingsAre DEF MemSafe, RefsCountMappings
<1>5. NoDanglingMapping'
  BY <1>1 DEF MemSafe, NoDanglingMapping, SlotsOf
<1>6. OwnersApart' /\ SharedApart'
  BY <1>1, <1>2 DEF MemSafe, OwnersApart, SharedApart, Own
<1>7. MarkedPagesAreUsed'
  BY <1>1 DEF MemSafe, MarkedPagesAreUsed
<1> QED BY <1>3, <1>4, <1>5, <1>6, <1>7 DEF MemSafe

\* The child's frames were free and are as many as exit gives back; it maps
\* what its parent maps, and that is counted.
LEMMA ForkSafe ==
  ASSUME MemSafe, NEW p \in DOMAIN proc, Fork(p)
  PROVE  MemSafe'
<1>0. PICK child : child = Alloc(1)
  OBVIOUS
<1> DEFINE dir == Alloc(2)
           ut == Alloc(3)
           data == {Alloc(k) : k \in 4..3 + NUM_PAG_DATA}
           record == [dir |-> dir, ut |-> ut, data |-> data, shm |-> proc[p].shm]
<1>1. /\ Cardinality(Free) >= 3 + NUM_PAG_DATA
      /\ proc' = [q \in DOMAIN proc \cup {child} |-> IF q = child THEN record ELSE proc[q]]
      /\ phys_mem' = phys_mem \cup {child, dir, ut} \cup data
      /\ shared_refs' = [id \in ShmId |-> shared_refs[id] + Inherited(p, id)]
      /\ temp_present' = FALSE
      /\ shared_frames' = shared_frames /\ shared_marked_rm' = shared_marked_rm
  BY <1>0 DEF Fork
<1>2. NUM_PAG_DATA \in Nat \ {0} /\ Cardinality(Free) \in Nat
  BY MemoryAssumption, FreeFinite
<1>3. 1 \in 1..Cardinality(Free) /\ 2 \in 1..Cardinality(Free) /\ 3 \in 1..Cardinality(Free)
  BY <1>1, <1>2
<1>4. child \in Free /\ dir \in Free /\ ut \in Free /\ child # dir /\ child # ut /\ dir # ut
  BY <1>0, <1>3, AllocFree, AllocDistinct
<1>5. /\ data \subseteq Free /\ IsFiniteSet(data) /\ Cardinality(data) = NUM_PAG_DATA
      /\ child \notin data /\ dir \notin data /\ ut \notin data
  <2>1. 4 \in Nat \ {0} /\ 3 + NUM_PAG_DATA \in Nat /\ 4 <= 3 + NUM_PAG_DATA
    BY <1>2
  <2>2. /\ data \subseteq Free
        /\ IsFiniteSet(data) /\ Cardinality(data) = (3 + NUM_PAG_DATA) - 4 + 1
        /\ \A j \in 1..4 - 1 : Alloc(j) \notin data
    BY <2>1, <1>1, AllocMany
  <2>3. (3 + NUM_PAG_DATA) - 4 + 1 = NUM_PAG_DATA /\ 1 \in 1..4 - 1 /\ 2 \in 1..4 - 1 /\ 3 \in 1..4 - 1
    BY <1>2
  <2> QED BY <1>0, <2>2, <2>3
<1> HIDE DEF dir, ut, data
<1>6. Free \subseteq Frame /\ Free \cap phys_mem = {} /\ phys_mem \subseteq Frame
  BY DEF Free, MemSafe, MemTyped
<1>7. DOMAIN proc \subseteq phys_mem /\ child \notin DOMAIN proc
  BY <1>4, <1>6 DEF MemSafe, OwnersApart, Own
<1>8. proc[p] \in ProcRecord /\ proc \in [DOMAIN proc -> ProcRecord] /\ DOMAIN proc \subseteq Frame
  BY DEF MemSafe, MemTyped, ProcTyped
<1>9. record \in ProcRecord
  BY <1>4, <1>5, <1>6, <1>8 DEF ProcRecord
<1>10. /\ DOMAIN proc' = DOMAIN proc \cup {child}
       /\ \A q \in DOMAIN proc : proc'[q] = proc[q]
       /\ proc'[child] = record
  BY <1>1, <1>7
<1>11. ProcTyped'
  BY <1>1, <1>4, <1>6, <1>8, <1>9, <1>10 DEF ProcTyped
<1>12. \A id \in ShmId : /\ SlotsOf(p, id) \in SUBSET Slot
                         /\ Inherited(p, id) = Cardinality(SlotsOf(p, id)) /\ Inherited(p, id) \in Nat
  <2>1. \A id \in ShmId : SlotsOf(p, id) \in SUBSET Slot
    BY DEF SlotsOf
  <2> QED BY <2>1, RowCounts DEF Inherited
<1>13. MemTyped'
  <2>1. shared_refs' \in [ShmId -> Nat]
    BY <1>1, <1>12 DEF MemSafe, MemTyped, SharedTyped
  <2>2. phys_mem' \subseteq Frame
    BY <1>1, <1>4, <1>5, <1>6
  <2> QED BY <2>1, <2>2, <1>1, <1>11 DEF MemSafe, MemTyped, SharedTyped
<1>14. RefsCountMappings'
  <2> SUFFICES ASSUME NEW id \in ShmId PROVE shared_refs'[id] = Cardinality(Maps(proc', shared_frames, id))
    BY <1>1, MappingsAre DEF RefsCountMappings
  <2> DEFINE before == Maps(proc, shared_frames, id)
             after == Maps(proc', shared_frames, id)
             row == {child} \X SlotsOf(p, id)
  <2>1. after = before \cup row
    BY <1>10, <1>7 DEF Maps, SlotsOf
  <2>2. before \cap row = {}
    BY <1>7 DEF Maps
  <2>3. IsFiniteSet(before) /\ Cardinality(before) \in Nat
    BY <1>8, MapsFinite
  <2>4. IsFiniteSet(row) /\ Cardinality(row) = Cardinality(SlotsOf(p, id)) /\ Cardinality(row) \in Nat
    BY <1>12, RowCounts
  <2>5. shared_refs[id] = Cardinality(before)
    BY MappingsAre DEF MemSafe, RefsCountMappings
  <2>6. shared_refs'[id] = shared_refs[id] + Cardinality(SlotsOf(p, id))
    BY <1>1, <1>12
  <2> HIDE DEF before, after, row
  <2>7. Cardinality(after) = Cardinality(before) + Cardinality(row)
    BY <2>1, <2>2, <2>3, <2>4, FS_Union, FS_EmptySet
  <2> QED BY <2>4, <2>5, <2>6, <2>7 DEF after
<1>15. NoDanglingMapping'
  <2> SUFFICES ASSUME NEW q \in DOMAIN proc', NEW s \in Slot, proc'[q].shm[s] # NoFrame
               PROVE  \E id \in ShmId : proc'[q].shm[s] = shared_frames'[id]
    BY DEF NoDanglingMapping, SlotsOf
  <2>1. \E r \in DOMAIN proc : proc'[q].shm = proc[r].shm
    BY <1>10
  <2>2. shared_frames' = shared_frames
    BY <1>1
  <2> QED BY <2>1, <2>2 DEF MemSafe, NoDanglingMapping, SlotsOf
<1>16. \A q \in DOMAIN proc : Own(q)' = Own(q) /\ Own(q) \subseteq phys_mem
  BY <1>10 DEF Own, MemSafe, OwnersApart
<1>17. Own(child)' = {child, dir, ut} \cup data /\ Own(child)' \subseteq Free
  BY <1>4, <1>5, <1>10 DEF Own
<1>18. OwnersApart'
  <2>1. Cardinality({child, dir, ut} \cup data) = 3 + NUM_PAG_DATA
    <3>1. {child, dir, ut} \cup data = ((data \cup {ut}) \cup {dir}) \cup {child}
      OBVIOUS
    <3>2. IsFiniteSet(data \cup {ut}) /\ Cardinality(data \cup {ut}) = NUM_PAG_DATA + 1
      BY <1>5, FS_AddElement
    <3>3. dir \notin data \cup {ut} /\ child \notin (data \cup {ut}) \cup {dir}
      BY <1>4, <1>5
    <3>4. /\ IsFiniteSet((data \cup {ut}) \cup {dir})
          /\ Cardinality((data \cup {ut}) \cup {dir}) = (NUM_PAG_DATA + 1) + 1
      BY <3>2, <3>3, FS_AddElement
    <3>5. Cardinality(((data \cup {ut}) \cup {dir}) \cup {child}) = ((NUM_PAG_DATA + 1) + 1) + 1
      BY <3>3, <3>4, FS_AddElement
    <3>6. ((NUM_PAG_DATA + 1) + 1) + 1 = 3 + NUM_PAG_DATA
      BY <1>2
    <3> QED BY <3>1, <3>5, <3>6, Zenon
  <2>2. \A q \in DOMAIN proc' : Own(q)' \subseteq phys_mem' /\ Cardinality(Own(q)') = 3 + NUM_PAG_DATA
    <3>1. \A q \in DOMAIN proc : Cardinality(Own(q)) = 3 + NUM_PAG_DATA
      BY DEF MemSafe, OwnersApart
    <3> QED BY <3>1, <2>1, <1>1, <1>10, <1>16, <1>17
  <2>3. \A q, r \in DOMAIN proc' : q # r => Own(q)' \cap Own(r)' = {}
    <3>1. \A q, r \in DOMAIN proc : q # r => Own(q)' \cap Own(r)' = {}
      BY <1>16 DEF MemSafe, OwnersApart
    <3>2. \A q \in DOMAIN proc : Own(q)' \cap Own(child)' = {}
      BY <1>6, <1>16, <1>17
    <3> QED BY <3>1, <3>2, <1>10
  <2> QED BY <2>2, <2>3 DEF OwnersApart
<1>19. SharedApart'
  <2>1. \A id \in ShmId : shared_frames[id] # NoFrame => shared_frames[id] \notin Own(child)'
    BY <1>6, <1>17 DEF MemSafe, SharedApart
  <2> QED BY <2>1, <1>1, <1>10, <1>16 DEF MemSafe, SharedApart
<1>20. MarkedPagesAreUsed'
  <2> SUFFICES ASSUME NEW id \in ShmId, shared_marked_rm[id]
               PROVE  shared_frames[id] # NoFrame /\ shared_refs'[id] > 0
    BY <1>1 DEF MarkedPagesAreUsed
  <2>1. shared_frames[id] # NoFrame /\ shared_refs[id] > 0
    BY DEF MemSafe, MarkedPagesAreUsed
  <2>2. shared_refs'[id] = shared_refs[id] + Inherited(p, id) /\ shared_refs[id] \in Nat
    BY <1>1 DEF MemSafe, MemTyped, SharedTyped
  <2> QED BY <2>1, <2>2, <1>12
<1> QED BY <1>13, <1>14, <1>15, <1>18, <1>19, <1>20 DEF MemSafe

-----------------------------------------------------------------------------
(* The theorems.                                                           *)

LEMMA MemSafeNext == MemSafe /\ [MemNext]_memVars => MemSafe'
<1> SUFFICES ASSUME MemSafe, [MemNext]_memVars PROVE MemSafe'
  OBVIOUS
<1>1. ASSUME NEW p \in DOMAIN proc, Fork(p) PROVE MemSafe'
  BY <1>1, ForkSafe
<1>2. ASSUME NEW p \in DOMAIN proc, ForkFails(p) PROVE MemSafe'
  BY <1>2, ForkFailsSafe
<1>3. ASSUME NEW p \in DOMAIN proc, Exit(p) PROVE MemSafe'
  BY <1>3, ExitSafe
<1>4. ASSUME NEW p \in DOMAIN proc, NEW id \in ShmId, NEW s \in Slot, ShmatMaps(p, id, s) PROVE MemSafe'
  BY <1>4, ShmatMapsSafe
<1>5. ASSUME NEW p \in DOMAIN proc, NEW id \in ShmId, ShmatMapsNothing(p, id) PROVE MemSafe'
  BY <1>5, ShmatMapsNothingSafe
<1>6. ASSUME NEW id \in ShmId, Shmrm(id) PROVE MemSafe'
  BY <1>6, ShmrmSafe
<1>7. ASSUME NEW p \in DOMAIN proc, NEW s \in Slot, Shmdt(p, s) PROVE MemSafe'
  BY <1>7, ShmdtSafe
<1>8. CASE UNCHANGED memVars
  <2>1. /\ phys_mem' = phys_mem /\ proc' = proc /\ temp_present' = temp_present
        /\ shared_frames' = shared_frames /\ shared_refs' = shared_refs
        /\ shared_marked_rm' = shared_marked_rm
    BY <1>8 DEF memVars, shmVars
  <2>2. MemTyped'
    BY <2>1 DEF MemSafe, MemTyped, ProcTyped, SharedTyped
  <2>3. RefsCountMappings'
    BY <2>1, MappingsAre DEF MemSafe, RefsCountMappings
  <2>4. NoDanglingMapping'
    BY <2>1 DEF MemSafe, NoDanglingMapping, SlotsOf
  <2>5. OwnersApart' /\ SharedApart' /\ MarkedPagesAreUsed'
    BY <2>1 DEF MemSafe, OwnersApart, SharedApart, MarkedPagesAreUsed, Own
  <2> QED BY <2>2, <2>3, <2>4, <2>5 DEF MemSafe
<1> QED BY <1>1, <1>2, <1>3, <1>4, <1>5, <1>6, <1>7, <1>8 DEF MemNext

\* The invariant holds throughout: what the theorems below have in common.
THEOREM MemAlwaysSafe == MemSpec => []MemSafe
<1> QED BY MemSafeInit, MemSafeNext, PTL DEF MemSpec

\* Frame numbers, counts and marks stay in range: a count never drops below zero.
THEOREM MemTypeCorrect == MemSpec => []MemTypeOK
<1>1. MemSafe => MemTypeOK
  BY MemSafeImplies
<1> QED BY <1>1, MemAlwaysSafe, PTL

\* shared_refs is exactly the number of mappings of each page, whatever is
\* inherited, attached twice, detached or given up by exit.
THEOREM MemRefsCount == MemSpec => []RefsCountMappings
<1>1. MemSafe => RefsCountMappings
  BY MemSafeImplies
<1> QED BY <1>1, MemAlwaysSafe, PTL

\* cleanup_shared_page and sys_shmrm destroy no page that a process still maps.
THEOREM MemNoDangling == MemSpec => []NoDanglingMapping
<1>1. MemSafe => NoDanglingMapping
  BY MemSafeImplies
<1> QED BY <1>1, MemAlwaysSafe, PTL

\* alloc_frame never hands out a frame that is a PCB, a directory, a page table,
\* data of a process or a shared page.
THEOREM MemOwnedOnce == MemSpec => []FramesOwnedOnce
<1>1. MemSafe => FramesOwnedOnce
  BY MemSafeImplies
<1> QED BY <1>1, MemAlwaysSafe, PTL

\* A page marked by sys_shmrm goes with its last user.
THEOREM MemMarkedUsed == MemSpec => []MarkedPagesAreUsed
<1>1. MemSafe => MarkedPagesAreUsed
  BY MemSafeImplies
<1> QED BY <1>1, MemAlwaysSafe, PTL

-----------------------------------------------------------------------------
(* The frames that nobody has.                                             *)

IsLost(f) ==
  /\ f \in phys_mem
  /\ \A p \in DOMAIN proc : f \notin Own(p)
  /\ \A id \in ShmId : f # shared_frames[id]

LEMMA LostAre ==
  /\ SharedTyped => \A f : f \in Lost <=> IsLost(f)
  /\ SharedTyped' => \A f : f \in Lost' <=> IsLost(f)'
BY DEF Lost, IsLost, Range, SharedTyped

\* What Release frees was owned, or shared, and is not in use any more.
LEMMA ReleaseLosesNothing ==
  ASSUME MemSafe, NEW ids \in SUBSET ShmId, NEW refs, NEW own, Release(ids, refs, own),
         NEW f \in Frame,
         f \in own => ~ IsLost(f),
         ~ (\A p \in DOMAIN proc : f \notin Own(p)) <=> f \in own \/ ~ (\A p \in DOMAIN proc' : f \notin Own(p)')
  PROVE  IsLost(f)' <=> IsLost(f)
<1> DEFINE gone == {id \in ids : refs[id] = 0 /\ shared_marked_rm[id]}
<1>1. /\ shared_frames' = [id \in ShmId |-> IF id \in gone THEN NoFrame ELSE shared_frames[id]]
      /\ phys_mem' = phys_mem \ (own \cup {shared_frames[id] : id \in gone})
  BY DEF Release
<1>2. gone \subseteq ShmId /\ f # NoFrame
  BY MemoryAssumption DEF Frame, NoFrame
<1> HIDE DEF gone
<1>3. \A id \in ShmId : shared_frames'[id] = IF id \in gone THEN NoFrame ELSE shared_frames[id]
  BY <1>1
<1>4. CASE \E id \in gone : f = shared_frames[id]
  BY <1>1, <1>2, <1>4 DEF IsLost
<1>5. CASE \A id \in gone : f # shared_frames[id]
  <2>1. f \in phys_mem' <=> f \in phys_mem /\ f \notin own
    BY <1>1, <1>5
  <2>2. (\A id \in ShmId : f # shared_frames'[id]) <=> (\A id \in ShmId : f # shared_frames[id])
    BY <1>2, <1>3, <1>5
  <2> QED BY <2>1, <2>2 DEF IsLost
<1> QED BY <1>4, <1>5

LEMMA ForkFailsLosesOne ==
  ASSUME MemSafe, NEW p \in DOMAIN proc, ForkFails(p)
  PROVE  Lost \subseteq Lost' /\ (Lost' # Lost => Cardinality(Lost' \ Lost) = 1)
<1>1. /\ phys_mem' = phys_mem \cup (IF Cardinality(Free) > 1 THEN {Alloc(2)} ELSE {})
      /\ proc' = proc /\ shared_frames' = shared_frames
  BY DEF ForkFails, shmVars
<1>2. UNION {Own(q)' : q \in DOMAIN proc'} = UNION {Own(q) : q \in DOMAIN proc}
  BY <1>1 DEF Own
<1>3. Lost' = Lost \/ \E f : Lost' = Lost \cup {f} /\ f \notin Lost
  <2>1. \E f : phys_mem' = phys_mem \cup {f} \/ phys_mem' = phys_mem
    BY <1>1
  <2> QED BY <2>1, <1>1, <1>2 DEF Lost
<1>4. ASSUME NEW f, Lost' = Lost \cup {f}, f \notin Lost
      PROVE  Cardinality(Lost' \ Lost) = 1
  <2>1. Lost' \ Lost = {f}
    BY <1>4
  <2> QED BY <2>1, FS_Singleton
<1> QED BY <1>3, <1>4

LEMMA OtherCallsLoseNothing ==
  ASSUME MemSafe, MemSafe', NEW p \in DOMAIN proc,
         \/ Fork(p)
         \/ Exit(p)
         \/ \E id \in ShmId : \/ \E s \in Slot : ShmatMaps(p, id, s)
                              \/ ShmatMapsNothing(p, id)
                              \/ Shmrm(id)
         \/ \E s \in Slot : Shmdt(p, s)
  PROVE  Lost' = Lost
<1> SUFFICES ASSUME NEW f \in Frame PROVE IsLost(f)' <=> IsLost(f)
  <2>1. Lost \subseteq Frame /\ Lost' \subseteq Frame
    BY DEF Lost, MemSafe, MemTyped
  <2>2. \A f : (f \in Lost <=> IsLost(f)) /\ (f \in Lost' <=> IsLost(f)')
    BY LostAre DEF MemSafe, MemTyped
  <2> QED BY <2>1, <2>2
<1>0. f # NoFrame
  BY MemoryAssumption DEF Frame, NoFrame
<1>1. CASE Exit(p)
  <2> DEFINE ids == {id \in ShmId : SlotsOf(p, id) # {}}
             refs == [id \in ShmId |-> shared_refs[id] - Cardinality(SlotsOf(p, id))]
  <2>1. Release(ids, refs, Own(p)) /\ proc' = [q \in DOMAIN proc \ {p} |-> proc[q]] /\ ids \in SUBSET ShmId
    BY <1>1 DEF Exit
  <2> HIDE DEF ids, refs
  <2>2. DOMAIN proc' = DOMAIN proc \ {p} /\ \A q \in DOMAIN proc' : Own(q)' = Own(q)
    BY <2>1 DEF Own
  <2>3. f \in Own(p) => ~ IsLost(f)
    BY DEF IsLost
  <2>4. ~ (\A q \in DOMAIN proc : f \notin Own(q)) <=> f \in Own(p) \/ ~ (\A q \in DOMAIN proc' : f \notin Own(q)')
    BY <2>2
  <2> QED BY <2>1, <2>3, <2>4, ReleaseLosesNothing
<1>2. ASSUME NEW s \in Slot, Shmdt(p, s)
      PROVE  IsLost(f)' <=> IsLost(f)
  <2>1. PICK refs : \E ids \in SUBSET ShmId : Release(ids, refs, {})
    <3>1. PICK id \in ShmId : s \in SlotsOf(p, id)
      BY <1>2 DEF Shmdt
    <3>2. Release({id}, [shared_refs EXCEPT ![id] = @ - 1], {})
      BY <1>2, <3>1, OneIdPerSlot DEF Shmdt
    <3> QED BY <3>2
  <2>2. DOMAIN proc' = DOMAIN proc /\ \A q \in DOMAIN proc : Own(q)' = Own(q)
    <3>1. proc' = [proc EXCEPT ![p].shm[s] = NoFrame] /\ proc \in [DOMAIN proc -> ProcRecord]
      BY <1>2 DEF Shmdt, MemSafe, MemTyped, ProcTyped
    <3>2. DOMAIN proc' = DOMAIN proc
      BY <3>1
    <3>3. \A q \in DOMAIN proc : /\ proc'[q].dir = proc[q].dir /\ proc'[q].ut = proc[q].ut
                                 /\ proc'[q].data = proc[q].data
      BY <3>1 DEF ProcRecord
    <3> QED BY <3>2, <3>3 DEF Own
  <2> QED BY <2>1, <2>2, ReleaseLosesNothing
<1>3. ASSUME NEW id \in ShmId, Shmrm(id)
      PROVE  IsLost(f)' <=> IsLost(f)
  <2>1. proc' = proc /\ \A q \in DOMAIN proc' : Own(q)' = Own(q)
    BY <1>3 DEF Shmrm, Own, shmVars
  <2>2. CASE shared_frames' = shared_frames /\ phys_mem' = phys_mem
    BY <2>1, <2>2 DEF IsLost
  <2>3. CASE /\ phys_mem' = phys_mem \ {shared_frames[id]}
             /\ shared_frames' = [shared_frames EXCEPT ![id] = NoFrame]
    <3>1. \A j \in ShmId : shared_frames'[j] = IF j = id THEN NoFrame ELSE shared_frames[j]
      BY <2>3 DEF MemSafe, MemTyped, SharedTyped
    <3> QED BY <1>0, <2>1, <2>3, <3>1 DEF IsLost
  <2> QED BY <1>3, <2>2, <2>3 DEF Shmrm
<1>4. ASSUME NEW id \in ShmId, GiveFrame(id), Attachable(id),
             DOMAIN proc' = DOMAIN proc, \A q \in DOMAIN proc : Own(q)' = Own(q)
      PROVE  IsLost(f)' <=> IsLost(f)
  <2>1. /\ shared_frames'[id] = FrameFor(id) /\ phys_mem' = phys_mem \cup {FrameFor(id)}
        /\ \A j \in ShmId : shared_frames[j] # NoFrame => shared_frames'[j] = shared_frames[j]
        /\ \A j \in ShmId \ {id} : shared_frames'[j] = shared_frames[j]
    BY <1>4, GiveFrameSafe DEF GiveFrame
  <2>2. CASE f = FrameFor(id)
    <3>1. ~ IsLost(f)'
      BY <2>1, <2>2 DEF IsLost
    <3>2. ~ IsLost(f)
      <4>1. CASE shared_frames[id] # NoFrame
        BY <4>1, <2>2 DEF IsLost, FrameFor
      <4>2. CASE shared_frames[id] = NoFrame
        <5>1. Free # {} /\ f = Alloc(1)
          BY <1>4, <2>2, <4>2 DEF Attachable, FrameFor
        <5>2. 1 \in 1..Cardinality(Free)
          BY <5>1, FreeFinite, FS_EmptySet
        <5> QED BY <5>1, <5>2, AllocFree DEF Free, IsLost
      <4> QED BY <4>1, <4>2
    <3> QED BY <3>1, <3>2
  <2>3. CASE f # FrameFor(id)
    <3>1. (\A j \in ShmId : f # shared_frames'[j]) <=> (\A j \in ShmId : f # shared_frames[j])
      BY <1>0, <2>1, <2>3
    <3> QED BY <1>4, <2>1, <2>3, <3>1 DEF IsLost
  <2> QED BY <2>2, <2>3
<1>5. ASSUME NEW id \in ShmId, ShmatMapsNothing(p, id)
      PROVE  IsLost(f)' <=> IsLost(f)
  BY <1>4, <1>5 DEF ShmatMapsNothing, Own
<1>6. ASSUME NEW id \in ShmId, NEW s \in Slot, ShmatMaps(p, id, s)
      PROVE  IsLost(f)' <=> IsLost(f)
  <2>1. proc' = [proc EXCEPT ![p].shm[s] = FrameFor(id)] /\ proc \in [DOMAIN proc -> ProcRecord]
    BY <1>6 DEF ShmatMaps, MemSafe, MemTyped, ProcTyped
  <2>2. DOMAIN proc' = DOMAIN proc
    BY <2>1
  <2>3. \A q \in DOMAIN proc : /\ proc'[q].dir = proc[q].dir /\ proc'[q].ut = proc[q].ut
                               /\ proc'[q].data = proc[q].data
    BY <2>1 DEF ProcRecord
  <2>4. \A q \in DOMAIN proc : Own(q)' = Own(q)
    BY <2>3 DEF Own
  <2> QED BY <1>4, <1>6, <2>2, <2>4 DEF ShmatMaps
<1>7. CASE Fork(p)
  <2>0. PICK child : child = Alloc(1)
    OBVIOUS
  <2> DEFINE data == {Alloc(k) : k \in 4..3 + NUM_PAG_DATA}
             taken == {child, Alloc(2), Alloc(3)} \cup data
  <2>1. /\ proc' = [q \in DOMAIN proc \cup {child} |->
                      IF q = child THEN [dir |-> Alloc(2), ut |-> Alloc(3), data |-> data, shm |-> proc[p].shm]
                                   ELSE proc[q]]
        /\ phys_mem' = phys_mem \cup taken /\ shared_frames' = shared_frames
    BY <1>7, <2>0 DEF Fork
  <2>2. Own(child)' = taken /\ child \in DOMAIN proc'
    BY <2>1 DEF Own
  <2>3. child \notin DOMAIN proc /\ taken \cap phys_mem = {}
    <3>1. NUM_PAG_DATA \in Nat \ {0} /\ Cardinality(Free) \in Nat /\ Cardinality(Free) >= 3 + NUM_PAG_DATA
      BY <1>7, MemoryAssumption, FreeFinite DEF Fork
    <3>2. \A k \in 1..3 + NUM_PAG_DATA : Alloc(k) \in Free
      BY <3>1, AllocFree
    <3>3. taken \subseteq Free
      BY <3>1, <3>2, <2>0
    <3>4. child \in Free /\ DOMAIN proc \subseteq phys_mem
      BY <3>3 DEF MemSafe, OwnersApart, Own
    <3> QED BY <3>3, <3>4 DEF Free
  <2> HIDE DEF taken, data
  <2>4. DOMAIN proc' = DOMAIN proc \cup {child} /\ \A q \in DOMAIN proc : Own(q)' = Own(q)
    BY <2>1, <2>3 DEF Own
  <2> QED BY <2>1, <2>2, <2>3, <2>4 DEF IsLost
<1> QED BY <1>1, <1>2, <1>3, <1>5, <1>6, <1>7

\* Every way out gives back all its frames, but a fork that fails, which loses
\* one at a time.
THEOREM MemOnlyForksLose == MemSpec => OnlyFailedForksLose
<1> DEFINE A == Lost' # Lost => /\ \E p \in DOMAIN proc : ForkFails(p)
                                /\ Lost \subseteq Lost' /\ Cardinality(Lost' \ Lost) = 1
<1>1. MemSafe /\ MemSafe' /\ [MemNext]_memVars => [A]_memVars
  <2> SUFFICES ASSUME MemSafe, MemSafe', MemNext PROVE A
    OBVIOUS
  <2>1. ASSUME NEW p \in DOMAIN proc, ForkFails(p) PROVE A
    BY <2>1, ForkFailsLosesOne
  <2>2. CASE ~ \E p \in DOMAIN proc : ForkFails(p)
    <3>1. Lost' = Lost
      BY <2>2, OtherCallsLoseNothing DEF MemNext
    <3> QED BY <3>1
  <2> QED BY <2>1, <2>2
<1>2. MemSafe /\ [MemNext]_memVars => MemSafe'
  BY MemSafeNext
<1> QED BY <1>1, <1>2, MemSafeInit, PTL DEF MemSpec, OnlyFailedForksLose
===============================================================================
