--------------------------- MODULE RoundRobinProofs ---------------------------
(***************************************************************************)
(* The scheduler's properties, for every set of tasks and every quantum.   *)
(* They are proved without fairness, so every client has them.             *)
(***************************************************************************)
EXTENDS RoundRobin, SequenceTheorems, TLAPS

\* list_add_tail of a node that is in no list keeps the list a list: the new
\* queue has the old elements and the new one, each once.
LEMMA AppendFresh ==
  ASSUME NEW S, NEW q \in Seq(S), NEW x \in S, x \notin Range(q), IsInjective(q)
  PROVE  /\ Append(q, x) \in Seq(S)
         /\ IsInjective(Append(q, x))
         /\ Range(Append(q, x)) = Range(q) \cup {x}
<1>1. /\ Append(q, x) \in Seq(S)
      /\ Len(Append(q, x)) = Len(q) + 1
      /\ \A i \in 1..Len(q) : Append(q, x)[i] = q[i]
      /\ Append(q, x)[Len(q) + 1] = x
  BY AppendProperties
<1>2. /\ Len(q) \in Nat
      /\ DOMAIN q = 1..Len(q)
      /\ DOMAIN Append(q, x) = 1..(Len(q) + 1)
  BY <1>1, LenProperties
<1>3. IsInjective(Append(q, x))
  <2> SUFFICES ASSUME NEW i \in 1..(Len(q) + 1), NEW j \in 1..(Len(q) + 1),
                      Append(q, x)[i] = Append(q, x)[j]
               PROVE  i = j
    BY <1>2 DEF IsInjective
  <2>1. CASE i = Len(q) + 1 \/ j = Len(q) + 1
    BY <2>1, <1>1, <1>2 DEF Range
  <2>2. CASE i \in 1..Len(q) /\ j \in 1..Len(q)
    BY <2>2, <1>1, <1>2 DEF IsInjective
  <2> QED
    BY <2>1, <2>2, <1>2
<1>4. Range(Append(q, x)) = Range(q) \cup {x}
  <2>1. \A i \in 1..(Len(q) + 1) : Append(q, x)[i] \in Range(q) \cup {x}
    BY <1>1, <1>2 DEF Range
  <2>2. \A i \in 1..Len(q) : q[i] \in Range(Append(q, x))
    BY <1>1, <1>2 DEF Range
  <2>3. x \in Range(Append(q, x))
    BY <1>1, <1>2 DEF Range
  <2> QED
    BY <2>1, <2>2, <2>3, <1>2 DEF Range
<1> QED
  BY <1>1, <1>3, <1>4

\* Taking the first node off a list: it is in the list no more.
LEMMA TakeFirst ==
  ASSUME NEW S, NEW q \in Seq(S), q # << >>, IsInjective(q)
  PROVE  /\ Head(q) \in S
         /\ Tail(q) \in Seq(S)
         /\ IsInjective(Tail(q))
         /\ Range(q) = Range(Tail(q)) \cup {Head(q)}
         /\ Head(q) \notin Range(Tail(q))
<1>1. /\ Head(q) \in S
      /\ Tail(q) \in Seq(S)
      /\ Len(Tail(q)) = Len(q) - 1
      /\ \A i \in 1..Len(Tail(q)) : Tail(q)[i] = q[i + 1]
  BY HeadTailProperties
<1>2. /\ Len(q) \in Nat \ {0}
      /\ DOMAIN q = 1..Len(q)
      /\ DOMAIN Tail(q) = 1..(Len(q) - 1)
      /\ Head(q) = q[1]
  BY <1>1, LenProperties, EmptySeq
<1>3. \A i \in 1..(Len(q) - 1) : i + 1 \in DOMAIN q /\ Tail(q)[i] = q[i + 1] /\ i + 1 # 1
  BY <1>1, <1>2
<1>4. IsInjective(Tail(q))
  BY <1>2, <1>3 DEF IsInjective
<1>5. Range(q) = Range(Tail(q)) \cup {Head(q)}
  <2>1. \A i \in 1..(Len(q) - 1) : Tail(q)[i] \in Range(q)
    BY <1>2, <1>3 DEF Range
  <2>2. Head(q) \in Range(q)
    BY <1>2 DEF Range
  <2>3. \A i \in 1..Len(q) : i # 1 => i - 1 \in 1..(Len(q) - 1) /\ q[i] = Tail(q)[i - 1]
    BY <1>2, <1>3
  <2>4. \A i \in 1..Len(q) : q[i] \in Range(Tail(q)) \cup {Head(q)}
    BY <1>2, <2>3 DEF Range
  <2> QED
    BY <1>2, <2>1, <2>2, <2>4 DEF Range
<1>6. Head(q) \notin Range(Tail(q))
  BY <1>2, <1>3 DEF Range, IsInjective
<1> QED
  BY <1>1, <1>4, <1>5, <1>6

-----------------------------------------------------------------------------
(* Type correctness and uniqueness of place.                               *)

\* The next task gets a whole turn, and is in no queue, when sched_next_rr is
\* called with a queue of distinct tasks.
LEMMA SchedNextSafe ==
  ASSUME NEW rq \in Seq(Task), IsInjective(rq), SchedNext(rq)
  PROVE  /\ RRTypeOK'
         /\ OnePlace'
         /\ Range(readyqueue') \subseteq Range(rq)
         /\ Queued' \cup {cur', Idle} = Range(rq) \cup {Idle}
<1> USE RRAssumption
<1>1. CASE rq = << >> /\ cur' = Idle /\ readyqueue' = rq
  <2>1. Len(rq) = 0 /\ DOMAIN rq = 1..0
    BY <1>1, EmptySeq, LenProperties
  <2> QED
    BY <1>1, <2>1 DEF SchedNext, RRTypeOK, OnePlace, Queued, Range
<1>2. CASE rq # << >> /\ cur' = Head(rq) /\ readyqueue' = Tail(rq)
  BY <1>2, TakeFirst DEF SchedNext, RRTypeOK, OnePlace, Queued
<1> QED
  BY <1>1, <1>2 DEF SchedNext

\* Every step of the scheduler and of its clients keeps the two.
LEMMA RRSafeStep ==
  ASSUME RRTypeOK, OnePlace, [RRNext]_rrVars
  PROVE  RRTypeOK' /\ OnePlace'
<1> USE RRAssumption
<1>q. readyqueue \in Seq(Task) /\ IsInjective(readyqueue) /\ cur \in Task /\ cur \notin Range(readyqueue)
  BY DEF RRTypeOK, OnePlace, Queued
<1>1. CASE Tick
  <2>1. CASE NeedsSched(remaining_quantum - 1)
    <3>1. /\ Append(readyqueue, cur) \in Seq(Task)
          /\ IsInjective(Append(readyqueue, cur))
      BY <1>q, AppendFresh
    <3>2. SchedNext(Append(readyqueue, cur))
      BY <1>1, <2>1 DEF Tick, Schedule
    <3> QED
      BY <3>1, <3>2, SchedNextSafe
  <2>2. CASE ~ NeedsSched(remaining_quantum - 1)
    BY <1>1, <2>2 DEF Tick, Schedule, NeedsSched, RRTypeOK, OnePlace, Queued
  <2> QED
    BY <2>1, <2>2
<1>2. CASE Leave
  BY <1>2, <1>q, SchedNextSafe DEF Leave
<1>3. ASSUME NEW t \in Task, Arrive(t)
      PROVE  RRTypeOK' /\ OnePlace'
  <2>1. t \notin Range(readyqueue) /\ t # cur
    BY <1>3 DEF Arrive, Queued
  <2>2. /\ Append(readyqueue, t) \in Seq(Task)
        /\ IsInjective(Append(readyqueue, t))
        /\ Range(Append(readyqueue, t)) = Range(readyqueue) \cup {t}
    BY <1>q, <2>1, AppendFresh
  <2> QED
    BY <1>3, <1>q, <2>1, <2>2 DEF Arrive, MakeReady, RRTypeOK, OnePlace, Queued
<1>4. CASE UNCHANGED rrVars
  BY <1>4 DEF rrVars, RRTypeOK, OnePlace, Queued
<1> QED
  BY <1>1, <1>2, <1>3, <1>4 DEF RRNext

LEMMA RRSafeInit == RRInit => RRTypeOK /\ OnePlace
<1> SUFFICES ASSUME RRInit PROVE RRTypeOK /\ OnePlace
  OBVIOUS
<1>1. << >> \in Seq(Task) /\ Len(<< >>) = 0 /\ DOMAIN << >> = 1..0
  BY EmptySeq
<1> QED
  BY <1>1, RRAssumption DEF RRInit, RRTypeOK, OnePlace, Queued, Range, IsInjective

\* sched.c never schedules anything but a task and never lets the turn counter
\* out of 0..Quantum.
THEOREM RRTypeCorrect == RRSafety => []RRTypeOK
<1>1. RRInit => RRTypeOK /\ OnePlace
  BY RRSafeInit
<1>2. RRTypeOK /\ OnePlace /\ [RRNext]_rrVars => (RRTypeOK /\ OnePlace)'
  BY RRSafeStep
<1> QED
  BY <1>1, <1>2, PTL DEF RRSafety

\* No task_struct is linked twice in the ready queue, and the running one is
\* not linked at all.
THEOREM RROnePlace == RRSafety => []OnePlace
<1>1. RRInit => RRTypeOK /\ OnePlace
  BY RRSafeInit
<1>2. RRTypeOK /\ OnePlace /\ [RRNext]_rrVars => (RRTypeOK /\ OnePlace)'
  BY RRSafeStep
<1> QED
  BY <1>1, <1>2, PTL DEF RRSafety

-----------------------------------------------------------------------------
(* Fairness between tasks, as properties of every step.                    *)

RRSafe == RRTypeOK /\ OnePlace

LEMMA RRSafeAlways == RRSafety => []RRSafe
<1>1. RRInit => RRSafe
  BY RRSafeInit DEF RRSafe
<1>2. RRSafe /\ [RRNext]_rrVars => RRSafe'
  BY RRSafeStep DEF RRSafe
<1> QED
  BY <1>1, <1>2, PTL DEF RRSafety

\* What sched_next_rr does to the i-th task of the queue it is called with:
\* it runs, or moves one place up.
LEMMA SchedNextAdvances ==
  ASSUME NEW rq \in Seq(Task), SchedNext(rq), NEW i \in 1..Len(rq)
  PROVE  \/ i = 1 /\ cur' = rq[i]
         \/ i # 1 /\ i - 1 \in 1..Len(readyqueue') /\ readyqueue'[i - 1] = rq[i]
<1>1. rq # << >> /\ Len(rq) \in Nat
  BY EmptySeq, LenProperties
<1>2. /\ Len(Tail(rq)) = Len(rq) - 1
      /\ \A k \in 1..Len(Tail(rq)) : Tail(rq)[k] = rq[k + 1]
      /\ Head(rq) = rq[1]
  BY <1>1, HeadTailProperties
<1>3. cur' = Head(rq) /\ readyqueue' = Tail(rq)
  BY <1>1 DEF SchedNext
<1>4. CASE i = 1
  BY <1>2, <1>3, <1>4
<1>5. CASE i # 1
  <2>1. i - 1 \in 1..Len(Tail(rq)) /\ (i - 1) + 1 = i
    BY <1>1, <1>2, <1>5
  <2> QED
    BY <1>2, <1>3, <1>5, <2>1
<1> QED
  BY <1>4, <1>5

\* What any step does to the i-th task of the ready queue: it runs, keeps its
\* place, or moves one place up.
LEMMA StepAdvances ==
  ASSUME RRSafe, [RRNext]_rrVars, NEW i \in 1..Len(readyqueue)
  PROVE  \/ i = 1 /\ cur' = readyqueue[i] /\ SchedNext(Append(readyqueue, cur))
         \/ i = 1 /\ cur' = readyqueue[i] /\ SchedNext(readyqueue)
         \/ /\ i # 1 /\ i - 1 \in 1..Len(readyqueue')
            /\ readyqueue'[i - 1] = readyqueue[i]
            /\ remaining_quantum' = Quantum
         \/ /\ i \in 1..Len(readyqueue')
            /\ readyqueue'[i] = readyqueue[i]
            /\ \/ remaining_quantum' = remaining_quantum /\ cur' = cur
               \/ Tick /\ remaining_quantum > 1 /\ remaining_quantum' = remaining_quantum - 1
<1>q. readyqueue \in Seq(Task) /\ cur \in Task /\ remaining_quantum \in 0..Quantum /\ Quantum \in Nat
  BY RRAssumption DEF RRSafe, RRTypeOK
<1>n. Len(readyqueue) \in Nat
  BY <1>q, LenProperties
<1>1. CASE Tick
  <2>1. CASE NeedsSched(remaining_quantum - 1)
    <3> DEFINE rq == Append(readyqueue, cur)
    <3>1. /\ rq \in Seq(Task)
          /\ i \in 1..Len(rq)
          /\ rq[i] = readyqueue[i]
      BY <1>q, <1>n, AppendProperties
    <3>2. SchedNext(rq)
      BY <1>1, <2>1 DEF Tick, Schedule
    <3>3. remaining_quantum' = Quantum
      BY <3>2 DEF SchedNext
    <3> HIDE DEF rq
    <3>4. \/ i = 1 /\ cur' = rq[i]
          \/ i # 1 /\ i - 1 \in 1..Len(readyqueue') /\ readyqueue'[i - 1] = rq[i]
      BY <3>1, <3>2, SchedNextAdvances
    <3> QED
      BY <3>1, <3>2, <3>3, <3>4 DEF rq
  <2>2. CASE ~ NeedsSched(remaining_quantum - 1)
    <3>1. /\ remaining_quantum' = remaining_quantum - 1
          /\ readyqueue' = readyqueue
          /\ ~ (remaining_quantum - 1 <= 0)
      BY <1>1, <2>2 DEF Tick, Schedule, NeedsSched
    <3> QED
      BY <1>1, <1>q, <3>1
  <2> QED
    BY <2>1, <2>2
<1>2. CASE Leave
  <2>1. SchedNext(readyqueue) /\ remaining_quantum' = Quantum
    BY <1>2 DEF Leave, SchedNext
  <2>2. \/ i = 1 /\ cur' = readyqueue[i]
        \/ i # 1 /\ i - 1 \in 1..Len(readyqueue') /\ readyqueue'[i - 1] = readyqueue[i]
    BY <1>q, <2>1, SchedNextAdvances
  <2> QED
    BY <2>1, <2>2
<1>3. ASSUME NEW t \in Task, Arrive(t)
      PROVE  /\ i \in 1..Len(readyqueue')
             /\ readyqueue'[i] = readyqueue[i]
             /\ remaining_quantum' = remaining_quantum /\ cur' = cur
  <2>1. /\ readyqueue' = Append(readyqueue, t)
        /\ remaining_quantum' = remaining_quantum /\ cur' = cur
    BY <1>3 DEF Arrive, MakeReady
  <2>2. i \in 1..Len(Append(readyqueue, t)) /\ Append(readyqueue, t)[i] = readyqueue[i]
    BY <1>q, <1>n, AppendProperties
  <2> QED
    BY <2>1, <2>2
<1>4. CASE UNCHANGED rrVars
  BY <1>4 DEF rrVars
<1> QED
  BY <1>1, <1>2, <1>3, <1>4 DEF RRNext

\* Nobody gets in front of a queued process.
THEOREM RRNoOvertaking == RRSafety => NoOvertaking
<1>1. ASSUME RRSafe, RRSafe', [RRNext]_rrVars, NEW t \in Queued, cur' # t
      PROVE  t \in Queued' /\ \A u \in Task : Ahead(u, t)' => Ahead(u, t)
  <2>n. /\ Len(readyqueue) \in Nat /\ readyqueue \in Seq(Task) /\ cur \in Task
        /\ Len(readyqueue') \in Nat /\ readyqueue' \in Seq(Task)
        /\ DOMAIN readyqueue = 1..Len(readyqueue) /\ DOMAIN readyqueue' = 1..Len(readyqueue')
    BY <1>1, LenProperties DEF RRSafe, RRTypeOK
  <2>i. \A k, l \in 1..Len(readyqueue') : readyqueue'[k] = readyqueue'[l] => k = l
    BY <1>1, <2>n DEF RRSafe, OnePlace, IsInjective
  <2>1. PICK i \in 1..Len(readyqueue) : readyqueue[i] = t
    BY <1>1, <2>n DEF Queued, Range
  <2> DEFINE Behind(p, up) ==
        /\ p \in 1..Len(readyqueue') /\ readyqueue'[p] = t
        /\ \A k \in 1..Len(readyqueue') : k < p =>
             k + up \in 1..Len(readyqueue) /\ k + up < i /\ readyqueue[k + up] = readyqueue'[k]
  <2>2. ASSUME NEW p \in Int, NEW up \in 0..1, Behind(p, up)
        PROVE  t \in Queued' /\ \A u \in Task : Ahead(u, t)' => Ahead(u, t)
    <3>1. t \in Queued'
      BY <2>2, <2>n DEF Queued, Range
    <3>2. ASSUME NEW u \in Task, Ahead(u, t)'
          PROVE  Ahead(u, t)
      <4>1. PICK k \in 1..Len(readyqueue'), l \in 1..Len(readyqueue') :
              k < l /\ readyqueue'[k] = u /\ readyqueue'[l] = t
        BY <3>2 DEF Ahead
      <4>2. l = p
        BY <4>1, <2>2, <2>i
      <4>3. k + up \in 1..Len(readyqueue) /\ k + up < i /\ readyqueue[k + up] = u
        BY <4>1, <4>2, <2>2
      <4> QED
        BY <4>3, <2>1 DEF Ahead
    <3> QED
      BY <3>1, <3>2
  <2>3. CASE \E rq \in {readyqueue, Append(readyqueue, cur)} : SchedNext(rq)
    <3>1. PICK rq \in {readyqueue, Append(readyqueue, cur)} : SchedNext(rq)
      BY <2>3
    <3>2. /\ rq \in Seq(Task)
          /\ \A k \in 1..Len(readyqueue) : k \in 1..Len(rq) /\ rq[k] = readyqueue[k]
      <4>1. CASE rq = readyqueue
        BY <2>n, <4>1
      <4>2. CASE rq = Append(readyqueue, cur)
        <5>1. /\ Append(readyqueue, cur) \in Seq(Task)
              /\ Len(Append(readyqueue, cur)) = Len(readyqueue) + 1
              /\ \A k \in 1..Len(readyqueue) : Append(readyqueue, cur)[k] = readyqueue[k]
          BY <2>n, AppendProperties
        <5> QED
          BY <2>n, <4>2, <5>1
      <4> QED
        BY <4>1, <4>2
    <3>3. ASSUME NEW k \in 1..Len(readyqueue)
          PROVE  \/ k = 1 /\ cur' = readyqueue[k]
                 \/ k # 1 /\ k - 1 \in 1..Len(readyqueue') /\ readyqueue'[k - 1] = readyqueue[k]
      <4>1. k \in 1..Len(rq) /\ rq[k] = readyqueue[k]
        BY <3>2
      <4> QED
        BY <3>1, <3>2, <4>1, SchedNextAdvances
    <3>4. i - 1 \in 1..Len(readyqueue') /\ readyqueue'[i - 1] = t
      BY <1>1, <2>1, <3>3
    <3>5. ASSUME NEW k \in 1..Len(readyqueue'), k < i - 1
          PROVE  k + 1 \in 1..Len(readyqueue) /\ k + 1 < i /\ readyqueue[k + 1] = readyqueue'[k]
      <4>1. k + 1 \in 1..Len(readyqueue) /\ k + 1 < i /\ k + 1 # 1 /\ (k + 1) - 1 = k
        BY <2>n, <2>1, <3>5
      <4> QED
        BY <4>1, <3>3
    <3>6. Behind(i - 1, 1)
      BY <3>4, <3>5
    <3> HIDE DEF Behind
    <3> QED
      BY <2>1, <2>2, <3>6
  <2>4. CASE readyqueue' = readyqueue
    <3>1. Behind(i, 0)
      BY <2>1, <2>4, <2>n
    <3> HIDE DEF Behind
    <3> QED
      BY <2>1, <2>2, <3>1
  <2>5. CASE \E x \in Task : readyqueue' = Append(readyqueue, x)
    <3>1. PICK x \in Task : readyqueue' = Append(readyqueue, x)
      BY <2>5
    <3>2. \A k \in 1..Len(readyqueue) : k \in 1..Len(readyqueue') /\ readyqueue'[k] = readyqueue[k]
      BY <2>n, <3>1, AppendProperties
    <3>3. Behind(i, 0)
      <4>1. \A k \in 1..Len(readyqueue') : k < i => k + 0 = k /\ k \in 1..Len(readyqueue)
        BY <2>1, <2>n
      <4> QED
        BY <2>1, <3>2, <4>1
    <3> HIDE DEF Behind
    <3> QED
      BY <2>1, <2>2, <3>3
  <2> QED
    BY <1>1, <2>3, <2>4, <2>5
       DEF RRNext, rrVars, Tick, Schedule, Leave, Arrive, MakeReady
<1>2. RRSafe /\ RRSafe' /\ [RRNext]_rrVars
        => [\A t \in Queued \ {Idle} :
              \/ cur' = t
              \/ t \in Queued' /\ \A u \in Task : Ahead(u, t)' => Ahead(u, t)]_rrVars
  BY <1>1
<1> QED
  BY <1>2, RRSafeAlways, PTL DEF RRSafety, NoOvertaking

LEMMA OnePlaceUp ==
  ASSUME NEW i \in Int, NEW q \in Int
  PROVE  (i - 2) * q + q = (i - 1) * q
BY SMT

\* A tick brings every queued task nearer to the CPU, by the measure Delay, and
\* no step takes one further from it.
THEOREM RRBoundedWaiting == RRSafety => BoundedWaiting
<1> DEFINE Nearer ==
      \A i \in 1..Len(readyqueue) :
        \/ cur' = readyqueue[i]
        \/ \E j \in 1..Len(readyqueue') :
             /\ readyqueue'[j] = readyqueue[i]
             /\ Delay(j)' <= Delay(i)
             /\ Tick => Delay(j)' < Delay(i)
<1>1. ASSUME RRSafe, [RRNext]_rrVars, NEW i \in 1..Len(readyqueue)
      PROVE  \/ cur' = readyqueue[i]
             \/ \E j \in 1..Len(readyqueue') :
                  /\ readyqueue'[j] = readyqueue[i]
                  /\ Delay(j)' <= Delay(i)
                  /\ Tick => Delay(j)' < Delay(i)
  <2>q. /\ remaining_quantum \in 0..Quantum /\ Quantum \in Nat \ {0} /\ i \in Int
        /\ readyqueue \in Seq(Task) /\ cur \in Task
    BY <1>1, RRAssumption, LenProperties DEF RRSafe, RRTypeOK
  <2>1. CASE /\ i # 1 /\ i - 1 \in 1..Len(readyqueue')
             /\ readyqueue'[i - 1] = readyqueue[i]
             /\ remaining_quantum' = Quantum
    <3>1. Delay(i - 1)' = (i - 2) * Quantum + Quantum
      BY <2>1, <2>q DEF Delay
    <3>2. (i - 2) * Quantum + Quantum = (i - 1) * Quantum /\ (i - 1) * Quantum \in Int
      BY <2>q, OnePlaceUp
    <3> DEFINE p == (i - 1) * Quantum
    <3>3. Delay(i - 1)' = p /\ p \in Int
      BY <3>1, <3>2
    <3>4. Delay(i) = p + (IF remaining_quantum = 0 THEN 1 ELSE remaining_quantum)
      BY DEF Delay
    <3> HIDE DEF p
    <3>5. Delay(i - 1)' < Delay(i) /\ Delay(i - 1)' <= Delay(i)
      BY <3>3, <3>4, <2>q
    <3> QED
      BY <2>1, <3>5
  <2>2. CASE /\ i \in 1..Len(readyqueue')
             /\ readyqueue'[i] = readyqueue[i]
             /\ Tick /\ remaining_quantum > 1
             /\ remaining_quantum' = remaining_quantum - 1
    <3>1. Delay(i)' < Delay(i) /\ Delay(i)' <= Delay(i)
      <4>1. (i - 1) * Quantum \in Int
        BY <2>q
      <4> QED
        BY <2>2, <2>q, <4>1 DEF Delay
    <3> QED
      BY <2>2, <3>1
  <2>3. CASE /\ i \in 1..Len(readyqueue')
             /\ readyqueue'[i] = readyqueue[i]
             /\ remaining_quantum' = remaining_quantum /\ cur' = cur
    <3>1. CASE Tick
      \* a tick takes a turn away or gives a whole one to the first task
      <4>1. CASE NeedsSched(remaining_quantum - 1)
        <5>1. SchedNext(Append(readyqueue, cur))
          BY <3>1, <4>1 DEF Tick, Schedule
        <5>2. /\ Append(readyqueue, cur) \in Seq(Task)
              /\ i \in 1..Len(Append(readyqueue, cur))
              /\ Append(readyqueue, cur)[i] = readyqueue[i]
          BY <2>q, AppendProperties
        <5>3. \/ i = 1 /\ cur' = readyqueue[i]
              \/ i # 1 /\ i - 1 \in 1..Len(readyqueue') /\ readyqueue'[i - 1] = readyqueue[i]
          BY <5>1, <5>2, SchedNextAdvances
        <5>4. remaining_quantum' = Quantum
          BY <5>1 DEF SchedNext
        <5> QED
          BY <2>1, <5>3, <5>4
      <4>2. CASE ~ NeedsSched(remaining_quantum - 1)
        BY <3>1, <4>2, <2>3, <2>q DEF Tick, Schedule
      <4> QED
        BY <4>1, <4>2
    <3>2. CASE ~ Tick
      <4>1. Delay(i)' = Delay(i) /\ Delay(i) \in Int
        BY <2>3, <2>q DEF Delay
      <4> QED
        BY <2>3, <3>2, <4>1
    <3> QED
      BY <3>1, <3>2
  <2> QED
    BY <1>1, <2>1, <2>2, <2>3, StepAdvances
<1>2. RRSafe /\ [RRNext]_rrVars => [Nearer]_rrVars
  BY <1>1
<1> QED
  BY <1>2, RRSafeAlways, PTL DEF RRSafety, BoundedWaiting

\* A task that loses the CPU but stays ready has used its whole turn.
THEOREM RRTurnHonoured == RRSafety => TurnHonoured
<1>1. ASSUME RRSafe, [RRNext]_rrVars, cur' # cur, cur \in Queued'
      PROVE  remaining_quantum <= 1
  <2>q. /\ readyqueue \in Seq(Task) /\ IsInjective(readyqueue) /\ cur \in Task
        /\ cur \notin Range(readyqueue) /\ remaining_quantum \in Int
    BY <1>1 DEF RRSafe, RRTypeOK, OnePlace, Queued
  <2>1. CASE Tick
    <3>1. NeedsSched(remaining_quantum - 1) /\ SchedNext(Append(readyqueue, cur))
      BY <1>1, <2>1 DEF Tick, Schedule
    <3>2. CASE readyqueue = << >>
      <4>1. Append(readyqueue, cur) # << >> /\ Head(Append(readyqueue, cur)) = cur
        BY <2>q, <3>2, AppendProperties, HeadTailAppend
      <4> QED
        BY <1>1, <3>1, <4>1 DEF SchedNext
    <3>3. CASE readyqueue # << >>
      BY <2>q, <3>1, <3>3 DEF NeedsSched
    <3> QED
      BY <3>2, <3>3
  <2>2. CASE Leave
    <3>1. Range(readyqueue') \subseteq Range(readyqueue)
      BY <2>2, <2>q, SchedNextSafe DEF Leave
    <3> QED
      BY <1>1, <2>q, <3>1 DEF Queued
  <2> QED
    BY <1>1, <2>1, <2>2 DEF RRNext, rrVars, Arrive, MakeReady
<1>2. RRSafe /\ [RRNext]_rrVars
        => [cur' # cur /\ cur \in Queued' => remaining_quantum <= 1]_rrVars
  BY <1>1
<1> QED
  BY <1>2, RRSafeAlways, PTL DEF RRSafety, TurnHonoured
===============================================================================
