---------------------------- MODULE ProcTreeProofs ----------------------------
(***************************************************************************)
(* For any number of frames and processes: until a frame that has been a   *)
(* PCB is handed out again, for whatever, every process is in one place,   *)
(* the children lists are closed rings that hold what the parent pointers  *)
(* say, and block and unblock are the operations of a semaphore.           *)
(***************************************************************************)
EXTENDS ProcTree, RoundRobinProofs, FiniteSetTheorems, WellFoundedInduction

-----------------------------------------------------------------------------
(* Numbers.                                                                *)

LEMMA LeastNumber ==
  ASSUME NEW S \in SUBSET Nat, S # {}
  PROVE  /\ Min(S) \in S
         /\ \A m \in S : Min(S) <= m
<1>1. PICK n \in S : \A m \in S : <<m, n>> \notin OpToRel(<, Nat)
  BY NatLessThanWellFounded, WFMin
<1>2. \A m \in Nat : m < n => <<m, n>> \in OpToRel(<, Nat)
  BY DEF OpToRel
<1>3. \A m \in S : n <= m
  <2>1. \A m \in S : ~ (m < n)
    BY <1>1, <1>2
  <2> QED
    BY <2>1
<1> QED
  BY <1>3, Zenon DEF Min

-----------------------------------------------------------------------------
(* Queues.                                                                 *)

\* The position of e in s is the first one where e is.
LEMMA FirstPosition ==
  ASSUME NEW S, NEW s \in Seq(S), NEW e, NEW j \in 1..Len(s), s[j] = e
  PROVE  \E i \in 1..Len(s) : s[i] = e /\ SelectInSeq(s, LAMBDA v : v = e) = i
<1> DEFINE I == {i \in 1..Len(s) : s[i] = e}
<1>1. I \in SUBSET Nat /\ I # {}
  OBVIOUS
<1>2. Min(I) \in I
  BY <1>1, LeastNumber, Zenon
<1>3. SelectInSeq(s, LAMBDA v : v = e) = IF I # {} THEN Min(I) ELSE 0
  BY Zenon DEF SelectInSeq
<1> QED
  BY <1>1, <1>2, <1>3

LEMMA RemovedAt ==
  ASSUME NEW S, NEW s \in Seq(S), NEW i \in 1..Len(s)
  PROVE  /\ RemoveAt(s, i) \in Seq(S)
         /\ Len(RemoveAt(s, i)) = Len(s) - 1
         /\ \A j \in 1..Len(s) - 1 : RemoveAt(s, i)[j] = IF j < i THEN s[j] ELSE s[j + 1]
<1> DEFINE a == SubSeq(s, 1, i - 1)
           b == SubSeq(s, i + 1, Len(s))
<1>q. Len(s) \in Nat /\ i \in Nat /\ 1 <= i /\ i <= Len(s)
  BY LenProperties
<1>1. /\ a \in Seq(S) /\ Len(a) = i - 1
      /\ \A j \in 1..i - 1 : a[j] = s[1 + j - 1]
  BY <1>q, SubSeqProperties
<1>2. /\ b \in Seq(S) /\ Len(b) = Len(s) - i
      /\ \A j \in 1..Len(s) - i : b[j] = s[i + 1 + j - 1]
  BY <1>q, SubSeqProperties
<1>3. RemoveAt(s, i) = a \o b
  BY DEF RemoveAt
<1> HIDE DEF a, b
<1>4. /\ a \o b \in Seq(S)
      /\ Len(a \o b) = Len(a) + Len(b)
      /\ \A j \in 1..(Len(a) + Len(b)) : (a \o b)[j] = IF j <= Len(a) THEN a[j] ELSE b[j - Len(a)]
  BY <1>1, <1>2, ConcatProperties
<1>5. ASSUME NEW j \in 1..Len(s) - 1 PROVE (a \o b)[j] = IF j < i THEN s[j] ELSE s[j + 1]
  <2>q. j \in 1..(Len(a) + Len(b))
    BY <1>q, <1>1, <1>2
  <2>1. CASE j < i
    <3>1. j <= Len(a) /\ j \in 1..i - 1 /\ 1 + j - 1 = j
      BY <2>1, <1>q, <1>1
    <3> QED
      BY <3>1, <2>1, <2>q, <1>1, <1>4
  <2>2. CASE ~ (j < i)
    <3>1. /\ ~ (j <= Len(a)) /\ j - Len(a) \in 1..Len(s) - i
          /\ i + 1 + (j - Len(a)) - 1 = j + 1
      BY <2>2, <1>q, <1>1
    <3>2. b[j - Len(a)] = s[j + 1]
      BY <3>1, <1>2
    <3> QED
      BY <3>1, <3>2, <2>2, <2>q, <1>4
  <2> QED
    BY <2>1, <2>2
<1>6. Len(a) + Len(b) = Len(s) - 1
  BY <1>q, <1>1, <1>2
<1> QED
  BY <1>3, <1>4, <1>5, <1>6

\* Which elements are left when one position goes, if no element is twice in s.
LEMMA RemovedAtLeaves ==
  ASSUME NEW S, NEW s \in Seq(S), IsInjective(s), NEW i \in 1..Len(s)
  PROVE  /\ IsInjective(RemoveAt(s, i))
         /\ Range(RemoveAt(s, i)) = Range(s) \ {s[i]}
<1> DEFINE r == RemoveAt(s, i)
           n == Len(s)
<1>1. /\ r \in Seq(S) /\ Len(r) = n - 1
      /\ \A j \in 1..n - 1 : r[j] = IF j < i THEN s[j] ELSE s[j + 1]
  BY RemovedAt
<1>2. n \in Nat /\ DOMAIN s = 1..n /\ DOMAIN r = 1..n - 1
  BY <1>1, LenProperties
<1> HIDE DEF r, n
<1>q. i \in 1..n
  BY DEF n
<1>3. \A j, k \in 1..n : s[j] = s[k] => j = k
  BY <1>2 DEF IsInjective
<1>4. \A j \in 1..n - 1 : \E k \in 1..n : k # i /\ r[j] = s[k]
  <2> SUFFICES ASSUME NEW j \in 1..n - 1 PROVE \E k \in 1..n : k # i /\ r[j] = s[k]
    OBVIOUS
  <2>1. CASE j < i
    BY <2>1, <1>1, <1>2, <1>q
  <2>2. CASE ~ (j < i)
    <3>1. j + 1 \in 1..n /\ j + 1 # i /\ r[j] = s[j + 1]
      BY <2>2, <1>1, <1>2, <1>q
    <3> QED
      BY <3>1
  <2> QED
    BY <2>1, <2>2
<1>5. \A k \in 1..n : k # i => \E j \in 1..n - 1 : r[j] = s[k]
  <2> SUFFICES ASSUME NEW k \in 1..n, k # i PROVE \E j \in 1..n - 1 : r[j] = s[k]
    OBVIOUS
  <2>1. CASE k < i
    BY <2>1, <1>1, <1>2, <1>q
  <2>2. CASE ~ (k < i)
    <3>1. k - 1 \in 1..n - 1 /\ ~ (k - 1 < i) /\ k - 1 + 1 = k
      BY <2>2, <1>2, <1>q
    <3> QED
      BY <3>1, <1>1
  <2> QED
    BY <2>1, <2>2
<1>6. IsInjective(r)
  <2> SUFFICES ASSUME NEW j \in 1..n - 1, NEW k \in 1..n - 1, r[j] = r[k] PROVE j = k
    BY <1>2 DEF IsInjective
  <2>1. /\ r[j] = s[IF j < i THEN j ELSE j + 1]
        /\ r[k] = s[IF k < i THEN k ELSE k + 1]
    BY <1>1
  <2>2. /\ (IF j < i THEN j ELSE j + 1) \in 1..n
        /\ (IF k < i THEN k ELSE k + 1) \in 1..n
    BY <1>2
  <2>3. (IF j < i THEN j ELSE j + 1) = (IF k < i THEN k ELSE k + 1)
    BY <2>1, <2>2, <1>3
  <2> QED
    BY <2>3, <1>q, <1>2
<1>7. Range(r) = Range(s) \ {s[i]}
  <2>1. \A x \in Range(r) : x \in Range(s) \ {s[i]}
    BY <1>2, <1>3, <1>4, <1>q DEF Range
  <2>2. \A x \in Range(s) \ {s[i]} : x \in Range(r)
    BY <1>2, <1>5, <1>q DEF Range
  <2> QED
    BY <2>1, <2>2
<1> QED
  BY <1>6, <1>7 DEF r

\* list_del of the node of e.
LEMMA RemovedFirst ==
  ASSUME NEW S, NEW s \in Seq(S), NEW e
  PROVE  /\ RemoveFirst(s, e) \in Seq(S)
         /\ e \notin Range(s) => RemoveFirst(s, e) = s
         /\ IsInjective(s) => /\ IsInjective(RemoveFirst(s, e))
                              /\ Range(RemoveFirst(s, e)) = Range(s) \ {e}
<1>1. DOMAIN s = 1..Len(s)
  BY LenProperties
<1>2. CASE \E i \in 1..Len(s) : s[i] = e
  <2>1. PICK i \in 1..Len(s) : s[i] = e /\ SelectInSeq(s, LAMBDA v : v = e) = i
    BY <1>2, FirstPosition, Zenon
  <2>2. RemoveFirst(s, e) = RemoveAt(s, i)
    BY <1>2, <2>1, Zenon DEF RemoveFirst
  <2>3. e \in Range(s)
    BY <1>1, <2>1 DEF Range
  <2> QED
    BY <2>1, <2>2, <2>3, RemovedAt, RemovedAtLeaves
<1>3. CASE ~ (\E i \in 1..Len(s) : s[i] = e)
  <2>1. RemoveFirst(s, e) = s
    BY <1>3, Zenon DEF RemoveFirst
  <2>2. e \notin Range(s)
    BY <1>1, <1>3 DEF Range
  <2> QED
    BY <2>1, <2>2
<1> QED
  BY <1>2, <1>3

-----------------------------------------------------------------------------
(* Heaps of list nodes.                                                    *)

Heap == [next : [Node -> Node \cup {NULL}], prev : [Node -> Node \cup {NULL}]]

\* What the three operations write, and that they write nothing else.
LEMMA HeapInit ==
  ASSUME NEW h \in Heap, NEW n \in Node
  PROVE  /\ InitListHead(h, n) \in Heap
         /\ InitListHead(h, n).next[n] = n /\ InitListHead(h, n).prev[n] = n
         /\ \A m \in Node : m # n => /\ InitListHead(h, n).next[m] = h.next[m]
                                     /\ InitListHead(h, n).prev[m] = h.prev[m]
BY DEF Heap, InitListHead

LEMMA HeapAddType ==
  ASSUME NEW h \in Heap, NEW new \in Node, NEW head \in Node
  PROVE  ListAddTail(h, new, head) \in Heap
<1>1. h.prev[head] \in Node \cup {NULL}
  BY DEF Heap
<1> QED
  BY <1>1 DEF Heap, ListAddTail

LEMMA HeapAdd ==
  ASSUME NEW h \in Heap, NEW new \in Node, NEW head \in Node, NEW last \in Node,
         last = h.prev[head], new # head, new # last
  PROVE  LET g == ListAddTail(h, new, head)
         IN  /\ g \in Heap
             /\ g.next[new] = head /\ g.next[last] = new
             /\ g.prev[head] = new /\ g.prev[new] = last
             /\ \A m \in Node : m \notin {new, last} => g.next[m] = h.next[m]
             /\ \A m \in Node : m \notin {new, head} => g.prev[m] = h.prev[m]
BY DEF Heap, ListAddTail

LEMMA HeapDelType ==
  ASSUME NEW h \in Heap, NEW e \in Node
  PROVE  ListDel(h, e) \in Heap
<1>1. h.prev[e] \in Node \cup {NULL} /\ h.next[e] \in Node \cup {NULL}
  BY DEF Heap
<1> QED
  BY <1>1 DEF Heap, ListDel

LEMMA HeapDel ==
  ASSUME NEW h \in Heap, NEW e \in Node, NEW p \in Node, NEW n \in Node,
         p = h.prev[e], n = h.next[e], p # e, n # e
  PROVE  LET g == ListDel(h, e)
         IN  /\ g \in Heap
             /\ g.next[p] = n /\ g.prev[n] = p
             /\ \A m \in Node : m \notin {e, p} => g.next[m] = h.next[m]
             /\ \A m \in Node : m \notin {e, n} => g.prev[m] = h.prev[m]
BY DEF Heap, ListDel

-----------------------------------------------------------------------------
(* Rings: the nodes of a list in good order, its head first.               *)

IsRing(h, s) ==
  /\ s \in Seq(Node) /\ Len(s) >= 1 /\ IsInjective(s)
  /\ \A i \in 1..Len(s) - 1 : h.next[s[i]] = s[i + 1] /\ h.prev[s[i + 1]] = s[i]
  /\ h.next[s[Len(s)]] = s[1] /\ h.prev[s[1]] = s[Len(s)]

\* A heap that says the same of the nodes in a ring has the ring.
LEMMA RingKept ==
  ASSUME NEW h, NEW g, NEW s, IsRing(h, s),
         \A m \in Range(s) : g.next[m] = h.next[m] /\ g.prev[m] = h.prev[m]
  PROVE  IsRing(g, s)
<1>1. Len(s) \in Nat \ {0} /\ DOMAIN s = 1..Len(s)
  BY LenProperties DEF IsRing
<1>2. \A i \in 1..Len(s) : g.next[s[i]] = h.next[s[i]] /\ g.prev[s[i]] = h.prev[s[i]]
  BY <1>1 DEF Range
<1>3. \A i \in 1..Len(s) - 1 : i \in 1..Len(s) /\ i + 1 \in 1..Len(s)
  BY <1>1
<1>4. 1 \in 1..Len(s) /\ Len(s) \in 1..Len(s)
  BY <1>1
<1> QED
  BY <1>2, <1>3, <1>4 DEF IsRing

\* INIT_LIST_HEAD makes a ring of one.
LEMMA RingInit ==
  ASSUME NEW h, NEW n \in Node, h.next[n] = n, h.prev[n] = n
  PROVE  IsRing(h, <<n>>) /\ Range(<<n>>) = {n}
<1>1. <<n>> \in Seq(Node) /\ Len(<<n>>) = 1 /\ <<n>>[1] = n /\ DOMAIN <<n>> = 1..1
  OBVIOUS
<1>2. IsInjective(<<n>>) /\ Range(<<n>>) = {n}
  BY <1>1 DEF IsInjective, Range
<1> QED
  BY <1>1, <1>2 DEF IsRing

\* list_add_tail puts the new node last.
LEMMA RingAdd ==
  ASSUME NEW h \in Heap, NEW s, IsRing(h, s), NEW new \in Node, new \notin Range(s)
  PROVE  LET g == ListAddTail(h, new, s[1])
         IN  /\ g \in Heap
             /\ IsRing(g, Append(s, new))
             /\ Append(s, new)[1] = s[1]
             /\ Range(Append(s, new)) = Range(s) \cup {new}
             /\ \A m \in Node \ (Range(s) \cup {new}) :
                  g.next[m] = h.next[m] /\ g.prev[m] = h.prev[m]
<1> DEFINE n == Len(s)
           head == s[1]
           last == s[n]
           g == ListAddTail(h, new, head)
           r == Append(s, new)
<1>1. /\ s \in Seq(Node) /\ n \in Nat \ {0} /\ IsInjective(s) /\ DOMAIN s = 1..n
      /\ head \in Range(s) /\ last \in Range(s) /\ Range(s) \subseteq Node
  BY LenProperties DEF IsRing, Range
<1>2. /\ r \in Seq(Node) /\ Len(r) = n + 1
      /\ \A i \in 1..n : r[i] = s[i]
      /\ r[n + 1] = new
  BY <1>1, AppendProperties
<1>3. IsInjective(r) /\ Range(r) = Range(s) \cup {new}
  BY <1>1, AppendFresh
<1>4. head \in Node /\ last \in Node /\ last = h.prev[head] /\ new # head /\ new # last
  BY <1>1 DEF IsRing
<1>5. /\ g \in Heap
      /\ g.next[new] = head /\ g.next[last] = new
      /\ g.prev[head] = new /\ g.prev[new] = last
      /\ \A m \in Node : m \notin {new, last} => g.next[m] = h.next[m]
      /\ \A m \in Node : m \notin {new, head} => g.prev[m] = h.prev[m]
  BY <1>4, HeapAdd
<1>6. /\ \A i \in 1..n : s[i] \in Range(s) /\ s[i] \in Node /\ s[i] # new
      /\ \A i, j \in 1..n : s[i] = s[j] => i = j
      /\ \A i \in 1..n - 1 : h.next[s[i]] = s[i + 1] /\ h.prev[s[i + 1]] = s[i]
  BY <1>1 DEF IsRing, Range, IsInjective
<1>h. head = s[1] /\ last = s[n]
  OBVIOUS
<1> HIDE DEF g, r, n, head, last
<1>7. \A i \in 1..n : g.next[r[i]] = r[i + 1] /\ g.prev[r[i + 1]] = r[i]
  <2> SUFFICES ASSUME NEW i \in 1..n PROVE g.next[r[i]] = r[i + 1] /\ g.prev[r[i + 1]] = r[i]
    OBVIOUS
  <2>1. CASE i = n
    BY <2>1, <1>1, <1>2, <1>5, <1>h
  <2>2. CASE i # n
    <3>1. i \in 1..n - 1 /\ i + 1 \in 1..n /\ i + 1 # 1 /\ n \in 1..n /\ 1 \in 1..n
      BY <2>2, <1>1
    <3>2. s[i] # last /\ s[i] # new /\ s[i + 1] # head /\ s[i + 1] # new
      BY <3>1, <2>2, <1>6, <1>h
    <3>3. g.next[s[i]] = h.next[s[i]] /\ g.prev[s[i + 1]] = h.prev[s[i + 1]]
      BY <3>1, <3>2, <1>5, <1>6
    <3> QED
      BY <3>1, <3>3, <1>2, <1>6
  <2> QED
    BY <2>1, <2>2
<1>8. r[1] = head
  BY <1>1, <1>2, <1>h
<1>9. IsRing(g, r)
  BY <1>1, <1>2, <1>3, <1>5, <1>7, <1>8 DEF IsRing
<1>10. \A m \in Node \ (Range(s) \cup {new}) : g.next[m] = h.next[m] /\ g.prev[m] = h.prev[m]
  BY <1>1, <1>5
<1> QED
  BY <1>3, <1>5, <1>8, <1>9, <1>10 DEF g, r, head

\* list_del takes a node that is not the head out.
LEMMA RingDel ==
  ASSUME NEW h \in Heap, NEW s, IsRing(h, s), NEW e \in Range(s), e # s[1]
  PROVE  LET g == ListDel(h, e)
         IN  /\ g \in Heap
             /\ \E r : /\ IsRing(g, r) /\ r[1] = s[1]
                       /\ Range(r) = Range(s) \ {e}
             /\ \A m \in Node \ Range(s) : g.next[m] = h.next[m] /\ g.prev[m] = h.prev[m]
<1> DEFINE n == Len(s)
           g == ListDel(h, e)
<1>1. /\ s \in Seq(Node) /\ n \in Nat \ {0} /\ IsInjective(s) /\ DOMAIN s = 1..n
      /\ Range(s) \subseteq Node
  BY LenProperties DEF IsRing, Range
<1>2. PICK i \in 1..n : s[i] = e
  BY <1>1 DEF Range
<1>3. i \in 2..n
  BY <1>1, <1>2
<1> DEFINE r == RemoveAt(s, i)
           p == s[i - 1]
           x == IF i = n THEN s[1] ELSE s[i + 1]
<1>4. /\ r \in Seq(Node) /\ Len(r) = n - 1
      /\ \A j \in 1..n - 1 : r[j] = IF j < i THEN s[j] ELSE s[j + 1]
  BY <1>1, RemovedAt
<1>5. IsInjective(r) /\ Range(r) = Range(s) \ {e}
  BY <1>1, <1>2, RemovedAtLeaves
<1>6. /\ \A j \in 1..n : s[j] \in Node
      /\ \A j, k \in 1..n : s[j] = s[k] => j = k
      /\ \A j \in 1..n - 1 : h.next[s[j]] = s[j + 1] /\ h.prev[s[j + 1]] = s[j]
      /\ h.next[s[n]] = s[1] /\ h.prev[s[1]] = s[n]
  BY <1>1 DEF IsRing, IsInjective
<1>h. p = s[i - 1] /\ x = (IF i = n THEN s[1] ELSE s[i + 1]) /\ i \in 2..n
  BY <1>3
<1> HIDE DEF g, r, n, p, x
<1>7. /\ p \in Node /\ x \in Node /\ p # e /\ x # e
      /\ p = h.prev[e] /\ x = h.next[e]
  <2>1. i - 1 \in 1..n - 1 /\ i - 1 + 1 = i /\ i - 1 \in 1..n /\ i - 1 # i
    BY <1>h, <1>1
  <2>2. p \in Node /\ p # e /\ p = h.prev[e]
    BY <2>1, <1>2, <1>6, <1>h
  <2>3. CASE i = n
    <3>1. 1 \in 1..n /\ i # 1
      BY <1>h, <1>1
    <3> QED
      BY <3>1, <2>2, <2>3, <1>2, <1>6, <1>h
  <2>4. CASE i # n
    <3>1. i \in 1..n - 1 /\ i + 1 \in 1..n /\ i + 1 # i
      BY <2>4, <1>h, <1>1
    <3> QED
      BY <2>2, <2>4, <3>1, <1>2, <1>6, <1>h
  <2> QED
    BY <2>3, <2>4
<1>8. /\ g \in Heap
      /\ g.next[p] = x /\ g.prev[x] = p
      /\ \A m \in Node : m \notin {e, p} => g.next[m] = h.next[m]
      /\ \A m \in Node : m \notin {e, x} => g.prev[m] = h.prev[m]
  BY <1>1, <1>7, HeapDel DEF g
<1>9. \A m \in Node \ Range(s) : g.next[m] = h.next[m] /\ g.prev[m] = h.prev[m]
  <2>1. p \in Range(s) /\ x \in Range(s)
    <3>1. i - 1 \in 1..n /\ 1 \in 1..n /\ (i # n => i + 1 \in 1..n)
      BY <1>h, <1>1
    <3> QED
      BY <3>1, <1>1, <1>h DEF Range
  <2> QED
    BY <2>1, <1>8
<1>10. \A j \in 1..n : /\ j # i /\ j # i - 1 => g.next[s[j]] = h.next[s[j]]
                       /\ s[j] # e /\ s[j] # x => g.prev[s[j]] = h.prev[s[j]]
  <2> SUFFICES ASSUME NEW j \in 1..n
               PROVE  /\ j # i /\ j # i - 1 => g.next[s[j]] = h.next[s[j]]
                      /\ s[j] # e /\ s[j] # x => g.prev[s[j]] = h.prev[s[j]]
    OBVIOUS
  <2>1. i - 1 \in 1..n
    BY <1>h, <1>1
  <2>2. j # i /\ j # i - 1 => s[j] # e /\ s[j] # p
    BY <2>1, <1>2, <1>6, <1>h
  <2> QED
    BY <2>2, <1>6, <1>8
<1>11. \A j \in 1..n - 2 : g.next[r[j]] = r[j + 1] /\ g.prev[r[j + 1]] = r[j]
  <2> SUFFICES ASSUME NEW j \in 1..n - 2 PROVE g.next[r[j]] = r[j + 1] /\ g.prev[r[j + 1]] = r[j]
    OBVIOUS
  <2>1. CASE j < i - 1
    <3>1. j \in 1..n - 1 /\ j + 1 \in 1..n - 1 /\ j < i /\ j + 1 < i /\ j \in 1..n
          /\ j + 1 \in 1..n /\ j # i /\ j # i - 1 /\ j + 1 # i
      BY <2>1, <1>h, <1>1
    <3>2. r[j] = s[j] /\ r[j + 1] = s[j + 1]
      BY <3>1, <1>4
    <3>3. s[j + 1] # e
      BY <3>1, <1>2, <1>6
    <3>4. s[j + 1] # x
      <4>1. CASE i = n
        <5>1. 1 \in 1..n /\ j + 1 # 1
          BY <1>1
        <5> QED
          BY <5>1, <4>1, <3>1, <1>6, <1>h
      <4>2. CASE i # n
        <5>1. i + 1 \in 1..n /\ j + 1 # i + 1
          BY <4>2, <3>1, <1>1
        <5> QED
          BY <5>1, <4>2, <3>1, <1>6, <1>h
      <4> QED
        BY <4>1, <4>2
    <3> QED
      BY <3>1, <3>2, <3>3, <3>4, <1>6, <1>10
  <2>2. CASE j = i - 1
    <3>1. j \in 1..n - 1 /\ j + 1 \in 1..n - 1 /\ j < i /\ ~ (j + 1 < i) /\ i # n
          /\ j + 1 + 1 = i + 1
      BY <2>2, <1>h, <1>1
    <3>2. r[j] = s[j] /\ r[j + 1] = s[i + 1]
      BY <3>1, <1>4
    <3>3. r[j] = p /\ r[j + 1] = x
      BY <3>1, <3>2, <2>2, <1>h
    <3> QED
      BY <3>3, <1>8
  <2>3. CASE j > i - 1
    <3>1. /\ j \in 1..n - 1 /\ j + 1 \in 1..n - 1 /\ ~ (j < i) /\ ~ (j + 1 < i)
          /\ j + 1 \in 1..n /\ j + 1 + 1 \in 1..n /\ j + 1 # i /\ j + 1 # i - 1
          /\ j + 1 + 1 # i /\ i # n /\ j + 1 + 1 # i + 1 /\ i + 1 \in 1..n
      BY <2>3, <1>h, <1>1
    <3>2. r[j] = s[j + 1] /\ r[j + 1] = s[j + 1 + 1]
      BY <3>1, <1>4
    <3>3. s[j + 1 + 1] # e /\ s[j + 1 + 1] # x
      BY <3>1, <1>2, <1>6, <1>h
    <3> QED
      BY <3>1, <3>2, <3>3, <1>6, <1>10
  <2> QED
    BY <2>1, <2>2, <2>3, <1>3
<1>12. r[1] = s[1] /\ n - 1 >= 1
  <2>1. 1 \in 1..n - 1 /\ 1 < i
    BY <1>h, <1>1
  <2> QED
    BY <2>1, <1>4
<1>13. g.next[r[n - 1]] = r[1] /\ g.prev[r[1]] = r[n - 1]
  <2>1. CASE i = n
    <3>1. n - 1 \in 1..n - 1 /\ n - 1 < i
      BY <2>1, <1>12, <1>1
    <3>2. r[n - 1] = s[i - 1]
      BY <3>1, <2>1, <1>4
    <3> QED
      BY <3>2, <2>1, <1>8, <1>12, <1>h
  <2>2. CASE i # n
    <3>1. /\ n - 1 \in 1..n - 1 /\ ~ (n - 1 < i) /\ n - 1 + 1 = n /\ n \in 1..n /\ 1 \in 1..n
          /\ n # i /\ n # i - 1 /\ i + 1 \in 1..n /\ 1 # i + 1 /\ 1 # i
      BY <2>2, <1>h, <1>1
    <3>2. r[n - 1] = s[n]
      BY <3>1, <1>4
    <3>3. s[1] # e /\ s[1] # x
      BY <3>1, <2>2, <1>2, <1>6, <1>h
    <3> QED
      BY <3>1, <3>2, <3>3, <1>6, <1>10, <1>12
  <2> QED
    BY <2>1, <2>2
<1>14. IsRing(g, r)
  <2>1. Len(r) - 1 = n - 2
    BY <1>4, <1>1
  <2> QED
    BY <2>1, <1>4, <1>5, <1>11, <1>12, <1>13 DEF IsRing
<1> QED
  BY <1>5, <1>8, <1>9, <1>12, <1>14 DEF g, r

-----------------------------------------------------------------------------
(* Walks.                                                                  *)

LEMMA NodesFinite == IsFiniteSet(Node) /\ Cardinality(Node) \in Nat
<1>1. IsFiniteSet(Frame)
  BY ProcTreeAssumption, FS_Subset DEF Frame
<1>2. IsFiniteSet({"children_blocked", "children_unblocked", "sibiling"})
  <2>1. {"children_blocked", "children_unblocked", "sibiling"}
          = {"children_blocked"} \cup {"children_unblocked"} \cup {"sibiling"}
    OBVIOUS
  <2>2. IsFiniteSet({"children_blocked"}) /\ IsFiniteSet({"children_unblocked"})
        /\ IsFiniteSet({"sibiling"})
    BY FS_Singleton
  <2>3. IsFiniteSet({"children_blocked"} \cup {"children_unblocked"})
    BY <2>2, FS_Union
  <2>4. IsFiniteSet({"children_blocked"} \cup {"children_unblocked"} \cup {"sibiling"})
    BY <2>2, <2>3, FS_Union
  <2> QED
    BY <2>1, <2>4
<1> QED
  BY <1>1, <1>2, NodeAssumption, FS_Product, FS_CardinalityType

\* f is the walks of 1 to N + 1 steps.
IsWalk(f, h, head, N) ==
  f = [k \in 1..N + 1 |-> IF k = 1 THEN <<h.next[head]>>
                          ELSE Append(f[k - 1], Follow(h, f[k - 1][k - 1]))]

\* The recursion over 1..N + 1 that a walk is has a solution: if it had none for
\* some N, then for a least one, and that for N - 1 can be prolonged.
LEMMA WalkExists ==
  ASSUME NEW h, NEW head, NEW N \in Nat
  PROVE  \E f : IsWalk(f, h, head, N)
<1> USE DEF IsWalk
<1> DEFINE next(f, k) == Append(f[k - 1], Follow(h, f[k - 1][k - 1]))
           P(m) == \E f : f = [k \in 1..m + 1 |-> IF k = 1 THEN <<h.next[head]>> ELSE next(f, k)]
           Bad == {m \in Nat : ~ P(m)}
<1>1. SUFFICES ASSUME ~ P(N) PROVE FALSE
  OBVIOUS
<1>2. Bad \in SUBSET Nat /\ Bad # {}
  BY <1>1
<1>3. PICK m \in Bad : \A x \in Bad : m <= x
  BY <1>2, LeastNumber, Zenon
<1>4. CASE m = 0
  <2> DEFINE f == [k \in 1..1 |-> <<h.next[head]>>]
  <2>1. f = [k \in 1..m + 1 |-> IF k = 1 THEN <<h.next[head]>> ELSE next(f, k)]
    BY <1>4
  <2>2. P(m)
    BY <2>1
  <2> QED
    BY <2>2, <1>3
<1>5. CASE m # 0
  <2>1. m - 1 \in Nat /\ ~ (m <= m - 1)
    BY <1>3, <1>5
  <2>2. P(m - 1)
    BY <2>1, <1>3
  <2>3. PICK f : f = [k \in 1..m - 1 + 1 |-> IF k = 1 THEN <<h.next[head]>> ELSE next(f, k)]
    BY <2>2
  <2> DEFINE g == [k \in 1..m + 1 |-> IF k = m + 1 THEN Append(f[m], Follow(h, f[m][m])) ELSE f[k]]
  <2>4. \A k \in 1..m : f[k] = IF k = 1 THEN <<h.next[head]>> ELSE next(f, k)
    <3>1. m - 1 + 1 = m
      BY <1>3
    <3> HIDE DEF next
    <3> QED
      BY <2>3, <3>1
  <2>5. ASSUME NEW k \in 1..m + 1
        PROVE  g[k] = IF k = 1 THEN <<h.next[head]>> ELSE next(g, k)
    <3>1. CASE k = m + 1
      <4>1. k # 1 /\ m \in 1..m + 1 /\ k - 1 = m /\ m # m + 1
        BY <3>1, <1>3, <1>5
      <4>2. g[k] = Append(f[m], Follow(h, f[m][m])) /\ g[m] = f[m]
        BY <3>1, <4>1
      <4> QED
        BY <4>1, <4>2
    <3>2. CASE k # m + 1
      <4>1. k \in 1..m /\ g[k] = f[k]
        BY <3>2, <1>3
      <4>2. k # 1 => k - 1 \in 1..m + 1 /\ k - 1 # m + 1
        BY <4>1, <1>3
      <4>3. k # 1 => g[k - 1] = f[k - 1]
        BY <4>2
      <4>4. f[k] = IF k = 1 THEN <<h.next[head]>> ELSE next(f, k)
        BY <4>1, <2>4
      <4> HIDE DEF g
      <4> QED
        BY <4>1, <4>3, <4>4
    <3> QED
      BY <3>1, <3>2
  <2>6. g = [k \in 1..m + 1 |-> g[k]]
    OBVIOUS
  <2> HIDE DEF g
  <2>7. g = [k \in 1..m + 1 |-> IF k = 1 THEN <<h.next[head]>> ELSE next(g, k)]
    BY <2>5, <2>6
  <2>8. P(m)
    BY <2>7
  <2> QED
    BY <2>8, <1>3
<1> QED
  BY <1>4, <1>5

\* s is the first k nodes of a walk.
IsPath(s, h, head, k) ==
  /\ \E S : s \in Seq(S)
  /\ Len(s) = k
  /\ s[1] = h.next[head]
  /\ \A j \in 2..k : s[j] = Follow(h, s[j - 1])

LEMMA PathGrows ==
  ASSUME NEW h, NEW head, NEW k \in Nat \ {0}, NEW s, IsPath(s, h, head, k)
  PROVE  IsPath(Append(s, Follow(h, s[k])), h, head, k + 1)
<1>1. PICK S : s \in Seq(S)
  BY DEF IsPath
<1>e. PICK e : e = Follow(h, s[k])
  OBVIOUS
<1>2. s \in Seq(S \cup {e})
  BY <1>1, SeqMonotonic
<1> DEFINE t == Append(s, e)
<1>3. /\ t \in Seq(S \cup {e}) /\ Len(t) = k + 1
      /\ \A j \in 1..k : t[j] = s[j]
      /\ t[k + 1] = e
  BY <1>2, AppendProperties DEF IsPath
<1> HIDE DEF t
<1>4. t[1] = h.next[head]
  BY <1>3 DEF IsPath
<1>5. ASSUME NEW j \in 2..k + 1 PROVE t[j] = Follow(h, t[j - 1])
  <2>1. j - 1 \in 1..k /\ t[j - 1] = s[j - 1]
    BY <1>3
  <2>2. CASE j = k + 1
    BY <2>1, <2>2, <1>3, <1>e
  <2>3. CASE j # k + 1
    <3>1. j \in 2..k /\ j \in 1..k
      BY <2>3
    <3> QED
      BY <3>1, <2>1, <1>3 DEF IsPath
  <2> QED
    BY <2>2, <2>3
<1>6. IsPath(t, h, head, k + 1)
  BY <1>3, <1>4, <1>5, Zenon DEF IsPath
<1> QED
  BY <1>6, <1>e DEF t

\* A walk goes from a node to the next one.
LEMMA WalkSteps ==
  ASSUME NEW h, NEW head
  PROVE  LET W == Walk(h, head)
             N == Cardinality(Node) + 1
         IN  /\ DOMAIN W = 1..N
             /\ W[1] = h.next[head]
             /\ \A k \in 2..N : W[k] = Follow(h, W[k - 1])
<1> DEFINE Q(g) == IsWalk(g, h, head, Cardinality(Node))
<1>n. PICK N : N = Cardinality(Node) + 1
  OBVIOUS
<1>c. Cardinality(Node) \in Nat /\ N \in Nat \ {0}
  BY <1>n, NodesFinite
<1>1. \E f : Q(f)
  BY <1>c, WalkExists
<1>2. Walk(h, head) = (CHOOSE g : Q(g))[N]
  BY <1>n DEF Walk, IsWalk
<1> HIDE DEF Q
<1>p. PICK path : path = CHOOSE g : Q(g)
  OBVIOUS
<1>3. Q(path)
  BY <1>1, <1>p, Zenon
<1>4. path = [k \in 1..N |-> IF k = 1 THEN <<h.next[head]>>
                             ELSE Append(path[k - 1], Follow(h, path[k - 1][k - 1]))]
  BY <1>3, <1>n, Zenon DEF Q, IsWalk
<1>5. \A k \in 1..N : path[k] = IF k = 1 THEN <<h.next[head]>>
                               ELSE Append(path[k - 1], Follow(h, path[k - 1][k - 1]))
  BY <1>4
<1>6. \A k \in 1..N : IsPath(path[k], h, head, k)
  <2> DEFINE Bad == {k \in 1..N : ~ IsPath(path[k], h, head, k)}
  <2>1. SUFFICES ASSUME Bad # {} PROVE FALSE
    OBVIOUS
  <2>2. Bad \in SUBSET Nat
    BY <1>c
  <2>3. PICK k \in Bad : \A x \in Bad : k <= x
    BY <2>1, <2>2, LeastNumber, Zenon
  <2>4. k # 1
    <3>1. path[1] = <<h.next[head]>>
      BY <1>5, <1>c
    <3>2. <<h.next[head]>> \in Seq({h.next[head]}) /\ Len(<<h.next[head]>>) = 1
          /\ <<h.next[head]>>[1] = h.next[head]
      OBVIOUS
    <3>p. PICK p : p = path[1]
      OBVIOUS
    <3>e. \A j \in 2..1 : p[j] = Follow(h, p[j - 1])
      OBVIOUS
    <3>s. /\ \E S : p \in Seq(S)
          /\ Len(p) = 1 /\ p[1] = h.next[head]
      BY <3>1, <3>2, <3>p, Zenon
    <3>3. IsPath(p, h, head, 1)
      BY <3>e, <3>s, Zenon DEF IsPath
    <3> QED
      BY <3>3, <3>p, <2>3
  <2>5. k - 1 \in 1..N /\ k - 1 \in Nat \ {0} /\ ~ (k <= k - 1) /\ k - 1 + 1 = k /\ k \in 1..N
    BY <2>3, <2>4, <1>c
  <2>6. IsPath(path[k - 1], h, head, k - 1)
    BY <2>3, <2>5
  <2>7. IsPath(Append(path[k - 1], Follow(h, path[k - 1][k - 1])), h, head, k - 1 + 1)
    BY <2>5, <2>6, PathGrows
  <2>8. path[k] = Append(path[k - 1], Follow(h, path[k - 1][k - 1]))
    BY <2>4, <2>5, <1>5
  <2> QED
    BY <2>3, <2>5, <2>7, <2>8
<1>7. IsPath(path[N], h, head, N)
  BY <1>6, <1>c
<1>8. DOMAIN path[N] = 1..N
  BY <1>7, LenProperties DEF IsPath
<1> QED
  BY <1>2, <1>p, <1>7, <1>8, <1>n DEF IsPath

\* A ring is not longer than there are nodes.
LEMMA RingFits ==
  ASSUME NEW h, NEW s, IsRing(h, s)
  PROVE  Len(s) \in 1..Cardinality(Node)
<1>1. /\ Len(s) \in Nat \ {0} /\ DOMAIN s = 1..Len(s) /\ s \in [1..Len(s) -> Node]
      /\ IsInjective(s)
  BY LenProperties DEF IsRing
<1>2. IsFiniteSet(1..Len(s)) /\ Cardinality(1..Len(s)) = Len(s)
  BY <1>1, FS_Interval
<1>3. s \in Injection(1..Len(s), Node)
  BY <1>1 DEF Injection, IsInjective
<1>4. Cardinality(1..Len(s)) <= Cardinality(Node)
  BY <1>2, <1>3, NodesFinite, FS_Injection DEF ExistsInjection
<1> QED
  BY <1>1, <1>2, <1>4, NodesFinite

\* A walk over a ring visits its nodes in their order, then the head, and
\* never leaves it.
LEMMA RingWalk ==
  ASSUME NEW h, NEW s, IsRing(h, s)
  PROVE  LET W == Walk(h, s[1])
         IN  /\ \A k \in 1..Cardinality(Node) + 1 : W[k] \in Range(s)
             /\ \A k \in 1..Len(s) : W[k] = IF k = Len(s) THEN s[1] ELSE s[k + 1]
<1> DEFINE W == Walk(h, s[1])
<1>n. PICK n : n = Len(s)
  OBVIOUS
<1>c. PICK c : c = Cardinality(Node)
  OBVIOUS
<1>1. n \in 1..c /\ c \in Nat
  BY <1>n, <1>c, RingFits, NodesFinite
<1>2. /\ s \in Seq(Node) /\ DOMAIN s = 1..n
      /\ \A i \in 1..n : s[i] \in Node /\ s[i] \in Range(s)
      /\ \A x \in Range(s) : \E i \in 1..n : x = s[i]
      /\ \A i \in 1..n - 1 : h.next[s[i]] = s[i + 1]
      /\ h.next[s[n]] = s[1]
  BY <1>n, LenProperties DEF IsRing, Range
<1>3. /\ W[1] = h.next[s[1]]
      /\ \A k \in 2..c + 1 : W[k] = Follow(h, W[k - 1])
  BY <1>c, WalkSteps
<1> HIDE DEF W
<1>4. \A x \in Range(s) : h.next[x] \in Range(s) /\ Follow(h, x) = h.next[x]
  <2> SUFFICES ASSUME NEW x \in Range(s)
               PROVE  h.next[x] \in Range(s) /\ Follow(h, x) = h.next[x]
    OBVIOUS
  <2>1. PICK i \in 1..n : x = s[i]
    BY <1>2
  <2>2. x # NULL
    BY <2>1, <1>2, ListHeapAssumption
  <2>3. CASE i = n
    <3>1. 1 \in 1..n
      BY <1>1
    <3> QED
      BY <3>1, <2>1, <2>2, <2>3, <1>2 DEF Follow
  <2>4. CASE i # n
    <3>1. i \in 1..n - 1 /\ i + 1 \in 1..n
      BY <2>4, <1>1
    <3> QED
      BY <3>1, <2>1, <2>2, <1>2 DEF Follow
  <2> QED
    BY <2>3, <2>4
<1>5. \A k \in 1..c + 1 : W[k] \in Range(s)
  <2> DEFINE Bad == {k \in 1..c + 1 : W[k] \notin Range(s)}
  <2>1. SUFFICES ASSUME Bad # {} PROVE FALSE
    OBVIOUS
  <2>2. Bad \in SUBSET Nat
    BY <1>1
  <2>3. PICK k \in Bad : \A x \in Bad : k <= x
    BY <2>1, <2>2, LeastNumber, Zenon
  <2>4. k # 1
    <3>1. 1 \in 1..n
      BY <1>1
    <3> QED
      BY <3>1, <2>3, <1>2, <1>3, <1>4
  <2>5. k - 1 \in 1..c + 1 /\ ~ (k <= k - 1) /\ k \in 2..c + 1
    BY <2>3, <2>4, <1>1
  <2>6. W[k - 1] \in Range(s)
    BY <2>3, <2>5
  <2> QED
    BY <2>3, <2>5, <2>6, <1>3, <1>4
<1>6. \A k \in 1..n : W[k] = IF k = n THEN s[1] ELSE s[k + 1]
  <2> DEFINE Bad == {k \in 1..n : W[k] # IF k = n THEN s[1] ELSE s[k + 1]}
  <2>1. SUFFICES ASSUME Bad # {} PROVE FALSE
    OBVIOUS
  <2>2. Bad \in SUBSET Nat
    BY <1>1
  <2>3. PICK k \in Bad : \A x \in Bad : k <= x
    BY <2>1, <2>2, LeastNumber, Zenon
  <2>4. \A i \in 1..n : h.next[s[i]] = IF i = n THEN s[1] ELSE s[i + 1]
    <3>1. \A i \in 1..n : i # n => i \in 1..n - 1
      BY <1>1
    <3> QED
      BY <3>1, <1>2
  <2>5. k # 1
    <3>1. 1 \in 1..n
      BY <1>1
    <3> QED
      BY <3>1, <2>3, <2>4, <1>3
  <2>6. k - 1 \in 1..n /\ ~ (k <= k - 1) /\ k \in 2..c + 1 /\ k - 1 # n /\ k - 1 + 1 = k /\ k \in 1..n
    BY <2>3, <2>5, <1>1
  <2>7. W[k - 1] = s[k]
    BY <2>3, <2>6
  <2>8. W[k] = h.next[s[k]]
    BY <2>6, <2>7, <1>2, <1>3, <1>4
  <2> QED
    BY <2>3, <2>4, <2>6, <2>8
<1> QED
  BY <1>5, <1>6, <1>n, <1>c DEF W

\* A search over a ring ends, at a wanted node of the ring or at its head.
LEMMA RingSearch ==
  ASSUME NEW h, NEW s, IsRing(h, s), NEW wanted
  PROVE  FirstOf(h, s[1], wanted) \in Range(s) \cap (wanted \cup {s[1]})
<1> DEFINE W == Walk(h, s[1])
           Stops == {k \in DOMAIN W : W[k] \in wanted \cup {s[1]}}
<1>1. Len(s) \in 1..Cardinality(Node) /\ Cardinality(Node) \in Nat
  BY RingFits, NodesFinite
<1>2. /\ DOMAIN W = 1..Cardinality(Node) + 1
      /\ \A k \in 1..Cardinality(Node) + 1 : W[k] \in Range(s)
      /\ W[Len(s)] = s[1]
  <2>1. Len(s) \in 1..Len(s)
    BY <1>1
  <2> QED
    BY <2>1, WalkSteps, RingWalk
<1> HIDE DEF W
<1>3. Stops \in SUBSET Nat /\ Len(s) \in Stops
  BY <1>1, <1>2
<1>4. Min(Stops) \in Stops
  BY <1>3, LeastNumber, Zenon
<1>5. FirstOf(h, s[1], wanted) = IF Stops = {} THEN NULL ELSE W[Min(Stops)]
  BY Zenon DEF FirstOf, W
<1> QED
  BY <1>2, <1>3, <1>4, <1>5

LEMMA RingElements ==
  ASSUME NEW h, NEW s, IsRing(h, s)
  PROVE  Elements(h, s[1]) = Range(s) \ {s[1]}
<1> DEFINE W == Walk(h, s[1])
<1>1. Len(s) \in 1..Cardinality(Node) /\ Cardinality(Node) \in Nat
  BY RingFits, NodesFinite
<1>2. /\ DOMAIN W = 1..Cardinality(Node) + 1
      /\ \A k \in 1..Cardinality(Node) + 1 : W[k] \in Range(s)
      /\ \A k \in 1..Len(s) : W[k] = IF k = Len(s) THEN s[1] ELSE s[k + 1]
  BY WalkSteps, RingWalk
<1>3. DOMAIN s = 1..Len(s)
  BY LenProperties DEF IsRing
<1>4. Elements(h, s[1]) = Range(W) \ {s[1]}
  BY Zenon DEF Elements
<1> HIDE DEF W
<1>5. \A x \in Range(s) \ {s[1]} : x \in Range(W)
  <2> SUFFICES ASSUME NEW x \in Range(s) \ {s[1]} PROVE x \in Range(W)
    OBVIOUS
  <2>1. PICK i \in 1..Len(s) : x = s[i]
    BY <1>3 DEF Range
  <2>2. /\ i - 1 \in 1..Len(s) /\ i - 1 # Len(s) /\ i - 1 + 1 = i
        /\ i - 1 \in 1..Cardinality(Node) + 1
    BY <2>1, <1>1
  <2>3. W[i - 1] = x
    BY <2>1, <2>2, <1>2
  <2> QED
    BY <2>2, <2>3, <1>2 DEF Range
<1>6. \A x \in Range(W) : x \in Range(s)
  BY <1>2 DEF Range
<1> QED
  BY <1>4, <1>5, <1>6

LEMMA RingWellFormed ==
  ASSUME NEW h, NEW s, IsRing(h, s)
  PROVE  WellFormed(h, s[1])
<1>1. Len(s) \in Nat \ {0} /\ DOMAIN s = 1..Len(s)
  BY LenProperties DEF IsRing
<1>2. FirstOf(h, s[1], {}) = s[1]
  BY RingSearch
<1>3. \A x \in Range(s) : h.prev[h.next[x]] = x
  <2> SUFFICES ASSUME NEW i \in 1..Len(s) PROVE h.prev[h.next[s[i]]] = s[i]
    BY <1>1 DEF Range
  <2>n. PICK n : n = Len(s)
    OBVIOUS
  <2>1. i # n => i \in 1..n - 1
    BY <2>n, <1>1
  <2> QED
    BY <2>n, <2>1 DEF IsRing
<1>4. s[1] \in Range(s)
  BY <1>1 DEF Range
<1>5. \A x \in Elements(h, s[1]) \cup {s[1]} : x \in Range(s)
  BY <1>4, RingElements
<1> QED
  BY <1>2, <1>3, <1>5 DEF WellFormed

-----------------------------------------------------------------------------
(* Children lists.                                                         *)

\* No two of the nodes are one.
LEMMA Nodes ==
  /\ \A p \in Frame : ChildrenBlocked(p) \in Node /\ ChildrenUnblocked(p) \in Node
                    /\ Sibiling(p) \in Node
  /\ \A p, q : /\ ChildrenBlocked(p) = ChildrenBlocked(q) => p = q
               /\ ChildrenUnblocked(p) = ChildrenUnblocked(q) => p = q
               /\ Sibiling(p) = Sibiling(q) => p = q
               /\ ChildrenBlocked(p) # ChildrenUnblocked(q)
               /\ ChildrenBlocked(p) # Sibiling(q)
               /\ ChildrenUnblocked(p) # Sibiling(q)
  /\ \A p : Sibiling(p)[2] = p
BY NodeAssumption DEF ChildrenBlocked, ChildrenUnblocked, Sibiling

\* The list with this head is in good order and holds the processes in D.
Siblings(D) == {Sibiling(c) : c \in D}
ListOf(h, head, D) ==
  \E s : IsRing(h, s) /\ s[1] = head /\ Range(s) = {head} \cup Siblings(D)

IsHead(n) == \A c : n # Sibiling(c)

LEMMA ListKept ==
  ASSUME NEW h, NEW g, NEW head, NEW D, ListOf(h, head, D),
         \A m \in {head} \cup Siblings(D) : g.next[m] = h.next[m] /\ g.prev[m] = h.prev[m]
  PROVE  ListOf(g, head, D)
<1>1. PICK s : IsRing(h, s) /\ s[1] = head /\ Range(s) = {head} \cup Siblings(D)
  BY DEF ListOf
<1>2. IsRing(g, s)
  BY <1>1, RingKept
<1> QED
  BY <1>1, <1>2 DEF ListOf

LEMMA ListInit ==
  ASSUME NEW h, NEW head \in Node, h.next[head] = head, h.prev[head] = head
  PROVE  ListOf(h, head, {})
<1>1. IsRing(h, <<head>>) /\ Range(<<head>>) = {head}
  BY RingInit
<1>2. <<head>>[1] = head /\ Siblings({}) = {}
  BY DEF Siblings
<1> QED
  BY <1>1, <1>2 DEF ListOf

LEMMA ListAdd ==
  ASSUME NEW h \in Heap, NEW head, NEW D, ListOf(h, head, D), IsHead(head),
         NEW c \in Frame, c \notin D
  PROVE  LET g == ListAddTail(h, Sibiling(c), head)
         IN  /\ g \in Heap
             /\ ListOf(g, head, D \cup {c})
             /\ \A m \in Node \ ({head} \cup Siblings(D \cup {c})) :
                  g.next[m] = h.next[m] /\ g.prev[m] = h.prev[m]
<1>1. PICK s : IsRing(h, s) /\ s[1] = head /\ Range(s) = {head} \cup Siblings(D)
  BY DEF ListOf
<1>2. Sibiling(c) \in Node /\ Sibiling(c) \notin Range(s)
  BY <1>1, Nodes DEF IsHead, Siblings
<1>3. Siblings(D \cup {c}) = Siblings(D) \cup {Sibiling(c)}
  BY DEF Siblings
<1> DEFINE g == ListAddTail(h, Sibiling(c), s[1])
           r == Append(s, Sibiling(c))
<1>4. /\ g \in Heap /\ IsRing(g, r) /\ r[1] = s[1] /\ Range(r) = Range(s) \cup {Sibiling(c)}
      /\ \A m \in Node \ (Range(s) \cup {Sibiling(c)}) : g.next[m] = h.next[m] /\ g.prev[m] = h.prev[m]
  BY <1>1, <1>2, RingAdd
<1> HIDE DEF r
<1>5. ListOf(g, head, D \cup {c})
  <2> HIDE DEF g
  <2> QED
    BY <1>1, <1>3, <1>4 DEF ListOf
<1> QED
  BY <1>1, <1>3, <1>4, <1>5

LEMMA ListTake ==
  ASSUME NEW h \in Heap, NEW head, NEW D, ListOf(h, head, D), IsHead(head), NEW c \in D
  PROVE  LET g == ListDel(h, Sibiling(c))
         IN  /\ g \in Heap
             /\ ListOf(g, head, D \ {c})
             /\ \A m \in Node \ ({head} \cup Siblings(D)) :
                  g.next[m] = h.next[m] /\ g.prev[m] = h.prev[m]
<1>1. PICK s : IsRing(h, s) /\ s[1] = head /\ Range(s) = {head} \cup Siblings(D)
  BY DEF ListOf
<1>2. Sibiling(c) \in Range(s) /\ Sibiling(c) # s[1]
  BY <1>1 DEF IsHead, Siblings
<1>3. Siblings(D \ {c}) = Siblings(D) \ {Sibiling(c)}
  BY Nodes DEF Siblings
<1> DEFINE g == ListDel(h, Sibiling(c))
<1>4. /\ g \in Heap
      /\ \E r : IsRing(g, r) /\ r[1] = s[1] /\ Range(r) = Range(s) \ {Sibiling(c)}
      /\ \A m \in Node \ Range(s) : g.next[m] = h.next[m] /\ g.prev[m] = h.prev[m]
  BY <1>1, <1>2, RingDel
<1> HIDE DEF g
<1>5. ListOf(g, head, D \ {c})
  <2>1. ({head} \cup Siblings(D)) \ {Sibiling(c)} = {head} \cup Siblings(D \ {c})
    BY <1>1, <1>2, <1>3
  <2> QED
    BY <2>1, <1>1, <1>4 DEF ListOf
<1> QED
  BY <1>1, <1>4, <1>5 DEF g

LEMMA ListSearch ==
  ASSUME NEW h, NEW head, NEW D, ListOf(h, head, D), IsHead(head), NEW pid
  PROVE  /\ FirstOf(h, head, Named(pid)) \in Node
         /\ FirstOf(h, head, Named(pid)) = head \/ FirstOf(h, head, Named(pid)) \in Named(pid)
         /\ FirstOf(h, head, Named(pid)) \in Named(pid) => FirstOf(h, head, Named(pid)) \in Siblings(D)
<1>1. PICK s : IsRing(h, s) /\ s[1] = head /\ Range(s) = {head} \cup Siblings(D)
  BY DEF ListOf
<1>2. FirstOf(h, head, Named(pid)) \in Range(s) \cap (Named(pid) \cup {head})
  BY <1>1, RingSearch
<1>3. head \notin Named(pid)
  BY DEF IsHead, Named
<1>4. Range(s) \subseteq Node
  BY LenProperties, <1>1 DEF IsRing, Range
<1> QED
  BY <1>1, <1>2, <1>3, <1>4

\* What ChildrenListsAgree says of a list.
LEMMA ListAgrees ==
  ASSUME NEW h, NEW head, NEW D, ListOf(h, head, D), IsHead(head)
  PROVE  WellFormed(h, head) /\ Elements(h, head) = Siblings(D)
<1>1. PICK s : IsRing(h, s) /\ s[1] = head /\ Range(s) = {head} \cup Siblings(D)
  BY DEF ListOf
<1>2. head \notin Siblings(D)
  BY DEF IsHead, Siblings
<1> QED
  BY <1>1, <1>2, RingElements, RingWellFormed

-----------------------------------------------------------------------------
(* Types.                                                                  *)

LEMMA FreeIs ==
  /\ Free \subseteq Frame /\ IsFiniteSet(Free)
  /\ Cardinality(Free) > Others => Free # {}
<1>1. Free \subseteq Frame /\ IsFiniteSet(Frame)
  BY ProcTreeAssumption, FS_Subset DEF Free, Frame
<1>2. IsFiniteSet(Free)
  BY <1>1, FS_Subset
<1>3. Cardinality(Free) > Others => Free # {}
  BY ProcTreeAssumption, FS_EmptySet
<1> QED
  BY <1>1, <1>2, <1>3

LEMMA AllocPcbIsFree ==
  ASSUME Free # {}
  PROVE  AllocPcb \in Free /\ AllocPcb \in Frame \ (live \cup shared)
<1>1. Free \in SUBSET Nat /\ Free \subseteq Frame \ (live \cup shared)
  BY ProcTreeAssumption DEF Free, Frame
<1>2. Min(Free) \in Free
  BY <1>1, LeastNumber, Zenon
<1> QED
  BY <1>1, <1>2, Zenon DEF AllocPcb

LEMMA LowestOf ==
  ASSUME NEW S, NEW n PROVE Lowest(S, n) \subseteq S
BY DEF Lowest

\* What happens to the frames of F, and that nothing happens to others.
LEMMA OverwrittenIs ==
  ASSUME NEW field, NEW F, NEW with
  PROVE  /\ \A T : field \in [Frame -> T] /\ with \in T => Overwritten(field, F, with) \in [Frame -> T]
         /\ \A p \in Frame : p \notin F => Overwritten(field, F, with)[p] = field[p]
BY DEF Overwritten

LEMMA LinksOverwrittenIs ==
  ASSUME NEW h \in Heap, NEW F
  PROVE  LET g == LinksOverwritten(h, F)
         IN  /\ g \in Heap
             /\ \A m \in Node : m[2] \notin F => g.next[m] = h.next[m] /\ g.prev[m] = h.prev[m]
BY DEF Heap, LinksOverwritten

LEMMA LinksCopiedIs ==
  ASSUME NEW h \in Heap, NEW p \in Frame, NEW f
  PROVE  LET g == LinksCopied(h, p, f)
         IN  /\ g \in Heap
             /\ \A m \in Node : m[2] # f => g.next[m] = h.next[m] /\ g.prev[m] = h.prev[m]
<1>1. \A m \in Node : <<m[1], p>> \in Node
  BY NodeAssumption
<1> QED
  BY <1>1 DEF Heap, LinksCopied

LEMMA SchedNextType ==
  ASSUME NEW rq \in Seq(Task), SchedNext(rq)
  PROVE  RRTypeOK'
<1>1. rq # << >> => Head(rq) \in Task /\ Tail(rq) \in Seq(Task)
  BY HeadTailProperties
<1> QED
  BY <1>1, RRAssumption DEF SchedNext, RRTypeOK

LEMMA TickType ==
  ASSUME RRTypeOK, Tick
  PROVE  RRTypeOK'
<1>1. CASE NeedsSched(remaining_quantum - 1) /\ SchedNext(Append(readyqueue, cur))
  <2>1. Append(readyqueue, cur) \in Seq(Task)
    BY AppendProperties DEF RRTypeOK
  <2> QED
    BY <1>1, <2>1, SchedNextType
<1>2. CASE ~ NeedsSched(remaining_quantum - 1) /\ remaining_quantum' = remaining_quantum - 1
           /\ UNCHANGED <<cur, readyqueue>>
  BY <1>2, RRAssumption DEF RRTypeOK, NeedsSched
<1> QED
  BY <1>1, <1>2 DEF Tick, Schedule

LEMMA HeadsType ==
  ASSUME NEW h \in Heap, NEW p \in Frame
  PROVE  WithHeads(h, p) \in Heap
<1>1. InitListHead(h, ChildrenBlocked(p)) \in Heap
  BY Nodes, HeapInit
<1> QED
  BY <1>1, Nodes, HeapInit DEF WithHeads

LEMMA MoveType ==
  ASSUME NEW h \in Heap, NEW e \in Node, NEW head \in Node
  PROVE  MoveTo(h, e, head) \in Heap
<1>1. ListDel(h, e) \in Heap
  BY HeapDelType
<1> QED
  BY <1>1, HeapAddType DEF MoveTo

LEMMA TreeTypeInit == TreeInit => TreeTypeOK
<1> SUFFICES ASSUME TreeInit PROVE TreeTypeOK
  OBVIOUS
<1>1. NoLists \in Heap
  BY DEF NoLists, Heap
<1>2. InitTask \in Frame
  BY RRAssumption DEF Frame
<1>3. InitListHead(NoLists, Sibiling(InitTask)) \in Heap
  BY <1>1, <1>2, Nodes, HeapInit
<1>4. lists \in Heap
  BY <1>2, <1>3, HeadsType DEF TreeInit
<1>5. RRTypeOK
  BY RRSafeInit DEF TreeInit
<1>6. << >> \in Seq(Frame)
  BY EmptySeq
<1>7. 0 \in 0..MaxPid /\ 1 \in 1..MaxPid /\ 1 \in 0..MaxPid /\ 0 \in 0..MaxPending
  BY ProcTreeAssumption
<1>8. live \subseteq Frame /\ PID \in [Frame -> 0..MaxPid] /\ pidGlobal \in 1..MaxPid
  BY <1>2, <1>7 DEF TreeInit
<1>9. /\ parent \in [Frame -> Frame \cup {NULL}]
      /\ pending_unblocks \in [Frame -> 0..MaxPending]
  BY <1>7 DEF TreeInit
<1>10. blocked \in Seq(Frame) /\ kernel_stuck \in BOOLEAN
  BY <1>6 DEF TreeInit
<1>11. rest \in [Frame -> SUBSET Frame] /\ shared \subseteq Frame /\ lost \subseteq Frame
  <2>1. Lowest(Frame \ {InitTask}, Others) \subseteq Frame
    BY LowestOf
  <2> QED
    BY <2>1 DEF TreeInit
<1>12. once \subseteq Frame /\ reused \in BOOLEAN
  BY <1>2 DEF TreeInit
<1> QED
  BY <1>4, <1>5, <1>8, <1>9, <1>10, <1>11, <1>12 DEF TreeTypeOK, Heap

\* The node a search stopped at is that of a PCB.
LEMMA FoundIsPcb ==
  ASSUME NEW pid, NEW x \in Named(pid)
  PROVE  x[2] \in Frame /\ x = Sibiling(x[2]) /\ PID[x[2]] = pid /\ x \in Node
BY Nodes DEF Named

LEMMA TreeTypeStep ==
  ASSUME TreeTypeOK, [TreeNext]_treeVars
  PROVE  TreeTypeOK'
<1>q. /\ RRTypeOK /\ live \subseteq Frame
      /\ PID \in [Frame -> 0..MaxPid] /\ pidGlobal \in 1..MaxPid
      /\ parent \in [Frame -> Frame \cup {NULL}]
      /\ pending_unblocks \in [Frame -> 0..MaxPending]
      /\ lists \in Heap
      /\ blocked \in Seq(Frame)
      /\ kernel_stuck \in BOOLEAN
      /\ MaxPid \in Nat \ {0} /\ MaxPending \in Nat
      /\ 0 \in 0..MaxPid /\ 0 \in 0..MaxPending
  BY ProcTreeAssumption DEF TreeTypeOK, Heap
<1>f. /\ rest \in [Frame -> SUBSET Frame] /\ shared \subseteq Frame /\ lost \subseteq Frame
      /\ once \subseteq Frame /\ reused \in BOOLEAN
  BY DEF TreeTypeOK
<1>r. cur \in Task /\ readyqueue \in Seq(Task) /\ remaining_quantum \in 0..Quantum
  BY <1>q DEF RRTypeOK
<1>s. InUserMode => cur \in Frame
  BY <1>r DEF InUserMode, Frame
<1>u. UNCHANGED rrVars => RRTypeOK'
  BY <1>q DEF rrVars, RRTypeOK
<1>h. \A F : HandOut(F) => reused' \in BOOLEAN
  BY <1>f DEF HandOut
<1>k. UNCHANGED frameVars => /\ rest' \in [Frame -> SUBSET Frame]
                             /\ shared' \subseteq Frame /\ lost' \subseteq Frame
                             /\ once' \subseteq Frame /\ reused' \in BOOLEAN
  BY <1>f DEF frameVars
<1>o. ASSUME NEW F, Overwrite(F)
      PROVE  /\ lists' \in Heap /\ PID' \in [Frame -> 0..MaxPid]
             /\ parent' \in [Frame -> Frame \cup {NULL}]
             /\ pending_unblocks' \in [Frame -> 0..MaxPending]
  BY <1>o, <1>q, OverwrittenIs, LinksOverwrittenIs DEF Overwrite
<1>1. CASE UNCHANGED treeVars
  BY <1>1 DEF treeVars, rrVars, procVars, frameVars, TreeTypeOK, RRTypeOK
<1>2. CASE ClockInterrupt
  <2>1. RRTypeOK'
    BY <1>2, <1>q, TickType DEF ClockInterrupt
  <2> QED
    BY <2>1, <1>2, <1>k, <1>q DEF ClockInterrupt, procVars, TreeTypeOK, Heap
<1>3. CASE Fork
  <2>1. PICK child, more : child = AllocPcb /\ more = Lowest(Free \ {child}, Others)
    OBVIOUS
  <2>2. /\ InUserMode /\ Cardinality(Free) > Others /\ pidGlobal < MaxPid
        /\ HandOut({child} \cup more)
        /\ live' = live \cup {child}
        /\ rest' = [rest EXCEPT ![child] = more]
        /\ once' = once \cup {child}
        /\ pidGlobal' = pidGlobal + 1
        /\ PID' = [Overwritten(PID, more, 0) EXCEPT ![child] = pidGlobal + 1]
        /\ parent' = [Overwritten(parent, more, NULL) EXCEPT ![child] = cur]
        /\ pending_unblocks' = [Overwritten(pending_unblocks, more, 0) EXCEPT ![child] = 0]
        /\ lists' = ListAddTail(WithHeads(LinksOverwritten(lists, more), child),
                                Sibiling(child), ChildrenUnblocked(cur))
        /\ MakeReady(child)
        /\ UNCHANGED <<shared, lost, blocked, kernel_stuck>>
    BY <1>3, <2>1, Zenon DEF Fork
  <2>3. child \in Frame /\ more \subseteq Frame
    BY <2>1, <2>2, FreeIs, AllocPcbIsFree, LowestOf
  <2>4. pidGlobal' \in 1..MaxPid /\ pidGlobal + 1 \in 0..MaxPid
    BY <2>2, <1>q
  <2>5. lists' \in Heap
    <3>1. LinksOverwritten(lists, more) \in Heap
      BY <1>q, LinksOverwrittenIs
    <3>2. WithHeads(LinksOverwritten(lists, more), child) \in Heap
      BY <2>3, <3>1, HeadsType
    <3> QED
      BY <3>2, <2>2, <2>3, <1>s, Nodes, HeapAddType
  <2>6. RRTypeOK'
    <3>1. child \in Task
      BY <2>3 DEF Frame
    <3>2. Append(readyqueue, child) \in Seq(Task)
      BY <3>1, <1>r, AppendProperties
    <3> QED
      BY <3>2, <2>2, <1>r DEF MakeReady, RRTypeOK
  <2>7. /\ PID' \in [Frame -> 0..MaxPid] /\ parent' \in [Frame -> Frame \cup {NULL}]
        /\ pending_unblocks' \in [Frame -> 0..MaxPending]
    <3>1. /\ Overwritten(PID, more, 0) \in [Frame -> 0..MaxPid]
          /\ Overwritten(parent, more, NULL) \in [Frame -> Frame \cup {NULL}]
          /\ Overwritten(pending_unblocks, more, 0) \in [Frame -> 0..MaxPending]
      BY <1>q, OverwrittenIs
    <3> QED
      BY <3>1, <2>2, <2>3, <2>4, <1>q, <1>s
  <2>8. /\ live' \subseteq Frame /\ once' \subseteq Frame /\ rest' \in [Frame -> SUBSET Frame]
        /\ shared' \subseteq Frame /\ lost' \subseteq Frame /\ reused' \in BOOLEAN
    BY <2>2, <2>3, <1>q, <1>f, <1>h
  <2> QED
    BY <2>2, <2>4, <2>5, <2>6, <2>7, <2>8, <1>q DEF TreeTypeOK, Heap
<1>4. CASE ForkFails
  <2>1. PICK child, cleared : child = AllocPcb /\ cleared = Lowest(Free \ {child}, 2)
    OBVIOUS
  <2>2. /\ InUserMode /\ HandOut(Free) /\ Free # {}
        /\ lost' = lost \cup Lowest(Free \ {child}, 1)
        /\ PID' = [Overwritten(PID, cleared, 0) EXCEPT ![child] = PID[cur]]
        /\ parent' = [Overwritten(parent, cleared, NULL) EXCEPT ![child] = parent[cur]]
        /\ pending_unblocks' =
             [Overwritten(pending_unblocks, cleared, 0) EXCEPT ![child] = pending_unblocks[cur]]
        /\ lists' = LinksCopied(LinksOverwritten(lists, cleared), cur, child)
        /\ UNCHANGED <<rrVars, live, rest, shared, once, pidGlobal, blocked, kernel_stuck>>
    BY <1>4, <2>1, Zenon DEF ForkFails
  <2>3. child \in Frame /\ Lowest(Free \ {child}, 1) \subseteq Frame
    BY <2>1, <2>2, FreeIs, AllocPcbIsFree, LowestOf
  <2>4. lists' \in Heap
    <3>1. LinksOverwritten(lists, cleared) \in Heap
      BY <1>q, LinksOverwrittenIs
    <3> QED
      BY <3>1, <2>2, <1>s, LinksCopiedIs
  <2>5. /\ PID' \in [Frame -> 0..MaxPid] /\ parent' \in [Frame -> Frame \cup {NULL}]
        /\ pending_unblocks' \in [Frame -> 0..MaxPending]
    <3>1. /\ Overwritten(PID, cleared, 0) \in [Frame -> 0..MaxPid]
          /\ Overwritten(parent, cleared, NULL) \in [Frame -> Frame \cup {NULL}]
          /\ Overwritten(pending_unblocks, cleared, 0) \in [Frame -> 0..MaxPending]
      BY <1>q, OverwrittenIs
    <3> QED
      BY <3>1, <2>2, <2>3, <1>q, <1>s
  <2>6. RRTypeOK' /\ reused' \in BOOLEAN /\ lost' \subseteq Frame
    BY <2>2, <2>3, <1>f, <1>h, <1>u
  <2> QED
    BY <2>2, <2>4, <2>5, <2>6, <1>q, <1>f DEF TreeTypeOK, Heap
<1>5. CASE ShmatTakes
  <2>1. /\ Free # {} /\ shared' = shared \cup {AllocPcb} /\ HandOut({AllocPcb})
        /\ UNCHANGED <<rrVars, rest, lost, once, procVars>>
    BY <1>5 DEF ShmatTakes
  <2>2. shared' \subseteq Frame /\ reused' \in BOOLEAN /\ RRTypeOK'
    BY <2>1, <1>f, <1>h, <1>u, AllocPcbIsFree
  <2> QED
    BY <2>1, <2>2, <1>q, <1>f DEF procVars, TreeTypeOK, Heap
<1>6. ASSUME NEW f \in shared, PageStored(f)
       PROVE  TreeTypeOK'
  <2>1. Overwrite({f}) /\ UNCHANGED <<rrVars, frameVars, live, pidGlobal, blocked, kernel_stuck>>
    BY <1>6 DEF PageStored
  <2> QED
    BY <2>1, <1>o, <1>k, <1>u, <1>q DEF TreeTypeOK, Heap
<1>7. ASSUME NEW f \in shared, PageFreed(f)
       PROVE  TreeTypeOK'
  <2>1. /\ Overwrite({f}) /\ shared' = shared \ {f}
        /\ UNCHANGED <<rrVars, rest, lost, once, reused, live, pidGlobal, blocked, kernel_stuck>>
    BY <1>7 DEF PageFreed
  <2> QED
    BY <2>1, <1>o, <1>u, <1>q, <1>f DEF TreeTypeOK, Heap
<1>8. CASE Exit
  <2>1. RRTypeOK'
    BY <1>8, <1>r, SchedNextType DEF Exit
  <2>2. rest' \in [Frame -> SUBSET Frame]
    BY <1>8, <1>f DEF Exit
  <2> QED
    BY <2>1, <2>2, <1>8, <1>q, <1>f DEF Exit, TreeTypeOK, Heap
<1>9. CASE BlockNot
  <2>1. pending_unblocks' \in [Frame -> 0..MaxPending]
    BY <1>9, <1>q, <1>s DEF BlockNot
  <2> QED
    BY <2>1, <1>9, <1>q, <1>k, <1>u DEF BlockNot, TreeTypeOK, Heap
<1>10. CASE Block
  <2>1. RRTypeOK'
    BY <1>10, <1>r, SchedNextType DEF Block
  <2>2. lists' \in Heap
    <3>1. CASE parent[cur] = NULL
      BY <3>1, <1>10, <1>q DEF Block
    <3>2. CASE parent[cur] # NULL
      <4>1. Sibiling(cur) \in Node /\ ChildrenBlocked(parent[cur]) \in Node
        BY <3>2, <1>10, <1>q, <1>s, Nodes DEF Block
      <4> QED
        BY <4>1, <3>2, <1>10, <1>q, MoveType DEF Block
    <3> QED
      BY <3>1, <3>2
  <2>3. blocked' \in Seq(Frame)
    BY <1>10, <1>q, <1>s, AppendProperties DEF Block
  <2> QED
    BY <2>1, <2>2, <2>3, <1>10, <1>q, <1>k DEF Block, TreeTypeOK, Heap
<1>11. ASSUME NEW pid \in 1..MaxPid, UnblockWakes(pid)
      PROVE  TreeTypeOK'
  <2>1. PICK e : e = SearchBlocked(pid)
    OBVIOUS
  <2>2. /\ InUserMode /\ e \in Named(pid)
        /\ lists' = MoveTo(lists, e, ChildrenUnblocked(cur))
        /\ MoveToReady(e[2])
        /\ UNCHANGED <<frameVars, live, pidGlobal, PID, parent, pending_unblocks, kernel_stuck>>
    BY <1>11, <2>1 DEF UnblockWakes
  <2>3. e \in Node /\ e[2] \in Frame /\ e[2] \in Task
    BY <2>2, FoundIsPcb DEF Frame
  <2>4. lists' \in Heap
    BY <2>2, <2>3, <1>q, <1>s, Nodes, MoveType
  <2>5. RRTypeOK'
    <3>1. Append(RemoveFirst(readyqueue, e[2]), e[2]) \in Seq(Task)
      BY <2>3, <1>r, RemovedFirst, AppendProperties
    <3> QED
      BY <3>1, <2>2, <1>r DEF MoveToReady, RRTypeOK
  <2>6. blocked' \in Seq(Frame)
    BY <2>2, <1>q, RemovedFirst DEF MoveToReady
  <2> QED
    BY <2>2, <2>4, <2>5, <2>6, <1>q, <1>k DEF TreeTypeOK, Heap
<1>12. ASSUME NEW pid \in 1..MaxPid, UnblockCounts(pid)
      PROVE  TreeTypeOK'
  <2>1. PICK e : e = SearchUnblocked(pid)
    OBVIOUS
  <2>2. /\ e \in Named(pid) /\ pending_unblocks[e[2]] < MaxPending
        /\ pending_unblocks' = [pending_unblocks EXCEPT ![e[2]] = @ + 1]
        /\ UNCHANGED <<rrVars, frameVars, live, pidGlobal, PID, parent, lists, blocked, kernel_stuck>>
    BY <1>12, <2>1 DEF UnblockCounts
  <2>3. e[2] \in Frame
    BY <2>2, FoundIsPcb
  <2>4. pending_unblocks' \in [Frame -> 0..MaxPending]
    <3>1. PICK c : c = e[2]
      OBVIOUS
    <3>2. pending_unblocks[c] + 1 \in 0..MaxPending
      BY <2>2, <2>3, <3>1, <1>q
    <3> QED
      BY <3>1, <3>2, <2>2, <2>3, <1>q
  <2> QED
    BY <2>2, <2>4, <1>q, <1>k, <1>u DEF TreeTypeOK, Heap
<1>13. ASSUME NEW pid \in 1..MaxPid, UnblockLoops(pid)
      PROVE  TreeTypeOK'
  BY <1>13, <1>q, <1>k, <1>u DEF UnblockLoops, TreeTypeOK, Heap
<1> QED
  BY <1>1, <1>2, <1>3, <1>4, <1>5, <1>6, <1>7, <1>8, <1>9, <1>10, <1>11, <1>12, <1>13 DEF TreeNext

-----------------------------------------------------------------------------
(* The invariant.                                                          *)

\* Every process is in one place.
Placed ==
  /\ OnePlace
  /\ IsInjective(blocked)
  /\ Range(blocked) \cap (Queued \cup {cur}) = {}
  /\ live \cup {Idle} = Queued \cup {cur, Idle} \cup Range(blocked)

\* Processes and their parents have been PCBs, and a page has not.
Family ==
  /\ live \subseteq once
  /\ \A c \in once : parent[c] # NULL => parent[c] \in once
  /\ shared \cap once = {}

\* The lists of a process are in good order and hold its children.
ListsHold ==
  \A p \in once :
    /\ ListOf(lists, ChildrenBlocked(p), Children(p) \cap Range(blocked))
    /\ ListOf(lists, ChildrenUnblocked(p), Children(p) \ Range(blocked))

Intact == Placed /\ Family /\ ListsHold /\ ~ kernel_stuck

TreeInv == TreeTypeOK /\ (reused \/ Intact)

LEMMA Heads ==
  \A p : IsHead(ChildrenBlocked(p)) /\ IsHead(ChildrenUnblocked(p))
BY Nodes DEF IsHead

\* INIT_LIST_HEAD of both children lists.
LEMMA HeadsMade ==
  ASSUME NEW h \in Heap, NEW p \in Frame
  PROVE  LET g == WithHeads(h, p)
         IN  /\ g \in Heap
             /\ ListOf(g, ChildrenBlocked(p), {}) /\ ListOf(g, ChildrenUnblocked(p), {})
             /\ \A m \in Node \ {ChildrenBlocked(p), ChildrenUnblocked(p)} :
                  g.next[m] = h.next[m] /\ g.prev[m] = h.prev[m]
<1>n. PICK a, b : a = ChildrenBlocked(p) /\ b = ChildrenUnblocked(p)
  OBVIOUS
<1>1. a \in Node /\ b \in Node /\ a # b
  BY <1>n, Nodes
<1> DEFINE f == InitListHead(h, a)
           g == InitListHead(f, b)
<1>2. /\ f \in Heap /\ f.next[a] = a /\ f.prev[a] = a
      /\ \A m \in Node : m # a => f.next[m] = h.next[m] /\ f.prev[m] = h.prev[m]
  BY <1>1, HeapInit
<1> HIDE DEF f
<1>3. /\ g \in Heap /\ g.next[b] = b /\ g.prev[b] = b
      /\ \A m \in Node : m # b => g.next[m] = f.next[m] /\ g.prev[m] = f.prev[m]
  BY <1>1, <1>2, HeapInit
<1>4. WithHeads(h, p) = g
  BY <1>n DEF WithHeads, f
<1> HIDE DEF g
<1>5. ListOf(g, a, {}) /\ ListOf(g, b, {})
  BY <1>1, <1>2, <1>3, ListInit
<1>6. \A m \in Node \ {a, b} : g.next[m] = h.next[m] /\ g.prev[m] = h.prev[m]
  BY <1>2, <1>3
<1> QED
  BY <1>n, <1>3, <1>4, <1>5, <1>6

\* The heaps differ in these nodes only.
SameBut(g, h, S) == \A m \in Node \ S : g.next[m] = h.next[m] /\ g.prev[m] = h.prev[m]

\* list_del and list_add_tail of a child that goes from one list to another.
TwoLists(h, from, D, to, E) ==
  /\ h \in Heap /\ from \in Node /\ to \in Node
  /\ ListOf(h, from, D) /\ ListOf(h, to, E)
  /\ IsHead(from) /\ IsHead(to) /\ from # to
  /\ D \subseteq Frame /\ E \subseteq Frame /\ D \cap E = {}

LEMMA ListMove ==
  ASSUME NEW h, NEW from, NEW to, NEW D, NEW E, TwoLists(h, from, D, to, E),
         NEW c \in D
  PROVE  LET g == MoveTo(h, Sibiling(c), to)
         IN  /\ ListOf(g, from, D \ {c})
             /\ ListOf(g, to, E \cup {c})
             /\ SameBut(g, h, {from, to} \cup Siblings(D \cup E))
<1> USE DEF TwoLists
<1>c. c \in Frame
  OBVIOUS
<1> DEFINE f == ListDel(h, Sibiling(c))
           g == ListAddTail(f, Sibiling(c), to)
<1>1. /\ f \in Heap
      /\ ListOf(f, from, D \ {c})
      /\ \A m \in Node \ ({from} \cup Siblings(D)) : f.next[m] = h.next[m] /\ f.prev[m] = h.prev[m]
  BY ListTake
<1> HIDE DEF f
<1>2. \A x \in Frame : Sibiling(x) \in Node /\ Sibiling(x) # from /\ Sibiling(x) # to
  BY Nodes DEF IsHead
<1>3. \A x, y : Sibiling(x) = Sibiling(y) => x = y
  BY Nodes
<1>4. \A m \in {to} \cup Siblings(E) : m \in Node \ ({from} \cup Siblings(D))
  BY <1>2, <1>3 DEF Siblings
<1>5. ListOf(f, to, E)
  BY <1>1, <1>4, ListKept
<1>6. c \notin E
  OBVIOUS
<1>7. /\ ListOf(g, to, E \cup {c})
      /\ \A m \in Node \ ({to} \cup Siblings(E \cup {c})) :
           g.next[m] = f.next[m] /\ g.prev[m] = f.prev[m]
  <2>1. IsHead(to) /\ f \in Heap
    BY <1>1
  <2> HIDE DEF TwoLists, g
  <2>2. ASSUME NEW x \in Heap, NEW y, y = ListAddTail(x, Sibiling(c), to), ListOf(x, to, E)
        PROVE  /\ ListOf(y, to, E \cup {c})
               /\ \A m \in Node \ ({to} \cup Siblings(E \cup {c})) :
                    y.next[m] = x.next[m] /\ y.prev[m] = x.prev[m]
    BY <2>1, <2>2, <1>6, <1>c, ListAdd
  <2> QED
    BY <2>1, <2>2, <1>5 DEF g
<1>8. MoveTo(h, Sibiling(c), to) = g
  BY DEF MoveTo, f
<1> HIDE DEF g
<1>9. \A m \in {from} \cup Siblings(D \ {c}) : m \in Node \ ({to} \cup Siblings(E \cup {c}))
  BY <1>2, <1>3 DEF Siblings
<1>10. ListOf(g, from, D \ {c})
  BY <1>1, <1>7, <1>9, ListKept
<1>11. SameBut(g, h, {from, to} \cup Siblings(D \cup E))
  <2>1. \A m \in Node \ ({from, to} \cup Siblings(D \cup E)) :
          /\ m \in Node \ ({to} \cup Siblings(E \cup {c}))
          /\ m \in Node \ ({from} \cup Siblings(D))
    BY DEF Siblings
  <2> QED
    BY <2>1, <1>1, <1>7 DEF SameBut
<1> QED
  BY <1>7, <1>8, <1>10, <1>11

-----------------------------------------------------------------------------
(* Each action keeps what is intact.                                       *)

LEMMA WhoIsWhere ==
  ASSUME TreeTypeOK, Placed, Family
  PROVE  /\ cur \in Task /\ readyqueue \in Seq(Task) /\ IsInjective(readyqueue)
         /\ cur \notin Queued
         /\ blocked \in Seq(Frame) /\ IsInjective(blocked)
         /\ Range(blocked) \subseteq live /\ live \subseteq once /\ once \subseteq Frame
         /\ Frame \subseteq Task /\ Idle \notin Frame
         /\ InUserMode => cur \in live /\ cur \notin Range(blocked)
<1>1. cur \in Task /\ readyqueue \in Seq(Task) /\ blocked \in Seq(Frame)
  BY DEF TreeTypeOK, RRTypeOK
<1>2. Range(blocked) \subseteq Frame
  <2>1. DOMAIN blocked = 1..Len(blocked) /\ \A i \in 1..Len(blocked) : blocked[i] \in Frame
    BY <1>1, LenProperties, ElementOfSeq
  <2> QED
    BY <2>1 DEF Range
<1>3. once \subseteq Frame /\ Frame \subseteq Task /\ Idle \notin Frame
  BY DEF TreeTypeOK, Frame
<1>4. Range(blocked) \subseteq live
  BY <1>2, <1>3 DEF Placed
<1> QED
  BY <1>1, <1>3, <1>4 DEF Placed, OnePlace, Family, InUserMode

\* Lists and families do not change when nobody is blocked, woken or created.
LEMMA SameLists ==
  ASSUME Family, ListsHold, UNCHANGED <<once, shared, parent, lists>>,
         Range(blocked') = Range(blocked), live' \subseteq live
  PROVE  Family' /\ ListsHold'
<1>1. once' = once /\ \A p : Children(p)' = Children(p)
  BY DEF Children
<1>2. Family'
  BY <1>1 DEF Family
<1>3. Range(blocked)' = Range(blocked)
  OBVIOUS
<1>4. ListsHold'
  BY <1>1, <1>3 DEF ListsHold
<1> QED
  BY <1>2, <1>4

\* The lists are as they were in a heap that says the same of every node of a
\* frame that has been a PCB.
LEMMA OnceKept ==
  ASSUME ListsHold, once \subseteq Frame, NEW g,
         \A m \in Node : m[2] \in once => g.next[m] = lists.next[m] /\ g.prev[m] = lists.prev[m],
         NEW p \in once
  PROVE  /\ ListOf(g, ChildrenBlocked(p), Children(p) \cap Range(blocked))
         /\ ListOf(g, ChildrenUnblocked(p), Children(p) \ Range(blocked))
<1>b. PICK B : B = Range(blocked)
  OBVIOUS
<1>1. /\ ListOf(lists, ChildrenBlocked(p), Children(p) \cap B)
      /\ ListOf(lists, ChildrenUnblocked(p), Children(p) \ B)
  BY <1>b DEF ListsHold
<1>2. \A x \in once : /\ ChildrenBlocked(x)[2] = x /\ ChildrenUnblocked(x)[2] = x
                      /\ Sibiling(x)[2] = x
  BY DEF ChildrenBlocked, ChildrenUnblocked, Sibiling
<1>3. \A m \in {ChildrenBlocked(p), ChildrenUnblocked(p)} \cup Siblings(Children(p)) :
        m \in Node /\ m[2] \in once
  BY <1>2, Nodes DEF Siblings, Children
<1>4. \A X \in SUBSET Children(p) : Siblings(X) \subseteq Siblings(Children(p))
  BY DEF Siblings
<1>5. \A m \in {ChildrenBlocked(p), ChildrenUnblocked(p)} \cup Siblings(Children(p)) :
        g.next[m] = lists.next[m] /\ g.prev[m] = lists.prev[m]
  BY <1>3
<1>6. ListOf(g, ChildrenBlocked(p), Children(p) \cap B)
  BY <1>1, <1>4, <1>5, ListKept
<1>7. ListOf(g, ChildrenUnblocked(p), Children(p) \ B)
  BY <1>1, <1>4, <1>5, ListKept
<1> QED
  BY <1>6, <1>7, <1>b

\* Frames that have not been PCBs come and go, whatever is written in them.
LEMMA FramesKeep ==
  ASSUME TreeTypeOK, Intact,
         UNCHANGED <<rrVars, live, once, blocked, kernel_stuck>>,
         shared' \cap once = {},
         \A p \in once : parent'[p] = parent[p],
         \A m \in Node : m[2] \in once =>
           lists'.next[m] = lists.next[m] /\ lists'.prev[m] = lists.prev[m]
  PROVE  Intact'
<1> USE DEF Intact
<1>1. Placed'
  BY DEF rrVars, Placed, OnePlace, Queued
<1>2. once \subseteq Frame
  BY DEF TreeTypeOK
<1>3. \A p : Children(p)' = Children(p)
  BY DEF Children
<1>4. Family'
  BY DEF Family
<1>g. PICK g : g = lists'
  OBVIOUS
<1>5. \A p \in once : /\ ListOf(g, ChildrenBlocked(p), Children(p) \cap Range(blocked))
                      /\ ListOf(g, ChildrenUnblocked(p), Children(p) \ Range(blocked))
  BY <1>2, <1>g, OnceKept
<1>6. ListsHold'
  BY <1>3, <1>5, <1>g DEF ListsHold
<1> QED
  BY <1>1, <1>4, <1>6

\* The CPU goes to the next task, and those in its queue are the same.
LEMMA PlacedByNext ==
  ASSUME NEW rq \in Seq(Task), IsInjective(rq), SchedNext(rq),
         IsInjective(blocked'), Range(blocked') \cap (Range(rq) \cup {Idle}) = {},
         live' \cup {Idle} = Range(rq) \cup {Idle} \cup Range(blocked')
  PROVE  Placed'
<1>1. OnePlace' /\ Queued' \cup {cur', Idle} = Range(rq) \cup {Idle}
  BY SchedNextSafe
<1>2. Range(blocked') \cap (Queued' \cup {cur'}) = {}
  BY <1>1
<1>3. live' \cup {Idle} = Queued' \cup {cur', Idle} \cup Range(blocked')
  BY <1>1
<1> QED
  BY <1>1, <1>2, <1>3 DEF Placed

LEMMA ClockKeeps ==
  ASSUME TreeTypeOK, Intact, ClockInterrupt
  PROVE  Intact' /\ [RRNext]_rrVars
<1> USE DEF Intact
<1>1. Tick /\ UNCHANGED <<frameVars, procVars>>
  BY DEF ClockInterrupt
<1>2. UNCHANGED <<live, once, shared, parent, lists, blocked, kernel_stuck>>
  BY <1>1 DEF procVars, frameVars
<1>3. Family' /\ ListsHold'
  BY <1>2, SameLists
<1>4. Placed'
  <2>1. CASE SchedNext(Append(readyqueue, cur))
    <3>1. /\ Append(readyqueue, cur) \in Seq(Task) /\ IsInjective(Append(readyqueue, cur))
          /\ Range(Append(readyqueue, cur)) = Queued \cup {cur}
      BY WhoIsWhere, AppendFresh DEF Queued
    <3>2. Idle \notin Range(blocked)
      BY WhoIsWhere
    <3>3. /\ Range(blocked) \cap (Range(Append(readyqueue, cur)) \cup {Idle}) = {}
          /\ live \cup {Idle} = Range(Append(readyqueue, cur)) \cup {Idle} \cup Range(blocked)
      BY <3>1, <3>2 DEF Placed
    <3>4. IsInjective(blocked') /\ blocked' = blocked /\ live' = live
      BY <1>2 DEF Placed
    <3> QED
      BY <2>1, <3>1, <3>3, <3>4, PlacedByNext
  <2>2. CASE UNCHANGED <<cur, readyqueue>>
    BY <2>2, <1>2 DEF Placed, OnePlace, Queued
  <2> QED
    BY <1>1, <2>1, <2>2 DEF Tick, Schedule
<1> QED
  BY <1>1, <1>2, <1>3, <1>4 DEF RRNext

LEMMA ExitKeeps ==
  ASSUME TreeTypeOK, Intact, Exit
  PROVE  Intact' /\ [RRNext]_rrVars
<1> USE DEF Intact
<1>1. /\ InUserMode /\ live' = live \ {cur} /\ SchedNext(readyqueue)
      /\ UNCHANGED <<once, shared, parent, lists, blocked, kernel_stuck>>
  BY DEF Exit
<1>2. Family' /\ ListsHold'
  BY <1>1, SameLists
<1>3. /\ cur \in live /\ cur \notin Range(blocked) /\ cur # Idle /\ Idle \notin Range(blocked)
      /\ readyqueue \in Seq(Task) /\ IsInjective(readyqueue) /\ cur \notin Queued
  BY <1>1, WhoIsWhere
<1>4. Placed'
  <2>1. Range(blocked) \cap (Queued \cup {Idle}) = {}
    BY <1>3 DEF Placed
  <2>2. live' \cup {Idle} = Queued \cup {Idle} \cup Range(blocked)
    BY <1>1, <1>3 DEF Placed
  <2>3. IsInjective(blocked') /\ blocked' = blocked
    BY <1>1 DEF Placed
  <2> QED
    BY <1>1, <1>3, <2>1, <2>2, <2>3, PlacedByNext DEF Queued
<1>5. Leave
  BY <1>1, <1>3 DEF Leave
<1> QED
  BY <1>1, <1>2, <1>4, <1>5 DEF RRNext

\* The lists of the other processes, when q's lists are changed and their
\* children are not blocked or woken.
LEMMA OthersKept ==
  ASSUME TreeTypeOK, Placed, Family, ListsHold, NEW q \in Frame, NEW g,
         SameBut(g, lists, {ChildrenBlocked(q), ChildrenUnblocked(q)} \cup Siblings(Children(q))),
         NEW p \in once, p # q
  PROVE  /\ ListOf(g, ChildrenBlocked(p), Children(p) \cap Range(blocked))
         /\ ListOf(g, ChildrenUnblocked(p), Children(p) \ Range(blocked))
<1>1. p \in Frame /\ Children(p) \cap Children(q) = {} /\ Children(p) \subseteq Frame
  BY WhoIsWhere DEF Children
<1>2. \A m \in {ChildrenBlocked(p), ChildrenUnblocked(p)} \cup Siblings(Children(p)) :
        m \in Node \ ({ChildrenBlocked(q), ChildrenUnblocked(q)} \cup Siblings(Children(q)))
  BY <1>1, Nodes DEF Siblings
<1>3. \A X \in SUBSET Children(p) : Siblings(X) \subseteq Siblings(Children(p))
  BY DEF Siblings
<1>4. /\ ListOf(lists, ChildrenBlocked(p), Children(p) \cap Range(blocked))
      /\ ListOf(lists, ChildrenUnblocked(p), Children(p) \ Range(blocked))
  BY DEF ListsHold
<1>5. \A m \in {ChildrenBlocked(p), ChildrenUnblocked(p)} \cup Siblings(Children(p)) :
        g.next[m] = lists.next[m] /\ g.prev[m] = lists.prev[m]
  BY <1>2 DEF SameBut
<1>6. ListOf(g, ChildrenBlocked(p), Children(p) \cap Range(blocked))
  BY <1>3, <1>4, <1>5, ListKept
<1>7. ListOf(g, ChildrenUnblocked(p), Children(p) \ Range(blocked))
  BY <1>3, <1>4, <1>5, ListKept
<1> QED
  BY <1>6, <1>7

LEMMA BlockKeeps ==
  ASSUME TreeTypeOK, Intact, Block
  PROVE  /\ Intact' /\ [RRNext]_rrVars
         /\ Range(blocked') = Range(blocked) \cup {cur}
<1> USE DEF Intact
<1>1. /\ InUserMode
      /\ lists' = IF parent[cur] = NULL THEN lists
                  ELSE MoveTo(lists, Sibiling(cur), ChildrenBlocked(parent[cur]))
      /\ blocked' = Append(blocked, cur)
      /\ SchedNext(readyqueue)
      /\ UNCHANGED <<live, once, shared, parent, kernel_stuck>>
  BY DEF Block, frameVars
<1>2. /\ cur \in live /\ cur \in once /\ cur \in Frame /\ cur # Idle
      /\ cur \notin Range(blocked) /\ Idle \notin Range(blocked)
      /\ readyqueue \in Seq(Task) /\ IsInjective(readyqueue) /\ cur \notin Queued
      /\ blocked \in Seq(Frame) /\ IsInjective(blocked) /\ Range(blocked) \subseteq Frame
      /\ once \subseteq Frame
  BY <1>1, WhoIsWhere
<1>3. IsInjective(blocked') /\ Range(blocked') = Range(blocked) \cup {cur}
  BY <1>1, <1>2, AppendFresh
<1>4. Placed'
  <2>1. Range(blocked') \cap (Queued \cup {Idle}) = {}
    BY <1>2, <1>3 DEF Placed
  <2>2. live' \cup {Idle} = Queued \cup {Idle} \cup Range(blocked')
    BY <1>1, <1>2, <1>3 DEF Placed
  <2> QED
    BY <1>1, <1>2, <1>3, <2>1, <2>2, PlacedByNext DEF Queued
<1>5. once' = once /\ \A p : Children(p)' = Children(p)
  BY <1>1 DEF Children
<1>6. Family'
  BY <1>1, <1>5 DEF Family
<1>7. Range(blocked)' = Range(blocked) \cup {cur}
  BY <1>3
<1>8. ListsHold'
  <2>1. CASE parent[cur] = NULL
    <3>1. \A p \in once : cur \notin Children(p)
      BY <2>1, WhoIsWhere, ProcTreeAssumption DEF Children
    <3>2. \A p \in once : /\ Children(p) \cap (Range(blocked) \cup {cur}) = Children(p) \cap Range(blocked)
                              /\ Children(p) \ (Range(blocked) \cup {cur}) = Children(p) \ Range(blocked)
      BY <3>1
    <3>3. lists' = lists
      BY <1>1, <2>1
    <3> QED
      BY <1>5, <1>7, <3>2, <3>3 DEF ListsHold
  <2>2. CASE parent[cur] # NULL
    <3>1. PICK q : q = parent[cur]
      OBVIOUS
    <3>2. q \in once /\ q \in Frame /\ cur \in Children(q)
      BY <1>2, <2>2, <3>1, WhoIsWhere DEF Family, Children
    <3>3. PICK B : B = Range(blocked)
      OBVIOUS
    <3> DEFINE D == Children(q) \ B
               E == Children(q) \cap B
               from == ChildrenUnblocked(q)
               to == ChildrenBlocked(q)
    <3>4. /\ ListOf(lists, from, D) /\ ListOf(lists, to, E)
          /\ D \subseteq Frame /\ E \subseteq Frame /\ D \cap E = {} /\ cur \in D
      BY <1>2, <3>2, <3>3 DEF ListsHold, Children
    <3>5. /\ from \in Node /\ to \in Node /\ IsHead(from) /\ IsHead(to) /\ from # to
      BY <3>2, Nodes, Heads
    <3>6. lists \in Heap /\ lists' = MoveTo(lists, Sibiling(cur), to)
      BY <1>1, <2>2, <3>1 DEF TreeTypeOK, Heap
    <3> HIDE DEF D, E, from, to
    <3>t. TwoLists(lists, from, D, to, E) /\ cur \in D
      BY <3>4, <3>5, <3>6 DEF TwoLists
    <3> DEFINE g == MoveTo(lists, Sibiling(cur), to)
    <3>g. /\ ListOf(g, from, D \ {cur})
          /\ ListOf(g, to, E \cup {cur})
          /\ SameBut(g, lists, {from, to} \cup Siblings(D \cup E))
      BY <3>t, ListMove
    <3> HIDE DEF g
    <3>7. /\ ListOf(lists', from, D \ {cur})
          /\ ListOf(lists', to, E \cup {cur})
          /\ SameBut(lists', lists, {from, to} \cup Siblings(D \cup E))
      BY <3>g, <3>6 DEF g
    <3>8. D \cup E = Children(q)
      BY DEF D, E
    <3>9. ASSUME NEW p \in once
          PROVE  /\ ListOf(lists', ChildrenBlocked(p), Children(p) \cap (B \cup {cur}))
                 /\ ListOf(lists', ChildrenUnblocked(p), Children(p) \ (B \cup {cur}))
      <4>1. CASE p = q
        <5>1. /\ Children(p) \cap (B \cup {cur}) = E \cup {cur}
              /\ Children(p) \ (B \cup {cur}) = D \ {cur}
          BY <4>1, <3>2, <3>3, <1>2 DEF D, E
        <5> QED
          BY <4>1, <5>1, <3>7 DEF from, to
      <4>2. CASE p # q
        <5>1. cur \notin Children(p)
          BY <4>2, <3>1 DEF Children
        <5>2. /\ Children(p) \cap (B \cup {cur}) = Children(p) \cap B
              /\ Children(p) \ (B \cup {cur}) = Children(p) \ B
          BY <5>1
        <5>3. SameBut(lists', lists, {ChildrenBlocked(q), ChildrenUnblocked(q)} \cup Siblings(Children(q)))
          <6>1. {from, to} \cup Siblings(D \cup E)
                  = {ChildrenBlocked(q), ChildrenUnblocked(q)} \cup Siblings(Children(q))
            BY <3>8 DEF from, to
          <6> QED
            BY <6>1, <3>7
        <5> QED
          BY <4>2, <5>2, <5>3, <3>2, <3>3, OthersKept
      <4> QED
        BY <4>1, <4>2
    <3> QED
      BY <1>5, <1>7, <3>3, <3>9 DEF ListsHold
  <2> QED
    BY <2>1, <2>2
<1>9. Leave
  BY <1>1, <1>2 DEF Leave
<1> QED
  BY <1>1, <1>3, <1>4, <1>6, <1>8, <1>9 DEF RRNext

\* A search of a list of cur ends: at the head, or at a child in the list.
LEMMA SearchesEnd ==
  ASSUME TreeTypeOK, Intact, InUserMode, NEW pid
  PROVE  /\ SearchBlocked(pid) # NULL /\ SearchUnblocked(pid) # NULL
         /\ SearchBlocked(pid) \in Named(pid)
              => SearchBlocked(pid)[2] \in Children(cur) \cap Range(blocked)
         /\ SearchUnblocked(pid) \in Named(pid)
              => SearchUnblocked(pid)[2] \in Children(cur) \ Range(blocked)
<1>1. cur \in once
  BY WhoIsWhere DEF Intact
<1>b. PICK B : B = Children(cur) \cap Range(blocked)
  OBVIOUS
<1>u. PICK U : U = Children(cur) \ Range(blocked)
  OBVIOUS
<1>2. /\ ListOf(lists, ChildrenBlocked(cur), B) /\ IsHead(ChildrenBlocked(cur))
      /\ ListOf(lists, ChildrenUnblocked(cur), U) /\ IsHead(ChildrenUnblocked(cur))
  BY <1>1, <1>b, <1>u, Heads DEF Intact, ListsHold
<1>3. /\ SearchBlocked(pid) \in Node
      /\ SearchBlocked(pid) \in Named(pid) => SearchBlocked(pid) \in Siblings(B)
  BY <1>2, ListSearch DEF SearchBlocked
<1>4. /\ SearchUnblocked(pid) \in Node
      /\ SearchUnblocked(pid) \in Named(pid) => SearchUnblocked(pid) \in Siblings(U)
  BY <1>2, ListSearch DEF SearchUnblocked
<1>5. \A X, x : x \in Siblings(X) => x[2] \in X
  BY Nodes DEF Siblings
<1> QED
  BY <1>3, <1>4, <1>5, <1>b, <1>u, ListHeapAssumption

LEMMA WakeKeeps ==
  ASSUME TreeTypeOK, Intact, NEW pid, UnblockWakes(pid)
  PROVE  /\ Intact' /\ [RRNext]_rrVars
         /\ \E c \in Children(cur) \cap Range(blocked) : Range(blocked') = Range(blocked) \ {c}
<1> USE DEF Intact
<1>e. PICK e : e = SearchBlocked(pid)
  OBVIOUS
<1>c. PICK c : c = e[2]
  OBVIOUS
<1>1. /\ InUserMode /\ e \in Named(pid)
      /\ lists' = MoveTo(lists, e, ChildrenUnblocked(cur))
      /\ readyqueue' = Append(RemoveFirst(readyqueue, c), c)
      /\ blocked' = RemoveFirst(blocked, c)
      /\ UNCHANGED <<cur, remaining_quantum, live, once, shared, parent, kernel_stuck>>
  BY <1>e, <1>c DEF UnblockWakes, MoveToReady, frameVars
<1>2. e = Sibiling(c) /\ c \in Frame
  BY <1>1, <1>c, FoundIsPcb
<1>3. c \in Children(cur) \cap Range(blocked)
  BY <1>e, <1>c, <1>1, SearchesEnd
<1>4. /\ cur \in live /\ cur \in once /\ cur \in Frame
      /\ readyqueue \in Seq(Task) /\ IsInjective(readyqueue)
      /\ blocked \in Seq(Frame) /\ IsInjective(blocked)
      /\ Range(blocked) \subseteq Frame /\ Frame \subseteq Task /\ Idle \notin Frame
      /\ cur \notin Range(blocked) /\ once \subseteq Frame
  BY <1>1, WhoIsWhere
<1>5. c \in Task /\ c \notin Queued \cup {cur, Idle} /\ c \notin Range(readyqueue)
  BY <1>3, <1>4 DEF Placed, Queued
<1>6. readyqueue' = Append(readyqueue, c)
  BY <1>1, <1>4, <1>5, RemovedFirst
<1>7. IsInjective(readyqueue') /\ Range(readyqueue') = Range(readyqueue) \cup {c}
  BY <1>4, <1>5, <1>6, AppendFresh
<1>8. IsInjective(blocked') /\ Range(blocked') = Range(blocked) \ {c}
  BY <1>1, <1>4, RemovedFirst
<1>9. Queued' = Queued \cup {c}
  BY <1>7 DEF Queued
<1>10. Placed'
  <2>1. OnePlace'
    BY <1>1, <1>5, <1>7, <1>9 DEF Placed, OnePlace
  <2>2. Range(blocked') \cap (Queued' \cup {cur'}) = {}
    BY <1>1, <1>8, <1>9 DEF Placed
  <2>3. live' \cup {Idle} = Queued' \cup {cur', Idle} \cup Range(blocked')
    BY <1>1, <1>3, <1>8, <1>9 DEF Placed
  <2> QED
    BY <2>1, <2>2, <2>3, <1>8 DEF Placed
<1>11. once' = once /\ \A p : Children(p)' = Children(p)
  BY <1>1 DEF Children
<1>12. Family'
  BY <1>1, <1>11 DEF Family
<1>13. Range(blocked)' = Range(blocked) \ {c}
  BY <1>8
<1>14. ListsHold'
  <2>1. PICK B : B = Range(blocked)
    OBVIOUS
  <2>2. PICK q : q = cur
    OBVIOUS
  <2> DEFINE D == Children(q) \cap B
             E == Children(q) \ B
             from == ChildrenBlocked(q)
             to == ChildrenUnblocked(q)
             g == MoveTo(lists, Sibiling(c), to)
  <2>3. /\ ListOf(lists, from, D) /\ ListOf(lists, to, E)
        /\ D \subseteq Frame /\ E \subseteq Frame /\ D \cap E = {} /\ c \in D
    BY <1>3, <1>4, <2>1, <2>2 DEF ListsHold, Children
  <2>4. from \in Node /\ to \in Node /\ IsHead(from) /\ IsHead(to) /\ from # to
    BY <1>4, <2>2, Nodes, Heads
  <2>5. lists \in Heap /\ lists' = g
    BY <1>1, <1>2, <2>2 DEF TreeTypeOK, Heap
  <2>6. D \cup E = Children(q)
    OBVIOUS
  <2> HIDE DEF D, E, from, to, g
  <2>t. TwoLists(lists, from, D, to, E) /\ c \in D
    BY <2>3, <2>4, <2>5 DEF TwoLists
  <2>7. /\ ListOf(g, from, D \ {c})
        /\ ListOf(g, to, E \cup {c})
        /\ SameBut(g, lists, {from, to} \cup Siblings(D \cup E))
    BY <2>t, ListMove DEF g
  <2>8. SameBut(g, lists, {ChildrenBlocked(q), ChildrenUnblocked(q)} \cup Siblings(Children(q)))
    <3>1. {from, to} \cup Siblings(D \cup E)
            = {ChildrenBlocked(q), ChildrenUnblocked(q)} \cup Siblings(Children(q))
      BY <2>6 DEF from, to
    <3> QED
      BY <3>1, <2>7
  <2>9. ASSUME NEW p \in once
        PROVE  /\ ListOf(g, ChildrenBlocked(p), Children(p) \cap (B \ {c}))
               /\ ListOf(g, ChildrenUnblocked(p), Children(p) \ (B \ {c}))
    <3>1. CASE p = q
      <4>1. /\ Children(p) \cap (B \ {c}) = D \ {c}
            /\ Children(p) \ (B \ {c}) = E \cup {c}
        BY <3>1, <2>1, <2>2, <1>3 DEF D, E
      <4> QED
        BY <3>1, <4>1, <2>7 DEF from, to
    <3>2. CASE p # q
      <4>1. c \notin Children(p)
        BY <3>2, <2>2, <1>3 DEF Children
      <4>2. /\ Children(p) \cap (B \ {c}) = Children(p) \cap B
            /\ Children(p) \ (B \ {c}) = Children(p) \ B
        BY <4>1
      <4> QED
        BY <3>2, <4>2, <2>1, <2>2, <2>8, <1>4, OthersKept
    <3> QED
      BY <3>1, <3>2
  <2> QED
    BY <1>11, <1>13, <2>1, <2>5, <2>9 DEF ListsHold
<1>15. Arrive(c)
  BY <1>1, <1>5, <1>6 DEF Arrive, MakeReady
<1> QED
  BY <1>1, <1>3, <1>5, <1>8, <1>10, <1>12, <1>14, <1>15 DEF RRNext

LEMMA ForkKeeps ==
  ASSUME TreeTypeOK, Intact, Fork, ~ reused'
  PROVE  /\ Intact' /\ [RRNext]_rrVars
         /\ AllocPcb \notin once
         /\ Lowest(Free \ {AllocPcb}, Others) \cap once = {}
<1> USE DEF Intact
<1>c. PICK child, more : child = AllocPcb /\ more = Lowest(Free \ {child}, Others)
  OBVIOUS
<1>1. /\ InUserMode /\ Cardinality(Free) > Others
      /\ HandOut({child} \cup more)
      /\ live' = live \cup {child}
      /\ once' = once \cup {child}
      /\ parent' = [Overwritten(parent, more, NULL) EXCEPT ![child] = cur]
      /\ lists' = ListAddTail(WithHeads(LinksOverwritten(lists, more), child),
                              Sibiling(child), ChildrenUnblocked(cur))
      /\ MakeReady(child)
      /\ UNCHANGED <<shared, blocked, kernel_stuck>>
  BY <1>c, Zenon DEF Fork
<1>2. child \in Frame /\ child \notin shared
  BY <1>c, <1>1, FreeIs, AllocPcbIsFree
<1>3. child \notin once /\ more \cap once = {} /\ once' = once \cup {child}
  BY <1>1 DEF HandOut
<1>4. /\ cur \in live /\ cur \in once /\ cur \in Frame /\ cur # child
      /\ readyqueue \in Seq(Task) /\ IsInjective(readyqueue)
      /\ Range(blocked) \subseteq live /\ Frame \subseteq Task /\ Idle \notin Frame
      /\ child \notin live /\ child \notin Range(blocked) /\ child \in Task
      /\ once \subseteq Frame
  BY <1>1, <1>2, <1>3, WhoIsWhere
<1>5. child \notin Queued \cup {cur, Idle} /\ child \notin Range(readyqueue)
  BY <1>2, <1>4 DEF Placed, Queued
<1>6. IsInjective(readyqueue') /\ Range(readyqueue') = Range(readyqueue) \cup {child}
  BY <1>1, <1>4, <1>5, AppendFresh DEF MakeReady
<1>7. Queued' = Queued \cup {child} /\ cur' = cur
  BY <1>1, <1>6 DEF Queued, MakeReady
<1>8. Placed'
  <2>1. OnePlace'
    BY <1>5, <1>6, <1>7 DEF Placed, OnePlace
  <2>2. Range(blocked') \cap (Queued' \cup {cur'}) = {}
    BY <1>1, <1>4, <1>7 DEF Placed
  <2>3. live' \cup {Idle} = Queued' \cup {cur', Idle} \cup Range(blocked')
    BY <1>1, <1>7 DEF Placed
  <2>4. IsInjective(blocked')
    BY <1>1 DEF Placed
  <2> QED
    BY <2>1, <2>2, <2>3, <2>4 DEF Placed
<1>9. \A x \in once' : parent'[x] = IF x = child THEN cur ELSE parent[x]
  BY <1>1, <1>2, <1>3, <1>4 DEF Overwritten
<1>10. Family'
  <2>1. live' \subseteq once' /\ shared' \cap once' = {}
    BY <1>1, <1>2, <1>3 DEF Family
  <2>2. \A x \in once' : parent'[x] # NULL => parent'[x] \in once'
    BY <1>3, <1>4, <1>9 DEF Family
  <2> QED
    BY <2>1, <2>2 DEF Family
<1>11. \A p : Children(p)' = {x \in once' : parent'[x] = p}
  BY DEF Children
<1>q. PICK q : q = cur
  OBVIOUS
<1>12. /\ \A p \in once : p # cur => Children(p)' = Children(p)
       /\ Children(q)' = Children(q) \cup {child}
       /\ Children(child)' = {}
       /\ \A p \in once : child \notin Children(p)
  <2>1. \A x \in once : parent[x] # child
    BY <1>3, <1>2, ProcTreeAssumption DEF Family, Frame
  <2>3. \A p \in once : child \notin Children(p)
    BY <1>3 DEF Children
  <2>4. \A p \in once : p # cur => Children(p)' = Children(p)
    BY <1>3, <1>9, <1>11 DEF Children
  <2>5. Children(q)' = Children(q) \cup {child}
    <3>1. Children(q)' = {x \in once' : parent'[x] = q}
      BY <1>11
    <3> QED
      BY <3>1, <1>q, <1>3, <1>9 DEF Children
  <2>6. Children(child)' = {}
    BY <2>1, <1>3, <1>4, <1>9, <1>11
  <2> QED
    BY <2>3, <2>4, <2>5, <2>6
<1>b. PICK B : B = Range(blocked)
  OBVIOUS
<1>13. Range(blocked)' = B
  BY <1>1, <1>b
<1>o. PICK old : old = LinksOverwritten(lists, more)
  OBVIOUS
<1>14. /\ old \in Heap
       /\ \A m \in Node : m[2] \in once =>
            old.next[m] = lists.next[m] /\ old.prev[m] = lists.prev[m]
  <2>1. lists \in Heap
    BY DEF TreeTypeOK, Heap
  <2> QED
    BY <2>1, <1>3, <1>o, LinksOverwrittenIs
<1> DEFINE f == WithHeads(old, child)
           g == ListAddTail(f, Sibiling(child), ChildrenUnblocked(cur))
<1>15. /\ f \in Heap
       /\ ListOf(f, ChildrenBlocked(child), {}) /\ ListOf(f, ChildrenUnblocked(child), {})
       /\ \A m \in Node \ {ChildrenBlocked(child), ChildrenUnblocked(child)} :
            f.next[m] = old.next[m] /\ f.prev[m] = old.prev[m]
  BY <1>2, <1>14, HeadsMade
<1>g. lists' = g
  BY <1>1, <1>o
<1> HIDE DEF f
<1>16. ASSUME NEW p \in once
       PROVE  /\ ListOf(f, ChildrenBlocked(p), Children(p) \cap B)
              /\ ListOf(f, ChildrenUnblocked(p), Children(p) \ B)
  <2>1. \A m \in Node : m[2] \in once => m # ChildrenBlocked(child) /\ m # ChildrenUnblocked(child)
    BY <1>3 DEF ChildrenBlocked, ChildrenUnblocked
  <2>2. \A m \in Node : m[2] \in once => f.next[m] = lists.next[m] /\ f.prev[m] = lists.prev[m]
    BY <2>1, <1>14, <1>15
  <2> QED
    BY <2>2, <1>4, <1>b, OnceKept
<1> DEFINE D == Children(cur) \ B
           Written == {ChildrenUnblocked(cur)} \cup Siblings(D \cup {child})
<1>17. /\ ListOf(g, ChildrenUnblocked(cur), D \cup {child})
       /\ \A m \in Node \ Written : g.next[m] = f.next[m] /\ g.prev[m] = f.prev[m]
  <2>1. ListOf(f, ChildrenUnblocked(cur), D) /\ IsHead(ChildrenUnblocked(cur))
    BY <1>4, <1>16, Heads
  <2>2. child \notin D
    BY <1>4, <1>12
  <2> HIDE DEF D
  <2> QED
    BY <1>2, <1>15, <2>1, <2>2, ListAdd
<1> HIDE DEF g
<1>18. ASSUME NEW p \in Frame
       PROVE  /\ ChildrenBlocked(p) \in Node \ Written
              /\ p # cur => ChildrenUnblocked(p) \in Node \ Written
              /\ \A x \in Frame : x \notin D \cup {child} => Sibiling(x) \in Node \ Written
  BY Nodes DEF Siblings
<1>d. D = Children(cur) \ B
  OBVIOUS
<1> HIDE DEF D, Written
<1>19. ASSUME NEW p \in Frame, NEW X, ListOf(f, ChildrenBlocked(p), X), X \subseteq Frame,
              X \cap (D \cup {child}) = {}
       PROVE  ListOf(g, ChildrenBlocked(p), X)
  <2>1. \A m \in {ChildrenBlocked(p)} \cup Siblings(X) : m \in Node \ Written
    BY <1>18, <1>19 DEF Siblings
  <2> QED
    BY <2>1, <1>17, <1>19, ListKept
<1>20. ASSUME NEW p \in Frame, p # cur, NEW X, ListOf(f, ChildrenUnblocked(p), X), X \subseteq Frame,
              X \cap (D \cup {child}) = {}
       PROVE  ListOf(g, ChildrenUnblocked(p), X)
  <2>1. \A m \in {ChildrenUnblocked(p)} \cup Siblings(X) : m \in Node \ Written
    BY <1>18, <1>20 DEF Siblings
  <2> QED
    BY <2>1, <1>17, <1>20, ListKept
<1>21. ASSUME NEW p \in once \cup {child}
       PROVE  /\ ListOf(g, ChildrenBlocked(p), Children(p)' \cap B)
              /\ ListOf(g, ChildrenUnblocked(p), Children(p)' \ B)
  <2>1. CASE p = child
    <3>1. /\ ListOf(g, ChildrenBlocked(child), {}) /\ ListOf(g, ChildrenUnblocked(child), {})
      BY <1>2, <1>4, <1>15, <1>19, <1>20
    <3>2. Children(p)' \cap B = {} /\ Children(p)' \ B = {}
      BY <2>1, <1>12
    <3> QED
      BY <2>1, <3>1, <3>2
  <2>2. CASE p = cur
    <3>1. Children(p)' \cap B = Children(cur) \cap B /\ Children(p)' \ B = D \cup {child}
      <4>1. p = q
        BY <2>2, <1>q
      <4>2. Children(p)' = Children(p) \cup {child}
        BY <4>1, <1>12
      <4> QED
        BY <4>2, <2>2, <1>4, <1>b, <1>d
    <3>2. /\ Children(cur) \cap B \subseteq Frame
          /\ (Children(cur) \cap B) \cap (D \cup {child}) = {}
      BY <1>4, <1>12, <1>d DEF Children
    <3>3. ListOf(f, ChildrenBlocked(cur), Children(cur) \cap B)
      BY <1>4, <1>16
    <3>4. ListOf(g, ChildrenBlocked(cur), Children(cur) \cap B)
      BY <3>2, <3>3, <1>4, <1>19
    <3> QED
      BY <2>2, <3>1, <3>4, <1>17
  <2>3. CASE p \in once /\ p # cur
    <3>1. Children(p)' = Children(p) /\ child \notin Children(p) /\ p \in Frame
      BY <2>3, <1>4, <1>12
    <3>2. /\ Children(p) \cap B \subseteq Frame /\ Children(p) \ B \subseteq Frame
          /\ (Children(p) \cap B) \cap (D \cup {child}) = {}
          /\ (Children(p) \ B) \cap (D \cup {child}) = {}
      BY <2>3, <3>1, <1>4, <1>d DEF Children
    <3>3. /\ ListOf(f, ChildrenBlocked(p), Children(p) \cap B)
          /\ ListOf(f, ChildrenUnblocked(p), Children(p) \ B)
      BY <2>3, <1>16
    <3>4. ListOf(g, ChildrenBlocked(p), Children(p) \cap B)
      BY <3>1, <3>2, <3>3, <1>19
    <3>5. ListOf(g, ChildrenUnblocked(p), Children(p) \ B)
      BY <2>3, <3>1, <3>2, <3>3, <1>20
    <3> QED
      BY <3>1, <3>4, <3>5
  <2> QED
    BY <2>1, <2>2, <2>3
<1>22. ListsHold'
  BY <1>3, <1>13, <1>21, <1>g DEF ListsHold
<1>23. Arrive(child)
  BY <1>1, <1>5 DEF Arrive
<1> QED
  BY <1>c, <1>1, <1>3, <1>4, <1>8, <1>10, <1>22, <1>23 DEF RRNext

-----------------------------------------------------------------------------
(* Every step.                                                             *)

LEMMA TreeInvInit == TreeInit => TreeInv
<1> SUFFICES ASSUME TreeInit PROVE TreeInv
  OBVIOUS
<1>1. TreeTypeOK
  BY TreeTypeInit
<1>2. InitTask \in Frame /\ InitTask # Idle /\ NULL \notin Frame
  BY RRAssumption, ProcTreeAssumption DEF Frame
<1>3. once = {InitTask} /\ shared = {}
  BY DEF TreeInit
<1>5. Range(blocked) = {} /\ Queued = {} /\ IsInjective(blocked)
  <2>1. DOMAIN << >> = {}
    OBVIOUS
  <2> QED
    BY <2>1 DEF TreeInit, RRInit, Queued, Range, IsInjective
<1>6. Placed
  <2>1. OnePlace
    BY RRSafeInit DEF TreeInit
  <2> QED
    BY <2>1, <1>5 DEF TreeInit, RRInit, Placed
<1>7. \A p \in Frame : parent[p] = NULL
  BY DEF TreeInit
<1>8. Family
  BY <1>2, <1>3, <1>7 DEF TreeInit, Family
<1>9. Children(InitTask) = {}
  BY <1>2, <1>3, <1>7 DEF Children
<1> DEFINE h == InitListHead(NoLists, Sibiling(InitTask))
<1>10. h \in Heap
  <2>1. NoLists \in Heap
    BY DEF NoLists, Heap
  <2> QED
    BY <2>1, <1>2, Nodes, HeapInit
<1> HIDE DEF h
<1>11. /\ ListOf(WithHeads(h, InitTask), ChildrenBlocked(InitTask), {})
       /\ ListOf(WithHeads(h, InitTask), ChildrenUnblocked(InitTask), {})
  BY <1>2, <1>10, HeadsMade
<1>12. lists = WithHeads(h, InitTask)
  BY DEF TreeInit, h
<1>13. Children(InitTask) \cap Range(blocked) = {} /\ Children(InitTask) \ Range(blocked) = {}
  BY <1>9
<1>14. ListsHold
  BY <1>3, <1>11, <1>12, <1>13 DEF ListsHold
<1>15. ~ kernel_stuck
  BY DEF TreeInit
<1> QED
  BY <1>1, <1>6, <1>8, <1>14, <1>15 DEF TreeInv, Intact

\* What a step is for the scheduler and for the specification of block and
\* unblock.
Promised == [RRNext]_rrVars /\ [Semaphores!BUNext]_(Semaphores!buVars)

\* What the specification of block and unblock sees is the same.
LEMMA UnseenFrames ==
  ASSUME UNCHANGED <<live, once, Range(blocked)>>,
         \A p \in once : parent'[p] = parent[p] /\ pending_unblocks'[p] = pending_unblocks[p]
  PROVE  UNCHANGED Semaphores!buVars
<1>1. UNCHANGED <<Field(parent, NULL), Field(pending_unblocks, 0)>>
  BY DEF Field
<1> QED
  BY <1>1 DEF Semaphores!buVars

\* Frames change hands and contents, none of them one that has been a PCB.
LEMMA FrameStep ==
  ASSUME TreeTypeOK, Intact, NEW F, F \cap once = {},
         UNCHANGED <<rrVars, live, once, blocked, kernel_stuck>>,
         shared' \cap once = {},
         \A p \in Frame : p \notin F => parent'[p] = parent[p] /\ pending_unblocks'[p] = pending_unblocks[p],
         \A m \in Node : m[2] \notin F =>
           lists'.next[m] = lists.next[m] /\ lists'.prev[m] = lists.prev[m]
  PROVE  Intact' /\ Promised
<1>1. \A p \in once : p \in Frame /\ p \notin F
  BY DEF TreeTypeOK
<1>2. Intact'
  BY <1>1, FramesKeep
<1>3. UNCHANGED Semaphores!buVars
  BY <1>1, UnseenFrames
<1> QED
  BY <1>2, <1>3 DEF Promised

\* A page of shmat's is written.
LEMMA PageStep ==
  ASSUME TreeTypeOK, Intact, NEW f \in shared, Overwrite({f}), shared' \subseteq shared,
         UNCHANGED <<rrVars, live, once, blocked, kernel_stuck>>
  PROVE  Intact' /\ Promised
<1>1. {f} \cap once = {} /\ shared' \cap once = {}
  BY DEF Intact, Family
<1>2. \A p \in Frame : p \notin {f} =>
        parent'[p] = parent[p] /\ pending_unblocks'[p] = pending_unblocks[p]
  BY OverwrittenIs DEF Overwrite
<1>3. lists \in Heap
  BY DEF TreeTypeOK, Heap
<1>4. \A m \in Node : m[2] \notin {f} =>
        lists'.next[m] = lists.next[m] /\ lists'.prev[m] = lists.prev[m]
  BY <1>3, LinksOverwrittenIs DEF Overwrite
<1> QED
  BY <1>1, <1>2, <1>4, FrameStep

LEMMA TakeStep ==
  ASSUME TreeTypeOK, Intact, ShmatTakes, ~ reused'
  PROVE  Intact' /\ Promised
<1>1. /\ shared' = shared \cup {AllocPcb} /\ HandOut({AllocPcb})
      /\ UNCHANGED <<rrVars, live, once, parent, pending_unblocks, lists, blocked, kernel_stuck>>
  BY DEF ShmatTakes, procVars
<1>2. shared' \cap once = {}
  BY <1>1 DEF HandOut, Intact, Family
<1> QED
  BY <1>1, <1>2, FrameStep

LEMMA ForkFailsStep ==
  ASSUME TreeTypeOK, Intact, ForkFails, ~ reused'
  PROVE  Intact' /\ Promised
<1>c. PICK child, cleared : child = AllocPcb /\ cleared = Lowest(Free \ {child}, 2)
  OBVIOUS
<1>1. /\ InUserMode /\ Free # {} /\ HandOut(Free)
      /\ parent' = [Overwritten(parent, cleared, NULL) EXCEPT ![child] = parent[cur]]
      /\ pending_unblocks' =
           [Overwritten(pending_unblocks, cleared, 0) EXCEPT ![child] = pending_unblocks[cur]]
      /\ lists' = LinksCopied(LinksOverwritten(lists, cleared), cur, child)
      /\ UNCHANGED <<rrVars, live, shared, once, blocked, kernel_stuck>>
  BY <1>c, Zenon DEF ForkFails
<1>2. child \in Free /\ cleared \subseteq Free /\ Free \cap once = {}
  BY <1>c, <1>1, AllocPcbIsFree, LowestOf DEF HandOut
<1>3. \A p \in Frame : p \notin Free =>
        parent'[p] = parent[p] /\ pending_unblocks'[p] = pending_unblocks[p]
  BY <1>1, <1>2 DEF Overwritten
<1>4. cur \in Frame /\ lists \in Heap
  BY <1>1 DEF InUserMode, TreeTypeOK, RRTypeOK, Frame, Heap
<1>o. PICK h : h = LinksOverwritten(lists, cleared)
  OBVIOUS
<1>5. h \in Heap /\ \A m \in Node : m[2] \notin Free => h.next[m] = lists.next[m] /\ h.prev[m] = lists.prev[m]
  BY <1>o, <1>2, <1>4, LinksOverwrittenIs
<1>6. \A m \in Node : m[2] \notin Free =>
        lists'.next[m] = lists.next[m] /\ lists'.prev[m] = lists.prev[m]
  BY <1>o, <1>1, <1>2, <1>4, <1>5, LinksCopiedIs
<1>7. shared' \cap once = {}
  BY <1>1 DEF Intact, Family
<1> QED
  BY <1>1, <1>2, <1>3, <1>6, <1>7, FrameStep

LEMMA ForkStep ==
  ASSUME TreeTypeOK, TreeTypeOK', Intact, Fork, ~ reused'
  PROVE  Intact' /\ Promised
<1>c. PICK child, more : child = AllocPcb /\ more = Lowest(Free \ {child}, Others)
  OBVIOUS
<1>1. /\ InUserMode /\ Cardinality(Free) > Others
      /\ live' = live \cup {child}
      /\ once' = once \cup {child}
      /\ parent' = [Overwritten(parent, more, NULL) EXCEPT ![child] = cur]
      /\ pending_unblocks' = [Overwritten(pending_unblocks, more, 0) EXCEPT ![child] = 0]
      /\ blocked' = blocked
  BY <1>c, Zenon DEF Fork
<1>2. Intact' /\ [RRNext]_rrVars /\ child \notin once /\ more \cap once = {}
  BY <1>c, ForkKeeps
<1>3. child \in Frame \ live
  BY <1>c, <1>1, FreeIs, AllocPcbIsFree
<1>4. once \subseteq Frame /\ cur \in Frame /\ cur \in live \ Range(blocked) /\ cur \in once
  BY <1>1, WhoIsWhere DEF Intact
<1>5. Field(parent, NULL)' = [Field(parent, NULL) EXCEPT ![child] = cur]
  <2>1. \A p \in Frame : (IF p \in once' THEN parent'[p] ELSE NULL)
                       = IF p = child THEN cur ELSE IF p \in once THEN parent[p] ELSE NULL
    BY <1>1, <1>2, <1>3 DEF Overwritten
  <2> QED
    BY <2>1, <1>3 DEF Field
<1>6. Field(pending_unblocks, 0)' = [Field(pending_unblocks, 0) EXCEPT ![child] = 0]
  <2>1. \A p \in Frame : (IF p \in once' THEN pending_unblocks'[p] ELSE 0)
                       = IF p = child THEN 0 ELSE IF p \in once THEN pending_unblocks[p] ELSE 0
    BY <1>1, <1>2, <1>3 DEF Overwritten
  <2> QED
    BY <2>1, <1>3 DEF Field
<1>7. Range(blocked)' = Range(blocked)
  BY <1>1
<1>8. Semaphores!Create(cur, child)
  BY <1>1, <1>3, <1>4, <1>5, <1>6, <1>7 DEF Semaphores!Create
<1>9. Semaphores!BUNext
  BY <1>3, <1>4, <1>8 DEF Semaphores!BUNext
<1> QED
  BY <1>2, <1>9 DEF Promised

LEMMA TreeStep ==
  ASSUME TreeInv, [TreeNext]_treeVars
  PROVE  TreeInv' /\ (reused' \/ (Intact /\ Intact' /\ Promised))
<1>t. TreeTypeOK /\ TreeTypeOK' /\ (reused \/ Intact)
  BY TreeTypeStep DEF TreeInv
<1>a. ASSUME reused => reused', Intact /\ ~ reused' => Intact' /\ Promised
      PROVE  TreeInv' /\ (reused' \/ (Intact /\ Intact' /\ Promised))
  BY <1>t, <1>a DEF TreeInv
<1>w. Intact /\ InUserMode => cur \in Frame /\ cur \in live \ Range(blocked) /\ cur \in once
  BY <1>t, WhoIsWhere DEF Intact
<1>1. CASE UNCHANGED treeVars
  <2>1. UNCHANGED <<rrVars, shared, once, reused, live, parent, pending_unblocks, lists, blocked, kernel_stuck>>
    BY <1>1 DEF treeVars, procVars, frameVars
  <2>2. Intact => Intact'
    BY <2>1 DEF rrVars, Intact, Placed, OnePlace, Queued, Family, ListsHold, Children
  <2>3. Promised
    BY <2>1, UnseenFrames DEF Promised
  <2> QED
    BY <2>1, <2>2, <2>3, <1>a
<1>2. CASE ClockInterrupt
  <2>1. UNCHANGED <<once, reused, live, parent, pending_unblocks, blocked>>
    BY <1>2 DEF ClockInterrupt, procVars, frameVars
  <2>2. UNCHANGED Semaphores!buVars
    BY <2>1, UnseenFrames
  <2> QED
    BY <2>1, <2>2, <1>2, <1>t, <1>a, ClockKeeps DEF Promised
<1>3. CASE Fork
  <2>1. reused => reused'
    BY <1>3 DEF Fork, HandOut
  <2> QED
    BY <2>1, <1>3, <1>t, <1>a, ForkStep
<1>4. CASE ForkFails
  <2>1. reused => reused'
    BY <1>4 DEF ForkFails, HandOut
  <2> QED
    BY <2>1, <1>4, <1>t, <1>a, ForkFailsStep
<1>5. CASE ShmatTakes
  <2>1. reused => reused'
    BY <1>5 DEF ShmatTakes, HandOut
  <2> QED
    BY <2>1, <1>5, <1>t, <1>a, TakeStep
<1>6. ASSUME NEW f \in shared, PageStored(f)
      PROVE  TreeInv' /\ (reused' \/ (Intact /\ Intact' /\ Promised))
  <2>1. /\ Overwrite({f}) /\ shared' = shared
        /\ UNCHANGED <<rrVars, once, reused, live, blocked, kernel_stuck>>
    BY <1>6 DEF PageStored, frameVars
  <2> QED
    BY <2>1, <1>t, <1>a, PageStep
<1>7. ASSUME NEW f \in shared, PageFreed(f)
      PROVE  TreeInv' /\ (reused' \/ (Intact /\ Intact' /\ Promised))
  <2>1. /\ Overwrite({f}) /\ shared' \subseteq shared
        /\ UNCHANGED <<rrVars, once, reused, live, blocked, kernel_stuck>>
    BY <1>7 DEF PageFreed
  <2> QED
    BY <2>1, <1>t, <1>a, PageStep
<1>8. CASE Exit
  <2>1. /\ InUserMode /\ live' = live \ {cur}
        /\ UNCHANGED <<once, reused, parent, pending_unblocks, blocked>>
    BY <1>8 DEF Exit
  <2>2. ASSUME Intact PROVE Intact' /\ Promised
    <3>1. UNCHANGED <<Field(parent, NULL), Field(pending_unblocks, 0)>> /\ Range(blocked)' = Range(blocked)
      BY <2>1 DEF Field
    <3>2. Semaphores!Finish(cur)
      BY <2>1, <2>2, <3>1, <1>w DEF Semaphores!Finish
    <3>3. Semaphores!BUNext
      BY <3>2, <2>1, <2>2, <1>w DEF Semaphores!BUNext
    <3> QED
      BY <3>3, <2>2, <1>8, <1>t, ExitKeeps DEF Promised
  <2> QED
    BY <2>1, <2>2, <1>a
<1>9. CASE BlockNot
  <2>1. /\ InUserMode /\ pending_unblocks[cur] > 0
        /\ pending_unblocks' = [pending_unblocks EXCEPT ![cur] = @ - 1]
        /\ UNCHANGED <<rrVars, shared, once, reused, live, parent, lists, blocked, kernel_stuck>>
    BY <1>9 DEF BlockNot, frameVars
  <2>2. ASSUME Intact PROVE Intact' /\ Promised
    <3>1. Intact'
      BY <2>1, <2>2
         DEF rrVars, Intact, Placed, OnePlace, Queued, Family, ListsHold, Children
    <3>2. UNCHANGED Field(parent, NULL) /\ Range(blocked)' = Range(blocked)
      BY <2>1 DEF Field
    <3>3. /\ Field(pending_unblocks, 0)[cur] = pending_unblocks[cur]
          /\ Field(pending_unblocks, 0)' = [Field(pending_unblocks, 0) EXCEPT ![cur] = @ - 1]
      BY <2>1, <2>2, <1>t, <1>w DEF Field, TreeTypeOK
    <3>4. Semaphores!Down(cur)
      BY <2>1, <2>2, <3>2, <3>3, <1>w DEF Semaphores!Down
    <3>5. Semaphores!BUNext
      BY <3>4, <2>1, <2>2, <1>w DEF Semaphores!BUNext
    <3> QED
      BY <3>1, <3>5, <2>1 DEF Promised
  <2> QED
    BY <2>1, <2>2, <1>a
<1>10. CASE Block
  <2>1. /\ InUserMode /\ pending_unblocks[cur] = 0
        /\ UNCHANGED <<once, reused, live, parent, pending_unblocks>>
    BY <1>10 DEF Block, frameVars
  <2>2. ASSUME Intact PROVE Intact' /\ Promised
    <3>1. Intact' /\ [RRNext]_rrVars /\ Range(blocked') = Range(blocked) \cup {cur}
      BY <2>2, <1>10, <1>t, BlockKeeps
    <3>2. /\ UNCHANGED <<Field(parent, NULL), Field(pending_unblocks, 0)>>
          /\ Field(pending_unblocks, 0)[cur] = 0
      BY <2>1, <2>2, <1>w DEF Field
    <3>3. Semaphores!Down(cur)
      BY <2>1, <2>2, <3>1, <3>2, <1>w DEF Semaphores!Down
    <3>4. Semaphores!BUNext
      BY <3>3, <2>1, <2>2, <1>w DEF Semaphores!BUNext
    <3> QED
      BY <3>1, <3>4 DEF Promised
  <2> QED
    BY <2>1, <2>2, <1>a
<1>11. ASSUME NEW pid \in 1..MaxPid, UnblockWakes(pid)
       PROVE  TreeInv' /\ (reused' \/ (Intact /\ Intact' /\ Promised))
  <2>1. /\ InUserMode /\ UNCHANGED <<once, reused, live, parent, pending_unblocks>>
    BY <1>11 DEF UnblockWakes, frameVars
  <2>2. ASSUME Intact PROVE Intact' /\ Promised
    <3>1. Intact' /\ [RRNext]_rrVars
      BY <2>2, <1>11, <1>t, WakeKeeps
    <3>2. PICK c \in Children(cur) \cap Range(blocked) : Range(blocked') = Range(blocked) \ {c}
      BY <2>2, <1>11, <1>t, WakeKeeps
    <3>3. c \in once /\ c \in Frame /\ parent[c] = cur
      BY <1>t DEF Children, TreeTypeOK
    <3>4. /\ UNCHANGED <<Field(parent, NULL), Field(pending_unblocks, 0)>>
          /\ Field(parent, NULL)[c] = cur
      BY <2>1, <3>3 DEF Field
    <3>5. Semaphores!Up(cur, c)
      BY <2>1, <2>2, <3>2, <3>4, <1>w DEF Semaphores!Up
    <3>6. Semaphores!BUNext
      BY <3>3, <3>5, <2>1, <2>2, <1>w DEF Semaphores!BUNext
    <3> QED
      BY <3>1, <3>6 DEF Promised
  <2> QED
    BY <2>1, <2>2, <1>a
<1>12. ASSUME NEW pid \in 1..MaxPid, UnblockCounts(pid)
       PROVE  TreeInv' /\ (reused' \/ (Intact /\ Intact' /\ Promised))
  <2>c. PICK c : c = SearchUnblocked(pid)[2]
    OBVIOUS
  <2>1. /\ InUserMode /\ SearchUnblocked(pid) \in Named(pid)
        /\ pending_unblocks' = [pending_unblocks EXCEPT ![c] = @ + 1]
        /\ UNCHANGED <<rrVars, shared, once, reused, live, parent, lists, blocked, kernel_stuck>>
    BY <1>12, <2>c DEF UnblockCounts, frameVars
  <2>2. ASSUME Intact PROVE Intact' /\ Promised
    <3>1. Intact'
      BY <2>1, <2>2
         DEF rrVars, Intact, Placed, OnePlace, Queued, Family, ListsHold, Children
    <3>2. c \in Children(cur) \ Range(blocked)
      BY <2>1, <2>2, <2>c, <1>t, SearchesEnd
    <3>3. c \in once /\ c \in Frame /\ parent[c] = cur
      BY <3>2, <1>t DEF Children, TreeTypeOK
    <3>4. /\ UNCHANGED Field(parent, NULL) /\ Range(blocked)' = Range(blocked)
          /\ Field(parent, NULL)[c] = cur
      BY <2>1, <3>3 DEF Field
    <3>5. Field(pending_unblocks, 0)' = [Field(pending_unblocks, 0) EXCEPT ![c] = @ + 1]
      BY <2>1, <3>3, <1>t DEF Field, TreeTypeOK
    <3>6. Semaphores!Up(cur, c)
      BY <2>1, <2>2, <3>2, <3>4, <3>5, <1>w DEF Semaphores!Up
    <3>7. Semaphores!BUNext
      BY <3>3, <3>6, <2>1, <2>2, <1>w DEF Semaphores!BUNext
    <3> QED
      BY <3>1, <3>7, <2>1 DEF Promised
  <2> QED
    BY <2>1, <2>2, <1>a
<1>13. ASSUME NEW pid \in 1..MaxPid, UnblockLoops(pid)
       PROVE  TreeInv' /\ (reused' \/ (Intact /\ Intact' /\ Promised))
  <2>1. InUserMode /\ UNCHANGED reused
    BY <1>13 DEF UnblockLoops, frameVars
  <2>2. ~ Intact
    BY <2>1, <1>13, <1>t, SearchesEnd DEF UnblockLoops
  <2> QED
    BY <2>1, <2>2, <1>a
<1> QED
  BY <1>1, <1>2, <1>3, <1>4, <1>5, <1>6, <1>7, <1>8, <1>9, <1>10, <1>11, <1>12, <1>13 DEF TreeNext

LEMMA TreeInvAlways == TreeSpec => []TreeInv
<1>1. TreeInv /\ [TreeNext]_treeVars => TreeInv'
  BY TreeStep
<1> QED
  BY <1>1, TreeInvInit, PTL DEF TreeSpec

-----------------------------------------------------------------------------
(* Theorems.                                                               *)

\* Fields, queues and list pointers keep their types, whatever is freed, handed
\* out again and left in lists.
THEOREM TreeTypeCorrect == TreeSpec => []TreeTypeOK
<1>1. TreeInv => TreeTypeOK
  BY DEF TreeInv
<1> QED
  BY <1>1, TreeInvAlways, PTL

\* Until a frame that has been a PCB is handed out again, for any use, every process is in exactly one of the
\* CPU, the ready queue and blocked.
THEOREM TreeProcessesPlaced == TreeSpec => []ProcessesPlaced
<1>1. TreeInv => ProcessesPlaced
  BY DEF TreeInv, Intact, Placed, ProcessesPlaced
<1> QED
  BY <1>1, TreeInvAlways, PTL

\* Until then the children lists, as sys_fork, sys_block and sys_unblock link
\* them, are closed rings that hold a process's blocked children and its others.
THEOREM TreeListsAgree == TreeSpec => []ChildrenListsAgree
<1>1. TreeInv => ChildrenListsAgree
  <2> SUFFICES ASSUME TreeInv, ~ reused, NEW p \in once
               PROVE  /\ WellFormed(lists, ChildrenBlocked(p))
                      /\ WellFormed(lists, ChildrenUnblocked(p))
                      /\ Elements(lists, ChildrenBlocked(p))
                           = {Sibiling(c) : c \in Children(p) \cap Range(blocked)}
                      /\ Elements(lists, ChildrenUnblocked(p))
                           = {Sibiling(c) : c \in Children(p) \ Range(blocked)}
    BY DEF ChildrenListsAgree
  <2>1. /\ ListOf(lists, ChildrenBlocked(p), Children(p) \cap Range(blocked))
        /\ ListOf(lists, ChildrenUnblocked(p), Children(p) \ Range(blocked))
    BY DEF TreeInv, Intact, ListsHold
  <2>2. /\ WellFormed(lists, ChildrenBlocked(p))
        /\ Elements(lists, ChildrenBlocked(p)) = Siblings(Children(p) \cap Range(blocked))
    BY <2>1, Heads, ListAgrees
  <2>3. /\ WellFormed(lists, ChildrenUnblocked(p))
        /\ Elements(lists, ChildrenUnblocked(p)) = Siblings(Children(p) \ Range(blocked))
    BY <2>1, Heads, ListAgrees
  <2> QED
    BY <2>2, <2>3 DEF Siblings
<1> QED
  BY <1>1, TreeInvAlways, PTL

\* Until then sys_block and sys_unblock are the operations of a semaphore, and
\* no search for a child goes round for ever.
THEOREM TreeImplementsBlockUnblock == TreeSpec => ImplementsBlockUnblock
<1> DEFINE A == reused' \/ (Semaphores!BUNext /\ ~ kernel_stuck')
           v == <<Semaphores!buVars, kernel_stuck>>
<1>1. TreeInit => Semaphores!BUInit
  <2>1. DOMAIN << >> = {}
    OBVIOUS
  <2> QED
    BY <2>1, RRAssumption DEF TreeInit, Semaphores!BUInit, Range, Field, Frame
<1>2. TreeInv /\ [TreeNext]_treeVars => [A]_v
  <2> SUFFICES ASSUME TreeInv, [TreeNext]_treeVars, ~ reused' PROVE [A]_v
    OBVIOUS
  <2>1. Intact /\ Intact' /\ Promised
    BY TreeStep
  <2>2. kernel_stuck = FALSE /\ kernel_stuck' = FALSE
    <3>1. kernel_stuck \in BOOLEAN /\ kernel_stuck' \in BOOLEAN
      BY TreeTypeStep DEF TreeInv, TreeTypeOK
    <3>2. ~ kernel_stuck /\ ~ kernel_stuck'
      BY <2>1 DEF Intact
    <3> QED
      BY <3>1, <3>2
  <2>3. CASE Semaphores!BUNext
    BY <2>2, <2>3
  <2>4. CASE UNCHANGED Semaphores!buVars
    <3>1. UNCHANGED v
      BY <2>2, <2>4
    <3> QED
      BY <3>1
  <2> QED
    BY <2>1, <2>3, <2>4 DEF Promised
<1>3. TreeSpec => [][A]_v
  BY <1>2, TreeInvAlways, PTL DEF TreeSpec
<1>4. TreeSpec => Semaphores!BUInit
  BY <1>1, PTL DEF TreeSpec
<1> QED
  BY <1>3, <1>4 DEF ImplementsBlockUnblock

\* Until then the processes are a client of the scheduler.
THEOREM TreeClientOfScheduler == TreeSpec => ClientOfScheduler
<1> DEFINE A == reused' \/ RRNext
<1>1. TreeInit => RRInit
  BY DEF TreeInit
<1>2. TreeInv /\ [TreeNext]_treeVars => [A]_rrVars
  BY TreeStep DEF Promised
<1>3. TreeSpec => [][A]_rrVars
  BY <1>2, TreeInvAlways, PTL DEF TreeSpec
<1>4. TreeSpec => RRInit
  BY <1>1, PTL DEF TreeSpec
<1> QED
  BY <1>3, <1>4 DEF ClientOfScheduler

===============================================================================
