-------------------------- MODULE NrkQueueLemmas --------------------------
(***************************************************************************)
(* What the operators of NrkQueueOps return, for every queue: the facts    *)
(* the invariance proofs of the kernel rest on.                            *)
(***************************************************************************)
EXTENDS NrkQueueOps, WellFoundedInduction, TLAPS

\* Every non-empty set of naturals has a least element.
LEMMA LeastElement ==
    ASSUME NEW T \in SUBSET Nat, T # {}
    PROVE  \E x \in T : \A y \in T : x <= y
<1> DEFINE R == OpToRel(<, Nat)
<1>1. IsWellFoundedOn(R, Nat)
  BY NatLessThanWellFounded, Zenon
<1>2. R = {ss \in Nat \X Nat : ss[1] < ss[2]}
  BY Zenon DEF OpToRel
<1> HIDE DEF R
<1>3. \E x \in T : \A y \in T : ~(<<y, x>> \in R)
  BY <1>1, WFMin
<1>4. \A x, y \in T : <<y, x>> \notin R => x <= y
  BY <1>2
<1> QED BY <1>3, <1>4

\* The scan goes over members of S only and stops at a non-member or at n.
LEMMA ScanLengthSpec ==
    ASSUME NEW S, NEW n \in Nat
    PROVE  /\ ScanLength(S, n) \in 0..n
           /\ \A i \in 1..ScanLength(S, n) : i \in S
           /\ ScanLength(S, n) < n => ScanLength(S, n) + 1 \notin S
<1> DEFINE T == {k \in Nat : k = n \/ (k + 1) \notin S}
           P(k) == /\ \A i \in 1..k : i \in S
                   /\ k < n => k + 1 \notin S
<1>1. PICK k \in T : \A y \in T : k <= y
  <2>1. T \in SUBSET Nat /\ n \in T
    OBVIOUS
  <2> QED BY <2>1, LeastElement
<1>2. k \in 0..n
  BY <1>1
<1>3. \A i \in 1..k : i \in S
  <2> SUFFICES ASSUME NEW i \in 1..k, i \notin S PROVE FALSE
    OBVIOUS
  <2>1. i - 1 \in T
    BY <1>2
  <2> QED BY <2>1, <1>1, <1>2
<1>4. k < n => k + 1 \notin S
  BY <1>1
<1>5. \E j \in 0..n : P(j)
  BY <1>2, <1>3, <1>4
<1>6. P(CHOOSE j \in 0..n : P(j)) /\ (CHOOSE j \in 0..n : P(j)) \in 0..n
  <2> HIDE DEF P
  <2> QED BY <1>5
<1> QED BY <1>6 DEF ScanLength

\* A position is found for every task, at most one past the end; a queued
\* task there is one the new task goes before.
LEMMA InsertPositionSpec ==
    ASSUME NEW q \in Seq(Task), NEW t \in Task, NEW elev, NEW ceil
    PROVE  /\ InsertPosition(q, t, elev, ceil) \in 1..Len(q) + 1
           /\ \A i \in 1..InsertPosition(q, t, elev, ceil) - 1 :
                  ~GoesBefore(t, q[i], elev, ceil)
<1> DEFINE S == {i \in 1..Len(q) : ~GoesBefore(t, q[i], elev, ceil)}
<1>1. Len(q) \in Nat
  OBVIOUS
<1>2. /\ ScanLength(S, Len(q)) \in 0..Len(q)
      /\ \A i \in 1..ScanLength(S, Len(q)) : i \in S
  BY <1>1, ScanLengthSpec
<1>3. InsertPosition(q, t, elev, ceil) = ScanLength(S, Len(q)) + 1
  BY DEF InsertPosition
<1> QED BY <1>1, <1>2, <1>3

LEMMA InsertAtPositionSpec ==
    ASSUME NEW q \in Seq(Task), NEW t \in Task, NEW p \in 1..Len(q) + 1
    PROVE  /\ InsertAtPosition(q, p, t) \in Seq(Task)
           /\ Len(InsertAtPosition(q, p, t)) = Len(q) + 1
           /\ \A i \in 1..Len(q) + 1 :
                 InsertAtPosition(q, p, t)[i] =
                    IF i < p THEN q[i] ELSE IF i = p THEN t ELSE q[i - 1]
<1> DEFINE r == [i \in 1..Len(q) + 1 |->
                    IF i < p THEN q[i] ELSE IF i = p THEN t ELSE q[i - 1]]
<1>1. Len(q) \in Nat /\ Len(q) + 1 \in Nat
  OBVIOUS
<1>2. \A i \in 1..Len(q) + 1 : r[i] \in Task
  BY <1>1
<1>3. r \in [1..Len(q) + 1 -> Task]
  BY <1>2
<1>4. r \in Seq(Task) /\ Len(r) = Len(q) + 1
  BY <1>1, <1>3
<1> QED BY <1>4 DEF InsertAtPosition

\* Adding a task keeps the queue a sequence of tasks no longer than the pool.
LEMMA AddType ==
    ASSUME NEW q \in Seq(Task), Len(q) <= PoolSize, NEW t \in Task, NEW elev, NEW ceil
    PROVE  Add(q, t, elev, ceil) \in Seq(Task) /\ Len(Add(q, t, elev, ceil)) <= PoolSize
<1>1. CASE Len(q) = PoolSize
  BY <1>1 DEF Add
<1>2. CASE Len(q) # PoolSize
  <2> DEFINE p == InsertPosition(q, t, elev, ceil)
  <2>1. p \in 1..Len(q) + 1
    BY InsertPositionSpec
  <2>2. /\ InsertAtPosition(q, p, t) \in Seq(Task)
        /\ Len(InsertAtPosition(q, p, t)) = Len(q) + 1
    <3> HIDE DEF p
    <3> QED BY <2>1, InsertAtPositionSpec
  <2>3. Len(q) + 1 <= PoolSize
    BY <1>2, QueueAssumption
  <2> QED BY <1>2, <2>2, <2>3 DEF Add
<1> QED BY <1>1, <1>2

\* A task other than the idle task is put before it, whatever is elevated:
\* its base priority alone is higher.
LEMMA AddKeepsIdleAtEnd ==
    ASSUME NEW q \in Seq(Task), Len(q) <= PoolSize, IdleAtEnd(q),
           NEW t \in Task \ {Idle}, NEW elev, NEW ceil
    PROVE  IdleAtEnd(Add(q, t, elev, ceil))
<1>1. CASE Len(q) = PoolSize
  BY <1>1 DEF Add
<1>2. CASE Len(q) # PoolSize
  <2> DEFINE p == InsertPosition(q, t, elev, ceil)
             r == InsertAtPosition(q, p, t)
  <2>1. Len(q) \in Nat \ {0}
    BY DEF IdleAtEnd
  <2>2. GoesBefore(t, Idle, elev, ceil)
    BY QueueAssumption DEF GoesBefore
  <2>3. p \in 1..Len(q) + 1 /\ \A i \in 1..p - 1 : ~GoesBefore(t, q[i], elev, ceil)
    BY InsertPositionSpec
  <2>4. p <= Len(q)
    <3> SUFFICES ASSUME p = Len(q) + 1 PROVE FALSE
      BY <2>1, <2>3
    <3>1. Len(q) \in 1..p - 1
      BY <2>1
    <3> QED BY <3>1, <2>2, <2>3 DEF IdleAtEnd
  <2> HIDE DEF p
  <2>5. /\ r \in Seq(Task) /\ Len(r) = Len(q) + 1
        /\ \A i \in 1..Len(q) + 1 :
              r[i] = IF i < p THEN q[i] ELSE IF i = p THEN t ELSE q[i - 1]
    BY <2>3, InsertAtPositionSpec
  <2> HIDE DEF r
  <2>6. r # <<>> /\ r[Len(r)] = Idle
    <3>1. Len(q) + 1 \in 1..Len(q) + 1 /\ ~(Len(q) + 1 < p) /\ Len(q) + 1 # p
      BY <2>1, <2>3, <2>4
    <3>2. r[Len(q) + 1] = q[Len(q)]
      BY <2>1, <2>5, <3>1
    <3> QED BY <2>1, <2>5, <3>2 DEF IdleAtEnd
  <2>7. \A i \in 1..Len(r) - 1 : r[i] # Idle
    <3> SUFFICES ASSUME NEW i \in 1..Len(q) PROVE r[i] # Idle
      BY <2>1, <2>5
    <3>1. CASE i < p
      <4>1. i \in 1..Len(q) - 1
        BY <2>1, <2>3, <2>4, <3>1
      <4> QED BY <4>1, <2>5, <3>1 DEF IdleAtEnd
    <3>2. CASE i = p
      BY <2>5, <3>2
    <3>3. CASE i > p
      <4>1. i - 1 \in 1..Len(q) - 1
        BY <2>1, <2>3, <3>3
      <4> QED BY <4>1, <2>1, <2>3, <2>5, <3>3 DEF IdleAtEnd
    <3> QED BY <2>3, <3>1, <3>2, <3>3
  <2>8. IdleAtEnd(r)
    BY <2>6, <2>7 DEF IdleAtEnd
  <2> QED BY <1>2, <2>8 DEF Add, r, p
<1> QED BY <1>1, <1>2

\* The first position of a queued task holds it.
LEMMA FirstPositionSpec ==
    ASSUME NEW q \in Seq(Task), NEW t, \E i \in 1..Len(q) : q[i] = t
    PROVE  FirstPosition(q, t) \in 1..Len(q) /\ q[FirstPosition(q, t)] = t
<1> DEFINE S == {i \in 1..Len(q) : q[i] # t}
           k == ScanLength(S, Len(q))
<1>1. Len(q) \in Nat
  OBVIOUS
<1>2. k \in 0..Len(q) /\ (\A i \in 1..k : i \in S) /\ (k < Len(q) => k + 1 \notin S)
  BY <1>1, ScanLengthSpec
<1>3. FirstPosition(q, t) = k + 1
  BY DEF FirstPosition
<1>4. k < Len(q)
  <2> HIDE DEF k
  <2> SUFFICES ASSUME k = Len(q) PROVE FALSE
    BY <1>1, <1>2
  <2>1. PICK i \in 1..Len(q) : q[i] = t
    OBVIOUS
  <2> QED BY <1>2, <2>1
<1>5. k + 1 \in 1..Len(q) /\ k + 1 \notin S
  <2> HIDE DEF S, k
  <2> QED BY <1>1, <1>2, <1>4
<1> QED BY <1>3, <1>5

\* No position of it comes before.
LEMMA FirstPositionLeast ==
    ASSUME NEW q \in Seq(Task), NEW k \in 1..Len(q)
    PROVE  FirstPosition(q, q[k]) \in 1..k
<1> DEFINE S == {i \in 1..Len(q) : q[i] # q[k]}
           n == ScanLength(S, Len(q))
<1>1. Len(q) \in Nat
  OBVIOUS
<1>2. n \in 0..Len(q) /\ \A i \in 1..n : i \in S
  BY <1>1, ScanLengthSpec
<1>3. FirstPosition(q, q[k]) = n + 1
  BY DEF FirstPosition
<1> HIDE DEF n
<1>4. n < k
  <2> SUFFICES ASSUME k <= n PROVE FALSE
    BY <1>1, <1>2
  <2> QED BY <1>2
<1> QED BY <1>1, <1>2, <1>3, <1>4

LEMMA RemoveAtPositionSpec ==
    ASSUME NEW q \in Seq(Task), NEW p \in 1..Len(q)
    PROVE  /\ RemoveAtPosition(q, p) \in Seq(Task)
           /\ Len(RemoveAtPosition(q, p)) = Len(q) - 1
           /\ \A i \in 1..Len(q) - 1 :
                 RemoveAtPosition(q, p)[i] = IF i < p THEN q[i] ELSE q[i + 1]
<1> DEFINE r == [i \in 1..Len(q) - 1 |-> IF i < p THEN q[i] ELSE q[i + 1]]
<1>1. Len(q) \in Nat /\ Len(q) - 1 \in Nat
  OBVIOUS
<1>2. r \in [1..Len(q) - 1 -> Task]
  BY <1>1
<1>3. r \in Seq(Task) /\ Len(r) = Len(q) - 1
  BY <1>1, <1>2
<1> QED BY <1>3 DEF RemoveAtPosition

\* Removing a task keeps the queue a sequence of tasks no longer than the pool.
LEMMA RemoveType ==
    ASSUME NEW q \in Seq(Task), Len(q) <= PoolSize, NEW t
    PROVE  Remove(q, t) \in Seq(Task) /\ Len(Remove(q, t)) <= PoolSize
<1>1. CASE \E i \in 1..Len(q) : q[i] = t
  <2> DEFINE p == FirstPosition(q, t)
  <2>1. p \in 1..Len(q)
    BY <1>1, FirstPositionSpec
  <2> HIDE DEF p
  <2>2. /\ RemoveAtPosition(q, p) \in Seq(Task)
        /\ Len(RemoveAtPosition(q, p)) = Len(q) - 1
    BY <2>1, RemoveAtPositionSpec
  <2>3. Len(q) \in Nat
    OBVIOUS
  <2>4. Len(q) - 1 <= PoolSize
    BY <2>3, QueueAssumption
  <2> QED BY <1>1, <2>2, <2>4 DEF Remove, p
<1>2. CASE ~\E i \in 1..Len(q) : q[i] = t
  BY <1>2 DEF Remove
<1> QED BY <1>1, <1>2

\* The idle task stays at the end while others are removed.
LEMMA RemoveKeepsIdleAtEnd ==
    ASSUME NEW q \in Seq(Task), IdleAtEnd(q), NEW t, t # Idle
    PROVE  IdleAtEnd(Remove(q, t))
<1>1. CASE \E i \in 1..Len(q) : q[i] = t
  <2> DEFINE p == FirstPosition(q, t)
             r == RemoveAtPosition(q, p)
  <2>1. Len(q) \in Nat \ {0}
    BY DEF IdleAtEnd
  <2>2. p \in 1..Len(q) /\ q[p] = t
    BY <1>1, FirstPositionSpec
  <2>3. p < Len(q)
    BY <2>1, <2>2 DEF IdleAtEnd
  <2> HIDE DEF p
  <2>4. /\ r \in Seq(Task) /\ Len(r) = Len(q) - 1
        /\ \A i \in 1..Len(q) - 1 : r[i] = IF i < p THEN q[i] ELSE q[i + 1]
    BY <2>2, RemoveAtPositionSpec
  <2> HIDE DEF r
  <2>5. r # <<>> /\ r[Len(r)] = Idle
    <3>1. Len(q) - 1 \in 1..Len(q) - 1 /\ ~(Len(q) - 1 < p)
      BY <2>1, <2>2, <2>3
    <3>2. r[Len(q) - 1] = q[Len(q)]
      BY <2>1, <2>4, <3>1
    <3> QED BY <2>1, <2>4, <3>1, <3>2 DEF IdleAtEnd
  <2>6. \A i \in 1..Len(r) - 1 : r[i] # Idle
    <3> SUFFICES ASSUME NEW i \in 1..Len(q) - 2 PROVE r[i] # Idle
      BY <2>1, <2>4
    <3>1. i \in 1..Len(q) - 1 /\ i + 1 \in 1..Len(q) - 1
      BY <2>1
    <3> QED BY <2>4, <3>1 DEF IdleAtEnd
  <2>7. IdleAtEnd(r)
    BY <2>5, <2>6 DEF IdleAtEnd
  <2> QED BY <1>1, <2>7 DEF Remove, r, p
<1>2. CASE ~\E i \in 1..Len(q) : q[i] = t
  BY <1>2 DEF Remove
<1> QED BY <1>1, <1>2

\* The head of a queue that ends with the idle task is a task.
LEMMA HeadIsTask ==
    ASSUME NEW q \in Seq(Task), IdleAtEnd(q)
    PROVE  q[1] \in Task
BY DEF IdleAtEnd

-----------------------------------------------------------------------------
(* Order and repetition.                                                   *)

Sorted(q) == \A i, j \in 1..Len(q) : i < j => Prio[q[j]] <= Prio[q[i]]
Once(q, t) == \A i, j \in Occurrences(q, t) : i = j
PutAt(r, q, p, t) == /\ r \in Seq(Task) /\ Len(r) = Len(q) + 1 /\ p \in 1..Len(q) + 1
                     /\ \A i \in 1..Len(q) + 1 :
                           r[i] = IF i < p THEN q[i] ELSE IF i = p THEN t ELSE q[i - 1]
TakenFrom(r, q, p) == /\ r \in Seq(Task) /\ Len(r) = Len(q) - 1 /\ p \in 1..Len(q)
                      /\ \A i \in 1..Len(q) - 1 :
                            r[i] = IF i < p THEN q[i] ELSE q[i + 1]

\* A task that finds a free node is put behind all it does not go before and
\* in front of the first it does.
LEMMA AddShape ==
    ASSUME NEW q \in Seq(Task), Len(q) <= PoolSize, NEW t \in Task, NEW elev, NEW ceil
    PROVE  \/ Len(q) = PoolSize /\ Add(q, t, elev, ceil) = q
           \/ \E p \in 1..Len(q) + 1 :
                 /\ PutAt(Add(q, t, elev, ceil), q, p, t)
                 /\ \A i \in 1..p - 1 : ~GoesBefore(t, q[i], elev, ceil)
                 /\ p <= Len(q) => GoesBefore(t, q[p], elev, ceil)
<1>1. CASE Len(q) = PoolSize
  BY <1>1 DEF Add
<1>2. CASE Len(q) # PoolSize
  <2> DEFINE S == {i \in 1..Len(q) : ~GoesBefore(t, q[i], elev, ceil)}
             k == ScanLength(S, Len(q))
  <2>1. Len(q) \in Nat
    OBVIOUS
  <2>2. k \in 0..Len(q) /\ (\A i \in 1..k : i \in S) /\ (k < Len(q) => k + 1 \notin S)
    BY <2>1, ScanLengthSpec
  <2>3. Add(q, t, elev, ceil) = InsertAtPosition(q, k + 1, t)
    BY <1>2 DEF Add, InsertPosition
  <2> HIDE DEF k
  <2>4. k + 1 \in 1..Len(q) + 1
    BY <2>1, <2>2
  <2>5. PutAt(InsertAtPosition(q, k + 1, t), q, k + 1, t)
    BY <2>4, InsertAtPositionSpec DEF PutAt
  <2>6. \A i \in 1..(k + 1) - 1 : ~GoesBefore(t, q[i], elev, ceil)
    BY <2>1, <2>2
  <2>7. k + 1 <= Len(q) => GoesBefore(t, q[k + 1], elev, ceil)
    BY <2>1, <2>2
  <2> QED BY <2>3, <2>4, <2>5, <2>6, <2>7
<1> QED BY <1>1, <1>2

LEMMA RemoveShape ==
    ASSUME NEW q \in Seq(Task), NEW t
    PROVE  \/ Remove(q, t) = q /\ t \notin Queued(q)
           \/ \E p \in 1..Len(q) : q[p] = t /\ TakenFrom(Remove(q, t), q, p)
<1>1. CASE \E i \in 1..Len(q) : q[i] = t
  <2>1. FirstPosition(q, t) \in 1..Len(q) /\ q[FirstPosition(q, t)] = t
    BY <1>1, FirstPositionSpec
  <2>2. TakenFrom(RemoveAtPosition(q, FirstPosition(q, t)), q, FirstPosition(q, t))
    BY <2>1, RemoveAtPositionSpec DEF TakenFrom
  <2> QED BY <1>1, <2>1, <2>2 DEF Remove
<1>2. CASE ~\E i \in 1..Len(q) : q[i] = t
  BY <1>2 DEF Remove, Queued
<1> QED BY <1>1, <1>2

\* The tasks queued after a change.
LEMMA AddQueued ==
    ASSUME NEW q \in Seq(Task), Len(q) <= PoolSize, NEW t \in Task, NEW elev, NEW ceil
    PROVE  /\ Queued(Add(q, t, elev, ceil)) \subseteq Queued(q) \cup {t}
           /\ Queued(q) \subseteq Queued(Add(q, t, elev, ceil))
           /\ Len(q) # PoolSize => t \in Queued(Add(q, t, elev, ceil))
<1> DEFINE r == Add(q, t, elev, ceil)
<1>1. CASE r = q /\ Len(q) = PoolSize
  BY <1>1
<1>2. ASSUME NEW p \in 1..Len(q) + 1, PutAt(r, q, p, t)
      PROVE  Queued(r) \subseteq Queued(q) \cup {t} /\ Queued(q) \subseteq Queued(r)
             /\ t \in Queued(r)
  <2> HIDE DEF r
  <2>1. Len(q) \in Nat /\ Len(r) = Len(q) + 1
    BY <1>2 DEF PutAt
  <2>2. ASSUME NEW i \in 1..Len(q) + 1 PROVE r[i] \in Queued(q) \cup {t}
    <3>1. CASE i < p
      <4>1. i \in 1..Len(q) /\ r[i] = q[i]
        BY <1>2, <2>1, <3>1 DEF PutAt
      <4> QED BY <4>1 DEF Queued
    <3>2. CASE i = p
      BY <1>2, <3>2 DEF PutAt
    <3>3. CASE i > p
      <4>1. i - 1 \in 1..Len(q) /\ r[i] = q[i - 1]
        BY <1>2, <2>1, <3>3 DEF PutAt
      <4> QED BY <4>1 DEF Queued
    <3> QED BY <3>1, <3>2, <3>3
  <2>3. ASSUME NEW i \in 1..Len(q) PROVE q[i] \in Queued(r)
    <3>1. CASE i < p
      <4>1. i \in 1..Len(r) /\ r[i] = q[i]
        BY <1>2, <2>1, <3>1 DEF PutAt
      <4> QED BY <4>1 DEF Queued
    <3>2. CASE i >= p
      <4>1. i + 1 \in 1..Len(r) /\ r[i + 1] = q[i]
        BY <1>2, <2>1, <3>2 DEF PutAt
      <4> QED BY <4>1 DEF Queued
    <3> QED BY <3>1, <3>2
  <2>4. t \in Queued(r)
    BY <1>2, <2>1 DEF PutAt, Queued
  <2> QED BY <2>1, <2>2, <2>3, <2>4 DEF Queued
<1>3. (Len(q) = PoolSize /\ r = q) \/ \E p \in 1..Len(q) + 1 : PutAt(r, q, p, t)
  BY AddShape
<1> QED BY <1>1, <1>2, <1>3

LEMMA RemoveQueued ==
    ASSUME NEW q \in Seq(Task), NEW t
    PROVE  /\ Queued(Remove(q, t)) \subseteq Queued(q)
           /\ Queued(q) \ {t} \subseteq Queued(Remove(q, t))
           /\ Once(q, t) => t \notin Queued(Remove(q, t))
<1> DEFINE r == Remove(q, t)
<1>1. CASE r = q /\ t \notin Queued(q)
  BY <1>1
<1>2. ASSUME NEW p \in 1..Len(q), q[p] = t, TakenFrom(r, q, p)
      PROVE  /\ Queued(r) \subseteq Queued(q) /\ Queued(q) \ {t} \subseteq Queued(r)
             /\ Once(q, t) => t \notin Queued(r)
  <2> HIDE DEF r
  <2>1. Len(q) \in Nat /\ Len(r) = Len(q) - 1
    BY <1>2 DEF TakenFrom
  <2>2. ASSUME NEW i \in 1..Len(q) - 1
        PROVE  r[i] \in Queued(q) /\ \E j \in 1..Len(q) : j # p /\ r[i] = q[j]
    <3>1. CASE i < p
      BY <1>2, <2>1, <3>1 DEF TakenFrom, Queued
    <3>2. CASE i >= p
      <4>1. i + 1 \in 1..Len(q) /\ r[i] = q[i + 1] /\ i + 1 # p
        BY <1>2, <2>1, <3>2 DEF TakenFrom
      <4> QED BY <4>1 DEF Queued
    <3> QED BY <3>1, <3>2
  <2>3. ASSUME NEW i \in 1..Len(q), q[i] # t PROVE q[i] \in Queued(r)
    <3>1. CASE i < p
      BY <1>2, <2>1, <3>1 DEF TakenFrom, Queued
    <3>2. CASE i > p
      <4>1. i - 1 \in 1..Len(r) /\ r[i - 1] = q[i]
        BY <1>2, <2>1, <3>2 DEF TakenFrom
      <4> QED BY <4>1 DEF Queued
    <3> QED BY <1>2, <2>3, <3>1, <3>2
  <2>4. ASSUME Once(q, t), t \in Queued(r) PROVE FALSE
    <3>1. PICK i \in 1..Len(q) - 1 : r[i] = t
      BY <2>1, <2>4 DEF Queued
    <3>2. PICK j \in 1..Len(q) : j # p /\ q[j] = t
      BY <2>2, <3>1
    <3> QED BY <1>2, <2>4, <3>2 DEF Once, Occurrences
  <2> QED BY <2>1, <2>2, <2>3, <2>4 DEF Queued
<1>3. (r = q /\ t \notin Queued(q)) \/ \E p \in 1..Len(q) : q[p] = t /\ TakenFrom(r, q, p)
  BY RemoveShape
<1> QED BY <1>1, <1>2, <1>3

\* Once queued stays once queued.
LEMMA AddOnce ==
    ASSUME NEW q \in Seq(Task), Len(q) <= PoolSize, NEW u \in Task, NEW elev, NEW ceil,
           NEW t, Once(q, t), u # t \/ t \notin Queued(q)
    PROVE  Once(Add(q, u, elev, ceil), t)
<1> DEFINE r == Add(q, u, elev, ceil)
<1>1. CASE r = q
  BY <1>1
<1>2. ASSUME NEW p \in 1..Len(q) + 1, PutAt(r, q, p, u) PROVE Once(r, t)
  <2> HIDE DEF r
  <2>1. Len(q) \in Nat /\ Len(r) = Len(q) + 1
    BY <1>2 DEF PutAt
  <2>2. CASE u = t
    <3>1. \A i \in 1..Len(q) : q[i] # t
      BY <2>2 DEF Queued
    <3>2. ASSUME NEW i \in 1..Len(q) + 1, i # p PROVE r[i] # t
      <4>1. CASE i < p
        BY <1>2, <2>1, <3>1, <4>1 DEF PutAt
      <4>2. CASE i > p
        <5>1. i - 1 \in 1..Len(q) /\ r[i] = q[i - 1]
          BY <1>2, <2>1, <4>2 DEF PutAt
        <5> QED BY <3>1, <5>1
      <4> QED BY <1>2, <3>2, <4>1, <4>2
    <3> QED BY <2>1, <3>2 DEF Once, Occurrences
  <2>3. CASE u # t
    <3>1. SUFFICES ASSUME NEW i \in 1..Len(q) + 1, NEW j \in 1..Len(q) + 1,
                          r[i] = t, r[j] = t
                   PROVE  i = j
      BY <2>1 DEF Once, Occurrences
    <3> DEFINE old(x) == IF x < p THEN x ELSE x - 1
    <3>2. ASSUME NEW x \in 1..Len(q) + 1, r[x] = t
          PROVE  old(x) \in 1..Len(q) /\ q[old(x)] = t /\ x # p
      BY <1>2, <2>1, <2>3, <3>2 DEF PutAt
    <3>3. old(i) = old(j) /\ i # p /\ j # p
      <4>1. /\ old(i) \in Occurrences(q, t) /\ old(j) \in Occurrences(q, t)
            /\ i # p /\ j # p
        BY <3>1, <3>2 DEF Occurrences
      <4> QED BY <4>1 DEF Once
    <3> QED BY <2>1, <3>3
  <2> QED BY <2>2, <2>3
<1>3. r = q \/ \E p \in 1..Len(q) + 1 : PutAt(r, q, p, u)
  BY AddShape
<1> QED BY <1>1, <1>2, <1>3

LEMMA RemoveOnce ==
    ASSUME NEW q \in Seq(Task), NEW u, NEW t, Once(q, t)
    PROVE  Once(Remove(q, u), t)
<1> DEFINE r == Remove(q, u)
<1>1. CASE r = q
  BY <1>1
<1>2. ASSUME NEW p \in 1..Len(q), TakenFrom(r, q, p) PROVE Once(r, t)
  <2> HIDE DEF r
  <2>1. Len(q) \in Nat /\ Len(r) = Len(q) - 1
    BY <1>2 DEF TakenFrom
  <2>2. SUFFICES ASSUME NEW i \in 1..Len(q) - 1, NEW j \in 1..Len(q) - 1,
                        r[i] = t, r[j] = t
                 PROVE  i = j
    BY <2>1 DEF Once, Occurrences
  <2> DEFINE old(x) == IF x < p THEN x ELSE x + 1
  <2>3. ASSUME NEW x \in 1..Len(q) - 1, r[x] = t
        PROVE  old(x) \in Occurrences(q, t)
    <3>1. old(x) \in 1..Len(q) /\ q[old(x)] = t
      BY <1>2, <2>1, <2>3 DEF TakenFrom
    <3> QED BY <3>1 DEF Occurrences
  <2>4. old(i) = old(j)
    <3>1. old(i) \in Occurrences(q, t) /\ old(j) \in Occurrences(q, t)
      BY <2>2, <2>3
    <3> QED BY <3>1 DEF Once
  <2> QED BY <2>1, <2>4
<1>3. r = q \/ \E p \in 1..Len(q) : TakenFrom(r, q, p)
  BY RemoveShape
<1> QED BY <1>1, <1>2, <1>3

\* While nobody is elevated, the queue stays in the order of the priorities,
\* and a task goes behind those of its own.
LEMMA UnelevatedOrder ==
    ASSUME NEW t \in Task, NEW u \in Task, NEW elev, NEW ceil, ~elev[t], ~elev[u]
    PROVE  GoesBefore(t, u, elev, ceil) <=> Prio[u] < Prio[t]
BY DEF GoesBefore

LEMMA AddSorted ==
    ASSUME NEW q \in Seq(Task), Len(q) <= PoolSize, NEW t \in Task, NEW elev, NEW ceil,
           Sorted(q), \A u \in Task : ~elev[u]
    PROVE  Sorted(Add(q, t, elev, ceil))
<1> DEFINE r == Add(q, t, elev, ceil)
<1>1. CASE r = q
  BY <1>1
<1>2. ASSUME NEW p \in 1..Len(q) + 1, PutAt(r, q, p, t),
             \A i \in 1..p - 1 : ~GoesBefore(t, q[i], elev, ceil),
             p <= Len(q) => GoesBefore(t, q[p], elev, ceil)
      PROVE  Sorted(r)
  <2> HIDE DEF r
  <2>1. Len(q) \in Nat /\ Len(r) = Len(q) + 1 /\ \A i \in 1..Len(q) : q[i] \in Task
    BY <1>2 DEF PutAt
  <2>2. \A u \in Task : Prio[u] \in Nat
    BY QueueAssumption
  <2>3. ASSUME NEW i \in 1..Len(q), i < p PROVE Prio[t] <= Prio[q[i]]
    BY <1>2, <2>1, <2>2, <2>3, UnelevatedOrder
  <2>4. ASSUME NEW i \in 1..Len(q), i >= p PROVE Prio[q[i]] <= Prio[t]
    <3>1. p \in 1..Len(q) /\ Prio[q[p]] < Prio[t]
      BY <1>2, <2>1, <2>4, UnelevatedOrder
    <3>2. i = p \/ Prio[q[i]] <= Prio[q[p]]
      BY <2>4, <3>1 DEF Sorted
    <3> QED BY <2>1, <2>2, <3>1, <3>2
  <2>5. SUFFICES ASSUME NEW i \in 1..Len(q) + 1, NEW j \in 1..Len(q) + 1, i < j
                 PROVE  Prio[r[j]] <= Prio[r[i]]
    BY <2>1 DEF Sorted
  <2>6. CASE j < p
    <3>1. i \in 1..Len(q) /\ j \in 1..Len(q) /\ r[i] = q[i] /\ r[j] = q[j]
      BY <1>2, <2>1, <2>5, <2>6 DEF PutAt
    <3> QED BY <2>5, <3>1 DEF Sorted
  <2>7. CASE j = p
    <3>1. i \in 1..Len(q) /\ i < p /\ r[i] = q[i] /\ r[j] = t
      BY <1>2, <2>1, <2>5, <2>7 DEF PutAt
    <3> QED BY <2>3, <3>1
  <2>8. CASE j > p
    <3>1. j - 1 \in 1..Len(q) /\ r[j] = q[j - 1] /\ j - 1 >= p
      BY <1>2, <2>1, <2>8 DEF PutAt
    <3>2. CASE i < p
      <4>1. i \in 1..Len(q) /\ r[i] = q[i] /\ i < j - 1
        BY <1>2, <2>1, <2>8, <3>2 DEF PutAt
      <4> QED BY <3>1, <4>1 DEF Sorted
    <3>3. CASE i = p
      <4>1. r[i] = t
        BY <1>2, <3>3 DEF PutAt
      <4> QED BY <2>4, <3>1, <4>1
    <3>4. CASE i > p
      <4>1. i - 1 \in 1..Len(q) /\ r[i] = q[i - 1] /\ i - 1 < j - 1
        BY <1>2, <2>1, <2>5, <3>4 DEF PutAt
      <4> QED BY <3>1, <4>1 DEF Sorted
    <3> QED BY <1>2, <3>2, <3>3, <3>4
  <2> QED BY <1>2, <2>6, <2>7, <2>8
<1>3. \/ r = q
      \/ \E p \in 1..Len(q) + 1 :
            /\ PutAt(r, q, p, t)
            /\ \A i \in 1..p - 1 : ~GoesBefore(t, q[i], elev, ceil)
            /\ p <= Len(q) => GoesBefore(t, q[p], elev, ceil)
  BY AddShape
<1> QED BY <1>1, <1>2, <1>3

LEMMA RemoveSorted ==
    ASSUME NEW q \in Seq(Task), NEW t, Sorted(q)
    PROVE  Sorted(Remove(q, t))
<1> DEFINE r == Remove(q, t)
<1>1. CASE r = q
  BY <1>1
<1>2. ASSUME NEW p \in 1..Len(q), TakenFrom(r, q, p) PROVE Sorted(r)
  <2> HIDE DEF r
  <2>1. Len(q) \in Nat /\ Len(r) = Len(q) - 1
    BY <1>2 DEF TakenFrom
  <2> DEFINE old(x) == IF x < p THEN x ELSE x + 1
  <2>2. \A x \in 1..Len(q) - 1 : old(x) \in 1..Len(q) /\ r[x] = q[old(x)]
    BY <1>2, <2>1 DEF TakenFrom
  <2>3. \A x, y \in 1..Len(q) - 1 : x < y => old(x) < old(y)
    BY <1>2, <2>1
  <2> HIDE DEF old
  <2> QED BY <2>1, <2>2, <2>3 DEF Sorted
<1>3. r = q \/ \E p \in 1..Len(q) : TakenFrom(r, q, p)
  BY RemoveShape
<1> QED BY <1>1, <1>2, <1>3

\* The head of a queue in order has the highest priority of it.
LEMMA HeadIsHighest ==
    ASSUME NEW q \in Seq(Task), Sorted(q), q # <<>>, NEW t \in Queued(q)
    PROVE  Prio[t] <= Prio[q[1]]
<1>1. PICK i \in 1..Len(q) : t = q[i]
  BY DEF Queued
<1>2. q[1] \in Task /\ Prio[q[1]] \in Nat /\ Len(q) \in Nat \ {0}
  BY QueueAssumption
<1>3. i = 1 \/ Prio[q[i]] <= Prio[q[1]]
  BY <1>2 DEF Sorted
<1> QED BY <1>1, <1>2, <1>3
=============================================================================
