---------------------------- MODULE NrkQueueOps ----------------------------
(***************************************************************************)
(* What the two ready-queue functions of the Nano-RK kernel compute, as    *)
(* operators on the sequence of task identifiers the linked list holds     *)
(* (firefly/src/kernel/source/nrk_task.c: nrk_add_to_readyQ and            *)
(* nrk_rem_from_readyQ).  The head of the sequence is the task the         *)
(* scheduler runs.                                                         *)
(*                                                                         *)
(* A larger number is a higher priority: the scan stops at the first       *)
(* queued task whose priority is SMALLER.  A task may hold a ceiling: elev *)
(* is elevated_prio_flag and ceil is task_prio_ceil.                       *)
(***************************************************************************)
EXTENDS Integers, Sequences

CONSTANTS Task,         \* the entries of nrk_task_TCB that hold a task
          Idle,         \* NRK_IDLE_TASK_ID
          Prio,         \* task_prio of every task
          PoolSize      \* nodes of _nrk_readyQ: NRK_MAX_TASKS + 1

\* The idle task has priority 0 (nrk_init); every task of the applications
\* has priority 1 or more; the pool has a node for every task, the idle task
\* among them, and one more.
ASSUME QueueAssumption ==
    /\ Task \subseteq Nat
    /\ Idle \in Task
    /\ Prio \in [Task -> Nat]
    /\ Prio[Idle] = 0
    /\ \A t \in Task \ {Idle} : Prio[t] > 0
    /\ PoolSize \in Nat \ {0, 1}

\* The length of the longest prefix of 1..n inside S: where a scan of n nodes
\* that goes on while the node is in S comes to a stop.
ScanLength(S, n) ==
    CHOOSE k \in 0..n : /\ \A i \in 1..k : i \in S
                        /\ k < n => k + 1 \notin S

\* Faulty variants: 0 as the highest priority, and a task put before its equals.
ZeroGoesBefore(t, u, elev, ceil) == Prio[u] > Prio[t]
EqualGoesBefore(t, u, elev, ceil) == Prio[u] <= Prio[t]

\* The three tests of the scan in nrk_add_to_readyQ.  The third one looks at
\* base priorities only, whatever the flags of the queued task say.
GoesBefore(t, u, elev, ceil) ==
    \/ elev[u] /\ ceil[u] < Prio[t]
    \/ elev[t] /\ Prio[u] < ceil[t]
    \/ Prio[u] < Prio[t]

\* Faulty variant: first come, first served before the idle task.
InsertBeforeIdle(q, t, elev, ceil) == Len(q)

InsertPosition(q, t, elev, ceil) ==
    ScanLength({i \in 1..Len(q) : ~GoesBefore(t, q[i], elev, ceil)}, Len(q)) + 1

InsertAtPosition(q, p, t) ==
    [i \in 1..Len(q) + 1 |-> IF i < p THEN q[i] ELSE IF i = p THEN t ELSE q[i - 1]]

\* Faulty variant: two nodes of the pool are never handed out.
AddToShortPool(q, t, elev, ceil) ==
    IF Len(q) + 2 >= PoolSize THEN q
    ELSE InsertAtPosition(q, InsertPosition(q, t, elev, ceil), t)

\* nrk_add_to_readyQ: nothing happens when the pool has no free node.
Add(q, t, elev, ceil) ==
    IF Len(q) = PoolSize THEN q
    ELSE InsertAtPosition(q, InsertPosition(q, t, elev, ceil), t)

FirstPosition(q, t) == ScanLength({i \in 1..Len(q) : q[i] # t}, Len(q)) + 1

RemoveAtPosition(q, p) ==
    [i \in 1..Len(q) - 1 |-> IF i < p THEN q[i] ELSE q[i + 1]]

\* nrk_rem_from_readyQ: the first node of the task, if there is one.
Remove(q, t) ==
    IF \E i \in 1..Len(q) : q[i] = t
    THEN RemoveAtPosition(q, FirstPosition(q, t))
    ELSE q

Queued(q) == {q[i] : i \in 1..Len(q)}
Occurrences(q, t) == {i \in 1..Len(q) : q[i] = t}

IdleAtEnd(q) == /\ q # <<>>
                /\ q[Len(q)] = Idle
                /\ \A i \in 1..Len(q) - 1 : q[i] # Idle
=============================================================================
