---------------------------- MODULE NrkReadyList ----------------------------
(***************************************************************************)
(* The ready queue as nrk_task.c keeps it: a doubly linked list threaded   *)
(* through the static array _nrk_readyQ, with the unused nodes on a list   *)
(* of their own.  Each operator below is one C function on the whole       *)
(* structure; a pointer is a node index or NULL.  A write through a NULL   *)
(* pointer sets fault (on the AVR it lands in the register file).          *)
(***************************************************************************)
EXTENDS NrkQueueOps

CONSTANT Ceiling

VARIABLES list,           \* [task, prev, next, head, free, fault]
          elevated, ceil  \* the two TCB fields the scan reads

vars == <<list, elevated, ceil>>

Node == 0..PoolSize - 1
NULL == -1

\* The list nrk_init builds: every node free, in array order.  The array is
\* static, so its task numbers are 0, which is NRK_IDLE_TASK_ID.
EmptyPool ==
    [task  |-> [n \in Node |-> Idle],
     prev  |-> [n \in Node |-> n - 1],
     next  |-> [n \in Node |-> IF n = PoolSize - 1 THEN NULL ELSE n + 1],
     head  |-> NULL,
     free  |-> 0,
     fault |-> FALSE]

\* The node the scan of nrk_add_to_readyQ stops at, NULL past the end.
ScanStop(l, t) ==
    LET from[n \in Node \cup {NULL}] ==
            IF n = NULL \/ GoesBefore(t, l.task[n], elevated, ceil)
            THEN n ELSE from[l.next[n]]
    IN  from[l.head]

\* The node after the scan of nrk_rem_from_readyQ for task t, NULL if none.
FindNode(l, t) ==
    LET from[n \in Node \cup {NULL}] ==
            IF n = NULL \/ l.task[n] = t THEN n ELSE from[l.next[n]]
    IN  from[l.head]

\* p->field = v when p may be NULL
Store(f, p, v) == IF p = NULL THEN f ELSE [f EXCEPT ![p] = v]

\* A node becomes the head of an empty list, then of a list with a head.
LinkFirst(l, cur) ==
    [l EXCEPT !.next[cur] = NULL,
              !.prev = Store([@ EXCEPT ![cur] = NULL], l.free, cur),
              !.head = cur,
              !.fault = @ \/ l.free = NULL]

LinkAtHead(l, cur) ==
    [l EXCEPT !.next[cur] = l.head,
              !.prev = [@ EXCEPT ![cur] = NULL, ![l.head] = cur],
              !.head = cur]

\* Faulty variant: the node after the new one keeps its prev pointer.
LinkHalfBefore(l, cur, stop) ==
    [l EXCEPT !.prev[cur] = l.prev[stop],
              !.next = [@ EXCEPT ![cur] = stop, ![l.prev[stop]] = cur]]

LinkBefore(l, cur, stop) ==
    [l EXCEPT !.prev = [@ EXCEPT ![cur] = l.prev[stop], ![stop] = cur],
              !.next = [@ EXCEPT ![cur] = stop, ![l.prev[stop]] = cur]]

\* nrk_add_to_readyQ.  "insert at end" needs a scan that ends at NULL with an
\* empty free list; it and the middle case with NULL write through NULL.
ListAdd(l, t) ==
    LET cur   == l.free
        stop  == ScanStop(l, t)
        taken == [l EXCEPT !.task[cur] = t, !.free = l.next[cur]]
    IN  IF cur = NULL THEN l
        ELSE IF l.head = NULL THEN LinkFirst(taken, cur)
        ELSE IF stop = l.head THEN LinkAtHead(taken, cur)
        ELSE IF stop = NULL THEN [taken EXCEPT !.fault = TRUE]
        ELSE LinkBefore(taken, cur, stop)

\* Faulty variant: the head goes, whichever node holds the task.
UnlinkHead(l, cur) ==
    [l EXCEPT !.head = l.next[l.head],
              !.prev = Store(@, l.next[l.head], NULL)]

Unlink(l, cur) ==
    IF cur = l.head
    THEN [l EXCEPT !.head = l.next[cur],
                   !.prev = Store(@, l.next[cur], NULL),
                   !.fault = @ \/ l.next[cur] = NULL]
    ELSE [l EXCEPT !.next[l.prev[cur]] = l.next[cur],
                   !.prev = Store(@, l.next[cur], l.prev[cur])]

\* The node goes to the front of the free list.
Release(l, cur) ==
    [l EXCEPT !.next[cur] = l.free,
              !.prev = [Store(@, l.free, cur) EXCEPT ![cur] = NULL],
              !.free = cur]

\* nrk_rem_from_readyQ
ListRemove(l, t) ==
    LET cur == FindNode(l, t)
    IN  IF cur = NULL THEN l ELSE Release(Unlink(l, cur), cur)

-----------------------------------------------------------------------------
Init == /\ elevated = [t \in Task |-> FALSE]
        /\ ceil = [t \in Task |-> 0]
        /\ list = ListAdd(EmptyPool, Idle)

AddToReadyQ(t) ==
    /\ list' = ListAdd(list, t)
    /\ UNCHANGED <<elevated, ceil>>

RemFromReadyQ(t) ==
    /\ list' = ListRemove(list, t)
    /\ UNCHANGED <<elevated, ceil>>

Elevate(t, c) ==
    /\ elevated' = [elevated EXCEPT ![t] = TRUE]
    /\ ceil' = [ceil EXCEPT ![t] = c]
    /\ UNCHANGED list

Lower(t) ==
    /\ elevated' = [elevated EXCEPT ![t] = FALSE]
    /\ UNCHANGED <<list, ceil>>

Next == \E t \in Task \ {Idle} :
            \/ AddToReadyQ(t)
            \/ RemFromReadyQ(t)
            \/ \E c \in Ceiling : Elevate(t, c)
            \/ Lower(t)

Spec == Init /\ [][Next]_vars
-----------------------------------------------------------------------------
(* The abstraction: the tasks met along next from head, and how many nodes *)
(* the two lists hold.                                                     *)

PathFrom(l, start) ==
    LET path[n \in Node \cup {NULL}] ==
            IF n = NULL THEN <<>> ELSE <<n>> \o path[l.next[n]]
    IN  path[start]

AbstractQueue ==
    LET p == PathFrom(list, list.head) IN [i \in 1..Len(p) |-> list.task[p[i]]]

Abstract == INSTANCE NrkReadyQueue WITH queue <- AbstractQueue

\* The linked list does what the sequence promises: every insertion and
\* removal leaves the tasks in the order Add and Remove give, the free nodes
\* run out exactly at PoolSize (nrk_task.c:60-222).
ImplementsQueue == Abstract!Spec

\* No insertion or removal writes through a NULL pointer: neither
\* _head_node->Prev after a removal at the head nor NextNode->Prev after a
\* scan that fell off the list.
NoNullWrite == ~list.fault

\* Every node is on exactly one of the two lists: none leaks, none is shared.
PoolPartitioned ==
    LET q == PathFrom(list, list.head)
        f == PathFrom(list, list.free)
    IN  /\ Len(q) + Len(f) = PoolSize
        /\ {q[i] : i \in 1..Len(q)} \cup {f[i] : i \in 1..Len(f)} = Node

\* The prev pointers of the queued nodes run the list backwards; a removal
\* from the middle relies on them.
PrevMirrorsNext ==
    LET q == PathFrom(list, list.head)
    IN  \A i \in 1..Len(q) :
            list.prev[q[i]] = IF i = 1 THEN NULL ELSE q[i - 1]

\* Every pointer is NULL or points into the array (nrk.c:178-187).
TypeOK == /\ elevated \in [Task -> BOOLEAN]
          /\ ceil \in [Task -> Ceiling \cup {0}]
          /\ list.task \in [Node -> Task]
          /\ list.prev \in [Node -> Node \cup {NULL}]
          /\ list.next \in [Node -> Node \cup {NULL}]
          /\ list.head \in Node \cup {NULL}
          /\ list.free \in Node \cup {NULL}
          /\ list.fault \in BOOLEAN

\* The array is one list that can be walked both ways and one chain of free
\* nodes, whatever was inserted and removed (nrk_task.c:60-222).
ListSound == TypeOK /\ PoolPartitioned /\ PrevMirrorsNext
=============================================================================
