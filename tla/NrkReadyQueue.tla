--------------------------- MODULE NrkReadyQueue ---------------------------
(***************************************************************************)
(* What the kernel is promised by its ready queue: a sequence of tasks in  *)
(* a pool of PoolSize places, changed by NrkQueueOps!Add and Remove, while *)
(* the elevation of tasks (nrk_sem_pend, nrk_sem_post) changes around it.  *)
(* NrkReadyList, the linked list of nrk_task.c, implements it.             *)
(***************************************************************************)
EXTENDS NrkQueueOps

CONSTANT Ceiling          \* resource_ceiling values semaphores were created with

VARIABLES queue,          \* the tasks in the order of the list from _head_node
          elevated,       \* elevated_prio_flag of every task
          ceil            \* task_prio_ceil of every task

vars == <<queue, elevated, ceil>>

\* After nrk_init: nrk_activate_task has queued the idle task.
Init == /\ queue = <<Idle>>
        /\ elevated = [t \in Task |-> FALSE]
        /\ ceil = [t \in Task |-> 0]

AddToReadyQ(t) ==
    /\ queue' = Add(queue, t, elevated, ceil)
    /\ UNCHANGED <<elevated, ceil>>

RemFromReadyQ(t) ==
    /\ queue' = Remove(queue, t)
    /\ UNCHANGED <<elevated, ceil>>

Elevate(t, c) ==
    /\ elevated' = [elevated EXCEPT ![t] = TRUE]
    /\ ceil' = [ceil EXCEPT ![t] = c]
    /\ UNCHANGED queue

Lower(t) ==
    /\ elevated' = [elevated EXCEPT ![t] = FALSE]
    /\ UNCHANGED <<queue, ceil>>

\* The idle task is queued once, by nrk_init, and never waits: no caller
\* adds or removes it afterwards, and it takes no semaphore.
Next == \E t \in Task \ {Idle} :
            \/ AddToReadyQ(t)
            \/ RemFromReadyQ(t)
            \/ \E c \in Ceiling : Elevate(t, c)
            \/ Lower(t)

Spec == Init /\ [][Next]_vars
=============================================================================
