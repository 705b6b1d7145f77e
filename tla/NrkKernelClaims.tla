-------------------------- MODULE NrkKernelClaims --------------------------
(***************************************************************************)
(* What comments of the kernel and of its users say of it, and the kernel  *)
(* does not do.  Each is checked on its own, on an instance of NrkKernel   *)
(* where TLC finds it violated.                                            *)
(***************************************************************************)
EXTENDS NrkKernel

\* nrk_scheduler.c:273: "task_ID holds the highest priority READY task ID".
\* nrk_event_wait arms the task before it disables interrupts; a signal in
\* between makes a task that is still queued SUSPENDED, and the scheduler
\* queues it a second time.  Each time leaves one node more in the queue,
\* until nrk_add_to_readyQ finds no free node and drops a task without a word.
HighestReadyRuns ==
    sched = Off => \A t \in Task : tcb[t].state = "READY" => Prio[t] <= Prio[cur]

\* nrk_scheduler.c:202-203: "next_period needs to be set such that the period
\* is kept consistent even if other wait until functions are called": every
\* pass takes the elapsed ticks off next_period, modulo the period.
PeriodKept ==
    [][\A t \in Task \ {Idle} :
          sched = t /\ sched' = t + 1 /\ tcb[t].numPeriods = 1
              => (tcb'[t].nextPeriod - (tcb[t].nextPeriod - prevTimer)) % Period[t] = 0]_vars

\* BufferManager.c:578, of nrk_sem_create(1, ...): "create the mutex".
MutualExclusion ==
    \A r \in Sem : Cardinality({t \in Task : r \in holds[t]}) <= SemCount[r]
=============================================================================
