-------------------------- MODULE NrkKernelProofs --------------------------
(***************************************************************************)
(* The invariant of NrkKernel for every set of tasks, priorities, periods, *)
(* programs, signals and semaphores: the types, and that the idle task is  *)
(* always the last one queued.                                             *)
(*                                                                         *)
(* IdleLast is not inductive.  A step that removes a task from the queue   *)
(* or adds one must be shown not to do so with the idle task, and which    *)
(* task it is depends on its control block: the scheduler removes the      *)
(* current task when it has asked to wait, and adds every SUSPENDED task   *)
(* whose wakeup is due.  IdleUntouched says that the idle task's block     *)
(* never lets either happen, because the idle task makes no call and no    *)
(* signal, deletion or semaphore reaches a task that has armed nothing.    *)
(* WantsSem is what the type of a semaphore access after a wait needs.     *)
(*                                                                         *)
(* The second part is about semaphores: SemAccounting and NoLostSemWakeup. *)
(***************************************************************************)
EXTENDS NrkKernel, NrkQueueLemmas, FiniteSetTheorems

IdleUntouched == /\ tcb[Idle].state = "READY"
                 /\ ~tcb[Idle].suspend
                 /\ tcb[Idle].event = None
                 /\ tcb[Idle].active = {}
                 /\ tcb[Idle].registered = {}
                 /\ pc[Idle] = "run"

WantsSem == \A t \in Task :
                pc[t] \in {"pendarmed", "pendwait", "posting"} => want[t] \in Sem

Activated == activated # Idle

Inv == TypeOK /\ IdleLast /\ IdleUntouched /\ WantsSem /\ Activated

LEMMA TaskRange == /\ PickStep \in Nat /\ Task = 0..PickStep - 1
                   /\ Idle \in Task /\ Task \subseteq Nat
BY KernelAssumption, QueueAssumption, FS_CardinalityType DEF PickStep

\* A task inside a call, or making one, is not the idle task.
LEMMA CallerNotIdle ==
    ASSUME Inv, NEW t \in Task,
           (\E name : Call(t, name)) \/ (\E point : At(t, point) /\ point # "run")
    PROVE  t # Idle
BY KernelAssumption DEF Inv, IdleUntouched, Call, At

\* Changes of a control block keep it one.
LEMMA WaitUpdates ==
    ASSUME NEW tc \in Tcb, NEW b \in BOOLEAN
    PROVE  /\ \A m \in Nat \ {0} : [tc EXCEPT !.suspend = b, !.numPeriods = m] \in Tcb
           /\ \A n \in Nat : [tc EXCEPT !.suspend = b, !.nextWakeup = n] \in Tcb
           /\ \A m \in Nat \ {0}, n \in Nat :
                 [tc EXCEPT !.suspend = b, !.numPeriods = m, !.nextWakeup = n] \in Tcb
           /\ [tc EXCEPT !.suspend = b, !.numPeriods = 1] \in Tcb
           /\ \A n \in Nat :
                 [tc EXCEPT !.suspend = b, !.numPeriods = 1, !.nextWakeup = n] \in Tcb
           /\ [tc EXCEPT !.suspend = b, !.nw = b] \in Tcb
<1>1. /\ \A m \in Nat \ {0} : [tc EXCEPT !.suspend = b, !.numPeriods = m] \in Tcb
      /\ \A n \in Nat : [tc EXCEPT !.suspend = b, !.nextWakeup = n] \in Tcb
      /\ \A m \in Nat \ {0}, n \in Nat :
            [tc EXCEPT !.suspend = b, !.numPeriods = m, !.nextWakeup = n] \in Tcb
      /\ [tc EXCEPT !.suspend = b, !.nw = b] \in Tcb
  BY DEF Tcb
<1>2. 1 \in Nat \ {0}
  OBVIOUS
<1> QED BY <1>1, <1>2

LEMMA EventUpdates ==
    ASSUME NEW tc \in Tcb, NEW S \in SUBSET Nat, NEW e \in None..BothEvents
    PROVE  /\ [tc EXCEPT !.active = S, !.event = e] \in Tcb
           /\ [tc EXCEPT !.event = e, !.active = S] \in Tcb
           /\ \A R \in SUBSET Signal : [tc EXCEPT !.registered = R, !.active = S] \in Tcb
           /\ \A R \in SUBSET Signal, st \in TaskState :
                 [tc EXCEPT !.active = S, !.event = e, !.state = st, !.registered = R] \in Tcb
           /\ \A n \in Nat, st \in TaskState :
                 [tc EXCEPT !.state = st, !.nextWakeup = n, !.event = e, !.active = S] \in Tcb
BY DEF Tcb

LEMMA FieldUpdates ==
    ASSUME NEW tc \in Tcb
    PROVE  /\ \A st \in TaskState : [tc EXCEPT !.state = st] \in Tcb
           /\ \A n \in Nat : [tc EXCEPT !.nextWakeup = n] \in Tcb
           /\ \A n \in Nat : [tc EXCEPT !.cpuRemaining = n] \in Tcb
           /\ \A R \in SUBSET Signal : [tc EXCEPT !.registered = R] \in Tcb
           /\ \A n \in Nat, b \in BOOLEAN : [tc EXCEPT !.ceil = n, !.elevated = b] \in Tcb
           /\ \A b \in BOOLEAN : [tc EXCEPT !.elevated = b] \in Tcb
BY DEF Tcb

\* One change of one block, as the actions write it.
LEMMA TcbTypeAt ==
    ASSUME TcbTypeOK, NEW t \in Task, NEW tc \in Tcb, tcb' = [tcb EXCEPT ![t] = tc]
    PROVE  TcbTypeOK' /\ \A u \in Task \ {t} : tcb'[u] = tcb[u]
BY DEF TcbTypeOK

LEMMA WaitForSchedulerType ==
    ASSUME TimeTypeOK, WaitForScheduler PROVE TimeTypeOK'
<1>1. timer' \in Nat /\ compare' \in Nat /\ prevTimer' \in Nat
  BY KernelAssumption DEF TimeTypeOK, WaitForScheduler
<1>2. ints' \in BOOLEAN /\ pending' \in BOOLEAN
  BY Zenon DEF TimeTypeOK, WaitForScheduler
<1> QED BY <1>1, <1>2 DEF TimeTypeOK

LEMMA IntsOnType ==
    ASSUME TimeTypeOK, ints' = TRUE, UNCHANGED <<timer, compare, prevTimer, pending>>
    PROVE  TimeTypeOK'
<1>1. ints' \in BOOLEAN
  BY Zenon
<1> QED BY <1>1 DEF TimeTypeOK

LEMMA ReadyKeepsQueue ==
    ASSUME TcbTypeOK, QueueTypeOK, IdleLast, NEW t \in Task \ {Idle}
    PROVE  LET q == AddReady(queue, t, tcb)
           IN  q \in Seq(Task) /\ Len(q) <= PoolSize /\ IdleAtEnd(q)
BY AddType, AddKeepsIdleAtEnd DEF AddReady, QueueTypeOK, IdleLast

LEMMA SuspendedType ==
    ASSUME NEW tc \in Tcb PROVE Suspended(tc) \in Tcb
<1>1. PICK b \in BOOLEAN : b = FALSE
  OBVIOUS
<1>2. tc.nextPeriod \in Nat /\ tc.nextWakeup \in Nat
  BY DEF Tcb
<1>3. (IF tc.nextWakeup = 0 THEN tc.nextPeriod ELSE tc.nextWakeup) \in Nat
  BY <1>2
<1>4. /\ \A st \in TaskState : [tc EXCEPT !.state = st] \in Tcb
      /\ \A st \in TaskState, n \in Nat :
            [tc EXCEPT !.state = st, !.nw = b, !.nextWakeup = n] \in Tcb
  BY DEF Tcb
<1>5. "EVENT_SUSPENDED" \in TaskState /\ "SUSPENDED" \in TaskState
  BY DEF TaskState
<1> QED BY <1>1, <1>3, <1>4, <1>5 DEF Suspended

\* What is left of the invariant when a step leaves the queue, the
\* scheduler and the idle task alone.
LEMMA QuietStep ==
    ASSUME Inv, TcbTypeOK', TimeTypeOK', CallTypeOK', SemTypeOK', WantsSem',
           UNCHANGED <<queue, cur, sched, activated, nextWake>>,
           tcb'[Idle] = tcb[Idle], pc'[Idle] = pc[Idle]
    PROVE  Inv'
BY DEF Inv, TypeOK, QueueTypeOK, SchedTypeOK, IdleLast, IdleUntouched, Activated

LEMMA InitInv == Init => Inv
<1> SUFFICES ASSUME Init PROVE Inv
  OBVIOUS
<1> USE KernelAssumption, QueueAssumption, TaskRange DEF Init
<1>1. TcbTypeOK
  BY DEF TcbTypeOK, BootTcb, Tcb, TaskState, None, BothEvents
<1>2. QueueTypeOK
  BY DEF QueueTypeOK
<1>3. TimeTypeOK
  <2>1. timer \in Nat /\ compare \in Nat /\ prevTimer \in Nat
    OBVIOUS
  <2>2. ints \in BOOLEAN /\ pending \in BOOLEAN
    BY Zenon
  <2> QED BY <2>1, <2>2 DEF TimeTypeOK
<1>4. SchedTypeOK
  BY DEF SchedTypeOK
<1>5. CallTypeOK
  BY DEF CallTypeOK, Point
<1>6. SemTypeOK
  BY DEF SemTypeOK
<1>7. IdleLast
  BY DEF IdleLast, IdleAtEnd
<1>8. IdleUntouched /\ WantsSem /\ Activated
  BY DEF IdleUntouched, BootTcb, WantsSem, Activated
<1> QED BY <1>1, <1>2, <1>3, <1>4, <1>5, <1>6, <1>7, <1>8 DEF Inv, TypeOK

\* A step of a task's own that changes its block to tc and no queue.
LEMMA OwnStep ==
    ASSUME Inv, NEW t \in Task \ {Idle}, NEW tc \in Tcb, tcb' = [tcb EXCEPT ![t] = tc],
           TimeTypeOK', CallTypeOK', SemTypeOK', WantsSem',
           UNCHANGED <<queue, cur, sched, activated, nextWake>>, pc'[Idle] = pc[Idle]
    PROVE  Inv'
BY TcbTypeAt, QuietStep, TaskRange DEF Inv, TypeOK

LEMMA WaitUntilNextPeriodInv ==
    ASSUME Inv, NEW t \in Task, WaitUntilNextPeriod(t) PROVE Inv'
<1>1. t # Idle
  BY CallerNotIdle DEF WaitUntilNextPeriod
<1> DEFINE tc == [tcb[t] EXCEPT !.suspend = TRUE, !.numPeriods = 1]
<1>2. tc \in Tcb
  <2>1. tcb[t] \in Tcb
    BY DEF Inv, TypeOK, TcbTypeOK
  <2>2. PICK b \in BOOLEAN : b = TRUE
    OBVIOUS
  <2>3. [tcb[t] EXCEPT !.suspend = b, !.numPeriods = 1] \in Tcb
    BY <2>1, WaitUpdates
  <2> QED BY <2>2, <2>3
<1>3. tcb' = [tcb EXCEPT ![t] = tc]
  BY DEF WaitUntilNextPeriod, Inv, TypeOK, TcbTypeOK
<1> HIDE DEF tc
<1>4. WaitForScheduler
  BY DEF WaitUntilNextPeriod
<1>5. TimeTypeOK'
  BY <1>4, WaitForSchedulerType DEF Inv, TypeOK
<1>6. CallTypeOK' /\ SemTypeOK' /\ WantsSem' /\ pc'[Idle] = pc[Idle]
  BY <1>1 DEF WaitUntilNextPeriod, callVars, semVars, Inv, TypeOK, CallTypeOK, SemTypeOK, WantsSem
<1>7. UNCHANGED <<queue, cur, sched, activated, nextWake>>
  BY <1>4 DEF WaitUntilNextPeriod, WaitForScheduler, schedVars
<1> QED BY <1>1, <1>2, <1>3, <1>5, <1>6, <1>7, OwnStep

LEMMA WaitUntilNextNPeriodsInv ==
    ASSUME Inv, NEW t \in Task, NEW p \in Periods, WaitUntilNextNPeriods(t, p) PROVE Inv'
<1>1. t # Idle
  BY CallerNotIdle DEF WaitUntilNextNPeriods
<1> DEFINE tc == [tcb[t] EXCEPT !.suspend = TRUE, !.numPeriods = IF p = 0 THEN 1 ELSE p]
<1>2. tc \in Tcb
  <2>1. tcb[t] \in Tcb
    BY DEF Inv, TypeOK, TcbTypeOK
  <2>2. PICK b \in BOOLEAN : b = TRUE
    OBVIOUS
  <2>3. (IF p = 0 THEN 1 ELSE p) \in Nat \ {0}
    BY KernelAssumption
  <2>4. \A m \in Nat \ {0} : [tcb[t] EXCEPT !.suspend = b, !.numPeriods = m] \in Tcb
    BY <2>1, WaitUpdates
  <2> QED BY <2>2, <2>3, <2>4
<1>3. tcb' = [tcb EXCEPT ![t] = tc]
  BY DEF WaitUntilNextNPeriods, Inv, TypeOK, TcbTypeOK
<1> HIDE DEF tc
<1>4. WaitForScheduler
  BY DEF WaitUntilNextNPeriods
<1>5. TimeTypeOK'
  BY <1>4, WaitForSchedulerType DEF Inv, TypeOK
<1>6. CallTypeOK' /\ SemTypeOK' /\ WantsSem' /\ pc'[Idle] = pc[Idle]
  BY <1>1 DEF WaitUntilNextNPeriods, callVars, semVars, Inv, TypeOK, CallTypeOK, SemTypeOK, WantsSem
<1>7. UNCHANGED <<queue, cur, sched, activated, nextWake>>
  BY <1>4 DEF WaitUntilNextNPeriods, WaitForScheduler, schedVars
<1> QED BY <1>1, <1>2, <1>3, <1>5, <1>6, <1>7, OwnStep

LEMMA WaitTicksInv ==
    ASSUME Inv, NEW t \in Task, NEW n \in Delay, WaitTicks(t, n) PROVE Inv'
<1>1. t # Idle
  BY CallerNotIdle DEF WaitTicks
<1> DEFINE tc == [tcb[t] EXCEPT !.suspend = TRUE, !.nextWakeup = n + timer]
<1>2. tc \in Tcb
  <2>1. tcb[t] \in Tcb
    BY DEF Inv, TypeOK, TcbTypeOK
  <2>2. PICK b \in BOOLEAN : b = TRUE
    OBVIOUS
  <2>3. n + timer \in Nat
    BY KernelAssumption DEF Inv, TypeOK, TimeTypeOK
  <2>4. [tcb[t] EXCEPT !.suspend = b, !.nextWakeup = n + timer] \in Tcb
    BY <2>1, <2>3, WaitUpdates
  <2> QED BY <2>2, <2>4
<1>3. tcb' = [tcb EXCEPT ![t] = tc]
  BY DEF WaitTicks, Inv, TypeOK, TcbTypeOK
<1> HIDE DEF tc
<1>4. WaitForScheduler
  BY DEF WaitTicks
<1>5. TimeTypeOK'
  BY <1>4, WaitForSchedulerType DEF Inv, TypeOK
<1>6. CallTypeOK' /\ SemTypeOK' /\ WantsSem' /\ pc'[Idle] = pc[Idle]
  BY <1>1 DEF WaitTicks, callVars, semVars, Inv, TypeOK, CallTypeOK, SemTypeOK, WantsSem
<1>7. UNCHANGED <<queue, cur, sched, activated, nextWake>>
  BY <1>4 DEF WaitTicks, WaitForScheduler, schedVars
<1> QED BY <1>1, <1>2, <1>3, <1>5, <1>6, <1>7, OwnStep

LEMMA WaitUntilTicksInv ==
    ASSUME Inv, NEW t \in Task, NEW n \in Delay, WaitUntilTicks(t, n) PROVE Inv'
<1>1. t # Idle
  BY CallerNotIdle DEF WaitUntilTicks
<1> DEFINE tc == [tcb[t] EXCEPT !.suspend = TRUE, !.nextWakeup = n]
<1>2. tc \in Tcb
  <2>1. tcb[t] \in Tcb
    BY DEF Inv, TypeOK, TcbTypeOK
  <2>2. PICK b \in BOOLEAN : b = TRUE
    OBVIOUS
  <2>3. n \in Nat
    BY KernelAssumption DEF Inv, TypeOK, TimeTypeOK
  <2>4. [tcb[t] EXCEPT !.suspend = b, !.nextWakeup = n] \in Tcb
    BY <2>1, <2>3, WaitUpdates
  <2> QED BY <2>2, <2>4
<1>3. tcb' = [tcb EXCEPT ![t] = tc]
  BY DEF WaitUntilTicks, Inv, TypeOK, TcbTypeOK
<1> HIDE DEF tc
<1>4. WaitForScheduler
  BY DEF WaitUntilTicks
<1>5. TimeTypeOK'
  BY <1>4, WaitForSchedulerType DEF Inv, TypeOK
<1>6. CallTypeOK' /\ SemTypeOK' /\ WantsSem' /\ pc'[Idle] = pc[Idle]
  BY <1>1 DEF WaitUntilTicks, callVars, semVars, Inv, TypeOK, CallTypeOK, SemTypeOK, WantsSem
<1>7. UNCHANGED <<queue, cur, sched, activated, nextWake>>
  BY <1>4 DEF WaitUntilTicks, WaitForScheduler, schedVars
<1> QED BY <1>1, <1>2, <1>3, <1>5, <1>6, <1>7, OwnStep

LEMMA WaitInv ==
    ASSUME Inv, NEW t \in Task, NEW n \in Delay, Wait(t, n) PROVE Inv'
<1>1. t # Idle
  BY CallerNotIdle DEF Wait
<1> DEFINE tc == [tcb[t] EXCEPT !.suspend = TRUE, !.numPeriods = 1, !.nextWakeup = n + timer]
<1>2. tc \in Tcb
  <2>1. tcb[t] \in Tcb
    BY DEF Inv, TypeOK, TcbTypeOK
  <2>2. PICK b \in BOOLEAN : b = TRUE
    OBVIOUS
  <2>3. n + timer \in Nat
    BY KernelAssumption DEF Inv, TypeOK, TimeTypeOK
  <2>4. [tcb[t] EXCEPT !.suspend = b, !.numPeriods = 1, !.nextWakeup = n + timer] \in Tcb
    BY <2>1, <2>3, WaitUpdates
  <2> QED BY <2>2, <2>4
<1>3. tcb' = [tcb EXCEPT ![t] = tc]
  BY DEF Wait, Inv, TypeOK, TcbTypeOK
<1> HIDE DEF tc
<1>4. WaitForScheduler
  BY DEF Wait
<1>5. TimeTypeOK'
  BY <1>4, WaitForSchedulerType DEF Inv, TypeOK
<1>6. CallTypeOK' /\ SemTypeOK' /\ WantsSem' /\ pc'[Idle] = pc[Idle]
  BY <1>1 DEF Wait, callVars, semVars, Inv, TypeOK, CallTypeOK, SemTypeOK, WantsSem
<1>7. UNCHANGED <<queue, cur, sched, activated, nextWake>>
  BY <1>4 DEF Wait, WaitForScheduler, schedVars
<1> QED BY <1>1, <1>2, <1>3, <1>5, <1>6, <1>7, OwnStep

LEMMA TerminateWaitInv ==
    ASSUME Inv, NEW t \in Task, TerminateWait(t) PROVE Inv'
<1>1. t # Idle
  BY CallerNotIdle DEF TerminateWait
<1> DEFINE tc == [tcb[t] EXCEPT !.suspend = TRUE, !.numPeriods = 1]
<1>2. tc \in Tcb
  <2>1. tcb[t] \in Tcb
    BY DEF Inv, TypeOK, TcbTypeOK
  <2>2. PICK b \in BOOLEAN : b = TRUE
    OBVIOUS
  <2>3. [tcb[t] EXCEPT !.suspend = b, !.numPeriods = 1] \in Tcb
    BY <2>1, WaitUpdates
  <2> QED BY <2>2, <2>3
<1>3. tcb' = [tcb EXCEPT ![t] = tc]
  BY DEF TerminateWait, Inv, TypeOK, TcbTypeOK
<1> HIDE DEF tc
<1>4. WaitForScheduler
  BY DEF TerminateWait
<1>5. TimeTypeOK'
  BY <1>4, WaitForSchedulerType DEF Inv, TypeOK
<1>6. CallTypeOK' /\ SemTypeOK' /\ WantsSem' /\ pc'[Idle] = pc[Idle]
  BY <1>1, TaskRange DEF TerminateWait, callVars, semVars, Inv, TypeOK, CallTypeOK, Point, SemTypeOK, WantsSem, At
<1>7. UNCHANGED <<queue, cur, sched, activated, nextWake>>
  BY <1>4 DEF TerminateWait, WaitForScheduler, schedVars
<1> QED BY <1>1, <1>2, <1>3, <1>5, <1>6, <1>7, OwnStep

LEMMA SemPendBlockInv ==
    ASSUME Inv, NEW t \in Task, SemPendBlock(t) PROVE Inv'
<1>1. t # Idle
  BY CallerNotIdle DEF SemPendBlock
<1> DEFINE tc == [tcb[t] EXCEPT !.suspend = TRUE, !.nextWakeup = 0]
<1>2. tc \in Tcb
  <2>1. tcb[t] \in Tcb
    BY DEF Inv, TypeOK, TcbTypeOK
  <2>2. PICK b \in BOOLEAN : b = TRUE
    OBVIOUS
  <2>3. [tcb[t] EXCEPT !.suspend = b, !.nextWakeup = 0] \in Tcb
    BY <2>1, WaitUpdates
  <2> QED BY <2>2, <2>3
<1>3. tcb' = [tcb EXCEPT ![t] = tc]
  BY DEF SemPendBlock, Inv, TypeOK, TcbTypeOK
<1> HIDE DEF tc
<1>4. WaitForScheduler
  BY DEF SemPendBlock
<1>5. TimeTypeOK'
  BY <1>4, WaitForSchedulerType DEF Inv, TypeOK
<1>6. CallTypeOK' /\ SemTypeOK' /\ WantsSem' /\ pc'[Idle] = pc[Idle]
  BY <1>1, TaskRange DEF SemPendBlock, callVars, semVars, Inv, TypeOK, CallTypeOK, Point, SemTypeOK, WantsSem, At
<1>7. UNCHANGED <<queue, cur, sched, activated, nextWake>>
  BY <1>4 DEF SemPendBlock, WaitForScheduler, schedVars
<1> QED BY <1>1, <1>2, <1>3, <1>5, <1>6, <1>7, OwnStep

LEMMA EventWaitBlockInv ==
    ASSUME Inv, NEW t \in Task, EventWaitBlock(t) PROVE Inv'
<1>1. t # Idle
  BY CallerNotIdle DEF EventWaitBlock
<1> DEFINE tc == IF WakeupSignal \in waitFor[t]
                THEN [tcb[t] EXCEPT !.suspend = TRUE, !.nw = TRUE]
                ELSE [tcb[t] EXCEPT !.suspend = TRUE, !.nextWakeup = 0]
<1>2. tc \in Tcb
  <2>1. tcb[t] \in Tcb
    BY DEF Inv, TypeOK, TcbTypeOK
  <2>2. PICK b \in BOOLEAN : b = TRUE
    OBVIOUS
  <2>3. /\ [tcb[t] EXCEPT !.suspend = b, !.nextWakeup = 0] \in Tcb
        /\ [tcb[t] EXCEPT !.suspend = b, !.nw = b] \in Tcb
    BY <2>1, WaitUpdates
  <2> QED BY <2>2, <2>3
<1>3. tcb' = [tcb EXCEPT ![t] = tc]
  BY DEF EventWaitBlock, Inv, TypeOK, TcbTypeOK
<1> HIDE DEF tc
<1>4. WaitForScheduler
  BY DEF EventWaitBlock
<1>5. TimeTypeOK'
  BY <1>4, WaitForSchedulerType DEF Inv, TypeOK
<1>6. CallTypeOK' /\ SemTypeOK' /\ WantsSem' /\ pc'[Idle] = pc[Idle]
  BY <1>1, TaskRange DEF EventWaitBlock, callVars, semVars, Inv, TypeOK, CallTypeOK, Point, SemTypeOK, WantsSem, At
<1>7. UNCHANGED <<queue, cur, sched, activated, nextWake>>
  BY <1>4 DEF EventWaitBlock, WaitForScheduler, schedVars
<1> QED BY <1>1, <1>2, <1>3, <1>5, <1>6, <1>7, OwnStep

LEMMA SetNextWakeupInv ==
    ASSUME Inv, NEW t \in Task, NEW n \in Delay, SetNextWakeup(t, n) PROVE Inv'
<1>1. t # Idle
  BY CallerNotIdle DEF SetNextWakeup
<1>2. TcbTypeOK' /\ tcb'[Idle] = tcb[Idle]
  <2>1. tcb[t] \in Tcb /\ n + timer \in Nat
    BY KernelAssumption DEF Inv, TypeOK, TcbTypeOK, TimeTypeOK
  <2>2. [tcb[t] EXCEPT !.nextWakeup = n + timer] \in Tcb
    BY <2>1, FieldUpdates
  <2>3. \/ tcb' = tcb
        \/ tcb' = [tcb EXCEPT ![t] = [tcb[t] EXCEPT !.nextWakeup = n + timer]]
    BY DEF SetNextWakeup
  <2> QED BY <1>1, <2>2, <2>3, TaskRange DEF Inv, TypeOK, TcbTypeOK
<1>3. TimeTypeOK'
  <2>1. ints' \in BOOLEAN
    BY Zenon DEF SetNextWakeup
  <2> QED BY <2>1 DEF SetNextWakeup, Inv, TypeOK, TimeTypeOK
<1>4. CallTypeOK' /\ SemTypeOK' /\ WantsSem' /\ pc'[Idle] = pc[Idle]
  BY DEF SetNextWakeup, callVars, semVars, Inv, TypeOK, CallTypeOK, SemTypeOK, WantsSem
<1> QED BY <1>2, <1>3, <1>4, QuietStep DEF SetNextWakeup, schedVars

LEMMA TerminateDequeueInv ==
    ASSUME Inv, NEW t \in Task, TerminateDequeue(t) PROVE Inv'
<1>1. t # Idle
  BY CallerNotIdle DEF TerminateDequeue
<1>2. QueueTypeOK' /\ IdleLast'
  BY <1>1, RemoveType, RemoveKeepsIdleAtEnd
     DEF TerminateDequeue, Inv, TypeOK, QueueTypeOK, IdleLast
<1>3. CallTypeOK' /\ SemTypeOK' /\ WantsSem' /\ pc'[Idle] = pc[Idle]
  BY <1>1, TaskRange DEF TerminateDequeue, Call, At, semVars, Inv, TypeOK, CallTypeOK,
     Point, SemTypeOK, WantsSem
<1>4. TcbTypeOK' /\ TimeTypeOK' /\ SchedTypeOK' /\ tcb'[Idle] = tcb[Idle]
  BY DEF TerminateDequeue, timeVars, schedVars, Inv, TypeOK, TcbTypeOK, TimeTypeOK,
     SchedTypeOK
<1> QED BY <1>2, <1>3, <1>4 DEF Inv, TypeOK, IdleUntouched, Activated, TerminateDequeue,
  schedVars

LEMMA TerminateFinishInv ==
    ASSUME Inv, NEW t \in Task, TerminateFinish(t) PROVE Inv'
<1>1. t # Idle
  BY CallerNotIdle DEF TerminateFinish
<1> DEFINE tc == [tcb[t] EXCEPT !.state = "FINISHED"]
<1>2. tc \in Tcb
  BY FieldUpdates DEF TaskState, Inv, TypeOK, TcbTypeOK
<1>3. tcb' = [tcb EXCEPT ![t] = tc]
  BY DEF TerminateFinish
<1> HIDE DEF tc
<1>4. CallTypeOK' /\ SemTypeOK' /\ WantsSem' /\ pc'[Idle] = pc[Idle]
  BY <1>1, TaskRange DEF TerminateFinish, At, semVars, Inv, TypeOK, CallTypeOK, Point,
     SemTypeOK, WantsSem
<1>5. TimeTypeOK'
  BY DEF TerminateFinish, timeVars, Inv, TypeOK, TimeTypeOK
<1> QED BY <1>1, <1>2, <1>3, <1>4, <1>5, OwnStep DEF TerminateFinish, schedVars

LEMMA SignalRegisterInv ==
    ASSUME Inv, NEW t \in Task, NEW s \in Signal,
           SignalRegister(t, s) \/ SignalUnregister(t, s)
    PROVE  Inv'
<1>1. t # Idle
  BY CallerNotIdle DEF SignalRegister, SignalUnregister
<1>2. TcbTypeOK' /\ tcb'[Idle] = tcb[Idle]
  <2> DEFINE on == tcb[t].registered \cup {s}
             off == tcb[t].registered \ {s}
             act == tcb[t].active \ {s}
  <2>1. tcb[t] \in Tcb /\ on \in SUBSET Signal /\ off \in SUBSET Signal
        /\ act \in SUBSET Nat
    BY DEF Inv, TypeOK, TcbTypeOK, Tcb
  <2>2. \/ tcb' = [tcb EXCEPT ![t] = [tcb[t] EXCEPT !.registered = on]]
        \/ tcb' = [tcb EXCEPT ![t] = [tcb[t] EXCEPT !.registered = off, !.active = act]]
    BY DEF SignalRegister, SignalUnregister, Inv, TypeOK, TcbTypeOK
  <2> HIDE DEF on, off, act
  <2>3. [tcb[t] EXCEPT !.registered = on] \in Tcb
    BY <2>1, FieldUpdates
  <2>4. [tcb[t] EXCEPT !.registered = off, !.active = act] \in Tcb
    <3>1. None \in None..BothEvents
      BY DEF None, BothEvents
    <3> QED BY <2>1, <3>1, EventUpdates
  <2> QED BY <1>1, <2>2, <2>3, <2>4, TaskRange DEF Inv, TypeOK, TcbTypeOK
<1>3. CallTypeOK' /\ SemTypeOK' /\ WantsSem' /\ pc'[Idle] = pc[Idle] /\ TimeTypeOK'
  BY DEF SignalRegister, SignalUnregister, callVars, semVars, timeVars, Inv, TypeOK,
     CallTypeOK, SemTypeOK, WantsSem, TimeTypeOK
<1> QED BY <1>2, <1>3, QuietStep DEF SignalRegister, SignalUnregister, schedVars

LEMMA SignalCreateInv ==
    ASSUME Inv, NEW t \in Task, SignalCreate(t) PROVE Inv'
<1>1. TcbTypeOK' /\ TimeTypeOK' /\ SemTypeOK' /\ WantsSem' /\ tcb'[Idle] = tcb[Idle]
  BY DEF SignalCreate, tcbVars, timeVars, semVars, callVars, Inv, TypeOK, TcbTypeOK,
     TimeTypeOK, SemTypeOK, WantsSem
<1>2. CallTypeOK' /\ pc'[Idle] = pc[Idle]
  BY DEF SignalCreate, callVars, Inv, TypeOK, CallTypeOK
<1> QED BY <1>1, <1>2, QuietStep DEF SignalCreate, tcbVars, schedVars

LEMMA SignalDeleteInv ==
    ASSUME Inv, NEW t \in Task, NEW s \in Signal, SignalDelete(t, s) PROVE Inv'
<1> DEFINE block(u) ==
             LET alone == tcb[u].registered = {s} IN
             [tcb[u] EXCEPT !.active = IF alone THEN {} ELSE @ \ {s},
                            !.event = IF alone THEN None ELSE @,
                            !.state = IF alone THEN "SUSPENDED" ELSE @,
                            !.registered = @ \ {s}]
<1>1. ASSUME NEW u \in Task PROVE block(u) \in Tcb
  <2>1. tcb[u] \in Tcb /\ None \in None..BothEvents /\ "SUSPENDED" \in TaskState
    BY DEF Inv, TypeOK, TcbTypeOK, None, BothEvents, TaskState
  <2>2. tcb[u].event \in None..BothEvents /\ tcb[u].state \in TaskState
    BY <2>1 DEF Tcb
  <2>3. tcb[u].registered \ {s} \in SUBSET Signal /\ tcb[u].active \ {s} \in SUBSET Nat
    BY <2>1 DEF Tcb
  <2> QED BY <2>1, <2>2, <2>3, EventUpdates
<1>2. tcb' = [u \in Task |-> block(u)]
  BY DEF SignalDelete
<1>3. tcb'[Idle] = tcb[Idle]
  <2>1. /\ Idle \in Task /\ tcb[Idle] \in Tcb
        /\ tcb[Idle].registered = {} /\ tcb[Idle].active = {}
    BY TaskRange DEF Inv, IdleUntouched, TypeOK, TcbTypeOK
  <2>2. /\ tcb[Idle].registered # {s}
        /\ tcb[Idle].registered \ {s} = tcb[Idle].registered
        /\ tcb[Idle].active \ {s} = tcb[Idle].active
    BY <2>1
  <2>3. block(Idle) = tcb[Idle]
    BY <2>1, <2>2 DEF Tcb
  <2> QED BY <1>2, <2>1, <2>3
<1>4. TcbTypeOK'
  BY <1>1, <1>2 DEF TcbTypeOK
<1>5. TimeTypeOK'
  BY IntsOnType DEF SignalDelete, Inv, TypeOK
<1>6. CallTypeOK' /\ SemTypeOK' /\ WantsSem' /\ pc'[Idle] = pc[Idle]
  BY DEF SignalDelete, callVars, semVars, Inv, TypeOK, CallTypeOK, SemTypeOK, WantsSem
<1> QED BY <1>3, <1>4, <1>5, <1>6, QuietStep DEF SignalDelete, schedVars

\* A signal leaves the idle task alone: it waits for none.
LEMMA SignalledType ==
    ASSUME Inv, NEW s \in Signal
    PROVE  Signalled(s) \in [Task -> Tcb] /\ Signalled(s)[Idle] = tcb[Idle]
<1>1. ASSUME NEW u \in Task, NEW S \in SUBSET Nat
      PROVE  [tcb[u] EXCEPT !.state = "SUSPENDED", !.nextWakeup = 0,
                            !.event = None, !.active = S] \in Tcb
  <2>1. /\ tcb[u] \in Tcb /\ None \in None..BothEvents
        /\ "SUSPENDED" \in TaskState /\ 0 \in Nat
    BY DEF Inv, TypeOK, TcbTypeOK, None, BothEvents, TaskState
  <2> QED BY <2>1, EventUpdates
<1>2. {s} \in SUBSET Nat /\ {} \in SUBSET Nat
  BY KernelAssumption
<1>3. \A u \in Task : tcb[u] \in Tcb
  BY DEF Inv, TypeOK, TcbTypeOK
<1>4. tcb[Idle].event = None /\ Idle \in Task
  BY TaskRange DEF Inv, IdleUntouched
<1>5. ASSUME NEW u \in Task PROVE Signalled(s)[u] \in Tcb
  BY <1>1, <1>2, <1>3 DEF Signalled
<1>6. Signalled(s) = [u \in Task |-> Signalled(s)[u]]
  BY DEF Signalled
<1>7. Signalled(s)[Idle] = tcb[Idle]
  BY <1>4 DEF Signalled, None, SigEvent, RsrcEvent
<1> QED BY <1>5, <1>6, <1>7

LEMMA EventSignalInv ==
    ASSUME Inv, NEW t \in Task, NEW s \in Signal, EventSignal(t, s) PROVE Inv'
<1>1. TcbTypeOK' /\ tcb'[Idle] = tcb[Idle]
  BY SignalledType DEF EventSignal, TcbTypeOK
<1>2. TimeTypeOK'
  BY IntsOnType DEF EventSignal, Inv, TypeOK
<1>3. CallTypeOK' /\ SemTypeOK' /\ WantsSem' /\ pc'[Idle] = pc[Idle]
  BY DEF EventSignal, callVars, semVars, Inv, TypeOK, CallTypeOK, SemTypeOK, WantsSem
<1> QED BY <1>1, <1>2, <1>3, QuietStep DEF EventSignal, schedVars

LEMMA IsrSignalInv ==
    ASSUME Inv, NEW s \in IsrSignals, IsrSignal(s) PROVE Inv'
<1>1. TcbTypeOK' /\ tcb'[Idle] = tcb[Idle]
  BY SignalledType, KernelAssumption DEF IsrSignal, TcbTypeOK
<1>2. TimeTypeOK'
  BY DEF IsrSignal, timeVars, Inv, TypeOK, TimeTypeOK
<1>3. CallTypeOK' /\ SemTypeOK' /\ WantsSem' /\ pc'[Idle] = pc[Idle]
  BY DEF IsrSignal, callVars, semVars, Inv, TypeOK, CallTypeOK, SemTypeOK, WantsSem
<1> QED BY <1>1, <1>2, <1>3, QuietStep DEF IsrSignal, schedVars

LEMMA EventWaitInv ==
    ASSUME Inv, NEW t \in Task, NEW mask \in WaitMask[t], EventWait(t, mask) PROVE Inv'
<1>1. t # Idle
  BY CallerNotIdle DEF EventWait
<1> DEFINE tc == [tcb[t] EXCEPT !.active = mask, !.event = SigEvent]
<1>2. tc \in Tcb
  <2>1. tcb[t] \in Tcb /\ SigEvent \in None..BothEvents
    BY DEF Inv, TypeOK, TcbTypeOK, None, SigEvent, BothEvents
  <2>2. mask \in SUBSET Signal /\ Signal \subseteq Nat
    BY KernelAssumption
  <2>3. mask \in SUBSET Nat
    BY <2>2
  <2> QED BY <2>1, <2>3, EventUpdates
<1>3. tcb' = [tcb EXCEPT ![t] = tc]
  BY DEF EventWait, Inv, TypeOK, TcbTypeOK
<1> HIDE DEF tc
<1>4. CallTypeOK' /\ SemTypeOK' /\ WantsSem' /\ pc'[Idle] = pc[Idle]
  BY <1>1, TaskRange, KernelAssumption DEF EventWait, Call, At, semVars, Inv, TypeOK,
     CallTypeOK, Point, SemTypeOK, WantsSem
<1>5. TimeTypeOK'
  BY DEF EventWait, timeVars, Inv, TypeOK, TimeTypeOK
<1> QED BY <1>1, <1>2, <1>3, <1>4, <1>5, OwnStep DEF EventWait, schedVars

LEMMA EventWaitReturnInv ==
    ASSUME Inv, NEW t \in Task, EventWaitReturn(t) PROVE Inv'
<1>1. t # Idle
  BY CallerNotIdle DEF EventWaitReturn
<1>2. CallTypeOK' /\ SemTypeOK' /\ WantsSem' /\ pc'[Idle] = pc[Idle]
  BY <1>1, TaskRange DEF EventWaitReturn, At, semVars, Inv, TypeOK,
     CallTypeOK, Point, SemTypeOK, WantsSem
<1>3. TcbTypeOK' /\ TimeTypeOK' /\ tcb'[Idle] = tcb[Idle]
  BY DEF EventWaitReturn, tcbVars, timeVars, Inv, TypeOK, TcbTypeOK, TimeTypeOK
<1> QED BY <1>2, <1>3, QuietStep DEF EventWaitReturn, tcbVars, schedVars

\* A semaphore taken: one unit less, the ceiling on.
LEMMA AcquireType ==
    ASSUME Inv, NEW t \in Task \ {Idle}, NEW r \in Sem, Acquire(t, r)
    PROVE  /\ sem' \in [Sem -> Int] /\ holds' \in [Task -> SUBSET Sem]
           /\ TcbTypeOK' /\ tcb'[Idle] = tcb[Idle]
<1>1. sem' \in [Sem -> Int] /\ holds' \in [Task -> SUBSET Sem]
  BY DEF Acquire, Inv, TypeOK, SemTypeOK
<1>2. PICK b \in BOOLEAN : b = TRUE
  OBVIOUS
<1> DEFINE tc == [tcb[t] EXCEPT !.ceil = SemCeiling[r], !.elevated = b]
<1>3. tc \in Tcb
  <2>1. tcb[t] \in Tcb /\ SemCeiling[r] \in Nat
    BY KernelAssumption DEF Inv, TypeOK, TcbTypeOK
  <2> QED BY <2>1, FieldUpdates
<1>4. tcb' = [tcb EXCEPT ![t] = tc]
  BY <1>2 DEF Acquire, Inv, TypeOK, TcbTypeOK
<1> HIDE DEF tc
<1> QED BY <1>1, <1>3, <1>4, TcbTypeAt, TaskRange DEF Inv, TypeOK

LEMMA SemPendInv ==
    ASSUME Inv, NEW t \in Task, NEW r \in Sem, SemPend(t, r) PROVE Inv'
<1>1. t # Idle
  BY CallerNotIdle DEF SemPend
<1>2. TimeTypeOK'
  BY IntsOnType DEF SemPend, Acquire, Inv, TypeOK
<1>3. CASE sem[r] = 0
  <2> DEFINE ev == IF tcb[t].event \in {SigEvent, BothEvents} THEN BothEvents
                   ELSE RsrcEvent
             tc == [tcb[t] EXCEPT !.event = ev, !.active = IndexMask(r)]
  <2>1. tc \in Tcb
    <3>1. tcb[t] \in Tcb /\ ev \in None..BothEvents /\ IndexMask(r) \in SUBSET Nat
      BY DEF Inv, TypeOK, TcbTypeOK, None, BothEvents, RsrcEvent, IndexMask
    <3> HIDE DEF ev
    <3> QED BY <3>1, EventUpdates
  <2>2. tcb' = [tcb EXCEPT ![t] = tc]
    BY <1>3 DEF SemPend, Inv, TypeOK, TcbTypeOK
  <2> HIDE DEF tc
  <2>3. /\ pc' = [pc EXCEPT ![t] = "pendarmed"] /\ want' = [want EXCEPT ![t] = r]
        /\ UNCHANGED <<sem, holds, signals, waitFor>>
    BY <1>3 DEF SemPend
  <2>4. CallTypeOK' /\ SemTypeOK' /\ WantsSem' /\ pc'[Idle] = pc[Idle]
    BY <1>1, <2>3, TaskRange DEF Inv, TypeOK, CallTypeOK, Point, SemTypeOK, WantsSem
  <2> QED BY <1>1, <1>2, <2>1, <2>2, <2>4, OwnStep DEF SemPend, schedVars
<1>4. CASE sem[r] # 0
  <2>1. Acquire(t, r) /\ UNCHANGED <<pc, want>>
    BY <1>4 DEF SemPend
  <2>2. CallTypeOK' /\ SemTypeOK' /\ WantsSem' /\ pc'[Idle] = pc[Idle]
        /\ TcbTypeOK' /\ tcb'[Idle] = tcb[Idle]
    BY <1>1, <2>1, AcquireType DEF SemPend, Inv, TypeOK, CallTypeOK, SemTypeOK, WantsSem
  <2> QED BY <1>2, <2>2, QuietStep DEF SemPend, schedVars
<1> QED BY <1>3, <1>4

LEMMA SemPendTakeInv ==
    ASSUME Inv, NEW t \in Task, SemPendTake(t) PROVE Inv'
<1>1. t # Idle /\ want[t] \in Sem
  BY CallerNotIdle DEF SemPendTake, At, Inv, WantsSem
<1>2. TimeTypeOK'
  BY IntsOnType DEF SemPendTake, Acquire, Inv, TypeOK
<1>3. TcbTypeOK' /\ tcb'[Idle] = tcb[Idle] /\ SemTypeOK'
  BY <1>1, AcquireType DEF SemPendTake, Inv, TypeOK, SemTypeOK
<1>4. CallTypeOK' /\ WantsSem' /\ pc'[Idle] = pc[Idle]
  BY <1>1, TaskRange DEF SemPendTake, Inv, TypeOK, CallTypeOK, Point, SemTypeOK, WantsSem
<1> QED BY <1>2, <1>3, <1>4, QuietStep DEF SemPendTake, schedVars

LEMMA SemPostInv ==
    ASSUME Inv, NEW t \in Task, NEW r \in Sem, SemPost(t, r) PROVE Inv'
<1>1. t # Idle
  BY CallerNotIdle DEF SemPost
<1>2. CallTypeOK' /\ SemTypeOK' /\ WantsSem' /\ pc'[Idle] = pc[Idle]
  <2>1. \/ /\ pc' = [pc EXCEPT ![t] = "posting"] /\ want' = [want EXCEPT ![t] = r]
           /\ UNCHANGED holds
        \/ holds' = [holds EXCEPT ![t] = @ \ {r}] /\ UNCHANGED <<pc, want>>
    BY DEF SemPost
  <2>2. UNCHANGED <<sem, signals, waitFor>>
    BY DEF SemPost
  <2> QED BY <1>1, <2>1, <2>2, TaskRange DEF Inv, TypeOK, CallTypeOK, Point, SemTypeOK,
      WantsSem
<1>3. TcbTypeOK' /\ TimeTypeOK' /\ tcb'[Idle] = tcb[Idle]
  BY DEF SemPost, tcbVars, timeVars, Inv, TypeOK, TcbTypeOK, TimeTypeOK
<1> QED BY <1>2, <1>3, QuietStep DEF SemPost, tcbVars, schedVars

LEMMA SemPostWakeInv ==
    ASSUME Inv, NEW t \in Task, SemPostWake(t) PROVE Inv'
<1>1. t # Idle /\ want[t] \in Sem
  BY CallerNotIdle DEF SemPostWake, At, Inv, WantsSem
<1> DEFINE low(u) == [tcb[u] EXCEPT !.elevated = IF u = t THEN FALSE ELSE @]
           block(u) == WokenByPost(low(u), want[t])
<1>2. ASSUME NEW u \in Task PROVE low(u) \in Tcb
  <2>1. tcb[u] \in Tcb
    BY DEF Inv, TypeOK, TcbTypeOK
  <2>2. (IF u = t THEN FALSE ELSE tcb[u].elevated) \in BOOLEAN
    BY <2>1 DEF Tcb
  <2> QED BY <2>1, <2>2, FieldUpdates
<1>3. ASSUME NEW u \in Task PROVE block(u) \in Tcb
  <2>1. low(u) \in Tcb
    BY <1>2
  <2> HIDE DEF low
  <2>2. /\ None \in None..BothEvents /\ "SUSPENDED" \in TaskState
        /\ 0 \in Nat /\ {} \in SUBSET Nat
    BY DEF None, BothEvents, TaskState
  <2> QED BY <2>1, <2>2, EventUpdates DEF WokenByPost
<1>4. tcb' = [u \in Task |-> block(u)]
  BY DEF SemPostWake
<1>5. tcb'[Idle] = tcb[Idle]
  <2>1. Idle \in Task /\ tcb[Idle] \in Tcb /\ tcb[Idle].event = None
    BY TaskRange DEF Inv, IdleUntouched, TypeOK, TcbTypeOK
  <2>2. low(Idle) = tcb[Idle]
    BY <1>1, <2>1 DEF Tcb
  <2> HIDE DEF low
  <2>3. block(Idle) = tcb[Idle]
    BY <2>1, <2>2 DEF WokenByPost, None, RsrcEvent
  <2> QED BY <1>4, <2>1, <2>3
<1>6. TcbTypeOK'
  BY <1>3, <1>4 DEF TcbTypeOK
<1>7. TimeTypeOK'
  BY IntsOnType DEF SemPostWake, Inv, TypeOK
<1>8. CallTypeOK' /\ SemTypeOK' /\ WantsSem' /\ pc'[Idle] = pc[Idle]
  BY <1>1, TaskRange DEF SemPostWake, Inv, TypeOK, CallTypeOK, Point, SemTypeOK, WantsSem
<1> QED BY <1>5, <1>6, <1>7, <1>8, QuietStep DEF SemPostWake, schedVars

-----------------------------------------------------------------------------
(* The start of the node, the clock and the scheduler.                     *)

LEMMA ActivateTaskInv ==
    ASSUME Inv, ActivateTask PROVE Inv'
<1> DEFINE t == activated
<1>1. t \in Task \ {Idle} /\ activated' = activated + 1
  BY KernelAssumption DEF ActivateTask, Inv, Activated
<1> HIDE DEF t
<1>2. TcbTypeOK' /\ tcb'[Idle] = tcb[Idle]
  <2>1. [tcb[t] EXCEPT !.state = "READY"] \in Tcb
    BY <1>1, FieldUpdates DEF TaskState, Inv, TypeOK, TcbTypeOK
  <2>2. tcb' = tcb \/ tcb' = [tcb EXCEPT ![t] = [tcb[t] EXCEPT !.state = "READY"]]
    BY DEF ActivateTask, t
  <2> QED BY <1>1, <2>1, <2>2, TaskRange DEF Inv, TypeOK, TcbTypeOK
<1>3. QueueTypeOK' /\ IdleLast'
  <2>1. queue' = queue \/ queue' = AddReady(queue, t, tcb)
    BY DEF ActivateTask, t
  <2> QED BY <1>1, <2>1, ReadyKeepsQueue DEF Inv, TypeOK, QueueTypeOK, IdleLast
<1>4. TimeTypeOK' /\ CallTypeOK' /\ SemTypeOK' /\ WantsSem' /\ pc'[Idle] = pc[Idle]
  BY DEF ActivateTask, timeVars, callVars, semVars, Inv, TypeOK, TimeTypeOK,
     CallTypeOK, SemTypeOK, WantsSem
<1>5. SchedTypeOK' /\ Activated'
  BY <1>1, KernelAssumption DEF ActivateTask, Inv, TypeOK, SchedTypeOK, Activated
<1> QED BY <1>2, <1>3, <1>4, <1>5 DEF Inv, TypeOK, IdleUntouched

LEMMA StartInv ==
    ASSUME Inv, Start PROVE Inv'
<1>1. TimeTypeOK'
  <2>1. ints' \in BOOLEAN
    BY Zenon DEF Start
  <2> QED BY <2>1 DEF Start, Inv, TypeOK, TimeTypeOK
<1>2. SchedTypeOK'
  BY HeadIsTask DEF Start, Inv, TypeOK, QueueTypeOK, IdleLast, SchedTypeOK, Off
<1>3. CallTypeOK' /\ SemTypeOK' /\ WantsSem' /\ pc'[Idle] = pc[Idle]
  BY DEF Start, callVars, semVars, Inv, TypeOK, CallTypeOK, SemTypeOK, WantsSem
<1>4. TcbTypeOK' /\ QueueTypeOK' /\ IdleLast' /\ tcb'[Idle] = tcb[Idle]
  BY DEF Start, tcbVars, Inv, TypeOK, TcbTypeOK, QueueTypeOK, IdleLast
<1> QED BY <1>1, <1>2, <1>3, <1>4 DEF Inv, TypeOK, IdleUntouched, Activated, Start

LEMMA TickInv ==
    ASSUME Inv, Tick PROVE Inv'
<1>1. TimeTypeOK'
  <2>1. timer' \in Nat /\ compare' \in Nat /\ prevTimer' \in Nat
    <3>1. timer \in Nat /\ TimerSize \in Nat \ {0}
      BY KernelAssumption DEF Inv, TypeOK, TimeTypeOK
    <3>2. (timer + 1) % TimerSize \in Nat
      BY <3>1
    <3> QED BY <3>2 DEF Tick, Inv, TypeOK, TimeTypeOK
  <2>2. ints' \in BOOLEAN /\ pending' \in BOOLEAN
    BY Zenon DEF Tick, Matches, Inv, TypeOK, TimeTypeOK
  <2> QED BY <2>1, <2>2 DEF TimeTypeOK
<1>2. TcbTypeOK' /\ CallTypeOK' /\ SemTypeOK' /\ WantsSem'
      /\ tcb'[Idle] = tcb[Idle] /\ pc'[Idle] = pc[Idle]
  BY DEF Tick, tcbVars, callVars, semVars, Inv, TypeOK, TcbTypeOK, CallTypeOK, SemTypeOK,
     WantsSem
<1> QED BY <1>1, <1>2, QuietStep DEF Tick, tcbVars, schedVars

\* The current task leaves the queue only when it has asked to wait, which
\* the idle task never does.
LEMMA SchedEnterInv ==
    ASSUME Inv, SchedEnter PROVE Inv'
<1>1. cur \in Task /\ tcb[cur] \in Tcb /\ prevTimer \in Nat
  BY DEF Inv, TypeOK, SchedTypeOK, TcbTypeOK, TimeTypeOK
<1>2. Blocking(tcb[cur]) => cur # Idle
  BY DEF Blocking, Inv, IdleUntouched
<1>3. QueueTypeOK' /\ IdleLast'
  BY <1>1, <1>2, RemoveType, RemoveKeepsIdleAtEnd
     DEF SchedEnter, Inv, TypeOK, QueueTypeOK, IdleLast
<1>4. Suspended(tcb[cur]) \in Tcb
  BY <1>1, SuspendedType
<1>5. CurrentAfterWait \in Tcb
  BY <1>1, <1>4 DEF CurrentAfterWait
<1> DEFINE tc == IF Accounted(CurrentAfterWait)
                 THEN [CurrentAfterWait EXCEPT !.cpuRemaining = Left(CurrentAfterWait)]
                 ELSE CurrentAfterWait
<1>6. tc \in Tcb
  <2>1. CurrentAfterWait.cpuRemaining \in Nat
    BY <1>5 DEF Tcb
  <2>2. Left(CurrentAfterWait) \in Nat
    BY <1>1, <2>1 DEF Left
  <2> QED BY <1>5, <2>2, FieldUpdates
<1>7. tcb' = [tcb EXCEPT ![cur] = tc]
  BY DEF SchedEnter
<1>8. TcbTypeOK' /\ tcb'[Idle] = tcb[Idle]
  <2>1. TcbTypeOK' /\ \A u \in Task \ {cur} : tcb'[u] = tcb[u]
    <3> HIDE DEF tc
    <3> QED BY <1>1, <1>6, <1>7, TcbTypeAt DEF Inv, TypeOK
  <2>2. CASE cur = Idle
    <3>1. CurrentAfterWait = tcb[Idle] /\ ~Accounted(tcb[Idle])
      BY <1>2, <2>2, KernelAssumption DEF CurrentAfterWait, Accounted
    <3> QED BY <1>1, <1>7, <2>1, <2>2, <3>1 DEF Inv, TypeOK, TcbTypeOK
  <2> QED BY <2>1, <2>2, TaskRange
<1>9. TimeTypeOK'
  <2>1. timer' \in Nat /\ compare' \in Nat /\ prevTimer' \in Nat
    BY KernelAssumption DEF SchedEnter, Inv, TypeOK, TimeTypeOK
  <2>2. ints' \in BOOLEAN /\ pending' \in BOOLEAN
    BY Zenon DEF SchedEnter, Inv, TypeOK, TimeTypeOK
  <2> QED BY <2>1, <2>2 DEF TimeTypeOK
<1>10. SchedTypeOK'
  BY KernelAssumption, TaskRange DEF SchedEnter, Inv, TypeOK, SchedTypeOK
<1>11. CallTypeOK' /\ SemTypeOK' /\ WantsSem' /\ pc'[Idle] = pc[Idle] /\ Activated'
  BY DEF SchedEnter, callVars, semVars, Inv, TypeOK, CallTypeOK, SemTypeOK, WantsSem,
     Activated
<1> QED BY <1>3, <1>8, <1>9, <1>10, <1>11 DEF Inv, TypeOK, IdleUntouched

LEMMA AgedType ==
    ASSUME Inv, NEW t \in Task
    PROVE  /\ Aged(t) \in Tcb
           /\ t = Idle => Aged(t) = tcb[t]
<1>1. tcb[t] \in Tcb /\ prevTimer \in Nat /\ Period[t] \in Nat
  BY KernelAssumption DEF Inv, TypeOK, TcbTypeOK, TimeTypeOK
<1>2. tcb[t].nextWakeup \in Nat /\ tcb[t].nextPeriod \in Nat
  BY <1>1 DEF Tcb
<1> DEFINE w == AgedWakeup(tcb[t].nextWakeup)
           p == AgedPeriod(tcb[t].nextPeriod, Period[t])
<1>3. w \in Nat
  BY <1>1, <1>2 DEF AgedWakeup
<1>4. p \in Nat
  <2>1. Period[t] # 0 => prevTimer % Period[t] \in Nat
    BY <1>1
  <2> QED BY <1>1, <1>2, <2>1 DEF AgedPeriod
<1>5. PICK b \in BOOLEAN : b = FALSE
  OBVIOUS
<1>6. Aged(t) = IF t = Idle \/ tcb[t].state = "FINISHED"
                THEN [tcb[t] EXCEPT !.suspend = b]
                ELSE [tcb[t] EXCEPT !.suspend = b, !.nextWakeup = w, !.nextPeriod = p]
  BY <1>1, <1>5 DEF Aged, Tcb
<1> HIDE DEF w, p
<1>7. /\ [tcb[t] EXCEPT !.suspend = b] \in Tcb
      /\ [tcb[t] EXCEPT !.suspend = b, !.nextWakeup = w, !.nextPeriod = p] \in Tcb
  BY <1>1, <1>3, <1>4 DEF Tcb
<1>8. ASSUME t = Idle PROVE Aged(t) = tcb[t]
  <2>1. tcb[t].suspend = FALSE
    <3>1. tcb[t].suspend \in BOOLEAN
      BY <1>1 DEF Tcb
    <3> QED BY <1>8, <3>1, Zenon DEF Inv, IdleUntouched
  <2>2. [tcb[t] EXCEPT !.suspend = tcb[t].suspend] = tcb[t]
    BY <1>1 DEF Tcb
  <2> QED BY <1>5, <1>6, <1>8, <2>1, <2>2
<1> QED BY <1>6, <1>7, <1>8

LEMMA AwokenType ==
    ASSUME NEW t \in Task, NEW tc \in Tcb PROVE Awoken(t, tc) \in Tcb
<1>1. /\ Reserve[t] \in Nat /\ Period[t] \in Nat /\ MaxSleep \in Nat
      /\ tc.numPeriods \in Nat \ {0} /\ tc.nextPeriod \in Nat
      /\ tc.active \in SUBSET Nat
  BY KernelAssumption DEF Tcb
<1> DEFINE rest == Period[t] * (tc.numPeriods - 1)
           act == IF tc.event # None /\ tc.nw THEN {WakeupSignal} ELSE tc.active
<1>2. rest \in Nat
  <2>1. tc.numPeriods - 1 \in Nat
    BY <1>1
  <2> QED BY <1>1, <2>1
<1>3. act \in SUBSET Nat
  BY <1>1 DEF WakeupSignal
<1>4. PICK b \in BOOLEAN : b = FALSE
  OBVIOUS
<1> DEFINE common == [tc EXCEPT !.active = act, !.event = None, !.nw = b,
                                !.cpuRemaining = Reserve[t]]
<1>5. common \in Tcb
  <2> HIDE DEF act
  <2>1. None \in None..BothEvents
    BY DEF None, BothEvents
  <2>2. \A e \in None..BothEvents :
           [tc EXCEPT !.active = act, !.event = e, !.nw = b,
                      !.cpuRemaining = Reserve[t]] \in Tcb
    BY <1>1, <1>3 DEF Tcb
  <2> QED BY <2>1, <2>2
<1>6. Awoken(t, tc) =
        IF tc.numPeriods = 1
        THEN [common EXCEPT !.state = "READY",
                 !.nextWakeup = IF Period[t] = 0 THEN MaxSleep ELSE tc.nextPeriod]
        ELSE [common EXCEPT !.numPeriods = 1, !.nextPeriod = rest,
                 !.nextWakeup = IF Period[t] = 0 THEN MaxSleep ELSE rest]
  BY <1>4 DEF Awoken
<1> HIDE DEF rest, common
<1>7. [common EXCEPT !.state = "READY",
          !.nextWakeup = IF Period[t] = 0 THEN MaxSleep ELSE tc.nextPeriod] \in Tcb
  BY <1>1, <1>5 DEF Tcb, TaskState
<1>8. [common EXCEPT !.numPeriods = 1, !.nextPeriod = rest,
          !.nextWakeup = IF Period[t] = 0 THEN MaxSleep ELSE rest] \in Tcb
  <2>1. 1 \in Nat \ {0} /\ (IF Period[t] = 0 THEN MaxSleep ELSE rest) \in Nat
    BY <1>1, <1>2
  <2>2. \A m \in Nat \ {0}, w \in Nat :
           [common EXCEPT !.numPeriods = m, !.nextPeriod = rest, !.nextWakeup = w] \in Tcb
    BY <1>2, <1>5 DEF Tcb
  <2> QED BY <2>1, <2>2
<1> QED BY <1>6, <1>7, <1>8

\* The loop never adds the idle task: it is READY, so it is not due.
LEMMA SchedTaskInv ==
    ASSUME Inv, SchedTask PROVE Inv'
<1> DEFINE t == sched
           aged == Aged(t)
           due == aged.state = "SUSPENDED" /\ aged.nextWakeup = 0
           after == IF due THEN Awoken(t, aged) ELSE aged
<1>1. t \in Task
  BY DEF SchedTask
<1>2. aged \in Tcb /\ (t = Idle => aged = tcb[Idle])
  BY <1>1, AgedType
<1>3. t = Idle => ~due
  BY <1>2 DEF Inv, IdleUntouched
<1>4. after \in Tcb /\ (t = Idle => after = tcb[Idle])
  BY <1>1, <1>2, <1>3, AwokenType
<1>5. /\ tcb' = [tcb EXCEPT ![t] = after]
      /\ queue' = IF due /\ aged.numPeriods = 1 THEN AddReady(queue, t, tcb) ELSE queue
      /\ nextWake' \in {after.nextWakeup, nextWake}
      /\ sched' = t + 1
  BY DEF SchedTask
<1>6. /\ UNCHANGED <<cur, activated, timeVars, semVars, signals, callVars>>
  BY DEF SchedTask
<1> HIDE DEF t, aged, due, after
<1>7. TcbTypeOK' /\ tcb'[Idle] = tcb[Idle]
  BY <1>1, <1>4, <1>5, TcbTypeAt, TaskRange DEF Inv, TypeOK, TcbTypeOK
<1>8. QueueTypeOK' /\ IdleLast'
  BY <1>1, <1>3, <1>5, ReadyKeepsQueue DEF Inv, TypeOK, QueueTypeOK, IdleLast
<1>9. SchedTypeOK'
  <2>1. after.nextWakeup \in Nat
    BY <1>4 DEF Tcb
  <2>2. sched' \in 0..PickStep
    BY <1>1, <1>5, TaskRange
  <2> QED BY <1>5, <1>6, <2>1, <2>2 DEF Inv, TypeOK, SchedTypeOK
<1>10. TimeTypeOK' /\ CallTypeOK' /\ SemTypeOK' /\ WantsSem' /\ pc'[Idle] = pc[Idle]
       /\ Activated'
  BY <1>6 DEF timeVars, callVars, semVars, Inv, TypeOK, TimeTypeOK, CallTypeOK,
     SemTypeOK, WantsSem, Activated
<1> QED BY <1>7, <1>8, <1>9, <1>10 DEF Inv, TypeOK, IdleUntouched

LEMMA SchedPickInv ==
    ASSUME Inv, SchedPick PROVE Inv'
<1> DEFINE head == queue[1]
           until == IF /\ head # Idle
                       /\ Reserve[head] # 0
                       /\ tcb[head].cpuRemaining < nextWake
                    THEN tcb[head].cpuRemaining ELSE nextWake
           set == IF timer + 1 >= until THEN timer + 2 ELSE until
<1>1. head \in Task
  BY HeadIsTask DEF Inv, TypeOK, QueueTypeOK, IdleLast
<1>2. set \in Nat /\ set >= 1
  <2>1. tcb[head].cpuRemaining \in Nat /\ nextWake \in Nat /\ timer \in Nat
    BY <1>1 DEF Inv, TypeOK, TcbTypeOK, Tcb, SchedTypeOK, TimeTypeOK
  <2>2. until \in Nat
    BY <2>1
  <2> HIDE DEF until
  <2> QED BY <2>1, <2>2
<1>3. /\ cur' = head /\ sched' = Off /\ nextWake' = MaxSleep
      /\ compare' = ((set - 1) % TimerSize) + 1
      /\ prevTimer' = set % TimerSize
      /\ UNCHANGED <<tcbVars, activated, timer, ints, pending, semVars, signals, callVars>>
  BY DEF SchedPick
<1> HIDE DEF head, set
<1>4. TimeTypeOK'
  <2>1. TimerSize \in Nat \ {0} /\ set - 1 \in Nat
    BY <1>2, KernelAssumption
  <2>2. ((set - 1) % TimerSize) + 1 \in Nat /\ set % TimerSize \in Nat
    BY <1>2, <2>1
  <2>3. timer' \in Nat /\ compare' \in Nat /\ prevTimer' \in Nat
    BY <1>3, <2>2 DEF Inv, TypeOK, TimeTypeOK
  <2>4. ints' \in BOOLEAN /\ pending' \in BOOLEAN
    BY <1>3, Zenon DEF Inv, TypeOK, TimeTypeOK
  <2> QED BY <2>3, <2>4 DEF TimeTypeOK
<1>5. SchedTypeOK'
  BY <1>1, <1>3, KernelAssumption DEF Inv, TypeOK, SchedTypeOK
<1>6. /\ TcbTypeOK' /\ QueueTypeOK' /\ CallTypeOK' /\ SemTypeOK' /\ IdleLast'
      /\ WantsSem' /\ tcb'[Idle] = tcb[Idle] /\ pc'[Idle] = pc[Idle] /\ Activated'
  BY <1>3 DEF tcbVars, callVars, semVars, Inv, TypeOK, TcbTypeOK, QueueTypeOK, CallTypeOK,
     SemTypeOK, IdleLast, WantsSem, Activated
<1> QED BY <1>4, <1>5, <1>6 DEF Inv, TypeOK, IdleUntouched

\* A restart is the initial state again.
LEMMA BootInv ==
    ASSUME Inv, Boot PROVE Inv'
<1> USE KernelAssumption, QueueAssumption, TaskRange DEF Boot
<1>1. TcbTypeOK'
  BY DEF TcbTypeOK, BootTcb, Tcb, TaskState, None, BothEvents
<1>2. QueueTypeOK'
  BY DEF QueueTypeOK
<1>3. TimeTypeOK'
  <2>1. timer' \in Nat /\ compare' \in Nat /\ prevTimer' \in Nat
    OBVIOUS
  <2>2. ints' \in BOOLEAN /\ pending' \in BOOLEAN
    BY Zenon
  <2> QED BY <2>1, <2>2 DEF TimeTypeOK
<1>4. SchedTypeOK'
  BY DEF SchedTypeOK
<1>5. CallTypeOK'
  BY DEF CallTypeOK, Point
<1>6. SemTypeOK'
  BY DEF SemTypeOK
<1>7. IdleLast'
  BY DEF IdleLast, IdleAtEnd
<1>8. IdleUntouched' /\ WantsSem' /\ Activated'
  BY DEF IdleUntouched, BootTcb, WantsSem, Activated
<1> QED BY <1>1, <1>2, <1>3, <1>4, <1>5, <1>6, <1>7, <1>8 DEF Inv, TypeOK

-----------------------------------------------------------------------------
LEMMA TaskStepInv ==
    ASSUME Inv, NEW t \in Task, TaskStep(t) PROVE Inv'
<1>1. CASE \/ WaitUntilNextPeriod(t)
           \/ \E p \in Periods : WaitUntilNextNPeriods(t, p)
           \/ \E n \in Delay : \/ WaitTicks(t, n)
                               \/ Wait(t, n)
                               \/ WaitUntilTicks(t, n)
                               \/ SetNextWakeup(t, n)
  BY <1>1, WaitUntilNextPeriodInv, WaitUntilNextNPeriodsInv, WaitTicksInv, WaitInv,
     WaitUntilTicksInv, SetNextWakeupInv
<1>2. CASE TerminateDequeue(t) \/ TerminateFinish(t) \/ TerminateWait(t)
  BY <1>2, TerminateDequeueInv, TerminateFinishInv, TerminateWaitInv
<1>3. CASE \E s \in Signal : \/ SignalRegister(t, s)
                             \/ SignalUnregister(t, s)
                             \/ SignalDelete(t, s)
                             \/ EventSignal(t, s)
  BY <1>3, SignalRegisterInv, SignalDeleteInv, EventSignalInv
<1>4. CASE SignalCreate(t)
  BY <1>4, SignalCreateInv
<1>5. CASE \/ \E mask \in WaitMask[t] : EventWait(t, mask)
           \/ EventWaitBlock(t) \/ EventWaitReturn(t)
  BY <1>5, EventWaitInv, EventWaitBlockInv, EventWaitReturnInv
<1>6. CASE \/ \E r \in Sem : SemPend(t, r) \/ SemPost(t, r)
           \/ SemPendBlock(t) \/ SemPendTake(t) \/ SemPostWake(t)
  BY <1>6, SemPendInv, SemPostInv, SemPendBlockInv, SemPendTakeInv, SemPostWakeInv
<1> QED BY <1>1, <1>2, <1>3, <1>4, <1>5, <1>6 DEF TaskStep

LEMMA StutterInv ==
    ASSUME Inv, UNCHANGED vars PROVE Inv'
<1>1. /\ TcbTypeOK' /\ QueueTypeOK' /\ TimeTypeOK' /\ SchedTypeOK' /\ CallTypeOK'
      /\ SemTypeOK'
  BY DEF vars, tcbVars, timeVars, schedVars, semVars, callVars, Inv, TypeOK, TcbTypeOK,
     QueueTypeOK, TimeTypeOK, SchedTypeOK, CallTypeOK, SemTypeOK
<1>2. IdleLast' /\ IdleUntouched' /\ WantsSem' /\ Activated'
  BY DEF vars, tcbVars, schedVars, semVars, callVars, Inv, IdleLast, IdleUntouched,
     WantsSem, Activated
<1> QED BY <1>1, <1>2 DEF Inv, TypeOK

LEMMA NextInv == Inv /\ [Next]_vars => Inv'
<1> SUFFICES ASSUME Inv, [Next]_vars PROVE Inv'
  OBVIOUS
<1>1. CASE Startup
  BY <1>1, ActivateTaskInv, StartInv DEF Startup
<1>2. CASE Tick
  BY <1>2, TickInv
<1>3. CASE Scheduler \/ WatchdogReset
  BY <1>3, SchedEnterInv, SchedTaskInv, SchedPickInv, BootInv
     DEF Scheduler, ReserveViolated, WatchdogReset
<1>4. CASE \E t \in Task : TaskStep(t)
  BY <1>4, TaskStepInv
<1>5. CASE \E s \in IsrSignals : IsrSignal(s)
  BY <1>5, IsrSignalInv
<1>6. CASE UNCHANGED vars
  BY <1>6, StutterInv
<1> QED BY <1>1, <1>2, <1>3, <1>4, <1>5, <1>6 DEF Next

\* The kernel's data keep their types for every program of the tasks: the
\* unsigned clocks the scheduler subtracts from never pass below 0, and the
\* queue never outgrows the pool (nrk_scheduler.c:161, 195, 204; nrk_task.c:68).
THEOREM TypeCorrect == Spec => []TypeOK
<1>1. Inv => TypeOK
  BY DEF Inv
<1> QED BY <1>1, InitInv, NextInv, PTL DEF Spec

\* Whatever the tasks, the timer and the interrupt handlers do, the idle task
\* is queued once, at the end: the queue is never empty, so the scheduler
\* always finds a task at its head (nrk_task.c:60-222, nrk_scheduler.c:268).
THEOREM IdleAlwaysLast == Spec => []IdleLast
<1>1. Inv => IdleLast
  BY DEF Inv
<1> QED BY <1>1, InitInv, NextInv, PTL DEF Spec

-----------------------------------------------------------------------------
(* Semaphores.  No unit is lost or made, for any tasks, programs, counts   *)
(* and signals: SemAccounting.  What a task has pended stays its own while *)
(* it is inside nrk_sem_post, which reads the value before it disables     *)
(* interrupts, and what it waits for in nrk_sem_pend it does not hold yet: *)
(* AtSem.  So the branch of nrk_sem_post that gives up without adding a    *)
(* unit is never taken by a task that holds one.                           *)

Holders(r) == {t \in Task : r \in holds[t]}
SemPoint == {"pendarmed", "pendwait", "posting"}

AtSem == \A t \in Task : /\ pc[t] \in {"pendarmed", "pendwait"} => want[t] \notin holds[t]
                         /\ pc[t] = "posting" => want[t] \in holds[t]

SemInv == SemAccounting /\ AtSem

\* A step that is not about a semaphore: it keeps the values, the holders
\* and what is wanted, and takes no task to a point inside such a call.
NotSem == /\ UNCHANGED semVars
          /\ \A t \in Task : pc'[t] \in SemPoint => pc[t] \in SemPoint /\ pc[t] = pc'[t]

LEMMA NotSemStep == ASSUME SemInv, NotSem PROVE SemInv'
<1>1. SemAccounting'
  BY DEF SemInv, SemAccounting, NotSem, semVars
<1>2. AtSem'
  BY DEF SemInv, AtSem, NotSem, SemPoint, semVars
<1> QED BY <1>1, <1>2 DEF SemInv

LEMMA HoldersFinite ==
    ASSUME NEW r PROVE IsFiniteSet(Holders(r)) /\ Cardinality(Holders(r)) \in Nat
<1>1. Holders(r) \in SUBSET Task /\ IsFiniteSet(Task)
  BY KernelAssumption DEF Holders
<1> QED BY <1>1, FS_Subset, FS_CardinalityType

\* One task takes r, or gives it back: the other semaphores keep their
\* holders, and r has one more, or one less.
LEMMA TakenOne ==
    ASSUME Inv, NEW t \in Task, NEW r \in Sem, r \notin holds[t],
           holds' = [holds EXCEPT ![t] = @ \cup {r}]
    PROVE  /\ Cardinality(Holders(r)') = Cardinality(Holders(r)) + 1
           /\ \A q \in Sem \ {r} : Holders(q)' = Holders(q)
<1>1. holds \in [Task -> SUBSET Sem]
  BY DEF Inv, TypeOK, SemTypeOK
<1>2. Holders(r)' = Holders(r) \cup {t} /\ t \notin Holders(r)
  BY <1>1 DEF Holders
<1>3. \A q \in Sem \ {r} : Holders(q)' = Holders(q)
  BY <1>1 DEF Holders
<1>4. Cardinality(Holders(r) \cup {t}) = Cardinality(Holders(r)) + 1
  BY <1>2, HoldersFinite, FS_AddElement
<1> QED BY <1>2, <1>3, <1>4

LEMMA GivenOne ==
    ASSUME Inv, NEW t \in Task, NEW r \in Sem, r \in holds[t],
           holds' = [holds EXCEPT ![t] = @ \ {r}]
    PROVE  /\ Cardinality(Holders(r)') = Cardinality(Holders(r)) - 1
           /\ \A q \in Sem \ {r} : Holders(q)' = Holders(q)
<1>1. holds \in [Task -> SUBSET Sem]
  BY DEF Inv, TypeOK, SemTypeOK
<1>2. Holders(r)' = Holders(r) \ {t} /\ t \in Holders(r)
  BY <1>1 DEF Holders
<1>3. \A q \in Sem \ {r} : Holders(q)' = Holders(q)
  BY <1>1 DEF Holders
<1>4. Cardinality(Holders(r) \ {t}) = Cardinality(Holders(r)) - 1
  BY <1>2, HoldersFinite, FS_RemoveElement
<1> QED BY <1>2, <1>3, <1>4

\* The accounts in terms of Holders, and what is left of a semaphore that a
\* task holds.
LEMMA Accounts == SemAccounting <=>
                      \A r \in Sem : sem[r] + Cardinality(Holders(r)) = SemCount[r]
BY DEF SemAccounting, Holders

LEMMA HeldIsMissing ==
    ASSUME Inv, SemAccounting, NEW t \in Task, NEW r \in Sem, r \in holds[t]
    PROVE  sem[r] < SemCount[r]
<1>1. Holders(r) # {}
  BY DEF Holders
<1>2. Cardinality(Holders(r)) \in Nat /\ Cardinality(Holders(r)) # 0
  BY <1>1, HoldersFinite, FS_EmptySet
<1>3. sem[r] + Cardinality(Holders(r)) = SemCount[r] /\ sem[r] \in Int
  BY Accounts DEF Inv, TypeOK, SemTypeOK
<1> QED BY <1>2, <1>3

LEMMA AcquireAccounts ==
    ASSUME Inv, SemAccounting, NEW t \in Task, NEW r \in Sem, r \notin holds[t],
           Acquire(t, r)
    PROVE  SemAccounting'
<1>1. sem \in [Sem -> Int] /\ sem' = [sem EXCEPT ![r] = @ - 1]
  BY DEF Inv, TypeOK, SemTypeOK, Acquire
<1>2. /\ Cardinality(Holders(r)') = Cardinality(Holders(r)) + 1
      /\ \A q \in Sem \ {r} : Holders(q)' = Holders(q)
  BY TakenOne DEF Acquire
<1>3. \A q \in Sem : sem[q] + Cardinality(Holders(q)) = SemCount[q]
  BY Accounts
<1>4. ASSUME NEW q \in Sem PROVE sem'[q] + Cardinality(Holders(q)') = SemCount[q]
  BY <1>1, <1>2, <1>3, HoldersFinite
<1> QED BY <1>4 DEF SemAccounting, Holders

LEMMA SemPendSem ==
    ASSUME Inv, SemInv, NEW t \in Task, NEW r \in Sem, SemPend(t, r) PROVE SemInv'
<1>1. /\ pc \in [Task -> Point] /\ want \in [Task -> Sem \cup {0}]
      /\ holds \in [Task -> SUBSET Sem]
  BY DEF Inv, TypeOK, CallTypeOK, SemTypeOK
<1>2. r \notin holds[t] /\ pc[t] = "run"
  BY DEF SemPend, Call, At
<1>3. CASE sem[r] = 0
  <2>1. /\ pc' = [pc EXCEPT ![t] = "pendarmed"] /\ want' = [want EXCEPT ![t] = r]
        /\ sem' = sem /\ holds' = holds
    BY <1>3 DEF SemPend
  <2>2. AtSem'
    BY <1>1, <1>2, <2>1 DEF SemInv, AtSem
  <2> QED BY <2>1, <2>2 DEF SemInv, SemAccounting
<1>4. CASE sem[r] # 0
  <2>1. Acquire(t, r) /\ pc' = pc /\ want' = want
    BY <1>4 DEF SemPend
  <2>2. holds' = [holds EXCEPT ![t] = @ \cup {r}]
    BY <2>1 DEF Acquire
  <2>3. AtSem'
    BY <1>1, <1>2, <2>1, <2>2 DEF SemInv, AtSem
  <2> QED BY <1>2, <2>1, <2>3, AcquireAccounts DEF SemInv
<1> QED BY <1>3, <1>4

LEMMA SemPendTakeSem ==
    ASSUME Inv, SemInv, NEW t \in Task, SemPendTake(t) PROVE SemInv'
<1>1. /\ pc \in [Task -> Point] /\ want \in [Task -> Sem \cup {0}]
      /\ holds \in [Task -> SUBSET Sem]
  BY DEF Inv, TypeOK, CallTypeOK, SemTypeOK
<1>2. want[t] \in Sem /\ want[t] \notin holds[t]
  BY DEF SemPendTake, At, Inv, WantsSem, SemInv, AtSem
<1>3. PICK r \in Sem : r = want[t]
  BY <1>2
<1>4. /\ Acquire(t, r) /\ pc' = [pc EXCEPT ![t] = "run"]
      /\ want' = [want EXCEPT ![t] = 0]
  BY <1>3 DEF SemPendTake
<1>5. holds' = [holds EXCEPT ![t] = @ \cup {r}]
  BY <1>4 DEF Acquire
<1>6. AtSem'
  BY <1>1, <1>4, <1>5 DEF SemInv, AtSem
<1> QED BY <1>2, <1>3, <1>4, <1>6, AcquireAccounts DEF SemInv

LEMMA SemPostSem ==
    ASSUME Inv, SemInv, NEW t \in Task, NEW r \in Sem, SemPost(t, r) PROVE SemInv'
<1>1. /\ pc \in [Task -> Point] /\ want \in [Task -> Sem \cup {0}]
  BY DEF Inv, TypeOK, CallTypeOK, SemTypeOK
<1>2. r \in holds[t]
  BY DEF SemPost
<1>3. sem[r] < SemCount[r]
  BY <1>2, HeldIsMissing DEF SemInv
<1>4. /\ pc' = [pc EXCEPT ![t] = "posting"] /\ want' = [want EXCEPT ![t] = r]
      /\ sem' = sem /\ holds' = holds
  BY <1>3 DEF SemPost
<1>5. AtSem'
  BY <1>1, <1>2, <1>4 DEF SemInv, AtSem
<1> QED BY <1>4, <1>5 DEF SemInv, SemAccounting

LEMMA SemPostWakeSem ==
    ASSUME Inv, SemInv, NEW t \in Task, SemPostWake(t) PROVE SemInv'
<1>1. /\ pc \in [Task -> Point] /\ want \in [Task -> Sem \cup {0}]
      /\ holds \in [Task -> SUBSET Sem] /\ sem \in [Sem -> Int]
  BY DEF Inv, TypeOK, CallTypeOK, SemTypeOK
<1>2. PICK r \in Sem : r = want[t] /\ r \in holds[t]
  BY DEF SemPostWake, At, Inv, WantsSem, SemInv, AtSem
<1>3. /\ sem' = [sem EXCEPT ![r] = @ + 1] /\ holds' = [holds EXCEPT ![t] = @ \ {r}]
      /\ pc' = [pc EXCEPT ![t] = "run"] /\ want' = [want EXCEPT ![t] = 0]
  BY <1>2 DEF SemPostWake
<1>4. AtSem'
  BY <1>1, <1>3 DEF SemInv, AtSem
<1>5. /\ Cardinality(Holders(r)') = Cardinality(Holders(r)) - 1
      /\ \A q \in Sem \ {r} : Holders(q)' = Holders(q)
  BY <1>2, <1>3, GivenOne
<1>6. \A q \in Sem : sem[q] + Cardinality(Holders(q)) = SemCount[q]
  BY Accounts DEF SemInv
<1>7. ASSUME NEW q \in Sem PROVE sem'[q] + Cardinality(Holders(q)') = SemCount[q]
  BY <1>1, <1>2, <1>3, <1>5, <1>6, HoldersFinite
<1>8. SemAccounting'
  BY <1>7 DEF SemAccounting, Holders
<1> QED BY <1>4, <1>8 DEF SemInv

LEMMA SemPendBlockSem ==
    ASSUME Inv, SemInv, NEW t \in Task, SemPendBlock(t) PROVE SemInv'
<1>1. pc \in [Task -> Point]
  BY DEF Inv, TypeOK, CallTypeOK
<1>2. /\ pc[t] = "pendarmed" /\ pc' = [pc EXCEPT ![t] = "pendwait"]
      /\ sem' = sem /\ want' = want /\ holds' = holds
  BY DEF SemPendBlock, At, semVars
<1>3. AtSem'
  BY <1>1, <1>2 DEF SemInv, AtSem
<1> QED BY <1>2, <1>3 DEF SemInv, SemAccounting

\* A restart: the values are what nrk_sem_create gave them, and nobody
\* holds anything.
LEMMA FreshSem ==
    ASSUME sem = SemCount, holds = [t \in Task |-> {}], pc = [t \in Task |-> "run"]
    PROVE  SemInv
<1>1. ASSUME NEW r \in Sem PROVE sem[r] + Cardinality(Holders(r)) = SemCount[r]
  <2>1. Holders(r) = {}
    BY DEF Holders
  <2>2. Cardinality(Holders(r)) = 0 /\ SemCount[r] \in Nat
    BY <2>1, FS_EmptySet, KernelAssumption
  <2> QED BY <2>2
<1>2. AtSem
  BY DEF AtSem
<1> QED BY <1>1, <1>2, Accounts DEF SemInv

LEMMA TaskStepSem ==
    ASSUME Inv, SemInv, NEW t \in Task, TaskStep(t) PROVE SemInv'
<1>1. pc \in [Task -> Point]
  BY DEF Inv, TypeOK, CallTypeOK
<1>2. CASE \/ WaitUntilNextPeriod(t)
           \/ \E p \in Periods : WaitUntilNextNPeriods(t, p)
           \/ \E n \in Delay : \/ WaitTicks(t, n)
                               \/ Wait(t, n)
                               \/ WaitUntilTicks(t, n)
                               \/ SetNextWakeup(t, n)
  <2>1. NotSem
    BY <1>2 DEF WaitUntilNextPeriod, WaitUntilNextNPeriods, WaitTicks, Wait,
       WaitUntilTicks, SetNextWakeup, NotSem, callVars
  <2> QED BY <2>1, NotSemStep
<1>3. CASE TerminateDequeue(t) \/ TerminateFinish(t) \/ TerminateWait(t)
  <2>1. NotSem
    BY <1>1, <1>3 DEF TerminateDequeue, TerminateFinish, TerminateWait, NotSem, SemPoint
  <2> QED BY <2>1, NotSemStep
<1>4. CASE \/ \E s \in Signal : \/ SignalRegister(t, s)
                                \/ SignalUnregister(t, s)
                                \/ SignalDelete(t, s)
                                \/ EventSignal(t, s)
           \/ SignalCreate(t)
  <2>1. NotSem
    BY <1>4 DEF SignalRegister, SignalUnregister, SignalDelete, EventSignal, SignalCreate,
       NotSem, callVars
  <2> QED BY <2>1, NotSemStep
<1>5. CASE \/ \E mask \in WaitMask[t] : EventWait(t, mask)
           \/ EventWaitBlock(t) \/ EventWaitReturn(t)
  <2>1. NotSem
    BY <1>1, <1>5 DEF EventWait, EventWaitBlock, EventWaitReturn, NotSem, SemPoint
  <2> QED BY <2>1, NotSemStep
<1>6. CASE \/ \E r \in Sem : SemPend(t, r) \/ SemPost(t, r)
           \/ SemPendBlock(t) \/ SemPendTake(t) \/ SemPostWake(t)
  BY <1>6, SemPendSem, SemPostSem, SemPendBlockSem, SemPendTakeSem, SemPostWakeSem
<1> QED BY <1>2, <1>3, <1>4, <1>5, <1>6 DEF TaskStep

LEMMA InitSem == Init => SemInv
BY FreshSem DEF Init

LEMMA NextSem == Inv /\ SemInv /\ [Next]_vars => SemInv'
<1> SUFFICES ASSUME Inv, SemInv, [Next]_vars PROVE SemInv'
  OBVIOUS
<1>1. CASE \/ Startup \/ Tick \/ SchedEnter \/ SchedTask \/ SchedPick
           \/ UNCHANGED vars \/ \E s \in IsrSignals : IsrSignal(s)
  <2>1. NotSem
    BY <1>1 DEF Startup, ActivateTask, Start, Tick, SchedEnter, SchedTask, SchedPick, vars,
       IsrSignal, NotSem, callVars
  <2> QED BY <2>1, NotSemStep
<1>2. CASE Boot
  <2>1. SemInv'
    <3>1. /\ sem' = SemCount /\ holds' = [t \in Task |-> {}]
          /\ pc' = [t \in Task |-> "run"]
      BY <1>2 DEF Boot
    <3>2. AtSem'
      BY <3>1 DEF AtSem
    <3>3. ASSUME NEW r \in Sem
          PROVE  sem'[r] + Cardinality({t \in Task : r \in holds'[t]}) = SemCount[r]
      <4>1. {t \in Task : r \in holds'[t]} = {}
        BY <3>1
      <4>2. SemCount[r] \in Nat /\ Cardinality({}) = 0
        BY KernelAssumption, FS_EmptySet
      <4> QED BY <3>1, <4>1, <4>2
    <3> QED BY <3>2, <3>3 DEF SemInv, SemAccounting
  <2> QED BY <2>1
<1>3. CASE \E t \in Task : TaskStep(t)
  BY <1>3, TaskStepSem
<1> QED BY <1>1, <1>2, <1>3 DEF Next, Scheduler, ReserveViolated, WatchdogReset

\* The value of a semaphore and the number of its holders add up to the count
\* it was created with, wherever the tasks are in nrk_sem_pend and
\* nrk_sem_post and whoever interrupts them (nrk_events.c:238-247, 264-269).
THEOREM SemAlwaysAccounted == Spec => []SemAccounting
<1>1. Inv /\ SemInv => SemAccounting
  BY DEF SemInv
<1> QED BY <1>1, InitInv, NextInv, InitSem, NextSem, PTL DEF Spec

-----------------------------------------------------------------------------
(* Programs that delete no signal: nobody sleeps on a free semaphore.      *)

NothingDeleted == \A t \in Task : "signal_delete" \notin Calls[t]

\* A task armed for a semaphore is armed for the one it wants, from the test
\* that found the value 0 on, and nrk_sem_post disarms it when it adds a unit.
ArmedAtZero == \A t \in Task :
                   tcb[t].event = RsrcEvent /\ pc[t] \in {"pendarmed", "pendwait"} =>
                       tcb[t].active = IndexMask(want[t]) /\ sem[want[t]] <= 0

\* A step that arms no task for a semaphore and keeps the mask of one that is.
ArmsNone == \A t \in Task : tcb'[t].event = RsrcEvent =>
                tcb[t].event = RsrcEvent /\ tcb'[t].active = tcb[t].active

LEMMA QuietArmed == ASSUME ArmedAtZero, NotSem, ArmsNone PROVE ArmedAtZero'
BY DEF ArmedAtZero, NotSem, ArmsNone, SemPoint, semVars

LEMMA SignalArmsNone ==
    ASSUME Inv, NEW s \in Signal, tcb' = Signalled(s) PROVE ArmsNone
<1>1. \A u \in Task : tcb[u] \in Tcb
  BY DEF Inv, TypeOK, TcbTypeOK
<1>2. SUFFICES ASSUME NEW u \in Task, tcb'[u].event = RsrcEvent
               PROVE  tcb[u].event = RsrcEvent /\ tcb'[u].active = tcb[u].active
  BY DEF ArmsNone
<1>3. tcb'[u] = tcb[u]
  <2>1. ASSUME NEW S
        PROVE  [tcb[u] EXCEPT !.state = "SUSPENDED", !.nextWakeup = 0,
                              !.event = None, !.active = S].event = None
    BY <1>1 DEF Tcb
  <2>2. Signalled(s)[u].event = None \/ Signalled(s)[u] = tcb[u]
    BY <2>1 DEF Signalled
  <2> QED BY <1>2, <2>2 DEF None, RsrcEvent
<1> QED BY <1>2, <1>3

LEMMA AcquireArmed ==
    ASSUME Inv, ArmedAtZero, NEW t \in Task, NEW r \in Sem, Acquire(t, r),
           pc[t] # "pendarmed",
           \A u \in Task \ {t} : pc'[u] = pc[u] /\ want'[u] = want[u],
           pc'[t] = "run"
    PROVE  ArmedAtZero'
<1>1. /\ sem \in [Sem -> Int] /\ sem' = [sem EXCEPT ![r] = @ - 1]
      /\ tcb \in [Task -> Tcb]
      /\ tcb' = [tcb EXCEPT ![t].ceil = SemCeiling[r], ![t].elevated = TRUE]
  BY DEF Inv, TypeOK, SemTypeOK, TcbTypeOK, Acquire
<1>2. SUFFICES ASSUME NEW u \in Task, tcb'[u].event = RsrcEvent,
                      pc'[u] \in {"pendarmed", "pendwait"}
               PROVE  tcb'[u].active = IndexMask(want'[u]) /\ sem'[want'[u]] <= 0
  BY DEF ArmedAtZero
<1>3. u # t
  BY <1>2
<1>4. tcb'[u] = tcb[u] /\ want'[u] = want[u] /\ pc'[u] = pc[u]
  BY <1>1, <1>3
<1>5. tcb[u].active = IndexMask(want[u]) /\ sem[want[u]] <= 0 /\ want[u] \in Sem
  BY <1>2, <1>4 DEF ArmedAtZero, Inv, WantsSem
<1>6. sem'[want[u]] <= sem[want[u]] /\ sem[want[u]] \in Int /\ sem'[want[u]] \in Int
  BY <1>1, <1>5
<1>7. sem'[want[u]] <= 0
  BY <1>5, <1>6
<1> QED BY <1>4, <1>5, <1>7

LEMMA SemPendArmed ==
    ASSUME Inv, ArmedAtZero, NEW t \in Task, NEW r \in Sem, SemPend(t, r)
    PROVE  ArmedAtZero'
<1>1. /\ pc \in [Task -> Point] /\ want \in [Task -> Sem \cup {0}]
      /\ tcb \in [Task -> Tcb] /\ pc[t] = "run"
  BY DEF Inv, TypeOK, CallTypeOK, SemTypeOK, TcbTypeOK, SemPend, Call, At
<1>2. CASE sem[r] = 0
  <2> DEFINE ev == IF tcb[t].event \in {SigEvent, BothEvents} THEN BothEvents ELSE RsrcEvent
  <2>1. /\ pc' = [pc EXCEPT ![t] = "pendarmed"] /\ want' = [want EXCEPT ![t] = r]
        /\ sem' = sem
        /\ tcb' = [tcb EXCEPT ![t].event = ev, ![t].active = IndexMask(r)]
    BY <1>2 DEF SemPend
  <2>2. tcb'[t].active = IndexMask(want'[t]) /\ sem'[want'[t]] <= 0
    BY <1>1, <1>2, <2>1 DEF Tcb
  <2>3. \A u \in Task \ {t} : tcb'[u] = tcb[u] /\ pc'[u] = pc[u] /\ want'[u] = want[u]
    BY <1>1, <2>1
  <2> QED BY <2>1, <2>2, <2>3 DEF ArmedAtZero
<1>3. CASE sem[r] # 0
  <2>1. Acquire(t, r) /\ pc' = pc /\ want' = want
    BY <1>3 DEF SemPend
  <2> QED BY <1>1, <2>1, AcquireArmed
<1> QED BY <1>2, <1>3

LEMMA SemPostWakeArmed ==
    ASSUME Inv, ArmedAtZero, NEW t \in Task, SemPostWake(t) PROVE ArmedAtZero'
<1>1. /\ pc \in [Task -> Point] /\ want \in [Task -> Sem \cup {0}]
      /\ tcb \in [Task -> Tcb] /\ sem \in [Sem -> Int]
  BY DEF Inv, TypeOK, CallTypeOK, SemTypeOK, TcbTypeOK
<1>2. PICK r \in Sem : r = want[t]
  BY DEF SemPostWake, At, Inv, WantsSem
<1>3. /\ sem' = [sem EXCEPT ![r] = @ + 1]
      /\ tcb' = [u \in Task |->
            WokenByPost([tcb[u] EXCEPT !.elevated = IF u = t THEN FALSE ELSE @], r)]
      /\ pc' = [pc EXCEPT ![t] = "run"] /\ want' = [want EXCEPT ![t] = 0]
  BY <1>2 DEF SemPostWake
<1>4. SUFFICES ASSUME NEW u \in Task, tcb'[u].event = RsrcEvent,
                      pc'[u] \in {"pendarmed", "pendwait"}
               PROVE  tcb'[u].active = IndexMask(want'[u]) /\ sem'[want'[u]] <= 0
  BY DEF ArmedAtZero
<1>5. u # t /\ pc'[u] = pc[u] /\ want'[u] = want[u]
  BY <1>1, <1>3, <1>4
<1>6. /\ tcb[u].event = RsrcEvent /\ tcb'[u].active = tcb[u].active
      /\ tcb[u].active # IndexMask(r)
  <2> DEFINE low == [tcb[u] EXCEPT !.elevated = IF u = t THEN FALSE ELSE @]
  <2>1. low.event = tcb[u].event /\ low.active = tcb[u].active
    BY <1>1 DEF Tcb
  <2>2. tcb'[u] = WokenByPost(low, r) /\ low \in Tcb
    <3>1. (IF u = t THEN FALSE ELSE tcb[u].elevated) \in BOOLEAN
      BY <1>1 DEF Tcb
    <3>2. low \in Tcb
      BY <1>1, <3>1, FieldUpdates
    <3> QED BY <1>3, <3>2
  <2> HIDE DEF low
  <2>3. low.event = RsrcEvent /\ low.active # IndexMask(r) /\ tcb'[u] = low
    BY <1>4, <2>2 DEF WokenByPost, None, RsrcEvent, Tcb
  <2> QED BY <2>1, <2>3
<1>7. tcb[u].active = IndexMask(want[u]) /\ sem[want[u]] <= 0 /\ want[u] \in Sem
  BY <1>4, <1>5, <1>6 DEF ArmedAtZero, Inv, WantsSem
<1>8. want[u] # r
  BY <1>6, <1>7
<1>9. sem'[want[u]] = sem[want[u]]
  BY <1>1, <1>3, <1>7, <1>8
<1> QED BY <1>5, <1>6, <1>7, <1>9

LEMMA TaskStepAtZero ==
    ASSUME NothingDeleted, Inv, ArmedAtZero, NEW t \in Task, TaskStep(t)
    PROVE  ArmedAtZero'
<1>1. /\ pc \in [Task -> Point] /\ tcb \in [Task -> Tcb]
      /\ want \in [Task -> Sem \cup {0}]
  BY DEF Inv, TypeOK, CallTypeOK, TcbTypeOK, SemTypeOK
<1>2. CASE \/ WaitUntilNextPeriod(t)
           \/ \E p \in Periods : WaitUntilNextNPeriods(t, p)
           \/ \E n \in Delay : \/ WaitTicks(t, n)
                               \/ Wait(t, n)
                               \/ WaitUntilTicks(t, n)
                               \/ SetNextWakeup(t, n)
  <2>1. NotSem
    BY <1>2 DEF WaitUntilNextPeriod, WaitUntilNextNPeriods, WaitTicks, Wait,
       WaitUntilTicks, SetNextWakeup, NotSem, callVars
  <2>2. ArmsNone
    BY <1>1, <1>2 DEF WaitUntilNextPeriod, WaitUntilNextNPeriods, WaitTicks, Wait,
       WaitUntilTicks, SetNextWakeup, ArmsNone, Tcb
  <2> QED BY <2>1, <2>2, QuietArmed
<1>3. CASE TerminateDequeue(t) \/ TerminateFinish(t) \/ TerminateWait(t)
  <2>1. NotSem
    BY <1>1, <1>3 DEF TerminateDequeue, TerminateFinish, TerminateWait, NotSem, SemPoint
  <2>2. ArmsNone
    BY <1>1, <1>3 DEF TerminateDequeue, TerminateFinish, TerminateWait, ArmsNone, Tcb
  <2> QED BY <2>1, <2>2, QuietArmed
<1>4. CASE \/ \E s \in Signal : SignalRegister(t, s) \/ EventSignal(t, s)
           \/ SignalCreate(t)
  <2>1. NotSem
    BY <1>4 DEF SignalRegister, EventSignal, SignalCreate, NotSem, callVars
  <2>2. ArmsNone
    BY <1>1, <1>4, SignalArmsNone DEF SignalRegister, EventSignal, SignalCreate, ArmsNone,
       tcbVars, Tcb
  <2> QED BY <2>1, <2>2, QuietArmed
<1>5. CASE \E s \in Signal : SignalUnregister(t, s)
  <2>1. NotSem /\ pc[t] = "run" /\ pc' = pc
    BY <1>5 DEF SignalUnregister, Call, At, NotSem, callVars
  <2>2. \A u \in Task \ {t} : tcb'[u] = tcb[u]
    BY <1>1, <1>5 DEF SignalUnregister
  <2> QED BY <2>1, <2>2 DEF ArmedAtZero, NotSem, semVars
<1>6. CASE \E s \in Signal : SignalDelete(t, s)
  BY <1>6 DEF SignalDelete, Call, NothingDeleted
<1>7. CASE \/ \E mask \in WaitMask[t] : EventWait(t, mask)
           \/ EventWaitBlock(t) \/ EventWaitReturn(t)
  <2>1. NotSem
    BY <1>1, <1>7 DEF EventWait, EventWaitBlock, EventWaitReturn, NotSem, SemPoint
  <2>2. ArmsNone
    <3>1. CASE \E mask \in WaitMask[t] : EventWait(t, mask)
      BY <1>1, <3>1 DEF EventWait, ArmsNone, Tcb, SigEvent, RsrcEvent
    <3>2. CASE EventWaitBlock(t)
      <4>1. \/ tcb' = [tcb EXCEPT ![t].suspend = TRUE, ![t].nw = TRUE]
            \/ tcb' = [tcb EXCEPT ![t].suspend = TRUE, ![t].nextWakeup = 0]
        BY <3>2 DEF EventWaitBlock
      <4> QED BY <1>1, <4>1 DEF ArmsNone, Tcb
    <3>3. CASE EventWaitReturn(t)
      BY <3>3 DEF EventWaitReturn, tcbVars, ArmsNone
    <3> QED BY <1>7, <3>1, <3>2, <3>3
  <2> QED BY <2>1, <2>2, QuietArmed
<1>8. CASE \E r \in Sem : SemPend(t, r)
  BY <1>8, SemPendArmed
<1>9. CASE \E r \in Sem : SemPost(t, r)
  <2>1. /\ pc[t] = "run" /\ UNCHANGED <<tcb, sem>>
        /\ pc' = pc \/ pc' = [pc EXCEPT ![t] = "posting"]
        /\ \A u \in Task \ {t} : want'[u] = want[u]
        /\ pc' = pc => want' = want
    BY <1>1, <1>9 DEF SemPost, Call, At, tcbVars
  <2> QED BY <1>1, <2>1 DEF ArmedAtZero
<1>10. CASE SemPendBlock(t)
  <2>1. /\ pc[t] = "pendarmed" /\ pc' = [pc EXCEPT ![t] = "pendwait"]
        /\ UNCHANGED <<sem, want>>
    BY <1>10 DEF SemPendBlock, At, semVars
  <2>2. ArmsNone
    BY <1>1, <1>10 DEF SemPendBlock, ArmsNone, Tcb
  <2> QED BY <1>1, <2>1, <2>2 DEF ArmedAtZero, ArmsNone
<1>11. CASE SemPendTake(t)
  <2>1. PICK r \in Sem : r = want[t]
    BY <1>11 DEF SemPendTake, At, Inv, WantsSem
  <2>2. Acquire(t, r) /\ pc[t] = "pendwait" /\ pc' = [pc EXCEPT ![t] = "run"]
        /\ want' = [want EXCEPT ![t] = 0]
    BY <1>11, <2>1 DEF SemPendTake, At
  <2> QED BY <1>1, <2>2, AcquireArmed
<1>12. CASE SemPostWake(t)
  BY <1>12, SemPostWakeArmed
<1> QED BY <1>2, <1>3, <1>4, <1>5, <1>6, <1>7, <1>8, <1>9, <1>10, <1>11, <1>12 DEF TaskStep

\* The scheduler disarms a sleeper it wakes and arms nobody.
LEMMA SchedulerArmsNone ==
    ASSUME Inv, SchedEnter \/ SchedTask PROVE ArmsNone
<1>1. tcb \in [Task -> Tcb] /\ cur \in Task
  BY DEF Inv, TypeOK, TcbTypeOK, SchedTypeOK
<1>2. CASE SchedEnter
  <2>1. /\ Suspended(tcb[cur]).event = tcb[cur].event
        /\ Suspended(tcb[cur]).active = tcb[cur].active
    BY <1>1 DEF Suspended, Tcb
  <2>2. CurrentAfterWait \in Tcb
    BY <1>1, SuspendedType DEF CurrentAfterWait
  <2>3. /\ CurrentAfterWait.event = tcb[cur].event
        /\ CurrentAfterWait.active = tcb[cur].active
    BY <2>1 DEF CurrentAfterWait
  <2> DEFINE after == IF Accounted(CurrentAfterWait)
                      THEN [CurrentAfterWait EXCEPT !.cpuRemaining = Left(CurrentAfterWait)]
                      ELSE CurrentAfterWait
  <2>4. after.event = tcb[cur].event /\ after.active = tcb[cur].active
    BY <2>2, <2>3 DEF Tcb
  <2>5. tcb' = [tcb EXCEPT ![cur] = after]
    BY <1>2 DEF SchedEnter
  <2> HIDE DEF after
  <2> QED BY <1>1, <2>4, <2>5 DEF ArmsNone
<1>3. CASE SchedTask
  <2> DEFINE aged == Aged(sched)
             due == aged.state = "SUSPENDED" /\ aged.nextWakeup = 0
             after == IF due THEN Awoken(sched, aged) ELSE aged
  <2>1. sched \in Task /\ tcb' = [tcb EXCEPT ![sched] = after]
    BY <1>3 DEF SchedTask
  <2>2. aged \in Tcb /\ aged.event = tcb[sched].event /\ aged.active = tcb[sched].active
    BY <1>1, <2>1, AgedType DEF Aged, Tcb
  <2> HIDE DEF aged
  <2>3. Awoken(sched, aged).event = None
    BY <2>2 DEF Awoken, Tcb
  <2>4. after.event = RsrcEvent =>
            tcb[sched].event = RsrcEvent /\ after.active = tcb[sched].active
    BY <2>2, <2>3 DEF None, RsrcEvent
  <2> HIDE DEF after
  <2> QED BY <1>1, <2>1, <2>4 DEF ArmsNone
<1> QED BY <1>2, <1>3

LEMMA NextAtZero == NothingDeleted /\ Inv /\ ArmedAtZero /\ [Next]_vars => ArmedAtZero'
<1> SUFFICES ASSUME NothingDeleted, Inv, ArmedAtZero, [Next]_vars PROVE ArmedAtZero'
  OBVIOUS
<1>1. tcb \in [Task -> Tcb]
  BY DEF Inv, TypeOK, TcbTypeOK
<1>2. CASE SchedEnter \/ SchedTask
  <2>1. NotSem
    BY <1>2 DEF SchedEnter, SchedTask, NotSem, callVars
  <2> QED BY <1>2, <2>1, SchedulerArmsNone, QuietArmed
<1>3. CASE \/ Startup \/ Tick \/ SchedPick
           \/ UNCHANGED vars \/ \E s \in IsrSignals : IsrSignal(s)
  <2>1. NotSem
    BY <1>3 DEF Startup, ActivateTask, Start, Tick, SchedPick, vars, IsrSignal, NotSem,
       callVars
  <2>2. ArmsNone
    <3>1. CASE \E s \in IsrSignals : IsrSignal(s)
      BY <3>1, SignalArmsNone, KernelAssumption DEF IsrSignal
    <3>2. CASE Startup
      BY <1>1, <3>2 DEF Startup, ActivateTask, Start, ArmsNone, tcbVars, Tcb
    <3>3. CASE Tick \/ SchedPick \/ UNCHANGED vars
      BY <3>3 DEF Tick, SchedPick, vars, ArmsNone, tcbVars
    <3> QED BY <1>3, <3>1, <3>2, <3>3
  <2> QED BY <2>1, <2>2, QuietArmed
<1>4. CASE Boot
  BY <1>4 DEF Boot, ArmedAtZero
<1>5. CASE \E t \in Task : TaskStep(t)
  BY <1>5, TaskStepAtZero
<1> QED BY <1>2, <1>3, <1>4, <1>5 DEF Next, Scheduler, ReserveViolated, WatchdogReset

\* No task stays in the wait of nrk_sem_pend while the semaphore is free, for
\* any tasks that delete no signal: arming is one step with the test of the
\* value, so a post between them and the wait disarms the task and the
\* scheduler wakes it (nrk_events.c:238-244 against 267-283).
THEOREM SemWakeupNeverLost ==
    ASSUME NothingDeleted
    PROVE  Spec => []NoLostSemWakeup
<1>1. Init => ArmedAtZero
  BY DEF Init, ArmedAtZero
<1>2. Inv /\ ArmedAtZero => NoLostSemWakeup
  BY DEF ArmedAtZero, NoLostSemWakeup
<1>3. Inv /\ ArmedAtZero /\ [Next]_vars => ArmedAtZero'
  BY NextAtZero
<1> QED BY <1>1, <1>2, <1>3, InitInv, NextInv, PTL DEF Spec
=============================================================================
