--------------------------- MODULE NrkSchedProofs ---------------------------
(***************************************************************************)
(* Time and order in the scheduler, for every set of tasks.                *)
(*                                                                         *)
(* WakeOnTime holds because the loop carries the nearest wakeup of the     *)
(* tasks it has passed (NearestSleeper) and nothing but a signal, which    *)
(* asks for the next run, changes a sleeper behind its back.               *)
(*                                                                         *)
(* TicksAccounted holds while interrupts stay enabled: then the timer is   *)
(* below its compare value until they meet and at 0 from there on, so      *)
(* that what is recorded, and what is waited for, agree (ClockInv).        *)
(*                                                                         *)
(* HighestRuns and EqualsTakeTurns hold for programs without semaphores,   *)
(* because the order of the queue is then that of the priorities           *)
(* (Sorted).  FinishedGone holds when no signal and no semaphore reaches a *)
(* task that terminates: such a task is queued once at most, and only      *)
(* while it is READY (PlainInv).                                           *)
(* For programs that only wait for time, QueueExact adds that the          *)
(* scheduler finds a node of the pool for every task it wakes (Room).      *)
(*                                                                         *)
(* WaiterReachable holds while signals are neither deleted nor             *)
(* unregistered: whoever is armed is armed for a signal it registered, and *)
(* registered signals exist (ArmedInv).                                    *)
(***************************************************************************)
EXTENDS NrkKernelProofs

-----------------------------------------------------------------------------
(* The next interrupt is not later than the nearest wakeup.                *)

\* A task the loop has passed and that sleeps until a known time.
Sleeps(t) == t < sched /\ tcb[t].state = "SUSPENDED" /\ tcb[t].nextWakeup # 0

NearestSleeper == sched \in 0..PickStep =>
                      \A t \in Task : Sleeps(t) => nextWake <= tcb[t].nextWakeup

InRegister == timer < TimerSize

WakeInv == NearestSleeper /\ InRegister

\* A step outside the loop, or out of it.
LEMMA OutsideLoop == ASSUME sched' \in {Booting, Off} PROVE NearestSleeper'
BY TaskRange DEF NearestSleeper, Booting, Off

LEMMA SchedTaskNearest ==
    ASSUME Inv, NearestSleeper, SchedTask PROVE NearestSleeper'
<1> DEFINE aged == Aged(sched)
           due == aged.state = "SUSPENDED" /\ aged.nextWakeup = 0
           after == IF due THEN Awoken(sched, aged) ELSE aged
<1>1. sched \in Task /\ sched \in 0..PickStep /\ sched' = sched + 1
  BY TaskRange DEF SchedTask
<1>2. aged \in Tcb /\ Awoken(sched, aged) \in Tcb
  BY <1>1, AgedType, AwokenType
<1>3. tcb' = [tcb EXCEPT ![sched] = after] /\ tcb \in [Task -> Tcb]
  BY DEF SchedTask, Inv, TypeOK, TcbTypeOK
<1>4. nextWake' = IF /\ aged.state = "SUSPENDED"
                     /\ after.nextWakeup # 0
                     /\ after.nextWakeup < nextWake
                  THEN after.nextWakeup ELSE nextWake
  BY DEF SchedTask
<1>5. after.state = "SUSPENDED" => aged.state = "SUSPENDED"
  BY <1>2 DEF Awoken, Tcb
<1>6. after.nextWakeup \in Nat /\ nextWake \in Nat
  BY <1>2 DEF Tcb, Inv, TypeOK, SchedTypeOK
<1> HIDE DEF aged, due, after
<1>7. nextWake' <= nextWake
  BY <1>4, <1>6
<1>8. SUFFICES ASSUME NEW t \in Task, t < sched + 1, tcb'[t].state = "SUSPENDED",
                      tcb'[t].nextWakeup # 0
               PROVE  nextWake' <= tcb'[t].nextWakeup
  BY <1>1 DEF NearestSleeper, Sleeps
<1>9. CASE t = sched
  BY <1>1, <1>3, <1>4, <1>5, <1>6, <1>8, <1>9
<1>10. CASE t # sched
  <2>1. t < sched /\ tcb'[t] = tcb[t]
    BY <1>1, <1>3, <1>8, <1>10, TaskRange
  <2>2. nextWake <= tcb[t].nextWakeup
    BY <1>1, <1>8, <2>1 DEF NearestSleeper, Sleeps
  <2>3. tcb[t].nextWakeup \in Nat /\ nextWake' \in Nat
    BY <1>3, <1>4, <1>6 DEF Tcb
  <2> QED BY <1>6, <1>7, <2>1, <2>2, <2>3
<1> QED BY <1>9, <1>10

\* A signal in the middle of the loop leaves a sleeper as it is or wakes it.
LEMMA IsrSignalNearest ==
    ASSUME Inv, NearestSleeper, NEW s \in IsrSignals, IsrSignal(s) PROVE NearestSleeper'
<1>1. tcb \in [Task -> Tcb] /\ tcb' = Signalled(s)
  BY DEF Inv, TypeOK, TcbTypeOK, IsrSignal
<1>2. sched' = sched /\ nextWake' = nextWake
  BY DEF IsrSignal, schedVars
<1>3. ASSUME NEW u \in Task, tcb'[u].nextWakeup # 0 PROVE tcb'[u] = tcb[u]
  <2>1. ASSUME NEW S
        PROVE  [tcb[u] EXCEPT !.state = "SUSPENDED", !.nextWakeup = 0,
                              !.event = None, !.active = S].nextWakeup = 0
    BY <1>1 DEF Tcb
  <2>2. Signalled(s)[u].nextWakeup = 0 \/ Signalled(s)[u] = tcb[u]
    BY <2>1 DEF Signalled
  <2> QED BY <1>1, <1>3, <2>2
<1> QED BY <1>2, <1>3 DEF NearestSleeper, Sleeps

LEMMA Remainder ==
    ASSUME NEW n \in Nat, NEW m \in Nat \ {0}
    PROVE  /\ n % m \in Nat /\ n % m < m /\ n % m <= n
           /\ n < m => n % m = n
OBVIOUS

LEMMA TaskStepOff ==
    ASSUME NEW t \in Task, TaskStep(t)
    PROVE  UNCHANGED <<schedVars, timer, pending>> /\ sched = Off
BY DEF TaskStep, WaitUntilNextPeriod, WaitUntilNextNPeriods, WaitTicks, Wait,
   WaitUntilTicks, SetNextWakeup, TerminateDequeue, TerminateFinish, TerminateWait,
   SignalRegister, SignalUnregister, SignalDelete, EventSignal, SignalCreate, EventWait,
   EventWaitBlock, EventWaitReturn, SemPend, SemPost, SemPendBlock, SemPendTake,
   SemPostWake, WaitForScheduler, Call, At, Running, timeVars

LEMMA NextWakeInv == Inv /\ WakeInv /\ [Next]_vars => WakeInv'
<1> SUFFICES ASSUME Inv, WakeInv, [Next]_vars PROVE WakeInv'
  OBVIOUS
<1> USE DEF WakeInv
<1>1. CASE Startup
  BY <1>1, OutsideLoop DEF Startup, ActivateTask, Start, timeVars, InRegister
<1>2. CASE Tick
  <2>1. timer \in Nat /\ TimerSize \in Nat \ {0}
    BY KernelAssumption DEF Inv, TypeOK, TimeTypeOK
  <2>2. (timer + 1) % TimerSize < TimerSize /\ 0 < TimerSize
    BY <2>1, Remainder
  <2>3. InRegister'
    BY <1>2, <2>2 DEF Tick, InRegister
  <2> QED BY <1>2, <2>3, OutsideLoop DEF Tick, schedVars
<1>3. CASE SchedEnter
  <2>1. NearestSleeper'
    BY <1>3, TaskRange DEF SchedEnter, NearestSleeper, Sleeps
  <2> QED BY <1>3, <2>1 DEF SchedEnter, InRegister
<1>4. CASE SchedTask
  BY <1>4, SchedTaskNearest DEF SchedTask, timeVars, InRegister
<1>5. CASE SchedPick
  BY <1>5, OutsideLoop DEF SchedPick, InRegister
<1>6. CASE Boot
  BY <1>6, OutsideLoop, KernelAssumption DEF Boot, InRegister
<1>7. CASE \E t \in Task : TaskStep(t)
  BY <1>7, TaskStepOff, OutsideLoop DEF schedVars, InRegister
<1>8. CASE \E s \in IsrSignals : IsrSignal(s)
  BY <1>8, IsrSignalNearest DEF IsrSignal, timeVars, InRegister
<1>9. CASE UNCHANGED vars
  BY <1>9 DEF vars, schedVars, timeVars, tcbVars, NearestSleeper, Sleeps, InRegister
<1> QED BY <1>1, <1>2, <1>3, <1>4, <1>5, <1>6, <1>7, <1>8, <1>9
    DEF Next, Scheduler, ReserveViolated, WatchdogReset

\* What WakeOnTime says of one step.
SetInTime ==
    sched = PickStep /\ sched' = Off =>
        \A t \in Task : tcb[t].state = "SUSPENDED" /\ tcb[t].nextWakeup # 0 =>
            compare' <= tcb[t].nextWakeup \/ compare' = timer + 2

NotPutOff == sched = Off /\ ~pending => compare' <= compare

LEMMA PickInTime == ASSUME Inv, WakeInv, SchedPick PROVE SetInTime
<1> DEFINE head == queue[1]
           until == IF /\ head # Idle
                       /\ Reserve[head] # 0
                       /\ tcb[head].cpuRemaining < nextWake
                    THEN tcb[head].cpuRemaining ELSE nextWake
           set == IF timer + 1 >= until THEN timer + 2 ELSE until
<1>1. SUFFICES ASSUME NEW t \in Task, tcb[t].state = "SUSPENDED", tcb[t].nextWakeup # 0
               PROVE  compare' <= tcb[t].nextWakeup \/ compare' = timer + 2
  BY DEF SetInTime
<1>2. sched = PickStep /\ compare' = ((set - 1) % TimerSize) + 1
  BY DEF SchedPick
<1>3. tcb[t].nextWakeup \in Nat \ {0} /\ nextWake <= tcb[t].nextWakeup
  <2>1. tcb[t].nextWakeup \in Nat /\ t < sched /\ sched \in 0..PickStep
    BY <1>2, TaskRange DEF Inv, TypeOK, TcbTypeOK, Tcb
  <2> QED BY <1>1, <2>1 DEF WakeInv, NearestSleeper, Sleeps
<1>4. /\ timer \in Nat /\ timer < TimerSize /\ TimerSize \in Nat \ {0} /\ nextWake \in Nat
  BY KernelAssumption DEF Inv, TypeOK, TimeTypeOK, SchedTypeOK, WakeInv, InRegister
<1>5. until \in Nat /\ until <= nextWake
  <2>1. head \in Task
    BY HeadIsTask DEF Inv, TypeOK, QueueTypeOK, IdleLast
  <2>2. tcb[head].cpuRemaining \in Nat
    BY <2>1 DEF Inv, TypeOK, TcbTypeOK, Tcb
  <2> QED BY <1>4, <2>2
<1> HIDE DEF until
<1>6. CASE timer + 1 >= until
  <2>1. set - 1 = timer + 1
    BY <1>4, <1>6
  <2>2. CASE timer + 1 < TimerSize
    <3>1. (timer + 1) % TimerSize = timer + 1
      BY <1>4, <2>2, Remainder
    <3> QED BY <1>2, <1>4, <2>1, <3>1
  <2>3. CASE timer + 1 = TimerSize
    <3>1. (timer + 1) % TimerSize = 0
      BY <1>4, <2>3
    <3> QED BY <1>2, <1>3, <2>1, <3>1
  <2> QED BY <1>4, <2>2, <2>3
<1>7. CASE timer + 1 < until
  <2>1. set = until /\ until - 1 \in Nat
    BY <1>4, <1>5, <1>7
  <2>2. (until - 1) % TimerSize \in Nat /\ (until - 1) % TimerSize <= until - 1
    BY <1>4, <2>1, Remainder
  <2>3. compare' <= until
    BY <1>2, <1>5, <2>1, <2>2
  <2>4. compare' \in Nat
    BY <1>2, <2>1, <2>2
  <2> QED BY <1>3, <1>4, <1>5, <2>3, <2>4
<1> QED BY <1>4, <1>5, <1>6, <1>7

LEMMA TaskStepNotPutOff ==
    ASSUME Inv, NEW t \in Task, TaskStep(t) PROVE compare' <= compare
<1>1. timer \in Nat /\ compare \in Nat /\ compare <= compare
  BY DEF Inv, TypeOK, TimeTypeOK
<1>2. WaitForScheduler \/ compare' = compare
  BY DEF TaskStep, WaitUntilNextPeriod, WaitUntilNextNPeriods, WaitTicks, Wait,
     WaitUntilTicks, SetNextWakeup, TerminateDequeue, TerminateFinish, TerminateWait,
     SignalRegister, SignalUnregister, SignalDelete, EventSignal, SignalCreate, EventWait,
     EventWaitBlock, EventWaitReturn, SemPend, SemPost, SemPendBlock, SemPendTake,
     SemPostWake, timeVars
<1> QED BY <1>1, <1>2 DEF WaitForScheduler

\* The scheduler sets no interrupt later than the wakeup of any sleeper, save
\* the two ticks below which it cannot set one, and no call of a task puts the
\* interrupt off, for any tasks, clocks and signals (nrk_scheduler.c:254-259,
\* 278-373; nrk_task.c:301-307).
THEOREM AlwaysWokenOnTime == Spec => WakeOnTime
<1>1. Init => WakeInv
  BY KernelAssumption, TaskRange
     DEF Init, WakeInv, NearestSleeper, InRegister, Booting
<1>2. ASSUME Inv, WakeInv, [Next]_vars PROVE SetInTime /\ NotPutOff
  <2>1. compare <= compare /\ PickStep # Off
    <3>1. compare \in Nat /\ PickStep \in Nat
      BY <1>2, TaskRange DEF Inv, TypeOK, TimeTypeOK
    <3> QED BY <3>1 DEF Off
  <2>2. CASE SchedPick
    BY <1>2, <2>1, <2>2, PickInTime DEF SchedPick, NotPutOff
  <2>3. CASE \E t \in Task : TaskStep(t)
    BY <1>2, <2>1, <2>3, TaskStepOff, TaskStepNotPutOff DEF SetInTime, NotPutOff
  <2>4. CASE Startup \/ SchedEnter \/ SchedTask \/ ReserveViolated \/ WatchdogReset
    BY <2>1, <2>4, TaskRange DEF Startup, ActivateTask, Start, SchedEnter, SchedTask,
       ReserveViolated, WatchdogReset, Boot, SetInTime, NotPutOff, Booting, Off
  <2>5. CASE Tick \/ (\E s \in IsrSignals : IsrSignal(s)) \/ UNCHANGED vars
    BY <2>1, <2>5 DEF Tick, IsrSignal, vars, schedVars, timeVars, SetInTime, NotPutOff
  <2> QED BY <1>2, <2>2, <2>3, <2>4, <2>5 DEF Next, Scheduler
<1>3. Inv /\ WakeInv /\ [Next]_vars =>
        [/\ sched = PickStep /\ sched' = Off =>
             \A t \in Task :
                 tcb[t].state = "SUSPENDED" /\ tcb[t].nextWakeup # 0 =>
                     compare' <= tcb[t].nextWakeup \/ compare' = timer + 2
         /\ sched = Off /\ ~pending => compare' <= compare]_vars
  BY <1>2 DEF SetInTime, NotPutOff
<1> QED BY <1>1, <1>3, InitInv, NextInv, NextWakeInv, PTL DEF Spec, WakeOnTime

-----------------------------------------------------------------------------
(* What the scheduler takes off the clocks is what has passed.             *)

\* Nobody calls the one function that may return with interrupts disabled.
IntsKept == \A t \in Task : "set_next_wakeup" \notin Calls[t]

Recorded == \/ prevTimer = compare
            \/ prevTimer = 0 /\ compare = StartTimer + 1

\* Before the start, while tasks run, and in the scheduler.
BeforeStart == /\ prevTimer = 0 /\ compare = StartTimer + 1
               /\ timer = 0 /\ ~pending
TasksRun == /\ ints /\ Recorded /\ compare <= TimerSize
            /\ pending => timer = 0
            /\ ~pending => timer < compare
InScheduler == timer = 0 /\ nextWake <= MaxSleep /\ ints /\ ~pending

ClockInv == /\ sched = Booting => BeforeStart
            /\ sched = Off => TasksRun
            /\ sched \in 0..PickStep => InScheduler

\* A task runs only while the interrupt is not waiting to be served.
LEMMA RunsUnasked ==
    ASSUME ClockInv, NEW t \in Task, TaskStep(t)
    PROVE  sched = Off /\ ints /\ ~pending
<1>1. sched = Off /\ ~(pending /\ ints)
  BY DEF TaskStep, WaitUntilNextPeriod, WaitUntilNextNPeriods, WaitTicks, Wait,
     WaitUntilTicks, SetNextWakeup, TerminateDequeue, TerminateFinish, TerminateWait,
     SignalRegister, SignalUnregister, SignalDelete, EventSignal, SignalCreate, EventWait,
     EventWaitBlock, EventWaitReturn, SemPend, SemPost, SemPendBlock, SemPendTake,
     SemPostWake, Call, At, Running
<1> QED BY <1>1 DEF ClockInv, TasksRun

LEMMA TaskStepTime ==
    ASSUME IntsKept, Inv, NEW t \in Task, TaskStep(t)
    PROVE  /\ ints' = TRUE \/ ints' = ints
           /\ WaitForScheduler \/ UNCHANGED <<compare, prevTimer>>
BY DEF IntsKept, TaskStep, WaitUntilNextPeriod, WaitUntilNextNPeriods, WaitTicks, Wait,
   WaitUntilTicks, SetNextWakeup, TerminateDequeue, TerminateFinish, TerminateWait,
   SignalRegister, SignalUnregister, SignalDelete, EventSignal, SignalCreate, EventWait,
   EventWaitBlock, EventWaitReturn, SemPend, SemPost, SemPendBlock, SemPendTake,
   SemPostWake, Acquire, WaitForScheduler, Call, timeVars

LEMMA TaskStepClock ==
    ASSUME IntsKept, Inv, ClockInv, NEW t \in Task, TaskStep(t) PROVE ClockInv'
<1>1. sched = Off /\ ints /\ ~pending /\ TasksRun
  BY RunsUnasked DEF ClockInv
<1>2. sched' = Off /\ timer' = timer /\ pending' = pending
  BY <1>1, TaskStepOff DEF schedVars
<1>3. ints'
  BY <1>1, TaskStepTime
<1>4. /\ timer \in Nat /\ TimePad \in Nat \ {0} /\ MaxSleep \in Nat /\ MaxSleep < TimerSize
      /\ TimerSize \in Nat
  BY KernelAssumption DEF Inv, TypeOK, TimeTypeOK
<1>5. CASE WaitForScheduler
  <2>1. \/ compare' = compare /\ prevTimer' = prevTimer
        \/ /\ timer < MaxSleep - TimePad
           /\ compare' = timer + TimePad /\ prevTimer' = timer + TimePad
    BY <1>5 DEF WaitForScheduler
  <2>2. Recorded' /\ compare' <= TimerSize /\ timer' < compare'
    BY <1>1, <1>2, <1>4, <2>1 DEF TasksRun, Recorded
  <2> QED BY <1>1, <1>2, <1>3, <2>2, TaskRange DEF ClockInv, TasksRun, Off, Booting
<1>6. CASE UNCHANGED <<compare, prevTimer>>
  BY <1>1, <1>2, <1>3, <1>6, TaskRange DEF ClockInv, TasksRun, Recorded, Off, Booting
<1> QED BY <1>5, <1>6, TaskStepTime

LEMMA SchedPickClock == ASSUME Inv, ClockInv, SchedPick PROVE ClockInv'
<1> DEFINE head == queue[1]
           until == IF /\ head # Idle
                       /\ Reserve[head] # 0
                       /\ tcb[head].cpuRemaining < nextWake
                    THEN tcb[head].cpuRemaining ELSE nextWake
           set == IF timer + 1 >= until THEN timer + 2 ELSE until
<1>1. /\ sched = PickStep /\ sched' = Off /\ UNCHANGED <<timer, ints, pending>>
      /\ compare' = ((set - 1) % TimerSize) + 1 /\ prevTimer' = set % TimerSize
  BY DEF SchedPick
<1>2. timer = 0 /\ nextWake <= MaxSleep /\ ints /\ ~pending
  BY <1>1, TaskRange DEF ClockInv, InScheduler
<1>3. /\ TimePad \in Nat \ {0} /\ MaxSleep \in Nat /\ TimePad < MaxSleep
      /\ TimerSize \in Nat /\ MaxSleep < TimerSize /\ nextWake \in Nat
  BY KernelAssumption DEF Inv, TypeOK, SchedTypeOK
<1>4. until \in Nat /\ until <= MaxSleep
  <2>1. head \in Task
    BY HeadIsTask DEF Inv, TypeOK, QueueTypeOK, IdleLast
  <2>2. tcb[head].cpuRemaining \in Nat
    BY <2>1 DEF Inv, TypeOK, TcbTypeOK, Tcb
  <2> QED BY <1>2, <1>3, <2>2
<1> HIDE DEF until
<1>5. set \in Nat /\ set >= 2 /\ set <= MaxSleep
  BY <1>2, <1>3, <1>4
<1> HIDE DEF set
<1>6. (set - 1) % TimerSize = set - 1 /\ set % TimerSize = set
  <2>1. set - 1 \in Nat /\ set - 1 < TimerSize /\ set < TimerSize /\ TimerSize \in Nat \ {0}
    BY <1>3, <1>5
  <2> QED BY <1>5, <2>1, Remainder
<1>7. compare' = set /\ prevTimer' = set
  BY <1>1, <1>5, <1>6
<1> QED BY <1>1, <1>2, <1>3, <1>5, <1>7, TaskRange
    DEF ClockInv, TasksRun, Recorded, Off, Booting

LEMMA TickClock == ASSUME Inv, ClockInv, Tick PROVE ClockInv'
<1>1. sched = Off /\ sched' = Off /\ UNCHANGED <<ints, compare, prevTimer>>
  BY DEF Tick, schedVars
<1>2. TasksRun /\ ~pending
  BY <1>1 DEF ClockInv, TasksRun, Tick
<1>3. timer \in Nat /\ compare \in Nat /\ TimerSize \in Nat \ {0}
  BY KernelAssumption DEF Inv, TypeOK, TimeTypeOK
<1>4. CASE timer + 1 = compare
  <2>1. timer' = 0 /\ pending'
    BY <1>2, <1>4 DEF Tick, Matches
  <2> QED BY <1>1, <1>2, <2>1, TaskRange DEF ClockInv, TasksRun, Recorded, Off, Booting
<1>5. CASE timer + 1 # compare
  <2>1. timer' = (timer + 1) % TimerSize /\ ~pending'
    BY <1>2, <1>5 DEF Tick, Matches
  <2>2. timer + 1 < compare /\ timer + 1 < TimerSize
    BY <1>2, <1>3, <1>5 DEF TasksRun
  <2>3. timer' = timer + 1
    BY <1>3, <2>1, <2>2, Remainder
  <2> QED BY <1>1, <1>2, <2>1, <2>2, <2>3, TaskRange
      DEF ClockInv, TasksRun, Recorded, Off, Booting
<1> QED BY <1>4, <1>5

LEMMA SchedTaskClock == ASSUME Inv, ClockInv, SchedTask PROVE ClockInv'
<1> DEFINE aged == Aged(sched)
           after == IF aged.state = "SUSPENDED" /\ aged.nextWakeup = 0
                    THEN Awoken(sched, aged) ELSE aged
<1>1. sched \in Task /\ sched' = sched + 1 /\ UNCHANGED <<timer, ints, pending>>
  BY DEF SchedTask, timeVars
<1>2. nextWake' = nextWake \/ (after.nextWakeup < nextWake /\ nextWake' = after.nextWakeup)
  BY DEF SchedTask
<1>3. after.nextWakeup \in Nat /\ nextWake \in Nat /\ MaxSleep \in Nat
  <2>1. aged \in Tcb /\ Awoken(sched, aged) \in Tcb
    BY <1>1, AgedType, AwokenType
  <2> HIDE DEF aged
  <2> QED BY <2>1, KernelAssumption DEF Tcb, Inv, TypeOK, SchedTypeOK
<1> HIDE DEF after
<1>4. InScheduler
  BY <1>1, TaskRange DEF ClockInv
<1> QED BY <1>1, <1>2, <1>3, <1>4, TaskRange DEF ClockInv, InScheduler, Off, Booting

LEMMA NextClock == IntsKept /\ Inv /\ ClockInv /\ [Next]_vars => ClockInv'
<1> SUFFICES ASSUME IntsKept, Inv, ClockInv, [Next]_vars PROVE ClockInv'
  OBVIOUS
<1>1. CASE ActivateTask
  BY <1>1, TaskRange DEF ActivateTask, timeVars, ClockInv, BeforeStart, Off, Booting
<1>2. CASE Start
  <2>1. BeforeStart /\ sched' = Off /\ ints' /\ UNCHANGED <<timer, compare, prevTimer, pending>>
    BY <1>2 DEF Start, ClockInv
  <2> QED BY <2>1, TaskRange, KernelAssumption
      DEF ClockInv, BeforeStart, TasksRun, Recorded, Off, Booting
<1>3. CASE SchedEnter
  <2>1. TasksRun /\ timer = 0 /\ sched' = 0 /\ ~pending' /\ ints' /\ timer' = 0
        /\ nextWake' = MaxSleep
    BY <1>3 DEF SchedEnter, ClockInv, TasksRun
  <2> QED BY <2>1, KernelAssumption DEF ClockInv, InScheduler, Off, Booting
<1>4. CASE Boot
  BY <1>4, TaskRange DEF Boot, ClockInv, BeforeStart, Off, Booting
<1>5. CASE \E t \in Task : TaskStep(t)
  BY <1>5, TaskStepClock
<1>6. CASE (\E s \in IsrSignals : IsrSignal(s)) \/ UNCHANGED vars
  BY <1>6 DEF IsrSignal, vars, schedVars, timeVars, ClockInv, BeforeStart, TasksRun,
     Recorded, InScheduler
<1> QED BY <1>1, <1>2, <1>3, <1>4, <1>5, <1>6, SchedTaskClock, SchedPickClock, TickClock
    DEF Next, Startup, Scheduler, ReserveViolated, WatchdogReset

\* The ticks a run of the scheduler takes off every clock are the ticks since
\* the run before it, the first period after the start excepted, for any
\* tasks that never leave the kernel with interrupts disabled
\* (nrk_task.c:305-306, nrk_scheduler.c:357-377, nrk_timer.c:55-96, 199-206).
THEOREM TicksAlwaysAccounted ==
    ASSUME IntsKept
    PROVE  Spec => TicksAccounted
<1>1. Init => ClockInv
  BY TaskRange DEF Init, ClockInv, BeforeStart, Off, Booting
<1>2. ClockInv /\ [Next]_vars =>
        [SchedEnter => \/ prevTimer = compare
                       \/ prevTimer = 0 /\ compare = StartTimer + 1]_vars
  BY DEF ClockInv, TasksRun, Recorded, SchedEnter
<1>3. Inv /\ ClockInv /\ [Next]_vars => ClockInv'
  BY NextClock
<1> QED BY <1>1, <1>2, <1>3, InitInv, NextInv, PTL DEF Spec, TicksAccounted

-----------------------------------------------------------------------------
(* The order of the queue, for programs without semaphores.                *)

NoSemCalls == \A t \in Task : "sem" \notin Calls[t]

OutOfSem == \A t \in Task : pc[t] \notin {"pendarmed", "pendwait", "posting"}
Unelevated == \A t \in Task : ~tcb[t].elevated

OrderInv == OutOfSem /\ Unelevated /\ Sorted(queue) /\ HighestRuns

RaisesNone == \A t \in Task : ~tcb[t].elevated => ~tcb'[t].elevated

LEMMA SignalRaisesNone ==
    ASSUME Inv, NEW s \in Signal, tcb' = Signalled(s) PROVE RaisesNone
<1>1. \A u \in Task : tcb[u] \in Tcb
  BY DEF Inv, TypeOK, TcbTypeOK
<1>2. ASSUME NEW u \in Task, NEW S
      PROVE  [tcb[u] EXCEPT !.state = "SUSPENDED", !.nextWakeup = 0,
                            !.event = None, !.active = S].elevated = tcb[u].elevated
  BY <1>1 DEF Tcb
<1>3. ASSUME NEW u \in Task PROVE Signalled(s)[u].elevated = tcb[u].elevated
  BY <1>2 DEF Signalled
<1> QED BY <1>3 DEF RaisesNone

LEMMA TaskStepRaisesNone ==
    ASSUME NoSemCalls, Inv, OutOfSem, NEW t \in Task, TaskStep(t)
    PROVE  RaisesNone /\ OutOfSem'
<1>1. pc \in [Task -> Point] /\ tcb \in [Task -> Tcb]
  BY DEF Inv, TypeOK, CallTypeOK, TcbTypeOK
<1>2. CASE \/ WaitUntilNextPeriod(t)
           \/ \E p \in Periods : WaitUntilNextNPeriods(t, p)
           \/ \E n \in Delay : \/ WaitTicks(t, n)
                               \/ Wait(t, n)
                               \/ WaitUntilTicks(t, n)
                               \/ SetNextWakeup(t, n)
  <2>1. RaisesNone
    BY <1>1, <1>2 DEF WaitUntilNextPeriod, WaitUntilNextNPeriods, WaitTicks, Wait,
       WaitUntilTicks, SetNextWakeup, RaisesNone, Tcb
  <2>2. OutOfSem'
    BY <1>2 DEF WaitUntilNextPeriod, WaitUntilNextNPeriods, WaitTicks, Wait,
       WaitUntilTicks, SetNextWakeup, OutOfSem, callVars
  <2> QED BY <2>1, <2>2
<1>3. CASE TerminateDequeue(t) \/ TerminateFinish(t) \/ TerminateWait(t)
  <2>1. RaisesNone
    BY <1>1, <1>3 DEF TerminateDequeue, TerminateFinish, TerminateWait, RaisesNone, Tcb
  <2>2. OutOfSem'
    BY <1>1, <1>3 DEF TerminateDequeue, TerminateFinish, TerminateWait, OutOfSem
  <2> QED BY <2>1, <2>2
<1>4. CASE \/ \E s \in Signal : \/ SignalRegister(t, s)
                                \/ SignalUnregister(t, s)
                                \/ EventSignal(t, s)
           \/ SignalCreate(t)
  <2>1. RaisesNone
    <3>1. CASE \E s \in Signal : SignalRegister(t, s) \/ SignalUnregister(t, s)
      BY <1>1, <3>1 DEF SignalRegister, SignalUnregister, RaisesNone, Tcb
    <3>2. CASE \E s \in Signal : EventSignal(t, s)
      BY <3>2, SignalRaisesNone DEF EventSignal
    <3>3. CASE SignalCreate(t)
      BY <3>3 DEF SignalCreate, tcbVars, RaisesNone
    <3> QED BY <1>4, <3>1, <3>2, <3>3
  <2>2. OutOfSem'
    BY <1>4 DEF SignalRegister, SignalUnregister, EventSignal, SignalCreate, OutOfSem,
       callVars
  <2> QED BY <2>1, <2>2
<1>5. CASE \E s \in Signal : SignalDelete(t, s)
  <2>1. RaisesNone
    <3>1. PICK s \in Signal : SignalDelete(t, s)
      BY <1>5
    <3>2. SUFFICES ASSUME NEW u \in Task PROVE tcb'[u].elevated = tcb[u].elevated
      BY DEF RaisesNone
    <3> DEFINE alone == tcb[u].registered = {s}
               a == IF alone THEN {} ELSE tcb[u].active \ {s}
               e == IF alone THEN None ELSE tcb[u].event
               st == IF alone THEN "SUSPENDED" ELSE tcb[u].state
               g == tcb[u].registered \ {s}
    <3>3. tcb'[u] = [tcb[u] EXCEPT !.active = a, !.event = e, !.state = st, !.registered = g]
      BY <1>1, <3>1 DEF SignalDelete, Tcb
    <3> HIDE DEF a, e, st, g
    <3> QED BY <1>1, <3>3 DEF Tcb
  <2>2. OutOfSem'
    BY <1>5 DEF SignalDelete, OutOfSem, callVars
  <2> QED BY <2>1, <2>2
<1>6. CASE \E mask \in WaitMask[t] : EventWait(t, mask)
  BY <1>1, <1>6 DEF EventWait, RaisesNone, OutOfSem, Tcb
<1>7. CASE EventWaitBlock(t) \/ EventWaitReturn(t)
  <2>1. \/ tcb' = [tcb EXCEPT ![t].suspend = TRUE, ![t].nw = TRUE]
        \/ tcb' = [tcb EXCEPT ![t].suspend = TRUE, ![t].nextWakeup = 0]
        \/ tcb' = tcb
    BY <1>7 DEF EventWaitBlock, EventWaitReturn, tcbVars
  <2>2. RaisesNone
    BY <1>1, <2>1 DEF RaisesNone, Tcb
  <2>3. OutOfSem'
    BY <1>1, <1>7 DEF EventWaitBlock, EventWaitReturn, OutOfSem
  <2> QED BY <2>2, <2>3
<1>8. CASE \/ \E r \in Sem : SemPend(t, r) \/ SemPost(t, r)
           \/ SemPendBlock(t) \/ SemPendTake(t) \/ SemPostWake(t)
  BY <1>8 DEF SemPend, SemPost, SemPendBlock, SemPendTake, SemPostWake, Call, At,
     NoSemCalls, OutOfSem
<1> QED BY <1>2, <1>3, <1>4, <1>5, <1>6, <1>7, <1>8 DEF TaskStep

LEMMA SchedulerRaisesNone ==
    ASSUME Inv, SchedEnter \/ SchedTask PROVE RaisesNone
<1>1. tcb \in [Task -> Tcb] /\ cur \in Task
  BY DEF Inv, TypeOK, TcbTypeOK, SchedTypeOK
<1>2. CASE SchedEnter
  <2>1. Suspended(tcb[cur]).elevated = tcb[cur].elevated
    BY <1>1 DEF Suspended, Tcb
  <2>2. CurrentAfterWait \in Tcb
    BY <1>1, SuspendedType DEF CurrentAfterWait
  <2>3. CurrentAfterWait.elevated = tcb[cur].elevated
    BY <2>1 DEF CurrentAfterWait
  <2> DEFINE after == IF Accounted(CurrentAfterWait)
                      THEN [CurrentAfterWait EXCEPT !.cpuRemaining = Left(CurrentAfterWait)]
                      ELSE CurrentAfterWait
  <2>4. after.elevated = tcb[cur].elevated
    BY <2>2, <2>3 DEF Tcb
  <2>5. tcb' = [tcb EXCEPT ![cur] = after]
    BY <1>2 DEF SchedEnter
  <2> HIDE DEF after
  <2> QED BY <1>1, <2>4, <2>5 DEF RaisesNone
<1>3. CASE SchedTask
  <2> DEFINE aged == Aged(sched)
             after == IF aged.state = "SUSPENDED" /\ aged.nextWakeup = 0
                      THEN Awoken(sched, aged) ELSE aged
  <2>1. sched \in Task /\ tcb' = [tcb EXCEPT ![sched] = after]
    BY <1>3 DEF SchedTask
  <2>2. aged \in Tcb /\ aged.elevated = tcb[sched].elevated
    BY <1>1, <2>1, AgedType DEF Aged, Tcb
  <2> HIDE DEF aged
  <2>3. Awoken(sched, aged).elevated = aged.elevated
    BY <2>2 DEF Awoken, Tcb
  <2>4. after.elevated = tcb[sched].elevated
    BY <2>2, <2>3
  <2> HIDE DEF after
  <2> QED BY <1>1, <2>1, <2>4 DEF RaisesNone
<1> QED BY <1>2, <1>3

LEMMA QueueUnordered ==
    ASSUME Inv PROVE queue \in Seq(Task) /\ Len(queue) <= PoolSize /\ queue # <<>>
BY DEF Inv, TypeOK, QueueTypeOK, IdleLast, IdleAtEnd

LEMMA ReadySorted ==
    ASSUME Inv, Unelevated, Sorted(queue), NEW t \in Task
    PROVE  Sorted(AddReady(queue, t, tcb))
<1>1. \A u \in Task : ~Elevated(tcb)[u]
  BY DEF Unelevated, Elevated
<1> QED BY <1>1, QueueUnordered, AddSorted DEF AddReady

\* While tasks run, the queue only loses its current task.
LEMMA TaskStepQueue ==
    ASSUME NEW t \in Task, TaskStep(t)
    PROVE  /\ queue' = queue \/ queue' = Remove(queue, t)
           /\ cur' = cur /\ sched' = Off /\ sched = Off
BY DEF TaskStep, WaitUntilNextPeriod, WaitUntilNextNPeriods, WaitTicks, Wait,
   WaitUntilTicks, SetNextWakeup, TerminateDequeue, TerminateFinish, TerminateWait,
   SignalRegister, SignalUnregister, SignalDelete, EventSignal, SignalCreate, EventWait,
   EventWaitBlock, EventWaitReturn, SemPend, SemPost, SemPendBlock, SemPendTake,
   SemPostWake, WaitForScheduler, Call, At, Running, tcbVars, schedVars

LEMMA NextOrder == NoSemCalls /\ Inv /\ OrderInv /\ [Next]_vars => OrderInv'
<1> SUFFICES ASSUME NoSemCalls, Inv, OrderInv, [Next]_vars PROVE OrderInv'
  OBVIOUS
<1>1. /\ OutOfSem /\ Unelevated /\ Sorted(queue) /\ HighestRuns
      /\ queue \in Seq(Task) /\ queue # <<>>
  BY QueueUnordered DEF OrderInv
<1>2. CASE ActivateTask
  <2>1. RaisesNone /\ OutOfSem'
    <3>1. tcb \in [Task -> Tcb]
      BY DEF Inv, TypeOK, TcbTypeOK
    <3> QED BY <1>1, <1>2, <3>1 DEF ActivateTask, RaisesNone, OutOfSem, callVars, Tcb
  <2>2. Sorted(queue')
    BY <1>1, <1>2, ReadySorted DEF ActivateTask
  <2>3. HighestRuns'
    BY <1>2 DEF ActivateTask, HighestRuns, Booting, Off
  <2> QED BY <1>1, <2>1, <2>2, <2>3 DEF OrderInv, RaisesNone, Unelevated, Sorted
<1>3. CASE Start \/ SchedPick
  <2>1. cur' = queue[1] /\ UNCHANGED <<tcb, queue, pc>>
    BY <1>3 DEF Start, SchedPick, tcbVars, callVars
  <2>2. HighestRuns'
    BY <1>1, <2>1, HeadIsHighest DEF HighestRuns
  <2> QED BY <1>1, <2>1, <2>2 DEF OrderInv, OutOfSem, Unelevated, Sorted
<1>4. CASE SchedEnter \/ SchedTask
  <2>1. RaisesNone /\ OutOfSem'
    BY <1>1, <1>4, SchedulerRaisesNone DEF SchedEnter, SchedTask, OutOfSem, callVars
  <2>2. \/ queue' = queue \/ queue' = Remove(queue, cur)
        \/ sched \in Task /\ queue' = AddReady(queue, sched, tcb)
    BY <1>4 DEF SchedEnter, SchedTask
  <2>3. Sorted(queue')
    BY <1>1, <2>2, ReadySorted, RemoveSorted
  <2>4. HighestRuns'
    BY <1>4, TaskRange DEF SchedEnter, SchedTask, HighestRuns, Off
  <2> QED BY <1>1, <2>1, <2>3, <2>4 DEF OrderInv, RaisesNone, Unelevated, Sorted
<1>5. CASE Boot
  <2>1. Sorted(queue')
    BY <1>5 DEF Boot, Sorted
  <2>2. OutOfSem' /\ Unelevated'
    BY <1>5 DEF Boot, BootTcb, OutOfSem, Unelevated
  <2>3. HighestRuns'
    BY <1>5 DEF Boot, HighestRuns, Booting, Off
  <2> QED BY <2>1, <2>2, <2>3 DEF OrderInv, Sorted
<1>6. CASE \E t \in Task : TaskStep(t)
  <2>1. PICK t \in Task : TaskStep(t)
    BY <1>6
  <2>2. RaisesNone /\ OutOfSem'
    BY <1>1, <2>1, TaskStepRaisesNone
  <2>3. /\ queue' = queue \/ queue' = Remove(queue, t)
        /\ cur' = cur /\ sched' = Off /\ sched = Off
    BY <2>1, TaskStepQueue
  <2>4. Sorted(queue') /\ Queued(queue') \subseteq Queued(queue)
    BY <1>1, <2>3, RemoveSorted, RemoveQueued
  <2>5. HighestRuns'
    BY <1>1, <2>3, <2>4 DEF HighestRuns
  <2> QED BY <1>1, <2>2, <2>4, <2>5 DEF OrderInv, RaisesNone, Unelevated, Sorted
<1>7. CASE \E s \in IsrSignals : IsrSignal(s)
  <2>1. RaisesNone
    BY <1>7, SignalRaisesNone, KernelAssumption DEF IsrSignal
  <2>2. UNCHANGED <<queue, cur, sched, pc>>
    BY <1>7 DEF IsrSignal, schedVars, callVars
  <2> QED BY <1>1, <2>1, <2>2 DEF OrderInv, RaisesNone, Unelevated, OutOfSem, Sorted, HighestRuns
<1>8. CASE Tick \/ UNCHANGED vars
  BY <1>1, <1>8 DEF Tick, vars, tcbVars, schedVars, callVars, OrderInv, OutOfSem, Unelevated,
     Sorted, HighestRuns
<1> QED BY <1>2, <1>3, <1>4, <1>5, <1>6, <1>7, <1>8
    DEF Next, Startup, Scheduler, ReserveViolated, WatchdogReset

LEMMA InitOrder == Init => OrderInv
BY DEF Init, BootTcb, OrderInv, OutOfSem, Unelevated, Sorted, HighestRuns, Booting, Off

\* While tasks run, no queued task has a higher priority than the one that
\* runs, also when a signal has queued a task twice, for any tasks that use no
\* semaphore (nrk_scheduler.c:268-270, nrk_task.c:79-94).
THEOREM HighestAlwaysRuns ==
    ASSUME NoSemCalls
    PROVE  Spec => []HighestRuns
<1>1. OrderInv => HighestRuns
  BY DEF OrderInv
<1>2. Inv /\ OrderInv /\ [Next]_vars => OrderInv'
  BY NextOrder
<1> QED BY <1>1, <1>2, InitInv, NextInv, InitOrder, PTL DEF Spec

\* A step that puts a task into the queue puts it behind those of its own
\* priority.
LEMMA AddTakesTurn ==
    ASSUME NEW q \in Seq(Task), Len(q) <= PoolSize, NEW t \in Task, NEW elev, NEW ceil,
           Sorted(q), \A u \in Task : ~elev[u],
           NEW v \in Queued(Add(q, t, elev, ceil)) \ Queued(q),
           NEW u \in Queued(q), Prio[v] = Prio[u]
    PROVE  FirstPosition(Add(q, t, elev, ceil), u) < FirstPosition(Add(q, t, elev, ceil), v)
<1> DEFINE r == Add(q, t, elev, ceil)
<1>1. v = t
  BY AddQueued
<1>2. PICK p \in 1..Len(q) + 1 :
           /\ PutAt(r, q, p, t)
           /\ \A i \in 1..p - 1 : ~GoesBefore(t, q[i], elev, ceil)
           /\ p <= Len(q) => GoesBefore(t, q[p], elev, ceil)
  BY AddShape
<1> HIDE DEF r
<1>3. /\ Len(q) \in Nat /\ r \in Seq(Task) /\ Len(r) = Len(q) + 1
      /\ \A i \in 1..Len(q) : q[i] \in Task
  BY <1>2 DEF PutAt
<1>4. \A x \in Task : Prio[x] \in Nat
  BY QueueAssumption
<1>5. PICK k \in 1..Len(q) : q[k] = u
  BY DEF Queued
<1>6. k < p
  <2> SUFFICES ASSUME k >= p PROVE FALSE
    BY <1>2, <1>3
  <2>1. p \in 1..Len(q) /\ Prio[q[p]] < Prio[t]
    BY <1>2, <1>3, UnelevatedOrder
  <2>2. k = p \/ Prio[q[k]] <= Prio[q[p]]
    BY <2>1 DEF Sorted
  <2> QED BY <1>1, <1>3, <1>4, <1>5, <2>1, <2>2
<1>7. r[k] = u /\ k \in 1..Len(r)
  BY <1>2, <1>3, <1>5, <1>6 DEF PutAt
<1>8. FirstPosition(r, u) \in 1..k
  BY <1>3, <1>7, FirstPositionLeast
<1>9. r[p] = t /\ p \in 1..Len(r)
  BY <1>2, <1>3 DEF PutAt
<1>10. FirstPosition(r, t) \in 1..Len(r) /\ r[FirstPosition(r, t)] = t
  BY <1>3, <1>9, FirstPositionSpec
<1>11. FirstPosition(r, t) >= p
  <2> DEFINE f == FirstPosition(r, t)
  <2> HIDE DEF f
  <2> SUFFICES ASSUME f < p, f \in 1..Len(r), r[f] = t PROVE FALSE
    BY <1>2, <1>10 DEF f
  <2>1. f \in 1..Len(q) /\ r[f] = q[f]
    BY <1>2, <1>3 DEF PutAt
  <2> QED BY <1>1, <2>1 DEF Queued
<1> QED BY <1>1, <1>6, <1>8, <1>10, <1>11 DEF r

\* Tasks of one priority take turns, for any tasks that use no semaphore: one
\* that arrives goes behind its equals (nrk_task.c:79-94).
THEOREM EqualsAlwaysTakeTurns ==
    ASSUME NoSemCalls
    PROVE  Spec => EqualsTakeTurns
<1>1. ASSUME Inv, OrderInv, [Next]_vars,
             NEW t \in Queued(queue') \ Queued(queue), NEW u \in Queued(queue),
             Prio[t] = Prio[u]
      PROVE  FirstPosition(queue', u) < FirstPosition(queue', t)
  <2>1. /\ queue \in Seq(Task) /\ Len(queue) <= PoolSize /\ queue[Len(queue)] = Idle
        /\ Len(queue) \in Nat \ {0} /\ Unelevated /\ Sorted(queue)
    BY <1>1, QueueUnordered DEF Inv, IdleLast, IdleAtEnd, OrderInv
  <2>2. CASE queue' = queue \/ \E v \in Task : queue' = Remove(queue, v)
    BY <1>1, <2>1, <2>2, RemoveQueued
  <2>3. CASE queue' = <<Idle>>
    <3>1. t = Idle
      BY <1>1, <2>3 DEF Queued
    <3>2. Idle \in Queued(queue)
      BY <2>1 DEF Queued
    <3> QED BY <1>1, <3>1, <3>2
  <2>4. ASSUME NEW v \in Task, queue' = AddReady(queue, v, tcb)
        PROVE  FirstPosition(queue', u) < FirstPosition(queue', t)
    <3>1. \A x \in Task : ~Elevated(tcb)[x]
      BY <2>1 DEF Unelevated, Elevated
    <3> QED BY <1>1, <2>1, <2>4, <3>1, AddTakesTurn DEF AddReady
  <2>5. CASE Startup \/ Tick \/ Scheduler \/ WatchdogReset
    <3>1. \/ queue' = queue \/ queue' = Remove(queue, cur) \/ queue' = <<Idle>>
          \/ \E v \in Task : queue' = AddReady(queue, v, tcb)
      BY <2>5 DEF Startup, ActivateTask, Start, Tick, Scheduler, SchedEnter, SchedTask,
         SchedPick, ReserveViolated, WatchdogReset, Boot, tcbVars
    <3>2. cur \in Task
      BY <1>1 DEF Inv, TypeOK, SchedTypeOK
    <3> QED BY <2>2, <2>3, <2>4, <3>1, <3>2
  <2>6. CASE \E v \in Task : TaskStep(v)
    BY <2>2, <2>6, TaskStepQueue
  <2>7. CASE (\E s \in IsrSignals : IsrSignal(s)) \/ UNCHANGED vars
    BY <2>2, <2>7 DEF IsrSignal, vars, tcbVars
  <2> QED BY <1>1, <2>5, <2>6, <2>7 DEF Next
<1>2. Inv /\ OrderInv /\ [Next]_vars =>
        [\A t \in Queued(queue') \ Queued(queue), u \in Queued(queue) :
            Prio[t] = Prio[u] => FirstPosition(queue', u) < FirstPosition(queue', t)]_vars
  BY <1>1
<1>3. Inv /\ OrderInv /\ [Next]_vars => OrderInv'
  BY NextOrder
<1> QED BY <1>2, <1>3, InitInv, NextInv, InitOrder, PTL DEF Spec, EqualsTakeTurns

-----------------------------------------------------------------------------
(* Tasks no signal and no semaphore reaches.                               *)

Plain(t) == Calls[t] \cap {"signal_register", "event_wait", "sem"} = {}

\* It waits for nothing a signal or a post could end, is queued at most once
\* and only while it is READY, and asks to wait before it leaves the CPU.
Unreached(t) == tcb[t].event = None /\ tcb[t].registered = {}
                    /\ pc[t] \in {"run", "dequeued", "finished"}
QueuedReady(t) == /\ Once(queue, t)
                  /\ t \in Queued(queue) => tcb[t].state = "READY" /\ pc[t] = "run"
Leaving(t) == /\ pc[t] \in {"dequeued", "finished"} =>
                     ~tcb[t].suspend /\ tcb[t].state \in {"READY", "FINISHED"}
              /\ sched = Off /\ cur = t /\ ~tcb[t].suspend =>
                     tcb[t].state \in {"READY", "FINISHED"}
NotYet(t) == sched = Booting => pc[t] = "run" /\ (t >= activated => t \notin Queued(queue))

PlainInv(t) == Unreached(t) /\ QueuedReady(t) /\ Leaving(t) /\ NotYet(t)

\* A step of another task does none of this to it.
Untouched(t) == /\ tcb'[t].event = tcb[t].event /\ tcb'[t].registered = tcb[t].registered
                /\ tcb'[t].state = tcb[t].state /\ tcb'[t].suspend = tcb[t].suspend
                /\ pc'[t] = pc[t]

LEMMA SignalUntouched ==
    ASSUME Inv, NEW t \in Task, Unreached(t), NEW s \in Signal, tcb' = Signalled(s)
    PROVE  tcb'[t] = tcb[t]
<1>1. tcb[t].event # SigEvent /\ tcb[t].event # RsrcEvent
  BY DEF Unreached, None, SigEvent, RsrcEvent
<1>2. Signalled(s)[t] = tcb[t]
  BY <1>1 DEF Signalled
<1> QED BY <1>2

LEMMA OthersUntouched ==
    ASSUME Inv, NEW t \in Task, Unreached(t), NEW u \in Task \ {t}, TaskStep(u)
    PROVE  Untouched(t)
<1>1. pc \in [Task -> Point] /\ tcb \in [Task -> Tcb]
  BY DEF Inv, TypeOK, CallTypeOK, TcbTypeOK
<1>2. pc'[t] = pc[t]
  BY <1>1 DEF TaskStep, WaitUntilNextPeriod, WaitUntilNextNPeriods, WaitTicks, Wait,
     WaitUntilTicks, SetNextWakeup, TerminateDequeue, TerminateFinish, TerminateWait,
     SignalRegister, SignalUnregister, SignalDelete, EventSignal, SignalCreate, EventWait,
     EventWaitBlock, EventWaitReturn, SemPend, SemPost, SemPendBlock, SemPendTake,
     SemPostWake, callVars
<1>3. CASE \E s \in Signal : SignalDelete(u, s)
  <2>1. PICK s \in Signal : SignalDelete(u, s)
    BY <1>3
  <2>2. tcb[t].registered # {s} /\ tcb[t].registered \ {s} = {}
    BY DEF Unreached
  <2>3. tcb'[t] = [tcb[t] EXCEPT !.active = @ \ {s}, !.event = @, !.state = @,
                                 !.registered = @ \ {s}]
    BY <2>1, <2>2 DEF SignalDelete
  <2> QED BY <1>1, <1>2, <2>2, <2>3 DEF Untouched, Unreached, Tcb
<1>4. CASE \E s \in Signal : EventSignal(u, s)
  BY <1>2, <1>4, SignalUntouched DEF EventSignal, Untouched
<1>5. CASE SemPostWake(u)
  <2> DEFINE low == [tcb[t] EXCEPT !.elevated = IF t = u THEN FALSE ELSE @]
  <2>1. low.event = tcb[t].event /\ low.registered = tcb[t].registered
        /\ low.state = tcb[t].state /\ low.suspend = tcb[t].suspend
    BY <1>1 DEF Tcb
  <2>2. tcb'[t] = WokenByPost(low, want[u])
    BY <1>5 DEF SemPostWake
  <2> HIDE DEF low
  <2>3. tcb'[t] = low
    BY <2>1, <2>2 DEF WokenByPost, Unreached, None, RsrcEvent
  <2> QED BY <1>2, <2>1, <2>3 DEF Untouched
<1>6. CASE \/ WaitUntilNextPeriod(u)
           \/ \E p \in Periods : WaitUntilNextNPeriods(u, p)
           \/ \E n \in Delay : \/ WaitTicks(u, n)
                               \/ Wait(u, n)
                               \/ WaitUntilTicks(u, n)
                               \/ SetNextWakeup(u, n)
           \/ TerminateDequeue(u) \/ TerminateFinish(u) \/ TerminateWait(u)
           \/ \E s \in Signal : SignalRegister(u, s) \/ SignalUnregister(u, s)
           \/ SignalCreate(u)
           \/ \E mask \in WaitMask[u] : EventWait(u, mask)
           \/ EventWaitBlock(u) \/ EventWaitReturn(u)
           \/ \E r \in Sem : SemPend(u, r) \/ SemPost(u, r)
           \/ SemPendBlock(u) \/ SemPendTake(u)
  <2>1. tcb'[t] = tcb[t]
    BY <1>1, <1>6 DEF WaitUntilNextPeriod, WaitUntilNextNPeriods, WaitTicks, Wait,
       WaitUntilTicks, SetNextWakeup, TerminateDequeue, TerminateFinish, TerminateWait,
       SignalRegister, SignalUnregister, SignalCreate, EventWait, EventWaitBlock,
       EventWaitReturn, SemPend, SemPost, SemPendBlock, SemPendTake, Acquire, tcbVars
  <2> QED BY <1>2, <2>1 DEF Untouched
<1> QED BY <1>3, <1>4, <1>5, <1>6 DEF TaskStep

LEMMA UntouchedPlain ==
    ASSUME NEW t \in Task, PlainInv(t), Untouched(t), UNCHANGED <<cur, sched, activated>>,
           Once(queue', t), Queued(queue') \subseteq Queued(queue)
    PROVE  PlainInv(t)'
BY DEF PlainInv, Untouched, Unreached, QueuedReady, Leaving, NotYet, Once, Occurrences, Queued

LEMMA OwnPlain ==
    ASSUME Inv, NEW t \in Task, Plain(t), PlainInv(t), TaskStep(t) PROVE PlainInv(t)'
<1>1. /\ pc \in [Task -> Point] /\ tcb \in [Task -> Tcb]
      /\ queue \in Seq(Task)
  BY QueueUnordered DEF Inv, TypeOK, CallTypeOK, TcbTypeOK
<1>2. UNCHANGED schedVars /\ sched = Off
  BY TaskStepOff
<1>3. /\ Unreached(t) /\ Once(queue, t) /\ cur = t /\ ~tcb[t].suspend
      /\ tcb[t].state \in {"READY", "FINISHED"}
  <2>1. Running(t)
    BY DEF TaskStep, WaitUntilNextPeriod, WaitUntilNextNPeriods, WaitTicks, Wait,
       WaitUntilTicks, SetNextWakeup, TerminateDequeue, TerminateFinish, TerminateWait,
       SignalRegister, SignalUnregister, SignalDelete, EventSignal, SignalCreate, EventWait,
       EventWaitBlock, EventWaitReturn, SemPend, SemPost, SemPendBlock, SemPendTake,
       SemPostWake, Call, At
  <2> QED BY <2>1 DEF Running, PlainInv, QueuedReady, Leaving
<1>4. CASE \/ WaitUntilNextPeriod(t)
           \/ \E p \in Periods : WaitUntilNextNPeriods(t, p)
           \/ \E n \in Delay : \/ WaitTicks(t, n)
                               \/ Wait(t, n)
                               \/ WaitUntilTicks(t, n)
  <2>1. /\ tcb'[t].event = tcb[t].event /\ tcb'[t].registered = tcb[t].registered
        /\ tcb'[t].state = tcb[t].state /\ tcb'[t].suspend = TRUE
    BY <1>1, <1>4 DEF WaitUntilNextPeriod, WaitUntilNextNPeriods, WaitTicks, Wait,
       WaitUntilTicks, Tcb
  <2>2. pc' = pc /\ pc[t] = "run" /\ queue' = queue
    BY <1>4 DEF WaitUntilNextPeriod, WaitUntilNextNPeriods, WaitTicks, Wait, WaitUntilTicks,
       Call, At, callVars
  <2> QED BY <1>2, <1>3, <2>1, <2>2, TaskRange DEF PlainInv, Unreached, QueuedReady, Leaving,
      NotYet, Once, Occurrences, Queued, schedVars, Off, Booting
<1>5. CASE \/ \E n \in Delay : SetNextWakeup(t, n)
           \/ SignalCreate(t)
           \/ \E s \in Signal : SignalUnregister(t, s) \/ EventSignal(t, s) \/ SignalDelete(t, s)
  <2>1. queue' = queue /\ pc' = pc
    BY <1>5 DEF SetNextWakeup, SignalCreate, SignalUnregister, EventSignal, SignalDelete,
       tcbVars, callVars
  <2>2. Untouched(t)
    <3>1. CASE (\E n \in Delay : SetNextWakeup(t, n)) \/ SignalCreate(t)
      BY <1>1, <2>1, <3>1 DEF SetNextWakeup, SignalCreate, Untouched, Tcb, tcbVars
    <3>2. CASE \E s \in Signal : SignalUnregister(t, s)
      BY <1>3, <3>2 DEF SignalUnregister, Unreached
    <3>3. CASE \E s \in Signal : EventSignal(t, s)
      BY <1>3, <2>1, <3>3, SignalUntouched DEF EventSignal, Untouched
    <3>4. CASE \E s \in Signal : SignalDelete(t, s)
      <4>1. PICK s \in Signal : SignalDelete(t, s)
        BY <3>4
      <4>2. tcb[t].registered # {s} /\ tcb[t].registered \ {s} = {}
        BY <1>3 DEF Unreached
      <4>3. tcb'[t] = [tcb[t] EXCEPT !.active = @ \ {s}, !.event = @, !.state = @,
                                     !.registered = @ \ {s}]
        BY <4>1, <4>2 DEF SignalDelete
      <4> QED BY <1>1, <1>3, <2>1, <4>2, <4>3 DEF Untouched, Unreached, Tcb
    <3> QED BY <1>5, <3>1, <3>2, <3>3, <3>4
  <2> QED BY <1>2, <1>3, <2>1, <2>2, UntouchedPlain DEF schedVars
<1>6. CASE TerminateDequeue(t)
  <2>1. /\ tcb' = tcb /\ queue' = Remove(queue, t) /\ pc' = [pc EXCEPT ![t] = "dequeued"]
    BY <1>6 DEF TerminateDequeue
  <2>2. Once(queue', t) /\ t \notin Queued(queue')
    BY <1>1, <1>3, <2>1, RemoveOnce, RemoveQueued
  <2> QED BY <1>1, <1>2, <1>3, <2>1, <2>2, TaskRange DEF PlainInv, Unreached, QueuedReady,
      Leaving, NotYet, Once, Occurrences, Queued, schedVars, Off, Booting
<1>7. CASE TerminateFinish(t) \/ TerminateWait(t)
  <2>1. /\ queue' = queue
        /\ pc[t] \in {"dequeued", "finished"} /\ pc'[t] \in {"run", "finished"}
        /\ pc'[t] = "run" => tcb'[t].suspend = TRUE
    BY <1>1, <1>7 DEF TerminateFinish, TerminateWait, At, Tcb
  <2>2. /\ tcb'[t].event = tcb[t].event /\ tcb'[t].registered = tcb[t].registered
        /\ tcb'[t].state \in {"READY", "FINISHED"}
        /\ pc'[t] = "finished" => ~tcb'[t].suspend
    BY <1>1, <1>3, <1>7 DEF TerminateFinish, TerminateWait, Tcb
  <2>3. t \notin Queued(queue)
    BY <2>1 DEF PlainInv, QueuedReady
  <2> QED BY <1>2, <1>3, <2>1, <2>2, <2>3, TaskRange DEF PlainInv, Unreached, QueuedReady,
      Leaving, NotYet, Once, Occurrences, Queued, schedVars, Off, Booting
<1>8. CASE \/ \E s \in Signal : SignalRegister(t, s)
           \/ \E mask \in WaitMask[t] : EventWait(t, mask)
           \/ EventWaitBlock(t) \/ EventWaitReturn(t)
           \/ \E r \in Sem : SemPend(t, r) \/ SemPost(t, r)
           \/ SemPendBlock(t) \/ SemPendTake(t) \/ SemPostWake(t)
  BY <1>3, <1>8 DEF SignalRegister, EventWait, EventWaitBlock, EventWaitReturn, SemPend,
     SemPost, SemPendBlock, SemPendTake, SemPostWake, Call, At, Plain, Unreached
<1> QED BY <1>4, <1>5, <1>6, <1>7, <1>8 DEF TaskStep

LEMMA SchedEnterPlain ==
    ASSUME Inv, NEW t \in Task, PlainInv(t), SchedEnter
    PROVE  /\ PlainInv(t)'
           /\ tcb'[t].state = "READY" =>
                  tcb[t].state = "READY" /\ (t \in Queued(queue) => t \in Queued(queue'))
<1>1. /\ tcb \in [Task -> Tcb] /\ queue \in Seq(Task) /\ cur \in Task
      /\ sched' = 0 /\ pc' = pc /\ cur' = cur
  BY QueueUnordered DEF Inv, TypeOK, TcbTypeOK, SchedTypeOK, SchedEnter, callVars
<1>2. Once(queue', t) /\ Queued(queue') \subseteq Queued(queue)
  BY <1>1, RemoveOnce, RemoveQueued DEF SchedEnter, PlainInv, QueuedReady
<1> DEFINE after == IF Accounted(CurrentAfterWait)
                    THEN [CurrentAfterWait EXCEPT !.cpuRemaining = Left(CurrentAfterWait)]
                    ELSE CurrentAfterWait
<1>3. tcb' = [tcb EXCEPT ![cur] = after]
  BY DEF SchedEnter
<1>4. CASE t # cur \/ ~Blocking(tcb[cur])
  <2>1. Untouched(t)
    <3>1. CASE t # cur
      BY <1>1, <1>3, <3>1 DEF Untouched
    <3>2. CASE t = cur /\ ~Blocking(tcb[cur])
      <4>1. /\ after.event = tcb[t].event /\ after.registered = tcb[t].registered
            /\ after.state = tcb[t].state /\ after.suspend = tcb[t].suspend
        BY <1>1, <3>2 DEF CurrentAfterWait, Tcb
      <4> HIDE DEF after
      <4> QED BY <1>1, <1>3, <3>2, <4>1 DEF Untouched
    <3> QED BY <1>4, <3>1, <3>2
  <2>2. PlainInv(t)'
    <3>1. Unreached(t)' /\ QueuedReady(t)'
      BY <1>2, <2>1 DEF PlainInv, Untouched, Unreached, QueuedReady, Once, Occurrences, Queued
    <3>2. Leaving(t)' /\ NotYet(t)'
      BY <1>1, <2>1 DEF PlainInv, Untouched, Leaving, NotYet, Off, Booting
    <3> QED BY <3>1, <3>2 DEF PlainInv
  <2>3. t \in Queued(queue) => t \in Queued(queue')
    BY <1>1, <1>4, RemoveQueued DEF SchedEnter
  <2> QED BY <2>1, <2>2, <2>3 DEF Untouched
<1>5. CASE t = cur /\ Blocking(tcb[cur])
  <2>1. /\ tcb[t].event = None /\ pc[t] = "run"
    BY <1>5 DEF PlainInv, Unreached, Leaving, Blocking
  <2>2. /\ Suspended(tcb[t]) \in Tcb /\ Suspended(tcb[t]).state = "SUSPENDED"
        /\ Suspended(tcb[t]).event = None
        /\ Suspended(tcb[t]).registered = tcb[t].registered
    <3> DEFINE w == IF tcb[t].nextWakeup = 0 THEN tcb[t].nextPeriod ELSE tcb[t].nextWakeup
    <3>1. Suspended(tcb[t]) =
            [tcb[t] EXCEPT !.state = "SUSPENDED", !.nw = FALSE, !.nextWakeup = w]
      BY <1>1, <2>1 DEF Suspended, None, RsrcEvent, Tcb
    <3> HIDE DEF w
    <3>2. tcb[t] \in Tcb
      BY <1>1
    <3> QED BY <2>1, <3>1, <3>2, SuspendedType DEF Tcb
  <2>3. CurrentAfterWait = Suspended(tcb[t])
    BY <1>5 DEF CurrentAfterWait
  <2>4. /\ after.state = "SUSPENDED" /\ after.event = None
        /\ after.registered = tcb[t].registered
    BY <2>2, <2>3 DEF Tcb
  <2> HIDE DEF after
  <2>5. tcb'[t] = after
    BY <1>1, <1>3, <1>5
  <2>6. t \notin Queued(queue')
    BY <1>1, <1>5, RemoveQueued DEF SchedEnter, PlainInv, QueuedReady
  <2> QED BY <1>1, <1>2, <2>1, <2>4, <2>5, <2>6, TaskRange DEF PlainInv, Unreached,
      QueuedReady, Leaving, NotYet, Once, Occurrences, Queued, Off, Booting
<1> QED BY <1>4, <1>5

\* The loop makes a task READY exactly when it adds it to the queue, and only
\* a task that sleeps.
LEMMA LoopWakes ==
    ASSUME Inv, SchedTask
    PROVE  /\ sched \in Task /\ \A u \in Task \ {sched} : tcb'[u] = tcb[u]
           /\ tcb'[sched].registered = tcb[sched].registered
           /\ ~tcb'[sched].suspend
           /\ tcb[sched].event = None => tcb'[sched].event = None
           /\ \/ queue' = queue /\ tcb'[sched].state = tcb[sched].state
              \/ /\ queue' = AddReady(queue, sched, tcb)
                 /\ tcb[sched].state = "SUSPENDED" /\ tcb'[sched].state = "READY"
<1> DEFINE aged == Aged(sched)
           due == aged.state = "SUSPENDED" /\ aged.nextWakeup = 0
           after == IF due THEN Awoken(sched, aged) ELSE aged
<1>1. /\ sched \in Task /\ tcb' = [tcb EXCEPT ![sched] = after] /\ tcb \in [Task -> Tcb]
      /\ queue' = IF due /\ aged.numPeriods = 1 THEN AddReady(queue, sched, tcb) ELSE queue
  BY DEF SchedTask, Inv, TypeOK, TcbTypeOK
<1>2. /\ aged \in Tcb /\ ~aged.suspend /\ aged.state = tcb[sched].state
      /\ aged.event = tcb[sched].event /\ aged.registered = tcb[sched].registered
  BY <1>1, AgedType DEF Aged, Tcb
<1> HIDE DEF aged
<1>3. /\ Awoken(sched, aged).event = None /\ ~Awoken(sched, aged).suspend
      /\ Awoken(sched, aged).registered = aged.registered
      /\ Awoken(sched, aged).state = IF aged.numPeriods = 1 THEN "READY" ELSE aged.state
  BY <1>2 DEF Awoken, Tcb
<1>4. /\ ~after.suspend /\ after.registered = tcb[sched].registered
      /\ tcb[sched].event = None => after.event = None
      /\ after.state = IF due /\ aged.numPeriods = 1 THEN "READY" ELSE tcb[sched].state
      /\ due => tcb[sched].state = "SUSPENDED"
  BY <1>2, <1>3
<1> HIDE DEF after, due
<1> QED BY <1>1, <1>4

LEMMA AddedPlain ==
    ASSUME Inv, NEW t \in Task, NEW u \in Task, Once(queue, t),
           u = t => t \notin Queued(queue), queue' = AddReady(queue, u, tcb)
    PROVE  Once(queue', t) /\ Queued(queue') \subseteq Queued(queue) \cup {u}
BY QueueUnordered, AddOnce, AddQueued DEF AddReady

LEMMA SchedTaskPlain ==
    ASSUME Inv, NEW t \in Task, PlainInv(t), SchedTask PROVE PlainInv(t)'
<1>1. /\ sched' = sched + 1 /\ sched \in Nat /\ cur' = cur /\ pc' = pc
      /\ Once(queue, t) /\ tcb[t].event = None
  BY TaskRange DEF SchedTask, callVars, PlainInv, QueuedReady, Unreached
<1>2. sched' # Off /\ sched' # Booting
  BY <1>1 DEF Off, Booting
<1>3. NotYet(t)'
  BY <1>2 DEF NotYet
<1>4. CASE t # sched
  <2>1. tcb'[t] = tcb[t]
    BY <1>4, LoopWakes
  <2>2. Once(queue', t) /\ (t \in Queued(queue') => t \in Queued(queue))
    BY <1>1, <1>4, LoopWakes, AddedPlain
  <2> QED BY <1>1, <1>2, <1>3, <2>1, <2>2 DEF PlainInv, Unreached, QueuedReady, Leaving,
      Once, Occurrences, Queued
<1>5. CASE t = sched
  <2>1. /\ tcb'[t].registered = tcb[t].registered /\ ~tcb'[t].suspend /\ tcb'[t].event = None
    BY <1>1, <1>5, LoopWakes
  <2>2. Unreached(t)'
    BY <1>1, <2>1 DEF PlainInv, Unreached
  <2>3. CASE queue' = queue /\ tcb'[t].state = tcb[t].state
    BY <1>1, <1>2, <1>3, <2>1, <2>2, <2>3 DEF PlainInv, QueuedReady, Leaving, Once,
       Occurrences, Queued
  <2>4. CASE /\ queue' = AddReady(queue, t, tcb)
             /\ tcb[t].state = "SUSPENDED" /\ tcb'[t].state = "READY"
    <3>1. t \notin Queued(queue) /\ pc[t] = "run"
      BY <2>4 DEF PlainInv, Unreached, QueuedReady, Leaving
    <3>2. Once(queue', t)
      BY <1>1, <2>4, <3>1, AddedPlain
    <3>3. QueuedReady(t)'
      BY <1>1, <2>4, <3>1, <3>2 DEF QueuedReady, Once, Occurrences
    <3> QED BY <1>1, <1>2, <1>3, <2>2, <3>1, <3>3 DEF PlainInv, Leaving
  <2> QED BY <1>5, <2>3, <2>4, LoopWakes
<1> QED BY <1>4, <1>5

\* A task is activated once, before it is queued.
LEMMA ActivatePlain ==
    ASSUME Inv, NEW t \in Task, PlainInv(t), ActivateTask PROVE PlainInv(t)'
<1>1. /\ sched = Booting /\ sched' = Booting /\ activated \in Task
      /\ activated' = activated + 1 /\ pc' = pc
      /\ Once(queue, t) /\ pc[t] = "run" /\ t \in Nat /\ activated \in Nat
      /\ tcb \in [Task -> Tcb]
  BY TaskRange DEF ActivateTask, callVars, PlainInv, QueuedReady, NotYet, Inv, TypeOK,
     TcbTypeOK
<1>2. \/ tcb' = tcb /\ queue' = queue
      \/ /\ tcb' = [tcb EXCEPT ![activated].state = "READY"]
         /\ queue' = AddReady(queue, activated, tcb)
  BY DEF ActivateTask
<1>3. activated = t => t \notin Queued(queue)
  BY <1>1 DEF PlainInv, NotYet
<1>4. Once(queue', t) /\ Queued(queue') \subseteq Queued(queue) \cup {activated}
  BY <1>1, <1>2, <1>3, AddedPlain
<1>5. /\ tcb'[t].event = tcb[t].event /\ tcb'[t].registered = tcb[t].registered
      /\ tcb'[t].state = tcb[t].state \/ (t = activated /\ tcb'[t].state = "READY")
      /\ t \in Queued(queue') /\ t \notin Queued(queue) => tcb'[t].state = "READY"
  BY <1>1, <1>2, <1>4 DEF Tcb
<1>6. Unreached(t)' /\ QueuedReady(t)'
  BY <1>1, <1>4, <1>5 DEF PlainInv, Unreached, QueuedReady, Once, Occurrences
<1>7. Leaving(t)'
  BY <1>1 DEF Leaving, Booting, Off
<1>8. NotYet(t)'
  <2>1. t >= activated + 1 => t # activated /\ t >= activated
    BY <1>1
  <2>2. t >= activated + 1 => t \notin Queued(queue')
    BY <1>1, <1>4, <2>1 DEF PlainInv, NotYet
  <2> QED BY <1>1, <2>2 DEF NotYet, Queued
<1> QED BY <1>6, <1>7, <1>8 DEF PlainInv

\* Whoever gets the CPU is queued.
LEMMA PickPlain ==
    ASSUME Inv, NEW t \in Task, PlainInv(t), Start \/ SchedPick PROVE PlainInv(t)'
<1>1. /\ cur' = queue[1] /\ sched' = Off /\ UNCHANGED <<tcb, queue, pc>>
  BY DEF Start, SchedPick, tcbVars, callVars
<1>2. cur' = t => t \in Queued(queue)
  <2>1. queue \in Seq(Task) /\ Len(queue) \in Nat /\ 1 <= Len(queue)
    BY QueueUnordered
  <2>2. 1 \in 1..Len(queue)
    BY <2>1
  <2> QED BY <1>1, <2>2 DEF Queued
<1>3. Unreached(t)' /\ QueuedReady(t)'
  BY <1>1 DEF PlainInv, Unreached, QueuedReady, Once, Occurrences, Queued
<1>4. Leaving(t)' /\ NotYet(t)'
  BY <1>1, <1>2 DEF PlainInv, QueuedReady, Leaving, NotYet, Off, Booting
<1> QED BY <1>3, <1>4 DEF PlainInv

LEMMA BootPlain == ASSUME NEW t \in Task, Boot PROVE PlainInv(t)'
<1>1. Unreached(t)'
  BY DEF Boot, BootTcb, Unreached
<1>2. \A x : x \in Queued(queue') => x = Idle
  BY DEF Boot, Queued
<1>3. QueuedReady(t)'
  <2>1. Once(queue', t)
    BY DEF Boot, Once, Occurrences
  <2>2. t \in Queued(queue') => tcb'[t].state = "READY" /\ pc'[t] = "run"
    BY <1>2 DEF Boot, BootTcb
  <2> QED BY <2>1, <2>2 DEF QueuedReady, Once, Occurrences, Queued
<1>4. Leaving(t)' /\ NotYet(t)'
  <2>1. t >= 1 => t # Idle
    BY KernelAssumption
  <2> QED BY <1>2, <2>1 DEF Boot, Leaving, NotYet, Booting, Off, Queued
<1> QED BY <1>1, <1>3, <1>4 DEF PlainInv

LEMMA InitPlain == ASSUME Init, NEW t \in Task PROVE PlainInv(t)
<1>1. Unreached(t)
  BY DEF Init, BootTcb, Unreached
<1>2. \A x : x \in Queued(queue) => x = Idle
  BY DEF Init, Queued
<1>3. QueuedReady(t)
  <2>1. Once(queue, t)
    BY DEF Init, Once, Occurrences
  <2>2. t \in Queued(queue) => tcb[t].state = "READY" /\ pc[t] = "run"
    BY <1>2 DEF Init, BootTcb
  <2> QED BY <2>1, <2>2 DEF QueuedReady
<1>4. Leaving(t) /\ NotYet(t)
  <2>1. t >= 1 => t # Idle
    BY KernelAssumption
  <2> QED BY <1>2, <2>1 DEF Init, Leaving, NotYet, Booting, Off
<1> QED BY <1>1, <1>3, <1>4 DEF PlainInv

LEMMA NextPlain ==
    ASSUME Inv, [Next]_vars, NEW t \in Task, Plain(t), PlainInv(t) PROVE PlainInv(t)'
<1>1. queue \in Seq(Task) /\ Once(queue, t)
  BY QueueUnordered DEF PlainInv, QueuedReady
<1>2. CASE TaskStep(t)
  BY <1>2, OwnPlain
<1>3. CASE \E u \in Task \ {t} : TaskStep(u)
  <2>1. PICK u \in Task \ {t} : TaskStep(u)
    BY <1>3
  <2>2. Untouched(t) /\ UNCHANGED schedVars
    BY <2>1, OthersUntouched, TaskStepOff DEF PlainInv
  <2>3. Once(queue', t) /\ Queued(queue') \subseteq Queued(queue)
    BY <1>1, <2>1, TaskStepQueue, RemoveOnce, RemoveQueued
  <2> QED BY <2>2, <2>3, UntouchedPlain DEF schedVars
<1>4. CASE \E s \in IsrSignals : IsrSignal(s)
  <2>1. tcb'[t] = tcb[t]
    BY <1>4, SignalUntouched, KernelAssumption DEF IsrSignal, PlainInv
  <2> QED BY <1>1, <1>4, <2>1, UntouchedPlain DEF IsrSignal, Untouched, schedVars, callVars
<1>5. CASE Tick \/ UNCHANGED vars
  BY <1>1, <1>5, UntouchedPlain DEF Tick, vars, Untouched, tcbVars, schedVars, callVars
<1> QED BY <1>2, <1>3, <1>4, <1>5, SchedEnterPlain, SchedTaskPlain, ActivatePlain, PickPlain,
      BootPlain DEF Next, Startup, Scheduler, ReserveViolated, WatchdogReset

-----------------------------------------------------------------------------
(* A terminated task is gone.                                              *)

\* A task that terminates waits for no event: nobody else queues it again.
TerminatorsPlain == \A t \in Task : "terminate" \in Calls[t] => Plain(t)

OnlyTerminators == \A t \in Task :
                       pc[t] \in {"dequeued", "finished"} \/ tcb[t].state = "FINISHED" =>
                           "terminate" \in Calls[t]

GoneInv == OnlyTerminators /\ \A t \in Task : Plain(t) => PlainInv(t)

\* Only the call itself makes a task FINISHED.
FinishesNone == \A t \in Task : /\ tcb'[t].state = "FINISHED" => tcb[t].state = "FINISHED"
                                /\ pc'[t] \in {"dequeued", "finished"} => pc'[t] = pc[t]

LEMMA SignalFinishesNone ==
    ASSUME Inv, NEW s \in Signal, tcb' = Signalled(s), pc' = pc PROVE FinishesNone
<1>1. \A u \in Task : tcb[u] \in Tcb
  BY DEF Inv, TypeOK, TcbTypeOK
<1>2. ASSUME NEW u \in Task, NEW S
      PROVE  [tcb[u] EXCEPT !.state = "SUSPENDED", !.nextWakeup = 0,
                            !.event = None, !.active = S].state = "SUSPENDED"
  BY <1>1 DEF Tcb
<1>3. ASSUME NEW u \in Task
      PROVE  Signalled(s)[u].state = "SUSPENDED" \/ Signalled(s)[u] = tcb[u]
  BY <1>2 DEF Signalled
<1> QED BY <1>3 DEF FinishesNone

LEMMA TaskStepFinishes ==
    ASSUME Inv, OnlyTerminators, NEW t \in Task, TaskStep(t) PROVE OnlyTerminators'
<1>1. pc \in [Task -> Point] /\ tcb \in [Task -> Tcb]
  BY DEF Inv, TypeOK, CallTypeOK, TcbTypeOK
<1>2. CASE TerminateDequeue(t) \/ TerminateFinish(t) \/ TerminateWait(t)
  <2>1. "terminate" \in Calls[t]
    BY <1>2 DEF TerminateDequeue, TerminateFinish, TerminateWait, Call, At, OnlyTerminators
  <2>2. \A u \in Task \ {t} : tcb'[u] = tcb[u] /\ pc'[u] = pc[u]
    BY <1>1, <1>2 DEF TerminateDequeue, TerminateFinish, TerminateWait
  <2> QED BY <2>1, <2>2 DEF OnlyTerminators
<1>3. ASSUME FinishesNone PROVE OnlyTerminators'
  BY <1>3 DEF OnlyTerminators, FinishesNone
<1>4. CASE \E s \in Signal : SignalDelete(t, s)
  <2>1. PICK s \in Signal : SignalDelete(t, s)
    BY <1>4
  <2>2. ASSUME NEW u \in Task PROVE tcb'[u].state = "FINISHED" => tcb[u].state = "FINISHED"
    <3> DEFINE alone == tcb[u].registered = {s}
               a == IF alone THEN {} ELSE tcb[u].active \ {s}
               e == IF alone THEN None ELSE tcb[u].event
               st == IF alone THEN "SUSPENDED" ELSE tcb[u].state
               g == tcb[u].registered \ {s}
    <3>1. tcb'[u] = [tcb[u] EXCEPT !.active = a, !.event = e, !.state = st, !.registered = g]
      BY <1>1, <2>1 DEF SignalDelete, Tcb
    <3>2. st = "FINISHED" => tcb[u].state = "FINISHED"
      OBVIOUS
    <3> HIDE DEF a, e, st, g
    <3> QED BY <1>1, <3>1, <3>2 DEF Tcb
  <2> QED BY <1>3, <2>1, <2>2 DEF SignalDelete, FinishesNone, callVars
<1>5. CASE \E s \in Signal : EventSignal(t, s)
  BY <1>3, <1>5, SignalFinishesNone DEF EventSignal, callVars
<1>6. CASE SemPostWake(t)
  <2>1. ASSUME NEW u \in Task PROVE tcb'[u].state = "FINISHED" => tcb[u].state = "FINISHED"
    <3> DEFINE low == [tcb[u] EXCEPT !.elevated = IF u = t THEN FALSE ELSE @]
    <3>1. low.state = tcb[u].state /\ low \in Tcb
      <4>1. (IF u = t THEN FALSE ELSE tcb[u].elevated) \in BOOLEAN
        BY <1>1 DEF Tcb
      <4>2. low \in Tcb
        BY <1>1, <4>1, FieldUpdates
      <4>3. tcb[u] \in Tcb
        BY <1>1
      <4>4. low.state = tcb[u].state
        BY <4>3 DEF Tcb
      <4> QED BY <4>2, <4>4
    <3>2. tcb'[u] = WokenByPost(low, want[t])
      BY <1>6 DEF SemPostWake
    <3> HIDE DEF low
    <3> QED BY <3>1, <3>2 DEF WokenByPost, Tcb
  <2> QED BY <1>1, <1>3, <1>6, <2>1 DEF SemPostWake, FinishesNone
<1>7. CASE \/ WaitUntilNextPeriod(t)
           \/ \E p \in Periods : WaitUntilNextNPeriods(t, p)
           \/ \E n \in Delay : \/ WaitTicks(t, n)
                               \/ Wait(t, n)
                               \/ WaitUntilTicks(t, n)
                               \/ SetNextWakeup(t, n)
  <2>1. FinishesNone
    BY <1>1, <1>7 DEF WaitUntilNextPeriod, WaitUntilNextNPeriods, WaitTicks, Wait,
       WaitUntilTicks, SetNextWakeup, FinishesNone, callVars, Tcb
  <2> QED BY <1>3, <2>1
<1>8. CASE \/ \E s \in Signal : SignalRegister(t, s) \/ SignalUnregister(t, s)
           \/ SignalCreate(t)
           \/ \E mask \in WaitMask[t] : EventWait(t, mask)
  <2>1. FinishesNone
    <3>1. CASE \E s \in Signal : SignalRegister(t, s) \/ SignalUnregister(t, s)
      BY <1>1, <3>1 DEF SignalRegister, SignalUnregister, FinishesNone, callVars, Tcb
    <3>2. CASE SignalCreate(t)
      BY <3>2 DEF SignalCreate, FinishesNone, callVars, tcbVars
    <3>3. CASE \E mask \in WaitMask[t] : EventWait(t, mask)
      <4>1. /\ \A u \in Task : tcb'[u].state = tcb[u].state
            /\ pc' = [pc EXCEPT ![t] = "armed"]
        BY <1>1, <3>3 DEF EventWait, Tcb
      <4> QED BY <1>1, <4>1 DEF FinishesNone
    <3> QED BY <1>8, <3>1, <3>2, <3>3
  <2> QED BY <1>3, <2>1
<1>9. CASE EventWaitBlock(t) \/ EventWaitReturn(t)
  <2>1. \/ tcb' = [tcb EXCEPT ![t].suspend = TRUE, ![t].nw = TRUE]
        \/ tcb' = [tcb EXCEPT ![t].suspend = TRUE, ![t].nextWakeup = 0]
        \/ tcb' = tcb
    BY <1>9 DEF EventWaitBlock, EventWaitReturn, tcbVars
  <2>2. \A u \in Task : tcb'[u].state = tcb[u].state
    BY <1>1, <2>1 DEF Tcb
  <2>3. FinishesNone
    BY <1>1, <1>9, <2>2 DEF EventWaitBlock, EventWaitReturn, FinishesNone
  <2> QED BY <1>3, <2>3
<1>10. CASE \/ \E r \in Sem : SemPend(t, r) \/ SemPost(t, r)
            \/ SemPendBlock(t) \/ SemPendTake(t)
  <2>1. ASSUME NEW r, Acquire(t, r) PROVE \A u \in Task : tcb'[u].state = tcb[u].state
    BY <1>1, <2>1 DEF Acquire, Tcb
  <2>2. CASE \E r \in Sem : SemPend(t, r)
    <3>1. PICK r \in Sem : SemPend(t, r)
      BY <2>2
    <3>2. CASE sem[r] = 0
      <4> DEFINE ev == IF tcb[t].event \in {SigEvent, BothEvents}
                       THEN BothEvents ELSE RsrcEvent
                 mask == IndexMask(r)
      <4>1. tcb' = [tcb EXCEPT ![t].event = ev, ![t].active = mask]
            /\ pc' = [pc EXCEPT ![t] = "pendarmed"]
        BY <1>1, <3>1, <3>2 DEF SemPend
      <4> HIDE DEF ev, mask
      <4>2. \A u \in Task : tcb'[u].state = tcb[u].state
        BY <1>1, <4>1 DEF Tcb
      <4> QED BY <1>1, <1>3, <4>1, <4>2 DEF FinishesNone
    <3>3. CASE sem[r] # 0
      <4>1. Acquire(t, r) /\ pc' = pc
        BY <3>1, <3>3 DEF SemPend
      <4> QED BY <1>3, <2>1, <4>1 DEF FinishesNone
    <3> QED BY <3>2, <3>3
  <2>3. CASE \E r \in Sem : SemPost(t, r)
    <3>1. tcb' = tcb /\ (pc' = pc \/ pc' = [pc EXCEPT ![t] = "posting"])
      BY <2>3 DEF SemPost, tcbVars
    <3> QED BY <1>1, <1>3, <3>1 DEF FinishesNone
  <2>4. CASE SemPendBlock(t)
    <3>1. /\ tcb' = [tcb EXCEPT ![t].suspend = TRUE, ![t].nextWakeup = 0]
          /\ pc' = [pc EXCEPT ![t] = "pendwait"]
      BY <2>4 DEF SemPendBlock
    <3>2. \A u \in Task : tcb'[u].state = tcb[u].state
      BY <1>1, <3>1 DEF Tcb
    <3> QED BY <1>1, <1>3, <3>1, <3>2 DEF FinishesNone
  <2>5. CASE SemPendTake(t)
    <3>1. Acquire(t, want[t]) /\ pc' = [pc EXCEPT ![t] = "run"]
      BY <2>5 DEF SemPendTake
    <3> QED BY <1>1, <1>3, <2>1, <3>1 DEF FinishesNone
  <2> QED BY <1>10, <2>2, <2>3, <2>4, <2>5
<1> QED BY <1>2, <1>4, <1>5, <1>6, <1>7, <1>8, <1>9, <1>10 DEF TaskStep

LEMMA NextTerminators ==
    ASSUME Inv, OnlyTerminators, [Next]_vars PROVE OnlyTerminators'
<1>1. tcb \in [Task -> Tcb] /\ cur \in Task
  BY DEF Inv, TypeOK, TcbTypeOK, SchedTypeOK
<1>2. ASSUME FinishesNone PROVE OnlyTerminators'
  BY <1>2 DEF OnlyTerminators, FinishesNone
<1>3. CASE SchedEnter
  <2>1. Suspended(tcb[cur]).state # "FINISHED"
    BY <1>1 DEF Suspended, Tcb
  <2>2. CurrentAfterWait \in Tcb
    BY <1>1, SuspendedType DEF CurrentAfterWait
  <2>3. CurrentAfterWait.state = "FINISHED" => tcb[cur].state = "FINISHED"
    BY <2>1 DEF CurrentAfterWait
  <2> DEFINE after == IF Accounted(CurrentAfterWait)
                      THEN [CurrentAfterWait EXCEPT !.cpuRemaining = Left(CurrentAfterWait)]
                      ELSE CurrentAfterWait
  <2>4. after.state = CurrentAfterWait.state
    BY <2>2 DEF Tcb
  <2>5. tcb' = [tcb EXCEPT ![cur] = after] /\ pc' = pc
    BY <1>3 DEF SchedEnter, callVars
  <2> HIDE DEF after
  <2> QED BY <1>1, <1>2, <2>3, <2>4, <2>5 DEF FinishesNone
<1>4. CASE SchedTask
  BY <1>1, <1>2, <1>4, LoopWakes DEF SchedTask, FinishesNone, callVars
<1>5. CASE ActivateTask
  BY <1>1, <1>2, <1>5 DEF ActivateTask, FinishesNone, callVars, Tcb
<1>6. CASE Boot
  BY <1>6 DEF Boot, BootTcb, OnlyTerminators
<1>7. CASE \E s \in IsrSignals : IsrSignal(s)
  BY <1>2, <1>7, SignalFinishesNone, KernelAssumption DEF IsrSignal, callVars
<1>8. CASE Start \/ Tick \/ SchedPick \/ UNCHANGED vars
  BY <1>2, <1>8 DEF Start, Tick, SchedPick, vars, tcbVars, callVars, FinishesNone
<1>9. CASE \E t \in Task : TaskStep(t)
  BY <1>9, TaskStepFinishes
<1> QED BY <1>3, <1>4, <1>5, <1>6, <1>7, <1>8, <1>9
    DEF Next, Startup, Scheduler, ReserveViolated, WatchdogReset

LEMMA GoneAtStart == Init => GoneInv
<1>1. Init => OnlyTerminators
  BY DEF Init, BootTcb, OnlyTerminators
<1>2. Init => \A t \in Task : PlainInv(t)
  BY InitPlain
<1> QED BY <1>1, <1>2 DEF GoneInv

LEMMA GoneNext == Inv /\ GoneInv /\ [Next]_vars => GoneInv'
BY NextPlain, NextTerminators DEF GoneInv

\* A terminated task is off the queue for good, when no signal and no
\* semaphore reaches tasks that terminate; other tasks may use them
\* (nrk_task.c:278-286, nrk_scheduler.c:131, 193).
THEOREM FinishedStaysGone ==
    ASSUME TerminatorsPlain
    PROVE  Spec => []FinishedGone
<1>1. GoneInv => FinishedGone
  BY DEF GoneInv, TerminatorsPlain, OnlyTerminators, PlainInv, QueuedReady, FinishedGone
<1> QED BY <1>1, GoneAtStart, GoneNext, InitInv, NextInv, PTL DEF Spec

-----------------------------------------------------------------------------
(* Without signals, semaphores and termination the queue is exact.         *)

OnlyWaits == \A t \in Task : Plain(t) /\ "terminate" \notin Calls[t]

PoolFits == Cardinality(Task) <= PoolSize

ReadyQueued(t) == tcb[t].state = "READY" => t \in Queued(queue)

ExactInv == GoneInv /\ \A t \in Task : ReadyQueued(t)

\* A task that is not queued finds a node: nobody has two.
LEMMA Room ==
    ASSUME Inv, PoolFits, \A u \in Task : Once(queue, u), NEW t \in Task, t \notin Queued(queue)
    PROVE  Len(queue) # PoolSize
<1>1. /\ queue \in Seq(Task) /\ Len(queue) \in Nat
      /\ IsFiniteSet(Task) /\ Cardinality(Task) \in Nat
  BY QueueUnordered, FS_CardinalityType, KernelAssumption
<1> DEFINE f == [i \in 1..Len(queue) |-> queue[i]]
<1>2. f \in Injection(1..Len(queue), Task \ {t})
  <2>1. \A i \in 1..Len(queue) : queue[i] \in Task \ {t}
    BY <1>1 DEF Queued
  <2>2. \A i, j \in 1..Len(queue) : queue[i] = queue[j] => i = j
    BY <2>1 DEF Once, Occurrences
  <2> QED BY <2>1, <2>2 DEF Injection, IsInjective
<1>3. IsFiniteSet(Task \ {t}) /\ Cardinality(Task \ {t}) = Cardinality(Task) - 1
  BY <1>1, FS_RemoveElement
<1>4. Cardinality(1..Len(queue)) = Len(queue)
  <2>1. \A n \in Nat : Cardinality(1..n) = n
    <3> SUFFICES ASSUME NEW n \in Nat PROVE Cardinality(1..n) = n
      OBVIOUS
    <3>1. Cardinality(1..n) = IF 1 > n THEN 0 ELSE n - 1 + 1
      BY FS_Interval, 1 \in Int, n \in Int
    <3> QED BY <3>1
  <2> QED BY <1>1, <2>1
<1>5. Cardinality(1..Len(queue)) <= Cardinality(Task \ {t})
  BY <1>2, <1>3, FS_Injection
<1>6. PoolSize \in Nat
  BY QueueAssumption
<1> QED BY <1>1, <1>3, <1>4, <1>5, <1>6 DEF PoolFits

\* Only nrk_terminate_task takes a task off the queue from outside the
\* scheduler, and the task that runs is READY.
LEMMA TaskStepNoDequeue ==
    ASSUME NEW u \in Task, TaskStep(u), "terminate" \notin Calls[u] PROVE queue' = queue
BY DEF TaskStep, WaitUntilNextPeriod, WaitUntilNextNPeriods, WaitTicks, Wait,
   WaitUntilTicks, SetNextWakeup, TerminateDequeue, TerminateFinish, TerminateWait,
   SignalRegister, SignalUnregister, SignalDelete, EventSignal, SignalCreate, EventWait,
   EventWaitBlock, EventWaitReturn, SemPend, SemPost, SemPendBlock, SemPendTake,
   SemPostWake, Call, tcbVars

LEMMA StepsReady ==
    ASSUME NEW t \in Task, TaskStep(t), Leaving(t), tcb[t].state # "FINISHED"
    PROVE  tcb[t].state = "READY"
<1>1. Running(t)
  BY DEF TaskStep, WaitUntilNextPeriod, WaitUntilNextNPeriods, WaitTicks, Wait,
     WaitUntilTicks, SetNextWakeup, TerminateDequeue, TerminateFinish, TerminateWait,
     SignalRegister, SignalUnregister, SignalDelete, EventSignal, SignalCreate, EventWait,
     EventWaitBlock, EventWaitReturn, SemPend, SemPost, SemPendBlock, SemPendTake,
     SemPostWake, Call, At
<1> QED BY <1>1 DEF Running, Leaving

LEMMA NextReady ==
    ASSUME OnlyWaits, PoolFits, Inv, ExactInv, [Next]_vars, NEW t \in Task
    PROVE  ReadyQueued(t)'
<1>1. /\ tcb \in [Task -> Tcb] /\ queue \in Seq(Task) /\ Len(queue) <= PoolSize
      /\ PlainInv(t) /\ \A u \in Task : Once(queue, u)
  BY QueueUnordered DEF Inv, TypeOK, TcbTypeOK, ExactInv, GoneInv, OnlyWaits, PlainInv,
     QueuedReady
<1>2. ASSUME NEW u \in Task, queue' = AddReady(queue, u, tcb)
      PROVE  Queued(queue) \subseteq Queued(queue')
             /\ (t = u /\ t \notin Queued(queue) => t \in Queued(queue'))
  BY <1>1, <1>2, AddQueued, Room DEF AddReady
<1>3. CASE \E u \in Task : TaskStep(u)
  <2>1. PICK u \in Task : TaskStep(u)
    BY <1>3
  <2>2. pc[u] \notin {"dequeued", "finished"} /\ tcb[u].state # "FINISHED"
    BY DEF ExactInv, GoneInv, OnlyTerminators, OnlyWaits
  <2>3. queue' = queue
    BY <2>1, TaskStepNoDequeue DEF OnlyWaits
  <2>4. CASE u = t
    <3>1. t \in Queued(queue)
      <4>1. Leaving(t) /\ TaskStep(t) /\ tcb[t].state # "FINISHED"
        BY <1>1, <2>1, <2>2, <2>4 DEF PlainInv
      <4>2. tcb[t].state = "READY"
        BY <4>1, StepsReady
      <4> QED BY <4>2 DEF ExactInv, ReadyQueued
    <3> QED BY <2>3, <3>1 DEF ReadyQueued, Queued
  <2>5. CASE u # t
    <3>1. tcb'[t].state = tcb[t].state
      BY <1>1, <2>1, <2>5, OthersUntouched DEF Untouched, PlainInv
    <3> QED BY <2>3, <3>1 DEF ExactInv, ReadyQueued, Queued
  <2> QED BY <2>4, <2>5
<1>4. CASE SchedEnter
  BY <1>1, <1>4, SchedEnterPlain DEF ExactInv, ReadyQueued
<1>5. CASE SchedTask
  <2>1. CASE t # sched
    BY <1>1, <1>2, <1>5, <2>1, LoopWakes DEF ExactInv, ReadyQueued, Queued
  <2>2. CASE t = sched
    <3>1. tcb[t].state = "SUSPENDED" => t \notin Queued(queue)
      BY <1>1 DEF PlainInv, QueuedReady
    <3> QED BY <1>1, <1>2, <1>5, <2>2, <3>1, LoopWakes DEF ExactInv, ReadyQueued, Queued
  <2> QED BY <2>1, <2>2
<1>6. CASE ActivateTask
  <2>1. /\ sched = Booting /\ activated \in Task /\ t \in Nat
    BY <1>6, TaskRange DEF ActivateTask
  <2>2. t = activated => t \notin Queued(queue)
    BY <1>1, <2>1 DEF PlainInv, NotYet
  <2>3. \/ tcb' = tcb /\ queue' = queue
        \/ /\ tcb' = [tcb EXCEPT ![activated].state = "READY"]
           /\ queue' = AddReady(queue, activated, tcb)
    BY <1>6 DEF ActivateTask
  <2>4. CASE tcb' = tcb /\ queue' = queue
    BY <2>4 DEF ExactInv, ReadyQueued, Queued
  <2>5. CASE /\ tcb' = [tcb EXCEPT ![activated].state = "READY"]
             /\ queue' = AddReady(queue, activated, tcb)
    <3>1. t # activated => tcb'[t] = tcb[t]
      BY <1>1, <2>1, <2>5
    <3>2. Queued(queue) \subseteq Queued(queue') /\ (t = activated => t \in Queued(queue'))
      BY <1>2, <2>1, <2>2, <2>5
    <3> QED BY <3>1, <3>2 DEF ExactInv, ReadyQueued
  <2> QED BY <2>3, <2>4, <2>5
<1>7. CASE Boot
  <2>1. Idle \in Queued(queue')
    BY <1>7 DEF Boot, Queued
  <2>2. t # Idle => tcb'[t].state # "READY"
    BY <1>7 DEF Boot, BootTcb
  <2> QED BY <2>1, <2>2 DEF ReadyQueued
<1>8. CASE \E s \in IsrSignals : IsrSignal(s)
  <2>1. tcb'[t] = tcb[t] /\ queue' = queue
    BY <1>1, <1>8, SignalUntouched, KernelAssumption DEF IsrSignal, PlainInv
  <2> QED BY <2>1 DEF ExactInv, ReadyQueued, Queued
<1>9. CASE Start \/ Tick \/ SchedPick \/ UNCHANGED vars
  <2>1. tcb' = tcb /\ queue' = queue
    BY <1>9 DEF Start, Tick, SchedPick, vars, tcbVars
  <2> QED BY <2>1 DEF ExactInv, ReadyQueued, Queued
<1> QED BY <1>3, <1>4, <1>5, <1>6, <1>7, <1>8, <1>9
    DEF Next, Startup, Scheduler, ReserveViolated, WatchdogReset

LEMMA InitExact == Init => \A t \in Task : ReadyQueued(t)
<1> SUFFICES ASSUME Init, NEW t \in Task PROVE ReadyQueued(t)
  OBVIOUS
<1>1. Idle \in Queued(queue)
  BY DEF Init, Queued
<1>2. t # Idle => tcb[t].state # "READY"
  BY DEF Init, BootTcb
<1> QED BY <1>1, <1>2 DEF ReadyQueued

\* The queue holds the READY tasks, each of them once, for any tasks that only
\* wait for time and fit in the pool (nrk_task.c:60-222,
\* nrk_scheduler.c:131-152, 219-239).
THEOREM QueueAlwaysExact ==
    ASSUME OnlyWaits, PoolFits
    PROVE  Spec => []QueueExact
<1>1. Init => ExactInv
  BY GoneAtStart, InitExact DEF ExactInv
<1>2. ExactInv => QueueExact
  <2> SUFFICES ASSUME ExactInv, NEW t \in Task
               PROVE  /\ tcb[t].state = "READY" <=> t \in Queued(queue)
                      /\ Cardinality(Occurrences(queue, t)) <= 1
    BY DEF QueueExact
  <2>1. QueuedReady(t) /\ ReadyQueued(t)
    BY DEF ExactInv, GoneInv, OnlyWaits, PlainInv
  <2>2. Cardinality(Occurrences(queue, t)) <= 1
    <3>1. CASE Occurrences(queue, t) = {}
      BY <3>1, FS_EmptySet
    <3>2. CASE \E i : i \in Occurrences(queue, t)
      <4>1. PICK i : i \in Occurrences(queue, t)
        BY <3>2
      <4>2. Occurrences(queue, t) = {i}
        BY <2>1, <4>1 DEF QueuedReady, Once
      <4> QED BY <4>2, FS_Singleton
    <3> QED BY <3>1, <3>2
  <2> QED BY <2>1, <2>2 DEF QueuedReady, ReadyQueued
<1>3. Inv /\ ExactInv /\ [Next]_vars => ExactInv'
  BY NextReady, GoneNext DEF ExactInv
<1> QED BY <1>1, <1>2, <1>3, InitInv, NextInv, PTL DEF Spec

-----------------------------------------------------------------------------
(* Whoever waits for a signal is armed for one that exists.                *)

\* Signals are created, registered, raised and waited for, nothing else.
OnlyArms == \A t \in Task :
                Calls[t] \cap {"signal_delete", "signal_unregister", "sem"} = {}

Armed(t) == /\ tcb[t].registered \subseteq signals
            /\ tcb[t].event \in {None, SigEvent}
            /\ tcb[t].event = SigEvent => tcb[t].active \cap tcb[t].registered # {}
            /\ tcb[t].state = "EVENT_SUSPENDED" => tcb[t].event = SigEvent

ArmedInv == \A t \in Task : Armed(t)

\* The task stays armed as it was, or is disarmed and not left waiting.
Calm(t) == /\ tcb'[t].registered = tcb[t].registered
           /\ \/ /\ tcb'[t].event = tcb[t].event /\ tcb'[t].active = tcb[t].active
                 /\ tcb'[t].state = "EVENT_SUSPENDED" => tcb[t].state = "EVENT_SUSPENDED"
              \/ tcb'[t].event = None /\ tcb'[t].state # "EVENT_SUSPENDED"

LEMMA CalmArmed ==
    ASSUME NEW t \in Task, Armed(t), signals \subseteq signals', Calm(t) PROVE Armed(t)'
BY DEF Armed, Calm, None, SigEvent

LEMMA SignalCalm ==
    ASSUME Inv, NEW s \in Signal, tcb' = Signalled(s), NEW u \in Task PROVE Calm(u)
<1>1. tcb[u] \in Tcb
  BY DEF Inv, TypeOK, TcbTypeOK
<1>2. ASSUME NEW S
      PROVE  LET tc == [tcb[u] EXCEPT !.state = "SUSPENDED", !.nextWakeup = 0,
                                      !.event = None, !.active = S]
             IN  /\ tc.event = None /\ tc.state = "SUSPENDED"
                 /\ tc.registered = tcb[u].registered
  BY <1>1 DEF Tcb
<1>3. \/ tcb'[u] = tcb[u]
      \/ /\ tcb'[u].event = None /\ tcb'[u].state = "SUSPENDED"
         /\ tcb'[u].registered = tcb[u].registered
  BY <1>2 DEF Signalled
<1> QED BY <1>3 DEF Calm

LEMMA SemPostWakeCalm ==
    ASSUME Inv, NEW t \in Task, SemPostWake(t), NEW u \in Task PROVE Calm(u)
<1>1. tcb[u] \in Tcb
  BY DEF Inv, TypeOK, TcbTypeOK
<1> DEFINE low == [tcb[u] EXCEPT !.elevated = IF u = t THEN FALSE ELSE @]
<1>2. /\ low.event = tcb[u].event /\ low.active = tcb[u].active
      /\ low.state = tcb[u].state /\ low.registered = tcb[u].registered
  BY <1>1 DEF Tcb
<1>3. low \in Tcb
  <2>1. (IF u = t THEN FALSE ELSE tcb[u].elevated) \in BOOLEAN
    BY <1>1 DEF Tcb
  <2> QED BY <1>1, <2>1, FieldUpdates
<1>4. tcb'[u] = WokenByPost(low, want[t])
  BY DEF SemPostWake
<1> HIDE DEF low
<1>5. tcb'[u] = low \/ (/\ tcb'[u].event = None /\ tcb'[u].state = "SUSPENDED"
                        /\ tcb'[u].registered = low.registered)
  BY <1>3, <1>4 DEF WokenByPost, Tcb
<1> QED BY <1>2, <1>5 DEF Calm

LEMMA TaskStepArmed ==
    ASSUME OnlyArms, Inv, ArmedInv, NEW t \in Task, TaskStep(t) PROVE ArmedInv'
<1>1. pc \in [Task -> Point] /\ tcb \in [Task -> Tcb]
  BY DEF Inv, TypeOK, CallTypeOK, TcbTypeOK
<1>2. ASSUME signals \subseteq signals', \A u \in Task : Calm(u) PROVE ArmedInv'
  BY <1>2, CalmArmed DEF ArmedInv
<1>3. CASE \/ WaitUntilNextPeriod(t)
           \/ \E p \in Periods : WaitUntilNextNPeriods(t, p)
           \/ \E n \in Delay : \/ WaitTicks(t, n)
                               \/ Wait(t, n)
                               \/ WaitUntilTicks(t, n)
                               \/ SetNextWakeup(t, n)
  <2>1. signals' = signals
    BY <1>3 DEF WaitUntilNextPeriod, WaitUntilNextNPeriods, WaitTicks, Wait,
       WaitUntilTicks, SetNextWakeup
  <2>2. \A u \in Task : Calm(u)
    BY <1>1, <1>3 DEF WaitUntilNextPeriod, WaitUntilNextNPeriods, WaitTicks, Wait,
       WaitUntilTicks, SetNextWakeup, Calm, Tcb
  <2> QED BY <1>2, <2>1, <2>2
<1>4. CASE TerminateDequeue(t) \/ TerminateFinish(t) \/ TerminateWait(t)
  <2>1. signals' = signals
    BY <1>4 DEF TerminateDequeue, TerminateFinish, TerminateWait
  <2>2. \A u \in Task : Calm(u)
    BY <1>1, <1>4 DEF TerminateDequeue, TerminateFinish, TerminateWait, Calm, Tcb
  <2> QED BY <1>2, <2>1, <2>2
<1>5. CASE \E s \in Signal : SignalRegister(t, s)
  <2>1. PICK s \in Signal : SignalRegister(t, s)
    BY <1>5
  <2>2. /\ s \in signals /\ signals' = signals
        /\ tcb' = [tcb EXCEPT ![t].registered = @ \cup {s}]
    BY <2>1 DEF SignalRegister
  <2>3. SUFFICES ASSUME NEW u \in Task PROVE Armed(u)'
    BY DEF ArmedInv
  <2>4. /\ tcb'[u].event = tcb[u].event /\ tcb'[u].active = tcb[u].active
        /\ tcb'[u].state = tcb[u].state
        /\ tcb[u].registered \subseteq tcb'[u].registered
        /\ tcb'[u].registered \subseteq tcb[u].registered \cup {s}
    BY <1>1, <2>2 DEF Tcb
  <2> QED BY <2>2, <2>4 DEF ArmedInv, Armed
<1>6. CASE \E s \in Signal : SignalUnregister(t, s) \/ SignalDelete(t, s)
  BY <1>6 DEF SignalUnregister, SignalDelete, Call, OnlyArms
<1>7. CASE \E s \in Signal : EventSignal(t, s)
  BY <1>2, <1>7, SignalCalm DEF EventSignal
<1>8. CASE SignalCreate(t)
  BY <1>2, <1>8 DEF SignalCreate, tcbVars, Calm
<1>9. CASE \E mask \in WaitMask[t] : EventWait(t, mask)
  <2>1. PICK mask \in WaitMask[t] : EventWait(t, mask)
    BY <1>9
  <2>2. /\ mask \cap tcb[t].registered # {} /\ signals' = signals
        /\ tcb' = [tcb EXCEPT ![t].active = mask, ![t].event = SigEvent]
    BY <2>1 DEF EventWait
  <2>3. SUFFICES ASSUME NEW u \in Task PROVE Armed(u)'
    BY DEF ArmedInv
  <2>4. CASE u = t
    <3>1. /\ tcb'[t].event = SigEvent /\ tcb'[t].active = mask
          /\ tcb'[t].registered = tcb[t].registered
      BY <1>1, <2>2 DEF Tcb
    <3> QED BY <2>2, <2>4, <3>1 DEF ArmedInv, Armed
  <2>5. CASE u # t
    BY <1>1, <2>2, <2>5 DEF ArmedInv, Armed
  <2> QED BY <2>4, <2>5
<1>10. CASE EventWaitBlock(t) \/ EventWaitReturn(t)
  <2>1. \/ tcb' = [tcb EXCEPT ![t].suspend = TRUE, ![t].nw = TRUE]
        \/ tcb' = [tcb EXCEPT ![t].suspend = TRUE, ![t].nextWakeup = 0]
        \/ tcb' = tcb
    BY <1>10 DEF EventWaitBlock, EventWaitReturn, tcbVars
  <2>2. signals' = signals
    BY <1>10 DEF EventWaitBlock, EventWaitReturn
  <2>3. \A u \in Task : Calm(u)
    BY <1>1, <2>1 DEF Calm, Tcb
  <2> QED BY <1>2, <2>2, <2>3
<1>11. CASE \E r \in Sem : SemPend(t, r) \/ SemPost(t, r)
  BY <1>11 DEF SemPend, SemPost, Call, OnlyArms
<1>12. CASE SemPendBlock(t) \/ SemPendTake(t)
  <2>1. /\ signals' = signals
        /\ \/ tcb' = [tcb EXCEPT ![t].suspend = TRUE, ![t].nextWakeup = 0]
           \/ tcb' = [tcb EXCEPT ![t].ceil = SemCeiling[want[t]], ![t].elevated = TRUE]
    BY <1>12 DEF SemPendBlock, SemPendTake, Acquire
  <2>2. \A u \in Task : Calm(u)
    BY <1>1, <2>1 DEF Calm, Tcb
  <2> QED BY <1>2, <2>1, <2>2
<1>13. CASE SemPostWake(t)
  BY <1>2, <1>13, SemPostWakeCalm DEF SemPostWake
<1> QED BY <1>3, <1>4, <1>5, <1>6, <1>7, <1>8, <1>9, <1>10, <1>11, <1>12, <1>13 DEF TaskStep

\* The scheduler leaves a task waiting for an event only if it is armed.
LEMMA SchedulerArmed ==
    ASSUME Inv, ArmedInv, SchedEnter \/ SchedTask PROVE ArmedInv'
<1>1. tcb \in [Task -> Tcb] /\ cur \in Task /\ signals' = signals
  BY DEF Inv, TypeOK, TcbTypeOK, SchedTypeOK, SchedEnter, SchedTask
<1>2. CASE SchedEnter
  <2> DEFINE tc == Suspended(tcb[cur])
             after == IF Accounted(CurrentAfterWait)
                      THEN [CurrentAfterWait EXCEPT !.cpuRemaining = Left(CurrentAfterWait)]
                      ELSE CurrentAfterWait
  <2>1. /\ tc.event = tcb[cur].event /\ tc.active = tcb[cur].active
        /\ tc.registered = tcb[cur].registered
        /\ tc.state = "EVENT_SUSPENDED" => tcb[cur].event # None
    BY <1>1 DEF Suspended, Tcb, None, RsrcEvent
  <2>2. CurrentAfterWait \in Tcb
    BY <1>1, SuspendedType DEF CurrentAfterWait
  <2>3. \/ CurrentAfterWait = tcb[cur]
        \/ CurrentAfterWait = tc
    BY DEF CurrentAfterWait
  <2> HIDE DEF tc
  <2>4. /\ after.event = tcb[cur].event /\ after.active = tcb[cur].active
        /\ after.registered = tcb[cur].registered
        /\ after.state = "EVENT_SUSPENDED" =>
               tcb[cur].event # None \/ tcb[cur].state = "EVENT_SUSPENDED"
    BY <2>1, <2>2, <2>3 DEF Tcb
  <2>5. tcb' = [tcb EXCEPT ![cur] = after]
    BY <1>2 DEF SchedEnter
  <2> HIDE DEF after
  <2>6. SUFFICES ASSUME NEW u \in Task PROVE Armed(u)'
    BY DEF ArmedInv
  <2>7. CASE u = cur
    BY <1>1, <2>4, <2>5, <2>7 DEF ArmedInv, Armed
  <2>8. CASE u # cur
    BY <1>1, <2>5, <2>8 DEF ArmedInv, Armed
  <2> QED BY <2>7, <2>8
<1>3. CASE SchedTask
  <2> DEFINE aged == Aged(sched)
             due == aged.state = "SUSPENDED" /\ aged.nextWakeup = 0
             after == IF due THEN Awoken(sched, aged) ELSE aged
  <2>1. sched \in Task /\ tcb' = [tcb EXCEPT ![sched] = after]
    BY <1>3 DEF SchedTask
  <2>2. /\ aged \in Tcb /\ aged.event = tcb[sched].event
        /\ aged.active = tcb[sched].active /\ aged.state = tcb[sched].state
        /\ aged.registered = tcb[sched].registered
    BY <1>1, <2>1, AgedType DEF Aged, Tcb
  <2> HIDE DEF aged
  <2>3. /\ Awoken(sched, aged).event = None
        /\ Awoken(sched, aged).registered = aged.registered
        /\ Awoken(sched, aged).state \in {"READY", aged.state}
    BY <2>2 DEF Awoken, Tcb
  <2>4. \/ after = aged
        \/ /\ after.event = None /\ after.registered = tcb[sched].registered
           /\ after.state # "EVENT_SUSPENDED"
    BY <2>2, <2>3
  <2> HIDE DEF after
  <2>5. \A u \in Task : Calm(u)
    BY <1>1, <2>1, <2>2, <2>4 DEF Calm
  <2> QED BY <1>1, <2>5, CalmArmed DEF ArmedInv
<1> QED BY <1>2, <1>3

LEMMA NextArmed == OnlyArms /\ Inv /\ ArmedInv /\ [Next]_vars => ArmedInv'
<1> SUFFICES ASSUME OnlyArms, Inv, ArmedInv, [Next]_vars PROVE ArmedInv'
  OBVIOUS
<1>1. tcb \in [Task -> Tcb]
  BY DEF Inv, TypeOK, TcbTypeOK
<1>2. ASSUME signals \subseteq signals', \A u \in Task : Calm(u) PROVE ArmedInv'
  BY <1>2, CalmArmed DEF ArmedInv
<1>3. CASE SchedEnter \/ SchedTask
  BY <1>3, SchedulerArmed
<1>4. CASE \E s \in IsrSignals : IsrSignal(s)
  BY <1>2, <1>4, SignalCalm, KernelAssumption DEF IsrSignal
<1>5. CASE ActivateTask
  BY <1>1, <1>2, <1>5 DEF ActivateTask, Calm, Tcb
<1>6. CASE Start \/ Tick \/ SchedPick \/ UNCHANGED vars
  BY <1>2, <1>6 DEF Start, Tick, SchedPick, vars, tcbVars, Calm
<1>7. CASE Boot
  BY <1>7 DEF Boot, BootTcb, ArmedInv, Armed, None, SigEvent
<1>8. CASE \E t \in Task : TaskStep(t)
  BY <1>8, TaskStepArmed
<1> QED BY <1>3, <1>4, <1>5, <1>6, <1>7, <1>8
    DEF Next, Startup, Scheduler, ReserveViolated, WatchdogReset

\* No task is left waiting for what cannot come, for any tasks that neither
\* delete signals, nor unregister from them, nor use semaphores
\* (nrk_events.c:195-220, nrk_scheduler.c:131-152).
THEOREM WaiterAlwaysReachable ==
    ASSUME OnlyArms
    PROVE  Spec => []WaiterReachable
<1>1. Init => ArmedInv
  <2> SUFFICES ASSUME Init, NEW t \in Task PROVE Armed(t)
    BY DEF ArmedInv
  <2>1. tcb[t] = BootTcb[t]
    BY DEF Init
  <2>2. /\ tcb[t].registered = {} /\ tcb[t].event = None
        /\ tcb[t].state # "EVENT_SUSPENDED"
    BY <2>1 DEF BootTcb
  <2> QED BY <2>2 DEF Armed, None, SigEvent
<1>2. ArmedInv => WaiterReachable
  BY DEF ArmedInv, Armed, WaiterReachable
<1>3. Inv /\ ArmedInv /\ [Next]_vars => ArmedInv'
  BY NextArmed
<1> QED BY <1>1, <1>2, <1>3, InitInv, NextInv, PTL DEF Spec
=============================================================================
