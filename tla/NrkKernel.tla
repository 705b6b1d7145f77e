----------------------------- MODULE NrkKernel -----------------------------
(***************************************************************************)
(* The Nano-RK kernel the sensor nodes run on: the timer interrupt and the *)
(* scheduler (nrk_scheduler.c), the calls by which a task gives up the CPU *)
(* (nrk_task.c), signals and semaphores (nrk_events.c).                    *)
(*                                                                         *)
(* A step is what runs with interrupts disabled, or one iteration of the   *)
(* scheduler loop, which runs with them enabled (nrk_scheduler.c:60).  A   *)
(* task between two steps of one call is at the program point pc[t], so    *)
(* the timer interrupt, another task or an interrupt handler that signals  *)
(* may come in between.  Time is counted in kernel ticks; the scheduler    *)
(* and a call take less than one.                                          *)
(***************************************************************************)
EXTENDS NrkQueueOps, FiniteSets

CONSTANTS
    MaxSleep,     \* MAX_SCHED_WAKEUP_TIME
    TimePad,      \* TIME_PAD
    StartTimer,   \* OCR2A as _nrk_setup_timer leaves it
    TimerSize,    \* values of the 8-bit timer registers
    Period,       \* TCB period of every task, in ticks (0: none)
    Offset,       \* offset of every task, in ticks
    Reserve,      \* cpu_reserve of every task, in ticks (0: none)
    Calls,        \* the calls the program of each task makes
    Delay,        \* arguments of the timed waits, in ticks
    Periods,      \* arguments of nrk_wait_until_next_n_periods
    Signal,       \* signal numbers; 0 is nrk_wakeup_signal
    WaitMask,     \* masks (sets of signals) each task waits on
    IsrSignals,   \* signals raised by interrupt handlers
    Sem,          \* indexes into nrk_sem_list
    SemCount,     \* count nrk_sem_create was given
    SemCeiling    \* ceiling nrk_sem_create was given

ASSUME KernelAssumption ==
    /\ IsFiniteSet(Task) /\ Task = 0..Cardinality(Task) - 1
    /\ Idle = 0
    /\ TimePad \in Nat \ {0}
    /\ MaxSleep \in Nat /\ MaxSleep > TimePad
    /\ TimerSize \in Nat /\ MaxSleep < TimerSize
    /\ StartTimer \in Nat \ {0} /\ StartTimer < TimerSize
    /\ Period \in [Task -> Nat] /\ Offset \in [Task -> Nat] /\ Reserve \in [Task -> Nat]
    /\ Offset[Idle] = 0 /\ Reserve[Idle] = 0
    /\ Calls[Idle] = {}
    /\ Delay \subseteq Nat /\ Periods \subseteq Nat
    /\ Signal \subseteq Nat /\ 0 \in Signal /\ IsrSignals \subseteq Signal
    /\ \A t \in Task : WaitMask[t] \subseteq SUBSET Signal
    /\ Sem \subseteq Nat
    /\ SemCount \in [Sem -> Nat] /\ SemCeiling \in [Sem -> Nat]

VARIABLES
    tcb,          \* nrk_task_TCB
    queue,        \* the ready queue, from _head_node
    cur,          \* nrk_cur_task_TCB
    timer,        \* TCNT2
    compare,      \* OCR2A + 1: _nrk_get_next_wakeup()
    prevTimer,    \* _nrk_prev_timer_val
    ints,         \* interrupts are enabled
    pending,      \* the compare interrupt is waiting to be served
    sched,        \* scheduler position: Booting, Off, a task of its loop, PickStep
    activated,    \* tasks nrk_activate_task has been called for
    nextWake,     \* next_wake of the scheduler
    signals,      \* _nrk_signal_list
    sem,          \* value of every nrk_sem_list entry
    pc,           \* where each task is inside a call
    waitFor,      \* the mask of the nrk_event_wait at pc[t]
    want,         \* the semaphore of the nrk_sem_pend or _post at pc[t]
    holds         \* semaphores each task has pended and not posted

tcbVars   == <<tcb, queue>>
timeVars  == <<timer, compare, prevTimer, ints, pending>>
schedVars == <<sched, activated, nextWake, cur>>
semVars   == <<sem, want, holds>>
callVars  == <<pc, waitFor>>
vars == <<tcbVars, timeVars, schedVars, semVars, signals, callVars>>

Booting == -2                    \* main, before nrk_start
Off == -1                        \* tasks run
PickStep == Cardinality(Task)    \* one past the last task of the loop

None == 0                        \* values of event_suspend
SigEvent == 1
RsrcEvent == 2
BothEvents == 3                  \* RSRC or-ed onto a stale SIG

WakeupSignal == 0

\* The semaphore index, written into active_signal_mask as a number, read
\* back as the mask it then is (indexes 0..3).
IndexMask(r) == CASE r = 0 -> {} [] r = 1 -> {0} [] r = 2 -> {1} [] OTHER -> {0, 1}

\* nrk_TCB_init
BootTcb == [t \in Task |->
    [state        |-> IF t = Idle THEN "READY" ELSE "SUSPENDED",
     suspend      |-> FALSE,
     event        |-> None,
     nw           |-> FALSE,
     active       |-> {},
     registered   |-> {},
     nextWakeup   |-> Offset[t],
     nextPeriod   |-> Period[t] + Offset[t],
     numPeriods   |-> 1,
     cpuRemaining |-> Reserve[t],
     elevated     |-> FALSE,
     ceil         |-> 0]]

Elevated(tc) == [t \in Task |-> tc[t].elevated]
Ceil(tc) == [t \in Task |-> tc[t].ceil]
AddReady(q, t, tc) == Add(q, t, Elevated(tc), Ceil(tc))

\* nrk_setup and nrk_init, which activates the idle task.
Init ==
    /\ tcb = BootTcb
    /\ queue = <<Idle>>
    /\ cur = Idle
    /\ timer = 0
    /\ prevTimer = 0                   \* _nrk_os_timer_reset has the last word
    /\ compare = StartTimer + 1        \* OCR2A, not OCR2A + 1, is 254 here
    /\ ints = FALSE
    /\ pending = FALSE
    /\ sched = Booting
    /\ activated = 1
    /\ nextWake = MaxSleep
    /\ signals = Signal
    /\ sem = SemCount
    /\ pc = [t \in Task |-> "run"]
    /\ waitFor = [t \in Task |-> {}]
    /\ want = [t \in Task |-> 0]
    /\ holds = [t \in Task |-> {}]

\* nrk_activate_task, called by main for each task in turn: a task without
\* an offset is READY at once.
ActivateTask ==
    LET t == activated IN
    /\ sched = Booting /\ activated \in Task
    /\ IF tcb[t].nextWakeup = 0
       THEN /\ tcb' = [tcb EXCEPT ![t].state = "READY"]
            /\ queue' = AddReady(queue, t, tcb)
       ELSE UNCHANGED <<tcb, queue>>
    /\ activated' = activated + 1
    /\ UNCHANGED <<cur, sched, nextWake, timeVars, semVars, signals, callVars>>

\* nrk_start: the head of the queue runs, interrupts are on.
Start ==
    /\ sched = Booting /\ activated \notin Task
    /\ cur' = queue[1]
    /\ sched' = Off
    /\ ints' = TRUE
    /\ UNCHANGED <<tcbVars, timer, compare, prevTimer, pending, activated, nextWake,
                   semVars, signals, callVars>>

-----------------------------------------------------------------------------
(* Time: TCNT2 counts up to OCR2A, raises the compare interrupt and starts *)
(* again at 0; past OCR2A it counts to the end of the register.  An        *)
(* enabled interrupt is served before the next tick.                       *)

Matches == timer + 1 = compare

Tick ==
    /\ sched = Off
    /\ ~(pending /\ ints)
    /\ timer' = IF Matches THEN 0 ELSE (timer + 1) % TimerSize
    /\ pending' = (pending \/ Matches)
    /\ UNCHANGED <<tcbVars, schedVars, semVars, compare, prevTimer, ints, signals, callVars>>

-----------------------------------------------------------------------------
(* Calls of the running task.                                              *)

Running(t) == cur = t /\ sched = Off /\ ~tcb[t].suspend /\ ~(pending /\ ints)
At(t, point) == Running(t) /\ pc[t] = point
Call(t, name) == At(t, "run") /\ name \in Calls[t]

\* Faulty variants, one per way the shared end could go wrong: the interrupt
\* is put off past the time it was due, or comes early without the elapsed
\* ticks being recorded.
WaitWithoutDueTest ==
    /\ IF timer < MaxSleep - TimePad
       THEN compare' = timer + TimePad /\ prevTimer' = timer + TimePad
       ELSE UNCHANGED <<compare, prevTimer>>
    /\ ints' = TRUE
    /\ UNCHANGED <<timer, pending, schedVars>>

WaitWithoutRecord ==
    /\ IF timer < MaxSleep - TimePad /\ timer + TimePad <= compare
       THEN compare' = timer + TimePad
       ELSE UNCHANGED compare
    /\ ints' = TRUE
    /\ UNCHANGED <<timer, prevTimer, pending, schedVars>>

\* The end shared by every wait: have the compare interrupt come TIME_PAD
\* ticks from now unless it is due before that, then enable interrupts and
\* stay in _nrk_wait_for_scheduler until the scheduler clears suspend_flag.
WaitForScheduler ==
    /\ IF timer < MaxSleep - TimePad /\ timer + TimePad <= compare
       THEN compare' = timer + TimePad /\ prevTimer' = timer + TimePad
       ELSE UNCHANGED <<compare, prevTimer>>
    /\ ints' = TRUE
    /\ UNCHANGED <<timer, pending, schedVars>>

WaitUntilNextPeriod(t) ==
    /\ Call(t, "wait_until_next_period")
    /\ tcb' = [tcb EXCEPT ![t].suspend = TRUE, ![t].numPeriods = 1]
    /\ WaitForScheduler
    /\ UNCHANGED <<queue, semVars, signals, callVars>>

WaitUntilNextNPeriods(t, p) ==
    /\ Call(t, "wait_until_next_n_periods")
    /\ tcb' = [tcb EXCEPT ![t].suspend = TRUE,
                          ![t].numPeriods = IF p = 0 THEN 1 ELSE p]
    /\ WaitForScheduler
    /\ UNCHANGED <<queue, semVars, signals, callVars>>

WaitTicks(t, n) ==
    /\ Call(t, "wait_ticks")
    /\ tcb' = [tcb EXCEPT ![t].suspend = TRUE, ![t].nextWakeup = n + timer]
    /\ WaitForScheduler
    /\ UNCHANGED <<queue, semVars, signals, callVars>>

\* nrk_wait, and nrk_wait_until once it has turned its argument into a delay
Wait(t, n) ==
    /\ Call(t, "wait")
    /\ tcb' = [tcb EXCEPT ![t].suspend = TRUE, ![t].numPeriods = 1,
                          ![t].nextWakeup = n + timer]
    /\ WaitForScheduler
    /\ UNCHANGED <<queue, semVars, signals, callVars>>

WaitUntilTicks(t, n) ==
    /\ Call(t, "wait_until_ticks")
    /\ tcb' = [tcb EXCEPT ![t].suspend = TRUE, ![t].nextWakeup = n]
    /\ WaitForScheduler
    /\ UNCHANGED <<queue, semVars, signals, callVars>>

\* A delay of TIME_PAD ticks or less returns with interrupts still disabled.
SetNextWakeup(t, n) ==
    /\ Call(t, "set_next_wakeup")
    /\ IF n <= TimePad
       THEN ints' = FALSE /\ UNCHANGED tcb
       ELSE /\ tcb' = [tcb EXCEPT ![t].nextWakeup = n + timer]
            /\ ints' = TRUE
    /\ UNCHANGED <<queue, timer, compare, prevTimer, pending, schedVars, semVars,
                   signals, callVars>>

\* Faulty variant: the terminated task stays queued.
TerminateStaysQueued(t) ==
    /\ Call(t, "terminate")
    /\ pc' = [pc EXCEPT ![t] = "dequeued"]
    /\ UNCHANGED <<tcb, queue, timeVars, schedVars, semVars, signals, waitFor>>

\* nrk_terminate_task, with interrupts enabled up to the wait at its end: out
\* of the queue, FINISHED, and into a wait the scheduler does not end.
TerminateDequeue(t) ==
    /\ Call(t, "terminate")
    /\ queue' = Remove(queue, t)
    /\ pc' = [pc EXCEPT ![t] = "dequeued"]
    /\ UNCHANGED <<tcb, timeVars, schedVars, semVars, signals, waitFor>>

TerminateFinish(t) ==
    /\ At(t, "dequeued")
    /\ tcb' = [tcb EXCEPT ![t].state = "FINISHED"]
    /\ pc' = [pc EXCEPT ![t] = "finished"]
    /\ UNCHANGED <<queue, timeVars, schedVars, semVars, signals, waitFor>>

TerminateWait(t) ==
    /\ At(t, "finished")
    /\ tcb' = [tcb EXCEPT ![t].suspend = TRUE, ![t].numPeriods = 1]
    /\ pc' = [pc EXCEPT ![t] = "run"]
    /\ WaitForScheduler
    /\ UNCHANGED <<queue, semVars, signals, waitFor>>
-----------------------------------------------------------------------------
(* Signals.                                                                *)

SignalRegister(t, s) ==
    /\ Call(t, "signal_register")
    /\ s \in signals
    /\ tcb' = [tcb EXCEPT ![t].registered = @ \cup {s}]
    /\ UNCHANGED <<queue, timeVars, schedVars, semVars, signals, callVars>>

SignalUnregister(t, s) ==
    /\ Call(t, "signal_unregister")
    /\ s \in tcb[t].registered
    /\ tcb' = [tcb EXCEPT ![t].registered = @ \ {s}, ![t].active = @ \ {s}]
    /\ UNCHANGED <<queue, timeVars, schedVars, semVars, signals, callVars>>

\* nrk_signal_create: the lowest free number.
SignalCreate(t) ==
    /\ Call(t, "signal_create")
    /\ \E s \in Signal \ signals :
           /\ \A r \in Signal \ signals : s <= r
           /\ signals' = signals \cup {s}
    /\ UNCHANGED <<tcbVars, timeVars, schedVars, semVars, callVars>>

\* A task registered for this signal alone is taken out of its wait, whether
\* or not it was in one; SIG is a macro without parentheses, so ~SIG(s) in
\* the last assignment is ((~1) << s): it keeps only the signals above s.
SignalDelete(t, s) ==
    /\ Call(t, "signal_delete")
    /\ s \in signals
    /\ tcb' = [u \in Task |->
                 LET alone == tcb[u].registered = {s} IN
                 [tcb[u] EXCEPT !.active = IF alone THEN {} ELSE @ \ {s},
                                !.event = IF alone THEN None ELSE @,
                                !.state = IF alone THEN "SUSPENDED" ELSE @,
                                !.registered = @ \ {s}]]
    /\ signals' = {r \in signals : r > s}
    /\ ints' = TRUE
    /\ UNCHANGED <<queue, timer, compare, prevTimer, pending, schedVars, semVars,
                   callVars>>

\* The loop of nrk_event_signal.  A waiting task is made SUSPENDED with
\* next_wakeup 0: the next run of the scheduler makes it READY.  The second
\* test compares a semaphore index with a mask.
Signalled(s) ==
    [u \in Task |->
        IF tcb[u].event = SigEvent /\ s \in tcb[u].active
        THEN [tcb[u] EXCEPT !.state = "SUSPENDED", !.nextWakeup = 0,
                            !.event = None, !.active = {s}]
        ELSE IF tcb[u].event = RsrcEvent /\ tcb[u].active = {s}
        THEN [tcb[u] EXCEPT !.state = "SUSPENDED", !.nextWakeup = 0,
                            !.event = None, !.active = {}]
        ELSE tcb[u]]

EventSignal(t, s) ==
    /\ Call(t, "event_signal")
    /\ s \in signals
    /\ tcb' = Signalled(s)
    /\ ints' = TRUE
    /\ UNCHANGED <<queue, timer, compare, prevTimer, pending, schedVars, semVars,
                   signals, callVars>>

\* The same call from an interrupt handler (the UART receive interrupt), in
\* the middle of a task's call or of the scheduler.
IsrSignal(s) ==
    /\ ints
    /\ s \in IsrSignals \cap signals
    /\ tcb' = Signalled(s)
    /\ UNCHANGED <<queue, timeVars, schedVars, semVars, signals, callVars>>

\* nrk_event_wait up to the wait: interrupts are enabled all along.
EventWait(t, mask) ==
    /\ Call(t, "event_wait")
    /\ mask \in WaitMask[t]
    /\ mask \cap tcb[t].registered # {}
    /\ tcb' = [tcb EXCEPT ![t].active = mask, ![t].event = SigEvent]
    /\ pc' = [pc EXCEPT ![t] = "armed"]
    /\ waitFor' = [waitFor EXCEPT ![t] = mask]
    /\ UNCHANGED <<queue, timeVars, schedVars, semVars, signals>>

\* nrk_wait_until_nw or nrk_wait_until_ticks(0)
EventWaitBlock(t) ==
    /\ At(t, "armed")
    /\ tcb' = IF WakeupSignal \in waitFor[t]
              THEN [tcb EXCEPT ![t].suspend = TRUE, ![t].nw = TRUE]
              ELSE [tcb EXCEPT ![t].suspend = TRUE, ![t].nextWakeup = 0]
    /\ pc' = [pc EXCEPT ![t] = "eventwait"]
    /\ WaitForScheduler
    /\ UNCHANGED <<queue, semVars, signals, waitFor>>

EventWaitReturn(t) ==
    /\ At(t, "eventwait")
    /\ pc' = [pc EXCEPT ![t] = "run"]
    /\ waitFor' = [waitFor EXCEPT ![t] = {}]
    /\ UNCHANGED <<tcbVars, timeVars, schedVars, semVars, signals>>

-----------------------------------------------------------------------------
(* Semaphores.  A task posts what it has pended.                           *)

\* Faulty variant: the unit taken is not counted.
AcquireUncounted(t, r) ==
    /\ UNCHANGED sem
    /\ tcb' = [tcb EXCEPT ![t].ceil = SemCeiling[r], ![t].elevated = TRUE]
    /\ holds' = [holds EXCEPT ![t] = @ \cup {r}]
    /\ ints' = TRUE

Acquire(t, r) ==
    /\ sem' = [sem EXCEPT ![r] = @ - 1]
    /\ tcb' = [tcb EXCEPT ![t].ceil = SemCeiling[r], ![t].elevated = TRUE]
    /\ holds' = [holds EXCEPT ![t] = @ \cup {r}]
    /\ ints' = TRUE

SemPend(t, r) ==
    /\ Call(t, "sem")
    /\ r \notin holds[t]
    /\ IF sem[r] = 0
       THEN /\ tcb' = [tcb EXCEPT ![t].event = IF @ \in {SigEvent, BothEvents}
                                               THEN BothEvents ELSE RsrcEvent,
                                  ![t].active = IndexMask(r)]
            /\ pc' = [pc EXCEPT ![t] = "pendarmed"]
            /\ want' = [want EXCEPT ![t] = r]
            /\ ints' = TRUE
            /\ UNCHANGED <<sem, holds>>
       ELSE Acquire(t, r) /\ UNCHANGED <<pc, want>>
    /\ UNCHANGED <<queue, timer, compare, prevTimer, pending, schedVars, signals,
                   waitFor>>

\* nrk_wait_until_ticks(0) inside nrk_sem_pend
SemPendBlock(t) ==
    /\ At(t, "pendarmed")
    /\ tcb' = [tcb EXCEPT ![t].suspend = TRUE, ![t].nextWakeup = 0]
    /\ pc' = [pc EXCEPT ![t] = "pendwait"]
    /\ WaitForScheduler
    /\ UNCHANGED <<queue, semVars, signals, waitFor>>

\* After the wait the value is decremented without another look at it.
SemPendTake(t) ==
    /\ At(t, "pendwait")
    /\ Acquire(t, want[t])
    /\ pc' = [pc EXCEPT ![t] = "run"]
    /\ want' = [want EXCEPT ![t] = 0]
    /\ UNCHANGED <<queue, timer, compare, prevTimer, pending, schedVars, signals,
                   waitFor>>

\* nrk_sem_post reads the value before it disables interrupts.
SemPost(t, r) ==
    /\ Call(t, "sem")
    /\ r \in holds[t]
    /\ IF sem[r] < SemCount[r]
       THEN /\ pc' = [pc EXCEPT ![t] = "posting"]
            /\ want' = [want EXCEPT ![t] = r]
            /\ UNCHANGED holds
       ELSE /\ holds' = [holds EXCEPT ![t] = @ \ {r}]
            /\ UNCHANGED <<pc, want>>
    /\ UNCHANGED <<tcbVars, timeVars, schedVars, sem, signals, waitFor>>

\* Faulty variant: the waiters are looked for under the other kind of event.
WokenAsSignal(tc, r) ==
    IF tc.event = SigEvent /\ tc.active = IndexMask(r)
    THEN [tc EXCEPT !.state = "SUSPENDED", !.nextWakeup = 0, !.event = None, !.active = {}]
    ELSE tc

\* The loop of nrk_sem_post wakes every task waiting for the semaphore.
WokenByPost(tc, r) ==
    IF tc.event = RsrcEvent /\ tc.active = IndexMask(r)
    THEN [tc EXCEPT !.state = "SUSPENDED", !.nextWakeup = 0, !.event = None, !.active = {}]
    ELSE tc

SemPostWake(t) ==
    LET r == want[t] IN
    /\ At(t, "posting")
    /\ sem' = [sem EXCEPT ![r] = @ + 1]
    /\ tcb' = [u \in Task |->
          WokenByPost([tcb[u] EXCEPT !.elevated = IF u = t THEN FALSE ELSE @], r)]
    /\ holds' = [holds EXCEPT ![t] = @ \ {r}]
    /\ pc' = [pc EXCEPT ![t] = "run"]
    /\ want' = [want EXCEPT ![t] = 0]
    /\ ints' = TRUE
    /\ UNCHANGED <<queue, timer, compare, prevTimer, pending, schedVars, signals,
                   waitFor>>
-----------------------------------------------------------------------------
(* The scheduler, on the compare interrupt.                                *)

Blocking(tc) == tc.suspend /\ tc.state # "FINISHED"

\* Faulty variant: a task that left through an event call waits for an event,
\* whether or not the event has come meanwhile.
SuspendedForEvent(tc) ==
    IF pc[cur] \in {"eventwait", "pendwait"} /\ ~tc.nw
    THEN [tc EXCEPT !.state = "EVENT_SUSPENDED"]
    ELSE [tc EXCEPT !.state = "SUSPENDED",
                    !.nextWakeup = IF @ = 0 THEN tc.nextPeriod ELSE @]

\* nrk_scheduler.c:131-152: the current task stops waiting to be suspended.
Suspended(tc) ==
    IF tc.event = RsrcEvent \/ (tc.event # None /\ ~tc.nw)
    THEN [tc EXCEPT !.state = "EVENT_SUSPENDED"]
    ELSE IF tc.event # None
    THEN [tc EXCEPT !.state = "SUSPENDED"]
    ELSE [tc EXCEPT !.state = "SUSPENDED", !.nw = FALSE,
                    !.nextWakeup = IF @ = 0 THEN tc.nextPeriod ELSE @]

Accounted(tc) == Reserve[cur] # 0 /\ tc.state # "FINISHED"

\* Faulty variant: the reserve passes below 0.
LeftUnchecked(tc) == tc.cpuRemaining - prevTimer

Left(tc) == IF tc.cpuRemaining < prevTimer THEN 0 ELSE tc.cpuRemaining - prevTimer

CurrentAfterWait == IF Blocking(tcb[cur]) THEN Suspended(tcb[cur]) ELSE tcb[cur]

ReserveUsedUp == Accounted(CurrentAfterWait) /\ Left(CurrentAfterWait) = 0

\* The interrupt is served: from the reset of the timer to the loop.
SchedEnter ==
    /\ pending /\ ints /\ sched = Off
    /\ ~ReserveUsedUp
    /\ pending' = FALSE
    /\ compare' = MaxSleep
    /\ queue' = IF Blocking(tcb[cur]) THEN Remove(queue, cur) ELSE queue
    /\ tcb' = [tcb EXCEPT ![cur] =
                  IF Accounted(CurrentAfterWait)
                  THEN [CurrentAfterWait EXCEPT !.cpuRemaining = Left(CurrentAfterWait)]
                  ELSE CurrentAfterWait]
    /\ sched' = 0
    /\ nextWake' = MaxSleep            \* 60000, which SchedPick caps
    /\ UNCHANGED <<cur, activated, timer, prevTimer, ints, semVars, signals, callVars>>

\* Faulty variant: an overdue wakeup is left as it was.
AgedUnlessOverdue(w) == IF w >= prevTimer THEN w - prevTimer ELSE w

\* What the loop does to the clocks of a task: next_wakeup, next_period.
\* The remainder by a period of 0 is what the division routine of the AVR
\* library leaves, the dividend.
AgedWakeup(w) == IF w >= prevTimer THEN w - prevTimer ELSE 0

AgedPeriod(p, period) ==
    LET aged == IF p >= prevTimer THEN p - prevTimer
                ELSE IF period > prevTimer THEN period - prevTimer
                ELSE IF period = 0 THEN prevTimer ELSE prevTimer % period
    IN  IF aged = 0 THEN period ELSE aged

Aged(t) ==
    IF t = Idle \/ tcb[t].state = "FINISHED"
    THEN [tcb[t] EXCEPT !.suspend = FALSE]
    ELSE [tcb[t] EXCEPT !.suspend = FALSE,
                        !.nextWakeup = AgedWakeup(@),
                        !.nextPeriod = AgedPeriod(@, Period[t])]

\* Faulty variant: the number of periods left is not reset.
AwokenAgain(t, tc) ==
    LET rest == Period[t] * (tc.numPeriods - 1)
    IN  IF tc.numPeriods = 1
        THEN [tc EXCEPT !.state = "READY", !.event = None, !.nw = FALSE,
                        !.nextWakeup = tc.nextPeriod]
        ELSE [tc EXCEPT !.event = None, !.nw = FALSE, !.nextPeriod = rest,
                        !.nextWakeup = rest]

\* A sleeper whose time has come is made READY, or, when it asked to sleep
\* for several periods, starts the rest of its sleep.
Awoken(t, tc) ==
    LET common == [tc EXCEPT !.active = IF tc.event # None /\ tc.nw
                                        THEN {WakeupSignal} ELSE @,
                             !.event = None, !.nw = FALSE,
                             !.cpuRemaining = Reserve[t]]
        rest == Period[t] * (tc.numPeriods - 1)
    IN  IF tc.numPeriods = 1
        THEN [common EXCEPT !.state = "READY",
                            !.nextWakeup = IF Period[t] = 0 THEN MaxSleep
                                           ELSE tc.nextPeriod]
        ELSE [common EXCEPT !.numPeriods = 1,
                            !.nextPeriod = rest,
                            !.nextWakeup = IF Period[t] = 0 THEN MaxSleep ELSE rest]

\* One iteration of the loop over the tasks.
SchedTask ==
    LET t     == sched
        aged  == Aged(t)
        due   == aged.state = "SUSPENDED" /\ aged.nextWakeup = 0
        after == IF due THEN Awoken(t, aged) ELSE aged
    IN  /\ sched \in Task
        /\ tcb' = [tcb EXCEPT ![t] = after]
        /\ queue' = IF due /\ aged.numPeriods = 1 THEN AddReady(queue, t, tcb) ELSE queue
        /\ nextWake' = IF /\ aged.state = "SUSPENDED"
                         /\ after.nextWakeup # 0
                         /\ after.nextWakeup < nextWake
                       THEN after.nextWakeup ELSE nextWake
        /\ sched' = sched + 1
        /\ UNCHANGED <<cur, activated, timeVars, semVars, signals, callVars>>

\* The head of the queue runs next, until the earliest sleeper is due, its
\* reserve is used up, or MAX_SCHED_WAKEUP_TIME.  A wakeup one tick away is
\* too near to be set: it becomes two.
SchedPick ==
    LET head  == queue[1]
        until == IF /\ head # Idle
                    /\ Reserve[head] # 0
                    /\ tcb[head].cpuRemaining < nextWake
                 THEN tcb[head].cpuRemaining ELSE nextWake
        set   == IF timer + 1 >= until THEN timer + 2 ELSE until
    IN  /\ sched = PickStep
        /\ cur' = head
        /\ compare' = ((set - 1) % TimerSize) + 1
        /\ prevTimer' = set % TimerSize
        /\ sched' = Off
        /\ nextWake' = MaxSleep
        /\ UNCHANGED <<tcbVars, activated, timer, ints, pending, semVars, signals, callVars>>

\* nrk_error_handle under NRK_REBOOT_ON_ERROR (a reserve used up), and the
\* hardware watchdog when the scheduler is kept from running: the node
\* starts again from nrk_init.
Boot ==
    /\ tcb' = BootTcb
    /\ queue' = <<Idle>>
    /\ cur' = Idle
    /\ timer' = 0
    /\ prevTimer' = 0
    /\ compare' = StartTimer + 1
    /\ ints' = FALSE
    /\ pending' = FALSE
    /\ sched' = Booting
    /\ activated' = 1
    /\ nextWake' = MaxSleep
    /\ signals' = Signal
    /\ sem' = SemCount
    /\ pc' = [t \in Task |-> "run"]
    /\ waitFor' = [t \in Task |-> {}]
    /\ want' = [t \in Task |-> 0]
    /\ holds' = [t \in Task |-> {}]

ReserveViolated == pending /\ ints /\ sched = Off /\ ReserveUsedUp /\ Boot

\* Faulty variant: the watchdog is not enabled.
WatchdogOff == FALSE

WatchdogReset == pending /\ ~ints /\ Boot

-----------------------------------------------------------------------------
Scheduler == SchedEnter \/ SchedTask \/ SchedPick \/ ReserveViolated

TaskStep(t) ==
    \/ WaitUntilNextPeriod(t)
    \/ \E p \in Periods : WaitUntilNextNPeriods(t, p)
    \/ \E n \in Delay : \/ WaitTicks(t, n)
                        \/ Wait(t, n)
                        \/ WaitUntilTicks(t, n)
                        \/ SetNextWakeup(t, n)
    \/ TerminateDequeue(t) \/ TerminateFinish(t) \/ TerminateWait(t)
    \/ \E s \in Signal : \/ SignalRegister(t, s)
                         \/ SignalUnregister(t, s)
                         \/ SignalDelete(t, s)
                         \/ EventSignal(t, s)
    \/ SignalCreate(t)
    \/ \E mask \in WaitMask[t] : EventWait(t, mask)
    \/ EventWaitBlock(t) \/ EventWaitReturn(t)
    \/ \E r \in Sem : SemPend(t, r) \/ SemPost(t, r)
    \/ SemPendBlock(t) \/ SemPendTake(t) \/ SemPostWake(t)

Startup == ActivateTask \/ Start

Next ==
    \/ Startup
    \/ Tick
    \/ Scheduler
    \/ WatchdogReset
    \/ \E t \in Task : TaskStep(t)
    \/ \E s \in IsrSignals : IsrSignal(s)

\* The node starts, the timer counts and the interrupt it raises is served, by
\* the scheduler or, when it is kept disabled, by the watchdog; nothing is
\* assumed of the tasks.
Fairness == WF_vars(Startup) /\ WF_vars(Tick) /\ WF_vars(Scheduler) /\ WF_vars(WatchdogReset)

Spec == Init /\ [][Next]_vars /\ Fairness
-----------------------------------------------------------------------------
TaskState == {"READY", "SUSPENDED", "EVENT_SUSPENDED", "FINISHED"}
Point == {"run", "armed", "eventwait", "pendarmed", "pendwait", "posting",
          "dequeued", "finished"}

Tcb == [state : TaskState, suspend : BOOLEAN, event : None..BothEvents, nw : BOOLEAN,
        active : SUBSET Nat, registered : SUBSET Signal,
        nextWakeup : Nat, nextPeriod : Nat, numPeriods : Nat \ {0}, cpuRemaining : Nat,
        elevated : BOOLEAN, ceil : Nat]

TcbTypeOK == tcb \in [Task -> Tcb]
QueueTypeOK == queue \in Seq(Task) /\ Len(queue) <= PoolSize
TimeTypeOK == /\ timer \in Nat /\ compare \in Nat /\ prevTimer \in Nat
              /\ ints \in BOOLEAN /\ pending \in BOOLEAN
SchedTypeOK == /\ cur \in Task
               /\ sched \in {Booting, Off} \cup 0..PickStep
               /\ activated \in Nat /\ nextWake \in Nat
CallTypeOK == /\ signals \subseteq Signal
              /\ pc \in [Task -> Point]
              /\ waitFor \in [Task -> SUBSET Signal]
SemTypeOK == /\ sem \in [Sem -> Int]
             /\ want \in [Task -> Sem \cup {0}]
             /\ holds \in [Task -> SUBSET Sem]

\* Types, the ranges of the clocks, and the bound of the pool: the counters
\* the scheduler subtracts from are unsigned and never pass below 0
\* (nrk_scheduler.c:161, 195, 204).
TypeOK == /\ TcbTypeOK /\ QueueTypeOK /\ TimeTypeOK
          /\ SchedTypeOK /\ CallTypeOK /\ SemTypeOK

\* The idle task is queued at the end, once, whatever the other tasks do: the
\* queue is never empty, so nrk_get_high_ready_task_ID and the removal at the
\* head (nrk_task.c:190-191) never meet a NULL head, and an insertion never
\* falls off the list (nrk_task.c:137-143).
IdleLast == IdleAtEnd(queue)

\* Without signals and semaphores the queue holds the READY tasks and each of
\* them once (nrk_task.c:60-222, nrk_scheduler.c:131-152, 219-239).
QueueExact == /\ \A t \in Task : tcb[t].state = "READY" <=> t \in Queued(queue)
              /\ \A t \in Task : Cardinality(Occurrences(queue, t)) <= 1

\* While tasks run, no queued task has a higher priority than the running
\* one (nrk_scheduler.c:268-270 with the order nrk_add_to_readyQ keeps).
HighestRuns == sched = Off => \A t \in Queued(queue) : Prio[t] <= Prio[cur]

\* The scheduler never sets the next interrupt later than the wakeup of the
\* nearest sleeper, two ticks when that is nearer than it can set, and the
\* call of another task never puts it off (nrk_scheduler.c:254-259, 278-373;
\* nrk_task.c:301-307).
WakeOnTime ==
    [][/\ sched = PickStep /\ sched' = Off =>
            \A t \in Task :
                tcb[t].state = "SUSPENDED" /\ tcb[t].nextWakeup # 0 =>
                    compare' <= tcb[t].nextWakeup \/ compare' = timer + 2
       /\ sched = Off /\ ~pending => compare' <= compare]_vars

\* The ticks a run of the scheduler takes off every clock are the ticks that
\* went by since the run before it.  Only the first period after the start is
\* not counted, none of it, unless a task waits in it: then it ends early and
\* is counted as every other (nrk_task.c:305-306, nrk_scheduler.c:357-377,
\* nrk_timer.c:55-96, 199-206).
TicksAccounted ==
    [][SchedEnter => \/ prevTimer = compare
                     \/ prevTimer = 0 /\ compare = StartTimer + 1]_vars

\* Tasks of one priority take turns: one that arrives goes behind its equals,
\* so a task the timer interrupts is resumed before them and loses the CPU
\* only to a higher priority or by asking to wait (nrk_task.c:79-94).
EqualsTakeTurns ==
    [][\A t \in Queued(queue') \ Queued(queue), u \in Queued(queue) :
          Prio[t] = Prio[u] => FirstPosition(queue', u) < FirstPosition(queue', t)]_vars

\* No task sleeps for ever, whatever the other tasks do with the CPU: each run
\* of the scheduler brings its wakeup nearer (nrk_scheduler.c:189-262).
SleeperWakes ==
    \A t \in Task : tcb[t].state = "SUSPENDED" ~> tcb[t].state # "SUSPENDED"

\* A terminated task is off the ready queue: nothing runs it again
\* (nrk_task.c:278-286, nrk_scheduler.c:131, 193).
FinishedGone == \A t \in Task : tcb[t].state = "FINISHED" => t \notin Queued(queue)

\* Interrupts do not stay disabled: after the error return of
\* nrk_set_next_wakeup (nrk_task.c:415-416) another call of the kernel enables
\* them, or the watchdog the scheduler no longer resets starts the node again.
InterruptsComeBack == ~ints ~> ints

\* A task that waits for an event can be reached by one: it is armed for a
\* signal or a semaphore that exists (nrk_scheduler.c:135-138 decides after
\* the call armed it, at a time when a signal may have disarmed it again).
WaiterReachable ==
    \A t \in Task : tcb[t].state = "EVENT_SUSPENDED" =>
        \/ tcb[t].event = SigEvent /\ tcb[t].active \cap signals # {}
        \/ tcb[t].event = RsrcEvent /\ \E r \in Sem : tcb[t].active = IndexMask(r)

\* The value of a semaphore and its holders add up to its count: no unit is
\* lost or made (nrk_events.c:238-247, 264-269).
SemAccounting ==
    \A r \in Sem : sem[r] + Cardinality({t \in Task : r \in holds[t]}) = SemCount[r]

\* No task stays in the wait of nrk_sem_pend while the semaphore is free
\* (nrk_events.c:238-244 against 267-283).
NoLostSemWakeup ==
    \A t \in Task, r \in Sem :
        tcb[t].state = "EVENT_SUSPENDED" /\ tcb[t].event = RsrcEvent
            /\ pc[t] = "pendwait" /\ want[t] = r
        => sem[r] <= 0
=============================================================================
