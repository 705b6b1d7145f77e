------------------------------ MODULE NrkSwWdt ------------------------------
(***************************************************************************)
(* The system time of Nano-RK (nrk_time.c) and the software watchdogs that *)
(* are measured with it (nrk_sw_wdt.c).  A task reads the time and writes  *)
(* the deadline of its watchdog without disabling interrupts; the          *)
(* scheduler, on the timer interrupt, may come between any two of these    *)
(* steps.  It checks the watchdogs before it adds the elapsed ticks to the *)
(* system time.                                                            *)
(*                                                                         *)
(* Time is counted in kernel ticks, a second is SecTicks of them.  secs    *)
(* and nano_secs have 32 bits, and the processor moves 8 at a time, the    *)
(* lowest first: every access is in two parts, with an interrupt between.  *)
(* After which byte of secs it comes is open; a second interrupt in one    *)
(* access changes nothing, for no two bytes of secs carry within 256 s.    *)
(***************************************************************************)
EXTENDS Naturals

CONSTANTS
    Wdt,          \* 0..NRK_MAX_SW_WDT - 1
    WdtPeriod,    \* periods nrk_sw_wdt_init is given: [secs, nanos]
    SecTicks,     \* TICKS_PER_SEC
    SecSplits,    \* values the lower bytes of secs can have: 2^8, 2^16, 2^24
    Half,         \* values of the lower bytes of nano_secs
    WakeupLimit,  \* MAX_SCHED_WAKEUP_TIME
    MaxSecs,      \* bound: seconds after which the clock stands
    MaxCallTicks  \* bound: ticks a call takes with what interrupts it

ASSUME WdtAssumption ==
    /\ Wdt \subseteq Nat
    /\ SecTicks \in Nat \ {0} /\ Half \in Nat \ {0} /\ Half <= SecTicks
    /\ SecSplits \subseteq Nat \ {0}
    /\ WakeupLimit \in Nat \ {0} /\ MaxSecs \in Nat /\ MaxCallTicks \in Nat
    /\ WdtPeriod \subseteq [secs : Nat, nanos : 0..SecTicks - 1]

VARIABLES
    sysTime,      \* nrk_system_time
    osTimer,      \* TCNT2
    wdts,         \* sw_wdts
    call,         \* the call of a task: which, of which watchdog, where it is
    now,          \* its local time
    begun,        \* history: when the call began
    ahead,        \* history: seconds a carry between two bytes can have added
                  \* to the time the call has read
    fed           \* history: when the last call of each watchdog began and
                  \* ended, and its ahead

clockVars == <<sysTime, osTimer>>
callingVars == <<call, now, begun, ahead>>
wdtVars   == <<clockVars, wdts, callingVars, fed>>

Ticks(t) == t.secs * SecTicks + t.nanos
Clock    == Ticks(sysTime) + osTimer      \* the true time, in ticks
Stamp    == [secs |-> 0, nanos |-> 0]
NoCall   == [name |-> "none", id |-> 0, at |-> "idle", split |-> 1]
NotFed   == [from |-> 0, to |-> 0, ahead |-> 0]

\* nrk_time_compact_nanos, as a whole
Compact(t) == [secs |-> t.secs + t.nanos \div SecTicks, nanos |-> t.nanos % SecTicks]

\* nrk_time_sub(high, low) does not return NRK_ERROR.
NotAfter(low, high) == \/ low.secs < high.secs
                       \/ low.secs = high.secs /\ low.nanos <= high.nanos

Unused == [active |-> FALSE, next |-> Stamp, period |-> Stamp]

\* _nrk_sw_wdt_init, nrk_time_set(0, 0), and the first run of the scheduler,
\* which adds no tick.
WdtInit ==
    /\ sysTime = Stamp /\ osTimer = 0
    /\ wdts = [d \in Wdt |-> Unused]
    /\ call = NoCall /\ now = Stamp /\ begun = 0 /\ ahead = 0
    /\ fed = [d \in Wdt |-> NotFed]

-----------------------------------------------------------------------------
Idling == call.at = "idle"

\* nrk_sw_wdt_init, nrk_sw_wdt_stop
InitWdt(d, p) ==
    /\ Idling
    /\ wdts' = [wdts EXCEPT ![d].period = p, ![d].active = FALSE]
    /\ UNCHANGED <<clockVars, callingVars, fed>>

StopWdt(d) ==
    /\ Idling /\ wdts[d].active
    /\ wdts' = [wdts EXCEPT ![d].active = FALSE]
    /\ UNCHANGED <<clockVars, callingVars, fed>>

\* nrk_sw_wdt_start and nrk_sw_wdt_update, up to nrk_time_get.
Call(name, d) ==
    /\ Idling /\ wdts[d].period # Stamp
    /\ call' = [name |-> name, id |-> d, at |-> "secs", split |-> 1]
    /\ begun' = Clock
    /\ UNCHANGED <<clockVars, wdts, now, ahead, fed>>

Goto(point) == call' = [call EXCEPT !.at = point, !.split = 1]

\* The upper bytes of a number whose lower ones have m values; a number whose
\* lower bytes have been overwritten.
Upper(n, m)          == (n \div m) * m
LowerFrom(n, old, m) == (n % m) + Upper(old, m)

\* nrk_time_get: the seconds ...
ReadSecsLow ==
    /\ call.at = "secs"
    /\ \E m \in SecSplits :
          /\ now' = [secs |-> sysTime.secs % m, nanos |-> 0]
          /\ call' = [call EXCEPT !.at = "secs high", !.split = m]
    /\ UNCHANGED <<clockVars, wdts, begun, ahead, fed>>

ReadSecsHigh ==
    /\ call.at = "secs high"
    /\ now' = [now EXCEPT !.secs = @ + Upper(sysTime.secs, call.split)]
    /\ ahead' = IF now'.secs > sysTime.secs THEN call.split - 1 ELSE 0
    /\ Goto("low")
    /\ UNCHANGED <<clockVars, wdts, begun, fed>>

\* ... the nanoseconds ...
ReadNanosLow ==
    /\ call.at = "low"
    /\ now' = [now EXCEPT !.nanos = sysTime.nanos % Half]
    /\ Goto("high")
    /\ UNCHANGED <<clockVars, wdts, begun, ahead, fed>>

ReadNanosHigh ==
    /\ call.at = "high"
    /\ now' = [now EXCEPT !.nanos = @ + Upper(sysTime.nanos, Half)]
    /\ Goto("timer")
    /\ UNCHANGED <<clockVars, wdts, begun, ahead, fed>>

\* ... and the timer.
ReadTimer ==
    /\ call.at = "timer"
    /\ now' = Compact([now EXCEPT !.nanos = @ + osTimer])
    /\ Goto("write secs")
    /\ UNCHANGED <<clockVars, wdts, begun, ahead, fed>>

\* The deadline that a call writes, before its nanoseconds are compacted.
NewSecs  == now.secs + wdts[call.id].period.secs
NewNanos == now.nanos + wdts[call.id].period.nanos

\* A step of the call writes n to the seconds, or the nanoseconds, of the
\* deadline.
WriteSecs(n)  == wdts' = [wdts EXCEPT ![call.id].next.secs = n]
WriteNanos(n) == wdts' = [wdts EXCEPT ![call.id].next.nanos = n]

OldSecs  == wdts[call.id].next.secs
OldNanos == wdts[call.id].next.nanos

\* Faulty variant: the seconds of an active deadline are kept.
WriteSecsOnce ==
    /\ call.at = "write secs"
    /\ IF wdts[call.id].active THEN UNCHANGED wdts ELSE WriteSecs(NewSecs)
    /\ Goto("write nanos")
    /\ UNCHANGED <<clockVars, now, begun, ahead, fed>>

\* The deadline is written, seconds first ...
WriteSecsLow ==
    /\ call.at = "write secs"
    /\ \E m \in SecSplits : WriteSecs(LowerFrom(NewSecs, OldSecs, m))
    /\ Goto("write secs high")
    /\ UNCHANGED <<clockVars, now, begun, ahead, fed>>

WriteSecsHigh ==
    /\ call.at = "write secs high"
    /\ WriteSecs(NewSecs)
    /\ Goto("write nanos")
    /\ UNCHANGED <<clockVars, now, begun, ahead, fed>>

\* ... the nanoseconds, which only nrk_sw_wdt_update then compacts ...
WriteNanosLow ==
    /\ call.at = "write nanos"
    /\ WriteNanos(LowerFrom(NewNanos, OldNanos, Half))
    /\ Goto("write nanos high")
    /\ UNCHANGED <<clockVars, now, begun, ahead, fed>>

WriteNanosHigh ==
    /\ call.at = "write nanos high"
    /\ WriteNanos(NewNanos)
    /\ IF call.name = "update" THEN Goto("compact") ELSE Goto("activate")
    /\ UNCHANGED <<clockVars, now, begun, ahead, fed>>

\* ... a second of them, for they are less than two, into the seconds.
CompactLow ==
    /\ call.at = "compact"
    /\ IF NewNanos >= SecTicks
       THEN WriteNanos(LowerFrom(NewNanos - SecTicks, OldNanos, Half)) /\ Goto("compact high")
       ELSE UNCHANGED wdts /\ Goto("activate")
    /\ UNCHANGED <<clockVars, now, begun, ahead, fed>>

CompactHigh ==
    /\ call.at = "compact high"
    /\ WriteNanos(NewNanos - SecTicks)
    /\ Goto("carry")
    /\ UNCHANGED <<clockVars, now, begun, ahead, fed>>

CarryLow ==
    /\ call.at = "carry"
    /\ \E m \in SecSplits : WriteSecs(LowerFrom(NewSecs + 1, OldSecs, m))
    /\ Goto("carry high")
    /\ UNCHANGED <<clockVars, now, begun, ahead, fed>>

CarryHigh ==
    /\ call.at = "carry high"
    /\ WriteSecs(NewSecs + 1)
    /\ Goto("activate")
    /\ UNCHANGED <<clockVars, now, begun, ahead, fed>>

Activate ==
    /\ call.at = "activate"
    /\ wdts' = [wdts EXCEPT ![call.id].active = TRUE]
    /\ fed' = [fed EXCEPT ![call.id] = [from |-> begun, to |-> Clock, ahead |-> ahead]]
    /\ call' = NoCall /\ now' = Stamp /\ begun' = 0 /\ ahead' = 0
    /\ UNCHANGED clockVars

CallStep == \/ ReadSecsLow \/ ReadSecsHigh \/ ReadNanosLow \/ ReadNanosHigh \/ ReadTimer
            \/ WriteSecsLow \/ WriteSecsHigh \/ WriteNanosLow \/ WriteNanosHigh
            \/ CompactLow \/ CompactHigh \/ CarryLow \/ CarryHigh \/ Activate

-----------------------------------------------------------------------------
\* The timer counts up to its compare value, WakeupLimit at most.
TimerTick ==
    /\ osTimer < WakeupLimit /\ sysTime.secs < MaxSecs
    /\ ~Idling => Clock < begun + MaxCallTicks
    /\ osTimer' = osTimer + 1
    /\ UNCHANGED <<sysTime, wdts, callingVars, fed>>

\* Faulty variant: deadlines are compared by their seconds alone.
ExpiredBySeconds(d) == wdts[d].active /\ sysTime.secs > wdts[d].next.secs + 1

\* The test of _nrk_sw_wdt_check: the timer has just been reset, the ticks it
\* counted are not in the system time yet.
Expired(d) == wdts[d].active /\ ~NotAfter(sysTime, wdts[d].next)

\* The scheduler, when no watchdog has expired.
SchedulerRuns ==
    /\ osTimer > 0
    /\ \A d \in Wdt : ~Expired(d)
    /\ sysTime' = Compact([sysTime EXCEPT !.nanos = @ + osTimer])
    /\ osTimer' = 0
    /\ UNCHANGED <<wdts, callingVars, fed>>

\* nrk_halt, for no program sets an error function: the hardware watchdog
\* starts the node again.
WdtRestart ==
    /\ osTimer > 0
    /\ \E d \in Wdt : Expired(d)
    /\ sysTime' = Stamp /\ osTimer' = 0
    /\ wdts' = [d \in Wdt |-> Unused]
    /\ call' = NoCall /\ now' = Stamp /\ begun' = 0 /\ ahead' = 0
    /\ fed' = [d \in Wdt |-> NotFed]

WdtCall == \E d \in Wdt : \/ \E p \in WdtPeriod : InitWdt(d, p)
                          \/ StopWdt(d)
                          \/ Call("start", d)
                          \/ Call("update", d)

WdtNext == WdtCall \/ CallStep \/ TimerTick \/ SchedulerRuns \/ WdtRestart

WdtSpec == WdtInit /\ [][WdtNext]_wdtVars

-----------------------------------------------------------------------------
Time == [secs : Nat, nanos : Nat]

WdtTypeOK ==
    /\ sysTime \in [secs : Nat, nanos : 0..SecTicks - 1] /\ osTimer \in 0..WakeupLimit
    /\ wdts \in [Wdt -> [active : BOOLEAN, next : Time, period : Time]]
    /\ call \in [name : {"none", "start", "update"}, id : Nat,
                at : {"idle", "secs", "secs high", "low", "high", "timer",
                      "write secs", "write secs high", "write nanos", "write nanos high",
                      "compact", "compact high", "carry", "carry high", "activate"},
                split : SecSplits \cup {1}]
    /\ now \in Time /\ begun \in Nat /\ ahead \in Nat
    /\ fed \in [Wdt -> [from : Nat, to : Nat, ahead : Nat]]

\* The seconds of the deadline of d are written in part, and so are wrong: the
\* upper bytes are to change.
HalfWritten(d) ==
    /\ call.id = d
    /\ \/ call.at = "write secs high" /\ OldSecs # NewSecs
       \/ call.at = "carry high" /\ OldSecs # NewSecs + 1

\* A node that feeds its watchdog in time restarts only if the timer interrupt
\* finds the seconds of a deadline half written.  Else a watchdog that expires
\* was not fed for its period, counting off what the unguarded reads and writes
\* may take away: a second that turns between the reads, another that
\* nrk_sw_wdt_start leaves in the nanoseconds or that nrk_sw_wdt_update has not
\* carried yet, and the ticks of a timer that is reset between the reads
\* (nrk_sw_wdt.c:35-53, 74-96; nrk_time.c:54-64, 117-124).
FedIsNotRestarted ==
    [][WdtRestart =>
        \E d \in Wdt : /\ Expired(d)
                       /\ \/ HalfWritten(d)
                          \/ Clock - fed[d].from + 2 * SecTicks + WakeupLimit
                               > Ticks(wdts[d].period)]_wdtVars

\* An active watchdog that is not fed expires: it is never older than its
\* period by more than two runs of the scheduler, one because the check reads
\* the time before the elapsed ticks are added to it, and what a read in parts
\* may be ahead, of nano_secs always and of secs when its bytes carry between
\* the two parts (nrk_scheduler.c:79-81, 103-104; nrk_time.c:54-64, 72-94).
UnfedExpires ==
    \A d \in Wdt : wdts[d].active /\ (Idling \/ call.id # d) =>
        Clock <= fed[d].to + Ticks(wdts[d].period) + 2 * WakeupLimit + Half
                 + fed[d].ahead * SecTicks
=============================================================================
