CONSTANTS
    Task = {0, 1, 2}
    Idle = 0
    Prio <- MCPrio
    PoolSize = 4
    MaxSleep = 4
    TimePad = 2
    StartTimer = 4
    TimerSize = 5
    Period <- FaultPeriod
    Offset <- NoOffset
    Reserve <- NoReserve
    Calls <- FaultCalls
    Delay = {2, 3}
    Periods = {2}
    Signal = {0, 1}
    WaitMask <- FaultMasks
    IsrSignals = {}
    Sem = {}
    SemCount <- NoSem
    SemCeiling <- NoSem
SPECIFICATION Spec
INVARIANTS IdleLast FinishedGone
PROPERTY InterruptsComeBack
