CONSTANTS
    Task = {0, 1, 2}
    Idle = 0
    Prio <- MCPrio
    PoolSize = 4
    MaxSleep = 4
    TimePad = 2
    StartTimer = 4
    TimerSize = 6
    Period <- MCPeriod
    Offset <- MCOffset
    Reserve <- FaultReserve
    Calls <- SemCalls
    Delay = {0, 3}
    Periods = {2}
    Signal = {0}
    WaitMask <- NoMasks
    IsrSignals = {}
    Sem = {0}
    SemCount <- OneSem
    SemCeiling <- CeilSem
SPECIFICATION Spec
INVARIANTS TypeOK SemAccounting NoLostSemWakeup
