CONSTANTS
    Task = {0, 1, 2}
    Idle = 0
    Prio <- MCPrio
    PoolSize = 4
    MaxSleep = 4
    TimePad = 2
    StartTimer = 4
    TimerSize = 6
    Period <- MCPeriod
    Offset <- MCOffset
    Reserve <- NoReserve
    Calls <- EventCalls
    Delay = {3}
    Periods = {2}
    Signal = {0, 1}
    WaitMask <- EventMasks
    IsrSignals = {1}
    Sem = {}
    SemCount <- NoSem
    SemCeiling <- NoSem
SPECIFICATION Spec
INVARIANTS HighestRuns WaiterReachable
PROPERTY SleeperWakes
