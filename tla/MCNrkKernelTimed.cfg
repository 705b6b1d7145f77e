CONSTANTS
    Task = {0, 1, 2, 3}
    Idle = 0
    Prio <- TimedPrio
    PoolSize = 5
    MaxSleep = 6
    TimePad = 2
    StartTimer = 6
    TimerSize = 8
    Period <- TimedPeriod
    Offset <- TimedOffset
    Reserve <- NoReserve
    Calls <- TimedCalls
    Delay = {0, 3, 4}
    Periods = {2}
    Signal = {0}
    WaitMask <- NoMasks
    IsrSignals = {}
    Sem = {}
    SemCount <- NoSem
    SemCeiling <- NoSem
SPECIFICATION Spec
INVARIANT QueueExact
PROPERTIES WakeOnTime TicksAccounted EqualsTakeTurns SleeperWakes
