CONSTANTS
    Task = {0, 1, 2, 3}
    Idle = 0
    Prio <- MCPrio
    PoolSize = 4
    Ceiling = {2}
    Wdt = {0}
    WdtPeriod <- MCWdtPeriod
    SecTicks = 3
    SecSplits = {2, 3}
    Half = 2
    WakeupLimit = 2
    MaxSecs = 8
    MaxCallTicks = 1
SPECIFICATION MCSpec
INVARIANTS ListSound NoNullWrite UnfedExpires
PROPERTIES ImplementsQueue FedIsNotRestarted
