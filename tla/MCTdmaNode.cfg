CONSTANTS
    SeqMod = 3
    WdtLimit = 24
    DataSize = 3
    BufferSize = 5
    MaxBusFaults = 2
    cadence = cadence
    wheel1 = wheel1
    wheel2 = wheel2
    Client = {cadence, wheel1, wheel2}
    Host = Host
    TxSched <- MCTxSched
    SlotsPerCycle = 2
    SlotLength = 2
    Guard = 3
    Jitter = 1
    RestartTime = 8
    MaxRestarts = 1
SPECIFICATION MCSpec
INVARIANTS TypesOK OneSampleHandedOver NeverSpins
INVARIANTS FaultStaysInSample SlotsAreApart AwakeForBeacon MisledByMiss
PROPERTIES SendsSamples NodeTransmitsAgain NodeSamplesAgain NodesSendInSlot
