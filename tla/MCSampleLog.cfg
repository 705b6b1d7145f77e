CONSTANTS
    Mac = {1, 2}
    SlotNo = 3
    SlotLen = 2
    BeaconSum = 7
    MaxNodes = 5
    SeqMod = 3
    MaxSample <- MCMaxSample
    MaxWire = 1
SPECIFICATION Spec
INVARIANTS ForwardsWhole NoSampleTwice FreshIsLogged
