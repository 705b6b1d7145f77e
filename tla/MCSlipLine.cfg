CONSTANTS
    END = 192
    START = 193
    ESC = 219
    ESC_END = 220
    ESC_ESC = 221
    CheckMod = 128
    MaxSize = 4
    BufSize = 7
    Payload <- MCPayload
    Text <- MCText
    MaxFaults = 1
    Body = {p1, p2}
    NoPacket = NoPacket
SPECIFICATION MCSpec
INVARIANTS TypesOK IntactIsDelivered NothingInvented
PROPERTIES HeldPacketStable SentIsOwn ReceivedIsGot PendingSenderReturns
