\* Fair scheduling: two chats compete for one machine slot.
SPECIFICATION LoopSpec
CONSTANTS
    Chats = {c1, c2}
    Requests = {r1, r2}
    NoChat = NoChat
    NoSignal = NoSignal
    MachineSlots = 1
    MaxGeneration = 2
    MaxPool = 1
PROPERTIES
    EndedWorkNeverStarts
    PausedPlatformIsReleased
    EndingIsBounded
    SlotWaitIsBounded
\* The platform may stop sending, and the bounds stop reconnecting.
CHECK_DEADLOCK FALSE
