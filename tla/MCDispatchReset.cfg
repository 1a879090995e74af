\* The slots of the machine over a reconnection of the control daemon.
SPECIFICATION Spec
CONSTANTS
    Chats = {c1, c2}
    Requests = {r1, r2}
    NoChat = NoChat
    NoSignal = NoSignal
    MachineSlots = 1
    MaxGeneration = 3
    MaxPool = 2
INVARIANT WorkWithinMachineSlots
CHECK_DEADLOCK FALSE
