\* One chat through three generations; two slots, three request tasks.
SPECIFICATION Spec
CONSTANTS
    Chats = {c1}
    Requests = {r1, r2, r3}
    NoChat = NoChat
    NoSignal = NoSignal
    MachineSlots = 2
    MaxGeneration = 3
    MaxPool = 2
SYMMETRY Symmetry
INVARIANTS
    TypeOK
    CountersExact
    AdmissionCoversSemaphore
    SlotsConserved
    IdleDetachCutsNothing
PROPERTIES
    NothingSentAfterRevocation
    RevokedStaysDown
    CapacityToldIsTrue
\* The platform may stop sending, and the bounds stop reconnecting.
CHECK_DEADLOCK FALSE
