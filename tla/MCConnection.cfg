\* The control daemon and one chat's; three token pairs.
SPECIFICATION Spec
CONSTANTS
    Chats = {c1}
    Control = Control
    NoOne = NoOne
    MaxPairs = 3
INVARIANTS
    TypeOK
PROPERTIES
    SignedOutForCause
    RefreshesWhatWasRefused
    NoRestartLoop
    ConnectsInTheEnd
