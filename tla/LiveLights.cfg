SPECIFICATION LiveSpec
CONSTANTS
    l1 = l1
    Console = Console
    NoPage = NoPage
    Browsers <- ThisConsole
    Lights <- OneLight
    Kinds <- AllKinds
    MaxGaps = 0
    MaxChanges = 2
    MaxLosses = 1
    MaxDrops = 0
    MaxFails = 1
    MaxOthers = 1
    MaxTroubles = 1
    MaxWire = 2
CHECK_DEADLOCK FALSE
INVARIANTS
    LiveTypeOK
    StaleIsBeingRepaired
    StaleIsMarked
    FollowUpsHaveAFetch
