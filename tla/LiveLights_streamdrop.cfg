SPECIFICATION LiveFairSpec
CONSTANTS
    l1 = l1
    Console = Console
    NoPage = NoPage
    Browsers <- ThisConsole
    Lights <- OneLight
    Kinds <- Changed
    MaxGaps = 0
    MaxChanges = 1
    MaxLosses = 0
    MaxDrops = 1
    MaxFails = 0
    MaxOthers = 0
    MaxTroubles = 1
    MaxWire = 1
CHECK_DEADLOCK FALSE
PROPERTIES
    ScreenCatchesUp
