SPECIFICATION FairSpec
CONSTANTS
    b1 = b1
    b2 = b2
    l1 = l1
    Browsers <- TwoBrowsers
    Lights <- OneLight
    Kinds <- TwoKinds
    MaxGaps = 1
CHECK_DEADLOCK FALSE
INVARIANTS
    NothingOutlivesItsStream
    NoLightDropped
PROPERTIES
    WhatIsToldIsWritten
    StatusSettles
    ExpiredStreamEnds
