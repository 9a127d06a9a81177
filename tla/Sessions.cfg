SPECIFICATION Spec
CONSTANTS
    r1 = r1
    r2 = r2
    Slots <- TwoSlots
    NoCookie = NoCookie
    Nothing = Nothing
    Duration = 1
    MaxNow = 2
    MaxLogins = 2
    MaxRotations = 1
SYMMETRY SlotSymmetry
INVARIANTS
    CountedBeforeRead
    EverySessionWasSignedIn
    SignedOutStaysOut
