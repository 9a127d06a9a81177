SPECIFICATION Spec
CONSTANTS
    k1 = k1
    k2 = k2
    Keys <- MCKeys
    Limit = 2
    WindowMs = 60000
    Steps <- MCSteps
    MaxNow = 90000
SYMMETRY KeySymmetry
INVARIANTS
    NoWindowOverLimit
    RemembersTheWindow
    NotToldToWaitTooLong
PROPERTIES
    WaitingAsToldIsEnough
