SPECIFICATION Spec
CONSTANTS
    card = card
    controls = controls
    l1 = l1
    dim = dim
    bright = bright
    Free = Free
    Empty = Empty
    Instances <- CardAndControls
    Lights <- OneLight
    LightOf <- OfTheOneLight
    Pages <- ListAndDetail
    Commands <- TwoCommands
    MaxSends = 2
CHECK_DEADLOCK FALSE
INVARIANTS
    LastCommitIsSent
