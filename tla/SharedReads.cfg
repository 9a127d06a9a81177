SPECIFICATION FairSpec
CONSTANTS
    r1 = r1
    r2 = r2
    r3 = r3
    lights = lights
    light1 = light1
    Nobody = Nobody
    Reads <- ThreeReads
    Keys <- TwoKeys
    MaxChanges = 1
INVARIANTS
    OneRpcPerKey
    NotACache
PROPERTIES
    EveryReadAnswered
