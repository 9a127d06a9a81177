SPECIFICATION Spec
CONSTANTS
    LightId <- light
    encode <- Encode
    decode <- Decode
    newer <- Newer
    Bodies <- SomeBodies
    Reports <- SomeReports
    Lists <- SomeLists
    Happenings <- SomeHappenings
    Mutations <- SomeMutations
CHECK_DEADLOCK FALSE
INVARIANTS
    KeepsTheContract
    AskedAsCommitted
    RefusesWhatHueRefuses
    ShownAsReported
    NoticeAsReported
    ToldTrue
    OutageNamesTheTier
