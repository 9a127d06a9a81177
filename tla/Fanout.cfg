SPECIFICATION FairSpec
CONSTANTS
    s1 = s1
    s2 = s2
    s3 = s3
    Streams <- MCStreams
    NoStream = NoStream
    BaseMs = 5
    CeilingMs = 60
INVARIANTS
    TypeOK
    OneStreamOrOneTimer
    SubscribedIsTrue
PROPERTIES
    ResetIsEarned
    IsASubscription
    KeepsTrying
    LetsGo
