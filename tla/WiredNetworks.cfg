SPECIFICATION FairSpec
CONSTANTS
    Prover = {1, 2, 3, 4}
    Networks <- AllShapes
    root = 1
    MAXCHILDREN = 2
    maxdepth = 3
    timeoutack = 3
    timeoutresp = 5
    deltah <- MixedPeriods
    ShortPeriod = 9
    LongPeriod = 21
    FirmwareTime = 2
    firmware <- SameFirmware
    TreeId = {1, 2}
    Null = Null
    Aborted = Aborted
    MaxDelay = 1
INVARIANT WiredTypeOK
INVARIANT Complete
INVARIANT ChildCommitted
INVARIANT ReportAwaited
INVARIANT TimeoutsCurrent
PROPERTY EventuallyCollected
