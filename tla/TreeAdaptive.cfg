SPECIFICATION Spec
CONSTANTS
    Prover = {1, 2, 3}
    Key = {1, 2}
    KeyRing <- SameRing
    ckey = 9
    TreeId = {1, 2}
    Null = Null
    Selfish = {1}
    Battery = {20, 50, 100}
    statadapt = TRUE
    MAXCHILDREN = 2
    maxdepth = 2
    timeoutack = 2
    timeoutresp = 6
    timeoutup = 6
    deltah = 26
    FirmwareTime = 1
    firmware <- EqualFirmware
    StartPhase = {0, 3}
    Fallible = {3}
    MAX_CRASH = 1
    MaxDelay = 1
    MaxPeriod = 2
INVARIANT NoNullSession
INVARIANT NoDoubleSchedule
INVARIANT ReportedInTime
INVARIANT NoDoubleCount
INVARIANT AckAnswersResponse
PROPERTY ReportOnce
