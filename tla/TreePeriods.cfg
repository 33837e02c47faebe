SPECIFICATION FairSpec
CONSTANTS
    Prover = {1, 2, 3}
    Key = {1, 2}
    KeyRing <- SameRing
    ckey = 9
    TreeId = {1}
    Null = Null
    Selfish = {}
    Battery = {100}
    statadapt = FALSE
    MAXCHILDREN = 2
    maxdepth = 2
    timeoutack = 1
    timeoutresp = 3
    timeoutup = 3
    deltah = 8
    FirmwareTime = 0
    firmware <- EqualFirmware
    StartPhase = {0, 4}
    Fallible = {1}
    MAX_CRASH = 2
    MaxDelay = 0
    MaxPeriod = 2
INVARIANT SessionsAgree
INVARIANT RecordOnce
INVARIANT Inv
PROPERTY AttestationImplemented
PROPERTY EventuallyReports
