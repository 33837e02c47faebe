SPECIFICATION Spec
CONSTANTS
    Prover = {1, 2, 3, 4}
    Key = {1, 2}
    KeyRing <- SameRing
    ckey = 9
    TreeId = {1}
    Null = Null
    Selfish = {}
    Battery = {100}
    statadapt = FALSE
    MAXCHILDREN = 2
    maxdepth = 3
    timeoutack = 1
    timeoutresp = 3
    timeoutup = 3
    deltah = 18
    FirmwareTime = 0
    firmware <- EqualFirmware
    StartPhase = {0, 2}
    Fallible = {}
    MAX_CRASH = 1
    MaxDelay = 0
    MaxPeriod = 1
INVARIANT StrangerDropped
