SPECIFICATION Spec
CONSTANTS
    Prover = {1, 2}
    Key = {1, 2}
    KeyRing <- SameRing
    ckey = 9
    TreeId = {1}
    Null = Null
    Selfish = {}
    Battery = {100}
    statadapt = FALSE
    MAXCHILDREN = 2
    maxdepth = 1
    timeoutack = 2
    timeoutresp = 6
    timeoutup = 6
    deltah = 20
    FirmwareTime = 1
    firmware <- MixedFirmware
    StartPhase = {0}
    Fallible = {}
    MAX_CRASH = 1
    MaxDelay = 0
    MaxPeriod = 2
INVARIANT NoFalseAlarm
