SPECIFICATION Spec
CONSTANTS
    Prover = {1, 2, 3}
    aggsize = 2
    MaxPeriod = 2
INVARIANTS
    ReportTypeOK
    BackDefined
    GroupsBounded
    SizeCovers
    RecordsKept
    EachProvedOnce
