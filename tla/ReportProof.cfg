SPECIFICATION Spec
CONSTANTS
    Prover = {1, 2, 3, 4}
    aggsize = 2
    MaxPeriod = 1
INVARIANTS
    UnfinalizedRemoved
