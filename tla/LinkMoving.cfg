SPECIFICATION Spec
CONSTANTS
    Prover = {1, 2, 3}
    Load <- Traffic
    Vicinity <- Moving
    Fallible = {1}
    MAX_CRASH = 2
    NoMsg = NoMsg
INVARIANT FrameOnce
INVARIANT CollectorExclusive
