SPECIFICATION FairSpec
CONSTANTS
    Prover = {1, 2, 3}
    Load <- Traffic
    Vicinity <- Together
    Fallible = {}
    MAX_CRASH = 1
    NoMsg = NoMsg
INVARIANT QueueServed
INVARIANT NoTimerTwice
INVARIANT LinkInv
PROPERTY EventuallyArrives
