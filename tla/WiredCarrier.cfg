SPECIFICATION FairSpec
CONSTANTS
    Prover = {1, 2, 3, 4}
    Networks <- Connected
    drange = 2
    Frames = 2
INVARIANT NoCollision
INVARIANT QueueAttended
PROPERTY EventuallySent
