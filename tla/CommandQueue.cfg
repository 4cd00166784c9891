SPECIFICATION FairSpec
CONSTANTS
    Threads = {t1, t2}
    NoThread = NoThread
    MAX_QUEUE_SIZE = 3
    Requests <- SomeRequests
    NULL = NULL
    NoCommand = NoCommand
INVARIANTS
    TypeOK
    MutexMatchesCode
    TakenSlotsCleared
PROPERTIES
    IsFifo
    MutexReleased
