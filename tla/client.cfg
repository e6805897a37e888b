\* A client program that ends stops: no deadlock check.
CONSTANTS
    Worker = {w1, w2}
    NoWorker = NoWorker
    NoSnapshot = NoSnapshot
    MaxSnapshots = 2
    MayTimeOut = TRUE
    Lossy = TRUE
    EarlierMotion = FALSE
SPECIFICATION FairSpec
INVARIANTS
    TypeOK
    CleanExitStopped
    StopAnswersAreOwn
    NoFalseEnd
PROPERTIES
    StreamKeepsLatest
    ServerKeepsLifecycle
    LoopEnds
CHECK_DEADLOCK FALSE
