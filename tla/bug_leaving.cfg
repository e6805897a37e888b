\* docs/trackers.md:14 against a server that answers late once and loses nothing.
CONSTANTS
    Worker = {w1, w2}
    NoWorker = NoWorker
    NoSnapshot = NoSnapshot
    MaxSnapshots = 2
    MayTimeOut = TRUE
    Lossy = FALSE
    EarlierMotion = FALSE
SPECIFICATION FairSpec
PROPERTY
    LeavingStops
CHECK_DEADLOCK FALSE
