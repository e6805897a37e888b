\* zmq_client.py:168 against snapshots of an earlier motion.
CONSTANTS
    Worker = {w1, w2}
    NoWorker = NoWorker
    NoSnapshot = NoSnapshot
    MaxSnapshots = 2
    MayTimeOut = FALSE
    Lossy = FALSE
    EarlierMotion = TRUE
SPECIFICATION Spec
INVARIANT
    NoFalseEnd
CHECK_DEADLOCK FALSE
