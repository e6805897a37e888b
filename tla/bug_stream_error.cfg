\* zmq_client.py:187 against the restart that tick begins with.
CONSTANTS
    Worker = {w1, w2}
    NoWorker = NoWorker
    NoSnapshot = NoSnapshot
    MaxSnapshots = 2
    MayTimeOut = FALSE
    Lossy = FALSE
    EarlierMotion = FALSE
SPECIFICATION Spec
PROPERTY
    TickKeepsStreamError
CHECK_DEADLOCK FALSE
