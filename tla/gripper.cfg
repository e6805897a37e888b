\* A server whose link is closed is done: no deadlock check.
CONSTANTS
    Top = 4
    Full = 16
    Widths <- GripperWidths
    MaxClock = 1
    MaxWire = 1
    NoGoal = NoGoal
    Free = Free
    LinkMayFail = TRUE
SPECIFICATION BoundedSpec
INVARIANTS
    TypeOK
    ClientTypeOK
    LinkIsGuarded
    GoalIsNearest
    CleanExitIsQuiet
PROPERTIES
    BroadcastsInOrder
    RequestsAnswered
    InterruptCloses
    CacheKeepsLatest
    CacheCatchesUp
CHECK_DEADLOCK FALSE
