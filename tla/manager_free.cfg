\* Clients that share robots freely, policies that outlive the 1 s join.
CONSTANTS
    Robot = {r1}
    Session = {s1, s2}
    NoSession = NoSession
    Rpc = Rpc
    NoRobot = NoRobot
    PolicyMayOutliveJoin = TRUE
    History = 1
    StopWaits = {"bounded", "forever"}
    JoinWaits = {"bounded", "forever"}
    ExclusiveRobots = FALSE
    UnbuildableStops = {s2}
SPECIFICATION Spec
INVARIANTS
    TypeOK
    DeregisteredMeansReleased
    RecentStatusReadable
PROPERTY
    KeepsLifecycle
