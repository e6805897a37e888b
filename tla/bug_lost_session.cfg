\* A stop motion the server's franky refuses to build.
CONSTANTS
    Robot = {r1}
    Session = {s1}
    NoSession = NoSession
    Rpc = Rpc
    NoRobot = NoRobot
    PolicyMayOutliveJoin = FALSE
    History = 1
    StopWaits = {"bounded"}
    JoinWaits = {"bounded"}
    ExclusiveRobots = TRUE
    UnbuildableStops = {s1}
SPECIFICATION Spec
INVARIANT
    EveryStopReleases
