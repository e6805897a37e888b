\* One session whose policy stops it while a client does.
CONSTANTS
    Robot = {r1}
    Session = {s1}
    NoSession = NoSession
    Rpc = Rpc
    NoRobot = NoRobot
    PolicyMayOutliveJoin = FALSE
    History = 1
    StopWaits = {"bounded"}
    JoinWaits = {"bounded"}
    ExclusiveRobots = TRUE
    UnbuildableStops = {}
SPECIFICATION Spec
PROPERTY
    NoRampRestart
