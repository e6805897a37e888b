\* Clients that leave a robot to its tracker, policies that return within the join.
CONSTANTS
    Robot = {r1}
    Session = {s1, s2}
    NoSession = NoSession
    Rpc = Rpc
    NoRobot = NoRobot
    PolicyMayOutliveJoin = FALSE
    History = 1
    StopWaits = {"bounded", "forever"}
    JoinWaits = {"bounded"}
    ExclusiveRobots = TRUE
    UnbuildableStops = {}
SPECIFICATION FairSpec
INVARIANTS
    RampsOnlyOwnMotion
    RunningMeansOwnMotion
    FinishedNotRunning
    DownMeansStill
PROPERTY
    StopIsAnswered
