\* Everything may go wrong, but no client waits forever.
CONSTANTS
    Robot = {r1}
    Session = {s1}
    NoSession = NoSession
    Rpc = Rpc
    NoRobot = NoRobot
    PolicyMayOutliveJoin = TRUE
    History = 1
    StopWaits = {"bounded"}
    JoinWaits = {"bounded"}
    ExclusiveRobots = FALSE
    UnbuildableStops = {s1}
    MaxInterrupts = 2
SPECIFICATION ProcessSpec
INVARIANTS
    ProcessTypeOK
    ExitMeansStill
    NoGripperLeft
PROPERTIES
    SignalEndsProcess
    ShutdownCompletes
