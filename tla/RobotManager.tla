---------------------------- MODULE RobotManager ----------------------------
(***************************************************************************)
(* zmq_server.py: RobotManager, the tracker sessions it holds and the RPC   *)
(* thread that runs every handler, from serve_forever to its teardown.      *)
(* A handler that may wait (tracker.stop, robot.join_motion) is the RPC     *)
(* thread walking through TrackerSession's steps; every other handler is    *)
(* one action, taken between `recv` and the next look at the stop event.    *)
(***************************************************************************)
EXTENDS TrackerSession, Sequences

CONSTANTS
    History,            \* FINISHED_STATUS_HISTORY
    StopWaits,          \* the waits clients ask of tracker.stop
    JoinWaits,          \* the waits clients ask of robot.join_motion
    ExclusiveRobots,    \* do clients leave a robot with a tracker to its tracker?
    UnbuildableStops    \* sessions whose clients may ask for a stop motion the server refuses to build

ASSUME ManagerAssumption == /\ History \in Nat \ {0}
                            /\ StopWaits \subseteq Wait
                            /\ JoinWaits \subseteq Wait
                            /\ ExclusiveRobots \in BOOLEAN
                            /\ UnbuildableStops \subseteq Session

VARIABLES
    robots,    \* _robots, by robot id
    registry,  \* _tracker_sessions, by session id
    finished,  \* _finished_statuses, oldest first
    server,    \* serve_forever: serving, requested (event set), closing, down
    halted,    \* robots the teardown has stopped
    answered   \* history variable: the sessions whose stop has been answered, in order

managerVars == <<robots, registry, finished, answered, server, halted>>
vars == <<robotVars, sessionVars, managerVars>>

FinalStatus == [id : Session, running : BOOLEAN]

ManagerTypeOK ==
    /\ robots \subseteq Robot
    /\ registry \subseteq Session
    /\ finished \in Seq(FinalStatus)
    /\ Len(finished) <= History
    /\ answered \in Seq(Session)
    /\ server \in {"serving", "requested", "closing", "down"}
    /\ halted \subseteq robots

\* Every variable has its type, and the status history its bound.
TypeOK == RobotTypeOK /\ SessionTypeOK /\ ManagerTypeOK

Init ==
    /\ RobotInit
    /\ SessionInit
    /\ robots = {}
    /\ registry = {}
    /\ finished = <<>>
    /\ answered = <<>>
    /\ server = "serving"
    /\ halted = {}

-----------------------------------------------------------------------------
(***************************************************************************)
(* serve_forever and serve_once.                                            *)
(***************************************************************************)
\* `while not self._stop_event.is_set()`, then recv.
AwaitRequest ==
    /\ server = "serving"
    /\ at[Rpc] = "idle"
    /\ Goto(Rpc, "recv")
    /\ UNCHANGED <<robotVars, robotOf, guarded, stopEvent, stopEnqueued, failed, call, managerVars>>

\* recv times out, or the request changes nothing here: a status, an unknown
\* session's stop (answered True), a handler that raises before its effect.
ServeNothing ==
    /\ at[Rpc] = "recv"
    /\ Goto(Rpc, "idle")
    /\ UNCHANGED <<robotVars, robotOf, guarded, stopEvent, stopEnqueued, failed, call, managerVars>>

\* The frame of a handler that runs to its answer in one step.
Handle ==
    /\ at[Rpc] = "recv"
    /\ Goto(Rpc, "idle")
    /\ UNCHANGED <<robotOf, guarded, stopEvent, stopEnqueued, failed, call>>

\* Whether a client would start something on r.
Available(r) == ExclusiveRobots => \A s \in registry : robotOf[s] # r

-----------------------------------------------------------------------------
(***************************************************************************)
(* The handlers.                                                            *)
(***************************************************************************)
CreateRobot(r) ==
    /\ r \notin robots
    /\ robots' = robots \cup {r}
    /\ Handle
    /\ UNCHANGED <<robotVars, registry, finished, answered, server, halted>>

\* robot.move with a motion that belongs to no tracker.
MoveRobot(r, m) ==
    /\ r \in robots /\ Available(r)
    /\ MoveAsync(r, m)
    /\ Handle
    /\ UNCHANGED managerVars

\* robot.stop
StopRobot(r) ==
    /\ r \in robots
    /\ HardStop(r)
    /\ Handle
    /\ UNCHANGED managerVars

\* robot.join_motion
JoinMotion(r, w) ==
    /\ at[Rpc] = "recv"
    /\ r \in robots
    /\ call' = [NoCall EXCEPT !.robot = r, !.wait = w]
    /\ Goto(Rpc, "join")
    /\ UNCHANGED <<robotVars, robotOf, guarded, stopEvent, stopEnqueued, failed, managerVars>>

\* robot.start_{joint,cartesian,torque}_tracker: move, build the session,
\* register it, start its thread.
StartTracker(s, r, hasPolicy, isGuarded) ==
    /\ at[Rpc] = "recv"
    /\ r \in robots /\ Available(r)
    /\ StartSession(s, r, hasPolicy, isGuarded)
    /\ registry' = registry \cup {s}
    /\ UNCHANGED <<robots, finished, answered, server, halted>>

\* load_policy raises after robot.move: the motion runs, no session owns it.
StartTrackerLoadFails(r) ==
    /\ r \in robots /\ Available(r)
    /\ MoveAsync(r, Orphan)
    /\ Handle
    /\ UNCHANGED managerVars

\* stop_tracker: out of the registry first, then the session's stop.
Deregister(s, w, custom) ==
    /\ s \in registry
    /\ registry' = registry \ {s}
    /\ BeginStop(s, w, custom)
    /\ UNCHANGED <<robotVars, robots, finished, answered, server, halted>>

StopTracker(s, w, custom) == at[Rpc] = "recv" /\ Deregister(s, w, custom)

\* build_franky_motion raises between the pop and the stop.
StopTrackerPayloadFails(s) ==
    /\ s \in registry \cap UnbuildableStops
    /\ registry' = registry \ {s}
    /\ Handle
    /\ UNCHANGED <<robotVars, robots, finished, answered, server, halted>>

\* Mutation: the history is not trimmed.
WholeHistory(n, h) == h

\* Mutation: a full history takes no more.
Oldest(n, h) == IF Len(h) <= n THEN h ELSE SubSeq(h, 1, n)

\* The newest `n` of a history.
Newest(n, h) == IF Len(h) <= n THEN h ELSE SubSeq(h, Len(h) - n + 1, Len(h))

\* Mutation: no `finally`, a stop that raises is not remembered.
RememberUnlessRaised ==
    /\ at[Rpc] = "remember"
    /\ finished' = IF call.raised THEN finished ELSE Newest(History,
         Append(finished, [id |-> call.session, running |-> Running(call.session)]))
    /\ answered' = Append(answered, call.session)
    /\ call' = NoCall
    /\ Goto(Rpc, "idle")
    /\ UNCHANGED <<robotVars, robotOf, guarded, stopEvent, stopEnqueued, failed, robots, registry, server, halted>>

\* _remember_finished, in stop_tracker's `finally`.
RememberFinished ==
    /\ at[Rpc] = "remember"
    /\ finished' = Newest(History, Append(finished, [id |-> call.session, running |-> Running(call.session)]))
    /\ answered' = Append(answered, call.session)
    /\ call' = NoCall
    /\ Goto(Rpc, "idle")
    /\ UNCHANGED <<robotVars, robotOf, guarded, stopEvent, stopEnqueued, failed, robots, registry, server, halted>>

-----------------------------------------------------------------------------
(***************************************************************************)
(* Shutdown: requested by a signal on another thread, carried out by        *)
(* serve_forever's `finally` on the RPC thread.                             *)
(***************************************************************************)
RequestShutdown ==
    /\ server = "serving"
    /\ server' = "requested"
    /\ UNCHANGED <<robotVars, sessionVars, robots, registry, finished, answered, halted>>

BeginShutdown ==
    /\ server = "requested"
    /\ at[Rpc] = "idle"
    /\ server' = "closing"
    /\ UNCHANGED <<robotVars, sessionVars, robots, registry, finished, answered, halted>>

Closing == server = "closing" /\ at[Rpc] = "idle"

\* Mutation: shutdown inherits the blocking join.
ShutdownStopsTrackerUnbounded(s) == Closing /\ Deregister(s, "forever", FALSE)

\* Trackers first, each with a bounded join ...
ShutdownStopsTracker(s) == Closing /\ Deregister(s, "bounded", FALSE)

\* ... then every robot ...
HaltRobot(r) ==
    /\ Closing
    /\ registry = {}
    /\ r \in robots \ halted
    /\ HardStop(r)
    /\ halted' = halted \cup {r}
    /\ UNCHANGED <<sessionVars, robots, registry, finished, answered, server>>

\* Mutation: the sockets are closed as soon as the trackers are stopped.
CloseSocketsEarly ==
    /\ Closing
    /\ registry = {}
    /\ server' = "down"
    /\ UNCHANGED <<robotVars, sessionVars, robots, registry, finished, answered, halted>>

\* ... then the sockets they publish through.
CloseSockets ==
    /\ Closing
    /\ registry = {}
    /\ halted = robots
    /\ server' = "down"
    /\ UNCHANGED <<robotVars, sessionVars, robots, registry, finished, answered, halted>>

Terminated == server = "down" /\ UNCHANGED vars

-----------------------------------------------------------------------------
Request ==
    \/ \E r \in Robot : \/ CreateRobot(r)
                        \/ StopRobot(r)
                        \/ StartTrackerLoadFails(r)
                        \/ \E m \in {Waypoint, Impedance} : MoveRobot(r, m)
                        \/ \E w \in JoinWaits : JoinMotion(r, w)
    \/ \E s \in Session :
         \/ StopTrackerPayloadFails(s)
         \/ \E w \in StopWaits, custom \in BOOLEAN : StopTracker(s, w, custom)
         \/ \E r \in Robot, hasPolicy, isGuarded \in BOOLEAN :
              StartTracker(s, r, hasPolicy, isGuarded)

\* What the RPC thread does of itself, without a request.
RpcStep ==
    \/ AwaitRequest
    \/ ServeNothing
    \/ StopPath /\ UNCHANGED managerVars
    \/ RememberFinished
    \/ BeginShutdown
    \/ CloseSockets
    \/ \E s \in Session : ShutdownStopsTracker(s)
    \/ \E r \in Robot : HaltRobot(r)

PolicyStep(s)   == (PolicyLoop(s) \/ EnqueueStop(s)) /\ UNCHANGED managerVars
UserCodeStep(s) == PolicyUserCode(s) /\ UNCHANGED managerVars
RobotStep(r)    == ControllerStep(r) /\ UNCHANGED <<sessionVars, managerVars>>

Next ==
    \/ Request
    \/ RpcStep
    \/ RequestShutdown
    \/ \E s \in Session : PolicyStep(s) \/ UserCodeStep(s)
    \/ \E r \in Robot : RobotStep(r)
    \/ Terminated

\* The threads are scheduled, a stop ramp has a maximum duration, and user
\* code returns when PolicyMayOutliveJoin says it does.  Clients owe nothing.
Fairness ==
    /\ WF_vars(RpcStep)
    /\ \A s \in Session :
         /\ WF_vars(PolicyStep(s))
         /\ WF_vars(~ PolicyMayOutliveJoin /\ UserCodeStep(s))
    /\ \A r \in Robot : WF_vars(RampFinishes(r) /\ UNCHANGED <<sessionVars, managerVars>>)

Spec == Init /\ [][Next]_vars
FairSpec == Spec /\ Fairness

-----------------------------------------------------------------------------
(***************************************************************************)
(* Properties.                                                              *)
(***************************************************************************)
\* A robot is executing s's tracking motion.
Holds(s) == Started(s) /\ motion[robotOf[s]] = Track(s)

\* Started once, no longer registered, and not the session being stopped.
Gone(s) == Started(s) /\ s \notin registry /\ call.session # s

\* Once stop_tracker has answered for a session, however it answered (in time,
\* after a timeout, with an exception) and whatever its policy thread did
\* meanwhile, no robot is executing that session's tracking motion.  Only the
\* clients of the session itself have to send stop motions that can be built.
DeregisteredMeansReleased ==
    \A s \in Session \ UnbuildableStops : Gone(s) => ~ Holds(s)

\* The same of every session, unbuildable stops or not (docs/trackers.md:14:
\* "Leaving the `with` block stops the tracker").
EveryStopReleases == \A s \in Session : Gone(s) => ~ Holds(s)

\* The parts of the inductive invariant behind it.

\* The RPC thread's call is there exactly while the thread is in one.
CallMatchesThread ==
    /\ at[Rpc] \in {"idle", "recv"} => call = NoCall
    /\ at[Rpc] \in {"check", "control", "move", "reap", "remember"} => call.session \in Session
    /\ at[Rpc] = "join" => call.robot \in Robot
    /\ call.session \in Session => /\ Started(call.session)
                                   /\ call.session \notin registry
                                   /\ call.robot = robotOf[call.session]

\* Only a session that was started has a thread, a registration or a stop.
OnlyStartedAct ==
    \A s \in Session : HasPolicy(s) \/ s \in registry \cup stopEnqueued => Started(s)

\* _stop_enqueued is set before the ramp is: in between, and only there, some
\* thread is at its move().
ClaimedStopIsEnqueued ==
    \A s \in stopEnqueued : Holds(s) =>
        at[s] = "move" \/ (at[Rpc] = "move" /\ call.session = s)

\* Past the enqueue, stop() can only be waiting for the policy thread's ramp.
JoinedStopIsReleased ==
    at[Rpc] \in {"join", "reap", "remember"} /\ call.session \in Session /\ Holds(call.session)
        => at[Rpc] # "remember" /\ at[call.session] = "move"

TypeInv == TypeOK /\ CallMatchesThread /\ OnlyStartedAct

ReleaseInv ==
    /\ TypeInv
    /\ ClaimedStopIsEnqueued
    /\ JoinedStopIsReleased
    /\ DeregisteredMeansReleased

\* A session whose stop has been answered, however it ended, still has its
\* final status until as many later stops as the history holds have been
\* answered too (_remember_finished: "Keep a stopped session's final status
\* readable after deregistration").
RecentStatusReadable ==
    /\ \A s \in Session \ UnbuildableStops :
         Gone(s) => \E i \in DOMAIN answered : answered[i] = s
    /\ \A i \in DOMAIN answered :
         Len(answered) - i < History => \E j \in DOMAIN finished : finished[j].id = answered[i]

\* Why: the history is the end of `answered`, in the same order.
HistoryIsRecent ==
    /\ Len(finished) = IF Len(answered) < History THEN Len(answered) ELSE History
    /\ \A j \in DOMAIN finished :
         finished[j].id = answered[Len(answered) - Len(finished) + j]

\* The thread about to enqueue a stop ramp replaces nothing but its own
\* session's motion (_in_control: "Whether the robot is still executing this
\* session's motion").
RampsOnlyOwnMotion ==
    \A t \in Thread : at[t] = "move" =>
        motion[robotOf[Target(t)]] \in {Idle, Track(Target(t)), Ramp(Target(t))}

\* A registered session that reports running is the one its robot executes
\* (status: "`running` goes False when the controller ... is preempted").
RunningMeansOwnMotion ==
    \A s \in registry :
        Running(s) => motion[robotOf[s]] \in {Track(s), Ramp(s)}

\* The status kept of a stopped session says that it is not running
\* (_remember_finished: "So `is_running` answers False after a stop").
FinishedNotRunning == \A i \in DOMAIN finished : ~ finished[i].running

\* The default ramp is not enqueued over itself (_enqueue_stop_motion:
\* "Re-enqueueing would restart the ramp from the torque it has already
\* decayed to").  A caller's own stop motion may replace it.
NoRampRestart ==
    [][\A t \in Thread :
         EnqueueRamp(t) /\ ~ (t = Rpc /\ call.custom)
            => motion[robotOf[Target(t)]] # Ramp(Target(t))]_vars

\* When the server closes its sockets, no robot is left executing anything
\* (serve_forever: "Order matters: stop robots/trackers ... before tearing down
\* the sockets they publish through").
DownMeansStill == server = "down" => \A r \in robots : ~ InControl(r)

\* A client waiting for tracker.stop gets its answer, and the RPC thread is
\* free for the next request.
StopIsAnswered ==
    \A s \in Session : (call.session = s) ~> (call.session = NoSession /\ at[Rpc] = "idle")

\* Where the server is with a session, in TrackerLifecycle's terms.
PhaseOf(s) == IF ~ Started(s) THEN "new"
              ELSE IF s \in registry THEN "registered"
              ELSE IF call.session = s THEN "stopping"
              ELSE "stopped"

Lifecycle == INSTANCE TrackerLifecycle WITH
    Session <- Session \ UnbuildableStops,
    phase   <- [s \in Session \ UnbuildableStops |-> PhaseOf(s)],
    driving <- {s \in Session \ UnbuildableStops : Holds(s)}

\* The server implements the lifecycle it promises of a session: a stop is
\* answered only once the session's motion is gone for good, and one stop runs
\* at a time.
KeepsLifecycle == Lifecycle!Spec
=============================================================================
