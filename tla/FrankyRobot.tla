----------------------------- MODULE FrankyRobot -----------------------------
(***************************************************************************)
(* What zero_franky relies on of a franky.Robot: one motion at a time, and  *)
(* the outcome a control session left for the next join_motion.  franky is  *)
(* not in the repository, so this module is modelled from its callers:      *)
(*   - move(m, asynchronous=True) flips is_in_control before it returns     *)
(*     (tracker_session.py, _in_control) and replaces a running motion; a   *)
(*     motion of the other control interface is refused while one runs      *)
(*     (zmq_server_franky.py builds both torque and waypoint motions);      *)
(*   - stop() preempts, and the exception is stored for the next join       *)
(*     (zmq_server.py, RobotManager.join_motion);                           *)
(*   - a TorqueStopMotion ends by itself; a tracking motion never does,     *)
(*     it holds its last reference until replaced, stopped or faulted       *)
(*     (tracker_session.py, _run_policy's comment).                         *)
(***************************************************************************)
EXTENDS Naturals, FiniteSets

CONSTANTS
    Robot,      \* robots a server may hold (franky.Robot objects)
    Session,    \* tracker sessions, each started at most once (uuid4 ids)
    NoSession   \* the owner of a motion that belongs to no session

ASSUME RobotAssumption == NoSession \notin Session

VARIABLES
    motion,     \* [Robot -> Motion], what each robot is executing
    exc         \* [Robot -> Outcome], the exception stored for the next join

robotVars == <<motion, exc>>

-----------------------------------------------------------------------------
\* A motion is its kind and the session that enqueued it.

Idle      == <<"idle", NoSession>>
Waypoint  == <<"waypoint", NoSession>>   \* a position or velocity motion
Impedance == <<"impedance", NoSession>>  \* a torque motion that ends by itself
Orphan    == <<"track", NoSession>>      \* a tracking motion without a session
Track(s)  == <<"track", s>>
Ramp(s)   == <<"ramp", s>>               \* a TorqueStopMotion

Motion == {Idle, Waypoint, Impedance, Orphan}
            \cup {Track(s) : s \in Session} \cup {Ramp(s) : s \in Session}

Outcome == {"none", "preempted", "fault"}

RobotTypeOK == /\ motion \in [Robot -> Motion]
               /\ exc \in [Robot -> Outcome]

RobotInit == /\ motion = [r \in Robot |-> Idle]
             /\ exc = [r \in Robot |-> "none"]

-----------------------------------------------------------------------------
\* Robot.is_in_control
InControl(r) == motion[r] # Idle

\* A running motion can only be replaced by one of the same control interface.
Accepts(r, m) == InControl(r) => (motion[r] = Waypoint <=> m = Waypoint)

\* Robot.move(m, asynchronous=True), when it does not raise.
MoveAsync(r, m) ==
    /\ Accepts(r, m)
    /\ motion' = [motion EXCEPT ![r] = m]
    /\ exc' = [exc EXCEPT ![r] = "none"]

\* Robot.stop()
HardStop(r) ==
    /\ motion' = [motion EXCEPT ![r] = Idle]
    /\ exc' = IF InControl(r) THEN [exc EXCEPT ![r] = "preempted"] ELSE exc

\* The controller's own steps: a ramp or a motion comes to its end, or the
\* controller faults (a reflex, a lost connection, the torque watchdog).
RampFinishes(r) ==
    /\ \E s \in Session : motion[r] = Ramp(s)
    /\ motion' = [motion EXCEPT ![r] = Idle]
    /\ UNCHANGED exc

MotionFinishes(r) ==
    /\ motion[r] \in {Waypoint, Impedance}
    /\ motion' = [motion EXCEPT ![r] = Idle]
    /\ UNCHANGED exc

ControllerFaults(r) ==
    /\ InControl(r)
    /\ motion' = [motion EXCEPT ![r] = Idle]
    /\ exc' = [exc EXCEPT ![r] = "fault"]

ControllerStep(r) == RampFinishes(r) \/ MotionFinishes(r) \/ ControllerFaults(r)
=============================================================================
