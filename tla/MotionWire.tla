------------------------------ MODULE MotionWire ------------------------------
(***************************************************************************)
(* What becomes of a motion on its way to the robot: a program calls a      *)
(* constructor of types.py, protocol.py encodes the object it gets, and     *)
(* zmq_server_franky.py calls franky's constructor, by position, with what  *)
(* it decodes.  types.py mirrors franky's constructors, so Construct stands *)
(* for both.  The impedance motions have no stand-in: a program that moves  *)
(* one has franky, and their objects are franky's own.                      *)
(*                                                                          *)
(* A pose, a vector, a twist is one value.  An argument that is None was    *)
(* left out.                                                                *)
(***************************************************************************)
EXTENDS Naturals, Sequences, SequencesExt

CONSTANTS
    None,     \* Python's None, and null on the wire
    CRITICAL, \* franky.CRITICAL
    Motions   \* the constructor calls a program makes: [type, args]

VARIABLES
    asked,    \* the program's constructor call
    stage,    \* how far it got
    payload,  \* what is on the wire
    built     \* the object next to the robot

vars == <<asked, stage, payload, built>>

-----------------------------------------------------------------------------
(***************************************************************************)
(* types.py: what constructors take, in which order, and what they make.    *)
(***************************************************************************)
PositionSignature ==
    [CartesianMotion         |-> <<"target", "reference_type", "relative_dynamics_factor",
                                   "return_when_finished", "ee_frame">>,
     CartesianWaypointMotion |-> <<"waypoints", "ee_frame", "relative_dynamics_factor",
                                   "return_when_finished">>,
     CartesianStopMotion     |-> <<"relative_dynamics_factor">>,
     JointMotion             |-> <<"target", "reference_type", "relative_dynamics_factor",
                                   "return_when_finished">>,
     JointWaypointMotion     |-> <<"waypoints", "relative_dynamics_factor",
                                   "return_when_finished">>,
     JointStopMotion         |-> <<"relative_dynamics_factor">>]

VelocitySignature ==
    [CartesianVelocityMotion         |-> <<"target", "duration", "relative_dynamics_factor",
                                           "ee_frame">>,
     CartesianVelocityWaypointMotion |-> <<"waypoints", "ee_frame",
                                           "relative_dynamics_factor">>,
     CartesianVelocityStopMotion     |-> <<"relative_dynamics_factor">>,
     JointVelocityMotion             |-> <<"target", "duration", "relative_dynamics_factor">>,
     JointVelocityWaypointMotion     |-> <<"waypoints", "relative_dynamics_factor">>,
     JointVelocityStopMotion         |-> <<"relative_dynamics_factor">>]

Position == DOMAIN PositionSignature
Velocity == DOMAIN VelocitySignature
Cartesian ==
    {"CartesianMotion", "CartesianWaypointMotion", "CartesianStopMotion",
     "CartesianVelocityMotion", "CartesianVelocityWaypointMotion",
     "CartesianVelocityStopMotion"}

Signature(type) ==
    IF type \in Position THEN PositionSignature[type] ELSE VelocitySignature[type]

\* A velocity target is always absolute.
WaypointSignature(type) ==
    IF type \in Position
    THEN <<"target", "reference_type", "relative_dynamics_factor", "minimum_time",
           "hold_target_duration", "max_total_duration">>
    ELSE <<"target", "relative_dynamics_factor", "minimum_time",
           "hold_target_duration", "max_total_duration">>

\* The arguments by name.
Bound(signature, args) ==
    [f \in ToSet(signature) |-> args[CHOOSE i \in DOMAIN signature : signature[i] = f]]

\* A factor is a plain float, or an object with its own defaults.
Float(v) == [float |-> v]
Factor(velocity, acceleration, jerk) ==
    [velocity     |-> velocity,
     acceleration |-> IF acceleration = None THEN velocity ELSE acceleration,
     jerk         |-> IF jerk = None THEN velocity ELSE jerk]
IsFloat(factor) == "float" \in DOMAIN factor

Still == 0   \* JointState's default velocity
DefaultDuration == 1000

\* _as_cartesian_state, _as_joint_state: the forms a target may have become one.
AsTarget(type, target) ==
    CASE type \in Velocity -> target
      [] type \in Position \cap Cartesian -> [as |-> "CartesianState", pose |-> target.pose]
      [] OTHER -> [position |-> target.position,
                   velocity |-> IF target.velocity = None THEN Still ELSE target.velocity]

Default(f) ==
    CASE f = "reference_type" -> "Absolute"
      [] f = "relative_dynamics_factor" -> Float(1)
      [] f = "return_when_finished" -> TRUE
      [] f = "hold_target_duration" -> 0
      [] f = "duration" -> DefaultDuration
      [] OTHER -> None

Attribute(type, f, arg) ==
    CASE f = "waypoints" -> arg
      [] f = "target" -> AsTarget(type, arg)
      [] OTHER -> IF arg = None THEN Default(f) ELSE arg

Attributes(type, args) == [f \in DOMAIN args |-> Attribute(type, f, args[f])]

Construct(type, args) ==
    IF "waypoints" \notin DOMAIN args THEN Attributes(type, args)
    ELSE [Attributes(type, args) EXCEPT
            !.waypoints = [i \in DOMAIN @ |-> Attributes(type, @[i])]]

-----------------------------------------------------------------------------
(***************************************************************************)
(* protocol.py: encoders.                                                   *)
(***************************************************************************)
\* Mutation: a float is not broadcast.
EncodeFactorAsIs(factor) == factor

EncodeFactor(factor) ==
    IF IsFloat(factor) THEN Factor(factor.float, None, None) ELSE factor

\* A JointState's velocity stays behind; a Twist or RobotVelocity is sent as such.
EncodeTarget(type, target) ==
    CASE type \in Position \cap Cartesian -> [type |-> target.as, pose |-> target.pose]
      [] type \in Position \ Cartesian -> [type |-> "JointState", position |-> target.position]
      [] OTHER -> target

\* A bare string is not taken for a ReferenceType.
ReferenceTypes == {"Relative", "Absolute"}

EncodeField(type, f, v) ==
    CASE f = "target" -> EncodeTarget(type, v)
      [] f = "relative_dynamics_factor" -> EncodeFactor(v)
      [] OTHER -> v

EncodeFields(type, o) == [f \in DOMAIN o |-> EncodeField(type, f, o[f])]

EncodeTrajectory(type, o) ==
    IF "waypoints" \notin DOMAIN o THEN EncodeFields(type, o)
    ELSE [EncodeFields(type, o) EXCEPT
            !.waypoints = [i \in DOMAIN @ |-> EncodeFields(type, @[i])]]

\* encode_cartesian_diag; a stiffness here is its diagonal and the rest.
Diagonal(matrix) == IF matrix = None THEN None ELSE matrix.diagonal

\* Each name is looked up in the motion, its params and its safety limits.
JointImpedanceFields ==
    {"target", "target_velocity", "stiffness", "damping", "error_clip",
     "constant_torque_offset", "lower_joint_limits", "upper_joint_limits",
     "compensate_coriolis", "max_delta_tau", "joint_limit_activation_distance",
     "joint_limit_stiffness", "joint_limit_damping", "joint_limit_max_torque", "friction"}

EncodeJointImpedance(o) ==
    [f \in JointImpedanceFields \cup {"cartesian_stiffness", "cartesian_damping"} |->
        CASE f = "cartesian_stiffness" ->
               IF o.cartesian_gains = None THEN None ELSE Diagonal(o.cartesian_gains.stiffness)
          [] f = "cartesian_damping" ->
               IF o.cartesian_gains = None THEN None ELSE Diagonal(o.cartesian_gains.damping)
          [] OTHER -> o[f]]

CartesianImpedanceFields ==
    {"target", "target_twist", "target_type", "stiffness", "damping",
     "translational_stiffness", "rotational_stiffness", "force_constraints",
     "max_delta_tau", "lower_joint_limits", "upper_joint_limits",
     "joint_limit_activation_distance", "joint_limit_stiffness", "joint_limit_damping",
     "joint_limit_max_torque", "translational_error_clip", "rotational_error_clip", "friction"}

TasksOf(o, kind) == {i \in DOMAIN o.nullspace_tasks : o.nullspace_tasks[i].task = kind}
TheTask(o, kind) ==
    IF TasksOf(o, kind) = {} THEN None
    ELSE o.nullspace_tasks[CHOOSE i \in TasksOf(o, kind) : \A j \in TasksOf(o, kind) : i <= j]

EncodeCartesianImpedance(o) ==
    [f \in CartesianImpedanceFields \cup {"posture_task", "manipulability_task"} |->
        CASE f = "posture_task" -> TheTask(o, "PostureTask")
          [] f = "manipulability_task" -> TheTask(o, "ManipulabilityTask")
          [] OTHER -> o[f]]

TorqueStopFields ==
    {"damping", "ramp_duration", "velocity_epsilon", "max_duration", "compensate_coriolis",
     "max_delta_tau"}

\* encode_rpc_value, for a tracker's motion_kwargs.
CRITICAL_DAMPING == "critical"
EncodeKwargs(kwargs) ==
    [f \in DOMAIN kwargs |-> IF kwargs[f] = CRITICAL THEN CRITICAL_DAMPING ELSE kwargs[f]]

\* The motions that only a tracker runs; robot.move has no encoder for them.
Tracking == {"JointImpedanceTrackingMotion", "CartesianImpedanceTrackingMotion"}

Encode(type, o) ==
    CASE type \in Position \cup Velocity -> EncodeTrajectory(type, o)
      [] type = "JointImpedanceMotion" -> EncodeJointImpedance(o)
      [] type = "CartesianImpedanceMotion" -> EncodeCartesianImpedance(o)
      [] type = "TorqueStopMotion" -> [f \in TorqueStopFields |-> o[f]]
      [] type \in Tracking -> EncodeKwargs(o)

\* UnsupportedMotionType and ProtocolError, raised before anything is sent.
HasEncoder(type) ==
    \/ type \in Position \cup Velocity \cup Tracking
    \/ type \in {"JointImpedanceMotion", "CartesianImpedanceMotion", "TorqueStopMotion"}

ReferencesEncodable(o) ==
    /\ "reference_type" \in DOMAIN o => o.reference_type \in ReferenceTypes
    /\ "target_type" \in DOMAIN o => o.target_type \in ReferenceTypes
    /\ "waypoints" \in DOMAIN o =>
         \A i \in DOMAIN o.waypoints :
            "reference_type" \in DOMAIN o.waypoints[i] =>
                o.waypoints[i].reference_type \in ReferenceTypes

TasksEncodable(o) ==
    "nullspace_tasks" \in DOMAIN o =>
        /\ \A i \in DOMAIN o.nullspace_tasks :
             o.nullspace_tasks[i].task \in {"PostureTask", "ManipulabilityTask"}
        /\ \A kind \in {"PostureTask", "ManipulabilityTask"} :
             \A i, j \in TasksOf(o, kind) : i = j

\* Mutation: what has an encoder is sent.
EncodableByType(type, o) == HasEncoder(type)

Encodable(type, o) == HasEncoder(type) /\ ReferencesEncodable(o) /\ TasksEncodable(o)

-----------------------------------------------------------------------------
(***************************************************************************)
(* zmq_server_franky.py: builders.                                          *)
(***************************************************************************)
\* What each hands to franky's constructor, in this order.
PositionPassed ==
    [CartesianMotion         |-> <<"target", "reference_type", "relative_dynamics_factor",
                                   "return_when_finished", "ee_frame">>,
     CartesianWaypointMotion |-> <<"waypoints", "ee_frame", "relative_dynamics_factor",
                                   "return_when_finished">>,
     CartesianStopMotion     |-> <<"relative_dynamics_factor">>,
     JointMotion             |-> <<"target", "reference_type", "relative_dynamics_factor",
                                   "return_when_finished">>,
     JointWaypointMotion     |-> <<"waypoints", "relative_dynamics_factor",
                                   "return_when_finished">>,
     JointStopMotion         |-> <<"relative_dynamics_factor">>]

VelocityPassed ==
    [CartesianVelocityMotion         |-> <<"target", "duration", "relative_dynamics_factor",
                                           "ee_frame">>,
     CartesianVelocityWaypointMotion |-> <<"waypoints", "ee_frame",
                                           "relative_dynamics_factor">>,
     CartesianVelocityStopMotion     |-> <<"relative_dynamics_factor">>,
     JointVelocityMotion             |-> <<"target", "duration", "relative_dynamics_factor">>,
     JointVelocityWaypointMotion     |-> <<"waypoints", "relative_dynamics_factor">>,
     JointVelocityStopMotion         |-> <<"relative_dynamics_factor">>]

Passed(type) == IF type \in Position THEN PositionPassed[type] ELSE VelocityPassed[type]

\* Mutation: two durations in the wrong order.
WaypointPassedSwapped(type) ==
    IF type \in Position
    THEN <<"target", "reference_type", "relative_dynamics_factor", "hold_target_duration",
           "minimum_time", "max_total_duration">>
    ELSE <<"target", "relative_dynamics_factor", "hold_target_duration",
           "minimum_time", "max_total_duration">>

WaypointPassed(type) ==
    IF type \in Position
    THEN <<"target", "reference_type", "relative_dynamics_factor", "minimum_time",
           "hold_target_duration", "max_total_duration">>
    ELSE <<"target", "relative_dynamics_factor", "minimum_time",
           "hold_target_duration", "max_total_duration">>

\* One number for three equal ones.
BuildFactor(p) ==
    IF p.velocity = p.acceleration /\ p.acceleration = p.jerk
    THEN Factor(p.velocity, None, None)
    ELSE Factor(p.velocity, p.acceleration, p.jerk)

BuildTarget(type, p) ==
    CASE type \in Position \cap Cartesian -> [as |-> p.type, pose |-> p.pose]
      [] type \in Position \ Cartesian -> [position |-> p.position, velocity |-> None]
      [] OTHER -> p

BuildField(type, f, p) ==
    CASE f = "target" -> BuildTarget(type, p)
      [] f = "relative_dynamics_factor" -> BuildFactor(p)
      [] OTHER -> p

\* The arguments of a constructor's call, as that constructor names them.
Arguments(type, signature, passed, p) ==
    Bound(signature, [i \in DOMAIN passed |-> BuildField(type, passed[i], p[passed[i]])])

Waypoints(type, ps) ==
    [i \in DOMAIN ps |-> Arguments(type, WaypointSignature(type), WaypointPassed(type), ps[i])]

BuildTrajectory(type, p) ==
    LET args == Arguments(type, Signature(type), Passed(type), p)
    IN  Construct(type, IF "waypoints" \in DOMAIN args
                        THEN [args EXCEPT !.waypoints = Waypoints(type, @)] ELSE args)

\* Keyword arguments without those that are None, which franky defaults.
WithoutNone(kwargs) == [f \in {g \in DOMAIN kwargs : kwargs[g] # None} |-> kwargs[f]]
Of(p, keys) == [f \in keys |-> p[f]]

\* error_clip is not among them.
BuildJointImpedance(p) == WithoutNone(Of(p, DOMAIN p \ {"error_clip"}))

\* The stiffness franky is given: two numbers, of the matrix if one is missing.
Stiffness(p) ==
    IF p.stiffness # None /\ None \in {p.translational_stiffness, p.rotational_stiffness}
    THEN <<p.stiffness.diagonal[1], p.stiffness.diagonal[4]>>
    ELSE <<p.translational_stiffness, p.rotational_stiffness>>

\* _cartesian_impedance_kwargs: damping is not among them.
BuildCartesianImpedance(p) ==
    WithoutNone([Of(p, DOMAIN p \ {"stiffness", "damping"}) EXCEPT
                    !.translational_stiffness = Stiffness(p)[1],
                    !.rotational_stiffness = Stiffness(p)[2]])

\* franky_motion_kwargs: critical damping is what franky does if it is given none.
BuildKwargs(p) == Of(p, {f \in DOMAIN p : p[f] # CRITICAL_DAMPING})

Build(type, p) ==
    CASE type \in Position \cup Velocity -> BuildTrajectory(type, p)
      [] type = "JointImpedanceMotion" -> BuildJointImpedance(p)
      [] type = "CartesianImpedanceMotion" -> BuildCartesianImpedance(p)
      [] type = "TorqueStopMotion" -> p
      [] type \in Tracking -> BuildKwargs(p)

\* A key that is not there is a KeyError, and that an unsupported motion type; a
\* reference type that franky does not have is an AttributeError.
Required(type) ==
    CASE type \in Position \cup Velocity -> ToSet(Passed(type))
      [] type = "JointImpedanceMotion" ->
           {"target", "compensate_coriolis", "max_delta_tau",
            "joint_limit_activation_distance", "joint_limit_stiffness",
            "joint_limit_damping", "joint_limit_max_torque"}
      [] type = "CartesianImpedanceMotion" ->
           CartesianImpedanceFields \ {"target_twist", "stiffness", "damping",
             "translational_stiffness", "rotational_stiffness", "friction"}
      [] type = "TorqueStopMotion" -> TorqueStopFields \ {"damping"}
      [] type \in Tracking -> {}

Buildable(type, p) ==
    /\ Required(type) \subseteq DOMAIN p
    /\ ReferencesEncodable(p)
    /\ "waypoints" \in DOMAIN p =>
         \A i \in DOMAIN p.waypoints :
            ToSet(WaypointPassed(type)) \subseteq DOMAIN p.waypoints[i]

-----------------------------------------------------------------------------
(***************************************************************************)
(* RobotProxy.move (or start_*_tracker), and RobotManager's part in it.     *)
(***************************************************************************)
Object(motion) ==
    IF motion.type \in Position \cup Velocity THEN Construct(motion.type, motion.args)
    ELSE motion.args

\* What a program may call: constructors with their arguments, and franky's
\* objects with their attributes.
Number == Nat
Scales == [velocity : Number, acceleration : Number, jerk : Number]

IsArguments(signature, args) ==
    /\ DOMAIN args = ToSet(signature)
    /\ args.relative_dynamics_factor \in {None} \cup [float : Number] \cup Scales

IsSequence(s) == Len(s) \in Nat /\ DOMAIN s = 1..Len(s)

IsCall(motion) ==
    LET args == motion.args
    IN  CASE motion.type \in Position \cup Velocity ->
               /\ IsArguments(Signature(motion.type), args)
               /\ "waypoints" \in DOMAIN args =>
                    /\ IsSequence(args.waypoints)
                    /\ \A i \in DOMAIN args.waypoints :
                         IsArguments(WaypointSignature(motion.type), args.waypoints[i])
          [] motion.type = "JointImpedanceMotion" ->
               DOMAIN args = JointImpedanceFields \cup {"cartesian_gains"}
          [] motion.type = "CartesianImpedanceMotion" ->
               /\ DOMAIN args = CartesianImpedanceFields \cup {"nullspace_tasks"}
               /\ args.stiffness # None =>
                    None \notin {args.stiffness.diagonal[i] : i \in 1..6}
               /\ IsSequence(args.nullspace_tasks)
               /\ \A i \in DOMAIN args.nullspace_tasks : args.nullspace_tasks[i] # None
          [] motion.type = "TorqueStopMotion" ->
               args = [f \in TorqueStopFields |-> args[f]]
          [] motion.type \in Tracking ->
               /\ {"reference_type", "target_type", "waypoints", "relative_dynamics_factor"}
                    \cap DOMAIN args = {}
               /\ \A f \in DOMAIN args : args[f] # CRITICAL_DAMPING
          [] OTHER -> TRUE

ASSUME MotionsAssumption == \A motion \in Motions : IsCall(motion)
ASSUME NoneAssumption == None \notin Number /\ None \notin Scales
ASSUME CriticalAssumption == CRITICAL # CRITICAL_DAMPING

Init == asked = None /\ stage = "idle" /\ payload = None /\ built = None

Ask ==
    /\ stage = "idle"
    /\ asked' \in Motions
    /\ stage' = "asked"
    /\ UNCHANGED <<payload, built>>

Refuse ==
    /\ stage = "asked"
    /\ ~ Encodable(asked.type, Object(asked))
    /\ stage' = "refused"
    /\ UNCHANGED <<asked, payload, built>>

Send ==
    /\ stage = "asked"
    /\ Encodable(asked.type, Object(asked))
    /\ payload' = Encode(asked.type, Object(asked))
    /\ stage' = "sent"
    /\ UNCHANGED <<asked, built>>

\* The motion is built before anything is asked of the robot.
Move ==
    /\ stage = "sent"
    /\ IF Buildable(asked.type, payload)
       THEN built' = Build(asked.type, payload) /\ stage' = "moving"
       ELSE stage' = "failed" /\ UNCHANGED built
    /\ UNCHANGED <<asked, payload>>

Return ==
    /\ stage \in {"refused", "moving", "failed"}
    /\ asked' = None /\ stage' = "idle" /\ payload' = None /\ built' = None

Next == Ask \/ Refuse \/ Send \/ Move \/ Return

Spec == Init /\ [][Next]_vars

-----------------------------------------------------------------------------
(***************************************************************************)
(* Properties.                                                              *)
(***************************************************************************)
FactorOK(fields) ==
    "relative_dynamics_factor" \in DOMAIN fields => fields.relative_dynamics_factor \in Scales

\* What is sent is plain data: no factor is left to mean three numbers by itself,
\* and no franky.CRITICAL in a tracker's arguments, the only ones that may hold it.
TypeOK ==
    /\ stage \in {"idle", "asked", "refused", "sent", "moving", "failed"}
    /\ payload # None =>
         /\ FactorOK(payload)
         /\ "waypoints" \in DOMAIN payload =>
              \A i \in DOMAIN payload.waypoints : FactorOK(payload.waypoints[i])
         /\ asked.type \in Tracking => \A f \in DOMAIN payload : payload[f] # CRITICAL

\* What the program's object and franky's mean, apart from their form.
Scaling(factor) ==
    IF IsFloat(factor)
    THEN [velocity |-> factor.float, acceleration |-> factor.float, jerk |-> factor.float]
    ELSE factor

\* The wire carries no velocity of a JointState.
Goal(target) == IF "position" \in DOMAIN target THEN target.position ELSE target

Meaning(f, v) ==
    CASE f = "target" -> Goal(v)
      [] f = "relative_dynamics_factor" -> Scaling(v)
      [] OTHER -> v

SameFields(a, b) ==
    /\ DOMAIN a = DOMAIN b
    /\ \A f \in DOMAIN a \ {"waypoints"} : Meaning(f, a[f]) = Meaning(f, b[f])

SameTrajectory(a, b) ==
    /\ SameFields(a, b)
    /\ "waypoints" \in DOMAIN a =>
         /\ Len(a.waypoints) = Len(b.waypoints)
         /\ \A i \in DOMAIN a.waypoints : SameFields(a.waypoints[i], b.waypoints[i])

\* Of franky's object, the fields in names are given to franky: those it has.
Kept(o, kwargs, names) ==
    \A f \in names : IF o[f] = None THEN f \notin DOMAIN kwargs
                     ELSE f \in DOMAIN kwargs /\ kwargs[f] = o[f]

\* Of a joint impedance motion's Cartesian gains, the diagonals are.
SameGains(o, kwargs) ==
    \A gain \in {<<"stiffness", "cartesian_stiffness">>, <<"damping", "cartesian_damping">>} :
        LET matrix == IF o.cartesian_gains = None THEN None ELSE o.cartesian_gains[gain[1]]
        IN  IF matrix = None THEN gain[2] \notin DOMAIN kwargs
            ELSE matrix.diagonal # None =>
                   gain[2] \in DOMAIN kwargs /\ kwargs[gain[2]] = matrix.diagonal

Isotropic(translational, rotational) ==
    [diagonal |-> [i \in 1..6 |-> IF i <= 3 THEN translational ELSE rotational], rest |-> 0]

StiffnessOf(o) ==
    IF None \in {o.translational_stiffness, o.rotational_stiffness} THEN o.stiffness
    ELSE Isotropic(o.translational_stiffness, o.rotational_stiffness)

SameStiffness(o, kwargs) ==
    \A t, r \in {o.stiffness.diagonal[i] : i \in 1..6} :
        StiffnessOf(o) = Isotropic(t, r)
            => kwargs.translational_stiffness = t /\ kwargs.rotational_stiffness = r

SameTasks(o, kwargs) ==
    ToSet(o.nullspace_tasks) =
        {kwargs[f] : f \in {"posture_task", "manipulability_task"} \cap DOMAIN kwargs}

\* franky's constructor next to the robot makes of what it is given what the
\* program made ("the server reconstructs real franky objects next to the
\* robot"), whatever was left out, up to what is dropped on the way without a
\* word: a joint target's velocity, a joint impedance motion's error clip and all
\* of its Cartesian gains but their diagonals, a Cartesian one's damping and a
\* stiffness of more than two numbers.
ArrivesAsAsked ==
    stage = "moving" =>
        LET o == Object(asked)
        IN  CASE asked.type \in Position \cup Velocity -> SameTrajectory(o, built)
              [] asked.type = "JointImpedanceMotion" ->
                   /\ Kept(o, built, JointImpedanceFields \ {"error_clip"})
                   /\ SameGains(o, built)
              [] asked.type = "CartesianImpedanceMotion" ->
                   /\ Kept(o, built, CartesianImpedanceFields \
                             {"damping", "stiffness", "translational_stiffness",
                              "rotational_stiffness"})
                   /\ SameTasks(o, built)
                   /\ o.stiffness # None => SameStiffness(o, built)
              [] asked.type = "TorqueStopMotion" -> built = o
              [] asked.type \in Tracking ->
                   \A f \in DOMAIN o : IF o[f] = CRITICAL THEN f \notin DOMAIN built
                                       ELSE built[f] = o[f]

\* What is sent can be built: encoders and builders agree on every type and key,
\* and a motion of an unknown type, a bare reference or target type, a task of an
\* unknown kind or two of one kind is refused in the program already.
RefusedInTheProgram == stage # "failed"
=============================================================================
