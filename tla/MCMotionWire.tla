----------------------------- MODULE MCMotionWire -----------------------------
(***************************************************************************)
(* MotionWire on the calls that tell its cases apart: every argument given  *)
(* and left out, every form of a target and a factor, several waypoints.    *)
(***************************************************************************)
EXTENDS MotionWire, FiniteSets, TLC

Factors == {None, Float(2), Factor(2, None, None), Factor(1, 1, 2), Factor(1, 2, 2),
            Factor(2, 1, 2)}

Poses == {[as |-> form, pose |-> "p"] : form \in {"Affine", "RobotPose", "CartesianState"}}
Joints == {[position |-> "q", velocity |-> v] : v \in {None, 3}}
Twists == {[twist |-> "v"]}
          \cup {[end_effector_twist |-> "v", elbow_velocity |-> e] : e \in {None, 3}}

TargetsOf(type) ==
    CASE type \in Position \cap Cartesian -> Poses
      [] type \in Position \ Cartesian -> Joints
      [] type \in Velocity \cap Cartesian -> Twists
      [] OTHER -> {[dq |-> "v"]}

References == {None, "Absolute", "Relative", "bare"}

\* Three different durations, or some of them.
Durations == {[minimum_time |-> 5, hold_target_duration |-> 6, max_total_duration |-> 7],
              [minimum_time |-> None, hold_target_duration |-> None, max_total_duration |-> None],
              [minimum_time |-> None, hold_target_duration |-> 6, max_total_duration |-> None]}

WaypointsOf(type) ==
    {d @@ [target |-> t, relative_dynamics_factor |-> x]
       @@ (IF type \in Position THEN [reference_type |-> r] ELSE <<>>) :
        d \in Durations, t \in TargetsOf(type), x \in {None, Factor(1, 1, 2)},
        r \in (IF type \in Position THEN References ELSE {None})}

\* One waypoint of each kind, alone and before a plain one.
Plain(type) == CHOOSE w \in WaypointsOf(type) : w.minimum_time = 5
Trajectories(type) ==
    {<<>>} \cup {<<w>> : w \in WaypointsOf(type)}
    \cup {<<w, Plain(type)>> : w \in WaypointsOf(type)}

Values(type, f) ==
    CASE f = "target" -> TargetsOf(type)
      [] f = "waypoints" -> Trajectories(type)
      [] f = "reference_type" -> References
      [] f = "relative_dynamics_factor" -> IF type \in Position /\ type \in Cartesian
                                           THEN Factors ELSE {None, Float(2), Factor(1, 1, 2)}
      [] f = "return_when_finished" -> {None, FALSE}
      [] f = "duration" -> {None, 5}
      [] f = "ee_frame" -> {None, "frame"}

\* Every choice of a value for each of these names.
CallsWith(names, ValuesOf(_)) ==
    FoldLeft(LAMBDA calls, f : {c @@ (f :> v) : c \in calls, v \in ValuesOf(f)}, {<<>>}, names)

Calls(type) == CallsWith(Signature(type), LAMBDA f : Values(type, f))

\* A franky object with every attribute set, and with any one or all of these unset.
AllSet(names) == [f \in names |-> f]
Unset(o, optional) ==
    {o} \cup {[g \in DOMAIN o |-> IF g \in some THEN None ELSE o[g]] :
                some \in {{f} : f \in optional} \cup {optional}}

Matrix(a, b, c, rest) == [diagonal |-> <<a, a, b, c, c, c>>, rest |-> rest]
Matrices == {Matrix(1, 1, 2, 0), Matrix(1, 2, 2, 0), Matrix(1, 1, 2, 3)}

JointImpedanceObjects ==
    {[cartesian_gains |-> g] @@ o :
        g \in {None} \cup [stiffness : Matrices, damping : {None, Matrix(1, 1, 2, 0)}],
        o \in Unset(AllSet(JointImpedanceFields),
                    {"target_velocity", "stiffness", "damping", "error_clip",
                     "constant_torque_offset", "lower_joint_limits", "upper_joint_limits",
                     "friction"})}

Tasks == {[task |-> t, of |-> x] : t \in {"PostureTask", "ManipulabilityTask", "Other"}, x \in {1, 2}}

CartesianImpedanceObjects ==
    {[stiffness |-> k, translational_stiffness |-> b[1], rotational_stiffness |-> b[2],
      target_type |-> r, nullspace_tasks |-> tasks] @@ o :
        r \in {"Absolute", "bare"},
        k \in Matrices, b \in {<<None, None>>, <<1, 2>>, <<1, None>>},
        tasks \in {<<>>} \cup {<<t>> : t \in Tasks} \cup (Tasks \X Tasks),
        o \in Unset(AllSet(CartesianImpedanceFields),
                    {"target_twist", "damping", "force_constraints", "translational_error_clip",
                     "rotational_error_clip", "lower_joint_limits", "upper_joint_limits",
                     "friction"})}

Kwargs == {[stiffness |-> "k", damping |-> d, friction |-> f, posture_task |-> t] :
             d \in {None, CRITICAL, "d"}, f \in {None, "f"}, t \in {None, "t"}}

MCMotions ==
    UNION {{[type |-> type, args |-> args] : args \in Calls(type)} : type \in Position \cup Velocity}
    \cup {[type |-> "JointImpedanceMotion", args |-> o] : o \in JointImpedanceObjects}
    \cup {[type |-> "CartesianImpedanceMotion", args |-> o] : o \in CartesianImpedanceObjects}
    \cup {[type |-> "TorqueStopMotion", args |-> o] :
            o \in Unset(AllSet(TorqueStopFields), {"damping"})}
    \cup {[type |-> type, args |-> kwargs] : type \in Tracking, kwargs \in Kwargs}
    \cup {[type |-> "SimpleTorqueMotion", args |-> [dq |-> None]]}
=============================================================================
