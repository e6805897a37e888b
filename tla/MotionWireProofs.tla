--------------------------- MODULE MotionWireProofs ---------------------------
(***************************************************************************)
(* Proofs about MotionWire: what a program makes, and sends, arrives next   *)
(* to the robot, whatever the values of its arguments.                      *)
(***************************************************************************)
EXTENDS MotionWire, SequenceTheorems, TLAPS

-----------------------------------------------------------------------------
(***************************************************************************)
(* Types and signatures.                                                    *)
(***************************************************************************)
Trajectory == Position \cup Velocity
Impedance == {"JointImpedanceMotion", "CartesianImpedanceMotion"}

\* No motion is of two kinds.
LEMMA KindsApart ==
    /\ Position \cap Velocity = {}
    /\ Trajectory \cap Tracking = {}
    /\ Impedance \cap (Trajectory \cup Tracking) = {}
    /\ "TorqueStopMotion" \notin Trajectory \cup Tracking
  BY DEF Trajectory, Impedance, Position, Velocity, PositionSignature, VelocitySignature, Tracking

\* A builder passes what franky's constructor takes, in its order.
LEMMA PassedInOrder ==
    ASSUME NEW type \in Trajectory
    PROVE  Passed(type) = Signature(type) /\ WaypointPassed(type) = WaypointSignature(type)
<1>1. PositionPassed = PositionSignature /\ VelocityPassed = VelocitySignature
  BY DEF PositionPassed, PositionSignature, VelocityPassed, VelocitySignature
<1>2. QED
  BY <1>1 DEF Passed, Signature, WaypointPassed, WaypointSignature

\* A waypoint has no waypoints.
LEMMA WaypointIsFlat ==
    ASSUME NEW type
    PROVE  "waypoints" \notin ToSet(WaypointSignature(type))
<1>1. CASE type \in Position
  <2>1. WaypointSignature(type) = <<"target", "reference_type", "relative_dynamics_factor",
            "minimum_time", "hold_target_duration", "max_total_duration">>
    BY <1>1 DEF WaypointSignature
  <2>2. QED
    BY <2>1 DEF ToSet
<1>2. CASE type \notin Position
  <2>1. WaypointSignature(type) = <<"target", "relative_dynamics_factor",
            "minimum_time", "hold_target_duration", "max_total_duration">>
    BY <1>2 DEF WaypointSignature
  <2>2. QED
    BY <2>1 DEF ToSet
<1>3. QED
  BY <1>1, <1>2

\* Passed in the constructor's order, every argument is bound to its own name.
LEMMA BoundByName ==
    ASSUME NEW type, NEW sig, NEW p
    PROVE  Arguments(type, sig, sig, p) = [f \in ToSet(sig) |-> BuildField(type, f, p[f])]
<1> DEFINE given == [i \in DOMAIN sig |-> BuildField(type, sig[i], p[sig[i]])]
<1>1. ASSUME NEW f \in ToSet(sig)
      PROVE  given[CHOOSE i \in DOMAIN sig : sig[i] = f] = BuildField(type, f, p[f])
  <2> DEFINE k == CHOOSE i \in DOMAIN sig : sig[i] = f
  <2>1. \E i \in DOMAIN sig : sig[i] = f
    BY DEF ToSet
  <2>2. k \in DOMAIN sig /\ sig[k] = f
    BY <2>1
  <2> HIDE DEF k
  <2>3. given[k] = BuildField(type, sig[k], p[sig[k]])
    BY <2>2
  <2>4. given[k] = BuildField(type, f, p[f])
    BY <2>2, <2>3
  <2>5. QED
    BY <2>4 DEF k
<1>2. Arguments(type, sig, sig, p) = Bound(sig, given)
  BY DEF Arguments
<1> HIDE DEF given
<1>3. QED
  BY <1>1, <1>2 DEF Bound

-----------------------------------------------------------------------------
(***************************************************************************)
(* One field.                                                               *)
(***************************************************************************)
\* What the encoder writes for an argument, and what franky's constructor makes of
\* what the builder reads.
Written(type, f, arg) == EncodeField(type, f, Attribute(type, f, arg))
Rebuilt(type, f, arg) == Attribute(type, f, BuildField(type, f, Written(type, f, arg)))

IsFactorArgument(arg) == arg \in {None} \cup [float : Number] \cup Scales

\* A factor that is one number, or left out, arrives as the same three.
LEMMA FactorArrives ==
    ASSUME NEW type, NEW arg, IsFactorArgument(arg)
    PROVE  Scaling(Rebuilt(type, "relative_dynamics_factor", arg))
             = Scaling(Attribute(type, "relative_dynamics_factor", arg))
<1> DEFINE RDF == "relative_dynamics_factor"
           a == Attribute(type, RDF, arg)
           w == EncodeFactor(a)
           b == BuildFactor(w)
<1>1. a \in [float : Number] \cup Scales
  <2>1. Float(1) \in [float : Number]
    BY DEF Float, Number, DefaultDuration
  <2>2. QED
    BY <2>1 DEF Attribute, Default, IsFactorArgument
<1>2. Written(type, RDF, arg) = w
  BY DEF Written, EncodeField
<1> HIDE DEF a
<1>3. ASSUME NEW n \in Number PROVE Factor(n, None, None) = [velocity |-> n, acceleration |-> n, jerk |-> n]
  BY DEF Factor
<1>4. w \in Scales /\ w = Scaling(a)
  <2>1. CASE a \in [float : Number]
    <3>1. IsFloat(a) /\ a.float \in Number
      BY <2>1 DEF IsFloat
    <3>2. QED
      BY <3>1, <1>3 DEF EncodeFactor, Scaling, Scales
  <2>2. CASE a \in Scales
    <3>1. ~ IsFloat(a)
      BY <2>2 DEF IsFloat, Scales
    <3>2. QED
      BY <2>2, <3>1 DEF EncodeFactor, Scaling
  <2>3. QED
    BY <1>1, <2>1, <2>2
<1> HIDE DEF w
<1>5. b = w
  <2>1. w = [velocity |-> w.velocity, acceleration |-> w.acceleration, jerk |-> w.jerk]
        /\ w.velocity \in Number /\ w.acceleration \in Number /\ w.jerk \in Number
    BY <1>4 DEF Scales
  <2>2. CASE w.velocity = w.acceleration /\ w.acceleration = w.jerk
    BY <1>3, <2>1, <2>2 DEF BuildFactor
  <2>3. CASE ~ (w.velocity = w.acceleration /\ w.acceleration = w.jerk)
    <3>1. b = Factor(w.velocity, w.acceleration, w.jerk)
      BY <2>3 DEF BuildFactor
    <3>2. w.acceleration # None /\ w.jerk # None
      BY <2>1, NoneAssumption DEF Scales
    <3>3. QED
      BY <2>1, <3>1, <3>2 DEF Factor
  <2>4. QED
    BY <2>2, <2>3
<1>6. Rebuilt(type, RDF, arg) = w
  <2>1. BuildField(type, RDF, w) = w
    BY <1>5 DEF BuildField
  <2>2. w # None
    BY <1>4, NoneAssumption
  <2>3. QED
    BY <1>2, <2>1, <2>2 DEF Rebuilt, Attribute
<1>7. Scaling(w) = w
  BY <1>4 DEF Scaling, IsFloat, Scales
<1>8. QED
  BY <1>4, <1>6, <1>7 DEF a

\* A field arrives with the meaning it had, a joint target's velocity apart.
LEMMA FieldArrives ==
    ASSUME NEW type \in Trajectory, NEW f, NEW arg, f # "waypoints",
           f = "relative_dynamics_factor" => IsFactorArgument(arg)
    PROVE  Meaning(f, Rebuilt(type, f, arg)) = Meaning(f, Attribute(type, f, arg))
<1>1. CASE f = "relative_dynamics_factor"
  BY <1>1, FactorArrives DEF Meaning
<1>2. CASE f = "target"
  <2> DEFINE a == AsTarget(type, arg)
             w == EncodeTarget(type, a)
             b == AsTarget(type, BuildTarget(type, w))
  <2>1. Attribute(type, f, arg) = a /\ Rebuilt(type, f, arg) = b
    BY <1>2 DEF Rebuilt, Written, Attribute, EncodeField, BuildField
  <2>2. type \in Velocity \/ (type \in Position /\ type \notin Velocity)
    BY KindsApart DEF Trajectory
  <2>3. CASE type \in Velocity
    <3>1. type \notin Position
      BY <2>3, KindsApart
    <3>2. a = arg
      BY <2>3, <3>1 DEF AsTarget
    <3>3. w = a
      BY <3>1 DEF EncodeTarget
    <3> HIDE DEF w, a
    <3>4. BuildTarget(type, w) = w
      BY <3>1 DEF BuildTarget
    <3>5. b = w
      BY <2>3, <3>1, <3>4 DEF AsTarget
    <3>6. a = b
      BY <3>3, <3>5
    <3>7. QED
      BY <3>6, <2>1 DEF a
  <2>4. CASE type \in Position /\ type \notin Velocity /\ type \in Cartesian
    <3>1. a = [as |-> "CartesianState", pose |-> arg.pose]
      BY <2>4 DEF AsTarget
    <3> HIDE DEF a
    <3>2. w = [type |-> "CartesianState", pose |-> arg.pose]
      BY <2>4, <3>1 DEF EncodeTarget
    <3> HIDE DEF w
    <3>3. BuildTarget(type, w) = [as |-> "CartesianState", pose |-> arg.pose]
      BY <2>4, <3>2 DEF BuildTarget
    <3>4. b = [as |-> "CartesianState", pose |-> arg.pose]
      BY <2>4, <3>3 DEF AsTarget
    <3>5. a = b
      BY <3>1, <3>4
    <3>6. QED
      BY <3>5, <2>1 DEF a, w
  <2>5. CASE type \in Position /\ type \notin Velocity /\ type \notin Cartesian
    <3>1. "position" \in DOMAIN a /\ a.position = arg.position
      BY <2>5 DEF AsTarget
    <3>2. w.position = arg.position
      BY <2>5, <3>1 DEF EncodeTarget
    <3> HIDE DEF w
    <3>3. "position" \in DOMAIN b /\ b.position = arg.position
      BY <2>5, <3>2 DEF AsTarget, BuildTarget
    <3>4. Goal(a) = Goal(b)
      BY <3>1, <3>3 DEF Goal
    <3>5. QED
      BY <1>2, <2>1, <3>4 DEF Meaning
  <2>6. a = b => Meaning(f, a) = Meaning(f, b)
    OBVIOUS
  <2>7. QED
    BY <2>1, <2>2, <2>3, <2>4, <2>5, <2>6
<1>3. CASE f # "relative_dynamics_factor" /\ f # "target"
  <2> DEFINE a == Attribute(type, f, arg)
  <2>1. a = IF arg = None THEN Default(f) ELSE arg
    BY <1>3 DEF Attribute
  <2>2. Rebuilt(type, f, arg) = IF a = None THEN Default(f) ELSE a
    BY <1>3 DEF Rebuilt, Written, Attribute, EncodeField, BuildField
  <2>3. Rebuilt(type, f, arg) = a
    BY <2>1, <2>2
  <2>4. QED
    BY <2>3
<1>4. QED
  BY <1>1, <1>2, <1>3

-----------------------------------------------------------------------------
(***************************************************************************)
(* The fields of an object, and of each of its waypoints.                   *)
(***************************************************************************)
LEMMA FieldsArrive ==
    ASSUME NEW type \in Trajectory, NEW sig, NEW args, IsArguments(sig, args),
           "waypoints" \notin ToSet(sig)
    PROVE  SameFields(Attributes(type, args),
                      Attributes(type, Arguments(type, sig, sig,
                                                 EncodeFields(type, Attributes(type, args)))))
<1> DEFINE o == Attributes(type, args)
           p == EncodeFields(type, o)
           given == Arguments(type, sig, sig, p)
           b == Attributes(type, given)
<1>1. DOMAIN o = ToSet(sig) /\ \A f \in ToSet(sig) : o[f] = Attribute(type, f, args[f])
  BY DEF Attributes, IsArguments
<1> HIDE DEF o
<1>2. \A f \in ToSet(sig) : p[f] = EncodeField(type, f, o[f])
  BY <1>1 DEF EncodeFields
<1> HIDE DEF p
<1>3. given = [f \in ToSet(sig) |-> BuildField(type, f, p[f])]
  BY BoundByName
<1> HIDE DEF given
<1>4. DOMAIN b = ToSet(sig) /\ \A f \in ToSet(sig) : b[f] = Attribute(type, f, given[f])
  BY <1>3 DEF Attributes
<1> HIDE DEF b
<1>5. ASSUME NEW f \in ToSet(sig)
      PROVE  Meaning(f, o[f]) = Meaning(f, b[f])
  <2>1. p[f] = Written(type, f, args[f])
    BY <1>1, <1>2 DEF Written
  <2>2. b[f] = Rebuilt(type, f, args[f])
    BY <1>3, <1>4, <2>1 DEF Rebuilt
  <2>3. f = "relative_dynamics_factor" => IsFactorArgument(args[f])
    BY DEF IsArguments, IsFactorArgument
  <2>4. f # "waypoints"
    OBVIOUS
  <2>5. QED
    BY <1>1, <2>2, <2>3, <2>4, FieldArrives
<1>6. SameFields(o, b)
  BY <1>1, <1>4, <1>5 DEF SameFields
<1>7. QED
  BY <1>6 DEF o, p, given, b

\* What constructors, encoders and builders do, with a motion that has waypoints
\* and with one that has none.
LEMMA Constructed ==
    ASSUME NEW type, NEW args
    PROVE  Construct(type, args) =
             [f \in DOMAIN args |->
                IF f = "waypoints"
                THEN [i \in DOMAIN args.waypoints |-> Attributes(type, args.waypoints[i])]
                ELSE Attribute(type, f, args[f])]
<1>1. CASE "waypoints" \notin DOMAIN args
  BY <1>1 DEF Construct, Attributes
<1>2. CASE "waypoints" \in DOMAIN args
  <2>1. Attributes(type, args).waypoints = args.waypoints
    BY <1>2 DEF Attributes, Attribute
  <2>2. Construct(type, args) =
          [Attributes(type, args) EXCEPT
             !.waypoints = [i \in DOMAIN args.waypoints |-> Attributes(type, args.waypoints[i])]]
    BY <1>2, <2>1 DEF Construct
  <2> DEFINE made == [i \in DOMAIN args.waypoints |-> Attributes(type, args.waypoints[i])]
  <2>3. [Attributes(type, args) EXCEPT !.waypoints = made] =
          [f \in DOMAIN args |-> IF f = "waypoints" THEN made ELSE Attribute(type, f, args[f])]
    <3> HIDE DEF made
    <3>1. QED
      BY DEF Attributes
  <2>4. QED
    BY <2>2, <2>3
<1>3. QED
  BY <1>1, <1>2

LEMMA Encoded ==
    ASSUME NEW type, NEW o
    PROVE  EncodeTrajectory(type, o) =
             [f \in DOMAIN o |->
                IF f = "waypoints"
                THEN [i \in DOMAIN o.waypoints |-> EncodeFields(type, o.waypoints[i])]
                ELSE EncodeField(type, f, o[f])]
<1>1. CASE "waypoints" \notin DOMAIN o
  BY <1>1 DEF EncodeTrajectory, EncodeFields
<1>2. CASE "waypoints" \in DOMAIN o
  <2>1. EncodeFields(type, o).waypoints = o.waypoints
    BY <1>2 DEF EncodeFields, EncodeField
  <2> DEFINE sent == [i \in DOMAIN o.waypoints |-> EncodeFields(type, o.waypoints[i])]
  <2>2. EncodeTrajectory(type, o) = [EncodeFields(type, o) EXCEPT !.waypoints = sent]
    BY <1>2, <2>1 DEF EncodeTrajectory
  <2>3. [EncodeFields(type, o) EXCEPT !.waypoints = sent] =
          [f \in DOMAIN o |-> IF f = "waypoints" THEN sent ELSE EncodeField(type, f, o[f])]
    <3> HIDE DEF sent
    <3>1. QED
      BY DEF EncodeFields
  <2>4. QED
    BY <2>2, <2>3
<1>3. QED
  BY <1>1, <1>2

LEMMA Given ==
    ASSUME NEW type \in Trajectory, NEW p
    PROVE  BuildTrajectory(type, p) =
             Construct(type,
               [f \in ToSet(Signature(type)) |->
                  IF f = "waypoints" THEN Waypoints(type, p.waypoints)
                  ELSE BuildField(type, f, p[f])])
<1> DEFINE S == ToSet(Signature(type))
           args == Arguments(type, Signature(type), Passed(type), p)
           built_ == [f \in S |-> IF f = "waypoints" THEN Waypoints(type, p.waypoints)
                                  ELSE BuildField(type, f, p[f])]
<1>1. args = [f \in S |-> BuildField(type, f, p[f])]
  BY PassedInOrder, BoundByName
<1> HIDE DEF args, S
<1>2. CASE "waypoints" \notin S
  <2>1. args = built_
    BY <1>1, <1>2
  <2>2. QED
    BY <1>1, <1>2, <2>1 DEF BuildTrajectory, args, S
<1>3. CASE "waypoints" \in S
  <2>1. args.waypoints = p.waypoints
    BY <1>1, <1>3 DEF BuildField
  <2>2. [args EXCEPT !.waypoints = Waypoints(type, @)] = built_
    BY <1>1, <1>3, <2>1
  <2>3. "waypoints" \in DOMAIN args
    BY <1>1, <1>3
  <2>4. QED
    BY <2>2, <2>3 DEF BuildTrajectory, args, S
<1>4. QED
  BY <1>2, <1>3

\* What a constructor is called with: its own arguments, and those of waypoints.
IsTrajectoryCall(type, args) ==
    /\ IsArguments(Signature(type), args)
    /\ "waypoints" \in DOMAIN args =>
         /\ IsSequence(args.waypoints)
         /\ \A i \in DOMAIN args.waypoints :
              IsArguments(WaypointSignature(type), args.waypoints[i])

LEMMA LenIsDomain ==
    ASSUME NEW n \in Nat, NEW s, s = [i \in 1..n |-> s[i]]
    PROVE  Len(s) = n
<1> DEFINE T == {s[i] : i \in 1..n}
<1>1. s \in [1..n -> T]
  OBVIOUS
<1>2. s \in Seq(T)
  BY <1>1
<1>3. Len(s) \in Nat /\ 1..n = 1..Len(s)
  BY <1>1, <1>2, LenProperties
<1>4. QED
  BY <1>3

LEMMA TrajectoryArrives ==
    ASSUME NEW type \in Trajectory, NEW args, IsTrajectoryCall(type, args)
    PROVE  LET o == Construct(type, args)
           IN  SameTrajectory(o, BuildTrajectory(type, EncodeTrajectory(type, o)))
<1> DEFINE S == ToSet(Signature(type))
           WS == WaypointSignature(type)
           o == Construct(type, args)
           p == EncodeTrajectory(type, o)
           given == [f \in S |-> IF f = "waypoints" THEN Waypoints(type, p.waypoints)
                                 ELSE BuildField(type, f, p[f])]
           b == BuildTrajectory(type, p)
           made == [i \in DOMAIN args.waypoints |-> Attributes(type, args.waypoints[i])]
           sent == [i \in DOMAIN o.waypoints |-> EncodeFields(type, o.waypoints[i])]
           again == [i \in DOMAIN given.waypoints |-> Attributes(type, given.waypoints[i])]
<1>1. DOMAIN args = S
  BY DEF IsTrajectoryCall, IsArguments
<1>2. o = [f \in S |-> IF f = "waypoints" THEN made ELSE Attribute(type, f, args[f])]
  BY <1>1, Constructed
<1> HIDE DEF o
<1>3. p = [f \in S |-> IF f = "waypoints" THEN sent ELSE EncodeField(type, f, o[f])]
  BY <1>2, Encoded
<1> HIDE DEF p
<1>4. b = Construct(type, given)
  BY Given
<1>5. b = [f \in S |-> IF f = "waypoints" THEN again ELSE Attribute(type, f, given[f])]
  BY <1>4, Constructed
<1> HIDE DEF b, made, sent, again, given
<1>6. SameFields(o, b)
  <2>1. DOMAIN o = DOMAIN b /\ DOMAIN o = S
    BY <1>2, <1>5
  <2>2. ASSUME NEW f \in S \ {"waypoints"}
        PROVE  Meaning(f, o[f]) = Meaning(f, b[f])
    <3>1. o[f] = Attribute(type, f, args[f])
      BY <1>2
    <3>2. p[f] = Written(type, f, args[f])
      BY <1>3, <3>1 DEF Written
    <3>3. given[f] = BuildField(type, f, p[f])
      BY DEF given
    <3>4. b[f] = Rebuilt(type, f, args[f])
      BY <1>5, <3>2, <3>3 DEF Rebuilt
    <3>5. f = "relative_dynamics_factor" => IsFactorArgument(args[f])
      BY DEF IsTrajectoryCall, IsArguments, IsFactorArgument
    <3>6. QED
      BY <3>1, <3>4, <3>5, FieldArrives
  <2>3. QED
    BY <2>1, <2>2 DEF SameFields
<1>7. ASSUME "waypoints" \in DOMAIN o
      PROVE  /\ Len(o.waypoints) = Len(b.waypoints)
             /\ \A i \in DOMAIN o.waypoints : SameFields(o.waypoints[i], b.waypoints[i])
  <2> DEFINE D == DOMAIN args.waypoints
             n == Len(args.waypoints)
  <2>1. "waypoints" \in S
    BY <1>2, <1>7
  <2>2. o.waypoints = made /\ p.waypoints = sent /\ b.waypoints = again
        /\ given.waypoints = Waypoints(type, p.waypoints)
    BY <1>2, <1>3, <1>5, <2>1 DEF given
  <2>3. D = 1..n /\ n \in Nat /\ \A i \in D : IsArguments(WS, args.waypoints[i])
    BY <1>1, <2>1 DEF IsTrajectoryCall, IsSequence
  <2>4. DOMAIN made = D /\ \A i \in D : made[i] = Attributes(type, args.waypoints[i])
    BY DEF made
  <2>5. DOMAIN sent = D /\ \A i \in D : sent[i] = EncodeFields(type, made[i])
    BY <2>2, <2>4 DEF sent
  <2>6. WaypointPassed(type) = WS
    BY PassedInOrder
  <2>7. DOMAIN given.waypoints = D
        /\ \A i \in D : given.waypoints[i] = Arguments(type, WS, WS, sent[i])
    BY <2>2, <2>5, <2>6 DEF Waypoints
  <2>8. DOMAIN again = D /\ \A i \in D : again[i] = Attributes(type, given.waypoints[i])
    BY <2>7 DEF again
  <2>9. ASSUME NEW i \in D
        PROVE  SameFields(made[i], again[i])
    <3>1. IsArguments(WS, args.waypoints[i]) /\ "waypoints" \notin ToSet(WS)
      BY <2>3, WaypointIsFlat
    <3>2. again[i] = Attributes(type, Arguments(type, WS, WS, EncodeFields(type, made[i])))
      BY <2>5, <2>7, <2>8
    <3>3. made[i] = Attributes(type, args.waypoints[i])
      BY <2>4
    <3> HIDE DEF WS
    <3>4. QED
      BY <3>1, <3>2, <3>3, FieldsArrive
  <2>10. Len(made) = Len(again)
    <3>1. made = [i \in 1..n |-> made[i]]
      BY <2>3, <2>4 DEF made
    <3>2. again = [i \in 1..n |-> again[i]]
      BY <2>3, <2>7, <2>8 DEF again
    <3>3. n \in Nat
      BY <2>3
    <3> HIDE DEF n
    <3>4. Len(made) = n
      BY <3>1, <3>3, LenIsDomain
    <3>5. Len(again) = n
      BY <3>2, <3>3, LenIsDomain
    <3>6. QED
      BY <3>4, <3>5
  <2>11. QED
    BY <2>2, <2>4, <2>9, <2>10
<1>8. SameTrajectory(o, b)
  BY <1>6, <1>7 DEF SameTrajectory
<1>9. QED
  BY <1>8 DEF o, p, b

LEMMA OnlyReferenceTypes ==
    ASSUME NEW type \in Trajectory
    PROVE  "target_type" \notin ToSet(Signature(type))
<1>1. CASE type \in Position
  BY <1>1 DEF Signature, Position, PositionSignature, ToSet
<1>2. CASE type \in Velocity /\ type \notin Position
  BY <1>2 DEF Signature, Velocity, VelocitySignature, ToSet
<1>3. QED
  BY <1>1, <1>2 DEF Trajectory

\* What was encodable can be built: every key is there, at every waypoint.
LEMMA TrajectoryBuildable ==
    ASSUME NEW type \in Trajectory, NEW args, IsTrajectoryCall(type, args),
           ReferencesEncodable(Construct(type, args))
    PROVE  Buildable(type, EncodeTrajectory(type, Construct(type, args)))
<1> DEFINE S == ToSet(Signature(type))
           WS == WaypointSignature(type)
           o == Construct(type, args)
           p == EncodeTrajectory(type, o)
           made == [i \in DOMAIN args.waypoints |-> Attributes(type, args.waypoints[i])]
           sent == [i \in DOMAIN o.waypoints |-> EncodeFields(type, o.waypoints[i])]
<1>1. DOMAIN args = S
  BY DEF IsTrajectoryCall, IsArguments
<1>2. o = [f \in S |-> IF f = "waypoints" THEN made ELSE Attribute(type, f, args[f])]
  BY <1>1, Constructed
<1>3. ReferencesEncodable(o)
  OBVIOUS
<1> HIDE DEF o
<1>4. p = [f \in S |-> IF f = "waypoints" THEN sent ELSE EncodeField(type, f, o[f])]
  BY <1>2, Encoded
<1> HIDE DEF p, made, sent, S
<1>5. Required(type) = S
  <2>1. Required(type) = ToSet(Passed(type))
    BY KindsApart DEF Required, Trajectory, Impedance
  <2>2. QED
    BY <2>1, PassedInOrder DEF S
<1>6. "waypoints" \in S =>
        /\ p.waypoints = sent /\ o.waypoints = made
        /\ DOMAIN sent = DOMAIN made
        /\ \A i \in DOMAIN sent : /\ DOMAIN sent[i] = ToSet(WS)
                                 /\ DOMAIN made[i] = ToSet(WS)
                                 /\ sent[i] = EncodeFields(type, made[i])
  <2> SUFFICES ASSUME "waypoints" \in S
               PROVE  /\ p.waypoints = sent /\ o.waypoints = made
                      /\ DOMAIN sent = DOMAIN made
                      /\ \A i \in DOMAIN sent : /\ DOMAIN sent[i] = ToSet(WS)
                                               /\ DOMAIN made[i] = ToSet(WS)
                                               /\ sent[i] = EncodeFields(type, made[i])
    OBVIOUS
  <2>1. p.waypoints = sent /\ o.waypoints = made
    BY <1>2, <1>4
  <2>2. \A i \in DOMAIN args.waypoints : DOMAIN args.waypoints[i] = ToSet(WS)
    BY <1>1 DEF IsTrajectoryCall, IsArguments
  <2>3. DOMAIN made = DOMAIN args.waypoints /\ \A i \in DOMAIN made : DOMAIN made[i] = ToSet(WS)
    BY <2>2 DEF made, Attributes
  <2>4. DOMAIN sent = DOMAIN made /\ \A i \in DOMAIN sent : sent[i] = EncodeFields(type, made[i])
    BY <2>1 DEF sent
  <2>5. \A i \in DOMAIN sent : DOMAIN sent[i] = ToSet(WS)
    BY <2>3, <2>4 DEF EncodeFields
  <2>6. QED
    BY <2>1, <2>3, <2>4, <2>5
<1>7. ReferencesEncodable(p)
  <2>1. "reference_type" \in S => p.reference_type = o.reference_type
    BY <1>2, <1>4 DEF EncodeField
  <2>2. ASSUME "waypoints" \in S, NEW i \in DOMAIN sent, "reference_type" \in ToSet(WS)
        PROVE  sent[i].reference_type = made[i].reference_type
    BY <1>6, <2>2 DEF EncodeFields, EncodeField
  <2>3. DOMAIN o = S /\ DOMAIN p = S
    BY <1>2, <1>4
  <2>4. "reference_type" \in S => p.reference_type \in ReferenceTypes
    BY <1>3, <2>1, <2>3 DEF ReferencesEncodable
  <2>5. ASSUME "waypoints" \in S, NEW i \in DOMAIN sent, "reference_type" \in DOMAIN sent[i]
        PROVE  sent[i].reference_type \in ReferenceTypes
    <3>1. i \in DOMAIN o.waypoints /\ "reference_type" \in DOMAIN o.waypoints[i]
          /\ "reference_type" \in ToSet(WS) /\ o.waypoints[i] = made[i]
      BY <1>6, <2>5
    <3>2. made[i].reference_type \in ReferenceTypes
      BY <1>3, <2>3, <2>5, <3>1 DEF ReferencesEncodable
    <3>3. QED
      BY <2>2, <2>5, <3>1, <3>2
  <2>6. "target_type" \notin S
    BY OnlyReferenceTypes DEF S
  <2>7. QED
    BY <1>6, <2>3, <2>4, <2>5, <2>6 DEF ReferencesEncodable
<1>8. "waypoints" \in DOMAIN p =>
        \A i \in DOMAIN p.waypoints : ToSet(WaypointPassed(type)) \subseteq DOMAIN p.waypoints[i]
  <2>1. WaypointPassed(type) = WS
    BY PassedInOrder
  <2>2. DOMAIN p = S
    BY <1>4
  <2>3. QED
    BY <1>6, <2>1, <2>2
<1>9. Required(type) \subseteq DOMAIN p
  BY <1>4, <1>5
<1>10. Buildable(type, p)
  BY <1>7, <1>8, <1>9 DEF Buildable
<1>11. QED
  BY <1>10 DEF p, o

-----------------------------------------------------------------------------
(***************************************************************************)
(* franky's objects: the impedance motions, and a tracker's.                *)
(***************************************************************************)
LEMMA JointImpedanceArrives ==
    ASSUME NEW o, DOMAIN o = JointImpedanceFields \cup {"cartesian_gains"}
    PROVE  LET p == EncodeJointImpedance(o)
           IN  /\ Buildable("JointImpedanceMotion", p)
               /\ Kept(o, BuildJointImpedance(p), JointImpedanceFields \ {"error_clip"})
               /\ SameGains(o, BuildJointImpedance(p))
<1> DEFINE type == "JointImpedanceMotion"
           p == EncodeJointImpedance(o)
           kwargs == BuildJointImpedance(p)
           added == {"cartesian_stiffness", "cartesian_damping"}
<1>1. added \cap JointImpedanceFields = {}
  BY DEF JointImpedanceFields
<1>2. DOMAIN p = JointImpedanceFields \cup added
      /\ \A f \in JointImpedanceFields : p[f] = o[f]
  <2>1. DOMAIN p = JointImpedanceFields \cup added
    BY DEF EncodeJointImpedance
  <2>2. ASSUME NEW f \in JointImpedanceFields PROVE p[f] = o[f]
    <3>1. f # "cartesian_stiffness" /\ f # "cartesian_damping"
      BY <1>1
    <3>2. QED
      BY <3>1 DEF EncodeJointImpedance
  <2>3. QED
    BY <2>1, <2>2
<1>3. /\ p.cartesian_stiffness = IF o.cartesian_gains = None THEN None
                                 ELSE Diagonal(o.cartesian_gains.stiffness)
      /\ p.cartesian_damping = IF o.cartesian_gains = None THEN None
                               ELSE Diagonal(o.cartesian_gains.damping)
  BY DEF EncodeJointImpedance
<1> HIDE DEF p
<1>4. Buildable(type, p)
  <2>1. {"reference_type", "target_type", "waypoints"} \cap DOMAIN p = {}
    BY <1>2 DEF JointImpedanceFields
  <2>2. type \notin Trajectory \cup Tracking
    BY KindsApart DEF Impedance
  <2>3. Required(type) \subseteq JointImpedanceFields
    BY <2>2 DEF Required, Trajectory, JointImpedanceFields
  <2>4. QED
    BY <1>2, <2>1, <2>3 DEF Buildable, ReferencesEncodable
<1>5. /\ Kept(o, kwargs, JointImpedanceFields \ {"error_clip"})
      /\ SameGains(o, kwargs)
  <2> DEFINE q == Of(p, DOMAIN p \ {"error_clip"})
  <2>1. DOMAIN q = DOMAIN p \ {"error_clip"} /\ \A f \in DOMAIN q : q[f] = p[f]
    BY DEF Of
  <2> HIDE DEF q
  <2>2. kwargs = WithoutNone(q)
    BY DEF BuildJointImpedance, q
  <2>3. DOMAIN kwargs = {g \in DOMAIN q : q[g] # None} /\ \A f \in DOMAIN kwargs : kwargs[f] = q[f]
    BY <2>2 DEF WithoutNone
  <2>4. Kept(o, kwargs, JointImpedanceFields \ {"error_clip"})
    BY <1>2, <2>1, <2>3 DEF Kept
  <2>5. "error_clip" \notin added /\ added \subseteq DOMAIN q
    BY <1>2, <2>1
  <2>6. ASSUME NEW gain \in {<<"stiffness", "cartesian_stiffness">>,
                             <<"damping", "cartesian_damping">>},
               NEW matrix,
               matrix = IF o.cartesian_gains = None THEN None ELSE o.cartesian_gains[gain[1]]
        PROVE  IF matrix = None THEN gain[2] \notin DOMAIN kwargs
               ELSE matrix.diagonal # None =>
                      gain[2] \in DOMAIN kwargs /\ kwargs[gain[2]] = matrix.diagonal
    <3>1. gain[2] \in added
      BY <2>6
    <3>2. p[gain[2]] = IF matrix = None THEN None ELSE matrix.diagonal
      BY <1>3, <2>6 DEF Diagonal
    <3>3. q[gain[2]] = p[gain[2]] /\ gain[2] \in DOMAIN q
      BY <2>1, <2>5, <3>1
    <3>4. QED
      BY <2>3, <3>2, <3>3
  <2>7. SameGains(o, kwargs)
    BY <2>6 DEF SameGains
  <2>8. QED
    BY <2>4, <2>7
<1>6. QED
  BY <1>4, <1>5 DEF p

\* The two numbers an isotropic stiffness is, whichever way franky was told them.
LEMMA StiffnessArrives ==
    ASSUME NEW o, NEW p, NEW kwargs,
           None \notin {o.stiffness.diagonal[i] : i \in 1..6}, o.stiffness # None,
           p.stiffness = o.stiffness, p.translational_stiffness = o.translational_stiffness,
           p.rotational_stiffness = o.rotational_stiffness,
           Stiffness(p)[1] # None =>
               kwargs.translational_stiffness = Stiffness(p)[1],
           Stiffness(p)[2] # None =>
               kwargs.rotational_stiffness = Stiffness(p)[2]
    PROVE  SameStiffness(o, kwargs)
<1> SUFFICES ASSUME NEW t \in {o.stiffness.diagonal[i] : i \in 1..6},
                    NEW r \in {o.stiffness.diagonal[i] : i \in 1..6},
                    StiffnessOf(o) = Isotropic(t, r)
             PROVE  kwargs.translational_stiffness = t /\ kwargs.rotational_stiffness = r
  BY DEF SameStiffness
<1>1. t # None /\ r # None
  OBVIOUS
<1>2. \A x, y : Isotropic(x, y).diagonal[1] = x /\ Isotropic(x, y).diagonal[4] = y
  BY DEF Isotropic
<1>3. Stiffness(p)[1] = t /\ Stiffness(p)[2] = r
  <2>1. CASE None \in {o.translational_stiffness, o.rotational_stiffness}
    <3>1. o.stiffness = Isotropic(t, r)
      BY <2>1 DEF StiffnessOf
    <3>2. o.stiffness.diagonal[1] = t /\ o.stiffness.diagonal[4] = r
      BY <1>2, <3>1
    <3>3. Stiffness(p) = <<o.stiffness.diagonal[1], o.stiffness.diagonal[4]>>
      BY <2>1 DEF Stiffness
    <3>4. QED
      BY <3>2, <3>3
  <2>2. CASE None \notin {o.translational_stiffness, o.rotational_stiffness}
    <3>1. Isotropic(o.translational_stiffness, o.rotational_stiffness) = Isotropic(t, r)
      BY <2>2 DEF StiffnessOf
    <3>2. o.translational_stiffness = t /\ o.rotational_stiffness = r
      BY <1>2, <3>1
    <3>3. Stiffness(p) = <<o.translational_stiffness, o.rotational_stiffness>>
      BY <2>2 DEF Stiffness
    <3>4. QED
      BY <3>2, <3>3
  <2>3. QED
    BY <2>1, <2>2
<1>4. QED
  BY <1>1, <1>3

LEMMA CartesianImpedanceArrives ==
    ASSUME NEW o, DOMAIN o = CartesianImpedanceFields \cup {"nullspace_tasks"},
           o.stiffness # None => None \notin {o.stiffness.diagonal[i] : i \in 1..6},
           IsSequence(o.nullspace_tasks),
           \A i \in DOMAIN o.nullspace_tasks : o.nullspace_tasks[i] # None,
           ReferencesEncodable(o), TasksEncodable(o)
    PROVE  LET p == EncodeCartesianImpedance(o)
               kwargs == BuildCartesianImpedance(p)
           IN  /\ Buildable("CartesianImpedanceMotion", p)
               /\ Kept(o, kwargs, CartesianImpedanceFields \
                         {"damping", "stiffness", "translational_stiffness",
                          "rotational_stiffness"})
               /\ SameTasks(o, kwargs)
               /\ o.stiffness # None => SameStiffness(o, kwargs)
<1> DEFINE type == "CartesianImpedanceMotion"
           tasks == o.nullspace_tasks
           p == EncodeCartesianImpedance(o)
           kwargs == BuildCartesianImpedance(p)
           kinds == {"posture_task", "manipulability_task"}
           q == [Of(p, DOMAIN p \ {"stiffness", "damping"}) EXCEPT
                    !.translational_stiffness = Stiffness(p)[1],
                    !.rotational_stiffness = Stiffness(p)[2]]
<1>1. kinds \cap CartesianImpedanceFields = {}
  BY DEF CartesianImpedanceFields
<1>2. /\ DOMAIN p = CartesianImpedanceFields \cup kinds
      /\ \A f \in CartesianImpedanceFields : p[f] = o[f]
      /\ p.posture_task = TheTask(o, "PostureTask")
      /\ p.manipulability_task = TheTask(o, "ManipulabilityTask")
  <2>1. DOMAIN p = CartesianImpedanceFields \cup kinds
    BY DEF EncodeCartesianImpedance
  <2>2. ASSUME NEW f \in CartesianImpedanceFields PROVE p[f] = o[f]
    <3>1. f # "posture_task" /\ f # "manipulability_task"
      BY <1>1
    <3>2. QED
      BY <3>1 DEF EncodeCartesianImpedance
  <2>3. p.posture_task = TheTask(o, "PostureTask")
    BY DEF EncodeCartesianImpedance
  <2>4. p.manipulability_task = TheTask(o, "ManipulabilityTask")
    BY DEF EncodeCartesianImpedance
  <2>5. QED
    BY <2>1, <2>2, <2>3, <2>4
<1> HIDE DEF p
<1>3. {"translational_stiffness", "rotational_stiffness", "stiffness"} \subseteq CartesianImpedanceFields
  BY DEF CartesianImpedanceFields
<1>4. Buildable(type, p)
  <2>1. {"reference_type", "waypoints"} \cap DOMAIN p = {} /\ p.target_type = o.target_type
        /\ o.target_type \in ReferenceTypes
    BY <1>2 DEF CartesianImpedanceFields, ReferencesEncodable
  <2>2. type \notin Trajectory \cup Tracking
    BY KindsApart DEF Impedance
  <2>3. Required(type) \subseteq CartesianImpedanceFields
    BY <2>2 DEF Required, Trajectory
  <2>4. QED
    BY <1>2, <2>1, <2>3 DEF Buildable, ReferencesEncodable
<1>5. /\ DOMAIN q = DOMAIN p \ {"stiffness", "damping"}
      /\ \A f \in DOMAIN q \ {"translational_stiffness", "rotational_stiffness"} : q[f] = p[f]
      /\ q.translational_stiffness = Stiffness(p)[1]
      /\ q.rotational_stiffness = Stiffness(p)[2]
      /\ {"translational_stiffness", "rotational_stiffness"} \subseteq DOMAIN q
  BY <1>2, <1>3 DEF Of
<1> HIDE DEF q
<1>6. kwargs = WithoutNone(q)
  BY DEF BuildCartesianImpedance, q
<1>7. DOMAIN kwargs = {g \in DOMAIN q : q[g] # None} /\ \A f \in DOMAIN kwargs : kwargs[f] = q[f]
  BY <1>6 DEF WithoutNone
<1> HIDE DEF kwargs
<1>8. Kept(o, kwargs, CartesianImpedanceFields \
             {"damping", "stiffness", "translational_stiffness", "rotational_stiffness"})
  BY <1>2, <1>5, <1>7 DEF Kept
<1>9. SameTasks(o, kwargs)
  <2>1. ASSUME NEW kind \in {"PostureTask", "ManipulabilityTask"}
        PROVE  {tasks[i] : i \in TasksOf(o, kind)}
                 = IF TheTask(o, kind) = None THEN {} ELSE {TheTask(o, kind)}
    <3>1. CASE TasksOf(o, kind) = {}
      <4>1. {tasks[i] : i \in TasksOf(o, kind)} = {}
        BY <3>1
      <4>2. QED
        BY <3>1, <4>1 DEF TheTask
    <3>2. CASE TasksOf(o, kind) # {}
      <4>1. PICK k \in TasksOf(o, kind) : TRUE
        BY <3>2
      <4>2. \A i \in TasksOf(o, kind) : i = k
        BY <4>1 DEF TasksEncodable
      <4>3. k \in DOMAIN tasks /\ k \in Nat
        BY <4>1 DEF TasksOf, IsSequence
      <4>4. k <= k
        BY <4>3
      <4>5. (CHOOSE i \in TasksOf(o, kind) : \A j \in TasksOf(o, kind) : i <= j) = k
        BY <4>1, <4>2, <4>4
      <4>6. TheTask(o, kind) = tasks[k] /\ tasks[k] # None
        BY <3>2, <4>3, <4>5 DEF TheTask
      <4>7. {tasks[i] : i \in TasksOf(o, kind)} = {tasks[k]}
        BY <4>1, <4>2
      <4>8. QED
        BY <4>6, <4>7
    <3>3. QED
      BY <3>1, <3>2
  <2>2. \A f \in kinds : f \in DOMAIN kwargs <=> p[f] # None
    BY <1>1, <1>2, <1>3, <1>5, <1>7
  <2>3. \A f \in kinds \cap DOMAIN kwargs : kwargs[f] = p[f]
    BY <1>1, <1>3, <1>5, <1>7
  <2>4. ToSet(tasks) = {tasks[i] : i \in TasksOf(o, "PostureTask")}
                       \cup {tasks[i] : i \in TasksOf(o, "ManipulabilityTask")}
    BY DEF ToSet, TasksOf, TasksEncodable
  <2>5. {kwargs[f] : f \in kinds \cap DOMAIN kwargs}
          = {p[f] : f \in {g \in kinds : p[g] # None}}
    BY <2>2, <2>3
  <2>6. {p[f] : f \in {g \in kinds : p[g] # None}}
          = (IF p.posture_task = None THEN {} ELSE {p.posture_task})
            \cup (IF p.manipulability_task = None THEN {} ELSE {p.manipulability_task})
    OBVIOUS
  <2>7. QED
    BY <1>2, <2>1, <2>4, <2>5, <2>6 DEF SameTasks
<1>10. ASSUME o.stiffness # None PROVE SameStiffness(o, kwargs)
  <2>1. p.stiffness = o.stiffness /\ p.translational_stiffness = o.translational_stiffness
        /\ p.rotational_stiffness = o.rotational_stiffness
    BY <1>2, <1>3
  <2>2. Stiffness(p)[1] # None => kwargs.translational_stiffness = Stiffness(p)[1]
    BY <1>5, <1>7
  <2>3. Stiffness(p)[2] # None => kwargs.rotational_stiffness = Stiffness(p)[2]
    BY <1>5, <1>7
  <2>4. QED
    BY <1>10, <2>1, <2>2, <2>3, StiffnessArrives
<1>11. QED
  BY <1>4, <1>8, <1>9, <1>10 DEF p, kwargs

LEMMA TorqueStopArrives ==
    ASSUME NEW o, o = [f \in TorqueStopFields |-> o[f]]
    PROVE  LET p == [f \in TorqueStopFields |-> o[f]]
           IN  p = o /\ Buildable("TorqueStopMotion", p)
<1>1. DOMAIN o = TorqueStopFields
  OBVIOUS
<1>2. {"reference_type", "target_type", "waypoints"} \cap TorqueStopFields = {}
  BY DEF TorqueStopFields
<1>3. Required("TorqueStopMotion") \subseteq TorqueStopFields
  BY KindsApart DEF Required, Trajectory
<1>4. Buildable("TorqueStopMotion", o)
  BY <1>1, <1>2, <1>3 DEF Buildable, ReferencesEncodable
<1>5. QED
  BY <1>4

LEMMA KwargsArrive ==
    ASSUME NEW type \in Tracking, NEW o,
           {"reference_type", "target_type", "waypoints"} \cap DOMAIN o = {},
           \A f \in DOMAIN o : o[f] # CRITICAL_DAMPING
    PROVE  LET p == EncodeKwargs(o)
           IN  /\ Buildable(type, p)
               /\ \A f \in DOMAIN o : IF o[f] = CRITICAL THEN f \notin DOMAIN BuildKwargs(p)
                                       ELSE BuildKwargs(p)[f] = o[f]
<1> DEFINE p == EncodeKwargs(o)
<1>1. DOMAIN p = DOMAIN o
      /\ \A f \in DOMAIN o : p[f] = IF o[f] = CRITICAL THEN CRITICAL_DAMPING ELSE o[f]
  BY DEF EncodeKwargs
<1> HIDE DEF p
<1>2. Required(type) = {}
  BY KindsApart DEF Required, Trajectory, Impedance, Tracking
<1>3. Buildable(type, p)
  BY <1>1, <1>2 DEF Buildable, ReferencesEncodable
<1>4. DOMAIN BuildKwargs(p) = {f \in DOMAIN p : p[f] # CRITICAL_DAMPING}
      /\ \A f \in DOMAIN BuildKwargs(p) : BuildKwargs(p)[f] = p[f]
  BY DEF BuildKwargs, Of
<1>5. QED
  BY <1>1, <1>3, <1>4 DEF p

-----------------------------------------------------------------------------
(***************************************************************************)
(* The run of one call.                                                     *)
(***************************************************************************)
Arrived(type, o, b) ==
    CASE type \in Position \cup Velocity -> SameTrajectory(o, b)
      [] type = "JointImpedanceMotion" ->
           Kept(o, b, JointImpedanceFields \ {"error_clip"}) /\ SameGains(o, b)
      [] type = "CartesianImpedanceMotion" ->
           /\ Kept(o, b, CartesianImpedanceFields \
                     {"damping", "stiffness", "translational_stiffness",
                      "rotational_stiffness"})
           /\ SameTasks(o, b)
           /\ o.stiffness # None => SameStiffness(o, b)
      [] type = "TorqueStopMotion" -> b = o
      [] type \in Tracking ->
           \A f \in DOMAIN o : IF o[f] = CRITICAL THEN f \notin DOMAIN b ELSE b[f] = o[f]

\* Whatever can be encoded can be built, and what is built is what was made.
LEMMA WhatIsSentArrives ==
    ASSUME NEW motion \in Motions, Encodable(motion.type, Object(motion))
    PROVE  LET p == Encode(motion.type, Object(motion))
           IN  /\ Buildable(motion.type, p)
               /\ Arrived(motion.type, Object(motion), Build(motion.type, p))
<1> DEFINE type == motion.type
           args == motion.args
           o == Object(motion)
           p == Encode(type, o)
           b == Build(type, p)
<1>1. IsCall(motion)
  BY MotionsAssumption
<1>2. HasEncoder(type) /\ ReferencesEncodable(o) /\ TasksEncodable(o)
  BY DEF Encodable
<1>3. CASE type \in Trajectory
  <2>1. IsTrajectoryCall(type, args)
    BY <1>1, <1>3, KindsApart DEF IsCall, IsTrajectoryCall, Trajectory, Impedance
  <2>2. o = Construct(type, args)
    BY <1>3 DEF Object, Trajectory
  <2>3. p = EncodeTrajectory(type, o)
    BY <1>3, KindsApart DEF Encode, Trajectory, Impedance
  <2>4. b = BuildTrajectory(type, p)
    BY <1>3, KindsApart DEF Build, Trajectory, Impedance
  <2>5. SameTrajectory(o, b)
    BY <1>3, <2>1, <2>2, <2>3, <2>4, TrajectoryArrives
  <2>6. Buildable(type, p)
    BY <1>2, <1>3, <2>1, <2>2, <2>3, TrajectoryBuildable
  <2>7. Arrived(type, o, b)
    BY <1>3, <2>5, KindsApart DEF Arrived, Trajectory, Impedance
  <2>8. QED
    BY <2>6, <2>7
<1>4. ASSUME type \notin Trajectory
      PROVE  o = args
  BY <1>4 DEF Object, Trajectory
<1>5. CASE type = "JointImpedanceMotion"
  <2>1. type \notin Trajectory /\ type \notin Tracking
    BY <1>5, KindsApart DEF Impedance
  <2>2. DOMAIN o = JointImpedanceFields \cup {"cartesian_gains"}
    BY <1>1, <1>4, <1>5, <2>1 DEF IsCall, Trajectory
  <2>3. p = EncodeJointImpedance(o)
    BY <1>5, <2>1 DEF Encode, Trajectory
  <2>4. b = BuildJointImpedance(p)
    BY <1>5, <2>1 DEF Build, Trajectory
  <2>5. /\ Buildable(type, p) /\ SameGains(o, b)
        /\ Kept(o, b, JointImpedanceFields \ {"error_clip"})
    BY <1>5, <2>2, <2>3, <2>4, JointImpedanceArrives
  <2>6. Arrived(type, o, b)
    BY <1>5, <2>1, <2>5 DEF Arrived, Trajectory
  <2>7. QED
    BY <2>5, <2>6
<1>6. CASE type = "CartesianImpedanceMotion"
  <2>1. type \notin Trajectory /\ type \notin Tracking
    BY <1>6, KindsApart DEF Impedance
  <2>2. /\ DOMAIN o = CartesianImpedanceFields \cup {"nullspace_tasks"}
        /\ o.stiffness # None => None \notin {o.stiffness.diagonal[i] : i \in 1..6}
        /\ IsSequence(o.nullspace_tasks)
        /\ \A i \in DOMAIN o.nullspace_tasks : o.nullspace_tasks[i] # None
    BY <1>1, <1>4, <1>6, <2>1 DEF IsCall, Trajectory
  <2>3. p = EncodeCartesianImpedance(o)
    BY <1>6, <2>1 DEF Encode, Trajectory
  <2>4. b = BuildCartesianImpedance(p)
    BY <1>6, <2>1 DEF Build, Trajectory
  <2> HIDE DEF o, p, b
  <2>5. /\ Buildable(type, p)
        /\ Kept(o, b, CartesianImpedanceFields \
                  {"damping", "stiffness", "translational_stiffness", "rotational_stiffness"})
        /\ SameTasks(o, b)
        /\ o.stiffness # None => SameStiffness(o, b)
    BY <1>2, <1>6, <2>2, <2>3, <2>4, CartesianImpedanceArrives
  <2>6. Arrived(type, o, b)
    BY <1>6, <2>1, <2>5 DEF Arrived, Trajectory
  <2>7. QED
    BY <2>5, <2>6 DEF o, p, b
<1>7. CASE type = "TorqueStopMotion"
  <2>1. type \notin Trajectory /\ type \notin Tracking
    BY <1>7, KindsApart
  <2>2. o = [f \in TorqueStopFields |-> o[f]]
    BY <1>1, <1>4, <1>7, <2>1 DEF IsCall, Trajectory
  <2>3. p = [f \in TorqueStopFields |-> o[f]]
    BY <1>7, <2>1 DEF Encode, Trajectory
  <2>4. b = p
    BY <1>7, <2>1 DEF Build, Trajectory
  <2>5. Buildable(type, p) /\ b = o
    BY <1>7, <2>2, <2>3, <2>4, TorqueStopArrives
  <2>6. Arrived(type, o, b)
    BY <1>7, <2>1, <2>5 DEF Arrived, Trajectory
  <2>7. QED
    BY <2>5, <2>6
<1>8. CASE type \in Tracking
  <2>1. type \notin Trajectory /\ type \notin Impedance /\ type # "TorqueStopMotion"
    BY <1>8, KindsApart
  <2>2. {"reference_type", "target_type", "waypoints"} \cap DOMAIN o = {}
        /\ \A f \in DOMAIN o : o[f] # CRITICAL_DAMPING
    BY <1>1, <1>4, <1>8, <2>1 DEF IsCall, Trajectory, Impedance
  <2>3. p = EncodeKwargs(o)
    BY <1>8, <2>1 DEF Encode, Trajectory, Impedance
  <2>4. b = BuildKwargs(p)
    BY <1>8, <2>1 DEF Build, Trajectory, Impedance
  <2> HIDE DEF o, p, b
  <2>5. Buildable(type, p)
        /\ \A f \in DOMAIN o : IF o[f] = CRITICAL THEN f \notin DOMAIN b ELSE b[f] = o[f]
    BY <1>8, <2>2, <2>3, <2>4, KwargsArrive
  <2>6. Arrived(type, o, b)
    BY <1>8, <2>1, <2>5 DEF Arrived, Trajectory, Impedance
  <2>7. QED
    BY <2>5, <2>6 DEF o, p, b
<1>9. QED
  BY <1>2, <1>3, <1>5, <1>6, <1>7, <1>8 DEF HasEncoder, Trajectory

\* A call on its way is one the program could encode, and carries its own payload.
OnItsWay ==
    /\ stage \in {"idle", "asked", "refused", "sent", "moving"}
    /\ stage \in {"asked", "sent", "moving"} => asked \in Motions
    /\ stage \in {"sent", "moving"} =>
         /\ Encodable(asked.type, Object(asked))
         /\ payload = Encode(asked.type, Object(asked))
    /\ stage \in {"idle", "asked", "refused"} => payload = None
    /\ stage = "moving" => built = Build(asked.type, payload)

LEMMA StaysOnItsWay == Spec => []OnItsWay
<1>1. Init => OnItsWay
  BY DEF Init, OnItsWay
<1>2. OnItsWay /\ [Next]_vars => OnItsWay'
  <2> SUFFICES ASSUME OnItsWay, [Next]_vars PROVE OnItsWay'
    OBVIOUS
  <2>1. CASE Ask
    BY <2>1 DEF OnItsWay, Ask
  <2>2. CASE Refuse
    BY <2>2 DEF OnItsWay, Refuse
  <2>3. CASE Send
    BY <2>3 DEF OnItsWay, Send
  <2>4. CASE Move
    <3>1. Buildable(asked.type, payload)
      BY <2>4, WhatIsSentArrives DEF OnItsWay, Move
    <3>2. QED
      BY <2>4, <3>1 DEF OnItsWay, Move
  <2>5. CASE Return
    BY <2>5 DEF OnItsWay, Return
  <2>6. CASE UNCHANGED vars
    BY <2>6 DEF OnItsWay, vars
  <2>7. QED
    BY <2>1, <2>2, <2>3, <2>4, <2>5, <2>6 DEF Next
<1>3. QED
  BY <1>1, <1>2, PTL DEF Spec

-----------------------------------------------------------------------------
(***************************************************************************)
(* What is on the wire.                                                     *)
(***************************************************************************)
\* Whatever a program gives for a factor, and when it gives none, three numbers
\* are sent.
LEMMA FactorIsThree ==
    ASSUME NEW type, NEW arg, IsFactorArgument(arg)
    PROVE  Written(type, "relative_dynamics_factor", arg) \in Scales
<1> DEFINE a == Attribute(type, "relative_dynamics_factor", arg)
<1>1. a \in [float : Number] \cup Scales
  <2>1. Float(1) \in [float : Number]
    BY DEF Float, Number
  <2>2. QED
    BY <2>1 DEF Attribute, Default, IsFactorArgument
<1>2. Written(type, "relative_dynamics_factor", arg) = EncodeFactor(a)
  BY DEF Written, EncodeField
<1> HIDE DEF a
<1>3. CASE a \in [float : Number]
  <2>1. IsFloat(a) /\ a.float \in Number
    BY <1>3 DEF IsFloat
  <2>2. EncodeFactor(a) = [velocity |-> a.float, acceleration |-> a.float, jerk |-> a.float]
    BY <2>1 DEF EncodeFactor, Factor
  <2>3. QED
    BY <1>2, <2>1, <2>2 DEF Scales
<1>4. CASE a \in Scales
  <2>1. ~ IsFloat(a)
    BY <1>4 DEF IsFloat, Scales
  <2>2. QED
    BY <1>2, <1>4, <2>1 DEF EncodeFactor
<1>5. QED
  BY <1>1, <1>3, <1>4

LEMMA FieldsAreThree ==
    ASSUME NEW type, NEW sig, NEW args, IsArguments(sig, args)
    PROVE  FactorOK(EncodeFields(type, Attributes(type, args)))
<1> DEFINE RDF == "relative_dynamics_factor"
           p == EncodeFields(type, Attributes(type, args))
<1>1. DOMAIN p = DOMAIN args
      /\ \A f \in DOMAIN args : p[f] = Written(type, f, args[f])
  BY DEF EncodeFields, Attributes, Written
<1>2. IsFactorArgument(args.relative_dynamics_factor)
  BY DEF IsArguments, IsFactorArgument
<1>3. Written(type, RDF, args.relative_dynamics_factor) \in Scales
  BY <1>2, FactorIsThree
<1> HIDE DEF p
<1>4. FactorOK(p)
  BY <1>1, <1>3 DEF FactorOK
<1>5. QED
  BY <1>4 DEF p

\* The factors of what is sent, its own and its waypoints'.
FactorsSent(p) ==
    /\ FactorOK(p)
    /\ "waypoints" \in DOMAIN p =>
         \A i \in DOMAIN p.waypoints : FactorOK(p.waypoints[i])

LEMMA TrajectoryIsThree ==
    ASSUME NEW type \in Trajectory, NEW args, IsTrajectoryCall(type, args)
    PROVE  FactorsSent(EncodeTrajectory(type, Construct(type, args)))
<1> DEFINE RDF == "relative_dynamics_factor"
           o == Construct(type, args)
           p == EncodeTrajectory(type, o)
<1>1. /\ DOMAIN o = DOMAIN args
      /\ \A f \in DOMAIN args \ {"waypoints"} : o[f] = Attribute(type, f, args[f])
      /\ "waypoints" \in DOMAIN args =>
           o.waypoints = [i \in DOMAIN args.waypoints |-> Attributes(type, args.waypoints[i])]
  BY Constructed
<1> HIDE DEF o
<1>2. /\ DOMAIN p = DOMAIN o
      /\ \A f \in DOMAIN o \ {"waypoints"} : p[f] = EncodeField(type, f, o[f])
      /\ "waypoints" \in DOMAIN o =>
           p.waypoints = [i \in DOMAIN o.waypoints |-> EncodeFields(type, o.waypoints[i])]
  BY Encoded
<1> HIDE DEF p
<1>3. FactorOK(p)
  <2>1. CASE RDF \notin DOMAIN p
    BY <2>1 DEF FactorOK
  <2>2. CASE RDF \in DOMAIN p
    <3>1. p[RDF] = Written(type, RDF, args[RDF])
      BY <1>1, <1>2, <2>2 DEF Written
    <3>2. IsFactorArgument(args[RDF])
      BY DEF IsTrajectoryCall, IsArguments, IsFactorArgument
    <3>3. p[RDF] \in Scales
      BY <3>1, <3>2, FactorIsThree
    <3>4. QED
      BY <3>3 DEF FactorOK
  <2>3. QED
    BY <2>1, <2>2
<1>4. ASSUME "waypoints" \in DOMAIN p, NEW i \in DOMAIN p.waypoints
      PROVE  FactorOK(p.waypoints[i])
  <2>1. /\ "waypoints" \in DOMAIN args
        /\ i \in DOMAIN args.waypoints
        /\ p.waypoints[i] = EncodeFields(type, Attributes(type, args.waypoints[i]))
    BY <1>1, <1>2, <1>4
  <2>2. IsArguments(WaypointSignature(type), args.waypoints[i])
    BY <2>1 DEF IsTrajectoryCall
  <2>3. QED
    BY <2>1, <2>2, FieldsAreThree
<1>5. FactorsSent(p)
  BY <1>3, <1>4 DEF FactorsSent
<1>6. QED
  BY <1>5 DEF p, o

\* The other motions have no factor and no waypoints.
LEMMA OthersHaveNone ==
    ASSUME NEW p, {"waypoints", "relative_dynamics_factor"} \cap DOMAIN p = {}
    PROVE  FactorsSent(p)
  BY DEF FactorsSent, FactorOK

LEMMA WhatIsSentIsPlain ==
    ASSUME NEW motion \in Motions, Encodable(motion.type, Object(motion))
    PROVE  LET p == Encode(motion.type, Object(motion))
           IN  /\ FactorsSent(p)
               /\ motion.type \in Tracking => \A f \in DOMAIN p : p[f] # CRITICAL
<1> DEFINE type == motion.type
           args == motion.args
           o == Object(motion)
           p == Encode(type, o)
<1>1. IsCall(motion)
  BY MotionsAssumption
<1>2. HasEncoder(type)
  BY DEF Encodable
<1>3. CASE type \in Trajectory
  <2>1. IsTrajectoryCall(type, args)
    BY <1>1, <1>3, KindsApart DEF IsCall, IsTrajectoryCall, Trajectory, Impedance
  <2>2. p = EncodeTrajectory(type, Construct(type, args))
    BY <1>3, KindsApart DEF Encode, Object, Trajectory, Impedance
  <2>3. type \notin Tracking
    BY <1>3, KindsApart
  <2>4. QED
    BY <1>3, <2>1, <2>2, <2>3, TrajectoryIsThree
<1>4. CASE type = "JointImpedanceMotion"
  <2>1. type \notin Trajectory /\ type \notin Tracking
    BY <1>4, KindsApart DEF Impedance
  <2>2. p = EncodeJointImpedance(o)
    BY <1>4, <2>1 DEF Encode, Trajectory
  <2>3. {"waypoints", "relative_dynamics_factor"} \cap DOMAIN p = {}
    BY <2>2 DEF EncodeJointImpedance, JointImpedanceFields
  <2>4. QED
    BY <2>1, <2>3, OthersHaveNone
<1>5. CASE type = "CartesianImpedanceMotion"
  <2>1. type \notin Trajectory /\ type \notin Tracking
    BY <1>5, KindsApart DEF Impedance
  <2>2. p = EncodeCartesianImpedance(o)
    BY <1>5, <2>1 DEF Encode, Trajectory
  <2>3. {"waypoints", "relative_dynamics_factor"} \cap DOMAIN p = {}
    BY <2>2 DEF EncodeCartesianImpedance, CartesianImpedanceFields
  <2>4. QED
    BY <2>1, <2>3, OthersHaveNone
<1>6. CASE type = "TorqueStopMotion"
  <2>1. type \notin Trajectory /\ type \notin Tracking
    BY <1>6, KindsApart
  <2>2. p = [f \in TorqueStopFields |-> o[f]]
    BY <1>6, <2>1 DEF Encode, Trajectory
  <2>3. {"waypoints", "relative_dynamics_factor"} \cap DOMAIN p = {}
    BY <2>2 DEF TorqueStopFields
  <2>4. QED
    BY <2>1, <2>3, OthersHaveNone
<1>7. CASE type \in Tracking
  <2>1. type \notin Trajectory /\ type \notin Impedance /\ type # "TorqueStopMotion"
    BY <1>7, KindsApart
  <2>2. o = args
    BY <2>1 DEF Object, Trajectory
  <2>3. {"reference_type", "waypoints", "relative_dynamics_factor"} \cap DOMAIN o = {}
    BY <1>1, <1>7, <2>1, <2>2 DEF IsCall, Trajectory, Impedance
  <2>4. p = EncodeKwargs(o)
    BY <1>7, <2>1 DEF Encode, Trajectory, Impedance
  <2> HIDE DEF o, p
  <2>5. DOMAIN p = DOMAIN o /\ \A f \in DOMAIN p : p[f] # CRITICAL
    BY <2>4, CriticalAssumption DEF EncodeKwargs
  <2>6. FactorsSent(p)
    BY <2>3, <2>5, OthersHaveNone
  <2>7. QED
    BY <2>5, <2>6 DEF o, p
<1>8. QED
  BY <1>2, <1>3, <1>4, <1>5, <1>6, <1>7 DEF HasEncoder, Trajectory

\* Whatever motions a program makes, what is sent of them is plain data: a factor
\* that was one number, or left out, is three, in every waypoint too, and
\* encode_rpc_value leaves no CRITICAL in a tracker's arguments.
THEOREM SentIsPlain == Spec => []TypeOK
<1>1. OnItsWay => TypeOK
  <2> SUFFICES ASSUME OnItsWay PROVE TypeOK
    OBVIOUS
  <2>1. stage \in {"idle", "asked", "refused", "sent", "moving", "failed"}
    BY DEF OnItsWay
  <2>2. ASSUME payload # None
        PROVE  /\ FactorsSent(payload)
               /\ asked.type \in Tracking => \A f \in DOMAIN payload : payload[f] # CRITICAL
    <3>1. stage \in {"sent", "moving"}
      BY <2>2 DEF OnItsWay
    <3>2. asked \in Motions /\ Encodable(asked.type, Object(asked))
          /\ payload = Encode(asked.type, Object(asked))
      BY <3>1 DEF OnItsWay
    <3>3. QED
      BY <3>2, WhatIsSentIsPlain
  <2>3. QED
    BY <2>1, <2>2 DEF TypeOK, FactorsSent
<1>2. QED
  BY <1>1, StaysOnItsWay, PTL

\* Whatever motions a program makes and however many waypoints they have, what the
\* encoders of protocol.py accept the builders of zmq_server_franky.py can build:
\* a motion is refused in the program or not at all.
THEOREM RefusedWhereMade == Spec => []RefusedInTheProgram
<1>1. OnItsWay => RefusedInTheProgram
  BY DEF OnItsWay, RefusedInTheProgram
<1>2. QED
  BY <1>1, StaysOnItsWay, PTL

\* Whatever motions a program makes, franky's constructor next to the robot makes
\* the same of what the builders hand it, up to what the wire does not carry.
THEOREM ArrivesUnchanged == Spec => []ArrivesAsAsked
<1>1. OnItsWay => ArrivesAsAsked
  <2> SUFFICES ASSUME OnItsWay, stage = "moving" PROVE ArrivesAsAsked
    BY DEF ArrivesAsAsked
  <2>1. Arrived(asked.type, Object(asked), built)
    BY WhatIsSentArrives DEF OnItsWay
  <2>2. QED
    BY <2>1 DEF Arrived, ArrivesAsAsked
<1>2. QED
  BY <1>1, StaysOnItsWay, PTL
=============================================================================
