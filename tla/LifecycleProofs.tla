--------------------------- MODULE LifecycleProofs ---------------------------
(***************************************************************************)
(* The server as its clients know it: RobotManager implements               *)
(* TrackerLifecycle, and keeps the final status of a stopped session.       *)
(* Every step of the server is sorted into the few kinds that a session can *)
(* tell apart; both theorems are about those.                               *)
(***************************************************************************)
EXTENDS RobotManagerProofs

-----------------------------------------------------------------------------
(***************************************************************************)
(* The kinds of steps.                                                      *)
(***************************************************************************)
\* A step that starts, stops and forgets no session: at most, motions are lost.
Bystands ==
    /\ UNCHANGED <<robotOf, registry, finished, answered>>
    /\ \A s \in Session : /\ (call.session = s)' <=> call.session = s
                          /\ Holds(s)' => Holds(s)

\* stop_tracker, or the teardown in its place, takes a session out.
Deregisters ==
    /\ at[Rpc] \in {"idle", "recv"}
    /\ \E s \in Session, w \in Wait, c \in BOOLEAN : Deregister(s, w, c)

\* One of the start_*_tracker handlers.
Starts ==
    \E s \in Session, r \in Robot, p \in BOOLEAN, g \in BOOLEAN : StartTracker(s, r, p, g)

\* A move of the RPC thread alone, or of one robot, leaves the sessions as they
\* are.
LEMMA MotionLossBystands ==
    ASSUME UNCHANGED <<robotOf, registry, finished, answered, call>>,
           \A s \in Session : Holds(s)' => Holds(s)
    PROVE  Bystands
  BY DEF Bystands

\* A motion that is no session's tracking motion takes from the sessions only.
LEMMA MoveAsyncLoses ==
    ASSUME TypeInv, UNCHANGED robotOf, NEW r \in Robot, NEW m, MoveAsync(r, m),
           \A s \in Session : m # Track(s)
    PROVE  \A s \in Session : Holds(s)' => Holds(s)
  BY MoveLoses

\* _enqueue_stop_motion replaces motions by a ramp, and stops no other session.
LEMMA EnqueueStopBystands ==
    ASSUME TypeInv, NEW t \in Thread, EnqueueStop(t), UNCHANGED managerVars
    PROVE  Bystands
  <1>1. /\ at[t] \in {"check", "control", "move"}
        /\ UNCHANGED <<robotOf, registry, finished, answered>>
    BY DEF EnqueueStop, CheckEnqueued, CheckControl, EnqueueRamp, EnqueueRaises, managerVars
  <1>2. call'.session = call.session
    <2>1. call \in Call
      BY DEF TypeInv, TypeOK, SessionTypeOK
    <2>2. call' = call \/ call' = [call EXCEPT !.raised = TRUE]
      BY DEF EnqueueStop, CheckEnqueued, CheckControl, EnqueueRamp, EnqueueRaises
    <2>. QED  BY <2>1, <2>2 DEF Call
  <1>3. \A s \in Session : Holds(s)' => Holds(s)
    <2>1. CASE UNCHANGED motion
      BY <1>1, <2>1 DEF Holds, Started
    <2>2. CASE EnqueueRamp(t)
      <3>1. PICK g \in Session : g = Target(t) /\ robotOf[g] \in Robot
        BY <1>1, TargetStarted
      <3>2. PICK r \in Robot : r = robotOf[g]
        BY <3>1
      <3>3. MoveAsync(r, Ramp(g))
        BY <2>2, <3>1, <3>2 DEF EnqueueRamp
      <3>4. \A s \in Session : Ramp(g) # Track(s)
        BY TrackDistinct
      <3>. QED  BY <1>1, <3>3, <3>4, MoveAsyncLoses
    <2>. QED  BY <2>1, <2>2 DEF EnqueueStop, CheckEnqueued, CheckControl, EnqueueRaises, robotVars
  <1>. QED  BY <1>1, <1>2, <1>3 DEF Bystands

\* The end of join_motion, in a stop or not, and the join of the policy thread.
LEMMA JoinBystands ==
    ASSUME TypeInv, UNCHANGED managerVars, JoinReturns \/ JoinTimesOut \/ ReapPolicy
    PROVE  Bystands
  <1>1. UNCHANGED <<motion, robotOf, registry, finished, answered>>
    BY DEF JoinReturns, JoinTimesOut, ReapPolicy, robotVars, managerVars
  <1>2. call'.session = call.session
    <2>1. call \in Call
      BY DEF TypeInv, TypeOK, SessionTypeOK
    <2>2. \/ call' = call
          \/ call.session = NoSession /\ call' = NoCall
          \/ call' = [call EXCEPT !.raised = exc[call.robot] = "fault"]
      BY DEF JoinReturns, JoinTimesOut, ReapPolicy
    <2>. QED  BY <2>1, <2>2 DEF Call, NoCall
  <1>. QED  BY <1>1, <1>2 DEF Bystands, Holds, Started

\* Every step is of one kind.
LEMMA StepKinds ==
    ASSUME TypeInv, [Next]_vars
    PROVE  \/ Bystands
           \/ Starts
           \/ Deregisters
           \/ RememberFinished
           \/ \E s \in Session : StopTrackerPayloadFails(s)
  <1>. USE DEF managerVars, sessionVars, robotVars
  <1>0. /\ Rpc \in Thread /\ Session \subseteq Thread
        /\ RobotTypeOK
        /\ \A s \in Session : Track(s) \notin {Idle, Waypoint, Impedance, Orphan}
    BY TrackDistinct DEF Thread, TypeInv, TypeOK
  <1>1. UNCHANGED <<motion, robotOf>> => \A s \in Session : Holds(s)' => Holds(s)
    BY DEF Holds, Started
  <1>2. CASE Request
    <2>1. ASSUME NEW r \in Robot, CreateRobot(r) \/ StopRobot(r) PROVE Bystands
      BY <1>1, <2>1, HardStopLoses, MotionLossBystands DEF CreateRobot, StopRobot, Handle
    <2>2. ASSUME NEW r \in Robot, StartTrackerLoadFails(r) PROVE Bystands
      BY <1>0, <2>2, MoveAsyncLoses, MotionLossBystands DEF StartTrackerLoadFails, Handle
    <2>3. ASSUME NEW r \in Robot, NEW m \in {Waypoint, Impedance}, MoveRobot(r, m) PROVE Bystands
      BY <1>0, <2>3, MoveAsyncLoses, MotionLossBystands DEF MoveRobot, Handle
    <2>4. ASSUME NEW r \in Robot, NEW w \in JoinWaits, JoinMotion(r, w) PROVE Bystands
      <3>1. /\ call.session = NoSession /\ call'.session = NoSession
            /\ UNCHANGED <<motion, robotOf, registry, finished, answered>>
        BY <2>4 DEF JoinMotion, NoCall, TypeInv, CallMatchesThread
      <3>. QED  BY <1>1, <3>1 DEF Bystands
    <2>5. ASSUME NEW s \in Session, NEW w \in StopWaits, NEW c \in BOOLEAN, StopTracker(s, w, c)
          PROVE  Deregisters
      BY <2>5, ManagerAssumption DEF StopTracker, Deregisters
    <2>6. ASSUME NEW s \in Session, NEW r \in Robot, NEW p \in BOOLEAN, NEW g \in BOOLEAN,
                 StartTracker(s, r, p, g)
          PROVE  Starts
      BY <2>6 DEF Starts
    <2>. QED  BY <1>2, <2>1, <2>2, <2>3, <2>4, <2>5, <2>6 DEF Request
  <1>3. CASE RpcStep
    <2>1. CASE AwaitRequest \/ ServeNothing \/ BeginShutdown \/ CloseSockets
      BY <1>1, <2>1, MotionLossBystands DEF AwaitRequest, ServeNothing, BeginShutdown, CloseSockets
    <2>2. CASE StopPath /\ UNCHANGED managerVars
      BY <1>0, <2>2, EnqueueStopBystands, JoinBystands DEF StopPath
    <2>3. ASSUME NEW s \in Session, ShutdownStopsTracker(s) PROVE Deregisters
      BY <2>3 DEF ShutdownStopsTracker, Closing, Deregisters, Wait
    <2>4. ASSUME NEW r \in Robot, HaltRobot(r) PROVE Bystands
      BY <2>4, HardStopLoses, MotionLossBystands DEF HaltRobot
    <2>. QED  BY <1>3, <2>1, <2>2, <2>3, <2>4 DEF RpcStep
  <1>4. CASE RequestShutdown
    BY <1>1, <1>4, MotionLossBystands DEF RequestShutdown
  <1>5. ASSUME NEW s \in Session, PolicyStep(s) \/ UserCodeStep(s) PROVE Bystands
    <2>1. CASE EnqueueStop(s) /\ UNCHANGED managerVars
      BY <1>0, <2>1, EnqueueStopBystands
    <2>2. CASE (PolicyLoop(s) \/ PolicyUserCode(s)) /\ UNCHANGED managerVars
      BY <1>1, <2>2, MotionLossBystands
      DEF PolicyLoop, PolicyUserCode, PolicyReturns, PolicyStops, PolicyRaises
    <2>. QED  BY <1>5, <2>1, <2>2 DEF PolicyStep, UserCodeStep
  <1>6. ASSUME NEW r \in Robot, RobotStep(r) PROVE Bystands
    <2>1. motion' = [motion EXCEPT ![r] = Idle] /\ UNCHANGED <<robotOf, registry, finished, answered, call>>
      BY <1>6 DEF RobotStep, ControllerStep, RampFinishes, MotionFinishes, ControllerFaults
    <2>2. \A s \in Session : Holds(s)' => Holds(s)
      BY <1>0, <2>1 DEF RobotTypeOK, Holds, Started
    <2>. QED  BY <2>1, <2>2, MotionLossBystands
  <1>7. CASE Terminated \/ UNCHANGED vars
    BY <1>1, <1>7, MotionLossBystands DEF Terminated, vars
  <1>. QED  BY <1>2, <1>3, <1>4, <1>5, <1>6, <1>7 DEF Next

-----------------------------------------------------------------------------
(***************************************************************************)
(* The refinement.                                                          *)
(***************************************************************************)
\* No session exists at first.
LEMMA LifecycleInit == Init => Lifecycle!Init
  BY DEF Init, SessionInit, Lifecycle!Init, PhaseOf, Holds, Started

\* A step that moves no session of the mapping to another phase, and gives none
\* its motion, is a loss of motions at most.
LEMMA LosesMotion ==
    ASSUME \A s \in Session \ UnbuildableStops : /\ PhaseOf(s)' = PhaseOf(s)
                                                 /\ Holds(s)' => Holds(s)
    PROVE  Lifecycle!LoseMotion
  <1>1. {s \in Session \ UnbuildableStops : Holds(s)}'
          \in SUBSET {s \in Session \ UnbuildableStops : Holds(s)}
    OBVIOUS
  <1>2. [s \in Session \ UnbuildableStops |-> PhaseOf(s)]'
          = [s \in Session \ UnbuildableStops |-> PhaseOf(s)]
    OBVIOUS
  <1>. QED  BY <1>1, <1>2 DEF Lifecycle!LoseMotion

LEMMA BystandsImplements ==
    ASSUME Bystands
    PROVE  Lifecycle!Next
  <1>1. \A s \in Session : PhaseOf(s)' = PhaseOf(s) /\ (Holds(s)' => Holds(s))
    BY DEF Bystands, PhaseOf, Started
  <1>. QED  BY <1>1, LosesMotion DEF Lifecycle!Next

\* A start is the lifecycle's, and takes the robot's motion from its owner; one
\* of a session outside the mapping only does the latter.
LEMMA StartImplements ==
    ASSUME TypeInv, NEW s \in Session, NEW r \in Robot, NEW p \in BOOLEAN, NEW g \in BOOLEAN,
           StartTracker(s, r, p, g)
    PROVE  Lifecycle!Next
  <1>1. /\ ~ Started(s)
        /\ motion' = [motion EXCEPT ![r] = Track(s)]
        /\ robotOf' = [robotOf EXCEPT ![s] = r]
        /\ registry' = registry \cup {s}
        /\ call' = call
    BY DEF StartTracker, StartSession, MoveAsync
  <1>2. robotOf'[s] = r /\ \A o \in Session \ {s} : robotOf'[o] = robotOf[o]
    BY <1>1 DEF TypeInv, TypeOK, SessionTypeOK
  <1>3. Started(s)' /\ Holds(s)'
    BY <1>1, <1>2, SessionAssumption DEF Started, Holds, TypeInv, TypeOK, RobotTypeOK
  <1>4. PhaseOf(s) = "new" /\ PhaseOf(s)' = "registered"
    BY <1>1, <1>3 DEF PhaseOf
  <1>5. \A o \in Session \ {s} : PhaseOf(o)' = PhaseOf(o)
    BY <1>1, <1>2 DEF PhaseOf, Started
  <1>6. \A o \in Session \ {s} : Holds(o)' => Holds(o)
    BY <1>1, <1>2, TrackDistinct DEF Holds, Started, TypeInv, TypeOK, RobotTypeOK, SessionTypeOK
  <1>7. CASE s \in UnbuildableStops
    BY <1>5, <1>6, <1>7, LosesMotion DEF Lifecycle!Next
  <1>8. CASE s \notin UnbuildableStops
    <2>. DEFINE bar == [o \in Session \ UnbuildableStops |-> PhaseOf(o)]
                held == {o \in Session \ UnbuildableStops : Holds(o)}
    <2>1. bar[s] = "new" /\ bar' = [bar EXCEPT ![s] = "registered"]
      BY <1>4, <1>5, <1>8
    <2>2. held' = (held \ (held \ held')) \cup {s}
      BY <1>3, <1>6, <1>8
    <2>3. \E lost \in SUBSET held : held' = (held \ lost) \cup {s}
      BY <2>2
    <2>. HIDE DEF bar, held
    <2>4. Lifecycle!Start(s)
      BY <2>1, <2>3 DEF Lifecycle!Start, bar, held
    <2>. QED  BY <1>8, <2>4 DEF Lifecycle!Next
  <1>. QED  BY <1>7, <1>8

\* stop_tracker begins the one stop there is: no other session is being stopped
\* while the RPC thread is between requests.
LEMMA DeregisterImplements ==
    ASSUME TypeInv, at[Rpc] \in {"idle", "recv"},
           NEW s \in Session, NEW w \in Wait, NEW c \in BOOLEAN, Deregister(s, w, c)
    PROVE  Lifecycle!Next
  <1>1. /\ s \in registry
        /\ registry' = registry \ {s}
        /\ call'.session = s
        /\ UNCHANGED <<motion, robotOf>>
    BY DEF Deregister, BeginStop, robotVars
  <1>2. call.session \notin Session
    BY RobotAssumption DEF TypeInv, CallMatchesThread, NoCall
  <1>3. Started(s) /\ Started(s)'
    BY <1>1 DEF TypeInv, OnlyStartedAct, Started
  <1>4. PhaseOf(s) = "registered" /\ PhaseOf(s)' = "stopping"
    BY <1>1, <1>3 DEF PhaseOf
  <1>5. \A o \in Session \ {s} : PhaseOf(o)' = PhaseOf(o)
    BY <1>1, <1>2 DEF PhaseOf, Started
  <1>6. \A o \in Session : Holds(o)' = Holds(o)
    BY <1>1 DEF Holds, Started
  <1>7. \A o \in Session : PhaseOf(o) # "stopping"
    BY <1>2 DEF PhaseOf
  <1>8. CASE s \in UnbuildableStops
    BY <1>5, <1>6, <1>8, LosesMotion DEF Lifecycle!Next
  <1>9. CASE s \notin UnbuildableStops
    <2>. DEFINE bar == [o \in Session \ UnbuildableStops |-> PhaseOf(o)]
                held == {o \in Session \ UnbuildableStops : Holds(o)}
    <2>1. bar[s] = "registered" /\ bar' = [bar EXCEPT ![s] = "stopping"]
      BY <1>4, <1>5, <1>9
    <2>2. \A o \in Session \ UnbuildableStops : bar[o] # "stopping"
      BY <1>7
    <2>3. held' = held
      BY <1>6
    <2>. HIDE DEF bar, held
    <2>4. Lifecycle!BeginStop(s)
      BY <2>1, <2>2, <2>3 DEF Lifecycle!BeginStop, bar, held
    <2>. QED  BY <1>9, <2>4 DEF Lifecycle!Next
  <1>. QED  BY <1>8, <1>9

\* The stop is answered with the motion gone (JoinedStopIsReleased).
LEMMA RememberImplements ==
    ASSUME ReleaseInv, RememberFinished
    PROVE  Lifecycle!Next
  <1>1. /\ at[Rpc] = "remember"
        /\ call' = NoCall
        /\ UNCHANGED <<motion, robotOf, registry>>
    BY DEF RememberFinished, robotVars
  <1>2. NoCall.session \notin Session
    BY RobotAssumption DEF NoCall
  <1>3. PICK s \in Session : s = call.session
    BY <1>1 DEF ReleaseInv, TypeInv, CallMatchesThread
  <1>4. Started(s) /\ s \notin registry
    BY <1>3 DEF ReleaseInv, TypeInv, CallMatchesThread
  <1>5. PhaseOf(s) = "stopping" /\ PhaseOf(s)' = "stopped"
    BY <1>1, <1>2, <1>3, <1>4 DEF PhaseOf, Started
  <1>6. \A o \in Session \ {s} : PhaseOf(o)' = PhaseOf(o)
    BY <1>1, <1>2, <1>3 DEF PhaseOf, Started
  <1>7. \A o \in Session : Holds(o)' = Holds(o)
    BY <1>1 DEF Holds, Started
  <1>8. ~ Holds(s)
    BY <1>1, <1>3 DEF ReleaseInv, JoinedStopIsReleased
  <1>9. CASE s \in UnbuildableStops
    BY <1>6, <1>7, <1>9, LosesMotion DEF Lifecycle!Next
  <1>10. CASE s \notin UnbuildableStops
    <2>. DEFINE bar == [o \in Session \ UnbuildableStops |-> PhaseOf(o)]
                held == {o \in Session \ UnbuildableStops : Holds(o)}
    <2>1. bar[s] = "stopping" /\ bar' = [bar EXCEPT ![s] = "stopped"]
      BY <1>5, <1>6, <1>10
    <2>2. s \notin held /\ held' = held
      BY <1>7, <1>8
    <2>. HIDE DEF bar, held
    <2>3. Lifecycle!AnswerStop(s)
      BY <2>1, <2>2 DEF Lifecycle!AnswerStop, bar, held
    <2>. QED  BY <1>10, <2>3 DEF Lifecycle!Next
  <1>. QED  BY <1>9, <1>10

\* A stop motion that cannot be built loses a session outside the mapping.
LEMMA LostStopImplements ==
    ASSUME NEW s \in Session, StopTrackerPayloadFails(s)
    PROVE  Lifecycle!Next
  <1>1. /\ s \in UnbuildableStops
        /\ registry' = registry \ {s}
        /\ UNCHANGED <<motion, robotOf, call>>
    BY DEF StopTrackerPayloadFails, Handle, robotVars
  <1>2. \A o \in Session \ UnbuildableStops : PhaseOf(o)' = PhaseOf(o) /\ Holds(o)' = Holds(o)
    BY <1>1 DEF PhaseOf, Holds, Started
  <1>. QED  BY <1>2, LosesMotion DEF Lifecycle!Next

\* What a lifecycle is good for: whoever keeps it has no session whose stop was
\* answered drive a robot again.
LEMMA LifecycleReleases == Lifecycle!Spec => [](Lifecycle!TypeOK /\ Lifecycle!Released)
  <1> DEFINE S == Session \ UnbuildableStops
             ph == [s \in S |-> PhaseOf(s)]
             dr == {s \in S : Holds(s)}
             Inv(p, d) == /\ p \in [S -> Lifecycle!Phase] /\ d \subseteq S
                          /\ \A s \in S : p[s] = "stopped" => s \notin d
  <1>1. Lifecycle!TypeOK /\ Lifecycle!Released <=> Inv(ph, dr)
    BY DEF Lifecycle!TypeOK, Lifecycle!Released
  <1>2. Lifecycle!Init => Inv(ph, dr)
    <2> HIDE DEF ph, dr
    <2>1. ph = [s \in S |-> "new"] /\ dr = {} => Inv(ph, dr)
      BY DEF Lifecycle!Phase
    <2>2. QED
      BY <2>1 DEF Lifecycle!Init, ph, dr
  <1>3. Inv(ph, dr) /\ [Lifecycle!Next]_(Lifecycle!vars) => Inv(ph, dr)'
    <2> SUFFICES ASSUME Inv(ph, dr), Lifecycle!Next \/ UNCHANGED Lifecycle!vars
                 PROVE  Inv(ph, dr)'
      OBVIOUS
    <2>1. CASE Lifecycle!LoseMotion
      <3>1. dr' \in SUBSET dr /\ ph' = ph
        BY <2>1 DEF Lifecycle!LoseMotion
      <3> HIDE DEF ph, dr
      <3>2. QED
        BY <3>1
    <2>2. ASSUME NEW s \in S, Lifecycle!Start(s) PROVE Inv(ph, dr)'
      <3>1. /\ ph[s] = "new" /\ ph' = [ph EXCEPT ![s] = "registered"]
            /\ \E lost \in SUBSET dr : dr' = (dr \ lost) \cup {s}
        BY <2>2 DEF Lifecycle!Start
      <3> HIDE DEF ph, dr
      <3>2. QED
        BY <3>1 DEF Lifecycle!Phase
    <2>3. ASSUME NEW s \in S, Lifecycle!BeginStop(s) PROVE Inv(ph, dr)'
      <3>1. ph' = [ph EXCEPT ![s] = "stopping"] /\ dr' \in SUBSET dr
        BY <2>3 DEF Lifecycle!BeginStop
      <3> HIDE DEF ph, dr
      <3>2. QED
        BY <3>1 DEF Lifecycle!Phase
    <2>4. ASSUME NEW s \in S, Lifecycle!AnswerStop(s) PROVE Inv(ph, dr)'
      <3>1. s \notin dr /\ ph' = [ph EXCEPT ![s] = "stopped"] /\ dr' = dr
        BY <2>4 DEF Lifecycle!AnswerStop
      <3> HIDE DEF ph, dr
      <3>2. QED
        BY <3>1 DEF Lifecycle!Phase
    <2>5. CASE UNCHANGED Lifecycle!vars
      <3>1. ph' = ph /\ dr' = dr
        BY <2>5 DEF Lifecycle!vars
      <3> HIDE DEF ph, dr
      <3>2. QED
        BY <3>1
    <2>6. QED
      BY <2>1, <2>2, <2>3, <2>4, <2>5 DEF Lifecycle!Next
  <1> HIDE DEF Inv
  <1>4. QED
    BY <1>1, <1>2, <1>3, PTL DEF Lifecycle!Spec

\* The server keeps the lifecycle it promises: of every session whose clients
\* send stop motions that can be built, one stop at a time, each answered only
\* once the session's motion is gone for good.  TrackerLifecycle has no threads
\* and no ramps: what stop() and the policy thread do to each other is hidden.
THEOREM LifecycleKept == Spec => KeepsLifecycle
  <1>1. Init => ReleaseInv /\ Lifecycle!Init
    BY ReleaseInvInit, LifecycleInit
  <1>2. ReleaseInv /\ [Next]_vars => ReleaseInv'
    BY ReleaseInvNext
  <1>3. ReleaseInv /\ [Next]_vars => Lifecycle!Next
    BY StepKinds, BystandsImplements, StartImplements, DeregisterImplements,
       RememberImplements, LostStopImplements
    DEF ReleaseInv, Starts, Deregisters
  <1>. QED  BY <1>1, <1>2, <1>3, PTL DEF Spec, KeepsLifecycle, Lifecycle!Spec

-----------------------------------------------------------------------------
(***************************************************************************)
(* The final status of a stopped session.                                   *)
(***************************************************************************)
\* Unless its client lost it, a session is gone only once its stop is answered.
LEMMA GoneByAnswer ==
    ASSUME TypeInv, [Next]_vars, NEW s \in Session \ UnbuildableStops, Gone(s)'
    PROVE  Gone(s) \/ (RememberFinished /\ s = call.session)
  <1>1. CASE Bystands
    BY <1>1 DEF Bystands, Gone, Started
  <1>2. CASE RememberFinished
    BY <1>2 DEF RememberFinished, Gone, Started
  <1>3. ASSUME NEW o \in Session, NEW r \in Robot, NEW p \in BOOLEAN, NEW g \in BOOLEAN,
               StartTracker(o, r, p, g)
        PROVE  Gone(s)
    BY <1>3 DEF StartTracker, StartSession, Gone, Started, TypeInv, TypeOK, SessionTypeOK
  <1>4. ASSUME at[Rpc] \in {"idle", "recv"}, NEW o \in Session, NEW w \in Wait,
               NEW c \in BOOLEAN, Deregister(o, w, c)
        PROVE  Gone(s)
    <2>1. call.session \notin Session
      BY <1>4, RobotAssumption DEF TypeInv, CallMatchesThread, NoCall
    <2>. QED  BY <1>4, <2>1 DEF Deregister, BeginStop, Gone, Started
  <1>5. ASSUME NEW o \in Session, StopTrackerPayloadFails(o) PROVE Gone(s)
    BY <1>5 DEF StopTrackerPayloadFails, Handle, Gone, Started
  <1>. QED  BY <1>1, <1>2, <1>3, <1>4, <1>5, StepKinds DEF Starts, Deregisters

\* Nothing but the end of stop_tracker answers a stop or touches the history.
LEMMA FinishedByAnswer ==
    ASSUME TypeInv, [Next]_vars, ~ RememberFinished
    PROVE  UNCHANGED <<finished, answered>>
  BY StepKinds
  DEF Bystands, Starts, StartTracker, Deregisters, Deregister, StopTrackerPayloadFails

\* Trimming drops what is needed to fit, from the old end, and nothing else.
LEMMA NewestIsSuffix ==
    ASSUME NEW S, NEW h \in Seq(S), NEW n \in Nat \ {0}
    PROVE  /\ Len(Newest(n, h)) = IF Len(h) <= n THEN Len(h) ELSE n
           /\ \A j \in 1 .. Len(Newest(n, h)) :
                 Newest(n, h)[j] = h[Len(h) - Len(Newest(n, h)) + j]
  <1>1. CASE Len(h) <= n
    <2>1. Newest(n, h) = h
      BY <1>1 DEF Newest
    <2>. QED  BY <1>1, <2>1
  <1>2. CASE ~ Len(h) <= n
    <2>. DEFINE first == Len(h) - n + 1
    <2>1. /\ first \in 1 .. Len(h) /\ first \in Nat /\ Len(h) \in Nat
          /\ Len(h) - first + 1 = n /\ Len(h) - n = first - 1
      BY <1>2
    <2>2. Newest(n, h) = SubSeq(h, first, Len(h))
      BY <1>2 DEF Newest
    <2>. HIDE DEF first
    <2>3. /\ Len(SubSeq(h, first, Len(h))) = n
          /\ \A j \in 1 .. n : SubSeq(h, first, Len(h))[j] = h[first + j - 1]
      BY <2>1
    <2>4. \A j \in 1 .. n : first + j - 1 = first - 1 + j
      BY <2>1
    <2>. QED  BY <1>2, <2>1, <2>2, <2>3, <2>4
  <1>. QED  BY <1>1, <1>2

\* The history stays the end of what was answered when a status is added.
LEMMA RememberedInOrder ==
    ASSUME TypeInv, HistoryIsRecent, RememberFinished
    PROVE  HistoryIsRecent'
  <1>. DEFINE status == [id |-> call.session, running |-> Running(call.session)]
              longer == Append(finished, status)
              L == Len(answered)
              F == Len(finished)
  <1>1. /\ finished \in Seq(FinalStatus) /\ answered \in Seq(Session)
        /\ call.session \in Session
        /\ L \in Nat /\ F \in Nat
    BY DEF TypeInv, TypeOK, ManagerTypeOK, CallMatchesThread, RememberFinished
  <1>2. finished' = Newest(History, longer) /\ answered' = Append(answered, call.session)
    BY DEF RememberFinished
  <1>3. status \in FinalStatus /\ longer \in Seq(FinalStatus) /\ status.id = call.session
    BY <1>1 DEF FinalStatus, Running
  <1>4. Len(longer) = F + 1 /\ Len(answered') = L + 1
    BY <1>1, <1>2, <1>3
  <1>5. F = (IF L < History THEN L ELSE History) /\ History \in Nat \ {0}
    BY ManagerAssumption DEF HistoryIsRecent
  <1>6. \A j \in 1 .. F + 1 : longer[j].id = answered'[L - F + j]
    <2>. SUFFICES ASSUME NEW j \in 1 .. F + 1 PROVE longer[j].id = answered'[L - F + j]
      OBVIOUS
    <2>1. CASE j \in 1 .. F
      <3>1. longer[j] = finished[j] /\ j \in DOMAIN finished
        BY <1>1, <1>3, <2>1
      <3>2. L - F + j \in 1 .. L
        BY <1>1, <1>5, <2>1
      <3>3. answered'[L - F + j] = answered[L - F + j]
        BY <1>1, <1>2, <3>2
      <3>. QED  BY <3>1, <3>3 DEF HistoryIsRecent
    <2>2. CASE j = F + 1
      <3>1. longer[F + 1] = status
        BY <1>1, <1>3
      <3>2. L - F + j = L + 1
        BY <1>1, <2>2
      <3>3. answered'[L + 1] = call.session
        BY <1>1, <1>2
      <3>. QED  BY <1>3, <2>2, <3>1, <3>2, <3>3
    <2>. QED  BY <1>1, <2>1, <2>2
  <1>7. /\ Len(finished') = IF F + 1 <= History THEN F + 1 ELSE History
        /\ \A j \in 1 .. Len(finished') : finished'[j] = longer[F + 1 - Len(finished') + j]
        /\ finished' \in Seq(FinalStatus)
    <2>. HIDE DEF longer
    <2>1. /\ Len(Newest(History, longer)) = IF Len(longer) <= History THEN Len(longer) ELSE History
          /\ \A j \in 1 .. Len(Newest(History, longer)) :
               Newest(History, longer)[j] = longer[Len(longer) - Len(Newest(History, longer)) + j]
      BY <1>3, <1>5, NewestIsSuffix
    <2>2. Newest(History, longer) \in Seq(FinalStatus)
      BY <1>3, <1>5, NewestType
    <2>. QED  BY <1>2, <1>4, <2>1, <2>2
  <1>8. Len(finished') = IF Len(answered') < History THEN Len(answered') ELSE History
    BY <1>1, <1>4, <1>5, <1>7
  <1>9. ASSUME NEW j \in 1 .. Len(finished')
        PROVE  finished'[j].id = answered'[Len(answered') - Len(finished') + j]
    <2>1. Len(finished') \in 1 .. F + 1
      BY <1>1, <1>5, <1>7
    <2>2. PICK k \in 1 .. F + 1 : k = F + 1 - Len(finished') + j
      <3>. DEFINE k == F + 1 - Len(finished') + j
      <3>1. k \in 1 .. F + 1
        BY <1>1, <1>9, <2>1
      <3>. QED  BY <3>1
    <2>3. L - F + k = L + 1 - Len(finished') + j
      BY <1>1, <1>9, <2>1, <2>2
    <2>. HIDE DEF longer
    <2>4. finished'[j] = longer[k]
      BY <1>7, <2>2
    <2>5. longer[k].id = answered'[L - F + k]
      BY <1>6
    <2>. QED  BY <1>4, <2>3, <2>4, <2>5
  <1>10. DOMAIN finished' = 1 .. Len(finished')
    BY <1>7
  <1>. QED  BY <1>8, <1>9, <1>10 DEF HistoryIsRecent

\* The end of what was answered holds the last stops, as many as there is room for.
LEMMA RecentIsKept ==
    ASSUME TypeInv, HistoryIsRecent, NEW i \in DOMAIN answered, Len(answered) - i < History
    PROVE  \E j \in DOMAIN finished : finished[j].id = answered[i]
  <1>. DEFINE L == Len(answered)
              F == Len(finished)
  <1>1. /\ DOMAIN finished = 1 .. F /\ DOMAIN answered = 1 .. L
        /\ L \in Nat /\ F \in Nat
    BY DEF TypeInv, TypeOK, ManagerTypeOK
  <1>2. F = (IF L < History THEN L ELSE History) /\ History \in Nat \ {0}
    BY ManagerAssumption DEF HistoryIsRecent
  <1>3. i - (L - F) \in 1 .. F /\ L - F + (i - (L - F)) = i
    BY <1>1, <1>2
  <1>4. finished[i - (L - F)].id = answered[i]
    BY <1>1, <1>3 DEF HistoryIsRecent
  <1>. QED  BY <1>1, <1>3, <1>4

\* A client can still ask for the final status of a session it has stopped,
\* until as many later stops as the history holds have been answered: no way
\* out of stop_tracker (a timeout, an exception, a shutdown) skips it, and a
\* full history makes room at its old end.
THEOREM StatusKept == Spec => []RecentStatusReadable
  <1>. DEFINE Answered(s) == \E i \in DOMAIN answered : answered[i] = s
              AllAnswered == \A s \in Session \ UnbuildableStops : Gone(s) => Answered(s)
              Inv == TypeInv /\ HistoryIsRecent /\ AllAnswered
  <1>1. Init => Inv
    <2>1. Init => HistoryIsRecent /\ AllAnswered
      BY ManagerAssumption DEF Init, SessionInit, HistoryIsRecent, Gone, Started
    <2>. QED  BY <2>1, TypeInvInit
  <1>2. ASSUME Inv, [Next]_vars PROVE Inv'
    <2>0. /\ TypeInv'
          /\ answered \in Seq(Session)
      BY <1>2, TypeInvNext DEF TypeInv, TypeOK, ManagerTypeOK
    <2>1. CASE RememberFinished
      <3>1. call.session \in Session /\ answered' = Append(answered, call.session)
        BY <1>2, <2>1 DEF RememberFinished, TypeInv, CallMatchesThread
      <3>2. /\ Len(answered) + 1 \in DOMAIN answered'
            /\ answered'[Len(answered) + 1] = call.session
            /\ \A i \in DOMAIN answered : i \in DOMAIN answered' /\ answered'[i] = answered[i]
        BY <2>0, <3>1
      <3>3. AllAnswered'
        BY <1>2, <3>2, GoneByAnswer
      <3>. QED  BY <1>2, <2>0, <2>1, <3>3, RememberedInOrder
    <2>2. CASE ~ RememberFinished
      <3>1. UNCHANGED <<finished, answered>>
        BY <1>2, <2>2, FinishedByAnswer
      <3>2. \A s \in Session \ UnbuildableStops : Gone(s)' => Gone(s)
        BY <1>2, <2>2, GoneByAnswer
      <3>3. HistoryIsRecent' /\ AllAnswered'
        BY <1>2, <3>1, <3>2 DEF HistoryIsRecent
      <3>. QED  BY <2>0, <3>3
    <2>. QED  BY <2>1, <2>2
  <1>3. Inv => RecentStatusReadable
    BY RecentIsKept DEF RecentStatusReadable
  <1>. HIDE DEF Inv
  <1>. QED  BY <1>1, <1>2, <1>3, PTL DEF Spec
=============================================================================
