------------------------ MODULE OrderlyManagerProofs ------------------------
(***************************************************************************)
(* What RobotManager keeps when policies return within the 1 s join, when   *)
(* stop motions can be built, and when clients leave a robot with a tracker *)
(* to its tracker: the statuses it remembers, the robots it leaves behind,  *)
(* the motions it replaces.  Each theorem assumes only what it needs of     *)
(* these three.                                                             *)
(***************************************************************************)
EXTENDS LifecycleProofs

-----------------------------------------------------------------------------
(***************************************************************************)
(* Steps of the threads.                                                    *)
(***************************************************************************)
\* The session has no policy thread that could still act.
Done(s) == at[s] \in {"absent", "dead"}

\* Sessions stay with their robots, requests to stop stay, ended threads stay
\* ended, and stop() is over only through the join of its policy thread.
ThreadsAdvance ==
    /\ stopEvent \subseteq stopEvent'
    /\ \A s \in Session : Started(s) => /\ robotOf'[s] = robotOf[s]
                                        /\ Done(s) => Done(s)'
    /\ at'[Rpc] = "remember" => at[Rpc] = "remember" \/ ReapPolicy

\* A step that moves at most the RPC thread.
LEMMA RpcAdvances ==
    ASSUME TypeInv, UNCHANGED robotOf, stopEvent \subseteq stopEvent',
           \/ UNCHANGED at
           \/ \E l \in RpcLoc : Goto(Rpc, l) /\ (l # "remember" \/ ReapPolicy)
    PROVE  ThreadsAdvance
  <1>1. \A s \in Session : at'[s] = at[s]
    BY SessionAssumption DEF Goto, TypeInv, TypeOK, SessionTypeOK, Thread
  <1>2. at'[Rpc] = "remember" => at[Rpc] = "remember" \/ ReapPolicy
    BY DEF Goto, TypeInv, TypeOK, SessionTypeOK, Thread
  <1>. QED  BY <1>1, <1>2 DEF ThreadsAdvance, Done, Started

\* A step of a policy thread that has not ended.
LEMMA PolicyAdvances ==
    ASSUME TypeInv, UNCHANGED robotOf, stopEvent \subseteq stopEvent',
           NEW s \in Session, ~ Done(s), NEW l, Goto(s, l)
    PROVE  ThreadsAdvance
  <1>1. /\ at'[Rpc] = at[Rpc]
        /\ \A o \in Session \ {s} : at'[o] = at[o]
    BY SessionAssumption DEF Goto, TypeInv, TypeOK, SessionTypeOK, Thread
  <1>. QED  BY <1>1 DEF ThreadsAdvance, Done, Started

\* _enqueue_stop_motion.
LEMMA EnqueueStopAdvances ==
    ASSUME TypeInv, NEW t \in Thread, EnqueueStop(t)
    PROVE  ThreadsAdvance
  <1>1. /\ at[t] \in {"check", "control", "move"}
        /\ UNCHANGED <<robotOf, stopEvent>>
    BY DEF EnqueueStop, CheckEnqueued, CheckControl, EnqueueRamp, EnqueueRaises
  <1>2. PICK l : /\ Goto(t, l)
                 /\ t = Rpc => l \in {"control", "move", "join", "reap"}
    BY AfterEnqueueType
    DEF EnqueueStop, CheckEnqueued, CheckControl, EnqueueRamp, EnqueueRaises
  <1>3. CASE t = Rpc
    BY <1>1, <1>2, <1>3, RpcAdvances DEF RpcLoc
  <1>4. CASE t \in Session
    BY <1>1, <1>2, <1>4, PolicyAdvances DEF Done
  <1>. QED  BY <1>3, <1>4 DEF Thread

LEMMA NextAdvances ==
    ASSUME TypeInv, [Next]_vars
    PROVE  ThreadsAdvance
  <1>. USE DEF sessionVars, RpcLoc
  <1>0. Rpc \in Thread /\ Session \subseteq Thread
    BY DEF Thread
  <1>1. CASE Request
    <2>1. ASSUME NEW r \in Robot, CreateRobot(r) \/ StopRobot(r) \/ StartTrackerLoadFails(r)
          PROVE  ThreadsAdvance
      BY <2>1, RpcAdvances DEF CreateRobot, StopRobot, StartTrackerLoadFails, Handle
    <2>2. ASSUME NEW r \in Robot, NEW m \in {Waypoint, Impedance}, MoveRobot(r, m)
          PROVE  ThreadsAdvance
      BY <2>2, RpcAdvances DEF MoveRobot, Handle
    <2>3. ASSUME NEW r \in Robot, NEW w \in JoinWaits, JoinMotion(r, w) PROVE ThreadsAdvance
      BY <2>3, RpcAdvances DEF JoinMotion
    <2>4. ASSUME NEW s \in Session, StopTrackerPayloadFails(s) PROVE ThreadsAdvance
      BY <2>4, RpcAdvances DEF StopTrackerPayloadFails, Handle
    <2>5. ASSUME NEW s \in Session, NEW w \in StopWaits, NEW c \in BOOLEAN, StopTracker(s, w, c)
          PROVE  ThreadsAdvance
      BY <2>5, RpcAdvances DEF StopTracker, Deregister, BeginStop
    <2>6. ASSUME NEW s \in Session, NEW r \in Robot, NEW p \in BOOLEAN, NEW g \in BOOLEAN,
                 StartTracker(s, r, p, g)
          PROVE  ThreadsAdvance
      <3>1. /\ ~ Started(s)
            /\ robotOf' = [robotOf EXCEPT ![s] = r]
            /\ at' = [at EXCEPT ![s] = IF p THEN "policy" ELSE "absent", ![Rpc] = "idle"]
            /\ stopEvent' = stopEvent
        BY <2>6 DEF StartTracker, StartSession
      <3>2. at'[Rpc] = "idle" /\ \A o \in Session \ {s} : at'[o] = at[o] /\ robotOf'[o] = robotOf[o]
        BY <3>1, SessionAssumption DEF TypeInv, TypeOK, SessionTypeOK, Thread
      <3>. QED  BY <3>1, <3>2 DEF ThreadsAdvance, Done
    <2>. QED  BY <1>1, <2>1, <2>2, <2>3, <2>4, <2>5, <2>6 DEF Request
  <1>2. CASE RpcStep
    <2>1. CASE AwaitRequest \/ ServeNothing \/ RememberFinished \/ BeginShutdown \/ CloseSockets
      BY <2>1, RpcAdvances DEF AwaitRequest, ServeNothing, RememberFinished, BeginShutdown, CloseSockets
    <2>2. CASE EnqueueStop(Rpc)
      BY <1>0, <2>2, EnqueueStopAdvances
    <2>3. CASE JoinReturns \/ JoinTimesOut \/ ReapPolicy
      BY <2>3, RpcAdvances DEF JoinReturns, JoinTimesOut, ReapPolicy, AfterJoin
    <2>4. ASSUME NEW s \in Session, ShutdownStopsTracker(s) PROVE ThreadsAdvance
      BY <2>4, RpcAdvances DEF ShutdownStopsTracker, Deregister, BeginStop
    <2>5. ASSUME NEW r \in Robot, HaltRobot(r) PROVE ThreadsAdvance
      BY <2>5, RpcAdvances DEF HaltRobot
    <2>. QED  BY <1>2, <2>1, <2>2, <2>3, <2>4, <2>5 DEF RpcStep, StopPath
  <1>3. CASE RequestShutdown
    BY <1>3, RpcAdvances DEF RequestShutdown
  <1>4. ASSUME NEW s \in Session, PolicyStep(s) \/ UserCodeStep(s) PROVE ThreadsAdvance
    <2>1. CASE EnqueueStop(s)
      BY <1>0, <2>1, EnqueueStopAdvances
    <2>2. CASE PolicyLoop(s) \/ PolicyUserCode(s)
      BY <2>2, PolicyAdvances
      DEF UserCode, PolicyLoop, PolicyUserCode, PolicyReturns, PolicyStops, PolicyRaises, Done
    <2>. QED  BY <1>4, <2>1, <2>2 DEF PolicyStep, UserCodeStep
  <1>5. ASSUME NEW r \in Robot, RobotStep(r) PROVE ThreadsAdvance
    BY <1>5, RpcAdvances DEF RobotStep
  <1>6. CASE Terminated \/ UNCHANGED vars
    BY <1>6, RpcAdvances DEF Terminated, vars
  <1>. QED  BY <1>1, <1>2, <1>3, <1>4, <1>5, <1>6 DEF Next

-----------------------------------------------------------------------------
(***************************************************************************)
(* The final statuses.  A stop that was answered has joined its policy      *)
(* thread, and its event is set: both say "not running".                    *)
(***************************************************************************)
StoppingIsAsked == call.session \in Session => call.session \in stopEvent

AnsweredIsDone == at[Rpc] = "remember" => Done(call.session)

StatusInv == TypeInv /\ StoppingIsAsked /\ AnsweredIsDone /\ FinishedNotRunning

\* A stop that is about to be answered is the one that was, or comes out of the
\* join of its policy thread.
LEMMA AnsweredIsDoneNext ==
    ASSUME ~ PolicyMayOutliveJoin, TypeInv, AnsweredIsDone, [Next]_vars
    PROVE  AnsweredIsDone'
  <1>. SUFFICES ASSUME at'[Rpc] = "remember" PROVE Done(call.session)'
    BY DEF AnsweredIsDone, Done
  <1>1. ThreadsAdvance /\ TypeInv'
    BY NextAdvances, TypeInvNext
  <1>2. PICK c \in Session : c = call'.session /\ Started(c)'
    BY <1>1 DEF TypeInv, CallMatchesThread
  <1>3. CASE ReapPolicy
    BY <1>3, <1>2, SessionAssumption
    DEF ReapPolicy, Done, Goto, TypeInv, TypeOK, SessionTypeOK, Thread
  <1>4. CASE at[Rpc] = "remember"
    <2>1. call.session = c
      <3>1. CASE Bystands
        BY <1>2, <3>1 DEF Bystands
      <3>2. ~ RememberFinished
        BY SessionAssumption DEF RememberFinished, Goto, TypeInv, TypeOK, SessionTypeOK, Thread
      <3>3. ~ Starts /\ ~ Deregisters /\ ~ \E s \in Session : StopTrackerPayloadFails(s)
        BY <1>4 DEF Starts, StartTracker, Deregisters, StopTrackerPayloadFails, Handle
      <3>. QED  BY <3>1, <3>2, <3>3, StepKinds
    <2>2. Started(c) /\ Done(c)
      BY <1>4, <2>1 DEF AnsweredIsDone, TypeInv, CallMatchesThread
    <2>. QED  BY <1>1, <1>2, <2>2 DEF ThreadsAdvance, Done
  <1>. QED  BY <1>1, <1>3, <1>4 DEF ThreadsAdvance

LEMMA StoppingIsAskedNext ==
    ASSUME TypeInv, StoppingIsAsked, [Next]_vars
    PROVE  StoppingIsAsked'
  <1>1. stopEvent \subseteq stopEvent'
    BY NextAdvances DEF ThreadsAdvance
  <1>2. CASE Bystands
    BY <1>1, <1>2 DEF Bystands, StoppingIsAsked
  <1>3. CASE Deregisters
    BY <1>3 DEF Deregisters, Deregister, BeginStop, StoppingIsAsked
  <1>4. CASE Starts \/ \E s \in Session : StopTrackerPayloadFails(s)
    BY <1>1, <1>4
    DEF Starts, StartTracker, StartSession, StopTrackerPayloadFails, Handle, StoppingIsAsked
  <1>5. CASE RememberFinished
    BY <1>5, RobotAssumption DEF RememberFinished, NoCall, StoppingIsAsked
  <1>. QED  BY <1>2, <1>3, <1>4, <1>5, StepKinds

\* Trimming keeps only entries that were there.
LEMMA NewestFrom ==
    ASSUME NEW S, NEW h \in Seq(S), NEW n \in Nat \ {0}, NEW i \in DOMAIN Newest(n, h)
    PROVE  \E j \in DOMAIN h : Newest(n, h)[i] = h[j]
  <1>1. CASE Len(h) <= n
    BY <1>1 DEF Newest
  <1>2. CASE ~ Len(h) <= n
    <2>. DEFINE m == Len(h) - n + 1
    <2>1. m \in 1 .. Len(h)
      BY <1>2
    <2>2. Newest(n, h) = SubSeq(h, m, Len(h)) /\ Len(SubSeq(h, m, Len(h))) = n
      BY <1>2, <2>1 DEF Newest
    <2>3. i \in 1 .. n
      BY <2>1, <2>2
    <2>4. SubSeq(h, m, Len(h))[i] = h[m + i - 1]
      BY <2>1, <2>3
    <2>5. m + i - 1 \in DOMAIN h
      BY <2>1, <2>3
    <2>. QED  BY <2>2, <2>4, <2>5
  <1>. QED  BY <1>1, <1>2

\* The status kept of a stopped session answers "not running", whatever its
\* robot does by then: policies that return within their join are enough.
THEOREM StatusSaysStopped ==
    ASSUME ~ PolicyMayOutliveJoin
    PROVE  Spec => []FinishedNotRunning
  <1>1. Init => StatusInv
    <2>. SUFFICES ASSUME Init PROVE StatusInv
      OBVIOUS
    <2>1. TypeInv
      BY TypeInvInit
    <2>. QED  BY <2>1, RobotAssumption
              DEF Init, SessionInit, NoCall, StatusInv, StoppingIsAsked, AnsweredIsDone,
                  FinishedNotRunning, Thread
  <1>2. ASSUME StatusInv, [Next]_vars PROVE StatusInv'
    <2>1. TypeInv' /\ StoppingIsAsked' /\ AnsweredIsDone'
      BY <1>2, TypeInvNext, StoppingIsAskedNext, AnsweredIsDoneNext DEF StatusInv
    <2>2. CASE RememberFinished
      <3>. DEFINE status == [id |-> call.session, running |-> Running(call.session)]
                  longer == Append(finished, status)
      <3>1. call.session \in Session /\ Done(call.session) /\ call.session \in stopEvent
        BY <1>2, <2>2
        DEF StatusInv, StoppingIsAsked, AnsweredIsDone, RememberFinished, TypeInv, CallMatchesThread
      <3>2. ~ status.running
        BY <3>1 DEF Running, Done, HasPolicy
      <3>3. finished \in Seq(FinalStatus) /\ status \in FinalStatus
        BY <1>2, <3>1 DEF StatusInv, TypeInv, TypeOK, ManagerTypeOK, FinalStatus, Running
      <3>4. longer \in Seq(FinalStatus) /\ \A j \in DOMAIN longer : ~ longer[j].running
        BY <1>2, <3>2, <3>3 DEF StatusInv, FinishedNotRunning
      <3>5. finished' = Newest(History, longer)
        BY <2>2 DEF RememberFinished
      <3>. HIDE DEF status, longer
      <3>6. FinishedNotRunning'
        BY <3>4, <3>5, NewestFrom, ManagerAssumption DEF FinishedNotRunning
      <3>. QED  BY <2>1, <3>6 DEF StatusInv
    <2>3. CASE ~ RememberFinished
      <3>1. UNCHANGED finished
        BY <1>2, <2>3, FinishedByAnswer DEF StatusInv
      <3>. QED  BY <1>2, <2>1, <3>1 DEF StatusInv, FinishedNotRunning
    <2>. QED  BY <2>2, <2>3
  <1>3. StatusInv => FinishedNotRunning
    BY DEF StatusInv
  <1>. QED  BY <1>1, <1>2, <1>3, PTL DEF Spec

-----------------------------------------------------------------------------
(***************************************************************************)
(* Motions and the teardown.                                                *)
(***************************************************************************)
\* A thread enqueues its stop motion on r.
RampComes(r) ==
    \E t \in Thread : /\ EnqueueRamp(t)
                      /\ r = robotOf[Target(t)]
                      /\ motion'[r] = Ramp(Target(t))
                      /\ UNCHANGED managerVars

\* A request starts a motion on r.
ClientMoves(r) ==
    /\ at[Rpc] = "recv"
    /\ r \in robots /\ Available(r)
    /\ \/ UNCHANGED <<robotOf, registry, call>>
       \/ \E s \in Session, p \in BOOLEAN, g \in BOOLEAN : StartTracker(s, r, p, g)

\* A robot's motion ends, or is replaced by a ramp or by a request's motion.
LEMMA MotionChanges ==
    ASSUME TypeInv, [Next]_vars, NEW r \in Robot
    PROVE  motion'[r] \in {motion[r], Idle} \/ RampComes(r) \/ ClientMoves(r)
  <1>. USE DEF robotVars, managerVars
  <1>0. RobotTypeOK
    BY DEF TypeInv, TypeOK
  <1>1. CASE Request
    <2>1. ASSUME NEW q \in Robot, CreateRobot(q) \/ StopRobot(q)
          PROVE  motion'[r] \in {motion[r], Idle}
      BY <1>0, <2>1 DEF CreateRobot, StopRobot, HardStop, RobotTypeOK
    <2>2. ASSUME NEW q \in Robot, NEW m, MoveAsync(q, m), q \in robots, Available(q), Handle,
                 UNCHANGED managerVars
          PROVE  motion'[r] = motion[r] \/ ClientMoves(r)
      BY <1>0, <2>2 DEF MoveAsync, RobotTypeOK, Handle, ClientMoves
    <2>3. ASSUME NEW q \in Robot, NEW w \in JoinWaits, JoinMotion(q, w)
          PROVE  motion'[r] = motion[r]
      BY <2>3 DEF JoinMotion
    <2>4. ASSUME NEW s \in Session, NEW w \in StopWaits, NEW c \in BOOLEAN, StopTracker(s, w, c)
          PROVE  motion'[r] = motion[r]
      BY <2>4 DEF StopTracker, Deregister
    <2>5. ASSUME NEW s \in Session, NEW q \in Robot, NEW p \in BOOLEAN, NEW g \in BOOLEAN,
                 StartTracker(s, q, p, g)
          PROVE  motion'[r] = motion[r] \/ ClientMoves(r)
      <3>1. CASE q = r
        BY <2>5, <3>1 DEF StartTracker, ClientMoves
      <3>2. CASE q # r
        BY <1>0, <2>5, <3>2 DEF StartTracker, StartSession, MoveAsync, RobotTypeOK
      <3>. QED  BY <3>1, <3>2
    <2>6. ASSUME NEW s \in Session, StopTrackerPayloadFails(s) PROVE motion'[r] = motion[r]
      BY <2>6 DEF StopTrackerPayloadFails
    <2>. QED  BY <1>1, <2>1, <2>2, <2>3, <2>4, <2>5, <2>6 DEF Request, StartTrackerLoadFails, MoveRobot
  <1>2. ASSUME NEW t \in Thread, EnqueueStop(t), UNCHANGED managerVars
        PROVE  motion'[r] = motion[r] \/ RampComes(r)
    <2>1. CASE EnqueueRamp(t)
      BY <1>0, <1>2, <2>1 DEF EnqueueRamp, MoveAsync, RobotTypeOK, RampComes
    <2>. QED  BY <1>2, <2>1 DEF EnqueueStop, CheckEnqueued, CheckControl, EnqueueRaises
  <1>3. CASE RpcStep
    <2>1. CASE AwaitRequest \/ ServeNothing \/ RememberFinished \/ BeginShutdown \/ CloseSockets
      BY <2>1 DEF AwaitRequest, ServeNothing, RememberFinished, BeginShutdown, CloseSockets
    <2>2. CASE StopPath /\ UNCHANGED managerVars
      BY <1>2, <2>2 DEF StopPath, JoinReturns, JoinTimesOut, ReapPolicy, Thread
    <2>3. ASSUME NEW s \in Session, ShutdownStopsTracker(s) PROVE motion'[r] = motion[r]
      BY <2>3 DEF ShutdownStopsTracker, Deregister
    <2>4. ASSUME NEW q \in Robot, HaltRobot(q) PROVE motion'[r] \in {motion[r], Idle}
      BY <1>0, <2>4 DEF HaltRobot, HardStop, RobotTypeOK
    <2>. QED  BY <1>3, <2>1, <2>2, <2>3, <2>4 DEF RpcStep
  <1>4. ASSUME NEW s \in Session, PolicyStep(s) \/ UserCodeStep(s)
        PROVE  motion'[r] = motion[r] \/ RampComes(r)
    BY <1>2, <1>4
    DEF PolicyStep, UserCodeStep, PolicyLoop, PolicyUserCode, PolicyReturns, PolicyStops,
        PolicyRaises, Thread
  <1>5. ASSUME NEW q \in Robot, RobotStep(q) PROVE motion'[r] \in {motion[r], Idle}
    BY <1>0, <1>5
    DEF RobotStep, ControllerStep, RampFinishes, MotionFinishes, ControllerFaults, RobotTypeOK
  <1>6. CASE RequestShutdown \/ Terminated \/ UNCHANGED vars
    BY <1>6 DEF RequestShutdown, Terminated, vars
  <1>. QED  BY <1>1, <1>3, <1>4, <1>5, <1>6 DEF Next

\* The teardown takes no request, and halts robots only when no session is left.
TeardownInOrder ==
    /\ server \in {"closing", "down"} => at[Rpc] # "recv"
    /\ halted # {} => /\ server \in {"closing", "down"}
                      /\ at[Rpc] = "idle"
                      /\ registry = {}
    /\ server = "down" => /\ halted = robots
                          /\ at[Rpc] = "idle"
                          /\ registry = {}

LEMMA TeardownNext ==
    ASSUME TypeInv, TeardownInOrder, [Next]_vars
    PROVE  TeardownInOrder'
  <1>. USE DEF managerVars, sessionVars, robotVars
  <1>0. /\ SessionTypeOK /\ SessionTypeOK' /\ Rpc \in Thread
        /\ \A s \in Session : s # Rpc
    BY TypeInvNext, SessionAssumption DEF TypeInv, TypeOK, Thread
  <1>1. CASE at[Rpc] = "recv" /\ UNCHANGED <<server, halted>>
    <2>1. server \notin {"closing", "down"} /\ halted = {}
      BY <1>1 DEF TeardownInOrder
    <2>. QED  BY <1>1, <2>1 DEF TeardownInOrder
  <1>2. CASE UNCHANGED <<server, halted, robots, registry>> /\ at'[Rpc] = at[Rpc]
    BY <1>2 DEF TeardownInOrder
  <1>3. CASE /\ UNCHANGED <<server, halted, robots, registry>>
             /\ at[Rpc] \notin {"idle", "recv"} /\ at'[Rpc] # "recv"
    BY <1>3 DEF TeardownInOrder
  <1>4. CASE Request
    <2>1. at[Rpc] = "recv" /\ UNCHANGED <<server, halted>>
      BY <1>4
      DEF Request, CreateRobot, StopRobot, StartTrackerLoadFails, MoveRobot, JoinMotion, Handle,
          StopTrackerPayloadFails, StopTracker, Deregister, StartTracker
    <2>. QED  BY <1>1, <2>1
  <1>5. CASE RpcStep
    <2>1. CASE AwaitRequest
      BY <2>1 DEF AwaitRequest, TeardownInOrder
    <2>2. CASE ServeNothing
      BY <1>1, <2>2 DEF ServeNothing
    <2>3. CASE RememberFinished
      BY <1>0, <1>3, <2>3 DEF RememberFinished, Goto, SessionTypeOK
    <2>4. CASE StopPath /\ UNCHANGED managerVars
      <3>1. PICK l : Goto(Rpc, l) /\ l # "recv"
        BY <2>4, AfterEnqueueType
        DEF StopPath, EnqueueStop, CheckEnqueued, CheckControl, EnqueueRamp, EnqueueRaises,
            JoinReturns, JoinTimesOut, ReapPolicy, AfterJoin
      <3>2. at[Rpc] \notin {"idle", "recv"}
        BY <2>4 DEF StopPath, EnqueueStop, CheckEnqueued, CheckControl, EnqueueRamp, EnqueueRaises,
                    JoinReturns, JoinTimesOut, ReapPolicy
      <3>. QED  BY <1>0, <1>3, <2>4, <3>1, <3>2 DEF Goto, SessionTypeOK
    <2>5. CASE BeginShutdown \/ CloseSockets
      BY <2>5 DEF BeginShutdown, CloseSockets, Closing, TeardownInOrder
    <2>6. ASSUME NEW s \in Session, ShutdownStopsTracker(s) PROVE TeardownInOrder'
      <3>1. /\ registry # {} /\ server = "closing"
            /\ UNCHANGED <<server, halted>>
            /\ \E l \in {"control", "check"} : Goto(Rpc, l)
        BY <2>6 DEF ShutdownStopsTracker, Closing, Deregister, BeginStop
      <3>. QED  BY <1>0, <3>1 DEF TeardownInOrder, Goto, SessionTypeOK
    <2>7. ASSUME NEW r \in Robot, HaltRobot(r) PROVE TeardownInOrder'
      BY <2>7 DEF HaltRobot, Closing, TeardownInOrder
    <2>. QED  BY <1>5, <2>1, <2>2, <2>3, <2>4, <2>5, <2>6, <2>7 DEF RpcStep
  <1>6. CASE RequestShutdown
    BY <1>6 DEF RequestShutdown, TeardownInOrder
  <1>7. ASSUME NEW s \in Session, PolicyStep(s) \/ UserCodeStep(s) PROVE TeardownInOrder'
    <2>1. \E l : Goto(s, l)
      BY <1>7 DEF PolicyStep, UserCodeStep, PolicyLoop, PolicyUserCode, PolicyReturns, PolicyStops,
         PolicyRaises, EnqueueStop, CheckEnqueued, CheckControl, EnqueueRamp, EnqueueRaises
    <2>2. at'[Rpc] = at[Rpc]
      BY <1>0, <2>1 DEF Goto, SessionTypeOK
    <2>. QED  BY <1>2, <1>7, <2>2 DEF PolicyStep, UserCodeStep
  <1>8. ASSUME NEW r \in Robot, RobotStep(r) PROVE TeardownInOrder'
    BY <1>2, <1>8 DEF RobotStep
  <1>9. CASE Terminated \/ UNCHANGED vars
    BY <1>2, <1>9 DEF Terminated, vars
  <1>. QED  BY <1>4, <1>5, <1>6, <1>7, <1>8, <1>9 DEF Next

\* A robot is halted only by the teardown.
LEMMA HaltedGrows ==
    ASSUME [Next]_vars
    PROVE  UNCHANGED halted \/ \E r \in Robot : HaltRobot(r)
  <1>. USE DEF managerVars
  <1>1. Request => UNCHANGED halted
    BY DEF Request, CreateRobot, StopRobot, StartTrackerLoadFails, MoveRobot, JoinMotion, Handle,
       StopTrackerPayloadFails, StopTracker, Deregister, StartTracker
  <1>2. RpcStep => UNCHANGED halted \/ \E r \in Robot : HaltRobot(r)
    BY DEF RpcStep, AwaitRequest, ServeNothing, RememberFinished, BeginShutdown, CloseSockets,
       ShutdownStopsTracker, Deregister
  <1>. QED  BY <1>1, <1>2 DEF Next, RequestShutdown, PolicyStep, UserCodeStep, RobotStep, Terminated, vars

\* A session that is gone has no policy thread that could still act.
GoneIsDone == \A s \in Session \ UnbuildableStops : Gone(s) => Done(s)

JoinedInv == TypeInv /\ AnsweredIsDone /\ GoneIsDone

LEMMA JoinedInvInit == Init => JoinedInv
  <1>. SUFFICES ASSUME Init PROVE JoinedInv
    OBVIOUS
  <1>1. TypeInv
    BY TypeInvInit
  <1>. QED  BY <1>1 DEF Init, SessionInit, JoinedInv, AnsweredIsDone, GoneIsDone, Gone, Started, Thread

LEMMA JoinedInvNext ==
    ASSUME ~ PolicyMayOutliveJoin, JoinedInv, [Next]_vars
    PROVE  JoinedInv'
  <1>1. TypeInv /\ TypeInv' /\ AnsweredIsDone' /\ ThreadsAdvance
    BY TypeInvNext, AnsweredIsDoneNext, NextAdvances DEF JoinedInv
  <1>2. GoneIsDone'
    <2>. SUFFICES ASSUME NEW s \in Session \ UnbuildableStops, Gone(s)'
                  PROVE  Done(s)'
      BY DEF GoneIsDone
    <2>1. CASE Gone(s)
      BY <1>1, <2>1 DEF JoinedInv, GoneIsDone, Gone, ThreadsAdvance
    <2>2. CASE RememberFinished /\ s = call.session
      <3>1. Started(s) /\ Done(s)
        BY <1>1, <2>2 DEF JoinedInv, AnsweredIsDone, RememberFinished, TypeInv, CallMatchesThread
      <3>. QED  BY <1>1, <3>1 DEF ThreadsAdvance
    <2>. QED  BY <1>1, <2>1, <2>2, GoneByAnswer
  <1>. QED  BY <1>1, <1>2 DEF JoinedInv

\* The thread at its move stops a session that is registered or being stopped.
Live(s) == s \in registry \/ call.session = s

LEMMA TargetLive ==
    ASSUME UnbuildableStops = {}, JoinedInv,
           NEW t \in Thread, at[t] \in {"check", "control", "move"}
    PROVE  Target(t) \in Session /\ Live(Target(t))
  <1>1. Target(t) \in Session /\ Started(Target(t))
    BY TargetStarted DEF JoinedInv
  <1>2. CASE t = Rpc
    BY <1>1, <1>2 DEF Target, Live
  <1>3. CASE t # Rpc
    <2>1. Target(t) = t /\ ~ Done(t)
      BY <1>3 DEF Target, Done
    <2>. QED  BY <1>1, <2>1 DEF JoinedInv, GoneIsDone, Gone, Live
  <1>. QED  BY <1>2, <1>3

\* A halted robot stays at rest: there is no request and no thread left that
\* could enqueue a motion on it.
HaltedStill == \A r \in halted : motion[r] = Idle

TeardownInv == JoinedInv /\ TeardownInOrder /\ HaltedStill

\* When the server closes its sockets no robot executes anything, the ramps of
\* its sessions included, as long as policies return within their join and no
\* stop motion was lost; clients may have shared the robots as they liked.
THEOREM DownIsStill ==
    ASSUME ~ PolicyMayOutliveJoin, UnbuildableStops = {}
    PROVE  Spec => []DownMeansStill
  <1>1. Init => TeardownInv
    BY JoinedInvInit DEF Init, SessionInit, TeardownInv, TeardownInOrder, HaltedStill, Thread
  <1>2. ASSUME TeardownInv, [Next]_vars PROVE TeardownInv'
    <2>0. TypeInv /\ JoinedInv' /\ TeardownInOrder'
      BY <1>2, JoinedInvNext, TeardownNext DEF TeardownInv, JoinedInv
    <2>1. HaltedStill'
      <3>. SUFFICES ASSUME NEW r \in halted' PROVE motion'[r] = Idle
        BY DEF HaltedStill
      <3>1. CASE HaltRobot(r) /\ r \in Robot
        BY <2>0, <3>1 DEF HaltRobot, HardStop, TypeInv, TypeOK, RobotTypeOK
      <3>2. CASE r \in halted
        <4>1. /\ r \in Robot /\ motion[r] = Idle
              /\ at[Rpc] = "idle" /\ registry = {}
          BY <1>2, <2>0, <3>2
          DEF TeardownInv, TeardownInOrder, HaltedStill, TypeInv, TypeOK, ManagerTypeOK
        <4>2. ~ ClientMoves(r)
          BY <4>1 DEF ClientMoves
        <4>3. ~ RampComes(r)
          <5>. SUFFICES ASSUME NEW t \in Thread, EnqueueRamp(t) PROVE FALSE
            BY DEF RampComes
          <5>1. at[t] = "move"
            BY DEF EnqueueRamp
          <5>2. Target(t) \in Session /\ Live(Target(t))
            BY <1>2, <5>1, TargetLive DEF TeardownInv
          <5>3. call.session \notin Session
            BY <2>0, <4>1, RobotAssumption DEF TypeInv, CallMatchesThread, NoCall
          <5>. QED  BY <4>1, <5>2, <5>3 DEF Live
        <4>. QED  BY <1>2, <2>0, <4>1, <4>2, <4>3, MotionChanges
      <3>3. r \in halted \/ (HaltRobot(r) /\ r \in Robot)
        <4>1. CASE UNCHANGED halted
          BY <4>1
        <4>2. ASSUME NEW q \in Robot, HaltRobot(q) PROVE r \in halted \/ r = q
          BY <4>2 DEF HaltRobot
        <4>. QED  BY <1>2, <4>1, <4>2, HaltedGrows
      <3>. QED  BY <3>1, <3>2, <3>3
    <2>. QED  BY <2>0, <2>1 DEF TeardownInv
  <1>3. TeardownInv => DownMeansStill
    BY DEF TeardownInv, TeardownInOrder, HaltedStill, DownMeansStill, InControl
  <1>. QED  BY <1>1, <1>2, <1>3, PTL DEF Spec

-----------------------------------------------------------------------------
(***************************************************************************)
(* One tracker, one robot: with clients that leave a robot to its tracker.  *)
(***************************************************************************)
\* No two sessions that are registered or being stopped share a robot, and none
\* of them finds a motion on its robot that is not its own.
OneTrackerPerRobot ==
    \A s, o \in Session : Live(s) /\ Live(o) /\ robotOf[s] = robotOf[o] => s = o

LiveMeansOwn ==
    \A s \in Session : Live(s) => motion[robotOf[s]] \in {Idle, Track(s), Ramp(s)}

ExclusiveInv == JoinedInv /\ OneTrackerPerRobot /\ LiveMeansOwn

LEMMA ExclusiveInvInit == Init => ExclusiveInv
  <1>. SUFFICES ASSUME Init PROVE ExclusiveInv
    OBVIOUS
  <1>1. \A s \in Session : ~ Live(s)
    BY RobotAssumption DEF Init, SessionInit, NoCall, Live
  <1>. QED  BY <1>1, JoinedInvInit DEF ExclusiveInv, OneTrackerPerRobot, LiveMeansOwn

\* A registered session, or the one being stopped, is a started one.
LEMMA LiveStarted ==
    ASSUME TypeInv, NEW s \in Session, Live(s)
    PROVE  Started(s) /\ robotOf[s] \in Robot
  BY DEF TypeInv, TypeOK, SessionTypeOK, OnlyStartedAct, CallMatchesThread, Live, Started

\* Between requests the live sessions are the registered ones.
LEMMA LiveAtRecv ==
    ASSUME TypeInv, at[Rpc] = "recv", NEW s \in Session
    PROVE  Live(s) <=> s \in registry
  BY RobotAssumption DEF TypeInv, CallMatchesThread, NoCall, Live

\* A session becomes live only by its start.
LEMMA LiveByStart ==
    ASSUME TypeInv, [Next]_vars, ~ Starts, NEW s \in Session, Live(s)'
    PROVE  Live(s)
  <1>1. CASE Bystands
    BY <1>1 DEF Bystands, Live
  <1>2. CASE Deregisters
    BY <1>2 DEF Deregisters, Deregister, BeginStop, Live
  <1>3. CASE RememberFinished
    BY <1>3, RobotAssumption DEF RememberFinished, NoCall, Live
  <1>4. CASE \E o \in Session : StopTrackerPayloadFails(o)
    BY <1>4 DEF StopTrackerPayloadFails, Handle, Live
  <1>. QED  BY <1>1, <1>2, <1>3, <1>4, StepKinds

LEMMA ExclusiveInvNext ==
    ASSUME ~ PolicyMayOutliveJoin, UnbuildableStops = {}, ExclusiveRobots,
           ExclusiveInv, [Next]_vars
    PROVE  ExclusiveInv'
  <1>0. TypeInv /\ JoinedInv /\ JoinedInv' /\ ThreadsAdvance
    BY JoinedInvNext, NextAdvances DEF ExclusiveInv, JoinedInv
  <1>1. ASSUME ~ Starts PROVE ExclusiveInv'
    <2>1. \A s \in Session : Live(s)' => Live(s) /\ robotOf[s] \in Robot /\ robotOf'[s] = robotOf[s]
      BY <1>0, <1>1, LiveByStart, LiveStarted DEF ThreadsAdvance
    <2>2. OneTrackerPerRobot'
      BY <2>1 DEF ExclusiveInv, OneTrackerPerRobot, Live
    <2>3. LiveMeansOwn'
      <3>. SUFFICES ASSUME NEW s \in Session, Live(s)'
                    PROVE  motion'[robotOf'[s]] \in {Idle, Track(s), Ramp(s)}
        BY DEF LiveMeansOwn, Live, Track, Ramp, Idle
      <3>1. PICK r \in Robot : /\ r = robotOf[s] /\ r = robotOf'[s]
                               /\ Live(s) /\ motion[r] \in {Idle, Track(s), Ramp(s)}
        BY <2>1 DEF ExclusiveInv, LiveMeansOwn
      <3>2. ~ ClientMoves(r)
        <4>1. ~ \E o \in Session, p \in BOOLEAN, g \in BOOLEAN : StartTracker(o, r, p, g)
          BY <1>1 DEF Starts
        <4>2. at[Rpc] = "recv" => ~ Available(r)
          BY <1>0, <3>1, LiveAtRecv DEF Available
        <4>. QED  BY <4>2 DEF ClientMoves
      <3>3. ASSUME RampComes(r) PROVE motion'[r] = Ramp(s)
        <4>1. PICK t \in Thread : /\ EnqueueRamp(t) /\ r = robotOf[Target(t)]
                                  /\ motion'[r] = Ramp(Target(t))
          BY <3>3 DEF RampComes
        <4>2. Target(t) \in Session /\ Live(Target(t))
          BY <1>0, <4>1, TargetLive DEF EnqueueRamp
        <4>3. Target(t) = s
          BY <3>1, <4>1, <4>2 DEF ExclusiveInv, OneTrackerPerRobot
        <4>. QED  BY <4>1, <4>3
      <3>. QED  BY <1>0, <3>1, <3>2, <3>3, MotionChanges
    <2>. QED  BY <1>0, <2>2, <2>3 DEF ExclusiveInv
  <1>2. ASSUME NEW s \in Session, NEW r \in Robot, NEW p \in BOOLEAN, NEW g \in BOOLEAN,
               StartTracker(s, r, p, g)
        PROVE  ExclusiveInv'
    <2>1. /\ at[Rpc] = "recv" /\ Available(r)
          /\ motion' = [motion EXCEPT ![r] = Track(s)]
          /\ robotOf' = [robotOf EXCEPT ![s] = r]
          /\ registry' = registry \cup {s} /\ call' = call
      BY <1>2 DEF StartTracker, StartSession, MoveAsync
    <2>2. \A o \in Session \ {s} :
            Live(o)' => /\ Live(o) /\ robotOf'[o] = robotOf[o]
                        /\ robotOf[o] \in Robot \ {r}
                        /\ motion'[robotOf[o]] = motion[robotOf[o]]
      <3>. SUFFICES ASSUME NEW o \in Session \ {s}, Live(o)'
                    PROVE  /\ Live(o) /\ robotOf'[o] = robotOf[o]
                           /\ robotOf[o] \in Robot \ {r}
                           /\ motion'[robotOf[o]] = motion[robotOf[o]]
        OBVIOUS
      <3>1. Live(o) /\ robotOf[o] \in Robot
        BY <1>0, <2>1, LiveStarted DEF Live
      <3>2. robotOf[o] # r
        BY <1>0, <2>1, <3>1, LiveAtRecv DEF Available
      <3>. QED  BY <1>0, <2>1, <3>1, <3>2 DEF TypeInv, TypeOK, RobotTypeOK, SessionTypeOK
    <2>3. robotOf'[s] = r /\ motion'[r] = Track(s)
      BY <1>0, <2>1 DEF TypeInv, TypeOK, RobotTypeOK, SessionTypeOK
    <2>4. OneTrackerPerRobot'
      BY <2>2, <2>3 DEF ExclusiveInv, OneTrackerPerRobot, Live
    <2>5. LiveMeansOwn'
      <3>. SUFFICES ASSUME NEW o \in Session, Live(o)'
                    PROVE  motion'[robotOf'[o]] \in {Idle, Track(o), Ramp(o)}
        BY DEF LiveMeansOwn, Live, Track, Ramp, Idle
      <3>1. CASE o = s
        BY <2>3, <3>1
      <3>2. CASE o # s
        BY <2>2, <3>2 DEF ExclusiveInv, LiveMeansOwn
      <3>. QED  BY <3>1, <3>2
    <2>. QED  BY <1>0, <2>4, <2>5 DEF ExclusiveInv
  <1>. QED  BY <1>1, <1>2 DEF Starts

\* A thread about to enqueue a stop ramp finds its own session's motion on the
\* robot, or none: it takes the robot from nobody else.
THEOREM RampsReplaceOwn ==
    ASSUME ~ PolicyMayOutliveJoin, UnbuildableStops = {}, ExclusiveRobots
    PROVE  Spec => []RampsOnlyOwnMotion
  <1>1. ASSUME ExclusiveInv PROVE RampsOnlyOwnMotion
    <2>. SUFFICES ASSUME NEW t \in Thread, at[t] = "move"
                  PROVE  motion[robotOf[Target(t)]] \in {Idle, Track(Target(t)), Ramp(Target(t))}
      BY DEF RampsOnlyOwnMotion
    <2>1. Target(t) \in Session /\ Live(Target(t))
      BY <1>1, TargetLive DEF ExclusiveInv
    <2>. QED  BY <1>1, <2>1 DEF ExclusiveInv, LiveMeansOwn
  <1>2. Init => ExclusiveInv
    BY ExclusiveInvInit
  <1>3. ExclusiveInv /\ [Next]_vars => ExclusiveInv'
    BY ExclusiveInvNext
  <1>. QED  BY <1>1, <1>2, <1>3, PTL DEF Spec

\* A registered session that reports running is the one its robot executes:
\* status() may ask for control, which any motion has, because none but the
\* session's own can have it.
THEOREM RunningIsOwn ==
    ASSUME ~ PolicyMayOutliveJoin, UnbuildableStops = {}, ExclusiveRobots
    PROVE  Spec => []RunningMeansOwnMotion
  <1>1. ExclusiveInv => RunningMeansOwnMotion
    BY DEF ExclusiveInv, JoinedInv, TypeInv, TypeOK, ManagerTypeOK, LiveMeansOwn, Live,
           RunningMeansOwnMotion, Running, InControl
  <1>2. Init => ExclusiveInv
    BY ExclusiveInvInit
  <1>3. ExclusiveInv /\ [Next]_vars => ExclusiveInv'
    BY ExclusiveInvNext
  <1>. QED  BY <1>1, <1>2, <1>3, PTL DEF Spec
=============================================================================
