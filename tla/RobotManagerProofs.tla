------------------------- MODULE RobotManagerProofs -------------------------
(***************************************************************************)
(* Theorems of RobotManager, for every set of robots and sessions, every    *)
(* history bound and every client discipline.                               *)
(***************************************************************************)
EXTENDS RobotManager, TLAPS

-----------------------------------------------------------------------------
(***************************************************************************)
(* Lemmas about the operators.                                              *)
(***************************************************************************)
\* A motion of one of the kinds franky runs is in Motion.
LEMMA MotionType ==
    /\ {Idle, Waypoint, Impedance, Orphan} \subseteq Motion
    /\ \A s \in Session : Track(s) \in Motion /\ Ramp(s) \in Motion
  BY DEF Motion

\* Trimming the status history (_remember_finished) keeps its entries' type
\* and brings it within the bound.
LEMMA NewestType ==
    ASSUME NEW S, NEW h \in Seq(S), NEW n \in Nat \ {0}
    PROVE  Newest(n, h) \in Seq(S) /\ Len(Newest(n, h)) <= n
  <1>1. CASE Len(h) <= n
    BY <1>1 DEF Newest
  <1>2. CASE ~ Len(h) <= n
    <2>1. Len(h) - n + 1 \in 1 .. Len(h)
      BY <1>2
    <2>2. SubSeq(h, Len(h) - n + 1, Len(h)) \in Seq(S)
      BY <2>1
    <2>3. Len(SubSeq(h, Len(h) - n + 1, Len(h))) = n
      BY <2>1
    <2>. QED  BY <1>2, <2>2, <2>3 DEF Newest
  <1>. QED  BY <1>1, <1>2

\* move() leaves every robot with a motion and an outcome.
LEMMA MoveAsyncType ==
    ASSUME RobotTypeOK, NEW r \in Robot, NEW m \in Motion, MoveAsync(r, m)
    PROVE  RobotTypeOK'
  BY DEF RobotTypeOK, MoveAsync, Outcome

\* So does stop().
LEMMA HardStopType ==
    ASSUME RobotTypeOK, NEW r \in Robot, HardStop(r)
    PROVE  RobotTypeOK'
  BY MotionType DEF RobotTypeOK, HardStop, Outcome

\* The stop path's next locations are the thread's own.
LEMMA AfterEnqueueType ==
    /\ AfterEnqueue(Rpc) = {"join"}
    /\ \A s \in Session : AfterEnqueue(s) \subseteq {"dead", "loop", "rest"}
  BY SessionAssumption DEF AfterEnqueue

\* Moving one thread to a location of its kind keeps `at` typed.
LEMMA GotoType ==
    ASSUME SessionTypeOK, NEW t \in Thread, NEW l, Goto(t, l),
           IF t = Rpc THEN l \in RpcLoc ELSE l \in PolicyLoc
    PROVE  /\ at' \in [Thread -> PolicyLoc \cup RpcLoc]
           /\ at'[Rpc] \in RpcLoc
           /\ \A s \in Session : at'[s] \in PolicyLoc
  BY SessionAssumption DEF SessionTypeOK, Goto, Thread

-----------------------------------------------------------------------------
(***************************************************************************)
(* Type correctness.                                                        *)
(***************************************************************************)
\* The invariant that types need: calls name started sessions and real robots.
LEMMA TypeInvInit == Init => TypeInv
  <1>. SUFFICES ASSUME Init PROVE TypeInv
    OBVIOUS
  <1>1. RobotTypeOK
    BY MotionType DEF Init, RobotInit, RobotTypeOK, Outcome
  <1>2. SessionTypeOK
    BY SessionAssumption
    DEF Init, SessionInit, SessionTypeOK, Thread, UserCode, PolicyLoc, RpcLoc, Call, NoCall, Wait
  <1>3. ManagerTypeOK
    BY ManagerAssumption DEF Init, ManagerTypeOK
  <1>4. CallMatchesThread
    BY RobotAssumption, SessionAssumption
    DEF Init, SessionInit, CallMatchesThread, NoCall, Thread
  <1>5. OnlyStartedAct
    BY SessionAssumption DEF Init, SessionInit, OnlyStartedAct, HasPolicy, Thread
  <1>. QED  BY <1>1, <1>2, <1>3, <1>4, <1>5 DEF TypeInv, TypeOK

\* The session a thread is stopping is a started one.
LEMMA TargetStarted ==
    ASSUME TypeInv, NEW t \in Thread, at[t] \in {"check", "control", "move"}
    PROVE  /\ Target(t) \in Session
           /\ Started(Target(t))
           /\ robotOf[Target(t)] \in Robot
  <1>1. CASE t = Rpc
    <2>1. call.session \in Session /\ Started(call.session)
      BY <1>1 DEF TypeInv, CallMatchesThread
    <2>. QED  BY <1>1, <2>1 DEF Target, TypeInv, TypeOK, SessionTypeOK, Started
  <1>2. CASE t \in Session
    <2>1. Target(t) = t /\ Started(t)
      BY <1>2, SessionAssumption DEF Target, TypeInv, OnlyStartedAct, HasPolicy
    <2>. QED  BY <1>2, <2>1 DEF TypeInv, TypeOK, SessionTypeOK, Started
  <1>. QED  BY <1>1, <1>2 DEF Thread

\* _enqueue_stop_motion, on either thread.
LEMMA EnqueueStopTypeInv ==
    ASSUME TypeInv, NEW t \in Thread, EnqueueStop(t), UNCHANGED managerVars
    PROVE  TypeInv'
  <1>. USE DEF managerVars, robotVars, UserCode, PolicyLoc, RpcLoc
  <1>0. /\ RobotTypeOK /\ SessionTypeOK /\ ManagerTypeOK
        /\ CallMatchesThread /\ OnlyStartedAct
    BY DEF TypeInv, TypeOK
  <1>1. /\ at[t] \in {"check", "control", "move"}
        /\ UNCHANGED robotOf
    BY DEF EnqueueStop, CheckEnqueued, CheckControl, EnqueueRamp, EnqueueRaises
  <1>2. Target(t) \in Session /\ Started(Target(t)) /\ robotOf[Target(t)] \in Robot
    BY <1>1, TargetStarted
  <1>3. PICK l : /\ Goto(t, l)
                 /\ IF t = Rpc THEN l \in {"control", "move", "join", "reap"}
                    ELSE l \in {"check", "control", "move", "loop", "rest", "dead"}
    BY AfterEnqueueType
    DEF EnqueueStop, CheckEnqueued, CheckControl, EnqueueRamp, EnqueueRaises, Thread
  <1>4. RobotTypeOK'
    BY <1>0, <1>2, MoveAsyncType, MotionType
    DEF EnqueueStop, CheckEnqueued, CheckControl, EnqueueRamp, EnqueueRaises, RobotTypeOK
  <1>5. /\ call' \in Call
        /\ call'.session = call.session
        /\ call'.robot = call.robot
    <2>1. call \in Call
      BY <1>0 DEF SessionTypeOK
    <2>2. call' = call \/ call' = [call EXCEPT !.raised = TRUE]
      BY DEF EnqueueStop, CheckEnqueued, CheckControl, EnqueueRamp, EnqueueRaises
    <2>. QED  BY <2>1, <2>2 DEF Call
  <1>6. /\ guarded' \subseteq Session /\ stopEvent' \subseteq Session
        /\ failed' \subseteq Session
        /\ stopEnqueued' \subseteq stopEnqueued \cup {Target(t)}
    BY <1>0 DEF EnqueueStop, CheckEnqueued, CheckControl, EnqueueRamp, EnqueueRaises,
                SessionTypeOK, Thread
  <1>7. SessionTypeOK'
    BY <1>0, <1>1, <1>2, <1>3, <1>5, <1>6, GotoType DEF SessionTypeOK
  <1>8. ManagerTypeOK'
    BY <1>0 DEF ManagerTypeOK
  <1>9. CallMatchesThread'
    <2>1. CASE t = Rpc
      <3>1. call.session \in Session /\ call.robot \in Robot
        BY <2>1, <1>2, <1>0 DEF Target, CallMatchesThread
      <3>. QED  BY <1>0, <1>1, <1>3, <1>5, <2>1, <3>1
                DEF CallMatchesThread, Goto, SessionTypeOK, Started, Thread
    <2>2. CASE t # Rpc
      <3>1. at'[Rpc] = at[Rpc]
        BY <1>0, <1>3, <2>2 DEF Goto, SessionTypeOK, Thread
      <3>2. at[Rpc] \in {"idle", "recv"} => call' = call
        BY <2>2 DEF EnqueueStop, CheckEnqueued, CheckControl, EnqueueRamp, EnqueueRaises
      <3>. QED  BY <1>0, <1>1, <1>5, <3>1, <3>2 DEF CallMatchesThread, Started
    <2>. QED  BY <2>1, <2>2
  <1>10. OnlyStartedAct'
    <2>1. \A s \in Session : HasPolicy(s)' => HasPolicy(s)
      BY <1>0, <1>1, <1>3 DEF HasPolicy, Goto, SessionTypeOK, Thread
    <2>. QED  BY <1>0, <1>1, <1>2, <1>6, <2>1 DEF OnlyStartedAct, Started
  <1>. QED  BY <1>4, <1>7, <1>8, <1>9, <1>10 DEF TypeInv, TypeOK

\* The policy thread's loop and its user code touch only its own session.
LEMMA PolicyTypeInv ==
    ASSUME TypeInv, NEW s \in Session, UNCHANGED managerVars,
           PolicyLoop(s) \/ PolicyUserCode(s)
    PROVE  TypeInv'
  <1>. USE DEF managerVars, robotVars, UserCode, PolicyLoc, RpcLoc
  <1>0. /\ RobotTypeOK /\ SessionTypeOK /\ ManagerTypeOK
        /\ CallMatchesThread /\ OnlyStartedAct
    BY DEF TypeInv, TypeOK
  <1>1. /\ UNCHANGED <<robotVars, robotOf, guarded, stopEnqueued, call>>
        /\ stopEvent' \subseteq Session /\ failed' \subseteq Session
        /\ at[s] # "absent"
    BY <1>0 DEF PolicyLoop, PolicyUserCode, PolicyReturns, PolicyStops, PolicyRaises, SessionTypeOK
  <1>2. PICK l : Goto(s, l) /\ l \in {"policy", "loop", "check", "dead"}
    BY DEF PolicyLoop, PolicyUserCode, PolicyReturns, PolicyStops, PolicyRaises
  <1>3. SessionTypeOK'
    BY <1>0, <1>1, <1>2, GotoType, SessionAssumption DEF SessionTypeOK, Thread
  <1>4. at'[Rpc] = at[Rpc] /\ \A o \in Session : HasPolicy(o)' => HasPolicy(o)
    BY <1>0, <1>1, <1>2, SessionAssumption DEF HasPolicy, Goto, SessionTypeOK, Thread
  <1>5. RobotTypeOK' /\ ManagerTypeOK' /\ CallMatchesThread'
    BY <1>0, <1>1, <1>4 DEF RobotTypeOK, ManagerTypeOK, CallMatchesThread, Started
  <1>6. OnlyStartedAct'
    BY <1>0, <1>1, <1>4 DEF OnlyStartedAct, Started
  <1>. QED  BY <1>3, <1>5, <1>6 DEF TypeInv, TypeOK

\* join_motion's two ends and the join of the policy thread.
LEMMA JoinTypeInv ==
    ASSUME TypeInv, UNCHANGED managerVars, JoinReturns \/ JoinTimesOut \/ ReapPolicy
    PROVE  TypeInv'
  <1>. USE DEF managerVars, robotVars, UserCode, PolicyLoc, RpcLoc
  <1>0. /\ RobotTypeOK /\ SessionTypeOK /\ ManagerTypeOK
        /\ CallMatchesThread /\ OnlyStartedAct
    BY DEF TypeInv, TypeOK
  <1>1. /\ UNCHANGED <<motion, robotOf, guarded, stopEvent, stopEnqueued, failed>>
        /\ at[Rpc] \in {"join", "reap"}
    BY DEF JoinReturns, JoinTimesOut, ReapPolicy
  <1>2. RobotTypeOK'
    BY <1>0, <1>1 DEF JoinReturns, JoinTimesOut, ReapPolicy, RobotTypeOK, Outcome
  <1>3. PICK l : /\ Goto(Rpc, l)
                 /\ \/ l \in {"reap", "remember"} /\ call.session \in Session
                    \/ l = "idle" /\ call' = NoCall
    <2>1. call.session \in Session \cup {NoSession}
      BY <1>0 DEF SessionTypeOK, Call
    <2>2. CASE ReapPolicy
      BY <2>2, <1>0 DEF ReapPolicy, CallMatchesThread
    <2>3. CASE JoinReturns \/ JoinTimesOut
      BY <2>1, <2>3 DEF JoinReturns, JoinTimesOut, AfterJoin
    <2>. QED  BY <2>2, <2>3
  <1>4. call' = NoCall \/ /\ call' \in Call
                          /\ call'.session = call.session
                          /\ call'.robot = call.robot
    <2>1. call \in Call
      BY <1>0 DEF SessionTypeOK
    <2>2. \/ call' = NoCall \/ call' = call
          \/ call' = [call EXCEPT !.raised = exc[call.robot] = "fault"]
      BY DEF JoinReturns, JoinTimesOut, ReapPolicy
    <2>. QED  BY <2>1, <2>2 DEF Call
  <1>5. NoCall \in Call /\ NoCall.session \notin Session
    BY RobotAssumption DEF NoCall, Call, Wait
  <1>6. Rpc \in Thread /\ \A s \in Session : s \in Thread /\ s # Rpc
    BY SessionAssumption DEF Thread
  <1>7. SessionTypeOK'
    BY <1>0, <1>1, <1>3, <1>4, <1>5, <1>6, GotoType DEF SessionTypeOK
  <1>8. at'[Rpc] \in {"reap", "remember", "idle"} /\ \A s \in Session : at'[s] = at[s]
    BY <1>0, <1>3, <1>6 DEF Goto, SessionTypeOK
  <1>9. CallMatchesThread'
    <2>1. at'[Rpc] = "idle" => call' = NoCall
      BY <1>0, <1>3, <1>6 DEF Goto, SessionTypeOK
    <2>2. at'[Rpc] \in {"reap", "remember"} => call'.session \in Session
      <3>1. CASE ReapPolicy
        BY <3>1, <1>0 DEF ReapPolicy, CallMatchesThread
      <3>2. CASE JoinReturns \/ JoinTimesOut
        <4>1. call.session = NoSession => at'[Rpc] = "idle"
          BY <3>2, <1>0, <1>6 DEF JoinReturns, JoinTimesOut, AfterJoin, Goto, SessionTypeOK
        <4>2. call.session # NoSession => call'.session = call.session
          BY <3>2, <1>0 DEF JoinReturns, JoinTimesOut, SessionTypeOK, Call
        <4>. QED  BY <4>1, <4>2, <1>0 DEF SessionTypeOK, Call
      <3>. QED  BY <3>1, <3>2
    <2>. QED  BY <1>0, <1>1, <1>4, <1>5, <1>8, <2>1, <2>2 DEF CallMatchesThread, Started
  <1>10. ManagerTypeOK' /\ OnlyStartedAct'
    BY <1>0, <1>1, <1>8 DEF ManagerTypeOK, OnlyStartedAct, HasPolicy, Started
  <1>. QED  BY <1>2, <1>7, <1>9, <1>10 DEF TypeInv, TypeOK

\* The robots' own steps touch no session.
LEMMA RobotStepTypeInv ==
    ASSUME TypeInv, NEW r \in Robot, RobotStep(r)
    PROVE  TypeInv'
  <1>. USE DEF managerVars, sessionVars
  <1>1. RobotTypeOK'
    BY MotionType DEF RobotStep, ControllerStep, RampFinishes, MotionFinishes, ControllerFaults,
       TypeInv, TypeOK, RobotTypeOK, Outcome
  <1>. QED  BY <1>1 DEF RobotStep, TypeInv, TypeOK, SessionTypeOK, ManagerTypeOK,
                        CallMatchesThread, OnlyStartedAct, HasPolicy, Started

\* A handler answered in one step, and the serve loop around it, moves only the
\* RPC thread between `idle` and `recv`.
LEMMA OneStepTypeInv ==
    ASSUME TypeInv, RobotTypeOK', ManagerTypeOK', registry' \subseteq registry,
           UNCHANGED <<robotOf, guarded, stopEvent, stopEnqueued, failed, call>>,
           \/ UNCHANGED at
           \/ at[Rpc] \in {"idle", "recv"} /\ \E l \in {"idle", "recv"} : Goto(Rpc, l)
    PROVE  TypeInv'
  <1>. USE DEF UserCode, PolicyLoc, RpcLoc
  <1>0. /\ SessionTypeOK /\ CallMatchesThread /\ OnlyStartedAct
    BY DEF TypeInv, TypeOK
  <1>1. Rpc \in Thread /\ \A s \in Session : s \in Thread /\ s # Rpc
    BY SessionAssumption DEF Thread
  <1>2. SessionTypeOK'
    BY <1>0, <1>1, GotoType DEF SessionTypeOK
  <1>3. /\ \A s \in Session : at'[s] = at[s]
        /\ at'[Rpc] = at[Rpc] \/ (at[Rpc] \in {"idle", "recv"} /\ at'[Rpc] \in {"idle", "recv"})
    BY <1>0, <1>1 DEF Goto, SessionTypeOK
  <1>4. CallMatchesThread'
    BY <1>0, <1>3 DEF CallMatchesThread, Started
  <1>5. OnlyStartedAct'
    BY <1>0, <1>3 DEF OnlyStartedAct, HasPolicy, Started
  <1>. QED  BY <1>2, <1>4, <1>5 DEF TypeInv, TypeOK

\* robot.start_*_tracker registers a session that was never started.
LEMMA StartTypeInv ==
    ASSUME TypeInv, NEW s \in Session, NEW r \in Robot, NEW p \in BOOLEAN, NEW g \in BOOLEAN,
           StartTracker(s, r, p, g)
    PROVE  TypeInv'
  <1>. USE DEF UserCode, PolicyLoc, RpcLoc
  <1>0. /\ RobotTypeOK /\ SessionTypeOK /\ ManagerTypeOK
        /\ CallMatchesThread /\ OnlyStartedAct
    BY DEF TypeInv, TypeOK
  <1>1. Rpc \in Thread /\ \A o \in Session : o \in Thread /\ o # Rpc
    BY SessionAssumption DEF Thread
  <1>2. /\ at[Rpc] = "recv"
        /\ ~ Started(s)
        /\ MoveAsync(r, Track(s))
        /\ robotOf' = [robotOf EXCEPT ![s] = r]
        /\ guarded' \subseteq guarded \cup {s}
        /\ at' = [at EXCEPT ![s] = IF p THEN "policy" ELSE "absent", ![Rpc] = "idle"]
        /\ registry' = registry \cup {s}
        /\ UNCHANGED <<stopEvent, stopEnqueued, failed, call, robots, finished, answered, server, halted>>
    BY DEF StartTracker, StartSession
  <1>3. RobotTypeOK'
    BY <1>0, <1>2, MoveAsyncType, MotionType
  <1>4. /\ at' \in [Thread -> PolicyLoc \cup RpcLoc]
        /\ at'[Rpc] = "idle" /\ at'[s] \in {"policy", "absent"}
        /\ \A o \in Session \ {s} : at'[o] = at[o]
    BY <1>0, <1>1, <1>2 DEF SessionTypeOK
  <1>5. SessionTypeOK'
    BY <1>0, <1>2, <1>4 DEF SessionTypeOK
  <1>6. ManagerTypeOK'
    BY <1>0, <1>2 DEF ManagerTypeOK
  <1>7. robotOf'[s] = r /\ \A o \in Session \ {s} : robotOf'[o] = robotOf[o]
    BY <1>0, <1>2 DEF SessionTypeOK
  <1>8. r # NoRobot
    BY SessionAssumption
  <1>9. call' = NoCall /\ NoCall.session \notin Session
    BY <1>0, <1>2, RobotAssumption DEF CallMatchesThread, NoCall
  <1>10. CallMatchesThread'
    BY <1>4, <1>9 DEF CallMatchesThread
  <1>11. OnlyStartedAct'
    BY <1>0, <1>2, <1>4, <1>7, <1>8 DEF OnlyStartedAct, HasPolicy, Started
  <1>. QED  BY <1>3, <1>5, <1>6, <1>10, <1>11 DEF TypeInv, TypeOK

\* stop_tracker takes a registered session out and starts its stop.
LEMMA DeregisterTypeInv ==
    ASSUME TypeInv, NEW s \in Session, NEW w \in Wait, NEW c \in BOOLEAN,
           Deregister(s, w, c)
    PROVE  TypeInv'
  <1>. USE DEF UserCode, PolicyLoc, RpcLoc, robotVars
  <1>0. /\ RobotTypeOK /\ SessionTypeOK /\ ManagerTypeOK
        /\ CallMatchesThread /\ OnlyStartedAct
    BY DEF TypeInv, TypeOK
  <1>1. Rpc \in Thread /\ \A o \in Session : o \in Thread /\ o # Rpc
    BY SessionAssumption DEF Thread
  <1>2. /\ s \in registry
        /\ registry' = registry \ {s}
        /\ stopEvent' = stopEvent \cup {s}
        /\ call' = [session |-> s, robot |-> robotOf[s], wait |-> w, custom |-> c, raised |-> FALSE]
        /\ \E l \in {"control", "check"} : Goto(Rpc, l)
        /\ UNCHANGED <<motion, exc, robotOf, guarded, stopEnqueued, failed, robots, finished, answered, server, halted>>
    BY DEF Deregister, BeginStop
  <1>3. RobotTypeOK' /\ ManagerTypeOK'
    BY <1>0, <1>2 DEF RobotTypeOK, ManagerTypeOK
  <1>4. call' \in Call /\ call'.session = s /\ call'.robot = robotOf[s]
    BY <1>0, <1>2 DEF Call, SessionTypeOK
  <1>5. SessionTypeOK'
    BY <1>0, <1>1, <1>2, <1>4, GotoType DEF SessionTypeOK
  <1>6. at'[Rpc] \in {"control", "check"} /\ \A o \in Session : at'[o] = at[o]
    BY <1>0, <1>1, <1>2 DEF Goto, SessionTypeOK
  <1>7. CallMatchesThread'
    BY <1>0, <1>2, <1>4, <1>6 DEF CallMatchesThread, OnlyStartedAct, Started
  <1>8. OnlyStartedAct'
    BY <1>0, <1>2, <1>6 DEF OnlyStartedAct, HasPolicy, Started
  <1>. QED  BY <1>3, <1>5, <1>7, <1>8 DEF TypeInv, TypeOK

\* robot.join_motion begins, and stop_tracker's `finally` ends.
LEMMA JoinMotionTypeInv ==
    ASSUME TypeInv, NEW r \in Robot, NEW w \in Wait, JoinMotion(r, w)
    PROVE  TypeInv'
  <1>. USE DEF UserCode, PolicyLoc, RpcLoc, robotVars, managerVars
  <1>0. /\ RobotTypeOK /\ SessionTypeOK /\ ManagerTypeOK
        /\ CallMatchesThread /\ OnlyStartedAct
    BY DEF TypeInv, TypeOK
  <1>1. Rpc \in Thread /\ \A o \in Session : o \in Thread /\ o # Rpc
    BY SessionAssumption DEF Thread
  <1>2. /\ call' = [NoCall EXCEPT !.robot = r, !.wait = w]
        /\ Goto(Rpc, "join")
        /\ UNCHANGED <<motion, exc, robotOf, guarded, stopEvent, stopEnqueued, failed, robots, registry, finished, answered, server, halted>>
    BY DEF JoinMotion
  <1>3. call' \in Call /\ call'.session = NoSession /\ call'.robot = r
    BY <1>2 DEF Call, NoCall
  <1>4. SessionTypeOK'
    BY <1>0, <1>1, <1>2, <1>3, GotoType DEF SessionTypeOK
  <1>5. at'[Rpc] = "join" /\ \A o \in Session : at'[o] = at[o]
    BY <1>0, <1>1, <1>2 DEF Goto, SessionTypeOK
  <1>6. CallMatchesThread'
    BY <1>3, <1>5, RobotAssumption DEF CallMatchesThread
  <1>7. RobotTypeOK' /\ ManagerTypeOK' /\ OnlyStartedAct'
    BY <1>0, <1>2, <1>5 DEF RobotTypeOK, ManagerTypeOK, OnlyStartedAct, HasPolicy, Started
  <1>. QED  BY <1>4, <1>6, <1>7 DEF TypeInv, TypeOK

LEMMA RememberTypeInv ==
    ASSUME TypeInv, RememberFinished
    PROVE  TypeInv'
  <1>. USE DEF UserCode, PolicyLoc, RpcLoc, robotVars
  <1>0. /\ RobotTypeOK /\ SessionTypeOK /\ ManagerTypeOK
        /\ CallMatchesThread /\ OnlyStartedAct
    BY DEF TypeInv, TypeOK
  <1>1. Rpc \in Thread /\ \A o \in Session : o \in Thread /\ o # Rpc
    BY SessionAssumption DEF Thread
  <1>2. call.session \in Session
    BY <1>0 DEF RememberFinished, CallMatchesThread
  <1>3. Running(call.session) \in BOOLEAN
    BY DEF Running
  <1>4. [id |-> call.session, running |-> Running(call.session)] \in FinalStatus
    BY <1>2, <1>3 DEF FinalStatus
  <1>5. Append(finished, [id |-> call.session, running |-> Running(call.session)]) \in Seq(FinalStatus)
    BY <1>0, <1>4 DEF ManagerTypeOK
  <1>6. finished' \in Seq(FinalStatus) /\ Len(finished') <= History
    BY <1>5, NewestType, ManagerAssumption DEF RememberFinished
  <1>7. NoCall \in Call /\ NoCall.session \notin Session
    BY RobotAssumption DEF NoCall, Call, Wait
  <1>8. SessionTypeOK'
    BY <1>0, <1>1, <1>7, GotoType DEF RememberFinished, SessionTypeOK
  <1>9. at'[Rpc] = "idle" /\ \A o \in Session : at'[o] = at[o]
    BY <1>0, <1>1 DEF RememberFinished, Goto, SessionTypeOK
  <1>10. CallMatchesThread'
    BY <1>7, <1>9 DEF RememberFinished, CallMatchesThread
  <1>11. answered' \in Seq(Session)
    BY <1>0, <1>2 DEF RememberFinished, ManagerTypeOK
  <1>12. RobotTypeOK' /\ ManagerTypeOK' /\ OnlyStartedAct'
    BY <1>0, <1>6, <1>9, <1>11
    DEF RememberFinished, RobotTypeOK, ManagerTypeOK, OnlyStartedAct, HasPolicy, Started
  <1>. QED  BY <1>8, <1>10, <1>12 DEF TypeInv, TypeOK

\* Every step keeps the types and what they rest on.
LEMMA TypeInvNext ==
    ASSUME TypeInv, [Next]_vars
    PROVE  TypeInv'
  <1>. USE DEF managerVars, sessionVars, robotVars
  <1>0. /\ RobotTypeOK /\ ManagerTypeOK /\ Rpc \in Thread /\ Session \subseteq Thread
    BY DEF TypeInv, TypeOK, Thread
  <1>1. CASE Request
    <2>1. ASSUME NEW r \in Robot, CreateRobot(r) PROVE TypeInv'
      BY <1>0, <2>1, OneStepTypeInv DEF CreateRobot, Handle, RobotTypeOK, ManagerTypeOK
    <2>2. ASSUME NEW r \in Robot, StopRobot(r) PROVE TypeInv'
      <3>1. RobotTypeOK'
        BY <1>0, <2>2, HardStopType DEF StopRobot
      <3>. QED  BY <1>0, <2>2, <3>1, OneStepTypeInv DEF StopRobot, Handle, ManagerTypeOK
    <2>3. ASSUME NEW r \in Robot, StartTrackerLoadFails(r) PROVE TypeInv'
      <3>1. RobotTypeOK'
        BY <1>0, <2>3, MoveAsyncType, MotionType DEF StartTrackerLoadFails
      <3>. QED  BY <1>0, <2>3, <3>1, OneStepTypeInv DEF StartTrackerLoadFails, Handle, ManagerTypeOK
    <2>4. ASSUME NEW r \in Robot, NEW m \in {Waypoint, Impedance}, MoveRobot(r, m) PROVE TypeInv'
      <3>1. RobotTypeOK'
        BY <1>0, <2>4, MoveAsyncType, MotionType DEF MoveRobot
      <3>. QED  BY <1>0, <2>4, <3>1, OneStepTypeInv DEF MoveRobot, Handle, ManagerTypeOK
    <2>5. ASSUME NEW r \in Robot, NEW w \in JoinWaits, JoinMotion(r, w) PROVE TypeInv'
      BY <2>5, JoinMotionTypeInv, ManagerAssumption
    <2>6. ASSUME NEW s \in Session, StopTrackerPayloadFails(s) PROVE TypeInv'
      BY <1>0, <2>6, OneStepTypeInv DEF StopTrackerPayloadFails, Handle, RobotTypeOK, ManagerTypeOK
    <2>7. ASSUME NEW s \in Session, NEW w \in StopWaits, NEW c \in BOOLEAN, StopTracker(s, w, c)
          PROVE  TypeInv'
      BY <2>7, DeregisterTypeInv, ManagerAssumption DEF StopTracker
    <2>8. ASSUME NEW s \in Session, NEW r \in Robot, NEW p \in BOOLEAN, NEW g \in BOOLEAN,
                 StartTracker(s, r, p, g)
          PROVE  TypeInv'
      BY <2>8, StartTypeInv
    <2>. QED  BY <1>1, <2>1, <2>2, <2>3, <2>4, <2>5, <2>6, <2>7, <2>8 DEF Request
  <1>2. CASE RpcStep
    <2>1. CASE AwaitRequest \/ ServeNothing
      BY <1>0, <2>1, OneStepTypeInv DEF AwaitRequest, ServeNothing, RobotTypeOK, ManagerTypeOK
    <2>2. CASE StopPath /\ UNCHANGED managerVars
      BY <1>0, <2>2, EnqueueStopTypeInv, JoinTypeInv DEF StopPath
    <2>3. CASE RememberFinished
      BY <2>3, RememberTypeInv
    <2>4. CASE BeginShutdown \/ CloseSockets
      BY <1>0, <2>4, OneStepTypeInv DEF BeginShutdown, CloseSockets, RobotTypeOK, ManagerTypeOK
    <2>5. ASSUME NEW s \in Session, ShutdownStopsTracker(s) PROVE TypeInv'
      BY <2>5, DeregisterTypeInv DEF ShutdownStopsTracker, Wait
    <2>6. ASSUME NEW r \in Robot, HaltRobot(r) PROVE TypeInv'
      <3>1. RobotTypeOK'
        BY <1>0, <2>6, HardStopType DEF HaltRobot
      <3>. QED  BY <1>0, <2>6, <3>1, OneStepTypeInv DEF HaltRobot, ManagerTypeOK
    <2>. QED  BY <1>2, <2>1, <2>2, <2>3, <2>4, <2>5, <2>6 DEF RpcStep
  <1>3. CASE RequestShutdown
    BY <1>0, <1>3, OneStepTypeInv DEF RequestShutdown, RobotTypeOK, ManagerTypeOK
  <1>4. ASSUME NEW s \in Session, PolicyStep(s) \/ UserCodeStep(s) PROVE TypeInv'
    BY <1>0, <1>4, EnqueueStopTypeInv, PolicyTypeInv DEF PolicyStep, UserCodeStep
  <1>5. ASSUME NEW r \in Robot, RobotStep(r) PROVE TypeInv'
    BY <1>5, RobotStepTypeInv
  <1>6. CASE Terminated \/ UNCHANGED vars
    BY <1>0, <1>6, OneStepTypeInv DEF Terminated, vars, RobotTypeOK, ManagerTypeOK
  <1>. QED  BY <1>1, <1>2, <1>3, <1>4, <1>5, <1>6 DEF Next

\* Every reachable state is typed, and a call in progress names a started
\* session and a real robot.
THEOREM TypeCorrect == Spec => []TypeOK
  <1>1. Init => TypeInv
    BY TypeInvInit
  <1>2. TypeInv /\ [Next]_vars => TypeInv'
    BY TypeInvNext
  <1>3. TypeInv => TypeOK
    BY DEF TypeInv
  <1>. QED  BY <1>1, <1>2, <1>3, PTL DEF Spec

-----------------------------------------------------------------------------
(***************************************************************************)
(* A stopped session's motion is released.                                  *)
(***************************************************************************)
\* A session's tracking motion is nobody else's, and neither a ramp nor any
\* other motion.
LEMMA TrackDistinct ==
    \A s \in Session :
        /\ Track(s) \notin {Idle, Waypoint, Impedance, Orphan}
        /\ \A o \in Session : /\ Ramp(o) # Track(s)
                              /\ o # s => Track(o) # Track(s)
  BY RobotAssumption DEF Track, Ramp, Idle, Waypoint, Impedance, Orphan

\* move() of another motion gives no session its motion back, and takes the
\* robot's from its owner.
LEMMA MoveLoses ==
    ASSUME TypeInv, UNCHANGED robotOf, NEW r \in Robot, NEW m, MoveAsync(r, m),
           NEW s \in Session, m # Track(s)
    PROVE  /\ Holds(s)' => Holds(s)
           /\ robotOf[s] = r => ~ Holds(s)'
  BY DEF TypeInv, TypeOK, RobotTypeOK, MoveAsync, Holds, Started

\* So does stop().
LEMMA HardStopLoses ==
    ASSUME TypeInv, UNCHANGED robotOf, NEW r \in Robot, HardStop(r), NEW s \in Session
    PROVE  Holds(s)' => Holds(s)
  BY TrackDistinct DEF TypeInv, TypeOK, RobotTypeOK, HardStop, Holds, Started

\* A step that gives no session its motion back and moves no thread but the
\* RPC thread between requests.
LEMMA OneStepRelease ==
    ASSUME ReleaseInv, TypeInv', \A s \in Session : Holds(s)' => Holds(s),
           UNCHANGED <<robotOf, stopEnqueued, call, registry>>,
           \/ UNCHANGED at
           \/ at[Rpc] \in {"idle", "recv"} /\ \E l \in {"idle", "recv"} : Goto(Rpc, l)
    PROVE  ReleaseInv'
  <1>1. /\ \A s \in Session : at'[s] = at[s]
        /\ at'[Rpc] = at[Rpc] \/ (at[Rpc] \in {"idle", "recv"} /\ at'[Rpc] \in {"idle", "recv"})
    BY SessionAssumption DEF ReleaseInv, TypeInv, TypeOK, SessionTypeOK, Thread, Goto
  <1>2. ClaimedStopIsEnqueued' /\ JoinedStopIsReleased'
    BY <1>1 DEF ReleaseInv, TypeInv, TypeOK, SessionTypeOK, ClaimedStopIsEnqueued, JoinedStopIsReleased
  <1>3. DeregisteredMeansReleased'
    BY DEF ReleaseInv, DeregisteredMeansReleased, Gone, Holds, Started
  <1>. QED  BY <1>2, <1>3 DEF ReleaseInv

\* _enqueue_stop_motion: whoever is past the check has claimed the stop, and
\* whoever leaves the move leaves the session without its motion.
LEMMA EnqueueStopRelease ==
    ASSUME ReleaseInv, TypeInv', NEW t \in Thread, EnqueueStop(t), UNCHANGED managerVars
    PROVE  ReleaseInv'
  <1>0. /\ TypeInv /\ SessionTypeOK /\ CallMatchesThread
        /\ ClaimedStopIsEnqueued /\ JoinedStopIsReleased /\ DeregisteredMeansReleased
    BY DEF ReleaseInv, TypeInv, TypeOK
  <1>1. Rpc \in Thread /\ \A s \in Session : s \in Thread /\ s # Rpc
    BY SessionAssumption DEF Thread
  <1>2. /\ at[t] \in {"check", "control", "move"}
        /\ UNCHANGED <<robotOf, registry>>
        /\ call'.session = call.session
    <2>1. call \in Call
      BY <1>0 DEF SessionTypeOK
    <2>2. call' = call \/ call' = [call EXCEPT !.raised = TRUE]
      BY DEF EnqueueStop, CheckEnqueued, CheckControl, EnqueueRamp, EnqueueRaises
    <2>3. call'.session = call.session
      BY <2>1, <2>2 DEF Call
    <2>. QED  BY <2>3 DEF EnqueueStop, CheckEnqueued, CheckControl, EnqueueRamp, EnqueueRaises, managerVars
  <1>3. PICK g \in Session : g = Target(t) /\ Started(g) /\ robotOf[g] \in Robot
    BY <1>0, <1>2, TargetStarted
  <1>4. /\ \A o \in Thread \ {t} : at'[o] = at[o]
        /\ at'[t] \in {"control", "move"} \cup AfterEnqueue(t) \/ at[t] = "move"
        /\ at'[t] # "remember"
    BY <1>0, AfterEnqueueType
    DEF EnqueueStop, CheckEnqueued, CheckControl, EnqueueRamp, EnqueueRaises, Goto, SessionTypeOK, Thread
  <1>5. \A s \in Session : Holds(s)' => Holds(s)
    <2>1. CASE UNCHANGED motion
      BY <1>2, <2>1 DEF Holds, Started
    <2>2. CASE EnqueueRamp(t)
      <3>0. PICK r \in Robot : r = robotOf[g]
        BY <1>3
      <3>1. MoveAsync(r, Ramp(g))
        BY <1>3, <2>2, <3>0 DEF EnqueueRamp, MoveAsync, Accepts, InControl
      <3>2. \A s \in Session : Ramp(g) # Track(s)
        BY TrackDistinct
      <3>. QED  BY <1>0, <1>2, <3>1, <3>2, MoveLoses
    <2>. QED  BY <2>1, <2>2 DEF EnqueueStop, CheckEnqueued, CheckControl, EnqueueRaises, robotVars
  <1>6. at[t] = "move" => ~ Holds(g)'
    <2>1. CASE EnqueueRamp(t)
      <3>0. PICK r \in Robot : r = robotOf[g]
        BY <1>3
      <3>1. MoveAsync(r, Ramp(g)) /\ Ramp(g) # Track(g)
        BY <1>3, <2>1, <3>0, TrackDistinct DEF EnqueueRamp, MoveAsync, Accepts, InControl
      <3>. QED  BY <1>0, <1>2, <3>0, <3>1, MoveLoses
    <2>2. CASE EnqueueRaises(t)
      <3>1. motion[robotOf[g]] # Track(g)
        BY <2>2, <1>3, TrackDistinct, RobotAssumption
        DEF EnqueueRaises, Accepts, InControl, Idle, Waypoint, Track, Ramp
      <3>. QED  BY <3>1, <1>5, <1>3 DEF Holds
    <2>. QED  BY <2>1, <2>2 DEF EnqueueStop, CheckEnqueued, CheckControl
  <1>7. at[t] = "control" /\ at'[t] # "move" => ~ Holds(g)
    BY <1>3, TrackDistinct, <1>0, <1>1, AfterEnqueueType
    DEF EnqueueStop, CheckEnqueued, CheckControl, EnqueueRamp, EnqueueRaises,
        InControl, Holds, Goto, SessionTypeOK, Thread
  <1>8. \/ UNCHANGED stopEnqueued
        \/ stopEnqueued' = stopEnqueued \cup {g} /\ at'[t] = "move"
    BY <1>0, <1>3 DEF EnqueueStop, CheckEnqueued, CheckControl, EnqueueRamp, EnqueueRaises, Goto, SessionTypeOK, Thread
  <1>9. t = Rpc /\ at[t] = "check" /\ at'[t] # "control" => g \in stopEnqueued
    BY <1>0, <1>3 DEF EnqueueStop, CheckEnqueued, CheckControl, EnqueueRamp, EnqueueRaises, Goto, SessionTypeOK, Thread
  <1>10. ClaimedStopIsEnqueued'
    <2>. SUFFICES ASSUME NEW s \in stopEnqueued', Holds(s)'
                  PROVE  (at[s] = "move" \/ (at[Rpc] = "move" /\ call.session = s))'
      BY DEF ClaimedStopIsEnqueued
    <2>0. s \in Session
      BY DEF TypeInv, TypeOK, SessionTypeOK
    <2>1. CASE s \in stopEnqueued
      <3>1. at[s] = "move" \/ (at[Rpc] = "move" /\ call.session = s)
        BY <1>0, <1>5, <2>0, <2>1 DEF ClaimedStopIsEnqueued
      <3>2. at[t] = "move" => s # g
        BY <1>6
      <3>. QED  BY <1>1, <1>2, <1>3, <1>4, <2>0, <3>1, <3>2 DEF Target
    <2>2. CASE s \notin stopEnqueued
      BY <1>1, <1>2, <1>3, <1>8, <2>2 DEF Target
    <2>. QED  BY <2>1, <2>2
  <1>11. JoinedStopIsReleased'
    <2>. SUFFICES ASSUME NEW c \in Session, c = call.session, Holds(c)',
                         at'[Rpc] \in {"join", "reap", "remember"}
                  PROVE  at'[Rpc] # "remember" /\ at'[c] = "move"
      BY <1>2 DEF JoinedStopIsReleased
    <2>1. Holds(c)
      BY <1>5
    <2>2. CASE t = Rpc
      <3>1. at[Rpc] = "check" /\ c = g
        BY <1>2, <1>3, <1>6, <1>7, <2>1, <2>2 DEF Target
      <3>2. c \in stopEnqueued
        BY <1>9, <2>2, <3>1
      <3>. QED  BY <1>0, <1>1, <1>4, <2>1, <2>2, <3>1, <3>2 DEF ClaimedStopIsEnqueued
    <2>3. CASE t # Rpc
      <3>1. at[Rpc] # "remember" /\ at[c] = "move"
        BY <1>0, <1>1, <1>4, <2>1, <2>3 DEF JoinedStopIsReleased
      <3>2. t # c
        BY <1>3, <1>6, <2>3, <3>1 DEF Target
      <3>. QED  BY <1>1, <1>4, <2>3, <3>1, <3>2
    <2>. QED  BY <2>2, <2>3
  <1>12. DeregisteredMeansReleased'
    BY <1>0, <1>2, <1>5 DEF DeregisteredMeansReleased, Gone, Holds, Started
  <1>. QED  BY <1>10, <1>11, <1>12 DEF ReleaseInv

\* The policy thread's loop and user code are never at a move.
LEMMA PolicyRelease ==
    ASSUME ReleaseInv, TypeInv', NEW s \in Session, UNCHANGED managerVars,
           PolicyLoop(s) \/ PolicyUserCode(s)
    PROVE  ReleaseInv'
  <1>1. /\ UNCHANGED <<motion, robotOf, stopEnqueued, call, registry>>
        /\ at[s] \in {"loop", "policy", "rest"}
        /\ \A o \in Thread \ {s} : at'[o] = at[o]
    BY DEF UserCode, PolicyLoop, PolicyUserCode, PolicyReturns, PolicyStops, PolicyRaises, robotVars, managerVars,
           ReleaseInv, TypeInv, TypeOK, SessionTypeOK, Goto, Thread
  <1>2. Rpc \in Thread /\ \A o \in Session : o \in Thread /\ o # Rpc
    BY SessionAssumption DEF Thread
  <1>3. \A o \in Session : Holds(o)' = Holds(o)
    BY <1>1 DEF Holds, Started
  <1>4. ClaimedStopIsEnqueued' /\ JoinedStopIsReleased'
    BY <1>1, <1>2, <1>3
    DEF ReleaseInv, TypeInv, TypeOK, SessionTypeOK, ClaimedStopIsEnqueued, JoinedStopIsReleased
  <1>5. DeregisteredMeansReleased'
    BY <1>1 DEF ReleaseInv, DeregisteredMeansReleased, Gone, Holds, Started
  <1>. QED  BY <1>4, <1>5 DEF ReleaseInv

\* join_motion ends with the robot at rest or with the ramp still to come from
\* the policy thread; once that thread is joined it has come.
LEMMA JoinRelease ==
    ASSUME ReleaseInv, TypeInv', UNCHANGED managerVars, JoinReturns \/ JoinTimesOut \/ ReapPolicy
    PROVE  ReleaseInv'
  <1>0. /\ SessionTypeOK /\ CallMatchesThread /\ OnlyStartedAct
        /\ ClaimedStopIsEnqueued /\ JoinedStopIsReleased /\ DeregisteredMeansReleased
    BY DEF ReleaseInv, TypeInv, TypeOK
  <1>1. UNCHANGED <<motion, robotOf, stopEnqueued, registry>> /\ at[Rpc] \in {"join", "reap"}
    BY DEF JoinReturns, JoinTimesOut, ReapPolicy, robotVars, managerVars
  <1>2. Rpc \in Thread /\ \A o \in Session : o \in Thread /\ o # Rpc
    BY SessionAssumption DEF Thread
  <1>3. /\ at'[Rpc] \in {"idle", "reap", "remember"}
        /\ at'[Rpc] = "remember" => ReapPolicy
        /\ \A o \in Session : at'[o] = at[o]
    BY <1>0, <1>2 DEF JoinReturns, JoinTimesOut, ReapPolicy, AfterJoin, Goto, SessionTypeOK
  <1>4. \A o \in Session : Holds(o)' = Holds(o)
    BY <1>1 DEF Holds, Started
  <1>5. call'.session = call.session
    <2>1. call \in Call
      BY <1>0 DEF SessionTypeOK
    <2>2. \/ call' = call
          \/ call.session = NoSession /\ call' = NoCall
          \/ call' = [call EXCEPT !.raised = exc[call.robot] = "fault"]
      BY DEF JoinReturns, JoinTimesOut, ReapPolicy
    <2>. QED  BY <2>1, <2>2 DEF Call, NoCall
  <1>6. ClaimedStopIsEnqueued'
    BY <1>0, <1>1, <1>3, <1>4 DEF ClaimedStopIsEnqueued, SessionTypeOK
  <1>7. JoinedStopIsReleased'
    <2>. SUFFICES ASSUME NEW c \in Session, c = call.session, Holds(c)
                  PROVE  at'[Rpc] # "remember" /\ at'[c] = "move"
      BY <1>4, <1>5 DEF JoinedStopIsReleased
    <2>1. at[c] = "move"
      BY <1>0, <1>1 DEF JoinedStopIsReleased
    <2>2. ~ ReapPolicy
      BY <2>1 DEF ReapPolicy, UserCode
    <2>. QED  BY <1>3, <2>1, <2>2
  <1>8. DeregisteredMeansReleased'
    BY <1>0, <1>1, <1>5 DEF DeregisteredMeansReleased, Gone, Holds, Started
  <1>. QED  BY <1>6, <1>7, <1>8 DEF ReleaseInv

\* A new session takes its robot from whoever held it.
LEMMA StartRelease ==
    ASSUME ReleaseInv, TypeInv', NEW s \in Session, NEW r \in Robot, NEW p \in BOOLEAN, NEW g \in BOOLEAN,
           StartTracker(s, r, p, g)
    PROVE  ReleaseInv'
  <1>0. /\ RobotTypeOK /\ SessionTypeOK /\ CallMatchesThread /\ OnlyStartedAct
        /\ ClaimedStopIsEnqueued /\ DeregisteredMeansReleased
    BY DEF ReleaseInv, TypeInv, TypeOK
  <1>1. /\ at[Rpc] = "recv"
        /\ ~ Started(s)
        /\ motion' = [motion EXCEPT ![r] = Track(s)]
        /\ robotOf' = [robotOf EXCEPT ![s] = r]
        /\ at' = [at EXCEPT ![s] = IF p THEN "policy" ELSE "absent", ![Rpc] = "idle"]
        /\ registry' = registry \cup {s}
        /\ UNCHANGED <<stopEnqueued, call>>
    BY DEF StartTracker, StartSession, MoveAsync
  <1>2. at'[Rpc] = "idle" /\ \A o \in Session \ {s} : at'[o] = at[o]
    BY <1>0, <1>1, SessionAssumption DEF SessionTypeOK, Thread
  <1>3. \A o \in Session \ {s} : robotOf'[o] = robotOf[o] /\ (Holds(o)' => Holds(o))
    BY <1>0, <1>1, TrackDistinct DEF Holds, Started, RobotTypeOK, SessionTypeOK
  <1>4. s \notin stopEnqueued
    BY <1>0, <1>1 DEF OnlyStartedAct
  <1>5. ClaimedStopIsEnqueued'
    BY <1>0, <1>1, <1>2, <1>3, <1>4 DEF ClaimedStopIsEnqueued, SessionTypeOK
  <1>6. JoinedStopIsReleased'
    BY <1>2 DEF JoinedStopIsReleased
  <1>7. DeregisteredMeansReleased'
    <2>. SUFFICES ASSUME NEW o \in Session \ UnbuildableStops, Gone(o)'
                  PROVE  ~ Holds(o)'
      BY DEF DeregisteredMeansReleased, Gone, Holds
    <2>1. o # s
      BY <1>1 DEF Gone
    <2>2. Gone(o)
      BY <1>1, <1>3, <2>1 DEF Gone, Started
    <2>. QED  BY <1>0, <1>3, <2>1, <2>2 DEF DeregisteredMeansReleased, Holds
  <1>. QED  BY <1>5, <1>6, <1>7 DEF ReleaseInv

\* A session taken out of the registry is the one being stopped.
LEMMA DeregisterRelease ==
    ASSUME ReleaseInv, TypeInv', NEW s \in Session, NEW w \in Wait, NEW c \in BOOLEAN,
           at[Rpc] \in {"idle", "recv"}, Deregister(s, w, c)
    PROVE  ReleaseInv'
  <1>0. /\ SessionTypeOK /\ ClaimedStopIsEnqueued /\ DeregisteredMeansReleased
        /\ call = NoCall
    BY DEF ReleaseInv, TypeInv, TypeOK, CallMatchesThread
  <1>1. /\ registry' = registry \ {s}
        /\ call'.session = s
        /\ \E l \in {"control", "check"} : Goto(Rpc, l)
        /\ UNCHANGED <<motion, robotOf, stopEnqueued>>
    BY DEF Deregister, BeginStop, robotVars
  <1>2. at'[Rpc] \in {"control", "check"} /\ \A o \in Session : at'[o] = at[o]
    BY <1>0, <1>1, SessionAssumption DEF Goto, SessionTypeOK, Thread
  <1>3. \A o \in Session : Holds(o)' = Holds(o)
    BY <1>1 DEF Holds, Started
  <1>4. ClaimedStopIsEnqueued' /\ JoinedStopIsReleased'
    BY <1>0, <1>1, <1>2, <1>3 DEF ClaimedStopIsEnqueued, JoinedStopIsReleased, SessionTypeOK
  <1>5. call.session \notin Session
    BY <1>0, RobotAssumption DEF NoCall
  <1>6. DeregisteredMeansReleased'
    BY <1>0, <1>1, <1>5 DEF DeregisteredMeansReleased, Gone, Holds, Started
  <1>. QED  BY <1>4, <1>6 DEF ReleaseInv

\* A session lost to the stop motion of its client is nobody else's loss.
LEMMA LostStopRelease ==
    ASSUME ReleaseInv, TypeInv', NEW s \in Session, StopTrackerPayloadFails(s)
    PROVE  ReleaseInv'
  <1>0. SessionTypeOK /\ ClaimedStopIsEnqueued /\ DeregisteredMeansReleased
    BY DEF ReleaseInv, TypeInv, TypeOK
  <1>1. /\ s \in UnbuildableStops
        /\ registry' = registry \ {s}
        /\ at[Rpc] = "recv"
        /\ at' = [at EXCEPT ![Rpc] = "idle"]
        /\ UNCHANGED <<motion, robotOf, stopEnqueued, call>>
    BY DEF StopTrackerPayloadFails, Handle, Goto, robotVars
  <1>2. at'[Rpc] = "idle" /\ \A o \in Session : at'[o] = at[o]
    BY <1>0, <1>1, SessionAssumption DEF SessionTypeOK, Thread
  <1>3. \A o \in Session : Holds(o)' = Holds(o)
    BY <1>1 DEF Holds, Started
  <1>4. ClaimedStopIsEnqueued' /\ JoinedStopIsReleased'
    BY <1>0, <1>1, <1>2, <1>3 DEF ClaimedStopIsEnqueued, JoinedStopIsReleased, SessionTypeOK
  <1>5. DeregisteredMeansReleased'
    BY <1>0, <1>1, <1>3 DEF DeregisteredMeansReleased, Gone, Started
  <1>. QED  BY <1>4, <1>5 DEF ReleaseInv

\* Every step keeps ReleaseInv.
LEMMA ReleaseInvNext ==
    ASSUME ReleaseInv, [Next]_vars
    PROVE  ReleaseInv'
  <1>. USE DEF managerVars, sessionVars, robotVars
  <1>0. /\ TypeInv /\ TypeInv' /\ RobotTypeOK
        /\ Rpc \in Thread /\ Session \subseteq Thread
    BY TypeInvNext DEF ReleaseInv, TypeInv, TypeOK, Thread
  <1>1. \A s \in Session : UNCHANGED <<motion, robotOf>> => (Holds(s)' => Holds(s))
    BY DEF Holds, Started
  <1>2. CASE Request
    <2>1. ASSUME NEW r \in Robot, CreateRobot(r) PROVE ReleaseInv'
      BY <1>0, <1>1, <2>1, OneStepRelease DEF CreateRobot, Handle
    <2>2. ASSUME NEW r \in Robot, StopRobot(r) PROVE ReleaseInv'
      BY <1>0, <2>2, HardStopLoses, OneStepRelease DEF StopRobot, Handle
    <2>3. ASSUME NEW r \in Robot, StartTrackerLoadFails(r) PROVE ReleaseInv'
      <3>1. \A s \in Session : Holds(s)' => Holds(s)
        BY <1>0, <2>3, MoveLoses, TrackDistinct DEF StartTrackerLoadFails, Handle
      <3>. QED  BY <1>0, <2>3, <3>1, OneStepRelease DEF StartTrackerLoadFails, Handle
    <2>4. ASSUME NEW r \in Robot, NEW m \in {Waypoint, Impedance}, MoveRobot(r, m) PROVE ReleaseInv'
      <3>1. \A s \in Session : Holds(s)' => Holds(s)
        BY <1>0, <2>4, MoveLoses, TrackDistinct DEF MoveRobot, Handle
      <3>. QED  BY <1>0, <2>4, <3>1, OneStepRelease DEF MoveRobot, Handle
    <2>5. ASSUME NEW r \in Robot, NEW w \in JoinWaits, JoinMotion(r, w) PROVE ReleaseInv'
      <3>1. /\ at' = [at EXCEPT ![Rpc] = "join"] /\ call'.session = NoSession
            /\ at[Rpc] = "recv"
            /\ UNCHANGED <<motion, robotOf, stopEnqueued, registry>>
        BY <2>5 DEF JoinMotion, NoCall, Goto
      <3>2. \A s \in Session : at'[s] = at[s]
        BY <1>0, <3>1, SessionAssumption DEF TypeInv, TypeOK, SessionTypeOK
      <3>3. call.session \notin Session
        BY <1>0, <3>1, RobotAssumption DEF TypeInv, CallMatchesThread, NoCall
      <3>4. ClaimedStopIsEnqueued'
        BY <1>1, <3>1, <3>2 DEF ReleaseInv, TypeInv, TypeOK, SessionTypeOK, ClaimedStopIsEnqueued
      <3>5. JoinedStopIsReleased' /\ DeregisteredMeansReleased'
        BY <3>1, <3>3, RobotAssumption
        DEF ReleaseInv, JoinedStopIsReleased, DeregisteredMeansReleased, Gone, Holds, Started
      <3>. QED  BY <1>0, <3>4, <3>5 DEF ReleaseInv
    <2>6. ASSUME NEW s \in Session, NEW w \in StopWaits, NEW c \in BOOLEAN, StopTracker(s, w, c)
          PROVE  ReleaseInv'
      BY <1>0, <2>6, DeregisterRelease, ManagerAssumption DEF StopTracker
    <2>7. ASSUME NEW s \in Session, NEW r \in Robot, NEW p \in BOOLEAN, NEW g \in BOOLEAN,
                 StartTracker(s, r, p, g)
          PROVE  ReleaseInv'
      BY <1>0, <2>7, StartRelease
    <2>8. ASSUME NEW s \in Session, StopTrackerPayloadFails(s) PROVE ReleaseInv'
      BY <1>0, <2>8, LostStopRelease
    <2>. QED  BY <1>2, <2>1, <2>2, <2>3, <2>4, <2>5, <2>6, <2>7, <2>8 DEF Request
  <1>3. CASE RpcStep
    <2>1. CASE AwaitRequest \/ ServeNothing
      BY <1>0, <1>1, <2>1, OneStepRelease DEF AwaitRequest, ServeNothing
    <2>2. CASE StopPath /\ UNCHANGED managerVars
      BY <1>0, <2>2, EnqueueStopRelease, JoinRelease DEF StopPath
    <2>3. CASE RememberFinished
      <3>1. /\ at' = [at EXCEPT ![Rpc] = "idle"] /\ call' = NoCall
            /\ at[Rpc] = "remember"
            /\ UNCHANGED <<motion, robotOf, stopEnqueued, registry>>
        BY <2>3 DEF RememberFinished, Goto
      <3>2. at'[Rpc] = "idle" /\ \A s \in Session : at'[s] = at[s]
        BY <1>0, <3>1, SessionAssumption DEF TypeInv, TypeOK, SessionTypeOK
      <3>3. \A c \in Session : c = call.session => ~ Holds(c)
        BY <3>1 DEF ReleaseInv, JoinedStopIsReleased
      <3>4. ClaimedStopIsEnqueued' /\ JoinedStopIsReleased'
        BY <1>1, <3>1, <3>2
        DEF ReleaseInv, TypeInv, TypeOK, SessionTypeOK, ClaimedStopIsEnqueued, JoinedStopIsReleased
      <3>5. DeregisteredMeansReleased'
        BY <3>1, <3>3 DEF ReleaseInv, DeregisteredMeansReleased, Gone, Holds, Started
      <3>. QED  BY <1>0, <3>4, <3>5 DEF ReleaseInv
    <2>4. CASE BeginShutdown \/ CloseSockets
      BY <1>0, <1>1, <2>4, OneStepRelease DEF BeginShutdown, CloseSockets
    <2>5. ASSUME NEW s \in Session, ShutdownStopsTracker(s) PROVE ReleaseInv'
      BY <1>0, <2>5, DeregisterRelease DEF ShutdownStopsTracker, Closing, Wait
    <2>6. ASSUME NEW r \in Robot, HaltRobot(r) PROVE ReleaseInv'
      BY <1>0, <2>6, HardStopLoses, OneStepRelease DEF HaltRobot
    <2>. QED  BY <1>3, <2>1, <2>2, <2>3, <2>4, <2>5, <2>6 DEF RpcStep
  <1>4. CASE RequestShutdown
    BY <1>0, <1>1, <1>4, OneStepRelease DEF RequestShutdown
  <1>5. ASSUME NEW s \in Session, PolicyStep(s) \/ UserCodeStep(s) PROVE ReleaseInv'
    BY <1>0, <1>5, EnqueueStopRelease, PolicyRelease DEF PolicyStep, UserCodeStep
  <1>6. ASSUME NEW r \in Robot, RobotStep(r) PROVE ReleaseInv'
    <2>1. \A s \in Session : Holds(s)' => Holds(s)
      <3>1. motion' = [motion EXCEPT ![r] = Idle] /\ UNCHANGED robotOf
        BY <1>6 DEF RobotStep, ControllerStep, RampFinishes, MotionFinishes, ControllerFaults
      <3>2. \A s \in Session : Track(s) # Idle
        BY TrackDistinct
      <3>. QED  BY <1>0, <3>1, <3>2 DEF RobotTypeOK, Holds, Started
    <2>. QED  BY <1>0, <1>6, <2>1, OneStepRelease DEF RobotStep
  <1>7. CASE Terminated \/ UNCHANGED vars
    BY <1>0, <1>1, <1>7, OneStepRelease DEF Terminated, vars
  <1>. QED  BY <1>2, <1>3, <1>4, <1>5, <1>6, <1>7 DEF Next

LEMMA ReleaseInvInit == Init => ReleaseInv
  <1>. SUFFICES ASSUME Init PROVE ReleaseInv
    OBVIOUS
  <1>1. TypeInv
    BY TypeInvInit
  <1>2. stopEnqueued = {} /\ \A s \in Session : ~ Started(s)
    BY DEF Init, SessionInit, Started
  <1>. QED  BY <1>1, <1>2
            DEF ReleaseInv, ClaimedStopIsEnqueued, JoinedStopIsReleased, Holds, DeregisteredMeansReleased, Gone

\* Once stop_tracker has answered, no robot executes the session's tracking
\* motion: for any number of robots, sessions and threads, any interleaving of
\* the policy thread's own stop with the client's, any wait and any outcome of
\* the join; and whatever other sessions' clients lose with stop motions that
\* the server cannot build.
THEOREM StoppedIsReleased == Spec => []DeregisteredMeansReleased
  <1>1. Init => ReleaseInv
    BY ReleaseInvInit
  <1>2. ReleaseInv /\ [Next]_vars => ReleaseInv'
    BY ReleaseInvNext
  <1>3. ReleaseInv => DeregisteredMeansReleased
    BY DEF ReleaseInv
  <1>. QED  BY <1>1, <1>2, <1>3, PTL DEF Spec
=============================================================================
