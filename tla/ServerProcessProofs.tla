------------------------- MODULE ServerProcessProofs -------------------------
(***************************************************************************)
(* How the server's process ends, whoever hosts it: for every number of     *)
(* interrupts, wherever they meet the RPC thread, and with no restriction   *)
(* on what clients ask for or on how long policies run.                     *)
(***************************************************************************)
EXTENDS ServerProcess, OrderlyManagerProofs

-----------------------------------------------------------------------------
(***************************************************************************)
(* The kinds of steps: one of the server's own, or an exception that takes  *)
(* the RPC thread to serve_forever's `finally`.                             *)
(***************************************************************************)
\* LeavePolling asks for a shutdown, if nobody has.
LEMMA LeavePollingIsNext == ASSUME LeavePolling PROVE [Next]_vars
  <1>1. CASE server = "serving"
    BY <1>1 DEF LeavePolling, RequestShutdown, Next
  <1>2. CASE server # "serving"
    BY <1>2 DEF LeavePolling, vars, robotVars, sessionVars, managerVars
  <1>. QED  BY <1>1, <1>2

LEMMA ProcessSteps ==
    ASSUME [ProcessNext]_allVars
    PROVE  [Next]_vars \/ ServeOnceRaises \/ InterruptServing \/ InterruptCall
  <1>1. Others(Request) \/ RpcThread \/ CallShutdown => Next
    BY DEF Others, RpcThread, CallShutdown, Next
  <1>2. \A s \in Session : Others(PolicyStep(s)) \/ Others(UserCodeStep(s)) => Next
    BY DEF Others, Next
  <1>3. \A r \in Robot : Others(RobotStep(r)) => Next
    BY DEF Others, Next
  <1>4. InterruptTeardown \/ InterruptLeaving \/ GripperEnds \/ Ended => UNCHANGED vars
    BY DEF InterruptTeardown, InterruptLeaving, GripperEnds, Ended, allVars
  <1>5. MainThread \/ InterruptPolling => [Next]_vars
    BY LeavePollingIsNext
    DEF MainThread, RunReturns, PollingEnds, ServerJoined, StartTerminate, KillGripper,
        GripperReaped, InterruptPolling
  <1>6. UNCHANGED allVars => UNCHANGED vars
    BY DEF allVars
  <1>. QED  BY <1>1, <1>2, <1>3, <1>4, <1>5, <1>6 DEF ProcessNext, Signal

\* The three exceptions leave the robots a server holds and those it has halted
\* as they are, close the server, and keep the RPC thread out of recv.
LEMMA RaisingSteps ==
    ASSUME TypeInv, ServeOnceRaises \/ InterruptServing \/ InterruptCall
    PROVE  /\ server' = "closing"
           /\ UNCHANGED <<robotOf, guarded, stopEvent, stopEnqueued, failed, robots, finished, answered, halted>>
           /\ registry' \subseteq registry
           /\ \A s \in Session : at'[s] = at[s]
           /\ at'[Rpc] \in {"idle", "reap", "remember"}
           /\ at' \in [Thread -> PolicyLoc \cup RpcLoc]
  <1>1. PICK l \in {"idle", "reap", "remember"} : Goto(Rpc, l)
    BY DEF ServeOnceRaises, InterruptServing, InterruptCall
  <1>2. l \in RpcLoc /\ SessionTypeOK /\ Rpc \in Thread
    BY DEF RpcLoc, TypeInv, TypeOK, Thread
  <1>3. /\ at' \in [Thread -> PolicyLoc \cup RpcLoc]
        /\ at'[Rpc] = l
        /\ \A s \in Session : at'[s] = at[s]
    BY <1>1, <1>2, SessionAssumption DEF Goto, SessionTypeOK, Thread
  <1>4. registry' \subseteq registry
    BY DEF ServeOnceRaises, InterruptServing, InterruptCall
  <1>. QED  BY <1>3, <1>4 DEF ServeOnceRaises, InterruptServing, InterruptCall, EndServing

\* An exception leaves the call it met with its session, on its way out, or
\* leaves no call.
LEMMA RaisingCall ==
    ASSUME TypeInv, ServeOnceRaises \/ InterruptServing \/ InterruptCall
    PROVE  \/ call' = NoCall /\ at'[Rpc] = "idle"
           \/ /\ call' \in Call
              /\ call.session \in Session
              /\ call'.session = call.session /\ call'.robot = call.robot
              /\ at'[Rpc] \in {"reap", "remember"}
  <1>0. call \in Call /\ Rpc \in Thread /\ at \in [Thread -> PolicyLoc \cup RpcLoc]
    BY DEF TypeInv, TypeOK, SessionTypeOK, Thread
  <1>1. CASE ServeOnceRaises \/ InterruptServing
    <2>1. call' = call /\ Goto(Rpc, "idle") /\ at[Rpc] \in {"idle", "recv"}
      BY <1>1 DEF ServeOnceRaises, InterruptServing
    <2>. QED  BY <1>0, <2>1 DEF TypeInv, CallMatchesThread, Goto
  <1>2. CASE InterruptCall
    <2>1. CASE call' = NoCall /\ Goto(Rpc, "idle")
      BY <1>0, <2>1 DEF Goto
    <2>2. CASE /\ call.session # NoSession
               /\ call' = [call EXCEPT !.raised = TRUE]
               /\ Goto(Rpc, IF at[Rpc] = "reap" THEN "remember" ELSE "reap")
      <3>1. call.session \in Session /\ call' \in Call
        BY <1>0, <2>2 DEF Call
      <3>2. call'.session = call.session /\ call'.robot = call.robot
        BY <1>0, <2>2 DEF Call
      <3>. QED  BY <1>0, <2>2, <3>1, <3>2 DEF Goto
    <2>. QED  BY <1>2, <2>1, <2>2 DEF InterruptCall
  <1>. QED  BY <1>1, <1>2

\* Interrupts leave every variable typed, and calls and threads in agreement.
LEMMA RaisingTypeInv ==
    ASSUME TypeInv, ServeOnceRaises \/ InterruptServing \/ InterruptCall
    PROVE  TypeInv'
  <1>. USE DEF PolicyLoc, RpcLoc
  <1>0. /\ RobotTypeOK /\ SessionTypeOK /\ ManagerTypeOK
        /\ CallMatchesThread /\ OnlyStartedAct
    BY DEF TypeInv, TypeOK
  <1>1. /\ server' = "closing"
        /\ UNCHANGED <<robotOf, guarded, stopEvent, stopEnqueued, failed, robots, finished, answered, halted>>
        /\ registry' \subseteq registry
        /\ \A s \in Session : at'[s] = at[s]
        /\ at'[Rpc] \in {"idle", "reap", "remember"}
        /\ at' \in [Thread -> PolicyLoc \cup RpcLoc]
    BY RaisingSteps
  <1>2. RobotTypeOK'
    <2>1. CASE UNCHANGED robotVars
      BY <1>0, <2>1 DEF RobotTypeOK, robotVars
    <2>2. ASSUME NEW r \in robots, MoveAsync(r, Orphan) PROVE RobotTypeOK'
      <3>1. r \in Robot /\ Orphan \in Motion
        BY <1>0, MotionType DEF ManagerTypeOK
      <3>. QED  BY <1>0, <2>2, <3>1, MoveAsyncType
    <2>. QED  BY <2>1, <2>2 DEF ServeOnceRaises, InterruptServing, InterruptCall
  <1>3. NoCall \in Call /\ NoCall.session \notin Session
    BY RobotAssumption DEF NoCall, Call, Wait
  <1>4. SessionTypeOK'
    BY <1>0, <1>1, <1>3, RaisingCall DEF SessionTypeOK
  <1>5. ManagerTypeOK'
    BY <1>0, <1>1 DEF ManagerTypeOK
  <1>6. CallMatchesThread'
    BY <1>0, <1>1, <1>3, RaisingCall DEF CallMatchesThread, Started
  <1>7. OnlyStartedAct'
    BY <1>0, <1>1 DEF OnlyStartedAct, HasPolicy, Started
  <1>. QED  BY <1>2, <1>4, <1>5, <1>6, <1>7 DEF TypeInv, TypeOK

LEMMA ProcessTypeInvNext ==
    ASSUME TypeInv, [ProcessNext]_allVars
    PROVE  TypeInv'
  BY ProcessSteps, RaisingTypeInv, TypeInvNext

-----------------------------------------------------------------------------
(***************************************************************************)
(* The process's own variables.                                             *)
(***************************************************************************)
\* Every variable of the process is typed, and who hosts the server decides
\* where its main thread and its gripper's process can be.
LEMMA ProcessTypeOKNext ==
    ASSUME ProcessTypeOK, [ProcessNext]_allVars
    PROVE  ProcessTypeOK'
  <1>. USE DEF processVars
  <1>1. CASE UNCHANGED processVars
    BY <1>1 DEF ProcessTypeOK
  <1>2. CASE RpcThread
    <2>1. unwinding' \in BOOLEAN
      BY <1>2 DEF RpcThread
    <2>2. {unwinding', gaveUp'} \subseteq BOOLEAN
      BY <1>2, <2>1 DEF RpcThread, ProcessTypeOK
    <2>. QED  BY <1>2, <2>2 DEF RpcThread, ProcessTypeOK
  <1>3. Signalled => interrupts' \in 0..MaxInterrupts /\ UNCHANGED <<host, gripper>>
    BY ProcessAssumption DEF Signalled, ProcessTypeOK
  <1>4. CASE InterruptServing \/ InterruptCall
    <2>1. unwinding' \in {unwinding, TRUE, FALSE} /\ Signalled /\ UNCHANGED <<main, gaveUp>>
      BY <1>4 DEF InterruptServing, InterruptCall, RpcSignalled
    <2>2. {unwinding', gaveUp'} \subseteq BOOLEAN
      BY <1>3, <2>1 DEF ProcessTypeOK
    <2>. QED  BY <1>3, <2>1, <2>2 DEF ProcessTypeOK
  <1>5. CASE InterruptTeardown \/ InterruptPolling \/ InterruptLeaving
    <2>1. /\ Signalled /\ UNCHANGED unwinding /\ gaveUp' \in {gaveUp, TRUE}
          /\ \/ main' \in {"returned", "aborted"}
             \/ main = "polling" /\ main' = "joining"
      BY <1>5 DEF InterruptTeardown, RpcSignalled, InterruptPolling, LeavePolling, InterruptLeaving
    <2>2. {unwinding', gaveUp'} \subseteq BOOLEAN
      BY <2>1 DEF ProcessTypeOK
    <2>. QED  BY <1>3, <2>1, <2>2 DEF ProcessTypeOK
  <1>6. CASE RunReturns \/ PollingEnds \/ GripperReaped
    BY <1>6 DEF RunReturns, PollingEnds, LeavePolling, GripperReaped, ProcessTypeOK
  <1>7. CASE ServerJoined
    <2>1. gaveUp' \in BOOLEAN
      BY <1>7 DEF ServerJoined
    <2>2. {unwinding', gaveUp'} \subseteq BOOLEAN
      BY <1>7, <2>1 DEF ServerJoined, StartTerminate, ProcessTypeOK
    <2>. QED  BY <1>7, <2>2 DEF ServerJoined, StartTerminate, ProcessTypeOK
  <1>8. CASE KillGripper \/ GripperEnds
    BY <1>8 DEF KillGripper, GripperEnds, ProcessTypeOK
  <1>. QED  BY <1>1, <1>2, <1>4, <1>5, <1>6, <1>7, <1>8
            DEF ProcessNext, Others, ServeOnceRaises, Signal, MainThread, CallShutdown, Ended, allVars

LEMMA ProcessTypeOKInit == ProcessInit => ProcessTypeOK
  <1>. SUFFICES ASSUME ProcessInit PROVE ProcessTypeOK
    OBVIOUS
  <1>1. interrupts \in 0..MaxInterrupts
    BY ProcessAssumption DEF ProcessInit
  <1>2. {unwinding, gaveUp} \subseteq BOOLEAN
    BY DEF ProcessInit
  <1>. QED  BY <1>1, <1>2 DEF ProcessInit, ProcessTypeOK

\* Types of the whole process.
THEOREM ProcessTyped == ProcessSpec => [](TypeOK /\ ProcessTypeOK)
  <1>1. ProcessInit => TypeInv /\ ProcessTypeOK
    BY TypeInvInit, ProcessTypeOKInit DEF ProcessInit
  <1>2. TypeInv /\ ProcessTypeOK /\ [ProcessNext]_allVars => TypeInv' /\ ProcessTypeOK'
    BY ProcessTypeInvNext, ProcessTypeOKNext
  <1>3. TypeInv => TypeOK
    BY DEF TypeInv
  <1>. QED  BY <1>1, <1>2, <1>3, PTL DEF ProcessSpec

-----------------------------------------------------------------------------
(***************************************************************************)
(* What is left behind.                                                     *)
(***************************************************************************)
\* run_server returns only with the gripper server's process ended, by itself,
\* by its SIGTERM or by the kill, however often it was interrupted before.
THEOREM GripperNotLeft == ProcessSpec => []NoGripperLeft
  <1>1. ProcessInit => ProcessTypeOK /\ NoGripperLeft
    BY ProcessTypeOKInit DEF ProcessInit, NoGripperLeft
  <1>2. ASSUME ProcessTypeOK, NoGripperLeft, [ProcessNext]_allVars
        PROVE  ProcessTypeOK' /\ NoGripperLeft'
    <2>1. main' = "returned" /\ main # "returned"
             => RunReturns \/ GripperReaped \/ InterruptTeardown
      BY <1>2
      DEF ProcessNext, Others, RpcThread, ServeOnceRaises, Signal, MainThread, CallShutdown, Ended,
          InterruptServing, InterruptCall, InterruptTeardown, InterruptPolling, InterruptLeaving,
          RpcSignalled, Signalled, PollingEnds, LeavePolling, ServerJoined, StartTerminate,
          KillGripper, GripperEnds, allVars, processVars
    <2>2. main = "returned" => UNCHANGED gripper
      BY <1>2
      DEF ProcessNext, Others, RpcThread, ServeOnceRaises, Signal, MainThread, CallShutdown, Ended,
          InterruptServing, InterruptCall, InterruptTeardown, InterruptPolling, InterruptLeaving,
          RpcSignalled, Signalled, RunReturns, PollingEnds, LeavePolling, ServerJoined, GripperReaped,
          KillGripper, GripperEnds, Alive, allVars, processVars
    <2>3. RunReturns \/ GripperReaped \/ InterruptTeardown => gripper' \in {"none", "dead"}
      BY <1>2
      DEF RunReturns, GripperReaped, InterruptTeardown, RpcSignalled, Signalled, ProcessTypeOK
    <2>. QED  BY <1>2, <2>1, <2>2, <2>3, ProcessTypeOKNext DEF NoGripperLeft
  <1>. QED  BY <1>1, <1>2, PTL DEF ProcessSpec

\* A halted robot executes a policy's late ramp at most.
HaltedRamps == \A r \in halted : motion[r] \in {Idle} \cup {Ramp(s) : s \in Session}

\* run and run_server return after the teardown, unless they gave it up.
ReturnsWhenDown == main \in {"terminating", "returned"} /\ ~ gaveUp => server = "down"

ExitInv == TypeInv /\ ProcessTypeOK /\ TeardownInOrder /\ HaltedRamps /\ ReturnsWhenDown

\* The exceptions end in a teardown that has not halted a robot yet.
LEMMA RaisingTeardown ==
    ASSUME TypeInv, TeardownInOrder, ServeOnceRaises \/ InterruptServing \/ InterruptCall
    PROVE  TeardownInOrder' /\ server # "down" /\ halted = {} /\ halted' = {}
  <1>1. at[Rpc] # "idle" \/ server = "serving"
    BY DEF ServeOnceRaises, InterruptServing, InterruptCall
  <1>2. server # "down" /\ halted = {}
    BY <1>1 DEF TeardownInOrder
  <1>. QED  BY <1>2, RaisingSteps DEF TeardownInOrder

\* A server that is down stays down.
LEMMA DownStays ==
    ASSUME TypeInv, TeardownInOrder, [Next]_vars, server = "down"
    PROVE  server' = "down"
  <1>1. at[Rpc] = "idle" /\ registry = {}
    BY DEF TeardownInOrder
  <1>. QED  BY <1>1
            DEF Next, Request, CreateRobot, StopRobot, StartTrackerLoadFails, MoveRobot, JoinMotion,
                Handle, StopTrackerPayloadFails, StopTracker, StartTracker, RpcStep, AwaitRequest,
                ServeNothing, RememberFinished, BeginShutdown, CloseSockets, ShutdownStopsTracker,
                Deregister, HaltRobot, Closing, RequestShutdown, PolicyStep, UserCodeStep, RobotStep,
                Terminated, vars, managerVars

\* Once halted a robot gets no motion but a ramp: the teardown takes no request.
LEMMA HaltedRampsNext ==
    ASSUME TypeInv, TeardownInOrder, HaltedRamps, [Next]_vars
    PROVE  HaltedRamps'
  <1>. SUFFICES ASSUME NEW r \in halted'
                PROVE  motion'[r] \in {Idle} \cup {Ramp(s) : s \in Session}
    BY DEF HaltedRamps, Ramp, Idle
  <1>1. CASE HaltRobot(r) /\ r \in Robot
    BY <1>1 DEF HaltRobot, HardStop, TypeInv, TypeOK, RobotTypeOK
  <1>2. CASE r \in halted
    <2>1. /\ r \in Robot /\ motion[r] \in {Idle} \cup {Ramp(s) : s \in Session}
          /\ at[Rpc] = "idle"
      BY <1>2 DEF TeardownInOrder, HaltedRamps, TypeInv, TypeOK, ManagerTypeOK
    <2>2. ~ ClientMoves(r)
      BY <2>1 DEF ClientMoves
    <2>3. ASSUME RampComes(r) PROVE \E s \in Session : motion'[r] = Ramp(s)
      <3>1. PICK t \in Thread : EnqueueRamp(t) /\ motion'[r] = Ramp(Target(t))
        BY <2>3 DEF RampComes
      <3>2. Target(t) \in Session
        BY <3>1, TargetStarted DEF EnqueueRamp
      <3>. QED  BY <3>1, <3>2
    <2>. QED  BY <2>1, <2>2, <2>3, MotionChanges
  <1>3. r \in halted \/ (HaltRobot(r) /\ r \in Robot)
    <2>1. ASSUME NEW q \in Robot, HaltRobot(q) PROVE r \in halted \/ r = q
      BY <2>1 DEF HaltRobot
    <2>. QED  BY <2>1, HaltedGrows
  <1>. QED  BY <1>1, <1>2, <1>3

\* Whatever handlers the signals met, a process that returned without giving up
\* its server's teardown leaves every robot at rest, or in the ramp of a policy
\* that outlived its session's stop.
THEOREM ExitIsStill == ProcessSpec => []ExitMeansStill
  <1>1. ProcessInit => ExitInv
    BY TypeInvInit, ProcessTypeOKInit
    DEF ProcessInit, Init, SessionInit, ExitInv, TeardownInOrder, HaltedRamps, ReturnsWhenDown, Thread
  <1>2. ASSUME ExitInv, [ProcessNext]_allVars PROVE ExitInv'
    <2>1. TypeInv' /\ ProcessTypeOK'
      BY <1>2, ProcessTypeInvNext, ProcessTypeOKNext DEF ExitInv
    <2>2. TeardownInOrder' /\ HaltedRamps' /\ (server = "down" => server' = "down")
      <3>1. CASE [Next]_vars
        BY <1>2, <3>1, TeardownNext, HaltedRampsNext, DownStays DEF ExitInv
      <3>2. CASE ServeOnceRaises \/ InterruptServing \/ InterruptCall
        BY <1>2, <3>2, RaisingTeardown DEF ExitInv, HaltedRamps
      <3>. QED  BY <1>2, <3>1, <3>2, ProcessSteps
    <2>3. ReturnsWhenDown'
      <3>1. CASE main' = main /\ gaveUp' = gaveUp
        BY <1>2, <2>2, <3>1 DEF ExitInv, ReturnsWhenDown
      <3>2. CASE RunReturns \/ ServerJoined
        BY <3>2 DEF RunReturns, ServerJoined, StartTerminate, vars, managerVars, ReturnsWhenDown
      <3>3. CASE GripperReaped
        BY <1>2, <2>2, <3>3 DEF GripperReaped, ExitInv, ReturnsWhenDown
      <3>4. CASE main' \in {"joining", "aborted"} \/ gaveUp'
        BY <3>4 DEF ReturnsWhenDown
      <3>. QED  BY <1>2, <3>1, <3>2, <3>3, <3>4
                DEF ProcessNext, Others, RpcThread, ServeOnceRaises, Signal, MainThread, CallShutdown,
                    Ended, InterruptServing, InterruptCall, InterruptTeardown, InterruptPolling,
                    InterruptLeaving, RpcSignalled, Signalled, PollingEnds, LeavePolling, KillGripper,
                    GripperEnds, allVars, processVars
    <2>. QED  BY <2>1, <2>2, <2>3 DEF ExitInv
  <1>3. ExitInv => ExitMeansStill
    BY DEF ExitInv, TeardownInOrder, HaltedRamps, ReturnsWhenDown, ExitMeansStill
  <1>. QED  BY <1>1, <1>2, <1>3, PTL DEF ProcessSpec
=============================================================================
