--------------------------- MODULE TrackerSession ---------------------------
(***************************************************************************)
(* tracker_session.py: a TrackerSession owns one impedance tracking motion. *)
(* Two threads meet in it: the server's RPC thread, which runs stop(), and  *)
(* the session's own policy thread, which runs _run_policy() and may stop   *)
(* the tracker from there.  Both walk through _enqueue_stop_motion with no  *)
(* lock, so its reads and its write are steps of their own here.            *)
(*                                                                         *)
(* A reference has no part in who stops what: the values a policy returns   *)
(* are reduced to "go on", "stop" and "raise".  franky without              *)
(* TorqueStopMotion (an abrupt Robot.stop() instead of a ramp) is left out. *)
(***************************************************************************)
EXTENDS FrankyRobot

CONSTANTS
    Rpc,                 \* the thread of ZmqRobotServer.serve_forever
    NoRobot,             \* the robot of a session that was never started
    PolicyMayOutliveJoin \* can a policy step run longer than the 1 s join?

ASSUME SessionAssumption == /\ Rpc \notin Session
                            /\ NoRobot \notin Robot
                            /\ PolicyMayOutliveJoin \in BOOLEAN

VARIABLES
    robotOf,       \* [Session -> Robot or NoRobot], TrackerSession._robot
    guarded,       \* sessions with stop_on_policy_error
    stopEvent,     \* sessions whose _stop_event is set
    stopEnqueued,  \* sessions whose _stop_enqueued is set
    failed,        \* sessions whose _error is set
    at,            \* where each thread is: a policy thread has its session's name
    call           \* the blocking call the RPC thread is in

sessionVars == <<robotOf, guarded, stopEvent, stopEnqueued, failed, at, call>>

-----------------------------------------------------------------------------
Thread == Session \cup {Rpc}

\* Of a policy thread: absent (none, or not started), policy (in user code),
\* rest (in the rest of a step that has called its handle's request_stop), loop
\* (at the while), dead.  Of the RPC thread: idle (at the while), recv, join,
\* reap (waiting for the policy thread), remember.  Of both, inside
\* _enqueue_stop_motion: check, control, move.
UserCode  == {"policy", "rest"}
PolicyLoc == UserCode \cup {"absent", "loop", "check", "control", "move", "dead"}
RpcLoc    == {"idle", "recv", "check", "control", "move", "join", "reap", "remember"}

Wait == {"bounded", "forever"}

\* session: whose stop() runs, or NoSession in robot.join_motion.  custom: the
\* caller gave a stop motion of its own.  raised: the call ends in an exception.
Call == [session : Session \cup {NoSession}, robot : Robot \cup {NoRobot},
         wait : Wait, custom : BOOLEAN, raised : BOOLEAN]

NoCall == [session |-> NoSession, robot |-> NoRobot, wait |-> "bounded",
           custom |-> FALSE, raised |-> FALSE]

SessionTypeOK ==
    /\ robotOf \in [Session -> Robot \cup {NoRobot}]
    /\ guarded \subseteq Session
    /\ stopEvent \subseteq Session
    /\ stopEnqueued \subseteq Session
    /\ failed \subseteq Session
    /\ at \in [Thread -> PolicyLoc \cup RpcLoc]
    /\ at[Rpc] \in RpcLoc
    /\ \A s \in Session : at[s] \in PolicyLoc
    /\ call \in Call

SessionInit ==
    /\ robotOf = [s \in Session |-> NoRobot]
    /\ guarded = {}
    /\ stopEvent = {}
    /\ stopEnqueued = {}
    /\ failed = {}
    /\ at = [t \in Thread |-> IF t = Rpc THEN "idle" ELSE "absent"]
    /\ call = NoCall

-----------------------------------------------------------------------------
Started(s)   == robotOf[s] # NoRobot
HasPolicy(s) == at[s] # "absent"

\* The session a thread is stopping, when it is inside _enqueue_stop_motion.
Target(t) == IF t = Rpc THEN call.session ELSE t

Goto(t, l) == at' = [at EXCEPT ![t] = l]

\* Mutation: the stop event is not asked for.
RunningByControl(s) ==
    /\ Started(s)
    /\ InControl(robotOf[s])
    /\ HasPolicy(s) => at[s] # "dead"

\* TrackerSession.status()["running"]: it asks for the robot's control, which
\* any motion on that robot has, and for the thread or the event.
Running(s) ==
    /\ Started(s)
    /\ InControl(robotOf[s])
    /\ IF HasPolicy(s) THEN at[s] # "dead" ELSE s \notin stopEvent

-----------------------------------------------------------------------------
(***************************************************************************)
(* Construction and start().  MoveAsync comes first in the manager: the     *)
(* motion runs before the session object exists.  The RPC thread answers.   *)
(***************************************************************************)
StartSession(s, r, hasPolicy, isGuarded) ==
    /\ ~ Started(s)
    /\ MoveAsync(r, Track(s))
    /\ robotOf' = [robotOf EXCEPT ![s] = r]
    /\ guarded' = IF hasPolicy /\ isGuarded THEN guarded \cup {s} ELSE guarded
    /\ at' = [at EXCEPT ![s] = IF hasPolicy THEN "policy" ELSE "absent", ![Rpc] = "idle"]
    /\ UNCHANGED <<stopEvent, stopEnqueued, failed, call>>

-----------------------------------------------------------------------------
(***************************************************************************)
(* _enqueue_stop_motion, by either thread.                                  *)
(***************************************************************************)
\* Where a thread goes once its stop motion is enqueued or found needless: a
\* policy thread ends after an error; else it is back in its loop, or in the
\* step that called request_stop.
AfterEnqueue(t) == IF t = Rpc THEN {"join"}
                   ELSE IF t \in failed THEN {"dead"} ELSE {"loop", "rest"}

\* Mutation: the event stop() has just set is taken for the flag.
CheckEnqueuedByEvent(t) ==
    /\ at[t] = "check"
    /\ \E l \in IF Target(t) \in stopEvent THEN AfterEnqueue(t) ELSE {"control"} : Goto(t, l)
    /\ UNCHANGED <<robotVars, robotOf, guarded, stopEvent, stopEnqueued, failed, call>>

\* `if self._stop_enqueued: return`, on the default ramp only.
CheckEnqueued(t) ==
    /\ at[t] = "check"
    /\ \E l \in IF Target(t) \in stopEnqueued THEN AfterEnqueue(t) ELSE {"control"} : Goto(t, l)
    /\ UNCHANGED <<robotVars, robotOf, guarded, stopEvent, stopEnqueued, failed, call>>

\* `if not self._in_control: return`, then `self._stop_enqueued = True`.
CheckControl(t) ==
    /\ at[t] = "control"
    /\ IF InControl(robotOf[Target(t)])
       THEN /\ stopEnqueued' = stopEnqueued \cup {Target(t)}
            /\ Goto(t, "move")
       ELSE /\ \E l \in AfterEnqueue(t) : Goto(t, l)
            /\ UNCHANGED stopEnqueued
    /\ UNCHANGED <<robotVars, robotOf, guarded, stopEvent, failed, call>>

\* `self._robot.move(stop_motion, asynchronous=True)`
EnqueueRamp(t) ==
    /\ at[t] = "move"
    /\ MoveAsync(robotOf[Target(t)], Ramp(Target(t)))
    /\ \E l \in AfterEnqueue(t) : Goto(t, l)
    /\ UNCHANGED <<robotOf, guarded, stopEvent, stopEnqueued, failed, call>>

\* The same call, refused: a motion of the other control interface is running.
\* In stop() the exception leaves through `finally`; on the policy thread the
\* first one is the step's error unless the step catches it, and one met while
\* handling an error kills the thread.
EnqueueRaises(t) ==
    /\ at[t] = "move"
    /\ ~ Accepts(robotOf[Target(t)], Ramp(Target(t)))
    /\ \/ /\ t = Rpc
          /\ Goto(t, "reap")
          /\ call' = [call EXCEPT !.raised = TRUE]
          /\ UNCHANGED failed
       \/ /\ t # Rpc
          /\ Goto(t, IF t \in guarded \ failed THEN "check" ELSE "dead")
          /\ failed' = failed \cup {t}
          /\ UNCHANGED call
       \/ /\ t \notin failed \cup {Rpc}
          /\ Goto(t, "rest")
          /\ UNCHANGED <<failed, call>>
    /\ UNCHANGED <<robotVars, robotOf, guarded, stopEvent, stopEnqueued>>

EnqueueStop(t) == CheckEnqueued(t) \/ CheckControl(t) \/ EnqueueRamp(t) \/ EnqueueRaises(t)

-----------------------------------------------------------------------------
(***************************************************************************)
(* The policy thread, _run_policy.                                          *)
(***************************************************************************)
\* `while not stop_event.is_set() and _in_control:`
PolicyLoop(s) ==
    /\ at[s] = "loop"
    /\ Goto(s, IF s \notin stopEvent /\ InControl(robotOf[s]) THEN "policy" ELSE "dead")
    /\ UNCHANGED <<robotVars, robotOf, guarded, stopEvent, stopEnqueued, failed, call>>

\* The factory or a step returned a reference or None.
PolicyReturns(s) ==
    /\ at[s] \in UserCode
    /\ Goto(s, "loop")
    /\ UNCHANGED <<robotVars, robotOf, guarded, stopEvent, stopEnqueued, failed, call>>

\* _request_stop(): it returned False or {"stop": True}, or calls its handle's
\* request_stop.  A second call in the rest of the step is as good as a late first.
PolicyStops(s) ==
    /\ at[s] = "policy"
    /\ stopEvent' = stopEvent \cup {s}
    /\ Goto(s, "check")
    /\ UNCHANGED <<robotVars, robotOf, guarded, stopEnqueued, failed, call>>

\* It raised: the error is kept, and a guarded session ramps down.
PolicyRaises(s) ==
    /\ at[s] \in UserCode
    /\ failed' = failed \cup {s}
    /\ IF s \in guarded
       THEN /\ stopEvent' = stopEvent \cup {s}
            /\ Goto(s, "check")
       ELSE /\ Goto(s, "dead")
            /\ UNCHANGED stopEvent
    /\ UNCHANGED <<robotVars, robotOf, guarded, stopEnqueued, call>>

PolicyUserCode(s) == PolicyReturns(s) \/ PolicyStops(s) \/ PolicyRaises(s)

-----------------------------------------------------------------------------
(***************************************************************************)
(* stop() and join_motion on the RPC thread.                                *)
(***************************************************************************)
\* stop(): set the event, then enqueue; a custom motion skips the check.
BeginStop(s, w, custom) ==
    /\ stopEvent' = stopEvent \cup {s}
    /\ call' = [session |-> s, robot |-> robotOf[s], wait |-> w,
                custom |-> custom, raised |-> FALSE]
    /\ Goto(Rpc, IF custom THEN "control" ELSE "check")
    /\ UNCHANGED <<robotOf, guarded, stopEnqueued, failed>>

AfterJoin == IF call.session = NoSession THEN "idle" ELSE "reap"

\* Mutation: no `finally`, a fault leaves stop() without joining the thread.
JoinReturnsNoFinally ==
    /\ at[Rpc] = "join"
    /\ ~ InControl(call.robot)
    /\ exc' = [exc EXCEPT ![call.robot] = "none"]
    /\ call' = IF call.session = NoSession THEN NoCall ELSE call
    /\ Goto(Rpc, IF exc[call.robot] = "fault" /\ call.session # NoSession
                 THEN "remember" ELSE AfterJoin)
    /\ UNCHANGED <<motion, robotOf, guarded, stopEvent, stopEnqueued, failed>>

\* Robot.join_motion once the robot is at rest.  A fault is raised to the
\* caller, a preemption is swallowed; either is consumed.
JoinReturns ==
    /\ at[Rpc] = "join"
    /\ ~ InControl(call.robot)
    /\ exc' = [exc EXCEPT ![call.robot] = "none"]
    /\ call' = IF call.session = NoSession THEN NoCall
               ELSE [call EXCEPT !.raised = exc[call.robot] = "fault"]
    /\ Goto(Rpc, AfterJoin)
    /\ UNCHANGED <<motion, robotOf, guarded, stopEvent, stopEnqueued, failed>>

\* A bounded wait may end first.
JoinTimesOut ==
    /\ at[Rpc] = "join"
    /\ call.wait = "bounded"
    /\ InControl(call.robot)
    /\ call' = IF call.session = NoSession THEN NoCall ELSE call
    /\ Goto(Rpc, AfterJoin)
    /\ UNCHANGED <<robotVars, robotOf, guarded, stopEvent, stopEnqueued, failed>>

\* Mutation: the policy thread is not joined.
ReapNothing ==
    /\ at[Rpc] = "reap"
    /\ Goto(Rpc, "remember")
    /\ UNCHANGED <<robotVars, robotOf, guarded, stopEvent, stopEnqueued, failed, call>>

\* `self._thread.join(POLICY_THREAD_JOIN_TIMEOUT)`.  Only user code can make
\* the thread miss the deadline: the rest of its path does not block.
ReapPolicy ==
    /\ at[Rpc] = "reap"
    /\ \/ at[call.session] \in {"absent", "dead"}
       \/ PolicyMayOutliveJoin /\ at[call.session] \in UserCode
    /\ Goto(Rpc, "remember")
    /\ UNCHANGED <<robotVars, robotOf, guarded, stopEvent, stopEnqueued, failed, call>>

StopPath == EnqueueStop(Rpc) \/ JoinReturns \/ JoinTimesOut \/ ReapPolicy
=============================================================================
