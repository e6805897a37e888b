---------------------------- MODULE ServerProcess ----------------------------
(***************************************************************************)
(* server_cli.py and cli.py: who hosts serve_forever, and how that ends.    *)
(*   run         the main thread is the RPC thread, and a signal is a       *)
(*               KeyboardInterrupt raised wherever that thread happens to   *)
(*               be (`zero-franky server`);                                 *)
(*   run_server  serve_forever is a daemon thread, the main thread watches  *)
(*               the gripper server's process (`zero-franky server          *)
(*               --robotiq`);                                               *)
(*   embedded    a program of the user's runs serve_forever in a thread of  *)
(*               its own and calls shutdown().                              *)
(* When the main thread is gone the process is, with every thread in it.    *)
(***************************************************************************)
EXTENDS RobotManager

CONSTANT MaxInterrupts   \* bound: signals the process gets

ASSUME ProcessAssumption == MaxInterrupts \in Nat

VARIABLES
    host,        \* who hosts the server, see above
    main,        \* where the main thread is
    interrupts,  \* SIGINT and SIGTERM so far
    unwinding,   \* is a KeyboardInterrupt on its way out of tracker.stop?
    gaveUp,      \* has the exit stopped waiting for the server's teardown?
    gripper      \* the gripper server's process

processVars == <<host, main, interrupts, unwinding, gaveUp, gripper>>
allVars == <<vars, processVars>>

ProcessTypeOK ==
    /\ host \in {"run", "run_server", "embedded"}
    /\ main \in {"hosting", "polling", "joining", "terminating", "returned", "aborted"}
    /\ interrupts \in 0..MaxInterrupts
    /\ {unwinding, gaveUp} \subseteq BOOLEAN
    /\ gripper \in {"none", "running", "signalled", "dead"}
    /\ gripper = "none" <=> host # "run_server"
    /\ main \in {"polling", "joining", "terminating"} => host = "run_server"
    /\ main = "terminating" => gripper \in {"signalled", "dead"}

ProcessInit ==
    /\ Init
    /\ host \in {"run", "run_server", "embedded"}
    /\ main = IF host = "run_server" THEN "polling" ELSE "hosting"
    /\ gripper = IF host = "run_server" THEN "running" ELSE "none"
    /\ interrupts = 0
    /\ unwinding = FALSE /\ gaveUp = FALSE

Alive == main \notin {"returned", "aborted"}

-----------------------------------------------------------------------------
(***************************************************************************)
(* The threads of RobotManager, as long as there is a process.              *)
(***************************************************************************)
RpcThread ==
    /\ Alive
    /\ RpcStep
    /\ unwinding' = (unwinding /\ at'[Rpc] # "idle")
    /\ UNCHANGED <<host, main, interrupts, gaveUp, gripper>>

Others(A) == Alive /\ A /\ UNCHANGED processVars

EndServing == server' = "closing" /\ UNCHANGED <<robots, finished, answered, halted>>

\* serve_once raises past its own handler (a message that does not unpack, or
\* is no map): the loop ends, and `finally` tears everything down.
ServeOnceRaises ==
    /\ Alive
    /\ server \in {"serving", "requested"}
    /\ at[Rpc] = "recv"
    /\ Goto(Rpc, "idle")
    /\ EndServing
    /\ UNCHANGED <<robotVars, robotOf, guarded, stopEvent, stopEnqueued, failed, call, registry, processVars>>

-----------------------------------------------------------------------------
(***************************************************************************)
(* host = "run": KeyboardInterrupt on the RPC thread.  No `except           *)
(* Exception` stops it; every `finally` on its way runs.                    *)
(***************************************************************************)
Signalled ==
    /\ Alive
    /\ interrupts < MaxInterrupts
    /\ interrupts' = interrupts + 1
    /\ UNCHANGED <<host, gripper>>

RpcSignalled == host = "run" /\ Signalled

\* In the loop, in recv, or in a handler that does not wait.  Such a handler is
\* left after any of its lines: start_*_tracker between move and registration,
\* stop_tracker between pop and stop.
InterruptServing ==
    /\ RpcSignalled
    /\ server = "serving"
    /\ at[Rpc] \in {"idle", "recv"}
    /\ \/ UNCHANGED <<robotVars, registry>>
       \/ at[Rpc] = "recv" /\ UNCHANGED registry /\ \E r \in robots : MoveAsync(r, Orphan)
       \/ at[Rpc] = "recv" /\ UNCHANGED robotVars /\ \E s \in registry : registry' = registry \ {s}
    /\ Goto(Rpc, "idle")
    /\ EndServing
    /\ UNCHANGED <<robotOf, guarded, stopEvent, stopEnqueued, failed, call, main, unwinding, gaveUp>>

\* In tracker.stop or robot.join_motion: out of the enqueue or the join to the
\* policy thread's join, out of that to _remember_finished, out of that to the
\* loop's `finally`, with or without the status.
InterruptCall ==
    /\ RpcSignalled
    /\ server = "serving" \/ unwinding
    /\ at[Rpc] \notin {"idle", "recv"}
    /\ \/ /\ at[Rpc] = "remember" \/ call.session = NoSession
          /\ Goto(Rpc, "idle")
          /\ call' = NoCall
          /\ unwinding' = FALSE
       \/ /\ at[Rpc] # "remember" /\ call.session # NoSession
          /\ Goto(Rpc, IF at[Rpc] = "reap" THEN "remember" ELSE "reap")
          /\ call' = [call EXCEPT !.raised = TRUE]
          /\ unwinding' = TRUE
    /\ EndServing
    /\ UNCHANGED <<robotVars, robotOf, guarded, stopEvent, stopEnqueued, failed, registry, main, gaveUp>>

\* In the teardown itself, serve_forever's `finally`: it is left where it is, and
\* run, which catches that interrupt too, returns as after a finished one.
InterruptTeardown ==
    /\ RpcSignalled
    /\ server = "closing"
    /\ ~ unwinding
    /\ main' = "returned"
    /\ gaveUp' = TRUE
    /\ UNCHANGED <<vars, unwinding>>

\* run is left once serve_forever is.
RunReturns ==
    /\ host = "run"
    /\ Alive
    /\ server = "down"
    /\ main' = "returned"
    /\ UNCHANGED <<vars, host, interrupts, unwinding, gaveUp, gripper>>

-----------------------------------------------------------------------------
(***************************************************************************)
(* host = "run_server": the main thread of cli.run_server.                  *)
(***************************************************************************)
\* finally: server.shutdown().
LeavePolling ==
    /\ main = "polling"
    /\ main' = "joining"
    /\ server' = IF server = "serving" THEN "requested" ELSE server
    /\ UNCHANGED <<robotVars, sessionVars, robots, registry, finished, answered, halted, host, unwinding>>

\* The loop over server_thread.is_alive() and gripper.poll() ends.
PollingEnds ==
    /\ server = "down" \/ gripper = "dead"
    /\ LeavePolling
    /\ UNCHANGED <<interrupts, gaveUp, gripper>>

InterruptPolling == Signalled /\ LeavePolling /\ UNCHANGED gaveUp

\* Mutation: wait and kill, but no SIGTERM first.
StartTerminateSilently ==
    /\ main' = "terminating"
    /\ UNCHANGED <<gripper, vars, host, interrupts, unwinding>>

\* _terminate: SIGTERM, if the process has not ended.
StartTerminate ==
    /\ main' = "terminating"
    /\ gripper' = IF gripper = "running" THEN "signalled" ELSE gripper
    /\ UNCHANGED <<vars, host, interrupts, unwinding>>

\* Mutation: the server's thread is not joined.
NotJoined == main = "joining" /\ StartTerminate /\ UNCHANGED gaveUp

\* server_thread.join(timeout=3.0).  Only a wait of the RPC thread (up to 5 s
\* for each tracker's ramp and 1 s for its policy) takes longer than that.
ServerJoined ==
    /\ main = "joining"
    /\ server = "down" \/ at[Rpc] \in {"join", "reap"}
    /\ gaveUp' = (server # "down")
    /\ StartTerminate

\* Mutation: the process is left behind when its wait expires.
GripperLeft ==
    /\ main = "terminating"
    /\ main' = "returned"
    /\ UNCHANGED <<vars, host, interrupts, unwinding, gaveUp, gripper>>

\* Mutation: no kill.
NoKill == main = "terminating" /\ FALSE /\ UNCHANGED allVars

\* wait(timeout=3.0) expires: kill.
KillGripper ==
    /\ main = "terminating"
    /\ gripper = "signalled"
    /\ gripper' = "dead"
    /\ UNCHANGED <<vars, host, main, interrupts, unwinding, gaveUp>>

\* wait returns, and so does run_server.
GripperReaped ==
    /\ main = "terminating"
    /\ gripper = "dead"
    /\ main' = "returned"
    /\ UNCHANGED <<vars, host, interrupts, unwinding, gaveUp, gripper>>

\* A signal in the `finally`: its handler is the one from before run_server, or
\* Python's own; both take the main thread out of it.
InterruptLeaving ==
    /\ main \in {"joining", "terminating"}
    /\ Signalled
    /\ main' = "aborted"
    /\ UNCHANGED <<vars, unwinding, gaveUp>>

\* The gripper's process ends: of itself, or of its SIGTERM.
GripperEnds ==
    /\ Alive
    /\ gripper \in {"running", "signalled"}
    /\ gripper' = "dead"
    /\ UNCHANGED <<vars, host, main, interrupts, unwinding, gaveUp>>

\* host = "embedded": the program calls shutdown().
CallShutdown == host = "embedded" /\ Others(RequestShutdown)

-----------------------------------------------------------------------------
Signal == \/ InterruptServing \/ InterruptCall \/ InterruptTeardown
          \/ InterruptPolling \/ InterruptLeaving

MainThread == RunReturns \/ PollingEnds \/ ServerJoined \/ KillGripper \/ GripperReaped

Ended == (~ Alive \/ server = "down") /\ UNCHANGED allVars

ProcessNext ==
    \/ Others(Request)
    \/ RpcThread
    \/ ServeOnceRaises
    \/ \E s \in Session : Others(PolicyStep(s)) \/ Others(UserCodeStep(s))
    \/ \E r \in Robot : Others(RobotStep(r))
    \/ Signal
    \/ MainThread
    \/ GripperEnds
    \/ CallShutdown
    \/ Ended

\* RobotManager's fairness, and the main thread is scheduled.
ProcessFairness ==
    /\ WF_allVars(RpcThread)
    /\ WF_allVars(MainThread)
    /\ \A s \in Session :
         /\ WF_allVars(Others(PolicyStep(s)))
         /\ WF_allVars(~ PolicyMayOutliveJoin /\ Others(UserCodeStep(s)))
    /\ \A r \in Robot :
         WF_allVars(Others(RampFinishes(r) /\ UNCHANGED <<sessionVars, managerVars>>))

ProcessSpec == ProcessInit /\ [][ProcessNext]_allVars /\ ProcessFairness

-----------------------------------------------------------------------------
(***************************************************************************)
(* Properties.                                                              *)
(***************************************************************************)
\* A process that returned from run or run_server has left no robot in a motion
\* other than the ramp of a policy that outlived its session's stop
\* (server_cli.run: "active tracker sessions/robots are stopped and sockets
\* closed before exit"), however many signals met its handlers and whichever
\* lines of theirs.  Not so when the exit did not wait for the teardown: the
\* join of run_server expired, or another signal met the teardown of run.
ExitMeansStill ==
    main = "returned" /\ ~ gaveUp
        => \A r \in robots : motion[r] \in {Idle} \cup {Ramp(s) : s \in Session}

\* Nor has it left the gripper server's process behind (run_server's `finally`,
\* _terminate).
NoGripperLeft == main = "returned" => gripper \in {"none", "dead"}

\* A signal ends the process, wherever it met the RPC thread and whatever the
\* sessions, the robots and the gripper server's process do.
SignalEndsProcess == (interrupts > 0) ~> ~ Alive

\* A shutdown request ends with the server down, whatever the sessions, their
\* policies and the robots are doing (shutdown: "must make progress even if a
\* ramp never completes"), or with the process gone.
ShutdownCompletes == (server = "requested") ~> (server = "down" \/ ~ Alive)
=============================================================================
