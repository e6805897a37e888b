---------------------------- MODULE TrackerClient ----------------------------
(***************************************************************************)
(* zmq_client.py: one client program, `with robot.start_..._tracker() as t: *)
(* while t.tick(): ...`, on its REQ socket, with the state stream beside it *)
(* and a server that may be slow, lose messages, fail a call, or see the    *)
(* controller end by itself.  The server is the client's view of            *)
(* RobotManager: one session's phase and its motion.                        *)
(***************************************************************************)
EXTENDS StateStream

CONSTANTS
    MayTimeOut,    \* may a call, or a join, outlast its timeout?
    Lossy,         \* may messages be lost and the server fail calls?
    EarlierMotion  \* may the robot execute another motion before the session's?

ASSUME ClientAssumption == {MayTimeOut, Lossy, EarlierMotion} \subseteq BOOLEAN

VARIABLES
    \* the server
    phase,     \* the session: new, registered, stopping, stopped
    motion,    \* the robot's: none, earlier, or the session's arming, tracking,
               \* ramping or ending one
    unattended, \* has the policy died and left its motion tracking?
    inbox,     \* the request on its way to the server
    serving,   \* the request the RPC thread is in
    reply,     \* the response on its way to the client
    \* the client
    socket,    \* the REQ socket: ready, or awaiting a response
    user,      \* where the user's thread is
    stopped,   \* _stopped
    seen,      \* _in_control_seen
    snapshot,  \* _snapshot
    fresh,     \* is _snapshot younger than _PROBE_INTERVAL?
    probeDue,  \* is _probed_at older than _PROBE_INTERVAL?
    broken,    \* has the with block's body raised?
    outcome    \* how the with statement ended: open, clean, raised

serverVars == <<phase, motion, unattended, inbox, serving, reply>>
proxyVars == <<stopped, seen, snapshot, fresh, probeDue>>
clientVars == <<socket, user, proxyVars, broken, outcome>>
vars == <<streamVars, serverVars, clientVars>>

Method == {"start", "status", "stop", "stop_bounded"}
Answer == {"ok", "error", "running", "idle"}

\* The user is in its own code (before, body, ended: tick has returned None,
\* leaving, after), in a tick (ticking, deciding), in stop_state_stream's join,
\* in wait_for_state, or in a call.
Call == {"call:start", "call:status", "call:probe", "call:stop", "call:exit"}
Place == {"before", "body", "ended", "leaving", "after",
          "ticking", "deciding", "joining", "waiting"} \cup Call

\* Every variable has its type.
TypeOK ==
    /\ StreamTypeOK
    /\ phase \in {"new", "registered", "stopping", "stopped"}
    /\ motion \in {"none", "earlier", "arming", "tracking", "ramping", "ending"}
    /\ inbox \in Method \cup {"none"}
    /\ serving \in Method \cup {"none"}
    /\ reply \in Answer \cup {"none"}
    /\ socket \in {"ready", "awaiting"}
    /\ user \in Place
    /\ snapshot \in Snapshot \cup {NoSnapshot}
    /\ {unattended, stopped, seen, fresh, probeDue, broken} \subseteq BOOLEAN
    /\ outcome \in {"open", "clean", "raised"}

Init ==
    /\ StreamInit
    /\ phase = "new"
    /\ motion \in IF EarlierMotion THEN {"none", "earlier"} ELSE {"none"}
    /\ unattended = FALSE
    /\ inbox = "none" /\ serving = "none" /\ reply = "none"
    /\ socket = "ready" /\ user = "before"
    /\ stopped = FALSE /\ seen = FALSE /\ snapshot = NoSnapshot
    /\ fresh = TRUE /\ probeDue = FALSE
    /\ broken = FALSE /\ outcome = "open"

-----------------------------------------------------------------------------
(***************************************************************************)
(* The server, one request at a time.                                       *)
(***************************************************************************)
Take(m) == /\ serving = "none" /\ inbox = m
           /\ inbox' = "none" /\ serving' = m
           /\ UNCHANGED reply

TakeAndAnswer(m, a) == /\ serving = "none" /\ inbox = m
                       /\ inbox' = "none" /\ reply' = a
                       /\ UNCHANGED serving

Finish(a) == serving' = "none" /\ reply' = a /\ UNCHANGED inbox

ServerStarts == /\ Take("start")
                /\ phase' = "registered" /\ motion' = "arming"

ServerStarted == /\ serving = "start" /\ motion # "arming"
                 /\ Finish("ok")
                 /\ UNCHANGED <<phase, motion>>

\* TrackerSession.status: the motion is in control and the policy's thread alive.
Running == phase = "registered" /\ motion = "tracking" /\ ~ unattended

\* tracker_status of a live session, or of one in the history.
ServerAnswersStatus ==
    /\ TakeAndAnswer("status", IF Running THEN "running" ELSE "idle")
    /\ UNCHANGED <<phase, motion>>

\* Mutation: the session is popped and its motion left to itself.
ServerStopsNothing == \E m \in {"stop", "stop_bounded"} :
    /\ phase = "registered"
    /\ Take(m)
    /\ phase' = "stopping" /\ UNCHANGED motion

\* stop_tracker pops the session and ramps its motion down, if it has one.
ServerStops == \E m \in {"stop", "stop_bounded"} :
    /\ phase = "registered"
    /\ Take(m)
    /\ phase' = "stopping"
    /\ motion' = IF motion = "tracking" THEN "ramping" ELSE motion

\* The join has returned, or a bounded one has given up; a controller fault
\* comes out as an error.
ServerStopped ==
    /\ phase = "stopping"
    /\ motion = "none" \/ serving = "stop_bounded"
    /\ Finish("ok") \/ (Lossy /\ Finish("error"))
    /\ phase' = "stopped"
    /\ UNCHANGED motion

\* session is None: return True.
ServerStopsAgain == \E m \in {"stop", "stop_bounded"} :
    /\ phase = "stopped"
    /\ TakeAndAnswer(m, "ok")
    /\ UNCHANGED <<phase, motion>>

\* Anything the handler raises before it has changed the session.
ServerRefuses == /\ Lossy
                 /\ TakeAndAnswer("start", "error") \/ TakeAndAnswer("status", "error")
                 /\ UNCHANGED <<phase, motion>>

Server == /\ \/ ServerStarts \/ ServerStarted \/ ServerAnswersStatus
             \/ ServerStops \/ ServerStopped \/ ServerStopsAgain \/ ServerRefuses
          /\ UNCHANGED <<unattended, streamVars, clientVars>>

MotionMoves(from, to) == /\ motion = from /\ motion' = to
                         /\ UNCHANGED <<phase, unattended, inbox, serving, reply,
                                        streamVars, clientVars>>

MotionArms == MotionMoves("arming", "tracking")
PolicyRamps == MotionMoves("tracking", "ramping") \* a policy stop; still registered
ControlEnds == MotionMoves("tracking", "ending")  \* a fault, a watchdog
MotionIsOver == \E m \in {"earlier", "ending", "ramping"} : MotionMoves(m, "none")

\* A step of the policy raises with stop_on_policy_error=False: its thread is over,
\* its motion goes on holding the last reference.
PolicyDies == /\ motion = "tracking" /\ ~ unattended
              /\ unattended' = TRUE
              /\ UNCHANGED <<phase, motion, inbox, serving, reply, streamVars, clientVars>>

\* A motion's callback publishes robot.is_in_control: false in a cycle before
\* control is established or after it ended, true in between.  The ramp has no
\* callback, so what was published before it is the last word.
Readings == CASE motion = "tracking" -> {TRUE}
              [] motion \in {"arming", "ending"} -> {FALSE}
              [] motion = "earlier" -> BOOLEAN
              [] OTHER -> {}

CallbackPublishes ==
    /\ user # "after"
    /\ \E inControl \in Readings : Publish(inControl)
    /\ UNCHANGED <<serverVars, clientVars>>

LoseMessage == /\ Lossy
               /\ \/ inbox # "none" /\ inbox' = "none" /\ UNCHANGED reply
                  \/ reply # "none" /\ reply' = "none" /\ UNCHANGED inbox
               /\ UNCHANGED <<phase, motion, unattended, serving, streamVars, clientVars>>

-----------------------------------------------------------------------------
(***************************************************************************)
(* ZmqRpcClient.call.  A socket that has sent refuses to send again until   *)
(* it has received, and a receive that timed out has not.                   *)
(***************************************************************************)
\* Where an exception takes the user: out of the body, or out of a call made
\* outside it.
Raises(from) ==
    IF from \in {"call:start", "call:exit"}
    THEN user' = "after" /\ outcome' = "raised" /\ UNCHANGED broken
    ELSE user' = "leaving" /\ broken' = TRUE /\ UNCHANGED outcome

Send(m, place) ==
    IF socket = "ready"
    THEN /\ inbox' = m /\ socket' = "awaiting" /\ user' = place
         /\ UNCHANGED <<phase, motion, unattended, serving, reply, broken, outcome>>
    ELSE Raises(place) /\ UNCHANGED <<serverVars, socket>>

\* Mutation: the socket may be used again at once, as a relaxed REQ may.
CallTimesOutRelaxed ==
    /\ MayTimeOut
    /\ user \in Call
    /\ Raises(user)
    /\ socket' = "ready"
    /\ UNCHANGED <<streamVars, serverVars, proxyVars>>

CallTimesOut ==
    /\ MayTimeOut
    /\ user \in Call
    /\ Raises(user)
    /\ UNCHANGED <<streamVars, serverVars, socket, proxyVars>>

Received == user \in Call /\ reply # "none" /\ reply' = "none" /\ socket' = "ready"

CallFails ==
    /\ Received /\ reply = "error"
    /\ Raises(user)
    /\ UNCHANGED <<streamVars, phase, motion, unattended, inbox, serving, proxyVars>>

CallReturns ==
    /\ Received /\ reply # "error"
    /\ user' = CASE user = "call:exit" -> "after"
                 [] user = "call:probe" /\ reply = "idle" -> "ended"
                 [] OTHER -> "body"
    /\ stopped' = (stopped \/ user' = "ended")
    /\ outcome' = IF user = "call:exit" THEN IF broken THEN "raised" ELSE "clean"
                  ELSE outcome
    /\ UNCHANGED <<streamVars, phase, motion, unattended, inbox, serving, seen,
                   snapshot, fresh, probeDue, broken>>

-----------------------------------------------------------------------------
(***************************************************************************)
(* The user's program and _TrackerProxy.                                    *)
(***************************************************************************)
StartTracker == /\ user = "before"
                /\ Send("start", "call:start")
                /\ UNCHANGED <<streamVars, proxyVars>>

\* The stream may run before there is a tracker: RobotProxy owns it.
StartStreamFirst == /\ user = "before"
                    /\ StartStream
                    /\ UNCHANGED <<serverVars, clientVars>>

\* tick, to the check of the stored error: None once stopped, else make sure
\* the stream runs.
TickBegins ==
    /\ user = "body"
    /\ \/ stopped /\ user' = "ended" /\ UNCHANGED streamVars
       \/ ~ stopped /\ user' = "ticking" /\ StartStream
    /\ UNCHANGED <<serverVars, socket, proxyVars, broken, outcome>>

\* if self._robot._state_stream_error is not None: raise, else pace.
TickChecksError ==
    /\ user = "ticking"
    /\ \/ RaiseStreamError /\ Raises(user)
       \/ error = "none" /\ user' = "deciding" /\ UNCHANGED <<streamVars, broken, outcome>>
    /\ UNCHANGED <<serverVars, socket, proxyVars>>

\* _still_in_control on what latest_state holds now.
Unchanged == latest = snapshot
SaysInControl == latest # NoSnapshot /\ latest.in_control
SaysEnded == latest # NoSnapshot /\ ~ latest.in_control
\* Mutation: a snapshot is believed however old it is.
TrustsAnySnapshot == SaysInControl

TrustsSnapshot == SaysInControl /\ (fresh \/ ~ Unchanged)
\* Mutation: the first cycles' false is believed.
EndsByAnySnapshot == SaysEnded

EndsBySnapshot == SaysEnded /\ seen

TickDecides ==
    /\ user = "deciding"
    /\ snapshot' = latest
    /\ fresh' = (fresh \/ ~ Unchanged)
    /\ seen' = (seen \/ SaysInControl)
    /\ \/ /\ EndsBySnapshot
          /\ user' = "ended" /\ stopped' = TRUE
          /\ UNCHANGED <<serverVars, socket, probeDue, broken, outcome>>
       \/ /\ TrustsSnapshot \/ (~ EndsBySnapshot /\ ~ probeDue)
          /\ user' = "body"
          /\ UNCHANGED <<serverVars, socket, stopped, probeDue, broken, outcome>>
       \/ /\ ~ TrustsSnapshot /\ ~ EndsBySnapshot /\ probeDue
          /\ probeDue' = FALSE
          /\ Send("status", "call:probe")
          /\ UNCHANGED stopped
    /\ UNCHANGED streamVars

\* _PROBE_INTERVAL has passed since the snapshot was first seen, or the probe.
IntervalPasses ==
    /\ user \notin {"before", "call:start", "after"}
    /\ \/ fresh /\ snapshot # NoSnapshot /\ fresh' = FALSE /\ UNCHANGED probeDue
       \/ ~ probeDue /\ probeDue' = TRUE /\ UNCHANGED fresh
    /\ UNCHANGED <<streamVars, serverVars, socket, user, stopped, seen, snapshot,
                   broken, outcome>>

\* Any other call a body makes: status, a setter, move on the same robot.
UserCalls == /\ user = "body"
             /\ Send("status", "call:status")
             /\ UNCHANGED <<streamVars, proxyVars>>

\* t.stop(): _stopped is set before the call is made.
UserStops == /\ user = "body"
             /\ stopped' = TRUE
             /\ \E m \in {"stop", "stop_bounded"} : Send(m, "call:stop")
             /\ UNCHANGED <<streamVars, seen, snapshot, fresh, probeDue>>

\* robot.stop_state_stream(); its join of 1 s ends with the thread or without.
UserStopsStream == /\ user = "body"
                   /\ RequestStreamStop
                   /\ user' = "joining"
                   /\ UNCHANGED <<serverVars, socket, proxyVars, broken, outcome>>

StreamJoinEnds == /\ user = "joining"
                  /\ ~ StreamAlive \/ MayTimeOut
                  /\ user' = "body"
                  /\ UNCHANGED <<streamVars, serverVars, socket, proxyVars, broken, outcome>>

\* robot.start_state_stream(); robot.wait_for_state(timeout).
UserWaitsForState == /\ user = "body"
                     /\ StartStream
                     /\ user' = "waiting"
                     /\ UNCHANGED <<serverVars, socket, proxyVars, broken, outcome>>

WaitEnds ==
    /\ user = "waiting"
    /\ \/ RaiseStreamError /\ Raises(user)
       \/ /\ error = "none" /\ latest # NoSnapshot /\ user' = "body"
          /\ UNCHANGED <<streamVars, broken, outcome>>
       \/ error = "none" /\ latest = NoSnapshot /\ Raises(user) /\ UNCHANGED streamVars
    /\ UNCHANGED <<serverVars, socket, proxyVars>>

UserRaises == /\ user \in {"body", "ended"}
              /\ Raises("body")
              /\ UNCHANGED <<streamVars, serverVars, socket, proxyVars>>

UserLeaves == /\ user \in {"body", "ended"}
              /\ user' = "leaving"
              /\ UNCHANGED <<streamVars, serverVars, socket, proxyVars, broken, outcome>>

\* Mutation: nothing to stop once tick has set _stopped.
ExitTrustsStopped ==
    /\ user = "leaving"
    /\ stopped' = TRUE
    /\ IF stopped
       THEN /\ user' = "after"
            /\ outcome' = IF broken THEN "raised" ELSE "clean"
            /\ UNCHANGED <<serverVars, socket, broken>>
       ELSE Send("stop", "call:exit")
    /\ UNCHANGED <<streamVars, seen, snapshot, fresh, probeDue>>

\* __exit__ calls stop(), whether or not the body has.
ExitStops == /\ user = "leaving"
             /\ stopped' = TRUE
             /\ Send("stop", "call:exit")
             /\ UNCHANGED <<streamVars, seen, snapshot, fresh, probeDue>>

-----------------------------------------------------------------------------
\* The threads are daemons: they end with the program, here with the statement.
WorkerSteps(w) == /\ user # "after"
                  /\ WorkerMove(w)
                  /\ UNCHANGED <<serverVars, clientVars>>
WorkerErrs(w) == /\ user # "after"
                 /\ WorkerFails(w)
                 /\ UNCHANGED <<serverVars, clientVars>>

Stream == \E w \in Worker : WorkerSteps(w) \/ WorkerErrs(w)

Environment == \/ Server \/ MotionArms \/ PolicyRamps \/ ControlEnds \/ MotionIsOver
               \/ PolicyDies \/ CallbackPublishes \/ LoseMessage \/ IntervalPasses

InTick == \/ TickBegins \/ TickChecksError \/ TickDecides

Client == \/ StartTracker \/ StartStreamFirst \/ InTick
          \/ CallTimesOut \/ CallFails \/ CallReturns
          \/ UserCalls \/ UserStops \/ UserStopsStream \/ StreamJoinEnds
          \/ UserWaitsForState \/ WaitEnds \/ UserRaises \/ UserLeaves \/ ExitStops

Next == Stream \/ Environment \/ Client

Spec == Init /\ [][Next]_vars

\* A loop written as documented ticks again after whatever else its body does;
\* threads and clocks run, a handler returns, a receive returns or times out.
\* Nothing makes the controller end, a snapshot be published, or a user leave.
Fairness ==
    /\ SF_vars(TickBegins)
    /\ WF_vars(TickChecksError) /\ WF_vars(TickDecides)
    /\ WF_vars(CallReturns \/ CallFails) /\ WF_vars(CallTimesOut)
    /\ WF_vars(StreamJoinEnds) /\ WF_vars(WaitEnds) /\ WF_vars(ExitStops)
    /\ WF_vars(Server) /\ WF_vars(MotionArms) /\ WF_vars(MotionIsOver)
    /\ WF_vars(IntervalPasses)
    /\ \A w \in Worker : WF_vars(WorkerSteps(w))

FairSpec == Spec /\ Fairness

-----------------------------------------------------------------------------
(***************************************************************************)
(* Properties.                                                              *)
(***************************************************************************)
Left == {"ended", "leaving", "call:exit", "after"}

\* A with block that ends without an exception has stopped its session, however
\* the loop ended (__exit__ calls stop() even when tick has set _stopped).
CleanExitStopped ==
    outcome = "clean" => phase = "stopped" /\ motion # "tracking"

\* The answer a stop receives is a stop's, never the late one of an earlier call
\* (call: a socket whose receive timed out must not be used again).
StopAnswersAreOwn ==
    user \in {"call:stop", "call:exit"} /\ reply # "none" => phase = "stopped"

\* tick() ends the loop only once the session is no longer tracking or its policy
\* has died, also when the first cycles of its motion read false ("Returns ...
\* None once the tracker is no longer active").  A session whose policy died is
\* not active, though the arm goes on tracking: leaving the block stops that
\* motion (CleanExitStopped).  Violated when another motion ran before: what is
\* still queued of its snapshots is taken for the session's.
NoFalseEnd ==
    user = "ended" => motion \notin {"arming", "tracking"} \/ unattended

\* latest_state holds published snapshots only and never goes back to an older
\* one, whatever threads a stop and a restart of the stream leave running.
Feed == INSTANCE LatestValue WITH
    Reader <- {"latest_state"},
    newest <- published,
    held <- [r \in {"latest_state"} |-> IF latest = NoSnapshot THEN 0 ELSE latest.seq]

StreamKeepsLatest == Feed!Spec

\* What this client relies on is what RobotManager's sessions are shown to do: the
\* server in this module, whose requests may be lost, refused or answered too late,
\* implements the same lifecycle, down to the answer of a bounded stop.
Lifecycle == INSTANCE TrackerLifecycle WITH
    Session <- {"session"},
    phase <- [s \in {"session"} |-> phase],
    driving <- {s \in {"session"} : motion \in {"arming", "tracking"}}

ServerKeepsLifecycle == Lifecycle!Spec

\* Once the controller is done the loop ends, by a snapshot, by a probe or by an
\* exception, even when the last snapshot of the motion said it was in control.
LoopEnds ==
    (phase # "new" /\ motion \notin {"arming", "tracking"} /\ user = "body") ~> (user \in Left)

\* Violated.  docs/trackers.md: "Leaving the `with` block stops the tracker."
LeavingStops == (user = "leaving") ~> (motion \notin {"arming", "tracking"})

\* Violated.  tick: "`tick()` raises whatever the state stream raises": it does
\* not start by forgetting the error.
TickKeepsStreamError == [][TickBegins /\ error = "stored" => error' # "none"]_vars
=============================================================================
