# zero_franky: TLA+ models and proofs

zero_franky drives Franka robots over ZeroMQ: a server process next to the robot
owns `franky.Robot` objects and runs impedance trackers on them; clients talk to
it by RPC, push references on a conflated socket and listen to a state stream.
This directory models that system, checks it with TLC and proves what matters
most with TLAPS. Paths below are relative to `src/zero_franky/`.

## The system

| component | state | operations | talks to |
|---|---|---|---|
| `TrackerSession` (tracker_session.py) | motion, stop event, `_stop_enqueued`, policy thread, error | start, stop, status, policy loop, references, gains | the robot; two threads meet in it |
| `RobotManager` (zmq_server.py) | robots, session registry, final statuses | create, move, join, stop, start/stop tracker, status, setters, shutdown | sessions, robots, publisher |
| `ZmqRobotServer` (zmq_server.py) | REP socket, stop event | serve_forever, serve_once, shutdown | one request at a time into the manager |
| `_TrackerUpdateListener` (zmq_server.py) | conflated PULL socket | apply the latest reference | the manager, from a third thread |
| `ZmqRpcClient`, `_TrackerProxy`, `RobotProxy` (zmq_client.py) | REQ socket, `_stopped`, `_in_control_seen`, latest snapshot, stream thread | call, tick, stop, context exit, state stream | server by RPC, PUSH and SUB |
| `StatePublisher`, `StateSubscriber` (pubsub.py) | sockets | publish, recv | one way, may lose or delay |
| Robotiq gripper (robotiq.py) | Modbus link and lock, poller thread, cached state | commands, poll, start/stop polling, widths | its own RPC and PUB sockets |
| wire protocol (protocol.py, zmq_server_franky.py, types.py) | none | encode, decode, build motions | both sides |
| command line (cli.py, server_cli.py, setup.py) | main thread, gripper server's process | host the server, watch, tear down on a signal | server |

What makes it hard, and what `PROJECT.json` lists line by line under `hazards`:
the stop of a tracker may come from its own policy thread and from a client at
once, without a lock; whether a session is in control is asked of the robot,
which other sessions may have taken over; waits are bounded in some places
(the policy thread, shutdown) and unbounded in others; a stop can fail between
its steps; statuses, snapshots and references outlive what they describe.

What makes each component correct: a stopped tracker's motion is gone when the
stop is answered, and stays gone; a ramp replaces only its own session's motion
and is started once; a status tells the truth about its session; the server goes
down whatever its sessions do, and leaves every robot at rest; a client that
leaves its `with` block without an error has stopped its tracker; `tick` ends
when control does, and not before; a tracker's references never go back to an older one,
the last one set arrives, and none arrives after the stop; a motion is built next to
the robot as the program meant it; a signal ends the process, with the gripper's
process gone and the arm at rest or in a late ramp, unless the exit did not wait for
the teardown.

## Modules

`FrankyRobot` is franky's `Robot` as the repository uses it (external: franky is
not here). A robot executes one motion, a pair of its kind and the session that
enqueued it: `Idle`, `Waypoint` (position or velocity control), `Impedance` (a
torque motion that ends), `Track(s)` (never ends), `Orphan` (a tracking motion
with no session), `Ramp(s)` (a `TorqueStopMotion`, which ends by itself). `move`
replaces the motion at once, or raises when it would change the control interface
under a running motion; `stop` preempts; a preemption or a fault is stored for
the next `join_motion`. The kind and owner of a motion are what the code cannot
see and the properties are about.

`TrackerSession` extends it with sessions and their threads. `at[t]` is where
thread `t` is: a policy thread is named by its session, the server's RPC thread
is `Rpc`. `_enqueue_stop_motion` is three steps that either thread may be in:
`CheckEnqueued` (line 176), `CheckControl` (lines 183-185) and
`EnqueueRamp`/`EnqueueRaises` (line 190). Nothing separates reading
`is_in_control` from setting `_stop_enqueued` but a write no other thread can
tell from the read, so they are one step. User code (factory and steps) is a
location of its own; it ends by going on, stopping or raising. A step that stops by its
handle (`request_stop`) ramps too, but user code goes on after it: the thread is at `rest`
until the step returns, and then leaves its loop. `stop()` on the
RPC thread is `BeginStop`, the enqueue, `JoinReturns` or `JoinTimesOut`, and
`ReapPolicy` for the 1 s thread join.

`RobotManager` extends it with the registry, the status history, the serve loop
and the teardown, and defines `Init`, `Next` and `Spec` of the whole server. A
handler that cannot wait is one action between `recv` and the next look at the
stop event; `tracker.stop` and `robot.join_motion` walk the RPC thread through
`TrackerSession`'s steps, so the other threads interleave with them. Requests
that change nothing here (statuses, an unknown session's stop, a handler that
raises first) are `ServeNothing`. `answered` is a history variable: the sessions
deregistered, in the order of their stops, which is what the bounded status history is
compared with.

`TrackerLifecycle` is the abstract specification of a session: new, registered,
stopping, stopped; its motion may be lost at any time, never returns, and is gone
before the stop is answered. `RobotManager` implements it for every
session but those of `UnbuildableStops` (`KeepsLifecycle`), and so does the server that
`TrackerClient` talks to (`ServerKeepsLifecycle`): what a client is checked against is
what the server is shown to be.

`LatestValue` is the abstract specification of what the one-way channels are for: a
source numbers its values, readers may miss some and lag, but hold only what was there
and never go back. It has no sockets, threads or drops. Three parts implement it, each
with a mapping of its own: the stream's snapshots and `latest_state`
(`StreamKeepsLatest`), the gripper's states and its client's cache
(`CacheKeepsLatest`), and a client's references and the one each tracker has
(`ReferencesKeepLatest`).

`ServerProcess` extends `RobotManager` with the process around `serve_forever`. With
`run` the main thread is the RPC thread, and a signal is a `KeyboardInterrupt`
wherever that thread is: between requests, after any line of a handler
(`InterruptServing`), in a stop or a join, whose `finally`s run on the way out
(`InterruptCall`), or in the teardown (`InterruptTeardown`): `run` catches that one like
any other and returns 0, with the teardown unfinished. With `run_server`
the server is a daemon thread beside a main thread that polls it and the gripper
server's process, joins it for 3 s and terminates the other; a program that embeds the
server calls `shutdown()`. `serve_once` can also raise outside its own handler, which
ends the loop and tears down. When the main thread is gone every thread is. Two ways
out are no clean exit and are kept apart: `gaveUp`, when the exit did not wait for the
server's teardown (`run` was interrupted in it, or the 3 s of `run_server` have passed),
and `aborted`, by a signal in `run_server`'s own `finally`, which is an exception.

`StateStream` is the PUB/SUB channel and `RobotProxy`'s subscriber threads: each
is dead, subscribing, receiving or storing, with its own queue; they share the
stop event, the stored error and the latest snapshot. A snapshot is its place in
the publishing order and its `in_control`. PUB may drop for any subscriber. A
thread looks at the stop event in the step that ends its receive or its store,
because nothing it does in between is seen by anyone. `error` tells a stored
error from one that has also been raised.

`TrackerClient` extends it with one client program: `with start_..._tracker()`, a
body that ticks, calls, stops, waits for a state, stops the stream or raises, and
the exit. A REQ socket that has sent is `awaiting` until it receives, and refuses
to send meanwhile, so there is one request on its way, in the server, or answered
at a time. `tick` is three steps: the start of the stream, the check of its
error, and, after the pacing, the decision (`_still_in_control`), which may become
a probing call. The interval of 1 s is two flags that time sets, `fresh` (false)
and `probeDue`. The server is `RobotManager` seen through one session: its phase,
its motion, one handler at a time, and what the motion's callback publishes. It is
written here again rather than instanced, because the client needs the messages
that `RobotManager` folds into one action, and shown to keep the same lifecycle; a
preemption by another client's motion is left to `RobotManager`. With
`stop_on_policy_error=False` a step that raises ends the policy's thread and leaves its
motion tracking: the session is `unattended`, and its status says that it is not running,
since `running` asks for the thread too. A probe then ends the loop, and the exit stops
the motion. The model ends with the `with` statement.

`GripperUnits` has the conversions of widths, as integers, and positions, with
Python's rounding; `Gripper` extends it with the gripper server: the RPC thread
from request to lock, transaction, reading, broadcast and answer, the poller that
skips a tick when the lock is taken, and the interrupt that leads to
`disconnect`. What the gripper does is a clock that counts the changes of its
state, so that a broadcast is known by its age. `stop_polling`'s join gives up
only on a poller in a transaction, the one thing there that can take a second.

`GripperClient` extends it with one program, `with RobotiqGripperProxy()`: calls on a
REQ socket that time out and leave it unable to send, the `disconnect` on the way out
and its `finally`, and the `GripperStateCache` with its thread and its latest
payload. Requests of other clients stay `Gripper`'s. Payload and time of receipt are
read and written under `_lock`, so they are one value.

`MotionWire` is a motion's way to the robot: the constructors of types.py, the
encoders of protocol.py, the builders of zmq_server_franky.py, for all fifteen motion
types, their waypoints and the keyword arguments of the trackers. types.py mirrors
franky's constructors, so `Construct` is both; what a builder passes by position is a
table, and a value is whatever tells it from the others. The wire does not carry a
`JointState`'s velocity (protocol.py:306), the server drops the error clip of a joint
impedance motion (zmq_server_franky.py:335) and the damping of a Cartesian one (:118-143),
whose stiffness becomes two numbers, all silently; `ArrivesAsAsked` says the rest arrives,
and of a joint impedance motion's Cartesian gains the diagonals. A reference or target
type that is no enum member is refused while the program encodes.

`TrackerGains` is how gains are retuned, as operators: what a caller names (an
`Ask`), the payload the client or a policy's handle makes of it, the critical
damping sentinel on the wire, and what the session merges into the gains it read.
A stiffness matrix is its two 3x3 blocks and the rest. `Honours` is the
promise, stated of the gains before and after, without the payload.

`TrackerUpdates` extends it with the ways to a running motion: a client that sets
references (through the conflated PUSH and PULL sockets to the listener thread, or
by RPC where the server has no tracker port) and retunes by RPC; policies that
retune their own tracker from their thread; the serve loop and its teardown up to
the join of the listener, which gives up after 1 s: the sockets are closed then, and
the listener may go on with a message it already has after the server is down. A reference is the session it is for and its number in
the order the client set them. The listener finds the session in one step and sets
the reference in another; reading gains and writing them back are two steps too,
since no lock makes them one. A session is registered, or not, and a policy's
thread may outlive its session; `RobotManager` has the rest of its life.

`MCRobotManager`, `MCGripper`, `MCTrackerUpdates` and `MCMotionWire` hold what TLC needs;
The proofs are in `RobotManagerProofs`, `LifecycleProofs` and `OrderlyManagerProofs`
(each extends the one before), `ServerProcessProofs`, `TrackerClientProofs`,
`GripperProofs`, `TrackerUpdatesProofs` and `MotionWireProofs`.
Operators whose comment starts with "Mutation" are deliberate mistakes, used to
check that the properties notice them; no specification uses them.

## Constants that describe the environment

- `PolicyMayOutliveJoin`: can user code run longer than the 1 s thread join?
- `ExclusiveRobots`: do clients start nothing on a robot with a registered
  tracker? The code does not enforce it; the `with` idiom suggests it.
- `UnbuildableStops`: the sessions whose clients may send a stop motion that the
  server refuses to build. Such a stop loses its session; what the server promises
  of the others must hold beside it.
- `StopWaits`, `JoinWaits`: whether clients ask for bounded or unbounded joins.
- `History`: `FINISHED_STATUS_HISTORY`, 32 in the code.
- `MayTimeOut`, `Lossy`: may a call or a join outlast its timeout; may messages
  be lost and the server answer with errors? `EarlierMotion`: may the robot have
  executed, and streamed, another motion before the tracker's?
- `MaxInterrupts`: bound on the signals the process gets.
- `MaxWire`, `MaxClock`: bounds on the broadcasts a SUB socket holds and on the
  changes of the gripper's state.
- `Motions`: the constructor calls of `MotionWire`; `None`, `CRITICAL` as in Python.
- `Top`, `Full`, `Widths`: the gripper's scale (255 in the code), the open width
  in some unit, and the widths asked for; `LinkMayFail`: may Modbus raise?
- `InitialGains`, `AsksOf`: the gains a tracker starts with, and the ways each is
  retuned in; `MaxReferences`: bound on the references set.
- `OneGainWriter`: do clients leave the gains of a tracker with a policy alone?
  Nothing in the code says so. Without it `RetunesAsAsked` is violated: client and
  policy read the same gains, and the later write drops the other's block.

## Runs

| run | instance | shows |
|---|---|---|
| `manager_free` | 1 robot, 2 sessions, no discipline, wedged policies, all waits, unbuildable stops of one session | types; an answered stop has released the motion; the latest final statuses stay readable; the lifecycle is implemented |
| `manager_orderly` | 1 robot, 2 sessions, exclusive clients, prompt policies | ramps replace only their own motion; statuses tell the truth; the server goes down with robots at rest; every stop is answered, unbounded ones too |
| `process` | each host, 1 robot, 1 session, 2 signals, lost sessions, orphans, wedged policies, bounded waits | an exit that waited for the teardown leaves the arm at rest or in a late ramp; none leaves a gripper process; a signal ends the process; a requested shutdown completes |
| `client` | 1 program, 2 stream threads, 2 snapshots, losses, timeouts, errors | a clean exit has stopped the session; a stop takes no other call's answer; `tick` ends when the tracker or its policy does, and only then; `latest_state` is a latest value; its server keeps `RobotManager`'s lifecycle |
| `gripper` | 4 steps on a width of 16, widths -4 to 20 (a step beyond each end), 1 change of state, 1 broadcast in a socket, a link that fails, calls that time out | transactions exclude each other and stop with the link; broadcasts in order; requests answered; an interrupt closes the link; widths go to the nearest position; a clean exit leaves no command behind; the cache is a latest value and catches up |
| `updates` | 2 trackers on one socket, or RPC; one of them retuned; 2 references | references are latest values and the last one arrives; a stopped tracker gets none, though the listener may outlive its join; a retune sets what is named and keeps the rest |
| `codec` | every argument given and left out, each form of a target and a factor, up to 2 waypoints, 2 nullspace tasks | a motion is built as asked, but for what the wire drops; what is sent can be built; factors are sent as three numbers, critical damping as data |
| `bug_ramp_restart` | 1 session | the ramp is enqueued over itself when policy and client stop together |
| `bug_lost_session` | 1 session | a stop motion that fails to build leaves the arm tracking without a session |
| `bug_leaving` | nothing lost, calls may time out | after one late answer the context exit cannot stop the tracker |
| `bug_stream_error` | nothing lost or late | `tick` clears the stream's stored error before it looks |
| `bug_false_end` | an earlier motion on the stream | its queued snapshots end the new tracker's loop |

Bounds. One robot suffices where sessions compete for it: sessions on different
robots share only the RPC thread. Two sessions give every pair of a stopping and
a competing session, an old and a new one, a wedged thread and its successor.
`History` is 1, so that the second stop evicts the first. No other counter exists
there. In `client`, two threads are a stream's and its restart's (never both alive:
`OneThread`, proved), and two snapshots are a true one and what follows it. In `gripper`, four steps
of four units each have the kinds of width that matter: beyond either end, nearer to
one side, and half way, where Python rounds to even; one change of state gives an older
and a newer reading. Its program makes calls or keeps a cache, not both at once
(`Bound`): a cache sends nothing, and other clients' requests come at any time anyway.
In `process`, one session is enough, since `manager_free` has the pairs of them: what is
new is where a signal meets the one thread, and a second signal meets the teardown,
or `run_server`'s `finally`. In
`codec`, the three durations of a waypoint, the entries of a stiffness and the three
factors take different values, so that a swapped position or a wrong collapse shows.
In `updates`, two trackers put a reference for one in the way of the other's, and
two references are an older and a newer one; the retuned tracker is a joint tracker
with hybrid Cartesian gains, whose asks (unpin the damping, one block, the whole)
tell the rules of merging apart on values `old` and `new`. Postures and nullspace
gains are left to the theorem.

Fairness (`FairSpec`): each thread is scheduled, which the operating system does;
a ramp ends, since `TorqueStopMotion` has a maximum duration; user code returns,
only when `PolicyMayOutliveJoin` is false. Clients, faults and other motions owe
nothing. `StopIsAnswered` needs `ExclusiveRobots`: otherwise an unbounded stop
may wait for somebody else's motion, and the single RPC thread with it.

In `TrackerClient`, handlers, threads and clocks run, a receive returns or times
out, and the documented loop ticks again whatever its body does in between (strong
fairness of `TickBegins`, since the body's other calls disable it). Nobody has to
leave, publish or fault. In `Gripper`, transactions end; a blocked acquire
eventually gets the lock, a strong fairness that the poller's sleep between ticks
justifies; `GripperClient` adds that receives return or time out, and nothing makes a
user call, leave or close. `ServerProcess` adds the main thread to `RobotManager`'s.
In `TrackerUpdates`, sockets transmit and the server's own threads run; the client need not call and a policy need not end.

## Findings

- The `_stop_enqueued` check is not atomic with its update, so the ramp can be
  restarted (`bug_ramp_restart`), which the comment there says it must not be.
- A stop motion that cannot be built loses the session, and the context exit does
  not stop the tracker (`bug_lost_session`).
- A call that timed out leaves its REQ socket unusable, so the exit's stop is never
  sent and its failure is swallowed (`bug_leaving`).
- `tick` restarts a dead stream, which clears the stored error it promises to raise
  (`bug_stream_error`).
- `tick` takes an earlier motion's snapshots for its own (`bug_false_end`).

Seen while modelling and kept out of the runs: with a policy that outlives the 1 s
thread join and a bounded stop, `FinishedNotRunning` is violated, because
`_remember_finished` freezes a status taken while the ramp still runs (the comment
at zmq_server.py:191 says `is_running` answers False after a stop); set
`PolicyMayOutliveJoin = TRUE` in `manager_orderly` to see it. `running` and
`_in_control` are about the robot, while their docstrings say the session: without
`ExclusiveRobots`, `RunningMeansOwnMotion` is violated by a preempted session. A lost
session's policy thread may go on after its server is down, so neither
`RampsOnlyOwnMotion` nor `DownMeansStill` holds with `UnbuildableStops`.
The wire drops some of what the constructors take (see `MotionWire`) without a word,
though `JointState`'s docstring has "optional velocities" (types.py:379). `run_server`
joins the server for 3 s, while its teardown may take 6 s for each tracker;
`ExitMeansStill` excepts that exit, since the daemon thread is then cut off in the middle.
It also excepts the exit of `run` on a second signal in the teardown: "server stopped" is
printed and 0 returned (server_cli.py:74-79) with sessions or robots left as they were,
while the docstring says "active tracker sessions/robots are stopped and sockets closed
before exit". Without `~ gaveUp`, `process` shows both.

## Proofs

Every theorem holds for all values of the constants that the named ASSUMEs allow; the
hypotheses some of them add are given with them. The inductive invariants of the server,
its process, the gripper's server, the tracker's client and its updates were checked with
TLC on the instance of their run before they were proved.

### The server

`RobotManagerProofs`:

- `TypeCorrect`: `Spec => []TypeOK`. Types alone are not inductive: the RPC
  thread's call must name a started session while it is in a stop, and a thread
  inside `_enqueue_stop_motion` must have a robot. `TypeInv` adds
  `CallMatchesThread` and `OnlyStartedAct`.
- `StoppedIsReleased`: `Spec => []DeregisteredMeansReleased`, whatever other sessions
  lose with unbuildable stops. The difficulty is that `_stop_enqueued` is set before
  the ramp is: a stop that reads it skips to a join that may time out while the
  motion is still the tracking one. `ReleaseInv` says who is then about to
  replace it: `ClaimedStopIsEnqueued` (some thread is at its `move`),
  `JoinedStopIsReleased` (past the enqueue it can only be the policy thread, and
  joining that thread ends it; a thread that outlives the join is in user code,
  so not at its `move`).

`LifecycleProofs`, which sorts the steps of `Next` into the few things they can do to
a session (`Bystands`, `Deregisters` and the like):

- `LifecycleKept`: `Spec => KeepsLifecycle`, the refinement of `TrackerLifecycle`. A
  step that takes a robot from a session's motion is a `LoseMotion`, the one that puts the
  session into the history an `AnswerStop`, whose guard is what `ReleaseInv` gives.
  `LifecycleReleases` says what keeping it is good for: a session whose stop was answered
  never drives again.
- `StatusKept`: `Spec => []RecentStatusReadable`. `HistoryIsRecent` is inductive: the
  history is the end of `answered`, as long as there is room for, in the same order, so
  what an append drops is the oldest.

`OrderlyManagerProofs`, where policies return within their join
(`~PolicyMayOutliveJoin`), and in all but the first no stop motion is lost
(`UnbuildableStops = {}`):

- `StatusSaysStopped`: `FinishedNotRunning`, with any clients. What a remembered status
  says is settled one step earlier: the session's stop event is set (`StoppingIsAsked`)
  and its thread is over (`AnsweredIsDone`) when the stop is about to be answered.
- `DownIsStill`: `DownMeansStill`, with any clients. `GoneIsDone` (the threads of
  sessions no longer registered are over), `TeardownInOrder` (no robot is halted before the
  registry is empty) and `HaltedStill`: nobody is left who could enqueue a ramp behind
  `stop()`.
- `RampsReplaceOwn`, `RunningIsOwn`: `RampsOnlyOwnMotion` and `RunningMeansOwnMotion`,
  with `ExclusiveRobots` as well. A live session (registered, or in its stop) shares its
  robot with no other (`OneTrackerPerRobot`), and the robot executes that session's
  motion or none (`LiveMeansOwn`).

`ServerProcessProofs`, with no assumption on clients or policies and for any number of
signals: `ProcessTyped`, `GripperNotLeft`, and `ExitIsStill`
(`ProcessSpec => []ExitMeansStill`, of the exits that waited for the teardown). An
exception may leave the RPC thread anywhere, so `TypeInv` is proved again over the steps
of the process. `ExitInv` adds the order of the teardown, that a halted robot can
execute nothing but a ramp (`HaltedRamps`: a policy thread that is left can enqueue
nothing else), and that the main thread gets to its end only when the server is down or
the exit gave up on it (`ReturnsWhenDown`).

### The clients

`TrackerClientProofs`:

- `LatestOnlyAdvances`: `Spec => StreamKeepsLatest`. A `Publish` maps to `Renew`, a
  `Store` to `Catch`, every other step to a stutter. `StreamInv`: at most one thread is
  not dead, since a new one starts only over a dead one, and what its queue holds is in
  the order of publishing, newer than what was stored last and no newer than what was
  published. `FeedHolds`: whoever implements `LatestValue` holds only what was there.
- `ServerLifecycle`: `Spec => ServerKeepsLifecycle`. `SessionSteps` sorts the steps into
  those that leave the session's phase alone and can only lose its motion, its start, its
  stop and the stop's answer; `CallInv` has what the answer needs, that a session being
  stopped is no longer tracking.
- `CleanExitHasStopped`, `StopAnswerIsOwn`: `CallInv` says that one request at most is
  on its way, in the server, or answered (`OneRequest`), that it is the one the program
  waits for (`OwnRequest`), how far the session is by the handler that runs
  (`PhaseMatches`), and what an answer to a stop vouches for (`AnswerHolds`). A socket
  that has timed out refuses to send, so a clean exit has had its own answer.
- `ClientTyped`: `Spec => []TypeOK`.
- `EndIsTrue`: `NoFalseEnd`, assuming `~EarlierMotion`; `bug_false_end` shows what
  happens without. A session whose policy has died is excepted, because its status
  ends the loop. `TurnsTrueOnce`: until the controller ends, the queues
  are false up to a point and true from it on, and the loop has seen a true only if the
  latest snapshot still is one. `StoppedIsOver`: outside a stop, `_stopped` says that
  the session's motion is gone, or its policy dead.

`GripperProofs`:

- `NearestPosition`, `PositionRoundTrip`: the conversions give a position the
  gripper has, the nearest to the clamped width, and reading a position back and
  sending it again does not drift. Both rest on `RoundIsNearest` (no integer is
  nearer to n / d than `Round(n, d)`).
- `GripperTyped`, `LinkGuarded`, `BroadcastsOrdered`, `GoalNearest`. The inductive
  invariant `GripperInv` adds who holds the lock (`LockMatches`), that a reading
  about to be sent is no older than what was sent last (`ReadingsFollow`, true
  because reading and sending are under one lock), and how a stop takes the link
  from the poller (`StopTakesLink`): after the join, even one that gave up, the
  poller may be finishing a transaction but cannot begin one.
- `ClientImplementsGripper`: `ClientSpec => Spec`, so all of these hold with a program
  and a cache in front of the server, which is what the run `gripper` checks.
- `CacheOnlyAdvances`: `ClientSpec => CacheKeepsLatest`. `WireFollows` carries the order
  of readings through the SUB socket: what is in it is in the order of its readings, none
  older than what the cache holds nor newer than what was sent last; `ReadingsFollow`
  says the next broadcast is no older either.
- `ClientTyped`, `CleanExitQuiet`: the composition's types, with the broadcasts in the
  socket no younger than the gripper's clock, and `CleanExitIsQuiet`: only an answered
  `disconnect` leads out of the block without an exception.

### What passes between them

`TrackerUpdatesProofs`, for every set of sessions, gain values and asks, and any number
of references:

- `MergeHonours`: an ask merged into the gains the motion has is honoured, by cases
  on the ask; `DampingCrosses` is the step over the wire.
- `UpdatesTyped`: in particular no sentinel ever reaches a motion's gains.
- `RetuningIsExact`: `Spec => RetunesAsAsked`, assuming `OneGainWriter`. The
  invariant `GainsInv` says that what a thread has read is what the motion still has
  (`ReadIsCurrent`), because a session with a policy is its policy's to retune and
  any other is the RPC thread's (`UpdateMatchesThread`); `MergeHonours` does the rest.
- `ReferencesOrdered`: `Spec => ReferencesKeepLatest`, a `Catch` where the listener or
  the RPC thread sets a reference and a `Renew` where the client does. `InOrder` follows the numbers
  from the motions back to the client: nothing in the listener is newer than what is
  in the PULL socket, the wire, the PUSH socket, or was set last, and a client has
  one of the two ways. Conflation only removes elements from that order.
- `StoppedGetsNothing`: `Spec => StoppedIsQuiet`. A session is registered once
  (`StartsOnce`, kept by `StepKeepsStartsOnce`), and the listener looks it up in the
  registry, so that at most the one reference it had looked up is still to be set.

`MotionWireProofs`, for every set of calls a program can make: any values of the
arguments, any number of waypoints.

- `ArrivesUnchanged`: `Spec => []ArrivesAsAsked`. A builder passes what the constructor
  takes, in its order (`PassedInOrder`), so each argument is bound to its own name
  (`BoundByName`); one field survives being made, encoded, built and made again with its
  meaning (`FieldArrives`; `FactorArrives` is the case with the broadcast and its
  collapse); `FieldsArrive` and `TrajectoryArrives` lift that to waypoints and motions.
  The impedance motions have lemmas of their own (`StiffnessArrives` and others).
- `RefusedWhereMade`: `Spec => []RefusedInTheProgram`. `TrajectoryBuildable` and its
  like: every key a builder reads, an encoder writes.
- `SentIsPlain`: `Spec => []TypeOK`. `FactorIsThree` is the broadcast of a factor that was
  one number or left out, `TrajectoryIsThree` lifts it to motions with their waypoints.

All three rest on `OnItsWay`: a call on its way is one the program could encode, carries
the encoding of just that object, and nothing is on the wire otherwise.

`MotionsAssumption` says what a call is (`IsCall`): a constructor's arguments by name, a
factor that is left out, a number or three; a franky object's attributes; no factor,
waypoints, reference or target type among a tracker's arguments. TLC evaluates it for every call
of `codec`. `CriticalAssumption`: franky's object is not its wire spelling.

### Only model-checked

Liveness, which under fairness is out of the prover's reach: `StopIsAnswered`,
`LoopEnds`, `RequestsAnswered`, `InterruptCloses`, `CacheCatchesUp`, `LatestArrives`,
`SignalEndsProcess`, `ShutdownCompletes`. Every invariant and every safety
property of a passing run is a theorem, some under hypotheses on clients and policies
that the run makes too.

## Not modelled

A franky without `TorqueStopMotion` (abrupt stop); recovery from errors, which
changes no motion; a synchronous `robot.move` on the server, which the client
never sends; a custom stop motion of the waypoint kind; `Robot.stop` raising. See the components in `PROJECT.json` for the rest.

The client's pacing (`dt`, `_t_next`) and the content of snapshots and references;
references that a policy's step itself returns, also after its `request_stop` (each
replaces the client's, whole) and `last_reference`; a message lost with its connection, or one that does not unpack,
which ends the listener (the client packs every message itself); a client that catches a failed stop inside its block and goes on; two
threads of one client on one proxy, which its sockets do not allow; a second interrupt
while the gripper's `disconnect` runs. The elbow and the velocity of franky's own
`RobotPose` and `CartesianState`, which a target may be instead of a pose.

What a state profile selects and how a state value is spelled
(`normalize_state_fields`, `encode_callback_state`): a field-by-field copy of what the
robot reports. `Affine`'s arithmetic, which is over reals. Argument parsing and the
module-level configuration of setup.py. The two kinds of example policies only hold or
pass.

## Plan

1. References returned by a policy beside a client's, and `last_reference` in the
   stream, in `TrackerUpdates`; retuning by client and policy at once as a finding.
2. `ServerProcess` as a refinement of what an operator of the robot is promised: arm at
   rest, or a process that says it gave up.
3. What a status says where clients are not exclusive: the weakest condition on other
   clients under which `RunningMeansOwnMotion` holds.
