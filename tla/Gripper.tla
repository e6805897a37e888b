------------------------------- MODULE Gripper -------------------------------
(***************************************************************************)
(* robotiq.py, server side: the RPC thread (main, serve_forever) and the    *)
(* state poller share one Modbus link under GripperManager's lock, until a  *)
(* KeyboardInterrupt takes the RPC thread to disconnect().  The gripper's   *)
(* state is told apart by its age only: `clock` counts its changes.         *)
(***************************************************************************)
EXTENDS GripperUnits

CONSTANTS
    Widths,        \* the widths clients ask for
    MaxClock,      \* bound: changes of the gripper's state
    NoGoal, Free,
    LinkMayFail    \* may a Modbus transaction raise?

ASSUME GripperAssumption == /\ Widths \subseteq Int
                            /\ MaxClock \in Nat
                            /\ NoGoal \notin Position
                            /\ Free \notin {"rpc", "poller"}
                            /\ LinkMayFail \in BOOLEAN

VARIABLES
    rpcAt,     \* where the RPC thread is
    pollerAt,  \* where the poller is
    lock,      \* _lock's holder
    pollStop,  \* _poll_stop
    job,       \* what the RPC thread executes: publishes, or does not
    asked,     \* history: the width the goal was asked as
    goal,      \* the position the gripper was last sent to
    clock,     \* changes of the gripper's state so far
    read,      \* [thread |-> the clock its last read saw]
    sent,      \* the clock the last broadcast carried
    linkOpen   \* is the Modbus link open?

vars == <<rpcAt, pollerAt, lock, pollStop, job, asked, goal, clock, read, sent, linkOpen>>

\* Between two locks: commanding, reading and sending hold it.
RpcPlace == {"idle", "locking", "commanding", "reading", "sending",
             "stopping", "joining", "unlinking", "closing", "down"}
PollerPlace == {"none", "waiting", "trying", "reading", "sending", "dead"}

\* Every variable has its type.
TypeOK ==
    /\ rpcAt \in RpcPlace /\ pollerAt \in PollerPlace
    /\ lock \in {Free, "rpc", "poller"}
    /\ {pollStop, linkOpen} \subseteq BOOLEAN
    /\ job \in {"publishes", "quiet"}
    /\ goal \in Position \cup {NoGoal}
    /\ asked \in Widths \cup {NoGoal}
    /\ clock \in 0..MaxClock
    /\ read \in [{"rpc", "poller"} -> 0..MaxClock]
    /\ sent \in 0..MaxClock

\* main: the poller is started unless --no-pub or --publish-hz 0.
Init ==
    /\ rpcAt = "idle" /\ lock = Free
    /\ pollerAt \in {"none", "waiting"}
    /\ pollStop = FALSE /\ linkOpen = TRUE
    /\ job = "quiet" /\ asked = NoGoal /\ goal = NoGoal
    /\ clock = 0 /\ read = [t \in {"rpc", "poller"} |-> 0] /\ sent = 0

\* The gripper moves on a command, on its own, or under a hand.
StateChanges ==
    /\ clock < MaxClock
    /\ clock' = clock + 1
    /\ UNCHANGED <<rpcAt, pollerAt, lock, pollStop, job, asked, goal, read, sent, linkOpen>>

-----------------------------------------------------------------------------
(***************************************************************************)
(* _publish_state, in either thread: read, then send; a failure of the read *)
(* is swallowed.                                                            *)
(***************************************************************************)
ReadState(t) == read' = [read EXCEPT ![t] = clock]
SendState(t) == sent' = read[t]

-----------------------------------------------------------------------------
(***************************************************************************)
(* The RPC thread.                                                          *)
(***************************************************************************)
\* A request that uses the link; move_width goes through the client's units.
TakeRequest ==
    /\ rpcAt = "idle"
    /\ rpcAt' = "locking"
    /\ job' \in {"publishes", "quiet"}
    /\ \/ UNCHANGED <<asked, goal>>
       \/ /\ job' = "publishes"
          /\ asked' \in Widths
          /\ goal' = WidthToPosition(asked')
    /\ UNCHANGED <<pollerAt, lock, pollStop, clock, read, sent, linkOpen>>

\* with self._lock
LockForRequest ==
    /\ rpcAt = "locking" /\ lock = Free
    /\ rpcAt' = "commanding" /\ lock' = "rpc"
    /\ UNCHANGED <<pollerAt, pollStop, job, asked, goal, clock, read, sent, linkOpen>>

Unlock(t) == lock' = IF lock = t THEN Free ELSE lock

\* Mutation: acquire() and release() without `with`, not released by a raise.
CommandEndsHolding ==
    /\ rpcAt = "commanding"
    /\ \/ job = "publishes" /\ rpcAt' = "reading" /\ UNCHANGED lock
       \/ job = "quiet" /\ rpcAt' = "idle" /\ Unlock("rpc")
       \/ LinkMayFail /\ rpcAt' = "idle" /\ UNCHANGED lock
    /\ UNCHANGED <<pollerAt, pollStop, job, asked, goal, clock, read, sent, linkOpen>>

\* The transaction is over, or raised; a quiet one is answered.
CommandEnds ==
    /\ rpcAt = "commanding"
    /\ \/ job = "publishes" /\ rpcAt' = "reading" /\ UNCHANGED lock
       \/ /\ job = "quiet" \/ LinkMayFail
          /\ rpcAt' = "idle" /\ Unlock("rpc")
    /\ UNCHANGED <<pollerAt, pollStop, job, asked, goal, clock, read, sent, linkOpen>>

RpcReads ==
    /\ rpcAt = "reading"
    /\ \/ rpcAt' = "sending" /\ ReadState("rpc") /\ UNCHANGED lock
       \/ LinkMayFail /\ rpcAt' = "idle" /\ Unlock("rpc") /\ UNCHANGED read
    /\ UNCHANGED <<pollerAt, pollStop, job, asked, goal, clock, sent, linkOpen>>

RpcSends ==
    /\ rpcAt = "sending"
    /\ SendState("rpc")
    /\ rpcAt' = "idle" /\ Unlock("rpc")
    /\ UNCHANGED <<pollerAt, pollStop, job, asked, goal, clock, read, linkOpen>>

\* Mutation: the same, for an interrupt.
InterruptHolding ==
    /\ rpcAt \in {"idle", "locking", "commanding", "reading", "sending"}
    /\ rpcAt' = "stopping"
    /\ UNCHANGED <<pollerAt, lock, pollStop, job, asked, goal, clock, read, sent, linkOpen>>

\* KeyboardInterrupt, wherever the RPC thread is: `with` lets go of the lock.
Interrupt ==
    /\ rpcAt \in {"idle", "locking", "commanding", "reading", "sending"}
    /\ rpcAt' = "stopping" /\ Unlock("rpc")
    /\ UNCHANGED <<pollerAt, pollStop, job, asked, goal, clock, read, sent, linkOpen>>

-----------------------------------------------------------------------------
(***************************************************************************)
(* disconnect(): stop_polling, then the link's own close under the lock.    *)
(***************************************************************************)
\* Mutation: the poller is forgotten but not told.
StopPollingSilently ==
    /\ rpcAt = "stopping"
    /\ rpcAt' = "joining"
    /\ UNCHANGED <<pollerAt, lock, pollStop, job, asked, goal, clock, read, sent, linkOpen>>

StopPolling ==
    /\ rpcAt = "stopping"
    /\ pollStop' = TRUE
    /\ rpcAt' = "joining"
    /\ UNCHANGED <<pollerAt, lock, job, asked, goal, clock, read, sent, linkOpen>>

\* join(timeout=1.0): only a transaction takes the poller that long.
PollerJoined ==
    /\ rpcAt = "joining"
    /\ pollerAt \in {"none", "dead", "reading"}
    /\ rpcAt' = "unlinking"
    /\ UNCHANGED <<pollerAt, lock, pollStop, job, asked, goal, clock, read, sent, linkOpen>>

LockForDisconnect ==
    /\ rpcAt = "unlinking" /\ lock = Free
    /\ rpcAt' = "closing" /\ lock' = "rpc"
    /\ UNCHANGED <<pollerAt, pollStop, job, asked, goal, clock, read, sent, linkOpen>>

Disconnect ==
    /\ rpcAt = "closing"
    /\ linkOpen' = FALSE
    /\ rpcAt' = "down" /\ Unlock("rpc")
    /\ UNCHANGED <<pollerAt, pollStop, job, asked, goal, clock, read, sent>>

-----------------------------------------------------------------------------
(***************************************************************************)
(* The poller.                                                              *)
(***************************************************************************)
\* while not self._poll_stop.wait(interval_s)
PollerWakes ==
    /\ pollerAt = "waiting"
    /\ pollerAt' = IF pollStop THEN "dead" ELSE "trying"
    /\ UNCHANGED <<rpcAt, lock, pollStop, job, asked, goal, clock, read, sent, linkOpen>>

\* Mutation: the poller only looks at the lock, and does not take it.
PollerPeeks ==
    /\ pollerAt = "trying"
    /\ pollerAt' = IF lock = Free THEN "reading" ELSE "waiting"
    /\ UNCHANGED <<rpcAt, lock, pollStop, job, asked, goal, clock, read, sent, linkOpen>>

\* acquire(blocking=False): skip the tick rather than wait.
PollerTries ==
    /\ pollerAt = "trying"
    /\ IF lock = Free
       THEN pollerAt' = "reading" /\ lock' = "poller"
       ELSE pollerAt' = "waiting" /\ UNCHANGED lock
    /\ UNCHANGED <<rpcAt, pollStop, job, asked, goal, clock, read, sent, linkOpen>>

PollerReads ==
    /\ pollerAt = "reading"
    /\ \/ pollerAt' = "sending" /\ ReadState("poller") /\ UNCHANGED lock
       \/ LinkMayFail /\ pollerAt' = "waiting" /\ Unlock("poller") /\ UNCHANGED read
    /\ UNCHANGED <<rpcAt, pollStop, job, asked, goal, clock, sent, linkOpen>>

PollerSends ==
    /\ pollerAt = "sending"
    /\ SendState("poller")
    /\ pollerAt' = "waiting" /\ Unlock("poller")
    /\ UNCHANGED <<rpcAt, pollStop, job, asked, goal, clock, read, linkOpen>>

-----------------------------------------------------------------------------
Rpc == \/ TakeRequest \/ LockForRequest \/ CommandEnds \/ RpcReads \/ RpcSends
       \/ Interrupt \/ StopPolling \/ PollerJoined \/ LockForDisconnect \/ Disconnect

Poller == PollerWakes \/ PollerTries \/ PollerReads \/ PollerSends

Next == StateChanges \/ Rpc \/ Poller

Spec == Init /\ [][Next]_vars

\* Transactions end (the serial port has a timeout) and threads run; a blocked
\* acquire gets the lock, since the poller sleeps between its ticks.
Fairness ==
    /\ WF_vars(Poller)
    /\ SF_vars(LockForRequest) /\ SF_vars(LockForDisconnect)
    /\ WF_vars(CommandEnds \/ RpcReads \/ RpcSends)
    /\ WF_vars(StopPolling \/ PollerJoined \/ Disconnect)

FairSpec == Spec /\ Fairness

-----------------------------------------------------------------------------
(***************************************************************************)
(* The inductive invariant: who holds the lock, what the sent broadcast is  *)
(* no newer than, and how a stop takes the link from the poller.            *)
(***************************************************************************)
LockMatches ==
    /\ lock = "rpc" <=> rpcAt \in {"commanding", "reading", "sending", "closing"}
    /\ lock = "poller" <=> pollerAt \in {"reading", "sending"}

ReadingsFollow ==
    /\ sent <= clock
    /\ \A t \in {"rpc", "poller"} : read[t] <= clock
    /\ rpcAt = "sending" => sent <= read["rpc"]
    /\ pollerAt = "sending" => sent <= read["poller"]

StopTakesLink ==
    /\ rpcAt \in {"joining", "unlinking", "closing", "down"} => pollStop
    /\ rpcAt \in {"unlinking", "closing", "down"} => pollerAt # "trying"
    /\ rpcAt = "down" => pollerAt \notin {"reading", "sending"}
    /\ linkOpen <=> rpcAt # "down"

GripperInv == TypeOK /\ LockMatches /\ ReadingsFollow /\ StopTakesLink

-----------------------------------------------------------------------------
(***************************************************************************)
(* Properties.                                                              *)
(***************************************************************************)
InTransaction(t) == CASE t = "rpc" -> rpcAt \in {"commanding", "reading", "closing"}
                      [] t = "poller" -> pollerAt = "reading"

\* One transaction at a time on the Modbus link, and none once it is closed
\* (GripperManager: "Guards every Modbus transaction").
LinkIsGuarded ==
    /\ ~ (InTransaction("rpc") /\ InTransaction("poller"))
    /\ InTransaction("rpc") \/ InTransaction("poller") => linkOpen

\* A broadcast never carries an older state than the one before it, whichever
\* thread read it: a client's cache does not go back.
BroadcastsInOrder == [][sent' >= sent]_vars

\* The position a width is sent as is the nearest one to it, the ends and
\* widths beyond them included.
GoalIsNearest == asked # NoGoal => Nearest(goal, asked)

\* Every request is answered, or the server is stopping, although the poller
\* takes the same lock again and again.
RequestsAnswered == (rpcAt = "locking") ~> (rpcAt \in {"idle", "stopping"})

\* An interrupted server closes its link, even while a transaction of the
\* poller outlasts the join.
InterruptCloses == (rpcAt = "stopping") ~> ~ linkOpen
=============================================================================
