---------------------------- MODULE GripperClient ----------------------------
(***************************************************************************)
(* robotiq.py, client side, in front of Gripper: one program with           *)
(* `with RobotiqGripperProxy(...) as gripper:`, its REQ socket, and the     *)
(* GripperStateCache it may keep beside it.  Other clients make requests    *)
(* too: those of Gripper that are not this one's.  Only the newest state    *)
(* is told apart in a broadcast, by Gripper's clock.                        *)
(***************************************************************************)
EXTENDS Gripper, Sequences

CONSTANT MaxWire   \* bound: broadcasts a SUB socket holds, the rest is dropped

ASSUME ClientAssumption == MaxWire \in Nat \ {0}

VARIABLES
    request,  \* what became of the last request
    socket,   \* the REQ socket: ready, awaiting a response, closed
    user,     \* where the user's thread is
    broken,   \* has the with block's body raised?
    cacheAt,  \* the cache's thread
    closing,  \* the cache's _stop
    wire,     \* broadcasts on their way to the cache
    cached    \* the clock of its _payload, or Nothing

callVars == <<request, socket, user, broken>>
cacheVars == <<cacheAt, closing, wire, cached>>
allVars == <<vars, callVars, cacheVars>>

Nothing == -1

\* none: answered, or lost with the server.
RequestState == {"none", "command", "disconnect", "running", "ok", "error"}

ClientTypeOK ==
    /\ request \in RequestState
    /\ socket \in {"ready", "awaiting", "closed"}
    /\ user \in {"body", "calling", "leaving", "disconnecting", "clean", "raised"}
    /\ {broken, closing} \subseteq BOOLEAN
    /\ cacheAt \in {"none", "receiving", "ended"}
    /\ wire \in Seq(0..MaxClock) /\ Len(wire) <= MaxWire
    /\ cached \in {Nothing} \cup 0..MaxClock
    /\ user \in {"clean", "raised"} <=> socket = "closed"
    /\ user \in {"calling", "disconnecting"} => socket = "awaiting"
    /\ cached <= clock

ClientInit ==
    /\ Init
    /\ request = "none" /\ socket = "ready" /\ user = "body" /\ broken = FALSE
    /\ cacheAt = "none" /\ closing = FALSE /\ wire = <<>> /\ cached = Nothing

-----------------------------------------------------------------------------
(***************************************************************************)
(* The server's steps, with what they mean to this client.                  *)
(***************************************************************************)
\* The request the RPC thread takes is this client's, or another's.
ServerTakes ==
    /\ TakeRequest
    /\ \/ request = "command" /\ request' = "running"
       \/ UNCHANGED request
    /\ UNCHANGED <<socket, user, broken, cacheVars>>

\* gripper.disconnect: the handler does nothing, not even lock.
ServerAcknowledges ==
    /\ rpcAt = "idle"
    /\ request = "disconnect"
    /\ request' = "ok"
    /\ UNCHANGED <<vars, socket, user, broken, cacheVars>>

\* The answer of this client's request, if that is the one that ends: an error
\* when the command raised, which shows in what it did not go on to publish.
Answers(ok) ==
    /\ request' = IF request = "running" /\ rpcAt' = "idle"
                  THEN IF socket = "closed" THEN "none" ELSE IF ok THEN "ok" ELSE "error"
                  ELSE request
    /\ UNCHANGED <<socket, user, broken>>

\* PUB hands a broadcast to a subscriber that has room for it.
Broadcast(c) ==
    /\ wire' = IF cacheAt = "receiving" /\ Len(wire) < MaxWire
               THEN Append(wire, c) ELSE wire
    /\ UNCHANGED <<cacheAt, closing, cached>>

ServerWorks ==
    \/ LockForRequest /\ UNCHANGED <<callVars, cacheVars>>
    \/ /\ CommandEnds /\ UNCHANGED cacheVars
       /\ \/ job = "quiet" /\ Answers(TRUE)
          \/ LinkMayFail /\ Answers(FALSE)
          \/ rpcAt' = "reading" /\ UNCHANGED callVars
    \/ RpcReads /\ Answers(TRUE) /\ UNCHANGED cacheVars
    \/ RpcSends /\ Answers(TRUE) /\ Broadcast(read["rpc"])

\* An interrupted server answers no one.
ServerEnds ==
    \/ /\ Interrupt
       /\ request' = IF request = "running" THEN "none" ELSE request
       /\ UNCHANGED <<socket, user, broken, cacheVars>>
    \/ StopPolling /\ UNCHANGED <<callVars, cacheVars>>
    \/ PollerJoined /\ UNCHANGED <<callVars, cacheVars>>
    \/ LockForDisconnect /\ UNCHANGED <<callVars, cacheVars>>
    \/ Disconnect /\ UNCHANGED <<callVars, cacheVars>>

PollerPublishes == PollerSends /\ Broadcast(read["poller"]) /\ UNCHANGED callVars

PollerWorks ==
    \/ PollerWakes \/ PollerTries \/ PollerReads
    /\ UNCHANGED <<callVars, cacheVars>>

-----------------------------------------------------------------------------
(***************************************************************************)
(* _ZmqRpcClient.call, in the with statement of RobotiqGripperProxy.        *)
(***************************************************************************)
\* Mutation: disconnect has no `finally'.
RaisesOpen ==
    /\ IF user \in {"calling", "body"}
       THEN \/ user' = "body" /\ UNCHANGED broken
            \/ user' = "leaving" /\ broken' = TRUE
       ELSE user' = "raised" /\ UNCHANGED broken
    /\ UNCHANGED socket

\* What an exception does: the body may catch it; disconnect's `finally` closes
\* the socket.
Raises ==
    IF user \in {"calling", "body"}
    THEN /\ \/ user' = "body" /\ UNCHANGED broken
            \/ user' = "leaving" /\ broken' = TRUE
         /\ UNCHANGED socket
    ELSE /\ user' = "raised" /\ socket' = "closed"
         /\ UNCHANGED broken

\* A socket whose receive timed out raises from send.
Sends(what, place) ==
    /\ UNCHANGED <<vars, cacheVars>>
    /\ IF socket = "ready"
       THEN /\ request' = what /\ socket' = "awaiting" /\ user' = place
            /\ UNCHANGED broken
       ELSE Raises /\ UNCHANGED request

UserCalls == user = "body" /\ Sends("command", "calling")

UserLeaves ==
    /\ user = "body"
    /\ user' = "leaving"
    /\ UNCHANGED <<vars, request, socket, broken, cacheVars>>

\* Mutation: leaving does not mind a call that fails.
ExitSwallows ==
    /\ user = "leaving"
    /\ user' = "clean" /\ socket' = "closed"
    /\ UNCHANGED <<vars, request, broken, cacheVars>>

\* __exit__: disconnect().
ExitDisconnects == user = "leaving" /\ Sends("disconnect", "disconnecting")

\* RCVTIMEO, 5 s: the request stays where it is, and so does its response.
CallTimesOut ==
    /\ user \in {"calling", "disconnecting"}
    /\ Raises
    /\ UNCHANGED <<vars, request, cacheVars>>

CallReturns ==
    /\ user \in {"calling", "disconnecting"}
    /\ request \in {"ok", "error"}
    /\ request' = "none"
    /\ \/ /\ user = "calling" /\ socket' = "ready"
          /\ \/ request = "ok" /\ user' = "body" /\ UNCHANGED broken
             \/ request = "error" /\ user' = "body" /\ UNCHANGED broken
             \/ request = "error" /\ user' = "leaving" /\ broken' = TRUE
       \/ /\ user = "disconnecting" /\ socket' = "closed"
          /\ user' = IF broken THEN "raised" ELSE "clean"
          /\ UNCHANGED broken
    /\ UNCHANGED <<vars, cacheVars>>

Call == UserCalls \/ UserLeaves \/ ExitDisconnects \/ CallTimesOut \/ CallReturns

-----------------------------------------------------------------------------
(***************************************************************************)
(* GripperStateCache.                                                       *)
(***************************************************************************)
\* state_cache(): a subscriber hears what is sent from now on.
CacheStarts ==
    /\ cacheAt = "none"
    /\ cacheAt' = "receiving"
    /\ UNCHANGED <<vars, callVars, closing, wire, cached>>

\* while not self._stop.is_set()
LoopsOn == cacheAt' = IF closing THEN "ended" ELSE "receiving"

CacheReceives ==
    /\ cacheAt = "receiving"
    /\ wire # <<>>
    /\ cached' = Head(wire)
    /\ wire' = Tail(wire)
    /\ LoopsOn
    /\ UNCHANGED <<vars, callVars, closing>>

\* Mutation: a second without a broadcast ends the thread.
CacheGivesUp ==
    /\ cacheAt = "receiving"
    /\ wire = <<>>
    /\ cacheAt' = "ended"
    /\ UNCHANGED <<vars, callVars, closing, wire, cached>>

\* zmq.Again: the timeout is there to look at the event.
CacheTimesOut ==
    /\ cacheAt = "receiving"
    /\ wire = <<>>
    /\ LoopsOn
    /\ UNCHANGED <<vars, callVars, closing, wire, cached>>

\* close() sets the event; its join ends with the thread or after a second.
CacheCloses ==
    /\ cacheAt = "receiving"
    /\ closing' = TRUE
    /\ UNCHANGED <<vars, callVars, cacheAt, wire, cached>>

Cache == CacheStarts \/ CacheReceives \/ CacheTimesOut \/ CacheCloses

-----------------------------------------------------------------------------
Environment == StateChanges /\ UNCHANGED <<callVars, cacheVars>>

ClientNext ==
    \/ Environment
    \/ ServerTakes \/ ServerAcknowledges \/ ServerWorks \/ ServerEnds
    \/ PollerPublishes \/ PollerWorks
    \/ Call
    \/ Cache

\* Gripper's fairness; the client's threads run, and its receives time out.
\* Nothing makes a user call, leave, or close a cache.
ClientFairness ==
    /\ WF_allVars(PollerPublishes \/ PollerWorks)
    /\ SF_allVars(LockForRequest /\ UNCHANGED <<callVars, cacheVars>>)
    /\ SF_allVars(LockForDisconnect /\ UNCHANGED <<callVars, cacheVars>>)
    /\ WF_allVars(ServerWorks) /\ WF_allVars(ServerEnds /\ ~ Interrupt)
    /\ WF_allVars(CallReturns) /\ WF_allVars(CallTimesOut)
    /\ WF_allVars(CacheReceives) /\ WF_allVars(CacheTimesOut)

ClientSpec == ClientInit /\ [][ClientNext]_allVars /\ ClientFairness

-----------------------------------------------------------------------------
(***************************************************************************)
(* Properties.                                                              *)
(***************************************************************************)
\* A with block that ends without an exception has left no command behind that
\* moves the gripper later, not even one whose timeout its body has caught: the
\* socket that gave up on it makes disconnect raise too.
CleanExitIsQuiet == user = "clean" => request = "none"

\* latest() never goes back to an older state of the gripper, nor to one it was
\* never in, whichever thread read what it was sent (state_cache: "a background
\* cache of the latest state broadcast").
Feed == INSTANCE LatestValue WITH
    Reader <- {"latest"},
    newest <- clock + 1,
    held <- [r \in {"latest"} |-> cached + 1]

CacheKeepsLatest == Feed!Spec

\* As long as the poller keeps publishing, what the gripper has done is what
\* latest() returns in the end, although broadcasts are dropped and the poller
\* skips its ticks.
CacheCatchesUp ==
    []<><<PollerPublishes>>_allVars =>
        \A c \in 0..MaxClock :
            (cacheAt = "receiving" /\ clock >= c) ~> (cached >= c \/ closing)
=============================================================================
