---------------------------- MODULE TrackerUpdates ----------------------------
(***************************************************************************)
(* What is set on a running tracker: references and gains.  A client pushes *)
(* references through a conflated socket to a listener thread of the server *)
(* or, when the server has no tracker port, sends them by RPC; it retunes   *)
(* gains by RPC; a policy retunes its own tracker from its thread.  The     *)
(* client is one program on one RobotProxy, whose trackers share the socket.*)
(*                                                                         *)
(* Of a session's life only what these calls see is here: registered,       *)
(* stopped, with a policy or not (RobotManager has the rest).  The          *)
(* references a policy itself returns are left out: they take the place of  *)
(* a client's, whole, as another reference does.                            *)
(***************************************************************************)
EXTENDS TrackerGains, Naturals, Sequences

CONSTANTS
    Session, Rpc,
    InitialGains,   \* the gains a tracker is started with
    AsksOf,         \* [Session -> the ways its kind of tracker is retuned in]
    MaxReferences,  \* bound: references the client sets
    OneGainWriter,  \* do clients leave the gains of a policy's tracker alone?
    NoRequest, NoReference, NoUpdate

ASSUME UpdatesAssumption ==
    /\ Rpc \notin Session
    /\ InitialGains \in Gains
    /\ AsksOf \in [Session -> SUBSET Ask]
    /\ MaxReferences \in Nat
    /\ OneGainWriter \in BOOLEAN

Thread    == Session \cup {Rpc}
Asks      == UNION {AsksOf[s] : s \in Session}
Reference == [session : Session, number : 1 .. MaxReferences]

ASSUME NothingAssumption ==
    NoReference \notin Reference /\ NoUpdate \notin [ask : Ask, read : Gains]

VARIABLES
    push,       \* has the client a push socket (setup's tracker port)?
    sent,       \* number of the last reference the client set
    sentTo,     \* the session it was for
    outbox,     \* the reference in the conflated PUSH socket
    wire,       \* references between the sockets
    inbox,      \* the reference in the conflated PULL socket
    request,    \* the client's RPC, until it is answered
    server,     \* serving, requested, closing, joining the listener, down
    rpc,        \* where serve_forever is: loop, recv, gains (in a handler)
    registry,   \* RobotManager._tracker_sessions
    started,    \* sessions that have been
    policied,   \* sessions whose policy thread runs
    listener,   \* where _TrackerUpdateListener's thread is
    msg,        \* the reference it is working on
    reference,  \* [Session -> number of the last reference set on its motion]
    gains,      \* [Session -> Gains], its motion's gains
    update      \* [Thread -> the ask and the gains read, between read and write]

clientVars   == <<push, sent, sentTo, request>>
channelVars  == <<outbox, wire, inbox>>
sessionVars  == <<registry, started, policied>>
listenerVars == <<listener, msg>>
serverVars   == <<server, rpc>>
vars == <<clientVars, channelVars, sessionVars, listenerVars, serverVars, reference, gains, update>>

-----------------------------------------------------------------------------
Request == [op : {"start"}, session : Session, policy : BOOLEAN]
             \cup [op : {"stop"}, session : Session]
             \cup [op : {"reference"}, session : Session, number : 1 .. MaxReferences]
             \cup [op : {"gains"}, session : Session, ask : Asks]

ASSUME NoRequestAssumption == NoRequest \notin Request

Update == [ask : Asks, read : Gains]

TypeOK ==
    /\ push \in BOOLEAN
    /\ sent \in 0 .. MaxReferences
    /\ sentTo \in Session \cup {Rpc}
    /\ request \in Request \cup {NoRequest}
    /\ outbox \in Reference \cup {NoReference}
    /\ wire \in Seq(Reference)
    /\ inbox \in Reference \cup {NoReference}
    /\ server \in {"serving", "requested", "closing", "joining", "down"}
    /\ rpc \in {"loop", "recv", "gains"}
    /\ registry \subseteq started /\ started \subseteq Session
    /\ policied \subseteq started
    /\ listener \in {"recv", "lookup", "apply", "dead"}
    /\ \/ msg \in Reference
       \/ msg = NoReference /\ listener \in {"recv", "dead"}
    /\ reference \in [Session -> 0 .. MaxReferences]
    /\ gains \in [Session -> Gains]
    /\ update \in [Thread -> Update \cup {NoUpdate}]

Init ==
    /\ push \in BOOLEAN
    /\ sent = 0
    /\ sentTo = Rpc
    /\ request = NoRequest
    /\ outbox = NoReference
    /\ wire = <<>>
    /\ inbox = NoReference
    /\ server = "serving"
    /\ rpc = "loop"
    /\ registry = {}
    /\ started = {}
    /\ policied = {}
    /\ listener = "recv"
    /\ msg = NoReference
    /\ reference = [s \in Session |-> 0]
    /\ gains = [s \in Session |-> InitialGains]
    /\ update = [t \in Thread |-> NoUpdate]

-----------------------------------------------------------------------------
(***************************************************************************)
(* The client, one call at a time.  It keeps its proxies after a stop.      *)
(***************************************************************************)
Call(r) == request = NoRequest /\ request' = r

\* A policy that never retunes is as good as none here.
CallStart(s, p) ==
    /\ s \notin started
    /\ p => AsksOf[s] # {}
    /\ Call([op |-> "start", session |-> s, policy |-> p])
    /\ UNCHANGED <<push, sent, sentTo, channelVars, sessionVars, listenerVars, serverVars, reference, gains, update>>

\* A second stop would be answered and change nothing.
CallStop(s) ==
    /\ s \in registry
    /\ Call([op |-> "stop", session |-> s])
    /\ UNCHANGED <<push, sent, sentTo, channelVars, sessionVars, listenerVars, serverVars, reference, gains, update>>

\* set_gains, set_cartesian_gains and set_nullspace_gains of the proxies.
CallSetGains(s, a) ==
    /\ s \in started
    /\ ~ NamesNothing(a)
    /\ OneGainWriter => s \notin policied
    /\ Call([op |-> "gains", session |-> s, ask |-> a])
    /\ UNCHANGED <<push, sent, sentTo, channelVars, sessionVars, listenerVars, serverVars, reference, gains, update>>

\* Mutation: either way will do.
SendReferenceEither(s, n) ==
    /\ push
    /\ \/ outbox' = [session |-> s, number |-> n] /\ UNCHANGED request
       \/ /\ Call([op |-> "reference", session |-> s, number |-> n])
          /\ UNCHANGED outbox

\* _send_reference: the socket if there is one, else RPC.
SendReference(s, n) ==
    IF push
    THEN outbox' = [session |-> s, number |-> n] /\ UNCHANGED request
    ELSE /\ Call([op |-> "reference", session |-> s, number |-> n])
         /\ UNCHANGED outbox

\* set_target, set_torque
SetTarget(s) ==
    /\ s \in started
    /\ request = NoRequest
    /\ sent < MaxReferences
    /\ sent' = sent + 1
    /\ sentTo' = s
    /\ SendReference(s, sent + 1)
    /\ UNCHANGED <<push, wire, inbox, sessionVars, listenerVars, serverVars, reference, gains, update>>

-----------------------------------------------------------------------------
(***************************************************************************)
(* The sockets.  Each end keeps only the newest message; TCP keeps order.   *)
(***************************************************************************)
Flush ==
    /\ outbox # NoReference
    /\ wire' = Append(wire, outbox)
    /\ outbox' = NoReference
    /\ UNCHANGED <<clientVars, inbox, sessionVars, listenerVars, serverVars, reference, gains, update>>

Deliver ==
    /\ wire # <<>>
    /\ inbox' = Head(wire)
    /\ wire' = Tail(wire)
    /\ UNCHANGED <<clientVars, outbox, sessionVars, listenerVars, serverVars, reference, gains, update>>

-----------------------------------------------------------------------------
(***************************************************************************)
(* _TrackerUpdateListener._run.  Finding the session and setting its        *)
(* reference are two steps: the RPC thread may deregister it in between.    *)
(***************************************************************************)
ListenerReceives ==
    /\ listener = "recv"
    /\ inbox # NoReference
    /\ msg' = inbox
    /\ inbox' = NoReference
    /\ listener' = "lookup"
    /\ UNCHANGED <<clientVars, outbox, wire, sessionVars, serverVars, reference, gains, update>>

\* Mutation: the KeyError of an unknown session leaves the loop.
ListenerLooksUpOrDies ==
    /\ listener = "lookup"
    /\ listener' = IF msg.session \in registry THEN "apply" ELSE "dead"
    /\ UNCHANGED <<clientVars, channelVars, sessionVars, msg, serverVars, reference, gains, update>>

\* Mutation: it keeps the sessions it has once found.
ListenerRemembers ==
    /\ listener = "lookup"
    /\ listener' = IF msg.session \in started THEN "apply" ELSE "recv"
    /\ UNCHANGED <<clientVars, channelVars, sessionVars, msg, serverVars, reference, gains, update>>

\* An unknown session is passed over.
ListenerLooksUp ==
    /\ listener = "lookup"
    /\ listener' = IF msg.session \in registry THEN "apply" ELSE "recv"
    /\ UNCHANGED <<clientVars, channelVars, sessionVars, msg, serverVars, reference, gains, update>>

ListenerApplies ==
    /\ listener = "apply"
    /\ reference' = [reference EXCEPT ![msg.session] = msg.number]
    /\ listener' = "recv"
    /\ UNCHANGED <<clientVars, channelVars, sessionVars, msg, serverVars, gains, update>>

\* `while not self._stop_event.is_set()`, every 200 ms at the latest; the event
\* stays set when the join has expired.
ListenerEnds ==
    /\ listener = "recv"
    /\ server \in {"joining", "down"}
    /\ listener' = "dead"
    /\ UNCHANGED <<clientVars, channelVars, sessionVars, msg, serverVars, reference, gains, update>>

ListenerStep == ListenerReceives \/ ListenerLooksUp \/ ListenerApplies \/ ListenerEnds

-----------------------------------------------------------------------------
(***************************************************************************)
(* Retuning, by the RPC thread for a client and by a policy's thread for    *)
(* its own tracker: the motion's gains are read, then set, with no lock.    *)
(***************************************************************************)
Retuned(t) == IF t = Rpc THEN request.session ELSE t

ReadGains(t, s, a) ==
    /\ update[t] = NoUpdate
    /\ update' = [update EXCEPT ![t] = [ask |-> a, read |-> gains[s]]]

\* Only the part asked for is set; it may have changed since it was read.
WriteGains(t) ==
    LET a == update[t].ask IN
    /\ update[t] # NoUpdate
    /\ gains' = [gains EXCEPT ![Retuned(t)][Part(a)] = Merged(a, update[t].read)]
    /\ update' = [update EXCEPT ![t] = NoUpdate]

\* The policy's handle, _JointTrackerHandle or _CartesianTrackerHandle.
PolicyReadsGains(s, a) ==
    /\ s \in policied
    /\ ~ NamesNothing(a)
    /\ ReadGains(s, s, a)
    /\ UNCHANGED <<clientVars, channelVars, sessionVars, listenerVars, serverVars, reference, gains>>

PolicyWritesGains(s) ==
    /\ WriteGains(s)
    /\ UNCHANGED <<clientVars, channelVars, sessionVars, listenerVars, serverVars, reference>>

\* The policy's thread ends, for whatever reason.
PolicyEnds(s) ==
    /\ s \in policied
    /\ update[s] = NoUpdate
    /\ policied' = policied \ {s}
    /\ UNCHANGED <<clientVars, channelVars, registry, started, listenerVars, serverVars, reference, gains, update>>

-----------------------------------------------------------------------------
(***************************************************************************)
(* The handlers on the RPC thread.  An unknown session is an error, which   *)
(* is an answer too.                                                        *)
(***************************************************************************)
\* `while not self._stop_event.is_set()`, then recv, which may time out.
AwaitRequest ==
    /\ server = "serving"
    /\ rpc = "loop"
    /\ rpc' = "recv"
    /\ UNCHANGED <<clientVars, channelVars, sessionVars, listenerVars, server, reference, gains, update>>

ReceiveTimesOut ==
    /\ rpc = "recv"
    /\ request = NoRequest
    /\ rpc' = "loop"
    /\ UNCHANGED <<clientVars, channelVars, sessionVars, listenerVars, server, reference, gains, update>>

Serving(op) == /\ rpc = "recv"
               /\ request # NoRequest
               /\ request.op = op

Answer == /\ request' = NoRequest
          /\ rpc' = "loop"
          /\ UNCHANGED <<push, sent, sentTo, server>>

ServeStart ==
    /\ Serving("start")
    /\ Answer
    /\ registry' = registry \cup {request.session}
    /\ started' = started \cup {request.session}
    /\ policied' = IF request.policy THEN policied \cup {request.session} ELSE policied
    /\ UNCHANGED <<channelVars, listenerVars, reference, gains, update>>

ServeStop ==
    /\ Serving("stop")
    /\ Answer
    /\ registry' = registry \ {request.session}
    /\ UNCHANGED <<channelVars, started, policied, listenerVars, reference, gains, update>>

ServeReference ==
    /\ Serving("reference")
    /\ Answer
    /\ reference' = IF request.session \in registry
                    THEN [reference EXCEPT ![request.session] = request.number] ELSE reference
    /\ UNCHANGED <<channelVars, sessionVars, listenerVars, gains, update>>

ServeReadsGains ==
    /\ Serving("gains")
    /\ request.session \in registry
    /\ ReadGains(Rpc, request.session, request.ask)
    /\ rpc' = "gains"
    /\ UNCHANGED <<clientVars, channelVars, sessionVars, listenerVars, server, reference, gains>>

ServeWritesGains ==
    /\ rpc = "gains"
    /\ WriteGains(Rpc)
    /\ Answer
    /\ UNCHANGED <<channelVars, sessionVars, listenerVars, reference>>

ServeUnknownSession ==
    /\ Serving("gains")
    /\ request.session \notin registry
    /\ Answer
    /\ UNCHANGED <<channelVars, sessionVars, listenerVars, reference, gains, update>>

-----------------------------------------------------------------------------
(***************************************************************************)
(* serve_forever's teardown: trackers, then the listener, then the sockets. *)
(* A request that is not taken by then stays without an answer.             *)
(***************************************************************************)
ServerTo(from, to) ==
    /\ server = from
    /\ server' = to
    /\ rpc = "loop" \/ from = "serving"
    /\ UNCHANGED <<rpc, clientVars, channelVars, started, policied, listenerVars, reference, gains, update>>

RequestShutdown == ServerTo("serving", "requested") /\ UNCHANGED registry

\* RobotManager.shutdown, one session after the other.
ShutdownStops(s) ==
    /\ ServerTo("requested", "requested")
    /\ s \in registry
    /\ registry' = registry \ {s}

TrackersStopped ==
    /\ registry = {}
    /\ ServerTo("requested", "closing")
    /\ UNCHANGED registry

StopListener == ServerTo("closing", "joining") /\ UNCHANGED registry

\* The join returns when the listener has ended or after 1 s, wherever it is
\* then; the sockets are closed either way.
CloseSockets == ServerTo("joining", "down") /\ UNCHANGED registry

Terminated == server = "down" /\ UNCHANGED vars

-----------------------------------------------------------------------------
ClientStep ==
    \E s \in Session :
        \/ \E p \in BOOLEAN : CallStart(s, p)
        \/ CallStop(s)
        \/ \E a \in AsksOf[s] : CallSetGains(s, a)
        \/ SetTarget(s)

RpcStep ==
    \/ AwaitRequest
    \/ ReceiveTimesOut
    \/ ServeStart
    \/ ServeStop
    \/ ServeReference
    \/ ServeReadsGains
    \/ ServeWritesGains
    \/ ServeUnknownSession
    \/ \E s \in Session : ShutdownStops(s)
    \/ TrackersStopped
    \/ StopListener
    \/ CloseSockets

PolicyStep(s) ==
    \/ \E a \in AsksOf[s] : PolicyReadsGains(s, a)
    \/ PolicyWritesGains(s)
    \/ PolicyEnds(s)

Next ==
    \/ ClientStep
    \/ Flush
    \/ Deliver
    \/ ListenerStep
    \/ RpcStep
    \/ RequestShutdown
    \/ \E s \in Session : PolicyStep(s)
    \/ Terminated

\* Sockets and the server's own threads go on; clients and policies owe nothing.
Fairness ==
    /\ WF_vars(Flush)
    /\ WF_vars(Deliver)
    /\ WF_vars(ListenerStep)
    /\ WF_vars(RpcStep)

Spec == Init /\ [][Next]_vars
FairSpec == Spec /\ Fairness

-----------------------------------------------------------------------------
(***************************************************************************)
(* Properties.                                                              *)
(***************************************************************************)
\* A tracker's reference is one the client has set, never replaced by an earlier one,
\* though two sockets and a listener thread lie in between (set_target: "a
\* slower update may be dropped in favour of a newer one").
Feed == INSTANCE LatestValue WITH Reader <- Session, newest <- sent, held <- reference

ReferencesKeepLatest == Feed!Spec

\* A registered tracker catches up with the last reference the client set, if
\* that was for it and until the server shuts down: conflation drops older
\* references only, and one for a session that is gone does not end the listener.
Behind(s) == /\ server = "serving" /\ s \in registry
             /\ sentTo = s /\ reference[s] # sent

LatestArrives == \A s \in Session : Behind(s) ~> ~ Behind(s)

\* Retuning sets what the caller names, critical damping unless one is named,
\* and keeps everything else as the motion has it (_resolve_cartesian_gains:
\* "only the named 3x3 stiffness blocks are overwritten, leaving anisotropy and
\* the unnamed block intact").  Not so when client and policy retune at once.
RetunesAsAsked ==
    [][\A t \in Thread : update[t] # NoUpdate /\ update'[t] = NoUpdate
         => Honours(update[t].ask, gains[Retuned(t)], gains'[Retuned(t)])]_vars

\* A session that is stopped, with no reference past its lookup.
Settled(s) == s \in started \ registry /\ ~ (listener = "apply" /\ msg.session = s)

\* A stopped tracker gets no more references, by socket or RPC, but the one the
\* listener had already found its session for: not from messages that arrive
\* late, and not from a listener that outlives its join and the closed sockets.
StoppedIsQuiet ==
    [][\A s \in Session : Settled(s) => reference'[s] = reference[s] /\ Settled(s)']_vars

\* Why RetunesAsAsked holds with one writer: what a thread has read is what the
\* motion still has.
ReadIsCurrent ==
    \A t \in Thread : update[t] # NoUpdate => update[t].read = gains[Retuned(t)]

\* The RPC thread's update is the request's, and its session is the client's to
\* retune; a policy thread that is updating is alive.
UpdateMatchesThread ==
    /\ update[Rpc] # NoUpdate <=> rpc = "gains"
    /\ update[Rpc] # NoUpdate =>
         /\ request # NoRequest /\ request.op = "gains"
         /\ request.ask = update[Rpc].ask
    /\ request # NoRequest /\ request.op = "gains" =>
         request.session \in started \ policied
    /\ request # NoRequest /\ request.op = "start" => request.session \notin started
    /\ \A s \in Session : update[s] # NoUpdate => s \in policied

\* Inductive, with one writer.
GainsInv == TypeOK /\ UpdateMatchesThread /\ ReadIsCurrent

\* Why ReferencesKeepLatest holds: from the motion back through the listener and
\* the sockets to the client, no reference is newer than the ones behind it.
OlderThanPushed(n) ==
    /\ \A i \in 1 .. Len(wire) : n <= wire[i].number
    /\ outbox # NoReference => n <= outbox.number

Busy == listener \in {"lookup", "apply"}

ChannelInOrder ==
    /\ \A i, j \in 1 .. Len(wire) : i <= j => wire[i].number <= wire[j].number
    /\ outbox # NoReference =>
         \A i \in 1 .. Len(wire) : wire[i].number <= outbox.number
    /\ inbox # NoReference => OlderThanPushed(inbox.number)

ListenerInOrder ==
    Busy => /\ OlderThanPushed(msg.number)
            /\ inbox # NoReference => msg.number <= inbox.number

AppliedInOrder ==
    \A s \in Session :
        /\ reference[s] <= sent
        /\ OlderThanPushed(reference[s])
        /\ inbox # NoReference => reference[s] <= inbox.number
        /\ Busy => reference[s] <= msg.number

\* Nothing on its way is newer than the last one set.
SentIsNewest ==
    /\ outbox # NoReference => outbox.number <= sent
    /\ \A i \in 1 .. Len(wire) : wire[i].number <= sent
    /\ inbox # NoReference => inbox.number <= sent
    /\ Busy => msg.number <= sent

\* A client has one way to send references; by RPC, one is on its way.
OneWay ==
    /\ ~ push => outbox = NoReference /\ wire = <<>> /\ inbox = NoReference /\ ~ Busy
    /\ request # NoRequest /\ request.op = "reference" => ~ push /\ request.number = sent

OrderInv == TypeOK /\ ChannelInOrder /\ ListenerInOrder /\ AppliedInOrder /\ SentIsNewest /\ OneWay
=============================================================================
