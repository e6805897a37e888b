------------------------- MODULE TrackerUpdatesProofs -------------------------
(***************************************************************************)
(* Proofs about TrackerGains and TrackerUpdates.                            *)
(***************************************************************************)
EXTENDS TrackerUpdates, TLAPS

-----------------------------------------------------------------------------
(***************************************************************************)
(* Retuning.                                                                *)
(***************************************************************************)
\* A damping that crossed the wire is one a motion can hold, pinned exactly if
\* the caller gave one.
LEMMA DampingCrosses ==
    ASSUME NEW d \in Optional \cup {CRITICAL}
    PROVE  /\ DecodeDamping(EncodeDamping(d)) \in Optional
           /\ PinnedIfNamed(d, DecodeDamping(EncodeDamping(d)))
BY GainsAssumption DEF DecodeDamping, EncodeDamping, PinnedIfNamed, Optional

\* The gains of a motion on which an ask read `read' and then set its part.
Set(a, g, read) == [g EXCEPT ![Part(a)] = Merged(a, read)]

\* What a setter is given is of its part's type.
LEMMA MergedIsTyped ==
    ASSUME NEW a \in Ask, NEW g \in Gains, NEW read \in Gains
    PROVE  Set(a, g, read) \in Gains
<1>1. CASE a \in JointAsk
  <2>1. ResolveJoint(JointPayload(a), read.joint) \in [stiffness : Value, damping : Optional]
    BY <1>1, DampingCrosses, GainsAssumption
       DEF JointAsk, ResolveJoint, JointPayload, Gains, Optional
  <2>2. QED
    BY <1>1, <2>1 DEF JointAsk, Set, Part, Merged, Gains
<1>2. CASE a \in BlockAsk
  <2>1. OverwriteBlocks(CartesianPayload(a), read.cartesian.stiffness) \in Stiffness
    BY <1>2, GainsAssumption
       DEF BlockAsk, CartesianPayload, OverwriteBlocks, Gains, Stiffness, Optional
  <2>2. ResolveCartesian(CartesianPayload(a), read.cartesian)
          \in [stiffness : Stiffness, damping : Optional]
    BY <1>2, <2>1, DampingCrosses DEF BlockAsk, CartesianPayload, ResolveCartesian
  <2>3. QED
    BY <1>2, <2>2 DEF BlockAsk, Set, Part, Merged, Gains
<1>3. CASE a \in WholeAsk
  <2>1. ResolveCartesian(CartesianPayload(a), read.cartesian)
          = [stiffness |-> a.stiffness, damping |-> a.damping]
    BY <1>3, GainsAssumption
       DEF WholeAsk, CartesianPayload, ResolveCartesian, DecodeDamping, Optional
  <2>2. QED
    BY <1>3, <2>1 DEF WholeAsk, Set, Part, Merged, Gains
<1>4. CASE a \in PostureAsk
  BY <1>4 DEF PostureAsk, Set, Part, Merged, Gains
<1>5. CASE a \in NullspaceAsk
  BY <1>5 DEF NullspaceAsk, Set, Part, Merged, Gains
<1>6. QED
  BY <1>1, <1>2, <1>3, <1>4, <1>5 DEF Ask

\* From the caller through the payload, the wire and the merge to the motion: an
\* ask that is merged into the gains the motion has is honoured.
THEOREM MergeHonours ==
    ASSUME NEW a \in Ask, NEW g \in Gains
    PROVE  Honours(a, g, Set(a, g, g))
<1>1. CASE a \in JointAsk
  BY <1>1, DampingCrosses, GainsAssumption
     DEF JointAsk, Honours, SetIfNamed, Set, Part, Merged, ResolveJoint, JointPayload, Gains
<1>2. CASE a \in BlockAsk
  <2>1. Set(a, g, g).cartesian
          = [stiffness |-> OverwriteBlocks(CartesianPayload(a), g.cartesian.stiffness),
             damping   |-> DecodeDamping(EncodeDamping(a.damping))]
    BY <1>2 DEF BlockAsk, Set, Part, Merged, ResolveCartesian, CartesianPayload, Gains
  <2>2. /\ Set(a, g, g).joint = g.joint
        /\ Set(a, g, g).nullspace = g.nullspace
    BY <1>2 DEF BlockAsk, Set, Part, Gains
  <2>3. PinnedIfNamed(a.damping, Set(a, g, g).cartesian.damping)
    BY <1>2, <2>1, DampingCrosses DEF BlockAsk
  <2> DEFINE k == g.cartesian.stiffness
             new == OverwriteBlocks(CartesianPayload(a), k)
  <2>4. k \in Stiffness
    BY DEF Gains
  <2>5. /\ SetIfNamed(a.translational, k.translational, new.translational)
        /\ SetIfNamed(a.rotational, k.rotational, new.rotational)
        /\ new.coupling = k.coupling
    BY <1>2, <2>4 DEF BlockAsk, SetIfNamed, OverwriteBlocks, CartesianPayload, Stiffness
  <2>6. Set(a, g, g).cartesian.stiffness = new
    BY <2>1
  <2>7. \A block \in {"translational", "rotational"} :
          SetIfNamed(a[block], k[block], Set(a, g, g).cartesian.stiffness[block])
    BY <2>5, <2>6
  <2>8. QED
    BY <1>2, <2>2, <2>3, <2>5, <2>6, <2>7 DEF BlockAsk, Honours, Part
<1>3. CASE a \in WholeAsk
  <2>1. ResolveCartesian(CartesianPayload(a), g.cartesian)
          = [stiffness |-> a.stiffness, damping |-> a.damping]
    BY <1>3, GainsAssumption
       DEF WholeAsk, CartesianPayload, ResolveCartesian, DecodeDamping, Optional
  <2>2. QED
    BY <1>3, <2>1 DEF WholeAsk, Honours, Set, Part, Merged, Gains
<1>4. CASE a \in PostureAsk
  BY <1>4 DEF PostureAsk, Honours, Set, Part, Merged, Gains
<1>5. CASE a \in NullspaceAsk
  BY <1>5 DEF NullspaceAsk, Honours, Set, Part, Merged, Gains
<1>6. QED
  BY <1>1, <1>2, <1>3, <1>4, <1>5 DEF Ask

-----------------------------------------------------------------------------
(***************************************************************************)
(* The state machine.                                                       *)
(***************************************************************************)
LEMMA InitIsTyped == Init => TypeOK
BY UpdatesAssumption DEF Init, TypeOK

LEMMA AsksAreAsks == Asks \subseteq Ask
BY UpdatesAssumption DEF Asks

LEMMA UpdateIsFlat ==
    /\ NoUpdate \notin Update
    /\ Update \subseteq [ask : Ask, read : Gains]
BY NothingAssumption, AsksAreAsks DEF Update

\* The steps that leave gains and updates alone.
LEMMA ClientKeepsTypes == TypeOK /\ ClientStep => TypeOK'
<1> SUFFICES ASSUME TypeOK, NEW s \in Session,
                    \/ \E p \in BOOLEAN : CallStart(s, p)
                    \/ CallStop(s)
                    \/ \E a \in AsksOf[s] : CallSetGains(s, a)
                    \/ SetTarget(s)
             PROVE  TypeOK'
  BY DEF ClientStep
<1>1. ASSUME NEW p \in BOOLEAN, CallStart(s, p) PROVE TypeOK'
  BY <1>1 DEF TypeOK, CallStart, Call, Request, channelVars, sessionVars, listenerVars, serverVars
<1>2. CASE CallStop(s)
  BY <1>2 DEF TypeOK, CallStop, Call, Request, channelVars, sessionVars, listenerVars, serverVars
<1>3. ASSUME NEW a \in AsksOf[s], CallSetGains(s, a) PROVE TypeOK'
  <2>1. [op |-> "gains", session |-> s, ask |-> a] \in Request
    BY UpdatesAssumption DEF Request, Asks
  <2>2. QED
    BY <1>3, <2>1 DEF TypeOK, CallSetGains, Call, channelVars, sessionVars, listenerVars, serverVars
<1>4. CASE SetTarget(s)
  <2>1. sent + 1 \in 1 .. MaxReferences
    BY <1>4, UpdatesAssumption DEF SetTarget, TypeOK
  <2>2. /\ outbox' \in Reference \cup {NoReference}
        /\ request' \in Request \cup {NoRequest}
    BY <1>4, <2>1 DEF SetTarget, SendReference, Call, TypeOK, Reference, Request
  <2>3. QED
    BY <1>4, <2>1, <2>2 DEF SetTarget, TypeOK, sessionVars, listenerVars, serverVars
<1>5. QED
  BY <1>1, <1>2, <1>3, <1>4

LEMMA ChannelKeepsTypes == TypeOK /\ (Flush \/ Deliver \/ ListenerStep) => TypeOK'
<1> SUFFICES ASSUME TypeOK, Flush \/ Deliver \/ ListenerStep PROVE TypeOK'
  OBVIOUS
<1> USE DEF TypeOK, clientVars, channelVars, sessionVars, listenerVars, serverVars
<1>1. CASE Flush
  <2>1. outbox \in Reference
    BY <1>1 DEF Flush
  <2>2. wire' \in Seq(Reference)
    BY <1>1, <2>1 DEF Flush
  <2>3. QED
    BY <1>1, <2>2 DEF Flush
<1>2. CASE Deliver
  <2>1. Head(wire) \in Reference /\ Tail(wire) \in Seq(Reference)
    BY <1>2 DEF Deliver
  <2>2. QED
    BY <1>2, <2>1 DEF Deliver
<1>3. CASE ListenerReceives \/ ListenerLooksUp \/ ListenerEnds
  BY <1>3 DEF ListenerReceives, ListenerLooksUp, ListenerEnds
<1>4. CASE ListenerApplies
  BY <1>4 DEF ListenerApplies, Reference
<1>5. QED
  BY <1>1, <1>2, <1>3, <1>4 DEF ListenerStep

\* The steps of an update of gains.
LEMMA ReadKeepsTypes ==
    ASSUME TypeOK, NEW t \in Thread, NEW s \in Session, NEW a \in Asks, ReadGains(t, s, a)
    PROVE  update' \in [Thread -> Update \cup {NoUpdate}]
BY DEF TypeOK, ReadGains, Update

LEMMA WriteKeepsTypes ==
    ASSUME TypeOK, NEW t \in Thread, WriteGains(t)
    PROVE  /\ gains' \in [Session -> Gains]
           /\ update' \in [Thread -> Update \cup {NoUpdate}]
           /\ \A s \in Session :
                gains'[s] = IF s = Retuned(t)
                            THEN Set(update[t].ask, gains[s], update[t].read) ELSE gains[s]
<1>1. update[t].ask \in Ask /\ update[t].read \in Gains
  BY UpdateIsFlat DEF TypeOK, WriteGains
<1>2. \A s \in Session :
        gains'[s] = IF s = Retuned(t)
                    THEN Set(update[t].ask, gains[s], update[t].read) ELSE gains[s]
  BY DEF WriteGains, Set, TypeOK
<1>3. \A s \in Session : Set(update[t].ask, gains[s], update[t].read) \in Gains
  BY <1>1, MergedIsTyped DEF TypeOK
<1>4. gains' = [s \in Session |-> gains'[s]]
  BY DEF WriteGains, TypeOK
<1>5. \A s \in Session : gains'[s] \in Gains
  BY <1>2, <1>3 DEF TypeOK
<1>6. update' \in [Thread -> Update \cup {NoUpdate}]
  BY DEF WriteGains, TypeOK
<1>7. QED
  BY <1>2, <1>4, <1>5, <1>6

LEMMA PolicyKeepsTypes ==
    ASSUME TypeOK, NEW s \in Session, PolicyStep(s) PROVE TypeOK'
<1> USE DEF clientVars, channelVars, sessionVars, listenerVars, serverVars
<1>1. ASSUME NEW a \in AsksOf[s], PolicyReadsGains(s, a) PROVE TypeOK'
  <2>1. update' \in [Thread -> Update \cup {NoUpdate}]
    BY <1>1, ReadKeepsTypes DEF PolicyReadsGains, Thread, Asks
  <2>2. QED
    BY <1>1, <2>1 DEF PolicyReadsGains, TypeOK
<1>2. CASE PolicyWritesGains(s)
  <2>1. gains' \in [Session -> Gains] /\ update' \in [Thread -> Update \cup {NoUpdate}]
    BY <1>2, WriteKeepsTypes DEF PolicyWritesGains, Thread
  <2>2. QED
    BY <1>2, <2>1 DEF PolicyWritesGains, TypeOK
<1>3. CASE PolicyEnds(s)
  BY <1>3 DEF PolicyEnds, TypeOK
<1>4. QED
  BY <1>1, <1>2, <1>3 DEF PolicyStep

LEMMA RpcKeepsTypes ==
    ASSUME TypeOK, RpcStep \/ RequestShutdown PROVE TypeOK'
<1> USE DEF clientVars, channelVars, sessionVars, listenerVars, serverVars
<1>1. CASE AwaitRequest \/ ReceiveTimesOut
  BY <1>1 DEF TypeOK, AwaitRequest, ReceiveTimesOut
<1>2. CASE ServeStart
  BY <1>2 DEF TypeOK, ServeStart, Serving, Answer, Request
<1>3. CASE ServeStop
  BY <1>3 DEF TypeOK, ServeStop, Serving, Answer, Request
<1>4. CASE ServeReference
  BY <1>4 DEF TypeOK, ServeReference, Serving, Answer, Request
<1>5. CASE ServeReadsGains
  <2>1. request.session \in Session /\ request.ask \in Asks
    BY <1>5 DEF ServeReadsGains, Serving, TypeOK, Request
  <2>2. update' \in [Thread -> Update \cup {NoUpdate}]
    BY <1>5, <2>1, ReadKeepsTypes DEF ServeReadsGains, Thread
  <2>3. QED
    BY <1>5, <2>2 DEF ServeReadsGains, TypeOK
<1>6. CASE ServeWritesGains
  <2>1. gains' \in [Session -> Gains] /\ update' \in [Thread -> Update \cup {NoUpdate}]
    BY <1>6, WriteKeepsTypes DEF ServeWritesGains, Thread
  <2>2. QED
    BY <1>6, <2>1 DEF ServeWritesGains, Answer, TypeOK
<1>7. CASE ServeUnknownSession
  BY <1>7 DEF TypeOK, ServeUnknownSession, Answer
<1>8. CASE RequestShutdown \/ (\E s \in Session : ShutdownStops(s)) \/ TrackersStopped
             \/ StopListener \/ CloseSockets
  BY <1>8 DEF TypeOK, RequestShutdown, ShutdownStops, TrackersStopped, StopListener,
     CloseSockets, ServerTo
<1>9. QED
  BY <1>1, <1>2, <1>3, <1>4, <1>5, <1>6, <1>7, <1>8 DEF RpcStep

LEMMA StepKeepsTypes == TypeOK /\ [Next]_vars => TypeOK'
<1> SUFFICES ASSUME TypeOK, [Next]_vars PROVE TypeOK'
  OBVIOUS
<1>1. CASE UNCHANGED vars
  BY <1>1 DEF vars, TypeOK, clientVars, channelVars, sessionVars, listenerVars, serverVars
<1>2. CASE Next
  BY <1>1, <1>2, ClientKeepsTypes, ChannelKeepsTypes, PolicyKeepsTypes, RpcKeepsTypes
     DEF Next, Terminated
<1>3. QED
  BY <1>1, <1>2

\* Every variable stays in its range.
THEOREM UpdatesTyped == Spec => []TypeOK
BY InitIsTyped, StepKeepsTypes, PTL DEF Spec

-----------------------------------------------------------------------------
(***************************************************************************)
(* Retuning, with one writer.                                               *)
(***************************************************************************)
LEMMA InitHasGainsInv == Init => GainsInv
BY InitIsTyped DEF Init, GainsInv, UpdateMatchesThread, ReadIsCurrent, Thread

\* Steps that neither retune nor change who may.
LEMMA OthersKeepGainsInv ==
    ASSUME GainsInv, TypeOK',
           UNCHANGED <<gains, update, rpc>>,
           UNCHANGED <<request, started, policied>>
    PROVE  GainsInv'
BY DEF GainsInv, UpdateMatchesThread, ReadIsCurrent, Retuned

LEMMA ClientKeepsGainsInv ==
    ASSUME OneGainWriter, GainsInv, TypeOK', ClientStep PROVE GainsInv'
<1> PICK s \in Session :
      \/ \E p \in BOOLEAN : CallStart(s, p)
      \/ CallStop(s)
      \/ \E a \in AsksOf[s] : CallSetGains(s, a)
      \/ SetTarget(s)
  BY DEF ClientStep
<1>1. CASE SetTarget(s) /\ request' = request
  BY <1>1, OthersKeepGainsInv DEF SetTarget, sessionVars, serverVars
\* Otherwise a call is made, so that no update is the RPC thread's.
<1>2. CASE request = NoRequest
  <2>1. update[Rpc] = NoUpdate
    BY <1>2 DEF GainsInv, UpdateMatchesThread
  <2>2. UNCHANGED <<gains, update, rpc, started, policied>>
    BY DEF CallStart, CallStop, CallSetGains, SetTarget, sessionVars, serverVars
  <2>3. /\ request' # NoRequest /\ request'.op = "gains" => request'.session \in started \ policied
        /\ request' # NoRequest /\ request'.op = "start" => request'.session \notin started
    <3>1. ASSUME NEW p \in BOOLEAN, CallStart(s, p) PROVE <2>3
      BY <3>1 DEF CallStart, Call
    <3>2. CASE CallStop(s)
      BY <3>2 DEF CallStop, Call
    <3>3. ASSUME NEW a \in AsksOf[s], CallSetGains(s, a) PROVE <2>3
      BY <3>3 DEF CallSetGains, Call
    <3>4. CASE SetTarget(s)
      BY <1>2, <3>4 DEF SetTarget, SendReference, Call
    <3>5. QED
      BY <3>1, <3>2, <3>3, <3>4
  <2>4. UpdateMatchesThread'
    BY <2>1, <2>2, <2>3 DEF GainsInv, UpdateMatchesThread
  <2>5. ReadIsCurrent'
    BY <2>1, <2>2 DEF GainsInv, ReadIsCurrent, Retuned
  <2>6. QED
    BY <2>4, <2>5 DEF GainsInv
<1>3. QED
  BY <1>1, <1>2 DEF CallStart, CallStop, CallSetGains, SetTarget, Call

\* A thread that retunes one session leaves the updates of the others current.
LEMMA WritersDiffer ==
    ASSUME GainsInv, NEW t \in Thread, NEW u \in Thread, t # u,
           update[t] # NoUpdate, update[u] # NoUpdate
    PROVE  Retuned(t) # Retuned(u)
BY UpdatesAssumption DEF GainsInv, UpdateMatchesThread, Retuned, Thread

LEMMA WriteKeepsCurrent ==
    ASSUME GainsInv, NEW t \in Thread, WriteGains(t), UNCHANGED request \/ t = Rpc
    PROVE  ReadIsCurrent'
<1> SUFFICES ASSUME NEW u \in Thread, update'[u] # NoUpdate
             PROVE  update'[u].read = gains'[Retuned(u)']
  BY DEF ReadIsCurrent
<1>1. u # t /\ update'[u] = update[u]
  BY DEF WriteGains, GainsInv, TypeOK
<1>2. Retuned(u)' = Retuned(u)
  BY <1>1 DEF Retuned
<1>3. Retuned(u) # Retuned(t)
  BY <1>1, WritersDiffer DEF WriteGains
<1>4. gains'[Retuned(u)] = gains[Retuned(u)]
  BY <1>3 DEF WriteGains, GainsInv, TypeOK
<1>5. QED
  BY <1>1, <1>2, <1>4 DEF GainsInv, ReadIsCurrent

LEMMA PolicyKeepsGainsInv ==
    ASSUME GainsInv, TypeOK', NEW s \in Session, PolicyStep(s) PROVE GainsInv'
<1> USE DEF clientVars, sessionVars, serverVars
<1>0. s # Rpc /\ s \in Thread
  BY UpdatesAssumption DEF Thread
<1>1. ASSUME NEW a \in AsksOf[s], PolicyReadsGains(s, a) PROVE GainsInv'
  <2>1. UpdateMatchesThread'
    BY <1>0, <1>1 DEF PolicyReadsGains, ReadGains, GainsInv, UpdateMatchesThread, TypeOK
  <2>2. ReadIsCurrent'
    BY <1>0, <1>1 DEF PolicyReadsGains, ReadGains, GainsInv, ReadIsCurrent, Retuned, TypeOK
  <2>3. QED
    BY <2>1, <2>2 DEF GainsInv
<1>2. CASE PolicyWritesGains(s)
  <2>1. UpdateMatchesThread'
    BY <1>0, <1>2 DEF PolicyWritesGains, WriteGains, GainsInv, UpdateMatchesThread, TypeOK
  <2>2. ReadIsCurrent'
    BY <1>0, <1>2, WriteKeepsCurrent DEF PolicyWritesGains
  <2>3. QED
    BY <2>1, <2>2 DEF GainsInv
<1>3. CASE PolicyEnds(s)
  BY <1>3 DEF PolicyEnds, GainsInv, UpdateMatchesThread, ReadIsCurrent, Retuned
<1>4. QED
  BY <1>1, <1>2, <1>3 DEF PolicyStep

LEMMA RpcKeepsGainsInv ==
    ASSUME GainsInv, TypeOK', RpcStep \/ RequestShutdown PROVE GainsInv'
<1> USE DEF clientVars, sessionVars, serverVars
\* The thread is at rest, or at its receive: no update is its own.
<1>1. CASE rpc # "gains"
  <2>1. update[Rpc] = NoUpdate
    BY <1>1 DEF GainsInv, UpdateMatchesThread
  <2>2. CASE ServeReadsGains
    <3>1. /\ update'[Rpc] = [ask |-> request.ask, read |-> gains[request.session]]
          /\ \A s \in Session : update'[s] = update[s]
      BY <2>2, UpdatesAssumption DEF ServeReadsGains, ReadGains, GainsInv, TypeOK, Thread
    <3>2. request # NoRequest /\ request.op = "gains" /\ rpc' = "gains"
      BY <2>2 DEF ServeReadsGains, Serving
    <3>3. update'[Rpc] # NoUpdate
      <4>1. update'[Rpc] \in Update
        BY <3>1, <3>2, <2>2 DEF GainsInv, UpdateMatchesThread, TypeOK, Request, Update,
           ServeReadsGains
      <4>2. QED
        BY <4>1, UpdateIsFlat
    <3>4. UpdateMatchesThread'
      BY <2>2, <3>1, <3>2, <3>3 DEF ServeReadsGains, GainsInv, UpdateMatchesThread
    <3>5. ReadIsCurrent'
      BY <2>2 DEF ServeReadsGains, ReadGains, GainsInv, ReadIsCurrent, Retuned, TypeOK
    <3>6. QED
      BY <3>4, <3>5 DEF GainsInv
  <2>3. CASE ~ ServeReadsGains
    <3>1. UNCHANGED <<gains, update>> /\ rpc' # "gains"
      BY <1>1, <2>3 DEF RpcStep, RequestShutdown, AwaitRequest, ReceiveTimesOut, ServeStart,
         ServeStop, ServeReference, ServeWritesGains, ServeUnknownSession, ShutdownStops,
         TrackersStopped,
         StopListener, CloseSockets, ServerTo, Answer
    <3>2. /\ request' \in {request, NoRequest}
          /\ \/ UNCHANGED <<started, policied>>
             \/ request' = NoRequest /\ policied \subseteq policied'
      BY <1>1, <2>3 DEF RpcStep, RequestShutdown, AwaitRequest, ReceiveTimesOut, ServeStart,
         ServeStop, ServeReference, ServeWritesGains, ServeUnknownSession, ShutdownStops,
         TrackersStopped,
         StopListener, CloseSockets, ServerTo, Answer
    <3>3. UpdateMatchesThread'
      BY <2>1, <3>1, <3>2 DEF GainsInv, UpdateMatchesThread
    <3>4. ReadIsCurrent'
      BY <2>1, <3>1 DEF GainsInv, ReadIsCurrent, Retuned
    <3>5. QED
      BY <3>3, <3>4 DEF GainsInv
  <2>4. QED
    BY <2>2, <2>3
<1>2. CASE rpc = "gains"
  <2>1. CASE ServeWritesGains
    <3>1. /\ request' = NoRequest /\ rpc' = "loop"
          /\ update'[Rpc] = NoUpdate
          /\ \A s \in Session : update'[s] = update[s]
          /\ UNCHANGED policied
      BY <2>1, UpdatesAssumption
         DEF ServeWritesGains, WriteGains, Answer, GainsInv, TypeOK, Thread
    <3>2. UpdateMatchesThread'
      BY <3>1 DEF GainsInv, UpdateMatchesThread
    <3>3. ReadIsCurrent'
      BY <2>1, WriteKeepsCurrent DEF ServeWritesGains, Thread
    <3>4. QED
      BY <3>2, <3>3 DEF GainsInv
  <2>2. CASE RequestShutdown
    BY <2>2, OthersKeepGainsInv DEF RequestShutdown, ServerTo
  <2>3. QED
    BY <1>2, <2>1, <2>2 DEF RpcStep, AwaitRequest, ReceiveTimesOut, ServeStart, ServeStop,
       ServeReference, ServeReadsGains, ServeUnknownSession, Serving, ShutdownStops,
       TrackersStopped,
       StopListener, CloseSockets, ServerTo
<1>3. QED
  BY <1>1, <1>2

LEMMA StepKeepsGainsInv == OneGainWriter /\ GainsInv /\ [Next]_vars => GainsInv'
<1> SUFFICES ASSUME OneGainWriter, GainsInv, [Next]_vars PROVE GainsInv'
  OBVIOUS
<1>1. TypeOK'
  BY StepKeepsTypes DEF GainsInv
<1>2. CASE UNCHANGED vars
  BY <1>1, <1>2, OthersKeepGainsInv DEF vars, clientVars, sessionVars, serverVars
<1>3. CASE Flush \/ Deliver \/ ListenerStep
  BY <1>1, <1>3, OthersKeepGainsInv
     DEF Flush, Deliver, ListenerStep, ListenerReceives, ListenerLooksUp, ListenerApplies,
         ListenerEnds, clientVars, sessionVars, serverVars
<1>4. QED
  BY <1>1, <1>2, <1>3, ClientKeepsGainsInv, PolicyKeepsGainsInv, RpcKeepsGainsInv
     DEF Next, Terminated

\* The inductive invariant of retuning.
LEMMA GainsInvHolds == ASSUME OneGainWriter PROVE Spec => []GainsInv
<1>1. Init => GainsInv
  BY InitHasGainsInv
<1>2. GainsInv /\ [Next]_vars => GainsInv'
  BY StepKeepsGainsInv
<1>3. QED
  BY <1>1, <1>2, PTL DEF Spec

\* Only WriteGains ends an update.
LEMMA UpdatesEndByWriting ==
    ASSUME GainsInv, [Next]_vars, NEW t \in Thread,
           update[t] # NoUpdate, update'[t] = NoUpdate
    PROVE  WriteGains(t)
<1> USE DEF clientVars, channelVars, sessionVars, listenerVars, serverVars
<1>1. update' # update
  OBVIOUS
<1>2. \/ \E s \in Session : PolicyStep(s)
      \/ ServeReadsGains
      \/ ServeWritesGains
  BY <1>1 DEF Next, vars, ClientStep, CallStart, CallStop, CallSetGains, SetTarget, Flush,
     Deliver, ListenerStep, ListenerReceives, ListenerLooksUp, ListenerApplies, ListenerEnds,
     RpcStep, RequestShutdown, AwaitRequest, ReceiveTimesOut, ServeStart, ServeStop,
     ServeReference, ServeUnknownSession, ShutdownStops, TrackersStopped, StopListener,
     CloseSockets, ServerTo,
     Terminated
<1>3. ASSUME NEW u \in Thread, NEW s \in Session, NEW a, ReadGains(u, s, a) PROVE FALSE
  BY <1>3 DEF ReadGains, GainsInv, TypeOK
<1>4. ASSUME NEW u \in Thread, WriteGains(u) PROVE u = t
  BY <1>4 DEF WriteGains, GainsInv, TypeOK
<1>5. CASE ServeReadsGains
  BY <1>3, <1>5 DEF ServeReadsGains, Serving, GainsInv, TypeOK, Request, Thread
<1>6. CASE ServeWritesGains
  BY <1>4, <1>6 DEF ServeWritesGains, Thread
<1>7. ASSUME NEW s \in Session, PolicyStep(s) PROVE WriteGains(t)
  <2>1. CASE PolicyWritesGains(s)
    BY <1>4, <2>1 DEF PolicyWritesGains, Thread
  <2>2. ASSUME NEW a \in AsksOf[s], PolicyReadsGains(s, a) PROVE FALSE
    BY <1>3, <2>2 DEF PolicyReadsGains, Thread
  <2>3. CASE PolicyEnds(s)
    BY <1>1, <2>3 DEF PolicyEnds
  <2>4. QED
    BY <1>7, <2>1, <2>2, <2>3 DEF PolicyStep
<1>8. QED
  BY <1>2, <1>5, <1>6, <1>7

\* With one writer, retuning does what the caller asks and nothing else, for all
\* gains, asks and trackers: what is merged into is what the motion has.
THEOREM RetuningIsExact == ASSUME OneGainWriter PROVE Spec => RetunesAsAsked
<1>1. ASSUME GainsInv, GainsInv', [Next]_vars
      PROVE  [\A t \in Thread : update[t] # NoUpdate /\ update'[t] = NoUpdate
                => Honours(update[t].ask, gains[Retuned(t)], gains'[Retuned(t)])]_vars
  <2> SUFFICES ASSUME NEW t \in Thread, update[t] # NoUpdate, update'[t] = NoUpdate
               PROVE  Honours(update[t].ask, gains[Retuned(t)], gains'[Retuned(t)])
    OBVIOUS
  <2>1. WriteGains(t)
    BY <1>1, UpdatesEndByWriting
  <2>2. Retuned(t) \in Session
    BY <1>1 DEF GainsInv, UpdateMatchesThread, TypeOK, Request, Retuned, Thread
  <2>3. gains'[Retuned(t)] = Set(update[t].ask, gains[Retuned(t)], update[t].read)
    BY <1>1, <2>1, <2>2, WriteKeepsTypes DEF GainsInv
  <2>4. update[t].read = gains[Retuned(t)]
    BY <1>1 DEF GainsInv, ReadIsCurrent
  <2>5. update[t].ask \in Ask /\ gains[Retuned(t)] \in Gains
    BY <1>1, <2>2, UpdateIsFlat DEF GainsInv, TypeOK
  <2>6. QED
    BY <2>3, <2>4, <2>5, MergeHonours
<1>2. QED
  BY GainsInvHolds, <1>1, PTL DEF Spec, RetunesAsAsked

-----------------------------------------------------------------------------
(***************************************************************************)
(* ReferencesKeepLatest, from the order of what is on its way to a motion.  *)
(***************************************************************************)
\* What OrderInv speaks about, besides the types.
orderVars == <<push, sent, outbox, wire, inbox, listener, msg, reference>>

\* The parts of OrderInv besides the types.
InOrder == ChannelInOrder /\ ListenerInOrder /\ AppliedInOrder /\ SentIsNewest /\ OneWay

\* References are numbered.
LEMMA Numbered ==
    ASSUME TypeOK
    PROVE  /\ Len(wire) \in Nat
           /\ \A i \in 1 .. Len(wire) : wire[i] \in Reference /\ wire[i].number \in Nat
           /\ outbox # NoReference => outbox.number \in Nat
           /\ inbox # NoReference => inbox.number \in Nat
           /\ Busy => msg.number \in Nat
           /\ \A s \in Session : reference[s] \in Nat
<1>1. \A r \in Reference : r.number \in Nat
  BY DEF Reference
<1>2. Len(wire) \in Nat /\ \A i \in 1 .. Len(wire) : wire[i] \in Reference
  BY DEF TypeOK
<1>3. (outbox # NoReference => outbox.number \in Nat) /\ (inbox # NoReference => inbox.number \in Nat)
  BY <1>1 DEF TypeOK
<1>4. Busy => msg.number \in Nat
  BY <1>1 DEF TypeOK, Busy
<1>5. \A s \in Session : reference[s] \in Nat
  BY UpdatesAssumption DEF TypeOK
<1>6. QED
  BY <1>1, <1>2, <1>3, <1>4, <1>5

LEMMA InitIsInOrder == Init => InOrder
BY DEF Init, InOrder, ChannelInOrder, ListenerInOrder, AppliedInOrder, SentIsNewest, OneWay,
   OlderThanPushed, Busy

\* Steps that move no reference and make no call by which one is set.
LEMMA OthersKeepOrder ==
    ASSUME InOrder, UNCHANGED orderVars,
           request' = request \/ request' = NoRequest \/ request'.op # "reference"
    PROVE  InOrder'
BY DEF orderVars, InOrder, ChannelInOrder, ListenerInOrder, AppliedInOrder, SentIsNewest, OneWay,
   OlderThanPushed, Busy

LEMMA SetTargetKeepsOrder ==
    ASSUME TypeOK, InOrder, NEW s \in Session, SetTarget(s) PROVE InOrder'
<1> USE DEF sessionVars, listenerVars, serverVars
<1>1. /\ sent' = sent + 1 /\ sent \in Nat
      /\ UNCHANGED <<push, wire, inbox, listener, msg, reference>>
  BY UpdatesAssumption DEF SetTarget, TypeOK
<1>2. CASE push
  <2>1. outbox' = [session |-> s, number |-> sent + 1] /\ request' = NoRequest
    BY <1>2 DEF SetTarget, SendReference
  <2>2. outbox'.number = sent + 1
    BY <2>1
  <2> USE <1>1, <1>2, <2>1, <2>2 DEF InOrder, OlderThanPushed, Busy, SentIsNewest
  <2>3. /\ \A i \in 1 .. Len(wire) : wire[i].number \in Nat
        /\ inbox # NoReference => inbox.number \in Nat
        /\ Busy => msg.number \in Nat
        /\ \A x \in Session : reference[x] \in Nat
    BY Numbered
  <2>4. ChannelInOrder'
    BY <2>3 DEF ChannelInOrder
  <2>5. ListenerInOrder'
    BY <2>3 DEF ListenerInOrder
  <2>6. AppliedInOrder'
    BY <2>3 DEF AppliedInOrder
  <2>7. SentIsNewest'
    BY <2>3
  <2>8. OneWay'
    BY DEF OneWay
  <2>9. QED
    BY <2>4, <2>5, <2>6, <2>7, <2>8
<1>3. CASE ~ push
  <2>1. /\ request' = [op |-> "reference", session |-> s, number |-> sent + 1]
        /\ UNCHANGED outbox
    BY <1>3 DEF SetTarget, SendReference, Call
  <2>2. /\ outbox = NoReference /\ wire = <<>> /\ inbox = NoReference /\ ~ Busy
    BY <1>3 DEF InOrder, OneWay
  <2>3. \A x \in Session : reference[x] \in Nat
    BY DEF TypeOK
  <2>4. QED
    BY <1>1, <1>3, <2>1, <2>2, <2>3 DEF InOrder, ChannelInOrder, ListenerInOrder, AppliedInOrder,
       SentIsNewest, OneWay, OlderThanPushed, Busy
<1>4. QED
  BY <1>2, <1>3 DEF TypeOK

LEMMA FlushKeepsOrder == ASSUME TypeOK, InOrder, Flush PROVE InOrder'
<1> USE DEF clientVars, sessionVars, listenerVars, serverVars
<1>1. outbox \in Reference /\ outbox # NoReference
  BY DEF Flush, TypeOK
<1>2. /\ Len(wire') = Len(wire) + 1
      /\ \A i \in 1 .. Len(wire) : wire'[i] = wire[i]
      /\ wire'[Len(wire) + 1] = outbox
      /\ Len(wire) \in Nat
  BY <1>1 DEF Flush, TypeOK
<1>3. outbox' = NoReference /\ UNCHANGED <<push, sent, request, inbox, listener, msg, reference>>
  BY DEF Flush
<1>4. ChannelInOrder'
  <2>1. \A i \in 1 .. Len(wire) : wire[i].number <= outbox.number
    BY <1>1 DEF InOrder, ChannelInOrder
  <2>2. \A i, j \in 1 .. Len(wire') : i <= j => wire'[i].number <= wire'[j].number
    <3> SUFFICES ASSUME NEW i \in 1 .. Len(wire'), NEW j \in 1 .. Len(wire'), i <= j
                 PROVE  wire'[i].number <= wire'[j].number
      OBVIOUS
    <3>1. CASE j \in 1 .. Len(wire)
      BY <1>2, <3>1 DEF InOrder, ChannelInOrder
    <3>2. CASE j = Len(wire) + 1 /\ i \in 1 .. Len(wire)
      BY <1>2, <2>1, <3>2
    <3>3. CASE i = Len(wire) + 1 /\ j = i
      BY <1>1, <1>2, <3>3, Numbered
    <3>4. QED
      BY <1>2, <3>1, <3>2, <3>3
  <2>3. inbox # NoReference => \A i \in 1 .. Len(wire') : inbox.number <= wire'[i].number
    BY <1>1, <1>2 DEF InOrder, ChannelInOrder, OlderThanPushed
  <2>4. QED
    BY <1>3, <2>2, <2>3 DEF ChannelInOrder, OlderThanPushed
<1>5. \A n \in Nat : OlderThanPushed(n) => OlderThanPushed(n)'
  BY <1>1, <1>2, <1>3 DEF OlderThanPushed
<1>6. ListenerInOrder'
  BY <1>3, <1>5 DEF InOrder, ListenerInOrder, Busy, TypeOK, Reference
<1>7. AppliedInOrder'
  BY <1>3, <1>5 DEF InOrder, AppliedInOrder, Busy, TypeOK
<1>8. SentIsNewest'
  BY <1>1, <1>2, <1>3 DEF InOrder, SentIsNewest, Busy
<1>9. OneWay'
  BY <1>1, <1>3 DEF InOrder, OneWay, Busy
<1>10. QED
  BY <1>4, <1>6, <1>7, <1>8, <1>9 DEF InOrder

LEMMA DeliverKeepsOrder == ASSUME TypeOK, InOrder, Deliver PROVE InOrder'
<1> USE DEF clientVars, sessionVars, listenerVars, serverVars
<1>1. /\ Len(wire) \in Nat \ {0} /\ Len(wire') = Len(wire) - 1
      /\ \A i \in 1 .. Len(wire') : wire'[i] = wire[i + 1]
      /\ inbox' = wire[1]
      /\ \A i \in 1 .. Len(wire) : wire[i] \in Reference
  BY DEF Deliver, TypeOK
<1>2. UNCHANGED <<push, sent, request, outbox, listener, msg, reference>>
  BY DEF Deliver
<1>3. \A n \in Nat : OlderThanPushed(n) => OlderThanPushed(n)'
  BY <1>1, <1>2 DEF OlderThanPushed
<1>4. ChannelInOrder'
  <2>1. \A i, j \in 1 .. Len(wire') : i <= j => wire'[i].number <= wire'[j].number
    BY <1>1 DEF InOrder, ChannelInOrder
  <2>2. outbox # NoReference => \A i \in 1 .. Len(wire') : wire'[i].number <= outbox.number
    BY <1>1 DEF InOrder, ChannelInOrder
  <2>3. /\ \A i \in 1 .. Len(wire') : wire[1].number <= wire'[i].number
        /\ outbox # NoReference => wire[1].number <= outbox.number
    BY <1>1 DEF InOrder, ChannelInOrder
  <2>4. QED
    BY <1>1, <1>2, <2>1, <2>2, <2>3 DEF ChannelInOrder, OlderThanPushed
<1>5. ListenerInOrder'
  <2>1. Busy => msg.number \in Nat /\ OlderThanPushed(msg.number)
    BY Numbered DEF InOrder, ListenerInOrder
  <2>2. Busy => msg.number <= wire[1].number
    BY <1>1, <2>1 DEF OlderThanPushed
  <2>3. Busy => OlderThanPushed(msg.number)'
    BY <1>2, <1>3, <2>1
  <2>4. QED
    BY <1>1, <1>2, <2>2, <2>3 DEF ListenerInOrder, Busy
<1>6. AppliedInOrder'
  BY <1>1, <1>2, <1>3 DEF InOrder, AppliedInOrder, OlderThanPushed, Busy, TypeOK
<1>7. SentIsNewest'
  BY <1>1, <1>2 DEF InOrder, SentIsNewest, Busy
<1>8. OneWay'
  BY <1>1, <1>2 DEF InOrder, OneWay, Busy, Deliver
<1>9. QED
  BY <1>4, <1>5, <1>6, <1>7, <1>8 DEF InOrder

LEMMA ListenerKeepsOrder == ASSUME TypeOK, InOrder, ListenerStep PROVE InOrder'
<1> USE DEF clientVars, channelVars, sessionVars, serverVars
<1>1. CASE ListenerReceives
  BY <1>1 DEF ListenerReceives, InOrder, ChannelInOrder, ListenerInOrder, AppliedInOrder,
     SentIsNewest, OneWay, OlderThanPushed, Busy
<1>2. CASE ListenerLooksUp \/ ListenerEnds
  BY <1>2 DEF ListenerLooksUp, ListenerEnds, InOrder, ChannelInOrder, ListenerInOrder,
     AppliedInOrder, SentIsNewest, OneWay, OlderThanPushed, Busy
<1>3. CASE ListenerApplies
  <2>1. /\ Busy /\ ~ Busy'
        /\ UNCHANGED <<push, sent, request, outbox, wire, inbox, msg>>
        /\ \A s \in Session : reference'[s] \in {reference[s], msg.number}
    BY <1>3 DEF ListenerApplies, Busy, TypeOK
  <2>2. QED
    BY <2>1 DEF InOrder, ChannelInOrder, ListenerInOrder, AppliedInOrder, SentIsNewest, OneWay,
       OlderThanPushed
<1>4. QED
  BY <1>1, <1>2, <1>3 DEF ListenerStep

LEMMA ServeReferenceKeepsOrder == ASSUME TypeOK, InOrder, ServeReference PROVE InOrder'
<1>1. /\ ~ push /\ request.number = sent /\ request' = NoRequest
      /\ UNCHANGED <<push, sent, outbox, wire, inbox, listener, msg>>
      /\ \A s \in Session : reference'[s] \in {reference[s], sent}
      /\ sent \in Nat
  BY DEF ServeReference, Serving, Answer, InOrder, OneWay, TypeOK, channelVars, listenerVars
<1>2. outbox = NoReference /\ wire = <<>> /\ inbox = NoReference /\ ~ Busy
  BY <1>1 DEF InOrder, OneWay
<1>3. QED
  BY <1>1, <1>2 DEF InOrder, ChannelInOrder, ListenerInOrder, AppliedInOrder, SentIsNewest,
     OneWay, OlderThanPushed, Busy

LEMMA StepKeepsOrder == TypeOK /\ InOrder /\ [Next]_vars => InOrder'
<1> SUFFICES ASSUME TypeOK, InOrder, [Next]_vars PROVE InOrder'
  OBVIOUS
<1> USE DEF orderVars, clientVars, channelVars, listenerVars
<1>1. CASE UNCHANGED vars
  BY <1>1, OthersKeepOrder DEF vars
<1>2. ASSUME NEW s \in Session, PolicyStep(s) PROVE InOrder'
  BY <1>2, OthersKeepOrder DEF PolicyStep, PolicyReadsGains, PolicyWritesGains, PolicyEnds
<1>3. CASE RpcStep \/ RequestShutdown
  BY <1>3, OthersKeepOrder, ServeReferenceKeepsOrder
     DEF RpcStep, RequestShutdown, AwaitRequest, ReceiveTimesOut, ServeStart, ServeStop,
         ServeReadsGains, ServeWritesGains, ServeUnknownSession, ShutdownStops,
         TrackersStopped, StopListener,
         CloseSockets, ServerTo, Answer
<1>4. CASE ClientStep
  <2> PICK s \in Session : \/ \E p \in BOOLEAN : CallStart(s, p)
                           \/ CallStop(s)
                           \/ \E a \in AsksOf[s] : CallSetGains(s, a)
                           \/ SetTarget(s)
    BY <1>4 DEF ClientStep
  <2>1. ASSUME NEW p \in BOOLEAN, CallStart(s, p) PROVE InOrder'
    BY <2>1, OthersKeepOrder DEF CallStart, Call
  <2>2. CASE CallStop(s)
    BY <2>2, OthersKeepOrder DEF CallStop, Call
  <2>3. ASSUME NEW a \in AsksOf[s], CallSetGains(s, a) PROVE InOrder'
    BY <2>3, OthersKeepOrder DEF CallSetGains, Call
  <2>4. QED
    BY <2>1, <2>2, <2>3, SetTargetKeepsOrder
<1>5. QED
  BY <1>1, <1>2, <1>3, <1>4, FlushKeepsOrder, DeliverKeepsOrder, ListenerKeepsOrder
     DEF Next, Terminated

\* Only the listener and the RPC handler set a reference; only the client numbers one.
LEMMA ReferenceSteps ==
    ASSUME TypeOK, [Next]_vars
    PROVE  \/ UNCHANGED <<sent, reference>>
           \/ sent' = sent + 1 /\ UNCHANGED reference
           \/ ListenerApplies \/ ServeReference
<1>1. ASSUME NEW s \in Session, SetTarget(s)
      PROVE  sent' = sent + 1 /\ UNCHANGED reference
  BY <1>1 DEF SetTarget
<1>2. CASE ClientStep /\ ~ \E s \in Session : SetTarget(s)
  BY <1>2 DEF ClientStep, CallStart, CallStop, CallSetGains
<1>3. CASE Flush \/ Deliver \/ ListenerReceives \/ ListenerLooksUp \/ ListenerEnds
           \/ RequestShutdown \/ (\E s \in Session : PolicyStep(s)) \/ UNCHANGED vars
  BY <1>3 DEF Flush, Deliver, ListenerReceives, ListenerLooksUp, ListenerEnds, RequestShutdown,
     ServerTo, PolicyStep, PolicyReadsGains, PolicyWritesGains, PolicyEnds, vars, clientVars
<1>4. CASE RpcStep /\ ~ ServeReference
  BY <1>4 DEF RpcStep, AwaitRequest, ReceiveTimesOut, ServeStart, ServeStop, ServeReadsGains,
     ServeWritesGains, ServeUnknownSession, ShutdownStops, TrackersStopped, StopListener,
     CloseSockets, ServerTo, Answer, clientVars
<1>5. QED
  BY <1>1, <1>2, <1>3, <1>4 DEF Next, ClientStep, ListenerStep, Terminated

\* Whatever is dropped, delayed or sent to several trackers on the way, the
\* reference of a tracker is one that was set, and only moves forward.
THEOREM ReferencesOrdered == Spec => ReferencesKeepLatest
<1>1. Init => TypeOK /\ InOrder /\ Feed!Init
  <2>1. Init => Feed!Init
    BY DEF Init, Feed!Init
  <2>2. QED
    BY <2>1, InitIsTyped, InitIsInOrder
<1>2. TypeOK /\ InOrder /\ [Next]_vars => TypeOK' /\ InOrder'
  BY StepKeepsTypes, StepKeepsOrder
<1>3. TypeOK /\ InOrder /\ [Next]_vars => [Feed!Next]_(Feed!vars)
  <2> SUFFICES ASSUME TypeOK, InOrder, [Next]_vars
               PROVE  Feed!Next \/ UNCHANGED Feed!vars
    OBVIOUS
  <2>1. reference \in [Session -> Nat] /\ sent \in Nat
    BY DEF TypeOK
  <2>2. ASSUME NEW s \in Session, NEW n \in reference[s] .. sent,
               reference' = [reference EXCEPT ![s] = n], UNCHANGED sent
        PROVE  Feed!Next
    BY <2>2 DEF Feed!Next, Feed!Catch
  <2>3. CASE ListenerApplies
    <3>1. /\ msg \in Reference /\ msg.session \in Session /\ msg.number \in Nat
          /\ reference[msg.session] <= msg.number /\ msg.number <= sent
      BY <2>3 DEF ListenerApplies, InOrder, AppliedInOrder, SentIsNewest, Busy, TypeOK, Reference
    <3>2. msg.number \in reference[msg.session] .. sent
      BY <2>1, <3>1
    <3>3. reference' = [reference EXCEPT ![msg.session] = msg.number] /\ UNCHANGED sent
      BY <2>3 DEF ListenerApplies, clientVars
    <3>4. QED
      BY <2>2, <3>1, <3>2, <3>3
  <2>4. CASE ServeReference
    <3>1. /\ request.number = sent /\ UNCHANGED sent
          /\ request # NoRequest /\ request.op = "reference"
      BY <2>4 DEF ServeReference, Serving, Answer, InOrder, OneWay
    <3>2. request.session \in Session
      BY <3>1 DEF TypeOK, Request
    <3>3. CASE request.session \in registry
      <4>1. reference' = [reference EXCEPT ![request.session] = sent]
        BY <2>4, <3>1, <3>3 DEF ServeReference
      <4>2. sent \in reference[request.session] .. sent
        BY <2>1, <3>2 DEF InOrder, AppliedInOrder
      <4>3. QED
        BY <2>2, <3>1, <3>2, <4>1, <4>2
    <3>4. CASE request.session \notin registry
      BY <2>4, <3>1, <3>4 DEF ServeReference, Feed!vars
    <3>5. QED
      BY <3>3, <3>4
  <2>5. CASE sent' = sent + 1 /\ UNCHANGED reference
    BY <2>5 DEF Feed!Next, Feed!Renew
  <2>6. CASE UNCHANGED <<sent, reference>>
    BY <2>6 DEF Feed!vars
  <2>7. QED
    BY <2>3, <2>4, <2>5, <2>6, ReferenceSteps
<1>4. QED
  BY <1>1, <1>2, <1>3, PTL DEF Spec, ReferencesKeepLatest, Feed!Spec

-----------------------------------------------------------------------------
(***************************************************************************)
(* Stopped trackers.                                                        *)
(***************************************************************************)
\* A session is started once: a client that asks for it has not had it before.
StartsOnce ==
    request # NoRequest /\ request.op = "start" => request.session \notin started

LEMMA StepKeepsStartsOnce == StartsOnce /\ [Next]_vars => StartsOnce'
<1> SUFFICES ASSUME StartsOnce, [Next]_vars PROVE StartsOnce'
  OBVIOUS
<1> USE DEF StartsOnce, clientVars, channelVars, sessionVars, listenerVars, serverVars
<1>1. CASE UNCHANGED <<request, started>>
  BY <1>1
<1>2. CASE UNCHANGED vars
  BY <1>1, <1>2 DEF vars
<1>3. CASE ClientStep
  BY <1>3, NoRequestAssumption
     DEF ClientStep, CallStart, CallStop, CallSetGains, SetTarget, SendReference, Call
<1>4. CASE Flush \/ Deliver \/ (\E s \in Session : PolicyStep(s)) \/ Terminated
  BY <1>1, <1>2, <1>4 DEF Flush, Deliver, PolicyStep, PolicyReadsGains, PolicyWritesGains,
     PolicyEnds, Terminated
<1>5. CASE ListenerStep
  BY <1>1, <1>5 DEF ListenerStep, ListenerReceives, ListenerLooksUp, ListenerApplies, ListenerEnds
<1>6. CASE ServeStart \/ ServeStop \/ ServeReference \/ ServeUnknownSession \/ ServeWritesGains
  BY <1>6 DEF ServeStart, ServeStop, ServeReference, ServeUnknownSession, ServeWritesGains, Answer
<1>7. CASE RpcStep \/ RequestShutdown
  BY <1>1, <1>6, <1>7 DEF RpcStep, AwaitRequest, ReceiveTimesOut, ServeReadsGains, RequestShutdown,
     ShutdownStops, TrackersStopped, StopListener, CloseSockets, ServerTo
<1>8. QED
  BY <1>2, <1>3, <1>4, <1>5, <1>7 DEF Next

\* A stopped tracker gets no more references, but the one the listener had
\* already found its session for; a listener that outlives its join is no
\* exception, and neither is a message that it still takes from its socket.
THEOREM StoppedGetsNothing == Spec => StoppedIsQuiet
<1>1. Init => TypeOK /\ StartsOnce
  BY InitIsTyped DEF Init, StartsOnce
<1>2. TypeOK /\ StartsOnce /\ [Next]_vars => (TypeOK /\ StartsOnce)'
  BY StepKeepsTypes, StepKeepsStartsOnce
<1>3. TypeOK /\ StartsOnce /\ [Next]_vars =>
        [\A s \in Session : Settled(s) => reference'[s] = reference[s] /\ Settled(s)']_vars
  <2> SUFFICES ASSUME TypeOK, StartsOnce, Next, NEW s \in Session, Settled(s)
               PROVE  reference'[s] = reference[s] /\ Settled(s)'
    OBVIOUS
  <2> USE DEF Settled, clientVars, channelVars, sessionVars, listenerVars, serverVars
  <2>1. CASE UNCHANGED <<registry, started, listener, msg, reference>>
    BY <2>1
  <2>2. CASE UNCHANGED vars
    BY <2>1, <2>2 DEF vars
  <2>3. CASE ClientStep \/ Flush \/ Deliver \/ (\E p \in Session : PolicyStep(p)) \/ Terminated
    BY <2>1, <2>2, <2>3 DEF ClientStep, CallStart, CallStop, CallSetGains, SetTarget, Flush, Deliver,
       PolicyStep, PolicyReadsGains, PolicyWritesGains, PolicyEnds, Terminated
  <2>4. CASE ListenerStep
    <3>1. CASE ListenerApplies
      <4>1. msg.session # s /\ reference' = [reference EXCEPT ![msg.session] = msg.number]
        BY <3>1 DEF ListenerApplies
      <4>2. reference'[s] = reference[s]
        BY <4>1 DEF TypeOK
      <4>3. QED
        BY <3>1, <4>2 DEF ListenerApplies
    <3>2. CASE ListenerReceives \/ ListenerLooksUp \/ ListenerEnds
      BY <3>2 DEF ListenerReceives, ListenerLooksUp, ListenerEnds
    <3>3. QED
      BY <2>4, <3>1, <3>2 DEF ListenerStep
  <2>5. CASE ServeReference
    <3>1. s \notin registry
      OBVIOUS
    <3>2. reference'[s] = reference[s]
      BY <2>5, <3>1 DEF ServeReference, TypeOK
    <3>3. QED
      BY <2>5, <3>2 DEF ServeReference
  <2>6. CASE ServeStart
    <3>1. request.session # s
      BY <2>6 DEF ServeStart, Serving, StartsOnce
    <3>2. QED
      BY <2>6, <3>1 DEF ServeStart
  <2>7. CASE ServeStop \/ ServeUnknownSession \/ ServeWritesGains
    BY <2>7 DEF ServeStop, ServeUnknownSession, ServeWritesGains
  <2>8. CASE RpcStep \/ RequestShutdown
    BY <2>5, <2>6, <2>7, <2>8 DEF RpcStep, AwaitRequest, ReceiveTimesOut, ServeReadsGains,
       RequestShutdown, ShutdownStops, TrackersStopped, StopListener, CloseSockets, ServerTo
  <2>9. QED
    BY <2>2, <2>3, <2>4, <2>8 DEF Next
<1>4. QED
  BY <1>1, <1>2, <1>3, PTL DEF Spec, StoppedIsQuiet
=============================================================================
