---------------------------- MODULE GripperProofs ----------------------------
(***************************************************************************)
(* Proofs about GripperUnits, Gripper and GripperClient: the rounding       *)
(* lemmas, the typing, the inductive invariant behind the guarded link and  *)
(* the order of the broadcasts, and the composition with a client, which    *)
(* does nothing to the server that Gripper does not already allow.          *)
(***************************************************************************)
EXTENDS GripperClient, SequenceTheorems, TLAPS

-----------------------------------------------------------------------------
(***************************************************************************)
(* Units.                                                                   *)
(***************************************************************************)
\* Integer division, as the solver knows it.
LEMMA Division ==
    ASSUME NEW n \in Nat, NEW d \in Nat \ {0}
    PROVE  /\ n \div d \in Nat
           /\ n % d \in 0..(d - 1)
           /\ n = d * (n \div d) + (n % d)
  BY SMTT(30)

\* Round returns a natural number, and no other is nearer to n / d.
LEMMA RoundIsNearest ==
    ASSUME NEW n \in Nat, NEW d \in Nat \ {0}
    PROVE  /\ Round(n, d) \in Nat
           /\ 2 * (n - d * Round(n, d)) <= d
           /\ 2 * (d * Round(n, d) - n) <= d
<1> DEFINE q == n \div d
           r == n % d
<1>1. q \in Nat /\ r \in 0..(d - 1) /\ n = d * q + r
  BY Division
<1>2. Round(n, d) = q \/ Round(n, d) = q + 1
  BY DEF Round
<1>3. Round(n, d) = q => 2 * r <= d
  BY <1>1 DEF Round
<1>4. Round(n, d) = q + 1 => 2 * r >= d
  BY <1>1 DEF Round
<1>5. d * (q + 1) = d * q + d
  BY <1>1
<1> HIDE DEF q, r
<1>6. CASE Round(n, d) = q
  BY <1>6, <1>1, <1>3
<1>7. CASE Round(n, d) = q + 1
  BY <1>7, <1>1, <1>4, <1>5
<1>8. QED
  BY <1>2, <1>6, <1>7

\* A clamped width is within the scale.
LEMMA ClampInRange ==
    ASSUME NEW w \in Int
    PROVE  Clamp(w) \in 0..Full
  BY UnitsAssumption DEF Clamp

\* Whatever width is asked for, within the range or not, the position it is sent
\* as is one the gripper has, and the nearest one (_width_m_to_position).
THEOREM NearestPosition ==
    ASSUME NEW w \in Int
    PROVE  WidthToPosition(w) \in Position /\ Nearest(WidthToPosition(w), w)
<1> DEFINE c == Clamp(w)
           n == Top * Full - Top * c
           p == Round(n, Full)
<1>1. Top \in Nat \ {0} /\ Full \in Nat \ {0} /\ c \in 0..Full
  BY UnitsAssumption, ClampInRange
<1>2. n = Top * (Full - c)
  BY <1>1
<1>3. n \in Nat /\ n <= Top * Full
  <2>1. Full - c \in Nat /\ Top * c \in Nat /\ Top * Full \in Nat
    BY <1>1
  <2>2. Top * (Full - c) \in Nat
    BY <1>1, <2>1
  <2>3. QED
    BY <1>2, <2>1, <2>2
<1>4. p \in Nat /\ 2 * (n - Full * p) <= Full /\ 2 * (Full * p - n) <= Full
  BY <1>1, <1>3, RoundIsNearest
<1>5. p <= Top
  <2>1. SUFFICES ASSUME p >= Top + 1 PROVE FALSE
    BY <1>1, <1>4
  <2> HIDE DEF p
  <2>2. Full * p >= Full * (Top + 1)
    BY <1>1, <1>4, <2>1
  <2>3. Full * (Top + 1) = Top * Full + Full
    BY <1>1
  <2> HIDE DEF n
  <2>4. QED
    BY <1>1, <1>3, <1>4, <2>2, <2>3
<1>6. WidthToPosition(w) = p
  BY DEF WidthToPosition, PositionAt
<1>7. p \in Position
  BY <1>1, <1>4, <1>5 DEF Position
<1>8. Nearest(p, w)
  <2> HIDE DEF p
  <2>1. (Top - p) * Full = Top * Full - Full * p
    BY <1>1, <1>4
  <2>2. PositionToParts(p) - Top * c = n - Full * p
    BY <1>1, <1>4, <2>1 DEF PositionToParts
  <2>3. PositionToParts(p) \in Int /\ Top * c \in Int
    BY <1>1, <1>4 DEF PositionToParts
  <2>4. n \in Int /\ Full * p \in Int
    BY <1>1, <1>3, <1>4
  <2> HIDE DEF n
  <2>5. 2 * Distance(PositionToParts(p), Top * c) <= Full
    BY <1>1, <1>4, <2>2, <2>3, <2>4 DEF Distance
  <2>6. QED
    BY <2>5 DEF Nearest
<1>9. QED
  BY <1>6, <1>7, <1>8

\* A position read back and sent again is the same one: no drift between
\* _position_to_width_m and _width_m_to_position.
THEOREM PositionRoundTrip ==
    ASSUME NEW p \in Position
    PROVE  PositionAt(PositionToParts(p)) = p
<1> DEFINE n == Full * p
           k == Round(n, Full)
<1>1. Top \in Nat \ {0} /\ Full \in Nat \ {0} /\ p \in Nat
  BY UnitsAssumption DEF Position
<1>2. Top * Full - PositionToParts(p) = n
  <2>1. (Top - p) * Full = Top * Full - Full * p
    BY <1>1
  <2>2. Top * Full \in Int /\ Full * p \in Int
    BY <1>1
  <2>3. QED
    BY <2>1, <2>2 DEF PositionToParts
<1>3. n \in Nat
  BY <1>1
<1>4. k \in Nat /\ 2 * (n - Full * k) <= Full /\ 2 * (Full * k - n) <= Full
  BY <1>1, <1>3, RoundIsNearest
<1>5. k = p
  <2> HIDE DEF k
  <2>1. CASE k >= p + 1
    <3>1. Full * k >= Full * (p + 1)
      BY <1>1, <1>4, <2>1
    <3>2. QED
      BY <1>1, <1>4, <3>1
  <2>2. CASE p >= k + 1
    <3>1. Full * p >= Full * (k + 1)
      BY <1>1, <1>4, <2>2
    <3>2. QED
      BY <1>1, <1>4, <3>1
  <2>3. QED
    BY <1>1, <1>4, <2>1, <2>2
<1>6. QED
  BY <1>2, <1>5 DEF PositionAt

-----------------------------------------------------------------------------
(***************************************************************************)
(* The server.                                                              *)
(***************************************************************************)
LEMMA InitHasInv == Init => GripperInv
<1> SUFFICES ASSUME Init PROVE GripperInv
  OBVIOUS
<1> USE GripperAssumption DEF Init
<1>1. TypeOK
  <2>1. rpcAt \in RpcPlace /\ pollerAt \in PollerPlace /\ lock \in {Free, "rpc", "poller"}
    BY DEF RpcPlace, PollerPlace
  <2>2. {pollStop, linkOpen} \subseteq BOOLEAN
    BY Zenon
  <2>3. clock \in 0..MaxClock /\ sent \in 0..MaxClock
    OBVIOUS
  <2>4. read \in [{"rpc", "poller"} -> 0..MaxClock]
    OBVIOUS
  <2>5. job \in {"publishes", "quiet"} /\ goal = NoGoal /\ asked = NoGoal
    OBVIOUS
  <2>6. QED
    BY <2>1, <2>2, <2>3, <2>4, <2>5 DEF TypeOK
<1>2. LockMatches
  BY DEF LockMatches
<1>3. ReadingsFollow
  BY DEF ReadingsFollow
<1>4. StopTakesLink
  BY DEF StopTakesLink
<1>5. QED
  BY <1>1, <1>2, <1>3, <1>4 DEF GripperInv

\* A request changes the goal to a position the gripper has.
LEMMA RequestIsTyped ==
    ASSUME GripperInv, TakeRequest
    PROVE  /\ job' \in {"publishes", "quiet"}
           /\ goal' \in Position \cup {NoGoal}
           /\ asked' \in Widths \cup {NoGoal}
<1>1. CASE UNCHANGED <<asked, goal>>
  BY <1>1 DEF GripperInv, TypeOK, TakeRequest
<1>2. CASE asked' \in Widths /\ goal' = WidthToPosition(asked')
  <2>1. PICK w \in Widths : w = asked'
    BY <1>2
  <2>2. WidthToPosition(w) \in Position
    BY <2>1, NearestPosition, GripperAssumption
  <2>3. QED
    BY <1>2, <2>1, <2>2 DEF TakeRequest
<1>3. QED
  BY <1>1, <1>2 DEF TakeRequest

LEMMA StepKeepsInv == GripperInv /\ [Next]_vars => GripperInv'
<1> SUFFICES ASSUME GripperInv, [Next]_vars PROVE GripperInv'
  OBVIOUS
<1> USE GripperAssumption DEF GripperInv, LockMatches, ReadingsFollow, StopTakesLink,
    TypeOK, RpcPlace, PollerPlace
<1>1. CASE StateChanges
  BY <1>1 DEF StateChanges
<1>2. CASE TakeRequest
  BY <1>2, RequestIsTyped DEF TakeRequest
<1>3. CASE LockForRequest
  BY <1>3 DEF LockForRequest
<1>4. CASE CommandEnds
  BY <1>4 DEF CommandEnds, Unlock
<1>5. CASE RpcReads
  BY <1>5 DEF RpcReads, ReadState, Unlock
<1>6. CASE RpcSends
  BY <1>6 DEF RpcSends, SendState, Unlock
<1>7. CASE Interrupt
  BY <1>7 DEF Interrupt, Unlock
<1>8. CASE StopPolling
  BY <1>8 DEF StopPolling
<1>9. CASE PollerJoined
  BY <1>9 DEF PollerJoined
<1>10. CASE LockForDisconnect
  BY <1>10 DEF LockForDisconnect
<1>11. CASE Disconnect
  BY <1>11 DEF Disconnect, Unlock
<1>12. CASE PollerWakes
  BY <1>12 DEF PollerWakes
<1>13. CASE PollerTries
  BY <1>13 DEF PollerTries
<1>14. CASE PollerReads
  BY <1>14 DEF PollerReads, ReadState, Unlock
<1>15. CASE PollerSends
  BY <1>15 DEF PollerSends, SendState, Unlock
<1>16. CASE UNCHANGED vars
  BY <1>16 DEF vars
<1>17. QED
  BY <1>1, <1>2, <1>3, <1>4, <1>5, <1>6, <1>7, <1>8, <1>9, <1>10, <1>11, <1>12,
     <1>13, <1>14, <1>15, <1>16 DEF Next, Rpc, Poller

LEMMA InvHolds == Spec => []GripperInv
  BY InitHasInv, StepKeepsInv, PTL DEF Spec

\* Every variable keeps its type, the goal included, for any scale and any
\* widths asked for.
THEOREM GripperTyped == Spec => []TypeOK
<1>1. GripperInv => TypeOK
  BY DEF GripperInv
<1>2. QED
  BY InvHolds, <1>1, PTL

\* The RPC thread and the poller are never in a transaction together, and none is
\* on a closed link, also when the poller's join has timed out.
THEOREM LinkGuarded == Spec => []LinkIsGuarded
<1>1. GripperInv => LinkIsGuarded
  BY DEF GripperInv, LockMatches, StopTakesLink, TypeOK, LinkIsGuarded, InTransaction
<1>2. QED
  BY InvHolds, <1>1, PTL

\* No broadcast carries an older state than the one before it.
THEOREM BroadcastsOrdered == Spec => BroadcastsInOrder
<1>1. GripperInv /\ [Next]_vars => [sent' >= sent]_vars
  <2> SUFFICES ASSUME GripperInv, Next PROVE sent' >= sent
    OBVIOUS
  <2>1. CASE RpcSends
    BY <2>1 DEF RpcSends, SendState, GripperInv, ReadingsFollow
  <2>2. CASE PollerSends
    BY <2>2 DEF PollerSends, SendState, GripperInv, ReadingsFollow
  <2>3. CASE UNCHANGED sent
    BY <2>3 DEF GripperInv, TypeOK
  <2>4. QED
    BY <2>1, <2>2, <2>3 DEF Next, Rpc, Poller, StateChanges, TakeRequest,
       LockForRequest, CommandEnds, RpcReads, Interrupt, StopPolling, PollerJoined,
       LockForDisconnect, Disconnect, PollerWakes, PollerTries, PollerReads
<1>2. QED
  BY InvHolds, <1>1, PTL DEF Spec, BroadcastsInOrder

\* The goal is always the position nearest to the width it was asked as.
THEOREM GoalNearest == Spec => []GoalIsNearest
<1>1. Init => GoalIsNearest
  BY DEF Init, GoalIsNearest
<1>2. GoalIsNearest /\ [Next]_vars => GoalIsNearest'
  <2> SUFFICES ASSUME GoalIsNearest, [Next]_vars PROVE GoalIsNearest'
    OBVIOUS
  <2>1. CASE UNCHANGED <<asked, goal>>
    BY <2>1 DEF GoalIsNearest, Nearest, Distance, PositionToParts, Clamp
  <2>2. CASE asked' \in Widths /\ goal' = WidthToPosition(asked')
    <3>1. PICK w \in Widths : w = asked'
      BY <2>2
    <3>2. Nearest(WidthToPosition(w), w)
      BY NearestPosition, GripperAssumption
    <3>3. QED
      BY <2>2, <3>1, <3>2 DEF GoalIsNearest
  <2>3. QED
    BY <2>1, <2>2 DEF Next, Rpc, Poller, vars, StateChanges, TakeRequest, LockForRequest,
       CommandEnds, RpcReads, RpcSends, Interrupt, StopPolling, PollerJoined,
       LockForDisconnect, Disconnect, PollerWakes, PollerTries, PollerReads, PollerSends
<1>3. QED
  BY <1>1, <1>2, PTL DEF Spec

-----------------------------------------------------------------------------
(***************************************************************************)
(* The composition with a client and its cache.                             *)
(***************************************************************************)
ClientInv == GripperInv /\ ClientTypeOK /\ \A i \in 1..Len(wire) : wire[i] <= clock

\* Every step of the composition is one of the server's, or leaves it alone.
LEMMA ClientStepIsServerStep == [ClientNext]_allVars => [Next]_vars
<1> SUFFICES ASSUME [ClientNext]_allVars PROVE [Next]_vars
  OBVIOUS
<1>1. CASE Environment
  BY <1>1 DEF Environment, Next
<1>2. CASE ServerTakes
  BY <1>2 DEF ServerTakes, Next, Rpc
<1>3. CASE ServerAcknowledges
  BY <1>3 DEF ServerAcknowledges
<1>4. CASE ServerWorks
  BY <1>4 DEF ServerWorks, Next, Rpc
<1>5. CASE ServerEnds
  BY <1>5 DEF ServerEnds, Next, Rpc
<1>6. CASE PollerPublishes
  BY <1>6 DEF PollerPublishes, Next, Poller
<1>7. CASE PollerWorks
  BY <1>7 DEF PollerWorks, Next, Poller
<1>8. CASE Call
  BY <1>8 DEF Call, UserCalls, UserLeaves, ExitDisconnects, CallTimesOut, CallReturns, Sends
<1>9. CASE Cache
  BY <1>9 DEF Cache, CacheStarts, CacheReceives, CacheTimesOut, CacheCloses
<1>10. CASE UNCHANGED allVars
  BY <1>10 DEF allVars
<1>11. QED
  BY <1>1, <1>2, <1>3, <1>4, <1>5, <1>6, <1>7, <1>8, <1>9, <1>10 DEF ClientNext

\* The composition implements Gripper: whatever a program and its cache do, the
\* server's typing, guarded link, ordered broadcasts and nearest goal hold.
THEOREM ClientImplementsGripper == ClientSpec => Spec
<1>1. ClientInit => Init
  BY DEF ClientInit
<1>2. QED
  BY <1>1, ClientStepIsServerStep, PTL DEF ClientSpec, Spec

LEMMA ClientInitHasInv == ClientInit => ClientInv
<1> SUFFICES ASSUME ClientInit PROVE ClientInv
  OBVIOUS
<1> USE DEF ClientInit
<1>1. GripperInv
  BY InitHasInv
<1>2. clock = 0 /\ MaxClock \in Nat /\ MaxWire \in Nat
  BY GripperAssumption, ClientAssumption DEF Init
<1>3. {broken, closing} \subseteq BOOLEAN
  BY Zenon
<1>4. wire \in Seq(0..MaxClock) /\ Len(wire) = 0
  OBVIOUS
<1>5. request \in RequestState /\ cached \in {Nothing} \cup 0..MaxClock /\ cached <= clock
  BY <1>2 DEF RequestState, Nothing
<1>6. ClientTypeOK
  BY <1>2, <1>3, <1>4, <1>5 DEF ClientTypeOK
<1>7. QED
  BY <1>1, <1>4, <1>6 DEF ClientInv

\* No step turns the clock back, and a broadcast is no newer than it.
LEMMA ClockOnlyGrows == GripperInv /\ [Next]_vars => clock' >= clock /\ clock' \in 0..MaxClock
<1> SUFFICES ASSUME GripperInv, [Next]_vars PROVE clock' >= clock /\ clock' \in 0..MaxClock
  OBVIOUS
<1>1. clock' \in 0..MaxClock
  BY StepKeepsInv DEF GripperInv, TypeOK
<1>2. clock' = clock \/ clock' = clock + 1
  BY DEF Next, Rpc, Poller, vars, StateChanges, TakeRequest, LockForRequest,
     CommandEnds, RpcReads, RpcSends, Interrupt, StopPolling, PollerJoined,
     LockForDisconnect, Disconnect, PollerWakes, PollerTries, PollerReads, PollerSends
<1>3. QED
  BY <1>1, <1>2, GripperAssumption DEF GripperInv, TypeOK

\* The broadcasts on their way stay readings of the past.
LEMMA WireKept ==
    ASSUME ClientInv, [Next]_vars,
           \/ UNCHANGED <<wire, cached>>
           \/ (\E c \in {read["rpc"], read["poller"]} : Broadcast(c))
           \/ CacheReceives
    PROVE  /\ wire' \in Seq(0..MaxClock) /\ Len(wire') <= MaxWire
           /\ \A i \in 1..Len(wire') : wire'[i] <= clock'
           /\ cached' \in {Nothing} \cup 0..MaxClock /\ cached' <= clock'
<1>1. /\ clock \in 0..MaxClock /\ clock' \in 0..MaxClock /\ clock' >= clock
      /\ MaxClock \in Nat /\ MaxWire \in Nat
      /\ Nothing = -1
  BY ClockOnlyGrows, GripperAssumption, ClientAssumption DEF ClientInv, GripperInv, TypeOK, Nothing
<1>2. /\ wire \in Seq(0..MaxClock) /\ Len(wire) <= MaxWire
      /\ cached \in {Nothing} \cup 0..MaxClock /\ cached <= clock
      /\ \A i \in 1..Len(wire) : wire[i] <= clock
  BY DEF ClientInv, ClientTypeOK
<1>3. \A i \in 1..Len(wire) : wire[i] \in 0..MaxClock
  BY <1>2, ElementOfSeq
<1>4. CASE UNCHANGED <<wire, cached>>
  <2>1. \A i \in 1..Len(wire) : wire[i] <= clock'
    BY <1>1, <1>2, <1>3
  <2>2. cached <= clock'
    BY <1>1, <1>2
  <2>3. QED
    BY <1>2, <1>4, <2>1, <2>2
<1>5. CASE \E c \in {read["rpc"], read["poller"]} : Broadcast(c)
  <2>1. PICK c \in {read["rpc"], read["poller"]} : Broadcast(c)
    BY <1>5
  <2>2. c \in 0..MaxClock /\ c <= clock
    BY DEF ClientInv, GripperInv, TypeOK, ReadingsFollow
  <2>3. cached' = cached
    BY <2>1 DEF Broadcast
  <2>4. CASE wire' = wire
    BY <1>4, <2>3, <2>4
  <2>5. CASE Len(wire) < MaxWire /\ wire' = Append(wire, c)
    <3>1. wire' \in Seq(0..MaxClock) /\ Len(wire') = Len(wire) + 1
      BY <1>2, <2>2, <2>5
    <3>2. Len(wire') <= MaxWire
      BY <1>1, <1>2, <2>5, <3>1
    <3>3. ASSUME NEW i \in 1..Len(wire') PROVE wire'[i] <= clock'
      <4>1. CASE i = Len(wire) + 1
        <5>1. wire'[i] = c
          BY <1>2, <2>5, <4>1
        <5>2. QED
          BY <1>1, <2>2, <5>1
      <4>2. CASE i # Len(wire) + 1
        <5>1. i \in 1..Len(wire) /\ wire'[i] = wire[i]
          BY <1>2, <2>5, <3>1, <4>2
        <5>2. QED
          BY <1>1, <1>2, <1>3, <5>1
      <4>3. QED
        BY <4>1, <4>2
    <3>4. cached <= clock'
      BY <1>1, <1>2
    <3>5. QED
      BY <1>2, <2>3, <3>1, <3>2, <3>3, <3>4
  <2>6. QED
    BY <2>1, <2>4, <2>5 DEF Broadcast
<1>6. CASE CacheReceives
  <2>1. wire # <<>> /\ cached' = Head(wire) /\ wire' = Tail(wire)
    BY <1>6 DEF CacheReceives
  <2>2. /\ Len(wire) \in Nat \ {0} /\ Head(wire) = wire[1]
        /\ Tail(wire) \in Seq(0..MaxClock) /\ Len(Tail(wire)) = Len(wire) - 1
        /\ \A i \in 1..Len(Tail(wire)) : Tail(wire)[i] = wire[i + 1]
    BY <1>2, <2>1
  <2>3. cached' \in 0..MaxClock /\ cached' <= clock'
    <3>1. 1 \in 1..Len(wire)
      BY <2>2
    <3>2. wire[1] \in 0..MaxClock /\ wire[1] <= clock
      BY <1>2, <1>3, <3>1
    <3>3. cached' = wire[1]
      BY <2>1, <2>2
    <3>4. QED
      BY <1>1, <3>2, <3>3
  <2>4. ASSUME NEW i \in 1..Len(wire') PROVE wire'[i] <= clock'
    <3>1. i \in 1..(Len(wire) - 1) /\ Len(wire) \in Nat
      BY <2>1, <2>2
    <3>2. i + 1 \in 1..Len(wire)
      BY <3>1
    <3>3. wire'[i] = wire[i + 1]
      BY <2>1, <2>2
    <3>4. wire[i + 1] \in 0..MaxClock /\ wire[i + 1] <= clock
      BY <1>2, <1>3, <3>2
    <3>5. QED
      BY <1>1, <3>3, <3>4
  <2>5. Len(wire') <= MaxWire
    <3>1. Len(wire') = Len(wire) - 1 /\ Len(wire) \in Nat /\ Len(wire) <= MaxWire
      BY <1>2, <2>1, <2>2
    <3>2. QED
      BY <1>1, <3>1
  <2>6. QED
    BY <2>1, <2>2, <2>3, <2>4, <2>5
<1>7. QED
  BY <1>4, <1>5, <1>6

\* A step does one of three things to the broadcasts.
LEMMA WireSteps ==
    ASSUME [ClientNext]_allVars
    PROVE  \/ UNCHANGED <<wire, cached>>
           \/ (\E c \in {read["rpc"], read["poller"]} : Broadcast(c))
           \/ CacheReceives
<1>1. CASE Environment \/ ServerTakes \/ ServerAcknowledges \/ ServerEnds \/ PollerWorks
  BY <1>1 DEF Environment, ServerTakes, ServerAcknowledges, ServerEnds, PollerWorks, cacheVars
<1>2. CASE ServerWorks
  BY <1>2 DEF ServerWorks, cacheVars
<1>3. CASE PollerPublishes
  BY <1>3 DEF PollerPublishes
<1>4. CASE Call
  BY <1>4 DEF Call, UserCalls, UserLeaves, ExitDisconnects, CallTimesOut, CallReturns,
     Sends, cacheVars
<1>5. CASE Cache
  BY <1>5 DEF Cache, CacheStarts, CacheTimesOut, CacheCloses
<1>6. CASE UNCHANGED allVars
  BY <1>6 DEF allVars, cacheVars
<1>7. QED
  BY <1>1, <1>2, <1>3, <1>4, <1>5, <1>6 DEF ClientNext

\* What the rest of the client's type invariant says: of the program and of its
\* socket.
ProgramTypeOK ==
    /\ request \in RequestState
    /\ socket \in {"ready", "awaiting", "closed"}
    /\ user \in {"body", "calling", "leaving", "disconnecting", "clean", "raised"}
    /\ broken \in BOOLEAN
    /\ user \in {"clean", "raised"} <=> socket = "closed"
    /\ user \in {"calling", "disconnecting"} => socket = "awaiting"

\* An exception leaves the program where it may be: in or leaving its block, or
\* out of it with the socket closed.
LEMMA RaisesKeeps ==
    ASSUME ProgramTypeOK, Raises, request' \in RequestState,
           user \notin {"clean", "raised"}
    PROVE  ProgramTypeOK'
  BY DEF ProgramTypeOK, Raises

LEMMA ProgramKept == ProgramTypeOK /\ [ClientNext]_allVars => ProgramTypeOK'
<1> SUFFICES ASSUME ProgramTypeOK, [ClientNext]_allVars PROVE ProgramTypeOK'
  OBVIOUS
<1>1. CASE UNCHANGED <<socket, user, broken>> /\ request' \in RequestState
  BY <1>1 DEF ProgramTypeOK
<1>2. CASE UNCHANGED callVars
  BY <1>1, <1>2 DEF callVars, ProgramTypeOK
<1>3. CASE ServerTakes
  BY <1>1, <1>3 DEF ServerTakes, ProgramTypeOK, RequestState
<1>4. CASE ServerAcknowledges
  BY <1>1, <1>4 DEF ServerAcknowledges, RequestState
<1>5. CASE Answers(TRUE) \/ Answers(FALSE)
  BY <1>1, <1>5 DEF Answers, ProgramTypeOK, RequestState
<1>6. CASE ServerWorks
  BY <1>2, <1>5, <1>6 DEF ServerWorks
<1>7. CASE ServerEnds
  BY <1>1, <1>2, <1>7 DEF ServerEnds, ProgramTypeOK, RequestState
<1>8. CASE Call
  <2>1. request \in RequestState
    BY DEF ProgramTypeOK
  <2>2. ASSUME Raises, UNCHANGED request, user \notin {"clean", "raised"}
        PROVE  ProgramTypeOK'
    BY <2>1, <2>2, RaisesKeeps
  <2>3. CASE UserCalls
    BY <2>2, <2>3 DEF UserCalls, Sends, ProgramTypeOK, RequestState
  <2>4. CASE UserLeaves
    BY <2>4 DEF UserLeaves, ProgramTypeOK
  <2>5. CASE ExitDisconnects
    BY <2>2, <2>5 DEF ExitDisconnects, Sends, ProgramTypeOK, RequestState
  <2>6. CASE CallTimesOut
    BY <2>2, <2>6 DEF CallTimesOut
  <2>7. CASE CallReturns
    BY <2>7 DEF CallReturns, ProgramTypeOK, RequestState
  <2>8. QED
    BY <1>8, <2>3, <2>4, <2>5, <2>6, <2>7 DEF Call
<1>9. QED
  BY <1>2, <1>3, <1>4, <1>6, <1>7, <1>8 DEF ClientNext, allVars, Environment,
     PollerPublishes, PollerWorks, Cache, CacheStarts, CacheReceives, CacheTimesOut,
     CacheCloses

LEMMA CacheTypeKept ==
    ASSUME cacheAt \in {"none", "receiving", "ended"}, closing \in BOOLEAN,
           [ClientNext]_allVars
    PROVE  cacheAt' \in {"none", "receiving", "ended"} /\ closing' \in BOOLEAN
<1>1. CASE UNCHANGED <<cacheAt, closing>>
  BY <1>1
<1>2. CASE Cache
  BY <1>2 DEF Cache, CacheStarts, CacheReceives, CacheTimesOut, CacheCloses, LoopsOn
<1>3. CASE Call
  BY <1>1, <1>3 DEF Call, UserCalls, UserLeaves, ExitDisconnects, CallTimesOut,
     CallReturns, Sends, cacheVars
<1>4. CASE ServerWorks \/ PollerPublishes
  BY <1>1, <1>4 DEF ServerWorks, PollerPublishes, Broadcast, cacheVars
<1>5. QED
  BY <1>1, <1>2, <1>3, <1>4 DEF ClientNext, allVars, cacheVars, Environment, ServerTakes,
     ServerAcknowledges, ServerEnds, PollerWorks

LEMMA ClientInvNext == ClientInv /\ [ClientNext]_allVars => ClientInv'
<1> SUFFICES ASSUME ClientInv, [ClientNext]_allVars PROVE ClientInv'
  OBVIOUS
<1>1. [Next]_vars
  BY ClientStepIsServerStep
<1>2. GripperInv'
  BY <1>1, StepKeepsInv DEF ClientInv
<1>3. /\ wire' \in Seq(0..MaxClock) /\ Len(wire') <= MaxWire
      /\ \A i \in 1..Len(wire') : wire'[i] <= clock'
      /\ cached' \in {Nothing} \cup 0..MaxClock /\ cached' <= clock'
  BY <1>1, WireSteps, WireKept
<1>4. ClientTypeOK
  BY DEF ClientInv
<1>5. broken \in BOOLEAN /\ closing \in BOOLEAN
  <2>1. {broken, closing} \subseteq BOOLEAN
    BY <1>4 DEF ClientTypeOK
  <2>2. QED
    BY <2>1
<1>6. ProgramTypeOK'
  BY <1>4, <1>5, ProgramKept DEF ClientTypeOK, ProgramTypeOK
<1>7. cacheAt' \in {"none", "receiving", "ended"} /\ closing' \in BOOLEAN
  BY <1>4, <1>5, CacheTypeKept DEF ClientTypeOK
<1>8. {broken', closing'} \subseteq BOOLEAN
  BY <1>6, <1>7 DEF ProgramTypeOK
<1>9. ClientTypeOK'
  BY <1>3, <1>6, <1>7, <1>8 DEF ClientTypeOK, ProgramTypeOK
<1>10. QED
  BY <1>2, <1>3, <1>9 DEF ClientInv

LEMMA ClientInvHolds == ClientSpec => []ClientInv
  BY ClientInitHasInv, ClientInvNext, PTL DEF ClientSpec

\* The client's variables keep their types for any number of broadcasts, and the
\* cache never holds a state the gripper has not been in.
THEOREM ClientTyped == ClientSpec => []ClientTypeOK
<1>1. ClientInv => ClientTypeOK
  BY DEF ClientInv
<1>2. QED
  BY ClientInvHolds, <1>1, PTL

\* What is on its way to the cache is no older than what it holds, in the order it
\* was sent in, and no newer than the last broadcast.
WireFollows ==
    /\ cached <= sent
    /\ \A i \in 1..Len(wire) : cached <= wire[i] /\ wire[i] <= sent
    /\ \A i, j \in 1..Len(wire) : i < j => wire[i] <= wire[j]

\* A broadcast is the one that was sent; nothing else changes the two at once.
LEMMA BroadcastSteps ==
    ASSUME GripperInv, [ClientNext]_allVars
    PROVE  \/ sent' = sent /\ UNCHANGED <<wire, cached>>
           \/ sent' \in {read["rpc"], read["poller"]} /\ sent <= sent' /\ Broadcast(sent')
           \/ CacheReceives /\ UNCHANGED <<sent, clock>>
<1> USE DEF vars
<1>1. CASE Environment
  BY <1>1 DEF Environment, StateChanges, cacheVars
<1>2. CASE ServerTakes \/ ServerAcknowledges
  BY <1>2 DEF ServerTakes, ServerAcknowledges, TakeRequest, cacheVars
<1>3. CASE ServerEnds
  BY <1>3 DEF ServerEnds, Interrupt, StopPolling, PollerJoined, LockForDisconnect, Disconnect,
     cacheVars
<1>4. CASE ServerWorks
  <2>1. CASE RpcSends /\ Broadcast(read["rpc"])
    <3>1. sent' = read["rpc"] /\ sent <= read["rpc"]
      BY <2>1 DEF RpcSends, SendState, GripperInv, ReadingsFollow
    <3>2. QED
      BY <2>1, <3>1
  <2>2. CASE UNCHANGED sent /\ UNCHANGED cacheVars
    BY <2>2 DEF cacheVars
  <2>3. QED
    BY <1>4, <2>1, <2>2 DEF ServerWorks, LockForRequest, CommandEnds, RpcReads
<1>5. CASE PollerPublishes
  <2>1. sent' = read["poller"] /\ sent <= read["poller"]
    BY <1>5 DEF PollerPublishes, PollerSends, SendState, GripperInv, ReadingsFollow
  <2>2. QED
    BY <1>5, <2>1 DEF PollerPublishes
<1>6. CASE PollerWorks
  BY <1>6 DEF PollerWorks, PollerWakes, PollerTries, PollerReads, cacheVars
<1>7. CASE Call
  BY <1>7 DEF Call, UserCalls, UserLeaves, ExitDisconnects, CallTimesOut, CallReturns,
     Sends, cacheVars
<1>8. CASE Cache
  BY <1>8 DEF Cache, CacheStarts, CacheReceives, CacheTimesOut, CacheCloses
<1>9. CASE UNCHANGED allVars
  BY <1>9 DEF allVars, cacheVars
<1>10. QED
  BY <1>1, <1>2, <1>3, <1>4, <1>5, <1>6, <1>7, <1>8, <1>9 DEF ClientNext

LEMMA WireNumbers ==
    ASSUME ClientInv
    PROVE  /\ wire \in Seq(0..MaxClock) /\ Len(wire) \in Nat
           /\ \A i \in 1..Len(wire) : wire[i] \in Int
           /\ cached \in Int /\ sent \in Int
           /\ read["rpc"] \in Int /\ read["poller"] \in Int
<1>1. wire \in Seq(0..MaxClock) /\ MaxClock \in Nat
  BY GripperAssumption DEF ClientInv, ClientTypeOK
<1>2. \A i \in 1..Len(wire) : wire[i] \in 0..MaxClock
  BY <1>1, ElementOfSeq
<1>3. Len(wire) \in Nat
  BY <1>1
<1>4. \A i \in 1..Len(wire) : wire[i] \in Int
  BY <1>1, <1>2
<1>5. cached \in Int
  BY <1>1 DEF ClientInv, ClientTypeOK, Nothing
<1>6. sent \in Int /\ read["rpc"] \in Int /\ read["poller"] \in Int
  BY <1>1 DEF ClientInv, GripperInv, TypeOK
<1>7. QED
  BY <1>1, <1>3, <1>4, <1>5, <1>6

\* What a cache receives is the oldest broadcast on its way.
LEMMA ReceiptFollows ==
    ASSUME ClientInv, WireFollows, CacheReceives, UNCHANGED sent
    PROVE  /\ cached <= cached' /\ cached' <= sent
           /\ WireFollows'
<1>1. wire # <<>> /\ cached' = Head(wire) /\ wire' = Tail(wire)
  BY DEF CacheReceives
<1>2. /\ Len(wire) \in Nat \ {0} /\ Head(wire) = wire[1]
      /\ Len(Tail(wire)) = Len(wire) - 1
      /\ \A i \in 1..Len(Tail(wire)) : Tail(wire)[i] = wire[i + 1]
  BY <1>1, WireNumbers, HeadTailProperties, EmptySeq
<1>3. 1 \in 1..Len(wire)
  BY <1>2
<1>4. cached' = wire[1] /\ cached <= cached' /\ cached' <= sent
  BY <1>1, <1>2, <1>3 DEF WireFollows
<1>5. ASSUME NEW i \in 1..Len(wire')
      PROVE  i + 1 \in 2..Len(wire) /\ i + 1 \in 1..Len(wire) /\ wire'[i] = wire[i + 1]
  BY <1>1, <1>2
<1>6. ASSUME NEW i \in 1..Len(wire') PROVE cached' <= wire'[i] /\ wire'[i] <= sent
  <2>1. 1 < i + 1
    BY <1>5
  <2>2. wire[1] <= wire[i + 1] /\ wire[i + 1] <= sent
    BY <1>3, <1>5, <2>1 DEF WireFollows
  <2>3. QED
    BY <1>4, <1>5, <2>2
<1>7. ASSUME NEW i \in 1..Len(wire'), NEW j \in 1..Len(wire'), i < j
      PROVE  wire'[i] <= wire'[j]
  <2>1. i + 1 < j + 1
    BY <1>7
  <2>2. QED
    BY <1>5, <2>1 DEF WireFollows
<1>8. QED
  BY <1>4, <1>6, <1>7 DEF WireFollows

\* A broadcast goes behind all others, if it does not get lost.
LEMMA BroadcastFollows ==
    ASSUME ClientInv, WireFollows, Broadcast(sent'), sent <= sent',
           sent' \in {read["rpc"], read["poller"]}
    PROVE  WireFollows' /\ UNCHANGED cached
<1>1. UNCHANGED cached
  BY DEF Broadcast
<1>2. sent \in Int /\ sent' \in Int /\ cached \in Int /\ cached <= sent'
  BY WireNumbers DEF WireFollows
<1>3. \A i \in 1..Len(wire) : cached <= wire[i] /\ wire[i] <= sent' /\ wire[i] \in Int
  BY <1>2, WireNumbers DEF WireFollows
<1>4. CASE wire' = wire
  BY <1>1, <1>2, <1>3, <1>4 DEF WireFollows
<1>5. CASE wire' = Append(wire, sent')
  <2>1. sent' \in 0..MaxClock
    BY DEF ClientInv, GripperInv, TypeOK
  <2>2. /\ Len(wire') = Len(wire) + 1
        /\ \A i \in 1..Len(wire) : wire'[i] = wire[i]
        /\ wire'[Len(wire) + 1] = sent'
    BY <1>5, <2>1, WireNumbers, AppendProperties
  <2>3. ASSUME NEW i \in 1..Len(wire') PROVE cached <= wire'[i] /\ wire'[i] <= sent'
    BY <1>2, <1>3, <2>2, WireNumbers
  <2>4. ASSUME NEW i \in 1..Len(wire'), NEW j \in 1..Len(wire'), i < j
        PROVE  wire'[i] <= wire'[j]
    <3>1. i \in 1..Len(wire) /\ wire'[i] = wire[i]
      BY <2>2, <2>4, WireNumbers
    <3>2. CASE j \in 1..Len(wire)
      BY <2>2, <2>4, <3>1, <3>2 DEF WireFollows
    <3>3. CASE j = Len(wire) + 1
      BY <1>3, <2>2, <3>1, <3>3
    <3>4. QED
      BY <2>2, <3>2, <3>3, WireNumbers
  <2>5. QED
    BY <1>1, <1>2, <2>3, <2>4 DEF WireFollows
<1>6. QED
  BY <1>1, <1>4, <1>5 DEF Broadcast

LEMMA WireFollowsNext ==
    ClientInv /\ WireFollows /\ [ClientNext]_allVars => WireFollows'
<1> SUFFICES ASSUME ClientInv, WireFollows, [ClientNext]_allVars PROVE WireFollows'
  OBVIOUS
<1>1. CASE sent' = sent /\ UNCHANGED <<wire, cached>>
  BY <1>1 DEF WireFollows
<1>2. QED
  BY <1>1, BroadcastSteps, ReceiptFollows, BroadcastFollows DEF ClientInv

\* A cache holds what the gripper was, and newer states only: readings of two
\* threads are sent under one lock, so they are on their way in the order they were
\* taken in, and the cache takes them in that order; it implements LatestValue.
THEOREM CacheOnlyAdvances == ClientSpec => CacheKeepsLatest
<1> DEFINE place == [r \in {"latest"} |-> cached + 1]
<1>1. ClientInit => WireFollows /\ Feed!Init
  <2> SUFFICES ASSUME ClientInit PROVE WireFollows /\ Feed!Init
    OBVIOUS
  <2>1. cached = -1 /\ wire = <<>> /\ sent = 0 /\ clock = 0
    BY DEF ClientInit, Init, Nothing
  <2>2. QED
    BY <2>1 DEF WireFollows, Feed!Init
<1>2. ClientInv /\ WireFollows /\ [ClientNext]_allVars => [Feed!Next]_(Feed!vars)
  <2> SUFFICES ASSUME ClientInv, WireFollows, [ClientNext]_allVars
               PROVE  Feed!Next \/ UNCHANGED Feed!vars
    OBVIOUS
  <2>1. /\ clock \in Nat /\ sent \in Nat /\ sent <= clock
        /\ cached \in Int /\ cached >= -1
    BY GripperAssumption DEF ClientInv, GripperInv, TypeOK, ReadingsFollow, ClientTypeOK, Nothing
  <2>2. clock' = clock \/ clock' = clock + 1
    BY ClientStepIsServerStep DEF Next, Rpc, Poller, vars, StateChanges, TakeRequest,
       LockForRequest, CommandEnds, RpcReads, RpcSends, Interrupt, StopPolling, PollerJoined,
       LockForDisconnect, Disconnect, PollerWakes, PollerTries, PollerReads, PollerSends
  <2>3. CASE UNCHANGED cached /\ UNCHANGED clock
    BY <2>3 DEF Feed!vars
  <2>4. CASE UNCHANGED cached /\ clock' = clock + 1
    <3>1. clock' + 1 = (clock + 1) + 1
      BY <2>1, <2>4
    <3>2. QED
      BY <2>4, <3>1 DEF Feed!Next, Feed!Renew
  <2>5. CASE CacheReceives /\ UNCHANGED <<sent, clock>>
    <3>1. cached <= cached' /\ cached' <= sent
      BY <2>5, ReceiptFollows
    <3>2. cached' + 1 \in (cached + 1) .. (clock + 1)
      <4>1. ClientTypeOK'
        BY ClientInvNext DEF ClientInv
      <4>2. cached' \in Int
        BY <4>1, GripperAssumption DEF ClientTypeOK, Nothing
      <4>3. ASSUME NEW a \in Int, NEW b \in Int, a <= b, b <= clock
            PROVE  b + 1 \in (a + 1) .. (clock + 1)
        BY <2>1, <4>3
      <4>4. cached' <= clock
        BY <2>1, <3>1, <4>2
      <4>5. QED
        BY <2>1, <3>1, <4>2, <4>3, <4>4
    <3>3. place' = [place EXCEPT !["latest"] = cached' + 1] /\ place["latest"] = cached + 1
      OBVIOUS
    <3> HIDE DEF place
    <3>4. Feed!Catch("latest")
      BY <2>5, <3>2, <3>3 DEF Feed!Catch, place
    <3>5. QED
      BY <3>4 DEF Feed!Next
  <2>6. QED
    BY <2>2, <2>3, <2>4, <2>5, BroadcastSteps, BroadcastFollows DEF ClientInv
<1>3. QED
  BY <1>1, <1>2, ClientInitHasInv, ClientInvNext, WireFollowsNext, PTL
     DEF ClientSpec, CacheKeepsLatest, Feed!Spec

\* A program that leaves its with block without an exception leaves no command
\* of its own behind, in the socket or in the server.
THEOREM CleanExitQuiet == ClientSpec => []CleanExitIsQuiet
<1>1. ClientInit => CleanExitIsQuiet
  BY DEF ClientInit, CleanExitIsQuiet
<1>2. ClientInv /\ CleanExitIsQuiet /\ [ClientNext]_allVars => CleanExitIsQuiet'
  <2> SUFFICES ASSUME ClientTypeOK, CleanExitIsQuiet, [ClientNext]_allVars, user' = "clean"
               PROVE  request' = "none"
    BY DEF ClientInv, CleanExitIsQuiet
  <2>1. CASE user = "clean"
    <3>1. request = "none"
      BY <2>1 DEF CleanExitIsQuiet
    <3>2. CASE UNCHANGED request
      BY <3>1, <3>2
    <3>3. CASE Answers(TRUE) \/ Answers(FALSE)
      BY <3>1, <3>3 DEF Answers
    <3>4. CASE Call
      BY <2>1, <3>4 DEF Call, UserCalls, UserLeaves, ExitDisconnects, CallTimesOut, CallReturns
    <3>5. QED
      BY <3>1, <3>2, <3>3, <3>4 DEF ClientNext, allVars, callVars, Environment, ServerTakes,
         ServerAcknowledges, ServerWorks, ServerEnds, PollerPublishes, PollerWorks, Cache,
         CacheStarts, CacheReceives, CacheTimesOut, CacheCloses
  <2>2. CASE user # "clean"
    <3>1. CASE UNCHANGED user
      BY <2>2, <3>1
    <3>2. CASE CallReturns
      BY <3>2 DEF CallReturns
    <3>3. CASE UserCalls \/ UserLeaves \/ ExitDisconnects \/ CallTimesOut
      BY <3>3 DEF UserCalls, UserLeaves, ExitDisconnects, CallTimesOut, Sends, Raises
    <3>4. QED
      BY <3>1, <3>2, <3>3 DEF ClientNext, allVars, callVars, Environment, ServerTakes,
         ServerAcknowledges, ServerWorks, ServerEnds, PollerPublishes, PollerWorks, Call,
         Cache, CacheStarts, CacheReceives, CacheTimesOut, CacheCloses, Answers
  <2>3. QED
    BY <2>1, <2>2
<1>3. QED
  BY ClientInvHolds, <1>1, <1>2, PTL DEF ClientSpec
====
