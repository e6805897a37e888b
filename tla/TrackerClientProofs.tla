------------------------- MODULE TrackerClientProofs -------------------------
(***************************************************************************)
(* Proofs about StateStream and TrackerClient: the threads and queues of    *)
(* the state stream, the request a REQ socket has under way, and what a     *)
(* program may conclude from an answer or a snapshot about its session.     *)
(***************************************************************************)
EXTENDS TrackerClient, SequenceTheorems, TLAPS

-----------------------------------------------------------------------------
(***************************************************************************)
(* The inductive invariant of the stream.                                   *)
(***************************************************************************)
\* What a socket's queue holds: snapshots in the order of their publishing, all
\* younger than the first argument and none younger than the second.
InOrder(q, low, high) ==
    /\ \A i \in 1..Len(q) : low < q[i].seq /\ q[i].seq <= high
    /\ \A i, j \in 1..Len(q) : i < j => q[i].seq < q[j].seq

\* What a reader has seen last.
Newest == IF latest = NoSnapshot THEN 0 ELSE latest.seq

\* There is one thread at most, and it is _state_stream_thread: a new one is
\* started only over a dead one.  Only a subscribed one has anything to read.
OneThread ==
    /\ \A w \in Worker : workerAt[w] # "dead" => w = thread
    /\ \A w \in Worker : workerAt[w] \in {"dead", "subscribing"} => pending[w] = <<>>
    /\ \A w \in Worker : workerAt[w] = "storing" => pending[w] # <<>>

StreamInv ==
    /\ StreamTypeOK
    /\ OneThread
    /\ Newest <= published
    /\ \A w \in Worker : InOrder(pending[w], Newest, published)

-----------------------------------------------------------------------------
(***************************************************************************)
(* The inductive invariant of the calls.                                    *)
(***************************************************************************)
\* A REQ socket that may send has nothing under way, and nothing overtakes: the
\* request, its handler, its response are there one at a time.
OneRequest ==
    /\ inbox = "none" \/ serving = "none"
    /\ reply = "none" \/ (inbox = "none" /\ serving = "none")
    /\ socket = "ready" => inbox = "none" /\ serving = "none" /\ reply = "none"
    /\ user \in Call => socket = "awaiting"
    /\ user = "before" => socket = "ready"

Stops == {"stop", "stop_bounded"}

\* What is under way is the call the user is in, if the user is in one; nobody is
\* left to call once the start has raised.
OwnRequest ==
    /\ inbox = "start" \/ serving = "start" => user \in {"call:start", "after"}
    /\ user = "call:start" => inbox \in {"none", "start"}
    /\ user \in {"call:status", "call:probe"} =>
          inbox \in {"none", "status"} /\ serving = "none"
    /\ user \in {"call:stop", "call:exit"} =>
          inbox \in Stops \cup {"none"} /\ serving \in Stops \cup {"none"}

\* How far the session is, by the handler that runs.
PhaseMatches ==
    /\ inbox = "start" \/ user = "before" => phase = "new" /\ ~ stopped
    /\ serving = "start" => phase = "registered"
    /\ serving # "status"
    /\ phase = "stopping" <=> serving \in Stops
    /\ phase = "new" => /\ motion \in {"none", "earlier"}
                       /\ user \in {"before", "call:start", "after"}
    /\ motion = "arming" => serving = "start"
    /\ phase \in {"stopping", "stopped"} => motion # "tracking"
    /\ outcome = "clean" => phase = "stopped"

\* What an answer says is true of the session when it is received.
AnswerHolds ==
    /\ user = "call:start" /\ reply \notin {"none", "error"} => phase # "new"
    /\ user = "call:probe" /\ reply = "idle" => motion # "tracking" \/ unattended
    /\ user \in {"call:stop", "call:exit"} /\ reply # "none" => phase = "stopped"

CallTypes ==
    /\ phase \in {"new", "registered", "stopping", "stopped"}
    /\ motion \in {"none", "earlier", "arming", "tracking", "ramping", "ending"}
    /\ unattended \in BOOLEAN
    /\ inbox \in Method \cup {"none"}
    /\ serving \in Method \cup {"none"}
    /\ reply \in Answer \cup {"none"}
    /\ socket \in {"ready", "awaiting"}
    /\ user \in Place
    /\ stopped \in BOOLEAN /\ broken \in BOOLEAN
    /\ outcome \in {"open", "clean", "raised"}

CallInv == CallTypes /\ OneRequest /\ OwnRequest /\ PhaseMatches /\ AnswerHolds

-----------------------------------------------------------------------------
(***************************************************************************)
(* The inductive invariant of the end of the loop, where no other motion    *)
(* runs before the session's.                                               *)
(***************************************************************************)
\* Once one snapshot of a queue is in control, so are those after it; the first
\* argument says that one before the queue was.
StaysTrue(q, before) ==
    /\ before => \A i \in 1..Len(q) : q[i].in_control
    /\ \A i, j \in 1..Len(q) : i < j => (q[i].in_control => q[j].in_control)

NoneTrue(q) == \A i \in 1..Len(q) : ~ q[i].in_control

\* Until the controller ends, what its callbacks publish turns true once and for
\* all, and the loop has seen it true only if the latest snapshot still is.
TurnsTrueOnce ==
    /\ phase = "new" => published = 0 /\ motion = "none" /\ ~ seen
    /\ motion = "arming" => /\ ~ SaysInControl
                           /\ \A w \in Worker : NoneTrue(pending[w])
    /\ motion \in {"arming", "tracking"} =>
          /\ \A w \in Worker : StaysTrue(pending[w], SaysInControl)
          /\ seen => SaysInControl

\* Outside of a stop, _stopped says that the session is over, or its policy is.
StoppedIsOver ==
    /\ stopped /\ user \notin {"leaving", "call:stop", "call:exit", "after"} =>
          motion \notin {"arming", "tracking"} \/ unattended
    /\ NoFalseEnd

LoopInv == StreamInv /\ CallInv /\ TurnsTrueOnce /\ StoppedIsOver

-----------------------------------------------------------------------------
(***************************************************************************)
(* Queues.                                                                  *)
(***************************************************************************)
\* A snapshot's place is a number.
LEMMA SnapshotFields ==
    ASSUME NEW s \in Snapshot
    PROVE  s.seq \in 1..MaxSnapshots /\ s.seq \in Nat /\ s.in_control \in BOOLEAN
  BY StreamAssumption DEF Snapshot

LEMMA QueueElements ==
    ASSUME NEW q \in Seq(Snapshot), NEW i \in 1..Len(q)
    PROVE  q[i] \in Snapshot /\ q[i].seq \in Nat
  BY ElementOfSeq, SnapshotFields

\* An empty queue holds nothing that could be out of order.
LEMMA EmptyQueue ==
    ASSUME NEW low, NEW high, NEW b
    PROVE  /\ <<>> \in Seq(Snapshot)
           /\ InOrder(<<>>, low, high)
           /\ StaysTrue(<<>>, b)
           /\ NoneTrue(<<>>)
  BY DEF InOrder, StaysTrue, NoneTrue

\* The next snapshot goes behind all that a queue holds.
LEMMA AppendInOrder ==
    ASSUME NEW q \in Seq(Snapshot), NEW low \in Nat, NEW high \in Nat,
           low <= high, high < MaxSnapshots, InOrder(q, low, high), NEW b \in BOOLEAN
    PROVE  /\ Append(q, [seq |-> high + 1, in_control |-> b]) \in Seq(Snapshot)
           /\ InOrder(Append(q, [seq |-> high + 1, in_control |-> b]), low, high + 1)
           /\ InOrder(q, low, high + 1)
<1> DEFINE s == [seq |-> high + 1, in_control |-> b]
           longer == Append(q, s)
<1>1. s \in Snapshot /\ s.seq = high + 1
  BY StreamAssumption DEF Snapshot
<1> HIDE DEF s
<1>2. /\ longer \in Seq(Snapshot) /\ Len(longer) = Len(q) + 1 /\ Len(q) \in Nat
      /\ \A i \in 1..Len(q) : longer[i] = q[i]
      /\ longer[Len(q) + 1] = s
  BY <1>1, AppendProperties, LenProperties
<1>3. /\ \A i \in 1..Len(q) : /\ q[i].seq \in Nat /\ low < q[i].seq
                             /\ q[i].seq <= high /\ q[i].seq <= high + 1
      /\ \A i, j \in 1..Len(q) : i < j => q[i].seq < q[j].seq
  BY QueueElements DEF InOrder
<1> HIDE DEF longer
<1>4. ASSUME NEW i \in 1..Len(longer)
      PROVE  low < longer[i].seq /\ longer[i].seq <= high + 1
  BY <1>1, <1>2, <1>3
<1>5. ASSUME NEW i \in 1..Len(longer), NEW j \in 1..Len(longer), i < j
      PROVE  longer[i].seq < longer[j].seq
  <2>1. i \in 1..Len(q) /\ longer[i] = q[i]
    BY <1>2, <1>5
  <2>2. CASE j \in 1..Len(q)
    BY <1>2, <1>3, <1>5, <2>1, <2>2
  <2>3. CASE j = Len(q) + 1
    BY <1>1, <1>2, <1>3, <2>1, <2>3
  <2>4. QED
    BY <1>2, <2>2, <2>3
<1>6. InOrder(longer, low, high + 1)
  BY <1>4, <1>5 DEF InOrder
<1>7. InOrder(q, low, high + 1)
  BY <1>3 DEF InOrder
<1>8. QED
  BY <1>2, <1>6, <1>7 DEF longer, s

\* What a queue holds behind its head is younger than the head.
LEMMA HeadIsOldest ==
    ASSUME NEW q \in Seq(Snapshot), q # <<>>, NEW low \in Nat, NEW high \in Nat,
           InOrder(q, low, high)
    PROVE  /\ Head(q) \in Snapshot
           /\ low < Head(q).seq /\ Head(q).seq <= high
           /\ Tail(q) \in Seq(Snapshot)
           /\ InOrder(Tail(q), Head(q).seq, high)
<1>1. /\ Len(q) \in Nat \ {0} /\ Head(q) = q[1]
      /\ Tail(q) \in Seq(Snapshot) /\ Len(Tail(q)) = Len(q) - 1
      /\ \A i \in 1..Len(Tail(q)) : Tail(q)[i] = q[i + 1]
  BY HeadTailProperties, EmptySeq
<1>2. \A i \in 1..Len(q) : q[i] \in Snapshot /\ low < q[i].seq /\ q[i].seq <= high
  BY QueueElements DEF InOrder
<1>3. \A i, j \in 1..Len(q) : i < j => q[i].seq < q[j].seq
  BY DEF InOrder
<1>4. 1 \in 1..Len(q)
  BY <1>1
<1> DEFINE rest == Tail(q)
           first == Head(q)
<1>5. ASSUME NEW i \in 1..Len(rest)
      PROVE  i + 1 \in 1..Len(q) /\ 1 < i + 1 /\ rest[i] = q[i + 1]
  BY <1>1
<1>6. Tail(q) \in Seq(Snapshot) /\ first = q[1]
  BY <1>1
<1> HIDE DEF rest, first
<1>7. ASSUME NEW i \in 1..Len(rest)
      PROVE  first.seq < rest[i].seq /\ rest[i].seq <= high
  BY <1>2, <1>3, <1>4, <1>5, <1>6
<1>8. ASSUME NEW i \in 1..Len(rest), NEW j \in 1..Len(rest), i < j
      PROVE  rest[i].seq < rest[j].seq
  <2>1. i \in Int /\ j \in Int
    BY DEF rest
  <2>2. i + 1 < j + 1
    BY <1>8, <2>1
  <2>3. QED
    BY <1>3, <1>5, <2>2
<1>9. InOrder(rest, first.seq, high)
  BY <1>7, <1>8 DEF InOrder
<1>10. first \in Snapshot /\ low < first.seq /\ first.seq <= high
  BY <1>2, <1>4, <1>6
<1>11. QED
  BY <1>6, <1>9, <1>10 DEF rest, first

-----------------------------------------------------------------------------
(***************************************************************************)
(* The stream.                                                              *)
(***************************************************************************)
LEMMA StreamInitHasInv == StreamInit => StreamInv
<1> SUFFICES ASSUME StreamInit PROVE StreamInv
  OBVIOUS
<1> USE StreamAssumption DEF StreamInit
<1>1. pending \in [Worker -> Seq(Snapshot)]
  BY EmptyQueue
<1>2. StreamTypeOK
  <2>1. workerAt \in [Worker -> WorkerStep]
    BY DEF WorkerStep
  <2>2. published \in 0..MaxSnapshots
    OBVIOUS
  <2>3. stopSet \in BOOLEAN
    OBVIOUS
  <2>4. QED
    BY <1>1, <2>1, <2>2, <2>3 DEF StreamTypeOK
<1>3. OneThread
  BY DEF OneThread
<1>4. Newest <= published
  BY DEF Newest
<1>5. \A w \in Worker : InOrder(pending[w], Newest, published)
  BY EmptyQueue
<1>6. QED
  BY <1>2, <1>3, <1>4, <1>5 DEF StreamInv

LEMMA NewestIsNumber == StreamTypeOK => Newest \in Nat /\ published \in Nat
  BY SnapshotFields, StreamAssumption DEF StreamTypeOK, Newest

\* PUB puts the next snapshot behind those of the sockets it serves.
LEMMA PublishKeepsStream ==
    ASSUME StreamInv, NEW b \in BOOLEAN, Publish(b)
    PROVE  StreamInv'
<1>1. /\ published < MaxSnapshots /\ published' = published + 1
      /\ UNCHANGED <<workerAt, thread, stopSet, error, latest>>
  BY DEF Publish
<1>2. published \in Nat /\ published' \in 0..MaxSnapshots /\ Newest \in Nat /\ Newest <= published
  BY <1>1, NewestIsNumber, StreamAssumption DEF StreamInv, StreamTypeOK
<1>3. Newest' = Newest
  BY <1>1 DEF Newest
<1>4. PICK served \in SUBSET Subscribed :
        pending' = [w \in Worker |->
            IF w \in served
            THEN Append(pending[w], [seq |-> published', in_control |-> b])
            ELSE pending[w]]
  BY DEF Publish
<1>5. ASSUME NEW w \in Worker
      PROVE  /\ pending'[w] \in Seq(Snapshot)
             /\ InOrder(pending'[w], Newest, published + 1)
  <2>1. pending[w] \in Seq(Snapshot) /\ InOrder(pending[w], Newest, published)
    BY DEF StreamInv, StreamTypeOK
  <2>2. /\ Append(pending[w], [seq |-> published + 1, in_control |-> b]) \in Seq(Snapshot)
        /\ InOrder(Append(pending[w], [seq |-> published + 1, in_control |-> b]), Newest, published + 1)
        /\ InOrder(pending[w], Newest, published + 1)
    BY <1>1, <1>2, <2>1, AppendInOrder
  <2>3. pending'[w] = Append(pending[w], [seq |-> published + 1, in_control |-> b])
        \/ pending'[w] = pending[w]
    BY <1>1, <1>4
  <2>4. QED
    BY <2>1, <2>2, <2>3
<1>6. pending' \in [Worker -> Seq(Snapshot)]
  BY <1>4, <1>5
<1>7. StreamTypeOK'
  BY <1>1, <1>2, <1>6 DEF StreamInv, StreamTypeOK
<1>8. OneThread'
  <2>1. ASSUME NEW w \in Worker, workerAt[w] \in {"dead", "subscribing"}
        PROVE  pending'[w] = pending[w]
    BY <1>4, <2>1 DEF Subscribed
  <2>2. ASSUME NEW w \in Worker, workerAt[w] = "storing" PROVE pending'[w] # <<>>
    <3>1. pending[w] # <<>> /\ pending[w] \in Seq(Snapshot)
      BY <2>2 DEF StreamInv, OneThread, StreamTypeOK
    <3>2. [seq |-> published', in_control |-> b] \in Snapshot
      BY <1>1, <1>2, StreamAssumption DEF Snapshot
    <3>3. QED
      BY <1>4, <3>1, <3>2, AppendProperties
  <2>3. QED
    BY <1>1, <2>1, <2>2 DEF StreamInv, OneThread
<1>9. Newest' <= published'
  BY <1>1, <1>2, <1>3
<1>10. \A w \in Worker : InOrder(pending'[w], Newest', published')
  BY <1>1, <1>3, <1>5
<1>11. QED
  BY <1>7, <1>8, <1>9, <1>10 DEF StreamInv

\* A thread that dies takes its socket and the queue with it.
LEMMA DyingKeepsStream ==
    ASSUME StreamInv, NEW w \in Worker, Dies(w, workerAt[w]),
           UNCHANGED <<published, thread, stopSet>>,
           error' \in {"none", "stored", "raised"},
           latest' \in Snapshot \cup {NoSnapshot}, Newest' <= published,
           \A v \in Worker : v # w => InOrder(pending[v], Newest', published)
    PROVE  StreamInv'
<1>1. /\ workerAt' = [workerAt EXCEPT ![w] = "dead"]
      /\ pending' = [pending EXCEPT ![w] = <<>>]
  BY DEF Dies, Steps
<1>2. <<>> \in Seq(Snapshot) /\ InOrder(<<>>, Newest', published)
  BY EmptyQueue
<1>3. pending \in [Worker -> Seq(Snapshot)] /\ workerAt \in [Worker -> WorkerStep]
  BY DEF StreamInv, StreamTypeOK
<1>4. pending' \in [Worker -> Seq(Snapshot)]
  BY <1>1, <1>2, <1>3
<1>5. workerAt' \in [Worker -> WorkerStep]
  BY <1>1, <1>3 DEF WorkerStep
<1>6. StreamTypeOK'
  BY <1>4, <1>5 DEF StreamInv, StreamTypeOK
<1>7. /\ workerAt'[w] = "dead" /\ pending'[w] = <<>>
      /\ \A v \in Worker : v # w => workerAt'[v] = workerAt[v] /\ pending'[v] = pending[v]
  BY <1>1, <1>3
<1>8. OneThread'
  BY <1>7 DEF StreamInv, OneThread
<1>9. \A v \in Worker : InOrder(pending'[v], Newest', published')
  BY <1>2, <1>7
<1>10. QED
  BY <1>6, <1>8, <1>9 DEF StreamInv

\* A thread that goes on without reading leaves the queues as they are.
LEMMA SteppingKeepsStream ==
    ASSUME StreamInv, NEW w \in Worker, NEW to \in WorkerStep, Steps(w, workerAt[w], to),
           workerAt[w] # "dead", to # "subscribing", to # "dead",
           to = "storing" => pending[w] # <<>>,
           UNCHANGED <<published, pending, thread, stopSet, error, latest>>
    PROVE  StreamInv'
<1>1. workerAt' = [workerAt EXCEPT ![w] = to]
  BY DEF Steps
<1>2. workerAt' \in [Worker -> WorkerStep]
  BY <1>1 DEF StreamInv, StreamTypeOK
<1>3. StreamTypeOK'
  BY <1>2 DEF StreamInv, StreamTypeOK
<1>4. \A v \in Worker : workerAt'[v] = IF v = w THEN to ELSE workerAt[v]
  BY <1>1 DEF StreamInv, StreamTypeOK
<1>5. OneThread'
  BY <1>4 DEF StreamInv, OneThread
<1>6. Newest' = Newest
  BY DEF Newest
<1>7. QED
  BY <1>3, <1>5, <1>6 DEF StreamInv

\* Storing takes the oldest snapshot of the only queue there is.
LEMMA StoreKeepsStream ==
    ASSUME StreamInv, NEW w \in Worker, Store(w)
    PROVE  StreamInv' /\ latest' \in Snapshot /\ Newest < latest'.seq
<1>1. /\ workerAt[w] = "storing" /\ latest' = Head(pending[w])
      /\ UNCHANGED <<published, thread, stopSet, error>>
  BY DEF Store
<1>2. /\ pending \in [Worker -> Seq(Snapshot)] /\ workerAt \in [Worker -> WorkerStep]
      /\ pending[w] \in Seq(Snapshot) /\ pending[w] # <<>>
      /\ InOrder(pending[w], Newest, published)
  BY <1>1 DEF StreamInv, StreamTypeOK, OneThread
<1>3. Newest \in Nat /\ published \in Nat
  BY NewestIsNumber DEF StreamInv
<1>4. /\ latest' \in Snapshot /\ Newest < latest'.seq /\ latest'.seq <= published
      /\ Tail(pending[w]) \in Seq(Snapshot)
      /\ InOrder(Tail(pending[w]), latest'.seq, published)
  BY <1>1, <1>2, <1>3, HeadIsOldest
<1>5. Newest' = latest'.seq
  BY <1>4, SnapshotAssumption DEF Newest
<1>6. \A v \in Worker : v # w => pending[v] = <<>>
  <2>1. \A v \in Worker : v # w => workerAt[v] = "dead"
    BY <1>1 DEF StreamInv, OneThread
  <2>2. QED
    BY <2>1 DEF StreamInv, OneThread
<1>7. CASE Dies(w, "storing")
  <2>1. \A v \in Worker : v # w => InOrder(pending[v], Newest', published)
    BY <1>6, EmptyQueue
  <2>2. error' \in {"none", "stored", "raised"}
    BY <1>1 DEF StreamInv, StreamTypeOK
  <2>3. StreamInv'
    BY <1>1, <1>4, <1>5, <1>7, <2>1, <2>2, DyingKeepsStream
  <2>4. QED
    BY <1>4, <2>3
<1>8. CASE Steps(w, "storing", "receiving") /\ pending' = [pending EXCEPT ![w] = Tail(@)]
  <2>1. /\ pending' \in [Worker -> Seq(Snapshot)] /\ pending'[w] = Tail(pending[w])
        /\ \A v \in Worker : v # w => pending'[v] = pending[v]
    BY <1>2, <1>4, <1>8
  <2>2. /\ workerAt' \in [Worker -> WorkerStep] /\ workerAt'[w] = "receiving"
        /\ \A v \in Worker : v # w => workerAt'[v] = workerAt[v]
    BY <1>2, <1>8 DEF Steps, WorkerStep
  <2>3. StreamTypeOK'
    BY <1>1, <1>4, <2>1, <2>2 DEF StreamInv, StreamTypeOK
  <2>4. OneThread'
    BY <1>1, <2>1, <2>2 DEF StreamInv, OneThread
  <2>5. \A v \in Worker : InOrder(pending'[v], Newest', published')
    BY <1>1, <1>4, <1>5, <1>6, <2>1, EmptyQueue
  <2>6. QED
    BY <1>1, <1>4, <1>5, <2>3, <2>4, <2>5 DEF StreamInv
<1>9. QED
  BY <1>7, <1>8 DEF Store

LEMMA WorkerKeepsStream ==
    ASSUME StreamInv, NEW w \in Worker, WorkerMove(w) \/ WorkerFails(w)
    PROVE  StreamInv'
<1>1. /\ Newest <= published /\ latest \in Snapshot \cup {NoSnapshot}
      /\ \A v \in Worker : InOrder(pending[v], Newest, published)
      /\ error \in {"none", "stored", "raised"}
  BY DEF StreamInv, StreamTypeOK
<1>2. ASSUME UNCHANGED latest PROVE Newest' = Newest
  BY <1>2 DEF Newest
<1>3. ASSUME LoopsOn(w, workerAt[w]), workerAt[w] \in {"subscribing", "receiving"},
             UNCHANGED <<published, thread, stopSet, error, latest>>
      PROVE  StreamInv'
  <2>1. CASE Dies(w, workerAt[w])
    BY <1>1, <1>2, <1>3, <2>1, DyingKeepsStream
  <2>2. CASE Steps(w, workerAt[w], "receiving") /\ UNCHANGED pending
    BY <1>3, <2>2, SteppingKeepsStream DEF WorkerStep
  <2>3. QED
    BY <1>3, <2>1, <2>2 DEF LoopsOn
<1>4. CASE Subscribe(w)
  <2>1. workerAt[w] = "subscribing"
    BY <1>4 DEF Subscribe, LoopsOn, Dies, Steps
  <2>2. QED
    BY <1>3, <1>4, <2>1 DEF Subscribe
<1>5. CASE ReceiveTimesOut(w)
  <2>1. workerAt[w] = "receiving"
    BY <1>5 DEF ReceiveTimesOut, LoopsOn, Dies, Steps
  <2>2. QED
    BY <1>3, <1>5, <2>1 DEF ReceiveTimesOut
<1>6. CASE Receive(w)
  <2>1. workerAt[w] = "receiving"
    BY <1>6 DEF Receive, Steps
  <2>2. QED
    BY <1>6, <2>1, SteppingKeepsStream DEF Receive, WorkerStep
<1>7. CASE Store(w)
  BY <1>7, StoreKeepsStream
<1>8. CASE WorkerFails(w)
  <2>1. Dies(w, workerAt[w]) /\ error' = "stored"
        /\ UNCHANGED <<published, thread, stopSet, latest>>
    BY <1>8 DEF WorkerFails, Dies, Steps
  <2>2. QED
    BY <1>1, <1>2, <2>1, DyingKeepsStream
<1>9. QED
  BY <1>4, <1>5, <1>6, <1>7, <1>8 DEF WorkerMove

\* A thread is started only over a dead one.
LEMMA StartKeepsStream == StreamInv /\ StartStream => StreamInv'
<1> SUFFICES ASSUME StreamInv, StartStream PROVE StreamInv'
  OBVIOUS
<1>1. CASE UNCHANGED streamVars
  BY <1>1 DEF streamVars, StreamInv, StreamTypeOK, OneThread, Newest
<1>2. CASE ~ StreamAlive
  <2>1. PICK w \in Worker : /\ Steps(w, "dead", "subscribing") /\ thread' = w
                           /\ stopSet' = FALSE /\ error' = "none"
                           /\ UNCHANGED <<published, pending, latest>>
    BY <1>2 DEF StartStream
  <2>2. \A v \in Worker : workerAt[v] = "dead"
    BY <1>2, StreamAssumption DEF StreamInv, OneThread, StreamAlive, Alive
  <2>3. /\ workerAt' \in [Worker -> WorkerStep]
        /\ \A v \in Worker : workerAt'[v] = IF v = w THEN "subscribing" ELSE workerAt[v]
    BY <2>1 DEF StreamInv, StreamTypeOK, Steps, WorkerStep
  <2>4. StreamTypeOK'
    <3>1. stopSet' \in BOOLEAN /\ thread' \in Worker
      BY <2>1
    <3>2. QED
      BY <2>1, <2>3, <3>1 DEF StreamInv, StreamTypeOK
  <2>5. OneThread'
    BY <2>1, <2>2, <2>3 DEF StreamInv, OneThread
  <2>6. Newest' = Newest
    BY <2>1 DEF Newest
  <2>7. QED
    BY <2>1, <2>4, <2>5, <2>6 DEF StreamInv
<1>3. QED
  BY <1>1, <1>2 DEF StartStream

\* What a step of the program, the server or a thread does to the stream.
LEMMA StreamSteps ==
    ASSUME [Next]_vars
    PROVE  \/ UNCHANGED streamVars
           \/ \E b \in BOOLEAN : Publish(b)
           \/ \E w \in Worker : WorkerMove(w) \/ WorkerFails(w)
           \/ StartStream \/ RequestStreamStop \/ RaiseStreamError
<1>1. CASE Stream
  BY <1>1 DEF Stream, WorkerSteps, WorkerErrs
<1>2. CASE CallbackPublishes
  BY <1>2 DEF CallbackPublishes, Readings
<1>3. CASE Environment /\ ~ CallbackPublishes
  BY <1>3 DEF Environment, Server, MotionArms, PolicyRamps, ControlEnds, MotionIsOver,
     MotionMoves, PolicyDies, LoseMessage, IntervalPasses
<1>4. CASE StartTracker \/ CallTimesOut \/ CallFails \/ CallReturns \/ UserCalls \/ UserStops
           \/ StreamJoinEnds \/ UserRaises \/ UserLeaves \/ ExitStops \/ TickDecides
  BY <1>4 DEF StartTracker, CallTimesOut, CallFails, CallReturns, UserCalls, UserStops,
     StreamJoinEnds, UserRaises, UserLeaves, ExitStops, TickDecides
<1>5. CASE StartStreamFirst \/ TickBegins \/ TickChecksError \/ UserStopsStream
           \/ UserWaitsForState \/ WaitEnds
  BY <1>5 DEF StartStreamFirst, TickBegins, TickChecksError, UserStopsStream,
     UserWaitsForState, WaitEnds
<1>6. CASE UNCHANGED vars
  BY <1>6 DEF vars
<1>7. QED
  BY <1>1, <1>2, <1>3, <1>4, <1>5, <1>6 DEF Next, Client, InTick

LEMMA StreamInvNext == StreamInv /\ [Next]_vars => StreamInv'
<1> SUFFICES ASSUME StreamInv, [Next]_vars PROVE StreamInv'
  OBVIOUS
<1>1. CASE UNCHANGED streamVars
  BY <1>1 DEF streamVars, StreamInv, StreamTypeOK, OneThread, Newest
<1>2. CASE RequestStreamStop
  <2>1. stopSet' \in BOOLEAN
    BY <1>2 DEF RequestStreamStop
  <2>2. QED
    BY <1>2, <2>1 DEF RequestStreamStop, StreamInv, StreamTypeOK, OneThread, Newest
<1>3. CASE RaiseStreamError
  BY <1>3 DEF RaiseStreamError, StreamInv, StreamTypeOK, OneThread, Newest
<1>4. QED
  BY <1>1, <1>2, <1>3, StreamSteps, PublishKeepsStream, WorkerKeepsStream, StartKeepsStream

LEMMA StreamInvHolds == Spec => []StreamInv
<1>1. Init => StreamInv
  BY StreamInitHasInv DEF Init
<1>2. QED
  BY <1>1, StreamInvNext, PTL DEF Spec

\* What a latest value is good for: its reader holds nothing that was never there.
LEMMA FeedHolds == Feed!Spec => []Feed!TypeOK
<1> DEFINE R == {"latest_state"}
           place == [r \in R |-> IF latest = NoSnapshot THEN 0 ELSE latest.seq]
           Inv(n, p) == n \in Nat /\ p \in [R -> 0 .. n]
<1>1. Feed!TypeOK <=> Inv(published, place)
  BY DEF Feed!TypeOK
<1>2. Feed!Init => Inv(published, place)
  <2> HIDE DEF place
  <2>1. published \in Nat /\ place = [r \in R |-> 0] => Inv(published, place)
    OBVIOUS
  <2>2. QED
    BY <2>1 DEF Feed!Init, place
<1>3. Inv(published, place) /\ [Feed!Next]_(Feed!vars) => Inv(published, place)'
  <2> SUFFICES ASSUME Inv(published, place), Feed!Next \/ UNCHANGED Feed!vars
               PROVE  Inv(published, place)'
    OBVIOUS
  <2>1. CASE Feed!Renew
    <3>1. published' = published + 1 /\ place' = place
      BY <2>1 DEF Feed!Renew
    <3> HIDE DEF place
    <3>2. 0 .. published \subseteq 0 .. published'
      BY <3>1
    <3>3. QED
      BY <3>1, <3>2
  <2>2. ASSUME NEW r \in R, Feed!Catch(r) PROVE Inv(published, place)'
    <3>1. /\ published' = published
          /\ \E n \in place[r] .. published : place' = [place EXCEPT ![r] = n]
      BY <2>2 DEF Feed!Catch
    <3> HIDE DEF place
    <3>2. place[r] .. published \subseteq 0 .. published
      BY <3>1
    <3>3. QED
      BY <3>1, <3>2
  <2>3. CASE UNCHANGED Feed!vars
    <3>1. published' = published /\ place' = place
      BY <2>3 DEF Feed!vars
    <3> HIDE DEF place
    <3>2. QED
      BY <3>1
  <2>4. QED
    BY <2>1, <2>2, <2>3 DEF Feed!Next
<1> HIDE DEF Inv
<1>4. QED
  BY <1>1, <1>2, <1>3, PTL DEF Feed!Spec

\* Stopping and restarting the stream, a stop whose join times out before its thread
\* has ended, and whatever is dropped never put an older snapshot over a newer one,
\* nor one that nobody published: the stream implements LatestValue.
THEOREM LatestOnlyAdvances == Spec => StreamKeepsLatest
<1> DEFINE place == [r \in {"latest_state"} |-> Newest]
<1>1. place = [r \in {"latest_state"} |-> IF latest = NoSnapshot THEN 0 ELSE latest.seq]
  BY DEF Newest
<1>2. Init => Feed!Init
  BY DEF Init, StreamInit, Feed!Init
<1>3. StreamInv /\ [Next]_vars => [Feed!Next]_(Feed!vars)
  <2> SUFFICES ASSUME StreamInv, [Next]_vars PROVE Feed!Next \/ UNCHANGED Feed!vars
    OBVIOUS
  <2>1. Newest \in Nat /\ published \in Nat
    BY NewestIsNumber DEF StreamInv
  <2>2. CASE UNCHANGED <<published, latest>>
    BY <2>2 DEF Feed!vars
  <2>3. ASSUME NEW b \in BOOLEAN, Publish(b) PROVE Feed!Next
    <3>1. published' = published + 1 /\ UNCHANGED latest
      BY <2>3 DEF Publish
    <3>2. QED
      BY <3>1 DEF Feed!Next, Feed!Renew
  <2>4. ASSUME NEW w \in Worker, Store(w) PROVE Feed!Next
    <3>1. latest' \in Snapshot /\ Newest < latest'.seq /\ StreamInv'
      BY <2>4, StoreKeepsStream
    <3>2. Newest' = latest'.seq /\ published' = published
      BY <2>4, <3>1, SnapshotAssumption DEF Newest, Store
    <3>3. Newest' \in Newest .. published
      BY <2>1, <3>1, <3>2, SnapshotFields DEF StreamInv
    <3>4. place' = [place EXCEPT !["latest_state"] = Newest']
      OBVIOUS
    <3>5. place["latest_state"] = Newest
      OBVIOUS
    <3> HIDE DEF place
    <3>6. Feed!Catch("latest_state")
      BY <1>1, <3>2, <3>3, <3>4, <3>5 DEF Feed!Catch, Newest
    <3>7. QED
      BY <3>6 DEF Feed!Next
  <2>5. QED
    BY <2>2, <2>3, <2>4, StreamSteps DEF streamVars, WorkerMove, WorkerFails, StartStream,
       RequestStreamStop, RaiseStreamError, Subscribe, Receive, ReceiveTimesOut
<1>4. QED
  BY <1>2, <1>3, StreamInvHolds, PTL DEF Spec, StreamKeepsLatest, Feed!Spec

-----------------------------------------------------------------------------
(***************************************************************************)
(* The calls.                                                               *)
(***************************************************************************)
callVars == <<phase, motion, unattended, inbox, serving, reply, socket, user, stopped,
              broken, outcome>>

LEMMA CallInit == Init => CallInv
<1> SUFFICES ASSUME Init PROVE CallInv
  OBVIOUS
<1> USE DEF Init
<1>1. CallTypes
  BY DEF CallTypes, Method, Answer, Place
<1>2. OneRequest
  BY DEF OneRequest, Call
<1>3. OwnRequest
  BY DEF OwnRequest
<1>4. PhaseMatches
  BY DEF PhaseMatches, Stops
<1>5. AnswerHolds
  BY DEF AnswerHolds
<1>6. QED
  BY <1>1, <1>2, <1>3, <1>4, <1>5 DEF CallInv

LEMMA CallUnchanged == CallInv /\ UNCHANGED callVars => CallInv'
  BY DEF callVars, CallInv, CallTypes, OneRequest, OwnRequest, PhaseMatches, AnswerHolds

\* The server's steps, and the controller's, seen from a program that waits.
LEMMA ServerKeepsCall == CallInv /\ Server => CallInv'
<1> SUFFICES ASSUME CallInv, Server PROVE CallInv'
  OBVIOUS
<1> USE DEF CallInv, CallTypes, OneRequest, OwnRequest, PhaseMatches, AnswerHolds, Stops,
    Method, Answer, Place, Call
<1>1. UNCHANGED <<unattended, socket, user, stopped, broken, outcome>>
  BY DEF Server, clientVars, proxyVars
<1>2. CASE ServerStarts
  BY <1>1, <1>2 DEF ServerStarts, Take
<1>3. CASE ServerStarted
  BY <1>1, <1>3 DEF ServerStarted, Finish
<1>4. CASE ServerAnswersStatus
  BY <1>1, <1>4 DEF ServerAnswersStatus, TakeAndAnswer, Running
<1>5. CASE ServerStops
  BY <1>1, <1>5 DEF ServerStops, Take
<1>6. CASE ServerStopped
  BY <1>1, <1>6 DEF ServerStopped, Finish
<1>7. CASE ServerStopsAgain
  BY <1>1, <1>7 DEF ServerStopsAgain, TakeAndAnswer
<1>8. CASE ServerRefuses
  BY <1>1, <1>8 DEF ServerRefuses, TakeAndAnswer
<1>9. QED
  BY <1>2, <1>3, <1>4, <1>5, <1>6, <1>7, <1>8 DEF Server

LEMMA MotionKeepsCall ==
    ASSUME CallInv, MotionArms \/ PolicyRamps \/ ControlEnds \/ MotionIsOver
    PROVE  CallInv'
<1>1. PICK from \in {"arming", "tracking", "earlier", "ending", "ramping"},
           to \in {"tracking", "ramping", "ending", "none"} :
           /\ MotionMoves(from, to)
           /\ to = "tracking" => from = "arming"
           /\ from = "earlier" => to = "none"
  BY DEF MotionArms, PolicyRamps, ControlEnds, MotionIsOver
<1>2. /\ motion = from /\ motion' = to
      /\ UNCHANGED <<phase, unattended, inbox, serving, reply, socket, user, stopped, broken, outcome>>
  BY <1>1 DEF MotionMoves, clientVars, proxyVars
<1>3. phase # "new" \/ to = "none"
  BY <1>1, <1>2 DEF CallInv, PhaseMatches
<1>4. to = "tracking" => phase = "registered"
  BY <1>1, <1>2 DEF CallInv, PhaseMatches, CallTypes
<1>5. to = "tracking" => serving = "start"
  BY <1>1, <1>2 DEF CallInv, PhaseMatches
<1>6. user = "call:probe" => serving = "none"
  BY DEF CallInv, OwnRequest
<1>7. QED
  BY <1>1, <1>2, <1>3, <1>4, <1>5, <1>6 DEF CallInv, CallTypes, OneRequest, OwnRequest,
     PhaseMatches, AnswerHolds

LEMMA DeathKeepsCall == CallInv /\ PolicyDies => CallInv'
<1> SUFFICES ASSUME CallInv, PolicyDies PROVE CallInv'
  OBVIOUS
<1>1. /\ unattended' = TRUE
      /\ UNCHANGED <<phase, motion, inbox, serving, reply, socket, user, stopped, broken, outcome>>
  BY DEF PolicyDies, clientVars, proxyVars
<1>2. QED
  BY <1>1 DEF CallInv, CallTypes, OneRequest, OwnRequest, PhaseMatches, AnswerHolds

LEMMA LossKeepsCall == CallInv /\ LoseMessage => CallInv'
<1> SUFFICES ASSUME CallInv, LoseMessage PROVE CallInv'
  OBVIOUS
<1>1. UNCHANGED <<phase, motion, unattended, serving, socket, user, stopped, broken, outcome>>
  BY DEF LoseMessage, clientVars, proxyVars
<1>2. (inbox' = "none" /\ UNCHANGED reply) \/ (reply' = "none" /\ UNCHANGED inbox)
  BY DEF LoseMessage
<1>3. QED
  BY <1>1, <1>2 DEF CallInv, CallTypes, OneRequest, OwnRequest, PhaseMatches, AnswerHolds, Stops

\* A step of the program that sends and receives nothing, an exception included.
LEMMA UserMoveKeepsCall ==
    ASSUME CallInv,
           UNCHANGED <<phase, motion, unattended, inbox, serving, reply, socket>>,
           user' \in Place \ Call, user' # "before",
           user' = "after" \/ user \notin {"before", "call:start", "after"},
           stopped' \in BOOLEAN, inbox = "start" => ~ stopped',
           broken' \in BOOLEAN, outcome' \in {outcome, "raised"}
    PROVE  CallInv'
<1> USE DEF CallInv
<1>1. CallTypes'
  BY DEF CallTypes
<1>2. OneRequest'
  BY DEF OneRequest
<1>3. OwnRequest'
  BY DEF OwnRequest, Call
<1>4. PhaseMatches'
  BY DEF PhaseMatches
<1>5. AnswerHolds'
  BY DEF AnswerHolds, Call
<1>6. QED
  BY <1>1, <1>2, <1>3, <1>4, <1>5

LEMMA RaisesKeepsCall ==
    ASSUME CallInv, NEW from, Raises(from),
           UNCHANGED <<phase, motion, unattended, inbox, serving, reply, socket>>,
           user \notin {"before", "after"}, user = "call:start" => from = "call:start",
           stopped' \in BOOLEAN, inbox = "start" => ~ stopped'
    PROVE  CallInv'
<1>1. /\ user' \in {"leaving", "after"}
      /\ from # "call:start" \/ user' = "after"
      /\ broken' \in BOOLEAN /\ outcome' \in {outcome, "raised"}
  BY DEF Raises, CallInv, CallTypes
<1>2. user' \in Place \ Call /\ user' # "before"
  BY <1>1 DEF Place, Call
<1>3. QED
  BY <1>1, <1>2, UserMoveKeepsCall

\* A program in its block has started its session, and no start is under way.
LEMMA InBlock ==
    ASSUME CallInv, user \notin {"before", "call:start", "after"}
    PROVE  phase # "new" /\ inbox # "start" /\ serving # "start" /\ motion # "arming"
  BY DEF CallInv, OwnRequest, PhaseMatches

\* A request goes out on a socket with nothing under way, or send raises.
LEMMA SendKeepsCall ==
    ASSUME CallInv, NEW m \in Method, NEW place \in Call, Send(m, place),
           \/ m = "start" /\ place = "call:start" /\ user = "before" /\ UNCHANGED stopped
           \/ /\ m = "status" /\ place \in {"call:status", "call:probe"}
              /\ user \notin {"before", "call:start", "after"}
           \/ /\ m \in Stops /\ place \in {"call:stop", "call:exit"}
              /\ user \notin {"before", "call:start", "after"},
           stopped' \in BOOLEAN
    PROVE  CallInv'
<1>1. CASE socket = "ready"
  <2>1. /\ inbox = "none" /\ serving = "none" /\ reply = "none"
        /\ inbox' = m /\ socket' = "awaiting" /\ user' = place
        /\ UNCHANGED <<phase, motion, unattended, serving, reply, broken, outcome>>
    BY <1>1 DEF Send, CallInv, OneRequest
  <2>2. CallTypes'
    BY <2>1 DEF CallInv, CallTypes, Place, Call
  <2>3. OneRequest'
    BY <2>1 DEF OneRequest, Call, Method, Stops
  <2>4. OwnRequest'
    BY <2>1 DEF OwnRequest, Stops
  <2>5. PhaseMatches'
    BY <2>1 DEF CallInv, PhaseMatches, Stops
  <2>6. AnswerHolds'
    BY <2>1 DEF AnswerHolds
  <2>7. QED
    BY <2>2, <2>3, <2>4, <2>5, <2>6 DEF CallInv
<1>2. CASE socket # "ready"
  <2>1. Raises(place) /\ UNCHANGED <<phase, motion, unattended, inbox, serving, reply, socket>>
    BY <1>2 DEF Send, serverVars
  <2>2. user # "before"
    BY <1>2 DEF CallInv, OneRequest
  <2>3. user \notin {"call:start", "after"} /\ inbox # "start"
    BY <2>2, InBlock
  <2>4. QED
    BY <2>1, <2>2, <2>3, RaisesKeepsCall
<1>3. QED
  BY <1>1, <1>2

LEMMA ReturnKeepsCall == CallInv /\ (CallReturns \/ CallFails) => CallInv'
<1> SUFFICES ASSUME CallInv, CallReturns \/ CallFails PROVE CallInv'
  OBVIOUS
<1>1. /\ user \in Call /\ reply # "none" /\ reply' = "none" /\ socket' = "ready"
      /\ UNCHANGED <<phase, motion, unattended, inbox, serving>>
      /\ inbox = "none" /\ serving = "none"
  BY DEF CallReturns, CallFails, Received, CallInv, OneRequest
<1>2. /\ user' \in {"after", "ended", "body", "leaving"}
      /\ user = "call:start" /\ reply = "error" => user' = "after"
      /\ user = "call:start" /\ reply # "error" => phase # "new"
      /\ stopped' \in BOOLEAN /\ broken' \in BOOLEAN
      /\ outcome' \in {"open", "clean", "raised"}
      /\ outcome' = "clean" => phase = "stopped"
  <2>1. CASE CallFails
    BY <1>1, <2>1 DEF CallFails, Raises, proxyVars, CallInv, CallTypes, PhaseMatches
  <2>2. CASE CallReturns
    <3>1. user' \in {"after", "ended", "body"}
      BY <2>2 DEF CallReturns
    <3>2. outcome' = outcome \/ (user = "call:exit" /\ outcome' \in {"raised", "clean"})
      BY <2>2 DEF CallReturns
    <3>3. user = "call:exit" => phase = "stopped"
      BY <1>1 DEF CallInv, AnswerHolds
    <3>4. stopped' \in BOOLEAN /\ broken' \in BOOLEAN /\ reply # "error"
      BY <2>2 DEF CallReturns, CallInv, CallTypes
    <3>5. user = "call:start" => phase # "new"
      BY <1>1, <3>4 DEF CallInv, AnswerHolds
    <3>6. QED
      BY <3>1, <3>2, <3>3, <3>4, <3>5 DEF CallInv, CallTypes, PhaseMatches
  <2>3. QED
    BY <2>1, <2>2
<1>3. user' = "after" \/ phase # "new"
  BY <1>1, <1>2, InBlock DEF Call
<1>4. CallTypes'
  BY <1>1, <1>2 DEF CallInv, CallTypes, Place, Answer
<1>5. OneRequest' /\ OwnRequest' /\ AnswerHolds'
  BY <1>1, <1>2 DEF OneRequest, OwnRequest, AnswerHolds, Call, Stops
<1>6. PhaseMatches'
  BY <1>1, <1>2, <1>3 DEF CallInv, PhaseMatches, Stops
<1>7. QED
  BY <1>4, <1>5, <1>6 DEF CallInv

LEMMA ProgramKeepsCall == CallInv /\ Client => CallInv'
<1> SUFFICES ASSUME CallInv, Client PROVE CallInv'
  OBVIOUS
<1> USE DEF proxyVars, serverVars
<1>1. CASE StartTracker
  <2>1. user = "before" /\ Send("start", "call:start") /\ UNCHANGED stopped
    BY <1>1 DEF StartTracker
  <2>2. stopped' \in BOOLEAN
    BY <2>1 DEF CallInv, CallTypes
  <2>3. QED
    BY <2>1, <2>2, SendKeepsCall DEF Method, Call
<1>2. CASE StartStreamFirst
  BY <1>2, CallUnchanged DEF StartStreamFirst, clientVars, callVars
<1>3. ASSUME user \notin {"before", "call:start", "after"}
      PROVE  inbox # "start" /\ user \notin {"before", "after"}
  BY <1>3, InBlock
<1>4. /\ stopped \in BOOLEAN /\ broken \in BOOLEAN
      /\ outcome \in {outcome, "raised"}
  BY DEF CallInv, CallTypes
<1>5. ASSUME NEW place \in Place \ Call, place \notin {"before", "after"},
             user' = place, user \notin {"before", "call:start", "after"},
             UNCHANGED <<phase, motion, unattended, inbox, serving, reply, socket, broken, outcome>>,
             stopped' \in BOOLEAN
      PROVE  CallInv'
  <2>1. user' \in Place \ Call /\ user' # "before" /\ inbox # "start"
    BY <1>3, <1>5
  <2>2. broken' \in BOOLEAN /\ outcome' \in {outcome, "raised"}
    BY <1>4, <1>5
  <2>3. QED
    BY <1>5, <2>1, <2>2, UserMoveKeepsCall
<1>6. ASSUME NEW from, Raises(from), user \notin {"before", "call:start", "after"},
             UNCHANGED <<phase, motion, unattended, inbox, serving, reply, socket, stopped>>
      PROVE  CallInv'
  BY <1>3, <1>4, <1>6, RaisesKeepsCall
<1> DEFINE Resting == Place \ Call
<1>7. {"body", "ended", "leaving", "ticking", "deciding", "joining", "waiting"} \subseteq Resting
  BY DEF Place, Call
<1> HIDE DEF Resting
<1>8. CASE TickBegins
  BY <1>4, <1>5, <1>7, <1>8 DEF TickBegins, Resting
<1>9. CASE TickChecksError
  BY <1>4, <1>5, <1>6, <1>7, <1>9 DEF TickChecksError, Resting
<1>10. CASE TickDecides
  <2>1. user = "deciding"
    BY <1>10 DEF TickDecides
  <2>2. CASE user' \in {"ended", "body"} /\ stopped' \in BOOLEAN
             /\ UNCHANGED <<serverVars, socket, broken, outcome>>
    BY <1>5, <1>7, <2>1, <2>2 DEF Resting
  <2>3. CASE Send("status", "call:probe") /\ UNCHANGED stopped
    BY <1>4, <2>1, <2>3, SendKeepsCall DEF Method, Call
  <2>4. QED
    BY <1>4, <1>10, <2>2, <2>3 DEF TickDecides
<1>11. CASE CallTimesOut
  <2>1. Raises(user) /\ user \in Call
        /\ UNCHANGED <<phase, motion, unattended, inbox, serving, reply, socket, stopped>>
    BY <1>11 DEF CallTimesOut
  <2>2. inbox = "start" => ~ stopped'
    BY <2>1 DEF CallInv, PhaseMatches
  <2>3. user \notin {"before", "after"}
    BY <2>1 DEF Call
  <2>4. QED
    BY <1>4, <2>1, <2>2, <2>3, RaisesKeepsCall
<1>12. CASE CallFails \/ CallReturns
  BY <1>12, ReturnKeepsCall
<1>13. CASE UserCalls
  <2>1. user = "body" /\ Send("status", "call:status") /\ UNCHANGED stopped
    BY <1>13 DEF UserCalls
  <2>2. QED
    BY <1>4, <2>1, SendKeepsCall DEF Method, Call
<1>14. CASE UserStops
  <2>1. PICK m \in Stops : user = "body" /\ Send(m, "call:stop") /\ stopped' = TRUE
    BY <1>14 DEF UserStops, Stops
  <2>2. m \in Method
    BY <2>1 DEF Stops, Method
  <2>3. QED
    BY <2>1, <2>2, SendKeepsCall DEF Call
<1>15. CASE UserStopsStream
  BY <1>4, <1>5, <1>7, <1>15 DEF UserStopsStream, Resting
<1>16. CASE StreamJoinEnds
  BY <1>4, <1>5, <1>7, <1>16 DEF StreamJoinEnds, Resting
<1>17. CASE UserWaitsForState
  BY <1>4, <1>5, <1>7, <1>17 DEF UserWaitsForState, Resting
<1>18. CASE WaitEnds
  BY <1>4, <1>5, <1>6, <1>7, <1>18 DEF WaitEnds, Resting
<1>19. CASE UserRaises
  BY <1>6, <1>19 DEF UserRaises
<1>20. CASE UserLeaves
  BY <1>4, <1>5, <1>7, <1>20 DEF UserLeaves, Resting
<1>21. CASE ExitStops
  <2>1. user = "leaving" /\ Send("stop", "call:exit") /\ stopped' = TRUE
    BY <1>21 DEF ExitStops
  <2>2. QED
    BY <2>1, SendKeepsCall DEF Method, Call, Stops
<1>22. QED
  BY <1>1, <1>2, <1>8, <1>9, <1>10, <1>11, <1>12, <1>13, <1>14, <1>15, <1>16, <1>17,
     <1>18, <1>19, <1>20, <1>21 DEF Client, InTick

LEMMA CallInvNext == CallInv /\ [Next]_vars => CallInv'
<1> SUFFICES ASSUME CallInv, [Next]_vars PROVE CallInv'
  OBVIOUS
<1>1. CASE Stream \/ CallbackPublishes \/ IntervalPasses \/ UNCHANGED vars
  BY <1>1, CallUnchanged DEF Stream, WorkerSteps, WorkerErrs, CallbackPublishes, IntervalPasses,
     vars, serverVars, clientVars, proxyVars, callVars
<1>2. QED
  BY <1>1, ServerKeepsCall, MotionKeepsCall, DeathKeepsCall, LossKeepsCall, ProgramKeepsCall
     DEF Next, Environment

LEMMA CallInvHolds == Spec => []CallInv
  BY CallInit, CallInvNext, PTL DEF Spec

\* A with block that ends without an exception has stopped its session, whatever
\* was lost, refused or late before.
THEOREM CleanExitHasStopped == Spec => []CleanExitStopped
<1>1. CallInv => CleanExitStopped
  BY DEF CallInv, PhaseMatches, CleanExitStopped
<1>2. QED
  BY CallInvHolds, <1>1, PTL

\* The answer to a stop is a stop's: a socket that has given up on a call is not
\* used again, so no late answer is there to be taken for it.
THEOREM StopAnswerIsOwn == Spec => []StopAnswersAreOwn
<1>1. CallInv => StopAnswersAreOwn
  BY DEF CallInv, AnswerHolds, StopAnswersAreOwn
<1>2. QED
  BY CallInvHolds, <1>1, PTL

-----------------------------------------------------------------------------
(***************************************************************************)
(* The session, as this client sees it, and the lifecycle it keeps.         *)
(***************************************************************************)
Driving == motion \in {"arming", "tracking"}
PhaseMap == [s \in {"session"} |-> phase]
DrivingMap == {s \in {"session"} : Driving}

\* Only the server's handlers and the motion's own moves change either.
LEMMA SessionSteps ==
    ASSUME CallInv, [Next]_vars
    PROVE  \/ UNCHANGED phase /\ (Driving' => Driving)
           \/ phase = "new" /\ phase' = "registered" /\ Driving'
           \/ phase = "registered" /\ phase' = "stopping" /\ (Driving' => Driving)
           \/ phase = "stopping" /\ phase' = "stopped" /\ ~ Driving /\ UNCHANGED motion
<1> USE DEF Driving
<1>1. CASE Stream \/ PolicyDies \/ CallbackPublishes \/ IntervalPasses \/ LoseMessage
           \/ UNCHANGED vars
  BY <1>1 DEF Stream, WorkerSteps, WorkerErrs, PolicyDies, CallbackPublishes, IntervalPasses,
     LoseMessage, vars, serverVars
<1>2. CASE MotionArms \/ PolicyRamps \/ ControlEnds \/ MotionIsOver
  BY <1>2 DEF MotionArms, PolicyRamps, ControlEnds, MotionIsOver, MotionMoves
<1>3. CASE Server
  <2>1. CASE ServerStarts
    <3>1. serving = "none" /\ inbox = "start"
      BY <2>1 DEF ServerStarts, Take
    <3>2. QED
      BY <2>1, <3>1 DEF ServerStarts, CallInv, PhaseMatches
  <2>2. CASE ServerStops
    BY <2>2 DEF ServerStops
  <2>3. CASE ServerStopped
    <3>1. motion # "tracking" /\ serving # "start"
      BY <2>3 DEF ServerStopped, CallInv, PhaseMatches
    <3>2. motion # "arming"
      BY <3>1 DEF CallInv, PhaseMatches
    <3>3. QED
      BY <2>3, <3>1, <3>2 DEF ServerStopped
  <2>4. CASE ServerStarted \/ ServerAnswersStatus \/ ServerStopsAgain \/ ServerRefuses
    BY <2>4 DEF ServerStarted, ServerAnswersStatus, ServerStopsAgain, ServerRefuses
  <2>5. QED
    BY <1>3, <2>1, <2>2, <2>3, <2>4 DEF Server
<1>4. CASE Client
  <2>1. UNCHANGED <<phase, motion>>
    BY <1>4 DEF Client, InTick, StartTracker, StartStreamFirst, TickBegins, TickChecksError,
       TickDecides, CallTimesOut, CallFails, CallReturns, UserCalls, UserStops, UserStopsStream,
       StreamJoinEnds, UserWaitsForState, WaitEnds, UserRaises, UserLeaves, ExitStops, Send,
       serverVars
  <2>2. QED
    BY <2>1
<1>5. QED
  BY <1>1, <1>2, <1>3, <1>4 DEF Next, Environment

\* The server a client talks to keeps the lifecycle that RobotManager keeps
\* (LifecycleKept), whatever is lost, late, refused, or ends by itself: in
\* particular, no stop is answered before the tracking motion is gone, not even a
\* bounded one whose ramp is still running.
THEOREM ServerLifecycle == Spec => ServerKeepsLifecycle
<1>1. Init => Lifecycle!Init
  BY DEF Init, Lifecycle!Init
<1>2. CallInv /\ [Next]_vars => [Lifecycle!Next]_(Lifecycle!vars)
  <2> SUFFICES ASSUME CallInv, [Next]_vars PROVE Lifecycle!Next \/ UNCHANGED Lifecycle!vars
    OBVIOUS
  <2>1. /\ PhaseMap = [s \in {"session"} |-> phase]
        /\ DrivingMap = {s \in {"session"} : motion \in {"arming", "tracking"}}
    BY DEF PhaseMap, DrivingMap, Driving
  <2>2. /\ PhaseMap["session"] = phase
        /\ PhaseMap' = [PhaseMap EXCEPT !["session"] = phase']
        /\ UNCHANGED phase => UNCHANGED PhaseMap
    BY DEF PhaseMap
  <2>3. /\ (Driving' => Driving) => DrivingMap' \in SUBSET DrivingMap
        /\ Driving' => DrivingMap' = (DrivingMap \ {}) \cup {"session"}
        /\ ~ Driving => "session" \notin DrivingMap
        /\ UNCHANGED motion => UNCHANGED DrivingMap
    BY DEF DrivingMap, Driving
  <2>4. CASE UNCHANGED phase /\ (Driving' => Driving)
    <3>1. Lifecycle!LoseMotion
      BY <2>1, <2>2, <2>3, <2>4 DEF Lifecycle!LoseMotion, PhaseMap, DrivingMap, Driving
    <3>2. QED
      BY <3>1 DEF Lifecycle!Next
  <2>5. CASE phase = "new" /\ phase' = "registered" /\ Driving'
    <3>1. Lifecycle!Start("session")
      BY <2>2, <2>3, <2>5 DEF Lifecycle!Start, PhaseMap, DrivingMap, Driving
    <3>2. QED
      BY <3>1 DEF Lifecycle!Next
  <2>6. CASE phase = "registered" /\ phase' = "stopping" /\ (Driving' => Driving)
    <3>1. Lifecycle!BeginStop("session")
      BY <2>2, <2>3, <2>6 DEF Lifecycle!BeginStop, PhaseMap, DrivingMap, Driving
    <3>2. QED
      BY <3>1 DEF Lifecycle!Next
  <2>7. CASE phase = "stopping" /\ phase' = "stopped" /\ ~ Driving /\ UNCHANGED motion
    <3>1. Lifecycle!AnswerStop("session")
      BY <2>2, <2>3, <2>7 DEF Lifecycle!AnswerStop, PhaseMap, DrivingMap, Driving
    <3>2. QED
      BY <3>1 DEF Lifecycle!Next
  <2>8. QED
    BY <2>4, <2>5, <2>6, <2>7, SessionSteps
<1>3. QED
  BY <1>1, <1>2, CallInvHolds, PTL DEF Spec, ServerKeepsLifecycle, Lifecycle!Spec

-----------------------------------------------------------------------------
(***************************************************************************)
(* The types of the proxy's own memory, and with them the type invariant.   *)
(***************************************************************************)
ProxyTypes ==
    /\ snapshot \in Snapshot \cup {NoSnapshot}
    /\ seen \in BOOLEAN /\ fresh \in BOOLEAN /\ probeDue \in BOOLEAN

LEMMA ProxyTypesNext == StreamTypeOK /\ ProxyTypes /\ [Next]_vars => ProxyTypes'
<1> SUFFICES ASSUME StreamTypeOK, ProxyTypes, [Next]_vars PROVE ProxyTypes'
  OBVIOUS
<1>1. CASE UNCHANGED <<seen, snapshot, fresh, probeDue>>
  BY <1>1 DEF ProxyTypes
<1>2. CASE IntervalPasses
  BY <1>2 DEF IntervalPasses, ProxyTypes
<1>3. CASE TickDecides
  <2>1. snapshot' = latest /\ latest \in Snapshot \cup {NoSnapshot}
    BY <1>3 DEF TickDecides, StreamTypeOK
  <2>2. fresh' \in BOOLEAN /\ seen' \in BOOLEAN
    BY <1>3 DEF TickDecides
  <2>3. probeDue' \in BOOLEAN
    BY <1>3 DEF TickDecides, ProxyTypes
  <2>4. QED
    BY <2>1, <2>2, <2>3 DEF ProxyTypes
<1>4. CASE Stream \/ (Environment /\ ~ IntervalPasses) \/ UNCHANGED vars
  BY <1>1, <1>4 DEF Stream, WorkerSteps, WorkerErrs, Environment, Server, MotionArms,
     PolicyRamps, ControlEnds, MotionIsOver, MotionMoves, PolicyDies, CallbackPublishes,
     LoseMessage, vars, clientVars, proxyVars
<1>5. CASE Client /\ ~ TickDecides
  BY <1>1, <1>5 DEF Client, InTick, StartTracker, StartStreamFirst, TickBegins, TickChecksError,
     CallTimesOut, CallFails, CallReturns, UserCalls, UserStops, UserStopsStream,
     StreamJoinEnds, UserWaitsForState, WaitEnds, UserRaises, UserLeaves, ExitStops,
     clientVars, proxyVars
<1>6. QED
  BY <1>2, <1>3, <1>4, <1>5 DEF Next, Client, InTick

\* Every variable keeps its type, for any number of snapshots and of threads.
THEOREM ClientTyped == Spec => []TypeOK
<1>1. Init => ProxyTypes
  BY DEF Init, ProxyTypes
<1>2. StreamInv => StreamTypeOK
  BY DEF StreamInv
<1>3. Spec => []ProxyTypes
  BY <1>1, <1>2, StreamInvHolds, ProxyTypesNext, PTL DEF Spec
<1>4. StreamTypeOK /\ CallInv /\ ProxyTypes => TypeOK
  BY DEF CallInv, CallTypes, ProxyTypes, TypeOK
<1>5. QED
  BY <1>2, <1>3, <1>4, StreamInvHolds, CallInvHolds, PTL

-----------------------------------------------------------------------------
(***************************************************************************)
(* The end of the loop.                                                     *)
(***************************************************************************)
LEMMA AppendStaysTrue ==
    ASSUME NEW q \in Seq(Snapshot), NEW s \in Snapshot, NEW before
    PROVE  /\ StaysTrue(q, before) /\ s.in_control => StaysTrue(Append(q, s), before)
           /\ NoneTrue(q) /\ ~ s.in_control =>
                NoneTrue(Append(q, s)) /\ (~ before => StaysTrue(Append(q, s), before))
<1> DEFINE longer == Append(q, s)
<1>1. /\ Len(longer) = Len(q) + 1 /\ Len(q) \in Nat
      /\ \A i \in 1..Len(q) : longer[i] = q[i]
      /\ longer[Len(q) + 1] = s
  BY AppendProperties, LenProperties
<1> HIDE DEF longer
<1>2. ASSUME NEW i \in 1..Len(longer)
      PROVE  \/ i \in 1..Len(q) /\ longer[i] = q[i]
             \/ i = Len(q) + 1 /\ longer[i] = s
  BY <1>1
<1>3. ASSUME StaysTrue(q, before), s.in_control PROVE StaysTrue(longer, before)
  <2>1. ASSUME before, NEW i \in 1..Len(longer) PROVE longer[i].in_control
    BY <1>2, <1>3, <2>1 DEF StaysTrue
  <2>2. ASSUME NEW i \in 1..Len(longer), NEW j \in 1..Len(longer), i < j,
               longer[i].in_control
        PROVE  longer[j].in_control
    <3>1. CASE longer[j] = s
      BY <1>3, <3>1
    <3>2. CASE j \in 1..Len(q) /\ longer[j] = q[j]
      <4>1. i \in 1..Len(q) /\ longer[i] = q[i]
        BY <1>1, <2>2, <3>2
      <4>2. QED
        BY <1>3, <2>2, <3>2, <4>1 DEF StaysTrue
    <3>3. QED
      BY <1>2, <3>1, <3>2
  <2>3. QED
    BY <2>1, <2>2 DEF StaysTrue
<1>4. ASSUME NoneTrue(q), ~ s.in_control PROVE NoneTrue(longer)
  BY <1>2, <1>4 DEF NoneTrue
<1>5. ASSUME NoneTrue(longer), ~ before PROVE StaysTrue(longer, before)
  BY <1>5 DEF NoneTrue, StaysTrue
<1>6. QED
  BY <1>3, <1>4, <1>5 DEF longer

LEMMA TailStaysTrue ==
    ASSUME NEW q \in Seq(Snapshot), q # <<>>, NEW before
    PROVE  /\ StaysTrue(q, before) => /\ StaysTrue(Tail(q), Head(q).in_control)
                                      /\ before => Head(q).in_control
           /\ NoneTrue(q) => ~ Head(q).in_control /\ NoneTrue(Tail(q))
<1>1. /\ Len(q) \in Nat \ {0} /\ Head(q) = q[1]
      /\ Len(Tail(q)) = Len(q) - 1
      /\ \A i \in 1..Len(Tail(q)) : Tail(q)[i] = q[i + 1]
  BY HeadTailProperties, EmptySeq
<1> DEFINE rest == Tail(q)
           first == Head(q)
<1>2. 1 \in 1..Len(q) /\ first = q[1]
  BY <1>1
<1>3. ASSUME NEW i \in 1..Len(rest)
      PROVE  i \in Int /\ i + 1 \in 1..Len(q) /\ 1 < i + 1 /\ rest[i] = q[i + 1]
  BY <1>1
<1> HIDE DEF rest, first
<1>4. ASSUME StaysTrue(q, before) PROVE StaysTrue(rest, first.in_control)
  <2>1. ASSUME first.in_control, NEW i \in 1..Len(rest) PROVE rest[i].in_control
    <3>1. i + 1 \in 1..Len(q) /\ 1 < i + 1 /\ rest[i] = q[i + 1]
      BY <1>3
    <3>2. QED
      BY <1>2, <1>4, <2>1, <3>1 DEF StaysTrue
  <2>2. ASSUME NEW i \in 1..Len(rest), NEW j \in 1..Len(rest), i < j, rest[i].in_control
        PROVE  rest[j].in_control
    <3>1. /\ i + 1 \in 1..Len(q) /\ rest[i] = q[i + 1]
          /\ j + 1 \in 1..Len(q) /\ rest[j] = q[j + 1]
          /\ i \in Int /\ j \in Int
      BY <1>3
    <3>2. i + 1 < j + 1
      BY <2>2, <3>1
    <3>3. QED
      BY <1>4, <2>2, <3>1, <3>2 DEF StaysTrue
  <2>3. QED
    BY <2>1, <2>2 DEF StaysTrue
<1>5. StaysTrue(q, before) /\ before => first.in_control
  BY <1>2 DEF StaysTrue
<1>6. NoneTrue(q) => ~ first.in_control
  BY <1>2 DEF NoneTrue
<1>7. ASSUME NoneTrue(q) PROVE NoneTrue(rest)
  BY <1>3, <1>7 DEF NoneTrue
<1>8. QED
  BY <1>4, <1>5, <1>6, <1>7 DEF rest, first

\* While the session is armed or tracked, and no other motion came before it, a
\* callback publishes what TurnsTrueOnce allows.
LEMMA PublishTurnsOnce ==
    ASSUME StreamInv, TurnsTrueOnce, CallbackPublishes
    PROVE  TurnsTrueOnce'
<1>1. PICK b \in Readings : Publish(b)
  BY DEF CallbackPublishes
<1>2. /\ motion = "arming" => ~ b
      /\ motion = "tracking" => b
      /\ motion # "none" /\ phase # "new"
      /\ b \in BOOLEAN
  BY <1>1 DEF Readings, TurnsTrueOnce
<1>3. UNCHANGED <<phase, motion, seen, latest>> /\ published < MaxSnapshots
      /\ published' = published + 1
  BY <1>1 DEF CallbackPublishes, Publish, serverVars, clientVars, proxyVars
<1>4. SaysInControl' = SaysInControl
  BY <1>3 DEF SaysInControl
<1> DEFINE s == [seq |-> published + 1, in_control |-> b]
<1>5. s \in Snapshot /\ s.in_control = b
  BY <1>2, <1>3, StreamAssumption DEF Snapshot, StreamInv, StreamTypeOK
<1>6. ASSUME NEW w \in Worker
      PROVE  /\ pending[w] \in Seq(Snapshot)
             /\ pending'[w] = Append(pending[w], s) \/ pending'[w] = pending[w]
  BY <1>1, <1>3 DEF Publish, StreamInv, StreamTypeOK
<1> HIDE DEF s
<1>7. CASE motion = "arming"
  <2>1. ~ SaysInControl /\ ~ seen
    BY <1>7 DEF TurnsTrueOnce
  <2>2. ASSUME NEW w \in Worker
        PROVE  NoneTrue(pending'[w]) /\ StaysTrue(pending'[w], SaysInControl)
    <3>1. NoneTrue(pending[w]) /\ StaysTrue(pending[w], SaysInControl)
      BY <1>7 DEF TurnsTrueOnce
    <3>2. CASE pending'[w] = pending[w]
      BY <3>1, <3>2
    <3>3. CASE pending'[w] = Append(pending[w], s)
      <4>1. NoneTrue(Append(pending[w], s)) /\ StaysTrue(Append(pending[w], s), SaysInControl)
        BY <1>2, <1>5, <1>6, <1>7, <2>1, <3>1, AppendStaysTrue
      <4>2. QED
        BY <3>3, <4>1
    <3>4. QED
      BY <1>6, <3>2, <3>3
  <2>3. QED
    BY <1>2, <1>3, <1>4, <1>7, <2>1, <2>2 DEF TurnsTrueOnce
<1>8. CASE motion = "tracking"
  <2>1. seen => SaysInControl
    BY <1>8 DEF TurnsTrueOnce
  <2>2. ASSUME NEW w \in Worker PROVE StaysTrue(pending'[w], SaysInControl)
    <3>1. StaysTrue(pending[w], SaysInControl)
      BY <1>8 DEF TurnsTrueOnce
    <3>2. CASE pending'[w] = pending[w]
      BY <3>1, <3>2
    <3>3. CASE pending'[w] = Append(pending[w], s)
      <4>1. StaysTrue(Append(pending[w], s), SaysInControl)
        BY <1>2, <1>5, <1>6, <1>8, <3>1, AppendStaysTrue
      <4>2. QED
        BY <3>3, <4>1
    <3>4. QED
      BY <1>6, <3>2, <3>3
  <2>3. QED
    BY <1>2, <1>3, <1>4, <1>8, <2>1, <2>2 DEF TurnsTrueOnce
<1>9. CASE motion \notin {"arming", "tracking"}
  BY <1>2, <1>3, <1>9 DEF TurnsTrueOnce
<1>10. QED
  BY <1>7, <1>8, <1>9

\* A thread takes snapshots from the front of its queue, or loses the queue.
LEMMA WorkerTurnsOnce ==
    ASSUME StreamInv, TurnsTrueOnce, NEW w \in Worker, WorkerMove(w) \/ WorkerFails(w),
           UNCHANGED <<phase, motion, seen>>
    PROVE  TurnsTrueOnce'
<1>1. pending \in [Worker -> Seq(Snapshot)] /\ published' = published
  BY DEF StreamInv, StreamTypeOK, WorkerMove, WorkerFails, Subscribe, Receive,
     ReceiveTimesOut, Store
<1>2. CASE UNCHANGED latest /\ (UNCHANGED pending \/ pending' = [pending EXCEPT ![w] = <<>>])
  <2>1. SaysInControl' = SaysInControl
    BY <1>2 DEF SaysInControl
  <2>2. \A v \in Worker : pending'[v] = pending[v] \/ pending'[v] = <<>>
    BY <1>1, <1>2
  <2>3. NoneTrue(<<>>) /\ StaysTrue(<<>>, SaysInControl)
    BY EmptyQueue
  <2>4. ASSUME motion = "arming", NEW v \in Worker PROVE NoneTrue(pending'[v])
    <3>1. NoneTrue(pending[v])
      BY <2>4 DEF TurnsTrueOnce
    <3>2. QED
      BY <2>2, <2>3, <3>1
  <2>5. ASSUME motion \in {"arming", "tracking"}, NEW v \in Worker
        PROVE  StaysTrue(pending'[v], SaysInControl)
    <3>1. StaysTrue(pending[v], SaysInControl)
      BY <2>5 DEF TurnsTrueOnce
    <3>2. QED
      BY <2>2, <2>3, <3>1
  <2>6. QED
    BY <1>1, <2>1, <2>4, <2>5 DEF TurnsTrueOnce
<1>3. CASE Store(w)
  <2>1. /\ latest' = Head(pending[w]) /\ latest' \in Snapshot
        /\ pending[w] \in Seq(Snapshot) /\ pending[w] # <<>>
    BY <1>1, <1>3, StoreKeepsStream DEF Store, StreamInv, OneThread
  <2>2. SaysInControl' = Head(pending[w]).in_control
    <3>1. latest' # NoSnapshot
      BY <2>1, SnapshotAssumption
    <3>2. latest'.in_control \in BOOLEAN
      BY <2>1, SnapshotFields
    <3>3. QED
      BY <2>1, <3>1, <3>2 DEF SaysInControl
  <2>3. \A v \in Worker : \/ pending'[v] = <<>>
                          \/ v = w /\ pending'[v] = Tail(pending[w])
    <3>1. pending' = [pending EXCEPT ![w] = <<>>] \/ pending' = [pending EXCEPT ![w] = Tail(@)]
      BY <1>3 DEF Store, Dies
    <3>2. \A v \in Worker : v # w => pending[v] = <<>>
      <4>1. \A v \in Worker : v # w => workerAt[v] = "dead"
        BY <1>3 DEF StreamInv, OneThread, Store
      <4>2. QED
        BY <4>1 DEF StreamInv, OneThread
    <3>3. QED
      BY <1>1, <3>1, <3>2
  <2>4. ASSUME motion = "arming"
        PROVE  ~ SaysInControl' /\ \A v \in Worker : NoneTrue(pending'[v])
    <3>1. NoneTrue(pending[w])
      BY <2>4 DEF TurnsTrueOnce
    <3>2. ~ Head(pending[w]).in_control /\ NoneTrue(Tail(pending[w]))
      BY <2>1, <3>1, TailStaysTrue
    <3>3. NoneTrue(<<>>)
      BY EmptyQueue
    <3>4. QED
      BY <2>2, <2>3, <3>2, <3>3
  <2>5. ASSUME motion \in {"arming", "tracking"}
        PROVE  /\ seen => SaysInControl'
               /\ \A v \in Worker : StaysTrue(pending'[v], SaysInControl')
    <3>1. StaysTrue(pending[w], SaysInControl) /\ (seen => SaysInControl)
      BY <2>5 DEF TurnsTrueOnce
    <3>2. /\ StaysTrue(Tail(pending[w]), Head(pending[w]).in_control)
          /\ SaysInControl => Head(pending[w]).in_control
      BY <2>1, <3>1, TailStaysTrue
    <3>3. StaysTrue(<<>>, Head(pending[w]).in_control)
      BY EmptyQueue
    <3>4. QED
      BY <2>2, <2>3, <3>1, <3>2, <3>3
  <2>6. QED
    BY <1>1, <2>4, <2>5 DEF TurnsTrueOnce
<1>4. QED
  BY <1>2, <1>3 DEF WorkerMove, WorkerFails, Subscribe, Receive, ReceiveTimesOut, LoopsOn,
     Dies, Steps

\* Steps that leave the snapshots and what was seen of them alone: the session's
\* motion may arm, or end.
LEMMA MotionTurnsOnce ==
    ASSUME TurnsTrueOnce, UNCHANGED <<published, pending, latest, seen>>,
           \/ UNCHANGED <<phase, motion>>
           \/ UNCHANGED motion /\ phase # "new" /\ phase' # "new"
           \/ /\ motion' \notin {"arming", "tracking"} \/ (motion = "arming" /\ motion' = "tracking")
              /\ phase # "new" /\ phase' # "new"
    PROVE  TurnsTrueOnce'
<1>1. SaysInControl' = SaysInControl
  BY DEF SaysInControl
<1>2. QED
  BY <1>1 DEF TurnsTrueOnce

\* The start of the session finds no snapshot of an earlier motion anywhere.
LEMMA StartTurnsOnce ==
    ASSUME StreamInv, CallInv, TurnsTrueOnce, ServerStarts, Server
    PROVE  TurnsTrueOnce'
<1>1. phase = "new" /\ phase' = "registered" /\ UNCHANGED <<published, pending, latest, seen>>
  BY DEF ServerStarts, Take, Server, CallInv, PhaseMatches, streamVars, clientVars, proxyVars
<1>2. published = 0 /\ ~ seen
  BY <1>1 DEF TurnsTrueOnce
<1>3. latest = NoSnapshot
  <2>1. CASE latest \in Snapshot
    <3>1. Newest = latest.seq /\ latest.seq \in 1..MaxSnapshots /\ Newest <= published
      BY <2>1, SnapshotFields, SnapshotAssumption DEF Newest, StreamInv
    <3>2. QED
      BY <1>2, <3>1, StreamAssumption
  <2>2. QED
    BY <2>1 DEF StreamInv, StreamTypeOK
<1>4. ASSUME NEW w \in Worker PROVE pending[w] = <<>>
  <2>1. pending[w] \in Seq(Snapshot) /\ InOrder(pending[w], Newest, published)
    BY DEF StreamInv, StreamTypeOK
  <2>2. ASSUME pending[w] # <<>> PROVE FALSE
    <3>1. Newest = 0
      BY <1>3 DEF Newest
    <3>2. Newest < Head(pending[w]).seq /\ Head(pending[w]).seq <= published
          /\ Head(pending[w]) \in Snapshot
      BY <1>2, <2>1, <2>2, <3>1, HeadIsOldest
    <3>3. QED
      BY <1>2, <3>1, <3>2, SnapshotFields
  <2>3. QED
    BY <2>2
<1>5. SaysInControl' = FALSE
  BY <1>1, <1>3 DEF SaysInControl
<1>6. \A w \in Worker : NoneTrue(pending'[w]) /\ StaysTrue(pending'[w], FALSE)
  BY <1>1, <1>4, EmptyQueue
<1>7. QED
  BY <1>1, <1>2, <1>5, <1>6 DEF TurnsTrueOnce

LEMMA TurnsTrueOnceNext ==
    ASSUME StreamInv, CallInv, TurnsTrueOnce, [Next]_vars
    PROVE  TurnsTrueOnce'
<1>1. CASE Stream
  BY <1>1, WorkerTurnsOnce DEF Stream, WorkerSteps, WorkerErrs, serverVars, clientVars, proxyVars
<1>2. CASE CallbackPublishes
  BY <1>2, PublishTurnsOnce
<1>3. CASE Server
  <2>1. UNCHANGED <<published, pending, latest, seen>>
    BY <1>3 DEF Server, streamVars, clientVars, proxyVars
  <2>2. CASE ServerStarts
    BY <1>3, <2>2, StartTurnsOnce
  <2>3. CASE UNCHANGED <<phase, motion>>
    BY <2>1, <2>3, MotionTurnsOnce
  <2>4. CASE ServerStops
    <3>1. phase = "registered" /\ phase' = "stopping"
          /\ (motion' = motion \/ motion' = "ramping")
      BY <2>4 DEF ServerStops
    <3>2. QED
      BY <2>1, <3>1, MotionTurnsOnce
  <2>5. CASE ServerStopped
    <3>1. phase = "stopping" /\ phase' = "stopped" /\ UNCHANGED motion
      BY <2>5 DEF ServerStopped
    <3>2. QED
      BY <2>1, <3>1, MotionTurnsOnce
  <2>6. QED
    BY <1>3, <2>2, <2>3, <2>4, <2>5 DEF Server, ServerStarted, ServerAnswersStatus,
       ServerStopsAgain, ServerRefuses
<1>4. CASE MotionArms \/ PolicyRamps \/ ControlEnds \/ MotionIsOver
  <2>1. PICK from \in {"arming", "tracking", "earlier", "ending", "ramping"},
             to \in {"tracking", "ramping", "ending", "none"} :
             MotionMoves(from, to) /\ (to = "tracking" => from = "arming")
    BY <1>4 DEF MotionArms, PolicyRamps, ControlEnds, MotionIsOver
  <2>2. motion = from /\ motion' = to /\ UNCHANGED <<phase, published, pending, latest, seen>>
    BY <2>1 DEF MotionMoves, streamVars, clientVars, proxyVars
  <2>3. phase # "new"
    BY <2>1, <2>2 DEF TurnsTrueOnce
  <2>4. QED
    BY <2>1, <2>2, <2>3, MotionTurnsOnce
<1>5. CASE PolicyDies \/ LoseMessage \/ IntervalPasses \/ UNCHANGED vars
  <2>1. UNCHANGED <<phase, motion, published, pending, latest, seen>>
    BY <1>5 DEF PolicyDies, LoseMessage, IntervalPasses, vars, streamVars, serverVars, clientVars, proxyVars
  <2>2. QED
    BY <2>1, MotionTurnsOnce
<1>6. CASE TickDecides
  <2>1. /\ UNCHANGED <<phase, motion, published, pending, latest>>
        /\ seen' = (seen \/ SaysInControl)
    BY <1>6 DEF TickDecides, Send, streamVars, serverVars
  <2>2. phase # "new"
    BY <1>6, InBlock DEF TickDecides
  <2>3. SaysInControl' = SaysInControl
    BY <2>1 DEF SaysInControl
  <2>4. ASSUME motion = "arming" PROVE ~ seen'
    BY <2>1, <2>4 DEF TurnsTrueOnce
  <2>5. QED
    BY <2>1, <2>2, <2>3, <2>4 DEF TurnsTrueOnce
<1>7. CASE Client /\ ~ TickDecides
  <2>1. UNCHANGED <<phase, motion, seen>>
    BY <1>7 DEF Client, InTick, StartTracker, StartStreamFirst, TickBegins, TickChecksError,
       CallTimesOut, CallFails, CallReturns, UserCalls, UserStops, UserStopsStream,
       StreamJoinEnds, UserWaitsForState, WaitEnds, UserRaises, UserLeaves, ExitStops,
       Send, serverVars, clientVars, proxyVars
  <2>2. UNCHANGED <<published, pending, latest>>
    BY <1>7 DEF Client, InTick, StartTracker, StartStreamFirst, TickBegins, TickChecksError,
       CallTimesOut, CallFails, CallReturns, UserCalls, UserStops, UserStopsStream,
       StreamJoinEnds, UserWaitsForState, WaitEnds, UserRaises, UserLeaves, ExitStops,
       StartStream, RequestStreamStop, RaiseStreamError, streamVars
  <2>3. QED
    BY <2>1, <2>2, MotionTurnsOnce
<1>8. QED
  BY <1>1, <1>2, <1>3, <1>4, <1>5, <1>6, <1>7 DEF Next, Environment, Client, InTick

\* The session starts while its program waits for the answer, with _stopped unset;
\* after that its motion only ever leaves arming and tracking.
LEMMA MotionOverStays ==
    ASSUME CallInv, [Next]_vars, motion' \in {"arming", "tracking"}
    PROVE  \/ motion \in {"arming", "tracking"}
           \/ /\ user \in {"call:start", "after"} /\ UNCHANGED <<user, stopped>>
              /\ user = "call:start" => ~ stopped
<1>1. CASE UNCHANGED motion
  BY <1>1
<1>2. CASE ServerStarts /\ Server
  BY <1>2 DEF ServerStarts, Take, Server, clientVars, proxyVars, CallInv, OwnRequest, PhaseMatches
<1>3. CASE Server
  BY <1>1, <1>2, <1>3 DEF Server, ServerStarted, ServerAnswersStatus, ServerStops,
     ServerStopped, ServerStopsAgain, ServerRefuses
<1>4. CASE MotionArms \/ PolicyRamps \/ ControlEnds \/ MotionIsOver
  BY <1>4 DEF MotionArms, PolicyRamps, ControlEnds, MotionIsOver, MotionMoves
<1>5. CASE Client
  BY <1>1, <1>5 DEF Client, InTick, StartTracker, StartStreamFirst, TickBegins, TickChecksError,
     TickDecides, CallTimesOut, CallFails, CallReturns, UserCalls, UserStops, UserStopsStream,
     StreamJoinEnds, UserWaitsForState, WaitEnds, UserRaises, UserLeaves, ExitStops,
     Send, serverVars
<1>6. QED
  BY <1>1, <1>3, <1>4, <1>5 DEF Next, Stream, WorkerSteps, WorkerErrs, Environment,
     PolicyDies, CallbackPublishes, LoseMessage, IntervalPasses, vars, serverVars

\* Where a program is that has called stop() and has no answer yet.
Stopping == {"leaving", "call:stop", "call:exit", "after"}

\* A policy that has died stays dead.
LEMMA DyingIsForGood == ASSUME [Next]_vars, unattended PROVE unattended'
<1>1. CASE Stream \/ Environment \/ UNCHANGED vars
  BY <1>1 DEF Stream, WorkerSteps, WorkerErrs, Environment, Server, MotionArms, PolicyRamps,
     ControlEnds, MotionIsOver, MotionMoves, PolicyDies, CallbackPublishes, LoseMessage,
     IntervalPasses, vars, serverVars
<1>2. CASE Client
  BY <1>2 DEF Client, InTick, StartTracker, StartStreamFirst, TickBegins, TickChecksError,
     TickDecides, CallTimesOut, CallFails, CallReturns, UserCalls, UserStops, UserStopsStream,
     StreamJoinEnds, UserWaitsForState, WaitEnds, UserRaises, UserLeaves, ExitStops,
     Send, serverVars
<1>3. QED
  BY <1>1, <1>2 DEF Next

LEMMA StoppedIsOverNext ==
    ASSUME CallInv, TurnsTrueOnce, StoppedIsOver, [Next]_vars
    PROVE  StoppedIsOver'
<1> SUFFICES ASSUME motion' \in {"arming", "tracking"}, ~ unattended'
             PROVE  user' # "ended" /\ (stopped' => user' \in Stopping)
  BY DEF StoppedIsOver, NoFalseEnd, Stopping
<1>1. CASE user \in {"call:start", "after"} /\ UNCHANGED <<user, stopped>>
           /\ (user = "call:start" => ~ stopped)
  BY <1>1 DEF Stopping
<1> SUFFICES ASSUME motion \in {"arming", "tracking"}
             PROVE  user' # "ended" /\ (stopped' => user' \in Stopping)
  BY <1>1, MotionOverStays
<1>2. user # "ended" /\ (stopped => user \in Stopping)
  BY DyingIsForGood DEF StoppedIsOver, NoFalseEnd, Stopping
<1>3. CASE UNCHANGED <<user, stopped>>
  BY <1>2, <1>3
<1>4. CASE UNCHANGED stopped /\ user' # "ended" /\ (user \notin Stopping \/ user' \in Stopping)
  BY <1>2, <1>4
<1>5. CASE user' \in Stopping
  BY <1>5 DEF Stopping
<1>6. CASE Stream \/ Environment \/ UNCHANGED vars
  BY <1>3, <1>6 DEF Stream, WorkerSteps, WorkerErrs, Environment, Server, MotionArms,
     PolicyRamps, ControlEnds, MotionIsOver, MotionMoves, PolicyDies, CallbackPublishes,
     LoseMessage, IntervalPasses, vars, clientVars, proxyVars
<1>7. CASE StartTracker
  <2>1. user = "before" /\ UNCHANGED stopped /\ user' \in {"call:start", "after", "leaving"}
    BY <1>7 DEF StartTracker, Send, Raises, proxyVars
  <2>2. QED
    BY <1>4, <2>1 DEF Stopping
<1>8. CASE StartStreamFirst
  BY <1>3, <1>8 DEF StartStreamFirst, clientVars, proxyVars
<1>9. CASE TickBegins
  BY <1>2, <1>4, <1>9 DEF TickBegins, proxyVars, Stopping
<1>10. CASE TickChecksError
  BY <1>2, <1>4, <1>5, <1>10 DEF TickChecksError, Raises, proxyVars, Stopping
<1>11. CASE TickDecides
  <2>1. user = "deciding" /\ ~ stopped
    BY <1>2, <1>11 DEF TickDecides, Stopping
  <2>2. ~ EndsBySnapshot
    BY DEF EndsBySnapshot, SaysEnded, SaysInControl, TurnsTrueOnce
  <2>3. stopped' = stopped /\ user' # "ended"
    BY <1>11, <2>2 DEF TickDecides, Send, Raises
  <2>4. QED
    BY <2>1, <2>3
<1>12. CASE CallTimesOut \/ CallFails
  BY <1>5, <1>12 DEF CallTimesOut, CallFails, Raises, Stopping
<1>13. CASE CallReturns
  <2>1. reply # "none" /\ user \in Call
    BY <1>13 DEF CallReturns, Received
  <2>2. user \notin {"call:stop", "call:exit"}
    BY <2>1 DEF CallInv, AnswerHolds, PhaseMatches, OneRequest
  <2>3. ~ (user = "call:probe" /\ reply = "idle")
    BY DyingIsForGood, InBlock DEF CallInv, AnswerHolds
  <2>4. ~ stopped
    BY <1>2, <2>1, <2>2 DEF Stopping, Call
  <2>5. user' # "ended" /\ ~ stopped'
    BY <1>13, <2>2, <2>3, <2>4 DEF CallReturns
  <2>6. QED
    BY <2>5
<1>14. CASE UserCalls
  BY <1>4, <1>14 DEF UserCalls, Send, Raises, proxyVars, Stopping
<1>15. CASE UserStops \/ ExitStops
  BY <1>5, <1>15 DEF UserStops, ExitStops, Send, Raises, Stopping
<1>16. CASE UserStopsStream \/ StreamJoinEnds \/ UserWaitsForState
  BY <1>4, <1>16 DEF UserStopsStream, StreamJoinEnds, UserWaitsForState, proxyVars, Stopping
<1>17. CASE WaitEnds
  BY <1>4, <1>5, <1>17 DEF WaitEnds, Raises, proxyVars, Stopping
<1>18. CASE UserRaises \/ UserLeaves
  BY <1>5, <1>18 DEF UserRaises, UserLeaves, Raises, Stopping
<1>19. QED
  BY <1>6, <1>7, <1>8, <1>9, <1>10, <1>11, <1>12, <1>13, <1>14, <1>15, <1>16, <1>17, <1>18
     DEF Next, Client, InTick

\* Where no other motion runs before the session's, tick() ends the loop of a
\* session that is armed or tracking only when its policy has died: not by the
\* first cycles' false, which no true has come before, and not by an answer that
\* is late.
THEOREM EndIsTrue ==
    ASSUME ~ EarlierMotion
    PROVE  Spec => []NoFalseEnd
<1>1. Init => LoopInv
  <2> SUFFICES ASSUME Init PROVE LoopInv
    OBVIOUS
  <2>1. StreamInv /\ CallInv
    BY StreamInitHasInv, CallInit DEF Init
  <2>2. TurnsTrueOnce
    BY DEF Init, StreamInit, TurnsTrueOnce
  <2>3. StoppedIsOver
    BY DEF Init, StoppedIsOver, NoFalseEnd
  <2>4. QED
    BY <2>1, <2>2, <2>3 DEF LoopInv
<1>2. LoopInv /\ [Next]_vars => LoopInv'
  BY StreamInvNext, CallInvNext, TurnsTrueOnceNext, StoppedIsOverNext DEF LoopInv
<1>3. LoopInv => NoFalseEnd
  BY DEF LoopInv, StoppedIsOver
<1>4. QED
  BY <1>1, <1>2, <1>3, PTL DEF Spec
====
