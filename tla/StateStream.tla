----------------------------- MODULE StateStream -----------------------------
(***************************************************************************)
(* The state PUB/SUB channel (pubsub.py) and RobotProxy's background        *)
(* subscriber (zmq_client.py: start_state_stream, stop_state_stream,        *)
(* latest_state).  One user thread starts and stops the stream; the worker  *)
(* threads it leaves behind share the stop event, the stored error and the  *)
(* latest snapshot.  A snapshot is its place in the publishing order and    *)
(* the `in_control` it carries: all that a reader tells apart.              *)
(***************************************************************************)
EXTENDS Naturals, Sequences

CONSTANTS
    Worker,       \* state stream threads; a dead one's name is used again
    NoWorker,
    NoSnapshot,   \* _latest_state before the first delivery
    MaxSnapshots  \* bound: snapshots the server publishes

ASSUME StreamAssumption == /\ NoWorker \notin Worker
                           /\ MaxSnapshots \in Nat

Snapshot == [seq : 1..MaxSnapshots, in_control : BOOLEAN]

ASSUME SnapshotAssumption == NoSnapshot \notin Snapshot

VARIABLES
    published,  \* snapshots published so far
    workerAt,   \* [Worker -> WorkerStep], where each thread is
    pending,    \* [Worker -> Seq(Snapshot)], its SUB socket's queue
    thread,     \* _state_stream_thread
    stopSet,    \* _state_stream_stop
    error,      \* _state_stream_error: none, stored, or stored and raised
    latest      \* _latest_state

streamVars == <<published, workerAt, pending, thread, stopSet, error, latest>>

WorkerStep == {"dead", "subscribing", "receiving", "storing"}

StreamTypeOK ==
    /\ published \in 0..MaxSnapshots
    /\ workerAt \in [Worker -> WorkerStep]
    /\ pending \in [Worker -> Seq(Snapshot)]
    /\ thread \in Worker \cup {NoWorker}
    /\ stopSet \in BOOLEAN
    /\ error \in {"none", "stored", "raised"}
    /\ latest \in Snapshot \cup {NoSnapshot}

StreamInit ==
    /\ published = 0
    /\ workerAt = [w \in Worker |-> "dead"]
    /\ pending = [w \in Worker |-> <<>>]
    /\ thread = NoWorker
    /\ stopSet = FALSE
    /\ error = "none"
    /\ latest = NoSnapshot

Alive(w) == workerAt[w] # "dead"
Subscribed == {w \in Worker : workerAt[w] \in {"receiving", "storing"}}

\* Mutation: a thread that was told to stop counts as gone.
StreamAliveUnlessStopped == thread # NoWorker /\ Alive(thread) /\ ~ stopSet

StreamAlive == thread # NoWorker /\ Alive(thread)

-----------------------------------------------------------------------------
\* StatePublisher.publish from the motion's callback.  PUB drops what a
\* subscriber cannot take, without telling anyone.
Publish(inControl) ==
    /\ published < MaxSnapshots
    /\ published' = published + 1
    /\ \E served \in SUBSET Subscribed :
         pending' = [w \in Worker |->
             IF w \in served
             THEN Append(pending[w], [seq |-> published', in_control |-> inControl])
             ELSE pending[w]]
    /\ UNCHANGED <<workerAt, thread, stopSet, error, latest>>

-----------------------------------------------------------------------------
(***************************************************************************)
(* The worker.                                                              *)
(***************************************************************************)
Steps(w, from, to) == workerAt[w] = from /\ workerAt' = [workerAt EXCEPT ![w] = to]

Dies(w, from) == /\ Steps(w, from, "dead")
                 /\ pending' = [pending EXCEPT ![w] = <<>>]

\* while not self._state_stream_stop.is_set()
LoopsOn(w, from) ==
    IF stopSet THEN Dies(w, from)
    ELSE Steps(w, from, "receiving") /\ UNCHANGED pending

\* The SUB socket is made and connected on the worker thread.
Subscribe(w) == /\ LoopsOn(w, "subscribing")
                /\ UNCHANGED <<published, thread, stopSet, error, latest>>

\* state_subscriber raised, or recv did (not Again): the error is stored.
WorkerFails(w) == /\ \/ Dies(w, "subscribing")
                     \/ Dies(w, "receiving")
                  /\ error' = "stored"
                  /\ UNCHANGED <<published, thread, stopSet, latest>>

\* StateSubscriber.recv keeps receiving, and never times out, while other
\* robots' snapshots arrive: only then may it stay here with nothing to return.
Receive(w) == /\ pending[w] # <<>>
              /\ Steps(w, "receiving", "storing")
              /\ UNCHANGED <<published, pending, thread, stopSet, error, latest>>

\* Mutation: an Again is kept as the stream's error, like any other.
ReceiveTimesOutStored(w) == /\ pending[w] = <<>>
                            /\ Dies(w, "receiving")
                            /\ error' = "Again"
                            /\ UNCHANGED <<published, thread, stopSet, latest>>

\* zmq.Again: look at the event again.
ReceiveTimesOut(w) == /\ pending[w] = <<>>
                      /\ LoopsOn(w, "receiving")
                      /\ UNCHANGED <<published, thread, stopSet, error, latest>>

\* The received snapshot becomes _latest_state under the condition's lock.
Store(w) ==
    /\ workerAt[w] = "storing"
    /\ latest' = Head(pending[w])
    /\ IF stopSet THEN Dies(w, "storing")
       ELSE /\ Steps(w, "storing", "receiving")
            /\ pending' = [pending EXCEPT ![w] = Tail(@)]
    /\ UNCHANGED <<published, thread, stopSet, error>>

WorkerMove(w) == Subscribe(w) \/ Receive(w) \/ ReceiveTimesOut(w) \/ Store(w)

-----------------------------------------------------------------------------
(***************************************************************************)
(* The user thread's side.                                                  *)
(***************************************************************************)
\* start_state_stream: nothing while the thread is alive, even one that was
\* told to stop; otherwise the event and the stored error are cleared and a
\* thread is started.
StartStream ==
    IF StreamAlive
    THEN UNCHANGED streamVars
    ELSE \E w \in Worker :
           /\ Steps(w, "dead", "subscribing")
           /\ thread' = w
           /\ stopSet' = FALSE
           /\ error' = "none"
           /\ UNCHANGED <<published, pending, latest>>

\* stop_state_stream up to its join.
RequestStreamStop == /\ stopSet' = TRUE
                     /\ UNCHANGED <<published, workerAt, pending, thread, error, latest>>

\* A stored error leaves through tick or wait_for_state, and stays stored.
RaiseStreamError == /\ error # "none"
                    /\ error' = "raised"
                    /\ UNCHANGED <<published, workerAt, pending, thread, stopSet, latest>>
=============================================================================
