-------------------------- MODULE TrackerLifecycle --------------------------
(***************************************************************************)
(* What the server promises of a tracker session, with no threads, ramps or *)
(* robots in it: a session is new, registered, stopping, then stopped; its  *)
(* tracking motion may be lost at any time and never comes back; a stop is  *)
(* answered only once the motion is gone; one stop runs at a time.          *)
(***************************************************************************)
CONSTANT Session

VARIABLES phase,   \* [Session -> Phase]
          driving  \* sessions whose tracking motion a robot is executing

vars == <<phase, driving>>

Phase == {"new", "registered", "stopping", "stopped"}

TypeOK == phase \in [Session -> Phase] /\ driving \subseteq Session

Init == phase = [s \in Session |-> "new"] /\ driving = {}

\* A new tracking motion may replace any others.
Start(s) == /\ phase[s] = "new"
            /\ phase' = [phase EXCEPT ![s] = "registered"]
            /\ \E lost \in SUBSET driving : driving' = (driving \ lost) \cup {s}

LoseMotion == /\ driving' \in SUBSET driving
              /\ UNCHANGED phase

\* The motion may be replaced at once, or later.
BeginStop(s) == /\ phase[s] = "registered"
                /\ \A o \in Session : phase[o] # "stopping"
                /\ phase' = [phase EXCEPT ![s] = "stopping"]
                /\ driving' \in SUBSET driving

AnswerStop(s) == /\ phase[s] = "stopping"
                 /\ s \notin driving
                 /\ phase' = [phase EXCEPT ![s] = "stopped"]
                 /\ UNCHANGED driving

Next == \/ LoseMotion
        \/ \E s \in Session : Start(s) \/ BeginStop(s) \/ AnswerStop(s)

Spec == Init /\ [][Next]_vars

\* What a stop promises: once it is answered the motion is gone, for good.
Released == \A s \in Session : phase[s] = "stopped" => s \notin driving
=============================================================================
