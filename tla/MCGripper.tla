------------------------------ MODULE MCGripper ------------------------------
(***************************************************************************)
(* GripperClient on a scale of four steps, four units each: a step beyond   *)
(* each end, a quarter and a half of a step between two positions.          *)
(***************************************************************************)
EXTENDS GripperClient

GripperWidths == {-4, 1, 6, Full + 4}

\* Bound: the program makes calls or keeps a cache.  Neither disturbs the other:
\* a cache sends nothing, and other clients' requests come at any time anyway.
Calls == socket # "ready" \/ user # "body"
Bound == ~ (Calls /\ cacheAt # "none")

BoundedSpec == ClientInit /\ [][ClientNext /\ Bound']_allVars /\ ClientFairness
=============================================================================
