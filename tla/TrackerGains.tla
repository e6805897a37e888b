----------------------------- MODULE TrackerGains -----------------------------
(***************************************************************************)
(* How a tracker's gains are retuned: what a caller names, the payload the  *)
(* client makes of it, and what the server merges into the motion's current *)
(* gains.  A 6 x 6 stiffness is its two named blocks and the rest of the    *)
(* matrix (the coupling); any other gain is one value.  The joint motion's  *)
(* hybrid Cartesian gains go through the same functions as the Cartesian    *)
(* motion's own, so `cartesian' stands for either.                          *)
(***************************************************************************)

CONSTANTS
    Value,            \* what a gain can be
    None,             \* Python's None, and null on the wire
    CRITICAL,         \* franky.CRITICAL, given by a caller to unpin damping
    CRITICAL_DAMPING  \* its spelling on the wire

Optional  == Value \cup {None}
Stiffness == [translational : Value, rotational : Value, coupling : Value]

ASSUME GainsAssumption ==
    /\ {None, CRITICAL, CRITICAL_DAMPING} \cap Value = {}
    /\ None # CRITICAL /\ None # CRITICAL_DAMPING /\ CRITICAL # CRITICAL_DAMPING
    /\ None \notin Stiffness

-----------------------------------------------------------------------------
\* What a motion holds.  Damping None is not pinned: it tracks critical damping.
Gains == [joint     : [stiffness : Value, damping : Optional],
          cartesian : [stiffness : Stiffness, damping : Optional],
          nullspace : [posture : Value, rest : Value]]

\* What a caller may ask for: by name, where None is "not named" ...
JointAsk   == [what : {"joint"}, stiffness : Optional, damping : Optional \cup {CRITICAL}]
BlockAsk   == [what : {"blocks"}, translational : Optional, rotational : Optional,
               damping : Optional \cup {CRITICAL}]
PostureAsk == [what : {"posture"}, posture : Value]

\* ... or as a whole.
WholeAsk     == [what : {"whole"}, stiffness : Stiffness, damping : Optional]
NullspaceAsk == [what : {"nullspace"}, gains : [posture : Value, rest : Value]]

Ask == JointAsk \cup BlockAsk \cup PostureAsk \cup WholeAsk \cup NullspaceAsk

\* A call that names nothing changes nothing: proxies and handles drop it.
NamesNothing(a) ==
    \/ a.what = "joint" /\ a.stiffness = None /\ a.damping = None
    \/ a.what = "blocks" /\ a.translational = None /\ a.rotational = None /\ a.damping = None

-----------------------------------------------------------------------------
\* encode_rpc_value and decode_damping, on a damping.
EncodeDamping(d) == IF d = CRITICAL THEN CRITICAL_DAMPING ELSE d

\* Mutation: the sentinel is handed to franky.
DecodeDampingAsIs(d) == d

DecodeDamping(d) == IF d = CRITICAL_DAMPING THEN None ELSE d

\* JointImpedanceTrackerProxy.set_gains
JointPayload(a) == [stiffness |-> a.stiffness, damping |-> EncodeDamping(a.damping)]

\* _cartesian_gains_payload: a payload with a stiffness replaces everything.
CartesianPayload(a) ==
    IF a.what = "whole"
    THEN [stiffness |-> a.stiffness, translational |-> None, rotational |-> None,
          damping |-> a.damping]
    ELSE [stiffness |-> None, translational |-> a.translational,
          rotational |-> a.rotational, damping |-> EncodeDamping(a.damping)]

\* TrackerSession.set_joint_gains
ResolveJoint(p, current) ==
    [stiffness |-> IF p.stiffness = None THEN current.stiffness ELSE p.stiffness,
     damping   |-> DecodeDamping(p.damping)]

\* The named 3 x 3 blocks of a stiffness, overwritten.
OverwriteBlocks(p, k) ==
    [k EXCEPT !.translational = IF p.translational = None THEN @ ELSE p.translational,
              !.rotational    = IF p.rotational = None THEN @ ELSE p.rotational]

\* Mutation: a damping that is not named stays pinned.
ResolveCartesianPinned(p, current) ==
    IF p.stiffness # None
    THEN [stiffness |-> p.stiffness, damping |-> DecodeDamping(p.damping)]
    ELSE [stiffness |-> OverwriteBlocks(p, current.stiffness),
          damping   |-> IF p.damping = None THEN current.damping ELSE DecodeDamping(p.damping)]

\* TrackerSession._resolve_cartesian_gains
ResolveCartesian(p, current) ==
    [stiffness |-> IF p.stiffness # None THEN p.stiffness
                   ELSE OverwriteBlocks(p, current.stiffness),
     damping   |-> DecodeDamping(p.damping)]

\* Which of a motion's gains an ask sets; each has a setter of its own.
Part(a) == CASE a.what = "joint" -> "joint"
             [] a.what \in {"blocks", "whole"} -> "cartesian"
             [] a.what \in {"posture", "nullspace"} -> "nullspace"

\* What that setter is given, for an ask and the gains read from the motion.
Merged(a, read) ==
    CASE a.what = "joint" -> ResolveJoint(JointPayload(a), read.joint)
      [] a.what \in {"blocks", "whole"} ->
           ResolveCartesian(CartesianPayload(a), read.cartesian)
      [] a.what = "posture" -> [read.nullspace EXCEPT !.posture = a.posture]
      [] a.what = "nullspace" -> a.gains

-----------------------------------------------------------------------------
(***************************************************************************)
(* What set_gains and its kin promise, as a relation between the gains      *)
(* before and after.                                                        *)
(***************************************************************************)
\* A gain that is named is set, one that is not is kept.
SetIfNamed(named, old, new) == new = IF named = None THEN old ELSE named

\* "Omitting damping means critical damping, CRITICAL explicitly unpins it."
PinnedIfNamed(damping, new) == new = IF damping \in Value THEN damping ELSE None

Honours(a, old, new) ==
    /\ \A part \in {"joint", "cartesian", "nullspace"} \ {Part(a)} : new[part] = old[part]
    /\ a.what = "joint" =>
         /\ SetIfNamed(a.stiffness, old.joint.stiffness, new.joint.stiffness)
         /\ PinnedIfNamed(a.damping, new.joint.damping)
    /\ a.what = "blocks" =>
         /\ \A block \in {"translational", "rotational"} :
              SetIfNamed(a[block], old.cartesian.stiffness[block], new.cartesian.stiffness[block])
         /\ new.cartesian.stiffness.coupling = old.cartesian.stiffness.coupling
         /\ PinnedIfNamed(a.damping, new.cartesian.damping)
    /\ a.what = "whole" =>
         new.cartesian = [stiffness |-> a.stiffness, damping |-> a.damping]
    /\ a.what = "posture" =>
         new.nullspace.posture = a.posture /\ new.nullspace.rest = old.nullspace.rest
    /\ a.what = "nullspace" => new.nullspace = a.gains
=============================================================================
