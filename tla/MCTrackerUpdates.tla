--------------------------- MODULE MCTrackerUpdates ---------------------------
(* A small instance of TrackerUpdates: a value to change from and one to     *)
(* change to, and the asks that tell the rules of retuning apart.            *)
EXTENDS TrackerUpdates, TLC

CONSTANTS old, new, s1, s2

MCSession == {s1, s2}

MCValue == {old, new}

Stiff(t, r, c) == [translational |-> t, rotational |-> r, coupling |-> c]

MCInitialGains ==
    [joint     |-> [stiffness |-> old, damping |-> old],
     cartesian |-> [stiffness |-> Stiff(old, old, old), damping |-> old],
     nullspace |-> [posture |-> old, rest |-> old]]

\* A joint tracker with hybrid Cartesian gains is retuned, the other is not.
MCAsksOf ==
    s1 :> {}
    @@ s2 :> {[what |-> "joint", stiffness |-> None, damping |-> CRITICAL],
              [what |-> "joint", stiffness |-> None, damping |-> None],
              [what |-> "blocks", translational |-> new, rotational |-> None, damping |-> None],
              [what |-> "whole", stiffness |-> Stiff(old, new, new), damping |-> None]}
=============================================================================
