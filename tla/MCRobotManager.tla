--------------------------- MODULE MCRobotManager ---------------------------
(* Small instances of RobotManager for TLC. *)
EXTENDS RobotManager, TLC

\* Sessions and robots are interchangeable: no action compares or orders them.
\* Used with invariants only, never with a temporal property.
Symmetry == Permutations(Session) \cup Permutations(Robot)
=============================================================================
