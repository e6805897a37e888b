----------------------------- MODULE LatestValue -----------------------------
(***************************************************************************)
(* What zero_franky's one-way channels promise, with no sockets, threads or *)
(* drops in them: a source numbers its values, and a reader holds one of    *)
(* them.  A reader may miss values and lag by any amount, but it holds      *)
(* nothing the source did not have, and never goes back.                    *)
(***************************************************************************)
EXTENDS Naturals

CONSTANT Reader

VARIABLES newest, \* number of the source's newest value
          held    \* [Reader -> number of the value it holds, 0 before the first]

vars == <<newest, held>>

\* A reader holds nothing the source did not have.
TypeOK == newest \in Nat /\ held \in [Reader -> 0 .. newest]

Init == newest \in Nat /\ held = [r \in Reader |-> 0]

Renew == /\ newest' = newest + 1
         /\ UNCHANGED held

Catch(r) == /\ \E n \in held[r] .. newest : held' = [held EXCEPT ![r] = n]
            /\ UNCHANGED newest

Next == Renew \/ \E r \in Reader : Catch(r)

Spec == Init /\ [][Next]_vars
=============================================================================
