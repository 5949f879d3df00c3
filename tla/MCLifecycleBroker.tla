-------------------------- MODULE MCLifecycleBroker --------------------------
(* Instances of LifecycleBroker for TLC.                                   *)
EXTENDS LifecycleBroker, TLC

CONSTANTS p1, p2

\* Two keys of different task attempts; two keys of one attempt.
Distinct == p1 :> 1 @@ p2 :> 2
Same == p1 :> 1 @@ p2 :> 1
One == p1 :> 1

\* Where there are two keys, the one may stand for the other: Attempt tells
\* only whether two keys share an attempt.
Symmetry == Permutations({p1, p2})
=============================================================================
