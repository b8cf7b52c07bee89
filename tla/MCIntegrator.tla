---------------------------- MODULE MCIntegrator ----------------------------
(* Small instances of Integrator for TLC.                                  *)
EXTENDS Integrator, TLC

CONSTANTS b1, b2, w1, w2, i1, p, q

(* p loses its dependents with b1; q is added by b2 and removed by b1.     *)
HeldIn   == p :> Tree @@ q :> {{b2}}
FrozenIn == p :> {t \in Tree : b1 \notin t} @@ q :> {{b2}}

(* The same whatever the branches are called: q is what either adds.       *)
HeldInAny == p :> Tree @@ q :> Tree \ {{}}

(* Branches and workers are interchangeable; only in runs without liveness. *)
Symmetry == Permutations(Branches) \cup Permutations(Workers)
=============================================================================
