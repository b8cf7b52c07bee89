------------------------------ MODULE MCLeases ------------------------------
(* Small instances of Leases for TLC.                                      *)
EXTENDS Leases, TLC

CONSTANTS a1, a2, s1, s2, s3, p1, r1, r2

(* Agent a1 speaks through two threads, a2 through one.                    *)
TwoAndOne == (s1 :> a1) @@ (s2 :> a1) @@ (s3 :> a2)
(* One thread each.                                                        *)
OneEach == (s1 :> a1) @@ (s2 :> a2)

(* The two threads of a1 are interchangeable.                              *)
SlotSymmetry == Permutations({s1, s2})
=============================================================================
