----------------------------- MODULE MCStartup -----------------------------
(* Small instances of Startup for TLC.                                     *)
EXTENDS Startup, TLC

CONSTANTS p1, p2, p3, r1, r2, d1

(* Both repositories are started on one database path.                     *)
SharedPath == {<<r1, d1>>, <<r2, d1>>}

(* Processes are interchangeable.                                          *)
ProcSymmetry == Permutations(Procs)
=============================================================================
