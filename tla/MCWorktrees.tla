----------------------------- MODULE MCWorktrees -----------------------------
(* Small instances of Worktrees for TLC.                                   *)
EXTENDS Worktrees, TLC

CONSTANTS n1, n2, n3, a1, a2, a3, h1, h2

(* Two threads of a broker and an agent process.                           *)
TwoHosts == (a1 :> h1) @@ (a2 :> h1) @@ (a3 :> h2)
OneHost == (a1 :> h1) @@ (a2 :> h1)

NameSymmetry == Permutations(Names)
=============================================================================
