------------------------------- MODULE MCHook -------------------------------
(* Two agents on a repository of one module, one other file and a symbolic *)
(* link to the module, and one path outside.                               *)
EXTENDS Hook, TLC

CONSTANTS a1, a2, out

MCAgents == {a1, a2}
MCPaths  == {"mod", "link", "scratch"}
MCFiles  == {"mod"}
MCTarget == [p \in MCPaths |-> IF p = "scratch" THEN out ELSE "mod"]
MCTexts  == {"one", "bad"}
MCGlue   == [c \in {"one"} |-> c]

AgentSymmetry == Permutations(MCAgents)
=============================================================================
