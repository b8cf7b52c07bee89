---------------------------- MODULE AtomicTrunk -----------------------------
(***************************************************************************)
(* What the integrator promises of the trunk (DESIGN 5.4), with neither    *)
(* the merge-first-judge-later window nor crashes: a branch lands in one   *)
(* step, on a tree the gate has passed, and nothing that landed leaves.    *)
(* A tree is the set of branches merged into it.                           *)
(***************************************************************************)
CONSTANT Branches

VARIABLES
  tree,    \* the trunk
  green    \* the trees the gate has passed

Init == tree = {} /\ green = {}

Pass == \E t \in SUBSET Branches : green' = green \cup {t} /\ UNCHANGED tree

Land == \E b \in Branches :
          /\ tree \cup {b} \in green
          /\ tree' = tree \cup {b}
          /\ UNCHANGED green

Next == Pass \/ Land

Spec == Init /\ [][Next]_<<tree, green>>

-----------------------------------------------------------------------------
(* The trunk is test-green at every moment: it is empty or a tree the gate *)
(* has passed (DESIGN 5.4).                                                *)
AlwaysGreen == tree = {} \/ tree \in green

(* Nothing that landed on the trunk leaves it.                             *)
OnlyGrows == [][tree \subseteq tree']_tree
=============================================================================
