-------------------------- MODULE ImpactGateProofs --------------------------
(***************************************************************************)
(* What the impact walk of ImpactGate computes, for every import graph,    *)
(* every set of changed files and every order of the worklist.             *)
(***************************************************************************)
EXTENDS ImpactGate, TLAPS

(* A reverse edge leads to a file that has parcels.                        *)
LEMMA DependentsAreIndexed == \A f : Dependents(f) \subseteq Indexed
<1> SUFFICES ASSUME NEW f, NEW g \in Dependents(f)
             PROVE  g \in Indexed
  OBVIOUS
<1>1. PICK p \in ParcelsOf(f) : \E q \in ReverseEdges(p) : g = q[1]
  BY DEF Dependents
<1>2. PICK i \in tree.imports : g = i[1] /\ p \in Resolved(i)
  BY <1>1 DEF ReverseEdges
<1> QED
  BY <1>2 DEF Resolved

(* Every edge leads to a parcel of its file, so the files an import leads  *)
(* to are those its file is a dependent of.                                *)
LEMMA DependentsFollowEdges ==
  ASSUME NEW i \in tree.imports, NEW p \in Resolved(i)
  PROVE  i[1] \in Dependents(p[1])
<1>1. p \in ParcelsOf(p[1])
  BY DEF Resolved, ParcelsOf
<1>2. <<i[1], Module>> \in ReverseEdges(p)
  BY DEF ReverseEdges
<1> QED
  BY <1>1, <1>2 DEF Dependents

(* A set is closed under the edges of the graph exactly if it holds the    *)
(* dependents of its files.                                                *)
LEMMA ClosedMeansDependents ==
  \A C : Closed(C) <=> \A f \in C : Dependents(f) \subseteq C
<1> SUFFICES ASSUME NEW C
             PROVE  Closed(C) <=> \A f \in C : Dependents(f) \subseteq C
  OBVIOUS
<1>1. ASSUME Closed(C), NEW f \in C, NEW g \in Dependents(f)
      PROVE  g \in C
  <2>1. PICK p \in ParcelsOf(f) : \E q \in ReverseEdges(p) : g = q[1]
    BY <1>1 DEF Dependents
  <2>2. PICK i \in tree.imports : g = i[1] /\ p \in Resolved(i)
    BY <2>1 DEF ReverseEdges
  <2>3. p[1] = f
    BY <2>1 DEF ParcelsOf
  <2> QED
    BY <1>1, <2>2, <2>3 DEF Closed
<1>2. ASSUME \A f \in C : Dependents(f) \subseteq C
      PROVE  Closed(C)
  BY <1>2, DependentsFollowEdges DEF Closed
<1> QED
  BY <1>1, <1>2

(* Every variable the gate assigns keeps its type.                         *)
THEOREM Typing == Spec => []TypeOK
<1> USE DEF TypeOK
<1>1. Init => TypeOK
  BY GateAssumption DEF Init, GateAssumption
<1>2. ASSUME TypeOK, [Next]_vars
      PROVE  TypeOK'
  <2> USE <1>2
  <2>1. CASE Start
    BY <2>1 DEF Start, Indexed
  <2>2. CASE Walk
    <3>1. PICK f \in queue :
             LET new == Dependents(f) \ visited
             IN  /\ visited' = visited \cup new
                 /\ affected' = affected \cup new
                 /\ queue' = (queue \ {f}) \cup new
      BY <2>2 DEF Walk
    <3>2. Dependents(f) \subseteq Files
      BY DependentsAreIndexed DEF Indexed
    <3> QED
      BY <2>2, <3>1, <3>2 DEF Walk
  <2>3. CASE Walked
    BY <2>3 DEF Walked
  <2>4. CASE Select
    BY <2>4 DEF Select, ToRun, Selected, Suite
  <2>5. CASE Spawn
    BY <2>5 DEF Spawn
  <2>6. CASE Communicate
    BY <2>6 DEF Communicate
  <2>7. CASE TimeOut
    BY <2>7 DEF TimeOut
  <2>8. CASE Drain
    BY <2>8 DEF Drain
  <2>9. CASE Environment
    BY <2>9 DEF Environment, Daemonise, DaemonEnds, TestsExit
  <2>10. CASE UNCHANGED vars
    BY <2>10 DEF vars
  <2> QED
    BY <1>2, <2>1, <2>2, <2>3, <2>4, <2>5, <2>6, <2>7, <2>8, <2>9, <2>10
    DEF Next, Gate
<1> QED
  BY <1>1, <1>2, PTL DEF Spec

(* One iteration of the worklist: a closed set around the seeds that held  *)
(* what was affected holds what is affected now.                           *)
LEMMA StepStaysInside ==
  ASSUME NEW C, Closed(C), affected \subseteq C,
         NEW f \in queue, queue \subseteq affected
  PROVE  affected \cup (Dependents(f) \ visited) \subseteq C
BY ClosedMeansDependents

(* The gate's graph does not change under it: the tree and the changed     *)
(* files are what they were when it started.                               *)
LEMMA GraphStands ==
  ASSUME UNCHANGED <<tree, changed>>
  PROVE  /\ Seeds' = Seeds
         /\ \A f : Dependents(f)' = Dependents(f)
         /\ \A C : Closed(C)' = Closed(C)
BY DEF Seeds, Closed, Dependents, ReverseEdges, ParcelsOf, Resolved, Indexed

(* The worklist invariant.                                                 *)
THEOREM WalkInvariant == Spec => []WalkInv
<1>1. Init => WalkInv
  BY DEF Init, WalkInv
<1>2. ASSUME TypeOK, WalkInv, [Next]_vars
      PROVE  WalkInv'
  <2> USE <1>2
  <2>1. CASE Start
    <3>1. CASE changed = {} \/ blind'
      BY <2>1, <3>1 DEF Start, WalkInv
    <3>2. CASE changed # {} /\ ~blind'
      <4>1. /\ pc' = "walk" /\ visited' = changed
            /\ affected' = Seeds /\ queue' = Seeds
            /\ UNCHANGED <<tree, changed>>
        BY <2>1, <3>2 DEF Start, Seeds
      <4>2. Seeds \subseteq changed /\ Seeds' = Seeds
        BY <4>1, GraphStands DEF Seeds
      <4> QED
        BY <4>1, <4>2 DEF WalkInv
    <3> QED
      BY <2>1, <3>1, <3>2
  <2>2. CASE Walk
    <3> SUFFICES ASSUME ~blind, changed # {}
                 PROVE  WalkInv'
      BY <2>2 DEF Walk, WalkInv
    <3>1. PICK f \in queue :
             /\ visited' = visited \cup (Dependents(f) \ visited)
             /\ affected' = affected \cup (Dependents(f) \ visited)
             /\ queue' = (queue \ {f}) \cup (Dependents(f) \ visited)
      BY <2>2 DEF Walk
    <3>2. UNCHANGED <<tree, changed, pc, blind>> /\ pc = "walk"
      BY <2>2 DEF Walk
    <3>3. /\ visited = changed \cup affected
          /\ queue \subseteq affected /\ Seeds \subseteq affected
          /\ \A g \in affected \ queue : Dependents(g) \subseteq affected
          /\ \A C \in SUBSET Files :
               Seeds \subseteq C /\ Closed(C) => affected \subseteq C
      BY <3>2 DEF WalkInv
    <3>4. /\ Seeds' = Seeds
          /\ \A g : Dependents(g)' = Dependents(g)
          /\ \A C : Closed(C)' = Closed(C)
      BY <3>2, GraphStands
    <3>5. visited' = changed' \cup affected'
      BY <3>1, <3>2, <3>3
    <3>6. queue' \subseteq affected' /\ Seeds' \subseteq affected'
      BY <3>1, <3>3, <3>4
    <3>7. Dependents(f) \cap changed \subseteq affected
      <4>1. Dependents(f) \subseteq Indexed
        <5> SUFFICES ASSUME NEW g \in Dependents(f)
                     PROVE  g \in Indexed
          OBVIOUS
        <5> QED
          BY DependentsAreIndexed
      <4> QED
        BY <3>3, <4>1 DEF Seeds
    <3>8. \A g \in affected' \ queue' : Dependents(g)' \subseteq affected'
      <4> SUFFICES ASSUME NEW g \in affected' \ queue'
                   PROVE  Dependents(g) \subseteq affected'
        BY <3>4
      <4>1. CASE g = f
        BY <3>1, <3>3, <3>7, <4>1
      <4>2. CASE g # f
        BY <3>1, <3>3, <4>2
      <4> QED
        BY <4>1, <4>2
    <3>9. \A C \in SUBSET Files :
            Seeds' \subseteq C /\ Closed(C)' => affected' \subseteq C
      <4> SUFFICES ASSUME NEW C \in SUBSET Files, Seeds \subseteq C, Closed(C)
                   PROVE  affected' \subseteq C
        BY <3>4
      <4>1. affected \subseteq C
        BY <3>3
      <4> QED
        BY <3>1, <3>3, <4>1, StepStaysInside
    <3> QED
      BY <3>2, <3>5, <3>6, <3>8, <3>9 DEF WalkInv
  <2>3. CASE UNCHANGED <<tree, changed, visited, affected, queue, blind>>
                /\ pc # "start" /\ (pc' # "walk" /\ pc = "walk" => queue = {})
                /\ (pc' = "walk" => pc = "walk") /\ pc' # "start"
    <3>1. /\ Seeds' = Seeds
          /\ \A g : Dependents(g)' = Dependents(g)
          /\ \A C : Closed(C)' = Closed(C)
      BY <2>3, GraphStands
    <3> QED
      BY <2>3, <3>1 DEF WalkInv
  <2>4. CASE UNCHANGED <<tree, changed, visited, affected, queue, blind, pc>>
    <3>1. /\ Seeds' = Seeds
          /\ \A g : Dependents(g)' = Dependents(g)
          /\ \A C : Closed(C)' = Closed(C)
      BY <2>4, GraphStands
    <3> QED
      BY <2>4, <3>1 DEF WalkInv
  <2>5. CASE Walked
    BY <2>3, <2>5 DEF Walked
  <2>6. CASE Select
    BY <2>3, <2>6 DEF Select
  <2>7. CASE Spawn
    BY <2>3, <2>7 DEF Spawn
  <2>8. CASE Communicate \/ TimeOut \/ Drain
    BY <2>3, <2>8 DEF Communicate, TimeOut, Drain
  <2>9. CASE Environment \/ UNCHANGED vars
    BY <2>4, <2>9 DEF Environment, Daemonise, DaemonEnds, TestsExit, vars
  <2> QED
    BY <1>2, <2>1, <2>2, <2>5, <2>6, <2>7, <2>8, <2>9 DEF Next, Gate
<1> QED
  BY <1>1, <1>2, Typing, PTL DEF Spec

(* The walk computes the reverse dependencies of the changed files, no     *)
(* more and no fewer, whatever the graph (_reverse_dep_files).             *)
THEOREM WalkIsExact == Spec => []WalkExact
<1>1. WalkInv => WalkExact
  BY ClosedMeansDependents DEF WalkInv, WalkExact
<1> QED
  BY <1>1, WalkInvariant, PTL

(* The selection and the tree it was made for stand to the end.            *)
THEOREM SelectionStands == Spec => []SelectionInv
<1>1. Init => SelectionInv
  BY DEF Init, SelectionInv
<1>2. ASSUME SelectionInv, [Next]_vars
      PROVE  SelectionInv'
  <2> USE <1>2
  <2>1. UNCHANGED <<tree, changed>>
    BY DEF Next, Gate, Environment, Start, Walk, Walked, Select, Spawn,
           Communicate, TimeOut, Drain, Daemonise, DaemonEnds, TestsExit, vars
  <2>2. Trees(changed)' = Trees(changed)
    BY <2>1 DEF Trees, MustFail, MayFail, Existing, Downstream, Leans, Found
  <2>3. UNCHANGED <<affected, blind>> => ToRun' = ToRun
    BY <2>1 DEF ToRun, Selected, Suite, Existing
  <2>4. CASE Start \/ Walk \/ Walked
    BY <2>1, <2>2, <2>4 DEF Start, Walk, Walked, SelectionInv
  <2>5. CASE Select
    BY <2>1, <2>2, <2>3, <2>5 DEF Select, SelectionInv
  <2>6. CASE Spawn \/ TimeOut \/ Drain
    BY <2>1, <2>2, <2>3, <2>6 DEF Spawn, TimeOut, Drain, SelectionInv
  <2>7. CASE Communicate
    BY <2>1, <2>2, <2>3, <2>7 DEF Communicate, SelectionInv
  <2>8. CASE Environment \/ UNCHANGED vars
    BY <2>1, <2>2, <2>3, <2>8
    DEF Environment, Daemonise, DaemonEnds, TestsExit, vars, SelectionInv
  <2> QED
    BY <1>2, <2>4, <2>5, <2>6, <2>7, <2>8 DEF Next, Gate
<1> QED
  BY <1>1, <1>2, PTL DEF Spec

(* An import of an indexed file that the graph sees leads to every file it *)
(* finds.                                                                  *)
LEMMA FoundIsResolved ==
  ASSUME GraphSeesAll(tree), \A f \in Files \ Tests : f \in Indexed,
         NEW i \in tree.imports, i[1] \in Indexed, NEW g \in Found(i)
  PROVE  \E p \in Resolved(i) : p[1] = g
<1>1. /\ i[2] \in Indexed /\ g \in Indexed
      /\ i[3] \in Symbols[i[2]] => g = i[2]
  <2>1. i[2] \in Files /\ i[2] \in Found(i) /\ Found(i) \cap Tests = {}
        /\ (i[3] \in Symbols[i[2]] => Found(i) = {i[2]})
    BY DEF GraphSeesAll, Found
  <2>2. g \in Files
    BY DEF Found
  <2> QED
    BY <2>1, <2>2
<1>2. CASE i[3] \in Symbols[i[2]]
  <2>1. Resolved(i) = {<<i[2], i[3]>>}
    BY <1>1, <1>2 DEF Resolved
  <2> QED
    BY <1>1, <1>2, <2>1
<1>3. CASE i[3] \notin Symbols[i[2]] /\ g = i[2]
  <2>1. <<i[2], Module>> \in Resolved(i)
    BY <1>1, <1>3 DEF Resolved
  <2> QED
    BY <1>3, <2>1
<1>4. CASE i[3] \notin Symbols[i[2]] /\ g # i[2]
  <2>1. <<i[2], i[3]>> \in DOMAIN Submodule /\ g = Submodule[<<i[2], i[3]>>]
    BY <1>4 DEF Found
  <2>2. <<g, Module>> \in Resolved(i)
    BY <1>1, <1>4, <2>1 DEF Resolved
  <2> QED
    BY <2>2
<1> QED
  BY <1>2, <1>3, <1>4

(* What leans on a changed file, and has parcels, is affected.             *)
LEMMA AffectedCoversDownstream ==
  ASSUME GraphSeesAll(tree), tree \in Trees(changed), changed \in SUBSET Files,
         affected \in SUBSET Files, Seeds \subseteq affected, Closed(affected)
  PROVE  Downstream(tree, changed) \cap Indexed \subseteq affected
<1> DEFINE C == affected \cup (Files \ Indexed)
<1>1. \A f \in Files \ Tests : f \in Indexed
  BY DEF GraphSeesAll, Indexed
<1>2. \A i \in tree.imports : Found(i) \cap Tests = {} /\ Found(i) \subseteq Indexed
  BY <1>1 DEF GraphSeesAll, Found
<1>3. changed \subseteq C
  BY DEF Seeds
<1>4. ASSUME NEW g \in C, NEW h \in Files, Leans(tree, h, g)
      PROVE  h \in C
  <2>1. PICK i \in tree.imports : i[1] = h /\ \E n \in Found(i) : g = n \/ g \in Packages[n]
    BY <1>4 DEF Leans, GraphSeesAll
  <2>2. PICK n \in Found(i) : g = n \/ g \in Packages[n]
    BY <2>1
  <2>3. PICK j \in tree.imports : j[1] = h /\ g \in Found(j)
    <3>1. CASE g = n
      BY <2>1, <2>2, <3>1
    <3>2. CASE g \in Packages[n]
      <4>1. PICK k \in tree.imports : k[1] = h /\ k[2] = g
        BY <2>1, <2>2, <3>2 DEF GraphSeesAll
      <4>2. g \in Files
        BY <4>1 DEF GraphSeesAll
      <4>3. g \in Found(k)
        BY <4>1, <4>2 DEF Found
      <4> QED
        BY <4>1, <4>3
    <3> QED
      BY <2>2, <3>1, <3>2
  <2>4. g \in Indexed /\ g \in affected
    BY <1>2, <2>3
  <2>5. CASE h \notin Indexed
    BY <1>4, <2>5
  <2>6. CASE h \in Indexed
    <3>1. \E p \in Resolved(j) : p[1] = g
      BY <1>1, <2>3, <2>6, FoundIsResolved
    <3> QED
      BY <2>3, <2>4, <3>1 DEF Closed
  <2> QED
    BY <2>5, <2>6
<1>5. C \in SUBSET Files
  OBVIOUS
<1>6. Downstream(tree, changed) \subseteq C
  BY <1>3, <1>4, <1>5 DEF Downstream
<1> QED
  BY <1>6

(* A green gate is a green trunk, for every tree whose dependencies are    *)
(* the imports the graph has (run_impact_tests): what was not run did not  *)
(* need to be.                                                             *)
THEOREM GreenIsGreen == Spec => []GreenMeansGreen
<1>1. ASSUME TypeOK, SelectionInv, WalkExact, verdict = "green", GraphSeesAll(tree)
      PROVE  tree.red = {}
  <2> SUFFICES ASSUME NEW f \in tree.red
               PROVE  FALSE
    OBVIOUS
  <2>1. /\ tree \in Trees(changed) /\ ran = ToRun /\ f \notin ran
        /\ \A g \in Tests : tree.file[g] # "binary"
        /\ pc = "over"
    BY <1>1 DEF SelectionInv, TypeOK
  <2>2. /\ f \in Tests /\ f \in Suite
        /\ f \in Downstream(tree, changed) \/ \E g \in changed : <<f, g>> \in tree.mentions
    BY <2>1 DEF Trees, MayFail, Suite
  <2>3. ~blind /\ ran = Selected
    BY <2>1, <2>2 DEF ToRun
  <2>4. f \notin affected /\ f \in Downstream(tree, changed)
    BY <2>1, <2>2, <2>3 DEF Selected
  <2>5. tree.file[f] = "ok"
    <3>1. f \in Files
      BY <2>2, GateAssumption
    <3>2. tree.file[f] # "gone"
      BY <2>2 DEF Suite, Existing
    <3> QED
      BY <1>1, <2>1, <2>2, <3>1, <3>2 DEF GraphSeesAll
  <2>6. f \in Indexed
    BY <2>2, <2>5, GateAssumption DEF Indexed, GateAssumption
  <2>7. changed # {}
    <3> SUFFICES ASSUME changed = {}
                 PROVE  FALSE
      OBVIOUS
    <3>1. Downstream(tree, {}) = {}
      BY DEF Downstream
    <3> QED
      BY <2>4, <3>1
  <2>8. Seeds \subseteq affected /\ Closed(affected)
    BY <1>1, <2>1, <2>3, <2>7 DEF WalkExact
  <2> QED
    BY <1>1, <2>1, <2>4, <2>6, <2>8, AffectedCoversDownstream DEF TypeOK
<1>2. TypeOK /\ SelectionInv /\ WalkExact => GreenMeansGreen
  BY <1>1 DEF GreenMeansGreen
<1> QED
  BY <1>2, Typing, SelectionStands, WalkIsExact, PTL
=============================================================================
