----------------------------- MODULE ImpactGate -----------------------------
(***************************************************************************)
(* The test gate of coordinator/gate.py over the import graph of           *)
(* classifier/graph.py: one run_impact_tests, on the tree a merge has just *)
(* made.  It walks the reverse dependencies of the changed files, selects  *)
(* the tests to run, spawns pytest, and always comes back with a verdict.  *)
(*                                                                         *)
(* A file is a model value; its text is reduced to what the gate reads in  *)
(* it: its imports, the file names it mentions, and whether it parses.     *)
(* The source of an import is the file of a module or package, or a dotted *)
(* name that is the name of no file of the repository: a package without   *)
(* an __init__, a path below a source root the index does not know.        *)
(* What the tests do is up to them: they pass, fail, hang, or leave        *)
(* processes behind that hold the gate's pipes.                            *)
(***************************************************************************)
EXTENDS FiniteSets

CONSTANTS
  Files,      \* the .py files of the repository, tests included
  Tests,      \* those the gate takes for tests: tests/**/test_*.py
  Symbols,    \* the top-level functions and classes of every file
  Submodule,  \* <<source, name>> |-> the file Python finds under this name
  Packages,   \* the __init__ files of the packages every file is in
  Imports,    \* bound: the imports a file may hold, <<file, source, name>>
  Mentions,   \* bound: the stems a test may mention, <<test, file>>
  Fixtures,   \* bound: files pytest may load for a test by itself (conftest)
  Changes,    \* bound: the sets of files a merge may change
  Fates,      \* what a merge may do to a file it changes
  Faults      \* which parts of the gate may fail: "index", "spawn"

Module == "<module>"   \* the parcel of a file's text outside its symbols

(* A file a merge touched parses, does not parse, is not even text, or is  *)
(* gone.                                                                   *)
States == {"ok", "broken", "binary", "gone"}

ASSUME GateAssumption ==
  /\ IsFiniteSet(Files) /\ Tests \subseteq Files
  /\ DOMAIN Symbols = Files /\ \A f \in Files : Module \notin Symbols[f]
  /\ \A i \in Imports : i[1] \in Files
  /\ Packages \in [Files -> SUBSET Files]
  /\ \A k \in DOMAIN Submodule : Submodule[k] \in Files
  /\ Mentions \subseteq Tests \X Files /\ Fixtures \subseteq Tests \X Files
  /\ Changes \subseteq SUBSET Files
  /\ Fates \in [Files -> SUBSET States]
  /\ Faults \subseteq {"index", "spawn"}

VARIABLES
  tree,      \* the merged tree: [file, imports, mentions, fixtures, red]
  changed,   \* the changed .py files
  pc,        \* where run_impact_tests is
  visited,   \* the locals of _reverse_dep_files
  affected,
  queue,
  blind,     \* unavailable_reason: the graph could not be built
  ran,       \* the tests pytest was given
  pytest,    \* the child: none, running, exited or killed
  holder,    \* a descendant outside the child's process group has the pipes
  verdict    \* none, green, red, or error: run_impact_tests raised

vars == <<tree, changed, pc, visited, affected, queue, blind, ran, pytest,
          holder, verdict>>

-----------------------------------------------------------------------------
(* The truth the gate has to find out.  red: the tests that fail on this   *)
(* tree.  The trunk was green before, so a test fails only if the merge    *)
(* touched it, or something it imports or takes its fixtures from, however *)
(* indirectly, or something it names.                                      *)
Existing(t) == {f \in Files : t.file[f] # "gone"}

(* The files an import finds: its source, and what is found by its name.   *)
Found(i) ==
  {g \in Files : \/ g = i[2]
                 \/ /\ <<i[2], i[3]>> \in DOMAIN Submodule
                    /\ g = Submodule[<<i[2], i[3]>>]}

(* Python runs the __init__ of every package a file is in before the file. *)
Leans(t, f, g) ==
  \/ <<f, g>> \in t.fixtures
  \/ \E i \in t.imports :
       /\ i[1] = f
       /\ \E h \in Found(i) : g = h \/ g \in Packages[h]

(* The least set that holds the files of S and every file that leans on a  *)
(* member of it: the files all such sets have in common.                   *)
Downstream(t, S) ==
  {f \in Files : \A C \in SUBSET Files :
     (S \subseteq C /\ \A g \in C, h \in Files : Leans(t, h, g) => h \in C)
       => f \in C}

MayFail(t, S) ==
  {f \in Tests \cap Existing(t) :
     f \in Downstream(t, S) \/ \E g \in S : <<f, g>> \in t.mentions}

MustFail(t) == {f \in Tests : t.file[f] \in {"broken", "binary"}}

Trees(S) ==
  {t \in [file     : {s \in [Files -> States] :
                        \A f \in Files : IF f \in S THEN s[f] \in Fates[f]
                                                    ELSE s[f] = "ok"},
          imports  : SUBSET Imports,
          mentions : SUBSET Mentions,
          fixtures : SUBSET Fixtures,
          red      : SUBSET Tests] :
     MustFail(t) \subseteq t.red /\ t.red \subseteq MayFail(t, S)}

TypeOK ==
  /\ changed \in SUBSET Files
  /\ pc \in {"start", "walk", "select", "spawn", "run", "drain", "over"}
  /\ visited \in SUBSET Files /\ affected \in SUBSET Files
  /\ queue \in SUBSET Files
  /\ blind \in BOOLEAN
  /\ ran \in SUBSET Tests
  /\ pytest \in {"none", "running", "exited", "killed"}
  /\ holder \in BOOLEAN
  /\ verdict \in {"none", "green", "red", "error"}

Init ==
  /\ changed \in Changes
  /\ tree \in Trees(changed)
  /\ pc = "start"
  /\ visited = {} /\ affected = {} /\ queue = {} /\ blind = FALSE
  /\ ran = {} /\ pytest = "none" /\ holder = FALSE /\ verdict = "none"

-----------------------------------------------------------------------------
(* index_repo: a file that does not parse or decode is skipped, so it has  *)
(* no parcels; the others have their symbols and one module parcel.        *)
Indexed == {f \in Files : tree.file[f] = "ok"}
ParcelsOf(f) ==
  IF f \in Indexed THEN {<<f, s>> : s \in Symbols[f] \cup {Module}} ELSE {}

(* Mutant: the name of a submodule is charged to its package alone.        *)
ResolvedToPackage(i) ==
  IF ~({i[1], i[2]} \subseteq Indexed) THEN {}
  ELSE IF i[3] \in Symbols[i[2]] THEN {<<i[2], i[3]>>}
  ELSE {<<i[2], Module>>}

(* build_graph: what one import of an indexed file depends on.  A source   *)
(* that is no indexed file is ignored, with all that is imported from it.  *)
(* A name that is no symbol of the source is a submodule, and the package  *)
(* too, or it is the module; the packages above the source are left out.   *)
Resolved(i) ==
  LET from == i[2]   name == i[3]   key == <<i[2], i[3]>>
  IN  IF ~({i[1], from} \subseteq Indexed) THEN {}
      ELSE IF name \in Symbols[from] THEN {<<from, name>>}
      ELSE {<<from, Module>>} \cup
           {<<g, Module>> : g \in {h \in Indexed : key \in DOMAIN Submodule
                                               /\ Submodule[key] = h}}

(* reverse_edges: the parcels an edge leads to from p.  The importing      *)
(* parcel is the module parcel of the file; _link_call_edges adds edges    *)
(* from symbols, to what the file imports or defines.                      *)
ReverseEdges(p) ==
  {<<i[1], Module>> : i \in {j \in tree.imports : p \in Resolved(j)}}

(* Mutant: the walk goes from parcel to parcel, as if a file of which one  *)
(* parcel is affected had no others.                                       *)
DependentsOfModule(f) ==
  {q[1] : q \in ReverseEdges(<<f, Module>>)}

(* The files that depend on some parcel of f.                              *)
Dependents(f) == {q[1] : q \in UNION {ReverseEdges(p) : p \in ParcelsOf(f)}}

-----------------------------------------------------------------------------
(* run_impact_tests up to the walk: index_repo and build_graph, which may  *)
(* fail as a whole, and the seeds: the changed files that have parcels.    *)
Start ==
  /\ pc = "start"
  /\ IF changed = {}
     THEN pc' = "select" /\ UNCHANGED <<visited, affected, queue, blind>>
     ELSE \/ /\ "index" \in Faults
             /\ blind' = TRUE /\ pc' = "select"
             /\ UNCHANGED <<visited, affected, queue>>
          \/ /\ visited' = changed
             /\ affected' = changed \cap Indexed /\ queue' = changed \cap Indexed
             /\ pc' = "walk"
             /\ UNCHANGED blind
  /\ UNCHANGED <<tree, changed, ran, pytest, holder, verdict>>

(* One file of the worklist: its dependents not seen before are affected.  *)
(* The order of the worklist is left open.                                 *)
Walk ==
  /\ pc = "walk" /\ queue # {}
  /\ \E f \in queue :
       LET new == Dependents(f) \ visited
       IN  /\ visited' = visited \cup new
           /\ affected' = affected \cup new
           /\ queue' = (queue \ {f}) \cup new
  /\ UNCHANGED <<tree, changed, pc, blind, ran, pytest, holder, verdict>>

Walked ==
  /\ pc = "walk" /\ queue = {}
  /\ pc' = "select"
  /\ UNCHANGED <<tree, changed, visited, affected, queue, blind, ran, pytest,
                 holder, verdict>>

(* A test is selected if the graph leads to it or its text has the stem of *)
(* a changed file.                                                         *)
Suite == Tests \cap Existing(tree)
Selected ==
  {f \in Suite : f \in affected \/ \E g \in changed : <<f, g>> \in tree.mentions}

(* The whole suite if the graph is missing or nothing matched.             *)
ToRun == IF blind \/ Selected = {} THEN Suite ELSE Selected

(* The loop over the tests reads each as text; one that is not raises, out *)
(* of run_impact_tests.                                                    *)
Select ==
  /\ pc = "select"
  /\ IF \E f \in Tests : tree.file[f] = "binary"
     THEN pc' = "over" /\ verdict' = "error" /\ UNCHANGED ran
     ELSE pc' = "spawn" /\ ran' = ToRun /\ UNCHANGED verdict
  /\ UNCHANGED <<tree, changed, visited, affected, queue, blind, pytest, holder>>

(* Popen: an interpreter that cannot be started is a rejection.            *)
Spawn ==
  /\ pc = "spawn"
  /\ \/ /\ "spawn" \in Faults
        /\ pc' = "over" /\ verdict' = "red" /\ UNCHANGED pytest
     \/ pc' = "run" /\ pytest' = "running" /\ UNCHANGED verdict
  /\ UNCHANGED <<tree, changed, visited, affected, queue, blind, ran, holder>>

(* The tests: they may start a process in a session of its own, which      *)
(* keeps the pipes open, it may end, and pytest may exit.                  *)
Daemonise ==
  /\ pytest = "running" /\ ~holder
  /\ holder' = TRUE
  /\ UNCHANGED <<tree, changed, pc, visited, affected, queue, blind, ran,
                 pytest, verdict>>
DaemonEnds ==
  /\ holder /\ holder' = FALSE
  /\ UNCHANGED <<tree, changed, pc, visited, affected, queue, blind, ran,
                 pytest, verdict>>
TestsExit ==
  /\ pytest = "running" /\ pytest' = "exited"
  /\ UNCHANGED <<tree, changed, pc, visited, affected, queue, blind, ran,
                 holder, verdict>>

(* communicate returns at the end of both pipes: the child has exited and  *)
(* nobody else holds them.  Exit 0 or 5 (no test collected) is green.      *)
Communicate ==
  /\ pc = "run" /\ pytest = "exited" /\ ~holder
  /\ pc' = "over"
  /\ verdict' = IF ran \cap tree.red = {} THEN "green" ELSE "red"
  /\ UNCHANGED <<tree, changed, visited, affected, queue, blind, ran, pytest,
                 holder>>

(* The gate's time is up: the process group is killed, whatever it does.   *)
TimeOut ==
  /\ pc = "run"
  /\ pc' = "drain"
  /\ pytest' = IF pytest = "running" THEN "killed" ELSE pytest
  /\ UNCHANGED <<tree, changed, visited, affected, queue, blind, ran, holder,
                 verdict>>

(* Mutant: the drain waits for the end of the pipes.                       *)
DrainToEnd ==
  /\ pc = "drain" /\ ~holder
  /\ pc' = "over" /\ verdict' = "red"
  /\ UNCHANGED <<tree, changed, visited, affected, queue, blind, ran, pytest,
                 holder>>

(* The drain is bounded: if somebody still holds the pipes, the streams    *)
(* are closed and the output is given up.                                  *)
Drain ==
  /\ pc = "drain"
  /\ pc' = "over" /\ verdict' = "red"
  /\ UNCHANGED <<tree, changed, visited, affected, queue, blind, ran, pytest,
                 holder>>

Gate == Start \/ Walk \/ Walked \/ Select \/ Spawn \/ Communicate \/ TimeOut \/ Drain
Environment == Daemonise \/ DaemonEnds \/ TestsExit
Next == Gate \/ Environment

(* The gate's own steps and its timers happen; the tests owe it nothing.   *)
Fairness == WF_vars(Gate)
Spec == Init /\ [][Next]_vars /\ Fairness

-----------------------------------------------------------------------------
Seeds == changed \cap Indexed
Closed(C) ==
  \A i \in tree.imports : (\E p \in Resolved(i) : p[1] \in C) => i[1] \in C

(* The invariant of the worklist: what is affected is reached from a seed, *)
(* and what is off the worklist has its dependents on it or behind it.     *)
WalkInv ==
  pc # "start" /\ ~blind /\ changed # {} =>
    /\ visited = changed \cup affected
    /\ queue \subseteq affected /\ Seeds \subseteq affected
    /\ \A f \in affected \ queue : Dependents(f) \subseteq affected
    /\ \A C \in SUBSET Files : Seeds \subseteq C /\ Closed(C) => affected \subseteq C
    /\ pc # "walk" => queue = {}

(* When the walk is over, what it calls affected is exactly what reverse-  *)
(* depends on a changed file through any parcel of any file: nothing that  *)
(* does is missing, and nothing else is in (_reverse_dep_files).           *)
WalkExact ==
  pc \notin {"start", "walk"} /\ ~blind /\ changed # {} =>
    /\ Seeds \subseteq affected /\ Closed(affected)
    /\ \A C \in SUBSET Files : Seeds \subseteq C /\ Closed(C) => affected \subseteq C

(* The invariant of the selection: once made it stands.                    *)
SelectionInv ==
  /\ tree \in Trees(changed)
  /\ pc \in {"start", "walk", "select", "spawn", "run", "drain"} => verdict = "none"
  /\ pc \in {"spawn", "run", "drain"} \/ verdict = "green" =>
       /\ ran = ToRun
       /\ \A f \in Tests : tree.file[f] # "binary"
  /\ verdict = "green" => ran \cap tree.red = {}

(* The graph sees all there is to see in this tree: tests take nothing but *)
(* imports from other files; every source file parses; every import is of  *)
(* a file of the repository, and not of a test; no symbol hides a          *)
(* submodule of its name; and who imports a file of a package imports from *)
(* the package as well.                                                    *)
GraphSeesAll(t) ==
  /\ t.fixtures = {}
  /\ \A f \in Files : t.file[f] \in (IF f \in Tests THEN {"ok", "gone", "binary"}
                                                     ELSE {"ok"})
  /\ \A i \in t.imports :
       /\ i[2] \in Files /\ Found(i) \cap Tests = {}
       /\ i[3] \in Symbols[i[2]] => Found(i) = {i[2]}
       /\ \A h \in Found(i) : \A q \in Packages[h] :
            \E j \in t.imports : j[1] = i[1] /\ j[2] = q

(* A green verdict means a green trunk: no test of the tree fails, the     *)
(* tests that were not run included (the over-approximation                *)
(* run_impact_tests promises, for the trees whose dependencies the graph   *)
(* has).                                                                   *)
GreenMeansGreen == verdict = "green" /\ GraphSeesAll(tree) => tree.red = {}

(* The gate comes back whatever the tests do: it holds the integrate lock  *)
(* (the bounded wait, kill and drain of run_impact_tests).                 *)
GateEnds == <>(verdict # "none")
=============================================================================
