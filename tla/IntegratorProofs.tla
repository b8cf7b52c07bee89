-------------------------- MODULE IntegratorProofs --------------------------
(***************************************************************************)
(* Theorems about Integrator, for every set of branches, of concurrent     *)
(* /integrate and /index requests and every number of crashes.             *)
(***************************************************************************)
EXTENDS Integrator, FiniteSetTheorems, TLAPS

RunPcs == {"merge", "gate", "index", "contracts", "verdict",
           "reject", "reparcels", "recontracts", "close"}

(* The pc of a call says which fields its record has.                      *)
LEMMA CallKinds ==
  ASSUME NEW q \in Call
  PROVE  /\ q.pc \in {"queued", "begin", "finish"} => q \in Waiting
         /\ q.pc \in RunPcs => q \in Running
         /\ q.pc = "idle" => q = Idle
  BY DEF Call, Waiting, Running, Idle, RunPcs

(* Moving on inside the lock changes the pc (and, at a red gate, the flag) *)
(* and nothing else of the call.                                           *)
LEMMA GotoRunning ==
  ASSUME TypeOK, NEW w \in Workers, call[w] \in Running, NEW c \in RunPcs, NEW d \in BOOLEAN,
         \/ Goto(w, c)
         \/ call' = [call EXCEPT ![w].pc = c, ![w].red = d]
  PROVE  /\ call' \in [Workers -> Call]
         /\ call'[w] \in Running
         /\ call'[w].pc = c
         /\ call'[w].branch = call[w].branch
         /\ call'[w].before = call[w].before
         /\ call'[w].seq = call[w].seq
         /\ \A v \in Workers \ {w} : call'[v] = call[v]
  <1>0. call \in [Workers -> Call]
    BY DEF TypeOK
  <1>1. /\ [call[w] EXCEPT !.pc = c] \in Running
        /\ [[call[w] EXCEPT !.pc = c] EXCEPT !.red = d] \in Running
    BY DEF Running, RunPcs
  <1>2. CASE Goto(w, c)
    <2>1. call' = [call EXCEPT ![w] = [call[w] EXCEPT !.pc = c]]
      BY <1>2 DEF Goto
    <2>2. QED
      BY <1>0, <1>1, <2>1 DEF Call, Running
  <1>3. CASE call' = [call EXCEPT ![w].pc = c, ![w].red = d]
    <2>1. call' = [call EXCEPT ![w] = [[call[w] EXCEPT !.pc = c] EXCEPT !.red = d]]
      BY <1>3, <1>0
    <2>2. QED
      BY <1>0, <1>1, <2>1 DEF Call, Running
  <1>4. QED
    BY <1>2, <1>3

(* A server that reconciles has a row in hand exactly when it records.     *)
LEMMA ServerKinds ==
  ASSUME NEW s \in {Serving} \cup Booting
  PROVE  /\ s.pc = "serving" => s = Serving
         /\ s.pc = "next" => s \in [pc : {"next"}, todo : SUBSET Row]
         /\ s.pc = "record" => s \in [pc : {"record"}, todo : SUBSET Row,
                                      row : Row, ok : BOOLEAN]
         /\ s = Serving => s.pc = "serving"
  BY DEF Serving, Booting

(* run_index writes trees into rows.                                       *)
LEMMA Upserts ==
  ASSUME NEW tree \in Tree
  PROVE  /\ parcelsOf \in Table /\ UpsertParcels(tree) => parcelsOf' \in Table
         /\ contractsOf \in Table /\ UpsertContracts(tree) => contractsOf' \in Table
  BY DEF Table, UpsertParcels, UpsertContracts

(* The program starts typed.                                               *)
LEMMA InitTypeOK == Init => TypeOK
  BY IntegratorAssumption DEF Init, TypeOK, Call, Tree, Table

(* Every step keeps the state typed.                                       *)
LEMMA NextTypeOK == TypeOK /\ [Next]_vars => TypeOK'
  <1> SUFFICES ASSUME TypeOK, [Next]_vars
               PROVE  TypeOK'
    OBVIOUS
  <1> USE IntegratorAssumption
  <1>0. /\ lastSeq \in Nat /\ crashes \in Nat
        /\ call \in [Workers -> Call]
    BY DEF TypeOK
  <1>1. ASSUME NEW w \in Workers, NEW b \in Branches, Arrive(w, b)
        PROVE  TypeOK'
    <2>1. [pc |-> "queued", branch |-> b] \in Call
      BY DEF Call, Waiting
    <2>2. call' \in [Workers -> Call]
      BY <1>0, <1>1, <2>1 DEF Arrive
    <2>3. QED
      BY <1>1, <2>2 DEF Arrive, TypeOK
  <1>2. ASSUME NEW w \in Workers, TakeLock(w)
        PROVE  TypeOK'
    <2>1. call[w] \in Waiting
      BY <1>0, <1>2, CallKinds DEF TakeLock
    <2>2. [call[w] EXCEPT !.pc = "begin"] \in Call
      BY <2>1 DEF Call, Waiting
    <2>3. call' \in [Workers -> Call]
      BY <1>0, <1>2, <2>2 DEF TakeLock, Goto
    <2>4. QED
      BY <1>2, <2>3 DEF TakeLock, TypeOK
  <1>3. \A w \in Workers : Return(w) => /\ call' \in [Workers -> Call]
                                        /\ lock' \in Workers \cup {NoWorker}
    BY <1>0 DEF Return, Call
  <1>4. ASSUME NEW w \in Workers, Decline(w)
        PROVE  TypeOK'
    BY <1>3, <1>4 DEF Decline, TypeOK
  <1>5. ASSUME NEW w \in Workers, Start(w)
        PROVE  TypeOK'
    <2>1. call[w].branch \in Branches
      BY <1>0, <1>5, CallKinds DEF Start, Waiting
    <2>2. [seq |-> lastSeq + 1, branch |-> call[w].branch, before |-> trunk,
           attempts |-> 0] \in Row
      BY <1>0, <2>1 DEF Row, TypeOK
    <2>3. [pc |-> "merge", branch |-> call[w].branch, before |-> trunk,
           seq |-> lastSeq + 1, red |-> FALSE] \in Call
      BY <1>0, <2>1 DEF Call, Running, TypeOK
    <2>4. call' \in [Workers -> Call]
      BY <1>0, <1>5, <2>3 DEF Start
    <2>5. lastSeq' \in 0..MaxStarts
      BY <1>0, <1>5 DEF Start
    <2>6. QED
      BY <1>5, <2>2, <2>4, <2>5 DEF Start, TypeOK
  <1>6. ASSUME NEW w \in Workers, Merge(w)
        PROVE  TypeOK'
    <2>1. call[w] \in Running
      BY <1>0, <1>6, CallKinds DEF Merge, RunPcs
    <2>2. call' \in [Workers -> Call]
      BY <1>6, <2>1, GotoRunning DEF Merge, RunPcs
    <2>3. trunk' \in Tree
      BY <1>6, <2>1 DEF Merge, Running, Tree, TypeOK
    <2>4. QED
      BY <1>6, <2>2, <2>3 DEF Merge, TypeOK
  <1>7. ASSUME NEW w \in Workers, Gate(w)
        PROVE  TypeOK'
    <2>1. call[w] \in Running
      BY <1>0, <1>7, CallKinds DEF Gate, RunPcs
    <2>2. call' \in [Workers -> Call]
      BY <1>7, <2>1, GotoRunning DEF Gate, RunPcs
    <2>3. QED
      BY <1>7, <2>2 DEF Gate, TypeOK
  <1>8. ASSUME NEW w \in Workers, IndexParcels(w)
        PROVE  TypeOK'
    <2>1. call[w] \in Running
      BY <1>0, <1>8, CallKinds DEF IndexParcels, RunPcs
    <2>2. call' \in [Workers -> Call]
      BY <1>8, <2>1, GotoRunning DEF IndexParcels, RunPcs
    <2>3. QED
      BY <1>8, <2>2, Upserts DEF IndexParcels, TypeOK
  <1>9. ASSUME NEW w \in Workers, IndexContracts(w)
        PROVE  TypeOK'
    <2>1. call[w] \in Running
      BY <1>0, <1>9, CallKinds DEF IndexContracts, RunPcs
    <2>2. call' \in [Workers -> Call]
      BY <1>9, <2>1, GotoRunning DEF IndexContracts, RunPcs
    <2>3. QED
      BY <1>9, <2>2, Upserts DEF IndexContracts, TypeOK
  <1>10. ASSUME NEW w \in Workers, NEW v \in {"merged", "rejected"},
                call[w] \in Running, CloseRow(w, v)
         PROVE  /\ open' \subseteq Row
                /\ log' \subseteq [seq : Nat \ {0}, branch : Branches, verdict : Verdicts]
    BY <1>10 DEF CloseRow, VerdictOf, Running, Verdicts, TypeOK
  <1>11. ASSUME NEW w \in Workers, Merged(w)
         PROVE  TypeOK'
    <2>1. call[w] \in Running
      BY <1>0, <1>11, CallKinds DEF Merged, RunPcs
    <2>2. CASE CloseRow(w, "merged") /\ UNCHANGED lock /\
               call' = [call EXCEPT ![w] = [pc |-> "finish", branch |-> @.branch]]
      <3>1. [pc |-> "finish", branch |-> call[w].branch] \in Call
        BY <2>1 DEF Call, Running, Waiting
      <3>2. call' \in [Workers -> Call]
        BY <1>0, <2>2, <3>1
      <3>3. QED
        BY <1>10, <1>11, <2>1, <2>2, <3>2 DEF Merged, TypeOK
    <2>3. CASE Return(w) /\ UNCHANGED <<open, log>>
      BY <1>3, <1>11, <2>3 DEF Merged, TypeOK
    <2>4. QED
      BY <1>11, <2>2, <2>3 DEF Merged
  <1>12. ASSUME NEW w \in Workers, Finish(w)
         PROVE  TypeOK'
    <2>1. parcelsOf' \in Table /\ contractsOf' \in Table
      BY <1>12 DEF Finish, Table, TypeOK
    <2>2. QED
      BY <1>3, <1>12, <2>1 DEF Finish, TypeOK
  <1>13. ASSUME NEW w \in Workers, Rollback(w)
         PROVE  TypeOK'
    <2>1. call[w] \in Running
      BY <1>0, <1>13, CallKinds DEF Rollback, RunPcs
    <2>2. call' \in [Workers -> Call]
      BY <1>13, <2>1, GotoRunning DEF Rollback, RunPcs
    <2>3. trunk' \in Tree
      BY <1>13, <2>1 DEF Rollback, Running, TypeOK
    <2>4. QED
      BY <1>13, <2>2, <2>3 DEF Rollback, TypeOK
  <1>14. ASSUME NEW w \in Workers, ReindexParcels(w)
         PROVE  TypeOK'
    <2>1. call[w] \in Running
      BY <1>0, <1>14, CallKinds DEF ReindexParcels, RunPcs
    <2>2. call' \in [Workers -> Call]
      BY <1>14, <2>1, GotoRunning DEF ReindexParcels, RunPcs
    <2>3. QED
      BY <1>14, <2>2, Upserts DEF ReindexParcels, TypeOK
  <1>15. ASSUME NEW w \in Workers, ReindexContracts(w)
         PROVE  TypeOK'
    <2>1. call[w] \in Running
      BY <1>0, <1>15, CallKinds DEF ReindexContracts, RunPcs
    <2>2. call' \in [Workers -> Call]
      BY <1>15, <2>1, GotoRunning DEF ReindexContracts, RunPcs
    <2>3. QED
      BY <1>15, <2>2, Upserts DEF ReindexContracts, TypeOK
  <1>16. ASSUME NEW w \in Workers, Rejected(w)
         PROVE  TypeOK'
    <2>1. call[w] \in Running
      BY <1>0, <1>16, CallKinds DEF Rejected, RunPcs
    <2>2. CASE CloseRow(w, "rejected") /\ Return(w)
      BY <1>3, <1>10, <1>16, <2>1, <2>2 DEF Rejected, TypeOK
    <2>3. CASE /\ UNCHANGED <<open, log, lock>>
               /\ call' = [call EXCEPT ![w].pc = "reject", ![w].red = FALSE]
      <3>1. call' \in [Workers -> Call]
        BY <2>1, <2>3, GotoRunning DEF RunPcs
      <3>2. QED
        BY <1>16, <2>3, <3>1 DEF Rejected, TypeOK
    <2>4. CASE Return(w) /\ UNCHANGED <<open, log>>
      BY <1>3, <1>16, <2>4 DEF Rejected, TypeOK
    <2>5. QED
      BY <1>16, <2>2, <2>3, <2>4 DEF Rejected
  <1>17. ASSUME NEW i \in Indexers, PostIndex(i) \/ PostParcels(i) \/ PostContracts(i)
         PROVE  TypeOK'
    <2>0. post[i] \in {Idle} \cup Posting
      BY DEF TypeOK
    <2>1. CASE PostIndex(i)
      <3>1. [pc |-> "parcels", tree |-> trunk] \in Posting
        BY DEF Posting, TypeOK
      <3>2. QED
        BY <2>1, <3>1 DEF PostIndex, TypeOK
    <2>2. CASE PostParcels(i)
      <3>1. post[i] \in Posting
        BY <2>0, <2>2 DEF PostParcels, Idle
      <3>2. post[i].tree \in Tree /\ [post[i] EXCEPT !.pc = "contracts"] \in Posting
        BY <3>1 DEF Posting
      <3>3. QED
        BY <2>2, <3>2, Upserts DEF PostParcels, TypeOK
    <2>3. CASE PostContracts(i)
      <3>1. post[i].tree \in Tree
        BY <2>0, <2>3 DEF PostContracts, Idle, Posting
      <3>2. QED
        BY <2>3, <3>1, Upserts DEF PostContracts, TypeOK
    <2>4. QED
      BY <1>17, <2>1, <2>2, <2>3
  <1>18. ASSUME Crash
         PROVE  TypeOK'
    <2>1. [pc |-> "next", todo |-> open] \in Booting
      BY DEF Booting, TypeOK
    <2>2. crashes' \in 0..MaxCrashes
      BY <1>0, <1>18 DEF Crash
    <2>3. QED
      BY <1>18, <2>1, <2>2 DEF Crash, TypeOK, Call
  <1>19. ASSUME ReconcileGit
         PROVE  TypeOK'
    <2>1. server \in [pc : {"next"}, todo : SUBSET Row]
      BY <1>19, ServerKinds DEF ReconcileGit, TypeOK
    <2>2. PICK r \in server.todo, ok \in BOOLEAN :
            /\ IF ok THEN trunk' = r.before ELSE UNCHANGED trunk
            /\ server' = [pc |-> "record", todo |-> server.todo \ {r},
                          row |-> r, ok |-> ok]
      BY <1>19 DEF ReconcileGit
    <2>3. r \in Row /\ server' \in Booting
      BY <2>1, <2>2 DEF Booting
    <2>4. trunk' \in Tree
      BY <2>2, <2>3 DEF Row, TypeOK
    <2>5. QED
      BY <1>19, <2>3, <2>4 DEF ReconcileGit, TypeOK
  <1>20. ASSUME ReconcileRecord
         PROVE  TypeOK'
    <2>1. server \in [pc : {"record"}, todo : SUBSET Row, row : Row, ok : BOOLEAN]
      BY <1>20, ServerKinds DEF ReconcileRecord, TypeOK
    <2>2. server.row \in Row /\ [server.row EXCEPT !.attempts = @ + 1] \in Row
      BY <2>1 DEF Row
    <2>3. server' \in {Serving} \cup Booting
      BY <1>20, <2>1 DEF ReconcileRecord, Booting
    <2>4. /\ open' \subseteq Row
          /\ log' \subseteq [seq : Nat \ {0}, branch : Branches, verdict : Verdicts]
      BY <1>20, <2>2 DEF ReconcileRecord, Row, Verdicts, TypeOK
    <2>5. QED
      BY <1>20, <2>3, <2>4 DEF ReconcileRecord, TypeOK
  <1>21. ASSUME Serve
         PROVE  TypeOK'
    BY <1>21 DEF Serve, TypeOK
  <1>22. CASE UNCHANGED vars
    BY <1>22 DEF vars, TypeOK
  <1>23. QED
    BY <1>1, <1>2, <1>4, <1>5, <1>6, <1>7, <1>8, <1>9, <1>11, <1>12, <1>13, <1>14,
       <1>15, <1>16, <1>17, <1>18, <1>19, <1>20, <1>21, <1>22 DEF Next, Work, Boot

(* Every reachable state is typed: rows, verdicts, calls and the state of  *)
(* reconciliation are what integrator.py can hold.                         *)
THEOREM Typing == Spec => []TypeOK
  <1>1. Init => TypeOK
    BY InitTypeOK
  <1>2. TypeOK /\ [Next]_vars => TypeOK'
    BY NextTypeOK
  <1>3. QED
    BY <1>1, <1>2, PTL DEF Spec

-----------------------------------------------------------------------------
(* Why the gate judges the right tree, whatever fails.  Inside the lock    *)
(* there is one call and no reconciliation ...                             *)
LockDiscipline ==
  /\ \A w \in Workers : call[w].pc \notin {"idle", "queued"} => lock = w
  /\ server # Serving => \A w \in Workers : call[w] = Idle

(* ... so what a call left on the trunk is still there at its next step.   *)
JudgedTree ==
  \A w \in Workers :
    /\ call[w].pc = "merge" => trunk = call[w].before
    /\ call[w].pc \in {"gate", "index", "contracts", "verdict"} =>
         trunk = call[w].before \cup {call[w].branch}
    /\ call[w].pc \in {"index", "contracts", "verdict"} => trunk \in passed

GateInv == TypeOK /\ LockDiscipline /\ JudgedTree

(* While one call is inside the lock every other is idle or queued.        *)
LEMMA Alone ==
  ASSUME LockDiscipline, NEW w \in Workers, call[w].pc \notin {"idle", "queued"}
  PROVE  \A v \in Workers \ {w} : call[v].pc \in {"idle", "queued"}
  BY DEF LockDiscipline

(* Every step inside the lock leaves one call inside it, or none.          *)
LEMMA GateInvWork ==
  ASSUME GateInv, NEW w \in Workers, Work(w)
  PROVE  LockDiscipline' /\ JudgedTree'
  <1>0. /\ call \in [Workers -> Call] /\ TypeOK
        /\ Idle.pc = "idle" /\ NoWorker \notin Workers
    BY IntegratorAssumption DEF GateInv, TypeOK, Idle
  <1>1. call[w].pc # "idle" /\ server = Serving /\ server' = server
    BY <1>0 DEF GateInv, LockDiscipline, Work, TakeLock, Decline, Start, Merge, Gate,
       IndexParcels, IndexContracts, Merged, Finish, Rollback, ReindexParcels,
       ReindexContracts, Rejected
  <1>2. CASE TakeLock(w)
    <2>1. \A v \in Workers : call[v].pc \in {"idle", "queued"}
      BY <1>0, <1>2 DEF GateInv, LockDiscipline, TakeLock
    <2>2. call' = [call EXCEPT ![w] = [call[w] EXCEPT !.pc = "begin"]]
      BY <1>2 DEF TakeLock, Goto
    <2>3. call'[w].pc = "begin" /\ \A v \in Workers \ {w} : call'[v] = call[v]
      <3>1. call[w] \in Waiting
        BY <1>0, <1>2, CallKinds DEF TakeLock
      <3>2. QED
        BY <1>0, <2>2, <3>1 DEF Waiting
    <2>4. QED
      BY <1>1, <1>2, <2>1, <2>3 DEF LockDiscipline, JudgedTree, TakeLock
  <1> SUFFICES ASSUME ~TakeLock(w)
               PROVE  LockDiscipline' /\ JudgedTree'
    BY <1>2
  <1>3. call[w].pc \notin {"idle", "queued"} /\ lock = w
    BY <1>0, <1>1 DEF GateInv, LockDiscipline, Work, Decline, Start, Merge, Gate,
       IndexParcels, IndexContracts, Merged, Finish, Rollback, ReindexParcels,
       ReindexContracts, Rejected
  <1>4. \A v \in Workers \ {w} : call[v].pc \in {"idle", "queued"}
    BY <1>3, Alone DEF GateInv
  <1>5. ASSUME Return(w)
        PROVE  LockDiscipline' /\ JudgedTree'
    <2>1. \A v \in Workers : call'[v].pc \in {"idle", "queued"}
      BY <1>0, <1>4, <1>5 DEF Return
    <2>2. QED
      BY <1>1, <2>1 DEF LockDiscipline, JudgedTree
  <1>6. ASSUME lock' = w, \A v \in Workers \ {w} : call'[v] = call[v],
               call'[w].pc = "merge" => trunk' = call'[w].before,
               call'[w].pc \in {"gate", "index", "contracts", "verdict"} =>
                 trunk' = call'[w].before \cup {call'[w].branch},
               call'[w].pc \in {"index", "contracts", "verdict"} => trunk' \in passed'
        PROVE  LockDiscipline' /\ JudgedTree'
    BY <1>1, <1>4, <1>6 DEF LockDiscipline, JudgedTree
  <1>7. CASE Start(w)
    <2>1. /\ call'[w] = [pc |-> "merge", branch |-> call[w].branch, before |-> trunk,
                        seq |-> lastSeq + 1, red |-> FALSE]
          /\ \A v \in Workers \ {w} : call'[v] = call[v]
          /\ trunk' = trunk /\ lock' = w
      BY <1>0, <1>3, <1>7 DEF Start
    <2>2. QED
      BY <1>6, <2>1
  <1>8. CASE Decline(w) \/ Finish(w)
    BY <1>5, <1>8 DEF Decline, Finish
  <1>9. ASSUME call[w].pc \in RunPcs
        PROVE  /\ call[w] \in Running
               /\ call[w].pc = "merge" => trunk = call[w].before
               /\ call[w].pc \in {"gate", "index", "contracts", "verdict"} =>
                    trunk = call[w].before \cup {call[w].branch}
               /\ call[w].pc \in {"index", "contracts", "verdict"} => trunk \in passed
    BY <1>0, <1>9, CallKinds DEF GateInv, JudgedTree
  <1>10. CASE Merge(w)
    <2>1. call[w] \in Running /\ trunk = call[w].before
      BY <1>9, <1>10 DEF Merge, RunPcs
    <2>2. PICK c \in {"gate", "reject"} :
            /\ Goto(w, c)
            /\ c = "gate" => trunk' = trunk \cup {call[w].branch}
      BY <1>10 DEF Merge
    <2>3. QED
      BY <1>0, <1>3, <1>6, <1>10, <2>1, <2>2, GotoRunning DEF Merge, RunPcs
  <1>11. CASE Gate(w)
    <2>1. call[w] \in Running /\ trunk = call[w].before \cup {call[w].branch}
      BY <1>9, <1>11 DEF Gate, RunPcs
    <2>2. CASE passed' = passed \cup {trunk} /\ Goto(w, "index")
      BY <1>0, <1>3, <1>6, <1>11, <2>1, <2>2, GotoRunning DEF Gate, RunPcs
    <2>3. CASE \E red \in BOOLEAN : call' = [call EXCEPT ![w].pc = "reject", ![w].red = red]
      <3>1. PICK red \in BOOLEAN : call' = [call EXCEPT ![w].pc = "reject", ![w].red = red]
        BY <2>3
      <3>2. call'[w].pc = "reject" /\ \A v \in Workers \ {w} : call'[v] = call[v]
        BY <1>0, <2>1, <3>1, GotoRunning DEF RunPcs
      <3>3. QED
        BY <1>3, <1>6, <1>11, <3>2 DEF Gate
    <2>4. QED
      BY <1>11, <2>2, <2>3 DEF Gate
  <1>12. CASE IndexParcels(w) \/ IndexContracts(w)
    <2>1. /\ call[w] \in Running /\ trunk = call[w].before \cup {call[w].branch}
          /\ trunk \in passed
      BY <1>9, <1>12 DEF IndexParcels, IndexContracts, RunPcs
    <2>2. /\ \E c \in RunPcs \ {"merge", "gate"} : Goto(w, c)
          /\ UNCHANGED <<trunk, passed, lock>>
      BY <1>12 DEF IndexParcels, IndexContracts, RunPcs
    <2>3. PICK c \in RunPcs \ {"merge", "gate"} : Goto(w, c)
      BY <2>2
    <2>4. /\ call'[w].branch = call[w].branch /\ call'[w].before = call[w].before
          /\ call'[w].pc = c /\ \A v \in Workers \ {w} : call'[v] = call[v]
      BY <1>0, <2>1, <2>3, GotoRunning
    <2>5. QED
      BY <1>3, <1>6, <2>1, <2>2, <2>4
  <1>13. CASE Merged(w)
    <2>1. CASE call' = [call EXCEPT ![w] = [pc |-> "finish", branch |-> @.branch]]
               /\ UNCHANGED lock
      BY <1>0, <1>3, <1>6, <2>1
    <2>2. QED
      BY <1>5, <1>13, <2>1 DEF Merged
  <1>14. CASE Rollback(w) \/ ReindexParcels(w) \/ ReindexContracts(w)
    <2>1. call[w] \in Running
      BY <1>9, <1>14 DEF Rollback, ReindexParcels, ReindexContracts, RunPcs
    <2>2. PICK c \in {"reparcels", "recontracts", "close"} : Goto(w, c)
      BY <1>14 DEF Rollback, ReindexParcels, ReindexContracts
    <2>3. call'[w].pc = c /\ \A v \in Workers \ {w} : call'[v] = call[v]
      BY <1>0, <2>1, <2>2, GotoRunning DEF RunPcs
    <2>4. lock' = w
      BY <1>3, <1>14 DEF Rollback, ReindexParcels, ReindexContracts
    <2>5. QED
      BY <1>6, <2>3, <2>4
  <1>15. CASE Rejected(w)
    <2>1. call[w] \in Running
      BY <1>9, <1>15 DEF Rejected, RunPcs
    <2>2. CASE call' = [call EXCEPT ![w].pc = "reject", ![w].red = FALSE] /\ UNCHANGED lock
      <3>1. call'[w].pc = "reject" /\ \A v \in Workers \ {w} : call'[v] = call[v]
        BY <1>0, <2>1, <2>2, GotoRunning DEF RunPcs
      <3>2. QED
        BY <1>3, <1>6, <2>2, <3>1
    <2>3. QED
      BY <1>5, <1>15, <2>2 DEF Rejected
  <1>16. QED
    BY <1>7, <1>8, <1>10, <1>11, <1>12, <1>13, <1>14, <1>15 DEF Work

(* ... and so does every other step.                                       *)
LEMMA GateInvStep == GateInv /\ [Next]_vars => GateInv'
  <1> SUFFICES ASSUME GateInv, [Next]_vars
               PROVE  GateInv'
    OBVIOUS
  <1>0. /\ TypeOK' /\ call \in [Workers -> Call] /\ Idle.pc = "idle"
        /\ Serving.pc = "serving"
    BY NextTypeOK DEF GateInv, TypeOK, Idle, Serving
  <1>1. CASE \E w \in Workers : Work(w)
    BY <1>0, <1>1, GateInvWork DEF GateInv
  <1>2. ASSUME NEW w \in Workers, NEW b \in Branches, Arrive(w, b)
        PROVE  GateInv'
    <2>1. call'[w] = [pc |-> "queued", branch |-> b] /\ \A v \in Workers \ {w} : call'[v] = call[v]
      BY <1>0, <1>2 DEF Arrive
    <2>2. QED
      BY <1>0, <1>2, <2>1 DEF Arrive, GateInv, LockDiscipline, JudgedTree
  <1>3. CASE \E i \in Indexers : PostIndex(i) \/ PostParcels(i) \/ PostContracts(i)
    BY <1>0, <1>3 DEF PostIndex, PostParcels, PostContracts, GateInv, LockDiscipline, JudgedTree
  <1>4. CASE Crash
    BY <1>0, <1>4 DEF Crash, GateInv, LockDiscipline, JudgedTree
  <1>5. CASE Boot
    <2>1. server # Serving
      BY <1>0, <1>5 DEF Boot, ReconcileGit, ReconcileRecord, Serve
    <2>2. call' = call /\ \A w \in Workers : call[w].pc = "idle"
      BY <1>0, <1>5, <2>1 DEF Boot, ReconcileGit, ReconcileRecord, Serve, GateInv,
         LockDiscipline
    <2>3. (\A w \in Workers : call[w] = Idle)'
      BY <1>5, <2>1, <2>2 DEF GateInv, LockDiscipline
    <2>4. QED
      BY <1>0, <2>2, <2>3 DEF GateInv, LockDiscipline, JudgedTree
  <1>6. CASE UNCHANGED vars
    BY <1>0, <1>6 DEF vars, GateInv, LockDiscipline, JudgedTree
  <1>7. QED
    BY <1>1, <1>2, <1>3, <1>4, <1>5, <1>6 DEF Next

(* A server started on an empty trunk satisfies the gate invariant.        *)
LEMMA GateInvInit == Init => GateInv
  BY InitTypeOK DEF Init, GateInv, LockDiscipline, JudgedTree, Idle

(* Whatever fails or crashes, nobody moves the trunk under a call between  *)
(* its merge and its verdict: what the gate judges is the call's own merge.*)
THEOREM OwnMerge == Spec => []OwnMergeOnly
  <1>1. GateInv => OwnMergeOnly
    BY DEF GateInv, JudgedTree, OwnMergeOnly
  <1>2. QED
    BY <1>1, GateInvInit, GateInvStep, PTL DEF Spec

(* Whatever fails or crashes, a merged verdict is only ever written for a  *)
(* trunk the gate passed and that holds the branch.                        *)
THEOREM OnlyGatedMerges == Spec => MergedWasGated
  <1> DEFINE Lands == \A e \in log' \ log :
                        e.verdict = "merged" => trunk \in passed /\ e.branch \in trunk
  <1>1. GateInv /\ [Next]_vars => [Lands]_vars
    <2> SUFFICES ASSUME GateInv, [Next]_vars, NEW e \in log' \ log, e.verdict = "merged"
                 PROVE  trunk \in passed /\ e.branch \in trunk
      OBVIOUS
    <2>1. ~UNCHANGED log /\ e \in log' /\ e \notin log
      OBVIOUS
    <2>2. CASE \E w \in Workers : Work(w)
      <3>1. PICK w \in Workers : Merged(w) \/ Rejected(w)
        BY <2>1, <2>2 DEF Work, TakeLock, Decline, Start, Merge, Gate, IndexParcels,
           IndexContracts, Finish, Rollback, ReindexParcels, ReindexContracts
      <3>2. ~Rejected(w)
        BY <2>1 DEF Rejected, CloseRow, VerdictOf
      <3>3. QED
        BY <2>1, <3>1, <3>2 DEF Merged, CloseRow, VerdictOf, GateInv, JudgedTree
    <2>3. CASE Boot
      BY <2>1, <2>3 DEF Boot, ReconcileGit, ReconcileRecord, Serve
    <2>4. QED
      BY <2>1, <2>2, <2>3 DEF Next, vars, Arrive, PostIndex, PostParcels, PostContracts, Crash
  <1>2. Spec => [][Lands]_vars
    BY <1>1, GateInvInit, GateInvStep, PTL DEF Spec
  <1>3. QED
    BY <1>2 DEF MergedWasGated

-----------------------------------------------------------------------------
(* Row and verdict, whatever fails.  An integrate that was started has one *)
(* row or one event that ends it, and not both ...                         *)
Accounted ==
  /\ \A r, q \in open : r.seq = q.seq => r = q
  /\ \A e, f \in Ends : e.seq = f.seq => e = f
  /\ \A r \in open : r.seq <= lastSeq /\ \A e \in Ends : e.seq # r.seq
  /\ \A e \in Ends : e.seq <= lastSeq
  /\ \A i \in 1..lastSeq : (\E r \in open : r.seq = i) \/ \E e \in Ends : e.seq = i

(* ... because a call, or a reconciliation, that is about to write a       *)
(* verdict still has the row it closes.                                    *)
RowsHeld ==
  /\ \A w \in Workers : call[w].pc \in RunPcs => \E r \in open : r.seq = call[w].seq
  /\ server.pc \in {"next", "record"} => server.todo \subseteq open
  /\ server.pc = "record" => server.row \in open \ server.todo

(* What an event adds to the ends.                                         *)
LEMMA LogEnds ==
  /\ log' = log => Ends' = Ends
  /\ \A e : log' = log \cup {e} =>
            Ends' = IF e.verdict = "failed" THEN Ends ELSE Ends \cup {e}
  BY DEF Ends

(* A verdict that closes its row keeps the account.                        *)
LEMMA VerdictAccounts ==
  ASSUME TypeOK, Accounted, NEW r \in open, NEW e, e.seq = r.seq,
         open' = open \ {r}, Ends' = Ends \cup {e}, lastSeq' = lastSeq
  PROVE  Accounted'
  <1>1. \A q \in open : q.seq = r.seq => q = r
    BY DEF Accounted
  <1>2. \A f \in Ends : f.seq # e.seq
    BY DEF Accounted
  <1>3. \A i \in 1..lastSeq' : (\E q \in open' : q.seq = i) \/ \E f \in Ends' : f.seq = i
    BY DEF Accounted
  <1>4. QED
    BY <1>1, <1>2, <1>3 DEF Accounted

(* Inside the lock.                                                        *)
LEMMA RowsWork ==
  ASSUME GateInv, GateInv', Accounted, RowsHeld, NEW w \in Workers, Work(w)
  PROVE  Accounted' /\ RowsHeld'
  <1>0. /\ call \in [Workers -> Call] /\ Idle.pc = "idle" /\ TypeOK
        /\ lastSeq \in Nat /\ "idle" \notin RunPcs /\ "queued" \notin RunPcs
        /\ "begin" \notin RunPcs /\ "finish" \notin RunPcs
    BY IntegratorAssumption DEF GateInv, TypeOK, Idle, RunPcs
  <1>1. server = Serving /\ server' = server /\ Serving.pc = "serving"
    BY <1>0 DEF GateInv, LockDiscipline, Serving, Work, TakeLock, Decline, Start, Merge, Gate,
       IndexParcels, IndexContracts, Merged, Finish, Rollback, ReindexParcels,
       ReindexContracts, Rejected
  <1>2. \A v \in Workers \ {w} : call'[v] = call[v]
    BY <1>0 DEF Work, TakeLock, Decline, Start, Merge, Gate, IndexParcels, IndexContracts,
       Merged, Finish, Rollback, ReindexParcels, ReindexContracts, Rejected, Goto, Return
  <1>3. ASSUME open' = open, Ends' = Ends, lastSeq' = lastSeq,
               call'[w].pc \in RunPcs => call[w].pc \in RunPcs /\ call'[w].seq = call[w].seq
        PROVE  Accounted' /\ RowsHeld'
    BY <1>1, <1>2, <1>3 DEF Accounted, RowsHeld
  <1>4. ASSUME NEW c \in RunPcs, call[w].pc \in RunPcs,
               \/ Goto(w, c)
               \/ \E d \in BOOLEAN : call' = [call EXCEPT ![w].pc = c, ![w].red = d]
        PROVE  call'[w].seq = call[w].seq
    <2>1. call[w] \in Running
      BY <1>0, <1>4, CallKinds
    <2>2. QED
      BY <1>0, <1>4, <2>1, GotoRunning
  <1>5. ASSUME TakeLock(w) \/ Decline(w) \/ Finish(w)
        PROVE  Accounted' /\ RowsHeld'
    <2>1. call'[w].pc \notin RunPcs
      <3>1. CASE TakeLock(w)
        <4>1. call[w] \in Waiting
          BY <1>0, <3>1, CallKinds DEF TakeLock
        <4>2. call' = [call EXCEPT ![w] = [call[w] EXCEPT !.pc = "begin"]]
          BY <3>1 DEF TakeLock, Goto
        <4>3. QED
          BY <1>0, <4>1, <4>2 DEF Waiting
      <3>2. CASE Decline(w) \/ Finish(w)
        BY <1>0, <3>2 DEF Decline, Finish, Return
      <3>3. QED
        BY <1>5, <3>1, <3>2
    <2>2. open' = open /\ Ends' = Ends /\ lastSeq' = lastSeq
      BY <1>5, LogEnds DEF TakeLock, Decline, Finish
    <2>3. QED
      BY <1>3, <2>1, <2>2
  <1>6. ASSUME \/ Merge(w) \/ Gate(w) \/ IndexParcels(w) \/ IndexContracts(w)
               \/ Rollback(w) \/ ReindexParcels(w) \/ ReindexContracts(w)
        PROVE  Accounted' /\ RowsHeld'
    <2>1. open' = open /\ Ends' = Ends /\ lastSeq' = lastSeq /\ call[w].pc \in RunPcs
      BY <1>6, LogEnds DEF Merge, Gate, IndexParcels, IndexContracts, Rollback,
         ReindexParcels, ReindexContracts, RunPcs
    <2>2. \E c \in RunPcs : \/ Goto(w, c)
                            \/ \E d \in BOOLEAN : call' = [call EXCEPT ![w].pc = c, ![w].red = d]
      BY <1>6 DEF Merge, Gate, IndexParcels, IndexContracts, Rollback, ReindexParcels,
         ReindexContracts, RunPcs
    <2>3. QED
      BY <1>3, <1>4, <2>1, <2>2
  <1>7. CASE Start(w)
    <2> DEFINE r == [seq |-> lastSeq + 1, branch |-> call[w].branch,
                     before |-> trunk, attempts |-> 0]
    <2>1. /\ open' = open \cup {r} /\ Ends' = Ends /\ lastSeq' = lastSeq + 1
          /\ call'[w].seq = r.seq
      BY <1>0, <1>7, LogEnds DEF Start
    <2>2. r.seq = lastSeq + 1
      OBVIOUS
    <2> HIDE DEF r
    <2>3. \A q \in open : q.seq \in Nat /\ q.seq <= lastSeq
      BY <1>0 DEF TypeOK, Row, Accounted
    <2>4. \A e \in Ends : e.seq \in Nat /\ e.seq <= lastSeq
      BY <1>0 DEF TypeOK, Accounted, Ends
    <2>5. \A i \in 1..lastSeq' : i \in 1..lastSeq \/ i = r.seq
      BY <1>0, <2>1, <2>2
    <2>6. Accounted'
      BY <1>0, <2>1, <2>2, <2>3, <2>4, <2>5 DEF Accounted
    <2>7. RowsHeld'
      BY <1>1, <1>2, <2>1 DEF RowsHeld
    <2>8. QED
      BY <2>6, <2>7
  <1>8. ASSUME NEW v, v # "failed", CloseRow(w, v), call[w].pc \in {"verdict", "close"},
               lastSeq' = lastSeq, call'[w].pc \notin RunPcs
        PROVE  Accounted' /\ RowsHeld'
    <2>1. PICK r \in open : r.seq = call[w].seq
      BY <1>8 DEF RowsHeld, RunPcs
    <2>2. RowOf(w) = {r}
      BY <2>1 DEF RowOf, Accounted
    <2>3. Accounted'
      <3>1. PICK e : e = VerdictOf(w, v)
        OBVIOUS
      <3>2. e.seq = r.seq /\ e.verdict # "failed"
        BY <1>8, <2>1, <3>1 DEF VerdictOf
      <3>3. Ends' = Ends \cup {e} /\ open' = open \ {r}
        BY <1>8, <2>2, <3>1, <3>2, LogEnds DEF CloseRow
      <3>4. QED
        BY <1>0, <1>8, <3>2, <3>3, VerdictAccounts
    <2>4. \A u \in Workers \ {w} : call'[u].pc \notin RunPcs
      BY <1>0, <1>2, <1>8, Alone DEF GateInv
    <2>5. QED
      BY <1>1, <1>8, <2>3, <2>4 DEF RowsHeld
  <1>9. CASE Merged(w)
    <2>1. CASE CloseRow(w, "merged") /\ call' = [call EXCEPT ![w] = [pc |-> "finish", branch |-> @.branch]]
      BY <1>0, <1>8, <1>9, <2>1 DEF Merged
    <2>2. CASE Return(w) /\ UNCHANGED <<open, log>>
      BY <1>0, <1>3, <1>9, <2>2, LogEnds DEF Merged, Return
    <2>3. QED
      BY <1>9, <2>1, <2>2 DEF Merged
  <1>10. CASE Rejected(w)
    <2>1. CASE CloseRow(w, "rejected") /\ Return(w)
      BY <1>0, <1>8, <1>10, <2>1 DEF Rejected, Return
    <2>2. CASE Return(w) /\ UNCHANGED <<open, log>>
      BY <1>0, <1>3, <1>10, <2>2, LogEnds DEF Rejected, Return
    <2>3. CASE /\ call' = [call EXCEPT ![w].pc = "reject", ![w].red = FALSE]
               /\ UNCHANGED <<open, log>>
      <3>1. call[w].pc \in RunPcs /\ "reject" \in RunPcs /\ lastSeq' = lastSeq
        BY <1>10 DEF Rejected, RunPcs
      <3>2. call'[w].seq = call[w].seq
        BY <1>4, <2>3, <3>1
      <3>3. QED
        BY <1>3, <2>3, <3>1, <3>2, LogEnds
    <2>4. QED
      BY <1>10, <2>1, <2>2, <2>3 DEF Rejected
  <1>11. QED
    BY <1>5, <1>6, <1>7, <1>9, <1>10 DEF Work

(* Startup reconciliation takes each orphan once.                          *)
LEMMA RowsBoot ==
  ASSUME GateInv, GateInv', Accounted, RowsHeld, Boot
  PROVE  Accounted' /\ RowsHeld'
  <1>0. /\ TypeOK /\ call' = call /\ lastSeq' = lastSeq /\ server # Serving
        /\ \A w \in Workers : call[w].pc = "idle"
    <2>1. call' = call /\ lastSeq' = lastSeq /\ server # Serving
      BY ServerKinds DEF Boot, ReconcileGit, ReconcileRecord, Serve, Serving
    <2>2. QED
      BY <2>1 DEF GateInv, LockDiscipline, Idle
  <1>1. \A w \in Workers : call'[w].pc \notin RunPcs
    BY <1>0 DEF RunPcs
  <1>2. CASE ReconcileGit
    <2>1. open' = open /\ Ends' = Ends
      BY <1>2, LogEnds DEF ReconcileGit
    <2>2. PICK r, ok : /\ r \in server.todo
                       /\ server' = [pc |-> "record", todo |-> server.todo \ {r},
                                     row |-> r, ok |-> ok]
      BY <1>2 DEF ReconcileGit
    <2>3. server.pc = "next"
      BY <1>2 DEF ReconcileGit
    <2>4. QED
      BY <1>0, <1>1, <2>1, <2>2, <2>3 DEF Accounted, RowsHeld
  <1>3. CASE ReconcileRecord
    <2> DEFINE r == server.row
               next == [pc |-> "next", todo |-> server.todo]
    <2>1. server.pc = "record" /\ r \in open \ server.todo /\ server.todo \subseteq open /\ r \in Row
      BY <1>0, <1>3 DEF ReconcileRecord, RowsHeld, TypeOK
    <2>2. ASSUME NEW v, v # "failed",
                 log' = log \cup {[seq |-> r.seq, branch |-> r.branch, verdict |-> v]},
                 open' = open \ {r}, server' = next
          PROVE  Accounted' /\ RowsHeld'
      <3>1. Accounted'
        <4>1. PICK e : e = [seq |-> r.seq, branch |-> r.branch, verdict |-> v]
          OBVIOUS
        <4>2. e.seq = r.seq /\ e.verdict # "failed"
          BY <2>2, <4>1
        <4>3. Ends' = Ends \cup {e}
          BY <2>2, <4>1, <4>2, LogEnds
        <4>4. QED
          BY <1>0, <2>1, <2>2, <4>2, <4>3, VerdictAccounts
      <3>2. QED
        BY <1>1, <2>1, <2>2, <3>1 DEF RowsHeld
    <2>3. CASE /\ open' = (open \ {r}) \cup {[r EXCEPT !.attempts = @ + 1]}
               /\ log' = log \cup {[seq |-> r.seq, branch |-> r.branch, verdict |-> "failed"]}
               /\ server' = next
      <3>1. PICK q : q = [r EXCEPT !.attempts = @ + 1]
        OBVIOUS
      <3>2. q.seq = r.seq
        BY <2>1, <3>1 DEF Row
      <3> HIDE DEF r
      <3>3. \A p \in open : p.seq = q.seq => p = r
        BY <2>1, <3>2 DEF Accounted
      <3>4. open' = (open \ {r}) \cup {q} /\ Ends' = Ends /\ lastSeq' = lastSeq
        BY <1>0, <2>3, <3>1, LogEnds
      <3>5. \A i \in 1..lastSeq' : (\E p \in open' : p.seq = i) \/ \E e \in Ends' : e.seq = i
        BY <2>1, <3>2, <3>4 DEF Accounted
      <3>6. Accounted'
        BY <2>1, <3>2, <3>3, <3>4, <3>5 DEF Accounted
      <3>7. QED
        BY <1>1, <2>1, <2>3, <3>6 DEF RowsHeld
    <2>4. CASE server' = Serving /\ open' = open /\ log' = log
      BY <1>0, <1>1, <2>4, LogEnds DEF Accounted, RowsHeld, Serving
    <2>5. QED
      BY <1>3, <2>2, <2>3, <2>4 DEF ReconcileRecord
  <1>4. CASE Serve
    BY <1>0, <1>1, <1>4, LogEnds DEF Serve, Accounted, RowsHeld, Serving
  <1>5. QED
    BY <1>2, <1>3, <1>4 DEF Boot

(* Every step keeps the account.                                           *)
LEMMA RowsStep ==
  ASSUME GateInv, GateInv', Accounted, RowsHeld, [Next]_vars
  PROVE  Accounted' /\ RowsHeld'
  <1>1. ASSUME NEW w \in Workers, Work(w)
        PROVE  Accounted' /\ RowsHeld'
    BY <1>1, RowsWork
  <1>2. ASSUME NEW w \in Workers, NEW b \in Branches, Arrive(w, b)
        PROVE  Accounted' /\ RowsHeld'
    BY <1>2, LogEnds DEF Arrive, GateInv, TypeOK, Accounted, RowsHeld, RunPcs
  <1>3. ASSUME NEW i \in Indexers, PostIndex(i) \/ PostParcels(i) \/ PostContracts(i)
        PROVE  Accounted' /\ RowsHeld'
    BY <1>3, LogEnds DEF PostIndex, PostParcels, PostContracts, Accounted, RowsHeld
  <1>4. CASE Crash
    BY <1>4, LogEnds DEF Crash, Accounted, RowsHeld, Idle, RunPcs
  <1>5. CASE Boot
    BY <1>5, RowsBoot
  <1>6. CASE UNCHANGED vars
    BY <1>6, LogEnds DEF vars, Accounted, RowsHeld
  <1>7. QED
    BY <1>1, <1>2, <1>3, <1>4, <1>5, <1>6 DEF Next

(* Whatever fails and whenever the server dies, every integrate that was   *)
(* started has its row or exactly one event that ends it: none is judged   *)
(* twice, and none is forgotten.                                           *)
THEOREM OneVerdict == Spec => []RowOrVerdict
  <1>1. Init => Accounted /\ RowsHeld
    BY DEF Init, Accounted, RowsHeld, Idle, Serving, RunPcs, Ends
  <1>2. TypeOK /\ Accounted => RowOrVerdict
    <2> SUFFICES ASSUME TypeOK, Accounted, NEW i \in 1..lastSeq
                 PROVE  Cardinality({r \in open : r.seq = i})
                          + Cardinality({e \in Ends : e.seq = i}) = 1
      BY DEF RowOrVerdict
    <2> DEFINE rows == {r \in open : r.seq = i}
               ends == {e \in Ends : e.seq = i}
    <2>1. ASSUME NEW r \in open, r.seq = i
          PROVE  rows = {r} /\ ends = {}
      BY <2>1 DEF Accounted
    <2>2. ASSUME NEW e \in Ends, e.seq = i
          PROVE  rows = {} /\ ends = {e}
      BY <2>2 DEF Accounted
    <2> HIDE DEF rows, ends
    <2>3. \/ \E x : rows = {x} /\ ends = {}
          \/ \E x : rows = {} /\ ends = {x}
      BY <2>1, <2>2 DEF Accounted
    <2>4. ASSUME NEW x PROVE Cardinality({x}) = 1
      BY FS_Singleton
    <2>5. Cardinality({}) = 0
      BY FS_EmptySet
    <2>6. Cardinality(rows) + Cardinality(ends) = 1
      <3>1. CASE \E x : rows = {x} /\ ends = {}
        BY <3>1, <2>4, <2>5
      <3>2. CASE \E x : rows = {} /\ ends = {x}
        BY <3>2, <2>4, <2>5
      <3>3. QED
        BY <2>3, <3>1, <3>2
    <2>7. QED
      BY <2>6 DEF rows, ends
  <1>3. GateInv => TypeOK
    BY DEF GateInv
  <1>4. GateInv /\ GateInv' /\ Accounted /\ RowsHeld /\ [Next]_vars => Accounted' /\ RowsHeld'
    BY RowsStep
  <1>5. QED
    BY <1>1, <1>2, <1>3, <1>4, GateInvInit, GateInvStep, PTL DEF Spec

-----------------------------------------------------------------------------
(* Why the blackboard describes the trunk, when neither the reset nor the  *)
(* re-index of a rollback fails and nobody posts to /index: who holds the  *)
(* lock has derived the tables from the trunk before it returns.           *)
ParcelsFollow   == \A p \in Parcels : trunk \in Holds[p] => parcelsOf[p] = trunk
ContractsFollow == \A p \in Parcels : trunk \in Freezes[p] => contractsOf[p] = trunk
Following == ParcelsFollow /\ ContractsFollow

Derived ==
  crashes = 0 =>
    /\ server = Serving
    /\ lock = NoWorker => Following
    /\ \A w \in Workers :
         /\ call[w].pc \in {"begin", "merge", "verdict", "close", "finish"} => Following
         /\ call[w].pc \in {"contracts", "recontracts"} => ParcelsFollow

(* A table that is left alone, with the trunk, follows; so does one that   *)
(* is written from the trunk, and one that loses rows of what is not there.*)
LEMMA Follows ==
  ASSUME trunk' = trunk
  PROVE  /\ parcelsOf' = parcelsOf => ParcelsFollow' = ParcelsFollow
         /\ contractsOf' = contractsOf => ContractsFollow' = ContractsFollow
         /\ UpsertParcels(trunk) => ParcelsFollow'
         /\ UpsertContracts(trunk) => ContractsFollow'
         /\ \A w : Finish(w) /\ Following => Following'
  <1>1. ASSUME NEW w, Finish(w), Following PROVE Following'
    BY <1>1, IntegratorAssumption DEF Finish, Following, ParcelsFollow, ContractsFollow
  <1> QED BY <1>1 DEF ParcelsFollow, ContractsFollow, UpsertParcels, UpsertContracts

(* Every step inside the lock keeps to that order.                         *)
LEMMA DerivedWork ==
  ASSUME {"reset", "reindex"} \cap Faults = {}, GateInv, Derived, crashes = 0,
         NEW w \in Workers, Work(w)
  PROVE  Derived'
  <1>0. /\ call \in [Workers -> Call] /\ Idle.pc = "idle" /\ NoWorker \notin Workers
        /\ "reset" \notin Faults /\ "reindex" \notin Faults /\ TypeOK
        /\ server = Serving /\ server' = server /\ crashes' = crashes
    <2>1. server = Serving
      BY DEF Derived
    <2>2. server' = server /\ crashes' = crashes
      BY DEF Work, TakeLock, Decline, Start, Merge, Gate, IndexParcels, IndexContracts, Merged,
         Finish, Rollback, ReindexParcels, ReindexContracts, Rejected
    <2>3. QED
      BY <2>1, <2>2, IntegratorAssumption DEF GateInv, TypeOK, Idle
  <1>1. \A v \in Workers \ {w} : call'[v] = call[v]
    BY <1>0 DEF Work, TakeLock, Decline, Start, Merge, Gate, IndexParcels, IndexContracts,
       Merged, Finish, Rollback, ReindexParcels, ReindexContracts, Rejected, Goto, Return
  <1>2. CASE TakeLock(w)
    <2>1. Following /\ lock' = w /\ trunk' = trunk /\ parcelsOf' = parcelsOf
          /\ contractsOf' = contractsOf
      BY <1>2 DEF TakeLock, Derived
    <2>2. QED
      BY <1>0, <2>1, Follows DEF Derived, Following
  <1> SUFFICES ASSUME ~TakeLock(w)
               PROVE  Derived'
    BY <1>2
  <1>3. call[w].pc \notin {"idle", "queued"} /\ lock = w
    BY <1>0 DEF GateInv, LockDiscipline, Work, Decline, Start, Merge, Gate,
       IndexParcels, IndexContracts, Merged, Finish, Rollback, ReindexParcels,
       ReindexContracts, Rejected
  <1>4. \A v \in Workers \ {w} : call'[v].pc \in {"idle", "queued"}
    BY <1>1, <1>3, Alone DEF GateInv
  <1>5. ASSUME Following' PROVE Derived'
    BY <1>0, <1>5 DEF Derived, Following
  <1>6. ASSUME lock' = lock, NEW c \in RunPcs, call'[w].pc = c,
               c \in {"merge", "verdict", "close"} => Following',
               c \in {"contracts", "recontracts"} => ParcelsFollow'
        PROVE  Derived'
    BY <1>0, <1>3, <1>4, <1>6 DEF Derived, Following, RunPcs
  <1>7. ASSUME call[w].pc \in RunPcs, NEW c \in RunPcs,
               \/ Goto(w, c)
               \/ \E d \in BOOLEAN : call' = [call EXCEPT ![w].pc = c, ![w].red = d]
        PROVE  call'[w].pc = c
    <2>1. call[w] \in Running
      BY <1>0, <1>7, CallKinds
    <2>2. CASE Goto(w, c)
      BY <1>0, <1>7, <2>1, <2>2, GotoRunning
    <2>3. ASSUME NEW d \in BOOLEAN, call' = [call EXCEPT ![w].pc = c, ![w].red = d]
          PROVE  call'[w].pc = c
      BY <1>0, <1>7, <2>1, <2>3, GotoRunning
    <2>4. QED
      BY <1>7, <2>2, <2>3
  <1>8. CASE Decline(w) \/ Start(w) \/ Merged(w)
    <2>1. Following
      BY <1>8 DEF Decline, Start, Merged, Derived
    <2>2. trunk' = trunk /\ parcelsOf' = parcelsOf /\ contractsOf' = contractsOf
      BY <1>8 DEF Decline, Start, Merged
    <2>3. QED
      BY <1>5, <2>1, <2>2, Follows DEF Following
  <1>18. CASE Finish(w)
    <2>1. Following /\ trunk' = trunk
      BY <1>18 DEF Finish, Derived
    <2>2. QED
      BY <1>5, <1>18, <2>1, Follows
  <1>9. CASE Merge(w)
    BY <1>6, <1>7, <1>9 DEF Merge, RunPcs
  <1>10. CASE Gate(w)
    BY <1>6, <1>7, <1>10 DEF Gate, RunPcs
  <1>11. CASE IndexParcels(w)
    BY <1>6, <1>7, <1>11, Follows DEF IndexParcels, RunPcs
  <1>12. CASE IndexContracts(w)
    <2>1. ParcelsFollow /\ parcelsOf' = parcelsOf /\ trunk' = trunk
      BY <1>0, <1>12 DEF IndexContracts, Derived
    <2>2. QED
      BY <1>6, <1>7, <1>12, <2>1, Follows DEF IndexContracts, RunPcs, Following
  <1>13. CASE Rollback(w)
    BY <1>0, <1>6, <1>7, <1>13 DEF Rollback, RunPcs
  <1>14. CASE ReindexParcels(w)
    BY <1>0, <1>6, <1>7, <1>14, Follows DEF ReindexParcels, RunPcs
  <1>15. CASE ReindexContracts(w)
    <2>1. ParcelsFollow /\ parcelsOf' = parcelsOf /\ trunk' = trunk /\ UpsertContracts(trunk)
      BY <1>0, <1>15 DEF ReindexContracts, Derived
    <2>2. QED
      BY <1>5, <2>1, Follows DEF Following
  <1>16. CASE Rejected(w)
    <2>1. Following /\ trunk' = trunk /\ parcelsOf' = parcelsOf /\ contractsOf' = contractsOf
      BY <1>16 DEF Rejected, Derived
    <2>2. QED
      BY <1>5, <2>1, Follows DEF Following
  <1>17. QED
    BY <1>8, <1>9, <1>10, <1>11, <1>12, <1>13, <1>14, <1>15, <1>16, <1>18
    DEF Work

(* While nobody posts to /index, the quiet blackboard of a server that has *)
(* not crashed has the trunk's row of every parcel the trunk has, and the  *)
(* trunk's contract of every symbol frozen in it, through merges,          *)
(* conflicts, red gates, failing indexing and failing verdict transactions,*)
(* whatever the trees thrown away held.                                    *)
THEOREM BoardFollows ==
  ASSUME Indexers = {}, {"reset", "reindex"} \cap Faults = {}
  PROVE  Spec => []BoardFollowsTrunk
  <1>1. Init => Derived
    BY DEF Init, Derived, Following, ParcelsFollow, ContractsFollow, Idle
  <1>2. ASSUME GateInv, Derived, [Next]_vars
        PROVE  Derived'
    <2>0. crashes \in Nat /\ Idle.pc = "idle" /\ Serving.pc = "serving"
      BY <1>2, IntegratorAssumption DEF GateInv, TypeOK, Idle, Serving
    <2>1. ASSUME NEW w \in Workers, Work(w)
          PROVE  Derived'
      <3>1. CASE crashes = 0
        BY <1>2, <2>1, <3>1, DerivedWork
      <3>2. CASE crashes # 0
        <4>1. crashes' = crashes
          BY <2>1 DEF Work, TakeLock, Decline, Start, Merge, Gate, IndexParcels, IndexContracts,
             Merged, Finish, Rollback, ReindexParcels, ReindexContracts, Rejected
        <4>2. QED
          BY <3>2, <4>1 DEF Derived
      <3>3. QED
        BY <3>1, <3>2
    <2>2. ASSUME NEW w \in Workers, NEW b \in Branches, Arrive(w, b)
          PROVE  Derived'
      BY <1>2, <2>2, Follows DEF Arrive, Derived, Following, GateInv, TypeOK
    <2>3. CASE Crash
      BY <2>0, <2>3 DEF Crash, Derived
    <2>4. CASE Boot
      <3>1. server # Serving /\ crashes' = crashes
        BY <2>0, <2>4 DEF Boot, ReconcileGit, ReconcileRecord, Serve
      <3>2. QED
        BY <1>2, <3>1 DEF Derived
    <2>5. CASE UNCHANGED vars
      BY <1>2, <2>5, Follows DEF vars, Derived, Following
    <2>6. QED
      BY <1>2, <2>1, <2>2, <2>3, <2>4, <2>5 DEF Next
  <1>3. Derived => BoardFollowsTrunk
    BY DEF Derived, Following, ParcelsFollow, ContractsFollow, BoardFollowsTrunk, Quiet
  <1>4. QED
    BY <1>1, <1>2, <1>3, GateInvInit, GateInvStep, PTL DEF Spec

-----------------------------------------------------------------------------
(* Why the trunk is green, when neither git nor a verdict transaction      *)
(* fails (a failing re-index is allowed).  There is at most one open row,  *)
(* and it is the row of the call inside the lock or of the orphan that is  *)
(* being reconciled.                                                       *)
Reliable == Faults \subseteq {"reindex"}

HeldRow(w) == [seq |-> call[w].seq, branch |-> call[w].branch,
               before |-> call[w].before, attempts |-> 0]

RowsOfCalls ==
  /\ \A w \in Workers : /\ call[w].pc \in {"begin", "finish"} => open = {}
                        /\ call[w].pc \in RunPcs => open = {HeldRow(w)}
  /\ server = Serving /\ lock = NoWorker => open = {}
  /\ server.pc = "next" => open = server.todo
  /\ server.pc = "record" =>
       server.todo = {} /\ open = {server.row} /\ server.ok /\ trunk = server.row.before
  /\ \A r, q \in open : r = q

(* After the reset of a rejection the trunk is what the call started from. *)
RolledBack ==
  \A w \in Workers :
    call[w].pc \in {"reparcels", "recontracts", "close"} => trunk = call[w].before

(* The tree the open row falls back to, or the trunk when there is none,   *)
(* is gated and holds all that landed; the trunk adds at most the merge    *)
(* that is being judged.                                                   *)
Green == Gated(Promised) /\ Landed \subseteq Promised /\ Promised \subseteq trunk

TrunkInv == RowsOfCalls /\ RolledBack /\ Green

(* With no row the promise is the trunk, with one it is what the row says. *)
LEMMA PromisedIs ==
  /\ open = {} => Promised = trunk
  /\ \A r : open = {r} => Promised = r.before
  <1>1. ASSUME NEW r, open = {r}
        PROVE  (CHOOSE q \in open : TRUE) = r
    BY <1>1
  <1>2. QED
    BY <1>1 DEF Promised

(* The same of the next state.                                             *)
LEMMA PromisedWillBe ==
  /\ open' = {} => Promised' = trunk'
  /\ \A r : open' = {r} => Promised' = r.before
  <1>1. ASSUME NEW r, open' = {r}
        PROVE  (CHOOSE q \in open' : TRUE) = r
    BY <1>1
  <1>2. QED
    BY <1>1 DEF Promised

(* Only a merged verdict adds to what has landed.                          *)
LEMMA LandedGrows ==
  /\ \A n, b, v : v # "merged" /\ log' = log \cup {[seq |-> n, branch |-> b, verdict |-> v]}
                   => Landed' = Landed
  /\ \A w : log' = log \cup {VerdictOf(w, "merged")} => Landed' = Landed \cup {call[w].branch}
  <1>1. \A x : x \in Landed <=> \E e \in log : e.verdict = "merged" /\ e.branch = x
    BY DEF Landed
  <1>2. \A x : x \in Landed' <=> \E e \in log' : e.verdict = "merged" /\ e.branch = x
    BY DEF Landed
  <1>3. ASSUME NEW n, NEW b, NEW v, v # "merged",
               log' = log \cup {[seq |-> n, branch |-> b, verdict |-> v]}
        PROVE  Landed' = Landed
    <2>1. \A x : x \in Landed' <=> x \in Landed
      BY <1>1, <1>2, <1>3
    <2>2. QED
      BY <2>1
  <1>4. ASSUME NEW w, log' = log \cup {VerdictOf(w, "merged")}
        PROVE  Landed' = Landed \cup {call[w].branch}
    <2>1. VerdictOf(w, "merged").verdict = "merged"
          /\ VerdictOf(w, "merged").branch = call[w].branch
      BY DEF VerdictOf
    <2>2. QED
      BY <1>1, <1>2, <1>4, <2>1
  <1>5. QED
    BY <1>3, <1>4

(* A step inside the lock that touches neither rows nor verdicts keeps the *)
(* promise.                                                                *)
LEMMA QuietWork ==
  ASSUME Reliable, GateInv, TrunkInv, NEW w \in Workers, NEW c \in RunPcs, NEW d \in BOOLEAN,
         call[w] \in Running,
         \/ Goto(w, c)
         \/ call' = [call EXCEPT ![w].pc = c, ![w].red = d],
         UNCHANGED <<open, log, lock, server>>, passed \subseteq passed',
         trunk' \in {trunk, call[w].before, call[w].before \cup {call[w].branch}},
         c \in {"reparcels", "recontracts", "close"} => trunk' = call[w].before
  PROVE  TrunkInv' /\ Promised' = Promised
  <1>0. TypeOK
    BY DEF GateInv
  <1>1. /\ call'[w].pc = c /\ call'[w].before = call[w].before
        /\ HeldRow(w)' = HeldRow(w)
        /\ \A v \in Workers \ {w} : call'[v] = call[v]
    BY <1>0, GotoRunning DEF HeldRow
  <1>2. call[w].pc \in RunPcs
    BY DEF Running, RunPcs
  <1>3. open = {HeldRow(w)} /\ Promised = call[w].before
    <2>1. open = {HeldRow(w)}
      BY <1>2 DEF TrunkInv, RowsOfCalls
    <2>2. Promised = HeldRow(w).before
      BY <2>1, PromisedIs
    <2>3. QED
      BY <2>1, <2>2 DEF HeldRow
  <1>4. open' = {HeldRow(w)'} /\ Promised' = call[w].before
    <2>1. open' = {HeldRow(w)}
      BY <1>3
    <2>2. Promised' = HeldRow(w).before
      BY <2>1, PromisedWillBe
    <2>3. QED
      BY <1>1, <2>1, <2>2 DEF HeldRow
  <1>5. lock = w /\ server = Serving /\ server.pc = "serving"
    BY <1>2 DEF GateInv, LockDiscipline, RunPcs, Idle, Serving
  <1>6. \A v \in Workers \ {w} : call[v].pc \in {"idle", "queued"}
    BY <1>2, Alone DEF GateInv, RunPcs
  <1>7. RowsOfCalls'
    BY <1>1, <1>4, <1>5, <1>6, IntegratorAssumption DEF RowsOfCalls, RunPcs
  <1>8. RolledBack'
    BY <1>1, <1>6 DEF RolledBack
  <1>9. Landed' = Landed
    BY DEF Landed
  <1>10. call[w].before \subseteq trunk'
    BY <1>3 DEF TrunkInv, Green
  <1>11. Green'
    BY <1>3, <1>4, <1>9, <1>10 DEF TrunkInv, Green, Gated
  <1>12. QED
    BY <1>3, <1>4, <1>7, <1>8, <1>11 DEF TrunkInv

(* A step inside the lock keeps the trunk green, and shows as nothing or   *)
(* as a landing.                                                           *)
LEMMA TrunkInvWork ==
  ASSUME Reliable, GateInv, TrunkInv, NEW w \in Workers, Work(w)
  PROVE  TrunkInv' /\ [Atomic!Next]_<<Promised, passed>>
  <1> USE DEF Reliable
  <1>0. /\ TypeOK /\ call \in [Workers -> Call]
        /\ Idle.pc = "idle" /\ Serving.pc = "serving" /\ NoWorker \notin Workers
    BY IntegratorAssumption DEF GateInv, TypeOK, Idle, Serving
  <1>1. server = Serving /\ server' = server
    BY <1>0 DEF GateInv, LockDiscipline, Work, TakeLock, Decline, Start, Merge, Gate,
       IndexParcels, IndexContracts, Merged, Finish, Rollback, ReindexParcels,
       ReindexContracts, Rejected
  <1>2. CASE TakeLock(w)
    <2>1. open = {} /\ open' = {} /\ Promised' = Promised /\ Landed' = Landed
      BY <1>1, <1>2, PromisedIs, PromisedWillBe DEF TakeLock, TrunkInv, RowsOfCalls, Landed
    <2>2. \A v \in Workers : call[v].pc \in {"idle", "queued"}
      BY <1>0, <1>2 DEF GateInv, LockDiscipline, TakeLock
    <2>3. call'[w].pc = "begin" /\ \A v \in Workers \ {w} : call'[v] = call[v]
      <3>1. call[w] \in Waiting
        BY <1>0, <1>2, CallKinds DEF TakeLock
      <3>2. call' = [call EXCEPT ![w] = [call[w] EXCEPT !.pc = "begin"]]
        BY <1>2 DEF TakeLock, Goto
      <3>3. QED
        BY <1>0, <3>1, <3>2 DEF Waiting
    <2>4. RowsOfCalls' /\ RolledBack'
      BY <1>0, <1>1, <2>1, <2>2, <2>3 DEF RowsOfCalls, RolledBack, RunPcs
    <2>5. QED
      BY <1>2, <2>1, <2>4 DEF TakeLock, TrunkInv, Green, Gated
  <1> SUFFICES ASSUME ~TakeLock(w)
               PROVE  TrunkInv' /\ [Atomic!Next]_<<Promised, passed>>
    BY <1>2
  <1>3. call[w].pc \notin {"idle", "queued"} /\ lock = w
    BY <1>0 DEF GateInv, LockDiscipline, Work, Decline, Start, Merge, Gate,
       IndexParcels, IndexContracts, Merged, Finish, Rollback, ReindexParcels,
       ReindexContracts, Rejected
  <1>4. \A v \in Workers \ {w} : call[v].pc \in {"idle", "queued"}
    BY <1>3, Alone DEF GateInv
  <1>5. ASSUME call[w].pc \in RunPcs
        PROVE  /\ call[w] \in Running
               /\ open = {HeldRow(w)} /\ Promised = call[w].before
               /\ RowOf(w) = open
    <2>1. call[w] \in Running /\ open = {HeldRow(w)}
      BY <1>0, <1>5, CallKinds DEF TrunkInv, RowsOfCalls
    <2>2. Promised = HeldRow(w).before
      BY <2>1, PromisedIs
    <2>3. QED
      BY <2>1, <2>2 DEF HeldRow, RowOf
  <1>6. ASSUME open' = {}, Return(w), trunk' = trunk
        PROVE  RowsOfCalls' /\ RolledBack'
    <2>1. \A v \in Workers : call'[v].pc \in {"idle", "queued"}
      BY <1>0, <1>4, <1>6 DEF Return
    <2>2. QED
      BY <1>0, <1>1, <1>6, <2>1 DEF RowsOfCalls, RolledBack, RunPcs
  <1>7. CASE Decline(w) \/ Finish(w)
    <2>1. /\ open = {} /\ open' = {} /\ Return(w)
          /\ UNCHANGED <<trunk, log, passed>>
      BY <1>7 DEF Decline, Finish, TrunkInv, RowsOfCalls
    <2>2. Promised' = Promised /\ Landed' = Landed
      BY <2>1, PromisedIs, PromisedWillBe DEF Landed
    <2>3. QED
      BY <1>6, <2>1, <2>2 DEF TrunkInv, Green, Gated
  <1>8. CASE Start(w)
    <2>1. open = {} /\ Promised = trunk
      BY <1>8, PromisedIs DEF Start, TrunkInv, RowsOfCalls
    <2>2. /\ call'[w] = [pc |-> "merge", branch |-> call[w].branch, before |-> trunk,
                        seq |-> lastSeq + 1, red |-> FALSE]
          /\ \A v \in Workers \ {w} : call'[v] = call[v]
      BY <1>0, <1>8 DEF Start
    <2>3. open' = {HeldRow(w)'}
      BY <1>8, <2>1, <2>2 DEF Start, HeldRow
    <2>4. open' = {[seq |-> lastSeq + 1, branch |-> call[w].branch,
                    before |-> trunk, attempts |-> 0]}
      BY <1>8, <2>1 DEF Start
    <2>5. Promised' = trunk
      <3> DEFINE row == [seq |-> lastSeq + 1, branch |-> call[w].branch,
                         before |-> trunk, attempts |-> 0]
      <3>1. row.before = trunk
        OBVIOUS
      <3> HIDE DEF row
      <3>2. Promised' = row.before
        BY <2>4, PromisedWillBe DEF row
      <3>3. QED
        BY <3>1, <3>2
    <2>6. RowsOfCalls' /\ RolledBack'
      BY <1>0, <1>1, <1>3, <1>4, <1>8, <2>2, <2>3 DEF Start, RowsOfCalls, RolledBack, RunPcs
    <2>7. Landed' = Landed
      BY <1>8 DEF Start, Landed
    <2>8. QED
      BY <1>8, <2>1, <2>5, <2>6, <2>7 DEF Start, TrunkInv, Green, Gated
  <1>9. CASE Merge(w)
    <2>1. call[w] \in Running /\ trunk = call[w].before
      BY <1>5, <1>9 DEF Merge, RunPcs, GateInv, JudgedTree
    <2>2. PICK c \in {"gate", "reject"} :
            Goto(w, c) /\ trunk' \in {trunk, trunk \cup {call[w].branch}}
      BY <1>9 DEF Merge
    <2>3. TrunkInv' /\ Promised' = Promised
      BY <1>9, <2>1, <2>2, QuietWork DEF Merge, RunPcs
    <2>4. QED
      BY <1>9, <2>3 DEF Merge
  <1>10. CASE Gate(w)
    <2>1. call[w] \in Running
      BY <1>5, <1>10 DEF Gate, RunPcs
    <2>2. PICK c \in {"index", "reject"}, d \in BOOLEAN :
            Goto(w, c) \/ call' = [call EXCEPT ![w].pc = c, ![w].red = d]
      BY <1>10 DEF Gate
    <2>3. passed' = passed \/ passed' = passed \cup {trunk}
      BY <1>10 DEF Gate
    <2>4. /\ UNCHANGED <<open, log, lock, server>> /\ trunk' = trunk
          /\ passed \subseteq passed'
      BY <1>10, <2>3 DEF Gate
    <2>5. TrunkInv' /\ Promised' = Promised
      BY <2>1, <2>2, <2>4, QuietWork DEF RunPcs
    <2>6. trunk \in SUBSET Branches
      BY <1>0 DEF TypeOK, Tree
    <2>7. QED
      BY <2>3, <2>5, <2>6 DEF Atomic!Next, Atomic!Pass
  <1>11. CASE IndexParcels(w) \/ IndexContracts(w)
    <2>1. call[w] \in Running
      BY <1>5, <1>11 DEF IndexParcels, IndexContracts, RunPcs
    <2>2. PICK c \in {"contracts", "verdict", "reject"} : Goto(w, c)
      BY <1>11 DEF IndexParcels, IndexContracts
    <2>3. UNCHANGED <<trunk, open, log, lock, server, passed>>
      BY <1>11 DEF IndexParcels, IndexContracts
    <2>4. TrunkInv' /\ Promised' = Promised
      BY <2>1, <2>2, <2>3, QuietWork DEF RunPcs
    <2>5. QED
      BY <2>3, <2>4
  <1>12. CASE Merged(w)
    <2>1. /\ call[w] \in Running /\ Promised = call[w].before /\ RowOf(w) = open
          /\ trunk = call[w].before \cup {call[w].branch} /\ trunk \in passed
      BY <1>5, <1>12 DEF Merged, RunPcs, GateInv, JudgedTree
    <2>2. /\ CloseRow(w, "merged") /\ UNCHANGED <<lock, trunk, passed>>
          /\ call' = [call EXCEPT ![w] = [pc |-> "finish", branch |-> @.branch]]
      BY <1>12 DEF Merged
    <2>3. open' = {} /\ Promised' = trunk /\ Landed' = Landed \cup {call[w].branch}
      <3>1. open' = {} /\ log' = log \cup {VerdictOf(w, "merged")}
        BY <2>1, <2>2 DEF CloseRow
      <3>2. Landed' = Landed \cup {call[w].branch}
        BY <3>1, LandedGrows
      <3>3. QED
        BY <2>2, <3>1, <3>2, PromisedWillBe
    <2>4. call'[w].pc = "finish" /\ \A v \in Workers \ {w} : call'[v] = call[v]
      BY <1>0, <2>2
    <2>5. RowsOfCalls' /\ RolledBack'
      BY <1>0, <1>1, <1>3, <1>4, <2>2, <2>3, <2>4 DEF RowsOfCalls, RolledBack, RunPcs
    <2>6. Green'
      BY <2>1, <2>2, <2>3 DEF TrunkInv, Green, Gated
    <2>7. Atomic!Land
      BY <2>1, <2>2, <2>3 DEF Atomic!Land, Running
    <2>8. QED
      BY <2>5, <2>6, <2>7 DEF TrunkInv, Atomic!Next
  <1>13. CASE Rollback(w)
    <2>1. call[w] \in Running
      BY <1>5, <1>13 DEF Rollback, RunPcs
    <2>2. /\ trunk' = call[w].before /\ Goto(w, "reparcels")
          /\ UNCHANGED <<open, log, lock, server, passed>>
      BY <1>13 DEF Rollback
    <2>3. TrunkInv' /\ Promised' = Promised
      BY <2>1, <2>2, QuietWork DEF RunPcs
    <2>4. QED
      BY <2>2, <2>3
  <1>14. CASE ReindexParcels(w) \/ ReindexContracts(w)
    <2>1. call[w] \in Running /\ trunk = call[w].before
      BY <1>5, <1>14 DEF ReindexParcels, ReindexContracts, RunPcs, TrunkInv, RolledBack
    <2>2. PICK c \in {"recontracts", "close"} : Goto(w, c)
      BY <1>14 DEF ReindexParcels, ReindexContracts
    <2>3. UNCHANGED <<trunk, open, log, lock, server, passed>>
      BY <1>14 DEF ReindexParcels, ReindexContracts
    <2>4. TrunkInv' /\ Promised' = Promised
      BY <2>1, <2>2, <2>3, QuietWork DEF RunPcs
    <2>5. QED
      BY <2>3, <2>4
  <1>15. CASE Rejected(w)
    <2>1. /\ call[w] \in Running /\ Promised = call[w].before /\ RowOf(w) = open
          /\ trunk = call[w].before
      BY <1>5, <1>15 DEF Rejected, RunPcs, TrunkInv, RolledBack
    <2>2. /\ CloseRow(w, "rejected") /\ Return(w) /\ UNCHANGED <<trunk, passed>>
      BY <1>15 DEF Rejected
    <2>3. open' = {} /\ Promised' = trunk /\ Landed' = Landed
      <3>1. /\ open' = {}
            /\ log' = log \cup {[seq |-> call[w].seq, branch |-> call[w].branch,
                                 verdict |-> "rejected"]}
        BY <2>1, <2>2 DEF CloseRow, VerdictOf
      <3>2. Landed' = Landed
        BY <3>1, LandedGrows
      <3>3. QED
        BY <2>2, <3>1, <3>2, PromisedWillBe
    <2>4. QED
      BY <1>6, <2>1, <2>2, <2>3 DEF TrunkInv, Green, Gated
  <1>16. QED
    BY <1>7, <1>8, <1>9, <1>10, <1>11, <1>12, <1>13, <1>14, <1>15 DEF Work

(* A crash and the reconciliation after it take the trunk back to its      *)
(* promise.                                                                *)
LEMMA TrunkInvBoot ==
  ASSUME Reliable, GateInv, TrunkInv, Boot
  PROVE  TrunkInv' /\ UNCHANGED <<Promised, passed>>
  <1> USE DEF Reliable
  <1>0. Idle.pc = "idle" /\ Serving.pc = "serving"
    BY DEF Idle, Serving
  <1>1. server # Serving /\ \A w \in Workers : call[w] = Idle /\ call'[w] = Idle
    BY <1>0 DEF Boot, ReconcileGit, ReconcileRecord, Serve, GateInv, LockDiscipline
  <1>2. RolledBack'
    BY <1>0, <1>1 DEF RolledBack
  <1>3. CASE ReconcileGit
    <2>1. PICK r \in server.todo : /\ trunk' = r.before
                                   /\ server' = [pc |-> "record", todo |-> server.todo \ {r},
                                                 row |-> r, ok |-> TRUE]
      BY <1>3 DEF ReconcileGit
    <2>2. open = {r} /\ server.todo = open /\ UNCHANGED <<open, log, passed>>
      BY <1>3, <2>1 DEF ReconcileGit, TrunkInv, RowsOfCalls
    <2>3. Promised = r.before /\ Promised' = r.before
      BY <2>2, PromisedIs, PromisedWillBe
    <2>4. RowsOfCalls'
      BY <1>0, <1>1, <2>1, <2>2 DEF RowsOfCalls, RunPcs
    <2>5. Landed' = Landed
      BY <2>2 DEF Landed
    <2>6. QED
      BY <1>2, <2>1, <2>2, <2>3, <2>4, <2>5 DEF TrunkInv, Green, Gated
  <1>4. CASE ReconcileRecord
    <2>1. /\ server.todo = {} /\ open = {server.row} /\ server.ok
          /\ trunk = server.row.before
      BY <1>4 DEF ReconcileRecord, TrunkInv, RowsOfCalls
    <2>2. /\ log' = log \cup {[seq |-> server.row.seq, branch |-> server.row.branch,
                               verdict |-> "orphaned"]}
          /\ open' = {} /\ server' = [pc |-> "next", todo |-> {}]
          /\ UNCHANGED <<trunk, passed>>
      BY <1>4, <2>1 DEF ReconcileRecord
    <2>3. Promised = trunk /\ Promised' = trunk
      BY <2>1, <2>2, PromisedIs, PromisedWillBe
    <2>4. Landed' = Landed
      BY <2>2, LandedGrows
    <2>5. RowsOfCalls'
      BY <1>0, <1>1, <2>2 DEF RowsOfCalls, RunPcs
    <2>6. QED
      BY <1>2, <2>2, <2>3, <2>4, <2>5 DEF TrunkInv, Green, Gated
  <1>5. CASE Serve
    <2>1. open = {} /\ open' = {} /\ UNCHANGED <<trunk, log, passed>> /\ server' = Serving
      BY <1>5 DEF Serve, TrunkInv, RowsOfCalls
    <2>2. Promised = trunk /\ Promised' = trunk /\ Landed' = Landed
      BY <2>1, PromisedIs, PromisedWillBe DEF Landed
    <2>3. RowsOfCalls'
      BY <1>0, <1>1, <2>1 DEF RowsOfCalls, RunPcs
    <2>4. QED
      BY <1>2, <2>1, <2>2, <2>3 DEF TrunkInv, Green, Gated
  <1>6. QED
    BY <1>3, <1>4, <1>5 DEF Boot

(* Every step keeps the trunk green and shows as nothing, a gate run or a  *)
(* landing.                                                                *)
LEMMA TrunkInvStep ==
  ASSUME Reliable, GateInv, TrunkInv, [Next]_vars
  PROVE  TrunkInv' /\ [Atomic!Next]_<<Promised, passed>>
  <1>0. /\ call \in [Workers -> Call]
        /\ Idle.pc = "idle" /\ Serving.pc = "serving"
    BY DEF GateInv, TypeOK, Idle, Serving
  <1>1. CASE \E w \in Workers : Work(w)
    BY <1>1, TrunkInvWork
  <1>2. ASSUME UNCHANGED <<trunk, open, log, passed>>
        PROVE  /\ Promised' = Promised /\ UNCHANGED passed
               /\ Green'
    BY <1>2 DEF Promised, Landed, Gated, TrunkInv, Green
  <1>3. ASSUME NEW w \in Workers, NEW b \in Branches, Arrive(w, b)
        PROVE  TrunkInv' /\ [Atomic!Next]_<<Promised, passed>>
    <2>1. call'[w] = [pc |-> "queued", branch |-> b] /\ \A v \in Workers \ {w} : call'[v] = call[v]
      BY <1>0, <1>3 DEF Arrive
    <2>2. \A v \in Workers : call'[v] # call[v] => call'[v].pc = "queued"
      BY <2>1
    <2>3. UNCHANGED <<trunk, open, log, passed, lock, server>>
      BY <1>3 DEF Arrive
    <2>4. RolledBack'
      BY <2>2, <2>3 DEF TrunkInv, RolledBack
    <2>5. \A v \in Workers : call'[v].pc # "queued" => HeldRow(v)' = HeldRow(v)
      BY <2>2 DEF HeldRow
    <2>6. RowsOfCalls'
      BY <2>2, <2>3, <2>5 DEF TrunkInv, RowsOfCalls, RunPcs
    <2>7. QED
      BY <1>2, <2>3, <2>4, <2>6 DEF TrunkInv
  <1>4. CASE \/ UNCHANGED vars
             \/ \E i \in Indexers : PostIndex(i) \/ PostParcels(i) \/ PostContracts(i)
    <2>1. UNCHANGED <<trunk, open, log, passed, lock, server, call>>
      BY <1>4 DEF vars, PostIndex, PostParcels, PostContracts
    <2>2. RowsOfCalls' /\ RolledBack'
      BY <2>1 DEF TrunkInv, RowsOfCalls, RolledBack, HeldRow
    <2>3. QED
      BY <1>2, <2>1, <2>2 DEF TrunkInv
  <1>5. CASE Crash
    <2>1. /\ UNCHANGED <<trunk, open, log, passed>>
          /\ \A w \in Workers : call'[w] = Idle
          /\ server' = [pc |-> "next", todo |-> open]
      BY <1>5 DEF Crash
    <2>2. RowsOfCalls' /\ RolledBack'
      BY <1>0, <2>1 DEF TrunkInv, RowsOfCalls, RolledBack, RunPcs
    <2>3. QED
      BY <1>2, <2>1, <2>2 DEF TrunkInv
  <1>6. CASE Boot
    BY <1>6, TrunkInvBoot
  <1>7. QED
    BY <1>1, <1>3, <1>4, <1>5, <1>6 DEF Next

(* The initial state satisfies the trunk invariant and maps to an initial  *)
(* state of the atomic trunk.                                              *)
LEMMA TrunkInvInit == Init => TrunkInv /\ Atomic!Init
  <1> SUFFICES ASSUME Init PROVE TrunkInv /\ Atomic!Init
    OBVIOUS
  <1>1. Promised = {} /\ Landed = {}
    BY PromisedIs DEF Init, Landed
  <1>2. QED
    BY <1>1 DEF Init, TrunkInv, RowsOfCalls, RolledBack, Green, Gated, Idle, Serving,
       RunPcs, Atomic!Init

(* The trunk is test-green whenever the server serves and no integrate is  *)
(* inside the lock, through every crash, rejection and recovery, provided  *)
(* git and the verdict transactions do not fail.                           *)
THEOREM GreenTrunk == ASSUME Reliable PROVE Spec => []TrunkGreen
  <1>1. GateInv /\ TrunkInv /\ [Next]_vars => TrunkInv'
    BY TrunkInvStep
  <1>2. GateInv /\ TrunkInv => TrunkGreen
    BY PromisedIs DEF TrunkInv, RowsOfCalls, Green, TrunkGreen, Quiet
  <1>3. Init => TrunkInv
    BY TrunkInvInit
  <1>4. QED
    BY <1>1, <1>2, <1>3, GateInvInit, GateInvStep, PTL DEF Spec

(* Under the same provisos a branch whose merged verdict was written never *)
(* leaves the trunk again.                                                 *)
THEOREM NothingLost == ASSUME Reliable PROVE Spec => []MergedStays
  <1>1. GateInv /\ TrunkInv /\ [Next]_vars => TrunkInv'
    BY TrunkInvStep
  <1>2. TrunkInv => MergedStays
    BY DEF TrunkInv, Green, MergedStays
  <1>3. Init => TrunkInv
    BY TrunkInvInit
  <1>4. QED
    BY <1>1, <1>2, <1>3, GateInvInit, GateInvStep, PTL DEF Spec

(* Under the same provisos the merge-first integrator with its rollbacks,  *)
(* crashes and recoveries implements the trunk that only ever lands green  *)
(* merges.                                                                 *)
THEOREM Refinement == ASSUME Reliable PROVE Spec => ImplementsAtomicTrunk
  <1>1. GateInv /\ TrunkInv /\ [Next]_vars => TrunkInv' /\ [Atomic!Next]_<<Promised, passed>>
    BY TrunkInvStep
  <1>2. Init => TrunkInv /\ Atomic!Init
    BY TrunkInvInit
  <1>3. QED
    BY <1>1, <1>2, GateInvInit, GateInvStep, PTL DEF Spec, ImplementsAtomicTrunk, Atomic!Spec

(* Its two actions keep its promise, so whatever implements it does.       *)
THEOREM Promise == Atomic!Spec => []Atomic!AlwaysGreen /\ Atomic!OnlyGrows
  <1>1. Atomic!Init => Atomic!AlwaysGreen
    BY DEF Atomic!Init, Atomic!AlwaysGreen
  <1>2. ASSUME Atomic!AlwaysGreen, [Atomic!Next]_<<Promised, passed>>
        PROVE  Atomic!AlwaysGreen' /\ [Promised \subseteq Promised']_Promised
    <2>1. CASE Atomic!Pass
      BY <1>2, <2>1 DEF Atomic!Pass, Atomic!AlwaysGreen
    <2>2. CASE Atomic!Land
      BY <1>2, <2>2 DEF Atomic!Land, Atomic!AlwaysGreen
    <2>3. CASE UNCHANGED <<Promised, passed>>
      BY <1>2, <2>3 DEF Atomic!AlwaysGreen
    <2>4. QED
      BY <1>2, <2>1, <2>2, <2>3 DEF Atomic!Next
  <1>3. QED
    BY <1>1, <1>2, PTL DEF Atomic!Spec, Atomic!OnlyGrows
=============================================================================
