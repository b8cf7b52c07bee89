----------------------------- MODULE Integrator -----------------------------
(***************************************************************************)
(* The serial test-gated integrator: POST /integrate of server/app.py      *)
(* (its process-wide lock), integrate, _reject_and_reset and               *)
(* reconcile_orphaned_integrations of coordinator/integrator.py, over the  *)
(* trunk checkout of worktree/git_ops.py and the two tables run_index      *)
(* fills.                                                                  *)
(*                                                                         *)
(* The integrator merges first and learns the verdict second.  Between the *)
(* two the trunk carries a merge that has not been gated; the              *)
(* open_integrations row is what recovery knows of it.  The atomic steps   *)
(* are git commands, gate runs and SQLite transactions; the server can die *)
(* between any two of them.                                                *)
(*                                                                         *)
(* A tree (a commit of the trunk) is the set of branches merged into it.   *)
(* What a row says is the tree it was last derived from: run_index writes  *)
(* the rows of what it finds and leaves all others as they are.  The       *)
(* read-dependency check and what is in a row are beyond this module.      *)
(***************************************************************************)
EXTENDS Naturals, FiniteSets

CONSTANTS
  Branches,      \* branches agents hand in
  Workers,       \* requests to /integrate that can be in flight together
  NoWorker,      \* nobody holds integrate_lock
  Indexers,      \* requests to /index that can be in flight together
  Parcels,       \* files and symbols
  Holds,         \* the trees that have a parcel
  Freezes,       \* the trees in which it is a frozen contract
  NoBranch,      \* no branch of an agent
  MaxAttempts,   \* MAX_RECONCILE_ATTEMPTS
  Faults,        \* which of the failures below happen
  MaxStarts,     \* bound: integrates started
  MaxCrashes     \* bound: server deaths

(* reset: a rollback's git reset fails; reindex: the re-index after a      *)
(* rollback fails; verdict: a verdict transaction raises; reconcile: the   *)
(* repository is unreachable when startup reconciliation needs it.         *)
FaultKinds == {"reset", "reindex", "verdict", "reconcile"}

ASSUME IntegratorAssumption ==
  /\ NoWorker \notin Workers /\ NoBranch \notin Branches
  /\ {Holds, Freezes} \subseteq [Parcels -> SUBSET SUBSET Branches]
  /\ \A p \in Parcels : Freezes[p] \subseteq Holds[p]
  /\ MaxAttempts \in Nat \ {0}
  /\ Faults \subseteq FaultKinds
  /\ {MaxStarts, MaxCrashes} \subseteq Nat

VARIABLES
  trunk,        \* the tree at the head of into
  parcelsOf,    \* the tree the row of a parcel was last derived from
  contractsOf,  \* the tree its contract was last derived from
  open,         \* the open_integrations rows
  lastSeq,      \* seq of the newest integrate_started event
  log,          \* the events that end an integrate, or try to
  passed,       \* history: the trees the gate passed
  lock,         \* holder of integrate_lock
  call,         \* the integrate call of every worker
  post,         \* the /index call of every indexer
  server,       \* booting: reconciling; serving
  crashes       \* server deaths so far

vars == <<trunk, parcelsOf, contractsOf, open, lastSeq, log, passed, lock,
          call, post, server, crashes>>

Tree  == SUBSET Branches
NoRow == {NoBranch}  \* no tree
Table == [Parcels -> Tree \cup {NoRow}]
Row   == [seq : Nat \ {0}, branch : Branches, before : Tree, attempts : Nat]

Idle    == [pc |-> "idle"]
Waiting == [pc : {"queued", "begin", "finish"}, branch : Branches]
Running == [pc : {"merge", "gate", "index", "contracts", "verdict",
                  "reject", "reparcels", "recontracts", "close"},
            branch : Branches, before : Tree, seq : Nat \ {0}, red : BOOLEAN]
Call    == {Idle} \cup Waiting \cup Running

Posting == [pc : {"parcels", "contracts"}, tree : Tree]

Serving == [pc |-> "serving"]
Booting == [pc : {"next"}, todo : SUBSET Row]
             \cup [pc : {"record"}, todo : SUBSET Row, row : Row, ok : BOOLEAN]

(* orphaned, abandoned and failed are integrate_orphaned events; failed    *)
(* tells of a reconciliation that will be retried, and ends nothing.       *)
Verdicts == {"merged", "rejected", "orphaned", "abandoned", "failed"}

TypeOK ==
  /\ trunk \in Tree /\ parcelsOf \in Table /\ contractsOf \in Table
  /\ open \subseteq Row
  /\ lastSeq \in 0..MaxStarts
  /\ log \subseteq [seq : Nat \ {0}, branch : Branches, verdict : Verdicts]
  /\ passed \subseteq Tree
  /\ lock \in Workers \cup {NoWorker}
  /\ call \in [Workers -> Call]
  /\ post \in [Indexers -> {Idle} \cup Posting]
  /\ server \in {Serving} \cup Booting
  /\ crashes \in 0..MaxCrashes

(* The first transaction of run_index over a tree, and the second.         *)
UpsertParcels(tree) ==
  parcelsOf' = [p \in Parcels |-> IF tree \in Holds[p] THEN tree ELSE parcelsOf[p]]

UpsertContracts(tree) ==
  contractsOf' = [p \in Parcels |-> IF tree \in Freezes[p] THEN tree ELSE contractsOf[p]]

Init ==
  /\ trunk = {}
  /\ parcelsOf = [p \in Parcels |-> IF trunk \in Holds[p] THEN trunk ELSE NoRow]
  /\ contractsOf = [p \in Parcels |-> IF trunk \in Freezes[p] THEN trunk ELSE NoRow]
  /\ open = {} /\ lastSeq = 0 /\ log = {} /\ passed = {}
  /\ lock = NoWorker
  /\ call = [w \in Workers |-> Idle]
  /\ post = [i \in Indexers |-> Idle]
  /\ server = Serving
  /\ crashes = 0

-----------------------------------------------------------------------------
Goto(w, pc) == call' = [call EXCEPT ![w].pc = pc]

(* Mutant: a verdict closes the rows of its branch name.                   *)
RowOfBranch(w) == {r \in open : r.branch = call[w].branch}

RowOf(w) == {r \in open : r.seq = call[w].seq}

VerdictOf(w, v) == [seq |-> call[w].seq, branch |-> call[w].branch, verdict |-> v]

(* Mutant: the verdict is written and its row is left.                     *)
CloseKeepsRow(w, v) == log' = log \cup {VerdictOf(w, v)} /\ UNCHANGED open

(* A verdict event and the deletion of the row it closes: one transaction. *)
CloseRow(w, v) ==
  /\ log' = log \cup {VerdictOf(w, v)}
  /\ open' = open \ RowOf(w)

(* Mutant: the lock is not released.                                       *)
ReturnHolding(w) == call' = [call EXCEPT ![w] = Idle] /\ UNCHANGED lock

(* The handler returns or raises: the lock is released either way.         *)
Return(w) ==
  /\ call' = [call EXCEPT ![w] = Idle]
  /\ lock' = NoWorker

-----------------------------------------------------------------------------
(* POST /integrate arrives and waits for integrate_lock.                   *)
Arrive(w, b) ==
  /\ server = Serving
  /\ call[w] = Idle
  /\ call' = [call EXCEPT ![w] = [pc |-> "queued", branch |-> b]]
  /\ UNCHANGED <<trunk, parcelsOf, contractsOf, open, lastSeq, log, passed,
                 lock, post, server, crashes>>

(* Mutant: /integrate runs without the lock.                               *)
TakeLockUnguarded(w) ==
  /\ call[w].pc = "queued"
  /\ lock' = w
  /\ Goto(w, "begin")
  /\ UNCHANGED <<trunk, parcelsOf, contractsOf, open, lastSeq, log, passed,
                 post, server, crashes>>

TakeLock(w) ==
  /\ call[w].pc = "queued"
  /\ lock = NoWorker
  /\ lock' = w
  /\ Goto(w, "begin")
  /\ UNCHANGED <<trunk, parcelsOf, contractsOf, open, lastSeq, log, passed,
                 post, server, crashes>>

(* A stale read dependency, or a ref that does not resolve: the call ends  *)
(* before anything was started.                                            *)
Decline(w) ==
  /\ call[w].pc = "begin"
  /\ Return(w)
  /\ UNCHANGED <<trunk, parcelsOf, contractsOf, open, lastSeq, log, passed,
                 post, server, crashes>>

(* pre_merge_sha is read, then the integrate_started event and its row are *)
(* committed together.                                                     *)
Start(w) ==
  /\ call[w].pc = "begin"
  /\ lastSeq < MaxStarts
  /\ lastSeq' = lastSeq + 1
  /\ open' = open \cup {[seq |-> lastSeq + 1, branch |-> call[w].branch,
                         before |-> trunk, attempts |-> 0]}
  /\ call' = [call EXCEPT ![w] = [pc |-> "merge", branch |-> @.branch,
                                  before |-> trunk, seq |-> lastSeq + 1,
                                  red |-> FALSE]]
  /\ UNCHANGED <<trunk, parcelsOf, contractsOf, log, passed, lock, server,
                 post, crashes>>

(* git merge --no-ff: it lands, or it conflicts or fails and is aborted.   *)
Merge(w) ==
  /\ call[w].pc = "merge"
  /\ \/ trunk' = trunk \cup {call[w].branch} /\ Goto(w, "gate")
     \/ UNCHANGED trunk /\ Goto(w, "reject")
  /\ UNCHANGED <<parcelsOf, contractsOf, open, lastSeq, log, passed, lock,
                 post, server, crashes>>

(* Mutant: a red gate is not asked about.                                  *)
GateIgnored(w) ==
  /\ call[w].pc = "gate"
  /\ Goto(w, "index")
  /\ \/ passed' = passed \cup {trunk}
     \/ UNCHANGED passed
  /\ UNCHANGED <<trunk, parcelsOf, contractsOf, open, lastSeq, log, lock,
                 post, server, crashes>>

(* The impact-selected tests run on the merged tree: green, or red, or     *)
(* interrupted or raising.  A red gate rejects from inside the guarded     *)
(* block, an exception from its handler.                                   *)
Gate(w) ==
  /\ call[w].pc = "gate"
  /\ \/ passed' = passed \cup {trunk} /\ Goto(w, "index")
     \/ /\ UNCHANGED passed
        /\ \E red \in BOOLEAN :
             call' = [call EXCEPT ![w].pc = "reject", ![w].red = red]
  /\ UNCHANGED <<trunk, parcelsOf, contractsOf, open, lastSeq, log, lock,
                 post, server, crashes>>

(* run_index commits the parcels table and the contracts table in two      *)
(* transactions; the parse, either of them, or the work up to the end of   *)
(* the guarded block may raise.                                            *)
IndexParcels(w) ==
  /\ call[w].pc = "index"
  /\ \/ UpsertParcels(trunk) /\ Goto(w, "contracts")
     \/ UNCHANGED parcelsOf /\ Goto(w, "reject")
  /\ UNCHANGED <<trunk, contractsOf, open, lastSeq, log, passed, lock, server,
                 post, crashes>>

IndexContracts(w) ==
  /\ call[w].pc = "contracts"
  /\ \/ UpsertContracts(trunk) /\ (Goto(w, "verdict") \/ Goto(w, "reject"))
     \/ UNCHANGED contractsOf /\ Goto(w, "reject")
  /\ UNCHANGED <<trunk, parcelsOf, open, lastSeq, log, passed, lock, server,
                 post, crashes>>

(* The merged event and the end of the row, in one transaction.  If it     *)
(* raises the call ends in a 500.                                          *)
Merged(w) ==
  /\ call[w].pc = "verdict"
  /\ \/ /\ CloseRow(w, "merged")
        /\ call' = [call EXCEPT ![w] = [pc |-> "finish", branch |-> @.branch]]
        /\ UNCHANGED lock
     \/ /\ "verdict" \in Faults
        /\ Return(w)
        /\ UNCHANGED <<open, log>>
  /\ UNCHANGED <<trunk, parcelsOf, contractsOf, lastSeq, passed, post, server, crashes>>

(* The trailing events, the retirement of rows of what is gone (Board says *)
(* of which) and the return.                                               *)
Finish(w) ==
  LET absent == {p \in Parcels : trunk \notin Holds[p]}
  IN  /\ call[w].pc = "finish"
      /\ \E gone \in SUBSET absent :
           parcelsOf' = [p \in Parcels |-> IF p \in gone THEN NoRow ELSE parcelsOf[p]]
      /\ \E dead \in SUBSET absent :
           contractsOf' = [p \in Parcels |-> IF p \in dead THEN NoRow ELSE contractsOf[p]]
      /\ Return(w)
      /\ UNCHANGED <<trunk, open, lastSeq, log, passed, post, server, crashes>>

-----------------------------------------------------------------------------
(* Mutants: a rejection that does not reset the trunk, or that does not    *)
(* re-derive the tables.                                                   *)
RollbackSkipsReset(w) ==
  /\ call[w].pc = "reject"
  /\ Goto(w, "reparcels")
  /\ UNCHANGED <<trunk, parcelsOf, contractsOf, open, lastSeq, log, passed,
                 lock, post, server, crashes>>
RollbackSkipsIndex(w) ==
  /\ call[w].pc = "reject"
  /\ trunk' = call[w].before
  /\ Goto(w, "close")
  /\ UNCHANGED <<parcelsOf, contractsOf, open, lastSeq, log, passed, lock,
                 post, server, crashes>>

(* _reject_and_reset: git reset, then the tables re-derived from the       *)
(* restored tree, then the verdict.  A failed reset skips the re-index; no *)
(* failure of either keeps the verdict from being written.                 *)
Rollback(w) ==
  /\ call[w].pc = "reject"
  /\ \/ trunk' = call[w].before /\ Goto(w, "reparcels")
     \/ "reset" \in Faults /\ UNCHANGED trunk /\ Goto(w, "close")
  /\ UNCHANGED <<parcelsOf, contractsOf, open, lastSeq, log, passed, lock,
                 post, server, crashes>>

ReindexParcels(w) ==
  /\ call[w].pc = "reparcels"
  /\ \/ UpsertParcels(trunk) /\ Goto(w, "recontracts")
     \/ "reindex" \in Faults /\ UNCHANGED parcelsOf /\ Goto(w, "close")
  /\ UNCHANGED <<trunk, contractsOf, open, lastSeq, log, passed, lock, server,
                 post, crashes>>

ReindexContracts(w) ==
  /\ call[w].pc = "recontracts"
  /\ \/ UpsertContracts(trunk)
     \/ "reindex" \in Faults /\ UNCHANGED contractsOf
  /\ Goto(w, "close")
  /\ UNCHANGED <<trunk, parcelsOf, open, lastSeq, log, passed, lock, server,
                 post, crashes>>

(* A verdict transaction that raises after a red gate lands in the guarded *)
(* block's own handler, which rejects once more; elsewhere it is a 500.    *)
Rejected(w) ==
  /\ call[w].pc = "close"
  /\ \/ CloseRow(w, "rejected") /\ Return(w)
     \/ /\ "verdict" \in Faults
        /\ UNCHANGED <<open, log>>
        /\ IF call[w].red
             THEN /\ call' = [call EXCEPT ![w].pc = "reject", ![w].red = FALSE]
                  /\ UNCHANGED lock
             ELSE Return(w)
  /\ UNCHANGED <<trunk, parcelsOf, contractsOf, lastSeq, passed, post, server, crashes>>

-----------------------------------------------------------------------------
(* POST /index runs on a thread of its own and takes no lock: it parses    *)
(* the checkout it finds, whichever tree that is, and then commits the two *)
(* tables.                                                                 *)
PostIndex(i) ==
  /\ server = Serving
  /\ post[i] = Idle
  /\ post' = [post EXCEPT ![i] = [pc |-> "parcels", tree |-> trunk]]
  /\ UNCHANGED <<trunk, parcelsOf, contractsOf, open, lastSeq, log, passed,
                 lock, call, server, crashes>>

PostParcels(i) ==
  /\ post[i].pc = "parcels"
  /\ UpsertParcels(post[i].tree)
  /\ post' = [post EXCEPT ![i].pc = "contracts"]
  /\ UNCHANGED <<trunk, contractsOf, open, lastSeq, log, passed, lock, call,
                 server, crashes>>

PostContracts(i) ==
  /\ post[i].pc = "contracts"
  /\ UpsertContracts(post[i].tree)
  /\ post' = [post EXCEPT ![i] = Idle]
  /\ UNCHANGED <<trunk, parcelsOf, open, lastSeq, log, passed, lock, call,
                 server, crashes>>

-----------------------------------------------------------------------------
(* The process dies (SIGKILL, OOM, power) and is started again: only git   *)
(* and the tables survive, and the rows found open are the orphans.        *)
Crash ==
  /\ crashes < MaxCrashes
  /\ crashes' = crashes + 1
  /\ call' = [w \in Workers |-> Idle]
  /\ lock' = NoWorker
  /\ post' = [i \in Indexers |-> Idle]
  /\ server' = [pc |-> "next", todo |-> open]
  /\ UNCHANGED <<trunk, parcelsOf, contractsOf, open, lastSeq, log, passed>>

(* Mutant: startup records the orphan without resetting the trunk.         *)
ReconcileSkipsReset ==
  /\ server.pc = "next"
  /\ \E r \in server.todo :
       server' = [pc |-> "record", todo |-> server.todo \ {r}, row |-> r, ok |-> TRUE]
  /\ UNCHANGED <<trunk, parcelsOf, contractsOf, open, lastSeq, log, passed, lock,
                 call, post, crashes>>

(* reconcile_orphaned_integrations takes the rows in started_seq order.    *)
(* First the trunk is reset to what the row recorded (a no-op when it is   *)
(* there already).                                                         *)
ReconcileGit ==
  /\ server.pc = "next"
  /\ \E r \in server.todo :
       /\ \A q \in server.todo : r.seq <= q.seq
       /\ \E ok \in BOOLEAN :
            /\ IF ok THEN trunk' = r.before
                     ELSE "reconcile" \in Faults /\ UNCHANGED trunk
            /\ server' = [pc |-> "record", todo |-> server.todo \ {r},
                          row |-> r, ok |-> ok]
  /\ UNCHANGED <<parcelsOf, contractsOf, open, lastSeq, log, passed, lock,
                 call, post, crashes>>

(* Then the outcome is recorded in an event: an orphan that was rolled     *)
(* back, or given up after MaxAttempts failures, loses its row with it; a  *)
(* failed one keeps it for the next boot.  If the transaction raises,      *)
(* startup gives up on the remaining rows and serves.                      *)
ReconcileRecord ==
  LET r == server.row
      say(v) == log' = log \cup {[seq |-> r.seq, branch |-> r.branch, verdict |-> v]}
      close(v) == say(v) /\ open' = open \ {r}
      next == [pc |-> "next", todo |-> server.todo]
  IN  /\ server.pc = "record"
      /\ \/ server.ok /\ close("orphaned") /\ server' = next
         \/ /\ ~server.ok
            /\ r.attempts + 1 >= MaxAttempts
            /\ close("abandoned")
            /\ server' = next
         \/ /\ ~server.ok
            /\ r.attempts + 1 < MaxAttempts
            /\ open' = (open \ {r}) \cup {[r EXCEPT !.attempts = @ + 1]}
            /\ say("failed")
            /\ server' = next
         \/ "verdict" \in Faults /\ server' = Serving /\ UNCHANGED <<open, log>>
      /\ UNCHANGED <<trunk, parcelsOf, contractsOf, lastSeq, passed, lock,
                     call, post, crashes>>

Serve ==
  /\ server.pc = "next"
  /\ server.todo = {}
  /\ server' = Serving
  /\ UNCHANGED <<trunk, parcelsOf, contractsOf, open, lastSeq, log, passed,
                 lock, call, post, crashes>>

-----------------------------------------------------------------------------
Work(w) ==
  \/ TakeLock(w) \/ Decline(w) \/ Start(w) \/ Merge(w) \/ Gate(w)
  \/ IndexParcels(w) \/ IndexContracts(w) \/ Merged(w) \/ Finish(w)
  \/ Rollback(w) \/ ReindexParcels(w) \/ ReindexContracts(w) \/ Rejected(w)

Boot == ReconcileGit \/ ReconcileRecord \/ Serve

Next ==
  \/ \E w \in Workers : Work(w) \/ \E b \in Branches : Arrive(w, b)
  \/ \E i \in Indexers : PostIndex(i) \/ PostParcels(i) \/ PostContracts(i)
  \/ Boot \/ Crash

Spec == Init /\ [][Next]_vars

(* A running handler and a booting server take their next step; asyncio's  *)
(* lock serves its waiters in order, so a waiter is not passed over for    *)
(* ever.  Nothing makes clients send requests.                             *)
Fairness == /\ \A w \in Workers : WF_vars(Work(w)) /\ SF_vars(TakeLock(w))
            /\ WF_vars(Boot)
FairSpec == Spec /\ Fairness

-----------------------------------------------------------------------------
(* PROPERTIES                                                              *)

Quiet == server = Serving /\ lock = NoWorker

NoIndex == \A i \in Indexers : post[i] = Idle

Gated(t) == t = {} \/ t \in passed

(* The headline guarantee, "trunk is always test-green": whenever the      *)
(* server serves and no integrate is inside the lock, the gate has passed  *)
(* exactly the tree at the head of the trunk, crashes and every kind of    *)
(* rejection included.                                                     *)
TrunkGreen == Quiet => Gated(trunk)

Landed == {v.branch : v \in {e \in log : e.verdict = "merged"}}

(* A branch whose merged verdict was written never leaves the trunk again: *)
(* no rollback and no startup reconciliation takes it back (the C1 data    *)
(* loss of integrator.py).                                                 *)
MergedStays == Landed \subseteq trunk

Ends == {e \in log : e.verdict # "failed"}

(* Row and verdict are two faces of one fact (integrator.py, the start and *)
(* terminal transactions): every started integrate has either its row or   *)
(* exactly one event that ends it, however often its reconciliation failed *)
(* and was announced before.                                               *)
RowOrVerdict ==
  \A i \in 1..lastSeq :
    Cardinality({r \in open : r.seq = i}) + Cardinality({e \in Ends : e.seq = i}) = 1

(* While a call is between its merge and its verdict, the tree the gate    *)
(* judges is the tree it started from plus its own branch: nobody else     *)
(* moved the trunk under it.                                               *)
OwnMergeOnly ==
  \A w \in Workers :
    call[w].pc \in {"gate", "index", "contracts", "verdict"} =>
      trunk = call[w].before \cup {call[w].branch}

(* Whatever fails, a merged verdict is only ever written while the trunk   *)
(* is a tree the gate passed and holds the branch.                         *)
MergedWasGated ==
  [][\A e \in log' \ log :
       e.verdict = "merged" => trunk \in passed /\ e.branch \in trunk]_vars

(* A tree the gate did not pass is never left behind unnoticed             *)
(* (reconcile_orphaned_integrations: the row is the only thing that can    *)
(* detect it): while it is the trunk of a serving server some row is open. *)
PoisonIsDetectable == Quiet /\ ~Gated(trunk) => open # {}

(* Rejections roll the blackboard back too: as long as the server has not  *)
(* crashed, the rows of what the trunk has, and the contracts of what is   *)
(* frozen in it, are those of the trunk, whatever the trees thrown away    *)
(* had and lacked.  (Rows of what only those had may stay.)                *)
BoardFollowsTrunk ==
  Quiet /\ NoIndex /\ crashes = 0 =>
    \A p \in Parcels : /\ trunk \in Holds[p] => parcelsOf[p] = trunk
                       /\ trunk \in Freezes[p] => contractsOf[p] = trunk

(* Every request that waits for the lock is eventually answered (or cut    *)
(* off by a crash).                                                        *)
RequestEnds == \A w \in Workers : call[w].pc = "queued" ~> call[w] = Idle

(* No integrate stays open: a verdict or a restart closes its row.         *)
RowCloses ==
  \A i \in 1..MaxStarts :
    (\E r \in open : r.seq = i) ~> ~(\E r \in open : r.seq = i)

(* Seen through its open row the trunk changes atomically: a merge in the  *)
(* window, a rollback and a recovery do not show.                          *)
Promised == IF open = {} THEN trunk ELSE (CHOOSE r \in open : TRUE).before

Atomic == INSTANCE AtomicTrunk WITH tree <- Promised, green <- passed

ImplementsAtomicTrunk == Atomic!Spec
=============================================================================
