------------------------------ MODULE Startup ------------------------------
(***************************************************************************)
(* Server processes coming up and going down around one machine's          *)
(* repositories: main of server/serve.py, the lock of repolock.py, init_db *)
(* and bind_managed_root of blackboard/db.py, the lifespan of              *)
(* server/app.py and, in outline, the recovery of                          *)
(* coordinator/integrator.py.                                              *)
(*                                                                         *)
(* A process may die between any two steps.  The kernel then drops its     *)
(* lock; what it wrote to its database and to the trunk stays.  A database *)
(* path leads to a file, and --fresh moves the file away from under the    *)
(* path.  Of a trunk only the merges that have not been gated are kept.    *)
(* git reset and the transaction of a verdict may fail: the code then goes *)
(* on without the rollback or the record.                                  *)
(***************************************************************************)
EXTENDS Naturals

CONSTANTS
  Procs,       \* server processes
  Roots,       \* the repositories
  Lockable,    \* those whose .git is a directory: the others have no lock
  Paths,       \* database paths
  Starts,      \* the <<root, path>> pairs servers are started with
  Careful,     \* --fresh is used only on a database nobody has
  MaxFiles,    \* bound: database files ever made
  MaxLaunches, \* bound: starts
  MaxMerges,   \* bound: integrates
  MaxAttempts, \* MAX_RECONCILE_ATTEMPTS
  MaxFaults,   \* bound: recoveries and verdicts in which something fails
  Nobody       \* no process, no root, no path

ASSUME StartupAssumption ==
  /\ Lockable \subseteq Roots
  /\ Starts \subseteq Roots \X Paths
  /\ Careful \in BOOLEAN
  /\ MaxFiles \in Nat /\ MaxLaunches \in Nat /\ MaxMerges \in Nat
  /\ MaxAttempts \in Nat /\ MaxFaults \in Nat
  /\ Nobody \notin Procs \cup Roots \cup Paths

Files  == 1..MaxFiles
Merges == 1..MaxMerges

VARIABLES
  at,        \* the file every path leads to, or 0
  file,      \* the files: their schema, managed_root and open_integrations
  flock,     \* the holder of every repository's lock
  proc,      \* the processes
  trunk,     \* the un-gated merges on every trunk
  strays,    \* history: merges whose rollback failed or whose row was lost
  made,      \* files made so far
  launches,  \* starts so far
  merges,    \* integrates so far
  faults     \* those in which something has failed

vars == <<at, file, flock, proc, trunk, strays, made, launches, merges, faults>>

(* pc: where main and the lifespan are; conn: the file of create_app's     *)
(* connection; row, merge: the open integrate and the file its row is in.  *)
Starting == {"probe", "probed", "rotate", "open", "create", "stamp", "acquire",
             "bind", "reconcile"}
Gone == [pc |-> "down", root |-> Nobody, path |-> Nobody, fresh |-> FALSE,
         conn |-> 0, row |-> 0, merge |-> 0]
Proc == {Gone} \cup
        [pc : {"serve"} \cup Starting, root : Roots, path : Paths, fresh : BOOLEAN,
         conn : 0..MaxFiles, row : 0..MaxFiles, merge : 0..MaxMerges]

(* A row of open_integrations: its integrate, the trunk before it and how  *)
(* often its rollback has failed (reconcile_attempts).                     *)
Row == [merge : Merges, root : Roots, before : SUBSET Merges, attempts : 0..MaxAttempts]

(* schema: none is an empty file, tables one that has them without the     *)
(* version stamp.                                                          *)
File == [schema : {"none", "tables", "ok"}, bound : Roots \cup {Nobody},
         open : SUBSET Row]

TypeOK ==
  /\ at \in [Paths -> 0..MaxFiles]
  /\ file \in [Files -> File]
  /\ flock \in [Roots -> Procs \cup {Nobody}]
  /\ proc \in [Procs -> Proc]
  /\ trunk \in [Roots -> SUBSET Merges]
  /\ strays \in SUBSET Merges
  /\ made \in 0..MaxFiles
  /\ launches \in 0..MaxLaunches
  /\ merges \in 0..MaxMerges
  /\ faults \in 0..MaxFaults

Init ==
  /\ at = [d \in Paths |-> 0]
  /\ file = [i \in Files |-> [schema |-> "none", bound |-> Nobody, open |-> {}]]
  /\ flock = [r \in Roots |-> Nobody]
  /\ proc = [p \in Procs |-> Gone]
  /\ trunk = [r \in Roots |-> {}]
  /\ strays = {}
  /\ made = 0 /\ launches = 0 /\ merges = 0 /\ faults = 0

-----------------------------------------------------------------------------
Root(p) == proc[p].root
Path(p) == proc[p].path
At(p, pc) == proc[p].pc = pc
Live(p) == ~At(p, "down")
Goto(p, pc) == proc' = [proc EXCEPT ![p].pc = pc]

(* The process ends, by a refusal, a stop or a crash, and its lock with it.*)
Unlocked(p) == [r \in Roots |-> IF flock[r] = p THEN Nobody ELSE flock[r]]
Down(p) == proc' = [proc EXCEPT ![p] = Gone] /\ flock' = Unlocked(p)

(* db.connect: the file at the path, made empty if there is none.          *)
Connect(p, i) ==
  IF at[Path(p)] # 0
  THEN i = at[Path(p)] /\ UNCHANGED <<at, made>>
  ELSE /\ made < MaxFiles
       /\ i = made + 1 /\ made' = i
       /\ at' = [at EXCEPT ![Path(p)] = i]

(* Nobody uses --fresh on a path that a process has.  The code asks for no *)
(* more than that the repository is not served at that moment.             *)
Polite(d, fresh) ==
  \A q \in Procs :
    Path(q) = d => ~fresh /\ ~(proc[q].fresh /\ proc[q].pc \in Starting)

Launch(p, r, d, fresh) ==
  /\ At(p, "down") /\ launches < MaxLaunches
  /\ Careful => Polite(d, fresh)
  /\ launches' = launches + 1
  /\ proc' = [proc EXCEPT ![p] = [pc |-> "probe", root |-> r, path |-> d,
                                  fresh |-> fresh, conn |-> 0, row |-> 0, merge |-> 0]]
  /\ UNCHANGED <<at, file, flock, trunk, strays, made, merges, faults>>

(* holder_pid_if_held: the probe is itself a non-blocking exclusive flock, *)
(* given up in a second step.  A lock that is held refuses the start.      *)
Probe(p) ==
  /\ At(p, "probe")
  /\ IF Root(p) \notin Lockable THEN Goto(p, "rotate") /\ UNCHANGED flock
     ELSE IF flock[Root(p)] = Nobody
          THEN Goto(p, "probed") /\ flock' = [flock EXCEPT ![Root(p)] = p]
          ELSE Down(p)
  /\ UNCHANGED <<at, file, trunk, strays, made, launches, merges, faults>>

Unprobe(p) ==
  /\ At(p, "probed")
  /\ Goto(p, "rotate") /\ flock' = Unlocked(p)
  /\ UNCHANGED <<at, file, trunk, strays, made, launches, merges, faults>>

(* rotate_stale_db: --fresh moves the file at the path aside, with its     *)
(* write-ahead log.                                                        *)
Rotate(p) ==
  /\ At(p, "rotate")
  /\ Goto(p, "open")
  /\ at' = IF proc[p].fresh THEN [at EXCEPT ![Path(p)] = 0] ELSE at
  /\ UNCHANGED <<file, flock, trunk, strays, made, launches, merges, faults>>

(* A death between the renames leaves the log at the path, where the next  *)
(* connection finds it beside an empty file and SQLite deletes it: rows    *)
(* that were only in the log are in no file any more.                      *)
RotateDies(p) ==
  /\ At(p, "rotate") /\ proc[p].fresh /\ at[Path(p)] # 0
  /\ LET i == at[Path(p)]
     IN  \E logged \in SUBSET file[i].open :
           /\ file' = [file EXCEPT ![i].open = file[i].open \ logged]
           /\ strays' = strays \cup {e.merge : e \in logged}
  /\ at' = [at EXCEPT ![Path(p)] = 0]
  /\ Down(p)
  /\ UNCHANGED <<trunk, made, launches, merges, faults>>

(* init_db looks first: tables without a stamp are refused as those of an  *)
(* older version.                                                          *)
Open(p) ==
  /\ At(p, "open")
  /\ \E i \in Files :
       /\ Connect(p, i)
       /\ IF file[i].schema = "tables" THEN Down(p)
          ELSE proc' = [proc EXCEPT ![p].pc = "create", ![p].conn = i] /\ UNCHANGED flock
  /\ UNCHANGED <<file, trunk, strays, launches, merges, faults>>

(* Then it makes the tables that are not there, and sets the stamp in a    *)
(* statement of its own.                                                   *)
Create(p) ==
  /\ At(p, "create")
  /\ Goto(p, "stamp")
  /\ file' = [file EXCEPT ![proc[p].conn].schema = IF @ = "none" THEN "tables" ELSE @]
  /\ UNCHANGED <<at, flock, trunk, strays, made, launches, merges, faults>>

Stamp(p) ==
  /\ At(p, "stamp")
  /\ Goto(p, "acquire")
  /\ file' = [file EXCEPT ![proc[p].conn].schema = "ok"]
  /\ UNCHANGED <<at, flock, trunk, strays, made, launches, merges, faults>>

(* Mutant: the probe's answer is taken for the lock.                       *)
AcquireUnchecked(p) ==
  /\ At(p, "acquire")
  /\ Goto(p, "bind")
  /\ flock' = [flock EXCEPT ![Root(p)] = p]
  /\ UNCHANGED <<at, file, trunk, strays, made, launches, merges, faults>>

(* RepoLock.acquire, the first step of the lifespan: non-blocking.         *)
Acquire(p) ==
  /\ At(p, "acquire")
  /\ IF Root(p) \notin Lockable THEN Goto(p, "bind") /\ UNCHANGED flock
     ELSE IF flock[Root(p)] = Nobody
          THEN Goto(p, "bind") /\ flock' = [flock EXCEPT ![Root(p)] = p]
          ELSE Down(p)
  /\ UNCHANGED <<at, file, trunk, strays, made, launches, merges, faults>>

(* Mutant: the last server to bind a database has it.                      *)
BindOver(p) ==
  /\ At(p, "bind")
  /\ \E i \in Files :
       /\ Connect(p, i)
       /\ IF file[i].schema = "none" THEN Down(p) /\ UNCHANGED file
          ELSE /\ file' = [file EXCEPT ![i].bound = Root(p)]
               /\ Goto(p, "reconcile") /\ UNCHANGED flock
  /\ UNCHANGED <<trunk, strays, launches, merges, faults>>

(* bind_managed_root, on a connection of its own: the first root stays, a  *)
(* server for another is refused, and so is one that finds no tables.      *)
Bind(p) ==
  /\ At(p, "bind")
  /\ \E i \in Files :
       /\ Connect(p, i)
       /\ LET bound == IF file[i].bound = Nobody THEN Root(p) ELSE file[i].bound
          IN  IF file[i].schema = "none" THEN Down(p) /\ UNCHANGED file
              ELSE /\ file' = [file EXCEPT ![i].bound = bound]
                   /\ IF bound = Root(p) THEN Goto(p, "reconcile") /\ UNCHANGED flock
                                         ELSE Down(p)
  /\ UNCHANGED <<trunk, strays, launches, merges, faults>>

(* What rollbacks make of a trunk: rows are rolled back oldest first, so   *)
(* that the reset of the newest one stands.                                *)
RolledBack(rows, r, t) ==
  LET own == {e \in rows : e.root = r}
  IN  IF own = {} THEN t = trunk[r]
      ELSE \E e \in own : (\A f \in own : f.merge <= e.merge) /\ t = e.before

Fails(something) ==
  IF something THEN faults < MaxFaults /\ faults' = faults + 1 ELSE UNCHANGED faults

(* Rows whose rollback failed once more: kept for the next boot, or        *)
(* abandoned after MaxAttempts.                                            *)
Retried(failed) ==
  {[e EXCEPT !.attempts = e.attempts + 1] :
     e \in {f \in failed : f.attempts + 1 < MaxAttempts}}

(* Mutant: the rows are ended and no trunk is reset.                       *)
ReconcileForgets(p) ==
  /\ At(p, "reconcile")
  /\ file' = [file EXCEPT ![proc[p].conn].open = {}]
  /\ Goto(p, "serve")
  /\ UNCHANGED <<at, flock, trunk, strays, made, launches, merges, faults>>

(* reconcile_orphaned_integrations, on create_app's connection: row by     *)
(* row, oldest first, the reset of the trunk, which may fail, and then the *)
(* transaction that ends the row or counts the attempt.  A transaction     *)
(* that fails ends the pass: its row and the later ones stay.  The server  *)
(* serves whatever came of it.                                             *)
Reconcile(p) ==
  /\ At(p, "reconcile")
  /\ \E i \in Files : \E reset \in SUBSET file[i].open :
       \E recorded \in SUBSET file[i].open :
         LET rows == file[i].open
         IN  /\ i = proc[p].conn
             /\ \A e \in reset \cup recorded, f \in rows :
                  f.merge < e.merge => f \in recorded
             /\ Fails(reset # rows \/ recorded # rows)
             /\ trunk' \in [Roots -> SUBSET Merges]
             /\ \A r \in Roots : RolledBack(reset, r, trunk'[r])
             /\ file' = [file EXCEPT ![i].open =
                           (rows \ recorded) \cup Retried(recorded \ reset)]
             /\ strays' = strays \cup {e.merge : e \in rows \ reset}
  /\ Goto(p, "serve")
  /\ UNCHANGED <<at, flock, made, launches, merges>>

(* A request opens its own connection by the path; integrate opens a row   *)
(* and merges.  One integrate at a time: integrate_lock.                   *)
Integrate(p) ==
  /\ At(p, "serve") /\ proc[p].row = 0 /\ merges < MaxMerges
  /\ at[Path(p)] # 0 /\ file[at[Path(p)]].schema # "none"
  /\ LET m == merges + 1 IN
       /\ merges' = m
       /\ proc' = [proc EXCEPT ![p].row = at[Path(p)], ![p].merge = m]
       /\ file' = [file EXCEPT ![at[Path(p)]].open =
                     @ \cup {[merge |-> m, root |-> Root(p), before |-> trunk[Root(p)],
                              attempts |-> 0]}]
       /\ trunk' = [trunk EXCEPT ![Root(p)] = @ \cup {m}]
  /\ UNCHANGED <<at, flock, strays, made, launches, faults>>

(* The merge has been gated, or the trunk is what it was before, unless    *)
(* git reset fails; the verdict closes the row, unless its transaction     *)
(* fails.  Either way the request is over.                                 *)
Verdict(p) ==
  /\ At(p, "serve") /\ proc[p].row # 0
  /\ proc' = [proc EXCEPT ![p].row = 0, ![p].merge = 0]
  /\ LET rows == file[proc[p].row].open
         own  == {e \in rows : e.merge = proc[p].merge}
     IN  \E failed \in SUBSET {"reset", "record"} :
           /\ Fails(failed # {})
           /\ file' = [file EXCEPT ![proc[p].row].open =
                         IF "record" \in failed THEN rows ELSE rows \ own]
           /\ \E t \in {trunk[Root(p)] \ {proc[p].merge}} \cup {e.before : e \in own} :
                trunk' = IF "reset" \in failed THEN trunk ELSE [trunk EXCEPT ![Root(p)] = t]
           /\ strays' = strays \cup (IF "reset" \in failed THEN {e.merge : e \in own} ELSE {})
  /\ UNCHANGED <<at, flock, made, launches, merges>>

(* The lifespan ends; uvicorn waits for the open request.                  *)
Stop(p) ==
  /\ At(p, "serve") /\ proc[p].row = 0
  /\ Down(p)
  /\ UNCHANGED <<at, file, trunk, strays, made, launches, merges, faults>>

Crash(p) ==
  /\ Live(p)
  /\ Down(p)
  /\ UNCHANGED <<at, file, trunk, strays, made, launches, merges, faults>>

Next ==
  \E p \in Procs :
    \/ \E s \in Starts, fresh \in BOOLEAN : Launch(p, s[1], s[2], fresh)
    \/ Probe(p) \/ Unprobe(p) \/ Rotate(p) \/ RotateDies(p)
    \/ Open(p) \/ Create(p) \/ Stamp(p)
    \/ Acquire(p) \/ Bind(p) \/ Reconcile(p)
    \/ Integrate(p) \/ Verdict(p) \/ Stop(p) \/ Crash(p)

Spec == Init /\ [][Next]_vars

-----------------------------------------------------------------------------
(* PROPERTIES                                                              *)

Holding == {"bind", "reconcile", "serve"}

(* repolock.py: two servers on one repository run git merge and git reset  *)
(* in the same working tree, so that past RepoLock.acquire there is only   *)
(* ever one process per lockable repository, whatever the databases, the   *)
(* probes of other starts and the crashes in between.                      *)
OneServerPerRepo ==
  \A p, q \in Procs :
    /\ proc[p].pc \in Holding /\ proc[q].pc \in Holding
    /\ Root(p) = Root(q) /\ Root(p) \in Lockable
    => p = q

(* Recovery takes every row it finds for an orphan (integrator.py, "every  *)
(* row present IS an orphan").  The lock and the binding of the database   *)
(* together make that true: the merge a serving process is judging keeps   *)
(* its row and stays on the trunk, whoever boots meanwhile.                *)
LiveMergesStand ==
  \A p \in Procs :
    Root(p) \in Lockable /\ proc[p].row # 0 =>
      /\ proc[p].merge \in trunk[Root(p)]
      /\ \E e \in file[proc[p].row].open : e.merge = proc[p].merge

(* A server rolls back what a dead one left before it serves, however the  *)
(* dead one's start and end were interleaved with others and whatever      *)
(* failed meanwhile: an un-gated merge on the trunk of a serving process   *)
(* is its own, or its row was moved aside by --fresh, or its own rollback  *)
(* failed or its row went with the log of a half-done --fresh (strays).    *)
(* In particular a failure leaves no other merge behind, and no boot loses *)
(* a row whose rollback did not fail.                                      *)
OnlyRotatedOrphans ==
  \A p \in Procs :
    At(p, "serve") /\ Root(p) \in Lockable =>
      \A m \in trunk[Root(p)] \ ({proc[p].merge} \cup strays) :
        \E i \in Files : /\ \A d \in Paths : at[d] # i
                         /\ \E e \in file[i].open : e.merge = m
=============================================================================
