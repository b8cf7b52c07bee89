# A formal model of swarm-sync

swarm-sync lets several coding agents edit one Git repository at once. Each
agent works in a worktree of its own, leases the *parcels* (functions, classes,
files) it is about to touch, and hands its branch to one serial, test-gated
integrator. The coordination state is one SQLite file behind a small HTTP
server, the *blackboard*. The modules here model that coordination logic in
TLA+; TLC checks them on small instances and TLAPS proves the main theorems
for every value of the constants.

Source paths are relative to `src/swarmsync/`.

## 1. The system

| component | source | state it keeps | operations |
|---|---|---|---|
| lease manager | `blackboard/leases.py` | `leases` rows (parcel, agent, mode, expiry, status), `parcels` rows it creates | `acquire`, `heartbeat`, `release` |
| reaper | `coordinator/reaper.py` | none of its own; runs in the server and in the broker | `reap_once`, pheromone decay, event compaction |
| integrator | `coordinator/integrator.py` | the trunk checkout, `open_integrations`, verdict events | `integrate`, `_reject_and_reset`, `reconcile_orphaned_integrations` |
| blackboard server | `server/app.py` | `integrate_lock` | the HTTP handlers; reconciliation at startup |
| classifier | `classifier/{indexer,graph,store}.py` | `parcels`, `contracts` | `run_index`, `retire_rows`, dependency graph, `co_schedulable` |
| worktrees | `worktree/git_ops.py` | worktree directories, branches, per-worktree `flock` files | add, remove, park, prune orphans, merge, reset |
| broker | `coordinator/broker.py` | the wave being run, retry counts | `schedulable`, `group_schedulable`, `run` |
| agent runner | `agent/runner.py` | leases an agent holds, heartbeat thread | acquire all, edit, commit, hand in, clean up |
| hook adapter | `hooks/adapter.py`, `scripts/swarmsync-hook-guard` | contact stamp, session's leases | pre-check, post-update, release, session start |
| impact gate | `coordinator/gate.py` | none | picks the tests of a change and runs them |
| events, pheromone | `blackboard/events.py` | `events`, `pheromone` | emit, tail, compact, drop, decay |
| database layer | `blackboard/{db,schema}` | schema version, managed root | `init_db`, `transaction`, `bind_managed_root` |
| server process | `server/serve.py`, `repolock.py` | repository lock, database file | clock check, database rotation, lock |
| CLI, configuration, demo, mutators | `cli.py`, `config.py`, ... | none | input and output |

How they interact. Agents (the runner, or the hooks of an editor session) talk
HTTP to the server; every handler opens a connection of its own in autocommit
mode, so the unit of atomicity is the SQL *statement* unless the code opens a
`transaction`. Handlers run on a thread pool: any two of them interleave. Only
`POST /integrate` is serialised, by `integrate_lock`. The integrator shares the
trunk checkout with `POST /index`, and the tables with every handler. The
reaper's loop runs next to the handlers (and a second one may run in a broker
process). A crash loses everything but Git and the database file.

What is hard, and what must hold:

* **Leases.** An acquire is up to four statements; expiry is decided by a clock
  inside the statement; a release is a SELECT and an UPDATE; two reapers may
  run. Two live leases must never conflict, a lapsed lease must not revive, a
  lease must end once, and not under a holder that renewed it; the cap and the
  duplicate rows may be exceeded only by the requests that race.
* **Integration.** The trunk is merged first and judged second; a crash, a
  failing `git reset`, a failing transaction or a failing reconciliation can
  strike in that window. The trunk must be test-green whenever nobody is in the
  window, nothing that landed may be lost, and the tables must follow.
* **Worktrees.** Ownership is an `flock`; sweeps of orphans race with adds.
  Uncommitted work must be saved before a checkout goes, and a live worktree
  must not be swept.
* **Scheduling and agents.** Waves of tasks with overlapping parcels retry on
  denial; leases must be given back on every path.
* **Hooks.** The server may be absent; fail-open and fail-closed depend on a
  stamp that can be stale.
* **Gate.** It picks tests by the import graph and must not skip one that the
  merge breaks; it runs under `integrate_lock` and must come back whatever the
  tests leave behind.
* **Servers.** Two processes may start on one repository, or on one database;
  recovery takes every open row for an orphan and may only do so when no other
  process is at work.

`PROJECT.json` lists each hazard at its line with the properties that cover it.

## 2. The modules

| module | models |
|---|---|
| `ParcelLock` | abstract: each parcel is a readers/writer lock over claims (agent, mode) |
| `Leases` | the lease table, statement by statement, with reapers, retirement, clock and crashes |
| `LeasesProofs` | theorems about `Leases` |
| `MCLeases` | TLC instances of `Leases` |
| `AtomicTrunk` | abstract: a trunk that only ever lands gated merges |
| `Integrator` | `/integrate`, `/index`, rollback and startup reconciliation with crashes and failures |
| `IntegratorProofs` | theorems about `Integrator` |
| `MCIntegrator` | TLC instances of `Integrator` |
| `Worktrees` | the worktrees of agents: ownership by `flock`, the orphan sweep, removal, parking, and a run's way through them |
| `MCWorktrees` | TLC instances of `Worktrees` |
| `WorktreesProofs` | theorems about `Worktrees` |
| `Fleet` | a broker run over the abstract lease table: waves, the agent's acquire-edit-submit-release path, its retries, heartbeats and failures |
| `FleetProofs`, `MCFleet` | theorems about it, its TLC instance |
| `Board` | the rows of the blackboard under reports, integrates and rollbacks, and the agents that plan against them |
| `BoardProofs`, `MCBoard` | theorems about it, its TLC instance |
| `ImpactGate` | one `run_impact_tests`: the walk, the selection, the child process |
| `ImpactGateProofs`, `MCImpactGate` | theorems about it, its TLC instance |
| `Startup` | server processes coming up and going down: lock, database file, schema, binding, recovery |
| `StartupProofs`, `MCStartup` | theorems about it, its TLC instance |
| `Hook` | editor sessions: pre-check, edit, report, release, the contact stamp |
| `HookProofs`, `MCHook` | theorems about it, its TLC instance |

Definitions named `...Skipped`, `...OffByOne` and the like, each under a comment
that says *Mutant*, are plausible wrong versions of the definition after them.
Nothing uses them. `PROJECT.json` pairs every property with one of them: with
the wrong version in place TLC finds the property violated, so the property
does say something about the code.

### Leases

`leases`, `parcels`, `lastId` are the tables; `req[s]` is the request that
client thread `s` has in flight and `pc` the statement it is about to run;
`reaper[r]` is a reaper's pass; `ended` the `released` and `reaped` events. An
agent may have several threads (`Owner`), which is what the cap and the
duplicate rows are about.

| code | actions |
|---|---|
| `acquire` | `Refresh` (UPDATE of the caller's own live rows, after the shape check of the id), `Count` (quota), `EnsureParcel`, `Insert` (compare-and-set INSERT, foreign key) |
| `heartbeat` | `Heartbeat` |
| `release` | `SelectLease`, `ReleaseLease`, `EmitReleased` |
| `reap_once` and its loop | `ReadClock`, `Reap`, `EmitReaped`, `PassFails` |
| `run_index`, `retire_rows` | `Index`, `Retire` |
| time, death, a failing statement | `Tick`, `Crash`, `Fail` |

SQLite evaluates `_NOW_SQL` inside the statement, so `now` is read in the step
that uses it; `reap_once` reads Python's clock before its UPDATE, so that
reading is a step of its own and may be stale by the time it is used, or up to
`Skew` ahead. Denials and conversions of requests change no state and are the
disjuncts that go back to `Idle`. Audit events nobody's correctness depends on
(`lease_granted`, `lease_denied`) are left out.

### Integrator

A tree (commit) is the set of branches merged into it: the properties only ask
what has landed and what the gate passed. `parcelsOf[p]` and `contractsOf[p]`
are the trees the two rows of a parcel were last derived from: `run_index`
writes the rows of what it finds in a tree (`Holds`, `Freezes`) and never
removes one, so a row may outlive the tree it came from. `open` is the
`open_integrations` table, `log` the events that end an integrate, and those
(`failed`) that announce a reconciliation that will be retried, `lock` is
`integrate_lock`, `call[w]` the call in flight, `post[i]` a `POST /index`,
`server` the progress of startup reconciliation. `passed` is a history
variable: the trees on which a gate run was green.

| code | actions |
|---|---|
| `post_integrate` | `Arrive`, `TakeLock`, the release in `Return` |
| `integrate` | `Decline` (stale read dependency, unknown ref), `Start`, `Merge`, `Gate`, `IndexParcels`, `IndexContracts`, `Merged`, `Finish` |
| `_reject_and_reset` | `Rollback`, `ReindexParcels`, `ReindexContracts`, `Rejected` |
| `post_index` | `PostIndex`, `PostParcels`, `PostContracts` |
| lifespan, `reconcile_orphaned_integrations` | `Crash`, `ReconcileGit`, `ReconcileRecord`, `Serve` |

Git commands, gate runs and SQLite transactions are atomic; a crash can fall
between any two. Which failures beyond crashes, red gates and merge conflicts
happen is the constant `Faults`: `reset` (a rollback's `git reset` fails),
`reindex` (the re-index after a rollback fails), `verdict` (a verdict
transaction raises, for instance after the 5 s busy timeout), `reconcile` (the
repository is unreachable at startup). `Finish` has the retirement of rows after
a merge, which may take any row of what the new trunk does not have: which ones
is `Board`'s question.

### Worktrees

`dirs`, `dirty`, `heads`, `commits`, `saved` are what Git holds: directories
under `.worktrees/`, the uncommitted edits in them, branches, the edits
committed on them, and the edits that a `rejected/` ref or the trunk keeps.
`file[n]` is the inode of the lock file beside worktree `n`, `locked` the
inodes somebody has an `flock` on, `owned` the `_OWNED_LOCKS` table of every
process. An `flock` belongs to an open file, so unlinking a lock file and
creating it again makes another inode: two processes can each hold "the" lock
of a name, which is why the inode is in the model. Threads live in processes
(`HostOf`), because `_OWNED_LOCKS` is per process and a death takes all the
threads of a process with it. `dropped` is a history variable: edits the owner
of a name gave up by contract (a leftover of its own name, a failed commit).

| code | actions |
|---|---|
| `prune_orphan_worktrees` | `Add` (the listing), `Candidate`, `Claim`, `Close`, `Unclaim` |
| `_discard_orphan_worktree` | `Save`, `Park`, and `Unlock` to `Delete` |
| `remove_worktree` | `Unlock`, `Unlink`, `Remove`, `Delete` |
| `_prune_stale_worktree` | `PruneDir`, `PruneBranch` |
| `_acquire_worktree_lock`, `add_worktree` | `OpenLock`, `Lock`, `WorktreeAdd` |
| `run_agent`, `_cleanup_worktree` | `BackOff`, `Edit`, `Commit`, `GiveUp`, `Submit`, then the removal |
| a process dies | `Crash` |

Git commands and system calls are atomic. `Faults` names the failures: `add`
(`git worktree add`), `commit` and `park` (the sweep's commit, the new ref),
`status` (`git status`).

### Fleet

The lease table is `claims`, the state of `ParcelLock`, whose `Claim` and
`Compatible` the module uses: what `Leases` is proved to implement is what
`Fleet` builds on. `job[t]` is the thread that runs task `t`: where it is, the
attempt, the parcels still to lease or give back (`todo`), those leased
(`got`). An agent id is `<<task, attempt>>`, as the broker composes it. `pending`
are the tasks whose caller gave up on `/integrate` or died while the server is
still at work. `landed` (how often the work of a task reached the trunk),
`lost` (ids a lease or release call of which failed) and `cut` (leases that
ended under an attempt that goes on) are history variables. `Deletes` are the
files a landed merge, anybody's, may delete: `retire_rows` then deletes the
leases on them whoever holds them, and the parcel is free again. Every lease is
a write lease: at file granularity a frozen parcel changes no mode. The
cap on an agent's leases is in `Leases` only.

| code | actions |
|---|---|
| `schedulable`, `group_schedulable` | `Schedulable`, `Wave` |
| `run` and its thread pool | `Dispatch`, `Die` |
| `_run_task_with_retries`, `_run_task_contained` | `Retry`, `Conclude` |
| `run_agent` | `Plan`, `Acquire`, `BackOff`, `Work`, `Submit`, `Integrate`, `Release`, `Contain` |
| `_SerializingIntegrateClient` | `mutex` |
| `_Heartbeater`, the time-to-live | `Alive`, `Lapse` |
| a merge that deletes a file | `Retire` |
| the server, once its caller gave up | `LandsLate` |
| agents of somebody else | `RivalClaims` |

`Faults`: `call` (planning calls raise), `lease`, `release`, `reply` (an answer
of that endpoint is lost or an error, whatever happened to the state), `git` (a
`GitOpsError`, the one that is retried), `work` (any other exception), `stall`
(an agent misses its heartbeats for a whole time-to-live). With `reply` the
caller goes on and gives its leases back, and the server lands the branch or
rejects it at any later time.

### Board

`Integrator` says of a row which tree it was derived from; `Board` has what is
in it. A parcel is a symbol, or the module parcel of a file, which stands for
the file being there. A tree is a set of patches, one per agent; a patch edits
parcels, adds some and removes some, so a file or a symbol can come and go, and
a rejected merge can leave behind rows of what it had added. The hash of a
parcel is the set of patches that edit it. A symbol is a frozen contract in the
trees `Shared` names: blast radius and dependents in other modules depend on
the whole tree, so a merge can freeze or thaw a symbol of a file it does not
touch. Module rows are also written by agents (`/parcel/update`). `agent[a]` is
a run: what it planned against, the tree its worktree was cut from, the hash it
reported. `call` is the integrate that runs; its `snap` has the contracts of
the changed files only, as `_snapshot_touched_contracts` does. `seen`, `quiet`,
`told` and `kept` are history: what the trunk held of the read-dependency at
plan time, whether an integrate was running then, the signatures a reader of
the `contract_change` events knows, and the symbols every verdict so far has
left frozen.
`run_agent` pins no `base_commit`, so the read-dependency re-check is the only
guard against stale planning.

| code | actions |
|---|---|
| `run_agent` | `Plan`, `Lease`, `Fork`, `Report`, `GiveUp`, `Release` |
| `post_parcel_update` | `Report` |
| `_check_read_deps` | `NeedsRebase`, and the guard of `Start` |
| `integrate` | `Merge`, `Gate`, `Merged`, `Announce`, `Retire` |
| `_snapshot_touched_contracts`, `run_index`, `_diff_contract_changes` | `IndexParcels`, `IndexContracts` |
| `_reject_and_reset` | `Rollback`, `ReindexParcels`, `ReindexContracts`, `Rejected` |
| a lease expires | `Lapse` |

`Report` is one step although the handler runs several statements: its UPDATE
repeats the ownership test, so what the earlier SELECTs saw decides only the
wording of a refusal. `Faults`: `index` (the re-index of a merged tree fails,
or the diff after it), `agent` (a run fails in its work phase). `Lapses` are the
files whose lease may lapse under its holder.

### ImpactGate

A file is a value; what the gate reads in it are its imports, the stems a test
mentions, and whether it parses. The source of an import may be the name of no
file of the repository (a namespace package, a path below an unknown source
root): `build_graph` drops it, while Python may find a file by it. Importing a
file runs the `__init__` of its packages (`Packages`) too, for which the graph
has no edge either. `Found` is what Python finds, `Resolved` what the graph
has. `tree` is the merged tree with the tests that fail on it (`red`), any that the merge could have broken: the trunk was green
before, so a test fails only if it, something it leans on however indirectly,
or something it names was touched (`MayFail`). `visited`, `affected`, `queue`
are the locals of `_reverse_dep_files`; `pytest` is the child and `holder`
tells whether a descendant outside its process group has the gate's pipes.

| code | actions |
|---|---|
| `index_repo`, `build_graph` | `Indexed`, `Resolved`, `ReverseEdges` |
| `_reverse_dep_files` | `Start`, `Walk`, `Walked` |
| `run_impact_tests`, selection | `Select` (`Selected`, `ToRun`) |
| its child process | `Spawn`, `Communicate`, `TimeOut`, `Drain` |
| the tests | `Daemonise`, `DaemonEnds`, `TestsExit` |

`Faults`: `index` (the graph cannot be built: `IndexLimitError` and the like),
`spawn` (the interpreter cannot be started). The call edges of
`_link_call_edges` go where an import of the same file goes, or stay inside the
file, so that at the granularity of files they add nothing.

### Startup

`at` is the file a database path leads to, `file` what is in each file (schema
and stamp, managed root, open integrates), `flock` the lock under `.git`,
`trunk` the un-gated merges on each trunk, `proc` the server processes. A start
is nine steps; a process may die between any two, and the kernel then drops its
lock. `--fresh` moves a file from under its path while connections to it stay.
A death between its three renames (`RotateDies`) leaves the write-ahead log
behind, and the rows that were only in it are lost. `faults` counts the
recoveries and verdicts in which a `git reset` or a transaction failed:
the code then keeps the row and counts the attempt, or abandons it after
`MaxAttempts`, or ends the pass over the rows, and the server serves all the
same; a rejection whose reset failed deletes its row. `strays` is history: the
merges whose own rollback failed, or whose row went with a log.

| code | actions |
|---|---|
| `serve.main` | `Launch`, `Probe`, `Unprobe`, `Rotate`, `RotateDies` |
| `init_db` | `Open`, `Create`, `Stamp` |
| lifespan | `Acquire`, `Bind`, `Reconcile`, `Stop` |
| `/integrate`, in outline | `Integrate`, `Verdict` |
| death | `Crash` |

A verdict takes the merge off the list of un-gated ones (it was green) or
restores the trunk from before, or fails to. Rows are rolled back oldest first,
so after a boot the trunk is what the newest one restores (`RolledBack`). With
`Careful`, `--fresh` is given only for a path that no process has; the code asks
for less, see section 5. A linked worktree or submodule has no lock (`Lockable`), as `lock_path_for` says.

### Hook

Sessions edit one shared working tree. An invocation is a process of its own;
`agent[a]` is the one that `a` waits for. The lease table is the abstract one
(`claims`, with ticks `left`), `row` the content hash of each parcel's row,
`file` the texts, `stamp` the contact stamp (torn while it is rewritten,
`write_text` truncates first). `Target` is the file a path resolves to, so a
symbolic link is a second name of one file. A call is answered; or it raises
and never arrived; or it raises and is served later (`late`, `Deliver`), in any
order with the others, or never. A session start posts `/index`: the server
reads file after file and then writes all the rows it has hashes for, whoever
holds what, also when the hook has given up on the call (`GiveUp`). `index[a]`
is the one `a` has started: what it read of every file, and which files were
edited after it read them. `heard`, `editor` and `told` are history.

| code | actions |
|---|---|
| `cmd_session_start`, `post_index`, `run_index` | `SessionStart`, `IndexFile`, `IndexEnds`, `GiveUp` |
| `cmd_precheck`, `_maybe_fail_closed` | `Ask`, `Precheck`, `Decide` |
| the tool | `Edit` |
| `cmd_postupdate` | `Get`, `Keepalive`, `Look` (the file is looked at up to three times), `Report` |
| guard script, `cmd_release` | `Stop`, `List`, `Release` |
| `_ContactRecordingHttp`, `_record_contact` | `Stamps`, `Stamp` |
| time, late requests | `Tick`, `Deliver` |

An agent may stop acting at any point, which is what a killed session or hook
process does. The cap on leases is in `Leases`.

## 3. The runs

| run | shows |
|---|---|
| `leases_race` | two threads of one agent and one of another race acquires, renewals and releases of one parcel: `MutualExclusion`, `RacesAreBounded`, `NoRevival`, and the refinement `ImplementsParcelLock` |
| `leases_ends` | releases, expiry and two reapers race: `EndsOnce`, `EndsForCause`, `LapsedIsReaped` |
| `integrator_safe` | crashes at every step, no failing command: `TrunkGreen`, `MergedStays`, `BoardFollowsTrunk`, `RowCloses`, `RequestEnds`, and the refinement `ImplementsAtomicTrunk` |
| `integrator_faults` | every kind of failure, `/index` in parallel: `RowOrVerdict`, `OwnMergeOnly`, `MergedWasGated` |
| `integrator_reset` | violation, section 5 |
| `worktrees_sweep` | threads of a broker and of another process add, sweep, remove and die: `SweepSparesLive`, `NothingLost`, `WorkingIsOwned` |
| `worktrees_rerun` | violation, section 5 |
| `fleet_run` | three tasks whose files overlap, a rival for the leases, a file that merges delete, two failing calls, answers that come too late, a broker that may die: `WorksAlone`, `NothingLeaks`, `ResultsTruthful`, `DeniedByOthers`, and the liveness of `run` and of the leases (`RunEnds`, `LeasesEnd`) |
| `board_rows` | three agents plan, report, land, conflict, are rejected and run again; one adds a file, one removes a symbol, one deletes a file: `LandsOnPlannedDep`, `BouncedForCause`, `RowIsTrunkOrReport`, `SubscribersUpToDate`, `GhostsRetired` |
| `gate` | every tree over five files, every merge, imports the graph drops, failing indexing and processes that keep the pipes: `WalkExact`, `GreenMeansGreen`, `GateEnds` |
| `startup` | three processes, two repositories on one database path, five starts, deaths at any step, rollbacks and transactions that fail: `OneServerPerRepo`, `LiveMergesStand`, `OnlyRotatedOrphans` |
| `hook` | two sessions, the index each start runs, and one file with two names, calls that fail or come late: `EditsAlone`, `RowTellsFile`, `StopReleases`, `DecisionsForCause` |

**Bounds.** `leases_race`: one parcel (a statement touches the rows of one
parcel only, except the quota, which counts an agent's rows whatever their
parcel), three threads of two agents, a cap of 1 so that the quota binds, two
lease rows, time 0..2 with a time-to-live of 1, so that a lease can be renewed,
lapse and be granted again to somebody else. `leases_ends`: one thread per
agent, two reapers with stale clocks; exclusive leases. `integrator_*`: two
branches, which may be handed in again, two concurrent requests where the lock
matters, three starts and two crashes: enough for a crash during the recovery
from a crash and for an integrate between two boots; `integrator_faults` has
two starts because of its many outcomes. Two parcels: one every tree has and
whose contract a merge thaws, one a branch adds and the other removes.
`MaxAttempts` is the code's `MAX_RECONCILE_ATTEMPTS`, 5 there and 2 where
reconciliations fail, so that the abandonment of an orphan is reached in the
bound. `worktrees_sweep`: two
threads of one process and one of another, three names that are each used once,
two edits, two deaths: a sweep in each process while a third worktree is at
work, and a sweep after the death of a sweeper. `fleet_run`:
the second task shares a file with the first and the third, so there are two
waves and a real pool; two threads, two attempts, two failing calls (a lost
release and a failure of the retry), one rival, merges that delete the file
the first two tasks share; every failure but `stall`, whose effect on a lease is
that of a deletion. `board_rows`: `a1` edits a file `f1` and its symbol
and adds a file with a symbol, `a2` removes the symbol of `f2`, `a3` deletes
`f1`; their read-dependencies cross; `a2` thaws the symbol of `f1` and `a1`
freezes that of `f2`, each without touching the other's file; the lease on `f1`
may lapse; the first may run twice, which makes a rejected branch be handed in
again. No patch adds again what another removed. `gate`: a chain of imports by
different symbols, a cycle, a submodule imported by name from its package and
past it, an import by a name that is no file's, two tests; every subset of
these imports and of the stems the tests may mention, seven change sets.
`startup`: three processes (one serves, one starts, one probes), three database
files (two rotations), five starts, two integrates, two failures and two
attempts, so that a row is kept, retried and abandoned. `hook`: three turns in
all, of which a session start counts for two, so that an index runs next to an
edit and its report; one late request, a time-to-live of two ticks, a window of
one; two texts, one of which does not parse. `MaxTime`, `MaxId`,
`MaxStarts`, `MaxCrashes`, `MaxWork`, `MaxInode`, `MaxFailures`, `MaxRuns`,
`MaxFiles`, `MaxLaunches`, `MaxMerges`, `MaxFaults`, `MaxTurns` and `MaxLate`
are bounds on exploration and stand for nothing in the code; the proofs hold
for any value of them.
Deadlock checking stays on for `Leases`, `Integrator` and `Hook`, where an idle
server can always be called or crash, or time passes. It is off for
`Worktrees`, `Fleet`, `Board`, `ImpactGate` and `Startup`: with every name
used, every run over, the verdict given or every start spent, nothing is left
to do. The type invariants are proved for all eight components.

**Fairness.** `Leases`: the reaper's loop takes its next step (weak), and its
UPDATE, which may fail and be retried by the next pass, does not fail for ever
(strong fairness of `Reap`); nothing makes clients act. `Integrator`: a running
handler and a booting server take their next step, and `asyncio.Lock` is first
come first served, hence strong fairness of `TakeLock`; clients and crashes are
not fair. `Fleet`: each thread of a live broker takes its next step, and a
claim nobody renews lapses; rivals, failures and the broker's death are not
fair. `ImpactGate`: the gate's own code and its timers go on; the tests
owe it nothing. `Worktrees`, `Board`, `Startup` and `Hook` have safety
properties only, and no fairness.

## 4. The proofs

`LeasesProofs`, from `LeasesAssumption`, for any number of agents,
threads, parcels and reapers and any clock skew:

* `Typing`: `Spec => []TypeOK`.
* `Exclusion`: `Spec => []MutualExclusion`. Mutual exclusion is inductive given
  the types: `StepContinues` shows that every row live after a step other than
  an insertion continues a row that was live before (an UPDATE only ever
  renews rows that are live on the statement's own clock), and `InsertGrants`
  that an insertion saw no conflicting live row.
* `DeadStaysDead`: `Spec => NoRevival`, from `UniqueIds` (a lease id names one
  row; ids are never reused) and `StepContinues`.
* `Refinement`: `Spec => ImplementsParcelLock`, mapping a parcel's claims to
  its live rows: an insertion is a `Claim`, a tick, a release, a reaper pass
  and a retirement are an `Unclaim`, everything else stutters.
* `OneEndEach`: `Spec => []EndsOnce`. `EndInv` counts for each id what `ended`
  says of it, the release and the reaper about to announce it: one at most, and
  none while its row is active, since only the UPDATE that takes a row out of
  `active` makes one.
* `RacesBounded`: `Spec => []RacesAreBounded`. In `RaceInv` a request that
  passed the COUNT is paid for by the slot it runs on, and an insertion only
  exchanges the slot for the row.
* `OwnersEndLeases`: `Skew = 0 => (Spec => EndsForCause)`, since then a cutoff
  read before is never ahead of the clock a row lives by (`ClocksAgree`).

`IntegratorProofs`. Under `IntegratorAssumption`, whatever fails: `Typing`,
`OwnMerge` (`[]OwnMergeOnly`) and `OnlyGatedMerges` (`MergedWasGated`). The
invariant is `GateInv`: the types, `LockDiscipline` (only the holder of the
lock is past `queued`, and nobody runs while the server boots), and
`JudgedTree` (from the merge to the verdict the trunk is what the call started
from plus its branch, and after a green gate a tree that passed). `OneVerdict`
(`[]RowOrVerdict`) holds whatever fails too: `Accounted` says the same of
single rows and the events that end them (a `failed` event ends nothing), and
`RowsHeld` that a call or a reconciliation about to write a verdict still has
the row it closes. `BoardFollows` (`[]BoardFollowsTrunk`) assumes
`Indexers = {}` and that neither `reset` nor `reindex` fails. `Following` says
that every parcel of the trunk has the trunk's row and every contract frozen in
it the trunk's, and `Derived` at which step of a call each half holds; of rows
the trunk does not have it says nothing, as they may be anything. Without the
assumptions it is false (section 5). Under
`Reliable` (`Faults \subseteq {"reindex"}`: resets, verdict transactions and
reconciliations do not fail; crashes, conflicts, red gates, failing indexing
and `/index` are all there): `GreenTrunk` (`[]TrunkGreen`), `NothingLost`
(`[]MergedStays`) and `Refinement` (`Spec => ImplementsAtomicTrunk`). The
invariant `TrunkInv` adds `RowsOfCalls` (at most one row is open, and it is
that of the running call or of the orphan being recovered), `RolledBack` and
`Green` (what an open row would restore is a gated tree that holds everything
that landed). Without `Reliable` the three are false: section 5.

What the two abstractions promise is proved next to the refinements
(`Promise` in `LeasesProofs` for the instance of `ParcelLock`, in
`IntegratorProofs` for that of `AtomicTrunk`), which carry it over.

`ImpactGateProofs`, from `GateAssumption` (finitely many files), for any
repository. `WalkIsExact` (`[]WalkExact`) rests on the invariant `WalkInv` of
the worklist: what is affected is reached from a seed, and what is off the
worklist has its dependents on it or behind it. `GreenIsGreen`
(`[]GreenMeansGreen`) has no assumption. The property itself speaks of the trees
whose dependencies the graph has (`GraphSeesAll`): tests take from other files
nothing but imports, no merge breaks or removes a source file, every import is
of a file of the repository and of no test, no symbol hides a submodule, and
who imports a file of a package imports from the package too. The argument is
`FoundIsResolved` (under these what Python finds is what the graph has) and
`AffectedCoversDownstream` (the closed set the walk ends with contains
everything that leans on a changed file); `SelectionInv` carries it to the
verdict. Of other trees it is false: section 5.

`StartupProofs`, from `StartupAssumption`. `OneServer`: the lock of a
repository is held by whoever is past `Acquire`, an inductive fact that needs
nothing about databases. `LiveStands` (`[]LiveMergesStand`) assumes `Careful`;
its invariant `BootInv` says which file a process's connections, its binding and its row
are in: a path leads to one file as long as some process is on it, so a second
server on that path reads the binding of the first and is refused unless the
root is the same, where the lock stops it (`PathsApart`: no file is at two
paths). `OrphansRolledBack`
(`[]OnlyRotatedOrphans`) assumes also `OneDatabase`: every start of a lockable
repository names one database path (with two, the second server never sees the
rows of the first). Its invariant `OrphanInv` adds that every un-gated merge has its row or an
excuse (`Traced`; `Excused` is a stray, or a merge whose database was moved
aside), that what a row would restore holds no other un-gated merge without one
(`LostBefore`), that merges are numbered in the order of their rows and have
their rows in one file (`Dated`, `RowsApart`: the newest row's reset is the one
that stands), and that a row in the database of a server is that of its own
open integrate, of a stray, or of a merge off the trunk (`Served`, by `Told`). The
run's instance satisfies both assumptions.

`HookProofs`, from `HookAssumption`, for any number of sessions and files.
`HookInv` has seven parts: the types, `Alone` (a parcel has one lease at most),
`Leaves` (what an agent that is leaving still holds is on its list to release,
and no request of its own for a lease is under way), `Contact` (a stamp that is
not torn tells the last contact), `Seen` (what the last editor of a file saw is
still what is there), `Told` (the row of a told file is right, and no report
under way can change it) and `Fresh` (what an index has read of a file is what
is there, unless the file was edited since). `EditorsAlone`, `RowsTell` and `StoppedHoldNothing`
are consequences, `ForCause` (`DecisionsForCause`) is an action property from
`Contact`.

`WorktreesProofs`, from `WorktreesAssumption`, for any number of runs, sweeps,
processes, edits and deaths. `Typing` needs nothing more. The three others
assume that a name is used once (`~Reuse`; `worktrees_rerun` in section 5 shows
what happens otherwise). `OwnInv` is their invariant. Its heart is `Owners`:
the file of an agent at work is there, and its process has that very inode
locked. It needs `Inodes` and `Apart` (an inode belongs to one name, so nobody
closes or unlinks it on another's account) and `Blank` (a name has no file and
no worktree before its run makes them). `Orphaned` follows at the `flock` of a
claim: a sweep past it is at a name nobody works under, and with names used
once nobody ever will. `WorkersOwn` and `LiveSpared` are consequences.
`NoEditLost` assumes also that `git status` does not fail, and adds `Clean`:
what a sweep, or a run that landed, is about to take away holds no edit that is
not elsewhere.

`FleetProofs`, from `FleetAssumption`, for any list of tasks and any number of
threads, attempts, rivals and failures. `WavesShareNothing` says that
`group_schedulable` does its job: a task joins the first wave none of whose
tasks it shares a file with, so no two tasks of a wave share any.
That is a fact about a recursive function of the task list; it is proved
without an induction theorem, by taking the first task that would break it
(`Least`, from the well-foundedness of the naturals). `UsesLock`
(`Spec => Lock!Spec`): whatever fails, the fleet changes the claims only as
`ParcelLock` allows, and `Leases` implements `ParcelLock`, so the two meet at
the abstract lock. `FleetInv` is the invariant. `Single` (a parcel has one
claim) is the lock's promise for write leases; `Books` relates the lists of an
attempt to what its task declared; `Debts` says that all an attempt holds is on
the list it will give back, unless one of its own calls failed; `Truth` relates
what landed, and what the server has yet to end, to where the task is and to
what was recorded; `InTurn` that a wave
starts when those before it are over. `LeasesReturned` (`[]NothingLeaks`) needs
`Debts` at the step that ends an attempt: the list is empty, so nothing is
held, and the id of the next attempt is new or has failed calls on its account.
`Truthful` (`[]ResultsTruthful`) is `Truth`. `NoSelfDenial` (`DeniedByOthers`)
puts `Debts`, `Books`, `InTurn` and the waves together: a claim that denies is
of a live task of the same wave, which declares nothing in common, or of
somebody else. `AgentsWorkAlone` (`[]WorksAlone`) has no assumption either:
`Holding` says that an attempt keeps each of its leases unless it was cut from
under it, by a deletion that landed or by a missed time-to-live, and `Single`
makes what it keeps its own.

`BoardProofs`, from `BoardAssumption`, for any agents and files and whatever
fails. `BoardInv` says what every table holds at every step of an integrate,
relative to `Base`, the tree the last verdict left: `Running` (which tree is in
the checkout at which step) and, parcel by parcel, `Listed` and `Contract`.
`Row`: the row of a parcel the base has is the base's up to the transaction
that rewrites it, the trunk's from there to the verdict, and unknown while a
failed call is being undone; it may also be a report, but after the re-index
not one of the call's own agent. `Ghosts`: a file that the base has deleted
is in no table. `Signed`, `Retired`, `Compared` and `Heard` say the like of
contracts: which tree's signature, gone with its symbol, in the news if it
changed in a file the branch changed and stayed frozen, and told. `RowsTold`,
`Subscribed` and `NoGhosts` are what is left of it between calls. The steps
that carry the argument are `IndexContracts` (a file unchanged between the base
and the branch has in the merge the signatures it had: `SameSignature`) and
`Retire` (what is gone from the merge and was in the base has changed, since
the branch must hold the removal: `RemovedWasThere`; what was not is in no
table already). The actions of agents are treated alike: each is an `Aside`.
`SymbolDeps` states the optimistic re-check for agents that depend on a symbol
(`SymbolReaders`), whatever the others depend on, its invariant `Planned` being
that a plan is of the trunk of its time, and that the row it is compared with
is of the trunk at hand; `PlannedDepLands` (`LandsOnPlannedDep`) and
`CauseToBounce` (`BouncedForCause`) follow when every read-dependency is a
symbol, which section 5 shows to be needed: module rows carry reports of code
that has not landed, and may never land. What none of them says is anything of
a symbol that is gone from a file that is still there (section 5).

Model-checked only: the liveness properties (`LapsedIsReaped`, `RequestEnds`,
`RowCloses`, `GateEnds`, `RunEnds`, `LeasesEnd`), which rest on fairness and
`ENABLED`. Every safety property of the passing runs is stated by a theorem,
some under the assumptions named above.

## 5. Where the code and its promises differ

* `integrator_reset`. `_reject_and_reset` deletes the row of a rejection also
  when its `git reset` has just failed (`integrator.py:343-346`, `391`): the
  un-gated merge stays on the trunk and no restart can find it.
* `worktrees_rerun`. `add_worktree` never asks for the `flock` a sweep holds:
  a lock file that is taken is logged and ignored, one that is unlinked is
  created anew. Between the claim of an orphan and its `git worktree remove`
  the same name can be added again, by a rerun of the tasks, and the remove
  deletes the new, live worktree. `git_ops.py:487-491` says of this race that
  it degrades "to leaking, never to deleting a live worktree".
  `worktrees_sweep` is about names that are used once (`Reuse = FALSE`).

These two have runs. The following are visible in the models and can be seen
by opening the constants named.

* A failing reconciliation is retried too late. Startup reconciliation that
  cannot reach the repository keeps the row and the server serves all the same
  (`integrator.py:788`). Integrates land; the next boot retries the row and
  resets the trunk to the old commit: branches with a merged verdict are gone.
  Every such boot also writes an `integrate_orphaned` event, so an integrate can
  have several (`Ends` leaves out those that failed).
  The comment at `integrator.py:789-793` describes this data loss as what must
  not happen. `MergedStays` fails in `Integrator` with one worker,
  `Faults = {"reconcile"}` and three starts and crashes.
* `POST /index` takes no lock (`app.py:513-524`): it can parse the checkout
  while an un-gated merge is on it and commit after the rejection has
  re-derived the tables, the "phantom hash" `integrator.py:348-359` re-indexes
  against. `BoardFollowsTrunk` fails with `Indexers = {i1}`, no faults and no
  crash.
* Reports before the verdict. `run_agent` posts the hash of its edited module before
  `/integrate` judges the branch (`app.py:785`). An agent that plans in between
  snapshots that hash, cuts its branch from the old code, and lands: the row
  still holds what it planned against, the trunk never did. `app.py:719-725`
  requires a lease for the post so that no update clears "a snapshot a later
  merge then validates against state that never landed"; the rightful holder's
  own post does. Symbol rows are never reported. `LandsOnPlannedDep` fails in
  `Board` with the file `f1` for the `Reads` of `a2` and no faults.
* Rows that outlive their code. `run_index` never prunes, and a merge retires
  parcel rows only of whole files that are gone (`integrator.py:548-557`). A
  symbol removed from a file that stays keeps its row and hash, and
  `_check_read_deps` sees nothing stale: a branch lands on a dependency that has
  vanished. A rejected merge whose first transaction had committed leaves the
  rows of what it had added. `LandsOnPlannedDep` and `RowIsTrunkOrReport`
  are therefore about what the trunk has, and about files; without
  `Exists(p, call.before) \/ ...` the first fails in `board_rows`.
* A contract change nobody hears of. `integrator.py:183-187` compares only the
  changed files' contracts, since an unrelated file's "cannot have changed".
  Its row can: a merge that lowers the blast radius thaws the symbol and leaves
  its old row; the signature changes while it is thawed, without an event; a
  merge of another file freezes it again, and writes the new signature without
  comparing. `SubscribersUpToDate` is about symbols that stayed frozen (`kept`).
* Work can land after its leases went back. A client that times out on
  `/integrate` goes on (`client.py:317-320`), releases, and reports `error` or
  `done` for a branch that the server lands later. And a landed deletion deletes
  the leases on the file under whoever holds them (`store.py:173-213`), as a
  missed time-to-live does; `/integrate` never asks whether the branch's leases
  still stand. `WorksAlone` excepts the leases in `cut`, and speaks of an attempt up to the
  answer to its `/integrate`; `ResultsTruthful` covers what lands after it.
* The selection is not the "strict over-approximation" of `gate.py:288-289`,
  which is why `GreenMeansGreen` is about the trees of `GraphSeesAll`. An import
  whose source is the name of no file of the index is dropped
  (`graph.py:250-251`), though Python may find a file by it (`from ns import
  user` of a namespace package); `from pkg.core import c` also runs
  `pkg/__init__.py`, for which there is no edge (`graph.py:233-247`). pytest
  hands the fixtures of a `conftest.py` to tests that import nothing from it. A
  file that is gone or does not parse has no parcels and is no seed
  (`gate.py:209`). In each case a test that the merge breaks is left out as soon
  as another one is selected; the docstring of `_reverse_dep_files` calls this a
  "real, narrowed answer". Without one of the conditions of `GraphSeesAll` (and with
  `Fixtures` or `Fates` set for the last two) `GreenMeansGreen` fails.
* `--fresh` and the window before the lock. `serve.py:166-169` calls the window
  between probe and acquire "harmless -- the acquire refuses regardless"; a
  `--fresh` start that is refused there has already moved the database of the
  server that came up in the window. That server's requests then go to a new
  file. `LiveMergesStand` fails with `Careful = FALSE`; `OneServerPerRepo` does
  not. The remedy `bind_managed_root` prints for a mismatch, `--fresh`
  (`db.py:277`), does the same to a live server of the other repository.
* Nested orphans. A rollback that fails at boot keeps its row, and the server
  serves with the un-gated merge A on its trunk. If B is merged on top and the
  server dies, the next boot resets A and then B, oldest row first, and the
  reset of B restores the trunk from before B: A is back, un-gated, and has no
  row. `integrator.py:684-720` calls recovery conservative and idempotent;
  `app.py:376-383` says it is the only thing that can detect such a merge. In
  `Startup` A is one of `strays`, without which `OnlyRotatedOrphans` fails.
* A death between the renames of `--fresh` (`serve.py:96-100`) leaves the
  write-ahead log without its database: rows that were only in the log are lost
  (`RotateDies`).
* A session start overwrites reports. Its `POST /index` (`adapter.py:646-656`)
  writes `content_hash` of every file it has read, at some earlier moment,
  without asking for leases (`app.py:513-524`, `store.py:99-134`). A file that
  another session edited and reported in between gets its old hash back, and a
  reader takes the edit for never made. `RowTellsFile` leaves such files out
  (`old`); if `IndexEnds` left `told` alone, it would fail in the `hook` run.
* Orphans in a database that was moved aside stay on the trunk for good (the
  exception in `OnlyRotatedOrphans`), as with a restart on another `--db`;
  `docs/DESIGN.md:443` names only leases and pheromones as lost.
* A server killed between the schema script and its stamp (`db.py:195-196`)
  leaves a database every later start refuses as one that "predates schema
  versioning".
* A report that its hook gave up on may be served after a later one, and the
  row then tells of an older text (`told` excludes this in `RowTellsFile`). A
  stamp that is being rewritten, or was left torn, reads as no contact, and a
  failed precheck lets the edit through (`DecisionsForCause` says so).
* The docstring of `adapter.main` (`adapter.py:965-968`) says that a deny is
  never printed by its except clause; since `_maybe_fail_closed` it is.

With `verdict` failing, a row outlives its call in a serving process and the
next boot takes it for an orphan. `docs/DESIGN.md:444` promises that a restart
re-runs the classifier; startup never calls it, which is why
`BoardFollowsTrunk` is stated for a server that has not crashed. In the lease
table, `reaper.py:106-109` says a reaped lease was already re-acquirable; with
Python's clock ahead of SQLite's by the 2 s `serve.py` tolerates it may not be
(`Leases` with `Skew > 0`), which is why `EndsForCause` is checked and proved
with `Skew = 0`; mutual exclusion is proved for every skew. `git_ops.py:384` takes a
failing `git status` for a clean worktree; the sweep then removes uncommitted
edits (`NothingLost` fails with `status` in `Faults`).

A worktree cut from the checkout during a gate inherits the un-gated merge
(`Fork` in `Board`), and its branch lands it if its own gate is green. A
failure between the merged verdict and the `contract_change` events loses the
events: the verdict and they are not one transaction. The retry
after a `GitOpsError` starts again at attempt 1, under ids whose leases may have
failed to be released, so a task can be denied by itself (`lost` in `DeniedByOthers`). And the five attempts of a denied task are over
in about a second (`broker.py:175-176`), while a stuck lease lasts 30.

## 6. Plan

The components that decide anything are modelled, and their safety properties
proved. What is left is a composition of `Startup` with the whole of
`Integrator`, in place of the outline of an integrate that `Startup` has.

## 7. Not modelled

Parsing and the contents of files (classifier, mutators), SQL text, HTTP
framing, logging, the CLI, configuration and the demo: no coordination state.
In `Integrator` the gate's verdict, merge conflicts and stale read
dependencies are nondeterministic outcomes (`ImpactGate` has the first, `Board`
the others); a tree is a set of branches, so a revert inside a branch is not
distinguished; the snapshot of `/index` is taken in one step (`Hook` reads it
file by file).

`blackboard/events.py`: the log is an audit trail. The events on which anything
depends are in the modules of the components that write them; compaction is one
statement that spares the starts of open integrates, decay is one statement,
and nobody reads either to decide. `ImpactGate` leaves out files that are not
Python, imports made at run time, and packages under a directory that is not on
their dotted name; a repository without a test directory runs everything.
`Fleet` starts where `run` dispatches: an exception of `load_scheduling_graph` or
`group_schedulable` ends the run before there is a wave. `Board` has no patch
that adds again what another one removed. `Hook` takes two links to one file
outside the repository for two files, as the code does, and leaves out hard
links, which no path tells apart. `Startup` leaves out the clock check, gives
every server of a root the same few paths, and takes managed roots to be apart,
although `app.py:288-290` accepts paths below one, a nested repository's too.

`PROJECT.json` lists every component with its status.
