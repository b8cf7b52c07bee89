-------------------------------- MODULE Board --------------------------------
(***************************************************************************)
(* What the blackboard says about the code, and who relies on it: the      *)
(* plan-time snapshot of run_agent (agent/runner.py), POST /parcel/update  *)
(* (server/app.py), the read-dependency check, the contract diff and the   *)
(* retirement of integrate (coordinator/integrator.py) over run_index and  *)
(* retire_rows (classifier/store.py).                                      *)
(*                                                                         *)
(* A parcel is a symbol, or the module parcel of a file, named after the   *)
(* file: its text outside functions and classes, which stands for the file *)
(* being there.  A tree is a set of patches, one per agent.  A patch edits *)
(* parcels, adds some and removes some, in files it has leased or not: a   *)
(* renamed symbol is one removed and one added.  The hash of a parcel is   *)
(* the set of the patches that made it what it is, a signature those that  *)
(* change the signature.                                                   *)
(*                                                                         *)
(* Crashes, failing rollbacks and POST /index are the business of          *)
(* Integrator and do not happen here.                                      *)
(***************************************************************************)
EXTENDS Naturals

CONSTANTS
  Agents,         \* one task each; a patch is named after its agent
  Files,          \* files, and their module parcels
  Symbols,        \* parcels of functions and classes
  Home,           \* the file of a symbol
  Writes,         \* the file whose module parcel an agent leases and edits
  Reads,          \* the parcel an agent declares as its read-dependency
  Edits,          \* the parcels a patch writes, those it adds among them
  Adds,           \* the parcels it adds
  Removes,        \* the parcels it removes
  Signs,          \* agents whose patch changes the signatures of its symbols
  Shared,         \* trees in which a symbol has the blast radius of a contract,
                  \* and dependents in other modules
  Lapses,         \* the files whose lease may lapse under its holder
  Nobody,
  Faults,         \* which of the failures below happen
  MaxRuns         \* bound: runs of every agent's task

Parcels == Files \cup Symbols
FileOf(p) == IF p \in Files THEN p ELSE Home[p]
New == UNION {Adds[a] : a \in Agents}

(* index: the re-index of a merged tree fails, or what follows it; agent:  *)
(* a run fails in its work phase.                                          *)
FaultKinds == {"index", "agent"}

ASSUME BoardAssumption ==
  /\ Files \cap Symbols = {} /\ Home \in [Symbols -> Files]
  /\ Writes \in [Agents -> Files] /\ Reads \in [Agents -> Parcels]
  /\ {Edits, Adds, Removes} \subseteq [Agents -> SUBSET Parcels]
  /\ \A a \in Agents : Adds[a] \subseteq Edits[a] /\ Removes[a] \cap New = {}
  /\ \A s \in Symbols : Home[s] \in New => s \in New
  /\ Signs \subseteq Agents
  /\ Shared \in [Symbols -> SUBSET SUBSET Agents]
  /\ Nobody \notin Agents
  /\ Lapses \subseteq Files
  /\ Faults \subseteq FaultKinds /\ MaxRuns \in [Agents -> Nat]

VARIABLES
  trunk,      \* the patches in the trunk checkout
  rows,       \* content_hash of a parcel
  contracts,  \* type_hash of the contract of a symbol
  holder,     \* who has the write lease on the module parcel of a file
  agent,      \* the run of every agent
  call,       \* the integrate that is running
  told,       \* the signatures a reader of the contract_change events knows
  kept        \* history: the symbols every verdict so far has left frozen

vars == <<trunk, rows, contracts, holder, agent, call, told, kept>>

Tree == SUBSET Agents
None == {Nobody}  \* no hash, no row
Hashes == Tree \cup {None}

(* plan: the hash of the read-dependency in the snapshot; seen, quiet:     *)
(* history, what trunk held of it then and whether no integrate ran; fork: *)
(* the tree the worktree was cut from; report: the hash the run posted and *)
(* no verdict has followed yet.                                            *)
Run == [pc : {"idle", "lease", "fork", "report", "submit", "release"},
        plan : Hashes, seen : Hashes, quiet : BOOLEAN, fork : Tree,
        report : Hashes, runs : Nat]

Free == [step |-> "free"]
Call == {Free} \cup
        [step : {"merge", "gate", "parcels", "contracts", "verdict", "announce",
                 "retire", "rollback", "reparcels", "recontracts", "reject"},
         agent : Agents, before : Tree, snap : [Symbols -> Hashes],
         news : SUBSET Symbols]

TypeOK ==
  /\ trunk \in Tree
  /\ rows \in [Parcels -> Hashes]
  /\ contracts \in [Symbols -> Hashes] /\ told \in [Symbols -> Hashes]
  /\ kept \in SUBSET Symbols
  /\ holder \in [Files -> Agents \cup {Nobody}]
  /\ \A f \in Files : holder[f] # Nobody => rows[f] # None
  /\ agent \in [Agents -> Run] /\ \A a \in Agents : agent[a].runs <= MaxRuns[a]
  /\ call \in Call

Patches(p, tree) == {a \in tree : p \in Edits[a]}

(* There: added, unless it was there from the start, and not removed.      *)
Gone(p, tree) == \E a \in tree : p \in Removes[a]
There(p, tree) == ~Gone(p, tree) /\ (p \in New => \E a \in tree : p \in Adds[a])
Exists(p, tree) == There(p, tree) /\ There(FileOf(p), tree)

Hash(p, tree) == IF Exists(p, tree) THEN Patches(p, tree) ELSE None

(* extract_contracts: a symbol that many depend on, some in other modules. *)
Frozen(s, tree) == Exists(s, tree) /\ tree \in Shared[s]
Signature(s, tree) == Patches(s, tree) \cap Signs

(* upsert_parcels, upsert_contracts: the rows of what is there, and of     *)
(* what is frozen.  No other row changes, and none goes.                   *)
UpsertParcels(tree) ==
  rows' = [p \in Parcels |-> IF Exists(p, tree) THEN Hash(p, tree) ELSE rows[p]]

UpsertContracts(tree) ==
  contracts' = [s \in Symbols |-> IF Frozen(s, tree) THEN Signature(s, tree)
                                                     ELSE contracts[s]]

(* The repository is indexed and nobody has started.                       *)
Init ==
  /\ trunk = {}
  /\ rows = [p \in Parcels |-> Hash(p, {})]
  /\ contracts = [s \in Symbols |-> IF Frozen(s, {}) THEN {} ELSE None]
  /\ holder = [f \in Files |-> Nobody]
  /\ agent = [a \in Agents |-> [pc |-> "idle", plan |-> None, seen |-> None,
                                quiet |-> TRUE, fork |-> {}, report |-> None,
                                runs |-> 0]]
  /\ call = Free
  /\ told = contracts
  /\ kept = {s \in Symbols : Frozen(s, {})}

-----------------------------------------------------------------------------
At(a, pc) == agent[a].pc = pc
Goto(a, pc) == agent' = [agent EXCEPT ![a].pc = pc]

(* The row _check_read_deps looks up for the declared id.  An id that has  *)
(* no row among the parcels has none among the contracts.                  *)
DepRow(a) == rows[Reads[a]]

-----------------------------------------------------------------------------
(* AN AGENT                                                                *)

(* GET /parcels: the snapshot.  A task is run again as long as its work is *)
(* not on the trunk.                                                       *)
Plan(a) ==
  /\ At(a, "idle")
  /\ a \notin trunk
  /\ agent[a].runs < MaxRuns[a]
  /\ agent' = [agent EXCEPT ![a] =
       [@ EXCEPT !.pc = "lease", !.plan = DepRow(a), !.runs = agent[a].runs + 1,
                 !.seen = Hash(Reads[a], trunk), !.quiet = (call = Free)]]
  /\ UNCHANGED <<trunk, rows, contracts, holder, call, told, kept>>

(* POST /lease: granted; denied, or no such parcel.                        *)
Lease(a) ==
  LET f == Writes[a]
      grant == holder[f] = Nobody /\ rows[f] # None
  IN  /\ At(a, "lease")
      /\ holder' = IF grant THEN [holder EXCEPT ![f] = a] ELSE holder
      /\ Goto(a, IF grant THEN "fork" ELSE "idle")
      /\ UNCHANGED <<trunk, rows, contracts, call, told, kept>>

(* add_worktree cuts the branch from the head of the checkout, whatever is *)
(* there; the edit and its commit follow.                                  *)
Fork(a) ==
  /\ At(a, "fork")
  /\ Exists(Writes[a], trunk)
  /\ agent' = [agent EXCEPT ![a].pc = "report", ![a].fork = trunk]
  /\ UNCHANGED <<trunk, rows, contracts, holder, call, told, kept>>

Branch(a) == agent[a].fork \cup {a}

(* POST /parcel/update: the hash of the edited module, if there is one     *)
(* left, goes into the row if the caller still holds the lease.  A refusal *)
(* is not looked at.                                                       *)
Report(a) ==
  LET f == Writes[a]
      hash == Hash(f, Branch(a))
      lands == hash # None /\ holder[f] = a
  IN  /\ At(a, "report")
      /\ hash # None => rows[f] # None
      /\ rows' = IF lands THEN [rows EXCEPT ![f] = hash] ELSE rows
      /\ agent' = [agent EXCEPT ![a].pc = "submit",
                                ![a].report = IF lands THEN hash ELSE @]
      /\ UNCHANGED <<trunk, contracts, holder, call, told, kept>>

(* The work phase fails: no file to edit, no row to update (404), or any   *)
(* other error.                                                            *)
GiveUp(a) ==
  /\ \/ At(a, "fork") /\ ~Exists(Writes[a], trunk)
     \/ At(a, "report") /\ Hash(Writes[a], Branch(a)) # None /\ rows[Writes[a]] = None
     \/ (At(a, "fork") \/ At(a, "report")) /\ "agent" \in Faults
  /\ Goto(a, "release")
  /\ UNCHANGED <<trunk, rows, contracts, holder, call, told, kept>>

(* Whatever came of it, the lease goes back, and the run is over.          *)
Release(a) ==
  LET f == Writes[a]
  IN  /\ At(a, "release")
      /\ holder' = IF holder[f] = a THEN [holder EXCEPT ![f] = Nobody] ELSE holder
      /\ agent' = [agent EXCEPT ![a].pc = "idle", ![a].plan = None, ![a].seen = None,
                                ![a].quiet = TRUE, ![a].fork = {}]
      /\ UNCHANGED <<trunk, rows, contracts, call, told, kept>>

Lapse(f) ==
  /\ f \in Lapses
  /\ holder[f] # Nobody
  /\ holder' = [holder EXCEPT ![f] = Nobody]
  /\ UNCHANGED <<trunk, rows, contracts, agent, call, told, kept>>

-----------------------------------------------------------------------------
(* INTEGRATE, one at a time                                                *)

Step(a, step) == call.step = step /\ call.agent = a
Proceed(step) == call' = [call EXCEPT !.step = step]

(* Mutant: the changed files are those the agent has leased.               *)
ChangedOwn(a) == {Writes[a]}

(* changed_files: trunk before the merge against the branch's tip.         *)
Changed(a) ==
  {FileOf(p) : p \in {q \in Parcels : Hash(q, call.before) # Hash(q, Branch(a))}}

(* Mutant: only an id that still has a row can be stale.                   *)
StaleIfPresent(a) == agent[a].plan # None /\ DepRow(a) \notin {None, agent[a].plan}

(* _check_read_deps; an id that had no hash at plan time is not declared.  *)
Stale(a) == agent[a].plan # None /\ DepRow(a) # agent[a].plan

(* needs_rebase: the call is over before it has begun.                     *)
NeedsRebase(a) ==
  /\ At(a, "submit") /\ call = Free
  /\ Stale(a)
  /\ Goto(a, "release")
  /\ UNCHANGED <<trunk, rows, contracts, holder, call, told, kept>>

Start(a) ==
  /\ At(a, "submit") /\ call = Free
  /\ ~Stale(a)
  /\ call' = [step |-> "merge", agent |-> a, before |-> trunk,
              snap |-> [s \in Symbols |-> None], news |-> {}]
  /\ UNCHANGED <<trunk, rows, contracts, holder, agent, told, kept>>

(* Two edits may merge; to edit a parcel or a file and to remove it do not.*)
Clash(x, y) == \E p \in Removes[x], q \in Edits[y] : p \in {q, FileOf(q)}

Mergeable(a) ==
  \A x \in trunk \ Branch(a), y \in Branch(a) \ trunk : ~Clash(x, y) /\ ~Clash(y, x)

Merge(a) ==
  /\ Step(a, "merge")
  /\ \/ Mergeable(a) /\ trunk' = trunk \cup Branch(a) /\ Proceed("gate")
     \/ UNCHANGED trunk /\ Proceed("rollback")
  /\ UNCHANGED <<rows, contracts, holder, agent, told, kept>>

Gate(a) ==
  /\ Step(a, "gate")
  /\ Proceed("parcels") \/ Proceed("rollback")
  /\ UNCHANGED <<trunk, rows, contracts, holder, agent, told, kept>>

(* _snapshot_touched_contracts and the first transaction of run_index.     *)
IndexParcels(a) ==
  /\ Step(a, "parcels")
  /\ \/ /\ UpsertParcels(trunk)
        /\ call' = [call EXCEPT !.step = "contracts", !.snap =
             [s \in Symbols |-> IF Home[s] \in Changed(a) THEN contracts[s] ELSE None]]
     \/ "index" \in Faults /\ Proceed("rollback") /\ UNCHANGED rows
  /\ UNCHANGED <<trunk, contracts, holder, agent, told, kept>>

(* The second transaction and _diff_contract_changes; what follows it can  *)
(* fail with both transactions committed.                                  *)
IndexContracts(a) ==
  /\ Step(a, "contracts")
  /\ \/ /\ UpsertContracts(trunk)
        /\ call' = [call EXCEPT !.step = "verdict", !.news =
             {s \in Symbols : call.snap[s] \notin {None, contracts'[s]}}]
     \/ "index" \in Faults /\ Proceed("rollback") /\ UpsertContracts(trunk)
     \/ "index" \in Faults /\ Proceed("rollback") /\ UNCHANGED contracts
  /\ UNCHANGED <<trunk, rows, holder, agent, told, kept>>

(* The merged verdict.                                                     *)
Merged(a) ==
  /\ Step(a, "verdict")
  /\ agent' = [agent EXCEPT ![a].report = None]
  /\ kept' = {s \in kept : Frozen(s, trunk)}
  /\ Proceed("announce")
  /\ UNCHANGED <<trunk, rows, contracts, holder, told>>

(* The contract_change events.                                             *)
Announce(a) ==
  /\ Step(a, "announce")
  /\ told' = [s \in Symbols |-> IF s \in call.news THEN contracts[s] ELSE told[s]]
  /\ Proceed("retire")
  /\ UNCHANGED <<trunk, rows, contracts, holder, agent, kept>>

(* retire_rows: the parcels of touched files that are gone, leases first,  *)
(* and the contracts of symbols of touched files that are gone.  A symbol  *)
(* gone from a file that is still there keeps its parcel.                  *)
Retire(a) ==
  LET gone == {f \in Changed(a) : ~Exists(f, trunk)}
      dead == {s \in Symbols : Home[s] \in Changed(a) /\ ~Exists(s, trunk)}
  IN  /\ Step(a, "retire")
      /\ rows' = [p \in Parcels |-> IF FileOf(p) \in gone THEN None ELSE rows[p]]
      /\ contracts' = [s \in Symbols |-> IF s \in dead THEN None ELSE contracts[s]]
      /\ holder' = [f \in Files |-> IF f \in gone THEN Nobody ELSE holder[f]]
      /\ call' = Free
      /\ Goto(a, "release")
      /\ UNCHANGED <<trunk, told, kept>>

(* Mutant: a rejection resets git and leaves the tables alone.             *)
RollbackOnly(a) ==
  /\ Step(a, "rollback")
  /\ trunk' = call.before
  /\ Proceed("reject")
  /\ UNCHANGED <<rows, contracts, holder, agent, told, kept>>

(* _reject_and_reset: git reset --hard, then run_index.                    *)
Rollback(a) ==
  /\ Step(a, "rollback")
  /\ trunk' = call.before
  /\ Proceed("reparcels")
  /\ UNCHANGED <<rows, contracts, holder, agent, told, kept>>

ReindexParcels(a) ==
  /\ Step(a, "reparcels")
  /\ UpsertParcels(trunk)
  /\ Proceed("recontracts")
  /\ UNCHANGED <<trunk, contracts, holder, agent, told, kept>>

(* Mutant: only the parcels are derived again.                             *)
ReindexContractsSkipped(a) ==
  /\ Step(a, "recontracts")
  /\ Proceed("reject")
  /\ UNCHANGED <<trunk, rows, contracts, holder, agent, told, kept>>

ReindexContracts(a) ==
  /\ Step(a, "recontracts")
  /\ UpsertContracts(trunk)
  /\ Proceed("reject")
  /\ UNCHANGED <<trunk, rows, holder, agent, told, kept>>

Rejected(a) ==
  /\ Step(a, "reject")
  /\ call' = Free
  /\ agent' = [agent EXCEPT ![a].pc = "release", ![a].report = None]
  /\ UNCHANGED <<trunk, rows, contracts, holder, told, kept>>

Integrate(a) ==
  \/ NeedsRebase(a) \/ Start(a) \/ Merge(a) \/ Gate(a) \/ IndexParcels(a)
  \/ IndexContracts(a) \/ Merged(a) \/ Announce(a) \/ Retire(a)
  \/ Rollback(a) \/ ReindexParcels(a) \/ ReindexContracts(a) \/ Rejected(a)

Next ==
  \/ \E a \in Agents : \/ Plan(a) \/ Lease(a) \/ Fork(a) \/ Report(a)
                       \/ GiveUp(a) \/ Release(a) \/ Integrate(a)
  \/ \E f \in Files : Lapse(f)

Spec == Init /\ [][Next]_vars

-----------------------------------------------------------------------------
(* PROPERTIES                                                              *)

(* The optimistic re-check (_check_read_deps): a branch never lands on a   *)
(* trunk that has the read-dependency it declared in another version than  *)
(* its agent planned against, nor on one that deleted the file.  (A symbol *)
(* gone from a file that is still there keeps its row, so of those the     *)
(* check cannot tell.)                                                     *)
LandsOnPlannedDep ==
  [][\A a \in Agents :
       Step(a, "verdict") /\ call'.step = "announce" =>
         LET p == Reads[a]
         IN  Exists(p, call.before) \/ Gone(FileOf(p), call.before) =>
               agent[a].plan \in {None, Hash(p, call.before)}]_vars

(* The other half: with nothing of it moved on the trunk and no integrate  *)
(* in flight while it planned, an agent is not sent back.  A merge that    *)
(* was thrown away must not bounce the innocent.                           *)
BouncedForCause ==
  [][\A a \in Agents :
       At(a, "submit") /\ agent'[a].pc = "release" /\ call = Free =>
         \/ ~agent[a].quiet \/ agent[a].seen = None
         \/ agent[a].seen # Hash(Reads[a], trunk)]_vars

(* What a row says of a parcel the trunk has, when no integrate runs, is   *)
(* the trunk, or what an agent reported and no verdict has followed: a     *)
(* verdict, merged or rejected, never leaves the hash of another version.  *)
(* (Rows of parcels the trunk does not have may stay: run_index never      *)
(* prunes.)                                                                *)
RowIsTrunkOrReport ==
  call = Free =>
    \A p \in Parcels :
      Exists(p, trunk) =>
        rows[p] \in {Hash(p, trunk)} \cup
                    ({agent[a].report : a \in {x \in Agents : Writes[x] = p}} \ {None})

(* Contract freeze by detection: who follows the contract_change events    *)
(* knows the signature of every symbol that stayed frozen, over merges,    *)
(* rejections after the re-index, and branches handed in again.  (A        *)
(* signature that changes while the symbol is below the threshold may go   *)
(* untold: the merge that freezes it again need not touch its file.)       *)
SubscribersUpToDate ==
  call = Free => \A s \in kept : told[s] = Signature(s, trunk)

(* Ghost retirement: a file that landed work has deleted leaves no parcel  *)
(* and no lease, and a symbol that landed work has removed no contract,    *)
(* whichever branch brought the deletion.                                  *)
GhostsRetired ==
  call = Free =>
    /\ \A p \in Parcels : Gone(FileOf(p), trunk) => rows[p] = None
    /\ \A f \in Files : Gone(f, trunk) => holder[f] = Nobody
    /\ \A s \in Symbols : Gone(s, trunk) \/ Gone(Home[s], trunk) => contracts[s] = None
=============================================================================
