------------------------------ MODULE Worktrees ------------------------------
(***************************************************************************)
(* The worktrees agents work in: add_worktree, prune_orphan_worktrees,     *)
(* _discard_orphan_worktree, remove_worktree and park_branch of            *)
(* worktree/git_ops.py, with the life of a worktree in agent/runner.py     *)
(* (run_agent, _cleanup_worktree).                                         *)
(*                                                                         *)
(* The threads of several processes work on one repository.  A process     *)
(* owns a worktree by an flock on a lock file beside it; whoever adds a    *)
(* worktree first sweeps those whose lock nobody holds.  An flock belongs  *)
(* to an open file, so what is locked is an inode and not a path: a file   *)
(* that is unlinked and created again is another inode.  The atomic steps  *)
(* are git commands and system calls.                                      *)
(*                                                                         *)
(* Work is counted in edits.  An edit is uncommitted in a directory, on a  *)
(* branch, or saved (on a rejected/ branch or on the trunk).               *)
(***************************************************************************)
EXTENDS Naturals, FiniteSets

CONSTANTS
  Names,       \* worktree names (agent ids)
  Actors,      \* threads that run agents
  Hosts,       \* processes
  HostOf,      \* the process of every thread
  Reuse,       \* attempt ids repeat: a name may be added again by a later run
  Faults,      \* which of the failures below happen
  MaxWork,     \* bound: edits made
  MaxInode,    \* bound: lock files created
  MaxCrashes   \* bound: processes that die

(* add: git worktree add fails; commit, park: the sweep's commit or the    *)
(* creation of a rejected/ branch fails; status: git status fails.         *)
FaultKinds == {"add", "commit", "park", "status"}

ASSUME WorktreesAssumption ==
  /\ HostOf \in [Actors -> Hosts]
  /\ Reuse \in BOOLEAN
  /\ Faults \subseteq FaultKinds
  /\ {MaxWork, MaxInode, MaxCrashes} \subseteq Nat

VARIABLES
  dirs,      \* names with a directory under .worktrees/
  dirty,     \* the uncommitted edits in it
  heads,     \* names with a branch
  commits,   \* the edits committed on it
  saved,     \* edits on rejected/ branches and on the trunk
  dropped,   \* history: edits given up by the owner of their name
  made,      \* edits made so far
  file,      \* the inode of every lock file, 0 if there is none
  locked,    \* inodes with an flock on them
  owned,     \* _OWNED_LOCKS of every process: the inode locked for a name
  inodes,    \* inodes created so far
  act,       \* what every thread is doing
  used,      \* names handed out so far
  crashes    \* processes that died so far

git   == <<dirs, dirty, heads, commits, saved, dropped, made>>
locks == <<file, locked, owned, inodes>>
vars  == <<git, locks, act, used, crashes>>

Idle == [pc |-> "idle"]

(* A run of name; at is the worktree it sweeps or tears down, fd the file  *)
(* it has open, drop whether the branch goes too.                          *)
Sweeping == {"sweep", "claim", "save", "abort", "raise", "close", "unclaim"}
Adding   == {"prune", "open", "lock", "add", "work", "submit"}
Leaving  == {"park", "unlock", "unlink", "remove", "delete"}
Run == [pc : Sweeping \cup Adding \cup Leaving, name : Names, at : Names,
        todo : SUBSET Names, fd : 0..MaxInode, drop : BOOLEAN]

TypeOK ==
  LET Work == 1..MaxWork
  IN  /\ dirs \subseteq Names /\ heads \subseteq Names
      /\ dirty \in [Names -> SUBSET Work]
      /\ commits \in [Names -> SUBSET Work]
      /\ saved \subseteq Work /\ dropped \subseteq Work
      /\ made \in 0..MaxWork
      /\ file \in [Names -> 0..MaxInode]
      /\ locked \subseteq 1..MaxInode
      /\ owned \in [Hosts -> [Names -> 0..MaxInode]]
      /\ inodes \in 0..MaxInode
      /\ act \in [Actors -> {Idle} \cup Run]
      /\ used \subseteq Names
      /\ crashes \in 0..MaxCrashes

Init ==
  /\ dirs = {} /\ heads = {} /\ saved = {} /\ dropped = {} /\ made = 0
  /\ dirty = [n \in Names |-> {}] /\ commits = [n \in Names |-> {}]
  /\ file = [n \in Names |-> 0] /\ locked = {} /\ inodes = 0
  /\ owned = [h \in Hosts |-> [n \in Names |-> 0]]
  /\ act = [a \in Actors |-> Idle]
  /\ used = {} /\ crashes = 0

-----------------------------------------------------------------------------
Goto(a, pc) == act' = [act EXCEPT ![a].pc = pc]

(* git commit -A in the worktree of n.                                     *)
CommitAll(n) ==
  /\ commits' = [commits EXCEPT ![n] = @ \cup dirty[n]]
  /\ dirty' = [dirty EXCEPT ![n] = {}]

(* git worktree remove --force (or rmtree) of the directory of n.          *)
RemoveDir(n) ==
  /\ dirs' = dirs \ {n}
  /\ dirty' = [dirty EXCEPT ![n] = {}]

(* git branch -D, which git refuses while a worktree is on the branch.     *)
DeleteBranch(n) ==
  IF n \in dirs
    THEN UNCHANGED <<heads, commits>>
    ELSE /\ heads' = heads \ {n}
         /\ commits' = [commits EXCEPT ![n] = {}]

(* A name has one live run at a time.  A broker that retries or runs its   *)
(* tasks again uses the names of earlier runs ({task_id}-attempt-{n}).     *)
Free(n) == \/ n \notin used
           \/ Reuse /\ \A a \in Actors : act[a] # Idle => act[a].name # n

-----------------------------------------------------------------------------
(* add_worktree: the sweep of every other worktree listed under            *)
(* .worktrees/.                                                            *)
Add(a, n) ==
  /\ act[a] = Idle
  /\ Free(n)
  /\ used' = used \cup {n}
  /\ act' = [act EXCEPT ![a] = [pc |-> "sweep", name |-> n, at |-> n,
                                todo |-> dirs \ {n}, fd |-> 0, drop |-> FALSE]]
  /\ UNCHANGED <<git, locks, crashes>>

(* A candidate has a directory and a lock file, and this process does not  *)
(* own it; its lock file is opened.                                        *)
Candidate(a) ==
  /\ act[a].pc = "sweep"
  /\ \E m \in act[a].todo :
       IF m \in dirs /\ file[m] # 0 /\ owned[HostOf[a]][m] = 0
         THEN act' = [act EXCEPT ![a].pc = "claim", ![a].at = m,
                                 ![a].fd = file[m], ![a].todo = @ \ {m}]
         ELSE act' = [act EXCEPT ![a].todo = @ \ {m}]
  /\ UNCHANGED <<git, locks, used, crashes>>

(* Mutant: the lock is not asked for.                                      *)
ClaimAnyway(a) ==
  /\ act[a].pc = "claim"
  /\ locked' = locked \cup {act[a].fd}
  /\ Goto(a, "save")
  /\ UNCHANGED <<git, file, owned, inodes, used, crashes>>

(* flock(LOCK_NB): nobody holds it, or the owner is alive.                 *)
Claim(a) ==
  /\ act[a].pc = "claim"
  /\ \/ /\ act[a].fd \notin locked
        /\ locked' = locked \cup {act[a].fd}
        /\ Goto(a, "save")
     \/ /\ act[a].fd \in locked
        /\ UNCHANGED locked
        /\ act' = [act EXCEPT ![a].pc = "sweep", ![a].at = act[a].name, ![a].fd = 0]
  /\ UNCHANGED <<git, file, owned, inodes, used, crashes>>

(* _discard_orphan_worktree: uncommitted work is committed.  If that fails *)
(* the worktree is left alone; without a directory the subprocess call     *)
(* raises; and a git status that fails counts as clean.                    *)
Save(a) ==
  LET m == act[a].at
  IN  /\ act[a].pc = "save"
      /\ \/ m \notin dirs /\ Goto(a, "raise") /\ UNCHANGED <<dirty, commits>>
         \/ m \in dirs /\ CommitAll(m) /\ Goto(a, "park")
         \/ /\ m \in dirs /\ dirty[m] # {}
            /\ \/ "commit" \in Faults /\ Goto(a, "close")
               \/ "status" \in Faults /\ Goto(a, "park")
            /\ UNCHANGED <<dirty, commits>>
      /\ UNCHANGED <<dirs, heads, saved, dropped, made, locks, used, crashes>>

(* park_branch: a second ref on the tip of the branch.  The sweep deletes  *)
(* the branch only after that; a run that did not land keeps it.           *)
Park(a) ==
  LET m == act[a].at
  IN  /\ act[a].pc = "park"
      /\ \/ /\ m \in heads
            /\ saved' = saved \cup commits[m]
            /\ act' = [act EXCEPT ![a].pc = "unlock", ![a].drop = m # act[a].name]
         \/ /\ m \notin heads \/ "park" \in Faults
            /\ UNCHANGED saved
            /\ Goto(a, "unlock")
      /\ UNCHANGED <<dirs, dirty, heads, commits, dropped, made, locks, used,
                     crashes>>

-----------------------------------------------------------------------------
(* remove_worktree: the ownership this process has of the name is given    *)
(* up, the lock file unlinked, the directory removed and the branch        *)
(* deleted if the caller says so.                                          *)
Unlock(a) ==
  LET h == HostOf[a]
      m == act[a].at
  IN  /\ act[a].pc = "unlock"
      /\ locked' = locked \ {owned[h][m]}
      /\ owned' = [owned EXCEPT ![h][m] = 0]
      /\ Goto(a, "unlink")
      /\ UNCHANGED <<git, file, inodes, used, crashes>>

Unlink(a) ==
  /\ act[a].pc = "unlink"
  /\ file' = [file EXCEPT ![act[a].at] = 0]
  /\ Goto(a, "remove")
  /\ UNCHANGED <<git, locked, owned, inodes, used, crashes>>

(* The owner of the name means to give up what it has not committed.       *)
Remove(a) ==
  LET m == act[a].at
  IN  /\ act[a].pc = "remove"
      /\ RemoveDir(m)
      /\ dropped' = IF m = act[a].name THEN dropped \cup dirty[m] ELSE dropped
      /\ Goto(a, "delete")
      /\ UNCHANGED <<heads, commits, saved, made, locks, used, crashes>>

(* Mutant: the branch goes although it was not parked.                     *)
DeleteAlways(a) ==
  /\ act[a].pc = "delete"
  /\ DeleteBranch(act[a].at)
  /\ IF act[a].at = act[a].name THEN act' = [act EXCEPT ![a] = Idle]
                                ELSE Goto(a, "close")
  /\ UNCHANGED <<dirs, dirty, saved, dropped, made, locks, used, crashes>>

Delete(a) ==
  /\ act[a].pc = "delete"
  /\ IF act[a].drop THEN DeleteBranch(act[a].at) ELSE UNCHANGED <<heads, commits>>
  /\ IF act[a].at = act[a].name THEN act' = [act EXCEPT ![a] = Idle]
                                ELSE Goto(a, "close")
  /\ UNCHANGED <<dirs, dirty, saved, dropped, made, locks, used, crashes>>

(* The sweep unlinks the lock file before it unlocks it and goes on with   *)
(* the next candidate, or, after an exception, ends the run.               *)
Close(a) ==
  /\ act[a].pc \in {"close", "raise"}
  /\ file' = [file EXCEPT ![act[a].at] = 0]
  /\ Goto(a, IF act[a].pc = "close" THEN "unclaim" ELSE "abort")
  /\ UNCHANGED <<git, locked, owned, inodes, used, crashes>>

Unclaim(a) ==
  /\ act[a].pc \in {"unclaim", "abort"}
  /\ locked' = locked \ {act[a].fd}
  /\ act' = [act EXCEPT ![a].pc = IF @ = "unclaim" THEN "sweep" ELSE "unlock",
                        ![a].at = act[a].name, ![a].fd = 0, ![a].drop = FALSE]
  /\ UNCHANGED <<git, file, owned, inodes, used, crashes>>

-----------------------------------------------------------------------------
(* _prune_stale_worktree: a leftover of the caller's own name goes with    *)
(* its branch, by contract.                                                *)
PruneDir(a) ==
  LET n == act[a].name
  IN  /\ act[a].pc = "sweep"
      /\ act[a].todo = {}
      /\ RemoveDir(n)
      /\ dropped' = dropped \cup dirty[n]
      /\ Goto(a, "prune")
      /\ UNCHANGED <<heads, commits, saved, made, locks, used, crashes>>

PruneBranch(a) ==
  LET n == act[a].name
  IN  /\ act[a].pc = "prune"
      /\ DeleteBranch(n)
      /\ dropped' = dropped \cup (commits[n] \ commits'[n])
      /\ Goto(a, "open")
      /\ UNCHANGED <<dirs, dirty, saved, made, locks, used, crashes>>

(* _acquire_worktree_lock: this process's earlier lock on the name goes,   *)
(* then open(O_CREAT) and flock(LOCK_NB).  A lock that is taken is logged  *)
(* and the run goes on without.                                            *)
OpenLock(a) ==
  LET n == act[a].name
      h == HostOf[a]
      i == IF file[n] = 0 THEN inodes + 1 ELSE file[n]
  IN  /\ act[a].pc = "open"
      /\ i <= MaxInode
      /\ inodes' = IF file[n] = 0 THEN i ELSE inodes
      /\ file' = [file EXCEPT ![n] = i]
      /\ locked' = locked \ {owned[h][n]}
      /\ owned' = [owned EXCEPT ![h][n] = 0]
      /\ act' = [act EXCEPT ![a].pc = "lock", ![a].fd = i]
      /\ UNCHANGED <<git, used, crashes>>

(* Mutant: the lock is not taken.                                          *)
LockSkipped(a) ==
  /\ act[a].pc = "lock"
  /\ UNCHANGED <<locked, owned>>
  /\ act' = [act EXCEPT ![a].pc = "add", ![a].fd = 0]
  /\ UNCHANGED <<git, file, inodes, used, crashes>>

Lock(a) ==
  LET i == act[a].fd
  IN  /\ act[a].pc = "lock"
      /\ \/ /\ i \notin locked
            /\ locked' = locked \cup {i}
            /\ owned' = [owned EXCEPT ![HostOf[a]][act[a].name] = i]
         \/ i \in locked /\ UNCHANGED <<locked, owned>>
      /\ act' = [act EXCEPT ![a].pc = "add", ![a].fd = 0]
      /\ UNCHANGED <<git, file, inodes, used, crashes>>

(* git worktree add -b: the directory and the branch must not be there.    *)
(* A failure ends in the teardown of the run.                              *)
WorktreeAdd(a) ==
  LET n == act[a].name
  IN  /\ act[a].pc = "add"
      /\ \/ /\ n \notin dirs /\ n \notin heads
            /\ dirs' = dirs \cup {n}
            /\ heads' = heads \cup {n}
            /\ Goto(a, "work")
         \/ /\ n \in dirs \/ n \in heads \/ "add" \in Faults
            /\ UNCHANGED <<dirs, heads>>
            /\ Goto(a, "unlock")
      /\ UNCHANGED <<dirty, commits, saved, dropped, made, locks, used, crashes>>

-----------------------------------------------------------------------------
(* run_agent in its worktree: edit, commit once, hand in.                  *)
Edit(a) ==
  LET n == act[a].name
  IN  /\ act[a].pc = "work"
      /\ n \in dirs
      /\ made < MaxWork
      /\ made' = made + 1
      /\ dirty' = [dirty EXCEPT ![n] = @ \cup {made + 1}]
      /\ UNCHANGED <<dirs, heads, commits, saved, dropped, locks, act, used,
                     crashes>>

Commit(a) ==
  LET n == act[a].name
  IN  /\ act[a].pc = "work"
      /\ n \in dirs /\ dirty[n] # {}
      /\ CommitAll(n)
      /\ Goto(a, "submit")
      /\ UNCHANGED <<dirs, heads, saved, dropped, made, locks, used, crashes>>

(* The mutator or the commit raises.                                       *)
GiveUp(a) ==
  /\ act[a].pc = "work"
  /\ Goto(a, "unlock")
  /\ UNCHANGED <<git, locks, used, crashes>>

(* The branch landed, and its ref is redundant; or it did not, and it is   *)
(* parked and kept.                                                        *)
Submit(a) ==
  LET n == act[a].name
  IN  /\ act[a].pc = "submit"
      /\ \/ /\ n \in heads
            /\ saved' = saved \cup commits[n]
            /\ act' = [act EXCEPT ![a].pc = "unlock", ![a].drop = TRUE]
         \/ UNCHANGED saved /\ Goto(a, "park")
      /\ UNCHANGED <<dirs, dirty, heads, commits, dropped, made, locks, used,
                     crashes>>

(* A run that was denied a lease tears down what an earlier run of its     *)
(* name may have left.                                                     *)
BackOff(a, n) ==
  /\ act[a] = Idle
  /\ Free(n)
  /\ used' = used \cup {n}
  /\ act' = [act EXCEPT ![a] = [pc |-> "unlock", name |-> n, at |-> n,
                                todo |-> {}, fd |-> 0, drop |-> FALSE]]
  /\ UNCHANGED <<git, locks, crashes>>

(* A process dies: the kernel drops its flocks; nothing else happens.      *)
Crash(h) ==
  /\ crashes < MaxCrashes
  /\ crashes' = crashes + 1
  /\ LET threads == {a \in Actors : HostOf[a] = h /\ act[a] # Idle}
         claimed == {act[a].fd : a \in {a \in threads :
                       act[a].pc \in {"save", "park", "unlock", "unlink", "remove",
                                      "delete", "close", "unclaim", "raise", "abort"}}}
     IN  /\ threads # {}
         /\ locked' = (locked \ claimed) \ {owned[h][n] : n \in Names}
         /\ act' = [a \in Actors |-> IF a \in threads THEN Idle ELSE act[a]]
  /\ owned' = [owned EXCEPT ![h] = [n \in Names |-> 0]]
  /\ UNCHANGED <<git, file, inodes, used>>

-----------------------------------------------------------------------------
Step(a) ==
  \/ \E n \in Names : Add(a, n) \/ BackOff(a, n)
  \/ Candidate(a) \/ Claim(a) \/ Save(a) \/ Park(a)
  \/ Unlock(a) \/ Unlink(a) \/ Remove(a) \/ Delete(a) \/ Close(a) \/ Unclaim(a)
  \/ PruneDir(a) \/ PruneBranch(a) \/ OpenLock(a) \/ Lock(a) \/ WorktreeAdd(a)
  \/ Edit(a) \/ Commit(a) \/ GiveUp(a) \/ Submit(a)

Next == \/ \E a \in Actors : Step(a)
        \/ \E h \in Hosts : Crash(h)

Spec == Init /\ [][Next]_vars

-----------------------------------------------------------------------------
(* PROPERTIES                                                              *)

Working(a) == \/ act[a].pc \in {"work", "submit"}
              \/ act[a].pc = "park" /\ act[a].at = act[a].name

(* The one dangerous thing a sweep could do (prune_orphan_worktrees):      *)
(* while an agent is alive and at work its checkout and its branch are     *)
(* there, whatever sweeps and crashes other processes go through.          *)
SweepSparesLive ==
  \A a \in Actors : Working(a) => act[a].name \in dirs \cap heads

(* No edit is lost (_discard_orphan_worktree, "never drops the last        *)
(* reference to a commit"): every edit ever made is in a directory, on a   *)
(* branch or saved, unless the owner of its name gave it up.               *)
NothingLost ==
  \A i \in 1..made :
    \/ \E n \in dirs : i \in dirty[n]
    \/ \E n \in heads : i \in commits[n]
    \/ i \in saved \cup dropped

(* The answer a sweep relies on: the lock file of an agent at work is the  *)
(* one its process has locked, so that nobody else can claim it.           *)
WorkingIsOwned ==
  \A a \in Actors :
    Working(a) => LET n == act[a].name
                  IN  file[n] # 0 /\ file[n] = owned[HostOf[a]][n] /\ file[n] \in locked
=============================================================================
