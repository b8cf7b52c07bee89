--------------------------- MODULE WorktreesProofs ---------------------------
(***************************************************************************)
(* Theorems about Worktrees, for any number of names, threads, processes,  *)
(* edits and deaths: the types; and, when names are used once, that the    *)
(* worktree of a live agent is owned and spared, and, unless a git status  *)
(* fails, that no edit is lost.                                            *)
(***************************************************************************)
EXTENDS Worktrees, TLAPS

Pcs == Sweeping \cup Adding \cup Leaving

Up(a) == act[a].pc # "idle"

LEMMA RunsAreUp ==
  ASSUME TypeOK, NEW a \in Actors
  PROVE  /\ Up(a) <=> act[a] # Idle
         /\ Up(a) => act[a] \in Run
  BY DEF TypeOK, Up, Idle, Run, Sweeping, Adding, Leaving

(* What a thread does next, within its run.                                *)
Turn(a, pc, at, todo, fd, drop) ==
  /\ act' \in [Actors -> {Idle} \cup Run]
  /\ act'[a].pc = pc /\ act'[a].name = act[a].name /\ act'[a].at = at
  /\ act'[a].todo = todo /\ act'[a].fd = fd /\ act'[a].drop = drop
  /\ \A b \in Actors : b # a => act'[b] = act[b]

LEMMA Turns ==
  ASSUME NEW a \in Actors, TypeOK, act[a] \in Run,
         NEW pc \in Pcs, NEW at \in Names, NEW todo \in SUBSET Names,
         NEW fd \in 0..MaxInode, NEW drop \in BOOLEAN
  PROVE  /\ act' = [act EXCEPT ![a].pc = pc]
              => Turn(a, pc, act[a].at, act[a].todo, act[a].fd, act[a].drop)
         /\ act' = [act EXCEPT ![a].todo = todo]
              => Turn(a, act[a].pc, act[a].at, todo, act[a].fd, act[a].drop)
         /\ act' = [act EXCEPT ![a].pc = pc, ![a].drop = drop]
              => Turn(a, pc, act[a].at, act[a].todo, act[a].fd, drop)
         /\ act' = [act EXCEPT ![a].pc = pc, ![a].fd = fd]
              => Turn(a, pc, act[a].at, act[a].todo, fd, act[a].drop)
         /\ act' = [act EXCEPT ![a].pc = pc, ![a].at = at, ![a].fd = fd]
              => Turn(a, pc, at, act[a].todo, fd, act[a].drop)
         /\ act' = [act EXCEPT ![a].pc = pc, ![a].at = at, ![a].fd = fd, ![a].todo = todo]
              => Turn(a, pc, at, todo, fd, act[a].drop)
         /\ act' = [act EXCEPT ![a].pc = pc, ![a].at = at, ![a].fd = fd, ![a].drop = drop]
              => Turn(a, pc, at, act[a].todo, fd, drop)
<1> DEFINE r == act[a]
<1>1. r \in Run /\ act \in [Actors -> {Idle} \cup Run]
  BY DEF TypeOK
<1>2. /\ act' = [act EXCEPT ![a].pc = pc]
           => act' = [act EXCEPT ![a] = [r EXCEPT !.pc = pc]]
      /\ act' = [act EXCEPT ![a].todo = todo]
           => act' = [act EXCEPT ![a] = [r EXCEPT !.todo = todo]]
  BY <1>1
<1>3. act' = [act EXCEPT ![a].pc = pc, ![a].drop = drop]
        => act' = [act EXCEPT ![a] = [[r EXCEPT !.pc = pc] EXCEPT !.drop = drop]]
  BY <1>1
<1>4. act' = [act EXCEPT ![a].pc = pc, ![a].fd = fd]
        => act' = [act EXCEPT ![a] = [[r EXCEPT !.pc = pc] EXCEPT !.fd = fd]]
  BY <1>1
<1>5. act' = [act EXCEPT ![a].pc = pc, ![a].at = at, ![a].fd = fd]
        => act' = [act EXCEPT ![a] = [[[r EXCEPT !.pc = pc] EXCEPT !.at = at] EXCEPT !.fd = fd]]
  BY <1>1
<1>6. act' = [act EXCEPT ![a].pc = pc, ![a].at = at, ![a].fd = fd, ![a].todo = todo]
        => act' = [act EXCEPT ![a] =
             [[[[r EXCEPT !.pc = pc] EXCEPT !.at = at] EXCEPT !.fd = fd] EXCEPT !.todo = todo]]
  BY <1>1
<1>7. act' = [act EXCEPT ![a].pc = pc, ![a].at = at, ![a].fd = fd, ![a].drop = drop]
        => act' = [act EXCEPT ![a] =
             [[[[r EXCEPT !.pc = pc] EXCEPT !.at = at] EXCEPT !.fd = fd] EXCEPT !.drop = drop]]
  BY <1>1
<1> HIDE DEF r
<1>8. r = act[a]
  BY DEF r
<1>9. ASSUME NEW u \in Run, act' = [act EXCEPT ![a] = u]
      PROVE  /\ act' \in [Actors -> {Idle} \cup Run]
             /\ act'[a] = u
             /\ \A b \in Actors : b # a => act'[b] = act[b]
  BY <1>1, <1>9
<1>10. ASSUME act' = [act EXCEPT ![a] = [r EXCEPT !.pc = pc]]
       PROVE  Turn(a, pc, act[a].at, act[a].todo, act[a].fd, act[a].drop)
  <2> DEFINE u == [r EXCEPT !.pc = pc]
  <2>1. /\ u \in Run /\ u.pc = pc /\ u.name = r.name /\ u.at = r.at
        /\ u.todo = r.todo /\ u.fd = r.fd /\ u.drop = r.drop
    BY <1>1 DEF Run, Pcs
  <2>2. act' = [act EXCEPT ![a] = u]
    BY <1>10
  <2> HIDE DEF u
  <2> QED BY <1>8, <1>9, <2>1, <2>2 DEF Turn
<1>11. ASSUME act' = [act EXCEPT ![a] = [r EXCEPT !.todo = todo]]
       PROVE  Turn(a, act[a].pc, act[a].at, todo, act[a].fd, act[a].drop)
  <2> DEFINE u == [r EXCEPT !.todo = todo]
  <2>1. /\ u \in Run /\ u.pc = r.pc /\ u.name = r.name /\ u.at = r.at
        /\ u.todo = todo /\ u.fd = r.fd /\ u.drop = r.drop
    BY <1>1 DEF Run, Pcs
  <2>2. act' = [act EXCEPT ![a] = u]
    BY <1>11
  <2> HIDE DEF u
  <2> QED BY <1>8, <1>9, <2>1, <2>2 DEF Turn
<1>12. ASSUME act' = [act EXCEPT ![a] = [[r EXCEPT !.pc = pc] EXCEPT !.drop = drop]]
       PROVE  Turn(a, pc, act[a].at, act[a].todo, act[a].fd, drop)
  <2> DEFINE u == [[r EXCEPT !.pc = pc] EXCEPT !.drop = drop]
  <2>1. /\ u \in Run /\ u.pc = pc /\ u.name = r.name /\ u.at = r.at
        /\ u.todo = r.todo /\ u.fd = r.fd /\ u.drop = drop
    BY <1>1 DEF Run, Pcs
  <2>2. act' = [act EXCEPT ![a] = u]
    BY <1>12
  <2> HIDE DEF u
  <2> QED BY <1>8, <1>9, <2>1, <2>2 DEF Turn
<1>13. ASSUME act' = [act EXCEPT ![a] = [[r EXCEPT !.pc = pc] EXCEPT !.fd = fd]]
       PROVE  Turn(a, pc, act[a].at, act[a].todo, fd, act[a].drop)
  <2> DEFINE u == [[r EXCEPT !.pc = pc] EXCEPT !.fd = fd]
  <2>1. /\ u \in Run /\ u.pc = pc /\ u.name = r.name /\ u.at = r.at
        /\ u.todo = r.todo /\ u.fd = fd /\ u.drop = r.drop
    BY <1>1 DEF Run, Pcs
  <2>2. act' = [act EXCEPT ![a] = u]
    BY <1>13
  <2> HIDE DEF u
  <2> QED BY <1>8, <1>9, <2>1, <2>2 DEF Turn
<1>14. ASSUME act' = [act EXCEPT ![a] = [[[r EXCEPT !.pc = pc] EXCEPT !.at = at] EXCEPT !.fd = fd]]
       PROVE  Turn(a, pc, at, act[a].todo, fd, act[a].drop)
  <2> DEFINE u == [[[r EXCEPT !.pc = pc] EXCEPT !.at = at] EXCEPT !.fd = fd]
  <2>1. /\ u \in Run /\ u.pc = pc /\ u.name = r.name /\ u.at = at
        /\ u.todo = r.todo /\ u.fd = fd /\ u.drop = r.drop
    BY <1>1 DEF Run, Pcs
  <2>2. act' = [act EXCEPT ![a] = u]
    BY <1>14
  <2> HIDE DEF u
  <2> QED BY <1>8, <1>9, <2>1, <2>2 DEF Turn
<1>15. ASSUME act' = [act EXCEPT ![a] = [[[[r EXCEPT !.pc = pc] EXCEPT !.at = at] EXCEPT !.fd = fd] EXCEPT !.todo = todo]]
       PROVE  Turn(a, pc, at, todo, fd, act[a].drop)
  <2> DEFINE u == [[[[r EXCEPT !.pc = pc] EXCEPT !.at = at] EXCEPT !.fd = fd] EXCEPT !.todo = todo]
  <2>1. /\ u \in Run /\ u.pc = pc /\ u.name = r.name /\ u.at = at
        /\ u.todo = todo /\ u.fd = fd /\ u.drop = r.drop
    BY <1>1 DEF Run, Pcs
  <2>2. act' = [act EXCEPT ![a] = u]
    BY <1>15
  <2> HIDE DEF u
  <2> QED BY <1>8, <1>9, <2>1, <2>2 DEF Turn
<1>16. ASSUME act' = [act EXCEPT ![a] = [[[[r EXCEPT !.pc = pc] EXCEPT !.at = at] EXCEPT !.fd = fd] EXCEPT !.drop = drop]]
       PROVE  Turn(a, pc, at, act[a].todo, fd, drop)
  <2> DEFINE u == [[[[r EXCEPT !.pc = pc] EXCEPT !.at = at] EXCEPT !.fd = fd] EXCEPT !.drop = drop]
  <2>1. /\ u \in Run /\ u.pc = pc /\ u.name = r.name /\ u.at = at
        /\ u.todo = r.todo /\ u.fd = fd /\ u.drop = drop
    BY <1>1 DEF Run, Pcs
  <2>2. act' = [act EXCEPT ![a] = u]
    BY <1>16
  <2> HIDE DEF u
  <2> QED BY <1>8, <1>9, <2>1, <2>2 DEF Turn
<1> QED
  BY <1>2, <1>3, <1>4, <1>5, <1>6, <1>7, <1>10, <1>11, <1>12, <1>13, <1>14, <1>15, <1>16

LEMMA GotoTurns ==
  ASSUME TypeOK, NEW a \in Actors, Up(a), NEW pc \in Pcs, Goto(a, pc)
  PROVE  Turn(a, pc, act[a].at, act[a].todo, act[a].fd, act[a].drop)
<1>1. act[a] \in Run
  BY RunsAreUp
<1>2. /\ act[a].at \in Names /\ act[a].todo \in SUBSET Names
      /\ act[a].fd \in 0..MaxInode /\ act[a].drop \in BOOLEAN
  BY <1>1 DEF Run
<1> QED BY <1>1, <1>2, Turns DEF Goto

(* The steps that set more than the next one.                              *)
LEMMA FieldTurns ==
  ASSUME TypeOK, NEW a \in Actors, Up(a)
  PROVE  LET r == act[a]
         IN  /\ Candidate(a) => \E m \in r.todo :
                  \/ /\ m \in dirs /\ file[m] # 0 /\ owned[HostOf[a]][m] = 0
                     /\ Turn(a, "claim", m, r.todo \ {m}, file[m], r.drop)
                  \/ Turn(a, "sweep", r.at, r.todo \ {m}, r.fd, r.drop)
             /\ Claim(a) =>
                  \/ r.fd \notin locked /\ Turn(a, "save", r.at, r.todo, r.fd, r.drop)
                  \/ r.fd \in locked /\ Turn(a, "sweep", r.name, r.todo, 0, r.drop)
             /\ Park(a) =>
                  \/ /\ r.at \in heads /\ saved' = saved \cup commits[r.at]
                     /\ Turn(a, "unlock", r.at, r.todo, r.fd, r.at # r.name)
                  \/ saved' = saved /\ Turn(a, "unlock", r.at, r.todo, r.fd, r.drop)
             /\ Unclaim(a) =>
                  Turn(a, IF r.pc = "unclaim" THEN "sweep" ELSE "unlock", r.name, r.todo, 0, FALSE)
             /\ OpenLock(a) => Turn(a, "lock", r.at, r.todo, file'[r.name], r.drop)
             /\ Lock(a) => Turn(a, "add", r.at, r.todo, 0, r.drop)
             /\ Submit(a) =>
                  \/ /\ r.name \in heads /\ saved' = saved \cup commits[r.name]
                     /\ Turn(a, "unlock", r.at, r.todo, r.fd, TRUE)
                  \/ saved' = saved /\ Turn(a, "park", r.at, r.todo, r.fd, r.drop)
<1> DEFINE r == act[a]
<1>1. r \in Run
  BY RunsAreUp
<1>2. /\ r.name \in Names /\ r.at \in Names /\ r.todo \in SUBSET Names
      /\ r.fd \in 0..MaxInode /\ r.drop \in BOOLEAN /\ r.pc \in Pcs
      /\ 0 \in 0..MaxInode
  BY <1>1, WorktreesAssumption DEF Run, Pcs, WorktreesAssumption
<1>3. {"claim", "sweep", "save", "unlock", "lock", "add", "park"} \subseteq Pcs
  BY DEF Pcs, Sweeping, Adding, Leaving
<1>4. ASSUME Candidate(a)
      PROVE  \E m \in r.todo :
               \/ /\ m \in dirs /\ file[m] # 0 /\ owned[HostOf[a]][m] = 0
                  /\ Turn(a, "claim", m, r.todo \ {m}, file[m], r.drop)
               \/ Turn(a, "sweep", r.at, r.todo \ {m}, r.fd, r.drop)
  <2>1. PICK m \in r.todo :
          \/ /\ m \in dirs /\ file[m] # 0 /\ owned[HostOf[a]][m] = 0
             /\ act' = [act EXCEPT ![a].pc = "claim", ![a].at = m,
                                   ![a].fd = file[m], ![a].todo = r.todo \ {m}]
          \/ act' = [act EXCEPT ![a].todo = r.todo \ {m}]
    BY <1>1, <1>4 DEF Candidate, TypeOK
  <2>2. m \in Names /\ r.todo \ {m} \in SUBSET Names /\ file[m] \in 0..MaxInode /\ r.pc = "sweep"
    BY <1>2, <1>4, <2>1 DEF TypeOK, Candidate
  <2>3. CASE act' = [act EXCEPT ![a].todo = r.todo \ {m}]
    BY <1>1, <1>2, <1>3, <2>2, <2>3, Turns
  <2>4. CASE /\ m \in dirs /\ file[m] # 0 /\ owned[HostOf[a]][m] = 0
             /\ act' = [act EXCEPT ![a].pc = "claim", ![a].at = m,
                                   ![a].fd = file[m], ![a].todo = r.todo \ {m}]
    BY <1>1, <1>2, <1>3, <2>2, <2>4, Turns
  <2> QED BY <2>1, <2>3, <2>4
<1>5. ASSUME Claim(a)
      PROVE  \/ r.fd \notin locked /\ Turn(a, "save", r.at, r.todo, r.fd, r.drop)
             \/ r.fd \in locked /\ Turn(a, "sweep", r.name, r.todo, 0, r.drop)
  <2>1. CASE r.fd \notin locked
    BY <1>3, <1>5, <2>1, GotoTurns DEF Claim
  <2>2. CASE r.fd \in locked
    BY <1>1, <1>2, <1>3, <1>5, <2>2, Turns DEF Claim
  <2> QED BY <2>1, <2>2
<1>6. ASSUME Park(a)
      PROVE  \/ /\ r.at \in heads /\ saved' = saved \cup commits[r.at]
                /\ Turn(a, "unlock", r.at, r.todo, r.fd, r.at # r.name)
             \/ saved' = saved /\ Turn(a, "unlock", r.at, r.todo, r.fd, r.drop)
  <2>1. (r.at # r.name) \in BOOLEAN
    OBVIOUS
  <2>2. CASE saved' = saved /\ Goto(a, "unlock")
    BY <1>3, <2>2, GotoTurns
  <2>3. CASE /\ r.at \in heads /\ saved' = saved \cup commits[r.at]
             /\ act' = [act EXCEPT ![a].pc = "unlock", ![a].drop = (r.at # r.name)]
    BY <1>1, <1>2, <1>3, <2>1, <2>3, Turns
  <2> QED BY <1>6, <2>2, <2>3 DEF Park
<1>7. ASSUME Unclaim(a)
      PROVE  Turn(a, IF r.pc = "unclaim" THEN "sweep" ELSE "unlock", r.name, r.todo, 0, FALSE)
  <2> DEFINE pc == IF r.pc = "unclaim" THEN "sweep" ELSE "unlock"
  <2>1. act' = [act EXCEPT ![a].pc = pc, ![a].at = r.name, ![a].fd = 0, ![a].drop = FALSE]
    BY <1>1, <1>7 DEF Unclaim, TypeOK
  <2>2. pc \in Pcs
    BY <1>3
  <2> HIDE DEF pc
  <2>3. Turn(a, pc, r.name, r.todo, 0, FALSE)
    BY <1>1, <1>2, <2>1, <2>2, Turns
  <2> QED BY <2>3 DEF pc
<1>8. ASSUME OpenLock(a)
      PROVE  Turn(a, "lock", r.at, r.todo, file'[r.name], r.drop)
  <2> DEFINE i == IF file[r.name] = 0 THEN inodes + 1 ELSE file[r.name]
  <2>1. /\ i <= MaxInode /\ file' = [file EXCEPT ![r.name] = i]
        /\ act' = [act EXCEPT ![a].pc = "lock", ![a].fd = i]
    BY <1>8 DEF OpenLock
  <2>2. i \in 0..MaxInode
    BY <1>2, <2>1, WorktreesAssumption DEF TypeOK, WorktreesAssumption
  <2> HIDE DEF i
  <2>3. Turn(a, "lock", r.at, r.todo, i, r.drop)
    BY <1>1, <1>2, <1>3, <2>1, <2>2, Turns
  <2>4. file'[r.name] = i
    BY <1>2, <2>1 DEF TypeOK
  <2> QED BY <2>3, <2>4
<1>9. ASSUME Lock(a)
      PROVE  Turn(a, "add", r.at, r.todo, 0, r.drop)
  BY <1>1, <1>2, <1>3, <1>9, Turns DEF Lock
<1>10. ASSUME Submit(a)
       PROVE  \/ /\ r.name \in heads /\ saved' = saved \cup commits[r.name]
                 /\ Turn(a, "unlock", r.at, r.todo, r.fd, TRUE)
              \/ saved' = saved /\ Turn(a, "park", r.at, r.todo, r.fd, r.drop)
  <2>1. CASE saved' = saved /\ Goto(a, "park")
    BY <1>3, <2>1, GotoTurns
  <2>2. CASE /\ r.name \in heads /\ saved' = saved \cup commits[r.name]
             /\ act' = [act EXCEPT ![a].pc = "unlock", ![a].drop = TRUE]
    BY <1>1, <1>2, <1>3, <2>2, Turns
  <2> QED BY <1>10, <2>1, <2>2 DEF Submit
<1> QED
  BY <1>4, <1>5, <1>6, <1>7, <1>8, <1>9, <1>10

-----------------------------------------------------------------------------
LEMMA InitTyped == Init => TypeOK
  BY WorktreesAssumption DEF Init, TypeOK, WorktreesAssumption

(* The threads whose step starts or ends a run, and the others.            *)
Starting(a) == \E n \in Names : Add(a, n) \/ BackOff(a, n)
Ending(a) == Delete(a) /\ act[a].at = act[a].name

LEMMA RunsGoOn ==
  ASSUME TypeOK, NEW a \in Actors, Step(a), ~Starting(a), ~Ending(a)
  PROVE  /\ Up(a)
         /\ \/ act' = act
            \/ \E pc \in Pcs, at \in Names, todo \in SUBSET act[a].todo, fd \in 0..MaxInode,
                  drop \in BOOLEAN : Turn(a, pc, at, todo, fd, drop)
<1>1. Up(a)
  BY DEF Step, Starting, Up, Candidate, Claim, Save, Park, Unlock, Unlink, Remove, Delete,
         Close, Unclaim, PruneDir, PruneBranch, OpenLock, Lock, WorktreeAdd, Edit, Commit,
         GiveUp, Submit
<1>2. act[a] \in Run /\ TypeOK
  BY <1>1, RunsAreUp
<1>3. /\ act[a].at \in Names /\ act[a].name \in Names /\ act[a].todo \in SUBSET Names
      /\ act[a].fd \in 0..MaxInode /\ act[a].drop \in BOOLEAN
      /\ {FALSE, TRUE, act[a].at # act[a].name} \subseteq BOOLEAN
      /\ 0 \in 0..MaxInode
  BY <1>2, WorktreesAssumption DEF Run, WorktreesAssumption
<1>4. \A pc \in Pcs : Goto(a, pc) =>
        \E pc_1 \in Pcs, at \in Names, todo \in SUBSET act[a].todo, fd \in 0..MaxInode,
           drop \in BOOLEAN : Turn(a, pc_1, at, todo, fd, drop)
  BY <1>1, <1>3, GotoTurns
<1>5. CASE \E pc \in Pcs : Goto(a, pc)
  BY <1>1, <1>4, <1>5
<1>6. CASE Edit(a)
  BY <1>1, <1>6 DEF Edit
<1>7. CASE \/ Candidate(a) \/ Claim(a) \/ Park(a) \/ Unclaim(a) \/ OpenLock(a) \/ Lock(a) \/ Submit(a)
  <2>1. /\ {"claim", "sweep", "save", "unlock", "lock", "add", "park"} \subseteq Pcs
        /\ (IF act[a].pc = "unclaim" THEN "sweep" ELSE "unlock") \in Pcs
    BY DEF Pcs, Sweeping, Adding, Leaving
  <2>2. \A m \in act[a].todo : m \in Names /\ file[m] \in 0..MaxInode
                               /\ act[a].todo \ {m} \in SUBSET act[a].todo
    BY <1>3 DEF TypeOK
  <2>3. OpenLock(a) => file'[act[a].name] \in 0..MaxInode
    BY <1>3, WorktreesAssumption DEF OpenLock, TypeOK, WorktreesAssumption
  <2>4. act[a].todo \in SUBSET act[a].todo
    OBVIOUS
  <2>5. CASE Candidate(a)
    BY <1>1, <1>3, <2>1, <2>2, <2>5, FieldTurns
  <2>6. CASE Claim(a) \/ Park(a) \/ Unclaim(a) \/ Lock(a) \/ Submit(a)
    BY <1>1, <1>3, <2>1, <2>4, <2>6, FieldTurns
  <2>7. CASE OpenLock(a)
    BY <1>1, <1>3, <2>1, <2>3, <2>4, <2>7, FieldTurns
  <2> QED BY <1>7, <2>5, <2>6, <2>7
<1>8. \/ \E pc \in Pcs : Goto(a, pc)
      \/ Edit(a)
      \/ Candidate(a) \/ Claim(a) \/ Park(a) \/ Unclaim(a) \/ OpenLock(a) \/ Lock(a) \/ Submit(a)
  BY DEF Step, Starting, Ending, Pcs, Sweeping, Adding, Leaving,
         Save, Unlock, Unlink, Remove, Delete, Close, PruneDir, PruneBranch, WorktreeAdd,
         Commit, GiveUp
<1> QED BY <1>5, <1>6, <1>7, <1>8

LEMMA CrashTurns ==
  ASSUME TypeOK, NEW h \in Hosts, Crash(h)
  PROVE  /\ act' \in [Actors -> {Idle} \cup Run]
         /\ \A a \in Actors : act'[a] \in {act[a], Idle}
         /\ \A a \in Actors : HostOf[a] = h => act'[a] = Idle
         /\ \A g \in Hosts, n \in Names : owned'[g][n] = IF g = h THEN 0 ELSE owned[g][n]
         /\ owned' \in [Hosts -> [Names -> 0..MaxInode]]
         /\ locked' \subseteq locked
         /\ UNCHANGED <<git, file, inodes, used>>
<1>1. owned' = [owned EXCEPT ![h] = [n \in Names |-> 0]]
  BY DEF Crash
<1>2. [n \in Names |-> 0] \in [Names -> 0..MaxInode]
  BY WorktreesAssumption DEF WorktreesAssumption
<1>3. /\ owned' \in [Hosts -> [Names -> 0..MaxInode]]
      /\ \A g \in Hosts, n \in Names : owned'[g][n] = IF g = h THEN 0 ELSE owned[g][n]
  BY <1>1, <1>2 DEF TypeOK
<1>4. PICK threads \in SUBSET Actors :
        /\ threads = {a \in Actors : HostOf[a] = h /\ act[a] # Idle}
        /\ act' = [a \in Actors |-> IF a \in threads THEN Idle ELSE act[a]]
  BY DEF Crash
<1> QED
  BY <1>3, <1>4 DEF Crash, TypeOK

LEMMA StartTurns ==
  ASSUME TypeOK, NEW a \in Actors, NEW n \in Names, Add(a, n) \/ BackOff(a, n)
  PROVE  /\ act' \in [Actors -> {Idle} \cup Run]
         /\ act[a] = Idle /\ act'[a].pc = IF Add(a, n) THEN "sweep" ELSE "unlock"
         /\ act'[a].name = n /\ act'[a].at = n /\ act'[a].fd = 0 /\ act'[a].drop = FALSE
         /\ act'[a].todo = IF Add(a, n) THEN dirs \ {n} ELSE {}
         /\ \A b \in Actors : b # a => act'[b] = act[b]
         /\ used' = used \cup {n} /\ Free(n)
         /\ UNCHANGED <<git, locks, crashes>>
<1>1. PICK pc \in {"sweep", "unlock"}, todo \in SUBSET Names :
        /\ pc = IF Add(a, n) THEN "sweep" ELSE "unlock"
        /\ todo = IF Add(a, n) THEN dirs \ {n} ELSE {}
        /\ act' = [act EXCEPT ![a] = [pc |-> pc, name |-> n, at |-> n, todo |-> todo,
                                      fd |-> 0, drop |-> FALSE]]
  <2>1. dirs \ {n} \in SUBSET Names /\ {} \in SUBSET Names
    BY DEF TypeOK
  <2>2. CASE Add(a, n)
    BY <2>1, <2>2 DEF Add
  <2>3. CASE BackOff(a, n) /\ ~Add(a, n)
    BY <2>1, <2>3 DEF BackOff
  <2> QED BY <2>2, <2>3
<1>2. [pc |-> pc, name |-> n, at |-> n, todo |-> todo, fd |-> 0, drop |-> FALSE] \in Run
  BY WorktreesAssumption DEF Run, Sweeping, Leaving, WorktreesAssumption
<1>3. /\ act[a] = Idle /\ used' = used \cup {n} /\ Free(n)
      /\ UNCHANGED <<git, locks, crashes>>
  BY DEF Add, BackOff
<1>4. /\ act' \in [Actors -> {Idle} \cup Run]
      /\ act'[a] = [pc |-> pc, name |-> n, at |-> n, todo |-> todo, fd |-> 0, drop |-> FALSE]
      /\ \A b \in Actors : b # a => act'[b] = act[b]
  BY <1>1, <1>2 DEF TypeOK
<1> QED
  BY <1>1, <1>3, <1>4

(* Whoever is about to lock a file has opened one.                         *)
Opened == \A a \in Actors : act[a].pc \in {"claim", "lock"} => act[a].fd # 0

LEMMA NextTyped == TypeOK /\ Opened /\ [Next]_vars => TypeOK'
  <1> SUFFICES ASSUME TypeOK, Opened, [Next]_vars PROVE TypeOK'
    OBVIOUS
  <1>1. CASE UNCHANGED vars
    BY <1>1 DEF vars, git, locks, TypeOK
  <1>2. ASSUME NEW h \in Hosts, Crash(h) PROVE TypeOK'
    <2>1. crashes' \in 0..MaxCrashes
      BY <1>2, WorktreesAssumption DEF Crash, TypeOK, WorktreesAssumption
    <2> QED BY <1>2, <2>1, CrashTurns DEF TypeOK, git
  <1>3. ASSUME NEW a \in Actors, NEW n \in Names, Add(a, n) \/ BackOff(a, n) PROVE TypeOK'
    <2>1. /\ act' \in [Actors -> {Idle} \cup Run] /\ used' = used \cup {n}
          /\ UNCHANGED <<git, locks, crashes>>
      BY <1>3, StartTurns
    <2> QED BY <2>1 DEF TypeOK, git, locks
  <1>4. ASSUME NEW a \in Actors, Step(a) PROVE act' \in [Actors -> {Idle} \cup Run]
    <2>1. CASE Starting(a)
      BY <2>1, StartTurns DEF Starting
    <2>2. CASE Ending(a)
      BY <2>2 DEF Ending, Delete, TypeOK
    <2>3. CASE ~Starting(a) /\ ~Ending(a)
      BY <1>4, <2>3, RunsGoOn DEF Turn, TypeOK
    <2> QED BY <2>1, <2>2, <2>3
  <1>5. ASSUME NEW a \in Actors, Step(a), ~Starting(a) PROVE TypeOK'
    <2>1. act' \in [Actors -> {Idle} \cup Run]
      BY <1>4, <1>5
    <2>2. act[a] \in Run
      BY <1>5, RunsAreUp, RunsGoOn
         DEF Ending, Delete, Up
    <2>3. /\ act[a].name \in Names /\ act[a].at \in Names /\ act[a].fd \in 0..MaxInode
          /\ act[a].todo \subseteq Names /\ HostOf[a] \in Hosts /\ 0 \in 0..MaxInode
      BY <2>2, WorktreesAssumption DEF Run, WorktreesAssumption
    <2>4. CASE Candidate(a) \/ Save(a) \/ Park(a) \/ Remove(a) \/ Delete(a)
      BY <2>1, <2>3, <2>4
      DEF TypeOK, Candidate, Save, Park, Remove, Delete, git, locks, CommitAll, RemoveDir,
          DeleteBranch
    <2>5. CASE Claim(a) \/ Unclaim(a)
      <3>1. Claim(a) => act[a].fd \in 1..MaxInode
        BY <2>3, WorktreesAssumption DEF WorktreesAssumption, Claim, Opened
      <3>2. CASE Unclaim(a)
        BY <2>1, <2>3, <3>2 DEF TypeOK, Unclaim, git, locks
      <3>3. CASE Claim(a)
        BY <2>1, <2>3, <3>1, <3>3 DEF TypeOK, Claim, git, locks
      <3> QED BY <2>5, <3>2, <3>3
    <2>6. CASE Unlock(a) \/ Unlink(a) \/ Close(a)
      <3>1. CASE Unlock(a)
        <4>1. owned' \in [Hosts -> [Names -> 0..MaxInode]]
          BY <2>3, <3>1 DEF TypeOK, Unlock
        <4> QED BY <2>1, <2>3, <3>1, <4>1 DEF TypeOK, Unlock, git
      <3>2. CASE Unlink(a) \/ Close(a)
        BY <2>1, <2>3, <3>2 DEF TypeOK, Unlink, Close, git
      <3> QED BY <2>6, <3>1, <3>2
    <2>7. CASE PruneDir(a) \/ PruneBranch(a) \/ WorktreeAdd(a) \/ Commit(a) \/ GiveUp(a) \/ Submit(a)
      BY <2>1, <2>3, <2>7
      DEF TypeOK, PruneDir, PruneBranch, WorktreeAdd, Commit, GiveUp, Submit, git, locks,
          CommitAll, RemoveDir, DeleteBranch
    <2>8. CASE OpenLock(a) \/ Lock(a)
      <3>1. CASE OpenLock(a)
        <4>1. (IF file[act[a].name] = 0 THEN inodes + 1 ELSE file[act[a].name]) \in 0..MaxInode
          BY <2>3, <3>1, WorktreesAssumption DEF TypeOK, OpenLock, WorktreesAssumption
        <4>2. inodes' \in 0..MaxInode /\ file' \in [Names -> 0..MaxInode]
          BY <2>3, <3>1, <4>1 DEF TypeOK, OpenLock
        <4>3. owned' \in [Hosts -> [Names -> 0..MaxInode]]
          BY <2>3, <3>1 DEF TypeOK, OpenLock
        <4> QED BY <2>1, <3>1, <4>2, <4>3 DEF TypeOK, OpenLock, git
      <3>2. CASE Lock(a)
        <4>1. act[a].fd \in 1..MaxInode
          BY <2>3, <3>2, WorktreesAssumption DEF WorktreesAssumption, Lock, Opened
        <4>2. owned' \in [Hosts -> [Names -> 0..MaxInode]]
          BY <2>3, <3>2 DEF TypeOK, Lock
        <4> QED BY <2>1, <2>3, <3>2, <4>1, <4>2 DEF TypeOK, Lock, git
      <3> QED BY <2>8, <3>1, <3>2
    <2>9. CASE Edit(a)
      BY <2>1, <2>3, <2>9, WorktreesAssumption
      DEF TypeOK, Edit, git, locks, WorktreesAssumption
    <2> QED
      BY <1>5, <2>4, <2>5, <2>6, <2>7, <2>8, <2>9 DEF Step, Starting
  <1> QED
    BY <1>1, <1>2, <1>3, <1>5 DEF Next, Starting

LEMMA OpenedStays == TypeOK /\ Opened /\ [Next]_vars => Opened'
  <1> SUFFICES ASSUME TypeOK, Opened, [Next]_vars, NEW b \in Actors,
                      act'[b].pc \in {"claim", "lock"}
               PROVE  act'[b].fd # 0
    BY DEF Opened
  <1>1. CASE act'[b] = act[b]
    BY <1>1 DEF Opened
  <1>2. CASE UNCHANGED vars
    BY <1>1, <1>2 DEF vars
  <1>3. ASSUME NEW h \in Hosts, Crash(h) PROVE act'[b].fd # 0
    BY <1>1, <1>3, CrashTurns DEF Idle
  <1>4. ASSUME NEW a \in Actors, Step(a) PROVE act'[b].fd # 0
    <2>1. CASE Starting(a)
      BY <1>1, <2>1, StartTurns DEF Starting
    <2>2. CASE Ending(a)
      BY <1>1, <2>2 DEF Ending, Delete, TypeOK, Idle
    <2>3. ASSUME ~Starting(a), ~Ending(a), a = b PROVE act'[b].fd # 0
      <3>1. Up(a)
        BY <1>4, <2>3, RunsGoOn
      <3>2. ASSUME NEW pc \in Pcs \ {"claim", "lock"} PROVE ~Goto(a, pc)
        BY <2>3, <3>1, <3>2, GotoTurns DEF Turn
      <3>3. Candidate(a) => act'[b].fd # 0
        <4>1. Candidate(a) => act[a].pc = "sweep"
          BY DEF Candidate
        <4> QED BY <2>3, <3>1, <4>1, FieldTurns DEF Turn
      <3>4. OpenLock(a) => act'[b].fd # 0
        <4>1. OpenLock(a) => act[a].name \in Names /\ file'[act[a].name] # 0
          BY <3>1, RunsAreUp, WorktreesAssumption
          DEF OpenLock, TypeOK, Run, WorktreesAssumption
        <4> QED BY <2>3, <3>1, <4>1, FieldTurns DEF Turn
      <3>5. ~(Claim(a) \/ Park(a) \/ Unclaim(a) \/ Lock(a) \/ Submit(a))
        BY <2>3, <3>1, FieldTurns DEF Turn
      <3>6. Edit(a) => act'[b].fd # 0
        BY <1>1 DEF Edit
      <3> QED
        BY <1>4, <2>3, <3>2, <3>3, <3>4, <3>5, <3>6
        DEF Step, Starting, Ending, Pcs, Sweeping, Adding, Leaving,
            Save, Unlock, Unlink, Remove, Delete, Close, PruneDir, PruneBranch, WorktreeAdd,
            Commit, GiveUp
    <2>4. ASSUME ~Starting(a), ~Ending(a), a # b PROVE act'[b].fd # 0
      BY <1>1, <1>4, <2>4, RunsGoOn DEF Turn
    <2> QED BY <2>1, <2>2, <2>3, <2>4
  <1> QED BY <1>2, <1>3, <1>4 DEF Next

(* Every state of the specification has its type.                          *)
THEOREM Typing == Spec => []TypeOK
  <1>1. Init => Opened
    BY DEF Init, Opened, Idle
  <1> QED BY <1>1, InitTyped, NextTyped, OpenedStays, PTL DEF Spec

-----------------------------------------------------------------------------
(* When a name is used once, its lock file is created once, and an inode   *)
(* belongs to one name.                                                    *)

Own(a)    == act[a].at = act[a].name
Away(a)   == Up(a) /\ ~Own(a)
Early(a)  == act[a].pc \in Sweeping \cup {"prune", "open", "lock", "add"} \/ Away(a)
Owning(a) == act[a].pc = "add" \/ Working(a)

(* A name whose run, if it still goes on, has added its worktree.          *)
Past(m) == m \in used /\ \A a \in Actors : Up(a) /\ act[a].name = m => ~Early(a)

(* Inode i is that of the lock file of n, or was.                          *)
Apart(i, n) ==
  /\ i <= inodes
  /\ file[n] \in {0, i}
  /\ \A m \in Names : m # n => file[m] # i

Runs ==
  \A a \in Actors : Up(a) =>
    /\ act[a].name \in used
    /\ \A b \in Actors : Up(b) /\ a # b => act[a].name # act[b].name
    /\ act[a].pc \in {"sweep"} \cup Adding => Own(a)
    /\ act[a].pc \in Sweeping \ {"sweep"} => ~Own(a)
    /\ act[a].fd = 0 <=> Own(a) /\ act[a].pc # "lock"

(* What is swept was added before.                                         *)
Listed ==
  \A a \in Actors : Up(a) =>
    /\ \A m \in act[a].todo : Past(m)
    /\ ~Own(a) => Past(act[a].at)

Inodes ==
  /\ locked \subseteq 1..inodes
  /\ \A n \in Names : file[n] # 0 => Apart(file[n], n)
  /\ \A h \in Hosts, n \in Names : owned[h][n] # 0 => Apart(owned[h][n], n)
  /\ \A a \in Actors : Up(a) /\ act[a].fd # 0 => Apart(act[a].fd, act[a].at)

(* Before its worktree is added a name has nothing.                        *)
Blank ==
  /\ \A n \in Names \ used :
       n \notin dirs \cup heads /\ file[n] = 0 /\ \A h \in Hosts : owned[h][n] = 0
  /\ \A a \in Actors : Up(a) /\ Early(a) =>
       /\ act[a].name \notin dirs \cup heads
       /\ act[a].pc \notin {"lock", "add"} =>
            file[act[a].name] = 0 /\ \A h \in Hosts : owned[h][act[a].name] = 0

(* From Lock to Unlock a run owns its name.                                *)
Owners ==
  \A a \in Actors : Up(a) =>
    /\ \A h \in Hosts : owned[h][act[a].name] # 0 => h = HostOf[a]
    /\ Owning(a) => /\ file[act[a].name] # 0
                    /\ file[act[a].name] = owned[HostOf[a]][act[a].name]
                    /\ file[act[a].name] \in locked
    /\ act[a].pc = "lock" => /\ file[act[a].name] = act[a].fd
                             /\ file[act[a].name] \notin locked

(* Past its Claim, a sweep is at a worktree nobody works in.               *)
Orphaned ==
  \A b \in Actors : Away(b) /\ act[b].pc # "claim" =>
    \A a \in Actors : Up(a) /\ act[a].name = act[b].at => ~Working(a)

OwnInv == /\ TypeOK /\ Runs /\ Listed /\ Inodes /\ Blank /\ Owners /\ Orphaned
          /\ dirs \subseteq heads /\ SweepSparesLive

(* What a step does to the run of its thread.                              *)
LEMMA StepFrame ==
  ASSUME OwnInv, ~Reuse, NEW a \in Actors, Step(a)
  PROVE  /\ \A b \in Actors : b # a => act'[b] = act[b]
         /\ used \subseteq used' /\ used' \subseteq Names
         /\ Up(a)' => \/ /\ ~Up(a) /\ act'[a].name \in used' \ used /\ Own(a)'
                         /\ act'[a].fd = 0
                         /\ \/ act'[a].pc = "sweep" /\ act'[a].todo \subseteq dirs
                            \/ act'[a].pc = "unlock" /\ act'[a].todo = {}
                      \/ /\ Up(a) /\ act'[a].name = act[a].name /\ used' = used
                         /\ act'[a].todo \subseteq act[a].todo
                         /\ Early(a)' => Early(a)
                         /\ Early(a)' /\ act'[a].pc \notin {"lock", "add"} =>
                              act[a].pc \notin {"lock", "add"}
<1> USE DEF OwnInv
<1>1. CASE Starting(a)
  <2>1. PICK n \in Names : Add(a, n) \/ BackOff(a, n)
    BY <1>1 DEF Starting
  <2>2. n \notin used
    BY <2>1, StartTurns DEF Free
  <2>3. act[a] = Idle
    BY <2>1, StartTurns
  <2>4. ~Up(a)
    BY <2>3 DEF Up, Idle
  <2>5. /\ act'[a].name = n /\ act'[a].at = n /\ act'[a].fd = 0
        /\ \A b \in Actors : b # a => act'[b] = act[b]
        /\ used' = used \cup {n}
        /\ \/ act'[a].pc = "sweep" /\ act'[a].todo = dirs \ {n}
           \/ act'[a].pc = "unlock" /\ act'[a].todo = {}
    BY <2>1, StartTurns
  <2> QED BY <2>2, <2>4, <2>5 DEF Own, TypeOK
<1>2. CASE Ending(a)
  BY <1>2 DEF Ending, Delete, TypeOK, Idle, Up
<1>3. CASE ~Starting(a) /\ ~Ending(a)
  <2>1. Up(a) /\ act[a] \in Run
    BY <1>3, RunsGoOn, RunsAreUp
  <2>2. used' = used
    BY <1>3 DEF Step, Starting, Candidate, Claim, Save, Park, Unlock, Unlink, Remove, Delete,
                Close, Unclaim, PruneDir, PruneBranch, OpenLock, Lock, WorktreeAdd, Edit, Commit,
                GiveUp, Submit
  <2>3. /\ \A b \in Actors : b # a => act'[b] = act[b]
        /\ act'[a].name = act[a].name
        /\ act'[a].todo \subseteq act[a].todo
    BY <1>3, RunsGoOn DEF Turn
  <2>4. /\ Early(a)' => Early(a)
        /\ Early(a)' /\ act'[a].pc \notin {"lock", "add"} => act[a].pc \notin {"lock", "add"}
    <3> USE DEF Early, Away, Own, Up
    <3>1. CASE act[a].pc \in Sweeping \cup {"prune", "open"} \/ Away(a)
      BY <3>1, <2>1 DEF Runs, Adding, Sweeping
    <3>2. CASE Lock(a)
      BY <2>1, <3>2, FieldTurns DEF Turn, Lock
    <3>3. CASE WorktreeAdd(a)
      <4>1. Own(a)
        BY <2>1, <3>3 DEF WorktreeAdd, Runs, Adding
      <4> QED BY <2>1, <3>3, <4>1, GotoTurns
              DEF WorktreeAdd, Turn, Pcs, Sweeping, Adding, Leaving
    <3>4. CASE Own(a) /\ act[a].pc \in {"work", "submit"} \cup Leaving
      <4>1. CASE Edit(a) \/ Commit(a) \/ GiveUp(a) \/ Unlock(a) \/ Unlink(a) \/ Remove(a)
        BY <2>1, <3>4, <4>1, GotoTurns
        DEF Edit, Commit, GiveUp, Unlock, Unlink, Remove, Turn, Pcs, Sweeping, Adding, Leaving
      <4>2. CASE Submit(a) \/ Park(a)
        BY <2>1, <3>4, <4>2, FieldTurns DEF Turn, Sweeping, Leaving
      <4> QED
        BY <1>3, <3>4, <4>1, <4>2
        DEF Step, Starting, Ending, Candidate, Claim, Save, Delete, Close, Unclaim,
            PruneDir, PruneBranch, OpenLock, Lock, WorktreeAdd, Leaving
    <3> QED
      BY <1>3, <2>1, <3>1, <3>2, <3>3, <3>4
      DEF Step, Starting, Run, Adding, Sweeping, Leaving, Runs, Candidate, Claim, Save, Park,
          Unlock, Unlink, Remove, Delete, Close, Unclaim, PruneDir, PruneBranch, OpenLock,
          Edit, Commit, GiveUp, Submit
  <2> QED BY <2>1, <2>2, <2>3, <2>4 DEF TypeOK
<1> QED BY <1>1, <1>2, <1>3

(* Where a run that goes on is, and which file it has open.                *)
LEMMA Moving ==
  ASSUME OwnInv, ~Reuse, NEW a \in Actors, Step(a), Up(a), Up(a)'
  PROVE  /\ \/ Own(a)' /\ (act'[a].fd = 0 <=> act'[a].pc # "lock")
            \/ /\ Away(a)' /\ Away(a) /\ act'[a].at = act[a].at
               /\ act'[a].fd = act[a].fd /\ act'[a].fd # 0
            \/ /\ Away(a)' /\ Candidate(a) /\ act'[a].pc = "claim"
               /\ act'[a].at \in act[a].todo \cap dirs
               /\ act'[a].fd = file[act'[a].at] /\ act'[a].fd # 0
         /\ act'[a].pc \in {"sweep"} \cup Adding => Own(a)'
         /\ act'[a].pc \in Sweeping \ {"sweep"} => ~Own(a)'
<1> USE DEF OwnInv
<1>0. act[a] \in Run
  BY RunsAreUp
<1>1. CASE Candidate(a)
  <2>1. Own(a) /\ act[a].pc = "sweep" /\ act[a].fd = 0
    BY <1>1 DEF Candidate, Runs
  <2>2. act[a].name \notin act[a].todo
    <3>1. Early(a)
      BY <2>1 DEF Early, Sweeping
    <3> QED BY <3>1 DEF Listed, Past
  <2>3. PICK m \in act[a].todo :
          \/ /\ m \in dirs /\ file[m] # 0
             /\ Turn(a, "claim", m, act[a].todo \ {m}, file[m], act[a].drop)
          \/ Turn(a, "sweep", act[a].at, act[a].todo \ {m}, act[a].fd, act[a].drop)
    BY <1>1, FieldTurns
  <2>4. m # act[a].name
    BY <2>2
  <2>5. CASE Turn(a, "sweep", act[a].at, act[a].todo \ {m}, act[a].fd, act[a].drop)
    BY <2>1, <2>5 DEF Turn, Own, Sweeping, Adding
  <2>6. CASE /\ m \in dirs /\ file[m] # 0
             /\ Turn(a, "claim", m, act[a].todo \ {m}, file[m], act[a].drop)
    BY <1>1, <2>4, <2>6 DEF Turn, Own, Away, Up, Sweeping, Adding
  <2> QED BY <2>3, <2>5, <2>6
<1>2. CASE Claim(a)
  <2>1. ~Own(a) /\ act[a].fd # 0
    BY <1>2 DEF Claim, Runs, Sweeping, Up
  <2> QED BY <1>2, <2>1, FieldTurns DEF Turn, Own, Away, Up, Sweeping, Adding
<1>3. CASE Park(a)
  BY <1>3, FieldTurns DEF Park, Turn, Own, Away, Up, Runs, Sweeping, Adding
<1>4. CASE Unclaim(a)
  BY <1>4, FieldTurns DEF Turn, Own, Away, Up, Sweeping, Adding
<1>5. CASE OpenLock(a)
  <2>1. Own(a) /\ file'[act[a].name] # 0
    BY <1>0, <1>5, WorktreesAssumption
    DEF OpenLock, Runs, Adding, TypeOK, Run, WorktreesAssumption
  <2> QED BY <1>5, <2>1, FieldTurns DEF Turn, Own, Away, Up, Sweeping, Adding
<1>6. CASE Lock(a)
  <2>1. Own(a)
    BY <1>6 DEF Lock, Runs, Adding
  <2> QED BY <1>6, <2>1, FieldTurns DEF Turn, Own, Away, Up, Sweeping, Adding
<1>7. CASE Submit(a)
  <2>1. Own(a) /\ act[a].fd = 0
    BY <1>7 DEF Submit, Runs, Adding
  <2> QED BY <1>7, <2>1, FieldTurns DEF Turn, Own, Away, Up, Sweeping, Adding
<1>8. CASE Edit(a)
  <2>1. act' = act
    BY <1>8 DEF Edit
  <2> QED BY <1>8, <2>1 DEF Edit, Runs, Own, Away, Up, Adding, Sweeping
<1>9. CASE \/ Save(a) \/ Delete(a) \/ Close(a)
  <2>1. CASE Ending(a)
    BY <2>1 DEF Ending, Delete, TypeOK, Idle, Up
  <2>2. CASE ~Ending(a)
    <3>1. ~Own(a) /\ act[a].fd # 0
      BY <1>9, <2>2 DEF Save, Delete, Close, Ending, Runs, Own, Up, Sweeping
    <3>2. \E pc \in {"raise", "park", "close", "unclaim", "abort"} : Goto(a, pc)
      BY <1>9, <2>2 DEF Save, Delete, Close, Ending
    <3>3. {"raise", "park", "close", "unclaim", "abort"} \subseteq Pcs
      BY DEF Pcs, Sweeping, Leaving
    <3>4. \E pc \in {"raise", "park", "close", "unclaim", "abort"} :
            Turn(a, pc, act[a].at, act[a].todo, act[a].fd, act[a].drop)
      BY <3>2, <3>3, GotoTurns
    <3> QED BY <3>1, <3>4 DEF Turn, Own, Away, Up, Sweeping, Adding
  <2> QED BY <2>1, <2>2
<1>10. CASE Unlock(a) \/ Unlink(a) \/ Remove(a)
  <2>1. act[a].pc \in Leaving /\ (act[a].fd = 0 <=> Own(a))
    BY <1>10 DEF Unlock, Unlink, Remove, Runs, Leaving, Up
  <2>2. \E pc \in {"unlink", "remove", "delete"} : Goto(a, pc)
    BY <1>10 DEF Unlock, Unlink, Remove
  <2>3. {"unlink", "remove", "delete"} \subseteq Pcs
    BY DEF Pcs, Leaving
  <2>4. \E pc \in {"unlink", "remove", "delete"} :
          Turn(a, pc, act[a].at, act[a].todo, act[a].fd, act[a].drop)
    BY <2>2, <2>3, GotoTurns
  <2> QED BY <2>1, <2>4 DEF Turn, Own, Away, Up, Sweeping, Adding
<1>11. CASE PruneDir(a) \/ PruneBranch(a) \/ WorktreeAdd(a) \/ Commit(a) \/ GiveUp(a)
  <2>1. Own(a) /\ act[a].fd = 0
    BY <1>11 DEF PruneDir, PruneBranch, WorktreeAdd, Commit, GiveUp, Runs, Adding, Up
  <2>2. \E pc \in {"prune", "open", "work", "submit", "unlock"} : Goto(a, pc)
    BY <1>11 DEF PruneDir, PruneBranch, WorktreeAdd, Commit, GiveUp
  <2>3. {"prune", "open", "work", "submit", "unlock"} \subseteq Pcs
    BY DEF Pcs, Adding, Leaving
  <2>4. \E pc \in {"prune", "open", "work", "submit", "unlock"} :
          Turn(a, pc, act[a].at, act[a].todo, act[a].fd, act[a].drop)
    BY <2>2, <2>3, GotoTurns
  <2> QED BY <2>1, <2>4 DEF Turn, Own, Away, Up, Sweeping, Adding
<1>12. CASE Starting(a)
  BY <1>12, RunsAreUp, StartTurns DEF Starting
<1> QED
  BY <1>1, <1>2, <1>3, <1>4, <1>5, <1>6, <1>7, <1>8, <1>9, <1>10, <1>11, <1>12
  DEF Step, Starting

LEMMA RunsStay ==
  ASSUME OwnInv, ~Reuse, NEW a \in Actors, Step(a)
  PROVE  Runs'
<1> USE DEF OwnInv
<1> SUFFICES ASSUME NEW b \in Actors, Up(b)'
             PROVE  /\ act'[b].name \in used'
                    /\ \A c \in Actors : Up(c)' /\ b # c => act'[b].name # act'[c].name
                    /\ act'[b].pc \in {"sweep"} \cup Adding => Own(b)'
                    /\ act'[b].pc \in Sweeping \ {"sweep"} => ~Own(b)'
                    /\ act'[b].fd = 0 <=> Own(b)' /\ act'[b].pc # "lock"
  BY DEF Runs
<1>1. \A c \in Actors : Up(c)' =>
        \/ Up(c) /\ act'[c].name = act[c].name
        \/ c = a /\ ~Up(c) /\ act'[c].name \in used' \ used
  BY StepFrame DEF Up
<1>2. act'[b].name \in used'
  BY <1>1, StepFrame DEF Runs
<1>3. \A c \in Actors : Up(c)' /\ b # c => act'[b].name # act'[c].name
  BY <1>1 DEF Runs
<1>4. CASE b # a
  <2>1. act'[b] = act[b]
    BY <1>4, StepFrame
  <2> QED BY <1>2, <1>3, <2>1 DEF Runs, Up, Own
<1>5. CASE b = a /\ Up(a)
  BY <1>2, <1>3, <1>5, Moving DEF Away
<1>6. CASE b = a /\ ~Up(a)
  BY <1>2, <1>3, <1>6, StepFrame DEF Adding, Sweeping
<1> QED BY <1>4, <1>5, <1>6

LEMMA PastStays ==
  ASSUME OwnInv, ~Reuse, NEW a \in Actors, Step(a), NEW m, Past(m)
  PROVE  Past(m)'
<1> SUFFICES ASSUME NEW b \in Actors, Up(b)', act'[b].name = m PROVE ~Early(b)'
  BY StepFrame DEF Past
<1>1. CASE b = a
  BY <1>1, StepFrame DEF Past
<1>2. CASE b # a
  BY <1>2, StepFrame DEF Past, Early, Up, Away, Own
<1> QED BY <1>1, <1>2

LEMMA ListedStays ==
  ASSUME OwnInv, ~Reuse, NEW a \in Actors, Step(a)
  PROVE  Listed'
<1> USE DEF OwnInv
<1> SUFFICES ASSUME NEW b \in Actors, Up(b)'
             PROVE  /\ \A m \in act'[b].todo : Past(m)
                    /\ ~Own(b)' => Past(act'[b].at)
  BY PastStays DEF Listed
<1>1. CASE b # a
  BY <1>1, StepFrame DEF Listed, Up, Own
<1>2. CASE b = a /\ Up(a)
  <2>1. act'[a].todo \subseteq act[a].todo
    BY <1>2, StepFrame
  <2> QED BY <1>2, <2>1, Moving DEF Listed, Away
<1>3. CASE b = a /\ ~Up(a)
  <2>1. \A m \in dirs : Past(m)
    BY DEF Blank, Past, TypeOK
  <2> QED BY <1>3, <2>1, StepFrame
<1> QED BY <1>1, <1>2, <1>3

(* A thread is not at the name another one owns, unless it has yet to ask  *)
(* for its lock.                                                           *)
LEMMA Elsewhere ==
  ASSUME OwnInv, NEW a \in Actors, NEW b \in Actors, a # b, Up(a), Up(b),
         Early(b) \/ (Working(b) /\ act[a].pc # "claim")
  PROVE  act[a].at # act[b].name
  BY DEF OwnInv, Runs, Listed, Past, Orphaned, Own, Away

(* Only OpenLock gives a name an inode, and a new one.                     *)
LEMMA Opens ==
  ASSUME OwnInv, NEW a \in Actors, OpenLock(a)
  PROVE  /\ act[a].name \in Names /\ Early(a) /\ Own(a) /\ Up(a) /\ file[act[a].name] = 0
         /\ \A h \in Hosts : owned[h][act[a].name] = 0
         /\ inodes' = inodes + 1 /\ file' = [file EXCEPT ![act[a].name] = inodes + 1]
         /\ locked' = locked /\ UNCHANGED <<git, used>>
         /\ \A h \in Hosts, n \in Names : owned'[h][n] = owned[h][n]
<1> USE DEF OwnInv
<1>1. Up(a) /\ act[a] \in Run /\ act[a].pc = "open"
  BY RunsAreUp DEF OpenLock, Up
<1>2. act[a].name \in Names /\ Early(a) /\ Own(a)
  BY <1>1 DEF Run, Early, Runs, Adding
<1>3. file[act[a].name] = 0 /\ \A h \in Hosts : owned[h][act[a].name] = 0
  BY <1>1, <1>2 DEF Blank
<1>4. HostOf[a] \in Hosts /\ 0 \notin locked
  BY WorktreesAssumption DEF WorktreesAssumption, TypeOK
<1> QED BY <1>1, <1>2, <1>3, <1>4 DEF OpenLock, TypeOK

LEMMA FilesStep ==
  ASSUME OwnInv, NEW a \in Actors, Step(a), ~OpenLock(a)
  PROVE  /\ inodes' = inodes
         /\ \/ file' = file
            \/ /\ Unlink(a) \/ Close(a)
               /\ Up(a) /\ act[a].at \in Names /\ act[a].pc # "claim"
               /\ file' = [file EXCEPT ![act[a].at] = 0]
<1>1. /\ inodes' = inodes
      /\ file' = file \/ Unlink(a) \/ Close(a)
  BY DEF Step, Add, BackOff, Candidate, Claim, Save, Park, Unlock, Unlink, Remove, Delete,
         Close, Unclaim, PruneDir, PruneBranch, Lock, WorktreeAdd, Edit, Commit,
         GiveUp, Submit, locks
<1>2. CASE Unlink(a) \/ Close(a)
  <2>1. Up(a) /\ act[a].pc # "claim"
    BY <1>2 DEF Unlink, Close, Up
  <2>2. act[a].at \in Names
    BY <2>1, RunsAreUp DEF OwnInv, Run
  <2> QED BY <1>1, <1>2, <2>1, <2>2 DEF Unlink, Close
<1> QED BY <1>1, <1>2

LEMMA OwnedStep ==
  ASSUME OwnInv, NEW a \in Actors, Step(a), NEW h \in Hosts, NEW n \in Names
  PROVE  \/ owned'[h][n] = owned[h][n]
         \/ owned'[h][n] = 0 /\ Unlock(a) /\ n = act[a].at /\ h = HostOf[a]
         \/ /\ Lock(a) /\ h = HostOf[a] /\ n = act[a].name
            /\ owned'[h][n] = act[a].fd
<1>1. CASE Unlock(a)
  BY <1>1 DEF Unlock, OwnInv, TypeOK
<1>2. CASE OpenLock(a)
  BY <1>2, Opens
<1>3. CASE Lock(a)
  BY <1>3 DEF Lock, OwnInv, TypeOK
<1>4. CASE ~(Unlock(a) \/ OpenLock(a) \/ Lock(a))
  <2>1. owned' = owned
    BY <1>4 DEF Step, Add, BackOff, Candidate, Claim, Save, Park, Unlink, Remove, Delete,
           Close, Unclaim, PruneDir, PruneBranch, WorktreeAdd, Edit, Commit,
           GiveUp, Submit, locks
  <2> QED BY <2>1
<1> QED BY <1>1, <1>2, <1>3, <1>4

LEMMA LockedStep ==
  ASSUME OwnInv, NEW a \in Actors, Step(a)
  PROVE  \/ locked' = locked
         \/ /\ Claim(a) \/ Lock(a)
            /\ Up(a) /\ act[a].fd # 0 /\ act[a].fd \notin locked
            /\ locked' = locked \cup {act[a].fd}
         \/ /\ Unlock(a) /\ Up(a) /\ act[a].at \in Names
            /\ locked' = locked \ {owned[HostOf[a]][act[a].at]}
         \/ Unclaim(a) /\ Away(a) /\ act[a].fd # 0 /\ locked' = locked \ {act[a].fd}
<1>1. CASE Claim(a) \/ Lock(a)
  BY <1>1 DEF Claim, Lock, Up, OwnInv, Runs, Sweeping, Adding
<1>2. CASE Unlock(a)
  <2>1. Up(a)
    BY <1>2 DEF Unlock, Up
  <2> QED BY <1>2, <2>1, RunsAreUp DEF Unlock, OwnInv, Run
<1>3. CASE Unclaim(a)
  BY <1>3 DEF Unclaim, Up, Away, OwnInv, Runs, Sweeping
<1>4. CASE ~(Claim(a) \/ Lock(a) \/ Unlock(a) \/ Unclaim(a))
  BY <1>4, Opens DEF Step, Add, BackOff, Candidate, Save, Park, Unlink, Remove, Delete,
           Close, PruneDir, PruneBranch, WorktreeAdd, Edit, Commit,
           GiveUp, Submit, locks
<1> QED BY <1>1, <1>2, <1>3, <1>4

(* Apart, after the step.                                                  *)
ApartNext(i, n) ==
  /\ i <= inodes'
  /\ file'[n] \in {0, i}
  /\ \A m \in Names : m # n => file'[m] # i

LEMMA InodesStay ==
  ASSUME OwnInv, ~Reuse, NEW a \in Actors, Step(a)
  PROVE  Inodes'
<1> USE DEF OwnInv
<1>0. inodes \in Nat /\ file \in [Names -> Nat] /\ \A n \in Names : file[n] <= inodes
  <2>1. inodes \in Nat /\ file \in [Names -> Nat]
    BY WorktreesAssumption DEF TypeOK, WorktreesAssumption
  <2> QED BY <2>1 DEF Inodes, Apart
<1>1. ASSUME NEW i \in Nat, NEW n \in Names, Apart(i, n), i # 0,
             ~OpenLock(a) \/ n # act[a].name
      PROVE  ApartNext(i, n)
  <2>1. CASE OpenLock(a)
    BY <1>0, <1>1, <2>1, Opens DEF Apart, ApartNext
  <2>2. CASE ~OpenLock(a)
    BY <1>0, <1>1, <2>2, FilesStep DEF Apart, ApartNext
  <2> QED BY <2>1, <2>2
<1>2. locked' \subseteq 1..inodes'
  <2>1. inodes' \in Nat /\ inodes <= inodes'
    BY <1>0, FilesStep, Opens
  <2>2. \A b \in Actors : Up(b) /\ act[b].fd # 0 => act[b].fd \in 1..inodes
    BY <1>0, RunsAreUp DEF Inodes, Apart, Run
  <2>3. locked' \subseteq 1..inodes
    <3>1. \/ locked' \subseteq locked
          \/ Up(a) /\ act[a].fd # 0 /\ locked' = locked \cup {act[a].fd}
      BY LockedStep
    <3>2. locked \subseteq 1..inodes
      BY DEF Inodes
    <3>3. Up(a) /\ act[a].fd # 0 => act[a].fd \in 1..inodes
      BY <2>2
    <3> SUFFICES ASSUME NEW i \in locked' PROVE i \in 1..inodes
      OBVIOUS
    <3>4. CASE i \in locked
      BY <3>2, <3>4
    <3>5. CASE i \notin locked
      <4>1. Up(a) /\ act[a].fd # 0 /\ i = act[a].fd
        BY <3>1, <3>5
      <4> QED BY <3>3, <4>1
    <3> QED BY <3>4, <3>5
  <2>4. 1..inodes \subseteq 1..inodes'
    BY <1>0, <2>1
  <2> QED BY <2>3, <2>4
<1>3. ASSUME NEW n \in Names, file'[n] # 0 PROVE ApartNext(file'[n], n)
  <2>1. CASE OpenLock(a) /\ n = act[a].name
    <3>1. inodes' = inodes + 1 /\ file' = [file EXCEPT ![n] = inodes + 1]
      BY <2>1, Opens
    <3> QED BY <1>0, <3>1 DEF Apart, ApartNext
  <2>2. CASE ~OpenLock(a) \/ n # act[a].name
    <3>1. file'[n] = file[n]
      BY <1>0, <1>3, <2>2, FilesStep, Opens
    <3>2. file[n] \in Nat /\ Apart(file[n], n)
      BY <1>0, <1>3, <3>1 DEF Inodes
    <3> QED BY <1>1, <1>3, <2>2, <3>1, <3>2
  <2> QED BY <2>1, <2>2
<1>4. ASSUME NEW b \in Actors, Up(b)', act'[b].fd # 0
      PROVE  ApartNext(act'[b].fd, act'[b].at)
  <2>1. ASSUME NEW c \in Actors, Up(c)
        PROVE  act[c].fd \in Nat /\ act[c].at \in Names /\ act[c].name \in Names
    BY <2>1, RunsAreUp, WorktreesAssumption DEF Run, WorktreesAssumption
  <2>2. CASE b # a
    <3>1. act'[b] = act[b] /\ Up(b)
      BY <1>4, <2>2, StepFrame DEF Up
    <3>2. Apart(act[b].fd, act[b].at)
      BY <1>4, <3>1 DEF Inodes
    <3>3. CASE OpenLock(a)
      <4>1. act[b].at # act[a].name
        BY <2>2, <3>1, <3>3, Opens, Elsewhere
      <4> QED BY <1>1, <1>4, <2>1, <3>1, <3>2, <4>1
    <3>4. CASE ~OpenLock(a)
      BY <1>1, <1>4, <2>1, <3>1, <3>2, <3>4
    <3> QED BY <3>3, <3>4
  <2>3. CASE b = a
    <3>1. Up(a) /\ act'[a].name = act[a].name
      BY <1>4, <2>3, StepFrame
    <3>2. CASE OpenLock(a)
      <4>1. /\ act'[a].at = act[a].name /\ act'[a].fd = file'[act[a].name]
        BY <3>1, <3>2, Opens, FieldTurns DEF Turn, Own
      <4> QED BY <1>3, <1>4, <2>1, <2>3, <3>1, <4>1
    <3>3. CASE ~OpenLock(a)
      <4>1. act'[a].pc = "lock" => FALSE
        <5>1. \A pc \in Pcs : Goto(a, pc) => act'[a].pc = pc
          BY <3>1, GotoTurns DEF Turn
        <5>2. ~(Candidate(a) \/ Claim(a) \/ Park(a) \/ Unclaim(a) \/ Lock(a) \/ Submit(a))
                \/ act'[a].pc \in {"claim", "sweep", "save", "unlock", "add", "park"}
          BY <3>1, FieldTurns DEF Turn
        <5>3. Edit(a) => act'[a].pc = "work"
          BY DEF Edit
        <5>4. ~Ending(a)
          BY <1>4, <2>3 DEF Ending, Delete, TypeOK, Idle, Up
        <5> QED
          BY <3>1, <3>3, <5>1, <5>2, <5>3, <5>4, RunsAreUp, StartTurns
          DEF Step, Ending, Pcs, Sweeping, Adding, Leaving,
              Save, Unlock, Unlink, Remove, Delete, Close, PruneDir, PruneBranch, WorktreeAdd,
              Commit, GiveUp
      <4>2. \/ /\ act'[a].at = act[a].at /\ act'[a].fd = act[a].fd
            \/ /\ act'[a].at \in act[a].todo /\ act'[a].fd = file[act'[a].at]
        BY <1>4, <2>3, <3>1, <4>1, Moving
      <4>3. act[a].todo \subseteq Names
        BY <3>1, RunsAreUp DEF Run
      <4>4. act'[a].at \in Names /\ act'[a].fd \in Nat /\ Apart(act'[a].fd, act'[a].at)
        BY <1>0, <1>4, <2>1, <2>3, <3>1, <4>2, <4>3 DEF Inodes
      <4> QED BY <1>1, <1>4, <2>3, <3>3, <4>4
    <3> QED BY <3>2, <3>3
  <2> QED BY <2>2, <2>3
<1>5. ASSUME NEW h \in Hosts, NEW n \in Names, owned'[h][n] # 0
      PROVE  ApartNext(owned'[h][n], n)
  <2>1. CASE owned'[h][n] = owned[h][n]
    <3>1. Apart(owned[h][n], n) /\ owned[h][n] \in Nat
      BY <1>5, <2>1, WorktreesAssumption DEF Inodes, TypeOK, WorktreesAssumption
    <3>2. ~OpenLock(a) \/ n # act[a].name
      BY <1>5, <2>1, Opens
    <3> QED BY <1>1, <1>5, <2>1, <3>1, <3>2
  <2>2. CASE Lock(a) /\ n = act[a].name /\ owned'[h][n] = act[a].fd
    <3>1. Up(a) /\ Own(a) /\ ~OpenLock(a)
      BY <2>2 DEF Lock, OpenLock, Up, Runs, Adding
    <3>2. Apart(act[a].fd, n) /\ act[a].fd \in Nat
      BY <1>5, <2>2, <3>1, RunsAreUp, WorktreesAssumption
      DEF Inodes, Own, Run, WorktreesAssumption
    <3> QED BY <1>1, <1>5, <2>2, <3>1, <3>2
  <2> QED BY <1>5, <2>1, <2>2, OwnedStep
<1> QED
  BY <1>2, <1>3, <1>4, <1>5 DEF Inodes, Apart, ApartNext, Up

LEMMA BlankStays ==
  ASSUME OwnInv, ~Reuse, NEW a \in Actors, Step(a)
  PROVE  Blank'
<1> USE DEF OwnInv
<1>1. ASSUME NEW n \in Names, n \notin dirs \cup heads,
             WorktreeAdd(a) => n # act[a].name \/ act'[a].pc # "work"
      PROVE  n \notin dirs' \cup heads'
  <2>1. CASE WorktreeAdd(a)
    <3>1. Up(a)
      BY <2>1 DEF WorktreeAdd, Up
    <3>2. Goto(a, "work") => act'[a].pc = "work"
      BY <3>1, GotoTurns DEF Turn, Pcs, Adding
    <3> QED BY <1>1, <2>1, <3>2 DEF WorktreeAdd
  <2>2. CASE ~WorktreeAdd(a)
    <3>1. dirs' \subseteq dirs /\ heads' \subseteq heads
      BY <2>2 DEF Step, Add, BackOff, Candidate, Claim, Save, Park, Unlock, Unlink, Remove,
             Delete, Close, Unclaim, PruneDir, PruneBranch, OpenLock, Lock, Edit, Commit,
             GiveUp, Submit, git, RemoveDir, DeleteBranch
    <3> QED BY <1>1, <3>1
  <2> QED BY <2>1, <2>2
<1>2. ASSUME NEW n \in Names, file[n] = 0, ~OpenLock(a) \/ n # act[a].name
      PROVE  file'[n] = 0
  BY <1>2, FilesStep, Opens DEF TypeOK
<1>3. ASSUME NEW n \in Names, NEW h \in Hosts, owned[h][n] = 0, ~Lock(a) \/ n # act[a].name
      PROVE  owned'[h][n] = 0
  BY <1>3, OwnedStep
<1>4. Up(a) => act[a].name \in Names /\ act[a].name \in used
  BY RunsAreUp DEF Run, Runs
<1>5. (WorktreeAdd(a) \/ OpenLock(a) \/ Lock(a)) => Up(a)
  BY DEF WorktreeAdd, OpenLock, Lock, Up
<1>6. ASSUME NEW n \in Names \ used'
      PROVE  n \notin dirs' \cup heads' /\ file'[n] = 0 /\ \A h \in Hosts : owned'[h][n] = 0
  <2>1. n \notin used /\ (Up(a) => n # act[a].name)
    BY <1>4, StepFrame
  <2> QED BY <1>1, <1>2, <1>3, <1>5, <2>1 DEF Blank
<1>7. ASSUME NEW b \in Actors, Up(b)', Early(b)'
      PROVE  /\ act'[b].name \notin dirs' \cup heads'
             /\ act'[b].pc \notin {"lock", "add"} =>
                  file'[act'[b].name] = 0 /\ \A h \in Hosts : owned'[h][act'[b].name] = 0
  <2>1. CASE b # a
    <3>1. act'[b] = act[b] /\ Up(b) /\ Early(b)
      BY <1>7, <2>1, StepFrame DEF Up, Early, Away, Own
    <3>2. act[b].name \in Names /\ (Up(a) => act[b].name # act[a].name)
      BY <2>1, <3>1, RunsAreUp DEF Run, Runs
    <3> QED BY <1>1, <1>2, <1>3, <1>5, <3>1, <3>2 DEF Blank
  <2>2. CASE b = a /\ ~Up(a)
    <3>1. act'[a].name \in Names \ used
      BY <1>7, <2>2, StepFrame
    <3> QED BY <1>1, <1>2, <1>3, <1>5, <2>2, <3>1 DEF Blank
  <2>3. CASE b = a /\ Up(a)
    <3>1. act'[a].name = act[a].name /\ Early(a) /\ act[a].name \in Names
      BY <1>4, <1>7, <2>3, StepFrame
    <3>2. act'[a].pc # "work"
      BY <1>7, <2>3, Moving DEF Early, Away, Sweeping, Adding
    <3>3. ASSUME act'[a].pc \notin {"lock", "add"}
          PROVE  file'[act[a].name] = 0 /\ \A h \in Hosts : owned'[h][act[a].name] = 0
      <4>1. act[a].pc \notin {"lock", "add"}
        BY <1>7, <2>3, <3>3, StepFrame
      <4>2. ~OpenLock(a)
        BY <2>3, <3>3, FieldTurns DEF Turn
      <4>3. ~Lock(a)
        BY <4>1 DEF Lock
      <4> QED BY <1>2, <1>3, <2>3, <3>1, <4>1, <4>2, <4>3 DEF Blank
    <3> QED BY <1>1, <2>3, <3>1, <3>2, <3>3 DEF Blank
  <2> QED BY <2>1, <2>2, <2>3
<1> QED BY <1>6, <1>7 DEF Blank, Up

LEMMA OrphanedStays ==
  ASSUME OwnInv, ~Reuse, NEW a \in Actors, Step(a)
  PROVE  Orphaned'
<1> USE DEF OwnInv
<1> SUFFICES ASSUME NEW b \in Actors, Away(b)', act'[b].pc # "claim",
                    NEW c \in Actors, Up(c)', act'[c].name = act'[b].at, Working(c)'
             PROVE  FALSE
  BY DEF Orphaned
<1>1. Up(c) /\ act'[c].name = act[c].name /\ (Working(c) \/ (act[c].pc = "add" /\ c = a))
  <2>1. CASE c # a
    BY <2>1, StepFrame DEF Up, Working
  <2>2. CASE c = a
    <3>1. Up(c) /\ act'[c].name = act[c].name
      BY <2>2, StepFrame DEF Working
    <3>2. CASE Park(a) \/ Unclaim(a) \/ Claim(a) \/ Candidate(a) \/ OpenLock(a) \/ Lock(a)
      BY <2>2, <3>1, <3>2, FieldTurns DEF Turn, Working
    <3>3. ASSUME NEW pc \in Pcs, Goto(a, pc)
          PROVE  act'[a].pc = pc /\ act'[a].at = act[a].at
      BY <2>2, <3>1, <3>3, GotoTurns DEF Turn
    <3>4. CASE Save(a)
      <4>1. ~Own(a)
        BY <3>1, <3>4, <2>2 DEF Save, Runs, Sweeping
      <4>2. act'[a].pc \in {"raise", "park", "close"} /\ act'[a].at = act[a].at
        BY <3>3, <3>4 DEF Save, Pcs, Sweeping, Leaving
      <4> QED BY <2>2, <3>1, <4>1, <4>2 DEF Working, Own
    <3>5. CASE Edit(a) \/ Commit(a) \/ GiveUp(a) \/ Submit(a) \/ WorktreeAdd(a)
      BY <2>2, <3>1, <3>5 DEF Edit, Commit, GiveUp, Submit, WorktreeAdd, Working
    <3>6. CASE Unlock(a) \/ Unlink(a) \/ Remove(a) \/ Close(a) \/ PruneDir(a) \/ PruneBranch(a)
      BY <2>2, <3>3, <3>6
      DEF Unlock, Unlink, Remove, Close, PruneDir, PruneBranch, Working,
          Pcs, Sweeping, Adding, Leaving
    <3>7. CASE Delete(a)
      <4>1. ~Ending(a)
        BY <2>2 DEF Ending, Delete, TypeOK, Idle, Working
      <4> QED BY <2>2, <3>3, <3>7, <4>1 DEF Delete, Ending, Working, Pcs, Sweeping
    <3> QED
      BY <2>2, <3>1, <3>2, <3>4, <3>5, <3>6, <3>7, RunsAreUp DEF Step, Add, BackOff
  <2> QED BY <2>1, <2>2
<1>2. Away(b) /\ act'[b].at = act[b].at /\ (act[b].pc # "claim" \/ (Claim(a) /\ b = a))
  <2>1. CASE b # a
    BY <2>1, StepFrame DEF Away, Up, Own
  <2>2. CASE b = a
    <3>1. Up(a)
      BY <2>2, StepFrame DEF Away
    <3>2. Away(b) /\ act'[b].at = act[b].at
      BY <2>2, <3>1, Moving DEF Away
    <3>3. act[a].pc = "claim" => Claim(a)
      BY RunsAreUp, <3>1
      DEF Step, Add, BackOff, Candidate, Save, Park, Unlock, Unlink, Remove, Delete,
          Close, Unclaim, PruneDir, PruneBranch, OpenLock, Lock, WorktreeAdd, Edit, Commit,
          GiveUp, Submit
    <3> QED BY <2>2, <3>2, <3>3
  <2> QED BY <2>1, <2>2
<1>3. CASE act[c].pc = "add" /\ c = a
  <2>1. Early(c)
    BY <1>3 DEF Early
  <2> QED BY <1>1, <1>2, <2>1 DEF Listed, Past, Away
<1>4. CASE act[b].pc # "claim" /\ Working(c)
  BY <1>1, <1>2, <1>4 DEF Orphaned
<1>5. CASE Claim(a) /\ b = a /\ Working(c)
  <2>1. file[act[c].name] # 0 /\ file[act[c].name] \in locked
    BY <1>1, <1>5 DEF Owners, Owning
  <2>2. act[a].fd \notin locked
    BY <1>2, <1>5, FieldTurns DEF Turn, Away, Own
  <2>3. act[a].fd # 0 /\ Apart(act[a].fd, act[a].at)
    BY <1>2, <1>5 DEF Runs, Inodes, Away
  <2> QED BY <1>1, <1>2, <1>5, <2>1, <2>2, <2>3 DEF Apart
<1> QED BY <1>1, <1>2, <1>3, <1>4, <1>5

(* The file, the lock and the entry of a name stay as they are while a     *)
(* thread that owns it, or is about to, does something else.               *)
LEMMA OthersOwn ==
  ASSUME OwnInv, ~Reuse, NEW a \in Actors, Step(a), NEW b \in Actors, b # a, Up(b),
         Owning(b) \/ act[b].pc = "lock"
  PROVE  LET n == act[b].name
         IN  /\ file'[n] = file[n]
             /\ owned'[HostOf[b]][n] = owned[HostOf[b]][n]
             /\ file[n] \in locked' <=> file[n] \in locked
<1> USE DEF OwnInv
<1> DEFINE n == act[b].name
<1>0. n \in Names /\ HostOf[b] \in Hosts /\ file[n] # 0
  BY RunsAreUp, WorktreesAssumption DEF Run, WorktreesAssumption, Owners, Runs
<1>1. ASSUME Up(a), act[a].pc # "claim" \/ act[b].pc = "lock"
      PROVE  act[a].at # n
  <2>1. Early(b) \/ (Working(b) /\ act[a].pc # "claim")
    BY <1>1 DEF Early, Owning
  <2> QED BY <1>1, <2>1, Elsewhere
<1>2. Up(a) => act[a].name # n
  BY DEF Runs
<1>3. \A i \in Nat, m \in Names : Apart(i, m) /\ file[n] = i => m = n
  BY <1>0 DEF Apart
<1>4. file'[n] = file[n]
  BY <1>0, <1>1, <1>2, FilesStep, Opens DEF TypeOK
<1>5. owned'[HostOf[b]][n] = owned[HostOf[b]][n]
  <2>1. Unlock(a) => act[a].at # n
    BY <1>1 DEF Unlock, Up
  <2>2. Lock(a) => act[a].name # n
    BY <1>2 DEF Lock, Up
  <2> HIDE DEF n
  <2> QED BY <1>0, <2>1, <2>2, OwnedStep
<1>6. ASSUME Up(a), act[a].fd # 0
      PROVE  /\ Apart(act[a].fd, act[a].at) /\ act[a].fd \in Nat /\ act[a].at \in Names
  BY <1>6, RunsAreUp, WorktreesAssumption DEF Inodes, Run, WorktreesAssumption
<1>7. file[n] \in locked' <=> file[n] \in locked
  <2>1. CASE locked' = locked
    BY <2>1
  <2>2. CASE /\ Claim(a) \/ Lock(a)
             /\ Up(a) /\ act[a].fd # 0 /\ act[a].fd \notin locked
             /\ locked' = locked \cup {act[a].fd}
    <3>1. CASE file[n] \in locked
      BY <2>2, <3>1
    <3>2. CASE file[n] \notin locked
      <4>1. act[b].pc = "lock"
        BY <3>2 DEF Owners
      <4> QED BY <1>1, <1>3, <1>6, <2>2, <4>1
    <3> QED BY <3>1, <3>2
  <2>3. CASE Unlock(a) /\ Up(a) /\ act[a].at \in Names
             /\ locked' = locked \ {owned[HostOf[a]][act[a].at]}
    <3>1. act[a].at # n
      BY <1>1, <2>3 DEF Unlock
    <3>2. owned[HostOf[a]][act[a].at] \in Nat
      BY <2>3, WorktreesAssumption DEF TypeOK, WorktreesAssumption
    <3>3. HostOf[a] \in Hosts
      BY WorktreesAssumption DEF WorktreesAssumption
    <3>4. owned[HostOf[a]][act[a].at] # file[n]
      BY <1>0, <1>3, <2>3, <3>1, <3>2, <3>3 DEF Inodes
    <3> QED BY <2>3, <3>4
  <2>4. CASE Unclaim(a) /\ Away(a) /\ act[a].fd # 0 /\ locked' = locked \ {act[a].fd}
    BY <1>1, <1>3, <1>6, <2>4 DEF Unclaim, Away
  <2> QED BY <2>1, <2>2, <2>3, <2>4, LockedStep
<1> QED BY <1>4, <1>5, <1>7

(* How a run comes to own its name.                                        *)
LEMMA OwnStep ==
  ASSUME OwnInv, ~Reuse, NEW a \in Actors, Step(a), Up(a), Up(a)'
  PROVE  /\ Owning(a)' => Lock(a) \/ (Owning(a) /\ UNCHANGED locks)
         /\ act'[a].pc = "lock" => OpenLock(a)
<1> USE DEF OwnInv
<1>1. \A pc \in Pcs : Goto(a, pc) => act'[a].pc = pc /\ act'[a].at = act[a].at
                                      /\ act'[a].name = act[a].name
  BY GotoTurns DEF Turn
<1>2. CASE Park(a) \/ Unclaim(a) \/ Claim(a) \/ Candidate(a) \/ OpenLock(a)
  BY <1>2, FieldTurns DEF Turn, Owning, Working
<1>3. CASE Lock(a)
  BY <1>3, FieldTurns DEF Turn
<1>4. CASE Save(a)
  <2>1. ~Own(a)
    BY <1>4 DEF Save, Runs, Sweeping
  <2>2. act'[a].pc \in {"raise", "park", "close"} /\ act'[a].at = act[a].at
        /\ act'[a].name = act[a].name
    BY <1>1, <1>4 DEF Save, Pcs, Sweeping, Leaving
  <2> QED BY <2>1, <2>2 DEF Owning, Working, Own
<1>5. CASE WorktreeAdd(a) \/ Commit(a) \/ Submit(a) \/ GiveUp(a) \/ Edit(a)
  <2>1. Owning(a) /\ UNCHANGED locks
    BY <1>5 DEF WorktreeAdd, Commit, Submit, GiveUp, Edit, Owning, Working
  <2>2. act'[a].pc # "lock"
    <3>1. CASE Submit(a)
      BY <3>1, FieldTurns DEF Turn
    <3>2. CASE Edit(a)
      BY <3>2 DEF Edit
    <3> QED BY <1>1, <1>5, <3>1, <3>2
            DEF WorktreeAdd, Commit, GiveUp, Pcs, Adding, Leaving
  <2> QED BY <2>1, <2>2
<1>6. CASE Unlock(a) \/ Unlink(a) \/ Remove(a) \/ Close(a) \/ PruneDir(a) \/ PruneBranch(a)
  BY <1>1, <1>6
  DEF Unlock, Unlink, Remove, Close, PruneDir, PruneBranch, Owning, Working,
      Pcs, Sweeping, Adding, Leaving
<1>7. CASE Delete(a)
  <2>1. ~Ending(a)
    BY DEF Ending, Delete, TypeOK, Idle, Up
  <2> QED BY <1>1, <1>7, <2>1 DEF Delete, Ending, Owning, Working, Pcs, Sweeping
<1> QED
  BY <1>2, <1>3, <1>4, <1>5, <1>6, <1>7, RunsAreUp DEF Step, Add, BackOff

LEMMA OwnersStay ==
  ASSUME OwnInv, ~Reuse, NEW a \in Actors, Step(a)
  PROVE  Owners'
<1> USE DEF OwnInv
<1> SUFFICES ASSUME NEW b \in Actors, Up(b)'
             PROVE  /\ \A h \in Hosts : owned'[h][act'[b].name] # 0 => h = HostOf[b]
                    /\ Owning(b)' =>
                         /\ file'[act'[b].name] # 0
                         /\ file'[act'[b].name] = owned'[HostOf[b]][act'[b].name]
                         /\ file'[act'[b].name] \in locked'
                    /\ act'[b].pc = "lock" => /\ file'[act'[b].name] = act'[b].fd
                                              /\ file'[act'[b].name] \notin locked'
  BY DEF Owners
<1>1. CASE b # a
  <2>1. act'[b] = act[b] /\ Up(b) /\ act[b].name \in Names
    BY <1>1, StepFrame, RunsAreUp DEF Up, Run
  <2>2. Owning(b)' = Owning(b)
    BY <2>1 DEF Owning, Working
  <2>3. \A h \in Hosts : owned'[h][act[b].name] # 0 => h = HostOf[b]
    <3>1. Up(a) => act[a].name # act[b].name
      BY <1>1, <2>1 DEF Runs
    <3>2. Lock(a) => Up(a)
      BY DEF Lock, Up
    <3> QED BY <2>1, <3>1, <3>2, OwnedStep DEF Owners
  <2> QED BY <1>1, <2>1, <2>2, <2>3, OthersOwn DEF Owners
<1>2. CASE b = a /\ ~Up(a)
  <2>1. act'[a].name \in Names \ used /\ act'[a].pc \in {"sweep", "unlock"}
    BY <1>2, StepFrame
  <2>2. \A h \in Hosts : owned'[h][act'[a].name] = 0
    <3>1. ~Unlock(a) /\ ~Lock(a)
      BY <1>2 DEF Unlock, Lock, Up
    <3>2. \A h \in Hosts : owned[h][act'[a].name] = 0
      BY <2>1 DEF Blank
    <3> QED BY <2>1, <3>1, <3>2, OwnedStep
  <2> QED BY <1>2, <2>1, <2>2 DEF Owning, Working
<1>3. CASE b = a /\ Up(a)
  <2> DEFINE n == act[a].name
  <2>0. act'[a].name = n /\ n \in Names /\ HostOf[a] \in Hosts
    BY <1>3, StepFrame, RunsAreUp, WorktreesAssumption DEF Run, WorktreesAssumption
  <2>1. \A h \in Hosts : owned'[h][n] # 0 => h = HostOf[a]
    BY <1>3, <2>0, OwnedStep DEF Owners
  <2>2. CASE Lock(a)
    <3>1. act[a].pc = "lock" /\ act'[a].pc = "add" /\ act[a].fd # 0 /\ Own(a)
      BY <1>3, <2>2, FieldTurns DEF Turn, Lock, Runs, Adding
    <3>2. file[n] = act[a].fd /\ file[n] \notin locked
      BY <1>3, <3>1 DEF Owners
    <3>3. file' = file /\ locked' = locked \cup {file[n]}
      BY <2>2, <3>2 DEF Lock
    <3>4. owned'[HostOf[a]][n] = file[n]
      BY <2>0, <2>2, <3>2 DEF Lock, TypeOK
    <3> QED BY <1>3, <2>0, <2>1, <3>1, <3>2, <3>3, <3>4
  <2>3. CASE OpenLock(a)
    <3>1. act'[a].pc = "lock" /\ act'[a].fd = file'[n]
      BY <1>3, <2>3, FieldTurns DEF Turn
    <3>2. file'[n] = inodes + 1 /\ locked' = locked
      BY <2>0, <2>3, Opens DEF TypeOK
    <3>3. inodes + 1 \notin locked
      BY WorktreesAssumption DEF Inodes, TypeOK, WorktreesAssumption
    <3> QED BY <1>3, <2>0, <2>1, <3>1, <3>2, <3>3 DEF Owning, Working
  <2>4. CASE ~Lock(a) /\ ~OpenLock(a)
    <3>1. act'[a].pc # "lock"
      BY <1>3, <2>4, OwnStep
    <3>2. Owning(a)' => Owning(a) /\ UNCHANGED locks
      BY <1>3, <2>4, OwnStep
    <3> QED BY <1>3, <2>0, <2>1, <3>1, <3>2 DEF Owners, locks
  <2> QED BY <2>2, <2>3, <2>4
<1> QED BY <1>1, <1>2, <1>3

LEMMA SparedStays ==
  ASSUME OwnInv, ~Reuse, NEW a \in Actors, Step(a)
  PROVE  dirs' \subseteq heads' /\ SweepSparesLive'
<1> USE DEF OwnInv
<1>1. dirs' \subseteq heads'
  BY DEF Step, Add, BackOff, Candidate, Claim, Save, Park, Unlock, Unlink, Remove, Delete,
         Close, Unclaim, PruneDir, PruneBranch, OpenLock, Lock, WorktreeAdd, Edit, Commit,
         GiveUp, Submit, git, RemoveDir, DeleteBranch
<1>2. ASSUME NEW b \in Actors, Working(b)' PROVE act'[b].name \in dirs'
  <2>1. Up(b)'
    BY <1>2 DEF Working, Up
  <2>2. ASSUME Up(b), act'[b].name = act[b].name, act[b].name \in dirs,
               a # b \/ ~(Remove(a) \/ PruneDir(a)), Working(b) \/ Early(b)
        PROVE  act[b].name \in dirs'
    <3>1. CASE Remove(a) \/ PruneDir(a)
      <4>1. Up(a) /\ act[a].pc # "claim" /\ a # b
        BY <2>2, <3>1 DEF Remove, PruneDir, Up
      <4>2. act[a].at # act[b].name /\ act[a].name # act[b].name
        BY <2>2, <4>1, Elsewhere DEF Runs
      <4> QED BY <2>2, <3>1, <4>2 DEF Remove, PruneDir, RemoveDir
    <3>2. CASE ~(Remove(a) \/ PruneDir(a))
      <4>1. dirs \subseteq dirs'
        BY <3>2 DEF Step, Add, BackOff, Candidate, Claim, Save, Park, Unlock, Unlink, Delete,
           Close, Unclaim, PruneBranch, OpenLock, Lock, WorktreeAdd, Edit, Commit,
           GiveUp, Submit, git, RemoveDir, DeleteBranch
      <4> QED BY <2>2, <4>1
    <3> QED BY <3>1, <3>2
  <2>3. CASE b # a
    <3>1. act'[b] = act[b] /\ Working(b) /\ Up(b)
      BY <1>2, <2>1, <2>3, StepFrame DEF Working, Up
    <3> QED BY <2>2, <2>3, <3>1 DEF SweepSparesLive
  <2>4. CASE b = a
    <3>1. Up(a) /\ act'[a].name = act[a].name
      BY <1>2, <2>1, <2>4, StepFrame DEF Working
    <3>2. Owning(a)
      <4>1. ~Lock(a)
        BY <1>2, <2>4, <3>1, FieldTurns DEF Turn, Working
      <4> QED BY <1>2, <2>1, <2>4, <3>1, <4>1, OwnStep DEF Owning, Working
    <3>3. CASE Working(a)
      <4>1. ~(Remove(a) \/ PruneDir(a))
        BY <3>3 DEF Remove, PruneDir, Working
      <4> QED BY <2>2, <2>4, <3>1, <3>3, <4>1 DEF SweepSparesLive
    <3>4. CASE act[a].pc = "add"
      <4>1. WorktreeAdd(a)
        BY <3>1, <3>4, RunsAreUp
        DEF Step, Add, BackOff, Candidate, Claim, Save, Park, Unlock, Unlink, Remove, Delete,
            Close, Unclaim, PruneDir, PruneBranch, OpenLock, Lock, Edit, Commit,
            GiveUp, Submit
      <4>2. ~Goto(a, "unlock")
        BY <1>2, <2>4, <3>1, GotoTurns DEF Turn, Working, Pcs, Leaving
      <4> QED BY <2>4, <3>1, <4>1, <4>2 DEF WorktreeAdd
    <3> QED BY <3>2, <3>3, <3>4 DEF Owning
  <2> QED BY <2>3, <2>4
<1> QED BY <1>1, <1>2 DEF SweepSparesLive

LEMMA RunsAreOpened == TypeOK /\ Runs => Opened
  BY DEF Runs, Opened, Own, Up, Sweeping

(* A death frees what the process had locked, and ends its runs.           *)
LEMMA CrashStays ==
  ASSUME OwnInv, NEW h \in Hosts, Crash(h)
  PROVE  OwnInv'
<1> USE DEF OwnInv
<1>1. /\ UNCHANGED <<git, file, inodes, used>> /\ locked' \subseteq locked
      /\ \A g \in Hosts, n \in Names : owned'[g][n] = IF g = h THEN 0 ELSE owned[g][n]
  BY CrashTurns
<1>2. \A a \in Actors : Up(a)' => act'[a] = act[a] /\ Up(a) /\ HostOf[a] # h
  BY CrashTurns DEF Up, Idle
<1>3. \A a \in Actors : Up(a)' =>
        /\ Own(a)' = Own(a) /\ Early(a)' = Early(a) /\ Owning(a)' = Owning(a)
        /\ Working(a)' = Working(a) /\ Away(a)' = Away(a)
  BY <1>2 DEF Own, Early, Owning, Working, Away, Up
<1>4. \A m : Past(m) => Past(m)'
  BY <1>1, <1>2, <1>3 DEF Past
<1>5. \A i, n : Apart(i, n) => ApartNext(i, n)
  BY <1>1 DEF Apart, ApartNext
<1>6. TypeOK'
  BY RunsAreOpened, NextTyped DEF Next
<1>7. Runs' /\ Listed'
  BY <1>1, <1>2, <1>3, <1>4 DEF Runs, Listed
<1>8. Inodes'
  <2>1. \A n \in Names, g \in Hosts : owned'[g][n] # 0 => owned'[g][n] = owned[g][n]
    BY <1>1
  <2> QED BY <1>1, <1>2, <1>5, <2>1 DEF Inodes, Apart, ApartNext, Up
<1>9. Blank'
  <2>1. \A a \in Actors : Up(a) => act[a].name \in Names
    BY RunsAreUp DEF Run
  <2> QED BY <1>1, <1>2, <1>3, <2>1 DEF Blank, git
<1>10. ASSUME NEW b \in Actors, Up(b)', Owning(b)
       PROVE  file[act[b].name] \in locked'
  <2> DEFINE i == file[act[b].name]
  <2>1. /\ Up(b) /\ act[b].name \in Names /\ i # 0 /\ i \in locked
    BY <1>2, <1>10, RunsAreUp DEF Run, Owners
  <2>2. ASSUME NEW c \in Actors, act[c].fd = i, Up(c), HostOf[c] = h,
               act[c].pc \in {"save", "park", "unlock", "unlink", "remove",
                              "delete", "close", "unclaim", "raise", "abort"}
        PROVE  FALSE
    <3>1. c # b /\ Apart(act[c].fd, act[c].at)
      BY <1>2, <1>10, <2>1, <2>2 DEF Inodes
    <3>2. act[c].at # act[b].name
      <4>1. Early(b) \/ (Working(b) /\ act[c].pc # "claim")
        BY <1>10, <2>2 DEF Early, Owning
      <4> QED BY <2>1, <2>2, <3>1, <4>1, Elsewhere
    <3> QED BY <2>1, <2>2, <3>1, <3>2 DEF Apart
  <2>3. ASSUME NEW m \in Names, owned[h][m] = i PROVE FALSE
    <3>1. Apart(owned[h][m], m)
      BY <2>1, <2>3 DEF Inodes
    <3>2. m = act[b].name
      BY <2>1, <2>3, <3>1 DEF Apart
    <3> QED BY <1>2, <1>10, <2>1, <2>3, <3>2 DEF Owners
  <2>4. \A c \in Actors : act[c] # Idle => Up(c)
    BY RunsAreUp
  <2> HIDE DEF i
  <2>5. i \in locked'
    BY <2>1, <2>2, <2>3, <2>4 DEF Crash
  <2> QED BY <2>5 DEF i
<1>11. Owners'
  <2>1. \A b \in Actors : Up(b)' => act[b].name \in Names /\ HostOf[b] \in Hosts
    BY <1>2, RunsAreUp, WorktreesAssumption DEF Run, WorktreesAssumption
  <2> QED BY <1>1, <1>2, <1>3, <1>10, <2>1 DEF Owners
<1>12. Orphaned'
  BY <1>2, <1>3 DEF Orphaned, Away
<1>13. dirs' \subseteq heads' /\ SweepSparesLive'
  <2>1. \A a \in Actors : Working(a)' => Up(a)'
    BY DEF Working, Up
  <2> QED BY <1>1, <1>2, <1>3, <2>1 DEF SweepSparesLive, git
<1> QED BY <1>6, <1>7, <1>8, <1>9, <1>11, <1>12, <1>13

LEMMA Invariant == ~Reuse => (Spec => []OwnInv)
  <1> SUFFICES ASSUME ~Reuse PROVE Spec => []OwnInv
    OBVIOUS
  <1>1. Init => OwnInv
    <2> SUFFICES ASSUME Init PROVE OwnInv
      OBVIOUS
    <2>1. TypeOK
      BY InitTyped
    <2>2. \A a \in Actors : act[a] = Idle /\ ~Up(a) /\ ~Working(a)
      BY DEF Init, Idle, Up, Working
    <2>3. /\ Runs /\ Listed /\ Owners /\ Orphaned /\ SweepSparesLive /\ dirs \subseteq heads
      BY <2>2 DEF Runs, Listed, Owners, Orphaned, SweepSparesLive, Away, Init
    <2>4. Inodes /\ Blank
      BY <2>2 DEF Inodes, Blank, Init
    <2> QED BY <2>1, <2>3, <2>4 DEF OwnInv
  <1>2. OwnInv /\ [Next]_vars => OwnInv'
    <2> SUFFICES ASSUME OwnInv, [Next]_vars PROVE OwnInv'
      OBVIOUS
    <2>1. CASE UNCHANGED vars
      BY <2>1 DEF vars, git, locks, OwnInv, TypeOK, Runs, Listed, Inodes, Blank, Owners, Orphaned,
             SweepSparesLive, Up, Own, Away, Early, Owning, Working, Past, Apart
    <2>2. ASSUME NEW a \in Actors, Step(a) PROVE OwnInv'
      <3>1. TypeOK'
        BY <2>2, RunsAreOpened, NextTyped DEF OwnInv, Next
      <3> QED
        BY <2>2, <3>1, RunsStay, ListedStays, InodesStay, BlankStays, OwnersStay, OrphanedStays,
           SparedStays
        DEF OwnInv
    <2> QED BY <2>1, <2>2, CrashStays DEF Next
  <1> QED BY <1>1, <1>2, PTL DEF Spec

(* When names are used once, the lock file of an agent at work is the one  *)
(* its process has locked.                                                 *)
THEOREM WorkersOwn == ~Reuse => (Spec => []WorkingIsOwned)
  <1>1. OwnInv => WorkingIsOwned
    <2> SUFFICES ASSUME OwnInv, NEW a \in Actors, Working(a)
                 PROVE  /\ file[act[a].name] # 0
                        /\ file[act[a].name] = owned[HostOf[a]][act[a].name]
                        /\ file[act[a].name] \in locked
      BY DEF WorkingIsOwned
    <2>1. Up(a)
      BY DEF Working, Up
    <2> QED BY <2>1 DEF OwnInv, Owners, Owning
  <1> QED BY <1>1, Invariant, PTL

(* When names are used once, no sweep takes the worktree or the branch of  *)
(* an agent at work, whatever fails and whoever dies.                      *)
THEOREM LiveSpared == ~Reuse => (Spec => []SweepSparesLive)
  <1>1. OwnInv => SweepSparesLive
    BY DEF OwnInv
  <1> QED BY <1>1, Invariant, PTL

-----------------------------------------------------------------------------
(* If no git status fails, what a sweep or a run that landed takes away    *)
(* holds nothing that is not elsewhere.                                    *)

Emptied(a) == act[a].pc \in {"submit", "park"}
              \/ (act[a].pc \in Leaving /\ (~Own(a) \/ act[a].drop))

Clean ==
  \A a \in Actors : Up(a) =>
    /\ act[a].pc \in {"sweep", "claim", "save", "park"} \cup Adding => ~act[a].drop
    /\ Emptied(a) => dirty[act[a].at] = {}
    /\ act[a].pc \in Leaving /\ act[a].drop => commits[act[a].at] \subseteq saved

LostInv == OwnInv /\ Clean /\ NothingLost

LEMMA WorkMoves ==
  ASSUME OwnInv, NEW a \in Actors, Step(a), NEW n \in Names
  PROVE  /\ dirty'[n] \subseteq dirty[n]
            \/ (Edit(a) /\ Up(a) /\ act[a].pc = "work" /\ n = act[a].name)
         /\ commits'[n] \subseteq commits[n] \cup dirty[n]
         /\ saved \subseteq saved'
<1> USE DEF OwnInv
<1>1. CASE Edit(a)
  BY <1>1 DEF Edit, TypeOK, Up
<1>2. CASE Save(a) \/ Commit(a) \/ Remove(a) \/ PruneDir(a)
  <2>1. act[a].name \in Names /\ act[a].at \in Names
    BY <1>2, RunsAreUp DEF Save, Commit, Remove, PruneDir, Up, Run
  <2> QED BY <1>2, <2>1 DEF Save, Commit, Remove, PruneDir, CommitAll, RemoveDir, TypeOK
<1>3. CASE Delete(a) \/ PruneBranch(a)
  <2>1. act[a].name \in Names /\ act[a].at \in Names
    BY <1>3, RunsAreUp DEF Delete, PruneBranch, Up, Run
  <2> QED BY <1>3, <2>1 DEF Delete, PruneBranch, DeleteBranch, TypeOK
<1>4. CASE ~(\/ Edit(a) \/ Save(a) \/ Commit(a) \/ Remove(a) \/ PruneDir(a) \/ Delete(a)
             \/ PruneBranch(a))
  BY <1>4 DEF Step, Add, BackOff, Candidate, Claim, Park, Unlock, Unlink, Close, Unclaim,
         OpenLock, Lock, WorktreeAdd, GiveUp, Submit, git
<1> QED BY <1>1, <1>2, <1>3, <1>4

LEMMA CleanStays ==
  ASSUME OwnInv, Clean, ~Reuse, "status" \notin Faults, NEW a \in Actors, Step(a)
  PROVE  Clean'
<1> USE DEF OwnInv
<1> SUFFICES ASSUME NEW b \in Actors, Up(b)'
             PROVE  /\ act'[b].pc \in {"sweep", "claim", "save", "park"} \cup Adding => ~act'[b].drop
                    /\ Emptied(b)' => dirty'[act'[b].at] = {}
                    /\ act'[b].pc \in Leaving /\ act'[b].drop => commits'[act'[b].at] \subseteq saved'
  BY DEF Clean
<1>1. CASE b # a
  <2>1. act'[b] = act[b] /\ Up(b) /\ act[b].at \in Names
    BY <1>1, StepFrame, RunsAreUp DEF Up, Run
  <2>2. Emptied(b)' = Emptied(b)
    BY <2>1 DEF Emptied, Own
  <2>3. ASSUME Emptied(b) PROVE dirty'[act[b].at] = {}
    <3>1. dirty[act[b].at] = {}
      BY <2>1, <2>3 DEF Clean
    <3>2. ~(Up(a) /\ act[a].pc = "work" /\ act[b].at = act[a].name)
      BY <1>1, <2>1, <2>3 DEF Emptied, Orphaned, Away, Own, Working, Runs, Leaving
    <3> QED BY <2>1, <3>1, <3>2, WorkMoves
  <2>4. ASSUME act[b].pc \in Leaving, act[b].drop PROVE commits'[act[b].at] \subseteq saved'
    <3>1. dirty[act[b].at] = {} /\ commits[act[b].at] \subseteq saved
      BY <2>1, <2>4 DEF Clean, Emptied
    <3> QED BY <2>1, <3>1, WorkMoves
  <2> QED BY <2>1, <2>2, <2>3, <2>4 DEF Clean
<1>2. CASE b = a /\ ~Up(a)
  <2>1. PICK n \in Names : Add(a, n) \/ BackOff(a, n)
    BY <1>2, RunsGoOn DEF Starting, Ending, Delete, Up
  <2>2. act'[a].drop = FALSE /\ act'[a].pc \in {"sweep", "unlock"} /\ Own(a)'
    BY <2>1, StartTurns DEF Own
  <2> QED BY <1>2, <2>2 DEF Emptied
<1>3. CASE b = a /\ Up(a)
  <2> DEFINE r == act[a]
             n == act[a].name
  <2>0. /\ n \in Names /\ r.at \in Names /\ act'[a].name = n /\ r.drop \in BOOLEAN
        /\ act[a] \in Run
    BY <1>3, StepFrame, RunsAreUp DEF Run
  <2>1. \A pc \in Pcs : Goto(a, pc) => act'[a].pc = pc /\ act'[a].at = r.at /\ act'[a].drop = r.drop
    BY <1>3, GotoTurns DEF Turn
  <2>2. CASE Candidate(a) \/ Claim(a) \/ OpenLock(a) \/ Lock(a)
    <3>1. act'[a].pc \in {"sweep", "claim", "save", "lock", "add"} /\ act'[a].drop = r.drop
      BY <1>3, <2>2, FieldTurns DEF Turn
    <3>2. ~r.drop
      BY <1>3, <2>2 DEF Clean, Candidate, Claim, OpenLock, Lock, Adding
    <3> QED BY <1>3, <3>1, <3>2 DEF Emptied, Leaving
  <2>3. CASE Save(a)
    <3>1. ~r.drop
      BY <1>3, <2>3 DEF Clean, Save
    <3>2. /\ act'[a].pc \in {"raise", "park", "close"} /\ act'[a].at = r.at /\ act'[a].drop = r.drop
          /\ act'[a].pc = "park" => CommitAll(r.at)
      BY <2>1, <2>3 DEF Save, Pcs, Sweeping, Leaving
    <3>3. act'[a].pc = "park" => dirty'[r.at] = {}
      BY <2>0, <3>2 DEF CommitAll, TypeOK
    <3> QED BY <1>3, <3>1, <3>2, <3>3 DEF Emptied, Leaving
  <2>4. CASE Park(a)
    <3>1. dirty[r.at] = {} /\ ~r.drop /\ UNCHANGED <<dirty, commits>>
      BY <1>3, <2>4 DEF Clean, Emptied, Park
    <3>2. /\ act'[a].pc = "unlock" /\ act'[a].at = r.at
          /\ \/ act'[a].drop = r.drop
             \/ saved' = saved \cup commits[r.at]
      BY <1>3, <2>4, FieldTurns DEF Turn
    <3> QED BY <1>3, <3>1, <3>2 DEF Emptied, Adding
  <2>5. CASE Unclaim(a)
    <3>1. act'[a].drop = FALSE /\ act'[a].at = n /\ act'[a].pc \in {"sweep", "unlock"}
      BY <1>3, <2>5, FieldTurns DEF Turn
    <3> QED BY <1>3, <2>0, <3>1 DEF Emptied, Own
  <2>6. CASE Submit(a)
    <3>1. dirty[r.at] = {} /\ ~r.drop /\ r.at = n /\ UNCHANGED <<dirty, commits>>
      BY <1>3, <2>6 DEF Clean, Emptied, Submit, Runs, Own, Adding
    <3>2. /\ act'[a].at = r.at
          /\ \/ act'[a].pc = "park" /\ act'[a].drop = r.drop
             \/ act'[a].pc = "unlock" /\ saved' = saved \cup commits[r.at]
      BY <1>3, <2>6, <3>1, FieldTurns DEF Turn
    <3> QED BY <1>3, <3>1, <3>2 DEF Emptied, Adding
  <2>7. CASE Edit(a)
    <3>1. act' = act /\ r.pc = "work" /\ ~r.drop
      BY <1>3, <2>7 DEF Clean, Edit, Adding
    <3> QED BY <1>3, <3>1 DEF Emptied, Leaving
  <2>8. CASE Commit(a)
    <3>1. act'[a].pc = "submit" /\ act'[a].at = n /\ ~act'[a].drop /\ dirty'[n] = {}
      BY <1>3, <2>0, <2>1, <2>8
      DEF Clean, Commit, CommitAll, TypeOK, Runs, Own, Adding, Pcs
    <3> QED BY <1>3, <3>1 DEF Emptied, Leaving
  <2>9. CASE PruneDir(a) \/ PruneBranch(a) \/ WorktreeAdd(a) \/ GiveUp(a)
    <3>1. ~r.drop /\ r.at = n
      BY <1>3, <2>9 DEF Clean, PruneDir, PruneBranch, WorktreeAdd, GiveUp, Adding, Runs, Own
    <3>2. /\ act'[a].pc \in {"prune", "open", "work", "unlock"}
          /\ act'[a].at = r.at /\ act'[a].drop = r.drop
      BY <2>1, <2>9 DEF PruneDir, PruneBranch, WorktreeAdd, GiveUp, Pcs, Adding, Leaving
    <3> QED BY <1>3, <2>0, <3>1, <3>2 DEF Emptied, Leaving, Own
  <2>10. CASE Unlock(a) \/ Unlink(a) \/ Remove(a)
    <3>1. /\ r.pc \in {"unlock", "unlink", "remove"}
          /\ act'[a].pc \in {"unlink", "remove", "delete"}
          /\ act'[a].at = r.at /\ act'[a].drop = r.drop
      BY <2>1, <2>10 DEF Unlock, Unlink, Remove, Pcs, Leaving
    <3>2. ~Edit(a)
      BY <3>1 DEF Edit
    <3>3. dirty'[r.at] \subseteq dirty[r.at] /\ saved \subseteq saved'
          /\ commits'[r.at] \subseteq commits[r.at] \cup dirty[r.at]
      BY <2>0, <3>2, WorkMoves
    <3>4. Emptied(a)' = Emptied(a) /\ r.pc \in Leaving
      BY <2>0, <3>1 DEF Emptied, Own, Leaving
    <3>5. /\ Emptied(a) => dirty[r.at] = {}
          /\ r.drop => commits[r.at] \subseteq saved /\ dirty[r.at] = {}
      BY <1>3, <3>4 DEF Clean, Emptied
    <3> QED BY <1>3, <3>1, <3>3, <3>4, <3>5 DEF Adding
  <2>11. CASE Delete(a) \/ Close(a)
    <3>1. ~Ending(a)
      BY <1>3 DEF Ending, Delete, TypeOK, Idle, Up
    <3>2. act'[a].pc \in {"close", "unclaim", "abort"}
      BY <2>1, <2>11, <3>1 DEF Delete, Close, Ending, Pcs, Sweeping
    <3> QED BY <1>3, <3>2 DEF Emptied, Adding, Leaving
  <2>12. ~(\E m \in Names : Add(a, m) \/ BackOff(a, m))
    BY <1>3, RunsAreUp DEF Add, BackOff
  <2> QED
    BY <2>2, <2>3, <2>4, <2>5, <2>6, <2>7, <2>8, <2>9, <2>10, <2>11, <2>12 DEF Step
<1> QED BY <1>1, <1>2, <1>3

LEMMA NothingGoes ==
  ASSUME LostInv, "status" \notin Faults, NEW a \in Actors, Step(a)
  PROVE  NothingLost'
<1> USE DEF LostInv, OwnInv
<1>0. ASSUME Up(a) PROVE act[a].at \in Names /\ act[a].name \in Names
  BY <1>0, RunsAreUp DEF Run
<1>10. dirs \subseteq Names /\ heads \subseteq Names /\ dirs \subseteq heads
  BY DEF TypeOK
<1>1. CASE Edit(a)
  <2>1. /\ made \in Nat /\ made' = made + 1 /\ act[a].name \in dirs
        /\ UNCHANGED <<dirs, heads, commits, saved, dropped>>
        /\ dirty' = [dirty EXCEPT ![act[a].name] = @ \cup {made + 1}]
    BY <1>1, WorktreesAssumption DEF Edit, TypeOK, WorktreesAssumption
  <2>2. /\ made + 1 \in dirty'[act[a].name]
        /\ \A n \in dirs : dirty[n] \subseteq dirty'[n]
    BY <2>1 DEF TypeOK
  <2>3. \A i \in 1..made' : i \in 1..made \/ i = made + 1
    BY <2>1
  <2> QED BY <2>1, <2>2, <2>3 DEF NothingLost
<1>2. ASSUME made' = made,
             \A n \in dirs : \A i \in dirty[n] :
               \/ n \in dirs' /\ i \in dirty'[n]
               \/ n \in heads' /\ i \in commits'[n]
               \/ i \in saved' \cup dropped',
             \A n \in heads : \A i \in commits[n] :
               \/ n \in heads' /\ i \in commits'[n]
               \/ i \in saved' \cup dropped',
             saved \cup dropped \subseteq saved' \cup dropped'
      PROVE  NothingLost'
  <2> SUFFICES ASSUME NEW i \in 1..made
               PROVE  \/ \E n \in dirs' : i \in dirty'[n]
                      \/ \E n \in heads' : i \in commits'[n]
                      \/ i \in saved' \cup dropped'
    BY <1>2 DEF NothingLost
  <2>1. dirs \subseteq Names /\ heads \subseteq Names
    BY DEF TypeOK
  <2>2. CASE \E n \in dirs : i \in dirty[n]
    BY <1>2, <2>1, <2>2
  <2>3. CASE \E n \in heads : i \in commits[n]
    BY <1>2, <2>1, <2>3
  <2>4. CASE i \in saved \cup dropped
    BY <1>2, <2>4
  <2> QED BY <2>2, <2>3, <2>4 DEF NothingLost
<1>3. CASE Save(a) \/ Commit(a)
  <2>1. Up(a)
    BY <1>3 DEF Save, Commit, Up
  <2>2. CASE UNCHANGED git
    BY <1>2, <2>2 DEF git
  <2>3. ASSUME NEW m \in dirs, CommitAll(m), UNCHANGED <<dirs, heads, saved, dropped, made>>
        PROVE  NothingLost'
    <3>1. /\ \A n \in Names : n # m => dirty'[n] = dirty[n] /\ commits'[n] = commits[n]
          /\ commits'[m] = commits[m] \cup dirty[m]
          /\ m \in heads /\ m \in Names
      BY <2>3 DEF CommitAll, TypeOK
    <3>2. \A n \in dirs : \A i \in dirty[n] :
           \/ n \in dirs' /\ i \in dirty'[n]
           \/ n \in heads' /\ i \in commits'[n]
           \/ i \in saved' \cup dropped'
      BY <1>10, <2>3, <3>1
    <3>3. \A n \in heads : \A i \in commits[n] :
           \/ n \in heads' /\ i \in commits'[n]
           \/ i \in saved' \cup dropped'
      BY <1>10, <2>3, <3>1
    <3> QED BY <1>2, <2>3, <3>2, <3>3
  <2> QED BY <1>3, <2>2, <2>3 DEF Save, Commit, git
<1>4. CASE Park(a) \/ Submit(a) \/ WorktreeAdd(a)
  BY <1>2, <1>4 DEF Park, Submit, WorktreeAdd
<1>5. CASE Remove(a)
  <2>1. Up(a) /\ act[a].pc = "remove" /\ act[a].at \in Names
    BY <1>0, <1>5 DEF Remove, Up
  <2>2. \A n \in Names : n # act[a].at => dirty'[n] = dirty[n]
    BY <1>5, <2>1 DEF Remove, RemoveDir, TypeOK
  <2>3. dirty[act[a].at] \subseteq dropped'
    BY <1>5, <2>1 DEF Remove, Clean, Emptied, Own, Leaving
  <2>4. /\ dirs' = dirs \ {act[a].at} /\ dropped \subseteq dropped'
        /\ UNCHANGED <<heads, commits, saved, made>>
    BY <1>5 DEF Remove, RemoveDir
  <2>5. \A n \in dirs : \A i \in dirty[n] :
         \/ n \in dirs' /\ i \in dirty'[n]
         \/ n \in heads' /\ i \in commits'[n]
         \/ i \in saved' \cup dropped'
    BY <1>10, <2>2, <2>3, <2>4
  <2>6. \A n \in heads : \A i \in commits[n] :
         \/ n \in heads' /\ i \in commits'[n]
         \/ i \in saved' \cup dropped'
    BY <1>10, <2>2, <2>3, <2>4
  <2> QED BY <1>2, <2>4, <2>5, <2>6
<1>6. CASE Delete(a)
  <2>1. Up(a) /\ act[a].pc = "delete" /\ act[a].at \in Names
    BY <1>0, <1>6 DEF Delete, Up
  <2>2. UNCHANGED <<dirs, dirty, saved, dropped, made>>
    BY <1>6 DEF Delete
  <2>3. CASE UNCHANGED <<heads, commits>>
    BY <1>2, <2>2, <2>3
  <2>4. CASE act[a].drop /\ act[a].at \notin dirs /\ DeleteBranch(act[a].at)
    <3>1. commits[act[a].at] \subseteq saved
      BY <2>1, <2>4 DEF Clean, Leaving
    <3>2. /\ heads' = heads \ {act[a].at}
          /\ \A n \in Names : n # act[a].at => commits'[n] = commits[n]
      BY <2>1, <2>4 DEF DeleteBranch, TypeOK
    <3>3. \A n \in dirs : \A i \in dirty[n] :
           \/ n \in dirs' /\ i \in dirty'[n]
           \/ n \in heads' /\ i \in commits'[n]
           \/ i \in saved' \cup dropped'
      BY <1>10, <2>2, <2>4, <3>1, <3>2
    <3>4. \A n \in heads : \A i \in commits[n] :
           \/ n \in heads' /\ i \in commits'[n]
           \/ i \in saved' \cup dropped'
      BY <1>10, <2>2, <2>4, <3>1, <3>2
    <3> QED BY <1>2, <2>2, <3>3, <3>4
  <2> QED BY <1>6, <2>3, <2>4 DEF Delete, DeleteBranch
<1>7. CASE PruneDir(a)
  <2>1. act[a].name \in Names
    BY <1>0, <1>7 DEF PruneDir, Up
  <2>2. /\ dirs' = dirs \ {act[a].name} /\ dropped' = dropped \cup dirty[act[a].name]
        /\ UNCHANGED <<heads, commits, saved, made>>
        /\ \A n \in Names : n # act[a].name => dirty'[n] = dirty[n]
    BY <1>7, <2>1 DEF PruneDir, RemoveDir, TypeOK
  <2>3. \A n \in dirs : \A i \in dirty[n] :
         \/ n \in dirs' /\ i \in dirty'[n]
         \/ n \in heads' /\ i \in commits'[n]
         \/ i \in saved' \cup dropped'
    BY <1>10, <2>2
  <2>4. \A n \in heads : \A i \in commits[n] :
         \/ n \in heads' /\ i \in commits'[n]
         \/ i \in saved' \cup dropped'
    BY <1>10, <2>2
  <2> QED BY <1>2, <2>2, <2>3, <2>4
<1>8. CASE PruneBranch(a)
  <2>1. act[a].name \in Names
    BY <1>0, <1>8 DEF PruneBranch, Up
  <2>2. /\ UNCHANGED <<dirs, dirty, saved, made>>
        /\ dropped' = dropped \cup (commits[act[a].name] \ commits'[act[a].name])
    BY <1>8 DEF PruneBranch
  <2>3. CASE UNCHANGED <<heads, commits>>
    BY <1>2, <2>2, <2>3
  <2>4. CASE act[a].name \notin dirs /\ DeleteBranch(act[a].name)
    <3>1. /\ heads' = heads \ {act[a].name} /\ commits'[act[a].name] = {}
          /\ \A n \in Names : n # act[a].name => commits'[n] = commits[n]
      BY <2>1, <2>4 DEF DeleteBranch, TypeOK
    <3>2. \A n \in dirs : \A i \in dirty[n] :
           \/ n \in dirs' /\ i \in dirty'[n]
           \/ n \in heads' /\ i \in commits'[n]
           \/ i \in saved' \cup dropped'
      BY <1>10, <2>2, <2>4, <3>1
    <3>3. \A n \in heads : \A i \in commits[n] :
           \/ n \in heads' /\ i \in commits'[n]
           \/ i \in saved' \cup dropped'
      BY <1>10, <2>2, <2>4, <3>1
    <3> QED BY <1>2, <2>2, <3>2, <3>3
  <2> QED BY <1>8, <2>3, <2>4 DEF PruneBranch, DeleteBranch
<1>9. CASE UNCHANGED git
  BY <1>2, <1>9 DEF git
<1> QED
  BY <1>1, <1>3, <1>4, <1>5, <1>6, <1>7, <1>8, <1>9
  DEF Step, Add, BackOff, Candidate, Claim, Unlock, Unlink, Close, Unclaim, OpenLock, Lock, GiveUp

(* When names are used once and no git status fails, no edit is lost: not  *)
(* to a sweep, a failed commit or park, or a death at any step.            *)
THEOREM NoEditLost == ~Reuse /\ "status" \notin Faults => (Spec => []NothingLost)
  <1> SUFFICES ASSUME ~Reuse, "status" \notin Faults PROVE Spec => []NothingLost
    OBVIOUS
  <1>1. Init => Clean /\ NothingLost
    BY DEF Init, Clean, NothingLost, Up, Idle
  <1>2. OwnInv /\ Clean /\ NothingLost /\ [Next]_vars => (Clean /\ NothingLost)'
    <2> SUFFICES ASSUME OwnInv, Clean, NothingLost, [Next]_vars PROVE (Clean /\ NothingLost)'
      OBVIOUS
    <2>1. CASE UNCHANGED vars
      BY <2>1 DEF vars, git, locks, Clean, NothingLost, Up, Emptied, Own
    <2>2. ASSUME NEW a \in Actors, Step(a) PROVE (Clean /\ NothingLost)'
      BY <2>2, CleanStays, NothingGoes DEF LostInv
    <2>3. ASSUME NEW h \in Hosts, Crash(h) PROVE (Clean /\ NothingLost)'
      <3>1. UNCHANGED git /\ \A a \in Actors : Up(a)' => act'[a] = act[a] /\ Up(a)
        BY <2>3, CrashTurns DEF OwnInv, Up, Idle
      <3> QED BY <3>1 DEF git, Clean, NothingLost, Emptied, Own
    <2> QED BY <2>1, <2>2, <2>3 DEF Next
  <1> QED BY <1>1, <1>2, Invariant, PTL DEF Spec
=============================================================================
