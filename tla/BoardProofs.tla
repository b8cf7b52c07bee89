----------------------------- MODULE BoardProofs -----------------------------
(***************************************************************************)
(* Proofs about Board: what the tables say at every step of an integrate,  *)
(* for any number of agents and files and whatever fails.                  *)
(***************************************************************************)
EXTENDS Board, TLAPS

(* The trunk the last verdict left, and the steps by what the trunk is.    *)
Base == IF call = Free THEN trunk ELSE call.before
Mine == call.before \cup Branch(call.agent)

Landing == {"gate", "parcels", "contracts", "verdict", "announce", "retire"}
Undone  == {"reparcels", "recontracts", "reject"}

Running ==
  call # Free =>
    /\ At(call.agent, "submit")
    /\ call.step = "merge" => trunk = call.before
    /\ call.step \in Landing => trunk = Mine
    /\ call.step = "rollback" => trunk \in {call.before, Mine}
    /\ call.step \in Undone => trunk = call.before

(* A file that landed work deleted is in no table, and a symbol that it    *)
(* removed has no contract.                                                *)
Ghosts(p) ==
  Gone(FileOf(p), Base) => rows[p] = None /\ holder[FileOf(p)] = Nobody

Retired(s) ==
  Gone(s, Base) \/ Gone(Home[s], Base) => contracts[s] = None

(* The rows of what is there are those of the base up to the transaction   *)
(* that rewrites them, and those of the trunk from there to the verdict; a *)
(* call that fails in between leaves either until run_index has run again. *)
(* A row may also be what an agent reported, but not the one whose call    *)
(* has rewritten it.                                                       *)
Reports(p, who) == {agent[a].report : a \in {x \in who : Writes[x] = p}} \ {None}
Others == Agents \ {call.agent}

Row(p) ==
  /\ call.step \in {"free", "merge", "gate", "parcels"} /\ Exists(p, Base) =>
       rows[p] \in {Hash(p, Base)} \cup Reports(p, Agents)
  /\ /\ call.step \in {"contracts", "verdict", "announce", "retire", "recontracts", "reject"}
     /\ Exists(p, trunk)
     => rows[p] \in {Hash(p, trunk)} \cup Reports(p, Others)

(* So it is with the contracts of what is frozen.                          *)
Signed(s) ==
  /\ /\ call.step \in {"free", "merge", "gate", "parcels", "contracts", "reject"}
     /\ Frozen(s, Base)
     => contracts[s] = Signature(s, Base)
  /\ call.step \in {"verdict", "announce", "retire"} /\ Frozen(s, trunk) =>
       contracts[s] = Signature(s, trunk)

(* What is frozen, before and after, and not announced, has not changed.   *)
Compared(s) ==
  /\ call.step = "contracts" =>
       call.snap[s] = IF Home[s] \in Changed(call.agent) THEN contracts[s] ELSE None
  /\ /\ call.step \in {"verdict", "announce"} /\ s \notin call.news
     /\ Frozen(s, call.before) /\ Frozen(s, trunk)
     => Signature(s, trunk) = Signature(s, call.before)

Heard(s) ==
  s \in kept =>
    /\ call.step # "retire" => Frozen(s, Base) /\ told[s] = Signature(s, Base)
    /\ call.step \in {"announce", "retire"} => Frozen(s, trunk)
    /\ call.step = "retire" => told[s] = Signature(s, trunk)

Contract(s) == Retired(s) /\ Signed(s) /\ Compared(s) /\ Heard(s)

Listed(p) == Ghosts(p) /\ Row(p)
Tables == (\A p \in Parcels : Listed(p)) /\ (\A s \in Symbols : Contract(s))

BoardInv == TypeOK /\ Running /\ Tables

(* The snapshots of the agents that depend on a symbol.                    *)
SymbolReaders == {a \in Agents : Reads[a] \in Symbols}

(* What the re-check can tell: the parcel is there, or its file was deleted*)
Checked(p, tree) == Exists(p, tree) \/ Gone(FileOf(p), tree)

Planned ==
  /\ \A a \in SymbolReaders :
       agent[a].quiet /\ agent[a].seen # None => agent[a].plan = agent[a].seen
  /\ call # Free /\ call.agent \in SymbolReaders /\ Checked(Reads[call.agent], call.before) =>
       agent[call.agent].plan \in {None, Hash(Reads[call.agent], call.before)}

-----------------------------------------------------------------------------
(* Parcels and trees.                                                      *)
LEMMA Places ==
  /\ \A p \in Parcels : FileOf(p) \in Files /\ FileOf(p) \in Parcels
  /\ \A f \in Files : f \in Parcels /\ FileOf(f) = f
  /\ \A s \in Symbols : s \in Parcels /\ FileOf(s) = Home[s] /\ Home[s] \in Files
  BY BoardAssumption DEF Parcels, FileOf

(* A parcel has a hash in the trees it is in.                              *)
LEMMA Trees ==
  ASSUME NEW p, NEW tree \in Tree
  PROVE  /\ Hash(p, tree) \in Hashes /\ Signature(p, tree) \in Tree
         /\ Hash(p, tree) = None <=> ~Exists(p, tree)
         /\ Signature(p, tree) # None
  <1>1. Patches(p, tree) \in Tree /\ Patches(p, tree) # None /\ Signature(p, tree) # None
    BY BoardAssumption DEF Patches, Tree, None, Signature
  <1> QED BY <1>1 DEF Hash, Signature, Tree, Hashes

(* What is gone stays gone in every larger tree.                           *)
LEMMA Larger ==
  ASSUME NEW tree \in Tree, NEW more \in Tree
  PROVE  /\ tree \cup more \in Tree
         /\ \A p : Gone(p, tree \cup more) <=> Gone(p, tree) \/ Gone(p, more)
  BY DEF Gone, Tree

LEMMA GoneIsAbsent ==
  ASSUME NEW p, NEW tree, Gone(p, tree) \/ Gone(FileOf(p), tree)
  PROVE  ~Exists(p, tree) /\ ~Frozen(p, tree)
  BY DEF Exists, There, Frozen

(* What a patch removes was there from the start.                          *)
LEMMA RemovedWasThere ==
  ASSUME NEW p \in Parcels, NEW tree \in Tree, NEW more \in Tree, Gone(p, more),
         ~Gone(p, tree), ~Gone(FileOf(p), tree)
  PROVE  Hash(p, tree) # Hash(p, more)
  <1>1. PICK a \in more : p \in Removes[a]
    BY DEF Gone
  <1>2. p \notin New
    BY <1>1, BoardAssumption DEF Tree
  <1>3. FileOf(p) \notin New
    BY <1>2, BoardAssumption DEF Parcels, FileOf
  <1>4. Exists(p, tree) /\ ~Exists(p, more)
    BY <1>2, <1>3 DEF Exists, There
  <1> QED BY <1>4, Trees

(* A merge that leaves the symbol there and its hash as it was leaves the  *)
(* signature.                                                              *)
LEMMA SameSignature ==
  ASSUME NEW s \in Symbols, NEW tree \in Tree, NEW more \in Tree,
         Exists(s, tree), Hash(s, tree) = Hash(s, more)
  PROVE  Signature(s, tree \cup more) = Signature(s, tree)
  <1>1. Exists(s, more)
    BY Trees
  <1>2. Patches(s, tree) = Patches(s, more)
    BY <1>1 DEF Hash
  <1>3. Patches(s, tree \cup more) = Patches(s, tree) \cup Patches(s, more)
    BY DEF Patches
  <1> QED BY <1>2, <1>3 DEF Signature

(* A file with a parcel that is another one on the branch has changed.     *)
LEMMA Unchanged ==
  ASSUME NEW a \in Agents, NEW p \in Parcels, FileOf(p) \notin Changed(a)
  PROVE  Hash(p, call.before) = Hash(p, Branch(a))
  BY DEF Changed

LEMMA ChangedFiles ==
  ASSUME NEW a \in Agents
  PROVE  Changed(a) \subseteq Files
  BY Places DEF Changed

-----------------------------------------------------------------------------
(* Records.                                                                *)
Calling == [step : Landing \cup Undone \cup {"merge", "rollback"},
            agent : Agents, before : Tree, snap : [Symbols -> Hashes],
            news : SUBSET Symbols]

(* The call, when one runs, is a record with all its fields.               *)
LEMMA Calls ==
  ASSUME TypeOK
  PROVE  /\ call = Free <=> call.step = "free"
         /\ call # Free => call \in Calling
  BY DEF TypeOK, Call, Calling, Free, Landing, Undone

LEMMA Callings ==
  ASSUME NEW c \in Calling
  PROVE  /\ c \in Call /\ c # Free /\ c.step # "free" /\ c.agent \in Agents
         /\ c.before \in Tree /\ c.snap \in [Symbols -> Hashes] /\ c.news \in SUBSET Symbols
         /\ c.step \in Landing \cup Undone \cup {"merge", "rollback"}
  BY DEF Call, Calling, Free, Landing, Undone

(* What becomes of the call when it takes a step.                          *)
Goes(step, snap, news) ==
  /\ call' \in Calling /\ call'.step = step
  /\ call'.agent = call.agent /\ call'.before = call.before
  /\ call'.snap = snap /\ call'.news = news

LEMMA Proceeds ==
  ASSUME call \in Calling, NEW step \in Landing \cup Undone \cup {"merge", "rollback"},
         Proceed(step)
  PROVE  Goes(step, call.snap, call.news)
  BY DEF Goes, Proceed, Calling

LEMMA TakesSnap ==
  ASSUME call \in Calling, NEW snap \in [Symbols -> Hashes],
         call' = [call EXCEPT !.step = "contracts", !.snap = snap]
  PROVE  Goes("contracts", snap, call.news)
  BY DEF Goes, Calling, Landing

LEMMA FindsNews ==
  ASSUME call \in Calling, NEW news \in SUBSET Symbols,
         call' = [call EXCEPT !.step = "verdict", !.news = news]
  PROVE  Goes("verdict", call.snap, news)
  BY DEF Goes, Calling, Landing

Pcs == {"idle", "lease", "fork", "report", "submit", "release"}

LEMMA RunFields ==
  ASSUME NEW r \in Run
  PROVE  /\ r.pc \in Pcs /\ r.plan \in Hashes /\ r.seen \in Hashes /\ r.quiet \in BOOLEAN
         /\ r.fork \in Tree /\ r.report \in Hashes /\ r.runs \in Nat
  BY DEF Run, Pcs

(* What becomes of the runs when the run of a does.                        *)
Moved(a, r) == agent' = [agent EXCEPT ![a] = r]

(* A run that is replaced by a well-typed one leaves the others alone.     *)
LEMMA Moves ==
  ASSUME TypeOK, NEW a \in Agents, NEW r, r \in Run, r.runs <= MaxRuns[a], Moved(a, r)
  PROVE  /\ agent' \in [Agents -> Run] /\ \A b \in Agents : agent'[b].runs <= MaxRuns[b]
         /\ agent'[a] = r /\ \A b \in Agents : b # a => agent'[b] = agent[b]
  BY DEF TypeOK, Moved

(* The steps that change no more of a run than where it is and its report. *)
Turn(a, pc, report) ==
  /\ agent' \in [Agents -> Run] /\ \A b \in Agents : agent'[b].runs <= MaxRuns[b]
  /\ agent'[a].pc = pc /\ agent'[a].report = report
  /\ agent'[a].plan = agent[a].plan /\ agent'[a].seen = agent[a].seen
  /\ agent'[a].quiet = agent[a].quiet /\ agent'[a].fork = agent[a].fork
  /\ \A b \in Agents : b # a => agent'[b] = agent[b]

LEMMA Turns ==
  ASSUME TypeOK, NEW a \in Agents, NEW pc \in Pcs, NEW report \in Hashes,
         agent' = [agent EXCEPT ![a].pc = pc, ![a].report = report]
  PROVE  Turn(a, pc, report)
  <1> DEFINE r == [agent[a] EXCEPT !.pc = pc, !.report = report]
  <1>1. agent[a] \in Run /\ agent[a].runs <= MaxRuns[a]
    BY DEF TypeOK
  <1>2. /\ r \in Run /\ r.pc = pc /\ r.report = report /\ r.plan = agent[a].plan
        /\ r.seen = agent[a].seen /\ r.quiet = agent[a].quiet /\ r.fork = agent[a].fork
        /\ r.runs = agent[a].runs
    BY <1>1 DEF Run, Pcs
  <1>3. Moved(a, r)
    BY <1>1 DEF Moved, TypeOK
  <1> HIDE DEF r
  <1> QED BY <1>1, <1>2, <1>3, Moves DEF Turn

(* Goto is such a step.                                                    *)
LEMMA GotoTurns ==
  ASSUME TypeOK, NEW a \in Agents, NEW pc \in Pcs, Goto(a, pc)
  PROVE  Turn(a, pc, agent[a].report)
  <1>1. agent[a] \in Run /\ agent[a].report \in Hashes
    BY RunFields DEF TypeOK
  <1>2. [agent[a] EXCEPT !.pc = pc] = [agent[a] EXCEPT !.pc = pc, !.report = agent[a].report]
    BY <1>1 DEF Run
  <1>3. agent' = [agent EXCEPT ![a].pc = pc, ![a].report = agent[a].report]
    BY <1>2 DEF Goto, TypeOK
  <1> QED BY <1>1, <1>3, Turns

-----------------------------------------------------------------------------
(* What an agent does, and a lapse, leaves the call and the tables alone,  *)
(* except that a report may take a row, and is then what the row says.     *)
Aside ==
  /\ UNCHANGED <<trunk, contracts, call, told, kept>>
  /\ call # Free => /\ agent'[call.agent].pc = agent[call.agent].pc
                    /\ agent'[call.agent].fork = agent[call.agent].fork
  /\ \A f \in Files : holder'[f] \in {holder[f], Nobody} \/ rows[f] # None
  /\ \A p \in Parcels :
       \/ rows'[p] = rows[p]
       \/ /\ rows[p] # None /\ rows'[p] # None
          /\ \E b \in Agents : /\ Writes[b] = p /\ rows'[p] = agent'[b].report
                               /\ call # Free => b # call.agent
  /\ \A b \in Agents : \/ agent'[b].report = agent[b].report
                       \/ /\ agent'[b].report # None
                          /\ rows'[Writes[b]] = agent'[b].report

(* A row stays the trunk's, or the report of one of the same agents.       *)
LEMMA RowsAside ==
  ASSUME Aside, NEW p \in Parcels, NEW who \in SUBSET Agents, NEW hash,
         who = Agents \/ (call # Free /\ who = Others),
         rows[p] \in {hash} \cup Reports(p, who)
  PROVE  rows'[p] \in {hash} \cup Reports(p, who)'
  <1>1. CASE rows'[p] # rows[p]
    BY <1>1 DEF Aside, Reports, Others
  <1>2. ASSUME rows'[p] = rows[p], NEW b \in who, Writes[b] = p,
               rows[p] = agent[b].report, rows[p] # None
        PROVE  rows'[p] \in Reports(p, who)'
    BY <1>2 DEF Aside, Reports
  <1> QED BY <1>1, <1>2 DEF Reports

(* Such a step keeps every part of the invariant.                          *)
LEMMA AsideKeeps ==
  ASSUME TypeOK, Running, Tables, Aside
  PROVE  Running' /\ Tables'
  <1>0. call # Free => call \in Calling /\ call.agent \in Agents
    BY Calls, Callings
  <1>1. /\ trunk' = trunk /\ call' = call /\ Base' = Base /\ Others' = Others
        /\ call # Free => Branch(call.agent)' = Branch(call.agent)
    BY DEF Aside, Base, Others, Branch
  <1>2. Running'
    BY <1>1 DEF Running, Mine, At, Aside
  <1>3. ASSUME NEW p \in Parcels PROVE Listed(p)'
    <2>1. Ghosts(p)'
      <3>1. rows'[p] = None <=> rows[p] = None
        BY DEF Aside
      <3>2. FileOf(p) \in Files /\ FileOf(p) \in Parcels /\ FileOf(FileOf(p)) = FileOf(p)
        BY Places
      <3>3. Gone(FileOf(p), Base) => rows[FileOf(p)] = None
        BY <3>2 DEF Tables, Listed, Ghosts
      <3> QED BY <1>1, <3>1, <3>2, <3>3 DEF Tables, Listed, Ghosts, Aside
    <2>2. Row(p)'
      <3>1. call.step \in {"contracts", "verdict", "announce", "retire", "recontracts", "reject"}
              => call # Free
        BY DEF Free
      <3>2. \A hash : rows[p] \in {hash} \cup Reports(p, Agents) =>
                        rows'[p] \in {hash} \cup Reports(p, Agents)'
        BY RowsAside
      <3>3. call # Free =>
              \A hash : rows[p] \in {hash} \cup Reports(p, Others) =>
                          rows'[p] \in {hash} \cup Reports(p, Others)'
        BY <1>1, RowsAside DEF Others
      <3> QED BY <1>1, <3>1, <3>2, <3>3 DEF Tables, Listed, Row
    <2> QED BY <2>1, <2>2 DEF Listed
  <1>4. ASSUME NEW s \in Symbols PROVE Contract(s)'
    <2>1. Retired(s)' /\ Signed(s)' /\ Heard(s)'
      BY <1>1 DEF Tables, Contract, Retired, Signed, Heard, Aside
    <2>2. call # Free => Changed(call.agent)' = Changed(call.agent)
      BY <1>1 DEF Changed
    <2>3. call.step \in {"contracts", "verdict", "announce"} => call # Free
      BY DEF Free
    <2>4. Compared(s)'
      BY <1>1, <2>2, <2>3 DEF Tables, Contract, Compared, Aside
    <2> QED BY <2>1, <2>4 DEF Contract
  <1> QED BY <1>2, <1>3, <1>4 DEF Tables

(* Each action of an agent is one, and keeps the types.                    *)
LEMMA PlanAside ==
  ASSUME TypeOK, NEW a \in Agents, Plan(a), Running
  PROVE  TypeOK' /\ Aside
  <1> DEFINE quiet == call = Free
             plan == DepRow(a)
             seen == Hash(Reads[a], trunk)
             runs == agent[a].runs + 1
             r == [agent[a] EXCEPT !.pc = "lease", !.plan = plan, !.runs = runs,
                                   !.seen = seen, !.quiet = quiet]
  <1>1. agent[a] \in Run /\ agent[a].runs < MaxRuns[a] /\ Reads[a] \in Parcels /\ MaxRuns[a] \in Nat
    BY BoardAssumption DEF TypeOK, Plan
  <1>2. plan \in Hashes /\ seen \in Hashes
    BY <1>1, Trees DEF DepRow, TypeOK
  <1>3. Moved(a, r)
    BY Zenon DEF Plan, Moved
  <1>4. quiet \in BOOLEAN
    OBVIOUS
  <1>5. runs \in Nat /\ runs <= MaxRuns[a]
    BY <1>1, RunFields
  <1> HIDE DEF quiet, plan, seen, runs
  <1>6. r \in Run /\ r.fork = agent[a].fork /\ r.report = agent[a].report /\ r.runs = runs
    BY <1>1, <1>2, <1>4, <1>5 DEF Run
  <1> HIDE DEF r
  <1>7. /\ agent' \in [Agents -> Run] /\ \A b \in Agents : agent'[b].runs <= MaxRuns[b]
        /\ agent'[a] = r /\ \A b \in Agents : b # a => agent'[b] = agent[b]
    BY <1>3, <1>5, <1>6, Moves
  <1>8. call # Free => call.agent # a /\ call.agent \in Agents
    BY Calls, Callings DEF Running, At, Plan
  <1>9. Aside
    BY <1>6, <1>7, <1>8 DEF Aside, Plan
  <1> QED BY <1>7, <1>9 DEF TypeOK, Plan

LEMMA LeaseAside ==
  ASSUME TypeOK, NEW a \in Agents, Lease(a), Running
  PROVE  TypeOK' /\ Aside
  <1>1. PICK pc \in {"fork", "idle"} : Goto(a, pc)
    BY DEF Lease
  <1>2. Turn(a, pc, agent[a].report)
    BY <1>1, GotoTurns DEF Pcs
  <1>3. /\ holder' \in [Files -> Agents \cup {Nobody}]
        /\ \A f \in Files : holder'[f] = holder[f] \/ rows[f] # None
    BY BoardAssumption DEF Lease, TypeOK
  <1>4. call # Free => call.agent # a /\ call.agent \in Agents
    BY Calls, Callings DEF Running, At, Lease
  <1>5. Aside
    BY <1>2, <1>3, <1>4 DEF Aside, Turn, Lease
  <1> QED BY <1>2, <1>3, <1>5 DEF TypeOK, Lease, Turn

LEMMA ForkAside ==
  ASSUME TypeOK, NEW a \in Agents, Fork(a), Running
  PROVE  TypeOK' /\ Aside
  <1> DEFINE r == [agent[a] EXCEPT !.pc = "report", !.fork = trunk]
  <1>1. agent[a] \in Run /\ agent[a].runs <= MaxRuns[a] /\ trunk \in Tree
    BY DEF TypeOK
  <1>2. r \in Run /\ r.report = agent[a].report /\ r.runs = agent[a].runs
    BY <1>1 DEF Run
  <1>3. Moved(a, r)
    BY <1>1 DEF Fork, Moved, TypeOK
  <1> HIDE DEF r
  <1>4. /\ agent' \in [Agents -> Run] /\ \A b \in Agents : agent'[b].runs <= MaxRuns[b]
        /\ agent'[a] = r /\ \A b \in Agents : b # a => agent'[b] = agent[b]
    BY <1>1, <1>2, <1>3, Moves
  <1>5. call # Free => call.agent # a /\ call.agent \in Agents
    BY Calls, Callings DEF Running, At, Fork
  <1>6. Aside
    BY <1>2, <1>4, <1>5 DEF Aside, Fork
  <1> QED BY <1>4, <1>6 DEF TypeOK, Fork

(* The one that writes a row: the agent that reports is not in a call.     *)
LEMMA ReportAside ==
  ASSUME TypeOK, NEW a \in Agents, Report(a), Running
  PROVE  TypeOK' /\ Aside
  <1> DEFINE f == Writes[a]
             hash == Hash(f, Branch(a))
             lands == hash # None /\ holder[f] = a
             report == IF lands THEN hash ELSE agent[a].report
  <1>1. agent[a] \in Run /\ f \in Files /\ f \in Parcels /\ a # Nobody
    BY BoardAssumption DEF TypeOK, Parcels
  <1>2. agent[a].fork \in Tree /\ agent[a].report \in Hashes
    BY <1>1, RunFields
  <1>3. hash \in Hashes
    BY <1>1, <1>2, Trees DEF Branch, Tree
  <1>4. /\ report \in Hashes
        /\ lands => report = hash
        /\ ~lands => report = agent[a].report
    BY <1>2, <1>3
  <1>5. agent' = [agent EXCEPT ![a].pc = "submit", ![a].report = report]
    BY <1>1 DEF Report, TypeOK
  <1>6. /\ rows' = IF lands THEN [rows EXCEPT ![f] = hash] ELSE rows
        /\ lands => hash # None /\ rows[f] # None
        /\ UNCHANGED <<trunk, contracts, holder, call, told, kept>>
    BY <1>1 DEF Report, TypeOK
  <1>7. call # Free => call.agent # a /\ call.agent \in Agents
    BY Calls, Callings DEF Running, At, Report
  <1> HIDE DEF hash, lands, report
  <1>8. Turn(a, "submit", report)
    BY <1>4, <1>5, Turns DEF Pcs
  <1>9. /\ rows' \in [Parcels -> Hashes]
        /\ \A g \in Parcels : rows'[g] = IF lands /\ g = f THEN hash ELSE rows[g]
    BY <1>1, <1>3, <1>6 DEF TypeOK
  <1>10. TypeOK'
    BY <1>6, <1>8, <1>9 DEF TypeOK, Turn
  <1>11. /\ UNCHANGED <<trunk, contracts, call, told, kept>>
         /\ call # Free => /\ agent'[call.agent].pc = agent[call.agent].pc
                           /\ agent'[call.agent].fork = agent[call.agent].fork
         /\ \A g \in Files : holder'[g] \in {holder[g], Nobody} \/ rows[g] # None
    BY <1>6, <1>7, <1>8 DEF Turn
  <1>12. lands => report = hash /\ hash # None /\ rows[f] # None
    BY <1>4, <1>6
  <1>13. ASSUME NEW g \in Parcels, rows'[g] # rows[g]
         PROVE  /\ rows[g] # None /\ rows'[g] # None
                /\ \E b \in Agents : /\ Writes[b] = g /\ rows'[g] = agent'[b].report
                                     /\ call # Free => b # call.agent
    <2>1. lands /\ g = f /\ rows'[g] = hash
      BY <1>9, <1>13
    <2>2. Writes[a] = g /\ rows'[g] = agent'[a].report
      BY <1>8, <1>12, <2>1 DEF Turn
    <2> QED BY <1>7, <1>12, <2>1, <2>2
  <1>14. ASSUME NEW b \in Agents, agent'[b].report # agent[b].report
         PROVE  /\ agent'[b].report # None
                /\ rows'[Writes[b]] = agent'[b].report
    <2>1. b = a /\ lands
      BY <1>4, <1>8, <1>14 DEF Turn
    <2>2. rows'[f] = hash /\ agent'[b].report = hash
      BY <1>1, <1>8, <1>9, <1>12, <2>1 DEF Turn
    <2> QED BY <1>12, <2>1, <2>2
  <1> HIDE DEF f
  <1>15. Aside
    BY <1>11, <1>13, <1>14 DEF Aside
  <1> QED BY <1>10, <1>15

LEMMA LeaveAside ==
  ASSUME TypeOK, NEW a \in Agents, GiveUp(a) \/ NeedsRebase(a), Running
  PROVE  TypeOK' /\ Aside
  <1>1. Goto(a, "release") /\ UNCHANGED <<trunk, rows, contracts, holder, call, told, kept>>
    BY DEF GiveUp, NeedsRebase
  <1>2. Turn(a, "release", agent[a].report)
    BY <1>1, GotoTurns DEF Pcs
  <1>3. call # Free => call.agent # a /\ call.agent \in Agents
    BY Calls, Callings DEF Running, At, GiveUp, NeedsRebase
  <1>4. Aside
    BY <1>1, <1>2, <1>3 DEF Aside, Turn
  <1> QED BY <1>1, <1>2, <1>4 DEF TypeOK, Turn

LEMMA ReleaseAside ==
  ASSUME TypeOK, NEW a \in Agents, Release(a), Running
  PROVE  TypeOK' /\ Aside
  <1> DEFINE r == [agent[a] EXCEPT !.pc = "idle", !.plan = None, !.seen = None,
                                   !.quiet = TRUE, !.fork = {}]
  <1>1. agent[a] \in Run /\ agent[a].runs <= MaxRuns[a] /\ None \in Hashes /\ {} \in Tree
    BY DEF TypeOK, Hashes, Tree
  <1>2. r \in Run /\ r.report = agent[a].report /\ r.runs = agent[a].runs
    BY <1>1 DEF Run
  <1>3. Moved(a, r)
    BY <1>1 DEF Release, Moved, TypeOK
  <1> HIDE DEF r
  <1>4. /\ agent' \in [Agents -> Run] /\ \A b \in Agents : agent'[b].runs <= MaxRuns[b]
        /\ agent'[a] = r /\ \A b \in Agents : b # a => agent'[b] = agent[b]
    BY <1>1, <1>2, <1>3, Moves
  <1>5. call # Free => call.agent # a /\ call.agent \in Agents
    BY Calls, Callings DEF Running, At, Release
  <1>6. /\ holder' \in [Files -> Agents \cup {Nobody}]
        /\ \A f \in Files : holder'[f] \in {holder[f], Nobody}
        /\ UNCHANGED <<trunk, rows, contracts, call, told, kept>>
    BY BoardAssumption DEF Release, TypeOK
  <1>7. Aside
    BY <1>2, <1>4, <1>5, <1>6 DEF Aside
  <1> QED BY <1>4, <1>6, <1>7 DEF TypeOK

LEMMA LapseAside ==
  ASSUME TypeOK, NEW f \in Files, Lapse(f)
  PROVE  TypeOK' /\ Aside
  BY DEF TypeOK, Lapse, Aside

(* The start of an integrate, the tables as they are.                      *)
LEMMA StartTyped ==
  ASSUME TypeOK, NEW a \in Agents, Start(a)
  PROVE  /\ TypeOK' /\ call' \in Calling /\ call'.step = "merge" /\ call'.agent = a
         /\ call'.before = trunk
  <1>1. call' \in Calling /\ call'.step = "merge" /\ call'.agent = a /\ call'.before = trunk
    BY DEF TypeOK, Start, Calling, Hashes
  <1> QED BY <1>1, Callings DEF TypeOK, Start

LEMMA StartKeeps ==
  ASSUME TypeOK, Running, Tables, NEW a \in Agents, Start(a)
  PROVE  Running' /\ Tables'
  <1>1. /\ call' \in Calling /\ call'.step = "merge" /\ call'.agent = a /\ call'.before = trunk
        /\ call' # Free /\ call = Free /\ call.step = "free"
        /\ UNCHANGED <<trunk, rows, contracts, holder, agent, told, kept>>
    BY StartTyped, Callings, Calls DEF Start
  <1>2. Base = trunk /\ Base' = trunk
    BY <1>1 DEF Base
  <1>3. Running'
    BY <1>1 DEF Running, Landing, Undone, At, Start
  <1>4. ASSUME NEW p \in Parcels PROVE Listed(p)'
    BY <1>1, <1>2 DEF Tables, Listed, Ghosts, Row, Reports
  <1>5. ASSUME NEW s \in Symbols PROVE Contract(s)'
    BY <1>1, <1>2 DEF Tables, Contract, Retired, Signed, Heard, Compared
  <1> QED BY <1>3, <1>4, <1>5 DEF Tables

(* The steps of an integrate: what stays over each of them.                *)
LEMMA Onward ==
  ASSUME TypeOK, call # Free, NEW step, NEW snap, NEW news, Goes(step, snap, news),
         \A b \in Agents : agent'[b].fork = agent[b].fork
  PROVE  /\ call \in Calling /\ call.agent \in Agents /\ call.before \in Tree
         /\ call' # Free /\ call'.agent = call.agent /\ call'.before = call.before
         /\ Base = call.before /\ Base' = Base /\ Mine' = Mine /\ Others' = Others
         /\ Branch(call.agent) \in Tree /\ Mine \in Tree /\ call' \in Call
         /\ \A b \in Agents : Branch(b)' = Branch(b) /\ Changed(b)' = Changed(b)
  <1>1. /\ call \in Calling /\ call.agent \in Agents /\ call.before \in Tree
        /\ call' # Free /\ call'.agent = call.agent /\ call'.before = call.before /\ call' \in Call
    BY Calls, Callings DEF Goes
  <1>2. agent[call.agent].fork \in Tree
    BY <1>1, RunFields DEF TypeOK
  <1>3. Branch(call.agent) \in Tree /\ Mine \in Tree
    BY <1>1, <1>2 DEF Branch, Mine, Tree
  <1>4. \A b \in Agents : Branch(b)' = Branch(b) /\ Changed(b)' = Changed(b)
    BY <1>1 DEF Branch, Changed
  <1>5. Mine' = Mine
    BY <1>1, <1>4 DEF Mine
  <1> QED BY <1>1, <1>3, <1>4, <1>5 DEF Base, Others

(* A merge, or none: the tables still describe the base.                   *)
LEMMA MergeKeeps ==
  ASSUME TypeOK, Running, Tables, NEW a \in Agents, Merge(a)
  PROVE  TypeOK' /\ Running' /\ Tables'
  <1>1. call # Free /\ call \in Calling /\ a = call.agent /\ call.step = "merge"
    BY Calls DEF Merge, Step
  <1>2. PICK step \in {"gate", "rollback"} :
          /\ Goes(step, call.snap, call.news)
          /\ trunk' = IF step = "gate" THEN Mine ELSE call.before
    BY <1>1, Proceeds DEF Merge, Landing, Running, Mine
  <1>3. UNCHANGED <<rows, contracts, holder, agent, told, kept>>
    BY DEF Merge
  <1>4. TypeOK'
    BY <1>1, <1>2, <1>3, Onward DEF TypeOK
  <1>5. Running'
    BY <1>1, <1>2, <1>3, Onward DEF Running, Landing, Undone, At, Goes
  <1>6. Base = call.before /\ Base' = Base
    BY <1>1, <1>2, <1>3, Onward
  <1>7. ASSUME NEW p \in Parcels PROVE Listed(p)'
    BY <1>1, <1>2, <1>3, <1>6 DEF Tables, Listed, Ghosts, Row, Goes, Reports
  <1>8. ASSUME NEW s \in Symbols PROVE Contract(s)'
    BY <1>1, <1>2, <1>3, <1>6 DEF Tables, Contract, Retired, Signed, Heard, Compared, Goes
  <1> QED BY <1>4, <1>5, <1>7, <1>8 DEF Tables

LEMMA GateKeeps ==
  ASSUME TypeOK, Running, Tables, NEW a \in Agents, Gate(a)
  PROVE  TypeOK' /\ Running' /\ Tables'
  <1>1. call # Free /\ call \in Calling /\ a = call.agent /\ call.step = "gate"
    BY Calls DEF Gate, Step
  <1>2. PICK step \in {"parcels", "rollback"} : Goes(step, call.snap, call.news)
    BY <1>1, Proceeds DEF Gate, Landing
  <1>3. UNCHANGED <<trunk, rows, contracts, holder, agent, told, kept>>
    BY DEF Gate
  <1>4. TypeOK'
    BY <1>1, <1>2, <1>3, Onward DEF TypeOK
  <1>5. Running'
    BY <1>1, <1>2, <1>3, Onward DEF Running, Landing, Undone, At, Goes
  <1>6. Base = call.before /\ Base' = Base
    BY <1>1, <1>2, <1>3, Onward
  <1>7. ASSUME NEW p \in Parcels PROVE Listed(p)'
    BY <1>1, <1>2, <1>3, <1>6 DEF Tables, Listed, Ghosts, Row, Goes, Reports
  <1>8. ASSUME NEW s \in Symbols PROVE Contract(s)'
    BY <1>1, <1>2, <1>3, <1>6 DEF Tables, Contract, Retired, Signed, Heard, Compared, Goes
  <1> QED BY <1>4, <1>5, <1>7, <1>8 DEF Tables

(* The two transactions of run_index.                                      *)
LEMMA ParcelRows ==
  ASSUME TypeOK, UpsertParcels(trunk), trunk \in Tree
  PROVE  /\ rows' \in [Parcels -> Hashes]
         /\ \A p \in Parcels : /\ Exists(p, trunk) => rows'[p] = Hash(p, trunk)
                               /\ ~Exists(p, trunk) => rows'[p] = rows[p]
                               /\ rows[p] # None => rows'[p] # None
         /\ \A f \in Files : rows[f] # None => rows'[f] # None
  <1>1. \A p \in Parcels : Hash(p, trunk) \in Hashes /\ (Exists(p, trunk) => Hash(p, trunk) # None)
    BY Trees
  <1>2. \A p \in Parcels : rows'[p] = IF Exists(p, trunk) THEN Hash(p, trunk) ELSE rows[p]
    BY DEF UpsertParcels
  <1>3. rows' \in [Parcels -> Hashes]
    BY <1>1 DEF UpsertParcels, TypeOK
  <1> QED BY <1>1, <1>2, <1>3, Places

LEMMA ContractRows ==
  ASSUME TypeOK, UpsertContracts(trunk), trunk \in Tree
  PROVE  /\ contracts' \in [Symbols -> Hashes]
         /\ \A s \in Symbols : /\ Frozen(s, trunk) => contracts'[s] = Signature(s, trunk)
                               /\ ~Frozen(s, trunk) => contracts'[s] = contracts[s]
  <1>1. \A s \in Symbols : Signature(s, trunk) \in Hashes
    BY Trees DEF Hashes
  <1> QED BY <1>1 DEF UpsertContracts, TypeOK

(* The merged tree lacks what the base lacks.                              *)
LEMMA MergedTree ==
  ASSUME TypeOK, Running, call # Free, call.step \in Landing
  PROVE  /\ trunk = Mine /\ trunk \in Tree /\ call.before \in Tree
         /\ Branch(call.agent) \in Tree /\ trunk = call.before \cup Branch(call.agent)
         /\ \A p : Gone(p, trunk) <=> Gone(p, call.before) \/ Gone(p, Branch(call.agent))
  <1>1. /\ call.agent \in Agents /\ call.before \in Tree /\ trunk = Mine /\ trunk \in Tree
    BY Calls, Callings DEF Running, TypeOK
  <1>2. agent[call.agent].fork \in Tree
    BY <1>1, RunFields DEF TypeOK
  <1>3. Branch(call.agent) \in Tree
    BY <1>1, <1>2 DEF Branch, Tree
  <1> QED BY <1>1, <1>3, Larger DEF Mine

(* The first transaction, with the snapshot of the contracts before it.    *)
LEMMA IndexParcelsKeeps ==
  ASSUME TypeOK, Running, Tables, NEW a \in Agents, IndexParcels(a)
  PROVE  TypeOK' /\ Running' /\ Tables'
  <1>1. /\ call # Free /\ call \in Calling /\ a = call.agent /\ call.step = "parcels"
        /\ UNCHANGED <<trunk, contracts, holder, agent, told, kept>>
    BY Calls DEF IndexParcels, Step
  <1>2. /\ trunk = Mine /\ trunk \in Tree
        /\ \A p : Gone(p, trunk) <=> Gone(p, call.before) \/ Gone(p, Branch(call.agent))
    BY <1>1, MergedTree DEF Landing
  <1>3. CASE /\ UpsertParcels(trunk)
             /\ call' = [call EXCEPT !.step = "contracts", !.snap =
                  [s \in Symbols |-> IF Home[s] \in Changed(a) THEN contracts[s] ELSE None]]
    <2> DEFINE snap == [s \in Symbols |-> IF Home[s] \in Changed(a) THEN contracts[s] ELSE None]
    <2>1. snap \in [Symbols -> Hashes]
      BY DEF TypeOK, Hashes
    <2>2. \A s \in Symbols : snap[s] = IF Home[s] \in Changed(a) THEN contracts[s] ELSE None
      OBVIOUS
    <2>3. call' = [call EXCEPT !.step = "contracts", !.snap = snap]
      BY <1>3
    <2> HIDE DEF snap
    <2>4. Goes("contracts", snap, call.news)
      BY <1>1, <2>1, <2>3, TakesSnap
    <2>5. TypeOK'
      BY <1>1, <1>2, <1>3, <2>4, Onward, ParcelRows DEF TypeOK
    <2>6. Running'
      BY <1>1, <1>2, <2>4, Onward DEF Running, Landing, Undone, At, Goes
    <2>7. Base = call.before /\ Base' = Base /\ Changed(call.agent)' = Changed(call.agent)
      BY <1>1, <2>4, Onward
    <2>8. ASSUME NEW p \in Parcels PROVE Listed(p)'
      <3>1. Gone(FileOf(p), Base) => rows'[p] = rows[p]
        BY <1>2, <1>3, <2>7, ParcelRows, GoneIsAbsent
      <3>2. Ghosts(p)'
        BY <1>1, <2>7, <3>1 DEF Tables, Listed, Ghosts
      <3>3. Row(p)'
        BY <1>1, <1>2, <1>3, <2>4, <2>7, ParcelRows DEF Row, Goes
      <3> QED BY <3>2, <3>3 DEF Listed
    <2>9. ASSUME NEW s \in Symbols PROVE Contract(s)'
      <3>1. Retired(s)' /\ Signed(s)' /\ Heard(s)'
        BY <1>1, <2>4, <2>7 DEF Tables, Contract, Retired, Signed, Heard, Goes
      <3>2. Compared(s)'
        BY <1>1, <2>2, <2>4, <2>7 DEF Compared, Goes
      <3> QED BY <3>1, <3>2 DEF Contract
    <2> QED BY <2>5, <2>6, <2>8, <2>9 DEF Tables
  <1>4. CASE Proceed("rollback") /\ UNCHANGED rows
    <2>1. Goes("rollback", call.snap, call.news)
      BY <1>1, <1>4, Proceeds
    <2>2. TypeOK'
      BY <1>1, <1>4, <2>1, Onward DEF TypeOK
    <2>3. Running'
      BY <1>1, <1>2, <2>1, Onward DEF Running, Landing, Undone, At, Goes
    <2>4. Base = call.before /\ Base' = Base
      BY <1>1, <2>1, Onward
    <2>5. ASSUME NEW p \in Parcels PROVE Listed(p)'
      BY <1>1, <1>4, <2>1, <2>4 DEF Tables, Listed, Ghosts, Row, Goes
    <2>6. ASSUME NEW s \in Symbols PROVE Contract(s)'
      BY <1>1, <2>1, <2>4 DEF Tables, Contract, Retired, Signed, Heard, Compared, Goes
    <2> QED BY <2>2, <2>3, <2>5, <2>6 DEF Tables
  <1> QED BY <1>3, <1>4 DEF IndexParcels

(* The second transaction: a symbol frozen before and after that is not in *)
(* the news has either not changed between the base and the branch, or     *)
(* kept its signature.                                                     *)
LEMMA IndexContractsKeeps ==
  ASSUME TypeOK, Running, Tables, NEW a \in Agents, IndexContracts(a)
  PROVE  TypeOK' /\ Running' /\ Tables'
  <1>1. /\ call # Free /\ call \in Calling /\ a = call.agent /\ call.step = "contracts"
        /\ UNCHANGED <<trunk, rows, holder, agent, told, kept>>
    BY Calls DEF IndexContracts, Step
  <1>2. /\ trunk = Mine /\ trunk \in Tree /\ call.before \in Tree
        /\ Branch(a) \in Tree /\ trunk = call.before \cup Branch(a)
        /\ \A p : Gone(p, trunk) <=> Gone(p, call.before) \/ Gone(p, Branch(a))
    BY <1>1, MergedTree DEF Landing
  <1>3. ASSUME UpsertContracts(trunk), NEW s \in Symbols,
               Gone(s, call.before) \/ Gone(Home[s], call.before)
        PROVE  contracts'[s] = contracts[s]
    BY <1>2, <1>3, ContractRows, GoneIsAbsent, Places
  <1>4. CASE /\ UpsertContracts(trunk)
             /\ call' = [call EXCEPT !.step = "verdict", !.news =
                  {s \in Symbols : call.snap[s] \notin {None, contracts'[s]}}]
    <2> DEFINE news == {s \in Symbols : call.snap[s] \notin {None, contracts'[s]}}
    <2>1. Goes("verdict", call.snap, news)
      BY <1>1, <1>4, FindsNews
    <2>2. \A s \in Symbols : s \notin news <=> call.snap[s] \in {None, contracts'[s]}
      OBVIOUS
    <2> HIDE DEF news
    <2>3. TypeOK'
      BY <1>1, <1>2, <1>4, <2>1, Onward, ContractRows DEF TypeOK
    <2>4. Running'
      BY <1>1, <1>2, <2>1, Onward DEF Running, Landing, Undone, At, Goes
    <2>5. Base = call.before /\ Base' = Base /\ Others' = Others
      BY <1>1, <2>1, Onward
    <2>6. ASSUME NEW p \in Parcels PROVE Listed(p)'
      BY <1>1, <2>1, <2>5 DEF Tables, Listed, Ghosts, Row, Goes, Reports
    <2>7. ASSUME NEW s \in Symbols PROVE Contract(s)'
      <3>1. Retired(s)'
        BY <1>1, <1>3, <1>4, <2>5 DEF Tables, Contract, Retired
      <3>2. Signed(s)' /\ Heard(s)'
        BY <1>1, <1>2, <1>4, <2>1, <2>5, ContractRows DEF Tables, Contract, Signed, Heard, Goes
      <3>3. ASSUME Frozen(s, call.before), Frozen(s, trunk), s \notin news
            PROVE  Signature(s, trunk) = Signature(s, call.before)
        <4>1. /\ contracts'[s] = Signature(s, trunk)
              /\ contracts[s] = Signature(s, call.before) /\ contracts[s] # None
          BY <1>1, <1>2, <1>4, <2>5, <3>3, ContractRows, Trees DEF Tables, Contract, Signed
        <4>2. call.snap[s] = IF Home[s] \in Changed(a) THEN contracts[s] ELSE None
          BY <1>1 DEF Tables, Contract, Compared
        <4>3. CASE Home[s] \in Changed(a)
          BY <2>2, <3>3, <4>1, <4>2, <4>3
        <4>4. CASE Home[s] \notin Changed(a)
          <5>1. Hash(s, call.before) = Hash(s, Branch(a))
            BY <4>4, Places, Unchanged
          <5>2. Exists(s, call.before)
            BY <3>3 DEF Frozen
          <5> QED BY <1>2, <5>1, <5>2, SameSignature
        <4> QED BY <4>3, <4>4
      <3>4. Compared(s)'
        BY <1>1, <2>1, <2>5, <3>3 DEF Compared, Goes
      <3> QED BY <3>1, <3>2, <3>4 DEF Contract
    <2> QED BY <2>3, <2>4, <2>6, <2>7 DEF Tables
  <1>5. CASE Proceed("rollback") /\ (UpsertContracts(trunk) \/ UNCHANGED contracts)
    <2>1. Goes("rollback", call.snap, call.news)
      BY <1>1, <1>5, Proceeds
    <2>2. TypeOK'
      BY <1>1, <1>2, <1>5, <2>1, Onward, ContractRows DEF TypeOK
    <2>3. Running'
      BY <1>1, <1>2, <2>1, Onward DEF Running, Landing, Undone, At, Goes
    <2>4. Base = call.before /\ Base' = Base
      BY <1>1, <2>1, Onward
    <2>5. ASSUME NEW p \in Parcels PROVE Listed(p)'
      BY <1>1, <2>1, <2>4 DEF Tables, Listed, Ghosts, Row, Goes
    <2>6. ASSUME NEW s \in Symbols PROVE Contract(s)'
      <3>1. Retired(s)'
        BY <1>1, <1>3, <1>5, <2>4 DEF Tables, Contract, Retired
      <3> QED BY <1>1, <2>1, <2>4, <3>1 DEF Tables, Contract, Signed, Heard, Compared, Goes
    <2> QED BY <2>2, <2>3, <2>5, <2>6 DEF Tables
  <1> QED BY <1>4, <1>5 DEF IndexContracts

(* The verdict clears the report of its agent, whose row was rewritten.    *)
LEMMA MergedKeeps ==
  ASSUME TypeOK, Running, Tables, NEW a \in Agents, Merged(a)
  PROVE  TypeOK' /\ Running' /\ Tables'
  <1>1. /\ call # Free /\ call \in Calling /\ a = call.agent /\ call.step = "verdict"
        /\ agent[a].pc = "submit" /\ trunk = Mine
        /\ UNCHANGED <<trunk, rows, contracts, holder, told>>
        /\ kept' = {s \in kept : Frozen(s, trunk)}
        /\ Goes("announce", call.snap, call.news)
    BY Calls, Proceeds DEF Merged, Step, Running, Landing, At
  <1>2. Turn(a, "submit", None)
    <2>1. [agent[a] EXCEPT !.report = None] = [agent[a] EXCEPT !.pc = "submit", !.report = None]
      BY <1>1 DEF TypeOK, Run
    <2>2. agent' = [agent EXCEPT ![a].pc = "submit", ![a].report = None]
      BY <2>1 DEF Merged, TypeOK
    <2> QED BY <2>2, Turns DEF Pcs, Hashes
  <1>3. \A b \in Agents : agent'[b].fork = agent[b].fork
    BY <1>2 DEF Turn
  <1>4. TypeOK'
    BY <1>1, <1>2, <1>3, Onward DEF TypeOK, Turn
  <1>5. Running'
    BY <1>1, <1>2, <1>3, Onward DEF Running, Landing, Undone, At, Goes, Turn
  <1>6. Base = call.before /\ Base' = Base /\ Others' = Others
    BY <1>1, <1>3, Onward
  <1>7. ASSUME NEW p \in Parcels PROVE Listed(p)'
    <2>1. Reports(p, Others)' = Reports(p, Others)
      BY <1>1, <1>2, <1>6 DEF Reports, Others, Turn
    <2> QED BY <1>1, <1>6, <2>1 DEF Tables, Listed, Ghosts, Row, Goes
  <1>8. ASSUME NEW s \in Symbols PROVE Contract(s)'
    BY <1>1, <1>6 DEF Tables, Contract, Retired, Signed, Heard, Compared, Goes
  <1> QED BY <1>4, <1>5, <1>7, <1>8 DEF Tables

(* The events tell what the contracts say now.                             *)
LEMMA AnnounceKeeps ==
  ASSUME TypeOK, Running, Tables, NEW a \in Agents, Announce(a)
  PROVE  TypeOK' /\ Running' /\ Tables'
  <1>1. /\ call # Free /\ call \in Calling /\ a = call.agent /\ call.step = "announce"
        /\ trunk = Mine
        /\ UNCHANGED <<trunk, rows, contracts, holder, agent, kept>>
        /\ Goes("retire", call.snap, call.news)
    BY Calls, Proceeds DEF Announce, Step, Running, Landing
  <1>2. /\ told' \in [Symbols -> Hashes]
        /\ \A s \in Symbols : told'[s] = IF s \in call.news THEN contracts[s] ELSE told[s]
    BY DEF Announce, TypeOK
  <1>3. Running'
    BY <1>1, Onward DEF Running, Landing, Undone, At, Goes
  <1>4. Base = call.before /\ Base' = Base /\ Others' = Others
    BY <1>1, Onward
  <1>5. ASSUME NEW p \in Parcels PROVE Listed(p)'
    BY <1>1, <1>4 DEF Tables, Listed, Ghosts, Row, Goes, Reports
  <1>6. ASSUME NEW s \in Symbols PROVE Contract(s)'
    <2>1. Retired(s)' /\ Signed(s)' /\ Compared(s)'
      BY <1>1, <1>4 DEF Tables, Contract, Retired, Signed, Compared, Goes
    <2>2. Heard(s)'
      BY <1>1, <1>2, <1>4 DEF Tables, Contract, Heard, Signed, Compared, Goes
    <2> QED BY <2>1, <2>2 DEF Contract
  <1>7. TypeOK'
    BY <1>1, <1>2, Onward DEF TypeOK
  <1> QED BY <1>3, <1>5, <1>6, <1>7 DEF Tables

(* Retirement: of what is gone from the merged tree, the files and symbols *)
(* that were not gone from the base have changed, and the others were in   *)
(* no table.                                                               *)
LEMMA RetireKeeps ==
  ASSUME TypeOK, Running, Tables, NEW a \in Agents, Retire(a)
  PROVE  TypeOK' /\ Running' /\ Tables'
  <1> DEFINE gone == {f \in Changed(a) : ~Exists(f, trunk)}
             dead == {s \in Symbols : Home[s] \in Changed(a) /\ ~Exists(s, trunk)}
  <1>1. /\ call # Free /\ call \in Calling /\ a = call.agent /\ call.step = "retire"
        /\ UNCHANGED <<trunk, told, kept>> /\ call' = Free /\ call'.step = "free"
        /\ Base = call.before
    BY Calls DEF Retire, Step, Free, Base
  <1>2. /\ trunk = Mine /\ trunk \in Tree /\ call.before \in Tree /\ Branch(a) \in Tree
        /\ \A p : Gone(p, trunk) <=> Gone(p, call.before) \/ Gone(p, Branch(a))
    BY <1>1, MergedTree DEF Landing
  <1>3. Turn(a, "release", agent[a].report)
    BY GotoTurns DEF Retire, Pcs
  <1>4. /\ \A p \in Parcels : rows'[p] = IF FileOf(p) \in gone THEN None ELSE rows[p]
        /\ \A s \in Symbols : contracts'[s] = IF s \in dead THEN None ELSE contracts[s]
        /\ \A f \in Files : holder'[f] = IF f \in gone THEN Nobody ELSE holder[f]
    BY DEF Retire
  <1>5. /\ rows' \in [Parcels -> Hashes] /\ contracts' \in [Symbols -> Hashes]
        /\ holder' \in [Files -> Agents \cup {Nobody}]
    BY DEF Retire, TypeOK, Hashes
  <1>6. ASSUME NEW f \in Files, Gone(f, trunk)
        PROVE  f \in gone \/ Gone(f, call.before)
    <2>1. SUFFICES ASSUME ~Gone(f, call.before) PROVE f \in gone
      OBVIOUS
    <2>2. f \in Parcels /\ FileOf(f) = f
      BY Places
    <2>3. Hash(f, call.before) # Hash(f, Branch(a))
      BY <1>2, <1>6, <2>1, <2>2, RemovedWasThere
    <2>4. f \in Changed(a)
      BY <2>2, <2>3, Unchanged
    <2> QED BY <1>6, <2>4, GoneIsAbsent
  <1>7. ASSUME NEW s \in Symbols, Gone(s, trunk) \/ Gone(Home[s], trunk)
        PROVE  s \in dead \/ Gone(s, call.before) \/ Gone(Home[s], call.before)
    <2>1. SUFFICES ASSUME ~Gone(s, call.before), ~Gone(Home[s], call.before)
                   PROVE  s \in dead
      OBVIOUS
    <2>2. s \in Parcels /\ FileOf(s) = Home[s] /\ Home[s] \in Files
      BY Places
    <2>3. ~Exists(s, trunk)
      BY <1>7, <2>2, GoneIsAbsent
    <2>4. CASE Gone(Home[s], trunk)
      BY <1>6, <2>1, <2>2, <2>3, <2>4
    <2>5. CASE Gone(s, trunk)
      <3>1. Hash(s, call.before) # Hash(s, Branch(a))
        BY <1>2, <2>1, <2>2, <2>5, RemovedWasThere
      <3>2. Home[s] \in Changed(a)
        BY <2>2, <3>1, Unchanged
      <3> QED BY <2>3, <3>2
    <2> QED BY <1>7, <2>4, <2>5
  <1>8. /\ \A f \in gone : ~Exists(f, trunk)
        /\ \A s \in dead : ~Exists(s, trunk)
    OBVIOUS
  <1> HIDE DEF gone, dead
  <1>9. TypeOK'
    <2>1. \A f \in Files : holder'[f] # Nobody => rows'[f] # None
      BY <1>4, Places DEF TypeOK
    <2> QED BY <1>1, <1>3, <1>5, <2>1 DEF TypeOK, Turn, Call
  <1>10. Running'
    BY <1>1 DEF Running
  <1>11. Base' = trunk
    BY <1>1 DEF Base
  <1>12. ASSUME NEW p \in Parcels PROVE Listed(p)'
    <2>1. FileOf(p) \in Files
      BY Places
    <2>2. Ghosts(p)'
      BY <1>1, <1>4, <1>6, <1>11, <2>1 DEF Tables, Listed, Ghosts
    <2>3. Reports(p, Others) \subseteq Reports(p, Agents)'
      BY <1>3 DEF Reports, Others, Turn
    <2>4. Exists(p, trunk) => FileOf(p) \notin gone
      <3>1. Exists(p, trunk) => Exists(FileOf(p), trunk)
        BY <2>1, Places DEF Exists
      <3> QED BY <1>8, <3>1
    <2>5. Row(p)'
      BY <1>1, <1>4, <1>11, <2>3, <2>4 DEF Tables, Listed, Row
    <2> QED BY <2>2, <2>5 DEF Listed
  <1>13. ASSUME NEW s \in Symbols PROVE Contract(s)'
    <2>1. Retired(s)'
      BY <1>1, <1>4, <1>7, <1>11 DEF Tables, Contract, Retired
    <2>2. Frozen(s, trunk) => s \notin dead
      BY <1>8 DEF Frozen
    <2>3. Signed(s)' /\ Heard(s)' /\ Compared(s)'
      BY <1>1, <1>4, <1>11, <2>2 DEF Tables, Contract, Signed, Heard, Compared
    <2> QED BY <2>1, <2>3 DEF Contract
  <1> QED BY <1>9, <1>10, <1>12, <1>13 DEF Tables

(* A rejection: git first, then the two transactions over the base.        *)
LEMMA RollbackKeeps ==
  ASSUME TypeOK, Running, Tables, NEW a \in Agents, Rollback(a)
  PROVE  TypeOK' /\ Running' /\ Tables'
  <1>1. /\ call # Free /\ call \in Calling /\ a = call.agent /\ call.step = "rollback"
        /\ trunk' = call.before
        /\ UNCHANGED <<rows, contracts, holder, agent, told, kept>>
        /\ Goes("reparcels", call.snap, call.news)
    BY Calls, Proceeds DEF Rollback, Step, Undone
  <1>2. TypeOK'
    BY <1>1, Onward DEF TypeOK
  <1>3. Running'
    BY <1>1, Onward DEF Running, Landing, Undone, At, Goes
  <1>4. Base = call.before /\ Base' = Base
    BY <1>1, Onward
  <1>5. ASSUME NEW p \in Parcels PROVE Listed(p)'
    BY <1>1, <1>4 DEF Tables, Listed, Ghosts, Row, Goes
  <1>6. ASSUME NEW s \in Symbols PROVE Contract(s)'
    BY <1>1, <1>4 DEF Tables, Contract, Retired, Signed, Heard, Compared, Goes
  <1> QED BY <1>2, <1>3, <1>5, <1>6 DEF Tables

(* run_index after the reset, first transaction: rows describe the base.   *)
LEMMA ReindexParcelsKeeps ==
  ASSUME TypeOK, Running, Tables, NEW a \in Agents, ReindexParcels(a)
  PROVE  TypeOK' /\ Running' /\ Tables'
  <1>1. /\ call # Free /\ call \in Calling /\ a = call.agent /\ call.step = "reparcels"
        /\ trunk = call.before /\ trunk \in Tree /\ UpsertParcels(trunk)
        /\ UNCHANGED <<trunk, contracts, holder, agent, told, kept>>
        /\ Goes("recontracts", call.snap, call.news)
    BY Calls, Proceeds DEF ReindexParcels, Step, Undone, Running, TypeOK
  <1>2. TypeOK'
    BY <1>1, Onward, ParcelRows DEF TypeOK
  <1>3. Running'
    BY <1>1, Onward DEF Running, Landing, Undone, At, Goes
  <1>4. Base = call.before /\ Base' = Base
    BY <1>1, Onward
  <1>5. ASSUME NEW p \in Parcels PROVE Listed(p)'
    <2>1. Gone(FileOf(p), Base) => rows'[p] = rows[p]
      BY <1>1, <1>4, ParcelRows, GoneIsAbsent
    <2> QED BY <1>1, <1>4, <2>1, ParcelRows DEF Tables, Listed, Ghosts, Row, Goes
  <1>6. ASSUME NEW s \in Symbols PROVE Contract(s)'
    BY <1>1, <1>4 DEF Tables, Contract, Retired, Signed, Heard, Compared, Goes
  <1> QED BY <1>2, <1>3, <1>5, <1>6 DEF Tables

(* And the second.                                                         *)
LEMMA ReindexContractsKeeps ==
  ASSUME TypeOK, Running, Tables, NEW a \in Agents, ReindexContracts(a)
  PROVE  TypeOK' /\ Running' /\ Tables'
  <1>1. /\ call # Free /\ call \in Calling /\ a = call.agent /\ call.step = "recontracts"
        /\ trunk = call.before /\ trunk \in Tree /\ UpsertContracts(trunk)
        /\ UNCHANGED <<trunk, rows, holder, agent, told, kept>>
        /\ Goes("reject", call.snap, call.news)
    BY Calls, Proceeds DEF ReindexContracts, Step, Undone, Running, TypeOK
  <1>2. TypeOK'
    BY <1>1, Onward, ContractRows DEF TypeOK
  <1>3. Running'
    BY <1>1, Onward DEF Running, Landing, Undone, At, Goes
  <1>4. Base = call.before /\ Base' = Base /\ Others' = Others
    BY <1>1, Onward
  <1>5. ASSUME NEW p \in Parcels PROVE Listed(p)'
    BY <1>1, <1>4 DEF Tables, Listed, Ghosts, Row, Goes, Reports
  <1>6. ASSUME NEW s \in Symbols PROVE Contract(s)'
    <2>1. Gone(s, Base) \/ Gone(Home[s], Base) => contracts'[s] = contracts[s]
      BY <1>1, <1>4, ContractRows, GoneIsAbsent, Places
    <2> QED
      BY <1>1, <1>4, <2>1, ContractRows
      DEF Tables, Contract, Retired, Signed, Heard, Compared, Goes
  <1> QED BY <1>2, <1>3, <1>5, <1>6 DEF Tables

LEMMA RejectedKeeps ==
  ASSUME TypeOK, Running, Tables, NEW a \in Agents, Rejected(a)
  PROVE  TypeOK' /\ Running' /\ Tables'
  <1>1. /\ call # Free /\ call \in Calling /\ a = call.agent /\ call.step = "reject"
        /\ trunk = call.before
        /\ UNCHANGED <<trunk, rows, contracts, holder, told, kept>>
        /\ call' = Free /\ call'.step = "free"
    BY Calls DEF Rejected, Step, Undone, Running, Free
  <1>2. Turn(a, "release", None)
    BY Turns DEF Rejected, Pcs, Hashes
  <1>3. TypeOK'
    BY <1>1, <1>2 DEF TypeOK, Turn, Call
  <1>4. Running'
    BY <1>1 DEF Running
  <1>5. Base = trunk /\ Base' = trunk
    BY <1>1 DEF Base
  <1>6. ASSUME NEW p \in Parcels PROVE Listed(p)'
    <2>1. Reports(p, Others) \subseteq Reports(p, Agents)'
      BY <1>1, <1>2 DEF Reports, Others, Turn
    <2> QED BY <1>1, <1>5, <2>1 DEF Tables, Listed, Ghosts, Row
  <1>7. ASSUME NEW s \in Symbols PROVE Contract(s)'
    BY <1>1, <1>5 DEF Tables, Contract, Retired, Signed, Heard, Compared
  <1> QED BY <1>3, <1>4, <1>6, <1>7 DEF Tables

-----------------------------------------------------------------------------
LEMMA InitBoard == Init => BoardInv
  <1> SUFFICES ASSUME Init PROVE BoardInv
    OBVIOUS
  <1>1. /\ trunk = {} /\ call = Free /\ call.step = "free" /\ Base = {} /\ {} \in Tree
        /\ \A p \in Parcels : rows[p] = Hash(p, {})
        /\ \A s \in Symbols : /\ contracts[s] = IF Frozen(s, {}) THEN {} ELSE None
                              /\ told[s] = contracts[s]
        /\ \A f \in Files : holder[f] = Nobody
        /\ kept = {s \in Symbols : Frozen(s, {})}
    BY DEF Init, Base, Free, Tree
  <1>2. \A p : Hash(p, {}) \in Hashes /\ Signature(p, {}) = {} /\ ~Gone(p, {})
    BY <1>1, Trees DEF Signature, Patches, Gone
  <1>3. TypeOK
    <2>1. agent \in [Agents -> Run] /\ \A a \in Agents : agent[a].runs <= MaxRuns[a]
      BY BoardAssumption DEF Init, Tree, Hashes, None, Run
    <2>2. rows \in [Parcels -> Hashes] /\ contracts \in [Symbols -> Hashes]
          /\ told \in [Symbols -> Hashes] /\ holder \in [Files -> Agents \cup {Nobody}]
      BY <1>1, <1>2 DEF Init, Hashes, Tree
    <2> QED BY <1>1, <2>1, <2>2 DEF TypeOK, Call, Free
  <1>4. Running
    BY <1>1 DEF Running
  <1>5. ASSUME NEW p \in Parcels PROVE Listed(p)
    BY <1>1, <1>2 DEF Listed, Ghosts, Row
  <1>6. ASSUME NEW s \in Symbols PROVE Contract(s)
    BY <1>1, <1>2 DEF Contract, Retired, Signed, Compared, Heard
  <1> QED BY <1>3, <1>4, <1>5, <1>6 DEF BoardInv, Tables

(* The invariant is inductive.                                             *)
LEMMA NextBoard == BoardInv /\ [Next]_vars => BoardInv'
  <1> SUFFICES ASSUME BoardInv, [Next]_vars PROVE BoardInv'
    OBVIOUS
  <1>0. TypeOK /\ Running /\ Tables
    BY DEF BoardInv
  <1>1. ASSUME NEW a \in Agents,
               Plan(a) \/ Lease(a) \/ Fork(a) \/ Report(a) \/ GiveUp(a) \/ Release(a)
               \/ NeedsRebase(a)
        PROVE  BoardInv'
    <2>1. TypeOK' /\ Aside
      BY <1>0, <1>1, PlanAside, LeaseAside, ForkAside, ReportAside, LeaveAside,
         ReleaseAside
    <2> QED BY <1>0, <2>1, AsideKeeps DEF BoardInv
  <1>2. ASSUME NEW f \in Files, Lapse(f) PROVE BoardInv'
    BY <1>0, <1>2, LapseAside, AsideKeeps DEF BoardInv
  <1>3. ASSUME NEW a \in Agents, Start(a) PROVE BoardInv'
    BY <1>0, <1>3, StartTyped, StartKeeps DEF BoardInv
  <1>4. ASSUME NEW a \in Agents,
               Merge(a) \/ Gate(a) \/ IndexParcels(a) \/ IndexContracts(a) \/ Merged(a)
        PROVE  BoardInv'
    BY <1>0, <1>4, MergeKeeps, GateKeeps, IndexParcelsKeeps, IndexContractsKeeps, MergedKeeps
    DEF BoardInv
  <1>5. ASSUME NEW a \in Agents,
               Announce(a) \/ Retire(a) \/ Rollback(a) \/ ReindexParcels(a)
               \/ ReindexContracts(a) \/ Rejected(a)
        PROVE  BoardInv'
    BY <1>0, <1>5, AnnounceKeeps, RetireKeeps, RollbackKeeps, ReindexParcelsKeeps,
       ReindexContractsKeeps, RejectedKeeps
    DEF BoardInv
  <1>6. CASE UNCHANGED vars
    <2>1. TypeOK' /\ Aside
      BY <1>0, <1>6 DEF vars, TypeOK, Aside
    <2> QED BY <1>0, <2>1, AsideKeeps DEF BoardInv
  <1> QED BY <1>1, <1>2, <1>3, <1>4, <1>5, <1>6 DEF Next, Integrate

(* So it holds.                                                            *)
LEMMA BoardInvariant == Spec => []BoardInv
  BY InitBoard, NextBoard, PTL DEF Spec

(* The types hold.                                                         *)
THEOREM Typing == Spec => []TypeOK
  <1>1. BoardInv => TypeOK
    BY DEF BoardInv
  <1> QED BY <1>1, BoardInvariant, PTL

(* Between two calls the row of a parcel the trunk has is the trunk's, or  *)
(* one that an agent reported and no verdict has followed, whatever merges *)
(* were thrown away in between and whatever they added or removed.         *)
THEOREM RowsTold == Spec => []RowIsTrunkOrReport
  <1>1. ASSUME BoardInv, call = Free, NEW p \in Parcels, Exists(p, trunk)
        PROVE  rows[p] \in {Hash(p, trunk)} \cup Reports(p, Agents)
    BY <1>1 DEF Base, Free, BoardInv, Tables, Listed, Row
  <1>2. BoardInv => RowIsTrunkOrReport
    BY <1>1 DEF RowIsTrunkOrReport, Reports
  <1> QED BY <1>2, BoardInvariant, PTL

(* Whoever follows the contract_change events knows the signature of every *)
(* symbol that stayed frozen, whatever merges, rejections and failures     *)
(* came before, and whichever symbols were frozen in the trees thrown away.*)
THEOREM Subscribed == Spec => []SubscribersUpToDate
  <1>1. ASSUME BoardInv, call = Free, NEW s \in kept
        PROVE  told[s] = Signature(s, trunk)
    <2>1. s \in Symbols
      BY <1>1 DEF BoardInv, TypeOK
    <2> QED BY <1>1, <2>1 DEF BoardInv, Tables, Contract, Heard, Base, Free
  <1>2. BoardInv => SubscribersUpToDate
    BY <1>1 DEF SubscribersUpToDate
  <1> QED BY <1>2, BoardInvariant, PTL

(* Landed work that deletes a file leaves no row and no lease of it, and   *)
(* landed work that removes a symbol no contract.                          *)
THEOREM NoGhosts == Spec => []GhostsRetired
  <1>1. ASSUME BoardInv, call = Free PROVE GhostsRetired
    <2>1. Base = trunk
      BY <1>1 DEF Base
    <2>2. ASSUME NEW p \in Parcels, Gone(FileOf(p), trunk)
          PROVE  rows[p] = None /\ holder[FileOf(p)] = Nobody
      BY <1>1, <2>1, <2>2 DEF BoardInv, Tables, Listed, Ghosts
    <2>3. ASSUME NEW s \in Symbols, Gone(s, trunk) \/ Gone(Home[s], trunk)
          PROVE  contracts[s] = None
      BY <1>1, <2>1, <2>3 DEF BoardInv, Tables, Contract, Retired
    <2> QED BY <2>2, <2>3, Places DEF GhostsRetired
  <1>2. BoardInv => GhostsRetired
    BY <1>1 DEF GhostsRetired
  <1> QED BY <1>2, BoardInvariant, PTL

-----------------------------------------------------------------------------
(* THE SNAPSHOTS                                                           *)

(* The steps that leave the snapshots in use, and the call's agent and     *)
(* base, alone.                                                            *)
Steady ==
  /\ \A b \in Agents :
       \/ /\ agent'[b].plan = agent[b].plan /\ agent'[b].seen = agent[b].seen
          /\ agent'[b].quiet = agent[b].quiet
       \/ agent'[b].seen = None /\ (call' # Free => b # call'.agent)
  /\ \/ call' = Free
     \/ call # Free /\ call'.agent = call.agent /\ call'.before = call.before

LEMMA SteadyKeeps ==
  ASSUME TypeOK, Planned, Steady
  PROVE  Planned'
  <1>1. call # Free => call.agent \in Agents
    BY Calls, Callings
  <1> QED BY <1>1 DEF Planned, Steady, SymbolReaders

LEMMA Steadily ==
  ASSUME TypeOK, Running, NEW a \in Agents,
         \/ Lease(a) \/ Fork(a) \/ Report(a) \/ GiveUp(a) \/ Release(a) \/ NeedsRebase(a)
         \/ Merge(a) \/ Gate(a) \/ IndexParcels(a) \/ IndexContracts(a) \/ Merged(a)
         \/ Announce(a) \/ Retire(a) \/ Rollback(a) \/ ReindexParcels(a)
         \/ ReindexContracts(a) \/ Rejected(a)
  PROVE  Steady
  <1>1. agent \in [Agents -> Run] /\ call \in Call
    BY DEF TypeOK
  <1>2. ASSUME UNCHANGED agent \/ \E pc \in Pcs : Goto(a, pc)
        PROVE  \A b \in Agents : /\ agent'[b].plan = agent[b].plan
                                 /\ agent'[b].seen = agent[b].seen
                                 /\ agent'[b].quiet = agent[b].quiet
    BY <1>2, GotoTurns DEF Turn
  <1>3. CASE Lease(a) \/ GiveUp(a) \/ NeedsRebase(a)
    <2>1. \E pc \in Pcs : Goto(a, pc)
      BY <1>3 DEF Lease, GiveUp, NeedsRebase, Pcs
    <2>2. UNCHANGED call
      BY <1>3 DEF Lease, GiveUp, NeedsRebase
    <2> QED BY <1>2, <2>1, <2>2 DEF Steady
  <1>10. CASE Release(a)
    <2>1. call # Free => call.agent # a
      BY <1>10 DEF Release, Running, At
    <2>2. agent'[a].seen = None /\ \A b \in Agents : b # a => agent'[b] = agent[b]
      BY <1>1, <1>10 DEF Release, Run
    <2> QED BY <1>10, <2>1, <2>2 DEF Release, Steady
  <1>4. CASE Fork(a)
    BY <1>1, <1>4 DEF Fork, Steady, Run
  <1>5. CASE Report(a)
    BY <1>1, <1>5 DEF Report, Steady, Run
  <1>6. CASE Merged(a) \/ Rejected(a)
    <2>1. call' = Free \/ (call # Free /\ Proceed("announce"))
      BY <1>6, Calls DEF Merged, Rejected, Step
    <2>2. call' = Free \/ (call # Free /\ Goes("announce", call.snap, call.news))
      BY <2>1, Calls, Proceeds DEF Landing
    <2>3. \A b \in Agents : /\ agent'[b].plan = agent[b].plan
                            /\ agent'[b].seen = agent[b].seen
                            /\ agent'[b].quiet = agent[b].quiet
      BY <1>1, <1>6 DEF Merged, Rejected, Run
    <2> QED BY <2>2, <2>3 DEF Steady, Goes
  <1>7. CASE \/ Merge(a) \/ Gate(a) \/ Announce(a) \/ Rollback(a) \/ ReindexParcels(a)
             \/ ReindexContracts(a)
    <2>1. /\ UNCHANGED agent /\ call # Free
          /\ \E step \in Landing \cup Undone \cup {"merge", "rollback"} : Proceed(step)
      BY <1>7, Calls
      DEF Merge, Gate, Announce, Rollback, ReindexParcels, ReindexContracts, Step, Landing,
          Undone
    <2>2. \E step : Goes(step, call.snap, call.news)
      BY <2>1, Calls, Proceeds
    <2> QED BY <1>2, <2>1, <2>2 DEF Steady, Goes
  <1>8. CASE IndexParcels(a) \/ IndexContracts(a)
    <2>1. UNCHANGED agent /\ call # Free /\ call \in Calling
      BY <1>8, Calls DEF IndexParcels, IndexContracts, Step
    <2>2. call'.agent = call.agent /\ call'.before = call.before
      BY <1>8, <2>1 DEF IndexParcels, IndexContracts, Proceed, Calling
    <2> QED BY <1>2, <2>1, <2>2 DEF Steady
  <1>9. CASE Retire(a)
    BY <1>2, <1>9 DEF Retire, Steady, Pcs
  <1> QED BY <1>3, <1>4, <1>5, <1>6, <1>7, <1>8, <1>9, <1>10

(* With no call running, the row of a symbol that is there, or whose file  *)
(* has gone, is the trunk's.                                               *)
LEMMA DepRowIsTrunk ==
  ASSUME BoardInv, call = Free, NEW a \in SymbolReaders, Checked(Reads[a], trunk)
  PROVE  DepRow(a) = Hash(Reads[a], trunk)
  <1>1. Reads[a] \in Parcels /\ Base = trunk /\ call.step = "free" /\ Reads[a] \in Symbols
    BY BoardAssumption DEF Base, Free, SymbolReaders, Parcels
  <1>2. Listed(Reads[a])
    BY <1>1 DEF BoardInv, Tables
  <1>3. CASE Exists(Reads[a], trunk)
    <2>1. Reports(Reads[a], Agents) = {}
      BY <1>1, BoardAssumption DEF Reports
    <2> QED BY <1>1, <1>2, <1>3, <2>1 DEF Listed, Row, DepRow
  <1>4. CASE Gone(FileOf(Reads[a]), trunk)
    BY <1>1, <1>2, <1>4, GoneIsAbsent DEF Listed, Ghosts, Hash, DepRow
  <1> QED BY <1>3, <1>4 DEF Checked

(* The snapshots hold what the trunk held, if no integrate was running.    *)
LEMMA PlannedInvariant == Spec => [](BoardInv /\ Planned)
  <1>1. Init => Planned
    BY DEF Init, Planned, SymbolReaders
  <1>2. ASSUME BoardInv, Planned, [Next]_vars PROVE Planned'
    <2>0. TypeOK /\ Running /\ agent \in [Agents -> Run]
      BY <1>2 DEF BoardInv, TypeOK
    <2>1. ASSUME NEW a \in Agents, Plan(a) PROVE Planned'
      <3>1. /\ agent'[a].plan = DepRow(a) /\ agent'[a].seen = Hash(Reads[a], trunk)
            /\ agent'[a].quiet <=> call = Free
        BY <2>0, <2>1 DEF Plan, Run
      <3>2. \A b \in Agents : b # a => agent'[b] = agent[b]
        BY <2>0, <2>1 DEF Plan
      <3>3. a \in SymbolReaders /\ agent'[a].quiet /\ agent'[a].seen # None =>
              agent'[a].plan = agent'[a].seen
        BY <1>2, <3>1, DepRowIsTrunk DEF Checked, Hash
      <3>4. call' = call /\ (call # Free => call.agent # a /\ call.agent \in Agents)
        BY <2>0, <2>1, Calls, Callings DEF Running, At, Plan
      <3> QED BY <1>2, <3>2, <3>3, <3>4 DEF Planned, SymbolReaders
    <2>2. ASSUME NEW a \in Agents, Start(a) PROVE Planned'
      <3>1. call'.agent = a /\ call'.before = trunk /\ call = Free /\ UNCHANGED agent
        BY <2>0, <2>2, StartTyped DEF Start
      <3>2. a \in SymbolReaders /\ Checked(Reads[a], trunk) =>
              agent[a].plan \in {None, Hash(Reads[a], trunk)}
        BY <1>2, <2>2, <3>1, DepRowIsTrunk DEF Start, Stale
      <3> QED BY <1>2, <3>1, <3>2 DEF Planned
    <2>3. ASSUME NEW f \in Files, Lapse(f) PROVE Planned'
      BY <1>2, <2>3 DEF Lapse, Planned
    <2>4. CASE UNCHANGED vars
      BY <1>2, <2>4 DEF vars, Planned
    <2>5. ASSUME NEW a \in Agents, Steady PROVE Planned'
      BY <1>2, <2>0, <2>5, SteadyKeeps
    <2> QED BY <1>2, <2>0, <2>1, <2>2, <2>3, <2>4, <2>5, Steadily DEF Next, Integrate
  <1> QED BY <1>1, <1>2, BoardInvariant, PTL DEF Spec

(* What LandsOnPlannedDep and BouncedForCause say of one agent.            *)
Landed(a) ==
  Step(a, "verdict") /\ call'.step = "announce" /\ Checked(Reads[a], call.before) =>
    agent[a].plan \in {None, Hash(Reads[a], call.before)}

Bounced(a) ==
  At(a, "submit") /\ agent'[a].pc = "release" /\ call = Free =>
    ~agent[a].quiet \/ agent[a].seen = None \/ agent[a].seen # Hash(Reads[a], trunk)

(* One step: only NeedsRebase sends an agent back.                         *)
LEMMA LandedAndBounced ==
  ASSUME BoardInv, Planned, [Next]_vars, NEW a \in SymbolReaders
  PROVE  Landed(a) /\ Bounced(a)
  <1>1. Landed(a)
    BY Calls DEF BoardInv, Planned, Step, Landed
  <1>2. Bounced(a)
    <2>1. SUFFICES ASSUME At(a, "submit"), agent'[a].pc = "release", call = Free
                   PROVE  \/ ~agent[a].quiet \/ agent[a].seen = None
                          \/ agent[a].seen # Hash(Reads[a], trunk)
      BY DEF Bounced
    <2>2. agent \in [Agents -> Run] /\ call.step = "free" /\ TypeOK /\ a \in Agents
      BY <2>1 DEF BoardInv, TypeOK, Free, SymbolReaders
    <2>3. ASSUME NEW b \in Agents, Integrate(b) PROVE NeedsRebase(a)
      <3>1. NeedsRebase(b) \/ Start(b)
        BY <2>2, <2>3
        DEF Integrate, Merge, Gate, IndexParcels, IndexContracts, Merged, Announce, Retire,
            Rollback, ReindexParcels, ReindexContracts, Rejected, Step
      <3>2. ~Start(b)
        BY <2>1 DEF Start, At
      <3>3. NeedsRebase(b) /\ b = a
        BY <2>1, <2>2, <3>1, <3>2 DEF NeedsRebase, Goto, At
      <3> QED BY <3>3
    <2>4. ASSUME NEW b \in Agents,
                 Plan(b) \/ Lease(b) \/ Fork(b) \/ Report(b) \/ GiveUp(b) \/ Release(b)
          PROVE  FALSE
      <3>1. b # a
        BY <2>1, <2>4 DEF Plan, Lease, Fork, Report, GiveUp, Release, At
      <3>2. agent'[a] = agent[a]
        BY <2>2, <2>4, <3>1 DEF Plan, Lease, Fork, Report, GiveUp, Release, Goto
      <3> QED BY <2>1, <3>2 DEF At
    <2>5. NeedsRebase(a)
      BY <2>1, <2>3, <2>4 DEF Next, Lapse, vars, At
    <2>6. agent[a].seen = Hash(Reads[a], trunk) /\ agent[a].seen # None =>
            DepRow(a) = agent[a].seen
      BY <2>1, DepRowIsTrunk DEF Checked, Hash
    <2> QED BY <2>1, <2>5, <2>6 DEF NeedsRebase, Stale, Planned
  <1> QED BY <1>1, <1>2

(* The re-check for dependencies on symbols, whatever the agents that      *)
(* depend on a module are told: no branch lands on a trunk that has the    *)
(* symbol in another version than its agent planned against, or has        *)
(* deleted its file, and no agent is sent back for a merge that was thrown *)
(* away.  It says nothing of a symbol that is gone from a file that is     *)
(* still there: that one keeps its row, and its readers land.              *)
THEOREM SymbolDeps == Spec => [][\A a \in SymbolReaders : Landed(a) /\ Bounced(a)]_vars
  <1>1. BoardInv /\ Planned /\ [Next]_vars => \A a \in SymbolReaders : Landed(a) /\ Bounced(a)
    BY LandedAndBounced
  <1> QED BY <1>1, PlannedInvariant, PTL DEF Spec

(* So it is for all agents when none depends on a module parcel, the row   *)
(* that agents write before the verdict: a branch lands on the version its *)
(* agent planned against, where the trunk has one or lost the file.        *)
THEOREM PlannedDepLands ==
  ASSUME \A a \in Agents : Reads[a] \in Symbols
  PROVE  Spec => LandsOnPlannedDep
  <1> DEFINE Good == \A a \in Agents :
                       Step(a, "verdict") /\ call'.step = "announce" =>
                         LET p == Reads[a]
                         IN  Exists(p, call.before) \/ Gone(FileOf(p), call.before) =>
                               agent[a].plan \in {None, Hash(p, call.before)}
  <1>1. (\A a \in SymbolReaders : Landed(a) /\ Bounced(a)) => Good
    BY DEF SymbolReaders, Landed, Checked
  <1> QED BY <1>1, SymbolDeps, PTL DEF LandsOnPlannedDep

(* And an agent that is sent back has a cause.                             *)
THEOREM CauseToBounce ==
  ASSUME \A a \in Agents : Reads[a] \in Symbols
  PROVE  Spec => BouncedForCause
  <1> DEFINE Good == \A a \in Agents :
                       At(a, "submit") /\ agent'[a].pc = "release" /\ call = Free =>
                         \/ ~agent[a].quiet \/ agent[a].seen = None
                         \/ agent[a].seen # Hash(Reads[a], trunk)
  <1>1. (\A a \in SymbolReaders : Landed(a) /\ Bounced(a)) => Good
    BY DEF SymbolReaders, Bounced
  <1> QED BY <1>1, SymbolDeps, PTL DEF BouncedForCause
=============================================================================
