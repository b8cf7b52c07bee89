--------------------------- MODULE StartupProofs ---------------------------
(***************************************************************************)
(* Theorems about Startup, for any number of processes, repositories,      *)
(* paths, database files, starts and integrates: the types, one server per *)
(* lockable repository, and, when --fresh is only used on a path nobody    *)
(* has, that no boot takes a live merge away, and that the orphans of dead *)
(* servers are rolled back unless their database was moved aside.          *)
(***************************************************************************)
EXTENDS Startup, TLAPS

Up == [pc : {"serve"} \cup Starting, root : Roots, path : Paths, fresh : BOOLEAN,
       conn : 0..MaxFiles, row : 0..MaxFiles, merge : 0..MaxMerges]

(* The records of a process that is up.                                    *)
LEMMA UpRecords ==
  ASSUME NEW u \in Up
  PROVE  /\ \A pc \in {"serve"} \cup Starting : [u EXCEPT !.pc = pc] \in Proc
         /\ \A pc \in {"serve"} \cup Starting, i \in 0..MaxFiles :
              [[u EXCEPT !.pc = pc] EXCEPT !.conn = i] \in Proc
         /\ \A i \in 0..MaxFiles, m \in 0..MaxMerges :
              [[u EXCEPT !.row = i] EXCEPT !.merge = m] \in Proc
  BY DEF Up, Proc

(* What a recovery does to the database file i and to the trunks.          *)
Reconciled(p, i, reset, recorded) ==
  /\ i \in Files /\ i = proc[p].conn
  /\ reset \subseteq file[i].open /\ recorded \subseteq file[i].open
  /\ \A e \in reset \cup recorded, f \in file[i].open : f.merge < e.merge => f \in recorded
  /\ trunk' \in [Roots -> SUBSET Merges]
  /\ \A r \in Roots : RolledBack(reset, r, trunk'[r])
  /\ file' = [file EXCEPT ![i].open =
                (file[i].open \ recorded) \cup Retried(recorded \ reset)]
  /\ strays' = strays \cup {e.merge : e \in file[i].open \ reset}

LEMMA ReconcileIs ==
  ASSUME NEW p, Reconcile(p)
  PROVE  \E i, reset, recorded : Reconciled(p, i, reset, recorded)
  BY DEF Reconcile, Reconciled

(* Recovery keeps of a row what it says about the merge.                   *)
LEMMA RetriedRows ==
  ASSUME NEW failed \in SUBSET Row
  PROVE  /\ Retried(failed) \subseteq Row
         /\ \A e \in Retried(failed) : \E f \in failed :
              e.merge = f.merge /\ e.root = f.root /\ e.before = f.before
  BY StartupAssumption DEF Retried, Row

(* A count of faults stays in its bounds.                                  *)
LEMMA FailsTyped == ASSUME TypeOK, NEW something, Fails(something) PROVE faults' \in 0..MaxFaults
  BY StartupAssumption DEF TypeOK, Fails

(* The types hold at the start.                                            *)
LEMMA InitTyped == Init => TypeOK
  BY StartupAssumption DEF Init, TypeOK, Proc, File, Files, Merges

(* Every step keeps the types, one case per action.                      *)
LEMMA NextTyped == TypeOK /\ [Next]_vars => TypeOK'
  <2> SUFFICES ASSUME TypeOK, [Next]_vars PROVE TypeOK'
    OBVIOUS
  <2> USE StartupAssumption DEF TypeOK
  <2>1. CASE UNCHANGED vars
    BY <2>1 DEF vars
  <2>2. ASSUME NEW p \in Procs, NEW s \in Starts, NEW fresh \in BOOLEAN,
               Launch(p, s[1], s[2], fresh)
        PROVE  TypeOK'
    <3>1. s[1] \in Roots /\ s[2] \in Paths
      OBVIOUS
    <3>2. [pc |-> "probe", root |-> s[1], path |-> s[2], fresh |-> fresh,
           conn |-> 0, row |-> 0, merge |-> 0] \in Proc
      BY <3>1 DEF Proc, Starting
    <3>3. launches' \in 0..MaxLaunches
      BY <2>2 DEF Launch
    <3> QED BY <2>2, <3>2, <3>3 DEF Launch
  <2>3. ASSUME NEW p \in Procs, proc[p] # Gone
        PROVE  /\ proc[p] \in Up
               /\ Root(p) \in Roots /\ Path(p) \in Paths
               /\ \A pc \in {"serve"} \cup Starting :
                    Goto(p, pc) => proc' \in [Procs -> Proc]
    BY <2>3 DEF Proc, Up, Root, Path, Goto
  <2>4. ASSUME NEW p \in Procs, Down(p)
        PROVE  proc' \in [Procs -> Proc] /\ flock' \in [Roots -> Procs \cup {Nobody}]
    BY <2>4 DEF Down, Unlocked, Proc
  <2>5. ASSUME NEW p \in Procs, NEW i \in Files, Connect(p, i), Path(p) \in Paths
        PROVE  at' \in [Paths -> 0..MaxFiles] /\ made' \in 0..MaxFiles
    BY <2>5 DEF Connect, Files
  <2>6. ASSUME NEW p \in Procs, Probe(p) PROVE TypeOK'
    BY <2>6, <2>3, <2>4 DEF Probe, At, Gone, Starting
  <2>7. ASSUME NEW p \in Procs, Unprobe(p) PROVE TypeOK'
    BY <2>7, <2>3 DEF Unprobe, At, Gone, Starting, Unlocked
  <2>8. ASSUME NEW p \in Procs, Rotate(p) PROVE TypeOK'
    BY <2>8, <2>3 DEF Rotate, At, Gone, Starting
  <2>18. ASSUME NEW p \in Procs, RotateDies(p) PROVE TypeOK'
    <3>1. proc[p] # Gone
      BY <2>18 DEF RotateDies, At, Gone
    <3> DEFINE i == at[Path(p)]
    <3>2. i \in Files /\ file[i] \in File
      BY <3>1, <2>3, <2>18 DEF RotateDies, Files
    <3>3. PICK logged \in SUBSET file[i].open :
            /\ file' = [file EXCEPT ![i].open = file[i].open \ logged]
            /\ strays' = strays \cup {e.merge : e \in logged}
      BY <2>18 DEF RotateDies
    <3> HIDE DEF i
    <3>4. logged \subseteq Row /\ file[i].open \ logged \in SUBSET Row
      BY <3>2 DEF File
    <3>5. file' \in [Files -> File]
      BY <3>2, <3>3, <3>4 DEF File
    <3>6. strays' \in SUBSET Merges
      BY <3>3, <3>4 DEF Row
    <3>7. at' \in [Paths -> 0..MaxFiles]
      <4>1. at' = [at EXCEPT ![Path(p)] = 0] /\ 0 \in 0..MaxFiles
        BY <2>18 DEF RotateDies
      <4> QED BY <4>1
    <3> QED BY <2>4, <2>18, <3>5, <3>6, <3>7 DEF RotateDies
  <2>9. ASSUME NEW p \in Procs, Open(p) PROVE TypeOK'
    <3>1. proc[p] # Gone
      BY <2>9 DEF Open, At, Gone
    <3>2. PICK i \in Files :
            /\ Connect(p, i)
            /\ IF file[i].schema = "tables" THEN Down(p)
               ELSE proc' = [proc EXCEPT ![p].pc = "create", ![p].conn = i] /\ UNCHANGED flock
      BY <2>9 DEF Open
    <3>3. at' \in [Paths -> 0..MaxFiles] /\ made' \in 0..MaxFiles
      BY <3>1, <3>2, <2>3, <2>5
    <3>4. proc' \in [Procs -> Proc] /\ flock' \in [Roots -> Procs \cup {Nobody}]
      <4>1. CASE file[i].schema = "tables"
        BY <4>1, <3>2, <2>4
      <4>2. CASE file[i].schema # "tables"
        <5>1. proc' = [proc EXCEPT ![p] = [[proc[p] EXCEPT !.pc = "create"] EXCEPT !.conn = i]]
          BY <4>2, <3>2
        <5>2. [[proc[p] EXCEPT !.pc = "create"] EXCEPT !.conn = i] \in Proc
          <6>1. proc[p] \in Up /\ i \in 0..MaxFiles /\ "create" \in Starting
            BY <3>1, <2>3 DEF Starting, Files
          <6> QED BY <6>1, UpRecords
        <5> QED BY <4>2, <3>2, <5>1, <5>2
      <4> QED BY <4>1, <4>2
    <3> QED BY <2>9, <3>3, <3>4 DEF Open
  <2>10. ASSUME NEW p \in Procs, Create(p) PROVE TypeOK'
    <3>1. proc[p] # Gone
      BY <2>10 DEF Create, At, Gone
    <3>2. file' \in [Files -> File]
      <4>1. CASE proc[p].conn \in Files
        BY <4>1, <2>10 DEF Create, File
      <4>2. CASE proc[p].conn \notin Files
        BY <4>2, <2>10 DEF Create
      <4> QED BY <4>1, <4>2
    <3> QED BY <2>10, <2>3, <3>1, <3>2 DEF Create, Starting
  <2>11. ASSUME NEW p \in Procs, Stamp(p) PROVE TypeOK'
    <3>1. proc[p] # Gone
      BY <2>11 DEF Stamp, At, Gone
    <3>2. file' \in [Files -> File]
      <4>1. CASE proc[p].conn \in Files
        BY <4>1, <2>11 DEF Stamp, File
      <4>2. CASE proc[p].conn \notin Files
        BY <4>2, <2>11 DEF Stamp
      <4> QED BY <4>1, <4>2
    <3> QED BY <2>11, <2>3, <3>1, <3>2 DEF Stamp, Starting
  <2>12. ASSUME NEW p \in Procs, Acquire(p) PROVE TypeOK'
    BY <2>12, <2>3, <2>4 DEF Acquire, At, Gone, Starting
  <2>13. ASSUME NEW p \in Procs, Bind(p) PROVE TypeOK'
    <3>1. proc[p] # Gone
      BY <2>13 DEF Bind, At, Gone
    <3> DEFINE bound(i) == IF file[i].bound = Nobody THEN Root(p) ELSE file[i].bound
    <3>2. PICK i \in Files :
            /\ Connect(p, i)
            /\ IF file[i].schema = "none" THEN Down(p) /\ UNCHANGED file
               ELSE /\ file' = [file EXCEPT ![i].bound = bound(i)]
                    /\ IF bound(i) = Root(p) THEN Goto(p, "reconcile") /\ UNCHANGED flock
                                             ELSE Down(p)
      BY <2>13 DEF Bind
    <3>3. at' \in [Paths -> 0..MaxFiles] /\ made' \in 0..MaxFiles
      BY <3>1, <3>2, <2>3, <2>5
    <3>4. file' \in [Files -> File]
      <4>1. bound(i) \in Roots \cup {Nobody}
        BY <3>1, <2>3 DEF File
      <4> HIDE DEF bound
      <4> QED BY <3>2, <4>1 DEF File
    <3>5. proc' \in [Procs -> Proc] /\ flock' \in [Roots -> Procs \cup {Nobody}]
      BY <3>1, <3>2, <2>3, <2>4 DEF Starting
    <3> QED BY <2>13, <3>3, <3>4, <3>5 DEF Bind
  <2>14. ASSUME NEW p \in Procs, Reconcile(p) PROVE TypeOK'
    <3>1. proc[p] # Gone
      BY <2>14 DEF Reconcile, At, Gone
    <3>2. PICK i, reset, recorded : Reconciled(p, i, reset, recorded)
      BY <2>14, ReconcileIs
    <3>3. i \in Files /\ file[i] \in File /\ file[i].open \subseteq Row
      BY <3>2 DEF Reconciled, File
    <3>4. Retried(recorded \ reset) \subseteq Row
      BY <3>2, <3>3, RetriedRows DEF Reconciled
    <3>5. file' \in [Files -> File]
      <4> DEFINE open == (file[i].open \ recorded) \cup Retried(recorded \ reset)
      <4>1. open \in SUBSET Row /\ file' = [file EXCEPT ![i].open = open]
        BY <3>2, <3>3, <3>4 DEF Reconciled
      <4> HIDE DEF open
      <4> QED BY <3>3, <4>1 DEF File
    <3>6. strays' \in SUBSET Merges
      BY <3>2, <3>3 DEF Reconciled, Row
    <3>7. faults' \in 0..MaxFaults
      BY <2>14, FailsTyped DEF Reconcile
    <3>8. trunk' \in [Roots -> SUBSET Merges]
      BY <3>2 DEF Reconciled
    <3> QED BY <2>14, <2>3, <3>1, <3>5, <3>6, <3>7, <3>8 DEF Reconcile
  <2>15. ASSUME NEW p \in Procs, Integrate(p) PROVE TypeOK'
    <3> DEFINE i == at[Path(p)]
               m == merges + 1
               e == [merge |-> m, root |-> Root(p), before |-> trunk[Root(p)],
                     attempts |-> 0]
    <3>1. proc[p] # Gone
      BY <2>15 DEF Integrate, At, Gone
    <3>2. i \in Files /\ i \in 0..MaxFiles /\ m \in Merges /\ m \in 0..MaxMerges
      BY <3>1, <2>3, <2>15 DEF Integrate, Files, Merges
    <3>3. e \in Row
      <4>1. 0 \in 0..MaxAttempts
        OBVIOUS
      <4> HIDE DEF m
      <4> QED BY <3>1, <3>2, <4>1, <2>3 DEF Row
    <3>4. /\ proc' = [proc EXCEPT ![p] = [[proc[p] EXCEPT !.row = i] EXCEPT !.merge = m]]
          /\ file' = [file EXCEPT ![i] = [file[i] EXCEPT !.open = @ \cup {e}]]
          /\ trunk' = [trunk EXCEPT ![Root(p)] = @ \cup {m}]
          /\ merges' = m
      BY <2>15, <3>2 DEF Integrate
    <3>5. [[proc[p] EXCEPT !.row = i] EXCEPT !.merge = m] \in Proc
      <4> HIDE DEF i, m
      <4> QED BY <3>1, <3>2, <2>3, UpRecords DEF Starting
    <3>6. file' \in [Files -> File]
      <4> HIDE DEF e, i
      <4> QED BY <3>2, <3>3, <3>4 DEF File
    <3>7. trunk' \in [Roots -> SUBSET Merges]
      <4> HIDE DEF m
      <4> QED BY <3>1, <3>2, <3>4, <2>3
    <3>8. proc' \in [Procs -> Proc]
      BY <3>4, <3>5
    <3> HIDE DEF i, m, e
    <3> QED BY <2>15, <3>2, <3>4, <3>6, <3>7, <3>8 DEF Integrate
  <2>16. ASSUME NEW p \in Procs, Verdict(p) PROVE TypeOK'
    <3> DEFINE i == proc[p].row
               own == {e \in file[i].open : e.merge = proc[p].merge}
    <3>1. proc[p] # Gone
      BY <2>16 DEF Verdict, At, Gone
    <3>2. proc' \in [Procs -> Proc]
      <4>1. proc' = [proc EXCEPT ![p] = [[proc[p] EXCEPT !.row = 0] EXCEPT !.merge = 0]]
        BY <2>16 DEF Verdict
      <4>2. [[proc[p] EXCEPT !.row = 0] EXCEPT !.merge = 0] \in Proc
        <5>1. proc[p] \in Up /\ 0 \in 0..MaxFiles /\ 0 \in 0..MaxMerges
          BY <3>1, <2>3
        <5> QED BY <5>1, UpRecords
      <4> QED BY <4>1, <4>2
    <3>3. i \in Files /\ file[i] \in File /\ file[i].open \subseteq Row
      <4>1. i \in Files
        BY <3>1, <2>3, <2>16 DEF Verdict, Up, Files
      <4> QED BY <4>1 DEF File
    <3>4. PICK failed \in SUBSET {"reset", "record"} :
            /\ Fails(failed # {})
            /\ file' = [file EXCEPT ![i].open = IF "record" \in failed THEN file[i].open
                                               ELSE file[i].open \ own]
            /\ \E t \in {trunk[Root(p)] \ {proc[p].merge}} \cup {e.before : e \in own} :
                 trunk' = IF "reset" \in failed THEN trunk
                          ELSE [trunk EXCEPT ![Root(p)] = t]
            /\ strays' = strays \cup (IF "reset" \in failed THEN {e.merge : e \in own} ELSE {})
      BY <2>16 DEF Verdict
    <3>5. file' \in [Files -> File]
      <4> DEFINE open == IF "record" \in failed THEN file[i].open ELSE file[i].open \ own
      <4>1. open \in SUBSET Row /\ file' = [file EXCEPT ![i].open = open]
        BY <3>3, <3>4
      <4> HIDE DEF open, i
      <4> QED BY <3>3, <4>1 DEF File
    <3>6. trunk' \in [Roots -> SUBSET Merges]
      <4>1. PICK t \in {trunk[Root(p)] \ {proc[p].merge}} \cup {e.before : e \in own} :
              trunk' = IF "reset" \in failed THEN trunk ELSE [trunk EXCEPT ![Root(p)] = t]
        BY <3>4
      <4>2. t \in SUBSET Merges
        BY <3>1, <3>3, <4>1, <2>3 DEF Row
      <4> QED BY <4>1, <4>2, <3>1, <2>3
    <3>7. strays' \in SUBSET Merges
      BY <3>3, <3>4 DEF Row
    <3>8. faults' \in 0..MaxFaults
      BY <3>4, FailsTyped
    <3> QED BY <2>16, <3>2, <3>5, <3>6, <3>7, <3>8 DEF Verdict
  <2>17. ASSUME NEW p \in Procs, Stop(p) \/ Crash(p) PROVE TypeOK'
    BY <2>17, <2>4 DEF Stop, Crash
  <2> QED
    BY <2>1, <2>2, <2>6, <2>7, <2>8, <2>9, <2>10, <2>11, <2>12, <2>13, <2>14,
       <2>15, <2>16, <2>17, <2>18 DEF Next

(* Every state of the specification has its type.                          *)
THEOREM Typing == Spec => []TypeOK
  BY InitTyped, NextTyped, PTL DEF Spec

-----------------------------------------------------------------------------
(* Past its probe and its acquire a process has the lock of its repository.*)
LockHeld ==
  \A p \in Procs :
    proc[p].pc \in Holding \cup {"probed"} /\ Root(p) \in Lockable => flock[Root(p)] = p

(* The steps of a process that is up, without the ways down.               *)
Boots(p) ==
  \/ Probe(p) \/ Unprobe(p) \/ Rotate(p) \/ RotateDies(p) \/ Open(p) \/ Create(p)
  \/ Stamp(p) \/ Acquire(p) \/ Bind(p) \/ Reconcile(p)

(* What a step of a process that is up and stays up does to its record.    *)
LEMMA LiveIsUp == ASSUME TypeOK, NEW p \in Procs, Live(p)
                  PROVE  proc[p] \in Up /\ proc \in [Procs -> Proc]
  BY DEF TypeOK, Live, At, Proc, Up, Gone

(* What Goto does to the record of its process, and to no other.         *)
LEMMA GotoSets ==
  ASSUME TypeOK, NEW p \in Procs, Live(p), NEW pc, Goto(p, pc)
  PROVE  /\ proc'[p].pc = pc
         /\ proc'[p].root = proc[p].root /\ proc'[p].path = proc[p].path
         /\ proc'[p].fresh = proc[p].fresh /\ proc'[p].conn = proc[p].conn
         /\ proc'[p].row = proc[p].row /\ proc'[p].merge = proc[p].merge
  BY LiveIsUp DEF Goto, Up

(* What opening a file does to the record of its process.                *)
LEMMA OpenSets ==
  ASSUME TypeOK, NEW p \in Procs, Live(p), NEW i,
         proc' = [proc EXCEPT ![p].pc = "create", ![p].conn = i]
  PROVE  /\ proc'[p].pc = "create" /\ proc'[p].conn = i
         /\ proc'[p].root = proc[p].root /\ proc'[p].path = proc[p].path
         /\ proc'[p].fresh = proc[p].fresh
         /\ proc'[p].row = proc[p].row /\ proc'[p].merge = proc[p].merge
  BY LiveIsUp DEF Up

(* What an integrate does to the record of its process.                  *)
LEMMA MergeSets ==
  ASSUME TypeOK, NEW p \in Procs, Live(p), NEW i, NEW m,
         proc' = [proc EXCEPT ![p].row = i, ![p].merge = m]
  PROVE  /\ proc'[p].row = i /\ proc'[p].merge = m
         /\ proc'[p].pc = proc[p].pc /\ proc'[p].conn = proc[p].conn
         /\ proc'[p].root = proc[p].root /\ proc'[p].path = proc[p].path
         /\ proc'[p].fresh = proc[p].fresh
  BY LiveIsUp DEF Up

(* A step moves one process, and only that one's hold on a lock changes.   *)
LEMMA OneMoves ==
  ASSUME TypeOK, NEW p \in Procs,
         \/ \E s \in Starts, fresh \in BOOLEAN : Launch(p, s[1], s[2], fresh)
         \/ Boots(p) \/ Integrate(p) \/ Verdict(p) \/ Stop(p) \/ Crash(p)
  PROVE  /\ \A q \in Procs \ {p} : proc'[q] = proc[q]
         /\ \A r \in Roots, q \in Procs \ {p} : flock[r] = q => flock'[r] = q
  <1> USE DEF TypeOK
  <1>1. ASSUME Down(p)
        PROVE  /\ \A q \in Procs \ {p} : proc'[q] = proc[q]
               /\ \A r \in Roots, q \in Procs \ {p} : flock[r] = q => flock'[r] = q
    BY <1>1 DEF Down, Unlocked
  <1>2. CASE \E s \in Starts, fresh \in BOOLEAN : Launch(p, s[1], s[2], fresh)
    BY <1>2 DEF Launch
  <1>3. CASE Probe(p) \/ Acquire(p)
    BY <1>1, <1>3, StartupAssumption DEF Probe, Acquire, Goto
  <1>4. CASE Unprobe(p)
    BY <1>4 DEF Unprobe, Goto, Unlocked
  <1>5. CASE Rotate(p) \/ Create(p) \/ Stamp(p) \/ Reconcile(p)
    BY <1>5 DEF Rotate, Create, Stamp, Reconcile, Goto
  <1>6. CASE Open(p)
    BY <1>1, <1>6 DEF Open
  <1>7. CASE Bind(p)
    BY <1>1, <1>7 DEF Bind, Goto
  <1>8. CASE Integrate(p) \/ Verdict(p)
    BY <1>8 DEF Integrate, Verdict
  <1>9. CASE Stop(p) \/ Crash(p) \/ RotateDies(p)
    BY <1>1, <1>9 DEF Stop, Crash, RotateDies
  <1> QED BY <1>2, <1>3, <1>4, <1>5, <1>6, <1>7, <1>8, <1>9 DEF Boots

(* The lock invariant is inductive.                                        *)
LEMMA LockInvariant == TypeOK /\ LockHeld /\ [Next]_vars => LockHeld'
  <1> SUFFICES ASSUME TypeOK, LockHeld, [Next]_vars PROVE LockHeld'
    OBVIOUS
  <1>1. CASE UNCHANGED vars
    BY <1>1 DEF vars, LockHeld, Root
  <1>2. ASSUME NEW p \in Procs,
               \/ \E s \in Starts, fresh \in BOOLEAN : Launch(p, s[1], s[2], fresh)
               \/ Boots(p) \/ Integrate(p) \/ Verdict(p) \/ Stop(p) \/ Crash(p)
        PROVE  LockHeld'
    <2>1. ASSUME NEW q \in Procs \ {p},
                 (proc[q].pc \in Holding \cup {"probed"} /\ Root(q) \in Lockable)'
          PROVE  flock'[Root(q)'] = q
      <3>1. proc'[q] = proc[q]
        BY <1>2, OneMoves
      <3>2. flock[Root(q)] = q /\ Root(q) \in Roots /\ Root(q)' = Root(q)
        BY <2>1, <3>1, StartupAssumption DEF LockHeld, Root
      <3> QED BY <3>2, <1>2, OneMoves
    <2> DEFINE Held == (proc[p].pc \in Holding \cup {"probed"} /\ Root(p) \in Lockable)'
    <2>2. Held => flock'[Root(p)'] = p
      <3> USE DEF TypeOK
      <3>1. Down(p) => ~Held
        BY DEF Down, Gone, Holding
      <3>2. CASE \E s \in Starts, fresh \in BOOLEAN : Launch(p, s[1], s[2], fresh)
        BY <3>2 DEF Launch, Holding
      <3>3. CASE Probe(p) \/ Acquire(p)
        <4>1. Live(p)
          BY <3>3 DEF Probe, Acquire, Live, At
        <4>2. CASE Root(p) \in Lockable /\ flock[Root(p)] # Nobody
          BY <3>1, <3>3, <4>2 DEF Probe, Acquire
        <4>3. CASE Root(p) \in Lockable /\ flock[Root(p)] = Nobody
          <5>1. flock' = [flock EXCEPT ![Root(p)] = p] /\ Root(p) \in Roots
            BY <3>3, <4>3, StartupAssumption DEF Probe, Acquire
          <5>2. Root(p)' = Root(p)
            BY <3>3, <4>1, <4>3, GotoSets DEF Probe, Acquire, Root
          <5> QED BY <5>1, <5>2
        <4>4. CASE Root(p) \notin Lockable
          <5>1. Root(p)' = Root(p)
            BY <3>3, <4>1, <4>4, GotoSets DEF Probe, Acquire, Root
          <5> QED BY <4>4, <5>1
        <4> QED BY <4>2, <4>3, <4>4
      <3>4. CASE Unprobe(p) \/ Rotate(p) \/ Create(p) \/ Stamp(p)
        <4>1. Live(p)
          BY <3>4 DEF Unprobe, Rotate, Create, Stamp, Live, At
        <4> QED BY <3>4, <4>1, GotoSets DEF Unprobe, Rotate, Create, Stamp, Holding
      <3>5. CASE Open(p)
        <4>1. Live(p)
          BY <3>5 DEF Open, Live, At
        <4> QED BY <3>1, <3>5, <4>1, OpenSets DEF Open, Holding
      <3>6. CASE Bind(p)
        <4>1. Live(p) /\ proc[p].pc \in Holding
          BY <3>6 DEF Bind, Live, At, Holding
        <4>2. Down(p) \/ (Goto(p, "reconcile") /\ UNCHANGED flock)
          BY <3>6 DEF Bind
        <4>3. CASE Goto(p, "reconcile") /\ UNCHANGED flock
          BY <4>1, <4>3, GotoSets DEF Root, LockHeld
        <4> QED BY <3>1, <4>2, <4>3
      <3>7. CASE Reconcile(p)
        <4>1. Live(p) /\ proc[p].pc \in Holding /\ Goto(p, "serve") /\ UNCHANGED flock
          BY <3>7 DEF Reconcile, Live, At, Holding
        <4> QED BY <4>1, GotoSets DEF Root, LockHeld
      <3>8. CASE Integrate(p) \/ Verdict(p)
        <4>1. Live(p) /\ proc[p].pc \in Holding /\ UNCHANGED flock
          BY <3>8 DEF Integrate, Verdict, Live, At, Holding
        <4>2. Root(p)' = Root(p)
          <5>1. CASE Integrate(p)
            <6>1. proc' = [proc EXCEPT ![p].row = at[Path(p)], ![p].merge = merges + 1]
              BY <5>1 DEF Integrate
            <6> QED BY <4>1, <6>1, MergeSets DEF Root
          <5>2. CASE Verdict(p)
            <6>1. proc' = [proc EXCEPT ![p].row = 0, ![p].merge = 0]
              BY <5>2 DEF Verdict
            <6> QED BY <4>1, <6>1, MergeSets DEF Root
          <5> QED BY <3>8, <5>1, <5>2
        <4> QED BY <4>1, <4>2 DEF LockHeld
      <3>9. CASE Stop(p) \/ Crash(p) \/ RotateDies(p)
        BY <3>1, <3>9 DEF Stop, Crash, RotateDies
      <3> QED BY <1>2, <3>2, <3>3, <3>4, <3>5, <3>6, <3>7, <3>8, <3>9 DEF Boots
    <2> QED BY <2>1, <2>2 DEF LockHeld
  <1> QED BY <1>1, <1>2 DEF Next, Boots

(* repolock.py: at most one process per lockable repository is past the    *)
(* lock, whatever dies when, with --fresh used anywhere.                   *)
THEOREM OneServer == Spec => []OneServerPerRepo
  <1>1. Init => LockHeld
    BY DEF Init, LockHeld, Gone, Holding
  <1>2. LockHeld => OneServerPerRepo
    BY DEF LockHeld, OneServerPerRepo
  <1> QED BY <1>1, <1>2, Typing, LockInvariant, PTL DEF Spec

-----------------------------------------------------------------------------
(* When --fresh is polite, what a process has opened stays under its path, *)
(* bound to its repository, and a row is its repository's.                 *)
Connected == {"create", "stamp", "acquire", "bind", "reconcile", "serve"}

ConnStands ==
  \A p \in Procs :
    proc[p].pc \in Connected => proc[p].conn \in Files /\ proc[p].conn = at[Path(p)]

FreshIsAlone ==
  \A p, q \in Procs :
    p # q /\ proc[p].fresh /\ proc[p].pc \in Starting => Path(q) # Path(p)

BoundToRoot ==
  \A p \in Procs :
    proc[p].pc \in {"reconcile", "serve"} => file[proc[p].conn].bound = Root(p)

RowsOfRoot ==
  \A i \in Files : \A e \in file[i].open : e.root = file[i].bound /\ e.merge <= merges

RowsOpen ==
  \A p \in Procs : proc[p].row # 0 =>
    /\ At(p, "serve") /\ proc[p].row = proc[p].conn /\ proc[p].merge \in 1..merges
    /\ \A q \in Procs : proc[q].row # 0 /\ proc[q].merge = proc[p].merge => q = p

(* A path leads to a file that was made, and no other path leads to it.    *)
PathsApart ==
  /\ \A d \in Paths : at[d] <= made
  /\ \A c, d \in Paths : at[c] = at[d] /\ at[c] # 0 => c = d

BootInv ==
  /\ TypeOK /\ LockHeld /\ ConnStands /\ FreshIsAlone /\ PathsApart /\ BoundToRoot
  /\ RowsOfRoot /\ RowsOpen /\ LiveMergesStand

(* A step of a process that is up ends it, or keeps what it was started    *)
(* with and goes on.                                                       *)
Keeps(p) ==
  /\ proc'[p].root = proc[p].root /\ proc'[p].path = proc[p].path
  /\ proc'[p].fresh = proc[p].fresh
  /\ proc'[p].pc \in {"serve"} \cup Starting
  /\ proc'[p].pc \in Starting => proc[p].pc \in Starting

(* A step of a process that is up ends it, or takes it one step on.      *)
LEMMA GoesOn ==
  ASSUME TypeOK, NEW p \in Procs,
         Boots(p) \/ Integrate(p) \/ Verdict(p) \/ Stop(p) \/ Crash(p)
  PROVE  /\ Live(p)
         /\ \/ Down(p)
            \/ /\ Keeps(p)
               /\ proc'[p].pc \in Connected =>
                    \/ Open(p)
                    \/ proc[p].pc \in Connected /\ proc'[p].conn = proc[p].conn
  <1> USE DEF Keeps, Connected, Starting
  <1>1. ASSUME NEW pc \in {"serve"} \cup Starting, At(p, pc) PROVE Live(p)
    BY <1>1 DEF Live, At
  <1>2. CASE Probe(p)
    BY <1>2, <1>1, GotoSets DEF Probe, At
  <1>3. CASE Unprobe(p) \/ Rotate(p) \/ Create(p) \/ Stamp(p)
    BY <1>3, <1>1, GotoSets DEF Unprobe, Rotate, Create, Stamp, At
  <1>4. CASE Open(p)
    BY <1>4, <1>1, OpenSets DEF Open, At
  <1>5. CASE Acquire(p)
    BY <1>5, <1>1, GotoSets DEF Acquire, At
  <1>6. CASE Bind(p)
    <2>1. Live(p) /\ At(p, "bind") /\ (Down(p) \/ Goto(p, "reconcile"))
      BY <1>6, <1>1 DEF Bind
    <2> QED BY <2>1, GotoSets DEF At
  <1>7. CASE Reconcile(p)
    <2>1. Live(p) /\ At(p, "reconcile") /\ Goto(p, "serve")
      BY <1>7, <1>1 DEF Reconcile
    <2> QED BY <2>1, GotoSets DEF At
  <1>8. CASE Integrate(p)
    <2>1. /\ Live(p) /\ At(p, "serve")
          /\ proc' = [proc EXCEPT ![p].row = at[Path(p)], ![p].merge = merges + 1]
      BY <1>8, <1>1 DEF Integrate
    <2> QED BY <2>1, MergeSets DEF At
  <1>9. CASE Verdict(p)
    <2>1. /\ Live(p) /\ At(p, "serve")
          /\ proc' = [proc EXCEPT ![p].row = 0, ![p].merge = 0]
      BY <1>9, <1>1 DEF Verdict
    <2> QED BY <2>1, MergeSets DEF At
  <1>10. CASE Stop(p) \/ Crash(p) \/ RotateDies(p)
    BY <1>10, <1>1 DEF Stop, Crash, RotateDies
  <1> QED BY <1>2, <1>3, <1>4, <1>5, <1>6, <1>7, <1>8, <1>9, <1>10 DEF Boots

Step(p) ==
  \/ \E s \in Starts, fresh \in BOOLEAN : Launch(p, s[1], s[2], fresh)
  \/ Boots(p) \/ Integrate(p) \/ Verdict(p) \/ Stop(p) \/ Crash(p)

(* A path keeps its file, loses it, or is given a new one.                 *)
LEMMA PathMoves ==
  ASSUME BootInv, NEW p \in Procs, Step(p)
  PROVE  \/ at' = at /\ made' = made
         \/ \E d \in Paths : /\ at' = [at EXCEPT ![d] = 0] /\ made' = made
         \/ \E d \in Paths : /\ at' = [at EXCEPT ![d] = made + 1] /\ made' = made + 1
  <1>0. TypeOK
    BY DEF BootInv
  <1>1. ASSUME NEW i \in Files, Connect(p, i), Live(p)
        PROVE  \/ at' = at /\ made' = made
               \/ \E d \in Paths : /\ at' = [at EXCEPT ![d] = made + 1] /\ made' = made + 1
    <2>1. Path(p) \in Paths
      BY <1>0, <1>1, LiveIsUp DEF Path, Up
    <2> QED BY <1>1, <2>1 DEF Connect
  <1>2. CASE Rotate(p) \/ RotateDies(p)
    <2>1. Live(p) /\ made' = made
      BY <1>2 DEF Rotate, RotateDies, Live, At
    <2>2. Path(p) \in Paths
      BY <1>0, <2>1, LiveIsUp DEF Path, Up
    <2>3. at' = at \/ at' = [at EXCEPT ![Path(p)] = 0]
      BY <1>2 DEF Rotate, RotateDies
    <2> QED BY <2>1, <2>2, <2>3
  <1>3. CASE Open(p) \/ Bind(p)
    <2>1. Live(p)
      BY <1>3 DEF Open, Bind, Live, At
    <2> QED BY <1>1, <1>3, <2>1 DEF Open, Bind
  <1>4. CASE at' = at /\ made' = made
    BY <1>4
  <1> QED
    BY <1>2, <1>3, <1>4
    DEF Step, Boots, Launch, Probe, Unprobe, Create, Stamp, Acquire, Reconcile, Integrate,
        Verdict, Stop, Crash

(* Paths go to files that were made, each to its own.                      *)
LEMMA PathsStep ==
  ASSUME BootInv, NEW p \in Procs, Step(p) PROVE PathsApart'
  <1>0. TypeOK /\ made \in Nat /\ \A d \in Paths : at[d] \in Nat
    BY StartupAssumption DEF BootInv, TypeOK
  <1>1. \A d \in Paths : at[d] <= made
    BY DEF BootInv, PathsApart
  <1>3. /\ \A d \in Paths : at'[d] <= made'
        /\ \A c, d \in Paths : at'[c] = at'[d] /\ at'[c] # 0 => c = d
    <2>1. CASE at' = at /\ made' = made
      BY <2>1 DEF BootInv, PathsApart
    <2>2. ASSUME NEW b \in Paths, at' = [at EXCEPT ![b] = 0], made' = made
          PROVE  /\ \A d \in Paths : at'[d] <= made'
                 /\ \A c, d \in Paths : at'[c] = at'[d] /\ at'[c] # 0 => c = d
      BY <1>0, <2>2 DEF BootInv, PathsApart, TypeOK
    <2>3. ASSUME NEW b \in Paths, at' = [at EXCEPT ![b] = made + 1], made' = made + 1
          PROVE  /\ \A d \in Paths : at'[d] <= made'
                 /\ \A c, d \in Paths : at'[c] = at'[d] /\ at'[c] # 0 => c = d
      <3>1. \A d \in Paths : at'[d] = IF d = b THEN made + 1 ELSE at[d]
        BY <1>0, <2>3 DEF TypeOK
      <3>2. \A d \in Paths : at[d] # made + 1 /\ at[d] <= made + 1
        BY <1>0, <1>1
      <3> QED BY <1>0, <2>3, <3>1, <3>2 DEF BootInv, PathsApart
    <2> QED BY <2>1, <2>2, <2>3, PathMoves
  <1> QED BY <1>3 DEF PathsApart

(* No step moves a file away from under a process that has it open.        *)
LEMMA PathsStand ==
  ASSUME BootInv, NEW p \in Procs, Step(p), NEW q \in Procs, proc[q].pc \in Connected
  PROVE  at'[Path(q)] = at[Path(q)]
  <1> USE DEF BootInv, TypeOK
  <1>1. proc[q].conn \in Files /\ proc[q].conn = at[Path(q)] /\ at[Path(q)] # 0
    BY DEF ConnStands, Files
  <1>0. Path(q) \in Paths /\ at \in [Paths -> 0..MaxFiles]
    BY LiveIsUp DEF Live, At, Connected, Path, Up
  <1>2. ASSUME NEW i \in Files, Connect(p, i) PROVE at'[Path(q)] = at[Path(q)]
    BY <1>1, <1>2, <1>0 DEF Connect
  <1>3. CASE Rotate(p) \/ RotateDies(p)
    <2>1. proc[p].pc \in Starting /\ proc[p].pc \notin Connected /\ p # q
      BY <1>3 DEF Rotate, RotateDies, At, Starting, Connected
    <2>2. at' = at \/ (proc[p].fresh /\ at' = [at EXCEPT ![Path(p)] = 0])
      BY <1>3 DEF Rotate, RotateDies
    <2>3. proc[p].fresh => Path(q) # Path(p)
      BY <2>1 DEF FreshIsAlone
    <2> QED BY <1>0, <2>2, <2>3
  <1>4. CASE Open(p) \/ Bind(p)
    BY <1>2, <1>4 DEF Open, Bind
  <1>5. CASE UNCHANGED at
    BY <1>5
  <1> QED
    BY <1>3, <1>4, <1>5 DEF Step, Boots, Launch, Probe, Unprobe, Create, Stamp, Acquire,
                            Reconcile, Integrate, Verdict, Stop, Crash

(* A connection stays on the file of its path.                           *)
LEMMA ConnStep ==
  ASSUME BootInv, NEW p \in Procs, Step(p) PROVE ConnStands'
  <1>0. TypeOK
    BY DEF BootInv
  <1>1. ASSUME NEW q \in Procs \ {p}, (proc[q].pc \in Connected)'
        PROVE  (proc[q].conn \in Files /\ proc[q].conn = at[Path(q)])'
    <2>1. proc'[q] = proc[q]
      BY <1>0, OneMoves DEF Step
    <2>2. at'[Path(q)] = at[Path(q)]
      BY <1>1, <2>1, PathsStand
    <2> QED BY <1>1, <2>1, <2>2 DEF BootInv, ConnStands, Path
  <1>2. ASSUME (proc[p].pc \in Connected)'
        PROVE  (proc[p].conn \in Files /\ proc[p].conn = at[Path(p)])'
    <2>1. CASE \E s \in Starts, fresh \in BOOLEAN : Launch(p, s[1], s[2], fresh)
      BY <1>0, <1>2, <2>1 DEF Launch, TypeOK, Connected
    <2>2. CASE Open(p)
      <3>1. PICK i \in Files :
              /\ Connect(p, i)
              /\ IF file[i].schema = "tables" THEN Down(p)
                 ELSE proc' = [proc EXCEPT ![p].pc = "create", ![p].conn = i] /\ UNCHANGED flock
        BY <2>2 DEF Open
      <3>2. ~Down(p)
        BY <1>0, <1>2 DEF Down, Gone, Connected, TypeOK
      <3>3. proc'[p].conn = i /\ Path(p)' = Path(p) /\ proc[p] \in Up
        BY <1>0, <2>2, <3>1, <3>2, OpenSets, LiveIsUp DEF Open, At, Live, Path
      <3>4. at'[Path(p)] = i
        BY <1>0, <3>1, <3>3 DEF Connect, TypeOK, Path, Up
      <3> QED BY <3>3, <3>4
    <2>3. CASE ~Open(p) /\ (Boots(p) \/ Integrate(p) \/ Verdict(p) \/ Stop(p) \/ Crash(p))
      <3>1. ~Down(p)
        BY <1>0, <1>2 DEF Down, Gone, Connected, TypeOK
      <3>2. proc[p].pc \in Connected /\ proc'[p].conn = proc[p].conn /\ Path(p)' = Path(p)
        BY <1>0, <1>2, <2>3, <3>1, GoesOn DEF Keeps, Path
      <3> QED BY <3>2, PathsStand DEF BootInv, ConnStands
    <2> QED BY <2>1, <2>2, <2>3 DEF Step, Boots
  <1> QED BY <1>1, <1>2 DEF ConnStands

(* A --fresh start that is about to move a file is alone on it.          *)
LEMMA FreshStep ==
  ASSUME Careful, BootInv, NEW p \in Procs, Step(p) PROVE FreshIsAlone'
  <1>0. TypeOK
    BY DEF BootInv
  <1>1. \A q \in Procs \ {p} : proc'[q] = proc[q]
    BY <1>0, OneMoves DEF Step
  <1>2. CASE \E s \in Starts, fresh \in BOOLEAN : Launch(p, s[1], s[2], fresh)
    <2>1. PICK s \in Starts, fresh \in BOOLEAN : Launch(p, s[1], s[2], fresh)
      BY <1>2
    <2>2. proc'[p].path = s[2] /\ proc'[p].fresh = fresh
      BY <1>0, <2>1 DEF Launch, TypeOK
    <2>3. \A q \in Procs : Path(q) = s[2] => ~fresh /\ ~(proc[q].fresh /\ proc[q].pc \in Starting)
      BY <2>1 DEF Launch, Polite
    <2> QED BY <1>1, <2>2, <2>3 DEF BootInv, FreshIsAlone, Path
  <1>3. CASE Down(p)
    <2>1. proc'[p] = Gone
      BY <1>0, <1>3 DEF Down, TypeOK
    <2>2. ASSUME NEW q \in Procs, proc[q].pc \in Starting PROVE Path(q) # Nobody
      BY <1>0, <2>2, LiveIsUp, StartupAssumption DEF Live, At, Starting, Path, Up
    <2>3. ASSUME NEW q \in Procs, NEW u \in Procs, q # u,
                 (proc[q].fresh /\ proc[q].pc \in Starting)'
          PROVE  Path(u)' # Path(q)'
      <3>1. q # p /\ proc'[q] = proc[q]
        BY <1>1, <2>1, <2>3 DEF Gone, Starting
      <3>2. CASE u = p
        BY <2>1, <2>2, <2>3, <3>1, <3>2 DEF Path, Gone
      <3>3. CASE u # p
        BY <1>1, <2>3, <3>1, <3>3 DEF BootInv, FreshIsAlone, Path
      <3> QED BY <3>2, <3>3
    <2> QED BY <2>3 DEF FreshIsAlone
  <1>4. CASE Keeps(p)
    BY <1>1, <1>4 DEF Keeps, BootInv, FreshIsAlone, Path
  <1> QED BY <1>0, <1>2, <1>3, <1>4, GoesOn DEF Step

(* A database keeps its first root.                                        *)
LEMMA BoundStands ==
  ASSUME BootInv, NEW p \in Procs, Step(p), NEW i \in Files, file[i].bound # Nobody
  PROVE  file'[i].bound = file[i].bound
  <1> USE DEF BootInv, TypeOK
  <1>0. file[i] \in File
    OBVIOUS
  <1>1. CASE Bind(p)
    <2>1. PICK j \in Files :
            IF file[j].schema = "none" THEN UNCHANGED file
            ELSE file' = [file EXCEPT ![j].bound =
                            IF file[j].bound = Nobody THEN Root(p) ELSE file[j].bound]
      BY <1>1 DEF Bind
    <2> QED BY <2>1, <1>0 DEF File
  <1>2. CASE Create(p) \/ Stamp(p)
    BY <1>0, <1>2 DEF Create, Stamp, File
  <1>3. ASSUME NEW j, NEW open, file' = [file EXCEPT ![j].open = open]
        PROVE  file'[i].bound = file[i].bound
    BY <1>0, <1>3 DEF File
  <1>4. CASE Reconcile(p)
    BY <1>3, <1>4, ReconcileIs DEF Reconciled
  <1>5. CASE Integrate(p)
    BY <1>0, <1>5 DEF Integrate, File
  <1>6. CASE Verdict(p)
    BY <1>3, <1>6 DEF Verdict
  <1>7. CASE RotateDies(p)
    BY <1>3, <1>7 DEF RotateDies
  <1> QED
    BY <1>1, <1>2, <1>4, <1>5, <1>6, <1>7 DEF Step, Boots, Launch, Probe, Unprobe, Rotate, Open,
                                        Acquire, Stop, Crash

(* What a database is bound to past Bind stays its server's root.        *)
LEMMA BoundStep ==
  ASSUME BootInv, NEW p \in Procs, Step(p) PROVE BoundToRoot'
  <1>0. TypeOK
    BY DEF BootInv
  <1> DEFINE Bound(q) == proc[q].pc \in {"reconcile", "serve"}
  <1>1. ASSUME NEW q \in Procs, Bound(q)
        PROVE  /\ proc[q].conn \in Files
               /\ file'[proc[q].conn].bound = Root(q)
    <2>1. proc[q].conn \in Files /\ file[proc[q].conn].bound = Root(q)
      BY <1>1 DEF BootInv, ConnStands, BoundToRoot, Connected
    <2>2. Root(q) # Nobody
      BY <1>0, <1>1, LiveIsUp, StartupAssumption DEF Live, At, Root, Up
    <2> QED BY <2>1, <2>2, BoundStands
  <1>2. ASSUME NEW q \in Procs \ {p}, Bound(q)'
        PROVE  (file[proc[q].conn].bound = Root(q))'
    <2>1. proc'[q] = proc[q]
      BY <1>0, OneMoves DEF Step
    <2> QED BY <1>1, <1>2, <2>1 DEF Root
  <1>3. ASSUME Bound(p)'
        PROVE  (file[proc[p].conn].bound = Root(p))'
    <2>0. ~Down(p)
      BY <1>0, <1>3 DEF Down, Gone, TypeOK
    <2>1. CASE Bind(p)
      <3>1. PICK i \in Files :
              /\ Connect(p, i)
              /\ file' = [file EXCEPT ![i].bound =
                            IF file[i].bound = Nobody THEN Root(p) ELSE file[i].bound]
              /\ (IF file[i].bound = Nobody THEN Root(p) ELSE file[i].bound) = Root(p)
              /\ Goto(p, "reconcile")
        BY <2>0, <2>1 DEF Bind
      <3>2. proc[p].conn \in Files /\ proc[p].conn = at[Path(p)]
        BY <2>1 DEF Bind, At, BootInv, ConnStands, Connected
      <3>3. i = proc[p].conn
        BY <3>1, <3>2 DEF Connect, Files
      <3>4. proc'[p].conn = proc[p].conn /\ Root(p)' = Root(p)
        BY <1>0, <2>1, <3>1, GotoSets DEF Bind, At, Live, Root
      <3>5. file'[i].bound = Root(p)
        BY <1>0, <3>1 DEF TypeOK, File
      <3> QED BY <3>3, <3>4, <3>5
    <2>2. CASE \E s \in Starts, fresh \in BOOLEAN : Launch(p, s[1], s[2], fresh)
      BY <1>0, <1>3, <2>2 DEF Launch, TypeOK
    <2>3. CASE Probe(p) \/ Unprobe(p) \/ Rotate(p) \/ Create(p) \/ Stamp(p) \/ Acquire(p)
      <3>1. Live(p)
        BY <2>3 DEF Probe, Unprobe, Rotate, Create, Stamp, Acquire, At, Live
      <3> QED
        BY <1>0, <1>3, <2>0, <2>3, <3>1, GotoSets
        DEF Probe, Unprobe, Rotate, Create, Stamp, Acquire
    <2>4. CASE Open(p)
      <3>1. Live(p)
        BY <2>4 DEF Open, At, Live
      <3> QED BY <1>0, <1>3, <2>0, <2>4, <3>1, OpenSets DEF Open
    <2>5. CASE Reconcile(p) \/ Integrate(p) \/ Verdict(p)
      <3>1. ~Open(p) /\ (Boots(p) \/ Integrate(p) \/ Verdict(p))
        BY <2>5 DEF Reconcile, Integrate, Verdict, At, Open, Boots
      <3>2. Bound(p)
        BY <2>5 DEF Reconcile, Integrate, Verdict, At
      <3>3. proc'[p].conn = proc[p].conn /\ Root(p)' = Root(p)
        BY <1>0, <1>3, <2>0, <2>5, <3>1, GoesOn
        DEF Keeps, Root, Connected, Open, Reconcile, Integrate, Verdict, At
      <3> QED BY <1>1, <3>2, <3>3
    <2>6. CASE Stop(p) \/ Crash(p) \/ RotateDies(p)
      BY <2>0, <2>6 DEF Stop, Crash, RotateDies
    <2> QED BY <2>1, <2>2, <2>3, <2>4, <2>5, <2>6 DEF Step, Boots
  <1> QED BY <1>2, <1>3 DEF BoundToRoot

(* Recovery adds no row that tells of another merge.                       *)
LEMMA RecoveredRows ==
  ASSUME TypeOK, NEW p, Reconcile(p), NEW i \in Files, NEW e \in file'[i].open
  PROVE  \E o \in file[i].open : o.merge = e.merge /\ o.root = e.root /\ o.before = e.before
  <1>1. PICK j, reset, recorded : Reconciled(p, j, reset, recorded)
    BY ReconcileIs
  <1>2. j \in Files /\ file[i] \in File /\ file[j] \in File /\ recorded \ reset \in SUBSET Row
    BY <1>1 DEF Reconciled, TypeOK, File
  <1>3. CASE e \in file[i].open
    BY <1>3
  <1>4. CASE e \notin file[i].open
    <2> DEFINE open == (file[j].open \ recorded) \cup Retried(recorded \ reset)
    <2>1. file' = [file EXCEPT ![j].open = open]
      BY <1>1 DEF Reconciled
    <2> HIDE DEF open
    <2>2. i = j /\ e \in open
      BY <1>2, <1>4, <2>1 DEF TypeOK, File
    <2>3. e \in Retried(recorded \ reset)
      BY <1>4, <2>2 DEF open
    <2>4. PICK o \in recorded \ reset :
            e.merge = o.merge /\ e.root = o.root /\ e.before = o.before
      BY <1>2, <2>3, RetriedRows
    <2> QED BY <1>1, <2>2, <2>4 DEF Reconciled
  <1> QED BY <1>3, <1>4

(* The rows of a bound database are those of its root.                   *)
LEMMA RowsOfRootStep ==
  ASSUME BootInv, NEW p \in Procs, Step(p) PROVE RowsOfRoot'
  <1>0. TypeOK /\ merges \in Nat
    BY StartupAssumption DEF BootInv, TypeOK
  <1>1. SUFFICES ASSUME NEW i \in Files, NEW e \in file'[i].open
                 PROVE  e.root = file'[i].bound /\ e.merge <= merges'
    BY DEF RowsOfRoot
  <1>2. ASSUME NEW o \in file[i].open
        PROVE  /\ o.root = file'[i].bound /\ o.merge <= merges
               /\ o.merge \in Nat
    <2>1. o \in Row /\ o.root = file[i].bound /\ o.merge <= merges
      BY <1>0 DEF BootInv, RowsOfRoot, TypeOK, File
    <2>2. file[i].bound # Nobody /\ o.merge \in Nat
      BY <2>1, StartupAssumption DEF Row, Merges
    <2> QED BY <2>1, <2>2, BoundStands
  <1>3. CASE Integrate(p)
    <2> DEFINE j == at[Path(p)]
               n == [merge |-> merges + 1, root |-> Root(p), before |-> trunk[Root(p)],
                     attempts |-> 0]
    <2>1. /\ file' = [file EXCEPT ![j].open = @ \cup {n}]
          /\ merges' = merges + 1
      BY <1>3 DEF Integrate
    <2>2. j = proc[p].conn /\ j \in Files /\ file[j].bound = Root(p)
      BY <1>3 DEF Integrate, At, BootInv, ConnStands, BoundToRoot, Connected
    <2>3. file[j] \in File /\ file[i] \in File
      BY <1>0, <2>2 DEF TypeOK
    <2>4. CASE e \in file[i].open
      BY <1>0, <1>2, <2>1, <2>4
    <2>5. CASE e \notin file[i].open
      <3> HIDE DEF j, n
      <3>1. i = j /\ e = n /\ file'[i].bound = file[i].bound
        BY <1>0, <2>1, <2>2, <2>3, <2>5 DEF TypeOK, File
      <3> QED BY <1>0, <2>1, <2>2, <3>1 DEF n
    <2> QED BY <2>4, <2>5
  <1>4. CASE ~Integrate(p)
    <2>1. \E o \in file[i].open : o.merge = e.merge /\ o.root = e.root
      <3> USE <1>0 DEF TypeOK
      <3>0. file[i] \in File
        OBVIOUS
      <3>1. CASE Bind(p)
        <4>1. PICK k, r : file' = [file EXCEPT ![k].bound = r] \/ UNCHANGED file
          BY <3>1 DEF Bind
        <4> QED BY <1>1, <3>0, <4>1 DEF File
      <3>2. CASE Create(p) \/ Stamp(p)
        BY <1>1, <3>0, <3>2 DEF Create, Stamp, File
      <3>3. CASE Reconcile(p)
        BY <1>1, <3>0, <3>3, RecoveredRows
      <3>4. CASE Verdict(p) \/ RotateDies(p)
        <4>1. PICK k, gone : file' = [file EXCEPT ![k].open = file[k].open \ gone]
          <5>1. CASE Verdict(p)
            <6>1. PICK failed, own :
                    file' = [file EXCEPT ![proc[p].row].open =
                               IF "record" \in failed THEN file[proc[p].row].open
                               ELSE file[proc[p].row].open \ own]
              BY <5>1 DEF Verdict
            <6>2. CASE "record" \in failed
              <7>1. file' = [file EXCEPT ![proc[p].row].open = file[proc[p].row].open \ {}]
                BY <6>1, <6>2
              <7> QED BY <7>1
            <6>3. CASE "record" \notin failed
              BY <6>1, <6>3
            <6> QED BY <6>2, <6>3
          <5>2. CASE RotateDies(p)
            BY <5>2 DEF RotateDies
          <5> QED BY <3>4, <5>1, <5>2
        <4> QED BY <1>1, <3>0, <4>1 DEF File
      <3> QED
        BY <1>1, <1>4, <3>1, <3>2, <3>3, <3>4
        DEF Step, Boots, Launch, Probe, Unprobe, Rotate, Open, Acquire, Stop, Crash
    <2>2. merges' = merges
      BY <1>4 DEF Step, Boots, Launch, Probe, Unprobe, Rotate, Open, Create, Stamp, Acquire,
                  Bind, Reconcile, Verdict, Stop, Crash, RotateDies
    <2> QED BY <1>2, <2>1, <2>2
  <1> QED BY <1>3, <1>4

(* The row of the process that steps is opened by Integrate, closed by     *)
(* Verdict, and otherwise stays or goes with the process.                  *)
LEMMA OwnRow ==
  ASSUME BootInv, NEW p \in Procs, Step(p)
  PROVE  \/ Integrate(p)
         \/ proc'[p].row = 0
         \/ proc'[p] = proc[p]
  <1>0. TypeOK
    BY DEF BootInv
  <1>1. ASSUME Down(p) PROVE proc'[p].row = 0
    BY <1>0, <1>1 DEF Down, Gone, TypeOK
  <1>2. ~At(p, "serve") => proc[p].row = 0
    BY DEF BootInv, RowsOpen
  <1>3. CASE \E s \in Starts, fresh \in BOOLEAN : Launch(p, s[1], s[2], fresh)
    BY <1>0, <1>3 DEF Launch, TypeOK
  <1>4. CASE Probe(p) \/ Unprobe(p) \/ Rotate(p) \/ Create(p) \/ Stamp(p) \/ Acquire(p)
    <2>1. Live(p) /\ ~At(p, "serve")
      BY <1>4 DEF Probe, Unprobe, Rotate, Create, Stamp, Acquire, At, Live
    <2> QED
      BY <1>0, <1>1, <1>2, <1>4, <2>1, GotoSets
      DEF Probe, Unprobe, Rotate, Create, Stamp, Acquire
  <1>5. CASE Open(p)
    <2>1. Live(p) /\ ~At(p, "serve")
      BY <1>5 DEF Open, At, Live
    <2> QED BY <1>0, <1>1, <1>2, <1>5, <2>1, OpenSets DEF Open
  <1>6. CASE Bind(p) \/ Reconcile(p)
    <2>1. /\ Live(p) /\ ~At(p, "serve")
          /\ Down(p) \/ Goto(p, "reconcile") \/ Goto(p, "serve")
      BY <1>6 DEF Bind, Reconcile, At, Live
    <2> QED BY <1>0, <1>1, <1>2, <2>1, GotoSets
  <1>7. CASE Verdict(p)
    <2>1. Live(p) /\ proc' = [proc EXCEPT ![p].row = 0, ![p].merge = 0]
      BY <1>7 DEF Verdict, At, Live
    <2> QED BY <1>0, <2>1, MergeSets
  <1>8. CASE Stop(p) \/ Crash(p) \/ RotateDies(p)
    BY <1>1, <1>8 DEF Stop, Crash, RotateDies
  <1> QED BY <1>3, <1>4, <1>5, <1>6, <1>7, <1>8 DEF Step, Boots

(* The row of an open integrate stays in its server's database.          *)
LEMMA RowsOpenStep ==
  ASSUME BootInv, NEW p \in Procs, Step(p) PROVE RowsOpen'
  <1>0. TypeOK /\ merges \in Nat /\ (merges' = merges \/ merges' = merges + 1)
    BY StartupAssumption
    DEF BootInv, TypeOK, Step, Boots, Launch, Probe, Unprobe, Rotate, Open, Create, Stamp,
        Acquire, Bind, Reconcile, Integrate, Verdict, Stop, Crash, RotateDies
  <1>1. \A q \in Procs \ {p} : proc'[q] = proc[q]
    BY <1>0, OneMoves DEF Step
  <1>2. \A q \in Procs : proc[q].row # 0 =>
          /\ proc[q].pc = "serve" /\ proc[q].row = proc[q].conn
          /\ proc[q].merge \in 1..merges /\ proc[q].merge \in 1..merges'
          /\ \A u \in Procs : proc[u].row # 0 /\ proc[u].merge = proc[q].merge => u = q
    BY <1>0 DEF BootInv, RowsOpen, At
  <1>3. CASE Integrate(p)
    <2>1. /\ At(p, "serve") /\ Live(p) /\ merges' = merges + 1
          /\ proc' = [proc EXCEPT ![p].row = at[Path(p)], ![p].merge = merges + 1]
      BY <1>3 DEF Integrate, At, Live
    <2>2. at[Path(p)] = proc[p].conn
      BY <2>1 DEF BootInv, ConnStands, Connected, At
    <2>3. /\ proc'[p].pc = "serve" /\ proc'[p].row = proc'[p].conn
          /\ proc'[p].merge = merges + 1
      <3>1. /\ proc'[p].pc = proc[p].pc /\ proc'[p].conn = proc[p].conn
            /\ proc'[p].row = at[Path(p)] /\ proc'[p].merge = merges + 1
        <4>1. PICK i, m : i = at[Path(p)] /\ m = merges + 1
                          /\ proc' = [proc EXCEPT ![p].row = i, ![p].merge = m]
          BY <2>1
        <4>2. /\ proc'[p].pc = proc[p].pc /\ proc'[p].conn = proc[p].conn
              /\ proc'[p].row = i /\ proc'[p].merge = m
          <5>1. TypeOK /\ Live(p)
            BY <1>0, <2>1
          <5> QED BY <4>1, <5>1, LiveIsUp DEF Up
        <4> QED BY <4>1, <4>2
      <3> QED BY <2>1, <2>2, <3>1 DEF At
    <2>4. ASSUME NEW q \in Procs, proc'[q].row # 0
          PROVE  /\ proc'[q].pc = "serve" /\ proc'[q].row = proc'[q].conn
                 /\ proc'[q].merge \in 1..merges'
                 /\ q # p => proc'[q].merge # merges + 1
      <3>1. CASE q = p
        BY <1>0, <2>1, <2>3, <3>1
      <3>2. CASE q # p
        <4>1. proc'[q] = proc[q] /\ proc[q].row # 0
          BY <1>1, <2>4, <3>2
        <4>2. proc[q].merge \in 1..merges /\ proc[q].pc = "serve" /\ proc[q].row = proc[q].conn
          BY <1>2, <4>1
        <4>3. /\ proc[q].merge \in 1..(merges + 1)
              /\ proc[q].merge # merges + 1
          <5>1. merges \in Nat
            BY <1>0
          <5> QED BY <4>2, <5>1
        <4>4. proc[q].merge \in 1..merges'
          BY <2>1, <4>3
        <4> QED BY <4>1, <4>2, <4>3, <4>4
      <3> QED BY <3>1, <3>2
    <2>5. ASSUME NEW q \in Procs, NEW u \in Procs, proc'[q].row # 0, proc'[u].row # 0,
                 proc'[u].merge = proc'[q].merge
          PROVE  u = q
      BY <1>1, <1>2, <2>3, <2>4, <2>5
    <2> QED BY <2>4, <2>5 DEF RowsOpen, At
  <1>4. CASE proc'[p].row = 0
    BY <1>1, <1>2, <1>4 DEF RowsOpen, At
  <1>5. CASE proc'[p] = proc[p]
    BY <1>1, <1>2, <1>5 DEF RowsOpen, At
  <1> QED BY <1>3, <1>4, <1>5, OwnRow

(* A step takes no live merge's row or place on the trunk.               *)
LEMMA LiveStep ==
  ASSUME BootInv, NEW p \in Procs, Step(p) PROVE LiveMergesStand'
  <1>0. TypeOK
    BY DEF BootInv
  <1>1. ASSUME NEW q \in Procs, Root(q) \in Lockable, proc[q].row # 0, proc'[q] = proc[q]
        PROVE  /\ proc[q].merge \in trunk'[Root(q)]
               /\ \E e \in file'[proc[q].row].open : e.merge = proc[q].merge
    <2> DEFINE i == proc[q].row
    <2>1. /\ At(q, "serve") /\ i = proc[q].conn /\ i \in Files
          /\ Root(q) \in Roots /\ file[i].bound = Root(q)
          /\ file[i] \in File
      BY <1>0, <1>1, StartupAssumption
      DEF BootInv, RowsOpen, ConnStands, BoundToRoot, Connected, At, TypeOK
    <2>2. /\ proc[q].merge \in trunk[Root(q)]
          /\ \E e \in file[i].open : e.merge = proc[q].merge
      BY <1>1 DEF BootInv, LiveMergesStand
    <2>3. ASSUME proc[p].pc \in Holding, p # q PROVE Root(p) # Root(q)
      BY <1>1, <2>1, <2>3 DEF BootInv, LockHeld, Holding, At
    <2>4. CASE Bind(p)
      <3>1. PICK k, r : file' = [file EXCEPT ![k].bound = r] \/ UNCHANGED file
        BY <2>4 DEF Bind
      <3>2. file'[i].open = file[i].open
        BY <1>0, <2>1, <3>1 DEF TypeOK, File
      <3> QED BY <2>2, <2>4, <3>2 DEF Bind
    <2>5. CASE Create(p) \/ Stamp(p)
      <3>1. file'[i].open = file[i].open
        BY <1>0, <2>1, <2>5 DEF Create, Stamp, TypeOK, File
      <3> QED BY <2>2, <2>5, <3>1 DEF Create, Stamp
    <2>6. CASE Reconcile(p)
      <3>1. At(p, "reconcile") /\ p # q
        BY <2>1, <2>6 DEF Reconcile, At
      <3>2. Root(p) # Root(q)
        BY <2>3, <3>1 DEF At, Holding
      <3>3. PICK j, reset, recorded : Reconciled(p, j, reset, recorded)
        BY <2>6, ReconcileIs
      <3>4. j = proc[p].conn /\ j \in Files /\ file[j].bound = Root(p)
        BY <3>1, <3>3 DEF At, BootInv, BoundToRoot, Reconciled
      <3>5. {e \in reset : e.root = Root(q)} = {}
        BY <3>2, <3>3, <3>4 DEF BootInv, RowsOfRoot, Reconciled
      <3>6. trunk'[Root(q)] = trunk[Root(q)]
        BY <2>1, <3>3, <3>5 DEF Reconciled, RolledBack
      <3>7. i # j
        BY <2>1, <3>2, <3>4
      <3>8. file'[i].open = file[i].open
        BY <1>0, <2>1, <3>3, <3>7 DEF Reconciled, TypeOK
      <3> QED BY <2>2, <3>6, <3>8
    <2>10. CASE RotateDies(p)
      <3>1. /\ proc[p].fresh /\ proc[p].pc \in Starting /\ p # q /\ at[Path(p)] # 0
            /\ Live(p) /\ trunk' = trunk
        BY <2>1, <2>10 DEF RotateDies, At, Starting, Live
      <3>2. Path(q) # Path(p)
        BY <3>1 DEF BootInv, FreshIsAlone
      <3>3. Path(p) \in Paths /\ Path(q) \in Paths /\ i = at[Path(q)]
        BY <1>0, <2>1, <3>1, LiveIsUp
        DEF BootInv, ConnStands, Connected, At, Live, Path, Up
      <3>4. i # at[Path(p)]
        BY <3>1, <3>2, <3>3 DEF BootInv, PathsApart
      <3>5. PICK gone : file' = [file EXCEPT ![at[Path(p)]].open = file[at[Path(p)]].open \ gone]
        BY <2>10 DEF RotateDies
      <3>6. file'[i].open = file[i].open
        BY <1>0, <2>1, <3>4, <3>5 DEF TypeOK
      <3> QED BY <2>2, <3>1, <3>6
    <2>7. CASE Integrate(p)
      <3> DEFINE j == at[Path(p)]
      <3>1. PICK n : /\ file' = [file EXCEPT ![j].open = @ \cup {n}]
                     /\ trunk' = [trunk EXCEPT ![Root(p)] = @ \cup {merges + 1}]
        BY <2>7 DEF Integrate
      <3>2. file[i].open \subseteq file'[i].open
        <4> HIDE DEF i, j
        <4> QED BY <1>0, <2>1, <3>1 DEF TypeOK, File
      <3>3. trunk[Root(q)] \subseteq trunk'[Root(q)]
        BY <1>0, <2>1, <3>1 DEF TypeOK
      <3> QED BY <2>2, <3>2, <3>3
    <2>8. CASE Verdict(p)
      <3>1. At(p, "serve") /\ proc[p].row # 0
        BY <2>8 DEF Verdict
      <3>2. p # q
        <4>1. proc' = [proc EXCEPT ![p].row = 0, ![p].merge = 0] /\ Live(p)
          BY <2>8, <3>1 DEF Verdict, At, Live
        <4>2. proc'[p].row = 0
          BY <1>0, <4>1, MergeSets
        <4> QED BY <1>1, <4>2
      <3>3. Root(p) # Root(q) /\ proc[p].merge # proc[q].merge
        BY <1>1, <2>3, <3>1, <3>2 DEF At, Holding, BootInv, RowsOpen
      <3>4. trunk'[Root(q)] = trunk[Root(q)]
        <4>1. PICK t : trunk' = trunk \/ trunk' = [trunk EXCEPT ![Root(p)] = t]
          BY <2>8 DEF Verdict
        <4> QED BY <1>0, <2>1, <3>3, <4>1 DEF TypeOK
      <3>5. \A e \in file[i].open : e.merge = proc[q].merge => e \in file'[i].open
        <4> DEFINE rows == file[proc[p].row].open
        <4>1. PICK failed :
                file' = [file EXCEPT ![proc[p].row].open =
                           IF "record" \in failed THEN rows
                           ELSE rows \ {e \in rows : e.merge = proc[p].merge}]
          BY <2>8 DEF Verdict
        <4>2. CASE "record" \in failed
          <5>1. file' = [file EXCEPT ![proc[p].row].open = rows]
            BY <4>1, <4>2
          <5> HIDE DEF i
          <5> QED BY <1>0, <2>1, <5>1 DEF TypeOK, File
        <4>3. CASE "record" \notin failed
          <5>1. file' = [file EXCEPT ![proc[p].row].open =
                           rows \ {e \in rows : e.merge = proc[p].merge}]
            BY <4>1, <4>3
          <5> HIDE DEF i
          <5> QED BY <1>0, <2>1, <3>3, <5>1 DEF TypeOK, File
        <4> QED BY <4>2, <4>3
      <3> QED BY <2>2, <3>4, <3>5
    <2>9. CASE UNCHANGED <<file, trunk>>
      BY <2>2, <2>9
    <2> QED
      BY <2>4, <2>5, <2>6, <2>7, <2>8, <2>9, <2>10
      DEF Step, Boots, Launch, Probe, Unprobe, Rotate, Open, Acquire, Stop, Crash
  <1>2. ASSUME NEW q \in Procs \ {p}, (Root(q) \in Lockable /\ proc[q].row # 0)'
        PROVE  (/\ proc[q].merge \in trunk[Root(q)]
                /\ \E e \in file[proc[q].row].open : e.merge = proc[q].merge)'
    <2>1. proc'[q] = proc[q]
      BY <1>0, OneMoves DEF Step
    <2> QED BY <1>1, <1>2, <2>1 DEF Root
  <1>3. ASSUME (Root(p) \in Lockable /\ proc[p].row # 0)'
        PROVE  (/\ proc[p].merge \in trunk[Root(p)]
                /\ \E e \in file[proc[p].row].open : e.merge = proc[p].merge)'
    <2>1. CASE Integrate(p)
      <3> DEFINE j == at[Path(p)]
                 n == [merge |-> merges + 1, root |-> Root(p), before |-> trunk[Root(p)],
                     attempts |-> 0]
      <3>1. /\ file' = [file EXCEPT ![j].open = @ \cup {n}]
            /\ trunk' = [trunk EXCEPT ![Root(p)] = @ \cup {merges + 1}]
            /\ proc' = [proc EXCEPT ![p].row = j, ![p].merge = merges + 1]
            /\ Live(p) /\ At(p, "serve")
        BY <2>1 DEF Integrate, At, Live
      <3>2. j \in Files
        BY <3>1 DEF At, BootInv, ConnStands, Connected
      <3>3. proc'[p].row = j /\ proc'[p].merge = merges + 1 /\ Root(p)' = Root(p)
        <4>1. PICK i, m : i = j /\ m = merges + 1
                          /\ proc' = [proc EXCEPT ![p].row = i, ![p].merge = m]
          BY <3>1
        <4>2. /\ proc'[p].row = i /\ proc'[p].merge = m
              /\ proc'[p].root = proc[p].root
          <5>1. TypeOK /\ Live(p)
            BY <1>0, <3>1
          <5> QED BY <4>1, <5>1, LiveIsUp DEF Up
        <4> QED BY <4>1, <4>2 DEF Root
      <3>4. Root(p) \in Roots
        BY <1>3, <3>3, StartupAssumption
      <3>5. merges + 1 \in trunk'[Root(p)]
        BY <1>0, <3>1, <3>4 DEF TypeOK
      <3>6. n \in file'[j].open
        <4> HIDE DEF n, j
        <4> QED BY <1>0, <3>1, <3>2 DEF TypeOK, File
      <3>7. n.merge = merges + 1
        OBVIOUS
      <3> HIDE DEF n, j
      <3> QED BY <3>3, <3>5, <3>6, <3>7
    <2>2. CASE proc'[p] = proc[p]
      BY <1>1, <1>3, <2>2 DEF Root
    <2> QED BY <1>3, <2>1, <2>2, OwnRow
  <1> QED BY <1>2, <1>3 DEF LiveMergesStand

(* What the boots keep is inductive.                                       *)
LEMMA BootInvariant == ASSUME Careful PROVE Spec => []BootInv
  <1>1. Init => BootInv
    BY InitTyped DEF Init, BootInv, LockHeld, Holding, ConnStands, Connected, FreshIsAlone,
                  Starting, PathsApart, BoundToRoot, RowsOfRoot, RowsOpen, LiveMergesStand, Gone
  <1>2. BootInv /\ [Next]_vars => BootInv'
    <2> SUFFICES ASSUME BootInv, [Next]_vars PROVE BootInv'
      OBVIOUS
    <2>1. TypeOK' /\ LockHeld'
      BY NextTyped, LockInvariant DEF BootInv
    <2>2. CASE UNCHANGED vars
      BY <2>1, <2>2 DEF vars, BootInv, ConnStands, FreshIsAlone, PathsApart, BoundToRoot,
                        RowsOfRoot, RowsOpen, LiveMergesStand, Root, Path, At
    <2>3. ASSUME NEW p \in Procs, Step(p) PROVE BootInv'
      BY <2>1, <2>3, ConnStep, FreshStep, PathsStep, BoundStep, RowsOfRootStep, RowsOpenStep, LiveStep
      DEF BootInv
    <2> QED BY <2>2, <2>3 DEF Next, Step, Boots
  <1> QED BY <1>1, <1>2, PTL DEF Spec

(* A boot takes nothing from a server that is judging a merge: as long as  *)
(* --fresh is only used on a path nobody has, the lock and the binding of  *)
(* the database together leave every live merge its row and its trunk.     *)
THEOREM LiveStands == ASSUME Careful PROVE Spec => []LiveMergesStand
  <1>1. BootInv => LiveMergesStand
    BY DEF BootInv
  <1> QED BY <1>1, BootInvariant, PTL

-----------------------------------------------------------------------------
(* What becomes of orphans.  When every start of a repository names one    *)
(* database, an un-gated merge whose server is gone has a row that the     *)
(* next server finds, or that --fresh has moved aside, or it is a stray.   *)
OneDatabase == \A s, t \in Starts : s[1] \in Lockable /\ s[1] = t[1] => s[2] = t[2]

Rows(i, r) == {e \in file[i].open : e.root = r}

(* A merge whose row is in a file that was moved aside.                    *)
Lost(m, r, i) == (\A d \in Paths : at[d] # i) /\ \E e \in Rows(i, r) : e.merge = m

Started == \A p \in Procs : Live(p) => <<Root(p), Path(p)>> \in Starts

(* Only files that were made have rows.                                    *)
Made == \A i \in Files : file[i].open # {} => i <= made

Placed ==
  \A d \in Paths, r \in Lockable : at[d] # 0 /\ Rows(at[d], r) # {} => <<r, d>> \in Starts

(* What a trunk may still hold when its server has rolled back.            *)
Excused(m, r) == m \in strays \/ \E j \in Files : Lost(m, r, j)

(* Every un-gated merge has its row or is a stray, and the trunk a row     *)
(* would restore holds none but excused ones.                              *)
Traced ==
  \A r \in Lockable : \A m \in trunk[r] :
    m \in strays \/ \E i \in Files : \E e \in Rows(i, r) : e.merge = m
LostBefore ==
  \A i \in Files, r \in Lockable : \A e \in Rows(i, r) : \A m \in e.before : Excused(m, r)

(* Merges are numbered in the order of their rows, and a merge has its     *)
(* rows in one file.                                                       *)
Dated ==
  /\ \A r \in Roots : \A m \in trunk[r] : m <= merges
  /\ \A i \in Files : \A e \in file[i].open : \A m \in e.before : m < e.merge
RowsApart ==
  \A i, j \in Files : \A e \in file[i].open, o \in file[j].open : e.merge = o.merge => i = j

(* A row in the database of a server is that of its open integrate, or     *)
(* that of a stray, or its merge is off the trunk: a verdict that was not  *)
(* recorded, a reset that was not.                                         *)
Told(p, m) ==
  (proc[p].row # 0 /\ m = proc[p].merge) \/ m \in strays \/ m \notin trunk[Root(p)]
Served ==
  \A p \in Procs : At(p, "serve") /\ Root(p) \in Lockable =>
    \A e \in file[proc[p].conn].open : Told(p, e.merge)

OrphanInv ==
  /\ BootInv /\ Started /\ Made /\ Placed /\ Traced /\ LostBefore /\ Dated
  /\ RowsApart /\ Served

Writing(p) == proc[p].pc \in {"reconcile", "serve"}

(* A process that recovers or serves writes to the file of its path.       *)
LEMMA WritesOwn ==
  ASSUME BootInv, NEW p \in Procs, Writing(p)
  PROVE  /\ Live(p) /\ proc[p].conn \in Files /\ Path(p) \in Paths
         /\ proc[p].conn = at[Path(p)] /\ file[proc[p].conn].bound = Root(p)
         /\ proc[p].row # 0 => proc[p].row = proc[p].conn
         /\ \A e \in file[proc[p].conn].open : e.root = Root(p)
  <1>1. Live(p)
    BY DEF Writing, Live, At
  <1>2. proc[p].conn \in Files /\ proc[p].conn = at[Path(p)] /\ file[proc[p].conn].bound = Root(p)
    BY DEF BootInv, ConnStands, BoundToRoot, Connected, Writing
  <1>3. Path(p) \in Paths
    BY <1>1, LiveIsUp DEF BootInv, Up, Path
  <1> QED BY <1>1, <1>2, <1>3 DEF BootInv, RowsOpen, RowsOfRoot

(* Nobody else writes rows, but who dies in a rotation takes some away.    *)
LEMMA OpenStays ==
  ASSUME BootInv, NEW p \in Procs, Step(p), NEW i \in Files
  PROVE  \/ file'[i].open = file[i].open
         \/ Writing(p) /\ i = proc[p].conn /\ (Reconcile(p) \/ Integrate(p) \/ Verdict(p))
         \/ /\ RotateDies(p) /\ i = at[Path(p)]
            /\ file'[i].open \subseteq file[i].open
            /\ \A e \in file[i].open \ file'[i].open : e.merge \in strays'
  <1>0. TypeOK /\ file[i] \in File
    BY DEF BootInv, TypeOK
  <1>1. CASE Bind(p)
    <2>1. PICK k, r : file' = [file EXCEPT ![k].bound = r] \/ UNCHANGED file
      BY <1>1 DEF Bind
    <2> QED BY <1>0, <2>1 DEF TypeOK, File
  <1>2. CASE Create(p) \/ Stamp(p)
    BY <1>0, <1>2 DEF Create, Stamp, TypeOK, File
  <1>3. CASE Reconcile(p)
    <2>1. PICK j, reset, recorded : Reconciled(p, j, reset, recorded)
      BY <1>3, ReconcileIs
    <2>2. Writing(p) /\ j = proc[p].conn
      BY <1>3, <2>1 DEF Reconcile, Writing, At, Reconciled
    <2>3. i # j => file'[i].open = file[i].open
      BY <1>0, <2>1 DEF Reconciled, TypeOK
    <2> QED BY <1>3, <2>2, <2>3
  <1>4. CASE Integrate(p)
    <2>1. Writing(p) /\ \E n : file' = [file EXCEPT ![at[Path(p)]].open = @ \cup {n}]
      BY <1>4 DEF Integrate, Writing, At
    <2> QED BY <1>0, <1>4, <2>1, WritesOwn DEF TypeOK
  <1>5. CASE Verdict(p)
    <2>1. /\ Writing(p) /\ proc[p].row # 0
          /\ \E open : file' = [file EXCEPT ![proc[p].row].open = open]
      BY <1>5 DEF Verdict, Writing, At
    <2> QED BY <1>0, <1>5, <2>1, WritesOwn DEF TypeOK
  <1>6. CASE RotateDies(p)
    <2> DEFINE j == at[Path(p)]
    <2>1. PICK logged : /\ file' = [file EXCEPT ![j].open = file[j].open \ logged]
                        /\ strays' = strays \cup {e.merge : e \in logged}
      BY <1>6 DEF RotateDies
    <2>2. CASE i # j
      <3> HIDE DEF j
      <3> QED BY <1>0, <2>1, <2>2 DEF TypeOK
    <2>3. CASE i = j
      <3> HIDE DEF j
      <3>1. file'[i].open = file[i].open \ logged
        BY <1>0, <2>1, <2>3 DEF TypeOK, File
      <3> QED BY <1>6, <2>1, <2>3, <3>1 DEF j
    <2> QED BY <2>2, <2>3
  <1>7. CASE UNCHANGED file
    BY <1>7
  <1> QED
    BY <1>1, <1>2, <1>3, <1>4, <1>5, <1>6, <1>7
    DEF Step, Boots, Launch, Probe, Unprobe, Rotate, Open, Acquire, Stop, Crash

(* Nobody else moves a trunk, and strays stay strays.                      *)
LEMMA TrunkStays ==
  ASSUME BootInv, NEW p \in Procs, Step(p)
  PROVE  /\ \A r \in Roots : trunk'[r] = trunk[r] \/ (Writing(p) /\ Root(p) = r)
         /\ strays \subseteq strays'
  <1>0. trunk \in [Roots -> SUBSET Merges]
    BY DEF BootInv, TypeOK
  <1>1. CASE Reconcile(p)
    <2>1. PICK i, reset, recorded : Reconciled(p, i, reset, recorded)
      BY <1>1, ReconcileIs
    <2>2. Writing(p)
      BY <1>1 DEF Reconcile, Writing, At
    <2>3. \A e \in reset : e.root = Root(p)
      BY <2>1, <2>2, WritesOwn DEF Reconciled
    <2>4. \A r \in Roots : r # Root(p) => trunk'[r] = trunk[r]
      BY <2>1, <2>3 DEF Reconciled, RolledBack
    <2> QED BY <2>1, <2>2, <2>4 DEF Reconciled
  <1>2. CASE Integrate(p)
    BY <1>0, <1>2 DEF Integrate, Writing, At
  <1>3. CASE Verdict(p)
    <2>1. Writing(p) /\ \E t : trunk' = trunk \/ trunk' = [trunk EXCEPT ![Root(p)] = t]
      BY <1>3 DEF Verdict, Writing, At
    <2>2. strays \subseteq strays'
      BY <1>3 DEF Verdict
    <2> QED BY <1>0, <2>1, <2>2
  <1>4. CASE RotateDies(p)
    BY <1>4 DEF RotateDies
  <1> QED
    BY <1>1, <1>2, <1>3, <1>4
    DEF Step, Boots, Launch, Probe, Unprobe, Rotate, Open, Create, Stamp, Acquire, Bind,
        Stop, Crash

(* An integrate adds its row and then its merge.                         *)
LEMMA IntegrateRow ==
  ASSUME BootInv, NEW p \in Procs, Integrate(p)
  PROVE  LET n == [merge |-> merges + 1, root |-> Root(p), before |-> trunk[Root(p)],
                    attempts |-> 0]
         IN  /\ Writing(p) /\ At(p, "serve") /\ proc[p].row = 0 /\ at' = at
             /\ file'[proc[p].conn].open = file[proc[p].conn].open \cup {n}
             /\ trunk' = [trunk EXCEPT ![Root(p)] = @ \cup {merges + 1}]
             /\ proc'[p].row = proc[p].conn /\ proc'[p].merge = merges + 1
             /\ proc'[p].conn = proc[p].conn
  <1> DEFINE n == [merge |-> merges + 1, root |-> Root(p), before |-> trunk[Root(p)],
                   attempts |-> 0]
  <1>1. /\ Writing(p) /\ At(p, "serve") /\ proc[p].row = 0 /\ at' = at
        /\ trunk' = [trunk EXCEPT ![Root(p)] = @ \cup {merges + 1}]
    BY DEF Integrate, Writing, At
  <1>2. /\ file' = [file EXCEPT ![at[Path(p)]].open = @ \cup {n}]
        /\ proc' = [proc EXCEPT ![p].row = at[Path(p)], ![p].merge = merges + 1]
    BY DEF Integrate
  <1>3. PICK i, m : i = at[Path(p)] /\ m = merges + 1
                    /\ proc' = [proc EXCEPT ![p].row = i, ![p].merge = m]
    BY <1>2
  <1>4. TypeOK /\ Live(p) /\ proc[p].conn \in Files /\ i = proc[p].conn
    BY <1>1, <1>3, WritesOwn DEF BootInv
  <1>5. proc'[p].row = i /\ proc'[p].merge = m /\ proc'[p].conn = proc[p].conn
    BY <1>3, <1>4, LiveIsUp DEF Up
  <1>6. file'[i].open = file[i].open \cup {n}
    <2> HIDE DEF n
    <2> QED BY <1>2, <1>3, <1>4 DEF TypeOK, File
  <1> HIDE DEF n
  <1>7. /\ file'[proc[p].conn].open = file[proc[p].conn].open \cup {n}
        /\ proc'[p].row = proc[p].conn /\ proc'[p].merge = merges + 1
        /\ proc'[p].conn = proc[p].conn
    BY <1>3, <1>4, <1>5, <1>6
  <1> QED BY <1>1, <1>7 DEF n

(* A verdict takes no row but that of its integrate.  Without a reset that *)
(* fails the merge is gated or the trunk is what it was before.            *)
LEMMA VerdictRow ==
  ASSUME BootInv, NEW p \in Procs, Verdict(p)
  PROVE  LET i == proc[p].conn
             own == {e \in file[i].open : e.merge = proc[p].merge}
         IN  /\ Writing(p) /\ At(p, "serve") /\ proc[p].row # 0 /\ at' = at
             /\ file'[i].open \subseteq file[i].open
             /\ file[i].open \ own \subseteq file'[i].open
             /\ \/ trunk' = trunk /\ strays' = strays \cup {e.merge : e \in own}
                \/ \E t \in {trunk[Root(p)] \ {proc[p].merge}} \cup {e.before : e \in own} :
                     trunk' = [trunk EXCEPT ![Root(p)] = t]
             /\ proc'[p].conn = proc[p].conn
  <1> DEFINE i == proc[p].conn
             own == {e \in file[i].open : e.merge = proc[p].merge}
  <1>1. /\ Writing(p) /\ At(p, "serve") /\ proc[p].row # 0 /\ at' = at
    BY DEF Verdict, Writing, At
  <1>2. proc[p].row = i /\ TypeOK /\ Live(p) /\ i \in Files
    BY <1>1, WritesOwn DEF BootInv
  <1>3. PICK failed \in SUBSET {"reset", "record"} :
          /\ file' = [file EXCEPT ![i].open = IF "record" \in failed THEN file[i].open
                                             ELSE file[i].open \ own]
          /\ \E t \in {trunk[Root(p)] \ {proc[p].merge}} \cup {e.before : e \in own} :
               trunk' = IF "reset" \in failed THEN trunk ELSE [trunk EXCEPT ![Root(p)] = t]
          /\ strays' = strays \cup (IF "reset" \in failed THEN {e.merge : e \in own} ELSE {})
    BY <1>2 DEF Verdict
  <1>4. proc' = [proc EXCEPT ![p].row = 0, ![p].merge = 0]
    BY DEF Verdict
  <1>5. proc'[p].conn = i
    BY <1>2, <1>4, MergeSets
  <1>6. file'[i].open \subseteq file[i].open /\ file[i].open \ own \subseteq file'[i].open
    <2> DEFINE open == IF "record" \in failed THEN file[i].open ELSE file[i].open \ own
    <2>1. /\ file' = [file EXCEPT ![i].open = open]
          /\ open \subseteq file[i].open /\ file[i].open \ own \subseteq open
      BY <1>3
    <2> HIDE DEF own, i, open
    <2>2. file'[i].open = open
      BY <1>2, <2>1 DEF TypeOK, File
    <2> QED BY <2>1, <2>2
  <1>7. \/ trunk' = trunk /\ strays' = strays \cup {e.merge : e \in own}
        \/ \E t \in {trunk[Root(p)] \ {proc[p].merge}} \cup {e.before : e \in own} :
             trunk' = [trunk EXCEPT ![Root(p)] = t]
    <2>1. CASE "reset" \in failed
      BY <1>3, <2>1
    <2>2. CASE "reset" \notin failed
      BY <1>3, <2>2
    <2> QED BY <2>1, <2>2
  <1> QED BY <1>1, <1>5, <1>6, <1>7

(* A row is one that was there, perhaps with one more attempt, or that of  *)
(* an integrate.                                                           *)
LEMMA NewRow ==
  ASSUME BootInv, NEW p \in Procs, Step(p), NEW i \in Files, NEW e \in file'[i].open
  PROVE  \/ \E o \in file[i].open : o.merge = e.merge /\ o.root = e.root /\ o.before = e.before
         \/ /\ Integrate(p) /\ i = proc[p].conn /\ e.root = Root(p)
            /\ e.merge = merges + 1 /\ e.before = trunk[Root(p)]
  <1>1. CASE Reconcile(p)
    BY <1>1, RecoveredRows DEF BootInv
  <1>2. CASE e \in file[i].open
    BY <1>2
  <1>3. CASE e \notin file[i].open /\ ~Reconcile(p)
    <2>1. Writing(p) /\ i = proc[p].conn /\ (Integrate(p) \/ Verdict(p))
      BY <1>3, OpenStays
    <2>2. Integrate(p)
      BY <1>3, <2>1, VerdictRow
    <2>3. e = [merge |-> merges + 1, root |-> Root(p), before |-> trunk[Root(p)], attempts |-> 0]
      BY <1>3, <2>1, <2>2, IntegrateRow
    <2> QED BY <2>1, <2>2, <2>3
  <1> QED BY <1>1, <1>2, <1>3

(* What is lost stays lost: nobody opens a file that was moved aside.      *)
LEMMA LostStays ==
  ASSUME OrphanInv, NEW p \in Procs, Step(p), NEW m, NEW r, NEW i \in Files, Lost(m, r, i)
  PROVE  Lost(m, r, i)'
  <1>0. BootInv /\ TypeOK /\ Made /\ made \in Nat
    BY StartupAssumption DEF OrphanInv, BootInv, TypeOK
  <1>4. RotateDies(p) => i # at[Path(p)]
    <2> SUFFICES ASSUME RotateDies(p) PROVE Path(p) \in Paths
      BY DEF Lost
    <2>1. Live(p)
      BY DEF RotateDies, Live, At
    <2> QED BY <1>0, <2>1, LiveIsUp DEF Path, Up
  <1>1. i <= made
    BY <1>0 DEF Lost, Rows, Made
  <1>2. \A d \in Paths : at'[d] # i
    <2>1. i \in Nat /\ i # 0 /\ i # made + 1
      BY <1>0, <1>1 DEF Files
    <2>2. \A d \in Paths : at[d] # i
      BY DEF Lost
    <2> QED BY <1>0, <2>1, <2>2, PathMoves DEF TypeOK
  <1>3. file'[i].open = file[i].open
    <2>1. Writing(p) => i # proc[p].conn
      BY <1>0, WritesOwn DEF Lost
    <2> QED BY <1>0, <1>4, <2>1, OpenStays
  <1> QED BY <1>2, <1>3 DEF Lost, Rows

(* What is excused stays so.                                               *)
LEMMA ExcusedStays ==
  ASSUME OrphanInv, NEW p \in Procs, Step(p), NEW m, NEW r, Excused(m, r)
  PROVE  Excused(m, r)'
  <1>1. CASE m \in strays
    BY <1>1, TrunkStays DEF OrphanInv, Excused
  <1>2. CASE \E j \in Files : Lost(m, r, j)
    <2>1. PICK j \in Files : Lost(m, r, j)
      BY <1>2
    <2>2. Lost(m, r, j)'
      BY <2>1, LostStays
    <2> QED BY <2>2 DEF Excused
  <1> QED BY <1>1, <1>2 DEF Excused

(* An un-gated merge under a server is its own, or excused.                *)
LEMMA OthersAreLost ==
  ASSUME OneDatabase, OrphanInv, NEW p \in Procs, At(p, "serve"), Root(p) \in Lockable,
         NEW m \in trunk[Root(p)], proc[p].row = 0 \/ m # proc[p].merge
  PROVE  Excused(m, Root(p))
  <1>0. BootInv /\ Writing(p)
    BY DEF OrphanInv, Writing, At
  <1>4. CASE m \in strays
    BY <1>4 DEF Excused
  <1>5. CASE m \notin strays
    <2>0. PICK i \in Files : \E e \in Rows(i, Root(p)) : e.merge = m
      BY <1>5 DEF OrphanInv, Traced
    <2>1. i # proc[p].conn
      BY <1>5, <2>0 DEF OrphanInv, Served, Told, Rows
    <2>2. ASSUME NEW d \in Paths, at[d] = i
          PROVE  FALSE
      <3>1. <<Root(p), d>> \in Starts
        BY <2>0, <2>2 DEF OrphanInv, Placed, Files
      <3>2. <<Root(p), Path(p)>> \in Starts
        BY <1>0, WritesOwn DEF OrphanInv, Started
      <3>3. d = Path(p)
        BY <3>1, <3>2 DEF OneDatabase
      <3> QED BY <1>0, <2>1, <2>2, <3>3, WritesOwn
    <2> QED BY <2>0, <2>2 DEF Lost, Excused
  <1> QED BY <1>4, <1>5

(* Who is up was launched as one of the starts.                          *)
LEMMA StartedStep ==
  ASSUME BootInv, Started, NEW p \in Procs, Step(p) PROVE Started'
  <1>0. TypeOK
    BY DEF BootInv
  <1>1. \A q \in Procs \ {p} : proc'[q] = proc[q]
    BY <1>0, OneMoves DEF Step
  <1>2. ASSUME Live(p)'
        PROVE  <<Root(p), Path(p)>>' \in Starts
    <2>1. ASSUME NEW s \in Starts, NEW fresh \in BOOLEAN, Launch(p, s[1], s[2], fresh)
          PROVE  <<Root(p), Path(p)>>' \in Starts
      <3>1. proc'[p].root = s[1] /\ proc'[p].path = s[2]
        BY <1>0, <2>1 DEF Launch, TypeOK
      <3>2. s = <<s[1], s[2]>>
        BY StartupAssumption
      <3> QED BY <3>1, <3>2 DEF Root, Path
    <2>2. ~Down(p)
      BY <1>0, <1>2 DEF Down, Gone, Live, At, TypeOK
    <2>3. CASE Live(p) /\ Keeps(p)
      BY <2>3 DEF Keeps, Started, Root, Path
    <2> QED BY <1>0, <2>1, <2>2, <2>3, GoesOn DEF Step
  <1> QED BY <1>1, <1>2 DEF Started, Live, At, Root, Path

(* Only files that were made have rows.                                    *)
LEMMA MadeStep ==
  ASSUME BootInv, Made, NEW p \in Procs, Step(p) PROVE Made'
  <1>0. made \in Nat /\ made' \in Nat /\ made' >= made /\ \A d \in Paths : at[d] <= made
    BY PathMoves, StartupAssumption DEF BootInv, TypeOK, PathsApart
  <1>1. ASSUME NEW i \in Files, NEW e \in file'[i].open
        PROVE  i <= made'
    <2>1. CASE \E o \in file[i].open : TRUE
      BY <1>0, <2>1 DEF Made, Files
    <2>2. CASE ~\E o \in file[i].open : TRUE
      <3>1. i = proc[p].conn /\ Integrate(p)
        BY <1>1, <2>2, NewRow
      <3>2. Path(p) \in Paths /\ i = at[Path(p)]
        BY <3>1, IntegrateRow, WritesOwn
      <3> QED BY <1>0, <3>2 DEF Files
    <2> QED BY <2>1, <2>2
  <1> QED BY <1>1 DEF Made

(* The rows of a path's file belong to a root that is started there.     *)
LEMMA PlacedStep ==
  ASSUME BootInv, Started, Made, Placed, NEW p \in Procs, Step(p) PROVE Placed'
  <1>0. TypeOK /\ made \in Nat
    BY StartupAssumption DEF BootInv, TypeOK
  <1>1. SUFFICES ASSUME NEW d \in Paths, NEW r \in Lockable, at'[d] # 0,
                        NEW e \in file'[at'[d]].open, e.root = r
                 PROVE  <<r, d>> \in Starts
    BY DEF Placed, Rows
  <1>2. at'[d] \in Files
    <2>1. TypeOK'
      BY <1>0, NextTyped DEF Next, Step, Boots
    <2> QED BY <1>1, <2>1, StartupAssumption DEF TypeOK, Files
  <1>3. CASE \E o \in file[at'[d]].open : o.root = r
    <2>1. at'[d] <= made
      BY <1>2, <1>3 DEF Made
    <2>2. at'[d] = at[d]
      <3>1. at'[d] # made + 1
        BY <1>0, <1>2, <2>1 DEF Files
      <3> QED BY <1>0, <1>1, <3>1, PathMoves DEF TypeOK
    <2> QED BY <1>1, <1>3, <2>2 DEF Placed, Rows
  <1>4. CASE ~\E o \in file[at'[d]].open : o.root = r
    <2>1. Integrate(p) /\ at'[d] = proc[p].conn /\ r = Root(p)
      BY <1>1, <1>2, <1>4, NewRow
    <2>2. at' = at /\ Live(p) /\ Path(p) \in Paths /\ proc[p].conn = at[Path(p)]
      BY <2>1, IntegrateRow, WritesOwn
    <2>3. d = Path(p)
      BY <1>1, <2>1, <2>2 DEF BootInv, PathsApart
    <2> QED BY <2>1, <2>2, <2>3 DEF Started
  <1> QED BY <1>3, <1>4

(* A merge that is on the trunk loses its row only as a stray.             *)
LEMMA TracedStep ==
  ASSUME OrphanInv, NEW p \in Procs, Step(p) PROVE Traced'
  <1>0. /\ BootInv /\ TypeOK /\ trunk \in [Roots -> SUBSET Merges] /\ Lockable \subseteq Roots
        /\ strays \subseteq strays'
    BY StartupAssumption, TrunkStays DEF OrphanInv, BootInv, TypeOK
  <1>1. SUFFICES ASSUME NEW r \in Lockable, NEW m \in trunk'[r]
                 PROVE  \/ m \in strays'
                        \/ \E i \in Files : \E e \in file'[i].open : e.root = r /\ e.merge = m
    BY DEF Traced, Rows
  <1> DEFINE Found == \/ m \in strays'
                      \/ \E i \in Files : \E e \in file'[i].open : e.root = r /\ e.merge = m
  <1>2. ASSUME Excused(m, r)
        PROVE  Found
    <2>1. Excused(m, r)'
      BY <1>2, ExcusedStays
    <2> QED BY <2>1 DEF Excused, Lost, Rows
  <1>3. ASSUME NEW e \in Rows(proc[p].conn, r), Writing(p), m \in e.before
        PROVE  Found
    <2>1. proc[p].conn \in Files
      BY <1>0, <1>3, WritesOwn
    <2>2. Excused(m, r)
      BY <1>3, <2>1 DEF OrphanInv, LostBefore
    <2> HIDE DEF Found
    <2> QED BY <1>2, <2>2
  <1>5. ASSUME m \in trunk[r],
               \A i \in Files : \A e \in Rows(i, r) :
                 e.merge = m => e \in file'[i].open \/ m \in strays'
        PROVE  Found
    <2>1. CASE m \in strays
      BY <1>0, <2>1
    <2>2. CASE \E i \in Files : \E e \in Rows(i, r) : e.merge = m
      BY <1>5, <2>2 DEF Rows
    <2> QED BY <1>5, <2>1, <2>2 DEF OrphanInv, Traced
  <1>6. CASE Reconcile(p)
    <2>0. PICK i, reset, recorded : Reconciled(p, i, reset, recorded)
      BY <1>6, ReconcileIs
    <2>1. Writing(p) /\ i = proc[p].conn /\ reset \subseteq file[i].open
      BY <1>6, <2>0 DEF Reconcile, Writing, At, Reconciled
    <2>2. RolledBack(reset, r, trunk'[r])
      BY <1>0, <2>0 DEF Reconciled
    <2>3. CASE \A e \in reset : e.root # r
      <3>1. m \in trunk[r]
        BY <1>1, <2>2, <2>3 DEF RolledBack
      <3>2. ASSUME NEW j \in Files, NEW e \in Rows(j, r), e.merge = m
            PROVE  e \in file'[j].open \/ m \in strays'
        <4>1. CASE j = i
          BY <2>0, <2>3, <3>2, <4>1 DEF Reconciled, Rows
        <4>2. CASE j # i
          <5>1. ~RotateDies(p)
            BY <1>6 DEF Reconcile, RotateDies, At
          <5> QED BY <1>0, <2>1, <3>2, <4>2, <5>1, OpenStays DEF Rows
        <4> QED BY <4>1, <4>2
      <3> QED BY <1>5, <3>1, <3>2
    <2>4. CASE ~\A e \in reset : e.root # r
      <3>1. \E e \in Rows(i, r) : trunk'[r] = e.before
        BY <2>1, <2>2, <2>4 DEF RolledBack, Rows
      <3> QED BY <1>1, <1>3, <2>1, <3>1
    <2> QED BY <2>3, <2>4
  <1>7. CASE Integrate(p)
    <2> DEFINE n == [merge |-> merges + 1, root |-> Root(p), before |-> trunk[Root(p)],
                     attempts |-> 0]
    <2>1. /\ Writing(p) /\ n \in file'[proc[p].conn].open
          /\ file[proc[p].conn].open \subseteq file'[proc[p].conn].open
          /\ trunk' = [trunk EXCEPT ![Root(p)] = @ \cup {merges + 1}]
      BY <1>0, <1>7, IntegrateRow
    <2>2. CASE m \in trunk[r]
      <3>1. ASSUME NEW j \in Files, NEW e \in Rows(j, r)
            PROVE  e \in file'[j].open
        <4>1. ~RotateDies(p)
          BY <1>7 DEF Integrate, RotateDies, At
        <4> HIDE DEF n
        <4> QED BY <1>0, <2>1, <3>1, <4>1, OpenStays DEF Rows
      <3> QED BY <1>5, <2>2, <3>1
    <2>3. CASE m \notin trunk[r]
      <3>1. r = Root(p) /\ m = merges + 1
        BY <1>0, <1>1, <2>1, <2>3
      <3>2. proc[p].conn \in Files
        BY <1>0, <2>1, WritesOwn
      <3>3. n.root = r /\ n.merge = m
        BY <3>1
      <3> HIDE DEF n
      <3> QED BY <2>1, <3>2, <3>3
    <2> QED BY <2>2, <2>3
  <1>8. CASE Verdict(p)
    <2> DEFINE i == proc[p].conn
               own == {e \in file[i].open : e.merge = proc[p].merge}
               after == {trunk[Root(p)] \ {proc[p].merge}} \cup {e.before : e \in own}
    <2>1. /\ Writing(p) /\ file[i].open \ own \subseteq file'[i].open
          /\ \/ trunk' = trunk /\ strays' = strays \cup {e.merge : e \in own}
             \/ \E t \in after : trunk' = [trunk EXCEPT ![Root(p)] = t]
      BY <1>0, <1>8, VerdictRow
    <2>2. ASSUME NEW j \in Files, NEW e \in Rows(j, r), e \notin file'[j].open
          PROVE  e \in own
      <3>1. ~RotateDies(p) /\ ~Reconcile(p) /\ ~Integrate(p)
        BY <1>8 DEF Verdict, Integrate, Reconcile, RotateDies, At
      <3>2. j = i
        BY <1>0, <2>2, <3>1, OpenStays DEF Rows
      <3> QED BY <2>1, <2>2, <3>2 DEF Rows
    <2>3. CASE trunk' = trunk /\ strays' = strays \cup {e.merge : e \in own}
      <3>1. \A j \in Files : \A e \in Rows(j, r) : e \in file'[j].open \/ e.merge \in strays'
        <4> HIDE DEF own
        <4> QED BY <2>2, <2>3
      <3> QED BY <1>1, <1>5, <2>3, <3>1
    <2>4. ASSUME NEW t \in after, trunk' = [trunk EXCEPT ![Root(p)] = t]
          PROVE  Found
      <3>1. CASE r # Root(p)
        <4>1. m \in trunk[r]
          BY <1>0, <1>1, <2>4, <3>1
        <4>2. \A e \in own : e.root # r
          BY <1>0, <2>1, <3>1, WritesOwn
        <4>3. \A j \in Files : \A e \in Rows(j, r) : e \in file'[j].open
          <5> HIDE DEF own
          <5> QED BY <2>2, <4>2 DEF Rows
        <4> QED BY <1>5, <4>1, <4>3
      <3>2. CASE r = Root(p) /\ t = trunk[r] \ {proc[p].merge}
        <4>1. m \in trunk[r] /\ m # proc[p].merge
          BY <1>0, <1>1, <2>4, <3>2
        <4>2. \A j \in Files : \A e \in Rows(j, r) : e.merge = m => e \in file'[j].open
          BY <2>2, <4>1
        <4> QED BY <1>5, <4>1, <4>2
      <3>3. ASSUME NEW e \in own, t = e.before, r = Root(p)
            PROVE  Found
        <4>1. m \in e.before
          BY <1>0, <1>1, <2>4, <3>3
        <4>2. e \in Rows(i, r)
          BY <1>0, <2>1, <3>3, WritesOwn DEF Rows
        <4> QED BY <1>3, <2>1, <4>1, <4>2
      <3> QED BY <2>4, <3>1, <3>2, <3>3
    <2>5. ASSUME \E t \in after : trunk' = [trunk EXCEPT ![Root(p)] = t]
          PROVE  Found
      <3> HIDE DEF Found, after
      <3> QED BY <2>4, <2>5
    <2> QED BY <2>1, <2>3, <2>5
  <1>9. CASE ~(Reconcile(p) \/ Integrate(p) \/ Verdict(p))
    <2>1. trunk' = trunk
      BY <1>9 DEF Step, Boots, Launch, Probe, Unprobe, Rotate, RotateDies, Open, Create, Stamp,
                  Acquire, Bind, Stop, Crash
    <2>2. \A i \in Files : \A e \in Rows(i, r) : e \in file'[i].open \/ e.merge \in strays'
      BY <1>0, <1>9, OpenStays DEF Rows
    <2> QED BY <1>1, <1>5, <2>1, <2>2
  <1> QED BY <1>6, <1>7, <1>8, <1>9

(* What a row would restore gains no merge that is not excused.            *)
LEMMA LostBeforeStep ==
  ASSUME OneDatabase, OrphanInv, NEW p \in Procs, Step(p) PROVE LostBefore'
  <1>0. BootInv
    BY DEF OrphanInv
  <1> SUFFICES ASSUME NEW i \in Files, NEW e \in file'[i].open, e.root \in Lockable,
                      NEW m \in e.before
               PROVE  Excused(m, e.root)'
    BY DEF LostBefore, Rows
  <1>1. Excused(m, e.root)
    <2>1. CASE \E o \in file[i].open : o.root = e.root /\ o.before = e.before
      BY <2>1 DEF OrphanInv, LostBefore, Rows
    <2>2. CASE ~\E o \in file[i].open : o.root = e.root /\ o.before = e.before
      <3>1. Integrate(p) /\ e.root = Root(p) /\ e.before = trunk[Root(p)]
        BY <1>0, <2>2, NewRow
      <3>2. At(p, "serve") /\ proc[p].row = 0
        BY <1>0, <3>1, IntegrateRow
      <3> QED BY <3>1, <3>2, OthersAreLost
    <2> QED BY <2>1, <2>2
  <1> QED BY <1>1, ExcusedStays

(* The count of merges bounds those on the trunks and in the rows, and the *)
(* next one is none of them.                                               *)
LEMMA MergesCounted ==
  ASSUME BootInv, NEW p \in Procs, Step(p)
  PROVE  merges \in Nat /\ (merges' = merges \/ merges' = merges + 1)
  BY StartupAssumption
  DEF BootInv, TypeOK, Step, Boots, Launch, Probe, Unprobe, Rotate, RotateDies, Open, Create,
      Stamp, Acquire, Bind, Reconcile, Integrate, Verdict, Stop, Crash

(* Where what is on a trunk comes from.                                    *)
LEMMA TrunkFrom ==
  ASSUME BootInv, NEW p \in Procs, Step(p), NEW r \in Roots, NEW m \in trunk'[r]
  PROVE  \/ m \in trunk[r]
         \/ m = merges + 1 /\ merges' = merges + 1
         \/ \E i \in Files : \E e \in file[i].open : m \in e.before
  <1>0. trunk \in [Roots -> SUBSET Merges]
    BY DEF BootInv, TypeOK
  <1>1. CASE Reconcile(p)
    <2>1. PICK i, reset, recorded : Reconciled(p, i, reset, recorded)
      BY <1>1, ReconcileIs
    <2>2. RolledBack(reset, r, trunk'[r]) /\ i \in Files /\ reset \subseteq file[i].open
      BY <2>1 DEF Reconciled
    <2> QED BY <2>2 DEF RolledBack
  <1>2. CASE Integrate(p)
    <2>1. trunk' = [trunk EXCEPT ![Root(p)] = @ \cup {merges + 1}] /\ merges' = merges + 1
      BY <1>2 DEF Integrate
    <2> QED BY <1>0, <2>1
  <1>3. CASE Verdict(p)
    <2>1. Writing(p) /\ proc[p].conn \in Files
      BY <1>3, WritesOwn DEF Verdict, Writing, At
    <2>2. \/ trunk' = trunk
          \/ \E t \in {trunk[Root(p)] \ {proc[p].merge}} \cup
                      {e.before : e \in {o \in file[proc[p].conn].open :
                                           o.merge = proc[p].merge}} :
               trunk' = [trunk EXCEPT ![Root(p)] = t]
      BY <1>3, VerdictRow
    <2> QED BY <1>0, <2>1, <2>2
  <1>4. CASE UNCHANGED trunk
    BY <1>4
  <1> QED
    BY <1>1, <1>2, <1>3, <1>4
    DEF Step, Boots, Launch, Probe, Unprobe, Rotate, RotateDies, Open, Create, Stamp, Acquire,
        Bind, Stop, Crash

(* Merges stay numbered in the order of their rows.                        *)
LEMMA DatedStep ==
  ASSUME OrphanInv, NEW p \in Procs, Step(p) PROVE Dated'
  <1>0. /\ BootInv /\ TypeOK /\ Dated /\ merges \in Nat
        /\ merges' = merges \/ merges' = merges + 1
        /\ trunk \in [Roots -> SUBSET Merges]
    BY MergesCounted DEF OrphanInv, BootInv, TypeOK
  <1>1. ASSUME NEW i \in Files, NEW e \in file'[i].open, NEW m \in e.before
        PROVE  m < e.merge
    <2>1. CASE \E o \in file[i].open : o.merge = e.merge /\ o.root = e.root /\ o.before = e.before
      BY <1>0, <1>1, <2>1 DEF Dated
    <2>2. CASE ~\E o \in file[i].open : o.merge = e.merge /\ o.root = e.root /\ o.before = e.before
      <3>1. /\ Integrate(p) /\ e.root = Root(p) /\ e.merge = merges + 1
            /\ e.before = trunk[Root(p)]
        BY <1>0, <1>1, <2>2, NewRow
      <3>2. Root(p) \in Roots
        BY <1>0, <3>1, IntegrateRow, WritesOwn, LiveIsUp DEF Root, Up
      <3>3. m <= merges /\ m \in Nat
        BY <1>0, <1>1, <3>1, <3>2, StartupAssumption DEF Dated, Merges
      <3> QED BY <1>0, <3>1, <3>3
    <2> QED BY <2>1, <2>2
  <1>2. ASSUME NEW r \in Roots, NEW m \in trunk'[r]
        PROVE  m <= merges'
    <2>1. CASE m \in trunk[r]
      <3>1. m \in Nat /\ m <= merges
        BY <1>0, <2>1, StartupAssumption DEF Dated, Merges
      <3> QED BY <1>0, <3>1
    <2>2. ASSUME NEW i \in Files, NEW e \in file[i].open, m \in e.before
          PROVE  m <= merges'
      <3>1. e \in Row /\ e.merge <= merges
        BY <1>0, <2>2 DEF BootInv, RowsOfRoot, TypeOK, File
      <3>2. m \in Nat /\ e.merge \in Nat
        BY <2>2, <3>1, StartupAssumption DEF Row, Merges
      <3>3. m < e.merge
        BY <1>0, <2>2 DEF Dated
      <3> QED BY <1>0, <3>1, <3>2, <3>3
    <2>3. CASE m = merges + 1 /\ merges' = merges + 1
      BY <1>0, <2>3
    <2> QED BY <1>0, <1>2, <2>1, <2>2, <2>3, TrunkFrom
  <1> QED BY <1>1, <1>2 DEF Dated

(* A new row is of a merge that no file has a row of.                      *)
LEMMA RowsApartStep ==
  ASSUME OrphanInv, NEW p \in Procs, Step(p) PROVE RowsApart'
  <1>0. BootInv /\ RowsApart /\ merges \in Nat
    BY MergesCounted DEF OrphanInv
  <1>1. ASSUME NEW i \in Files, NEW e \in file'[i].open
        PROVE  \/ \E x \in file[i].open : x.merge = e.merge
               \/ i = proc[p].conn /\ e.merge = merges + 1
    BY <1>0, <1>1, NewRow
  <1>2. \A i \in Files : \A x \in file[i].open : x.merge # merges + 1
    <2> SUFFICES ASSUME NEW i \in Files, NEW x \in file[i].open PROVE x.merge # merges + 1
      OBVIOUS
    <2>1. x \in Row /\ x.merge <= merges
      BY <1>0 DEF BootInv, RowsOfRoot, TypeOK, File
    <2>2. x.merge \in Nat
      BY <2>1, StartupAssumption DEF Row, Merges
    <2> QED BY <1>0, <2>1, <2>2
  <1>3. ASSUME NEW i \in Files, NEW j \in Files, NEW e \in file'[i].open, NEW o \in file'[j].open,
               e.merge = o.merge
        PROVE  i = j
    <2>1. CASE e.merge = merges + 1
      <3>1. i = proc[p].conn
        BY <1>1, <1>2, <2>1
      <3>2. ~\E x \in file[j].open : x.merge = o.merge
        BY <1>2, <1>3, <2>1
      <3>3. j = proc[p].conn
        BY <1>1, <3>2
      <3> QED BY <3>1, <3>3
    <2>2. CASE e.merge # merges + 1
      <3>1. PICK x \in file[i].open : x.merge = e.merge
        BY <1>1, <2>2
      <3>2. PICK y \in file[j].open : y.merge = o.merge
        BY <1>1, <1>3, <2>2
      <3> QED BY <1>0, <1>3, <3>1, <3>2 DEF RowsApart
    <2> QED BY <2>1, <2>2
  <1> QED BY <1>3 DEF RowsApart

(* A row in the database of its server is not of a merge another row would *)
(* restore, unless of a stray.                                             *)
LEMMA NotRestored ==
  ASSUME OrphanInv, NEW p \in Procs, Writing(p), Root(p) \in Lockable,
         NEW e \in file[proc[p].conn].open, NEW o \in file[proc[p].conn].open,
         e.merge \in o.before
  PROVE  e.merge \in strays
  <1>0. BootInv
    BY DEF OrphanInv
  <1>1. proc[p].conn \in Files /\ Path(p) \in Paths /\ proc[p].conn = at[Path(p)]
        /\ o.root = Root(p)
    BY <1>0, WritesOwn
  <1>2. Excused(e.merge, Root(p))
    BY <1>1 DEF OrphanInv, LostBefore, Rows
  <1>3. ASSUME NEW j \in Files, Lost(e.merge, Root(p), j) PROVE FALSE
    <2>1. PICK x \in file[j].open : x.merge = e.merge
      BY <1>3 DEF Lost, Rows
    <2>2. j = proc[p].conn
      BY <1>1, <2>1 DEF OrphanInv, RowsApart
    <2> QED BY <1>1, <1>3, <2>2 DEF Lost
  <1> QED BY <1>2, <1>3 DEF Excused

(* The rows in the database of a server stay told of.                      *)
LEMMA ServedStep ==
  ASSUME OrphanInv, NEW p \in Procs, Step(p) PROVE Served'
  <1>0. /\ BootInv /\ TypeOK /\ merges \in Nat /\ strays \subseteq strays'
        /\ trunk \in [Roots -> SUBSET Merges]
    BY MergesCounted, TrunkStays DEF OrphanInv, BootInv, TypeOK
  <1>1. ASSUME NEW q \in Procs \ {p}, At(q, "serve")', Root(q)' \in Lockable,
               NEW e \in file'[proc'[q].conn].open
        PROVE  Told(q, e.merge)'
    <2>1. proc'[q] = proc[q]
      BY <1>0, OneMoves DEF Step
    <2>2. At(q, "serve") /\ Root(q) \in Lockable /\ Writing(q) /\ Root(q) \in Roots
      BY <1>1, <2>1, StartupAssumption DEF At, Root, Writing
    <2>3. proc[q].conn \in Files /\ file[proc[q].conn].bound = Root(q)
          /\ Path(q) \in Paths /\ proc[q].conn = at[Path(q)]
      BY <1>0, <2>2, WritesOwn
    <2>4. Writing(p) => Root(p) # Root(q)
      BY <1>0, <2>2 DEF BootInv, LockHeld, Holding, Writing
    <2>5. ~(Writing(p) /\ proc[q].conn = proc[p].conn)
      BY <1>0, <2>3, <2>4, WritesOwn
    <2>6. ~(RotateDies(p) /\ proc[q].conn = at[Path(p)])
      <3> SUFFICES ASSUME RotateDies(p), proc[q].conn = at[Path(p)] PROVE FALSE
        OBVIOUS
      <3>1. proc[p].fresh /\ proc[p].pc \in Starting /\ Live(p)
        BY DEF RotateDies, At, Starting, Live
      <3>2. Path(q) # Path(p) /\ Path(p) \in Paths
        BY <1>0, <3>1, LiveIsUp DEF BootInv, FreshIsAlone, Path, Up
      <3>3. at[Path(q)] = at[Path(p)] /\ at[Path(q)] # 0
        BY <2>3 DEF Files
      <3> QED BY <1>0, <2>3, <3>2, <3>3 DEF BootInv, PathsApart
    <2>7. file'[proc[q].conn].open = file[proc[q].conn].open
      BY <1>0, <2>3, <2>5, <2>6, OpenStays
    <2>8. trunk'[Root(q)] = trunk[Root(q)]
      BY <1>0, <2>2, <2>4, TrunkStays
    <2>9. Told(q, e.merge)
      BY <1>1, <2>1, <2>2, <2>7 DEF OrphanInv, Served
    <2> QED BY <1>0, <2>1, <2>8, <2>9 DEF Told, Root
  <1>2. ASSUME At(p, "serve")', Root(p)' \in Lockable, NEW e \in file'[proc'[p].conn].open
        PROVE  Told(p, e.merge)'
    <2>0. ~Down(p)
      BY <1>0, <1>2 DEF Down, Gone, At, TypeOK
    <2>1. CASE Reconcile(p)
      <3>1. Writing(p) /\ Goto(p, "serve")
        BY <2>1 DEF Reconcile, Writing, At
      <3>2. /\ proc'[p].conn = proc[p].conn /\ Root(p)' = Root(p)
            /\ Root(p) \in Roots /\ Root(p) \in Lockable
        BY <1>0, <1>2, <3>1, GotoSets, WritesOwn, StartupAssumption DEF Root
      <3>3. PICK i, reset, recorded : Reconciled(p, i, reset, recorded)
        BY <2>1, ReconcileIs
      <3>4. i = proc[p].conn /\ i \in Files /\ file[i] \in File /\ file[i].open \subseteq Row
        BY <1>0, <3>3 DEF Reconciled, TypeOK, File
      <3>5. PICK o \in file[i].open : \/ o \notin reset /\ o.merge = e.merge
                                      \/ o \in reset \ recorded /\ o.merge = e.merge
        <4> DEFINE open == (file[i].open \ recorded) \cup Retried(recorded \ reset)
        <4>1. file' = [file EXCEPT ![i].open = open]
          BY <3>3 DEF Reconciled
        <4> HIDE DEF open
        <4>2. e \in open
          BY <1>0, <1>2, <3>2, <3>4, <4>1 DEF TypeOK, File
        <4>3. CASE e \in file[i].open \ recorded
          BY <4>3
        <4>4. CASE e \in Retried(recorded \ reset)
          <5>1. recorded \ reset \in SUBSET Row /\ recorded \subseteq file[i].open
            BY <3>3, <3>4 DEF Reconciled
          <5>2. \E o \in recorded \ reset : e.merge = o.merge
            BY <4>4, <5>1, RetriedRows
          <5> QED BY <5>1, <5>2
        <4> QED BY <4>2, <4>3, <4>4 DEF open
      <3>6. CASE o \notin reset
        <4>1. o.merge \in strays'
          BY <3>3, <3>6 DEF Reconciled
        <4> QED BY <3>5, <4>1 DEF Told
      <3>7. CASE o \in reset \ recorded /\ o.merge = e.merge
        <4>1. \A x \in reset : x.root = Root(p) /\ x \in Row
          BY <1>0, <3>1, <3>3, <3>4, WritesOwn DEF Reconciled
        <4>2. PICK x \in reset : /\ \A y \in reset : y.merge <= x.merge
                                 /\ trunk'[Root(p)] = x.before
          <5>1. RolledBack(reset, Root(p), trunk'[Root(p)])
            BY <3>2, <3>3 DEF Reconciled
          <5> QED BY <3>7, <4>1, <5>1 DEF RolledBack
        <4>3. x.merge = o.merge
          <5>1. ~(o.merge < x.merge)
            BY <3>3, <3>7, <4>2 DEF Reconciled
          <5>2. o.merge <= x.merge /\ o.merge \in Nat /\ x.merge \in Nat
            BY <3>7, <4>1, <4>2, StartupAssumption DEF Row, Merges
          <5> QED BY <5>1, <5>2
        <4>4. x.merge \notin x.before
          <5>1. x \in Row /\ x \in file[i].open
            BY <3>3, <4>1 DEF Reconciled
          <5>2. x.merge \in Nat
            BY <5>1, StartupAssumption DEF Row, Merges
          <5>3. \A m \in x.before : m < x.merge
            BY <3>4, <5>1 DEF OrphanInv, Dated
          <5> QED BY <5>2, <5>3
        <4> QED BY <3>2, <3>7, <4>2, <4>3, <4>4 DEF Told
      <3> QED BY <3>5, <3>6, <3>7
    <2>2. CASE Integrate(p)
      <3> DEFINE n == [merge |-> merges + 1, root |-> Root(p), before |-> trunk[Root(p)],
                       attempts |-> 0]
      <3>1. /\ At(p, "serve") /\ proc[p].row = 0 /\ Writing(p)
            /\ file'[proc[p].conn].open = file[proc[p].conn].open \cup {n}
            /\ trunk' = [trunk EXCEPT ![Root(p)] = @ \cup {merges + 1}]
            /\ proc'[p].row = proc[p].conn /\ proc'[p].merge = merges + 1
            /\ proc'[p].conn = proc[p].conn
        BY <1>0, <2>2, IntegrateRow
      <3>2. Root(p)' = Root(p) /\ proc[p].conn # 0 /\ proc[p].conn \in Files
        <4>1. Keeps(p)
          BY <1>0, <2>0, <2>2, GoesOn
        <4> QED BY <1>0, <3>1, <4>1, WritesOwn DEF Keeps, Root, Files
      <3>3. CASE e \in file[proc[p].conn].open
        <4>1. e.merge \in strays \/ e.merge \notin trunk[Root(p)]
          BY <1>2, <3>1, <3>2, <3>3 DEF OrphanInv, Served, Told
        <4>2. e.merge # merges + 1
          <5>1. e \in Row /\ e.merge <= merges
            BY <1>0, <3>2, <3>3 DEF BootInv, RowsOfRoot, TypeOK, File
          <5>2. e.merge \in Nat
            BY <5>1, StartupAssumption DEF Row, Merges
          <5> QED BY <1>0, <5>1, <5>2
        <4>3. e.merge \in strays' \/ e.merge \notin trunk'[Root(p)]
          <5>1. Root(p) \in Roots
            BY <1>2, <3>2, StartupAssumption
          <5> QED BY <1>0, <3>1, <4>1, <4>2, <5>1
        <4> QED BY <3>2, <4>3 DEF Told
      <3>4. CASE e \notin file[proc[p].conn].open
        <4>1. e = n
          BY <1>2, <3>1, <3>4
        <4>2. e.merge = proc'[p].merge
          BY <3>1, <4>1
        <4> QED BY <3>1, <3>2, <4>2 DEF Told
      <3> QED BY <3>3, <3>4
    <2>3. CASE Verdict(p)
      <3> DEFINE i == proc[p].conn
                 own == {x \in file[i].open : x.merge = proc[p].merge}
      <3>1. /\ At(p, "serve") /\ proc'[p].conn = i /\ Writing(p)
            /\ file'[i].open \subseteq file[i].open
            /\ \/ trunk' = trunk /\ strays' = strays \cup {x.merge : x \in own}
               \/ \E t \in {trunk[Root(p)] \ {proc[p].merge}} \cup {x.before : x \in own} :
                    trunk' = [trunk EXCEPT ![Root(p)] = t]
        BY <1>0, <2>3, VerdictRow
      <3>2. Root(p)' = Root(p) /\ Root(p) \in Lockable /\ Root(p) \in Roots /\ i \in Files
        <4>1. Keeps(p)
          BY <1>0, <2>0, <2>3, GoesOn
        <4>2. Root(p)' = Root(p)
          BY <4>1 DEF Keeps, Root
        <4> QED BY <1>0, <1>2, <3>1, <4>2, WritesOwn, StartupAssumption
      <3>3. e \in file[i].open
        BY <1>2, <3>1
      <3>4. Told(p, e.merge)
        BY <3>1, <3>2, <3>3 DEF OrphanInv, Served
      <3>5. e.merge \in strays' \/ e.merge \notin trunk'[Root(p)]
        <4>1. CASE e.merge \in strays
          BY <1>0, <4>1
        <4>2. CASE trunk' = trunk /\ strays' = strays \cup {x.merge : x \in own}
          <5>1. e.merge = proc[p].merge => e.merge \in strays'
            BY <3>3, <4>2
          <5> QED BY <1>0, <3>4, <4>2, <5>1 DEF Told
        <4>3. ASSUME NEW t \in {trunk[Root(p)] \ {proc[p].merge}} \cup {x.before : x \in own},
                     trunk' = [trunk EXCEPT ![Root(p)] = t], e.merge \notin strays
              PROVE  e.merge \notin t
          <5>1. CASE t = trunk[Root(p)] \ {proc[p].merge}
            BY <3>4, <4>3, <5>1 DEF Told
          <5>2. ASSUME NEW x \in own, t = x.before
                PROVE  e.merge \notin t
            BY <3>1, <3>2, <3>3, <4>3, <5>2, NotRestored
          <5> QED BY <4>3, <5>1, <5>2
        <4>4. ASSUME NEW t, trunk' = [trunk EXCEPT ![Root(p)] = t] PROVE trunk'[Root(p)] = t
          BY <1>0, <3>2, <4>4
        <4> HIDE DEF own
        <4> QED BY <3>1, <4>1, <4>2, <4>3, <4>4
      <3> QED BY <3>2, <3>5 DEF Told
    <2>4. CASE \E s \in Starts, fresh \in BOOLEAN : Launch(p, s[1], s[2], fresh)
      BY <1>0, <1>2, <2>4 DEF Launch, TypeOK, At
    <2>5. CASE Probe(p) \/ Unprobe(p) \/ Rotate(p) \/ Create(p) \/ Stamp(p) \/ Acquire(p)
      <3>1. Live(p)
        BY <2>5 DEF Probe, Unprobe, Rotate, Create, Stamp, Acquire, At, Live
      <3> QED BY <1>0, <1>2, <2>0, <2>5, <3>1, GotoSets
              DEF Probe, Unprobe, Rotate, Create, Stamp, Acquire, At
    <2>6. CASE Open(p)
      <3>1. Live(p)
        BY <2>6 DEF Open, At, Live
      <3> QED BY <1>0, <1>2, <2>0, <2>6, <3>1, OpenSets DEF Open, At
    <2>7. CASE Bind(p)
      <3>1. Live(p) /\ Goto(p, "reconcile")
        BY <2>0, <2>7 DEF Bind, At, Live
      <3> QED BY <1>0, <1>2, <3>1, GotoSets DEF At
    <2>8. CASE Stop(p) \/ Crash(p) \/ RotateDies(p)
      BY <2>0, <2>8 DEF Stop, Crash, RotateDies
    <2> QED BY <2>1, <2>2, <2>3, <2>4, <2>5, <2>6, <2>7, <2>8 DEF Step, Boots
  <1> QED BY <1>1, <1>2 DEF Served

(* What a dead server left on the trunk the next one rolls back before it  *)
(* serves, or its row was in a database --fresh moved aside, or its own    *)
(* rollback failed or its row was lost: nothing else un-gated is under a   *)
(* server, whoever died when and whatever failed, as long as --fresh is    *)
(* only used on a path nobody has and a repository has one database.       *)
THEOREM OrphansRolledBack ==
  ASSUME Careful, OneDatabase PROVE Spec => []OnlyRotatedOrphans
  <1> DEFINE Rest == /\ Started /\ Made /\ Placed /\ Traced /\ LostBefore /\ Dated
                     /\ RowsApart /\ Served
  <1>1. Init => Rest
    BY StartupAssumption
    DEF Init, Started, Made, Placed, Traced, LostBefore, Dated, RowsApart, Served, Rows, Live,
        At, Gone
  <1>2. OrphanInv /\ [Next]_vars => Rest'
    <2>1. CASE UNCHANGED vars
      BY <2>1 DEF vars, OrphanInv, Started, Made, Placed, Traced, LostBefore, Dated, RowsApart,
                  Served, Told, Excused, Rows, Lost, Live, At, Root, Path
    <2>2. ASSUME OrphanInv, NEW p \in Procs, Step(p)
          PROVE  Rest'
      BY <2>2, StartedStep, MadeStep, PlacedStep, TracedStep, LostBeforeStep, DatedStep,
         RowsApartStep, ServedStep
      DEF OrphanInv
    <2> QED BY <2>1, <2>2 DEF Next, Step, Boots
  <1>3. OrphanInv => OnlyRotatedOrphans
    <2> SUFFICES ASSUME OrphanInv, NEW p \in Procs, At(p, "serve"), Root(p) \in Lockable,
                        NEW m \in trunk[Root(p)] \ ({proc[p].merge} \cup strays)
                 PROVE  \E i \in Files : /\ \A d \in Paths : at[d] # i
                                         /\ \E e \in file[i].open : e.merge = m
      BY DEF OnlyRotatedOrphans
    <2>1. \E i \in Files : Lost(m, Root(p), i)
      BY OthersAreLost DEF Excused
    <2> QED BY <2>1 DEF Lost, Rows
  <1> QED BY <1>1, <1>2, <1>3, BootInvariant, PTL DEF Spec, OrphanInv
=============================================================================
