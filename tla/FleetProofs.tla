---------------------------- MODULE FleetProofs ----------------------------
(***************************************************************************)
(* Theorems about Fleet, for any list of tasks, any number of threads,     *)
(* attempts and rivals, and any failures: the types; what an attempt that  *)
(* is over leaves behind; what the results say; that no task of a run      *)
(* denies another a lease; and that an agent works alone under every lease *)
(* that neither a deletion of the file nor a stalled heartbeat cut.        *)
(***************************************************************************)
EXTENDS Fleet, WellFoundedInduction, TLAPS

-----------------------------------------------------------------------------
(* Induction, as the least element of a set of naturals.                   *)
LEMMA Descent ==
  \E R : IsWellFoundedOn(R, Nat) /\ \A x, y \in Nat : y < x => <<y, x>> \in R
  <1>1. IsWellFoundedOn(OpToRel(<, Nat), Nat)
    BY NatLessThanWellFounded
  <1>2. \A x, y \in Nat : y < x => <<y, x>> \in OpToRel(<, Nat)
    BY DEF OpToRel
  <1> WITNESS OpToRel(<, Nat)
  <1> QED BY <1>1, <1>2

LEMMA Least ==
  ASSUME NEW S \in SUBSET Nat, S # {}
  PROVE  \E n \in S : \A m \in S : n <= m
  <1>1. PICK R : IsWellFoundedOn(R, Nat) /\ \A x, y \in Nat : y < x => <<y, x>> \in R
    BY Descent
  <1>2. PICK n \in S : \A m \in S : ~ (<<m, n>> \in R)
    BY <1>1, WFMin
  <1>3. \A x, y \in Nat : ~(y < x) => x <= y
    OBVIOUS
  <1>4. \A m \in S : n <= m
    <2> TAKE m \in S
    <2>1. m \in Nat /\ n \in Nat
      OBVIOUS
    <2>2. ~(m < n)
      BY <2>1, <1>1, <1>2, Zenon
    <2> QED BY <2>1, <2>2, <1>3
  <1> QED BY <1>4

LEMMA MinIsLeast ==
  ASSUME NEW S \in SUBSET Nat, S # {}
  PROVE  Min(S) \in S
  BY Least DEF Min

-----------------------------------------------------------------------------
(* group_schedulable: the wave of a task is well defined, and no two tasks *)
(* of one wave share a file.                                               *)
Open(f, t) == {w \in 1..t : \A u \in 1..(t - 1) : f[u] = w => Schedulable(t, u)}

LEMMA TasksAreListed == T = 1..Len(Tasks) /\ Len(Tasks) \in Nat
  BY FleetAssumption DEF T

(* The first n tasks can be assigned their waves.                          *)
LEMMA WavesExist ==
  \A n \in Nat : \E f : f = [t \in 1..n |-> Min(Open(f, t))]
  <1> DEFINE Assigned(n) == \E f : f = [t \in 1..n |-> Min(Open(f, t))]
             S == {n \in Nat : ~Assigned(n)}
  <1>1. SUFFICES ASSUME S # {} PROVE FALSE
    OBVIOUS
  <1>2. PICK n \in S : \A m \in S : n <= m
    BY <1>1, Least
  <1>3. n \in Nat /\ ~Assigned(n)
    OBVIOUS
  <1>4. n # 0
    <2> SUFFICES Assigned(0)
      BY <1>3
    <2> DEFINE f == [t \in 1..0 |-> 0]
    <2>1. f = [t \in 1..0 |-> Min(Open(f, t))]
      OBVIOUS
    <2> QED BY <2>1
  <1>5. n - 1 \in Nat /\ ~(n <= n - 1)
    BY <1>3, <1>4
  <1>6. Assigned(n - 1)
    BY <1>2, <1>5
  <1>7. PICK f : f = [t \in 1..(n - 1) |-> Min(Open(f, t))]
    BY <1>6
  <1> DEFINE g == [t \in 1..n |-> Min(Open(f, t))]
  <1>8. \A t \in 1..n : Open(g, t) = Open(f, t)
    <2> TAKE t \in 1..n
    <2>1. \A u \in 1..(t - 1) : g[u] = f[u]
      <3> TAKE u \in 1..(t - 1)
      <3>1. u \in 1..n /\ u \in 1..(n - 1)
        BY <1>3
      <3>2. g[u] = Min(Open(f, u))
        BY <3>1
      <3>3. f[u] = Min(Open(f, u))
        BY <3>1, <1>7
      <3> QED BY <3>2, <3>3
    <2> HIDE DEF g
    <2> QED BY <2>1 DEF Open
  <1>9. g = [t \in 1..n |-> Min(Open(g, t))]
    BY <1>8
  <1>10. Assigned(n)
    <2> HIDE DEF g
    <2> QED BY <1>9
  <1> QED BY <1>3, <1>10

(* The recursive definition of Wave has a solution, so Wave is one.        *)
LEMMA WavesAreAssigned == Wave = [t \in T |-> Min(Open(Wave, t))]
  <1>1. \E f : f = [t \in T |-> Min(Open(f, t))]
    BY WavesExist, TasksAreListed
  <1> QED BY <1>1 DEF Wave, Open

(* Its solution puts every task in a wave whose earlier tasks it shares no *)
(* file with.                                                              *)
LEMMA WavesShareNothing ==
  /\ \A t \in T : Wave[t] \in Nat
  /\ \A t, u \in T : t # u /\ Wave[t] = Wave[u] => Schedulable(t, u)
  <1> DEFINE S == {t \in T : Wave[t] \notin Open(Wave, t)}
  <1>1. S = {}
    <2> SUFFICES ASSUME S # {} PROVE FALSE
      OBVIOUS
    <2>1. S \in SUBSET Nat
      BY TasksAreListed
    <2>2. PICK t \in S : \A u \in S : t <= u
      BY <2>1, Least
    <2>3. t \in T /\ t \in Nat /\ t >= 1 /\ Wave[t] \notin Open(Wave, t)
      BY TasksAreListed
    <2>4. \A u \in 1..(t - 1) : Wave[u] \in 1..u /\ u < t
      <3> TAKE u \in 1..(t - 1)
      <3>1. u \in T /\ u < t /\ ~(t <= u) /\ u \in Nat
        BY <2>3, TasksAreListed
      <3>2. Wave[u] \in Open(Wave, u)
        BY <3>1, <2>2
      <3> QED BY <3>1, <3>2 DEF Open
    <2>5. t \in Open(Wave, t)
      <3>1. \A u \in 1..(t - 1) : Wave[u] # t
        BY <2>3, <2>4
      <3> QED BY <3>1, <2>3 DEF Open
    <2>6. Open(Wave, t) \in SUBSET Nat
      BY <2>3 DEF Open
    <2>7. Wave[t] = Min(Open(Wave, t))
      BY <2>3, WavesAreAssigned
    <2> QED BY <2>3, <2>5, <2>6, <2>7, MinIsLeast
  <1>2. \A t \in T : Wave[t] \in Open(Wave, t)
    BY <1>1
  <1>3. \A t \in T : Wave[t] \in Nat
    BY <1>2, TasksAreListed DEF Open
  <1>4. ASSUME NEW t \in T, NEW u \in T, u < t, Wave[t] = Wave[u]
        PROVE  Schedulable(t, u) /\ Schedulable(u, t)
    <2>1. u \in 1..(t - 1)
      BY <1>4, TasksAreListed
    <2> QED BY <1>2, <1>4, <2>1 DEF Open, Schedulable
  <1>5. \A t, u \in T : t # u => t < u \/ u < t
    BY TasksAreListed
  <1> QED BY <1>3, <1>4, <1>5

-----------------------------------------------------------------------------
(* The parcels of a list.                                                  *)
Elements(s) == {s[i] : i \in DOMAIN s}

(* Head and tail, and append, as sets of parcels.                          *)
LEMMA Lists ==
  ASSUME NEW s \in Seq(Parcels)
  PROVE  /\ s = << >> => Elements(s) = {}
         /\ s # << >> => /\ Head(s) \in Parcels /\ Tail(s) \in Seq(Parcels)
                         /\ Elements(s) = {Head(s)} \cup Elements(Tail(s))
                         /\ Len(s) = 1 => Tail(s) = << >>
                         /\ Len(s) # 1 => Tail(s) # << >>
         /\ \A p \in Parcels : /\ Append(s, p) \in Seq(Parcels)
                               /\ Elements(Append(s, p)) = Elements(s) \cup {p}
  <1>1. s = << >> => Elements(s) = {}
    BY DEF Elements
  <1>2. ASSUME s # << >>
        PROVE  /\ Head(s) \in Parcels /\ Tail(s) \in Seq(Parcels)
               /\ Elements(s) = {Head(s)} \cup Elements(Tail(s))
               /\ Len(s) = 1 => Tail(s) = << >>
               /\ Len(s) # 1 => Tail(s) # << >>
    <2>1. /\ Head(s) \in Parcels /\ Tail(s) \in Seq(Parcels) /\ Head(s) = s[1]
          /\ Len(s) \in Nat /\ Len(s) >= 1 /\ Len(Tail(s)) = Len(s) - 1
          /\ \A i \in 1..(Len(s) - 1) : Tail(s)[i] = s[i + 1]
      BY <1>2
    <2>2. DOMAIN s = 1..Len(s) /\ DOMAIN Tail(s) = 1..(Len(s) - 1)
      BY <2>1
    <2>3. \A i \in 1..Len(s) : i = 1 \/ (i - 1 \in 1..(Len(s) - 1) /\ s[i] = Tail(s)[i - 1])
      BY <2>1
    <2>4. \A i \in 1..(Len(s) - 1) : i + 1 \in 1..Len(s) /\ Tail(s)[i] = s[i + 1]
      BY <2>1
    <2>5. 1 \in 1..Len(s)
      BY <2>1
    <2>6. Elements(s) \subseteq {Head(s)} \cup Elements(Tail(s))
      <3>1. SUFFICES ASSUME NEW i \in 1..Len(s)
                     PROVE  s[i] \in {s[1]} \cup Elements(Tail(s))
        BY <2>1, <2>2 DEF Elements
      <3>2. CASE i = 1
        BY <3>2
      <3>3. CASE i # 1
        <4>1. i - 1 \in DOMAIN Tail(s) /\ s[i] = Tail(s)[i - 1]
          BY <2>2, <2>3, <3>3
        <4> QED BY <4>1 DEF Elements
      <3> QED BY <3>2, <3>3
    <2>7. {Head(s)} \cup Elements(Tail(s)) \subseteq Elements(s)
      BY <2>1, <2>2, <2>4, <2>5 DEF Elements
    <2>8. (Len(s) = 1 => Tail(s) = << >>) /\ (Len(s) # 1 => Tail(s) # << >>)
      <3>1. \A q \in Seq(Parcels) : Len(q) = 0 <=> q = << >>
        OBVIOUS
      <3>2. Len(s) = 1 <=> Len(Tail(s)) = 0
        BY <2>1
      <3> QED BY <2>1, <3>1, <3>2
    <2> QED BY <2>1, <2>6, <2>7, <2>8
  <1>3. ASSUME NEW p \in Parcels
        PROVE  /\ Append(s, p) \in Seq(Parcels)
               /\ Elements(Append(s, p)) = Elements(s) \cup {p}
    <2>1. /\ Append(s, p) \in Seq(Parcels) /\ Len(s) \in Nat
          /\ DOMAIN s = 1..Len(s) /\ DOMAIN Append(s, p) = 1..(Len(s) + 1)
          /\ Append(s, p)[Len(s) + 1] = p
          /\ \A i \in 1..Len(s) : Append(s, p)[i] = s[i]
      OBVIOUS
    <2>2. \A i \in 1..(Len(s) + 1) : i \in 1..Len(s) \/ i = Len(s) + 1
      BY <2>1
    <2>3. Len(s) + 1 \in 1..(Len(s) + 1) /\ \A i \in 1..Len(s) : i \in 1..(Len(s) + 1)
      BY <2>1
    <2> QED BY <2>1, <2>2, <2>3 DEF Elements
  <1> QED BY <1>1, <1>2, <1>3

(* The targets of a task are the elements of its list.                     *)
LEMMA Listed ==
  ASSUME NEW t \in T
  PROVE  /\ Tasks[t] \in Seq(Parcels) /\ Elements(Tasks[t]) = Targets(t)
         /\ Tasks[t] = << >> => Targets(t) = {}
  BY FleetAssumption, Lists DEF T, Elements, Targets

(* An attempt has one id, and a claim is the one claim of an id.           *)
LEMMA IdsDiffer ==
  ASSUME TypeOK, NEW t \in T
  PROVE  /\ Id(t) \in Ids /\ Id(t) \in Agents /\ Id(t) \notin Rivals /\ Claim(t) \in Agents \X {"write"}
         /\ \A u \in T : u # t => Id(u) # Id(t) /\ Claim(u) # Claim(t)
         /\ \A p \in Parcels : \A c \in claims[p] :
              /\ c = <<c[1], "write">> /\ c[1] \in Agents
              /\ c[1] = Id(t) => c = Claim(t)
  <1>1. job[t].attempt \in 1..MaxAttempts
    BY DEF TypeOK, Job
  <1>2. Id(t) \in Ids /\ Id(t) \in Agents /\ Claim(t) \in Agents \X {"write"}
    BY <1>1 DEF Ids, Agents, Id, Claim
  <1>3. Id(t) \notin Rivals
    BY <1>2, FleetAssumption
  <1>4. \A u \in T : u # t => Id(u) # Id(t) /\ Claim(u) # Claim(t)
    BY DEF Id, Claim
  <1>5. \A p \in Parcels : \A c \in claims[p] :
          c = <<c[1], "write">> /\ c[1] \in Agents /\ (c[1] = Id(t) => c = Claim(t))
    BY DEF TypeOK, Claim
  <1> QED BY <1>2, <1>3, <1>4, <1>5

-----------------------------------------------------------------------------
(* The records of the tasks.                                               *)
Pcs == {"queued", "over"} \cup Acquiring \cup Beating

LEMMA Fields ==
  ASSUME NEW j \in Job
  PROVE  /\ j.pc \in Pcs /\ j.attempt \in 1..MaxAttempts /\ j.again \in BOOLEAN
         /\ j.todo \in Seq(Parcels) /\ j.got \in Seq(Parcels) /\ j.end \in Endings
  BY DEF Job, Pcs

(* The updates the actions make.                                           *)
LEMMA Updates ==
  ASSUME NEW j \in Job, NEW pc \in Pcs, NEW todo \in Seq(Parcels), NEW got \in Seq(Parcels),
         NEW end \in Endings
  PROVE  /\ [j EXCEPT !.pc = pc] \in Job
         /\ [j EXCEPT !.todo = todo] \in Job
         /\ [j EXCEPT !.pc = pc, !.todo = todo] \in Job
         /\ [j EXCEPT !.got = got, !.todo = todo, !.pc = pc] \in Job
         /\ [j EXCEPT !.pc = pc, !.todo = todo, !.end = end] \in Job
  BY DEF Job, Pcs

LEMMA UpdatedFields ==
  ASSUME NEW j \in Job, NEW pc, NEW todo, NEW got, NEW end
  PROVE  LET Same(k) == k.attempt = j.attempt /\ k.again = j.again
             K1 == [j EXCEPT !.pc = pc]
             K2 == [j EXCEPT !.todo = todo]
             K3 == [j EXCEPT !.pc = pc, !.todo = todo]
             K4 == [j EXCEPT !.got = got, !.todo = todo, !.pc = pc]
             K5 == [j EXCEPT !.pc = pc, !.todo = todo, !.end = end]
         IN  /\ Same(K1) /\ K1.pc = pc /\ K1.todo = j.todo /\ K1.got = j.got /\ K1.end = j.end
             /\ Same(K2) /\ K2.pc = j.pc /\ K2.todo = todo /\ K2.got = j.got /\ K2.end = j.end
             /\ Same(K3) /\ K3.pc = pc /\ K3.todo = todo /\ K3.got = j.got /\ K3.end = j.end
             /\ Same(K4) /\ K4.pc = pc /\ K4.todo = todo /\ K4.got = got /\ K4.end = j.end
             /\ Same(K5) /\ K5.pc = pc /\ K5.todo = todo /\ K5.got = j.got /\ K5.end = end
  BY DEF Job

LEMMA OverIs ==
  ASSUME NEW j \in Job
  PROVE  /\ Over(j) \in Job /\ Over(j).pc = "over"
         /\ Over(j).todo = << >> /\ Over(j).got = << >>
  <1>1. << >> \in Seq(Parcels)
    OBVIOUS
  <1> QED BY <1>1 DEF Job, Over

LEMMA BeginIs ==
  ASSUME NEW j \in Job
  PROVE  /\ Begin(j) \in Job /\ Begin(j).pc = "begin" /\ Begin(j).attempt = j.attempt
         /\ Begin(j).todo = << >> /\ Begin(j).got = << >>
  <1>1. << >> \in Seq(Parcels)
    OBVIOUS
  <1> QED BY <1>1 DEF Job, Begin, Acquiring, Endings

(* Only the record of t moves.                                             *)
Moves(t) == job' \in [T -> Job] /\ \A u \in T : u # t => job'[u] = job[u]

LEMMA SetMoves ==
  ASSUME TypeOK, NEW t \in T, NEW j \in Job, Set(t, j)
  PROVE  Moves(t) /\ job'[t] = j
  BY DEF TypeOK, Set, Moves

(* How an attempt ends: the task is over with this result, or begins anew. *)
Ends(t, end) ==
  /\ Moves(t) /\ job'[t].todo = << >> /\ job'[t].got = << >>
  /\ cut' = cut \ ({Id(t)} \X Parcels)
  /\ \/ job'[t].pc = "over" /\ result' = [result EXCEPT ![t] = end]
     \/ job'[t].pc = "begin" /\ result' = result /\ end \in {"lease_denied", "git"}

(* A conclusion ends the attempt: a retry begins with an empty record.     *)
LEMMA ConcludeEnds ==
  ASSUME TypeOK, NEW t \in T, NEW end \in Endings, Conclude(t, end)
  PROVE  Ends(t, end)
  <1>1. job[t] \in Job
    BY DEF TypeOK
  <1>2. 1 \in 1..MaxAttempts
    BY FleetAssumption
  <1>3. /\ Retry(t, end) \in Job /\ Retry(t, end).todo = << >> /\ Retry(t, end).got = << >>
        /\ \/ Retry(t, end).pc = "over"
           \/ Retry(t, end).pc = "begin" /\ end \in {"lease_denied", "git"}
    <2>1. CASE end = "lease_denied" /\ job[t].attempt < MaxAttempts
      <3>1. job[t].attempt + 1 \in 1..MaxAttempts
        BY <1>1, <2>1, Fields, FleetAssumption
      <3>2. Retry(t, end) = Begin([job[t] EXCEPT !.attempt = job[t].attempt + 1])
        BY <2>1 DEF Retry
      <3>3. [job[t] EXCEPT !.attempt = job[t].attempt + 1] \in Job
        BY <1>1, <3>1 DEF Job
      <3> QED BY <2>1, <3>2, <3>3, BeginIs
    <2>2. CASE end = "git" /\ ~job[t].again
      <3>1. Retry(t, end) = Begin([job[t] EXCEPT !.attempt = 1, !.again = TRUE])
        BY <2>2 DEF Retry
      <3>2. [job[t] EXCEPT !.attempt = 1, !.again = TRUE] \in Job
        BY <1>1, <1>2 DEF Job
      <3> QED BY <2>2, <3>1, <3>2, BeginIs
    <2>3. CASE ~(end = "lease_denied" /\ job[t].attempt < MaxAttempts)
               /\ ~(end = "git" /\ ~job[t].again)
      <3>1. Retry(t, end) = Over(job[t])
        BY <2>3 DEF Retry
      <3> QED BY <1>1, <3>1, OverIs
    <2> QED BY <2>1, <2>2, <2>3
  <1>4. Moves(t) /\ job'[t] = Retry(t, end)
    BY <1>3, SetMoves DEF Conclude
  <1>5. /\ result' = IF Retry(t, end).pc = "over" THEN [result EXCEPT ![t] = end] ELSE result
        /\ cut' = cut \ ({Id(t)} \X Parcels)
    BY DEF Conclude
  <1> QED BY <1>3, <1>4, <1>5 DEF Ends

(* What happens to the claims: t gives back h, or gets it, alone.          *)
Gives(t, h) ==
  /\ claims' \in [Parcels -> SUBSET (Agents \X {"write"})]
  /\ claims'[h] = claims[h] \ {Claim(t)}
  /\ \A p \in Parcels : p # h => claims'[p] = claims[p]

Gets(t, h) ==
  /\ claims' \in [Parcels -> SUBSET (Agents \X {"write"})]
  /\ claims[h] \subseteq {Claim(t)} /\ claims'[h] = {Claim(t)}
  /\ \A p \in Parcels : p # h => claims'[p] = claims[p]

LEMMA GiveBackGives ==
  ASSUME TypeOK, NEW t \in T, job[t].todo # << >>, GiveBack(t)
  PROVE  Gives(t, Head(job[t].todo))
  <1>1. Head(job[t].todo) \in Parcels
    BY Lists DEF TypeOK, Job
  <1> QED BY <1>1 DEF TypeOK, GiveBack, Gives

LEMMA ClaimGets ==
  ASSUME TypeOK, NEW t \in T, NEW h \in Parcels, Lock!Claim(h, Claim(t))
  PROVE  Gets(t, h)
  <1>1. \A d \in claims[h] : d = Claim(t)
    BY IdsDiffer DEF Lock!Claim, Lock!Compatible, Lock!Writers, Claim
  <1>2. claims' = [claims EXCEPT ![h] = @ \cup {Claim(t)}]
    BY DEF Lock!Claim
  <1>3. Claim(t) \in Agents \X {"write"}
    BY IdsDiffer
  <1> QED BY <1>1, <1>2, <1>3 DEF TypeOK, Gets

(* The calls that fail, and the others.                                    *)
LEMMA FailsCounted ==
  ASSUME TypeOK, NEW kind, Fails(kind)
  PROVE  failures' \in 0..MaxFailures
  BY FleetAssumption DEF TypeOK, Fails

-----------------------------------------------------------------------------
(* What each step of a task does.                                          *)
LEMMA DispatchDoes ==
  ASSUME TypeOK, NEW t \in T, Dispatch(t)
  PROVE  /\ Moves(t) /\ job[t].pc = "queued" /\ job'[t].pc = "begin"
         /\ job'[t].attempt = job[t].attempt
         /\ job'[t].todo = << >> /\ job'[t].got = << >>
         /\ \A u \in T : Wave[u] < Wave[t] => job[u].pc = "over"
  <1>1. job[t] \in Job
    BY DEF TypeOK
  <1>2. Moves(t) /\ job'[t] = Begin(job[t])
    BY <1>1, BeginIs, SetMoves DEF Dispatch
  <1> QED BY <1>1, <1>2, BeginIs DEF Dispatch, At

(* A plan goes on to the leases, or to work when there is nothing to lease.*)
LEMMA PlanDoes ==
  ASSUME TypeOK, NEW t \in T, Plan(t)
  PROVE  /\ Moves(t) /\ job[t].pc = "begin"
         /\ \/ /\ job'[t].attempt = job[t].attempt
               /\ job'[t].pc = IF Tasks[t] = << >> THEN "work" ELSE "lease"
               /\ job'[t].todo = Tasks[t] /\ job'[t].got = job[t].got
               /\ UNCHANGED <<result, failures, cut>>
            \/ Fails("call") /\ Ends(t, "error")
  <1>1. job[t] \in Job
    BY DEF TypeOK
  <1>2. CASE Fails("call") /\ Conclude(t, "error")
    <2>1. Ends(t, "error")
      BY <1>2, ConcludeEnds DEF Endings
    <2> QED BY <1>2, <2>1 DEF Plan, At, Ends
  <1>3. ASSUME NEW pc, pc = (IF Tasks[t] = << >> THEN "work" ELSE "lease"),
               Set(t, [job[t] EXCEPT !.pc = pc, !.todo = Tasks[t]]),
               UNCHANGED <<result, failures>>
        PROVE  /\ Moves(t) /\ job'[t].attempt = job[t].attempt /\ job'[t].pc = pc
               /\ job'[t].todo = Tasks[t] /\ job'[t].got = job[t].got
    <2>1. pc \in Pcs /\ Tasks[t] \in Seq(Parcels)
      BY <1>3, Listed DEF Pcs, Acquiring, Beating
    <2>2. [job[t] EXCEPT !.pc = pc, !.todo = Tasks[t]] \in Job
      BY <1>1, <2>1, Updates, Fields
    <2>3. Moves(t) /\ job'[t] = [job[t] EXCEPT !.pc = pc, !.todo = Tasks[t]]
      BY <1>3, <2>2, SetMoves
    <2> QED BY <1>1, <2>3, UpdatedFields
  <1> QED BY <1>2, <1>3 DEF Plan, At

(* An acquire gets the head of the list, or the attempt goes wrong.        *)
LEMMA AcquireDoes ==
  ASSUME TypeOK, NEW t \in T, Acquire(t), job[t].todo # << >>
  PROVE  LET h == Head(job[t].todo)
         IN  /\ Moves(t) /\ job[t].pc = "lease" /\ h \in Parcels
             /\ \/ /\ Gets(t, h) /\ job'[t].attempt = job[t].attempt
                   /\ job'[t].got = Append(job[t].got, h) /\ job'[t].todo = Tail(job[t].todo)
                   /\ job'[t].pc = IF Len(job[t].todo) = 1 THEN "work" ELSE "lease"
                   /\ UNCHANGED <<result, failures, lost, cut>>
                \/ /\ \E c \in claims[h] : c # Claim(t)
                   /\ job'[t].attempt = job[t].attempt
                   /\ job'[t].pc = "backoff" /\ job'[t].todo = job[t].got
                   /\ job'[t].got = job[t].got
                   /\ UNCHANGED <<claims, result, failures, lost, cut>>
                \/ /\ Unanswered(t, "lease") /\ Ends(t, "error")
                   /\ Gets(t, h) \/ UNCHANGED claims
  <1> DEFINE h == Head(job[t].todo)
             j == job[t]
  <1>1. j \in Job /\ j.got \in Seq(Parcels) /\ j.todo \in Seq(Parcels)
    BY Fields DEF TypeOK
  <1>2. h \in Parcels /\ Tail(j.todo) \in Seq(Parcels) /\ Append(j.got, h) \in Seq(Parcels)
    BY <1>1, Lists
  <1>3. ASSUME Granted(t)
        PROVE  /\ Moves(t) /\ Gets(t, h) /\ job'[t].attempt = j.attempt
               /\ job'[t].got = Append(j.got, h) /\ job'[t].todo = Tail(j.todo)
               /\ job'[t].pc = IF Len(j.todo) = 1 THEN "work" ELSE "lease"
    <2> DEFINE pc == IF Len(j.todo) = 1 THEN "work" ELSE "lease"
               k == [j EXCEPT !.got = Append(j.got, h), !.todo = Tail(j.todo), !.pc = pc]
    <2>1. pc \in Pcs
      BY DEF Pcs, Acquiring, Beating
    <2>2. Lock!Claim(h, Claim(t)) /\ Set(t, k)
      BY <1>1, <1>3 DEF Granted, Job
    <2> HIDE DEF pc
    <2>3. k \in Job
      BY <1>1, <1>2, <2>1, Updates, Fields
    <2>4. Moves(t) /\ job'[t] = k
      BY <2>2, <2>3, SetMoves
    <2>5. k.got = Append(j.got, h) /\ k.todo = Tail(j.todo) /\ k.pc = pc /\ k.attempt = j.attempt
      BY <1>1, UpdatedFields
    <2> HIDE DEF k
    <2> QED BY <1>2, <2>2, <2>4, <2>5, ClaimGets DEF pc
  <1>4. ASSUME Denied(t)
        PROVE  /\ Moves(t) /\ \E c \in claims[h] : c # Claim(t)
               /\ job'[t].attempt = j.attempt
               /\ job'[t].pc = "backoff" /\ job'[t].todo = j.got /\ job'[t].got = j.got
               /\ UNCHANGED claims
    <2> DEFINE k == [j EXCEPT !.pc = "backoff", !.todo = j.got]
    <2>1. k \in Job
      BY <1>1, Updates, Fields DEF Pcs, Acquiring
    <2>2. Moves(t) /\ job'[t] = k
      BY <1>4, <2>1, SetMoves DEF Denied
    <2>3. \E c \in claims[h] : c # Claim(t)
      BY <1>4 DEF Denied, Lock!Compatible
    <2> QED BY <1>1, <1>4, <2>2, <2>3, UpdatedFields DEF Denied
  <1>5. ASSUME Unanswered(t, "lease"), Lock!Claim(h, Claim(t)) \/ UNCHANGED claims,
               Conclude(t, "error")
        PROVE  Ends(t, "error") /\ (Gets(t, h) \/ UNCHANGED claims)
    BY <1>2, <1>5, ConcludeEnds, ClaimGets DEF Endings
  <1>6. CASE Granted(t) /\ UNCHANGED <<result, failures, lost, cut>>
    BY <1>2, <1>3, <1>6 DEF Acquire, At
  <1>7. CASE Denied(t) /\ UNCHANGED <<result, failures, lost, cut>>
    BY <1>2, <1>4, <1>7 DEF Acquire, At
  <1>8. CASE /\ Unanswered(t, "lease")
             /\ Lock!Claim(h, Claim(t)) \/ UNCHANGED claims
             /\ Conclude(t, "error")
    BY <1>2, <1>5, <1>8 DEF Acquire, At, Ends
  <1> QED BY <1>6, <1>7, <1>8 DEF Acquire

(* The first of the leases to give back is done with.                      *)
Rests(t) ==
  /\ Moves(t) /\ job'[t].attempt = job[t].attempt /\ job'[t].pc = job[t].pc
  /\ job'[t].todo = Tail(job[t].todo) /\ job'[t].got = job[t].got
  /\ job'[t].end = job[t].end

LEMMA RestRests ==
  ASSUME TypeOK, NEW t \in T, job[t].todo # << >>, Set(t, Rest(t))
  PROVE  Rests(t)
  <1>1. job[t] \in Job /\ Tail(job[t].todo) \in Seq(Parcels)
    BY Lists, Fields DEF TypeOK
  <1>2. Rest(t) = [job[t] EXCEPT !.todo = Tail(job[t].todo)]
    BY <1>1 DEF Rest, Job
  <1>3. Rest(t) \in Job
    BY <1>1, <1>2 DEF Job
  <1>4. Moves(t) /\ job'[t] = Rest(t)
    BY <1>3, SetMoves
  <1> QED BY <1>1, <1>2, <1>4 DEF Rests, Job

(* Everything that was leased is to be given back, and then end reported.  *)
GoesTo(t, pc, end) ==
  /\ Moves(t) /\ job'[t].attempt = job[t].attempt /\ job'[t].pc = pc
  /\ job'[t].todo = job[t].got /\ job'[t].got = job[t].got /\ job'[t].end = end

LEMMA EndingGoesTo ==
  ASSUME TypeOK, NEW t \in T, NEW pc \in Pcs, NEW end \in Endings,
         Set(t, [job[t] EXCEPT !.pc = pc, !.todo = job[t].got, !.end = end])
  PROVE  GoesTo(t, pc, end)
  <1> DEFINE k == [job[t] EXCEPT !.pc = pc, !.todo = job[t].got, !.end = end]
  <1>1. job[t] \in Job /\ job[t].got \in Seq(Parcels)
    BY Fields DEF TypeOK
  <1>2. k \in Job
    BY <1>1 DEF Job, Pcs
  <1>3. Moves(t) /\ job'[t] = k
    BY <1>2, SetMoves
  <1> QED BY <1>1, <1>3 DEF GoesTo, Job

LEMMA ContainedGoesTo ==
  ASSUME TypeOK, NEW t \in T, NEW end \in Endings, Set(t, Contained(t, end))
  PROVE  GoesTo(t, "contain", end)
  BY EndingGoesTo DEF Contained, Pcs, Beating

(* A denied attempt gives back what it got, and then ends.                 *)
LEMMA BackOffDoes ==
  ASSUME TypeOK, NEW t \in T, BackOff(t)
  PROVE  /\ Moves(t) /\ job[t].pc = "backoff"
         /\ \/ /\ job[t].todo # << >> /\ Gives(t, Head(job[t].todo)) /\ Rests(t)
               /\ UNCHANGED <<result, failures, lost, cut>>
            \/ /\ job[t].todo # << >> /\ Unanswered(t, "release") /\ Ends(t, "error")
               /\ Gives(t, Head(job[t].todo)) \/ UNCHANGED claims
            \/ /\ job[t].todo = << >> /\ Ends(t, "lease_denied")
               /\ UNCHANGED <<claims, failures, lost>>
  <1>1. CASE /\ job[t].todo # << >> /\ GiveBack(t) /\ Set(t, Rest(t))
             /\ UNCHANGED <<result, failures, lost, cut>>
    <2>1. Gives(t, Head(job[t].todo)) /\ Rests(t)
      BY <1>1, GiveBackGives, RestRests
    <2> QED BY <1>1, <2>1 DEF BackOff, At, Rests
  <1>2. CASE /\ job[t].todo # << >> /\ Unanswered(t, "release")
             /\ (GiveBack(t) \/ UNCHANGED claims) /\ Conclude(t, "error")
    <2>1. Ends(t, "error") /\ (Gives(t, Head(job[t].todo)) \/ UNCHANGED claims)
      BY <1>2, GiveBackGives, ConcludeEnds DEF Endings
    <2> QED BY <1>2, <2>1 DEF BackOff, At, Ends
  <1>3. CASE /\ job[t].todo = << >> /\ Conclude(t, "lease_denied")
             /\ UNCHANGED <<claims, failures, lost>>
    <2>1. Ends(t, "lease_denied")
      BY <1>3, ConcludeEnds DEF Endings
    <2> QED BY <1>3, <2>1 DEF BackOff, At, Ends
  <1> QED BY <1>1, <1>2, <1>3 DEF BackOff

LEMMA WorkDoes ==
  ASSUME TypeOK, NEW t \in T, Work(t)
  PROVE  /\ Moves(t) /\ job[t].pc = "work"
         /\ \/ /\ job'[t].attempt = job[t].attempt /\ job'[t].pc = "submit"
               /\ job'[t].todo = job[t].todo /\ job'[t].got = job[t].got
               /\ UNCHANGED failures
            \/ Fails("git") /\ GoesTo(t, "contain", "git")
            \/ Fails("work") /\ GoesTo(t, "contain", "error")
  <1>1. CASE Set(t, [job[t] EXCEPT !.pc = "submit"]) /\ UNCHANGED failures
    <2>1. job[t] \in Job /\ [job[t] EXCEPT !.pc = "submit"] \in Job
      BY DEF TypeOK, Job, Beating
    <2>2. Moves(t) /\ job'[t] = [job[t] EXCEPT !.pc = "submit"]
      BY <1>1, <2>1, SetMoves
    <2> QED BY <1>1, <2>1, <2>2 DEF Work, At, Job
  <1>2. CASE Fails("git") /\ Set(t, Contained(t, "git"))
    <2>1. GoesTo(t, "contain", "git")
      BY <1>2, ContainedGoesTo DEF Endings
    <2> QED BY <1>2, <2>1 DEF Work, At, GoesTo
  <1>3. CASE Fails("work") /\ Set(t, Contained(t, "error"))
    <2>1. GoesTo(t, "contain", "error")
      BY <1>3, ContainedGoesTo DEF Endings
    <2> QED BY <1>3, <2>1 DEF Work, At, GoesTo
  <1> QED BY <1>1, <1>2, <1>3 DEF Work

LEMMA SubmitDoes ==
  ASSUME TypeOK, NEW t \in T, Submit(t)
  PROVE  /\ Moves(t) /\ job[t].pc = "submit" /\ job'[t].attempt = job[t].attempt
         /\ job'[t].pc = "integrate"
         /\ job'[t].todo = job[t].todo /\ job'[t].got = job[t].got
  <1>1. job[t] \in Job /\ [job[t] EXCEPT !.pc = "integrate"] \in Job
    BY DEF TypeOK, Job, Beating
  <1>2. Moves(t) /\ job'[t] = [job[t] EXCEPT !.pc = "integrate"]
    BY <1>1, SetMoves DEF Submit
  <1> QED BY <1>1, <1>2 DEF Submit, At, Job

(* The answer of the integrator, or the lack of one.                       *)
LEMMA IntegrateDoes ==
  ASSUME TypeOK, NEW t \in T, Integrate(t)
  PROVE  /\ Moves(t) /\ job[t].pc = "integrate"
         /\ \/ \E lands \in BOOLEAN :
                 /\ Lands(t, lands) /\ UNCHANGED <<failures, pending>>
                 /\ GoesTo(t, "release", IF lands THEN "merged" ELSE "done")
            \/ /\ Fails("reply") /\ pending' = pending \cup {t} /\ UNCHANGED landed
               /\ GoesTo(t, "release", "done") \/ GoesTo(t, "contain", "error")
  <1> DEFINE back(end) == [job[t] EXCEPT !.pc = "release", !.todo = job[t].got, !.end = end]
  <1>1. \/ \E lands \in BOOLEAN :
             /\ Lands(t, lands) /\ UNCHANGED <<failures, pending>>
             /\ Set(t, back(IF lands THEN "merged" ELSE "done"))
        \/ /\ Fails("reply") /\ pending' = pending \cup {t} /\ UNCHANGED landed
           /\ Set(t, back("done")) \/ Set(t, Contained(t, "error"))
    BY DEF Integrate
  <1>2. ASSUME NEW end \in Endings, Set(t, back(end))
        PROVE  GoesTo(t, "release", end)
    BY <1>2, EndingGoesTo DEF Pcs, Beating
  <1>3. /\ \A lands \in BOOLEAN : (IF lands THEN "merged" ELSE "done") \in Endings
        /\ "done" \in Endings /\ "error" \in Endings
    BY DEF Endings
  <1> HIDE DEF back
  <1>4. CASE \E lands \in BOOLEAN :
               /\ Lands(t, lands) /\ UNCHANGED <<failures, pending>>
               /\ Set(t, back(IF lands THEN "merged" ELSE "done"))
    <2>1. PICK lands \in BOOLEAN :
            /\ Lands(t, lands) /\ UNCHANGED <<failures, pending>>
            /\ Set(t, back(IF lands THEN "merged" ELSE "done"))
      BY <1>4
    <2>2. GoesTo(t, "release", IF lands THEN "merged" ELSE "done")
      BY <1>2, <1>3, <2>1
    <2>3. Moves(t)
      BY <2>2 DEF GoesTo
    <2> QED BY <2>1, <2>2, <2>3 DEF Integrate, At
  <1>5. CASE /\ Fails("reply") /\ pending' = pending \cup {t} /\ UNCHANGED landed
             /\ Set(t, back("done")) \/ Set(t, Contained(t, "error"))
    <2>1. GoesTo(t, "release", "done") \/ GoesTo(t, "contain", "error")
      BY <1>2, <1>3, <1>5, ContainedGoesTo
    <2>2. Moves(t)
      BY <2>1 DEF GoesTo
    <2> QED BY <1>5, <2>1, <2>2 DEF Integrate, At
  <1> QED BY <1>1, <1>4, <1>5

(* Leases are released one by one; a call that fails leaves one behind.    *)
LEMMA ReleaseDoes ==
  ASSUME TypeOK, NEW t \in T, Release(t)
  PROVE  /\ Moves(t) /\ job[t].pc = "release"
         /\ \/ /\ job[t].todo # << >> /\ Gives(t, Head(job[t].todo)) /\ Rests(t)
               /\ UNCHANGED <<result, failures, lost, cut>>
            \/ /\ job[t].todo # << >> /\ Unanswered(t, "release")
               /\ GoesTo(t, "contain", "error") /\ UNCHANGED <<result, cut>>
               /\ Gives(t, Head(job[t].todo)) \/ UNCHANGED claims
            \/ /\ job[t].todo = << >> /\ Ends(t, job[t].end)
               /\ UNCHANGED <<claims, failures, lost>>
  <1>1. CASE /\ job[t].todo # << >> /\ GiveBack(t) /\ Set(t, Rest(t))
             /\ UNCHANGED <<result, failures, lost, cut>>
    <2>1. Gives(t, Head(job[t].todo)) /\ Rests(t)
      BY <1>1, GiveBackGives, RestRests
    <2> QED BY <1>1, <2>1 DEF Release, At, Rests
  <1>2. CASE /\ job[t].todo # << >> /\ Unanswered(t, "release")
             /\ (GiveBack(t) \/ UNCHANGED claims) /\ Set(t, Contained(t, "error"))
             /\ UNCHANGED <<result, cut>>
    <2>1. GoesTo(t, "contain", "error") /\ (Gives(t, Head(job[t].todo)) \/ UNCHANGED claims)
      BY <1>2, GiveBackGives, ContainedGoesTo DEF Endings
    <2> QED BY <1>2, <2>1 DEF Release, At, GoesTo
  <1>3. CASE /\ job[t].todo = << >> /\ Conclude(t, job[t].end)
             /\ UNCHANGED <<claims, failures, lost>>
    <2>1. Ends(t, job[t].end)
      BY <1>3, ConcludeEnds, Fields DEF TypeOK
    <2> QED BY <1>3, <2>1 DEF Release, At, Ends
  <1> QED BY <1>1, <1>2, <1>3 DEF Release

LEMMA ContainDoes ==
  ASSUME TypeOK, NEW t \in T, Contain(t)
  PROVE  /\ Moves(t) /\ job[t].pc = "contain"
         /\ \/ /\ job[t].todo # << >> /\ Rests(t) /\ UNCHANGED <<result, cut>>
               /\ \/ Gives(t, Head(job[t].todo)) /\ UNCHANGED <<failures, lost>>
                  \/ /\ Unanswered(t, "release")
                     /\ Gives(t, Head(job[t].todo)) \/ UNCHANGED claims
            \/ /\ job[t].todo = << >> /\ Ends(t, job[t].end)
               /\ UNCHANGED <<claims, failures, lost>>
  <1>1. CASE /\ job[t].todo # << >> /\ Set(t, Rest(t)) /\ UNCHANGED <<result, cut>>
             /\ \/ GiveBack(t) /\ UNCHANGED <<failures, lost>>
                \/ Unanswered(t, "release") /\ (GiveBack(t) \/ UNCHANGED claims)
    <2>1. /\ Rests(t)
          /\ \/ Gives(t, Head(job[t].todo)) /\ UNCHANGED <<failures, lost>>
             \/ /\ Unanswered(t, "release")
                /\ Gives(t, Head(job[t].todo)) \/ UNCHANGED claims
      BY <1>1, GiveBackGives, RestRests
    <2> QED BY <1>1, <2>1 DEF Contain, At, Rests
  <1>2. CASE /\ job[t].todo = << >> /\ Conclude(t, job[t].end)
             /\ UNCHANGED <<claims, failures, lost>>
    <2>1. Ends(t, job[t].end)
      BY <1>2, ConcludeEnds, Fields DEF TypeOK
    <2> QED BY <1>2, <2>1 DEF Contain, At, Ends
  <1> QED BY <1>1, <1>2 DEF Contain

-----------------------------------------------------------------------------
(* The types, and that an attempt that is leasing has a lease to ask for.  *)
Pending == \A t \in T : job[t].pc = "lease" => job[t].todo # << >>

(* A step of t changes nothing of the other tasks, and of the claims only  *)
(* its own.                                                                *)
Frame(t) ==
  /\ Moves(t) /\ broker /\ UNCHANGED broker
  /\ lost' \in {lost, lost \cup {Id(t)}}
  /\ pending' \in {pending, pending \cup {t}}
  /\ cut' \in {cut, cut \ ({Id(t)} \X Parcels)}
  /\ \A u \in T : u # t => landed'[u] = landed[u] /\ result'[u] = result[u]
  /\ \A p \in Parcels : claims'[p] \ {Claim(t)} = claims[p] \ {Claim(t)}

(* A step of t moves no other task, and touches no claim but its own.      *)
LEMMA StepFrames ==
  ASSUME TypeOK, Pending, NEW t \in T, Step(t)
  PROVE  Frame(t) /\ TypeOK' /\ (job'[t].pc = "lease" => job'[t].todo # << >>)
  <1>0. /\ landed \in [T -> Nat] /\ result \in [T -> Endings] /\ lost \subseteq Agents
        /\ pending \subseteq T /\ cut \subseteq Agents \X Parcels
        /\ cut \ ({Id(t)} \X Parcels) \subseteq Agents \X Parcels
        /\ pending \cup {t} \subseteq T
        /\ claims \in [Parcels -> SUBSET (Agents \X {"write"})]
        /\ mutex \in T \cup {0} /\ failures \in 0..MaxFailures /\ broker \in BOOLEAN
    BY DEF TypeOK
  <1>1. job[t].todo \in Seq(Parcels) /\ job[t].end \in Endings
    BY Fields DEF TypeOK
  <1>2. job[t].todo # << >> => Head(job[t].todo) \in Parcels
    BY <1>1, Lists
  <1>3. ASSUME NEW h \in Parcels, Gives(t, h) \/ Gets(t, h) \/ UNCHANGED claims
        PROVE  /\ claims' \in [Parcels -> SUBSET (Agents \X {"write"})]
               /\ \A p \in Parcels : claims'[p] \ {Claim(t)} = claims[p] \ {Claim(t)}
    <2>1. claims' \in [Parcels -> SUBSET (Agents \X {"write"})]
      BY <1>0, <1>3 DEF Gives, Gets
    <2>2. claims'[h] \ {Claim(t)} = claims[h] \ {Claim(t)}
      BY <1>3 DEF Gives, Gets
    <2>3. \A p \in Parcels : p # h => claims'[p] = claims[p]
      BY <1>3 DEF Gives, Gets
    <2> QED BY <2>1, <2>2, <2>3
  <1>4. ASSUME NEW end \in Endings, Ends(t, end)
        PROVE  /\ Moves(t) /\ job'[t].pc \in {"over", "begin"} /\ result' \in [T -> Endings]
               /\ \A u \in T : u # t => result'[u] = result[u]
               /\ cut' = cut \ ({Id(t)} \X Parcels)
    BY <1>0, <1>4 DEF Ends
  <1>5. ASSUME NEW kind, Unanswered(t, kind)
        PROVE  failures' \in 0..MaxFailures /\ lost' = lost \cup {Id(t)} /\ lost' \subseteq Agents
    BY <1>0, <1>5, FailsCounted, IdsDiffer DEF Unanswered
  <1>6. ASSUME NEW pc, NEW end, GoesTo(t, pc, end)
        PROVE  Moves(t) /\ job'[t].pc = pc
    BY <1>6 DEF GoesTo
  <1>7. "error" \in Endings /\ "lease_denied" \in Endings
    BY DEF Endings
  <1>8. CASE Dispatch(t)
    <2>1. UNCHANGED <<claims, result, mutex, broker, failures, pending, landed, lost, cut>> /\ broker
      BY <1>8 DEF Dispatch, At
    <2> QED BY <1>8, <2>1, DispatchDoes DEF TypeOK, Frame, Moves
  <1>9. CASE Plan(t)
    <2>1. UNCHANGED <<claims, mutex, broker, pending, landed, lost>> /\ broker
      BY <1>9 DEF Plan, At
    <2>2. Moves(t) /\ job[t].pc = "begin"
      BY <1>9, PlanDoes
    <2>3. /\ failures' \in 0..MaxFailures /\ result' \in [T -> Endings]
          /\ \A u \in T : u # t => result'[u] = result[u]
          /\ job'[t].pc = "lease" => job'[t].todo # << >>
          /\ cut' \in {cut, cut \ ({Id(t)} \X Parcels)}
      BY <1>0, <1>4, <1>7, <1>9, PlanDoes, FailsCounted
    <2> QED BY <2>1, <2>2, <2>3, <1>0 DEF TypeOK, Frame, Moves
  <1>10. CASE Acquire(t)
    <2>1. UNCHANGED <<mutex, broker, pending, landed>> /\ broker /\ job[t].pc = "lease"
      BY <1>10 DEF Acquire, At
    <2>2. job[t].todo # << >> /\ Head(job[t].todo) \in Parcels
      BY <2>1, <1>2 DEF Pending
    <2> DEFINE h == Head(job[t].todo)
    <2>3. /\ Moves(t)
          /\ \/ /\ Gets(t, h) /\ job'[t].todo = Tail(job[t].todo)
                /\ job'[t].pc = IF Len(job[t].todo) = 1 THEN "work" ELSE "lease"
                /\ UNCHANGED <<result, failures, lost, cut>>
             \/ job'[t].pc = "backoff" /\ UNCHANGED <<claims, result, failures, lost, cut>>
             \/ Unanswered(t, "lease") /\ Ends(t, "error") /\ (Gets(t, h) \/ UNCHANGED claims)
      BY <1>10, <2>2, AcquireDoes
    <2> HIDE DEF h
    <2>4. h \in Parcels /\ (Gets(t, h) \/ UNCHANGED claims)
      BY <2>2, <2>3 DEF h
    <2>5. /\ failures' \in 0..MaxFailures /\ result' \in [T -> Endings]
          /\ \A u \in T : u # t => result'[u] = result[u]
          /\ lost' \in {lost, lost \cup {Id(t)}} /\ lost' \subseteq Agents
          /\ cut' \in {cut, cut \ ({Id(t)} \X Parcels)}
      BY <1>0, <1>4, <1>5, <1>7, <2>3
    <2>6. job'[t].pc = "lease" => job'[t].todo # << >>
      BY <1>1, <1>4, <1>7, <2>2, <2>3, Lists
    <2> QED BY <2>1, <2>3, <2>4, <2>5, <2>6, <1>0, <1>3 DEF TypeOK, Frame, Moves
  <1>11. CASE BackOff(t)
    <2>1. UNCHANGED <<mutex, broker, pending, landed>> /\ broker
      BY <1>11 DEF BackOff, At
    <2> DEFINE h == Head(job[t].todo)
    <2>2. /\ Moves(t) /\ job[t].pc = "backoff"
          /\ \/ /\ job[t].todo # << >> /\ Gives(t, h) /\ Rests(t)
                /\ UNCHANGED <<result, failures, lost, cut>>
             \/ /\ job[t].todo # << >> /\ Unanswered(t, "release") /\ Ends(t, "error")
                /\ Gives(t, h) \/ UNCHANGED claims
             \/ /\ job[t].todo = << >> /\ Ends(t, "lease_denied")
                /\ UNCHANGED <<claims, failures, lost>>
      BY <1>11, BackOffDoes
    <2>3. job[t].todo # << >> => h \in Parcels
      BY <1>2
    <2> HIDE DEF h
    <2>4. /\ claims' \in [Parcels -> SUBSET (Agents \X {"write"})]
          /\ \A p \in Parcels : claims'[p] \ {Claim(t)} = claims[p] \ {Claim(t)}
      BY <1>0, <1>3, <2>2, <2>3
    <2>5. /\ failures' \in 0..MaxFailures /\ result' \in [T -> Endings]
          /\ \A u \in T : u # t => result'[u] = result[u]
          /\ lost' \in {lost, lost \cup {Id(t)}} /\ lost' \subseteq Agents
          /\ cut' \in {cut, cut \ ({Id(t)} \X Parcels)}
      BY <1>0, <1>4, <1>5, <1>7, <2>2
    <2>6. job'[t].pc # "lease"
      BY <1>4, <1>7, <2>2 DEF Rests
    <2> QED BY <2>1, <2>2, <2>4, <2>5, <2>6, <1>0 DEF TypeOK, Frame, Moves
  <1>12. CASE Work(t)
    <2>1. UNCHANGED <<claims, result, mutex, broker, pending, landed, lost, cut>> /\ broker
      BY <1>12 DEF Work, At
    <2>2. Moves(t) /\ job'[t].pc # "lease" /\ failures' \in 0..MaxFailures
      BY <1>0, <1>6, <1>12, WorkDoes, FailsCounted
    <2> QED BY <2>1, <2>2, <1>0 DEF TypeOK, Frame, Moves
  <1>13. CASE Submit(t)
    <2>1. UNCHANGED <<claims, result, broker, failures, pending, landed, lost, cut>> /\ broker /\ mutex' = t
      BY <1>13 DEF Submit, At
    <2>2. Moves(t) /\ job'[t].pc # "lease"
      BY <1>13, SubmitDoes
    <2> QED BY <2>1, <2>2, <1>0 DEF TypeOK, Frame, Moves
  <1>14. CASE Integrate(t)
    <2>1. UNCHANGED <<claims, result, broker, lost, cut>> /\ broker /\ mutex' = 0
      BY <1>14 DEF Integrate, At
    <2>2. landed' \in [T -> Nat] /\ \A u \in T : u # t => landed'[u] = landed[u]
      BY <1>0, <1>14, IntegrateDoes DEF Lands
    <2>3. pending' \in {pending, pending \cup {t}}
      BY <1>14, IntegrateDoes
    <2>4. Moves(t) /\ job'[t].pc # "lease" /\ failures' \in 0..MaxFailures
      BY <1>0, <1>6, <1>14, IntegrateDoes, FailsCounted
    <2> QED BY <2>1, <2>2, <2>3, <2>4, <1>0 DEF TypeOK, Frame, Moves
  <1>15. CASE Release(t)
    <2>1. UNCHANGED <<mutex, broker, pending, landed>> /\ broker
      BY <1>15 DEF Release, At
    <2> DEFINE h == Head(job[t].todo)
    <2>2. /\ Moves(t) /\ job[t].pc = "release"
          /\ \/ /\ job[t].todo # << >> /\ Gives(t, h) /\ Rests(t)
                /\ UNCHANGED <<result, failures, lost, cut>>
             \/ /\ job[t].todo # << >> /\ Unanswered(t, "release")
                /\ GoesTo(t, "contain", "error") /\ UNCHANGED <<result, cut>>
                /\ Gives(t, h) \/ UNCHANGED claims
             \/ /\ job[t].todo = << >> /\ Ends(t, job[t].end)
                /\ UNCHANGED <<claims, failures, lost>>
      BY <1>15, ReleaseDoes
    <2>3. job[t].todo # << >> => h \in Parcels
      BY <1>2
    <2> HIDE DEF h
    <2>4. /\ claims' \in [Parcels -> SUBSET (Agents \X {"write"})]
          /\ \A p \in Parcels : claims'[p] \ {Claim(t)} = claims[p] \ {Claim(t)}
      BY <1>0, <1>3, <2>2, <2>3
    <2>5. /\ failures' \in 0..MaxFailures /\ result' \in [T -> Endings]
          /\ \A u \in T : u # t => result'[u] = result[u]
          /\ lost' \in {lost, lost \cup {Id(t)}} /\ lost' \subseteq Agents
          /\ cut' \in {cut, cut \ ({Id(t)} \X Parcels)}
      BY <1>0, <1>1, <1>4, <1>5, <2>2
    <2>6. job'[t].pc # "lease"
      BY <1>1, <1>4, <1>6, <2>2 DEF Rests
    <2> QED BY <2>1, <2>2, <2>4, <2>5, <2>6, <1>0 DEF TypeOK, Frame, Moves
  <1>16. CASE Contain(t)
    <2>1. UNCHANGED <<mutex, broker, pending, landed>> /\ broker
      BY <1>16 DEF Contain, At
    <2> DEFINE h == Head(job[t].todo)
    <2>2. /\ Moves(t) /\ job[t].pc = "contain"
          /\ \/ /\ job[t].todo # << >> /\ Rests(t) /\ UNCHANGED <<result, cut>>
                /\ \/ Gives(t, h) /\ UNCHANGED <<failures, lost>>
                   \/ Unanswered(t, "release") /\ (Gives(t, h) \/ UNCHANGED claims)
             \/ /\ job[t].todo = << >> /\ Ends(t, job[t].end)
                /\ UNCHANGED <<claims, failures, lost>>
      BY <1>16, ContainDoes
    <2>3. job[t].todo # << >> => h \in Parcels
      BY <1>2
    <2> HIDE DEF h
    <2>4. /\ claims' \in [Parcels -> SUBSET (Agents \X {"write"})]
          /\ \A p \in Parcels : claims'[p] \ {Claim(t)} = claims[p] \ {Claim(t)}
      BY <1>0, <1>3, <2>2, <2>3
    <2>5. /\ failures' \in 0..MaxFailures /\ result' \in [T -> Endings]
          /\ \A u \in T : u # t => result'[u] = result[u]
          /\ lost' \in {lost, lost \cup {Id(t)}} /\ lost' \subseteq Agents
          /\ cut' \in {cut, cut \ ({Id(t)} \X Parcels)}
      BY <1>0, <1>1, <1>4, <1>5, <2>2
    <2>6. job'[t].pc # "lease"
      BY <1>1, <1>4, <2>2 DEF Rests
    <2> QED BY <2>1, <2>2, <2>4, <2>5, <2>6, <1>0 DEF TypeOK, Frame, Moves
  <1> QED BY <1>8, <1>9, <1>10, <1>11, <1>12, <1>13, <1>14, <1>15, <1>16 DEF Step

(* The steps that are not of a task.                                       *)
LEMMA DieDoes ==
  ASSUME TypeOK, Die
  PROVE  /\ job' \in [T -> Job] /\ \A t \in T : job'[t].pc = "over"
         /\ pending' = pending \cup {t \in T : job[t].pc = "integrate"}
         /\ ~broker' /\ UNCHANGED <<claims, result, failures, landed, lost>> /\ TypeOK'
  <1>1. \A t \in T : Over(job[t]) \in Job /\ Over(job[t]).pc = "over"
    BY OverIs DEF TypeOK
  <1>2. job' \in [T -> Job] /\ \A t \in T : job'[t].pc = "over"
    BY <1>1 DEF Die
  <1> QED BY <1>2 DEF Die, TypeOK

LEMMA LapseDoes ==
  ASSUME TypeOK, NEW a \in Agents, NEW p \in Parcels, Lapse(a, p)
  PROVE  /\ UNCHANGED <<job, result, mutex, broker, pending, landed, lost>>
         /\ claims'[p] = claims[p] \ {<<a, "write">>}
         /\ \A q \in Parcels : q # p => claims'[q] = claims[q]
         /\ cut \subseteq cut' /\ (Alive(a) => <<a, p>> \in cut')
         /\ TypeOK'
  <1>1. failures' \in 0..MaxFailures
    BY FailsCounted DEF TypeOK, Lapse
  <1>2. cut' = cut \/ cut' = cut \cup {<<a, p>>}
    BY DEF Lapse
  <1>3. cut \subseteq cut' /\ (Alive(a) => <<a, p>> \in cut') /\ cut' \subseteq Agents \X Parcels
    BY <1>2 DEF Lapse, TypeOK
  <1> QED BY <1>1, <1>3 DEF TypeOK, Lapse

LEMMA RetireDoes ==
  ASSUME TypeOK, NEW p \in Parcels, Retire(p)
  PROVE  /\ UNCHANGED <<job, result, mutex, broker, failures, pending, landed, lost>>
         /\ claims'[p] = {}
         /\ \A q \in Parcels : q # p => claims'[q] = claims[q]
         /\ cut \subseteq cut'
         /\ \A c \in claims[p] : Alive(c[1]) => <<c[1], p>> \in cut'
         /\ TypeOK'
  <1>1. \A c \in claims[p] : c[1] \in Agents
    BY DEF TypeOK
  <1>2. cut' \subseteq Agents \X Parcels
    BY <1>1 DEF TypeOK, Retire
  <1> QED BY <1>2 DEF TypeOK, Retire

(* The server ends an /integrate of which it is not known how it ended.    *)
LEMMA LandsLateDoes ==
  ASSUME TypeOK, NEW t \in T, LandsLate(t)
  PROVE  /\ UNCHANGED <<claims, job, result, mutex, broker, failures, lost, cut>>
         /\ t \in pending /\ pending' = pending \ {t}
         /\ landed'[t] \in {landed[t], landed[t] + 1}
         /\ \A u \in T : u # t => landed'[u] = landed[u]
         /\ TypeOK'
  <1>1. PICK lands \in BOOLEAN : Lands(t, lands)
    BY DEF LandsLate
  <1>2. landed' \in [T -> Nat] /\ landed'[t] \in {landed[t], landed[t] + 1}
        /\ \A u \in T : u # t => landed'[u] = landed[u]
    BY <1>1 DEF Lands, TypeOK
  <1> QED BY <1>2 DEF TypeOK, LandsLate

LEMMA RivalDoes ==
  ASSUME TypeOK, NEW r \in Rivals, NEW p \in Parcels, RivalClaims(r, p)
  PROVE  /\ UNCHANGED <<job, result, mutex, broker, failures, pending, landed, lost, cut>>
         /\ Lock!Claim(p, <<r, "write">>) /\ <<r, "write">> \in Agents \X {"write"}
         /\ claims'[p] = claims[p] \cup {<<r, "write">>}
         /\ \A q \in Parcels : q # p => claims'[q] = claims[q]
         /\ TypeOK'
  <1>1. <<r, "write">> \in Agents \X {"write"}
    BY DEF Agents
  <1>2. claims' = [claims EXCEPT ![p] = @ \cup {<<r, "write">>}]
    BY DEF RivalClaims, Lock!Claim
  <1> QED BY <1>1, <1>2 DEF TypeOK, RivalClaims

(* The types, with what they need to be inductive: an attempt that is in   *)
(* the middle of a list has a list.                                        *)
Typed == TypeOK /\ Pending

LEMMA InitTyped == Init => Typed
  <1> SUFFICES ASSUME Init PROVE Typed
    OBVIOUS
  <1>1. << >> \in Seq(Parcels) /\ 1 \in 1..MaxAttempts /\ 0 \in 0..MaxFailures
    BY FleetAssumption
  <1>2. [pc |-> "queued", attempt |-> 1, again |-> FALSE,
         todo |-> << >>, got |-> << >>, end |-> "none"] \in Job
    BY <1>1 DEF Job, Endings
  <1>3. TypeOK
    BY <1>1, <1>2 DEF Init, TypeOK, Endings
  <1> QED BY <1>3 DEF Init, Typed, Pending

LEMMA NextTyped == Typed /\ [Next]_vars => Typed'
  <1> SUFFICES ASSUME Typed, [Next]_vars PROVE Typed'
    OBVIOUS
  <1>0. TypeOK /\ Pending
    BY DEF Typed
  <1>1. ASSUME NEW t \in T, Step(t) PROVE Typed'
    BY <1>0, <1>1, StepFrames DEF Frame, Moves, Typed, Pending
  <1>2. ASSUME NEW a \in Agents, NEW p \in Parcels, Lapse(a, p) PROVE Typed'
    BY <1>0, <1>2, LapseDoes DEF Typed, Pending
  <1>3. ASSUME NEW r \in Rivals, NEW p \in Parcels, RivalClaims(r, p) PROVE Typed'
    BY <1>0, <1>3, RivalDoes DEF Typed, Pending
  <1>4. ASSUME NEW p \in Parcels, Retire(p) PROVE Typed'
    BY <1>0, <1>4, RetireDoes DEF Typed, Pending
  <1>5. ASSUME NEW t \in T, LandsLate(t) PROVE Typed'
    BY <1>0, <1>5, LandsLateDoes DEF Typed, Pending
  <1>6. CASE Die
    BY <1>0, <1>6, DieDoes DEF Typed, Pending
  <1>7. CASE UNCHANGED vars
    BY <1>0, <1>7 DEF vars, Typed, TypeOK, Pending
  <1> QED BY <1>1, <1>2, <1>3, <1>4, <1>5, <1>6, <1>7 DEF Next

(* Every reachable state of a fleet is well typed.                         *)
THEOREM Typing == Spec => []TypeOK
  <1>1. Typed => TypeOK
    BY DEF Typed
  <1> QED BY <1>1, InitTyped, NextTyped, PTL DEF Spec

-----------------------------------------------------------------------------
(* The fleet and the lock: whatever fails, the claims of a parcel change   *)
(* only as the lease table lets them.                                      *)
LEMMA GivesIsUnclaim ==
  ASSUME TypeOK, NEW t \in T, NEW h \in Parcels, Gives(t, h)
  PROVE  Lock!Next
  BY DEF Gives, Lock!Next, Lock!Unclaim

LEMMA GetsIsClaim ==
  ASSUME TypeOK, NEW t \in T, NEW h \in Parcels, Gets(t, h)
  PROVE  Lock!Next
  <1>1. Claim(t) \in Agents \X {"write"}
    BY IdsDiffer
  <1>2. claims' = [claims EXCEPT ![h] = @ \cup {Claim(t)}]
    BY DEF TypeOK, Gets
  <1>3. Lock!Claim(h, Claim(t))
    BY <1>2 DEF Lock!Claim, Lock!Compatible, Gets
  <1> QED BY <1>1, <1>3 DEF Lock!Next

LEMMA StepUsesLock ==
  ASSUME TypeOK, Pending, NEW t \in T, Step(t)
  PROVE  [Lock!Next]_claims
  <1> DEFINE h == Head(job[t].todo)
  <1>1. job[t].todo # << >> => h \in Parcels
    BY Fields, Lists DEF TypeOK
  <1>2. \/ UNCHANGED claims
        \/ job[t].todo # << >> /\ (Gives(t, h) \/ Gets(t, h))
    <2>1. CASE Dispatch(t) \/ Plan(t) \/ Work(t) \/ Submit(t) \/ Integrate(t)
      BY <2>1 DEF Dispatch, Plan, Work, Submit, Integrate
    <2>2. CASE Acquire(t)
      <3>1. job[t].todo # << >>
        BY <2>2 DEF Pending, Acquire, At
      <3> QED BY <2>2, <3>1, AcquireDoes
    <2>3. CASE BackOff(t)
      BY <2>3, BackOffDoes
    <2>4. CASE Release(t)
      BY <2>4, ReleaseDoes
    <2>5. CASE Contain(t)
      BY <2>5, ContainDoes
    <2> QED BY <2>1, <2>2, <2>3, <2>4, <2>5 DEF Step
  <1> HIDE DEF h
  <1> QED BY <1>1, <1>2, GivesIsUnclaim, GetsIsClaim

(* Every step of the fleet is a step of the lock.                          *)
LEMMA NextUsesLock == Typed /\ [Next]_vars => [Lock!Next]_claims
  <1> SUFFICES ASSUME Typed, [Next]_vars PROVE [Lock!Next]_claims
    OBVIOUS
  <1>0. TypeOK /\ Pending
    BY DEF Typed
  <1>1. ASSUME NEW t \in T, Step(t) PROVE [Lock!Next]_claims
    BY <1>0, <1>1, StepUsesLock
  <1>2. ASSUME NEW a \in Agents, NEW p \in Parcels, Lapse(a, p) PROVE Lock!Next
    <2>1. TypeOK'
      BY <1>0, <1>2, LapseDoes
    <2> QED BY <1>0, <1>2, <2>1, LapseDoes DEF TypeOK, Lock!Next, Lock!Unclaim
  <1>3. ASSUME NEW r \in Rivals, NEW p \in Parcels, RivalClaims(r, p) PROVE Lock!Next
    BY <1>0, <1>3, RivalDoes DEF Lock!Next
  <1>4. ASSUME NEW p \in Parcels, Retire(p) PROVE Lock!Next
    <2>1. TypeOK'
      BY <1>0, <1>4, RetireDoes
    <2> QED BY <1>0, <1>4, <2>1, RetireDoes DEF TypeOK, Lock!Next, Lock!Unclaim
  <1>5. ASSUME NEW t \in T, LandsLate(t) PROVE UNCHANGED claims
    BY <1>5 DEF LandsLate
  <1>6. CASE Die
    BY <1>6 DEF Die
  <1>7. CASE UNCHANGED vars
    BY <1>7 DEF vars
  <1> QED BY <1>1, <1>2, <1>3, <1>4, <1>5, <1>6, <1>7 DEF Next

(* What the fleet does to the lease table is what ParcelLock, the lock     *)
(* that Leases implements, allows: it claims only what is free, and        *)
(* otherwise only gives up or loses claims.                                *)
THEOREM UsesLock == Spec => Lock!Spec
  <1>1. Init => Lock!Init
    BY DEF Init, Lock!Init
  <1> QED BY <1>1, InitTyped, NextTyped, NextUsesLock, PTL DEF Spec, Lock!Spec

(* All claims are write claims, so a parcel has one at most.               *)
Single == \A p \in Parcels : \A c, d \in claims[p] : c = d

(* The lock keeps it so.                                                   *)
LEMMA LockKeepsSingle ==
  ASSUME TypeOK, Single, [Lock!Next]_claims PROVE Single'
  <1>1. CASE UNCHANGED claims
    BY <1>1 DEF Single
  <1>2. CASE Lock!Unclaim
    BY <1>2 DEF Lock!Unclaim, Single
  <1>3. ASSUME NEW p \in Parcels, NEW c \in Agents \X {"write"}, Lock!Claim(p, c)
        PROVE  Single'
    <2>1. \A d \in claims[p] : c = d
      BY <1>3 DEF TypeOK, Lock!Claim, Lock!Compatible, Lock!Writers
    <2>2. claims' = [claims EXCEPT ![p] = @ \cup {c}]
      BY <1>3 DEF Lock!Claim
    <2> QED BY <2>1, <2>2 DEF TypeOK, Single
  <1> QED BY <1>1, <1>2, <1>3 DEF Lock!Next

-----------------------------------------------------------------------------
(* The lists an attempt keeps: they are of the parcels its task declared,  *)
(* and nothing that was declared is forgotten.                             *)
Books(t) ==
  /\ Elements(job[t].todo) \subseteq Targets(t) /\ Elements(job[t].got) \subseteq Targets(t)
  /\ job[t].pc = "begin" => job[t].got = << >>
  /\ job[t].pc = "lease" => Targets(t) \subseteq Elements(job[t].got) \cup Elements(job[t].todo)
  /\ job[t].pc \in {"work", "submit", "integrate"} => Targets(t) \subseteq Elements(job[t].got)

(* What an attempt that goes on will give back ...                         *)
Owed(t) ==
  CASE job[t].pc \in {"lease", "work", "submit", "integrate"} -> Elements(job[t].got)
    [] job[t].pc \in {"backoff", "release", "contain"} -> Elements(job[t].todo)
    [] OTHER -> {}

(* ... is everything it holds, unless a call of it failed.                 *)
Debts(t) ==
  Active(t) /\ Id(t) \notin lost =>
    \A p \in Parcels : Claim(t) \in claims[p] => p \in Owed(t)

(* What landed, or still may, against where the task is and what was       *)
(* recorded of it.                                                         *)
Truth(t) ==
  /\ landed[t] \in {0, 1}
  /\ t \in pending => /\ landed[t] = 0 /\ job[t].pc \in {"release", "contain", "over"}
                      /\ job[t].pc # "over" => job[t].end \in {"done", "error"}
                      /\ result[t] \notin {"merged", "lease_denied"}
  /\ job[t].pc \in {"queued", "begin", "lease", "backoff", "work", "submit", "integrate"}
       => landed[t] = 0
  /\ job[t].pc \in {"release", "contain"} =>
       /\ job[t].end \in {"merged", "done", "git", "error"}
       /\ job[t].end = "git" => landed[t] = 0
       /\ job[t].end = "merged" => landed[t] = 1
  /\ job[t].pc # "over" => result[t] = "none"
  /\ result[t] = "merged" => landed[t] = 1
  /\ result[t] = "lease_denied" => landed[t] = 0

(* A wave starts when those before it are over.                            *)
InTurn ==
  \A t, u \in T : job[t].pc # "queued" /\ Wave[u] < Wave[t] => job[u].pc = "over"

FleetInv ==
  /\ Typed /\ Single /\ InTurn /\ NothingLeaks
  /\ \A t \in T : Books(t) /\ Debts(t) /\ Truth(t)
  /\ ~broker => \A t \in T : job[t].pc = "over"

(* A step of t keeps the books of t.                                       *)
LEMMA StepBooks ==
  ASSUME TypeOK, Pending, NEW t \in T, Step(t), Books(t)
  PROVE  Books(t)'
  <1>1. job[t].todo \in Seq(Parcels) /\ job[t].got \in Seq(Parcels)
    BY Fields DEF TypeOK
  <1>2. Elements(<< >>) = {}
    BY DEF Elements
  <1>3. ASSUME NEW end, Ends(t, end) PROVE Books(t)'
    BY <1>2, <1>3 DEF Ends, Books, Targets
  <1>4. ASSUME NEW pc \in {"release", "contain"}, NEW end, GoesTo(t, pc, end) PROVE Books(t)'
    BY <1>4 DEF GoesTo, Books, Targets
  <1>5. ASSUME job[t].todo # << >>, job[t].pc \in {"backoff", "release", "contain"}, Rests(t)
        PROVE  Books(t)'
    <2>1. Elements(Tail(job[t].todo)) \subseteq Targets(t)
      BY <1>1, <1>5, Lists DEF Books
    <2> QED BY <1>5, <2>1 DEF Rests, Books, Targets
  <1>6. CASE Dispatch(t)
    BY <1>2, <1>6, DispatchDoes DEF Books, Targets
  <1>7. CASE Plan(t)
    <2>1. CASE job'[t].todo = Tasks[t] /\ job'[t].got = job[t].got
               /\ job'[t].pc = IF Tasks[t] = << >> THEN "work" ELSE "lease"
      BY <1>2, <1>7, <2>1, Listed, PlanDoes DEF Books, Targets
    <2> QED BY <1>3, <1>7, <2>1, PlanDoes
  <1>8. CASE Acquire(t)
    <2> DEFINE h == Head(job[t].todo)
    <2>1. job[t].todo # << >> /\ job[t].pc = "lease"
      BY <1>8 DEF Pending, Acquire, At
    <2>2. /\ Elements(job[t].todo) = {h} \cup Elements(Tail(job[t].todo))
          /\ Elements(Append(job[t].got, h)) = Elements(job[t].got) \cup {h}
          /\ Len(job[t].todo) = 1 => Elements(Tail(job[t].todo)) = {}
      BY <1>1, <1>2, <2>1, Lists
    <2>3. CASE /\ job'[t].got = Append(job[t].got, h) /\ job'[t].todo = Tail(job[t].todo)
               /\ job'[t].pc = IF Len(job[t].todo) = 1 THEN "work" ELSE "lease"
      BY <2>1, <2>2, <2>3 DEF Books, Targets
    <2>4. CASE job'[t].pc = "backoff" /\ job'[t].todo = job[t].got /\ job'[t].got = job[t].got
      BY <2>4 DEF Books, Targets
    <2> QED BY <1>3, <1>8, <2>1, <2>3, <2>4, AcquireDoes
  <1>9. CASE BackOff(t)
    BY <1>3, <1>5, <1>9, BackOffDoes
  <1>10. CASE Work(t)
    <2>1. CASE job'[t].pc = "submit" /\ job'[t].todo = job[t].todo /\ job'[t].got = job[t].got
      BY <1>10, <2>1, WorkDoes DEF Books, Targets
    <2> QED BY <1>4, <1>10, <2>1, WorkDoes
  <1>11. CASE Submit(t)
    BY <1>11, SubmitDoes DEF Books, Targets
  <1>12. CASE Integrate(t)
    BY <1>4, <1>12, IntegrateDoes
  <1>13. CASE Release(t)
    BY <1>3, <1>4, <1>5, <1>13, ReleaseDoes
  <1>14. CASE Contain(t)
    BY <1>3, <1>5, <1>14, ContainDoes
  <1> QED
    BY <1>6, <1>7, <1>8, <1>9, <1>10, <1>11, <1>12, <1>13, <1>14 DEF Step

(* What t held before the step is held by an attempt that goes on, is      *)
(* lost, or was given back.                                                *)
Settled(t) ==
  \/ Active(t)' /\ Id(t)' = Id(t)
  \/ Id(t) \in lost'
  \/ \A p \in Parcels : Claim(t) \notin claims'[p]

(* No id of t but the current one has claims that are not lost.            *)
LEMMA OldIdsHoldNothing ==
  ASSUME TypeOK, broker, NothingLeaks, NEW t \in T, NEW i \in Ids, i[1] = t,
         NEW p \in Parcels, <<i, "write">> \in claims[p], i \notin lost
  PROVE  Active(t) /\ i = Id(t)
  <1>1. i \notin Rivals
    BY FleetAssumption
  <1>2. <<i, "write">>[1] = i
    OBVIOUS
  <1>3. i \in Rivals \cup lost \cup {Id(u) : u \in {v \in T : Active(v)}}
    BY <1>2 DEF NothingLeaks
  <1>4. PICK u \in T : Active(u) /\ i = Id(u)
    BY <1>1, <1>3
  <1>5. u = t
    BY <1>4 DEF Id
  <1> QED BY <1>4, <1>5

(* A step of t keeps it owing what it holds, and an attempt that ends has  *)
(* settled: nothing is held under its id, or a call of it failed.          *)
LEMMA StepDebts ==
  ASSUME TypeOK, Pending, broker, NothingLeaks, NEW t \in T, Step(t), Debts(t)
  PROVE  Debts(t)' /\ Settled(t)
  <1>0. Frame(t) /\ TypeOK'
    BY StepFrames
  <1>1. job[t].todo \in Seq(Parcels) /\ job[t].got \in Seq(Parcels)
    BY Fields DEF TypeOK
  <1>2. Elements(<< >>) = {}
    BY DEF Elements
  <1>3. (Id(t) \in Ids)' /\ Id(t)'[1] = t /\ Id(t) \in Ids /\ Id(t)[1] = t
    <2>1. (job[t].attempt \in 1..MaxAttempts)' /\ job[t].attempt \in 1..MaxAttempts
      BY <1>0, Fields DEF TypeOK
    <2> QED BY <2>1 DEF Id, Ids
  <1>4. ASSUME Id(t) \in lost' \/ \A p \in Parcels : Claim(t) \notin claims'[p],
               NEW end, Ends(t, end)
        PROVE  Debts(t)' /\ Settled(t)
    <2>1. ASSUME (Id(t) \notin lost)', NEW p \in Parcels, (Claim(t) \in claims[p])'
          PROVE  FALSE
      <3>1. CASE Id(t)' = Id(t)
        <4>1. Claim(t)' = Claim(t)
          BY <3>1 DEF Claim
        <4> QED BY <1>4, <2>1, <3>1, <4>1
      <3>2. CASE Id(t)' # Id(t)
        <4>1. Claim(t)' # Claim(t) /\ Claim(t)' = <<Id(t)', "write">>
          BY <3>2 DEF Claim
        <4>2. Claim(t)' \in claims[p]
          BY <1>0, <2>1, <4>1 DEF Frame
        <4>3. Id(t)' \notin lost
          BY <1>0, <2>1 DEF Frame
        <4> QED BY <1>3, <3>2, <4>1, <4>2, <4>3, OldIdsHoldNothing
      <3> QED BY <3>1, <3>2
    <2> QED BY <1>4, <2>1 DEF Debts, Settled
  <1>5. ASSUME job'[t].attempt = job[t].attempt, job'[t].pc \in Acquiring \cup Beating
        PROVE  Id(t)' = Id(t) /\ Claim(t)' = Claim(t) /\ Active(t)' /\ Settled(t)
    BY <1>5 DEF Id, Claim, Active, Settled, Acquiring, Beating
  <1>6. ASSUME job'[t].attempt = job[t].attempt, job'[t].pc \in Acquiring \cup Beating,
               Id(t) \in lost'
        PROVE  Debts(t)' /\ Settled(t)
    BY <1>5, <1>6 DEF Debts
  <1>7. ASSUME job'[t].attempt = job[t].attempt, job'[t].pc \in Acquiring \cup Beating,
               Active(t), lost' = lost,
               \A p \in Parcels : Claim(t) \in claims'[p] =>
                 ((Claim(t) \in claims[p] => p \in Owed(t)) => p \in Owed(t)')
        PROVE  Debts(t)' /\ Settled(t)
    BY <1>5, <1>7 DEF Debts
  <1>8. ASSUME job[t].todo = << >>, job[t].pc \in {"backoff", "release", "contain"},
               UNCHANGED <<claims, lost>>
        PROVE  Id(t) \in lost' \/ \A p \in Parcels : Claim(t) \notin claims'[p]
    BY <1>2, <1>8 DEF Debts, Owed, Active
  <1>9. ASSUME job[t].todo # << >>, job[t].pc \in {"backoff", "release", "contain"}, Rests(t),
               Gives(t, Head(job[t].todo)), lost' = lost
        PROVE  Debts(t)' /\ Settled(t)
    <2>1. Elements(job[t].todo) = {Head(job[t].todo)} \cup Elements(Tail(job[t].todo))
      BY <1>1, <1>9, Lists
    <2>2. job'[t].attempt = job[t].attempt /\ job'[t].pc \in Acquiring \cup Beating /\ Active(t)
      BY <1>9 DEF Rests, Acquiring, Beating, Active
    <2>3. /\ Owed(t) = {Head(job[t].todo)} \cup Elements(Tail(job[t].todo))
          /\ Owed(t)' = Elements(Tail(job[t].todo))
      BY <1>9, <2>1 DEF Owed, Rests
    <2>4. \A p \in Parcels : Claim(t) \in claims'[p] => p # Head(job[t].todo) /\ Claim(t) \in claims[p]
      BY <1>9 DEF Gives
    <2> QED BY <1>7, <1>9, <2>2, <2>3, <2>4
  <1>10. ASSUME NEW pc \in {"release", "contain"}, NEW end, GoesTo(t, pc, end),
                \/ Id(t) \in lost'
                \/ /\ job[t].pc \in {"work", "submit", "integrate"}
                   /\ UNCHANGED <<claims, lost>>
         PROVE  Debts(t)' /\ Settled(t)
    <2>1. job'[t].attempt = job[t].attempt /\ job'[t].pc \in Acquiring \cup Beating
      BY <1>10 DEF GoesTo, Acquiring, Beating
    <2>2. CASE job[t].pc \in {"work", "submit", "integrate"} /\ UNCHANGED <<claims, lost>>
      <3>1. Owed(t) = Elements(job[t].got) /\ Owed(t)' = Elements(job[t].got) /\ Active(t)
        BY <1>10, <2>2 DEF Owed, GoesTo, Active
      <3> QED BY <1>7, <2>1, <2>2, <3>1
    <2> QED BY <1>6, <1>10, <2>1, <2>2
  <1>11. CASE Dispatch(t)
    <2>1. job'[t].attempt = job[t].attempt /\ job'[t].pc = "begin" /\ job[t].pc = "queued"
      BY <1>11, DispatchDoes
    <2>2. UNCHANGED <<claims, lost>>
      BY <1>11 DEF Dispatch
    <2>3. ~Active(t)
      BY <2>1 DEF Active
    <2>4. \A p \in Parcels : Claim(t) \in claims[p] => Id(t) \in lost
      BY <1>3, <2>3, OldIdsHoldNothing DEF Claim
    <2> QED BY <1>5, <2>1, <2>2, <2>4 DEF Debts, Acquiring
  <1>12. CASE Plan(t)
    <2>1. UNCHANGED <<claims, lost>> /\ job[t].pc = "begin"
      BY <1>12 DEF Plan, At
    <2>2. Id(t) \in lost' \/ \A p \in Parcels : Claim(t) \notin claims'[p]
      BY <2>1 DEF Debts, Owed, Active
    <2>3. CASE /\ job'[t].attempt = job[t].attempt
               /\ job'[t].pc = IF Tasks[t] = << >> THEN "work" ELSE "lease"
      BY <1>5, <2>2, <2>3 DEF Debts, Acquiring, Beating
    <2> QED BY <1>4, <1>12, <2>2, <2>3, PlanDoes
  <1>13. CASE Acquire(t)
    <2> DEFINE h == Head(job[t].todo)
    <2>1. job[t].todo # << >> /\ job[t].pc = "lease" /\ Active(t)
      BY <1>13 DEF Pending, Acquire, At, Active
    <2>2. h \in Parcels /\ Elements(Append(job[t].got, h)) = Elements(job[t].got) \cup {h}
      BY <1>1, <2>1, Lists
    <2>3. CASE /\ Gets(t, h) /\ job'[t].attempt = job[t].attempt
               /\ job'[t].got = Append(job[t].got, h)
               /\ job'[t].pc = IF Len(job[t].todo) = 1 THEN "work" ELSE "lease"
               /\ UNCHANGED lost
      <3>1. Owed(t) = Elements(job[t].got) /\ Owed(t)' = Elements(job[t].got) \cup {h}
        BY <2>1, <2>2, <2>3 DEF Owed
      <3>2. \A p \in Parcels : Claim(t) \in claims'[p] => p = h \/ Claim(t) \in claims[p]
        BY <2>3 DEF Gets
      <3>3. job'[t].pc \in Acquiring \cup Beating
        BY <2>3 DEF Acquiring, Beating
      <3> HIDE DEF h
      <3> QED BY <1>7, <2>1, <2>3, <3>1, <3>2, <3>3
    <2>4. CASE /\ job'[t].attempt = job[t].attempt /\ job'[t].pc = "backoff"
               /\ job'[t].todo = job[t].got /\ UNCHANGED <<claims, lost>>
      <3>1. Owed(t) = Elements(job[t].got) /\ Owed(t)' = Elements(job[t].got)
        BY <2>1, <2>4 DEF Owed
      <3>2. job'[t].pc \in Acquiring \cup Beating
        BY <2>4 DEF Acquiring
      <3> QED BY <1>7, <2>1, <2>4, <3>1, <3>2
    <2>5. CASE Unanswered(t, "lease") /\ Ends(t, "error")
      BY <1>4, <2>5 DEF Unanswered
    <2> QED BY <1>13, <2>1, <2>3, <2>4, <2>5, AcquireDoes
  <1>14. CASE BackOff(t)
    <2>1. job[t].pc \in {"backoff", "release", "contain"}
      BY <1>14, BackOffDoes
    <2>2. CASE Unanswered(t, "release") /\ Ends(t, "error")
      BY <1>4, <2>2 DEF Unanswered
    <2>3. CASE job[t].todo = << >> /\ Ends(t, "lease_denied") /\ UNCHANGED <<claims, failures, lost>>
      BY <1>4, <1>8, <2>1, <2>3
    <2>4. CASE /\ job[t].todo # << >> /\ Gives(t, Head(job[t].todo)) /\ Rests(t)
               /\ UNCHANGED <<result, failures, lost, cut>>
      BY <1>9, <2>1, <2>4
    <2> QED BY <1>14, <2>2, <2>3, <2>4, BackOffDoes
  <1>15. CASE Work(t)
    <2>1. UNCHANGED <<claims, lost>> /\ job[t].pc = "work"
      BY <1>15 DEF Work, At
    <2>2. CASE job'[t].attempt = job[t].attempt /\ job'[t].pc = "submit" /\ job'[t].got = job[t].got
      <3>1. Owed(t) = Elements(job[t].got) /\ Owed(t)' = Elements(job[t].got) /\ Active(t)
        BY <2>1, <2>2 DEF Owed, Active
      <3> QED BY <1>7, <2>1, <2>2, <3>1 DEF Beating
    <2> QED BY <1>10, <1>15, <2>1, <2>2, WorkDoes
  <1>16. CASE Submit(t)
    <2>1. /\ UNCHANGED <<claims, lost>> /\ job[t].pc = "submit" /\ job'[t].pc = "integrate"
          /\ job'[t].attempt = job[t].attempt /\ job'[t].got = job[t].got
      BY <1>16, SubmitDoes DEF Submit
    <2>2. Owed(t) = Elements(job[t].got) /\ Owed(t)' = Elements(job[t].got) /\ Active(t)
      BY <2>1 DEF Owed, Active
    <2> QED BY <1>7, <2>1, <2>2 DEF Beating
  <1>17. CASE Integrate(t)
    <2>1. UNCHANGED <<claims, lost>> /\ job[t].pc = "integrate"
      BY <1>17 DEF Integrate, At
    <2> QED BY <1>10, <1>17, <2>1, IntegrateDoes
  <1>18. CASE Release(t)
    <2>1. job[t].pc \in {"backoff", "release", "contain"}
      BY <1>18, ReleaseDoes
    <2>2. CASE Unanswered(t, "release") /\ GoesTo(t, "contain", "error")
      BY <1>10, <2>2 DEF Unanswered
    <2>3. CASE job[t].todo = << >> /\ Ends(t, job[t].end) /\ UNCHANGED <<claims, failures, lost>>
      BY <1>4, <1>8, <2>1, <2>3
    <2>4. CASE /\ job[t].todo # << >> /\ Gives(t, Head(job[t].todo)) /\ Rests(t)
               /\ UNCHANGED <<result, failures, lost, cut>>
      BY <1>9, <2>1, <2>4
    <2> QED BY <1>18, <2>2, <2>3, <2>4, ReleaseDoes
  <1>19. CASE Contain(t)
    <2>1. job[t].pc \in {"backoff", "release", "contain"}
      BY <1>19, ContainDoes
    <2>2. CASE Rests(t) /\ Unanswered(t, "release")
      <3>1. /\ job'[t].attempt = job[t].attempt /\ job'[t].pc \in Acquiring \cup Beating
            /\ Id(t) \in lost'
        BY <2>1, <2>2 DEF Rests, Unanswered, Acquiring, Beating
      <3> QED BY <1>6, <3>1
    <2>3. CASE job[t].todo = << >> /\ Ends(t, job[t].end) /\ UNCHANGED <<claims, failures, lost>>
      BY <1>4, <1>8, <2>1, <2>3
    <2>4. CASE /\ job[t].todo # << >> /\ Gives(t, Head(job[t].todo)) /\ Rests(t)
               /\ UNCHANGED <<failures, lost>>
      BY <1>9, <2>1, <2>4
    <2> QED BY <1>19, <2>2, <2>3, <2>4, ContainDoes
  <1> QED
    BY <1>11, <1>12, <1>13, <1>14, <1>15, <1>16, <1>17, <1>18, <1>19 DEF Step

(* A step of t keeps the truth about t.                                    *)
LEMMA StepTruth ==
  ASSUME TypeOK, Pending, NEW t \in T, Step(t), Truth(t)
  PROVE  Truth(t)'
  <1>0. /\ result \in [T -> Endings] /\ landed \in [T -> Nat]
        /\ job[t].pc # "over" /\ result[t] = "none"
    <2>1. job[t].pc # "over"
      BY DEF Step, At, Dispatch, Plan, Acquire, BackOff, Work, Submit, Integrate, Release, Contain
    <2> QED BY <2>1 DEF TypeOK, Truth
  <1>1. ASSUME landed'[t] = landed[t], NEW end \in Endings, Ends(t, end),
               end = "merged" => landed[t] = 1,
               end \in {"git", "lease_denied"} => landed[t] = 0,
               t \in pending' => landed[t] = 0 /\ end \in {"done", "error"}
        PROVE  Truth(t)'
    <2>1. CASE job'[t].pc = "over" /\ result' = [result EXCEPT ![t] = end]
      <3>1. result'[t] = end
        BY <1>0, <2>1
      <3> QED BY <1>1, <2>1, <3>1 DEF Truth
    <2>2. CASE job'[t].pc = "begin" /\ result' = result /\ end \in {"lease_denied", "git"}
      BY <1>0, <1>1, <2>2 DEF Truth
    <2> QED BY <1>1, <2>1, <2>2 DEF Ends
  <1>2. ASSUME landed'[t] = landed[t], result'[t] = result[t],
               job'[t].pc \in {"begin", "lease", "backoff", "work", "submit", "integrate"},
               landed[t] = 0, t \notin pending'
        PROVE  Truth(t)'
    BY <1>0, <1>2 DEF Truth
  <1>3. ASSUME UNCHANGED <<landed, result, pending>>, Rests(t)
        PROVE  Truth(t)'
    BY <1>0, <1>3 DEF Truth, Rests
  <1>4. ASSUME landed'[t] \in {0, 1}, result'[t] = result[t],
               NEW pc \in {"release", "contain"}, NEW end \in {"merged", "done", "git", "error"},
               GoesTo(t, pc, end),
               end = "git" => landed'[t] = 0, end = "merged" => landed'[t] = 1,
               t \in pending' => landed'[t] = 0 /\ end \in {"done", "error"}
        PROVE  Truth(t)'
    BY <1>0, <1>4 DEF Truth, GoesTo
  <1>5. "error" \in Endings /\ "lease_denied" \in Endings
    BY DEF Endings
  <1>6. CASE Dispatch(t)
    <2>1. UNCHANGED <<landed, result, pending>> /\ job'[t].pc = "begin" /\ job[t].pc = "queued"
      BY <1>6, DispatchDoes DEF Dispatch
    <2> QED BY <1>2, <2>1 DEF Truth
  <1>7. CASE Plan(t)
    <2>1. UNCHANGED landed /\ landed[t] = 0 /\ t \notin pending'
      BY <1>7 DEF Plan, At, Truth
    <2>2. CASE result' = result /\ job'[t].pc = IF Tasks[t] = << >> THEN "work" ELSE "lease"
      BY <1>2, <2>1, <2>2
    <2> QED BY <1>1, <1>5, <1>7, <2>1, <2>2, PlanDoes
  <1>8. CASE Acquire(t)
    <2>1. UNCHANGED landed /\ landed[t] = 0 /\ t \notin pending' /\ job[t].todo # << >>
      BY <1>8 DEF Acquire, At, Truth, Pending
    <2>2. CASE /\ result' = result
               /\ \/ job'[t].pc = IF Len(job[t].todo) = 1 THEN "work" ELSE "lease"
                  \/ job'[t].pc = "backoff"
      BY <1>2, <2>1, <2>2
    <2> QED BY <1>1, <1>5, <1>8, <2>1, <2>2, AcquireDoes
  <1>9. CASE BackOff(t)
    <2>1. UNCHANGED <<landed, pending>> /\ landed[t] = 0 /\ t \notin pending' /\ job[t].pc = "backoff"
      BY <1>9 DEF BackOff, At, Truth
    <2> QED BY <1>1, <1>3, <1>5, <1>9, <2>1, BackOffDoes
  <1>10. CASE Work(t)
    <2>1. UNCHANGED <<landed, result, pending>> /\ landed[t] = 0 /\ t \notin pending'
      BY <1>10 DEF Work, At, Truth
    <2> QED BY <1>2, <1>4, <1>10, <2>1, WorkDoes
  <1>11. CASE Submit(t)
    <2>1. UNCHANGED <<landed, result, pending>> /\ landed[t] = 0 /\ t \notin pending'
      BY <1>11 DEF Submit, At, Truth
    <2> QED BY <1>2, <1>11, <2>1, SubmitDoes
  <1>12. CASE Integrate(t)
    <2>1. UNCHANGED result /\ landed[t] = 0 /\ t \notin pending
      BY <1>12 DEF Integrate, At, Truth
    <2>2. ASSUME NEW lands \in BOOLEAN, Lands(t, lands), UNCHANGED pending,
                 GoesTo(t, "release", IF lands THEN "merged" ELSE "done")
          PROVE  Truth(t)'
      <3>1. landed'[t] = IF lands THEN 1 ELSE 0
        BY <1>0, <2>1, <2>2 DEF Lands
      <3>2. CASE lands
        BY <1>4, <2>1, <2>2, <3>1, <3>2
      <3>3. CASE ~lands
        BY <1>4, <2>1, <2>2, <3>1, <3>3
      <3> QED BY <3>2, <3>3
    <2>3. CASE UNCHANGED landed /\ GoesTo(t, "release", "done")
      BY <1>4, <2>1, <2>3
    <2>4. CASE UNCHANGED landed /\ GoesTo(t, "contain", "error")
      BY <1>4, <2>1, <2>4
    <2> QED BY <1>12, <2>2, <2>3, <2>4, IntegrateDoes
  <1>13. CASE Release(t)
    <2>1. /\ UNCHANGED <<landed, pending>> /\ job[t].pc = "release"
          /\ t \in pending => landed[t] = 0 /\ job[t].end \in {"done", "error"}
          /\ job[t].end \in Endings /\ job[t].end # "lease_denied"
          /\ job[t].end = "git" => landed[t] = 0
          /\ job[t].end = "merged" => landed[t] = 1
          /\ landed[t] \in {0, 1}
      BY <1>13 DEF Release, At, Truth, Endings
    <2>2. CASE GoesTo(t, "contain", "error") /\ UNCHANGED result
      BY <1>4, <2>1, <2>2
    <2> QED BY <1>1, <1>3, <1>13, <2>1, <2>2, ReleaseDoes
  <1>14. CASE Contain(t)
    <2>1. /\ UNCHANGED <<landed, pending>> /\ job[t].pc = "contain"
          /\ t \in pending => landed[t] = 0 /\ job[t].end \in {"done", "error"}
          /\ job[t].end \in Endings /\ job[t].end # "lease_denied"
          /\ job[t].end = "git" => landed[t] = 0
          /\ job[t].end = "merged" => landed[t] = 1
      BY <1>14 DEF Contain, At, Truth, Endings
    <2> QED BY <1>1, <1>3, <1>14, <2>1, ContainDoes
  <1> QED
    BY <1>6, <1>7, <1>8, <1>9, <1>10, <1>11, <1>12, <1>13, <1>14 DEF Step

(* A wave starts when those before it are over, and over is for good.      *)
LEMMA StepInTurn ==
  ASSUME TypeOK, InTurn, NEW t \in T, Step(t), Moves(t)
  PROVE  InTurn'
  <1>1. job[t].pc # "over"
    BY DEF Step, At, Dispatch, Plan, Acquire, BackOff, Work, Submit, Integrate, Release, Contain
  <1>2. job[t].pc # "queued" \/ \A u \in T : Wave[u] < Wave[t] => job[u].pc = "over"
    BY DEF Step, At, Dispatch, Plan, Acquire, BackOff, Work, Submit, Integrate, Release, Contain
  <1>3. \A u \in T : job[u].pc = "over" => job'[u].pc = "over"
    BY <1>1 DEF Moves
  <1> QED BY <1>2, <1>3 DEF InTurn, Moves

(* The other tasks keep their part through a step of t.                    *)
LEMMA OthersKeep ==
  ASSUME TypeOK, NEW t \in T, Frame(t), NEW u \in T, u # t, Books(u), Debts(u), Truth(u)
  PROVE  Books(u)' /\ Debts(u)' /\ Truth(u)'
  <1>1. /\ job'[u] = job[u] /\ landed'[u] = landed[u] /\ result'[u] = result[u]
        /\ lost \subseteq lost' /\ (u \in pending' => u \in pending)
    BY DEF Frame, Moves
  <1>2. Id(u)' = Id(u) /\ Claim(u)' = Claim(u) /\ Active(u)' = Active(u) /\ Owed(u)' = Owed(u)
    BY <1>1 DEF Id, Claim, Active, Owed
  <1>3. \A p \in Parcels : Claim(u) \in claims'[p] => Claim(u) \in claims[p]
    BY IdsDiffer DEF Frame
  <1> QED BY <1>1, <1>2, <1>3 DEF Books, Debts, Truth, Targets

(* The leftovers of the ids of t, through its own step.                    *)
LEMMA StepLeaks ==
  ASSUME TypeOK, broker, NothingLeaks, NEW t \in T, Frame(t), Settled(t)
  PROVE  NothingLeaks'
  <1>1. SUFFICES ASSUME NEW p \in Parcels, NEW c \in claims'[p]
                 PROVE  c[1] \in Rivals \cup lost' \cup {Id(u)' : u \in {v \in T : Active(v)'}}
    BY DEF NothingLeaks
  <1>2. lost \subseteq lost' /\ \A u \in T : u # t => Id(u)' = Id(u) /\ Active(u)' = Active(u)
    BY DEF Frame, Moves, Id, Active
  <1>3. CASE c = Claim(t)
    BY <1>3 DEF Settled, Claim
  <1>4. CASE c # Claim(t)
    <2>1. c \in claims[p]
      BY <1>4 DEF Frame
    <2>2. c[1] # Id(t)
      BY <1>4, <2>1, IdsDiffer
    <2>3. c[1] \in Rivals \cup lost \cup {Id(u) : u \in {v \in T : Active(v)}}
      BY <2>1 DEF NothingLeaks
    <2>4. CASE c[1] \in Rivals \cup lost
      BY <1>2, <2>4
    <2>5. ASSUME NEW u \in T, Active(u), c[1] = Id(u)
          PROVE  c[1] \in {Id(v)' : v \in {w \in T : Active(w)'}}
      <3>1. u # t
        BY <2>2, <2>5
      <3> QED BY <1>2, <2>5, <3>1
    <2> QED BY <2>3, <2>4, <2>5
  <1> QED BY <1>3, <1>4

LEMMA InitFleet == Init => FleetInv
  <1> SUFFICES ASSUME Init PROVE FleetInv
    OBVIOUS
  <1>1. Typed
    BY InitTyped
  <1>2. Single /\ InTurn /\ NothingLeaks /\ broker
    BY DEF Init, Single, InTurn, NothingLeaks
  <1>3. \A t \in T : Books(t) /\ Debts(t) /\ Truth(t)
    BY DEF Init, Books, Debts, Truth, Active, Elements
  <1> QED BY <1>1, <1>2, <1>3 DEF FleetInv

LEMMA NextFleet == FleetInv /\ [Next]_vars => FleetInv'
  <1> SUFFICES ASSUME FleetInv, [Next]_vars PROVE FleetInv'
    OBVIOUS
  <1>0. /\ TypeOK /\ Pending /\ Typed /\ Single /\ InTurn /\ NothingLeaks
        /\ \A t \in T : Books(t) /\ Debts(t) /\ Truth(t)
        /\ ~broker => \A t \in T : job[t].pc = "over"
    BY DEF FleetInv, Typed
  <1>1. Typed' /\ Single'
    BY <1>0, NextTyped, NextUsesLock, LockKeepsSingle
  <1>2. ASSUME NEW t \in T, Step(t) PROVE FleetInv'
    <2>1. Frame(t) /\ broker /\ broker'
      BY <1>0, <1>2, StepFrames DEF Frame
    <2>2. Books(t)' /\ Debts(t)' /\ Truth(t)' /\ Settled(t)
      BY <1>0, <1>2, <2>1, StepBooks, StepDebts, StepTruth
    <2>3. \A u \in T : u # t => Books(u)' /\ Debts(u)' /\ Truth(u)'
      BY <1>0, <2>1, OthersKeep
    <2>4. InTurn'
      BY <1>0, <1>2, <2>1, StepInTurn DEF Frame
    <2>5. NothingLeaks'
      BY <1>0, <2>1, <2>2, StepLeaks
    <2> QED BY <1>1, <2>1, <2>2, <2>3, <2>4, <2>5 DEF FleetInv
  <1>3. ASSUME UNCHANGED <<job, broker, lost>>, \A t \in T : Truth(t)',
               \A p \in Parcels : \A c \in claims'[p] : c \in claims[p] \/ c[1] \in Rivals
        PROVE  FleetInv'
    <2>1. \A t \in T : /\ Id(t)' = Id(t) /\ Claim(t)' = Claim(t) /\ Active(t)' = Active(t)
                       /\ Owed(t)' = Owed(t)
      BY <1>3 DEF Id, Claim, Active, Owed
    <2>2. \A t \in T, p \in Parcels : Claim(t) \in claims'[p] => Claim(t) \in claims[p]
      <3> TAKE t \in T, p \in Parcels
      <3>1. Claim(t)[1] \notin Rivals
        BY <1>0, IdsDiffer DEF Claim
      <3> QED BY <1>3, <3>1
    <2>3. \A t \in T : Debts(t)'
      BY <1>0, <1>3, <2>1, <2>2 DEF Debts
    <2>4. \A t \in T : Books(t)'
      BY <1>0, <1>3 DEF Books, Targets
    <2>5. InTurn'
      BY <1>0, <1>3 DEF InTurn
    <2>6. NothingLeaks'
      <3>1. SUFFICES ASSUME broker, NEW p \in Parcels, NEW c \in claims'[p]
                     PROVE  c[1] \in Rivals \cup lost \cup {Id(u) : u \in {v \in T : Active(v)}}
        BY <1>3, <2>1 DEF NothingLeaks
      <3> QED BY <1>0, <1>3, <3>1 DEF NothingLeaks
    <2> QED BY <1>0, <1>1, <1>3, <2>3, <2>4, <2>5, <2>6 DEF FleetInv
  <1>4. ASSUME UNCHANGED <<job, broker, lost, pending, landed, result>>,
               \A p \in Parcels : \A c \in claims'[p] : c \in claims[p] \/ c[1] \in Rivals
        PROVE  FleetInv'
    <2>1. \A t \in T : Truth(t)'
      BY <1>0, <1>4 DEF Truth
    <2> QED BY <1>3, <1>4, <2>1
  <1>5. ASSUME NEW a \in Agents, NEW p \in Parcels, Lapse(a, p) PROVE FleetInv'
    <2>1. /\ UNCHANGED <<job, broker, lost, pending, landed, result>>
          /\ \A q \in Parcels : claims'[q] \subseteq claims[q]
      BY <1>0, <1>5, LapseDoes
    <2> QED BY <1>4, <2>1
  <1>6. ASSUME NEW p \in Parcels, Retire(p) PROVE FleetInv'
    <2>1. /\ UNCHANGED <<job, broker, lost, pending, landed, result>>
          /\ \A q \in Parcels : claims'[q] \subseteq claims[q]
      BY <1>0, <1>6, RetireDoes
    <2> QED BY <1>4, <2>1
  <1>7. ASSUME NEW r \in Rivals, NEW p \in Parcels, RivalClaims(r, p) PROVE FleetInv'
    <2>1. /\ UNCHANGED <<job, broker, lost, pending, landed, result>>
          /\ \A q \in Parcels : claims'[q] \subseteq claims[q] \cup {<<r, "write">>}
      BY <1>0, <1>7, RivalDoes
    <2>2. <<r, "write">>[1] \in Rivals
      OBVIOUS
    <2> QED BY <1>4, <2>1, <2>2
  <1>8. ASSUME NEW t \in T, LandsLate(t) PROVE FleetInv'
    <2>1. /\ UNCHANGED <<claims, job, broker, lost, result>>
          /\ t \in pending /\ pending' = pending \ {t}
          /\ landed'[t] \in {landed[t], landed[t] + 1}
          /\ \A u \in T : u # t => landed'[u] = landed[u]
      BY <1>0, <1>8, LandsLateDoes
    <2>2. Truth(t)'
      <3>1. landed[t] = 0 /\ landed'[t] \in {0, 1}
        BY <1>0, <2>1 DEF Truth
      <3> QED BY <1>0, <2>1, <3>1 DEF Truth
    <2>3. \A u \in T : u # t => Truth(u)'
      BY <1>0, <2>1 DEF Truth
    <2> QED BY <1>3, <2>1, <2>2, <2>3
  <1>9. CASE Die
    <2>1. /\ \A t \in T : job'[t].pc = "over" /\ job'[t].todo = << >> /\ job'[t].got = << >>
          /\ ~broker' /\ UNCHANGED <<result, landed>>
          /\ pending' = pending \cup {t \in T : job[t].pc = "integrate"}
      <3>1. \A t \in T : job'[t] = Over(job[t])
        BY <1>9 DEF Die
      <3> QED BY <1>0, <1>9, <3>1, DieDoes, OverIs DEF TypeOK
    <2>2. \A t \in T : Debts(t)' /\ Books(t)' /\ Truth(t)'
      BY <1>0, <2>1 DEF Debts, Active, Books, Elements, Truth
    <2>3. InTurn' /\ NothingLeaks'
      BY <2>1 DEF InTurn, NothingLeaks
    <2> QED BY <1>1, <2>1, <2>2, <2>3 DEF FleetInv
  <1>10. CASE UNCHANGED vars
    BY <1>4, <1>10 DEF vars
  <1> QED BY <1>2, <1>5, <1>6, <1>7, <1>8, <1>9, <1>10 DEF Next

(* The inductive invariant holds.                                          *)
LEMMA FleetInvariant == Spec => []FleetInv
  BY InitFleet, NextFleet, PTL DEF Spec

-----------------------------------------------------------------------------
(* C11, whatever fails: what an attempt that is over still holds is there  *)
(* because one of its own calls failed.                                    *)
THEOREM LeasesReturned == Spec => []NothingLeaks
  <1>1. FleetInv => NothingLeaks
    BY DEF FleetInv
  <1> QED BY <1>1, FleetInvariant, PTL

(* Whatever is retried and whatever fails, work lands at most once and the *)
(* results tell the truth.                                                 *)
THEOREM Truthful == Spec => []ResultsTruthful
  <1>1. FleetInv => ResultsTruthful
    BY DEF FleetInv, Truth, ResultsTruthful
  <1> QED BY <1>1, FleetInvariant, PTL

(* group_schedulable does its job: the tasks of one run never deny each    *)
(* other a lease, for any list of tasks and any number of threads.         *)
THEOREM NoSelfDenial == Spec => DeniedByOthers
  <1> DEFINE Cause(t) == \E c \in claims[Head(job[t].todo)] : c[1] \in Rivals \cup lost
             Caused == \A t \in T : job[t].pc = "lease" /\ job'[t].pc = "backoff" => Cause(t)
  <1>1. ASSUME FleetInv, [Next]_vars PROVE Caused
    <2>0. TypeOK /\ Pending /\ Single /\ InTurn /\ NothingLeaks
          /\ \A t \in T : Books(t) /\ Debts(t)
      BY <1>1 DEF FleetInv, Typed
    <2>1. SUFFICES ASSUME NEW t \in T, job[t].pc = "lease", job'[t].pc = "backoff"
                   PROVE  Cause(t)
      OBVIOUS
    <2>2. Acquire(t)
      <3>1. ASSUME NEW u \in T, Step(u), u # t PROVE FALSE
        BY <2>0, <2>1, <3>1, StepFrames DEF Frame, Moves
      <3>2. ASSUME NEW a \in Agents, NEW p \in Parcels, Lapse(a, p) PROVE FALSE
        BY <2>1, <3>2 DEF Lapse
      <3>3. ASSUME NEW r \in Rivals, NEW p \in Parcels, RivalClaims(r, p) PROVE FALSE
        BY <2>1, <3>3 DEF RivalClaims
      <3>4. /\ ~Die /\ (\A p \in Parcels : ~Retire(p)) /\ \A u \in T : ~LandsLate(u)
        BY <2>0, <2>1, DieDoes DEF Retire, LandsLate
      <3>5. ~UNCHANGED vars
        BY <2>1 DEF vars
      <3>6. Step(t)
        BY <1>1, <3>1, <3>2, <3>3, <3>4, <3>5 DEF Next
      <3> QED
        BY <2>1, <3>6
        DEF Step, At, Dispatch, Plan, BackOff, Work, Submit, Integrate, Release, Contain
    <2> DEFINE h == Head(job[t].todo)
    <2>3. h \in Parcels /\ h \in Targets(t)
      <3>1. job[t].todo \in Seq(Parcels) /\ job[t].todo # << >>
        BY <2>0, <2>1, Fields DEF TypeOK, Pending
      <3>2. h \in Parcels /\ h \in Elements(job[t].todo)
        BY <3>1, Lists
      <3> QED BY <2>0, <3>2 DEF Books
    <2>4. broker /\ \E c \in claims[h] : c # Claim(t)
      <3>1. job[t].todo # << >>
        BY <2>0, <2>1 DEF Pending
      <3> QED BY <2>0, <2>1, <2>2, <3>1, AcquireDoes DEF Ends, Acquire, At
    <2>5. PICK c \in claims[h] : c # Claim(t)
      BY <2>4
    <2> HIDE DEF h
    <2>6. c[1] \in Agents /\ c = <<c[1], "write">> /\ c[1] # Id(t)
      BY <2>0, <2>3, <2>5, IdsDiffer
    <2>7. c[1] \in Rivals \cup lost \cup {Id(u) : u \in {v \in T : Active(v)}}
      BY <2>0, <2>3, <2>4, <2>5 DEF NothingLeaks
    <2>8. ASSUME NEW u \in T, Active(u), c[1] = Id(u), c[1] \notin lost PROVE FALSE
      <3>1. u # t /\ c = Claim(u)
        BY <2>6, <2>8 DEF Claim
      <3>2. h \in Owed(u)
        BY <2>0, <2>3, <2>5, <2>8, <3>1 DEF Debts
      <3>3. h \in Targets(u)
        BY <2>0, <3>2 DEF Owed, Books
      <3>4. Wave[u] = Wave[t]
        <4>1. /\ job[t].pc # "queued" /\ job[t].pc # "over"
              /\ job[u].pc # "queued" /\ job[u].pc # "over"
          BY <2>1, <2>8 DEF Active
        <4>2. ~(Wave[u] < Wave[t]) /\ ~(Wave[t] < Wave[u])
          BY <2>0, <4>1 DEF InTurn
        <4>3. Wave[u] \in Nat /\ Wave[t] \in Nat
          BY WavesShareNothing
        <4> QED BY <4>2, <4>3
      <3>5. Schedulable(t, u)
        BY <3>1, <3>4, WavesShareNothing
      <3> QED BY <2>3, <3>3, <3>5 DEF Schedulable
    <2>9. c[1] \in Rivals \cup lost
      BY <2>7, <2>8
    <2> QED BY <2>5, <2>9 DEF h
  <1>2. Caused => [Caused]_vars
    OBVIOUS
  <1> QED BY <1>1, FleetInvariant, PTL DEF Spec, DeniedByOthers

-----------------------------------------------------------------------------
(* An attempt keeps what it leased until it gives it back, unless the      *)
(* lease is cut.                                                           *)
Keeps(t, p) == Claim(t) \in claims[p] \/ <<Id(t), p>> \in cut

Holding ==
  \A t \in T : job[t].pc \in {"lease", "work", "submit", "integrate"} =>
    \A p \in Elements(job[t].got) : Keeps(t, p)

(* A step takes no lease from an attempt that goes on.                     *)
LEMMA StepHolds ==
  ASSUME FleetInv, Holding, NEW t \in T, Step(t)
  PROVE  Holding'
  <1>0. TypeOK /\ Pending /\ Books(t) /\ Frame(t)
    BY StepFrames DEF FleetInv, Typed
  <1>1. job[t].todo \in Seq(Parcels) /\ job[t].got \in Seq(Parcels)
    BY <1>0, Fields DEF TypeOK
  <1>2. \A u \in T : Elements(job[u].got) \subseteq Parcels
    <2> TAKE u \in T
    <2>1. Elements(job[u].got) \subseteq Targets(u)
      BY DEF FleetInv, Books
    <2> QED BY <2>1, FleetAssumption DEF Targets, T
  <1>3. ASSUME NEW u \in T, u # t, (job[u].pc \in {"lease", "work", "submit", "integrate"})',
               NEW p \in Elements(job[u].got)'
        PROVE  Keeps(u, p)'
    <2>1. /\ job'[u] = job[u] /\ Claim(u)' = Claim(u) /\ Claim(u) # Claim(t)
          /\ Id(u)' = Id(u) /\ Id(u) # Id(t)
      BY <1>0, <1>3, IdsDiffer DEF Frame, Moves, Id, Claim
    <2>2. p \in Parcels /\ Keeps(u, p)
      BY <1>2, <1>3, <2>1 DEF Holding
    <2>3. Claim(u) \in claims[p] => Claim(u) \in claims'[p]
      BY <1>0, <2>1, <2>2 DEF Frame
    <2>4. <<Id(u), p>> \in cut => <<Id(u), p>> \in cut'
      BY <1>0, <2>1 DEF Frame
    <2> QED BY <2>1, <2>2, <2>3, <2>4 DEF Keeps
  <1>4. ASSUME (job[t].pc \in {"lease", "work", "submit", "integrate"})',
               NEW p \in Elements(job[t].got)'
        PROVE  Keeps(t, p)'
    <2>1. CASE Plan(t)
      <3>1. job[t].got = << >>
        BY <1>0, <2>1 DEF Books, Plan, At
      <3>2. job'[t].got = << >>
        BY <1>0, <1>4, <2>1, <3>1, PlanDoes DEF Ends
      <3> QED BY <1>4, <3>2 DEF Elements
    <2>2. CASE Acquire(t)
      <3> DEFINE h == Head(job[t].todo)
      <3>1. job[t].todo # << >> /\ job[t].pc = "lease"
        BY <1>0, <2>2 DEF Pending, Acquire, At
      <3>2. /\ h \in Parcels /\ Gets(t, h) /\ job'[t].attempt = job[t].attempt
            /\ job'[t].got = Append(job[t].got, h) /\ UNCHANGED cut
        BY <1>0, <1>4, <2>2, <3>1, AcquireDoes DEF Ends
      <3> HIDE DEF h
      <3>3. Id(t)' = Id(t) /\ Claim(t)' = Claim(t) /\ p \in Elements(job[t].got) \cup {h}
        BY <1>1, <1>4, <3>2, Lists DEF Claim, Id
      <3>4. \A q \in Elements(job[t].got) : Keeps(t, q) /\ q \in Parcels
        BY <1>2, <3>1 DEF Holding
      <3>5. Claim(t) \in claims'[h] /\ \A q \in Parcels : q # h => claims'[q] = claims[q]
        BY <3>2 DEF Gets
      <3> QED BY <3>2, <3>3, <3>4, <3>5 DEF Keeps
    <2>3. CASE Work(t) \/ Submit(t)
      <3>1. /\ job'[t].attempt = job[t].attempt /\ job'[t].got = job[t].got
            /\ UNCHANGED <<claims, cut>> /\ job[t].pc \in {"work", "submit"}
        BY <1>0, <1>4, <2>3, WorkDoes, SubmitDoes DEF GoesTo, Work, Submit
      <3> QED BY <1>4, <3>1 DEF Claim, Id, Holding, Keeps
    <2>4. ~Dispatch(t) /\ ~Integrate(t) /\ ~BackOff(t) /\ ~Release(t) /\ ~Contain(t)
      <3>1. ~Dispatch(t)
        BY <1>0, <1>4, DispatchDoes
      <3>2. ~Integrate(t)
        BY <1>0, <1>4, IntegrateDoes DEF GoesTo
      <3>3. ~BackOff(t)
        BY <1>0, <1>4, BackOffDoes DEF Ends, Rests
      <3>4. ~Release(t)
        BY <1>0, <1>4, ReleaseDoes DEF Ends, Rests, GoesTo
      <3>5. ~Contain(t)
        BY <1>0, <1>4, ContainDoes DEF Ends, Rests
      <3> QED BY <3>1, <3>2, <3>3, <3>4, <3>5
    <2> QED BY <2>1, <2>2, <2>3, <2>4 DEF Step
  <1> QED BY <1>3, <1>4 DEF Holding

(* Whatever fails, an agent is alone on every parcel it declared, from its *)
(* first edit until the answer about its branch, but for the leases that a *)
(* deletion of the file or a stalled heartbeat cut.                        *)
THEOREM AgentsWorkAlone == Spec => []WorksAlone
  <1>1. Init => Holding
    BY DEF Init, Holding
  <1>2. ASSUME FleetInv, Holding, [Next]_vars PROVE Holding'
    <2>0. TypeOK /\ (~broker => \A t \in T : job[t].pc = "over")
      BY <1>2 DEF FleetInv, Typed
    <2>1. ASSUME NEW t \in T, Step(t) PROVE Holding'
      BY <1>2, <2>1, StepHolds
    <2>2. \A t \in T : Elements(job[t].got) \subseteq Parcels
      <3> TAKE t \in T
      <3>1. Elements(job[t].got) \subseteq Targets(t)
        BY <1>2 DEF FleetInv, Books
      <3> QED BY <3>1, FleetAssumption DEF Targets, T
    <2>3. ASSUME UNCHANGED job, cut \subseteq cut',
                 \A t \in T : Alive(Id(t)) =>
                   \A p \in Parcels : Claim(t) \in claims[p] =>
                     Claim(t) \in claims'[p] \/ <<Id(t), p>> \in cut'
          PROVE  Holding'
      <3>1. SUFFICES ASSUME NEW t \in T,
                            job[t].pc \in {"lease", "work", "submit", "integrate"},
                            NEW p \in Elements(job[t].got)
                     PROVE  Claim(t) \in claims'[p] \/ <<Id(t), p>> \in cut'
        BY <2>3 DEF Holding, Keeps, Claim, Id
      <3>2. Alive(Id(t)) /\ p \in Parcels
        BY <2>0, <2>2, <3>1 DEF Alive, Active
      <3>3. Keeps(t, p)
        BY <1>2, <3>1 DEF Holding
      <3> QED BY <2>3, <3>2, <3>3 DEF Keeps
    <2>4. ASSUME NEW a \in Agents, NEW q \in Parcels, Lapse(a, q) PROVE Holding'
      <3>1. /\ UNCHANGED job /\ claims'[q] = claims[q] \ {<<a, "write">>}
            /\ \A p \in Parcels : p # q => claims'[p] = claims[p]
            /\ cut \subseteq cut' /\ (Alive(a) => <<a, q>> \in cut')
        BY <2>0, <2>4, LapseDoes
      <3>2. ASSUME NEW t \in T, Alive(Id(t)), NEW p \in Parcels, Claim(t) \in claims[p]
            PROVE  Claim(t) \in claims'[p] \/ <<Id(t), p>> \in cut'
        <4>1. CASE p = q /\ a = Id(t)
          BY <3>1, <3>2, <4>1
        <4>2. CASE p # q \/ a # Id(t)
          BY <3>1, <3>2, <4>2 DEF Claim
        <4> QED BY <4>1, <4>2
      <3> QED BY <2>3, <3>1, <3>2
    <2>5. ASSUME NEW q \in Parcels, Retire(q) PROVE Holding'
      <3>1. /\ UNCHANGED job /\ cut \subseteq cut'
            /\ \A p \in Parcels : p # q => claims'[p] = claims[p]
            /\ \A c \in claims[q] : Alive(c[1]) => <<c[1], q>> \in cut'
        BY <2>0, <2>5, RetireDoes
      <3>2. ASSUME NEW t \in T, Alive(Id(t)), NEW p \in Parcels, Claim(t) \in claims[p]
            PROVE  Claim(t) \in claims'[p] \/ <<Id(t), p>> \in cut'
        <4>1. Claim(t)[1] = Id(t)
          BY DEF Claim
        <4> QED BY <3>1, <3>2, <4>1
      <3> QED BY <2>3, <3>1, <3>2
    <2>6. ASSUME NEW r \in Rivals, NEW q \in Parcels, RivalClaims(r, q) PROVE Holding'
      <3>1. /\ UNCHANGED <<job, cut>> /\ claims'[q] = claims[q] \cup {<<r, "write">>}
            /\ \A p \in Parcels : p # q => claims'[p] = claims[p]
        BY <2>0, <2>6, RivalDoes
      <3> QED BY <2>3, <3>1
    <2>7. ASSUME NEW t \in T, LandsLate(t) PROVE Holding'
      BY <2>3, <2>7 DEF LandsLate
    <2>8. CASE Die
      BY <2>0, <2>8, DieDoes DEF Holding
    <2>9. CASE UNCHANGED vars
      BY <2>3, <2>9 DEF vars
    <2> QED BY <1>2, <2>1, <2>4, <2>5, <2>6, <2>7, <2>8, <2>9 DEF Next
  <1>3. FleetInv /\ Holding => WorksAlone
    <2> SUFFICES ASSUME FleetInv, Holding, NEW t \in T, broker,
                        job[t].pc \in {"work", "submit", "integrate"}, NEW p \in Targets(t),
                        <<Id(t), p>> \notin cut
                 PROVE  claims[p] = {Claim(t)}
      BY DEF WorksAlone
    <2>1. p \in Parcels
      BY FleetAssumption DEF Targets, T
    <2>2. Claim(t) \in claims[p]
      BY DEF FleetInv, Books, Holding, Keeps
    <2> QED BY <2>1, <2>2 DEF FleetInv, Single
  <1> QED BY <1>1, <1>2, <1>3, FleetInvariant, PTL DEF Spec
=============================================================================
