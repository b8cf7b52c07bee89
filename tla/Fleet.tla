------------------------------- MODULE Fleet -------------------------------
(***************************************************************************)
(* A broker and its agents: run, group_schedulable and the retry loops of  *)
(* coordinator/broker.py over run_agent and _Heartbeater of                *)
(* agent/runner.py.                                                        *)
(*                                                                         *)
(* The lease table is the abstract one, ParcelLock, which Leases is shown  *)
(* to implement.  An agent id is an attempt of a task ({task}-attempt-{n}).*)
(* A claim ends by release, when its time-to-live lapses (not under a      *)
(* holder that beats), or when a merge that deletes the file lands: then   *)
(* the integrator deletes its leases, whoever works under them.  Every     *)
(* agent takes write leases, the broker's default (at file granularity     *)
(* nothing upgrades them).                                                 *)
(***************************************************************************)
EXTENDS Naturals, Sequences, FiniteSetsExt

CONSTANTS
  Parcels,      \* whole-file parcels
  Tasks,        \* the caller's list: the parcels of every task, in order
  MaxAttempts,  \* Task.max_attempts
  NAgents,      \* run's n_agents
  Rivals,       \* agents that do not work for this broker
  Deletes,      \* parcels whose file a landed merge may delete
  Faults,       \* which calls may fail
  MaxFailures   \* bound: calls that fail

(* call: reaping, resolving or declaring intent raises; lease, release,    *)
(* reply: the answer of /lease, /release or /integrate is lost or an       *)
(* error; git: a GitOpsError; work: any other exception of the edit;       *)
(* stall: an agent misses its heartbeats for a whole time-to-live.         *)
FaultKinds == {"call", "lease", "release", "reply", "git", "work", "stall"}

T == DOMAIN Tasks
Ids == T \X (1..MaxAttempts)
Agents == Rivals \cup Ids

ASSUME FleetAssumption ==
  /\ Tasks \in Seq(Seq(Parcels))
  /\ MaxAttempts \in Nat \ {0} /\ NAgents \in Nat \ {0} /\ MaxFailures \in Nat
  /\ Rivals \cap Ids = {}
  /\ Deletes \subseteq Parcels
  /\ Faults \subseteq FaultKinds

VARIABLES
  claims,    \* the standing claims of every parcel
  job,       \* where every task is
  result,    \* the status recorded for every task
  mutex,     \* the lock of _SerializingIntegrateClient: a task, or 0
  broker,    \* the broker process is alive
  failures,  \* calls that failed so far
  pending,   \* tasks whose caller gave up, the server being still at work
  landed,    \* history: how often every task's work landed on the trunk
  lost,      \* history: agents a lease or release call of which failed
  cut        \* history: the leases that ended under an attempt that goes on

vars == <<claims, job, result, mutex, broker, failures, pending, landed, lost, cut>>

Lock == INSTANCE ParcelLock WITH Modes <- {"write"}

(* again: the one retry after a GitOpsError is spent; todo: the parcels    *)
(* still to lease or to release; got: those leased; end: how the attempt   *)
(* ends.                                                                   *)
Acquiring == {"begin", "lease", "backoff"}
Beating   == {"work", "submit", "integrate", "release", "contain"}
Endings   == {"none", "merged", "done", "lease_denied", "git", "error"}
Job == [pc : {"queued", "over"} \cup Acquiring \cup Beating,
        attempt : 1..MaxAttempts, again : BOOLEAN,
        todo : Seq(Parcels), got : Seq(Parcels), end : Endings]

TypeOK ==
  /\ claims \in [Parcels -> SUBSET (Agents \X {"write"})]
  /\ job \in [T -> Job]
  /\ result \in [T -> Endings]
  /\ mutex \in T \cup {0}
  /\ broker \in BOOLEAN
  /\ failures \in 0..MaxFailures
  /\ pending \subseteq T
  /\ landed \in [T -> Nat]
  /\ lost \subseteq Agents
  /\ cut \subseteq Agents \X Parcels

Init ==
  /\ claims = [p \in Parcels |-> {}]
  /\ job = [t \in T |-> [pc |-> "queued", attempt |-> 1, again |-> FALSE,
                         todo |-> << >>, got |-> << >>, end |-> "none"]]
  /\ result = [t \in T |-> "none"]
  /\ mutex = 0 /\ broker = TRUE /\ failures = 0
  /\ pending = {} /\ landed = [t \in T |-> 0] /\ lost = {} /\ cut = {}

-----------------------------------------------------------------------------
Targets(t) == {Tasks[t][i] : i \in DOMAIN Tasks[t]}

(* Mutant: any two tasks may run together.                                 *)
SchedulableAlways(t, u) == TRUE

(* schedulable, at file granularity: no file in common.                    *)
Schedulable(t, u) == Targets(t) \cap Targets(u) = {}

(* group_schedulable: a task joins the first wave it is schedulable with   *)
(* all of, or starts a new one.                                            *)
Wave[t \in T] ==
  Min({w \in 1..t : \A u \in 1..(t - 1) : Wave[u] = w => Schedulable(t, u)})

Id(t) == <<t, job[t].attempt>>
Claim(t) == <<Id(t), "write">>
At(t, pc) == broker /\ job[t].pc = pc
Set(t, j) == job' = [job EXCEPT ![t] = j]
Active(t) == job[t].pc \notin {"queued", "over"}

Fails(kind) ==
  /\ kind \in Faults
  /\ failures < MaxFailures
  /\ failures' = failures + 1

(* A failed call: the table may have changed before the answer was lost.   *)
Unanswered(t, kind) == Fails(kind) /\ lost' = lost \cup {Id(t)}

Over(j) == [j EXCEPT !.pc = "over", !.todo = << >>, !.got = << >>]
Begin(j) == [j EXCEPT !.pc = "begin", !.todo = << >>, !.got = << >>, !.end = "none"]

(* run: the waves one after the other, the tasks of a wave on a pool of    *)
(* min(n_agents, len(wave)) threads that take them in order.               *)
Dispatch(t) ==
  /\ At(t, "queued")
  /\ \A u \in T : Wave[u] < Wave[t] => job[u].pc = "over"
  /\ \A u \in 1..(t - 1) : Wave[u] = Wave[t] => job[u].pc # "queued"
  /\ Cardinality({u \in T : Active(u)}) < NAgents
  /\ Set(t, Begin(job[t]))
  /\ UNCHANGED <<claims, result, mutex, broker, failures, pending, landed, lost, cut>>

(* Mutant: every error is retried.                                         *)
RetryAnyError(t, end) ==
  LET j == job[t]
  IN  CASE end = "lease_denied" /\ j.attempt < MaxAttempts ->
             Begin([j EXCEPT !.attempt = @ + 1])
        [] end \in {"git", "error"} /\ ~j.again ->
             Begin([j EXCEPT !.attempt = 1, !.again = TRUE])
        [] OTHER -> Over(j)

(* Mutant: a denied task is tried until it gets its leases.                *)
RetryDenied(t, end) ==
  LET j == job[t]
  IN  CASE end = "lease_denied" ->
             Begin([j EXCEPT !.attempt = IF @ < MaxAttempts THEN @ + 1 ELSE 1])
        [] end = "git" /\ ~j.again ->
             Begin([j EXCEPT !.attempt = 1, !.again = TRUE])
        [] OTHER -> Over(j)

(* _run_task_with_retries: a denied task is tried again under a fresh id.  *)
(* _run_task_contained: the whole of it is tried once more after a         *)
(* GitOpsError, under the ids of the first time.                           *)
Retry(t, end) ==
  LET j == job[t]
  IN  CASE end = "lease_denied" /\ j.attempt < MaxAttempts ->
             Begin([j EXCEPT !.attempt = @ + 1])
        [] end = "git" /\ ~j.again ->
             Begin([j EXCEPT !.attempt = 1, !.again = TRUE])
        [] OTHER -> Over(j)

(* An attempt is over; the heartbeat stops and the worktree goes.          *)
Conclude(t, end) ==
  LET j == Retry(t, end)
  IN  /\ Set(t, j)
      /\ result' = IF j.pc = "over" THEN [result EXCEPT ![t] = end] ELSE result
      /\ cut' = cut \ ({Id(t)} \X Parcels)

-----------------------------------------------------------------------------
(* The reaper pass, resolve_task, GET /parcels and /events, POST /intent.  *)
Plan(t) ==
  /\ At(t, "begin")
  /\ \/ /\ Set(t, [job[t] EXCEPT !.pc = IF Tasks[t] = << >> THEN "work" ELSE "lease",
                                 !.todo = Tasks[t]])
        /\ UNCHANGED <<result, failures, cut>>
     \/ Fails("call") /\ Conclude(t, "error")
  /\ UNCHANGED <<claims, mutex, broker, pending, landed, lost>>

(* The leases come one by one; with the last the heartbeat starts.         *)
Granted(t) ==
  LET j == job[t]
      p == Head(j.todo)
  IN  /\ Lock!Claim(p, Claim(t))
      /\ Set(t, [j EXCEPT !.got = Append(@, p), !.todo = Tail(@),
                          !.pc = IF Len(j.todo) = 1 THEN "work" ELSE "lease"])

Denied(t) ==
  LET j == job[t]
  IN  /\ \E c \in claims[Head(j.todo)] : ~Lock!Compatible(Claim(t), c)
      /\ Set(t, [j EXCEPT !.pc = "backoff", !.todo = j.got])
      /\ UNCHANGED claims

(* A call that raises is outside the containment of run_agent: nothing is  *)
(* given back.                                                             *)
Acquire(t) ==
  /\ At(t, "lease")
  /\ \/ (Granted(t) \/ Denied(t)) /\ UNCHANGED <<result, failures, lost, cut>>
     \/ /\ Unanswered(t, "lease")
        /\ Lock!Claim(Head(job[t].todo), Claim(t)) \/ UNCHANGED claims
        /\ Conclude(t, "error")
  /\ UNCHANGED <<mutex, broker, pending, landed>>

(* Release of the first of the leases still to be given back.              *)
GiveBack(t) ==
  claims' = [claims EXCEPT ![Head(job[t].todo)] = @ \ {Claim(t)}]

Rest(t) == [job[t] EXCEPT !.todo = Tail(@)]

(* After a denial: every lease held goes back.                             *)
BackOff(t) ==
  /\ At(t, "backoff")
  /\ \/ /\ job[t].todo # << >>
        /\ GiveBack(t) /\ Set(t, Rest(t))
        /\ UNCHANGED <<result, failures, lost, cut>>
     \/ /\ job[t].todo # << >>
        /\ Unanswered(t, "release") /\ (GiveBack(t) \/ UNCHANGED claims)
        /\ Conclude(t, "error")
     \/ /\ job[t].todo = << >>
        /\ Conclude(t, "lease_denied")
        /\ UNCHANGED <<claims, failures, lost>>
  /\ UNCHANGED <<mutex, broker, pending, landed>>

-----------------------------------------------------------------------------
Contained(t, end) ==
  [job[t] EXCEPT !.pc = "contain", !.todo = job[t].got, !.end = end]

(* add_worktree, the mutator, commit_all, POST /parcel/update.             *)
Work(t) ==
  /\ At(t, "work")
  /\ \/ Set(t, [job[t] EXCEPT !.pc = "submit"]) /\ UNCHANGED failures
     \/ Fails("git") /\ Set(t, Contained(t, "git"))
     \/ Fails("work") /\ Set(t, Contained(t, "error"))
  /\ UNCHANGED <<claims, result, mutex, broker, pending, landed, lost, cut>>

(* Mutant: the leases go back before the branch is handed in.              *)
SubmitUnleased(t) ==
  /\ At(t, "submit")
  /\ mutex = 0
  /\ mutex' = t
  /\ Set(t, [job[t] EXCEPT !.pc = "integrate"])
  /\ claims' = [p \in Parcels |-> claims[p] \ {Claim(t)}]
  /\ UNCHANGED <<result, broker, failures, pending, landed, lost, cut>>

(* client.integrate, one at a time.                                        *)
Submit(t) ==
  /\ At(t, "submit")
  /\ mutex = 0
  /\ mutex' = t
  /\ Set(t, [job[t] EXCEPT !.pc = "integrate"])
  /\ UNCHANGED <<claims, result, broker, failures, pending, landed, lost, cut>>

Lands(t, lands) == landed' = [landed EXCEPT ![t] = IF lands THEN @ + 1 ELSE @]

(* The branch lands or is turned down, and the answer says which; or the   *)
(* answer is an exception or a response without a status, and the server   *)
(* goes on by itself.                                                      *)
Integrate(t) ==
  LET back(end) == [job[t] EXCEPT !.pc = "release", !.todo = job[t].got, !.end = end]
  IN  /\ At(t, "integrate")
      /\ mutex' = 0
      /\ \/ /\ \E lands \in BOOLEAN :
                /\ Lands(t, lands)
                /\ Set(t, back(IF lands THEN "merged" ELSE "done"))
            /\ UNCHANGED <<failures, pending>>
         \/ /\ Fails("reply")
            /\ Set(t, back("done")) \/ Set(t, Contained(t, "error"))
            /\ pending' = pending \cup {t}
            /\ UNCHANGED landed
      /\ UNCHANGED <<claims, result, broker, lost, cut>>

(* The server ends an /integrate nobody waits for, at any time.            *)
LandsLate(t) ==
  /\ t \in pending
  /\ pending' = pending \ {t}
  /\ \E lands \in BOOLEAN : Lands(t, lands)
  /\ UNCHANGED <<claims, job, result, mutex, broker, failures, lost, cut>>

(* Every lease goes back, and the run ends.                                *)
Release(t) ==
  /\ At(t, "release")
  /\ \/ /\ job[t].todo # << >>
        /\ GiveBack(t) /\ Set(t, Rest(t))
        /\ UNCHANGED <<result, failures, lost, cut>>
     \/ /\ job[t].todo # << >>
        /\ Unanswered(t, "release") /\ (GiveBack(t) \/ UNCHANGED claims)
        /\ Set(t, Contained(t, "error"))
        /\ UNCHANGED <<result, cut>>
     \/ /\ job[t].todo = << >>
        /\ Conclude(t, job[t].end)
        /\ UNCHANGED <<claims, failures, lost>>
  /\ UNCHANGED <<mutex, broker, pending, landed>>

(* Mutant: a contained error keeps its leases.                             *)
ContainKeeps(t) ==
  /\ At(t, "contain")
  /\ Conclude(t, job[t].end)
  /\ UNCHANGED <<claims, mutex, broker, failures, pending, landed, lost>>

(* C11: every lease goes back as far as it can, then the error is reported.*)
Contain(t) ==
  /\ At(t, "contain")
  /\ \/ /\ job[t].todo # << >>
        /\ Set(t, Rest(t))
        /\ \/ GiveBack(t) /\ UNCHANGED <<failures, lost>>
           \/ Unanswered(t, "release") /\ (GiveBack(t) \/ UNCHANGED claims)
        /\ UNCHANGED <<result, cut>>
     \/ /\ job[t].todo = << >>
        /\ Conclude(t, job[t].end)
        /\ UNCHANGED <<claims, failures, lost>>
  /\ UNCHANGED <<mutex, broker, pending, landed>>

-----------------------------------------------------------------------------
(* Mutant: the heartbeat of an attempt is never stopped.                   *)
AliveForEver(a) ==
  a \in Ids /\ broker /\ job[a[1]].pc # "queued"

(* The holder beats, or has only just asked for the lease.                 *)
Alive(a) ==
  \E t \in T : broker /\ a = Id(t) /\ Active(t)

(* The time-to-live of a claim runs out.                                   *)
Lapse(a, p) ==
  /\ <<a, "write">> \in claims[p]
  /\ IF Alive(a) THEN Fails("stall") /\ cut' = cut \cup {<<a, p>>}
                 ELSE UNCHANGED <<failures, cut>>
  /\ claims' = [claims EXCEPT ![p] = @ \ {<<a, "write">>}]
  /\ UNCHANGED <<job, result, mutex, broker, pending, landed, lost>>

(* A merge of anybody's lands that deletes the file: the leases go with    *)
(* the parcel's row, and the parcel can be leased anew.                    *)
Retire(p) ==
  /\ p \in Deletes
  /\ claims' = [claims EXCEPT ![p] = {}]
  /\ cut' = cut \cup {<<c[1], p>> : c \in {d \in claims[p] : Alive(d[1])}}
  /\ UNCHANGED <<job, result, mutex, broker, failures, pending, landed, lost>>

(* Somebody else takes a lease; theirs end as they like.                   *)
RivalClaims(r, p) ==
  /\ Lock!Claim(p, <<r, "write">>)
  /\ UNCHANGED <<job, result, mutex, broker, failures, pending, landed, lost, cut>>

(* The broker process dies with all its threads; the server goes on.       *)
Die ==
  /\ broker
  /\ broker' = FALSE
  /\ job' = [t \in T |-> Over(job[t])]
  /\ mutex' = 0
  /\ pending' = pending \cup {t \in T : job[t].pc = "integrate"}
  /\ cut' = {}
  /\ UNCHANGED <<claims, result, failures, landed, lost>>

Step(t) == \/ Dispatch(t) \/ Plan(t) \/ Acquire(t) \/ BackOff(t)
           \/ Work(t) \/ Submit(t) \/ Integrate(t) \/ Release(t) \/ Contain(t)

Next == \/ \E t \in T : Step(t)
        \/ \E a \in Agents, p \in Parcels : Lapse(a, p)
        \/ \E t \in T : LandsLate(t)
        \/ \E r \in Rivals, p \in Parcels : RivalClaims(r, p)
        \/ \E p \in Parcels : Retire(p)
        \/ Die

Spec == Init /\ [][Next]_vars

(* Every thread of a live broker takes its next step, and what nobody      *)
(* renews lapses in time.                                                  *)
Expiry == \E a \in Ids, p \in Parcels : ~Alive(a) /\ Lapse(a, p)
Fairness == (\A t \in T : WF_vars(Step(t))) /\ WF_vars(Expiry)

FairSpec == Spec /\ Fairness

-----------------------------------------------------------------------------
(* PROPERTIES                                                              *)

(* From its first edit until the answer about its branch an agent is alone *)
(* on every parcel it declared (run_agent keeps the heartbeat going across *)
(* /integrate for this): no other agent, of this broker or not, holds a    *)
(* lease there.  Only two things cut its lease: a deletion of the file     *)
(* that lands, and heartbeats that fail for a whole time-to-live.  (When   *)
(* the answer is lost the branch may land after the leases went back.)     *)
WorksAlone ==
  \A t \in T :
    broker /\ job[t].pc \in {"work", "submit", "integrate"} =>
      \A p \in Targets(t) : <<Id(t), p>> \in cut \/ claims[p] = {Claim(t)}

(* C11: an attempt gives every lease back on every way out.  What an       *)
(* attempt that is over still holds is there because one of its own calls  *)
(* failed.                                                                 *)
NothingLeaks ==
  broker => \A p \in Parcels : \A c \in claims[p] :
              c[1] \in Rivals \cup lost \cup {Id(t) : t \in {u \in T : Active(u)}}

(* Work lands at most once, whatever is retried and however late the       *)
(* server ends an /integrate whose caller gave up; a task reported as      *)
(* merged has landed, and one reported as denied has not.                  *)
ResultsTruthful ==
  \A t \in T : /\ landed[t] <= 1
               /\ result[t] = "merged" => landed[t] = 1
               /\ result[t] = "lease_denied" => landed[t] = 0

(* The tasks of one run never deny each other a lease (group_schedulable): *)
(* a denial is due to an agent of somebody else, or to a lease that an     *)
(* attempt could not give back.                                            *)
DeniedByOthers ==
  [][\A t \in T : job[t].pc = "lease" /\ job'[t].pc = "backoff" =>
       \E c \in claims[Head(job[t].todo)] : c[1] \in Rivals \cup lost]_vars

(* run returns a result for every task: whatever fails and whoever holds   *)
(* the leases, no retry loop and no wait goes on for ever.                 *)
RunEnds == <>(~broker \/ \A t \in T : result[t] # "none")

(* In the end no lease of the fleet is left, those of a broker that died   *)
(* and those of a call that failed included.                               *)
LeasesEnd ==
  <>[](\A p \in Parcels : \A c \in claims[p] : c[1] \in Rivals)
=============================================================================
