------------------------------- MODULE Leases -------------------------------
(***************************************************************************)
(* The lease table of the blackboard: blackboard/leases.py (acquire,       *)
(* heartbeat, release), the reaping half of coordinator/reaper.py and the  *)
(* deletion of leases by classifier/store.py retire_rows.                  *)
(*                                                                         *)
(* Every statement of the source runs in autocommit mode on the connection *)
(* of its own request, so the atomic steps here are SQL statements, not    *)
(* handlers: an acquire is up to four steps (refresh UPDATE, quota COUNT,  *)
(* parcel INSERT OR IGNORE, compare-and-set INSERT) and any statement of   *)
(* any other request, a reaper pass, a retirement or a tick of the clock   *)
(* can fall between two of them.                                           *)
(*                                                                         *)
(* now is SQLite's clock.  The lease events a property reads are the ends  *)
(* of leases (`released', `reaped'); the audit events nothing reads        *)
(* (lease_granted, lease_denied, heartbeat) are left out.                  *)
(***************************************************************************)
EXTENDS Naturals, FiniteSets

CONSTANTS
  Agents,      \* agent ids
  Slots,       \* client threads; each has at most one request in flight
  Owner,       \* the agent each slot speaks for
  Parcels,     \* parcel ids a request may name
  Malformed,   \* the ones _parcel_id_problem rejects
  Modes,       \* lease modes requested
  Ttls,        \* times-to-live requested (models.py requires ttl > 0)
  Reapers,     \* loops that call reap_once: the server's, the broker's
  Skew,        \* how far Python's clock may run ahead of SQLite's
  MaxLeases,   \* SWARMSYNC_MAX_LEASES_PER_AGENT
  MaxTime,     \* bound: the clock stops here
  MaxId        \* bound: lease rows ever inserted

ASSUME LeasesAssumption ==
  /\ Owner \in [Slots -> Agents]
  /\ Malformed \subseteq Parcels
  /\ Modes \subseteq {"read", "write", "exclusive"}
  /\ Ttls \subseteq Nat \ {0}
  /\ MaxLeases \in Nat \ {0}
  /\ {Skew, MaxTime, MaxId} \subseteq Nat
  /\ IsFiniteSet(Slots)

VARIABLES
  now,       \* SQLite's clock, _NOW_SQL
  parcels,   \* ids that have a parcels row
  leases,    \* the rows of the leases table
  lastId,    \* its AUTOINCREMENT counter: ids are never reused
  req,       \* the request each slot has in flight
  reaper,    \* the pass each reaper has in flight
  ended      \* the released and reaped events, as <<lease id, type>>

vars == <<now, parcels, leases, lastId, req, reaper, ended>>

Status  == {"active", "released", "reaped"}
Writers == {"write", "exclusive"}

Lease == [id : Nat \ {0}, parcel : Parcels, agent : Agents, mode : Modes,
          expires : Nat, status : Status]

Idle    == [pc |-> "idle"]
Acquire == [pc : {"count", "ensure", "insert"}, parcel : Parcels,
            mode : Modes, ttl : Ttls, ensure : BOOLEAN]
Release == [pc : {"release", "emit"}, id : Nat]
Request == {Idle} \cup Acquire \cup Release

Pass == {Idle} \cup [pc : {"update"}, now : Nat]
               \cup [pc : {"emit"}, ids : SUBSET (Nat \ {0})]

TypeOK ==
  /\ now \in 0..MaxTime
  /\ parcels \subseteq Parcels
  /\ leases \subseteq Lease
  /\ lastId \in 0..MaxId
  /\ req \in [Slots -> Request]
  /\ reaper \in [Reapers -> Pass]
  /\ ended \subseteq (Nat \X {"released", "reaped"})

Init ==
  /\ now = 0
  /\ parcels \in SUBSET (Parcels \ Malformed)
  /\ leases = {}
  /\ lastId = 0
  /\ req = [s \in Slots |-> Idle]
  /\ reaper = [r \in Reapers |-> Idle]
  /\ ended = {}

-----------------------------------------------------------------------------
(* A lease blocks others while its row is active and its expiry is in the  *)
(* future on SQLite's clock; nothing waits for the reaper.                 *)
Live(l) == l.status = "active" /\ l.expires > now

(* Mutants: only the holder's mode is asked; an agent never blocks itself. *)
ConflictHolderOnly(l, a, m) == l.mode \in Writers /\ ~(l.agent = a /\ l.mode = m)
ConflictOthersOnly(l, a, m) == (l.mode \in Writers \/ m \in Writers) /\ l.agent # a

(* The conflict predicate of the CAS INSERT between a lease and a request  *)
(* (or another lease): a writer is involved, and it is not the same agent  *)
(* in the same mode.                                                       *)
Conflict(l, a, m) == /\ l.mode \in Writers \/ m \in Writers
                     /\ ~(l.agent = a /\ l.mode = m)

LiveOf(a) == {l \in leases : l.agent = a /\ Live(l)}

(* The two UPDATEs on lease rows.                                          *)
Renewed(rows, ttl) ==
  (leases \ rows) \cup {[l EXCEPT !.expires = now + ttl] : l \in rows}
Ended(rows, status) ==
  (leases \ rows) \cup {[l EXCEPT !.status = status] : l \in rows}

-----------------------------------------------------------------------------
(* POST /lease: leases.acquire                                             *)

(* The first statement: every live row of the caller's own (parcel, agent, *)
(* mode) is refreshed and the acquire is done; if there is none the        *)
(* request goes on to the quota.  A malformed id is denied before it when  *)
(* the request may create the parcel.                                      *)
Refresh(s, p, m, t, e) ==
  /\ req[s] = Idle
  /\ ~(e /\ p \in Malformed)
  /\ LET mine == {l \in LiveOf(Owner[s]) : l.parcel = p /\ l.mode = m}
     IN  \/ /\ mine # {}
            /\ leases' = Renewed(mine, t)
            /\ UNCHANGED req
         \/ /\ mine = {}
            /\ req' = [req EXCEPT ![s] = [pc |-> "count", parcel |-> p,
                                          mode |-> m, ttl |-> t, ensure |-> e]]
            /\ UNCHANGED leases
  /\ UNCHANGED <<now, parcels, lastId, reaper, ended>>

(* Mutant: the cap is compared with > .                                    *)
CountOffByOne(s) ==
  /\ req[s].pc = "count"
  /\ \/ /\ Cardinality(LiveOf(Owner[s])) > MaxLeases
        /\ req' = [req EXCEPT ![s] = Idle]
     \/ /\ Cardinality(LiveOf(Owner[s])) <= MaxLeases
        /\ req' = [req EXCEPT ![s].pc =
                                IF req[s].ensure THEN "ensure" ELSE "insert"]
  /\ UNCHANGED <<now, parcels, leases, lastId, reaper, ended>>

(* The per-agent cap, counted in a statement of its own.                   *)
Count(s) ==
  /\ req[s].pc = "count"
  /\ \/ /\ Cardinality(LiveOf(Owner[s])) >= MaxLeases
        /\ req' = [req EXCEPT ![s] = Idle]
     \/ /\ Cardinality(LiveOf(Owner[s])) < MaxLeases
        /\ req' = [req EXCEPT ![s].pc =
                                IF req[s].ensure THEN "ensure" ELSE "insert"]
  /\ UNCHANGED <<now, parcels, leases, lastId, reaper, ended>>

(* _ensure_parcel: INSERT OR IGNORE of a coarse whole-file parcel row.     *)
EnsureParcel(s) ==
  /\ req[s].pc = "ensure"
  /\ parcels' = parcels \cup {req[s].parcel}
  /\ req' = [req EXCEPT ![s].pc = "insert"]
  /\ UNCHANGED <<now, leases, lastId, reaper, ended>>

NewLease(s) == [id |-> lastId + 1, parcel |-> req[s].parcel,
                agent |-> Owner[s], mode |-> req[s].mode,
                expires |-> now + req[s].ttl, status |-> "active"]

(* The compare-and-set INSERT ... WHERE NOT EXISTS (conflicting live row). *)
(* With no conflict, a parcel without a row fails the foreign key: the     *)
(* server answers 404.                                                     *)
Insert(s) ==
  LET blocking == {l \in leases : /\ l.parcel = req[s].parcel
                                  /\ Live(l)
                                  /\ Conflict(l, Owner[s], req[s].mode)}
  IN  /\ req[s].pc = "insert"
      /\ req' = [req EXCEPT ![s] = Idle]
      /\ \/ /\ blocking # {} \/ req[s].parcel \notin parcels
            /\ UNCHANGED <<leases, lastId>>
         \/ /\ blocking = {}
            /\ req[s].parcel \in parcels
            /\ lastId < MaxId
            /\ leases' = leases \cup {NewLease(s)}
            /\ lastId' = lastId + 1
      /\ UNCHANGED <<now, parcels, reaper, ended>>

-----------------------------------------------------------------------------
(* Mutant: a heartbeat asks for the status and not for the expiry.         *)
HeartbeatLapsed(s, i, t) ==
  /\ req[s] = Idle
  /\ LET mine == {l \in leases : /\ l.id = i /\ l.agent = Owner[s]
                                  /\ l.status = "active"}
     IN  mine # {} /\ leases' = Renewed(mine, t)
  /\ UNCHANGED <<now, parcels, lastId, req, reaper, ended>>

(* POST /heartbeat: one UPDATE of the caller's own live row.               *)
Heartbeat(s, i, t) ==
  /\ req[s] = Idle
  /\ LET mine == {l \in LiveOf(Owner[s]) : l.id = i}
     IN  /\ mine # {}
         /\ leases' = Renewed(mine, t)
  /\ UNCHANGED <<now, parcels, lastId, req, reaper, ended>>

(* Mutant: release does not ask for the status.                            *)
OwnAnyStatus(s, i) == {l \in leases : l.id = i /\ l.agent = Owner[s]}

(* POST /release: a SELECT, an UPDATE that repeats the SELECT's condition, *)
(* and the released event if the UPDATE hit.  A lapsed row that no reaper  *)
(* has met is still released.                                              *)
ActiveOwn(s, i) ==
  {l \in leases : l.id = i /\ l.agent = Owner[s] /\ l.status = "active"}

SelectLease(s, i) ==
  /\ req[s] = Idle
  /\ ActiveOwn(s, i) # {}
  /\ req' = [req EXCEPT ![s] = [pc |-> "release", id |-> i]]
  /\ UNCHANGED <<now, parcels, leases, lastId, reaper, ended>>

ReleaseLease(s) ==
  /\ req[s].pc = "release"
  /\ LET mine == ActiveOwn(s, req[s].id)
     IN  \/ /\ mine # {}
            /\ leases' = Ended(mine, "released")
            /\ req' = [req EXCEPT ![s].pc = "emit"]
         \/ /\ mine = {}
            /\ req' = [req EXCEPT ![s] = Idle]
            /\ UNCHANGED leases
  /\ UNCHANGED <<now, parcels, lastId, reaper, ended>>

EmitReleased(s) ==
  /\ req[s].pc = "emit"
  /\ ended' = ended \cup {<<req[s].id, "released">>}
  /\ req' = [req EXCEPT ![s] = Idle]
  /\ UNCHANGED <<now, parcels, leases, lastId, reaper>>

(* A statement can raise (the 5 s busy_timeout lapses): the request ends   *)
(* there and what its earlier statements committed stays.                  *)
Fail(s) ==
  /\ req[s] # Idle
  /\ req' = [req EXCEPT ![s] = Idle]
  /\ UNCHANGED <<now, parcels, leases, lastId, reaper, ended>>

-----------------------------------------------------------------------------
(* reap_once: the pass reads Python's clock first and runs its UPDATE      *)
(* later; the reading is stale by then, or ahead of SQLite's by Skew.      *)
ReadClock(r) ==
  /\ reaper[r] = Idle
  /\ \E n \in now..(now + Skew) :
       reaper' = [reaper EXCEPT ![r] = [pc |-> "update", now |-> n]]
  /\ UNCHANGED <<now, parcels, leases, lastId, req, ended>>

(* Mutants: the reaper comes one tick early, or misses the exact boundary. *)
TimedOutEarly(n) == {l \in leases : l.status = "active" /\ l.expires <= n + 1}
TimedOutStrict(n) == {l \in leases : l.status = "active" /\ l.expires < n}

TimedOut(n) == {l \in leases : l.status = "active" /\ l.expires <= n}

Reap(r) ==
  /\ reaper[r].pc = "update"
  /\ LET due == TimedOut(reaper[r].now)
     IN  /\ leases' = Ended(due, "reaped")
         /\ reaper' = [reaper EXCEPT ![r] =
                         [pc |-> "emit", ids |-> {l.id : l \in due}]]
  /\ UNCHANGED <<now, parcels, lastId, req, ended>>

(* The reaped events follow, one statement each, in id order.              *)
EmitReaped(r) ==
  /\ reaper[r].pc = "emit"
  /\ \/ /\ reaper[r].ids = {}
        /\ reaper' = [reaper EXCEPT ![r] = Idle]
        /\ UNCHANGED ended
     \/ \E i \in reaper[r].ids :
          /\ \A j \in reaper[r].ids : i <= j
          /\ ended' = ended \cup {<<i, "reaped">>}
          /\ reaper' = [reaper EXCEPT ![r].ids = @ \ {i}]
  /\ UNCHANGED <<now, parcels, leases, lastId, req>>

(* run() swallows an exception of a pass and goes on with the next one.    *)
PassFails(r) ==
  /\ reaper[r] # Idle
  /\ reaper' = [reaper EXCEPT ![r] = Idle]
  /\ UNCHANGED <<now, parcels, leases, lastId, req, ended>>

-----------------------------------------------------------------------------
(* run_index upserts the row of a parcel found on disk.                    *)
Index(p) ==
  /\ p \notin Malformed
  /\ parcels' = parcels \cup {p}
  /\ UNCHANGED <<now, leases, lastId, req, reaper, ended>>

(* retire_rows, in the integrator's transaction: the leases of a retired   *)
(* parcel are deleted, live ones too, and then the parcel.                 *)
Retire(p) ==
  /\ p \in parcels
  /\ leases' = {l \in leases : l.parcel # p}
  /\ parcels' = parcels \ {p}
  /\ UNCHANGED <<now, lastId, req, reaper, ended>>

Tick ==
  /\ now < MaxTime
  /\ now' = now + 1
  /\ UNCHANGED <<parcels, leases, lastId, req, reaper, ended>>

(* The server dies and restarts: the tables survive, nothing in flight     *)
(* does.                                                                   *)
Crash ==
  /\ req' = [s \in Slots |-> Idle]
  /\ reaper' = [r \in Reapers |-> Idle]
  /\ UNCHANGED <<now, parcels, leases, lastId, ended>>

-----------------------------------------------------------------------------
Ids == 1..MaxId

Handle(s) ==
  \/ \E p \in Parcels, m \in Modes, t \in Ttls, e \in BOOLEAN :
       Refresh(s, p, m, t, e)
  \/ Count(s) \/ EnsureParcel(s) \/ Insert(s)
  \/ \E i \in Ids, t \in Ttls : Heartbeat(s, i, t)
  \/ \E i \in Ids : SelectLease(s, i)
  \/ ReleaseLease(s) \/ EmitReleased(s) \/ Fail(s)

Sweep(r) == ReadClock(r) \/ Reap(r) \/ EmitReaped(r) \/ PassFails(r)

Next ==
  \/ \E s \in Slots : Handle(s)
  \/ \E r \in Reapers : Sweep(r)
  \/ \E p \in Parcels : Index(p) \/ Retire(p)
  \/ Tick \/ Crash

Spec == Init /\ [][Next]_vars

(* The reaper loop of the running server takes its next step, and a pass   *)
(* that can fail again and again does not fail every time: strong fairness *)
(* on its UPDATE.                                                          *)
Fairness == \A r \in Reapers : WF_vars(ReadClock(r)) /\ SF_vars(Reap(r))
                                                     /\ WF_vars(EmitReaped(r))
FairSpec == Spec /\ Fairness

-----------------------------------------------------------------------------
(* PROPERTIES                                                              *)

(* The one outcome the module exists to prevent (leases.py, the CAS        *)
(* comment): two live leases of one parcel never conflict, however the     *)
(* statements of acquires, heartbeats, releases and reapers interleave.    *)
MutualExclusion ==
  \A l, k \in leases :
    Live(l) /\ Live(k) /\ l.parcel = k.parcel => ~Conflict(l, k.agent, k.mode)

SlotsOf(a) == {s \in Slots : Owner[s] = a}

(* The slots of a that are past the quota COUNT and before the INSERT.     *)
Admitted(a) == {s \in SlotsOf(a) : req[s].pc \in {"ensure", "insert"}}

(* leases.py: the cap is not exact, and its overshoot is bounded by the    *)
(* number of requests of the agent that race: an agent with n threads      *)
(* never holds, counting the acquires already admitted, more than          *)
(* cap + n - 1 live leases.                                                *)
QuotaBound ==
  \A a \in Agents :
    SlotsOf(a) # {} =>
      Cardinality(LiveOf(a)) + Cardinality(Admitted(a))
        < MaxLeases + Cardinality(SlotsOf(a))

Same(l, a, p, m) == l.agent = a /\ l.parcel = p /\ l.mode = m

(* leases.py: duplicate live rows of one (parcel, agent, mode) come only   *)
(* from genuinely simultaneous requests of that agent: never more rows     *)
(* than the agent has threads, so an agent that acquires sequentially      *)
(* converges on one row.                                                   *)
DuplicateBound ==
  \A a \in Agents, p \in Parcels, m \in Modes :
    Cardinality({l \in LiveOf(a) : Same(l, a, p, m)})
      + Cardinality({s \in SlotsOf(a) : /\ req[s].pc \in {"count", "ensure", "insert"}
                                        /\ req[s].parcel = p
                                        /\ req[s].mode = m})
      <= Cardinality(SlotsOf(a))

(* The two excesses leases.py accepts, and nothing more: requests of one   *)
(* agent that race past the COUNT, or past the UPDATE of the refresh.      *)
RacesAreBounded == QuotaBound /\ DuplicateBound

(* The ends of lease i that were recorded or whose event is about to be.   *)
Endings(i) ==
  {x \in ended : x[1] = i}
    \cup {<<i, s>> : s \in {s \in Slots : req[s].pc = "emit" /\ req[s].id = i}}
    \cup {<<i, r>> : r \in {r \in Reapers : reaper[r].pc = "emit" /\ i \in reaper[r].ids}}

(* A lease ends at most once, although release is a SELECT followed by an  *)
(* UPDATE and releases, reapers of two processes and expiry race: an       *)
(* active row has no released or reaped event, and no row has two.         *)
EndsOnce ==
  /\ \A i \in Ids : Cardinality(Endings(i)) <= 1
  /\ \A l \in leases : l.status = "active" => Endings(l.id) = {}

RowIn(rows, i) == {l \in rows : l.id = i}

(* A dead lease never comes back to life (the stale-clock revivals of the  *)
(* heartbeat comment in leases.py): a row that is not live in one state is *)
(* not live in the next.                                                   *)
NoRevival ==
  [][\A l \in leases : ~Live(l) => \A k \in RowIn(leases', l.id) : ~Live(k)']_vars

(* A live lease loses its row or its status only by its own agent's        *)
(* release or because its parcel is retired; while neither happens only    *)
(* the clock can end it.  Needs Skew = 0: the reaper's clock is Python's.  *)
EndsForCause ==
  [][\A l \in leases :
       Live(l) => \/ \E k \in RowIn(leases', l.id) : k.status = "active"
                  \/ \E s \in SlotsOf(l.agent) : /\ req[s].pc = "release"
                                                 /\ req[s].id = l.id
                                                 /\ req'[s].pc = "emit"
                  \/ l.parcel \notin parcels']_vars

(* Every lapsed lease leaves the active state: a reaper reaps it, or its   *)
(* agent releases it, although any number of passes fail and the server    *)
(* may crash and restart.                                                  *)
Lapsed(i) == \E l \in RowIn(leases, i) : l.status = "active" /\ l.expires <= now
LapsedIsReaped == \A i \in Ids : Lapsed(i) ~> ~Lapsed(i)

(* The table implements the readers/writer lock it promises.               *)
ClaimsOn(p) == {<<l.agent, l.mode>> : l \in {k \in leases : k.parcel = p /\ Live(k)}}

Lock == INSTANCE ParcelLock WITH claims <- [p \in Parcels |-> ClaimsOn(p)]

ImplementsParcelLock == Lock!Spec
=============================================================================
