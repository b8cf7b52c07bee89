---------------------------- MODULE LeasesProofs ----------------------------
(***************************************************************************)
(* Theorems about Leases, for every set of agents, threads and parcels,    *)
(* every time-to-live, cap and clock skew.                                 *)
(***************************************************************************)
EXTENDS Leases, FiniteSetTheorems, TLAPS

(* The pc of a request says which kind of request it is.                   *)
LEMMA RequestKinds ==
  ASSUME NEW q \in Request
  PROVE  /\ q.pc \in {"count", "ensure", "insert"} => q \in Acquire
         /\ q.pc \in {"release", "emit"} => q \in Release
  BY DEF Request, Acquire, Release, Idle

(* A reaper pass whose pc is known is a record of the matching kind.       *)
LEMMA PassKinds ==
  ASSUME NEW q \in Pass
  PROVE  /\ q.pc = "update" => q \in [pc : {"update"}, now : Nat]
         /\ q.pc = "emit" => q \in [pc : {"emit"}, ids : SUBSET (Nat \ {0})]
  BY DEF Pass, Idle

(* The two UPDATEs keep rows rows.                                         *)
LEMMA UpdatesTyped ==
  ASSUME leases \subseteq Lease, now \in Nat, NEW rows \in SUBSET leases
  PROVE  /\ \A t \in Ttls : Renewed(rows, t) \subseteq Lease
         /\ \A s \in Status : Ended(rows, s) \subseteq Lease
  <1>1. \A t \in Ttls : now + t \in Nat
    BY LeasesAssumption
  <1>2. \A l \in Lease : /\ \A t \in Ttls : [l EXCEPT !.expires = now + t] \in Lease
                         /\ \A s \in Status : [l EXCEPT !.status = s] \in Lease
    BY <1>1 DEF Lease
  <1>3. QED
    BY <1>2 DEF Renewed, Ended

(* The tables of a new database are well typed.                            *)
LEMMA InitTypeOK == Init => TypeOK
  BY LeasesAssumption DEF Init, TypeOK, Request, Pass

(* No statement of any handler, no reaper pass and no crash spoils the     *)
(* types.                                                                  *)
LEMMA NextTypeOK == TypeOK /\ [Next]_vars => TypeOK'
  <1> SUFFICES ASSUME TypeOK, [Next]_vars
               PROVE  TypeOK'
    OBVIOUS
  <1> USE LeasesAssumption
  <1>0. now \in Nat /\ now <= MaxTime /\ lastId \in Nat /\ MaxTime \in Nat /\ MaxId \in Nat
    BY DEF TypeOK
  <1>1. ASSUME NEW s \in Slots, NEW p \in Parcels, NEW m \in Modes, NEW t \in Ttls,
               NEW e \in BOOLEAN, Refresh(s, p, m, t, e)
        PROVE  TypeOK'
    <2> DEFINE mine == {l \in LiveOf(Owner[s]) : l.parcel = p /\ l.mode = m}
    <2>1. mine \subseteq leases
      BY DEF LiveOf
    <2>2. Renewed(mine, t) \subseteq Lease
      BY <2>1, <1>0, UpdatesTyped DEF TypeOK
    <2>3. [pc |-> "count", parcel |-> p, mode |-> m, ttl |-> t, ensure |-> e] \in Request
      BY DEF Request, Acquire
    <2>4. leases' \subseteq Lease
      BY <1>1, <2>2 DEF Refresh, TypeOK
    <2>5. req' \in [Slots -> Request]
      BY <1>1, <2>3 DEF Refresh, TypeOK
    <2>6. QED
      BY <1>1, <2>4, <2>5 DEF Refresh, TypeOK
  <1>2. ASSUME NEW s \in Slots, Count(s)
        PROVE  TypeOK'
    <2>1. req[s] \in Acquire
      BY <1>2, RequestKinds DEF Count, TypeOK
    <2>2. \A c \in {"ensure", "insert"} : [req[s] EXCEPT !.pc = c] \in Request
      BY <2>1 DEF Acquire, Request
    <2>3. req' \in [Slots -> Request]
      BY <1>2, <2>2 DEF Count, TypeOK, Request
    <2>4. QED
      BY <1>2, <2>3 DEF Count, TypeOK
  <1>3. ASSUME NEW s \in Slots, EnsureParcel(s)
        PROVE  TypeOK'
    <2>1. req[s] \in Acquire
      BY <1>3, RequestKinds DEF EnsureParcel, TypeOK
    <2>2. [req[s] EXCEPT !.pc = "insert"] \in Request /\ req[s].parcel \in Parcels
      BY <2>1 DEF Acquire, Request
    <2>3. QED
      BY <1>3, <2>2 DEF EnsureParcel, TypeOK
  <1>4. ASSUME NEW s \in Slots, Insert(s)
        PROVE  TypeOK'
    <2>1. req[s] \in Acquire
      BY <1>4, RequestKinds DEF Insert, TypeOK
    <2>2. NewLease(s) \in Lease
      <3>1. req[s].parcel \in Parcels /\ req[s].mode \in Modes /\ req[s].ttl \in Nat
        BY <2>1 DEF Acquire
      <3>2. now + req[s].ttl \in Nat /\ lastId + 1 \in Nat \ {0} /\ Owner[s] \in Agents
        BY <3>1, <1>0
      <3>3. QED
        BY <3>1, <3>2 DEF NewLease, Lease, Status
    <2>3. leases' \subseteq Lease
      BY <1>4, <2>2 DEF Insert, TypeOK
    <2>4. lastId' \in 0..MaxId
      BY <1>4, <1>0 DEF Insert, TypeOK
    <2>5. req' \in [Slots -> Request]
      BY <1>4 DEF Insert, TypeOK, Request
    <2>6. QED
      BY <1>4, <2>3, <2>4, <2>5 DEF Insert, TypeOK
  <1>5. ASSUME NEW s \in Slots, NEW i \in Ids, NEW t \in Ttls, Heartbeat(s, i, t)
        PROVE  TypeOK'
    <2>1. {l \in LiveOf(Owner[s]) : l.id = i} \subseteq leases
      BY DEF LiveOf
    <2>2. leases' \subseteq Lease
      BY <1>5, <2>1, <1>0, UpdatesTyped DEF Heartbeat, TypeOK
    <2>3. QED
      BY <1>5, <2>2 DEF Heartbeat, TypeOK
  <1>6. ASSUME NEW s \in Slots, NEW i \in Ids, SelectLease(s, i)
        PROVE  TypeOK'
    <2>1. [pc |-> "release", id |-> i] \in Request
      BY <1>0 DEF Request, Release, Ids
    <2>2. QED
      BY <1>6, <2>1 DEF SelectLease, TypeOK
  <1>7. ASSUME NEW s \in Slots, ReleaseLease(s)
        PROVE  TypeOK'
    <2>1. req[s] \in Release
      BY <1>7, RequestKinds DEF ReleaseLease, TypeOK
    <2>2. [req[s] EXCEPT !.pc = "emit"] \in Request
      BY <2>1 DEF Release, Request
    <2>3. ActiveOwn(s, req[s].id) \subseteq leases
      BY DEF ActiveOwn
    <2>4. Ended(ActiveOwn(s, req[s].id), "released") \subseteq Lease
      BY <2>3, <1>0, UpdatesTyped DEF TypeOK, Status
    <2>5. leases' \subseteq Lease /\ req' \in [Slots -> Request]
      BY <1>7, <2>2, <2>4 DEF ReleaseLease, TypeOK, Request
    <2>6. QED
      BY <1>7, <2>5 DEF ReleaseLease, TypeOK
  <1>8. ASSUME NEW s \in Slots, EmitReleased(s)
        PROVE  TypeOK'
    <2>1. req[s] \in Release
      BY <1>8, RequestKinds DEF EmitReleased, TypeOK
    <2>2. QED
      BY <1>8, <2>1 DEF EmitReleased, TypeOK, Request, Release
  <1>9. ASSUME NEW s \in Slots, Fail(s)
        PROVE  TypeOK'
    BY <1>9 DEF Fail, TypeOK, Request
  <1>10. ASSUME NEW r \in Reapers, ReadClock(r)
         PROVE  TypeOK'
    <2>1. PICK n \in now..(now + Skew) :
            reaper' = [reaper EXCEPT ![r] = [pc |-> "update", now |-> n]]
      BY <1>10 DEF ReadClock
    <2>2. [pc |-> "update", now |-> n] \in Pass
      BY <1>0 DEF Pass
    <2>3. QED
      BY <1>10, <2>1, <2>2 DEF ReadClock, TypeOK
  <1>11. ASSUME NEW r \in Reapers, Reap(r)
         PROVE  TypeOK'
    <2> DEFINE due == TimedOut(reaper[r].now)
    <2>1. due \subseteq leases
      BY DEF TimedOut
    <2>2. Ended(due, "reaped") \subseteq Lease
      BY <2>1, <1>0, UpdatesTyped DEF TypeOK, Status
    <2>3. {l.id : l \in due} \subseteq Nat \ {0}
      BY <2>1 DEF TypeOK, Lease
    <2>4. [pc |-> "emit", ids |-> {l.id : l \in due}] \in Pass
      BY <2>3 DEF Pass
    <2>5. QED
      BY <1>11, <2>2, <2>4 DEF Reap, TypeOK
  <1>12. ASSUME NEW r \in Reapers, EmitReaped(r)
         PROVE  TypeOK'
    <2>1. reaper[r] \in [pc : {"emit"}, ids : SUBSET (Nat \ {0})]
      BY <1>12, PassKinds DEF EmitReaped, TypeOK
    <2>2. \A i \in reaper[r].ids : [reaper[r] EXCEPT !.ids = @ \ {i}] \in Pass
      BY <2>1 DEF Pass
    <2>3. reaper' \in [Reapers -> Pass]
      <3>1. CASE reaper' = [reaper EXCEPT ![r] = Idle]
        BY <3>1 DEF TypeOK, Pass
      <3>2. ASSUME NEW i \in reaper[r].ids, reaper' = [reaper EXCEPT ![r].ids = @ \ {i}]
            PROVE  reaper' \in [Reapers -> Pass]
        <4>1. reaper' = [reaper EXCEPT ![r] = [reaper[r] EXCEPT !.ids = @ \ {i}]]
          BY <3>2
        <4>2. QED
          BY <4>1, <2>2 DEF TypeOK
      <3>3. QED
        BY <1>12, <3>1, <3>2 DEF EmitReaped
    <2>4. ended' \subseteq (Nat \X {"released", "reaped"})
      BY <1>12, <2>1 DEF EmitReaped, TypeOK
    <2>5. QED
      BY <1>12, <2>3, <2>4 DEF EmitReaped, TypeOK
  <1>13. ASSUME NEW r \in Reapers, PassFails(r)
         PROVE  TypeOK'
    BY <1>13 DEF PassFails, TypeOK, Pass
  <1>14. ASSUME NEW p \in Parcels, Index(p) \/ Retire(p)
         PROVE  TypeOK'
    BY <1>14 DEF Index, Retire, TypeOK
  <1>15. CASE Tick
    BY <1>15, <1>0 DEF Tick, TypeOK
  <1>16. CASE Crash
    BY <1>16 DEF Crash, TypeOK, Request, Pass
  <1>17. CASE UNCHANGED vars
    BY <1>17 DEF vars, TypeOK
  <1>18. QED
    BY <1>1, <1>2, <1>3, <1>4, <1>5, <1>6, <1>7, <1>8, <1>9, <1>10, <1>11, <1>12,
       <1>13, <1>14, <1>15, <1>16, <1>17 DEF Next, Handle, Sweep

(* The variables of the lease table always have the types of schema.sql    *)
(* and of the requests in flight.                                          *)
THEOREM Typing == Spec => []TypeOK
  BY InitTypeOK, NextTypeOK, PTL DEF Spec

-----------------------------------------------------------------------------
(* Row k of the next state continues row l: same lease, same claim.        *)
Continues(k, l) == /\ k.id = l.id /\ k.parcel = l.parcel
                   /\ k.agent = l.agent /\ k.mode = l.mode

(* A renewal renews live rows only, and it changes nothing but the expiry. *)
LEMMA RenewedContinues ==
  ASSUME leases \subseteq Lease, NEW t \in Nat, NEW rows \in SUBSET leases,
         \A l \in rows : Live(l), leases' = Renewed(rows, t), now' = now
  PROVE  \A k \in leases' : Live(k)' => \E l \in leases : Live(l) /\ Continues(k, l)
  <1> SUFFICES ASSUME NEW k \in leases', Live(k)'
               PROVE  \E l \in leases : Live(l) /\ Continues(k, l)
    OBVIOUS
  <1>1. CASE k \in leases
    BY <1>1 DEF Live, Continues
  <1>2. CASE k \notin leases
    <2>1. PICK l \in rows : k = [l EXCEPT !.expires = now + t]
      BY <1>2 DEF Renewed
    <2>2. Continues(k, l)
      BY <2>1 DEF Continues, Lease
    <2>3. QED
      BY <2>2
  <1>3. QED
    BY <1>1, <1>2

(* Ending rows makes none live.                                            *)
LEMMA EndedContinues ==
  ASSUME leases \subseteq Lease, NEW s \in {"released", "reaped"},
         NEW rows \in SUBSET leases, leases' = Ended(rows, s), now' = now
  PROVE  \A k \in leases' : Live(k)' => \E l \in leases : Live(l) /\ Continues(k, l)
  <1> SUFFICES ASSUME NEW k \in leases', Live(k)'
               PROVE  k \in leases
    BY DEF Live, Continues
  <1>1. ASSUME NEW l \in rows, k = [l EXCEPT !.status = s]
        PROVE  FALSE
    <2>1. k.status = s
      BY <1>1 DEF Lease
    <2>2. QED
      BY <2>1 DEF Live
  <1>2. QED
    BY <1>1 DEF Ended

(* Every step but a granting INSERT only keeps or ends claims: what is     *)
(* live after it continues a lease that was live before it.                *)
LEMMA StepContinues ==
  ASSUME TypeOK, [Next]_vars, \A s \in Slots : Insert(s) => UNCHANGED leases
  PROVE  \A k \in leases' : Live(k)' => \E l \in leases : Live(l) /\ Continues(k, l)
  <1> DEFINE Goal == \A k \in leases' : Live(k)' =>
                        \E l \in leases : Live(l) /\ Continues(k, l)
  <1> SUFFICES Goal
    OBVIOUS
  <1>0. leases \subseteq Lease /\ now \in Nat /\ Ttls \subseteq Nat
    BY LeasesAssumption DEF TypeOK
  <1>1. ASSUME leases' \subseteq leases, now' = now
        PROVE  Goal
    BY <1>1 DEF Live, Continues
  <1>2. ASSUME NEW s \in Slots, NEW p \in Parcels, NEW m \in Modes, NEW t \in Ttls,
               NEW e \in BOOLEAN, Refresh(s, p, m, t, e)
        PROVE  Goal
    <2> DEFINE mine == {l \in LiveOf(Owner[s]) : l.parcel = p /\ l.mode = m}
    <2>1. mine \subseteq leases /\ \A l \in mine : Live(l)
      BY DEF LiveOf
    <2>2. now' = now /\ (leases' = Renewed(mine, t) \/ leases' = leases)
      BY <1>2 DEF Refresh
    <2>3. CASE leases' = leases
      BY <2>2, <2>3, <1>1
    <2>4. CASE leases' = Renewed(mine, t)
      <3>1. t \in Nat
        BY <1>0
      <3> HIDE DEF mine
      <3>2. QED
        BY <2>1, <2>2, <2>4, <1>0, <3>1, RenewedContinues
    <2>5. QED
      BY <2>2, <2>3, <2>4
  <1>3. ASSUME NEW s \in Slots, NEW i \in Ids, NEW t \in Ttls, Heartbeat(s, i, t)
        PROVE  Goal
    <2> DEFINE mine == {l \in LiveOf(Owner[s]) : l.id = i}
    <2>1. mine \subseteq leases /\ \A l \in mine : Live(l)
      BY DEF LiveOf
    <2>2. now' = now /\ leases' = Renewed(mine, t) /\ t \in Nat
      BY <1>3, <1>0 DEF Heartbeat
    <2> HIDE DEF mine
    <2>3. QED
      BY <2>1, <2>2, <1>0, RenewedContinues
  <1>4. ASSUME NEW s \in Slots, ReleaseLease(s)
        PROVE  Goal
    <2>1. ActiveOwn(s, req[s].id) \subseteq leases /\ now' = now
      BY <1>4 DEF ActiveOwn, ReleaseLease
    <2>2. CASE leases' = leases
      BY <2>1, <2>2, <1>1
    <2>3. CASE leases' = Ended(ActiveOwn(s, req[s].id), "released")
      BY <2>1, <2>3, <1>0, EndedContinues
    <2>4. QED
      BY <1>4, <2>2, <2>3 DEF ReleaseLease
  <1>5. ASSUME NEW r \in Reapers, Reap(r)
        PROVE  Goal
    <2>1. TimedOut(reaper[r].now) \subseteq leases /\ now' = now
      BY <1>5 DEF TimedOut, Reap
    <2>2. QED
      BY <1>5, <2>1, <1>0, EndedContinues DEF Reap
  <1>6. CASE Tick
    <2>1. leases' = leases /\ now' = now + 1 /\ \A l \in leases : l.expires \in Nat
      BY <1>6, <1>0 DEF Tick, Lease
    <2>2. QED
      BY <2>1, <1>0 DEF Live, Continues
  <1>7. ASSUME NEW s \in Slots,
               \/ Count(s) \/ EnsureParcel(s) \/ Insert(s) \/ EmitReleased(s) \/ Fail(s)
               \/ \E i \in Ids : SelectLease(s, i)
        PROVE  Goal
    BY <1>7, <1>1 DEF Count, EnsureParcel, Insert, EmitReleased, Fail, SelectLease
  <1>8. ASSUME NEW r \in Reapers, ReadClock(r) \/ EmitReaped(r) \/ PassFails(r)
        PROVE  Goal
    BY <1>8, <1>1 DEF ReadClock, EmitReaped, PassFails
  <1>9. ASSUME NEW p \in Parcels, Index(p) \/ Retire(p)
        PROVE  Goal
    BY <1>9, <1>1 DEF Index, Retire
  <1>10. CASE Crash
    BY <1>10, <1>1 DEF Crash
  <1>11. CASE UNCHANGED vars
    BY <1>11, <1>1 DEF vars
  <1> HIDE DEF Goal
  <1>12. ASSUME NEW s \in Slots, Handle(s)
         PROVE  Goal
    BY <1>12, <1>2, <1>3, <1>4, <1>7 DEF Handle
  <1>13. ASSUME NEW r \in Reapers, Sweep(r)
         PROVE  Goal
    BY <1>13, <1>5, <1>8 DEF Sweep
  <1>14. QED
    BY <1>6, <1>9, <1>10, <1>11, <1>12, <1>13 DEF Next

-----------------------------------------------------------------------------
(* An INSERT that grants adds one lease that conflicts with no live one.   *)
LEMMA InsertGrants ==
  ASSUME NEW s \in Slots, Insert(s), ~UNCHANGED leases
  PROVE  /\ now' = now
         /\ leases' = leases \cup {NewLease(s)}
         /\ lastId' = lastId + 1
         /\ \A l \in leases : l.parcel = req[s].parcel /\ Live(l)
                                => ~Conflict(l, Owner[s], req[s].mode)
  BY DEF Insert

(* Mutual exclusion is inductive as it stands: live rows continue live     *)
(* rows, and the one that is new was inserted by the compare-and-set.      *)
LEMMA ExclusionStep ==
  ASSUME TypeOK, MutualExclusion, [Next]_vars
  PROVE  MutualExclusion'
  <1>1. CASE \A s \in Slots : Insert(s) => UNCHANGED leases
    <2> SUFFICES ASSUME NEW l \in leases', NEW k \in leases',
                        Live(l)', Live(k)', l.parcel = k.parcel
                 PROVE  ~Conflict(l, k.agent, k.mode)
      BY DEF MutualExclusion, Conflict
    <2>1. PICK l0 \in leases : Live(l0) /\ Continues(l, l0)
      BY <1>1, StepContinues
    <2>2. PICK k0 \in leases : Live(k0) /\ Continues(k, k0)
      BY <1>1, StepContinues
    <2>3. ~Conflict(l0, k0.agent, k0.mode)
      BY <2>1, <2>2 DEF MutualExclusion, Continues
    <2>4. QED
      BY <2>1, <2>2, <2>3 DEF Conflict, Continues
  <1>2. ASSUME NEW s \in Slots, Insert(s), ~UNCHANGED leases
        PROVE  MutualExclusion'
    <2> DEFINE n == NewLease(s)
    <2>1. /\ now' = now /\ leases' = leases \cup {n}
          /\ \A l \in leases : l.parcel = n.parcel /\ Live(l) => ~Conflict(l, n.agent, n.mode)
      BY <1>2, InsertGrants DEF NewLease
    <2> SUFFICES ASSUME NEW l \in leases', NEW k \in leases',
                        Live(l)', Live(k)', l.parcel = k.parcel
                 PROVE  ~Conflict(l, k.agent, k.mode)
      BY DEF MutualExclusion, Conflict
    <2> HIDE DEF n
    <2>2. Live(l) /\ Live(k)
      BY <2>1 DEF Live
    <2>3. CASE l \in leases /\ k \in leases
      BY <2>2, <2>3 DEF MutualExclusion
    <2>4. CASE l \in leases /\ k = n
      BY <2>1, <2>2, <2>4
    <2>5. CASE l = n /\ k \in leases
      <3>1. ~Conflict(k, l.agent, l.mode)
        BY <2>1, <2>2, <2>5
      <3>2. QED
        BY <3>1 DEF Conflict
    <2>6. CASE l = n /\ k = n
      BY <2>6 DEF Conflict
    <2>7. QED
      BY <2>1, <2>3, <2>4, <2>5, <2>6
  <1>3. QED
    BY <1>1, <1>2

(* Two live leases of one parcel never conflict: the compare-and-set of    *)
(* acquire, the liveness guard of heartbeat and refresh and the reaper     *)
(* keep it whatever the interleaving, the clock skew and the crashes.      *)
THEOREM Exclusion == Spec => []MutualExclusion
  <1>1. Init => MutualExclusion
    BY DEF Init, MutualExclusion
  <1>2. QED
    BY <1>1, ExclusionStep, Typing, PTL DEF Spec

-----------------------------------------------------------------------------
(* Row ids are unique and below the AUTOINCREMENT counter.                 *)
UniqueIds == /\ \A l, k \in leases : l.id = k.id => l = k
             /\ \A l \in leases : l.id <= lastId

(* The UPDATE of heartbeat and refresh keeps row ids unique.               *)
LEMMA RenewedUnique ==
  ASSUME leases \subseteq Lease, UniqueIds, NEW t, NEW rows \in SUBSET leases
  PROVE  /\ \A l, k \in Renewed(rows, t) : l.id = k.id => l = k
         /\ \A l \in Renewed(rows, t) : l.id <= lastId
  <1>1. \A l \in Lease : [l EXCEPT !.expires = now + t].id = l.id
    BY DEF Lease
  <1>2. ASSUME NEW k \in Renewed(rows, t)
        PROVE  \E l \in leases : /\ k.id = l.id
                                 /\ l \in rows => k = [l EXCEPT !.expires = now + t]
                                 /\ l \notin rows => k = l
    BY <1>1 DEF Renewed
  <1>3. QED
    BY <1>2 DEF UniqueIds

(* So does the UPDATE of release and reaper.                               *)
LEMMA EndedUnique ==
  ASSUME leases \subseteq Lease, UniqueIds, NEW s, NEW rows \in SUBSET leases
  PROVE  /\ \A l, k \in Ended(rows, s) : l.id = k.id => l = k
         /\ \A l \in Ended(rows, s) : l.id <= lastId
  <1>1. \A l \in Lease : [l EXCEPT !.status = s].id = l.id
    BY DEF Lease
  <1>2. ASSUME NEW k \in Ended(rows, s)
        PROVE  \E l \in leases : /\ k.id = l.id
                                 /\ l \in rows => k = [l EXCEPT !.status = s]
                                 /\ l \notin rows => k = l
    BY <1>1 DEF Ended
  <1>3. QED
    BY <1>2 DEF UniqueIds

(* No step gives two rows one id: AUTOINCREMENT never reuses one.          *)
LEMMA UniqueIdsStep ==
  ASSUME TypeOK, UniqueIds, [Next]_vars
  PROVE  UniqueIds'
  <1>0. leases \subseteq Lease /\ lastId \in Nat
    BY LeasesAssumption DEF TypeOK
  <1>1. ASSUME leases' \subseteq leases, lastId' = lastId
        PROVE  UniqueIds'
    BY <1>1 DEF UniqueIds
  <1>2. ASSUME NEW s \in Slots, NEW p \in Parcels, NEW m \in Modes, NEW t \in Ttls,
               NEW e \in BOOLEAN, Refresh(s, p, m, t, e)
        PROVE  UniqueIds'
    <2> DEFINE mine == {l \in LiveOf(Owner[s]) : l.parcel = p /\ l.mode = m}
    <2>1. mine \subseteq leases
      BY DEF LiveOf
    <2>2. lastId' = lastId /\ (leases' = Renewed(mine, t) \/ leases' = leases)
      BY <1>2 DEF Refresh
    <2> HIDE DEF mine
    <2>3. QED
      BY <2>1, <2>2, <1>0, <1>1, RenewedUnique DEF UniqueIds
  <1>3. ASSUME NEW s \in Slots, NEW i \in Ids, NEW t \in Ttls, Heartbeat(s, i, t)
        PROVE  UniqueIds'
    <2> DEFINE mine == {l \in LiveOf(Owner[s]) : l.id = i}
    <2>1. mine \subseteq leases /\ lastId' = lastId /\ leases' = Renewed(mine, t)
      BY <1>3 DEF LiveOf, Heartbeat
    <2> HIDE DEF mine
    <2>2. QED
      BY <2>1, <1>0, RenewedUnique DEF UniqueIds
  <1>4. ASSUME NEW s \in Slots, ReleaseLease(s)
        PROVE  UniqueIds'
    <2>1. ActiveOwn(s, req[s].id) \subseteq leases /\ lastId' = lastId
      BY <1>4 DEF ActiveOwn, ReleaseLease
    <2>2. \/ leases' = Ended(ActiveOwn(s, req[s].id), "released")
          \/ leases' = leases
      BY <1>4 DEF ReleaseLease
    <2>3. QED
      BY <2>1, <2>2, <1>0, <1>1, EndedUnique DEF UniqueIds
  <1>5. ASSUME NEW r \in Reapers, Reap(r)
        PROVE  UniqueIds'
    <2>1. /\ TimedOut(reaper[r].now) \subseteq leases /\ lastId' = lastId
          /\ leases' = Ended(TimedOut(reaper[r].now), "reaped")
      BY <1>5 DEF TimedOut, Reap
    <2>2. QED
      BY <2>1, <1>0, EndedUnique DEF UniqueIds
  <1>6. ASSUME NEW s \in Slots, Insert(s)
        PROVE  UniqueIds'
    <2>1. CASE UNCHANGED leases
      <3>1. leases' = leases /\ lastId' \in {lastId, lastId + 1}
        BY <1>6, <2>1 DEF Insert
      <3>2. \A l \in leases : l.id \in Nat
        BY <1>0 DEF Lease
      <3>3. QED
        BY <3>1, <3>2, <1>0 DEF UniqueIds
    <2>2. CASE ~UNCHANGED leases
      <3>1. leases' = leases \cup {NewLease(s)} /\ lastId' = lastId + 1
        BY <1>6, <2>2, InsertGrants
      <3>2. NewLease(s).id = lastId + 1 /\ \A l \in leases : l.id \in Nat /\ l.id <= lastId
        BY <1>0 DEF NewLease, UniqueIds, Lease
      <3> HIDE DEF NewLease
      <3>3. QED
        BY <3>1, <3>2, <1>0 DEF UniqueIds
    <2>3. QED
      BY <2>1, <2>2
  <1>7. ASSUME NEW s \in Slots,
               \/ Count(s) \/ EnsureParcel(s) \/ EmitReleased(s) \/ Fail(s)
               \/ \E i \in Ids : SelectLease(s, i)
        PROVE  UniqueIds'
    BY <1>7, <1>1 DEF Count, EnsureParcel, EmitReleased, Fail, SelectLease
  <1>8. ASSUME NEW r \in Reapers, ReadClock(r) \/ EmitReaped(r) \/ PassFails(r)
        PROVE  UniqueIds'
    BY <1>8, <1>1 DEF ReadClock, EmitReaped, PassFails
  <1>9. ASSUME NEW p \in Parcels, Index(p) \/ Retire(p)
        PROVE  UniqueIds'
    BY <1>9, <1>1 DEF Index, Retire
  <1>10. ASSUME Tick \/ Crash \/ UNCHANGED vars
         PROVE  UniqueIds'
    BY <1>10, <1>1 DEF Tick, Crash, vars
  <1>11. ASSUME NEW s \in Slots, Handle(s)
         PROVE  UniqueIds'
    BY <1>11, <1>2, <1>3, <1>4, <1>6, <1>7 DEF Handle
  <1>12. ASSUME NEW r \in Reapers, Sweep(r)
         PROVE  UniqueIds'
    BY <1>12, <1>5, <1>8 DEF Sweep
  <1>13. QED
    BY <1>9, <1>10, <1>11, <1>12 DEF Next

(* A lease id names at most one row, for ever.                             *)
LEMMA RowIdsUnique == Spec => []UniqueIds
  <1>1. Init => UniqueIds
    BY DEF Init, UniqueIds
  <1>2. QED
    BY <1>1, UniqueIdsStep, Typing, PTL DEF Spec

-----------------------------------------------------------------------------
(* A lapsed, released or reaped lease never becomes live again: neither a  *)
(* late heartbeat nor a repeated acquire revives a row.                    *)
THEOREM DeadStaysDead == Spec => NoRevival
  <1> DEFINE Kept == \A l \in leases : ~Live(l) =>
                        \A k \in RowIn(leases', l.id) : ~Live(k)'
  <1>1. ASSUME TypeOK, UniqueIds, [Next]_vars
        PROVE  Kept
    <2> SUFFICES ASSUME NEW l \in leases, NEW k \in leases', k.id = l.id, Live(k)'
                 PROVE  Live(l)
      BY DEF RowIn
    <2>1. CASE \A s \in Slots : Insert(s) => UNCHANGED leases
      BY <1>1, <2>1, StepContinues DEF Continues, UniqueIds
    <2>2. ASSUME NEW s \in Slots, Insert(s), ~UNCHANGED leases
          PROVE  Live(l)
      <3>1. leases' = leases \cup {NewLease(s)} /\ now' = now
        BY <2>2, InsertGrants
      <3>2. NewLease(s).id = lastId + 1 /\ lastId \in Nat /\ l.id \in Nat /\ l.id <= lastId
        BY <1>1, LeasesAssumption DEF NewLease, UniqueIds, Lease, TypeOK
      <3>3. k \in leases /\ Live(k)
        BY <3>1, <3>2 DEF Live
      <3>4. QED
        BY <3>3, <1>1 DEF UniqueIds
    <2>3. QED
      BY <2>1, <2>2
  <1>2. ASSUME TypeOK, UniqueIds, [Next]_vars
        PROVE  [Kept]_vars
    BY <1>1, <1>2
  <1>3. QED
    BY <1>2, Typing, RowIdsUnique, PTL DEF Spec, NoRevival

-----------------------------------------------------------------------------
(* An UPDATE that renews keeps the status of every row.                    *)
LEMMA RenewedStatus ==
  ASSUME leases \subseteq Lease, NEW t, NEW rows \in SUBSET leases
  PROVE  /\ \A l \in leases : \E k \in Renewed(rows, t) : k.id = l.id /\ k.status = l.status
         /\ \A k \in Renewed(rows, t) : \E l \in leases : k.id = l.id /\ k.status = l.status
  <1>1. \A l \in Lease : LET k == [l EXCEPT !.expires = now + t]
                         IN  k.id = l.id /\ k.status = l.status
    BY DEF Lease
  <1>2. QED
    BY <1>1 DEF Renewed

(* An UPDATE that ends rows leaves the others as they are.                 *)
LEMMA EndedStatus ==
  ASSUME leases \subseteq Lease, NEW s, NEW rows \in SUBSET leases
  PROVE  /\ \A l \in leases \ rows : l \in Ended(rows, s)
         /\ \A k \in Ended(rows, s) : k \in leases \ rows \/ k.status = s
  <1>1. \A l \in Lease : [l EXCEPT !.status = s].status = s
    BY DEF Lease
  <1>2. QED
    BY <1>1 DEF Ended

(* With one clock, no reaper's reading of it is ahead.                     *)
ClocksAgree == \A r \in Reapers : reaper[r].pc = "update" => reaper[r].now <= now

(* A pass reads the clock before its UPDATE, and the clock only goes on.   *)
LEMMA ClocksStay ==
  ASSUME Skew = 0, TypeOK, ClocksAgree, [Next]_vars
  PROVE  ClocksAgree'
  <1>0. now \in Nat /\ \A r \in Reapers : reaper[r].pc = "update" => reaper[r].now \in Nat
    BY LeasesAssumption, PassKinds DEF TypeOK
  <1>1. ASSUME reaper' = reaper, now' \in {now, now + 1}
        PROVE  ClocksAgree'
    BY <1>0, <1>1 DEF ClocksAgree
  <1>2. ASSUME NEW r \in Reapers, ReadClock(r)
        PROVE  ClocksAgree'
    <2>1. now' = now /\ \A q \in Reapers \ {r} : reaper'[q] = reaper[q]
      BY <1>2 DEF ReadClock, TypeOK
    <2>2. PICK n : /\ n \in now..now + Skew
                   /\ reaper' = [reaper EXCEPT ![r] = [pc |-> "update", now |-> n]]
      BY <1>2 DEF ReadClock
    <2>3. reaper'[r] = [pc |-> "update", now |-> n] /\ n = now
      BY <2>2, <1>0 DEF TypeOK
    <2>4. QED
      BY <2>1, <2>3, <1>0 DEF ClocksAgree
  <1>3. ASSUME NEW r \in Reapers, Reap(r) \/ EmitReaped(r) \/ PassFails(r)
        PROVE  ClocksAgree'
    <2>1. now' = now /\ \A q \in Reapers \ {r} : reaper'[q] = reaper[q]
      BY <1>3 DEF Reap, EmitReaped, PassFails, TypeOK
    <2>2. reaper'[r].pc # "update"
      <3>1. CASE EmitReaped(r)
        BY <3>1, PassKinds DEF EmitReaped, TypeOK, Idle
      <3>2. CASE Reap(r) \/ PassFails(r)
        BY <3>2 DEF Reap, PassFails, TypeOK, Idle
      <3>3. QED
        BY <1>3, <3>1, <3>2
    <2>3. QED
      BY <2>1, <2>2 DEF ClocksAgree
  <1>4. CASE Crash
    BY <1>4 DEF Crash, ClocksAgree, Idle
  <1>5. ASSUME NEW s \in Slots, Handle(s)
        PROVE  ClocksAgree'
    BY <1>5, <1>1 DEF Handle, Refresh, Count, EnsureParcel, Insert, Heartbeat, SelectLease,
                      ReleaseLease, EmitReleased, Fail
  <1>6. ASSUME NEW p \in Parcels, Index(p) \/ Retire(p)
        PROVE  ClocksAgree'
    BY <1>6, <1>1 DEF Index, Retire
  <1>7. CASE Tick \/ UNCHANGED vars
    BY <1>7, <1>1 DEF Tick, vars
  <1>8. QED
    BY <1>2, <1>3, <1>4, <1>5, <1>6, <1>7 DEF Next, Sweep

(* While a lease is live nothing takes it but its own agent's release or   *)
(* the retirement of its parcel: no reaper, no other agent, no crash.      *)
THEOREM OwnersEndLeases == Skew = 0 => (Spec => EndsForCause)
  <1> SUFFICES ASSUME Skew = 0 PROVE Spec => EndsForCause
    OBVIOUS
  <1> DEFINE Cause(l) == \/ \E k \in RowIn(leases', l.id) : k.status = "active"
                         \/ \E s \in SlotsOf(l.agent) : /\ req[s].pc = "release"
                                                        /\ req[s].id = l.id
                                                        /\ req'[s].pc = "emit"
                         \/ l.parcel \notin parcels'
             Caused == \A l \in leases : Live(l) => Cause(l)
  <1>1. ASSUME TypeOK, ClocksAgree, [Next]_vars, NEW l \in leases, Live(l)
        PROVE  Cause(l)
    <2>0. leases \subseteq Lease /\ l \in Lease
      BY <1>1 DEF TypeOK
    <2>1. ASSUME l \in leases'
          PROVE  Cause(l)
      BY <2>1, <1>1 DEF RowIn, Live
    <2>2. ASSUME NEW t, NEW rows \in SUBSET leases, leases' = Renewed(rows, t)
          PROVE  Cause(l)
      BY <2>2, <1>1, <2>0, RenewedStatus DEF RowIn, Live
    <2>3. ASSUME NEW s \in Slots, ReleaseLease(s)
          PROVE  Cause(l)
      <3>1. CASE l \in ActiveOwn(s, req[s].id) /\ leases' # leases
        <4>1. req' = [req EXCEPT ![s].pc = "emit"] /\ req[s].pc = "release" /\ req[s] \in Release
          BY <2>3, <3>1, <1>1, RequestKinds DEF ReleaseLease, TypeOK
        <4>2. req'[s].pc = "emit"
          BY <4>1, <1>1 DEF TypeOK, Release
        <4>3. QED
          BY <3>1, <4>1, <4>2 DEF ActiveOwn, SlotsOf
      <3>2. CASE l \notin ActiveOwn(s, req[s].id) \/ leases' = leases
        <4>1. \/ leases' = leases
              \/ leases' = Ended(ActiveOwn(s, req[s].id), "released")
          BY <2>3 DEF ReleaseLease
        <4>2. ActiveOwn(s, req[s].id) \subseteq leases
          BY DEF ActiveOwn
        <4>3. QED
          BY <3>2, <4>1, <4>2, <2>0, <2>1, EndedStatus
      <3>3. QED
        BY <3>1, <3>2
    <2>4. ASSUME NEW r \in Reapers, Reap(r)
          PROVE  Cause(l)
      <3>1. reaper[r].now <= now /\ reaper[r].now \in Nat /\ now \in Nat /\ l.expires \in Nat
        BY <2>4, <2>0, <1>1, PassKinds, LeasesAssumption DEF Reap, ClocksAgree, TypeOK, Lease
      <3>2. l \notin TimedOut(reaper[r].now)
        BY <3>1, <1>1 DEF TimedOut, Live
      <3>3. TimedOut(reaper[r].now) \subseteq leases
            /\ leases' = Ended(TimedOut(reaper[r].now), "reaped")
        BY <2>4 DEF TimedOut, Reap
      <3>4. QED
        BY <3>2, <3>3, <2>0, <2>1, EndedStatus
    <2>5. ASSUME NEW p \in Parcels, Retire(p)
          PROVE  Cause(l)
      BY <2>5, <2>1 DEF Retire
    <2>6. ASSUME NEW s \in Slots, NEW p \in Parcels, NEW m \in Modes, NEW t \in Ttls,
                 NEW e \in BOOLEAN, Refresh(s, p, m, t, e)
          PROVE  Cause(l)
      <3> DEFINE mine == {k \in LiveOf(Owner[s]) : k.parcel = p /\ k.mode = m}
      <3>1. mine \in SUBSET leases /\ (leases' = Renewed(mine, t) \/ leases' = leases)
        BY <2>6 DEF Refresh, LiveOf
      <3> HIDE DEF mine, Cause
      <3>2. QED
        BY <3>1, <2>1, <2>2
    <2>7. ASSUME NEW s \in Slots, NEW i \in Ids, NEW t \in Ttls, Heartbeat(s, i, t)
          PROVE  Cause(l)
      <3> DEFINE mine == {k \in LiveOf(Owner[s]) : k.id = i}
      <3>1. mine \in SUBSET leases /\ leases' = Renewed(mine, t)
        BY <2>7 DEF Heartbeat, LiveOf
      <3> HIDE DEF mine, Cause
      <3>2. QED
        BY <3>1, <2>2
    <2>8. ASSUME leases \subseteq leases'
          PROVE  Cause(l)
      BY <2>8, <2>1
    <2> HIDE DEF Cause
    <2>9. ASSUME NEW s \in Slots, Handle(s)
          PROVE  Cause(l)
      BY <2>9, <2>3, <2>6, <2>7, <2>8
      DEF Handle, Count, EnsureParcel, Insert, SelectLease, EmitReleased, Fail
    <2>10. ASSUME NEW r \in Reapers, Sweep(r)
           PROVE  Cause(l)
      BY <2>10, <2>4, <2>8 DEF Sweep, ReadClock, EmitReaped, PassFails
    <2>11. CASE Tick \/ Crash \/ UNCHANGED vars \/ \E p \in Parcels : Index(p)
      BY <2>11, <2>8 DEF Tick, Crash, vars, Index
    <2>12. QED
      BY <1>1, <2>5, <2>9, <2>10, <2>11 DEF Next
  <1>2. ASSUME TypeOK, ClocksAgree, [Next]_vars
        PROVE  [Caused]_vars
    BY <1>1, <1>2
  <1>3. Init => ClocksAgree
    BY DEF Init, ClocksAgree, Idle
  <1>4. ASSUME TypeOK, ClocksAgree, [Next]_vars
        PROVE  ClocksAgree'
    BY <1>4, ClocksStay
  <1>5. QED
    BY <1>2, <1>3, <1>4, Typing, PTL DEF Spec, EndsForCause

-----------------------------------------------------------------------------
(* The three places the end of lease i can be: the events, a release whose *)
(* event is about to be written, a pass of a reaper.                       *)
Logged(i)       == \E x \in ended : x[1] = i
Releasing(s, i) == req[s].pc = "emit" /\ req[s].id = i
Reaping(r, i)   == reaper[r].pc = "emit" /\ i \in reaper[r].ids

NoEnd(i) == /\ ~Logged(i)
            /\ \A s \in Slots : ~Releasing(s, i)
            /\ \A r \in Reapers : ~Reaping(r, i)

OneEnd(i) ==
  /\ \A x, y \in ended : x[1] = i /\ y[1] = i => x = y
  /\ \A s \in Slots : Releasing(s, i) =>
       /\ ~Logged(i) /\ \A r \in Reapers : ~Reaping(r, i)
       /\ \A q \in Slots : Releasing(q, i) => q = s
  /\ \A r \in Reapers : Reaping(r, i) =>
       /\ ~Logged(i)
       /\ \A q \in Reapers : Reaping(q, i) => q = r

(* An id has one end at most; an active row, or an id not yet given, none. *)
EndInv == /\ \A i \in Nat : OneEnd(i)
          /\ \A i \in Nat : i > lastId => NoEnd(i)
          /\ \A l \in leases : l.status = "active" => NoEnd(l.id)

(* No row becomes active again under an id it had.                         *)
NoneAgain ==
  \A k \in leases' : k.status = "active" =>
    k.id > lastId \/ \E l \in leases : l.id = k.id /\ l.status = "active"

(* A step that ends no lease and writes no end keeps EndInv.               *)
LEMMA EndsFrame ==
  ASSUME TypeOK, TypeOK', EndInv, lastId' >= lastId, NoneAgain,
         ended' = ended,
         \A s \in Slots, i \in Nat : Releasing(s, i)' => Releasing(s, i),
         \A r \in Reapers, i \in Nat : Reaping(r, i)' => Reaping(r, i)
  PROVE  EndInv'
  <1>0. /\ lastId \in Nat /\ lastId' \in Nat
        /\ \A k \in leases' : k.id \in Nat
    BY LeasesAssumption DEF TypeOK, Lease
  <1>1. \A i \in Nat : Logged(i)' <=> Logged(i)
    BY DEF Logged
  <1>2. \A i \in Nat : NoEnd(i) => NoEnd(i)'
    BY <1>1 DEF NoEnd
  <1>3. \A i \in Nat : OneEnd(i)'
    BY <1>1 DEF OneEnd, EndInv
  <1>4. \A i \in Nat : i > lastId' => NoEnd(i)'
    BY <1>0, <1>2 DEF EndInv
  <1>5. \A k \in leases' : k.status = "active" => NoEnd(k.id)'
    BY <1>0, <1>2 DEF EndInv, NoneAgain
  <1>6. QED
    BY <1>3, <1>4, <1>5 DEF EndInv

(* The release whose UPDATE hit: the row was active, and is no more.       *)
LEMMA ReleaseEnds ==
  ASSUME TypeOK, TypeOK', EndInv, UniqueIds, NEW s \in Slots, ReleaseLease(s)
  PROVE  EndInv'
  <1> DEFINE i == req[s].id
             mine == ActiveOwn(s, i)
  <1>0. /\ leases \subseteq Lease /\ i \in Nat /\ lastId' = lastId /\ ended' = ended
        /\ reaper' = reaper /\ req[s].pc = "release" /\ req[s] \in Release
        /\ \A q \in Slots \ {s} : req'[q] = req[q]
    BY RequestKinds DEF TypeOK, ReleaseLease, Release
  <1>1. CASE mine = {}
    <2>1. leases' = leases /\ req'[s].pc = "idle"
      BY <1>1 DEF ReleaseLease, TypeOK, Idle
    <2>2. NoneAgain /\ lastId' >= lastId
      BY <2>1, <1>0, LeasesAssumption DEF NoneAgain, TypeOK
    <2>3. \A q \in Slots, j \in Nat : Releasing(q, j)' => Releasing(q, j)
      BY <2>1, <1>0 DEF Releasing
    <2>4. \A r \in Reapers, j \in Nat : Reaping(r, j)' => Reaping(r, j)
      BY <1>0 DEF Reaping
    <2>5. QED
      BY <2>2, <2>3, <2>4, <1>0, EndsFrame
  <1>2. CASE mine # {}
    <2>1. leases' = Ended(mine, "released") /\ req' = [req EXCEPT ![s].pc = "emit"]
      BY <1>2 DEF ReleaseLease
    <2>2. req'[s].pc = "emit" /\ req'[s].id = i
      BY <2>1, <1>0 DEF TypeOK, Release
    <2>3. PICK l \in leases : l.id = i /\ l.status = "active"
      BY <1>2 DEF ActiveOwn
    <2>4. NoEnd(i) /\ i <= lastId
      BY <2>3 DEF EndInv, UniqueIds
    <2>5. mine \subseteq leases /\ \A k \in leases' : k.status = "active" => k \in leases \ mine
      BY <2>1, <1>0, EndedStatus DEF ActiveOwn
    <2>6. \A k \in leases : k.id = i /\ k.status = "active" => k \in mine
      BY <1>2, <2>3 DEF ActiveOwn, UniqueIds
    <2>7. \A j \in Nat : Logged(j)' <=> Logged(j)
      BY <1>0 DEF Logged
    <2>8. \A r \in Reapers, j \in Nat : Reaping(r, j)' <=> Reaping(r, j)
      BY <1>0 DEF Reaping
    <2>9. \A q \in Slots, j \in Nat : Releasing(q, j)' <=> Releasing(q, j) \/ (q = s /\ j = i)
      BY <2>2, <1>0 DEF Releasing
    <2> HIDE DEF i, mine
    <2>10. \A j \in Nat : NoEnd(j) /\ j # i => NoEnd(j)'
      BY <2>7, <2>8, <2>9 DEF NoEnd
    <2>11. \A j \in Nat : OneEnd(j)'
      BY <2>4, <2>7, <2>8, <2>9, <1>0 DEF OneEnd, NoEnd, EndInv
    <2>12. \A j \in Nat : j > lastId' => NoEnd(j)'
      BY <2>4, <2>10, <1>0, LeasesAssumption DEF EndInv, TypeOK
    <2>13. ASSUME NEW k \in leases', k.status = "active"
           PROVE  NoEnd(k.id)'
      <3>1. k \in leases /\ k.id # i /\ k.id \in Nat
        BY <2>5, <2>6, <2>13, <1>0 DEF Lease
      <3>2. QED
        BY <3>1, <2>10, <2>13 DEF EndInv
    <2>14. QED
      BY <2>11, <2>12, <2>13 DEF EndInv
  <1>3. QED
    BY <1>1, <1>2

(* The UPDATE of a reaper: every row it ends was active.                   *)
LEMMA ReapEnds ==
  ASSUME TypeOK, TypeOK', EndInv, UniqueIds, NEW r \in Reapers, Reap(r)
  PROVE  EndInv'
  <1> DEFINE due == TimedOut(reaper[r].now)
             ids == {l.id : l \in due}
  <1>0. /\ leases \subseteq Lease /\ lastId' = lastId /\ ended' = ended /\ req' = req
        /\ leases' = Ended(due, "reaped") /\ reaper[r].pc = "update"
        /\ \A q \in Reapers \ {r} : reaper'[q] = reaper[q]
        /\ reaper'[r] = [pc |-> "emit", ids |-> ids]
    BY DEF TypeOK, Reap
  <1>1. due \subseteq leases /\ \A l \in due : l.status = "active"
    BY DEF TimedOut
  <1>2. \A k \in leases' : k.status = "active" => k \in leases \ due
    BY <1>0, <1>1, EndedStatus
  <1>3. \A i \in ids : NoEnd(i) /\ i <= lastId
    BY <1>1 DEF EndInv, UniqueIds
  <1>4. \A k \in leases : k.id \in ids => k \in due
    BY <1>1 DEF UniqueIds
  <1>5. \A j \in Nat : Logged(j)' <=> Logged(j)
    BY <1>0 DEF Logged
  <1>6. \A s \in Slots, j \in Nat : Releasing(s, j)' <=> Releasing(s, j)
    BY <1>0 DEF Releasing
  <1>7. \A q \in Reapers, j \in Nat : Reaping(q, j)' <=> Reaping(q, j) \/ (q = r /\ j \in ids)
    BY <1>0 DEF Reaping
  <1> HIDE DEF due, ids
  <1>8. \A j \in Nat : NoEnd(j) /\ j \notin ids => NoEnd(j)'
    BY <1>5, <1>6, <1>7 DEF NoEnd
  <1>9. \A j \in Nat : OneEnd(j)'
    BY <1>3, <1>5, <1>6, <1>7, <1>0 DEF OneEnd, NoEnd, EndInv
  <1>10. \A j \in Nat : j > lastId' => NoEnd(j)'
    BY <1>3, <1>8, <1>0, LeasesAssumption DEF EndInv, TypeOK
  <1>11. ASSUME NEW k \in leases', k.status = "active"
         PROVE  NoEnd(k.id)'
    <2>1. k \in leases /\ k.id \notin ids /\ k.id \in Nat
      BY <1>2, <1>4, <1>11, <1>0 DEF Lease
    <2>2. QED
      BY <2>1, <1>8, <1>11 DEF EndInv
  <1>12. QED
    BY <1>9, <1>10, <1>11 DEF EndInv

(* An end that is written moves from its request or pass to the events.    *)
LEMMA EmitEnds ==
  ASSUME TypeOK, TypeOK', EndInv, NEW i \in Nat, NEW k, ended' = ended \cup {<<i, k>>},
         leases' = leases, lastId' = lastId,
         \A s \in Slots, j \in Nat : Releasing(s, j)' <=> Releasing(s, j) /\ j # i,
         \A r \in Reapers, j \in Nat : Reaping(r, j)' <=> Reaping(r, j) /\ j # i,
         ~Logged(i), ~NoEnd(i)
  PROVE  EndInv'
  <1>0. <<i, k>>[1] = i
    OBVIOUS
  <1>1. \A j \in Nat : Logged(j)' <=> Logged(j) \/ j = i
    BY <1>0 DEF Logged
  <1>2. \A j \in Nat : NoEnd(j) => NoEnd(j)'
    BY <1>1 DEF NoEnd
  <1>3. ASSUME NEW j \in Nat
        PROVE  OneEnd(j)'
    <2>1. \A x, y \in ended' : x[1] = j /\ y[1] = j => x = y
      BY DEF Logged, EndInv, OneEnd
    <2>2. QED
      BY <2>1, <1>1 DEF OneEnd, EndInv
  <1>4. QED
    BY <1>2, <1>3, LeasesAssumption DEF EndInv, TypeOK, Lease

(* Every other statement ends nothing and writes no end.                   *)
LEMMA EndInvStep ==
  ASSUME TypeOK, TypeOK', EndInv, UniqueIds, [Next]_vars
  PROVE  EndInv'
  <1>0. leases \subseteq Lease /\ lastId \in Nat /\ lastId' \in Nat
    BY LeasesAssumption DEF TypeOK
  <1>1. ASSUME NoneAgain, lastId' >= lastId, ended' = ended, reaper' = reaper,
               \A s \in Slots : req'[s] = req[s] \/ req'[s].pc # "emit"
        PROVE  EndInv'
    <2>1. \A s \in Slots, i \in Nat : Releasing(s, i)' => Releasing(s, i)
      BY <1>1 DEF Releasing
    <2>2. \A r \in Reapers, i \in Nat : Reaping(r, i)' => Reaping(r, i)
      BY <1>1 DEF Reaping
    <2>3. QED
      BY <1>1, <2>1, <2>2, EndsFrame
  <1>2. ASSUME leases' \subseteq leases
        PROVE  NoneAgain
    BY <1>2 DEF NoneAgain
  <1>3. ASSUME NEW t, NEW rows \in SUBSET leases, leases' = Renewed(rows, t)
        PROVE  NoneAgain
    BY <1>3, <1>0, RenewedStatus DEF NoneAgain
  <1>4. ASSUME NEW s \in Slots, NEW p \in Parcels, NEW m \in Modes, NEW t \in Ttls,
               NEW e \in BOOLEAN, Refresh(s, p, m, t, e)
        PROVE  EndInv'
    <2> DEFINE mine == {k \in LiveOf(Owner[s]) : k.parcel = p /\ k.mode = m}
    <2>1. mine \in SUBSET leases /\ (leases' = Renewed(mine, t) \/ leases' = leases)
      BY <1>4 DEF Refresh, LiveOf
    <2>2. /\ lastId' = lastId /\ ended' = ended /\ reaper' = reaper
          /\ \A q \in Slots : req'[q] = req[q] \/ req'[q].pc # "emit"
      BY <1>4 DEF Refresh, TypeOK
    <2> HIDE DEF mine
    <2>3. QED
      BY <2>1, <2>2, <1>0, <1>1, <1>2, <1>3
  <1>5. ASSUME NEW s \in Slots, NEW i \in Ids, NEW t \in Ttls, Heartbeat(s, i, t)
        PROVE  EndInv'
    <2> DEFINE mine == {k \in LiveOf(Owner[s]) : k.id = i}
    <2>1. mine \in SUBSET leases /\ leases' = Renewed(mine, t)
      BY <1>5 DEF Heartbeat, LiveOf
    <2>2. lastId' = lastId /\ ended' = ended /\ reaper' = reaper /\ req' = req
      BY <1>5 DEF Heartbeat
    <2> HIDE DEF mine
    <2>3. QED
      BY <2>1, <2>2, <1>0, <1>1, <1>3
  <1>6. ASSUME NEW s \in Slots, Insert(s)
        PROVE  EndInv'
    <2>1. CASE UNCHANGED leases
      BY <1>6, <2>1, <1>0, <1>1, <1>2 DEF Insert, TypeOK, Idle
    <2>2. CASE ~UNCHANGED leases
      <3>1. leases' = leases \cup {NewLease(s)} /\ lastId' = lastId + 1
        BY <1>6, <2>2, InsertGrants
      <3>2. NewLease(s).id = lastId + 1
        BY DEF NewLease
      <3>3. NoneAgain
        BY <3>1, <3>2, <1>0 DEF NoneAgain
      <3>4. QED
        BY <1>6, <3>1, <3>3, <1>0, <1>1 DEF Insert, TypeOK, Idle
    <2>3. QED
      BY <2>1, <2>2
  <1>7. ASSUME NEW s \in Slots, Count(s) \/ EnsureParcel(s)
        PROVE  EndInv'
    <2>1. req[s] \in Acquire
      BY <1>7, RequestKinds DEF Count, EnsureParcel, TypeOK
    <2>2. \A q \in Slots : req'[q] = req[q] \/ req'[q].pc # "emit"
      BY <1>7, <2>1 DEF Count, EnsureParcel, TypeOK, Acquire, Idle
    <2>3. leases' = leases /\ lastId' = lastId /\ ended' = ended /\ reaper' = reaper
      BY <1>7 DEF Count, EnsureParcel
    <2>4. QED
      BY <2>2, <2>3, <1>0, <1>1, <1>2
  <1>8. ASSUME NEW s \in Slots, Fail(s) \/ \E i \in Ids : SelectLease(s, i)
        PROVE  EndInv'
    <2>1. \A q \in Slots : req'[q] = req[q] \/ req'[q].pc # "emit"
      BY <1>8 DEF Fail, SelectLease, TypeOK, Idle
    <2>2. leases' = leases /\ lastId' = lastId /\ ended' = ended /\ reaper' = reaper
      BY <1>8 DEF Fail, SelectLease
    <2>3. QED
      BY <2>1, <2>2, <1>0, <1>1, <1>2
  <1>9. ASSUME NEW s \in Slots, EmitReleased(s)
        PROVE  EndInv'
    <2> DEFINE i == req[s].id
    <2>1. i \in Nat /\ Releasing(s, i)
      BY <1>9, RequestKinds DEF EmitReleased, TypeOK, Release, Releasing
    <2>2. /\ ended' = ended \cup {<<i, "released">>} /\ leases' = leases /\ lastId' = lastId
          /\ reaper' = reaper /\ req'[s].pc = "idle"
          /\ \A q \in Slots \ {s} : req'[q] = req[q]
      BY <1>9 DEF EmitReleased, TypeOK, Idle
    <2>3. OneEnd(i) /\ ~Logged(i) /\ ~NoEnd(i)
      BY <2>1 DEF EndInv, OneEnd, NoEnd
    <2>4. \A q \in Slots, j \in Nat : Releasing(q, j)' <=> Releasing(q, j) /\ j # i
      BY <2>1, <2>2, <2>3 DEF Releasing, OneEnd
    <2>5. \A r \in Reapers, j \in Nat : Reaping(r, j)' <=> Reaping(r, j) /\ j # i
      BY <2>1, <2>2, <2>3 DEF Reaping, OneEnd
    <2> HIDE DEF i
    <2>6. QED
      BY <2>1, <2>2, <2>3, <2>4, <2>5, EmitEnds
  <1>10. ASSUME NEW r \in Reapers, EmitReaped(r)
         PROVE  EndInv'
    <2>0. reaper[r] \in [pc : {"emit"}, ids : SUBSET (Nat \ {0})]
      BY <1>10, PassKinds DEF EmitReaped, TypeOK
    <2>1. CASE reaper[r].ids = {}
      <3>1. /\ leases' = leases /\ lastId' = lastId /\ ended' = ended /\ req' = req
            /\ \A q \in Reapers : reaper'[q] = reaper[q] \/ reaper'[q].pc # "emit"
        BY <1>10, <2>1 DEF EmitReaped, TypeOK, Idle
      <3>2. /\ \A s \in Slots, j \in Nat : Releasing(s, j)' => Releasing(s, j)
            /\ \A q \in Reapers, j \in Nat : Reaping(q, j)' => Reaping(q, j)
        BY <3>1 DEF Releasing, Reaping
      <3>3. QED
        BY <3>1, <3>2, <1>0, <1>2, EndsFrame
    <2>2. ASSUME NEW i \in reaper[r].ids, ended' = ended \cup {<<i, "reaped">>},
                 reaper' = [reaper EXCEPT ![r].ids = @ \ {i}]
          PROVE  EndInv'
      <3>1. i \in Nat /\ Reaping(r, i)
        BY <1>10, <2>0, <2>2 DEF EmitReaped, Reaping
      <3>2. /\ leases' = leases /\ lastId' = lastId /\ req' = req
            /\ reaper'[r].pc = "emit" /\ reaper'[r].ids = reaper[r].ids \ {i}
            /\ \A q \in Reapers \ {r} : reaper'[q] = reaper[q]
        BY <1>10, <2>0, <2>2 DEF EmitReaped, TypeOK
      <3>3. OneEnd(i) /\ ~Logged(i) /\ ~NoEnd(i)
        BY <3>1 DEF EndInv, OneEnd, NoEnd
      <3>4. \A s \in Slots, j \in Nat : Releasing(s, j)' <=> Releasing(s, j) /\ j # i
        BY <3>1, <3>2, <3>3 DEF Releasing, OneEnd
      <3>5. \A q \in Reapers, j \in Nat : Reaping(q, j)' <=> Reaping(q, j) /\ j # i
        BY <3>1, <3>2, <3>3, <2>0 DEF Reaping, OneEnd
      <3>6. QED
        BY <2>2, <3>1, <3>2, <3>3, <3>4, <3>5, EmitEnds
    <2>3. QED
      BY <1>10, <2>1, <2>2 DEF EmitReaped
  <1>11. ASSUME NEW r \in Reapers, ReadClock(r) \/ PassFails(r)
         PROVE  EndInv'
    <2>1. /\ leases' = leases /\ lastId' = lastId /\ ended' = ended /\ req' = req
          /\ \A q \in Reapers : reaper'[q] = reaper[q] \/ reaper'[q].pc # "emit"
      BY <1>11 DEF ReadClock, PassFails, TypeOK, Idle
    <2>2. /\ \A s \in Slots, j \in Nat : Releasing(s, j)' => Releasing(s, j)
          /\ \A q \in Reapers, j \in Nat : Reaping(q, j)' => Reaping(q, j)
      BY <2>1 DEF Releasing, Reaping
    <2>3. QED
      BY <2>1, <2>2, <1>0, <1>2, EndsFrame
  <1>12. CASE Crash
    <2>1. leases' = leases /\ lastId' = lastId /\ ended' = ended
      BY <1>12 DEF Crash
    <2>2. /\ \A s \in Slots, j \in Nat : ~Releasing(s, j)'
          /\ \A q \in Reapers, j \in Nat : ~Reaping(q, j)'
      BY <1>12 DEF Crash, Releasing, Reaping, Idle
    <2>3. QED
      BY <2>1, <2>2, <1>0, <1>2, EndsFrame
  <1>13. ASSUME NEW p \in Parcels, Index(p) \/ Retire(p)
         PROVE  EndInv'
    BY <1>13, <1>0, <1>1, <1>2 DEF Index, Retire
  <1>14. CASE Tick \/ UNCHANGED vars
    BY <1>14, <1>0, <1>1, <1>2 DEF Tick, vars
  <1>15. ASSUME NEW s \in Slots, Handle(s)
         PROVE  EndInv'
    BY <1>15, <1>4, <1>5, <1>6, <1>7, <1>8, <1>9, ReleaseEnds DEF Handle
  <1>16. ASSUME NEW r \in Reapers, Sweep(r)
         PROVE  EndInv'
    BY <1>16, <1>10, <1>11, ReapEnds DEF Sweep
  <1>17. QED
    BY <1>12, <1>13, <1>14, <1>15, <1>16 DEF Next

(* A lease ends once: whatever releases and reapers race, and whichever of *)
(* them dies, no lease is recorded as ended twice.                         *)
THEOREM OneEndEach == Spec => []EndsOnce
  <1>1. Init => EndInv
    BY LeasesAssumption
    DEF Init, EndInv, OneEnd, NoEnd, Logged, Releasing, Reaping, Idle
  <1>2. TypeOK /\ EndInv => EndsOnce
    <2> SUFFICES ASSUME TypeOK, EndInv PROVE EndsOnce
      OBVIOUS
    <2>1. ASSUME NEW i \in Ids
          PROVE  Cardinality(Endings(i)) <= 1
      <3>1. i \in Nat /\ OneEnd(i)
        BY LeasesAssumption DEF Ids, EndInv
      <3>2. \A x, y \in Endings(i) : x = y
        BY <3>1 DEF OneEnd, Endings, Logged, Releasing, Reaping
      <3>3. CASE Endings(i) = {}
        BY <3>3, FS_EmptySet
      <3>4. ASSUME NEW x \in Endings(i)
            PROVE  Cardinality(Endings(i)) <= 1
        <4>1. Endings(i) = {x}
          BY <3>2
        <4> HIDE DEF Endings
        <4>2. Cardinality(Endings(i)) = 1
          BY <4>1, FS_Singleton
        <4>3. QED
          BY <4>2
      <3>5. QED
        BY <3>3, <3>4
    <2>2. ASSUME NEW l \in leases, l.status = "active"
          PROVE  Endings(l.id) = {}
      <3>1. NoEnd(l.id)
        BY <2>2 DEF EndInv
      <3>2. QED
        BY <3>1 DEF NoEnd, Endings, Logged, Releasing, Reaping
    <2>3. QED
      BY <2>1, <2>2 DEF EndsOnce
  <1>3. TypeOK /\ TypeOK' /\ UniqueIds /\ EndInv /\ [Next]_vars => EndInv'
    BY EndInvStep
  <1>4. QED
    BY <1>1, <1>2, <1>3, Typing, RowIdsUnique, PTL DEF Spec

-----------------------------------------------------------------------------
(* Rows with ids of their own that continue rows of T are no more than T.  *)
LEMMA NoMoreRows ==
  ASSUME NEW S, NEW T, IsFiniteSet(T),
         \A k \in S : \E l \in T : k.id = l.id,
         \A j, k \in S : j.id = k.id => j = k
  PROVE  IsFiniteSet(S) /\ Cardinality(S) <= Cardinality(T)
  <1> DEFINE f == [k \in S |-> CHOOSE l \in T : k.id = l.id]
  <1>1. \A k \in S : f[k] \in T /\ f[k].id = k.id
    OBVIOUS
  <1>2. f \in [S -> T]
    BY <1>1
  <1> HIDE DEF f
  <1>3. \A j, k \in S : f[j] = f[k] => j = k
    BY <1>1
  <1>4. f \in Injection(S, T)
    BY <1>2, <1>3 DEF Injection, IsInjective
  <1>5. QED
    BY <1>4, FS_Injection

(* The threads of an agent that are past the refresh with a request for    *)
(* parcel p and mode m, and the rows it already has for them.              *)
Racing(a, p, m) == {s \in SlotsOf(a) : /\ req[s].pc \in {"count", "ensure", "insert"}
                                       /\ req[s].parcel = p
                                       /\ req[s].mode = m}
Mine(a, p, m) == {l \in LiveOf(a) : Same(l, a, p, m)}

(* How a request comes past the COUNT, and past the refresh.               *)
Onward(s) ==
  /\ req'[s].pc \in {"ensure", "insert"} =>
       /\ req[s].pc \in {"count", "ensure", "insert"}
       /\ req[s].pc = "count" => Cardinality(LiveOf(Owner[s])) < MaxLeases
  /\ req'[s].pc \in {"count", "ensure", "insert"} =>
       \/ /\ req[s].pc \in {"count", "ensure", "insert"}
          /\ req'[s].parcel = req[s].parcel /\ req'[s].mode = req[s].mode
       \/ Mine(Owner[s], req'[s].parcel, req'[s].mode) = {}

(* Every step lets a request on in no other way.                           *)
LEMMA StepsOnward ==
  ASSUME TypeOK, [Next]_vars, NEW s \in Slots
  PROVE  Onward(s)
  <1>0. req \in [Slots -> Request]
    BY DEF TypeOK
  <1>1. ASSUME req'[s] = req[s] \/ req'[s].pc \notin {"count", "ensure", "insert"}
        PROVE  Onward(s)
    <2>1. CASE req'[s] = req[s] /\ req[s].pc \in {"count", "ensure", "insert"}
               /\ req[s].pc # "count"
      BY <2>1 DEF Onward
    <2>2. CASE req'[s] = req[s] /\ req[s].pc = "count"
      BY <2>2 DEF Onward
    <2>3. CASE req'[s].pc \notin {"count", "ensure", "insert"}
      BY <2>3 DEF Onward
    <2>4. QED
      BY <1>1, <2>1, <2>2, <2>3
  <1>2. ASSUME NEW q \in Slots, NEW p \in Parcels, NEW m \in Modes, NEW t \in Ttls,
               NEW e \in BOOLEAN, Refresh(q, p, m, t, e)
        PROVE  Onward(s)
    <2>1. CASE req'[s] = req[s]
      BY <1>1, <2>1
    <2>2. CASE req'[s] # req[s]
      <3>1. /\ s = q
            /\ req'[s] = [pc |-> "count", parcel |-> p, mode |-> m, ttl |-> t, ensure |-> e]
            /\ {l \in LiveOf(Owner[s]) : l.parcel = p /\ l.mode = m} = {}
        BY <1>0, <1>2, <2>2 DEF Refresh
      <3>2. Mine(Owner[s], p, m) = {}
        BY <3>1 DEF Mine, Same
      <3>3. QED
        BY <3>1, <3>2 DEF Onward
    <2>3. QED
      BY <2>1, <2>2
  <1>3. ASSUME NEW q \in Slots, Count(q) \/ EnsureParcel(q)
        PROVE  Onward(s)
    <2>1. CASE s # q
      BY <1>0, <1>1, <1>3, <2>1 DEF Count, EnsureParcel
    <2>2. CASE s = q
      <3>1. req[s] \in Acquire
        BY <1>0, <1>3, <2>2, RequestKinds DEF Count, EnsureParcel
      <3>2. ASSUME NEW c \in {"ensure", "insert"}, req' = [req EXCEPT ![s].pc = c]
            PROVE  req'[s].pc = c /\ req'[s].parcel = req[s].parcel /\ req'[s].mode = req[s].mode
        BY <1>0, <3>1, <3>2 DEF Acquire
      <3>3. CASE EnsureParcel(q)
        BY <2>2, <3>2, <3>3 DEF EnsureParcel, Onward
      <3>4. CASE Count(q) /\ Cardinality(LiveOf(Owner[s])) < MaxLeases
                 /\ \E c \in {"ensure", "insert"} : req' = [req EXCEPT ![s].pc = c]
        BY <2>2, <3>2, <3>4 DEF Count, Onward
      <3>5. CASE req'[s] = Idle
        BY <1>1, <3>5 DEF Idle
      <3>6. QED
        BY <1>0, <1>3, <2>2, <3>3, <3>4, <3>5 DEF Count
    <2>3. QED
      BY <2>1, <2>2
  <1>4. ASSUME NEW q \in Slots,
               \/ Insert(q) \/ EmitReleased(q) \/ Fail(q)
               \/ \E i \in Ids : SelectLease(q, i)
        PROVE  Onward(s)
    BY <1>0, <1>1, <1>4 DEF Insert, EmitReleased, Fail, SelectLease, Idle
  <1>5. ASSUME NEW q \in Slots, ReleaseLease(q)
        PROVE  Onward(s)
    <2>1. CASE s # q
      BY <1>0, <1>1, <1>5, <2>1 DEF ReleaseLease
    <2>2. CASE s = q
      <3>1. req[s] \in Release
        BY <1>0, <1>5, <2>2, RequestKinds DEF ReleaseLease
      <3>2. req'[s].pc \in {"emit", "idle"}
        BY <1>0, <1>5, <2>2, <3>1 DEF ReleaseLease, Release, Idle
      <3>3. QED
        BY <1>1, <3>2
    <2>3. QED
      BY <2>1, <2>2
  <1>6. ASSUME req' = req
        PROVE  Onward(s)
    BY <1>1, <1>6
  <1>7. ASSUME NEW q \in Slots, NEW i \in Ids, NEW t \in Ttls, Heartbeat(q, i, t)
        PROVE  Onward(s)
    BY <1>6, <1>7 DEF Heartbeat
  <1>8. ASSUME NEW r \in Reapers, Sweep(r)
        PROVE  Onward(s)
    BY <1>6, <1>8 DEF Sweep, ReadClock, Reap, EmitReaped, PassFails
  <1>9. ASSUME NEW p \in Parcels, Index(p) \/ Retire(p)
        PROVE  Onward(s)
    BY <1>6, <1>9 DEF Index, Retire
  <1>10. CASE Crash
    BY <1>1, <1>10 DEF Crash, Idle
  <1>11. CASE Tick \/ UNCHANGED vars
    BY <1>6, <1>11 DEF Tick, vars
  <1>12. ASSUME NEW q \in Slots, Handle(q)
         PROVE  Onward(s)
    BY <1>12, <1>2, <1>3, <1>4, <1>5, <1>7 DEF Handle
  <1>13. QED
    BY <1>8, <1>9, <1>10, <1>11, <1>12 DEF Next

(* The two bounds, at one agent and one claim.                             *)
QuotaAt(a) ==
  SlotsOf(a) # {} =>
    Cardinality(LiveOf(a)) + Cardinality(Admitted(a)) < MaxLeases + Cardinality(SlotsOf(a))
DuplicatesAt(a, p, m) ==
  Cardinality(Mine(a, p, m)) + Cardinality(Racing(a, p, m)) <= Cardinality(SlotsOf(a))

RaceInv == /\ \A a \in Agents : IsFiniteSet(LiveOf(a)) /\ QuotaAt(a)
           /\ \A a \in Agents, p \in Parcels, m \in Modes : DuplicatesAt(a, p, m)

(* Sets of threads are finite.                                             *)
LEMMA FewThreads ==
  ASSUME NEW a, NEW R \in SUBSET SlotsOf(a)
  PROVE  /\ IsFiniteSet(R) /\ Cardinality(R) \in Nat /\ Cardinality(R) <= Cardinality(SlotsOf(a))
         /\ Cardinality(SlotsOf(a)) \in Nat
  <1>1. IsFiniteSet(SlotsOf(a))
    BY LeasesAssumption, FS_Subset DEF SlotsOf
  <1>2. IsFiniteSet(R) /\ Cardinality(R) <= Cardinality(SlotsOf(a))
    BY <1>1, FS_Subset
  <1>3. QED
    BY <1>1, <1>2, FS_CardinalityType

(* A step that inserts nothing makes no more rows live, and lets requests  *)
(* in only past a COUNT below the cap or a refresh that found nothing.     *)
LEMMA RacesElsewhere ==
  ASSUME TypeOK, UniqueIds', RaceInv, [Next]_vars, \A s \in Slots : Insert(s) => UNCHANGED leases
  PROVE  RaceInv'
  <1>1. \A k \in leases' : Live(k)' => \E l \in leases : Live(l) /\ Continues(k, l)
    BY StepContinues
  <1>2. \A j, k \in leases' : j.id = k.id => j = k
    BY DEF UniqueIds
  <1>3. ASSUME NEW a \in Agents
        PROVE  IsFiniteSet(LiveOf(a)') /\ Cardinality(LiveOf(a)') <= Cardinality(LiveOf(a))
    <2>1. \A k \in LiveOf(a)' : \E l \in LiveOf(a) : k.id = l.id
      BY <1>1 DEF LiveOf, Continues
    <2>2. \A j, k \in LiveOf(a)' : j.id = k.id => j = k
      BY <1>2 DEF LiveOf
    <2>3. IsFiniteSet(LiveOf(a))
      BY DEF RaceInv
    <2>4. QED
      BY <2>1, <2>2, <2>3, NoMoreRows
  <1>4. ASSUME NEW a \in Agents
        PROVE  QuotaAt(a)'
    <2>1. SUFFICES ASSUME SlotsOf(a) # {}
                   PROVE  Cardinality(LiveOf(a)') + Cardinality(Admitted(a)')
                            < MaxLeases + Cardinality(SlotsOf(a))
      BY DEF QuotaAt, SlotsOf
    <2>2. /\ Cardinality(LiveOf(a)) \in Nat /\ Cardinality(LiveOf(a)') \in Nat
          /\ Cardinality(LiveOf(a)') <= Cardinality(LiveOf(a)) /\ MaxLeases \in Nat
      BY <1>3, FS_CardinalityType, LeasesAssumption DEF RaceInv
    <2>3. Admitted(a) \subseteq SlotsOf(a) /\ Admitted(a)' \subseteq SlotsOf(a)
      BY DEF Admitted, SlotsOf
    <2>4. CASE Admitted(a)' \subseteq Admitted(a)
      <3>1. /\ Cardinality(Admitted(a)) \in Nat /\ Cardinality(Admitted(a)') \in Nat
            /\ Cardinality(SlotsOf(a)) \in Nat
            /\ Cardinality(Admitted(a)') <= Cardinality(Admitted(a))
        BY <2>3, <2>4, FewThreads, FS_Subset
      <3>2. QED
        BY <2>1, <2>2, <3>1 DEF RaceInv, QuotaAt
    <2>5. CASE ~(Admitted(a)' \subseteq Admitted(a))
      <3>1. PICK s \in SlotsOf(a) : s \in Admitted(a)' /\ s \notin Admitted(a)
        BY <2>3, <2>5
      <3>2. s \in Slots /\ Onward(s)
        BY <3>1, StepsOnward DEF SlotsOf
      <3>3. Cardinality(LiveOf(a)) < MaxLeases
        BY <3>1, <3>2 DEF Onward, Admitted, SlotsOf
      <3>4. /\ Cardinality(Admitted(a)') \in Nat /\ Cardinality(SlotsOf(a)) \in Nat
            /\ Cardinality(Admitted(a)') <= Cardinality(SlotsOf(a))
        BY <2>3, FewThreads
      <3>5. QED
        BY <2>2, <3>3, <3>4
    <2>6. QED
      BY <2>4, <2>5
  <1>5. ASSUME NEW a \in Agents, NEW p \in Parcels, NEW m \in Modes
        PROVE  DuplicatesAt(a, p, m)'
    <2> DEFINE M == Mine(a, p, m)
               R == Racing(a, p, m)
    <2>1. IsFiniteSet(M) /\ Cardinality(M) \in Nat
      BY FS_Subset, FS_CardinalityType DEF Mine, RaceInv
    <2>2. IsFiniteSet(M') /\ Cardinality(M') <= Cardinality(M)
      <3>1. \A k \in M' : \E l \in M : k.id = l.id
        BY <1>1 DEF Mine, LiveOf, Same, Continues
      <3>2. \A j, k \in M' : j.id = k.id => j = k
        BY <1>2 DEF Mine, LiveOf
      <3> HIDE DEF M
      <3>3. QED
        BY <3>1, <3>2, <2>1, NoMoreRows
    <2>3. Cardinality(M') \in Nat
      BY <2>2, FS_CardinalityType
    <2>4. R \subseteq SlotsOf(a) /\ R' \subseteq SlotsOf(a)
      BY DEF Racing, SlotsOf
    <2>5. /\ Cardinality(R) \in Nat /\ Cardinality(R') \in Nat /\ Cardinality(SlotsOf(a)) \in Nat
          /\ Cardinality(R') <= Cardinality(SlotsOf(a))
          /\ R' \subseteq R => Cardinality(R') <= Cardinality(R)
      BY <2>4, FewThreads, FS_Subset
    <2>6. R' \subseteq R \/ M = {}
      <3> SUFFICES ASSUME NEW s \in R', s \notin R
                   PROVE  M = {}
        OBVIOUS
      <3>1. s \in Slots /\ Owner[s] = a /\ Onward(s) /\ req'[s].parcel = p /\ req'[s].mode = m
            /\ req'[s].pc \in {"count", "ensure", "insert"}
        BY StepsOnward DEF Racing, SlotsOf
      <3>2. QED
        BY <3>1 DEF Onward, Racing, SlotsOf
    <2>7. DuplicatesAt(a, p, m)
      BY DEF RaceInv
    <2> HIDE DEF M, R
    <2>8. Cardinality(M) + Cardinality(R) <= Cardinality(SlotsOf(a))
      BY <2>7 DEF DuplicatesAt, M, R
    <2>9. M = {} => Cardinality(M) = 0
      BY FS_EmptySet
    <2>10. Cardinality(M') + Cardinality(R') <= Cardinality(SlotsOf(a))
      BY <2>1, <2>2, <2>3, <2>5, <2>6, <2>8, <2>9
    <2>11. QED
      BY <2>10 DEF DuplicatesAt, M, R, SlotsOf
  <1>6. QED
    BY <1>3, <1>4, <1>5 DEF RaceInv

(* A granting INSERT turns a request that was counted into a row.          *)
LEMMA RacesGrant ==
  ASSUME TypeOK, RaceInv, NEW s \in Slots, Insert(s), ~UNCHANGED leases
  PROVE  RaceInv'
  <1>n. PICK n : n = NewLease(s)
    OBVIOUS
  <1>1. /\ now' = now /\ leases' = leases \cup {n} /\ n.agent = Owner[s]
        /\ n.parcel = req[s].parcel /\ n.mode = req[s].mode
    BY <1>n, InsertGrants DEF NewLease
  <1>2. /\ req[s].pc = "insert" /\ req'[s].pc = "idle"
        /\ \A q \in Slots \ {s} : req'[q] = req[q]
    BY DEF Insert, TypeOK, Idle
  <1>3. ASSUME NEW a \in Agents
        PROVE  LiveOf(a)' \subseteq LiveOf(a) \cup (IF a = Owner[s] THEN {n} ELSE {})
    BY <1>1 DEF LiveOf, Live
  <1>4. ASSUME NEW S, NEW T, IsFiniteSet(S), T \subseteq S \cup {n}
        PROVE  /\ IsFiniteSet(T) /\ Cardinality(T) \in Nat /\ Cardinality(S) \in Nat
               /\ Cardinality(T) <= Cardinality(S) + 1
    <2>1. /\ IsFiniteSet(S \cup {n}) /\ Cardinality(S \cup {n}) <= Cardinality(S) + 1
          /\ Cardinality(S) \in Nat
      <3>1. Cardinality(S) \in Nat
        BY <1>4, FS_CardinalityType
      <3>2. /\ IsFiniteSet(S \cup {n})
            /\ \/ Cardinality(S \cup {n}) = Cardinality(S)
               \/ Cardinality(S \cup {n}) = Cardinality(S) + 1
        BY <1>4, FS_AddElement
      <3>3. QED
        BY <3>1, <3>2
    <2>2. IsFiniteSet(T) /\ Cardinality(T) <= Cardinality(S \cup {n})
      BY <1>4, <2>1, FS_Subset
    <2>3. Cardinality(T) \in Nat /\ Cardinality(S \cup {n}) \in Nat
      BY <2>1, <2>2, FS_CardinalityType
    <2>4. QED
      BY <2>1, <2>2, <2>3
  <1>5. ASSUME NEW S, NEW T, IsFiniteSet(S), T \subseteq S
        PROVE  /\ IsFiniteSet(T) /\ Cardinality(T) \in Nat /\ Cardinality(S) \in Nat
               /\ Cardinality(T) <= Cardinality(S)
    BY <1>5, FS_Subset, FS_CardinalityType
  <1>6. ASSUME NEW R, IsFiniteSet(R), s \in R
        PROVE  Cardinality(R \ {s}) = Cardinality(R) - 1 /\ Cardinality(R) \in Nat
    BY <1>6, FS_RemoveElement, FS_CardinalityType
  <1>7. ASSUME NEW a \in Agents
        PROVE  IsFiniteSet(LiveOf(a)') /\ QuotaAt(a)'
    <2>1. IsFiniteSet(LiveOf(a)) /\ QuotaAt(a)
      BY DEF RaceInv
    <2>2. IsFiniteSet(Admitted(a)) /\ Cardinality(SlotsOf(a)) \in Nat
      BY FewThreads DEF Admitted
    <2>3. CASE a = Owner[s]
      <3>1. s \in Admitted(a) /\ Admitted(a)' = Admitted(a) \ {s} /\ SlotsOf(a) # {}
        BY <1>2, <2>3 DEF Admitted, SlotsOf
      <3>2. /\ IsFiniteSet(LiveOf(a)') /\ Cardinality(LiveOf(a)') \in Nat
            /\ Cardinality(LiveOf(a)) \in Nat
            /\ Cardinality(LiveOf(a)') <= Cardinality(LiveOf(a)) + 1
        BY <1>3, <1>4, <2>1, <2>3
      <3>3. /\ Cardinality(Admitted(a)') = Cardinality(Admitted(a)) - 1
            /\ Cardinality(Admitted(a)) \in Nat
        BY <1>6, <2>2, <3>1
      <3>4. Cardinality(LiveOf(a)') + Cardinality(Admitted(a)')
              < MaxLeases + Cardinality(SlotsOf(a))
        BY <2>1, <2>2, <3>1, <3>2, <3>3, LeasesAssumption DEF QuotaAt
      <3>5. QED
        BY <3>2, <3>4 DEF QuotaAt, SlotsOf
    <2>4. CASE a # Owner[s]
      <3>1. Admitted(a)' = Admitted(a)
        BY <1>2, <2>4 DEF Admitted, SlotsOf
      <3>2. /\ IsFiniteSet(LiveOf(a)') /\ Cardinality(LiveOf(a)') \in Nat
            /\ Cardinality(LiveOf(a)) \in Nat
            /\ Cardinality(LiveOf(a)') <= Cardinality(LiveOf(a))
        BY <1>3, <1>5, <2>1, <2>4
      <3>3. Cardinality(Admitted(a)) \in Nat
        BY <2>2, FS_CardinalityType
      <3>4. SlotsOf(a) # {} => Cardinality(LiveOf(a)') + Cardinality(Admitted(a)')
                                 < MaxLeases + Cardinality(SlotsOf(a))
        BY <2>1, <2>2, <3>1, <3>2, <3>3, LeasesAssumption DEF QuotaAt
      <3>5. QED
        BY <3>2, <3>4 DEF QuotaAt, SlotsOf
    <2>5. QED
      BY <2>3, <2>4
  <1>8. ASSUME NEW a \in Agents, NEW p \in Parcels, NEW m \in Modes
        PROVE  DuplicatesAt(a, p, m)'
    <2> DEFINE M == Mine(a, p, m)
               R == Racing(a, p, m)
               C == Cardinality(SlotsOf(a))
    <2>1. IsFiniteSet(M)
      BY FS_Subset DEF Mine, RaceInv
    <2>2. R \subseteq SlotsOf(a) /\ C \in Nat /\ IsFiniteSet(R)
      BY FewThreads DEF Racing
    <2>3. Cardinality(M) + Cardinality(R) <= C
      BY DEF RaceInv, DuplicatesAt
    <2>4. CASE a = Owner[s] /\ p = req[s].parcel /\ m = req[s].mode
      <3>1. M' \subseteq M \cup {n}
        BY <1>3, <1>1 DEF Mine, Same
      <3>2. s \in R /\ R' = R \ {s}
        BY <1>2, <2>4 DEF Racing, SlotsOf
      <3> HIDE DEF M, R, C
      <3>3. Cardinality(M') + Cardinality(R') <= C
        BY <1>4, <1>6, <2>1, <2>2, <2>3, <3>1, <3>2
      <3>4. QED
        BY <3>3 DEF DuplicatesAt, SlotsOf, M, R, C
    <2>5. CASE ~(a = Owner[s] /\ p = req[s].parcel /\ m = req[s].mode)
      <3>1. M' \subseteq M
        BY <1>1, <2>5 DEF Mine, Same, LiveOf, Live
      <3>2. R' \subseteq R
        BY <1>2 DEF Racing, SlotsOf
      <3> HIDE DEF M, R, C
      <3>3. Cardinality(M') + Cardinality(R') <= C
        BY <1>5, <2>1, <2>2, <2>3, <3>1, <3>2
      <3>4. QED
        BY <3>3 DEF DuplicatesAt, SlotsOf, M, R, C
    <2>6. QED
      BY <2>4, <2>5
  <1>9. QED
    BY <1>7, <1>8 DEF RaceInv

(* The two excesses are bounded by the number of threads of the agent, for *)
(* any cap and any number of threads: a request that was counted is paid   *)
(* for by the slot it runs on.                                             *)
THEOREM RacesBounded == Spec => []RacesAreBounded
  <1>1. Init => RaceInv
    <2> SUFFICES ASSUME Init PROVE RaceInv
      OBVIOUS
    <2>1. \A a \in Agents : LiveOf(a) = {} /\ Admitted(a) = {}
      BY DEF Init, LiveOf, Admitted, SlotsOf, Idle
    <2>2. \A a \in Agents, p \in Parcels, m \in Modes : Mine(a, p, m) = {} /\ Racing(a, p, m) = {}
      BY <2>1 DEF Init, Mine, Racing, SlotsOf, Idle
    <2>3. IsFiniteSet({}) /\ Cardinality({}) = 0
      BY FS_EmptySet
    <2>4. \A a \in Agents : Cardinality(SlotsOf(a)) \in Nat
      BY FewThreads
    <2>5. \A a \in Agents : SlotsOf(a) # {} => 0 < MaxLeases + Cardinality(SlotsOf(a))
      BY <2>4, LeasesAssumption
    <2>6. \A a \in Agents : IsFiniteSet(LiveOf(a)) /\ QuotaAt(a)
      BY <2>1, <2>3, <2>5 DEF QuotaAt
    <2>7. \A a \in Agents, p \in Parcels, m \in Modes : DuplicatesAt(a, p, m)
      BY <2>2, <2>3, <2>4 DEF DuplicatesAt
    <2>8. QED
      BY <2>6, <2>7 DEF RaceInv
  <1>2. RaceInv => RacesAreBounded
    BY DEF RaceInv, QuotaAt, DuplicatesAt, Mine, Racing, RacesAreBounded, QuotaBound, DuplicateBound
  <1>3. TypeOK /\ UniqueIds' /\ RaceInv /\ [Next]_vars => RaceInv'
    BY RacesElsewhere, RacesGrant
  <1>4. QED
    BY <1>1, <1>2, <1>3, Typing, RowIdsUnique, PTL DEF Spec

-----------------------------------------------------------------------------
(* The claims of the table, as the refinement mapping of Leases sees them. *)
Claims == [p \in Parcels |-> ClaimsOn(p)]

(* What a granting INSERT does to the claims.                              *)
LEMMA GrantClaims ==
  ASSUME TypeOK, NEW s \in Slots, Insert(s), ~UNCHANGED leases
  PROVE  /\ req[s].parcel \in Parcels
         /\ <<Owner[s], req[s].mode>> \in Agents \X Modes
         /\ \A d \in ClaimsOn(req[s].parcel) : Lock!Compatible(<<Owner[s], req[s].mode>>, d)
         /\ Claims' = [Claims EXCEPT ![req[s].parcel] =
                          @ \cup {<<Owner[s], req[s].mode>>}]
  <1> DEFINE p == req[s].parcel
             c == <<Owner[s], req[s].mode>>
  <1>1. p \in Parcels /\ req[s].mode \in Modes /\ req[s].ttl \in Ttls
    BY RequestKinds DEF Insert, TypeOK, Acquire
  <1>2. Owner[s] \in Agents /\ c \in Agents \X Modes
    BY <1>1, LeasesAssumption
  <1>3. \A d \in ClaimsOn(p) : Lock!Compatible(c, d)
    <2> SUFFICES ASSUME NEW l \in leases, l.parcel = p, Live(l)
                 PROVE  Lock!Compatible(c, <<l.agent, l.mode>>)
      BY DEF ClaimsOn
    <2>1. ~Conflict(l, Owner[s], req[s].mode)
      BY InsertGrants
    <2>2. QED
      BY <2>1 DEF Conflict, Writers, Lock!Compatible, Lock!Writers
  <1>n. PICK n : n = NewLease(s)
    OBVIOUS
  <1>4. /\ now' = now /\ leases' = leases \cup {n}
        /\ n.parcel = p /\ n.agent = Owner[s] /\ n.mode = req[s].mode
    BY <1>n, InsertGrants DEF NewLease
  <1>5. Live(n) /\ Live(n)'
    <2>1. n.status = "active" /\ n.expires = now + req[s].ttl
      BY <1>n DEF NewLease
    <2>2. now \in Nat
      BY LeasesAssumption DEF TypeOK
    <2>3. req[s].ttl \in Nat /\ req[s].ttl > 0
      <3>1. \A t \in Ttls : t \in Nat /\ t # 0
        BY LeasesAssumption
      <3>2. QED
        BY <3>1, <1>1
    <2>4. n.expires > now
      BY <2>1, <2>2, <2>3
    <2>5. QED
      BY <2>1, <2>4, <1>4 DEF Live
  <1>6. \A q \in Parcels : ClaimsOn(q)' = IF q = p THEN ClaimsOn(q) \cup {c} ELSE ClaimsOn(q)
    <2> SUFFICES ASSUME NEW q \in Parcels
                 PROVE  ClaimsOn(q)' = IF q = p THEN ClaimsOn(q) \cup {c} ELSE ClaimsOn(q)
      OBVIOUS
    <2>1. \A l \in leases : Live(l)' <=> Live(l)
      BY <1>4 DEF Live
    <2>2. ClaimsOn(q)' = {<<k.agent, k.mode>> : k \in {l \in leases' : l.parcel = q /\ Live(l)'}}
      BY DEF ClaimsOn
    <2>3. {k \in leases' : k.parcel = q /\ Live(k)'} =
            {k \in leases : k.parcel = q /\ Live(k)} \cup (IF q = p THEN {n} ELSE {})
      BY <1>4, <1>5, <2>1
    <2>4. QED
      BY <2>2, <2>3, <1>4 DEF ClaimsOn
  <1>7. Claims' = [Claims EXCEPT ![p] = @ \cup {c}]
    BY <1>1, <1>6 DEF Claims
  <1>8. QED
    BY <1>1, <1>2, <1>3, <1>7

(* The detailed table implements the readers/writer lock of ParcelLock:    *)
(* a granting INSERT is a Claim, every other step of requests, reapers,    *)
(* clock, retirement or crash ends claims or leaves them alone.            *)
THEOREM Refinement == Spec => ImplementsParcelLock
  <1>1. Init => Lock!Init
    BY DEF Init, Lock!Init, ClaimsOn
  <1>2. ASSUME TypeOK, TypeOK', [Next]_vars
        PROVE  [Lock!Next]_Claims
    <2>1. CASE \A s \in Slots : Insert(s) => UNCHANGED leases
      <3>1. \A p \in Parcels : ClaimsOn(p)' \subseteq ClaimsOn(p)
        BY <1>2, <2>1, StepContinues DEF ClaimsOn, Continues
      <3>2. \A p \in Parcels : ClaimsOn(p)' \in SUBSET (Agents \X Modes)
        BY <1>2 DEF ClaimsOn, TypeOK, Lease
      <3>3. Lock!Unclaim
        BY <3>1, <3>2 DEF Lock!Unclaim
      <3>4. QED
        BY <3>3 DEF Lock!Next
    <2>2. ASSUME NEW s \in Slots, Insert(s), ~UNCHANGED leases
          PROVE  Lock!Next
      <3>1. Lock!Claim(req[s].parcel, <<Owner[s], req[s].mode>>)
        BY <1>2, <2>2, GrantClaims DEF Lock!Claim, Claims
      <3>2. QED
        BY <1>2, <2>2, <3>1, GrantClaims DEF Lock!Next
    <2>3. QED
      BY <2>1, <2>2
  <1>3. QED
    BY <1>1, <1>2, Typing, PTL DEF Spec, ImplementsParcelLock, Lock!Spec, Claims

(* The lock keeps its promise, so whatever implements it does.             *)
THEOREM Promise == Lock!Spec => []Lock!Exclusion
  <1>1. Lock!Init => Lock!TypeOK /\ Lock!Exclusion
    BY DEF Lock!Init, Lock!TypeOK, Lock!Exclusion
  <1>2. ASSUME Lock!TypeOK, Lock!Exclusion, [Lock!Next]_Claims
        PROVE  Lock!TypeOK' /\ Lock!Exclusion'
    <2>1. ASSUME NEW p \in Parcels, NEW c \in Agents \X Modes, Lock!Claim(p, c)
          PROVE  Lock!TypeOK' /\ Lock!Exclusion'
      <3>1. Claims \in [Parcels -> SUBSET (Agents \X Modes)]
        BY <1>2 DEF Lock!TypeOK, Claims
      <3>2. Claims' = [Claims EXCEPT ![p] = Claims[p] \cup {c}]
        BY <2>1 DEF Lock!Claim, Claims
      <3>3. Claims' \in [Parcels -> SUBSET (Agents \X Modes)]
        BY <3>1, <3>2
      <3>4. \A d \in Claims[p] : Lock!Compatible(c, d) /\ Lock!Compatible(d, c)
        BY <2>1 DEF Lock!Claim, Lock!Compatible, Claims
      <3>5. \A q \in Parcels : \A d, e \in Claims[q] : Lock!Compatible(d, e)
        BY <1>2 DEF Lock!Exclusion, Claims
      <3>6. Lock!Compatible(c, c)
        BY DEF Lock!Compatible
      <3>7. \A q \in Parcels : \A d, e \in Claims'[q] : Lock!Compatible(d, e)
        BY <3>1, <3>2, <3>4, <3>5, <3>6
      <3>8. QED
        BY <3>3, <3>7 DEF Lock!TypeOK, Lock!Exclusion, Claims
    <2>2. CASE Lock!Unclaim
      BY <1>2, <2>2 DEF Lock!Unclaim, Lock!TypeOK, Lock!Exclusion
    <2>3. CASE UNCHANGED Claims
      BY <1>2, <2>3 DEF Lock!TypeOK, Lock!Exclusion, Claims
    <2>4. QED
      BY <1>2, <2>1, <2>2, <2>3 DEF Lock!Next
  <1>3. QED
    BY <1>1, <1>2, PTL DEF Lock!Spec, Claims
=============================================================================
