----------------------------- MODULE HookProofs -----------------------------
(***************************************************************************)
(* Theorems about Hook, for any number of agents, paths, files, contents   *)
(* and turns, and any time-to-live and window: the types, and its four     *)
(* properties.                                                             *)
(***************************************************************************)
EXTENDS Hook, TLAPS

(* A parcel has one lease at most.                                         *)
Alone == \A p \in Parcels : \A c, d \in claims[p] : c = d

(* What a release has left to do, once the leases are listed.              *)
Leaving(b) == \/ b.pc \in {"release", "over"}
              \/ b.pc \in {"stamp", "torn"} /\ b.next = "over"
Leaves == \A a \in Agents : Leaving(agent[a]) /\ ~agent[a].kept =>
            /\ \A p \in Parcels : Holds(a, p) => At(a, "release") /\ p \in agent[a].todo
            /\ \A r \in late : ~(r.agent = a /\ r.op = "lease")

(* The stamp, unless torn, tells the last contact.                         *)
Contact == /\ stamp # Torn => stamp = <<heard>>
           /\ \A a \in Agents : agent[a].pc \in {"stamp", "torn"} => agent[a].answered

(* An agent that edited a file and has yet to report it.                   *)
Behind(b) == b.pc \in Section \ {"edit"}

(* What the last editor of a file saw is still what is there.              *)
Seen == \A a \in Agents : Behind(agent[a]) /\ editor[FileOf(a)] = a =>
          /\ At(a, "report") => agent[a].saw = Hash(file[FileOf(a)])
          /\ At(a, "bytes") => file[FileOf(a)] \in Broken

(* The row of a told file is right, and no report under way can change it. *)
Told == \A f \in told :
          /\ row[f] = Hash(file[f])
          /\ \A a \in Agents : Behind(agent[a]) /\ FileOf(a) = f =>
               editor[f] # a /\ ~Holds(a, f)

(* An index that has read a file has read what is there, unless the file   *)
(* was edited since.                                                       *)
Fresh == \A a \in Agents : \A f \in Files :
           \/ index[a].hash[f] \in {Unread, Skipped} \/ f \in index[a].old
           \/ index[a].hash[f] = Hash(file[f])

HookInv == TypeOK /\ Alone /\ Leaves /\ Contact /\ Seen /\ Told /\ Fresh

-----------------------------------------------------------------------------
(* Constants, hashes, records.                                             *)

LEMMA FilesAreParcels ==
  /\ Files \subseteq Parcels
  /\ \A f \in Files : Target[f] = f
  /\ \A p \in Parcels : Target[p] \in Files /\ Target[p] \in Parcels
  BY HookAssumption DEF HookAssumption, Parcels

LEMMA HashesTyped ==
  /\ \A c \in Contents : Hash(c) \in Hashes /\ Hash(c) # <<"absent">>
  /\ \A c \in Contents \ {Gone} : <<"bytes", c>> \in Hashes
  /\ \A c \in Broken : Hash(c) = <<"bytes", c>>
  /\ Gone \in Contents
<1>1. \A c \in Contents : Hash(c) # <<"absent">>
  BY DEF Hash
<1>2. \A c \in Broken : c # Gone
  BY HookAssumption DEF HookAssumption
<1>3. \A c \in Broken : Hash(c) = <<"bytes", c>>
  BY <1>2 DEF Hash
<1> QED
  BY <1>1, <1>3 DEF Hashes, Contents

LEMMA RestIsAgent == Rest \in Agent
<1>1. (CHOOSE f \in Files : TRUE) \in Parcels
  BY FilesAreParcels, HookAssumption DEF HookAssumption
<1>2. Hash(Gone) \in Hashes
  BY HashesTyped
<1> QED
  BY <1>1, <1>2 DEF Rest, Agent

(* What an invocation keeps when it ends.                                  *)
LEMMA SettledKeeps ==
  ASSUME NEW b \in Agent
  PROVE  /\ Settled(b) \in Agent
         /\ Settled(b).pc = b.pc
         /\ b.pc \in {"idle", "over"} => Settled(b).kept = b.kept
         /\ b.pc = "edit" => Settled(b).path = b.path /\ Settled(b).pass = b.pass
         /\ b.pc \notin {"idle", "over", "edit"} => Settled(b) = b
<1>1. CASE b.pc \in {"idle", "over"}
  <2>1. Settled(b) = [[Rest EXCEPT !.pc = b.pc] EXCEPT !.kept = b.kept]
    BY <1>1 DEF Settled, Rest
  <2> QED
    BY <1>1, <2>1, RestIsAgent DEF Agent
<1>2. CASE b.pc = "edit"
  <2>1. Settled(b) = [[[Rest EXCEPT !.pc = b.pc] EXCEPT !.path = b.path] EXCEPT !.pass = b.pass]
    BY <1>2 DEF Settled, Rest
  <2> QED
    BY <1>2, <2>1, RestIsAgent DEF Agent
<1>3. CASE b.pc \notin {"idle", "over", "edit"}
  BY <1>3 DEF Settled
<1> QED
  BY <1>1, <1>2, <1>3

-----------------------------------------------------------------------------
(* The server.                                                             *)

LEMMA HashOfGone == Hash(Gone) \in Hashes
  BY HashesTyped

LEMMA AloneIsExclusion ==
  ASSUME TypeOK, Alone, NEW a \in Agents, NEW p \in Parcels,
         \A c \in claims[p] : Lock!Compatible(<<a, "write">>, c)
  PROVE  \A c \in claims[p] : c = <<a, "write">>
<1>1. \A c \in claims[p] : c[2] = "write"
  BY DEF TypeOK
<1> QED
  BY <1>1 DEF Lock!Compatible, Lock!Writers

(* A request served: who holds what, and what the rows say.                *)
LEMMA Served ==
  ASSUME TypeOK, Alone, NEW r \in Req, NEW rest \in SUBSET Req, Serve(r, rest)
  PROVE  /\ claims' \in [Parcels -> SUBSET (Agents \X {"write"})]
         /\ left' \in [Parcels -> 0..Ttl]
         /\ row' \in [Parcels -> Hashes \cup {<<"absent">>, <<"null">>}]
         /\ late' \subseteq rest
         /\ Alone'
         /\ \A p \in Parcels, a \in Agents : Holds(a, p)' =>
              \/ Holds(a, p)
              \/ a = r.agent /\ p = r.parcel /\ r.op = "lease" /\ Accepts(r)
         /\ r.op = "release" => ~Holds(r.agent, r.parcel)'
         /\ \A p \in Parcels :
              (p # r.parcel \/ ~Accepts(r) \/ (r.op # "update" /\ row[p] # <<"absent">>))
                => row'[p] = row[p]
         /\ Accepts(r) /\ r.op = "update" => row'[r.parcel] = r.hash
<1> DEFINE me == <<r.agent, "write">>
<1>r. r.agent \in Agents /\ r.parcel \in Parcels /\ r.hash \in Hashes
      /\ me \in Agents \X {"write"}
  BY DEF Req
<1>1. late' \subseteq rest
  BY DEF Serve, InForce
<1>2. left' \in [Parcels -> 0..Ttl]
  BY HookAssumption, <1>r DEF Serve, TypeOK, HookAssumption
<1>3. /\ row' \in [Parcels -> Hashes \cup {<<"absent">>, <<"null">>}]
      /\ \A p \in Parcels :
              (p # r.parcel \/ ~Accepts(r) \/ (r.op # "update" /\ row[p] # <<"absent">>))
                => row'[p] = row[p]
      /\ Accepts(r) /\ r.op = "update" => row'[r.parcel] = r.hash
  BY <1>r DEF Serve, TypeOK
<1>4. CASE ~Accepts(r)
  <2>1. claims' = claims
    BY <1>4 DEF Serve
  <2>2. r.op = "release" => ~Holds(r.agent, r.parcel)
    BY <1>4 DEF Accepts
  <2>3. claims' \in [Parcels -> SUBSET (Agents \X {"write"})] /\ Alone'
    BY <2>1 DEF Alone, TypeOK
  <2>4. /\ \A p \in Parcels, a \in Agents : Holds(a, p)' => Holds(a, p)
        /\ r.op = "release" => ~Holds(r.agent, r.parcel)'
    BY <2>1, <2>2 DEF Holds
  <2> QED
    BY <1>1, <1>2, <1>3, <2>3, <2>4
<1>5. CASE Accepts(r) /\ r.op = "lease"
  <2>1. claims' = [claims EXCEPT ![r.parcel] = @ \cup {me}]
    BY <1>5 DEF Serve
  <2>2. \A c \in claims[r.parcel] : c = me
    BY <1>5, <1>r, AloneIsExclusion DEF Accepts
  <2>3. claims' \in [Parcels -> SUBSET (Agents \X {"write"})]
    BY <2>1, <1>r DEF TypeOK
  <2>4. Alone'
    BY <2>1, <2>2, <1>r DEF Alone, TypeOK
  <2>5. \A p \in Parcels, a \in Agents : Holds(a, p)' =>
          \/ Holds(a, p)
          \/ a = r.agent /\ p = r.parcel /\ r.op = "lease" /\ Accepts(r)
    <3> SUFFICES ASSUME NEW p \in Parcels, NEW a \in Agents,
                        <<a, "write">> \in claims'[p], <<a, "write">> \notin claims[p]
                 PROVE  a = r.agent /\ p = r.parcel
      BY <1>5 DEF Holds
    <3>1. p = r.parcel /\ <<a, "write">> = me
      BY <2>1, <1>r DEF TypeOK
    <3> QED
      BY <3>1
  <2> QED
    BY <1>1, <1>2, <1>3, <1>5, <2>3, <2>4, <2>5
<1>6. CASE Accepts(r) /\ r.op # "lease"
  <2>1. claims' = [claims EXCEPT ![r.parcel] = IF r.op = "release" THEN @ \ {me} ELSE @]
    BY <1>6 DEF Serve
  <2>2. /\ claims' \in [Parcels -> SUBSET (Agents \X {"write"})]
        /\ \A p \in Parcels : claims'[p] \subseteq claims[p]
        /\ r.op = "release" => me \notin claims'[r.parcel]
    BY <2>1, <1>r DEF TypeOK
  <2>3. Alone'
    BY <2>2 DEF Alone
  <2>4. /\ \A p \in Parcels, a \in Agents : Holds(a, p)' => Holds(a, p)
        /\ r.op = "release" => ~Holds(r.agent, r.parcel)'
    BY <2>2 DEF Holds
  <2> QED
    BY <1>1, <1>2, <1>3, <2>2, <2>3, <2>4
<1> QED
  BY <1>4, <1>5, <1>6

(* The leases that lapse only go away.                                     *)
LEMMA Lapsed ==
  ASSUME TypeOK, Alone, Tick
  PROVE  /\ claims' \in [Parcels -> SUBSET (Agents \X {"write"})]
         /\ left' \in [Parcels -> 0..Ttl]
         /\ late' \subseteq late
         /\ Alone'
         /\ \A p \in Parcels, a \in Agents : Holds(a, p)' => Holds(a, p)
<1>1. late' \subseteq late
  BY DEF Tick, InForce
<1>2. left' \in [Parcels -> 0..Ttl]
  BY HookAssumption DEF Tick, TypeOK, HookAssumption, Less
<1>3. /\ claims' \in [Parcels -> SUBSET (Agents \X {"write"})]
      /\ \A p \in Parcels : claims'[p] \subseteq claims[p]
  BY DEF Tick, TypeOK
<1> QED
  BY <1>1, <1>2, <1>3 DEF Alone, Holds

-----------------------------------------------------------------------------
(* The clients.                                                            *)

(* An agent moves, the others do not.                                      *)
LEMMA OneMoves ==
  ASSUME TypeOK, NEW a \in Agents, NEW b \in Agent, Becomes(a, b)
  PROVE  /\ agent' \in [Agents -> Agent]
         /\ \A o \in Agents : o # a => agent'[o] = agent[o]
         /\ agent'[a].pc = b.pc
         /\ b.pc \in {"idle", "over"} => agent'[a].kept = b.kept
         /\ b.pc = "edit" => agent'[a].path = b.path /\ agent'[a].pass = b.pass
         /\ b.pc \notin {"idle", "over", "edit"} => agent'[a] = b
<1>1. agent' = [agent EXCEPT ![a] = Settled(b)]
  BY DEF Becomes
<1>2. agent'[a] = Settled(b) /\ agent' \in [Agents -> Agent]
      /\ \A o \in Agents : o # a => agent'[o] = agent[o]
  BY <1>1, SettledKeeps DEF TypeOK
<1> QED
  BY <1>2, SettledKeeps

(* What a step of one agent must respect to keep the invariant: the server *)
(* does nothing for the others and no told row changes; a release that     *)
(* goes on has nothing else to give back; a report that goes on says what  *)
(* is on disk.                                                             *)
Fair(a) ==
  /\ claims' \in [Parcels -> SUBSET (Agents \X {"write"})]
  /\ left' \in [Parcels -> 0..Ttl]
  /\ row' \in [Parcels -> Hashes \cup {<<"absent">>, <<"null">>}]
  /\ late' \subseteq Req
  /\ Alone'
  /\ \A o \in Agents, p \in Parcels : o # a /\ Holds(o, p)' => Holds(o, p)
  /\ \A r \in late' : r.agent # a => r \in late
Honest(a, b) ==
  /\ b.pc \in {"stamp", "torn"} => b.answered
  /\ Leaving(b) /\ ~b.kept =>
       /\ \A p \in Parcels : Holds(a, p)' => b.pc = "release" /\ p \in b.todo
       /\ \A r \in late' : ~(r.agent = a /\ r.op = "lease")
  /\ Behind(b) => /\ Behind(agent[a]) /\ b.path = agent[a].path
                  /\ \A p \in Parcels : Holds(a, p)' => Holds(a, p)
  /\ editor[FileOf(a)] = a =>
       /\ b.pc = "report" => b.saw = Hash(file[FileOf(a)])
       /\ b.pc = "bytes" => file[FileOf(a)] \in Broken

LEMMA LeavesStep ==
  ASSUME HookInv, NEW a \in Agents, NEW b \in Agent, Becomes(a, b), Fair(a), Honest(a, b)
  PROVE  Leaves'
<1> SUFFICES ASSUME NEW o \in Agents, Leaving(agent'[o]), ~agent'[o].kept
             PROVE  /\ \A p \in Parcels : Holds(o, p)' =>
                         agent'[o].pc = "release" /\ p \in agent'[o].todo
                    /\ \A r \in late' : ~(r.agent = o /\ r.op = "lease")
  BY DEF Leaves, At, Holds
<1>1. CASE o # a
  <2>1. agent'[o] = agent[o]
    BY <1>1, OneMoves DEF HookInv
  <2>2. /\ \A p \in Parcels : Holds(o, p) => agent[o].pc = "release" /\ p \in agent[o].todo
        /\ \A r \in late : ~(r.agent = o /\ r.op = "lease")
    BY <2>1 DEF HookInv, Leaves, At
  <2> QED
    BY <1>1, <2>1, <2>2 DEF Fair
<1>2. CASE o = a
  <2>1. Leaving(b) /\ ~b.kept /\ agent'[a].pc = b.pc /\ (b.pc # "over" => agent'[a] = b)
    BY <1>2, OneMoves DEF HookInv, Leaving
  <2> QED
    BY <1>2, <2>1 DEF Honest
<1> QED
  BY <1>1, <1>2

LEMMA SeenStep ==
  ASSUME HookInv, NEW a \in Agents, NEW b \in Agent, Becomes(a, b), Honest(a, b),
         UNCHANGED <<file, editor>>
  PROVE  Seen'
<1> SUFFICES ASSUME NEW o \in Agents, Behind(agent'[o]), editor[Target[agent'[o].path]] = o
             PROVE  /\ agent'[o].pc = "report" =>
                         agent'[o].saw = Hash(file[Target[agent'[o].path]])
                    /\ agent'[o].pc = "bytes" => file[Target[agent'[o].path]] \in Broken
  BY DEF Seen, At, FileOf
<1>1. CASE o # a
  <2>1. agent'[o] = agent[o]
    BY <1>1, OneMoves DEF HookInv
  <2> QED
    BY <2>1 DEF HookInv, Seen, At, FileOf
<1>2. CASE o = a
  <2>1. agent'[a] = b /\ Behind(b)
    BY <1>2, OneMoves DEF HookInv, Behind, Section
  <2> QED
    BY <1>2, <2>1 DEF Honest, FileOf
<1> QED
  BY <1>1, <1>2

LEMMA ToldStep ==
  ASSUME HookInv, NEW a \in Agents, NEW b \in Agent, Becomes(a, b), Fair(a), Honest(a, b),
         UNCHANGED <<file, editor>>, told' \subseteq told,
         \A f \in told' : row'[f] = row[f]
  PROVE  Told'
<1> SUFFICES ASSUME NEW f \in told'
             PROVE  /\ row'[f] = Hash(file[f])
                    /\ \A o \in Agents : Behind(agent'[o]) /\ Target[agent'[o].path] = f =>
                         editor[f] # o /\ ~Holds(o, f)'
  BY DEF Told, FileOf
<1>1. f \in told /\ f \in Parcels /\ row'[f] = row[f]
  BY FilesAreParcels DEF HookInv, TypeOK
<1>2. row'[f] = Hash(file[f])
  BY <1>1 DEF HookInv, Told
<1>3. ASSUME NEW o \in Agents, Behind(agent'[o]), Target[agent'[o].path] = f
      PROVE  editor[f] # o /\ ~Holds(o, f)'
  <2>1. CASE o # a
    <3>1. agent'[o] = agent[o]
      BY <2>1, OneMoves DEF HookInv
    <3>2. editor[f] # o /\ ~Holds(o, f)
      BY <1>1, <1>3, <3>1 DEF HookInv, Told, FileOf
    <3> QED
      BY <1>1, <2>1, <3>2 DEF Fair
  <2>2. CASE o = a
    <3>1. agent'[a] = b /\ Behind(b)
      BY <1>3, <2>2, OneMoves DEF HookInv, Behind, Section
    <3>2. Behind(agent[a]) /\ FileOf(a) = f
      BY <1>3, <2>2, <3>1 DEF Honest, FileOf
    <3>3. editor[f] # a /\ ~Holds(a, f)
      BY <1>1, <3>2 DEF HookInv, Told
    <3> QED
      BY <1>1, <2>2, <3>1, <3>3 DEF Honest
  <2> QED
    BY <2>1, <2>2
<1> QED
  BY <1>2, <1>3

LEMMA AgentStep ==
  ASSUME HookInv, NEW a \in Agents, NEW b \in Agent, Becomes(a, b), Fair(a), Honest(a, b),
         UNCHANGED <<file, editor, stamp, heard>>, turns' \in 0..MaxTurns,
         told' \subseteq told, \A f \in told' : row'[f] = row[f],
         index' \in [Agents -> Index], Fresh'
  PROVE  HookInv'
<1>1. TypeOK'
  BY OneMoves DEF HookInv, TypeOK, Fair
<1>2. Contact'
  <2>1. \A o \in Agents : agent'[o].pc \in {"stamp", "torn"} => agent'[o].answered
    BY OneMoves DEF HookInv, Contact, Honest
  <2> QED
    BY <2>1 DEF HookInv, Contact
<1>3. Leaves' /\ Seen' /\ Told'
  BY LeavesStep, SeenStep, ToldStep
<1> QED
  BY <1>1, <1>2, <1>3 DEF HookInv, Fair

LEMMA ClientStep ==
  ASSUME HookInv, NEW a \in Agents, NEW b \in Agent, Becomes(a, b), Fair(a), Honest(a, b),
         UNCHANGED <<tree, stamp, heard>>, turns' \in 0..MaxTurns,
         \A f \in told : row'[f] = row[f]
  PROVE  HookInv'
<1>1. /\ UNCHANGED <<file, editor, stamp, heard>> /\ told' = told
      /\ index' \in [Agents -> Index] /\ Fresh'
  BY DEF tree, HookInv, TypeOK, Fresh
<1> QED
  BY <1>1, AgentStep

(* The server works on an index while the agents wait.                     *)
LEMMA ServerStep ==
  ASSUME HookInv, UNCHANGED <<claims, left, late, file, editor, stamp, heard, agent, turns>>,
         row' \in [Parcels -> Hashes \cup {<<"absent">>, <<"null">>}],
         told' \subseteq told, \A f \in told' : row'[f] = row[f],
         index' \in [Agents -> Index], Fresh'
  PROVE  HookInv'
<1>1. TypeOK'
  BY DEF HookInv, TypeOK
<1>2. Alone' /\ Leaves' /\ Contact' /\ Seen'
  BY DEF HookInv, Alone, Leaves, Contact, Seen, At, FileOf, Holds
<1>3. Told'
  BY DEF HookInv, Told, FileOf, Holds
<1> QED
  BY <1>1, <1>2, <1>3 DEF HookInv

(* The records an agent can be left in.                                    *)
LEMMA Records ==
  ASSUME NEW b \in Agent
  PROVE  /\ \A s \in {"idle", "over"} \cup Section \cup Invoked :
              Goto(b, s) \in Agent /\ Goto(b, s) = [b EXCEPT !.pc = s]
         /\ [b EXCEPT !.answered = TRUE] \in Agent
         /\ \A s \in {"idle", "edit", "over"} :
              /\ Done(b, s) \in Agent
              /\ Done(b, s).pc \in {s, "stamp"}
              /\ Done(b, s).pc = "stamp" => b.answered
              /\ Done(b, s).next = s
              /\ Done(b, s).kept = b.kept
              /\ Done(b, s).answered = b.answered
<1>1. \A s \in {"idle", "over"} \cup Section \cup Invoked : [b EXCEPT !.pc = s] \in Agent
  BY DEF Agent
<1>2. ASSUME NEW s \in {"idle", "edit", "over"}
      PROVE  /\ Done(b, s) \in Agent
             /\ Done(b, s).pc \in {s, "stamp"}
             /\ Done(b, s).pc = "stamp" => b.answered
             /\ Done(b, s).next = s
             /\ Done(b, s).kept = b.kept
             /\ Done(b, s).answered = b.answered
  <2>1. Done(b, s) = [[b EXCEPT !.pc = IF Stamps(b) THEN "stamp" ELSE s] EXCEPT !.next = s]
    BY DEF Done, Agent
  <2>2. (IF Stamps(b) THEN "stamp" ELSE s) \in {"idle", "over"} \cup Section \cup Invoked
    BY DEF Section, Invoked
  <2> QED
    BY <2>1, <2>2 DEF Agent, Stamps
<1>3. [b EXCEPT !.answered = TRUE] \in Agent
  BY DEF Agent
<1> QED
  BY <1>1, <1>2, <1>3 DEF Goto

LEMMA RequestsTyped ==
  ASSUME TypeOK, NEW a \in Agents, NEW op \in {"lease", "beat", "update"}
  PROVE  /\ Request(a, op) \in Req /\ Request(a, op).agent = a
         /\ Request(a, op).op = op /\ Request(a, op).parcel = FileOf(a)
         /\ op = "update" => Request(a, op).hash = agent[a].saw
<1>1. agent[a].path \in Parcels /\ agent[a].saw \in Hashes
  BY DEF TypeOK, Agent
<1>2. ParcelOf(a) \in Parcels /\ ParcelOf(a) = FileOf(a)
  BY <1>1, FilesAreParcels DEF ParcelOf, Parcel, FileOf
<1> QED
  BY <1>1, <1>2, HashOfGone DEF Request, Req

(* What a call does, whether it is answered, lost or timed out.            *)
LEMMA ServedIsFair ==
  ASSUME HookInv, NEW a \in Agents, NEW r \in Req, r.agent = a, Serve(r, late)
  PROVE  /\ Fair(a)
         /\ \A p \in Parcels : Holds(a, p)' =>
              Holds(a, p) \/ (r.op = "lease" /\ Accepts(r))
         /\ late' \subseteq late
         /\ r.op # "update" => \A f \in told : row'[f] = row[f]
<1>1. late \in SUBSET Req /\ TypeOK /\ Alone
  BY DEF HookInv, TypeOK
<1>2. \A f \in told : f \in Parcels /\ row[f] # <<"absent">>
  <2>1. \A f \in told : f \in Files /\ file[f] \in Contents
    BY DEF HookInv, TypeOK
  <2> QED
    BY <2>1, HashesTyped, FilesAreParcels DEF HookInv, Told
<1> QED
  BY <1>1, <1>2, Served DEF Fair

LEMMA LostIsFair ==
  ASSUME HookInv, NEW a \in Agents, NEW r \in Req, r.agent = a, Lost(r)
  PROVE  /\ Fair(a) /\ UNCHANGED <<claims, left, row>>
         /\ late' \subseteq late \cup {r}
<1>1. UNCHANGED <<claims, left, row>> /\ late' \subseteq late \cup {r}
  BY DEF Lost
<1> QED
  BY <1>1 DEF Fair, HookInv, TypeOK, Alone, Holds

LEMMA QuietIsFair ==
  ASSUME HookInv, NEW a \in Agents, UNCHANGED board
  PROVE  Fair(a)
BY DEF Fair, HookInv, TypeOK, Alone, Holds, board

-----------------------------------------------------------------------------
(* The actions.                                                            *)

LEMMA AskKeeps ==
  ASSUME HookInv, NEW a \in Agents, NEW p \in Paths, Ask(a, p)
  PROVE  HookInv'
<1> DEFINE r == [agent[a] EXCEPT !.kept = FALSE]
           b == IF Target[p] = Outside THEN Done(r, "idle")
                ELSE [[r EXCEPT !.pc = "ask"] EXCEPT !.path = p]
<1>1. agent[a] \in Agent /\ agent[a].pc \in {"idle", "over"}
  BY DEF HookInv, TypeOK, Ask
<1>2. r \in Agent /\ r.answered = agent[a].answered
  BY <1>1 DEF Agent
<1>3. /\ b \in Agent
      /\ b.pc \in {"ask", "idle", "stamp"}
      /\ b.pc = "stamp" => b.next = "idle" /\ b.answered
  <2>1. CASE Target[p] = Outside
    BY <2>1, <1>2, Records
  <2>2. CASE Target[p] # Outside
    <3>1. p \in Parcels /\ "ask" \in {"idle", "over"} \cup Section \cup Invoked
      BY <2>2 DEF Parcels, Invoked
    <3>2. b = [[r EXCEPT !.pc = "ask"] EXCEPT !.path = p]
      BY <2>2
    <3> HIDE DEF r, b
    <3>3. [[r EXCEPT !.pc = "ask"] EXCEPT !.path = p] \in Agent
      BY <3>1, <1>2 DEF Agent
    <3> QED
      BY <3>2, <3>3, <1>2 DEF Agent
  <2> QED
    BY <2>1, <2>2
<1>4. Becomes(a, b) /\ UNCHANGED <<board, tree, stamp, heard>> /\ turns' \in 0..MaxTurns
  BY HookAssumption DEF Ask, HookInv, TypeOK, HookAssumption
<1> HIDE DEF b
<1>5. Honest(a, b)
  BY <1>3 DEF Honest, Leaving, Behind, Section
<1>6. Fair(a) /\ row' = row
  BY <1>4, QuietIsFair DEF board
<1> QED
  BY <1>3, <1>4, <1>5, <1>6, ClientStep

LEMMA PrecheckKeeps ==
  ASSUME HookInv, NEW a \in Agents, Precheck(a)
  PROVE  HookInv'
<1> DEFINE r == Request(a, "lease")
           gated == [[agent[a] EXCEPT !.pass = "gated"] EXCEPT !.answered = TRUE]
           denied == [agent[a] EXCEPT !.answered = TRUE]
           d == IF Accepts(r) THEN Done(gated, "edit") ELSE Done(denied, "idle")
<1>1. agent[a] \in Agent /\ r \in Req /\ r.agent = a /\ r.op = "lease"
  BY RequestsTyped DEF HookInv, TypeOK
<1>2. gated \in Agent /\ denied \in Agent /\ gated.answered = TRUE /\ denied.answered = TRUE
  BY <1>1 DEF Agent
<1>3. UNCHANGED <<tree, stamp, heard>> /\ turns' \in 0..MaxTurns
  BY DEF Precheck, HookInv, TypeOK
<1>4. CASE Call(a, r, d)
  <2> DEFINE b == [d EXCEPT !.answered = TRUE]
  <2>1. /\ d \in Agent /\ d.pc \in {"idle", "edit", "stamp"}
        /\ d.pc = "stamp" => d.next # "over"
    BY <1>2, Records
  <2>2. /\ b \in Agent /\ b.pc = d.pc /\ b.answered /\ b.next = d.next
    BY <2>1 DEF Agent
  <2>3. Becomes(a, b) /\ Serve(r, late)
    BY <1>4 DEF Call
  <2> HIDE DEF b
  <2>4. Honest(a, b)
    BY <2>1, <2>2 DEF Honest, Leaving, Behind, Section
  <2> QED
    BY <1>1, <1>3, <2>2, <2>3, <2>4, ServedIsFair, ClientStep
<1>5. CASE Raise(a, r, Goto(agent[a], "failed"))
  <2> DEFINE b == Goto(agent[a], "failed")
  <2>1. b \in Agent /\ b.pc = "failed"
    BY <1>1, Records DEF Invoked, Goto, Agent
  <2>2. Becomes(a, b) /\ Lost(r)
    BY <1>5 DEF Raise
  <2> HIDE DEF b
  <2>3. Honest(a, b)
    BY <2>1 DEF Honest, Leaving, Behind, Section
  <2> QED
    BY <1>1, <1>3, <2>1, <2>2, <2>3, LostIsFair, ClientStep
<1>6. Call(a, r, d) \/ Raise(a, r, Goto(agent[a], "failed"))
  BY DEF Precheck
<1> QED
  BY <1>4, <1>5, <1>6

LEMMA DecideKeeps ==
  ASSUME HookInv, NEW a \in Agents, Decide(a)
  PROVE  HookInv'
<1> DEFINE open == [[agent[a] EXCEPT !.pc = "edit"] EXCEPT !.pass = "open"]
           b == IF Recent THEN Goto(agent[a], "idle") ELSE open
<1>1. agent[a] \in Agent
  BY DEF HookInv, TypeOK
<1>2. b \in Agent /\ b.pc \in {"idle", "edit"}
  BY <1>1 DEF Agent, Goto, Section
<1>3. Becomes(a, b)
  BY DEF Decide
<1>4. UNCHANGED <<board, tree, stamp, heard>> /\ turns' \in 0..MaxTurns /\ row' = row
  BY DEF Decide, HookInv, TypeOK, board
<1> HIDE DEF b
<1>5. Honest(a, b)
  BY <1>2 DEF Honest, Leaving, Behind, Section
<1> QED
  BY <1>2, <1>3, <1>4, <1>5, QuietIsFair, ClientStep

(* A step inside a report that keeps the file in view.                     *)
LEMMA GoesOn ==
  ASSUME HookInv, NEW a \in Agents, NEW b \in Agent, Behind(agent[a]),
         b.path = agent[a].path, b.pc \in {"idle", "get", "beat", "look", "parse"},
         \A p \in Parcels : Holds(a, p)' => Holds(a, p)
  PROVE  Honest(a, b)
  BY DEF Honest, Leaving, Behind, Section

LEMMA GetKeeps ==
  ASSUME HookInv, NEW a \in Agents, Get(a)
  PROVE  HookInv'
<1> DEFINE next == Goto(agent[a], IF Holds(a, ParcelOf(a)) THEN "beat" ELSE "look")
           read == [next EXCEPT !.answered = TRUE]
           stop == Goto(agent[a], "idle")
<1>1. agent[a] \in Agent /\ agent[a].pc = "get" /\ Behind(agent[a])
  BY DEF HookInv, TypeOK, Get, At, Behind, Section
<1>2. /\ read \in Agent /\ read.path = agent[a].path /\ read.pc \in {"beat", "look"}
      /\ stop \in Agent /\ stop.path = agent[a].path /\ stop.pc = "idle"
  BY <1>1 DEF Agent, Goto, Section
<1>3. Becomes(a, read) \/ Becomes(a, stop)
  BY DEF Get, Read
<1>4. UNCHANGED <<board, tree, stamp, heard>> /\ turns' \in 0..MaxTurns /\ row' = row
  BY DEF Get, Read, HookInv, TypeOK, board
<1>5. \A p \in Parcels : Holds(a, p)' => Holds(a, p)
  BY <1>4 DEF board, Holds
<1> HIDE DEF read, stop
<1>6. Honest(a, read) /\ Honest(a, stop)
  BY <1>1, <1>2, <1>5, GoesOn
<1> QED
  BY <1>2, <1>3, <1>4, <1>6, QuietIsFair, ClientStep

LEMMA KeepaliveKeeps ==
  ASSUME HookInv, NEW a \in Agents, Keepalive(a)
  PROVE  HookInv'
<1> DEFINE r == Request(a, "beat")
           renewed == [Goto(agent[a], "look") EXCEPT !.answered = TRUE]
           stop == Goto(agent[a], "idle")
<1>1. agent[a] \in Agent /\ agent[a].pc = "beat" /\ Behind(agent[a])
  BY DEF HookInv, TypeOK, Keepalive, At, Behind, Section
<1>2. r \in Req /\ r.agent = a /\ r.op = "beat"
  BY RequestsTyped DEF HookInv
<1>3. /\ renewed \in Agent /\ renewed.path = agent[a].path /\ renewed.pc = "look"
      /\ stop \in Agent /\ stop.path = agent[a].path /\ stop.pc = "idle"
  BY <1>1 DEF Agent, Goto, Section
<1>4. \/ Serve(r, late) /\ Becomes(a, renewed)
      \/ Lost(r) /\ Becomes(a, stop)
  BY DEF Keepalive, Call, Raise
<1>5. UNCHANGED <<tree, stamp, heard>> /\ turns' \in 0..MaxTurns
  BY DEF Keepalive, HookInv, TypeOK
<1> HIDE DEF renewed, stop, r
<1>6. CASE Serve(r, late) /\ Becomes(a, renewed)
  <2>1. /\ Fair(a) /\ \A f \in told : row'[f] = row[f]
        /\ \A p \in Parcels : Holds(a, p)' => Holds(a, p)
    BY <1>2, <1>6, ServedIsFair
  <2> QED
    BY <1>1, <1>3, <1>5, <1>6, <2>1, GoesOn, ClientStep
<1>7. CASE Lost(r) /\ Becomes(a, stop)
  <2>1. Fair(a) /\ UNCHANGED <<claims, row>>
    BY <1>2, <1>7, LostIsFair
  <2>2. \A p \in Parcels : Holds(a, p)' => Holds(a, p)
    BY <2>1 DEF Holds
  <2> QED
    BY <1>1, <1>3, <1>5, <1>7, <2>1, <2>2, GoesOn, ClientStep
<1> QED
  BY <1>4, <1>6, <1>7

LEMMA LookKeeps ==
  ASSUME HookInv, NEW a \in Agents, Look(a)
  PROVE  HookInv'
<1> DEFINE c == file[FileOf(a)]
           seen(h) == [[agent[a] EXCEPT !.pc = "report"] EXCEPT !.saw = h]
           parse == Goto(agent[a], "parse")
           bytes == Goto(agent[a], "bytes")
           stop == Goto(agent[a], "idle")
<1>1. /\ agent[a] \in Agent /\ agent[a].pc \in {"look", "parse", "bytes"}
      /\ Behind(agent[a]) /\ FileOf(a) \in Files /\ c \in Contents
  <2>1. agent[a] \in Agent /\ agent[a].pc \in {"look", "parse", "bytes"}
    BY DEF HookInv, TypeOK, Look, At
  <2>2. FileOf(a) \in Files
    BY <2>1, FilesAreParcels DEF FileOf, Agent
  <2> QED
    BY <2>1, <2>2 DEF HookInv, TypeOK, Behind, Section
<1>2. /\ UNCHANGED <<board, tree, stamp, heard>> /\ turns' \in 0..MaxTurns /\ row' = row
      /\ Fair(a) /\ \A p \in Parcels : Holds(a, p)' => Holds(a, p)
  BY QuietIsFair DEF Look, HookInv, TypeOK, board, Holds
<1>3. \A h \in Hashes : /\ seen(h) \in Agent /\ seen(h).path = agent[a].path
                        /\ seen(h).pc = "report" /\ seen(h).saw = h
  BY <1>1 DEF Agent, Section
<1>4. /\ parse \in Agent /\ parse.path = agent[a].path /\ parse.pc = "parse"
      /\ bytes \in Agent /\ bytes.path = agent[a].path /\ bytes.pc = "bytes"
      /\ stop \in Agent /\ stop.path = agent[a].path /\ stop.pc = "idle"
  BY <1>1 DEF Agent, Goto, Section
<1>5. ASSUME NEW h \in Hashes, Becomes(a, seen(h)), editor[FileOf(a)] = a => h = Hash(c)
      PROVE  HookInv'
  <2>1. Honest(a, seen(h))
    BY <1>1, <1>2, <1>3, <1>5 DEF Honest, Leaving, Behind, Section
  <2> HIDE DEF seen
  <2> QED
    BY <1>2, <1>3, <1>5, <2>1, ClientStep
<1>6. ASSUME Becomes(a, parse) \/ Becomes(a, stop)
      PROVE  HookInv'
  <2>1. Honest(a, parse) /\ Honest(a, stop)
    BY <1>1, <1>2, <1>4, GoesOn
  <2> HIDE DEF parse, stop
  <2> QED
    BY <1>2, <1>4, <1>6, <2>1, ClientStep
<1>7. ASSUME Becomes(a, bytes), c \in Broken
      PROVE  HookInv'
  <2>1. Honest(a, bytes)
    BY <1>1, <1>2, <1>4, <1>7 DEF Honest, Leaving, Behind, Section
  <2> HIDE DEF bytes
  <2> QED
    BY <1>2, <1>4, <1>7, <2>1, ClientStep
<1>8. CASE At(a, "look")
  <2>1. Becomes(a, IF c = Gone THEN seen(Hash(Gone)) ELSE parse)
    BY <1>8 DEF Look, At
  <2>2. CASE c = Gone
    <3>1. Becomes(a, seen(Hash(c)))
      BY <2>1, <2>2
    <3> QED
      BY <1>1, <1>5, <3>1, HashesTyped
  <2>3. CASE c # Gone
    BY <1>6, <2>1, <2>3
  <2> QED
    BY <2>2, <2>3
<1>9. CASE At(a, "parse")
  <2>1. Becomes(a, IF c = Gone THEN stop ELSE IF c \in Broken THEN bytes ELSE seen(Hash(c)))
    BY <1>9 DEF Look, At
  <2>2. CASE c = Gone
    BY <1>6, <2>1, <2>2
  <2>3. CASE c # Gone /\ c \in Broken
    BY <1>7, <2>1, <2>3
  <2>4. CASE c # Gone /\ c \notin Broken
    <3>1. Becomes(a, seen(Hash(c)))
      BY <2>1, <2>4
    <3> QED
      BY <1>1, <1>5, <3>1, HashesTyped
  <2> QED
    BY <2>2, <2>3, <2>4
<1>10. CASE At(a, "bytes")
  <2>1. Becomes(a, IF c = Gone THEN stop ELSE seen(<<"bytes", c>>))
    BY <1>10 DEF Look, At
  <2>2. CASE c = Gone
    BY <1>6, <2>1, <2>2
  <2>3. CASE c # Gone
    <3>1. Becomes(a, seen(<<"bytes", c>>))
      BY <2>1, <2>3
    <3>2. editor[FileOf(a)] = a => c \in Broken
      BY <1>1, <1>10 DEF HookInv, Seen
    <3> QED
      BY <1>1, <1>5, <2>3, <3>1, <3>2, HashesTyped
  <2> QED
    BY <2>2, <2>3
<1> QED
  BY <1>8, <1>9, <1>10 DEF Look

LEMMA StopKeeps ==
  ASSUME HookInv, NEW a \in Agents, NEW active \in BOOLEAN, Stop(a, active)
  PROVE  HookInv'
<1> DEFINE b == [[agent[a] EXCEPT !.pc = "list"] EXCEPT !.quiet = ~active]
<1>1. agent[a] \in Agent
  BY DEF HookInv, TypeOK
<1>2. b \in Agent /\ b.pc = "list"
  BY <1>1 DEF Agent, Invoked
<1>3. Becomes(a, b)
  BY DEF Stop
<1>4. UNCHANGED <<board, tree, stamp, heard>> /\ turns' \in 0..MaxTurns /\ row' = row
  BY DEF Stop, HookInv, TypeOK, board
<1> HIDE DEF b
<1>5. Honest(a, b)
  BY <1>2 DEF Honest, Leaving, Behind, Section
<1> QED
  BY <1>2, <1>3, <1>4, <1>5, QuietIsFair, ClientStep

LEMMA ListKeeps ==
  ASSUME HookInv, NEW a \in Agents, List(a)
  PROVE  HookInv'
<1> DEFINE mine == {p \in Parcels : Holds(a, p)}
           inflight == \E r \in late : r.agent = a /\ r.op = "lease"
           b == [[[agent[a] EXCEPT !.todo = mine] EXCEPT !.answered = TRUE] EXCEPT !.kept = inflight]
           listed == IF mine = {} THEN Done(b, "over") ELSE Goto(b, "release")
           read == [listed EXCEPT !.answered = TRUE]
           stop == [[agent[a] EXCEPT !.pc = "over"] EXCEPT !.kept = TRUE]
<1>1. agent[a] \in Agent /\ mine \in SUBSET Parcels /\ inflight \in BOOLEAN
  BY DEF HookInv, TypeOK
<1>2. stop \in Agent /\ stop.pc = "over" /\ stop.kept = TRUE
  BY <1>1 DEF Agent
<1>3. b \in Agent /\ b.todo = mine /\ b.answered = TRUE /\ b.kept = inflight
  <2> HIDE DEF mine, inflight
  <2> QED
    BY <1>1 DEF Agent
<1>4. Becomes(a, read) \/ Becomes(a, stop)
  BY DEF List, Read
<1>5. UNCHANGED <<board, tree, stamp, heard>> /\ turns' \in 0..MaxTurns /\ row' = row
  BY DEF List, Read, HookInv, TypeOK, board
<1>6. /\ read \in Agent /\ read.kept = inflight /\ read.answered
      /\ \/ read.pc \in {"over", "stamp"} /\ mine = {}
         \/ read.pc = "release" /\ read.todo = mine
  <2> HIDE DEF mine, inflight, b
  <2>1. CASE mine = {}
    <3>1. listed = Done(b, "over")
      BY <2>1
    <3>2. /\ Done(b, "over") \in Agent /\ Done(b, "over").pc \in {"over", "stamp"}
          /\ Done(b, "over").kept = b.kept
      BY <1>3, Records
    <3> HIDE DEF listed
    <3>3. listed \in Agent /\ listed.pc \in {"over", "stamp"} /\ listed.kept = b.kept
      BY <3>1, <3>2
    <3>4. /\ read \in Agent /\ read.kept = listed.kept /\ read.answered
          /\ read.pc = listed.pc
      BY <3>3 DEF Agent
    <3> HIDE DEF read
    <3> QED
      BY <1>3, <2>1, <3>3, <3>4
  <2>2. CASE mine # {}
    <3>1. listed = [b EXCEPT !.pc = "release"]
      BY <2>2 DEF Goto
    <3> HIDE DEF listed
    <3> QED
      BY <1>3, <3>1 DEF Agent, Invoked
  <2> QED
    BY <2>1, <2>2
<1> HIDE DEF b, listed, read, stop
<1>7. Honest(a, read)
  <2>1. /\ \A p \in Parcels : Holds(a, p)' => p \in mine
        /\ ~inflight => \A r \in late' : ~(r.agent = a /\ r.op = "lease")
    BY <1>5 DEF board, Holds
  <2> HIDE DEF mine, inflight
  <2> QED
    BY <1>6, <2>1 DEF Honest, Leaving, Behind, Section
<1>8. Honest(a, stop)
  BY <1>2 DEF Honest, Leaving, Behind, Section
<1> QED
  BY <1>2, <1>4, <1>5, <1>6, <1>7, <1>8, QuietIsFair, ClientStep

LEMMA ReleaseKeeps ==
  ASSUME HookInv, NEW a \in Agents, NEW p \in Parcels, Release(a, p)
  PROVE  HookInv'
<1> DEFINE r == [op |-> "release", agent |-> a, parcel |-> p, hash |-> Hash(Gone)]
           b == [agent[a] EXCEPT !.todo = @ \ {p}]
           next == IF b.todo = {} THEN Done(b, "over") ELSE b
           released == [next EXCEPT !.answered = TRUE]
           stop == [[[b EXCEPT !.pc = "over"] EXCEPT !.todo = {}] EXCEPT !.kept = TRUE]
<1>1. agent[a] \in Agent /\ agent[a].pc = "release" /\ p \in agent[a].todo
  BY DEF HookInv, TypeOK, Release, At
<1>2. r \in Req /\ r.agent = a /\ r.op = "release" /\ r.parcel = p
  BY HashOfGone DEF Req
<1>3. /\ b \in Agent /\ b.pc = "release" /\ b.todo = agent[a].todo \ {p}
      /\ b.kept = agent[a].kept
  BY <1>1 DEF Agent
<1>4. stop \in Agent /\ stop.pc = "over" /\ stop.kept = TRUE
  <2> HIDE DEF b
  <2> QED
    BY <1>3 DEF Agent
<1>5. /\ released \in Agent /\ released.kept = b.kept /\ released.answered
      /\ \/ released.pc \in {"over", "stamp"} /\ b.todo = {}
         \/ released.pc = "release" /\ released.todo = b.todo
  <2> HIDE DEF b
  <2>1. CASE b.todo = {}
    <3>1. /\ Done(b, "over") \in Agent /\ Done(b, "over").pc \in {"over", "stamp"}
          /\ Done(b, "over").kept = b.kept
      BY <1>3, Records
    <3>2. released = [Done(b, "over") EXCEPT !.answered = TRUE]
      BY <2>1
    <3> HIDE DEF released
    <3> QED
      BY <2>1, <3>1, <3>2 DEF Agent
  <2>2. CASE b.todo # {}
    <3>1. released = [b EXCEPT !.answered = TRUE]
      BY <2>2
    <3> HIDE DEF released
    <3> QED
      BY <1>3, <3>1 DEF Agent
  <2> QED
    BY <2>1, <2>2
<1>6. \/ Serve(r, late) /\ Becomes(a, released)
      \/ Lost(r) /\ Becomes(a, stop)
  BY DEF Release, Call, Raise
<1>7. UNCHANGED <<tree, stamp, heard>> /\ turns' \in 0..MaxTurns
  BY DEF Release, HookInv, TypeOK
<1> HIDE DEF r, b, next, released, stop
<1>8. CASE Serve(r, late) /\ Becomes(a, released)
  <2>1. /\ Fair(a) /\ late' \subseteq late /\ \A f \in told : row'[f] = row[f]
        /\ \A q \in Parcels : Holds(a, q)' => Holds(a, q)
    BY <1>2, <1>8, ServedIsFair
  <2>2. ~Holds(a, p)'
    <3>1. late \in SUBSET Req /\ TypeOK /\ Alone
      BY DEF HookInv, TypeOK
    <3> QED
      BY <1>2, <1>8, <3>1, Served
  <2>3. ~released.kept => /\ \A q \in Parcels : Holds(a, q)' => q \in b.todo
                          /\ \A s \in late' : ~(s.agent = a /\ s.op = "lease")
    <3>1. ~agent[a].kept => /\ \A q \in Parcels : Holds(a, q) => q \in agent[a].todo
                            /\ \A s \in late : ~(s.agent = a /\ s.op = "lease")
      BY <1>1 DEF HookInv, Leaves, Leaving
    <3> QED
      BY <1>3, <1>5, <2>1, <2>2, <3>1
  <2>4. Honest(a, released)
    BY <1>5, <2>3 DEF Honest, Leaving, Behind, Section
  <2> QED
    BY <1>5, <1>7, <1>8, <2>1, <2>4, ClientStep
<1>9. CASE Lost(r) /\ Becomes(a, stop)
  <2>1. Honest(a, stop)
    BY <1>4 DEF Honest, Leaving, Behind, Section
  <2> QED
    BY <1>2, <1>4, <1>7, <1>9, <2>1, LostIsFair, ClientStep
<1> QED
  BY <1>6, <1>8, <1>9

LEMMA NoIndexTyped ==
  /\ NoIndex \in Index /\ [NoIndex EXCEPT !.on = TRUE] \in Index
  /\ \A f \in Files : /\ NoIndex.hash[f] = Unread
                      /\ [NoIndex EXCEPT !.on = TRUE].hash[f] = Unread
  BY DEF NoIndex, Index

(* An index that begins or ends has read nothing.                          *)
LEMMA FreshWithout ==
  ASSUME HookInv, NEW a \in Agents, NEW i \in Index, \A f \in Files : i.hash[f] = Unread,
         index' = [index EXCEPT ![a] = i], UNCHANGED file
  PROVE  index' \in [Agents -> Index] /\ Fresh'
<1>1. index' \in [Agents -> Index]
  BY DEF HookInv, TypeOK
<1>2. ASSUME NEW o \in Agents, NEW f \in Files
      PROVE  \/ index'[o].hash[f] \in {Unread, Skipped} \/ f \in index'[o].old
             \/ index'[o].hash[f] = Hash(file'[f])
  BY DEF HookInv, TypeOK, Fresh
<1> QED
  BY <1>1, <1>2 DEF Fresh

LEMMA SessionStartKeeps ==
  ASSUME HookInv, NEW a \in Agents, SessionStart(a)
  PROVE  HookInv'
<1> DEFINE b == [[agent[a] EXCEPT !.pc = "index"] EXCEPT !.kept = FALSE]
<1>1. b \in Agent /\ b.pc = "index"
  BY DEF HookInv, TypeOK, Agent, Invoked
<1>2. Becomes(a, b)
  BY DEF SessionStart
<1>3. /\ UNCHANGED <<board, file, editor, told, stamp, heard>> /\ row' = row
      /\ turns' \in 0..MaxTurns
  BY HookAssumption DEF SessionStart, HookInv, TypeOK, HookAssumption, board
<1>4. index' \in [Agents -> Index] /\ Fresh'
  BY <1>3, NoIndexTyped, FreshWithout DEF SessionStart
<1> HIDE DEF b
<1>5. Honest(a, b)
  BY <1>1 DEF Honest, Leaving, Behind, Section
<1> QED
  BY <1>1, <1>2, <1>3, <1>4, <1>5, QuietIsFair, AgentStep

LEMMA IndexFileKeeps ==
  ASSUME HookInv, NEW a \in Agents, NEW f \in Files, IndexFile(a, f)
  PROVE  HookInv'
<1> DEFINE h == IF file[f] = Gone \/ file[f] \in Broken THEN Skipped ELSE Hash(file[f])
<1>1. h \in Hashes \cup {Unread, Skipped} /\ (h = Skipped \/ h = Hash(file[f]))
  BY HashesTyped DEF HookInv, TypeOK
<1>2. /\ UNCHANGED <<board, file, editor, told, stamp, heard, agent, turns>>
      /\ index' = [index EXCEPT ![a].hash[f] = h]
  BY DEF IndexFile
<1> HIDE DEF h
<1>3. index[a] \in Index
  BY DEF HookInv, TypeOK
<1>4. /\ index' \in [Agents -> Index]
      /\ \A o \in Agents : index'[o].old = index[o].old
      /\ \A o \in Agents, g \in Files :
           index'[o].hash[g] = IF o = a /\ g = f THEN h ELSE index[o].hash[g]
  <2>1. index' = [index EXCEPT ![a] = [index[a] EXCEPT !.hash = [index[a].hash EXCEPT ![f] = h]]]
    BY <1>2
  <2>2. index[a].hash \in [Files -> Hashes \cup {Unread, Skipped}]
    BY <1>3 DEF Index
  <2>3. /\ [index[a].hash EXCEPT ![f] = h] \in [Files -> Hashes \cup {Unread, Skipped}]
        /\ \A g \in Files : [index[a].hash EXCEPT ![f] = h][g] =
                            IF g = f THEN h ELSE index[a].hash[g]
    BY <1>1, <2>2
  <2>4. PICK hs : hs = [index[a].hash EXCEPT ![f] = h]
    OBVIOUS
  <2>5. /\ [index[a] EXCEPT !.hash = hs] \in Index
        /\ [index[a] EXCEPT !.hash = hs].hash = hs
        /\ [index[a] EXCEPT !.hash = hs].old = index[a].old
    BY <1>3, <2>3, <2>4 DEF Index
  <2> QED
    BY <2>1, <2>3, <2>4, <2>5 DEF HookInv, TypeOK
<1>5. Fresh'
  BY <1>1, <1>2, <1>4 DEF HookInv, Fresh
<1>6. /\ UNCHANGED <<claims, left, late, row>> /\ told' \subseteq told
      /\ row' \in [Parcels -> Hashes \cup {<<"absent">>, <<"null">>}]
  BY <1>2 DEF board, HookInv, TypeOK
<1> QED
  BY <1>2, <1>4, <1>5, <1>6, ServerStep

(* A row that is overwritten with what an index read after the last edit   *)
(* of its file says what it said before.                                   *)
LEMMA UpsertTells ==
  ASSUME HookInv, NEW a \in Agents, \A f \in Files : index[a].hash[f] # Unread,
         Upsert(index[a].hash)
  PROVE  /\ row' \in [Parcels -> Hashes \cup {<<"absent">>, <<"null">>}]
         /\ \A f \in told \ index[a].old : row'[f] = row[f]
<1>1. \A f \in Files : /\ index[a].hash[f] = Skipped \/ index[a].hash[f] \in Hashes
                      /\ f \in Parcels
  BY FilesAreParcels DEF HookInv, TypeOK, Index
<1>2. row' \in [Parcels -> Hashes \cup {<<"absent">>, <<"null">>}]
  BY <1>1 DEF Upsert, HookInv, TypeOK
<1>3. ASSUME NEW f \in told \ index[a].old PROVE row'[f] = row[f]
  <2>1. f \in Files /\ row[f] = Hash(file[f])
    BY DEF HookInv, TypeOK, Told
  <2>2. CASE index[a].hash[f] = Skipped
    BY <1>1, <2>1, <2>2 DEF Upsert
  <2>3. CASE index[a].hash[f] # Skipped
    <3>1. index[a].hash[f] = Hash(file[f])
      BY <2>1, <2>3 DEF HookInv, Fresh
    <3> QED
      BY <1>1, <2>1, <2>3, <3>1 DEF Upsert
  <2> QED
    BY <2>2, <2>3
<1> QED
  BY <1>2, <1>3

LEMMA IndexEndsKeeps ==
  ASSUME HookInv, NEW a \in Agents, IndexEnds(a)
  PROVE  HookInv'
<1> DEFINE answered == [agent[a] EXCEPT !.answered = TRUE]
           b == Done(answered, "idle")
<1>1. /\ UNCHANGED <<claims, left, late, file, editor, stamp, heard, turns>>
      /\ index' = [index EXCEPT ![a] = NoIndex]
      /\ Becomes(a, b) \/ UNCHANGED agent
  BY DEF IndexEnds
<1>2. /\ row' \in [Parcels -> Hashes \cup {<<"absent">>, <<"null">>}]
      /\ told' \subseteq told /\ \A f \in told' : row'[f] = row[f]
  <2>1. CASE UNCHANGED <<row, told>>
    BY <2>1 DEF HookInv, TypeOK
  <2>2. CASE /\ \A f \in Files : index[a].hash[f] # Unread
             /\ Upsert(index[a].hash)
             /\ told' = told \ index[a].old
    BY <2>2, UpsertTells
  <2> QED
    BY <2>1, <2>2 DEF IndexEnds
<1>3. index' \in [Agents -> Index] /\ Fresh'
  BY <1>1, NoIndexTyped, FreshWithout
<1>4. CASE UNCHANGED agent
  BY <1>1, <1>2, <1>3, <1>4, ServerStep
<1>5. CASE Becomes(a, b)
  <2>1. answered \in Agent /\ answered.answered = TRUE
    BY DEF HookInv, TypeOK, Agent
  <2>2. b \in Agent /\ b.pc \in {"idle", "stamp"} /\ b.next = "idle" /\ b.answered
    BY <2>1, Records
  <2> HIDE DEF b
  <2>3. Honest(a, b)
    BY <2>2 DEF Honest, Leaving, Behind, Section
  <2>4. Fair(a)
    BY <1>1, <1>2 DEF Fair, HookInv, TypeOK, Alone, Holds
  <2>5. turns' \in 0..MaxTurns
    BY <1>1 DEF HookInv, TypeOK
  <2> QED
    BY <1>1, <1>2, <1>3, <1>5, <2>2, <2>3, <2>4, <2>5, AgentStep
<1> QED
  BY <1>1, <1>4, <1>5

LEMMA GiveUpKeeps ==
  ASSUME HookInv, NEW a \in Agents, GiveUp(a)
  PROVE  HookInv'
<1> DEFINE b == Goto(agent[a], "idle")
<1>1. b \in Agent /\ b.pc = "idle"
  BY DEF HookInv, TypeOK, Agent, Goto
<1>2. /\ UNCHANGED <<board, file, editor, told, stamp, heard>> /\ row' = row
      /\ turns' \in 0..MaxTurns /\ Becomes(a, b)
  BY DEF GiveUp, HookInv, TypeOK, board
<1>3. index' \in [Agents -> Index] /\ Fresh'
  <2>1. CASE UNCHANGED index
    BY <1>2, <2>1 DEF HookInv, TypeOK, Fresh
  <2>2. CASE index' = [index EXCEPT ![a] = NoIndex]
    BY <1>2, <2>2, NoIndexTyped, FreshWithout
  <2> QED
    BY <2>1, <2>2 DEF GiveUp
<1> HIDE DEF b
<1>4. Honest(a, b)
  BY <1>1 DEF Honest, Leaving, Behind, Section
<1> QED
  BY <1>1, <1>2, <1>3, <1>4, QuietIsFair, AgentStep

(* An edit makes the readings of its file old.                             *)
LEMMA OvertakenIsFresh ==
  ASSUME HookInv, NEW f \in Files, index' = Overtaken(f),
         \A g \in Files : g # f => file'[g] = file[g]
  PROVE  index' \in [Agents -> Index] /\ Fresh'
<1>1. ASSUME NEW a \in Agents
      PROVE  /\ index'[a] \in Index /\ index'[a].hash = index[a].hash
             /\ index[a].old \subseteq index'[a].old
             /\ index[a].hash[f] \notin {Unread, Skipped} => f \in index'[a].old
  <2>1. index[a] \in Index
    BY DEF HookInv, TypeOK
  <2>2. index'[a] = IF index[a].hash[f] \in {Unread, Skipped} THEN index[a]
                    ELSE [index[a] EXCEPT !.old = index[a].old \cup {f}]
    BY DEF Overtaken
  <2> QED
    BY <2>1, <2>2 DEF Index
<1>2. index' \in [Agents -> Index]
  BY <1>1 DEF Overtaken
<1>3. ASSUME NEW a \in Agents, NEW g \in Files
      PROVE  \/ index'[a].hash[g] \in {Unread, Skipped} \/ g \in index'[a].old
             \/ index'[a].hash[g] = Hash(file'[g])
  BY <1>1 DEF HookInv, Fresh
<1> QED
  BY <1>2, <1>3 DEF Fresh

LEMMA EditKeeps ==
  ASSUME HookInv, NEW a \in Agents, Edit(a)
  PROVE  HookInv'
<1> DEFINE get == Goto(agent[a], "get")
           idle == Goto(agent[a], "idle")
           f == FileOf(a)
<1>1. agent[a] \in Agent /\ agent[a].pc = "edit" /\ f \in Files
  <2>1. agent[a] \in Agent /\ agent[a].pc = "edit"
    BY DEF HookInv, TypeOK, Edit, At
  <2> QED
    BY <2>1, FilesAreParcels DEF FileOf, Agent
<1>2. /\ get \in Agent /\ get.pc = "get" /\ get.path = agent[a].path
      /\ idle \in Agent /\ idle.pc = "idle"
  BY <1>1 DEF Agent, Goto, Section
<1>3. UNCHANGED <<board, stamp, heard, turns>> /\ row' = row /\ Fair(a)
  BY QuietIsFair DEF Edit, board
<1>4. CASE Becomes(a, idle) /\ UNCHANGED tree
  <2> HIDE DEF idle
  <2>1. Honest(a, idle)
    BY <1>2 DEF Honest, Leaving, Behind, Section
  <2>2. turns' \in 0..MaxTurns
    BY <1>3 DEF HookInv, TypeOK
  <2> QED
    BY <1>2, <1>3, <1>4, <2>1, <2>2, ClientStep
<1>5. CASE /\ \E c \in Contents : file' = [file EXCEPT ![f] = c]
           /\ editor' = [editor EXCEPT ![f] = a]
           /\ told' = told \ {f}
           /\ index' = Overtaken(f)
           /\ Becomes(a, get)
  <2>1. PICK c \in Contents : file' = [file EXCEPT ![f] = c]
    BY <1>5
  <2>2. agent'[a] = get /\ agent' \in [Agents -> Agent]
        /\ \A o \in Agents : o # a => agent'[o] = agent[o]
    BY <1>2, <1>5, OneMoves DEF HookInv
  <2>3. /\ file' \in [Files -> Contents] /\ editor' \in [Files -> Agents \cup {"nobody"}]
        /\ told' \subseteq told
        /\ \A g \in Files : g # f => file'[g] = file[g] /\ editor'[g] = editor[g]
        /\ editor'[f] = a
    BY <1>1, <1>5, <2>1 DEF HookInv, TypeOK
  <2> HIDE DEF get
  <2>9. index' \in [Agents -> Index] /\ Fresh'
    BY <1>1, <1>5, <2>3, OvertakenIsFresh
  <2>4. TypeOK'
    BY <1>3, <2>2, <2>3, <2>9 DEF HookInv, TypeOK, Fair
  <2>5. Leaves'
    BY <1>2, <1>3, <2>2 DEF HookInv, Leaves, Leaving, At, Holds, board
  <2>6. Contact'
    BY <1>2, <1>3, <2>2 DEF HookInv, Contact
  <2>7. Seen'
    <3> SUFFICES ASSUME NEW o \in Agents, Behind(agent'[o]), editor'[Target[agent'[o].path]] = o
                 PROVE  /\ agent'[o].pc = "report" =>
                             agent'[o].saw = Hash(file'[Target[agent'[o].path]])
                        /\ agent'[o].pc = "bytes" => file'[Target[agent'[o].path]] \in Broken
      BY DEF Seen, At, FileOf
    <3>1. CASE o = a
      BY <1>2, <2>2, <3>1
    <3>2. CASE o # a
      <4>1. agent'[o] = agent[o] /\ Target[agent[o].path] \in Files
        BY <2>2, <3>2, FilesAreParcels DEF HookInv, TypeOK, Agent
      <4>2. Target[agent[o].path] # f
        BY <2>3, <3>2, <4>1
      <4> QED
        BY <2>3, <4>1, <4>2 DEF HookInv, Seen, At, FileOf
    <3> QED
      BY <3>1, <3>2
  <2>8. Told'
    <3> SUFFICES ASSUME NEW g \in told'
                 PROVE  /\ row'[g] = Hash(file'[g])
                        /\ \A o \in Agents : Behind(agent'[o]) /\ Target[agent'[o].path] = g =>
                             editor'[g] # o /\ ~Holds(o, g)'
      BY DEF Told, FileOf
    <3>1. g \in told /\ g # f /\ file'[g] = file[g] /\ editor'[g] = editor[g]
      BY <1>5, <2>3 DEF HookInv, TypeOK
    <3>2. row'[g] = Hash(file'[g])
      BY <1>3, <3>1 DEF HookInv, Told
    <3>3. ASSUME NEW o \in Agents, Behind(agent'[o]), Target[agent'[o].path] = g
          PROVE  editor'[g] # o /\ ~Holds(o, g)'
      <4>1. o # a
        BY <1>2, <2>2, <3>1, <3>3 DEF FileOf
      <4>2. agent'[o] = agent[o]
        BY <2>2, <4>1
      <4> QED
        BY <1>3, <3>1, <3>3, <4>2 DEF HookInv, Told, FileOf, Holds, board
    <3> QED
      BY <3>2, <3>3
  <2> QED
    BY <1>3, <2>4, <2>5, <2>6, <2>7, <2>8, <2>9 DEF HookInv, Fair
<1> QED
  BY <1>4, <1>5 DEF Edit

LEMMA ReportKeeps ==
  ASSUME HookInv, NEW a \in Agents, Report(a)
  PROVE  HookInv'
<1> DEFINE r == Request(a, "update")
           f == FileOf(a)
           heardOf == [agent[a] EXCEPT !.answered = TRUE]
           answered == [Done(heardOf, "idle") EXCEPT !.answered = TRUE]
           raised == IF r.hash = Hash(Gone) THEN Done(agent[a], "idle") ELSE Goto(agent[a], "idle")
<1>1. /\ agent[a] \in Agent /\ agent[a].pc = "report" /\ Behind(agent[a])
      /\ f \in Files /\ f \in Parcels
  <2>1. agent[a] \in Agent /\ agent[a].pc = "report"
    BY DEF HookInv, TypeOK, Report, At
  <2> QED
    BY <2>1, FilesAreParcels DEF FileOf, Agent, Behind, Section
<1>2. /\ r \in Req /\ r.agent = a /\ r.op = "update" /\ r.parcel = f
      /\ r.hash = agent[a].saw
  BY RequestsTyped DEF HookInv
<1>3. heardOf \in Agent /\ heardOf.answered = TRUE
  BY <1>1 DEF Agent
<1>4. /\ answered \in Agent /\ answered.pc \in {"idle", "stamp"}
      /\ answered.answered /\ answered.next = "idle"
  <2>1. /\ Done(heardOf, "idle") \in Agent /\ Done(heardOf, "idle").pc \in {"idle", "stamp"}
        /\ Done(heardOf, "idle").next = "idle"
    BY <1>3, Records
  <2> QED
    BY <2>1 DEF Agent
<1>5. /\ raised \in Agent /\ raised.pc \in {"idle", "stamp"}
      /\ raised.pc = "stamp" => raised.answered /\ raised.next = "idle"
  <2>1. Goto(agent[a], "idle") \in Agent /\ Goto(agent[a], "idle").pc = "idle"
    BY <1>1 DEF Agent, Goto
  <2>2. /\ Done(agent[a], "idle") \in Agent /\ Done(agent[a], "idle").pc \in {"idle", "stamp"}
        /\ Done(agent[a], "idle").pc = "stamp" =>
             Done(agent[a], "idle").answered /\ Done(agent[a], "idle").next = "idle"
    BY <1>1, Records
  <2> QED
    BY <2>1, <2>2
<1>6. /\ UNCHANGED <<file, editor, index, stamp, heard>> /\ turns' \in 0..MaxTurns
      /\ \/ Lost(r) /\ Becomes(a, raised) /\ told' = told
         \/ /\ Serve(r, late) /\ Becomes(a, answered)
            /\ told' = IF Accepts(r) /\ editor[f] = a THEN told \cup {f} ELSE told
  BY DEF Report, Call, Raise, HookInv, TypeOK
<1> HIDE DEF r, heardOf, answered, raised
<1>7. Honest(a, raised) /\ Honest(a, answered)
  BY <1>4, <1>5 DEF Honest, Leaving, Behind, Section
<1>8. CASE Lost(r) /\ Becomes(a, raised) /\ told' = told
  <2>1. UNCHANGED tree
    BY <1>6, <1>8 DEF tree
  <2> QED
    BY <1>2, <1>5, <1>6, <1>7, <1>8, <2>1, LostIsFair, ClientStep
<1>9. CASE /\ Serve(r, late) /\ Becomes(a, answered)
           /\ told' = IF Accepts(r) /\ editor[f] = a THEN told \cup {f} ELSE told
  <2>1. Fair(a) /\ \A p \in Parcels : Holds(a, p)' => Holds(a, p)
    BY <1>2, <1>9, ServedIsFair
  <2>2. TypeOK'
    <3>1. told' \subseteq Files
      BY <1>1, <1>9 DEF HookInv, TypeOK
    <3> QED
      BY <1>4, <1>6, <1>9, <2>1, <3>1, OneMoves DEF HookInv, TypeOK, Fair
  <2>3. Leaves' /\ Seen'
    BY <1>4, <1>6, <1>7, <1>9, <2>1, LeavesStep, SeenStep
  <2>4. Contact'
    <3>1. \A o \in Agents : agent'[o].pc \in {"stamp", "torn"} => agent'[o].answered
      BY <1>4, <1>9, OneMoves DEF HookInv, Contact
    <3> QED
      BY <1>6, <3>1 DEF HookInv, Contact
  <2>5. Told'
    <3> SUFFICES ASSUME NEW g \in told'
                 PROVE  /\ row'[g] = Hash(file[g])
                        /\ \A o \in Agents : Behind(agent'[o]) /\ Target[agent'[o].path] = g =>
                             editor[g] # o /\ ~Holds(o, g)'
      BY <1>6 DEF Told, FileOf
    <3>1. agent'[a].pc \in {"idle", "stamp"} /\ \A o \in Agents : o # a => agent'[o] = agent[o]
      BY <1>4, <1>9, OneMoves DEF HookInv
    <3>2. /\ late \in SUBSET Req /\ TypeOK /\ Alone
          /\ \A p \in Parcels : (p # r.parcel \/ ~Accepts(r)) => row'[p] = row[p]
          /\ Accepts(r) => row'[r.parcel] = r.hash
      <4>1. late \in SUBSET Req /\ TypeOK /\ Alone
        BY DEF HookInv, TypeOK
      <4> QED
        BY <4>1, <1>2, <1>9, Served
    <3>3. CASE Accepts(r) /\ g = f
      <4>1. Holds(a, f)
        BY <1>2, <3>3 DEF Accepts
      <4>2. editor[f] = a
        BY <1>1, <1>9, <3>3, <4>1 DEF HookInv, Told
      <4>3. row'[g] = Hash(file[g])
        BY <1>1, <1>2, <3>2, <3>3, <4>2 DEF HookInv, Seen, At
      <4>4. ASSUME NEW o \in Agents, Behind(agent'[o])
            PROVE  editor[g] # o /\ ~Holds(o, g)'
        <5>1. o # a
          BY <3>1, <4>4 DEF Behind, Section
        <5>2. ~Holds(o, f)
          BY <1>1, <3>2, <4>1, <5>1 DEF Alone, Holds
        <5> QED
          BY <1>1, <2>1, <3>3, <4>2, <5>1, <5>2 DEF Fair
      <4> QED
        BY <4>3, <4>4
    <3>4. CASE ~(Accepts(r) /\ g = f)
      <4>1. g \in told /\ g \in Parcels /\ row'[g] = row[g]
        BY <1>2, <1>9, <3>2, <3>4, FilesAreParcels DEF HookInv, TypeOK
      <4>2. ASSUME NEW o \in Agents, Behind(agent'[o]), Target[agent'[o].path] = g
            PROVE  editor[g] # o /\ ~Holds(o, g)'
        <5>1. o # a /\ agent'[o] = agent[o]
          BY <3>1, <4>2 DEF Behind, Section
        <5>2. editor[g] # o /\ ~Holds(o, g)
          BY <4>1, <4>2, <5>1 DEF HookInv, Told, FileOf
        <5> QED
          BY <2>1, <4>1, <5>1, <5>2 DEF Fair
      <4> QED
        BY <4>1, <4>2 DEF HookInv, Told
    <3> QED
      BY <3>3, <3>4
  <2> QED
    BY <1>6, <2>1, <2>2, <2>3, <2>4, <2>5 DEF HookInv, Fair, Fresh
<1> QED
  BY <1>6, <1>8, <1>9

LEMMA StampKeeps ==
  ASSUME HookInv, NEW a \in Agents, Stamp(a)
  PROVE  HookInv'
<1> DEFINE torn == Goto(agent[a], "torn")
           on == Goto(agent[a], agent[a].next)
<1>1. agent[a] \in Agent /\ agent[a].pc \in {"stamp", "torn"} /\ agent[a].answered
  BY DEF HookInv, TypeOK, Contact, Stamp, At
<1>2. /\ torn \in Agent /\ torn.pc = "torn" /\ torn.answered = agent[a].answered
      /\ torn.next = agent[a].next /\ torn.kept = agent[a].kept
      /\ on \in Agent /\ on.pc = agent[a].next /\ on.kept = agent[a].kept
      /\ on.pc \in {"idle", "edit", "over"}
  BY <1>1 DEF Agent, Goto, Section, Invoked
<1>3. /\ UNCHANGED <<board, tree, turns>> /\ row' = row /\ Fair(a)
  BY QuietIsFair DEF Stamp, board
<1>4. /\ \/ Becomes(a, torn) /\ stamp' = Torn /\ UNCHANGED heard
         \/ Becomes(a, on) /\ UNCHANGED <<stamp, heard>>
         \/ Becomes(a, on) /\ stamp' = <<Window>> /\ heard' = Window
  BY <1>1 DEF Stamp
<1> HIDE DEF torn, on
<1>5. Honest(a, torn) /\ Honest(a, on)
  <2>1. agent[a].next = "over" /\ ~agent[a].kept =>
          /\ \A p \in Parcels : ~Holds(a, p)'
          /\ \A r \in late' : ~(r.agent = a /\ r.op = "lease")
    <3>1. agent[a].next = "over" /\ ~agent[a].kept =>
            /\ \A p \in Parcels : ~Holds(a, p)
            /\ \A r \in late : ~(r.agent = a /\ r.op = "lease")
      BY <1>1 DEF HookInv, Leaves, Leaving, At
    <3> QED
      BY <1>3, <3>1 DEF board, Holds
  <2> QED
    BY <1>1, <1>2, <2>1 DEF Honest, Leaving, Behind, Section
<1>6. PICK b \in {torn, on} : Becomes(a, b)
  BY <1>4
<1>7. b \in Agent /\ Honest(a, b) /\ (b.pc = "torn" => b.answered) /\ b.pc # "stamp"
  BY <1>1, <1>2, <1>5
<1>8. TypeOK'
  <2>1. stamp' \in {Torn} \cup {<<n>> : n \in 0..Window} /\ heard' \in 0..Window
    BY <1>4, HookAssumption DEF HookInv, TypeOK, HookAssumption
  <2> QED
    BY <1>3, <1>6, <1>7, <2>1, OneMoves DEF HookInv, TypeOK, Fair, tree
<1>9. Contact'
  <2>1. \A o \in Agents : agent'[o].pc \in {"stamp", "torn"} => agent'[o].answered
    BY <1>6, <1>7, OneMoves DEF HookInv, Contact
  <2>2. stamp' # Torn => stamp' = <<heard'>>
    BY <1>4 DEF HookInv, Contact
  <2> QED
    BY <2>1, <2>2 DEF Contact
<1>10. Leaves' /\ Seen' /\ Told'
  BY <1>3, <1>6, <1>7, LeavesStep, SeenStep, ToldStep DEF tree
<1> QED
  BY <1>3, <1>8, <1>9, <1>10 DEF HookInv, Fair, Fresh, tree

LEMMA DeliverKeeps ==
  ASSUME HookInv, NEW r \in late, Deliver(r)
  PROVE  HookInv'
<1>1. /\ r \in Req /\ late \ {r} \in SUBSET Req /\ TypeOK /\ Alone
      /\ r.agent \in Agents /\ r.parcel \in Parcels
  BY DEF HookInv, TypeOK, Req
<1>2. /\ Serve(r, late \ {r}) /\ UNCHANGED <<file, editor, index, stamp, heard, agent, turns>>
      /\ told' = IF r.op \in {"lease", "update"} /\ Accepts(r)
                 THEN told \ {Target[r.parcel]} ELSE told
  BY DEF Deliver
<1>3. /\ claims' \in [Parcels -> SUBSET (Agents \X {"write"})]
      /\ left' \in [Parcels -> 0..Ttl]
      /\ row' \in [Parcels -> Hashes \cup {<<"absent">>, <<"null">>}]
      /\ late' \subseteq late \ {r}
      /\ Alone'
      /\ \A p \in Parcels, a \in Agents : Holds(a, p)' =>
           \/ Holds(a, p)
           \/ a = r.agent /\ p = r.parcel /\ r.op = "lease" /\ Accepts(r)
      /\ \A p \in Parcels :
           (p # r.parcel \/ ~Accepts(r) \/ (r.op # "update" /\ row[p] # <<"absent">>))
             => row'[p] = row[p]
  BY <1>1, <1>2, Served
<1>4. TypeOK'
  BY <1>1, <1>2, <1>3 DEF TypeOK
<1>5. Contact' /\ Seen'
  BY <1>2 DEF HookInv, Contact, Seen, At, FileOf
<1>6. Leaves'
  <2> SUFFICES ASSUME NEW a \in Agents, Leaving(agent[a]), ~agent[a].kept
               PROVE  /\ \A p \in Parcels : Holds(a, p)' => At(a, "release") /\ p \in agent[a].todo
                      /\ \A q \in late' : ~(q.agent = a /\ q.op = "lease")
    BY <1>2 DEF Leaves, At
  <2>1. /\ \A p \in Parcels : Holds(a, p) => At(a, "release") /\ p \in agent[a].todo
        /\ \A q \in late : ~(q.agent = a /\ q.op = "lease")
    BY DEF HookInv, Leaves
  <2>2. ~(r.agent = a /\ r.op = "lease")
    BY <2>1
  <2> QED
    BY <1>3, <2>1, <2>2
<1>7. Told'
  <2> SUFFICES ASSUME NEW f \in told'
               PROVE  /\ row'[f] = Hash(file[f])
                      /\ \A a \in Agents : Behind(agent[a]) /\ FileOf(a) = f =>
                           editor[f] # a /\ ~Holds(a, f)'
    BY <1>2 DEF Told, FileOf
  <2>1. /\ f \in told /\ f \in Parcels /\ file[f] \in Contents
        /\ Accepts(r) /\ r.op \in {"lease", "update"} => f # Target[r.parcel]
    BY <1>1, <1>2, FilesAreParcels DEF TypeOK
  <2>2. row[f] = Hash(file[f]) /\ row[f] # <<"absent">>
    BY <2>1, HashesTyped DEF HookInv, Told
  <2>3. Accepts(r) /\ r.op \in {"lease", "update"} => f # r.parcel
    BY <2>1, FilesAreParcels DEF HookInv, TypeOK
  <2>4. row'[f] = Hash(file[f])
    BY <1>3, <2>1, <2>2, <2>3
  <2>5. ASSUME NEW a \in Agents, Behind(agent[a]), FileOf(a) = f
        PROVE  editor[f] # a /\ ~Holds(a, f)'
    <3>1. editor[f] # a /\ ~Holds(a, f)
      BY <2>1, <2>5 DEF HookInv, Told
    <3> QED
      BY <1>3, <2>1, <2>3, <3>1
  <2> QED
    BY <2>4, <2>5
<1> QED
  BY <1>2, <1>3, <1>4, <1>5, <1>6, <1>7 DEF HookInv, Fresh

LEMMA TickKeeps ==
  ASSUME HookInv, Tick
  PROVE  HookInv'
<1>1. /\ claims' \in [Parcels -> SUBSET (Agents \X {"write"})]
      /\ left' \in [Parcels -> 0..Ttl]
      /\ late' \subseteq late
      /\ Alone'
      /\ \A p \in Parcels, a \in Agents : Holds(a, p)' => Holds(a, p)
  BY Lapsed DEF HookInv
<1>2. UNCHANGED <<row, file, editor, told, index, agent, turns>>
  BY DEF Tick, tree
<1>3. /\ heard' = Less(heard) /\ stamp' = IF stamp = Torn THEN stamp ELSE <<Less(stamp[1])>>
      /\ heard \in 0..Window /\ Window \in Nat
      /\ stamp \in {Torn} \cup {<<n>> : n \in 0..Window}
  BY HookAssumption DEF Tick, HookInv, TypeOK, HookAssumption
<1>4. /\ heard' \in 0..Window /\ stamp' \in {Torn} \cup {<<n>> : n \in 0..Window}
      /\ stamp' # Torn => stamp' = <<heard'>>
  <2>1. heard' \in 0..Window
    BY <1>3 DEF Less
  <2>2. CASE stamp = Torn
    BY <1>3, <2>1, <2>2
  <2>3. CASE stamp # Torn
    <3>1. stamp = <<heard>>
      BY <2>3 DEF HookInv, Contact
    <3>2. stamp' = <<heard'>>
      BY <1>3, <2>3, <3>1
    <3> QED
      BY <2>1, <3>2
  <2> QED
    BY <2>2, <2>3
<1>5. TypeOK'
  BY <1>1, <1>2, <1>4 DEF HookInv, TypeOK
<1>6. Leaves' /\ Contact' /\ Seen'
  BY <1>1, <1>2, <1>4 DEF HookInv, Leaves, Contact, Seen, At, FileOf
<1>7. Told'
  <2>1. \A f \in told : f \in Parcels
    BY FilesAreParcels DEF HookInv, TypeOK
  <2> QED
    BY <1>1, <1>2, <2>1 DEF HookInv, Told, FileOf
<1> QED
  BY <1>1, <1>2, <1>5, <1>6, <1>7 DEF HookInv, Fresh

LEMMA InitHolds == Init => HookInv
<1> SUFFICES ASSUME Init PROVE HookInv
  OBVIOUS
<1>1. TypeOK
  <2>1. file \in [Files -> Contents]
    BY DEF Init, Contents
  <2>2. row \in [Parcels -> Hashes \cup {<<"absent">>, <<"null">>}]
    <3>1. \A p \in Parcels : p \in Indexed => Hash(file[p]) \in Hashes
      BY <2>1, HashesTyped, HookAssumption DEF HookAssumption
    <3> QED
      BY <3>1 DEF Init
  <2>3. /\ left \in [Parcels -> 0..Ttl] /\ turns \in 0..MaxTurns /\ heard \in 0..Window
        /\ stamp \in {Torn} \cup {<<n>> : n \in 0..Window}
    BY HookAssumption DEF Init, HookAssumption
  <2> QED
    BY <2>1, <2>2, <2>3, RestIsAgent, NoIndexTyped DEF Init, TypeOK
<1>2. \A a \in Agents : agent[a].pc = "idle"
  BY DEF Init, Rest
<1>3. Alone /\ told = {} /\ stamp = <<heard>>
  BY DEF Init, Alone
<1>4. Fresh
  BY NoIndexTyped DEF Init, Fresh
<1> QED
  BY <1>1, <1>2, <1>3, <1>4 DEF HookInv, Leaves, Leaving, Contact, Seen, Told, Behind, Section

LEMMA NextKeeps == HookInv /\ [Next]_vars => HookInv'
<1> SUFFICES ASSUME HookInv, [Next]_vars PROVE HookInv'
  OBVIOUS
<1>1. CASE UNCHANGED vars
  <2>1. TypeOK'
    BY <1>1 DEF vars, board, tree, HookInv, TypeOK
  <2>2. Alone' /\ Leaves' /\ Contact'
    BY <1>1 DEF vars, board, tree, HookInv, Alone, Leaves, Contact, At, Holds
  <2>3. Seen' /\ Told'
    BY <1>1 DEF vars, board, tree, HookInv, Seen, Told, At, FileOf, Holds
  <2>4. Fresh'
    BY <1>1 DEF vars, tree, HookInv, Fresh
  <2> QED
    BY <2>1, <2>2, <2>3, <2>4 DEF HookInv
<1>2. CASE Tick
  BY <1>2, TickKeeps
<1>3. CASE \E r \in late : Deliver(r)
  BY <1>3, DeliverKeeps
<1>4. ASSUME NEW a \in Agents,
             \/ SessionStart(a) \/ \E f \in Files : IndexFile(a, f)
             \/ IndexEnds(a) \/ GiveUp(a)
             \/ \E p \in Paths : Ask(a, p)
             \/ Precheck(a) \/ Decide(a) \/ Edit(a)
             \/ Get(a) \/ Keepalive(a) \/ Look(a) \/ Report(a)
             \/ \E active \in BOOLEAN : Stop(a, active)
             \/ List(a) \/ \E p \in Parcels : Release(a, p)
             \/ Stamp(a)
      PROVE  HookInv'
  BY <1>4, SessionStartKeeps, IndexFileKeeps, IndexEndsKeeps, GiveUpKeeps, AskKeeps,
     PrecheckKeeps, DecideKeeps, EditKeeps, GetKeeps, KeepaliveKeeps, LookKeeps, ReportKeeps, StopKeeps, ListKeeps, ReleaseKeeps, StampKeeps
<1> QED
  BY <1>1, <1>2, <1>3, <1>4 DEF Next

-----------------------------------------------------------------------------
(* The theorems.                                                           *)

(* The invariant the four properties follow from.                          *)
THEOREM Invariant == Spec => []HookInv
  BY InitHolds, NextKeeps, PTL DEF Spec

(* Every variable keeps its type.                                          *)
THEOREM Typing == Spec => []TypeOK
<1>1. HookInv => TypeOK
  BY DEF HookInv
<1> QED
  BY <1>1, Invariant, PTL

(* One writer per physical file, whatever the agents call it: a symbolic   *)
(* link does not make a second lease.                                      *)
THEOREM EditorsAlone == Spec => []EditsAlone
<1>1. HookInv => EditsAlone
  <2> SUFFICES ASSUME HookInv, NEW a \in Agents, NEW b \in Agents, Covered(a), Covered(b),
                      FileOf(a) = FileOf(b)
               PROVE  a = b
    BY DEF EditsAlone
  <2>1. FileOf(a) \in Parcels
    BY FilesAreParcels DEF HookInv, TypeOK, Agent, FileOf
  <2>2. <<a, "write">> \in claims[FileOf(a)] /\ <<b, "write">> \in claims[FileOf(a)]
    BY DEF Covered, Holds, ParcelOf, Parcel, FileOf
  <2>3. <<a, "write">> = <<b, "write">>
    BY <2>1, <2>2 DEF HookInv, Alone
  <2> QED
    BY <2>3
<1> QED
  BY <1>1, Invariant, PTL

(* A row whose file's last edit was reported under its lease is right.     *)
THEOREM RowsTell == Spec => []RowTellsFile
<1>1. HookInv => RowTellsFile
  BY FilesAreParcels DEF HookInv, TypeOK, Told, RowTellsFile, Parcel
<1> QED
  BY <1>1, Invariant, PTL

(* A release whose calls were answered leaves the agent with nothing.      *)
THEOREM StoppedHoldNothing == Spec => []StopReleases
<1>1. HookInv => StopReleases
  BY DEF HookInv, Leaves, Leaving, StopReleases, At
<1> QED
  BY <1>1, Invariant, PTL

(* A failed precheck denies or lets through for the reason it has.         *)
THEOREM ForCause == Spec => DecisionsForCause
<1>1. HookInv /\ [Next]_vars =>
        [\A a \in Agents : At(a, "failed") /\ agent'[a].pc # "failed" =>
           /\ agent'[a].pc = "idle" => heard > 0
           /\ agent'[a].pc = "edit" => heard = 0 \/ stamp = Torn]_vars
  <2> SUFFICES ASSUME HookInv, Next, NEW a \in Agents, At(a, "failed"), agent'[a].pc # "failed"
               PROVE  /\ agent'[a].pc = "idle" => heard > 0
                      /\ agent'[a].pc = "edit" => heard = 0 \/ stamp = Torn
    OBVIOUS
  <2>1. agent'[a] # agent[a]
    BY DEF At
  <2>2. Decide(a)
    <3>1. ASSUME NEW o \in Agents, NEW b, Becomes(o, b), o # a PROVE FALSE
      BY <2>1, <3>1 DEF Becomes, HookInv, TypeOK
    <3>2. ASSUME NEW o \in Agents,
                 SessionStart(o) \/ (\E f \in Files : IndexFile(o, f)) \/ IndexEnds(o) \/ GiveUp(o)
          PROVE  FALSE
      <4>1. CASE SessionStart(o)
        BY <2>1, <3>1, <4>1 DEF SessionStart, At
      <4>2. CASE \E f \in Files : IndexFile(o, f)
        BY <2>1, <4>2 DEF IndexFile
      <4>3. CASE IndexEnds(o)
        BY <2>1, <3>1, <4>3 DEF IndexEnds, At
      <4>4. CASE GiveUp(o)
        BY <2>1, <3>1, <4>4 DEF GiveUp, At
      <4> QED
        BY <3>2, <4>1, <4>2, <4>3, <4>4
    <3> QED
      BY <2>1, <3>1, <3>2 DEF Next, Tick, Deliver, Ask, Precheck, Call, Raise, Decide, Edit, Get,
         Read, Keepalive, Look, Report, Stop, List, Release, Stamp, At, HookInv
  <2>3. Recent <=> stamp # Torn /\ heard > 0
    BY DEF HookInv, TypeOK, Contact, Recent
  <2>4. agent'[a].pc = IF Recent THEN "idle" ELSE "edit"
    <3>1. agent[a] \in Agent
      BY DEF HookInv, TypeOK
    <3>2. /\ [[agent[a] EXCEPT !.pc = "edit"] EXCEPT !.pass = "open"] \in Agent
          /\ [[agent[a] EXCEPT !.pc = "edit"] EXCEPT !.pass = "open"].pc = "edit"
          /\ Goto(agent[a], "idle") \in Agent /\ Goto(agent[a], "idle").pc = "idle"
      BY <3>1 DEF Agent, Goto, Section
    <3>3. Becomes(a, IF Recent THEN Goto(agent[a], "idle")
                     ELSE [[agent[a] EXCEPT !.pc = "edit"] EXCEPT !.pass = "open"])
      BY <2>2 DEF Decide
    <3>4. CASE Recent
      BY <3>2, <3>3, <3>4, OneMoves DEF HookInv
    <3>5. CASE ~Recent
      BY <3>2, <3>3, <3>5, OneMoves DEF HookInv
    <3> QED
      BY <3>4, <3>5
  <2> QED
    BY <2>3, <2>4 DEF HookInv, TypeOK
<1> QED
  BY <1>1, Invariant, PTL DEF Spec, DecisionsForCause
=============================================================================
