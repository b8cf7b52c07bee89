-------------------------------- MODULE Hook --------------------------------
(***************************************************************************)
(* The Claude Code hooks of hooks/adapter.py and the guard script that     *)
(* launches them: agents that edit ONE shared working tree, each edit      *)
(* between a precheck and a postupdate, each turn ended by a release.      *)
(* Every invocation is a short process of its own; what they share is the  *)
(* blackboard, the files and the stamp .swarmsync-last-contact.            *)
(*                                                                         *)
(* The lease table is the abstract one, ParcelLock, with a countdown for   *)
(* the time-to-live.  A call may be refused (the server is down, or        *)
(* answers with an error) or time out at the client, and then the server   *)
(* may serve it later, in any order, or never.  A session start indexes    *)
(* the repository: the server reads file after file and then writes all    *)
(* the rows, whoever holds what.                                           *)
(***************************************************************************)
EXTENDS Naturals, FiniteSets

CONSTANTS
  Agents,     \* agent ids (or session ids), unique
  Paths,      \* what a tool names as its file
  Files,      \* the files of the repository
  Target,     \* the file a path resolves to, or Outside
  Outside,    \* a path that leaves the repository
  Texts,      \* contents a file may have
  Broken,     \* those the parser refuses
  Glue,       \* the module-level text of the others: what their hash tells
  Indexed,    \* files with a row before the session
  Ttl,        \* ticks a lease lasts
  Window,     \* ticks a contact counts as recent
  MaxTurns,   \* bound: edits that are asked for, of all agents; a session start counts two
  MaxLate     \* bound: timed-out requests the server has yet to serve

Gone == "gone"
Contents == Texts \cup {Gone}
Parcels == {p \in Paths : Target[p] # Outside}

ASSUME HookAssumption ==
  /\ Files \subseteq Paths /\ Files # {} /\ Outside \notin Paths
  /\ Target \in [Paths -> Files \cup {Outside}]
  /\ \A f \in Files : Target[f] = f
  /\ Gone \notin Texts /\ Broken \subseteq Texts /\ Indexed \subseteq Files
  /\ Texts \ Broken \subseteq DOMAIN Glue
  /\ Ttl \in Nat \ {0} /\ Window \in Nat \ {0}
  /\ MaxTurns \in Nat /\ MaxLate \in Nat

VARIABLES
  claims,   \* the standing leases of every parcel
  left,     \* ticks left of the lease of a parcel
  row,      \* content_hash of a parcel's row
  late,     \* requests that timed out and that the server may still serve
  file,     \* the contents of every file
  stamp,    \* the stamp of the last contact: ticks it stays recent, or torn
  agent,    \* every agent and the invocation it waits for
  turns,    \* edits asked for so far, and two for every session start
  index,    \* the index every agent's session start has running, and what it
            \* read of every file; history: files edited after it read them
  heard,    \* history: ticks since the last answered invocation, down from Window
  editor,   \* history: who edited a file last
  told      \* history: files whose last editor's report was accepted, with no
            \* edit, no request served late, and no index written since that
            \* had read the file before the edit

board == <<claims, left, row, late>>
tree  == <<file, editor, told, index>>
vars  == <<board, tree, stamp, heard, agent, turns>>

Lock == INSTANCE ParcelLock WITH Modes <- {"write"}

(* A parseable file is described by its module parcel, the glue between    *)
(* its symbols; an unparseable one by its bytes; a deleted one by a        *)
(* constant.                                                               *)
Hash(c) == IF c = Gone THEN <<"sentinel">>
           ELSE IF c \in Broken THEN <<"bytes", c>>
           ELSE <<"glue", Glue[c]>>
Hashes == {Hash(c) : c \in Contents} \cup {<<"bytes", c>> : c \in Texts}

Req == [op : {"lease", "beat", "update", "release"}, agent : Agents,
        parcel : Parcels, hash : Hashes]

(* The section of an edit, from the allowed precheck to the report.        *)
Section == {"edit", "get", "beat", "look", "parse", "bytes", "report"}
Invoked == {"ask", "failed", "index", "list", "release", "stamp", "torn"}
Agent == [pc : {"idle", "over"} \cup Section \cup Invoked,
          next : {"idle", "edit", "over"}, path : Parcels,
          pass : {"gated", "open"}, answered : BOOLEAN, quiet : BOOLEAN,
          saw : Hashes, todo : SUBSET Parcels, kept : BOOLEAN]

(* An index has not read a file yet, has skipped it as unreadable or       *)
(* unparseable, or has its hash.                                           *)
Unread  == <<"unread">>
Skipped == <<"skipped">>
Index == [on : BOOLEAN, hash : [Files -> Hashes \cup {Unread, Skipped}], old : SUBSET Files]
NoIndex == [on |-> FALSE, hash |-> [f \in Files |-> Unread], old |-> {}]

(* A stamp that is being written is empty, and parses as no contact.       *)
Torn == <<>>
Recent == stamp # Torn /\ stamp[1] > 0

TypeOK ==
  /\ claims \in [Parcels -> SUBSET (Agents \X {"write"})]
  /\ left \in [Parcels -> 0..Ttl]
  /\ row \in [Parcels -> Hashes \cup {<<"absent">>, <<"null">>}]
  /\ late \subseteq Req
  /\ file \in [Files -> Contents]
  /\ stamp \in {Torn} \cup {<<n>> : n \in 0..Window}
  /\ agent \in [Agents -> Agent]
  /\ heard \in 0..Window
  /\ turns \in 0..MaxTurns
  /\ editor \in [Files -> Agents \cup {"nobody"}]
  /\ told \subseteq Files
  /\ index \in [Agents -> Index]

(* An agent before its first invocation.                                   *)
Rest == [pc |-> "idle", next |-> "idle", path |-> CHOOSE f \in Files : TRUE,
         pass |-> "open", answered |-> FALSE, quiet |-> FALSE, saw |-> Hash(Gone),
         todo |-> {}, kept |-> FALSE]

Init ==
  /\ claims = [p \in Parcels |-> {}]
  /\ left = [p \in Parcels |-> 0]
  /\ file \in [Files -> Texts \ Broken]
  /\ row = [p \in Parcels |-> IF p \in Indexed THEN Hash(file[p]) ELSE <<"absent">>]
  /\ late = {}
  /\ stamp = <<0>> /\ heard = 0
  /\ agent = [a \in Agents |-> Rest]
  /\ editor = [f \in Files |-> "nobody"]
  /\ told = {}
  /\ index = [a \in Agents |-> NoIndex]
  /\ turns = 0

-----------------------------------------------------------------------------
(* The server.                                                             *)

Holds(a, p) == <<a, "write">> \in claims[p]

(* Mutant: a report is accepted from anybody.                              *)
AcceptsUnowned(r) ==
  CASE r.op = "lease" -> \A c \in claims[r.parcel] : Lock!Compatible(<<r.agent, "write">>, c)
    [] r.op = "update" -> TRUE
    [] OTHER -> Holds(r.agent, r.parcel)

(* A lease is granted to its own holder again; every other request needs   *)
(* the caller's live lease, or is refused with a 200.                      *)
Accepts(r) == IF r.op = "lease"
              THEN \A c \in claims[r.parcel] : Lock!Compatible(<<r.agent, "write">>, c)
              ELSE Holds(r.agent, r.parcel)

(* heartbeat and release name the lease by its id: they are void once it   *)
(* is gone, even if the agent leases the parcel again.                     *)
InForce(reqs) == {r \in reqs : \/ r.op \in {"lease", "update"}
                               \/ <<r.agent, "write">> \in claims'[r.parcel]}

Serve(r, rest) ==
  LET ok == Accepts(r)
      c  == <<r.agent, "write">>
  IN  /\ claims' = IF ~ok THEN claims
                   ELSE [claims EXCEPT ![r.parcel] =
                           CASE r.op = "lease"   -> @ \cup {c}
                             [] r.op = "release" -> @ \ {c}
                             [] OTHER            -> @]
      /\ left' = IF ~ok \/ r.op = "update" THEN left
                 ELSE [left EXCEPT ![r.parcel] = IF r.op = "release" THEN 0 ELSE Ttl]
      /\ row' = IF ~ok THEN row
                ELSE [row EXCEPT ![r.parcel] =
                        IF r.op = "update" THEN r.hash
                        ELSE IF @ = <<"absent">> THEN <<"null">> ELSE @]
      /\ late' = InForce(rest)

(* A call of a that raises: it never reached the server, or it timed out   *)
(* and is served later.                                                    *)
Lost(r) == /\ late' \in {late} \cup (IF Cardinality(late) < MaxLate
                                    THEN {late \cup {r}} ELSE {})
           /\ UNCHANGED <<claims, left, row>>

(* A timed-out request is served after all: a report that may be stale by  *)
(* now, a lease behind its agent's back.                                   *)
Deliver(r) ==
  /\ Serve(r, late \ {r})
  /\ told' = IF r.op \in {"lease", "update"} /\ Accepts(r)
             THEN told \ {Target[r.parcel]} ELSE told
  /\ UNCHANGED <<file, editor, index, stamp, heard, agent, turns>>

Less(n) == IF n = 0 THEN 0 ELSE n - 1

(* Time passes: leases lapse, contacts age.                                *)
Tick ==
  /\ left' = [p \in Parcels |-> Less(left[p])]
  /\ claims' = [p \in Parcels |-> IF left'[p] = 0 THEN {} ELSE claims[p]]
  /\ late' = InForce(late)
  /\ stamp' = IF stamp = Torn THEN stamp ELSE <<Less(stamp[1])>>
  /\ heard' = Less(heard)
  /\ UNCHANGED <<row, tree, agent, turns>>

-----------------------------------------------------------------------------
(* The client: one invocation after the other for every agent.             *)

At(a, s) == agent[a].pc = s

(* An invocation's variables end with its process: all a resting agent     *)
(* keeps is how its last release went, and all an editing one keeps is the *)
(* file and the answer of the precheck.                                    *)
Settled(b) ==
  IF b.pc \in {"idle", "over"} THEN [Rest EXCEPT !.pc = b.pc, !.kept = b.kept]
  ELSE IF b.pc = "edit" THEN [Rest EXCEPT !.pc = b.pc, !.path = b.path, !.pass = b.pass]
  ELSE b
Becomes(a, b) == agent' = [agent EXCEPT ![a] = Settled(b)]
Goto(b, s) == [b EXCEPT !.pc = s]

(* Mutant: the parcel is named after the unresolved path.                  *)
ParcelUnresolved(p) == p

(* A symbolic link to a file of the repository is that file's parcel.      *)
Parcel(p) == Target[p]

ParcelOf(a) == Parcel(agent[a].path)
FileOf(a) == Target[agent[a].path]

(* Mutant: an invocation that did not raise is taken for a contact.        *)
StampsAlways(b) == ~b.quiet

(* Only an answered call makes a contact, and the release of an inactive   *)
(* repository leaves no stamp.                                             *)
Stamps(b) == b.answered /\ ~b.quiet

(* The invocation ended without raising: stamp the contact, then go on.    *)
Done(b, s) == [b EXCEPT !.pc = IF Stamps(b) THEN "stamp" ELSE s, !.next = s]

Request(a, op) == [op |-> op, agent |-> a, parcel |-> ParcelOf(a),
                   hash |-> IF op = "update" THEN agent[a].saw ELSE Hash(Gone)]

(* A call of a, answered: the invocation goes on as b.                     *)
Call(a, r, b) == Serve(r, late) /\ Becomes(a, [b EXCEPT !.answered = TRUE])

(* A call of a that raises, after which the agent is in b.                 *)
Raise(a, r, b) == Lost(r) /\ Becomes(a, b)

(* A read that the server answers, or that raises: nothing changes there.  *)
Read(a, answer, raised) ==
  /\ \/ Becomes(a, [answer EXCEPT !.answered = TRUE])
     \/ Becomes(a, raised)
  /\ UNCHANGED board

(* SessionStart: one POST /index, which does not ask who is editing.       *)
SessionStart(a) ==
  /\ agent[a].pc \in {"idle", "over"} /\ turns + 1 < MaxTurns /\ ~index[a].on
  /\ turns' = turns + 2
  /\ index' = [index EXCEPT ![a] = [NoIndex EXCEPT !.on = TRUE]]
  /\ Becomes(a, [agent[a] EXCEPT !.pc = "index", !.kept = FALSE])
  /\ UNCHANGED <<board, file, editor, told, stamp, heard>>

(* index_repo: the files are read one after the other.                     *)
IndexFile(a, f) ==
  /\ index[a].on /\ index[a].hash[f] = Unread
  /\ index' = [index EXCEPT ![a].hash[f] =
                 IF file[f] = Gone \/ file[f] \in Broken THEN Skipped ELSE Hash(file[f])]
  /\ UNCHANGED <<board, file, editor, told, stamp, heard, agent, turns>>

(* upsert_parcels: one transaction writes every row that was read.         *)
Upsert(hash) ==
  row' = [p \in Parcels |-> IF p \notin Files \/ hash[p] = Skipped THEN row[p] ELSE hash[p]]

(* The index is written, or is given up over its limits or a failing       *)
(* transaction; any response is a contact, if the client still waits.      *)
IndexEnds(a) ==
  /\ index[a].on
  /\ \/ /\ \A f \in Files : index[a].hash[f] # Unread
        /\ Upsert(index[a].hash)
        /\ told' = told \ index[a].old
     \/ UNCHANGED <<row, told>>
  /\ index' = [index EXCEPT ![a] = NoIndex]
  /\ \/ /\ At(a, "index")
        /\ Becomes(a, Done([agent[a] EXCEPT !.answered = TRUE], "idle"))
     \/ ~At(a, "index") /\ UNCHANGED agent
  /\ UNCHANGED <<claims, left, late, file, editor, stamp, heard, turns>>

(* The call raises: it never reached the server, or the index goes on      *)
(* without its client.                                                     *)
GiveUp(a) ==
  /\ At(a, "index")
  /\ \/ index' = [index EXCEPT ![a] = NoIndex]
     \/ UNCHANGED index
  /\ Becomes(a, Goto(agent[a], "idle"))
  /\ UNCHANGED <<board, file, editor, told, stamp, heard, turns>>

(* PreToolUse.  A path outside the repository is allowed without a call.   *)
Ask(a, p) ==
  /\ agent[a].pc \in {"idle", "over"} /\ turns < MaxTurns
  /\ turns' = turns + 1
  /\ LET b == [agent[a] EXCEPT !.kept = FALSE]
     IN  Becomes(a, IF Target[p] = Outside THEN Done(b, "idle")
                    ELSE [b EXCEPT !.pc = "ask", !.path = p])
  /\ UNCHANGED <<board, tree, stamp, heard>>

(* cmd_precheck: one acquire is the whole decision.                        *)
Precheck(a) ==
  /\ At(a, "ask")
  /\ LET r == Request(a, "lease") IN
     \/ Call(a, r, IF Accepts(r)
                   THEN Done([agent[a] EXCEPT !.pass = "gated", !.answered = TRUE], "edit")
                   ELSE Done([agent[a] EXCEPT !.answered = TRUE], "idle"))
     \/ Raise(a, r, Goto(agent[a], "failed"))
  /\ UNCHANGED <<tree, stamp, heard, turns>>

(* _maybe_fail_closed: deny while the last contact is recent, else let the *)
(* edit through ungated.                                                   *)
Decide(a) ==
  /\ At(a, "failed")
  /\ Becomes(a, IF Recent THEN Goto(agent[a], "idle")
                ELSE [agent[a] EXCEPT !.pc = "edit", !.pass = "open"])
  /\ UNCHANGED <<board, tree, stamp, heard, turns>>

(* The indexes that have read a file have read it before its next edit.    *)
Overtaken(f) ==
  [a \in Agents |-> IF index[a].hash[f] \in {Unread, Skipped} THEN index[a]
                    ELSE [index[a] EXCEPT !.old = @ \cup {f}]]

(* The tool runs, or fails and is not reported.                            *)
Edit(a) ==
  /\ At(a, "edit")
  /\ \/ /\ \E c \in Contents : file' = [file EXCEPT ![FileOf(a)] = c]
        /\ editor' = [editor EXCEPT ![FileOf(a)] = a]
        /\ told' = told \ {FileOf(a)}
        /\ index' = Overtaken(FileOf(a))
        /\ Becomes(a, Goto(agent[a], "get"))
     \/ Becomes(a, Goto(agent[a], "idle")) /\ UNCHANGED tree
  /\ UNCHANGED <<board, stamp, heard, turns>>

(* PostToolUse.  cmd_postupdate reads the leases and renews the agent's    *)
(* own; a call that raises ends it.                                        *)
Get(a) ==
  /\ At(a, "get")
  /\ Read(a, Goto(agent[a], IF Holds(a, ParcelOf(a)) THEN "beat" ELSE "look"),
             Goto(agent[a], "idle"))
  /\ UNCHANGED <<tree, stamp, heard, turns>>

Keepalive(a) ==
  /\ At(a, "beat")
  /\ LET r == Request(a, "beat") IN
     \/ Call(a, r, Goto(agent[a], "look"))
     \/ Raise(a, r, Goto(agent[a], "idle"))
  /\ UNCHANGED <<tree, stamp, heard, turns>>

(* The file is looked for, parsed and, if it does not parse, read again:   *)
(* three looks at a file that others may edit.  One that went in between   *)
(* raises.                                                                 *)
Look(a) ==
  /\ LET c == file[FileOf(a)]
         seen(h) == [agent[a] EXCEPT !.pc = "report", !.saw = h]
     IN  \/ At(a, "look") /\ Becomes(a, IF c = Gone THEN seen(Hash(Gone))
                                        ELSE Goto(agent[a], "parse"))
         \/ At(a, "parse") /\ Becomes(a, IF c = Gone THEN Goto(agent[a], "idle")
                                         ELSE IF c \in Broken THEN Goto(agent[a], "bytes")
                                         ELSE seen(Hash(c)))
         \/ At(a, "bytes") /\ Becomes(a, IF c = Gone THEN Goto(agent[a], "idle")
                                         ELSE seen(<<"bytes", c>>))
  /\ UNCHANGED <<board, tree, stamp, heard, turns>>

(* The report needs the lease and a row: without a row it raises, which    *)
(* only the report of a deletion survives.                                 *)
Report(a) ==
  /\ At(a, "report")
  /\ LET r == Request(a, "update")
         f == FileOf(a)
         raised == IF r.hash = Hash(Gone) THEN Done(agent[a], "idle")
                   ELSE Goto(agent[a], "idle")
     IN  \/ /\ row[r.parcel] # <<"absent">>
           /\ Call(a, r, Done([agent[a] EXCEPT !.answered = TRUE], "idle"))
           /\ told' = IF Accepts(r) /\ editor[f] = a THEN told \cup {f} ELSE told
        \/ /\ Raise(a, r, raised)
           /\ UNCHANGED told
  /\ UNCHANGED <<file, editor, index, stamp, heard, turns>>

(* Mutant: the release is gated on the marker like every other hook.       *)
StopGated(a, active) ==
  /\ At(a, "idle")
  /\ Becomes(a, Goto(agent[a], IF active THEN "list" ELSE "over"))
  /\ UNCHANGED <<board, tree, stamp, heard, turns>>

(* SubagentStop or Stop.  The guard launches the release whether or not    *)
(* the repository looks active from the session's directory; when it does  *)
(* not, the release is quiet.                                              *)
Stop(a, active) ==
  /\ At(a, "idle")
  /\ Becomes(a, [agent[a] EXCEPT !.pc = "list", !.quiet = ~active])
  /\ UNCHANGED <<board, tree, stamp, heard, turns>>

(* cmd_release: list the leases and release one's own, one call each.  A   *)
(* call that raises ends it.  kept: a call raised, or a lease request of   *)
(* the agent was still to be served when the leases were listed.           *)
List(a) ==
  /\ At(a, "list")
  /\ LET mine == {p \in Parcels : Holds(a, p)}
         b == [agent[a] EXCEPT !.todo = mine, !.answered = TRUE,
                 !.kept = \E r \in late : r.agent = a /\ r.op = "lease"]
     IN  Read(a, IF mine = {} THEN Done(b, "over") ELSE Goto(b, "release"),
                 [agent[a] EXCEPT !.pc = "over", !.kept = TRUE])
  /\ UNCHANGED <<tree, stamp, heard, turns>>

Release(a, p) ==
  /\ At(a, "release") /\ p \in agent[a].todo
  /\ LET r == [op |-> "release", agent |-> a, parcel |-> p, hash |-> Hash(Gone)]
         b == [agent[a] EXCEPT !.todo = @ \ {p}]
     IN  \/ Call(a, r, IF b.todo = {} THEN Done(b, "over") ELSE b)
        \/ Raise(a, r, [b EXCEPT !.pc = "over", !.todo = {}, !.kept = TRUE])
  /\ UNCHANGED <<tree, stamp, heard, turns>>

(* _record_contact: write_text truncates the stamp and then writes it.  A  *)
(* tree that cannot be written keeps the stamp it has.                     *)
Stamp(a) ==
  /\ \/ /\ At(a, "stamp") /\ stamp' = Torn /\ UNCHANGED heard
        /\ Becomes(a, Goto(agent[a], "torn"))
     \/ /\ At(a, "stamp") /\ UNCHANGED <<stamp, heard>>
        /\ Becomes(a, Goto(agent[a], agent[a].next))
     \/ /\ At(a, "torn") /\ stamp' = <<Window>>
        /\ Becomes(a, Goto(agent[a], agent[a].next))
        /\ heard' = IF agent[a].answered THEN Window ELSE heard
  /\ UNCHANGED <<board, tree, turns>>

Next ==
  \/ Tick
  \/ \E r \in late : Deliver(r)
  \/ \E a \in Agents :
       \/ SessionStart(a) \/ \E f \in Files : IndexFile(a, f)
       \/ IndexEnds(a) \/ GiveUp(a)
       \/ \E p \in Paths : Ask(a, p)
       \/ Precheck(a) \/ Decide(a) \/ Edit(a)
       \/ Get(a) \/ Keepalive(a) \/ Look(a) \/ Report(a)
       \/ \E active \in BOOLEAN : Stop(a, active)
       \/ List(a) \/ \E p \in Parcels : Release(a, p)
       \/ Stamp(a)

Spec == Init /\ [][Next]_vars

-----------------------------------------------------------------------------
(* Properties.                                                             *)

(* Two agents in the section of an edit of one file, whatever they call    *)
(* it, are never both there on a granted lease that is still theirs: the   *)
(* lost edit the precheck exists for (adapter.py _relpath, cmd_precheck).  *)
(* An edit let through ungated, or on a lease that lapsed meanwhile, may   *)
(* overlap another.                                                        *)
Covered(a) == /\ agent[a].pc \in Section /\ agent[a].pass = "gated"
              /\ Holds(a, ParcelOf(a))
EditsAlone ==
  \A a, b \in Agents : a # b /\ Covered(a) /\ Covered(b) => FileOf(a) # FileOf(b)

(* The two tiers of a failed precheck: it denies only if some invocation   *)
(* got an answer within the window, so a server that was never there       *)
(* blocks nobody; and it lets the edit through only if none did, or if     *)
(* the stamp is being rewritten, or was left torn, at that instant         *)
(* (adapter.py _maybe_fail_closed, _ContactRecordingHttp).                 *)
DecisionsForCause ==
  [][\A a \in Agents : At(a, "failed") /\ agent'[a].pc # "failed" =>
       /\ agent'[a].pc = "idle" => heard > 0
       /\ agent'[a].pc = "edit" => heard = 0 \/ stamp = Torn]_vars

(* Once the last editor of a file has reported under its lease, the row    *)
(* carries the hash of what is on disk, whatever agents that edited the    *)
(* file before it still have to report, and whatever session starts index  *)
(* the repository meanwhile, save one that read the file before that edit  *)
(* and is written after the report (adapter.py cmd_postupdate over app.py  *)
(* post_parcel_update and post_index).                                     *)
RowTellsFile == \A f \in told : row[Parcel(f)] = Hash(file[f])

(* A stopped agent none of whose calls to release failed holds nothing,    *)
(* wherever its session was running (adapter.py _dispatch, the ungated     *)
(* release), unless a lease it timed out on was granted after that.        *)
StopReleases ==
  \A a \in Agents : At(a, "over") /\ ~agent[a].kept => \A p \in Parcels : ~Holds(a, p)
=============================================================================
