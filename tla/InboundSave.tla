----------------------------- MODULE InboundSave -----------------------------
(***************************************************************************)
(* Requests that overlap, and the running core (ConfigService.Save for     *)
(* "inbounds", "tls" and "clients").                                       *)
(*                                                                         *)
(* A request runs in one SQLite transaction in WAL mode: it sees the tables*)
(* as they were at its first read, its first write takes the one write     *)
(* lock and fails if somebody has committed since.  InboundService.Save    *)
(* changes the core first and writes afterwards; its "del" does so before  *)
(* it has read anything.  The others write first, and then remove and add  *)
(* the inbounds concerned (RestartInbounds), still inside the transaction. *)
(* What the tables become is InboundRecords.                               *)
(*                                                                         *)
(* No client has external links, all are enabled, and every content is of  *)
(* a type with users and without live update: UserSync has the rest, and   *)
(* the two callers that apply a change after they have committed it.       *)
(***************************************************************************)
EXTENDS Naturals, Sequences, FiniteSets, Functions

CONSTANTS Ids, Tags, Contents, WithLink, WithOut, TlsIds, Versions, Clients, Configs,
          None,        \* as in InboundRecords; also: no inbound of this tag in the core
          Requests,    \* request handlers
          MaxSaves,    \* bound: requests
          MaxFaults,   \* bound: failures of the database or the core
          MaxRestarts  \* bound: stops of the core

ASSUME BoundAssumption == MaxSaves \in Nat /\ MaxFaults \in Nat /\ MaxRestarts \in Nat
ASSUME RequestAssumption == None \notin Requests
ASSUME FiniteAssumption == IsFiniteSet(Ids)

VARIABLES
  db,       \* the committed tables
  writer,   \* the request that holds the write lock
  at,       \* where a request is: "idle", "write" (it writes first) or "core"
  view,     \* its snapshot: "none", "fresh", or "old" when somebody committed since
  pending,  \* the tables it is going to commit
  todo,     \* what it has still to do in the core
  touched,  \* the tags it removes or adds there
  core,     \* the inbounds of the core, by tag
  up,       \* isRunning
  boot,     \* the inbounds a start of the core has read, None when none is under way
  suspect,  \* history: tags the core may have wrong
  saves, faults, restarts

vars == <<db, writer, at, view, pending, todo, touched, core, up, boot, suspect, saves, faults, restarts>>

R == INSTANCE InboundRecords

ASSUME RecordAssumption == R!ContentAssumption /\ R!NoneAssumption

\* What AddInbound is given: the row, its TLS record and its users (addUsers, initUsers).
Config(d, i) == [content |-> d.inbounds[i].content, tls |-> R!Secured(d, d.inbounds[i]),
                 users |-> {<<c, d.clients[c].config>> : c \in {x \in Clients : R!Attached(d, x, i)}}]
Wanted(d, tag) == IF \E i \in R!Present(d) : d.inbounds[i].tag = tag
                  THEN Config(d, CHOOSE i \in R!Present(d) : d.inbounds[i].tag = tag)
                  ELSE None
TagsOf(d, ids) == {d.inbounds[i].tag : i \in ids \intersect R!Present(d)}

\* What a request does in the core: an inbound is removed by tag, and added from its row.
Removal(tag) == [op |-> "remove", what |-> tag]
Addition(id) == [op |-> "add", what |-> id]

\* RestartInbounds: a row after the other, in any order, is removed and added.
Restarts(d, ids) ==
  LET rows == ids \intersect R!Present(d)
      k == Cardinality(rows)
  IN {[n \in 1..2*k |-> IF n % 2 = 1 THEN Removal(d.inbounds[order[(n + 1) \div 2]].tag)
                                     ELSE Addition(order[n \div 2])] :
        order \in Bijection(1..k, rows)}

Busy == {r \in Requests : at[r] # "idle"}
InFlight == UNION {touched[r] : r \in Busy}

\* The panel has been in use: an inbound with TLS, and clients that are attached to it.
Populated(id, form, version, config) ==
  LET secured == R!TlsSave(R!Empty, form.tls, version)
      served == R!ClientsPut(secured, [c \in Clients |->
                  [inbounds |-> {}, config |-> config, external |-> {}]])
  IN R!InboundNew(served, id, form, Clients)

Init ==
  /\ \E id \in Ids, form \in R!InboundForm, version \in Versions, config \in Configs :
       form.tls # None /\ db = Populated(id, form, version, config)
  /\ writer = None
  /\ at = [r \in Requests |-> "idle"]
  /\ view = [r \in Requests |-> "none"]
  /\ pending = [r \in Requests |-> None]
  /\ todo = [r \in Requests |-> <<>>]
  /\ touched = [r \in Requests |-> {}]
  /\ core = [t \in Tags |-> Wanted(db, t)] /\ up = TRUE /\ boot = None
  /\ suspect = {} /\ saves = 0 /\ faults = 0 /\ restarts = 0

-----------------------------------------------------------------------------
(* Requests begin. *)

\* A delete has no snapshot while it is in the core: the tags it shares with a request
\* that overlaps it may be left wrong.
Unprotected(r, tags, snapshot) ==
  UNION {tags \intersect touched[q] : q \in {q \in Busy : view[q] = "none" \/ snapshot = "none"}}

Begin(r, place, snapshot, new, jobs, tags) ==
  /\ at[r] = "idle" /\ saves < MaxSaves
  /\ saves' = saves + 1
  /\ at' = [at EXCEPT ![r] = place]
  /\ view' = [view EXCEPT ![r] = snapshot]
  /\ pending' = [pending EXCEPT ![r] = new]
  /\ todo' = [todo EXCEPT ![r] = jobs]
  /\ touched' = [touched EXCEPT ![r] = tags]
  /\ suspect' = suspect \union (IF boot # None THEN tags ELSE Unprotected(r, tags, snapshot))
  /\ UNCHANGED <<db, writer, core, up, boot, faults, restarts>>

IfUp(jobs) == IF up THEN jobs ELSE <<>>

\* InboundService.Save "new": the core comes first.
NewInbound(r, id, form, init) ==
  /\ id \notin db.used /\ R!Valid(db, form)
  /\ Begin(r, "core", "fresh", R!InboundNew(db, id, form, init), IfUp(<<Addition(id)>>), {form.tag})

\* "edit": the old tag is read in the transaction.  Mutant: the form's tag is removed.
EditRemovesNew(r, id, form) ==
  /\ id \in db.used /\ R!Valid(db, form)
  /\ Begin(r, "core", "fresh", R!InboundEdit(db, id, form),
           IfUp(<<Removal(form.tag), Addition(id)>>),
           {form.tag} \union TagsOf(db, {id}))
EditInbound(r, id, form) ==
  /\ id \in db.used /\ R!Valid(db, form)
  /\ Begin(r, "core", "fresh", R!InboundEdit(db, id, form),
           IfUp(IF id \in R!Present(db) THEN <<Removal(db.inbounds[id].tag), Addition(id)>>
                                        ELSE <<Addition(id)>>),
           {form.tag} \union TagsOf(db, {id}))

\* "del": nothing is read before the core has changed.
DelInbound(r, tag) == Begin(r, "core", "none", None, IfUp(<<Removal(tag)>>), {tag})

\* TlsService.Save: the record is written, then its inbounds restart.
SaveTls(r, t, version) ==
  LET uses == {i \in R!Present(db) : db.inbounds[i].tls = t}
  IN \E jobs \in Restarts(db, uses) :
       Begin(r, "write", "fresh", R!TlsSave(db, t, version), jobs, TagsOf(db, uses))
DelTls(r, t) ==
  /\ R!TlsFree(db, t)
  /\ Begin(r, "write", "fresh", R!TlsDel(db, t), <<>>, {})

\* ClientService.Save, then ApplyUserChanges.
SaveClient(r, c, form) ==
  LET row == db.clients[c]
      ids == IF row = None THEN form.inbounds ELSE R!Changes(row, form, FALSE)
  IN /\ form.inbounds \subseteq db.used /\ form.external = {}
     /\ \E jobs \in Restarts(db, ids) :
          Begin(r, "write", "fresh", R!ClientsPut(db, [x \in {c} |-> form]), jobs, TagsOf(db, ids))
DelClient(r, c) ==
  /\ c \in R!Registered(db)
  /\ LET ids == db.clients[c].inbounds
     IN \E jobs \in Restarts(db, ids) :
          Begin(r, "write", "fresh", R!ClientsDel(db, {c}), jobs, TagsOf(db, ids))

Request(r) ==
  \/ \E form \in R!InboundForm :
       \/ \E id \in Ids, init \in SUBSET R!Registered(db) : NewInbound(r, id, form, init)
       \/ \E id \in Ids : EditInbound(r, id, form)
  \/ \E tag \in Tags : DelInbound(r, tag)
  \/ \E t \in TlsIds : DelTls(r, t) \/ \E version \in Versions : SaveTls(r, t, version)
  \/ \E c \in Clients : DelClient(r, c) \/ \E form \in R!ClientForm : SaveClient(r, c, form)

-----------------------------------------------------------------------------
(* Requests go on. *)

\* Core.RemoveInbound (an inbound that is not there is no error) and Core.AddInbound (an
\* inbound of the same tag is replaced).
CoreStep(r) ==
  /\ at[r] = "core" /\ todo[r] # <<>> /\ up
  /\ LET job == Head(todo[r])
     IN core' = IF job.op = "remove"
                THEN [core EXCEPT ![job.what] = None]
                ELSE [core EXCEPT ![pending[r].inbounds[job.what].tag] = Config(pending[r], job.what)]
  /\ todo' = [todo EXCEPT ![r] = Tail(@)]
  /\ UNCHANGED <<db, writer, at, view, pending, touched, up, boot, suspect, saves, faults, restarts>>

Done(r) == at[r] = "core" /\ todo[r] = <<>>

\* "del" looks up the id of the tag.
Read(r) ==
  /\ Done(r) /\ view[r] = "none"
  /\ view' = [view EXCEPT ![r] = "fresh"]
  /\ pending' = [pending EXCEPT ![r] = R!InboundDel(db, CHOOSE t \in touched[r] : TRUE)]
  /\ UNCHANGED <<db, writer, at, todo, touched, core, up, boot, suspect, saves, faults, restarts>>

AtWrite(r) == \/ at[r] = "write"
              \/ Done(r) /\ view[r] # "none" /\ writer # r

UniqueTags(d) == \A i, j \in R!Present(d) : d.inbounds[i].tag = d.inbounds[j].tag => i = j

\* The first write.  A request that writes first looks at the core now.
\* Mutant: an old snapshot is good enough.
WriteOld(r) ==
  /\ AtWrite(r) /\ writer = None /\ UniqueTags(pending[r])
  /\ writer' = r
  /\ at' = [at EXCEPT ![r] = "core"]
  /\ todo' = [todo EXCEPT ![r] = IfUp(@)]
  /\ UNCHANGED <<db, view, pending, touched, core, up, boot, suspect, saves, faults, restarts>>
Write(r) ==
  /\ AtWrite(r) /\ writer = None /\ view[r] = "fresh" /\ UniqueTags(pending[r])
  /\ writer' = r
  /\ at' = [at EXCEPT ![r] = "core"]
  /\ todo' = [todo EXCEPT ![r] = IfUp(@)]
  /\ UNCHANGED <<db, view, pending, touched, core, up, boot, suspect, saves, faults, restarts>>

Committed(r) ==
  /\ db' = pending[r] /\ writer' = None
  /\ at' = [at EXCEPT ![r] = "idle"]
  /\ view' = [q \in Requests |-> IF q = r THEN "none" ELSE IF view[q] = "fresh" THEN "old" ELSE view[q]]
  /\ pending' = [pending EXCEPT ![r] = None]
  /\ touched' = [touched EXCEPT ![r] = {}]
  /\ UNCHANGED <<core, up, boot, suspect, saves, faults, restarts>>

Commit(r) == Done(r) /\ writer = r /\ Committed(r) /\ UNCHANGED todo

\* RestartInbounds, and the core has stopped: that RemoveInbound fails is ignored, then
\* there is no instance to close connections of.  The panic unwinds Save, whose deferred
\* function finds no error and commits.
Panic(r) ==
  /\ at[r] = "core" /\ writer = r /\ ~up
  /\ todo[r] # <<>> /\ Head(todo[r]).op = "remove"
  /\ Committed(r) /\ todo' = [todo EXCEPT ![r] = <<>>]

\* SQLITE_BUSY_SNAPSHOT, a tag that is taken, a core that has stopped.
Refused(r) == \/ AtWrite(r) /\ (view[r] = "old" \/ ~UniqueTags(pending[r]))
              \/ at[r] = "core" /\ todo[r] # <<>> /\ ~up

\* The transaction is rolled back, the core is not.
Fail(r) ==
  /\ \/ Refused(r) /\ UNCHANGED faults
     \/ at[r] # "idle" /\ faults < MaxFaults /\ faults' = faults + 1
  /\ at' = [at EXCEPT ![r] = "idle"]
  /\ view' = [view EXCEPT ![r] = "none"]
  /\ pending' = [pending EXCEPT ![r] = None]
  /\ todo' = [todo EXCEPT ![r] = <<>>]
  /\ touched' = [touched EXCEPT ![r] = {}]
  /\ writer' = IF writer = r THEN None ELSE writer
  /\ suspect' = suspect \union touched[r]
  /\ UNCHANGED <<db, core, up, boot, saves, restarts>>

-----------------------------------------------------------------------------
(* The core stops and starts (CoreLifecycle). *)

StopCore ==
  /\ up /\ restarts < MaxRestarts
  /\ up' = FALSE /\ restarts' = restarts + 1
  /\ core' = [t \in Tags |-> None]
  /\ UNCHANGED <<db, writer, at, view, pending, todo, touched, boot, suspect, saves, faults>>

\* The configuration is assembled from what is committed; a request on its way may
\* commit more.
GetConfig ==
  /\ ~up /\ boot = None
  /\ boot' = [t \in Tags |-> Wanted(db, t)]
  /\ suspect' = InFlight
  /\ UNCHANGED <<db, writer, at, view, pending, todo, touched, core, up, saves, faults, restarts>>

StartCore ==
  /\ boot # None
  /\ up' = TRUE /\ core' = boot /\ boot' = None
  /\ UNCHANGED <<db, writer, at, view, pending, todo, touched, suspect, saves, faults, restarts>>

GoOn(r) == CoreStep(r) \/ Read(r) \/ Write(r) \/ Commit(r) \/ Panic(r) \/ Fail(r)

Next == (\E r \in Requests : Request(r) \/ GoOn(r)) \/ StopCore \/ GetConfig \/ StartCore

Spec == Init /\ [][Next]_vars

-----------------------------------------------------------------------------
(* Properties. *)

\* The variables have their types; only a request that is past its write has the lock.
TypeOK ==
  /\ db \in R!Tables
  /\ writer \in Requests \union {None}
  /\ at \in [Requests -> {"idle", "write", "core"}]
  /\ view \in [Requests -> {"none", "fresh", "old"}]
  /\ pending \in [Requests -> R!Tables \union {None}]
  /\ todo \in [Requests -> Seq([op : {"remove"}, what : Tags] \union [op : {"add"}, what : Ids])]
  /\ touched \in [Requests -> SUBSET Tags]
  /\ up \in BOOLEAN /\ (boot # None => ~up) /\ suspect \in SUBSET Tags
  /\ writer # None => at[writer] = "core" /\ view[writer] = "fresh"

\* Requests change the core before they commit, and still the core serves exactly what
\* the tables say (rows, TLS and users), except at tags that a request is busy with, a
\* failed request has touched, a delete and another request have been busy with at the
\* same time, or a start of the core has overlapped.
CoreFollows ==
  up => \A tag \in Tags \ (suspect \union InFlight) : core[tag] = Wanted(db, tag)

\* Requests that overlap change the tables as if they came one after the other.
Serial == [][R!Next]_db
=============================================================================
