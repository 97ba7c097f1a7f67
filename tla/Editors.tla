-------------------------------- MODULE Editors --------------------------------
(***************************************************************************)
(* The editors of outbounds, services and endpoints: one table, the parts  *)
(* of the running core that are made from its rows, and, for an endpoint of*)
(* type warp, the account at the remote service.  OutboundService.Save,    *)
(* ServicesService.Save and EndpointService.Save are the same up to that   *)
(* account, which is asked in the middle of the transaction.               *)
(*                                                                         *)
(* The core is changed before the row is written.  A transaction has its   *)
(* snapshot from its first read (WAL mode); "new", "del" and an "edit" that*)
(* finds the core down read nothing before they write.                     *)
(*                                                                         *)
(* The type of an endpoint is not edited, so an id is of type warp or not; *)
(* its device is the one it was created with.  RestartServices, after an   *)
(* edit of a TLS record, is left out.                                      *)
(***************************************************************************)
EXTENDS Naturals

CONSTANTS Ids, Tags,
          Contents,    \* types and options
          Warp,        \* those of type warp
          Licenses,
          Requests,
          None,
          MaxSaves,    \* bound: requests
          MaxFaults,   \* bound: failures of the database, the core or the remote service
          MaxRestarts  \* bound: stops of the core

BoundAssumption == MaxSaves \in Nat /\ MaxFaults \in Nat /\ MaxRestarts \in Nat
WarpAssumption == Warp \subseteq Contents
\* None is not a value.
NoneAssumption ==
  /\ None \notin Ids \union Tags \union Contents \union Licenses \union Requests
  /\ None \notin [tag : Tags, content : Contents, license : Licenses \union {None}]
  /\ None \notin [Tags -> Contents \union {None}]

VARIABLES
  rows,     \* the committed table, by id
  used,     \* ids that were given out
  account,  \* the license of the device of an id, at the remote service
  writer,   \* the request with the write lock
  req,      \* each request: its step, form and snapshot, the tag it removes
  core,     \* the parts of the core, by tag
  up,       \* isRunning
  boot,     \* the parts a start of the core has read, None when none is under way
  suspect,  \* history: tags the core may have wrong
  adrift,   \* history: ids whose license was set by a request that failed
  saves, faults, restarts

vars == <<rows, used, account, writer, req, core, up, boot, suspect, adrift, saves, faults, restarts>>

Present == {i \in Ids : rows[i] # None}
Wanted(t, tag) == IF \E i \in Ids : t[i] # None /\ t[i].tag = tag
                  THEN t[CHOOSE i \in Ids : t[i] # None /\ t[i].tag = tag].content
                  ELSE None

Idle == [step |-> "idle"]
Busy == {r \in Requests : req[r].step # "idle"}

\* The tags a request has changed in the core, or is about to; it is past the remote service.
InCore(r) == req[r].step \in {"remove", "add", "write", "commit"}
Touched(r) == IF InCore(r) THEN {req[r].tag, req[r].old} \ {None} ELSE {}
InFlight == UNION {Touched(r) : r \in Requests}

Init ==
  /\ \E i \in Ids, tag \in Tags, content \in Contents, license \in Licenses :
       LET l == IF content \in Warp THEN license ELSE None IN
       /\ rows = [j \in Ids |-> IF j = i THEN [tag |-> tag, content |-> content, license |-> l]
                                         ELSE None]
       /\ used = {i} /\ account = [j \in Ids |-> IF j = i THEN l ELSE None]
  /\ writer = None /\ req = [r \in Requests |-> Idle]
  /\ core = [t \in Tags |-> Wanted(rows, t)] /\ up = TRUE /\ boot = None
  /\ suspect = {} /\ adrift = {} /\ saves = 0 /\ faults = 0 /\ restarts = 0

-----------------------------------------------------------------------------
(* A request begins. *)

At(r, step) == req' = [req EXCEPT ![r].step = step]

\* "booted": a start of the core has read the table since the request began.
Begin(r, step, act, id, tag, content, license) ==
  /\ req[r] = Idle /\ saves < MaxSaves /\ saves' = saves + 1
  /\ req' = [req EXCEPT ![r] =
       [step |-> step, act |-> act, id |-> id, tag |-> tag, content |-> content, license |-> license,
        old |-> None, snapshot |-> "none", put |-> FALSE, booted |-> boot # None]]
  /\ UNCHANGED <<rows, used, account, writer, core, up, boot, suspect, adrift, faults, restarts>>

First(content) == IF content \in Warp THEN "remote" ELSE "look"

New(r, tag, content) == Begin(r, First(content), "new", None, tag, content, None)

\* From a form of any age: the row may be gone.  The dialog of a device has its license.
Edit(r, id, tag, content, license) ==
  /\ id \in used
  /\ (content \in Warp) <=> (account[id] # None)
  /\ (license = None) <=> (content \notin Warp)
  /\ Begin(r, First(content), "edit", id, tag, content, license)

Del(r, tag) == Begin(r, "look", "del", None, tag, None, None)

-----------------------------------------------------------------------------
(* The remote service. *)

\* RegisterWarp: a device with a license of its own.
RegisterWarp(r) ==
  /\ req[r].step = "remote" /\ req[r].act = "new"
  /\ \E license \in Licenses :
       req' = [req EXCEPT ![r].license = license, ![r].step = "look"]
  /\ UNCHANGED <<rows, used, account, writer, core, up, boot, suspect, adrift, saves, faults, restarts>>

\* Mutant: the license is read in a transaction of its own.
ReadLicenseApart(r) ==
  /\ req[r].step = "remote" /\ req[r].act = "edit"
  /\ LET same == req[r].id \in Present /\ rows[req[r].id].license = req[r].license
     IN req' = [req EXCEPT ![r].step = IF same THEN "look" ELSE "put"]
  /\ UNCHANGED <<rows, used, account, writer, core, up, boot, suspect, adrift, saves, faults, restarts>>

\* The license of the row is read, and the remote one set when the form has another.
ReadLicense(r) ==
  /\ req[r].step = "remote" /\ req[r].act = "edit"
  /\ LET same == req[r].id \in Present /\ rows[req[r].id].license = req[r].license
     IN req' = [req EXCEPT ![r].snapshot = "fresh", ![r].step = IF same THEN "look" ELSE "put"]
  /\ UNCHANGED <<rows, used, account, writer, core, up, boot, suspect, adrift, saves, faults, restarts>>

\* SetWarpLicense.
SetWarpLicense(r) ==
  /\ req[r].step = "put"
  /\ account' = [account EXCEPT ![req[r].id] = req[r].license]
  /\ req' = [req EXCEPT ![r].put = TRUE, ![r].step = "look"]
  /\ UNCHANGED <<rows, used, writer, core, up, boot, suspect, adrift, saves, faults, restarts>>

\* The answer is lost.
SetWarpLicenseFails(r) ==
  /\ req[r].step = "put" /\ faults < MaxFaults /\ faults' = faults + 1
  /\ account' = [account EXCEPT ![req[r].id] = req[r].license]
  /\ adrift' = adrift \union {req[r].id}
  /\ req' = [req EXCEPT ![r] = Idle]
  /\ UNCHANGED <<rows, used, writer, core, up, boot, suspect, saves, restarts>>

-----------------------------------------------------------------------------
(* The core, then the table. *)

\* IsRunning; an edit reads the tag of the row, which need not be there.
Look(r) ==
  /\ req[r].step = "look"
  /\ LET q == req[r]
     IN req' = [req EXCEPT ![r] =
          IF ~up THEN [q EXCEPT !.step = "write"]
          ELSE CASE q.act = "new" -> [q EXCEPT !.step = "add"]
                 [] q.act = "del" -> [q EXCEPT !.step = "remove", !.old = q.tag]
                 [] q.act = "edit" ->
                      [q EXCEPT !.step = "remove",
                                !.old = IF q.id \in Present THEN rows[q.id].tag ELSE None,
                                !.snapshot = IF @ = "none" THEN "fresh" ELSE @]]
  /\ UNCHANGED <<rows, used, account, writer, core, up, boot, suspect, adrift, saves, faults, restarts>>

\* RemoveOutbound, RemoveService, RemoveEndpoint: one that is not there is no error.
\* Mutant: the tag of the form is removed.
RemoveNew(r) ==
  /\ req[r].step = "remove" /\ up
  /\ core' = [core EXCEPT ![req[r].tag] = None]
  /\ At(r, IF req[r].act = "del" THEN "write" ELSE "add")
  /\ UNCHANGED <<rows, used, account, writer, up, boot, suspect, adrift, saves, faults, restarts>>
Remove(r) ==
  /\ req[r].step = "remove" /\ up
  /\ core' = [t \in Tags |-> IF t = req[r].old THEN None ELSE core[t]]
  /\ At(r, IF req[r].act = "del" THEN "write" ELSE "add")
  /\ UNCHANGED <<rows, used, account, writer, up, boot, suspect, adrift, saves, faults, restarts>>

\* AddOutbound, AddService, AddEndpoint: one of the same tag is replaced.
Add(r) ==
  /\ req[r].step = "add" /\ up
  /\ core' = [core EXCEPT ![req[r].tag] = req[r].content]
  /\ At(r, "write")
  /\ UNCHANGED <<rows, used, account, writer, up, boot, suspect, adrift, saves, faults, restarts>>

\* The table a request leaves; a new row has the id i.
After(q, i) ==
  CASE q.act = "del" -> [j \in Ids |-> IF rows[j] # None /\ rows[j].tag = q.tag THEN None ELSE rows[j]]
    [] OTHER -> [rows EXCEPT ![i] = [tag |-> q.tag, content |-> q.content, license |-> q.license]]
Row(q) == IF q.act = "new" THEN Ids \ used ELSE {q.id}
Taken(q) == q.act # "del" /\ \E j \in Present \ {q.id} : rows[j].tag = q.tag

\* The first write takes the lock; the column "tag" is unique.
Write(r) ==
  /\ req[r].step = "write" /\ writer = None
  /\ req[r].snapshot # "old" /\ ~Taken(req[r])
  /\ writer' = r /\ At(r, "commit")
  /\ UNCHANGED <<rows, used, account, core, up, boot, suspect, adrift, saves, faults, restarts>>

Outdated == [r \in Requests |-> IF req[r].step # "idle" /\ req[r].snapshot = "fresh"
                                THEN [req[r] EXCEPT !.snapshot = "old"] ELSE req[r]]

\* Tags a commit may leave wrong in the core: those of a request that is in the core without
\* a snapshot, and, after a start of the core, those it changes.
Unordered(r) == Touched(r) \intersect UNION {Touched(q) : q \in {q \in Busy \ {r} :
                                                req[q].snapshot = "none"}}
Missed(r, t) == IF req[r].booted THEN {tag \in Tags : Wanted(t, tag) # Wanted(rows, tag)} ELSE {}

Commit(r) ==
  /\ req[r].step = "commit"
  /\ \E i \in Row(req[r]) :
       /\ rows' = After(req[r], i)
       /\ used' = IF req[r].act = "del" THEN used ELSE used \union {i}
       /\ account' = IF req[r].act = "new" THEN [account EXCEPT ![i] = req[r].license] ELSE account
       /\ suspect' = suspect \union Unordered(r) \union Missed(r, After(req[r], i))
  /\ writer' = None /\ req' = [Outdated EXCEPT ![r] = Idle]
  /\ UNCHANGED <<core, up, boot, adrift, saves, faults, restarts>>

\* Another transaction commits, of the stats job for one.
OtherCommit ==
  /\ writer = None /\ req' = Outdated /\ req' # req
  /\ UNCHANGED <<rows, used, account, writer, core, up, boot, suspect, adrift, saves, faults, restarts>>

\* SQLITE_BUSY_SNAPSHOT, a tag that is taken, a core that has stopped.
Refused(r) == \/ req[r].step = "write" /\ writer = None /\ (req[r].snapshot = "old" \/ Taken(req[r]))
              \/ req[r].step \in {"remove", "add"} /\ ~up

\* The row is rolled back; the core and the account are not.
Fail(r) ==
  /\ \/ Refused(r) /\ UNCHANGED faults
     \/ r \in Busy /\ faults < MaxFaults /\ faults' = faults + 1
  /\ suspect' = suspect \union Touched(r)
  /\ adrift' = IF req[r].put THEN adrift \union {req[r].id} ELSE adrift
  /\ req' = [req EXCEPT ![r] = Idle]
  /\ writer' = IF writer = r THEN None ELSE writer
  /\ UNCHANGED <<rows, used, account, core, up, boot, saves, restarts>>

-----------------------------------------------------------------------------
(* The core stops and starts (CoreLifecycle). *)

StopCore ==
  /\ up /\ restarts < MaxRestarts /\ restarts' = restarts + 1
  /\ up' = FALSE /\ core' = [t \in Tags |-> None]
  /\ UNCHANGED <<rows, used, account, writer, req, boot, suspect, adrift, saves, faults>>

\* GetAllConfig of the three services.
GetConfig ==
  /\ ~up /\ boot = None
  /\ boot' = [t \in Tags |-> Wanted(rows, t)] /\ suspect' = {}
  /\ req' = [r \in Requests |-> IF r \in Busy THEN [req[r] EXCEPT !.booted = TRUE] ELSE req[r]]
  /\ UNCHANGED <<rows, used, account, writer, core, up, adrift, saves, faults, restarts>>

StartCore ==
  /\ boot # None
  /\ up' = TRUE /\ core' = boot /\ boot' = None
  /\ UNCHANGED <<rows, used, account, writer, req, suspect, adrift, saves, faults, restarts>>

Request(r) ==
  \/ \E tag \in Tags, content \in Contents :
       \/ New(r, tag, content)
       \/ \E id \in Ids, license \in Licenses \union {None} : Edit(r, id, tag, content, license)
  \/ \E tag \in Tags : Del(r, tag)

GoOn(r) == \/ RegisterWarp(r) \/ ReadLicense(r) \/ SetWarpLicense(r) \/ SetWarpLicenseFails(r)
           \/ Look(r) \/ Remove(r) \/ Add(r) \/ Write(r) \/ Commit(r) \/ Fail(r)

Next == \/ \E r \in Requests : Request(r) \/ GoOn(r)
        \/ OtherCommit \/ StopCore \/ GetConfig \/ StartCore

-----------------------------------------------------------------------------
(* Properties. *)

\* The variables have their types.
TypeOK ==
  /\ rows \in [Ids -> [tag : Tags, content : Contents, license : Licenses \union {None}]
                       \union {None}]
  /\ Present \subseteq used /\ used \subseteq Ids
  /\ account \in [Ids -> Licenses \union {None}]
  /\ writer \in Busy \union {None}
  /\ core \in [Tags -> Contents \union {None}] /\ up \in BOOLEAN
  /\ suspect \subseteq Tags /\ adrift \subseteq used

\* The core has the parts the table says, although it is changed before the table and apart
\* from it: except tags that a request is busy with or a failed one has touched, those of two
\* requests in the core at once of which one has not read the table, and those changed by a
\* request that a start of the core has overlapped.
PartsFollow ==
  up => \A tag \in Tags \ (suspect \union InFlight) : core[tag] = Wanted(rows, tag)

\* The remote service has for each device the license of its row, although it is told before
\* the row is written: unless a request that sets it is on its way, or one has failed.
LicenseFollows ==
  \A i \in Present : \/ i \in adrift \/ \E r \in Busy : req[r].id = i /\ req[r].put
                     \/ account[i] = rows[i].license
=============================================================================
