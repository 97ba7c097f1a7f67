------------------------------- MODULE UserSync -------------------------------
(***************************************************************************)
(* How a change of the clients table reaches the running core.             *)
(*                                                                         *)
(* ConfigService.Save writes in a transaction and calls ApplyUserChanges   *)
(* with that transaction, before it commits; BanClient and the DepleteJob  *)
(* commit first and call it with the database.  ApplyUserChanges goes      *)
(* through the inbounds: a hysteria2 inbound gets a new user map           *)
(* (UpdateInboundUsers), any other one is removed and added again          *)
(* (RestartInbounds).  It reads the users and installs them in two steps,  *)
(* under no lock, and does nothing when the core is not running; StartCore *)
(* reads the configuration first and brings the core up later.             *)
(*                                                                         *)
(* The database is SQLite in WAL mode: one writer at a time (who waits for *)
(* the lock is simply not past its first step), readers see what is        *)
(* committed, the writer its own rows.                                     *)
(*                                                                         *)
(* A client's row is its "enable" and "banned" columns (ClientRecords says *)
(* how they come to be what they are); every client is attached to every   *)
(* inbound.  What a new user map does to live sessions is Hy2Service.      *)
(***************************************************************************)
EXTENDS Naturals, FiniteSets

CONSTANTS Clients,     \* rows of the clients table
          Hy2,         \* hysteria2 inbounds
          Others,      \* inbounds of other protocols
          Requests,    \* request handlers: Save and BanClient
          Job,         \* the DepleteJob of the scheduler
          None,        \* nobody holds the write lock
          MaxChanges,  \* bound: changes of the table
          MaxFaults,   \* bound: failures of the database or of an inbound
          MaxRestarts  \* bound: starts of the core after the first

ASSUME BoundAssumption == MaxChanges \in Nat /\ MaxFaults \in Nat /\ MaxRestarts \in Nat
ASSUME ActorAssumption == Job \notin Requests /\ None \notin Requests \union {Job}
ASSUME InboundAssumption == Hy2 \intersect Others = {} /\ None \notin Hy2 \union Others

Actors == Requests \union {Job}
Inbounds == Hy2 \union Others
Status == [enable : BOOLEAN, banned : BOOLEAN]
Tables == [Clients -> Status]

VARIABLES
  db,        \* the committed table
  pending,   \* the table as the writing transaction sees it
  writer,    \* the actor whose transaction holds the write lock
  at,        \* where each actor is: "idle", "check", "apply" or "install"
  todo,      \* the inbounds it has still to go through
  target,    \* the inbound it installs users in
  users,     \* the users it has read for that inbound
  core,      \* "down", "starting" or "up" (isRunning)
  assembled, \* the users StartCore has read
  live,      \* the users each inbound of the core accepts
  disturbed, \* history: two operations overlapped, or one failed
  changes, faults, restarts

vars == <<db, pending, writer, at, todo, target, users, core, assembled, live, disturbed,
          changes, faults, restarts>>
coreVars == <<core, assembled, restarts>>

\* fetchUsers and hy2Users: what a restart assembles and what a live update installs.
InlineUsers(table) == {c \in Clients : table[c].enable}
LiveUsers(table) == {c \in Clients : table[c].enable /\ ~table[c].banned}
UsersOf(i, table) == IF i \in Hy2 THEN LiveUsers(table) ELSE InlineUsers(table)

Idle == \A a \in Actors : at[a] = "idle"

\* What actor a reads: its own transaction or the database.  Mutant: always the database.
ViewCommitted(a) == db
View(a) == IF writer = a THEN pending ELSE db

Init ==
  /\ db \in Tables /\ pending = db /\ writer = None
  /\ \A c \in Clients : ~db[c].banned
  /\ at = [a \in Actors |-> "idle"]
  /\ todo = [a \in Actors |-> {}]
  /\ target = [a \in Actors |-> None]
  /\ users = [a \in Actors |-> {}]
  /\ core = "up" /\ assembled = {}
  /\ live = [i \in Inbounds |-> InlineUsers(db)]
  /\ disturbed = FALSE
  /\ changes = 0 /\ faults = 0 /\ restarts = 0

-----------------------------------------------------------------------------
(* The changes of the table. *)

\* An operation starts: one more change of the table, disturbed if it is not alone.
Start(a, inbounds) ==
  /\ at[a] = "idle" /\ writer = None /\ changes < MaxChanges
  /\ changes' = changes + 1
  /\ disturbed' = (disturbed \/ ~Idle \/ core = "starting")
  /\ at' = [at EXCEPT ![a] = "check"]
  /\ todo' = [todo EXCEPT ![a] = inbounds]
  /\ UNCHANGED <<target, users, coreVars, live, faults>>

\* The inbounds findInboundsChanges reports: it looks at the name, the credentials and
\* enable, and not at banned.
Changed(old, new, identity) == IF old.enable # new.enable \/ identity THEN Inbounds ELSE {}

\* What a form can post: it has no switch for the ban, the dialog returns the ban it
\* was opened with and the bulk form returns none.  (A dialog older than the last
\* unban is ClientRecords' matter.)
Postable(old, new) == new.banned => old.banned

\* Save "clients": the row is written (with "identity", under another name or another
\* password), and the transaction stays open.
Save(a, c, row, identity) ==
  /\ Postable(db[c], row)
  /\ Start(a, Changed(db[c], row, identity))
  /\ pending' = [db EXCEPT ![c] = row]
  /\ writer' = a
  /\ UNCHANGED db

\* BanClient commits at once.  A client over its limits is not enabled by an unban.
Ban(a, c, banned, within) ==
  /\ Start(a, Inbounds)
  /\ db' = [db EXCEPT ![c] = [enable |-> ~banned /\ within, banned |-> banned]]
  /\ pending' = db'
  /\ UNCHANGED writer

\* DepleteClients: some clients reach a limit, others begin a new period.  A run that
\* finds neither changes nothing and calls nobody.

Deplete(depleted, reset) ==
  /\ depleted # {} \/ reset # {}
  /\ \A c \in depleted : db[c].enable \/ c \in reset
  /\ \A c \in reset : ~db[c].enable /\ ~db[c].banned
  /\ Start(Job, Inbounds)
  /\ db' = [c \in Clients |-> [db[c] EXCEPT !.enable = (@ \/ c \in reset) /\ c \notin depleted]]
  /\ pending' = db'
  /\ UNCHANGED writer

-----------------------------------------------------------------------------
(* ApplyUserChanges. *)

\* It begins with a look at the core.
Check(a) ==
  /\ at[a] = "check"
  /\ at' = [at EXCEPT ![a] = "apply"]
  /\ todo' = [todo EXCEPT ![a] = IF core = "up" THEN @ ELSE {}]
  /\ UNCHANGED <<db, pending, writer, target, users, coreVars, live, disturbed, changes, faults>>

\* Hysteria2 inbounds come first.
Due(a, i) == /\ i \in todo[a]
             /\ i \in Hy2 \/ todo[a] \intersect Hy2 = {}

\* UpdateInboundUsers looks at the core for each inbound, RestartInbounds before the first.
SkipDown(a, i) ==
  /\ at[a] = "apply" /\ Due(a, i) /\ core # "up"
  /\ i \in Hy2 \/ Others \subseteq todo[a]
  /\ todo' = [todo EXCEPT ![a] = IF i \in Hy2 THEN @ \ {i} ELSE {}]
  /\ UNCHANGED <<db, pending, writer, at, target, users, coreVars, live, disturbed, changes, faults>>

\* The users of one inbound are read; RestartInbounds has removed the inbound by then.
Read(a, i) ==
  /\ at[a] = "apply" /\ Due(a, i) /\ core = "up"
  /\ at' = [at EXCEPT ![a] = "install"]
  /\ todo' = [todo EXCEPT ![a] = @ \ {i}]
  /\ target' = [target EXCEPT ![a] = i]
  /\ users' = [users EXCEPT ![a] = UsersOf(i, View(a))]
  /\ live' = IF i \in Others THEN [live EXCEPT ![i] = {}] ELSE live
  /\ UNCHANGED <<db, pending, writer, coreVars, disturbed, changes, faults>>

\* Core.UpdateInboundUsers or Core.AddInbound.
Install(a) ==
  /\ at[a] = "install" /\ core = "up"
  /\ live' = [live EXCEPT ![target[a]] = users[a]]
  /\ at' = [at EXCEPT ![a] = "apply"]
  /\ target' = [target EXCEPT ![a] = None]
  /\ users' = [users EXCEPT ![a] = {}]
  /\ UNCHANGED <<db, pending, writer, todo, coreVars, disturbed, changes, faults>>

\* The core refuses an inbound when it is not running; the database or the core may
\* fail anywhere on the way.
Refused(a) == /\ core # "up"
              /\ \/ at[a] = "install"
                 \/ at[a] = "apply" /\ \E i \in todo[a] : Due(a, i) /\ i \in Others /\ ~(Others \subseteq todo[a])
Broken(a) == at[a] \in {"check", "apply", "install"} /\ faults < MaxFaults

\* An error ends the operation: Save rolls back, the others only log it.
\* Mutant: the error path of Save does not end the transaction.
FailKeepsLock(a) ==
  /\ \/ Refused(a) /\ UNCHANGED faults
     \/ Broken(a) /\ faults' = faults + 1
  /\ at' = [at EXCEPT ![a] = "idle"]
  /\ todo' = [todo EXCEPT ![a] = {}]
  /\ target' = [target EXCEPT ![a] = None]
  /\ users' = [users EXCEPT ![a] = {}]
  /\ disturbed' = TRUE
  /\ UNCHANGED <<db, pending, writer, coreVars, live, changes>>

Fail(a) ==
  /\ \/ Refused(a) /\ UNCHANGED faults
     \/ Broken(a) /\ faults' = faults + 1
  /\ at' = [at EXCEPT ![a] = "idle"]
  /\ todo' = [todo EXCEPT ![a] = {}]
  /\ target' = [target EXCEPT ![a] = None]
  /\ users' = [users EXCEPT ![a] = {}]
  /\ disturbed' = TRUE
  /\ IF writer = a THEN pending' = db /\ writer' = None ELSE UNCHANGED <<pending, writer>>
  /\ UNCHANGED <<db, coreVars, live, changes>>

\* Nothing left to apply: Save commits, BanClient and the DepleteJob are done.
Finish(a) ==
  /\ at[a] = "apply" /\ todo[a] = {}
  /\ at' = [at EXCEPT ![a] = "idle"]
  /\ IF writer = a THEN db' = pending /\ writer' = None ELSE UNCHANGED <<db, writer>>
  /\ UNCHANGED <<pending, todo, target, users, coreVars, live, disturbed, changes, faults>>

-----------------------------------------------------------------------------
(* The core is stopped and started (CoreLifecycle says by whom and when). *)

StopCore ==
  /\ core = "up" /\ restarts < MaxRestarts
  /\ core' = "down" /\ restarts' = restarts + 1
  /\ live' = [i \in Inbounds |-> {}]
  /\ disturbed' = (disturbed \/ ~Idle)
  /\ UNCHANGED <<db, pending, writer, at, todo, target, users, assembled, changes, faults>>

\* StartCore: GetConfig assembles the users, Core.Start makes them live.
StartCore ==
  /\ core = "down" /\ core' = "starting"
  /\ assembled' = InlineUsers(db)
  /\ disturbed' = (disturbed \/ ~Idle)
  /\ UNCHANGED <<db, pending, writer, at, todo, target, users, live, changes, faults, restarts>>

CoreStarted ==
  /\ core = "starting" /\ core' = "up"
  /\ live' = [i \in Inbounds |-> assembled]
  /\ assembled' = {}
  /\ UNCHANGED <<db, pending, writer, at, todo, target, users, disturbed, changes, faults, restarts>>

-----------------------------------------------------------------------------
Apply(a) == \/ Check(a) \/ Install(a) \/ Fail(a) \/ Finish(a)
            \/ \E i \in Inbounds : SkipDown(a, i) \/ Read(a, i)

Request(a) == \E c \in Clients :
                \/ \E row \in Status, identity \in BOOLEAN : Save(a, c, row, identity)
                \/ \E banned, within \in BOOLEAN : Ban(a, c, banned, within)

Next == \/ \E a \in Actors : Apply(a)
        \/ \E a \in Requests : Request(a)
        \/ \E depleted, reset \in SUBSET Clients : Deplete(depleted, reset)
        \/ StopCore \/ StartCore \/ CoreStarted

Spec == Init /\ [][Next]_vars

\* An operation under way goes on, the watchdog starts a core that is down (checkCoreJob).
\* Nobody has to change the table or stop the core.
Fairness == /\ \A a \in Actors : WF_vars(Apply(a))
            /\ WF_vars(StartCore) /\ WF_vars(CoreStarted)

FairSpec == Spec /\ Fairness

-----------------------------------------------------------------------------
(* Properties. *)

\* The variables have their types, and only a Save holds the write lock.
TypeOK ==
  /\ db \in Tables /\ pending \in Tables
  /\ writer \in Requests \union {None}
  /\ at \in [Actors -> {"idle", "check", "apply", "install"}]
  /\ todo \in [Actors -> SUBSET Inbounds]
  /\ target \in [Actors -> Inbounds \union {None}]
  /\ users \in [Actors -> SUBSET Clients]
  /\ core \in {"down", "starting", "up"}
  /\ assembled \in SUBSET Clients
  /\ live \in [Inbounds -> SUBSET Clients]
  /\ disturbed \in BOOLEAN
  /\ changes \in 0..MaxChanges /\ faults \in 0..MaxFaults /\ restarts \in 0..MaxRestarts

Quiet == Idle /\ core = "up"

\* As long as the operations come one after the other and none of them fails, a
\* client the table disables is out of every inbound once the operation is over, and
\* an inbound that is restarted serves exactly the enabled clients.
InSyncWhenSerial ==
  Quiet /\ ~disturbed =>
    /\ \A i \in Hy2 : live[i] \subseteq InlineUsers(db)
    /\ \A i \in Others : live[i] = InlineUsers(db)

\* A Save that runs into an error, or into a core that stops under it, still ends its
\* transaction: the write lock it holds while it changes the core does not stay held.
LockIsReleased == \A a \in Requests : writer = a ~> writer # a

\* "so the live set matches a full restart" (inbounds.go, hy2Users), refuted without any
\* overlap or failure: fetchUsers does not look at the ban, and findInboundsChanges
\* does not report an edit that lifts it.
LiveSetMatchesRestart ==
  Quiet /\ ~disturbed => \A i \in Hy2 : live[i] = InlineUsers(db)

\* "A failure here is non-fatal - the ban is persisted and the next DepleteJob/save
\* reconciles the live user set" (config.go, BanClient), refuted: the job and Save only
\* touch the inbounds of clients they change themselves.
BanIsReconciled ==
  \A c \in Clients :
    db[c].banned /\ ~db[c].enable ~>
      \/ ~db[c].banned \/ db[c].enable
      \/ \A i \in Inbounds : c \notin live[i]
=============================================================================
