-------------------------------- MODULE Traffic --------------------------------
(***************************************************************************)
(* Traffic accounting: the counters of the core (StatsTracker), the stats  *)
(* job that empties them into the database every ten seconds               *)
(* (StatsService.SaveStats) and the lists of who is online.                *)
(*                                                                         *)
(* A connection counts what it moves under its inbound, its outbound and   *)
(* its user.  GetStats holds the tracker's mutex, which keeps new          *)
(* connections out but not the counters from moving: it empties one counter*)
(* after the other.  The job then fills the online lists and adds the      *)
(* traffic of the users to the rows with their names, in one transaction.  *)
(* A job that waits for the write lock (up to ten seconds) may meet the    *)
(* next one.                                                               *)
(*                                                                         *)
(* A packet is one byte, and the adds to its two or three counters are one *)
(* step: GetStats separates them anyway.                                   *)
(***************************************************************************)
EXTENDS Naturals, FiniteSetsExt

CONSTANTS Users,        \* names a user of the core may have
          Resources,    \* inbounds and outbounds, by kind and tag
          Dirs,         \* up and down
          Conns,        \* routed connections
          Jobs,         \* runs of the stats job that may overlap
          None,
          MaxBytes,     \* bound: packets
          MaxTroubles   \* bound: failed transactions, crashes, stops of the core, and
                        \* clients created, renamed or deleted

ASSUME BoundAssumption == MaxBytes \in Nat /\ MaxTroubles \in Nat
ASSUME KeyAssumption == Users \intersect Resources = {} /\ None \notin Jobs
ASSUME JobsAssumption == IsFiniteSet(Jobs)

VARIABLES
  power,     \* the core: "up", "stopping" or "down"
  conns,     \* the keys a connection counts under; {} when there is none
  counters,  \* StatsTracker of the running core
  at,        \* a job: "idle", "got" the tracker, "swap" (in GetStats) or "write"
  stale,     \* jobs whose tracker was reset before they read it
  left,      \* counters GetStats has still to empty, then rows of the batch to go through
  taken,     \* the batch of a job
  writer,    \* the job with the write lock
  clients,   \* names that have a row
  billed,    \* added to the rows of clients (history)
  stats,     \* added to the stats table (history)
  stray,     \* traffic of names without a row (history)
  lost,      \* traffic of users that was lost (history)
  online,    \* onlineResources
  sole,      \* history: jobs that have the online lists to themselves
  keep,      \* enableTraffic of the job: trafficAge > 0 when the panel started
  bytes, faults, resets, changes

core == <<power, conns, counters>>
books == <<clients, billed, stats, stray, lost>>
vars == <<power, conns, counters, at, stale, left, taken, writer, clients, billed, stats, stray,
          lost, online, sole, keep, bytes, faults, resets, changes>>

Keys == Users \union Resources
Cells == Keys \X Dirs
Zero == [c \in Cells |-> 0]
Plus(f, g) == [c \in Cells |-> f[c] + g[c]]
Only(f, names) == [c \in Cells |-> IF c[1] \in names THEN f[c] ELSE 0]
Moving(f) == {k \in Keys : \E d \in Dirs : f[<<k, d>>] > 0}

Init ==
  /\ power = "up"
  /\ conns = [c \in Conns |-> {}]
  /\ counters = Zero
  /\ at = [j \in Jobs |-> "idle"] /\ stale = {} /\ sole = {}
  /\ left = [j \in Jobs |-> {}]
  /\ taken = [j \in Jobs |-> Zero]
  /\ writer = None
  /\ clients \in SUBSET Users
  /\ billed = Zero /\ stats = Zero /\ stray = Zero /\ lost = Zero
  /\ online = {} /\ keep \in BOOLEAN
  /\ bytes = 0 /\ faults = 0 /\ resets = 0 /\ changes = 0

Troubles == faults + resets + changes < MaxTroubles

-----------------------------------------------------------------------------
(* Connections. *)

\* The tracker of the running core is locked by a job in GetStats.
Locked == \E j \in Jobs : at[j] = "swap" /\ j \notin stale

\* getReadCounters: some users are anonymous.
Route(c) ==
  /\ power = "up" /\ conns[c] = {} /\ ~Locked
  /\ \E through \in SUBSET Resources \ {{}}, users \in {{}} \union {{u} : u \in Users} :
       conns' = [conns EXCEPT ![c] = through \union users]
  /\ UNCHANGED <<power, counters, at, stale, left, taken, writer, books, online, sole, keep,
                 bytes, faults, resets, changes>>

HangUp(c) ==
  /\ conns[c] # {} /\ conns' = [conns EXCEPT ![c] = {}]
  /\ UNCHANGED <<power, counters, at, stale, left, taken, writer, books, online, sole, keep,
                 bytes, faults, resets, changes>>

Move(c, d) ==
  /\ conns[c] # {} /\ bytes < MaxBytes /\ bytes' = bytes + 1
  /\ counters' = [x \in Cells |-> IF x[1] \in conns[c] /\ x[2] = d THEN counters[x] + 1
                                                                    ELSE counters[x]]
  /\ UNCHANGED <<power, conns, at, stale, left, taken, writer, books, online, sole, keep,
                 faults, resets, changes>>

-----------------------------------------------------------------------------
(* The stats job. *)

Begin(j) ==
  /\ at[j] = "idle" /\ power = "up"
  /\ at' = [at EXCEPT ![j] = "got"]
  /\ UNCHANGED <<core, stale, left, taken, writer, books, online, sole, keep, bytes, faults,
                 resets, changes>>

\* GetStats of a tracker that has been reset finds no counters.
Lock(j) ==
  /\ at[j] = "got" /\ (j \in stale \/ ~Locked)
  /\ at' = [at EXCEPT ![j] = "swap"]
  /\ left' = [left EXCEPT ![j] = IF j \in stale THEN {} ELSE Keys]
  /\ UNCHANGED <<core, stale, taken, writer, books, online, sole, keep, bytes, faults, resets,
                 changes>>

\* Swap(0), in both directions.  Mutant: Load.
SwapLoad(j, k) ==
  /\ at[j] = "swap" /\ k \in left[j]
  /\ taken' = [taken EXCEPT ![j] = Plus(@, Only(counters, {k}))]
  /\ left' = [left EXCEPT ![j] = @ \ {k}]
  /\ UNCHANGED <<core, at, stale, writer, books, online, sole, keep, bytes, faults,
                 resets, changes>>
Swap(j, k) ==
  /\ at[j] = "swap" /\ k \in left[j]
  /\ taken' = [taken EXCEPT ![j] = Plus(@, Only(counters, {k}))]
  /\ counters' = Only(counters, Keys \ {k})
  /\ left' = [left EXCEPT ![j] = @ \ {k}]
  /\ UNCHANGED <<power, conns, at, stale, writer, books, online, sole, keep, bytes, faults,
                 resets, changes>>

\* The online lists are emptied, whether there is something to save or not.
\* Mutant: they are not.
TakenKeepsOnline(j) ==
  /\ at[j] = "swap" /\ left[j] = {}
  /\ at' = [at EXCEPT ![j] = IF taken[j] = Zero THEN "idle" ELSE "write"]
  /\ left' = [left EXCEPT ![j] = Moving(taken[j])]
  /\ stale' = stale \ {j}
  /\ sole' = IF \E i \in Jobs \ {j} : at[i] = "write" THEN {} ELSE {j}
  /\ UNCHANGED <<core, taken, writer, books, online, keep, bytes, faults, resets, changes>>
Taken(j) ==
  /\ at[j] = "swap" /\ left[j] = {}
  /\ at' = [at EXCEPT ![j] = IF taken[j] = Zero THEN "idle" ELSE "write"]
  /\ left' = [left EXCEPT ![j] = Moving(taken[j])]
  /\ stale' = stale \ {j}
  /\ online' = {}
  /\ sole' = IF \E i \in Jobs \ {j} : at[i] = "write" THEN {} ELSE {j}
  /\ UNCHANGED <<core, taken, writer, books, keep, bytes, faults, resets, changes>>

\* The rows of the batch: users come last, and are the first to need the write lock.
\* Two jobs that append to the same list at once may lose an entry.
Row(j, k) ==
  /\ at[j] = "write" /\ k \in left[j]
  /\ k \in Users => left[j] \subseteq Users /\ writer \in {None, j}
  /\ writer' = IF k \in Users THEN j ELSE writer
  /\ left' = [left EXCEPT ![j] = @ \ {k}]
  /\ \/ online' = online \union {k}
     \/ j \notin sole /\ UNCHANGED online
  /\ UNCHANGED <<core, at, stale, taken, books, sole, keep, bytes, faults, resets, changes>>

\* Mutant: the transaction stays open.
ReleasedLocked(j) == /\ at' = [at EXCEPT ![j] = "idle"]
                     /\ left' = [left EXCEPT ![j] = {}]
                     /\ taken' = [taken EXCEPT ![j] = Zero]
                     /\ UNCHANGED writer
Released(j) == /\ at' = [at EXCEPT ![j] = "idle"]
               /\ left' = [left EXCEPT ![j] = {}]
               /\ taken' = [taken EXCEPT ![j] = Zero]
               /\ writer' = IF writer = j THEN None ELSE writer

\* The rows with the users' names, and the stats if they are kept, are committed.
Commit(j) ==
  /\ at[j] = "write" /\ left[j] = {}
  /\ keep => writer \in {None, j}
  /\ Released(j)
  /\ billed' = Plus(billed, Only(taken[j], clients))
  /\ stray' = Plus(stray, Only(taken[j], Users \ clients))
  /\ stats' = IF keep THEN Plus(stats, taken[j]) ELSE stats
  /\ UNCHANGED <<core, stale, clients, lost, online, sole, keep, bytes, faults, resets, changes>>

\* A statement or the commit fails.  The batch is nowhere else.
Rollback(j) ==
  /\ at[j] = "write" /\ (left[j] = {} \/ left[j] \intersect Users # {})
  /\ Troubles /\ faults' = faults + 1
  /\ Released(j)
  /\ lost' = Plus(lost, Only(taken[j], Users))
  /\ UNCHANGED <<core, stale, clients, billed, stray, stats, online, sole, keep, bytes, resets,
                 changes>>

JobStep(j) == \/ Lock(j) \/ Taken(j) \/ Commit(j) \/ Rollback(j)
              \/ \E k \in Keys : Swap(j, k) \/ Row(j, k)

-----------------------------------------------------------------------------
(* The core and the clients. *)

StopCore ==
  /\ power = "up" /\ Troubles
  /\ power' = "stopping"
  /\ UNCHANGED <<conns, counters, at, stale, left, taken, writer, books, online, sole, keep,
                 bytes, faults, resets, changes>>

\* The end of Box.Close: the counters are dropped, the connections closed.
Reset ==
  /\ power = "stopping" /\ ~Locked
  /\ power' = "down" /\ resets' = resets + 1
  /\ lost' = Plus(lost, Only(counters, Users))
  /\ counters' = Zero
  /\ conns' = [c \in Conns |-> {}]
  /\ stale' = stale \union {j \in Jobs : at[j] = "got"}
  /\ UNCHANGED <<at, left, taken, writer, clients, billed, stray, stats, online, sole, keep,
                 bytes, faults, changes>>

StartCore ==
  /\ power = "down" /\ power' = "up"
  /\ UNCHANGED <<conns, counters, at, stale, left, taken, writer, books, online, sole, keep,
                 bytes, faults, resets, changes>>

\* The panel is killed and comes back: only what was committed is left.
Crash ==
  /\ Troubles /\ faults' = faults + 1
  /\ power' = "down"
  /\ lost' = [c \in Cells |-> IF c[1] \in Users
                THEN lost[c] + counters[c] + MapThenSumSet(LAMBDA j : taken[j][c], Jobs)
                ELSE lost[c]]
  /\ conns' = [c \in Conns |-> {}] /\ counters' = Zero
  /\ at' = [j \in Jobs |-> "idle"] /\ stale' = {} /\ sole' = {}
  /\ left' = [j \in Jobs |-> {}] /\ taken' = [j \in Jobs |-> Zero]
  /\ writer' = None /\ online' = {}
  /\ UNCHANGED <<clients, billed, stray, stats, keep, bytes, resets, changes>>

\* A client is created, deleted or renamed; the core goes on counting under the name it has.
ChangeClient(u) ==
  /\ writer = None /\ Troubles /\ changes' = changes + 1
  /\ clients' = IF u \in clients THEN clients \ {u} ELSE clients \union {u}
  /\ UNCHANGED <<core, at, stale, left, taken, writer, billed, stray, stats, lost, online, sole,
                 keep, bytes, faults, resets>>

Next ==
  \/ \E c \in Conns : Route(c) \/ HangUp(c) \/ \E d \in Dirs : Move(c, d)
  \/ \E j \in Jobs : Begin(j) \/ JobStep(j)
  \/ StopCore \/ Reset \/ StartCore \/ Crash
  \/ \E u \in Users : ChangeClient(u)

Spec == Init /\ [][Next]_vars

-----------------------------------------------------------------------------
(* Properties. *)

Counts == [Cells -> Nat]

\* The variables have their types; only a job that is writing has the lock.
TypeOK ==
  /\ power \in {"up", "stopping", "down"}
  /\ conns \in [Conns -> SUBSET Keys] /\ counters \in Counts
  /\ at \in [Jobs -> {"idle", "got", "swap", "write"}]
  /\ stale \in SUBSET Jobs /\ sole \in SUBSET Jobs
  /\ left \in [Jobs -> SUBSET Keys] /\ taken \in [Jobs -> Counts]
  /\ writer \in Jobs \union {None} /\ clients \in SUBSET Users
  /\ billed \in Counts /\ stats \in Counts /\ stray \in Counts /\ lost \in Counts
  /\ online \in SUBSET Keys /\ keep \in BOOLEAN
  /\ writer # None => at[writer] = "write"

Accounts == Users \X Dirs

\* The stats table and the rows of the clients tell the same story.
StatsAgree == keep => \A a \in Accounts : stats[a] = billed[a] + stray[a]

\* Every byte of a user is billed once, to the row that has the user's name when the batch
\* is committed, unless a transaction fails, the core stops or the panel is killed.
OnAccounts(f) == [a \in Accounts |-> f[a]]
Book == INSTANCE Ledger WITH
  owed <- [a \in Accounts |-> counters[a] + MapThenSumSet(LAMBDA j : taken[j][a], Jobs)],
  billed <- OnAccounts(billed), stray <- OnAccounts(stray), lost <- OnAccounts(lost),
  excuses <- faults + resets
BilledOnce == Book!Spec /\ []StatsAgree

\* A job that has the lists to itself leaves in them exactly what moved traffic in its batch,
\* even if it fails for its users: those it has not come to are missing.
OnlineComplete ==
  [][\A j \in sole : at[j] = "write" /\ at'[j] = "idle" /\ online' # {} =>
       online' = Moving(taken[j]) \ left[j]]_vars
================================================================================
