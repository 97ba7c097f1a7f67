------------------------------- MODULE PanelSync -------------------------------
(***************************************************************************)
(* How an open panel learns that somebody else has changed something.      *)
(*                                                                         *)
(* A panel polls every ten seconds with the second of its last load, by its*)
(* own clock; the server answers with everything when LastUpdate is later  *)
(* (ConfigService.CheckChanges), or with nothing.  LastUpdate is a second  *)
(* in memory that every writer sets: a save shortly before it commits, the *)
(* deplete job to the second in which it began, a ban after it has         *)
(* committed to the second in which it began.  After a restart of the      *)
(* server the change log takes its place.  The answer to a save holds only *)
(* the kinds of object the save concerns.                                  *)
(*                                                                         *)
(* The clocks of the panels are the server's.  A panel has one poll and one*)
(* save under way at most.                                                 *)
(***************************************************************************)
EXTENDS Naturals

CONSTANTS Panels,     \* open panels
          Objects,    \* kinds of object
          Clients,    \* the kind the jobs and a ban change
          Cron,       \* the deplete job
          None,
          MaxTime,    \* bound: the clock stops here
          MaxChanges, \* bound: transactions
          MaxFaults   \* bound: transactions that fail, restarts of the server

BoundAssumption == MaxTime \in Nat /\ MaxChanges \in Nat /\ MaxFaults \in Nat
NameAssumption == Clients \in Objects /\ Cron \notin Panels

VARIABLES
  now,
  version,    \* of each kind of object, as committed
  lastUpdate, \* 0 after a restart
  logged,     \* the latest entry of the change log that is committed
  tx,         \* the transaction that holds the write lock
  owed,       \* bans that have committed and not yet set LastUpdate
  lastLoad,   \* of a panel; 0 before the first
  seen,       \* the versions a panel shows
  poll,       \* the answer on its way to a panel
  save,       \* of a panel: "wait" for the transaction, "read" obj for the answer, "answer"
  blind,      \* history: what a panel may miss for good
  changes, faults

server == <<version, lastUpdate, logged, tx, owed>>
panel == <<lastLoad, seen, poll, save>>
vars == <<now, server, panel, blind, changes, faults>>

Later(a, b) == IF a > b THEN a ELSE b
NoSave == [step |-> "none", obj |-> Clients, ver |-> 0]
Saved(p) == save[p].step = "answer"
Saving(p, to, o) == save' = [save EXCEPT ![p] = [step |-> to, obj |-> o, ver |-> version[o]]]

\* CheckChanges.
Changed(p) == \/ lastLoad[p] = 0
              \/ IF lastUpdate = 0 THEN logged > lastLoad[p] ELSE lastUpdate > lastLoad[p]

Init ==
  /\ now = 1
  /\ version = [o \in Objects |-> 0]
  /\ lastUpdate = 0 /\ logged = 0 /\ tx = None /\ owed = {}
  /\ lastLoad = [p \in Panels |-> 0]
  /\ seen = [p \in Panels |-> version]
  /\ poll = [p \in Panels |-> None] /\ save = [p \in Panels |-> NoSave]
  /\ blind = [p \in Panels |-> {}]
  /\ changes = 0 /\ faults = 0

Tick == now < MaxTime /\ now' = now + 1 /\ UNCHANGED <<server, panel, blind, changes, faults>>

-----------------------------------------------------------------------------
(* Transactions. *)

Begin(by, kind, o) ==
  /\ tx = None /\ changes < MaxChanges /\ changes' = changes + 1
  /\ tx' = [by |-> by, kind |-> kind, obj |-> o, dt |-> now, stamped |-> FALSE]
  /\ UNCHANGED <<now, version, lastUpdate, logged, owed, lastLoad, seen, poll, blind, faults>>

BeginSave(p, o) == save[p] = NoSave /\ Begin(p, "save", o) /\ Saving(p, "wait", o)
BeginBan(p) == save[p] = NoSave /\ Begin(p, "ban", Clients) /\ Saving(p, "wait", Clients)
BeginJob == Begin(Cron, "job", Clients) /\ UNCHANGED save
\* ResetClients, when only periods of traffic have ended: nothing is logged or stamped.
BeginReset == Begin(Cron, "reset", Clients) /\ UNCHANGED save

\* What a panel has yet to learn, the change about to be committed included.
Stale(p) == {o \in Objects : seen[p][o] # version[o] \/ (tx # None /\ tx.obj = o)}

\* Setting LastUpdate to an earlier second takes a reload away that was due.
SetBack(dt) ==
  blind' = [p \in Panels |-> IF lastUpdate > lastLoad[p] /\ lastLoad[p] >= dt
                             THEN blind[p] \union Stale(p) ELSE blind[p]]

\* Mutant: the job commits its change and forgets LastUpdate.
StampSavesOnly ==
  /\ tx # None /\ tx.kind \in {"save", "job"} /\ ~tx.stamped
  /\ tx' = [tx EXCEPT !.dt = IF tx.kind = "save" THEN now ELSE @, !.stamped = TRUE]
  /\ lastUpdate' = IF tx.kind = "save" THEN now ELSE lastUpdate
  /\ UNCHANGED <<now, version, logged, owed, panel, blind, changes, faults>>
\* The time of a save is taken here, the time of the job when it began.
Stamp ==
  /\ tx # None /\ tx.kind \in {"save", "job"} /\ ~tx.stamped
  /\ LET dt == IF tx.kind = "save" THEN now ELSE tx.dt
     IN /\ tx' = [tx EXCEPT !.dt = dt, !.stamped = TRUE]
        /\ lastUpdate' = dt
        /\ SetBack(dt)
  /\ UNCHANGED <<now, version, logged, owed, panel, changes, faults>>

\* Who misses a change that is committed now: a panel that has loaded since its second began.
Misses(p) == lastLoad[p] > 0 /\ (tx.kind = "reset" \/ lastLoad[p] >= tx.dt)

Commit ==
  /\ tx # None /\ (tx.stamped \/ tx.kind \in {"ban", "reset"})
  /\ version' = [version EXCEPT ![tx.obj] = @ + 1]
  /\ logged' = IF tx.kind = "reset" THEN logged ELSE Later(logged, tx.dt)
  /\ owed' = IF tx.kind = "ban" THEN owed \union {[by |-> tx.by, dt |-> tx.dt]} ELSE owed
  /\ blind' = [p \in Panels |-> IF Misses(p) THEN blind[p] \union {tx.obj} ELSE blind[p]]
  /\ save' = IF tx.kind = "save" THEN [save EXCEPT ![tx.by].step = "read"] ELSE save
  /\ tx' = None
  /\ UNCHANGED <<now, lastUpdate, lastLoad, seen, poll, changes, faults>>

\* The end of a ban: the core has been told in between.
StampBan(b) ==
  /\ b \in owed /\ owed' = owed \ {b}
  /\ lastUpdate' = b.dt
  /\ SetBack(b.dt)
  /\ save' = [save EXCEPT ![b.by].step = "read"]
  /\ UNCHANGED <<now, version, logged, tx, lastLoad, seen, poll, changes, faults>>

Rollback ==
  /\ tx # None /\ faults < MaxFaults /\ faults' = faults + 1
  /\ tx' = None
  /\ save' = IF tx.by = Cron THEN save ELSE [save EXCEPT ![tx.by] = NoSave]
  /\ UNCHANGED <<now, version, lastUpdate, logged, owed, lastLoad, seen, poll, blind, changes>>

\* The server is restarted; the panels find out by the errors they get.
Restart ==
  /\ faults < MaxFaults /\ faults' = faults + 1
  /\ lastUpdate' = 0 /\ tx' = None /\ owed' = {}
  /\ poll' = [p \in Panels |-> None] /\ save' = [p \in Panels |-> NoSave]
  /\ UNCHANGED <<now, version, logged, lastLoad, seen, blind, changes>>

-----------------------------------------------------------------------------
(* Panels. *)

\* LoadPartialData, after the transaction.
ReadSaved(p) ==
  /\ save[p].step = "read" /\ Saving(p, "answer", save[p].obj)
  /\ UNCHANGED <<now, server, lastLoad, seen, poll, blind, changes, faults>>

\* setNewData: the time of the last load is set, whatever the answer holds.
ReceiveSaved(p) ==
  /\ Saved(p)
  /\ seen' = [seen EXCEPT ![p][save[p].obj] = save[p].ver]
  /\ lastLoad' = [lastLoad EXCEPT ![p] = now]
  /\ save' = [save EXCEPT ![p] = NoSave]
  /\ LET o == save[p].obj
     IN blind' = [blind EXCEPT ![p] =
                    ((IF Changed(p) \/ owed # {} THEN @ \union Stale(p) ELSE @) \ {o})
                      \union {x \in {o} : save[p].ver # version[x]}]
  /\ UNCHANGED <<now, server, poll, changes, faults>>

\* ApiService.getData.
Poll(p) ==
  /\ poll[p] = None
  /\ lastUpdate' = IF lastUpdate = 0 /\ lastLoad[p] > 0 THEN now ELSE lastUpdate
  /\ IF Changed(p)
     THEN poll' = [poll EXCEPT ![p] = version]
     ELSE UNCHANGED poll
  /\ UNCHANGED <<now, version, logged, tx, owed, lastLoad, seen, save, blind, changes, faults>>

ReceivePoll(p) ==
  /\ poll[p] # None
  /\ seen' = [seen EXCEPT ![p] = poll[p]]
  /\ lastLoad' = [lastLoad EXCEPT ![p] = now]
  /\ poll' = [poll EXCEPT ![p] = None]
  /\ blind' = [blind EXCEPT ![p] = {o \in Objects : poll[p][o] # version[o]}]
  /\ UNCHANGED <<now, server, save, changes, faults>>

Next ==
  \/ Tick \/ Stamp \/ Commit \/ Rollback \/ Restart \/ BeginJob \/ BeginReset
  \/ \E b \in owed : StampBan(b)
  \/ \E p \in Panels : \/ BeginBan(p) \/ ReceiveSaved(p) \/ Poll(p) \/ ReceivePoll(p)
                       \/ ReadSaved(p) \/ \E o \in Objects : BeginSave(p, o)

Spec == Init /\ [][Next]_vars

-----------------------------------------------------------------------------
(* Properties. *)

Numbers == 0..MaxChanges

\* The variables have their types.
TypeOK ==
  /\ now \in 1..MaxTime /\ lastUpdate \in 0..MaxTime /\ logged \in 0..MaxTime
  /\ version \in [Objects -> Numbers] /\ seen \in [Panels -> [Objects -> Numbers]]
  /\ lastLoad \in [Panels -> 0..MaxTime]
  /\ \A p \in Panels : poll[p] = None \/ poll[p] \in [Objects -> Numbers]
  /\ blind \in [Panels -> SUBSET Objects]

\* A panel that shows something old will be told: its next poll gets an answer, or a ban is
\* about to set LastUpdate; unless it is blind, by one of these: it has loaded in the second of
\* the change or between stamp and commit; it was being answered when the change was committed;
\* LastUpdate was set back by the job or a ban; the answer to a save of its own stood for the
\* reload that was due; the change was a periodic reset.
Informed ==
  \A p \in Panels, o \in Objects :
    \/ seen[p][o] = version[o] \/ o \in blind[p]
    \/ Changed(p) \/ \E b \in owed : b.dt > lastLoad[p]
================================================================================
