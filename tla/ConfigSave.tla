------------------------------ MODULE ConfigSave ------------------------------
(***************************************************************************)
(* Saving the configuration document (ConfigService.Save "config"), and    *)
(* what the core runs.                                                     *)
(*                                                                         *)
(* The request writes the document in its transaction and hands it, before *)
(* the transaction ends, to a goroutine that restarts the core with it     *)
(* (restartCoreWithConfig) unless somebody is starting the core right then.*)
(* Whoever finds the core down starts it with the document the database has*)
(* (StartCore): the request itself when it has committed, the job that     *)
(* checks the core, the administrator.                                     *)
(*                                                                         *)
(* How a core starts and stops is CoreLifecycle; the inbounds and outbounds*)
(* that are added to the document are InboundSave's matter.                *)
(***************************************************************************)
EXTENDS Naturals, FiniteSets

CONSTANTS Configs,   \* documents
          Broken,    \* those the core refuses
          Requests,  \* one save each
          Job,       \* CheckCoreJob (also: RestartCore, after its stop)
          None,
          MaxFaults, \* bound: transactions and starts that fail
          MaxStops   \* bound: stops of the core

ASSUME ConfigAssumption == Broken \subseteq Configs /\ None \notin Configs
ASSUME ThreadAssumption == Job \notin Requests /\ None \notin Requests \union {Job}
ASSUME HolderAssumption ==
  None \notin ({"go"} \X Requests) \union ({"start"} \X (Requests \union {Job}))
ASSUME BoundAssumption == MaxFaults \in Nat /\ MaxStops \in Nat

VARIABLES
  stored,   \* the document that is committed
  writer,   \* the request whose transaction has written
  at,       \* StartCore of a thread, and the request before it
  doc,      \* the document of a request, which its goroutine has a copy of
  read,     \* the document StartCore has read
  go,       \* the goroutine of a request
  starter,  \* who has startCoreInProgress: None, <<"go", r>> or <<"start", t>>
  core,     \* the document the core runs, None when it is down
  latest,   \* history: the request that wrote last
  failed,   \* history: requests that were rolled back
  excused,  \* history: the core may have another document than the last that was saved
  faults, stops

vars == <<stored, writer, at, doc, read, go, starter, core, latest, failed, excused, faults, stops>>

Threads == Requests \union {Job}

Init ==
  /\ stored \in Configs \ Broken
  /\ writer = None
  /\ at = [t \in Threads |-> IF t = Job THEN "check" ELSE "new"]
  /\ doc = [r \in Requests |-> stored]
  /\ read = [t \in Threads |-> stored]
  /\ go = [r \in Requests |-> "none"]
  /\ starter = None
  /\ core = stored
  /\ latest = None /\ failed = {} /\ excused = FALSE
  /\ faults = 0 /\ stops = 0

-----------------------------------------------------------------------------
(* The request. *)

\* SaveConfig, then the goroutine.
Write(r, c) ==
  /\ at[r] = "new" /\ writer = None
  /\ writer' = r /\ latest' = r
  /\ at' = [at EXCEPT ![r] = "written"]
  /\ doc' = [doc EXCEPT ![r] = c]
  /\ go' = [go EXCEPT ![r] = "ready"]
  /\ UNCHANGED <<stored, read, starter, core, failed, excused, faults, stops>>

\* The entry in the change log, LastUpdate, the commit.
Commit(r) ==
  /\ at[r] = "written"
  /\ stored' = doc[r] /\ writer' = None
  /\ at' = [at EXCEPT ![r] = "check"]
  /\ UNCHANGED <<doc, read, go, starter, core, latest, failed, excused, faults, stops>>

\* The entry in the change log fails.  The goroutine has gone.
Rollback(r) ==
  /\ at[r] = "written" /\ faults < MaxFaults /\ faults' = faults + 1
  /\ writer' = None
  /\ at' = [at EXCEPT ![r] = "done"]
  /\ failed' = failed \union {r}
  /\ excused' = TRUE
  /\ UNCHANGED <<stored, doc, read, go, starter, core, latest, stops>>

-----------------------------------------------------------------------------
(* restartCoreWithConfig. *)

Claim(r) ==
  /\ go[r] = "ready" /\ starter = None
  /\ starter' = <<"go", r>>
  /\ go' = [go EXCEPT ![r] = "stop"]
  /\ UNCHANGED <<stored, writer, at, doc, read, core, latest, failed, excused, faults, stops>>

\* A start is in progress.
Drop(r) ==
  /\ go[r] = "ready" /\ starter # None
  /\ go' = [go EXCEPT ![r] = "done"]
  /\ excused' = TRUE
  /\ UNCHANGED <<stored, writer, at, doc, read, starter, core, latest, failed, faults, stops>>

StopOld(r) ==
  /\ go[r] = "stop"
  /\ core' = None
  /\ go' = [go EXCEPT ![r] = "boot"]
  /\ UNCHANGED <<stored, writer, at, doc, read, starter, latest, failed, excused, faults, stops>>

Booted(c) == IF c \in Broken THEN None ELSE c

\* Mutant: the document comes from the database.
BootStored(r) ==
  /\ go[r] = "boot"
  /\ core' = Booted(stored) /\ starter' = None
  /\ go' = [go EXCEPT ![r] = "done"]
  /\ excused' = (r \in failed \/ latest # r)
  /\ UNCHANGED <<stored, writer, at, doc, read, latest, failed, faults, stops>>
\* Mutant: a failed start leaves startCoreInProgress set.
BootStuck(r) ==
  /\ go[r] = "boot"
  /\ core' = Booted(doc[r])
  /\ starter' = IF doc[r] \in Broken THEN starter ELSE None
  /\ go' = [go EXCEPT ![r] = "done"]
  /\ excused' = (r \in failed \/ latest # r)
  /\ UNCHANGED <<stored, writer, at, doc, read, latest, failed, faults, stops>>
Boot(r) ==
  /\ go[r] = "boot"
  /\ core' = Booted(doc[r]) /\ starter' = None
  /\ go' = [go EXCEPT ![r] = "done"]
  /\ excused' = (r \in failed \/ latest # r)
  /\ UNCHANGED <<stored, writer, at, doc, read, latest, failed, faults, stops>>

\* The tables cannot be read, or the core does not come up this time.
BootFails(r) ==
  /\ go[r] = "boot" /\ faults < MaxFaults /\ faults' = faults + 1
  /\ starter' = None
  /\ go' = [go EXCEPT ![r] = "done"]
  /\ UNCHANGED <<stored, writer, at, doc, read, core, latest, failed, excused, stops>>

-----------------------------------------------------------------------------
(* StartCore. *)

\* Where a thread is when it is through: the job comes again.  Mutant: it does not.
OverForGood(t) == [at EXCEPT ![t] = "done"]
Over(t) == [at EXCEPT ![t] = IF t = Job THEN "check" ELSE "done"]

CheckDown(t) ==
  /\ at[t] = "check" /\ core = None
  /\ at' = [at EXCEPT ![t] = "claim"]
  /\ UNCHANGED <<stored, writer, doc, read, go, starter, core, latest, failed, excused, faults, stops>>

\* The core runs, a start is in progress, or one has failed a moment ago.
Leave(t) ==
  /\ \/ at[t] = "check" /\ core # None
     \/ at[t] = "claim"
  /\ at' = Over(t)
  /\ UNCHANGED <<stored, writer, doc, read, go, starter, core, latest, failed, excused, faults, stops>>

StartClaim(t) ==
  /\ at[t] = "claim" /\ starter = None
  /\ starter' = <<"start", t>>
  /\ at' = [at EXCEPT ![t] = "read"]
  /\ UNCHANGED <<stored, writer, doc, read, go, core, latest, failed, excused, faults, stops>>

\* GetConfig(""): what is written and not committed is not seen.
StartRead(t) ==
  /\ at[t] = "read"
  /\ read' = [read EXCEPT ![t] = stored]
  /\ excused' = (writer # None)
  /\ at' = [at EXCEPT ![t] = "boot"]
  /\ UNCHANGED <<stored, writer, doc, go, starter, core, latest, failed, faults, stops>>

StartBoot(t) ==
  /\ at[t] = "boot"
  /\ core' = Booted(read[t]) /\ starter' = None
  /\ at' = Over(t)
  /\ UNCHANGED <<stored, writer, doc, read, go, latest, failed, excused, faults, stops>>

StartFails(t) ==
  /\ at[t] \in {"read", "boot"} /\ faults < MaxFaults /\ faults' = faults + 1
  /\ core' = IF at[t] = "boot" THEN None ELSE core
  /\ starter' = None
  /\ at' = Over(t)
  /\ UNCHANGED <<stored, writer, doc, read, go, latest, failed, excused, stops>>

\* StopCore asks nobody.
StopCore ==
  /\ core # None /\ stops < MaxStops /\ stops' = stops + 1
  /\ core' = None
  /\ UNCHANGED <<stored, writer, at, doc, read, go, starter, latest, failed, excused, faults>>

Restart(r) == Claim(r) \/ Drop(r) \/ StopOld(r) \/ Boot(r) \/ BootFails(r)
Start(t) == \/ CheckDown(t) \/ StartClaim(t) \/ StartRead(t) \/ StartBoot(t) \/ StartFails(t)
            \/ Leave(t)

Next ==
  \/ \E r \in Requests : (\E c \in Configs : Write(r, c)) \/ Commit(r) \/ Rollback(r) \/ Restart(r)
  \/ \E t \in Threads : Start(t)
  \/ StopCore

Spec == Init /\ [][Next]_vars

\* A request, a goroutine and the job go on; the job does not meet the cooldown for ever.
Fairness ==
  /\ \A r \in Requests : WF_vars(Commit(r)) /\ WF_vars(Restart(r)) /\ WF_vars(Start(r))
  /\ WF_vars(CheckDown(Job)) /\ SF_vars(StartClaim(Job))
  /\ WF_vars(StartRead(Job)) /\ WF_vars(StartBoot(Job))
FairSpec == Spec /\ Fairness

-----------------------------------------------------------------------------
(* Properties. *)

\* The variables have their types.
TypeOK ==
  /\ stored \in Configs /\ core \in Configs \union {None}
  /\ writer \in Requests \union {None} /\ latest \in Requests \union {None}
  /\ at \in [Threads -> {"new", "written", "check", "claim", "read", "boot", "done"}]
  /\ at[Job] \notin {"new", "written", "done"}
  /\ doc \in [Requests -> Configs] /\ read \in [Threads -> Configs]
  /\ go \in [Requests -> {"none", "ready", "stop", "boot", "done"}]
  /\ starter \in {None} \union ({"go"} \X Requests) \union ({"start"} \X Threads)
  /\ failed \in SUBSET Requests /\ excused \in BOOLEAN

Quiet == /\ starter = None
         /\ \A r \in Requests : at[r] # "written" /\ go[r] \in {"none", "done"}

\* When nobody is saving or starting, a core that runs has the document that is stored,
\* unless the restart of a save was dropped because a start was in progress, the last one to
\* restart the core was not the last to save, its transaction failed after all, or a start
\* read the database while a save had not committed.  The next start ends each of these.
RunsStored == Quiet /\ core # None /\ ~excused => core = stored

\* When the document that is stored is one the core accepts, the core ends up running, and
\* with that document, but for the same exceptions.
Converges == <>[](stored \in Broken \/ core = stored \/ (excused /\ core # None))
===============================================================================
