---------------------------- MODULE CoreLifecycle ----------------------------
(***************************************************************************)
(* Starting, stopping and restarting the embedded sing-box core:           *)
(* core.Core (src/core/main.go) and the four operations of ConfigService   *)
(* that drive it (src/service/config.go).                                  *)
(*                                                                         *)
(* The operations are called from goroutines that do not know of each      *)
(* other: the 5-second CheckCoreJob, HTTP handlers (restartSb, the         *)
(* deferred StartCore of Save), the goroutine Save starts for a new        *)
(* config, and the main goroutine (app start, stop and restart).  Core has *)
(* no lock.  ConfigService has startCoreMu, which only protects the flag   *)
(* startCoreInProgress and the time of the last failure: StartCore tests   *)
(* IsRunning before it takes the lock, and StopCore never takes it.        *)
(*                                                                         *)
(* Each read or write of Core's fields and each critical section of        *)
(* startCoreMu is one step.  What a Box does inside is external: it may    *)
(* fail to be built, fail to start, or fail to close.  The cooldown is a   *)
(* flag that a failure raises and the passing of time lowers.              *)
(***************************************************************************)
EXTENDS Naturals

CONSTANTS Threads,  \* goroutines that may be inside these operations
          Cron,     \* the one that runs CheckCoreJob
          Boxes,    \* *core.Box values (recycled when no pointer to one is left)
          NoBox     \* nil

ASSUME CronAssumption == Cron \in Threads
ASSUME NoBoxAssumption == NoBox \notin Boxes

VARIABLES
  isRunning,  \* Core.isRunning
  instance,   \* Core.instance
  box,        \* what has become of each Box: "new", "started" or "closed"
  inProgress, \* startCoreInProgress
  cooling,    \* time.Since(lastStartFailTime) < startCooldown
  thread,     \* each goroutine: the operation it runs, where it is, what it holds
  clean       \* history: no two operations have overlapped in a way Core cannot bear

vars == <<isRunning, instance, box, inProgress, cooling, thread, clean>>

Operations == {"StartCore", "RestartCore", "restartCoreWithConfig", "StopCore"}

Idle == [at |-> "idle", op |-> "StartCore", held |-> FALSE, box |-> NoBox]

\* The goroutine has begun Core.Stop, or owns startCoreInProgress.
InStop(t) == thread[t].at \in {"stopTest", "stopClose", "stopClear"}
Holds(t) == thread[t].held
Overlaps(t) == \E u \in Threads \ {t} : InStop(u) \/ Holds(u)

GoTo(t, where) == thread' = [thread EXCEPT ![t].at = where]
Return(t) == thread' = [thread EXCEPT ![t] = Idle]

Init == /\ isRunning = FALSE /\ instance = NoBox
        /\ box = [b \in Boxes |-> "closed"]
        /\ inProgress = FALSE /\ cooling = FALSE
        /\ thread = [t \in Threads |-> Idle]
        /\ clean = TRUE

\* Mutant: CheckCoreJob is not registered with cron.
CallNoWatchdog(t, op) ==
  /\ thread[t].at = "idle" /\ t # Cron
  /\ thread' = [thread EXCEPT ![t] =
       [Idle EXCEPT !.op = op,
                    !.at = CASE op = "StartCore" -> "check"
                             [] op = "restartCoreWithConfig" -> "claim"
                             [] OTHER -> "stop"]]
  /\ UNCHANGED <<isRunning, instance, box, inProgress, cooling, clean>>

\* A goroutine enters one of the operations; cron only ever runs StartCore.
Call(t, op) ==
  /\ thread[t].at = "idle"
  /\ t = Cron => op = "StartCore"
  /\ thread' = [thread EXCEPT ![t] =
       [Idle EXCEPT !.op = op,
                    !.at = CASE op = "StartCore" -> "check"
                             [] op = "restartCoreWithConfig" -> "claim"
                             [] OTHER -> "stop"]]
  /\ UNCHANGED <<isRunning, instance, box, inProgress, cooling, clean>>

\* startCooldown has passed since the last failure.
CooldownOver ==
  /\ cooling /\ cooling' = FALSE
  /\ UNCHANGED <<isRunning, instance, box, inProgress, thread, clean>>

-----------------------------------------------------------------------------
(* ConfigService.StartCore and restartCoreWithConfig around Core.Start. *)

\* StartCore: corePtr.IsRunning(), before the lock is taken.
Check(t) ==
  /\ thread[t].at = "check"
  /\ IF isRunning THEN Return(t) ELSE GoTo(t, "acquire")
  /\ UNCHANGED <<isRunning, instance, box, inProgress, cooling, clean>>

\* Mutant: only the cooldown is tested under the lock.
AcquireNoFlag(t) ==
  /\ thread[t].at = "acquire"
  /\ IF cooling
     THEN Return(t) /\ UNCHANGED <<inProgress, clean>>
     ELSE /\ inProgress' = TRUE
          /\ thread' = [thread EXCEPT ![t].at = "config", ![t].held = TRUE]
          /\ clean' = (clean /\ ~isRunning /\ ~Overlaps(t))
  /\ UNCHANGED <<isRunning, instance, box, cooling>>

\* StartCore under startCoreMu.  IsRunning is not asked again.
Acquire(t) ==
  /\ thread[t].at = "acquire"
  /\ IF inProgress \/ cooling
     THEN Return(t) /\ UNCHANGED <<inProgress, clean>>
     ELSE /\ inProgress' = TRUE
          /\ thread' = [thread EXCEPT ![t].at = "config", ![t].held = TRUE]
          /\ clean' = (clean /\ ~isRunning /\ ~Overlaps(t))
  /\ UNCHANGED <<isRunning, instance, box, cooling>>

\* restartCoreWithConfig under startCoreMu: with a start in progress the new config is dropped.
Claim(t) ==
  /\ thread[t].at = "claim"
  /\ IF inProgress
     THEN Return(t) /\ UNCHANGED <<inProgress, clean>>
     ELSE /\ inProgress' = TRUE
          /\ thread' = [thread EXCEPT ![t].at = "stopIfRunning", ![t].held = TRUE]
          /\ clean' = (clean /\ ~Overlaps(t))
  /\ UNCHANGED <<isRunning, instance, box, cooling>>

StopIfRunning(t) ==
  /\ thread[t].at = "stopIfRunning"
  /\ GoTo(t, IF isRunning THEN "stop" ELSE "config")
  /\ UNCHANGED <<isRunning, instance, box, inProgress, cooling, clean>>

\* GetConfig: reads the database, may fail.
GetConfig(t) ==
  /\ thread[t].at = "config"
  /\ \E ok \in BOOLEAN : GoTo(t, IF ok THEN "newBox" ELSE "release")
  /\ UNCHANGED <<isRunning, instance, box, inProgress, cooling, clean>>

\* c.instance, err = NewBox(...)
NewBox(t) ==
  /\ thread[t].at = "newBox"
  /\ \/ \E b \in Boxes :
          /\ b # instance /\ \A u \in Threads : thread[u].box # b
          /\ instance' = b
          /\ box' = [box EXCEPT ![b] = "new"]
          /\ GoTo(t, "boxStart")
     \/ instance' = NoBox /\ GoTo(t, "failed") /\ UNCHANGED box
  /\ UNCHANGED <<isRunning, inProgress, cooling, clean>>

\* c.instance.Start(): the pointer is read once, and nil if a Stop has come in between.
BoxStart(t) ==
  /\ thread[t].at = "boxStart"
  /\ IF instance = NoBox THEN GoTo(t, "panicked")
     ELSE thread' = [thread EXCEPT ![t].at = "starting", ![t].box = instance]
  /\ UNCHANGED <<isRunning, instance, box, inProgress, cooling, clean>>

\* Start returns; a box closed meanwhile stays closed (its done channel is).
BoxStarted(t) ==
  /\ thread[t].at = "starting"
  /\ \/ /\ box' = [box EXCEPT ![thread[t].box] = IF @ = "new" THEN "started" ELSE @]
        /\ thread' = [thread EXCEPT ![t].at = "publish", ![t].box = NoBox]
     \/ /\ thread' = [thread EXCEPT ![t].at = "failClose", ![t].box = NoBox]
        /\ UNCHANGED box
  /\ UNCHANGED <<isRunning, instance, inProgress, cooling, clean>>

\* The start failed: c.instance.Close(), on whatever c.instance is now.
FailClose(t) ==
  /\ thread[t].at = "failClose"
  /\ IF instance = NoBox THEN GoTo(t, "panicked") /\ UNCHANGED box
     ELSE box' = [box EXCEPT ![instance] = "closed"] /\ GoTo(t, "failClear")
  /\ UNCHANGED <<isRunning, instance, inProgress, cooling, clean>>

\* Mutant: c.instance keeps pointing at the closed box.
FailClearKeep(t) ==
  /\ thread[t].at = "failClear"
  /\ GoTo(t, "failed")
  /\ UNCHANGED <<isRunning, instance, box, inProgress, cooling, clean>>

\* c.instance = nil, and Start returns the error.
FailClear(t) ==
  /\ thread[t].at = "failClear"
  /\ instance' = NoBox
  /\ GoTo(t, "failed")
  /\ UNCHANGED <<isRunning, box, inProgress, cooling, clean>>

\* Only StartCore remembers when it failed.
Failed(t) ==
  /\ thread[t].at = "failed"
  /\ cooling' = (cooling \/ thread[t].op # "restartCoreWithConfig")
  /\ GoTo(t, "release")
  /\ UNCHANGED <<isRunning, instance, box, inProgress, clean>>

\* The last line of Core.Start.
Publish(t) ==
  /\ thread[t].at = "publish"
  /\ isRunning' = TRUE
  /\ GoTo(t, "release")
  /\ UNCHANGED <<instance, box, inProgress, cooling, clean>>

\* The deferred reset of startCoreInProgress.
Release(t) ==
  /\ thread[t].at = "release"
  /\ inProgress' = FALSE
  /\ Return(t)
  /\ UNCHANGED <<isRunning, instance, box, cooling, clean>>

-----------------------------------------------------------------------------
(* Core.Stop, and what its caller does next. *)

AfterStop(t, failed) ==
  CASE thread[t].op = "RestartCore" /\ ~failed -> GoTo(t, "check")
    [] thread[t].op = "restartCoreWithConfig" -> GoTo(t, IF failed THEN "release" ELSE "config")
    [] OTHER -> Return(t)

SetNotRunning(t) ==
  /\ thread[t].at = "stop"
  /\ isRunning' = FALSE
  /\ GoTo(t, "stopTest")
  /\ clean' = (clean /\ ~Overlaps(t))
  /\ UNCHANGED <<instance, box, inProgress, cooling>>

StopTest(t) ==
  /\ thread[t].at = "stopTest"
  /\ IF instance = NoBox THEN AfterStop(t, FALSE) ELSE GoTo(t, "stopClose")
  /\ UNCHANGED <<isRunning, instance, box, inProgress, cooling, clean>>

\* c.instance.Close(): closing a closed box does nothing, closing nil panics.
StopClose(t) ==
  /\ thread[t].at = "stopClose"
  /\ IF instance = NoBox THEN GoTo(t, "panicked") /\ UNCHANGED box
     ELSE box' = [box EXCEPT ![instance] = "closed"] /\ GoTo(t, "stopClear")
  /\ UNCHANGED <<isRunning, instance, inProgress, cooling, clean>>

StopClear(t) ==
  /\ thread[t].at = "stopClear"
  /\ instance' = NoBox
  /\ \E failed \in BOOLEAN : AfterStop(t, failed)
  /\ UNCHANGED <<isRunning, box, inProgress, cooling, clean>>

-----------------------------------------------------------------------------
(* A nil dereference: gin recovers it in an HTTP handler, where the deferred reset still *)
(* runs; anywhere else the process dies and systemd starts it again.                     *)

Recover(t) ==
  /\ thread[t].at = "panicked" /\ t # Cron
  /\ thread[t].op \in {"StartCore", "RestartCore"}
  /\ IF Holds(t) THEN GoTo(t, "release") ELSE Return(t)
  /\ UNCHANGED <<isRunning, instance, box, inProgress, cooling, clean>>

ProcessDies(t) ==
  /\ thread[t].at = "panicked"
  /\ isRunning' = FALSE /\ instance' = NoBox
  /\ box' = [b \in Boxes |-> "closed"]
  /\ inProgress' = FALSE /\ cooling' = FALSE
  /\ thread' = [u \in Threads |-> Idle]
  /\ clean' = TRUE

-----------------------------------------------------------------------------
StartStep(t) == \/ Check(t) \/ Acquire(t) \/ Claim(t) \/ StopIfRunning(t) \/ GetConfig(t)
                \/ NewBox(t) \/ BoxStart(t) \/ BoxStarted(t) \/ FailClose(t) \/ FailClear(t)
                \/ Failed(t) \/ Publish(t) \/ Release(t)
StopStep(t) == SetNotRunning(t) \/ StopTest(t) \/ StopClose(t) \/ StopClear(t)
PanicStep(t) == Recover(t) \/ ProcessDies(t)

Next == \/ CooldownOver
        \/ \E t \in Threads : \/ \E op \in Operations : Call(t, op)
                              \/ StartStep(t) \/ StopStep(t) \/ PanicStep(t)

Spec == Init /\ [][Next]_vars

\* Goroutines run, the cooldown passes, and cron fires every 5 seconds.  Nobody is obliged
\* to press a button.
Fairness == /\ WF_vars(CooldownOver)
            /\ WF_vars(Call(Cron, "StartCore"))
            /\ \A t \in Threads : WF_vars(StartStep(t) \/ StopStep(t) \/ PanicStep(t))

FairSpec == Spec /\ Fairness

-----------------------------------------------------------------------------
(* Properties. *)

Places == {"idle", "check", "acquire", "claim", "stopIfRunning", "config", "newBox",
           "boxStart", "starting", "failClose", "failClear", "failed", "publish", "release",
           "stop", "stopTest", "stopClose", "stopClear", "panicked"}

ThreadType == [Threads -> [at : Places, op : Operations, held : BOOLEAN,
                           box : Boxes \union {NoBox}]]

\* The fields of Core and the package variables of config.go keep their types.
TypeOK == /\ isRunning \in BOOLEAN /\ inProgress \in BOOLEAN
          /\ cooling \in BOOLEAN /\ clean \in BOOLEAN
          /\ instance \in Boxes \union {NoBox}
          /\ box \in [Boxes -> {"new", "started", "closed"}]
          /\ thread \in ThreadType

\* startCoreInProgress keeps every other goroutine out of Core.Start, whichever of the
\* operations it came through and however it leaves (error, success, recovered panic).
InCoreStart(t) == thread[t].at \in {"config", "newBox", "boxStart", "starting", "failClose",
                                    "failClear", "failed", "publish"}
OneStarter == \A t, u \in Threads : InCoreStart(t) /\ InCoreStart(u) => t = u

\* Nobody is inside Core.Start or Core.Stop.
Quiet == \A t \in Threads : ~InStop(t) /\ ~Holds(t) /\ thread[t].at # "panicked"

\* isRunning says the truth: the core is running exactly when there is a started box.
TruthfulFlag == /\ isRunning <=> instance # NoBox
                /\ instance # NoBox => box[instance] = "started"

\* As long as no Stop has overlapped another operation and no StartCore has acted on a
\* stale IsRunning, the flag is truthful whenever nobody is busy, no box is left running
\* that nobody points to, and no goroutine has dereferenced nil.
SafeWhenSerial ==
  clean => /\ Quiet => TruthfulFlag
           /\ \A b \in Boxes : box[b] = "started" => b = instance
           /\ \A t \in Threads : thread[t].at # "panicked"

\* "Start core if it is not running" (cronJob.go) can only work if isRunning is not set
\* for a core that is not there.
NoZombieCore == Quiet /\ isRunning => instance # NoBox /\ box[instance] = "started"

\* The flag that keeps starters out is always lowered again, and a core that is down is
\* always tried again, whatever the stops and the panics.
FlagIsLowered == inProgress ~> ~inProgress
DownIsRetried == ~isRunning ~> (isRunning \/ inProgress)
=============================================================================
