------------------------ MODULE CoreLifecycle_proofs ------------------------
(* Proofs about the core: CoreLifecycle, for any number of goroutines and boxes, Connections    *)
(* and BoxStages.  OneStarter rests on who may hold startCoreInProgress; SafeWhenSerial on the  *)
(* fact that, while clean, one goroutine at most is inside Core, and on what Core's fields are  *)
(* at each point of its way; Swept on what each restart and each connection can be between two  *)
(* steps (ConnInv); BoxesWhole on how far the start and the close of the last box are (BoxInv). *)
EXTENDS MCCoreLifecycle, Naturals, Sequences, TLAPS

USE CronAssumption, NoBoxAssumption

HeldPlaces == {"stopIfRunning", "config", "newBox", "boxStart", "starting", "failClose",
               "failClear", "failed", "publish", "release"}
FreePlaces == {"idle", "check", "acquire", "claim"}
StopPlaces == {"stop", "stopTest", "stopClose", "stopClear"}

\* Who holds startCoreInProgress: at most one goroutine, and only in these places.
HeldInv ==
  /\ \A t \in Threads : Holds(t) => inProgress
  /\ \A t, u \in Threads : Holds(t) /\ Holds(u) => t = u
  /\ \A t \in Threads :
       /\ thread[t].at \in HeldPlaces => Holds(t)
       /\ thread[t].at \in FreePlaces => ~Holds(t)
       /\ thread[t].at = "stopIfRunning" => thread[t].op = "restartCoreWithConfig"
       /\ thread[t].at \in StopPlaces => (Holds(t) <=> thread[t].op = "restartCoreWithConfig")

StartInv == TypeOK /\ HeldInv

-----------------------------------------------------------------------------
\* Moving a goroutine, or ending its operation, keeps the type of thread.
LEMMA GoToType == ASSUME thread \in ThreadType, NEW t \in Threads, NEW where \in Places,
                         GoTo(t, where)
                  PROVE  thread' \in ThreadType
BY DEF ThreadType, GoTo

\* Returning from an operation keeps the type of thread.
LEMMA ReturnType == ASSUME thread \in ThreadType, NEW t \in Threads, Return(t)
                    PROVE  thread' \in ThreadType
BY DEF ThreadType, Return, Idle, Places, Operations

\* What follows a Stop is a place of the caller's.
LEMMA AfterStopType == ASSUME thread \in ThreadType, NEW t \in Threads,
                              NEW failed \in BOOLEAN, AfterStop(t, failed)
                       PROVE  thread' \in ThreadType
<1>1. "check" \in Places /\ "release" \in Places /\ "config" \in Places
  BY DEF Places
<1>2. CASE thread[t].op = "RestartCore" /\ ~failed
  BY <1>1, <1>2, GoToType DEF AfterStop
<1>3. CASE thread[t].op = "restartCoreWithConfig"
  BY <1>1, <1>3, GoToType DEF AfterStop
<1>4. CASE thread[t].op # "restartCoreWithConfig" /\ ~(thread[t].op = "RestartCore" /\ ~failed)
  BY <1>4, ReturnType DEF AfterStop
<1> QED BY <1>2, <1>3, <1>4

\* Every step keeps the types of Core's fields.
LEMMA TypeOKStep == TypeOK /\ [Next]_vars => TypeOK'
<1> SUFFICES ASSUME TypeOK, [Next]_vars PROVE TypeOK'
  OBVIOUS
<1> USE DEF TypeOK
<1>0. \A where \in {"idle", "check", "acquire", "claim", "stopIfRunning", "config", "newBox",
                    "boxStart", "starting", "failClose", "failClear", "failed", "publish",
                    "release", "stop", "stopTest", "stopClose", "stopClear", "panicked"} :
        where \in Places
  BY DEF Places
<1>1. CASE CooldownOver
  BY <1>1 DEF CooldownOver
<1>2. ASSUME NEW t \in Threads, NEW op \in Operations, Call(t, op) PROVE TypeOK'
  BY <1>2 DEF Call, ThreadType, Idle, Places
<1>3. ASSUME NEW t \in Threads, StartStep(t) PROVE TypeOK'
  <2>1. CASE Check(t)
    BY <1>0, <2>1, GoToType, ReturnType DEF Check
  <2>2. CASE Acquire(t)
    <3>1. thread' \in ThreadType
      BY <2>2, ReturnType DEF Acquire, ThreadType, Places
    <3> QED BY <2>2, <3>1 DEF Acquire
  <2>3. CASE Claim(t)
    <3>1. thread' \in ThreadType
      BY <2>3, ReturnType DEF Claim, ThreadType, Places
    <3> QED BY <2>3, <3>1 DEF Claim
  <2>4. CASE StopIfRunning(t)
    BY <1>0, <2>4, GoToType DEF StopIfRunning
  <2>5. CASE GetConfig(t)
    BY <1>0, <2>5, GoToType DEF GetConfig
  <2>6. CASE NewBox(t)
    BY <1>0, <2>6, GoToType DEF NewBox
  <2>7. CASE BoxStart(t)
    <3>1. thread' \in ThreadType
      BY <1>0, <2>7, GoToType DEF BoxStart, ThreadType, Places
    <3> QED BY <2>7, <3>1 DEF BoxStart
  <2>8. CASE BoxStarted(t)
    <3>1. thread' \in ThreadType
      BY <2>8 DEF BoxStarted, ThreadType, Places
    <3>2. box' \in [Boxes -> {"new", "started", "closed"}]
      BY <2>8 DEF BoxStarted
    <3> QED BY <2>8, <3>1, <3>2 DEF BoxStarted
  <2>9. CASE FailClose(t)
    BY <1>0, <2>9, GoToType DEF FailClose
  <2>10. CASE FailClear(t)
    BY <1>0, <2>10, GoToType DEF FailClear
  <2>11. CASE Failed(t)
    BY <1>0, <2>11, GoToType DEF Failed
  <2>12. CASE Publish(t)
    BY <1>0, <2>12, GoToType DEF Publish
  <2>13. CASE Release(t)
    BY <2>13, ReturnType DEF Release
  <2> QED BY <1>3, <2>1, <2>2, <2>3, <2>4, <2>5, <2>6, <2>7, <2>8, <2>9, <2>10, <2>11, <2>12,
             <2>13 DEF StartStep
<1>4. ASSUME NEW t \in Threads, StopStep(t) PROVE TypeOK'
  <2>1. CASE SetNotRunning(t)
    BY <1>0, <2>1, GoToType DEF SetNotRunning
  <2>2. CASE StopTest(t)
    BY <1>0, <2>2, GoToType, AfterStopType DEF StopTest
  <2>3. CASE StopClose(t)
    BY <1>0, <2>3, GoToType DEF StopClose
  <2>4. CASE StopClear(t)
    BY <2>4, AfterStopType DEF StopClear
  <2> QED BY <1>4, <2>1, <2>2, <2>3, <2>4 DEF StopStep
<1>5. ASSUME NEW t \in Threads, PanicStep(t) PROVE TypeOK'
  <2>1. CASE Recover(t)
    BY <1>0, <2>1, GoToType, ReturnType DEF Recover
  <2>2. CASE ProcessDies(t)
    BY <2>2 DEF ProcessDies, ThreadType, Idle, Places, Operations
  <2> QED BY <1>5, <2>1, <2>2 DEF PanicStep
<1>6. CASE UNCHANGED vars
  BY <1>6 DEF vars
<1> QED BY <1>1, <1>2, <1>3, <1>4, <1>5, <1>6 DEF Next

\* The types are right at the start.
LEMMA TypeInit == Init => TypeOK
<1> SUFFICES ASSUME Init PROVE TypeOK
  OBVIOUS
<1> QED BY DEF Init, TypeOK, ThreadType, Idle, Places, Operations

\* The types are right in every reachable state.
THEOREM TypeCorrect == Spec => []TypeOK
BY TypeInit, TypeOKStep, PTL DEF Spec

-----------------------------------------------------------------------------
\* A step of one goroutine that leaves held alone and moves between places that agree
\* about it keeps HeldInv.
LEMMA HeldStep == StartInv /\ [Next]_vars => HeldInv'
<1> SUFFICES ASSUME StartInv, [Next]_vars PROVE HeldInv'
  OBVIOUS
<1> USE DEF StartInv, TypeOK, ThreadType, HeldInv, Holds, GoTo, Return, Idle, HeldPlaces, FreePlaces,
            StopPlaces
<1>1. CASE CooldownOver
  BY <1>1 DEF CooldownOver
<1>2. ASSUME NEW t \in Threads, NEW op \in Operations, Call(t, op) PROVE HeldInv'
  BY <1>2 DEF Call, Operations
<1>3. ASSUME NEW t \in Threads, StartStep(t) PROVE HeldInv'
  <2>1. CASE Check(t)
    BY <2>1 DEF Check
  <2>2. CASE Acquire(t)
    BY <2>2 DEF Acquire
  <2>3. CASE Claim(t)
    BY <2>3 DEF Claim
  <2>4. CASE StopIfRunning(t)
    BY <2>4 DEF StopIfRunning
  <2>5. CASE GetConfig(t)
    BY <2>5 DEF GetConfig
  <2>6. CASE NewBox(t)
    BY <2>6 DEF NewBox
  <2>7. CASE BoxStart(t)
    BY <2>7 DEF BoxStart
  <2>8. CASE BoxStarted(t)
    BY <2>8 DEF BoxStarted
  <2>9. CASE FailClose(t) \/ FailClear(t) \/ Failed(t)
    BY <2>9 DEF FailClose, FailClear, Failed
  <2>10. CASE Publish(t) \/ Release(t)
    BY <2>10 DEF Publish, Release
  <2> QED BY <1>3, <2>1, <2>2, <2>3, <2>4, <2>5, <2>6, <2>7, <2>8, <2>9, <2>10 DEF StartStep
<1>4. ASSUME NEW t \in Threads, StopStep(t) PROVE HeldInv'
  <2>1. CASE SetNotRunning(t)
    BY <2>1 DEF SetNotRunning
  <2>a. ASSUME NEW failed \in BOOLEAN, AfterStop(t, failed), UNCHANGED inProgress,
               thread[t].at \in StopPlaces
        PROVE  HeldInv'
    <3>1. CASE thread[t].op = "restartCoreWithConfig"
      <4>1. /\ thread' = [thread EXCEPT ![t].at = IF failed THEN "release" ELSE "config"]
            /\ thread[t].held
        BY <2>a, <3>1 DEF AfterStop
      <4> QED BY <2>a, <3>1, <4>1
    <3>2. CASE thread[t].op # "restartCoreWithConfig"
      <4>1. /\ ~ thread[t].held
            /\ thread' \in {[thread EXCEPT ![t].at = "check"], [thread EXCEPT ![t] = Idle]}
        BY <2>a, <3>2 DEF AfterStop
      <4> QED BY <2>a, <3>2, <4>1
    <3> QED BY <3>1, <3>2
  <2>2. CASE StopTest(t)
    <3>1. CASE instance = NoBox
      BY <2>2, <2>a, <3>1 DEF StopTest
    <3>2. CASE instance # NoBox
      <4>1. /\ thread' = [thread EXCEPT ![t].at = "stopClose"] /\ UNCHANGED inProgress
            /\ thread[t].at = "stopTest"
        BY <2>2, <3>2 DEF StopTest
      <4> QED BY <4>1
    <3> QED BY <3>1, <3>2
  <2>3. CASE StopClose(t)
    BY <2>3 DEF StopClose
  <2>4. CASE StopClear(t)
    BY <2>4, <2>a DEF StopClear
  <2> QED BY <1>4, <2>1, <2>2, <2>3, <2>4 DEF StopStep
<1>5. ASSUME NEW t \in Threads, PanicStep(t) PROVE HeldInv'
  BY <1>5 DEF PanicStep, Recover, ProcessDies
<1>6. CASE UNCHANGED vars
  BY <1>6 DEF vars
<1> QED BY <1>1, <1>2, <1>3, <1>4, <1>5, <1>6 DEF Next

\* Types and ownership hold in every reachable state.
LEMMA StartInductive == Spec => []StartInv
<1>1. Init => StartInv
  <2> SUFFICES ASSUME Init PROVE StartInv
    OBVIOUS
  <2>1. TypeOK
    BY DEF Init, TypeOK, ThreadType, Idle, Places, Operations
  <2>2. HeldInv
    BY DEF Init, HeldInv, Holds, Idle, HeldPlaces, FreePlaces, StopPlaces
  <2> QED BY <2>1, <2>2 DEF StartInv
<1>2. StartInv /\ [Next]_vars => StartInv'
  BY TypeOKStep, HeldStep DEF StartInv
<1> QED BY <1>1, <1>2, PTL DEF Spec

\* startCoreInProgress admits one goroutine at a time to Core.Start, through StartCore and
\* restartCoreWithConfig alike, whatever stops and panics happen.
THEOREM StartersExclude == Spec => []OneStarter
<1>1. StartInv => OneStarter
  BY DEF StartInv, HeldInv, OneStarter, InCoreStart, HeldPlaces
<1> QED BY <1>1, StartInductive, PTL

-----------------------------------------------------------------------------
(* SafeWhenSerial. *)

Busy(t) == Holds(t) \/ InStop(t)

\* What Core's fields are while t is at a place inside an operation.
FieldsAt(t) ==
  /\ thread[t].at \in {"config", "newBox", "failed"} => ~isRunning /\ instance = NoBox
  /\ thread[t].at \in {"boxStart", "starting", "failClose"}
       => ~isRunning /\ instance # NoBox /\ box[instance] = "new"
  /\ thread[t].at = "starting" => thread[t].box = instance
  /\ thread[t].at \in {"failClear", "stopClear"}
       => ~isRunning /\ instance # NoBox /\ box[instance] = "closed"
  /\ thread[t].at \in {"publish", "stopClose"}
       => ~isRunning /\ instance # NoBox /\ box[instance] = "started"
  /\ thread[t].at = "stopTest"
       => ~isRunning /\ (instance # NoBox => box[instance] = "started")
  /\ Holds(t) /\ thread[t].at \in {"stopIfRunning", "stop", "release"} => TruthfulFlag

Serial == /\ \A t, u \in Threads : Busy(t) /\ Busy(u) => t = u
          /\ \A t \in Threads : thread[t].at # "panicked"
          /\ \A b \in Boxes : box[b] = "started" => b = instance
          /\ (\A t \in Threads : ~Busy(t)) => TruthfulFlag
          /\ \A t \in Threads : Busy(t) => FieldsAt(t)

SerialInv == clean => Serial

\* A step of t leaves the other goroutines where they are.
Others(t) == \A u \in Threads \ {t} : thread'[u] = thread[u]

\* A step between two places inside an operation: t is busy before it, and afterwards
\* the fields are what its new place says or, if it is out, the flag is truthful.
LEMMA BusyStep ==
  ASSUME StartInv, StartInv', Serial, NEW t \in Threads, Busy(t), Others(t),
         thread'[t].at # "panicked",
         \A b \in Boxes : box'[b] = "started" => b = instance',
         Busy(t)' => FieldsAt(t)',
         ~Busy(t)' => TruthfulFlag'
  PROVE  Serial'
<1>1. \A u \in Threads : u # t => ~Busy(u)
  BY DEF Serial
<1>2. \A u \in Threads : u # t => (Busy(u)' <=> Busy(u))
  BY DEF Others, Busy, Holds, InStop
<1>3. \A u \in Threads : u # t => thread'[u].at # "panicked"
  BY DEF Others, Serial
<1> QED BY <1>1, <1>2, <1>3 DEF Serial

\* A step of a goroutine that is outside Core and stays there, Core's fields unchanged.
LEMMA OutsideStep ==
  ASSUME Serial, NEW t \in Threads, ~Busy(t), ~Busy(t)', Others(t),
         thread'[t].at # "panicked", UNCHANGED <<isRunning, instance, box>>
  PROVE  Serial'
<1>1. \A u \in Threads : Busy(u)' <=> Busy(u)
  BY DEF Others, Busy, Holds, InStop
<1>2. TruthfulFlag' <=> TruthfulFlag
  BY DEF TruthfulFlag
<1>3. \A u \in Threads : Busy(u) => (FieldsAt(u)' <=> FieldsAt(u))
  BY <1>2 DEF FieldsAt, Others, Holds
<1> QED BY <1>1, <1>2, <1>3 DEF Serial, Others

\* A goroutine enters Core when nobody else is inside.
LEMMA EntryStep ==
  ASSUME Serial, NEW t \in Threads, \A u \in Threads : u # t => ~Busy(u), Others(t),
         thread'[t].at # "panicked", Busy(t)', FieldsAt(t)',
         \A b \in Boxes : box'[b] = "started" => b = instance'
  PROVE  Serial'
<1>1. \A u \in Threads : u # t => ~Busy(u)'
  BY DEF Others, Busy, Holds, InStop
<1> QED BY <1>1 DEF Serial, Others

\* What GoTo and Return do to one goroutine.
LEMMA GoToPlace ==
  ASSUME thread \in ThreadType, NEW t \in Threads, NEW where, GoTo(t, where)
  PROVE  /\ Others(t) /\ thread'[t].at = where
         /\ thread'[t].held = thread[t].held /\ thread'[t].box = thread[t].box
BY DEF GoTo, Others, ThreadType

\* A goroutine that returns is idle, and the others are where they were.
LEMMA ReturnPlace ==
  ASSUME thread \in ThreadType, NEW t \in Threads, Return(t)
  PROVE  Others(t) /\ thread'[t].at = "idle" /\ ~thread'[t].held /\ thread'[t] = Idle
BY DEF Return, Others, ThreadType, Idle

\* The goroutine that leaves Core.Stop with the core down.
LEMMA AfterStopStep ==
  ASSUME StartInv, StartInv', Serial, NEW t \in Threads, Busy(t),
         thread[t].at \in StopPlaces, NEW failed \in BOOLEAN, AfterStop(t, failed),
         ~isRunning, UNCHANGED <<isRunning, box>>, instance' = NoBox,
         \A b \in Boxes : box[b] # "started"
  PROVE  Serial'
<1>1. Others(t) /\ thread'[t].at \in {"idle", "check", "config", "release"}
  BY GoToPlace, ReturnPlace DEF StartInv, TypeOK, AfterStop
<1>2. TruthfulFlag'
  BY DEF TruthfulFlag
<1>3. FieldsAt(t)'
  BY <1>1, <1>2 DEF FieldsAt
<1> QED BY <1>1, <1>2, <1>3, BusyStep

\* While clean stays true, the goroutine inside Core is alone there.
LEMMA SerialStep == StartInv /\ StartInv' /\ SerialInv /\ [Next]_vars => SerialInv'
<1> SUFFICES ASSUME StartInv, StartInv', SerialInv, [Next]_vars, clean' PROVE Serial'
  BY DEF SerialInv
<1>a. thread \in ThreadType /\ instance \in Boxes \union {NoBox}
      /\ box \in [Boxes -> {"new", "started", "closed"}]
  BY DEF StartInv, TypeOK
<1>b. \A t \in Threads : /\ thread[t].at \in HeldPlaces => Holds(t)
                         /\ thread[t].at \in FreePlaces => ~Busy(t)
  BY DEF StartInv, HeldInv, Busy, InStop, FreePlaces
<1>1. ASSUME NEW t \in Threads, ProcessDies(t) PROVE Serial'
  BY <1>1 DEF ProcessDies, Serial, Busy, Holds, InStop, Idle, TruthfulFlag
<1>2. ASSUME clean, CooldownOver \/ UNCHANGED vars PROVE Serial'
  BY <1>2 DEF CooldownOver, vars, SerialInv, Serial, Busy, Holds, InStop, TruthfulFlag, FieldsAt
<1>3. ASSUME clean, NEW t \in Threads, NEW op \in Operations, Call(t, op) PROVE Serial'
  <2>1. ~Busy(t)
    BY <1>3, <1>b DEF Call, FreePlaces
  <2>2. /\ Others(t) /\ thread'[t].at \in {"check", "claim", "stop"}
        /\ thread'[t].held = FALSE
    BY <1>a, <1>3 DEF Call, Others, ThreadType, Idle
  <2>3. ~Busy(t)'
    BY <2>2 DEF Busy, Holds, InStop
  <2> QED BY <1>3, <2>1, <2>2, <2>3, OutsideStep DEF SerialInv, Call
<1>4. ASSUME clean, NEW t \in Threads, StartStep(t) PROVE Serial'
  <2> USE <1>a, <1>b, <1>4 DEF SerialInv
  <2>a. TruthfulFlag \/ \E u \in Threads : Busy(u)
    BY DEF Serial
  <2>b. thread[t].at \in HeldPlaces => Busy(t) /\ FieldsAt(t)
    BY DEF Serial, Busy
  <2>c. \A b \in Boxes : box[b] = "started" => b = instance
    BY DEF Serial
  <2>1. CASE Check(t)
    <3>1. ~Busy(t)
      BY <2>1 DEF Check, FreePlaces
    <3>2. Others(t) /\ thread'[t].at \in {"idle", "acquire"} /\ ~Busy(t)'
      BY <2>1, <3>1, GoToPlace, ReturnPlace DEF Check, Busy, Holds, InStop
    <3> QED BY <2>1, <3>1, <3>2, OutsideStep DEF Check
  <2>2. CASE Acquire(t)
    <3>1. ~Busy(t)
      BY <2>2 DEF Acquire, FreePlaces
    <3>2. CASE inProgress \/ cooling
      <4>1. Others(t) /\ thread'[t].at = "idle" /\ ~Busy(t)'
        BY <2>2, <3>2, ReturnPlace DEF Acquire, Busy, Holds, InStop
      <4> QED BY <2>2, <3>1, <4>1, OutsideStep DEF Acquire
    <3>3. CASE ~(inProgress \/ cooling)
      <4>1. /\ Others(t) /\ thread'[t].at = "config" /\ thread'[t].held
            /\ ~isRunning /\ \A u \in Threads : u # t => ~Busy(u)
        <5>1. /\ thread' = [thread EXCEPT ![t].at = "config", ![t].held = TRUE]
              /\ clean' = (clean /\ ~isRunning /\ ~Overlaps(t))
          BY <2>2, <3>3, Zenon DEF Acquire
        <5>2. ~isRunning /\ ~Overlaps(t)
          BY <5>1
        <5>3. Others(t) /\ thread'[t].at = "config" /\ thread'[t].held
          BY <5>1 DEF Others, ThreadType
        <5>4. \A u \in Threads : u # t => ~Busy(u)
          BY <5>2 DEF Overlaps, Busy
        <5> QED BY <5>2, <5>3, <5>4
      <4>2. instance = NoBox
        BY <2>a, <3>1, <4>1 DEF TruthfulFlag
      <4>3. Busy(t)' /\ FieldsAt(t)'
        BY <2>2, <4>1, <4>2 DEF Acquire, Busy, Holds, FieldsAt
      <4> QED BY <2>2, <2>c, <4>1, <4>3, EntryStep DEF Acquire
    <3> QED BY <3>2, <3>3
  <2>3. CASE Claim(t)
    <3>1. ~Busy(t)
      BY <2>3 DEF Claim, FreePlaces
    <3>2. CASE inProgress
      <4>1. Others(t) /\ thread'[t].at = "idle" /\ ~Busy(t)'
        BY <2>3, <3>2, ReturnPlace DEF Claim, Busy, Holds, InStop
      <4> QED BY <2>3, <3>1, <4>1, OutsideStep DEF Claim
    <3>3. CASE ~inProgress
      <4>1. /\ Others(t) /\ thread'[t].at = "stopIfRunning" /\ thread'[t].held
            /\ \A u \in Threads : u # t => ~Busy(u)
        <5>1. /\ thread' = [thread EXCEPT ![t].at = "stopIfRunning", ![t].held = TRUE]
              /\ clean' = (clean /\ ~Overlaps(t))
          BY <2>3, <3>3, Zenon DEF Claim
        <5>2. ~Overlaps(t)
          BY <5>1
        <5>3. Others(t) /\ thread'[t].at = "stopIfRunning" /\ thread'[t].held
          BY <5>1 DEF Others, ThreadType
        <5>4. \A u \in Threads : u # t => ~Busy(u)
          BY <5>2 DEF Overlaps, Busy
        <5> QED BY <5>3, <5>4
      <4>2. TruthfulFlag'
        BY <2>3, <2>a, <3>1, <4>1 DEF Claim, TruthfulFlag
      <4>3. Busy(t)' /\ FieldsAt(t)'
        BY <4>1, <4>2 DEF Busy, Holds, FieldsAt
      <4> QED BY <2>3, <2>c, <4>1, <4>3, EntryStep DEF Claim
    <3> QED BY <3>2, <3>3
  <2>4. CASE StopIfRunning(t)
    <3>1. /\ Others(t) /\ thread'[t].at = (IF isRunning THEN "stop" ELSE "config")
          /\ thread'[t].held /\ Busy(t) /\ TruthfulFlag
      BY <2>4, <2>b, GoToPlace DEF StopIfRunning, HeldPlaces, FieldsAt, Holds
    <3>2. TruthfulFlag' /\ Busy(t)'
      BY <2>4, <3>1 DEF StopIfRunning, TruthfulFlag, Busy, Holds
    <3>3. FieldsAt(t)'
      BY <2>4, <3>1, <3>2 DEF StopIfRunning, FieldsAt, TruthfulFlag
    <3> QED BY <2>4, <2>c, <3>1, <3>2, <3>3, BusyStep DEF StopIfRunning
  <2>5. CASE GetConfig(t)
    <3>1. /\ Others(t) /\ thread'[t].at \in {"newBox", "release"}
          /\ Busy(t) /\ ~isRunning /\ instance = NoBox /\ thread'[t].held
      BY <2>5, <2>b, GoToPlace DEF GetConfig, HeldPlaces, FieldsAt, Holds
    <3>2. Busy(t)' /\ FieldsAt(t)'
      BY <2>5, <3>1 DEF GetConfig, FieldsAt, TruthfulFlag, Busy, Holds
    <3> QED BY <2>5, <2>c, <3>1, <3>2, BusyStep DEF GetConfig
  <2>6. CASE NewBox(t)
    <3>1. /\ Others(t) /\ thread'[t].at \in {"boxStart", "failed"} /\ thread'[t].held
          /\ Busy(t) /\ ~isRunning /\ instance = NoBox
      BY <2>6, <2>b, GoToPlace DEF NewBox, HeldPlaces, FieldsAt, Holds
    <3>2. \A b \in Boxes : box[b] # "started"
      BY <2>c, <3>1
    <3>3. Busy(t)' /\ FieldsAt(t)'
      BY <2>6, <3>1, GoToPlace DEF NewBox, FieldsAt, Busy, Holds
    <3>4. \A b \in Boxes : box'[b] # "started"
      BY <2>6, <3>2 DEF NewBox
    <3> QED BY <3>1, <3>3, <3>4, BusyStep
  <2>7. CASE BoxStart(t)
    <3>1. /\ Others(t) /\ thread'[t].at = "starting" /\ thread'[t].held
          /\ thread'[t].box = instance
          /\ Busy(t) /\ ~isRunning /\ instance # NoBox /\ box[instance] = "new"
      BY <2>7, <2>b DEF BoxStart, HeldPlaces, FieldsAt, Holds, Others, ThreadType
    <3>2. Busy(t)' /\ FieldsAt(t)'
      BY <2>7, <3>1 DEF BoxStart, FieldsAt, Busy, Holds
    <3> QED BY <2>7, <2>c, <3>1, <3>2, BusyStep DEF BoxStart
  <2>8. CASE BoxStarted(t)
    <3>1. /\ Others(t) /\ thread'[t].at \in {"publish", "failClose"} /\ thread'[t].held
          /\ thread[t].box = instance
          /\ Busy(t) /\ ~isRunning /\ instance \in Boxes /\ box[instance] = "new"
      BY <2>8, <2>b DEF BoxStarted, HeldPlaces, FieldsAt, Holds, Others, ThreadType
    <3>2. /\ thread'[t].at = "publish" => box' = [box EXCEPT ![instance] = "started"]
          /\ thread'[t].at = "failClose" => box' = box
      BY <2>8, <3>1 DEF BoxStarted, ThreadType
    <3>3. Busy(t)' /\ FieldsAt(t)'
      BY <2>8, <3>1, <3>2 DEF BoxStarted, FieldsAt, Busy, Holds
    <3>4. \A b \in Boxes : box'[b] = "started" => b = instance'
      BY <2>8, <2>c, <3>1, <3>2 DEF BoxStarted
    <3> QED BY <3>1, <3>3, <3>4, BusyStep
  <2>9. CASE FailClose(t)
    <3>1. /\ Busy(t) /\ ~isRunning /\ instance \in Boxes /\ instance # NoBox
      BY <2>9, <2>b DEF FailClose, HeldPlaces, FieldsAt
    <3>2. Others(t) /\ thread'[t].at = "failClear" /\ thread'[t].held
      BY <2>9, <3>1, GoToPlace DEF FailClose, HeldPlaces, Holds
    <3>3. Busy(t)' /\ FieldsAt(t)'
      BY <2>9, <3>1, <3>2 DEF FailClose, FieldsAt, Busy, Holds
    <3>4. \A b \in Boxes : box'[b] = "started" => b = instance'
      BY <2>9, <2>c, <3>1 DEF FailClose
    <3> QED BY <3>1, <3>2, <3>3, <3>4, BusyStep
  <2>10. CASE FailClear(t)
    <3>1. /\ Others(t) /\ thread'[t].at = "failed" /\ thread'[t].held
          /\ Busy(t) /\ ~isRunning /\ instance # NoBox /\ box[instance] = "closed"
      BY <2>10, <2>b, GoToPlace DEF FailClear, HeldPlaces, FieldsAt, Holds
    <3>2. Busy(t)' /\ FieldsAt(t)'
      BY <2>10, <3>1 DEF FailClear, FieldsAt, Busy, Holds
    <3>3. \A b \in Boxes : box'[b] # "started"
      BY <2>10, <2>c, <3>1 DEF FailClear
    <3> QED BY <3>1, <3>2, <3>3, BusyStep
  <2>11. CASE Failed(t)
    <3>1. /\ Others(t) /\ thread'[t].at = "release" /\ thread'[t].held
          /\ Busy(t) /\ ~isRunning /\ instance = NoBox
      BY <2>11, <2>b, GoToPlace DEF Failed, HeldPlaces, FieldsAt, Holds
    <3>2. Busy(t)' /\ FieldsAt(t)'
      BY <2>11, <3>1 DEF Failed, FieldsAt, TruthfulFlag, Busy, Holds
    <3> QED BY <2>11, <2>c, <3>1, <3>2, BusyStep DEF Failed
  <2>12. CASE Publish(t)
    <3>1. /\ Others(t) /\ thread'[t].at = "release" /\ thread'[t].held
          /\ Busy(t) /\ instance # NoBox /\ box[instance] = "started"
      BY <2>12, <2>b, GoToPlace DEF Publish, HeldPlaces, FieldsAt, Holds
    <3>2. Busy(t)' /\ FieldsAt(t)'
      BY <2>12, <3>1 DEF Publish, FieldsAt, TruthfulFlag, Busy, Holds
    <3> QED BY <2>12, <2>c, <3>1, <3>2, BusyStep DEF Publish
  <2>13. CASE Release(t)
    <3>1. /\ Others(t) /\ thread'[t].at = "idle" /\ ~thread'[t].held
          /\ Busy(t) /\ TruthfulFlag
      BY <2>13, <2>b, ReturnPlace DEF Release, HeldPlaces, FieldsAt
    <3>2. ~Busy(t)' /\ TruthfulFlag'
      BY <2>13, <3>1 DEF Release, TruthfulFlag, Busy, Holds, InStop
    <3> QED BY <2>13, <2>c, <3>1, <3>2, BusyStep DEF Release
  <2> QED BY <2>1, <2>2, <2>3, <2>4, <2>5, <2>6, <2>7, <2>8, <2>9, <2>10, <2>11, <2>12,
             <2>13 DEF StartStep
<1>5. ASSUME clean, NEW t \in Threads, StopStep(t) PROVE Serial'
  <2> USE <1>a, <1>b, <1>5 DEF SerialInv
  <2>a. TruthfulFlag \/ \E u \in Threads : Busy(u)
    BY DEF Serial
  <2>b. InStop(t) => Busy(t) /\ FieldsAt(t)
    BY DEF Serial, Busy
  <2>c. \A b \in Boxes : box[b] = "started" => b = instance
    BY DEF Serial
  <2>1. CASE SetNotRunning(t)
    <3>1. /\ Others(t) /\ thread'[t].at = "stopTest"
          /\ \A u \in Threads : u # t => ~Busy(u)
      BY <2>1, GoToPlace DEF SetNotRunning, Overlaps, Busy
    <3>2. TruthfulFlag
      <4>1. CASE Holds(t)
        BY <2>1, <4>1 DEF SetNotRunning, Serial, Busy, FieldsAt
      <4>2. CASE ~Holds(t)
        BY <2>1, <2>a, <3>1, <4>2 DEF SetNotRunning, Busy, InStop
      <4> QED BY <4>1, <4>2
    <3>3. Busy(t)' /\ FieldsAt(t)'
      BY <2>1, <3>1, <3>2 DEF SetNotRunning, Busy, InStop, FieldsAt, TruthfulFlag
    <3> QED BY <2>1, <2>c, <3>1, <3>3, EntryStep DEF SetNotRunning
  <2>2. CASE StopTest(t)
    <3>1. Busy(t) /\ ~isRunning /\ (instance # NoBox => box[instance] = "started")
      BY <2>2, <2>b DEF StopTest, InStop, FieldsAt
    <3>2. CASE instance = NoBox
      <4>1. \A b \in Boxes : box[b] # "started"
        BY <2>c, <3>2
      <4> QED BY <2>2, <3>1, <3>2, <4>1, AfterStopStep DEF StopTest, StopPlaces
    <3>3. CASE instance # NoBox
      <4>1. Others(t) /\ thread'[t].at = "stopClose"
        BY <2>2, <3>3, GoToPlace DEF StopTest
      <4>2. Busy(t)' /\ FieldsAt(t)'
        BY <2>2, <3>1, <3>3, <4>1 DEF StopTest, Busy, InStop, FieldsAt
      <4> QED BY <2>2, <2>c, <3>1, <4>1, <4>2, BusyStep DEF StopTest
    <3> QED BY <3>2, <3>3
  <2>3. CASE StopClose(t)
    <3>1. Busy(t) /\ ~isRunning /\ instance \in Boxes /\ instance # NoBox
      BY <2>3, <2>b DEF StopClose, InStop, FieldsAt
    <3>2. Others(t) /\ thread'[t].at = "stopClear"
      BY <2>3, <3>1, GoToPlace DEF StopClose
    <3>3. Busy(t)' /\ FieldsAt(t)'
      BY <2>3, <3>1, <3>2 DEF StopClose, Busy, InStop, FieldsAt
    <3>4. \A b \in Boxes : box'[b] = "started" => b = instance'
      BY <2>3, <2>c, <3>1 DEF StopClose
    <3> QED BY <3>1, <3>2, <3>3, <3>4, BusyStep
  <2>4. CASE StopClear(t)
    <3>1. Busy(t) /\ ~isRunning /\ instance # NoBox /\ box[instance] = "closed"
      BY <2>4, <2>b DEF StopClear, InStop, FieldsAt
    <3>2. \A b \in Boxes : box[b] # "started"
      BY <2>c, <3>1
    <3> QED BY <2>4, <3>1, <3>2, AfterStopStep DEF StopClear, StopPlaces
  <2> QED BY <1>5, <2>1, <2>2, <2>3, <2>4 DEF StopStep
<1>6. ASSUME clean, NEW t \in Threads, Recover(t) PROVE FALSE
  BY <1>6 DEF Recover, SerialInv, Serial
<1>7. clean \/ \E t \in Threads : ProcessDies(t)
  BY DEF Next, vars, CooldownOver, Call, StartStep, StopStep, PanicStep, Check, Acquire,
         Claim, StopIfRunning, GetConfig, NewBox, BoxStart, BoxStarted, FailClose, FailClear,
         Failed, Publish, Release, SetNotRunning, StopTest, StopClose, StopClear, Recover
<1> QED BY <1>1, <1>2, <1>3, <1>4, <1>5, <1>6, <1>7 DEF Next, PanicStep

\* While no two operations have overlapped where Core cannot bear it, isRunning is
\* truthful, no running box is lost, and no goroutine panics.
THEOREM SerialSafe == Spec => []SafeWhenSerial
<1>1. Init => SerialInv
  BY DEF Init, SerialInv, Serial, Busy, Holds, InStop, Idle, TruthfulFlag
<1>2. SerialInv => SafeWhenSerial
  BY DEF SerialInv, Serial, SafeWhenSerial, Quiet, Busy
<1>3. StartInv /\ SerialInv /\ StartInv' /\ [Next]_vars => SerialInv'
  BY SerialStep
<1> QED BY <1>1, <1>2, <1>3, StartInductive, PTL DEF Spec

-----------------------------------------------------------------------------
\* Connections (Tracker), for any number of connections, inbounds and restarters.

\* An open connection has been accepted by an inbound; it is in the list of those that may
\* outlive it, once its box is gone; before that it is served by the inbound of now, or its
\* tag restarts, or the box closes.
Restarting(t) == \E r \in Restarters : work[r] = [step |-> "removed", tag |-> t]
Kept(c) ==
  Tracker!Open(c) => /\ conn[c].of # 0
                     /\ conn[c].of < first \/ power = "down" => c \in outlives
                     /\ \/ c \in outlives \/ inbound[conn[c].tag] = conn[c].of
                        \/ power = "closing" \/ Restarting(conn[c].tag)
ConnInv == Tracker!TypeOK /\ Tracker!Tracked /\ \A c \in Conns : Kept(c)

\* The phase and the fields of a connection that moves.
LEMMA Moves ==
  ASSUME Tracker!TypeOK, NEW c \in Conns, NEW phase \in {"over", "routed", "ending", "cut"},
           Tracker!Becomes(c, phase)
  PROVE  /\ conn' \in [Conns -> [phase : {"none", "accepted", "routed", "cut", "ending", "over"},
                                 tag : Tags, of : 0..MaxAdds]]
         /\ conn'[c].phase = phase /\ conn'[c].tag = conn[c].tag /\ conn'[c].of = conn[c].of
         /\ \A d \in Conns \ {c} : conn'[d] = conn[d]
BY DEF Tracker!Becomes, Tracker!TypeOK

\* What a sweep does to each connection.
LEMMA Sweeps ==
  ASSUME Tracker!TypeOK, Tracker!Tracked, NEW all \in SUBSET Conns, Tracker!Sweep(all),
           \A c \in all : Tracker!Open(c)
  PROVE  LET S == {c \in all : conn[c].of >= first}
         IN /\ conn' \in [Conns -> [phase : {"none", "accepted", "routed", "cut", "ending", "over"},
                                    tag : Tags, of : 0..MaxAdds]]
            /\ \A c \in Conns : conn'[c].tag = conn[c].tag /\ conn'[c].of = conn[c].of
            /\ \A c \in Conns : Tracker!Open(c)' => Tracker!Open(c) /\ conn'[c] = conn[c]
            /\ \A c \in S : Tracker!Open(c)' => c \in outlives'
            /\ outlives \subseteq outlives' /\ outlives' \subseteq Conns
            /\ tracked' \subseteq Conns /\ Tracker!Tracked'
<1> DEFINE S == {c \in all : conn[c].of >= first}
<1>1. /\ conn' = [c \in Conns |->
                    IF c \in S \intersect tracked THEN [conn[c] EXCEPT !.phase = "cut"]
                                                  ELSE conn[c]]
      /\ tracked' = tracked \ S
      /\ outlives' = outlives \union {c \in S : conn[c].phase = "accepted"}
  BY DEF Tracker!Sweep
<1> HIDE DEF S
<1>2. S \subseteq all
  BY DEF S
<1>3. ASSUME NEW c \in Conns
      PROVE  /\ conn'[c] \in [phase : {"none", "accepted", "routed", "cut", "ending", "over"},
                              tag : Tags, of : 0..MaxAdds]
             /\ conn'[c].tag = conn[c].tag /\ conn'[c].of = conn[c].of
             /\ c \in S \intersect tracked => conn'[c].phase = "cut"
             /\ c \notin S \intersect tracked => conn'[c] = conn[c]
  BY <1>1 DEF Tracker!TypeOK
<1>4. \A c \in Conns :
        Tracker!Open(c)' =>
          Tracker!Open(c) /\ conn'[c] = conn[c] /\ c \notin S \intersect tracked
  BY <1>3 DEF Tracker!Open
<1>5. \A c \in S : Tracker!Open(c)' => c \in outlives'
  BY <1>1, <1>2, <1>4 DEF Tracker!Open, Tracker!Tracked
<1>6. Tracker!Tracked'
  BY <1>1, <1>3 DEF Tracker!Tracked
<1>7. conn' \in [Conns -> [phase : {"none", "accepted", "routed", "cut", "ending", "over"},
                           tag : Tags, of : 0..MaxAdds]]
  BY <1>1, <1>3
<1> QED
  BY <1>1, <1>2, <1>3, <1>4, <1>5, <1>6, <1>7 DEF S, Tracker!TypeOK

\* A step of a connection.
LEMMA ConnStep ==
  ASSUME ConnInv, NEW c \in Conns,
           Tracker!Goes(c) \/ Tracker!HalfEnd(c) \/ \E t \in Tags : Tracker!Accept(c, t)
  PROVE  ConnInv'
<1>a. Tracker!TypeOK /\ Tracker!Tracked /\ \A d \in Conns : Kept(d)
  BY DEF ConnInv
<1>b. UNCHANGED Tracker!Apart
  BY DEF Tracker!Goes, Tracker!Drop, Tracker!Track, Tracker!Fail, Tracker!Close, Tracker!HalfEnd,
     Tracker!Accept
<1>c. UNCHANGED <<inbound, adds, first, power, stops, work, faults>>
  BY <1>b DEF Tracker!Apart
<1>1. ASSUME NEW t \in Tags, Tracker!Accept(c, t) PROVE ConnInv'
  <2>1. /\ conn' = [conn EXCEPT ![c] = [phase |-> "accepted", tag |-> t, of |-> inbound[t]]]
        /\ conn[c].phase = "none" /\ inbound[t] # 0 /\ UNCHANGED <<tracked, outlives>>
    BY <1>1 DEF Tracker!Accept
  <2>2. inbound[t] \in 1..MaxAdds /\ inbound[t] >= first /\ power = "up"
    BY <1>a, <2>1 DEF Tracker!TypeOK
  <2>3. Tracker!TypeOK'
    BY <1>a, <1>c, <2>1, <2>2 DEF Tracker!TypeOK
  <2>4. Tracker!Tracked'
    BY <1>a, <2>1 DEF Tracker!Tracked, Tracker!TypeOK
  <2>5. ASSUME NEW d \in Conns PROVE Kept(d)'
    BY <1>a, <1>c, <2>1, <2>2 DEF Kept, Tracker!Open, Restarting, Tracker!TypeOK
  <2> QED
    BY <2>3, <2>4, <2>5 DEF ConnInv
<1>2. ASSUME NEW phase \in {"over", "routed", "ending"}, Tracker!Becomes(c, phase),
             UNCHANGED outlives,
             phase = "routed" => conn[c].phase = "accepted" /\ tracked' = tracked \union {c},
             phase # "routed" => tracked' = tracked \ {c}
      PROVE  ConnInv'
  <2>1. /\ conn' \in [Conns -> [phase : {"none", "accepted", "routed", "cut", "ending", "over"},
                                tag : Tags, of : 0..MaxAdds]]
        /\ conn'[c].phase = phase /\ conn'[c].tag = conn[c].tag /\ conn'[c].of = conn[c].of
        /\ \A d \in Conns \ {c} : conn'[d] = conn[d]
    BY <1>2, <1>a, Moves
  <2>2. Tracker!TypeOK'
    BY <1>a, <1>c, <1>2, <2>1 DEF Tracker!TypeOK
  <2>3. Tracker!Tracked'
    BY <1>a, <1>2, <2>1 DEF Tracker!Tracked
  <2>4. ASSUME NEW d \in Conns PROVE Kept(d)'
    BY <1>a, <1>c, <1>2, <2>1 DEF Kept, Tracker!Open, Restarting
  <2> QED
    BY <2>2, <2>3, <2>4 DEF ConnInv
<1>3. CASE Tracker!Drop(c)
  <2>1. c \notin tracked
    BY <1>3, <1>a DEF Tracker!Drop, Tracker!Tracked
  <2> QED
    BY <1>3, <2>1, <1>2 DEF Tracker!Drop
<1>4. CASE Tracker!Track(c)
  BY <1>4, <1>2 DEF Tracker!Track
<1>5. CASE Tracker!Fail(c)
  BY <1>5, <1>2 DEF Tracker!Fail
<1>6. CASE Tracker!Close(c)
  <2>1. c \notin tracked
    BY <1>6, <1>a DEF Tracker!Close, Tracker!Tracked
  <2> QED
    BY <1>6, <2>1, <1>2 DEF Tracker!Close
<1>7. CASE Tracker!HalfEnd(c)
  <2>1. UNCHANGED conn /\ tracked' = tracked \ {c} /\ outlives' = outlives \union {c}
    BY <1>7, <1>b DEF Tracker!HalfEnd
  <2> QED
    BY <1>a, <1>c, <2>1 DEF ConnInv, Tracker!TypeOK, Tracker!Tracked, Kept, Tracker!Open,
       Restarting
<1> QED
  BY <1>1, <1>3, <1>4, <1>5, <1>6, <1>7 DEF Tracker!Goes

\* A step that changes inbounds and leaves the connections alone keeps the rest.
LEMMA InboundStep ==
  ASSUME ConnInv, Tracker!TypeOK', UNCHANGED <<conn, tracked>>, outlives \subseteq outlives',
         \A c \in Conns : Tracker!Open(c) /\ c \notin outlives' =>
           /\ ~ (conn[c].of < first' \/ power' = "down")
           /\ \/ inbound'[conn[c].tag] = conn[c].of \/ power' = "closing"
              \/ Restarting(conn[c].tag)'
  PROVE  ConnInv'
BY DEF ConnInv, Tracker!Tracked, Kept, Tracker!Open

\* What TypeOK says of the inbounds.
Rows(in, a, f, b) ==
  /\ in \in [Tags -> 0..MaxAdds] /\ a \in 1..MaxAdds /\ f \in 1..a
  /\ \A t \in Tags : in[t] = 0 \/ (b = "up" /\ in[t] \in f..a)
Work == [Restarters -> [step : {"idle", "removed", "closed"}, tag : Tags]]

\* The types of the inbounds and of the restarters.
LEMMA RowsNow == ASSUME Tracker!TypeOK PROVE Rows(inbound, adds, first, power) /\ work \in Work
BY DEF Tracker!TypeOK, Rows, Work

\* The types are kept by a step that moves inbounds and restarters only.
LEMMA RowType ==
  ASSUME Tracker!TypeOK, UNCHANGED <<conn, tracked>>, Rows(inbound', adds', first', power'),
           work' \in Work,
         power' \in {"up", "closing", "down"}, outlives' \subseteq Conns
  PROVE  Tracker!TypeOK'
BY DEF Tracker!TypeOK, Rows, Work

\* An inbound less, and one more.
LEMMA RowGone ==
  ASSUME Tracker!BoundAssumption, NEW in, NEW a, NEW f, NEW b, Rows(in, a, f, b), NEW t \in Tags
  PROVE  Rows([in EXCEPT ![t] = 0], a, f, b)
<1>1. 0 \in 0..MaxAdds
  BY DEF Tracker!BoundAssumption
<1> QED
  BY <1>1 DEF Rows

\* The types are kept when an inbound is added.
LEMMA RowNew ==
  ASSUME Tracker!BoundAssumption, NEW in, NEW a, NEW f, Rows(in, a, f, "up"), a < MaxAdds,
           NEW t \in Tags
  PROVE  Rows([in EXCEPT ![t] = a + 1], a + 1, f, "up")
<1>1. /\ a + 1 \in 0..MaxAdds /\ a + 1 \in 1..MaxAdds /\ f \in 1..(a + 1) /\ a + 1 \in f..(a + 1)
      /\ \A x \in f..a : x \in f..(a + 1)
  BY DEF Rows, Tracker!BoundAssumption
<1>2. /\ [in EXCEPT ![t] = a + 1] \in [Tags -> 0..MaxAdds]
      /\ \A u \in Tags : [in EXCEPT ![t] = a + 1][u] = IF u = t THEN a + 1 ELSE in[u]
  BY <1>1 DEF Rows
<1> QED
  BY <1>1, <1>2 DEF Rows

\* A step that adds or takes away inbounds, of a core that is up.
LEMMA RowStep ==
  ASSUME Tracker!BoundAssumption, ConnInv,
         \E t \in Tags : \/ Tracker!Edit(t) \/ Tracker!Delete(t)
                         \/ \E r \in Restarters : Tracker!RemoveInbound(r, t)
  PROVE  ConnInv'
<1>a. Tracker!TypeOK /\ Tracker!Tracked /\ \A d \in Conns : Kept(d)
  BY DEF ConnInv
<1>1. PICK t \in Tags : \/ Tracker!Edit(t) \/ Tracker!Delete(t)
                        \/ \E r \in Restarters : Tracker!RemoveInbound(r, t)
  OBVIOUS
<1>2. CASE Tracker!Edit(t) \/ Tracker!Delete(t)
  <2>1. /\ UNCHANGED <<first, power, conn, tracked, work>> /\ power = "up"
        /\ outlives' = outlives \union Tracker!Of(t)
        /\ \A u \in Tags \ {t} : inbound'[u] = inbound[u]
    BY <1>2, <1>a DEF Tracker!Edit, Tracker!Delete, Tracker!Starts, Tracker!TypeOK
  <2>2. Tracker!TypeOK'
    <3>1. Rows(inbound, adds, first, "up") /\ work' \in Work /\ outlives' \subseteq Conns
      BY <1>a, <2>1, RowsNow DEF Tracker!TypeOK, Tracker!Of
    <3>2. Rows(inbound', adds', first', power')
      BY <1>2, <2>1, <3>1, RowGone, RowNew DEF Tracker!Edit, Tracker!Delete, Tracker!Starts
    <3> QED
      BY <1>a, <2>1, <3>1, <3>2, RowType
  <2>3. \A c \in Conns : Tracker!Open(c) /\ c \notin outlives' => conn[c].tag \in Tags \ {t}
    BY <1>a, <2>1 DEF Tracker!Of, Tracker!TypeOK
  <2> QED
    BY <1>a, <2>1, <2>2, <2>3, InboundStep DEF Kept, Restarting
<1>3. ASSUME NEW r \in Restarters, Tracker!RemoveInbound(r, t) PROVE ConnInv'
  <2>1. /\ UNCHANGED <<first, power, conn, tracked, outlives>> /\ power = "up"
        /\ \A u \in Tags \ {t} : inbound'[u] = inbound[u]
        /\ work[r].step = "idle" /\ work'[r] = [step |-> "removed", tag |-> t]
        /\ \A q \in Restarters \ {r} : work'[q] = work[q]
    BY <1>3, <1>a DEF Tracker!RemoveInbound, Tracker!At, Tracker!TypeOK
  <2>2. Tracker!TypeOK'
    <3>1. /\ Rows(inbound, adds, first, "up") /\ outlives' \subseteq Conns
          /\ work' \in Work
      BY <1>3, <1>a, <2>1, RowsNow DEF Tracker!TypeOK, Work, Tracker!RemoveInbound, Tracker!At
    <3>2. Rows(inbound', adds', first', power')
      BY <1>3, <2>1, <3>1, RowGone DEF Tracker!RemoveInbound
    <3> QED
      BY <1>a, <2>1, <3>1, <3>2, RowType
  <2>3. Restarting(t)' /\ \A u : Restarting(u) => Restarting(u)'
    BY <2>1 DEF Restarting
  <2>4. \A c \in Conns : conn[c].tag \in Tags
    BY <1>a DEF Tracker!TypeOK
  <2> QED
    BY <1>a, <2>1, <2>2, <2>3, <2>4, InboundStep DEF Kept
<1> QED
  BY <1>1, <1>2, <1>3

\* RestartInbounds goes on, or is given up.
LEMMA RestartStep ==
  ASSUME Tracker!BoundAssumption, ConnInv, NEW r \in Restarters,
           Tracker!CloseConnByInbound(r) \/ Tracker!AddInbound(r) \/ Tracker!Abort(r)
  PROVE  ConnInv'
<1>a. Tracker!TypeOK /\ Tracker!Tracked /\ \A d \in Conns : Kept(d)
  BY DEF ConnInv
<1> DEFINE tag == work[r].tag
<1>b. tag \in Tags /\ \A c \in Conns : conn[c].tag \in Tags
  BY <1>a DEF Tracker!TypeOK
<1>1. CASE Tracker!CloseConnByInbound(r)
  <2> DEFINE all == {c \in Conns : conn[c].tag = tag /\ Tracker!Open(c)}
  <2>1. /\ work[r].step = "removed" /\ Tracker!Sweep(all)
        /\ work' = [work EXCEPT ![r] = [step |-> "closed", tag |-> tag]]
        /\ UNCHANGED <<inbound, adds, first, power, stops, faults>>
    BY <1>1 DEF Tracker!CloseConnByInbound, Tracker!At
  <2>2. all \in SUBSET Conns /\ \A c \in all : Tracker!Open(c)
    OBVIOUS
  <2>3. /\ conn' \in [Conns -> [phase : {"none", "accepted", "routed", "cut", "ending", "over"},
                                tag : Tags, of : 0..MaxAdds]]
        /\ \A c \in Conns : conn'[c].tag = conn[c].tag /\ conn'[c].of = conn[c].of
        /\ \A c \in Conns : Tracker!Open(c)' => Tracker!Open(c)
        /\ \A c \in {x \in all : conn[x].of >= first} : Tracker!Open(c)' => c \in outlives'
        /\ outlives \subseteq outlives' /\ outlives' \subseteq Conns
        /\ tracked' \subseteq Conns /\ Tracker!Tracked'
    BY <1>a, <2>1, <2>2, Sweeps
  <2>4. ASSUME NEW c \in Conns, Tracker!Open(c)' PROVE c \in all => c \in outlives'
    <3>1. conn[c].of < first \/ conn[c].of >= first
      BY <1>a DEF Tracker!TypeOK
    <3> QED
      BY <2>4, <3>1, <2>3, <1>a DEF Kept
  <2>5. Tracker!TypeOK'
    <3>1. work' \in [Restarters -> [step : {"idle", "removed", "closed"}, tag : Tags]]
      BY <1>a, <1>b, <2>1 DEF Tracker!TypeOK
    <3> HIDE DEF all
    <3> QED
      BY <1>a, <2>1, <2>3, <3>1 DEF Tracker!TypeOK
  <2>6. \A t \in Tags \ {tag} : Restarting(t) => Restarting(t)'
    BY <1>a, <2>1 DEF Restarting, Tracker!TypeOK
  <2>7. ASSUME NEW c \in Conns PROVE Kept(c)'
    <3>1. Tracker!Open(c)' => c \in outlives' \/ conn[c].tag # tag
      BY <2>3, <2>4
    <3> HIDE DEF all, tag
    <3> QED
      BY <3>1, <1>a, <1>b, <2>1, <2>3, <2>6 DEF Kept
  <2> QED
    BY <2>3, <2>5, <2>7 DEF ConnInv
<1>2. CASE Tracker!AddInbound(r)
  <2>1. /\ work[r].step = "closed" /\ power = "up" /\ adds < MaxAdds
        /\ adds' = adds + 1 /\ inbound' = [inbound EXCEPT ![tag] = adds + 1]
        /\ outlives' = outlives \union (IF inbound[tag] = 0 THEN {} ELSE Tracker!Of(tag))
        /\ work' = [work EXCEPT ![r] = [step |-> "idle", tag |-> tag]]
        /\ UNCHANGED <<first, power, stops, conn, tracked, faults>>
    BY <1>2 DEF Tracker!AddInbound, Tracker!Starts, Tracker!At
  <2>2. Tracker!TypeOK'
    <3>1. /\ Rows(inbound, adds, first, "up") /\ outlives' \subseteq Conns
          /\ work' \in Work
      BY <1>a, <1>b, <2>1, RowsNow DEF Tracker!TypeOK, Work, Tracker!Of
    <3>2. Rows(inbound', adds', first', power')
      BY <1>b, <2>1, <3>1, RowNew
    <3> QED
      BY <1>a, <2>1, <3>1, <3>2, RowType
  <2>3. \A t \in Tags : Restarting(t) => Restarting(t)'
    BY <1>a, <2>1 DEF Restarting, Tracker!TypeOK
  <2>4. ASSUME NEW c \in Conns, Tracker!Open(c), c \notin outlives'
        PROVE  /\ ~ (conn[c].of < first' \/ power' = "down")
               /\ inbound'[conn[c].tag] = conn[c].of \/ Restarting(conn[c].tag)'
    <3>1. /\ ~ (conn[c].of < first \/ power = "down") /\ conn[c].of # 0
          /\ inbound[conn[c].tag] = conn[c].of \/ Restarting(conn[c].tag)
      BY <1>a, <2>1, <2>4 DEF Kept
    <3>2. CASE conn[c].tag # tag
      BY <1>a, <1>b, <2>1, <2>3, <3>1, <3>2 DEF Tracker!TypeOK
    <3>3. CASE conn[c].tag = tag
      <4>1. inbound[tag] = 0
        BY <2>1, <2>4, <3>3 DEF Tracker!Of
      <4> QED
        BY <1>b, <2>1, <2>3, <3>1, <3>3, <4>1
    <3> QED
      BY <3>2, <3>3
  <2> QED
    BY <2>1, <2>2, <2>4, InboundStep
<1>3. CASE Tracker!Abort(r)
  <2>1. /\ outlives' = outlives \union (IF work[r].step = "removed" THEN Tracker!Of(tag) ELSE {})
        /\ work' = [work EXCEPT ![r] = [step |-> "idle", tag |-> tag]]
        /\ UNCHANGED <<inbound, adds, first, power, stops, conn, tracked>>
    BY <1>3 DEF Tracker!Abort, Tracker!At
  <2>2. Tracker!TypeOK'
    BY <1>a, <1>b, <2>1 DEF Tracker!TypeOK, Tracker!Of
  <2>3. ASSUME NEW c \in Conns, Tracker!Open(c), c \notin outlives', Restarting(conn[c].tag)
        PROVE  Restarting(conn[c].tag)'
    BY <1>a, <2>1, <2>3 DEF Restarting, Tracker!TypeOK, Tracker!Of
  <2> QED
    BY <1>a, <2>1, <2>2, <2>3, InboundStep DEF Kept
<1> QED
  BY <1>1, <1>2, <1>3

\* The core stops and starts.
LEMMA BoxStep ==
  ASSUME Tracker!BoundAssumption, ConnInv,
           Tracker!CloseInbounds \/ Tracker!Reset \/ Tracker!StartCore
  PROVE  ConnInv'
<1>a. Tracker!TypeOK /\ Tracker!Tracked /\ \A d \in Conns : Kept(d)
  BY DEF ConnInv
<1>1. CASE Tracker!CloseInbounds
  <2>1. Tracker!TypeOK'
    <3>1. 0 \in 0..MaxAdds
      BY DEF Tracker!BoundAssumption
    <3>2. Rows(inbound', adds', first', power') /\ work' \in Work
      BY <1>1, <1>a, <3>1, RowsNow DEF Tracker!CloseInbounds, Rows
    <3> QED
      BY <1>1, <1>a, <3>2, RowType DEF Tracker!CloseInbounds, Tracker!TypeOK
  <2> QED
    BY <1>1, <1>a, <2>1, InboundStep DEF Tracker!CloseInbounds, Kept
<1>2. CASE Tracker!Reset
  <2> DEFINE all == {c \in Conns : Tracker!Open(c)}
  <2>1. /\ power = "closing" /\ power' = "down" /\ Tracker!Sweep(all)
        /\ UNCHANGED <<inbound, adds, first, stops, work, faults>>
    BY <1>2 DEF Tracker!Reset
  <2>2. all \in SUBSET Conns /\ \A c \in all : Tracker!Open(c)
    OBVIOUS
  <2>3. /\ conn' \in [Conns -> [phase : {"none", "accepted", "routed", "cut", "ending", "over"},
                                tag : Tags, of : 0..MaxAdds]]
        /\ \A c \in Conns : conn'[c].tag = conn[c].tag /\ conn'[c].of = conn[c].of
        /\ \A c \in Conns : Tracker!Open(c)' => Tracker!Open(c)
        /\ \A c \in {x \in all : conn[x].of >= first} : Tracker!Open(c)' => c \in outlives'
        /\ outlives \subseteq outlives' /\ outlives' \subseteq Conns
        /\ tracked' \subseteq Conns /\ Tracker!Tracked'
    BY <1>a, <2>1, <2>2, Sweeps
  <2>4. ASSUME NEW c \in Conns, Tracker!Open(c)' PROVE c \in outlives' /\ conn'[c].of # 0
    <3>1. conn[c].of < first \/ conn[c].of >= first
      BY <1>a DEF Tracker!TypeOK
    <3> QED
      BY <2>4, <3>1, <2>3, <1>a DEF Kept
  <2>5. Tracker!TypeOK'
    <3> HIDE DEF all
    <3> QED
      BY <1>a, <2>1, <2>3 DEF Tracker!TypeOK
  <2> QED
    BY <2>3, <2>4, <2>5 DEF ConnInv, Kept
<1>3. CASE Tracker!StartCore
  <2>1. Tracker!TypeOK'
    <3>1. adds \in 1..MaxAdds /\ adds < MaxAdds
      BY <1>3, <1>a DEF Tracker!StartCore, Tracker!TypeOK
    <3>2. adds + 1 \in 0..MaxAdds /\ adds + 1 \in 1..MaxAdds /\ adds + 1 \in (adds + 1)..(adds + 1)
      BY <3>1 DEF Tracker!BoundAssumption
    <3>3. adds + 1 \in 1..(adds + 1)
      BY <3>1
    <3>4. Rows(inbound', adds', first', power') /\ work' \in Work
      BY <1>3, <1>a, <3>2, <3>3, RowsNow DEF Tracker!StartCore, Rows
    <3> QED
      BY <1>3, <1>a, <3>4, RowType DEF Tracker!StartCore, Tracker!TypeOK
  <2> QED
    BY <1>3, <1>a, <2>1, InboundStep DEF Tracker!StartCore, Kept
<1> QED
  BY <1>1, <1>2, <1>3

\* The invariant of the tracker holds at the start.
LEMMA ConnInit ==
  ASSUME Tracker!BoundAssumption, MaxAdds # 0, Tags # {}, Tracker!Init PROVE ConnInv
<1>1. (CHOOSE t \in Tags : TRUE) \in Tags
  OBVIOUS
<1> QED
  BY <1>1 DEF Tracker!BoundAssumption, Tracker!Init, Tracker!Free, Tracker!Idle, ConnInv,
     Tracker!TypeOK, Tracker!Tracked, Kept, Tracker!Open

\* Every step of the tracker keeps it.
LEMMA ConnNext == Tracker!BoundAssumption /\ ConnInv /\ [Tracker!Next]_Tracker!vars => ConnInv'
<1> SUFFICES ASSUME Tracker!BoundAssumption, ConnInv, [Tracker!Next]_Tracker!vars PROVE ConnInv'
  OBVIOUS
<1>1. CASE UNCHANGED Tracker!vars
  BY <1>1 DEF Tracker!vars, ConnInv, Tracker!TypeOK, Tracker!Tracked, Kept, Tracker!Open,
     Restarting
<1> QED
  BY <1>1, ConnStep, RowStep, RestartStep, BoxStep DEF Tracker!Next

\* Connections never outlive their inbound, and the tracker knows them, with the exceptions of
\* Swept and Tracked: whatever restarts, edits, stops and starts do to one another.
THEOREM SweptAlways == Tracker!Spec => [](Tracker!TypeOK /\ Swept)
<1>1. Tracker!Init => ConnInv
  BY TrackerAssumption, ConnInit
<1>2. ConnInv => Tracker!TypeOK /\ Swept
  BY DEF ConnInv, Kept, Tracker!Open, Swept, Tracker!Swept, Restarting
<1>3. ConnInv /\ [Tracker!Next]_Tracker!vars => ConnInv'
  BY TrackerAssumption, ConnNext
<1> QED
  BY <1>1, <1>2, <1>3, PTL DEF Tracker!Spec

-----------------------------------------------------------------------------
\* BoxStages (Stages), for any number of boxes and of stops that overlap.

\* No step of the start, and of the close, of a box has been taken.
NotStarted(b) == \A x \in Stages!Components : stage[b][x] = 0
NotClosed(b) == \A x \in Stages!Components : closes[b][x] = 0
Unused(b) == NotStarted(b) /\ NotClosed(b) /\ b \notin done

\* The start of a box has come to its place k; so has its close.
StartedTo(b, k) ==
  \A i \in 1..56 :
    LET call == Stages!StartList[i] IN
    call.component \in Stages!Of(b) =>
      IF i < k THEN call.to <= stage[b][call.component] ELSE stage[b][call.component] < call.to
ClosedTo(b, k) ==
  \A i \in 1..14 : closes[b][Stages!CloseList[i]] =
                     IF i < k /\ Stages!CloseList[i] \in Stages!Of(b) THEN 1 ELSE 0

\* What takes traffic was started after all it needs.
InOrder(b) ==
  (\E x \in Stages!Faces : stage[b][x] >= 2) => \A y \in Stages!Base \union own[b] : stage[b][y] >= 2

Active(p) == stopper[p].step # "idle"

BoxTypes ==
  /\ Stages!TypeOK /\ closes \in [Stages!AllBoxes -> [Stages!Components -> Nat]]
  /\ stopper \in [Stoppers -> [step : {"idle", "test", "mark", "close", "clear"},
                               box : 0..MaxBoxes, at : 0..15]]

\* An earlier box was never started or has been closed; a later one is unused.
OtherBoxes ==
  \A b \in Stages!AllBoxes : /\ InOrder(b)
                             /\ b < built => Unused(b) \/ (b \in done /\ ClosedTo(b, 15))
                             /\ b > built => Unused(b)

\* What the starter does to the last box; it is alone then.
Starting ==
  /\ pc # "idle" => built # 0 /\ place # 0 /\ ~ reported /\ \A p \in Stoppers : ~ Active(p)
  /\ pc = "build" => /\ present = 0 /\ Unused(built) /\ place <= 24
                     /\ place > 5 => found["inbound"] = built
  /\ pc = "start" => /\ present = built /\ StartedTo(built, place) /\ NotClosed(built)
                     /\ built \notin done /\ place <= 57 /\ found["inbound"] = built
  /\ pc = "close" => present = built /\ built \in done /\ place <= 15 /\ ClosedTo(built, place)

\* The last box at rest: if it is closed, it is to its end or somebody is at it.
Resting ==
  pc = "idle" =>
    /\ present \in {0, built}
    /\ built \in done => ClosedTo(built, 15) \/ \E p \in Stoppers : stopper[p].step = "close"
    /\ built # 0 /\ built \notin done => NotClosed(built) /\ (NotStarted(built) \/ present = built)

\* A stop works on the last box; one closes it.
Stopping ==
  /\ \A p \in Stoppers :
       IF Active(p)
       THEN /\ stopper[p].box = built /\ built # 0 /\ ~ reported
            /\ stopper[p].step \in {"close", "clear"} => built \in done
            /\ stopper[p].step = "close" => stopper[p].at # 0 /\ ClosedTo(built, stopper[p].at)
       ELSE stopper[p] = Stages!Idle
  /\ \A p, q \in Stoppers : stopper[p].step = "close" /\ stopper[q].step = "close" => p = q

Reporting ==
  reported => /\ pc = "idle" /\ present = built /\ built # 0 /\ manager = built
              /\ built \notin done /\ \A x \in Stages!Of(built) : stage[built][x] = 4

BoxInv == BoxTypes /\ OtherBoxes /\ Starting /\ Resting /\ Stopping /\ Reporting

-----------------------------------------------------------------------------
(* The lists. *)

\* The calls of a start: the names, and the stage, of each place.
StartNames ==
  Stages!Optional \o Stages!AllInOrder
  \o <<"outbound", "dns-transport", "dns-router", "network", "connection", "router">>
  \o Stages!Optional \o <<"inbound", "endpoint", "service">>
  \o <<"outbound", "network", "dns-transport", "dns-router", "connection", "router",
       "inbound", "endpoint", "service">>
  \o Stages!Optional \o Stages!AllInOrder \o Stages!Optional

\* The list of a start has 56 places, 14 for each stage.
LEMMA StartPlaces ==
  /\ Len(Stages!StartList) = 56
  /\ \A i \in 1..56 : Stages!StartList[i].to =
       IF i <= 14 THEN 1 ELSE IF i <= 28 THEN 2 ELSE IF i <= 42 THEN 3 ELSE 4
<1>1. Len(Stages!StartList) = 56
  BY DEF Stages!StartList, Stages!PreStart, Stages!Optional, Stages!AllInOrder, Stages!Through
<1>2. \A i \in 1..28 : Stages!StartList[i].to = IF i <= 14 THEN 1 ELSE 2
  BY SMTT(60) DEF Stages!StartList, Stages!PreStart, Stages!Initialize, Stages!Start,
     Stages!PostStart, Stages!Started, Stages!Optional, Stages!AllInOrder, Stages!Through
<1>3. \A i \in 29..56 : Stages!StartList[i].to = IF i <= 42 THEN 3 ELSE 4
  BY SMTT(60) DEF Stages!StartList, Stages!PreStart, Stages!Initialize, Stages!Start,
     Stages!PostStart, Stages!Started, Stages!Optional, Stages!AllInOrder, Stages!Through
<1> QED BY <1>1, <1>2, <1>3

\* The names at its places.
LEMMA StartNamed ==
  \A i \in 1..56 : Stages!StartList[i].component = StartNames[i]
BY SMTT(60) DEF StartNames, Stages!StartList, Stages!PreStart, Stages!Optional, Stages!AllInOrder,
   Stages!Through

\* They are components.
LEMMA StartNamesKnown ==
  \A i \in 1..56 : StartNames[i] \in Stages!Components
BY SMTT(60) DEF StartNames, Stages!Optional, Stages!AllInOrder, Stages!Components, Stages!Managers,
   Stages!Base, Stages!Faces, Stages!Services

\* Each stage has each component once.
LEMMA StartNamesOnce ==
  \A i, j \in 1..56 : i < j /\ StartNames[i] = StartNames[j]
    => \/ i <= 14 /\ 14 < j
       \/ i <= 28 /\ 28 < j
       \/ i <= 42 /\ 42 < j
BY SMTT(60) DEF StartNames, Stages!Optional, Stages!AllInOrder

\* What takes traffic is started after the rest.
LEMMA StartNamesFaces ==
  /\ \A i \in 15..28 : StartNames[i] \in Stages!Faces <=> 26 <= i
BY SMTT(60) DEF StartNames, Stages!Optional, Stages!AllInOrder, Stages!Faces

\* Each stage has every component.
LEMMA StartNamesAll ==
  \A x \in Stages!Components :
    /\ \E i \in 1..14 : StartNames[i] = x
    /\ \E i \in 15..28 : StartNames[i] = x
    /\ \E i \in 29..42 : StartNames[i] = x
    /\ \E i \in 43..56 : StartNames[i] = x
BY SMTT(60) DEF StartNames, Stages!Optional, Stages!AllInOrder, Stages!Components, Stages!Managers,
   Stages!Base, Stages!Faces, Stages!Services

\* Every call is of a component and to a stage.
LEMMA StartOrder ==
  /\ Len(Stages!StartList) = 56
  /\ \A i \in 1..56 : /\ Stages!StartList[i].component \in Stages!Components
                      /\ Stages!StartList[i].to \in 1..4
BY StartPlaces, StartNamed, StartNamesKnown

\* A component goes through its stages one after the other.
LEMMA StartLater ==
  ASSUME NEW i \in 1..56, NEW j \in 1..56,
         i < j, Stages!StartList[i].component = Stages!StartList[j].component
  PROVE  Stages!StartList[i].to < Stages!StartList[j].to
<1>1. StartNames[i] = StartNames[j]
  BY StartNamed, Zenon
<1>2. \/ i <= 14 /\ 14 < j
      \/ i <= 28 /\ 28 < j
      \/ i <= 42 /\ 42 < j
  BY <1>1, StartNamesOnce
<1> QED BY <1>2, StartPlaces

\* Every component is taken to every stage.
LEMMA StartReaches ==
  ASSUME NEW x \in Stages!Components, NEW s \in 1..4
  PROVE  \E i \in 1..56 : Stages!StartList[i].component = x /\ Stages!StartList[i].to = s
<1>1. CASE s = 1
  BY <1>1, StartNamesAll, StartNamed, StartPlaces
<1>2. CASE s = 2
  BY <1>2, StartNamesAll, StartNamed, StartPlaces
<1>3. CASE s = 3
  BY <1>3, StartNamesAll, StartNamed, StartPlaces
<1>4. CASE s = 4
  BY <1>4, StartNamesAll, StartNamed, StartPlaces
<1> QED BY <1>1, <1>2, <1>3, <1>4

\* What takes traffic is started after the rest.
LEMMA FacesLast ==
  \A i \in 1..56 : Stages!StartList[i].to = 2
    => (Stages!StartList[i].component \in Stages!Faces <=> 26 <= i)
<1> SUFFICES ASSUME NEW i \in 1..56, Stages!StartList[i].to = 2
             PROVE  Stages!StartList[i].component \in Stages!Faces <=> 26 <= i
  OBVIOUS
<1>1. i \in 15..28
  BY StartPlaces
<1>2. StartNames[i] \in Stages!Faces <=> 26 <= i
  BY <1>1, StartNamesFaces
<1> QED BY <1>2, StartNamed

\* Of two components, the first is started after the second.
StartsAfter(x, y) ==
  \E i, j \in 1..56 : /\ j < i
                      /\ Stages!StartList[i].component = x /\ Stages!StartList[i].to = 2
                      /\ Stages!StartList[j].component = y /\ Stages!StartList[j].to = 2

\* So each of them is, after each of the rest.
LEMMA StartBefore ==
  ASSUME NEW x \in Stages!Faces, NEW y \in Stages!Components \ Stages!Faces
  PROVE  StartsAfter(x, y)
<1>1. x \in Stages!Components
  BY DEF Stages!Components, Stages!Managers
<1>2. PICK i \in 1..56 : Stages!StartList[i].component = x /\ Stages!StartList[i].to = 2
  BY <1>1, StartReaches
<1>3. PICK j \in 1..56 : Stages!StartList[j].component = y /\ Stages!StartList[j].to = 2
  BY StartReaches
<1>4. 26 <= i
  BY <1>2, FacesLast
<1>5. ~ 26 <= j
  BY <1>3, FacesLast
<1>6. j < i
  BY <1>4, <1>5
<1> QED BY <1>2, <1>3, <1>6 DEF StartsAfter

\* A close goes through every component once, and through what takes traffic first.
LEMMA CloseOrder ==
  /\ Len(Stages!CloseList) = 14
  /\ \A i \in 1..14 : Stages!CloseList[i] \in Stages!Components
  /\ \A i, j \in 1..14 : Stages!CloseList[i] = Stages!CloseList[j] => i = j
  /\ \A x \in Stages!Components : \E i \in 1..14 : Stages!CloseList[i] = x
  /\ \A i \in 1..14 : Stages!CloseList[i] \in Stages!Faces <=> i <= 3
BY DEF Stages!CloseList, Stages!Optional, Stages!Components, Stages!Managers, Stages!Base,
       Stages!Faces, Stages!Services

\* Where the inbounds are registered in a build.
LEMMA BuildOrder ==
  Len(Stages!BuildList) = 23 /\ Stages!BuildList[5] = "inbound"
BY DEF Stages!BuildList

\* The components of a box are components.
LEMMA OfBox ==
  ASSUME BoxTypes, NEW b \in Stages!AllBoxes
  PROVE  /\ Stages!Of(b) \subseteq Stages!Components
         /\ Stages!Base \union own[b] \subseteq Stages!Of(b)
         /\ Stages!Faces \subseteq Stages!Of(b)
         /\ (Stages!Base \union own[b]) \intersect Stages!Faces = {}
         /\ "inbound" \in Stages!Of(b)
BY StagesAssumption DEF Stages!StagesAssumption, BoxTypes, Stages!TypeOK, Stages!Of,
   Stages!Components, Stages!Managers, Stages!Base, Stages!Faces, Stages!Services

-----------------------------------------------------------------------------
(* The properties follow from the invariant. *)

\* Every box is closed up to some place.
LEMMA ClosedSoFar ==
  ASSUME BoxInv, NEW b \in Stages!AllBoxes
  PROVE  \E k \in 1..15 : ClosedTo(b, k)
<1>1. MaxBoxes \in Nat /\ built \in 0..MaxBoxes /\ b \in 1..MaxBoxes /\ pc \in {"idle", "build", "start", "close"}
  BY StagesAssumption DEF Stages!StagesAssumption, BoxInv, BoxTypes, Stages!TypeOK, Stages!AllBoxes
<1>2. NotClosed(b) => ClosedTo(b, 1)
  BY CloseOrder DEF NotClosed, ClosedTo
<1>3. CASE b # built
  BY <1>1, <1>2, <1>3 DEF BoxInv, OtherBoxes, Unused
<1>4. CASE b = built
  <2>1. CASE pc # "idle"
    BY <1>1, <1>2, <1>4, <2>1 DEF BoxInv, Starting, Unused, BoxTypes, Stages!TypeOK
  <2>2. CASE pc = "idle"
    <3>1. CASE built \notin done
      BY <1>1, <1>2, <1>4, <2>2, <3>1 DEF BoxInv, Resting
    <3>2. CASE \E p \in Stoppers : stopper[p].step = "close"
      <4>1. PICK p \in Stoppers : stopper[p].step = "close"
        BY <3>2
      <4>2. stopper[p].at \in 0..15
        BY DEF BoxInv, BoxTypes
      <4>3. stopper[p].at # 0 /\ ClosedTo(built, stopper[p].at)
        BY <4>1 DEF BoxInv, Stopping, Active
      <4> QED BY <1>4, <4>2, <4>3
    <3> QED BY <1>4, <2>2, <3>1, <3>2 DEF BoxInv, Resting
  <2> QED BY <2>1, <2>2
<1> QED BY <1>3, <1>4

\* Nothing is closed twice; and what takes traffic is up only while all it needs is.
LEMMA BoxInvClosed ==
  ASSUME BoxInv
  PROVE  Stages!ClosedOnce /\ Stages!Supported
<1> SUFFICES ASSUME NEW b \in Stages!AllBoxes
             PROVE  /\ \A x \in Stages!Components : closes[b][x] <= 1
                    /\ (\E x \in Stages!Faces : Stages!Up(b, x))
                         => \A y \in Stages!Base \union own[b] : Stages!Up(b, y)
  BY DEF Stages!ClosedOnce, Stages!Supported
<1>1. PICK k \in 1..15 : ClosedTo(b, k)
  BY ClosedSoFar
<1>2. \A x \in Stages!Components : closes[b][x] <= 1
  BY <1>1, CloseOrder DEF ClosedTo
<1>3. ASSUME NEW x \in Stages!Faces, Stages!Up(b, x), NEW y \in Stages!Base \union own[b]
      PROVE  Stages!Up(b, y)
  <2>1. x \in Stages!Of(b) /\ y \in Stages!Of(b) /\ y \notin Stages!Faces
        /\ x \in Stages!Components /\ y \in Stages!Components
    BY OfBox DEF BoxInv
  <2>2. PICK i \in 1..14 : Stages!CloseList[i] = x
    BY <2>1, CloseOrder
  <2>3. PICK j \in 1..14 : Stages!CloseList[j] = y
    BY <2>1, CloseOrder
  <2>4. i <= 3 /\ 3 < j
    BY <2>1, <2>2, <2>3, CloseOrder
  <2>5. closes[b][x] = 0 /\ stage[b][x] >= 2
    BY <1>3 DEF Stages!Up, Stages!Start
  <2>6. k <= i
    BY <1>1, <2>1, <2>2, <2>5 DEF ClosedTo
  <2>7. closes[b][y] = 0
    BY <1>1, <2>3, <2>4, <2>6 DEF ClosedTo
  <2>8. stage[b][y] >= 2
    BY <1>3, <2>5 DEF BoxInv, OtherBoxes, InOrder
  <2> QED BY <2>7, <2>8 DEF Stages!Up, Stages!Start
<1> QED BY <1>2, <1>3

\* A box that nobody holds is down.
LEMMA BoxInvNothingLeft ==
  ASSUME BoxInv
  PROVE  Stages!NothingLeft
<1> SUFFICES ASSUME NEW b \in Stages!AllBoxes, present # b,
                    ~ (pc \in {"build", "start", "close"} /\ built = b),
                    \A p \in Stoppers : stopper[p].box # b,
                    NEW x \in Stages!Of(b)
             PROVE  ~ Stages!Up(b, x)
  BY DEF Stages!NothingLeft
<1>1. MaxBoxes \in Nat /\ built \in 0..MaxBoxes /\ b \in 1..MaxBoxes /\ pc \in {"idle", "build", "start", "close"}
  BY StagesAssumption DEF Stages!StagesAssumption, BoxInv, BoxTypes, Stages!TypeOK, Stages!AllBoxes
<1>2. x \in Stages!Components
  BY OfBox DEF BoxInv
<1>3. NotStarted(b) \/ ClosedTo(b, 15)
  <2>1. CASE b # built
    BY <1>1, <2>1 DEF BoxInv, OtherBoxes, Unused
  <2>2. CASE b = built
    <3>1. pc = "idle"
      BY <1>1, <2>2
    <3>2. \A p \in Stoppers : stopper[p].step # "close"
      BY <2>2 DEF BoxInv, Stopping, Active
    <3> QED BY <1>1, <2>2, <3>1, <3>2 DEF BoxInv, Resting
  <2> QED BY <2>1, <2>2
<1>4. CASE NotStarted(b)
  BY <1>2, <1>4 DEF NotStarted, Stages!Up, Stages!Start
<1>5. CASE ClosedTo(b, 15)
  <2>1. PICK i \in 1..14 : Stages!CloseList[i] = x
    BY <1>2, CloseOrder
  <2>2. closes[b][x] = 1
    BY <1>5, <2>1 DEF ClosedTo
  <2> QED BY <2>2 DEF Stages!Up
<1> QED BY <1>3, <1>4, <1>5

\* The properties, from the invariant.
LEMMA BoxInvMeans ==
  BoxInv => Stages!TypeOK /\ ClosedAsOpened /\ RunningIsWhole
<1> SUFFICES ASSUME BoxInv
             PROVE  Stages!TypeOK /\ ClosedAsOpened /\ RunningIsWhole
  OBVIOUS
<1>1. Stages!TypeOK
  BY DEF BoxInv, BoxTypes
<1>2. ClosedAsOpened
  BY BoxInvClosed, BoxInvNothingLeft DEF ClosedAsOpened
<1>3. RunningIsWhole
  <2> SUFFICES ASSUME reported
               PROVE  /\ present # 0 /\ manager = present
                      /\ \A x \in Stages!Of(present) : stage[present][x] = 4 /\ closes[present][x] = 0
    BY DEF RunningIsWhole, Stages!RunningIsWhole, Stages!Started
  <2>1. /\ pc = "idle" /\ present = built /\ built # 0 /\ manager = built /\ built \notin done
        /\ \A x \in Stages!Of(built) : stage[built][x] = 4
    BY DEF BoxInv, Reporting
  <2>2. built \in Stages!AllBoxes
    BY <2>1, StagesAssumption DEF Stages!StagesAssumption, BoxInv, BoxTypes, Stages!TypeOK,
       Stages!AllBoxes
  <2>3. NotClosed(built)
    BY <2>1 DEF BoxInv, Resting
  <2> QED BY <2>1, <2>2, <2>3, OfBox DEF NotClosed, BoxInv
<1> QED BY <1>1, <1>2, <1>3

-----------------------------------------------------------------------------
(* The steps. *)

\* A box that has not begun to start is at the first place; at the last one it is complete.
LEMMA StartEnds ==
  ASSUME BoxTypes, NEW b \in Stages!AllBoxes
  PROVE  /\ NotStarted(b) => StartedTo(b, 1)
         /\ StartedTo(b, 57) => \A x \in Stages!Of(b) : stage[b][x] = 4
<1>1. NotStarted(b) => StartedTo(b, 1)
  BY StartOrder DEF NotStarted, StartedTo
<1>2. ASSUME StartedTo(b, 57), NEW x \in Stages!Of(b)
      PROVE  stage[b][x] = 4
  <2>1. x \in Stages!Components
    BY OfBox
  <2>2. PICK i \in 1..56 : Stages!StartList[i].component = x /\ Stages!StartList[i].to = 4
    BY <2>1, StartReaches
  <2>3. 4 <= stage[b][x]
    <3>1. i < 57 /\ Stages!StartList[i].component \in Stages!Of(b)
      BY <2>2
    <3>2. Stages!StartList[i].to <= stage[b][Stages!StartList[i].component]
      BY <1>2, <3>1 DEF StartedTo
    <3> QED BY <2>2, <3>2
  <2>4. stage[b][x] \in 0..4
    BY <2>1 DEF BoxTypes, Stages!TypeOK, Stages!Stages
  <2> QED BY <2>3, <2>4
<1> QED BY <1>1, <1>2

\* One more call of a start.
LEMMA StartGoesOn ==
  ASSUME BoxTypes, NEW b \in Stages!AllBoxes, NEW k \in 1..56, StartedTo(b, k),
         LET call == Stages!StartList[k]
         IN stage' = IF call.component \in Stages!Of(b) THEN [stage EXCEPT ![b][call.component] = call.to]
                     ELSE stage,
         own' = own
  PROVE  /\ StartedTo(b, k + 1)' /\ stage' \in [Stages!AllBoxes -> [Stages!Components -> Stages!Stages]]
         /\ \A c \in Stages!AllBoxes : c # b => stage'[c] = stage[c]
<1> DEFINE x == Stages!StartList[k].component
           s == Stages!StartList[k].to
<1>1. x \in Stages!Components /\ s \in 1..4
  BY StartOrder
<1>2. Stages!Of(b)' = Stages!Of(b)
  BY DEF Stages!Of
<1>3. /\ \A y \in Stages!Components :
           stage'[b][y] = IF y = x /\ x \in Stages!Of(b) THEN s ELSE stage[b][y]
      /\ stage' \in [Stages!AllBoxes -> [Stages!Components -> Stages!Stages]]
      /\ \A c \in Stages!AllBoxes : c # b => stage'[c] = stage[c]
  BY <1>1 DEF BoxTypes, Stages!TypeOK, Stages!Stages
<1>4. ASSUME NEW i \in 1..56, Stages!StartList[i].component \in Stages!Of(b)
      PROVE  IF i < k + 1 THEN Stages!StartList[i].to <= stage'[b][Stages!StartList[i].component]
             ELSE stage'[b][Stages!StartList[i].component] < Stages!StartList[i].to
  <2> DEFINE y == Stages!StartList[i].component
             u == Stages!StartList[i].to
  <2>1. y \in Stages!Components /\ u \in 1..4 /\ y \in Stages!Of(b)
    BY <1>4, StartOrder
  <2>2. IF i < k THEN u <= stage[b][y] ELSE stage[b][y] < u
    BY <1>4 DEF StartedTo
  <2>3. (i < k /\ y = x => u < s) /\ (k < i /\ y = x => s < u)
    BY StartLater
  <2>4. i = k => y = x /\ u = s
    OBVIOUS
  <2>5. stage'[b][y] = IF y = x THEN s ELSE stage[b][y]
    BY <1>3, <2>1
  <2> HIDE DEF x, s, y, u
  <2>6. IF i < k + 1 THEN u <= stage'[b][y] ELSE stage'[b][y] < u
    <3>1. CASE y = x
      BY <3>1, <1>1, <2>1, <2>3, <2>4, <2>5
    <3>2. CASE y # x
      <4>1. i # k /\ stage'[b][y] = stage[b][y]
        BY <3>2, <2>4, <2>5
      <4> QED BY <4>1, <2>2
    <3> QED BY <3>1, <3>2
  <2> QED BY <2>6 DEF y, u
<1>5. StartedTo(b, k + 1)'
  BY <1>2, <1>4 DEF StartedTo
<1> QED BY <1>3, <1>5

\* So far as it is started, a box is in order; said of the box after a step.
LEMMA StartInOrder ==
  ASSUME NEW b, NEW k \in 1..57, stage'[b] \in [Stages!Components -> 0..4],
         own'[b] \subseteq Stages!Services, StartedTo(b, k)'
  PROVE  InOrder(b)'
<1> SUFFICES ASSUME NEW x \in Stages!Faces, stage'[b][x] >= 2, NEW y \in Stages!Base \union own'[b]
             PROVE  stage'[b][y] >= 2
  BY DEF InOrder
<1>1. /\ x \in Stages!Of(b)' /\ y \in Stages!Of(b)' /\ y \notin Stages!Faces
      /\ x \in Stages!Components /\ y \in Stages!Components
  BY DEF Stages!Of, Stages!Components, Stages!Managers, Stages!Base, Stages!Faces, Stages!Services
<1>2. PICK i, j \in 1..56 : /\ j < i
                            /\ Stages!StartList[i].component = x /\ Stages!StartList[i].to = 2
                            /\ Stages!StartList[j].component = y /\ Stages!StartList[j].to = 2
  <2>1. y \in Stages!Components \ Stages!Faces
    BY <1>1
  <2>2. StartsAfter(x, y)
    BY <2>1, StartBefore, Zenon
  <2> QED BY <2>2 DEF StartsAfter
<1>3. stage'[b][x] \in 0..4 /\ stage'[b][y] \in 0..4
  BY <1>1
<1>4. i < k
  <2>1. ~ i < k => stage'[b][x] < 2
    BY <1>1, <1>2 DEF StartedTo
  <2> QED BY <1>3, <2>1
<1>5. j < k
  BY <1>2, <1>4
<1>6. 2 <= stage'[b][y]
  BY <1>1, <1>2, <1>5 DEF StartedTo
<1> QED BY <1>3, <1>6

\* One more component of a close.
LEMMA CloseGoesOn ==
  ASSUME BoxTypes, NEW b \in Stages!AllBoxes, NEW k \in 1..14, ClosedTo(b, k),
         LET x == Stages!CloseList[k]
         IN closes' = IF x \in Stages!Of(b) THEN [closes EXCEPT ![b][x] = @ + 1] ELSE closes,
         own' = own
  PROVE  /\ ClosedTo(b, k + 1)' /\ closes' \in [Stages!AllBoxes -> [Stages!Components -> Nat]]
         /\ \A c \in Stages!AllBoxes : c # b => closes'[c] = closes[c]
<1> DEFINE x == Stages!CloseList[k]
<1>1. x \in Stages!Components
  BY CloseOrder
<1>2. Stages!Of(b)' = Stages!Of(b)
  BY DEF Stages!Of
<1>3. /\ \A y \in Stages!Components :
           closes'[b][y] = IF y = x /\ x \in Stages!Of(b) THEN closes[b][x] + 1 ELSE closes[b][y]
      /\ closes' \in [Stages!AllBoxes -> [Stages!Components -> Nat]]
      /\ \A c \in Stages!AllBoxes : c # b => closes'[c] = closes[c]
  BY <1>1 DEF BoxTypes
<1>4. ASSUME NEW i \in 1..14
      PROVE  closes'[b][Stages!CloseList[i]] =
               IF i < k + 1 /\ Stages!CloseList[i] \in Stages!Of(b) THEN 1 ELSE 0
  <2>1. Stages!CloseList[i] \in Stages!Components /\ (Stages!CloseList[i] = x <=> i = k)
    BY CloseOrder
  <2>2. closes[b][Stages!CloseList[i]] = IF i < k /\ Stages!CloseList[i] \in Stages!Of(b) THEN 1 ELSE 0
    BY DEF ClosedTo
  <2> QED BY <1>3, <2>1, <2>2
<1>5. ClosedTo(b, k + 1)'
  BY <1>2, <1>4 DEF ClosedTo
<1> QED BY <1>3, <1>5

\* The bounds of the counters.
LEMMA BoxBounds ==
  ASSUME BoxTypes
  PROVE  /\ MaxBoxes \in Nat /\ built \in 0..MaxBoxes /\ Stages!AllBoxes = 1..MaxBoxes
         /\ place \in 0..60 /\ pc \in {"idle", "build", "start", "close"}
         /\ {present, manager} \subseteq 0..MaxBoxes /\ done \subseteq 1..MaxBoxes
         /\ built # 0 => built \in Stages!AllBoxes
BY StagesAssumption DEF Stages!StagesAssumption, BoxTypes, Stages!TypeOK, Stages!AllBoxes

\* What is said of a box stays true while the box stays as it is.
LEMMA BoxSame ==
  ASSUME NEW b \in Stages!AllBoxes, own'[b] = own[b], stage'[b] = stage[b], closes'[b] = closes[b]
  PROVE  /\ NotStarted(b)' = NotStarted(b) /\ NotClosed(b)' = NotClosed(b)
         /\ \A k : StartedTo(b, k)' = StartedTo(b, k) /\ ClosedTo(b, k)' = ClosedTo(b, k)
         /\ InOrder(b)' = InOrder(b) /\ Stages!Of(b)' = Stages!Of(b)
<1>1. Stages!Of(b)' = Stages!Of(b)
  BY DEF Stages!Of
<1> QED BY <1>1 DEF NotStarted, NotClosed, StartedTo, ClosedTo, InOrder

\* While nobody stops the core, nothing is said of stops.
LEMMA NoStops ==
  ASSUME Stopping, \A p \in Stoppers : ~ Active(p), UNCHANGED stopper
  PROVE  Stopping'
<1>1. \A p \in Stoppers : stopper[p] = Stages!Idle /\ ~ Active(p)' /\ stopper'[p] = stopper[p]
  BY DEF Stopping, Active
<1>2. \A p \in Stoppers : stopper'[p].step # "close"
  BY <1>1 DEF Stages!Idle
<1> QED BY <1>1, <1>2 DEF Stopping, Stages!Idle

\* A start begins: an unused box is the last one, and nobody else is at work on it.
LEMMA BeginBox ==
  ASSUME BoxInv, Stages!Begin
  PROVE  BoxInv'
<1> USE DEF Stages!Begin, Stages!StopperApart
<1>1. /\ MaxBoxes \in Nat /\ built \in 0..MaxBoxes /\ Stages!AllBoxes = 1..MaxBoxes
      /\ built + 1 \in Stages!AllBoxes /\ built' = built + 1
      /\ built # 0 => built \in Stages!AllBoxes
  BY BoxBounds DEF BoxInv
<1>2. ~ reported /\ \A p \in Stoppers : ~ Active(p)
  BY DEF BoxInv, Reporting, Active
<1>3. own' \in [Stages!AllBoxes -> SUBSET Asked]
      /\ \A b \in Stages!AllBoxes : b # built + 1 => own'[b] = own[b]
  BY <1>1 DEF BoxInv, BoxTypes, Stages!TypeOK
<1>4. BoxTypes'
  <2>1. \A p \in Stoppers : stopper[p] = Stages!Idle
    BY <1>2 DEF BoxInv, Stopping
  <2>2. pc' = "build" /\ place' \in 0..60 /\ built' \in 0..MaxBoxes
    BY <1>1 DEF BoxInv, BoxTypes, Stages!TypeOK
  <2> QED BY <1>1, <1>3, <2>1, <2>2 DEF BoxInv, BoxTypes, Stages!TypeOK
<1>5. built # 0 => Unused(built) \/ (built \in done /\ ClosedTo(built, 15))
  BY <1>1, <1>2 DEF BoxInv, Resting, Unused, Active
<1>6. Unused(built)'
  <2>1. Unused(built + 1)
    BY <1>1 DEF BoxInv, OtherBoxes
  <2> QED BY <1>1, <2>1 DEF Unused, NotStarted, NotClosed
<1>7. OtherBoxes'
  <2> SUFFICES ASSUME NEW b \in Stages!AllBoxes
               PROVE  /\ InOrder(b)'
                      /\ b < built + 1 => Unused(b)' \/ (b \in done /\ ClosedTo(b, 15)')
                      /\ b > built + 1 => Unused(b)'
    BY <1>1 DEF OtherBoxes, Stages!AllBoxes
  <2>1. CASE b = built + 1
    <3>1. \A x \in Stages!Faces : stage'[b][x] = 0
      BY <1>1, <1>6, <2>1 DEF Unused, NotStarted, Stages!Components, Stages!Managers
    <3> QED BY <1>1, <2>1, <3>1 DEF InOrder
  <2>2. CASE b # built + 1
    <3>1. /\ NotStarted(b)' = NotStarted(b) /\ NotClosed(b)' = NotClosed(b)
          /\ ClosedTo(b, 15)' = ClosedTo(b, 15) /\ InOrder(b)' = InOrder(b)
      BY <1>3, <2>2, BoxSame
    <3>2. Unused(b)' = Unused(b)
      BY <3>1 DEF Unused
    <3>3. b < built + 1 => b < built \/ b = built
      BY <1>1
    <3> QED BY <1>1, <1>5, <2>2, <3>1, <3>2, <3>3 DEF BoxInv, OtherBoxes
  <2> QED BY <2>1, <2>2
<1>8. Starting'
  BY <1>1, <1>2, <1>6 DEF Starting, Active
<1>9. Stopping'
  BY <1>2, NoStops DEF BoxInv
<1> QED BY <1>2, <1>4, <1>7, <1>8, <1>9 DEF BoxInv, Resting, Reporting

\* A step of the starter that leaves the boxes as they are, and does not end its work.
LEMMA StarterMoves ==
  ASSUME BoxInv, pc # "idle", pc' # "idle",
         UNCHANGED <<built, own, stage, closes, done, reported, stopper>>,
         BoxTypes'
  PROVE  /\ OtherBoxes' /\ Resting' /\ Stopping' /\ Reporting' /\ built \in Stages!AllBoxes
         /\ built # 0 /\ ~ reported' /\ \A p \in Stoppers : ~ Active(p)'
         /\ \A k : /\ StartedTo(built, k)' = StartedTo(built, k)
                   /\ ClosedTo(built, k)' = ClosedTo(built, k)
         /\ NotClosed(built)' = NotClosed(built) /\ Unused(built)' = Unused(built)
<1>1. built # 0 /\ ~ reported' /\ \A p \in Stoppers : ~ Active(p) /\ ~ Active(p)'
  BY DEF BoxInv, Starting, Active
<1>2. built \in Stages!AllBoxes
  BY <1>1, BoxBounds DEF BoxInv
<1>3. \A b \in Stages!AllBoxes :
        /\ NotStarted(b)' = NotStarted(b) /\ NotClosed(b)' = NotClosed(b)
        /\ \A k : StartedTo(b, k)' = StartedTo(b, k) /\ ClosedTo(b, k)' = ClosedTo(b, k)
        /\ InOrder(b)' = InOrder(b) /\ Unused(b)' = Unused(b)
  BY BoxSame DEF Unused
<1>4. OtherBoxes'
  BY <1>3 DEF BoxInv, OtherBoxes, Stages!AllBoxes
<1>5. StartedTo(built, 0)' = StartedTo(built, 0)
  BY <1>2, <1>3
<1>6. Stopping'
  BY <1>1, NoStops DEF BoxInv
<1> QED BY <1>1, <1>2, <1>3, <1>4, <1>6 DEF Resting, Reporting

\* The next thing of a box is made; the inbound manager registers on the way.
LEMMA BuildNextBox ==
  ASSUME BoxInv, Stages!BuildNext
  PROVE  BoxInv'
<1> USE DEF Stages!BuildNext, Stages!StopperApart
<1>0. BoxTypes /\ Starting
  BY DEF BoxInv
<1>1. place \in 1..23 /\ pc' = "build" /\ built # 0 /\ built \in 0..MaxBoxes /\ MaxBoxes \in Nat
  <2>1. place <= 23 /\ place # 0 /\ built # 0
    BY <1>0, BuildOrder DEF Starting
  <2>2. MaxBoxes \in Nat /\ built \in 0..MaxBoxes /\ place \in 0..60
    BY <1>0, BoxBounds, Zenon
  <2>3. place \in 1..23
    BY <2>1, <2>2
  <2> QED BY <2>1, <2>2, <2>3
<1>2. /\ found' \in [Stages!Components -> 0..MaxBoxes]
      /\ \A x \in Stages!Components : found'[x] = found[x] \/ found'[x] = built
  BY <1>1 DEF BoxInv, BoxTypes, Stages!TypeOK
<1>3. BoxTypes'
  BY <1>1, <1>2 DEF BoxInv, BoxTypes, Stages!TypeOK, Stages!AllBoxes
<1>4. place + 1 > 5 => found'["inbound"] = built
  <2>1. "inbound" \in Stages!Of(built) /\ "inbound" \in Stages!Components
    BY DEF Stages!Of, Stages!Components, Stages!Managers, Stages!Faces
  <2>2. CASE place = 5
    BY <2>1, <2>2, BuildOrder DEF BoxInv, BoxTypes, Stages!TypeOK
  <2>3. CASE place # 5
    BY <1>1, <1>2, <2>1, <2>3 DEF BoxInv, Starting
  <2> QED BY <2>2, <2>3
<1>5. /\ OtherBoxes' /\ Resting' /\ Stopping' /\ Reporting' /\ ~ reported'
      /\ \A p \in Stoppers : ~ Active(p)'
      /\ Unused(built)' = Unused(built)
  BY <1>3, StarterMoves
<1>6. Starting'
  <2>1. present = 0 /\ Unused(built)
    BY <1>0 DEF Starting
  <2> QED BY <1>1, <1>4, <1>5, <2>1 DEF Starting
<1> QED BY <1>3, <1>5, <1>6 DEF BoxInv

\* A box that is built goes on to its start, and is the one in place.
LEMMA BuiltBox ==
  ASSUME BoxInv, Stages!Built
  PROVE  BoxInv'
<1> USE DEF Stages!Built, Stages!StopperApart
<1>0. BoxTypes /\ Starting
  BY DEF BoxInv
<1>1. /\ place = 24 /\ built # 0 /\ built \in 0..MaxBoxes /\ MaxBoxes \in Nat
      /\ found["inbound"] = built /\ Unused(built)
  <2>1. /\ place > 23 /\ place <= 24 /\ built # 0 /\ Unused(built)
        /\ place > 5 => found["inbound"] = built
    BY <1>0, BuildOrder DEF Starting
  <2>2. MaxBoxes \in Nat /\ built \in 0..MaxBoxes /\ place \in 0..60
    BY <1>0, BoxBounds, Zenon
  <2>3. place = 24
    BY <2>1, <2>2
  <2> QED BY <2>1, <2>2, <2>3
<1>2. BoxTypes'
  BY <1>1 DEF BoxInv, BoxTypes, Stages!TypeOK, Stages!AllBoxes
<1>3. /\ OtherBoxes' /\ Resting' /\ Stopping' /\ Reporting' /\ built \in Stages!AllBoxes
      /\ ~ reported' /\ \A p \in Stoppers : ~ Active(p)'
      /\ StartedTo(built, 1)' = StartedTo(built, 1) /\ Unused(built)' = Unused(built)
      /\ NotClosed(built)' = NotClosed(built)
  BY <1>2, StarterMoves
<1>4. StartedTo(built, 1)
  BY <1>0, <1>1, <1>3, StartEnds DEF Unused
<1>5. Starting'
  BY <1>1, <1>3, <1>4 DEF Starting, Unused
<1> QED BY <1>2, <1>3, <1>5 DEF BoxInv

\* A step that concerns the last box only.
LEMMA LastBoxMoves ==
  ASSUME BoxTypes, OtherBoxes, built' = built, own' = own,
         \A b \in Stages!AllBoxes : b # built =>
           stage'[b] = stage[b] /\ closes'[b] = closes[b] /\ (b \in done' <=> b \in done),
         built \in Stages!AllBoxes => InOrder(built)'
  PROVE  OtherBoxes'
<1> SUFFICES ASSUME NEW b \in Stages!AllBoxes
             PROVE  /\ InOrder(b)'
                    /\ b < built => Unused(b)' \/ (b \in done /\ ClosedTo(b, 15))'
                    /\ b > built => Unused(b)'
  BY DEF OtherBoxes, Stages!AllBoxes
<1>1. CASE b = built
  BY <1>1, BoxBounds DEF InOrder
<1>2. CASE b # built
  <2>1. /\ NotStarted(b)' = NotStarted(b) /\ NotClosed(b)' = NotClosed(b)
        /\ ClosedTo(b, 15)' = ClosedTo(b, 15) /\ InOrder(b)' = InOrder(b)
    BY <1>2, BoxSame
  <2>2. b \in done' <=> b \in done
    BY <1>2
  <2>3. Unused(b)' = Unused(b)
    BY <2>1, <2>2 DEF Unused
  <2> QED BY <2>1, <2>2, <2>3 DEF OtherBoxes
<1> QED BY <1>1, <1>2

\* A step that leaves the boxes as they are.
LEMMA BoxesStay ==
  ASSUME BoxTypes, OtherBoxes, UNCHANGED <<built, own, stage, closes, done>>
  PROVE  /\ OtherBoxes'
         /\ built # 0 => /\ NotStarted(built)' = NotStarted(built) /\ NotClosed(built)' = NotClosed(built)
                         /\ ClosedTo(built, 15)' = ClosedTo(built, 15)
                         /\ \A k : ClosedTo(built, k)' = ClosedTo(built, k)
                         /\ Unused(built)' = Unused(built) /\ Stages!Of(built)' = Stages!Of(built)
<1>1. \A b \in Stages!AllBoxes :
        /\ NotStarted(b)' = NotStarted(b) /\ NotClosed(b)' = NotClosed(b)
        /\ \A k : ClosedTo(b, k)' = ClosedTo(b, k)
        /\ InOrder(b)' = InOrder(b) /\ Unused(b)' = Unused(b) /\ Stages!Of(b)' = Stages!Of(b)
  BY BoxSame DEF Unused
<1>2. OtherBoxes'
  BY <1>1 DEF OtherBoxes, Stages!AllBoxes
<1>3. built # 0 => built \in Stages!AllBoxes
  BY BoxBounds
<1> QED BY <1>1, <1>2, <1>3

\* A build that fails leaves a box that was never started.
LEMMA BuildFailsBox ==
  ASSUME BoxInv, Stages!BuildFails
  PROVE  BoxInv'
<1> USE DEF Stages!BuildFails, Stages!StopperApart
<1>0. BoxTypes /\ OtherBoxes /\ Starting /\ Stopping
  BY DEF BoxInv
<1>1. /\ built # 0 /\ ~ reported /\ \A p \in Stoppers : ~ Active(p)
      /\ present = 0 /\ NotStarted(built) /\ NotClosed(built) /\ built \notin done
  BY <1>0 DEF Starting, Unused
<1>2. BoxTypes'
  BY <1>0 DEF BoxTypes, Stages!TypeOK, Stages!AllBoxes
<1>3. OtherBoxes' /\ NotStarted(built)' /\ NotClosed(built)'
  BY <1>0, <1>1, BoxesStay
<1>4. Stopping'
  BY <1>0, <1>1, NoStops
<1> QED BY <1>1, <1>2, <1>3, <1>4 DEF BoxInv, Starting, Resting, Reporting

\* One more call of a start: the box comes one place further.
LEMMA StageNextBox ==
  ASSUME BoxInv, Stages!StageNext
  PROVE  BoxInv'
<1>0. BoxTypes /\ OtherBoxes /\ Starting /\ Stopping
  BY DEF BoxInv
<1>1. /\ pc = "start" /\ place <= Len(Stages!StartList) /\ place' = place + 1
      /\ UNCHANGED <<pc, built, own, closes, done, found, present, reported, manager, stopper, panicked>>
  BY DEF Stages!StageNext, Stages!StopperApart
<1>2. /\ built # 0 /\ place # 0 /\ ~ reported /\ \A p \in Stoppers : ~ Active(p)
      /\ present = built /\ StartedTo(built, place) /\ NotClosed(built)
      /\ built \notin done /\ found["inbound"] = built
  BY <1>0, <1>1 DEF Starting
<1>3. place \in 1..56
  <2>1. place <= 56
    BY <1>1, StartOrder
  <2>2. place \in 0..60
    BY <1>0, BoxBounds, Zenon
  <2> QED BY <1>2, <2>1, <2>2
<1>4. PICK b \in Stages!AllBoxes : b = built
  BY <1>0, <1>2, BoxBounds, Zenon
<1>5. PICK k \in 1..56 : k = place
  BY <1>3
<1>6. /\ StartedTo(b, k + 1)'
      /\ stage' \in [Stages!AllBoxes -> [Stages!Components -> Stages!Stages]]
      /\ \A c \in Stages!AllBoxes : c # b => stage'[c] = stage[c]
  <2>1. /\ StartedTo(b, k) /\ own' = own
        /\ LET call == Stages!StartList[k]
           IN stage' = IF call.component \in Stages!Of(b)
                       THEN [stage EXCEPT ![b][call.component] = call.to] ELSE stage
    BY <1>1, <1>2, <1>4, <1>5 DEF Stages!StageNext
  <2> QED BY <1>0, <2>1, StartGoesOn
<1>7. /\ k + 1 \in 1..57 /\ place' = k + 1 /\ built' = b
      /\ place' # 0 /\ place' <= 57
  BY <1>1, <1>4, <1>5
<1>8. StartedTo(built, place)'
  BY <1>6, <1>7 DEF StartedTo
<1>9. BoxTypes'
  BY <1>0, <1>1, <1>3, <1>6 DEF BoxTypes, Stages!TypeOK, Stages!AllBoxes
<1>10. InOrder(b)'
  <2>1. stage'[b] \in [Stages!Components -> 0..4] /\ own'[b] \subseteq Stages!Services
    BY <1>9, StagesAssumption DEF Stages!StagesAssumption, BoxTypes, Stages!TypeOK, Stages!Stages,
       Stages!AllBoxes
  <2> QED BY <2>1, <1>6, <1>7, StartInOrder
<1>11. OtherBoxes'
  BY <1>0, <1>1, <1>4, <1>6, <1>10, LastBoxMoves
<1>12. Stopping'
  BY <1>0, <1>1, <1>2, NoStops
<1>13. NotClosed(built)'
  BY <1>1, <1>2 DEF NotClosed
<1>14. Starting'
  BY <1>1, <1>2, <1>7, <1>8, <1>13 DEF Starting, Active
<1> QED BY <1>1, <1>2, <1>9, <1>11, <1>12, <1>14 DEF BoxInv, Resting, Reporting

\* A call of a start fails: the box is closed from the first place on.
LEMMA StageFailsBox ==
  ASSUME BoxInv, Stages!StageFails
  PROVE  BoxInv'
<1>0. BoxTypes /\ OtherBoxes /\ Starting /\ Stopping
  BY DEF BoxInv
<1>1. /\ pc = "start" /\ pc' = "close" /\ place' = 1 /\ done' = done \union {built}
      /\ UNCHANGED <<built, own, stage, closes, found, present, reported, manager, stopper, panicked>>
  BY DEF Stages!StageFails, Stages!StopperApart
<1>2. /\ built # 0 /\ ~ reported /\ \A p \in Stoppers : ~ Active(p)
      /\ present = built /\ NotClosed(built)
  BY <1>0, <1>1 DEF Starting
<1>3. built \in Stages!AllBoxes /\ Stages!AllBoxes = 1..MaxBoxes
  BY <1>0, <1>2, BoxBounds, Zenon
<1>4. BoxTypes'
  BY <1>0, <1>1, <1>3 DEF BoxTypes, Stages!TypeOK
<1>5. InOrder(built)'
  BY <1>0, <1>1, <1>3 DEF OtherBoxes, InOrder
<1>6. OtherBoxes'
  BY <1>0, <1>1, <1>3, <1>5, LastBoxMoves
<1>7. ClosedTo(built, 1)'
  BY <1>1, <1>2, CloseOrder DEF ClosedTo, NotClosed
<1>8. Stopping'
  BY <1>0, <1>1, <1>2, NoStops
<1>9. Starting'
  BY <1>1, <1>2, <1>7 DEF Starting, Active
<1> QED BY <1>1, <1>2, <1>4, <1>6, <1>8, <1>9 DEF BoxInv, Resting, Reporting

\* One more call of the close after a failed start.
LEMMA CloseNextBox ==
  ASSUME BoxInv, Stages!CloseNext
  PROVE  BoxInv'
<1>0. BoxTypes /\ OtherBoxes /\ Starting /\ Stopping
  BY DEF BoxInv
<1>1. /\ pc = "close" /\ place <= Len(Stages!CloseList) /\ place' = place + 1
      /\ UNCHANGED <<pc, built, own, stage, done, found, present, reported, manager, stopper, panicked>>
  BY DEF Stages!CloseNext, Stages!StopperApart
<1>2. /\ built # 0 /\ place # 0 /\ ~ reported /\ \A p \in Stoppers : ~ Active(p)
      /\ present = built /\ built \in done /\ ClosedTo(built, place)
  BY <1>0, <1>1 DEF Starting
<1>3. place \in 1..14
  <2>1. place <= 14
    BY <1>1, CloseOrder
  <2>2. place \in 0..60
    BY <1>0, BoxBounds, Zenon
  <2> QED BY <1>2, <2>1, <2>2
<1>4. PICK b \in Stages!AllBoxes : b = built
  BY <1>0, <1>2, BoxBounds, Zenon
<1>5. PICK k \in 1..14 : k = place
  BY <1>3
<1>6. /\ ClosedTo(b, k + 1)'
      /\ closes' \in [Stages!AllBoxes -> [Stages!Components -> Nat]]
      /\ \A c \in Stages!AllBoxes : c # b => closes'[c] = closes[c]
  <2>1. /\ ClosedTo(b, k) /\ own' = own
        /\ LET x == Stages!CloseList[k]
           IN closes' = IF x \in Stages!Of(b) THEN [closes EXCEPT ![b][x] = @ + 1] ELSE closes
    BY <1>1, <1>2, <1>4, <1>5 DEF Stages!CloseNext
  <2> QED BY <1>0, <2>1, CloseGoesOn
<1>7. k + 1 \in 1..15 /\ place' = k + 1 /\ built' = b
  BY <1>1, <1>4, <1>5
<1>8. ClosedTo(built, place)'
  BY <1>6, <1>7 DEF ClosedTo
<1>9. BoxTypes'
  BY <1>0, <1>1, <1>3, <1>6 DEF BoxTypes, Stages!TypeOK, Stages!AllBoxes
<1>10. InOrder(b)'
  BY <1>0, <1>1 DEF OtherBoxes, InOrder
<1>11. OtherBoxes'
  BY <1>0, <1>1, <1>4, <1>6, <1>10, LastBoxMoves
<1>12. Stopping'
  BY <1>0, <1>1, <1>2, NoStops
<1>13. Starting'
  BY <1>1, <1>2, <1>7, <1>8 DEF Starting, Active
<1> QED BY <1>1, <1>2, <1>9, <1>11, <1>12, <1>13 DEF BoxInv, Resting, Reporting

\* That close is at its end: the box is closed whole, and dropped.
LEMMA FailedStartBox ==
  ASSUME BoxInv, Stages!FailedStart
  PROVE  BoxInv'
<1>0. BoxTypes /\ OtherBoxes /\ Starting /\ Stopping
  BY DEF BoxInv
<1>1. /\ pc = "close" /\ place > Len(Stages!CloseList) /\ present' = 0 /\ pc' = "idle" /\ place' = 0
      /\ UNCHANGED <<built, own, stage, closes, done, found, reported, manager, stopper, panicked>>
  BY DEF Stages!FailedStart, Stages!StopperApart
<1>2. /\ built # 0 /\ ~ reported /\ \A p \in Stoppers : ~ Active(p)
      /\ built \in done /\ ClosedTo(built, place) /\ place <= 15
  BY <1>0, <1>1 DEF Starting
<1>3. place = 15
  <2>1. place > 14
    BY <1>1, CloseOrder
  <2>2. place \in 0..60
    BY <1>0, BoxBounds, Zenon
  <2> QED BY <1>2, <2>1, <2>2
<1>4. BoxTypes'
  BY <1>0, <1>1, BoxBounds DEF BoxTypes, Stages!TypeOK, Stages!AllBoxes
<1>5. OtherBoxes' /\ ClosedTo(built, 15)'
  BY <1>0, <1>1, <1>2, <1>3, BoxesStay
<1>6. Stopping'
  BY <1>0, <1>1, <1>2, NoStops
<1> QED BY <1>1, <1>2, <1>4, <1>5, <1>6 DEF BoxInv, Starting, Resting, Reporting

\* A start is at its end: every component has come to the last stage.
LEMMA PublishBox ==
  ASSUME BoxInv, Stages!Publish
  PROVE  BoxInv'
<1>0. BoxTypes /\ OtherBoxes /\ Starting /\ Stopping
  BY DEF BoxInv
<1>1. /\ pc = "start" /\ place > Len(Stages!StartList) /\ manager' = found["inbound"]
      /\ reported' = TRUE /\ pc' = "idle" /\ place' = 0
      /\ UNCHANGED <<built, own, stage, closes, done, found, present, stopper, panicked>>
  BY DEF Stages!Publish, Stages!StopperApart
<1>2. /\ built # 0 /\ \A p \in Stoppers : ~ Active(p)
      /\ present = built /\ StartedTo(built, place) /\ NotClosed(built)
      /\ built \notin done /\ place <= 57 /\ found["inbound"] = built
  BY <1>0, <1>1 DEF Starting
<1>3. place = 57
  <2>1. place > 56
    BY <1>1, StartOrder
  <2>2. place \in 0..60
    BY <1>0, BoxBounds, Zenon
  <2> QED BY <1>2, <2>1, <2>2
<1>4. MaxBoxes \in Nat /\ built \in 0..MaxBoxes /\ built \in Stages!AllBoxes
  BY <1>0, <1>2, BoxBounds, Zenon
<1>5. BoxTypes'
  BY <1>0, <1>1, <1>2, <1>4 DEF BoxTypes, Stages!TypeOK, Stages!AllBoxes
<1>6. OtherBoxes' /\ NotClosed(built)'
  BY <1>0, <1>1, <1>2, BoxesStay
<1>7. Stopping'
  BY <1>0, <1>1, <1>2, NoStops
<1>8. \A x \in Stages!Of(built)' : stage'[built][x] = 4
  <2>1. \A x \in Stages!Of(built) : stage[built][x] = 4
    BY <1>0, <1>2, <1>3, <1>4, StartEnds
  <2>2. Stages!Of(built)' = Stages!Of(built)
    BY <1>1 DEF Stages!Of
  <2> QED BY <1>1, <2>1, <2>2
<1>9. Resting' /\ Reporting' /\ Starting'
  BY <1>1, <1>2, <1>6, <1>8 DEF Starting, Resting, Reporting
<1> QED BY <1>5, <1>6, <1>7, <1>9 DEF BoxInv

\* What one stop does: the others stay as they are, and so do the boxes but for the last one.
LEMMA StopBox ==
  ASSUME BoxInv, NEW p \in Stoppers, Stages!Stop(p)
  PROVE  BoxInv'
<1>0. BoxTypes /\ OtherBoxes /\ Starting /\ Stopping /\ Resting
  BY DEF BoxInv
<1>1. /\ pc = "idle" /\ stopper[p].step = "idle" /\ reported' = FALSE
      /\ stopper' = (IF present = 0 THEN stopper
                     ELSE [stopper EXCEPT ![p] = [step |-> "test", box |-> present, at |-> 0]])
      /\ UNCHANGED <<pc, place, built, own, stage, closes, done, found, present, manager, panicked>>
  BY DEF Stages!Stop, Stages!StarterApart, Stages!Step
<1>2. present \in {0, built}
  BY <1>0, <1>1 DEF Resting
<1>3. MaxBoxes \in Nat /\ built \in 0..MaxBoxes /\ done \subseteq 1..MaxBoxes
  BY <1>0, BoxBounds, Zenon
<1>4. \A q \in Stoppers :
        /\ q # p \/ present = 0 => stopper'[q] = stopper[q]
        /\ q = p /\ present # 0 => stopper'[q] = [step |-> "test", box |-> built, at |-> 0]
  BY <1>0, <1>1, <1>2 DEF BoxTypes
<1>5. BoxTypes'
  <2>1. stopper' \in [Stoppers -> [step : {"idle", "test", "mark", "close", "clear"},
                                   box : 0..MaxBoxes, at : 0..15]]
    BY <1>0, <1>1, <1>2, <1>3 DEF BoxTypes
  <2>2. \A q \in Stoppers : stopper'[q] = Stages!Idle \/ stopper'[q].box \in 1..built
    BY <1>0, <1>2, <1>3, <1>4 DEF BoxTypes, Stages!TypeOK
  <2> QED BY <1>0, <1>1, <2>1, <2>2 DEF BoxTypes, Stages!TypeOK
<1>6. /\ OtherBoxes'
      /\ built # 0 => /\ NotStarted(built)' = NotStarted(built) /\ NotClosed(built)' = NotClosed(built)
                      /\ \A k : ClosedTo(built, k)' = ClosedTo(built, k)
  BY <1>0, <1>1, BoxesStay
<1>7. \A q \in Stoppers : stopper'[q].step = "close" <=> stopper[q].step = "close"
  BY <1>1, <1>4
<1>8. Resting'
  <2>1. built \in done => built # 0
    BY <1>3
  <2>2. built \in done => \/ ClosedTo(built, 15)'
                          \/ \E q \in Stoppers : stopper'[q].step = "close"
    BY <1>0, <1>1, <1>6, <1>7, <2>1 DEF Resting
  <2>3. built # 0 /\ built \notin done => NotClosed(built)' /\ (NotStarted(built)' \/ present = built)
    BY <1>0, <1>1, <1>6 DEF Resting
  <2> QED BY <1>1, <1>2, <2>2, <2>3 DEF Resting
<1>9. Stopping'
  <2>1. ASSUME NEW q \in Stoppers
        PROVE  IF Active(q)'
               THEN /\ stopper'[q].box = built /\ built # 0 /\ ~ reported'
                    /\ stopper'[q].step \in {"close", "clear"} => built \in done
                    /\ stopper'[q].step = "close" =>
                         stopper'[q].at # 0 /\ ClosedTo(built, stopper[q].at)
               ELSE stopper'[q] = Stages!Idle
    BY <1>0, <1>1, <1>2, <1>4 DEF Stopping, Active
  <2> QED BY <1>0, <1>1, <1>4, <1>6, <1>7, <2>1 DEF Stopping, Active
<1> QED BY <1>1, <1>5, <1>6, <1>8, <1>9 DEF BoxInv, Starting, Reporting

\* While a stop is at work the starter is not, and the stop works on the last box.
LEMMA AtWork ==
  ASSUME BoxInv, NEW p \in Stoppers, Active(p)
  PROVE  /\ pc = "idle" /\ built # 0 /\ built \in Stages!AllBoxes /\ Stages!AllBoxes = 1..MaxBoxes
         /\ ~ reported /\ stopper[p].box = built /\ present \in {0, built}
         /\ stopper[p].step \in {"close", "clear"} => built \in done
         /\ stopper[p].step = "close" => /\ stopper[p].at \in 1..15
                                         /\ ClosedTo(built, stopper[p].at)
                                         /\ \A q \in Stoppers \ {p} : stopper[q].step # "close"
<1>1. pc = "idle"
  BY DEF BoxInv, Starting
<1>2. built # 0 /\ ~ reported /\ stopper[p].box = built
  BY DEF BoxInv, Stopping
<1>3. built \in Stages!AllBoxes /\ Stages!AllBoxes = 1..MaxBoxes
  BY <1>2, BoxBounds DEF BoxInv
<1>4. stopper[p].at \in 0..15
  BY DEF BoxInv, BoxTypes
<1> QED BY <1>1, <1>2, <1>3, <1>4 DEF BoxInv, Stopping, Resting

\* A step of a stop that does not change the last box.
LEMMA StopMoves ==
  ASSUME BoxInv, NEW p \in Stoppers, Active(p),
         NEW s \in [step : {"idle", "test", "mark", "close", "clear"}, box : 0..MaxBoxes, at : 0..15],
         stopper' = [stopper EXCEPT ![p] = s],
         IF s.step = "idle" THEN s = Stages!Idle
         ELSE s.box = built /\ s.step # "close" /\ (s.step = "clear" => built \in done),
         UNCHANGED <<pc, place, built, own, stage, closes, done, found, manager, reported>>,
         panicked' \in BOOLEAN, present' = present \/ (present' = 0 /\ built \in done),
         stopper[p].step = "close" => ClosedTo(built, 15)
  PROVE  BoxInv'
<1>0. BoxTypes /\ OtherBoxes /\ Stopping /\ Resting
  BY DEF BoxInv
<1>1. /\ pc = "idle" /\ built # 0 /\ built \in Stages!AllBoxes /\ Stages!AllBoxes = 1..MaxBoxes
      /\ ~ reported /\ present \in {0, built}
  BY AtWork
<1>2. /\ stopper'[p] = s /\ \A q \in Stoppers \ {p} : stopper'[q] = stopper[q]
      /\ stopper' \in [Stoppers -> [step : {"idle", "test", "mark", "close", "clear"},
                                    box : 0..MaxBoxes, at : 0..15]]
  BY <1>0 DEF BoxTypes
<1>3. BoxTypes'
  <2>1. MaxBoxes \in Nat /\ built \in 1..MaxBoxes /\ built \in 1..built
    BY <1>0, <1>1, BoxBounds
  <2>2. \A q \in Stoppers : stopper'[q] = Stages!Idle \/ stopper'[q].box \in 1..built
    BY <1>0, <1>2, <2>1 DEF BoxTypes, Stages!TypeOK
  <2>3. {present', manager'} \subseteq 0..MaxBoxes /\ {reported', panicked'} \subseteq BOOLEAN
    BY <1>0, <1>1, <2>1 DEF BoxTypes, Stages!TypeOK
  <2> QED BY <1>0, <1>2, <2>2, <2>3 DEF BoxTypes, Stages!TypeOK
<1>4. /\ OtherBoxes'
      /\ NotStarted(built)' = NotStarted(built) /\ NotClosed(built)' = NotClosed(built)
      /\ \A k : ClosedTo(built, k)' = ClosedTo(built, k)
  BY <1>0, <1>1, BoxesStay
<1>5. Resting'
  <2>1. built \in done => \/ ClosedTo(built, 15)'
                          \/ \E q \in Stoppers : stopper'[q].step = "close"
    <3>1. CASE stopper[p].step = "close"
      BY <1>4, <3>1
    <3>2. CASE stopper[p].step # "close"
      BY <1>0, <1>1, <1>2, <1>4, <3>2 DEF Resting
    <3> QED BY <3>1, <3>2
  <2>2. built \notin done => NotClosed(built)' /\ (NotStarted(built)' \/ present' = built)
    BY <1>0, <1>1, <1>4 DEF Resting
  <2> QED BY <1>1, <2>1, <2>2 DEF Resting
<1>6. s.step # "close"
  BY DEF Stages!Idle
<1>7. Stopping'
  <2>1. ASSUME NEW q \in Stoppers
        PROVE  IF Active(q)'
               THEN /\ stopper'[q].box = built /\ built # 0 /\ ~ reported'
                    /\ stopper'[q].step \in {"close", "clear"} => built \in done
                    /\ stopper'[q].step = "close" =>
                         stopper'[q].at # 0 /\ ClosedTo(built, stopper[q].at)
               ELSE stopper'[q] = Stages!Idle
    <3>1. CASE q = p
      BY <1>1, <1>2, <1>6, <3>1 DEF Active
    <3>2. CASE q # p
      BY <1>0, <1>1, <1>2, <3>2 DEF Stopping, Active
    <3> QED BY <3>1, <3>2
  <2>2. \A q \in Stoppers : stopper'[q].step = "close" => q # p /\ stopper'[q] = stopper[q]
    BY <1>2, <1>6
  <2> QED BY <1>0, <1>4, <2>1, <2>2 DEF Stopping, Active
<1> QED BY <1>1, <1>3, <1>4, <1>5, <1>7 DEF BoxInv, Starting, Reporting

\* A stop looks whether the box is closed already.
LEMMA CloseTestBox ==
  ASSUME BoxInv, NEW p \in Stoppers, Stages!CloseTest(p)
  PROVE  BoxInv'
<1>1. /\ stopper[p].step = "test"
      /\ stopper' = [stopper EXCEPT ![p] =
                       [stopper[p] EXCEPT !.step = IF stopper[p].box \in done THEN "clear" ELSE "mark"]]
      /\ UNCHANGED <<pc, place, built, own, stage, closes, done, found, manager, present, reported,
                     panicked>>
  BY DEF Stages!CloseTest, Stages!StarterApart, Stages!Step
<1>2. Active(p) /\ stopper[p].step # "close"
  BY <1>1 DEF Active
<1>3. stopper[p].box = built
  BY <1>2, AtWork
<1> DEFINE s == [stopper[p] EXCEPT !.step = IF built \in done THEN "clear" ELSE "mark"]
<1>4. /\ s \in [step : {"idle", "test", "mark", "close", "clear"}, box : 0..MaxBoxes, at : 0..15]
      /\ s.step = (IF built \in done THEN "clear" ELSE "mark") /\ s.box = built
  BY <1>3 DEF BoxInv, BoxTypes
<1>5. panicked' \in BOOLEAN
  BY <1>1 DEF BoxInv, BoxTypes, Stages!TypeOK
<1>6. stopper' = [stopper EXCEPT ![p] = s]
  BY <1>1, <1>3
<1> HIDE DEF s
<1> QED BY <1>1, <1>2, <1>4, <1>5, <1>6, StopMoves

\* A stop's close is at its end.
LEMMA ClosedBox ==
  ASSUME BoxInv, NEW p \in Stoppers, Stages!Closed(p)
  PROVE  BoxInv'
<1>1. /\ stopper[p].step = "close" /\ stopper[p].at > Len(Stages!CloseList)
      /\ stopper' = [stopper EXCEPT ![p] = [stopper[p] EXCEPT !.step = "clear"]]
      /\ UNCHANGED <<pc, place, built, own, stage, closes, done, found, manager, present, reported,
                     panicked>>
  BY DEF Stages!Closed, Stages!StarterApart, Stages!Step
<1>2. Active(p)
  BY <1>1 DEF Active
<1>3. stopper[p].box = built /\ built \in done /\ stopper[p].at \in 1..15
      /\ ClosedTo(built, stopper[p].at)
  BY <1>1, <1>2, AtWork
<1>4. stopper[p].at = 15
  BY <1>1, <1>3, CloseOrder
<1> DEFINE s == [stopper[p] EXCEPT !.step = "clear"]
<1>5. /\ s \in [step : {"idle", "test", "mark", "close", "clear"}, box : 0..MaxBoxes, at : 0..15]
      /\ s.step = "clear" /\ s.box = built
  BY <1>3 DEF BoxInv, BoxTypes
<1>6. panicked' \in BOOLEAN
  BY <1>1 DEF BoxInv, BoxTypes, Stages!TypeOK
<1> HIDE DEF s
<1>7. stopper' = [stopper EXCEPT ![p] = s]
  BY <1>1 DEF s
<1>8. ClosedTo(built, 15)
  BY <1>3, <1>4
<1> QED BY <1>1, <1>2, <1>3, <1>5, <1>6, <1>7, <1>8, StopMoves

\* A stop clears what Core holds.
LEMMA ClearBox ==
  ASSUME BoxInv, NEW p \in Stoppers, Stages!Clear(p)
  PROVE  BoxInv'
<1>1. /\ stopper[p].step = "clear" /\ present' = 0
      /\ stopper' = [stopper EXCEPT ![p] = Stages!Idle]
      /\ UNCHANGED <<pc, place, built, own, stage, closes, done, found, manager, reported, panicked>>
  BY DEF Stages!Clear, Stages!StarterApart, Stages!Step
<1>2. Active(p) /\ stopper[p].step # "close"
  BY <1>1 DEF Active
<1>3. built \in done /\ MaxBoxes \in Nat
  BY <1>1, <1>2, AtWork, BoxBounds DEF BoxInv
<1>4. /\ Stages!Idle \in [step : {"idle", "test", "mark", "close", "clear"}, box : 0..MaxBoxes, at : 0..15]
      /\ Stages!Idle.step = "idle"
  BY <1>3 DEF Stages!Idle
<1>5. panicked' \in BOOLEAN
  BY <1>1 DEF BoxInv, BoxTypes, Stages!TypeOK
<1> QED BY <1>1, <1>2, <1>3, <1>4, <1>5, StopMoves

\* The done channel: it is closed already, which panics, or this stop is the one that closes.
LEMMA CloseMarkBox ==
  ASSUME BoxInv, NEW p \in Stoppers, Stages!CloseMark(p)
  PROVE  BoxInv'
<1>0. BoxTypes /\ OtherBoxes /\ Stopping /\ Resting
  BY DEF BoxInv
<1>1. /\ stopper[p].step = "mark"
      /\ UNCHANGED <<pc, place, built, own, stage, closes, found, manager, present, reported>>
  BY DEF Stages!CloseMark, Stages!StarterApart
<1>2. Active(p) /\ stopper[p].step # "close"
  BY <1>1 DEF Active
<1>3. /\ pc = "idle" /\ built # 0 /\ built \in Stages!AllBoxes /\ Stages!AllBoxes = 1..MaxBoxes
      /\ ~ reported /\ stopper[p].box = built /\ present \in {0, built} /\ MaxBoxes \in Nat
  BY <1>2, AtWork, BoxBounds DEF BoxInv
<1>4. CASE built \in done
  <2>1. stopper' = [stopper EXCEPT ![p] = Stages!Idle] /\ panicked' = TRUE /\ UNCHANGED done
    BY <1>3, <1>4 DEF Stages!CloseMark, Stages!Step
  <2>2. /\ Stages!Idle \in [step : {"idle", "test", "mark", "close", "clear"}, box : 0..MaxBoxes, at : 0..15]
        /\ Stages!Idle.step = "idle"
    BY <1>3 DEF Stages!Idle
  <2> QED BY <1>1, <1>2, <2>1, <2>2, StopMoves
<1>5. CASE built \notin done
  <2>1. /\ stopper' = [stopper EXCEPT ![p] = [stopper[p] EXCEPT !.step = "close", !.at = 1]]
        /\ done' = done \union {built} /\ UNCHANGED panicked
    BY <1>3, <1>5 DEF Stages!CloseMark, Stages!Step
  <2>2. /\ stopper'[p].step = "close" /\ stopper'[p].at = 1 /\ stopper'[p].box = built
        /\ \A q \in Stoppers \ {p} : stopper'[q] = stopper[q]
        /\ stopper' \in [Stoppers -> [step : {"idle", "test", "mark", "close", "clear"},
                                      box : 0..MaxBoxes, at : 0..15]]
    <3> DEFINE s == [stopper[p] EXCEPT !.step = "close", !.at = 1]
    <3>0. stopper[p] \in [step : {"idle", "test", "mark", "close", "clear"}, box : 0..MaxBoxes,
                          at : 0..15]
      BY <1>0 DEF BoxTypes
    <3>1. s = [step |-> "close", box |-> built, at |-> 1]
      <4> DEFINE t == [stopper[p] EXCEPT !.step = "close"]
      <4>1. s = [t EXCEPT !.at = 1]
        BY <3>0
      <4>2. t = [step |-> "close", box |-> built, at |-> stopper[p].at]
        BY <1>3, <3>0
      <4> HIDE DEF s, t
      <4> QED BY <4>1, <4>2
    <3>2. stopper' = [stopper EXCEPT ![p] = s]
      BY <2>1
    <3>3. built \in 0..MaxBoxes
      BY <1>3
    <3> HIDE DEF s
    <3> QED BY <1>0, <3>1, <3>2, <3>3 DEF BoxTypes
  <2>3. BoxTypes'
    <3>1. built \in 1..built
      BY <1>3
    <3>2. \A q \in Stoppers : stopper'[q] = Stages!Idle \/ stopper'[q].box \in 1..built
      BY <1>0, <2>2, <3>1 DEF BoxTypes, Stages!TypeOK
    <3> QED BY <1>0, <1>1, <1>3, <2>1, <2>2, <3>2 DEF BoxTypes, Stages!TypeOK
  <2>4. InOrder(built)'
    BY <1>0, <1>1, <1>3 DEF OtherBoxes, InOrder
  <2>5. OtherBoxes'
    BY <1>0, <1>1, <1>3, <2>1, <2>4, LastBoxMoves
  <2>6. NotClosed(built)
    BY <1>0, <1>3, <1>5 DEF Resting
  <2>7. ClosedTo(built, 1)'
    BY <1>1, <2>6, CloseOrder DEF ClosedTo, NotClosed
  <2>8. \A q \in Stoppers : stopper'[q].step = "close" => q = p
    BY <1>0, <1>5, <2>2 DEF Stopping, Active
  <2>9. Stopping'
    <3>1. ASSUME NEW q \in Stoppers
          PROVE  IF Active(q)'
                 THEN /\ stopper'[q].box = built /\ built # 0 /\ ~ reported'
                      /\ stopper'[q].step \in {"close", "clear"} => built \in done'
                      /\ stopper'[q].step = "close" => q = p
                 ELSE stopper'[q] = Stages!Idle
      <4>1. CASE q = p
        BY <1>1, <1>3, <2>1, <2>2, <4>1 DEF Active
      <4>2. CASE q # p
        BY <1>0, <1>1, <1>3, <1>5, <2>1, <2>2, <2>8, <4>2 DEF Stopping, Active
      <4> QED BY <4>1, <4>2
    <3>2. stopper'[p].at # 0 /\ ClosedTo(built, stopper[p].at)'
      BY <2>2, <2>7 DEF ClosedTo
    <3> QED BY <1>1, <2>8, <3>1, <3>2 DEF Stopping, Active
  <2>10. Resting'
    BY <1>1, <1>3, <2>1, <2>2 DEF Resting
  <2> QED BY <1>1, <1>3, <2>3, <2>5, <2>9, <2>10 DEF BoxInv, Starting, Reporting
<1> QED BY <1>4, <1>5

\* One more call of a stop's close; no other stop is at it.
LEMMA StopNextBox ==
  ASSUME BoxInv, NEW p \in Stoppers, Stages!StopNext(p)
  PROVE  BoxInv'
<1>0. BoxTypes /\ OtherBoxes /\ Stopping /\ Resting
  BY DEF BoxInv
<1>1. /\ stopper[p].step = "close" /\ stopper[p].at <= Len(Stages!CloseList)
      /\ stopper' = [stopper EXCEPT ![p] = [stopper[p] EXCEPT !.at = @ + 1]]
      /\ UNCHANGED <<pc, place, built, own, stage, done, found, manager, present, reported, panicked>>
  BY DEF Stages!StopNext, Stages!StarterApart, Stages!Step
<1>2. Active(p)
  BY <1>1 DEF Active
<1>3. /\ pc = "idle" /\ built # 0 /\ built \in Stages!AllBoxes /\ Stages!AllBoxes = 1..MaxBoxes
      /\ ~ reported /\ stopper[p].box = built /\ built \in done /\ stopper[p].at \in 1..15
      /\ ClosedTo(built, stopper[p].at) /\ \A q \in Stoppers \ {p} : stopper[q].step # "close"
  BY <1>1, <1>2, AtWork
<1>4. PICK b \in Stages!AllBoxes : b = built
  BY <1>3
<1>5. PICK k \in 1..14 : k = stopper[p].at
  BY <1>1, <1>3, CloseOrder
<1>6. /\ ClosedTo(b, k + 1)'
      /\ closes' \in [Stages!AllBoxes -> [Stages!Components -> Nat]]
      /\ \A c \in Stages!AllBoxes : c # b => closes'[c] = closes[c]
  <2>1. /\ ClosedTo(b, k) /\ own' = own
        /\ LET x == Stages!CloseList[k]
           IN closes' = IF x \in Stages!Of(b) THEN [closes EXCEPT ![b][x] = @ + 1] ELSE closes
    BY <1>1, <1>3, <1>4, <1>5 DEF Stages!StopNext
  <2> QED BY <1>0, <2>1, CloseGoesOn
<1>7. /\ stopper'[p] = [step |-> "close", box |-> built, at |-> k + 1]
      /\ \A q \in Stoppers \ {p} : stopper'[q] = stopper[q]
      /\ stopper' \in [Stoppers -> [step : {"idle", "test", "mark", "close", "clear"},
                                    box : 0..MaxBoxes, at : 0..15]]
  <2> DEFINE s == [stopper[p] EXCEPT !.at = @ + 1]
  <2>1. /\ s = [step |-> "close", box |-> built, at |-> k + 1]
        /\ s \in [step : {"idle", "test", "mark", "close", "clear"}, box : 0..MaxBoxes, at : 0..15]
    BY <1>0, <1>1, <1>3, <1>5 DEF BoxTypes
  <2>2. stopper' = [stopper EXCEPT ![p] = s]
    BY <1>1
  <2> HIDE DEF s
  <2> QED BY <1>0, <2>1, <2>2 DEF BoxTypes
<1>8. BoxTypes'
  <2>1. built \in 1..built
    BY <1>3
  <2>2. \A q \in Stoppers : stopper'[q] = Stages!Idle \/ stopper'[q].box \in 1..built
    BY <1>0, <1>7, <2>1 DEF BoxTypes, Stages!TypeOK
  <2> QED BY <1>0, <1>1, <1>6, <1>7, <2>2 DEF BoxTypes, Stages!TypeOK, Stages!AllBoxes
<1>9. InOrder(b)'
  BY <1>0, <1>1 DEF OtherBoxes, InOrder
<1>10. OtherBoxes'
  BY <1>0, <1>1, <1>4, <1>6, <1>9, LastBoxMoves
<1>11. ClosedTo(built, stopper[p].at)'
  <2>1. built' = b /\ stopper'[p].at = k + 1
    BY <1>1, <1>4, <1>7
  <2> QED BY <1>6, <2>1 DEF ClosedTo
<1>12. \A q \in Stoppers : stopper'[q].step = "close" => q = p
  BY <1>3, <1>7
<1>13. Stopping'
  <2>1. ASSUME NEW q \in Stoppers
        PROVE  IF Active(q)'
               THEN /\ stopper'[q].box = built /\ built # 0 /\ ~ reported'
                    /\ stopper'[q].step \in {"close", "clear"} => built \in done'
                    /\ stopper'[q].step = "close" => q = p
               ELSE stopper'[q] = Stages!Idle
    <3>1. CASE q = p
      BY <1>1, <1>3, <1>7, <3>1 DEF Active
    <3>2. CASE q # p
      BY <1>0, <1>1, <1>3, <1>7, <1>12, <3>2 DEF Stopping, Active
    <3> QED BY <3>1, <3>2
  <2>2. stopper'[p].at # 0
    BY <1>5, <1>7
  <2> QED BY <1>1, <1>11, <1>12, <2>1, <2>2 DEF Stopping, Active
<1>14. Resting'
  BY <1>0, <1>1, <1>3, <1>7 DEF Resting
<1> QED BY <1>1, <1>3, <1>8, <1>10, <1>13, <1>14 DEF BoxInv, Starting, Reporting

\* The invariant holds at the start.
LEMMA BoxInit == Stages!Init => BoxInv
<1> SUFFICES ASSUME Stages!Init
             PROVE  BoxInv
  OBVIOUS
<1> USE DEF Stages!Init
<1>1. MaxBoxes \in Nat
  BY StagesAssumption DEF Stages!StagesAssumption
<1>2. BoxTypes
  <2>1. Stages!TypeOK
    <3>1. pc = "idle" /\ place \in 0..60 /\ built \in 0..MaxBoxes /\ done \subseteq Stages!AllBoxes
      BY <1>1
    <3>2. /\ own \in [Stages!AllBoxes -> SUBSET Asked]
          /\ stage \in [Stages!AllBoxes -> [Stages!Components -> Stages!Stages]]
          /\ found \in [Stages!Components -> 0..MaxBoxes]
      BY <1>1 DEF Stages!Stages
    <3>3. {present, manager} \subseteq 0..MaxBoxes
      BY <1>1
    <3>5. {reported, panicked} \subseteq BOOLEAN
      BY Zenon
    <3>4. \A p \in Stoppers : stopper[p] = Stages!Idle
      OBVIOUS
    <3> QED BY <3>1, <3>2, <3>3, <3>4, <3>5 DEF Stages!TypeOK
  <2>2. Stages!Idle \in [step : {"idle", "test", "mark", "close", "clear"}, box : 0..MaxBoxes,
                        at : 0..15]
    BY <1>1 DEF Stages!Idle
  <2> QED BY <2>1, <2>2 DEF BoxTypes
<1>3. OtherBoxes
  <2>1. \A b \in Stages!AllBoxes : Unused(b)
    BY DEF Unused, NotStarted, NotClosed
  <2>2. \A b \in Stages!AllBoxes : InOrder(b)
    BY DEF InOrder, Stages!Components, Stages!Managers
  <2> QED BY <1>1, <2>1, <2>2 DEF OtherBoxes, Stages!AllBoxes
<1>4. Starting /\ Resting /\ Reporting
  BY DEF Starting, Resting, Reporting
<1>5. Stopping
  BY DEF Stopping, Active, Stages!Idle
<1> QED BY <1>2, <1>3, <1>4, <1>5 DEF BoxInv

\* Every step of the starter and of the stops keeps it.
LEMMA BoxNext == BoxInv /\ [Stages!Next]_Stages!vars => BoxInv'
<1> SUFFICES ASSUME BoxInv, [Stages!Next]_Stages!vars
             PROVE  BoxInv'
  OBVIOUS
<1>1. CASE Stages!Begin
  BY <1>1, BeginBox
<1>2. CASE Stages!BuildNext
  BY <1>2, BuildNextBox
<1>3. CASE Stages!BuildFails
  BY <1>3, BuildFailsBox
<1>4. CASE Stages!Built
  BY <1>4, BuiltBox
<1>5. CASE Stages!StageNext
  BY <1>5, StageNextBox
<1>6. CASE Stages!StageFails
  BY <1>6, StageFailsBox
<1>7. CASE Stages!CloseNext
  BY <1>7, CloseNextBox
<1>8. CASE Stages!FailedStart
  BY <1>8, FailedStartBox
<1>9. CASE Stages!Publish
  BY <1>9, PublishBox
<1>10. ASSUME NEW p \in Stoppers, Stages!Stop(p) PROVE BoxInv'
  BY <1>10, StopBox
<1>11. ASSUME NEW p \in Stoppers, Stages!CloseTest(p) PROVE BoxInv'
  BY <1>11, CloseTestBox
<1>12. ASSUME NEW p \in Stoppers, Stages!CloseMark(p) PROVE BoxInv'
  BY <1>12, CloseMarkBox
<1>13. ASSUME NEW p \in Stoppers, Stages!StopNext(p) PROVE BoxInv'
  BY <1>13, StopNextBox
<1>14. ASSUME NEW p \in Stoppers, Stages!Closed(p) PROVE BoxInv'
  BY <1>14, ClosedBox
<1>15. ASSUME NEW p \in Stoppers, Stages!Clear(p) PROVE BoxInv'
  BY <1>15, ClearBox
<1>16. CASE UNCHANGED Stages!vars
  BY <1>16 DEF Stages!vars, BoxInv, BoxTypes, Stages!TypeOK, OtherBoxes, Starting, Resting, Stopping,
     Reporting, Unused, NotStarted, NotClosed, StartedTo, ClosedTo, InOrder, Active, Stages!Of,
     Stages!AllBoxes
<1> QED BY <1>1, <1>2, <1>3, <1>4, <1>5, <1>6, <1>7, <1>8, <1>9, <1>10, <1>11, <1>12, <1>13,
           <1>14, <1>15, <1>16 DEF Stages!Next

\* In every stage of a start, after every failure and while stops overlap, what takes traffic is
\* up only while all it needs is; a box that nobody holds has been closed to its last component,
\* and none twice.
THEOREM BoxesWhole == Stages!Spec => [](Stages!TypeOK /\ ClosedAsOpened)
BY BoxInit, BoxNext, BoxInvMeans, PTL DEF Stages!Spec

\* A core that reports itself running is whole: BoxInv says which stage every start and every
\* close has come to.
THEOREM RunningAlwaysWhole == Stages!Spec => []RunningIsWhole
BY BoxInit, BoxNext, BoxInvMeans, PTL DEF Stages!Spec

-----------------------------------------------------------------------------
\* The variables of the three parts have their types whichever of them moves, as in the run
\* `core_lifecycle`.
THEOREM PartsTypeCorrect == MCSpec => []PartsTypeOK
<1>1. MCInit => TypeOK /\ ConnInv /\ BoxInv
  <2>1. Init => TypeOK
    BY TypeInit
  <2>2. Tracker!Init => ConnInv
    BY TrackerAssumption, ConnInit
  <2> QED BY <2>1, <2>2, BoxInit DEF MCInit
<1>2. TypeOK /\ ConnInv /\ BoxInv /\ [MCNext]_<<part, vars, connVars, stageVars>>
        => TypeOK' /\ ConnInv' /\ BoxInv'
  <2> SUFFICES ASSUME TypeOK, ConnInv, BoxInv, [MCNext]_<<part, vars, connVars, stageVars>>
               PROVE  TypeOK' /\ ConnInv' /\ BoxInv'
    OBVIOUS
  <2>1. [Next]_vars
    BY DEF MCNext
  <2>2. [Tracker!Next]_Tracker!vars
    <3>1. UNCHANGED connVars => UNCHANGED Tracker!vars
      BY DEF connVars, Tracker!vars
    <3> QED BY <3>1 DEF MCNext
  <2>3. [Stages!Next]_Stages!vars
    <3>1. UNCHANGED stageVars => UNCHANGED Stages!vars
      BY DEF stageVars, Stages!vars
    <3> QED BY <3>1 DEF MCNext
  <2> QED BY <2>1, <2>2, <2>3, TypeOKStep, TrackerAssumption, ConnNext, BoxNext
<1>3. TypeOK /\ ConnInv /\ BoxInv => PartsTypeOK
  BY BoxInvMeans DEF ConnInv, PartsTypeOK
<1> QED BY <1>1, <1>2, <1>3, PTL DEF MCSpec
=============================================================================
