------------------------------- MODULE BoxStages -------------------------------
(***************************************************************************)
(* A box inside: what NewBox builds and registers, the order in which      *)
(* Box.Start takes its managers and optional services through the stages,  *)
(* and how Box.Close takes them down, after a failure or for a stop.       *)
(*                                                                         *)
(* Every box registers what it builds in the one registry of globalCtx,    *)
(* where a later box finds it too.  Any step of a build or a start may     *)
(* fail, and any component may panic while it closes.  A stop during a     *)
(* start is the subject of CoreLifecycle; here stops only meet each other. *)
(***************************************************************************)
EXTENDS Naturals, Sequences

CONSTANTS Stoppers, \* callers of Core.Stop that may overlap
          Asked,    \* the optional services a configuration may ask for
          MaxBoxes  \* bound: boxes that are built

\* The internalServices, in the order of their list.
Optional == <<"certificate", "cache-file", "clash", "v2ray", "ntp">>
Services == {"certificate", "cache-file", "clash", "v2ray", "ntp"}

StagesAssumption == Asked \subseteq Services /\ MaxBoxes \in Nat

VARIABLES
  pc,       \* of the starter: "idle", "build", "start", "close", "publish"
  at,       \* its place in the list it works on
  boxes,    \* boxes so far; the one being built or started is the last
  own,      \* of each box: the optional services it has
  stage,    \* of each box and component: the stage it has reached
  closes,   \* of each box and component: how often its Close was called
  done,     \* boxes whose done channel is closed
  found,    \* the registry: of each component, the box that registered it last
  instance, isRunning,
  manager,  \* inbound_manager, outbound_manager...: the box they belong to
  stopper,  \* of a stopper: its step, its box, its place
  panicked  \* history: a Close of a closed channel

vars == <<pc, at, boxes, own, stage, closes, done, found, instance, isRunning, manager,
          stopper, panicked>>

Stages == 0 .. 4
Initialize == 1
Start == 2
PostStart == 3
Started == 4

\* What takes traffic, and what it hands it to.
Faces == {"inbound", "endpoint", "service"}
Base == {"outbound", "dns-transport", "dns-router", "network", "connection", "router"}
Managers == Base \union Faces
Components == Managers \union Services
Of(b) == Managers \union own[b]
AllBoxes == 1 .. MaxBoxes

-----------------------------------------------------------------------------
(* The orders.  A list has a place for every optional service; where the box has none, *)
(* the place is passed over. *)

Through(names, to) == [i \in DOMAIN names |-> [component |-> names[i], to |-> to]]

\* What NewBox makes, in order; "rules", "servers" and so on are only checked.
BuildList ==
            <<"registries", "log", "certificate",
              "endpoint", "inbound", "outbound", "dns-transport", "service",
              "dns-router", "network", "connection", "router", "rules",
              "servers", "dns-rules", "endpoints", "inbounds", "outbounds", "services",
              "cache-file", "clash", "v2ray", "ntp">>

AllInOrder == <<"network", "dns-transport", "dns-router", "connection", "router",
                "outbound", "inbound", "endpoint", "service">>

PreStart ==
  Through(Optional, Initialize) \o Through(AllInOrder, Initialize)
  \o Through(<<"outbound", "dns-transport", "dns-router", "network", "connection", "router">>, Start)

StartList ==
  PreStart \o Through(Optional, Start) \o Through(<<"inbound", "endpoint", "service">>, Start)
  \o Through(<<"outbound", "network", "dns-transport", "dns-router", "connection", "router",
               "inbound", "endpoint", "service">>, PostStart)
  \o Through(Optional, PostStart)
  \o Through(AllInOrder, Started) \o Through(Optional, Started)

\* Mutant: the reverse of the order in which they were initialized.
CloseListReversed ==
  <<"outbound", "router", "connection", "dns-router", "dns-transport", "network",
    "service", "endpoint", "inbound">> \o Optional
CloseList ==
  <<"service", "endpoint", "inbound", "outbound", "router", "connection", "dns-router",
    "dns-transport", "network">> \o Optional

Idle == [step |-> "idle", box |-> 0, at |-> 0]

Init ==
  /\ pc = "idle" /\ at = 0 /\ boxes = 0
  /\ own = [b \in AllBoxes |-> {}]
  /\ stage = [b \in AllBoxes |-> [x \in Components |-> 0]]
  /\ closes = [b \in AllBoxes |-> [x \in Components |-> 0]]
  /\ done = {}
  /\ found = [x \in Components |-> 0]
  /\ instance = 0 /\ isRunning = FALSE /\ manager = 0
  /\ stopper = [p \in Stoppers |-> Idle] /\ panicked = FALSE

-----------------------------------------------------------------------------
(* Core.Start: build, start, publish. *)

StopperApart == <<stopper, panicked>>

Begin ==
  /\ pc = "idle" /\ instance = 0 /\ boxes < MaxBoxes
  /\ \A p \in Stoppers : stopper[p].step = "idle"
  /\ \E wanted \in SUBSET Asked : own' = [own EXCEPT ![boxes + 1] = wanted]
  /\ boxes' = boxes + 1 /\ pc' = "build" /\ at' = 1
  /\ UNCHANGED <<stage, closes, done, found, instance, isRunning, manager, StopperApart>>

\* NewBox makes the next part; one of the managers and services is registered.
BuildNext ==
  /\ pc = "build" /\ at <= Len(BuildList)
  /\ LET x == BuildList[at]
     IN found' = IF x \in Of(boxes) THEN [found EXCEPT ![x] = boxes] ELSE found
  /\ at' = at + 1
  /\ UNCHANGED <<pc, boxes, own, stage, closes, done, instance, isRunning, manager, StopperApart>>

\* It fails: there is no box, and what was made is left as it is.
BuildFails ==
  /\ pc = "build" /\ at <= Len(BuildList)
  /\ BuildList[at] \in Services => BuildList[at] \in own[boxes]
  /\ BuildList[at] \notin {"endpoint", "inbound", "outbound", "dns-transport", "service",
                              "dns-router", "connection", "router", "cache-file"}
  /\ pc' = "idle" /\ at' = 0
  /\ UNCHANGED <<boxes, own, stage, closes, done, found, instance, isRunning, manager, StopperApart>>

Built ==
  /\ pc = "build" /\ at > Len(BuildList)
  /\ instance' = boxes /\ pc' = "start" /\ at' = 1
  /\ UNCHANGED <<boxes, own, stage, closes, done, found, isRunning, manager, StopperApart>>

StageNext ==
  /\ pc = "start" /\ at <= Len(StartList)
  /\ LET s == StartList[at]
     IN stage' = IF s.component \in Of(boxes) THEN [stage EXCEPT ![boxes][s.component] = s.to]
                 ELSE stage
  /\ at' = at + 1
  /\ UNCHANGED <<pc, boxes, own, closes, done, found, instance, isRunning, manager, StopperApart>>

\* A start fails; the box is closed.
StageFails ==
  /\ pc = "start" /\ at <= Len(StartList)
  /\ pc' = "close" /\ at' = 1 /\ done' = done \union {boxes}
  /\ UNCHANGED <<boxes, own, stage, closes, found, instance, isRunning, manager, StopperApart>>

\* Of Box.Close, the next component; it may panic, and the loop goes on.
CloseNext ==
  /\ pc = "close" /\ at <= Len(CloseList)
  /\ closes' = IF CloseList[at] \in Of(boxes) THEN [closes EXCEPT ![boxes][CloseList[at]] = @ + 1]
               ELSE closes
  /\ at' = at + 1
  /\ UNCHANGED <<pc, boxes, own, stage, done, found, instance, isRunning, manager, StopperApart>>

FailedStart ==
  /\ pc = "close" /\ at > Len(CloseList)
  /\ instance' = 0 /\ pc' = "idle" /\ at' = 0
  /\ UNCHANGED <<boxes, own, stage, closes, done, found, isRunning, manager, StopperApart>>

\* The managers of the registry become those AddInbound and the others work on.
\* Mutant: only once.
PublishOnce ==
  /\ pc = "start" /\ at > Len(StartList)
  /\ manager' = IF manager = 0 THEN found["inbound"] ELSE manager
  /\ isRunning' = TRUE /\ pc' = "idle" /\ at' = 0
  /\ UNCHANGED <<boxes, own, stage, closes, done, found, instance, StopperApart>>
Publish ==
  /\ pc = "start" /\ at > Len(StartList)
  /\ manager' = found["inbound"]
  /\ isRunning' = TRUE /\ pc' = "idle" /\ at' = 0
  /\ UNCHANGED <<boxes, own, stage, closes, done, found, instance, StopperApart>>

-----------------------------------------------------------------------------
(* Core.Stop and Box.Close. *)

StarterApart == <<pc, at, boxes, own, stage, found, manager>>
Step(p, s) == stopper' = [stopper EXCEPT ![p] = s]

\* Mutant: without the test for nil.
StopUntested(p) ==
  /\ stopper[p].step = "idle" /\ pc = "idle"
  /\ isRunning' = FALSE
  /\ Step(p, [step |-> "test", box |-> instance, at |-> 0])
  /\ UNCHANGED <<StarterApart, closes, done, instance, panicked>>
Stop(p) ==
  /\ stopper[p].step = "idle" /\ pc = "idle"
  /\ isRunning' = FALSE
  /\ IF instance = 0 THEN UNCHANGED stopper ELSE Step(p, [step |-> "test", box |-> instance, at |-> 0])
  /\ UNCHANGED <<StarterApart, closes, done, instance, panicked>>

\* The done channel is tested, and closed in a second step.
CloseTest(p) ==
  /\ stopper[p].step = "test"
  /\ Step(p, [stopper[p] EXCEPT !.step = IF stopper[p].box \in done THEN "clear" ELSE "mark"])
  /\ UNCHANGED <<StarterApart, closes, done, instance, isRunning, panicked>>
CloseMark(p) ==
  /\ stopper[p].step = "mark"
  /\ IF stopper[p].box \in done
     THEN Step(p, Idle) /\ panicked' = TRUE /\ UNCHANGED done
     ELSE /\ Step(p, [stopper[p] EXCEPT !.step = "close", !.at = 1])
          /\ done' = done \union {stopper[p].box} /\ UNCHANGED panicked
  /\ UNCHANGED <<StarterApart, closes, instance, isRunning>>

\* A component closes; a panic in it is caught.
StopNext(p) ==
  /\ stopper[p].step = "close" /\ stopper[p].at <= Len(CloseList)
  /\ LET x == CloseList[stopper[p].at]
     IN closes' = IF x \in Of(stopper[p].box) THEN [closes EXCEPT ![stopper[p].box][x] = @ + 1]
                  ELSE closes
  /\ Step(p, [stopper[p] EXCEPT !.at = @ + 1])
  /\ UNCHANGED <<StarterApart, done, instance, isRunning, panicked>>

Closed(p) ==
  /\ stopper[p].step = "close" /\ stopper[p].at > Len(CloseList)
  /\ Step(p, [stopper[p] EXCEPT !.step = "clear"])
  /\ UNCHANGED <<StarterApart, closes, done, instance, isRunning, panicked>>

Clear(p) ==
  /\ stopper[p].step = "clear"
  /\ instance' = 0 /\ Step(p, Idle)
  /\ UNCHANGED <<StarterApart, closes, done, isRunning, panicked>>

Next ==
  \/ Begin \/ BuildNext \/ BuildFails \/ Built \/ StageNext \/ StageFails
  \/ CloseNext \/ FailedStart \/ Publish
  \/ \E p \in Stoppers : \/ Stop(p) \/ CloseTest(p) \/ CloseMark(p)
                         \/ StopNext(p) \/ Closed(p) \/ Clear(p)

Spec == Init /\ [][Next]_vars

-----------------------------------------------------------------------------
(* Properties. *)

Up(b, x) == stage[b][x] >= Start /\ closes[b][x] = 0

\* The variables have their types; a stop works on a box there is.
TypeOK ==
  /\ pc \in {"idle", "build", "start", "close"} /\ at \in 0 .. 60 /\ boxes \in 0 .. MaxBoxes
  /\ own \in [AllBoxes -> SUBSET Asked]
  /\ stage \in [AllBoxes -> [Components -> Stages]]
  /\ done \subseteq AllBoxes /\ found \in [Components -> 0 .. MaxBoxes]
  /\ {instance, manager} \subseteq 0 .. MaxBoxes /\ {isRunning, panicked} \subseteq BOOLEAN
  /\ \A p \in Stoppers : stopper[p] = Idle \/ stopper[p].box \in 1 .. boxes

\* While an inbound, an endpoint or a service is up, taking traffic, all it hands the traffic to
\* is up as well, in every box: during its start, after a failure and while it closes.
Supported ==
  \A b \in AllBoxes : (\E x \in Faces : Up(b, x))
                   => \A y \in Base \union own[b] : Up(b, y)

\* No component is closed twice, however the stops of a box overlap.
ClosedOnce == \A b \in AllBoxes, x \in Components : closes[b][x] <= 1

\* What a box has opened is closed when no one holds the box any more and no one is closing it.
NothingLeft ==
  \A b \in AllBoxes :
    (instance # b /\ ~ (pc \in {"build", "start", "close"} /\ boxes = b)
     /\ \A p \in Stoppers : stopper[p].box # b)
    => \A x \in Of(b) : ~ Up(b, x)

\* A core that reports itself running has every part of its box at the last stage, and the
\* managers that additions and removals work on are those of that box.
RunningIsWhole ==
  isRunning => /\ instance # 0 /\ manager = instance
               /\ \A x \in Of(instance) : stage[instance][x] = Started /\ closes[instance][x] = 0
================================================================================
